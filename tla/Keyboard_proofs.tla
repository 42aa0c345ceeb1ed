--------------------------- MODULE Keyboard_proofs ----------------------------
(***************************************************************************)
(* Proofs about module Keyboard: the ring of events gives readers what was *)
(* accepted, in order, and no modifier sticks.                             *)
(***************************************************************************)
EXTENDS Keyboard, IndexLemmas, SequenceTheorems

Keys == Typed \cup Modifiers
Bytes == [key : Keys \cup {"e0"}, released : BOOLEAN]
Flags == {"shift", "ctrl", "alt", "caps"}
Events == [key : Typed \cup {"char"}, ch : {NoChar} \cup ({"lower", "upper", "ctrl"} \X Typed),
           modifiers : SUBSET Flags]
Indices == 0 .. BufferSize - 1
Drivers ==
    [buffer : [Indices -> Events \cup {NoChar}], read_index : Indices, write_index : Indices,
     shift_down : BOOLEAN, ctrl_down : BOOLEAN, alt_down : BOOLEAN,
     caps_lock : BOOLEAN, extended_scancode : BOOLEAN]

(* Types of the variables; the indices stay within the buffer.             *)
TypeOK ==
    /\ kbd \in Drivers
    /\ wire \in Seq(Bytes)
    /\ held \in SUBSET Modifiers
    /\ pending \in Seq(Events)

-----------------------------------------------------------------------------
(* The ring.                                                               *)

LEMMA Wraps ==
    ASSUME NEW x \in 0 .. BufferSize + BufferSize - 1
    PROVE  x % BufferSize = IF x < BufferSize THEN x ELSE x - BufferSize
<1>1. BufferSize \in Nat /\ BufferSize > 0
  BY KeyboardAssumption
<1>2. CASE x < BufferSize
  BY <1>1, <1>2
<1>3. CASE x >= BufferSize
  <2>1. x \in BufferSize .. 2 * BufferSize - 1
    BY <1>1, <1>3
  <2>2. x % BufferSize = x - BufferSize
    BY <1>1, <2>1
  <2> QED
    BY <1>1, <1>3, <2>2
<1> QED
  BY <1>1, <1>2, <1>3

LEMMA Advances ==
    ASSUME NEW i \in Indices
    PROVE  next(i) = (IF i = BufferSize - 1 THEN 0 ELSE i + 1) /\ next(i) \in Indices
<1>1. i + 1 \in 0 .. BufferSize + BufferSize - 1
  BY KeyboardAssumption DEF Indices
<1> QED
  BY <1>1, Wraps, KeyboardAssumption DEF next, Indices

LEMMA HowMany ==
    ASSUME NEW k, k.read_index \in Indices, k.write_index \in Indices
    PROVE  /\ Pending(k) = IF k.write_index >= k.read_index THEN k.write_index - k.read_index
                           ELSE k.write_index + BufferSize - k.read_index
           /\ Pending(k) \in Indices
<1>1. k.write_index + BufferSize - k.read_index \in 0 .. BufferSize + BufferSize - 1
  BY KeyboardAssumption DEF Indices
<1> QED
  BY <1>1, Wraps, KeyboardAssumption DEF Pending, Indices

(* The slot of the i-th event that waits.                                  *)
LEMMA SlotOf ==
    ASSUME NEW r \in Indices, NEW i \in 1 .. BufferSize
    PROVE  /\ (r + i - 1) % BufferSize = (IF r + i - 1 < BufferSize THEN r + i - 1
                                         ELSE r + i - 1 - BufferSize)
           /\ (r + i - 1) % BufferSize \in Indices
<1>1. r + i - 1 \in 0 .. BufferSize + BufferSize - 1
  BY KeyboardAssumption DEF Indices
<1> QED
  BY <1>1, Wraps, KeyboardAssumption DEF Indices

-----------------------------------------------------------------------------
(* Sequence s is what waits in the ring of k.                              *)
Waiting(k, s) ==
    s = [i \in 1 .. Pending(k) |-> k.buffer[(k.read_index + i - 1) % BufferSize]]

(* Writing: an event goes behind those that wait.                          *)

LEMMA PushKeepsOrder ==
    ASSUME NEW k \in Drivers, NEW s \in Seq(Events), NEW e \in Events, Waiting(k, s)
    PROVE  LET l == push_event(k, e)
               t == IF Len(s) < BufferSize - 1 THEN Append(s, e) ELSE s
           IN  /\ l \in Drivers
               /\ t \in Seq(Events)
               /\ Waiting(l, t)
               /\ \A f \in {"shift_down", "ctrl_down", "alt_down", "extended_scancode"} : l[f] = k[f]
<1> DEFINE r == k.read_index
           w == k.write_index
           v == next(w)
           l == push_event(k, e)
           n == Pending(k)
           m == Pending(l)
           t == Append(s, e)
<1>1. r \in Indices /\ w \in Indices /\ BufferSize \in Nat /\ BufferSize > 1
  BY KeyboardAssumption DEF Drivers
<1>2. v \in Indices /\ v = IF w = BufferSize - 1 THEN 0 ELSE w + 1
  BY <1>1, Advances
<1>3. n \in Indices /\ n = IF w >= r THEN w - r ELSE w + BufferSize - r
  BY <1>1, HowMany
<1>4. Len(s) = n /\ \A i \in 1 .. n : s[i] = k.buffer[(r + i - 1) % BufferSize]
  BY <1>1, <1>3 DEF Indices, Waiting
<1>5. full(k) <=> v = r
  BY DEF full
<1>6. v = r <=> n = BufferSize - 1
  <2> HIDE DEF r, w, v, n
  <2> QED
    BY <1>1, <1>2, <1>3 DEF Indices
<1>7. CASE full(k)
  <2>1. l = k
    BY <1>7 DEF push_event
  <2>2. ~(Len(s) < BufferSize - 1)
    BY <1>1, <1>4, <1>5, <1>6, <1>7
  <2> QED
    BY <2>1, <2>2
<1>8. CASE ~full(k)
  <2>1. l = [k EXCEPT !.buffer[w] = e, !.write_index = v]
    BY <1>8 DEF push_event
  <2>2. /\ l \in Drivers
        /\ l.read_index = r /\ l.write_index = v
        /\ l.buffer = [k.buffer EXCEPT ![w] = e]
    <3>1. [k.buffer EXCEPT ![w] = e] \in [Indices -> Events \cup {NoChar}]
      BY DEF Drivers
    <3> QED
      BY <1>2, <2>1, <3>1 DEF Drivers
  <2>3. \A f \in {"shift_down", "ctrl_down", "alt_down", "extended_scancode"} : l[f] = k[f]
    BY <2>1 DEF Drivers
  <2>4. m = IF v >= r THEN v - r ELSE v + BufferSize - r
    BY <1>1, <1>2, <2>2, HowMany
  <2>5. /\ l.buffer[w] = e
        /\ \A j \in Indices : j # w => l.buffer[j] = k.buffer[j]
    BY <1>1, <2>2 DEF Drivers
  <2>6. Len(s) < BufferSize - 1
    <3> HIDE DEF n
    <3> QED
      BY <1>1, <1>3, <1>4, <1>5, <1>6, <1>8 DEF Indices
  <2> HIDE DEF l, n, r, w, v, m
  <2>7. m = n + 1
    BY <1>1, <1>2, <1>3, <1>5, <1>8, <2>4 DEF Indices
  <2>8. /\ t \in Seq(Events) /\ Len(t) = n + 1
        /\ t[n + 1] = e /\ \A i \in 1 .. n : t[i] = s[i]
    BY <1>1, <1>3, <1>4 DEF Indices
  <2> HIDE DEF t
  <2>9. ASSUME NEW i \in 1 .. n + 1
        PROVE  t[i] = l.buffer[(r + i - 1) % BufferSize]
    <3> DEFINE slot == (r + i - 1) % BufferSize
    <3>1. slot \in Indices /\ slot = IF r + i - 1 < BufferSize THEN r + i - 1 ELSE r + i - 1 - BufferSize
      <4>1. i \in 1 .. BufferSize
        BY <1>1, <1>3 DEF Indices
      <4> QED
        BY <1>1, <4>1, SlotOf
    <3> HIDE DEF slot
    <3>2. CASE i = n + 1
      <4>1. slot = w
        BY <1>1, <1>3, <3>1, <3>2 DEF Indices
      <4> QED
        BY <2>5, <2>8, <3>2, <4>1 DEF slot
    <3>3. CASE i # n + 1
      <4>1. i \in 1 .. n
        BY <1>3, <3>3 DEF Indices
      <4>2. slot # w
        BY <1>1, <1>3, <3>1, <4>1 DEF Indices
      <4>3. l.buffer[slot] = k.buffer[slot]
        BY <2>5, <3>1, <4>2
      <4> QED
        BY <1>4, <2>8, <4>1, <4>3 DEF slot
    <3> QED
      BY <3>2, <3>3
  <2>10. Waiting(l, t)
    <3>1. t = [i \in 1 .. n + 1 |-> t[i]]
      BY <2>8
    <3>2. t = [i \in 1 .. m |-> l.buffer[(l.read_index + i - 1) % BufferSize]]
      BY <3>1, <2>2, <2>7, <2>9
    <3> QED
      BY <3>2 DEF Waiting, m
  <2> QED
    BY <2>2, <2>3, <2>6, <2>8, <2>10 DEF l, t
<1> QED
  BY <1>7, <1>8

(* Reading: the first n of those that wait are taken.                      *)
LEMMA TakeKeepsOrder ==
    ASSUME NEW k \in Drivers, NEW s \in Seq(Events), Waiting(k, s), NEW n \in 1 .. Pending(k)
    PROVE  LET l == [k EXCEPT !.read_index = (@ + n) % BufferSize]
               t == SubSeq(s, n + 1, Len(s))
           IN  /\ l \in Drivers
               /\ t \in Seq(Events)
               /\ Waiting(l, t)
               /\ \A f \in {"shift_down", "ctrl_down", "alt_down", "extended_scancode"} : l[f] = k[f]
<1> DEFINE r == k.read_index
           w == k.write_index
           p == Pending(k)
           q == (r + n) % BufferSize
           l == [k EXCEPT !.read_index = q]
           m == Pending(l)
           t == SubSeq(s, n + 1, Len(s))
<1>1. r \in Indices /\ w \in Indices /\ BufferSize \in Nat /\ BufferSize > 1
  BY KeyboardAssumption DEF Drivers
<1>2. p \in Indices /\ p = IF w >= r THEN w - r ELSE w + BufferSize - r
  BY <1>1, HowMany
<1>3. q \in Indices /\ q = IF r + n < BufferSize THEN r + n ELSE (r + n) - BufferSize
  <2> DEFINE x == r + n
  <2>1. x \in 0 .. BufferSize + BufferSize - 1
    BY <1>1, <1>2 DEF Indices
  <2>2. q = x % BufferSize
    OBVIOUS
  <2> HIDE DEF q, x
  <2>3. q = IF x < BufferSize THEN x ELSE x - BufferSize
    BY <2>1, <2>2, Wraps
  <2>4. q \in Indices
    BY <1>1, <2>1, <2>3 DEF Indices
  <2> QED
    BY <2>3, <2>4 DEF x
<1>4. Len(s) = p /\ \A i \in 1 .. p : s[i] = k.buffer[(r + i - 1) % BufferSize]
  BY <1>1, <1>2 DEF Indices, Waiting
<1>5. l \in Drivers /\ l.read_index = q /\ l.write_index = w /\ l.buffer = k.buffer
  BY <1>3 DEF Drivers
<1>6. \A f \in {"shift_down", "ctrl_down", "alt_down", "extended_scancode"} : l[f] = k[f]
  BY DEF Drivers
<1>7. m = IF w >= q THEN w - q ELSE w + BufferSize - q
  BY <1>1, <1>3, <1>5, HowMany
<1>8. n \in 1 .. p
  OBVIOUS
<1> HIDE DEF r, w, p, q, l, m
<1>9. m = p - n
  BY <1>1, <1>2, <1>3, <1>7, <1>8 DEF Indices
<1>10. t \in Seq(Events) /\ Len(t) = p - n /\ \A i \in 1 .. p - n : t[i] = s[n + i]
  BY <1>1, <1>2, <1>4, <1>8 DEF Indices
<1> HIDE DEF t
<1>11. ASSUME NEW i \in 1 .. p - n
       PROVE  t[i] = k.buffer[(q + i - 1) % BufferSize]
  <2>1. i \in 1 .. BufferSize /\ n + i \in 1 .. BufferSize /\ n + i \in 1 .. p
    BY <1>1, <1>2, <1>8 DEF Indices
  <2> DEFINE x == (q + i - 1) % BufferSize
             y == (r + (n + i) - 1) % BufferSize
  <2>2. x = IF q + i - 1 < BufferSize THEN q + i - 1 ELSE q + i - 1 - BufferSize
    BY <1>3, <2>1, SlotOf
  <2>3. y = IF r + (n + i) - 1 < BufferSize THEN r + (n + i) - 1 ELSE r + (n + i) - 1 - BufferSize
    BY <1>1, <2>1, SlotOf
  <2> HIDE DEF x, y
  <2>4. x = y
    BY <1>1, <1>2, <1>3, <1>8, <2>1, <2>2, <2>3 DEF Indices
  <2>5. t[i] = s[n + i] /\ s[n + i] = k.buffer[y]
    BY <1>4, <1>10, <2>1 DEF y
  <2> QED
    BY <2>4, <2>5 DEF x
<1>12. Waiting(l, t)
  <2>1. t = [i \in 1 .. p - n |-> t[i]]
    BY <1>10
  <2>2. t = [i \in 1 .. m |-> l.buffer[(l.read_index + i - 1) % BufferSize]]
    BY <2>1, <1>5, <1>9, <1>11
  <2> QED
    BY <2>2 DEF Waiting, m
<1> QED
  BY <1>5, <1>6, <1>10, <1>12 DEF l, t, q, r

-----------------------------------------------------------------------------
(* Modifiers.  For a class C of keys that share the flag f: of the bytes   *)
(* w on their way the last one of the class is a press only if a key of    *)
(* the class is down; and so it is if the flag is set and none is on its   *)
(* way.                                                                    *)
Tracked(w, down, C, f) ==
    /\ \A i \in 1 .. Len(w) :
          (w[i].key \in C /\ ~w[i].released /\ \A j \in i + 1 .. Len(w) : w[j].key \notin C)
             => down \cap C # {}
    /\ (f /\ \A i \in 1 .. Len(w) : w[i].key \notin C) => down \cap C # {}

(* A prefix is followed by the byte it belongs to; ext: it has been taken, *)
(* and that byte has not.                                                  *)
Aligned(w, ext) ==
    /\ \A i \in 1 .. Len(w) : w[i] = Prefix => i < Len(w) /\ w[i + 1].key \in Prefixed
    /\ ext => w # <<>> /\ w[1].key \in Prefixed

Modified ==
    /\ Tracked(wire, held, Shifts, kbd.shift_down)
    /\ Tracked(wire, held, Ctrls, kbd.ctrl_down)
    /\ Tracked(wire, held, Alts, kbd.alt_down)
    /\ Aligned(wire, kbd.extended_scancode)

IInv == TypeOK /\ KeysInOrder /\ Modified

(* A byte is taken: it sets the flag of its class and no other.            *)
LEMMA TakenTracked ==
    ASSUME NEW w \in Seq(Bytes), w # <<>>, NEW down, NEW C, NEW f, NEW g,
           Tracked(w, down, C, f),
           Head(w).key \in C => (g <=> ~Head(w).released),
           Head(w).key \notin C => (g <=> f)
    PROVE  Tracked(Tail(w), down, C, g)
<1> DEFINE t == Tail(w)
<1>1. Len(w) \in Nat /\ Len(w) >= 1 /\ Len(t) = Len(w) - 1 /\ \A i \in 1 .. Len(t) : t[i] = w[i + 1]
  OBVIOUS
<1>2. Head(w) = w[1]
  OBVIOUS
<1> HIDE DEF t
<1>3. ASSUME NEW i \in 1 .. Len(t), t[i].key \in C, ~t[i].released,
             \A j \in i + 1 .. Len(t) : t[j].key \notin C
      PROVE  down \cap C # {}
  <2>1. i + 1 \in 1 .. Len(w) /\ w[i + 1] = t[i]
    BY <1>1
  <2>2. ASSUME NEW j \in i + 1 + 1 .. Len(w) PROVE w[j].key \notin C
    <3>1. j - 1 \in i + 1 .. Len(t) /\ w[j] = t[j - 1]
      BY <1>1
    <3> QED
      BY <1>3, <3>1
  <2> QED
    BY <1>3, <2>1, <2>2 DEF Tracked
<1>4. ASSUME g, \A i \in 1 .. Len(t) : t[i].key \notin C
      PROVE  down \cap C # {}
  <2>1. ASSUME NEW i \in 2 .. Len(w) PROVE w[i].key \notin C
    <3>1. i - 1 \in 1 .. Len(t) /\ w[i] = t[i - 1]
      BY <1>1
    <3> QED
      BY <1>4, <3>1
  <2>2. CASE w[1].key \in C
    <3>1. ~w[1].released
      BY <1>2, <1>4, <2>2
    <3>2. 1 \in 1 .. Len(w) /\ \A j \in 1 + 1 .. Len(w) : w[j].key \notin C
      BY <1>1, <2>1
    <3> QED
      BY <2>2, <3>1, <3>2 DEF Tracked
  <2>3. CASE w[1].key \notin C
    <3>1. f
      BY <1>2, <1>4, <2>3
    <3>2. \A i \in 1 .. Len(w) : w[i].key \notin C
      BY <1>1, <2>1, <2>3
    <3> QED
      BY <3>1, <3>2 DEF Tracked
  <2> QED
    BY <2>2, <2>3
<1> QED
  BY <1>3, <1>4 DEF Tracked, t

(* Bytes are sent: what a key's press or release appends to the wire.      *)
Sent(w, x, key, released) ==
    /\ x \in Seq(Bytes) /\ Len(x) \in {Len(w) + 1, Len(w) + 2}
    /\ \A i \in 1 .. Len(w) : x[i] = w[i]
    /\ x[Len(x)] = Code(key, released)
    /\ Len(x) = Len(w) + 2 => key \in Prefixed /\ x[Len(w) + 1] = Prefix

LEMMA SendAppends ==
    ASSUME wire \in Seq(Bytes), NEW key \in Keys, NEW released \in BOOLEAN, Send(key, released)
    PROVE  Sent(wire, wire', key, released)
<1>1. Code(key, released) \in Bytes /\ Prefix \in Bytes
  BY DEF Code, Prefix, Bytes
<1>2. CASE key \in Prefixed
  <2> DEFINE b == <<Prefix>> \o <<Code(key, released)>>
  <2>1. wire' = wire \o b
    BY <1>2 DEF Send
  <2>2. b \in Seq(Bytes) /\ Len(b) = 2 /\ b[1] = Prefix /\ b[2] = Code(key, released)
    BY <1>1
  <2> HIDE DEF b
  <2>3. /\ wire' \in Seq(Bytes) /\ Len(wire') = Len(wire) + Len(b) /\ Len(wire) \in Nat
        /\ \A i \in 1 .. Len(wire) + Len(b) :
              wire'[i] = IF i <= Len(wire) THEN wire[i] ELSE b[i - Len(wire)]
    <3>1. b \in Seq(Bytes)
      BY <2>2
    <3>2. /\ wire \o b \in Seq(Bytes) /\ Len(wire \o b) = Len(wire) + Len(b)
          /\ \A i \in 1 .. Len(wire) + Len(b) :
                (wire \o b)[i] = IF i <= Len(wire) THEN wire[i] ELSE b[i - Len(wire)]
      BY <3>1, ConcatProperties, Zenon
    <3>3. Len(wire) \in Nat
      OBVIOUS
    <3> QED
      BY <2>1, <3>2, <3>3, Zenon
  <2>4. \A i \in 1 .. Len(wire) : wire'[i] = wire[i]
    BY <2>2, <2>3
  <2>5. wire'[Len(wire) + 1] = b[1] /\ wire'[Len(wire) + 2] = b[2]
    BY <2>2, <2>3
  <2> QED
    BY <1>2, <2>2, <2>3, <2>4, <2>5 DEF Sent
<1>3. CASE key \notin Prefixed
  <2>1. wire' = wire \o (<<>> \o <<Code(key, released)>>)
    BY <1>3 DEF Send
  <2>2. <<>> \o <<Code(key, released)>> = <<Code(key, released)>>
    OBVIOUS
  <2> QED
    BY <1>1, <1>3, <2>1, <2>2 DEF Sent
<1> QED
  BY <1>2, <1>3

LEMMA SentAligned ==
    ASSUME NEW w \in Seq(Bytes), NEW x, NEW key \in Keys, NEW released \in BOOLEAN, NEW ext,
           Sent(w, x, key, released), Aligned(w, ext)
    PROVE  Aligned(x, ext)
<1>1. Len(w) \in Nat /\ Len(x) \in Nat
  BY DEF Sent
<1>2. Code(key, released) # Prefix
  BY KeyboardAssumption DEF Code, Prefix, Keys
<1>3. ASSUME NEW i \in 1 .. Len(x), x[i] = Prefix PROVE i < Len(x) /\ x[i + 1].key \in Prefixed
  <2>1. CASE i \in 1 .. Len(w)
    <3>1. i < Len(w) /\ w[i + 1].key \in Prefixed
      BY <1>3, <2>1 DEF Aligned, Sent
    <3>2. i + 1 \in 1 .. Len(w)
      BY <1>1, <2>1, <3>1
    <3> QED
      BY <1>1, <3>1, <3>2 DEF Sent
  <2>2. CASE i = Len(x)
    BY <1>2, <1>3, <2>2 DEF Sent
  <2>3. CASE i \notin 1 .. Len(w) /\ i # Len(x)
    <3>1. Len(x) = Len(w) + 2 /\ i = Len(w) + 1
      BY <1>1, <2>3 DEF Sent
    <3>2. x[i + 1] = Code(key, released) /\ key \in Prefixed
      BY <1>1, <3>1 DEF Sent
    <3> QED
      BY <1>1, <3>1, <3>2 DEF Code
  <2> QED
    BY <2>1, <2>2, <2>3
<1>4. ASSUME ext PROVE x # <<>> /\ x[1].key \in Prefixed
  <2>1. w # <<>> /\ w[1].key \in Prefixed
    BY <1>4 DEF Aligned
  <2>2. 1 \in 1 .. Len(w)
    BY <1>1, <2>1
  <2>3. Len(x) > 0 /\ x[1] = w[1]
    BY <1>1, <2>2 DEF Sent
  <2> QED
    BY <2>1, <2>3
<1> QED
  BY <1>3, <1>4 DEF Aligned

(* Keys of another class change nothing.                                   *)
LEMMA SentTracked ==
    ASSUME NEW w \in Seq(Bytes), NEW x, NEW key \in Keys, NEW released \in BOOLEAN,
           NEW down, NEW still, NEW C, NEW f,
           Sent(w, x, key, released), Tracked(w, down, C, f), "e0" \notin C,
           key \notin C => down \cap C = still \cap C,
           key \in C /\ ~released => key \in still
    PROVE  Tracked(x, still, C, f)
<1>1. Len(w) \in Nat /\ Len(x) \in Nat /\ Len(x) \in 1 .. Len(x) /\ Len(x) > Len(w)
  BY DEF Sent
<1>2. x[Len(x)].key = key /\ x[Len(x)].released = released
  BY DEF Sent, Code
<1>3. CASE key \in C /\ ~released
  <2>1. still \cap C # {}
    BY <1>3
  <2> QED
    BY <2>1 DEF Tracked
<1>4. CASE key \in C /\ released
  <2>1. ASSUME NEW i \in 1 .. Len(x), x[i].key \in C, ~x[i].released,
               \A j \in i + 1 .. Len(x) : x[j].key \notin C
        PROVE  FALSE
    <3>1. i # Len(x)
      BY <1>2, <1>4, <2>1
    <3>2. Len(x) \in i + 1 .. Len(x)
      BY <1>1, <3>1
    <3> QED
      BY <1>2, <1>4, <2>1, <3>2
  <2>2. ~ \A i \in 1 .. Len(x) : x[i].key \notin C
    BY <1>1, <1>2, <1>4
  <2> QED
    BY <2>1, <2>2 DEF Tracked
<1>5. CASE key \notin C
  <2>1. ASSUME NEW i \in 1 .. Len(x), i > Len(w) PROVE x[i].key \notin C
    BY <1>1, <1>2, <1>5, <2>1 DEF Sent, Prefix
  <2>2. ASSUME NEW i \in 1 .. Len(x), x[i].key \in C, ~x[i].released,
               \A j \in i + 1 .. Len(x) : x[j].key \notin C
        PROVE  down \cap C # {}
    <3>1. i \in 1 .. Len(w)
      BY <1>1, <2>1, <2>2
    <3>2. w[i] = x[i]
      BY <3>1 DEF Sent
    <3>3. ASSUME NEW j \in i + 1 .. Len(w) PROVE w[j].key \notin C
      <4>1. j \in 1 .. Len(w) /\ j \in i + 1 .. Len(x)
        BY <1>1, <3>1
      <4> QED
        BY <2>2, <4>1 DEF Sent
    <3> QED
      BY <2>2, <3>1, <3>2, <3>3 DEF Tracked
  <2>3. ASSUME f, \A i \in 1 .. Len(x) : x[i].key \notin C
        PROVE  down \cap C # {}
    <3>1. \A i \in 1 .. Len(w) : w[i].key \notin C
      BY <1>1, <2>3 DEF Sent
    <3> QED
      BY <2>3, <3>1 DEF Tracked
  <2> QED
    BY <1>5, <2>2, <2>3 DEF Tracked
<1> QED
  BY <1>3, <1>4, <1>5

-----------------------------------------------------------------------------
(* What a byte does to the driver, besides the event.                      *)

LEMMA EventsTyped ==
    ASSUME NEW k, NEW byte \in Bytes
    PROVE  extended_event(k, byte) \in SUBSET Events /\ plain_event(k, byte) \in SUBSET Events
<1>1. current_modifiers(k) \in SUBSET Flags
  BY DEF current_modifiers, Flags
<1>2. ASSUME NEW key \in Typed \cup {"char"},
             NEW ch \in {NoChar} \cup ({"lower", "upper", "ctrl"} \X Typed)
      PROVE  Event(k, key, ch) \in Events
  BY <1>1 DEF Event, Events
<1>3. extended_event(k, byte) \in SUBSET Events
  <2>1. byte.key \in Extended => byte.key \in Typed
    BY DEF Typed
  <2> QED
    BY <1>2, <2>1 DEF extended_event
<1>4. plain_event(k, byte) \in SUBSET Events
  <2>1. CASE byte.key \in Named
    <3>1. byte.key \in Typed
      BY <2>1 DEF Typed
    <3>2. <<"lower", byte.key>> \in {"lower", "upper", "ctrl"} \X Typed
      BY <3>1
    <3>3. Event(k, byte.key, <<"lower", byte.key>>) \in Events
      BY <1>2, <3>1, <3>2
    <3> QED
      BY <2>1, <3>3 DEF plain_event
  <2>2. CASE byte.key \in Letters \cup Symbols
    <3>1. byte.key \in Typed
      BY <2>2 DEF Typed
    <3>2. char_of(k, byte.key) \in {"lower", "upper", "ctrl"} \X Typed
      BY <3>1 DEF char_of
    <3>3. Event(k, "char", char_of(k, byte.key)) \in Events
      BY <1>2, <3>2
    <3>4. byte.key \in Named => Event(k, byte.key, <<"lower", byte.key>>) \in Events
      <4>1. <<"lower", byte.key>> \in {"lower", "upper", "ctrl"} \X Typed
        BY <3>1
      <4> QED
        BY <1>2, <3>1, <4>1
    <3> QED
      BY <3>3, <3>4 DEF plain_event
  <2>3. CASE byte.key \notin Named \cup Letters \cup Symbols
    BY <2>3 DEF plain_event
  <2> QED
    BY <2>1, <2>2, <2>3
<1> QED
  BY <1>3, <1>4

Ring(k) == <<k.buffer, k.read_index, k.write_index>>

LEMMA ModifiedFlag ==
    ASSUME NEW k \in Drivers, NEW byte \in Bytes, byte.key \in Modifiers
    PROVE  LET l == modified(k, byte)
           IN  /\ l \in Drivers /\ Ring(l) = Ring(k) /\ l.extended_scancode = k.extended_scancode
               /\ l.shift_down = (IF byte.key \in Shifts THEN ~byte.released ELSE k.shift_down)
               /\ l.ctrl_down = (IF byte.key \in Ctrls THEN ~byte.released ELSE k.ctrl_down)
               /\ l.alt_down = (IF byte.key \in Alts THEN ~byte.released ELSE k.alt_down)
<1> DEFINE up == ~byte.released
<1>1. up \in BOOLEAN
  BY DEF Bytes
<1>2. CASE byte.key \in Shifts
  <2>1. modified(k, byte) = [k EXCEPT !.shift_down = up]
    BY <1>2 DEF modified
  <2>2. byte.key \notin Ctrls /\ byte.key \notin Alts
    BY <1>2, KeyboardAssumption
  <2> HIDE DEF up
  <2>3. [k EXCEPT !.shift_down = up] \in Drivers
    BY <1>1 DEF Drivers
  <2> QED
    BY <1>2, <2>1, <2>2, <2>3 DEF Drivers, Ring, up
<1>3. CASE byte.key \in Ctrls
  <2>1. byte.key \notin Shifts /\ byte.key \notin Alts
    BY <1>3, KeyboardAssumption
  <2>2. modified(k, byte) = [k EXCEPT !.ctrl_down = up]
    BY <1>3, <2>1 DEF modified
  <2> HIDE DEF up
  <2>3. [k EXCEPT !.ctrl_down = up] \in Drivers
    BY <1>1 DEF Drivers
  <2> QED
    BY <1>3, <2>1, <2>2, <2>3 DEF Drivers, Ring, up
<1>4. CASE byte.key \in Alts
  <2>1. byte.key \notin Shifts /\ byte.key \notin Ctrls
    BY <1>4, KeyboardAssumption
  <2>2. modified(k, byte) = [k EXCEPT !.alt_down = up]
    BY <2>1 DEF modified
  <2> HIDE DEF up
  <2>3. [k EXCEPT !.alt_down = up] \in Drivers
    BY <1>1 DEF Drivers
  <2> QED
    BY <1>4, <2>1, <2>2, <2>3 DEF Drivers, Ring, up
<1> QED
  BY <1>2, <1>3, <1>4 DEF Modifiers

LEMMA AcceptKeeps ==
    ASSUME TypeOK, KeysInOrder, NEW k \in Drivers, Ring(k) = Ring(kbd),
           NEW events \in SUBSET Events, Accept(k, events)
    PROVE  /\ kbd' \in Drivers /\ pending' \in Seq(Events) /\ KeysInOrder'
           /\ kbd'.shift_down = k.shift_down /\ kbd'.ctrl_down = k.ctrl_down
           /\ kbd'.alt_down = k.alt_down /\ kbd'.extended_scancode = k.extended_scancode
<1>1. pending \in Seq(Events) /\ Waiting(k, pending)
  BY DEF TypeOK, KeysInOrder, Waiting, Ring, Pending
<1>2. CASE events = {}
  <2>1. kbd' = k /\ pending' = pending
    BY <1>2 DEF Accept, Pushed
  <2> QED
    BY <1>1, <2>1 DEF KeysInOrder, Waiting
<1>3. CASE events # {}
  <2> DEFINE e == CHOOSE e \in events : TRUE
  <2>1. e \in Events
    BY <1>3
  <2>2. /\ kbd' = push_event(k, e)
        /\ pending' = IF Len(pending) < BufferSize - 1 THEN Append(pending, e) ELSE pending
    BY <1>3 DEF Accept, Pushed
  <2> HIDE DEF e
  <2>3. /\ kbd' \in Drivers /\ pending' \in Seq(Events) /\ Waiting(kbd', pending')
        /\ \A f \in {"shift_down", "ctrl_down", "alt_down", "extended_scancode"} : kbd'[f] = k[f]
    BY <1>1, <2>1, <2>2, PushKeepsOrder
  <2> QED
    BY <2>3 DEF KeysInOrder, Waiting
<1> QED
  BY <1>2, <1>3

-----------------------------------------------------------------------------
(* The steps.                                                              *)

LEMMA InitHolds == Init => IInv
<1> SUFFICES ASSUME Init PROVE IInv
  OBVIOUS
<1>1. 0 \in Indices /\ BufferSize \in Nat /\ BufferSize > 1
  BY KeyboardAssumption DEF Indices
<1>2. TypeOK
  BY <1>1 DEF Init, TypeOK, Drivers, Indices
<1>3. KeysInOrder
  <2>1. Pending(kbd) = 0
    BY <1>1, HowMany DEF Init
  <2>2. 1 .. Pending(kbd) = {}
    BY <2>1
  <2>3. [i \in {} |-> kbd.buffer[(kbd.read_index + i - 1) % BufferSize]] = <<>>
    OBVIOUS
  <2> QED
    BY <2>2, <2>3 DEF Init, KeysInOrder
<1>4. Modified
  BY DEF Init, Modified, Tracked, Aligned
<1> QED
  BY <1>2, <1>3, <1>4 DEF IInv

LEMMA IrqStep == IInv /\ KeyboardIrq => IInv'
<1> SUFFICES ASSUME IInv, KeyboardIrq PROVE IInv'
  OBVIOUS
<1> DEFINE byte == Head(wire)
<1>1. TypeOK /\ KeysInOrder /\ Modified /\ wire \in Seq(Bytes) /\ kbd \in Drivers
  BY DEF IInv, TypeOK
<1>2. wire # <<>> /\ wire' = Tail(wire) /\ held' = held
  BY DEF KeyboardIrq
<1>3. /\ byte \in Bytes /\ byte = wire[1] /\ wire' \in Seq(Bytes)
      /\ Len(wire) \in Nat /\ Len(wire) >= 1 /\ Len(wire') = Len(wire) - 1
      /\ \A i \in 1 .. Len(wire') : wire'[i] = wire[i + 1]
  BY <1>1, <1>2
<1>4. ASSUME /\ kbd' \in Drivers /\ pending' \in Seq(Events) /\ KeysInOrder'
             /\ Aligned(wire', kbd'.extended_scancode),
             byte.key \in Shifts => (kbd'.shift_down <=> ~byte.released),
             byte.key \notin Shifts => (kbd'.shift_down <=> kbd.shift_down),
             byte.key \in Ctrls => (kbd'.ctrl_down <=> ~byte.released),
             byte.key \notin Ctrls => (kbd'.ctrl_down <=> kbd.ctrl_down),
             byte.key \in Alts => (kbd'.alt_down <=> ~byte.released),
             byte.key \notin Alts => (kbd'.alt_down <=> kbd.alt_down)
      PROVE  IInv'
  <2>1. TypeOK'
    BY <1>1, <1>2, <1>3, <1>4 DEF TypeOK
  <2>2. Tracked(wire', held', Shifts, kbd'.shift_down)
    BY <1>1, <1>2, <1>4, TakenTracked DEF Modified
  <2>3. Tracked(wire', held', Ctrls, kbd'.ctrl_down)
    BY <1>1, <1>2, <1>4, TakenTracked DEF Modified
  <2>4. Tracked(wire', held', Alts, kbd'.alt_down)
    BY <1>1, <1>2, <1>4, TakenTracked DEF Modified
  <2> QED
    BY <1>4, <2>1, <2>2, <2>3, <2>4 DEF IInv, Modified
<1> HIDE DEF byte
<1>5. ASSUME NEW ext, ext => wire' # <<>> /\ wire'[1].key \in Prefixed
      PROVE  Aligned(wire', ext)
  <2>1. ASSUME NEW i \in 1 .. Len(wire'), wire'[i] = Prefix
        PROVE  i < Len(wire') /\ wire'[i + 1].key \in Prefixed
    <3>1. i + 1 \in 1 .. Len(wire) /\ wire[i + 1] = Prefix
      BY <1>3, <2>1
    <3>2. i + 1 < Len(wire) /\ wire[i + 1 + 1].key \in Prefixed
      BY <1>1, <3>1 DEF Modified, Aligned
    <3>3. i + 1 \in 1 .. Len(wire')
      BY <1>3, <3>2
    <3> QED
      BY <1>3, <3>2, <3>3
  <2> QED
    BY <1>5, <2>1 DEF Aligned
<1>6. CASE byte = Prefix
  <2> DEFINE k == [kbd EXCEPT !.extended_scancode = TRUE]
  <2>1. Accept(k, {})
    BY <1>6 DEF KeyboardIrq, byte
  <2>2. k \in Drivers
    BY <1>1 DEF Drivers
  <2>3. Ring(k) = Ring(kbd) /\ k.shift_down = kbd.shift_down /\ k.ctrl_down = kbd.ctrl_down
        /\ k.alt_down = kbd.alt_down
    BY <1>1 DEF Drivers, Ring
  <2> HIDE DEF k
  <2>4. /\ kbd' \in Drivers /\ pending' \in Seq(Events) /\ KeysInOrder'
        /\ kbd'.shift_down = k.shift_down /\ kbd'.ctrl_down = k.ctrl_down
        /\ kbd'.alt_down = k.alt_down
    BY <1>1, <2>1, <2>2, <2>3, AcceptKeeps
  <2>5. byte.key \notin Shifts \cup Ctrls \cup Alts
    BY <1>6, KeyboardAssumption DEF Prefix, Modifiers
  <2>6. wire' # <<>> /\ wire'[1].key \in Prefixed
    <3>1. 1 < Len(wire) /\ wire[1 + 1].key \in Prefixed
      <4>1. \A i \in 1 .. Len(wire) : wire[i] = Prefix => i < Len(wire) /\ wire[i + 1].key \in Prefixed
        BY <1>1 DEF Modified, Aligned
      <4>2. 1 \in 1 .. Len(wire) /\ wire[1] = Prefix
        BY <1>3, <1>6
      <4> QED
        BY <4>1, <4>2
    <3>2. 1 \in 1 .. Len(wire')
      BY <1>3, <3>1
    <3> QED
      BY <1>3, <3>1, <3>2
  <2> QED
    BY <1>4, <1>5, <2>3, <2>4, <2>5, <2>6
<1>7. CASE byte # Prefix /\ kbd.extended_scancode
  <2> DEFINE j == [kbd EXCEPT !.extended_scancode = FALSE]
             k == extended_byte(j, byte)
  <2>1. Accept(k, extended_event(kbd, byte))
    BY <1>7 DEF KeyboardIrq, byte
  <2>2. j \in Drivers
    BY <1>1 DEF Drivers
  <2>3. Ring(j) = Ring(kbd) /\ j.shift_down = kbd.shift_down /\ j.ctrl_down = kbd.ctrl_down
        /\ j.alt_down = kbd.alt_down /\ j.extended_scancode = FALSE
    BY <1>1 DEF Drivers, Ring
  <2> HIDE DEF j
  <2>4. byte.key \in Prefixed /\ byte.key \notin Shifts
    BY <1>1, <1>3, <1>7, KeyboardAssumption DEF Modified, Aligned, Prefixed, Modifiers, Typed
  <2>5. /\ k \in Drivers /\ Ring(k) = Ring(j) /\ k.extended_scancode = j.extended_scancode
        /\ k.shift_down = j.shift_down
        /\ k.ctrl_down = (IF byte.key \in Ctrls THEN ~byte.released ELSE j.ctrl_down)
        /\ k.alt_down = (IF byte.key \in Alts THEN ~byte.released ELSE j.alt_down)
    <3>1. CASE byte.key \in Ctrls \cup Alts
      <4>1. byte.key \in Modifiers /\ k = modified(j, byte)
        BY <3>1 DEF Modifiers, extended_byte
      <4> QED
        BY <1>3, <2>2, <2>4, <4>1, ModifiedFlag
    <3>2. CASE byte.key \notin Ctrls \cup Alts
      <4>1. k = j
        BY <3>2 DEF extended_byte
      <4> HIDE DEF k
      <4> QED
        BY <2>2, <3>2, <4>1
    <3> QED
      BY <3>1, <3>2
  <2> HIDE DEF k
  <2>6. /\ kbd' \in Drivers /\ pending' \in Seq(Events) /\ KeysInOrder'
        /\ kbd'.shift_down = k.shift_down /\ kbd'.ctrl_down = k.ctrl_down
        /\ kbd'.alt_down = k.alt_down /\ kbd'.extended_scancode = k.extended_scancode
    BY <1>1, <1>3, <2>1, <2>3, <2>5, AcceptKeeps, EventsTyped
  <2>7. Aligned(wire', kbd'.extended_scancode)
    BY <1>5, <2>3, <2>5, <2>6
  <2> QED
    BY <1>4, <2>3, <2>4, <2>5, <2>6, <2>7
<1>8. CASE byte # Prefix /\ ~kbd.extended_scancode
  <2> DEFINE k == plain_byte(kbd, byte)
  <2>1. Accept(k, plain_event(kbd, byte))
    BY <1>8 DEF KeyboardIrq, byte
  <2>2. /\ k \in Drivers /\ Ring(k) = Ring(kbd) /\ k.extended_scancode = kbd.extended_scancode
        /\ k.shift_down = (IF byte.key \in Shifts THEN ~byte.released ELSE kbd.shift_down)
        /\ k.ctrl_down = (IF byte.key \in Ctrls THEN ~byte.released ELSE kbd.ctrl_down)
        /\ k.alt_down = (IF byte.key \in Alts THEN ~byte.released ELSE kbd.alt_down)
    <3>1. CASE byte.key \in Modifiers
      <4>1. k = modified(kbd, byte)
        BY <3>1 DEF plain_byte
      <4> QED
        BY <1>1, <1>3, <3>1, <4>1, ModifiedFlag
    <3>2. CASE byte.key \notin Modifiers
      <4>1. byte.key \notin Shifts /\ byte.key \notin Ctrls /\ byte.key \notin Alts
        BY <3>2 DEF Modifiers
      <4>2. CASE byte.key \in CapsLocks /\ ~byte.released
        <5> DEFINE caps == ~kbd.caps_lock
        <5>1. k = [kbd EXCEPT !.caps_lock = caps] /\ caps \in BOOLEAN
          BY <3>2, <4>2 DEF plain_byte
        <5> HIDE DEF caps, k
        <5> QED
          BY <1>1, <4>1, <5>1 DEF Drivers, Ring
      <4>3. CASE ~(byte.key \in CapsLocks /\ ~byte.released)
        <5>1. k = kbd
          BY <3>2, <4>3 DEF plain_byte
        <5> HIDE DEF k
        <5> QED
          BY <1>1, <4>1, <5>1
      <4> QED
        BY <4>2, <4>3
    <3> QED
      BY <3>1, <3>2
  <2> HIDE DEF k
  <2>3. /\ kbd' \in Drivers /\ pending' \in Seq(Events) /\ KeysInOrder'
        /\ kbd'.shift_down = k.shift_down /\ kbd'.ctrl_down = k.ctrl_down
        /\ kbd'.alt_down = k.alt_down /\ kbd'.extended_scancode = k.extended_scancode
    BY <1>1, <1>3, <2>1, <2>2, AcceptKeeps, EventsTyped
  <2>4. Aligned(wire', kbd'.extended_scancode)
    BY <1>5, <1>8, <2>2, <2>3
  <2> QED
    BY <1>4, <2>2, <2>3, <2>4
<1> QED
  BY <1>6, <1>7, <1>8

(* The first n events are read.                                            *)
LEMMA Taken ==
    ASSUME IInv, NEW n \in 1 .. Pending(kbd),
           kbd' = [kbd EXCEPT !.read_index = (kbd.read_index + n) % BufferSize],
           pending' = SubSeq(pending, n + 1, Len(pending)),
           UNCHANGED <<wire, held>>
    PROVE  IInv'
<1>1. kbd \in Drivers /\ pending \in Seq(Events) /\ Waiting(kbd, pending) /\ Modified
  BY DEF IInv, TypeOK, KeysInOrder, Waiting
<1>2. /\ kbd' \in Drivers /\ pending' \in Seq(Events) /\ Waiting(kbd', pending')
      /\ \A f \in {"shift_down", "ctrl_down", "alt_down", "extended_scancode"} : kbd'[f] = kbd[f]
  BY <1>1, TakeKeepsOrder
<1>3. /\ kbd'.shift_down = kbd.shift_down /\ kbd'.ctrl_down = kbd.ctrl_down
      /\ kbd'.alt_down = kbd.alt_down /\ kbd'.extended_scancode = kbd.extended_scancode
  BY <1>2
<1>4. Modified'
  BY <1>1, <1>3 DEF Modified
<1>5. TypeOK'
  BY <1>2 DEF IInv, TypeOK
<1> QED
  BY <1>2, <1>4, <1>5 DEF IInv, KeysInOrder, Waiting

(* A read happens only if there is something to read.                      *)
LEMMA SomethingWaits ==
    ASSUME IInv, kbd.read_index # kbd.write_index
    PROVE  /\ Pending(kbd) \in Nat /\ Pending(kbd) >= 1 /\ Len(pending) = Pending(kbd)
           /\ kbd.read_index \in Indices
<1> DEFINE r == kbd.read_index
           w == kbd.write_index
           p == Pending(kbd)
<1>1. r \in Indices /\ w \in Indices /\ r # w
  BY DEF IInv, TypeOK, Drivers
<1>2. p \in Indices /\ p = IF w >= r THEN w - r ELSE w + BufferSize - r
  BY <1>1, HowMany
<1>3. p \in Nat /\ p >= 1
  <2> HIDE DEF r, w, p
  <2> QED
    BY <1>1, <1>2, KeyboardAssumption DEF Indices
<1>4. Len(pending) = p
  BY <1>3 DEF IInv, KeysInOrder
<1> QED
  BY <1>1, <1>3, <1>4

LEMMA ReadEventStep == IInv /\ ReadEvent => IInv'
<1> SUFFICES ASSUME IInv, ReadEvent PROVE IInv'
  OBVIOUS
<1>1. kbd.read_index # kbd.write_index /\ UNCHANGED <<wire, held>>
  BY DEF ReadEvent
<1>2. /\ Pending(kbd) \in Nat /\ Pending(kbd) >= 1 /\ Len(pending) = Pending(kbd)
      /\ pending \in Seq(Events)
  BY <1>1, SomethingWaits DEF IInv, TypeOK
<1>3. 1 \in 1 .. Pending(kbd)
  BY <1>2
<1>4. kbd' = [kbd EXCEPT !.read_index = (kbd.read_index + 1) % BufferSize]
  BY DEF ReadEvent, next
<1>5. pending' = SubSeq(pending, 1 + 1, Len(pending))
  <2>1. pending # <<>>
    BY <1>2
  <2>2. pending' = Tail(pending)
    BY <2>1 DEF ReadEvent
  <2>3. Tail(pending) = SubSeq(pending, 2, Len(pending))
    BY <1>2, <2>1
  <2> QED
    BY <2>2, <2>3
<1> QED
  BY <1>1, <1>3, <1>4, <1>5, Taken

LEMMA ReadCharStep == IInv /\ ReadChar => IInv'
<1> SUFFICES ASSUME IInv, ReadChar PROVE IInv'
  OBVIOUS
<1>1. kbd.read_index # kbd.write_index /\ UNCHANGED <<wire, held>>
  BY DEF ReadChar
<1> DEFINE n == IF characters(kbd) = {} THEN Pending(kbd)
                ELSE 1 + CHOOSE i \in characters(kbd) : \A j \in characters(kbd) : i <= j
<1>2. Pending(kbd) \in Nat /\ Pending(kbd) >= 1
  BY <1>1, SomethingWaits
<1>3. n \in 1 .. Pending(kbd)
  <2>1. CASE characters(kbd) = {}
    BY <1>2, <2>1
  <2>2. CASE characters(kbd) # {}
    <3>1. characters(kbd) \in SUBSET (0 .. Pending(kbd) - 1)
      BY DEF characters
    <3>2. characters(kbd) \in SUBSET Nat
      BY <1>2, <3>1
    <3>3. \E i \in characters(kbd) : \A j \in characters(kbd) : i <= j
      BY <2>2, <3>2, Least
    <3> DEFINE i == CHOOSE i \in characters(kbd) : \A j \in characters(kbd) : i <= j
    <3>4. i \in characters(kbd)
      BY <3>3
    <3>5. n = 1 + i
      BY <2>2
    <3> HIDE DEF i, n
    <3> QED
      BY <1>2, <3>1, <3>4, <3>5
  <2> QED
    BY <2>1, <2>2
<1>4. /\ kbd' = [kbd EXCEPT !.read_index = (kbd.read_index + n) % BufferSize]
      /\ pending' = BehindCharacter(pending)
  BY DEF ReadChar
<1>5. BehindCharacter(pending) = SubSeq(pending, n + 1, Len(pending))
  <2> DEFINE S == characters(kbd)
             P == {i \in 1 .. Len(pending) : pending[i].ch # NoChar}
  <2>1. /\ Len(pending) = Pending(kbd)
        /\ \A i \in 1 .. Pending(kbd) :
              pending[i] = kbd.buffer[(kbd.read_index + i - 1) % BufferSize]
    BY <1>2 DEF IInv, KeysInOrder
  <2>2. \A i \in 0 .. Pending(kbd) - 1 : i \in S <=> i + 1 \in P
    <3> TAKE i \in 0 .. Pending(kbd) - 1
    <3>1. i + 1 \in 1 .. Pending(kbd) /\ i \in Nat
      BY <1>2
    <3>2. kbd.read_index \in Nat
      <4>1. kbd \in Drivers
        BY DEF IInv, TypeOK
      <4> QED
        BY <4>1, KeyboardAssumption DEF Drivers, Indices
    <3>3. kbd.read_index + (i + 1) - 1 = kbd.read_index + i
      BY <3>1, <3>2
    <3>4. pending[i + 1] = kbd.buffer[(kbd.read_index + i) % BufferSize]
      BY <2>1, <3>1, <3>3
    <3> QED
      BY <2>1, <3>1, <3>4 DEF characters
  <2>3. S \in SUBSET (0 .. Pending(kbd) - 1) /\ P \in SUBSET (1 .. Pending(kbd))
    BY <2>1 DEF characters
  <2>4. S \in SUBSET Nat /\ P \in SUBSET Nat
    BY <1>2, <2>3
  <2>5. BehindCharacter(pending) =
          IF P = {} THEN <<>>
          ELSE SubSeq(pending, 1 + CHOOSE i \in P : \A j \in P : i <= j, Len(pending))
    BY DEF BehindCharacter
  <2>6. n = IF S = {} THEN Pending(kbd) ELSE 1 + CHOOSE i \in S : \A j \in S : i <= j
    OBVIOUS
  <2> HIDE DEF S, P, n
  <2>7. CASE S = {}
    <3>1. P = {}
      BY <1>2, <2>2, <2>3, <2>7
    <3>2. SubSeq(pending, Len(pending) + 1, Len(pending)) = <<>>
      <4>1. \E V : pending \in Seq(V)
        BY DEF IInv, TypeOK
      <4>2. PICK V : pending \in Seq(V)
        BY <4>1
      <4> QED
        BY <4>2
    <3> QED
      BY <2>1, <2>5, <2>6, <2>7, <3>1, <3>2
  <2>8. CASE S # {}
    <3> DEFINE s == CHOOSE i \in S : \A j \in S : i <= j
               q == CHOOSE i \in P : \A j \in P : i <= j
    <3>1. s \in S /\ \A j \in S : s <= j
      BY <2>4, <2>8, Least
    <3>2. s + 1 \in P
      BY <2>2, <2>3, <3>1
    <3>3. q \in P /\ \A j \in P : q <= j
      BY <2>4, <3>2, Least
    <3> HIDE DEF s, q
    <3>4. q - 1 \in S
      <4>1. q - 1 \in 0 .. Pending(kbd) - 1 /\ (q - 1) + 1 = q
        BY <1>2, <2>3, <3>3
      <4> QED
        BY <2>2, <3>3, <4>1
    <3>5. q = s + 1
      <4>1. q <= s + 1 /\ s <= q - 1 /\ q \in Nat /\ s \in Nat
        BY <2>4, <3>1, <3>2, <3>3, <3>4
      <4> QED
        BY <4>1
    <3>6. n = s + 1
      <4>1. n = 1 + s /\ s \in Nat
        BY <2>4, <2>6, <2>8, <3>1 DEF s
      <4> QED
        BY <4>1
    <3>7. BehindCharacter(pending) = SubSeq(pending, 1 + q, Len(pending)) /\ q \in Nat
      BY <2>4, <2>5, <3>2, <3>3 DEF q
    <3>8. 1 + q = n + 1
      BY <1>2, <1>3, <3>5, <3>6, <3>7
    <3> QED
      BY <3>7, <3>8
  <2> QED
    BY <2>7, <2>8
<1> HIDE DEF n
<1> QED
  BY <1>1, <1>3, <1>4, <1>5, Taken

(* A key sends its bytes; the keys of its class that are down are those    *)
(* held' says.                                                             *)
LEMMA SendStep ==
    ASSUME IInv, NEW key \in Keys, NEW released \in BOOLEAN, Send(key, released),
           UNCHANGED <<kbd, pending>>, held' \in SUBSET Modifiers,
           held' \ {key} = held \ {key},
           key \in Modifiers /\ ~released => key \in held'
    PROVE  IInv'
<1>1. TypeOK /\ wire \in Seq(Bytes) /\ Modified
  BY DEF IInv, TypeOK
<1>2. Sent(wire, wire', key, released)
  BY <1>1, SendAppends
<1>3. "e0" \notin Shifts /\ "e0" \notin Ctrls /\ "e0" \notin Alts
  BY KeyboardAssumption DEF Modifiers
<1>4. ASSUME NEW C \in SUBSET Modifiers, "e0" \notin C, NEW f, Tracked(wire, held, C, f)
      PROVE  Tracked(wire', held', C, f)
  <2>1. key \notin C => held \cap C = held' \cap C
    OBVIOUS
  <2>2. key \in C /\ ~released => key \in held'
    OBVIOUS
  <2> QED
    BY <1>1, <1>2, <1>4, <2>1, <2>2, SentTracked
<1>5. Tracked(wire', held', Shifts, kbd'.shift_down)
  BY <1>1, <1>3, <1>4 DEF Modified, Modifiers
<1>6. Tracked(wire', held', Ctrls, kbd'.ctrl_down)
  BY <1>1, <1>3, <1>4 DEF Modified, Modifiers
<1>7. Tracked(wire', held', Alts, kbd'.alt_down)
  BY <1>1, <1>3, <1>4 DEF Modified, Modifiers
<1>8. Aligned(wire', kbd'.extended_scancode)
  BY <1>1, <1>2, SentAligned DEF Modified
<1>9. TypeOK'
  BY <1>1, <1>2 DEF TypeOK, Sent
<1>10. KeysInOrder'
  BY DEF IInv, KeysInOrder
<1> QED
  BY <1>5, <1>6, <1>7, <1>8, <1>9, <1>10 DEF IInv, Modified

LEMMA Step == IInv /\ [Next]_vars => IInv'
<1> SUFFICES ASSUME IInv, [Next]_vars PROVE IInv'
  OBVIOUS
<1>1. CASE KeyboardIrq
  BY <1>1, IrqStep
<1>2. CASE ReadEvent
  BY <1>2, ReadEventStep
<1>3. CASE ReadChar
  BY <1>3, ReadCharStep
<1>4. CASE Type
  <2>1. PICK key \in Typed, released \in BOOLEAN :
           Send(key, released) /\ UNCHANGED <<kbd, held, pending>>
    BY <1>4 DEF Type
  <2>2. key \in Keys /\ key \notin Modifiers
    BY KeyboardAssumption DEF Keys
  <2> QED
    BY <2>1, <2>2, SendStep DEF IInv, TypeOK
<1>5. CASE Press
  <2>1. PICK key \in Modifiers :
           Send(key, FALSE) /\ held' = held \cup {key} /\ UNCHANGED <<kbd, pending>>
    BY <1>5 DEF Press
  <2>2. key \in Keys /\ held' \in SUBSET Modifiers
    BY <2>1 DEF Keys, IInv, TypeOK
  <2> QED
    BY <2>1, <2>2, SendStep
<1>6. CASE Release
  <2>1. PICK key \in held :
           Send(key, TRUE) /\ held' = held \ {key} /\ UNCHANGED <<kbd, pending>>
    BY <1>6 DEF Release
  <2>2. key \in Keys /\ held' \in SUBSET Modifiers
    BY <2>1 DEF Keys, IInv, TypeOK
  <2> QED
    BY <2>1, <2>2, SendStep
<1>7. CASE UNCHANGED vars
  BY <1>7 DEF vars, IInv, TypeOK, KeysInOrder, Modified
<1> QED
  BY <1>1, <1>2, <1>3, <1>4, <1>5, <1>6, <1>7 DEF Next

LEMMA Invariance == Spec => []IInv
  BY InitHolds, Step, PTL DEF Spec

(* keyboard_read_event and keyboard_read_char give every event that was    *)
(* accepted, once and in the order of the keys, for every size of the      *)
(* buffer and however the interrupt and the readers take turns.            *)
THEOREM ReadInOrder == Spec => []KeysInOrder
<1>1. IInv => KeysInOrder
  BY DEF IInv
<1> QED
  BY <1>1, Invariance, PTL

(* Once the bytes of the controller are taken, shift_down, ctrl_down and   *)
(* alt_down are set only while a key of theirs is down, whatever keys were *)
(* pressed together and released in any order.                             *)
THEOREM ModifiersComeUp == Spec => []NoStuckModifier
<1>1. IInv => NoStuckModifier
  <2> SUFFICES ASSUME IInv, wire = <<>> PROVE NoStuckModifier
    BY DEF NoStuckModifier
  <2>1. \A i \in 1 .. Len(wire) : FALSE
    OBVIOUS
  <2> QED
    BY <2>1 DEF IInv, Modified, Tracked, Aligned, NoStuckModifier
<1> QED
  BY <1>1, Invariance, PTL

=============================================================================
