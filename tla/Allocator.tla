------------------------------ MODULE Allocator ------------------------------
(***************************************************************************)
(* What a heap promises its callers: a region that is handed out stays     *)
(* where it is until it is given back, and shares no unit with another.    *)
(***************************************************************************)
EXTENDS Integers, Functions

CONSTANT Limit                  \* size of the heap's address range

VARIABLE regions                \* size of the region at each address handed out

Apart(a, n, b, m) == a + n <= b \/ b + m <= a

(* The region of n units at a fits in and overlaps nothing in r.           *)
Free(r, a, n) == /\ a + n <= Limit
                 /\ \A b \in DOMAIN r : Apart(a, n, b, r[b])

Added(r, a, n) == [b \in DOMAIN r \cup {a} |-> IF b = a THEN n ELSE r[b]]
Removed(r, a) == Restrict(r, DOMAIN r \ {a})

(* Addresses are numbered from 0.                                          *)
Addressed == DOMAIN regions' \subseteq 0 .. Limit

Init == regions = [a \in {} |-> 0]

Alloc == \E a \in DOMAIN regions' \ DOMAIN regions, n \in 1 .. Limit :
            Free(regions, a, n) /\ regions' = Added(regions, a, n)

Release == \E a \in DOMAIN regions : regions' = Removed(regions, a)

(* A region that stays where it is may only grow into unused space.        *)
Resize == \E a \in DOMAIN regions : \E n \in 1 .. Limit :
            Free(Removed(regions, a), a, n) /\ regions' = Added(regions, a, n)

(* The contents are copied, so both regions exist for a moment.            *)
Move == \E a \in DOMAIN regions, b \in DOMAIN regions', n \in 1 .. Limit :
            Free(regions, b, n) /\ regions' = Added(Removed(regions, a), b, n)

Next == Addressed /\ (Alloc \/ Release \/ Resize \/ Move)

Spec == Init /\ [][Next]_regions

=============================================================================
