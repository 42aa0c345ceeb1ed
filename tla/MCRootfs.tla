------------------------------ MODULE MCRootfs -------------------------------
(***************************************************************************)
(* An instance of Rootfs for TLC.                                          *)
(***************************************************************************)
EXTENDS Rootfs

CONSTANTS n1, n2

MCPaths == {<<n1>>, <<n2>>, <<n1, n2>>}
MCLength == [n \in {n1, n2} |-> 1]

Abs(parts) == [absolute |-> TRUE, parts |-> parts]
Rel(parts) == [absolute |-> FALSE, parts |-> parts]

(* / /n1 /n2 n1 n2 ./n2 .. ../n2 n1/ n1/n2 /n1//n2 n1/../n2 and            *)
(* ../n1/../n1/n2, which below a directory of the root is too long by one. *)
MCRawPaths ==
    {Abs(<<>>), Abs(<<n1>>), Abs(<<n2>>), Rel(<<n1>>), Rel(<<n2>>), Rel(<<".", n2>>),
     Rel(<<"..">>), Rel(<<"..", n2>>), Rel(<<n1, "">>), Rel(<<n1, n2>>),
     Abs(<<n1, "", n2>>), Rel(<<n1, "..", n2>>), Rel(<<"..", n1, "..", n1, n2>>)}

(* A disk without the label, and the one with it.                          *)
MCDevices == <<[writable |-> TRUE, rootfs |-> FALSE], [writable |-> TRUE, rootfs |-> TRUE]>>

MCNone == {}
MCNoUnit == -1
MCSizes == {0}
MCLengths == {1}

=============================================================================
