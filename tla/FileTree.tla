------------------------------ MODULE FileTree -------------------------------
(***************************************************************************)
(* What the file system promises its callers: a tree of directories and    *)
(* files.  A call that succeeds changes the tree in the one way it is for, *)
(* a call that fails not at all.  Only a write there is no space for may   *)
(* reach part of its units, in a file of the new length.                   *)
(***************************************************************************)
EXTENDS Integers, Sequences, SequencesExt

CONSTANTS Paths, Mark, Dir,     \* paths, what writers write, a directory
          USER_ERR_FAULT, USER_ERR_INVAL

VARIABLES
    tree,       \* Dir or the file's units, by path
    call        \* the call made last: op, path, at (size or offset), len, result

vars == <<tree, call>>

-----------------------------------------------------------------------------
(* t is the tree before call c, u the tree after it.                       *)

IsDir(t, p) == p = <<>> \/ (p \in DOMAIN t /\ t[p] = Dir)
IsFile(t, p) == p \in DOMAIN t /\ t[p] # Dir
Children(t, p) == {q \in DOMAIN t : Len(q) = Len(p) + 1 /\ IsPrefix(p, q)}

(* The two trees agree but for p.                                          *)
SameBut(t, u, p) == \A q \in (DOMAIN t \cup DOMAIN u) \ {p} :
                        q \in DOMAIN t /\ q \in DOMAIN u /\ t[q] = u[q]

(* What a file of length n has once its first units are those of old.      *)
Extended(old, n) == [k \in 1 .. n |-> IF k <= Len(old) THEN old[k] ELSE 0]

(* The length of a file after a write, and the units written.              *)
LengthWith(old, c) == IF c.at + c.len > Len(old) THEN c.at + c.len ELSE Len(old)
Units(c) == c.at + 1 .. c.at + c.len

(* A name is free and its directory is there.                              *)
CanMake(t, p) == p # <<>> /\ p \notin DOMAIN t /\ IsDir(t, Front(p))

Create(t, u, c) == CanMake(t, c.path) /\ c.path \in DOMAIN u /\ u[c.path] = <<>>
Mkdir(t, u, c) == CanMake(t, c.path) /\ c.path \in DOMAIN u /\ u[c.path] = Dir
Unlink(t, u, c) == IsFile(t, c.path) /\ c.path \notin DOMAIN u

CanRmdir(t, p) == p # <<>> /\ p \in DOMAIN t /\ IsDir(t, p) /\ Children(t, p) = {}
Rmdir(t, u, c) == CanRmdir(t, c.path) /\ c.path \notin DOMAIN u

Truncate(t, u, c) ==
    IsFile(t, c.path) /\ IsFile(u, c.path) /\ u[c.path] = Extended(t[c.path], c.at)

CanWrite(t, c) == IsFile(t, c.path) /\ c.at <= Len(t[c.path])
Write(t, u, c) ==
    /\ CanWrite(t, c) /\ IsFile(u, c.path)
    /\ u[c.path] = [k \in 1 .. LengthWith(t[c.path], c) |->
                       IF k \in Units(c) THEN Mark ELSE t[c.path][k]]

(* A write that stops half way.                                            *)
WriteInPart(t, u, c) ==
    /\ c.op = "write" /\ IsFile(u, c.path)
    /\ Len(u[c.path]) = LengthWith(t[c.path], c)
    /\ \A k \in 1 .. Len(u[c.path]) :
          \/ u[c.path][k] = Extended(t[c.path], Len(u[c.path]))[k]
          \/ k \in Units(c) /\ u[c.path][k] = Mark

(* The call is one that the tree allows.                                   *)
Legal(t, c) ==
    \/ c.op \in {"create", "mkdir"} /\ CanMake(t, c.path)
    \/ c.op \in {"unlink", "truncate"} /\ IsFile(t, c.path)
    \/ c.op = "rmdir" /\ CanRmdir(t, c.path)
    \/ c.op = "write" /\ CanWrite(t, c)

Succeeds(t, u, c) ==
    /\ SameBut(t, u, c.path)
    /\ \/ c.op = "create" /\ Create(t, u, c) /\ c.result = 0
       \/ c.op = "mkdir" /\ Mkdir(t, u, c) /\ c.result = 0
       \/ c.op = "unlink" /\ Unlink(t, u, c) /\ c.result = 0
       \/ c.op = "rmdir" /\ Rmdir(t, u, c) /\ c.result = 0
       \/ c.op = "truncate" /\ Truncate(t, u, c) /\ c.result = 0
       \/ c.op = "write" /\ Write(t, u, c) /\ c.result = c.len

(* Removing needs no space.                                                *)
RunsOut(t, u, c) ==
    /\ c.result = USER_ERR_FAULT
    /\ c.op \notin {"unlink", "rmdir"} /\ Legal(t, c)
    /\ u = t \/ (SameBut(t, u, c.path) /\ WriteInPart(t, u, c))

Refused(t, u, c) == c.result = USER_ERR_INVAL /\ ~Legal(t, c) /\ u = t

Step(t, u, c) == Succeeds(t, u, c) \/ RunsOut(t, u, c) \/ Refused(t, u, c)

Init == DOMAIN tree \subseteq Paths

Next == \E t \in {tree}, u \in {tree'} : Step(t, u, call')

Spec == Init /\ [][Next]_vars

=============================================================================
