------------------------------ MODULE UserPaths ------------------------------
(***************************************************************************)
(* Paths as programs write them and what src/userspace/syscall.c makes of  *)
(* them before the file system sees them.                                  *)
(*                                                                         *)
(* A path is [absolute, parts]: whether it begins with a slash, and what   *)
(* stands between its slashes; two slashes in a row, and one at the end,   *)
(* have the empty part between or behind them.  A resolved path, and a     *)
(* working directory, is a sequence of names.                              *)
(***************************************************************************)
EXTENDS Integers, Sequences, SequencesExt

CONSTANTS
    Length,             \* of each name, in characters
    USER_FS_PATH_MAX    \* size of every buffer for a path, with its end

ASSUME PathAssumption ==
    /\ Length \in [DOMAIN Length -> Nat \ {0}] /\ USER_FS_PATH_MAX \in Nat
    /\ DOMAIN Length \cap {"", ".", ".."} = {}

part_len(part) == CASE part = "" -> 0 [] part = "." -> 1 [] part = ".." -> 2
                    [] OTHER -> Length[part]

(* strlen of a path as it is written.                                      *)
path_len(path) ==
    FoldLeft(LAMBDA n, part : n + part_len(part),
             (IF path.absolute THEN 1 ELSE 0) + (IF path.parts = <<>> THEN 0 ELSE Len(path.parts) - 1),
             path.parts)

(* strlen of a resolved one.                                               *)
resolved_len(names) ==
    IF names = <<>> THEN 1 ELSE FoldLeft(LAMBDA n, name : n + 1 + Length[name], 0, names)

(* copy_user_string: the end has to be within the buffer.                  *)
copy_user_string(path) == path_len(path) < USER_FS_PATH_MAX

(* A relative path and the directory before it have to fit, even if what   *)
(* they come to would.                                                     *)
combines(cwd, path) ==
    \/ path.absolute
    \/ resolved_len(cwd) + (IF cwd = <<>> THEN 0 ELSE 1) + path_len(path) + 1 <= USER_FS_PATH_MAX

(* Mutant: ".." is a name like another.                                    *)
not_popped(names) == names

(* ".." in the root is the root.                                           *)
popped(names) == IF names = <<>> THEN <<>> ELSE Front(names)

(* One round of the loop over the parts.                                   *)
resolve_part(out, part) ==
    IF ~out.ok \/ part \in {"", "."} THEN out
    ELSE IF part = ".." THEN [out EXCEPT !.names = popped(@)]
    ELSE IF resolved_len(Append(out.names, part)) + 1 > USER_FS_PATH_MAX
    THEN [out EXCEPT !.ok = FALSE]
    ELSE [out EXCEPT !.names = Append(@, part)]

resolve_path(cwd, path) ==
    IF (~path.absolute /\ path.parts = <<>>) \/ ~combines(cwd, path)
    THEN [ok |-> FALSE, names |-> <<>>]
    ELSE FoldLeft(resolve_part, [ok |-> TRUE, names |-> <<>>],
                  IF path.absolute THEN path.parts ELSE cwd \o path.parts)

copy_and_resolve_user_path(cwd, path) ==
    IF copy_user_string(path) THEN resolve_path(cwd, path)
    ELSE [ok |-> FALSE, names |-> <<>>]

=============================================================================
