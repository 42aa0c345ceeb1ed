------------------------------ MODULE RunStack -------------------------------
(***************************************************************************)
(* What launching a program promises its caller, whatever the kernel does  *)
(* to keep the promise: the programs behave like nested procedure calls.   *)
(* A call pushes a frame for a process never seen before; only the top     *)
(* frame computes; when it exits the frame below continues with the very   *)
(* registers it called with, and gets as its result the status that the    *)
(* program on top had in its registers when it exited.                     *)
(***************************************************************************)
EXTENDS Integers, Sequences, SequencesExt

CONSTANTS Contexts,         \* register files of a program
          Status            \* what a register value is as an exit status

VARIABLES frames,           \* the calls in progress, oldest first
          issued,           \* the highest process identifier given out
          result,           \* what the last call or exit returned
          stopped           \* no program will run again

vars == <<frames, issued, result, stopped>>

Frame == [pid : Nat, regs : Contexts]

Init == frames = <<>> /\ issued = 0 /\ result = 0 /\ stopped = FALSE

(* The first program gets the first pid before it starts.  The machine     *)
(* may also fail to load it.                                               *)
Boot == /\ frames = <<>> /\ issued = 0 /\ ~stopped
        /\ issued' \in {0, 1}
        /\ stopped' \in BOOLEAN
        /\ UNCHANGED <<frames, result>>

(* newer is older with one frame for the process pid on top of it.         *)
Pushed(older, newer, pid) ==
    /\ newer \in Seq(Frame)
    /\ newer # <<>>
    /\ Front(newer) = older
    /\ Last(newer).pid = pid

Start == /\ frames = <<>> /\ issued = 1 /\ ~stopped
         /\ Pushed(<<>>, frames', 1)
         /\ UNCHANGED <<issued, result, stopped>>

Compute == /\ frames # <<>>
           /\ Pushed(Front(frames), frames', Last(frames).pid)
           /\ UNCHANGED <<issued, result, stopped>>

(* A call that starts nothing leaves every frame alone.  If a process was  *)
(* made for it and could not be loaded the caller gets an error; what the  *)
(* calls that make no process return is not the subject here.              *)
Answer == /\ frames # <<>>
          /\ issued' \in {issued, issued + 1}
          /\ result' \in Int
          /\ issued' # issued => result' < 0
          /\ UNCHANGED <<frames, stopped>>

Call == /\ frames # <<>>
        /\ Pushed(frames, frames', issued + 1)
        /\ issued' = issued + 1
        /\ UNCHANGED <<result, stopped>>

Return == /\ Len(frames) > 1
          /\ frames' = Front(frames)
          /\ result' = Status[Last(frames).regs["rdi"]]
          /\ UNCHANGED <<issued, stopped>>

(* The first program exits, or a program faults, or the machine stops      *)
(* before there is one.                                                    *)
Stop == /\ ~stopped
        /\ frames' = <<>>
        /\ stopped' = TRUE
        /\ UNCHANGED <<issued, result>>

Next == Boot \/ Start \/ Compute \/ Answer \/ Call \/ Return \/ Stop

Spec == Init /\ [][Next]_vars

=============================================================================
