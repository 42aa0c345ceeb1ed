-------------------------- MODULE Scheduler_proofs ---------------------------
(***************************************************************************)
(* Proofs about Scheduler, for any number of slots, frames and images.     *)
(***************************************************************************)
EXTENDS Scheduler, FiniteSetTheorems, SequenceTheorems, TLAPS

-----------------------------------------------------------------------------
(* Register files.                                                         *)

(* A system call that returns to its caller gives back every register      *)
(* other than rax: the conversions of exception_dispatch are inverse.      *)
LEMMA SyscallFrameInverse ==
    ASSUME NEW f \in Contexts
    PROVE  InterruptFrame(SyscallFrame(f)) = f
  BY DEF Contexts, UserRegs, InterruptFrame, SyscallFrame

(* What is stored for a suspended parent is its whole register file.       *)
LEMMA SavedRegisters ==
    ASSUME NEW f \in Contexts
    PROVE  registers_from_syscall_frame(SyscallFrame(f)) = f
  BY DEF Contexts, UserRegs, registers_from_syscall_frame, SyscallFrame

(* What is restored for a parent that resumes is what was stored.          *)
LEMMA RestoredRegisters ==
    ASSUME NEW f \in Contexts
    PROVE  InterruptFrame(syscall_frame_from_registers(f)) = f
  BY DEF Contexts, UserRegs, InterruptFrame, syscall_frame_from_registers

(* The register files the kernel makes up are register files.              *)
LEMMA MadeUpContexts ==
    /\ Context("zero") \in Contexts
    /\ KernelContext \in Contexts
    /\ \A tag \in Tags : Context(tag) \in Contexts
    /\ \A img \in Image : ImageRegs(img) \in Contexts
    /\ \A regs \in Contexts : entered(regs) \in Contexts
  <1>1. Context("zero") \in Contexts /\ KernelContext \in Contexts
    BY DEF Context, KernelContext, Contexts, Values
  <1>2. \A tag \in Tags : Context(tag) \in Contexts
    BY DEF Context, Contexts, Values
  <1>3. \A img \in Image : ImageRegs(img) \in Contexts
    <2> TAKE img \in Image
    <2>1. /\ <<"rip", img>> \in UserRegs \X Values
          /\ <<"rsp", "stack_top">> \in UserRegs \X Values
          /\ <<"rflags", "0x202">> \in UserRegs \X Values
      BY DEF UserRegs, Values
    <2> QED BY <1>1, <2>1 DEF ImageRegs, Contexts
  <1>4. \A regs \in Contexts : entered(regs) \in Contexts
    <2> TAKE regs \in Contexts
    <2>1. /\ regs.rip \in UserRegs \X Values
          /\ regs.rsp \in UserRegs \X Values
          /\ <<"rflags", "0x202">> \in UserRegs \X Values
      BY DEF UserRegs, Values, Contexts
    <2> QED BY <1>1, <2>1 DEF entered, Contexts
  <1> QED BY <1>1, <1>2, <1>3, <1>4

-----------------------------------------------------------------------------
(* Type correctness.                                                       *)

USE SlotsAssumption, PagesAssumption, ImageAssumption, ResultsAssumption,
    NullAssumption, BoundsAssumption

(* The exit status is what the program has in its first argument register. *)
LEMMA ExitStatus ==
    ASSUME cpu \in Contexts
    PROVE  exit_status = Status[cpu["rdi"]] /\ exit_status \in Int
  <1>1. SyscallFrame(cpu).arg0 = cpu["rdi"]
    BY DEF SyscallFrame
  <1>2. cpu["rdi"] \in UserRegs \X Values
    BY DEF Contexts, UserRegs
  <1> QED BY <1>1, <1>2, StatusAssumption DEF exit_status

(* A load takes no more frames than there are.                             *)
LEMMA LoadTakes ==
    ASSUME NEW img \in Image, NEW free \in Nat
    PROVE  /\ load_takes(img, free) \in 0 .. free
           /\ load_succeeds(img, free) => load_takes(img, free) >= 2
  BY DEF load_takes, load_succeeds

LEMMA LoadedProcess ==
    ASSUME NEW img \in Image, NEW pid \in Nat, NEW free \in 0 .. TotalPages,
           NEW cwd \in Dirs \cup {"/"}
    PROVE  loaded_process(img, pid, free, cwd) \in Process
  BY MadeUpContexts DEF loaded_process, Process, ProcessStates, ThreadStates

(* The updates the kernel makes to one entry of the table.                 *)
LEMMA TableUpdates ==
    ASSUME NEW p \in [Slots -> Process], NEW s \in Slots
    PROVE  /\ \A q \in Process : [p EXCEPT ![s] = q] \in [Slots -> Process]
           /\ emptied(p, s) \in [Slots -> Process]
           /\ \A st \in ProcessStates, th \in ThreadStates :
                 marked(p, s, st, th) \in [Slots -> Process]
           /\ \A c \in Contexts : with_regs(p, s, c) \in [Slots -> Process]
           /\ \A dir \in Dirs : process_set_cwd(p, s, dir) \in [Slots -> Process]
  <1>1. \A q \in Process : [p EXCEPT ![s] = q] \in [Slots -> Process]
    OBVIOUS
  <1>2. p[s] \in Process
    OBVIOUS
  <1>3. [p[s] EXCEPT !.state = "EMPTY"] \in Process
    BY <1>2 DEF Process, ProcessStates
  <1>4. \A st \in ProcessStates, th \in ThreadStates :
            [p[s] EXCEPT !.state = st, !.thread = th] \in Process
    BY <1>2 DEF Process
  <1>5. \A c \in Contexts : [p[s] EXCEPT !.regs = c] \in Process
    BY <1>2 DEF Process
  <1>6. \A dir \in Dirs : [p[s] EXCEPT !.cwd = dir] \in Process
    BY <1>2 DEF Process
  <1> QED BY <1>1, <1>3, <1>4, <1>5, <1>6 DEF emptied, marked, with_regs, process_set_cwd

(* What marking an entry changes and what it keeps.                        *)
LEMMA Marked ==
    ASSUME NEW p \in [Slots -> Process], NEW s \in Slots, NEW st, NEW th
    PROVE  /\ marked(p, s, st, th)[s].state = st
           /\ marked(p, s, st, th)[s].thread = th
           /\ marked(p, s, st, th)[s].pid = p[s].pid
           /\ marked(p, s, st, th)[s].pml4 = p[s].pml4
           /\ marked(p, s, st, th)[s].regs = p[s].regs
           /\ \A t \in Slots \ {s} : marked(p, s, st, th)[t] = p[t]
  BY DEF Process, marked

LEMMA InitTypeOK == Init => TypeOK
  <1> SUFFICES ASSUME Init PROVE TypeOK
    OBVIOUS
  <1>1. EmptyProcess \in Process
    BY MadeUpContexts DEF EmptyProcess, Process, ProcessStates, ThreadStates
  <1>2. NoRun \in Run
    BY MadeUpContexts DEF NoRun, Run
  <1> QED BY <1>1, <1>2, MadeUpContexts DEF Init, TypeOK, Modes, Slots

(* The part of the inductive invariant that says where control is.         *)
Control == LaunchReady /\ RunChain

LEMMA TypeStep ==
    ASSUME TypeOK, Control, [Next]_vars
    PROVE  TypeOK'
  <1> USE DEF TypeOK
  <1>0. 0 \in Slots /\ MaxProcesses \in Nat
    BY DEF Slots
  <1>1. ASSUME NEW readable \in BOOLEAN, UserspaceInit(readable)
        PROVE  TypeOK'
    <2>1. load_takes(InitImage, free_pages) \in 0 .. free_pages
      BY LoadTakes
    <2>2. loaded_process(InitImage, next_pid, free_pages, "/") \in Process
      BY LoadedProcess
    <2>3. entered(ImageRegs(InitImage)) \in Contexts
      BY MadeUpContexts
    <2>4. \A q \in Process : [processes EXCEPT ![0] = q] \in [Slots -> Process]
      BY <1>0, TableUpdates
    <2> QED BY <1>0, <1>1, <2>1, <2>2, <2>3 DEF UserspaceInit, Modes, stack, counters
  <1>2. CASE PrepareLaunch
    BY <1>0, <1>2 DEF PrepareLaunch, Modes, stack, counters, memory
  <1>3. CASE EnterInit
    <2>1. current \in Slots
      BY <1>0, <1>3 DEF EnterInit, Control, LaunchReady
    <2>2. entered(processes[current].regs) \in Contexts
      BY <2>1, MadeUpContexts DEF Process
    <2>3. processes' \in [Slots -> Process]
      BY <1>3, <2>1, TableUpdates DEF EnterInit, enter_current, ProcessStates, ThreadStates
    <2>4. processes[current].pml4 \in Nat
      BY <2>1 DEF Process
    <2> QED BY <1>3, <2>2, <2>3, <2>4 DEF EnterInit, enter_current, activated,
                Modes, stack, counters, memory
  <1>4. CASE TimerIrq
    <2>1. processes' \in [Slots -> Process]
      <3>1. CASE current = Null
        BY <1>4, <3>1 DEF TimerIrq
      <3>2. CASE current \in Slots
        <4> DEFINE frame == IF mode = "user" THEN cpu ELSE KernelContext
                   regs == saved_regs(frame, mode = "user", processes[current].regs)
        <4>1. regs \in Contexts
          BY <3>2, MadeUpContexts DEF saved_regs, Process
        <4>2. processes' = with_regs(processes, current, regs)
          BY <1>4, <3>2 DEF TimerIrq, Slots
        <4> QED BY <3>2, <4>1, <4>2, TableUpdates
      <3> QED BY <3>1, <3>2
    <2>2. user_preemptions' \in Nat /\ ticks' \in Nat
      BY <1>4 DEF TimerIrq
    <2> QED BY <1>4, <2>1, <2>2 DEF TimerIrq, stack, memory
  <1>5. ASSUME NEW tag \in Tags, UserCompute(tag)
        PROVE  TypeOK'
    BY <1>5, MadeUpContexts DEF UserCompute, stack, memory, counters
  <1>6. CASE UserFault
    BY <1>6 DEF UserFault, Modes, stack, memory, counters
  <1>7. InterruptFrame(SyscallFrame(cpu)) \in Contexts
    BY SyscallFrameInverse
  <1>8. ASSUME NEW result \in Results, NEW n \in Growth, SysOther(result, n)
        PROVE  TypeOK'
    BY <1>7, <1>8 DEF SysOther, sysret, take, stack, counters
  <1>9. ASSUME NEW dir \in Dirs, SysChdir(dir)
        PROVE  TypeOK'
    <2>1. processes' \in [Slots -> Process]
      BY <1>9, TableUpdates DEF SysChdir, Control, RunChain
    <2> QED BY <1>7, <1>9, <2>1 DEF SysChdir, sysret, stack, memory, counters
  <1>10. ASSUME NEW result \in {USER_ERR_FAULT, USER_ERR_INVAL}, NEW n \in Growth,
                RunPathRefused(result, n)
         PROVE  TypeOK'
    BY <1>7, <1>10 DEF RunPathRefused, sysret, stack, counters, USER_ERR_FAULT,
                       USER_ERR_INVAL
  <1>11. ASSUME NEW img \in Image, NEW n \in Growth, RunPathLoadFails(img, n)
         PROVE  TypeOK'
    <2>1. free_pages - n \in 0 .. free_pages
      BY <1>11 DEF RunPathLoadFails
    <2>2. load_takes(img, free_pages - n) \in 0 .. free_pages - n
      BY <2>1, LoadTakes
    <2>3. processes' \in [Slots -> Process]
      BY <1>11, TableUpdates DEF RunPathLoadFails, ProcessStates
    <2> QED BY <1>7, <1>11, <2>1, <2>2, <2>3 DEF RunPathLoadFails, sysret, stack,
                counters, USER_ERR_INVAL
  <1>12. ASSUME NEW img \in Image, NEW n \in Growth, RunPathLaunches(img, n)
         PROVE  TypeOK'
    <2>0. free_pages - n \in 0 .. free_pages
      BY <1>12 DEF RunPathLaunches
    <2>1. load_takes(img, free_pages - n) \in 0 .. free_pages - n
      BY <2>0, LoadTakes
    <2>2. current \in Slots /\ mode = "user"
      BY <1>12 DEF RunPathLaunches, Control, RunChain
    <2> DEFINE child == loaded_process(img, next_pid, free_pages - n,
                                       processes[current].cwd)
    <2>3. child \in Process
      <3>1. processes[current].cwd \in Dirs \cup {"/"}
        BY <2>2 DEF Process
      <3> QED BY <2>0, <3>1, LoadedProcess
    <2>4. entered(child.regs) \in Contexts /\ entered(ImageRegs(img)) \in Contexts
      BY <2>3, MadeUpContexts DEF Process
    <2>5. registers_from_syscall_frame(SyscallFrame(cpu)) \in Contexts
      BY SavedRegisters
    <2>6. PICK s \in Slots :
             /\ first_usable(s)
             /\ left' = [left EXCEPT ![s] = entered(ImageRegs(img))]
             /\ return_context' = return_context
             /\ run_process_blocking(s, [processes EXCEPT ![s] = child])
      BY <1>12 DEF RunPathLaunches
    <2> DEFINE table == [processes EXCEPT ![s] = child]
               asleep == marked(table, current, "READY", "BLOCKED")
    <2>7. table \in [Slots -> Process]
      BY <2>3, TableUpdates
    <2>8. asleep \in [Slots -> Process]
      BY <2>2, <2>7, TableUpdates DEF ProcessStates, ThreadStates
    <2>9. entered(asleep[s].regs) \in Contexts /\ asleep[s].pml4 \in Nat
      BY <2>8, MadeUpContexts DEF Process
    <2>10. marked(asleep, s, "RUNNING", "RUNNING") \in [Slots -> Process]
      BY <2>8, TableUpdates DEF ProcessStates, ThreadStates
    <2>a. run_process_blocking(s, table)
      BY <2>6
    <2> HIDE DEF child, table
    <2>11. /\ processes' \in [Slots -> Process]
           /\ cpu' \in Contexts /\ cr3' \in Nat /\ launches' \in Nat
           /\ mode' \in Modes /\ current' \in Slots \cup {Null}
           /\ blocking_run_depth' \in 0 .. MaxProcesses
      <3>1. CASE blocking_run_depth >= MaxProcesses
        BY <2>2, <2>7, <2>a, <3>1 DEF run_process_blocking, Modes, stack
      <3>2. CASE ~(blocking_run_depth >= MaxProcesses)
        <4>1. /\ blocking_run_depth' = blocking_run_depth + 1
              /\ current' = s
              /\ enter_current(s, asleep)
          BY <2>2, <2>a, <3>2 DEF run_process_blocking, Slots
        <4>2. CASE return_context' = "NULL"
          BY <1>0, <2>8, <3>2, <4>1, <4>2 DEF enter_current, Modes
        <4>3. CASE return_context' # "NULL"
          <5>1. s # Null
            BY DEF Slots
          <5> QED BY <1>0, <2>9, <2>10, <3>2, <4>1, <4>3, <5>1
                  DEF enter_current, activated, Modes
        <4> QED BY <4>2, <4>3
      <3> QED BY <3>1, <3>2
    <2>12. blocking_runs' \in [Slots -> Run]
      <3>1. [parent |-> current,
             regs |-> registers_from_syscall_frame(SyscallFrame(cpu))] \in Run
        BY <2>2, <2>5 DEF Run
      <3> QED BY <2>6, <3>1 DEF run_process_blocking, stack
    <2>13. free_pages' \in 0 .. TotalPages /\ next_pid' \in Nat
      BY <1>12, <2>0, <2>1 DEF RunPathLaunches
    <2>14. /\ return_context' \in {"NULL", "init"}
           /\ left' \in [Slots -> Contexts]
      BY <2>4, <2>6
    <2>15. UNCHANGED <<rax, ticks, user_preemptions, exits, last_exit_status>>
      BY <1>12 DEF RunPathLaunches
    <2> QED BY <2>11, <2>12, <2>13, <2>14, <2>15
  <1>13. ASSUME NEW status \in {exit_status}, SysExitToParent(status)
         PROVE  TypeOK'
    <2>1. mode = "user" /\ current \in Slots /\ blocking_run_depth \in 1 .. MaxProcesses
      BY <1>0, <1>13 DEF SysExitToParent, Control, RunChain
    <2>2. popped \in Slots /\ popped \in 0 .. MaxProcesses
      BY <1>0, <2>1 DEF popped, Slots
    <2> DEFINE run == blocking_runs[popped]
    <2>3. run.parent \in Slots /\ run.regs \in Contexts
      BY <1>13, <2>2 DEF SysExitToParent, Run
    <2>4. InterruptFrame(syscall_frame_from_registers(run.regs)) \in Contexts
      BY <2>3, RestoredRegisters
    <2>5. marked(exited(processes, current), run.parent, "RUNNING", "RUNNING")
             \in [Slots -> Process]
      BY <2>1, <2>3, TableUpdates DEF exited, ProcessStates, ThreadStates
    <2>6. processes[run.parent].pml4 \in Nat
      BY <2>3 DEF Process
    <2>7. NoRun \in Run /\ KernelContext \in Contexts
      BY MadeUpContexts DEF NoRun, Run
    <2>8. /\ processes' \in [Slots -> Process] /\ current' \in Slots
          /\ cr3' \in Nat /\ cpu' \in Contexts
      BY <1>13, <2>3, <2>4, <2>5, <2>6 DEF SysExitToParent, activated
    <2>9. /\ blocking_runs' \in [Slots -> Run] /\ left' \in [Slots -> Contexts]
          /\ blocking_run_depth' \in 0 .. MaxProcesses
      BY <1>13, <2>2, <2>7 DEF SysExitToParent
    <2>10. status \in Int
      BY <1>13, ExitStatus
    <2> QED BY <1>13, <2>8, <2>9, <2>10 DEF SysExitToParent, memory
  <1>14. ASSUME NEW status \in {exit_status}, SysExitToKernel(status)
         PROVE  TypeOK'
    <2>1. current \in Slots
      BY <1>14 DEF SysExitToKernel, Control, RunChain
    <2>2. exited(processes, current) \in [Slots -> Process]
      BY <2>1, TableUpdates DEF exited, ProcessStates, ThreadStates
    <2>3. NoRun \in Run
      BY MadeUpContexts DEF NoRun, Run
    <2>4. blocking_runs' \in [Slots -> Run] /\ blocking_run_depth' \in 0 .. MaxProcesses
      BY <1>0, <1>14, <2>3 DEF SysExitToKernel, popped, stack
    <2>5. /\ processes' \in [Slots -> Process] /\ current' \in Slots \cup {Null}
          /\ cr3' \in Nat /\ cpu' \in Contexts /\ mode' \in Modes
      BY <1>14, <2>2, MadeUpContexts DEF SysExitToKernel, Modes
    <2>6. status \in Int
      BY <1>14, ExitStatus
    <2> QED BY <1>14, <2>4, <2>5, <2>6 DEF SysExitToKernel, memory
  <1>15. CASE KmainEnds
    BY <1>15 DEF KmainEnds, Modes, stack, memory, counters
  <1>16. CASE TimerWaitFails
    BY <1>16 DEF TimerWaitFails, Modes, stack, memory, counters
  <1>17. CASE UNCHANGED vars
    BY <1>17 DEF vars, stack, memory, counters
  <1> QED
    BY <1>1, <1>2, <1>3, <1>4, <1>5, <1>6, <1>8, <1>9, <1>10, <1>11, <1>12,
       <1>13, <1>14, <1>15, <1>16, <1>17 DEF Next, RunPath, SysExit, Halted

-----------------------------------------------------------------------------
(* The chain of processes.                                                 *)

(* A launch that finds a slot finds room on the stack of blocking runs:    *)
(* the suspended processes are distinct and none of them is in that slot.  *)
LEMMA RoomOnStack ==
    ASSUME TypeOK, RunChain, mode = "user", NEW s \in Slots, first_usable(s)
    PROVE  blocking_run_depth < MaxProcesses
  <1>1. \A d \in Depths : Parent(d) \in Slots \ {s}
    BY DEF RunChain, first_usable, usable_slots
  <1> DEFINE f == [d \in Depths |-> Parent(d)]
  <1>2. f \in Injection(Depths, Slots \ {s})
    BY <1>1 DEF RunChain, Injection, IsInjective
  <1>3. IsFiniteSet(Slots) /\ Cardinality(Slots) = MaxProcesses
    <2>1. MaxProcesses - 1 \in Int /\ ~(0 > MaxProcesses - 1)
      OBVIOUS
    <2>2. /\ IsFiniteSet(0 .. MaxProcesses - 1)
          /\ Cardinality(0 .. MaxProcesses - 1) = (MaxProcesses - 1) - 0 + 1
      BY <2>1, FS_Interval
    <2> QED BY <2>2 DEF Slots
  <1>4. IsFiniteSet(Slots \ {s}) /\ Cardinality(Slots \ {s}) = MaxProcesses - 1
    BY <1>3, FS_RemoveElement
  <1>5. IsFiniteSet(Depths) /\ Cardinality(Depths) = blocking_run_depth
    <2>1. blocking_run_depth \in Nat
      BY DEF TypeOK
    <2>2. /\ IsFiniteSet(0 .. blocking_run_depth - 1)
          /\ Cardinality(0 .. blocking_run_depth - 1) =
                IF 0 > blocking_run_depth - 1 THEN 0
                ELSE (blocking_run_depth - 1) - 0 + 1
      BY <2>1, FS_Interval
    <2> QED BY <2>1, <2>2 DEF Depths
  <1>6. Cardinality(Depths) <= Cardinality(Slots \ {s})
    BY <1>2, <1>4, <1>5, FS_Injection
  <1> QED BY <1>4, <1>5, <1>6 DEF TypeOK

(* Steps that move no process along the chain keep it.                     *)
LEMMA ChainFrame ==
    ASSUME TypeOK, TypeOK', Control, NeverBroken,
           UNCHANGED <<mode, current, return_context, blocking_runs,
                       blocking_run_depth>>,
           \A s \in Slots : IF s \in Live
                            THEN /\ processes'[s].state = processes[s].state
                                 /\ processes'[s].thread = processes[s].thread
                            ELSE processes'[s].state \notin {"READY", "RUNNING"}
    PROVE  Control' /\ NeverBroken'
  <1>1. Live' = Live /\ Depths' = Depths /\ Suspended' = Suspended
    BY DEF Live, Depths, Suspended, Parent
  <1>2. NeverBroken'
    BY DEF NeverBroken
  <1>3. 0 \in Slots
    BY DEF Slots
  <1>4. LaunchReady'
    BY <1>1, <1>3 DEF Control, LaunchReady, Live
  <1>5. RunChain'
    BY <1>1 DEF Control, RunChain, Parent, Live
  <1> QED BY <1>2, <1>4, <1>5 DEF Control

LEMMA ControlStep ==
    ASSUME TypeOK, TypeOK', Control, NeverBroken, [Next]_vars
    PROVE  Control' /\ NeverBroken'
  <1>0. 0 \in Slots /\ MaxProcesses \in Nat /\ current \in Slots \cup {Null}
        /\ processes \in [Slots -> Process]
        /\ blocking_runs \in [Slots -> Run]
        /\ blocking_run_depth \in 0 .. MaxProcesses
    <2>1. 0 \in Slots
      BY DEF Slots
    <2> QED BY <2>1 DEF TypeOK
  <1>1. ASSUME NEW readable \in BOOLEAN, UserspaceInit(readable)
        PROVE  Control' /\ NeverBroken'
    <2>1. mode' \in {"waiting", "no_init"} /\ blocking_run_depth' = 0
      BY <1>1 DEF UserspaceInit, Control, LaunchReady, stack
    <2>2. CASE mode' = "waiting"
      <3>1. /\ processes' = [processes EXCEPT ![0] =
                   loaded_process(InitImage, next_pid, free_pages, "/")]
            /\ mode = "boot" /\ current' = current
        BY <1>1, <2>2 DEF UserspaceInit
      <3>2. Live = {}
        BY <3>1 DEF Control, LaunchReady
      <3>3. processes'[0].state = "READY" /\ processes'[0].thread = "READY"
        BY <1>0, <3>1 DEF loaded_process
      <3>4. Live' = {0}
        BY <1>0, <3>1, <3>2, <3>3 DEF Live
      <3> QED BY <2>1, <2>2, <3>1, <3>3, <3>4
              DEF Control, LaunchReady, RunChain, NeverBroken
    <2>3. CASE mode' = "no_init"
      BY <2>3 DEF Control, LaunchReady, RunChain, NeverBroken
    <2> QED BY <2>1, <2>2, <2>3
  <1>2. CASE PrepareLaunch
    <2>1. /\ mode = "waiting" /\ mode' = "prepared"
          /\ current' = 0 /\ return_context' = "init"
          /\ UNCHANGED <<processes, blocking_run_depth>>
      BY <1>2 DEF PrepareLaunch, Control, LaunchReady, stack
    <2>2. Live' = Live
      BY <2>1 DEF Live
    <2> QED BY <2>1, <2>2 DEF Control, LaunchReady, RunChain, NeverBroken
  <1>3. CASE EnterInit
    <2>1. /\ mode = "prepared" /\ current = 0 /\ Live = {0}
          /\ blocking_run_depth = 0 /\ return_context = "init"
      BY <1>3 DEF EnterInit, Control, LaunchReady
    <2>2. 0 # Null
      BY <1>0
    <2>3. /\ mode' = "user" /\ current' = 0 /\ return_context' = "init"
          /\ blocking_run_depth' = 0
          /\ processes' = marked(processes, 0, "RUNNING", "RUNNING")
      BY <1>3, <2>1, <2>2 DEF EnterInit, enter_current, stack
    <2>4. /\ processes'[0].state = "RUNNING" /\ processes'[0].thread = "RUNNING"
          /\ \A t \in Slots \ {0} : processes'[t] = processes[t]
      BY <1>0, <2>3, Marked
    <2>5. Live' = {0}
      BY <1>0, <2>1, <2>4 DEF Live
    <2>6. Depths' = {} /\ Suspended' = {}
      BY <2>3 DEF Depths, Suspended
    <2> QED BY <1>0, <2>3, <2>4, <2>5, <2>6
            DEF Control, LaunchReady, RunChain, NeverBroken
  <1>4. CASE TimerIrq
    <2>1. \A s \in Slots : /\ processes'[s].state = processes[s].state
                           /\ processes'[s].thread = processes[s].thread
      <3>1. CASE current = Null
        BY <1>4, <3>1 DEF TimerIrq
      <3>2. CASE current \in Slots
        <4>1. PICK regs : processes' = with_regs(processes, current, regs)
          BY <1>4, <3>2 DEF TimerIrq, Slots
        <4> QED BY <1>0, <3>2, <4>1 DEF with_regs, Process
      <3> QED BY <1>0, <3>1, <3>2
    <2>2. UNCHANGED <<mode, current, return_context, stack>>
      BY <1>4 DEF TimerIrq
    <2> QED BY <2>1, <2>2, ChainFrame DEF stack, Live
  <1>5. ASSUME NEW tag \in Tags, UserCompute(tag)
        PROVE  Control' /\ NeverBroken'
    BY <1>5, ChainFrame DEF UserCompute, stack, Live
  <1>6. CASE UserFault
    BY <1>6 DEF UserFault, Control, LaunchReady, RunChain, NeverBroken
  <1>8. ASSUME NEW result \in Results, NEW n \in Growth, SysOther(result, n)
        PROVE  Control' /\ NeverBroken'
    BY <1>8, ChainFrame DEF SysOther, sysret, stack, Live
  <1>9. ASSUME NEW dir \in Dirs, SysChdir(dir)
        PROVE  Control' /\ NeverBroken'
    <2>1. current \in Slots
      BY <1>9 DEF SysChdir, Control, RunChain
    <2>2. processes' = process_set_cwd(processes, current, dir)
      BY <1>9 DEF SysChdir
    <2>3. \A s \in Slots : /\ processes'[s].state = processes[s].state
                           /\ processes'[s].thread = processes[s].thread
      BY <1>0, <2>1, <2>2 DEF process_set_cwd, Process
    <2>4. UNCHANGED <<mode, current, return_context, stack>>
      BY <1>9 DEF SysChdir, sysret
    <2> QED BY <2>3, <2>4, ChainFrame DEF stack, Live
  <1>10. ASSUME NEW result \in {USER_ERR_FAULT, USER_ERR_INVAL}, NEW n \in Growth,
                RunPathRefused(result, n)
         PROVE  Control' /\ NeverBroken'
    BY <1>10, ChainFrame DEF RunPathRefused, sysret, stack, Live
  <1>11. ASSUME NEW img \in Image, NEW n \in Growth, RunPathLoadFails(img, n)
         PROVE  Control' /\ NeverBroken'
    <2>1. PICK s \in Slots : first_usable(s) /\ processes' = emptied(processes, s)
      BY <1>11 DEF RunPathLoadFails
    <2>2. s \notin Live
      BY <2>1 DEF first_usable, usable_slots, Live
    <2>3. /\ processes'[s].state = "EMPTY"
          /\ \A t \in Slots \ {s} : processes'[t] = processes[t]
      BY <1>0, <2>1 DEF emptied, Process
    <2>4. UNCHANGED <<mode, current, return_context, stack>>
      BY <1>11 DEF RunPathLoadFails, sysret
    <2> QED BY <2>2, <2>3, <2>4, ChainFrame DEF stack, Live
  <1>12. ASSUME NEW img \in Image, NEW n \in Growth, RunPathLaunches(img, n)
         PROVE  Control' /\ NeverBroken'
    <2>1. /\ mode = "user" /\ current \in Slots /\ return_context = "init"
          /\ Live = Suspended \cup {current}
      BY <1>12 DEF RunPathLaunches, Control, RunChain, LaunchReady
    <2> DEFINE child == loaded_process(img, next_pid, free_pages - n,
                                       processes[current].cwd)
    <2>2. PICK s \in Slots :
             /\ first_usable(s)
             /\ return_context' = return_context
             /\ run_process_blocking(s, [processes EXCEPT ![s] = child])
      BY <1>12 DEF RunPathLaunches
    <2> DEFINE table == [processes EXCEPT ![s] = child]
               asleep == marked(table, current, "READY", "BLOCKED")
    <2>3. blocking_run_depth < MaxProcesses
      BY <2>1, <2>2, RoomOnStack DEF Control
    <2>4. s \notin Live /\ s # 0 /\ s # current /\ current # Null /\ s # Null
      BY <2>1, <2>2 DEF first_usable, usable_slots, Live
    <2>5. /\ blocking_runs' = [blocking_runs EXCEPT ![blocking_run_depth] =
                 [parent |-> current,
                  regs |-> registers_from_syscall_frame(SyscallFrame(cpu))]]
          /\ blocking_run_depth' = blocking_run_depth + 1
          /\ current' = s
          /\ enter_current(s, asleep)
      BY <1>0, <2>2, <2>3, <2>4 DEF run_process_blocking
    <2>6. mode' = "user" /\ processes' = marked(asleep, s, "RUNNING", "RUNNING")
      BY <2>1, <2>2, <2>4, <2>5 DEF enter_current
    <2>7. table \in [Slots -> Process] /\ asleep \in [Slots -> Process]
      <3>1. free_pages - n \in 0 .. TotalPages
        BY <1>12 DEF RunPathLaunches, TypeOK
      <3>2. next_pid \in Nat /\ processes[current].cwd \in Dirs \cup {"/"}
        BY <2>1 DEF TypeOK, Process
      <3>3. child \in Process
        BY <3>1, <3>2, LoadedProcess
      <3>4. table \in [Slots -> Process]
        BY <1>0, <3>3, TableUpdates
      <3> QED BY <2>1, <3>4, TableUpdates DEF ProcessStates, ThreadStates
    <2>8. /\ processes'[s].state = "RUNNING" /\ processes'[s].thread = "RUNNING"
          /\ processes'[current].state = "READY"
          /\ processes'[current].thread = "BLOCKED"
          /\ \A t \in Slots \ {s, current} : processes'[t] = processes[t]
      <3>1. \A t \in Slots \ {s} : table[t] = processes[t]
        BY <1>0
      <3> HIDE DEF table
      <3> QED BY <2>1, <2>4, <2>6, <2>7, <3>1, Marked
    <2>9. blocking_run_depth \in Slots
      BY <1>0, <2>3 DEF Slots
    <2>10. /\ Depths' = Depths \cup {blocking_run_depth}
           /\ blocking_run_depth \notin Depths
           /\ \A d \in Depths : d \in Slots
      BY <1>0, <2>5, <2>9 DEF Depths, Slots
    <2>11. /\ blocking_runs'[blocking_run_depth].parent = current
           /\ \A d \in Depths : blocking_runs'[d] = blocking_runs[d]
      BY <1>0, <2>5, <2>9, <2>10
    <2>12. Suspended' = Suspended \cup {current}
      BY <2>10, <2>11 DEF Suspended, Parent
    <2>13. Live' = Live \cup {s}
      BY <2>1, <2>4, <2>8 DEF Live
    <2>14. \A d \in Depths : Parent(d) \in Suspended /\ Parent(d) \in Live \ {current}
      BY <2>1 DEF Suspended, Control, RunChain
    <2>15. \A d \in Depths' :
              /\ Parent(d)' \in Slots \ {s}
              /\ processes'[Parent(d)'].state = "READY"
              /\ processes'[Parent(d)'].thread = "BLOCKED"
              /\ \A e \in Depths' : Parent(d)' = Parent(e)' => d = e
      BY <2>1, <2>4, <2>8, <2>10, <2>11, <2>14 DEF Parent, Control, RunChain, Live
    <2>16. Parent(0)' = 0
      BY <1>0, <2>1, <2>10, <2>11 DEF Parent, Depths, Control, RunChain
    <2>17. RunChain'
      <3>1. Live' = Suspended' \cup {current'}
        BY <2>1, <2>5, <2>12, <2>13
      <3>2. blocking_run_depth' # 0
        BY <1>0, <2>5
      <3>3. current' \in Slots /\ \A d \in Depths' : Parent(d)' \in Slots \ {current'}
        BY <2>5, <2>15
      <3> QED BY <2>5, <2>8, <2>15, <2>16, <3>1, <3>2, <3>3 DEF RunChain
    <2> QED BY <2>1, <2>2, <2>6, <2>17 DEF Control, LaunchReady, NeverBroken
  <1>13. ASSUME NEW status \in {exit_status}, SysExitToParent(status)
         PROVE  Control' /\ NeverBroken'
    <2>1. /\ mode = "user" /\ mode' = "user" /\ current \in Slots
          /\ return_context = "init" /\ return_context' = "init"
          /\ Live = Suspended \cup {current}
          /\ blocking_run_depth # 0
      BY <1>13 DEF SysExitToParent, Control, RunChain, LaunchReady
    <2> DEFINE back == Parent(popped)
    <2>2. /\ popped \in Depths /\ popped \in Slots
          /\ \A d \in Depths : d \in Slots /\ (d # popped <=> d < popped)
          /\ 0 .. popped - 1 = Depths \ {popped}
      BY <1>0, <2>1 DEF popped, Depths, Slots
    <2>3. back \in Slots \ {current} /\ back \in Live
      BY <2>1, <2>2 DEF Control, RunChain, Live, Suspended
    <2>4. /\ current' = back /\ blocking_run_depth' = popped
          /\ blocking_runs' = [blocking_runs EXCEPT ![popped] = NoRun]
          /\ processes' = marked(exited(processes, current), back,
                                "RUNNING", "RUNNING")
      BY <1>13 DEF SysExitToParent, Parent
    <2>5. /\ processes'[back].state = "RUNNING" /\ processes'[back].thread = "RUNNING"
          /\ processes'[current].state = "EXITED"
          /\ \A t \in Slots \ {back, current} : processes'[t] = processes[t]
      <3>1. exited(processes, current) \in [Slots -> Process]
        BY <1>0, <2>1, TableUpdates DEF exited, ProcessStates, ThreadStates
      <3>2. /\ exited(processes, current)[current].state = "EXITED"
            /\ \A t \in Slots \ {current} : exited(processes, current)[t] = processes[t]
        BY <1>0, <2>1, Marked DEF exited
      <3> QED BY <2>1, <2>3, <2>4, <3>1, <3>2, Marked
    <2>6. Live' = Live \ {current}
      BY <2>1, <2>3, <2>5 DEF Live
    <2>7. /\ Depths' = Depths \ {popped}
          /\ \A d \in Depths' : blocking_runs'[d] = blocking_runs[d]
      BY <1>0, <2>2, <2>4 DEF Depths
    <2>8. \A d \in Depths' : Parent(d)' = Parent(d) /\ Parent(d) # back
      BY <2>1, <2>2, <2>7 DEF Parent, Control, RunChain
    <2>9. Suspended' = Suspended \ {back}
      BY <2>2, <2>7, <2>8 DEF Suspended
    <2>10. \A d \in Depths' :
              /\ Parent(d)' \in Slots \ {back}
              /\ processes'[Parent(d)'].state = "READY"
              /\ processes'[Parent(d)'].thread = "BLOCKED"
              /\ \A e \in Depths' : Parent(d)' = Parent(e)' => d = e
      BY <2>1, <2>5, <2>7, <2>8 DEF Control, RunChain
    <2>11. IF blocking_run_depth' = 0 THEN current' = 0 ELSE Parent(0)' = 0
      <3>1. Parent(0) = 0
        BY <2>1 DEF Control, RunChain
      <3>2. CASE popped = 0
        BY <2>4, <3>1, <3>2
      <3>3. CASE popped # 0
        <4>1. 0 \in Depths'
          BY <1>0, <2>1, <2>7, <3>3 DEF Depths
        <4> QED BY <2>4, <2>8, <3>1, <3>3, <4>1
      <3> QED BY <3>2, <3>3
    <2>12. Suspended' \cup {back} = Live \ {current}
      <3>1. back \in Suspended
        BY <2>2 DEF Suspended
      <3>2. current \notin Suspended
        BY <2>1 DEF Suspended, Control, RunChain
      <3> HIDE DEF back
      <3> QED BY <2>1, <2>9, <3>1, <3>2
    <2> HIDE DEF back
    <2>13. RunChain'
      BY <2>1, <2>3, <2>4, <2>5, <2>6, <2>10, <2>11, <2>12 DEF RunChain
    <2> QED BY <2>1, <2>13 DEF Control, LaunchReady, NeverBroken
  <1>14. ASSUME NEW status \in {exit_status}, SysExitToKernel(status)
         PROVE  Control' /\ NeverBroken'
    <2>1. /\ mode = "user" /\ return_context = "init" /\ no_parent
          /\ \A d \in Depths : Parent(d) \in Slots
      BY <1>14 DEF SysExitToKernel, Control, RunChain, LaunchReady
    <2>2. blocking_run_depth = 0
      BY <1>0, <2>1 DEF no_parent, popped, Depths, Parent
    <2>3. mode' = "returned" /\ blocking_run_depth' = 0
      BY <1>14, <2>1, <2>2 DEF SysExitToKernel, stack
    <2> QED BY <2>3 DEF Control, LaunchReady, RunChain, NeverBroken
  <1>15. CASE KmainEnds
    BY <1>15 DEF KmainEnds, Control, LaunchReady, RunChain, NeverBroken
  <1>16. CASE TimerWaitFails
    BY <1>16 DEF TimerWaitFails, Control, LaunchReady, RunChain, NeverBroken
  <1>17. CASE UNCHANGED vars
    BY <1>17, ChainFrame DEF vars, stack, memory, counters, Live
  <1> QED
    BY <1>1, <1>2, <1>3, <1>4, <1>5, <1>6, <1>8, <1>9, <1>10, <1>11, <1>12,
       <1>13, <1>14, <1>15, <1>16, <1>17 DEF Next, RunPath, SysExit, Halted

-----------------------------------------------------------------------------
(* Registers.                                                              *)

Registers == ContextPreserved /\ SavedContexts

(* Steps that touch neither registers nor the chain.                       *)
LEMMA RegistersFrame ==
    ASSUME Registers, UNCHANGED <<mode, current, blocking_runs,
                                  blocking_run_depth, cpu, left>>,
           mode \in {"waiting", "prepared"} => processes'[0].regs = processes[0].regs
    PROVE  Registers'
  BY DEF Registers, ContextPreserved, SavedContexts, Depths, Parent

LEMMA RegistersStep ==
    ASSUME TypeOK, TypeOK', Control, Control', NeverBroken, NeverBroken',
           Registers, [Next]_vars
    PROVE  Registers'
  <1>0. /\ 0 \in Slots
        /\ processes \in [Slots -> Process] /\ left \in [Slots -> Contexts]
        /\ blocking_runs \in [Slots -> Run]
        /\ blocking_run_depth \in 0 .. MaxProcesses /\ MaxProcesses \in Nat
    <2>1. 0 \in Slots
      BY DEF Slots
    <2> QED BY <2>1 DEF TypeOK
  <1>a. InterruptFrame(SyscallFrame(cpu)) = cpu
    BY SyscallFrameInverse DEF TypeOK
  <1>b. mode = "user" => /\ current \in Slots
                         /\ \A d \in Depths : Parent(d) \in Slots \ {current}
    BY DEF Control, RunChain
  <1>1. ASSUME NEW readable \in BOOLEAN, UserspaceInit(readable)
        PROVE  Registers'
    <2>1. mode' # "user" /\ mode' # "prepared"
      BY <1>1 DEF UserspaceInit
    <2>2. ASSUME mode' = "waiting" PROVE entered(processes'[0].regs) = left'[0]
      <3>1. /\ processes' = [processes EXCEPT ![0] =
                   loaded_process(InitImage, next_pid, free_pages, "/")]
            /\ left' = [left EXCEPT ![0] = entered(ImageRegs(InitImage))]
        BY <1>1, <2>2 DEF UserspaceInit
      <3>2. processes'[0].regs = ImageRegs(InitImage)
        BY <1>0, <3>1 DEF loaded_process
      <3> QED BY <1>0, <3>1, <3>2
    <2> QED BY <2>1, <2>2 DEF Registers, ContextPreserved, SavedContexts
  <1>2. CASE PrepareLaunch
    BY <1>2 DEF PrepareLaunch, Registers, ContextPreserved, SavedContexts
  <1>3. CASE EnterInit
    <2>1. current = 0 /\ blocking_run_depth = 0 /\ entered(processes[0].regs) = left[0]
      BY <1>3 DEF EnterInit, Control, LaunchReady, Registers, SavedContexts
    <2>2. /\ mode' = "user" /\ cpu' = entered(processes[0].regs)
          /\ UNCHANGED <<current, blocking_run_depth, left>>
      BY <1>3, <2>1 DEF EnterInit, enter_current, stack, NeverBroken
    <2> QED BY <2>1, <2>2 DEF Registers, ContextPreserved, SavedContexts, Depths
  <1>4. CASE TimerIrq
    <2>1. ASSUME mode \in {"waiting", "prepared"}
          PROVE  processes'[0].regs = processes[0].regs
      <3>1. CASE current = Null
        BY <1>4, <3>1 DEF TimerIrq
      <3>2. CASE current # Null
        <4>1. current = 0
          BY <2>1, <3>2 DEF Control, LaunchReady
        <4>2. processes' = with_regs(processes, 0, processes[0].regs)
          BY <1>4, <2>1, <3>2, <4>1 DEF TimerIrq, saved_regs
        <4> QED BY <1>0, <4>2 DEF with_regs, Process
      <3> QED BY <3>1, <3>2
    <2>2. UNCHANGED <<mode, current, stack, cpu, left>>
      BY <1>4 DEF TimerIrq
    <2> QED BY <2>1, <2>2, RegistersFrame DEF stack
  <1>5. ASSUME NEW tag \in Tags, UserCompute(tag)
        PROVE  Registers'
    <2>1. /\ mode = "user" /\ UNCHANGED <<mode, current, stack>>
          /\ cpu' = Context(tag) /\ left' = [left EXCEPT ![current] = Context(tag)]
      BY <1>5 DEF UserCompute
    <2>2. Depths' = Depths /\ \A d \in Depths : Parent(d)' = Parent(d)
      BY <2>1 DEF Depths, Parent, stack
    <2>3. left'[current] = cpu'
      BY <1>0, <1>b, <2>1
    <2>4. \A d \in Depths : left'[Parent(d)] = left[Parent(d)]
      BY <1>0, <1>b, <2>1
    <2> QED BY <2>1, <2>2, <2>3, <2>4
            DEF Registers, ContextPreserved, SavedContexts, stack
  <1>6. CASE UserFault
    BY <1>6 DEF UserFault, Registers, ContextPreserved, SavedContexts
  <1>8. ASSUME NEW result \in Results, NEW n \in Growth, SysOther(result, n)
        PROVE  Registers'
    BY <1>8, <1>a, RegistersFrame DEF SysOther, sysret, stack
  <1>9. ASSUME NEW dir \in Dirs, SysChdir(dir)
        PROVE  Registers'
    BY <1>9, <1>a, RegistersFrame DEF SysChdir, sysret, stack
  <1>10. ASSUME NEW result \in {USER_ERR_FAULT, USER_ERR_INVAL}, NEW n \in Growth,
                RunPathRefused(result, n)
         PROVE  Registers'
    BY <1>10, <1>a, RegistersFrame DEF RunPathRefused, sysret, stack
  <1>11. ASSUME NEW img \in Image, NEW n \in Growth, RunPathLoadFails(img, n)
         PROVE  Registers'
    BY <1>11, <1>a, RegistersFrame DEF RunPathLoadFails, sysret, stack
  <1>12. ASSUME NEW img \in Image, NEW n \in Growth, RunPathLaunches(img, n)
         PROVE  Registers'
    <2>1. mode = "user" /\ cpu = left[current]
      BY <1>12 DEF RunPathLaunches, Registers, ContextPreserved
    <2> DEFINE child == loaded_process(img, next_pid, free_pages - n,
                                       processes[current].cwd)
    <2>2. PICK s \in Slots :
             /\ first_usable(s)
             /\ left' = [left EXCEPT ![s] = entered(ImageRegs(img))]
             /\ return_context' = return_context
             /\ run_process_blocking(s, [processes EXCEPT ![s] = child])
      BY <1>12 DEF RunPathLaunches
    <2> DEFINE table == [processes EXCEPT ![s] = child]
               asleep == marked(table, current, "READY", "BLOCKED")
    <2>3. blocking_run_depth \in Slots
      <3>1. blocking_run_depth < MaxProcesses
        BY <2>1, <2>2, RoomOnStack DEF Control
      <3> QED BY <1>0, <3>1 DEF Slots
    <2>4. s # current /\ \A d \in Depths : Parent(d) # s
      BY <2>1, <2>2 DEF first_usable, usable_slots, Control, RunChain
    <2>5. /\ blocking_runs' = [blocking_runs EXCEPT ![blocking_run_depth] =
                 [parent |-> current,
                  regs |-> registers_from_syscall_frame(SyscallFrame(cpu))]]
          /\ blocking_run_depth' = blocking_run_depth + 1
          /\ current' = s
          /\ enter_current(s, asleep)
      BY <2>2 DEF run_process_blocking, NeverBroken
    <2>6. mode' = "user" /\ cpu' = entered(asleep[s].regs)
      BY <2>5 DEF enter_current, NeverBroken
    <2>7. asleep[s].regs = ImageRegs(img)
      <3>1. table[s].regs = ImageRegs(img) /\ s \in DOMAIN table
        BY <1>0 DEF loaded_process
      <3> HIDE DEF table
      <3> QED BY <2>4, <3>1 DEF marked
    <2>8. registers_from_syscall_frame(SyscallFrame(cpu)) = cpu
      BY SavedRegisters DEF TypeOK
    <2>9. /\ Depths' = Depths \cup {blocking_run_depth}
          /\ \A d \in Depths : d \in Slots /\ d # blocking_run_depth
      BY <1>0, <2>3, <2>5 DEF Depths, Slots
    <2>10. /\ left'[s] = entered(ImageRegs(img))
           /\ \A t \in Slots \ {s} : left'[t] = left[t]
      BY <1>0, <2>2
    <2>11. \A d \in Depths' : blocking_runs'[d].regs = left'[blocking_runs'[d].parent]
      <3>1. /\ blocking_runs'[blocking_run_depth].regs = cpu
            /\ blocking_runs'[blocking_run_depth].parent = current
            /\ \A d \in Depths : blocking_runs'[d] = blocking_runs[d]
        BY <1>0, <2>3, <2>5, <2>8, <2>9
      <3>2. \A d \in Depths : blocking_runs[d].regs = left[blocking_runs[d].parent]
        BY <2>1 DEF Registers, SavedContexts, Parent
      <3>3. left'[current] = left[current]
        BY <1>b, <2>1, <2>4, <2>10
      <3>4. \A d \in Depths : left'[blocking_runs[d].parent] = left[blocking_runs[d].parent]
        BY <1>b, <2>1, <2>4, <2>10 DEF Parent
      <3> QED BY <2>1, <2>9, <3>1, <3>2, <3>3, <3>4
    <2> QED BY <2>5, <2>6, <2>7, <2>10, <2>11
            DEF Registers, ContextPreserved, SavedContexts, Parent
  <1>13. ASSUME NEW status \in {exit_status}, SysExitToParent(status)
         PROVE  Registers'
    <2>1. mode = "user" /\ mode' = "user" /\ blocking_run_depth # 0
      BY <1>13 DEF SysExitToParent
    <2>2. /\ popped \in Depths
          /\ 0 .. popped - 1 = Depths \ {popped}
          /\ \A d \in Depths : d \in Slots
      BY <1>0, <2>1 DEF popped, Depths, Slots
    <2>3. /\ current' = Parent(popped) /\ blocking_run_depth' = popped
          /\ blocking_runs' = [blocking_runs EXCEPT ![popped] = NoRun]
          /\ cpu' = InterruptFrame(syscall_frame_from_registers(blocking_runs[popped].regs))
          /\ left' = [left EXCEPT ![current] = KernelContext]
      BY <1>13 DEF SysExitToParent, Parent
    <2>4. \A d \in Depths : /\ blocking_runs[d].regs = left[Parent(d)]
                            /\ left'[Parent(d)] = left[Parent(d)]
      BY <1>0, <1>b, <2>1, <2>3 DEF Registers, SavedContexts
    <2>5. cpu' = blocking_runs[popped].regs
      BY <1>0, <2>2, <2>3, RestoredRegisters DEF Run
    <2>6. Depths' = Depths \ {popped}
      BY <2>2, <2>3 DEF Depths
    <2>7. \A d \in Depths' : blocking_runs'[d] = blocking_runs[d]
      BY <1>0, <2>2, <2>3, <2>6
    <2> QED BY <2>1, <2>2, <2>3, <2>4, <2>5, <2>6, <2>7
            DEF Registers, ContextPreserved, SavedContexts, Parent
  <1>14. ASSUME NEW status \in {exit_status}, SysExitToKernel(status)
         PROVE  Registers'
    <2>1. mode' \in {"returned", "broken"}
      BY <1>14 DEF SysExitToKernel
    <2> QED BY <2>1 DEF Registers, ContextPreserved, SavedContexts
  <1>15. CASE KmainEnds
    BY <1>15 DEF KmainEnds, Registers, ContextPreserved, SavedContexts
  <1>16. CASE TimerWaitFails
    BY <1>16 DEF TimerWaitFails, Registers, ContextPreserved, SavedContexts
  <1>17. CASE UNCHANGED vars
    BY <1>17, RegistersFrame DEF vars, stack
  <1> QED
    BY <1>1, <1>2, <1>3, <1>4, <1>5, <1>6, <1>8, <1>9, <1>10, <1>11, <1>12,
       <1>13, <1>14, <1>15, <1>16, <1>17 DEF Next, RunPath, SysExit, Halted

-----------------------------------------------------------------------------
(* What a launch and an exit do, for the facts that follow.                *)

(* The inductive invariant: types, the chain, no internal panic, and the   *)
(* registers each process will be given.                                   *)
IInv == TypeOK /\ Control /\ NeverBroken /\ Registers

LEMMA Invariance == Spec => []IInv
  <1>1. Init => IInv
    BY InitTypeOK DEF Init, IInv, Control, LaunchReady, RunChain, NeverBroken,
       Live, EmptyProcess, Registers, ContextPreserved, SavedContexts
  <1>2. IInv /\ [Next]_vars => IInv'
    BY TypeStep, ControlStep, RegistersStep DEF IInv
  <1> QED BY <1>1, <1>2, PTL DEF Spec

(* A launch of img suspends the running process and enters slot s.         *)
Launched(img, n, s) ==
    /\ mode = "user" /\ mode' = "user"
    /\ current \in Slots \ {s} /\ current' = s /\ s \notin Live
    /\ blocking_run_depth \in Slots /\ blocking_run_depth' = blocking_run_depth + 1
    /\ blocking_runs' = [blocking_runs EXCEPT ![blocking_run_depth] =
                            [parent |-> current, regs |-> cpu]]
    /\ processes'[s].pid = next_pid
    /\ processes'[s].pml4 = TotalPages - (free_pages - n) + 1
    /\ processes'[current].pid = processes[current].pid
    /\ processes'[current].pml4 = processes[current].pml4
    /\ \A t \in Slots \ {s, current} : processes'[t] = processes[t]
    /\ cr3' = processes'[s].pml4
    /\ cpu' = entered(ImageRegs(img))

LEMMA LaunchEffect ==
    ASSUME IInv, NEW img \in Image, NEW n \in Growth, RunPathLaunches(img, n), NeverBroken'
    PROVE  \E s \in Slots : Launched(img, n, s)
  <1>0. /\ TypeOK /\ Control /\ processes \in [Slots -> Process]
        /\ blocking_run_depth \in 0 .. MaxProcesses /\ MaxProcesses \in Nat
    BY DEF IInv, TypeOK
  <1>1. mode = "user" /\ current \in Slots
    BY <1>0, <1>0 DEF RunPathLaunches, Control, RunChain
  <1> DEFINE child == loaded_process(img, next_pid, free_pages - n, processes[current].cwd)
  <1>2. PICK s \in Slots :
           /\ first_usable(s)
           /\ run_process_blocking(s, [processes EXCEPT ![s] = child])
    BY DEF RunPathLaunches
  <1> DEFINE table == [processes EXCEPT ![s] = child]
             asleep == marked(table, current, "READY", "BLOCKED")
  <1>3. blocking_run_depth \in Slots
    <2>1. blocking_run_depth < MaxProcesses
      BY <1>0, <1>1, <1>2, RoomOnStack DEF Control
    <2> QED BY <1>0, <2>1 DEF Slots
  <1>4. s \notin Live /\ s # current
    BY <1>0, <1>1, <1>2 DEF first_usable, usable_slots, Live, Control, RunChain
  <1>5. registers_from_syscall_frame(SyscallFrame(cpu)) = cpu
    BY <1>0, SavedRegisters DEF TypeOK
  <1>6. /\ blocking_runs' = [blocking_runs EXCEPT ![blocking_run_depth] =
                               [parent |-> current, regs |-> cpu]]
        /\ blocking_run_depth' = blocking_run_depth + 1
        /\ current' = s
        /\ enter_current(s, asleep)
    BY <1>2, <1>5 DEF run_process_blocking, NeverBroken
  <1>7. /\ mode' = "user" /\ cpu' = entered(asleep[s].regs)
        /\ cr3' = asleep[s].pml4
        /\ processes' = marked(asleep, s, "RUNNING", "RUNNING")
    BY <1>6 DEF enter_current, NeverBroken, activated
  <1>8. child \in Process
    <2>1. free_pages - n \in 0 .. TotalPages
      BY <1>0 DEF RunPathLaunches, TypeOK
    <2>2. next_pid \in Nat /\ processes[current].cwd \in Dirs \cup {"/"}
      BY <1>0, <1>1 DEF TypeOK, Process
    <2> QED BY <2>1, <2>2, LoadedProcess
  <1>9. /\ child.pid = next_pid /\ child.pml4 = TotalPages - (free_pages - n) + 1
        /\ child.regs = ImageRegs(img)
    BY DEF loaded_process
  <1> HIDE DEF child
  <1>10. /\ table \in [Slots -> Process] /\ table[s] = child
         /\ \A t \in Slots \ {s} : table[t] = processes[t]
    BY <1>0, <1>8
  <1> HIDE DEF table
  <1>11. asleep \in [Slots -> Process]
    BY <1>1, <1>10, TableUpdates DEF ProcessStates, ThreadStates
  <1>12. /\ asleep[s] = child
         /\ asleep[current].pid = processes[current].pid
         /\ asleep[current].pml4 = processes[current].pml4
         /\ \A t \in Slots \ {s, current} : asleep[t] = processes[t]
    BY <1>1, <1>4, <1>10, Marked
  <1> HIDE DEF asleep
  <1>13. /\ processes'[s].pid = child.pid /\ processes'[s].pml4 = child.pml4
         /\ \A t \in Slots \ {s} : processes'[t] = asleep[t]
    BY <1>7, <1>11, <1>12, Marked
  <1> QED BY <1>1, <1>3, <1>4, <1>6, <1>7, <1>9, <1>12, <1>13 DEF Launched

(* An exit to the process that waits gives it back the processor.          *)
Returned(back) ==
    /\ mode = "user" /\ mode' = "user"
    /\ popped \in Depths /\ popped \in Slots /\ 0 .. popped - 1 = Depths \ {popped}
    /\ blocking_run_depth # 0 /\ blocking_run_depth' = popped
    /\ back = Parent(popped) /\ current \in Slots /\ back \in Slots \ {current}
    /\ current' = back /\ back \in Live
    /\ \A d \in Depths \ {popped} : Parent(d) \in Slots \ {back, current}
    /\ blocking_runs' = [blocking_runs EXCEPT ![popped] = NoRun]
    /\ processes'[current].state = "EXITED"
    /\ \A t \in {back, current} :
          processes'[t].pid = processes[t].pid /\ processes'[t].pml4 = processes[t].pml4
    /\ \A t \in Slots \ {back, current} : processes'[t] = processes[t]
    /\ cr3' = processes[back].pml4
    /\ cpu' = blocking_runs[popped].regs

LEMMA ExitEffect ==
    ASSUME IInv, NEW status \in {exit_status}, SysExitToParent(status)
    PROVE  Returned(Parent(popped))
  <1>0. /\ TypeOK /\ Control /\ processes \in [Slots -> Process]
        /\ blocking_runs \in [Slots -> Run]
        /\ blocking_run_depth \in 0 .. MaxProcesses /\ MaxProcesses \in Nat
    BY DEF IInv, TypeOK
  <1> DEFINE back == Parent(popped)
  <1>1. mode = "user" /\ mode' = "user" /\ current \in Slots /\ blocking_run_depth # 0
    BY <1>0 DEF SysExitToParent, Control, RunChain
  <1>2. popped \in Depths /\ popped \in Slots /\ 0 .. popped - 1 = Depths \ {popped}
    BY <1>0, <1>1 DEF popped, Depths, Slots
  <1>3. /\ back \in Slots \ {current} /\ back \in Live
        /\ \A d \in Depths \ {popped} : Parent(d) \in Slots \ {back, current}
    BY <1>0, <1>1, <1>2 DEF Control, RunChain, Live
  <1>4. /\ current' = back /\ blocking_run_depth' = popped
        /\ blocking_runs' = [blocking_runs EXCEPT ![popped] = NoRun]
        /\ processes' = marked(exited(processes, current), back, "RUNNING", "RUNNING")
        /\ cr3' = processes[back].pml4
        /\ cpu' = InterruptFrame(syscall_frame_from_registers(blocking_runs[popped].regs))
    BY DEF SysExitToParent, Parent, activated
  <1>5. cpu' = blocking_runs[popped].regs
    BY <1>0, <1>2, <1>4, RestoredRegisters DEF Run
  <1> HIDE DEF back
  <1>6. exited(processes, current) \in [Slots -> Process]
    BY <1>0, <1>1, TableUpdates DEF exited, ProcessStates, ThreadStates
  <1>7. /\ exited(processes, current)[current].state = "EXITED"
        /\ exited(processes, current)[current].pid = processes[current].pid
        /\ exited(processes, current)[current].pml4 = processes[current].pml4
        /\ \A t \in Slots \ {current} : exited(processes, current)[t] = processes[t]
    BY <1>0, <1>1, Marked DEF exited
  <1>8. /\ processes'[back].pid = processes[back].pid
        /\ processes'[back].pml4 = processes[back].pml4
        /\ \A t \in Slots \ {back} : processes'[t] = exited(processes, current)[t]
    BY <1>3, <1>4, <1>6, <1>7, Marked
  <1> QED BY <1>1, <1>2, <1>3, <1>4, <1>5, <1>7, <1>8 DEF Returned, back

-----------------------------------------------------------------------------
(* Address spaces.                                                         *)

Spaces == AddressSpaceOwned /\ FramesSpent

(* Steps that load nothing and switch nowhere.                             *)
LEMMA SpacesFrame ==
    ASSUME Spaces, free_pages \in Nat, free_pages' \in Nat, free_pages' <= free_pages,
           mode' = "user" => /\ mode = "user" /\ current' = current /\ cr3' = cr3
                             /\ processes'[current].pml4 = processes[current].pml4,
           \A s \in Live' : s \in Live /\ processes'[s].pml4 = processes[s].pml4
    PROVE  Spaces'
  <1>1. AddressSpaceOwned'
    BY DEF Spaces, AddressSpaceOwned
  <1>2. FramesSpent'
    BY DEF Spaces, FramesSpent
  <1> QED BY <1>1, <1>2 DEF Spaces

LEMMA SpacesStep ==
    ASSUME IInv, IInv', Spaces, [Next]_vars
    PROVE  Spaces'
  <1>0. /\ 0 \in Slots /\ MaxProcesses \in Nat /\ processes \in [Slots -> Process]
        /\ free_pages \in 0 .. TotalPages /\ TotalPages \in Nat /\ free_pages \in Nat
        /\ TypeOK /\ Control /\ NeverBroken'
    <2>1. 0 \in Slots
      BY DEF Slots
    <2> QED BY <2>1 DEF IInv, TypeOK
  <1>1. ASSUME NEW readable \in BOOLEAN, UserspaceInit(readable)
        PROVE  Spaces'
    <2>1. Live = {} /\ mode' # "user"
      BY <1>0, <1>1 DEF UserspaceInit, Control, LaunchReady
    <2>2. load_takes(InitImage, free_pages) \in 0 .. free_pages
      BY <1>0, LoadTakes
    <2>3. CASE mode' = "waiting"
      <3>1. /\ load_succeeds(InitImage, free_pages)
            /\ processes' = [processes EXCEPT ![0] =
                   loaded_process(InitImage, next_pid, free_pages, "/")]
            /\ free_pages' = free_pages - load_takes(InitImage, free_pages)
        BY <1>1, <2>3 DEF UserspaceInit
      <3>2. load_takes(InitImage, free_pages) >= 2
        BY <1>0, <3>1, LoadTakes
      <3>3. processes'[0].pml4 = TotalPages - free_pages + 1
        BY <1>0, <3>1 DEF loaded_process
      <3>4. Live' \subseteq {0}
        BY <1>0, <2>1, <3>1 DEF Live
      <3>5. FramesSpent'
        BY <1>0, <2>2, <3>1, <3>2, <3>3, <3>4 DEF FramesSpent
      <3>6. AddressSpaceOwned'
        BY <2>1, <3>4 DEF AddressSpaceOwned
      <3> QED BY <3>5, <3>6 DEF Spaces
    <2>4. CASE mode' # "waiting"
      <3>1. processes' = processes /\ free_pages' \in 0 .. free_pages
        BY <1>0, <1>1, <2>2, <2>4 DEF UserspaceInit
      <3>2. Live' = Live
        BY <3>1 DEF Live
      <3> QED BY <1>0, <2>1, <3>1, <3>2, SpacesFrame
    <2> QED BY <2>3, <2>4
  <1>2. CASE PrepareLaunch
    <2>1. mode' # "user" /\ processes' = processes /\ free_pages' = free_pages
      BY <1>2 DEF PrepareLaunch, memory
    <2> QED BY <1>0, <2>1, SpacesFrame DEF Live
  <1>3. CASE EnterInit
    <2>1. current = 0 /\ 0 \in Live
      BY <1>0, <1>3 DEF EnterInit, Control, LaunchReady
    <2>2. /\ mode' = "user" /\ current' = 0 /\ free_pages' = free_pages
          /\ processes' = marked(processes, 0, "RUNNING", "RUNNING")
          /\ cr3' = processes[0].pml4
      BY <1>0, <1>3, <2>1 DEF EnterInit, enter_current, memory, activated, NeverBroken
    <2>3. /\ processes'[0].pml4 = processes[0].pml4
          /\ \A t \in Slots \ {0} : processes'[t] = processes[t]
      BY <1>0, <2>2, Marked
    <2>4. \A s \in Live' : s \in Live /\ processes'[s].pml4 = processes[s].pml4
      BY <2>1, <2>3 DEF Live
    <2>5. processes[0].pml4 # 0
      BY <1>0, <2>1 DEF Spaces, FramesSpent
    <2> QED BY <2>1, <2>2, <2>3, <2>4, <2>5 DEF Spaces, AddressSpaceOwned, FramesSpent
  <1>4. CASE TimerIrq
    <2>1. \A s \in Slots : /\ processes'[s].state = processes[s].state
                           /\ processes'[s].pml4 = processes[s].pml4
      <3>1. CASE current = Null
        BY <1>4, <3>1 DEF TimerIrq
      <3>2. CASE current \in Slots
        <4>1. PICK regs : processes' = with_regs(processes, current, regs)
          BY <1>4, <3>2 DEF TimerIrq, Slots
        <4> QED BY <1>0, <3>2, <4>1 DEF with_regs, Process
      <3> QED BY <1>0, <3>1, <3>2 DEF TypeOK
    <2>2. UNCHANGED <<mode, current, cr3, free_pages>>
      BY <1>4 DEF TimerIrq, memory
    <2>3. mode = "user" => current \in Slots
      BY <1>0 DEF Control, RunChain
    <2>4. \A s \in Live' : s \in Live /\ processes'[s].pml4 = processes[s].pml4
      BY <2>1 DEF Live
    <2> QED BY <1>0, <2>1, <2>2, <2>3, <2>4, SpacesFrame
  <1>5. ASSUME NEW tag \in Tags, UserCompute(tag)
        PROVE  Spaces'
    BY <1>0, <1>5, SpacesFrame DEF UserCompute, memory, Live
  <1>6. CASE UserFault
    BY <1>0, <1>6, SpacesFrame DEF UserFault, memory, Live
  <1>8. ASSUME NEW result \in Results, NEW n \in Growth, SysOther(result, n)
        PROVE  Spaces'
    <2>1. free_pages' \in Nat /\ free_pages' <= free_pages
      BY <1>0, <1>8 DEF SysOther, take
    <2> QED BY <1>0, <1>8, <2>1, SpacesFrame DEF SysOther, sysret, Live
  <1>9. ASSUME NEW dir \in Dirs, SysChdir(dir)
        PROVE  Spaces'
    <2>1. current \in Slots
      BY <1>0, <1>9 DEF SysChdir, Control, RunChain
    <2>2. \A s \in Slots : /\ processes'[s].state = processes[s].state
                           /\ processes'[s].pml4 = processes[s].pml4
      BY <1>0, <1>9, <2>1 DEF SysChdir, process_set_cwd, Process
    <2>3. \A s \in Live' : s \in Live /\ processes'[s].pml4 = processes[s].pml4
      BY <2>2 DEF Live
    <2>4. UNCHANGED <<mode, current, cr3, free_pages>>
      BY <1>9 DEF SysChdir, sysret, memory
    <2> QED BY <1>0, <2>1, <2>2, <2>3, <2>4, SpacesFrame
  <1>10. ASSUME NEW result \in {USER_ERR_FAULT, USER_ERR_INVAL}, NEW n \in Growth,
                RunPathRefused(result, n)
         PROVE  Spaces'
    <2>1. free_pages' \in Nat /\ free_pages' <= free_pages
      BY <1>0, <1>10 DEF RunPathRefused
    <2> QED BY <1>0, <1>10, <2>1, SpacesFrame DEF RunPathRefused, sysret, Live
  <1>11. ASSUME NEW img \in Image, NEW n \in Growth, RunPathLoadFails(img, n)
         PROVE  Spaces'
    <2>1. free_pages - n \in Nat /\ n \in Nat
      BY <1>0, <1>11 DEF RunPathLoadFails
    <2>2. load_takes(img, free_pages - n) \in 0 .. free_pages - n
      BY <2>1, LoadTakes
    <2>3. free_pages' \in Nat /\ free_pages' <= free_pages
      BY <1>0, <1>11, <2>1, <2>2 DEF RunPathLoadFails
    <2>4. PICK s \in Slots : first_usable(s) /\ processes' = emptied(processes, s)
      BY <1>11 DEF RunPathLoadFails
    <2>5. /\ s \notin Live' /\ s \notin Live
          /\ \A t \in Slots \ {s} : processes'[t] = processes[t]
      BY <1>0, <2>4 DEF emptied, Process, Live, first_usable, usable_slots
    <2>6. \A t \in Live' : t \in Live /\ processes'[t].pml4 = processes[t].pml4
      BY <2>5 DEF Live
    <2>7. UNCHANGED <<mode, current, cr3>> /\ mode = "user"
      BY <1>11 DEF RunPathLoadFails, sysret
    <2>8. current \in Slots \ {s}
      BY <1>0, <2>5, <2>7 DEF Control, RunChain, Live
    <2> QED BY <1>0, <2>3, <2>5, <2>6, <2>7, <2>8, SpacesFrame
  <1>12. ASSUME NEW img \in Image, NEW n \in Growth, RunPathLaunches(img, n)
         PROVE  Spaces'
    <2>1. PICK s \in Slots : Launched(img, n, s)
      BY <1>0, <1>12, LaunchEffect
    <2> DEFINE free == free_pages - n
               new == processes'[s].pml4
               taken == load_takes(img, free)
    <2>2. free \in Nat /\ n \in Nat /\ load_succeeds(img, free) /\ free_pages' = free - taken
      BY <1>0, <1>12 DEF RunPathLaunches
    <2>3. taken \in 0 .. free /\ taken >= 2
      BY <2>2, LoadTakes
    <2>4. new = TotalPages - free + 1
      BY <2>1 DEF Launched
    <2>5. free <= free_pages
      BY <1>0, <2>2
    <2> HIDE DEF free, new, taken
    <2>6. \A t \in Live' \ {s} : t \in Live /\ processes'[t].pml4 = processes[t].pml4
      BY <1>0, <2>1 DEF Launched, Live, Control, RunChain
    <2>7. new \in 1 .. TotalPages - free_pages' /\ new # 0
      BY <1>0, <2>2, <2>3, <2>4, <2>5
    <2>8. ASSUME NEW t \in Live' \ {s}
          PROVE  processes'[t].pml4 \in 1 .. TotalPages - free_pages' /\ processes'[t].pml4 # new
      <3>1. processes'[t].pml4 \in 1 .. TotalPages - free_pages
        BY <2>6 DEF Spaces, FramesSpent
      <3> QED BY <1>0, <2>2, <2>3, <2>4, <2>5, <3>1
    <2>9. FramesSpent'
      BY <2>7, <2>8 DEF FramesSpent, new
    <2>10. \A t, u \in Live' : processes'[t].pml4 = processes'[u].pml4 => t = u
      BY <2>6, <2>8 DEF Spaces, AddressSpaceOwned, new
    <2>11. cr3' = processes'[current'].pml4 /\ cr3' # 0
      BY <2>1, <2>7 DEF Launched, new
    <2> QED BY <2>9, <2>10, <2>11 DEF Spaces, AddressSpaceOwned
  <1>13. ASSUME NEW status \in {exit_status}, SysExitToParent(status)
         PROVE  Spaces'
    <2> DEFINE back == Parent(popped)
    <2>1. Returned(back)
      BY <1>13, ExitEffect
    <2> HIDE DEF back
    <2>2. \A s \in Live' : s \in Live /\ processes'[s].pml4 = processes[s].pml4
      BY <2>1 DEF Returned, Live
    <2>3. free_pages' = free_pages
      BY <1>13 DEF SysExitToParent, memory
    <2>4. cr3' = processes'[current'].pml4 /\ cr3' # 0
      BY <1>0, <2>1 DEF Returned, Spaces, FramesSpent
    <2> QED BY <2>2, <2>3, <2>4 DEF Spaces, AddressSpaceOwned, FramesSpent
  <1>14. ASSUME NEW status \in {exit_status}, SysExitToKernel(status)
         PROVE  Spaces'
    <2>1. current \in Slots
      BY <1>0, <1>14 DEF SysExitToKernel, Control, RunChain
    <2>2. /\ mode' # "user" /\ free_pages' = free_pages
          /\ processes' = marked(processes, current, "EXITED", "EXITED")
      BY <1>14 DEF SysExitToKernel, memory, exited
    <2>3. /\ processes'[current].state = "EXITED"
          /\ \A t \in Slots \ {current} : processes'[t] = processes[t]
      BY <1>0, <2>1, <2>2, Marked
    <2>4. \A s \in Live' : s \in Live /\ processes'[s].pml4 = processes[s].pml4
      BY <2>3 DEF Live
    <2> QED BY <1>0, <2>2, <2>4, SpacesFrame
  <1>15. CASE KmainEnds
    BY <1>0, <1>15, SpacesFrame DEF KmainEnds, memory, Live
  <1>16. CASE TimerWaitFails
    BY <1>0, <1>16, SpacesFrame DEF TimerWaitFails, memory, Live
  <1>17. CASE UNCHANGED vars
    BY <1>0, <1>17, SpacesFrame DEF vars, memory, Live
  <1> QED
    BY <1>1, <1>2, <1>3, <1>4, <1>5, <1>6, <1>8, <1>9, <1>10, <1>11, <1>12,
       <1>13, <1>14, <1>15, <1>16, <1>17 DEF Next, RunPath, SysExit, Halted

-----------------------------------------------------------------------------
(* Suspended processes.                                                    *)

(* What a step may do to the runs that stay on the stack and their owners. *)
Untouched ==
    \A d \in Depths : d < blocking_run_depth' =>
        /\ blocking_runs'[d] = blocking_runs[d]
        /\ processes'[Parent(d)] = processes[Parent(d)]

(* A step that leaves the stack alone and changes at most one slot, in     *)
(* which nobody is suspended.                                              *)
LEMMA UntouchedFrame ==
    ASSUME UNCHANGED blocking_runs, NEW s, \A d \in Depths : Parent(d) \in Slots \ {s},
           \A t \in Slots \ {s} : processes'[t] = processes[t]
    PROVE  Untouched
  BY DEF Untouched

LEMMA UntouchedStep ==
    ASSUME IInv, IInv', [Next]_vars
    PROVE  [Untouched]_vars
  <1>0. /\ processes \in [Slots -> Process] /\ blocking_runs \in [Slots -> Run]
        /\ blocking_run_depth \in Nat /\ blocking_run_depth' \in Nat
        /\ MaxProcesses \in Nat /\ blocking_run_depth <= MaxProcesses
        /\ TypeOK /\ Control /\ NeverBroken'
    BY DEF IInv, TypeOK
  <1>a. mode \in {"boot", "waiting", "prepared", "returned"} => Depths = {}
    BY <1>0 DEF Control, LaunchReady, Depths
  <1>b. mode = "user" => current \in Slots /\ \A d \in Depths : Parent(d) \in Slots \ {current}
    BY <1>0 DEF Control, RunChain
  <1>1. ASSUME NEW readable \in BOOLEAN, UserspaceInit(readable)
        PROVE  Untouched
    BY <1>a, <1>1 DEF UserspaceInit, Untouched
  <1>2. CASE PrepareLaunch \/ EnterInit \/ KmainEnds \/ TimerWaitFails
    BY <1>a, <1>2 DEF PrepareLaunch, EnterInit, KmainEnds, TimerWaitFails, Untouched
  <1>4. CASE TimerIrq
    <2>1. CASE mode # "user"
      BY <1>a, <1>4, <2>1 DEF TimerIrq, Untouched
    <2>2. CASE mode = "user"
      <3>1. blocking_runs' = blocking_runs /\ current # Null
        BY <1>4, <1>b, <2>2 DEF TimerIrq, stack, Slots
      <3>2. \A t \in Slots \ {current} : processes'[t] = processes[t]
        BY <1>0, <1>4, <1>b, <2>2, <3>1 DEF TimerIrq, with_regs
      <3> QED BY <1>b, <2>2, <3>1, <3>2, UntouchedFrame
    <2> QED BY <2>1, <2>2
  <1>5. ASSUME NEW tag \in Tags, UserCompute(tag)
        PROVE  Untouched
    BY <1>5 DEF UserCompute, stack, Untouched
  <1>6. CASE UserFault
    BY <1>6 DEF UserFault, stack, Untouched
  <1>8. ASSUME NEW result \in Results, NEW n \in Growth, SysOther(result, n)
        PROVE  Untouched
    BY <1>8 DEF SysOther, sysret, stack, Untouched
  <1>9. ASSUME NEW dir \in Dirs, SysChdir(dir)
        PROVE  Untouched
    <2>1. mode = "user" /\ blocking_runs' = blocking_runs
      BY <1>9 DEF SysChdir, sysret, stack
    <2>2. \A t \in Slots \ {current} : processes'[t] = processes[t]
      BY <1>0, <1>9, <1>b, <2>1 DEF SysChdir, process_set_cwd
    <2> QED BY <1>b, <2>1, <2>2, UntouchedFrame
  <1>10. ASSUME NEW result \in {USER_ERR_FAULT, USER_ERR_INVAL}, NEW n \in Growth,
                RunPathRefused(result, n)
         PROVE  Untouched
    BY <1>10 DEF RunPathRefused, sysret, stack, Untouched
  <1>11. ASSUME NEW img \in Image, NEW n \in Growth, RunPathLoadFails(img, n)
         PROVE  Untouched
    <2>1. mode = "user" /\ blocking_runs' = blocking_runs
      BY <1>11 DEF RunPathLoadFails, sysret, stack
    <2>2. PICK s \in Slots : first_usable(s) /\ processes' = emptied(processes, s)
      BY <1>11 DEF RunPathLoadFails
    <2>3. \A d \in Depths : Parent(d) \in Slots \ {s}
      BY <1>0, <2>1, <2>2 DEF first_usable, usable_slots, Control, RunChain
    <2>4. \A t \in Slots \ {s} : processes'[t] = processes[t]
      BY <1>0, <2>2 DEF emptied
    <2> QED BY <2>1, <2>3, <2>4, UntouchedFrame
  <1>12. ASSUME NEW img \in Image, NEW n \in Growth, RunPathLaunches(img, n)
         PROVE  Untouched
    <2>1. PICK s \in Slots : Launched(img, n, s)
      BY <1>0, <1>12, LaunchEffect
    <2>2. \A d \in Depths : d \in Slots /\ d # blocking_run_depth
      BY <1>0 DEF Depths, Slots
    <2>3. \A d \in Depths : blocking_runs'[d] = blocking_runs[d]
      BY <1>0, <2>1, <2>2 DEF Launched
    <2>4. mode = "user" /\ \A d \in Depths : Parent(d) \in Live
      BY <1>0, <2>1 DEF Launched, Control, RunChain, Live
    <2>5. \A d \in Depths : Parent(d) \in Slots \ {s, current}
      BY <1>b, <2>1, <2>4 DEF Launched
    <2> QED BY <2>1, <2>3, <2>5 DEF Launched, Untouched
  <1>13. ASSUME NEW status \in {exit_status}, SysExitToParent(status)
         PROVE  Untouched
    <2>1. Returned(Parent(popped))
      BY <1>13, ExitEffect
    <2>2. \A d \in Depths : d \in Slots /\ (d < blocking_run_depth' => d # popped)
      BY <1>0, <2>1 DEF Returned, Depths, Slots
    <2>3. \A d \in Depths : d < blocking_run_depth' => blocking_runs'[d] = blocking_runs[d]
      BY <1>0, <2>1, <2>2 DEF Returned
    <2> QED BY <2>1, <2>2, <2>3 DEF Returned, Untouched
  <1>14. ASSUME NEW status \in {exit_status}, SysExitToKernel(status)
         PROVE  Untouched
    <2>1. mode = "user" /\ no_parent
      BY <1>14 DEF SysExitToKernel
    <2>2. Depths = {}
      <3>1. SUFFICES ASSUME blocking_run_depth # 0 PROVE FALSE
        BY <1>0 DEF Depths
      <3>2. popped \in Depths /\ Parent(popped) = Null
        BY <1>0, <2>1, <3>1 DEF no_parent, popped, Depths, Parent
      <3> QED BY <1>b, <2>1, <3>2, NullAssumption
    <2> QED BY <2>2 DEF Untouched
  <1>17. CASE UNCHANGED vars
    BY <1>17
  <1> QED
    BY <1>1, <1>2, <1>4, <1>5, <1>6, <1>8, <1>9, <1>10, <1>11, <1>12,
       <1>13, <1>14, <1>17 DEF Next, RunPath, SysExit, Halted

-----------------------------------------------------------------------------
(* The theorems.                                                           *)

(* Every system call, launch, exit and interrupt keeps the types of the    *)
(* kernel's variables, whatever the sizes of the table, of memory and of   *)
(* the programs; the stack of blocking runs stays within its array.        *)
THEOREM TypeCorrect == Spec => []TypeOK
  <1>1. IInv => TypeOK
    BY DEF IInv
  <1> QED BY <1>1, Invariance, PTL

(* Launches and exits keep the processes in one chain of distinct slots    *)
(* with init at the bottom, however deep programs launch programs.         *)
THEOREM ChainOfProcesses == Spec => []RunChain
  <1>1. IInv => RunChain
    BY DEF IInv, Control
  <1> QED BY <1>1, Invariance, PTL

(* The panics of the launch and exit paths are unreachable: the array of   *)
(* blocking runs is as long as the process table, and that is enough.      *)
THEOREM NoInternalPanic == Spec => []NeverBroken
  <1>1. IInv => NeverBroken
    BY DEF IInv
  <1> QED BY <1>1, Invariance, PTL

(* A process finds its registers as it left them, whatever system calls,   *)
(* nested programs and interrupts came in between.                         *)
THEOREM RegistersPreserved == Spec => []ContextPreserved
  <1>1. IInv => ContextPreserved
    BY DEF IInv, Registers
  <1> QED BY <1>1, Invariance, PTL

(* The register file a suspended process will be given back, and the one   *)
(* init will start with, is the one it left.                               *)
THEOREM ContextsSaved == Spec => []SavedContexts
  <1>1. IInv => SavedContexts
    BY DEF IInv, Registers
  <1> QED BY <1>1, Invariance, PTL

LEMMA SpacesInvariance == Spec => []Spaces
  <1>1. Init => Spaces
    BY DEF Init, Spaces, AddressSpaceOwned, FramesSpent, Live, EmptyProcess
  <1>2. IInv /\ IInv' /\ Spaces /\ [Next]_vars => Spaces'
    BY SpacesStep
  <1> QED BY <1>1, <1>2, Invariance, PTL DEF Spec

(* User code runs in its own address space, and no two processes that can  *)
(* run again share one, in spite of loads that fail half way.              *)
THEOREM OwnAddressSpaces == Spec => []AddressSpaceOwned
  <1>1. Spaces => AddressSpaceOwned
    BY DEF Spaces
  <1> QED BY <1>1, SpacesInvariance, PTL

(* The top page table of a live process is a frame that has left the free  *)
(* list, so no later load is given it.                                     *)
THEOREM LiveFramesSpent == Spec => []FramesSpent
  <1>1. Spaces => FramesSpent
    BY DEF Spaces
  <1> QED BY <1>1, SpacesInvariance, PTL

(* No step changes the slot or the saved registers of a process that stays *)
(* suspended.                                                              *)
THEOREM SuspendedStayAsTheyAre == Spec => SuspendedUntouched
  <1>1. IInv /\ IInv' /\ [Next]_vars => [Untouched]_vars
    BY UntouchedStep
  <1>2. Spec => [][Untouched]_vars
    BY <1>1, Invariance, PTL DEF Spec
  <1> QED BY <1>2 DEF SuspendedUntouched, Untouched

-----------------------------------------------------------------------------
(* Scheduler implements RunStack: for every size of the process table and  *)
(* of memory, launching and exiting look like procedure calls to the       *)
(* programs.  The chain of suspended processes and the running one is the  *)
(* stack of calls (Frames), and every step of the kernel is one of a       *)
(* call, a return, a computation, an answer, a start or a stop, or is      *)
(* invisible.                                                              *)

Frame == [pid : Nat, regs : Contexts]

-----------------------------------------------------------------------------
(* Sequences that differ in their last element.                            *)

LEMMA FrontOf ==
    ASSUME NEW S, NEW older \in Seq(S), NEW newer \in Seq(S),
           Len(newer) = Len(older) + 1,
           \A i \in 1 .. Len(older) : newer[i] = older[i]
    PROVE  Calls!Front(newer) = older
  <1> DEFINE front == SubSeq(newer, 1, Len(newer) - 1)
  <1>1. Len(older) \in Nat /\ Len(newer) - 1 = Len(older)
    BY LenProperties
  <1>2. /\ front \in Seq(S) /\ Len(front) = Len(older)
        /\ \A i \in 1 .. Len(older) : front[i] = newer[i]
    BY <1>1, SubSeqProperties
  <1>3. front = older
    BY <1>2, SeqEqual
  <1> QED BY <1>3 DEF Calls!Front

(* The frames as a sequence, element by element.                           *)
Stacked ==
    /\ Frames \in Seq(Frame) /\ Frames # <<>>
    /\ Len(Frames) = blocking_run_depth + 1
    /\ \A i \in 1 .. blocking_run_depth :
          Frames[i] = [pid |-> processes[blocking_runs[i - 1].parent].pid,
                       regs |-> blocking_runs[i - 1].regs]
    /\ Frames[blocking_run_depth + 1] = [pid |-> processes[current].pid, regs |-> cpu]

LEMMA FramesAre == TypeOK /\ RunChain /\ mode = "user" => Stacked
  <1> SUFFICES ASSUME TypeOK, RunChain, mode = "user" PROVE Stacked
    OBVIOUS
  <1>0. blocking_run_depth \in Nat
    BY DEF TypeOK
  <1> DEFINE n == blocking_run_depth
             at(i) == IF i <= n THEN [pid |-> processes[Parent(i - 1)].pid,
                                      regs |-> blocking_runs[i - 1].regs]
                      ELSE [pid |-> processes[current].pid, regs |-> cpu]
  <1>1. Frames = [i \in 1 .. n + 1 |-> at(i)]
    BY DEF Frames
  <1>2. ASSUME NEW i \in 1 .. n + 1
        PROVE  at(i) \in Frame
    <2>1. CASE i <= n
      <3>1. i - 1 \in Depths /\ i - 1 \in Slots
        BY <1>0, <2>1 DEF Depths, Slots, TypeOK
      <3>2. Parent(i - 1) \in Slots
        BY <3>1 DEF RunChain
      <3> QED BY <2>1, <3>1, <3>2 DEF TypeOK, Frame, Process, Run
    <2>2. CASE ~(i <= n)
      BY <2>2 DEF RunChain, TypeOK, Frame, Process
    <2> QED BY <2>1, <2>2
  <1>3. \A i \in 1 .. n : at(i) = [pid |-> processes[Parent(i - 1)].pid,
                                   regs |-> blocking_runs[i - 1].regs]
    BY <1>0
  <1>4. at(n + 1) = [pid |-> processes[current].pid, regs |-> cpu]
    BY <1>0
  <1> HIDE DEF at
  <1>5. Frames \in Seq(Frame) /\ Len(Frames) = n + 1
    BY <1>0, <1>1, <1>2
  <1>6. \A i \in 1 .. n + 1 : Frames[i] = at(i)
    BY <1>1
  <1>7. Frames # <<>>
    BY <1>0, <1>5
  <1>8. n + 1 \in 1 .. n + 1 /\ \A i \in 1 .. n : i \in 1 .. n + 1
    BY <1>0
  <1> QED BY <1>3, <1>4, <1>5, <1>6, <1>7, <1>8 DEF Stacked, Parent

LEMMA FramesWillBe == (TypeOK /\ RunChain /\ mode = "user")' => Stacked'
  BY FramesAre, PTL

LEMMA NoFrames == mode # "user" => Frames = <<>>
  BY DEF Frames

-----------------------------------------------------------------------------
(* Process identifiers before the first program runs.                      *)

Issued ==
    /\ mode = "boot" => next_pid = 1
    /\ mode \in {"waiting", "prepared"} => next_pid = 2 /\ processes[0].pid = 1

LEMMA IssuedStep ==
    ASSUME IInv, Issued, [Next]_vars
    PROVE  Issued'
  <1>0. /\ 0 \in Slots /\ processes \in [Slots -> Process] /\ Control
    BY DEF IInv, TypeOK, Slots
  <1>1. ASSUME NEW readable \in BOOLEAN, UserspaceInit(readable)
        PROVE  Issued'
    <2>1. mode = "boot" /\ next_pid = 1 /\ mode' \in {"waiting", "no_init"}
      BY <1>1 DEF UserspaceInit, Issued
    <2>2. CASE mode' = "waiting"
      <3>1. /\ processes' = [processes EXCEPT ![0] =
                   loaded_process(InitImage, next_pid, free_pages, "/")]
            /\ next_pid' = next_pid + 1
        BY <1>1, <2>2 DEF UserspaceInit
      <3>2. processes'[0].pid = next_pid
        BY <1>0, <3>1 DEF loaded_process
      <3> QED BY <2>1, <2>2, <3>1, <3>2 DEF Issued
    <2> QED BY <2>1, <2>2 DEF Issued
  <1>2. CASE PrepareLaunch
    BY <1>2 DEF PrepareLaunch, memory, Issued
  <1>3. CASE TimerIrq
    <2>1. UNCHANGED <<mode, next_pid>>
      BY <1>3 DEF TimerIrq, memory
    <2>2. processes'[0].pid = processes[0].pid
      BY <1>0, <1>3 DEF TimerIrq, with_regs, Process
    <2> QED BY <2>1, <2>2 DEF Issued
  <1>4. CASE mode = "user" /\ mode' \in {"user", "exception", "returned", "broken"}
    BY <1>4 DEF Issued
  <1>5. CASE UNCHANGED vars
    BY <1>5 DEF vars, memory, Issued
  <1>6. CASE EnterInit \/ KmainEnds \/ TimerWaitFails
    BY <1>6 DEF EnterInit, enter_current, KmainEnds, TimerWaitFails, Issued
  <1>7. ASSUME mode = "user", Next
        PROVE  mode' \in {"user", "exception", "returned", "broken"}
    <2>1. ASSUME NEW img \in Image, NEW n \in Growth, RunPathLaunches(img, n)
          PROVE  mode' \in {"user", "broken"}
      <3>1. \E s : \E p : run_process_blocking(s, p)
        BY <2>1 DEF RunPathLaunches
      <3> QED BY <3>1 DEF run_process_blocking, enter_current
    <2>2. CASE \/ TimerIrq \/ UserFault \/ \E tag \in Tags : UserCompute(tag)
               \/ \E result \in Results, n \in Growth : SysOther(result, n)
               \/ \E dir \in Dirs : SysChdir(dir)
      BY <1>7, <2>2 DEF TimerIrq, UserFault, UserCompute, SysOther, SysChdir, sysret
    <2>3. ASSUME NEW img \in Image, NEW n \in Growth, RunPathLoadFails(img, n)
          PROVE  mode' = "user"
      BY <1>7, <2>3 DEF RunPathLoadFails, sysret
    <2>4. ASSUME NEW result \in {USER_ERR_FAULT, USER_ERR_INVAL}, NEW n \in Growth,
                 RunPathRefused(result, n)
          PROVE  mode' = "user"
      BY <1>7, <2>4 DEF RunPathRefused, sysret
    <2>5. ASSUME NEW status \in {exit_status}, SysExitToParent(status) \/ SysExitToKernel(status)
          PROVE  mode' \in {"user", "returned", "broken"}
      BY <1>7, <2>5 DEF SysExitToParent, SysExitToKernel
    <2>6. ~(\/ \E readable \in BOOLEAN : UserspaceInit(readable)
            \/ PrepareLaunch \/ EnterInit \/ KmainEnds \/ TimerWaitFails \/ Halted)
      BY <1>7 DEF UserspaceInit, PrepareLaunch, EnterInit, KmainEnds, TimerWaitFails,
         Halted, Stopped
    <2> QED BY <1>7, <2>1, <2>2, <2>3, <2>4, <2>5, <2>6 DEF Next, RunPath, SysExit
  <1>8. ASSUME mode # "user", Next
        PROVE  \/ \E readable \in BOOLEAN : UserspaceInit(readable)
               \/ PrepareLaunch \/ TimerIrq \/ EnterInit \/ KmainEnds \/ TimerWaitFails
               \/ UNCHANGED vars
    BY <1>8 DEF Next, RunPath, SysExit, Halted, UserCompute, UserFault, SysOther, SysChdir,
       RunPathRefused, RunPathLoadFails, RunPathLaunches, SysExitToParent, SysExitToKernel
  <1> QED BY <1>1, <1>2, <1>3, <1>4, <1>5, <1>6, <1>7, <1>8

-----------------------------------------------------------------------------
(* Every step of the kernel is a step of the calls, or invisible.          *)

Stopping == mode \in Stopped \cup {"returned"}

(* A step that changes no pid of the chain, no saved register and not the  *)
(* running program.                                                        *)
LEMMA SameFrames ==
    ASSUME IInv, mode' = mode, UNCHANGED <<current, blocking_runs, blocking_run_depth, cpu>>,
           \A s \in Slots : processes'[s].pid = processes[s].pid
    PROVE  Frames' = Frames
  <1>1. CASE mode # "user"
    BY <1>1 DEF Frames
  <1>2. CASE mode = "user"
    <2> DEFINE n == blocking_run_depth
    <2>1. current \in Slots /\ \A d \in Depths : Parent(d) \in Slots
      BY <1>2 DEF IInv, Control, RunChain
    <2>2. n \in Nat /\ \A i \in 1 .. n : i - 1 \in Depths
      BY DEF IInv, TypeOK, Depths
    <2>3. processes'[current].pid = processes[current].pid
      BY <2>1
    <2>4. \A i \in 1 .. n : blocking_runs[i - 1].parent \in Slots
      BY <2>1, <2>2 DEF Parent
    <2>5. \A i \in 1 .. n : processes'[blocking_runs[i - 1].parent].pid
                          = processes[blocking_runs[i - 1].parent].pid
      BY <2>4
    <2> DEFINE now(i) == IF i <= n THEN [pid |-> processes[blocking_runs[i - 1].parent].pid,
                                         regs |-> blocking_runs[i - 1].regs]
                         ELSE [pid |-> processes[current].pid, regs |-> cpu]
               then(i) == IF i <= n THEN [pid |-> processes'[blocking_runs[i - 1].parent].pid,
                                          regs |-> blocking_runs[i - 1].regs]
                         ELSE [pid |-> processes'[current].pid, regs |-> cpu]
    <2>6. \A i \in 1 .. n + 1 : now(i) = then(i)
      BY <2>2, <2>3, <2>5
    <2>7. /\ Frames = [i \in 1 .. n + 1 |-> now(i)]
          /\ Frames' = [i \in 1 .. n + 1 |-> then(i)]
      BY <1>2 DEF Frames, Parent
    <2> HIDE DEF now, then
    <2> QED BY <2>6, <2>7
  <1> QED BY <1>1, <1>2

LEMMA SlotZero == 0 \in Slots
  BY DEF Slots

LEMMA LaunchIsCall ==
    ASSUME IInv, IInv', NEW img \in Image, NEW n \in Growth, RunPathLaunches(img, n)
    PROVE  Calls!Call
  <1>0. /\ TypeOK /\ RunChain /\ TypeOK' /\ RunChain' /\ blocking_run_depth \in Nat
        /\ blocking_runs \in [Slots -> Run] /\ NeverBroken' /\ next_pid \in Nat
    BY DEF IInv, Control, TypeOK
  <1>1. PICK s \in Slots : Launched(img, n, s)
    BY <1>0, LaunchEffect
  <1>2. mode = "user" /\ mode' = "user" /\ next_pid' = next_pid + 1 /\ rax' = rax
    BY <1>1 DEF Launched, RunPathLaunches
  <1> DEFINE k == blocking_run_depth
  <1>3. Stacked
    BY <1>0, <1>2, FramesAre
  <1>4. Stacked'
    BY <1>0, <1>2, FramesWillBe
  <1>5. k' = k + 1 /\ Len(Frames') = Len(Frames) + 1 /\ Len(Frames) = k + 1
    BY <1>0, <1>1, <1>3, <1>4 DEF Launched, Stacked
  <1>6. /\ blocking_runs'[k] = [parent |-> current, regs |-> cpu]
        /\ processes'[current].pid = processes[current].pid
        /\ processes'[s].pid = next_pid /\ current' = s
    BY <1>0, <1>1 DEF Launched
  <1>7. ASSUME NEW i \in 1 .. k
        PROVE  Frames'[i] = Frames[i]
    <2>1. i - 1 \in Depths /\ i - 1 \in Slots \ {k} /\ i \in 1 .. k' /\ i - 1 < k'
      BY <1>0, <1>1, <1>5 DEF Launched, Depths, Slots
    <2>2. blocking_runs'[i - 1] = blocking_runs[i - 1]
      BY <1>0, <1>1, <2>1 DEF Launched
    <2>3. blocking_runs[i - 1].parent \in Slots \ {current, s}
      BY <1>0, <1>1, <1>2, <2>1 DEF Launched, RunChain, Live, Parent
    <2>4. processes'[blocking_runs[i - 1].parent] = processes[blocking_runs[i - 1].parent]
      BY <1>1, <2>3 DEF Launched
    <2>5. /\ Frames'[i] = [pid |-> processes'[blocking_runs'[i - 1].parent].pid,
                           regs |-> blocking_runs'[i - 1].regs]
          /\ Frames[i] = [pid |-> processes[blocking_runs[i - 1].parent].pid,
                          regs |-> blocking_runs[i - 1].regs]
      BY <1>3, <1>4, <2>1 DEF Stacked
    <2> QED BY <2>2, <2>4, <2>5
  <1>8. Frames'[k + 1] = Frames[k + 1]
    <2>1. k + 1 \in 1 .. k' /\ (k + 1) - 1 = k
      BY <1>0, <1>5
    <2>2. Frames'[k + 1] = [pid |-> processes'[blocking_runs'[k].parent].pid,
                            regs |-> blocking_runs'[k].regs]
      BY <1>4, <2>1 DEF Stacked
    <2> QED BY <1>3, <1>6, <2>2 DEF Stacked
  <1>9. \A i \in 1 .. Len(Frames) : Frames'[i] = Frames[i]
    BY <1>0, <1>5, <1>7, <1>8
  <1>10. Calls!Front(Frames') = Frames
    BY <1>3, <1>4, <1>5, <1>9, FrontOf DEF Stacked
  <1>11. Calls!Last(Frames').pid = next_pid
    BY <1>4, <1>6 DEF Calls!Last, Stacked
  <1>12. Calls!Pushed(Frames, Frames', (next_pid - 1) + 1)
    BY <1>0, <1>4, <1>10, <1>11 DEF Calls!Pushed, Calls!Frame, Frame, Stacked
  <1>13. next_pid' - 1 = (next_pid - 1) + 1 /\ ~Stopping /\ ~Stopping'
    BY <1>0, <1>2 DEF Stopping, Stopped
  <1> QED BY <1>2, <1>3, <1>12, <1>13 DEF Calls!Call, Stacked, Stopping

LEMMA ExitIsReturn ==
    ASSUME IInv, IInv', NEW status \in {exit_status}, SysExitToParent(status)
    PROVE  Calls!Return
  <1>0. /\ TypeOK /\ RunChain /\ TypeOK' /\ RunChain' /\ blocking_run_depth \in Nat
        /\ blocking_runs \in [Slots -> Run] /\ next_pid \in Nat
    BY DEF IInv, Control, TypeOK
  <1> DEFINE back == Parent(popped)
             k == blocking_run_depth
  <1>1. Returned(back)
    BY ExitEffect
  <1> HIDE DEF back
  <1>2. /\ mode = "user" /\ mode' = "user" /\ next_pid' = next_pid
        /\ rax' = Status[cpu["rdi"]]
    BY <1>0, <1>1, ExitStatus DEF Returned, SysExitToParent, memory, TypeOK
  <1>3. Stacked
    BY <1>0, <1>2, FramesAre
  <1>4. Stacked'
    BY <1>0, <1>2, FramesWillBe
  <1>5. /\ k \in Nat /\ k' \in Nat /\ k = k' + 1 /\ k' = popped
        /\ Len(Frames) = Len(Frames') + 1 /\ Len(Frames') = k
    BY <1>0, <1>1, <1>3, <1>4 DEF Returned, Stacked, popped
  <1>6. /\ current' = blocking_runs[k'].parent
        /\ cpu' = blocking_runs[k'].regs
        /\ processes'[current'].pid = processes[blocking_runs[k'].parent].pid
    BY <1>1, <1>5 DEF Returned, Parent
  <1>7. ASSUME NEW i \in 1 .. k'
        PROVE  Frames[i] = Frames'[i]
    <2>1. i - 1 \in Depths \ {popped} /\ i - 1 \in Slots \ {popped} /\ i \in 1 .. k
      BY <1>0, <1>1, <1>5 DEF Returned, Depths, Slots
    <2>2. blocking_runs'[i - 1] = blocking_runs[i - 1]
      BY <1>0, <1>1, <2>1 DEF Returned
    <2>3. blocking_runs[i - 1].parent \in Slots \ {current, back}
      BY <1>1, <2>1 DEF Returned, Parent
    <2>4. processes'[blocking_runs[i - 1].parent] = processes[blocking_runs[i - 1].parent]
      BY <1>1, <2>3 DEF Returned
    <2>5. /\ Frames'[i] = [pid |-> processes'[blocking_runs'[i - 1].parent].pid,
                           regs |-> blocking_runs'[i - 1].regs]
          /\ Frames[i] = [pid |-> processes[blocking_runs[i - 1].parent].pid,
                          regs |-> blocking_runs[i - 1].regs]
      BY <1>3, <1>4, <2>1 DEF Stacked
    <2> QED BY <2>2, <2>4, <2>5
  <1>8. Frames[k] = Frames'[k]
    <2>1. k \in 1 .. k /\ k - 1 = k'
      BY <1>5
    <2>2. Frames[k] = [pid |-> processes[blocking_runs[k'].parent].pid,
                       regs |-> blocking_runs[k'].regs]
      BY <1>3, <2>1 DEF Stacked
    <2>3. Frames'[k] = [pid |-> processes'[current'].pid, regs |-> cpu']
      BY <1>4, <1>5 DEF Stacked
    <2> QED BY <1>6, <2>2, <2>3
  <1>9. \A i \in 1 .. Len(Frames') : Frames[i] = Frames'[i]
    BY <1>5, <1>7, <1>8
  <1>10. Calls!Front(Frames) = Frames'
    BY <1>3, <1>4, <1>5, <1>9, FrontOf DEF Stacked
  <1>11. Len(Frames) > 1 /\ ~Stopping /\ ~Stopping'
    BY <1>2, <1>5 DEF Stopping, Stopped
  <1>12. Calls!Last(Frames).regs = cpu
    <2>1. Frames[k + 1] = [pid |-> processes[current].pid, regs |-> cpu] /\ Len(Frames) = k + 1
      BY <1>3 DEF Stacked
    <2> QED BY <2>1 DEF Calls!Last
  <1> QED BY <1>2, <1>10, <1>11, <1>12 DEF Calls!Return, Stopping

(* A program that computes keeps its frame and those below it.             *)
LEMMA ComputeIsCompute ==
    ASSUME IInv, IInv', NEW tag \in Tags, UserCompute(tag)
    PROVE  Calls!Compute
  <1>0. /\ TypeOK /\ RunChain /\ TypeOK' /\ RunChain' /\ blocking_run_depth \in Nat
    BY DEF IInv, Control, TypeOK
  <1> DEFINE k == blocking_run_depth
             below == SubSeq(Frames, 1, k)
  <1>1. /\ mode = "user" /\ mode' = "user" /\ rax' = rax /\ next_pid' = next_pid
        /\ processes' = processes /\ current' = current
        /\ blocking_runs' = blocking_runs /\ k' = k
    BY DEF UserCompute, memory, stack
  <1>2. Stacked
    BY <1>0, <1>1, FramesAre
  <1>3. Stacked'
    BY <1>0, <1>1, FramesWillBe
  <1>4. Len(Frames) = k + 1 /\ Len(Frames') = k + 1
    BY <1>1, <1>2, <1>3 DEF Stacked
  <1>5. /\ \A i \in 1 .. k : Frames'[i] = Frames[i]
        /\ Frames'[k + 1].pid = Frames[k + 1].pid
    <2>1. \A i \in 1 .. k : Frames[i] = [pid |-> processes[blocking_runs[i - 1].parent].pid,
                                         regs |-> blocking_runs[i - 1].regs]
      BY <1>2 DEF Stacked
    <2>2. \A i \in 1 .. k : Frames'[i] = [pid |-> processes[blocking_runs[i - 1].parent].pid,
                                          regs |-> blocking_runs[i - 1].regs]
      BY <1>1, <1>3, Zenon DEF Stacked
    <2>3. /\ Frames[k + 1] = [pid |-> processes[current].pid, regs |-> cpu]
          /\ Frames'[k + 1] = [pid |-> processes[current].pid, regs |-> cpu']
      BY <1>1, <1>2, <1>3, Zenon DEF Stacked
    <2>4. Frames'[k + 1].pid = Frames[k + 1].pid
      BY <2>3
    <2>5. \A i \in 1 .. k : Frames'[i] = Frames[i]
      BY <2>1, <2>2, Zenon
    <2> QED BY <2>4, <2>5
  <1>6. /\ below \in Seq(Frame) /\ Len(below) = k
        /\ \A i \in 1 .. k : below[i] = Frames[i]
    <2>1. \A i \in 1 .. k : Frames[i] \in Frame
      BY <1>0, <1>2, <1>4, ElementOfSeq DEF Stacked
    <2> QED BY <1>0, <2>1, SubSeqProperties
  <1>7. Calls!Front(Frames) = below
    BY <1>2, <1>4, <1>6, FrontOf DEF Stacked
  <1>8. Calls!Front(Frames') = below
    <2>1. Frames' \in Seq(Frame)
      BY <1>3 DEF Stacked
    <2>2. Len(Frames') = Len(below) + 1 /\ \A i \in 1 .. Len(below) : Frames'[i] = below[i]
      BY <1>4, <1>5, <1>6
    <2> HIDE DEF below
    <2> QED BY <1>6, <2>1, <2>2, FrontOf
  <1>9. Calls!Last(Frames').pid = Calls!Last(Frames).pid
    BY <1>4, <1>5 DEF Calls!Last
  <1>10. Calls!Pushed(Calls!Front(Frames), Frames', Calls!Last(Frames).pid)
    BY <1>3, <1>7, <1>8, <1>9 DEF Calls!Pushed, Calls!Frame, Frame, Stacked
  <1> QED BY <1>1, <1>2, <1>10 DEF Calls!Compute, Stacked, Stopped

(* The first program starts with the pid the boot gave it.                 *)
LEMMA EnterIsStart ==
    ASSUME IInv, IInv', Issued, EnterInit
    PROVE  Calls!Start
  <1>0. /\ TypeOK' /\ RunChain' /\ processes \in [Slots -> Process] /\ 0 \in Slots
        /\ Control /\ NeverBroken'
    <2>1. processes \in [Slots -> Process]
      BY DEF IInv, TypeOK
    <2> QED BY <2>1, SlotZero DEF IInv, Control
  <1>1. /\ mode = "prepared" /\ current = 0 /\ blocking_run_depth = 0
        /\ next_pid = 2 /\ processes[0].pid = 1
    BY <1>0 DEF EnterInit, Issued, Control, LaunchReady
  <1>2. /\ mode' = "user" /\ processes' = marked(processes, 0, "RUNNING", "RUNNING")
        /\ next_pid' = next_pid /\ rax' = rax /\ current' = 0 /\ blocking_run_depth' = 0
    BY <1>0, <1>1 DEF EnterInit, enter_current, NeverBroken, memory, stack
  <1>3. Stacked'
    BY <1>0, <1>2, FramesWillBe
  <1>4. processes'[0].pid = 1
    BY <1>0, <1>1, <1>2, Marked
  <1>5. Len(Frames') = 1 /\ Frames'[1].pid = 1
    BY <1>2, <1>3, <1>4 DEF Stacked
  <1>6. Calls!Front(Frames') = <<>>
    <2>1. Frames' \in Seq(Frame) /\ <<>> \in Seq(Frame)
      BY <1>3 DEF Stacked
    <2>2. Len(Frames') = Len(<<>>) + 1 /\ \A i \in 1 .. Len(<<>>) : Frames'[i] = <<>>[i]
      BY <1>5
    <2> QED BY <2>1, <2>2, FrontOf
  <1>7. Calls!Pushed(<<>>, Frames', 1)
    BY <1>3, <1>5, <1>6 DEF Calls!Pushed, Calls!Last, Calls!Frame, Frame, Stacked
  <1>8. Frames = <<>>
    BY <1>1, NoFrames
  <1> QED BY <1>1, <1>2, <1>7, <1>8 DEF Calls!Start, Stopped

(* A call that starts nothing leaves the stack of calls as it is.          *)
LEMMA AnswerIsAnswer ==
    ASSUME IInv, mode = "user", NEW result \in Int, sysret(result),
           next_pid' \in {next_pid, next_pid + 1},
           next_pid' # next_pid => result < 0,
           \A s \in Slots : processes'[s].pid = processes[s].pid
    PROVE  Calls!Answer
  <1>0. TypeOK /\ RunChain /\ next_pid \in Nat
    BY DEF IInv, Control, TypeOK
  <1>1. cpu' = cpu
    BY <1>0, SyscallFrameInverse DEF sysret, TypeOK
  <1>2. Frames' = Frames
    BY <1>1, SameFrames DEF sysret, stack
  <1>3. Frames # <<>>
    BY <1>0, FramesAre DEF Stacked
  <1>4. next_pid' - 1 \in {next_pid - 1, (next_pid - 1) + 1}
    <2>1. CASE next_pid' = next_pid
      BY <2>1
    <2>2. CASE next_pid' = next_pid + 1
      BY <1>0, <2>2
    <2> QED BY <2>1, <2>2
  <1>5. next_pid' - 1 # next_pid - 1 => result < 0
    BY <1>0
  <1> QED BY <1>2, <1>3, <1>4, <1>5 DEF Calls!Answer, sysret

-----------------------------------------------------------------------------
(* The refinement.                                                         *)

LEMMA CallsStep ==
    ASSUME IInv, IInv', Issued, [Next]_vars
    PROVE  [Calls!Next]_(Calls!vars)
  <1>0. /\ processes \in [Slots -> Process] /\ next_pid \in Nat /\ 0 \in Slots
        /\ Control /\ NeverBroken'
    <2>1. processes \in [Slots -> Process] /\ next_pid \in Nat
      BY DEF IInv, TypeOK
    <2> QED BY <2>1, SlotZero DEF IInv
  <1>1. ASSUME NEW readable \in BOOLEAN, UserspaceInit(readable)
        PROVE  Calls!Boot
    <2>1. /\ mode = "boot" /\ next_pid = 1 /\ mode' \in {"waiting", "no_init"}
          /\ next_pid' \in {next_pid, next_pid + 1} /\ rax' = rax
      BY <1>1 DEF UserspaceInit, Issued
    <2>2. Frames = <<>> /\ Frames' = <<>>
      BY <2>1 DEF Frames
    <2> QED BY <2>1, <2>2 DEF Calls!Boot, Stopped
  <1>2. CASE PrepareLaunch \/ KmainEnds \/ (TimerIrq /\ mode # "user")
    <2>1. /\ mode # "user" /\ mode' # "user" /\ UNCHANGED <<next_pid, rax>>
          /\ Stopping' = Stopping
      BY <1>0, <1>2 DEF PrepareLaunch, KmainEnds, TimerIrq, memory, Stopping, Stopped, NeverBroken
    <2>2. Frames' = Frames
      BY <2>1 DEF Frames
    <2> QED BY <2>1, <2>2 DEF Calls!vars, Stopping
  <1>3. CASE EnterInit
    BY <1>3, EnterIsStart DEF Calls!Next
  <1>4. CASE TimerIrq /\ mode = "user"
    <2>1. /\ mode' = mode /\ UNCHANGED <<current, blocking_runs, blocking_run_depth, cpu>>
          /\ UNCHANGED <<next_pid, rax>>
      BY <1>4 DEF TimerIrq, memory, stack
    <2>2. \A s \in Slots : processes'[s].pid = processes[s].pid
      BY <1>0, <1>4 DEF TimerIrq, with_regs, Process
    <2>3. Frames' = Frames
      BY <2>1, <2>2, SameFrames
    <2> QED BY <2>1, <2>3 DEF Calls!vars
  <1>5. ASSUME NEW tag \in Tags, UserCompute(tag)
        PROVE  Calls!Compute
    BY <1>5, ComputeIsCompute
  <1>6. ASSUME \/ UserFault \/ TimerWaitFails
               \/ \E status \in {exit_status} : SysExitToKernel(status)
        PROVE  Calls!Stop
    <2>1. /\ ~Stopping /\ Stopping' /\ mode' # "user" /\ UNCHANGED <<next_pid, rax>>
      BY <1>0, <1>6 DEF UserFault, TimerWaitFails, SysExitToKernel, memory, Stopping, Stopped,
         NeverBroken
    <2>2. Frames' = <<>>
      BY <2>1 DEF Frames
    <2> QED BY <2>1, <2>2 DEF Calls!Stop, Stopping
  <1>8. ASSUME NEW result \in Results, NEW n \in Growth, SysOther(result, n)
        PROVE  Calls!Answer
    BY <1>8, AnswerIsAnswer DEF SysOther
  <1>9. ASSUME NEW dir \in Dirs, SysChdir(dir)
        PROVE  Calls!Answer
    <2>1. \A s \in Slots : processes'[s].pid = processes[s].pid
      BY <1>0, <1>9 DEF SysChdir, process_set_cwd, Process
    <2> QED BY <1>9, <2>1, AnswerIsAnswer DEF SysChdir, memory
  <1>10. ASSUME NEW result \in {USER_ERR_FAULT, USER_ERR_INVAL}, NEW n \in Growth,
                RunPathRefused(result, n)
         PROVE  Calls!Answer
    <2>1. result \in Int
      BY DEF USER_ERR_FAULT, USER_ERR_INVAL
    <2> QED BY <1>10, <2>1, AnswerIsAnswer DEF RunPathRefused
  <1>11. ASSUME NEW img \in Image, NEW n \in Growth, RunPathLoadFails(img, n)
         PROVE  Calls!Answer
    <2>1. \A s \in Slots : processes'[s].pid = processes[s].pid
      BY <1>0, <1>11 DEF RunPathLoadFails, emptied, Process
    <2>2. USER_ERR_INVAL \in Int /\ USER_ERR_INVAL < 0
      BY DEF USER_ERR_INVAL
    <2> QED BY <1>11, <2>1, <2>2, AnswerIsAnswer DEF RunPathLoadFails
  <1>12. ASSUME NEW img \in Image, NEW n \in Growth, RunPathLaunches(img, n)
         PROVE  Calls!Call
    BY <1>12, LaunchIsCall
  <1>13. ASSUME NEW status \in {exit_status}, SysExitToParent(status)
         PROVE  Calls!Return
    BY <1>13, ExitIsReturn
  <1>17. CASE UNCHANGED vars
    <2>1. UNCHANGED <<mode, processes, next_pid, current, blocking_runs, blocking_run_depth,
                      cpu, rax>>
      BY <1>17 DEF vars, memory, stack
    <2>2. Frames' = Frames
      BY <2>1, SameFrames
    <2> QED BY <2>1, <2>2 DEF Calls!vars
  <1> QED
    BY <1>1, <1>2, <1>3, <1>4, <1>5, <1>6, <1>8, <1>9, <1>10, <1>11, <1>12,
       <1>13, <1>17 DEF Next, RunPath, SysExit, Halted, Calls!Next

(* The kernel keeps the promise of RunStack: whatever the sizes of its     *)
(* table, stack and memory, programs nest like procedure calls, each gets  *)
(* a fresh pid, and a caller continues with the registers it called with   *)
(* and the status its child had in rdi when it exited.                     *)
THEOREM RefinesRunStack == Spec => RunsLikeCalls
  <1>1. Init => Calls!Init
    <2>1. Init => mode # "user" /\ next_pid - 1 = 0 /\ rax = 0 /\ mode = "boot"
      BY DEF Init
    <2> QED BY <2>1 DEF Calls!Init, Frames, Stopped
  <1>2. Init => Issued
    BY DEF Init, Issued
  <1>3. IInv /\ Issued /\ [Next]_vars => Issued'
    BY IssuedStep
  <1>4. IInv /\ IInv' /\ Issued /\ [Next]_vars => [Calls!Next]_(Calls!vars)
    BY CallsStep
  <1> QED BY <1>1, <1>2, <1>3, <1>4, Invariance, PTL DEF Spec, RunsLikeCalls, Calls!Spec

=============================================================================
