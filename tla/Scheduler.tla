------------------------------ MODULE Scheduler ------------------------------
(***************************************************************************)
(* The process table, the blocking scheduler and the two ways into them:   *)
(* the int 0x80 gate and the timer interrupt                               *)
(* (src/userspace/process.c, scheduler.c, userspace.c, syscall.c,          *)
(* src/arch/x86_64/idt.c and isr.S, src/main.c).                           *)
(*                                                                         *)
(* There is one CPU and every gate is an interrupt gate, so a system call  *)
(* runs with interrupts off and is one action; the timer interrupts kmain  *)
(* after `sti` and user code.  A process that launches another one is      *)
(* suspended on a stack of "blocking runs" until the child exits.          *)
(*                                                                         *)
(* Data: an ELF image is a model value with the number of page frames its  *)
(* load takes; a user program's register file is the image of a tag under  *)
(* Context, where every register holds a value of its own, so that a       *)
(* conversion that swaps or drops a register is visible.  rax carries the  *)
(* result of a system call and is kept apart from the other registers.     *)
(***************************************************************************)
EXTENDS Integers, Sequences

CONSTANTS
    MaxProcesses,   \* USERSPACE_MAX_PROCESSES, 8 in process.h
    TotalPages,     \* page frames on the PMM free list when userspace_init runs
    Image,          \* regular files a path may name
    InitImage,      \* the file /bin/init
    Pages,          \* frames an image's segments and page tables take
    Valid,          \* images elf64_validate_user_image accepts
    Mappable,       \* images no two segments of which share a page
    Tags,           \* what user code may leave in its registers
    Results,        \* results of the calls that change no process
    Status,         \* the number a register value is as an exit status
    Dirs,           \* directories a process may chdir to
    Growth,         \* frames one call takes for sbrk or for the kernel heap
    WaitTicks,      \* ticks kmain waits for before it launches init, 5
    MaxTicks,       \* bound on modelled timer interrupts
    MaxPid,         \* bound on process identifiers handed out
    Null

Slots == 0 .. MaxProcesses - 1

ASSUME SlotsAssumption == MaxProcesses \in Nat \ {0}
ASSUME PagesAssumption == /\ TotalPages \in Nat
                          /\ Pages \in [Image -> Nat]
                          /\ Growth \subseteq Nat
ASSUME ImageAssumption == InitImage \in Image
ASSUME ResultsAssumption == Results \subseteq Int
ASSUME NullAssumption == Null \notin Slots
ASSUME BoundsAssumption ==
    WaitTicks \in Nat /\ MaxTicks \in Nat /\ MaxPid \in Nat

VARIABLES
    mode,               \* where control is, see Modes
    processes,          \* the process table
    next_pid,
    free_pages,         \* frames left on the PMM free list
    current,            \* slot of the running process, or Null
    return_context,     \* kernel_return_context: "NULL" or "init"
    blocking_runs,
    blocking_run_depth,
    cr3,                \* page frame of the active PML4, 0 for the kernel's
    cpu,                \* register file of user code, rax apart
    rax,                \* what the last system call left in rax
    ticks, user_preemptions, launches, exits, last_exit_status,
    left                \* history: what each process last had in its registers

counters == <<ticks, user_preemptions, launches, exits, last_exit_status>>
stack == <<blocking_runs, blocking_run_depth>>
memory == <<next_pid, free_pages>>
vars == <<mode, processes, memory, current, return_context, stack, cr3, cpu,
          rax, counters, left>>

-----------------------------------------------------------------------------
(* Error codes of abi.h.                                                   *)
USER_ERR_FAULT == -2
USER_ERR_INVAL == -3

ProcessStates == {"EMPTY", "READY", "RUNNING", "EXITED"}
ThreadStates == {"EMPTY", "READY", "RUNNING", "BLOCKED", "EXITED"}

(* kmain before userspace_init; in timer_wait_ticks with interrupts on;    *)
(* between scheduler_prepare_launch and iretq; user code; back in kmain    *)
(* after init exits.  Then the ways to stop: no /bin/init, no timer        *)
(* interrupts, a panic() inside this subsystem, kmain's last panic, the    *)
(* CPU exception loop.                                                     *)
Modes == {"boot", "waiting", "prepared", "user", "returned",
          "no_init", "no_timer", "broken", "init_exited", "exception"}
Stopped == {"no_init", "no_timer", "broken", "init_exited", "exception"}

UserRegs == {"rip", "rsp", "rflags", "rbx", "rcx", "rdx", "rsi", "rdi", "rbp",
             "r8", "r9", "r10", "r11", "r12", "r13", "r14", "r15"}

Context(tag) == [r \in UserRegs |-> <<r, tag>>]

(* What kernel code leaves in the registers arch_enter_user does not load, *)
(* and what an interrupt of kernel code finds in all of them.              *)
KernelContext == Context("kernel")

Values == Tags \cup Image \cup {"kernel", "zero", "stack_top", "0x202"}
Contexts == [UserRegs -> UserRegs \X Values]

ASSUME StatusAssumption == Status \in [UserRegs \X Values -> Int]

-----------------------------------------------------------------------------
(* The four register conversions of a system call.                         *)

(* exception_dispatch: the interrupt frame becomes a syscall_frame ...     *)
SyscallFrame(f) ==
    [arg0 |-> f.rdi, arg1 |-> f.rsi, arg2 |-> f.rdx, arg3 |-> f.r10,
     arg4 |-> f.r8, arg5 |-> f.r9, rbx |-> f.rbx, rcx |-> f.rcx,
     rbp |-> f.rbp, r11 |-> f.r11, r12 |-> f.r12, r13 |-> f.r13,
     r14 |-> f.r14, r15 |-> f.r15, user_rip |-> f.rip, user_rsp |-> f.rsp,
     rflags |-> f.rflags]

(* ... and is written back to the interrupt frame on the way out.          *)
InterruptFrame(s) ==
    [rbx |-> s.rbx, rcx |-> s.rcx, rdi |-> s.arg0, rsi |-> s.arg1,
     rdx |-> s.arg2, r10 |-> s.arg3, r8 |-> s.arg4, r9 |-> s.arg5,
     rbp |-> s.rbp, r11 |-> s.r11, r12 |-> s.r12, r13 |-> s.r13,
     r14 |-> s.r14, r15 |-> s.r15, rip |-> s.user_rip, rsp |-> s.user_rsp,
     rflags |-> s.rflags]

(* Mutant: the first two arguments change places.                          *)
registers_swapped(s) ==
    [rip |-> s.user_rip, rsp |-> s.user_rsp, rflags |-> s.rflags,
     rbx |-> s.rbx, rcx |-> s.rcx, rdx |-> s.arg2, rsi |-> s.arg0,
     rdi |-> s.arg1, rbp |-> s.rbp, r8 |-> s.arg4, r9 |-> s.arg5,
     r10 |-> s.arg3, r11 |-> s.r11, r12 |-> s.r12, r13 |-> s.r13,
     r14 |-> s.r14, r15 |-> s.r15]

registers_from_syscall_frame(s) ==
    [rip |-> s.user_rip, rsp |-> s.user_rsp, rflags |-> s.rflags,
     rbx |-> s.rbx, rcx |-> s.rcx, rdx |-> s.arg2, rsi |-> s.arg1,
     rdi |-> s.arg0, rbp |-> s.rbp, r8 |-> s.arg4, r9 |-> s.arg5,
     r10 |-> s.arg3, r11 |-> s.r11, r12 |-> s.r12, r13 |-> s.r13,
     r14 |-> s.r14, r15 |-> s.r15]

syscall_frame_from_registers(g) ==
    [arg0 |-> g.rdi, arg1 |-> g.rsi, arg2 |-> g.rdx, arg3 |-> g.r10,
     arg4 |-> g.r8, arg5 |-> g.r9, rbx |-> g.rbx, rcx |-> g.rcx,
     rbp |-> g.rbp, r11 |-> g.r11, r12 |-> g.r12, r13 |-> g.r13,
     r14 |-> g.r14, r15 |-> g.r15, user_rip |-> g.rip, user_rsp |-> g.rsp,
     rflags |-> g.rflags]

(* Mutant: the interrupted frame is saved without a look at its cs.        *)
saved_always(frame, from_user, regs) == frame

(* scheduler_tick and save_user_frame copy the interrupt frame to the      *)
(* current thread only when the interrupt came from user code.             *)
saved_regs(frame, from_user, regs) == IF from_user THEN frame ELSE regs

(* x86_64_enter_user takes rip and rsp only; rflags is the literal 0x202.  *)
entered(regs) ==
    [KernelContext EXCEPT !["rip"] = regs.rip, !["rsp"] = regs.rsp,
                          !["rflags"] = <<"rflags", "0x202">>]

-----------------------------------------------------------------------------
(* The process table.                                                      *)

EmptyProcess == [state |-> "EMPTY", thread |-> "EMPTY", pid |-> 0, pml4 |-> 0,
                 regs |-> Context("zero"), cwd |-> "/"]

NoRun == [parent |-> Null, regs |-> Context("zero")]

(* process_prepare_user_image: a zeroed register file but for these three. *)
ImageRegs(img) == [Context("zero") EXCEPT !["rip"] = <<"rip", img>>,
                                          !["rsp"] = <<"rsp", "stack_top">>,
                                          !["rflags"] = <<"rflags", "0x202">>]

(* Mutant: the frames are counted without a look at the end of the list.   *)
load_takes_all(img, free) == IF img \in Valid THEN 2 + Pages[img] ELSE 2

(* Mutant: a load gives its frames back, a successful one too.             *)
load_takes_nothing(img, free) == 0

(* What process_load_user_image_bytes takes from the free list: one frame  *)
(* for the PML4 and one for the stack before the image is looked at, then  *)
(* the segments', as far as there are any.  Nothing is given back, whether *)
(* the load succeeds or fails.                                             *)
load_takes(img, free) ==
    LET needed == IF img \in Valid THEN 2 + Pages[img] ELSE 2
    IN  IF free < needed THEN free ELSE needed

load_succeeds(img, free) ==
    /\ free >= 2 + Pages[img]
    /\ img \in Valid
    /\ img \in Mappable

(* Frames leave the free list in order, so the frame the PML4 gets is      *)
(* named by its position there, counted from 1.                            *)
loaded_process(img, pid, free, cwd) ==
    [state |-> "READY", thread |-> "READY", pid |-> pid,
     pml4 |-> TotalPages - free + 1, regs |-> ImageRegs(img), cwd |-> cwd]

(* Mutant: any slot that is not running, a suspended one too.              *)
idle_slots == {s \in Slots \ {0} : processes[s].state # "RUNNING"}

(* The slots process_create_filesystem_process may give to a new process:  *)
(* never slot 0, which is init's.                                          *)
usable_slots == {s \in Slots \ {0} : processes[s].state \in {"EMPTY", "EXITED"}}

(* Assignments to one entry of the table.                                  *)
marked(p, s, state, thread) ==
    [p EXCEPT ![s].state = state, ![s].thread = thread]
emptied(p, s) == [p EXCEPT ![s].state = "EMPTY"]
with_regs(p, s, regs) == [p EXCEPT ![s].regs = regs]
process_set_cwd(p, s, dir) == [p EXCEPT ![s].cwd = dir]

(* The loop over the table stops at the first usable slot.                 *)
first_usable(s) == s \in usable_slots /\ \A t \in usable_slots : s <= t

(* n calls of pmm_alloc_page, each of which fails on an empty list.        *)
take(n, free) == IF free < n THEN 0 ELSE free - n

(* Mutant: a switch from one user address space to another is forgotten.   *)
activated_once(p, s) == IF cr3 = 0 THEN p[s].pml4 ELSE cr3

(* vmm_activate_address_space of the process in slot s of table p.         *)
activated(p, s) == p[s].pml4

(* The run scheduler_finish_blocking_exit takes off the stack.             *)
popped == blocking_run_depth - 1

-----------------------------------------------------------------------------
(* Boot.                                                                   *)

Init ==
    /\ mode = "boot"
    /\ processes = [s \in Slots |-> EmptyProcess]       \* process_table_init
    /\ next_pid = 1
    /\ free_pages = TotalPages
    /\ current = Null                                   \* scheduler_init
    /\ return_context = "NULL"
    /\ blocking_runs = [d \in Slots |-> NoRun]
    /\ blocking_run_depth = 0
    /\ cr3 = 0
    /\ cpu = KernelContext
    /\ rax = 0
    /\ ticks = 0 /\ user_preemptions = 0 /\ launches = 0 /\ exits = 0
    /\ last_exit_status = 0
    /\ left = [s \in Slots |-> KernelContext]

(* userspace_init: process_create_filesystem_init puts /bin/init in slot 0 *)
(* with the working directory "/".  It fails when the file cannot be read  *)
(* or loaded, and userspace_init panics.                                   *)
UserspaceInit(readable) ==
    /\ mode = "boot"
    /\ LET loaded == readable /\ load_succeeds(InitImage, free_pages)
       IN  /\ mode' = IF loaded THEN "waiting" ELSE "no_init"
           /\ processes' = [processes EXCEPT ![0] =
                 IF loaded THEN loaded_process(InitImage, next_pid, free_pages, "/")
                           ELSE @]
           /\ left' = [left EXCEPT ![0] =
                 IF loaded THEN entered(ImageRegs(InitImage)) ELSE @]
    /\ next_pid' = IF readable THEN next_pid + 1 ELSE next_pid
    /\ free_pages' = IF readable
                     THEN free_pages - load_takes(InitImage, free_pages)
                     ELSE free_pages
    /\ UNCHANGED <<current, return_context, stack, cr3, cpu, rax, counters>>

(* Mutant: the return context is not recorded.                             *)
PrepareLaunchNoReturn ==
    /\ mode = "waiting"
    /\ ticks >= WaitTicks
    /\ mode' = "prepared"
    /\ current' = 0
    /\ UNCHANGED <<processes, memory, return_context, stack, cr3, cpu, rax,
                   counters, left>>

(* timer_wait_ticks gives up after a number of spins; kmain asserts that   *)
(* it did not.  Its target counts from the tick it starts at, so it may    *)
(* give up at any tick.                                                    *)
TimerWaitFails ==
    /\ mode = "waiting"
    /\ mode' = "no_timer"
    /\ UNCHANGED <<processes, memory, current, return_context, stack, cr3, cpu,
                   rax, counters, left>>

(* The wait is over, and userspace_launch_init up to                       *)
(* scheduler_enter_current: interrupts are on.                             *)
PrepareLaunch ==
    /\ mode = "waiting"
    /\ ticks >= WaitTicks
    /\ IF processes[0].state = "READY" /\ processes[0].thread = "READY"
       THEN /\ mode' = "prepared"
            /\ current' = 0
            /\ return_context' = "init"
       ELSE /\ mode' = "broken"
            /\ UNCHANGED <<current, return_context>>
    /\ UNCHANGED <<processes, memory, stack, cr3, cpu, rax, counters, left>>

(* The launch of the process in slot s of table p: scheduler_enter_current *)
(* and x86_64_enter_user.  It panics without a task or a return context.   *)
enter_current(s, p) ==
    IF s = Null \/ return_context' = "NULL"
    THEN /\ mode' = "broken"
         /\ processes' = p
         /\ UNCHANGED <<launches, cr3, cpu>>
    ELSE /\ mode' = "user"
         /\ launches' = launches + 1
         /\ processes' = marked(p, s, "RUNNING", "RUNNING")
         /\ cr3' = activated(p, s)
         /\ cpu' = entered(p[s].regs)

EnterInit ==
    /\ mode = "prepared"
    /\ UNCHANGED return_context
    /\ enter_current(current, processes)
    /\ UNCHANGED <<memory, current, stack, rax, ticks, user_preemptions,
                   exits, last_exit_status, left>>

-----------------------------------------------------------------------------
(* The timer interrupt: timer_irq, scheduler_tick.  It can arrive whenever *)
(* interrupts are on: in kmain after sti and in user code.                 *)
TimerIrq ==
    /\ mode \in {"waiting", "prepared", "user", "returned"}
    /\ ticks < MaxTicks
    /\ ticks' = ticks + 1
    /\ LET from_user == mode = "user"
           frame == IF from_user THEN cpu ELSE KernelContext
       IN  IF current = Null
           THEN UNCHANGED <<processes, user_preemptions>>
           ELSE /\ processes' = with_regs(processes, current,
                       saved_regs(frame, from_user, processes[current].regs))
                /\ user_preemptions' = IF from_user THEN user_preemptions + 1
                                                    ELSE user_preemptions
    /\ UNCHANGED <<mode, memory, current, return_context, stack, cr3, cpu, rax,
                   launches, exits, last_exit_status, left>>

-----------------------------------------------------------------------------
(* User code.                                                              *)

(* Any instruction that changes the registers.                             *)
UserCompute(tag) ==
    /\ mode = "user"
    /\ cpu' = Context(tag)
    /\ left' = [left EXCEPT ![current] = Context(tag)]
    /\ UNCHANGED <<mode, processes, memory, current, return_context, stack,
                   cr3, rax, counters>>

(* Any exception of user code other than int 0x80: exception_dispatch      *)
(* prints the frame and halts the machine.                                 *)
UserFault ==
    /\ mode = "user"
    /\ mode' = "exception"
    /\ UNCHANGED <<processes, memory, current, return_context, stack, cr3, cpu,
                   rax, counters, left>>

(* What int 0x80 does when syscall_dispatch returns to the caller.         *)
sysret(result) ==
    /\ rax' = result
    /\ cpu' = InterruptFrame(SyscallFrame(cpu))
    /\ UNCHANGED <<mode, current, return_context, stack, cr3, counters>>

(* The calls that change no process: only SBRK takes anything, the frames  *)
(* of the pages it maps, as many as there are.                             *)
SysOther(result, n) ==
    /\ mode = "user"
    /\ sysret(result)
    /\ free_pages' = take(n, free_pages)
    /\ UNCHANGED <<processes, next_pid, left>>

(* SYSCALL_FS_CHDIR of a directory that exists.                            *)
SysChdir(dir) ==
    /\ mode = "user"
    /\ sysret(0)
    /\ processes' = process_set_cwd(processes, current, dir)
    /\ UNCHANGED <<memory, left>>

(* SYSCALL_APP_RUN_PATH when the path cannot be copied or resolved, or     *)
(* process_create_filesystem_process finds no file or no memory for it, or *)
(* cannot read it, or has no slot left.  The n frames are what kmalloc of  *)
(* the image added to the kernel heap, which never shrinks.                *)
RunPathRefused(result, n) ==
    /\ mode = "user"
    /\ n <= free_pages
    /\ sysret(result)
    /\ free_pages' = free_pages - n
    /\ UNCHANGED <<processes, next_pid, left>>

(* SYSCALL_APP_RUN_PATH when the load fails: the pid and the frames are    *)
(* spent and the slot is EMPTY, whatever it was before.                    *)
RunPathLoadFails(img, n) ==
    /\ mode = "user"
    /\ next_pid < MaxPid
    /\ n <= free_pages
    /\ ~load_succeeds(img, free_pages - n)
    /\ \E s \in Slots :
          /\ first_usable(s)
          /\ processes' = emptied(processes, s)
    /\ free_pages' = free_pages - n - load_takes(img, free_pages - n)
    /\ next_pid' = next_pid + 1
    /\ sysret(USER_ERR_INVAL)
    /\ UNCHANGED left

(* scheduler_run_process_blocking of slot s of table p: the caller's       *)
(* registers go on the stack of blocking runs and the child is entered.    *)
run_process_blocking(s, p) ==
    IF current = Null \/ blocking_run_depth >= MaxProcesses
    THEN /\ mode' = "broken"
         /\ processes' = p
         /\ UNCHANGED <<current, stack, launches, cr3, cpu>>
    ELSE /\ blocking_runs' = [blocking_runs EXCEPT ![blocking_run_depth] =
               [parent |-> current,
                regs |-> registers_from_syscall_frame(SyscallFrame(cpu))]]
         /\ blocking_run_depth' = blocking_run_depth + 1
         /\ current' = s
         /\ enter_current(s, marked(p, current, "READY", "BLOCKED"))

(* SYSCALL_APP_RUN_PATH when the child is loaded: it starts in the first   *)
(* usable slot, in its parent's working directory.                         *)
RunPathLaunches(img, n) ==
    /\ mode = "user"
    /\ next_pid < MaxPid
    /\ n <= free_pages
    /\ load_succeeds(img, free_pages - n)
    /\ \E s \in Slots :
          /\ first_usable(s)
          /\ left' = [left EXCEPT ![s] = entered(ImageRegs(img))]
          /\ UNCHANGED return_context
          /\ run_process_blocking(s, [processes EXCEPT ![s] =
                 loaded_process(img, next_pid, free_pages - n,
                                processes[current].cwd)])
    /\ free_pages' = free_pages - n - load_takes(img, free_pages - n)
    /\ next_pid' = next_pid + 1
    /\ UNCHANGED <<rax, ticks, user_preemptions, exits, last_exit_status>>

(* Mutant: the stack of runs is not looked at.                             *)
always_top == TRUE

(* scheduler_finish_blocking_exit finds nobody to return to.               *)
no_parent == blocking_run_depth # 0 => blocking_runs[popped].parent = Null

exited(p, s) == marked(p, s, "EXITED", "EXITED")

(* Mutant: the status recorded at the exit before this one.                *)
stale_status == last_exit_status

(* What the program passes to SYSCALL_EXIT, in its first argument.         *)
exit_status == Status[SyscallFrame(cpu).arg0]

(* SYSCALL_EXIT of a launched process: scheduler_finish_blocking_exit pops *)
(* the stack and iretq returns to the parent, the status in its rax.       *)
SysExitToParent(status) ==
    /\ mode = "user"
    /\ blocking_run_depth # 0
    /\ LET run == blocking_runs[popped]
           frame == syscall_frame_from_registers(run.regs)
       IN  /\ run.parent # Null
           /\ processes' = marked(exited(processes, current), run.parent,
                                  "RUNNING", "RUNNING")
           /\ current' = run.parent
           /\ cr3' = activated(processes, run.parent)
           /\ cpu' = InterruptFrame(frame)
    /\ blocking_run_depth' = popped
    /\ blocking_runs' = [blocking_runs EXCEPT ![popped] = NoRun]
    /\ rax' = status
    /\ exits' = exits + 1
    /\ last_exit_status' = status
    /\ left' = [left EXCEPT ![current] = KernelContext]
    /\ UNCHANGED <<mode, memory, return_context, ticks, user_preemptions,
                   launches>>

(* SYSCALL_EXIT with no parent to return to: scheduler_exit_current leaves *)
(* user mode and continues in userspace_launch_init.                       *)
SysExitToKernel(status) ==
    /\ mode = "user"
    /\ no_parent
    /\ mode' = IF return_context # "NULL" THEN "returned" ELSE "broken"
    /\ processes' = exited(processes, current)
    /\ current' = Null
    /\ cr3' = 0
    /\ cpu' = KernelContext
    /\ IF blocking_run_depth = 0
       THEN UNCHANGED stack
       ELSE /\ blocking_run_depth' = popped
            /\ blocking_runs' = [blocking_runs EXCEPT ![popped] = NoRun]
    /\ exits' = exits + 1
    /\ last_exit_status' = status
    /\ UNCHANGED <<memory, return_context, rax, ticks,
                   user_preemptions, launches, left>>

SysExit == \E status \in {exit_status} : SysExitToParent(status) \/ SysExitToKernel(status)

(* kmain after userspace_launch_init returns.                              *)
KmainEnds ==
    /\ mode = "returned"
    /\ mode' = "init_exited"
    /\ UNCHANGED <<processes, memory, current, return_context, stack, cr3, cpu,
                   rax, counters, left>>

(* panic and the exception handler never return.                           *)
Halted == mode \in Stopped /\ UNCHANGED vars

RunPath ==
    \/ \E result \in {USER_ERR_FAULT, USER_ERR_INVAL}, n \in Growth :
          RunPathRefused(result, n)
    \/ \E img \in Image, n \in Growth :
          RunPathLoadFails(img, n) \/ RunPathLaunches(img, n)

Next ==
    \/ \E readable \in BOOLEAN : UserspaceInit(readable)
    \/ TimerWaitFails
    \/ PrepareLaunch
    \/ EnterInit
    \/ TimerIrq
    \/ \E tag \in Tags : UserCompute(tag)
    \/ UserFault
    \/ \E result \in Results, n \in Growth : SysOther(result, n)
    \/ \E dir \in Dirs : SysChdir(dir)
    \/ RunPath
    \/ SysExit
    \/ KmainEnds
    \/ Halted

Spec == Init /\ [][Next]_vars

(* kmain is straight-line code but for one wait of bounded spins, so it    *)
(* gets to its end.                                                        *)
KernelFairness == /\ WF_vars(\E readable \in BOOLEAN : UserspaceInit(readable))
                  /\ WF_vars(TimerWaitFails \/ PrepareLaunch)
                  /\ WF_vars(EnterInit)
                  /\ WF_vars(KmainEnds)

(* An assumption on the programs, not on the kernel: no program computes   *)
(* or calls for ever, each one asks to exit in the end.                    *)
ProgramsExit == WF_vars(SysExit)

FairSpec == Spec /\ KernelFairness /\ ProgramsExit

-----------------------------------------------------------------------------
(* Properties.                                                             *)

Live == {s \in Slots : processes[s].state \in {"READY", "RUNNING"}}
Depths == 0 .. blocking_run_depth - 1
Parent(d) == blocking_runs[d].parent
Suspended == {Parent(d) : d \in Depths}

Process == [state : ProcessStates, thread : ThreadStates, pid : Nat,
            pml4 : Nat, regs : Contexts, cwd : Dirs \cup {"/"}]
Run == [parent : Slots \cup {Null}, regs : Contexts]

(* Every variable has the shape its C declaration gives it; the stack of   *)
(* blocking runs never overruns its array and points into the table.       *)
TypeOK ==
    /\ mode \in Modes
    /\ processes \in [Slots -> Process]
    /\ next_pid \in Nat
    /\ free_pages \in 0 .. TotalPages
    /\ current \in Slots \cup {Null}
    /\ return_context \in {"NULL", "init"}
    /\ blocking_runs \in [Slots -> Run]
    /\ blocking_run_depth \in 0 .. MaxProcesses
    /\ cr3 \in Nat
    /\ cpu \in Contexts
    /\ rax \in Int
    /\ ticks \in Nat /\ user_preemptions \in Nat
    /\ launches \in Nat /\ exits \in Nat /\ last_exit_status \in Int
    /\ left \in [Slots -> Contexts]

(* While user code runs, the processes form one chain: the suspended ones  *)
(* are distinct, each READY with a BLOCKED thread, the running one is not  *)
(* among them, init is at the bottom, and every other slot is free for a   *)
(* new process.                                                            *)
RunChain ==
    mode = "user" =>
        /\ current \in Slots
        /\ processes[current].state = "RUNNING"
        /\ processes[current].thread = "RUNNING"
        /\ \A d \in Depths :
              /\ Parent(d) \in Slots \ {current}
              /\ processes[Parent(d)].state = "READY"
              /\ processes[Parent(d)].thread = "BLOCKED"
              /\ \A e \in Depths : Parent(d) = Parent(e) => d = e
        /\ IF blocking_run_depth = 0 THEN current = 0 ELSE Parent(0) = 0
        /\ Live = Suspended \cup {current}

(* Until init is entered it is the one process of the table and ready to   *)
(* run, interrupts or not; from then on a return context is recorded.      *)
LaunchReady ==
    /\ mode = "boot" => Live = {}
    /\ mode \in {"waiting", "prepared"} =>
          /\ Live = {0}
          /\ processes[0].state = "READY" /\ processes[0].thread = "READY"
    /\ mode \in {"boot", "waiting"} => current = Null
    /\ mode = "prepared" => current = 0
    /\ mode \in {"prepared", "user"} => return_context = "init"
    /\ mode \in {"boot", "waiting", "prepared", "returned"} => blocking_run_depth = 0

(* No panic() inside the launch and exit paths is reachable: a launch that *)
(* found a slot finds room on the stack of blocking runs, and an exit      *)
(* finds a parent or the kernel's return context.                          *)
NeverBroken == mode # "broken"

(* A process gets back every register it left: a system call, a child that *)
(* ran in between, a nested child, or a timer interrupt, even one between  *)
(* scheduler_prepare_launch and the first instruction of init, is          *)
(* invisible in the registers other than rax.                              *)
ContextPreserved == mode = "user" => cpu = left[current]

(* What makes ContextPreserved inductive: the register file a process      *)
(* will be given when it is launched or resumed is the one it left.        *)
SavedContexts ==
    /\ mode \in {"waiting", "prepared"} => entered(processes[0].regs) = left[0]
    /\ mode = "user" => \A d \in Depths : blocking_runs[d].regs = left[Parent(d)]

(* User code runs in its own address space, and no two processes that can  *)
(* run again share one.                                                    *)
AddressSpaceOwned ==
    /\ mode = "user" => cr3 = processes[current].pml4 /\ cr3 # 0
    /\ \A s, t \in Live : processes[s].pml4 = processes[t].pml4 => s = t

(* What makes AddressSpaceOwned inductive: a live address space is a frame *)
(* that has left the free list, which no later load can be given.          *)
FramesSpent ==
    \A s \in Live : processes[s].pml4 \in 1 .. TotalPages - free_pages

(* As long as a process is suspended nothing changes in its slot: no other *)
(* process is loaded there, its directory stays, its saved registers and   *)
(* those of the runs below it stay.                                        *)
SuspendedUntouched ==
    [][\A d \in Depths : d < blocking_run_depth' =>
          /\ blocking_runs'[d] = blocking_runs[d]
          /\ processes'[Parent(d)] = processes[Parent(d)]]_vars

(* Every suspended process runs again, unless a program faults first and   *)
(* takes the machine down.                                                 *)
SuspendedResumes ==
    \A s \in Slots :
        (s \in Suspended) ~> (mode = "exception" \/ (mode = "user" /\ current = s))

(* The kernel does not wait for ever: it starts init or reports that it    *)
(* cannot.                                                                 *)
InitStarts == <>(mode \in {"user", "no_init", "no_timer"})

(* The chain as a stack of procedure calls.                                *)
Frames ==
    IF mode # "user" THEN <<>>
    ELSE [i \in 1 .. blocking_run_depth + 1 |->
            IF i <= blocking_run_depth
            THEN [pid |-> processes[Parent(i - 1)].pid,
                  regs |-> blocking_runs[i - 1].regs]
            ELSE [pid |-> processes[current].pid, regs |-> cpu]]

Calls == INSTANCE RunStack WITH
            frames <- Frames,
            issued <- next_pid - 1,
            result <- rax,
            stopped <- mode \in Stopped \cup {"returned"}

(* Launching and exiting keep the promise RunStack makes: strict nesting,  *)
(* a fresh pid for every program, and a caller that finds its registers    *)
(* unchanged and in rax the status its own child had in rdi when it        *)
(* exited, or an error when a launch that took a pid started nothing.      *)
RunsLikeCalls == Calls!Spec

=============================================================================
