------------------------------ MODULE Scheduler ------------------------------
(***************************************************************************)
(* The process scheduler of aenix and the system calls that drive it:      *)
(* kernel/scheduler.c, the process system calls of kernel/syscall.c, the   *)
(* context switches of scheduler_asm.s and interrupt_asm.s, and start_init *)
(* of kmain.c.                                                             *)
(*                                                                         *)
(* There is one CPU.  What makes the code hard is that system calls run    *)
(* with interrupts ENABLED (the gate of int 0xAE is a trap gate and the    *)
(* cli of handle_syscall is commented out), so a PIT interrupt may strike  *)
(* between any two labelled steps of a system call, save its kernel        *)
(* context and run another process, which may enter the same code.         *)
(* A kernel step is atomic here exactly when the code runs it with         *)
(* interrupts off, or when it only touches the process's own ps_t.         *)
(***************************************************************************)
EXTENDS Integers, Sequences, FiniteSets

CONSTANTS
    Ps,                      \* the ps_t structs the kernel heap has room for
    NULL,                    \* the null pointer
    Tags,                    \* user mode program points (values of eip)
    ENTRY,                   \* the entry point of a freshly loaded program
    Calls,                   \* the system calls the user programs make
    SCHEDULER_PIT_INTERVAL,  \* ms between two PIT interrupts
    SCHEDULER_TIME_SLICE,    \* ms a process may run
    MAX_OOM                  \* bound: list elements kmalloc refuses to allocate

\* Where a kernel context can be: the system calls, the steps inside them that
\* a reschedule can separate, the boot thread, and the places that never end.
Syscalls == {"sys_other", "sys_execve", "sys_fork", "sys_yield", "sys_exit",
             "sys_wait"}

Labels == Syscalls \cup
          {"process_clone", "add", "add_first", "add_link", "add_end",
           "switch_execve", "wait_loop",
           "start_init", "boot_schedule", "hang", "halt", "fault"}

ASSUME NULLAssumption == NULL \notin Ps
ASSUME PsAssumption == IsFiniteSet(Ps)
ASSUME TagsAssumption == ENTRY \in Tags /\ Tags \cap Labels = {}
ASSUME CallsAssumption == Calls \subseteq Syscalls
ASSUME SliceAssumption == /\ SCHEDULER_PIT_INTERVAL \in Nat \ {0}
                          /\ SCHEDULER_TIME_SLICE \in Nat \ {0}
                          /\ MAX_OOM \in Nat

VARIABLES
    runnable_pss,  \* ps_list_t: start, end, and the next field of the elements
    zombie_pss,    \* the zombie list: it is only ever appended to and searched
    allocated,     \* the ps_t structs that are kmalloc'ed
    id,            \* ps->id
    parent_id,     \* ps->parent_id
    user_mode,     \* ps->user_mode
    current,       \* ps->current
    cpu,           \* the registers of the CPU
    cr3,           \* whose page directory and kernel stack (TSS) are loaded
    kstack,        \* the locals of the system call on each kernel stack
    ms,            \* time used of the running slice
    oom,           \* how often kmalloc refused a list element
    windows,       \* history: critical sections a reschedule has struck
    lost,          \* history: processes that failed to get a list element
    left           \* history: how p last left user mode

list == <<runnable_pss, zombie_pss>>
procs == <<allocated, id, parent_id>>
history == <<windows, lost, left>>
vars == <<runnable_pss, zombie_pss, allocated, id, parent_id, user_mode, current,
          cpu, cr3, kstack, ms, oom, windows, lost, left>>

-----------------------------------------------------------------------------
(***************************************************************************)
(* Registers and stacks.  eip is a program point of the user program or a  *)
(* label of the kernel; esp names the kernel stack in use (NULL: the boot  *)
(* stack, or a user stack); iflag is the interrupt flag of eflags.         *)
(***************************************************************************)
Ptr == Ps \cup {NULL}

UserContexts == [cs : {"user"}, eip : Tags, eax : Int, esp : {NULL}, iflag : {TRUE}]
KernelContexts == [cs : {"kernel"}, eip : Labels, eax : {0}, esp : Ptr, iflag : BOOLEAN]
Registers == UserContexts \cup KernelContexts

UserRegisters(tag, eax) ==
    [cs |-> "user", eip |-> tag, eax |-> eax, esp |-> NULL, iflag |-> TRUE]

KernelRegisters(label, stack, flag) ==
    [cs |-> "kernel", eip |-> label, eax |-> 0, esp |-> stack, iflag |-> flag]

\* ps: the result of scheduler_get_current_process; pid, new: locals of sys_fork
\* and sys_execve; end: pss->end as loaded for pss->end->next = ele; torn: a
\* reschedule struck while the call was walking the process lists.
Locals == [ps : Ptr, pid : Nat, new : Ptr, end : Ptr, torn : BOOLEAN]

NoLocals == [ps |-> NULL, pid |-> 0, new |-> NULL, end |-> NULL, torn |-> FALSE]

\* The eip and eax with which a process left user mode (or was created), and
\* whether it must find eax unchanged: it did not ask for a system call.
Departures == [eip : Tags, eax : Int, async : BOOLEAN]

Departure(r, async) == [eip |-> r.eip, eax |-> r.eax, async |-> async]

At(label) == cpu.cs = "kernel" /\ cpu.eip = label
My == kstack[cpu.esp]
Goto(label) == cpu' = [cpu EXCEPT !.eip = label]

-----------------------------------------------------------------------------
(***************************************************************************)
(* The run queue.  An element of the list is identified with its process.  *)
(***************************************************************************)

\* *p = v, where a store through NULL hits page 0, the code page of the process
\* that is being removed.
Store(next, p, v) == IF p = NULL THEN next ELSE [next EXCEPT ![p] = v]

scheduler_get_current_process == runnable_pss.start

\* scheduler_add_process without interruption: the element exists.
AddProcess(L, p) ==
    LET fresh == [L.next EXCEPT ![p] = NULL] IN
    [start |-> IF L.start = NULL THEN p ELSE L.start,
     end   |-> p,
     next  |-> IF L.start = NULL THEN fresh ELSE Store(fresh, L.end, p)]

\* scheduler_remove_process for the head: its callers pass the current process,
\* which is the head, so the search ends at the first element.
RemoveHead(L) ==
    [start |-> L.next[L.start],
     end   |-> IF L.end = L.start THEN NULL ELSE L.end,
     next  |-> L.next]

\* Mutant: start->next = NULL is forgotten.
RotateKeepsNext(L) ==
    IF L.start = NULL \/ L.next[L.start] = NULL
    THEN L
    ELSE [start |-> L.next[L.start],
          end   |-> L.start,
          next  |-> Store(L.next, L.end, L.start)]

\* scheduler_get_and_rotate_runnable_process
Rotate(L) ==
    IF L.start = NULL \/ L.next[L.start] = NULL
    THEN L
    ELSE [start |-> L.next[L.start],
          end   |-> L.start,
          next  |-> Store([L.next EXCEPT ![L.start] = NULL], L.end, L.start)]

\* What the walks over the list visit: the processes reachable from start, which are
\* those in every set that has the first and with each process the next.
Closed(S) == /\ runnable_pss.start \in S \cup {NULL}
             /\ \A p \in S : runnable_pss.next[p] \in S \cup {NULL}
Queued == {p \in Ps : \A S \in SUBSET Ps : Closed(S) => p \in S}

\* max_id_in_ps_list of both lists is m, when the walk saw the processes seen.
MaxId(seen, m) == /\ m \in {id[p] : p \in seen} \cup {0}
                  /\ \A p \in seen : id[p] <= m

\* scheduler_num_children and scheduler_has_any_child_terminated
Children(S, p) == {c \in S : parent_id[c] = id[p]}

\* What a walk over the runnable list saw: everything, unless a reschedule
\* rotated the list under it; then some of the elements may be missed.
SeenByWalk == IF My.torn THEN SUBSET Queued ELSE {Queued}

\* Mutant: the page directory of the process that was running stays loaded.
ScheduleKeepsPdt(L, back) ==
    LET R == Rotate(L) IN
    /\ runnable_pss' = R
    /\ IF R.start = NULL
       THEN cpu' = back /\ UNCHANGED cr3
       ELSE cpu' = current'[R.start] /\ cr3' = L.start

\* scheduler_schedule on the list L: rotate, load TSS and page directory, and
\* resume the head.  The call only returns, to the context back, when the list
\* is empty.  Reads the new value of current.
Schedule(L, back) ==
    LET R == Rotate(L) IN
    /\ runnable_pss' = R
    /\ IF R.start = NULL
       THEN cpu' = back /\ UNCHANGED cr3
       ELSE cpu' = current'[R.start] /\ cr3' = R.start

-----------------------------------------------------------------------------
(***************************************************************************)
(* The PIT interrupt.                                                      *)
(***************************************************************************)
AddWindow == {"add_link", "add_end"}
PidWindow == {"sys_fork", "process_clone", "add", "add_link", "add_end"}
Window == IF cpu.cs = "user" THEN {}
          ELSE (IF cpu.esp = NULL THEN {"boot"} ELSE {})
               \cup (IF cpu.eip \in AddWindow THEN {"add"} ELSE {})
               \cup (IF cpu.eip \in PidWindow THEN {"pid"} ELSE {})

\* Mutant: the kernel context is also stored in user_mode.
SaveRegistersInBoth(ps) ==
    /\ user_mode' = [user_mode EXCEPT ![ps] = cpu]
    /\ current' = [current EXCEPT ![ps] = cpu]

\* Mutant: ps->current = ps->user_mode is done before user_mode is updated.
SaveRegistersTooEarly(ps) ==
    /\ user_mode' = IF cpu.cs = "user" THEN [user_mode EXCEPT ![ps] = cpu]
                                       ELSE user_mode
    /\ current' = [current EXCEPT ![ps] = IF cpu.cs = "user" THEN user_mode[ps] ELSE cpu]

\* scheduler_update_user_registers and scheduler_update_kernel_registers
SaveRegisters(ps) ==
    /\ user_mode' = IF cpu.cs = "user" THEN [user_mode EXCEPT ![ps] = cpu]
                                       ELSE user_mode
    /\ current' = [current EXCEPT ![ps] = cpu]

scheduler_schedule_on_interrupt ==
    /\ windows' = windows \cup Window
    /\ IF scheduler_get_current_process = NULL
       THEN \* the registers are stored through NULL
            /\ cpu' = KernelRegisters("fault", cpu.esp, FALSE)
            /\ UNCHANGED <<runnable_pss, user_mode, current, cr3, kstack, left>>
       ELSE /\ SaveRegisters(scheduler_get_current_process)
            /\ left' = IF cpu.cs = "user" THEN [left EXCEPT ![cr3] = Departure(cpu, TRUE)]
                                            ELSE left
            /\ kstack' = IF cpu.eip \in {"sys_fork", "sys_wait"}
                         THEN [kstack EXCEPT ![cpu.esp].torn = TRUE]
                         ELSE kstack
            /\ Schedule(runnable_pss, cpu)
    /\ UNCHANGED <<zombie_pss, procs, oom, lost>>

scheduler_handle_pit_interrupt ==
    /\ cpu.iflag
    /\ IF ms + SCHEDULER_PIT_INTERVAL >= SCHEDULER_TIME_SLICE
       THEN ms' = 0 /\ scheduler_schedule_on_interrupt
       ELSE /\ ms' = ms + SCHEDULER_PIT_INTERVAL
            /\ UNCHANGED <<list, procs, user_mode, current, cpu, cr3, kstack,
                           oom, history>>

-----------------------------------------------------------------------------
(***************************************************************************)
(* User mode and the entry into and the return from a system call.         *)
(***************************************************************************)
UserStep ==
    /\ cpu.cs = "user"
    /\ \E tag \in Tags \ {cpu.eip} : cpu' = UserRegisters(tag, 0)
    /\ UNCHANGED <<list, procs, user_mode, current, cr3, kstack, ms, oom, history>>

\* handle_syscall and the first half of syscall_handle_interrupt: the processor
\* switches to the kernel stack of the TSS, the handler saves the registers.
handle_syscall ==
    /\ cpu.cs = "user"
    /\ \E syscall \in Calls : cpu' = KernelRegisters(syscall, cr3, cpu.iflag)
    /\ user_mode' = [user_mode EXCEPT ![scheduler_get_current_process] = cpu]
    /\ kstack' = [kstack EXCEPT ![cr3].ps = scheduler_get_current_process]
    /\ left' = [left EXCEPT ![cr3] = Departure(cpu, FALSE)]
    /\ UNCHANGED <<list, procs, current, cr3, ms, oom, windows, lost>>

\* the second half: interrupts off, store the result, run_process_in_user_mode
Return(eax) ==
    /\ user_mode' = [user_mode EXCEPT ![My.ps].eax = eax]
    /\ cpu' = [user_mode[My.ps] EXCEPT !.eax = eax]

\* sys_open, sys_read, sys_write and a number that is no system call: they leave
\* the scheduler's state alone.
sys_other ==
    /\ At("sys_other")
    /\ \E eax \in {-1, 0} : Return(eax)
    /\ UNCHANGED <<list, procs, current, cr3, kstack, ms, oom, history>>

-----------------------------------------------------------------------------
(***************************************************************************)
(* sys_fork.                                                               *)
(***************************************************************************)
\* Mutant: the zombies keep their ids, but the next pid overlooks them.
NextPidWithoutZombies ==
    /\ At("sys_fork")
    /\ \E seen \in SeenByWalk, m \in {id[p] : p \in Ps} \cup {0} :
          /\ MaxId(seen, m)
          /\ kstack' = [kstack EXCEPT ![cpu.esp].pid = m + 1,
                                      ![cpu.esp].ps = scheduler_get_current_process,
                                      ![cpu.esp].torn = FALSE]
    /\ Goto("process_clone")
    /\ UNCHANGED <<list, procs, user_mode, current, cr3, ms, oom, history>>

sys_fork ==
    /\ At("sys_fork")
    /\ \E seen \in SeenByWalk, m \in {id[p] : p \in Ps} \cup {0} :
          /\ MaxId(seen \cup zombie_pss, m)
          /\ kstack' = [kstack EXCEPT ![cpu.esp].pid = m + 1,
                                      ![cpu.esp].ps = scheduler_get_current_process,
                                      ![cpu.esp].torn = FALSE]
    /\ Goto("process_clone")
    /\ UNCHANGED <<list, procs, user_mode, current, cr3, ms, oom, history>>

\* process_clone and the two assignments after it
process_clone(new) ==
    LET child == [user_mode[My.ps] EXCEPT !.eax = 0] IN
    /\ At("process_clone")
    /\ new \notin allocated
    /\ allocated' = allocated \cup {new}
    /\ id' = [id EXCEPT ![new] = My.pid]
    /\ parent_id' = [parent_id EXCEPT ![new] = id[My.ps]]
    /\ user_mode' = [user_mode EXCEPT ![new] = child]
    /\ current' = [current EXCEPT ![new] = child]
    /\ left' = [left EXCEPT ![new] = Departure(child, TRUE)]
    /\ kstack' = [kstack EXCEPT ![cpu.esp].new = new]
    /\ Goto("add")
    /\ UNCHANGED <<list, cr3, ms, oom, windows, lost>>

process_clone_fails ==
    /\ At("process_clone")
    /\ Return(-1)
    /\ UNCHANGED <<list, procs, current, cr3, kstack, ms, oom, history>>

\* What follows scheduler_add_runnable_process: sys_fork ignores its result and
\* returns the pid, start_init goes on to schedule.
AddReturns ==
    IF cpu.esp = NULL
    THEN /\ Goto("boot_schedule")
         /\ UNCHANGED user_mode
    ELSE Return(My.pid)

\* scheduler_add_process: kmalloc, fill the element, test start and load end
scheduler_add_process ==
    /\ At("add")
    /\ runnable_pss' = [runnable_pss EXCEPT !.next[My.new] = NULL]
    /\ kstack' = [kstack EXCEPT ![cpu.esp].end = runnable_pss.end]
    /\ Goto(IF runnable_pss.start = NULL THEN "add_first" ELSE "add_link")
    /\ UNCHANGED <<zombie_pss, procs, user_mode, current, cr3, ms, oom, history>>

\* the kmalloc of scheduler_add_process returns NULL: the process is never run
scheduler_add_process_fails ==
    /\ At("add")
    /\ oom < MAX_OOM
    /\ oom' = oom + 1
    /\ lost' = lost \cup {My.new}
    /\ AddReturns
    /\ UNCHANGED <<list, procs, current, cr3, kstack, ms, windows, left>>

\* pss->start = ele
add_first ==
    /\ At("add_first")
    /\ runnable_pss' = [runnable_pss EXCEPT !.start = My.new]
    /\ Goto("add_end")
    /\ UNCHANGED <<zombie_pss, procs, user_mode, current, cr3, kstack, ms, oom, history>>

\* pss->end->next = ele, with the pss->end that was loaded before
add_link ==
    /\ At("add_link")
    /\ runnable_pss' = [runnable_pss EXCEPT !.next = Store(@, My.end, My.new)]
    /\ Goto("add_end")
    /\ UNCHANGED <<zombie_pss, procs, user_mode, current, cr3, kstack, ms, oom, history>>

\* pss->end = ele, and return to the caller
add_end ==
    /\ At("add_end")
    /\ runnable_pss' = [runnable_pss EXCEPT !.end = My.new]
    /\ AddReturns
    /\ UNCHANGED <<zombie_pss, procs, current, cr3, kstack, ms, oom, history>>

-----------------------------------------------------------------------------
(***************************************************************************)
(* sys_execve, sys_exit: the second part of both runs on the shared kernel *)
(* stack with interrupts off.                                              *)
(***************************************************************************)
\* process_create_replacement
sys_execve(new) ==
    LET ps == scheduler_get_current_process IN
    /\ At("sys_execve")
    /\ new \notin allocated
    /\ allocated' = allocated \cup {new}
    /\ id' = [id EXCEPT ![new] = id[ps]]
    /\ parent_id' = [parent_id EXCEPT ![new] = parent_id[ps]]
    /\ user_mode' = [user_mode EXCEPT ![new] = UserRegisters(ENTRY, 0)]
    /\ current' = [current EXCEPT ![new] = UserRegisters(ENTRY, 0)]
    /\ left' = [left EXCEPT ![new] = Departure(UserRegisters(ENTRY, 0), TRUE)]
    /\ kstack' = [kstack EXCEPT ![cpu.esp].new = new]
    /\ Goto("switch_execve")
    /\ UNCHANGED <<list, cr3, ms, oom, windows, lost>>

sys_execve_fails ==
    /\ At("sys_execve")
    /\ Return(-1)
    /\ UNCHANGED <<list, procs, current, cr3, kstack, ms, oom, history>>

\* The jmp $ behind the continuation: interrupts are off for ever.
Halt == KernelRegisters("halt", NULL, FALSE)

\* continue_execve: scheduler_replace_process and scheduler_schedule
continue_execve ==
    LET old == scheduler_get_current_process IN
    /\ At("switch_execve")
    /\ allocated' = allocated \ {old}
    /\ UNCHANGED current
    /\ \/ /\ Schedule(AddProcess(RemoveHead(runnable_pss), My.new), Halt)
          /\ UNCHANGED <<oom, lost>>
       \/ /\ oom < MAX_OOM
          /\ oom' = oom + 1
          /\ lost' = lost \cup {My.new}
          /\ Schedule(RemoveHead(runnable_pss), Halt)
    /\ UNCHANGED <<zombie_pss, id, parent_id, user_mode, kstack, ms, windows, left>>

\* sys_exit and continue_exit: scheduler_terminate_process, scheduler_schedule
sys_exit ==
    LET ps == scheduler_get_current_process IN
    /\ At("sys_exit")
    /\ UNCHANGED current
    /\ Schedule(RemoveHead(runnable_pss), Halt)
    /\ \/ /\ zombie_pss' = zombie_pss \cup {ps}
          /\ UNCHANGED <<oom, lost>>
       \/ /\ oom < MAX_OOM
          /\ oom' = oom + 1
          /\ lost' = lost \cup {ps}
          /\ UNCHANGED zombie_pss
    /\ UNCHANGED <<procs, user_mode, kstack, ms, windows, left>>

-----------------------------------------------------------------------------
(***************************************************************************)
(* sys_yield and sys_wait.                                                 *)
(***************************************************************************)
sys_yield ==
    LET ps == scheduler_get_current_process IN
    /\ At("sys_yield")
    /\ user_mode' = [user_mode EXCEPT ![ps].eax = 0]
    /\ current' = [current EXCEPT ![ps] = user_mode'[ps]]
    /\ Schedule(runnable_pss, [user_mode[My.ps] EXCEPT !.eax = -1])
    /\ UNCHANGED <<zombie_pss, procs, kstack, ms, oom, history>>

\* the test of scheduler_num_children
sys_wait ==
    /\ At("sys_wait")
    /\ \E seen \in SeenByWalk :
          IF Children(zombie_pss, scheduler_get_current_process) = {}
             /\ Children(seen, scheduler_get_current_process) = {}
          THEN Return(-1)
          ELSE Goto("wait_loop") /\ UNCHANGED user_mode
    /\ kstack' = [kstack EXCEPT ![cpu.esp].torn = FALSE]
    /\ UNCHANGED <<list, procs, current, cr3, ms, oom, history>>

\* the loop: return when a child is a zombie ...
sys_wait_returns ==
    /\ At("wait_loop")
    /\ Children(zombie_pss, My.ps) # {}
    /\ Return(0)
    /\ UNCHANGED <<list, procs, current, cr3, kstack, ms, oom, history>>

\* Mutant: the loop waits without giving up the CPU.
WaitWithoutSchedule ==
    /\ At("wait_loop")
    /\ Children(zombie_pss, My.ps) = {}
    /\ cpu' = [cpu EXCEPT !.iflag = FALSE]
    /\ UNCHANGED <<list, procs, user_mode, current, cr3, kstack, ms, oom, history>>

\* ... or snapshot_and_schedule, which turns interrupts off before it saves
\* eflags: the loop is resumed, and goes on, with interrupts off.
snapshot_and_schedule ==
    /\ At("wait_loop")
    /\ Children(zombie_pss, My.ps) = {}
    /\ current' = [current EXCEPT ![My.ps] =
                     KernelRegisters("wait_loop", cpu.esp, FALSE)]
    /\ Schedule(runnable_pss, KernelRegisters("halt", cpu.esp, FALSE))
    /\ UNCHANGED <<zombie_pss, procs, user_mode, kstack, ms, oom, history>>

-----------------------------------------------------------------------------
(***************************************************************************)
(* The boot thread: kinit has enabled interrupts, start_init creates init, *)
(* queues it and calls the scheduler.                                      *)
(***************************************************************************)
start_init(init) ==
    /\ At("start_init")
    /\ allocated' = allocated \cup {init}
    /\ id' = [id EXCEPT ![init] = 1]
    /\ parent_id' = [parent_id EXCEPT ![init] = 0]
    /\ user_mode' = [user_mode EXCEPT ![init] = UserRegisters(ENTRY, 0)]
    /\ current' = [current EXCEPT ![init] = UserRegisters(ENTRY, 0)]
    /\ left' = [left EXCEPT ![init] = Departure(UserRegisters(ENTRY, 0), TRUE)]
    /\ kstack' = [kstack EXCEPT ![NULL].new = init]
    /\ Goto("add")
    /\ UNCHANGED <<list, cr3, ms, oom, windows, lost>>

start_init_fails ==
    /\ At("start_init")
    /\ Goto("hang")
    /\ UNCHANGED <<list, procs, user_mode, current, cr3, kstack, ms, oom, history>>

\* scheduler_schedule, called with interrupts on; if it returns, kmain returns
\* into the loop of the loader.
boot_schedule ==
    /\ At("boot_schedule")
    /\ UNCHANGED current
    /\ Schedule(runnable_pss, KernelRegisters("hang", NULL, TRUE))
    /\ UNCHANGED <<zombie_pss, procs, user_mode, kstack, ms, oom, history>>

\* The loops of the kernel that do nothing: jmp $, the loader's hang, and the
\* page fault that is taken again and again.
Stuck == cpu.cs = "kernel" /\ cpu.eip \in {"halt", "hang", "fault"}
Spin == Stuck /\ UNCHANGED vars

-----------------------------------------------------------------------------
Init ==
    /\ runnable_pss = [start |-> NULL, end |-> NULL, next |-> [p \in Ps |-> NULL]]
    /\ zombie_pss = {}
    /\ allocated = {}
    /\ id = [p \in Ps |-> 0]
    /\ parent_id = [p \in Ps |-> 0]
    /\ user_mode = [p \in Ps |-> UserRegisters(ENTRY, 0)]
    /\ current = [p \in Ps |-> UserRegisters(ENTRY, 0)]
    /\ cpu = KernelRegisters("start_init", NULL, TRUE)
    /\ cr3 = NULL
    /\ kstack = [p \in Ptr |-> NoLocals]
    /\ ms = 0
    /\ oom = 0
    /\ windows = {}
    /\ lost = {}
    /\ left = [p \in Ps |-> Departure(UserRegisters(ENTRY, 0), TRUE)]

KernelStep ==
    \/ sys_other
    \/ sys_fork \/ (\E new \in Ps : process_clone(new)) \/ process_clone_fails
    \/ scheduler_add_process \/ scheduler_add_process_fails
    \/ add_first \/ add_link \/ add_end
    \/ (\E new \in Ps : sys_execve(new)) \/ sys_execve_fails \/ continue_execve
    \/ sys_exit \/ sys_yield
    \/ sys_wait \/ sys_wait_returns \/ snapshot_and_schedule
    \/ (\E init \in Ps : start_init(init)) \/ start_init_fails \/ boot_schedule

Next == \/ scheduler_handle_pit_interrupt
        \/ UserStep
        \/ handle_syscall
        \/ KernelStep
        \/ Spin

\* The CPU always executes the next kernel instruction, and a PIT interrupt that
\* is raised while interrupts are off stays latched in the PIC.
Fairness == WF_vars(KernelStep) /\ SF_vars(scheduler_handle_pit_interrupt)

Spec == Init /\ [][Next]_vars
FairSpec == Spec /\ Fairness

-----------------------------------------------------------------------------
(***************************************************************************)
(* Properties.                                                             *)
(***************************************************************************)
Lists == [start : Ptr, end : Ptr, next : [Ps -> Ptr]]

\* Every variable of the scheduler keeps its type; in particular user_mode always
\* holds a user mode context, also while current holds a kernel context.
TypeOK ==
    /\ runnable_pss \in Lists
    /\ zombie_pss \subseteq Ps
    /\ allocated \subseteq Ps
    /\ id \in [Ps -> Nat]
    /\ parent_id \in [Ps -> Nat]
    /\ user_mode \in [Ps -> UserContexts]
    /\ current \in [Ps -> Registers]
    /\ cpu \in Registers
    /\ cr3 \in Ptr
    /\ kstack \in [Ptr -> Locals]
    /\ ms \in Nat
    /\ oom \in 0..MAX_OOM
    /\ windows \subseteq {"boot", "add", "pid"}
    /\ lost \subseteq Ps
    /\ left \in [Ps -> Departures]

\* scheduler_get_current_process takes the head of the run queue for the process
\* that is running.  That is right whenever a process runs, whatever was
\* preempted where: the head is the process whose page directory is loaded, a
\* system call runs on that process's kernel stack, and the ps it looked up when
\* it started is still that process.
RunningIsHead ==
    /\ cpu.cs = "user" => cr3 \in Ps /\ runnable_pss.start = cr3
    /\ cpu.cs = "kernel" /\ cpu.esp # NULL =>
          cr3 = cpu.esp /\ runnable_pss.start = cr3 /\ My.ps = cr3

\* The list pointers spell the queue q (next fields and start), and end points to
\* its last element or, between the last two stores of scheduler_add_process, to
\* the one before it.
Spells(q) ==
    /\ runnable_pss.start = IF q = <<>> THEN NULL ELSE q[1]
    /\ \A i \in DOMAIN q :
          runnable_pss.next[q[i]] = IF i = Len(q) THEN NULL ELSE q[i+1]
    /\ LET n == IF At("add_end") THEN Len(q) - 1 ELSE Len(q) IN
          /\ runnable_pss.end = IF n < 1 THEN NULL ELSE q[n]
          /\ At("add_end") => Len(q) >= 1 /\ q[Len(q)] = My.new

\* The processes a fork, an execve or the boot thread is about to queue: the
\* local new of the contexts, running or preempted, that have yet to link it.
Contexts == {cpu} \cup {current[p] : p \in Queued \ {cr3}}
Pending == {kstack[r.esp].new : r \in {c \in Contexts : c.cs = "kernel" /\
               c.eip \in {"add", "add_first", "add_link", "switch_execve"}}}

Queues == UNION {{q \in [1..n -> Ps] : \A i, j \in 1..n : q[i] = q[j] => i = j} :
                    n \in 0..Cardinality(Ps)}

\* Unless a reschedule strikes the boot thread or falls between the loads and
\* stores with which scheduler_add_process links an element, the run queue is a well formed list
\* and no process falls out of it: every ps_t is in the queue exactly once, or a
\* zombie, or about to be queued, or one that found no memory for its element.
ListIntact ==
    windows \cap {"add", "boot"} = {} =>
        \E q \in Queues :
            /\ Spells(q)
            /\ LET Q == {q[i] : i \in DOMAIN q} IN
               /\ allocated = Q \cup zombie_pss \cup lost \cup Pending
               /\ Q \cap zombie_pss = {} /\ (Q \cup zombie_pss) \cap lost = {}
               /\ (Q \cup zombie_pss \cup lost) \cap Pending = {}

\* Unless a reschedule strikes a fork between scheduler_next_pid and the end of
\* scheduler_add_process, no two processes, zombies included, have the same id.
UniquePids ==
    windows \cap {"pid", "add"} = {} =>
        \A p, q \in Queued \cup zombie_pss : id[p] = id[q] => p = q

\* A process that is resumed in user mode is resumed where it left it; if it was
\* interrupted it finds its registers as they were, a forked child finds the
\* parent's program point and 0 in eax, a replaced process its entry point.  Nothing
\* is claimed once a reschedule has struck scheduler_add_process, which may then write
\* into an element that was freed.
Resumes == cpu'.cs = "user" /\ (cpu.cs = "kernel" \/ cr3' # cr3)
ContextPreserved ==
    [][(Resumes /\ "add" \notin windows') =>
          /\ cpu'.eip = left[cr3'].eip
          /\ left[cr3'].async => cpu'.eax = left[cr3'].eax]_vars

\* Every queued process gets the CPU again and again, provided that no reschedule
\* strikes inside scheduler_add_process or the boot thread, no element is refused
\* by kmalloc, and from some point on no process exits or replaces itself:
\* scheduler_schedule then rotates away a process that has not run.
NoStarvation ==
    /\ [](windows \cap {"add", "boot"} = {} /\ lost = {})
    /\ <>[][~sys_exit /\ ~continue_execve]_vars
    => \A p \in Ps : p \in Queued ~> (cr3 = p \/ p \notin Queued)

\* scheduler.c says that the schedule moves the "current process (head of list)
\* to end of list": the process behind the running one is the next to run.
NextInLineRuns ==
    [][(cr3 \in Ps /\ cr3' # cr3 /\ runnable_pss.next[cr3] # NULL)
         => (cr3' = runnable_pss.next[cr3])]_vars

\* init waits in a loop until SYS_wait returns -1, to shut the kernel down: a
\* wait that returns 0 has to consume the child it returns for.
WaitConsumesChild ==
    [][sys_wait_returns =>
         \E child \in Children(zombie_pss, My.ps) : child \notin zombie_pss']_vars
=============================================================================
