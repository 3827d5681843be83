------------------------ MODULE SchedulerSafetyProofs ------------------------
(***************************************************************************)
(* Proofs about what the intact run queue of Scheduler is good for, for    *)
(* every finite set of processes: pids are unique, and a process that is   *)
(* resumed in user mode continues where it left it.                        *)
(***************************************************************************)
EXTENDS SchedulerListProofs

-----------------------------------------------------------------------------
(***************************************************************************)
(* A reschedule that strikes the boot thread leaves nothing to be said of  *)
(* the processes: either the kernel faults for ever, or the boot thread,   *)
(* saved in the place of init, is resumed again and again.                 *)
(***************************************************************************)
Struck == "boot" \in windows /\ "add" \notin windows

BootContext(r) == r.cs = "kernel" /\ r.esp = NULL /\ r.eip = "boot_schedule"

BootStuck ==
    \/ cpu.cs = "kernel" /\ cpu.esp = NULL /\ cpu.eip = "fault" /\ ~cpu.iflag
    \/ /\ BootContext(cpu)
       /\ runnable_pss.start # NULL
       /\ runnable_pss.next[runnable_pss.start] = NULL
       /\ BootContext(current[runnable_pss.start])

BootInv == Struck => BootStuck

\* Only the PIT interrupt can strike a window.
LEMMA WindowsStep ==
    ASSUME [Next]_vars
    PROVE  \/ windows' = windows
           \/ scheduler_handle_pit_interrupt /\ scheduler_schedule_on_interrupt
  BY DEF Next, KernelStep, vars, history, Spin, scheduler_handle_pit_interrupt, UserStep,
     handle_syscall, sys_other, sys_fork, process_clone, process_clone_fails,
     scheduler_add_process, scheduler_add_process_fails, add_first, add_link, add_end,
     sys_execve, sys_execve_fails, continue_execve, sys_exit, sys_yield, sys_wait,
     sys_wait_returns, snapshot_and_schedule, start_init, start_init_fails, boot_schedule

\* A list of one process is not changed by the schedule.
LEMMA ScheduleAlone ==
    ASSUME NEW back, Schedule(runnable_pss, back), runnable_pss.start # NULL,
           runnable_pss.next[runnable_pss.start] = NULL
    PROVE  runnable_pss' = runnable_pss /\ cpu' = current'[runnable_pss.start]
  BY DEF Schedule, Rotate

\* The reschedule, from a boot thread that has queued init.
LEMMA StrikeAlone ==
    ASSUME Inv, scheduler_schedule_on_interrupt, BootContext(cpu), runnable_pss.start # NULL,
           runnable_pss.next[runnable_pss.start] = NULL
    PROVE  BootStuck' /\ cpu'.cs = "kernel" /\ runnable_pss' = runnable_pss
<1>1. runnable_pss.start \in Ps
  BY DEF Inv, TypeOK, Lists, Ptr
<1>2. current' = [current EXCEPT ![runnable_pss.start] = cpu] /\ Schedule(runnable_pss, cpu)
  BY DEF scheduler_schedule_on_interrupt, SaveRegisters, scheduler_get_current_process
<1>3. current'[runnable_pss.start] = cpu
  BY <1>1, <1>2 DEF Inv, TypeOK
<1>4. runnable_pss' = runnable_pss /\ cpu' = cpu
  BY <1>2, <1>3, ScheduleAlone
<1> QED
  BY <1>3, <1>4 DEF BootStuck, BootContext

\* What a stuck boot thread can do: nothing, be preempted, or schedule itself.
LEMMA StuckStep ==
    ASSUME Inv, BootStuck, [Next]_vars
    PROVE  /\ BootStuck' /\ cpu'.cs = "kernel"
           /\ UNCHANGED <<runnable_pss, zombie_pss, id>>
<1>1. cpu.cs = "kernel" /\ cpu.eip \in {"fault", "boot_schedule"}
  BY DEF BootStuck, BootContext
<1>2. CASE UNCHANGED vars
  BY <1>1, <1>2 DEF vars, BootStuck, BootContext
<1>3. CASE Spin
  BY <1>1, <1>3 DEF Spin, vars, BootStuck, BootContext
<1>4. CASE scheduler_handle_pit_interrupt
  <2>1. CASE ~(ms + SCHEDULER_PIT_INTERVAL >= SCHEDULER_TIME_SLICE)
    BY <1>1, <1>4, <2>1
       DEF scheduler_handle_pit_interrupt, BootStuck, BootContext, list, procs
  <2>2. CASE ms + SCHEDULER_PIT_INTERVAL >= SCHEDULER_TIME_SLICE
    <3>1. scheduler_schedule_on_interrupt /\ cpu.iflag
      BY <1>4, <2>2 DEF scheduler_handle_pit_interrupt
    <3>2. /\ BootContext(cpu) /\ runnable_pss.start # NULL
          /\ runnable_pss.next[runnable_pss.start] = NULL
      BY <3>1 DEF BootStuck
    <3>3. UNCHANGED <<zombie_pss, id>>
      BY <3>1 DEF scheduler_schedule_on_interrupt, procs
    <3> QED
      BY <3>1, <3>2, <3>3, StrikeAlone
  <2> QED
    BY <2>1, <2>2
<1>5. CASE boot_schedule
  <2>1. /\ BootContext(cpu) /\ runnable_pss.start # NULL
        /\ runnable_pss.next[runnable_pss.start] = NULL
        /\ BootContext(current[runnable_pss.start])
    BY <1>5 DEF boot_schedule, At, BootStuck
  <2>2. /\ current' = current /\ UNCHANGED <<zombie_pss, id>>
        /\ \E back : Schedule(runnable_pss, back)
    BY <1>5 DEF boot_schedule, procs
  <2>3. runnable_pss' = runnable_pss /\ cpu' = current[runnable_pss.start]
    BY <2>1, <2>2, ScheduleAlone
  <2> QED
    BY <2>1, <2>2, <2>3 DEF BootStuck, BootContext
<1>6. CASE UserStep \/ handle_syscall
  BY <1>1, <1>6 DEF UserStep, handle_syscall
<1>7. CASE KernelStep /\ ~boot_schedule
  BY <1>1, <1>7
     DEF KernelStep, At, sys_other, sys_fork, process_clone, process_clone_fails,
     scheduler_add_process, scheduler_add_process_fails, add_first, add_link, add_end,
     sys_execve, sys_execve_fails, continue_execve, sys_exit, sys_yield, sys_wait,
     sys_wait_returns, snapshot_and_schedule, start_init, start_init_fails
<1> QED
  BY <1>2, <1>3, <1>4, <1>5, <1>6, <1>7 DEF Next

\* A step into or from a state in which the boot thread has been struck.
LEMMA StruckStep ==
    ASSUME Inv, ListInv, BootInv, [Next]_vars, Struck'
    PROVE  /\ BootStuck' /\ cpu'.cs = "kernel"
           /\ UNCHANGED <<runnable_pss, zombie_pss, id>>
<1>1. CASE Struck
  BY <1>1, StuckStep DEF BootInv
<1>2. CASE ~Struck
  <2>1. windows' # windows
    BY <1>2 DEF Struck
  <2>2. scheduler_schedule_on_interrupt
    BY <2>1, WindowsStep
  <2>3. windows' = windows \cup Window /\ UNCHANGED <<zombie_pss, id>>
    BY <2>2 DEF scheduler_schedule_on_interrupt, procs
  <2>4. Clean /\ "boot" \in Window /\ "add" \notin Window
    BY <1>2, <2>3 DEF Struck, Clean
  <2>5. cpu.cs = "kernel" /\ cpu.esp = NULL /\ cpu.eip \notin AddWindow
    <3>1. cpu.cs # "user" /\ cpu.esp = NULL /\ cpu.eip \notin AddWindow
      BY <2>4 DEF Window
    <3> QED
      BY <3>1 DEF Inv, TypeOK, Registers, UserContexts, KernelContexts
  <2>6. BootOK
    BY <2>4 DEF ListInv, Orderly
  <2>7. CASE runnable_pss.start = NULL
    <3>1. /\ cpu' = KernelRegisters("fault", NULL, FALSE)
          /\ runnable_pss' = runnable_pss
      BY <2>2, <2>5, <2>7 DEF scheduler_schedule_on_interrupt, scheduler_get_current_process
    <3> QED
      BY <2>3, <3>1 DEF BootStuck, KernelRegisters
  <2>8. CASE runnable_pss.start # NULL
    <3>1. BootContext(cpu) /\ runnable_pss.next[runnable_pss.start] = NULL
      BY <2>5, <2>6, <2>8 DEF BootOK, BootContext, AddWindow
    <3> QED
      BY <2>2, <2>3, <2>8, <3>1, StrikeAlone
  <2> QED
    BY <2>7, <2>8
<1> QED
  BY <1>1, <1>2

\* It is an invariant.
LEMMA InitBoot == Init => BootInv
  BY DEF Init, BootInv, Struck

LEMMA NextBoot == Inv /\ ListInv /\ BootInv /\ [Next]_vars => BootInv'
  BY StruckStep DEF BootInv

-----------------------------------------------------------------------------
(***************************************************************************)
(* The context of p, running or saved.                                     *)
(***************************************************************************)
Context(p) == IF p = cr3 THEN cpu ELSE current[p]

InCall(r, label) == r.cs = "kernel" /\ r.eip = label

\* After a schedule the context of every queued process is the saved one.
LEMMA ScheduleContext ==
    ASSUME NEW L \in Lists, NEW Q, Listed(L, Q), NEW back, Schedule(L, back)
    PROVE  /\ Queued' = Q
           /\ \A p \in Q : Context(p)' = current'[p]
           /\ Q # {} => cr3' \in Q /\ cpu' = current'[cr3']
           /\ Q = {} => L.start = NULL /\ cpu' = back /\ cr3' = cr3
<1> DEFINE R == Rotate(L)
<1>1. Listed(R, Q) /\ runnable_pss' = R
  BY RotateListed DEF Schedule
<1>2. Queued' = Q
  BY <1>1, QueuedReach, ListedReach
<1>3. /\ Q \subseteq Ps
      /\ R.start = NULL <=> Q = {}
      /\ R.start # NULL => R.start \in Q
  BY <1>1, ListedStart
<1>4. L.start = NULL <=> Q = {}
  BY ListedStart
<1>5. CASE Q = {}
  BY <1>2, <1>3, <1>4, <1>5 DEF Schedule
<1>6. CASE Q # {}
  <2>1. cpu' = current'[R.start] /\ cr3' = R.start /\ R.start \in Q
    BY <1>3, <1>6 DEF Schedule
  <2> QED
    BY <1>2, <1>6, <2>1 DEF Context
<1> QED
  BY <1>5, <1>6

\* What a process that has the CPU is about.
LEMMA RunningContext ==
    ASSUME Inv, Orderly
    PROVE  /\ Queued \subseteq Ps
           /\ Busy(cpu) => cr3 \in Queued /\ Context(cr3) = cpu
           /\ cpu.cs = "kernel" /\ cpu.esp # NULL => cpu.esp = cr3 /\ My = kstack[cr3]
           /\ ~Busy(cpu) => cr3 \notin Queued
<1>1. Queued \subseteq Ps /\ (Busy(cpu) => cr3 \in Queued)
  BY OrderlyFacts
<1>2. cpu.cs = "kernel" /\ cpu.esp # NULL => cpu.esp = cr3 /\ My = kstack[cr3]
  BY CallContext DEF My
<1>3. ASSUME ~Busy(cpu) PROVE cr3 \notin Queued
  <2>1. cpu.cs = "kernel" /\ cpu.esp = NULL
    BY <1>3 DEF Busy, Inv, TypeOK, Registers, UserContexts, KernelContexts
  <2>2. CASE cpu.eip \in BootPhase
    BY <1>1, <2>1, <2>2, NULLAssumption DEF Orderly, BootOK
  <2>3. CASE cpu.eip \notin BootPhase
    <3>1. runnable_pss.start = NULL /\ ~At("add_end")
      BY <2>1, <2>3 DEF Orderly, BootOK, BootPhase, At
    <3>2. Queued = {}
      BY <3>1, ListedStart DEF Orderly, Shape
    <3> QED
      BY <3>2
  <2> QED
    BY <2>2, <2>3
<1> QED
  BY <1>1, <1>2, <1>3 DEF Context

-----------------------------------------------------------------------------
(***************************************************************************)
(* Pids.                                                                   *)
(***************************************************************************)
Known == Queued \cup zombie_pss

Unique == \A p, q \in Known : id[p] = id[q] => p = q

\* No fork has been preempted between scheduler_next_pid and the end of
\* scheduler_add_process.
NoSavedFork == \A p \in Ps : current[p].cs = "kernel" => current[p].eip \notin PidWindow

\* Only a walk of sys_wait can have been torn.
TornOK == \A p \in Ps : kstack[p].torn => p \in Queued /\ InCall(Context(p), "sys_wait")

\* The pid that a fork has chosen is larger than every other.
Fresh ==
    (cpu.cs = "kernel" /\ cpu.esp # NULL) =>
        /\ cpu.eip = "process_clone" => \A p \in Known : id[p] < My.pid
        /\ cpu.eip \in {"add", "add_link"} => \A p \in Known : id[p] < id[My.new]

\* A process that execve has created has the pid of the one it will replace.
Heirs == \A p \in Queued :
            InCall(Context(p), "switch_execve") => id[kstack[p].new] = id[p]

PidOrderly == Unique /\ NoSavedFork /\ TornOK /\ Fresh /\ Heirs

PidClean == windows \cap {"pid", "add"} = {}

PidInv == PidClean => Unique /\ (Clean => PidOrderly)

\* At boot there is no process.
LEMMA InitPid == Init => PidInv
<1> SUFFICES ASSUME Init PROVE PidOrderly
  BY DEF PidInv, PidOrderly
<1>1. Orderly
  BY InitList DEF Init, ListInv, Clean
<1>2. Queued = {}
  BY <1>1, ListedStart DEF Orderly, Shape, Init, At, KernelRegisters
<1>3. Known = {}
  BY <1>2 DEF Known, Init
<1>4. Unique /\ Heirs
  BY <1>2, <1>3 DEF Unique, Heirs
<1>5. NoSavedFork
  BY DEF Init, NoSavedFork, UserRegisters
<1>6. TornOK
  BY DEF Init, TornOK, NoLocals, Ptr
<1>7. Fresh
  BY DEF Init, Fresh, KernelRegisters
<1> QED
  BY <1>4, <1>5, <1>6, <1>7 DEF PidOrderly

\* A step that keeps the CPU.
LEMMA PidKeep ==
    ASSUME Inv, Orderly, PidOrderly,
           cr3' = cr3, Queued \subseteq Queued', Queued' \subseteq Ps,
           \A p \in Ps : current'[p] = current[p] \/ current'[p].cs = "user",
           \A p \in Queued : current'[p] = current[p],
           \A p \in Queued' : p \in Queued \/ (current'[p].cs = "user" /\ p # cr3),
           \A p \in Ps : kstack'[p].torn => kstack[p].torn /\ (p = cr3 => ~At("sys_wait")),
           \A p \in Queued : p # cr3 => kstack'[p].new = kstack[p].new,
           \A p \in allocated : id'[p] = id[p],
           At("switch_execve")' => id'[kstack'[cr3].new] = id'[cr3],
           Unique', Fresh'
    PROVE  PidOrderly'
<1>1. NoSavedFork'
  BY DEF PidOrderly, NoSavedFork
<1>2. TornOK'
  <2> SUFFICES ASSUME NEW p \in Ps, kstack'[p].torn
               PROVE  p \in Queued' /\ InCall(Context(p), "sys_wait")'
    BY DEF TornOK
  <2>1. p \in Queued /\ InCall(Context(p), "sys_wait")
    BY DEF PidOrderly, TornOK
  <2>2. p # cr3
    BY <2>1 DEF Context, InCall, At
  <2> QED
    BY <2>1, <2>2 DEF Context, InCall
<1>3. Heirs'
  <2> SUFFICES ASSUME NEW p \in Queued', InCall(Context(p), "switch_execve")'
               PROVE  id'[kstack'[p].new] = id'[p]
    BY DEF Heirs
  <2>1. CASE p = cr3
    BY <2>1 DEF Context, InCall, At
  <2>2. CASE p # cr3
    <3>1. current'[p].cs = "kernel" /\ current'[p].eip = "switch_execve"
      BY <2>2 DEF Context, InCall
    <3>2. p \in Queued /\ current'[p] = current[p]
      BY <3>1
    <3>3. id[kstack[p].new] = id[p] /\ kstack'[p].new = kstack[p].new
      BY <2>2, <3>1, <3>2 DEF PidOrderly, Heirs, Context, InCall
    <3>4. p \in SavedHolders
      BY <2>2, <3>1, <3>2 DEF SavedHolders, AboutToQueue, PendingLabels
    <3>5. kstack[p].new \in allocated /\ p \in allocated
      BY <3>2, <3>4 DEF Orderly, Accounted, Awaited, Holders
    <3> QED
      BY <3>3, <3>5
  <2> QED
    BY <2>1, <2>2
<1> QED
  BY <1>1, <1>2, <1>3 DEF PidOrderly

\* A step that has no part in choosing and giving a pid.
LEMMA PidQuiet ==
    ASSUME Inv, Orderly, PidOrderly,
           Queued' = Queued,
           UNCHANGED <<zombie_pss, id, current, cr3>>,
           \A q \in Ptr : kstack'[q].new = kstack[q].new,
           \A p \in Ps : kstack'[p].torn => kstack[p].torn /\ (p = cr3 => ~At("sys_wait")),
           cpu'.cs = "kernel" =>
               cpu'.eip \notin {"process_clone", "add", "add_link", "switch_execve"}
    PROVE  PidOrderly'
<1>1. Unique' /\ Fresh'
  BY DEF PidOrderly, Unique, Known, Fresh
<1>2. Queued' \subseteq Ps
  BY OrderlyFacts
<1>3. \A p \in Queued : kstack'[p].new = kstack[p].new
  BY <1>2 DEF Ptr
<1>4. ~At("switch_execve")'
  BY DEF At
<1> QED
  BY <1>1, <1>2, <1>3, <1>4, PidKeep

\* A schedule.
LEMMA PidSchedule ==
    ASSUME NEW L \in Lists, NEW Q, Listed(L, Q), NEW back, Schedule(L, back),
           L.start = NULL => back.cs = "kernel" /\ back.esp = NULL,
           NoSavedFork', Unique',
           \A p \in Ps : kstack'[p].torn => p \in Q /\ InCall(current'[p], "sys_wait"),
           \A p \in Q : InCall(current'[p], "switch_execve") => id'[kstack'[p].new] = id'[p]
    PROVE  PidOrderly'
<1>1. /\ Queued' = Q
      /\ \A p \in Q : Context(p)' = current'[p]
      /\ Q # {} => cr3' \in Q /\ cpu' = current'[cr3']
      /\ Q = {} => L.start = NULL /\ cpu' = back
  BY ScheduleContext
<1>2. TornOK' /\ Heirs'
  BY <1>1 DEF TornOK, Heirs, InCall
<1>3. Fresh'
  <2>1. CASE Q = {}
    BY <1>1, <2>1 DEF Fresh
  <2>2. CASE Q # {}
    <3>1. cr3' \in Ps /\ cpu' = current'[cr3']
      BY <1>1, <2>2, ListedStart
    <3>2. cpu'.cs = "kernel" => cpu'.eip \notin PidWindow
      BY <3>1 DEF NoSavedFork
    <3> QED
      BY <3>2 DEF Fresh, PidWindow
  <2> QED
    BY <2>1, <2>2
<1> QED
  BY <1>2, <1>3 DEF PidOrderly

\* The steps of user mode and of the system calls, and of the boot thread, that have no
\* part in it.
LEMMA QuietPid ==
    ASSUME Inv, Orderly, PidOrderly,
           \/ UserStep \/ sys_other \/ process_clone_fails \/ sys_execve_fails
           \/ sys_wait_returns \/ start_init_fails \/ scheduler_add_process_fails \/ add_end
    PROVE  PidOrderly'
<1> USE DEF UserStep, sys_other, process_clone_fails, sys_execve_fails, sys_wait_returns,
            start_init_fails, scheduler_add_process_fails, add_end
<1>1. UNCHANGED <<zombie_pss, id, current, cr3, kstack>> /\ ~At("sys_wait")
  BY DEF list, procs, At
<1>2. Queued' = Queued
  <2>1. CASE add_end
    BY <2>1, AddEndQueue
  <2>2. CASE ~add_end
    <3>1. runnable_pss' = runnable_pss
      BY <2>2 DEF list
    <3> QED
      BY <3>1, QueuedReach
  <2> QED
    BY <2>1, <2>2
<1>3. cpu'.cs = "kernel" =>
          cpu'.eip \notin {"process_clone", "add", "add_link", "switch_execve"}
  <2>1. CASE UserStep
    BY <2>1 DEF UserRegisters
  <2>2. CASE sys_other \/ process_clone_fails \/ sys_execve_fails \/ sys_wait_returns
    <3>1. cpu.cs = "kernel" /\ cpu.eip \notin BootLabels
      BY <2>2 DEF At, BootLabels
    <3>2. cpu.esp # NULL
      BY <3>1, WhoseLabel
    <3>3. PICK eax \in Int : Return(eax)
      BY <2>2
    <3> QED
      BY <3>1, <3>2, <3>3, ReturnUser
  <2>3. CASE start_init_fails
    <3>1. cpu \in KernelContexts
      BY <2>3, WhoseLabel DEF At
    <3> QED
      BY <2>3, <3>1 DEF Goto, KernelContexts
  <2>4. CASE scheduler_add_process_fails \/ add_end
    <3>1. AddReturns /\ cpu.cs = "kernel"
      BY <2>4 DEF At
    <3> QED
      BY <3>1, AddReturnsContext
  <2> QED
    BY <2>1, <2>2, <2>3, <2>4
<1> QED
  BY <1>1, <1>2, <1>3, PidQuiet

\* The entry into a system call.
LEMMA handle_syscallPid ==
    ASSUME Inv, Orderly, PidOrderly, handle_syscall PROVE PidOrderly'
<1>1. cpu.cs = "user" /\ cr3 \in Ps
  BY UserContext DEF handle_syscall
<1>2. /\ UNCHANGED <<runnable_pss, zombie_pss, id, current, cr3>>
      /\ kstack' = [kstack EXCEPT ![cr3].ps = scheduler_get_current_process]
  BY DEF handle_syscall, list, procs
<1>3. \A q \in Ptr : kstack'[q].new = kstack[q].new /\ kstack'[q].torn = kstack[q].torn
  BY <1>1, <1>2 DEF Inv, TypeOK, Locals, Ptr
<1>4. ~At("sys_wait") /\ Queued' = Queued
  BY <1>1, <1>2, QueuedReach DEF At
<1>5. cpu'.cs = "kernel" =>
          cpu'.eip \notin {"process_clone", "add", "add_link", "switch_execve"}
  BY CallsAssumption DEF handle_syscall, KernelRegisters, Syscalls
<1> QED
  BY <1>2, <1>3, <1>4, <1>5, PidQuiet DEF Ptr

\* The test of sys_wait ends the walk.
LEMMA sys_waitPid ==
    ASSUME Inv, Orderly, PidOrderly, sys_wait PROVE PidOrderly'
<1>1. cpu.cs = "kernel" /\ cpu.eip = "sys_wait"
  BY DEF sys_wait, At
<1>2. cpu.esp # NULL /\ cpu \in KernelContexts
  BY <1>1, WhoseLabel DEF BootLabels
<1>3. cpu.esp = cr3 /\ cr3 \in Ps
  BY <1>1, <1>2, CallContext
<1>4. /\ UNCHANGED <<runnable_pss, zombie_pss, id, current, cr3>>
      /\ kstack' = [kstack EXCEPT ![cpu.esp].torn = FALSE]
  BY DEF sys_wait, list, procs
<1>5. /\ \A q \in Ptr : kstack'[q].new = kstack[q].new
      /\ \A p \in Ps : kstack'[p].torn => kstack[p].torn /\ p # cr3
  BY <1>3, <1>4 DEF Inv, TypeOK, Locals, Ptr
<1>6. Queued' = Queued
  BY <1>4, QueuedReach
<1>7. cpu'.cs = "user" \/ cpu'.eip = "wait_loop"
  <2>1. Return(-1) \/ Goto("wait_loop")
    BY DEF sys_wait
  <2>2. CASE Return(-1)
    BY <1>1, <1>2, <2>2, ReturnUser
  <2>3. CASE Goto("wait_loop")
    BY <1>2, <2>3 DEF Goto, KernelContexts
  <2> QED
    BY <2>1, <2>2, <2>3
<1> QED
  BY <1>4, <1>5, <1>6, <1>7, PidQuiet

\* scheduler_next_pid sees every process, because its walk is not torn.
LEMMA sys_forkPid ==
    ASSUME Inv, Orderly, PidOrderly, sys_fork PROVE PidOrderly'
<1>1. cpu.cs = "kernel" /\ cpu.eip = "sys_fork"
  BY DEF sys_fork, At
<1>2. cpu.esp # NULL /\ cpu \in KernelContexts
  BY <1>1, WhoseLabel DEF BootLabels
<1>3. cpu.esp = cr3 /\ cr3 \in Ps /\ cr3 \in Queued /\ Context(cr3) = cpu /\ My = kstack[cr3]
  BY <1>1, <1>2, CallContext, RunningContext DEF Busy
<1>4. ~My.torn
  BY <1>1, <1>3 DEF PidOrderly, TornOK, InCall
<1>5. PICK m \in {id[p] : p \in Ps} \cup {0} :
          /\ MaxId(Known, m)
          /\ kstack' = [kstack EXCEPT ![cpu.esp].pid = m + 1,
                                      ![cpu.esp].ps = scheduler_get_current_process,
                                      ![cpu.esp].torn = FALSE]
  BY <1>4 DEF sys_fork, SeenByWalk, Known
<1>6. m \in Nat
  BY DEF Inv, TypeOK
<1>7. /\ UNCHANGED <<runnable_pss, zombie_pss, id, current, cr3>>
      /\ cpu'.cs = "kernel" /\ cpu'.eip = "process_clone" /\ cpu'.esp = cpu.esp
  BY <1>2 DEF sys_fork, list, procs, Goto, KernelContexts
<1>8. /\ \A q \in Ptr : kstack'[q].new = kstack[q].new
      /\ \A p \in Ps : kstack'[p].torn => kstack[p].torn
      /\ kstack'[cr3].pid = m + 1
  BY <1>3, <1>5, <1>6 DEF Inv, TypeOK, Locals, Ptr
<1>9. Queued' = Queued /\ Known' = Known /\ Known \subseteq Ps
  BY <1>7, QueuedReach DEF Known, Queued, Inv, TypeOK
<1>10. Fresh'
  <2>1. \A p \in Known : id[p] \in Nat /\ id[p] <= m
    BY <1>5, <1>9 DEF MaxId, Inv, TypeOK
  <2>2. \A p \in Known : id[p] < m + 1
    BY <1>6, <2>1
  <2>3. My'.pid = m + 1
    BY <1>3, <1>7, <1>8 DEF My
  <2> QED
    BY <1>7, <1>9, <2>2, <2>3 DEF Fresh
<1>11. Unique'
  BY <1>7, <1>9 DEF PidOrderly, Unique
<1>12. ~At("sys_wait") /\ ~At("switch_execve")'
  BY <1>1, <1>7 DEF At
<1>13. Queued' \subseteq Ps
  BY <1>9 DEF Known
<1> QED
  BY <1>7, <1>8, <1>9, <1>10, <1>11, <1>12, <1>13, PidKeep DEF Ptr

\* A new process, not queued yet, in process_clone, process_create_replacement and the
\* boot thread.
LEMMA PidBirth ==
    ASSUME Inv, Orderly, PidOrderly, NEW new \in Ps, new \notin allocated,
           UNCHANGED <<runnable_pss, zombie_pss, cr3>>,
           cpu.cs = "kernel", cpu.eip # "sys_wait",
           cpu.esp # NULL => cpu.esp = cr3,
           kstack' = [kstack EXCEPT ![cpu.esp].new = new],
           current'[new].cs = "user",
           \A p \in Ps : p # new => current'[p] = current[p],
           \A p \in Ps : p # new => id'[p] = id[p],
           At("switch_execve")' => id'[kstack'[cr3].new] = id'[cr3],
           Fresh'
    PROVE  PidOrderly'
<1>1. Queued' = Queued /\ Known' = Known /\ Known \subseteq Ps
  BY QueuedReach DEF Known, Queued, Inv, TypeOK
<1>2. new \notin Known /\ Queued' \subseteq Ps
  BY <1>1 DEF Known, Orderly, Accounted
<1>3. Unique'
  BY <1>1, <1>2 DEF PidOrderly, Unique
<1>4. cpu.esp \in Ptr
  BY WhoseLabel DEF KernelContexts
<1>5. \A q \in Ptr : /\ kstack'[q].torn = kstack[q].torn
                     /\ q # cpu.esp => kstack'[q].new = kstack[q].new
  BY <1>4 DEF Inv, TypeOK, Locals
<1>6. \A p \in Queued : p # cr3 => kstack'[p].new = kstack[p].new
  BY <1>1, <1>2, <1>5, NULLAssumption DEF Ptr
<1>7. \A p \in Queued : current'[p] = current[p]
  BY <1>1, <1>2 DEF Known
<1>8. \A p \in allocated : id'[p] = id[p]
  BY DEF Inv, TypeOK
<1>9. \A p \in Ps : kstack'[p].torn => kstack[p].torn /\ (p = cr3 => ~At("sys_wait"))
  BY <1>5 DEF Ptr, At
<1>10. \A p \in Ps : current'[p] = current[p] \/ current'[p].cs = "user"
  OBVIOUS
<1> QED
  BY <1>1, <1>2, <1>3, <1>6, <1>7, <1>8, <1>9, <1>10, PidKeep

\* process_clone gives the pid to the child.
LEMMA process_clonePid ==
    ASSUME Inv, Orderly, PidOrderly, NEW new \in Ps, process_clone(new) PROVE PidOrderly'
<1>1. cpu.cs = "kernel" /\ cpu.eip = "process_clone"
  BY DEF process_clone, At
<1>2. cpu.esp # NULL /\ cpu \in KernelContexts
  BY <1>1, WhoseLabel DEF BootLabels
<1>3. cpu.esp = cr3 /\ cr3 \in Ps /\ My.ps = cr3
  BY <1>1, <1>2, CallContext
<1>4. /\ UNCHANGED <<runnable_pss, zombie_pss, cr3>> /\ new \notin allocated
      /\ kstack' = [kstack EXCEPT ![cpu.esp].new = new]
      /\ id' = [id EXCEPT ![new] = My.pid]
      /\ cpu'.cs = "kernel" /\ cpu'.eip = "add" /\ cpu'.esp = cpu.esp
  BY <1>2 DEF process_clone, list, Goto, KernelContexts
<1>5. current'[new].cs = "user" /\ \A p \in Ps : p # new => current'[p] = current[p]
  <2> DEFINE child == [user_mode[My.ps] EXCEPT !.eax = 0]
  <2>1. child.cs = "user"
    BY <1>3 DEF Inv, TypeOK, UserContexts
  <2>2. current' = [current EXCEPT ![new] = child]
    BY DEF process_clone
  <2> HIDE DEF child
  <2> QED
    BY <2>1, <2>2 DEF Inv, TypeOK
<1>6. \A p \in Ps : id'[p] = IF p = new THEN My.pid ELSE id[p]
  BY <1>4 DEF Inv, TypeOK
<1>7. Fresh'
  <2>1. Known' = Known /\ Known \subseteq Ps /\ new \notin Known
    BY <1>4, QueuedReach DEF Known, Queued, Inv, TypeOK, Orderly, Accounted
  <2>2. \A p \in Known : id'[p] < id'[new]
    BY <1>1, <1>2, <1>6, <2>1 DEF PidOrderly, Fresh
  <2>3. My'.new = new
    BY <1>3, <1>4 DEF My, Inv, TypeOK, Locals, Ptr
  <2> QED
    BY <1>4, <2>1, <2>2, <2>3 DEF Fresh
<1>8. ~At("switch_execve")'
  BY <1>4 DEF At
<1> QED
  BY <1>1, <1>3, <1>4, <1>5, <1>6, <1>7, <1>8, PidBirth

\* process_create_replacement takes over the pid.
LEMMA sys_execvePid ==
    ASSUME Inv, Orderly, PidOrderly, NEW new \in Ps, sys_execve(new) PROVE PidOrderly'
<1>1. cpu.cs = "kernel" /\ cpu.eip = "sys_execve"
  BY DEF sys_execve, At
<1>2. cpu.esp # NULL /\ cpu \in KernelContexts
  BY <1>1, WhoseLabel DEF BootLabels
<1>3. cpu.esp = cr3 /\ cr3 \in Ps /\ runnable_pss.start = cr3 /\ cr3 \in Queued
  BY <1>1, <1>2, CallContext, RunningContext DEF Busy
<1>4. /\ UNCHANGED <<runnable_pss, zombie_pss, cr3>> /\ new \notin allocated
      /\ kstack' = [kstack EXCEPT ![cpu.esp].new = new]
      /\ id' = [id EXCEPT ![new] = id[cr3]]
      /\ cpu'.cs = "kernel" /\ cpu'.eip = "switch_execve"
  BY <1>2, <1>3 DEF sys_execve, list, Goto, KernelContexts, scheduler_get_current_process
<1>5. current'[new].cs = "user" /\ \A p \in Ps : p # new => current'[p] = current[p]
  BY DEF Inv, TypeOK, sys_execve, UserRegisters
<1>6. \A p \in Ps : id'[p] = IF p = new THEN id[cr3] ELSE id[p]
  BY <1>4 DEF Inv, TypeOK
<1>7. Fresh'
  BY <1>4 DEF Fresh
<1>8. id'[kstack'[cr3].new] = id'[cr3]
  <2>1. kstack'[cr3].new = new
    BY <1>3, <1>4 DEF Inv, TypeOK, Locals, Ptr
  <2> QED
    BY <1>3, <1>6, <2>1
<1> QED
  BY <1>1, <1>3, <1>4, <1>5, <1>6, <1>7, <1>8, PidBirth

\* process_init for init
LEMMA start_initPid ==
    ASSUME Inv, Orderly, PidOrderly, NEW init \in Ps, start_init(init) PROVE PidOrderly'
<1>1. cpu.cs = "kernel" /\ cpu.eip = "start_init"
  BY DEF start_init, At
<1>2. cpu.esp = NULL /\ cpu \in KernelContexts
  BY <1>1, WhoseLabel DEF CallLabels, Syscalls
<1>3. /\ UNCHANGED <<runnable_pss, zombie_pss, cr3>>
      /\ kstack' = [kstack EXCEPT ![cpu.esp].new = init]
      /\ id' = [id EXCEPT ![init] = 1]
      /\ cpu'.cs = "kernel" /\ cpu'.eip = "add" /\ cpu'.esp = NULL
  BY <1>2 DEF start_init, list, Goto, KernelContexts
<1>4. current'[init].cs = "user" /\ \A p \in Ps : p # init => current'[p] = current[p]
  BY DEF Inv, TypeOK, start_init, UserRegisters
<1>5. \A p \in Ps : p # init => id'[p] = id[p]
  BY <1>3 DEF Inv, TypeOK
<1>6. Fresh' /\ ~At("switch_execve")'
  BY <1>3 DEF Fresh, At
<1>7. init \notin allocated
  BY <1>1, <1>2 DEF Orderly, BootOK
<1> QED
  BY <1>1, <1>2, <1>3, <1>4, <1>5, <1>6, <1>7, PidBirth

\* scheduler_add_process up to the load of pss->end
LEMMA scheduler_add_processPid ==
    ASSUME Inv, Orderly, PidOrderly, scheduler_add_process PROVE PidOrderly'
<1>1. cpu.cs = "kernel" /\ cpu.eip = "add"
  BY DEF scheduler_add_process, At
<1>2. cpu \in KernelContexts /\ cpu.esp \in Ptr
  BY <1>1, WhoseLabel DEF KernelContexts
<1>3. /\ UNCHANGED <<zombie_pss, id, current, cr3>>
      /\ cpu'.cs = "kernel" /\ cpu'.eip \in {"add_first", "add_link"} /\ cpu'.esp = cpu.esp
      /\ kstack' = [kstack EXCEPT ![cpu.esp].end = runnable_pss.end]
  BY <1>2 DEF scheduler_add_process, procs, Goto, KernelContexts
<1>4. \A q \in Ptr : kstack'[q].new = kstack[q].new /\ kstack'[q].torn = kstack[q].torn
  BY <1>2, <1>3 DEF Inv, TypeOK, Locals
<1>5. Queued' = Queued /\ Known' = Known
  BY <1>3, AddStartQueue DEF Known
<1>6. My'.new = My.new
  BY <1>2, <1>3, <1>4 DEF My
<1>7. Unique'
  BY <1>3, <1>5 DEF PidOrderly, Unique
<1>8. Fresh'
  BY <1>1, <1>3, <1>5, <1>6 DEF PidOrderly, Fresh
<1>9. ~At("sys_wait") /\ ~At("switch_execve")' /\ Queued' \subseteq Ps
  BY <1>1, <1>3, <1>5, OrderlyFacts DEF At
<1>10. /\ \A p \in Ps : kstack'[p].torn => kstack[p].torn
       /\ \A p \in Queued : kstack'[p].new = kstack[p].new
  BY <1>4, <1>5, <1>9 DEF Ptr
<1> QED
  BY <1>3, <1>5, <1>7, <1>8, <1>9, <1>10, PidKeep

\* The element is linked: the process is known from now on.
LEMMA LinkPid ==
    ASSUME Inv, Orderly, PidOrderly, add_first \/ add_link PROVE PidOrderly'
<1>1. cpu.cs = "kernel" /\ cpu.eip \in {"add_first", "add_link"} /\ AboutToQueue(cpu)
  BY DEF add_first, add_link, At, AboutToQueue, PendingLabels
<1>2. cpu \in KernelContexts
  BY <1>1, WhoseLabel
<1>3. /\ UNCHANGED <<zombie_pss, id, current, cr3, kstack>>
      /\ cpu'.cs = "kernel" /\ cpu'.eip = "add_end"
  BY <1>2 DEF add_first, add_link, procs, Goto, KernelContexts
<1>4. Queued' = Queued \cup {My.new} /\ Known' = Known \cup {My.new}
  BY <1>3, AddLinkQueue DEF Known
<1>5. My.new \in Ps /\ My.new \notin Queued /\ current[My.new].cs = "user"
  BY <1>1, OrderlyFacts DEF Orderly, Accounted, Holders, RunningHolder, My
<1>6. Queued' \subseteq Ps /\ Known \subseteq Ps
  BY <1>4, <1>5, OrderlyFacts DEF Known, Inv, TypeOK
<1>7. CASE cpu.esp = NULL
  <2>1. cr3 = NULL /\ zombie_pss = {} /\ runnable_pss.start = NULL
    BY <1>1, <1>7 DEF Orderly, BootOK, BootPhase
  <2>2. Known = {}
    BY <1>1, <2>1, ListedStart DEF Orderly, Shape, At, Known
  <2>3. Unique'
    BY <1>4, <2>2 DEF Unique
  <2>4. Fresh' /\ ~At("sys_wait") /\ ~At("switch_execve")' /\ My.new # cr3
    BY <1>1, <1>3, <1>5, <2>1, NULLAssumption DEF Fresh, At
  <2> QED
    BY <1>3, <1>4, <1>5, <1>6, <2>3, <2>4, PidKeep
<1>8. CASE cpu.esp # NULL
  <2>1. cpu.eip = "add_link" /\ cr3 \in Queued
    <3>1. cpu.eip \in CallLabels
      BY <1>1, <1>8, CallContext
    <3> QED
      BY <1>1, <1>8, <3>1, OrderlyFacts DEF CallLabels, Syscalls, Busy
  <2>2. \A p \in Known : id[p] < id[My.new] /\ id[p] \in Nat /\ id[My.new] \in Nat
    BY <1>1, <1>5, <1>6, <1>8, <2>1 DEF PidOrderly, Fresh, Inv, TypeOK
  <2>3. \A p \in Known : id[p] # id[My.new]
    BY <2>2
  <2>4. Unique'
    BY <1>3, <1>4, <2>3 DEF PidOrderly, Unique
  <2>5. Fresh' /\ ~At("sys_wait") /\ ~At("switch_execve")' /\ My.new # cr3
    BY <1>1, <1>3, <1>5, <2>1 DEF Fresh, At
  <2> QED
    BY <1>3, <1>4, <1>5, <1>6, <2>4, <2>5, PidKeep
<1> QED
  BY <1>7, <1>8

\* A reschedule that saves the context of the process it takes the CPU from.
LEMMA PidReschedule ==
    ASSUME Inv, Orderly, PidOrderly, ~At("add_end"), NEW back, Schedule(runnable_pss, back),
           runnable_pss.start = NULL => back.cs = "kernel" /\ back.esp = NULL,
           UNCHANGED <<zombie_pss, id>>, NoSavedFork',
           \A q \in Ptr : kstack'[q].new = kstack[q].new,
           \A p \in Ps : kstack'[p].torn =>
                            kstack[p].torn \/ (p \in Queued /\ InCall(current'[p], "sys_wait")),
           \A p \in Queued : \/ current'[p] = Context(p)
                             \/ /\ ~InCall(Context(p), "sys_wait")
                                /\ ~InCall(current'[p], "switch_execve")
    PROVE  PidOrderly'
<1>1. Listed(runnable_pss, Queued) /\ runnable_pss \in Lists /\ Queued \subseteq Ps
  BY ListedStart DEF Orderly, Shape, Inv, TypeOK
<1>2. Queued' = Queued
  BY <1>1, ScheduleContext
<1>3. Unique'
  BY <1>2 DEF PidOrderly, Unique, Known
<1>4. \A p \in Ps : kstack'[p].torn => p \in Queued /\ InCall(current'[p], "sys_wait")
  BY DEF PidOrderly, TornOK
<1>5. \A p \in Queued : InCall(current'[p], "switch_execve") => id'[kstack'[p].new] = id'[p]
  BY <1>1 DEF PidOrderly, Heirs, Ptr
<1> QED
  BY <1>1, <1>3, <1>4, <1>5, PidSchedule

\* The PIT interrupt, outside the windows.
LEMMA PitPid ==
    ASSUME Inv, Orderly, PidOrderly, scheduler_schedule_on_interrupt,
           Window \cap {"add", "boot", "pid"} = {}
    PROVE  PidOrderly'
<1>1. cpu.cs = "user" \/ (cpu.esp # NULL /\ cpu.eip \notin PidWindow)
  BY DEF Window
<1>2. /\ cr3 \in Ps /\ runnable_pss.start = cr3 /\ cr3 # NULL
      /\ cr3 \in Queued /\ Context(cr3) = cpu
  BY <1>1, RunningContext, NULLAssumption DEF Busy, Inv, HeadOK
<1>3. /\ cpu \in Registers /\ cpu.esp \in Ptr /\ (cpu.cs = "kernel" => cpu.esp = cr3)
      /\ cpu.cs = "kernel" \/ cpu.cs = "user"
  BY <1>1, CallContext DEF Inv, TypeOK, Registers, UserContexts, KernelContexts, Ptr
<1>4. cpu.cs = "user" => cpu.eip \notin {"sys_fork", "sys_wait"}
  BY <1>3, TagsAssumption DEF Registers, UserContexts, KernelContexts, Labels, Syscalls
<1>5. /\ current' = [current EXCEPT ![cr3] = cpu]
      /\ Schedule(runnable_pss, cpu)
      /\ kstack' = IF cpu.eip \in {"sys_fork", "sys_wait"}
                   THEN [kstack EXCEPT ![cpu.esp].torn = TRUE] ELSE kstack
      /\ UNCHANGED <<zombie_pss, id>>
  BY <1>2 DEF scheduler_schedule_on_interrupt, SaveRegisters, scheduler_get_current_process,
     procs
<1>6. current'[cr3] = cpu /\ \A p \in Ps : p # cr3 => current'[p] = current[p]
  BY <1>2, <1>5 DEF Inv, TypeOK
<1>7. NoSavedFork'
  BY <1>1, <1>3, <1>6 DEF PidOrderly, NoSavedFork
<1>8. \A q \in Ptr : kstack'[q].new = kstack[q].new
  BY <1>3, <1>5, TornLemma DEF Inv, TypeOK
<1>9. \A p \in Ps : kstack'[p].torn =>
                       kstack[p].torn \/ (p \in Queued /\ InCall(current'[p], "sys_wait"))
  <2> SUFFICES ASSUME NEW p \in Ps, kstack'[p].torn, ~kstack[p].torn
               PROVE  p \in Queued /\ InCall(current'[p], "sys_wait")
    BY Zenon
  <2>1. cpu.eip \in {"sys_fork", "sys_wait"} /\ p = cpu.esp
    BY <1>3, <1>5 DEF Inv, TypeOK, Ptr
  <2>2. cpu.cs = "kernel" /\ cpu.eip = "sys_wait" /\ p = cr3
    BY <1>1, <1>3, <1>4, <2>1 DEF PidWindow
  <2> QED
    BY <1>2, <1>6, <2>2 DEF InCall
<1>10. \A p \in Queued : current'[p] = Context(p)
  BY <1>2, <1>6, RunningContext DEF Context
<1>11. ~At("add_end")
  BY <1>1 DEF At, PidWindow
<1> QED
  BY <1>2, <1>5, <1>7, <1>8, <1>9, <1>10, <1>11, PidReschedule

\* sys_yield, and the loop of sys_wait
LEMMA GiveUpPid ==
    ASSUME Inv, Orderly, PidOrderly, sys_yield \/ snapshot_and_schedule PROVE PidOrderly'
<1>1. cpu.cs = "kernel" /\ cpu.eip \in {"sys_yield", "wait_loop"}
  BY DEF sys_yield, snapshot_and_schedule, At
<1>2. cpu.esp # NULL
  BY <1>1, WhoseLabel DEF BootLabels
<1>3. /\ cpu.esp \in Ps /\ cr3 = cpu.esp /\ runnable_pss.start = cr3 /\ My.ps = cr3
      /\ Context(cr3) = cpu /\ cr3 # NULL
  BY <1>1, <1>2, CallContext, RunningContext, NULLAssumption DEF Busy
<1>4. /\ UNCHANGED <<zombie_pss, id, kstack>>
      /\ \E back : Schedule(runnable_pss, back)
  BY DEF sys_yield, snapshot_and_schedule, procs
<1>5. /\ current'[cr3].cs = "kernel" => current'[cr3].eip = "wait_loop"
      /\ \A p \in Ps : p # cr3 => current'[p] = current[p]
  <2>1. CASE sys_yield
    <3>1. /\ user_mode' = [user_mode EXCEPT ![cr3].eax = 0]
          /\ current' = [current EXCEPT ![cr3] = user_mode'[cr3]]
      BY <1>3, <2>1 DEF sys_yield, scheduler_get_current_process
    <3>2. user_mode'[cr3].cs = "user"
      BY <1>3, <3>1 DEF Inv, TypeOK, UserContexts
    <3> QED
      BY <1>3, <3>1, <3>2 DEF Inv, TypeOK
  <2>2. CASE snapshot_and_schedule
    <3>1. current' = [current EXCEPT ![cr3] = KernelRegisters("wait_loop", cr3, FALSE)]
      BY <1>3, <2>2 DEF snapshot_and_schedule
    <3> QED
      BY <1>3, <3>1 DEF Inv, TypeOK, KernelRegisters
  <2> QED
    BY <2>1, <2>2
<1>6. NoSavedFork'
  BY <1>5 DEF PidOrderly, NoSavedFork, PidWindow
<1>7. \A p \in Queued : \/ current'[p] = Context(p)
                        \/ /\ ~InCall(Context(p), "sys_wait")
                           /\ ~InCall(current'[p], "switch_execve")
  <2>1. Queued \subseteq Ps
    BY RunningContext
  <2>2. ~InCall(Context(cr3), "sys_wait") /\ ~InCall(current'[cr3], "switch_execve")
    BY <1>1, <1>3, <1>5 DEF InCall
  <2>3. \A p \in Queued : p # cr3 => current'[p] = Context(p)
    BY <1>5, <2>1 DEF Context
  <2> QED
    BY <2>2, <2>3
<1>8. ~At("add_end")
  BY <1>1 DEF At
<1>9. \A p \in Ps : kstack'[p].torn =>
                       kstack[p].torn \/ (p \in Queued /\ InCall(current'[p], "sys_wait"))
  BY <1>4, Zenon
<1> QED
  BY <1>3, <1>4, <1>6, <1>7, <1>8, <1>9, PidReschedule

\* The boot thread starts the first process.
LEMMA boot_schedulePid ==
    ASSUME Inv, Orderly, PidOrderly, boot_schedule PROVE PidOrderly'
<1>1. cpu.cs = "kernel" /\ cpu.eip = "boot_schedule" /\ ~At("add_end")
  BY DEF boot_schedule, At
<1>2. cpu.esp = NULL
  BY <1>1, WhoseLabel DEF CallLabels, Syscalls
<1> DEFINE back == KernelRegisters("hang", NULL, TRUE)
<1>3. /\ UNCHANGED <<zombie_pss, id, kstack, current>>
      /\ Schedule(runnable_pss, back)
  BY DEF boot_schedule, procs
<1>4. back.cs = "kernel" /\ back.esp = NULL
  BY DEF KernelRegisters
<1> HIDE DEF back
<1>5. cr3 \notin Queued
  BY <1>1, <1>2, RunningContext DEF Busy
<1>6. \A p \in Queued : current'[p] = Context(p)
  BY <1>3, <1>5 DEF Context
<1>7. NoSavedFork'
  BY <1>3 DEF PidOrderly, NoSavedFork
<1>8. \A p \in Ps : kstack'[p].torn =>
                       kstack[p].torn \/ (p \in Queued /\ InCall(current'[p], "sys_wait"))
  BY <1>3, Zenon
<1> QED
  BY <1>1, <1>3, <1>4, <1>6, <1>7, <1>8, PidReschedule

\* sys_exit: a zombie keeps its pid.
LEMMA sys_exitPid ==
    ASSUME Inv, Orderly, PidOrderly, sys_exit PROVE PidOrderly'
<1>1. cpu.cs = "kernel" /\ cpu.eip = "sys_exit" /\ ~At("add_end")
  BY DEF sys_exit, At
<1>2. cpu.esp # NULL
  BY <1>1, WhoseLabel DEF BootLabels
<1>3. /\ cr3 \in Ps /\ runnable_pss.start = cr3 /\ cr3 # NULL
      /\ cr3 \in Queued /\ Context(cr3) = cpu
  BY <1>1, <1>2, CallContext, RunningContext, NULLAssumption DEF Busy
<1>4. /\ UNCHANGED <<id, kstack, current>>
      /\ Schedule(RemoveHead(runnable_pss), Halt)
      /\ zombie_pss' \subseteq zombie_pss \cup {cr3}
  BY <1>3 DEF sys_exit, procs, scheduler_get_current_process
<1>5. Halt.cs = "kernel" /\ Halt.esp = NULL
  BY DEF Halt, KernelRegisters
<1>6. Listed(RemoveHead(runnable_pss), Queued \ {cr3}) /\ RemoveHead(runnable_pss) \in Lists
  BY <1>1, <1>3, RemoveListed, RemoveHeadType DEF Orderly, Shape, Inv, TypeOK
<1>7. Known' \subseteq Known
  BY <1>3, <1>4, <1>6, ScheduleContext DEF Known
<1>8. Unique' /\ NoSavedFork'
  BY <1>4, <1>7 DEF PidOrderly, Unique, NoSavedFork
<1>9. \A p \in Ps : kstack'[p].torn => /\ p \in Queued \ {cr3}
                                       /\ InCall(current'[p], "sys_wait")
  BY <1>1, <1>3, <1>4 DEF PidOrderly, TornOK, Context, InCall
<1>10. \A p \in Queued \ {cr3} :
           InCall(current'[p], "switch_execve") => id'[kstack'[p].new] = id'[p]
  BY <1>4 DEF PidOrderly, Heirs, Context
<1> QED
  BY <1>4, <1>5, <1>6, <1>8, <1>9, <1>10, PidSchedule

\* continue_execve: the replacement comes with the pid of the process that goes.
LEMMA continue_execvePid ==
    ASSUME Inv, Orderly, PidOrderly, continue_execve PROVE PidOrderly'
<1>1. cpu.cs = "kernel" /\ cpu.eip = "switch_execve" /\ AboutToQueue(cpu) /\ ~At("add_end")
  BY DEF continue_execve, At, AboutToQueue, PendingLabels
<1>2. cpu.esp # NULL
  BY <1>1, WhoseLabel DEF BootLabels
<1>3. /\ cr3 \in Ps /\ runnable_pss.start = cr3 /\ cr3 # NULL
      /\ cr3 \in Queued /\ Context(cr3) = cpu /\ My = kstack[cr3]
  BY <1>1, <1>2, CallContext, RunningContext, NULLAssumption DEF Busy
<1>4. My.new \in Ps /\ My.new \notin Queued /\ current[My.new].cs = "user"
  BY <1>1, OrderlyFacts DEF Orderly, Accounted, Holders, RunningHolder, My
<1>5. UNCHANGED <<zombie_pss, id, kstack, current>>
  BY DEF continue_execve
<1>6. Halt.cs = "kernel" /\ Halt.esp = NULL
  BY DEF Halt, KernelRegisters
<1> DEFINE L == RemoveHead(runnable_pss)
<1>7. Listed(L, Queued \ {cr3}) /\ L \in Lists
  BY <1>1, <1>3, RemoveListed, RemoveHeadType DEF Orderly, Shape, Inv, TypeOK
<1>8. /\ Listed(AddProcess(L, My.new), (Queued \ {cr3}) \cup {My.new})
      /\ AddProcess(L, My.new) \in Lists
  <2> HIDE DEF L
  <2> QED
    BY <1>4, <1>7, AddListed, AddProcessType
<1>9. PICK M, Q : /\ M \in Lists /\ Listed(M, Q) /\ Schedule(M, Halt)
                  /\ Queued \ {cr3} \subseteq Q /\ Q \subseteq (Queued \ {cr3}) \cup {My.new}
  BY <1>7, <1>8 DEF continue_execve
<1>10. Unique'
  <2>1. id[My.new] = id[cr3]
    BY <1>1, <1>3 DEF PidOrderly, Heirs, InCall
  <2>2. cr3 \notin zombie_pss /\ cr3 \in Known
    BY <1>3 DEF Orderly, Accounted, Known
  <2>3. \A p \in Known \ {cr3} : id[p] # id[My.new]
    BY <2>1, <2>2 DEF PidOrderly, Unique
  <2>4. Known' \subseteq (Known \ {cr3}) \cup {My.new}
    BY <1>5, <1>9, <2>2, ScheduleContext DEF Known
  <2> QED
    BY <1>5, <2>3, <2>4 DEF PidOrderly, Unique
<1>11. NoSavedFork'
  BY <1>5 DEF PidOrderly, NoSavedFork
<1>12. \A p \in Ps : kstack'[p].torn => p \in Q /\ InCall(current'[p], "sys_wait")
  BY <1>1, <1>3, <1>5, <1>9 DEF PidOrderly, TornOK, Context, InCall
<1>13. \A p \in Q : InCall(current'[p], "switch_execve") => id'[kstack'[p].new] = id'[p]
  BY <1>4, <1>5, <1>9 DEF PidOrderly, Heirs, Context, InCall
<1> QED
  BY <1>6, <1>9, <1>10, <1>11, <1>12, <1>13, PidSchedule

\* A step, or a stutter, preserves the invariant.
LEMMA NextPid == Inv /\ ListInv /\ BootInv /\ PidInv /\ [Next]_vars => PidInv'
<1> SUFFICES ASSUME Inv, ListInv, BootInv, PidInv, [Next]_vars, PidClean'
             PROVE  Unique' /\ (Clean' => PidOrderly')
  BY DEF PidInv
<1>1. \/ windows' = windows
      \/ /\ scheduler_handle_pit_interrupt /\ scheduler_schedule_on_interrupt
         /\ windows' = windows \cup Window
  BY WindowsStep DEF scheduler_schedule_on_interrupt
<1>2. PidClean /\ (Clean' => Clean)
  BY <1>1 DEF PidClean, Clean
<1>3. CASE ~Clean'
  <2>1. Struck'
    BY <1>3 DEF Clean, PidClean, Struck
  <2>2. UNCHANGED <<runnable_pss, zombie_pss, id>>
    BY <2>1, StruckStep
  <2>3. Unique
    BY <1>2 DEF PidInv
  <2> QED
    BY <1>3, <2>2, <2>3, QueuedReach DEF Unique, Known
<1>4. CASE Clean'
  <2>1. Orderly /\ PidOrderly
    BY <1>2, <1>4 DEF PidInv, ListInv
  <2>2. SUFFICES PidOrderly'
    BY DEF PidOrderly
  <2>3. CASE UNCHANGED vars \/ Spin
    <3>1. UNCHANGED vars
      BY <2>3 DEF Spin
    <3> QED
      BY <2>1, <3>1, QueuedReach
         DEF vars, PidOrderly, Unique, Known, NoSavedFork, TornOK, InCall, Context, Fresh, My,
             Heirs
  <2>4. CASE scheduler_handle_pit_interrupt
    <3>1. CASE ~(ms + SCHEDULER_PIT_INTERVAL >= SCHEDULER_TIME_SLICE)
      <4>1. UNCHANGED <<runnable_pss, zombie_pss, id, current, cpu, cr3, kstack>>
        BY <2>4, <3>1 DEF scheduler_handle_pit_interrupt, list, procs
      <4> QED
        BY <2>1, <4>1, QueuedReach
           DEF PidOrderly, Unique, Known, NoSavedFork, TornOK, InCall, Context, Fresh, My,
               Heirs
    <3>2. CASE ms + SCHEDULER_PIT_INTERVAL >= SCHEDULER_TIME_SLICE
      <4>1. scheduler_schedule_on_interrupt /\ windows' = windows \cup Window
        BY <2>4, <3>2 DEF scheduler_handle_pit_interrupt, scheduler_schedule_on_interrupt
      <4>2. Window \cap {"add", "boot", "pid"} = {}
        BY <1>4, <4>1 DEF Clean, PidClean
      <4> QED
        BY <2>1, <4>1, <4>2, PitPid
    <3> QED
      BY <3>1, <3>2
  <2>5. CASE UserStep
    BY <2>1, <2>5, QuietPid
  <2>6. CASE handle_syscall
    BY <2>1, <2>6, handle_syscallPid
  <2>7. CASE KernelStep
    BY <2>1, <2>7, QuietPid, sys_waitPid, sys_forkPid, process_clonePid, sys_execvePid,
       start_initPid, scheduler_add_processPid, LinkPid, GiveUpPid, boot_schedulePid,
       sys_exitPid, continue_execvePid
       DEF KernelStep
  <2> QED
    BY <2>3, <2>4, <2>5, <2>6, <2>7 DEF Next
<1> QED
  BY <1>3, <1>4

\* No two processes, zombies included, have the same pid, for any number of processes,
\* unless a reschedule strikes a fork between scheduler_next_pid and the end of
\* scheduler_add_process.
THEOREM PidsUnique == Spec => []UniquePids
<1>1. Init => BootInv /\ PidInv
  BY InitBoot, InitPid
<1>2. Inv /\ ListInv /\ BootInv /\ PidInv /\ [Next]_vars => BootInv' /\ PidInv'
  BY NextBoot, NextPid
<1>3. PidInv => UniquePids
  BY DEF PidInv, PidClean, Unique, Known, UniquePids
<1>4. Spec => [](Inv /\ ListInv /\ BootInv /\ PidInv)
  BY <1>1, <1>2, InitInv, NextInv, InitList, NextList, PTL DEF Spec
<1> QED
  BY <1>3, <1>4, PTL

-----------------------------------------------------------------------------
(***************************************************************************)
(* Contexts.                                                               *)
(***************************************************************************)
\* The processes that may run again.
Live == allocated \ (zombie_pss \cup lost)

\* The context r takes p back to where it left user mode, with the registers it had if
\* it was interrupted: at once, or at the end of the system call r is in.
Honest(r, p) ==
    IF r.cs = "user"
    THEN r.eip = left[p].eip /\ (left[p].async => r.eax = left[p].eax)
    ELSE user_mode[p].eip = left[p].eip /\ ~left[p].async

\* All contexts do, but for the process that is in user mode.
Faithful == \A p \in Live : (p = cr3 /\ cpu.cs = "user") \/ Honest(Context(p), p)

ContextInv == Clean => Faithful

\* What ContextPreserved says of a step.
Preserved ==
    Resumes => /\ cpu'.eip = left[cr3'].eip
               /\ left[cr3'].async => cpu'.eax = left[cr3'].eax

\* At boot there is no process.
LEMMA InitContext == Init => ContextInv
  BY DEF Init, ContextInv, Faithful, Live

\* Who is live.
LEMMA LiveFacts ==
    ASSUME Inv, Orderly
    PROVE  /\ Live = Queued \cup Awaited
           /\ Live \subseteq Ps /\ Live \subseteq allocated
           /\ Busy(cpu) => cr3 \in Live
  BY OrderlyFacts DEF Live, Orderly, Accounted, Inv, TypeOK

\* A step that keeps the CPU and the contexts of the others.
LEMMA KeepFaithful ==
    ASSUME Inv, Orderly, Faithful, cr3' = cr3, Live' \subseteq Live,
           UNCHANGED <<current, left>>,
           \A p \in Ps : user_mode'[p].eip = user_mode[p].eip,
           cpu.cs = "kernel" \/ cpu'.cs = "user"
    PROVE  Faithful'
<1> SUFFICES ASSUME NEW p \in Live', ~(p = cr3 /\ cpu'.cs = "user")
             PROVE  Honest(Context(p), p)'
  BY DEF Faithful
<1>1. p \in Live /\ p \in Ps
  BY LiveFacts
<1>2. CASE p = cr3
  <2>1. cpu.cs = "kernel" /\ cpu'.cs # "user"
    BY <1>2
  <2>2. Honest(cpu, p)
    BY <1>1, <1>2, <2>1 DEF Faithful, Context
  <2>3. user_mode[p].eip = left[p].eip /\ ~left[p].async
    BY <2>1, <2>2 DEF Honest
  <2> QED
    BY <1>1, <1>2, <2>1, <2>3 DEF Honest, Context
<1>3. CASE p # cr3
  BY <1>1, <1>3 DEF Faithful, Honest, Context
<1> QED
  BY <1>2, <1>3

\* The return from a system call.
LEMMA ReturnPreserved ==
    ASSUME Inv, Orderly, Faithful, cpu.cs = "kernel", cpu.esp # NULL, NEW eax \in Int,
           Return(eax), cr3' = cr3
    PROVE  /\ \A p \in Ps : user_mode'[p].eip = user_mode[p].eip
           /\ cpu'.cs = "user" /\ Preserved
<1>1. cr3 \in Ps /\ My.ps = cr3
  BY CallContext
<1>2. cr3 \in Live /\ Context(cr3) = cpu
  BY LiveFacts, RunningContext DEF Busy
<1>3. user_mode[cr3].eip = left[cr3].eip /\ ~left[cr3].async
  BY <1>2 DEF Faithful, Honest
<1>4. /\ user_mode' = [user_mode EXCEPT ![cr3].eax = eax]
      /\ cpu' = [user_mode[cr3] EXCEPT !.eax = eax]
      /\ user_mode \in [Ps -> UserContexts]
  BY <1>1 DEF Return, Inv, TypeOK
<1>5. \A p \in Ps : user_mode'[p].eip = user_mode[p].eip
  BY <1>1, <1>4 DEF UserContexts
<1>6. cpu'.cs = "user" /\ cpu'.eip = user_mode[cr3].eip
  BY <1>1, <1>4 DEF UserContexts
<1> QED
  BY <1>3, <1>5, <1>6 DEF Preserved

\* The steps of user mode and of the system calls, and of the boot thread, that neither
\* create a process nor schedule.
LEMMA QuietContext ==
    ASSUME Inv, Orderly, Faithful,
           \/ UserStep \/ sys_other \/ process_clone_fails \/ sys_execve_fails
           \/ sys_wait_returns \/ start_init_fails \/ scheduler_add_process_fails \/ add_end
           \/ sys_fork \/ sys_wait \/ scheduler_add_process \/ add_first \/ add_link
    PROVE  Faithful' /\ Preserved
<1>1. UNCHANGED <<current, left, cr3, zombie_pss, allocated>> /\ lost \subseteq lost'
  BY DEF list, procs, history, UserStep, sys_other, process_clone_fails, sys_execve_fails,
     sys_wait_returns, start_init_fails, scheduler_add_process_fails, add_end, sys_fork,
     sys_wait, scheduler_add_process, add_first, add_link
<1>2. Live' \subseteq Live
  BY <1>1 DEF Live
<1>3. /\ \A p \in Ps : user_mode'[p].eip = user_mode[p].eip
      /\ Preserved
      /\ cpu.cs = "kernel" \/ cpu'.cs = "user"
  <2>1. CASE UserStep
    BY <1>1, <2>1 DEF UserStep, UserRegisters, Preserved, Resumes
  <2>2. CASE \/ sys_other \/ process_clone_fails \/ sys_execve_fails \/ sys_wait_returns
             \/ (sys_wait /\ Return(-1))
    <3>1. cpu.cs = "kernel" /\ cpu.eip \notin BootLabels
      BY <2>2 DEF At, BootLabels, sys_other, process_clone_fails, sys_execve_fails,
         sys_wait_returns, sys_wait
    <3>2. cpu.esp # NULL
      BY <3>1, WhoseLabel
    <3>3. PICK eax \in Int : Return(eax)
      BY <2>2 DEF sys_other, process_clone_fails, sys_execve_fails, sys_wait_returns
    <3> QED
      BY <1>1, <3>1, <3>2, <3>3, ReturnPreserved
  <2>3. CASE scheduler_add_process_fails \/ add_end
    <3>1. AddReturns /\ cpu.cs = "kernel"
      BY <2>3 DEF At, scheduler_add_process_fails, add_end
    <3>2. CASE cpu.esp = NULL
      <4>1. user_mode' = user_mode /\ cpu'.cs = "kernel"
        BY <3>1, <3>2, AddReturnsContext DEF AddReturns
      <4> QED
        BY <3>1, <4>1 DEF Preserved, Resumes
    <3>3. CASE cpu.esp # NULL
      <4>1. kstack[cpu.esp] \in Locals
        BY <3>1, <3>3, CallContext DEF Inv, TypeOK, Ptr
      <4>2. My.pid \in Int /\ Return(My.pid)
        BY <3>1, <3>3, <4>1 DEF My, Locals, AddReturns
      <4> QED
        BY <1>1, <3>1, <3>3, <4>2, ReturnPreserved
    <3> QED
      BY <3>2, <3>3
  <2>4. CASE \/ start_init_fails \/ sys_fork
             \/ At("sys_wait") /\ Goto("wait_loop") /\ user_mode' = user_mode
             \/ scheduler_add_process \/ add_first \/ add_link
    <3>1. /\ cpu.cs = "kernel"
          /\ \E label : Goto(label)
          /\ user_mode' = user_mode
      BY <2>4 DEF At, start_init_fails, sys_fork, scheduler_add_process, add_first, add_link
    <3>2. cpu'.cs = "kernel"
      BY <3>1, WhoseLabel DEF Goto, KernelContexts
    <3> QED
      BY <3>1, <3>2 DEF Preserved, Resumes
  <2>5. sys_wait => \/ Return(-1)
                    \/ At("sys_wait") /\ Goto("wait_loop") /\ user_mode' = user_mode
    BY DEF sys_wait
  <2> QED
    BY <2>1, <2>2, <2>3, <2>4, <2>5
<1> QED
  BY <1>1, <1>2, <1>3, KeepFaithful

\* The entry into a system call records where user mode was left.
LEMMA handle_syscallContext ==
    ASSUME Inv, Orderly, Faithful, handle_syscall PROVE Faithful' /\ Preserved
<1>1. cpu.cs = "user" /\ cr3 \in Ps /\ runnable_pss.start = cr3
  BY UserContext DEF handle_syscall
<1>2. /\ UNCHANGED <<current, cr3, zombie_pss, allocated, lost>>
      /\ user_mode' = [user_mode EXCEPT ![cr3] = cpu]
      /\ left' = [left EXCEPT ![cr3] = Departure(cpu, FALSE)]
      /\ cpu'.cs = "kernel"
  BY <1>1 DEF handle_syscall, list, procs, KernelRegisters, scheduler_get_current_process
<1>3. /\ user_mode'[cr3] = cpu /\ left'[cr3] = Departure(cpu, FALSE)
      /\ \A p \in Ps : p # cr3 => user_mode'[p] = user_mode[p] /\ left'[p] = left[p]
  BY <1>1, <1>2 DEF Inv, TypeOK
<1>4. Live' = Live /\ Live \subseteq Ps
  BY <1>2, LiveFacts DEF Live
<1>5. Honest(cpu, cr3)'
  BY <1>2, <1>3 DEF Honest, Departure
<1>6. \A p \in Live : p # cr3 => Honest(Context(p), p)'
  BY <1>2, <1>3, <1>4 DEF Faithful, Honest, Context
<1> QED
  BY <1>2, <1>4, <1>5, <1>6 DEF Faithful, Context, Preserved, Resumes

\* A process is created with the context it is to start from.
LEMMA BirthContext ==
    ASSUME Inv, Orderly, Faithful, NEW new \in Ps, new \notin allocated,
           NEW child, child.cs = "user",
           cpu.cs = "kernel", cpu'.cs = "kernel",
           cpu.esp = NULL => cr3 = NULL,
           UNCHANGED <<cr3, zombie_pss, lost>>,
           allocated' = allocated \cup {new},
           user_mode' = [user_mode EXCEPT ![new] = child],
           current' = [current EXCEPT ![new] = child],
           left' = [left EXCEPT ![new] = Departure(child, TRUE)]
    PROVE  Faithful' /\ Preserved
<1>1. Live' \subseteq Live \cup {new} /\ Live \subseteq Ps /\ new \notin Live
  BY LiveFacts DEF Live
<1>2. new # cr3
  BY LiveFacts, NULLAssumption DEF Busy
<1>3. /\ current'[new] = child /\ left'[new] = Departure(child, TRUE)
      /\ \A p \in Ps : p # new => /\ current'[p] = current[p] /\ left'[p] = left[p]
                                  /\ user_mode'[p] = user_mode[p]
  BY DEF Inv, TypeOK
<1>4. Honest(Context(new), new)'
  BY <1>2, <1>3 DEF Honest, Context, Departure
<1>5. ASSUME NEW p \in Live PROVE Honest(Context(p), p)'
  <2>1. /\ p \in Ps /\ current'[p] = current[p] /\ left'[p] = left[p]
        /\ user_mode'[p] = user_mode[p]
    BY <1>1, <1>3
  <2>2. Honest(Context(p), p)
    BY DEF Faithful
  <2>3. CASE p = cr3
    BY <2>1, <2>2, <2>3 DEF Honest, Context
  <2>4. CASE p # cr3
    BY <2>1, <2>2, <2>4 DEF Honest, Context
  <2> QED
    BY <2>3, <2>4
<1> QED
  BY <1>1, <1>4, <1>5 DEF Faithful, Preserved, Resumes

LEMMA BirthsContext ==
    ASSUME Inv, Orderly, Faithful, NEW new \in Ps,
           process_clone(new) \/ sys_execve(new) \/ start_init(new)
    PROVE  Faithful' /\ Preserved
<1>1. cpu.cs = "kernel" /\ \E label : Goto(label)
  BY DEF process_clone, sys_execve, start_init, At
<1>2. cpu'.cs = "kernel"
  BY <1>1, WhoseLabel DEF Goto, KernelContexts
<1>3. cpu.esp = NULL => cr3 = NULL /\ cpu.eip = "start_init"
  <2> SUFFICES ASSUME cpu.esp = NULL PROVE cr3 = NULL /\ cpu.eip = "start_init"
    OBVIOUS
  <2>1. cpu.eip \in BootLabels
    BY <1>1, WhoseLabel
  <2>2. cpu.eip = "start_init"
    BY <2>1 DEF process_clone, sys_execve, start_init, At, BootLabels
  <2> QED
    BY <1>1, <2>2 DEF Orderly, BootOK, BootPhase
<1>4. new \notin allocated
  <2>1. CASE start_init(new)
    <3>1. cpu.eip = "start_init"
      BY <2>1 DEF start_init, At
    <3>2. cpu.esp = NULL
      BY <1>1, <3>1, WhoseLabel DEF CallLabels, Syscalls
    <3> QED
      BY <1>1, <3>1, <3>2 DEF Orderly, BootOK
  <2> QED
    BY <2>1 DEF process_clone, sys_execve
<1>5. /\ UNCHANGED <<cr3, zombie_pss, lost>>
      /\ allocated' = allocated \cup {new}
  BY DEF process_clone, sys_execve, start_init, list
<1>6. PICK child : /\ child.cs = "user"
                   /\ user_mode' = [user_mode EXCEPT ![new] = child]
                   /\ current' = [current EXCEPT ![new] = child]
                   /\ left' = [left EXCEPT ![new] = Departure(child, TRUE)]
  <2>1. CASE process_clone(new)
    <3> DEFINE child == [user_mode[My.ps] EXCEPT !.eax = 0]
    <3>1. cpu.esp # NULL
      BY <1>3, <2>1 DEF process_clone, At
    <3>2. child.cs = "user"
      BY <1>1, <3>1, CallContext DEF Inv, TypeOK, UserContexts
    <3>3. /\ user_mode' = [user_mode EXCEPT ![new] = child]
          /\ current' = [current EXCEPT ![new] = child]
          /\ left' = [left EXCEPT ![new] = Departure(child, TRUE)]
      BY <2>1 DEF process_clone
    <3> HIDE DEF child
    <3> QED
      BY <3>2, <3>3
  <2>2. CASE sys_execve(new) \/ start_init(new)
    <3> DEFINE child == UserRegisters(ENTRY, 0)
    <3>1. child.cs = "user"
      BY DEF UserRegisters
    <3>2. /\ user_mode' = [user_mode EXCEPT ![new] = child]
          /\ current' = [current EXCEPT ![new] = child]
          /\ left' = [left EXCEPT ![new] = Departure(child, TRUE)]
      BY <2>2 DEF sys_execve, start_init
    <3> HIDE DEF child
    <3> QED
      BY <3>1, <3>2
  <2> QED
    BY <2>1, <2>2
<1> QED
  BY <1>1, <1>2, <1>3, <1>4, <1>5, <1>6, BirthContext

\* A schedule resumes a process that was saved faithfully.
LEMMA ScheduleFaithful ==
    ASSUME Orderly', NEW L \in Lists, NEW Q, Listed(L, Q), NEW back, Schedule(L, back),
           L.start = NULL => back.cs = "kernel" /\ back.eip \in {"hang", "halt"},
           \A p \in Live' : Honest(current[p], p)',
           \A p \in Live' : left'[p] = left[p] \/ (p = cr3 /\ cpu.cs = "user")
    PROVE  Faithful' /\ Preserved
<1>1. /\ Queued' = Q
      /\ \A p \in Q : Context(p)' = current'[p]
      /\ Q # {} => cr3' \in Q /\ cpu' = current'[cr3']
      /\ Q = {} => L.start = NULL /\ cpu' = back
  BY ScheduleContext
<1>2. Live' = Queued' \cup Awaited' /\ Queued' \cap Awaited' = {}
  BY DEF Live, Orderly, Accounted
<1>3. CASE Q = {}
  <2>1. Holders' = {} /\ cpu'.cs = "kernel"
    BY <1>1, <1>3
       DEF Holders, RunningHolder, SavedHolders, AboutToQueue, PendingLabels
  <2>2. Live' = {}
    BY <1>1, <1>2, <1>3, <2>1 DEF Awaited
  <2> QED
    BY <2>1, <2>2 DEF Faithful, Preserved, Resumes
<1>4. CASE Q # {}
  <2>1. cr3' \in Live' /\ cr3' \notin Awaited' /\ cpu' = current'[cr3']
    BY <1>1, <1>2, <1>4
  <2>2. \A p \in Live' : Context(p)' = current'[p]
    BY <1>1, <1>2, <2>1 DEF Context
  <2>3. Faithful'
    BY <2>2 DEF Faithful, Honest
  <2>4. Preserved
    <3> SUFFICES ASSUME Resumes
                 PROVE  /\ cpu'.eip = left[cr3'].eip
                        /\ left[cr3'].async => cpu'.eax = left[cr3'].eax
      BY DEF Preserved
    <3>1. left'[cr3'] = left[cr3']
      BY <2>1 DEF Resumes
    <3>2. \A p \in Live' : current'[p].cs = "user" =>
             /\ current'[p].eip = left'[p].eip
             /\ left'[p].async => current'[p].eax = left'[p].eax
      BY DEF Honest
    <3> QED
      BY <2>1, <3>1, <3>2 DEF Resumes
  <2> QED
    BY <2>3, <2>4
<1> QED
  BY <1>3, <1>4

\* The PIT interrupt, outside the windows: it saves what it interrupts.
LEMMA PitContext ==
    ASSUME Inv, Orderly, Orderly', Faithful, scheduler_schedule_on_interrupt,
           Window \cap {"add", "boot"} = {}
    PROVE  Faithful' /\ Preserved
<1>1. cpu.cs = "user" \/ (cpu.esp # NULL /\ cpu.eip \notin AddWindow)
  BY DEF Window
<1>2. /\ cr3 \in Ps /\ runnable_pss.start = cr3 /\ cr3 # NULL
      /\ cr3 \in Queued /\ Context(cr3) = cpu
  BY <1>1, RunningContext, NULLAssumption DEF Busy, Inv, HeadOK
<1>3. cpu.cs = "kernel" \/ cpu.cs = "user"
  BY DEF Inv, TypeOK, Registers, UserContexts, KernelContexts
<1>4. /\ current' = [current EXCEPT ![cr3] = cpu]
      /\ user_mode' = IF cpu.cs = "user" THEN [user_mode EXCEPT ![cr3] = cpu] ELSE user_mode
      /\ left' = IF cpu.cs = "user" THEN [left EXCEPT ![cr3] = Departure(cpu, TRUE)] ELSE left
      /\ Schedule(runnable_pss, cpu)
      /\ UNCHANGED <<allocated, zombie_pss, lost>>
  BY <1>2 DEF scheduler_schedule_on_interrupt, SaveRegisters, scheduler_get_current_process,
     procs
<1>5. /\ current'[cr3] = cpu
      /\ cpu.cs = "user" => left'[cr3] = Departure(cpu, TRUE)
      /\ cpu.cs # "user" => left' = left /\ user_mode' = user_mode
      /\ \A p \in Ps : p # cr3 => /\ current'[p] = current[p] /\ left'[p] = left[p]
                                  /\ user_mode'[p] = user_mode[p]
  BY <1>2, <1>4 DEF Inv, TypeOK
<1>6. Live' = Live /\ Live \subseteq Ps /\ cr3 \in Live
  BY <1>1, <1>3, <1>4, LiveFacts DEF Live, Busy
<1>7. Listed(runnable_pss, Queued) /\ runnable_pss \in Lists
  BY <1>1, TagsAssumption
     DEF Orderly, Shape, At, AddWindow, Inv, TypeOK, Registers, UserContexts, KernelContexts,
         Labels
<1>8. ASSUME NEW p \in Live
      PROVE  /\ Honest(current[p], p)'
             /\ left'[p] = left[p] \/ (p = cr3 /\ cpu.cs = "user")
  <2>1. CASE p # cr3
    <3>1. Honest(current[p], p)
      BY <2>1 DEF Faithful, Context
    <3> QED
      BY <1>5, <1>6, <2>1, <3>1 DEF Honest
  <2>2. CASE p = cr3 /\ cpu.cs = "user"
    BY <1>5, <2>2 DEF Honest, Departure
  <2>3. CASE p = cr3 /\ cpu.cs # "user"
    <3>1. Honest(cpu, cr3)
      BY <1>2, <2>3 DEF Faithful
    <3> QED
      BY <1>5, <2>3, <3>1 DEF Honest
  <2> QED
    BY <2>1, <2>2, <2>3
<1> QED
  BY <1>2, <1>4, <1>6, <1>7, <1>8, ScheduleFaithful

\* sys_yield, which resumes behind the system call, and the loop of sys_wait.
LEMMA GiveUpContext ==
    ASSUME Inv, Orderly, Orderly', Faithful, sys_yield \/ snapshot_and_schedule
    PROVE  Faithful' /\ Preserved
<1>1. cpu.cs = "kernel" /\ cpu.eip \in {"sys_yield", "wait_loop"}
  BY DEF sys_yield, snapshot_and_schedule, At
<1>2. cpu.esp # NULL
  BY <1>1, WhoseLabel DEF BootLabels
<1>3. /\ cr3 \in Ps /\ runnable_pss.start = cr3 /\ My.ps = cr3
      /\ Context(cr3) = cpu /\ cr3 # NULL /\ cr3 \in Live
  BY <1>1, <1>2, CallContext, RunningContext, LiveFacts, NULLAssumption DEF Busy
<1>4. user_mode[cr3].eip = left[cr3].eip /\ ~left[cr3].async
  BY <1>1, <1>3 DEF Faithful, Honest
<1>5. /\ UNCHANGED <<allocated, zombie_pss, lost, left>>
      /\ \E back : Schedule(runnable_pss, back)
  BY DEF sys_yield, snapshot_and_schedule, procs, history
<1>6. /\ user_mode'[cr3].eip = left[cr3].eip
      /\ current'[cr3].cs = "user" => current'[cr3].eip = left[cr3].eip
      /\ \A p \in Ps : p # cr3 => current'[p] = current[p] /\ user_mode'[p] = user_mode[p]
  <2>1. CASE sys_yield
    <3>1. /\ user_mode' = [user_mode EXCEPT ![cr3].eax = 0]
          /\ current' = [current EXCEPT ![cr3] = user_mode'[cr3]]
      BY <1>3, <2>1 DEF sys_yield, scheduler_get_current_process
    <3>2. user_mode'[cr3].eip = user_mode[cr3].eip
      BY <1>3, <3>1 DEF Inv, TypeOK, UserContexts
    <3> QED
      BY <1>3, <1>4, <3>1, <3>2 DEF Inv, TypeOK
  <2>2. CASE snapshot_and_schedule
    <3>1. /\ current' = [current EXCEPT ![cr3] = KernelRegisters("wait_loop", cpu.esp, FALSE)]
          /\ user_mode' = user_mode
      BY <1>3, <2>2 DEF snapshot_and_schedule
    <3> QED
      BY <1>3, <1>4, <3>1 DEF Inv, TypeOK, KernelRegisters
  <2> QED
    BY <2>1, <2>2
<1>7. Live' = Live /\ Live \subseteq Ps
  BY <1>5, LiveFacts DEF Live
<1>8. Listed(runnable_pss, Queued) /\ runnable_pss \in Lists
  BY <1>1 DEF Orderly, Shape, At, Inv, TypeOK
<1>9. ASSUME NEW p \in Live PROVE Honest(current[p], p)'
  <2>1. CASE p # cr3
    <3>1. Honest(current[p], p)
      BY <2>1 DEF Faithful, Context
    <3> QED
      BY <1>5, <1>6, <1>7, <2>1, <3>1 DEF Honest
  <2>2. CASE p = cr3
    BY <1>4, <1>5, <1>6, <2>2 DEF Honest
  <2> QED
    BY <2>1, <2>2
<1> QED
  BY <1>3, <1>5, <1>7, <1>8, <1>9, ScheduleFaithful

\* A schedule that saves nothing: the boot thread, and the process that goes.
LEMMA LeaveContext ==
    ASSUME Inv, Orderly, Orderly', Faithful, NEW L \in Lists, NEW Q, Listed(L, Q), NEW back,
           Schedule(L, back), back.cs = "kernel", back.eip \in {"hang", "halt"},
           UNCHANGED <<current, user_mode, left>>, Live' \subseteq Live \ {cr3}
    PROVE  Faithful' /\ Preserved
<1>1. Live \subseteq Ps
  BY LiveFacts
<1>2. \A p \in Live' : Honest(current[p], p)
  BY DEF Faithful, Context
<1>3. \A p \in Live' : Honest(current[p], p)'
  BY <1>2 DEF Honest
<1> QED
  BY <1>3, ScheduleFaithful

LEMMA boot_scheduleContext ==
    ASSUME Inv, Orderly, Orderly', Faithful, boot_schedule PROVE Faithful' /\ Preserved
<1>1. cpu.cs = "kernel" /\ cpu.eip = "boot_schedule" /\ ~At("add_end")
  BY DEF boot_schedule, At
<1>2. cpu.esp = NULL
  BY <1>1, WhoseLabel DEF CallLabels, Syscalls
<1>3. cr3 = NULL
  BY <1>1, <1>2 DEF Orderly, BootOK, BootPhase
<1> DEFINE back == KernelRegisters("hang", NULL, TRUE)
<1>4. /\ UNCHANGED <<allocated, zombie_pss, lost, user_mode, current, left>>
      /\ Schedule(runnable_pss, back)
  BY DEF boot_schedule, procs, history
<1>5. back.cs = "kernel" /\ back.eip = "hang"
  BY DEF KernelRegisters
<1> HIDE DEF back
<1>6. Live' \subseteq Live \ {cr3}
  BY <1>3, <1>4, LiveFacts, NULLAssumption DEF Live
<1>7. Listed(runnable_pss, Queued) /\ runnable_pss \in Lists
  BY <1>1 DEF Orderly, Shape, Inv, TypeOK
<1> QED
  BY <1>4, <1>5, <1>6, <1>7, LeaveContext

LEMMA sys_exitContext ==
    ASSUME Inv, Orderly, Orderly', Faithful, sys_exit PROVE Faithful' /\ Preserved
<1>1. cpu.cs = "kernel" /\ cpu.eip = "sys_exit" /\ ~At("add_end")
  BY DEF sys_exit, At
<1>2. cpu.esp # NULL
  BY <1>1, WhoseLabel DEF BootLabels
<1>3. cr3 \in Ps /\ runnable_pss.start = cr3 /\ cr3 # NULL
  BY <1>1, <1>2, CallContext, NULLAssumption
<1>4. /\ UNCHANGED <<allocated, user_mode, current, left>>
      /\ Schedule(RemoveHead(runnable_pss), Halt)
      /\ zombie_pss' \cup lost' = zombie_pss \cup lost \cup {cr3}
  BY <1>3 DEF sys_exit, procs, scheduler_get_current_process
<1>5. Halt.cs = "kernel" /\ Halt.eip = "halt"
  BY DEF Halt, KernelRegisters
<1>6. Listed(RemoveHead(runnable_pss), Queued \ {cr3}) /\ RemoveHead(runnable_pss) \in Lists
  BY <1>1, <1>3, RemoveListed, RemoveHeadType DEF Orderly, Shape, Inv, TypeOK
<1>7. Live' \subseteq Live \ {cr3}
  BY <1>4 DEF Live
<1> QED
  BY <1>4, <1>5, <1>6, <1>7, LeaveContext

LEMMA continue_execveContext ==
    ASSUME Inv, Orderly, Orderly', Faithful, continue_execve PROVE Faithful' /\ Preserved
<1>1. cpu.cs = "kernel" /\ cpu.eip = "switch_execve" /\ AboutToQueue(cpu) /\ ~At("add_end")
  BY DEF continue_execve, At, AboutToQueue, PendingLabels
<1>2. cpu.esp # NULL
  BY <1>1, WhoseLabel DEF BootLabels
<1>3. cr3 \in Ps /\ runnable_pss.start = cr3 /\ cr3 # NULL
  BY <1>1, <1>2, CallContext, NULLAssumption
<1>4. My.new \in Ps /\ My.new \notin Queued
  BY <1>1, OrderlyFacts
<1>5. /\ UNCHANGED <<zombie_pss, user_mode, current, left>>
      /\ lost \subseteq lost' /\ allocated' = allocated \ {cr3}
  BY <1>3 DEF continue_execve, scheduler_get_current_process
<1>6. Halt.cs = "kernel" /\ Halt.eip = "halt"
  BY DEF Halt, KernelRegisters
<1> DEFINE L == RemoveHead(runnable_pss)
<1>7. Listed(L, Queued \ {cr3}) /\ L \in Lists
  BY <1>1, <1>3, RemoveListed, RemoveHeadType DEF Orderly, Shape, Inv, TypeOK
<1>8. /\ Listed(AddProcess(L, My.new), (Queued \ {cr3}) \cup {My.new})
      /\ AddProcess(L, My.new) \in Lists
  <2> HIDE DEF L
  <2> QED
    BY <1>4, <1>7, AddListed, AddProcessType
<1>9. PICK M, Q : M \in Lists /\ Listed(M, Q) /\ Schedule(M, Halt)
  BY <1>7, <1>8 DEF continue_execve
<1>10. Live' \subseteq Live \ {cr3}
  BY <1>5 DEF Live
<1> QED
  BY <1>5, <1>6, <1>9, <1>10, LeaveContext

\* A step, or a stutter, while no reschedule has struck the stores or the boot thread.
LEMMA CleanContext ==
    ASSUME Inv, ListInv, ContextInv, [Next]_vars, Clean' PROVE Faithful' /\ Preserved
<1>1. \/ windows' = windows
      \/ /\ scheduler_handle_pit_interrupt /\ scheduler_schedule_on_interrupt
         /\ windows' = windows \cup Window
  BY WindowsStep DEF scheduler_schedule_on_interrupt
<1>2. Orderly /\ Faithful /\ Orderly'
  BY <1>1, NextList DEF Clean, ListInv, ContextInv
<1>3. CASE UNCHANGED <<allocated, zombie_pss, lost, user_mode, current, cpu, cr3, left>>
  BY <1>2, <1>3 DEF Faithful, Live, Honest, Context, Preserved, Resumes
<1>4. CASE UNCHANGED vars \/ Spin
  BY <1>3, <1>4 DEF vars, Spin
<1>5. CASE scheduler_handle_pit_interrupt
  <2>1. CASE ~(ms + SCHEDULER_PIT_INTERVAL >= SCHEDULER_TIME_SLICE)
    BY <1>3, <1>5, <2>1 DEF scheduler_handle_pit_interrupt, list, procs, history
  <2>2. CASE ms + SCHEDULER_PIT_INTERVAL >= SCHEDULER_TIME_SLICE
    <3>1. scheduler_schedule_on_interrupt /\ windows' = windows \cup Window
      BY <1>5, <2>2 DEF scheduler_handle_pit_interrupt, scheduler_schedule_on_interrupt
    <3>2. Window \cap {"add", "boot"} = {}
      BY <3>1 DEF Clean
    <3> QED
      BY <1>2, <3>1, <3>2, PitContext
  <2> QED
    BY <2>1, <2>2
<1>6. CASE UserStep \/ handle_syscall
  BY <1>2, <1>6, QuietContext, handle_syscallContext
<1>7. CASE KernelStep
  BY <1>2, <1>7, QuietContext, BirthsContext, GiveUpContext, boot_scheduleContext,
     sys_exitContext, continue_execveContext
     DEF KernelStep
<1> QED
  BY <1>4, <1>5, <1>6, <1>7 DEF Next

\* A step of any kind: once the boot thread has been struck nobody is resumed.
LEMMA StepContext ==
    Inv /\ ListInv /\ BootInv /\ ContextInv /\ [Next]_vars =>
        ContextInv' /\ ("add" \notin windows' => Preserved)
<1> SUFFICES ASSUME Inv, ListInv, BootInv, ContextInv, [Next]_vars
             PROVE  ContextInv' /\ ("add" \notin windows' => Preserved)
  OBVIOUS
<1>1. CASE Clean'
  BY <1>1, CleanContext DEF ContextInv
<1>2. CASE ~Clean'
  <2>1. ASSUME "add" \notin windows' PROVE Preserved
    <3>1. Struck'
      BY <1>2, <2>1 DEF Clean, Struck
    <3>2. cpu'.cs = "kernel"
      BY <3>1, StruckStep
    <3> QED
      BY <3>2 DEF Preserved, Resumes
  <2> QED
    BY <1>2, <2>1 DEF ContextInv
<1> QED
  BY <1>1, <1>2

\* Whatever was preempted where, and for any number of processes: a process is resumed in
\* user mode at the program point at which it left it, and with its registers if it was
\* interrupted, until a reschedule strikes the stores of scheduler_add_process.
THEOREM ContextsPreserved == Spec => ContextPreserved
<1>1. Init => BootInv /\ ContextInv
  BY InitBoot, InitContext
<1>2. Inv /\ ListInv /\ BootInv /\ ContextInv /\ [Next]_vars => BootInv' /\ ContextInv'
  BY NextBoot, StepContext
<1> DEFINE Resumption == (Resumes /\ "add" \notin windows') =>
                            /\ cpu'.eip = left[cr3'].eip
                            /\ left[cr3'].async => cpu'.eax = left[cr3'].eax
<1>3. Inv /\ ListInv /\ BootInv /\ ContextInv /\ [Next]_vars => [Resumption]_vars
  BY StepContext DEF Preserved
<1>4. Spec => [](Inv /\ ListInv /\ BootInv /\ ContextInv)
  BY <1>1, <1>2, InitInv, NextInv, InitList, NextList, PTL DEF Spec
<1>5. ContextPreserved <=> [][Resumption]_vars
  BY DEF ContextPreserved
<1> HIDE DEF Resumption
<1> QED
  BY <1>3, <1>4, <1>5, PTL DEF Spec
=============================================================================
