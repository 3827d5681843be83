--------------------------- MODULE SchedulerProofs ---------------------------
(***************************************************************************)
(* Proofs about Scheduler, for every set of processes, every set of system *)
(* calls, every time slice and every number of kmalloc failures, and       *)
(* without the restriction to runs that no reschedule strikes in a         *)
(* critical window: the head of the run queue is the running process even  *)
(* when the list has been corrupted.                                       *)
(***************************************************************************)
EXTENDS Scheduler, TLAPS

\* Where the boot thread can be, and where a system call can be.
BootLabels == {"start_init", "add", "add_first", "add_link", "add_end",
               "boot_schedule", "hang", "halt", "fault"}
CallLabels == Syscalls \cup {"process_clone", "add", "add_link", "add_end",
                             "switch_execve", "wait_loop"}

\* Where the local new is in use.
NewLabels == {"add", "add_first", "add_link", "add_end", "switch_execve"}

\* The context r, when it is resumed with the page directory of p: a system call
\* is on the kernel stack of p and found p to be the current process; anything
\* else in the kernel is the boot thread.
WellFormed(r, p) ==
    r.cs = "kernel" =>
        /\ r.esp # NULL => r.esp = p /\ kstack[p].ps = p /\ r.eip \in CallLabels
        /\ r.esp = NULL => r.eip \in BootLabels
        /\ r.eip \in NewLabels => kstack[r.esp].new \in Ps

\* A process, and not the boot thread, is on the CPU.
Busy(r) == r.cs = "user" \/ r.esp # NULL

ContextsOK ==
    /\ \A p \in Ps : WellFormed(current[p], p)
    /\ WellFormed(cpu, cr3)

HeadOK == Busy(cpu) => cr3 \in Ps /\ runnable_pss.start = cr3

Inv == TypeOK /\ ContextsOK /\ HeadOK

-----------------------------------------------------------------------------
(***************************************************************************)
(* The operators the actions are built from.                               *)
(***************************************************************************)

\* A store through a list pointer, NULL included, leaves the next fields typed.
LEMMA StoreType ==
    ASSUME NEW next \in [Ps -> Ptr], NEW p \in Ptr, NEW v \in Ptr
    PROVE  Store(next, p, v) \in [Ps -> Ptr]
  BY DEF Store, Ptr

\* Rotating a list gives a list, and a list with a head keeps having one.
LEMMA RotateType ==
    ASSUME NEW L \in Lists
    PROVE  /\ Rotate(L) \in Lists
           /\ L.start # NULL => Rotate(L).start # NULL
           /\ L.start = NULL => Rotate(L).start = NULL
<1>1. CASE L.start = NULL \/ L.next[L.start] = NULL
  BY <1>1 DEF Rotate
<1>2. CASE ~(L.start = NULL \/ L.next[L.start] = NULL)
  <2>1. L.start \in Ptr /\ L.end \in Ptr /\ L.next \in [Ps -> Ptr]
    BY DEF Lists
  <2>2. L.start \in Ps /\ L.next[L.start] \in Ptr
    BY <2>1, <1>2 DEF Ptr
  <2>3. [L.next EXCEPT ![L.start] = NULL] \in [Ps -> Ptr]
    BY <2>1, <2>2 DEF Ptr
  <2>4. Store([L.next EXCEPT ![L.start] = NULL], L.end, L.start) \in [Ps -> Ptr]
    BY <2>1, <2>3, StoreType
  <2>5. QED
    BY <1>2, <2>1, <2>2, <2>4 DEF Rotate, Lists
<1>3. QED
  BY <1>1, <1>2

\* Removing the head of a list that has one gives a list.
LEMMA RemoveHeadType ==
    ASSUME NEW L \in Lists, L.start \in Ps
    PROVE  RemoveHead(L) \in Lists
  BY DEF RemoveHead, Lists, Ptr

\* Appending a process gives a list.
LEMMA AddProcessType ==
    ASSUME NEW L \in Lists, NEW p \in Ps
    PROVE  AddProcess(L, p) \in Lists
<1>1. [L.next EXCEPT ![p] = NULL] \in [Ps -> Ptr]
  BY DEF Lists, Ptr
<1>2. Store([L.next EXCEPT ![p] = NULL], L.end, p) \in [Ps -> Ptr]
  BY <1>1, StoreType DEF Lists, Ptr
<1>3. QED
  BY <1>1, <1>2 DEF AddProcess, Lists, Ptr

\* Contexts are built from program points and labels.
LEMMA ContextTypes ==
    /\ \A tag \in Tags, eax \in Int : UserRegisters(tag, eax) \in UserContexts
    /\ \A l \in Labels, s \in Ptr, f \in BOOLEAN :
          KernelRegisters(l, s, f) \in KernelContexts
    /\ \A r \in UserContexts, eax \in Int : [r EXCEPT !.eax = eax] \in UserContexts
    /\ \A r \in KernelContexts, l \in Labels : [r EXCEPT !.eip = l] \in KernelContexts
    /\ \A r \in UserContexts, a \in BOOLEAN : Departure(r, a) \in Departures
  BY DEF UserRegisters, KernelRegisters, UserContexts, KernelContexts, Departure,
         Departures, Ptr

\* Marking a walk as torn, or as done, changes nothing else of the stacks.
LEMMA TornLemma ==
    ASSUME NEW stacks \in [Ptr -> Locals], NEW s \in Ptr, NEW b \in BOOLEAN
    PROVE  LET new == [stacks EXCEPT ![s].torn = b] IN
           /\ new \in [Ptr -> Locals]
           /\ \A q \in Ptr : new[q].ps = stacks[q].ps /\ new[q].new = stacks[q].new
<1> DEFINE l == [stacks[s] EXCEPT !.torn = b]
<1>1. l \in Locals /\ l.ps = stacks[s].ps /\ l.new = stacks[s].new
  <2>1. stacks[s] \in Locals
    OBVIOUS
  <2>2. QED
    BY <2>1, Zenon DEF Locals
<1> HIDE DEF l
<1>2. [stacks EXCEPT ![s].torn = b] = [stacks EXCEPT ![s] = l]
  BY DEF l
<1>3. QED
  BY <1>1, <1>2

\* scheduler_schedule leaves the CPU with a well formed context of the head of
\* the list, provided the saved contexts are well formed and what it returns to,
\* if the list is empty, is a place where the boot thread may be.
LEMMA ScheduleLemma ==
    ASSUME NEW L \in Lists, NEW back,
           Schedule(L, back),
           cr3 \in Ptr,
           current' \in [Ps -> Registers],
           \A p \in Ps : WellFormed(current[p], p)',
           L.start = NULL => /\ back \in KernelContexts
                             /\ back.esp = NULL
                             /\ back.eip \in {"hang", "halt"}
    PROVE  /\ runnable_pss' \in Lists
           /\ cpu' \in Registers
           /\ cr3' \in Ptr
           /\ WellFormed(cpu, cr3)'
           /\ HeadOK'
<1> DEFINE R == Rotate(L)
<1>1. R \in Lists /\ runnable_pss' = R
  BY RotateType DEF Schedule
<1>2. CASE L.start = NULL
  <2>1. cpu' = back /\ cr3' = cr3
    BY <1>2, RotateType DEF Schedule
  <2>2. cpu'.cs = "kernel" /\ cpu'.esp = NULL /\ cpu'.eip \in BootLabels \ NewLabels
    BY <1>2, <2>1 DEF KernelContexts, BootLabels, NewLabels
  <2>3. QED
    BY <1>1, <1>2, <2>1, <2>2 DEF WellFormed, HeadOK, Busy, Registers
<1>3. CASE L.start # NULL
  <2>1. R.start # NULL /\ R.start \in Ps
    BY <1>1, <1>3, RotateType DEF Lists, Ptr
  <2>2. cpu' = current'[R.start] /\ cr3' = R.start
    BY <2>1 DEF Schedule
  <2>3. QED
    BY <1>1, <2>1, <2>2 DEF WellFormed, HeadOK, Ptr
<1>4. QED
  BY <1>2, <1>3

-----------------------------------------------------------------------------
(***************************************************************************)
(* What the invariant says of the running context.                         *)
(***************************************************************************)

\* In user mode, the process on the CPU is the head of the queue.
LEMMA UserContext ==
    ASSUME Inv, cpu.cs = "user"
    PROVE  cpu \in UserContexts /\ cr3 \in Ps /\ runnable_pss.start = cr3
  BY DEF Inv, TypeOK, HeadOK, Busy, Registers, KernelContexts

\* A kernel context of a process is a system call of the head of the queue.
LEMMA CallContext ==
    ASSUME Inv, cpu.cs = "kernel", cpu.esp # NULL
    PROVE  /\ cpu \in KernelContexts
           /\ cpu.esp \in Ps /\ cr3 = cpu.esp /\ runnable_pss.start = cr3
           /\ My.ps = cr3
           /\ cpu.eip \in CallLabels
  BY DEF Inv, TypeOK, HeadOK, Busy, ContextsOK, WellFormed, Registers, UserContexts, My

\* The labels of system calls are not those of the boot thread, and vice versa.
LEMMA WhoseLabel ==
    ASSUME Inv, cpu.cs = "kernel"
    PROVE  /\ cpu \in KernelContexts
           /\ cpu.eip \notin BootLabels => cpu.esp # NULL
           /\ cpu.eip \notin CallLabels => cpu.esp = NULL
           /\ cpu.eip \in NewLabels => My.new \in Ps
  BY DEF Inv, TypeOK, ContextsOK, WellFormed, Registers, UserContexts, My

\* Saved contexts stay well formed when the ps fields of the stacks stay, the new
\* fields stay or name a process, and contexts stay or are set to user mode.
LEMMA KeepContexts ==
    ASSUME Inv,
           \A q \in Ptr : /\ kstack'[q].ps = kstack[q].ps
                          /\ kstack'[q].new = kstack[q].new \/ kstack'[q].new \in Ps,
           \A p \in Ps : current'[p] = current[p] \/ current'[p].cs = "user"
    PROVE  \A p \in Ps : WellFormed(current[p], p)'
<1> SUFFICES ASSUME NEW p \in Ps PROVE WellFormed(current[p], p)'
  OBVIOUS
<1>1. WellFormed(current[p], p) /\ current[p].esp \in Ptr
  BY DEF Inv, ContextsOK, TypeOK, Registers, UserContexts, KernelContexts, Ptr
<1>2. QED
  BY <1>1 DEF WellFormed, Ptr

\* The boot state satisfies the invariant.
LEMMA InitInv == Init => Inv
<1> SUFFICES ASSUME Init PROVE Inv
  OBVIOUS
<1> USE NULLAssumption, TagsAssumption, SliceAssumption
<1>1. /\ UserRegisters(ENTRY, 0) \in UserContexts
      /\ Departure(UserRegisters(ENTRY, 0), TRUE) \in Departures
      /\ cpu \in KernelContexts
  <2>1. UserRegisters(ENTRY, 0) \in UserContexts
    BY ContextTypes
  <2>2. Departure(UserRegisters(ENTRY, 0), TRUE) \in Departures
    BY <2>1, ContextTypes
  <2>3. "start_init" \in Labels /\ NULL \in Ptr
    BY DEF Labels, Ptr
  <2>4. cpu \in KernelContexts
    BY <2>3, ContextTypes DEF Init
  <2>5. QED
    BY <2>1, <2>2, <2>4
<1>2. NoLocals \in Locals /\ NULL \in Ptr
  BY DEF NoLocals, Locals, Ptr
<1>3. runnable_pss \in Lists
  BY <1>2 DEF Init, Lists
<1>4. TypeOK
  <2>1. user_mode \in [Ps -> UserContexts] /\ current \in [Ps -> Registers]
    BY <1>1 DEF Init, Registers
  <2>2. left \in [Ps -> Departures] /\ kstack \in [Ptr -> Locals]
    BY <1>1, <1>2 DEF Init
  <2>3. cpu \in Registers /\ cr3 \in Ptr
    BY <1>1, <1>2 DEF Init, Registers
  <2>4. id \in [Ps -> Nat] /\ parent_id \in [Ps -> Nat] /\ ms \in Nat /\ oom \in 0..MAX_OOM
    BY DEF Init
  <2>5. QED
    BY <1>3, <2>1, <2>2, <2>3, <2>4 DEF Init, TypeOK
<1>5. ContextsOK /\ HeadOK
  BY DEF Init, ContextsOK, HeadOK, WellFormed, Busy, UserRegisters, KernelRegisters,
         BootLabels, NewLabels
<1>6. QED
  BY <1>4, <1>5 DEF Inv

-----------------------------------------------------------------------------
(***************************************************************************)
(* Every step preserves the invariant.                                     *)
(***************************************************************************)

\* User mode instructions.
LEMMA UserStepInv ==
    ASSUME Inv, UserStep PROVE Inv'
<1>1. cpu \in UserContexts /\ cpu' \in UserContexts
  BY UserContext, ContextTypes DEF UserStep
<1>2. TypeOK'
  BY <1>1 DEF Inv, UserStep, TypeOK, list, procs, history, Registers
<1>3. cpu'.cs = "user" /\ cpu.cs = "user"
  BY <1>1 DEF UserContexts
<1>4. ContextsOK' /\ HeadOK'
  BY <1>3 DEF Inv, UserStep, ContextsOK, HeadOK, WellFormed, Busy, list
<1>5. QED
  BY <1>2, <1>4 DEF Inv

\* The entry into a system call.
LEMMA handle_syscallInv ==
    ASSUME Inv, handle_syscall PROVE Inv'
<1> USE NULLAssumption
<1>1. cpu \in UserContexts /\ cr3 \in Ps /\ runnable_pss.start = cr3
  BY UserContext DEF handle_syscall
<1>2. PICK syscall \in Calls : cpu' = KernelRegisters(syscall, cr3, cpu.iflag)
  BY DEF handle_syscall
<1>3. syscall \in Syscalls /\ syscall \in Labels
  BY CallsAssumption DEF Labels
<1>4. cpu' \in KernelContexts
  BY <1>1, <1>2, <1>3, ContextTypes DEF UserContexts, Ptr
<1>5. /\ kstack' \in [Ptr -> Locals]
      /\ kstack'[cr3].ps = cr3
      /\ \A q \in Ptr : kstack'[q].new = kstack[q].new
      /\ \A q \in Ptr \ {cr3} : kstack'[q] = kstack[q]
  BY <1>1 DEF Inv, TypeOK, handle_syscall, scheduler_get_current_process, Locals, Ptr
<1>6. TypeOK'
  <2>1. user_mode' \in [Ps -> UserContexts]
    BY <1>1 DEF Inv, TypeOK, handle_syscall, scheduler_get_current_process
  <2>2. left' \in [Ps -> Departures]
    BY <1>1, ContextTypes DEF Inv, TypeOK, handle_syscall
  <2>3. QED
    BY <1>4, <1>5, <2>1, <2>2
       DEF Inv, TypeOK, handle_syscall, list, procs, Registers
<1>7. WellFormed(cpu, cr3)'
  <2>1. cpu'.esp = cr3 /\ cpu'.eip = syscall /\ cr3' = cr3
    BY <1>2 DEF KernelRegisters, handle_syscall
  <2>2. syscall \in CallLabels /\ syscall \notin NewLabels
    BY <1>3 DEF CallLabels, NewLabels, Syscalls
  <2>3. QED
    BY <1>1, <1>5, <2>1, <2>2 DEF WellFormed
<1>8. ASSUME NEW p \in Ps PROVE WellFormed(current[p], p)'
  <2>1. WellFormed(current[p], p) /\ current'[p] = current[p] /\ current[p].esp \in Ptr
    BY DEF Inv, ContextsOK, handle_syscall, TypeOK, Registers, UserContexts, KernelContexts, Ptr
  <2>2. QED
    BY <2>1, <1>5 DEF WellFormed, Ptr
<1>9. HeadOK'
  BY <1>1 DEF HeadOK, handle_syscall, list
<1>10. QED
  BY <1>6, <1>7, <1>8, <1>9 DEF Inv, ContextsOK

\* The return from a system call, as part of an action that changes nothing else
\* the invariant depends on.
LEMMA ReturnLemma ==
    ASSUME Inv, cpu.cs = "kernel", cpu.esp # NULL, NEW eax \in Int, Return(eax),
           cr3' = cr3, runnable_pss'.start = runnable_pss.start, current' = current,
           \A q \in Ptr : kstack'[q].ps = kstack[q].ps /\ kstack'[q].new = kstack[q].new
    PROVE  /\ cpu' \in Registers
           /\ user_mode' \in [Ps -> UserContexts]
           /\ ContextsOK' /\ HeadOK'
<1>1. cr3 \in Ps /\ runnable_pss.start = cr3 /\ My.ps = cr3
  BY CallContext
<1>2. user_mode \in [Ps -> UserContexts]
  BY DEF Inv, TypeOK
<1>3. cpu' \in UserContexts /\ user_mode' \in [Ps -> UserContexts]
  BY <1>1, <1>2, ContextTypes DEF Return
<1>4. cpu'.cs = "user"
  BY <1>3 DEF UserContexts
<1>5. \A p \in Ps : WellFormed(current[p], p)'
  BY KeepContexts
<1>6. WellFormed(cpu, cr3)'
  BY <1>4 DEF WellFormed
<1>7. HeadOK'
  BY <1>1 DEF HeadOK
<1>8. QED
  BY <1>3, <1>5, <1>6, <1>7 DEF ContextsOK, Registers

\* System calls that only return.
LEMMA JustReturnInv ==
    ASSUME Inv, cpu.cs = "kernel", cpu.esp # NULL, NEW eax \in Int, Return(eax),
           UNCHANGED <<list, procs, current, cr3, kstack, ms, oom, history>>
    PROVE  Inv'
<1>1. /\ cpu' \in Registers
      /\ user_mode' \in [Ps -> UserContexts]
      /\ ContextsOK' /\ HeadOK'
  BY ReturnLemma DEF list
<1>2. TypeOK'
  BY <1>1 DEF Inv, TypeOK, list, procs, history
<1>3. QED
  BY <1>1, <1>2 DEF Inv

\* The actions that return to user mode and do nothing else.
LEMMA ReturnsInv ==
    ASSUME Inv, sys_other \/ process_clone_fails \/ sys_execve_fails \/ sys_wait_returns
    PROVE  Inv'
<1>1. cpu.cs = "kernel" /\ cpu.eip \notin BootLabels
  BY DEF sys_other, process_clone_fails, sys_execve_fails, sys_wait_returns, At, BootLabels
<1>2. cpu.esp # NULL
  BY <1>1, WhoseLabel
<1>3. \E eax \in Int : Return(eax)
  BY DEF sys_other, process_clone_fails, sys_execve_fails, sys_wait_returns
<1>4. UNCHANGED <<list, procs, current, cr3, kstack, ms, oom, history>>
  BY DEF sys_other, process_clone_fails, sys_execve_fails, sys_wait_returns
<1>5. QED
  BY <1>1, <1>2, <1>3, <1>4, JustReturnInv

\* A step of a system call that goes on at another label of the system call.
LEMMA GotoCallLemma ==
    ASSUME Inv, cpu.cs = "kernel", cpu.esp # NULL,
           NEW label \in CallLabels, Goto(label),
           cr3' = cr3, runnable_pss'.start = runnable_pss.start,
           \A q \in Ptr : /\ kstack'[q].ps = kstack[q].ps
                          /\ kstack'[q].new = kstack[q].new \/ kstack'[q].new \in Ps,
           label \in NewLabels => kstack'[cpu.esp].new \in Ps,
           \A p \in Ps : current'[p] = current[p] \/ current'[p].cs = "user"
    PROVE  cpu' \in Registers /\ ContextsOK' /\ HeadOK'
<1>1. /\ cpu \in KernelContexts /\ cpu.esp \in Ps
      /\ cr3 = cpu.esp /\ runnable_pss.start = cr3 /\ kstack[cr3].ps = cr3
  BY CallContext DEF My
<1>2. label \in Labels
  BY DEF Labels, CallLabels
<1>3. /\ cpu' \in KernelContexts
      /\ cpu'.cs = "kernel" /\ cpu'.esp = cpu.esp /\ cpu'.eip = label
  BY <1>1, <1>2, ContextTypes DEF Goto, KernelContexts
<1>4. WellFormed(cpu, cr3)'
  BY <1>1, <1>3 DEF WellFormed, Ptr
<1>5. HeadOK'
  BY <1>1 DEF HeadOK
<1>6. QED
  BY <1>3, <1>4, <1>5, KeepContexts DEF ContextsOK, Registers

\* A step of the boot thread that goes on at another label of the boot thread.
LEMMA GotoBootLemma ==
    ASSUME Inv, cpu.cs = "kernel", cpu.esp = NULL,
           NEW label \in BootLabels, Goto(label),
           \A q \in Ptr : /\ kstack'[q].ps = kstack[q].ps
                          /\ kstack'[q].new = kstack[q].new \/ kstack'[q].new \in Ps,
           label \in NewLabels => kstack'[NULL].new \in Ps,
           \A p \in Ps : current'[p] = current[p] \/ current'[p].cs = "user"
    PROVE  cpu' \in Registers /\ ContextsOK' /\ HeadOK'
<1>1. cpu \in KernelContexts
  BY WhoseLabel
<1>2. label \in Labels
  BY DEF Labels, BootLabels
<1>3. /\ cpu' \in KernelContexts
      /\ cpu'.cs = "kernel" /\ cpu'.esp = NULL /\ cpu'.eip = label
  BY <1>1, <1>2, ContextTypes DEF Goto, KernelContexts
<1>4. WellFormed(cpu, cr3)' /\ HeadOK'
  BY <1>3 DEF WellFormed, HeadOK, Busy
<1>5. QED
  BY <1>3, <1>4, KeepContexts DEF ContextsOK, Registers

\* sys_fork: the next pid is read off the lists.
LEMMA sys_forkInv ==
    ASSUME Inv, sys_fork PROVE Inv'
<1>1. cpu.cs = "kernel" /\ cpu.eip = "sys_fork"
  BY DEF sys_fork, At
<1>2. cpu.esp # NULL
  BY <1>1, WhoseLabel DEF BootLabels
<1>3. cpu.esp \in Ps /\ cr3 = cpu.esp /\ runnable_pss.start = cr3 /\ kstack[cr3].ps = cr3
  BY <1>1, <1>2, CallContext DEF My
<1>4. PICK m \in {id[p] : p \in Ps} \cup {0} :
          kstack' = [kstack EXCEPT ![cpu.esp].pid = m + 1,
                                   ![cpu.esp].ps = scheduler_get_current_process,
                                   ![cpu.esp].torn = FALSE]
  BY DEF sys_fork
<1>5. m \in Nat
  BY DEF Inv, TypeOK
<1>6. kstack \in [Ptr -> Locals] /\ scheduler_get_current_process = cr3 /\ cpu.esp \in Ptr
  BY <1>3 DEF Inv, TypeOK, scheduler_get_current_process, Ptr
<1>7. /\ kstack' \in [Ptr -> Locals]
      /\ \A q \in Ptr : kstack'[q].ps = kstack[q].ps /\ kstack'[q].new = kstack[q].new
  BY <1>3, <1>4, <1>5, <1>6 DEF Locals
<1>8. cpu' \in Registers /\ ContextsOK' /\ HeadOK'
  <2>1. "process_clone" \in CallLabels /\ "process_clone" \notin NewLabels
    BY DEF CallLabels, NewLabels
  <2>2. QED
    BY <1>1, <1>2, <1>7, <2>1, GotoCallLemma DEF sys_fork, list
<1>9. TypeOK'
  BY <1>7, <1>8 DEF Inv, TypeOK, sys_fork, list, procs, history
<1>10. QED
  BY <1>8, <1>9 DEF Inv

\* process_clone and process_create_replacement: a new process in user mode.
LEMMA process_cloneInv ==
    ASSUME Inv, NEW new \in Ps, process_clone(new) PROVE Inv'
<1>1. cpu.cs = "kernel" /\ cpu.eip = "process_clone"
  BY DEF process_clone, At
<1>2. cpu.esp # NULL
  BY <1>1, WhoseLabel DEF BootLabels
<1>3. cpu.esp \in Ps /\ cr3 = cpu.esp /\ My.ps = cr3
  BY <1>1, <1>2, CallContext
<1> DEFINE child == [user_mode[My.ps] EXCEPT !.eax = 0]
<1>4. child \in UserContexts /\ Departure(child, TRUE) \in Departures
  <2>1. user_mode[My.ps] \in UserContexts
    BY <1>3 DEF Inv, TypeOK
  <2>2. child \in UserContexts
    BY <2>1, ContextTypes
  <2>3. QED
    BY <2>2, ContextTypes
<1>5. /\ user_mode' = [user_mode EXCEPT ![new] = child]
      /\ current' = [current EXCEPT ![new] = child]
      /\ left' = [left EXCEPT ![new] = Departure(child, TRUE)]
  BY DEF process_clone
<1> HIDE DEF child
<1>6. /\ user_mode' \in [Ps -> UserContexts]
      /\ current' \in [Ps -> Registers]
      /\ left' \in [Ps -> Departures]
      /\ \A p \in Ps : current'[p] = current[p] \/ current'[p].cs = "user"
  BY <1>4, <1>5 DEF Inv, TypeOK, Registers, UserContexts
<1>7. /\ kstack' \in [Ptr -> Locals]
      /\ kstack'[cpu.esp].new \in Ps
      /\ \A q \in Ptr : /\ kstack'[q].ps = kstack[q].ps
                        /\ kstack'[q].new = kstack[q].new \/ kstack'[q].new \in Ps
  <2>1. kstack' = [kstack EXCEPT ![cpu.esp].new = new]
    BY DEF process_clone
  <2>2. QED
    BY <1>3, <2>1 DEF Inv, TypeOK, Locals, Ptr
<1>8. cpu' \in Registers /\ ContextsOK' /\ HeadOK'
  <2>1. "add" \in CallLabels
    BY DEF CallLabels
  <2>2. Goto("add") /\ cr3' = cr3 /\ runnable_pss'.start = runnable_pss.start
    BY DEF process_clone, list
  <2>3. QED
    BY <1>1, <1>2, <1>6, <1>7, <2>1, <2>2, GotoCallLemma
<1>9. id' \in [Ps -> Nat] /\ parent_id' \in [Ps -> Nat] /\ allocated' \subseteq Ps
  <2>1. kstack[cpu.esp] \in Locals
    BY <1>3 DEF Inv, TypeOK, Ptr
  <2>2. My.pid \in Nat /\ id[My.ps] \in Nat
    BY <1>3, <2>1 DEF Inv, TypeOK, My, Locals
  <2>3. /\ id' = [id EXCEPT ![new] = My.pid]
        /\ parent_id' = [parent_id EXCEPT ![new] = id[My.ps]]
        /\ allocated' = allocated \cup {new}
    BY DEF process_clone
  <2>4. QED
    BY <2>2, <2>3 DEF Inv, TypeOK
<1>10. TypeOK'
  BY <1>6, <1>7, <1>8, <1>9 DEF Inv, TypeOK, process_clone, list
<1>11. QED
  BY <1>8, <1>10 DEF Inv

\* The same for execve.
LEMMA sys_execveInv ==
    ASSUME Inv, NEW new \in Ps, sys_execve(new) PROVE Inv'
<1>1. cpu.cs = "kernel" /\ cpu.eip = "sys_execve"
  BY DEF sys_execve, At
<1>2. cpu.esp # NULL
  BY <1>1, WhoseLabel DEF BootLabels
<1>3. cpu.esp \in Ps /\ cr3 = cpu.esp /\ runnable_pss.start = cr3
  BY <1>1, <1>2, CallContext
<1> DEFINE child == UserRegisters(ENTRY, 0)
<1>4. child \in UserContexts /\ Departure(child, TRUE) \in Departures
  <2>1. child \in UserContexts
    BY TagsAssumption, ContextTypes
  <2>2. QED
    BY <2>1, ContextTypes
<1>5. /\ user_mode' = [user_mode EXCEPT ![new] = child]
      /\ current' = [current EXCEPT ![new] = child]
      /\ left' = [left EXCEPT ![new] = Departure(child, TRUE)]
  BY DEF sys_execve
<1> HIDE DEF child
<1>6. /\ user_mode' \in [Ps -> UserContexts]
      /\ current' \in [Ps -> Registers]
      /\ left' \in [Ps -> Departures]
      /\ \A p \in Ps : current'[p] = current[p] \/ current'[p].cs = "user"
  BY <1>4, <1>5 DEF Inv, TypeOK, Registers, UserContexts
<1>7. /\ kstack' \in [Ptr -> Locals]
      /\ kstack'[cpu.esp].new \in Ps
      /\ \A q \in Ptr : /\ kstack'[q].ps = kstack[q].ps
                        /\ kstack'[q].new = kstack[q].new \/ kstack'[q].new \in Ps
  BY <1>3 DEF Inv, TypeOK, sys_execve, Locals, Ptr
<1>8. cpu' \in Registers /\ ContextsOK' /\ HeadOK'
  <2>1. "switch_execve" \in CallLabels
    BY DEF CallLabels
  <2>2. Goto("switch_execve") /\ cr3' = cr3 /\ runnable_pss'.start = runnable_pss.start
    BY DEF sys_execve, list
  <2>3. QED
    BY <1>1, <1>2, <1>6, <1>7, <2>1, <2>2, GotoCallLemma
<1>9. id' \in [Ps -> Nat] /\ parent_id' \in [Ps -> Nat] /\ allocated' \subseteq Ps
  BY <1>3 DEF Inv, TypeOK, sys_execve, scheduler_get_current_process
<1>10. TypeOK'
  BY <1>6, <1>7, <1>8, <1>9 DEF Inv, TypeOK, sys_execve, list
<1>11. QED
  BY <1>8, <1>10 DEF Inv

\* The boot thread creates init.
LEMMA start_initInv ==
    ASSUME Inv, NEW init \in Ps, start_init(init) PROVE Inv'
<1>1. cpu.cs = "kernel" /\ cpu.eip = "start_init"
  BY DEF start_init, At
<1>2. cpu.esp = NULL
  BY <1>1, WhoseLabel DEF CallLabels, Syscalls
<1> DEFINE child == UserRegisters(ENTRY, 0)
<1>4. child \in UserContexts /\ Departure(child, TRUE) \in Departures
  <2>1. child \in UserContexts
    BY TagsAssumption, ContextTypes
  <2>2. QED
    BY <2>1, ContextTypes
<1>5. /\ user_mode' = [user_mode EXCEPT ![init] = child]
      /\ current' = [current EXCEPT ![init] = child]
      /\ left' = [left EXCEPT ![init] = Departure(child, TRUE)]
  BY DEF start_init
<1> HIDE DEF child
<1>6. /\ user_mode' \in [Ps -> UserContexts]
      /\ current' \in [Ps -> Registers]
      /\ left' \in [Ps -> Departures]
      /\ \A p \in Ps : current'[p] = current[p] \/ current'[p].cs = "user"
  BY <1>4, <1>5 DEF Inv, TypeOK, Registers, UserContexts
<1>7. /\ kstack' \in [Ptr -> Locals]
      /\ kstack'[NULL].new \in Ps
      /\ \A q \in Ptr : /\ kstack'[q].ps = kstack[q].ps
                        /\ kstack'[q].new = kstack[q].new \/ kstack'[q].new \in Ps
  BY DEF Inv, TypeOK, start_init, Locals, Ptr
<1>8. cpu' \in Registers /\ ContextsOK' /\ HeadOK'
  <2>1. "add" \in BootLabels
    BY DEF BootLabels
  <2>2. Goto("add")
    BY DEF start_init
  <2>3. QED
    BY <1>1, <1>2, <1>6, <1>7, <2>1, <2>2, GotoBootLemma
<1>9. id' \in [Ps -> Nat] /\ parent_id' \in [Ps -> Nat] /\ allocated' \subseteq Ps
  BY DEF Inv, TypeOK, start_init
<1>10. TypeOK'
  BY <1>6, <1>7, <1>8, <1>9 DEF Inv, TypeOK, start_init, list
<1>11. QED
  BY <1>8, <1>10 DEF Inv

\* It may fail to.
LEMMA start_init_failsInv ==
    ASSUME Inv, start_init_fails PROVE Inv'
<1>1. cpu.cs = "kernel" /\ cpu.eip = "start_init"
  BY DEF start_init_fails, At
<1>2. cpu.esp = NULL
  BY <1>1, WhoseLabel DEF CallLabels, Syscalls
<1>3. cpu' \in Registers /\ ContextsOK' /\ HeadOK'
  <2>1. "hang" \in BootLabels /\ "hang" \notin NewLabels
    BY DEF BootLabels, NewLabels
  <2>2. QED
    BY <1>1, <1>2, <2>1, GotoBootLemma DEF start_init_fails
<1>4. TypeOK'
  BY <1>3 DEF Inv, TypeOK, start_init_fails, list, procs, history
<1>5. QED
  BY <1>3, <1>4 DEF Inv

\* What follows scheduler_add_process, in a fork or in the boot thread.
LEMMA AddReturnsLemma ==
    ASSUME Inv, cpu.cs = "kernel", cpu.eip \in {"add", "add_end"}, AddReturns,
           cr3' = cr3, runnable_pss'.start = runnable_pss.start, current' = current,
           kstack' = kstack
    PROVE  /\ cpu' \in Registers
           /\ user_mode' \in [Ps -> UserContexts]
           /\ ContextsOK' /\ HeadOK'
<1>1. CASE cpu.esp = NULL
  <2>1. "boot_schedule" \in BootLabels /\ "boot_schedule" \notin NewLabels
    BY DEF BootLabels, NewLabels
  <2>2. Goto("boot_schedule") /\ user_mode' = user_mode
    BY <1>1 DEF AddReturns
  <2>3. QED
    BY <1>1, <2>1, <2>2, GotoBootLemma DEF Inv, TypeOK
<1>2. CASE cpu.esp # NULL
  <2>1. Return(My.pid)
    BY <1>2 DEF AddReturns
  <2>2. kstack[cpu.esp] \in Locals
    BY <1>2, CallContext DEF Inv, TypeOK, Ptr
  <2>3. My.pid \in Int
    BY <2>2 DEF My, Locals
  <2>4. QED
    BY <1>2, <2>1, <2>3, ReturnLemma
<1>3. QED
  BY <1>1, <1>2

\* The kmalloc of scheduler_add_process fails.
LEMMA scheduler_add_process_failsInv ==
    ASSUME Inv, scheduler_add_process_fails PROVE Inv'
<1>1. cpu.cs = "kernel" /\ cpu.eip = "add"
  BY DEF scheduler_add_process_fails, At
<1>2. /\ cpu' \in Registers
      /\ user_mode' \in [Ps -> UserContexts]
      /\ ContextsOK' /\ HeadOK'
  BY <1>1, AddReturnsLemma DEF scheduler_add_process_fails, list
<1>3. lost' \subseteq Ps
  BY <1>1, WhoseLabel DEF Inv, TypeOK, scheduler_add_process_fails, NewLabels
<1>4. oom' \in 0..MAX_OOM
  BY SliceAssumption DEF Inv, TypeOK, scheduler_add_process_fails
<1>5. TypeOK'
  BY <1>2, <1>3, <1>4 DEF Inv, TypeOK, scheduler_add_process_fails, list, procs
<1>6. QED
  BY <1>2, <1>5 DEF Inv

\* scheduler_add_process up to the load of pss->end.
LEMMA scheduler_add_processInv ==
    ASSUME Inv, scheduler_add_process PROVE Inv'
<1>1. cpu.cs = "kernel" /\ cpu.eip = "add"
  BY DEF scheduler_add_process, At
<1>2. My.new \in Ps /\ cpu.esp \in Ptr
  BY <1>1, WhoseLabel DEF NewLabels, KernelContexts
<1>3. /\ runnable_pss' \in Lists
      /\ runnable_pss'.start = runnable_pss.start
  BY <1>2 DEF Inv, TypeOK, scheduler_add_process, Lists, Ptr
<1>4. /\ kstack' \in [Ptr -> Locals]
      /\ \A q \in Ptr : kstack'[q].ps = kstack[q].ps /\ kstack'[q].new = kstack[q].new
      /\ kstack'[cpu.esp].new \in Ps
  BY <1>2 DEF Inv, TypeOK, scheduler_add_process, Locals, Lists, My
<1>5. cpu' \in Registers /\ ContextsOK' /\ HeadOK'
  <2>1. CASE cpu.esp # NULL
    <3>1. runnable_pss.start # NULL
      BY <1>1, <2>1, CallContext, NULLAssumption
    <3>2. Goto("add_link") /\ cr3' = cr3 /\ current' = current
      BY <3>1 DEF scheduler_add_process
    <3>3. "add_link" \in CallLabels
      BY DEF CallLabels
    <3>4. QED
      BY <1>1, <1>3, <1>4, <2>1, <3>2, <3>3, GotoCallLemma
  <2>2. CASE cpu.esp = NULL
    <3>1. PICK label \in {"add_first", "add_link"} : Goto(label) /\ current' = current
      BY DEF scheduler_add_process
    <3>2. label \in BootLabels
      BY DEF BootLabels
    <3>3. QED
      BY <1>1, <1>4, <2>2, <3>1, <3>2, GotoBootLemma
  <2>3. QED
    BY <2>1, <2>2
<1>6. TypeOK'
  BY <1>3, <1>4, <1>5 DEF Inv, TypeOK, scheduler_add_process, procs, history
<1>7. QED
  BY <1>5, <1>6 DEF Inv

\* pss->start = ele happens in the boot thread only.
LEMMA add_firstInv ==
    ASSUME Inv, add_first PROVE Inv'
<1>1. cpu.cs = "kernel" /\ cpu.eip = "add_first"
  BY DEF add_first, At
<1>2. cpu.esp = NULL /\ My.new \in Ps
  BY <1>1, WhoseLabel DEF CallLabels, Syscalls, NewLabels
<1>3. runnable_pss' \in Lists
  BY <1>2 DEF Inv, TypeOK, add_first, Lists, Ptr
<1>4. cpu' \in Registers /\ ContextsOK' /\ HeadOK'
  <2>1. "add_end" \in BootLabels
    BY DEF BootLabels
  <2>2. Goto("add_end") /\ kstack' = kstack /\ current' = current
    BY DEF add_first
  <2>3. QED
    BY <1>1, <1>2, <2>1, <2>2, GotoBootLemma DEF My
<1>5. TypeOK'
  BY <1>3, <1>4 DEF Inv, TypeOK, add_first, procs, history
<1>6. QED
  BY <1>4, <1>5 DEF Inv

\* pss->end->next = ele
LEMMA add_linkInv ==
    ASSUME Inv, add_link PROVE Inv'
<1>1. cpu.cs = "kernel" /\ cpu.eip = "add_link"
  BY DEF add_link, At
<1>2. My.new \in Ps /\ cpu.esp \in Ptr
  BY <1>1, WhoseLabel DEF NewLabels, KernelContexts
<1>3. runnable_pss' \in Lists /\ runnable_pss'.start = runnable_pss.start
  <2>1. kstack[cpu.esp] \in Locals /\ runnable_pss \in Lists
    BY <1>2 DEF Inv, TypeOK
  <2>2. My.end \in Ptr /\ My.new \in Ptr /\ runnable_pss.next \in [Ps -> Ptr]
    BY <1>2, <2>1 DEF My, Locals, Lists, Ptr
  <2>3. Store(runnable_pss.next, My.end, My.new) \in [Ps -> Ptr]
    BY <2>2, StoreType
  <2>4. runnable_pss' = [runnable_pss EXCEPT !.next = Store(runnable_pss.next, My.end, My.new)]
    BY DEF add_link
  <2>5. QED
    BY <2>1, <2>3, <2>4 DEF Lists
<1>4. cpu' \in Registers /\ ContextsOK' /\ HeadOK'
  <2>1. "add_end" \in BootLabels /\ "add_end" \in CallLabels
    BY DEF BootLabels, CallLabels
  <2>2. Goto("add_end") /\ kstack' = kstack /\ current' = current /\ cr3' = cr3
    BY DEF add_link
  <2>3. CASE cpu.esp = NULL
    BY <1>1, <1>2, <2>1, <2>2, <2>3, GotoBootLemma DEF My
  <2>4. CASE cpu.esp # NULL
    BY <1>1, <1>2, <1>3, <2>1, <2>2, <2>4, GotoCallLemma DEF My
  <2>5. QED
    BY <2>3, <2>4
<1>5. TypeOK'
  BY <1>3, <1>4 DEF Inv, TypeOK, add_link, procs, history
<1>6. QED
  BY <1>4, <1>5 DEF Inv

\* pss->end = ele
LEMMA add_endInv ==
    ASSUME Inv, add_end PROVE Inv'
<1>1. cpu.cs = "kernel" /\ cpu.eip = "add_end"
  BY DEF add_end, At
<1>2. My.new \in Ps
  BY <1>1, WhoseLabel DEF NewLabels
<1>3. runnable_pss' \in Lists /\ runnable_pss'.start = runnable_pss.start
  BY <1>2 DEF Inv, TypeOK, add_end, Lists, Ptr
<1>4. /\ cpu' \in Registers
      /\ user_mode' \in [Ps -> UserContexts]
      /\ ContextsOK' /\ HeadOK'
  BY <1>1, <1>3, AddReturnsLemma DEF add_end
<1>5. TypeOK'
  BY <1>3, <1>4 DEF Inv, TypeOK, add_end, procs, history
<1>6. QED
  BY <1>4, <1>5 DEF Inv

\* continue_execve: whatever the list looks like after the removal, the append and
\* the rotation, the process that is resumed is its head.
LEMMA continue_execveInv ==
    ASSUME Inv, continue_execve PROVE Inv'
<1>1. cpu.cs = "kernel" /\ cpu.eip = "switch_execve"
  BY DEF continue_execve, At
<1>2. cpu.esp # NULL /\ My.new \in Ps
  BY <1>1, WhoseLabel DEF BootLabels, NewLabels
<1>3. runnable_pss.start \in Ps /\ runnable_pss \in Lists
  BY <1>1, <1>2, CallContext DEF Inv, TypeOK
<1> DEFINE L1 == RemoveHead(runnable_pss)
           L2 == AddProcess(L1, My.new)
<1>4. L1 \in Lists /\ L2 \in Lists
  BY <1>2, <1>3, RemoveHeadType, AddProcessType
<1>5. /\ Halt \in KernelContexts /\ Halt.esp = NULL /\ Halt.eip \in {"hang", "halt"}
  BY DEF Halt, KernelRegisters, KernelContexts, Labels, Ptr
<1>6. current' = current /\ kstack' = kstack
  BY DEF continue_execve
<1>7. /\ current' \in [Ps -> Registers] /\ cr3 \in Ptr
      /\ \A p \in Ps : WellFormed(current[p], p)'
  BY <1>6, KeepContexts DEF Inv, TypeOK
<1>8. PICK L \in {L1, L2} : Schedule(L, Halt)
  BY DEF continue_execve
<1> HIDE DEF L1, L2
<1>9. /\ runnable_pss' \in Lists /\ cpu' \in Registers /\ cr3' \in Ptr
      /\ WellFormed(cpu, cr3)' /\ HeadOK'
  BY <1>4, <1>5, <1>7, <1>8, ScheduleLemma
<1>10. lost' \subseteq Ps /\ oom' \in 0..MAX_OOM
  BY <1>2, SliceAssumption DEF Inv, TypeOK, continue_execve
<1>11. TypeOK'
  BY <1>6, <1>7, <1>9, <1>10 DEF Inv, TypeOK, continue_execve
<1>12. QED
  BY <1>7, <1>9, <1>11 DEF Inv, ContextsOK

\* sys_exit
LEMMA sys_exitInv ==
    ASSUME Inv, sys_exit PROVE Inv'
<1>1. cpu.cs = "kernel" /\ cpu.eip = "sys_exit"
  BY DEF sys_exit, At
<1>2. cpu.esp # NULL
  BY <1>1, WhoseLabel DEF BootLabels
<1>3. runnable_pss.start \in Ps /\ runnable_pss \in Lists
  BY <1>1, <1>2, CallContext DEF Inv, TypeOK
<1>4. RemoveHead(runnable_pss) \in Lists
  BY <1>3, RemoveHeadType
<1>5. /\ Halt \in KernelContexts /\ Halt.esp = NULL /\ Halt.eip \in {"hang", "halt"}
  BY DEF Halt, KernelRegisters, KernelContexts, Labels, Ptr
<1>6. current' = current /\ kstack' = kstack /\ Schedule(RemoveHead(runnable_pss), Halt)
  BY DEF sys_exit
<1>7. /\ current' \in [Ps -> Registers] /\ cr3 \in Ptr
      /\ \A p \in Ps : WellFormed(current[p], p)'
  BY <1>6, KeepContexts DEF Inv, TypeOK
<1>8. /\ runnable_pss' \in Lists /\ cpu' \in Registers /\ cr3' \in Ptr
      /\ WellFormed(cpu, cr3)' /\ HeadOK'
  BY <1>4, <1>5, <1>6, <1>7, ScheduleLemma
<1>9. lost' \subseteq Ps /\ zombie_pss' \subseteq Ps /\ oom' \in 0..MAX_OOM
  BY <1>3, SliceAssumption DEF Inv, TypeOK, sys_exit, scheduler_get_current_process
<1>10. TypeOK'
  BY <1>6, <1>7, <1>8, <1>9 DEF Inv, TypeOK, sys_exit, procs
<1>11. QED
  BY <1>7, <1>8, <1>10 DEF Inv, ContextsOK

\* sys_yield
LEMMA sys_yieldInv ==
    ASSUME Inv, sys_yield PROVE Inv'
<1>1. cpu.cs = "kernel" /\ cpu.eip = "sys_yield"
  BY DEF sys_yield, At
<1>2. cpu.esp # NULL
  BY <1>1, WhoseLabel DEF BootLabels
<1>3. runnable_pss.start \in Ps /\ runnable_pss \in Lists /\ runnable_pss.start # NULL
  BY <1>1, <1>2, CallContext, NULLAssumption DEF Inv, TypeOK
<1> DEFINE ps == runnable_pss.start
           r == [user_mode[ps] EXCEPT !.eax = 0]
<1>4. user_mode \in [Ps -> UserContexts] /\ r \in UserContexts
  <2>1. user_mode \in [Ps -> UserContexts]
    BY DEF Inv, TypeOK
  <2>2. user_mode[ps] \in UserContexts
    BY <1>3, <2>1
  <2>3. QED
    BY <2>1, <2>2, ContextTypes
<1>5. user_mode' = [user_mode EXCEPT ![ps] = r] /\ current' = [current EXCEPT ![ps] = user_mode'[ps]]
  BY DEF sys_yield, scheduler_get_current_process
<1>6. user_mode' \in [Ps -> UserContexts] /\ user_mode'[ps] = r
  BY <1>3, <1>4, <1>5
<1>7. /\ current' \in [Ps -> Registers]
      /\ \A p \in Ps : current'[p] = current[p] \/ current'[p].cs = "user"
  BY <1>3, <1>4, <1>5, <1>6 DEF Inv, TypeOK, Registers, UserContexts
<1> HIDE DEF r, ps
<1>8. kstack' = kstack /\ cr3 \in Ptr
  BY DEF sys_yield, Inv, TypeOK
<1>9. \A p \in Ps : WellFormed(current[p], p)'
  BY <1>7, <1>8, KeepContexts
<1>10. PICK back : Schedule(runnable_pss, back)
  BY DEF sys_yield
<1>11. /\ runnable_pss' \in Lists /\ cpu' \in Registers /\ cr3' \in Ptr
       /\ WellFormed(cpu, cr3)' /\ HeadOK'
  BY <1>3, <1>7, <1>8, <1>9, <1>10, ScheduleLemma
<1>12. TypeOK'
  BY <1>6, <1>7, <1>8, <1>11 DEF Inv, TypeOK, sys_yield, procs, history
<1>13. QED
  BY <1>9, <1>11, <1>12 DEF Inv, ContextsOK

\* The test of sys_wait.
LEMMA sys_waitInv ==
    ASSUME Inv, sys_wait PROVE Inv'
<1>1. cpu.cs = "kernel" /\ cpu.eip = "sys_wait"
  BY DEF sys_wait, At
<1>2. cpu.esp # NULL
  BY <1>1, WhoseLabel DEF BootLabels
<1>3. cpu.esp \in Ptr
  BY <1>1, <1>2, CallContext DEF Ptr
<1>4. /\ kstack' \in [Ptr -> Locals]
      /\ \A q \in Ptr : kstack'[q].ps = kstack[q].ps /\ kstack'[q].new = kstack[q].new
  <2>1. kstack' = [kstack EXCEPT ![cpu.esp].torn = FALSE]
    BY DEF sys_wait
  <2>2. QED
    BY <1>3, <2>1, TornLemma DEF Inv, TypeOK
<1>5. cr3' = cr3 /\ runnable_pss' = runnable_pss /\ current' = current
  BY DEF sys_wait, list
<1>6. Return(-1) \/ (Goto("wait_loop") /\ user_mode' = user_mode)
  BY DEF sys_wait
<1>7. /\ cpu' \in Registers
      /\ user_mode' \in [Ps -> UserContexts]
      /\ ContextsOK' /\ HeadOK'
  <2>1. CASE Return(-1)
    BY <1>1, <1>2, <1>4, <1>5, <2>1, ReturnLemma
  <2>2. CASE Goto("wait_loop") /\ user_mode' = user_mode
    <3>1. "wait_loop" \in CallLabels /\ "wait_loop" \notin NewLabels
      BY DEF CallLabels, NewLabels
    <3>2. QED
      BY <1>1, <1>2, <1>4, <1>5, <2>2, <3>1, GotoCallLemma DEF Inv, TypeOK
  <2>3. QED
    BY <1>6, <2>1, <2>2
<1>8. TypeOK'
  BY <1>4, <1>7 DEF Inv, TypeOK, sys_wait, list, procs, history
<1>9. QED
  BY <1>7, <1>8 DEF Inv

\* snapshot_and_schedule in the loop of sys_wait.
LEMMA snapshot_and_scheduleInv ==
    ASSUME Inv, snapshot_and_schedule PROVE Inv'
<1>1. cpu.cs = "kernel" /\ cpu.eip = "wait_loop"
  BY DEF snapshot_and_schedule, At
<1>2. cpu.esp # NULL
  BY <1>1, WhoseLabel DEF BootLabels
<1>3. /\ cpu.esp \in Ps /\ My.ps = cpu.esp /\ kstack[cpu.esp].ps = cpu.esp
      /\ runnable_pss.start # NULL /\ runnable_pss \in Lists
  BY <1>1, <1>2, CallContext, NULLAssumption DEF Inv, TypeOK, My
<1> DEFINE r == KernelRegisters("wait_loop", cpu.esp, FALSE)
<1>4. /\ r \in KernelContexts /\ r.esp = cpu.esp /\ r.eip = "wait_loop" /\ r.cs = "kernel"
  BY <1>3 DEF KernelRegisters, KernelContexts, Labels, Ptr
<1>5. current' = [current EXCEPT ![cpu.esp] = r] /\ kstack' = kstack
  BY <1>3 DEF snapshot_and_schedule
<1> HIDE DEF r
<1>6. current' \in [Ps -> Registers] /\ cr3 \in Ptr
  BY <1>4, <1>5 DEF Inv, TypeOK, Registers
<1>7. "wait_loop" \in CallLabels /\ "wait_loop" \notin NewLabels
  BY DEF CallLabels, NewLabels
<1>8. ASSUME NEW p \in Ps PROVE WellFormed(current[p], p)'
  <2>1. CASE p = cpu.esp
    BY <1>2, <1>3, <1>4, <1>5, <1>7, <2>1 DEF WellFormed, Inv, TypeOK
  <2>2. CASE p # cpu.esp
    BY <1>5, <2>2 DEF WellFormed, Inv, TypeOK, ContextsOK
  <2>3. QED
    BY <2>1, <2>2
<1>9. PICK back : Schedule(runnable_pss, back)
  BY DEF snapshot_and_schedule
<1>10. /\ runnable_pss' \in Lists /\ cpu' \in Registers /\ cr3' \in Ptr
       /\ WellFormed(cpu, cr3)' /\ HeadOK'
  BY <1>3, <1>6, <1>8, <1>9, ScheduleLemma
<1>11. TypeOK'
  BY <1>5, <1>6, <1>10 DEF Inv, TypeOK, snapshot_and_schedule, procs, history
<1>12. QED
  BY <1>8, <1>10, <1>11 DEF Inv, ContextsOK

\* The boot thread starts init.
LEMMA boot_scheduleInv ==
    ASSUME Inv, boot_schedule PROVE Inv'
<1> DEFINE back == KernelRegisters("hang", NULL, TRUE)
<1>1. back \in KernelContexts /\ back.esp = NULL /\ back.eip \in {"hang", "halt"}
  BY DEF KernelRegisters, KernelContexts, Labels, Ptr
<1>2. current' = current /\ kstack' = kstack /\ Schedule(runnable_pss, back)
  BY DEF boot_schedule
<1> HIDE DEF back
<1>3. /\ current' \in [Ps -> Registers] /\ cr3 \in Ptr /\ runnable_pss \in Lists
      /\ \A p \in Ps : WellFormed(current[p], p)'
  BY <1>2, KeepContexts DEF Inv, TypeOK
<1>4. /\ runnable_pss' \in Lists /\ cpu' \in Registers /\ cr3' \in Ptr
      /\ WellFormed(cpu, cr3)' /\ HeadOK'
  BY <1>1, <1>2, <1>3, ScheduleLemma
<1>5. TypeOK'
  BY <1>2, <1>3, <1>4 DEF Inv, TypeOK, boot_schedule, procs, history
<1>6. QED
  BY <1>3, <1>4, <1>5 DEF Inv, ContextsOK

\* The PIT interrupt, wherever it strikes.
LEMMA PitInv ==
    ASSUME Inv, scheduler_handle_pit_interrupt PROVE Inv'
<1>1. CASE ~(ms + SCHEDULER_PIT_INTERVAL >= SCHEDULER_TIME_SLICE)
  <2>1. /\ ms' = ms + SCHEDULER_PIT_INTERVAL
        /\ UNCHANGED <<list, procs, user_mode, current, cpu, cr3, kstack, oom, history>>
    BY <1>1 DEF scheduler_handle_pit_interrupt
  <2>2. TypeOK'
    BY <2>1, SliceAssumption DEF Inv, TypeOK, list, procs, history
  <2>3. ContextsOK' /\ HeadOK'
    BY <2>1 DEF Inv, ContextsOK, HeadOK, WellFormed, Busy, list
  <2>4. QED
    BY <2>2, <2>3 DEF Inv
<1>2. CASE ms + SCHEDULER_PIT_INTERVAL >= SCHEDULER_TIME_SLICE
  <2>1. ms' = 0 /\ scheduler_schedule_on_interrupt
    BY <1>2 DEF scheduler_handle_pit_interrupt
  <2>2. windows' \subseteq {"boot", "add", "pid"}
    BY <2>1 DEF Inv, TypeOK, scheduler_schedule_on_interrupt, Window
  <2>3. CASE scheduler_get_current_process = NULL
    <3>1. cpu.cs = "kernel" /\ cpu.esp = NULL /\ cpu \in Registers
      BY <2>3, NULLAssumption DEF Inv, TypeOK, HeadOK, Busy, Registers, UserContexts,
             KernelContexts, scheduler_get_current_process
    <3>2. /\ cpu' = KernelRegisters("fault", NULL, FALSE)
          /\ UNCHANGED <<runnable_pss, user_mode, current, cr3, kstack, left>>
      BY <2>1, <2>3, <3>1 DEF scheduler_schedule_on_interrupt
    <3>3. cpu' \in Registers /\ cpu'.cs = "kernel" /\ cpu'.esp = NULL
          /\ cpu'.eip \in BootLabels \ NewLabels
      BY <3>2 DEF KernelRegisters, Registers, KernelContexts, Labels, Ptr, BootLabels,
             NewLabels
    <3>4. ContextsOK' /\ HeadOK'
      BY <3>2, <3>3, KeepContexts DEF ContextsOK, HeadOK, WellFormed, Busy
    <3>5. TypeOK'
      BY <2>1, <2>2, <3>2, <3>3
         DEF Inv, TypeOK, scheduler_schedule_on_interrupt, procs
    <3>6. QED
      BY <3>4, <3>5 DEF Inv
  <2>4. CASE scheduler_get_current_process # NULL
    <3> DEFINE ps == runnable_pss.start
    <3>1. ps \in Ps /\ ps # NULL /\ runnable_pss \in Lists /\ cpu \in Registers
      BY <2>4 DEF Inv, TypeOK, scheduler_get_current_process, Lists, Ptr
    <3>2. /\ current' = [current EXCEPT ![ps] = cpu]
          /\ user_mode' = IF cpu.cs = "user" THEN [user_mode EXCEPT ![ps] = cpu] ELSE user_mode
          /\ left' = IF cpu.cs = "user" THEN [left EXCEPT ![cr3] = Departure(cpu, TRUE)] ELSE left
          /\ kstack' = IF cpu.eip \in {"sys_fork", "sys_wait"}
                       THEN [kstack EXCEPT ![cpu.esp].torn = TRUE] ELSE kstack
          /\ Schedule(runnable_pss, cpu)
      BY <2>1, <2>4
         DEF scheduler_schedule_on_interrupt, SaveRegisters, scheduler_get_current_process
    <3>3. /\ user_mode' \in [Ps -> UserContexts]
          /\ left' \in [Ps -> Departures]
          /\ current' \in [Ps -> Registers]
      <4>1. current' \in [Ps -> Registers]
        BY <3>1, <3>2 DEF Inv, TypeOK
      <4>2. CASE cpu.cs = "user"
        <5>1. cpu \in UserContexts /\ Departure(cpu, TRUE) \in Departures
          BY <4>2, UserContext, ContextTypes
        <5>2. QED
          BY <3>1, <3>2, <4>1, <4>2, <5>1 DEF Inv, TypeOK
      <4>3. CASE cpu.cs # "user"
        BY <3>2, <4>1, <4>3 DEF Inv, TypeOK
      <4>4. QED
        BY <4>2, <4>3
    <3>4. /\ kstack' \in [Ptr -> Locals]
          /\ \A q \in Ptr : kstack'[q].ps = kstack[q].ps /\ kstack'[q].new = kstack[q].new
      <4>1. cpu.esp \in Ptr
        BY <3>1 DEF Registers, UserContexts, KernelContexts, Ptr
      <4>2. kstack \in [Ptr -> Locals]
        BY DEF Inv, TypeOK
      <4>3. QED
        BY <3>2, <4>1, <4>2, TornLemma
    <3>5. ASSUME NEW p \in Ps PROVE WellFormed(current[p], p)'
      <4>1. CASE p = ps
        <5>1. current'[p] = cpu /\ WellFormed(cpu, cr3) /\ cpu.esp \in Ptr
          BY <3>1, <3>2, <4>1 DEF Inv, TypeOK, ContextsOK, Registers, UserContexts,
             KernelContexts, Ptr
        <5>2. cpu.cs = "kernel" /\ cpu.esp # NULL => cr3 = p
          BY <4>1, CallContext
        <5>3. QED
          BY <3>4, <5>1, <5>2 DEF WellFormed, Ptr
      <4>2. CASE p # ps
        <5>1. current'[p] = current[p] /\ WellFormed(current[p], p) /\ current[p].esp \in Ptr
          BY <3>2, <4>2 DEF Inv, TypeOK, ContextsOK, Registers, UserContexts,
             KernelContexts, Ptr
        <5>2. QED
          BY <3>4, <5>1 DEF WellFormed, Ptr
      <4>3. QED
        BY <4>1, <4>2
    <3>6. /\ runnable_pss' \in Lists /\ cpu' \in Registers /\ cr3' \in Ptr
          /\ WellFormed(cpu, cr3)' /\ HeadOK'
      <4>1. cr3 \in Ptr
        BY DEF Inv, TypeOK
      <4>2. QED
        BY <3>1, <3>2, <3>3, <3>5, <4>1, ScheduleLemma
    <3>7. TypeOK'
      BY <2>1, <2>2, <3>3, <3>4, <3>6
         DEF Inv, TypeOK, scheduler_schedule_on_interrupt, procs
    <3>8. QED
      BY <3>5, <3>6, <3>7 DEF Inv, ContextsOK
  <2>5. QED
    BY <2>3, <2>4
<1>3. QED
  BY <1>1, <1>2

-----------------------------------------------------------------------------
(***************************************************************************)
(* The theorems.                                                           *)
(***************************************************************************)

\* A step, or a stutter, preserves the invariant.
LEMMA NextInv == Inv /\ [Next]_vars => Inv'
<1> SUFFICES ASSUME Inv, [Next]_vars PROVE Inv'
  OBVIOUS
<1>1. CASE UNCHANGED vars
  BY <1>1 DEF Inv, TypeOK, ContextsOK, HeadOK, WellFormed, Busy, vars
<1>2. CASE Spin
  BY <1>2 DEF Spin, Inv, TypeOK, ContextsOK, HeadOK, WellFormed, Busy, vars
<1>3. CASE scheduler_handle_pit_interrupt
  BY <1>3, PitInv
<1>4. CASE UserStep
  BY <1>4, UserStepInv
<1>5. CASE handle_syscall
  BY <1>5, handle_syscallInv
<1>6. CASE KernelStep
  BY <1>6, ReturnsInv, sys_forkInv, process_cloneInv, scheduler_add_processInv,
     scheduler_add_process_failsInv, add_firstInv, add_linkInv, add_endInv, sys_execveInv,
     continue_execveInv, sys_exitInv, sys_yieldInv, sys_waitInv, snapshot_and_scheduleInv,
     start_initInv, start_init_failsInv, boot_scheduleInv
     DEF KernelStep
<1>7. QED
  BY <1>1, <1>2, <1>3, <1>4, <1>5, <1>6 DEF Next

\* The invariant is one of every behaviour of the scheduler.
THEOREM Invariance == Spec => []Inv
  BY InitInv, NextInv, PTL DEF Spec

\* The scheduler's variables keep their types: in particular user_mode is never
\* overwritten with a kernel context, whatever is preempted where.
THEOREM TypeCorrectness == Spec => []TypeOK
<1>1. Inv => TypeOK
  BY DEF Inv
<1>2. QED
  BY <1>1, Invariance, PTL

\* Whatever is preempted where, the head of the run queue is the process whose
\* page directory is loaded, a system call runs on its kernel stack, and the ps_t
\* the call looked up on entry is that process.
THEOREM HeadRuns == Spec => []RunningIsHead
<1>1. Inv => RunningIsHead
  <2> SUFFICES ASSUME Inv PROVE RunningIsHead
    OBVIOUS
  <2>1. cpu.cs = "user" => cr3 \in Ps /\ runnable_pss.start = cr3
    BY UserContext
  <2>2. cpu.cs = "kernel" /\ cpu.esp # NULL =>
          cr3 = cpu.esp /\ runnable_pss.start = cr3 /\ My.ps = cr3
    BY CallContext
  <2>3. QED
    BY <2>1, <2>2 DEF RunningIsHead
<1>2. QED
  BY <1>1, Invariance, PTL
=============================================================================
