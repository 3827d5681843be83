---------------------------- MODULE MCScheduler ----------------------------
(***************************************************************************)
(* TLC instance of Scheduler.                                              *)
(***************************************************************************)
EXTENDS Scheduler, TLC

\* ps_t structs are interchangeable: the code tells them apart by address only.
Symmetry == Permutations(Ps)

\* Once a reschedule has struck inside scheduler_add_process the list may be
\* corrupt, and what the kernel does with it is not explored further.
NotCorrupt == "add" \notin windows

\* For NoStarvation, which assumes it.
NotStruck == windows \cap {"add", "boot"} = {}

\* States that differ only in memory nobody reads again are the same: the
\* contents of a ps_t that is free, a zombie or lost (of the latter two, only
\* the registers); the saved registers of the process that is running, which
\* are written before they are read the next time; and, during a system call,
\* the eax of user mode, which the result will replace, and locals that are not
\* assigned yet or not used any more.
Dead == (Ps \ allocated) \cup zombie_pss \cup lost
Running == IF cpu.cs = "user" \/ cpu.esp # NULL THEN {cr3} ELSE {}
InUserMode == IF cpu.cs = "user" THEN Running ELSE {}
Live(f, dead) == [p \in Ps |-> IF p \in dead THEN NULL ELSE f[p]]
EipOnly(f, ps) == [p \in Ps |-> IF p \in ps THEN f[p].eip ELSE f[p]]
InSyscall == {p \in Ps : ~left[p].async}
Context(p) == IF p \in Running THEN cpu ELSE current[p]
LiveLocals(p) ==
    LET r == Context(p) l == kstack[p] IN
    IF p \in Dead \/ r.cs = "user" THEN <<>>
    ELSE CASE r.eip = "process_clone"                   -> <<l.pid>>
           [] r.eip \in {"add", "add_first", "add_end"} -> <<l.pid, l.new>>
           [] r.eip = "add_link"                        -> <<l.pid, l.new, l.end>>
           [] r.eip = "switch_execve"                   -> <<l.new>>
           [] OTHER                                     -> <<l.torn>>
Stacks == <<[p \in Ps |-> LiveLocals(p)], kstack[NULL]>>
View ==
    <<[runnable_pss EXCEPT !.next = Live(@, Dead)], zombie_pss, allocated,
      Live(id, Ps \ allocated), Live(parent_id, Ps \ allocated),
      Live(EipOnly(user_mode, InSyscall), Dead \cup InUserMode),
      Live(EipOnly(left, InSyscall), Dead \cup InUserMode),
      Live(current, Dead \cup Running),
      cpu, cr3, Stacks, ms, oom, lost, windows>>

\* Neither what the kernel does nor NoStarvation depends on the values in eax, on
\* the history left, or on the rest of the history windows.
LiveView ==
    <<[runnable_pss EXCEPT !.next = Live(@, Dead)], zombie_pss, allocated,
      Live(id, Ps \ allocated), Live(parent_id, Ps \ allocated),
      Live(EipOnly(user_mode, Ps), Dead \cup InUserMode),
      Live([p \in Ps |-> [current[p] EXCEPT !.eax = 0]], Dead \cup Running),
      [cpu EXCEPT !.eax = 0], cr3, Stacks, ms, oom, lost, NotStruck>>
=============================================================================
