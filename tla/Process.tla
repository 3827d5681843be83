-------------------------------- MODULE Process --------------------------------
(***************************************************************************)
(* The memory of processes, kernel/process.c over kernel/paging.c: process *)
(* creation, fork, execve and exit with the page frames, page tables and   *)
(* kernel pages they take and give back, on every failure path.            *)
(*                                                                         *)
(* A call is several steps.  The system calls of two processes interleave  *)
(* between an address that was found free and its mapping, and while a     *)
(* temporary mapping of the kernel is in use.  Lists of page frames have   *)
(* at most one element: 0 is the empty list, a frame the first of a block. *)
(***************************************************************************)
EXTENDS Paging

CONSTANTS
    Procs,       \* ps_t structs
    boot,        \* the boot thread, which creates init
    CODE_PAGES,  \* pages of a program
    MAX_CALLS,   \* bound: calls of fork and execve
    MAX_SWITCHES,  \* bound: timer interrupts that switch processes
    MAX_HEAP     \* bound: pages the heap takes meanwhile

ASSUME ProcessAssumption ==
    /\ boot \notin Procs
    /\ CODE_PAGES \in 1 .. (NUM_ENTRIES - 1)
    /\ MAX_CALLS \in Nat /\ MAX_SWITCHES \in Nat /\ MAX_HEAP \in Nat

VARIABLES
    mem,      \* page frames, directories and tables
    ps,       \* the ps_t structs
    call,     \* the call each process is in, and its locals
    calls,    \* how many calls there have been
    switches, \* how many times the timer has switched processes
    running,  \* who runs; its directory is loaded
    heap,     \* page frames of the kernel heap
    orphans,  \* history: page tables whose directory has been deleted
    failed,   \* history: some call has failed
    wild      \* history: the kernel has touched memory that is not its own

vars == <<mem, ps, call, calls, switches, running, heap, orphans, failed, wild>>

Callers == Procs \cup {boot}
Unused == [st |-> "unused", pdt |-> 0, pdt_paddr |-> 0, kernel_stack |-> 0,
           code |-> 0, stack |-> 0, kernel_stack_paddr |-> 0]
Idle == [op |-> "idle", child |-> boot, at |-> "idle", list |-> "code",
         paddr |-> 0, vaddr |-> 0]

STACK_VADDR == KERNEL_PDT_IDX * NUM_ENTRIES - 1
CODE_VADDR == 0
Count(list) == IF list = "code" THEN CODE_PAGES ELSE 1
Start(list) == IF list = "code" THEN CODE_VADDR ELSE STACK_VADDR

Live == {p \in Procs : ps[p].st = "live"}
At(c, step) == running = c /\ call[c].at = step
Child(c) == call[c].child
Directory(c) == IF c = boot THEN kernel_pdt ELSE ps[c].pdt_paddr

\* The kernel reaches the n frames from paddr at page, in the directory of c.
Reaches(m, c, page, paddr, n) ==
    \A i \in 0 .. (n - 1) : Translate(m, Directory(c), page + i) = paddr + i
ReachesChild(m, c) == Reaches(m, c, ps[Child(c)].pdt, ps[Child(c)].pdt_paddr, 1)

-----------------------------------------------------------------------------
(***************************************************************************)
(* How a step ends.                                                        *)
(***************************************************************************)
Go(c, step, paddr, vaddr) ==
    call' = [call EXCEPT ![c].at = step, ![c].paddr = paddr, ![c].vaddr = vaddr]

\* An error: process_delete_and_free comes next.
Fail(c) == Go(c, "delete", 0, 0) /\ failed' = TRUE /\ UNCHANGED ps

\* Bound: what may fail at any time, a file or kmalloc, fails first or not at all.
Refused == ~failed

Keep == UNCHANGED <<calls, switches, running, heap, orphans>>
Touch(good) == wild' = (wild \/ ~good)

-----------------------------------------------------------------------------
(***************************************************************************)
(* Loading a process.                                                      *)
(***************************************************************************)
\* kmalloc of the ps_t, process_init; which of the unused structs it is makes no difference
Begin(c, op) ==
    LET q == CHOOSE p \in Procs : ps[p].st = "unused"
    IN  /\ At(c, "idle")
        /\ \E p \in Procs : ps[p].st = "unused"
        /\ ps' = [ps EXCEPT ![q] = [Unused EXCEPT !.st = "loading"]]
        /\ call' = [call EXCEPT ![c] = [Idle EXCEPT !.op = op, !.child = q, !.at = "pdt"]]
        /\ UNCHANGED <<mem, failed, wild, switches, running, heap, orphans>>

\* once, when the system starts
process_create == ~failed /\ Begin(boot, "create") /\ UNCHANGED calls
Syscall(c, op) == c \in Live /\ calls < MAX_CALLS /\ calls' = calls + 1 /\ Begin(c, op)
process_clone(c) == Syscall(c, "clone")
process_create_replacement(c) == Syscall(c, "replace")

\* pdt_create, up to the address in the kernel; the result of pfa_allocate is not checked
pdt_create(c) ==
    LET paddr == pfa_allocate(mem, 1)
        m == Taken(mem, paddr, 1)
    IN  /\ At(c, "pdt")
        /\ mem' = m
        /\ Go(c, "pdt_map", paddr, pdt_kernel_find_next_vaddr(m, 1))
        /\ UNCHANGED <<ps, failed, wild>> /\ Keep

\* the rest of pdt_create, and what process_load_pdt makes of its result
process_load_pdt(c) ==
    LET paddr == call[c].paddr
        vaddr == call[c].vaddr
        r == pdt_map_memory(mem, kernel_pdt, paddr, vaddr, 1)
    IN  /\ At(c, "pdt_map") /\ Keep
        /\ IF ~r.ok
           THEN /\ mem' = IF paddr = 0 THEN r.m ELSE pfa_free_cont(r.m, paddr, 1)
                /\ Touch(paddr # 0) /\ Fail(c)
           ELSE /\ mem' = [r.m EXCEPT !.at[paddr] = Empty]
                /\ Touch(Reaches(r.m, c, vaddr, paddr, 1))
                /\ IF vaddr = 0 \/ paddr = 0 THEN Fail(c)
                   ELSE /\ ps' = [ps EXCEPT ![Child(c)].pdt = vaddr,
                                            ![Child(c)].pdt_paddr = paddr]
                        /\ Go(c, IF call[c].op = "clone" THEN "copy" ELSE "code", 0, 0)
                        /\ UNCHANGED failed

\* process_load_code, up to the address in the kernel
process_load_code_find(c) ==
    LET paddr == pfa_allocate(mem, CODE_PAGES)
        m == Taken(mem, paddr, CODE_PAGES)
        vaddr == pdt_kernel_find_next_vaddr(m, CODE_PAGES)
    IN  /\ At(c, "code") /\ UNCHANGED wild /\ Keep
        /\ \/ Refused /\ UNCHANGED mem /\ Fail(c)    \* no such file
           \/ /\ mem' = m
              /\ IF paddr = 0 \/ vaddr = 0 THEN Fail(c)
                 ELSE Go(c, "code_map", paddr, vaddr) /\ UNCHANGED <<ps, failed>>

\* A page that was free when vaddr was found is free no more.
Stale(c, n) == \E i \in 0 .. (n - 1) : Translate(mem, kernel_pdt, call[c].vaddr + i) # NotMapped

process_load_code_map(c) ==
    LET r == pdt_map_memory(mem, kernel_pdt, call[c].paddr, call[c].vaddr, CODE_PAGES)
    IN  /\ At(c, "code_map") /\ Keep
        /\ \/ /\ r.ok
              /\ mem' = r.m
              /\ Go(c, "code_read", call[c].paddr, call[c].vaddr)
              /\ UNCHANGED <<ps, failed, wild>>
           \/ /\ ~r.ok /\ UnmapLoops(r.m, call[c].vaddr)
              /\ mem' = r.m
              /\ Go(c, "loop", 0, 0) /\ failed' = TRUE /\ UNCHANGED <<ps, wild>>
           \/ /\ ~r.ok /\ ~UnmapLoops(r.m, call[c].vaddr)
              /\ mem' = pdt_unmap_kernel_memory(r.m, call[c].vaddr, CODE_PAGES)
              /\ Touch(~Stale(c, CODE_PAGES)) /\ Fail(c)

\* vfs_read, unmapping, mapping in the process, the list
process_load_code_read(c) ==
    LET paddr == call[c].paddr
        m == pdt_unmap_kernel_memory(mem, call[c].vaddr, CODE_PAGES)
        r == pdt_map_memory(m, ps[Child(c)].pdt_paddr, paddr, CODE_VADDR, CODE_PAGES)
    IN  /\ At(c, "code_read") /\ Keep
        /\ Touch(Reaches(mem, c, call[c].vaddr, paddr, CODE_PAGES) /\ ReachesChild(mem, c))
        /\ \/ Refused /\ mem' = m /\ Fail(c)         \* vfs_read
           \/ (Refused \/ ~r.ok) /\ mem' = r.m /\ Fail(c)
           \/ /\ r.ok
              /\ mem' = r.m
              /\ ps' = [ps EXCEPT ![Child(c)].code = paddr]
              /\ Go(c, "stack", 0, 0) /\ UNCHANGED failed

process_load_stack(c) ==
    LET paddr == pfa_allocate(mem, 1)
        r == pdt_map_memory(Taken(mem, paddr, 1), ps[Child(c)].pdt_paddr, paddr, STACK_VADDR, 1)
    IN  /\ At(c, "stack") /\ Keep
        /\ \/ paddr = 0 /\ UNCHANGED <<mem, wild>> /\ Fail(c)
           \/ /\ paddr # 0
              /\ Touch(ReachesChild(mem, c))
              /\ mem' = r.m
              /\ \/ (Refused \/ ~r.ok) /\ Fail(c)
                 \/ /\ r.ok
                    /\ ps' = [ps EXCEPT ![Child(c)].stack = paddr]
                    /\ Go(c, "kernel_stack", 0, 0) /\ UNCHANGED failed

process_load_kernel_stack_find(c) ==
    LET paddr == pfa_allocate(mem, 1)
        m == Taken(mem, paddr, 1)
        vaddr == pdt_kernel_find_next_vaddr(m, 1)
    IN  /\ At(c, "kernel_stack") /\ UNCHANGED wild /\ Keep
        /\ mem' = m
        /\ IF paddr = 0 \/ vaddr = 0 THEN Fail(c)
           ELSE Go(c, "kernel_stack_map", paddr, vaddr) /\ UNCHANGED <<ps, failed>>

process_load_kernel_stack_map(c) ==
    LET paddr == call[c].paddr
        r == pdt_map_memory(mem, kernel_pdt, paddr, call[c].vaddr, 1)
    IN  /\ At(c, "kernel_stack_map") /\ UNCHANGED wild /\ Keep
        /\ mem' = r.m
        /\ \/ (Refused \/ ~r.ok) /\ Fail(c)
           \/ /\ r.ok
              /\ ps' = [ps EXCEPT ![Child(c)].kernel_stack_paddr = paddr,
                                  ![Child(c)].kernel_stack = call[c].vaddr]
              /\ Go(c, IF call[c].op = "create" THEN "done" ELSE "descriptors", 0, 0) /\ UNCHANGED failed

-----------------------------------------------------------------------------
(***************************************************************************)
(* Copying the code and the stack of the parent, process_copy_paddr_list.  *)
(***************************************************************************)
Lists == {"code", "stack"}

\* the code first, then the stack, then a new kernel stack
Copied(c) ==
    IF call[c].list = "code"
    THEN call' = [call EXCEPT ![c].at = "copy", ![c].list = "stack", ![c].paddr = 0, ![c].vaddr = 0]
    ELSE Go(c, "kernel_stack", 0, 0)

copy_find(c) ==
    LET n == Count(call[c].list)
        paddr == pfa_allocate(mem, n)
        m == Taken(mem, paddr, n)
        vaddr == pdt_kernel_find_next_vaddr(m, n)
    IN  /\ At(c, "copy") /\ UNCHANGED wild /\ Keep
        /\ IF paddr = 0 THEN UNCHANGED mem /\ Fail(c)
           ELSE IF vaddr = 0 THEN mem' = pfa_free_cont(m, paddr, n) /\ Fail(c)
           ELSE /\ mem' = m
                /\ Go(c, "copy_map", paddr, vaddr) /\ UNCHANGED <<ps, failed>>

copy_map(c) ==
    LET n == Count(call[c].list)
        r == pdt_map_memory(mem, kernel_pdt, call[c].paddr, call[c].vaddr, n)
    IN  /\ At(c, "copy_map") /\ Keep
        /\ \/ /\ r.ok
              /\ mem' = r.m
              /\ Go(c, "copy_data", call[c].paddr, call[c].vaddr)
              /\ UNCHANGED <<ps, failed, wild>>
           \/ /\ ~r.ok /\ UnmapLoops(r.m, call[c].vaddr)
              /\ mem' = r.m
              /\ Go(c, "loop", 0, 0) /\ failed' = TRUE /\ UNCHANGED <<ps, wild>>
           \/ /\ ~r.ok /\ ~UnmapLoops(r.m, call[c].vaddr)
              /\ mem' = pfa_free_cont(pdt_unmap_kernel_memory(r.m, call[c].vaddr, n),
                                      call[c].paddr, n)
              /\ Touch(~Stale(c, n)) /\ Fail(c)

\* memcpy, unmapping, the list element, mapping in the child.  When the mapping
\* fails the element has been linked: it is freed here and again with the child.
CopyOver(c, listed, mapped) ==
    LET list == call[c].list
        n == Count(list)
        paddr == call[c].paddr
        m == pdt_unmap_kernel_memory(mem, call[c].vaddr, n)
        r == pdt_map_memory(m, ps[Child(c)].pdt_paddr, mapped, Start(list), n)
    IN  /\ At(c, "copy_data") /\ Keep
        /\ Touch(/\ Reaches(mem, c, call[c].vaddr, paddr, n)
                 /\ Reaches(mem, c, Start(list), ps[c][list], n)
                 /\ ReachesChild(mem, c) /\ r.ok)
        /\ \/ Refused /\ mem' = pfa_free_cont(m, paddr, n) /\ Fail(c)
           \/ /\ r.ok
              /\ mem' = r.m
              /\ ps' = [ps EXCEPT ![Child(c)][list] = listed]
              /\ Copied(c) /\ UNCHANGED failed
           \/ /\ ~r.ok
              /\ mem' = pfa_free_cont(r.m, paddr, n)
              /\ ps' = [ps EXCEPT ![Child(c)][list] = listed]
              /\ Go(c, "delete", 0, 0) /\ failed' = TRUE

\* Mutants: the child lists, or maps, the page frames of the parent.
CopyListsParent(c) == CopyOver(c, ps[c][call[c].list], call[c].paddr)
CopyMapsParent(c) == CopyOver(c, call[c].paddr, ps[c][call[c].list])

copy_data(c) == CopyOver(c, call[c].paddr, call[c].paddr)

-----------------------------------------------------------------------------
(***************************************************************************)
(* The end of a call.                                                      *)
(***************************************************************************)
delete_paddr_list(m, paddr, n) == IF paddr = 0 THEN m ELSE pfa_free_cont(m, paddr, n)

\* the directory and the kernel stack; the kernel page of the directory stays mapped
DeleteKernelHalf(m, p) ==
    LET m1 == IF ps[p].pdt = 0 THEN m ELSE pdt_delete(m, ps[p].pdt)
    IN  IF ps[p].kernel_stack = 0 THEN m1
        ELSE pdt_unmap_kernel_memory(delete_paddr_list(m1, ps[p].kernel_stack_paddr, 1),
                                     ps[p].kernel_stack, 1)

\* Mutant: the stack is forgotten.
DeletedWithoutStack(m, p) ==
    delete_paddr_list(DeleteKernelHalf(m, p), ps[p].code, CODE_PAGES)

process_delete_resources(m, p) ==
    delete_paddr_list(delete_paddr_list(DeleteKernelHalf(m, p), ps[p].code, CODE_PAGES),
                      ps[p].stack, 1)

\* the page tables of the user half of p's directory
UserTables(p) ==
    IF ps[p].pdt_paddr = 0 THEN {}
    ELSE {mem.at[ps[p].pdt_paddr][d] :
             d \in {e \in DOMAIN mem.at[ps[p].pdt_paddr] : e < KERNEL_PDT_IDX}}

process_delete_and_free(c) ==
    /\ At(c, "delete")
    /\ mem' = process_delete_resources(mem, Child(c))
    /\ orphans' = orphans \cup UserTables(Child(c))
    /\ ps' = [ps EXCEPT ![Child(c)] = Unused]
    /\ call' = [call EXCEPT ![c] = Idle]
    /\ UNCHANGED <<calls, switches, running, heap, failed, wild>>

\* Each descriptor is copied, or kmalloc refuses the memory for one.
process_copy_file_descriptors(c) ==
    /\ At(c, "descriptors") /\ UNCHANGED <<mem, wild>> /\ Keep
    /\ \/ Go(c, "done", 0, 0) /\ UNCHANGED <<ps, failed>>
       \/ Refused /\ Fail(c)

\* scheduler_schedule for q: the kernel's entries are copied through the kernel page of
\* its directory, which the directory in use must reach.
Load(m, q, state) ==
    /\ mem' = pdt_load_process_pdt(m, state[q].pdt_paddr)
    /\ Touch(Reaches(m, running, state[q].pdt, state[q].pdt_paddr, 1))
    /\ running' = q

\* sys_fork and start_init: the child joins the run queue
fork_done(c) ==
    /\ At(c, "done") /\ call[c].op = "clone"
    /\ ps' = [ps EXCEPT ![Child(c)].st = "live"]
    /\ call' = [call EXCEPT ![c] = Idle]
    /\ UNCHANGED <<mem, failed, wild>> /\ Keep

create_done ==
    LET state == [ps EXCEPT ![Child(boot)].st = "live"]
    IN  /\ At(boot, "done")
        /\ ps' = state
        /\ call' = [call EXCEPT ![boot] = Idle]
        /\ Load(mem, Child(boot), state)
        /\ UNCHANGED <<calls, switches, heap, orphans, failed>>

\* continue_execve: the old process is deleted and the new one takes its place
execve_done(c) ==
    LET state == [ps EXCEPT ![c] = Unused, ![Child(c)].st = "live"]
    IN  /\ At(c, "done") /\ call[c].op = "replace"
        /\ ps' = state
        /\ call' = [call EXCEPT ![c] = Idle]
        /\ orphans' = orphans \cup UserTables(c)
        /\ \E q \in Procs : state[q].st = "live" /\ Load(process_delete_resources(mem, c), q, state)
        /\ UNCHANGED <<calls, switches, heap, failed>>

\* continue_exit: the struct stays as a zombie; without another process the CPU halts
sys_exit(c) ==
    LET state == [ps EXCEPT ![c].st = "zombie"]
    IN  /\ c \in Live /\ At(c, "idle")
        /\ ps' = state
        /\ orphans' = orphans \cup UserTables(c)
        /\ \/ \E q \in Live \ {c} : Load(process_delete_resources(mem, c), q, state)
           \/ /\ Live = {c}
              /\ mem' = process_delete_resources(mem, c)
              /\ UNCHANGED <<running, wild>>
        /\ UNCHANGED <<call, calls, switches, heap, failed>>

\* the timer interrupt
scheduler_schedule(q) ==
    /\ running \in Live /\ q \in Live \ {running}
    /\ switches < MAX_SWITCHES /\ switches' = switches + 1
    /\ Load(mem, q, ps)
    /\ UNCHANGED <<ps, call, calls, heap, orphans, failed>>

\* kmalloc needs another page for the heap; it is called between the steps that find a
\* page and map it
heap_grows ==
    LET paddr == pfa_allocate(mem, 1)
        m == Taken(mem, paddr, 1)
        vaddr == pdt_kernel_find_next_vaddr(m, 1)
        r == pdt_map_memory(m, kernel_pdt, paddr, vaddr, 1)
    IN  /\ Cardinality(heap) < MAX_HEAP
        /\ running \in Live
        /\ call[running].at \notin {"pdt_map", "code_map", "kernel_stack_map", "copy_map"}
        /\ paddr # 0 /\ vaddr # 0 /\ r.ok
        /\ mem' = r.m
        /\ heap' = heap \cup {paddr}
        /\ Touch(Reaches(r.m, running, vaddr, paddr, 1))
        /\ UNCHANGED <<ps, call, calls, switches, running, orphans, failed>>

-----------------------------------------------------------------------------
Init ==
    /\ mem = InitialMemory
    /\ ps = [p \in Procs |-> Unused]
    /\ call = [c \in Callers |-> Idle]
    /\ running = boot /\ calls = 0 /\ switches = 0
    /\ heap = {} /\ orphans = {} /\ failed = FALSE /\ wild = FALSE

Next ==
    \/ process_create \/ create_done \/ heap_grows
    \/ \E c \in Callers :
          \/ process_clone(c) \/ process_create_replacement(c)
          \/ pdt_create(c) \/ process_load_pdt(c)
          \/ process_load_code_find(c) \/ process_load_code_map(c) \/ process_load_code_read(c)
          \/ process_load_stack(c)
          \/ process_load_kernel_stack_find(c) \/ process_load_kernel_stack_map(c)
          \/ copy_find(c) \/ copy_map(c) \/ copy_data(c)
          \/ process_copy_file_descriptors(c)
          \/ process_delete_and_free(c) \/ fork_done(c) \/ execve_done(c)
          \/ sys_exit(c) \/ scheduler_schedule(c)

Spec == Init /\ [][Next]_vars

-----------------------------------------------------------------------------
(***************************************************************************)
(* Properties.                                                             *)
(***************************************************************************)
Steps == {"idle", "pdt", "pdt_map", "code", "code_map", "code_read", "stack", "kernel_stack",
          "kernel_stack_map", "descriptors", "done", "delete", "loop"}
         \cup {"copy", "copy_map", "copy_data"}

\* Until the kernel touches foreign memory the variables keep their types; in particular
\* the free frames are page frames of the allocator, never the kernel's own directory or
\* table, and entries point to memory there is.
TypeOK ==
    ~wild =>
    /\ mem.free \subseteq Frames
    /\ \A f \in Phys : DOMAIN mem.at[f] \subseteq Entries /\ \A i \in DOMAIN mem.at[f] : mem.at[f][i] \in Phys
    /\ ps \in [Procs -> [st : {"unused", "loading", "live", "zombie"},
                         pdt : Pages, kernel_stack : Pages,
                         pdt_paddr : Phys, code : Phys, stack : Phys, kernel_stack_paddr : Phys]]
    /\ call \in [Callers -> [op : {"idle", "create", "clone", "replace"}, child : Callers,
                             at : Steps, list : Lists, paddr : Phys, vaddr : Pages]]
    /\ running \in Callers /\ calls \in 0 .. MAX_CALLS /\ switches \in 0 .. MAX_SWITCHES
    /\ heap \subseteq Frames /\ orphans \subseteq Frames

\* The claims on page frames: of the structs in use, of the calls under way and of the kernel.
InUse == {p \in Procs : ps[p].st \in {"loading", "live"}}
PagesOf(c) == IF call[c].at \in {"code_map", "code_read", "copy_map", "copy_data"}
              THEN Count(call[c].list) ELSE 1
Claims ==
    {<<p, "pdt", ps[p].pdt_paddr>> : p \in InUse}
    \cup {<<p, "kernel_stack", ps[p].kernel_stack_paddr>> : p \in InUse}
    \cup {<<p, "stack", ps[p].stack>> : p \in InUse}
    \cup (UNION {{<<p, "code", IF ps[p].code = 0 THEN 0 ELSE ps[p].code + i>> :
                     i \in 0 .. (CODE_PAGES - 1)} : p \in InUse})
    \cup (UNION {{<<p, "table", f>> : f \in UserTables(p)} : p \in InUse})
    \cup (UNION {{<<c, "call", call[c].paddr + i>> : i \in 0 .. (PagesOf(c) - 1)} :
                     c \in {d \in Callers : call[d].paddr # 0}})
    \cup {<<boot, "heap", f>> : f \in heap}
    \cup {<<boot, "kernel", mem.at[kernel_pdt][d]>> : d \in DOMAIN mem.at[kernel_pdt]}
Held == {a \in Claims : a[3] # 0}

\* Until the kernel goes wild a page frame has one use, wherever a call fails half way: no
\* two directories, tables, stacks or programs share one, and none of them is free.  A fork
\* whose mapping fails frees a list element that it has linked, which is wild.
OneUse ==
    ~wild => /\ \A a, b \in Held : a[3] = b[3] => a = b
             /\ \A a \in Held : a[3] \notin mem.free

\* A process reaches its own code and stack through its directory, all of it and nothing
\* else below the kernel.
Isolation ==
    ~wild => \A p \in Live :
        UNION {{mem.at[pt][i] : i \in DOMAIN mem.at[pt]} : pt \in UserTables(p)}
            = (ps[p].code .. (ps[p].code + CODE_PAGES - 1)) \cup {ps[p].stack}

\* The kernel finds the directory and the kernel stack of every process where it has put
\* them, however calls that use kernel pages for a while come and go.
KernelMapped ==
    ~wild => \A p \in InUse :
        /\ ps[p].pdt # 0 => Translate(mem, kernel_pdt, ps[p].pdt) = ps[p].pdt_paddr
        /\ ps[p].kernel_stack # 0 =>
              Translate(mem, kernel_pdt, ps[p].kernel_stack) = ps[p].kernel_stack_paddr

\* As long as no call has failed, page tables of deleted processes are all that is lost.
OnlyTablesLost ==
    ~wild /\ ~failed => Frames \ mem.free = ({a[3] : a \in Held} \cap Frames) \cup orphans

\* process.h about process_delete_resources: "does not free the ps_t struct, only the
\* memory and resources used by the process".
DeleteReleases ==
    [][\A p \in InUse : ps'[p].st \notin {"loading", "live"} =>
          {a[3] : a \in {b \in Held : b[1] = p}} \subseteq mem'.free]_vars
=============================================================================
