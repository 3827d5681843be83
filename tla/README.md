# A TLA+ development for aenix

aenix is a small x86 kernel: one CPU, preemptive processes, a bitmap page frame
allocator, a K&R heap, paging, a virtual file system over an in-memory file
system and a device file system, and drivers for keyboard, frame buffer and
serial port. This directory models the parts in which something can go wrong
that a test run hardly meets, checks the models with TLC on small instances and
proves the most important invariants with TLAPS for every instance.

Run `tlc -config X.cfg M` for a run listed in `PROJECT.json`, and
`tlapm M.tla` for the modules `SchedulerProofs`, `SchedulerListProofs`,
`SchedulerSafetyProofs`, `PageFrameAllocatorProofs`, `KeyboardProofs`, `KmallocProofs`,
`FrameBufferProofs` and `ProcessProofs`.

## 1. Inventory

| component | source (`src/src/kernel/`) | state | operations | what makes it correct |
|---|---|---|---|---|
| scheduler | `scheduler.c`, `scheduler_asm.s` | run queue, zombie list, time used of the slice; per process two saved contexts (`user_mode`, `current`) | add, remove, replace, terminate, schedule, PIT interrupt, next pid, children | the head of the queue is the process that runs; the queue loses nobody; a process comes back where it left; nobody starves |
| process system calls | `syscall.c`, `interrupt_asm.s` | locals on the kernel stack of each process | fork, execve, exit, yield, wait, open, read, write | pids are unique; results go to the caller; wait reports each child; a descriptor stands for one object |
| boot | `kmain.c`, `loader.s`, `multiboot.h` | the memory map, the module with the file system | device initialisation, mounts, `start_init` | init is queued and run; kernel and file system are not given away as free memory |
| process resources | `process.c` | page directory, code, stack and kernel stack frames, descriptors | create, clone, replace, delete | every frame of a process is released exactly once, on every failure path |
| page frame allocator | `page_frame_allocator.c` | memory map, bitmap | init, allocate, free | the map covers free memory only; a frame is given out once; nothing leaks; address and bit index are inverse |
| kernel heap | `kmalloc.c` | circular free list | allocate, free, acquire more heap | blocks are disjoint; free neighbours are joined |
| paging | `paging.c` | page directories and tables | map, unmap, create, delete | what is mapped can be unmapped; no two mappings of a frame in the kernel |
| keyboard | `keyboard.c` | ring buffer, modifier flags | interrupt handler, read, translation | codes arrive once, in order, with the right modifiers |
| VFS, devfs | `vfs.c`, `vnode.c`, `devfs.c` | mount list, device list | mount, lookup, open, read, write, add device | a path goes to the file system mounted nearest above it; a device added can be found |
| aefs | `aefs.c`, `mkfs.c`, `rdaefs.c` | superblock, inodes, blocks | lookup, open, read; building the image | what mkfs wrote is what is read |
| frame buffer | `fb.c` | screen, cursor | put character, scroll, move | the cursor stays on the screen; the screen shows what was written |
| serial, log, printf | `serial.c`, `log.c`, `stdio.c` | - | output | - |
| GDT, IDT, TSS, PIC, PIT | `gdt.c`, `idt.c`, `tss.c`, `pic.c`, `pit.c`, `interrupt.c` | tables written at boot | set up, dispatch, acknowledge | - |
| libc and applications | `libc/`, `apps/` | - | system call wrappers, init, sh | - |

**How they interact.** A user program enters the kernel through `int 0xAE`;
`handle_syscall` pushes the registers, `syscall_handle_interrupt` saves them in
the `ps_t` at the head of the run queue, calls the handler and resumes user mode.
The PIT interrupt saves the interrupted context - user or kernel - in the `ps_t`
at the head and calls `scheduler_schedule`. The system calls use process
resources, these use heap, paging and the page frame allocator, and the file
system calls go through the VFS to aefs or a device. The keyboard handler fills a
buffer that `read` of `/dev/keyboard` empties by busy waiting.

**What is hard.** All gates are trap gates and the `cli` in `handle_syscall` is
commented out, so the kernel is preemptible at every instruction, and it has no
locks: the run queue, the page frame bitmap, the free list of the heap, the
keyboard buffer and the cursor are all updated by code that may be suspended in the middle while
another process runs the same code. On top of this there are failure paths
(an allocation that fails half way through a clone), boundary arithmetic (bitmap
bytes and cells, regions, ring buffer, lists of inodes), the resolution of paths over
several mounts, and waiting loops that have to end. The
list `hazards` of `PROJECT.json` names each place.

## 2. Modules

| module | models | proofs |
|---|---|---|
| `Scheduler` (`MCScheduler`) | `scheduler.c`, the process system calls, context switches, `start_init` | `SchedulerProofs`, `SchedulerListProofs`, `SchedulerSafetyProofs` |
| `PageFrameAllocator` | allocation and freeing of frames, the bitmap as `construct_bitmap` leaves it | `PageFrameAllocatorProofs` |
| `MemoryMap` (`MCPageFrameAllocator`) | boot up to `pfa_init`: the regions that the allocator goes on with; extends `PageFrameAllocator` | `PageFrameAllocatorProofs` |
| `Keyboard` (`MCKeyboard`) | `keyboard.c` | `KeyboardProofs` |
| `Kmalloc` (`MCKmalloc`) | `kmalloc.c`; implements the abstract `Heap` | `KmallocProofs` |
| `Paging` | `paging.c` as operators on physical memory | `ProcessProofs` |
| `Process` (`MCProcess`) | `process.c` over `Paging`: page frames, tables and kernel pages of processes; fork, execve, exit | `ProcessProofs` |
| `FrameBuffer` | `fb.c`: characters, cursor, scrolling, overlapping writers | `FrameBufferProofs` |
| `Aefs` | `mkfs.c`, `aefs.c`, `rdaefs.c` as operators on an image | - |
| `Vfs` | `vfs.c`, `devfs.c` as operators: mounts, devices, lookup; extends `Aefs` | - |
| `Files` (`MCFiles`) | mkfs, mounting at boot, open, read, write, and what fork, execve and exit do to descriptors; composes `Vfs` and `FrameBuffer` | - |

The `map` of `PROJECT.json` gives the source lines of every definition.

### Scheduler

State: `runnable_pss` has the fields `start` and `end` of `ps_list_t` and the
`next` pointers; a list element is identified with its process. `user_mode` and
`current` are the two contexts of a `ps_t`. `cpu` holds the registers that matter
to scheduling: the privilege (`cs`), the place (`eip`: a program point of the user
program, or a label of the kernel), `eax`, the kernel stack in use (`esp`) and the
interrupt flag. `cr3` stands for page directory and TSS, which are loaded
together. `kstack[p]` holds the locals of the system call that runs, or is
suspended, on the kernel stack of `p`. `windows`, `lost` and `left` are history.

Actions: one per piece of kernel code that a reschedule can separate from the
next. `scheduler_handle_pit_interrupt` is enabled whenever the interrupt flag is
set, so between any two labels. `scheduler_add_process` is four steps (kmalloc and
the loads, `start`, `end->next`, `end`), because the queue is inconsistent between
its stores; `sys_fork` computes the pid in one step and clones in another;
the continuations of execve and exit are one step each, since they run with
interrupts off. A walk over the list during which the list was rotated
(`torn`) may miss any of its elements. Failures: clone, replacement and creation
may fail, and `kmalloc` may refuse up to `MAX_OOM` list elements, in which case the
process is `lost`.

External: `UserStep`, the user program, which moves to any program point and makes
any system call of `Calls`.

### PageFrameAllocator

State: `bitmap` (1 is free), `held` - the blocks each client has been given -,
and per client the call under way, between its search and its toggling of bits.
`Found` states declaratively which block the two nested loops of `pfa_allocate`
find; `MCPageFrameAllocator` holds the loops as a recursive operator and TLC
compares the two (`FoundIsScan`). The initial bitmap is the one
`construct_bitmap` leaves: it is filled by bytes and read by little-endian
32-bit cells, so bits of real frames may be 0, bits in the last cell may hold
whatever was in memory, and bits behind the last frame may be 1. The `^=` of a cell is a
load and a store: when two calls overlap, a toggle may be lost.
Clients only free blocks they hold.

### MemoryMap

State: `boot`, what GRUB reports (entries with 64-bit addresses, the kernel's end, the
module), the place in `kinit`, the array `mmap` as far as it is filled, the frames counted, `page_frames.len`
and the address of the bitmap. Addresses are bytes with the width of `uint32_t`
(`UINT`). The actions are the iterations of `fill_memory_map`, the loop of `pfa_init`, the iterations of
the loop of `construct_bitmap` that counts the frames, and the rest of it, with their error returns. When the map they leave is the `mmap` of `PageFrameAllocator`, the
allocator goes on from there.

The lengths that `fill_memory_map` computes are wrong twice: the entry of the kernel is
reduced by the *address* of the kernel's end, so by a megabyte too much, and the region
behind the file system is not reduced at all, because `addr` has been overwritten by
then (`page_frame_allocator.c:59`). Together they make the region behind the file system too long by the
distance from the kernel's end to the file system's, less a megabyte (`Overrun`). `mkfs.c:79` makes images of
whole megabytes, so this is never nothing: with the 4 MB image of `src/src/Makefile:7` the last region passes
the end of the memory by three megabytes and more. `MapSound` says that this is all: every region begins in
available memory and passes its end by `Overrun` at most, and, unless an available entry begins so near behind the
kernel's (`RoomBehind`), the regions are sorted and disjoint, which is what the allocator goes by. What the
allocator gives out behind the end of memory is for the hardware to say. The premises are what GRUB reports on a
PC with less than 4 GB: `Regular`, sorted disjoint entries, of which the available ones from the kernel's on are whole
pages (the ones below a megabyte are dropped and may be anything), and `LoadedApart`, of which the alignment of
the module to a page is what the header in `loader.s` asks GRUB for. An entry at 4 GB
is truncated to address 0 and dropped.

### Keyboard

State: the controller's output byte and interrupt request; the buffer with `head`,
`tail` and `count`; the three modifier flags; the handler's remaining stores and
the readers' positions in `kbd_read`. `*tail++ = kbd_read_scan_code()` is two
stores in an order C leaves open (`advance_tail`, `store_scan_code`).
Keys are classes: a letter, a key with another character under shift, one without,
the two shift keys, caps lock, and one that is ignored. `stored` and `taken` are
history; `overlapped` records that a reader has seen a tail the handler was about to
repair, or that two readers were taking codes at once.

External: `Type`, the keyboard controller, which sends the code of a press, a release or
a repetition when its byte has been read.

### Kmalloc and Heap

State: the fields `next` and `size` of every header-sized unit of memory, `freep`,
the call under way with the locals of `kmalloc`, `acquire_more_heap` and `kfree`,
and the units mapped for the heap. `used` and `free` are history: the blocks
callers own, and the headers that ought to be in the list. Each iteration of the two
search loops is a step; `acquire_more_heap` ends in `kfree`, whose end resumes the
search (`Resumed`). A caller writes into its block, so headers inside it are gone
(`Overwritten`). Calls do not overlap: the list has no lock, and what two calls
in the middle of each other do to it is left out. `Heap` is the promise: a set of
disjoint blocks, to which `kmalloc` adds one and from which `kfree` removes one.

External: `pdt_kernel_find_next_vaddr` gives any pages that are not in use, or fails.

### Paging and Process

State: `mem` is physical memory, the free page frames and, for each frame, the entries
it has as a directory or a table; `ps` the `ps_t` structs; `call[c]` the place in
`process.c` and the locals of the call `c` is in; `running` the process whose directory
is loaded. A directory translates a page as the processor does, so that the model can
tell whether a write arrives at the frame it is meant for. The allocator is first fit
and frees by toggling, as `PageFrameAllocator` shows it to be when calls do not overlap.

Actions: a call is cut where another process may get the CPU between two uses of shared
state: between finding a free kernel page and mapping it, and between mapping it and
using it. The functions of `paging.c` themselves are one step; the loop of `pt_map_memory` is the
number of entries it gets to, which the first entry that is present, or is the temporary one, decides. Every error return goes
to `process_delete_and_free` with what the struct holds by then. `Refused` failures (a missing
file, a failing read, a refused `kmalloc`) may strike anywhere, one per behaviour;
running out of frames or of kernel pages happens when it happens. `heap_grows` is a
successful `acquire_more_heap`. The scheduler picks any live process, which covers every
order of its queue.

`wild` marks the steps after which nothing can be said: a write through a kernel table that
the loaded directory does not have, address 0 cleared or page frame 0 freed, a stale
kernel page whose unmapping takes away another process's mapping, and the second `pfa_free_cont` of a
list element that a failing fork has linked and freed. The code has all of these;
the properties say that there are no others. `orphans` are the page tables of deleted processes.

### FrameBuffer

State: the visible cells, `cursor_pos`, and per writer the place in `fb_write` with the
rest of its string. `fb_put_b` is cut at each load and store of `cursor_pos`, since
nothing locks the console and the kernel is compiled without optimisation, so that every read in
the source is a load: `move_cursor_back` tests the position (`test`) and loads it again to decrement it (`load`), and
`move_cursor_start` loads it twice, in either order (`load_start`, `load_column`). Two backspaces that
both find position 1 so take `cursor_pos` to the largest `uint16_t`, and at position 0 nothing is stored. Two things are
coarser, of which nothing is claimed when writers overlap: a cell is written in the step that loads its position, and a
scroll is one step. `paper` is history and the reference: the
text on a page that never scrolls, of which the screen has to show the last rows. A
tab is the four recursive calls and the check with which its own call ends.

### Aefs, Vfs and Files

`Aefs` and `Vfs` are pure: an image is a table of inodes, a sequence of blocks and
mkfs's two counters, and the functions of `mkfs.c`, `aefs.c`, `rdaefs.c`, `vfs.c` and
`devfs.c` are operators on it and on the lists of mounts and devices. Sizes are counted in
directory entries (256 bytes), which also are the pieces of a file, so that blocks that are
partly filled, lists of inodes and a size at its limit occur with small numbers. A path is
a sequence of chunks that are equal or differ in their first character (`/data` is
`/`, `d`, `ata`, because `/dev/` begins with the same two), so comparing chunks ends
where the loop of `find_longest_mount_path` does.

`Files` is the machine: `make_fs` builds an image from one of the `Trees` of the host,
`kinit` mounts it and adds the devices, `start_init` makes the first process, and the
processes make system calls. A call is one step, because what it
reads of files never changes after boot and what it writes is its own process's; `sys_write`
to the console goes on in the steps of `FrameBuffer`. `vnodes` are the vnodes that fit into the heap,
each with the path it was opened with (history). `enough` and `got` are the memory
that may be missing: every allocation may fail, but for the paths that `vfs_mount` copies at boot. `wild` marks what the code does not
check: a vnode that `kmalloc` refused, the copy of a path that it refused to `vfs_lookup` (`LookupWild`), and a descriptor past the table in `sys_write`.
`stage` ends in `died` or `wild` when the tree is too large for mkfs.

Noted while modelling, and in the definitions:

- `find_longest_mount_path` compares up to the first difference and does not
  require the end of the mount path, so `/data` is looked up in devfs under the name
  `ata` (`Shadowed`).
- The lookup in an empty directory searches block 0, which holds the entries of
  the root (`ThroughEmpty`): `/m/bin` is found when `/m` is empty.
- The unused entries of a directory's last block have empty names and inode 0, so an empty
  name (`//`) finds inode 0 (`Clean`).
- `visit_file` of mkfs does not check the number of inodes, nor does anything check the
  number of blocks; `visit_dir` compares with `==`, and tails of files can step over it.
- A third device would lose the second (`devfs.c:128`), and `vfs_mount` does not compare
  with the last mount of its list. The kernel adds two devices and makes two mounts, so
  neither happens.
- `kinit` ignores a failing `populate_devfs`.
- `process_delete_resources` leaves vnodes allocated, and so do execve and a failed `vfs_lookup`.

## 3. Runs

| run | instance | shows |
|---|---|---|
| `scheduler_safety` | 3 processes, all calls, slice of one tick, one refused element; 768 000 states | `TypeOK`, `RunningIsHead`, `ListIntact`, `UniquePids` |
| `scheduler_contexts` | 2 processes, 2 program points, slice of 2 ticks | `ContextPreserved` |
| `scheduler_live` | 3 processes that fork and wait | `NoStarvation` |
| `scheduler_next_in_line` | 3 processes that fork and exit | violates `NextInLineRuns`: after exit and execve the rotation sends the next process to the end without running it |
| `scheduler_wait` | 3 processes, all calls | violates `WaitConsumesChild`: the zombie stays, and init's loop of waits does not end |
| `page_frames` | 201 boots; 2 clients, regions of 1 and 6 frames, blocks up to 3; 23 000 states | `TypeOK`, `NoDoubleAllocation`, `NoLeak`, `AllocationGuarantee`, `FoundIsScan`, `Spared`, `MapSound`, `FramesCounted` |
| `keyboard` | buffer of 3, 2 readers, a letter, a shift key, caps lock; 201 000 states | `TypeOK`, `FIFO`, `VisibleUnread`, `ModifiersTracked`, `Delivered` |
| `kmalloc` | pages of 2 units, growth by 2 pages or more, 5 pages, requests up to 5 units; 15 000 states | `TypeOK`, `Partition`, `FreeList`, `ImplementsHeap`, `CallsReturn` |
| `process` | 4 structs, 3 calls of fork and execve, 22 frames, tables of 12 entries, programs of 2 pages, 2 switches, one heap page; 360 000 states | `TypeOK`, `OneUse`, `Isolation`, `KernelMapped`, `OnlyTablesLost` |
| `files` | 18 trees, 10 paths, 2 processes of 2 descriptors, 4 vnodes, 4 calls, a screen of 2 by 2; 403 000 states | `FilesTypeOK`, `ImageListed`, `Owned`, `Inherited`, `Resolves`, `ReadBack`, `CursorOnScreen`, `NoStrayWrite`, `ShowsText` |
| `process_delete` | the same as `process` | violates `DeleteReleases`: page tables are never freed |
| `keyboard_discard` | buffer of 3, one key | violates `DiscardOnlyWhenFull`: `count` never falls |

**What the properties leave out.** Several hold only outside a race the code really
has, and say so in their premise. `ListIntact` does not speak about behaviours in
which a reschedule struck between the loads and stores of `scheduler_add_process`
or struck the boot thread; `UniquePids` excludes a fork preempted between computing
and queuing its pid; the properties of blocks exclude overlapping calls of the
allocator; those of the heap are about one call at a time; the keyboard properties exclude a reader on a torn tail;
those of processes exclude what follows a wild access; `Resolves` and `ReadBack` are about
paths as users write them, and leave out the ones that the code sends elsewhere (section 2),
and `ReadBack` files below `SIZE_LIMIT`; `Spared` and `MapSound` state where GRUB has to
load the file system; `NoStrayWrite` and `ShowsText` are about writers that do not overlap.
TLC violates each of these without its premise, but for two that hold on the instance all the same: `MapSound` without
`LoadedApart` (without `Regular` or `RoomBehind` it fails), and `TypeOK` of `Process`: after a wild access a frame may be a table to one process and data to another, and no
invariant of the memory is left to prove it from. `ContextPreserved` does not speak about a
reschedule inside `scheduler_add_process` either, for another reason: from then on the kernel may write into
a list element that was freed, and the model does not follow what else that memory is
used for. `RunningIsHead`,
`CursorOnScreen`, `Owned`, `Inherited`, `FramesCounted` and the type invariants, except that of `Process`, have no such
premise: they hold even there.

**Bounds.** Three processes are the fewest with a head, a middle and an end; two
suffice for contexts, where the question is whether one process's registers get
into another's. One tick per slice lets every tick reschedule; the context run uses
two so that ticks without a reschedule occur. `MAX_OOM = 1` makes each single
failure happen. Frames of 8 bytes, a megabyte of 16 and addresses modulo 256 give room for memory below the
kernel, the kernel, a file system of one or two megabytes, and
memory behind it, so near that the last region reaches into it or further off; some boots have no map, two modules or no usable
memory. One of the maps they leave has two regions that are not adjacent, and the allocator
is explored from there with a byte
of one bit (cell of four), so that seven frames fill two cells, the second
partly uninitialised. The keyboard buffer of three wraps, and since `count` never
falls three codes are all it ever takes: a larger buffer only makes the behaviours longer.
Five pages hold two chunks of two pages side by side or apart, or one of three
(a request above `MIN_BLOCK_SIZE`), so that a freed block can have a free neighbour
below, above, on both sides or on none, and chunks are joined to each other. `MAX_READ = 1` lets a read find more codes than it asked for; `WORD = 8` is the
modulus of its counter. Four structs and three calls let a process and its child fork
or execve at the same time; two switches interrupt one call with another and
come back. With 12 entries the first kernel table fills and a second one is made; 22
frames run out during the third or fourth process. A program of two pages can be mapped
half. The trees have files of 0 to 3 blocks and one whose size passes `SIZE_LIMIT`, inodes with no,
one or several tails, directories of 1, 3 and 8 blocks, an empty one and one below another, and
numbers of inodes and blocks at and behind the limits. Four calls are the
fewest with an open, a fork, another open and a read by the child; the two descriptors and the four
vnodes both run out. The screen of two rows scrolls at every second line, and a tab is
longer than it. Both kernel tables full at once (the branch of `copy_find` that gives its frames
back) is not reached.

**Constraints.** `NotCorrupt`, `NotStruck`, `Serial`, `InOrder` and `NotWild` stop exploring
after the race named in the premise of the properties. `Bound` of `MCFiles` does so for
`wild`, and explores missing devices and the console with one of the trees only, since neither depends on what
else the tree holds. The two action and liveness
runs check under them as well: from a corrupted list there is nothing left to say.

**Symmetry and views.** `ps_t` structs and clients are interchangeable, and no
action chooses among them; symmetry is used for safety only. `View` identifies
states that differ in memory that is written before it is read again (the contents
of a freed `ps_t`, the saved registers of the process that is running, dead
locals); in `MCKmalloc`, units that are no header and `next` fields outside the
free list. None of the properties reads it. That of `MCFiles` drops
the image, which follows from the tree and the stage, the last call, which no action reads
and which the action properties see in the step that makes it, and the screen once
writers have overlapped. `LiveView` also drops `eax` and
the history, which neither the kernel's control nor `NoStarvation` depends on.

**Fairness.** `Scheduler`: the CPU executes the next kernel instruction (weak
fairness of `KernelStep`); the PIT fires periodically and the PIC latches its
request while interrupts are off (strong fairness of the tick). Nothing is assumed of user
programs, which may loop for ever. `NoStarvation` assumes in addition that exits and
execves stop at some point: the flaw that `scheduler_next_in_line` shows can pass over
the same process again and again. `Keyboard`: the handler runs to its end, and each
reader gets the CPU again and again (which `NoStarvation` shows); nobody has to type or
to read. `Kmalloc`: a call that has begun goes on; nobody has to call.

Deadlock is checked for the scheduler, whose halted states are the explicit
loops of the code (`Spin`), and for the heap; a page frame allocator or a keyboard
that nobody uses may stop, and so may the processes of `Process` and `Files`, when the bounds on calls and switches are used up
or the last one has exited.

## 4. Proofs

`SchedulerProofs`, for every set of processes, program points and calls, and every
slice: `TypeCorrectness` (`Spec => []TypeOK`) and `HeadRuns`
(`Spec => []RunningIsHead`). `RunningIsHead` is not inductive: a preempted system call is
resumed from `current`, so the invariant also says what a *saved* context of a
process is: a user context, a kernel context on that process's own stack at a label of
a system call whose local `ps` is that process, or the boot thread's context at a label of
`start_init`; and that `new`, wherever a call still uses it, is a process that
carries a user context. It does not mention the shape of the list, which is why it
holds even after the list has been corrupted. Assumptions: `NULL` is no process,
program points are no kernel labels, `Calls` are system calls.

`SchedulerListProofs`, for every finite set of processes: `QueueIntact`
(`Spec => []ListIntact`), by `ListInvariance`. `ListIntact` says that there is *some* sequence that
the fields `start`, `next` and `end` spell. `ListInv` says what the list is while it is being changed: between the stores
of `scheduler_add_process` the new element is linked and `end` is behind (`HalfListed`),
and the one call that is there has read the `start` and `end` that still hold, because any
reschedule in between would be recorded in `windows`. It also says for each saved call which process it is about
to queue, and that these are all different from each other and from the queued ones. The
lemmas about lists (`Chain`) say what adding behind, removing anywhere, replacing in place and
rotating do to the sequence. `Queued` is the least set closed under `next`; that it is the set of elements of
the sequence, and the other inductions along the list, are proved from the fact that a set of
natural numbers has a smallest element (`Smallest`).

`SchedulerSafetyProofs` goes on from there: `PidsUnique` (`Spec => []UniquePids`) and
`ContextsPreserved` (`Spec => ContextPreserved`). `PidInv` adds that the pid which a fork has computed is
larger than every pid in the queue and among the zombies until it has queued its child, and that
a process made by execve has the pid of the one it will replace; this needs `QueueIntact`: `max_id_in_ps_list` sees only what a walk visits. `ContextInv`
says of every process that can run again that the context it will be resumed from, the saved one or
the CPU's, is honest: a user context is where the process left user mode, with its registers if it was interrupted,
and a kernel context belongs to a system call that will return through a `user_mode` that is. `BootInv`
covers the behaviours in which the boot thread was struck: from then on it is the only thing that is
resumed, or the kernel has faulted, so no process ever gets into user mode. Assumption, besides those of
`SchedulerProofs`: the set of `ps_t` structs is finite.

`PageFrameAllocatorProofs`, for every memory map, bitmap size and request size:
`TypeCorrectness`, `ExclusiveFrames` (`Spec => []NoDoubleAllocation`) and
`NothingLeaks` (`Spec => []NoLeak`). The inductive invariant adds, as long as no two
calls have overlapped: at most one call is under way; what it is about to take is
free and what it gives back is held; a held block's bits are 0 and disjoint from
every other's; bits that were 0 from the start are in no block; and every bit that
is 0 is one or the other. `SearchGuarantee` (`Spec => []AllocationGuarantee`) needs the types only: among
2n - 1 free bits in a row there are n that begin at a multiple of n counted from the start of a run
(`NextMultiple`), so a block can be accepted, and of the blocks that can be there is a first
(`FirstAccepted`), which is the one the loops find. Lemmas relate `paddr_for_idx` and `idx_for_paddr`.
Assumptions: `mmapAssumption`, the regions are sorted and disjoint (what `fill_memory_map`
leaves when no available entry begins within `Overrun` behind the kernel's, by `BootMapSound`); `offsetAssumption`, the regions' bits follow each other
without gaps, as the loops of `paddr_for_idx` and `idx_for_paddr` count them.

The same module proves `BootSpares` (`MmSpec => []Spared`) and `BootMapSound` (`MmSpec => []MapSound`) for the sizes of
the code (`CodeSizes`: 4096, 2^20, 2^32 and 8) and every set of reports, of any number of entries. Here every addition and subtraction is
modulo 2^32, and the lengths are wrong (section 2), so the point is which of them can wrap. `MapInv` says
for a boot whose kernel entry has length L, whose kernel ends at E and whose file system goes from S to F what the regions are at each
place of `kinit`. While the map is filled (`Filling`) it is empty up to the kernel's entry; that entry leaves the
regions from E to S and from F with length L - E, or nothing when the kernel is linked to end at a megabyte or
before; and each entry behind it is a region of its own. `pfa_init` keeps this up to alignment (`Evened`): aligning the first
region up does not pass S, which is a page, so its length does not wrap. `Counted` bounds the frames counted so far by the
address the next region begins at and twice the entry's length, so the count does not wrap, from which the bitmap takes
between 1 and 96 frames and covers the frames that are left (`BitmapBytes`); and it is no less than any two
regions together, so that a bitmap which takes every frame leaves no other region. `TakenSpares` then
is about the region that the bitmap is taken from: the first with room, which the ones before it do not
reach. The second region passes the end of the kernel's entry and may reach into
the regions behind it; `BeginsApart` says that the first megabyte of a region still ends before the next one
begins, which is enough for the bitmap. For `MapSound`, the second region ends at F + L - E at the latest, which is
`Overrun` behind its entry, and every region behind is an entry behind the kernel's, so `RoomBehind` puts it behind that (`RoomIs`).

`KeyboardProofs`, for every size of the buffer, set of keys and number of readers, and both orders
of the handler's first two stores: `TypeCorrect`, `CodesInOrder` (`Spec => []FIFO`), `UnreadVisible`
(`Spec => []VisibleUnread`) and `ModifiersRight` (`Spec => []ModifiersTracked`). The invariant rests on the flaw that
`keyboard_discard` shows: since `count` never falls, the n-th code goes to slot n - 1 and is never
overwritten (`BufferOK`, which also says how far the handler is). `InStep` is about the readers: they have taken
a prefix, `head` is behind it, and one that is about to take a code has one to
take, since the tail it saw only grows. `ModifiersTracked` needs to know what a keyboard sends: a key is released only when it is
down (`TypedOK`). Assumptions: the buffer is not empty, keys are among those
the translation tells apart, and a request fits its counter.

`KmallocProofs`, for every page size, growth, request size and heap size:
`TypeCorrectness`, `HeapPartition` (`Spec => []Partition`), `FreeListCircle`
(`Spec => []FreeList`) and `Refinement` (`Spec => ImplementsHeap`). `Tiled` states the
partition by order (a block ends before the next begins), which is what the provers
can use; the invariant adds to it where a call is: a search stands at a
pair of neighbours of the list, and a block being freed is in no set yet. The
argument is in lemmas about circles of headers (`Unlink`, `Place`, `Insert`) and
about tilings (`Cut`, `Join`, `Extend`), from which `JoinUpper`, `JoinLower` and
`LinkBehind` follow the two halves of `kfree`. `OwnersKeep`, proved along with the
invariant, makes every step a step of `Heap` or a stutter. Assumption: the sizes are
natural numbers, page and growth not zero.

`FrameBufferProofs`, for every size of the screen, every set of writers and of texts:
`FbTypeCorrectness`, `CursorReturns` (`FbSpec => []CursorOnScreen`), also when writers
overlap, and `WritesOnScreen` (`FbSpec => []NoStrayWrite`). `CursorOnScreen` needs to know who
brings the cursor back: while it is behind the screen, some writer is between its store
and its check, or on the way from there to `fb_move_cursor` (`WillReturn`). This
survives other writers, since each of them that stores a position, the largest `uint16_t` of a backspace included, is
going to check as well. `NoStrayWrite` needs that one call is under way at most until writers overlap, and that then the
position a backspace loads is the one it has tested (`BackOnScreen`).
`ScreenShowsText` (`FbSpec => []ShowsText`) needs `TextInv`, which says for each place of `fb_put_b` what
screen and cursor are in terms of the paper *before* the byte under way: edited, moved, moved and
not yet at the start of the line, scrolled and not yet moved. `PrintedShows` then says that the byte
on paper comes to the same, `GrownShows` that scrolling is adding a row, and
`NextRow` that the start of the next line does not depend on how far the paper has scrolled. The
assumptions are that the screen and one row more are within what a `uint16_t` can count (2080 of
65536), so that moving down does not wrap, and that texts are of bytes.

`ProcessProofs`, for every number of page frames, entries of a table, structs and pages of a program, any
interleaving and a failure at any place: `TypeCorrect`, `FramesHaveOneUse`
(`Spec => []OneUse`), `KernelFindsProcesses` (`[]KernelMapped`), `ProcessesAreIsolated` (`[]Isolation`) and
`NothingElseIsLost` (`[]OnlyTablesLost`), all until the kernel goes `wild`. None of them is inductive: whether
`process_delete_resources` frees what nobody else uses depends on what every other struct and call holds, on
the tables the directory of the struct has got so far, and on the kernel pages through which it is reached. The
invariant `IInv` says four things. *Ledger*: `Uses` gives every caller and kind of use (directory, tables,
code, stack, kernel stack, a call's own frames, the heap, the kernel's tables, orphans) an account of frames; accounts are
disjoint from each other and from the free frames, and as long as no call has failed they leave no frame out. *Mapped*
(`PsMap`, `CallMap`): the kernel's directory maps the pages that structs and calls name to the frames they
name; two pages with different frames are different, so unmapping one never takes away another. *Shapes*: the directory of a
struct is as far as its loading has come (`Level`): no table, one with the program at its entries, two with the
stack in the last. *Calls*: a struct is loaded by one call, a call that holds frames is at a place that maps,
uses or hands them on, and the pages it has found lie in one table. `OneUse` and `OnlyTablesLost` then read
the ledger through `HeldInAccount` and `AccountHeld`. The proof goes in layers: lemmas about accounts (`LedgerTake`,
`LedgerFree`, `LedgerMove`), about page numbers and tables, about each operator of `Paging`
(`MapPages`, `UnmapCall`, `PdtDelete`), about what a change of memory, of one struct or of one call does to each part of the
invariant (`TakeStep`, `GiveStep`, `FillStep`, `GoneStep`), and one lemma per action of `Process`. Where a lemma
needs that a step does not make the kernel wild it has `~wild'` as a hypothesis: a stale kernel page, a freed frame 0
and the list element freed twice are the three places. Assumptions: at least four entries in a table
(the kernel has the last two), a program smaller than a table, and `boot` is no struct.

**Only model-checked.** The liveness properties (`NoStarvation`, `Delivered`, `CallsReturn`), which are
outside the prover's reach. `FoundIsScan`, whose loops are a `RECURSIVE` operator in the MC module, and the
properties of files: `Aefs` and `Vfs` walk trees and paths with `RECURSIVE` operators, and what these compute
is induction over data. `FramesCounted`, whose sum over the regions is a fold.

## 5. Not modelled

Serial port, log and formatted output produce text that nothing in the kernel reads; the
kernel's own messages on the console are among it.
Descriptor tables, PIC and PIT are written once at boot; what they amount to (trap
gates, a latched tick) is in the models. libc and the applications are system call wrappers and
programs, and user programs are external. Of mkfs, the exits for errors of the host (a file that
cannot be opened) and the truncation of names longer than a directory entry holds are left
out. Overlapping calls of `kmalloc` and of the mapping functions, which share a free list and a
temporary mapping without a lock, are hazards without a property: what they leave is
arbitrary memory, of which nothing can be said.

## 6. Plan

1. Done: `Scheduler`, `PageFrameAllocator` behind `MemoryMap`, `Keyboard`, `Kmalloc` over
   `Heap`, `Process` over `Paging`, `Files` over `Vfs`, `Aefs` and `FrameBuffer`, their runs, and the proofs of
   section 4.
2. Every safety property that a run checks is proved, but for the ones that section 4 names as
   only model-checked. What is left is outside the prover's reach.
