-------------------------------- MODULE Files --------------------------------
(***************************************************************************)
(* Files from the host to a process: mkfs makes an image of a directory,   *)
(* the kernel mounts it with the devices beside it, and processes open,    *)
(* read and write, fork, replace their program and exit (kernel/syscall.c, *)
(* kernel/process.c and kernel/kmain.c, over Vfs and FrameBuffer).         *)
(*                                                                         *)
(* A system call is one step, since what it reads of files never changes   *)
(* and what it writes is the caller's own; only fb_write goes on in many.  *)
(***************************************************************************)
EXTENDS Vfs, FrameBuffer
LOCAL INSTANCE FiniteSetsExt
LOCAL INSTANCE SequencesExt

CONSTANTS
    Trees,               \* what the directory of the host may hold
    Paths,               \* the paths that are opened and executed
    Counts,              \* the counts of sys_read
    PROCESS_MAX_NUM_FD,  \* 64
    MAX_VNODES,          \* the vnodes that fit into the heap
    MAX_CALLS            \* bound: system calls

\* The processes are the writers of FrameBuffer, by their pids.
ASSUME filesAssumption ==
    /\ Writers \subseteq Nat \ {0} /\ 1 \in Writers
    /\ {PROCESS_MAX_NUM_FD, MAX_VNODES, MAX_CALLS} \subseteq Nat

VARIABLES
    root,      \* the directory of the host
    image,     \* the file system
    stage,     \* how far the machine has come
    vfs_list,  \* the mounts
    devices,   \* the list of devfs
    alive,     \* the processes that have not exited
    next_pid,
    fds,       \* file_descriptors of each process: addresses of vnodes
    vnodes,    \* the vnodes in the heap, and the path each was opened with
    calls,     \* how many system calls there have been
    last,      \* history: the last system call and its result
    wild       \* history: the kernel has followed a pointer that is none

file_vars == <<root, image, stage, vfs_list, devices, alive, next_pid, fds, vnodes, calls,
               last, wild>>
vars == <<file_vars, fb_vars>>

NULL == 0
Fds == 0 .. (PROCESS_MAX_NUM_FD - 1)
Addresses == 1 .. MAX_VNODES
Free == [node |-> NoVnode, path |-> <<>>]
Garbage == [node |-> NoVnode, path |-> <<"none">>]  \* allocated, with nothing in it

DEV == <<"/", "d", "ev", "/">>
INIT == <<"/", "bin", "/", "init">>

Lookup(path) == vfs_lookup(image, vfs_list, devices, path)
\* Whether a lookup writes to address 0, because there is no memory for its copy.
LookupWild(path) == {FALSE, copies_path(vfs_list, path)}
Node(p, fd) == vnodes[fds[p][fd]].node

-----------------------------------------------------------------------------
(***************************************************************************)
(* Before the first process.                                               *)
(***************************************************************************)
Running == UNCHANGED <<root, image, stage, vfs_list, devices>>
NoProcess == UNCHANGED <<fds, vnodes, calls, last, fb_vars>>

make_fs ==
    LET made == mkfs(root) IN
    /\ stage = "host"
    /\ image' = made
    /\ stage' = IF made.status = "ok" THEN "image" ELSE made.status
    /\ UNCHANGED <<root, vfs_list, devices, alive, next_pid, wild>> /\ NoProcess

\* add_device; what fails there is not noticed.
add_device(list, name, node, done) == IF done THEN devfs_add_device(list, name, node) ELSE list

\* Mutant: devfs is mounted twice.
MountTwice(got) ==
    /\ devices' = <<>>
    /\ vfs_list' = vfs_mount(vfs_mount(vfs_mount(<<>>, <<"/">>, "aefs"), DEV, "devfs"), DEV, "devfs")

\* The devices, and the mount of devfs behind them.
populate_devfs(got) ==
    LET list == add_device(<<>>, <<"console">>, fb_get_vnode, "console" \in got)
    IN  /\ devices' = add_device(list, <<"keyboard">>, kbd_get_vnode, "keyboard" \in got)
        /\ vfs_list' = vfs_mount(vfs_mount(<<>>, <<"/">>, "aefs"), DEV, "devfs")

\* kinit from aefs_init on.  got is what there is memory for; the path that vfs_mount
\* copies always is.
kinit ==
    /\ stage = "image"
    /\ \E got \in SUBSET {"aefs", "devfs", "console", "keyboard"} :
          /\ stage' = IF "aefs" \in got THEN "booted" ELSE "halted"
          /\ IF {"aefs", "devfs"} \subseteq got THEN populate_devfs(got)
             ELSE /\ vfs_list' = IF "aefs" \in got THEN vfs_mount(<<>>, <<"/">>, "aefs") ELSE <<>>
                  /\ devices' = <<>>
    /\ UNCHANGED <<root, image, alive, next_pid, wild>> /\ NoProcess

\* process_load_code: an empty file needs 2^20 page frames, which there are not.
\* Memory for everything else may be missing.
process_load_code(path) ==
    LET v == Lookup(path)
        size == vn_getattr(image, v)
    IN  v # NoVnode /\ size \notin {FAIL, 0} /\ vn_read(image, v, size).ret = size

start_init ==
    /\ stage = "booted"
    /\ \E enough \in BOOLEAN, lost \in LookupWild(INIT) :
          LET created == enough /\ ~lost /\ process_load_code(INIT) IN
          /\ wild' = (enough /\ lost)
          /\ stage' = IF created THEN "running" ELSE "idle"
          /\ alive' = IF created THEN {1} ELSE {}
    /\ next_pid' = 2
    /\ UNCHANGED <<root, image, vfs_list, devices>> /\ NoProcess

-----------------------------------------------------------------------------
(***************************************************************************)
(* System calls.                                                           *)
(***************************************************************************)
Calls(p) == /\ p \in alive /\ put[p] = Idle /\ ~wild
            /\ calls < MAX_CALLS /\ calls' = calls + 1
            /\ Running

Result(ret) == [ret |-> ret, data |-> <<>>]
Returns(p, call, path, count, r) ==
    last' = [call |-> call, p |-> p, path |-> path, count |-> count, ret |-> r.ret, data |-> r.data]

\* kmalloc of a vnode; it makes no difference which address it is.
FreeAddresses == {a \in Addresses : vnodes[a] = Free}
Least(S) == CHOOSE a \in S : \A b \in S : a <= b

\* Mutant: a full table gives its last entry away.
NextFdReused(p) == LET free == {fd \in Fds : fds[p][fd] = NULL}
                   IN  IF free = {} THEN PROCESS_MAX_NUM_FD - 1 ELSE Least(free)

get_next_fd(p) == LET free == {fd \in Fds : fds[p][fd] = NULL}
                  IN  IF free = {} THEN FAIL ELSE Least(free)

\* The vnode stays allocated when there is no such file, and is freed when there is no
\* descriptor or the file cannot be opened.  Nobody checks the results of kmalloc.
sys_open(p, path) ==
    LET node == Lookup(path)
        fd == get_next_fd(p)
        a == Least(FreeAddresses)
        Ends(v, table, ret) == /\ vnodes' = [vnodes EXCEPT ![a] = v]
                               /\ fds' = table
                               /\ Returns(p, "open", path, 0, Result(ret))
    IN  /\ Calls(p) /\ UNCHANGED <<alive, next_pid, fb_vars>>
        /\ \E lost \in LookupWild(path) : wild' = (lost \/ FreeAddresses = {})
        /\ CASE wild' -> UNCHANGED <<fds, vnodes, last>>
             [] ~wild' /\ node = NoVnode -> Ends(Garbage, fds, FAIL)
             [] ~wild' /\ node # NoVnode /\ (fd = FAIL \/ ~vn_open(node)) -> Ends(Free, fds, FAIL)
             [] OTHER -> Ends([node |-> node, path |-> path], [fds EXCEPT ![p][fd] = a], fd)

\* A read of the keyboard returns when enough keys have come.
sys_read(p, fd, count) ==
    LET r == IF fd \notin Fds THEN Result(FAIL)
             ELSE IF fds[p][fd] = NULL THEN Result(FAIL)
             ELSE IF Node(p, fd).v_op = "kbd" THEN Result(count)
             ELSE vn_read(image, Node(p, fd), count)
        path == IF fd \notin Fds THEN <<>>
                ELSE IF fds[p][fd] = NULL THEN <<>> ELSE vnodes[fds[p][fd]].path
    IN  /\ Calls(p)
        /\ Returns(p, "read", path, count, r)
        /\ UNCHANGED <<alive, next_pid, fds, vnodes, wild, fb_vars>>

\* The descriptor is not checked against PROCESS_MAX_NUM_FD: behind the table are the
\* lists of page frames, whose elements are taken for vnodes.  Only the console can be
\* written to.
sys_write(p, fd, s) ==
    /\ Calls(p) /\ UNCHANGED <<alive, next_pid, fds, vnodes>>
    /\ wild' = (fd \notin Fds)
    /\ IF fd \notin Fds THEN UNCHANGED <<last, fb_vars>>
       ELSE IF fds[p][fd] # NULL /\ Node(p, fd).v_op = "fb"
       THEN fb_write(p, s) /\ Returns(p, "write", <<>>, 0, Result(0))
       ELSE UNCHANGED fb_vars /\ Returns(p, "write", <<>>, 0, Result(FAIL))

\* Mutant: the vnodes are shared.
SharedDescriptors(p) == [ok |-> TRUE, fds |-> fds[p], vnodes |-> vnodes]

\* A copy of each vnode, as far as there is room; nobody frees the copies of a call
\* that fails.
process_copy_file_descriptors(p) ==
    LET open == {fd \in Fds : fds[p][fd] # NULL}
        room == SetToSortSeq(FreeAddresses, <)
        at(fd) == Cardinality({e \in open : e <= fd})
        copied == {fd \in open : at(fd) <= Len(room)}
        source(a) == {fd \in copied : room[at(fd)] = a}
    IN  [ok |-> copied = open,
         fds |-> [fd \in Fds |-> IF fd \in copied THEN room[at(fd)] ELSE NULL],
         vnodes |-> [a \in Addresses |-> IF source(a) = {} THEN vnodes[a]
                                         ELSE vnodes[fds[p][CHOOSE fd \in source(a) : TRUE]]]]

\* enough: process_clone finds memory for everything but the vnodes.
sys_fork(p) ==
    LET copy == process_copy_file_descriptors(p) IN
    /\ Calls(p) /\ next_pid \in Writers
    /\ next_pid' = next_pid + 1
    /\ \E enough \in BOOLEAN :
          LET done == enough /\ copy.ok IN
          /\ vnodes' = IF enough THEN copy.vnodes ELSE vnodes
          /\ alive' = IF done THEN alive \cup {next_pid} ELSE alive
          /\ fds' = IF done THEN [fds EXCEPT ![next_pid] = copy.fds] ELSE fds
          /\ Returns(p, "fork", <<>>, 0, Result(IF done THEN next_pid ELSE FAIL))
    /\ UNCHANGED <<wild, fb_vars>>

\* The new program keeps the pid and gets copies; the vnodes of the old one are lost.
sys_execve(p, path) ==
    LET copy == process_copy_file_descriptors(p)
        loads == process_load_code(path) IN
    /\ Calls(p)
    /\ \E enough \in BOOLEAN, lost \in LookupWild(path) :
          LET created == enough /\ ~lost /\ loads
              done == created /\ copy.ok IN
          /\ wild' = (enough /\ lost)
          /\ vnodes' = IF created THEN copy.vnodes ELSE vnodes
          /\ fds' = IF done THEN [fds EXCEPT ![p] = copy.fds] ELSE fds
          /\ IF wild' THEN UNCHANGED last
             ELSE Returns(p, "execve", path, 0, Result(IF done THEN 0 ELSE FAIL))
    /\ UNCHANGED <<alive, next_pid, fb_vars>>

\* process_delete_resources leaves the descriptors alone.
sys_exit(p) ==
    /\ Calls(p)
    /\ alive' = alive \ {p}
    /\ Returns(p, "exit", <<>>, 0, Result(0))
    /\ UNCHANGED <<next_pid, fds, vnodes, wild, fb_vars>>

-----------------------------------------------------------------------------
Init ==
    /\ FbInit
    /\ root \in Trees
    /\ image = write_superblock /\ stage = "host"
    /\ vfs_list = <<>> /\ devices = <<>>
    /\ alive = {} /\ next_pid = 1
    /\ fds = [p \in Writers |-> [fd \in Fds |-> NULL]]
    /\ vnodes = [a \in Addresses |-> Free]
    /\ calls = 0 /\ wild = FALSE
    /\ last = [call |-> "none", p |-> 1, path |-> <<>>, count |-> 0, ret |-> 0, data |-> <<>>]

Next ==
    \/ make_fs \/ kinit \/ start_init
    \/ \E p \in Writers :
          \/ \E path \in Paths : sys_open(p, path) \/ sys_execve(p, path)
          \/ \E fd \in Fds \cup {PROCESS_MAX_NUM_FD} :
                \/ \E count \in Counts : sys_read(p, fd, count)
                \/ \E s \in Texts : sys_write(p, fd, s)
          \/ sys_fork(p) \/ sys_exit(p)
          \/ Step(p) /\ UNCHANGED file_vars

Spec == Init /\ [][Next]_vars

-----------------------------------------------------------------------------
(***************************************************************************)
(* Properties.                                                             *)
(***************************************************************************)
\* The variables keep their types; every address a process holds is NULL or one of the
\* heap, and the mounts are the root and, behind it, the devices.
FilesTypeOK ==
    /\ stage \in {"host", "image", "died", "wild", "booted", "halted", "running", "idle"}
    /\ alive \subseteq Writers /\ alive \subseteq 1 .. (next_pid - 1)
    /\ fds \in [Writers -> [Fds -> Addresses \cup {NULL}]]
    /\ \A a \in Addresses : vnodes[a].node.v_op \in {"none", "aefs", "devfs", "fb", "kbd"}
    /\ Len(vfs_list) <= 2 /\ Len(devices) <= 2
    /\ calls \in 0 .. MAX_CALLS /\ wild \in BOOLEAN

\* The objects of the host that a path names, and the devices.
Host(path) == {f \in HostFiles(root, <<>>) : f.path = Names(Tail(path))}
Under(mount, path) == Len(mount) <= Len(path) /\ SubSeq(path, 1, Len(mount)) = mount
Devices(path) == {devices[i] : i \in {j \in DOMAIN devices :
                                        path = DEV \o devices[j].name}}

\* A path as users write it: from the root, without empty names.
Clean(path) == /\ path # <<>> /\ Head(path) = "/"
               /\ <<>> \notin {Names(Tail(path))[i] : i \in DOMAIN Names(Tail(path))}
               /\ Len(path) > 1 => Last(path) # "/"

\* The path agrees with "/dev/" for more than the first slash, but leaves it before its
\* end: "/data" is taken for a device.
Shadowed(path) == Len(vfs_list) = 2 /\ Agrees(DEV, path) > 1 /\ ~Under(DEV, path)

\* The path goes on behind an empty directory, where the entries of the root are found.
ThroughEmpty(path) ==
    \E f \in HostFiles(root, <<>>) :
        /\ f.node.type = "dir" /\ f.node.entries = <<>>
        /\ Len(f.path) < Len(Names(Tail(path))) /\ Under(f.path, Names(Tail(path)))

Regular(path) == Clean(path) /\ ~Shadowed(path) /\ ~ThroughEmpty(path)

\* rdaefs, which goes through an image by itself, lists just what mkfs was given.
ImageListed ==
    stage = "image" =>
        visit_inode(image, ROOT_INODE_ID, <<>>) =
            {[path |-> f.path, type |-> f.node.type, size |-> fill_inode_size(SizeOf(f.node))] :
                f \in HostFiles(root, <<>>)}

\* sys_open finds a file if and only if mkfs was given it, or a device of that name was
\* added, and the descriptor is for that object; otherwise no descriptor was left.
Found ==
    (last.call = "open" /\ Regular(last.path)) =>
        LET v == Node(last.p, last.ret) IN
        IF last.ret = FAIL
        THEN \/ \A fd \in Fds : fds[last.p][fd] # NULL
             \/ Host(last.path) = {} /\ Devices(last.path) = {}
        ELSE \/ \E d \in Devices(last.path) : v = d.node
             \/ \E f \in Host(last.path) :
                   /\ v.v_op = "aefs"
                   /\ image.inode[v.v_data].type = f.node.type
                   /\ aefs_getattr(image, v.v_data) = fill_inode_size(SizeOf(f.node))
Resolves == [][Found']_vars

\* What sys_read copies is the beginning of the file of the host whose path was opened,
\* whichever process opened it, across mkfs, fork and execve; directories and the
\* console cannot be read.  mkfs stores a size modulo SIZE_LIMIT.
Beginning ==
    (last.call = "read" /\ last.path # <<>> /\ Regular(last.path)) =>
        /\ \A f \in Host(last.path) :
              IF f.node.type = "dir" THEN last.ret = FAIL
              ELSE SizeOf(f.node) < SIZE_LIMIT =>
                     /\ last.ret = IF last.count < SizeOf(f.node) THEN last.count ELSE SizeOf(f.node)
                     /\ last.data = SubSeq(f.node.data, 1, last.ret)
        /\ Devices(last.path) # {} => last.data = <<>>
ReadBack == [][Beginning']_vars

\* Every descriptor has a vnode of its own, whatever fails between kmalloc and the table:
\* what one process frees is never another's.
Owned ==
    \A p, q \in Writers : \A fd, e \in Fds :
        fds[p][fd] # NULL =>
            /\ vnodes[fds[p][fd]] \notin {Free, Garbage}
            /\ fds[p][fd] = fds[q][e] => p = q /\ fd = e

\* A descriptor stands for one object as long as its process lives, through execve and
\* whatever others do, and a forked process begins with the objects of its parent.
Inherited ==
    [][\A p \in alive' : \A fd \in Fds :
          /\ (p \in alive /\ fds[p][fd] # NULL) => Node(p, fd)' = Node(p, fd)
          /\ (p \notin alive /\ last'.call = "fork") =>
                /\ fds'[p][fd] = NULL <=> fds[last'.p][fd] = NULL
                /\ fds'[p][fd] # NULL => Node(p, fd)' = Node(last'.p, fd)]_vars
=============================================================================
