--------------------------------- MODULE Vfs ---------------------------------
(***************************************************************************)
(* The virtual file system of aenix, kernel/vfs.c, and the file system of  *)
(* the devices, kernel/devfs.c: mounting, adding a device, and the walk    *)
(* from a path to a vnode.                                                 *)
(*                                                                         *)
(* A path is a sequence of chunks: "/" and runs of other characters, cut   *)
(* so that two chunks are equal or differ in their first character.  Then  *)
(* comparing chunk by chunk ends where comparing characters does.  A name  *)
(* is a sequence of chunks without "/".                                    *)
(***************************************************************************)
EXTENDS Aefs

\* struct vnode.  v_data is an inode number for aefs and means nothing elsewhere.
Vnode(v_op, v_data) == [v_op |-> v_op, v_data |-> v_data]
NoVnode == Vnode("none", 0)
aefs_vnode(id) == IF id = FAIL THEN NoVnode ELSE Vnode("aefs", id)
devfs_root == Vnode("devfs", 0)
fb_get_vnode == Vnode("fb", 123456)
kbd_get_vnode == Vnode("kbd", 0)

-----------------------------------------------------------------------------
(***************************************************************************)
(* devfs.c                                                                 *)
(***************************************************************************)
\* The list of devices.  A new one is put behind the first: a third loses the second.
devfs_add_device(devices, name, node) ==
    IF name = <<>> \/ \E i \in DOMAIN devices : devices[i].name = name THEN devices
    ELSE (IF devices = <<>> THEN <<>> ELSE <<devices[1]>>) \o <<[name |-> name, node |-> node]>>

devfs_lookup(devices, name) ==
    IF \E i \in DOMAIN devices : devices[i].name = name
    THEN (CHOOSE d \in {devices[i] : i \in DOMAIN devices} : d.name = name).node
    ELSE NoVnode

-----------------------------------------------------------------------------
(***************************************************************************)
(* vfs.c                                                                   *)
(***************************************************************************)
\* A path that is mounted already is refused, unless it is the last of the list.
vfs_mount(vfs_list, path, vfs) ==
    IF \E i \in 1 .. (Len(vfs_list) - 1) : vfs_list[i].mount_path = path THEN vfs_list
    ELSE Append(vfs_list, [mount_path |-> path, vfs |-> vfs])

\* How far a path agrees with a mount path, to whose end it need not go.
Agrees(mp, path) ==
    LET shorter == IF Len(mp) < Len(path) THEN Len(mp) ELSE Len(path)
    IN  CHOOSE n \in 0 .. shorter :
          /\ SubSeq(mp, 1, n) = SubSeq(path, 1, n)
          /\ n < shorter => mp[n + 1] # path[n + 1]

\* The first of the mounts that agree furthest.
find_longest_mount_path(vfs_list, path) ==
    CHOOSE i \in DOMAIN vfs_list : \A j \in DOMAIN vfs_list :
       LET a == Agrees(vfs_list[i].mount_path, path)
           b == Agrees(vfs_list[j].mount_path, path)
       IN  a > b \/ (a = b /\ i <= j)

\* The names the loop of vfs_lookup cuts a path into: two slashes in a row have an
\* empty name between them, one at the end is ignored.
RECURSIVE Names(_)
Names(p) ==
    LET slash_index == CHOOSE i \in 0 .. Len(p) : /\ i < Len(p) => p[i + 1] = "/"
                                                 /\ \A j \in 1 .. i : p[j] # "/"
    IN  IF p = <<>> THEN <<>>
        ELSE <<SubSeq(p, 1, slash_index)>> \o Names(SubSeq(p, slash_index + 2, Len(p)))

\* v_op->vn_lookup; fb_lookup and kbd_lookup fail.
vn_lookup(image, devices, dir, name) ==
    CASE dir.v_op = "aefs"  -> aefs_vnode(aefs_lookup(image, dir.v_data, name))
      [] dir.v_op = "devfs" -> devfs_lookup(devices, name)
      [] OTHER              -> NoVnode

vfs_lookup(image, vfs_list, devices, path) ==
    LET mount == vfs_list[find_longest_mount_path(vfs_list, path)]
        names == Names(SubSeq(path, Agrees(mount.mount_path, path) + 1, Len(path)))
        vnode[i \in 0 .. Len(names)] ==
            IF i = 0 THEN IF mount.vfs = "aefs" THEN aefs_vnode(ROOT_INODE_ID) ELSE devfs_root
            ELSE IF vnode[i - 1] = NoVnode THEN NoVnode
            ELSE vn_lookup(image, devices, vnode[i - 1], names[i])
    IN  IF path = <<>> \/ Head(path) # "/" THEN NoVnode ELSE vnode[Len(names)]

\* Whether vfs_lookup copies what a mount path leaves of a path to the heap, with a
\* kmalloc that it does not check.
copies_path(vfs_list, path) ==
    /\ path # <<>> /\ Head(path) = "/"
    /\ Agrees(vfs_list[find_longest_mount_path(vfs_list, path)].mount_path, path) < Len(path)

\* vn_open: only the root of devfs cannot be opened.
vn_open(v) == v.v_op # "devfs"

\* vn_read without that of the keyboard, which waits for keys.
vn_read(image, v, count) ==
    IF v.v_op = "aefs" THEN aefs_read(image, v.v_data, count)
    ELSE [ret |-> FAIL, data |-> <<>>]

\* vn_getattr: the size of a file, or FAIL.
vn_getattr(image, v) ==
    CASE v.v_op = "aefs"  -> aefs_getattr(image, v.v_data)
      [] v.v_op = "devfs" -> 0
      [] OTHER            -> FAIL
=============================================================================
