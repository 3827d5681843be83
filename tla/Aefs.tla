-------------------------------- MODULE Aefs --------------------------------
(***************************************************************************)
(* The file system of aenix: mkfs.c, which writes a directory of the host  *)
(* into an image, kernel/aefs.c, which reads the image, and rdaefs.c,      *)
(* which lists it.                                                         *)
(*                                                                         *)
(* Sizes are counted in directory entries (256 bytes), which are also the  *)
(* pieces a file is made of.  A directory of the host is                   *)
(*   [type |-> "dir", entries |-> << [name |-> .., node |-> ..], .. >>],   *)
(* in the order of readdir, a file [type |-> "reg", data |-> << .. >>].    *)
(***************************************************************************)
EXTENDS Integers, Sequences
LOCAL INSTANCE SequencesExt

CONSTANTS
    AEFS_BLOCK_SIZE,       \* in directory entries (4)
    AEFS_INODE_NUM_BLOCKS, \* the blocks an inode can name (5)
    INODES_PER_BLOCK,      \* 64
    BLOCKS,                \* the blocks of the image
    SIZE_LIMIT             \* the modulus of an inode's size (2^24 bytes)

ASSUME imageAssumption ==
    {AEFS_BLOCK_SIZE, AEFS_INODE_NUM_BLOCKS, INODES_PER_BLOCK, BLOCKS, SIZE_LIMIT}
    \subseteq Nat \ {0}

\* For 0 the code computes 2^22, which is 0 as a uint16_t.
div_ceil(num, den) == (num - 1) \div den + 1

inode_blocks == div_ceil(BLOCKS, INODES_PER_BLOCK)
num_inodes == BLOCKS - inode_blocks - 1
num_blocks == BLOCKS - inode_blocks - 1
table_size == inode_blocks * INODES_PER_BLOCK

\* The image is a new file, so it is filled with zeros.
ZeroInode == [type |-> "reg", size |-> 0, inode_tail |-> 0,
              blocks |-> [b \in 0 .. (AEFS_INODE_NUM_BLOCKS - 1) |-> 0]]
ZeroEntry == [name |-> <<>>, inode_id |-> 0]
ZeroBlock == [i \in 0 .. (AEFS_BLOCK_SIZE - 1) |-> ZeroEntry]

-----------------------------------------------------------------------------
(***************************************************************************)
(* mkfs.  status is "ok", "died" (too many inodes), or "wild": a block     *)
(* behind the end of the file, or an inode behind the table, was written.  *)
(***************************************************************************)
write_superblock ==
    [inode |-> [i \in 0 .. (table_size - 1) |-> ZeroInode],
     block |-> [b \in 0 .. (num_blocks - 1) |-> ZeroBlock],
     next_inode_id |-> 1, next_block_id |-> 0, status |-> "ok"]

fill_inode_size(size) == size % SIZE_LIMIT

\* Mutant: the blocks go on in the next inode one block too late.
FillLate(img, id, n, start) ==
    [img EXCEPT !.inode[id].blocks = [b \in DOMAIN @ |-> IF b < n THEN start + b ELSE 0]]

\* The block numbers of an inode with n blocks: AEFS_INODE_NUM_BLOCKS in the inode
\* itself, the others in a list of new inodes behind it.
fill_inode_blocks(img, id, n, start) ==
    LET tails == IF n = 0 THEN 0 ELSE (n - 1) \div AEFS_INODE_NUM_BLOCKS
        list == [k \in 0 .. tails |-> IF k = 0 THEN id ELSE img.next_inode_id + k - 1]
        number(k, b) == IF k * AEFS_INODE_NUM_BLOCKS + b < n
                        THEN start + k * AEFS_INODE_NUM_BLOCKS + b ELSE 0
        inode(k) == [(IF k = 0 THEN img.inode[id] ELSE ZeroInode) EXCEPT
                        !.blocks = [b \in DOMAIN @ |-> number(k, b)],
                        !.inode_tail = IF k < tails THEN list[k + 1] ELSE 0]
    IN  IF img.next_inode_id + tails > table_size THEN [img EXCEPT !.status = "wild"]
        ELSE [img EXCEPT
                !.next_inode_id = @ + tails,
                !.inode = [i \in DOMAIN @ |->
                             IF \E k \in DOMAIN list : list[k] = i
                             THEN inode(CHOOSE k \in DOMAIN list : list[k] = i)
                             ELSE @[i]]]

\* A file takes an inode without a check of num_inodes, and no block when it is empty.
visit_file(img, file) ==
    LET id == img.next_inode_id
        size == Len(file.data)
        blocks_required == div_ceil(size, AEFS_BLOCK_SIZE)
        start == img.next_block_id
        data(b) == [i \in DOMAIN ZeroBlock |->
                      LET at == (b - start) * AEFS_BLOCK_SIZE + i + 1
                      IN  IF at <= size THEN file.data[at] ELSE ZeroEntry]
        written == [img EXCEPT
                      !.next_inode_id = @ + 1,
                      !.next_block_id = @ + blocks_required,
                      !.inode[id] = [@ EXCEPT !.type = "reg", !.size = fill_inode_size(size)],
                      !.block = [b \in DOMAIN @ |->
                                   IF b \in start .. (start + blocks_required - 1)
                                   THEN data(b) ELSE @[b]]]
    IN  IF id >= table_size \/ start + blocks_required > num_blocks
        THEN [img EXCEPT !.status = "wild"]
        ELSE fill_inode_blocks(written, id, blocks_required, start)

\* A directory takes its inode and its blocks before its children, and the list of
\* further inodes after them.  An empty one takes no block, and clears none: the 2^32
\* bytes of its 2^22 blocks are 0 as a uint32_t.
RECURSIVE visit_dir(_, _)
visit_dir(img, dir) ==
    LET id == img.next_inode_id
        n == Len(dir.entries)
        blocks_required == div_ceil(n, AEFS_BLOCK_SIZE)
        start == img.next_block_id
        begun == [img EXCEPT !.next_inode_id = @ + 1, !.next_block_id = @ + blocks_required]
        child(im, i) ==
            LET e == dir.entries[i]
                next == IF e.node.type = "reg" THEN visit_file(im, e.node)
                        ELSE visit_dir(im, e.node)
            IN  IF im.status # "ok" THEN im
                ELSE IF next.status # "ok" THEN next
                ELSE [next EXCEPT
                        !.block[start + (i - 1) \div AEFS_BLOCK_SIZE][(i - 1) % AEFS_BLOCK_SIZE] =
                        [name |-> e.name, inode_id |-> im.next_inode_id]]
        filled == FoldLeft(child, begun, [i \in 1 .. n |-> i])
    IN  IF id = num_inodes THEN [img EXCEPT !.status = "died"]
        ELSE IF id >= table_size \/ start + blocks_required > num_blocks
        THEN [img EXCEPT !.status = "wild"]
        ELSE IF filled.status # "ok" THEN filled
        ELSE fill_inode_blocks(
               [filled EXCEPT !.inode[id] = [@ EXCEPT !.type = "dir",
                                                      !.size = fill_inode_size(n)]],
               id, blocks_required, start)

mkfs(root) == visit_dir(write_superblock, root)

-----------------------------------------------------------------------------
(***************************************************************************)
(* kernel/aefs.c                                                           *)
(***************************************************************************)
ROOT_INODE_ID == 1
FAIL == -1

\* Mutant: the list of inodes is not followed.
FirstInode(img, id, i) == img.inode[id].blocks[i % AEFS_INODE_NUM_BLOCKS]

\* The number of the i-th block of an inode, along the list of inodes.
block_id(img, id, i) ==
    LET current[k \in 0 .. (i \div AEFS_INODE_NUM_BLOCKS)] ==
            IF k = 0 THEN id ELSE img.inode[current[k - 1]].inode_tail
    IN  img.inode[current[i \div AEFS_INODE_NUM_BLOCKS]].blocks[i % AEFS_INODE_NUM_BLOCKS]

\* The i-th piece (from 0) of what an inode holds.
Piece(img, id, i) ==
    img.block[block_id(img, id, i \div AEFS_BLOCK_SIZE)][i % AEFS_BLOCK_SIZE]

aefs_getattr(img, id) == img.inode[id].size

\* There is no offset: every read begins at the start of the file.  Of the 2^22 blocks
\* of an empty read nothing is copied.
aefs_read(img, id, count) ==
    LET size == IF count < img.inode[id].size THEN count ELSE img.inode[id].size
    IN  IF img.inode[id].type # "reg" THEN [ret |-> FAIL, data |-> <<>>]
        ELSE [ret |-> size, data |-> [i \in 1 .. size |-> Piece(img, id, i - 1)]]

\* Mutant: only the first block is searched.
LookupFirst(img, id, name) ==
    LET match == {i \in 0 .. (AEFS_BLOCK_SIZE - 1) : Piece(img, id, i).name = name}
    IN  IF img.inode[id].type # "dir" \/ match = {} THEN FAIL
        ELSE Piece(img, id, CHOOSE i \in match : TRUE).inode_id

\* The first entry of that name among all entries of the directory's blocks, the
\* unused ones included, whose name is empty and whose inode is 0.  All of the 2^22
\* blocks of an empty directory, first its own and then those of inode 0, are block 0,
\* which belongs to the root.
aefs_lookup(img, id, name) ==
    LET size == img.inode[id].size
        num_blocks_read == IF size = 0 THEN 1 ELSE div_ceil(size, AEFS_BLOCK_SIZE)
        match == {i \in 0 .. (num_blocks_read * AEFS_BLOCK_SIZE - 1) :
                    Piece(img, id, i).name = name}
    IN  IF img.inode[id].type # "dir" \/ match = {} THEN FAIL
        ELSE Piece(img, id, CHOOSE i \in match : \A j \in match : i <= j).inode_id

-----------------------------------------------------------------------------
\* rdaefs.c: what its visit_dir and visit_reg list below an inode: path, type and
\* size.  It changes to the next inode of the list behind the last block of one.
RECURSIVE visit_inode(_, _, _)
visit_inode(img, id, path) ==
    LET inode == img.inode[id]
        entry(i) == Piece(img, id, i)
    IN  {[path |-> path, type |-> inode.type, size |-> inode.size]} \cup
        (IF inode.type = "reg" THEN {}
         ELSE UNION {visit_inode(img, entry(i).inode_id, path \o <<entry(i).name>>) :
                       i \in 0 .. (inode.size - 1)})

-----------------------------------------------------------------------------
(***************************************************************************)
(* The reference: the files of the host below a node, with their paths as  *)
(* sequences of names.                                                     *)
(***************************************************************************)
RECURSIVE HostFiles(_, _)
HostFiles(node, path) ==
    {[path |-> path, node |-> node]} \cup
    (IF node.type = "reg" THEN {}
     ELSE UNION {HostFiles(node.entries[i].node, path \o <<node.entries[i].name>>) :
                   i \in DOMAIN node.entries})

SizeOf(node) == IF node.type = "reg" THEN Len(node.data) ELSE Len(node.entries)
=============================================================================
