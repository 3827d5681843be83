------------------------------ MODULE MemoryMap ------------------------------
(***************************************************************************)
(* How aenix finds its page frames at boot: get_fs_paddr and the part of   *)
(* kinit that calls pfa_init (kernel/kmain.c), fill_memory_map, pfa_init   *)
(* and construct_bitmap (kernel/page_frame_allocator.c).  The regions they *)
(* leave are the mmap that the page frame allocator works on, which goes   *)
(* on from there.  Addresses are bytes here and page frames there.         *)
(***************************************************************************)
EXTENDS PageFrameAllocator

CONSTANTS
    FOUR_KB, ONE_MB,  \* a page frame; where the kernel is linked to begin
    UINT,             \* the modulus of uint32_t (2^32)
    Boots             \* what GRUB may report, see BootInfo

\* entries: the memory map, of 64-bit addresses; mods: the number of modules, of
\* which the first is the file system.
Entries == [addr : Nat, len : Nat, available : BOOLEAN]
BootInfo == [has_map : BOOLEAN, entries : Seq(Entries), mods : Nat,
             kernel_end : Nat, fs_paddr : Nat, fs_size : Nat]

ASSUME bootAssumption ==
    /\ FOUR_KB \in Nat \ {0} /\ ONE_MB \in Nat /\ UINT \in Nat \ {0}
    /\ Boots \subseteq BootInfo

VARIABLES
    boot,        \* the multiboot information
    at,          \* the place in kinit
    regions,     \* the array mmap, as far as it is filled
    entry,       \* the entry fill_memory_map is at, then the region construct_bitmap counts
    total_pfs,   \* the page frames counted
    frames_len,  \* page_frames.len
    bitmap_paddr \* where the bitmap lies

mm_vars == <<boot, at, regions, entry, total_pfs, frames_len, bitmap_paddr>>

kernel_start == ONE_MB
U32(n) == n % UINT
Region(addr, len) == [addr |-> U32(addr), len |-> U32(len)]

MmInit ==
    /\ boot \in Boots
    /\ at = "get_fs_paddr" /\ regions = <<>> /\ entry = 1
    /\ total_pfs = 0 /\ frames_len = 0 /\ bitmap_paddr = 0

Goto(place) == at' = place

-----------------------------------------------------------------------------
\* kinit refuses to go on without exactly one module.
get_fs_paddr ==
    /\ at = "get_fs_paddr"
    /\ Goto(IF boot.mods = 1 /\ (boot.fs_paddr # 0 \/ boot.fs_size # 0)
            THEN "fill" ELSE "KINIT_ERROR_LOAD_FS")
    /\ UNCHANGED <<boot, regions, entry, total_pfs, frames_len, bitmap_paddr>>

\* Mutant: the length is not reduced.
KeepLength(e) ==
    LET addr == U32(e.addr) len == U32(e.len) IN
    IF addr <= kernel_start /\ U32(addr + len) > boot.kernel_end
    THEN Region(boot.kernel_end, len)
    ELSE Region(addr, len)

\* An available entry without the kernel: what is left of it begins behind the
\* kernel, and its length is reduced by the address of the kernel's end.
WithoutKernel(e) ==
    LET addr == U32(e.addr) len == U32(e.len) IN
    IF addr <= kernel_start /\ U32(addr + len) > boot.kernel_end
    THEN Region(boot.kernel_end, len - boot.kernel_end)
    ELSE Region(addr, len)

\* Mutant: the file system is not cut out.
KeepFs(r) == IF r.addr > ONE_MB THEN <<r>> ELSE <<>>

\* A region without the file system.  addr has been overwritten when len is reduced
\* by the distance to it, so the region behind the file system keeps the length.
WithoutFs(r) ==
    LET fs_end == U32(boot.fs_paddr + boot.fs_size) IN
    IF r.addr <= ONE_MB THEN <<>>
    ELSE IF r.addr < boot.fs_paddr /\ U32(r.addr + r.len) > fs_end
         THEN <<Region(r.addr, boot.fs_paddr - r.addr), Region(fs_end, r.len)>>
         ELSE <<r>>

\* One iteration of fill_memory_map, and its return.
fill_memory_map ==
    /\ at = "fill"
    /\ IF boot.has_map /\ entry <= Len(boot.entries)
       THEN /\ regions' = IF boot.entries[entry].available
                          THEN regions \o WithoutFs(WithoutKernel(boot.entries[entry]))
                          ELSE regions
            /\ entry' = entry + 1
            /\ UNCHANGED at
       ELSE /\ Goto(IF regions = <<>> THEN "KINIT_ERROR_INIT_PFA" ELSE "align")
            /\ UNCHANGED <<regions, entry>>
    /\ UNCHANGED <<boot, total_pfs, frames_len, bitmap_paddr>>

align_up(n) == U32(IF n % FOUR_KB = 0 THEN n ELSE n + (FOUR_KB - (n % FOUR_KB)))
align_down(n) == n - (n % FOUR_KB)

Aligned(r) ==
    Region(align_up(r.addr), align_down(U32(r.len - (align_up(r.addr) - r.addr))))

\* The loop of pfa_init.
pfa_init ==
    /\ at = "align"
    /\ regions' = [i \in DOMAIN regions |-> Aligned(regions[i])]
    /\ entry' = 1
    /\ Goto("count")
    /\ UNCHANGED <<boot, total_pfs, frames_len, bitmap_paddr>>

\* Mutant: the last region is not counted.
CountAllButLast ==
    /\ at = "count"
    /\ IF entry < Len(regions)
       THEN /\ total_pfs' = U32(total_pfs + regions[entry].len \div FOUR_KB)
            /\ entry' = entry + 1
            /\ UNCHANGED at
       ELSE Goto("construct_bitmap") /\ UNCHANGED <<total_pfs, entry>>
    /\ UNCHANGED <<boot, regions, frames_len, bitmap_paddr>>

\* One iteration of the first loop of construct_bitmap, and its end.
count_frames ==
    /\ at = "count"
    /\ IF entry <= Len(regions)
       THEN /\ total_pfs' = U32(total_pfs + regions[entry].len \div FOUR_KB)
            /\ entry' = entry + 1
            /\ UNCHANGED at
       ELSE Goto("construct_bitmap") /\ UNCHANGED <<total_pfs, entry>>
    /\ UNCHANGED <<boot, regions, frames_len, bitmap_paddr>>

\* construct_bitmap takes the frames of the bitmap from the first region that has
\* enough.  Its mapping into the kernel's memory may fail.
div_ceil32(num, den) == U32(num - 1) \div den + 1
bitmap_pfs == div_ceil32(div_ceil32(total_pfs, BYTE), FOUR_KB)
HasRoom(r) == r.len >= bitmap_pfs * FOUR_KB

TakeBitmap ==
    LET i == CHOOSE i \in DOMAIN regions :
                /\ HasRoom(regions[i])
                /\ \A j \in DOMAIN regions : j < i => ~HasRoom(regions[j])
    IN  /\ bitmap_paddr' = regions[i].addr
        /\ regions' = [regions EXCEPT
                         ![i] = Region(@.addr + bitmap_pfs * FOUR_KB,
                                       @.len - bitmap_pfs * FOUR_KB)]

construct_bitmap ==
    /\ at = "construct_bitmap"
    /\ frames_len' = U32(total_pfs - bitmap_pfs)
    /\ \/ /\ \E i \in DOMAIN regions : HasRoom(regions[i])
          /\ TakeBitmap
          /\ \E mapped \in BOOLEAN : Goto(IF mapped THEN "done" ELSE "KINIT_ERROR_INIT_PFA")
       \/ /\ ~\E i \in DOMAIN regions : HasRoom(regions[i])
          /\ Goto("KINIT_ERROR_INIT_PFA")
          /\ UNCHANGED <<regions, bitmap_paddr>>
    /\ UNCHANGED <<boot, entry, total_pfs>>

kinit == get_fs_paddr \/ fill_memory_map \/ pfa_init \/ count_frames \/ construct_bitmap

-----------------------------------------------------------------------------
\* The map in page frames, as PageFrameAllocator has it.
InFrames == [i \in DOMAIN regions |-> [addr |-> regions[i].addr \div FOUR_KB,
                                       len |-> regions[i].len \div FOUR_KB]]

\* The allocator is explored for the boots that lead to its memory map.
MmNext ==
    \/ kinit /\ UNCHANGED vars
    \/ /\ at = "done" /\ InFrames = mmap /\ frames_len = page_frames_len
       /\ Next /\ UNCHANGED mm_vars

BootInit == MmInit /\ Init

MmSpec == BootInit /\ [][MmNext]_<<vars, mm_vars>>

-----------------------------------------------------------------------------
(***************************************************************************)
(* Properties.                                                             *)
(***************************************************************************)
Span(addr, len) == addr .. (addr + len - 1)
fs_end == boot.fs_paddr + boot.fs_size

\* GRUB's entries are sorted and disjoint; the available ones from the kernel's on are
\* below 4 GB, and begin and end with a page.
Regular ==
    \A i \in DOMAIN boot.entries :
        LET e == boot.entries[i] IN
        /\ \A j \in DOMAIN boot.entries : i < j => e.addr + e.len <= boot.entries[j].addr
        /\ e.available /\ e.addr >= kernel_start =>
              e.addr + e.len < UINT /\ e.addr % FOUR_KB = 0 /\ e.len % FOUR_KB = 0

\* The kernel lies in an entry that begins where it begins, and the file system, at the
\* page that MODULEALIGN of loader.s asks for, behind it, and ends a megabyte before the
\* entry does.
LoadedApart ==
    \E i \in DOMAIN boot.entries :
        LET e == boot.entries[i] IN
        /\ e.available /\ e.addr = kernel_start
        /\ boot.kernel_end < boot.fs_paddr /\ boot.fs_paddr % FOUR_KB = 0
        /\ fs_end < e.addr + e.len - ONE_MB

\* When the file system is loaded apart from the kernel and from the end of memory, no
\* page frame of the kernel, of the file system or of the bitmap is given to the
\* allocator.
Spared ==
    (at = "done" /\ Regular /\ LoadedApart) =>
        \A i \in DOMAIN regions :
            Span(regions[i].addr, regions[i].len) \cap
            (Span(kernel_start, boot.kernel_end - kernel_start)
             \cup Span(boot.fs_paddr, boot.fs_size)
             \cup Span(bitmap_paddr, div_ceil32(frames_len, BYTE))) = {}

\* The two errors in the lengths: one region is a megabyte short, the one behind the file
\* system is too long by the distance from the kernel's end to the file system's.  By so
\* much it passes the end of its memory: an image of mkfs has whole megabytes, and the
\* Makefile's has four.
Overrun == LET reach == fs_end - boot.kernel_end IN IF reach > ONE_MB THEN reach - ONE_MB ELSE 0

\* The memory behind the kernel's entry is not available, as far as that.
RoomBehind ==
    \A i, j \in DOMAIN boot.entries :
        LET e == boot.entries[i] IN
        (e.available /\ e.addr >= kernel_start /\ boot.entries[j].available /\ i < j) =>
            e.addr + e.len + Overrun <= boot.entries[j].addr

\* Every region begins in available memory and passes its end by Overrun at most; with
\* room for that, the regions are the sorted disjoint ones the allocator assumes.
MapSound ==
    (at = "done" /\ Regular /\ LoadedApart) =>
        /\ \A i \in DOMAIN regions : \E j \in DOMAIN boot.entries :
              LET r == regions[i] e == boot.entries[j] IN
              /\ e.available
              /\ r.addr \in e.addr .. (e.addr + e.len)
              /\ r.addr + r.len <= e.addr + e.len + Overrun
        /\ RoomBehind =>
              \A i, j \in DOMAIN regions :
                  i < j => regions[i].addr + regions[i].len <= regions[j].addr
=============================================================================
