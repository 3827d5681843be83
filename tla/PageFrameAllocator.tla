-------------------------- MODULE PageFrameAllocator --------------------------
(***************************************************************************)
(* The page frame allocator of aenix, kernel/page_frame_allocator.c, after *)
(* pfa_init: pfa_allocate, pfa_free and pfa_free_cont on the bitmap of     *)
(* page frames.  Addresses and lengths are counted in page frames of       *)
(* FOUR_KB.                                                                *)
(*                                                                         *)
(* The bitmap is an array of 32-bit cells that is initialised byte by      *)
(* byte, so on a little-endian machine bit i is not in byte i / 8, and the *)
(* last cell has bytes that are never initialised.  The kernel is          *)
(* preemptible and takes no lock: a call reads the bitmap in one step and  *)
(* changes it in a later one, with steps of other calls in between.        *)
(***************************************************************************)
EXTENDS Integers, Sequences, FiniteSets

CONSTANTS
    mmap,            \* the memory map: a sequence of regions [addr, len]
    offset,          \* offset[i]: the frames in the regions before region i
    page_frames_len, \* page_frames.len: the frames in all regions
    BYTE,            \* bits in a byte (8 in the code)
    MAX_REQUEST,     \* bound: the largest number of frames asked for at once
    Clients          \* the threads of the kernel that use the allocator

CELL == 4 * BYTE                                    \* bits in a cell
div_ceil(num, den) == (num - 1) \div den + 1
Bits == 0 .. (CELL * div_ceil(page_frames_len, CELL) - 1)
Regions == DOMAIN mmap

ASSUME mmapAssumption ==
    /\ mmap \in Seq([addr : Nat, len : Nat])
    /\ \A i, j \in Regions : i < j => mmap[i].addr + mmap[i].len <= mmap[j].addr

ASSUME offsetAssumption ==
    /\ offset \in [Regions -> Nat]
    /\ \A i, j \in Regions : i < j => offset[i] + mmap[i].len <= offset[j]
    /\ \A i \in Regions : offset[i] + mmap[i].len <= page_frames_len
    /\ \A b \in 0 .. (page_frames_len - 1) :
          \E i \in Regions : offset[i] <= b /\ b < offset[i] + mmap[i].len

ASSUME sizeAssumption == /\ page_frames_len \in Nat \ {0}
                         /\ BYTE \in Nat \ {0}
                         /\ MAX_REQUEST \in Nat \ {0}

VARIABLES
    bitmap,    \* page_frames.start: 1 for a free frame
    held,      \* the blocks of frames each client has been given
    request,   \* the call under way, per client: what it is about to toggle
    unusable,  \* history: the frames whose bit was 0 from the start
    raced      \* history: two calls have overlapped

vars == <<bitmap, held, request, unusable, raced>>

-----------------------------------------------------------------------------
(***************************************************************************)
(* Indices and addresses.                                                  *)
(***************************************************************************)
InRegion(b, i) == offset[i] <= b /\ b < offset[i] + mmap[i].len

\* the first region that is not passed over: it holds the bit b
paddr_for_idx(b) ==
    LET i == CHOOSE i \in Regions : InRegion(b, i)
    IN  mmap[i].addr + (b - offset[i])

\* the first region whose end lies above paddr
IsRegionFor(paddr, i) ==
    /\ paddr < mmap[i].addr + mmap[i].len
    /\ \A j \in Regions : j < i => paddr >= mmap[j].addr + mmap[j].len

idx_for_paddr(paddr) ==
    IF \E i \in Regions : IsRegionFor(paddr, i)
    THEN LET i == CHOOSE i \in Regions : IsRegionFor(paddr, i)
         IN  offset[i] + (paddr - mmap[i].addr)
    ELSE page_frames_len

fits_in_one_mmap_entry(b, pfs) ==
    \E i \in Regions : InRegion(b, i) /\ b + pfs <= offset[i] + mmap[i].len

-----------------------------------------------------------------------------
(***************************************************************************)
(* The search.  A run of 1 bits starts at s; frames_found returns to 0 when *)
(* a block of n bits does not fit into one region, so the blocks tried are *)
(* the ones at s, s + n, s + 2n, ...                                       *)
(***************************************************************************)
Tried(bits, b, n) ==
    /\ \A i \in b .. (b + n - 1) : i \in Bits /\ bits[i] = 1
    /\ \E s \in 0 .. b :
          /\ (b - s) % n = 0
          /\ \A i \in s .. b : bits[i] = 1
          /\ s > 0 => bits[s - 1] = 0

\* Mutant: the block may straddle two regions.
FoundAcrossRegions(bits, b, n) ==
    /\ Tried(bits, b, n)
    /\ \A a \in 0 .. (b - 1) : ~Tried(bits, a, n)

\* Mutant: off by one, the search stops before the last frame.
FoundBeforeLast(bits, b, n) ==
    /\ Tried(bits, b, n) /\ fits_in_one_mmap_entry(b, n + 1)
    /\ \A a \in 0 .. (b - 1) : ~(Tried(bits, a, n) /\ fits_in_one_mmap_entry(a, n + 1))

\* pfa_allocate finds the bits b .. b + n - 1
Found(bits, b, n) ==
    /\ Tried(bits, b, n) /\ fits_in_one_mmap_entry(b, n)
    /\ \A a \in 0 .. (b - 1) : ~(Tried(bits, a, n) /\ fits_in_one_mmap_entry(a, n))

\* Mutant: bits are added (+=) where they should be flipped (^=).
ToggleAdds(bits, S) == [i \in DOMAIN bits |-> IF i \in S THEN bits[i] + 1 ELSE bits[i]]

Toggle(bits, S) == [i \in DOMAIN bits |-> IF i \in S THEN 1 - bits[i] ELSE bits[i]]

Block(addr, n) == [addr |-> addr, n |-> n]
Frames(x) == x.addr .. (x.addr + x.n - 1)

Idle == [op |-> "idle", block |-> Block(0, 1), bits |-> {}]
Overlaps(c) == \E d \in Clients \ {c} : request[d] # Idle

Begin(c, op, block, bits) ==
    /\ request[c] = Idle
    /\ request' = [request EXCEPT ![c] = [op |-> op, block |-> block, bits |-> bits]]
    /\ raced' = (raced \/ Overlaps(c))
    /\ UNCHANGED <<bitmap, held, unusable>>

\* pfa_allocate up to its call of toggle_bits, and the address it will return;
\* when nothing is found it returns 0 and changes nothing.
pfa_allocate(c) ==
    \E n \in 1 .. MAX_REQUEST, b \in Bits :
        /\ Found(bitmap, b, n)
        /\ Begin(c, "allocate", Block(paddr_for_idx(b), n), b .. (b + n - 1))

\* Mutant: off by one, the last frame of the block is not freed.
FreeAllButLast(c) ==
    \E x \in held[c] :
        Begin(c, "free", x, {idx_for_paddr(f) : f \in Frames(x) \ {x.addr + x.n - 1}})

\* pfa_free_cont of a block its owner gives back, and pfa_free for a block of
\* one frame; an address above every region is only logged.
pfa_free_cont(c) ==
    \E x \in held[c] :
        Begin(c, "free", x, {idx_for_paddr(f) : f \in Frames(x)} \ {page_frames_len})

\* toggle_bits and the return of the call.  The ^= of a cell is a load and a
\* store: when calls overlap, the change of a bit may be lost.
toggle_bits(c) ==
    LET r == request[c] IN
    /\ r # Idle
    /\ \E lost \in SUBSET r.bits :
          /\ lost # {} => Overlaps(c)
          /\ bitmap' = Toggle(bitmap, r.bits \ lost)
    /\ held' = [held EXCEPT ![c] = IF r.op = "allocate" THEN @ \cup {r.block}
                                                      ELSE @ \ {r.block}]
    /\ request' = [request EXCEPT ![c] = Idle]
    /\ UNCHANGED <<unusable, raced>>

-----------------------------------------------------------------------------
\* construct_bitmap: bytes are set to 0xFF up to the last one, which gets
\* page_frames.len % 8 bits; the bytes behind it hold whatever was in memory.
byte_of(i) == (i \div CELL) * 4 + 3 - (i % CELL) \div BYTE
bitmap_size == div_ceil(page_frames_len, BYTE)

InitialBit(i) ==
    IF byte_of(i) < bitmap_size - 1 THEN {1}
    ELSE IF byte_of(i) = bitmap_size - 1
         THEN {IF i % BYTE < page_frames_len % BYTE THEN 1 ELSE 0}
         ELSE {0, 1}

Init ==
    /\ bitmap \in {f \in [Bits -> {0, 1}] : \A i \in Bits : f[i] \in InitialBit(i)}
    /\ held = [c \in Clients |-> {}]
    /\ request = [c \in Clients |-> Idle]
    /\ unusable = {i \in Bits : bitmap[i] = 0}
    /\ raced = FALSE

Next == \E c \in Clients : pfa_allocate(c) \/ pfa_free_cont(c) \/ toggle_bits(c)

Spec == Init /\ [][Next]_vars

-----------------------------------------------------------------------------
(***************************************************************************)
(* Properties.                                                             *)
(***************************************************************************)
Blocks == [addr : Nat, n : Nat \ {0}]
Requests == [op : {"idle", "allocate", "free"}, block : Blocks, bits : SUBSET Bits]

\* The variables keep their types.
TypeOK ==
    /\ bitmap \in [Bits -> {0, 1}]
    /\ held \in [Clients -> SUBSET Blocks]
    /\ request \in [Clients -> Requests]
    /\ unusable \subseteq Bits
    /\ raced \in BOOLEAN

\* Unless two calls overlap, no page frame is given out twice, and every block is
\* contiguous physical memory inside one region of the memory map.
NoDoubleAllocation ==
    ~raced =>
        \A c, d \in Clients : \A x \in held[c], y \in held[d] :
            /\ (c # d \/ x # y) => Frames(x) \cap Frames(y) = {}
            /\ \E i \in Regions : /\ mmap[i].addr <= x.addr
                                  /\ x.addr + x.n <= mmap[i].addr + mmap[i].len

\* Unless two calls overlap, frames do not leak: a frame whose bit is 0 is held by
\* somebody, or its bit has been 0 since the bitmap was built; and freeing an
\* address finds the bit that allocating it cleared.
NoLeak ==
    ~raced =>
        {i \in 0 .. (page_frames_len - 1) : bitmap[i] = 0} =
        (unusable \cap 0 .. (page_frames_len - 1))
        \cup UNION {{idx_for_paddr(f) : f \in Frames(x)} : x \in UNION {held[c] : c \in Clients}}

\* The search misses blocks that straddle the multiples it tries, but never when
\* 2n - 1 free frames follow each other in one region: in particular a single
\* frame is found whenever one is free.
AllocationGuarantee ==
    \A n \in 1 .. MAX_REQUEST, a \in 0 .. (page_frames_len - 1) :
        (/\ fits_in_one_mmap_entry(a, 2 * n - 1)
         /\ \A i \in a .. (a + 2 * n - 2) : bitmap[i] = 1)
        => \E b \in Bits : Found(bitmap, b, n)
=============================================================================
