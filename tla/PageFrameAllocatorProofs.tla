----------------------- MODULE PageFrameAllocatorProofs -----------------------
(***************************************************************************)
(* Proofs about PageFrameAllocator, for every memory map, every size and   *)
(* every set of clients: types, no frame is given out twice, no frame      *)
(* leaks, and what the search is sure to find.  And about MemoryMap, with  *)
(* the sizes of the code, for whatever GRUB reports: the frames of the     *)
(* kernel, of the file system and of the bitmap are not given out.         *)
(***************************************************************************)
EXTENDS MemoryMap, WellFoundedInduction, TLAPS

USE DEF Regions

Idx(x) == {idx_for_paddr(f) : f \in Frames(x)}

\* The block x lies in one region of the memory map.
Placed(x) == \E i \in Regions : /\ mmap[i].addr <= x.addr
                                /\ x.addr + x.n <= mmap[i].addr + mmap[i].len

\* What a call under way is about to do.
RequestsOK ==
    \A c \in Clients :
        LET r == request[c] IN
        \/ r = Idle
        \/ /\ r.op = "allocate" \/ (r.op = "free" /\ r.block \in held[c])
           /\ Placed(r.block)
           /\ r.bits = Idx(r.block)

BlocksOK == \A c \in Clients : \A x \in held[c] : Placed(x)

\* Without an overlap one call is under way at most; the bits it is about to
\* allocate are 1, the bits of the held blocks are 0, and the held blocks are
\* disjoint.
OneCall == \A c, d \in Clients : request[c] # Idle /\ request[d] # Idle => c = d
FoundFree == \A c \in Clients : request[c].op = "allocate" =>
                \A i \in request[c].bits : bitmap[i] = 1
HeldUsed == \A c \in Clients : \A x \in held[c] : \A i \in Idx(x) : bitmap[i] = 0
Disjoint == \A c, d \in Clients : \A x \in held[c], y \in held[d] :
                (c # d \/ x # y) => Frames(x) \cap Frames(y) = {}

\* Without an overlap the bits that were 0 from the start stay 0, belong to no
\* block, and every other 0 bit belongs to a held block.
UnusableZero == \A i \in unusable : bitmap[i] = 0
HeldUsable == \A c \in Clients : \A x \in held[c] : Idx(x) \cap unusable = {}
Accounted == \A i \in 0 .. (page_frames_len - 1) :
                bitmap[i] = 0 => \/ i \in unusable
                                 \/ \E c \in Clients : \E x \in held[c] : i \in Idx(x)

Inv == /\ TypeOK /\ RequestsOK /\ BlocksOK
       /\ ~raced => /\ OneCall /\ FoundFree /\ HeldUsed /\ Disjoint
                    /\ UnusableZero /\ HeldUsable /\ Accounted

-----------------------------------------------------------------------------
(***************************************************************************)
(* The memory map and the bitmap.                                          *)
(***************************************************************************)
\* The types of the memory map.
LEMMA MapTypes ==
    /\ \A i \in Regions : /\ i \in Nat
                          /\ mmap[i].addr \in Nat /\ mmap[i].len \in Nat /\ offset[i] \in Nat
    /\ page_frames_len \in Nat \ {0}
<1> DEFINE RegionType == [addr : Nat, len : Nat]
<1> HIDE DEF RegionType
<1>1. mmap \in Seq(RegionType)
  BY mmapAssumption DEF RegionType
<1>2. ASSUME NEW i \in Regions PROVE i \in Nat /\ mmap[i] \in RegionType
  BY <1>1, <1>2
<1>3. ASSUME NEW i \in Regions PROVE mmap[i].addr \in Nat /\ mmap[i].len \in Nat
  BY <1>2 DEF RegionType
<1>4. ASSUME NEW i \in Regions PROVE offset[i] \in Nat
  BY offsetAssumption
<1> QED BY <1>2, <1>3, <1>4, sizeAssumption

\* The index of a page frame in a region.
LEMMA FrameIndex ==
    ASSUME NEW i \in Regions, NEW f \in Nat,
           mmap[i].addr <= f, f < mmap[i].addr + mmap[i].len
    PROVE  /\ idx_for_paddr(f) = offset[i] + (f - mmap[i].addr)
           /\ idx_for_paddr(f) \in 0 .. (page_frames_len - 1)
           /\ InRegion(idx_for_paddr(f), i)
           /\ f = mmap[i].addr + (idx_for_paddr(f) - offset[i])
<1>1. \A j \in Regions : mmap[j].addr \in Nat /\ mmap[j].len \in Nat /\ j \in Nat
  BY MapTypes
<1>2. \A j, k \in Regions : j < k => mmap[j].addr + mmap[j].len <= mmap[k].addr
  BY mmapAssumption
<1>3. IsRegionFor(f, i)
  BY <1>1, <1>2 DEF IsRegionFor
<1>4. ASSUME NEW j \in Regions, IsRegionFor(f, j) PROVE j = i
  BY <1>1, <1>2, <1>3, <1>4 DEF IsRegionFor
<1>5. (CHOOSE j \in Regions : IsRegionFor(f, j)) = i
  BY <1>3, <1>4
<1>6. idx_for_paddr(f) = offset[i] + (f - mmap[i].addr)
  BY <1>3, <1>5 DEF idx_for_paddr
<1>7. offset[i] \in Nat /\ offset[i] + mmap[i].len <= page_frames_len /\ page_frames_len \in Nat
  BY offsetAssumption, MapTypes
<1> QED BY <1>1, <1>6, <1>7 DEF InRegion

\* A bit belongs to one region, and the address of its frame is there.
LEMMA IndexFrame ==
    ASSUME NEW i \in Regions, NEW b \in Nat, InRegion(b, i)
    PROVE  paddr_for_idx(b) = mmap[i].addr + (b - offset[i])
<1>1. \A j \in Regions : /\ mmap[j].addr \in Nat /\ mmap[j].len \in Nat
                         /\ offset[j] \in Nat /\ j \in Nat
  BY MapTypes
<1>2. \A j, k \in Regions : j < k => offset[j] + mmap[j].len <= offset[k]
  BY offsetAssumption
<1>3. ASSUME NEW j \in Regions, InRegion(b, j) PROVE j = i
  BY <1>1, <1>2, <1>3 DEF InRegion
<1>4. (CHOOSE j \in Regions : InRegion(b, j)) = i
  BY <1>3
<1> QED BY <1>4 DEF paddr_for_idx

\* Allocating and freeing use the same bit: the frames of different indices are
\* different, and an index in a region comes back from its address.
LEMMA IndexInjective ==
    ASSUME NEW x \in Blocks, NEW y \in Blocks, Placed(x), Placed(y),
           NEW f \in Frames(x), NEW g \in Frames(y), idx_for_paddr(f) = idx_for_paddr(g)
    PROVE  f = g
<1>1. /\ x.addr \in Nat /\ x.n \in Nat /\ y.addr \in Nat /\ y.n \in Nat
      /\ f \in Nat /\ g \in Nat
  BY DEF Blocks, Frames
<1>2. PICK i \in Regions : mmap[i].addr <= f /\ f < mmap[i].addr + mmap[i].len
  BY <1>1, MapTypes DEF Placed, Frames
<1>3. PICK j \in Regions : mmap[j].addr <= g /\ g < mmap[j].addr + mmap[j].len
  BY <1>1, MapTypes DEF Placed, Frames
<1>4. /\ InRegion(idx_for_paddr(f), i) /\ InRegion(idx_for_paddr(f), j)
      /\ idx_for_paddr(f) \in Nat
      /\ f = mmap[i].addr + (idx_for_paddr(f) - offset[i])
      /\ g = mmap[j].addr + (idx_for_paddr(f) - offset[j])
  BY <1>1, <1>2, <1>3, FrameIndex, sizeAssumption
<1>5. mmap[i].addr + (idx_for_paddr(f) - offset[i]) =
      mmap[j].addr + (idx_for_paddr(f) - offset[j])
  BY <1>4, IndexFrame
<1> QED BY <1>4, <1>5

\* The bits of a placed block are bits of page frames.
LEMMA PlacedIndices ==
    ASSUME NEW x \in Blocks, Placed(x)
    PROVE  Idx(x) \subseteq 0 .. (page_frames_len - 1)
<1>1. SUFFICES ASSUME NEW f \in Frames(x) PROVE idx_for_paddr(f) \in 0 .. (page_frames_len - 1)
  BY DEF Idx
<1>2. f \in Nat /\ \E i \in Regions : mmap[i].addr <= f /\ f < mmap[i].addr + mmap[i].len
  BY MapTypes DEF Placed, Frames, Blocks
<1> QED BY <1>2, FrameIndex

\* The bits pfa_allocate finds are the bits of the block it returns.
LEMMA AllocatedBlock ==
    ASSUME NEW b \in Nat, NEW n \in Nat \ {0}, fits_in_one_mmap_entry(b, n)
    PROVE  LET x == Block(paddr_for_idx(b), n)
           IN  x \in Blocks /\ Placed(x) /\ Idx(x) = b .. (b + n - 1)
<1> DEFINE x == Block(paddr_for_idx(b), n)
<1>1. PICK i \in Regions : InRegion(b, i) /\ b + n <= offset[i] + mmap[i].len
  BY DEF fits_in_one_mmap_entry
<1>2. mmap[i].addr \in Nat /\ mmap[i].len \in Nat /\ offset[i] \in Nat
  BY MapTypes
<1>3. x.addr = mmap[i].addr + (b - offset[i]) /\ x.n = n
  BY <1>1, IndexFrame DEF Block
<1>4. x \in Blocks /\ Placed(x)
  <2>1. x.addr \in Nat /\ mmap[i].addr <= x.addr /\ x.addr + x.n <= mmap[i].addr + mmap[i].len
    BY <1>1, <1>2, <1>3 DEF InRegion
  <2> QED BY <2>1, <1>3 DEF Block, Blocks, Placed
<1>5. \A f \in Frames(x) : idx_for_paddr(f) = b + (f - x.addr)
  <2> TAKE f \in Frames(x)
  <2>1. f \in Nat /\ mmap[i].addr <= f /\ f < mmap[i].addr + mmap[i].len
    BY <1>1, <1>2, <1>3 DEF Frames, InRegion
  <2> QED BY <2>1, <1>2, <1>3, FrameIndex
<1>6. Idx(x) = b .. (b + n - 1)
  <2>1. ASSUME NEW k \in Idx(x) PROVE k \in b .. (b + n - 1)
    BY <2>1, <1>2, <1>3, <1>5 DEF Idx, Frames
  <2>2. ASSUME NEW k \in b .. (b + n - 1) PROVE k \in Idx(x)
    <3>1. x.addr \in Nat /\ x.n = n
      BY <1>3, <1>4 DEF Blocks
    <3>2. x.addr + (k - b) \in Frames(x)
      BY <3>1 DEF Frames
    <3>3. idx_for_paddr(x.addr + (k - b)) = k
      BY <3>1, <3>2, <1>5
    <3> QED BY <3>2, <3>3 DEF Idx
  <2> QED BY <2>1, <2>2
<1> QED BY <1>4, <1>6

\* The bitmap has a bit for every page frame.
LEMMA FramesAreBits == 0 .. (page_frames_len - 1) \subseteq Bits
<1> DEFINE q == (page_frames_len - 1) \div CELL
<1>1. CELL \in Nat /\ CELL > 0 /\ page_frames_len \in Nat /\ page_frames_len > 0
  BY sizeAssumption DEF CELL
<1>2. q \in Int /\ page_frames_len - 1 < CELL * q + CELL
  BY <1>1
<1>3. CELL * (q + 1) = CELL * q + CELL
  BY <1>1, <1>2
<1>4. CELL * (q + 1) \in Int
  BY <1>1, <1>2
<1> HIDE DEF q
<1> QED BY <1>1, <1>2, <1>3, <1>4 DEF Bits, div_ceil, q

-----------------------------------------------------------------------------
(***************************************************************************)
(* The initial state and the steps.                                        *)
(***************************************************************************)
LEMMA InitInv == Init => Inv
<1> SUFFICES ASSUME Init PROVE Inv
  OBVIOUS
<1>1. Idle \in Requests
  BY DEF Idle, Block, Requests, Blocks
<1>2. TypeOK
  BY <1>1 DEF Init, TypeOK
<1>3. RequestsOK /\ OneCall /\ FoundFree
  BY DEF Init, RequestsOK, OneCall, FoundFree, Idle
<1>4. BlocksOK /\ HeldUsed /\ Disjoint /\ HeldUsable
  BY DEF Init, BlocksOK, HeldUsed, Disjoint, HeldUsable
<1>5. UnusableZero /\ Accounted
  BY FramesAreBits DEF Init, UnusableZero, Accounted
<1> QED BY <1>2, <1>3, <1>4, <1>5 DEF Inv

\* A call begins: bits that the block's frames stand for, all 1 for an
\* allocation, and the block held for a free.
LEMMA BeginInv ==
    ASSUME Inv, NEW c \in Clients, NEW op, NEW x \in Blocks, Placed(x), NEW bits,
           bits = Idx(x), Begin(c, op, x, bits),
           \/ op = "allocate" /\ \A i \in bits : bitmap[i] = 1
           \/ op = "free" /\ x \in held[c]
    PROVE  Inv'
<1> DEFINE r == [op |-> op, block |-> x, bits |-> bits]
<1> USE DEF Begin
<1>1. bits \subseteq Bits
  BY PlacedIndices, FramesAreBits
<1>2. r \in Requests /\ request' = [request EXCEPT ![c] = r]
  BY <1>1 DEF Requests
<1>3. TypeOK'
  BY <1>2 DEF Inv, TypeOK
<1>4. request'[c] = r /\ \A d \in Clients \ {c} : request'[d] = request[d]
  BY <1>2 DEF Inv, TypeOK
<1>5. RequestsOK'
  <2> SUFFICES ASSUME NEW d \in Clients
               PROVE  \/ request'[d] = Idle
                      \/ /\ \/ request'[d].op = "allocate"
                            \/ request'[d].op = "free" /\ request'[d].block \in held[d]
                         /\ Placed(request'[d].block)
                         /\ request'[d].bits = Idx(request'[d].block)
    BY DEF RequestsOK, Placed, Idx
  <2>1. CASE d = c
    BY <2>1, <1>4
  <2>2. CASE d # c
    BY <2>2, <1>4 DEF Inv, RequestsOK
  <2> QED BY <2>1, <2>2
<1>6. BlocksOK'
  BY DEF Inv, BlocksOK, Placed
<1>7. ASSUME ~raced'
      PROVE  /\ OneCall' /\ FoundFree' /\ HeldUsed' /\ Disjoint'
             /\ UnusableZero' /\ HeldUsable' /\ Accounted'
  <2>1. ~raced /\ \A d \in Clients \ {c} : request[d] = Idle
    BY <1>7 DEF Overlaps, Inv, TypeOK
  <2>2. OneCall'
    BY <2>1, <1>4 DEF OneCall
  <2>3. FoundFree'
    <3> SUFFICES ASSUME NEW d \in Clients, request'[d].op = "allocate",
                        NEW i \in request'[d].bits
                 PROVE  bitmap[i] = 1
      BY DEF FoundFree
    <3>1. d = c
      BY <2>1, <1>4 DEF Idle
    <3> QED BY <3>1, <1>4
  <2>4. HeldUsed' /\ Disjoint' /\ UnusableZero' /\ HeldUsable' /\ Accounted'
    BY <2>1 DEF Inv, HeldUsed, Disjoint, UnusableZero, HeldUsable, Accounted, Idx, Frames
  <2> QED BY <2>2, <2>3, <2>4
<1> QED BY <1>3, <1>5, <1>6, <1>7 DEF Inv

LEMMA AllocateInv ==
    ASSUME Inv, NEW c \in Clients, pfa_allocate(c)
    PROVE  Inv'
<1>1. PICK n \in 1 .. MAX_REQUEST, b \in Bits :
          /\ Found(bitmap, b, n)
          /\ Begin(c, "allocate", Block(paddr_for_idx(b), n), b .. (b + n - 1))
  BY DEF pfa_allocate
<1>2. n \in Nat \ {0} /\ b \in Nat
  BY sizeAssumption DEF Bits
<1>3. fits_in_one_mmap_entry(b, n) /\ \A i \in b .. (b + n - 1) : bitmap[i] = 1
  BY <1>1 DEF Found, Tried
<1> DEFINE x == Block(paddr_for_idx(b), n)
<1>4. x \in Blocks /\ Placed(x) /\ b .. (b + n - 1) = Idx(x)
  BY <1>2, <1>3, AllocatedBlock
<1> HIDE DEF x
<1>5. Begin(c, "allocate", x, b .. (b + n - 1))
  BY <1>1 DEF x
<1> QED BY <1>3, <1>4, <1>5, BeginInv

LEMMA FreeInv ==
    ASSUME Inv, NEW c \in Clients, pfa_free_cont(c)
    PROVE  Inv'
<1>1. PICK x \in held[c] :
          Begin(c, "free", x, {idx_for_paddr(f) : f \in Frames(x)} \ {page_frames_len})
  BY DEF pfa_free_cont
<1>2. x \in Blocks /\ Placed(x)
  BY DEF Inv, TypeOK, BlocksOK
<1>3. page_frames_len \notin Idx(x)
  BY <1>2, PlacedIndices, sizeAssumption
<1>4. Begin(c, "free", x, Idx(x))
  BY <1>1, <1>3 DEF Idx
<1> QED BY <1>2, <1>4, BeginInv

\* The call under way changes its bits and returns.
LEMMA ToggleInv ==
    ASSUME Inv, NEW c \in Clients, toggle_bits(c)
    PROVE  Inv'
<1> DEFINE r == request[c]
           x == r.block
           alloc == r.op = "allocate"
<1>1. /\ r \in Requests /\ x \in Blocks /\ Placed(x) /\ r.bits = Idx(x)
      /\ r # Idle /\ r.op \in {"allocate", "free"}
      /\ r.op = "free" => x \in held[c]
      /\ r.bits \subseteq Bits
  BY DEF toggle_bits, Inv, TypeOK, RequestsOK, Requests
<1>2. PICK lost \in SUBSET r.bits : /\ lost # {} => Overlaps(c)
                                   /\ bitmap' = Toggle(bitmap, r.bits \ lost)
  BY DEF toggle_bits
<1>3. /\ held'[c] = IF alloc THEN held[c] \cup {x} ELSE held[c] \ {x}
      /\ \A d \in Clients \ {c} : held'[d] = held[d]
      /\ request'[c] = Idle
      /\ \A d \in Clients \ {c} : request'[d] = request[d]
      /\ UNCHANGED <<unusable, raced>>
  BY DEF toggle_bits, Inv, TypeOK
<1>4. TypeOK'
  <2>1. bitmap' \in [Bits -> {0, 1}]
    BY <1>2 DEF Inv, TypeOK, Toggle
  <2>2. held' \in [Clients -> SUBSET Blocks]
    BY <1>1 DEF toggle_bits, Inv, TypeOK
  <2>3. Idle \in Requests
    BY DEF Idle, Block, Requests, Blocks
  <2>4. request' \in [Clients -> Requests]
    BY <2>3 DEF toggle_bits, Inv, TypeOK
  <2> QED BY <2>1, <2>2, <2>4, <1>3 DEF Inv, TypeOK
<1>5. RequestsOK'
  BY <1>3 DEF Inv, RequestsOK, Placed, Idx
<1>6. ASSUME NEW d \in Clients, NEW y \in held'[d]
      PROVE  y \in Blocks /\ Placed(y) /\ (y \in held[d] \/ (alloc /\ d = c /\ y = x))
  BY <1>1, <1>3 DEF Inv, TypeOK, BlocksOK
<1>7. BlocksOK'
  BY <1>6 DEF BlocksOK, Placed
<1>8. ASSUME ~raced'
      PROVE  /\ OneCall' /\ FoundFree' /\ HeldUsed' /\ Disjoint'
             /\ UnusableZero' /\ HeldUsable' /\ Accounted'
  <2>1. /\ OneCall /\ FoundFree /\ HeldUsed /\ Disjoint
        /\ UnusableZero /\ HeldUsable /\ Accounted
    BY <1>3, <1>8 DEF Inv
  <2>2. \A d \in Clients \ {c} : request[d] = Idle
    BY <1>1, <2>1 DEF OneCall
  <2>3. \A d \in Clients : request'[d] = Idle
    BY <2>2, <1>3
  <2>4. OneCall' /\ FoundFree'
    BY <2>3 DEF OneCall, FoundFree, Idle
  <2>5. lost = {}
    BY <2>2, <1>2 DEF Overlaps
  <2>6. bitmap' = Toggle(bitmap, Idx(x))
    BY <2>5, <1>1, <1>2
  <2>7. \A i \in Bits : bitmap'[i] = IF i \in Idx(x) THEN 1 - bitmap[i] ELSE bitmap[i]
    BY <2>6 DEF Toggle, Inv, TypeOK
  <2>8. ASSUME NEW d \in Clients, NEW y \in held[d]
        PROVE  Idx(y) \subseteq Bits /\ \A i \in Idx(y) : bitmap[i] = 0
    BY <2>1, <2>8, PlacedIndices, FramesAreBits DEF HeldUsed, Inv, BlocksOK, TypeOK
  <2>9. CASE alloc
    <3>1. \A i \in Idx(x) : bitmap[i] = 1 /\ bitmap'[i] = 0
      BY <2>1, <2>7, <2>9, <1>1 DEF FoundFree
    <3>2. ASSUME NEW d \in Clients, NEW y \in held[d]
          PROVE  Idx(y) \cap Idx(x) = {}
      BY <3>1, <3>2, <2>8
    <3>3. HeldUsed'
      <4> SUFFICES ASSUME NEW d \in Clients, NEW y \in held'[d], NEW i \in Idx(y)
                   PROVE  bitmap'[i] = 0
        BY DEF HeldUsed, Idx, Frames
      <4>1. CASE y \in held[d]
        BY <4>1, <3>2, <2>7, <2>8
      <4>2. CASE y = x
        BY <4>2, <3>1
      <4> QED BY <4>1, <4>2, <1>6
    <3>4. ASSUME NEW d \in Clients, NEW y \in held[d] PROVE Frames(y) \cap Frames(x) = {}
      BY <3>2, <3>4 DEF Idx
    <3>5. Disjoint'
      <4> SUFFICES ASSUME NEW d \in Clients, NEW e \in Clients,
                          NEW y \in held'[d], NEW z \in held'[e], d # e \/ y # z
                   PROVE  Frames(y) \cap Frames(z) = {}
        BY DEF Disjoint, Frames
      <4>1. CASE y \in held[d] /\ z \in held[e]
        BY <4>1, <2>1 DEF Disjoint
      <4>2. CASE y \in held[d] /\ z = x
        BY <4>2, <3>4
      <4>3. CASE y = x /\ z \in held[e]
        BY <4>3, <3>4
      <4> QED BY <4>1, <4>2, <4>3, <1>6
    <3>6. \A i \in unusable : i \notin Idx(x) /\ i \in Bits
      BY <3>1, <2>1 DEF UnusableZero, Inv, TypeOK
    <3>7. UnusableZero'
      BY <3>6, <2>1, <2>7, <1>3 DEF UnusableZero
    <3>8. HeldUsable'
      <4> SUFFICES ASSUME NEW d \in Clients, NEW y \in held'[d]
                   PROVE  Idx(y) \cap unusable = {}
        BY <1>3 DEF HeldUsable, Idx, Frames
      <4> QED BY <3>6, <2>1, <1>6 DEF HeldUsable
    <3>9. Accounted'
      <4> SUFFICES ASSUME NEW i \in 0 .. (page_frames_len - 1), bitmap'[i] = 0,
                          i \notin unusable
                   PROVE  \E d \in Clients : \E y \in held'[d] : i \in Idx(y)
        BY <1>3 DEF Accounted, Idx, Frames
      <4>1. CASE i \in Idx(x)
        BY <4>1, <2>9, <1>3
      <4>2. CASE i \notin Idx(x)
        <5>1. i \in Bits /\ bitmap[i] = 0
          BY <4>2, <2>7, FramesAreBits
        <5>2. PICK d \in Clients : \E y \in held[d] : i \in Idx(y)
          BY <5>1, <2>1 DEF Accounted
        <5>3. held[d] \subseteq held'[d]
          BY <2>9, <1>3
        <5> QED BY <5>2, <5>3
      <4> QED BY <4>1, <4>2
    <3> QED BY <2>4, <3>3, <3>5, <3>7, <3>8, <3>9
  <2>10. CASE ~alloc
    <3>1. x \in held[c] /\ \A i \in Idx(x) : bitmap[i] = 0 /\ bitmap'[i] = 1
      BY <2>7, <2>8, <2>10, <1>1
    <3>2. ASSUME NEW d \in Clients, NEW y \in held'[d]
          PROVE  y \in held[d] /\ y \in Blocks /\ Placed(y) /\ Frames(y) \cap Frames(x) = {}
      <4>1. y \in held[d] /\ y \in Blocks /\ Placed(y)
        BY <2>10, <1>6, <3>2
      <4>2. d # c \/ y # x
        BY <2>10, <1>3, <3>2
      <4> QED BY <4>1, <4>2, <3>1, <2>1 DEF Disjoint
    <3>3. ASSUME NEW d \in Clients, NEW y \in held'[d]
          PROVE  Idx(y) \cap Idx(x) = {}
      <4> SUFFICES ASSUME NEW f \in Frames(y), NEW g \in Frames(x),
                          idx_for_paddr(f) = idx_for_paddr(g)
                   PROVE  FALSE
        BY DEF Idx
      <4>1. f = g
        BY <3>2, <3>3, <1>1, IndexInjective
      <4> QED BY <4>1, <3>2, <3>3
    <3>4. HeldUsed'
      <4> SUFFICES ASSUME NEW d \in Clients, NEW y \in held'[d], NEW i \in Idx(y)
                   PROVE  bitmap'[i] = 0
        BY DEF HeldUsed, Idx, Frames
      <4> QED BY <3>2, <3>3, <2>7, <2>8
    <3>5. Disjoint'
      <4> SUFFICES ASSUME NEW d \in Clients, NEW e \in Clients,
                          NEW y \in held'[d], NEW z \in held'[e], d # e \/ y # z
                   PROVE  Frames(y) \cap Frames(z) = {}
        BY DEF Disjoint, Frames
      <4> QED BY <3>2, <2>1 DEF Disjoint
    <3>6. UnusableZero'
      <4>1. \A i \in unusable : i \notin Idx(x) /\ i \in Bits
        BY <3>1, <2>1 DEF HeldUsable, Inv, TypeOK
      <4> QED BY <4>1, <2>1, <2>7, <1>3 DEF UnusableZero
    <3>7. HeldUsable'
      <4> SUFFICES ASSUME NEW d \in Clients, NEW y \in held'[d]
                   PROVE  Idx(y) \cap unusable = {}
        BY <1>3 DEF HeldUsable, Idx, Frames
      <4> QED BY <3>2, <2>1 DEF HeldUsable
    <3>8. Accounted'
      <4> SUFFICES ASSUME NEW i \in 0 .. (page_frames_len - 1), bitmap'[i] = 0,
                          i \notin unusable
                   PROVE  \E d \in Clients : \E y \in held'[d] : i \in Idx(y)
        BY <1>3 DEF Accounted, Idx, Frames
      <4>1. i \in Bits /\ i \notin Idx(x) /\ bitmap[i] = 0
        BY <3>1, <2>7, FramesAreBits
      <4>2. PICK d \in Clients : \E y \in held[d] : i \in Idx(y)
        BY <4>1, <2>1 DEF Accounted
      <4>3. PICK y \in held[d] : i \in Idx(y)
        BY <4>2
      <4>4. y \in held'[d]
        BY <4>1, <4>3, <2>10, <1>3
      <4> QED BY <4>3, <4>4
    <3> QED BY <2>4, <3>4, <3>5, <3>6, <3>7, <3>8
  <2> QED BY <2>9, <2>10
<1> QED BY <1>4, <1>5, <1>7, <1>8 DEF Inv

LEMMA StepInv == Inv /\ [Next]_vars => Inv'
<1> SUFFICES ASSUME Inv, [Next]_vars PROVE Inv'
  OBVIOUS
<1>1. CASE Next
  BY <1>1, AllocateInv, FreeInv, ToggleInv DEF Next
<1>2. CASE UNCHANGED vars
  BY <1>2 DEF vars, Inv, TypeOK, RequestsOK, BlocksOK, OneCall, FoundFree, HeldUsed,
              Disjoint, UnusableZero, HeldUsable, Accounted, Placed, Idx, Frames
<1> QED BY <1>1, <1>2

-----------------------------------------------------------------------------
(***************************************************************************)
(* The theorems.                                                           *)
(***************************************************************************)
\* The inductive invariant holds in every reachable state of the allocator.
THEOREM Invariance == Spec => []Inv
BY InitInv, StepInv, PTL DEF Spec

\* The bitmap stays a bitmap and blocks stay blocks, whatever calls overlap.
THEOREM TypeCorrectness == Spec => []TypeOK
<1>1. Inv => TypeOK
  BY DEF Inv
<1> QED BY <1>1, Invariance, PTL

\* Unless two calls of pfa_allocate and pfa_free_cont overlap, no page frame is
\* given out twice, and each block is contiguous memory of one region.
THEOREM ExclusiveFrames == Spec => []NoDoubleAllocation
<1>1. Inv => NoDoubleAllocation
  BY DEF Inv, NoDoubleAllocation, Disjoint, BlocksOK, Placed
<1> QED BY <1>1, Invariance, PTL

\* Unless two calls overlap, the 0 bits are exactly those of the held blocks and
\* those that were never usable: what pfa_free_cont is given can be found again.
THEOREM NothingLeaks == Spec => []NoLeak
<1>1. Inv => NoLeak
  <2> SUFFICES ASSUME Inv, ~raced
               PROVE  {i \in 0 .. (page_frames_len - 1) : bitmap[i] = 0} =
                      (unusable \cap 0 .. (page_frames_len - 1))
                      \cup UNION {Idx(x) : x \in UNION {held[c] : c \in Clients}}
    BY DEF NoLeak, Idx
  <2> DEFINE Zero == {i \in 0 .. (page_frames_len - 1) : bitmap[i] = 0}
             Used == UNION {Idx(x) : x \in UNION {held[c] : c \in Clients}}
  <2>1. ASSUME NEW i \in Zero PROVE i \in unusable \/ i \in Used
    BY <2>1 DEF Inv, Accounted
  <2>2. ASSUME NEW i \in unusable \cap 0 .. (page_frames_len - 1) PROVE i \in Zero
    BY <2>2 DEF Inv, UnusableZero
  <2>3. ASSUME NEW i \in Used PROVE i \in Zero
    <3>1. PICK c \in Clients : \E x \in held[c] : i \in Idx(x)
      BY <2>3
    <3>2. PICK x \in held[c] : i \in Idx(x)
      BY <3>1
    <3>3. x \in Blocks /\ Placed(x) /\ bitmap[i] = 0
      BY <3>2 DEF Inv, TypeOK, BlocksOK, HeldUsed
    <3> QED BY <3>2, <3>3, PlacedIndices
  <2> HIDE DEF Used
  <2>4. Zero = (unusable \cap 0 .. (page_frames_len - 1)) \cup Used
    BY <2>1, <2>2, <2>3
  <2> QED BY <2>4 DEF Used
<1> QED BY <1>1, Invariance, PTL

-----------------------------------------------------------------------------
(***************************************************************************)
(* What the search of pfa_allocate finds.                                  *)
(***************************************************************************)
\* Every set of natural numbers has a smallest element.
LEMMA Smallest ==
    ASSUME NEW T \in SUBSET Nat, T # {}
    PROVE  \E n \in T : \A m \in T : n <= m
<1> DEFINE R == OpToRel(<, Nat)
<1>1. \A m, n \in Nat : m < n => <<m, n>> \in R
  BY DEF OpToRel
<1>2. IsWellFoundedOn(R, Nat)
  BY NatLessThanWellFounded
<1> HIDE DEF R
<1>3. PICK n \in T : \A m \in T : ~(<<m, n>> \in R)
  BY <1>2, WFMin
<1>4. \A m \in T : ~(m < n)
  BY <1>1, <1>3
<1>5. \A m \in T : n <= m
  BY <1>4
<1> QED
  BY <1>5

\* Among n numbers that follow each other there is one at a multiple of n from s.
LEMMA NextMultiple ==
    ASSUME NEW n \in Nat, n > 0, NEW s \in Nat, NEW a \in Nat
    PROVE  \E b \in a .. (a + n - 1) : (b - s) % n = 0
<1> DEFINE x == s - a
           q == x \div n
           k == x % n
<1>1. x \in Int
  OBVIOUS
<1>2. q \in Int /\ k \in 0 .. (n - 1)
  BY <1>1
<1>3. x - n * q = k
  BY <1>1, <1>2
<1>4. (0 - q) * n = 0 - n * q /\ n * q \in Int
  BY <1>2
<1> HIDE DEF x, q, k
<1>5. (a + k) - s = (0 - q) * n
  BY <1>1, <1>2, <1>3, <1>4 DEF x
<1>6. ((0 - q) * n) % n = 0
  <2>1. \A p \in Int : (p * n) % n = 0
    OBVIOUS
  <2> QED
    BY <1>2, <2>1
<1>7. a + k \in a .. (a + n - 1)
  BY <1>2
<1> QED
  BY <1>5, <1>6, <1>7

\* The bits are numbered from 0 without a gap.
LEMMA BitsFromZero == Bits \subseteq Nat /\ \A b \in Bits : 0 .. b \subseteq Bits
<1> DEFINE top == CELL * div_ceil(page_frames_len, CELL) - 1
<1>1. CELL \in Nat /\ CELL > 0 /\ page_frames_len \in Nat
  BY sizeAssumption DEF CELL
<1>2. (page_frames_len - 1) \div CELL \in Int
  BY <1>1
<1>3. div_ceil(page_frames_len, CELL) \in Int
  BY <1>2 DEF div_ceil
<1>4. top \in Int
  BY <1>1, <1>3
<1>5. Bits = 0 .. top
  BY DEF Bits
<1> HIDE DEF top
<1> QED
  BY <1>4, <1>5

\* A run of 1 bits has a first one.
LEMMA RunStart ==
    ASSUME TypeOK, NEW a \in Bits, bitmap[a] = 1
    PROVE  \E s \in 0 .. a : /\ \A i \in s .. a : bitmap[i] = 1
                             /\ s > 0 => bitmap[s - 1] = 0
<1> DEFINE T == {t \in 0 .. a : \A i \in t .. a : bitmap[i] = 1}
<1>1. a \in Nat /\ 0 .. a \subseteq Bits
  BY BitsFromZero
<1>2. a \in T
  BY <1>1
<1>3. T \in SUBSET Nat
  BY <1>1
<1>4. PICK s \in T : \A t \in T : s <= t
  BY <1>2, <1>3, Smallest
<1>5. ASSUME s > 0 PROVE bitmap[s - 1] = 0
  <2>1. s \in 0 .. a /\ s - 1 \in 0 .. a /\ s - 1 \in Bits
    BY <1>1, <1>4, <1>5
  <2>2. s - 1 \notin T
    BY <1>4, <2>1
  <2>3. PICK i \in (s - 1) .. a : bitmap[i] # 1
    BY <2>1, <2>2
  <2>4. i = s - 1
    BY <1>4, <2>1, <2>3
  <2> QED
    BY <2>1, <2>3, <2>4 DEF TypeOK
<1> QED
  BY <1>4, <1>5

\* The condition under which the search tries and accepts the block at b.
Accepted(b, n) == Tried(bitmap, b, n) /\ fits_in_one_mmap_entry(b, n)

\* If some block is accepted the search finds the first of them.
LEMMA FirstAccepted ==
    ASSUME NEW n \in Nat \ {0}, NEW b \in Bits, Accepted(b, n)
    PROVE  \E c \in Bits : Found(bitmap, c, n)
<1> DEFINE T == {c \in Bits : Accepted(c, n)}
<1>1. Bits \subseteq Nat /\ \A c \in Bits : 0 .. c \subseteq Bits
  BY BitsFromZero
<1>2. PICK c \in T : \A d \in T : c <= d
  BY <1>1, Smallest
<1>3. \A d \in 0 .. (c - 1) : ~Accepted(d, n)
  <2> SUFFICES ASSUME NEW d \in 0 .. (c - 1), Accepted(d, n) PROVE FALSE
    OBVIOUS
  <2>1. c \in Nat /\ d \in 0 .. c /\ d < c
    BY <1>1
  <2>2. d \in T
    BY <1>1, <2>1
  <2> QED
    BY <1>2, <2>1, <2>2
<1> QED
  BY <1>2, <1>3 DEF Accepted, Found

\* For every memory map, every bitmap and every sequence of calls, overlapping or not:
\* pfa_allocate finds a block of n frames whenever 2n - 1 free ones follow each other in one
\* region, although it tries only one block in n.
THEOREM SearchGuarantee == Spec => []AllocationGuarantee
<1>1. TypeOK => AllocationGuarantee
  <2> SUFFICES ASSUME TypeOK, NEW n \in 1 .. MAX_REQUEST, NEW a \in 0 .. (page_frames_len - 1),
                      fits_in_one_mmap_entry(a, 2 * n - 1),
                      \A i \in a .. (a + 2 * n - 2) : bitmap[i] = 1
               PROVE  \E b \in Bits : Found(bitmap, b, n)
    BY DEF AllocationGuarantee
  <2>1. n \in Nat \ {0} /\ a \in Nat /\ page_frames_len \in Nat
    BY sizeAssumption
  <2>2. PICK r \in Regions : InRegion(a, r) /\ a + (2 * n - 1) <= offset[r] + mmap[r].len
    BY DEF fits_in_one_mmap_entry
  <2>3. /\ offset[r] \in Nat /\ mmap[r].len \in Nat
        /\ offset[r] + mmap[r].len <= page_frames_len
    BY MapTypes, offsetAssumption
  <2>4. ASSUME NEW i \in a .. (a + 2 * n - 2) PROVE i \in Bits /\ bitmap[i] = 1
    <3>1. i \in 0 .. (page_frames_len - 1)
      BY <2>1, <2>2, <2>3
    <3> QED
      BY <3>1, FramesAreBits
  <2>5. a \in a .. (a + 2 * n - 2)
    BY <2>1
  <2>6. PICK s \in 0 .. a : /\ \A i \in s .. a : bitmap[i] = 1
                            /\ s > 0 => bitmap[s - 1] = 0
    BY <2>4, <2>5, RunStart
  <2>7. PICK b \in a .. (a + n - 1) : (b - s) % n = 0
    <3>1. s \in Nat /\ n \in Nat /\ n > 0
      BY <2>1, <2>6
    <3>2. \E b \in a .. (a + n - 1) : (b - s) % n = 0
      BY <2>1, <3>1, NextMultiple
    <3> QED
      BY <3>2
  <2>8. b \in Nat /\ b .. (b + n - 1) \subseteq a .. (a + 2 * n - 2) /\ b \in b .. (b + n - 1)
    BY <2>1, <2>7
  <2>9. \A i \in s .. b : bitmap[i] = 1
    <3> SUFFICES ASSUME NEW i \in s .. b PROVE bitmap[i] = 1
      OBVIOUS
    <3>1. i \in s .. a \/ i \in a .. (a + 2 * n - 2)
      BY <2>1, <2>6, <2>7
    <3> QED
      BY <2>4, <2>6, <3>1
  <2>10. s \in 0 .. b
    BY <2>1, <2>6, <2>7
  <2>11. Tried(bitmap, b, n)
    BY <2>4, <2>6, <2>7, <2>8, <2>9, <2>10 DEF Tried
  <2>12. fits_in_one_mmap_entry(b, n)
    <3>1. InRegion(b, r) /\ b + n <= offset[r] + mmap[r].len
      BY <2>1, <2>2, <2>3, <2>7 DEF InRegion
    <3> QED
      BY <3>1 DEF fits_in_one_mmap_entry
  <2>13. b \in Bits
    BY <2>4, <2>8
  <2> QED
    BY <2>1, <2>11, <2>12, <2>13, FirstAccepted DEF Accepted
<1> QED
  BY <1>1, TypeCorrectness, PTL

-----------------------------------------------------------------------------
(***************************************************************************)
(* How the memory map is made, with the sizes of the code.                 *)
(***************************************************************************)
\* FOUR_KB, ONE_MB, uint32_t and a byte as they are.
CodeSizes == FOUR_KB = 4096 /\ ONE_MB = 1048576 /\ UINT = 4294967296 /\ BYTE = 8

\* The kernel's entry has the length L, the kernel ends at E, the file system goes from S to F.
Layout(L, E, S, F) ==
    /\ L \in Nat /\ E \in Nat /\ S \in Nat /\ F \in Nat
    /\ E < S /\ S <= F /\ F < L /\ 1048576 + L < 4294967296
    /\ S % 4096 = 0 /\ L % 4096 = 0

Area == [addr : Nat, len : Nat]

\* Whether the region i is one of the two around the file system.
Near(i, E) == E > 1048576 /\ i <= 2

\* The regions that fill_memory_map makes: what is left of the kernel's entry, and entries behind it.
Behind(r, L) == /\ r.addr >= 1048576 + L /\ r.addr + r.len < 4294967296
                /\ r.addr % 4096 = 0 /\ r.len % 4096 = 0
Filled(r, i, L, E, S, F) ==
    /\ r \in Area
    /\ Near(i, E) /\ i = 1 => r.addr = E /\ r.len = S - E
    /\ Near(i, E) /\ i = 2 => r.addr = F /\ r.len = L - E
    /\ ~Near(i, E) => Behind(r, L)

\* The regions that pfa_init makes of them.
Even(r, i, L, E, S, F) ==
    /\ r \in Area /\ r.len % 4096 = 0
    /\ Near(i, E) /\ i = 1 => E <= r.addr /\ r.addr + r.len = S
    /\ Near(i, E) /\ i = 2 => F <= r.addr /\ r.addr <= L /\ r.addr + r.len <= F + L - E
    /\ ~Near(i, E) => Behind(r, L)

LEMMA SmallU32 ==
    ASSUME CodeSizes, NEW n \in Nat, n < 4294967296
    PROVE  U32(n) = n
BY DEF CodeSizes, U32

LEMMA AlignUp ==
    ASSUME CodeSizes, NEW n \in Nat, NEW top \in Nat, top % 4096 = 0, n <= top, top < 4294967296
    PROVE  align_up(n) \in Nat /\ n <= align_up(n) /\ align_up(n) <= top /\ align_up(n) % 4096 = 0
<1>1. n % 4096 \in 0 .. 4095
  OBVIOUS
<1>2. FOUR_KB = 4096
  BY DEF CodeSizes
<1>3. CASE n % 4096 = 0
  BY <1>2, <1>3, SmallU32 DEF align_up
<1>4. CASE n % 4096 # 0
  <2>1. n + (4096 - (n % 4096)) <= top /\ n + (4096 - (n % 4096)) \in Nat /\ (n + (4096 - (n % 4096))) % 4096 = 0
    BY <1>1, <1>4, SMTT(60)
  <2>2. align_up(n) = U32(n + (4096 - (n % 4096)))
    BY <1>2, <1>4 DEF align_up
  <2> QED
    BY <2>1, <2>2, <1>1, <1>4, SmallU32
<1> QED
  BY <1>3, <1>4

LEMMA AlignDown ==
    ASSUME CodeSizes, NEW n \in Nat
    PROVE  align_down(n) \in Nat /\ align_down(n) <= n /\ align_down(n) % 4096 = 0 /\ (n % 4096 = 0 => align_down(n) = n)
BY DEF CodeSizes, align_down

\* Region keeps what fits into 32 bits.
LEMMA RegionIs ==
    ASSUME CodeSizes, NEW a \in Nat, NEW n \in Nat, a < 4294967296, n < 4294967296
    PROVE  Region(a, n) = [addr |-> a, len |-> n] /\ Region(a, n) \in Area
           /\ Region(a, n).addr = a /\ Region(a, n).len = n
BY SmallU32 DEF Region, Area

\* What the boot loader reports, when its map is regular and the entry k is the kernel's.
Boot(b, k, L, E, S, F) ==
    /\ b \in BootInfo /\ k \in DOMAIN b.entries
    /\ Layout(L, E, S, F)
    /\ b.kernel_end = E /\ b.fs_paddr = S /\ b.fs_paddr + b.fs_size = F
    /\ b.entries[k].available /\ b.entries[k].addr = 1048576 /\ b.entries[k].len = L
    /\ \A i \in DOMAIN b.entries :
          /\ \A j \in DOMAIN b.entries : i < j => b.entries[i].addr + b.entries[i].len <= b.entries[j].addr
          /\ b.entries[i].available /\ b.entries[i].addr >= 1048576 =>
                /\ b.entries[i].addr + b.entries[i].len < 4294967296
                /\ b.entries[i].addr % 4096 = 0 /\ b.entries[i].len % 4096 = 0

\* What fill_memory_map makes of an entry.
LEMMA EntryBelow ==
    ASSUME CodeSizes, NEW k, NEW L, NEW E, NEW S, NEW F, Boot(boot, k, L, E, S, F),
           NEW e, e.addr \in Nat, e.len \in Nat, e.addr + e.len <= 1048576
    PROVE  WithoutFs(WithoutKernel(e)) = <<>>
<1> DEFINE r == WithoutKernel(e)
<1>1. E \in Nat /\ boot.kernel_end = E /\ E < 4294967296
  BY DEF Boot, Layout
<1>2. e.addr \in Nat /\ e.len \in Nat /\ e.addr + e.len \in Nat
  OBVIOUS
<1>3. U32(e.addr) = e.addr /\ U32(e.len) = e.len /\ U32(e.addr + e.len) = e.addr + e.len /\ U32(E) = E
  BY <1>1, <1>2, SmallU32
<1>4. kernel_start = 1048576 /\ ONE_MB = 1048576
  BY DEF CodeSizes, kernel_start
<1>5. r.addr <= 1048576
  <2>1. CASE e.addr + e.len > E
    <3>1. r = Region(E, e.len - E)
      BY <1>1, <1>2, <1>3, <1>4, <2>1 DEF WithoutKernel
    <3>2. r.addr = E
      BY <1>3, <3>1 DEF Region
    <3> QED
      BY <1>1, <1>2, <2>1, <3>2
  <2>2. CASE ~(e.addr + e.len > E)
    <3>1. r = Region(e.addr, e.len)
      BY <1>1, <1>3, <2>2 DEF WithoutKernel
    <3>2. r.addr = e.addr
      BY <1>3, <3>1 DEF Region
    <3> QED
      BY <1>2, <3>2
  <2> QED
    BY <2>1, <2>2
<1> HIDE DEF r
<1>6. WithoutFs(r) = <<>>
  BY <1>4, <1>5 DEF WithoutFs
<1> QED
  BY <1>6 DEF r

LEMMA EntryOfKernel ==
    ASSUME CodeSizes, NEW k, NEW L, NEW E, NEW S, NEW F, Boot(boot, k, L, E, S, F),
           NEW e, e.addr \in Nat, e.len \in Nat, e.addr = 1048576, e.len = L
    PROVE  WithoutFs(WithoutKernel(e)) =
               IF E > 1048576 THEN <<[addr |-> E, len |-> S - E], [addr |-> F, len |-> L - E]>> ELSE <<>>
<1> DEFINE r == WithoutKernel(e)
<1>1. /\ E \in Nat /\ S \in Nat /\ F \in Nat /\ L \in Nat /\ E < S /\ S <= F /\ F < L /\ 1048576 + L < 4294967296
      /\ boot.kernel_end = E /\ boot.fs_paddr = S /\ boot.fs_paddr + boot.fs_size = F
  BY DEF Boot, Layout
<1>2. U32(1048576) = 1048576 /\ U32(L) = L /\ U32(1048576 + L) = 1048576 + L /\ U32(E) = E /\ U32(L - E) = L - E
      /\ U32(E + (L - E)) = E + (L - E) /\ U32(F) = F /\ U32(S - E) = S - E
  BY <1>1, SmallU32
<1>3. kernel_start = 1048576 /\ ONE_MB = 1048576
  BY DEF CodeSizes, kernel_start
<1>4. r = Region(E, L - E)
  <2>1. U32(e.addr) = 1048576 /\ U32(e.len) = L
    BY <1>2
  <2>2. 1048576 <= kernel_start /\ U32(1048576 + L) > E
    BY <1>1, <1>2, <1>3
  <2> QED
    BY <1>1, <2>1, <2>2 DEF WithoutKernel
<1>5. r = [addr |-> E, len |-> L - E]
  BY <1>2, <1>4 DEF Region
<1> HIDE DEF r
<1>6. CASE E > 1048576
  <2>1. WithoutFs(r) = <<Region(E, S - E), Region(F, L - E)>>
    BY <1>1, <1>2, <1>3, <1>5, <1>6 DEF WithoutFs
  <2>2. Region(E, S - E) = [addr |-> E, len |-> S - E] /\ Region(F, L - E) = [addr |-> F, len |-> L - E]
    BY <1>2 DEF Region
  <2> QED
    BY <1>6, <2>1, <2>2 DEF r
<1>7. CASE ~(E > 1048576)
  <2>1. WithoutFs(r) = <<>>
    BY <1>1, <1>3, <1>5, <1>7 DEF WithoutFs
  <2> QED
    BY <1>7, <2>1 DEF r
<1> QED
  BY <1>6, <1>7

LEMMA EntryBehind ==
    ASSUME CodeSizes, NEW k, NEW L, NEW E, NEW S, NEW F, Boot(boot, k, L, E, S, F),
           NEW e, e.addr \in Nat, e.len \in Nat, Behind(e, L)
    PROVE  WithoutFs(WithoutKernel(e)) = <<[addr |-> e.addr, len |-> e.len]>>
<1> DEFINE r == WithoutKernel(e)
<1>1. /\ E \in Nat /\ S \in Nat /\ F \in Nat /\ L \in Nat /\ E < S /\ S <= F /\ F < L /\ 1048576 + L < 4294967296
      /\ boot.kernel_end = E /\ boot.fs_paddr = S /\ boot.fs_paddr + boot.fs_size = F
  BY DEF Boot, Layout
<1>2. e.addr \in Nat /\ e.len \in Nat /\ e.addr >= 1048576 + L /\ e.addr + e.len < 4294967296
  BY DEF Behind
<1>3. U32(e.addr) = e.addr /\ U32(e.len) = e.len
  BY <1>2, SmallU32
<1>4. kernel_start = 1048576 /\ ONE_MB = 1048576
  BY DEF CodeSizes, kernel_start
<1>5. r = Region(e.addr, e.len)
  <2>1. ~(e.addr <= kernel_start)
    BY <1>1, <1>2, <1>4
  <2> QED
    BY <1>3, <2>1 DEF WithoutKernel
<1>6. r = [addr |-> e.addr, len |-> e.len]
  BY <1>3, <1>5 DEF Region
<1> HIDE DEF r
<1>7. ~(r.addr <= ONE_MB) /\ ~(r.addr < boot.fs_paddr)
  BY <1>1, <1>2, <1>4, <1>6
<1>8. WithoutFs(r) = <<r>>
  BY <1>7 DEF WithoutFs
<1> QED
  BY <1>6, <1>8 DEF r

\* The regions behind the two near the file system are sorted and disjoint.
Sorted(rs, E) == \A i, j \in DOMAIN rs : i < j /\ ~Near(i, E) => rs[i].addr + rs[i].len <= rs[j].addr

\* The region r is an available entry.
Reported(r, b) == \E j \in DOMAIN b.entries : /\ b.entries[j].available
                                             /\ b.entries[j].addr = r.addr /\ b.entries[j].len = r.len

\* fill_memory_map has made rs of the entries before n.
Filling(rs, n, b, k, L, E, S, F) ==
    /\ rs \in Seq(Area) /\ n \in Nat
    /\ n <= k => rs = <<>>
    /\ n > k /\ E > 1048576 => Len(rs) >= 2
    /\ \A i \in DOMAIN rs : Filled(rs[i], i, L, E, S, F)
    /\ Sorted(rs, E)
    /\ \A i \in DOMAIN rs : Near(i, E) \/ Reported(rs[i], b)
    /\ \A i \in DOMAIN rs, j \in DOMAIN b.entries :
          ~Near(i, E) /\ j >= n => rs[i].addr + rs[i].len <= b.entries[j].addr

\* An entry of a map.
LEMMA EntryIs ==
    ASSUME NEW b, NEW k, NEW L, NEW E, NEW S, NEW F, Boot(b, k, L, E, S, F)
    PROVE  /\ DOMAIN b.entries = 1 .. Len(b.entries) /\ Len(b.entries) \in Nat /\ k \in 1 .. Len(b.entries)
           /\ \A i \in DOMAIN b.entries : b.entries[i].addr \in Nat /\ b.entries[i].len \in Nat
<1>1. b.entries \in Seq(Entries) /\ k \in DOMAIN b.entries
  BY DEF Boot, BootInfo
<1> DEFINE s == b.entries
<1>2. s \in Seq(Entries) /\ k \in DOMAIN s
  BY <1>1
<1> HIDE DEF s
<1>3. DOMAIN s = 1 .. Len(s) /\ Len(s) \in Nat /\ \A i \in DOMAIN s : s[i] \in Entries
  BY <1>2
<1>4. \A i \in DOMAIN s : s[i].addr \in Nat /\ s[i].len \in Nat
  BY <1>3 DEF Entries
<1> QED
  BY <1>2, <1>3, <1>4 DEF s

\* An entry that leaves nothing, or is not available.
LEMMA FillsNothing ==
    ASSUME NEW rs, NEW n, NEW b, NEW k, NEW L, NEW E, NEW S, NEW F,
           Boot(b, k, L, E, S, F), Filling(rs, n, b, k, L, E, S, F), n # k \/ E <= 1048576
    PROVE  Filling(rs, n + 1, b, k, L, E, S, F)
<1>0. k \in Nat /\ DOMAIN b.entries \subseteq Nat
  BY EntryIs
<1>1. k \in Nat /\ n \in Nat /\ E \in Nat /\ DOMAIN b.entries \subseteq Nat
  BY <1>0 DEF Filling, Boot, Layout
<1>2. (n + 1 <= k => n <= k) /\ (n + 1 > k /\ E > 1048576 => n > k)
  BY <1>1
<1>3. \A j \in DOMAIN b.entries : j >= n + 1 => j >= n
  BY <1>1
<1>4. n + 1 \in Nat
  BY <1>1
<1> QED
  BY <1>2, <1>3, <1>4 DEF Filling

\* The regions in front of and behind the file system that the kernel's entry leaves.
AroundFs(t, L, E, S, F) == t = <<[addr |-> E, len |-> S - E], [addr |-> F, len |-> L - E]>>

\* The kernel's entry leaves the two regions near the file system.
LEMMA FillsTwo ==
    ASSUME NEW rs, NEW b, NEW k, NEW L, NEW E, NEW S, NEW F,
           Boot(b, k, L, E, S, F), Filling(rs, k, b, k, L, E, S, F), E > 1048576,
           NEW t, AroundFs(t, L, E, S, F)
    PROVE  rs \o t = t /\ Filling(t, k + 1, b, k, L, E, S, F)
<1> DEFINE r == [addr |-> E, len |-> S - E]
           q == [addr |-> F, len |-> L - E]
<1>0. k \in Nat
  BY EntryIs
<1>1. /\ E \in Nat /\ S \in Nat /\ F \in Nat /\ L \in Nat /\ E < S /\ S <= F /\ F < L
      /\ k \in Nat
  BY <1>0 DEF Boot, Layout
<1>2. rs = <<>>
  BY <1>1 DEF Filling
<1>3. r \in Area /\ q \in Area /\ r.addr = E /\ r.len = S - E /\ q.addr = F /\ q.len = L - E
  BY <1>1 DEF Area
<1>11. t = <<r, q>>
  BY DEF AroundFs
<1> HIDE DEF r, q
<1>4. t \in Seq(Area) /\ Len(t) = 2 /\ DOMAIN t = 1 .. 2 /\ t[1] = r /\ t[2] = q
  BY <1>3, <1>11
<1>5. rs \o t = t
  BY <1>2, <1>4
<1>6. \A i \in DOMAIN t : i = 1 \/ i = 2
  BY <1>4
<1>7. Near(1, E) /\ Near(2, E) /\ \A i \in DOMAIN t : Near(i, E)
  BY <1>6 DEF Near
<1>8. \A i \in DOMAIN t : Filled(t[i], i, L, E, S, F)
  BY <1>3, <1>4, <1>6, <1>7 DEF Filled
<1>9. k + 1 \in Nat /\ ~(k + 1 <= k) /\ Len(t) >= 2
  BY <1>1, <1>4
<1>10. Filling(t, k + 1, b, k, L, E, S, F)
  BY <1>4, <1>7, <1>8, <1>9 DEF Filling, Sorted
<1> QED
  BY <1>5, <1>10

\* An entry behind the kernel's is a region.
LEMMA FillsOne ==
    ASSUME NEW rs, NEW n, NEW b, NEW k, NEW L, NEW E, NEW S, NEW F,
           Boot(b, k, L, E, S, F), Filling(rs, n, b, k, L, E, S, F), n \in DOMAIN b.entries, b.entries[n].available, n > k,
           NEW r, r = [addr |-> b.entries[n].addr, len |-> b.entries[n].len]
    PROVE  Behind(b.entries[n], L) /\ Filling(rs \o <<r>>, n + 1, b, k, L, E, S, F)
<1> DEFINE e == b.entries[n]
           t == Append(rs, r)
<1>1. /\ E \in Nat /\ L \in Nat /\ k \in Nat /\ n \in Nat /\ k \in DOMAIN b.entries /\ DOMAIN b.entries \subseteq Nat
      /\ rs \in Seq(Area)
  <2>1. k \in Nat /\ DOMAIN b.entries \subseteq Nat
    BY EntryIs
  <2> QED
    BY <2>1 DEF Boot, Layout, Filling
<1>2. /\ \A j \in DOMAIN b.entries : b.entries[j].addr \in Nat /\ b.entries[j].len \in Nat
      /\ e.addr \in Nat /\ e.len \in Nat
  BY EntryIs
<1>4. 1048576 + L <= e.addr /\ 1048576 <= e.addr
  <2>1. 1048576 + L <= e.addr
    BY <1>1 DEF Boot
  <2> QED
    BY <1>1, <1>2, <2>1
<1>3. /\ e.addr + e.len < 4294967296 /\ e.addr % 4096 = 0 /\ e.len % 4096 = 0
      /\ \A j \in DOMAIN b.entries : n < j => e.addr + e.len <= b.entries[j].addr
  BY <1>2, <1>4 DEF Boot
<1>5. Behind(e, L)
  BY <1>3, <1>4, <1>1, <1>2 DEF Behind
<1>6. r \in Area /\ r.addr = e.addr /\ r.len = e.len
  BY <1>2 DEF Area
<1>7. /\ t \in Seq(Area) /\ Len(t) = Len(rs) + 1 /\ DOMAIN t = 1 .. Len(t) /\ t[Len(rs) + 1] = r
      /\ \A i \in DOMAIN rs : t[i] = rs[i]
      /\ DOMAIN rs = 1 .. Len(rs) /\ Len(rs) \in Nat /\ rs \o <<r>> = t
  BY <1>1, <1>6
<1> HIDE DEF t
<1>8. \A i \in DOMAIN t : i \in Nat /\ (i \in DOMAIN rs \/ i = Len(rs) + 1)
  BY <1>7
<1>9. \A i \in DOMAIN rs : Filled(rs[i], i, L, E, S, F) /\ rs[i].addr \in Nat /\ rs[i].len \in Nat
  BY DEF Filling, Filled, Area
<1>10. ~Near(Len(rs) + 1, E)
  BY <1>1, <1>7 DEF Near, Filling
<1>11. Behind(r, L)
  BY <1>5, <1>6 DEF Behind
<1>12. \A i \in DOMAIN t : Filled(t[i], i, L, E, S, F)
  BY <1>6, <1>7, <1>8, <1>9, <1>10, <1>11 DEF Filled, Near
<1>13. Sorted(t, E)
  <2> SUFFICES ASSUME NEW i \in DOMAIN t, NEW j \in DOMAIN t, i < j, ~Near(i, E)
               PROVE  t[i].addr + t[i].len <= t[j].addr
    BY DEF Sorted
  <2>1. i \in DOMAIN rs
    BY <1>7, <1>8
  <2>2. CASE j \in DOMAIN rs
    BY <1>7, <2>1, <2>2 DEF Filling, Sorted
  <2>3. CASE j = Len(rs) + 1
    <3>1. n >= n
      BY <1>1
    <3>2. rs[i].addr + rs[i].len <= e.addr
      BY <2>1, <3>1 DEF Filling
    <3> QED
      BY <1>6, <1>7, <2>1, <2>3, <3>2
  <2> QED
    BY <1>8, <2>2, <2>3
<1>14. \A i \in DOMAIN t, j \in DOMAIN b.entries :
          ~Near(i, E) /\ j >= n + 1 => t[i].addr + t[i].len <= b.entries[j].addr
  <2> SUFFICES ASSUME NEW i \in DOMAIN t, NEW j \in DOMAIN b.entries, ~Near(i, E), j >= n + 1
               PROVE  t[i].addr + t[i].len <= b.entries[j].addr
    OBVIOUS
  <2>1. j >= n /\ n < j
    BY <1>1
  <2>2. CASE i \in DOMAIN rs
    BY <1>7, <2>1, <2>2 DEF Filling
  <2>3. CASE i = Len(rs) + 1
    BY <1>3, <1>6, <1>7, <2>1, <2>3
  <2> QED
    BY <1>8, <2>2, <2>3
<1>15. n + 1 \in Nat /\ ~(n + 1 <= k)
  BY <1>1
<1>16. n + 1 > k /\ E > 1048576 => Len(t) >= 2
  BY <1>1, <1>7 DEF Filling
<1>17. \A i \in DOMAIN t : Near(i, E) \/ Reported(t[i], b)
  <2>1. Reported(r, b)
    BY <1>6 DEF Reported
  <2> QED
    BY <1>7, <1>8, <2>1 DEF Filling
<1>18. Filling(t, n + 1, b, k, L, E, S, F)
  BY <1>7, <1>12, <1>13, <1>14, <1>15, <1>16, <1>17 DEF Filling
<1> QED
  BY <1>5, <1>7, <1>18


\* The map that pfa_init leaves to construct_bitmap.
Evened(rs, b, L, E, S, F) ==
    /\ rs \in Seq(Area)
    /\ \A i \in DOMAIN rs : Even(rs[i], i, L, E, S, F)
    /\ Sorted(rs, E)
    /\ \A i \in DOMAIN rs : Near(i, E) \/ Reported(rs[i], b)

LEMMA AlignedIs ==
    ASSUME CodeSizes, NEW L, NEW E, NEW S, NEW F, Layout(L, E, S, F),
           NEW i \in Nat \ {0}, NEW r, Filled(r, i, L, E, S, F)
    PROVE  /\ Even(Aligned(r), i, L, E, S, F)
           /\ ~Near(i, E) => Aligned(r).addr = r.addr /\ Aligned(r).len = r.len
<1>1. /\ E \in Nat /\ S \in Nat /\ F \in Nat /\ L \in Nat /\ E < S /\ S <= F /\ F < L /\ 1048576 + L < 4294967296
      /\ S % 4096 = 0 /\ L % 4096 = 0
  BY DEF Layout
<1>2. r \in Area /\ r.addr \in Nat /\ r.len \in Nat
  BY DEF Filled, Area
<1> DEFINE up == align_up(r.addr)
           n == r.len - (up - r.addr)
           down == align_down(n)
<1>3. ASSUME up \in Nat, n \in Nat, up < 4294967296, n < 4294967296
      PROVE  /\ Aligned(r) \in Area /\ Aligned(r).addr = up /\ Aligned(r).len = down
             /\ down \in Nat /\ down <= n /\ down % 4096 = 0 /\ (n % 4096 = 0 => down = n)
  <2> HIDE DEF up, n
  <2>1. down \in Nat /\ down <= n /\ down % 4096 = 0 /\ (n % 4096 = 0 => down = n)
    BY <1>3, AlignDown
  <2>2. U32(n) = n
    BY <1>3, SmallU32
  <2>3. Aligned(r) = Region(up, down)
    BY <2>2 DEF Aligned, up, n
  <2> HIDE DEF down
  <2> QED
    BY <1>3, <2>1, <2>3, RegionIs
<1>4. CASE Near(i, E) /\ i = 1
  <2>1. r.addr = E /\ r.len = S - E
    BY <1>4 DEF Filled
  <2>2. up \in Nat /\ E <= up /\ up <= S /\ up % 4096 = 0
    BY <1>1, <2>1, AlignUp, SMTT(60)
  <2> HIDE DEF up
  <2>3. n = S - up /\ n \in Nat /\ n % 4096 = 0 /\ n < 4294967296 /\ up < 4294967296
    BY <1>1, <2>1, <2>2
  <2> HIDE DEF n, down
  <2>4. Aligned(r) \in Area /\ Aligned(r).addr = up /\ Aligned(r).len = S - up /\ Aligned(r).len % 4096 = 0
    BY <1>3, <2>2, <2>3
  <2>5. up + (S - up) = S
    BY <1>1, <2>2
  <2> QED
    BY <1>4, <2>2, <2>4, <2>5 DEF Even
<1>5. CASE Near(i, E) /\ i = 2
  <2>1. r.addr = F /\ r.len = L - E
    BY <1>5 DEF Filled
  <2>2. up \in Nat /\ F <= up /\ up <= L
    BY <1>1, <2>1, AlignUp
  <2> HIDE DEF up
  <2>3. n = L - E - (up - F) /\ n \in Nat /\ n < 4294967296 /\ up < 4294967296
    BY <1>1, <2>1, <2>2
  <2> HIDE DEF n, down
  <2>4. Aligned(r) \in Area /\ Aligned(r).addr = up /\ Aligned(r).len = down /\ down \in Nat /\ down <= n /\ down % 4096 = 0
    BY <1>3, <2>2, <2>3
  <2>5. up + down <= F + L - E
    BY <1>1, <2>2, <2>3, <2>4
  <2> QED
    BY <1>5, <2>2, <2>4, <2>5 DEF Even
<1>6. CASE ~Near(i, E)
  <2>1. Behind(r, L) /\ r.addr + r.len < 4294967296 /\ r.addr % 4096 = 0 /\ r.len % 4096 = 0
    BY <1>6 DEF Filled, Behind
  <2>2. r.addr < 4294967296 /\ r.addr <= r.addr
    BY <1>2, <2>1
  <2>3. up \in Nat /\ r.addr <= up /\ up <= r.addr
    BY <1>2, <2>1, <2>2, AlignUp
  <2> HIDE DEF up
  <2>4. up = r.addr
    BY <1>2, <2>3
  <2>5. n = r.len /\ n < 4294967296
    BY <1>2, <2>1, <2>4
  <2> HIDE DEF n, down
  <2>6. Aligned(r) \in Area /\ Aligned(r).addr = r.addr /\ Aligned(r).len = r.len
    BY <1>2, <1>3, <2>1, <2>2, <2>4, <2>5
  <2>7. Behind(Aligned(r), L)
    BY <2>1, <2>6 DEF Behind
  <2> QED
    BY <1>6, <2>1, <2>6, <2>7 DEF Even
<1>7. Near(i, E) => i = 1 \/ i = 2
  BY DEF Near
<1> QED
  BY <1>4, <1>5, <1>6, <1>7

\* pfa_init's loop makes an even map.
LEMMA Evens ==
    ASSUME CodeSizes, NEW rs, NEW n, NEW b, NEW k, NEW L, NEW E, NEW S, NEW F,
           Boot(b, k, L, E, S, F), Filling(rs, n, b, k, L, E, S, F),
           NEW t, t = [i \in DOMAIN rs |-> Aligned(rs[i])]
    PROVE  Evened(t, b, L, E, S, F)
<1>1. Layout(L, E, S, F)
  BY DEF Boot
<1>2. rs \in Seq(Area) /\ DOMAIN rs = 1 .. Len(rs) /\ Len(rs) \in Nat
  BY DEF Filling
<1>3. ASSUME NEW i \in DOMAIN rs
      PROVE  /\ Even(t[i], i, L, E, S, F)
             /\ ~Near(i, E) => t[i].addr = rs[i].addr /\ t[i].len = rs[i].len
  <2>1. Filled(rs[i], i, L, E, S, F)
    BY DEF Filling
  <2>2. i \in Nat \ {0} /\ t[i] = Aligned(rs[i])
    BY <1>2
  <2> QED
    BY <1>1, <2>1, <2>2, AlignedIs
<1>4. DOMAIN t = DOMAIN rs
  OBVIOUS
<1>5. t \in Seq(Area)
  <2>1. \A i \in DOMAIN rs : t[i] \in Area
    BY <1>3 DEF Even
  <2>2. t \in [1 .. Len(rs) -> Area]
    BY <1>2, <2>1
  <2> QED
    BY <1>2, <2>2
<1>6. Sorted(t, E)
  <2> SUFFICES ASSUME NEW i \in DOMAIN rs, NEW j \in DOMAIN rs, i < j, ~Near(i, E)
               PROVE  t[i].addr + t[i].len <= t[j].addr
    BY <1>4 DEF Sorted
  <2>1. rs[i].addr + rs[i].len <= rs[j].addr
    BY DEF Filling, Sorted
  <2>2. ~Near(j, E)
    BY <1>2 DEF Near
  <2> QED
    BY <1>3, <2>1, <2>2
<1>7. \A i \in DOMAIN t : Near(i, E) \/ Reported(t[i], b)
  <2> SUFFICES ASSUME NEW i \in DOMAIN rs, ~Near(i, E)
               PROVE  Reported(t[i], b)
    BY <1>4
  <2>1. Reported(rs[i], b)
    BY DEF Filling
  <2> QED
    BY <1>3, <2>1 DEF Reported
<1> QED
  BY <1>3, <1>4, <1>5, <1>6, <1>7 DEF Evened


-----------------------------------------------------------------------------
(***************************************************************************)
(* construct_bitmap.                                                       *)
(***************************************************************************)
\* The loop has counted the frames of the regions before n: no more than fit into the two
\* regions near the file system and the memory below the next region, ...
InMemory(rs, n, total, L, E) ==
    /\ n = 1 => total = 0
    /\ Near(n, E) => 4096 * total <= L
    /\ \A i \in DOMAIN rs : i >= n /\ ~Near(i, E) => 4096 * total <= 2 * L + rs[i].addr
    /\ 4096 * total <= 2 * L + 4294967296

\* ... and no fewer than any two of these regions have.
OfTwo(rs, n, total) ==
    /\ \A i \in DOMAIN rs : i < n => rs[i].len <= 4096 * total
    /\ \A i, j \in DOMAIN rs : i < j /\ j < n => rs[i].len + rs[j].len <= 4096 * total

Counted(rs, n, total, L, E) ==
    n \in Nat \ {0} /\ total \in Nat /\ InMemory(rs, n, total, L, E) /\ OfTwo(rs, n, total)

LEMMA Counts ==
    ASSUME CodeSizes, NEW rs, NEW n, NEW total, NEW b, NEW L, NEW E, NEW S, NEW F, Layout(L, E, S, F),
           Evened(rs, b, L, E, S, F), Counted(rs, n, total, L, E), n \in DOMAIN rs,
           NEW sum, sum = U32(total + rs[n].len \div FOUR_KB)
    PROVE  Counted(rs, n + 1, sum, L, E)
<1>1. /\ E \in Nat /\ S \in Nat /\ F \in Nat /\ L \in Nat /\ E < S /\ S <= F /\ F < L /\ 1048576 + L < 4294967296
  BY DEF Layout
<1>2. DOMAIN rs \subseteq Nat \ {0} /\ n \in Nat \ {0} /\ total \in Nat
  BY DEF Evened, Counted
<1>3. \A i \in DOMAIN rs : rs[i].addr \in Nat /\ rs[i].len \in Nat /\ rs[i].len % 4096 = 0
  BY DEF Evened, Even, Area
<1>4. rs[n].len < 4294967296
  <2>1. CASE Near(n, E) /\ n = 1
    BY <1>1, <1>3, <2>1, SMTT(60) DEF Evened, Even
  <2>2. CASE Near(n, E) /\ n = 2
    <3>1. F <= rs[n].addr /\ rs[n].addr + rs[n].len <= F + L - E
      BY <2>2 DEF Evened, Even
    <3> QED
      BY <1>1, <1>3, <3>1
  <2>3. CASE ~Near(n, E)
    <3>1. Behind(rs[n], L)
      BY <2>3 DEF Evened, Even
    <3> QED
      BY <1>3, <3>1 DEF Behind
  <2> QED
    BY <1>2, <2>1, <2>2, <2>3 DEF Near
<1>5. sum \in Nat /\ 4096 * sum = 4096 * total + rs[n].len
  <2> DEFINE l == rs[n].len
  <2>1. l \in Nat /\ l % 4096 = 0 /\ l < 4294967296
    BY <1>3, <1>4
  <2>2. 4096 * total <= 2 * L + 4294967296
    BY DEF Counted, InMemory
  <2> HIDE DEF l
  <2>3. l \div 4096 \in Nat /\ 4096 * (l \div 4096) = l
    BY <2>1
  <2>4. total + l \div 4096 \in Nat /\ total + l \div 4096 < 4294967296
    BY <1>1, <1>2, <2>1, <2>2, <2>3
  <2>5. sum = total + l \div 4096
    BY <2>4, SmallU32 DEF CodeSizes, l
  <2> QED
    BY <1>2, <2>3, <2>5 DEF l
<1>6. InMemory(rs, n + 1, sum, L, E)
  <2>1. ~(n + 1 = 1)
    BY <1>2
  <2>2. CASE Near(n, E) /\ n = 1
    <3>1. total = 0 /\ rs[n].len <= L
      <4>1. E <= rs[n].addr /\ rs[n].addr + rs[n].len = S /\ total = 0
        BY <2>2 DEF Evened, Even, Counted, InMemory
      <4> QED
        BY <1>1, <1>3, <4>1
    <3>2. 4096 * sum <= L
      BY <1>1, <1>2, <1>3, <1>5, <3>1
    <3> QED
      BY <1>1, <1>3, <1>5, <2>1, <3>2 DEF InMemory
  <2>3. CASE Near(n, E) /\ n = 2
    <3>1. 4096 * total <= L /\ F <= rs[n].addr /\ rs[n].addr + rs[n].len <= F + L - E
      BY <2>3 DEF Evened, Even, Counted, InMemory
    <3>2. 4096 * sum <= 2 * L
      BY <1>1, <1>2, <1>3, <1>5, <3>1
    <3>3. ~Near(n + 1, E)
      BY <2>3 DEF Near
    <3> QED
      BY <1>1, <1>3, <1>5, <2>1, <3>2, <3>3 DEF InMemory
  <2>4. CASE ~Near(n, E)
    <3>1. n >= n
      BY <1>2
    <3>2. 4096 * total <= 2 * L + rs[n].addr
      BY <2>4, <3>1 DEF Counted, InMemory
    <3>3. rs[n].addr + rs[n].len < 4294967296
      BY <2>4 DEF Evened, Even, Behind
    <3>4. ~Near(n + 1, E)
      BY <1>2, <2>4 DEF Near
    <3>5. ASSUME NEW i \in DOMAIN rs, i >= n + 1
          PROVE  4096 * sum <= 2 * L + rs[i].addr
      <4>1. n < i
        BY <1>2, <3>5
      <4>2. rs[n].addr + rs[n].len <= rs[i].addr
        BY <2>4, <4>1 DEF Evened, Sorted
      <4> QED
        BY <1>1, <1>2, <1>3, <1>5, <3>2, <4>2
    <3>6. 4096 * sum <= 2 * L + 4294967296
      BY <1>1, <1>2, <1>3, <1>5, <3>2, <3>3
    <3> QED
      BY <2>1, <3>4, <3>5, <3>6 DEF InMemory
  <2> QED
    BY <1>2, <2>2, <2>3, <2>4 DEF Near
<1>7. OfTwo(rs, n + 1, sum)
  <2>1. ASSUME NEW i \in DOMAIN rs, i < n
        PROVE  rs[i].len <= 4096 * total
    BY <2>1 DEF Counted, OfTwo
  <2>2. ASSUME NEW i \in DOMAIN rs, i < n + 1
        PROVE  rs[i].len <= 4096 * sum
    <3>1. CASE i < n
      BY <1>2, <1>3, <1>5, <2>1, <3>1
    <3>2. CASE i = n
      BY <1>2, <1>3, <1>5, <3>2
    <3> QED
      BY <1>2, <2>2, <3>1, <3>2
  <2>3. ASSUME NEW i \in DOMAIN rs, NEW j \in DOMAIN rs, i < j, j < n + 1
        PROVE  rs[i].len + rs[j].len <= 4096 * sum
    <3>1. CASE j < n
      <4>1. rs[i].len + rs[j].len <= 4096 * total
        BY <2>3, <3>1 DEF Counted, OfTwo
      <4> QED
        BY <1>2, <1>3, <1>5, <4>1
    <3>2. CASE j = n
      BY <1>2, <1>3, <1>5, <2>1, <2>3, <3>2
    <3> QED
      BY <1>2, <2>3, <3>1, <3>2
  <2> QED
    BY <2>2, <2>3 DEF OfTwo
<1>8. n + 1 \in Nat \ {0}
  BY <1>2
<1> QED
  BY <1>5, <1>6, <1>7, <1>8 DEF Counted

\* The pages of a bitmap: they hold a bit for every frame, and are few.
LEMMA BitmapPages ==
    ASSUME CodeSizes, total_pfs \in Nat, total_pfs # 0, total_pfs <= 3145728
    PROVE  /\ bitmap_pfs \in Nat /\ bitmap_pfs >= 1 /\ bitmap_pfs <= 96 /\ bitmap_pfs <= total_pfs
           /\ total_pfs <= 32768 * bitmap_pfs
<1> DEFINE bytes == (total_pfs - 1) \div 8 + 1
<1>1. bytes \in Nat /\ bytes >= 1 /\ 8 * bytes >= total_pfs /\ 8 * bytes <= total_pfs + 7
  OBVIOUS
<1>2. U32(total_pfs - 1) = total_pfs - 1
  BY SmallU32
<1>3. div_ceil32(total_pfs, BYTE) = bytes
  BY <1>2 DEF div_ceil32, CodeSizes
<1> HIDE DEF bytes
<1>4. U32(bytes - 1) = bytes - 1
  BY <1>1, SmallU32
<1>5. bitmap_pfs = (bytes - 1) \div 4096 + 1
  BY <1>3, <1>4 DEF bitmap_pfs, div_ceil32, CodeSizes
<1> QED
  BY <1>1, <1>5

\* No frames counted ask for a bitmap of a page or more.
LEMMA BitmapOfNone ==
    ASSUME CodeSizes, total_pfs = 0
    PROVE  bitmap_pfs \in Nat /\ bitmap_pfs >= 1
<1>1. ASSUME NEW n \in Int, NEW den \in Nat \ {0}
      PROVE  div_ceil32(n, den) \in Nat /\ div_ceil32(n, den) >= 1
  <2> DEFINE m == U32(n - 1)
  <2>1. m \in Nat
    BY DEF U32, CodeSizes
  <2> HIDE DEF m
  <2>2. m \div den \in Nat
    BY <2>1
  <2>3. div_ceil32(n, den) = m \div den + 1
    BY DEF div_ceil32, m
  <2> QED
    BY <2>2, <2>3
<1>2. BYTE \in Nat \ {0} /\ FOUR_KB \in Nat \ {0} /\ total_pfs \in Int
  BY DEF CodeSizes
<1>3. div_ceil32(total_pfs, BYTE) \in Int
  BY <1>1, <1>2
<1> QED
  BY <1>1, <1>2, <1>3 DEF bitmap_pfs

\* The bytes of the bitmap lie in its pages.
LEMMA BitmapBytes ==
    ASSUME CodeSizes, NEW frames \in Nat, NEW p \in Nat, frames # 0, frames <= 32768 * p, frames <= 3145728
    PROVE  div_ceil32(frames, BYTE) \in Nat /\ div_ceil32(frames, BYTE) <= 4096 * p
<1>1. U32(frames - 1) = frames - 1
  BY SmallU32
<1>2. div_ceil32(frames, BYTE) = (frames - 1) \div 8 + 1
  BY <1>1 DEF div_ceil32, CodeSizes
<1> QED
  BY <1>2


\* A region of an even map fits into 32 bits, lies behind the kernel, and on one side of the file system.
LEMMA EvenIs ==
    ASSUME NEW L, NEW E, NEW S, NEW F, Layout(L, E, S, F), NEW i \in Nat \ {0}, NEW r, Even(r, i, L, E, S, F)
    PROVE  /\ r.addr \in Nat /\ r.len \in Nat /\ r.len < 4294967296
           /\ \A c \in Nat : c <= r.len /\ c <= 1048576 => r.addr + c < 4294967296
           /\ r.addr >= E /\ (r.addr + r.len <= S \/ r.addr >= F)
<1>1. /\ E \in Nat /\ S \in Nat /\ F \in Nat /\ L \in Nat /\ E < S /\ S <= F /\ F < L /\ 1048576 + L < 4294967296
  BY DEF Layout
<1>2. r.addr \in Nat /\ r.len \in Nat
  BY DEF Even, Area
<1>3. CASE Near(i, E) /\ i = 1
  <2>1. E <= r.addr /\ r.addr + r.len = S
    BY <1>3 DEF Even
  <2> QED
    BY <1>1, <1>2, <2>1
<1>4. CASE Near(i, E) /\ i = 2
  <2>1. F <= r.addr /\ r.addr <= L /\ r.addr + r.len <= F + L - E
    BY <1>4 DEF Even
  <2> QED
    BY <1>1, <1>2, <2>1
<1>5. CASE ~Near(i, E)
  <2>1. r.addr >= 1048576 + L /\ r.addr + r.len < 4294967296
    BY <1>5 DEF Even, Behind
  <2> QED
    BY <1>1, <1>2, <2>1
<1> QED
  BY <1>3, <1>4, <1>5 DEF Near

\* The begin of a region, up to a megabyte of it, ends before the next region; the whole region
\* does when there is room for what the one behind the file system has too much.
BeginsApart(rs) == \A p, q \in DOMAIN rs : \A m \in Nat :
    p < q /\ m <= rs[p].len /\ m <= 1048576 => rs[p].addr + m <= rs[q].addr
AllApart(rs) == \A p, q \in DOMAIN rs : p < q => rs[p].addr + rs[p].len <= rs[q].addr

Roomy(rs, L, E, F) == \A q \in DOMAIN rs : ~Near(q, E) => rs[q].addr >= L + F - E

LEMMA Apart ==
    ASSUME NEW b, NEW L, NEW E, NEW S, NEW F, Layout(L, E, S, F), NEW rs, Evened(rs, b, L, E, S, F)
    PROVE  BeginsApart(rs) /\ (Roomy(rs, L, E, F) => AllApart(rs))
<1>0. ASSUME NEW p \in DOMAIN rs, NEW q \in DOMAIN rs, p < q
      PROVE  /\ rs[p].addr \in Nat /\ rs[p].len \in Nat /\ rs[q].addr \in Nat
             /\ rs[p].addr + rs[p].len <= rs[q].addr \/ rs[p].addr + 1048576 <= rs[q].addr
             /\ Roomy(rs, L, E, F) => rs[p].addr + rs[p].len <= rs[q].addr
  <2>1. /\ E \in Nat /\ S \in Nat /\ F \in Nat /\ L \in Nat /\ E < S /\ S <= F /\ F < L /\ 1048576 + L < 4294967296
    BY DEF Layout
  <2>2. DOMAIN rs \subseteq Nat \ {0}
    BY DEF Evened
  <2>3. /\ rs[p].addr \in Nat /\ rs[p].len \in Nat /\ rs[q].addr \in Nat
        /\ Even(rs[p], p, L, E, S, F) /\ Even(rs[q], q, L, E, S, F)
    BY SMTT(60) DEF Evened, Even, Area
  <2>4. ~Near(q, E) => rs[q].addr >= 1048576 + L
    BY <2>3 DEF Even, Behind
  <2>5. CASE Near(p, E) /\ p = 1
    <3>1. rs[p].addr + rs[p].len = S
      BY <2>3, <2>5 DEF Even
    <3>2. Near(q, E) => rs[q].addr >= F
      <4>1. Near(q, E) => q = 2
        BY <1>0, <2>2, <2>5 DEF Near
      <4> QED
        BY <2>3, <4>1 DEF Even
    <3> QED
      BY <2>1, <2>3, <2>4, <3>1, <3>2
  <2>6. CASE Near(p, E) /\ p = 2
    <3>1. rs[p].addr <= L /\ rs[p].addr + rs[p].len <= F + L - E
      BY <2>3, <2>6 DEF Even
    <3>2. ~Near(q, E)
      BY <1>0, <2>2, <2>6 DEF Near
    <3>3. Roomy(rs, L, E, F) => rs[q].addr >= L + F - E
      BY <3>2 DEF Roomy
    <3> QED
      BY <2>1, <2>3, <2>4, <3>1, <3>2, <3>3
  <2>7. CASE ~Near(p, E)
    <3>1. rs[p].addr + rs[p].len <= rs[q].addr
      BY <1>0, <2>7 DEF Evened, Sorted
    <3> QED
      BY <2>3, <3>1
  <2> QED
    BY <2>2, <2>5, <2>6, <2>7 DEF Near
<1>1. BeginsApart(rs)
  <2> SUFFICES ASSUME NEW p \in DOMAIN rs, NEW q \in DOMAIN rs, NEW m \in Nat, p < q, m <= rs[p].len, m <= 1048576
               PROVE  rs[p].addr + m <= rs[q].addr
    BY DEF BeginsApart
  <2> QED
    BY <1>0
<1> QED
  BY <1>0, <1>1 DEF AllApart

\* The bitmap lies in the first region that has room for it, and no region has its frames.
Taken(rs, i, c, t, paddr) ==
    /\ i \in DOMAIN rs /\ DOMAIN t = DOMAIN rs /\ paddr = rs[i].addr
    /\ rs[i].len >= c /\ \A j \in DOMAIN rs : j < i => rs[j].len < c
    /\ \A j \in DOMAIN rs : j # i => t[j] = rs[j]
    /\ t[i].addr = rs[i].addr + c /\ t[i].len = rs[i].len - c

LEMMA Takes ==
    ASSUME CodeSizes, NEW b, NEW L, NEW E, NEW S, NEW F, Layout(L, E, S, F),
           Evened(regions, b, L, E, S, F), Counted(regions, entry, total_pfs, L, E), entry > Len(regions),
           NEW room \in DOMAIN regions, HasRoom(regions[room]), TakeBitmap,
           NEW frames, frames = U32(total_pfs - bitmap_pfs)
    PROVE  \E p \in Nat, i \in DOMAIN regions :
              /\ p >= 1 /\ p <= 96 /\ p <= total_pfs /\ total_pfs <= 32768 * p /\ total_pfs <= 3145728
              /\ frames = total_pfs - p
              /\ Taken(regions, i, 4096 * p, regions', bitmap_paddr')
<1>1. E \in Nat /\ L \in Nat /\ L < 4294967296
  BY DEF Layout
<1>2. DOMAIN regions = 1 .. Len(regions) /\ Len(regions) \in Nat /\ total_pfs \in Nat /\ entry \in Nat
  BY DEF Evened, Counted
<1>3. \A i \in DOMAIN regions : /\ i \in Nat \ {0} /\ i < entry /\ Even(regions[i], i, L, E, S, F)
                                /\ regions[i].addr \in Nat /\ regions[i].len \in Nat
  BY <1>2, SMTT(60) DEF Evened, Even, Area
<1> DEFINE p == bitmap_pfs
<1>4. total_pfs # 0
  <2> SUFFICES ASSUME total_pfs = 0 PROVE FALSE
    OBVIOUS
  <2>1. p \in Nat /\ p >= 1
    BY BitmapOfNone
  <2> HIDE DEF p
  <2>2. regions[room].len <= 4096 * total_pfs
    BY <1>3 DEF Counted, OfTwo
  <2>3. regions[room].len >= p * 4096
    BY DEF HasRoom, p, CodeSizes
  <2> QED
    BY <1>3, <2>1, <2>2, <2>3
<1>5. total_pfs <= 3145728
  <2>1. 4096 * total_pfs <= 2 * L + 4294967296
    BY DEF Counted, InMemory
  <2> QED
    BY <1>1, <1>2, <2>1
<1>6. p \in Nat /\ p >= 1 /\ p <= 96 /\ p <= total_pfs /\ total_pfs <= 32768 * p
  BY <1>2, <1>4, <1>5, BitmapPages
<1>7. frames = total_pfs - p
  <2> HIDE DEF p
  <2>1. total_pfs - p \in Nat /\ total_pfs - p < 4294967296
    BY <1>2, <1>5, <1>6
  <2>2. frames = U32(total_pfs - p)
    BY DEF p
  <2> QED
    BY <2>1, <2>2, SmallU32
<1> DEFINE First(i) == HasRoom(regions[i]) /\ \A j \in DOMAIN regions : j < i => ~HasRoom(regions[j])
           i == CHOOSE n \in DOMAIN regions : First(n)
           c == 4096 * p
<1>8. i \in DOMAIN regions /\ First(i)
  <2> DEFINE T == {n \in DOMAIN regions : HasRoom(regions[n])}
  <2>1. T \in SUBSET Nat /\ T # {}
    BY <1>3
  <2>2. PICK n \in T : \A m \in T : n <= m
    BY <2>1, Smallest
  <2>3. \A m \in DOMAIN regions : m < n => ~HasRoom(regions[m])
    BY <1>3, <2>2
  <2>4. First(n) /\ n \in DOMAIN regions
    BY <2>2, <2>3
  <2> HIDE DEF First
  <2> QED
    BY <2>4
<1> DEFINE r == Region(regions[i].addr + p * FOUR_KB, regions[i].len - p * FOUR_KB)
<1>9. bitmap_paddr' = regions[i].addr /\ regions' = [regions EXCEPT ![i] = r]
  BY DEF TakeBitmap
<1> HIDE DEF i, p
<1>10. p * FOUR_KB = c /\ c \in Nat /\ c <= 393216
  BY <1>6 DEF CodeSizes
<1>11. \A j \in DOMAIN regions : HasRoom(regions[j]) <=> regions[j].len >= c
  BY <1>10 DEF HasRoom, p
<1>12. regions[i].len >= c /\ \A j \in DOMAIN regions : j < i => regions[j].len < c
  <2>1. \A j \in DOMAIN regions : j < i => ~(regions[j].len >= c)
    BY <1>8, <1>11
  <2> QED
    BY <1>3, <1>8, <1>10, <1>11, <2>1
<1> HIDE DEF c
<1>13. r.addr = regions[i].addr + c /\ r.len = regions[i].len - c
  <2>1. /\ regions[i].len < 4294967296
        /\ \A n \in Nat : n <= regions[i].len /\ n <= 1048576 => regions[i].addr + n < 4294967296
    BY <1>3, <1>8, EvenIs
  <2> DEFINE a == regions[i].addr + c
             l == regions[i].len - c
  <2>2. a \in Nat /\ l \in Nat /\ a < 4294967296 /\ l < 4294967296
    BY <1>3, <1>8, <1>10, <1>12, <2>1, SMTT(60)
  <2>3. r = Region(a, l)
    BY <1>10
  <2> HIDE DEF a, l, r
  <2>4. r.addr = a /\ r.len = l
    BY <2>2, <2>3, RegionIs
  <2> QED
    BY <2>4 DEF a, l
<1> HIDE DEF r
<1>15. /\ DOMAIN regions' = DOMAIN regions /\ regions'[i] = r
       /\ \A j \in DOMAIN regions : j # i => regions'[j] = regions[j]
  BY <1>8, <1>9 DEF Evened
<1>16. Taken(regions, i, c, regions', bitmap_paddr')
  BY <1>8, <1>9, <1>12, <1>13, <1>15 DEF Taken
<1> QED
  BY <1>5, <1>6, <1>7, <1>8, <1>16 DEF c


\* No region has a byte of the kernel, of the file system or of the bitmap.
Sparing(rs, paddr, frames, E, S, F) ==
    \A i \in DOMAIN rs :
        Span(rs[i].addr, rs[i].len) \cap
        (Span(1048576, E - 1048576) \cup Span(S, F - S) \cup Span(paddr, div_ceil32(frames, BYTE))) = {}

\* Overrun, RoomBehind and MapSound, of the layout.
Over(E, F) == IF F - E > 1048576 THEN F - E - 1048576 ELSE 0
Room(b, E, F) ==
    \A i, j \in DOMAIN b.entries :
        (b.entries[i].available /\ b.entries[i].addr >= 1048576 /\ b.entries[j].available /\ i < j) =>
            b.entries[i].addr + b.entries[i].len + Over(E, F) <= b.entries[j].addr
Begins(r, e, E, F) ==
    /\ e.available
    /\ r.addr \in e.addr .. (e.addr + e.len)
    /\ r.addr + r.len <= e.addr + e.len + Over(E, F)
Sound(rs, b, E, F) ==
    /\ \A i \in DOMAIN rs : \E j \in DOMAIN b.entries : Begins(rs[i], b.entries[j], E, F)
    /\ Room(b, E, F) => AllApart(rs)

\* Two spans of which one ends before the other begins, or is empty.
LEMMA SpansApart ==
    ASSUME NEW a \in Int, NEW m \in Int, NEW c \in Int, NEW n \in Int, m <= 0 \/ a + m <= c \/ c + n <= a
    PROVE  Span(a, m) \cap Span(c, n) = {}
BY DEF Span

\* Where the regions lie after the bitmap has been taken.
Lies(rs, t, j, E, S, F) ==
    /\ rs[j].addr \in Nat /\ rs[j].len \in Nat /\ t[j].addr \in Nat /\ t[j].len \in Nat
    /\ rs[j].addr <= t[j].addr /\ t[j].addr + t[j].len = rs[j].addr + rs[j].len
    /\ t[j].addr >= E /\ (t[j].addr + t[j].len <= S \/ t[j].addr >= F)

LEMMA TakenIs ==
    ASSUME NEW b, NEW L, NEW E, NEW S, NEW F, Layout(L, E, S, F), NEW rs, Evened(rs, b, L, E, S, F),
           NEW c \in Nat, NEW i \in DOMAIN rs, NEW t, NEW paddr, Taken(rs, i, c, t, paddr), NEW j \in DOMAIN rs
    PROVE  Lies(rs, t, j, E, S, F)
<1>1. j \in Nat \ {0} /\ i \in Nat \ {0} /\ Even(rs[j], j, L, E, S, F) /\ Even(rs[i], i, L, E, S, F)
  BY DEF Evened
<1>2. /\ rs[j].addr \in Nat /\ rs[j].len \in Nat
      /\ rs[j].addr >= E /\ (rs[j].addr + rs[j].len <= S \/ rs[j].addr >= F)
      /\ rs[i].addr \in Nat /\ rs[i].len \in Nat
  BY <1>1, EvenIs
<1>3. E \in Nat /\ S \in Nat /\ F \in Nat
  BY DEF Layout
<1>4. CASE j = i
  <2>1. t[j].addr = rs[j].addr + c /\ t[j].len = rs[j].len - c /\ rs[j].len >= c
    BY <1>4 DEF Taken
  <2> QED
    BY <1>2, <1>3, <2>1 DEF Lies
<1>5. CASE j # i
  <2>1. t[j] = rs[j]
    BY <1>5 DEF Taken
  <2> QED
    BY <1>2, <1>3, <2>1 DEF Lies
<1> QED
  BY <1>4, <1>5

LEMMA NothingLeft ==
    ASSUME NEW c \in Nat, NEW x \in Nat, NEW l \in Nat, x + l <= c, x >= c
    PROVE  l = 0
OBVIOUS

LEMMA TakenSpares ==
    ASSUME CodeSizes, NEW b, NEW L, NEW E, NEW S, NEW F, Layout(L, E, S, F), NEW rs, Evened(rs, b, L, E, S, F),
           NEW total, NEW n, n > Len(rs), Counted(rs, n, total, L, E),
           NEW p \in Nat, p >= 1, p <= 96, p <= total, total <= 32768 * p, total <= 3145728,
           NEW frames, frames = total - p,
           NEW i \in DOMAIN rs, NEW t, NEW paddr, Taken(rs, i, 4096 * p, t, paddr)
    PROVE  Sparing(t, paddr, frames, E, S, F)
<1> SUFFICES ASSUME NEW j \in DOMAIN rs
             PROVE  Span(t[j].addr, t[j].len) \cap
                    (Span(1048576, E - 1048576) \cup Span(S, F - S) \cup Span(paddr, div_ceil32(frames, BYTE))) = {}
  BY DEF Sparing, Taken
<1> DEFINE c == 4096 * p
           a == t[j].addr
           l == t[j].len
           bytes == div_ceil32(frames, BYTE)
<1>1. c \in Nat /\ c <= 393216 /\ Taken(rs, i, c, t, paddr)
  OBVIOUS
<1>0. p \in Nat /\ c = 4096 * p
  OBVIOUS
<1> HIDE DEF c
<1>10. Lies(rs, t, j, E, S, F) /\ Lies(rs, t, i, E, S, F) /\ BeginsApart(rs)
  BY <1>1, TakenIs, Apart
<1>2. total \in Nat /\ frames \in Nat /\ E \in Nat /\ S \in Nat /\ F \in Nat /\ DOMAIN rs \subseteq Nat
      /\ \A k \in DOMAIN rs : k < n
  BY SMTT(60) DEF Counted, Layout, Evened
<1>3. /\ rs[j].addr \in Nat /\ rs[j].len \in Nat /\ a \in Nat /\ l \in Nat
      /\ rs[j].addr <= a /\ a + l = rs[j].addr + rs[j].len
      /\ a >= E /\ (a + l <= S \/ a >= F)
  BY <1>10 DEF Lies
<1>4. rs[i].addr \in Nat /\ rs[i].len \in Nat
  BY <1>10 DEF Lies
<1>5. /\ paddr = rs[i].addr /\ rs[i].len >= c /\ (j < i => rs[j].len < c)
      /\ j = i => a = rs[i].addr + c /\ l = rs[i].len - c
      /\ j # i => a = rs[j].addr /\ l = rs[j].len
  BY <1>1 DEF Taken
<1> HIDE DEF a, l
<1>6. Span(a, l) \cap Span(1048576, E - 1048576) = {}
  <2> DEFINE m == E - 1048576
  <2>1. 1048576 \in Int /\ m \in Int /\ 1048576 + m <= a /\ a \in Int /\ l \in Int
    BY <1>2, <1>3
  <2> HIDE DEF m
  <2>2. Span(a, l) \cap Span(1048576, m) = {}
    BY <2>1, SpansApart
  <2> QED
    BY <2>2 DEF m
<1>7. Span(a, l) \cap Span(S, F - S) = {}
  BY <1>2, <1>3, SpansApart, SMTT(60)
<1>8. Span(a, l) \cap Span(paddr, bytes) = {}
  <2>1. CASE frames = 0
    <3>0. 4096 * total = c
      BY <1>0, <1>2, <2>1
    <3>1. rs[i].len <= c
      BY <1>2, <3>0 DEF Counted, OfTwo
    <3>2. j # i => rs[i].len + rs[j].len <= c
      <4>1. 4096 * total = c
        BY <3>0
      <4>2. CASE i < j
        BY <1>2, <4>1, <4>2 DEF Counted, OfTwo
      <4>3. CASE j < i
        <5>1. rs[j].len + rs[i].len <= c
          BY <1>2, <4>1, <4>3 DEF Counted, OfTwo
        <5> QED
          BY <1>1, <1>3, <1>4, <5>1, SMTT(60)
      <4> QED
        BY <1>2, <4>2, <4>3, SMTT(60)
    <3>3. l = 0
      <4>1. CASE j = i
        <5>1. l = rs[i].len - c /\ rs[i].len = c
          BY <1>1, <1>4, <1>5, <3>1, <4>1
        <5> QED
          BY <1>1, <5>1
      <4>2. CASE j # i
        <5>1. l = rs[j].len /\ rs[i].len + l <= c /\ rs[i].len >= c
          BY <1>5, <3>2, <4>2
        <5>2. c \in Nat /\ rs[i].len \in Nat /\ l \in Nat
          BY <1>1, <1>3, <1>4
        <5> QED
          BY <5>1, <5>2, NothingLeft, SMTT(60)
      <4> QED
        BY <4>1, <4>2
    <3> QED
      <4>1. Span(a, l) = {}
        BY <1>3, <3>3 DEF Span
      <4> HIDE DEF bytes
      <4> QED
        BY <4>1
  <2>2. CASE frames # 0
    <3>1. bytes \in Nat /\ bytes <= c
      BY <1>0, <1>2, <2>2, BitmapBytes, SMTT(60)
    <3> HIDE DEF bytes
    <3>2. CASE j = i
      <4>1. paddr + bytes <= a
        BY <1>1, <1>4, <1>5, <3>1, <3>2
      <4> QED
        BY <1>3, <1>4, <1>5, <3>1, <4>1, SpansApart, SMTT(60)
    <3>3. CASE j < i
      <4>1. l = rs[j].len /\ a = rs[j].addr /\ l <= 1048576
        BY <1>1, <1>2, <1>3, <1>5, <3>3, SMTT(60)
      <4>2. l \in Nat /\ l <= rs[j].len
        BY <1>3, <4>1
      <4>3. a + l <= paddr
        BY <1>5, <1>10, <3>3, <4>1, <4>2 DEF BeginsApart
      <4> QED
        BY <1>3, <1>4, <1>5, <3>1, <4>3, SpansApart, SMTT(60)
    <3>4. CASE i < j
      <4>1. c <= 1048576 /\ c <= rs[i].len
        BY <1>1, <1>4, <1>5
      <4>2. rs[i].addr + c <= rs[j].addr
        BY <1>1, <1>10, <3>4, <4>1 DEF BeginsApart
      <4>3. paddr + bytes <= a
        BY <1>1, <1>3, <1>4, <1>5, <3>1, <4>2, SMTT(60)
      <4> QED
        BY <1>3, <1>4, <1>5, <3>1, <4>3, SpansApart
    <3> QED
      BY <1>2, <3>2, <3>3, <3>4
  <2> QED
    BY <2>1, <2>2
<1> HIDE DEF bytes
<1>9. Span(a, l) \cap (Span(1048576, E - 1048576) \cup Span(S, F - S) \cup Span(paddr, bytes)) = {}
  <2> DEFINE X == Span(a, l)
             A == Span(1048576, E - 1048576)
             B == Span(S, F - S)
             C == Span(paddr, bytes)
  <2>1. X \cap A = {} /\ X \cap B = {} /\ X \cap C = {}
    BY <1>6, <1>7, <1>8
  <2> HIDE DEF X, A, B, C
  <2>2. X \cap (A \cup B \cup C) = {}
    BY <2>1
  <2> QED
    BY <2>2 DEF X, A, B, C
<1> QED
  BY <1>9 DEF a, l, bytes

\* The entries behind the kernel's leave the room that RoomBehind asks for.
LEMMA RoomIs ==
    ASSUME NEW b, NEW k, NEW L, NEW E, NEW S, NEW F, Boot(b, k, L, E, S, F),
           NEW rs, Evened(rs, b, L, E, S, F), Room(b, E, F)
    PROVE  Roomy(rs, L, E, F)
<1>1. /\ E \in Nat /\ S \in Nat /\ F \in Nat /\ L \in Nat /\ E < S /\ S <= F /\ F < L
      /\ k \in DOMAIN b.entries /\ b.entries[k].available /\ b.entries[k].addr = 1048576 /\ b.entries[k].len = L
  BY DEF Boot, Layout
<1>2. Over(E, F) \in Nat /\ 1048576 + Over(E, F) >= F - E
  BY <1>1 DEF Over
<1> SUFFICES ASSUME NEW q \in DOMAIN rs, ~Near(q, E)
             PROVE  rs[q].addr >= L + F - E
  BY DEF Roomy
<1>3. rs[q].addr >= 1048576 + L
  BY DEF Evened, Even, Behind
<1>4. PICK e \in DOMAIN b.entries : b.entries[e].available /\ b.entries[e].addr = rs[q].addr
  BY DEF Evened, Reported
<1>5. /\ e \in Nat /\ k \in Nat /\ b.entries[e].addr \in Nat /\ b.entries[e].len \in Nat
  BY EntryIs
<1>6. ~(e < k)
  <2> SUFFICES ASSUME e < k PROVE FALSE
    OBVIOUS
  <2>1. b.entries[e].addr + b.entries[e].len <= b.entries[k].addr
    BY <1>1 DEF Boot
  <2> QED
    BY <1>1, <1>3, <1>4, <1>5, <2>1
<1>7. e # k
  BY <1>1, <1>3, <1>4, <1>5
<1>8. k < e
  BY <1>5, <1>6, <1>7
<1>9. b.entries[k].addr >= 1048576
  BY <1>1
<1>10. b.entries[k].addr + b.entries[k].len + Over(E, F) <= b.entries[e].addr
  BY <1>1, <1>4, <1>8, <1>9 DEF Room
<1>11. 1048576 + L + Over(E, F) <= rs[q].addr
  BY <1>1, <1>4, <1>10
<1> QED
  BY <1>1, <1>2, <1>4, <1>5, <1>11

LEMMA TakenSound ==
    ASSUME NEW b, NEW k, NEW L, NEW E, NEW S, NEW F, Boot(b, k, L, E, S, F),
           NEW rs, Evened(rs, b, L, E, S, F),
           NEW c \in Nat, c <= 1048576, NEW i \in DOMAIN rs, NEW t, NEW paddr, Taken(rs, i, c, t, paddr)
    PROVE  Sound(t, b, E, F)
<1>1. Layout(L, E, S, F) /\ DOMAIN t = DOMAIN rs /\ DOMAIN rs \subseteq Nat \ {0}
  BY DEF Boot, Taken, Evened
<1>2. /\ E \in Nat /\ S \in Nat /\ F \in Nat /\ L \in Nat /\ E < S /\ S <= F /\ F < L
  BY <1>1 DEF Layout
<1>3. ASSUME NEW j \in DOMAIN rs
      PROVE  /\ rs[j].addr \in Nat /\ rs[j].len \in Nat /\ t[j].addr \in Nat /\ t[j].len \in Nat
             /\ rs[j].addr <= t[j].addr /\ t[j].addr + t[j].len = rs[j].addr + rs[j].len
             /\ t[j].addr <= rs[j].addr + c
  <2>1. Lies(rs, t, j, E, S, F)
    BY <1>1, TakenIs
  <2>2. /\ rs[j].addr \in Nat /\ rs[j].len \in Nat /\ t[j].addr \in Nat /\ t[j].len \in Nat
        /\ rs[j].addr <= t[j].addr /\ t[j].addr + t[j].len = rs[j].addr + rs[j].len
    BY <2>1 DEF Lies
  <2>3. t[j].addr = rs[j].addr + c \/ t[j].addr = rs[j].addr
    BY DEF Taken
  <2> QED
    BY <2>2, <2>3
<1>4. Over(E, F) \in Nat /\ Over(E, F) >= F - E - 1048576
  BY <1>2 DEF Over
<1>5. ASSUME NEW j \in DOMAIN rs
      PROVE  \E e \in DOMAIN b.entries : Begins(t[j], b.entries[e], E, F)
  <2>1. CASE Near(j, E)
    <3>1. Even(rs[j], j, L, E, S, F) /\ E > 1048576 /\ (j = 1 \/ j = 2)
      BY <1>1, <2>1 DEF Evened, Near
    <3>2. /\ rs[j].addr >= 1048576 /\ rs[j].addr <= L
          /\ rs[j].addr + rs[j].len <= L \/ rs[j].addr + rs[j].len <= F + L - E
      <4>1. CASE j = 1
        <5>1. E <= rs[j].addr /\ rs[j].addr + rs[j].len = S
          BY <2>1, <3>1, <4>1 DEF Even
        <5> QED
          BY <1>2, <1>3, <3>1, <5>1
      <4>2. CASE j = 2
        <5>1. F <= rs[j].addr /\ rs[j].addr <= L /\ rs[j].addr + rs[j].len <= F + L - E
          BY <2>1, <3>1, <4>2 DEF Even
        <5> QED
          BY <1>2, <1>3, <3>1, <5>1
      <4> QED
        BY <3>1, <4>1, <4>2
    <3>3. k \in DOMAIN b.entries /\ b.entries[k].available /\ b.entries[k].addr = 1048576 /\ b.entries[k].len = L
      BY DEF Boot
    <3>4. t[j].addr \in 1048576 .. (1048576 + L)
      BY <1>2, <1>3, <3>2
    <3>5. t[j].addr + t[j].len <= 1048576 + L + Over(E, F)
      BY <1>2, <1>3, <1>4, <3>2
    <3>6. Begins(t[j], b.entries[k], E, F)
      BY <3>3, <3>4, <3>5 DEF Begins
    <3> QED
      BY <3>3, <3>6
  <2>2. CASE ~Near(j, E)
    <3>1. Reported(rs[j], b)
      BY <2>2 DEF Evened
    <3>2. PICK e \in DOMAIN b.entries : b.entries[e].available /\ b.entries[e].addr = rs[j].addr /\ b.entries[e].len = rs[j].len
      BY <3>1 DEF Reported
    <3>3. t[j].addr \in rs[j].addr .. (rs[j].addr + rs[j].len)
      BY <1>3
    <3>4. t[j].addr + t[j].len <= rs[j].addr + rs[j].len + Over(E, F)
      BY <1>3, <1>4
    <3>5. Begins(t[j], b.entries[e], E, F)
      BY <3>2, <3>3, <3>4 DEF Begins
    <3> QED
      BY <3>5
  <2> QED
    BY <2>1, <2>2
<1>6. ASSUME Room(b, E, F), NEW g \in DOMAIN rs, NEW j \in DOMAIN rs, g < j
      PROVE  t[g].addr + t[g].len <= t[j].addr
  <2>1. Roomy(rs, L, E, F)
    BY <1>6, RoomIs
  <2>2. AllApart(rs)
    BY <1>1, <2>1, Apart
  <2>3. rs[g].addr + rs[g].len <= rs[j].addr
    BY <1>6, <2>2 DEF AllApart
  <2> QED
    BY <1>3, <2>3
<1> QED
  BY <1>1, <1>5, <1>6 DEF Sound, AllApart


-----------------------------------------------------------------------------
(***************************************************************************)
(* What is true at each place of kinit, for a boot with the kernel's entry *)
(* k and the layout L, E, S, F.                                            *)
(***************************************************************************)
AtStart == regions = <<>> /\ entry = 1 /\ total_pfs = 0
AtFill(k, L, E, S, F) == Filling(regions, entry, boot, k, L, E, S, F) /\ entry # 0 /\ total_pfs = 0
AtCount(L, E, S, F) ==
    Evened(regions, boot, L, E, S, F) /\ Counted(regions, entry, total_pfs, L, E)
AtDone(E, S, F) ==
    /\ Sparing(regions, bitmap_paddr, frames_len, E, S, F)
    /\ Sound(regions, boot, E, F)

Place(k, L, E, S, F) ==
    /\ at = "get_fs_paddr" => AtStart
    /\ at \in {"fill", "align"} => AtFill(k, L, E, S, F)
    /\ at \in {"count", "construct_bitmap"} => AtCount(L, E, S, F)
    /\ at = "construct_bitmap" => entry > Len(regions)
    /\ at = "done" => AtDone(E, S, F)

MapInv == /\ boot \in BootInfo
          /\ \A k, L, E, S, F : Boot(boot, k, L, E, S, F) => Place(k, L, E, S, F)

LEMMA MapInit == BootInit => MapInv
<1> SUFFICES ASSUME BootInit PROVE MapInv
  OBVIOUS
<1>1. boot \in BootInfo /\ at = "get_fs_paddr" /\ AtStart
  BY bootAssumption DEF BootInit, MmInit, AtStart
<1> QED
  BY <1>1 DEF MapInv, Place

\* The map is empty before its first entry.
LEMMA FillsFirst ==
    ASSUME NEW b, NEW k, NEW L, NEW E, NEW S, NEW F, Boot(b, k, L, E, S, F), NEW rs, rs = <<>>
    PROVE  Filling(rs, 1, b, k, L, E, S, F)
<1>1. k \in Nat /\ k >= 1
  BY EntryIs
<1>2. rs \in Seq(Area) /\ DOMAIN rs = {}
  OBVIOUS
<1> QED
  BY <1>1, <1>2 DEF Filling, Sorted

LEMMA StepStart ==
    ASSUME NEW k, NEW L, NEW E, NEW S, NEW F, Boot(boot, k, L, E, S, F), Place(k, L, E, S, F), get_fs_paddr
    PROVE  Place(k, L, E, S, F)'
<1>1. AtStart /\ boot' = boot /\ regions' = regions /\ entry' = entry /\ total_pfs' = total_pfs
      /\ (at' = "fill" \/ at' = "KINIT_ERROR_LOAD_FS")
  BY DEF get_fs_paddr, Goto, Place
<1>2. Filling(regions, 1, boot, k, L, E, S, F)
  BY <1>1, FillsFirst DEF AtStart
<1>3. AtFill(k, L, E, S, F)'
  BY <1>1, <1>2 DEF AtFill, AtStart
<1> QED
  BY <1>1, <1>3 DEF Place

LEMMA StepFill ==
    ASSUME CodeSizes, NEW k, NEW L, NEW E, NEW S, NEW F, Boot(boot, k, L, E, S, F), Place(k, L, E, S, F),
           fill_memory_map
    PROVE  Place(k, L, E, S, F)'
<1>1. AtFill(k, L, E, S, F) /\ boot' = boot /\ total_pfs' = total_pfs /\ at = "fill"
  BY DEF fill_memory_map, Place
<1>2. Filling(regions, entry, boot, k, L, E, S, F) /\ entry \in Nat /\ entry # 0 /\ regions \in Seq(Area)
  BY <1>1 DEF AtFill, Filling
<1> DEFINE n == entry
           e == boot.entries[entry]
<1>3. CASE boot.has_map /\ entry <= Len(boot.entries)
  <2>1. /\ regions' = (IF e.available THEN regions \o WithoutFs(WithoutKernel(e)) ELSE regions)
        /\ entry' = n + 1 /\ at' = "fill"
    BY <1>1, <1>3 DEF fill_memory_map
  <2>2. n \in DOMAIN boot.entries /\ e.addr \in Nat /\ e.len \in Nat /\ k \in DOMAIN boot.entries /\ k \in Nat
    BY <1>2, <1>3, EntryIs
  <2>3. /\ boot.entries[k].available /\ boot.entries[k].addr = 1048576 /\ boot.entries[k].len = L
        /\ n < k => e.addr + e.len <= boot.entries[k].addr
        /\ E \in Nat
    BY <2>2 DEF Boot, Layout
  <2>4. n + 1 \in Nat /\ n + 1 # 0
    BY <1>2
  <2>5. Filling(regions', n + 1, boot, k, L, E, S, F)
    <3>1. CASE ~e.available
      <4>1. n # k /\ regions' = regions
        BY <2>1, <2>3, <3>1
      <4> QED
        BY <1>2, <4>1, FillsNothing
    <3>2. CASE e.available /\ n < k
      <4>1. WithoutFs(WithoutKernel(e)) = <<>>
        BY <2>2, <2>3, <3>2, EntryBelow
      <4>2. regions' = regions /\ n # k
        BY <1>2, <2>1, <2>2, <3>2, <4>1
      <4> QED
        BY <1>2, <4>2, FillsNothing
    <3>3. CASE e.available /\ n = k
      <4> DEFINE t == WithoutFs(WithoutKernel(e))
      <4>1. e.addr = 1048576 /\ e.len = L
        BY <2>3, <3>3
      <4>2. t = IF E > 1048576 THEN <<[addr |-> E, len |-> S - E], [addr |-> F, len |-> L - E]>> ELSE <<>>
        BY <2>2, <4>1, EntryOfKernel
      <4>3. regions' = regions \o t
        BY <2>1, <3>3
      <4> HIDE DEF t
      <4>4. CASE E > 1048576
        <5>1. AroundFs(t, L, E, S, F)
          BY <4>2, <4>4 DEF AroundFs
        <5>2. Filling(regions, k, boot, k, L, E, S, F)
          BY <1>2, <3>3
        <5>3. regions \o t = t /\ Filling(t, k + 1, boot, k, L, E, S, F)
          BY <4>4, <5>1, <5>2, FillsTwo
        <5> QED
          BY <3>3, <4>3, <5>3
      <4>5. CASE ~(E > 1048576)
        <5>1. regions' = regions
          BY <1>2, <4>2, <4>3, <4>5
        <5>2. E <= 1048576
          BY <2>3, <4>5
        <5> QED
          BY <1>2, <5>1, <5>2, FillsNothing
      <4> QED
        BY <4>4, <4>5
    <3>4. CASE e.available /\ n > k
      <4> DEFINE r == [addr |-> e.addr, len |-> e.len]
      <4>1. Behind(e, L) /\ Filling(regions \o <<r>>, n + 1, boot, k, L, E, S, F)
        BY <1>2, <2>2, <3>4, FillsOne
      <4>2. WithoutFs(WithoutKernel(e)) = <<r>>
        BY <2>2, <4>1, EntryBehind
      <4> HIDE DEF r
      <4> QED
        BY <2>1, <3>4, <4>1, <4>2
    <3> QED
      BY <1>2, <2>2, <3>1, <3>2, <3>3, <3>4
  <2>6. AtFill(k, L, E, S, F)'
    BY <1>1, <2>1, <2>4, <2>5 DEF AtFill
  <2> QED
    BY <2>1, <2>6 DEF Place
<1>4. CASE ~(boot.has_map /\ entry <= Len(boot.entries))
  <2>1. regions' = regions /\ entry' = entry /\ (at' = "align" \/ at' = "KINIT_ERROR_INIT_PFA")
    BY <1>4 DEF fill_memory_map, Goto
  <2>2. AtFill(k, L, E, S, F)'
    BY <1>1, <2>1 DEF AtFill
  <2> QED
    BY <2>1, <2>2 DEF Place
<1> QED
  BY <1>3, <1>4

LEMMA StepAlign ==
    ASSUME CodeSizes, NEW k, NEW L, NEW E, NEW S, NEW F, Boot(boot, k, L, E, S, F), Place(k, L, E, S, F), pfa_init
    PROVE  Place(k, L, E, S, F)'
<1>1. /\ AtFill(k, L, E, S, F) /\ boot' = boot /\ total_pfs' = total_pfs /\ at' = "count" /\ entry' = 1
      /\ regions' = [i \in DOMAIN regions |-> Aligned(regions[i])]
  BY DEF pfa_init, Place, Goto
<1>2. Filling(regions, entry, boot, k, L, E, S, F) /\ total_pfs = 0
  BY <1>1 DEF AtFill
<1>3. Evened(regions', boot, L, E, S, F)
  BY <1>1, <1>2, Evens
<1>4. Counted(regions', 1, 0, L, E)
  <2>1. L \in Nat /\ \A i \in DOMAIN regions' : i \in Nat \ {0} /\ regions'[i].addr \in Nat
    BY <1>3, SMTT(60) DEF Boot, Layout, Evened, Even, Area
  <2> QED
    BY <2>1 DEF Counted, InMemory, OfTwo
<1>5. AtCount(L, E, S, F)'
  BY <1>1, <1>2, <1>3, <1>4 DEF AtCount
<1> QED
  BY <1>1, <1>5 DEF Place

LEMMA StepCount ==
    ASSUME CodeSizes, NEW k, NEW L, NEW E, NEW S, NEW F, Boot(boot, k, L, E, S, F), Place(k, L, E, S, F), count_frames
    PROVE  Place(k, L, E, S, F)'
<1>1. AtCount(L, E, S, F) /\ boot' = boot /\ regions' = regions /\ at = "count"
  BY DEF count_frames, Place
<1>2. Evened(regions, boot, L, E, S, F) /\ Counted(regions, entry, total_pfs, L, E) /\ Layout(L, E, S, F)
  BY <1>1 DEF AtCount, Boot
<1>3. entry \in Nat \ {0} /\ Len(regions) \in Nat /\ DOMAIN regions = 1 .. Len(regions)
  BY <1>2 DEF Counted, Evened
<1>4. CASE entry <= Len(regions)
  <2>1. total_pfs' = U32(total_pfs + regions[entry].len \div FOUR_KB) /\ entry' = entry + 1 /\ at' = at
    BY <1>4 DEF count_frames
  <2>2. entry \in DOMAIN regions
    BY <1>3, <1>4
  <2>3. Counted(regions, entry + 1, total_pfs', L, E)
    BY <1>2, <2>1, <2>2, Counts
  <2>4. AtCount(L, E, S, F)'
    BY <1>1, <1>2, <2>1, <2>3 DEF AtCount
  <2> QED
    BY <1>1, <2>1, <2>4 DEF Place
<1>5. CASE ~(entry <= Len(regions))
  <2>1. total_pfs' = total_pfs /\ entry' = entry /\ at' = "construct_bitmap"
    BY <1>5 DEF count_frames, Goto
  <2>2. entry > Len(regions)
    BY <1>3, <1>5
  <2>3. AtCount(L, E, S, F)'
    BY <1>1, <1>2, <2>1 DEF AtCount
  <2> QED
    BY <1>1, <2>1, <2>2, <2>3 DEF Place
<1> QED
  BY <1>4, <1>5

LEMMA StepBitmap ==
    ASSUME CodeSizes, NEW k, NEW L, NEW E, NEW S, NEW F, Boot(boot, k, L, E, S, F), Place(k, L, E, S, F),
           construct_bitmap
    PROVE  Place(k, L, E, S, F)'
<1>1. /\ AtCount(L, E, S, F) /\ entry > Len(regions) /\ boot' = boot
      /\ frames_len' = U32(total_pfs - bitmap_pfs)
      /\ at' = "done" \/ at' = "KINIT_ERROR_INIT_PFA"
  BY DEF construct_bitmap, Place, Goto
<1>2. Evened(regions, boot, L, E, S, F) /\ Counted(regions, entry, total_pfs, L, E) /\ Layout(L, E, S, F)
  BY <1>1 DEF AtCount, Boot
<1>3. CASE at' = "done"
  <2>1. TakeBitmap /\ \E i \in DOMAIN regions : HasRoom(regions[i])
    BY <1>3 DEF construct_bitmap, Goto
  <2>2. PICK p \in Nat, i \in DOMAIN regions :
              /\ p >= 1 /\ p <= 96 /\ p <= total_pfs /\ total_pfs <= 32768 * p /\ total_pfs <= 3145728
              /\ frames_len' = total_pfs - p
              /\ Taken(regions, i, 4096 * p, regions', bitmap_paddr')
    BY <1>1, <1>2, <2>1, Takes
  <2>3. Sparing(regions', bitmap_paddr', frames_len', E, S, F)
    BY <1>1, <1>2, <2>2, TakenSpares
  <2>4. Sound(regions', boot, E, F)
    <3> DEFINE c == 4096 * p
    <3>1. c \in Nat /\ c <= 1048576 /\ Taken(regions, i, c, regions', bitmap_paddr')
      BY <2>2
    <3> HIDE DEF c
    <3> QED
      BY <1>2, <3>1, TakenSound
  <2>5. AtDone(E, S, F)'
    BY <1>1, <2>3, <2>4 DEF AtDone
  <2> QED
    BY <1>3, <2>5 DEF Place
<1>4. CASE at' = "KINIT_ERROR_INIT_PFA"
  BY <1>4 DEF Place
<1> QED
  BY <1>1, <1>3, <1>4

LEMMA MapStep ==
    ASSUME CodeSizes, MapInv, [MmNext]_<<vars, mm_vars>>
    PROVE  MapInv'
<1>1. CASE kinit
  <2>1. boot' = boot
    BY <1>1 DEF kinit, get_fs_paddr, fill_memory_map, pfa_init, count_frames, construct_bitmap
  <2> SUFFICES ASSUME NEW k, NEW L, NEW E, NEW S, NEW F, Boot(boot, k, L, E, S, F)
               PROVE  Place(k, L, E, S, F)'
    BY <2>1 DEF MapInv
  <2>2. Place(k, L, E, S, F)
    BY DEF MapInv
  <2> QED
    BY <1>1, <2>2, StepStart, StepFill, StepAlign, StepCount, StepBitmap DEF kinit
<1>2. CASE UNCHANGED mm_vars
  BY <1>2 DEF mm_vars, MapInv, Place, AtStart, AtFill, AtCount, AtDone
<1> QED
  BY <1>1, <1>2 DEF MmNext

\* A regular map, and the kernel and the file system loaded apart.
LEMMA BootIs ==
    ASSUME CodeSizes, boot \in BootInfo, Regular, LoadedApart
    PROVE  \E k, L, E, S, F : Boot(boot, k, L, E, S, F)
<1>1. PICK k \in DOMAIN boot.entries :
        /\ boot.entries[k].available /\ boot.entries[k].addr = kernel_start
        /\ boot.kernel_end < boot.fs_paddr /\ boot.fs_paddr % FOUR_KB = 0
        /\ fs_end < boot.entries[k].addr + boot.entries[k].len - ONE_MB
  BY DEF LoadedApart
<1> DEFINE L == boot.entries[k].len
           E == boot.kernel_end
           S == boot.fs_paddr
           F == boot.fs_paddr + boot.fs_size
<1>2. E \in Nat /\ S \in Nat /\ boot.fs_size \in Nat /\ boot.entries \in Seq(Entries)
  BY DEF BootInfo
<1>3. boot.entries[k] \in Entries
  <2> DEFINE s == boot.entries
  <2>1. s \in Seq(Entries) /\ k \in DOMAIN s
    BY <1>2
  <2> HIDE DEF s
  <2>2. s[k] \in Entries
    BY <2>1
  <2> QED
    BY <2>2 DEF s
<1>4. L \in Nat /\ F \in Nat /\ boot.entries[k].addr = 1048576 /\ boot.entries[k].available /\ S <= F
  <2>1. L \in Nat
    BY <1>3 DEF Entries
  <2>2. F \in Nat /\ S <= F
    BY <1>2
  <2>3. boot.entries[k].addr = 1048576
    BY <1>1 DEF kernel_start, CodeSizes
  <2> QED
    BY <1>1, <2>1, <2>2, <2>3
<1>5. \A i \in DOMAIN boot.entries :
          /\ \A j \in DOMAIN boot.entries : i < j => boot.entries[i].addr + boot.entries[i].len <= boot.entries[j].addr
          /\ boot.entries[i].available /\ boot.entries[i].addr >= 1048576 =>
                /\ boot.entries[i].addr + boot.entries[i].len < 4294967296
                /\ boot.entries[i].addr % 4096 = 0 /\ boot.entries[i].len % 4096 = 0
  BY DEF Regular, CodeSizes, kernel_start
<1>6. E < S /\ F < L /\ S % 4096 = 0
  BY <1>1, <1>4 DEF CodeSizes, fs_end
<1>7. 1048576 + L < 4294967296 /\ L % 4096 = 0
  BY <1>4, <1>5
<1>8. Layout(L, E, S, F)
  BY <1>2, <1>4, <1>6, <1>7 DEF Layout
<1>9. Boot(boot, k, L, E, S, F)
  BY <1>4, <1>5, <1>8 DEF Boot
<1> QED
  BY <1>9

LEMMA MapSpares ==
    ASSUME CodeSizes, MapInv
    PROVE  Spared /\ MapSound
<1> SUFFICES ASSUME at = "done", Regular, LoadedApart
             PROVE  Spared /\ MapSound
  BY DEF Spared, MapSound
<1>1. PICK k, L, E, S, F : Boot(boot, k, L, E, S, F)
  BY BootIs DEF MapInv
<1>2. AtDone(E, S, F)
  BY <1>1 DEF MapInv, Place
<1>3. /\ boot.kernel_end = E /\ boot.fs_paddr = S /\ boot.fs_paddr + boot.fs_size = F
      /\ boot.fs_size \in Nat /\ S \in Nat /\ F \in Nat
  BY <1>1 DEF Boot, BootInfo, Layout
<1>4. boot.fs_size = F - S /\ kernel_start = 1048576 /\ ONE_MB = 1048576 /\ fs_end = F
  BY <1>3 DEF kernel_start, CodeSizes, fs_end
<1>5. Spared
  BY <1>2, <1>3, <1>4 DEF Spared, AtDone, Sparing
<1>6. Overrun = Over(E, F) /\ (RoomBehind => Room(boot, E, F))
  BY <1>3, <1>4, SMTT(60) DEF Overrun, Over, RoomBehind, Room
<1>7. MapSound
  BY <1>2, <1>6, SMTT(60) DEF MapSound, AtDone, Sound, Begins, AllApart
<1> QED
  BY <1>5, <1>7

\* With the sizes of the code and whatever GRUB reports: when the file system is loaded apart
\* from the kernel and from the end of memory, no frame of the kernel, of the file system or of
\* the bitmap is given to the allocator (fill_memory_map, pfa_init, construct_bitmap).
THEOREM BootSpares == CodeSizes => (MmSpec => []Spared)
<1> SUFFICES ASSUME CodeSizes PROVE MmSpec => []Spared
  OBVIOUS
<1>1. MapInv /\ [MmNext]_<<vars, mm_vars>> => MapInv'
  BY MapStep
<1>2. MapInv => Spared
  BY MapSpares
<1> QED
  BY <1>1, <1>2, MapInit, PTL DEF MmSpec

\* With the sizes of the code and whatever GRUB reports, of the regions that construct_bitmap
\* leaves: each begins in available memory, and passes its end by no more than the kernel's end
\* and the file system's are apart, less a megabyte; with room for that behind the kernel's
\* entry, they are sorted and disjoint, as mmapAssumption has it.
THEOREM BootMapSound == CodeSizes => (MmSpec => []MapSound)
<1> SUFFICES ASSUME CodeSizes PROVE MmSpec => []MapSound
  OBVIOUS
<1>1. MapInv /\ [MmNext]_<<vars, mm_vars>> => MapInv'
  BY MapStep
<1>2. MapInv => MapSound
  BY MapSpares
<1> QED
  BY <1>1, <1>2, MapInit, PTL DEF MmSpec

=============================================================================
