------------------------ MODULE MCPageFrameAllocator ------------------------
(***************************************************************************)
(* TLC instance of MemoryMap and the PageFrameAllocator behind it: boots,  *)
(* one of which leads to the two regions of mmap; bytes of one bit, so     *)
(* that the last cell holds initialised and uninitialised bytes; and the   *)
(* loops of pfa_allocate, against which Found is checked.                  *)
(***************************************************************************)
EXTENDS MemoryMap, TLC
LOCAL INSTANCE SequencesExt

MCmmap == <<[addr |-> 5, len |-> 1], [addr |-> 8, len |-> 6]>>
MCoffset == <<0, 1>>

\* Memory below the kernel, a hole, and the entry the kernel is loaded to; another
\* entry may follow, or one at 4 GB.  An image of mkfs has whole megabytes.
Usable(addr, len) == [addr |-> addr, len |-> len, available |-> TRUE]
Hole(addr, len) == [addr |-> addr, len |-> len, available |-> FALSE]
Maps == {<<Usable(0, 10), Hole(10, 6), Usable(ONE_MB, len), Hole(UINT - 2, 2)>> \o more :
            len \in {64, 66, 72, 96}, more \in {<<>>, <<Usable(UINT, 64)>>}}
Split == {<<Usable(ONE_MB, 96), Hole(112, 8), Usable(addr, 24)>> : addr \in {120, 136, 160}}
Boot(map, end, paddr, size) ==
    [has_map |-> TRUE, entries |-> map, mods |-> 1,
     kernel_end |-> end, fs_paddr |-> paddr, fs_size |-> size]
Loaded == {Boot(map, end, paddr, megabytes * ONE_MB) :
             map \in Maps \cup Split, end \in {17, 24, 31}, paddr \in {24, 32, 48}, megabytes \in 1 .. 2}
Typical == Boot(<<Usable(ONE_MB, 72)>>, 24, 48, ONE_MB)
MCBoots == Loaded \cup {[Typical EXCEPT !.has_map = FALSE], [Typical EXCEPT !.mods = 2],
                        [Typical EXCEPT !.entries = SubSeq(@, 1, 0)]}

\* After an overlap of two calls the properties of the blocks claim nothing.
Serial == ~raced

\* Clients are interchangeable.
Symmetry == Permutations(Clients)

\* The two nested loops of pfa_allocate as written: frames_found and bit_idx are
\* carried from bit to bit.  A cell of zeros resets frames_found, as its bits do.
RECURSIVE Scan(_, _, _, _)
Scan(n, i, frames_found, bit_idx) ==
    IF i \notin Bits THEN -1
    ELSE IF bitmap[i] = 0 THEN Scan(n, i + 1, 0, bit_idx)
    ELSE LET start == IF frames_found = 0 THEN i ELSE bit_idx IN
         IF frames_found + 1 < n THEN Scan(n, i + 1, frames_found + 1, start)
         ELSE IF fits_in_one_mmap_entry(start, n) THEN start
         ELSE Scan(n, i + 1, 0, start)

\* The declarative search finds what the loops find, and nothing when they do not.
FoundIsScan ==
    \A n \in 1 .. MAX_REQUEST :
        {b \in Bits : Found(bitmap, b, n)} = {Scan(n, 0, 0, 0)} \ {-1}

\* Whatever GRUB reports, page_frames.len counts the frames of the regions that are left:
\* neither the sum nor the subtraction of the bitmap wraps.
FramesCounted ==
    at = "done" =>
        frames_len = FoldLeft(LAMBDA sum, r : sum + r.len, 0, InFrames)
=============================================================================
