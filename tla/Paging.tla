-------------------------------- MODULE Paging --------------------------------
(***************************************************************************)
(* Page directories and page tables, kernel/paging.c, as operators on the  *)
(* physical memory m: m.free are the free page frames, and m.at[f] are the *)
(* present entries of the frame f read as a directory or as a table.       *)
(* Virtual addresses are page numbers; an entry is the frame it points to. *)
(* A call of one of these functions is not preempted: the save and restore *)
(* of the temporary mapping, which then is invisible, is left out.         *)
(***************************************************************************)
EXTENDS Integers, FiniteSets, FiniteSetsExt

CONSTANTS
    NUM_ENTRIES,  \* of a directory and of a table
    NUM_FRAMES    \* page frames of the page frame allocator

ASSUME PagingAssumption == NUM_ENTRIES \in Nat /\ NUM_ENTRIES > 3 /\ NUM_FRAMES \in Nat

Frames == 1 .. NUM_FRAMES
kernel_pdt == NUM_FRAMES + 1               \* part of the kernel image
kernel_pt == NUM_FRAMES + 2
Phys == 0 .. kernel_pt                     \* 0: no page frame, or the frame at address 0
Entries == 0 .. (NUM_ENTRIES - 1)
Pages == 0 .. (NUM_ENTRIES * NUM_ENTRIES - 1)
NotMapped == -1

KERNEL_PDT_IDX == NUM_ENTRIES - 2          \* the kernel has the last two tables
KERNEL_TMP_PT_IDX == NUM_ENTRIES - 1

Empty == [i \in {} |-> 0]
With(f, i, v) == [j \in DOMAIN f \cup {i} |-> IF j = i THEN v ELSE f[j]]
Without(f, S) == [j \in DOMAIN f \ S |-> f[j]]

VIRTUAL_TO_PDT_IDX(page) == page \div NUM_ENTRIES
VIRTUAL_TO_PT_IDX(page) == page % NUM_ENTRIES
IS_ENTRY_PRESENT(m, f, i) == i \in DOMAIN m.at[f]

\* Mutant: the bit of the page size is tested.
IsPageTableByPageSize(m, f, i) == i \in DOMAIN m.at[f]

\* (config && 0x80) == 0: only an entry that is 0 altogether is a page table
IS_ENTRY_PAGE_TABLE(m, f, i) == i \notin DOMAIN m.at[f]

\* the frame a page is mapped to
Translate(m, pdt, page) ==
    LET d == VIRTUAL_TO_PDT_IDX(page)
        i == VIRTUAL_TO_PT_IDX(page)
    IN  IF IS_ENTRY_PRESENT(m, pdt, d) /\ IS_ENTRY_PRESENT(m, m.at[pdt][d], i)
        THEN m.at[m.at[pdt][d]][i] ELSE NotMapped

-----------------------------------------------------------------------------
(***************************************************************************)
(* The page frame allocator, as its clients see it.                        *)
(***************************************************************************)
\* the first block of n free frames, 0 if there is none
pfa_allocate(m, n) ==
    LET blocks == {f \in Frames : f .. (f + n - 1) \subseteq m.free}
    IN  IF blocks = {} THEN 0 ELSE Min(blocks)
Taken(m, f, n) == IF f = 0 THEN m ELSE [m EXCEPT !.free = @ \ (f .. (f + n - 1))]

\* freeing toggles the bit of the frame
pfa_free_cont(m, f, n) == [m EXCEPT !.free = (@ \ (f .. (f + n - 1))) \cup ((f .. (f + n - 1)) \ @)]

-----------------------------------------------------------------------------
(***************************************************************************)
(* Finding, mapping and unmapping pages.                                   *)
(***************************************************************************)
\* the entries of the kernel's table d where n pages are free
pt_kernel_find_next_vaddr(m, d, n) ==
    {i \in 0 .. (NUM_ENTRIES - n) : \A j \in i .. (i + n - 1) :
        /\ ~IS_ENTRY_PRESENT(m, m.at[kernel_pdt][d], j)
        /\ ~(d = KERNEL_PDT_IDX /\ j = KERNEL_TMP_PT_IDX)}

\* 0 if there are none; a table that is not there yet has room for everything
pdt_kernel_find_next_vaddr(m, n) ==
    LET found(d) == IF IS_ENTRY_PRESENT(m, kernel_pdt, d)
                    THEN pt_kernel_find_next_vaddr(m, d, n) ELSE {0}
        pages == UNION {{d * NUM_ENTRIES + i : i \in found(d)}
                            : d \in KERNEL_PDT_IDX .. (NUM_ENTRIES - 1)}
    IN  IF pages = {} THEN 0 ELSE Min(pages)

\* how many of n pages are mapped from entry i on: up to the first one that is present,
\* or is the temporary one
pt_map_memory(m, d, pt, i, n) ==
    Min({n} \cup {j \in 0 .. (n - 1) : \/ IS_ENTRY_PRESENT(m, pt, i + j)
                                       \/ d = KERNEL_PDT_IDX /\ i + j = KERNEL_TMP_PT_IDX})

\* k entries from i on, for the frames from paddr on
Filled(t, i, paddr, k) ==
    [j \in DOMAIN t \cup (i .. (i + k - 1)) |-> IF j \in i .. (i + k - 1) THEN paddr + j - i ELSE t[j]]

\* n pages of one table, which is allocated when it is missing; when one of them cannot
\* be mapped those before it stay mapped
pdt_map_memory(m, pdt, paddr, page, n) ==
    LET d == VIRTUAL_TO_PDT_IDX(page)
        i == VIRTUAL_TO_PT_IDX(page)
        present == IS_ENTRY_PRESENT(m, pdt, d)
        pt == IF present THEN m.at[pdt][d] ELSE pfa_allocate(m, 1)
        m1 == IF present THEN m ELSE [Taken(m, pt, 1) EXCEPT !.at[pt] = Empty]
        k == pt_map_memory(m1, d, pt, i, n)
    IN  IF pt = 0 THEN [m |-> m, ok |-> FALSE]
        ELSE IF k = 0 THEN [m |-> m1, ok |-> FALSE]
        ELSE [m |-> [m1 EXCEPT !.at[pt] = Filled(@, i, paddr, k), !.at[pdt] = With(@, d, pt)],
              ok |-> k = n]

\* When the table is missing page is the first one of it, and the loop of
\* pdt_unmap_memory never ends.
UnmapLoops(m, page) == ~IS_ENTRY_PRESENT(m, kernel_pdt, VIRTUAL_TO_PDT_IDX(page))

\* Mutant: one page too many.
UnmapOneTooMany(m, page, n) ==
    LET i == VIRTUAL_TO_PT_IDX(page)
    IN  [m EXCEPT !.at[m.at[kernel_pdt][VIRTUAL_TO_PDT_IDX(page)]] = Without(@, i .. (i + n))]

\* n pages of one kernel table, not all of it
pdt_unmap_kernel_memory(m, page, n) ==
    LET i == VIRTUAL_TO_PT_IDX(page)
    IN  [m EXCEPT !.at[m.at[kernel_pdt][VIRTUAL_TO_PDT_IDX(page)]] =
                      Without(@, i .. (i + n - 1))]

-----------------------------------------------------------------------------
(***************************************************************************)
(* Page directories of processes.                                          *)
(***************************************************************************)
\* the frames that are freed with the directory at a kernel page
pdt_delete(m, page) ==
    LET pdt == Translate(m, kernel_pdt, page)
        tables == {m.at[pdt][i] : i \in {j \in DOMAIN m.at[pdt] : IS_ENTRY_PAGE_TABLE(m, pdt, j)}}
    IN  [m EXCEPT !.free = (@ \ (tables \cup {pdt})) \cup ((tables \cup {pdt}) \ @)]

\* the directory gets the entries of the kernel
pdt_load_process_pdt(m, pdt) ==
    LET kernel == {i \in DOMAIN m.at[kernel_pdt] : i >= KERNEL_PDT_IDX}
    IN  [m EXCEPT !.at[pdt] = [i \in DOMAIN @ \cup kernel |->
                                  IF i \in kernel THEN m.at[kernel_pdt][i] ELSE @[i]]]

\* what the boot code leaves: the kernel's pages in the first of its tables
InitialMemory ==
    [free |-> Frames,
     at |-> [f \in Phys |->
        CASE f = kernel_pdt -> With(Empty, KERNEL_PDT_IDX, kernel_pt)
          [] f = kernel_pt -> With(With(Empty, 0, kernel_pdt), 1, kernel_pt)
          [] OTHER -> Empty]]
=============================================================================
