------------------------------- MODULE Kmalloc -------------------------------
(***************************************************************************)
(* The kernel heap of aenix, kernel/kmalloc.c: the allocator of K&R, a     *)
(* circular list of free blocks in the order of their addresses, which     *)
(* grows by page frames.  Addresses and sizes are counted in units of a    *)
(* header; the first unit of a block is its header.                        *)
(*                                                                         *)
(* Every iteration of the two search loops is a step.  One call is under   *)
(* way at a time: what overlapping calls do to the list, which no lock     *)
(* protects, is not modelled.                                              *)
(***************************************************************************)
EXTENDS Integers, FiniteSets

CONSTANTS
    PAGE,            \* units in a page frame (512 in the code)
    MIN_BLOCK_SIZE,  \* the heap grows by this many units at least (1024)
    MAX_UNITS,       \* bound: the largest block asked for, in units
    HEAP_PAGES       \* bound: pages of kernel address space the heap may use

ASSUME SizesAssumption ==
    /\ PAGE \in Nat \ {0} /\ MIN_BLOCK_SIZE \in Nat \ {0}
    /\ MAX_UNITS \in Nat /\ HEAP_PAGES \in Nat

base == 0                                     \* the static header is below the heap
Units == 0 .. (PAGE * (HEAP_PAGES + 1) - 1)
NULL == -1

VARIABLES
    next, size,  \* the header fields, by address
    freep,       \* where the next search starts
    call,        \* the call under way and its locals
    heap,        \* the units of address space that are mapped for the heap
    used,        \* history: the headers of the blocks that callers own
    free         \* history: the headers that should be in the free list

vars == <<next, size, freep, call, heap, used, free>>

Idle == [op |-> "idle", nunits |-> 0, prevp |-> base, p |-> base, bp |-> base]
UnitsOf(x) == x .. (x + size[x] - 1)

-----------------------------------------------------------------------------
(***************************************************************************)
(* kmalloc.                                                                *)
(***************************************************************************)
\* The size asked for is at least one byte, so at least one unit and a header.
\* The first call makes base the free list.
kmalloc(nunits) ==
    LET start == IF freep = NULL THEN base ELSE freep
        list == IF freep = NULL THEN [next EXCEPT ![base] = base] ELSE next
    IN  /\ call = Idle
        /\ freep' = start
        /\ next' = list
        /\ call' = [Idle EXCEPT !.op = "kmalloc", !.nunits = nunits,
                                !.prevp = start, !.p = list[start]]
        /\ UNCHANGED <<size, heap, used, free>>

Searching == call.op = "kmalloc"

\* Mutant: the header is not counted.
EnoughForPayload == size[call.p] >= call.nunits - 1

\* the block at p is big enough
Enough == size[call.p] >= call.nunits

\* The caller owns the units behind the header, and what they held is gone.
Overwritten(f, x, n) == [u \in Units |-> IF u \in (x + 1) .. (x + n - 1) THEN 0 ELSE f[u]]

\* the block at p is exactly as big as needed
allocate_exactly ==
    /\ Searching /\ Enough /\ size[call.p] = call.nunits
    /\ next' = Overwritten([next EXCEPT ![call.prevp] = next[call.p]], call.p, call.nunits)
    /\ size' = Overwritten(size, call.p, call.nunits)
    /\ freep' = call.prevp
    /\ used' = used \cup {call.p}
    /\ free' = free \ {call.p}
    /\ call' = Idle
    /\ UNCHANGED heap

\* Mutant: the new header is put one unit too low.
AllocateOneBelow ==
    LET p == call.p + size[call.p] - call.nunits - 1 IN
    /\ Searching /\ Enough /\ size[call.p] # call.nunits
    /\ size' = Overwritten([size EXCEPT ![call.p] = @ - call.nunits,
                                        ![p] = call.nunits], p, call.nunits)
    /\ next' = Overwritten(next, p, call.nunits)
    /\ freep' = call.prevp
    /\ used' = used \cup {p}
    /\ call' = Idle
    /\ UNCHANGED <<heap, free>>

\* the tail of the block at p, with a new header
allocate_tail ==
    LET p == call.p + size[call.p] - call.nunits IN
    /\ Searching /\ Enough /\ size[call.p] # call.nunits
    /\ size' = Overwritten([size EXCEPT ![call.p] = @ - call.nunits,
                                        ![p] = call.nunits], p, call.nunits)
    /\ next' = Overwritten(next, p, call.nunits)
    /\ freep' = call.prevp
    /\ used' = used \cup {p}
    /\ call' = Idle
    /\ UNCHANGED <<heap, free>>

\* prevp = p, p = p->next
search ==
    /\ Searching /\ ~Enough /\ call.p # freep
    /\ call' = [call EXCEPT !.prevp = call.p, !.p = next[call.p]]
    /\ UNCHANGED <<next, size, freep, heap, used, free>>

-----------------------------------------------------------------------------
(***************************************************************************)
(* acquire_more_heap, called when the search has come back to freep.       *)
(***************************************************************************)
div_ceil(num, den) == (num - 1) \div den + 1
Growth == PAGE * div_ceil(IF call.nunits < MIN_BLOCK_SIZE THEN MIN_BLOCK_SIZE
                                                          ELSE call.nunits, PAGE)

\* pdt_kernel_find_next_vaddr returns pages nobody uses; the new block is freed
acquire_more_heap ==
    /\ Searching /\ ~Enough /\ call.p = freep
    /\ \E page \in 1 .. HEAP_PAGES :
          LET vaddr == PAGE * page
              new == vaddr .. (vaddr + Growth - 1)
          IN  /\ new \subseteq Units /\ new \cap heap = {}
              /\ heap' = heap \cup new
              /\ size' = [size EXCEPT ![vaddr] = Growth]
              /\ call' = [call EXCEPT !.op = "acquire", !.bp = vaddr, !.p = freep]
    /\ UNCHANGED <<next, freep, used, free>>

\* no page frames, no address space, or no page table: kmalloc returns NULL.  In
\* the two latter cases the page frames are not given back.
acquire_more_heap_fails ==
    /\ Searching /\ ~Enough /\ call.p = freep
    /\ call' = Idle
    /\ UNCHANGED <<next, size, freep, heap, used, free>>

-----------------------------------------------------------------------------
(***************************************************************************)
(* kfree, called by the owner of a block or by acquire_more_heap.          *)
(***************************************************************************)
kfree(x) ==
    /\ call = Idle
    /\ used' = used \ {x}
    /\ call' = [Idle EXCEPT !.op = "kfree", !.bp = x, !.p = freep]
    /\ UNCHANGED <<next, size, freep, heap, free>>

Freeing == call.op \in {"kfree", "acquire"}

\* Mutant: nothing stops the walk before the first or behind the last block.
BetweenNeighbours(bp, p, q) == bp > p /\ bp < q

\* bp lies between p and p->next, or p is the last block and bp lies behind it
\* or before the first
Between(bp, p, q) == (bp > p /\ bp < q) \/ (p >= q /\ (bp > p \/ bp < q))

find_place ==
    /\ Freeing /\ ~Between(call.bp, call.p, next[call.p])
    /\ call' = [call EXCEPT !.p = next[call.p]]
    /\ UNCHANGED <<next, size, freep, heap, used, free>>

\* What kmalloc does next: its loop goes on behind p = acquire_more_heap(...).
Resumed(list, p) ==
    IF call.op = "kfree" THEN Idle
    ELSE [Idle EXCEPT !.op = "kmalloc", !.nunits = call.nunits, !.prevp = p, !.p = list[p]]

\* Mutant: the upper neighbour is joined, but stays in the list.
LinkKeepsUpper ==
    LET bp == call.bp  p == call.p  q == next[p]
        upper == bp + size[bp] = q
        bsize == IF upper THEN size[bp] + size[q] ELSE size[bp]
        lower == p + size[p] = bp
        size1 == [size EXCEPT ![bp] = bsize]
    IN  /\ Freeing /\ Between(bp, p, q)
        /\ size' = IF lower THEN [size1 EXCEPT ![p] = @ + bsize] ELSE size1
        /\ next' = IF lower THEN [next EXCEPT ![bp] = q, ![p] = q]
                            ELSE [next EXCEPT ![bp] = q, ![p] = bp]
        /\ freep' = p
        /\ free' = (free \cup (IF lower THEN {} ELSE {bp})) \ (IF upper THEN {q} ELSE {})
        /\ call' = Resumed(next', p)
        /\ UNCHANGED <<heap, used>>

\* Mutant: the block is not joined to its lower neighbour.
LinkWithoutLower ==
    LET bp == call.bp  p == call.p  q == next[p]
        upper == bp + size[bp] = q
        after == IF upper THEN next[q] ELSE q
    IN  /\ Freeing /\ Between(bp, p, q)
        /\ size' = [size EXCEPT ![bp] = IF upper THEN @ + size[q] ELSE @]
        /\ next' = [next EXCEPT ![bp] = after, ![p] = bp]
        /\ freep' = p
        /\ free' = (free \cup {bp}) \ (IF upper THEN {q} ELSE {})
        /\ call' = Resumed(next', p)
        /\ UNCHANGED <<heap, used>>

\* join to the upper neighbour, join to the lower neighbour, freep = p
link ==
    LET bp == call.bp  p == call.p  q == next[p]
        upper == bp + size[bp] = q
        after == IF upper THEN next[q] ELSE q
        bsize == IF upper THEN size[bp] + size[q] ELSE size[bp]
        lower == p + size[p] = bp
        size1 == [size EXCEPT ![bp] = bsize]
    IN  /\ Freeing /\ Between(bp, p, q)
        /\ size' = IF lower THEN [size1 EXCEPT ![p] = @ + bsize] ELSE size1
        /\ next' = IF lower THEN [next EXCEPT ![bp] = after, ![p] = after]
                            ELSE [next EXCEPT ![bp] = after, ![p] = bp]
        /\ freep' = p
        /\ free' = (free \cup (IF lower THEN {} ELSE {bp})) \ (IF upper THEN {q} ELSE {})
        /\ call' = Resumed(next', p)
        /\ UNCHANGED <<heap, used>>

-----------------------------------------------------------------------------
Init ==
    /\ next = [u \in Units |-> 0] /\ size = [u \in Units |-> 0]
    /\ freep = NULL
    /\ call = Idle
    /\ heap = {} /\ used = {} /\ free = {base}

Step == \/ allocate_exactly \/ allocate_tail \/ search
        \/ acquire_more_heap \/ acquire_more_heap_fails
        \/ find_place \/ link

Next == \/ \E n \in 2 .. MAX_UNITS : kmalloc(n)
        \/ \E x \in used : kfree(x)
        \/ Step

Spec == Init /\ [][Next]_vars

\* A call that has begun goes on.
FairSpec == Spec /\ WF_vars(Step)

-----------------------------------------------------------------------------
(***************************************************************************)
(* Properties.                                                             *)
(***************************************************************************)
Calls == [op : {"idle", "kmalloc", "acquire", "kfree"}, nunits : 0 .. MAX_UNITS,
          prevp : Units, p : Units, bp : Units]

\* The variables keep their types: no pointer of the allocator leaves the heap.
TypeOK ==
    /\ next \in [Units -> Units] /\ size \in [Units -> Nat]
    /\ freep \in Units \cup {NULL}
    /\ call \in Calls
    /\ heap \subseteq Units \ {base} /\ used \subseteq heap /\ free \subseteq Units

\* The blocks: owned, free, or about to be linked into the free list.
Blocks == used \cup (free \ {base}) \cup (IF Freeing THEN {call.bp} ELSE {})

\* By the sizes in their headers the blocks cover the heap exactly: no two blocks
\* overlap, and no unit is lost, however blocks are split, joined and acquired.
Partition ==
    /\ \A x \in Blocks : size[x] > 0 /\ UnitsOf(x) \subseteq heap
    /\ \A x, y \in Blocks : x # y => UnitsOf(x) \cap UnitsOf(y) = {}
    /\ \A u \in heap : \E x \in Blocks : u \in UnitsOf(x)

\* q follows p in a circle of the headers F: it is the next higher one, or p is
\* the last and q the first.
Follows(F, p, q) ==
    \/ p < q /\ \A r \in F : r <= p \/ q <= r
    \/ q <= p /\ \A r \in F : q <= r /\ r <= p

Linked(F, nx) == \A p \in F : nx[p] \in F /\ Follows(F, p, nx[p])

\* The next pointers link base and the free blocks in the order of addresses, a
\* search starts inside this circle, and two blocks side by side have been joined.
FreeList ==
    freep # NULL =>
        /\ freep \in free
        /\ Linked(free, next)
        /\ \A p, q \in free \ {base} : p + size[p] # q

\* Kmalloc implements Heap: a call of kmalloc that succeeds adds one block, kfree
\* removes one, and no other step touches what callers own, their headers included.
H == INSTANCE Heap WITH
        blocks <- {[addr |-> x + 1, len |-> size[x] - 1] : x \in used}
ImplementsHeap == H!Spec

\* Every call returns: the search of kmalloc ends at a block that is big enough or
\* for want of memory, and kfree finds the place of its block.
CallsReturn == (call # Idle) ~> (call = Idle)
=============================================================================
