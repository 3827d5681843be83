------------------------------ MODULE MCKmalloc ------------------------------
(***************************************************************************)
(* TLC instance of Kmalloc.                                                *)
(***************************************************************************)
EXTENDS Kmalloc

\* States that differ only in memory that is no header, or in a next field outside
\* the free list, are the same: it is written before it is read again.
View == <<[u \in free |-> next[u]], [u \in Blocks |-> size[u]],
          freep, call, heap, used, free>>
=============================================================================
