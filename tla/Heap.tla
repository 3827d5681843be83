--------------------------------- MODULE Heap ---------------------------------
(***************************************************************************)
(* What kmalloc and kfree promise their callers: a block of memory that    *)
(* stays theirs, and shares nothing with another block, until they free it.*)
(***************************************************************************)
EXTENDS Integers

VARIABLE blocks  \* the blocks callers own: [addr, len]

Memory(b) == b.addr .. (b.addr + b.len - 1)

\* any block that is not empty and shares no unit with another one
Allocate ==
    \E new \in blocks' \ blocks :
        /\ new \in [addr : Nat, len : Nat \ {0}]
        /\ \A b \in blocks : Memory(new) \cap Memory(b) = {}
        /\ blocks' = blocks \cup {new}

Free == \E b \in blocks : blocks' = blocks \ {b}

Init == blocks = {}
Next == Allocate \/ Free
Spec == Init /\ [][Next]_blocks
=============================================================================
