------------------------------ MODULE Allocator ------------------------------
(***************************************************************************)
(* What kmalloc and kfree promise their callers: a block of memory that    *)
(* nobody else holds, until it is given back.  Any free place will do.     *)
(***************************************************************************)
EXTENDS Integers

CONSTANT HeapSize       \* HEAP_SIZE, in the units of the model

VARIABLE held           \* the blocks in callers' hands: first and last address

Blocks == [lo : 0 .. HeapSize, hi : 0 .. HeapSize]

Disjoint(a, b) == a.hi < b.lo \/ b.hi < a.lo

Init == held = {}

Malloc == \E b \in Blocks :
    /\ b.lo <= b.hi
    /\ \A a \in held : Disjoint(a, b)
    /\ held' = held \cup {b}

Free == \E b \in held : held' = held \ {b}

Next == Malloc \/ Free

Spec == Init /\ [][Next]_held
=============================================================================
