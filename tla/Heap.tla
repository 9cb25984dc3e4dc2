-------------------------------- MODULE Heap --------------------------------
(***************************************************************************)
(* The kernel heap of kernel/heap/heap.c: first fit over a list of blocks  *)
(* in address order, split on allocation, merged with the following block  *)
(* on release.  Each call is one step: it is when interrupts are off, as   *)
(* in system calls and schedule().                                         *)
(*                                                                         *)
(* Addresses and sizes are counted from HEAP_START in units the size of a  *)
(* header, so HeaderSize and the 16-byte rest are 1 in the program; they   *)
(* stay parameters.  The chain of next pointers is the order of list.      *)
(***************************************************************************)
EXTENDS Integers, Sequences

CONSTANTS
    HeapSize,       \* HEAP_SIZE
    HeaderSize,     \* sizeof(block_header_t)
    MinRest,        \* a block is split if more than this would be left
    Requests        \* the sizes asked of kmalloc

ASSUME HeapAssumption ==
    /\ HeaderSize \in Nat \ {0}
    /\ HeapSize \in Nat /\ HeapSize >= HeaderSize
    /\ MinRest \in Nat
    /\ Requests \subseteq Nat

VARIABLES
    list,           \* the headers from heap_head on
    owned           \* ghost: the pointers callers hold, with the size they asked for

hvars == <<list, owned>>

Header(a, n, u) == [addr |-> a, size |-> n, used |-> u]
Payload(b) == b.addr + HeaderSize
End(b) == Payload(b) + b.size

HTypeOK ==
    /\ list \in Seq([addr : Nat, size : Nat, used : BOOLEAN])
    /\ owned \subseteq [ptr : Nat, size : Requests]

HInit ==
    /\ list = <<Header(0, HeapSize - HeaderSize, FALSE)>>
    /\ owned = {}

-----------------------------------------------------------------------------

\* Mutant: the walk does not look at used.
FirstFitAny(i, n) ==
    /\ list[i].size >= n
    /\ \A j \in 1 .. i - 1 : list[j].size < n

\* The block kmalloc's walk stops at.
FirstFit(i, n) ==
    /\ ~list[i].used /\ list[i].size >= n
    /\ \A j \in 1 .. i - 1 : list[j].used \/ list[j].size < n

\* Mutant: the rest's size still counts its own header.
SplitKeepsHeader(i, n) ==
    [j \in 1 .. Len(list) + 1 |->
        IF j < i THEN list[j]
        ELSE IF j = i THEN Header(list[i].addr, n, TRUE)
        ELSE IF j = i + 1 THEN Header(Payload(list[i]) + n, list[i].size - n, FALSE)
        ELSE list[j - 1]]

\* Block i is cut after n units; the rest becomes a free block of its own.
Split(i, n) ==
    [j \in 1 .. Len(list) + 1 |->
        IF j < i THEN list[j]
        ELSE IF j = i THEN Header(list[i].addr, n, TRUE)
        ELSE IF j = i + 1 THEN Header(Payload(list[i]) + n,
                                      list[i].size - n - HeaderSize, FALSE)
        ELSE list[j - 1]]

\* Mutant: every block is cut, also one that leaves no room for a header.
KmallocAlwaysSplits(n) == \E i \in 1 .. Len(list) :
    /\ FirstFit(i, n)
    /\ list' = Split(i, n)
    /\ owned' = owned \cup {[ptr |-> Payload(list[i]), size |-> n]}

\* A request that no block fits returns NULL and changes nothing.
Kmalloc(n) == \E i \in 1 .. Len(list) :
    /\ FirstFit(i, n)
    /\ list' = IF list[i].size > n + HeaderSize + MinRest
               THEN Split(i, n)
               ELSE [list EXCEPT ![i].used = TRUE]
    /\ owned' = owned \cup {[ptr |-> Payload(list[i]), size |-> n]}

\* Block i takes in the block after it.
Merge(i) ==
    [j \in 1 .. Len(list) - 1 |->
        IF j < i THEN list[j]
        ELSE IF j = i THEN Header(list[i].addr,
                                  list[i].size + HeaderSize + list[i + 1].size, FALSE)
        ELSE list[j + 1]]

\* Mutant: the next block is taken in whether it is free or not.
KfreeMergesUsed(b) == \E i \in 1 .. Len(list) :
    /\ Payload(list[i]) = b.ptr
    /\ list' = IF i < Len(list) THEN Merge(i) ELSE [list EXCEPT ![i].used = FALSE]
    /\ owned' = owned \ {b}

\* Callers free what they hold; the header is found in front of the pointer.
Kfree(b) == \E i \in 1 .. Len(list) :
    /\ Payload(list[i]) = b.ptr
    /\ list' = IF i < Len(list) /\ ~list[i + 1].used
               THEN Merge(i)
               ELSE [list EXCEPT ![i].used = FALSE]
    /\ owned' = owned \ {b}

Malloc == \E n \in Requests : Kmalloc(n)
Free == \E b \in owned : Kfree(b)

HNext == Malloc \/ Free

HSpec == HInit /\ [][HNext]_hvars

-----------------------------------------------------------------------------
(* Properties                                                              *)

\* The blocks tile the heap: whatever was split and merged in whatever order,
\* each block ends where the next begins, and the last ends with the heap.
Tiling ==
    /\ Len(list) > 0 /\ list[1].addr = 0
    /\ \A i \in 1 .. Len(list) :
        End(list[i]) =
            IF i = Len(list) THEN HeapSize ELSE list[i + 1].addr

\* The used blocks are the ones callers hold, each at least as large as they
\* asked: none is lost, and none is handed out twice.
UsedIsOwned ==
    /\ \A i \in 1 .. Len(list) :
        list[i].used <=> \E b \in owned : b.ptr = Payload(list[i])
    /\ \A b \in owned : \E i \in 1 .. Len(list) :
        Payload(list[i]) = b.ptr /\ list[i].size >= b.size
    /\ \A b, c \in owned : b.ptr = c.ptr => b = c

\* Header and payload of every block in callers' hands, as an Allocator's
\* caller sees them.
Held == {[lo |-> b.ptr - HeaderSize, hi |-> b.ptr + b.size - 1] : b \in owned}

Abstract == INSTANCE Allocator WITH held <- Held

\* First fit with splitting and merging is an allocator.
IsAllocator == Abstract!Spec
=============================================================================
