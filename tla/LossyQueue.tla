----------------------------- MODULE LossyQueue -----------------------------
(***************************************************************************)
(* What the rings between an interrupt and the desktop promise: what the   *)
(* reader looks at and takes out is what was put in, in that order, each   *)
(* once, but for the newest, which is lost when the queue is full.         *)
(***************************************************************************)
EXTENDS Naturals, Sequences

CONSTANTS Items, Capacity

VARIABLES
    queue,
    hand        \* the copy of the oldest item the reader has made, or <<>>

QInit == queue = <<>> /\ hand = <<>>

Put(x) ==
    /\ Len(queue) < Capacity
    /\ queue' = Append(queue, x)
    /\ UNCHANGED hand

Look ==
    /\ queue # <<>>
    /\ hand' = <<Head(queue)>>
    /\ UNCHANGED queue

Take ==
    /\ queue # <<>>
    /\ hand = <<Head(queue)>>
    /\ queue' = Tail(queue)
    /\ hand' = <<>>

QSpec == QInit /\ [][(\E x \in Items : Put(x)) \/ Look \/ Take]_<<queue, hand>>
=============================================================================
