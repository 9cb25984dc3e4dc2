------------------------------- MODULE MCTetFS -------------------------------
(* TetFS on a disk of three blocks of two bytes and two entries beside the   *)
(* root.  The buffers are empty, shorter than a block, longer than one and   *)
(* longer than a file may be; one file is bundled.                           *)
EXTENDS TetFS

SmallBuffers == {<<>>, <<1>>, <<2, 1, 2>>, <<1, 1, 1, 1, 1>>}
OneSeed == <<[name |-> "s", buf |-> <<2, 1, 2>>]>>
=============================================================================
