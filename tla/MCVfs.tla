-------------------------------- MODULE MCVfs --------------------------------
(* An open file on a disk of three blocks of two bytes and two entries beside *)
(* the root.  The buffers are empty, shorter than a block, longer than one    *)
(* and longer than a file may be, so that files move; one file is bundled.    *)
(* Programs read one byte or three at a time.                                 *)
EXTENDS Vfs

SmallBuffers == {<<>>, <<1>>, <<2, 1, 2>>, <<1, 1, 1, 1, 1>>}
OneSeed == <<[name |-> "s", buf |-> <<2, 1, 2>>]>>
=============================================================================
