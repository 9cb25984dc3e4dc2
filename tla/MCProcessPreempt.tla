--------------------------- MODULE MCProcessPreempt ---------------------------
(* ProcessPreempt with a quantum of one tick, so that a switch can follow    *)
(* every access, and three slots beside the shell's.                         *)
EXTENDS ProcessPreempt
=============================================================================
