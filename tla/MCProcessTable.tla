--------------------------- MODULE MCProcessTable ---------------------------
(* ProcessTable and the history of Turns with a table of four slots: the    *)
(* shell and three others, so that running processes and forked zombies     *)
(* fill the ring in every order, the table is full, slots and stacks are    *)
(* used again, and two processes can pass each other while a third waits.   *)
EXTENDS Turns
=============================================================================
