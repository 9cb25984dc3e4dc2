-------------------------------- MODULE Turns --------------------------------
(***************************************************************************)
(* The order in which schedule() of kernel/process/process.c gives turns:  *)
(* ProcessTable with a history variable, which no step depends on.         *)
(***************************************************************************)
EXTENDS ProcessTable

VARIABLE served     \* per slot: who was given the CPU since it began to wait

tvars == <<vars, served>>

TInit ==
    /\ Init
    /\ served = [s \in Slots |-> {}]

\* The slot that this step gives the CPU, if it does.
Dispatched == IF current_process' = current_process THEN {} ELSE {current_process'}

\* A slot that is reset is forgotten: what takes it next is another process.
TNext ==
    /\ Next
    /\ served' = [s \in Slots |->
            IF pstate[s] = "READY" THEN (served[s] \cup Dispatched) \cap InUse'
                                   ELSE Dispatched]

TSpec == TInit /\ [][TNext]_tvars

\* The timer keeps interrupting; nothing obliges a process to do anything.
TFairSpec == TSpec /\ WF_vars(Tick)

-----------------------------------------------------------------------------
(* Properties                                                              *)

\* Nobody overtakes twice: while a process waits no other one is given the
\* CPU a second time, though processes enter the ring ahead of those that
\* wait and leave it anywhere.  The shell's loop thus waits for at most one
\* quantum of each other process.
NoOvertaking ==
    [][\A s \in Slots :
        pstate[s] = "READY" /\ current_process' # current_process
            => current_process' \notin served[s]]_tvars
=============================================================================
