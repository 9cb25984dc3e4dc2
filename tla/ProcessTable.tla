---------------------------- MODULE ProcessTable ----------------------------
(***************************************************************************)
(* The process table and round-robin scheduler of kernel/process/process.c *)
(* with each call taken as one step.  Every entry runs with interrupts off *)
(* in the kernel except the shell's spawn, utest and kill commands, whose  *)
(* interleaving with the timer is the subject of ProcessPreempt.           *)
(*                                                                         *)
(* The table is MAX_PROCS slots; those in use form a circular singly       *)
(* linked list through their next pointers, entered at run_queue.  Slot 0  *)
(* is the kernel thread that runs the shell.                               *)
(***************************************************************************)
EXTENDS Integers

CONSTANTS
    MaxProcs,       \* MAX_PROCS
    Quantum,        \* SCHED_QUANTUM, ticks
    MaxPid,         \* bound of the model: pids handed out
    Stacks,         \* heap blocks kmalloc(PROC_STACK) can return
    NULL

Slots == 0 .. MaxProcs - 1
Shell == 0

ASSUME ConstantsAssumption ==
    /\ MaxProcs \in Nat /\ MaxProcs >= 2
    /\ Quantum \in Nat \ {0}
    /\ MaxPid \in Nat
    /\ NULL \notin Slots \cup Stacks

VARIABLES
    pstate,             \* process_t.state
    pid,
    next,
    stack,
    run_queue,
    current_process,
    next_pid,
    quantum_count,      \* the static of schedule()
    live                \* stack blocks the heap has handed out

ring == <<pstate, pid, next, stack, live>>
vars == <<ring, run_queue, current_process, next_pid, quantum_count>>

\* PROC_BLOCKED is declared and never assigned; PROC_DEAD is PROC_ZOMBIE.
States == {"READY", "RUNNING", "ZOMBIE", "UNUSED"}

InUse == {s \in Slots : pstate[s] # "UNUSED"}

\* The slots a walk along next visits, starting at s.
Reach(s) ==
    {t \in Slots : \A S \in SUBSET Slots :
        (s \in S /\ \A u \in S : next[u] \in S \cup {NULL}) => t \in S}

TypeOK ==
    /\ pstate \in [Slots -> States]
    /\ pid \in [Slots -> Nat]
    /\ next \in [Slots -> Slots \cup {NULL}]
    /\ stack \in [Slots -> Stacks \cup {NULL}]
    /\ run_queue \in Slots
    /\ current_process \in Slots
    /\ next_pid \in Nat
    /\ quantum_count \in 0 .. Quantum - 1
    /\ live \in SUBSET Stacks

Init ==
    /\ pstate = [s \in Slots |-> IF s = Shell THEN "RUNNING" ELSE "UNUSED"]
    /\ pid = [s \in Slots |-> 0]
    /\ next = [s \in Slots |-> IF s = Shell THEN Shell ELSE NULL]
    /\ stack = [s \in Slots |-> NULL]
    /\ run_queue = Shell
    /\ current_process = Shell
    /\ next_pid = 1
    /\ quantum_count = 0
    /\ live = {}

-----------------------------------------------------------------------------
(* process_create and process_create_user differ in the frame they build,  *)
(* which no scheduling decision reads.  A NULL return (no UNUSED slot, no  *)
(* heap block) changes nothing.                                            *)

FirstUnused(p) ==
    /\ p \in Slots \ {Shell}
    /\ pstate[p] = "UNUSED"
    /\ \A q \in 1 .. p - 1 : pstate[q] # "UNUSED"

\* The new slot goes right after the current one; st is the state the caller
\* leaves it in.
Create(st) ==
    \E p \in Slots, b \in Stacks \ live :
        /\ FirstUnused(p)
        /\ next_pid <= MaxPid
        /\ pid' = [pid EXCEPT ![p] = next_pid]
        /\ next_pid' = next_pid + 1
        /\ pstate' = [pstate EXCEPT ![p] = st]
        /\ stack' = [stack EXCEPT ![p] = b]
        /\ live' = live \cup {b}
        /\ next' = [next EXCEPT ![p] = next[current_process], ![current_process] = p]
        /\ UNCHANGED <<run_queue, current_process, quantum_count>>

\* The shell commands spawn, utest and run.
ShellCreate ==
    /\ current_process = Shell
    /\ Create("READY")

\* sys_fork: a child that is a zombie from birth.
Fork ==
    /\ current_process # Shell
    /\ pstate[current_process] = "RUNNING"
    /\ Create("ZOMBIE")

\* sys_exit, or a kernel thread at its end: the process marks itself dead and
\* halts until the timer takes the CPU away.
Exit ==
    /\ current_process # Shell
    /\ pstate[current_process] = "RUNNING"
    /\ pstate' = [pstate EXCEPT ![current_process] = "ZOMBIE"]
    /\ UNCHANGED <<pid, next, stack, live, run_queue, current_process, next_pid,
                   quantum_count>>

\* Mutants: the predecessor keeps its link; the stack is not freed.
UnlinkKeepsLink(prev, p) ==
    /\ next' = [next EXCEPT ![p] = NULL]
    /\ run_queue' = IF run_queue = p THEN next[p] ELSE run_queue
    /\ stack' = [stack EXCEPT ![p] = NULL]
    /\ live' = live \ {stack[p]}
    /\ pid' = [pid EXCEPT ![p] = 0]

UnlinkLeaksStack(prev, p) ==
    /\ next' = [next EXCEPT ![prev] = next[p], ![p] = NULL]
    /\ run_queue' = IF run_queue = p THEN next[p] ELSE run_queue
    /\ stack' = [stack EXCEPT ![p] = NULL]
    /\ live' = live
    /\ pid' = [pid EXCEPT ![p] = 0]

\* Unlink p, whose predecessor is prev, and reset_process_slot(p).
Unlink(prev, p) ==
    /\ next' = [next EXCEPT ![prev] = next[p], ![p] = NULL]
    /\ run_queue' = IF run_queue = p THEN next[p] ELSE run_queue
    /\ stack' = [stack EXCEPT ![p] = NULL]
    /\ live' = live \ {stack[p]}
    /\ pid' = [pid EXCEPT ![p] = 0]

\* The shell command kill.  -1 (no such pid) and -2 (the caller) change nothing.
Kill ==
    /\ current_process = Shell
    /\ \E p \in Reach(run_queue) \ {current_process} :
        /\ pid[p] # pid[current_process]
        /\ \E prev \in Slots :
            /\ next[prev] = p
            /\ Unlink(prev, p)
        /\ pstate' = [pstate EXCEPT ![p] = "UNUSED"]
    /\ UNCHANGED <<current_process, next_pid, quantum_count>>

-----------------------------------------------------------------------------
(* schedule(), called by the timer interrupt on every tick.                *)

Others == Reach(current_process) \ {current_process}

\* The walk from current_process->next comes back without meeting READY.
NoneReady == \A s \in Others : pstate[s] # "READY"

\* Mutants: the walk takes any slot but a running one; the table is scanned
\* from its start instead of the ring from the current process.
FirstNotRunning(c) ==
    /\ c \in Others
    /\ c = next[current_process]
    /\ pstate[c] # "RUNNING"

FirstInTable(c) ==
    /\ c \in Others
    /\ pstate[c] = "READY"
    /\ \A s \in Others : s < c => pstate[s] # "READY"

\* c is the first READY slot of that walk: P holds the slots passed before it.
FirstReady(c) ==
    /\ c \in Others
    /\ pstate[c] = "READY"
    /\ \E P \in SUBSET Others :
        /\ c \notin P
        /\ next[current_process] \in P \cup {c}
        /\ \A s \in P : pstate[s] # "READY" /\ next[s] \in P \cup {c}

\* Mutant: the dead process is left on the ring, not reaped.
TickDeadNotReaped ==
    /\ pstate[current_process] = "ZOMBIE"
    /\ \E c \in Slots :
        /\ FirstReady(c)
        /\ pstate' = [pstate EXCEPT ![c] = "RUNNING"]
        /\ current_process' = c
    /\ quantum_count' = 0
    /\ UNCHANGED <<pid, next, stack, live, run_queue, next_pid>>

\* The current process is dead: reap it and run the next READY one.  With
\* none, the dead process is put back to RUNNING.
TickDead ==
    /\ pstate[current_process] = "ZOMBIE"
    /\ IF NoneReady
       THEN /\ pstate' = [pstate EXCEPT ![current_process] = "RUNNING"]
            /\ UNCHANGED <<pid, next, stack, live, run_queue, current_process, quantum_count>>
       ELSE \E c, prev \in Slots :
            /\ FirstReady(c)
            /\ next[prev] = current_process
            /\ Unlink(prev, current_process)
            /\ pstate' = [pstate EXCEPT ![current_process] = "UNUSED", ![c] = "RUNNING"]
            /\ current_process' = c
            /\ quantum_count' = 0
    /\ UNCHANGED next_pid

\* Mutant: the quantum ends one tick late.
TickCountLate ==
    /\ pstate[current_process] # "ZOMBIE"
    /\ quantum_count < Quantum
    /\ quantum_count' = quantum_count + 1
    /\ UNCHANGED <<ring, run_queue, current_process, next_pid>>

\* The current process still has part of its quantum.
TickCount ==
    /\ pstate[current_process] # "ZOMBIE"
    /\ quantum_count + 1 < Quantum
    /\ quantum_count' = quantum_count + 1
    /\ UNCHANGED <<ring, run_queue, current_process, next_pid>>

\* Mutant: the process that loses the CPU stays RUNNING.
TickSwitchKeepsRunning ==
    /\ pstate[current_process] # "ZOMBIE"
    /\ quantum_count + 1 >= Quantum
    /\ quantum_count' = 0
    /\ \E c \in Slots :
        /\ FirstReady(c)
        /\ pstate' = [pstate EXCEPT ![c] = "RUNNING"]
        /\ current_process' = c
    /\ UNCHANGED <<pid, next, stack, live, run_queue, next_pid>>

\* The quantum is over: the next READY process runs, or the same one again.
TickSwitch ==
    /\ pstate[current_process] # "ZOMBIE"
    /\ quantum_count + 1 >= Quantum
    /\ quantum_count' = 0
    /\ IF NoneReady
       THEN UNCHANGED <<pstate, current_process>>
       ELSE \E c \in Slots :
            /\ FirstReady(c)
            /\ pstate' = [pstate EXCEPT ![current_process] = "READY", ![c] = "RUNNING"]
            /\ current_process' = c
    /\ UNCHANGED <<pid, next, stack, live, run_queue, next_pid>>

Tick == TickDead \/ TickCount \/ TickSwitch

Next == ShellCreate \/ Fork \/ Exit \/ Kill \/ Tick

Spec == Init /\ [][Next]_vars

-----------------------------------------------------------------------------
(* Properties                                                              *)

\* The list walked from run_queue (by kill, ps and the task manager) and the
\* one walked from current_process (by schedule) are the same ring, and it
\* holds exactly the slots in use: no live process is lost, no recycled slot
\* is still linked, and every do-while of process.c comes back.
RingIsInUse ==
    /\ Reach(run_queue) = InUse
    /\ Reach(current_process) = InUse
    /\ \A s \in InUse : next[s] \in InUse
    /\ \A s, t \in InUse : next[s] = next[t] => s = t

\* One process runs, and it is the current one; the current one may instead
\* have just died, and then nothing else is RUNNING.
OneRunning ==
    /\ pstate[current_process] \in {"RUNNING", "ZOMBIE"}
    /\ \A s \in Slots \ {current_process} : pstate[s] # "RUNNING"

\* Every stack block taken from the heap belongs to exactly one slot in use,
\* through create, fork, kill and reaping; only the shell has none.
StackOwned ==
    /\ \A s \in Slots : stack[s] = NULL <=> s \in {Shell} \cup (Slots \ InUse)
    /\ \A s, t \in InUse \ {Shell} : stack[s] = stack[t] => s = t
    /\ live = {stack[s] : s \in InUse \ {Shell}}

\* A dead process never runs again: schedule()'s fallback that puts a dead
\* process back to RUNNING is not taken, and a fork's zombie child is not
\* dispatched on its frame with a NULL entry.
ZombieStaysDead ==
    [][\A s \in Slots :
        pstate[s] = "ZOMBIE" => pstate'[s] \in {"ZOMBIE", "UNUSED"}]_vars

\* Round robin starves nobody: a READY process is dispatched or killed.
ReadyGetsCpu ==
    \A s \in Slots : (pstate[s] = "READY") ~> (pstate[s] # "READY")

\* A process that exits gives its slot and its stack back.
ExitedIsReaped ==
    \A s \in Slots :
        (current_process = s /\ pstate[s] = "ZOMBIE") ~> (pstate[s] = "UNUSED")
=============================================================================
