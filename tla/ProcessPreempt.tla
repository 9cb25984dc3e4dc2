--------------------------- MODULE ProcessPreempt ---------------------------
(***************************************************************************)
(* process_create and process_kill as the shell's commands execute them:   *)
(* one access to shared memory at a time, with the timer interrupt, and    *)
(* through it any other process, free to come between two accesses.  The   *)
(* command run brackets the creation with cli and sti                      *)
(* (kernel/exec/exec.c); spawn, utest and kill (kernel/shell/shell.c) run  *)
(* with interrupts on.  System calls and the timer handler run with        *)
(* interrupts off and stay the atomic steps of ProcessTable.               *)
(***************************************************************************)
EXTENDS ProcessTable

VARIABLES
    cmd,        \* the command being executed, or "idle"
    pc,         \* the next access of that command
    p,          \* process_create's and process_kill's p
    prev,       \* process_kill's prev
    block,      \* process_create's stack
    reg         \* the value loaded and not stored yet

shell == <<cmd, pc, p, prev, block, reg>>
pvars == <<vars, shell>>

PTypeOK ==
    /\ TypeOK
    /\ cmd \in {"idle", "run", "spawn", "kill"}
    /\ pc \in {"find", "alloc", "load_pid", "fill", "load_next", "link",
               "walk", "match", "unlink", "reset", "lost"}
    /\ p \in Slots \cup {NULL}
    /\ prev \in Slots \cup {NULL}
    /\ block \in Stacks \cup {NULL}
    /\ reg \in Nat \cup {NULL}

PInit ==
    /\ Init
    /\ cmd = "idle"
    /\ pc = "find"
    /\ p = NULL /\ prev = NULL /\ block = NULL /\ reg = NULL

Creating == cmd \in {"run", "spawn"}
At(l) == current_process = Shell /\ cmd # "idle" /\ pc = l

Done ==
    /\ cmd' = "idle"
    /\ pc' = "find"
    /\ p' = NULL /\ prev' = NULL /\ block' = NULL /\ reg' = NULL

-----------------------------------------------------------------------------
(* process_create(_user), in the order of the compiled code.               *)

\* The loop over the table; none UNUSED returns NULL.
Find(command) ==
    /\ current_process = Shell /\ cmd = "idle"
    /\ next_pid <= MaxPid
    /\ \E s \in Slots : FirstUnused(s) /\ p' = s
    /\ cmd' = command
    /\ pc' = "alloc"
    /\ UNCHANGED <<vars, prev, block, reg>>

Alloc ==
    /\ At("alloc")
    /\ IF live = Stacks
       THEN Done /\ UNCHANGED live
       ELSE /\ block' \in Stacks \ live
            /\ live' = live \cup {block'}
            /\ pc' = "load_pid"
            /\ UNCHANGED <<cmd, p, prev, reg>>
    /\ UNCHANGED <<pstate, pid, next, stack, run_queue, current_process, next_pid,
                   quantum_count>>

LoadPid ==
    /\ At("load_pid")
    /\ reg' = next_pid
    /\ pc' = "fill"
    /\ UNCHANGED <<vars, cmd, p, prev, block>>

Fill ==
    /\ At("fill")
    /\ pstate' = [pstate EXCEPT ![p] = "READY"]
    /\ stack' = [stack EXCEPT ![p] = block]
    /\ pid' = [pid EXCEPT ![p] = reg]
    /\ next_pid' = reg + 1
    /\ pc' = "load_next"
    /\ UNCHANGED <<next, live, run_queue, current_process, quantum_count, cmd, p, prev,
                   block, reg>>

LoadNext ==
    /\ At("load_next")
    /\ reg' = next[current_process]
    /\ pc' = "link"
    /\ UNCHANGED <<vars, cmd, p, prev, block>>

Link ==
    /\ At("link")
    /\ next' = [next EXCEPT ![p] = reg, ![current_process] = p]
    /\ Done
    /\ UNCHANGED <<pstate, pid, stack, live, run_queue, current_process, next_pid,
                   quantum_count>>

-----------------------------------------------------------------------------
(* process_kill                                                            *)

KillStart ==
    /\ current_process = Shell /\ cmd = "idle"
    /\ cmd' = "kill"
    /\ reg' \in 1 .. next_pid - 1
    /\ prev' = run_queue /\ p' = run_queue
    /\ pc' = "walk"
    /\ UNCHANGED <<vars, block>>

\* One turn of the do-while.  Past a NULL link there is no process to read.
Walk ==
    /\ At("walk")
    /\ \/ /\ pid[p] = reg
          /\ pc' = "match"
          /\ UNCHANGED <<cmd, p, prev, block, reg>>
       \/ /\ pid[p] # reg
          /\ next[p] = NULL
          /\ pc' = "lost"
          /\ UNCHANGED <<cmd, p, prev, block, reg>>
       \/ /\ pid[p] # reg
          /\ next[p] \notin {NULL, run_queue}
          /\ prev' = p
          /\ p' = next[p]
          /\ UNCHANGED <<cmd, pc, block, reg>>
       \/ /\ pid[p] # reg
          /\ next[p] = run_queue
          /\ Done
    /\ UNCHANGED vars

\* The checks after the loop.  No pid is given twice, so a walk that has come
\* round without a match fails the first of them as well.
Match ==
    /\ At("match")
    /\ IF pid[p] = reg /\ p # current_process
       THEN pc' = "unlink" /\ UNCHANGED <<cmd, p, prev, block, reg>>
       ELSE Done
    /\ UNCHANGED vars

KillUnlink ==
    /\ At("unlink")
    /\ next' = [next EXCEPT ![prev] = next[p]]
    /\ run_queue' = IF run_queue = p THEN next[p] ELSE run_queue
    /\ pc' = "reset"
    /\ UNCHANGED <<pstate, pid, stack, live, current_process, next_pid, quantum_count, cmd,
                   p, prev, block, reg>>

\* reset_process_slot
KillReset ==
    /\ At("reset")
    /\ pstate' = [pstate EXCEPT ![p] = "UNUSED"]
    /\ pid' = [pid EXCEPT ![p] = 0]
    /\ next' = [next EXCEPT ![p] = NULL]
    /\ stack' = [stack EXCEPT ![p] = NULL]
    /\ live' = live \ {stack[p]}
    /\ Done
    /\ UNCHANGED <<run_queue, current_process, next_pid, quantum_count>>

-----------------------------------------------------------------------------
(* Everyone else.                                                          *)

\* Mutant: run does not mask interrupts either.
InterruptAlways == Tick /\ UNCHANGED shell

\* The timer interrupt, masked while run creates its process.
Interrupt == cmd # "run" /\ Tick /\ UNCHANGED shell

Other == (Fork \/ Exit) /\ UNCHANGED shell

RunNext ==
    \/ Find("run") \/ Alloc \/ LoadPid \/ Fill \/ LoadNext \/ Link
    \/ Interrupt \/ Other

KillNext == KillStart \/ Walk \/ Match \/ KillUnlink \/ KillReset

\* The shell executes run alone, run and spawn, or run and kill.
RunSpec == PInit /\ [][RunNext]_pvars
SpawnSpec == PInit /\ [][RunNext \/ Find("spawn")]_pvars
KillSpec == PInit /\ [][RunNext \/ KillNext]_pvars

-----------------------------------------------------------------------------
(* Properties                                                              *)

\* With the shell between two commands the circular list holds exactly the
\* slots in use: a created process has been inserted "right after current
\* process in the circular list" (process.c:128).
RingIsInUseWhenIdle == cmd = "idle" => RingIsInUse

\* A creation under way, undone.
Begun == Creating /\ pc \in {"load_pid", "fill", "load_next", "link"}
Filled == Creating /\ pc \in {"load_next", "link"}
Undo(f, v) == IF Filled THEN [f EXCEPT ![p] = v] ELSE f

Table == INSTANCE ProcessTable WITH
    pstate <- Undo(pstate, "UNUSED"),
    pid <- Undo(pid, 0),
    stack <- Undo(stack, NULL),
    next_pid <- IF Filled THEN pid[p] ELSE next_pid,
    live <- IF Begun THEN live \ {block} ELSE live

\* The creation that run performs is one step of ProcessTable, taken when the
\* new process is linked: no other process sees it half done.
CreateIsAtomic == Table!Spec
=============================================================================
