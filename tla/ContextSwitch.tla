---------------------------- MODULE ContextSwitch ----------------------------
(***************************************************************************)
(* What runs after schedule() has chosen: the interrupt stubs of           *)
(* kernel/isr/isr_stub.asm, the single kernel stack that kernel/gdt/gdt.c  *)
(* gives the TSS, and the page directory kernel/exec/exec.c attaches to a  *)
(* process.  Every step is a step of ProcessTable with its machine part    *)
(* added.                                                                  *)
(*                                                                         *)
(* An interrupt saves the interrupted context as a frame on a stack.  In   *)
(* ring 0 the stack is the one in use; from ring 3 the processor starts at *)
(* the top of the TSS stack, which all processes share.  A frame is        *)
(* represented by the pid of the process whose registers it holds.         *)
(***************************************************************************)
EXTENDS ProcessTable

CONSTANT ManyUsers  \* may more than one ring-3 process be alive at a time?

\* "thread": kernel code; "utest": ring 3 in the kernel's address space;
\* "elf": ring 3 in an address space of its own; "fork": no code at all.
Kinds == {"none", "thread", "utest", "elf", "fork"}

\* Where a frame can lie: the process's own stack, the top of the TSS stack,
\* and below a system call's frame on the TSS stack.
Own(s) == <<"own", s>>
TssTop == <<"tss", 0>>
TssInSyscall == <<"tss", 1>>
Addrs == {Own(s) : s \in Slots} \cup {TssTop, TssInSyscall}

ASSUME MachineAssumption == ManyUsers \in BOOLEAN /\ NULL \notin Addrs

VARIABLES
    kind,           \* what code the slot's process executes
    esp,            \* process_t.esp, NULL for 0
    frame,          \* stack memory: whose registers lie at an address
    user_page_dir,  \* process_t.user_page_dir: 0, or named by its owner's pid
    cpu,            \* whose registers, and which page directory, are loaded
    starting        \* the slot exec_elf_from_disk fills in under cli, or NULL

machine == <<kind, esp, frame, user_page_dir, cpu, starting>>
cvars == <<vars, machine>>

Ring3(s) == kind[s] \in {"utest", "elf"}
MayEnterRing3 == ManyUsers \/ \A s \in Slots : ~Ring3(s)

CTypeOK ==
    /\ TypeOK
    /\ kind \in [Slots -> Kinds]
    /\ esp \in [Slots -> Addrs \cup {NULL}]
    /\ frame \in [Addrs -> Nat]
    /\ user_page_dir \in [Slots -> Nat]
    /\ cpu \in [ctx : Nat, cr3 : Nat]
    /\ starting \in Slots \cup {NULL}

CInit ==
    /\ Init
    /\ kind = [s \in Slots |-> IF s = Shell THEN "thread" ELSE "none"]
    /\ esp = [s \in Slots |-> NULL]
    /\ frame = [a \in Addrs |-> 0]
    /\ user_page_dir = [s \in Slots |-> 0]
    /\ cpu = [ctx |-> 0, cr3 |-> 0]
    /\ starting = NULL

-----------------------------------------------------------------------------
(* The frame a new process starts from lies on its own stack, whichever    *)
(* ring it will run in.                                                    *)

\* Mutants: p->esp is left as the slot's last user set it; it is computed
\* before the stack is there.
NewFrameNoEsp(p, k) ==
    /\ FirstUnused(p)
    /\ kind' = [kind EXCEPT ![p] = k]
    /\ esp' = esp

NewFrameNoStack(p, k) ==
    /\ FirstUnused(p)
    /\ kind' = [kind EXCEPT ![p] = k]
    /\ esp' = [esp EXCEPT ![p] = Own(NULL)]

NewFrame(p, k) ==
    /\ FirstUnused(p)
    /\ kind' = [kind EXCEPT ![p] = k]
    /\ esp' = [esp EXCEPT ![p] = Own(p)]

\* The shell command spawn, and utest until it leaves the kernel.
Spawn ==
    /\ starting = NULL
    /\ ShellCreate
    /\ \E p \in Slots :
        /\ NewFrame(p, "thread")
        /\ frame' = [frame EXCEPT ![Own(p)] = next_pid]
    /\ UNCHANGED <<user_page_dir, cpu, starting>>

\* The shell command run: cli and process_create_user ...
ExecCreate ==
    /\ starting = NULL
    /\ MayEnterRing3
    /\ ShellCreate
    /\ \E p \in Slots :
        /\ NewFrame(p, "elf")
        /\ frame' = [frame EXCEPT ![Own(p)] = next_pid]
        /\ starting' = p
    /\ UNCHANGED <<user_page_dir, cpu>>

\* ... then the page directory, and sti.
ExecSetDir ==
    /\ starting # NULL
    /\ user_page_dir' = [user_page_dir EXCEPT ![starting] = pid[starting]]
    /\ starting' = NULL
    /\ UNCHANGED <<vars, kind, esp, frame, cpu>>

\* enter_user_mode: the thread that utest started drops to ring 3.
EnterUserMode ==
    /\ MayEnterRing3
    /\ current_process # Shell
    /\ pstate[current_process] = "RUNNING"
    /\ kind[current_process] = "thread"
    /\ kind' = [kind EXCEPT ![current_process] = "utest"]
    /\ UNCHANGED <<vars, esp, frame, user_page_dir, cpu, starting>>

\* int 0x80 from ring 3 pushes its frame on the TSS stack, and iret pops it.
SysFork ==
    /\ Ring3(current_process)
    /\ Fork
    /\ \E p \in Slots :
        /\ NewFrame(p, "fork")
        /\ frame' = [frame EXCEPT ![Own(p)] = next_pid, ![TssTop] = cpu.ctx]
    /\ UNCHANGED <<user_page_dir, cpu, starting>>

\* sys_exit never returns: the process halts inside its system call.
CExit ==
    /\ Exit
    /\ frame' = IF Ring3(current_process)
                THEN [frame EXCEPT ![TssTop] = cpu.ctx]
                ELSE frame
    /\ UNCHANGED <<kind, esp, user_page_dir, cpu, starting>>

\* reset_process_slot clears esp and user_page_dir too.
Released == {s \in Slots : pstate[s] # "UNUSED" /\ pstate'[s] = "UNUSED"}
Clear(f, v) == [s \in Slots |-> IF s \in Released THEN v ELSE f[s]]

CKill ==
    /\ starting = NULL
    /\ Kill
    /\ kind' = Clear(kind, "none")
    /\ esp' = Clear(esp, NULL)
    /\ user_page_dir' = Clear(user_page_dir, 0)
    /\ UNCHANGED <<frame, cpu, starting>>

-----------------------------------------------------------------------------
(* The timer interrupt.                                                    *)

\* Where irq0 can push the interrupted context.  The gate of int 0x80 leaves
\* interrupts on, so that one can come before isr128's cli; a process that has
\* exited halts inside its system call.
IrqFrames ==
    LET s == current_process IN
    IF ~Ring3(s) THEN {Own(s)}
    ELSE IF pstate[s] = "ZOMBIE" THEN {TssInSyscall} ELSE {TssTop, TssInSyscall}

\* Below a system call's frame there is that frame.
Pushed(a) == IF a = TssInSyscall THEN {TssTop, TssInSyscall} ELSE {a}

\* The stacks after an interrupt that pushed its frame at a.
Interrupted(a) == [x \in Addrs |-> IF x \in Pushed(a) THEN cpu.ctx ELSE frame[x]]

\* Mutant: the stub takes the frame under its feet, not the one asked for.
RestoreOwnFrame(mem, a, c) ==
    [ctx |-> mem[a], cr3 |-> user_page_dir[c]]

\* irq_common_stub returns through the frame at a, or, when schedule() has
\* left sched_switch_esp nonzero, through the frame of the chosen process c,
\* loading its page directory.
Restore(mem, a, c) ==
    IF c = current_process \/ esp[c] = NULL
    THEN [cpu EXCEPT !.ctx = mem[a]]
    ELSE [ctx |-> mem[esp[c]], cr3 |-> user_page_dir[c]]

\* Mutant: the shell is preempted between the creation and the page directory.
CTickAnyTime ==
    /\ Tick
    /\ \E a \in IrqFrames :
        /\ frame' = Interrupted(a)
        /\ cpu' = Restore(frame', a, current_process')
        /\ esp' = IF pstate[current_process] # "ZOMBIE" /\ quantum_count + 1 >= Quantum
                  THEN [esp EXCEPT ![current_process] = a]
                  ELSE Clear(esp, NULL)
    /\ kind' = Clear(kind, "none")
    /\ user_page_dir' = Clear(user_page_dir, 0)
    /\ UNCHANGED starting

\* schedule() records the frame when the quantum is over, before it looks for
\* another process; a dead process's is not recorded.
CTick ==
    /\ starting = NULL
    /\ Tick
    /\ \E a \in IrqFrames :
        /\ frame' = Interrupted(a)
        /\ cpu' = Restore(frame', a, current_process')
        /\ esp' = IF pstate[current_process] # "ZOMBIE" /\ quantum_count + 1 >= Quantum
                  THEN [esp EXCEPT ![current_process] = a]
                  ELSE Clear(esp, NULL)
    /\ kind' = Clear(kind, "none")
    /\ user_page_dir' = Clear(user_page_dir, 0)
    /\ UNCHANGED starting

CNext ==
    \/ Spawn \/ ExecCreate \/ ExecSetDir \/ EnterUserMode
    \/ SysFork \/ CExit \/ CKill \/ CTick

CSpec == CInit /\ [][CNext]_cvars

-----------------------------------------------------------------------------
(* Properties                                                              *)

\* The registers the processor runs with are those of the process that the
\* scheduler believes is running: the stub "restores that frame and irets
\* into the new process" (isr_stub.asm:133).
RunsCurrent == cpu.ctx = pid[current_process]

\* A process that can be chosen has a frame of its own to resume from, with
\* the system call's it was interrupted in behind it, and a nonzero esp: zero
\* the stub would take for "no switch".
ReadyFrameIntact ==
    \A s \in Slots : pstate[s] = "READY" =>
        esp[s] # NULL /\ \A a \in Pushed(esp[s]) : frame[a] = pid[s]

\* A program loaded by run executes in the address space built for it, and
\* everything else in the kernel's.
OwnAddressSpace ==
    cpu.cr3 = IF kind[current_process] = "elf" THEN pid[current_process] ELSE 0
=============================================================================
