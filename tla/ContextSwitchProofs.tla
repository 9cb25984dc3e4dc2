-------------------------- MODULE ContextSwitchProofs --------------------------
(***************************************************************************)
(* The page directory loaded is that of the process the scheduler has      *)
(* chosen and, with one program in ring 3 at a time, so are the registers  *)
(* and the frames, whatever the size of the table: proofs about            *)
(* ContextSwitch.                                                          *)
(***************************************************************************)
EXTENDS ContextSwitch, ProcessTableProofs

\* The addresses of frames are told apart by process, and by stack.
LEMMA AddrsApart ==
    /\ \A s, t : Own(s) = Own(t) => s = t
    /\ \A s : Own(s) # TssTop /\ Own(s) # TssInSyscall
    /\ TssTop # TssInSyscall
    /\ \A s \in Slots : Own(s) \in Addrs \ {NULL}
    /\ {TssTop, TssInSyscall} \subseteq Addrs \ {NULL}
BY MachineAssumption DEF Own, TssTop, TssInSyscall, Addrs

-----------------------------------------------------------------------------
(* The machine takes only steps of the process table.                      *)

\* Every step of the machine is a step of the process table or leaves it.
LEMMA MachineStep == [CNext]_cvars => [Next]_vars
<1> SUFFICES ASSUME CNext PROVE Next \/ UNCHANGED vars
  BY DEF cvars
<1>1. CASE Spawn \/ ExecCreate
  BY <1>1 DEF Spawn, ExecCreate, Next
<1>2. CASE ExecSetDir \/ EnterUserMode
  BY <1>2 DEF ExecSetDir, EnterUserMode
<1>3. CASE SysFork \/ CExit \/ CKill \/ CTick
  BY <1>3 DEF SysFork, CExit, CKill, CTick, Next
<1> QED BY <1>1, <1>2, <1>3 DEF CNext

\* What isr_stub.asm and exec.c add leaves process.c's behaviour what it was:
\* all that is proved of ProcessTable holds of the machine.
THEOREM MachineImplementsTable == CSpec => Spec
<1>1. CInit => Init
  BY DEF CInit
<1> QED BY <1>1, MachineStep, PTL DEF CSpec, Spec

\* There is one first unused slot.
LEMMA FirstUnusedUnique ==
    ASSUME NEW p, NEW q, FirstUnused(p), FirstUnused(q)
    PROVE  p = q
BY DEF FirstUnused, Slots, Shell

\* The three things a tick does to what the machine part reads.
Stays ==
    /\ pstate[current_process] = "RUNNING"
    /\ UNCHANGED <<pstate, pid, current_process>>
SwitchesTo(c) ==
    /\ pstate[current_process] = "RUNNING" /\ quantum_count + 1 >= Quantum
    /\ pstate' = [pstate EXCEPT ![current_process] = "READY", ![c] = "RUNNING"]
    /\ pid' = pid
ReapsFor(c) ==
    /\ pstate[current_process] = "ZOMBIE"
    /\ pstate' = [pstate EXCEPT ![current_process] = "UNUSED", ![c] = "RUNNING"]
    /\ pid' = [pid EXCEPT ![current_process] = 0]

\* A tick of the timer either returns to the process it interrupted or
\* leaves it ready and runs another one.
LEMMA TickCases ==
    ASSUME IInv, Tick
    PROVE  \/ Stays
           \/ \E c \in Slots \ {current_process} :
                 /\ pstate[c] = "READY"
                 /\ current_process' = c
                 /\ SwitchesTo(c) \/ ReapsFor(c)
<1>1. CASE TickDead
  <2>1. ~NoneReady
    BY <1>1, DeadHasSuccessor DEF TickDead
  <2> QED BY <1>1, <2>1 DEF TickDead, FirstReady, Others, Unlink, ReapsFor
<1>2. CASE TickCount
  BY <1>2 DEF TickCount, ring, IInv, OneRunning, Stays
<1>3. CASE TickSwitch
  <2>1. pstate[current_process] = "RUNNING"
    BY <1>3 DEF TickSwitch, IInv, OneRunning
  <2> QED BY <1>3, <2>1 DEF TickSwitch, FirstReady, Others, SwitchesTo, Stays
<1> QED BY <1>1, <1>2, <1>3 DEF Tick

-----------------------------------------------------------------------------
(* The inductive invariant.                                                *)

\* A slot in use runs something; what fork makes never runs; ring 3 belongs to
\* one process at a time if that is what is assumed.
KindInv ==
    /\ kind[Shell] = "thread"
    /\ \A s \in Slots : kind[s] = "none" <=> s \notin InUse
    /\ \A s \in Slots : kind[s] = "fork" => pstate[s] = "ZOMBIE"
    /\ ~ManyUsers => \A s, t \in Slots : Ring3(s) /\ Ring3(t) => s = t

\* Only a process in ring 3 can have its frame on the shared stack, and one that
\* can be chosen has a frame.
EspInv ==
    \A s \in Slots :
        /\ esp[s] \in {NULL, Own(s), TssTop, TssInSyscall}
        /\ esp[s] \in {TssTop, TssInSyscall} => Ring3(s)
        /\ pstate[s] = "READY" => esp[s] # NULL

\* The directory is missing only while exec_elf_from_disk has interrupts off.
DirInv ==
    /\ \A s \in Slots :
        user_page_dir[s] = IF kind[s] = "elf" /\ s # starting THEN pid[s] ELSE 0
    /\ starting # NULL =>
        /\ current_process = Shell
        /\ kind[starting] = "elf" /\ pstate[starting] = "READY"

Machine ==
    /\ KindInv /\ EspInv /\ DirInv /\ OwnAddressSpace
    /\ ~ManyUsers => RunsCurrent /\ ReadyFrameIntact

CInv == IInv /\ CTypeOK /\ Machine

\* At boot the machine runs the kernel's own thread on its own stack.
LEMMA CInitCInv == CInit => CInv
<1> SUFFICES ASSUME CInit PROVE CInv
  OBVIOUS
<1> USE ConstantsAssumption DEF CInit
<1>0. Shell \in Slots
  BY DEF Slots, Shell
<1>1. IInv
  BY InitIInv
<1>2. CTypeOK
  BY <1>1 DEF IInv, CTypeOK, Kinds
<1>3. KindInv
  BY <1>0 DEF KindInv, Init, InUse, Ring3
<1>4. EspInv /\ DirInv
  BY <1>0, AddrsApart DEF EspInv, DirInv, Init
<1>5. RunsCurrent /\ ReadyFrameIntact /\ OwnAddressSpace
  BY <1>0 DEF RunsCurrent, ReadyFrameIntact, OwnAddressSpace, Init
<1> QED BY <1>1, <1>2, <1>3, <1>4, <1>5 DEF CInv, Machine

\* A process created with its frame on its own stack: the same holds again,
\* and what was known of the others.
LEMMA CreateCInv ==
    ASSUME CInv, NEW st \in {"READY", "ZOMBIE"}, Create(st), IInv',
           NEW p \in Slots, NEW k \in {"thread", "elf", "fork"}, NewFrame(p, k),
           k = "elf" /\ ~ManyUsers => \A s \in Slots : ~Ring3(s),
           k = "fork" <=> st = "ZOMBIE",
           frame' \in [Addrs -> Nat],
           frame'[Own(p)] = next_pid,
           \A s \in Slots, a \in Addrs :
              a # Own(p) /\ frame'[a] # frame[a] =>
                a = TssTop /\ (~ManyUsers => ~(pstate[s] = "READY" /\ Ring3(s))),
           UNCHANGED <<user_page_dir, cpu>>,
           starting = NULL, starting' = IF k = "elf" THEN p ELSE NULL,
           k = "elf" => current_process = Shell
    PROVE  CInv'
<1> USE ConstantsAssumption
<1>1. /\ p # Shell /\ p \notin InUse /\ pstate[p] = "UNUSED"
      /\ kind' = [kind EXCEPT ![p] = k]
      /\ esp' = [esp EXCEPT ![p] = Own(p)]
      /\ p # current_process /\ current_process \in Slots /\ Shell \in Slots
  <2>1. /\ p # Shell /\ pstate[p] = "UNUSED"
        /\ kind' = [kind EXCEPT ![p] = k]
        /\ esp' = [esp EXCEPT ![p] = Own(p)]
    BY DEF NewFrame, FirstUnused
  <2>2. current_process \in Slots /\ pstate[current_process] # "UNUSED"
    <3>1. TypeOK /\ OneRunning
      BY DEF CInv, IInv
    <3> QED BY <3>1 DEF TypeOK, OneRunning
  <2>3. Shell \in Slots
    BY DEF Slots, Shell
  <2> QED BY <2>1, <2>2, <2>3 DEF InUse
<1>2. /\ pid' = [pid EXCEPT ![p] = next_pid]
      /\ pstate' = [pstate EXCEPT ![p] = st]
      /\ current_process' = current_process
  BY FirstUnusedUnique DEF Create, NewFrame
<1>3. InUse' = InUse \cup {p}
  BY <1>1, <1>2 DEF CInv, IInv, TypeOK, InUse
<1> USE DEF CInv, CTypeOK, TypeOK, Machine
<1>4. CTypeOK'
  BY <1>1, AddrsApart DEF IInv, Kinds
<1>5. KindInv'
  BY <1>1, <1>2, <1>3 DEF KindInv, Ring3
<1>6. EspInv'
  BY <1>1, <1>2, AddrsApart DEF EspInv, Ring3
<1>7. DirInv'
  BY <1>1, <1>2 DEF KindInv, DirInv
<1>8. OwnAddressSpace' /\ (~ManyUsers => RunsCurrent')
  BY <1>1, <1>2 DEF RunsCurrent, OwnAddressSpace
<1>9. ~ManyUsers => ReadyFrameIntact'
  <2> SUFFICES ASSUME ~ManyUsers, NEW s \in Slots, pstate'[s] = "READY"
               PROVE  esp'[s] # NULL /\ \A a \in Pushed(esp'[s]) : frame'[a] = pid'[s]
    BY DEF ReadyFrameIntact
  <2>1. CASE s = p
    BY <1>1, <1>2, <2>1, AddrsApart DEF Pushed
  <2>2. CASE s # p
    <3>1. /\ pstate[s] = "READY" /\ esp'[s] = esp[s] /\ pid'[s] = pid[s]
          /\ esp[s] # NULL /\ \A a \in Pushed(esp[s]) : frame[a] = pid[s]
      BY <1>1, <1>2, <2>2 DEF ReadyFrameIntact
    <3>2. \A a \in Pushed(esp[s]) : a \in Addrs /\ a # Own(p) /\ (a = TssTop => Ring3(s))
      BY <2>2, <3>1, AddrsApart DEF EspInv, Pushed
    <3> QED BY <3>1, <3>2
  <2> QED BY <2>1, <2>2
<1> QED BY <1>4, <1>5, <1>6, <1>7, <1>8, <1>9

\* spawn, run and fork.
LEMMA CreatorsCInv ==
    ASSUME CInv, Spawn \/ ExecCreate \/ SysFork, IInv'
    PROVE  CInv'
<1> USE ConstantsAssumption
<1>1. CASE Spawn
  <2>1. PICK p \in Slots : NewFrame(p, "thread") /\ frame' = [frame EXCEPT ![Own(p)] = next_pid]
    BY <1>1 DEF Spawn
  <2>2. Create("READY") /\ starting = NULL /\ UNCHANGED <<user_page_dir, cpu, starting>>
    BY <1>1 DEF Spawn, ShellCreate
  <2>3. /\ frame' \in [Addrs -> Nat] /\ frame'[Own(p)] = next_pid
        /\ \A a \in Addrs : a # Own(p) => frame'[a] = frame[a]
    BY <2>1, AddrsApart DEF CInv, CTypeOK, TypeOK
  <2> QED BY <2>1, <2>2, <2>3, CreateCInv
<1>2. CASE ExecCreate
  <2>1. PICK p \in Slots : NewFrame(p, "elf") /\ starting' = p
                           /\ frame' = [frame EXCEPT ![Own(p)] = next_pid]
    BY <1>2 DEF ExecCreate
  <2>2. /\ Create("READY") /\ starting = NULL /\ current_process = Shell
        /\ UNCHANGED <<user_page_dir, cpu>> /\ (~ManyUsers => \A s \in Slots : ~Ring3(s))
    BY <1>2 DEF ExecCreate, ShellCreate, MayEnterRing3
  <2>3. /\ frame' \in [Addrs -> Nat] /\ frame'[Own(p)] = next_pid
        /\ \A a \in Addrs : a # Own(p) => frame'[a] = frame[a]
    BY <2>1, AddrsApart DEF CInv, CTypeOK, TypeOK
  <2> QED BY <2>1, <2>2, <2>3, CreateCInv
<1>3. CASE SysFork
  <2>1. PICK p \in Slots : NewFrame(p, "fork")
              /\ frame' = [frame EXCEPT ![Own(p)] = next_pid, ![TssTop] = cpu.ctx]
    BY <1>3 DEF SysFork
  <2>2. /\ Create("ZOMBIE") /\ starting = NULL /\ UNCHANGED <<user_page_dir, cpu, starting>>
        /\ Ring3(current_process) /\ pstate[current_process] = "RUNNING"
        /\ current_process \in Slots /\ current_process # Shell
    BY <1>3 DEF SysFork, Fork, CInv, DirInv, Machine, IInv, TypeOK
  <2>3. ~ManyUsers => \A s \in Slots : ~(pstate[s] = "READY" /\ Ring3(s))
    BY <2>2 DEF CInv, Machine, KindInv
  <2>4. /\ frame' \in [Addrs -> Nat] /\ frame'[Own(p)] = next_pid
        /\ \A a \in Addrs : a # Own(p) /\ a # TssTop => frame'[a] = frame[a]
    BY <2>1, AddrsApart DEF CInv, CTypeOK, TypeOK
  <2> QED BY <2>1, <2>2, <2>3, <2>4, CreateCInv
<1> QED BY <1>1, <1>2, <1>3

\* exec_elf_from_disk attaches the page directory.
LEMMA ExecSetDirCInv ==
    ASSUME CInv, ExecSetDir, IInv'
    PROVE  CInv'
<1> USE ConstantsAssumption DEF CInv, CTypeOK, TypeOK, Machine, ExecSetDir, vars, ring
<1>1. starting \in Slots /\ starting # current_process
  BY DEF DirInv, KindInv
<1>2. CTypeOK' /\ DirInv'
  BY <1>1 DEF DirInv
<1>3. KindInv' /\ EspInv'
  BY DEF KindInv, EspInv, InUse, Ring3
<1>4. OwnAddressSpace' /\ (~ManyUsers => RunsCurrent' /\ ReadyFrameIntact')
  BY DEF RunsCurrent, ReadyFrameIntact, OwnAddressSpace, Pushed
<1> QED BY <1>2, <1>3, <1>4

\* The thread of utest leaves the kernel; no other process is in ring 3.
LEMMA EnterUserModeCInv ==
    ASSUME CInv, EnterUserMode, IInv'
    PROVE  CInv'
<1> USE ConstantsAssumption
    DEF CInv, CTypeOK, TypeOK, Machine, EnterUserMode, MayEnterRing3, vars, ring
<1>1. CTypeOK' /\ DirInv'
  BY DEF DirInv, Kinds
<1>2. KindInv' /\ EspInv'
  BY DEF KindInv, EspInv, InUse, Ring3
<1>3. OwnAddressSpace' /\ (~ManyUsers => RunsCurrent' /\ ReadyFrameIntact')
  BY DEF RunsCurrent, ReadyFrameIntact, OwnAddressSpace, Pushed
<1> QED BY <1>1, <1>2, <1>3

\* A process in ring 3 dies in a system call, with its frame on the TSS stack,
\* where no process that is READY has one.
LEMMA CExitCInv ==
    ASSUME CInv, CExit, IInv'
    PROVE  CInv'
<1> USE ConstantsAssumption DEF CInv, CTypeOK, TypeOK, Machine
<1>1. /\ pstate[current_process] = "RUNNING" /\ current_process # Shell
      /\ pstate' = [pstate EXCEPT ![current_process] = "ZOMBIE"]
      /\ UNCHANGED <<pid, current_process, kind, esp, user_page_dir, cpu, starting>>
      /\ frame' = IF Ring3(current_process)
                  THEN [frame EXCEPT ![TssTop] = cpu.ctx] ELSE frame
  BY DEF CExit, Exit
<1>2. InUse' = InUse
  BY <1>1 DEF InUse
<1>3. CTypeOK' /\ DirInv'
  BY <1>1 DEF IInv, DirInv
<1>4. KindInv' /\ EspInv'
  BY <1>1, <1>2 DEF KindInv, EspInv, Ring3
<1>5. OwnAddressSpace' /\ (~ManyUsers => RunsCurrent')
  BY <1>1 DEF RunsCurrent, OwnAddressSpace
<1>6. ~ManyUsers => ReadyFrameIntact'
  <2> SUFFICES ASSUME ~ManyUsers, NEW s \in Slots, pstate'[s] = "READY", NEW a \in Pushed(esp[s])
               PROVE  esp[s] # NULL /\ frame'[a] = pid[s]
    BY <1>1 DEF ReadyFrameIntact, Pushed
  <2>1. s # current_process /\ esp[s] # NULL /\ frame[a] = pid[s]
    BY <1>1 DEF ReadyFrameIntact
  <2>2. Ring3(current_process) => a # TssTop
    BY <2>1, AddrsApart DEF KindInv, EspInv, Pushed
  <2> QED BY <1>1, <2>1, <2>2
<1> QED BY <1>3, <1>4, <1>5, <1>6

\* kill clears what the slot had.
LEMMA CKillCInv ==
    ASSUME CInv, CKill, IInv'
    PROVE  CInv'
<1> USE ConstantsAssumption DEF CInv, CTypeOK, TypeOK, Machine
<1>1. PICK p \in Slots \ {current_process} :
        /\ pstate' = [pstate EXCEPT ![p] = "UNUSED"]
        /\ pid' = [pid EXCEPT ![p] = 0]
        /\ pstate[p] # "UNUSED"
  <2>1. Reach(run_queue) = InUse
    BY RingIsInUseLemma DEF RingIsInUse
  <2> QED BY <2>1 DEF CKill, Kill, Unlink, InUse
<1>2. /\ current_process = Shell /\ starting = NULL
      /\ UNCHANGED <<current_process, frame, cpu, starting>>
  BY DEF CKill, Kill
<1>3. Released = {p} /\ InUse' = InUse \ {p}
  BY <1>1 DEF Released, InUse
<1>4. \A s \in Slots : /\ kind'[s] = IF s = p THEN "none" ELSE kind[s]
                       /\ esp'[s] = IF s = p THEN NULL ELSE esp[s]
                       /\ user_page_dir'[s] = IF s = p THEN 0 ELSE user_page_dir[s]
  BY <1>3 DEF CKill, Clear
<1>5. CTypeOK'
  BY <1>2 DEF CKill, Clear, Kinds, IInv
<1>6. KindInv'
  BY <1>1, <1>2, <1>3, <1>4 DEF KindInv, Ring3
<1>9. EspInv'
  BY <1>1, <1>4, AddrsApart DEF EspInv, Ring3
<1>10. DirInv'
  BY <1>1, <1>2, <1>4 DEF DirInv
<1>7. OwnAddressSpace' /\ (~ManyUsers => RunsCurrent')
  BY <1>1, <1>2, <1>4 DEF RunsCurrent, OwnAddressSpace
<1>8. ~ManyUsers => ReadyFrameIntact'
  BY <1>1, <1>2, <1>4 DEF ReadyFrameIntact, Pushed
<1> QED BY <1>5, <1>6, <1>7, <1>8, <1>9, <1>10

\* Where the timer interrupt finds the frames: those of the interrupted process
\* at its address, those of the READY processes where they were.
LEMMA InterruptedFrames ==
    ASSUME CInv, NEW a \in IrqFrames
    PROVE  /\ a \in {Own(current_process), TssTop, TssInSyscall}
           /\ a \in {TssTop, TssInSyscall} => Ring3(current_process)
           /\ a \in Addrs \ {NULL}
           /\ Interrupted(a) \in [Addrs -> Nat]
           /\ ~ManyUsers =>
                \A x \in Pushed(a) : Interrupted(a)[x] = pid[current_process]
           /\ ~ManyUsers => \A s \in Slots : pstate[s] = "READY" =>
                \A x \in Pushed(esp[s]) : Interrupted(a)[x] = pid[s]
<1> USE DEF CInv, CTypeOK, TypeOK, Machine
<1>1. a \in {Own(current_process), TssTop, TssInSyscall}
  BY DEF IrqFrames
<1>2. a \in {TssTop, TssInSyscall} => Ring3(current_process)
  BY AddrsApart DEF IrqFrames
<1>3. a \in Addrs \ {NULL} /\ Pushed(a) \subseteq Addrs
  BY <1>1, AddrsApart DEF Pushed
<1>4. cpu.ctx \in Nat /\ (~ManyUsers => cpu.ctx = pid[current_process])
  BY DEF RunsCurrent
<1>5. Interrupted(a) \in [Addrs -> Nat]
  BY <1>4 DEF Interrupted
<1>6. ~ManyUsers => \A x \in Pushed(a) : Interrupted(a)[x] = pid[current_process]
  BY <1>3, <1>4 DEF Interrupted
<1>7. ASSUME ~ManyUsers, NEW s \in Slots, pstate[s] = "READY", NEW x \in Pushed(esp[s])
      PROVE  Interrupted(a)[x] = pid[s]
  <2>1. /\ s # current_process /\ frame[x] = pid[s]
        /\ esp[s] \in {Own(s), TssTop, TssInSyscall}
        /\ esp[s] \in {TssTop, TssInSyscall} => ~Ring3(current_process)
    BY <1>2, <1>7 DEF IInv, OneRunning, ReadyFrameIntact, EspInv, KindInv
  <2>2. x \in Addrs /\ x \notin Pushed(a)
    BY <1>1, <1>2, <1>7, <2>1, AddrsApart DEF Pushed
  <2> QED BY <2>1, <2>2 DEF Interrupted
<1> QED BY <1>1, <1>2, <1>3, <1>5, <1>6, <1>7

\* The timer interrupt that returns to the process it came from.
LEMMA TickStaysCInv ==
    ASSUME CInv, CTick, IInv', Stays
    PROVE  CInv'
<1> USE ConstantsAssumption DEF CInv, CTypeOK, TypeOK, Machine
<1>1. /\ pstate[current_process] = "RUNNING" /\ starting = NULL
      /\ UNCHANGED <<pstate, pid, current_process, starting>>
  BY DEF CTick, Stays
<1>2. Released = {} /\ InUse' = InUse
  BY <1>1 DEF Released, InUse
<1>3. \A f, v : f = [s \in Slots |-> f[s]] => Clear(f, v) = f
  BY <1>2 DEF Clear
<1>4. UNCHANGED <<kind, user_page_dir>>
  BY <1>3 DEF CTick
<1>5. PICK a \in IrqFrames :
        /\ frame' = Interrupted(a)
        /\ cpu' = Restore(frame', a, current_process')
        /\ esp' = esp \/ esp' = [esp EXCEPT ![current_process] = a]
  BY <1>3 DEF CTick
<1>6. /\ cpu' = [cpu EXCEPT !.ctx = frame'[a]] /\ frame'[a] \in Nat
      /\ ~ManyUsers => frame'[a] = pid[current_process]
  BY <1>1, <1>5, InterruptedFrames DEF Restore, Pushed
<1>7. CTypeOK'
  BY <1>1, <1>4, <1>5, <1>6, InterruptedFrames DEF IInv
<1>8. KindInv' /\ DirInv'
  BY <1>1, <1>2, <1>4 DEF KindInv, DirInv, Ring3
<1>9. EspInv'
  BY <1>1, <1>4, <1>5, InterruptedFrames DEF EspInv, Ring3
<1>10. OwnAddressSpace' /\ (~ManyUsers => RunsCurrent')
  BY <1>1, <1>4, <1>6 DEF RunsCurrent, OwnAddressSpace
<1>11. ~ManyUsers => ReadyFrameIntact'
  <2> SUFFICES ASSUME ~ManyUsers, NEW s \in Slots, pstate[s] = "READY"
               PROVE  esp'[s] # NULL /\ \A x \in Pushed(esp'[s]) : frame'[x] = pid[s]
    BY <1>1 DEF ReadyFrameIntact, Pushed
  <2>1. esp'[s] = esp[s] /\ esp[s] # NULL
    BY <1>1, <1>5 DEF ReadyFrameIntact
  <2> QED BY <1>5, <2>1, InterruptedFrames
<1> QED BY <1>7, <1>8, <1>9, <1>10, <1>11

\* The one that goes on with a process that was READY.
LEMMA TickSwitchesCInv ==
    ASSUME CInv, CTick, IInv', NEW c \in Slots \ {current_process},
           pstate[c] = "READY", current_process' = c,
           SwitchesTo(c) \/ ReapsFor(c)
    PROVE  CInv'
<1> USE ConstantsAssumption DEF CInv, CTypeOK, TypeOK, Machine
<1> DEFINE o == current_process
           gone == pstate[o] = "ZOMBIE"
<1>1. /\ starting = NULL /\ starting' = NULL
      /\ pstate[o] \in {"RUNNING", "ZOMBIE"}
      /\ pstate' = [pstate EXCEPT ![o] = IF gone THEN "UNUSED" ELSE "READY",
                                  ![c] = "RUNNING"]
      /\ \A s \in Slots : pid'[s] = IF gone /\ s = o THEN 0 ELSE pid[s]
      /\ ~gone => quantum_count + 1 >= Quantum
  BY DEF CTick, SwitchesTo, ReapsFor
<1>2. Released = IF gone THEN {o} ELSE {}
  BY <1>1 DEF Released
<1>3. InUse' = InUse \ Released
  BY <1>1, <1>2 DEF InUse
<1>4. \A s \in Slots :
        /\ kind'[s] = IF gone /\ s = o THEN "none" ELSE kind[s]
        /\ user_page_dir'[s] = IF gone /\ s = o THEN 0 ELSE user_page_dir[s]
  BY <1>2 DEF CTick, Clear
<1>5. PICK a \in IrqFrames :
        /\ frame' = Interrupted(a)
        /\ cpu' = Restore(frame', a, c)
        /\ esp' = IF ~gone THEN [esp EXCEPT ![o] = a] ELSE Clear(esp, NULL)
  BY <1>1 DEF CTick
<1>6. \A s \in Slots : esp'[s] = IF s # o THEN esp[s] ELSE IF gone THEN NULL ELSE a
  BY <1>2, <1>5 DEF Clear
<1>7. esp[c] \in Addrs \ {NULL} /\ c # o /\ esp[c] \in Pushed(esp[c])
  BY DEF EspInv, Pushed
<1>8. /\ cpu' = [ctx |-> frame'[esp[c]], cr3 |-> user_page_dir[c]]
      /\ ~ManyUsers => frame'[esp[c]] = pid[c]
  BY <1>5, <1>7, InterruptedFrames DEF Restore
<1>9. CTypeOK'
  <2>1. frame' \in [Addrs -> Nat] /\ esp' \in [Slots -> Addrs \cup {NULL}]
    BY <1>5, InterruptedFrames DEF Clear
  <2>2. kind' \in [Slots -> Kinds] /\ user_page_dir' \in [Slots -> Nat]
    BY DEF CTick, Clear, Kinds
  <2> QED BY <1>1, <1>7, <1>8, <2>1, <2>2 DEF IInv
<1>10. KindInv'
  <2>1. o # Shell \/ ~gone
    BY DEF IInv, RingInv
  <2>2. Shell \in Slots /\ kind'[Shell] = "thread"
    BY <1>4, <2>1 DEF KindInv, Slots, Shell
  <2>3. \A s \in Slots : kind'[s] = "none" <=> s \notin InUse'
    BY <1>2, <1>3, <1>4 DEF KindInv
  <2>4. \A s \in Slots : kind'[s] = "fork" => pstate'[s] = "ZOMBIE"
    BY <1>1, <1>4 DEF KindInv
  <2>5. ~ManyUsers => \A s, t \in Slots : Ring3(s)' /\ Ring3(t)' => s = t
    BY <1>4 DEF KindInv, Ring3
  <2> QED BY <2>2, <2>3, <2>4, <2>5 DEF KindInv
<1>11. EspInv'
  BY <1>1, <1>4, <1>5, <1>6, InterruptedFrames, AddrsApart DEF EspInv, Ring3
<1>12. DirInv'
  BY <1>1, <1>4 DEF DirInv
<1>13. OwnAddressSpace' /\ (~ManyUsers => RunsCurrent')
  BY <1>1, <1>4, <1>7, <1>8 DEF RunsCurrent, OwnAddressSpace, DirInv
<1>14. ~ManyUsers => ReadyFrameIntact'
  <2> SUFFICES ASSUME ~ManyUsers, NEW s \in Slots, pstate'[s] = "READY"
               PROVE  esp'[s] # NULL /\ \A x \in Pushed(esp'[s]) : frame'[x] = pid'[s]
    BY DEF ReadyFrameIntact, Pushed
  <2>1. CASE s = o
    BY <1>1, <1>5, <1>6, <2>1, InterruptedFrames
  <2>2. CASE s # o
    <3>1. pstate[s] = "READY" /\ pid'[s] = pid[s] /\ esp'[s] = esp[s] /\ esp[s] # NULL
      BY <1>1, <1>6, <2>2 DEF ReadyFrameIntact
    <3> QED BY <1>5, <3>1, InterruptedFrames
  <2> QED BY <2>1, <2>2
<1> QED BY <1>9, <1>10, <1>11, <1>12, <1>13, <1>14

\* schedule and the loads of CR3 and of the TSS keep the invariant.
LEMMA CTickCInv ==
    ASSUME CInv, CTick, IInv'
    PROVE  CInv'
<1>1. IInv /\ Tick
  BY DEF CInv, CTick
<1> QED BY <1>1, TickCases, TickStaysCInv, TickSwitchesCInv

\* Every step of the machine keeps the invariant.
LEMMA CNextCInv ==
    ASSUME CInv, [CNext]_cvars
    PROVE  CInv'
<1>1. IInv'
  BY MachineStep, NextIInv DEF CInv
<1>2. CASE Spawn \/ ExecCreate \/ SysFork
  BY <1>1, <1>2, CreatorsCInv
<1>3. CASE ExecSetDir
  BY <1>1, <1>3, ExecSetDirCInv
<1>4. CASE EnterUserMode
  BY <1>1, <1>4, EnterUserModeCInv
<1>5. CASE CExit
  BY <1>1, <1>5, CExitCInv
<1>6. CASE CKill
  BY <1>1, <1>6, CKillCInv
<1>7. CASE CTick
  BY <1>1, <1>7, CTickCInv
<1>8. CASE UNCHANGED cvars
  BY <1>1, <1>8
  DEF cvars, machine, vars, ring, CInv, CTypeOK, TypeOK, Machine, KindInv, EspInv,
      DirInv, RunsCurrent, ReadyFrameIntact, OwnAddressSpace, InUse, Ring3, Pushed
<1> QED BY <1>2, <1>3, <1>4, <1>5, <1>6, <1>7, <1>8 DEF CNext

\* The inductive invariant holds in every reachable state.
THEOREM MachineInvariance == CSpec => []CInv
<1>1. CInv /\ [CNext]_cvars => CInv'
  BY CNextCInv
<1> QED BY <1>1, CInitCInv, PTL DEF CSpec

-----------------------------------------------------------------------------
(* The properties.                                                         *)

\* Every variable keeps its type.
THEOREM MachineTypeCorrect == CSpec => []CTypeOK
<1>1. CInv => CTypeOK
  BY DEF CInv
<1> QED BY <1>1, MachineInvariance, PTL

\* The registers loaded are those of the process the scheduler has chosen, if no
\* two processes are in ring 3 at a time (else the run context_switch_two_users
\* shows a step after which they are not).
THEOREM RunsCurrentSafety ==
    ASSUME ManyUsers = FALSE
    PROVE  CSpec => []RunsCurrent
<1>1. CInv => RunsCurrent
  BY DEF CInv, Machine
<1> QED BY <1>1, MachineInvariance, PTL

\* A process that can be chosen has its own frame to resume from, under the same
\* condition.
THEOREM FrameSafety ==
    ASSUME ManyUsers = FALSE
    PROVE  CSpec => []ReadyFrameIntact
<1>1. CInv => ReadyFrameIntact
  BY DEF CInv, Machine
<1> QED BY <1>1, MachineInvariance, PTL

\* A loaded program runs in its own address space, all else in the kernel's,
\* however many programs there are.
THEOREM AddressSpaceSafety == CSpec => []OwnAddressSpace
<1>1. CInv => OwnAddressSpace
  BY DEF CInv, Machine
<1> QED BY <1>1, MachineInvariance, PTL
=============================================================================
