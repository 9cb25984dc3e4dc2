------------------------- MODULE ProcessPreemptProofs -------------------------
(***************************************************************************)
(* The creation of a process by run, access by access under cli, is one    *)
(* step of the process table, for a table of any size: proofs about        *)
(* ProcessPreempt.                                                         *)
(***************************************************************************)
EXTENDS ProcessPreempt, ProcessTableProofs

-----------------------------------------------------------------------------
(* The inductive invariant.                                                *)

\* The slot being filled is in use before it is linked, and the block is taken
\* before a slot owns it.
Linked == IF Filled THEN InUse \ {p} ELSE InUse
Owned == IF Begun /\ ~Filled THEN live \ {block} ELSE live

\* The table, but for the slot and the block of a creation under way.
TableInv ==
    /\ TypeOK /\ OneRunning
    /\ run_queue = Shell
    /\ pstate[Shell] \in {"READY", "RUNNING"}
    /\ \A s \in Slots : next[s] = NULL <=> s \notin Linked
    /\ IsRing(Linked, next)
    /\ \A s \in Slots : stack[s] = NULL <=> s \in {Shell} \cup (Slots \ InUse)
    /\ \A s, t \in InUse \ {Shell} : stack[s] = stack[t] => s = t
    /\ Owned = {stack[s] : s \in InUse \ {Shell}}
    /\ \A s \in Slots \ InUse : pid[s] = 0

\* How far run has come.
RunInv ==
    /\ cmd \in {"idle", "run"} /\ prev = NULL
    /\ cmd = "idle" => pc = "find" /\ p = NULL /\ block = NULL /\ reg = NULL
    /\ cmd = "run" =>
          /\ current_process = Shell
          /\ pc \in {"alloc", "load_pid", "fill", "load_next", "link"}
          /\ p \in Slots \ {Shell}
          /\ \A q \in 1 .. p - 1 : pstate[q] # "UNUSED"
          /\ pstate[p] = IF Filled THEN "READY" ELSE "UNUSED"
          /\ (IF Filled THEN pid[p] ELSE next_pid) <= MaxPid
          /\ pc = "alloc" => block = NULL
          /\ Begun => block \in live
          /\ Begun /\ ~Filled => \A s \in Slots : stack[s] # block
          /\ pc \in {"alloc", "load_pid"} => reg = NULL
          /\ pc = "fill" => reg = next_pid
          /\ Filled => stack[p] = block /\ next_pid = pid[p] + 1
          /\ pc = "load_next" => reg \in Nat
          /\ pc = "link" => reg = next[Shell]

PInv == TableInv /\ RunInv

\* Between two commands the table is as ProcessTable has it, and a free slot
\* has no pid.
Blank == \A s \in Slots \ InUse : pid[s] = 0
NoCommand == cmd = "idle" /\ pc = "find" /\ p = NULL /\ prev = NULL /\ block = NULL /\ reg = NULL

\* The invariant between two commands.
LEMMA IdleTable ==
    ASSUME cmd = "idle"
    PROVE  /\ ~Begun /\ ~Filled /\ Linked = InUse /\ Owned = live
           /\ PInv <=> IInv /\ Blank /\ NoCommand
<1>1. ~Begun /\ ~Filled /\ Linked = InUse /\ Owned = live
  BY DEF Begun, Filled, Creating, Linked, Owned
<1>2. TableInv <=> IInv /\ Blank
  BY <1>1 DEF TableInv, IInv, RingInv, StackOwned, Blank
<1>3. RunInv <=> NoCommand
  BY DEF RunInv, NoCommand
<1> QED BY <1>1, <1>2, <1>3 DEF PInv

\* A step after which no command is under way.
LEMMA IdleAgain ==
    ASSUME IInv', Blank', NoCommand'
    PROVE  PInv'
<1>1. cmd' = "idle"
  BY DEF NoCommand
<1>2. ~Begun' /\ ~Filled' /\ Linked' = InUse' /\ Owned' = live'
  BY <1>1 DEF Begun, Filled, Creating, Linked, Owned
<1>3. TableInv'
  BY <1>2 DEF TableInv, IInv, RingInv, StackOwned, Blank
<1>4. RunInv'
  BY <1>1 DEF RunInv, NoCommand
<1> QED BY <1>3, <1>4 DEF PInv

\* The start.
LEMMA PInitPInv == PInit => PInv
<1> SUFFICES ASSUME PInit PROVE PInv
  OBVIOUS
<1>1. Init /\ cmd = "idle" /\ NoCommand
  BY DEF PInit, NoCommand
<1>2. Blank
  BY <1>1 DEF Blank, Init
<1> QED BY <1>1, <1>2, InitIInv, IdleTable

\* A step of another process leaves no pid in a free slot.
LEMMA TableStepBlank ==
    ASSUME IInv, Blank, Tick \/ Fork \/ Exit
    PROVE  Blank'
<1> SUFFICES ASSUME NEW s \in Slots, pstate'[s] = "UNUSED" PROVE pid'[s] = 0
  BY DEF Blank, InUse
<1> USE DEF IInv, TypeOK, Blank, InUse
<1>1. CASE Fork
  BY <1>1 DEF Fork, Create
<1>2. CASE Exit
  BY <1>2 DEF Exit
<1>3. CASE TickDead
  BY <1>3, DeadHasSuccessor DEF TickDead, Unlink
<1>4. CASE TickCount
  BY <1>4 DEF TickCount, ring
<1>5. CASE TickSwitch
  BY <1>5 DEF TickSwitch
<1> QED BY <1>1, <1>2, <1>3, <1>4, <1>5 DEF Tick

\* Between two commands the other processes keep the table in order, and
\* during the command run none of them has a turn.
LEMMA OthersPInv ==
    ASSUME PInv, Interrupt \/ Other
    PROVE  PInv' /\ cmd = "idle" /\ cmd' = "idle" /\ Next
<1>1. cmd = "idle"
  BY DEF PInv, RunInv, Interrupt, Other, Fork, Exit
<1>2. UNCHANGED shell /\ (Tick \/ Fork \/ Exit)
  BY DEF Interrupt, Other
<1>3. IInv /\ Blank /\ NoCommand
  BY <1>1, IdleTable
<1>4. IInv' /\ Blank'
  BY <1>2, <1>3, NextIInv, TableStepBlank DEF Next
<1>5. cmd' = "idle" /\ NoCommand'
  BY <1>1, <1>2, <1>3 DEF shell, NoCommand
<1>6. PInv'
  BY <1>4, <1>5, IdleAgain
<1> QED BY <1>1, <1>2, <1>5, <1>6 DEF Next

\* The loop over the table finds the first free slot.
LEMMA FindPInv ==
    ASSUME PInv, Find("run")
    PROVE  PInv'
<1>1. /\ cmd = "idle" /\ cmd' = "run" /\ pc' = "alloc" /\ FirstUnused(p')
      /\ current_process = Shell /\ next_pid <= MaxPid
      /\ UNCHANGED <<vars, prev, block, reg>>
  BY DEF Find
<1>2. UNCHANGED <<pstate, pid, next, stack, live, run_queue, current_process, next_pid,
                  quantum_count>>
  BY <1>1 DEF vars, ring
<1>3. IInv /\ Blank /\ NoCommand
  BY <1>1, IdleTable
<1>4. ~Begun' /\ ~Filled'
  BY <1>1 DEF Begun, Filled
<1>5. InUse' = InUse /\ Linked' = InUse /\ Owned' = live
  BY <1>2, <1>4 DEF InUse, Linked, Owned
<1>6. TableInv'
  BY <1>2, <1>3, <1>5
  DEF TableInv, IInv, TypeOK, OneRunning, RingInv, StackOwned, Blank
<1>7. RunInv'
  BY <1>1, <1>2, <1>3, <1>4 DEF RunInv, NoCommand, FirstUnused
<1> QED BY <1>6, <1>7 DEF PInv

\* The stack is taken, or the command ends without having changed the table.
LEMMA AllocPInv ==
    ASSUME PInv, Alloc
    PROVE  PInv'
<1>1. /\ cmd = "run" /\ pc = "alloc" /\ current_process = Shell
      /\ UNCHANGED <<pstate, pid, next, stack, run_queue, current_process, next_pid,
                     quantum_count>>
  BY DEF Alloc, At, PInv, RunInv
<1>2. ~Begun /\ ~Filled /\ InUse' = InUse /\ Linked = InUse /\ Owned = live
  BY <1>1 DEF Begun, Filled, InUse, Linked, Owned
<1>3. CASE Done /\ live' = live
  <2>1. cmd' = "idle" /\ NoCommand'
    BY <1>3 DEF Done, NoCommand
  <2>2. IInv' /\ Blank'
    BY <1>1, <1>2, <1>3
    DEF PInv, TableInv, IInv, TypeOK, OneRunning, RingInv, StackOwned, Blank
  <2> QED BY <2>1, <2>2, IdleAgain
<1>4. CASE /\ block' \in Stacks \ live /\ live' = live \cup {block'}
           /\ pc' = "load_pid" /\ UNCHANGED <<cmd, p, prev, reg>>
  <2>1. Begun' /\ ~Filled' /\ Linked' = InUse /\ Owned' = live
    BY <1>1, <1>2, <1>4 DEF Begun, Filled, Creating, Linked, Owned
  <2>2. TypeOK'
    BY <1>1, <1>4 DEF PInv, TableInv, TypeOK
  <2>3. TableInv'
    BY <1>1, <1>2, <2>1, <2>2 DEF PInv, TableInv, OneRunning
  <2>4. \A s \in Slots : stack'[s] # block'
    <3>1. \A s \in Slots : stack[s] = NULL \/ stack[s] \in live
      BY <1>2 DEF PInv, TableInv
    <3> QED BY <1>1, <1>4, <3>1, ConstantsAssumption
  <2>5. RunInv'
    BY <1>1, <1>2, <1>4, <2>1, <2>4 DEF PInv, RunInv
  <2> QED BY <2>3, <2>5 DEF PInv
<1> QED BY <1>3, <1>4 DEF Alloc

\* The loads change nothing but the register.
LEMMA LoadsPInv ==
    ASSUME PInv, LoadPid \/ LoadNext
    PROVE  PInv'
<1>1. /\ cmd = "run" /\ cmd' = "run" /\ current_process = Shell
      /\ UNCHANGED <<vars, p, prev, block>>
      /\ \/ pc = "load_pid" /\ pc' = "fill" /\ reg' = next_pid
         \/ pc = "load_next" /\ pc' = "link" /\ reg' = next[current_process]
  BY DEF LoadPid, LoadNext, At, PInv, RunInv
<1>2. UNCHANGED <<pstate, pid, next, stack, live, run_queue, current_process, next_pid,
                  quantum_count>>
  BY <1>1 DEF vars, ring
<1>3. /\ Begun' = Begun /\ Filled' = Filled /\ InUse' = InUse
  BY <1>1, <1>2 DEF Begun, Filled, Creating, InUse
<1>4. Linked' = Linked /\ Owned' = Owned
  BY <1>1, <1>2, <1>3 DEF Linked, Owned
<1>5. TableInv'
  BY <1>2, <1>3, <1>4 DEF PInv, TableInv, TypeOK, OneRunning
<1>6. RunInv'
  BY <1>1, <1>2, <1>3 DEF PInv, RunInv
<1> QED BY <1>5, <1>6 DEF PInv

\* The slot's fields: in use, not yet linked.
LEMMA FillPInv ==
    ASSUME PInv, Fill
    PROVE  PInv'
<1> USE ConstantsAssumption
<1>1. /\ cmd = "run" /\ cmd' = "run" /\ current_process = Shell
      /\ pc = "fill" /\ pc' = "load_next" /\ reg = next_pid
      /\ p \in Slots \ {Shell} /\ prev = NULL
      /\ pstate' = [pstate EXCEPT ![p] = "READY"]
      /\ stack' = [stack EXCEPT ![p] = block]
      /\ pid' = [pid EXCEPT ![p] = next_pid]
      /\ next_pid' = next_pid + 1
      /\ UNCHANGED <<next, live, run_queue, current_process, quantum_count, p, prev, block,
                     reg>>
  BY DEF Fill, At, PInv, RunInv
<1>2. Begun /\ ~Filled /\ Begun' /\ Filled'
  BY <1>1 DEF Begun, Filled, Creating
<1>3. /\ pstate[p] = "UNUSED" /\ next_pid <= MaxPid /\ block \in live
      /\ \A s \in Slots : stack[s] # block
      /\ \A q \in 1 .. p - 1 : pstate[q] # "UNUSED"
  BY <1>1, <1>2 DEF PInv, RunInv
<1>4. TypeOK /\ TypeOK' /\ block \in Stacks /\ Shell \in Slots
  BY <1>1, <1>3 DEF PInv, TableInv, TypeOK, States, Slots, Shell
<1>5. /\ p \notin InUse /\ InUse' = InUse \cup {p} /\ Linked = InUse /\ Linked' = InUse
  BY <1>1, <1>2, <1>3, <1>4 DEF TypeOK, InUse, Linked
<1>6. /\ \A s \in Slots \ {p} : pstate'[s] = pstate[s] /\ stack'[s] = stack[s] /\ pid'[s] = pid[s]
      /\ pstate'[p] = "READY" /\ stack'[p] = block /\ pid'[p] = next_pid
  BY <1>1, <1>4 DEF TypeOK
<1>7. OneRunning'
  BY <1>1, <1>4, <1>6 DEF PInv, TableInv, OneRunning, TypeOK
<1>8. /\ run_queue' = Shell /\ pstate'[Shell] \in {"READY", "RUNNING"}
      /\ \A s \in Slots : next'[s] = NULL <=> s \notin Linked'
      /\ IsRing(Linked', next')
  BY <1>1, <1>4, <1>5, <1>6 DEF PInv, TableInv
<1>9. /\ \A s \in Slots : stack'[s] = NULL <=> s \in {Shell} \cup (Slots \ InUse')
      /\ \A s, t \in InUse' \ {Shell} : stack'[s] = stack'[t] => s = t
  BY <1>1, <1>3, <1>4, <1>5, <1>6 DEF PInv, TableInv, InUse
<1>10. Owned' = {stack'[s] : s \in InUse' \ {Shell}}
  <2>1. Owned' = live /\ Owned = live \ {block}
    BY <1>1, <1>2 DEF Owned
  <2>2. live \ {block} = {stack[s] : s \in InUse \ {Shell}}
    BY <2>1 DEF PInv, TableInv
  <2>3. {stack[s] : s \in InUse \ {Shell}} = {stack'[s] : s \in InUse \ {Shell}}
    BY <1>5, <1>6 DEF InUse
  <2>4. {stack'[s] : s \in InUse' \ {Shell}} = {stack'[s] : s \in InUse \ {Shell}} \cup {block}
    BY <1>1, <1>5, <1>6
  <2> QED BY <1>3, <2>1, <2>2, <2>3, <2>4
<1>11. \A s \in Slots \ InUse' : pid'[s] = 0
  BY <1>5, <1>6 DEF PInv, TableInv
<1>12. TableInv'
  BY <1>4, <1>7, <1>8, <1>9, <1>10, <1>11 DEF TableInv
<1>13. RunInv'
  <2>1. \A q \in 1 .. p - 1 : q \in Slots \ {p}
    BY <1>1 DEF Slots, Shell
  <2>2. \A q \in 1 .. p' - 1 : pstate'[q] # "UNUSED"
    BY <1>1, <1>3, <1>6, <2>1
  <2>3. reg' \in Nat
    BY <1>1, <1>4 DEF TypeOK
  <2> QED BY <1>1, <1>2, <1>3, <1>6, <2>2, <2>3 DEF RunInv
<1> QED BY <1>12, <1>13 DEF PInv

\* The new slot goes right after the shell's, and the command is done.
LEMMA LinkPInv ==
    ASSUME PInv, Link
    PROVE  PInv'
<1> USE ConstantsAssumption
<1>1. /\ cmd = "run" /\ cmd' = "idle" /\ current_process = Shell
      /\ pc = "link" /\ reg = next[Shell] /\ p \in Slots \ {Shell}
      /\ next' = [next EXCEPT ![p] = next[Shell], ![Shell] = p]
      /\ NoCommand'
      /\ UNCHANGED <<pstate, pid, stack, live, run_queue, current_process, next_pid,
                     quantum_count>>
  BY DEF Link, At, Done, PInv, RunInv, NoCommand
<1>2. Begun /\ Filled /\ InUse' = InUse
  BY <1>1 DEF Begun, Filled, Creating, InUse
<1>3. pstate[p] = "READY" /\ p \in InUse /\ Owned = live /\ Linked = InUse \ {p}
  BY <1>1, <1>2 DEF PInv, RunInv, InUse, Owned, Linked
<1>4. TypeOK /\ Shell \in Slots /\ Shell \in InUse
  BY DEF PInv, TableInv, InUse, Slots, Shell
<1>5. next[Shell] \in Linked
  BY <1>1, <1>3, <1>4 DEF PInv, TableInv, IsRing
<1>6. TypeOK'
  BY <1>1, <1>4 DEF TypeOK
<1>7. RingInv'
  <2>1. next = [s \in Slots |-> next[s]]
    BY <1>4 DEF TypeOK
  <2>2. IsRing(Linked \cup {p}, [next EXCEPT ![p] = next[Shell], ![Shell] = p])
    <3>1. Shell \in Linked /\ p \notin Linked /\ Linked \subseteq Slots /\ p \in Slots
      BY <1>1, <1>3, <1>4 DEF InUse
    <3> QED BY <2>1, <3>1, InsertRing DEF PInv, TableInv
  <2>3. IsRing(InUse', next')
    BY <1>1, <1>2, <1>3, <2>2
  <2>4. \A s \in Slots : next'[s] = NULL <=> s \notin InUse'
    BY <1>1, <1>2, <1>3, <1>4, <1>5 DEF PInv, TableInv, TypeOK, InUse
  <2> QED BY <1>1, <2>3, <2>4 DEF PInv, TableInv, RingInv
<1>8. OneRunning' /\ StackOwned' /\ Blank'
  BY <1>1, <1>2, <1>3 DEF PInv, TableInv, OneRunning, StackOwned, Blank
<1> QED BY <1>1, <1>6, <1>7, <1>8, IdleAgain DEF IInv

\* Every step keeps the invariant.
LEMMA RunNextPInv == PInv /\ [RunNext]_pvars => PInv'
<1> SUFFICES ASSUME PInv, [RunNext]_pvars PROVE PInv'
  OBVIOUS
<1>1. CASE UNCHANGED pvars
  <2>1. UNCHANGED <<pstate, pid, next, stack, live, run_queue, current_process, next_pid,
                    quantum_count, cmd, pc, p, prev, block, reg>>
    BY <1>1 DEF pvars, vars, ring, shell
  <2>2. Begun' = Begun /\ Filled' = Filled /\ InUse' = InUse
    BY <2>1 DEF Begun, Filled, Creating, InUse
  <2>3. Linked' = Linked /\ Owned' = Owned
    BY <2>1, <2>2 DEF Linked, Owned
  <2>4. TableInv'
    BY <2>1, <2>2, <2>3 DEF PInv, TableInv, TypeOK, OneRunning
  <2>5. RunInv'
    BY <2>1, <2>2 DEF PInv, RunInv
  <2> QED BY <2>4, <2>5 DEF PInv
<1> QED BY <1>1, OthersPInv, FindPInv, AllocPInv, LoadsPInv, FillPInv, LinkPInv DEF RunNext

\* The inductive invariant of the command run: what it has of a new slot and
\* its stack is in nobody's way until the slot is linked.
THEOREM RunInvariance == RunSpec => []PInv
BY PInitPInv, RunNextPInv, PTL DEF RunSpec

\* Type correctness of the table and of run's own variables.
THEOREM RunTypeCorrect == RunSpec => []PTypeOK
<1>1. PInv => PTypeOK
  <2> SUFFICES ASSUME PInv PROVE PTypeOK
    OBVIOUS
  <2>1. TypeOK
    BY DEF PInv, TableInv
  <2>2. block \in Stacks \cup {NULL} /\ reg \in Nat \cup {NULL}
    <3>1. CASE cmd = "idle"
      BY <3>1 DEF PInv, RunInv
    <3>2. CASE cmd = "run"
      <4>1. next[Shell] \in Nat \cup {NULL} /\ next_pid \in Nat /\ live \subseteq Stacks
        BY <2>1, ConstantsAssumption DEF TypeOK, Slots, Shell
      <4> QED BY <3>2, <4>1 DEF PInv, RunInv, Begun, Creating
    <3> QED BY <3>1, <3>2 DEF PInv, RunInv
  <2> QED BY <2>1, <2>2 DEF PInv, RunInv, PTypeOK
<1> QED BY <1>1, RunInvariance, PTL

\* Between two commands the circular list holds exactly the slots in use.
THEOREM RunRingSafety == RunSpec => []RingIsInUseWhenIdle
<1>1. PInv => RingIsInUseWhenIdle
  BY IdleTable, RingIsInUseLemma DEF RingIsInUseWhenIdle
<1> QED BY <1>1, RunInvariance, PTL

-----------------------------------------------------------------------------
(* The creation is atomic.                                                 *)

\* Undone until it is linked, a creation is not to be seen in the table.
SameTable ==
    /\ Undo(pstate, "UNUSED")' = Undo(pstate, "UNUSED")
    /\ Undo(pid, 0)' = Undo(pid, 0)
    /\ Undo(stack, NULL)' = Undo(stack, NULL)
    /\ (IF Filled THEN pid[p] ELSE next_pid)' = IF Filled THEN pid[p] ELSE next_pid
    /\ (IF Begun THEN live \ {block} ELSE live)' = IF Begun THEN live \ {block} ELSE live
    /\ UNCHANGED <<next, run_queue, current_process, quantum_count>>

\* Run's accesses up to the last leave the table as it was.
LEMMA RunStutters ==
    ASSUME PInv, PInv', Find("run") \/ Alloc \/ LoadPid \/ Fill \/ LoadNext \/ UNCHANGED pvars
    PROVE  SameTable
<1>1. CASE Find("run")
  <2>1. cmd = "idle" /\ pc' = "alloc"
    BY <1>1 DEF Find
  <2>2. ~Begun /\ ~Filled /\ ~Begun' /\ ~Filled'
    BY <2>1 DEF Begun, Filled, Creating
  <2> QED BY <1>1, <2>2 DEF Find, vars, ring, SameTable, Undo
<1>2. CASE Alloc
  <2>1. ~Begun /\ ~Filled /\ ~Filled' /\ (Begun' => live' \ {block'} = live) /\ (~Begun' => live' = live)
    BY <1>2 DEF Alloc, At, Done, Begun, Filled, Creating, PInv, RunInv
  <2> QED BY <1>2, <2>1 DEF Alloc, SameTable, Undo
<1>3. CASE LoadPid \/ LoadNext
  <2>1. Begun /\ Begun' /\ Filled' = Filled
    BY <1>3 DEF LoadPid, LoadNext, At, Begun, Filled, Creating, PInv, RunInv
  <2> QED BY <1>3, <2>1 DEF LoadPid, LoadNext, vars, ring, SameTable, Undo
<1>4. CASE UNCHANGED pvars
  BY <1>4 DEF pvars, vars, ring, shell, SameTable, Undo, Begun, Filled, Creating
<1>5. CASE Fill
  <2>1. /\ Begun /\ ~Filled /\ Begun' /\ Filled' /\ reg = next_pid /\ p \in Slots \ {Shell}
        /\ cmd = "run" /\ pstate[p] = "UNUSED"
    BY <1>5 DEF Fill, At, Begun, Filled, Creating, PInv, RunInv
  <2>2. TypeOK /\ stack[p] = NULL /\ pid[p] = 0
    BY <2>1 DEF PInv, TableInv, InUse
  <2>3. /\ pstate' = [pstate EXCEPT ![p] = "READY"] /\ stack' = [stack EXCEPT ![p] = block]
        /\ pid' = [pid EXCEPT ![p] = next_pid] /\ p' = p
        /\ UNCHANGED <<next, live, run_queue, current_process, quantum_count, block>>
    BY <1>5, <2>1 DEF Fill
  <2>4. /\ [pstate' EXCEPT ![p] = "UNUSED"] = pstate /\ [stack' EXCEPT ![p] = NULL] = stack
        /\ [pid' EXCEPT ![p] = 0] = pid /\ pid'[p] = next_pid
    BY <2>1, <2>2, <2>3 DEF TypeOK
  <2> QED BY <2>1, <2>3, <2>4 DEF SameTable, Undo
<1> QED BY <1>1, <1>2, <1>3, <1>4, <1>5

\* The last access is the step.
LEMMA LinkCreates ==
    ASSUME PInv, Link
    PROVE  Table!ShellCreate
<1>1. /\ cmd = "run" /\ cmd' = "idle" /\ current_process = Shell
      /\ pc = "link" /\ reg = next[Shell] /\ p \in Slots \ {Shell}
      /\ next' = [next EXCEPT ![p] = next[Shell], ![Shell] = p]
      /\ UNCHANGED <<pstate, pid, stack, live, run_queue, current_process, next_pid,
                     quantum_count>>
  BY DEF Link, At, Done, PInv, RunInv
<1>2. Begun /\ Filled /\ ~Begun' /\ ~Filled'
  BY <1>1 DEF Begun, Filled, Creating
<1>3. /\ pstate[p] = "READY" /\ stack[p] = block /\ block \in live /\ next_pid = pid[p] + 1
      /\ pid[p] <= MaxPid /\ \A q \in 1 .. p - 1 : pstate[q] # "UNUSED"
      /\ TypeOK
  BY <1>1, <1>2 DEF PInv, TableInv, RunInv
<1> DEFINE ps == [pstate EXCEPT ![p] = "UNUSED"]
           id == [pid EXCEPT ![p] = 0]
           st == [stack EXCEPT ![p] = NULL]
           lv == live \ {block}
<1>4. /\ Undo(pstate, "UNUSED") = ps /\ Undo(pid, 0) = id /\ Undo(stack, NULL) = st
      /\ (IF Filled THEN pid[p] ELSE next_pid) = pid[p]
      /\ (IF Begun THEN live \ {block} ELSE live) = lv
  BY <1>2 DEF Undo
<1>5. /\ Undo(pstate, "UNUSED")' = pstate /\ Undo(pid, 0)' = pid /\ Undo(stack, NULL)' = stack
      /\ (IF Filled THEN pid[p] ELSE next_pid)' = pid[p] + 1
      /\ (IF Begun THEN live \ {block} ELSE live)' = live
  BY <1>1, <1>2, <1>3 DEF Undo
<1>6. /\ pstate = [ps EXCEPT ![p] = "READY"] /\ pid = [id EXCEPT ![p] = pid[p]]
      /\ stack = [st EXCEPT ![p] = block] /\ live = lv \cup {block} /\ block \in Stacks \ lv
  BY <1>1, <1>3 DEF TypeOK
<1>7. /\ p \in Slots \ {Shell} /\ ps[p] = "UNUSED" /\ \A q \in 1 .. p - 1 : ps[q] # "UNUSED"
  <2>1. \A q \in 1 .. p - 1 : q \in Slots \ {p}
    BY <1>1, ConstantsAssumption DEF Slots, Shell
  <2> QED BY <1>1, <1>3, <2>1 DEF TypeOK
<1> HIDE DEF ps, id, st, lv
<1>8. Table!FirstUnused(p)
  BY <1>4, <1>7 DEF Table!FirstUnused, Table!Slots, Table!Shell, Slots, Shell
<1>9. Table!Create("READY")
  BY <1>1, <1>3, <1>4, <1>5, <1>6, <1>8 DEF Table!Create, Table!Slots, Slots
<1> QED BY <1>1, <1>9 DEF Table!ShellCreate, Table!Shell, Shell

\* With no creation under way the two tables are one.
LEMMA OthersAreTable ==
    ASSUME cmd = "idle", cmd' = "idle", Tick \/ Fork \/ Exit
    PROVE  Table!Next
<1>1. ~Begun /\ ~Filled /\ ~Begun' /\ ~Filled'
  BY DEF Begun, Filled, Creating
<1>2. /\ Undo(pstate, "UNUSED") = pstate /\ Undo(pid, 0) = pid /\ Undo(stack, NULL) = stack
      /\ (IF Filled THEN pid[p] ELSE next_pid) = next_pid
      /\ (IF Begun THEN live \ {block} ELSE live) = live
  BY <1>1 DEF Undo
<1>3. /\ Undo(pstate, "UNUSED")' = pstate' /\ Undo(pid, 0)' = pid' /\ Undo(stack, NULL)' = stack'
      /\ (IF Filled THEN pid[p] ELSE next_pid)' = next_pid'
      /\ (IF Begun THEN live \ {block} ELSE live)' = live'
  BY <1>1 DEF Undo
<1>4. CASE Exit
  BY <1>2, <1>3, <1>4 DEF Exit, Table!Exit, Table!Shell, Shell, Table!Next
<1>5. CASE Fork
  BY <1>2, <1>3, <1>5 DEF Fork, Create, FirstUnused, Slots, Shell, Table!Fork, Table!Create,
     Table!FirstUnused, Table!Slots, Table!Shell, Table!Next
<1>6. CASE TickCount
  BY <1>2, <1>3, <1>6 DEF TickCount, ring, Table!TickCount, Table!ring, Table!Tick, Table!Next
<1>7. /\ Table!NoneReady <=> NoneReady
      /\ \A c : Table!FirstReady(c) <=> FirstReady(c)
  BY <1>2 DEF NoneReady, FirstReady, Others, Reach, Slots, Table!NoneReady,
     Table!FirstReady, Table!Others, Table!Reach, Table!Slots
<1>8. CASE TickDead
  <2>1. \A a, b : Unlink(a, b) => Table!Unlink(a, b)
    BY <1>2, <1>3 DEF Unlink, Table!Unlink
  <2> QED BY <1>2, <1>3, <1>7, <1>8, <2>1
          DEF TickDead, Slots, Table!TickDead, Table!Slots, Table!Tick, Table!Next
<1>9. CASE TickSwitch
  BY <1>2, <1>3, <1>7, <1>9
  DEF TickSwitch, Slots, Table!TickSwitch, Table!Slots, Table!Tick, Table!Next
<1> QED BY <1>4, <1>5, <1>6, <1>8, <1>9 DEF Tick

\* The creation that run performs in six accesses is one step of the process
\* table, taken when the new slot is linked: no other process sees it half done.
THEOREM RunIsAtomic == RunSpec => CreateIsAtomic
<1>1. PInit => Table!Init
  <2> SUFFICES ASSUME PInit PROVE Table!Init
    OBVIOUS
  <2>1. ~Begun /\ ~Filled
    BY DEF PInit, Begun, Filled, Creating
  <2> QED BY <2>1 DEF PInit, Init, Slots, Shell, Undo, Table!Init, Table!Slots, Table!Shell
<1>2. PInv /\ PInv' /\ [RunNext]_pvars => [Table!Next]_(Table!vars)
  <2> SUFFICES ASSUME PInv, PInv', [RunNext]_pvars PROVE [Table!Next]_(Table!vars)
    OBVIOUS
  <2>1. CASE Find("run") \/ Alloc \/ LoadPid \/ Fill \/ LoadNext \/ UNCHANGED pvars
    BY <2>1, RunStutters DEF SameTable, Table!vars, Table!ring
  <2>2. CASE Link
    BY <2>2, LinkCreates DEF Table!Next
  <2>3. CASE Interrupt \/ Other
    BY <2>3, OthersPInv, OthersAreTable DEF Interrupt, Other
  <2> QED BY <2>1, <2>2, <2>3 DEF RunNext
<1> QED BY <1>1, <1>2, RunInvariance, PTL DEF RunSpec, CreateIsAtomic, Table!Spec
===============================================================================
