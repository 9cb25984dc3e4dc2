------------------------- MODULE ProcessTableProofs -------------------------
(***************************************************************************)
(* The ring of processes is never broken and turns go round it in order,   *)
(* for a table of any size: proofs of the safety properties of             *)
(* ProcessTable, and of Turns in the last part, the only one that speaks   *)
(* of its history variable.                                                *)
(***************************************************************************)
EXTENDS Turns, TLAPS

-----------------------------------------------------------------------------
(* Rings: a set L and a successor function nx with no proper part closed   *)
(* under nx.                                                               *)

IsRing(L, nx) ==
    /\ \A s \in L : nx[s] \in L
    /\ \A s, t \in L : nx[s] = nx[t] => s = t
    /\ \A S \in SUBSET L : S # {} /\ (\A u \in S : nx[u] \in S) => S = L

\* A new slot spliced in after a slot of the ring gives a ring.
LEMMA InsertRing ==
    ASSUME NEW L, NEW nx, NEW c \in L, NEW p, p \notin L,
           NEW D, L \subseteq D, p \in D, nx = [s \in D |-> nx[s]],
           IsRing(L, nx)
    PROVE  IsRing(L \cup {p}, [nx EXCEPT ![p] = nx[c], ![c] = p])
<1> DEFINE L2 == L \cup {p}
           ny == [nx EXCEPT ![p] = nx[c], ![c] = p]
<1>1. ny[p] = nx[c] /\ ny[c] = p /\ \A s \in L \ {c} : ny[s] = nx[s]
  OBVIOUS
<1> HIDE DEF ny
<1>2. \A s \in L2 : ny[s] \in L2
  BY <1>1 DEF IsRing
<1>3. ASSUME NEW s \in L2, NEW t \in L2, ny[s] = ny[t]
      PROVE  s = t
  <2>1. \A u \in L : nx[u] \in L /\ nx[u] # p
    BY DEF IsRing
  <2>2. ny[s] = p <=> s = c
    BY <1>1, <2>1
  <2>3. ny[t] = p <=> t = c
    BY <1>1, <2>1
  <2>4. CASE s = c \/ t = c
    BY <1>3, <2>2, <2>3, <2>4
  <2>5. CASE s # c /\ t # c
    <3>1. \A u, v \in L : nx[u] = nx[v] => u = v
      BY DEF IsRing
    <3>2. \A u \in L \ {c} : ny[u] # nx[c]
      BY <1>1, <3>1
    <3>3. CASE s = p \/ t = p
      <4>1. ny[s] = nx[c] /\ ny[t] = nx[c]
        BY <1>1, <1>3, <3>3
      <4> QED BY <2>5, <3>2, <4>1
    <3>4. CASE s \in L \ {c} /\ t \in L \ {c}
      BY <1>1, <1>3, <3>1, <3>4
    <3> QED BY <2>5, <3>3, <3>4
  <2> QED BY <2>4, <2>5
<1>4. ASSUME NEW S \in SUBSET L2, S # {}, \A u \in S : ny[u] \in S
      PROVE  S = L2
  <2> DEFINE T == S \ {p}
  <2>1. T # {}
    BY <1>1, <1>4 DEF IsRing
  <2>2. \A u \in T : nx[u] \in T
    <3> SUFFICES ASSUME NEW u \in T PROVE nx[u] \in T
      OBVIOUS
    <3>1. u \in L /\ nx[u] \in L
      BY DEF IsRing
    <3>2. CASE u = c
      BY <1>1, <1>4, <3>1, <3>2
    <3>3. CASE u # c
      BY <1>1, <1>4, <3>1, <3>3
    <3> QED BY <3>2, <3>3
  <2>3. T = L
    BY <2>1, <2>2 DEF IsRing
  <2> QED BY <1>1, <1>4, <2>3
<1> QED BY <1>2, <1>3, <1>4 DEF IsRing, ny

\* A slot bypassed by its predecessor leaves a ring, unless it was alone.
LEMMA RemoveRing ==
    ASSUME NEW L, NEW nx, NEW p \in L, NEW q \in L, nx[q] = p, p # q,
           NEW D, L \subseteq D, nx = [s \in D |-> nx[s]], NEW null,
           IsRing(L, nx)
    PROVE  IsRing(L \ {p}, [nx EXCEPT ![q] = nx[p], ![p] = null])
<1> DEFINE L2 == L \ {p}
           ny == [nx EXCEPT ![q] = nx[p], ![p] = null]
<1>1. ny[q] = nx[p] /\ \A s \in L2 \ {q} : ny[s] = nx[s]
  OBVIOUS
<1> HIDE DEF ny
<1>2. \A s \in L2 : ny[s] \in L2
  BY <1>1 DEF IsRing
<1>3. \A s, t \in L2 : ny[s] = ny[t] => s = t
  <2>1. \A s, t \in L : nx[s] = nx[t] => s = t
    BY DEF IsRing
  <2> QED BY <1>1, <2>1
<1>4. ASSUME NEW S \in SUBSET L2, S # {}, \A u \in S : ny[u] \in S
      PROVE  S = L2
  <2> DEFINE T == IF q \in S THEN S \cup {p} ELSE S
  <2>1. \A u \in T : nx[u] \in T
    BY <1>1, <1>4 DEF IsRing
  <2>2. T = L
    BY <1>4, <2>1 DEF IsRing
  <2> QED BY <1>4, <2>2
<1> QED BY <1>2, <1>3, <1>4 DEF IsRing, ny

\* In a ring a walk from any slot visits the whole ring.
LEMMA ReachRing ==
    ASSUME NEW L \in SUBSET Slots, NEW r \in L, IsRing(L, next), NULL \notin L
    PROVE  Reach(r) = L
<1>1. Reach(r) \subseteq L
  BY DEF IsRing, Reach
<1>2. ASSUME NEW t \in L, NEW S \in SUBSET Slots, r \in S,
             \A u \in S : next[u] \in S \cup {NULL}
      PROVE  t \in S
  <2>1. \A u \in S \cap L : next[u] \in S \cap L
    BY <1>2 DEF IsRing
  <2>2. S \cap L = L
    BY <1>2, <2>1 DEF IsRing
  <2> QED BY <2>2
<1>3. L \subseteq Reach(r)
  BY <1>2 DEF Reach
<1> QED BY <1>1, <1>3

-----------------------------------------------------------------------------
(* The inductive invariant.  RingIsInUse speaks of reachability, which a   *)
(* step does not preserve by itself: that no proper part of the slots in   *)
(* use is closed under next is its inductive form.  The shell, always      *)
(* READY or RUNNING, is what a dead process can be switched to.            *)

RingInv ==
    /\ run_queue = Shell
    /\ pstate[Shell] \in {"READY", "RUNNING"}
    /\ \A s \in Slots : next[s] = NULL <=> s \notin InUse
    /\ IsRing(InUse, next)

IInv == TypeOK /\ RingInv /\ OneRunning /\ StackOwned

\* With the invariant every walk covers exactly the slots in use.
LEMMA RingIsInUseLemma == IInv => RingIsInUse
<1> SUFFICES ASSUME IInv PROVE RingIsInUse
  OBVIOUS
<1>1. InUse \in SUBSET Slots /\ NULL \notin InUse /\ IsRing(InUse, next)
  BY ConstantsAssumption DEF IInv, RingInv, InUse
<1>2. run_queue \in InUse /\ current_process \in InUse
  BY DEF IInv, TypeOK, RingInv, OneRunning, InUse
<1>3. Reach(run_queue) = InUse /\ Reach(current_process) = InUse
  BY <1>1, <1>2, ReachRing
<1> QED BY <1>1, <1>3 DEF RingIsInUse, IsRing

\* Before the first tick the shell is alone on the ring.
LEMMA InitIInv == Init => IInv
<1> SUFFICES ASSUME Init PROVE IInv
  OBVIOUS
<1> USE ConstantsAssumption
<1>1. TypeOK
  BY DEF Init, TypeOK, Slots, Shell, States
<1>0. Shell \in Slots
  BY DEF Slots, Shell
<1>2. InUse = {Shell}
  BY <1>0 DEF Init, InUse
<1>3. RingInv
  <2>1. next[Shell] = Shell
    BY <1>0 DEF Init
  <2>2. IsRing({Shell}, next)
    BY <2>1 DEF IsRing
  <2> QED BY <1>0, <1>2, <2>2 DEF Init, RingInv
<1>4. OneRunning /\ StackOwned
  BY <1>0, <1>2 DEF Init, OneRunning, StackOwned
<1> QED BY <1>1, <1>3, <1>4 DEF IInv

\* A new process, READY or a zombie, keeps the table in order.
LEMMA CreateIInv ==
    ASSUME IInv, NEW st \in {"READY", "ZOMBIE"}, Create(st)
    PROVE  IInv'
<1> USE ConstantsAssumption
<1>1. PICK p \in Slots, b \in Stacks \ live :
        /\ FirstUnused(p)
        /\ pid' = [pid EXCEPT ![p] = next_pid]
        /\ next_pid' = next_pid + 1
        /\ pstate' = [pstate EXCEPT ![p] = st]
        /\ stack' = [stack EXCEPT ![p] = b]
        /\ live' = live \cup {b}
        /\ next' = [next EXCEPT ![p] = next[current_process], ![current_process] = p]
        /\ UNCHANGED <<run_queue, current_process, quantum_count>>
  BY DEF Create
<1>2. p # Shell /\ p \notin InUse
  BY <1>1 DEF FirstUnused, InUse
<1>3. current_process \in InUse /\ InUse \subseteq Slots /\ Shell \in InUse
  BY DEF IInv, TypeOK, RingInv, OneRunning, InUse, Slots, Shell
<1>4. InUse' = InUse \cup {p}
  BY <1>1, <1>2 DEF IInv, TypeOK, InUse
<1>5. TypeOK'
  BY <1>1 DEF IInv, TypeOK, States
<1>6. RingInv'
  <2>1. IsRing(InUse', next')
    <3>1. next = [s \in Slots |-> next[s]]
      BY DEF IInv, TypeOK
    <3>2. IsRing(InUse \cup {p},
                 [next EXCEPT ![p] = next[current_process], ![current_process] = p])
      BY <1>2, <1>3, <3>1, InsertRing DEF IInv, RingInv
    <3> QED BY <1>1, <1>4, <3>2
  <2>2. \A s \in Slots : next'[s] = NULL <=> s \notin InUse'
    <3>1. next[current_process] # NULL
      BY <1>3 DEF IInv, RingInv
    <3> QED BY <1>1, <1>2, <1>3, <1>4, <3>1 DEF IInv, TypeOK, RingInv
  <2>3. run_queue' = Shell /\ pstate'[Shell] \in {"READY", "RUNNING"}
    BY <1>1, <1>2, <1>3 DEF IInv, TypeOK, RingInv
  <2> QED BY <2>1, <2>2, <2>3 DEF RingInv
<1>7. OneRunning'
  BY <1>1, <1>2, <1>3 DEF IInv, TypeOK, OneRunning
<1>8. StackOwned'
  <2>1. stack'[p] = b /\ \A s \in Slots \ {p} : stack'[s] = stack[s]
    BY <1>1 DEF IInv, TypeOK
  <2>2. \A s \in InUse \ {Shell} : stack[s] # b
    BY DEF IInv, StackOwned
  <2>3. \A s \in Slots : stack'[s] = NULL <=> s \in {Shell} \cup (Slots \ InUse')
    BY <1>2, <1>4, <2>1 DEF IInv, StackOwned
  <2>4. \A s, t \in InUse' \ {Shell} : stack'[s] = stack'[t] => s = t
    BY <1>2, <1>3, <1>4, <2>1, <2>2 DEF IInv, StackOwned
  <2>5. live' = {stack'[s] : s \in InUse' \ {Shell}}
    BY <1>1, <1>2, <1>3, <1>4, <2>1 DEF IInv, StackOwned
  <2> QED BY <2>3, <2>4, <2>5 DEF StackOwned
<1> QED BY <1>5, <1>6, <1>7, <1>8 DEF IInv

\* Unlinking and resetting a slot other than the shell's keeps the ring and
\* the stacks in order.
LEMMA UnlinkInv ==
    ASSUME IInv, NEW p \in InUse \ {Shell}, NEW prev \in Slots, next[prev] = p,
           Unlink(prev, p), InUse' = InUse \ {p}
    PROVE  /\ run_queue' = Shell
           /\ next' \in [Slots -> Slots \cup {NULL}]
           /\ stack' \in [Slots -> Stacks \cup {NULL}]
           /\ live' \in SUBSET Stacks
           /\ pid' \in [Slots -> Nat]
           /\ \A s \in Slots : next'[s] = NULL <=> s \notin InUse'
           /\ IsRing(InUse', next')
           /\ StackOwned'
<1> USE ConstantsAssumption
<1>1. InUse \subseteq Slots /\ Shell \in InUse
  BY DEF IInv, RingInv, InUse, Slots, Shell
<1>2. prev \in InUse
  BY <1>1 DEF IInv, RingInv
<1>3. prev # p
  <2> SUFFICES ASSUME prev = p PROVE FALSE
    OBVIOUS
  <2>1. {p} = InUse
    BY DEF IInv, RingInv, IsRing
  <2> QED BY <1>1, <2>1
<1>4. IsRing(InUse', next')
  <2>1. next = [s \in Slots |-> next[s]]
    BY DEF IInv, TypeOK
  <2>2. IsRing(InUse \ {p}, [next EXCEPT ![prev] = next[p], ![p] = NULL])
    BY <1>1, <1>2, <1>3, <2>1, RemoveRing DEF IInv, RingInv
  <2> QED BY <2>2 DEF Unlink
<1>5. next[p] \in Slots
  BY <1>1 DEF IInv, RingInv, IsRing
<1>6. next' \in [Slots -> Slots \cup {NULL}]
  BY <1>1, <1>5 DEF IInv, TypeOK, Unlink
<1>7. \A s \in Slots : next'[s] = NULL <=> s \notin InUse'
  BY <1>1, <1>2, <1>3, <1>5 DEF IInv, TypeOK, RingInv, Unlink
<1>8. StackOwned'
  <2>1. stack'[p] = NULL /\ \A s \in Slots \ {p} : stack'[s] = stack[s]
    BY <1>1 DEF IInv, TypeOK, Unlink
  <2>2. \A s \in Slots : stack'[s] = NULL <=> s \in {Shell} \cup (Slots \ InUse')
    BY <2>1 DEF IInv, StackOwned
  <2>3. \A s, t \in InUse' \ {Shell} : stack'[s] = stack'[t] => s = t
    BY <1>1, <2>1 DEF IInv, StackOwned
  <2>4. live' = {stack'[s] : s \in InUse' \ {Shell}}
    <3>1. live' = live \ {stack[p]}
      BY DEF Unlink
    <3>2. {stack'[s] : s \in InUse' \ {Shell}} = {stack[s] : s \in InUse' \ {Shell}}
      BY <1>1, <2>1
    <3>3. \A s \in InUse \ {Shell} : stack[s] = stack[p] <=> s = p
      BY DEF IInv, StackOwned
    <3>4. {stack[s] : s \in InUse \ {Shell}} \ {stack[p]}
            = {stack[s] : s \in (InUse \ {p}) \ {Shell}}
      BY <3>3
    <3> QED BY <3>1, <3>2, <3>4 DEF IInv, StackOwned
  <2> QED BY <2>2, <2>3, <2>4 DEF StackOwned
<1>9. run_queue' = Shell
  BY DEF IInv, RingInv, Unlink
<1>10. /\ stack' \in [Slots -> Stacks \cup {NULL}]
       /\ live' \in SUBSET Stacks
       /\ pid' \in [Slots -> Nat]
  BY DEF IInv, TypeOK, Unlink
<1> QED BY <1>4, <1>6, <1>7, <1>8, <1>9, <1>10

\* Exit only marks the current process dead.
LEMMA ExitIInv ==
    ASSUME IInv, Exit
    PROVE  IInv'
<1> USE ConstantsAssumption DEF Exit
<1>1. InUse' = InUse
  BY DEF IInv, TypeOK, OneRunning, InUse
<1>2. TypeOK'
  BY DEF IInv, TypeOK, States
<1>3. RingInv'
  <2>1. RingInv /\ UNCHANGED <<next, run_queue, pid>>
    BY DEF IInv
  <2>2. pstate'[Shell] = pstate[Shell]
    BY DEF IInv, TypeOK, Slots, Shell
  <2> QED BY <1>1, <2>1, <2>2 DEF RingInv, IsRing
<1>4. OneRunning'
  BY DEF IInv, TypeOK, OneRunning
<1>5. StackOwned'
  BY <1>1 DEF IInv, StackOwned
<1> QED BY <1>2, <1>3, <1>4, <1>5 DEF IInv

\* Kill unlinks a process that is neither the caller nor the shell.
LEMMA KillIInv ==
    ASSUME IInv, Kill
    PROVE  IInv'
<1> USE ConstantsAssumption
<1>1. PICK p \in Reach(run_queue) \ {current_process}, prev \in Slots :
        /\ next[prev] = p
        /\ Unlink(prev, p)
        /\ pstate' = [pstate EXCEPT ![p] = "UNUSED"]
        /\ UNCHANGED <<current_process, next_pid, quantum_count>>
  BY DEF Kill
<1>2. current_process = Shell
  BY DEF Kill
<1>3. Reach(run_queue) = InUse
  BY RingIsInUseLemma DEF RingIsInUse
<1>4. p \in InUse \ {Shell} /\ p \in Slots /\ p # current_process
  BY <1>1, <1>2, <1>3 DEF InUse
<1>5. InUse' = InUse \ {p}
  BY <1>1, <1>4 DEF IInv, TypeOK, InUse
<1>6. /\ run_queue' = Shell
      /\ next' \in [Slots -> Slots \cup {NULL}]
      /\ stack' \in [Slots -> Stacks \cup {NULL}]
      /\ live' \in SUBSET Stacks
      /\ pid' \in [Slots -> Nat]
      /\ \A s \in Slots : next'[s] = NULL <=> s \notin InUse'
      /\ IsRing(InUse', next')
      /\ StackOwned'
  BY <1>1, <1>4, <1>5, UnlinkInv
<1>7. TypeOK'
  <2>1. run_queue' \in Slots
    BY <1>6 DEF Slots, Shell
  <2>2. pstate' \in [Slots -> States]
    BY <1>1, <1>4 DEF IInv, TypeOK, States
  <2> QED BY <1>1, <1>6, <2>1, <2>2 DEF IInv, TypeOK
<1>8. RingInv'
  BY <1>1, <1>4, <1>6 DEF IInv, TypeOK, RingInv, Slots, Shell
<1>9. OneRunning'
  BY <1>1, <1>4 DEF IInv, TypeOK, OneRunning
<1> QED BY <1>6, <1>7, <1>8, <1>9 DEF IInv

\* A dead process always finds a READY one to hand the CPU to: the shell.
LEMMA DeadHasSuccessor ==
    ASSUME IInv, pstate[current_process] = "ZOMBIE"
    PROVE  ~NoneReady
<1>1. Shell \in InUse /\ Shell # current_process
  BY DEF IInv, TypeOK, RingInv, InUse, Slots, Shell
<1>2. pstate[Shell] = "READY"
  BY <1>1 DEF IInv, RingInv, OneRunning, InUse
<1>3. Shell \in Others
  BY <1>1, RingIsInUseLemma DEF RingIsInUse, Others
<1> QED BY <1>2, <1>3 DEF NoneReady

\* Reaping the dead current process.
LEMMA TickDeadIInv ==
    ASSUME IInv, TickDead
    PROVE  IInv'
<1> USE ConstantsAssumption
<1> DEFINE p == current_process
<1>1. PICK c \in Slots, prev \in Slots :
        /\ FirstReady(c)
        /\ next[prev] = p
        /\ Unlink(prev, p)
        /\ pstate' = [pstate EXCEPT ![p] = "UNUSED", ![c] = "RUNNING"]
        /\ current_process' = c
        /\ quantum_count' = 0
  BY DeadHasSuccessor DEF TickDead
<1>2. next_pid' = next_pid /\ pstate[p] = "ZOMBIE"
  BY DEF TickDead
<1>3. p \in InUse \ {Shell} /\ p \in Slots
  BY <1>2 DEF IInv, TypeOK, RingInv, InUse
<1>4. c \in InUse /\ c # p /\ pstate[c] = "READY"
  BY <1>1, RingIsInUseLemma DEF FirstReady, Others, RingIsInUse
<1>5. InUse' = InUse \ {p}
  BY <1>1, <1>3, <1>4 DEF IInv, TypeOK, InUse
<1>6. /\ run_queue' = Shell
      /\ next' \in [Slots -> Slots \cup {NULL}]
      /\ stack' \in [Slots -> Stacks \cup {NULL}]
      /\ live' \in SUBSET Stacks
      /\ pid' \in [Slots -> Nat]
      /\ \A s \in Slots : next'[s] = NULL <=> s \notin InUse'
      /\ IsRing(InUse', next')
      /\ StackOwned'
  BY <1>1, <1>3, <1>5, UnlinkInv
<1>7. TypeOK'
  <2>1. run_queue' \in Slots /\ quantum_count' \in 0 .. Quantum - 1
    BY <1>1, <1>6 DEF Slots, Shell
  <2>2. pstate' \in [Slots -> States]
    BY <1>1, <1>3, <1>4 DEF IInv, TypeOK, States
  <2> QED BY <1>1, <1>2, <1>6, <2>1, <2>2 DEF IInv, TypeOK
<1>8. RingInv'
  BY <1>1, <1>3, <1>4, <1>6 DEF IInv, TypeOK, RingInv, Slots, Shell
<1>9. OneRunning'
  BY <1>1, <1>3, <1>4 DEF IInv, TypeOK, OneRunning
<1> QED BY <1>6, <1>7, <1>8, <1>9 DEF IInv

\* A switch at the end of the quantum touches no link.
LEMMA TickSwitchIInv ==
    ASSUME IInv, TickSwitch
    PROVE  IInv'
<1> USE ConstantsAssumption
<1>1. /\ UNCHANGED <<pid, next, stack, live, run_queue, next_pid>>
      /\ quantum_count' = 0
      /\ pstate[current_process] = "RUNNING"
  BY DEF TickSwitch, IInv, OneRunning
<1>2. CASE UNCHANGED <<pstate, current_process>>
  BY <1>1, <1>2 DEF IInv, TypeOK, RingInv, IsRing, OneRunning, StackOwned, InUse
<1>3. ASSUME NEW c \in Slots, FirstReady(c), current_process' = c,
             pstate' = [pstate EXCEPT ![current_process] = "READY", ![c] = "RUNNING"]
      PROVE  IInv'
  <2>1. c # current_process /\ pstate[c] = "READY" /\ current_process \in Slots
    BY <1>3 DEF FirstReady, Others, IInv, TypeOK
  <2>2. InUse' = InUse
    BY <1>1, <1>3, <2>1 DEF IInv, TypeOK, InUse
  <2>3. TypeOK'
    BY <1>1, <1>3, <2>1 DEF IInv, TypeOK, States
  <2>4. RingInv'
    <3>1. IsRing(InUse', next')
      BY <1>1, <2>2 DEF IInv, RingInv
    <3>2. pstate'[Shell] \in {"READY", "RUNNING"}
      BY <1>3, <2>1 DEF IInv, TypeOK, RingInv, Slots, Shell
    <3> QED BY <1>1, <2>2, <3>1, <3>2 DEF IInv, RingInv
  <2>5. OneRunning'
    BY <1>3, <2>1 DEF IInv, TypeOK, OneRunning
  <2>6. StackOwned'
    BY <1>1, <2>2 DEF IInv, StackOwned
  <2> QED BY <2>3, <2>4, <2>5, <2>6 DEF IInv
<1> QED BY <1>2, <1>3 DEF TickSwitch

\* Every step keeps the inductive invariant.
LEMMA NextIInv == IInv /\ [Next]_vars => IInv'
<1> SUFFICES ASSUME IInv, [Next]_vars PROVE IInv'
  OBVIOUS
<1>1. CASE ShellCreate
  BY <1>1, CreateIInv DEF ShellCreate
<1>2. CASE Fork
  BY <1>2, CreateIInv DEF Fork
<1>3. CASE Exit
  BY <1>3, ExitIInv
<1>4. CASE Kill
  BY <1>4, KillIInv
<1>5. CASE TickDead
  BY <1>5, TickDeadIInv
<1>6. CASE TickCount
  BY <1>6, ConstantsAssumption
  DEF TickCount, ring, IInv, TypeOK, RingInv, IsRing, OneRunning, StackOwned, InUse
<1>7. CASE TickSwitch
  BY <1>7, TickSwitchIInv
<1>8. CASE UNCHANGED vars
  BY <1>8
  DEF vars, ring, IInv, TypeOK, RingInv, IsRing, OneRunning, StackOwned, InUse
<1> QED BY <1>1, <1>2, <1>3, <1>4, <1>5, <1>6, <1>7, <1>8 DEF Next, Tick

\* The inductive invariant holds in every reachable state.
THEOREM Invariance == Spec => []IInv
BY InitIInv, NextIInv, PTL DEF Spec

-----------------------------------------------------------------------------
(* The properties.                                                         *)

\* Every variable keeps its type.
THEOREM TypeCorrect == Spec => []TypeOK
<1>1. IInv => TypeOK
  BY DEF IInv
<1> QED BY <1>1, Invariance, PTL

\* Whatever sequence of creates, forks, exits, kills and ticks, the slots in
\* use form one ring that every walk of process.c covers.
THEOREM RingSafety == Spec => []RingIsInUse
BY RingIsInUseLemma, Invariance, PTL

\* One process runs at a time.
THEOREM OneRunningSafety == Spec => []OneRunning
<1>1. IInv => OneRunning
  BY DEF IInv
<1> QED BY <1>1, Invariance, PTL

\* Kernel stacks are neither leaked nor shared.
THEOREM StackSafety == Spec => []StackOwned
<1>1. IInv => StackOwned
  BY DEF IInv
<1> QED BY <1>1, Invariance, PTL

\* No dead process is ever scheduled again.
THEOREM ZombieSafety == Spec => ZombieStaysDead
<1> DEFINE A == \A s \in Slots :
                    pstate[s] = "ZOMBIE" => pstate'[s] \in {"ZOMBIE", "UNUSED"}
<1>1. ASSUME IInv, [Next]_vars PROVE [A]_vars
  <2> SUFFICES ASSUME Next PROVE A
    BY <1>1 DEF vars, ring
  <2> SUFFICES ASSUME NEW s \in Slots, pstate[s] = "ZOMBIE"
               PROVE  pstate'[s] \in {"ZOMBIE", "UNUSED"}
    OBVIOUS
  <2> USE <1>1 DEF IInv, TypeOK
  <2>1. CASE ShellCreate \/ Fork
    BY <2>1 DEF ShellCreate, Fork, Create, FirstUnused
  <2>2. CASE Exit \/ Kill
    BY <2>2 DEF Exit, Kill
  <2>3. CASE TickDead
    BY <2>3, DeadHasSuccessor DEF TickDead, FirstReady
  <2>4. CASE TickCount
    BY <2>4 DEF TickCount, ring
  <2>5. CASE TickSwitch
    BY <2>5 DEF TickSwitch, FirstReady
  <2> QED BY <2>1, <2>2, <2>3, <2>4, <2>5 DEF Next, Tick
<1> QED BY <1>1, Invariance, PTL DEF Spec, ZombieStaysDead

-----------------------------------------------------------------------------
(* Ranks: f counts the steps along nx from a slot of the ring to s.        *)

Rank(L, nx, s, f) ==
    /\ \A x \in L : f[x] \in Nat
    /\ f[s] = 0
    /\ \A x \in L \ {s} : f[x] = f[nx[x]] + 1
    /\ \A x, y \in L : f[x] = f[y] => x = y

\* g ranks the slots of L in the order in which f does.
SameOrder(L, f, g) == \A x, y \in L : f[x] >= f[y] => g[x] >= g[y]

\* A slot spliced in after c pushes those before it back.
LEMMA InsertRank ==
    ASSUME NEW L, NEW nx, NEW c \in L, NEW p, p \notin L,
           NEW D, L \subseteq D, p \in D, nx = [x \in D |-> nx[x]], IsRing(L, nx),
           NEW s \in L, NEW f, Rank(L, nx, s, f)
    PROVE  \E g : /\ Rank(L \cup {p}, [nx EXCEPT ![p] = nx[c], ![c] = p], s, g)
                  /\ SameOrder(L, f, g)
<1> DEFINE ny == [nx EXCEPT ![p] = nx[c], ![c] = p]
           g == [x \in D |-> IF x = p THEN f[nx[c]] + 1
                              ELSE IF s # c /\ f[x] >= f[c] THEN f[x] + 1 ELSE f[x]]
<1>1. ny[p] = nx[c] /\ ny[c] = p /\ \A x \in L \ {c} : ny[x] = nx[x]
  OBVIOUS
<1>2. \A x \in L : nx[x] \in L /\ f[x] \in Nat /\ x # p
  BY DEF IsRing, Rank
<1>3. \A x, y \in L : (f[x] = f[y] => x = y) /\ (nx[x] = nx[y] => x = y)
  BY DEF IsRing, Rank
<1>4. f[s] = 0 /\ \A x \in L \ {s} : f[x] = f[nx[x]] + 1
  BY DEF Rank
<1>5. /\ g[p] = f[nx[c]] + 1
      /\ \A x \in L : g[x] = IF s # c /\ f[x] >= f[c] THEN f[x] + 1 ELSE f[x]
  BY <1>2
<1> HIDE DEF ny, g
<1>6. CASE s = c
  <2>1. \A x \in L : g[x] = f[x]
    BY <1>5, <1>6
  <2>2. ASSUME NEW x \in L PROVE f[x] # g[p]
    <3>1. CASE x = s
      BY <1>2, <1>4, <1>5, <3>1
    <3>2. CASE x # s
      <4>1. f[x] = f[nx[x]] + 1 /\ f[nx[x]] \in Nat /\ f[nx[c]] \in Nat
        BY <1>2, <1>4, <3>2
      <4>2. nx[x] # nx[c] /\ nx[x] \in L /\ nx[c] \in L
        BY <1>2, <1>3, <1>6, <3>2
      <4>3. f[nx[x]] # f[nx[c]]
        BY <1>3, <4>2
      <4> QED BY <1>5, <4>1, <4>3
    <3> QED BY <3>1, <3>2
  <2>3. \A x \in L \cup {p} : g[x] \in Nat
    BY <1>2, <1>5, <2>1
  <2>4. \A x \in (L \cup {p}) \ {s} : g[x] = g[ny[x]] + 1
    BY <1>1, <1>2, <1>4, <1>5, <1>6, <2>1
  <2>5. \A x, y \in L \cup {p} : g[x] = g[y] => x = y
    BY <1>3, <2>1, <2>2
  <2>6. SameOrder(L, f, g) /\ g[s] = 0
    BY <1>4, <2>1 DEF SameOrder
  <2> QED BY <2>3, <2>4, <2>5, <2>6 DEF Rank, ny
<1>7. CASE s # c
  <2>1. /\ f[c] = f[nx[c]] + 1 /\ g[p] = f[c] /\ f[c] \in Nat /\ f[c] > 0
        /\ g[c] = f[c] + 1
    BY <1>2, <1>4, <1>5, <1>7
  <2>2. \A x \in L : /\ f[x] >= f[c] => g[x] = f[x] + 1
                     /\ f[x] < f[c] => g[x] = f[x]
    BY <1>2, <1>5, <1>7
  <2>3. \A x \in L : f[x] \in Nat
    BY <1>2
  <2>4. \A x \in L \cup {p} : g[x] \in Nat
    BY <2>1, <2>2, <2>3
  <2>5. ASSUME NEW x \in (L \cup {p}) \ {s} PROVE g[x] = g[ny[x]] + 1
    <3>1. CASE x = p
      <4>1. nx[c] \in L /\ f[nx[c]] < f[c]
        BY <1>2, <2>1
      <4> QED BY <1>1, <2>1, <2>2, <3>1, <4>1
    <3>2. CASE x = c
      BY <1>1, <2>1, <3>2
    <3>3. CASE x \in L \ {c, s}
      <4>1. f[x] = f[nx[x]] + 1 /\ f[x] # f[c] /\ nx[x] \in L /\ ny[x] = nx[x]
        BY <1>1, <1>2, <1>3, <1>4, <3>3
      <4>2. f[x] \in Nat /\ f[nx[x]] \in Nat
        BY <1>2, <3>3
      <4>3. f[x] > f[c] <=> f[nx[x]] >= f[c]
        BY <2>1, <4>1, <4>2
      <4> QED BY <2>1, <2>2, <3>3, <4>1, <4>2, <4>3
    <3> QED BY <3>1, <3>2, <3>3
  <2>6. \A x \in L : g[x] # g[p]
    BY <2>1, <2>2, <2>3
  <2>7. ASSUME NEW x \in L, NEW y \in L, g[x] = g[y] PROVE x = y
    <3>1. f[x] = f[y]
      BY <2>1, <2>2, <2>3, <2>7
    <3> QED BY <1>3, <3>1
  <2>8. SameOrder(L, f, g)
    <3> SUFFICES ASSUME NEW x \in L, NEW y \in L, f[x] >= f[y] PROVE g[x] >= g[y]
      BY DEF SameOrder
    <3> QED BY <2>1, <2>2, <2>3
  <2>9. g[s] = 0
    BY <1>4, <2>1, <2>2
  <2> QED BY <2>4, <2>5, <2>6, <2>7, <2>8, <2>9 DEF Rank, ny
<1> QED BY <1>6, <1>7

\* The slot spliced in after c is one step further than c from all others.
LEMMA NewRank ==
    ASSUME NEW L, NEW nx, NEW c \in L, NEW p, p \notin L,
           NEW D, L \subseteq D, p \in D, nx = [x \in D |-> nx[x]], IsRing(L, nx),
           NEW f, Rank(L, nx, c, f)
    PROVE  \E g : Rank(L \cup {p}, [nx EXCEPT ![p] = nx[c], ![c] = p], p, g)
<1> DEFINE ny == [nx EXCEPT ![p] = nx[c], ![c] = p]
           g == [x \in D |-> IF x = p THEN 0 ELSE f[x] + 1]
<1>1. ny[p] = nx[c] /\ ny[c] = p /\ \A x \in L \ {c} : ny[x] = nx[x]
  OBVIOUS
<1>2. \A x \in L : nx[x] \in L /\ f[x] \in Nat /\ x # p
  BY DEF IsRing, Rank
<1>3. g[p] = 0 /\ \A x \in L : g[x] = f[x] + 1
  BY <1>2
<1> HIDE DEF ny, g
<1>4. f[c] = 0 /\ \A x \in L \ {c} : f[x] = f[nx[x]] + 1
  BY DEF Rank
<1>5. \A x \in L \cup {p} : g[x] \in Nat
  BY <1>2, <1>3
<1>6. ASSUME NEW x \in L PROVE g[x] = g[ny[x]] + 1
  <2>1. CASE x = c
    BY <1>1, <1>3, <1>4, <2>1
  <2>2. CASE x # c
    BY <1>1, <1>2, <1>3, <1>4, <2>2
  <2> QED BY <2>1, <2>2
<1>7. \A x, y \in L : f[x] = f[y] => x = y
  BY DEF Rank
<1>8. \A x, y \in L \cup {p} : g[x] = g[y] => x = y
  BY <1>2, <1>3, <1>7
<1> QED BY <1>3, <1>5, <1>6, <1>8 DEF Rank, ny

\* A slot bypassed by its predecessor brings those before it closer.
LEMMA RemoveRank ==
    ASSUME NEW L, NEW nx, NEW p \in L, NEW q \in L, nx[q] = p, p # q,
           NEW D, L \subseteq D, nx = [x \in D |-> nx[x]], NEW null, IsRing(L, nx),
           NEW s \in L, s # p, NEW f, Rank(L, nx, s, f)
    PROVE  \E g : /\ Rank(L \ {p}, [nx EXCEPT ![q] = nx[p], ![p] = null], s, g)
                  /\ SameOrder(L \ {p}, f, g)
<1> DEFINE ny == [nx EXCEPT ![q] = nx[p], ![p] = null]
           g == [x \in D |-> IF f[x] > f[p] THEN f[x] - 1 ELSE f[x]]
<1>1. ny[q] = nx[p] /\ \A x \in L \ {p, q} : ny[x] = nx[x]
  OBVIOUS
<1>2. \A x \in L : nx[x] \in L /\ f[x] \in Nat
  BY DEF IsRing, Rank
<1>3. \A x, y \in L : (f[x] = f[y] => x = y) /\ (nx[x] = nx[y] => x = y)
  BY DEF IsRing, Rank
<1>4. f[s] = 0 /\ \A x \in L \ {s} : f[x] = f[nx[x]] + 1
  BY DEF Rank
<1>5. \A x \in L : g[x] = IF f[x] > f[p] THEN f[x] - 1 ELSE f[x]
  OBVIOUS
<1> HIDE DEF ny, g
<1>6. /\ f[p] \in Nat /\ f[p] > 0 /\ f[p] = f[nx[p]] + 1
      /\ nx[p] \in L /\ f[nx[p]] \in Nat
  BY <1>2, <1>4
<1>7. ASSUME NEW x \in L \ {p}
      PROVE  /\ f[x] \in Nat /\ g[x] \in Nat
             /\ \/ f[x] < f[p] /\ g[x] = f[x]
                \/ f[x] > f[p] /\ f[x] = g[x] + 1
  <2>1. f[x] # f[p] /\ f[x] \in Nat /\ g[x] = IF f[x] > f[p] THEN f[x] - 1 ELSE f[x]
    BY <1>2, <1>3, <1>5
  <2>2. CASE f[x] > f[p]
    <3>1. g[x] = f[x] - 1
      BY <2>1, <2>2
    <3> QED BY <1>6, <2>1, <2>2, <3>1
  <2>3. CASE f[x] < f[p]
    <3>1. ~(f[x] > f[p])
      BY <1>6, <2>1, <2>3
    <3> QED BY <2>1, <2>3, <3>1
  <2> QED BY <1>6, <2>1, <2>2, <2>3
<1>8. ASSUME NEW x \in (L \ {p}) \ {s} PROVE g[x] = g[ny[x]] + 1
  <2>1. f[x] = f[nx[x]] + 1 /\ nx[x] \in L
    BY <1>2, <1>4
  <2>2. CASE x = q
    <3>1. f[x] = f[p] + 1 /\ ny[x] = nx[p]
      BY <1>1, <2>1, <2>2
    <3>a. g[x] = f[p]
      BY <1>6, <1>7, <3>1
    <3>2. nx[p] # p
      BY <1>3, <2>2
    <3>3. g[nx[p]] = f[nx[p]]
      BY <1>6, <1>7, <3>2
    <3> QED BY <1>6, <3>1, <3>a, <3>3
  <2>3. CASE x # q
    <3>1. nx[x] # p /\ ny[x] = nx[x]
      BY <1>1, <1>3, <2>3
    <3>2. /\ f[x] \in Nat /\ g[x] \in Nat
          /\ \/ f[x] < f[p] /\ g[x] = f[x]
             \/ f[x] > f[p] /\ f[x] = g[x] + 1
      BY <1>7
    <3>3. /\ f[nx[x]] \in Nat /\ g[nx[x]] \in Nat
          /\ \/ f[nx[x]] < f[p] /\ g[nx[x]] = f[nx[x]]
             \/ f[nx[x]] > f[p] /\ f[nx[x]] = g[nx[x]] + 1
      BY <1>7, <2>1, <3>1
    <3> QED BY <1>6, <2>1, <3>1, <3>2, <3>3
  <2> QED BY <2>2, <2>3
<1>9. ASSUME NEW x \in L \ {p}, NEW y \in L \ {p}, g[x] = g[y] PROVE x = y
  <2>1. f[x] = f[y]
    BY <1>6, <1>7, <1>9
  <2> QED BY <1>3, <2>1
<1>10. SameOrder(L \ {p}, f, g)
  <2> SUFFICES ASSUME NEW x \in L \ {p}, NEW y \in L \ {p}, f[x] >= f[y]
               PROVE  g[x] >= g[y]
    BY DEF SameOrder
  <2> QED BY <1>6, <1>7
<1>11. g[s] = 0
  BY <1>4, <1>6, <1>7
<1> QED BY <1>7, <1>8, <1>9, <1>10, <1>11 DEF Rank, ny

-----------------------------------------------------------------------------
(* Turns: who was served since s began to wait lies behind the current     *)
(* slot on the way from s round to it, and whoever comes next before it.   *)

Behind(s, f) ==
    pstate[s] = "READY" => \A x \in served[s] : f[x] >= f[current_process]

TurnInv ==
    /\ served \in [Slots -> SUBSET InUse]
    /\ \A s \in InUse : \E f : Rank(InUse, next, s, f) /\ Behind(s, f)

\* The first READY slot after the current one is no further than s from s.
LEMMA FirstReadyIsBefore ==
    ASSUME IInv, NEW s \in InUse, pstate[s] = "READY", NEW f, Rank(InUse, next, s, f),
           NEW c, FirstReady(c)
    PROVE  f[c] < f[current_process]
<1>1. current_process \in InUse /\ s # current_process /\ NULL \notin InUse
  BY ConstantsAssumption DEF IInv, TypeOK, OneRunning, InUse
<1>2. Others = InUse \ {current_process}
  BY RingIsInUseLemma DEF RingIsInUse, Others
<1>3. PICK P \in SUBSET Others :
        /\ c \notin P
        /\ next[current_process] \in P \cup {c}
        /\ \A x \in P : pstate[x] # "READY" /\ next[x] \in P \cup {c}
  BY DEF FirstReady
<1>4. c \in InUse
  BY <1>2 DEF FirstReady
<1>5. /\ \A x \in InUse : f[x] \in Nat
      /\ \A x \in InUse \ {s} : f[x] = f[next[x]] + 1
  BY DEF Rank
<1>6. f[c] \in Nat /\ f[current_process] \in Nat
      /\ f[current_process] = f[next[current_process]] + 1
  BY <1>1, <1>4, <1>5
<1>7. SUFFICES ASSUME f[c] >= f[current_process] PROVE FALSE
  BY <1>6
<1> DEFINE S == {x \in P : f[x] < f[current_process]}
<1>8. P \subseteq InUse /\ current_process \notin P /\ s \notin P
  BY <1>2, <1>3
<1>9. next[current_process] \in S
  <2>1. next[current_process] \in InUse
    BY <1>1 DEF IInv, RingInv, IsRing
  <2>2. f[next[current_process]] \in Nat
    BY <1>5, <2>1
  <2>3. f[next[current_process]] < f[current_process]
    BY <1>6, <2>2
  <2>4. next[current_process] # c
    BY <1>6, <1>7, <2>3
  <2> QED BY <1>3, <2>3, <2>4
<1>10. ASSUME NEW x \in S PROVE next[x] \in S
  <2>1. x \in P /\ x \in InUse \ {s} /\ next[x] \in P \cup {c}
    BY <1>3, <1>8
  <2>2. f[x] = f[next[x]] + 1 /\ f[next[x]] \in Nat /\ f[x] < f[current_process]
    BY <1>4, <1>5, <1>8, <2>1
  <2>3. f[next[x]] < f[current_process]
    BY <1>6, <2>2
  <2>4. next[x] # c
    BY <1>6, <1>7, <2>3
  <2> QED BY <2>1, <2>3, <2>4
<1>11. S = InUse
  BY <1>8, <1>9, <1>10 DEF IInv, RingInv, IsRing
<1> QED BY <1>1, <1>8, <1>11

\* What the history variable holds after a step.
LEMMA ServedNow ==
    ASSUME IInv', TurnInv, TNext
    PROVE  /\ served' \in [Slots -> SUBSET InUse']
           /\ \A s \in Slots :
                 /\ pstate[s] = "READY" => served'[s] \subseteq served[s] \cup Dispatched
                 /\ pstate[s] # "READY" => served'[s] = Dispatched
<1>1. current_process' \in InUse'
  BY DEF IInv, TypeOK, OneRunning, InUse
<1>2. Dispatched \subseteq InUse'
  BY <1>1 DEF Dispatched
<1> QED BY <1>2 DEF TNext

\* A slot that waited before the step and waits on: those served stay behind
\* when the step keeps the order of the ring and the CPU moves towards s.
LEMMA StaysBehind ==
    ASSUME IInv, IInv', TurnInv, TNext, NEW s \in InUse, pstate[s] = "READY",
           NEW f, Rank(InUse, next, s, f), Behind(s, f),
           current_process' \in InUse,
           current_process' = current_process \/ f[current_process'] < f[current_process],
           NEW g, SameOrder(InUse \cap InUse', f, g)
    PROVE  \A x \in served'[s] : g[x] >= g[current_process']
<1> SUFFICES ASSUME NEW x \in served'[s] PROVE g[x] >= g[current_process']
  OBVIOUS
<1>1. s \in Slots /\ current_process \in InUse /\ current_process' \in InUse'
  BY DEF IInv, TypeOK, OneRunning, InUse
<1>2. x \in InUse' /\ (x \in served[s] \/ x \in Dispatched) /\ served[s] \subseteq InUse
  BY <1>1, ServedNow DEF TurnInv
<1>3. \A y \in InUse : f[y] \in Nat
  BY DEF Rank
<1>4. CASE x \in served[s]
  <2>1. f[x] >= f[current_process] /\ x \in InUse
    BY <1>2, <1>4 DEF Behind
  <2>2. f[x] >= f[current_process']
    BY <1>1, <1>3, <2>1
  <2> QED BY <1>1, <1>2, <2>1, <2>2 DEF SameOrder
<1>5. CASE x \in Dispatched
  <2>1. x = current_process'
    BY <1>5 DEF Dispatched
  <2>2. f[x] >= f[x]
    BY <1>3, <2>1
  <2> QED BY <1>1, <2>1, <2>2 DEF SameOrder
<1> QED BY <1>2, <1>4, <1>5

\* At the start nobody waits and the shell is its own successor.
LEMMA InitTurnInv == TInit => TurnInv
<1> SUFFICES ASSUME TInit PROVE TurnInv
  OBVIOUS
<1>0. Shell \in Slots
  BY ConstantsAssumption DEF Slots, Shell
<1>1. InUse = {Shell} /\ Shell \in Slots
  BY <1>0 DEF TInit, Init, InUse
<1> DEFINE f == [x \in Slots |-> 0]
<1>2. Rank(InUse, next, Shell, f)
  BY <1>1 DEF Rank
<1>3. pstate[Shell] # "READY"
  BY <1>1 DEF TInit, Init
<1>4. Rank(InUse, next, Shell, f) /\ Behind(Shell, f)
  BY <1>2, <1>3 DEF Behind
<1> QED BY <1>1, <1>4 DEF TurnInv, TInit

\* Steps that leave the links and the CPU and let nobody begin to wait.
LEMMA QuietTurnInv ==
    ASSUME IInv, IInv', TurnInv, TNext, Exit \/ TickCount
    PROVE  TurnInv'
<1>1. InUse' = InUse /\ next' = next /\ current_process' = current_process
      /\ \A s \in Slots : pstate'[s] = "READY" => pstate[s] = "READY"
  BY DEF Exit, TickCount, ring, IInv, TypeOK, OneRunning, InUse
<1>2. ASSUME NEW s \in InUse
      PROVE  \E g : Rank(InUse', next', s, g) /\ Behind(s, g)'
  <2>1. PICK f : Rank(InUse, next, s, f) /\ Behind(s, f)
    BY DEF TurnInv
  <2>2. SameOrder(InUse \cap InUse', f, f)
    BY DEF SameOrder
  <2>3. current_process' \in InUse
    BY <1>1 DEF IInv, TypeOK, OneRunning, InUse
  <2>4. Behind(s, f)'
    <3> SUFFICES ASSUME pstate'[s] = "READY"
                 PROVE  \A x \in served'[s] : f[x] >= f[current_process']
      BY DEF Behind
    <3>1. pstate[s] = "READY"
      BY <1>1 DEF InUse
    <3> QED BY <1>1, <2>1, <2>2, <2>3, <3>1, StaysBehind
  <2> QED BY <1>1, <2>1, <2>4
<1> QED BY <1>1, <1>2, ServedNow DEF TurnInv

\* A new process enters right after the current one: ahead of all who wait.
LEMMA CreateTurnInv ==
    ASSUME IInv, IInv', TurnInv, TNext, NEW st \in {"READY", "ZOMBIE"}, Create(st)
    PROVE  TurnInv'
<1>1. PICK p \in Slots :
        /\ FirstUnused(p)
        /\ pstate' = [pstate EXCEPT ![p] = st]
        /\ next' = [next EXCEPT ![p] = next[current_process], ![current_process] = p]
        /\ current_process' = current_process
  BY DEF Create
<1>2. p \notin InUse /\ current_process \in InUse /\ InUse \subseteq Slots
      /\ pstate[p] = "UNUSED"
  BY <1>1 DEF FirstUnused, InUse, IInv, TypeOK, OneRunning
<1>3. InUse' = InUse \cup {p}
  BY <1>1 DEF IInv, TypeOK, InUse
<1>4. next = [x \in Slots |-> next[x]] /\ IsRing(InUse, next)
  BY DEF IInv, TypeOK, RingInv
<1>5. ASSUME NEW s \in InUse
      PROVE  \E g : Rank(InUse', next', s, g) /\ Behind(s, g)'
  <2>1. PICK f : Rank(InUse, next, s, f) /\ Behind(s, f)
    BY DEF TurnInv
  <2>2. PICK g : /\ Rank(InUse \cup {p},
                         [next EXCEPT ![p] = next[current_process],
                                      ![current_process] = p], s, g)
                 /\ SameOrder(InUse, f, g)
    BY <1>2, <1>4, <2>1, InsertRank
  <2>3. SameOrder(InUse \cap InUse', f, g)
    BY <2>2 DEF SameOrder
  <2>4. Behind(s, g)'
    <3> SUFFICES ASSUME pstate'[s] = "READY"
                 PROVE  \A x \in served'[s] : g[x] >= g[current_process']
      BY DEF Behind
    <3>1. pstate[s] = "READY"
      BY <1>1, <1>2 DEF IInv, TypeOK
    <3> QED BY <1>1, <1>2, <2>1, <2>3, <3>1, StaysBehind
  <2> QED BY <1>1, <1>3, <2>2, <2>4
<1>6. \E g : Rank(InUse', next', p, g) /\ Behind(p, g)'
  <2>1. PICK f : Rank(InUse, next, current_process, f)
    BY <1>2 DEF TurnInv
  <2>2. PICK g : Rank(InUse \cup {p},
                      [next EXCEPT ![p] = next[current_process],
                                   ![current_process] = p], p, g)
    BY <1>2, <1>4, <2>1, NewRank
  <2>3. served'[p] = {}
    BY <1>1, <1>2, ServedNow DEF Dispatched
  <2>4. Behind(p, g)'
    BY <2>3 DEF Behind
  <2> QED BY <1>1, <1>3, <2>2, <2>4
<1> QED BY <1>3, <1>5, <1>6, ServedNow DEF TurnInv

\* A slot that leaves the ring takes nobody's place.
LEMMA UnlinkRank ==
    ASSUME IInv, NEW p \in InUse \ {Shell}, NEW prev \in Slots, next[prev] = p,
           Unlink(prev, p), NEW s \in InUse \ {p}, NEW f, Rank(InUse, next, s, f)
    PROVE  \E g : Rank(InUse \ {p}, next', s, g) /\ SameOrder(InUse \ {p}, f, g)
<1>1. InUse \subseteq Slots /\ Shell \in InUse
  BY ConstantsAssumption DEF IInv, RingInv, InUse, Slots, Shell
<1>2. prev \in InUse
  BY <1>1, ConstantsAssumption DEF IInv, RingInv
<1>3. prev # p
  <2> SUFFICES ASSUME prev = p PROVE FALSE
    OBVIOUS
  <2>1. next[p] = p /\ {p} \in SUBSET InUse
    OBVIOUS
  <2>2. \A S \in SUBSET InUse : S # {} /\ (\A u \in S : next[u] \in S) => S = InUse
    BY DEF IInv, RingInv, IsRing
  <2>3. {p} = InUse
    BY <2>1, <2>2
  <2> QED BY <1>1, <2>3
<1>4. next = [x \in Slots |-> next[x]] /\ IsRing(InUse, next)
  BY DEF IInv, TypeOK, RingInv
<1>5. next' = [next EXCEPT ![prev] = next[p], ![p] = NULL]
  BY DEF Unlink
<1> QED BY <1>1, <1>2, <1>3, <1>4, <1>5, RemoveRank

\* kill.
LEMMA KillTurnInv ==
    ASSUME IInv, IInv', TurnInv, TNext, Kill
    PROVE  TurnInv'
<1>1. PICK p \in Reach(run_queue) \ {current_process}, prev \in Slots :
        /\ next[prev] = p
        /\ Unlink(prev, p)
        /\ pstate' = [pstate EXCEPT ![p] = "UNUSED"]
        /\ current_process' = current_process
  BY DEF Kill
<1>2. current_process = Shell /\ Reach(run_queue) = InUse
  BY RingIsInUseLemma DEF Kill, RingIsInUse
<1>3. p \in InUse \ {Shell} /\ p \in Slots /\ current_process \in InUse
  BY <1>1, <1>2 DEF InUse, IInv, TypeOK, OneRunning
<1>4. InUse' = InUse \ {p}
  BY <1>1, <1>3 DEF IInv, TypeOK, InUse
<1>5. ASSUME NEW s \in InUse'
      PROVE  \E g : Rank(InUse', next', s, g) /\ Behind(s, g)'
  <2>1. PICK f : Rank(InUse, next, s, f) /\ Behind(s, f)
    BY <1>4, <1>5 DEF TurnInv
  <2>2. PICK g : Rank(InUse \ {p}, next', s, g) /\ SameOrder(InUse \ {p}, f, g)
    BY <1>1, <1>3, <1>4, <1>5, <2>1, UnlinkRank
  <2>3. SameOrder(InUse \cap InUse', f, g)
    BY <1>4, <2>2 DEF SameOrder
  <2>4. Behind(s, g)'
    <3> SUFFICES ASSUME pstate'[s] = "READY"
                 PROVE  \A x \in served'[s] : g[x] >= g[current_process']
      BY DEF Behind
    <3>1. pstate[s] = "READY" /\ s \in InUse
      BY <1>1, <1>3, <1>4, <1>5 DEF IInv, TypeOK, InUse
    <3> QED BY <1>1, <1>3, <2>1, <2>3, <3>1, StaysBehind
  <2> QED BY <1>4, <2>2, <2>4
<1> QED BY <1>5, ServedNow DEF TurnInv

\* The dead process leaves the ring, and the CPU, to the first READY one.
LEMMA TickDeadTurnInv ==
    ASSUME IInv, IInv', TurnInv, TNext, TickDead
    PROVE  TurnInv'
<1> DEFINE p == current_process
<1>1. PICK c \in Slots, prev \in Slots :
        /\ FirstReady(c)
        /\ next[prev] = p
        /\ Unlink(prev, p)
        /\ pstate' = [pstate EXCEPT ![p] = "UNUSED", ![c] = "RUNNING"]
        /\ current_process' = c
  BY DeadHasSuccessor DEF TickDead
<1>2. p \in InUse \ {Shell} /\ p \in Slots /\ pstate[p] = "ZOMBIE"
  BY DEF TickDead, IInv, TypeOK, RingInv, InUse
<1>3. c \in InUse /\ c # p
  BY <1>1, RingIsInUseLemma DEF FirstReady, Others, RingIsInUse
<1>4. InUse' = InUse \ {p}
  BY <1>1, <1>2, <1>3 DEF IInv, TypeOK, InUse
<1>5. ASSUME NEW s \in InUse'
      PROVE  \E g : Rank(InUse', next', s, g) /\ Behind(s, g)'
  <2>1. PICK f : Rank(InUse, next, s, f) /\ Behind(s, f)
    BY <1>4, <1>5 DEF TurnInv
  <2>2. PICK g : Rank(InUse \ {p}, next', s, g) /\ SameOrder(InUse \ {p}, f, g)
    BY <1>1, <1>2, <1>4, <1>5, <2>1, UnlinkRank
  <2>3. SameOrder(InUse \cap InUse', f, g)
    BY <1>4, <2>2 DEF SameOrder
  <2>4. Behind(s, g)'
    <3> SUFFICES ASSUME pstate'[s] = "READY"
                 PROVE  \A x \in served'[s] : g[x] >= g[current_process']
      BY DEF Behind
    <3>1. pstate[s] = "READY" /\ s \in InUse
      BY <1>1, <1>2, <1>3, <1>4, <1>5 DEF IInv, TypeOK, InUse
    <3>2. f[c] < f[current_process]
      BY <1>1, <2>1, <3>1, FirstReadyIsBefore
    <3> QED BY <1>1, <1>3, <2>1, <2>3, <3>1, <3>2, StaysBehind
  <2> QED BY <1>4, <2>2, <2>4
<1> QED BY <1>5, ServedNow DEF TurnInv

\* The quantum is over: who loses the CPU is behind all others.
LEMMA TickSwitchTurnInv ==
    ASSUME IInv, IInv', TurnInv, TNext, TickSwitch
    PROVE  TurnInv'
<1>1. next' = next /\ pstate[current_process] = "RUNNING" /\ current_process \in InUse
  BY DEF TickSwitch, IInv, TypeOK, OneRunning, InUse
<1>2. \/ UNCHANGED <<pstate, current_process>>
      \/ \E c \in Slots :
            /\ FirstReady(c) /\ current_process' = c
            /\ pstate' = [pstate EXCEPT ![current_process] = "READY", ![c] = "RUNNING"]
  BY DEF TickSwitch
<1>3. InUse' = InUse
  BY <1>1, <1>2 DEF FirstReady, Others, IInv, TypeOK, InUse
<1>4. current_process' \in InUse
  BY <1>3 DEF IInv, TypeOK, OneRunning, InUse
<1>5. ASSUME NEW s \in InUse
      PROVE  \E g : Rank(InUse', next', s, g) /\ Behind(s, g)'
  <2>1. PICK f : Rank(InUse, next, s, f) /\ Behind(s, f)
    BY DEF TurnInv
  <2>2. SameOrder(InUse \cap InUse', f, f)
    BY DEF SameOrder
  <2>3. ASSUME pstate'[s] = "READY"
        PROVE  \A x \in served'[s] : f[x] >= f[current_process']
    <3>1. CASE s = current_process
      <4>1. served'[s] \subseteq {current_process'}
        BY <1>1, <3>1, ServedNow DEF Dispatched, InUse
      <4>2. f[current_process'] \in Nat
        BY <1>4, <2>1 DEF Rank
      <4> QED BY <4>1, <4>2
    <3>2. CASE s # current_process
      <4>1. pstate[s] = "READY"
        BY <1>1, <1>2, <2>3, <3>2 DEF IInv, TypeOK, InUse
      <4>2. current_process' = current_process \/ f[current_process'] < f[current_process]
        BY <1>2, <2>1, <4>1, FirstReadyIsBefore
      <4> QED BY <1>4, <2>1, <2>2, <4>1, <4>2, StaysBehind
    <3> QED BY <3>1, <3>2
  <2> QED BY <1>1, <1>3, <2>1, <2>3 DEF Behind
<1> QED BY <1>3, <1>5, ServedNow DEF TurnInv

\* Every step keeps those served behind.
LEMMA NextTurnInv == IInv /\ IInv' /\ TurnInv /\ [TNext]_tvars => TurnInv'
<1> SUFFICES ASSUME IInv, IInv', TurnInv, [TNext]_tvars PROVE TurnInv'
  OBVIOUS
<1>1. CASE UNCHANGED tvars
  BY <1>1 DEF tvars, vars, ring, TurnInv, Behind, Rank, InUse
<1>2. CASE TNext
  <2>1. CASE ShellCreate \/ Fork
    BY <1>2, <2>1, CreateTurnInv DEF ShellCreate, Fork
  <2>2. CASE Exit \/ TickCount
    BY <1>2, <2>2, QuietTurnInv
  <2>3. CASE Kill
    BY <1>2, <2>3, KillTurnInv
  <2>4. CASE TickDead
    BY <1>2, <2>4, TickDeadTurnInv
  <2>5. CASE TickSwitch
    BY <1>2, <2>5, TickSwitchTurnInv
  <2>6. Next
    BY <1>2 DEF TNext
  <2> QED BY <2>1, <2>2, <2>3, <2>4, <2>5, <2>6 DEF Next, Tick
<1> QED BY <1>1, <1>2

\* The history variable changes nothing: TSpec has the steps of Spec.
LEMMA TurnsAreTable == TSpec => Spec
<1>1. TInit => Init
  BY DEF TInit
<1>2. [TNext]_tvars => [Next]_vars
  BY DEF TNext, tvars
<1> QED BY <1>1, <1>2, PTL DEF TSpec, Spec

\* The inductive invariant of the turns.
THEOREM TurnInvariance == TSpec => [](IInv /\ TurnInv)
BY TurnsAreTable, Invariance, InitTurnInv, NextTurnInv, PTL DEF TSpec

\* Who is given the CPU, if anybody waits, was the first READY one on the ring.
LEMMA SwitchIsToFirst ==
    ASSUME IInv, Next, current_process' # current_process
    PROVE  FirstReady(current_process')
BY DEF Next, Tick, ShellCreate, Fork, Create, Exit, Kill, TickDead, TickCount, TickSwitch

\* While a process waits, no other one is given the CPU twice, for a table of
\* any size and whatever is created, killed or ends meanwhile.
THEOREM NoOvertakingSafety == TSpec => NoOvertaking
<1> DEFINE A == \A s \in Slots :
                   pstate[s] = "READY" /\ current_process' # current_process
                       => current_process' \notin served[s]
<1>1. ASSUME IInv, TurnInv, [TNext]_tvars PROVE [A]_tvars
  <2> SUFFICES ASSUME TNext, NEW s \in Slots, pstate[s] = "READY",
                      current_process' # current_process
               PROVE  current_process' \notin served[s]
    BY <1>1
  <2>1. FirstReady(current_process')
    BY <1>1, SwitchIsToFirst DEF TNext
  <2>2. s \in InUse
    BY DEF InUse
  <2>3. PICK f : Rank(InUse, next, s, f) /\ Behind(s, f)
    BY <1>1, <2>2 DEF TurnInv
  <2>4. f[current_process'] < f[current_process]
    BY <1>1, <2>1, <2>2, <2>3, FirstReadyIsBefore
  <2>5. current_process \in InUse /\ current_process' \in InUse
    BY <1>1, <2>1, RingIsInUseLemma
    DEF FirstReady, Others, RingIsInUse, IInv, TypeOK, OneRunning, InUse
  <2>6. f[current_process] \in Nat /\ f[current_process'] \in Nat
    BY <2>3, <2>5 DEF Rank
  <2>7. ~(f[current_process'] >= f[current_process])
    BY <2>4, <2>6
  <2> QED BY <2>3, <2>7 DEF Behind
<1> QED BY <1>1, TurnInvariance, PTL DEF TSpec, NoOvertaking
=============================================================================
