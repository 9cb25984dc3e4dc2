# tetOS in TLA+

A verification development for tetOS, the 32-bit x86 kernel of this repository:
TLA+ modules translated from the C and assembly sources, TLC configurations that
check them on small instances, and theorems about them checked by TLAPS.

## 1. The system

tetOS is a monolithic kernel for one processor. It boots from two assembly
stages, sets up paging, a heap, a process table and a timer, mounts its own file
system from an ATA disk, installs its bundled programs and becomes slot 0 of the
process table, "kernel/shell" in `process.c`. It runs with interrupts on. Every
other process is a kernel thread, a ring-3 test function, or a program loaded from
the disk. Three things happen concurrently with slot 0: interrupts (timer,
keyboard, mouse), the processes the timer switches to, and, through `int 0x80`,
their system calls. Interrupt gates clear the interrupt flag. The gate of `int 0x80`
is a trap gate, which does not (`isr.c:118`), but the first instruction behind it is
`cli` (`isr_stub.asm:66`). So a handler is never interrupted, and a system call only
before it has begun.

What slot 0 does has two forms in the source. `kernel_main` ends in the loop of the
*desktop* (`desktop_update`, `desktop_render`, `hlt`), although `README.md:37` says
that the kernel boots "with a working interactive shell". The *shell*,
`shell_run` in `shell.c`, is compiled and linked, but at this commit nothing calls
it, nor anything else that creates a process. Desktop and Input model the loop that runs.
ProcessTable, ContextSwitch, ProcessPreempt, TetFS, Vfs and Memory take the shell's
commands as slot 0's actions: they say what the process table, the loader and the file
system do under the only callers the repository contains, of the file system what
happens at every boot, when `appseed_install` rewrites the bundled programs, and of
memory how the kernel's own address space is built.

| component (sources under `src/`) | state it keeps | operations | hard behaviours | correct when |
|---|---|---|---|---|
| process table, scheduler (`kernel/process`, `kernel/timer`) | 16 slots, the `next` ring, `run_queue`, `current_process`, quantum | create, exit, kill, fork, schedule | calls in any order; the shell's calls preempted half way; starvation | the ring is the set of slots in use, one process runs, stacks have one owner, the dead stay dead, everyone gets the CPU |
| interrupt stubs, GDT/TSS, user mode (`kernel/isr`, `idt`, `gdt`, `user/usermode.c`) | frames on stacks, `sched_switch_esp`, `sched_switch_cr3`, `esp0` | `irq_common_stub`, `isr128`, `enter_user_mode` | a frame saved long before it is restored; one stack for all ring-3 interrupts | the registers loaded are those of the process chosen |
| program loader (`kernel/exec`) | a page directory per program | `run` | failure after each step leaks what was built; attaching the directory after creation | a program runs in its own address space only |
| system calls (`kernel/syscall`) | none | exit, fork, write, read, open, close, malloc, free, ... | run between any two instructions of a preempted shell | as the components they enter |
| kernel heap (`kernel/heap`) | the list of blocks | `kmalloc`, `kfree` | long sequences of splits and merges; size arithmetic | blocks tile the heap, used blocks are disjoint and owned |
| tetFS (`kernel/fs/tetfs.c`) | superblock, inode table, bitmap, data, on disk; `fs_mounted` | format, mount, create, find, write, read, delete | several sectors per call; power cuts and errors between them; overwriting in place | a file reads back as last written, blocks are neither shared nor leaked |
| bundled programs (`kernel/user/appseed.c`) | none | install at boot, after format, on `seed` | rewritten at every boot | as tetFS |
| VFS (`kernel/fs/vfs.c`) | table of open files, one for all programs | open, read, close | an open file outlives the entry it names; reads between two sector writes of the shell | a descriptor reads the file that was opened |
| ATA driver (`kernel/ata`) | registers of the controller | read, write a sector | two users of one controller | a command's registers are written without another's in between |
| shell (`kernel/shell`; not started, see above) | `cwd_inode`, line, history | the commands | runs preemptibly | commands do what they report |
| physical frames, paging (`kernel/pmm`, `kernel/vmm`) | frame bitmap, page tables | alloc, map, create address space | exhaustion half way; nothing is ever freed; page tables shared between address spaces; frames beyond the identity map | the kernel is mapped alike everywhere, the kernel gives a program's pages to nobody else |
| locks, pipes, signals (`kernel/ipc`) | guard, waiters, ring | lock, unlock, read, write | lost wakeups, stale waiters | mutual exclusion, FIFO, progress |
| keyboard, mouse (`kernel/keyboard`, `mouse`) | decoder state, event ring | interrupt produces, reader consumes | overflow, lost bytes, an interrupt between any two steps of the reader, `hlt` after the last look | events arrive once, in order; keys mean what was pressed |
| window manager, desktop (`kernel/wm`, `desktop`) | window list, focus, drag | mouse events, callbacks | callbacks that change the list walked; a lost release | focus and dragging name a visible window |
| VGA console, graphics (`kernel/vga`, `graphics`) | cursor, pixels | draw | bounds | nothing is written outside the buffer |
| boot, `kernel.c`, support, user library | - | run once, then the desktop's loop; or stateless | - | - |

How they interact: the timer interrupt calls `schedule`, which reaps dead
processes and so calls `kfree`; `process_create` calls `kmalloc`; the stub reads
what `schedule` left in `sched_switch_esp`; the loader calls tetFS, the frame
allocator and `process_create_user`, then writes the slot; the shell calls all of
them; system calls enter heap, VFS and process table from other processes. The mouse
interrupt fills a ring that `wm_update` empties once a frame, and also sets the
position and the buttons that `desktop_update` samples; the window manager calls
back into the desktop, which calls it again (a close callback hides its window).

`PROJECT.json` lists every component with its state of modelling and, under
"hazards", what in this code is hard to test, at its line.

## 2. The modules

```
ProcessTable ------ EXTENDED BY -- ContextSwitch      (adds the machine)
     |                          \- ProcessPreempt     (cuts the calls apart,
     |                                                 implements ProcessTable)
     \-- EXTENDED BY -- Turns                         (a history of who ran)
              |
     ProcessTableProofs                               (theorems about both)
              |-- EXTENDED BY -- ContextSwitchProofs
              \-- EXTENDED BY -- ProcessPreemptProofs
Heap   -- implements --> Allocator
     \-- HeapProofs                                   (theorems)
WindowManager ---- EXTENDED BY -- Desktop
                                     \-- DesktopProofs
TetFS  -- implements --> FileStore
     \-- EXTENDED BY -- Vfs       (adds the programs that read)
                          \-- FileSystemProofs        (of both)
Memory                            (frames, page tables, the loader)
     \-- MemoryProofs
Input  -- implements, twice --> LossyQueue
     \-- InputProofs
MC*    -- each instantiates one of the above for TLC
```

Names of variables and operators are the source's where there is one. Definitions
whose comment begins with "Mutant:" are deliberately wrong variants of the
definition that follows; no action uses them. They show that each property
notices the mistake the variant stands for.

### ProcessTable

State: `pstate`, `pid`, `next`, `stack` are the fields of `process_t` by slot;
`run_queue`, `current_process`, `next_pid` the globals of `process.c`;
`quantum_count` the static of `schedule`; `live` the stack blocks the heap has
handed out. Actions: `ShellCreate` (`process_create`, `process_create_user` from
`spawn`, `utest`, `run`), `Fork` (`process_fork_stub`), `Exit`, `Kill`, and `Tick`
in its three outcomes: `TickDead` (the current process is a zombie: reap it and
switch, or, with nobody ready, the fallback that revives it), `TickCount` (the
quantum is not over), `TickSwitch`. `NULL` results change nothing and are
stutters. `Reach(s)` is what a walk along `next` from `s` visits, defined as the
smallest closed set so that it needs no recursion and can be reasoned about.

### Turns

ProcessTable with a history variable: `served[s]` holds who was given the CPU since `s`
began to wait. It is emptied when `s` itself leaves the CPU, and a slot that is reset is taken out of it,
because what uses the slot next is another process. No step depends on it.

### ContextSwitch

Extends every action of ProcessTable by what the machine does: where the
interrupted context is saved (`frame`, at an address on the process's own stack or
on the TSS stack), what `schedule` keeps in `esp`, and through which frame, and
into which page directory, `irq_common_stub` returns. An interrupt in ring 3 can also come with
a system call's frame already on the stack (`IrqFrames`, `Pushed`). `ExecCreate` and
`ExecSetDir` are the two steps the loader takes under `cli`. `CTick` is disabled
between them. A frame is represented by the pid whose registers it holds, which
is all that "the right frame" needs. `ManyUsers` says whether more than one
process may be in ring 3.

### ProcessPreempt

`process_create` and `process_kill` one access at a time (`Find`, `Alloc`,
`LoadPid`, `Fill`, `LoadNext`, `Link`; `KillStart`, `Walk`, `Match`, `KillUnlink`,
`KillReset`), with the timer and the other processes between them: masked for
`run`, which executes `cli`, and free for `spawn`, `utest` and `kill`, which do not.
In `RunSpec` the shell executes `run` alone, in `SpawnSpec` `spawn` too, in `KillSpec`
`run` and `kill`: each of the two races has a specification without the other.
`CreateIsAtomic` is a refinement of ProcessTable: the half-made process is hidden
by the refinement mapping until `Link`.

### Heap and Allocator

`list` is the chain of headers, `owned` (a ghost) what callers hold. `Kmalloc` is
first fit with the split; `Kfree` merges with the next block only, as the code
does. Allocator is the promise: allocations are disjoint intervals inside the heap.

### TetFS and FileStore

`inode`, `bitmap`, `data`, `formatted` are the disk; `op` is the call under way and
its local variables; `todo` the bundled files still to install. Each step is one
sector write with what is computed from reads before it. Commands are `Make`
(touch, mkdir), `Write`, `Rm`, `Cd`, `CdUp`, `CdRoot`, `Format`, `Seed`; `Reboot` switches
off between commands, `Crash` anywhere, and `WriteError` is a failing `ata_write`. A call
is `Midway` from the first sector it writes to the last. There are two specifications:
`GentleSpec` with every fault that is not midway, on which Vfs builds, and `FaultSpec` with
all of them.
FileStore is a table of named byte sequences that a call changes at once. A name is
given once in a directory, but for the `Ambiguous` ones: in TetFS what names of more
than 50 characters are cut to (`CutNames`), because `create` cuts and `find` does not.

### Vfs

Adds to TetFS the programs in ring 3: `Open`, `Read` and `Close` are the system calls,
which run whole between any two steps of `Shell`, that is between any two sector
writes, with the faults of `GentleSpec` (`ShellStep`, `VfsReboot`); programs exist once the shell has executed `run`, and a reboot closes
everything. The table of open files is one for all programs and a program's end closes nothing,
so which program calls makes no difference. The ghost `seen` holds for each
descriptor the file as it was opened, what has been read of it, and whether a command
has changed that very entry since. Opening never creates and programs cannot write,
because `sys_open` passes `VFS_O_RDONLY`.

### Memory

Addresses are page numbers. `phys` is the frame bitmap, the count beside it and the
contents of frames: a page directory, a page table, a page of some program, or
garbage. `Walk` translates a page as the processor does. `VmmInit`, `NoGraphics` and
`MapFramebuffer` are the boot; then `OpenFile`, `CheckFile`, `CreateSpace`,
`LoadPage`, `LoadStack`, `Start` and `StartFails` are `exec_elf_from_disk`, with
each of its returns, one page at a time; between any two of these steps programs
store and end (`ProcessGone`). `vmm_init` marks the identity map user-writable and
every directory has a copy of it, so a program's stores can reach the pages of any other
as well as its own: `UserWrite` contains both. A store into the kernel's memory, its tables
or the pages it is loading, and a fault, which stops the machine in ring 3 too
(`isr.c:140`), end what this module follows (`UserStrays`). The kernel reaches a frame
through the identity map only (`Writable`); `pmm_alloc_frame` also hands out frames
beyond it, and clearing one of those is a page fault, so `Panic`. The refusals -8, -9
and -12 and the silent return of `vmm_map_page_in_dir` are in the operators, but no
step of this build takes them: the panic comes first. The ghost `view` is what
each program's pages should hold: what its file or the last store of any program put there.
`KeptByKernel` thus says what the kernel does, which is to give those pages to nobody
else and not to write to them, and not that programs cannot. `ImagesAssumption` says of programs what the
repository's linker script provides (sections from 32 MB on, page by page); the
loader checks none of it.

### Input and LossyQueue

Three groups of variables: the user with the keyboard, its decoder and its ring; the
user with the mouse, its decoder and its ring; the loop of `kernel_main`. A device puts
bytes on a wire, each byte is one interrupt (`KeyboardCallback`, `MouseIrq`), and
an interrupt can come between any two steps of the loop: between the test for an
empty ring and `hlt`, and between `LoadKey` and `TakeKey`, the load of an entry and
the advance past it, for which the compiled code was looked at. `Press`, `Repeat`
and `Release` send what a PC keyboard sends, prefixes and the pretended shift of the
print key included; `MoveMouse` sends packets with movements of nine bits and `LoseByte`
loses one. The two programs that read keys are the lengths of their texts
(`TermOnKey`, `EditorOnKey`). What a click does to windows is Desktop's.

A byte carries the key that was meant when it was sent, so that `KeysFaithful` compares a
decoded key with the legend under the modifiers held at that time.
LossyQueue is the promise of both rings: a queue that refuses what does not fit, whose
reader looks at its head and then takes exactly that.

### WindowManager and Desktop

`wm` is one record: the fields of `struct wm_window` by window and the globals of
`wm.c`. The list is kept as the code keeps it, `prev` and `next` both, so that a
link missed shows; `Walk` is what a walk along either visits. Each function of
`wm.c` is an operator from one `wm` to the next, because one mouse event goes
through several, a callback among them: `Focus`, `HideWindow`, `MaximizeToggle`,
`Bounded`. The seven actions of `Event` are the paths through the body of
`wm_update`'s loop, each ending in `Follow`, which moves a dragged window.

Desktop adds `desktop_update`. A frame first samples position and buttons (the
actions with a point `p`), then hands the queued events to the window manager
(`HandleEvent`). An event is any position with any state of the button: the ring
drops events when it is full and the interrupt moves the mouse between the two
readings, so neither bounds the other. This is what makes the hard cases: a press
whose release was dropped, a taskbar click that hides or raises the window being
dragged. `OpenApp` may fail for want of memory. `Power` (shutdown and reboot, from
the menu or typed) starts the machine again. The positions at which programs open,
the buttons and the menu are constants, as they are computed from the screen's size.

## 3. The runs

| run | configuration | shows |
|---|---|---|
| process_table | MCProcessTable.cfg | ring, running process, stacks, zombies; nobody starves, no one overtakes twice, exits are reaped |
| context_switch | MCContextSwitch.cfg | with at most one ring-3 process, every interrupt returns into the process chosen, in its address space |
| context_switch_two_users | MCContextSwitchTwoUsers.cfg | counterexample with two (finding 1) |
| process_preempt | MCProcessPreempt.cfg | the creation `run` brackets with `cli` is atomic |
| process_preempt_spawn | MCProcessPreemptSpawn.cfg | counterexample for `spawn` (finding 2) |
| process_preempt_kill | MCProcessPreemptKill.cfg | counterexample for `kill` (finding 3) |
| heap | MCHeap.cfg | tiling, ownership, Heap implements Allocator |
| file_system | MCVfs.cfg | blocks exact, TetFS implements FileStore, through power cuts and errors that are not midway in a call; a program that reads piece by piece meanwhile gets the file it opened |
| desktop | MCDesktop.cfg | list whole and in order, focus on top, dragged window held, windows in the work area |
| memory | MCMemory.cfg | the kernel mapped alike in every address space, the kernel keeps off the pages of started programs, the loader panics only when mapped memory is used up |
| input | MCInput.cfg | both rings implement LossyQueue; keys, modifiers, pointer and buttons arrive as meant; what arrives on one device is read unless the other never pauses |
| tetfs_faults | MCTetFSFaults.cfg | counterexample: power cut between bitmap and entry (finding 4) |

Bounds, and why they are enough to meet the interesting cases:

* `MaxProcs = 4`, `Stacks` of three blocks, `MaxPid = 5`: three processes beside the
  shell give every order of the ring around a removed slot (before, at and after
  `run_queue` and the current process), the full table, and slots used again after
  being reaped. `MaxPid` bounds the creations of a behaviour; the counter itself is
  never compared except in `kill`. The stack blocks are interchangeable but no symmetry is
  declared, because liveness is checked in the same run. `Quantum = 2` tells "one
  more tick" from "quantum over"; ContextSwitch and ProcessPreempt use 1, where
  every tick may switch, which is the worst case for interleavings. With
  three others two can pass each other while the third waits.
* `HeapSize = 11`, header 1, rest 1, requests 0, 1 and 3: up to nine blocks,
  a block that is just too small to split, the zero-byte request, a request that
  fails although enough is free in pieces, and free and used blocks on both sides
  of a freed one.
* Three inodes (the root and two entries, in two sectors, so that format can be cut
  in the middle of the table), three blocks of two bytes, files of up to two
  blocks, buffers of length zero, within a block and across two: a file that must
  move, one that is overwritten in place, a full bitmap, a full table. One bundled
  file, of the same name as a name the user may write, and a name that is cut, so that
  two entries bear it.
* Three of the four programs: a window between two others, at the head and at the
  tail, is all that the list's code tells apart. A screen of 4 x 4 cells whose bottom
  row is the taskbar, every cell a position of the mouse, titles and buttons of one
  cell: windows that can move in both directions, in one, or not at all, one asked
  for at a negative position and one larger than the screen, titles with a cell that
  is no button. The minimum sizes fit the screen (`ScreenAssumption`); the
  code's fallbacks for a screen smaller than the smallest window, or of size zero,
  are left out with the display modes.

* Vfs: that disk, and one open file, which is either entry, with the shell at work on this
  one or on the other (two descriptors do not touch each other, and the theorems are about any
  number of them); reads of one byte and of three, within a block, across two and
  beyond the end; contents that need one block or two, so that writing moves files over
  what others left.
* Memory: two page tables of eight pages as identity map, sixteen frames, two of
  them reserved, and eight frames beyond the map, which are reached by loading
  three programs. Images of one page; of two segments in two page tables, with a page that
  is not in the file, which shares its second table with the stack; and one cut off
  after its first segment. Two processes at a time; the framebuffer in an entry of its own.
* Input: a ring of two keys (one in use), which is full at once, and one of three events; a
  line of two characters, two lines, a text of two. In each of nine sessions the user
  touches a few keys that interfere with each other, at most two at a time, or the
  mouse. In the tenth both are used, at any pace: one key and one packet are enough, as the
  keyboard and the mouse share nothing but the loop. Up to `MaxWire` bytes and
  those of one more key may be on their way when the user acts.

Deadlock checking is on in every run.

Fairness. `TFairSpec` of Turns, under which ProcessTable's properties are checked too, assumes weak fairness of `Tick`: the
PIT interrupts periodically and `schedule` is called on every interrupt. Handlers
are short and `halt` leaves interrupts on, so the interrupt is always taken again.
Nothing is assumed of processes or of the shell: they may loop for ever.
`ISpec` of Input assumes weak fairness of the loop (slot 0 is always READY or running,
and ReadyGetsCpu gives it the CPU), of the two interrupts (the controller keeps
its line raised until the byte is read) and of the tick. Nothing is assumed of the
user, who may type for ever: the loop over one ring goes on for as long as that ring fills
(`desktop.c:891`, `wm.c:382`), and then the other is not read. `InputIsRead` therefore says of each ring
that what is in it is read if the other device falls silent or, again and again, lets the loop get out
of its ring (`KeysPause`, `MousePauses`); without these conditions the tenth session refutes it.
What it rests on is seen in the mutant: without the timer's tick an entry that
arrives between the test and `hlt` is never read.

## 4. What is proved

Every safety property and every refinement that a passing run checks is a theorem
(and so is `PTypeOK`, the type invariant of ProcessPreempt, which no run lists), for all
values of the constants that meet the named assumptions. TLC checked each inductive
invariant on the run of its module before it was proved.

| module | inductive invariant | properties proved |
|---|---|---|
| ProcessTableProofs | `IInv`, `TurnInv` | `TypeOK`, `RingIsInUse`, `OneRunning`, `StackOwned`, `ZombieStaysDead`, `NoOvertaking` |
| ContextSwitchProofs | `CInv` | `CTypeOK`, `OwnAddressSpace`; with `ManyUsers = FALSE` also `RunsCurrent` and `ReadyFrameIntact`; `CSpec => Spec` |
| ProcessPreemptProofs | `PInv` | of `RunSpec`: `PTypeOK`, `RingIsInUseWhenIdle`, `CreateIsAtomic` |
| HeapProofs | `HInv` | `HTypeOK`, `Tiling`, `UsedIsOwned`, `IsAllocator` |
| FileSystemProofs | `FInv`, `VInv`, `FaultyInv` | of `GentleSpec`: `FTypeOK`, `BlocksExact`, `IsFileStore`; of `VSpec`: `VTypeOK`, `ReadsSnapshot`, `VSpec => GentleSpec`; of `FaultSpec`: a complete format restores `FInv` and `BlocksExact` |
| MemoryProofs | `MInv` | `MTypeOK`, `KernelSeenByAll`, `KeptByKernel`, `PanicOnlyPastMap` |
| DesktopProofs | `DInv` | `DTypeOK`, `ListIsWhole`, `FocusOnTop`, `InWorkArea`, `DragHeld`, `MaximizedFills`, `OrderKept` |
| InputProofs | `IInv` | `ITypeOK`, `NoStuckModifier`, `KeysFaithful`, `MouseAgrees`, `IsLossyQueue` |

### The assumptions

Each is an ASSUME that TLC evaluates in the runs of its module.

* `ConstantsAssumption`, `MachineAssumption`: at least two slots, a quantum of at
  least one tick, and a NULL that is no slot, no stack and no address (`MAX_PROCS` is
  16, `SCHED_QUANTUM` 5).
* `HeapAssumption`: a header of at least one byte, and a heap that has room for one.
* `FSAssumption`, `VfsAssumption`: sizes are positive, and what is written consists of
  bytes. The bound on a file is `MaxFileBlocks`; a buffer may be longer and is refused.
* `SizesAssumption`: the identity map ends before the physical memory does, the
  framebuffer lies above it, and the boot's own tables fit into the identity map
  (`vmm.c`, `pmm.c` and `kernel.c` fix all of these at compile time, but for the
  framebuffer's address, which the display adapter places above the RAM).
* `ImagesAssumption`: what `src/user/linker.ld` provides. The loader checks none of
  it, so `KeptByKernel` is a theorem about programs built with that script.
* `ScreenAssumption`, `LayoutAssumption`: the smallest window fits the screen above
  the taskbar, positions are integers, and no two buttons of the menu overlap.
* `InputAssumption`: rings and lines of two or more places, a screen of at least one
  pixel, and users who press keys of the keyboard and move the mouse by at most nine bits.

Two theorems, `RunsCurrentSafety` and `FrameSafety`, have a hypothesis beyond these,
`ManyUsers = FALSE`, because their conclusions are false without it: with two processes
in ring 3, finding 1 is a counterexample. The run context_switch meets it.

### The process table

`RingIsInUse` speaks of reachability, which a step does not preserve
by itself, and removing a slot keeps the ring together only when the ring is one
cycle that is not about to become empty. The inductive invariant

    IInv == TypeOK /\ RingInv /\ OneRunning /\ StackOwned

adds `RingInv`: `run_queue` stays at the shell's slot (process 0 is inserted first
and can be neither killed nor reaped), the shell is READY or RUNNING, so that a dead
process always finds somebody to hand the CPU to and the fallback of `schedule` is
never taken, `next` is NULL exactly outside the ring, and the slots in use are a
*ring*: closed under `next`, which is injective on them, with no non-empty proper
part closed under it. "One cycle" is said without counting or recursion. Lemma
`InsertRing` says that a new slot spliced in after any slot of a ring gives a ring,
`RemoveRing` that a slot bypassed by its predecessor leaves one, `ReachRing` that
what a walk visits on a ring is all of it (so IInv implies RingIsInUse). Each action
is one lemma: it inserts, removes, or leaves the links alone. `ZombieSafety` is an
action property proved from IInv: the only assignment that could revive a zombie is
the fallback, and it needs a ring without a READY slot.

`NoOvertaking` is what remains provable of "nobody starves": liveness is out of the
prover's reach, that nobody is passed twice is not. The argument is a distance: each slot `s` of a
ring has a function that counts the links from any slot to it (`Rank`), and everyone served since
`s` began to wait is at least as far from `s` as the current process (`TurnInv`). The next READY slot
on the ring is nearer (`FirstReadyIsBefore`), so it was not served. A function
that counts links cannot be defined without recursion, so the invariant says that one exists, and
`InsertRank`, `NewRank` and `RemoveRank` make the new one from the old when a slot enters
or leaves, without changing who is nearer than whom. A process that enters right after
the current one pushes that one and all that is behind it one step back.

### The machine

`MachineImplementsTable` comes first: each action of ContextSwitch is an action of
ProcessTable with more conjuncts, or leaves the table alone, so IInv holds there
too. `CInv` adds what each slot's process executes (`KindInv`), where its frame can lie
(`EspInv`: on its own stack, or, only if it is in ring 3, at one of the two places of
the TSS stack), and its page directory (`DirInv`, with the exception of the slot the
loader is filling in). What fork makes has no frame to run from; it is a zombie and
`KindInv` says that it stays one. The last conjunct, `RunsCurrent` and
`ReadyFrameIntact`, is claimed only with one ring-3 process: then the
owner of a frame on the TSS stack is the only one that can overwrite it, and it does
so only when it is interrupted itself.

### The creation in pieces

`PInv` says between which two accesses of `run` what is true of the table: it is
`IInv` of the slots *linked* and the blocks *owned*, which are those in use but for the
slot and the block of the creation under way. With interrupts off nobody else has
a turn, so the loads of `next_pid` and of `next` are still valid when they are
stored. `RunStutters` says that all accesses but the last leave the table as it was
behind the mapping that undoes them, `LinkCreates` that the last one is
`ShellCreate`. A free slot has pid 0 (`Blank`): without that, undoing would not be the
inverse of doing.

### The heap

    HInv == HTypeOK /\ Tiling /\ Ordered /\ UsedIsOwned

`Tiling` says where each block ends: where its successor begins. That two blocks
that are not neighbours do not overlap follows only by induction along the list,
which the prover does not do; `Ordered` (of any two blocks the earlier one ends
before the later one begins) carries the result of that induction as an invariant
of its own. The two ways in which a list changes are one lemma each, on
sequences: `SplitList`, a block replaced by two that fill its place, and `MergeList`,
two neighbours replaced by one; `MarkList` changes no block's place. The refinement
of Allocator then needs only that the block taken was free, so that it overlaps no
block in anybody's hands.

### The file system

`BlocksExact` holds between calls only. `FInv` says what holds between any two sectors: each
entry is sound and no two entries share a block (`TableInv`, at all times); the bitmap
is exact but for the entry of the call under way, in one of three ways by how far the
call is (`Marked`); the run a write has taken meets no other file's blocks and its first
`op.i` blocks hold the new bytes (`Taking`); format has cleared what lies behind it
(`Clearing`). The search for a run of free blocks needs no induction: what is used of it is that
its result is a free run or none. The refinement maps the file under a write to its
old contents until the entry is written. That step is then one of FileStore: the bytes
in the blocks are those of the buffer (`Taking`), and those of every other file are
unchanged, as its blocks were not written to. A creation is a step of FileStore
whatever the length of the name: what is stored is what was searched for, and nothing
was found, or it is one of `CutNames`.

Faults. A power cut or a failing write that is not midway finds the disk as a call
leaves it: the bundled files half installed, a file created and not yet written. `FInv`
survives it (`GentleCall`), so everything above holds under `GentleSpec`, and finding 4 is
confined to the window from a call's first sector to its last. Inside it `BlocksExact` is
lost. What remains is `FaultyInv`: the types, entries whose blocks lie on
the disk though two files may share one, a write under way that stays on the disk, and `Clearing`.
That is enough for `FormatRepairs`: whatever faults have done, those in an earlier
format included, `FInv` holds when format returns, and so does all that follows from it
until the next fault midway.

`VfsKeepsFileSystem` is the reason the proof about open files is short: system calls do not
write to the disk, so `FInv` holds with programs running. `VInv` adds `Snapshot`: unless a
command has changed that entry, the file is as it was opened and what was handed
out is exactly its first `offset` bytes. Another file's write cannot disturb it, because it
writes into its own run only.

### Memory

`MInv` has the shape of the memory (`MemInv`: the count is right, each address space
has the kernel's entries of the kernel's directory, tables and pages of different
address spaces are different frames, the identity map is complete), what the loader
has placed so far (`Loaded`, `ContentsInv`), who has which directory
(`SpacesApart`), and `UsedInv`: no frame beyond the identity map is in use while the
machine is up, which is why `PanicOnlyPastMap` holds and why a store through the
identity map reaches what it should. Each of `vmm_map_page_in_dir`'s outcomes is a
lemma on `phys`: a new table, a page into a table that is there, none. The rest of the
proof is that a frame just taken from the bitmap was in nobody's table.

### Windows

`DInv` is about the record `wm` and each function of `wm.c` has a lemma that says
what it keeps (`WmInv`) and which fields it changes, so that a path of `wm_update` is proved by
citing the lemmas of the functions it calls. The list is a *list* in both
directions (`IsList`): closed under `next` to NULL, no proper part with the head is
closed, and `prev` is its inverse; `ListIsWhole` follows as for the ring of
processes. `DragHeld` needs to be strengthened by where a window was taken: by the same point of its
title bar, and it is not maximized. `OrderKept` is an action property: lemmas say of each
function that the others keep their successors, or that one window went to the end.

### Keys and the mouse

Three arguments in one invariant. *Keyboard*: `RunsTo(wire, kbd, d, faithful)` says that the decoder, fed
with the bytes under way, ends in the state `d`, and that each key it decodes
is the one meant by the byte. It is a statement about all the bytes at once (there is
a sequence of decoder states, one per byte), not a recursive function, so lemmas on
appending a key's bytes (`KeyRun`) and on taking one (`RunTail`) suffice.
`KeyboardInv`: the bytes under way run to a state that follows the keys held
(`Follows`). So `KeysFaithful` holds however late a byte is handled, and
`NoStuckModifier` is the case of no bytes. *Mouse*: `OnTrack` says that the pointer is
at its aim, or a packet of which zero, one or two bytes have been handled takes it there.
*Rings*: the entries from `read` to `write` are in the buffer (`IsRing`), and
the copy the loop has in hand is the oldest of them (`LoopInv`), whatever was pushed
since it was made; `LastLeft` is the button the window manager will know once it
has read what waits. `PushAppends` and `AdvanceTakes` say of `Contents`, a window into
the buffer that wraps, that a push appends or loses, and that an advance takes the
head; `RingsAreLossyQueues` follows step by step.

## 5. What is only model-checked

* Liveness: `ReadyGetsCpu`, `ExitedIsReaped`, `InputIsRead`. The prover reaches
  neither ENABLED nor liveness under fairness. `NoOvertaking`, which is proved, is
  the part of `ReadyGetsCpu` that does not depend on the timer.
* That the code goes wrong where the findings say so: the four counterexamples.
* What a session of `Input`, a disk or a screen of the run's size adds beyond the
  theorems: that the interesting states are reached at all. A theorem
  says nothing about a state that never occurs; the runs reach every action.

`ProcessPreempt`'s theorems are about `RunSpec`, in which `run` is the shell's only
command; with the other commands the same property is findings 2 and 3.

## 6. Findings

1. **One kernel stack for all ring-3 processes.** `tss_init` sets `esp0` once and
   nothing calls `tss_set_kernel_stack`, so two programs interrupted in ring 3 put
   their frames in the same place, and the first resumes with the second's
   registers (`gdt.c:34`, `isr_stub.asm:133`; run context_switch_two_users).
2. **Creation with interrupts on.** `spawn` and `utest` insert into the ring
   unmasked. In ticks between reading `current_process->next` and storing it that
   neighbour can run, exit and be reaped; the new process then points to an empty slot and the
   ring ends there (`process.c:129`; run process_preempt_spawn). `run` masks.
3. **Kill with interrupts on.** Between the checks of `process_kill` and its unlinking the
   victim can exit and be reaped; the NULL link of its empty slot is then copied
   into the ring (`process.c:213`; run process_preempt_kill).
4. **A power cut or write error inside delete or overwrite** leaves a file whose
   blocks are marked free, and a later write hands them out again (`tetfs.c:178`;
   run tetfs_faults). Proved: no fault outside that window does harm, and a complete format
   repairs what one inside it did.

Seen while modelling, without a promise of the repository that a run could refute:

* A name longer than 50 characters is stored cut and searched for whole (`tetfs.c:159`),
  so the same `touch` succeeds twice. TetFS contains it (`LongNames`), and `IsFileStore`
  says what remains true: both files keep what was written to them.
* Frames are never given back. After the 20 MB between 12 and 32 MB are
  used up, the next `run` stops the machine in `panic` although the frame
  allocator has 96 MB left (`exec.c:72`). The boot message says 120 MB are free
  (`kernel.c:85`), and 116 MB are.
* One flag stands for both shift keys, and caps lock turns around at every repeat
  (`keyboard.c:106`, `keyboard.c:117`); movements of more than 127 change their
  direction (`mouse.c:63`); after a lost byte the mouse may stay out of step
  (`mouse.c:102`). Input contains all of these; its properties say
  what holds up to that point (`odd`, `rough`).
* Every program can store into every other, and into the kernel: the identity map is
  user-writable (`vmm.c:17`) and copied into every address space. A fault in ring 3 stops the
  machine (`isr.c:140`).
* Keys that never cease keep the mouse's events unread, and the other way round
  (`desktop.c:891`, `wm.c:382`).
* The command `sleep` is to wait for the keyboard or the mouse (`desktop.c:115`), but the
  next tick of the timer ends it as well.
* A descriptor whose file is removed reads the file that takes the entry next
  (`vfs.c:53`), and descriptors of a program that ends stay open (`vfs.c:15`).

## 7. What is not modelled

* `process_list`, `heap_used_bytes` and the other commands that only print.
* The descriptors of `fs_open` .. `fs_close` in `tetfs.c`: nothing calls them.
* Read errors of the disk, and the second bitmap sector, which stays zero.
* A free of a pointer that nobody holds: Heap's callers free each pointer once.
* Two users of the ATA controller at a time: the shell can be preempted between two
  port writes and a system call then address the controller itself (`ata.c:107`).
  Sectors are atomic in TetFS and Vfs; what these show holds once the driver is
  protected.
* Functions without a caller: `pmm_free_frame`, `unmap_page`, `vfs_write`, opening with
  `VFS_O_CREAT`, and all of `ipc.c` (locks, pipes, signals). A model of them would be a model
  of callers made up.
* The shell's line editor and its history, and the console it writes to: nothing starts the shell.
* What happens after a program has stored into the kernel's memory or its page tables.
* `mouse_init`'s conversation with the controller, which may take a key's byte for an
  answer (`mouse.c:119`), before interrupts are enabled.
* In which order keys and clicks of one frame take effect (the keys first,
  `desktop.c:891`): Input keeps them apart.
* Pixels, fonts, BMP decoding, boot stages, port protocols: sequential code
  without state that outlives a call.

## 8. Plan

Every safety property of a passing run has its theorem. In order of what could hurt most:

1. *HeapPreempt*: `kmalloc` of the shell with `kfree` from `schedule` between its accesses.
2. *Ata*: the registers of the controller with two users.
3. *Ipc*, when something uses it: mutex with guard and waiters, pipe ring; abstract: a
   lock and a FIFO.

The modules are written for proof: parameters as CONSTANTS with named assumptions,
one action per operation, invariants as conjunctions of parts, no recursive
operator in a module to be proved about.
