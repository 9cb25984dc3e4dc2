------------------------------- MODULE Memory -------------------------------
(***************************************************************************)
(* Physical frames (kernel/pmm/pmm.c), page tables (kernel/vmm/vmm.c) and  *)
(* the ELF loader behind the shell command run (kernel/exec/exec.c), with  *)
(* the part of the boot that builds the kernel's own page directory.       *)
(*                                                                         *)
(* Addresses are page numbers.  The kernel reaches a frame by using its    *)
(* address as a pointer, so only through the identity map that vmm_init    *)
(* builds; pmm_alloc_frame knows nothing of the map and also hands out     *)
(* frames beyond it.  Nothing calls pmm_free_frame or unmap_page: a frame  *)
(* once taken stays taken.                                                 *)
(***************************************************************************)
EXTENDS Integers, FiniteSets, Sequences

CONSTANTS
    TotalFrames,    \* PMM_TOTAL_FRAMES
    ReservedEnd,    \* PMM_RESERVED_END: the first frame that is handed out
    TableSize,      \* entries of a page table (1024)
    Dirs,           \* entries of a page directory (1024)
    IdentityDirs,   \* directory entries that vmm_init fills (8: 32 MB)
    Framebuffer,    \* the pages of the framebuffer, first and last
    Stack,          \* the pages of a user stack, first and last
    Images,         \* the loadable segments of the programs on the disk
    Slots           \* the process slots run can use

Frames == 0 .. TotalFrames - 1
Pages == 0 .. Dirs * TableSize - 1
IdentityEnd == IdentityDirs * TableSize
DirOf(v) == v \div TableSize
IndexOf(v) == v % TableSize

\* A segment: its first page, its pages in the file and in memory (the linker
\* makes no empty one), and whether the file is long enough for it.
Segment == [virt : Pages, filesz : Nat, memsz : Nat \ {0}, inFile : BOOLEAN]
SegmentPages(seg) == seg.virt .. seg.virt + seg.memsz - 1
ImagePages(img) == UNION {SegmentPages(img[i]) : i \in DOMAIN img}
StackPages == Stack[1] .. Stack[2]

\* Video memory lies above all that pmm_init counts as memory, and the boot's
\* tables fit in the identity map: with 8192 frames of it the first one free is
\* 3072, and a framebuffer of a few megabytes takes two or three tables.
ASSUME SizesAssumption ==
    /\ {TotalFrames, ReservedEnd, TableSize, Dirs, IdentityDirs} \subseteq Nat \ {0}
    /\ IdentityEnd < TotalFrames
    /\ IdentityDirs < Dirs
    /\ Framebuffer \in Pages \X Pages
    /\ TotalFrames <= Framebuffer[1] /\ Framebuffer[1] <= Framebuffer[2]
    /\ ReservedEnd + IdentityDirs + 2 + DirOf(Framebuffer[2]) - DirOf(Framebuffer[1])
          < IdentityEnd
    /\ Stack \in Pages \X Pages /\ Stack[1] <= Stack[2]

\* What src/user/linker.ld, the linker and USER_STACK_BASE provide: whole pages
\* above the identity map, in directory entries the kernel leaves free, no
\* page twice, and no more of a segment in the file than in memory.
ASSUME ImagesAssumption ==
    /\ Images \subseteq Seq(Segment)
    /\ \A img \in Images, v \in Pages :
          v \in ImagePages(img) \cup StackPages =>
             /\ v >= IdentityEnd
             /\ DirOf(v) \notin DirOf(Framebuffer[1]) .. DirOf(Framebuffer[2])
    /\ \A img \in Images :
          /\ ImagePages(img) \subseteq Pages
          /\ \A i \in DOMAIN img : img[i].filesz <= img[i].memsz
          /\ ImagePages(img) \cap StackPages = {}
          /\ \A i, j \in DOMAIN img :
                i # j => SegmentPages(img[i]) \cap SegmentPages(img[j]) = {}

Absent == -1        \* an entry without PAGE_PRESENT
NoFrame == 0        \* pmm_alloc_frame when nothing is free

VARIABLES
    phys,           \* pmm_bitmap as a set, pmm_used, and what frames contain
    page_directory, \* the frame of the kernel's page directory
    loader,         \* where boot or exec_elf_from_disk stands, its locals
    header,         \* is the loader's copy of the file allocated?
    procs,          \* user_page_dir of the slots' processes
    view,           \* ghost: what each process's own pages should hold
    result,         \* what exec_elf_from_disk returned
    stopped         \* "loader": the loader's memset has faulted and panic()
                    \* spins; "program": a program has gone where this module
                    \* does not follow

mvars == <<phys, page_directory, loader, header, procs, view, result, stopped>>

Garbage == [page |-> <<"garbage">>]
Zero == [page |-> <<"zero">>]
FromFile(img, v) == [page |-> <<"file", img, v>>]
Written(s) == [page |-> <<"stored", s>>]
EmptyTable == [table |-> [i \in 0 .. TableSize - 1 |-> Absent]]

\* exec_elf_from_disk's locals; boot uses page as its loop counter.
At(pc, img, dir, seg, page) ==
    [pc |-> pc, img |-> img, dir |-> dir, seg |-> seg, page |-> page]
Idle == At("idle", <<>>, NoFrame, 1, 0)

-----------------------------------------------------------------------------
(* pmm.c and vmm.c: functions of the physical memory m.                    *)

FreeFrames(m) == Frames \ m.used

\* The frame pmm_alloc_frame returns ...
NextFrame(m) ==
    IF FreeFrames(m) = {} THEN NoFrame
    ELSE CHOOSE f \in FreeFrames(m) : \A g \in FreeFrames(m) : f <= g

\* Mutant: pmm_used is not counted up.
AllocatedUncounted(m) == [m EXCEPT !.used = @ \cup {NextFrame(m)}]

\* ... and the bitmap and the count it leaves.
Allocated(m) == [m EXCEPT !.used = @ \cup {NextFrame(m)}, !.count = @ + 1]

Entry(m, dir, v) == m.mem[dir].dir[DirOf(v)]

\* Translation of page v under a page directory.
Walk(m, dir, v) ==
    IF Entry(m, dir, v) = Absent THEN Absent
    ELSE m.mem[Entry(m, dir, v)].table[IndexOf(v)]

\* The kernel writes a frame by its address, in its own address space.
Writable(m, f) == Walk(m, page_directory, f) = f

SetEntry(m, dir, v, f) == [m EXCEPT !.mem[Entry(m, dir, v)].table[IndexOf(v)] = f]

NewTable(m, dir, v) ==
    LET t == NextFrame(m)
    IN  [Allocated(m) EXCEPT !.mem[t] = EmptyTable, !.mem[dir].dir[DirOf(v)] = t]

\* Mutant: the page goes into the kernel's directory, whichever was asked for.
MapPageInKernel(m, dir, v, f) ==
    IF Entry(m, page_directory, v) # Absent THEN SetEntry(m, page_directory, v, f)
    ELSE IF NextFrame(m) = NoFrame THEN m
    ELSE SetEntry(NewTable(m, page_directory, v), page_directory, v, f)

\* vmm_map_page, and vmm_map_page_in_dir: without a frame for a new table they
\* return and nothing is mapped.
MapPage(m, dir, v, f) ==
    IF Entry(m, dir, v) # Absent THEN SetEntry(m, dir, v, f)
    ELSE IF NextFrame(m) = NoFrame THEN m
    ELSE SetEntry(NewTable(m, dir, v), dir, v, f)

\* The new table's frame lies beyond the map: memset faults.
MapFaults(m, dir, v) ==
    /\ Entry(m, dir, v) = Absent
    /\ NextFrame(m) # NoFrame
    /\ ~Writable(m, NextFrame(m))

\* Mutant: vmm_copy_kernel_space copies the identity map alone.
CopyIdentityOnly(m, dir) ==
    [m EXCEPT !.mem[dir] = [dir |-> [d \in 0 .. Dirs - 1 |->
        IF d < IdentityDirs THEN m.mem[page_directory].dir[d] ELSE Absent]]]

\* vmm_copy_kernel_space: the entries, so the tables behind them are shared.
CopyKernelSpace(m, dir) == [m EXCEPT !.mem[dir] = m.mem[page_directory]]

-----------------------------------------------------------------------------
(* Boot.  Memory is far from exhausted here (ASSUME SizesAssumption), so   *)
(* the early returns of vmm_init are never taken.                          *)

MInit ==
    /\ phys = [used |-> 0 .. ReservedEnd - 1, count |-> ReservedEnd,
               mem |-> [f \in Frames |-> Garbage]]
    /\ page_directory = NoFrame
    /\ loader = At("vmm_init", <<>>, NoFrame, 1, 0)
    /\ header = FALSE
    /\ procs = [s \in Slots |-> NoFrame]
    /\ view = [s \in Slots |-> <<>>]
    /\ result = 0
    /\ stopped = "no"

\* Mutant: one table fewer than the memory to map.
IdentityMapShort(d) == [f \in Frames |->
    IF f = d
    THEN [dir |-> [i \in 0 .. Dirs - 1 |->
                     IF i < IdentityDirs - 1 THEN d + 1 + i ELSE Absent]]
    ELSE IF f \in d + 1 .. d + IdentityDirs
    THEN [table |-> [i \in 0 .. TableSize - 1 |-> (f - d - 1) * TableSize + i]]
    ELSE Garbage]

\* Memory with the directory in frame d and its tables in those after it.
IdentityMap(d) == [f \in Frames |->
    IF f = d
    THEN [dir |-> [i \in 0 .. Dirs - 1 |->
                     IF i < IdentityDirs THEN d + 1 + i ELSE Absent]]
    ELSE IF f \in d + 1 .. d + IdentityDirs
    THEN [table |-> [i \in 0 .. TableSize - 1 |-> (f - d - 1) * TableSize + i]]
    ELSE Garbage]

\* One frame for the directory and one for each identity table, in a row from
\* the first free one; paging is off until the end.
VmmInit ==
    LET d == NextFrame(phys) IN
    /\ loader.pc = "vmm_init"
    /\ page_directory' = d
    /\ phys' = [used |-> phys.used \cup (d .. d + IdentityDirs),
                count |-> phys.count + 1 + IdentityDirs,
                mem |-> IdentityMap(d)]
    /\ loader' = [loader EXCEPT !.pc = "graphics", !.page = Framebuffer[1]]
    /\ UNCHANGED <<header, procs, view, result, stopped>>

\* graphics_init without a usable video mode maps nothing.
NoGraphics ==
    /\ loader.pc = "graphics"
    /\ loader.page = Framebuffer[1]
    /\ loader' = Idle
    /\ UNCHANGED <<phys, page_directory, header, procs, view, result, stopped>>

MapFramebuffer ==
    LET v == loader.page IN
    /\ loader.pc = "graphics"
    /\ phys' = MapPage(phys, page_directory, v, v)
    /\ loader' = IF v = Framebuffer[2] THEN Idle ELSE [loader EXCEPT !.page = v + 1]
    /\ UNCHANGED <<page_directory, header, procs, view, result, stopped>>

-----------------------------------------------------------------------------
(* exec_elf_from_disk                                                      *)

\* Every return after the kmalloc frees the copy of the file; the frames taken
\* so far stay taken.
Return(code) ==
    /\ loader' = Idle
    /\ header' = FALSE
    /\ result' = code
    /\ UNCHANGED <<page_directory, stopped>>

\* fatal_exception, from the page fault of a memset.
Panic(m) ==
    /\ phys' = m
    /\ stopped' = "loader"
    /\ UNCHANGED <<page_directory, loader, header, procs, view, result>>

\* No such file, too short for a header, no memory for the copy; or a copy.
OpenFile(img) ==
    /\ loader.pc = "idle"
    /\ \/ /\ Return(-2) \/ Return(-3) \/ Return(-4)
       \/ /\ loader' = At("check", img, NoFrame, 1, 0)
          /\ header' = TRUE
          /\ UNCHANGED <<page_directory, result, stopped>>
    /\ UNCHANGED <<phys, procs, view>>

\* A short read, no magic number, headers beyond the end; or all is well.
CheckFile ==
    /\ loader.pc = "check"
    /\ \/ Return(-5) \/ Return(-6) \/ Return(-7)
       \/ /\ loader' = [loader EXCEPT !.pc = "space"]
          /\ UNCHANGED <<page_directory, header, result, stopped>>
    /\ UNCHANGED <<phys, procs, view>>

\* Where the loader goes on once the segments before seg are loaded.
FromSegment(ld, seg) ==
    IF seg <= Len(ld.img) THEN [ld EXCEPT !.pc = "segment", !.seg = seg, !.page = 0]
    ELSE [ld EXCEPT !.pc = "stack", !.page = Stack[1]]

CreateSpace ==
    LET f == NextFrame(phys)
        m == Allocated(phys)
    IN  /\ loader.pc = "space"
        /\ IF f = NoFrame THEN Return(-8) /\ UNCHANGED <<phys, procs, view>>
           ELSE IF ~Writable(m, f) THEN Panic(m)
           ELSE /\ phys' = CopyKernelSpace(m, f)
                /\ loader' = FromSegment([loader EXCEPT !.dir = f], 1)
                /\ UNCHANGED <<page_directory, header, procs, view, result, stopped>>

\* pmm_alloc_frame, memset (and memcpy), vmm_map_page_in_dir, for one page.
PlacePage(v, content, code, next) ==
    LET f == NextFrame(phys)
        m == [Allocated(phys) EXCEPT !.mem[f] = content]
    IN  IF f = NoFrame THEN Return(code) /\ UNCHANGED <<phys, procs, view>>
        ELSE IF ~Writable(phys, f) THEN Panic(Allocated(phys))
        ELSE IF MapFaults(m, loader.dir, v) THEN Panic(Allocated(m))
        ELSE /\ phys' = MapPage(m, loader.dir, v, f)
             /\ loader' = next
             /\ UNCHANGED <<page_directory, header, procs, view, result, stopped>>

ImageContent(img, v) ==
    IF \E i \in DOMAIN img : v \in img[i].virt .. img[i].virt + img[i].filesz - 1
    THEN FromFile(img, v)
    ELSE Zero

LoadPage ==
    LET seg == loader.img[loader.seg]
        v == seg.virt + loader.page
    IN  /\ loader.pc = "segment"
        /\ IF ~seg.inFile THEN Return(-11) /\ UNCHANGED <<phys, procs, view>>
           ELSE PlacePage(v, ImageContent(loader.img, v), -9,
                          IF loader.page + 1 < seg.memsz
                          THEN [loader EXCEPT !.page = @ + 1]
                          ELSE FromSegment(loader, loader.seg + 1))

LoadStack ==
    LET v == loader.page IN
    /\ loader.pc = "stack"
    /\ PlacePage(v, Zero, -12,
                 IF v < Stack[2] THEN [loader EXCEPT !.page = v + 1]
                 ELSE [loader EXCEPT !.pc = "create"])

\* cli, process_create_user, p->user_page_dir, sti.
Start(s) ==
    /\ loader.pc = "create"
    /\ procs[s] = NoFrame
    /\ procs' = [procs EXCEPT ![s] = loader.dir]
    /\ view' = [view EXCEPT ![s] =
                 [v \in ImagePages(loader.img) \cup StackPages |->
                    ImageContent(loader.img, v)]]
    /\ Return(0)
    /\ UNCHANGED phys

\* No slot, or no memory for the kernel stack.
StartFails ==
    /\ loader.pc = "create"
    /\ Return(-10)
    /\ UNCHANGED <<phys, procs, view>>

-----------------------------------------------------------------------------
(* The programs, between any two steps of the loader.                      *)

\* A program stores to page v.  vmm_init marks the identity map PAGE_USER and
\* PAGE_WRITE and every directory has it (vmm.c:17), so the page is one of the
\* program's own or the very frame in which another program has one.
UserWrite(s, v) ==
    LET f == Walk(phys, procs[s], v) IN
    /\ procs[s] # NoFrame
    /\ f # Absent
    /\ \E t \in Slots : \E u \in DOMAIN view[t] : Walk(phys, procs[t], u) = f
    /\ phys' = [phys EXCEPT !.mem[f] = Written(s)]
    /\ view' = [t \in Slots |-> [u \in DOMAIN view[t] |->
                  IF Walk(phys, procs[t], u) = f THEN Written(s) ELSE view[t][u]]]
    /\ UNCHANGED <<page_directory, loader, header, procs, result, stopped>>

\* Any other store.  Where nothing is mapped it is a page fault, which stops
\* the machine whoever takes it (isr.c:140).  The kernel's own memory, its
\* tables and the pages it is loading are mapped like everything else, and
\* nothing can be said of a machine that goes on after such a store.
UserStrays(s) ==
    /\ procs[s] # NoFrame
    /\ stopped' = "program"
    /\ UNCHANGED <<phys, page_directory, loader, header, procs, view, result>>

\* reset_process_slot: the directory and its frames are dropped.
ProcessGone(s) ==
    /\ procs[s] # NoFrame
    /\ procs' = [procs EXCEPT ![s] = NoFrame]
    /\ view' = [view EXCEPT ![s] = <<>>]
    /\ UNCHANGED <<phys, page_directory, loader, header, result, stopped>>

Running ==
    \/ VmmInit \/ NoGraphics \/ MapFramebuffer
    \/ \E img \in Images : OpenFile(img)
    \/ CheckFile \/ CreateSpace \/ LoadPage \/ LoadStack
    \/ \E s \in Slots : Start(s) \/ UserStrays(s) \/ ProcessGone(s)
    \/ StartFails
    \/ \E s \in Slots, v \in Pages : UserWrite(s, v)

\* panic() spins with interrupts off.
Halted == stopped # "no" /\ UNCHANGED mvars

MNext == (stopped = "no" /\ Running) \/ Halted

MSpec == MInit /\ [][MNext]_mvars

-----------------------------------------------------------------------------
(* Properties                                                              *)

\* The loader at rest holds no copy of a file, and pmm_used counts the bitmap.
MTypeOK ==
    /\ phys.used \subseteq Frames
    /\ phys.count = Cardinality(phys.used)
    /\ page_directory \in Frames
    /\ loader.pc \in {"vmm_init", "graphics", "idle", "check", "space",
                      "segment", "stack", "create"}
    /\ loader.img \in Images \cup {<<>>}
    /\ loader.dir \in Frames
    /\ header \in BOOLEAN
    /\ loader.pc = "idle" => ~header
    /\ procs \in [Slots -> Frames]
    /\ result \in -12 .. 0
    /\ stopped \in {"no", "loader", "program"}

Booted == loader.pc \notin {"vmm_init", "graphics"}
Directories == ({page_directory} \cup {procs[s] : s \in Slots}) \ {NoFrame}

\* Interrupts and system calls run the kernel in the address space of whatever
\* program they interrupt: every page the kernel has mapped, its memory and the
\* framebuffer, is mapped alike in every process, and memory is where its
\* address says whatever was loaded since.
KernelSeenByAll ==
    Booted =>
        \A d \in Directories :
            /\ \A f \in 0 .. IdentityEnd - 1 : Walk(phys, d, f) = f
            /\ \A v \in Framebuffer[1] .. Framebuffer[2] :
                  Walk(phys, d, v) = Walk(phys, page_directory, v)

\* The kernel keeps off the pages of a program that was started: its whole
\* image and its stack are mapped on frames that are taken, no two of them the
\* same, and hold what its file or a program's store last put there, whatever
\* is loaded, fails to load or dies meanwhile.  (What the kernel does not do is
\* keep the programs off each other: UserWrite.)
KeptByKernel ==
    \A s \in Slots, v \in Pages :
        v \in DOMAIN view[s] =>
            /\ Walk(phys, procs[s], v) \in phys.used
            /\ phys.mem[Walk(phys, procs[s], v)] = view[s][v]
            /\ \A t \in Slots : \A u \in DOMAIN view[t] :
                  Walk(phys, procs[t], u) = Walk(phys, procs[s], v) => t = s /\ u = v

\* The loader stops the machine only when it has used up all that is mapped.
PanicOnlyPastMap == stopped = "loader" => 0 .. IdentityEnd - 1 \subseteq phys.used
=============================================================================
