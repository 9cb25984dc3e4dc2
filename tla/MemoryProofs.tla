----------------------------- MODULE MemoryProofs -----------------------------
(***************************************************************************)
(* Address spaces stay apart and the kernel's part of them stays the same, *)
(* for memory, tables and programs of any size, however many programs are  *)
(* loaded, fail to load, run and die: proofs about Memory.                 *)
(***************************************************************************)
EXTENDS Memory, FiniteSetTheorems, WellFoundedInduction, TLAPS

-----------------------------------------------------------------------------
(* What a frame contains tells a directory from a table from a page.       *)

DirEntries == 0 .. Dirs - 1
TableEntries == 0 .. TableSize - 1

DirContents == [dir : [DirEntries -> Int]]
TableContents == [table : [TableEntries -> Int]]
PageContents ==
    [page : {<<"garbage">>, <<"zero">>} \cup ({"file"} \X Images \X Pages)
            \cup ({"stored"} \X Slots)]

Mem == [Frames -> DirContents \cup TableContents \cup PageContents]
Memories == [used : SUBSET Frames, count : Nat, mem : Mem]

IsDir(m, f) == f \in Frames /\ m.mem[f] \in DirContents
IsTable(m, f) == f \in Frames /\ m.mem[f] \in TableContents
IsPage(m, f) == f \in Frames /\ m.mem[f] \in PageContents

-----------------------------------------------------------------------------
(* The invariant of the memory m with the kernel's directory k and those   *)
(* of the live address spaces A.                                           *)

FramebufferPages == Framebuffer[1] .. Framebuffer[2]
KernelDirs == 0 .. IdentityDirs - 1 \cup DirOf(Framebuffer[1]) .. DirOf(Framebuffer[2])
UserPages == {v \in Pages : DirOf(v) \notin KernelDirs}

\* A frame not handed out yet holds nothing of interest.
Counted(m) ==
    /\ m \in Memories
    /\ NoFrame \in m.used
    /\ m.count = Cardinality(m.used)
    /\ \A f \in Frames \ m.used : IsPage(m, f)

\* Every directory has the kernel's entries, and the others are its own.
KernelShared(m, k, A) ==
    /\ k \in m.used /\ IsDir(m, k)
    /\ \A a \in A : a \in m.used /\ a # k /\ IsDir(m, a)
    /\ \A d \in DirEntries \ KernelDirs : m.mem[k].dir[d] = Absent
    /\ \A a \in A, d \in KernelDirs : m.mem[a].dir[d] = m.mem[k].dir[d]

\* x made the entry d itself, it did not copy it.
Owns(k, x, d) == x = k <=> d \in KernelDirs

\* No page table is in two places.
TablesApart(m, k, A) ==
    /\ \A x \in A \cup {k}, d \in DirEntries :
        m.mem[x].dir[d] # Absent =>
            m.mem[x].dir[d] \in m.used /\ IsTable(m, m.mem[x].dir[d])
    /\ \A x, y \in A \cup {k}, d, e \in DirEntries :
        /\ Owns(k, x, d) /\ Owns(k, y, e)
        /\ m.mem[x].dir[d] = m.mem[y].dir[e] /\ m.mem[x].dir[d] # Absent
        => x = y /\ d = e

\* Nor is a page of a program.
PagesApart(m, A) ==
    /\ \A a \in A, v \in UserPages :
        Walk(m, a, v) # Absent => Walk(m, a, v) \in m.used /\ IsPage(m, Walk(m, a, v))
    /\ \A a, b \in A, u, v \in UserPages :
        Walk(m, a, u) = Walk(m, b, v) /\ Walk(m, a, u) # Absent => a = b /\ u = v

\* The kernel reaches exactly the memory below IdentityEnd by its address.
IdentityMapped(m, k) ==
    /\ \A v \in 0 .. IdentityEnd - 1 : Walk(m, k, v) = v
    /\ \A v \in Pages : Walk(m, k, v) # Absent => v < IdentityEnd \/ v \in FramebufferPages

MemInv(m, k, A) ==
    /\ Counted(m) /\ KernelShared(m, k, A)
    /\ TablesApart(m, k, A) /\ PagesApart(m, A)
    /\ IdentityMapped(m, k)

-----------------------------------------------------------------------------
(* The inductive invariant.                                                *)

BootPcs == {"vmm_init", "graphics"}
LoadPcs == {"check", "space", "segment", "stack", "create"}

Spaces == ({procs[s] : s \in Slots} \cup {loader.dir}) \ {NoFrame}

\* The pages of the first n segments.
FirstSegments(img, n) == UNION {SegmentPages(img[i]) : i \in 1 .. n}

\* The pages exec_elf_from_disk has placed so far.
Loaded(ld) ==
    CASE ld.pc = "segment" ->
            FirstSegments(ld.img, ld.seg - 1)
            \cup (ld.img[ld.seg].virt .. ld.img[ld.seg].virt + ld.page - 1)
      [] ld.pc = "stack" -> ImagePages(ld.img) \cup (Stack[1] .. ld.page - 1)
      [] ld.pc = "create" -> ImagePages(ld.img) \cup StackPages
      [] OTHER -> {}

LoaderType == [pc : BootPcs \cup LoadPcs \cup {"idle"}, img : Images \cup {<<>>},
               dir : Frames, seg : Nat, page : Nat]

LoaderInv ==
    /\ loader \in LoaderType
    /\ loader.pc \in LoadPcs => loader.img \in Images
    /\ loader.pc \in {"segment", "stack", "create"} <=> loader.dir # NoFrame
    /\ loader.pc = "graphics" => loader.page \in FramebufferPages
    /\ loader.pc = "segment" =>
        /\ loader.seg \in 1 .. Len(loader.img)
        /\ loader.page \in 0 .. loader.img[loader.seg].memsz - 1
    /\ loader.pc = "stack" => loader.page \in StackPages
    /\ header \in BOOLEAN /\ (header <=> loader.pc \in LoadPcs)
    /\ result \in -12 .. 0 /\ stopped \in {"no", "loader", "program"}

\* Nobody has the directory of somebody else.
SpacesApart ==
    /\ procs \in [Slots -> Frames]
    /\ loader.pc \in BootPcs => \A s \in Slots : procs[s] = NoFrame
    /\ \A s \in Slots : procs[s] # NoFrame => procs[s] # loader.dir
    /\ \A s, t \in Slots : procs[s] = procs[t] /\ procs[s] # NoFrame => s = t

\* A program finds what it should, the loader what it has placed.
ContentsInv ==
    /\ view = [s \in Slots |-> view[s]]
    /\ \A s \in Slots :
        /\ DOMAIN view[s] \subseteq UserPages
        /\ procs[s] = NoFrame => DOMAIN view[s] = {}
        /\ \A v \in DOMAIN view[s] :
            /\ Walk(phys, procs[s], v) # Absent
            /\ phys.mem[Walk(phys, procs[s], v)] = view[s][v]
    /\ \A v \in Loaded(loader) :
        /\ Walk(phys, loader.dir, v) # Absent
        /\ phys.mem[Walk(phys, loader.dir, v)] = ImageContent(loader.img, v)

\* All of the memory used is mapped, as long as the machine is up; the boot
\* takes a frame for each table of the framebuffer.
BootEnd(v) == ReservedEnd + IdentityDirs + DirOf(v) - DirOf(Framebuffer[1])

UsedInv ==
    IF stopped = "loader" THEN 0 .. IdentityEnd - 1 \subseteq phys.used
    ELSE IF loader.pc = "graphics"
    THEN phys.used \subseteq 0 .. BootEnd(loader.page)
            + (IF Entry(phys, page_directory, loader.page) = Absent THEN 0 ELSE 1)
    ELSE phys.used \subseteq 0 .. IdentityEnd - 1

AtStart ==
    /\ loader.pc = "vmm_init"
    /\ phys.used = 0 .. ReservedEnd - 1 /\ phys.count = ReservedEnd
    /\ page_directory = NoFrame

MInv ==
    /\ LoaderInv /\ SpacesApart /\ ContentsInv /\ UsedInv
    /\ page_directory \in Frames
    /\ Counted(phys)
    /\ AtStart \/ (loader.pc # "vmm_init" /\ MemInv(phys, page_directory, Spaces))

-----------------------------------------------------------------------------
(* Pages and the entries that translate them.                              *)

\* The sizes and bounds of the memory map are natural numbers.
LEMMA SizesAreNat ==
    /\ TotalFrames \in Nat \ {0} /\ ReservedEnd \in Nat \ {0} /\ TableSize \in Nat \ {0}
    /\ Dirs \in Nat \ {0} /\ IdentityDirs \in Nat \ {0} /\ IdentityEnd \in Nat
    /\ Dirs * TableSize \in Nat
BY SizesAssumption DEF IdentityEnd

\* A page is found again from its two indices.
LEMMA PageFromIndices ==
    ASSUME NEW v \in Nat
    PROVE  /\ DirOf(v) \in Nat /\ IndexOf(v) \in TableEntries
           /\ DirOf(v) * TableSize + IndexOf(v) = v
<1> DEFINE q == DirOf(v)
           r == IndexOf(v)
<1>1. q \in Nat
  BY SizesAreNat DEF DirOf
<1>2. r \in TableEntries
  BY SizesAreNat DEF IndexOf, TableEntries
<1>3. DirOf(q * TableSize + r) = q /\ IndexOf(q * TableSize + r) = r
  <2> HIDE DEF q, r
  <2> QED BY <1>1, <1>2, SizesAreNat DEF DirOf, IndexOf, TableEntries
<1>4. q * TableSize + r \in Nat
  <2> HIDE DEF q, r
  <2> QED BY <1>1, <1>2, SizesAreNat DEF TableEntries
<1>5. q * TableSize + r = v
  BY <1>3, <1>4, SizesAreNat DEF DirOf, IndexOf
<1> QED BY <1>1, <1>2, <1>5

\* Two pages with the same entries are one.
LEMMA SamePage ==
    ASSUME NEW u \in Nat, NEW v \in Nat, DirOf(u) = DirOf(v), IndexOf(u) = IndexOf(v)
    PROVE  u = v
BY SizesAreNat DEF DirOf, IndexOf

\* The directory's entries are in the order of the pages.
LEMMA DirOrder ==
    ASSUME NEW u \in Nat, NEW v \in Nat
    PROVE  /\ u <= v => DirOf(u) <= DirOf(v)
           /\ DirOf(v + 1) \in {DirOf(v), DirOf(v) + 1}
<1>1. u <= v => DirOf(u) <= DirOf(v)
  BY SizesAreNat DEF DirOf
<1>2. DirOf(v + 1) \in {DirOf(v), DirOf(v) + 1}
  BY SizesAreNat DEF DirOf
<1> QED BY <1>1, <1>2

\* Every page lies under one entry of a directory.
LEMMA PageDirs ==
    ASSUME NEW v \in Nat
    PROVE  /\ v < Dirs * TableSize => DirOf(v) \in DirEntries
           /\ v < IdentityEnd <=> DirOf(v) < IdentityDirs
<1>1. v < Dirs * TableSize => DirOf(v) < Dirs
  BY SizesAreNat DEF DirOf
<1>2. v < IdentityEnd => DirOf(v) < IdentityDirs
  BY SizesAreNat DEF DirOf, IdentityEnd
<1>3. v >= IdentityEnd => DirOf(v) >= IdentityDirs
  BY SizesAreNat DEF DirOf, IdentityEnd
<1> QED BY <1>1, <1>2, <1>3, SizesAreNat, PageFromIndices DEF DirEntries

\* The kernel's and the users' parts of an address space.
LEMMA Layout ==
    /\ Frames \subseteq Pages /\ Pages \subseteq Nat
    /\ FramebufferPages \subseteq Pages
    /\ KernelDirs \subseteq DirEntries
    /\ \A v \in Pages : DirOf(v) \in DirEntries /\ IndexOf(v) \in TableEntries
    /\ \A v \in Pages : v < IdentityEnd => DirOf(v) \in 0 .. IdentityDirs - 1
    /\ \A v \in FramebufferPages : /\ v >= TotalFrames
                                   /\ DirOf(v) \in KernelDirs
                                   /\ DirOf(v) \notin 0 .. IdentityDirs - 1
    /\ 0 .. IdentityEnd - 1 \subseteq Frames
    /\ \A d \in KernelDirs : d \in 0 .. IdentityDirs - 1 \/ d >= IdentityDirs
    /\ UserPages \subseteq Pages
<1> USE SizesAreNat
<1>1. /\ Framebuffer[1] \in Pages /\ Framebuffer[2] \in Pages
      /\ TotalFrames <= Framebuffer[1] /\ Framebuffer[1] <= Framebuffer[2]
      /\ IdentityEnd < TotalFrames /\ IdentityDirs < Dirs
  BY SizesAssumption
<1>2. Pages \subseteq Nat /\ Frames \subseteq Pages
  BY <1>1 DEF Pages, Frames
<1>3. FramebufferPages \subseteq Pages
  BY <1>1 DEF Pages, FramebufferPages
<1>4. \A v \in Pages : DirOf(v) \in DirEntries /\ IndexOf(v) \in TableEntries
  BY PageDirs, PageFromIndices DEF Pages
<1>5. \A v \in Pages : v < IdentityEnd => DirOf(v) \in 0 .. IdentityDirs - 1
  BY <1>4, <1>2, PageDirs DEF DirEntries
<1>6. \A v \in Pages : v >= IdentityEnd => DirOf(v) >= IdentityDirs
  BY <1>2, <1>4, PageDirs DEF DirEntries
<1>7. \A v \in FramebufferPages : v >= TotalFrames /\ v >= IdentityEnd
                                  /\ v >= Framebuffer[1] /\ v <= Framebuffer[2]
  BY <1>1, <1>2, <1>3 DEF FramebufferPages, Pages
<1>8. \A v \in FramebufferPages : DirOf(v) \in KernelDirs
  <2> SUFFICES ASSUME NEW v \in FramebufferPages PROVE DirOf(v) \in KernelDirs
    OBVIOUS
  <2>1. v \in Nat /\ Framebuffer[1] \in Nat /\ Framebuffer[2] \in Nat
    BY <1>1, <1>2, <1>3
  <2>2. DirOf(Framebuffer[1]) <= DirOf(v) /\ DirOf(v) <= DirOf(Framebuffer[2])
    BY <1>7, <2>1, DirOrder
  <2>3. DirOf(v) \in Int /\ DirOf(Framebuffer[1]) \in Int /\ DirOf(Framebuffer[2]) \in Int
    BY <2>1, PageFromIndices
  <2> QED BY <2>2, <2>3 DEF KernelDirs
<1>9. \A d \in KernelDirs : d \in DirEntries /\ (d \in 0 .. IdentityDirs - 1 \/ d >= IdentityDirs)
  <2>1. /\ DirOf(Framebuffer[1]) \in DirEntries /\ DirOf(Framebuffer[2]) \in DirEntries
        /\ DirOf(Framebuffer[1]) >= IdentityDirs
    <3>1. Framebuffer[1] \in Pages /\ Framebuffer[1] >= IdentityEnd
      <4>1. Framebuffer[1] \in Nat
        BY <1>1, <1>2
      <4> QED BY <1>1, <4>1
    <3> QED BY <1>1, <1>4, <1>6, <3>1
  <2> QED BY <1>1, <2>1 DEF KernelDirs, DirEntries
<1>10. \A v \in FramebufferPages : DirOf(v) \notin 0 .. IdentityDirs - 1
  BY <1>3, <1>4, <1>6, <1>7 DEF DirEntries
<1>11. 0 .. IdentityEnd - 1 \subseteq Frames
  BY <1>1 DEF Frames
<1> QED BY <1>2, <1>3, <1>4, <1>5, <1>7, <1>8, <1>9, <1>10, <1>11 DEF UserPages

\* A program's page is not the kernel's.
LEMMA UserPage ==
    ASSUME NEW img \in Images, NEW v \in ImagePages(img) \cup StackPages
    PROVE  v \in UserPages
<1>1. v \in Pages
  <2>1. StackPages \subseteq Pages
    BY SizesAssumption, SizesAreNat DEF StackPages, Pages
  <2> QED BY <2>1, ImagesAssumption
<1>2. v >= IdentityEnd /\ DirOf(v) \notin DirOf(Framebuffer[1]) .. DirOf(Framebuffer[2])
  BY <1>1, ImagesAssumption
<1>3. v \in Nat /\ DirOf(v) \in Nat /\ DirOf(v) >= IdentityDirs
  BY <1>1, <1>2, Layout, PageDirs, PageFromIndices, SizesAreNat
<1> QED BY <1>1, <1>2, <1>3, SizesAreNat DEF UserPages, KernelDirs

\* A frame is a directory, a table or a page.
LEMMA KindsApart ==
    ASSUME NEW m, NEW f
    PROVE  /\ ~(IsDir(m, f) /\ IsTable(m, f))
           /\ ~(IsDir(m, f) /\ IsPage(m, f))
           /\ ~(IsTable(m, f) /\ IsPage(m, f))
<1>1. IsDir(m, f) => DOMAIN m.mem[f] = {"dir"}
  BY DEF IsDir, DirContents
<1>2. IsTable(m, f) => DOMAIN m.mem[f] = {"table"}
  BY DEF IsTable, TableContents
<1>3. IsPage(m, f) => DOMAIN m.mem[f] = {"page"}
  BY DEF IsPage, PageContents
<1> QED BY <1>1, <1>2, <1>3

-----------------------------------------------------------------------------
(* pmm_alloc_frame.                                                        *)

\* The least element that CHOOSE names is in the set and below the others.
LEMMA LeastOf ==
    ASSUME NEW S \in SUBSET Nat, S # {}
    PROVE  \E x \in S : \A y \in S : x <= y
<1>1. \E x \in S : \A y \in S : ~ (<<y, x>> \in OpToRel(<, Nat))
  BY WFMin, NatLessThanWellFounded
<1>2. PICK x \in S : \A y \in S : ~ (<<y, x>> \in OpToRel(<, Nat))
  BY <1>1
<1>3. \A y \in S : ~(y < x)
  BY <1>2 DEF OpToRel
<1> QED BY <1>3

\* f is the first free frame of m, and n is m without it.
Takes(m, n, f) ==
    /\ f \in Frames \ m.used /\ f # NoFrame
    /\ \A g \in Frames : g < f => g \in m.used
    /\ n.used = m.used \cup {f} /\ n.mem = m.mem
    /\ Counted(n) /\ IsPage(m, f)

\* pmm_alloc_frame takes the lowest free frame, which nothing else uses.
LEMMA AllocatedTakes ==
    ASSUME NEW m, Counted(m), NextFrame(m) # NoFrame
    PROVE  Takes(m, Allocated(m), NextFrame(m))
<1> DEFINE f == NextFrame(m)
           n == Allocated(m)
<1>1. m \in Memories /\ NoFrame \in m.used /\ m.count = Cardinality(m.used)
  BY DEF Counted
<1>2. FreeFrames(m) # {} /\ f = CHOOSE x \in FreeFrames(m) : \A g \in FreeFrames(m) : x <= g
  BY DEF NextFrame
<1>3. FreeFrames(m) \in SUBSET Nat
  BY SizesAreNat DEF FreeFrames, Frames
<1>4. f \in FreeFrames(m) /\ \A g \in FreeFrames(m) : f <= g
  <2> HIDE DEF f
  <2> QED BY <1>2, <1>3, LeastOf
<1>5. n = [m EXCEPT !.used = m.used \cup {f}, !.count = m.count + 1]
  BY <1>1 DEF Allocated, Memories
<1> HIDE DEF f, n
<1>6. f \in Frames \ m.used /\ f # NoFrame
  BY <1>1, <1>4 DEF FreeFrames
<1>7. \A g \in Frames : g < f => g \in m.used
  BY <1>4, SizesAreNat DEF FreeFrames, Frames
<1>8. /\ n.used = m.used \cup {f} /\ n.mem = m.mem /\ n.count = m.count + 1
      /\ n \in Memories
  <2>1. m.used \cup {f} \in SUBSET Frames /\ m.count + 1 \in Nat
    BY <1>1, <1>6 DEF Memories
  <2> QED BY <1>1, <1>5, <2>1 DEF Memories
<1>9. IsFiniteSet(m.used)
  <2>1. IsFiniteSet(Frames)
    BY SizesAreNat, FS_Interval DEF Frames
  <2>2. m.used \in SUBSET Frames
    BY <1>1 DEF Memories
  <2> QED BY <2>1, <2>2, FS_Subset
<1>10. Cardinality(n.used) = Cardinality(m.used) + 1
  BY <1>6, <1>8, <1>9, FS_AddElement
<1>11. \A g \in Frames \ m.used : IsPage(m, g)
  BY DEF Counted
<1>12. Counted(n)
  BY <1>1, <1>8, <1>10, <1>11 DEF Counted, IsPage
<1> QED BY <1>6, <1>7, <1>8, <1>11, <1>12 DEF Takes, f, n

-----------------------------------------------------------------------------
(* The steps that write to memory.                                         *)

\* What the invariant says of single directories and pages.
LEMMA SpaceFacts ==
    ASSUME NEW m, NEW k, NEW A, MemInv(m, k, A)
    PROVE  /\ m \in Memories
           /\ \A x \in A \cup {k} : x \in m.used /\ IsDir(m, x)
           /\ k \notin A
           /\ \A x \in A \cup {k}, d \in DirEntries :
                /\ m.mem[x].dir[d] \in Int
                /\ m.mem[x].dir[d] # Absent =>
                    m.mem[x].dir[d] \in m.used /\ IsTable(m, m.mem[x].dir[d])
           /\ \A d \in DirEntries \ KernelDirs : m.mem[k].dir[d] = Absent
           /\ \A a \in A, d \in KernelDirs : m.mem[a].dir[d] = m.mem[k].dir[d]
<1>1. /\ m \in Memories
      /\ \A x \in A \cup {k} : x \in m.used /\ IsDir(m, x)
      /\ k \notin A
      /\ \A d \in DirEntries \ KernelDirs : m.mem[k].dir[d] = Absent
      /\ \A a \in A, d \in KernelDirs : m.mem[a].dir[d] = m.mem[k].dir[d]
  BY DEF MemInv, Counted, KernelShared
<1>2. \A x \in A \cup {k}, d \in DirEntries :
        m.mem[x].dir[d] # Absent =>
            m.mem[x].dir[d] \in m.used /\ IsTable(m, m.mem[x].dir[d])
  BY DEF MemInv, TablesApart
<1>3. \A x \in A \cup {k}, d \in DirEntries : m.mem[x].dir[d] \in Int
  BY <1>1 DEF IsDir, DirContents
<1> QED BY <1>1, <1>2, <1>3

\* Handing out a frame changes no address space.
LEMMA TakesInv ==
    ASSUME NEW m, NEW k, NEW A, MemInv(m, k, A), NEW n, NEW f, Takes(m, n, f)
    PROVE  MemInv(n, k, A)
<1>1. Counted(n) /\ n.mem = m.mem /\ m.used \subseteq n.used
  BY DEF Takes
<1>2. \A g : /\ IsDir(m, g) <=> IsDir(n, g)
             /\ IsTable(m, g) <=> IsTable(n, g)
             /\ IsPage(m, g) <=> IsPage(n, g)
  BY <1>1 DEF IsDir, IsTable, IsPage
<1>3. \A x, v : Walk(n, x, v) = Walk(m, x, v)
  BY <1>1 DEF Walk, Entry
<1>4. KernelShared(n, k, A)
  BY <1>1, <1>2 DEF MemInv, KernelShared
<1>5. TablesApart(n, k, A)
  BY <1>1, <1>2 DEF MemInv, TablesApart
<1>6. PagesApart(n, A)
  BY <1>1, <1>2, <1>3 DEF MemInv, PagesApart
<1>7. IdentityMapped(n, k)
  BY <1>1, <1>3 DEF MemInv, IdentityMapped
<1> QED BY <1>1, <1>4, <1>5, <1>6, <1>7 DEF MemInv

\* n is m with c in frame f.
Writes(m, n, f, c) == n = [m EXCEPT !.mem = [m.mem EXCEPT ![f] = c]]

\* Every page is found as before.
SameWalks(m, n, B) == \A x \in B, v \in Pages : Walk(n, x, v) = Walk(m, x, v)

\* What a write through a mapping changes of the machine's fields.
LEMMA WritesFields ==
    ASSUME NEW m \in Memories, NEW n, NEW f \in Frames,
           NEW c \in DirContents \cup TableContents \cup PageContents, Writes(m, n, f, c)
    PROVE  /\ n \in Memories /\ n.used = m.used /\ n.count = m.count
           /\ n.mem[f] = c
           /\ \A g \in Frames : g # f => n.mem[g] = m.mem[g]
<1>1. [m.mem EXCEPT ![f] = c] \in Mem
  BY DEF Memories, Mem
<1>2. n.used = m.used /\ n.count = m.count /\ n.mem = [m.mem EXCEPT ![f] = c]
      /\ n \in Memories
  BY <1>1 DEF Memories, Writes
<1>3. /\ n.mem[f] = c
      /\ \A g \in Frames : g # f => n.mem[g] = m.mem[g]
  BY <1>2 DEF Memories, Mem
<1> QED BY <1>2, <1>3

\* A store to a page: no directory and no table is there.
LEMMA WritePageInv ==
    ASSUME NEW m, NEW k, NEW A, MemInv(m, k, A), NEW f, IsPage(m, f),
           NEW c \in PageContents, NEW n, Writes(m, n, f, c)
    PROVE  MemInv(n, k, A) /\ SameWalks(m, n, A \cup {k})
<1> DEFINE B == A \cup {k}
<1>1. /\ n \in Memories /\ n.used = m.used /\ n.count = m.count
      /\ n.mem[f] = c /\ f \in Frames
      /\ \A g \in Frames : g # f => n.mem[g] = m.mem[g]
  BY SpaceFacts, WritesFields DEF IsPage
<1>2. /\ \A g : IsDir(m, g) => n.mem[g] = m.mem[g] /\ IsDir(n, g)
      /\ \A g : IsTable(m, g) => n.mem[g] = m.mem[g] /\ IsTable(n, g)
      /\ \A g : IsPage(m, g) => IsPage(n, g)
  <2>1. \A g : IsDir(m, g) \/ IsTable(m, g) => g # f
    BY KindsApart
  <2> QED BY <1>1, <2>1 DEF IsDir, IsTable, IsPage
<1>3. /\ \A x \in B : n.mem[x] = m.mem[x] /\ IsDir(n, x)
      /\ \A x \in B, d \in DirEntries : m.mem[x].dir[d] # Absent =>
            /\ n.mem[m.mem[x].dir[d]] = m.mem[m.mem[x].dir[d]]
            /\ IsTable(n, m.mem[x].dir[d])
  BY <1>2, SpaceFacts
<1>4. SameWalks(m, n, B)
  <2>1. \A v \in Pages : DirOf(v) \in DirEntries
    BY Layout
  <2> QED BY <1>3, <2>1 DEF SameWalks, Walk, Entry
<1>5. Counted(n)
  BY <1>1, <1>2 DEF MemInv, Counted
<1>6. KernelShared(n, k, A)
  BY <1>1, <1>3 DEF MemInv, KernelShared
<1>7. TablesApart(n, k, A)
  BY <1>1, <1>3 DEF MemInv, TablesApart
<1>8. PagesApart(n, A)
  <2>1. \A a \in A, v \in UserPages : Walk(n, a, v) = Walk(m, a, v)
    BY <1>4, Layout DEF SameWalks
  <2> QED BY <1>1, <1>2, <2>1 DEF MemInv, PagesApart
<1>9. IdentityMapped(n, k)
  <2>1. \A v \in Pages : Walk(n, k, v) = Walk(m, k, v)
    BY <1>4 DEF SameWalks
  <2>2. 0 .. IdentityEnd - 1 \subseteq Pages
    BY Layout
  <2> QED BY <2>1, <2>2 DEF MemInv, IdentityMapped
<1> QED BY <1>4, <1>5, <1>6, <1>7, <1>8, <1>9 DEF MemInv

\* Every frame in use holds what it held.
Keeps(m, o) == \A g \in m.used : o.mem[g] = m.mem[g]

\* vmm_copy_kernel_space: a new directory has the kernel's entries and no other.
LEMMA NewSpaceInv ==
    ASSUME NEW m, NEW k, NEW A, MemInv(m, k, A), NEW f, NEW n, Takes(m, n, f),
           NEW o, Writes(n, o, f, n.mem[k])
    PROVE  /\ MemInv(o, k, A \cup {f}) /\ SameWalks(m, o, A \cup {k})
           /\ f \notin A \cup {k} /\ Keeps(m, o)
<1> DEFINE B == A \cup {k}
           C == A \cup {f}
<1>1. /\ MemInv(n, k, A) /\ n.used = m.used \cup {f} /\ n.mem = m.mem
      /\ f \in Frames \ m.used /\ IsPage(n, f)
  BY TakesInv DEF Takes, IsPage
<1>2. /\ \A x \in B : x \in m.used /\ x # f /\ IsDir(m, x)
      /\ \A x \in B, d \in DirEntries : m.mem[x].dir[d] # Absent =>
            /\ m.mem[x].dir[d] \in m.used /\ m.mem[x].dir[d] # f
            /\ IsTable(m, m.mem[x].dir[d])
      /\ \A d \in DirEntries \ KernelDirs : m.mem[k].dir[d] = Absent
      /\ m.mem[k] \in DirContents /\ k \notin A
  BY <1>1, SpaceFacts DEF IsDir
<1>3. /\ o \in Memories /\ o.used = n.used /\ o.count = n.count
      /\ o.mem[f] = m.mem[k]
      /\ \A g \in Frames : g # f => o.mem[g] = m.mem[g]
  BY <1>1, <1>2, SpaceFacts, WritesFields
<1>4. /\ \A g : IsTable(m, g) => o.mem[g] = m.mem[g] /\ IsTable(o, g)
      /\ \A g : g # f /\ IsDir(m, g) => o.mem[g] = m.mem[g] /\ IsDir(o, g)
      /\ \A g : g # f /\ IsPage(m, g) => IsPage(o, g)
      /\ IsDir(o, f)
  <2>1. \A g : IsTable(m, g) => g # f
    BY <1>1, KindsApart DEF IsPage, IsTable
  <2> QED BY <1>1, <1>2, <1>3, <2>1 DEF IsDir, IsTable, IsPage
<1>5. /\ \A x \in B : o.mem[x] = m.mem[x] /\ IsDir(o, x)
      /\ \A x \in B, d \in DirEntries : m.mem[x].dir[d] # Absent =>
            /\ o.mem[m.mem[x].dir[d]] = m.mem[m.mem[x].dir[d]]
            /\ IsTable(o, m.mem[x].dir[d])
  BY <1>2, <1>4
<1>6. SameWalks(m, o, B)
  <2>1. \A v \in Pages : DirOf(v) \in DirEntries
    BY Layout
  <2> QED BY <1>5, <2>1 DEF SameWalks, Walk, Entry
<1>7. Counted(o)
  BY <1>1, <1>3, <1>4 DEF MemInv, Counted, IsPage
<1>8. KernelShared(o, k, C)
  <2>1. \A d \in KernelDirs : o.mem[f].dir[d] = o.mem[k].dir[d]
    BY <1>3, <1>5
  <2>2. \A a \in A, d \in KernelDirs : o.mem[a].dir[d] = o.mem[k].dir[d]
    BY <1>5, SpaceFacts
  <2> QED BY <1>1, <1>2, <1>3, <1>4, <1>5, <2>1, <2>2 DEF KernelShared
<1>9. TablesApart(o, k, C)
  <2>1. \A x \in C \cup {k}, d \in DirEntries :
            o.mem[x].dir[d] # Absent =>
                o.mem[x].dir[d] \in o.used /\ IsTable(o, o.mem[x].dir[d])
    BY <1>1, <1>2, <1>3, <1>5
  <2>2. \A d \in DirEntries : Owns(k, f, d) => o.mem[f].dir[d] = Absent
    BY <1>2, <1>3 DEF Owns
  <2>3. \A x, y \in B, d, e \in DirEntries :
            /\ Owns(k, x, d) /\ Owns(k, y, e)
            /\ o.mem[x].dir[d] = o.mem[y].dir[e] /\ o.mem[x].dir[d] # Absent
            => x = y /\ d = e
    BY <1>5 DEF MemInv, TablesApart
  <2> QED BY <2>1, <2>2, <2>3 DEF TablesApart
<1>10. PagesApart(o, C)
  <2>1. \A a \in A, v \in UserPages : Walk(o, a, v) = Walk(m, a, v)
    BY <1>6, Layout DEF SameWalks
  <2>2. \A v \in UserPages : Walk(o, f, v) = Absent
    <3>1. \A v \in UserPages : DirOf(v) \in DirEntries \ KernelDirs
      BY Layout DEF UserPages
    <3> QED BY <1>2, <1>3, <3>1 DEF Walk, Entry
  <2>3. \A a \in A, v \in UserPages : Walk(m, a, v) # Absent =>
            Walk(m, a, v) \in m.used /\ IsPage(m, Walk(m, a, v))
    BY DEF MemInv, PagesApart
  <2>4. \A a, b \in A, u, v \in UserPages :
            Walk(m, a, u) = Walk(m, b, v) /\ Walk(m, a, u) # Absent => a = b /\ u = v
    BY DEF MemInv, PagesApart
  <2>5. \A a \in C, v \in UserPages : Walk(o, a, v) # Absent =>
            Walk(o, a, v) \in o.used /\ IsPage(o, Walk(o, a, v))
    BY <1>1, <1>3, <1>4, <2>1, <2>2, <2>3
  <2>6. \A a, b \in C, u, v \in UserPages :
            Walk(o, a, u) = Walk(o, b, v) /\ Walk(o, a, u) # Absent => a = b /\ u = v
    BY <2>1, <2>2, <2>4
  <2> QED BY <2>5, <2>6 DEF PagesApart
<1>11. IdentityMapped(o, k)
  <2>1. \A v \in Pages : Walk(o, k, v) = Walk(m, k, v)
    BY <1>6 DEF SameWalks
  <2>2. 0 .. IdentityEnd - 1 \subseteq Pages
    BY Layout
  <2> QED BY <2>1, <2>2 DEF MemInv, IdentityMapped
<1>12. Keeps(m, o)
  <2>1. m.used \subseteq Frames
    BY SpaceFacts DEF Memories
  <2> QED BY <1>1, <1>3, <2>1 DEF Keeps
<1> QED BY <1>2, <1>6, <1>7, <1>8, <1>9, <1>10, <1>11, <1>12 DEF MemInv

\* n is m with an empty table t for the entry d of x.
Tables(m, n, x, d, t) ==
    n = [m EXCEPT !.mem = [[m.mem EXCEPT ![t] = EmptyTable] EXCEPT ![x].dir[d] = t]]

\* The new entry is t, and all pages but t are as they were.
Tabled(m, o, x, d, t) ==
    /\ o.mem[x].dir[d] = t /\ o.used = m.used \cup {t}
    /\ \A g \in Frames : IsPage(m, g) /\ g # t => IsPage(o, g) /\ o.mem[g] = m.mem[g]

\* Whose entry it may be: a program's own, or one of the kernel's at boot.
MayMap(k, A, x, d) ==
    /\ d \in DirEntries
    /\ \/ x \in A /\ d \notin KernelDirs
       \/ x = k /\ A = {} /\ d \in KernelDirs

\* A cleared table is a table.
LEMMA EmptyTableIsTable == EmptyTable \in TableContents
<1>1. Absent \in Int
  BY DEF Absent
<1> HIDE DEF Absent
<1> QED BY <1>1 DEF EmptyTable, TableContents, TableEntries

\* The first half of vmm_map_page: pages without a table are absent as before.
LEMMA NewTableInv ==
    ASSUME NEW m, NEW k, NEW A, MemInv(m, k, A), NEW t, NEW n, Takes(m, n, t),
           NEW x, NEW d, MayMap(k, A, x, d), m.mem[x].dir[d] = Absent,
           NEW o, Tables(n, o, x, d, t)
    PROVE  /\ MemInv(o, k, A) /\ SameWalks(m, o, A \cup {k})
           /\ Tabled(m, o, x, d, t)
<1> DEFINE B == A \cup {k}
<1>1. /\ MemInv(n, k, A) /\ n.used = m.used \cup {t} /\ n.mem = m.mem
      /\ t \in Frames \ m.used /\ IsPage(m, t) /\ n \in Memories
  BY TakesInv DEF Takes, Counted
<1>2. /\ x \in B /\ x # t /\ d \in DirEntries /\ Owns(k, x, d)
      /\ \A y \in B : y \in m.used /\ y # t /\ IsDir(m, y)
      /\ \A y \in B, e \in DirEntries : m.mem[y].dir[e] # Absent =>
            /\ m.mem[y].dir[e] \in m.used /\ m.mem[y].dir[e] # t
            /\ IsTable(m, m.mem[y].dir[e])
      /\ \A e \in DirEntries \ KernelDirs : m.mem[k].dir[e] = Absent
      /\ k \notin A
  BY <1>1, SpaceFacts DEF MayMap, Owns
<1>3. /\ o \in Memories /\ o.used = n.used /\ o.count = n.count
      /\ o.mem[t] = EmptyTable
      /\ o.mem[x] \in DirContents
      /\ o.mem[x].dir = [m.mem[x].dir EXCEPT ![d] = t]
      /\ \A g \in Frames : g # t /\ g # x => o.mem[g] = m.mem[g]
  <2> DEFINE w == [dir |-> [m.mem[x].dir EXCEPT ![d] = t]]
             p == [m.mem EXCEPT ![t] = EmptyTable]
             q == [p EXCEPT ![x] = w]
  <2>1. EmptyTable \in TableContents
    BY EmptyTableIsTable
  <2>2. w \in DirContents
    <3>1. m.mem[x].dir \in [DirEntries -> Int] /\ t \in Int
      BY <1>1, <1>2, SizesAreNat DEF IsDir, DirContents, Frames
    <3> QED BY <3>1 DEF DirContents
  <2>3. m.mem \in Mem /\ x \in Frames
    BY <1>1, <1>2 DEF Memories, IsDir
  <2>4. p \in Mem /\ p[x] = m.mem[x]
    BY <1>1, <1>2, <2>1, <2>3 DEF Mem
  <2>5. o = [n EXCEPT !.mem = q]
    <3>1. [p EXCEPT ![x].dir[d] = t] = q
      <4>1. p[x] \in DirContents
        BY <1>2, <2>4 DEF IsDir
      <4>2. [p[x] EXCEPT !.dir[d] = t] = w
        BY <2>4, <4>1 DEF DirContents
      <4> HIDE DEF p, w
      <4> QED BY <4>2
    <3> QED BY <1>1, <3>1 DEF Tables
  <2>6. q \in Mem
    <3> HIDE DEF p, w
    <3> QED BY <2>2, <2>3, <2>4 DEF Mem
  <2>7. q[t] = EmptyTable /\ q[x] = w /\ \A g \in Frames : g # t /\ g # x => q[g] = m.mem[g]
    <3> HIDE DEF w
    <3> QED BY <1>1, <1>2, <2>3 DEF Mem
  <2> HIDE DEF q
  <2>8. o \in Memories /\ o.used = n.used /\ o.count = n.count /\ o.mem = q
    BY <1>1, <2>5, <2>6 DEF Memories
  <2> QED BY <2>2, <2>7, <2>8
<1>4. /\ \A g : IsTable(m, g) => g # t /\ g # x /\ o.mem[g] = m.mem[g] /\ IsTable(o, g)
      /\ \A g : IsPage(m, g) /\ g # t => g # x /\ o.mem[g] = m.mem[g] /\ IsPage(o, g)
      /\ \A g : IsDir(m, g) => IsDir(o, g)
      /\ \A g : IsDir(m, g) /\ g # x => o.mem[g] = m.mem[g]
      /\ IsTable(o, t)
  <2>1. /\ \A g : IsTable(m, g) => g # t /\ g # x
        /\ \A g : IsPage(m, g) => g # x
        /\ \A g : IsDir(m, g) => g # t
    BY <1>1, <1>2, KindsApart
  <2>2. EmptyTable \in TableContents
    BY EmptyTableIsTable
  <2> QED BY <1>1, <1>3, <2>1, <2>2 DEF IsDir, IsTable, IsPage
<1>5. \A y \in B, e \in DirEntries :
        o.mem[y].dir[e] = IF y = x /\ e = d THEN t ELSE m.mem[y].dir[e]
  <2>1. m.mem[x].dir \in [DirEntries -> Int]
    BY <1>2 DEF IsDir, DirContents
  <2> QED BY <1>2, <1>3, <1>4, <2>1
<1>6. SameWalks(m, o, B)
  <2> SUFFICES ASSUME NEW y \in B, NEW v \in Pages PROVE Walk(o, y, v) = Walk(m, y, v)
    BY DEF SameWalks
  <2>1. DirOf(v) \in DirEntries /\ IndexOf(v) \in TableEntries
    BY Layout
  <2>2. CASE y = x /\ DirOf(v) = d
    <3>1. Walk(m, y, v) = Absent
      BY <2>2 DEF Walk, Entry
    <3>2. Walk(o, y, v) = EmptyTable.table[IndexOf(v)] \/ Walk(o, y, v) = Absent
      BY <1>3, <1>5, <2>1, <2>2 DEF Walk, Entry
    <3> QED BY <2>1, <3>1, <3>2 DEF EmptyTable, TableEntries
  <2>3. CASE ~(y = x /\ DirOf(v) = d)
    BY <1>2, <1>4, <1>5, <2>1, <2>3 DEF Walk, Entry
  <2> QED BY <2>2, <2>3
<1>7. Counted(o)
  BY <1>1, <1>3, <1>4 DEF MemInv, Counted
<1>8. KernelShared(o, k, A)
  <2>1. k \in o.used /\ IsDir(o, k) /\ \A a \in A : a \in o.used /\ a # k /\ IsDir(o, a)
    BY <1>1, <1>2, <1>3, <1>4
  <2>2. \A e \in DirEntries \ KernelDirs : o.mem[k].dir[e] = Absent
    BY <1>2, <1>5 DEF MayMap
  <2>3. \A a \in A, e \in KernelDirs : o.mem[a].dir[e] = o.mem[k].dir[e]
    <3> SUFFICES ASSUME NEW a \in A, NEW e \in KernelDirs
                 PROVE  o.mem[a].dir[e] = o.mem[k].dir[e]
      OBVIOUS
    <3>1. e \in DirEntries /\ m.mem[a].dir[e] = m.mem[k].dir[e]
      BY Layout, SpaceFacts
    <3>2. ~(a = x /\ e = d) /\ ~(k = x /\ e = d)
      BY <1>2 DEF MayMap
    <3> QED BY <1>5, <3>1, <3>2
  <2> QED BY <2>1, <2>2, <2>3 DEF KernelShared
<1>9. TablesApart(o, k, A)
  <2>1. \A y \in B, e \in DirEntries : o.mem[y].dir[e] # Absent =>
            o.mem[y].dir[e] \in o.used /\ IsTable(o, o.mem[y].dir[e])
    BY <1>1, <1>2, <1>3, <1>4, <1>5
  <2>2. \A y, z \in B, e, g \in DirEntries :
            /\ Owns(k, y, e) /\ Owns(k, z, g)
            /\ m.mem[y].dir[e] = m.mem[z].dir[g] /\ m.mem[y].dir[e] # Absent
            => y = z /\ e = g
    BY DEF MemInv, TablesApart
  <2>3. t # Absent
    BY <1>1, SizesAreNat DEF Frames, Absent
  <2>4. \A y, z \in B, e, g \in DirEntries :
            /\ Owns(k, y, e) /\ Owns(k, z, g)
            /\ o.mem[y].dir[e] = o.mem[z].dir[g] /\ o.mem[y].dir[e] # Absent
            => y = z /\ e = g
    BY <1>2, <1>5, <2>2, <2>3
  <2> QED BY <2>1, <2>4 DEF TablesApart
<1>10. PagesApart(o, A)
  <2>1. \A a \in A, v \in UserPages : Walk(o, a, v) = Walk(m, a, v)
    BY <1>6, Layout DEF SameWalks
  <2>2. \A a \in A, v \in UserPages : Walk(m, a, v) # Absent =>
            Walk(m, a, v) \in m.used /\ IsPage(m, Walk(m, a, v))
    BY DEF MemInv, PagesApart
  <2>3. \A a \in A, v \in UserPages : Walk(o, a, v) # Absent =>
            Walk(o, a, v) \in o.used /\ IsPage(o, Walk(o, a, v))
    BY <1>1, <1>3, <1>4, <2>1, <2>2
  <2> QED BY <2>1, <2>3 DEF MemInv, PagesApart
<1>11. IdentityMapped(o, k)
  <2>1. \A v \in Pages : Walk(o, k, v) = Walk(m, k, v)
    BY <1>6 DEF SameWalks
  <2>2. 0 .. IdentityEnd - 1 \subseteq Pages
    BY Layout
  <2> QED BY <2>1, <2>2 DEF MemInv, IdentityMapped
<1>12. Tabled(m, o, x, d, t)
  BY <1>1, <1>2, <1>3, <1>4, <1>5 DEF Tabled
<1> QED BY <1>6, <1>7, <1>8, <1>9, <1>10, <1>11, <1>12 DEF MemInv

\* n is m with f in entry i of the table t.
Maps(m, n, t, i, f) == n = [m EXCEPT !.mem = [m.mem EXCEPT ![t].table[i] = f]]

\* One table is changed in one entry.
LEMMA MapsFields ==
    ASSUME NEW m \in Memories, NEW t, IsTable(m, t), NEW i \in TableEntries,
           NEW f \in Int, NEW n, Maps(m, n, t, i, f)
    PROVE  /\ n \in Memories /\ n.used = m.used /\ n.count = m.count
           /\ IsTable(n, t)
           /\ \A j \in TableEntries :
                n.mem[t].table[j] = IF j = i THEN f ELSE m.mem[t].table[j]
           /\ \A g \in Frames : g # t => n.mem[g] = m.mem[g]
<1> DEFINE w == [table |-> [m.mem[t].table EXCEPT ![i] = f]]
           q == [m.mem EXCEPT ![t] = w]
<1>1. t \in Frames /\ m.mem[t] \in TableContents /\ m.mem \in Mem
  BY DEF IsTable, Memories
<1>2. w \in TableContents /\ [m.mem[t] EXCEPT !.table[i] = f] = w
      /\ \A j \in TableEntries : w.table[j] = IF j = i THEN f ELSE m.mem[t].table[j]
  BY <1>1 DEF TableContents
<1>3. [m.mem EXCEPT ![t].table[i] = f] = q
  <2> HIDE DEF w
  <2> QED BY <1>2
<1> HIDE DEF w
<1>4. q \in Mem /\ q[t] = w /\ \A g \in Frames : g # t => q[g] = m.mem[g]
  BY <1>1, <1>2 DEF Mem
<1>5. n = [m EXCEPT !.mem = q]
  BY <1>3 DEF Maps
<1> HIDE DEF q
<1>6. n \in Memories /\ n.used = m.used /\ n.count = m.count /\ n.mem = q
  BY <1>4, <1>5 DEF Memories
<1> QED BY <1>1, <1>2, <1>4, <1>6 DEF IsTable

\* Page v of space x is found in f, all others as before, as is every page.
OneWalk(m, n, B, x, v, f) ==
    /\ n.used = m.used
    /\ \A g : IsPage(m, g) => IsPage(n, g) /\ n.mem[g] = m.mem[g]
    /\ \A y \in B, u \in Pages :
        Walk(n, y, u) = IF y = x /\ u = v THEN f ELSE Walk(m, y, u)

\* The second half of vmm_map_page: whoever makes an entry in a table that is
\* its own, changes one page of one space.
LEMMA MapsWalks ==
    ASSUME NEW m, NEW k, NEW A, MemInv(m, k, A), NEW x, NEW v \in Pages,
           MayMap(k, A, x, DirOf(v)), m.mem[x].dir[DirOf(v)] # Absent, NEW f \in Int,
           NEW n, Maps(m, n, m.mem[x].dir[DirOf(v)], IndexOf(v), f)
    PROVE  /\ Counted(n) /\ KernelShared(n, k, A) /\ TablesApart(n, k, A)
           /\ OneWalk(m, n, A \cup {k}, x, v, f)
<1> DEFINE B == A \cup {k}
           d == DirOf(v)
           i == IndexOf(v)
           t == m.mem[x].dir[d]
<1>1. d \in DirEntries /\ i \in TableEntries /\ v \in Nat /\ Pages \subseteq Nat
      /\ \A u \in Pages : DirOf(u) \in DirEntries /\ IndexOf(u) \in TableEntries
  BY Layout
<1>2. /\ x \in B /\ Owns(k, x, d) /\ m \in Memories /\ k \notin A
      /\ \A y \in B : y \in m.used /\ IsDir(m, y)
      /\ \A y \in B, e \in DirEntries : m.mem[y].dir[e] # Absent =>
            m.mem[y].dir[e] \in m.used /\ IsTable(m, m.mem[y].dir[e])
      /\ \A e \in DirEntries \ KernelDirs : m.mem[k].dir[e] = Absent
      /\ \A a \in A, e \in KernelDirs : m.mem[a].dir[e] = m.mem[k].dir[e]
  BY SpaceFacts DEF MayMap, Owns
<1>3. IsTable(m, t)
  BY <1>1, <1>2
<1>4. /\ n \in Memories /\ n.used = m.used /\ n.count = m.count
      /\ IsTable(n, t)
      /\ \A j \in TableEntries :
            n.mem[t].table[j] = IF j = i THEN f ELSE m.mem[t].table[j]
      /\ \A g \in Frames : g # t => n.mem[g] = m.mem[g]
  <2> HIDE DEF t, i, d
  <2>1. Maps(m, n, t, i, f)
    BY DEF t, i, d
  <2> QED BY <1>1, <1>2, <1>3, <2>1, MapsFields
<1>5. /\ \A g : IsDir(m, g) => g # t /\ n.mem[g] = m.mem[g] /\ IsDir(n, g)
      /\ \A g : IsPage(m, g) => g # t /\ n.mem[g] = m.mem[g] /\ IsPage(n, g)
      /\ \A g : IsTable(m, g) => IsTable(n, g)
      /\ \A g : IsTable(m, g) /\ g # t => n.mem[g] = m.mem[g]
  <2>1. \A g : (IsDir(m, g) => g # t) /\ (IsPage(m, g) => g # t)
    <3> HIDE DEF t
    <3> QED BY <1>3, KindsApart
  <2> HIDE DEF t
  <2> QED BY <1>4, <2>1 DEF IsDir, IsTable, IsPage
<1>6. \A y \in B, e \in DirEntries : m.mem[y].dir[e] = t => y = x /\ e = d
  <2> SUFFICES ASSUME NEW y \in B, NEW e \in DirEntries, m.mem[y].dir[e] = t
               PROVE  y = x /\ e = d
    OBVIOUS
  <2>1. \A z, w \in B, g, h \in DirEntries :
            /\ Owns(k, z, g) /\ Owns(k, w, h)
            /\ m.mem[z].dir[g] = m.mem[w].dir[h] /\ m.mem[z].dir[g] # Absent
            => z = w /\ g = h
    BY DEF MemInv, TablesApart
  <2>2. CASE Owns(k, y, e)
    BY <1>1, <1>2, <2>1, <2>2
  <2>3. CASE ~Owns(k, y, e) /\ y = k
    BY <1>2, <2>3 DEF Owns
  <2>4. CASE ~Owns(k, y, e) /\ y # k
    <3>1. y \in A /\ e \in KernelDirs /\ m.mem[k].dir[e] = t /\ Owns(k, k, e)
      BY <1>2, <2>4 DEF Owns
    <3>2. x = k
      BY <1>1, <1>2, <2>1, <3>1
    <3> QED BY <1>2, <3>1, <3>2 DEF MayMap
  <2> QED BY <2>2, <2>3, <2>4
<1> HIDE DEF t
<1>7. \A y \in B : n.mem[y] = m.mem[y] /\ IsDir(n, y)
  BY <1>2, <1>5
<1>8. ASSUME NEW y \in B, NEW u \in Pages
      PROVE  Walk(n, y, u) = IF y = x /\ u = v THEN f ELSE Walk(m, y, u)
  <2>1. DirOf(u) \in DirEntries /\ IndexOf(u) \in TableEntries
    BY <1>1
  <2>2. CASE m.mem[y].dir[DirOf(u)] = t
    <3>1. y = x /\ DirOf(u) = d
      BY <1>6, <2>1, <2>2
    <3>2. Walk(n, y, u) = n.mem[t].table[IndexOf(u)]
          /\ Walk(m, y, u) = m.mem[t].table[IndexOf(u)]
      BY <1>7, <2>2 DEF Walk, Entry, t
    <3>3. IndexOf(u) = i => u = v
      BY <1>1, <3>1, SamePage
    <3> QED BY <1>4, <2>1, <3>1, <3>2, <3>3
  <2>3. CASE m.mem[y].dir[DirOf(u)] # t
    <3>1. ~(y = x /\ u = v)
      BY <2>3 DEF t
    <3>2. Walk(n, y, u) = Walk(m, y, u)
      BY <1>2, <1>5, <1>7, <2>1, <2>3 DEF Walk, Entry
    <3> QED BY <3>1, <3>2
  <2> QED BY <2>2, <2>3
<1>9. Counted(n)
  BY <1>4, <1>5 DEF MemInv, Counted
<1>10. KernelShared(n, k, A)
  BY <1>4, <1>7 DEF MemInv, KernelShared
<1>11. TablesApart(n, k, A)
  BY <1>4, <1>5, <1>7 DEF MemInv, TablesApart
<1> QED BY <1>4, <1>5, <1>8, <1>9, <1>10, <1>11 DEF OneWalk

\* A page of a program gets a frame nobody else has.
LEMMA MapUserInv ==
    ASSUME NEW m, NEW k, NEW A, MemInv(m, k, A), NEW x \in A, NEW v \in UserPages,
           m.mem[x].dir[DirOf(v)] # Absent,
           NEW f \in m.used, IsPage(m, f),
           \A a \in A, u \in UserPages : Walk(m, a, u) # f,
           NEW n, Maps(m, n, m.mem[x].dir[DirOf(v)], IndexOf(v), f)
    PROVE  MemInv(n, k, A) /\ OneWalk(m, n, A \cup {k}, x, v, f)
<1>1. MayMap(k, A, x, DirOf(v)) /\ v \in Pages /\ x # k
  BY Layout, SpaceFacts DEF MayMap, UserPages
<1>2. f \in Int
  BY SizesAreNat DEF IsPage, Frames
<1>3. /\ Counted(n) /\ KernelShared(n, k, A) /\ TablesApart(n, k, A)
      /\ n.used = m.used
      /\ \A g : IsPage(m, g) => IsPage(n, g) /\ n.mem[g] = m.mem[g]
      /\ \A y \in A \cup {k}, u \in Pages :
            Walk(n, y, u) = IF y = x /\ u = v THEN f ELSE Walk(m, y, u)
  <2>1. /\ Counted(n) /\ KernelShared(n, k, A) /\ TablesApart(n, k, A)
        /\ OneWalk(m, n, A \cup {k}, x, v, f)
    BY <1>1, <1>2, MapsWalks
  <2> QED BY <2>1 DEF OneWalk
<1>4. PagesApart(n, A)
  <2>1. \A a \in A, u \in UserPages :
            Walk(n, a, u) = IF a = x /\ u = v THEN f ELSE Walk(m, a, u)
    BY <1>3, Layout
  <2>2. \A a \in A, u \in UserPages : Walk(m, a, u) # Absent =>
            Walk(m, a, u) \in m.used /\ IsPage(m, Walk(m, a, u))
    BY DEF MemInv, PagesApart
  <2>3. \A a, b \in A, u, w \in UserPages :
            Walk(m, a, u) = Walk(m, b, w) /\ Walk(m, a, u) # Absent => a = b /\ u = w
    BY DEF MemInv, PagesApart
  <2>4. \A a \in A, u \in UserPages : Walk(n, a, u) # Absent =>
            Walk(n, a, u) \in n.used /\ IsPage(n, Walk(n, a, u))
    BY <1>3, <2>1, <2>2
  <2>5. \A a, b \in A, u, w \in UserPages :
            Walk(n, a, u) = Walk(n, b, w) /\ Walk(n, a, u) # Absent => a = b /\ u = w
    BY <2>1, <2>3
  <2> QED BY <2>4, <2>5 DEF PagesApart
<1>5. IdentityMapped(n, k)
  <2>1. \A u \in Pages : Walk(n, k, u) = Walk(m, k, u)
    BY <1>1, <1>3
  <2>2. 0 .. IdentityEnd - 1 \subseteq Pages
    BY Layout
  <2> QED BY <2>1, <2>2 DEF MemInv, IdentityMapped
<1> QED BY <1>3, <1>4, <1>5 DEF MemInv, OneWalk

\* At boot the framebuffer is mapped, which lies above the memory.
LEMMA MapKernelInv ==
    ASSUME NEW m, NEW k, MemInv(m, k, {}), NEW v \in FramebufferPages,
           m.mem[k].dir[DirOf(v)] # Absent,
           NEW n, Maps(m, n, m.mem[k].dir[DirOf(v)], IndexOf(v), v)
    PROVE  MemInv(n, k, {}) /\ OneWalk(m, n, {} \cup {k}, k, v, v)
<1>1. MayMap(k, {}, k, DirOf(v)) /\ v \in Pages /\ v \in Int /\ v >= TotalFrames
  BY Layout DEF MayMap
<1>2. /\ Counted(n) /\ KernelShared(n, k, {}) /\ TablesApart(n, k, {})
      /\ OneWalk(m, n, {} \cup {k}, k, v, v)
      /\ \A y \in {} \cup {k}, u \in Pages :
            Walk(n, y, u) = IF y = k /\ u = v THEN v ELSE Walk(m, y, u)
  <2>1. /\ Counted(n) /\ KernelShared(n, k, {}) /\ TablesApart(n, k, {})
        /\ OneWalk(m, n, {} \cup {k}, k, v, v)
    BY <1>1, MapsWalks
  <2> QED BY <2>1 DEF OneWalk
<1>3. IdentityMapped(n, k)
  <2>1. \A u \in Pages : Walk(n, k, u) = IF u = v THEN v ELSE Walk(m, k, u)
    BY <1>2
  <2>2. 0 .. IdentityEnd - 1 \subseteq Pages
    BY Layout
  <2> QED BY <2>1, <2>2 DEF MemInv, IdentityMapped
<1>4. PagesApart(n, {})
  BY DEF PagesApart
<1> QED BY <1>2, <1>3, <1>4 DEF MemInv

\* Spaces that are dropped take nothing from the others.
LEMMA FewerSpaces ==
    ASSUME NEW m, NEW k, NEW A, MemInv(m, k, A), NEW C, C \subseteq A
    PROVE  MemInv(m, k, C)
<1>1. KernelShared(m, k, C)
  BY DEF MemInv, KernelShared
<1>2. TablesApart(m, k, C)
  BY DEF MemInv, TablesApart
<1>3. PagesApart(m, C)
  BY DEF MemInv, PagesApart
<1> QED BY <1>1, <1>2, <1>3 DEF MemInv

\* A frame can be written at its address if it lies below IdentityEnd.
LEMMA WritableBelow ==
    ASSUME NEW m, NEW A, MemInv(m, page_directory, A), NEW f \in Frames
    PROVE  Writable(m, f) <=> f < IdentityEnd
<1>1. f \in Pages /\ f \in Nat /\ TotalFrames \in Nat /\ f < TotalFrames /\ IdentityEnd \in Nat
  BY Layout, SizesAreNat DEF Frames
<1>2. f < IdentityEnd => Walk(m, page_directory, f) = f
  BY <1>1 DEF MemInv, IdentityMapped
<1>3. Walk(m, page_directory, f) = f => f < IdentityEnd
  <2>1. f # Absent
    BY <1>1 DEF Absent
  <2>2. f \notin FramebufferPages
    BY <1>1, Layout
  <2> QED BY <1>1, <2>1, <2>2 DEF MemInv, IdentityMapped
<1> QED BY <1>2, <1>3 DEF Writable

\* As long as the memory used is mapped, there is a frame left.
LEMMA NextBelow ==
    ASSUME NEW m, Counted(m), m.used \subseteq 0 .. IdentityEnd - 1
    PROVE  NextFrame(m) # NoFrame
<1>1. IdentityEnd \in Frames /\ IdentityEnd \notin m.used
  BY SizesAssumption, SizesAreNat DEF Frames
<1>2. FreeFrames(m) # {}
  BY <1>1 DEF FreeFrames
<1>3. FreeFrames(m) \in SUBSET Nat
  BY SizesAreNat DEF FreeFrames, Frames
<1>4. PICK x \in FreeFrames(m) : \A y \in FreeFrames(m) : x <= y
  BY <1>2, <1>3, LeastOf
<1>5. NextFrame(m) \in FreeFrames(m)
  BY <1>2, <1>4 DEF NextFrame
<1> QED BY <1>5 DEF FreeFrames, Counted

\* n is m with page v of x placed in a new frame with the content c.
Placed(m, n, A, x, v, c) ==
    /\ m.used \subseteq n.used
    /\ Walk(n, x, v) # Absent /\ n.mem[Walk(n, x, v)] = c
    /\ \A y \in A, u \in UserPages :
        ~(y = x /\ u = v) /\ Walk(m, y, u) # Absent =>
            /\ Walk(n, y, u) = Walk(m, y, u)
            /\ n.mem[Walk(m, y, u)] = m.mem[Walk(m, y, u)]

\* All pages are where they were, with what they held.
Undisturbed(m, n, A) ==
    /\ m.used \subseteq n.used
    /\ \A y \in A, u \in UserPages :
        Walk(m, y, u) # Absent =>
            /\ Walk(n, y, u) = Walk(m, y, u)
            /\ n.mem[Walk(m, y, u)] = m.mem[Walk(m, y, u)]

\* The frame f is in use, holds c, and no program's page is there yet.
Filled(m, o, A, f, c) ==
    /\ o.used = m.used \cup {f} /\ IsPage(o, f) /\ o.mem[f] = c
    /\ \A g \in m.used : o.mem[g] = m.mem[g]
    /\ \A a \in A, u \in UserPages : Walk(o, a, u) # f

\* The frame for a page, cleared and filled.
LEMMA NewPageInv ==
    ASSUME NEW m, NEW k, NEW A, MemInv(m, k, A), NEW f, NEW n, Takes(m, n, f),
           NEW c \in PageContents, NEW o, Writes(n, o, f, c)
    PROVE  /\ MemInv(o, k, A) /\ SameWalks(m, o, A \cup {k})
           /\ Filled(m, o, A, f, c)
<1>1. /\ MemInv(n, k, A) /\ IsPage(n, f) /\ n.mem = m.mem /\ f \notin m.used
      /\ n.used = m.used \cup {f} /\ f \in Frames
  BY TakesInv DEF Takes, IsPage
<1>2. MemInv(o, k, A) /\ SameWalks(n, o, A \cup {k})
  BY <1>1, WritePageInv
<1>3. /\ o.used = n.used /\ o.mem[f] = c
      /\ \A g \in Frames : g # f => o.mem[g] = n.mem[g]
  BY <1>1, SpaceFacts, WritesFields
<1>4. SameWalks(m, o, A \cup {k})
  BY <1>1, <1>2 DEF SameWalks, Walk, Entry
<1>5. \A a \in A, u \in UserPages : Walk(o, a, u) # f
  <2>1. \A a \in A, u \in UserPages : Walk(o, a, u) = Walk(m, a, u)
    BY <1>4, Layout DEF SameWalks
  <2>2. \A a \in A, u \in UserPages : Walk(m, a, u) # Absent => Walk(m, a, u) \in m.used
    BY DEF MemInv, PagesApart
  <2>3. f # Absent
    BY <1>1, SizesAreNat DEF Frames, Absent
  <2> QED BY <1>1, <2>1, <2>2, <2>3
<1>6. \A g \in m.used : o.mem[g] = m.mem[g]
  <2>1. m.used \subseteq Frames
    BY SpaceFacts DEF Memories
  <2> QED BY <1>1, <1>3, <2>1
<1>7. IsPage(o, f)
  BY <1>1, <1>3 DEF IsPage
<1> QED BY <1>1, <1>2, <1>3, <1>4, <1>5, <1>6, <1>7 DEF Filled

\* m is what PlacePage has once the frame is filled.
LEMMA FilledWrites ==
    ASSUME NEW m, Counted(m), NEW f \in Frames, NEW c
    PROVE  Writes(Allocated(m), [Allocated(m) EXCEPT !.mem[f] = c], f, c)
<1>1. Allocated(m) = [Allocated(m) EXCEPT !.mem = Allocated(m).mem]
  BY DEF Allocated, Counted, Memories
<1> QED BY <1>1 DEF Writes

\* vmm_map_page_in_dir, for a page whose table may be missing.
LEMMA MapPageInv ==
    ASSUME NEW m, NEW k, NEW A, MemInv(m, k, A), NEW x \in A, NEW v \in UserPages,
           NEW f \in m.used, IsPage(m, f),
           \A a \in A, u \in UserPages : Walk(m, a, u) # f,
           m.used \subseteq 0 .. IdentityEnd - 1
    PROVE  LET n == MapPage(m, x, v, f)
           IN /\ MemInv(n, k, A) /\ Walk(n, x, v) = f /\ n.mem[f] = m.mem[f]
              /\ \A y \in A, u \in UserPages : ~(y = x /\ u = v) => Walk(n, y, u) = Walk(m, y, u)
              /\ \A g : IsPage(m, g) /\ g \in m.used => n.mem[g] = m.mem[g]
              /\ IF Entry(m, x, v) # Absent THEN n.used = m.used
                 ELSE n.used = m.used \cup {NextFrame(m)} /\ NextFrame(m) \in Frames
<1> DEFINE n == MapPage(m, x, v, f)
           d == DirOf(v)
<1>1. v \in Pages /\ d \in DirEntries /\ d \notin KernelDirs /\ f \in Int
  BY Layout, SizesAreNat DEF UserPages, IsPage, Frames
<1>2. UserPages \subseteq Pages /\ x \in A \cup {k}
  BY Layout
<1>3. ASSUME NEW o, MemInv(o, k, A), o.mem[x].dir[d] # Absent, f \in o.used, IsPage(o, f),
             \A a \in A, u \in UserPages : Walk(o, a, u) # f
      PROVE  /\ MemInv(SetEntry(o, x, v, f), k, A)
             /\ OneWalk(o, SetEntry(o, x, v, f), A \cup {k}, x, v, f)
  <2>1. Maps(o, SetEntry(o, x, v, f), o.mem[x].dir[DirOf(v)], IndexOf(v), f)
    <3>1. o \in Memories
      BY <1>3, SpaceFacts
    <3> QED BY <3>1 DEF Maps, SetEntry, Entry, Memories
  <2> QED BY <1>3, <2>1, MapUserInv
<1>4. CASE Entry(m, x, v) # Absent
  <2>1. n = SetEntry(m, x, v, f)
    BY <1>4 DEF MapPage
  <2>2. m.mem[x].dir[d] # Absent
    BY <1>4 DEF Entry
  <2>3. MemInv(n, k, A) /\ OneWalk(m, n, A \cup {k}, x, v, f)
    BY <1>3, <2>1, <2>2
  <2> HIDE DEF n
  <2> QED BY <1>1, <1>2, <1>4, <2>3 DEF OneWalk, n
<1>5. CASE Entry(m, x, v) = Absent
  <2> DEFINE t == NextFrame(m)
             a == Allocated(m)
             o == NewTable(m, x, v)
  <2>1. t # NoFrame /\ Takes(m, a, t)
    BY NextBelow, AllocatedTakes DEF MemInv
  <2>2. n = SetEntry(o, x, v, f)
    BY <1>5, <2>1 DEF MapPage
  <2>3. Tables(a, o, x, d, t)
    <3>1. m \in Memories
      BY SpaceFacts
    <3> QED BY <3>1 DEF NewTable, Tables, Allocated, Memories
  <2>4. MayMap(k, A, x, d) /\ m.mem[x].dir[d] = Absent
    BY <1>1, <1>5 DEF MayMap, Entry
  <2> HIDE DEF n, o, a, t
  <2>5. MemInv(o, k, A) /\ SameWalks(m, o, A \cup {k}) /\ Tabled(m, o, x, d, t)
    BY <2>1, <2>3, <2>4, NewTableInv
  <2>6. t \in Frames /\ t \notin m.used /\ a.used = m.used \cup {t} /\ t # Absent
    BY <2>1, SizesAreNat DEF Takes, Frames, Absent
  <2>7. \A b \in A, u \in UserPages : Walk(o, b, u) = Walk(m, b, u)
    BY <1>2, <2>5 DEF SameWalks
  <2>8. IsPage(o, f) /\ f \in o.used /\ o.mem[f] = m.mem[f]
    BY <2>5, <2>6 DEF IsPage, Tabled
  <2>9. MemInv(n, k, A) /\ OneWalk(o, n, A \cup {k}, x, v, f)
    <3>1. o.mem[x].dir[d] # Absent
      BY <2>5, <2>6 DEF Tabled
    <3>2. \A b \in A, u \in UserPages : Walk(o, b, u) # f
      BY <2>7
    <3>3. MemInv(SetEntry(o, x, v, f), k, A)
      BY <1>3, <2>5, <2>8, <3>1, <3>2
    <3>4. OneWalk(o, SetEntry(o, x, v, f), A \cup {k}, x, v, f)
      BY <1>3, <2>5, <2>8, <3>1, <3>2
    <3> QED BY <2>2, <3>3, <3>4
  <2>10. \A g : IsPage(m, g) /\ g \in m.used => n.mem[g] = m.mem[g]
    BY <2>5, <2>6, <2>9 DEF OneWalk, IsPage, Tabled
  <2>11. /\ Walk(n, x, v) = f /\ n.used = m.used \cup {t}
         /\ \A y \in A, u \in UserPages : ~(y = x /\ u = v) => Walk(n, y, u) = Walk(m, y, u)
    BY <1>1, <1>2, <2>5, <2>6, <2>7, <2>9 DEF OneWalk, Tabled
  <2> QED BY <1>5, <2>6, <2>9, <2>10, <2>11 DEF n, t
<1> QED BY <1>4, <1>5

\* What a page is filled with is the content of a page.
LEMMA ImagePageContents ==
    ASSUME NEW img \in Images, NEW v \in Pages
    PROVE  ImageContent(img, v) \in PageContents
BY DEF ImageContent, FromFile, Zero, PageContents

\* The loader up and running.
LoadingInv ==
    /\ MemInv(phys, page_directory, Spaces)
    /\ phys.used \subseteq 0 .. IdentityEnd - 1
    /\ loader.dir \in Spaces

Stops ==
    /\ MemInv(phys', page_directory, Spaces) /\ Undisturbed(phys, phys', Spaces)
    /\ 0 .. IdentityEnd - 1 \subseteq phys'.used
    /\ stopped' = "loader"
    /\ UNCHANGED <<page_directory, loader, header, procs, view, result>>

Places(v, c, next) ==
    /\ MemInv(phys', page_directory, Spaces)
    /\ Placed(phys, phys', Spaces, loader.dir, v, c)
    /\ phys'.used \subseteq 0 .. IdentityEnd - 1
    /\ loader' = next
    /\ UNCHANGED <<page_directory, header, procs, view, result, stopped>>

\* A frame beyond the map is the first one free only when all below are used.
LEMMA BeyondMap ==
    ASSUME NEW m, NEW n, NEW f, Takes(m, n, f), f >= IdentityEnd
    PROVE  0 .. IdentityEnd - 1 \subseteq n.used
<1>1. \A g \in 0 .. IdentityEnd - 1 : g \in Frames /\ g < f
  BY Layout, SizesAreNat DEF Takes, Frames
<1> QED BY <1>1 DEF Takes

\* vmm_map_page_in_dir puts one page into the directory being built, in the
\* table it finds there or in a new one, or the machine stops.
LEMMA PlacePageStep ==
    ASSUME LoadingInv, NEW v \in UserPages, NEW c \in PageContents, NEW code, NEW next,
           PlacePage(v, c, code, next)
    PROVE  Stops \/ Places(v, c, next)
<1> DEFINE f == NextFrame(phys)
           a == Allocated(phys)
           m == [Allocated(phys) EXCEPT !.mem[f] = c]
           A == Spaces
           k == page_directory
           x == loader.dir
<1>1. MemInv(phys, k, A) /\ phys.used \subseteq 0 .. IdentityEnd - 1 /\ Counted(phys) /\ x \in A
  BY DEF LoadingInv, MemInv
<1>2. f # NoFrame /\ Takes(phys, a, f) /\ f \in Frames /\ f \in Nat
  BY <1>1, NextBelow, AllocatedTakes, SizesAreNat DEF Takes, Frames
<1>3. MemInv(a, k, A) /\ a.used = phys.used \cup {f} /\ a.mem = phys.mem
  BY <1>1, <1>2, TakesInv DEF Takes
<1>4. CASE ~Writable(phys, f)
  <2>1. phys' = a /\ Panic(a)
    BY <1>2, <1>4 DEF PlacePage, Panic
  <2>2. f >= IdentityEnd
    BY <1>1, <1>2, <1>4, WritableBelow, SizesAreNat
  <2>3. 0 .. IdentityEnd - 1 \subseteq a.used
    BY <1>2, <2>2, BeyondMap
  <2>4. Undisturbed(phys, a, A)
    BY <1>3 DEF Undisturbed, Walk, Entry
  <2> HIDE DEF a
  <2> QED BY <1>3, <2>1, <2>3, <2>4 DEF Stops, Panic
<1>5. CASE Writable(phys, f)
  <2>1. f < IdentityEnd
    BY <1>1, <1>2, <1>5, WritableBelow
  <2>2. Writes(a, m, f, c)
    BY <1>1, <1>2, FilledWrites
  <2>3. IF MapFaults(m, x, v) THEN Panic(Allocated(m))
        ELSE /\ phys' = MapPage(m, x, v, f)
             /\ loader' = next
             /\ UNCHANGED <<page_directory, header, procs, view, result, stopped>>
    BY <1>2, <1>5 DEF PlacePage
  <2> HIDE DEF a, m, f
  <2>4. /\ MemInv(m, k, A) /\ SameWalks(phys, m, A \cup {k})
        /\ m.used = phys.used \cup {f} /\ IsPage(m, f) /\ m.mem[f] = c
        /\ \A g \in phys.used : m.mem[g] = phys.mem[g]
        /\ \A b \in A, u \in UserPages : Walk(m, b, u) # f
    <3> HIDE DEF A, k
    <3>1. MemInv(m, k, A) /\ SameWalks(phys, m, A \cup {k}) /\ Filled(phys, m, A, f, c)
      BY <1>1, <1>2, <2>2, NewPageInv
    <3> QED BY <3>1 DEF Filled
  <2>5. m.used \subseteq 0 .. IdentityEnd - 1 /\ Counted(m)
    BY <1>1, <1>2, <2>1, <2>4, SizesAreNat DEF MemInv
  <2>6. \A y \in A, u \in UserPages :
            /\ Walk(m, y, u) = Walk(phys, y, u)
            /\ Walk(phys, y, u) # Absent =>
                Walk(phys, y, u) \in phys.used /\ IsPage(phys, Walk(phys, y, u))
    BY <1>1, <2>4, Layout DEF SameWalks, MemInv, PagesApart
  <2> DEFINE t == NextFrame(m)
             b == Allocated(m)
  <2>7. t # NoFrame /\ Takes(m, b, t) /\ t \in Frames /\ t \in Nat
    BY <2>5, NextBelow, AllocatedTakes, SizesAreNat DEF Takes, Frames
  <2>8. CASE MapFaults(m, x, v)
    <3>1. t >= IdentityEnd
      BY <2>4, <2>7, <2>8, WritableBelow, SizesAreNat DEF MapFaults
    <3>2. 0 .. IdentityEnd - 1 \subseteq b.used
      BY <2>7, <3>1, BeyondMap
    <3>3. MemInv(b, k, A) /\ b.used = m.used \cup {t} /\ b.mem = m.mem
      BY <2>4, <2>7, TakesInv DEF Takes
    <3>4. Undisturbed(phys, b, A)
      <4>1. \A y, u : Walk(b, y, u) = Walk(m, y, u)
        BY <3>3 DEF Walk, Entry
      <4> QED BY <2>4, <2>6, <3>3, <4>1 DEF Undisturbed
    <3>5. Panic(b)
      BY <2>3, <2>8
    <3> HIDE DEF b
    <3> QED BY <3>2, <3>3, <3>4, <3>5 DEF Stops, Panic
  <2>9. CASE ~MapFaults(m, x, v)
    <3> DEFINE n == MapPage(m, x, v, f)
    <3>1. /\ phys' = n /\ loader' = next
          /\ UNCHANGED <<page_directory, header, procs, view, result, stopped>>
      BY <2>3, <2>9
    <3>2. /\ MemInv(n, k, A) /\ Walk(n, x, v) = f /\ n.mem[f] = m.mem[f]
          /\ \A y \in A, u \in UserPages : ~(y = x /\ u = v) => Walk(n, y, u) = Walk(m, y, u)
          /\ \A g : IsPage(m, g) /\ g \in m.used => n.mem[g] = m.mem[g]
          /\ IF Entry(m, x, v) # Absent THEN n.used = m.used
             ELSE n.used = m.used \cup {NextFrame(m)} /\ NextFrame(m) \in Frames
      <4>1. f \in m.used
        BY <2>4
      <4> HIDE DEF A, k, x
      <4> QED BY <1>1, <2>4, <2>5, <4>1, MapPageInv
    <3>3. n.used \subseteq 0 .. IdentityEnd - 1 /\ m.used \subseteq n.used
      <4>1. Entry(m, x, v) = Absent => t < IdentityEnd
        BY <2>4, <2>7, <2>9, WritableBelow DEF MapFaults
      <4> HIDE DEF n
      <4> QED BY <2>5, <2>7, <3>2, <4>1, SizesAreNat
    <3> HIDE DEF n
    <3>4. \A g \in phys.used : IsPage(phys, g) => n.mem[g] = phys.mem[g]
      BY <2>4, <3>2 DEF IsPage
    <3>5. Placed(phys, n, A, x, v, c)
      <4>1. f # Absent
        BY <1>2 DEF Absent
      <4> QED BY <2>4, <2>6, <3>2, <3>3, <3>4, <4>1 DEF Placed
    <3> QED BY <3>1, <3>2, <3>3, <3>5 DEF Places
  <2> QED BY <2>8, <2>9
<1> QED BY <1>4, <1>5

-----------------------------------------------------------------------------
(* The loader's steps.                                                     *)

\* Where the loader's pages end.
LEMMA LoadedWhen ==
    ASSUME NEW ld
    PROVE  /\ ld.pc = "segment" =>
                Loaded(ld) = FirstSegments(ld.img, ld.seg - 1)
                    \cup (ld.img[ld.seg].virt .. ld.img[ld.seg].virt + ld.page - 1)
           /\ ld.pc = "stack" =>
                Loaded(ld) = ImagePages(ld.img) \cup (Stack[1] .. ld.page - 1)
           /\ ld.pc = "create" => Loaded(ld) = ImagePages(ld.img) \cup StackPages
           /\ ld.pc \notin {"segment", "stack", "create"} => Loaded(ld) = {}
BY DEF Loaded

\* The pages placed so far are a program's, and there is a directory for them.
LEMMA LoadedPages ==
    ASSUME LoaderInv
    PROVE  /\ Loaded(loader) \subseteq UserPages
           /\ Loaded(loader) # {} => loader.dir # NoFrame
<1>1. CASE loader.pc = "segment"
  <2>1. /\ loader.img \in Images /\ loader.seg \in 1 .. Len(loader.img)
        /\ loader.page \in 0 .. loader.img[loader.seg].memsz - 1
        /\ loader.dir # NoFrame
    BY <1>1 DEF LoaderInv, LoadPcs
  <2>2. loader.img \in Seq(Segment) /\ loader.img[loader.seg] \in Segment
        /\ DOMAIN loader.img = 1 .. Len(loader.img)
    BY <2>1, ImagesAssumption
  <2>3. loader.img[loader.seg].virt .. loader.img[loader.seg].virt + loader.page - 1
            \subseteq SegmentPages(loader.img[loader.seg])
    <3> DEFINE seg == loader.img[loader.seg]
               p == loader.page
    <3>1. seg.virt \in Nat /\ seg.memsz \in Nat /\ p \in 0 .. seg.memsz - 1
      BY <2>1, <2>2, Layout DEF Segment
    <3> HIDE DEF seg, p
    <3>2. seg.virt .. seg.virt + p - 1 \subseteq seg.virt .. seg.virt + seg.memsz - 1
      BY <3>1
    <3> QED BY <3>2 DEF SegmentPages, seg, p
  <2>4. Loaded(loader) \subseteq ImagePages(loader.img)
    <3> DEFINE P == FirstSegments(loader.img, loader.seg - 1)
               Q == loader.img[loader.seg].virt .. loader.img[loader.seg].virt + loader.page - 1
    <3>1. Loaded(loader) = P \cup Q
      BY <1>1 DEF Loaded
    <3>2. 1 .. loader.seg - 1 \subseteq DOMAIN loader.img /\ loader.seg \in DOMAIN loader.img
      BY <2>1, <2>2
    <3>3. \A i \in DOMAIN loader.img : SegmentPages(loader.img[i]) \subseteq ImagePages(loader.img)
      BY DEF ImagePages
    <3>4. P \subseteq ImagePages(loader.img)
      BY <3>2, <3>3 DEF FirstSegments
    <3>5. Q \subseteq ImagePages(loader.img)
      BY <2>3, <3>2, <3>3
    <3> HIDE DEF P, Q
    <3> QED BY <3>1, <3>4, <3>5
  <2> QED BY <2>1, <2>4, UserPage
<1>2. CASE loader.pc = "stack"
  <2>1. loader.img \in Images /\ loader.page \in StackPages /\ loader.dir # NoFrame
    BY <1>2 DEF LoaderInv, LoadPcs
  <2>2. Stack[1] .. loader.page - 1 \subseteq StackPages
    <3>1. Stack[1] \in Nat /\ Stack[2] \in Nat
      BY SizesAssumption, Layout
    <3> QED BY <2>1, <3>1 DEF StackPages
  <2>3. Loaded(loader) \subseteq ImagePages(loader.img) \cup StackPages
    BY <1>2, <2>2 DEF Loaded
  <2> QED BY <2>1, <2>3, UserPage
<1>3. CASE loader.pc = "create"
  <2>1. loader.img \in Images /\ loader.dir # NoFrame
    BY <1>3 DEF LoaderInv, LoadPcs
  <2>2. Loaded(loader) = ImagePages(loader.img) \cup StackPages
    BY <1>3 DEF Loaded
  <2> QED BY <2>1, <2>2, UserPage
<1>4. CASE loader.pc \notin {"segment", "stack", "create"}
  BY <1>4 DEF Loaded
<1> QED BY <1>1, <1>2, <1>3, <1>4

\* While programs are loaded and run, all memory in use is mapped.
LEMMA MachineUp ==
    ASSUME MInv, stopped = "no", loader.pc \notin BootPcs
    PROVE  /\ MemInv(phys, page_directory, Spaces) /\ Counted(phys)
           /\ phys.used \subseteq 0 .. IdentityEnd - 1
           /\ loader.dir # NoFrame => loader.dir \in Spaces /\ LoadingInv
<1>1. /\ MemInv(phys, page_directory, Spaces) /\ Counted(phys)
      /\ phys.used \subseteq 0 .. IdentityEnd - 1
  BY DEF MInv, AtStart, UsedInv, BootPcs
<1>2. loader.dir # NoFrame => loader.dir \in Spaces
  BY DEF Spaces
<1> QED BY <1>1, <1>2 DEF LoadingInv

\* The panic of the loader leaves every program as it was.
LEMMA StopsInv ==
    ASSUME MInv, stopped = "no", loader.pc \in LoadPcs, Stops
    PROVE  MInv'
<1>1. /\ loader.pc \notin BootPcs /\ loader.pc # "vmm_init"
      /\ UNCHANGED <<page_directory, loader, header, procs, view, result>>
      /\ stopped' = "loader"
  BY DEF LoadPcs, BootPcs, Stops
<1>2. Spaces' = Spaces /\ Loaded(loader)' = Loaded(loader)
  BY <1>1 DEF Spaces, Loaded
<1>3. LoaderInv'
  BY <1>1 DEF MInv, LoaderInv
<1>4. SpacesApart'
  BY <1>1 DEF MInv, SpacesApart
<1>5. ContentsInv'
  <2>1. \A y \in Spaces, u \in UserPages : Walk(phys, y, u) # Absent =>
            /\ Walk(phys', y, u) = Walk(phys, y, u)
            /\ phys'.mem[Walk(phys, y, u)] = phys.mem[Walk(phys, y, u)]
    BY DEF Stops, Undisturbed
  <2>2. \A s \in Slots : procs[s] # NoFrame => procs[s] \in Spaces
    BY DEF Spaces
  <2>3. /\ Loaded(loader) \subseteq UserPages
        /\ Loaded(loader) # {} => loader.dir \in Spaces
    BY LoadedPages, MachineUp, <1>1 DEF MInv
  <2>4. ContentsInv
    BY DEF MInv
  <2>5. \A s \in Slots : \A v \in DOMAIN view[s] :
            /\ Walk(phys', procs[s], v) # Absent
            /\ phys'.mem[Walk(phys', procs[s], v)] = view[s][v]
    BY <2>1, <2>2, <2>4 DEF ContentsInv
  <2>6. \A v \in Loaded(loader) :
            /\ Walk(phys', loader.dir, v) # Absent
            /\ phys'.mem[Walk(phys', loader.dir, v)] = ImageContent(loader.img, v)
    BY <2>1, <2>3, <2>4 DEF ContentsInv
  <2>7. \A s \in Slots :
            /\ DOMAIN view[s] \subseteq UserPages
            /\ procs[s] = NoFrame => DOMAIN view[s] = {}
    BY <2>4 DEF ContentsInv
  <2> QED BY <1>1, <1>2, <2>4, <2>5, <2>6, <2>7 DEF ContentsInv
<1>6. UsedInv'
  BY <1>1 DEF UsedInv, Stops
<1>7. MemInv(phys, page_directory, Spaces)'
  BY <1>1, <1>2 DEF Stops
<1> QED BY <1>1, <1>3, <1>4, <1>5, <1>6, <1>7 DEF MInv, MemInv

\* A page was placed: where the loader goes on, it has placed no other.
Proceeds(v, next) ==
    /\ next.pc \in {"segment", "stack", "create"}
    /\ next.img = loader.img /\ next.dir = loader.dir
    /\ Loaded(next) \subseteq Loaded(loader) \cup {v}

\* Placing a page leaves every other page, the loader's and the programs'.
LEMMA PlacesInv ==
    ASSUME MInv, stopped = "no", loader.pc \in {"segment", "stack"},
           NEW v \in UserPages, NEW next, Proceeds(v, next),
           Places(v, ImageContent(loader.img, v), next), LoaderInv'
    PROVE  MInv'
<1>1. /\ loader.pc \notin BootPcs /\ loader.pc \in LoadPcs /\ loader' = next
      /\ UNCHANGED <<page_directory, header, procs, view, result, stopped>>
      /\ loader'.dir = loader.dir /\ loader'.img = loader.img
      /\ loader'.pc \notin BootPcs
  BY DEF LoadPcs, BootPcs, Places, Proceeds
<1>2. Spaces' = Spaces
  BY <1>1 DEF Spaces
<1>3. loader.dir # NoFrame /\ loader.dir \in Spaces
  BY DEF MInv, LoaderInv, Spaces
<1>4. SpacesApart'
  BY <1>1 DEF MInv, SpacesApart
<1>5. ContentsInv'
  <2>1. /\ \A y \in Spaces, u \in UserPages :
            ~(y = loader.dir /\ u = v) /\ Walk(phys, y, u) # Absent =>
                /\ Walk(phys', y, u) = Walk(phys, y, u)
                /\ phys'.mem[Walk(phys, y, u)] = phys.mem[Walk(phys, y, u)]
        /\ Walk(phys', loader.dir, v) # Absent
        /\ phys'.mem[Walk(phys', loader.dir, v)] = ImageContent(loader.img, v)
    BY DEF Places, Placed
  <2>2. \A s \in Slots : procs[s] # NoFrame => procs[s] \in Spaces /\ procs[s] # loader.dir
    BY DEF Spaces, MInv, SpacesApart
  <2>3. Loaded(loader) \subseteq UserPages /\ Loaded(loader') \subseteq Loaded(loader) \cup {v}
    BY LoadedPages, <1>1 DEF MInv, Proceeds
  <2>4. ContentsInv
    BY DEF MInv
  <2>5. \A s \in Slots : \A u \in DOMAIN view[s] :
            /\ Walk(phys', procs[s], u) # Absent
            /\ phys'.mem[Walk(phys', procs[s], u)] = view[s][u]
    BY <2>1, <2>2, <2>4 DEF ContentsInv
  <2>6. \A u \in Loaded(loader') :
            /\ Walk(phys', loader.dir, u) # Absent
            /\ phys'.mem[Walk(phys', loader.dir, u)] = ImageContent(loader.img, u)
    BY <1>3, <2>1, <2>3, <2>4 DEF ContentsInv
  <2>7. \A s \in Slots :
            /\ DOMAIN view[s] \subseteq UserPages
            /\ procs[s] = NoFrame => DOMAIN view[s] = {}
    BY <2>4 DEF ContentsInv
  <2> QED BY <1>1, <2>4, <2>5, <2>6, <2>7 DEF ContentsInv
<1>6. UsedInv'
  BY <1>1 DEF UsedInv, Places, BootPcs
<1>7. MemInv(phys, page_directory, Spaces)'
  BY <1>1, <1>2 DEF Places
<1> QED BY <1>1, <1>4, <1>5, <1>6, <1>7 DEF MInv, MemInv, BootPcs

\* Whatever ends a load takes nothing from the programs.
LEMMA ReturnInv ==
    ASSUME MInv, stopped = "no", loader.pc \in LoadPcs \cup {"idle"},
           NEW code \in -12 .. 0, Return(code), UNCHANGED <<phys, procs, view>>
    PROVE  MInv'
<1>1. /\ loader' = Idle /\ header' = FALSE /\ result' = code
      /\ UNCHANGED <<page_directory, stopped, phys, procs, view>>
      /\ loader.pc \notin BootPcs
  BY DEF Return, LoadPcs, BootPcs
<1>2. /\ loader'.pc = "idle" /\ loader'.dir = NoFrame /\ loader'.img = <<>>
      /\ loader' \in [pc : {"idle"}, img : {<<>>}, dir : Frames, seg : Nat, page : Nat]
  BY <1>1, SizesAreNat DEF Idle, At, Frames, NoFrame
<1>3. LoaderInv'
  BY <1>1, <1>2 DEF MInv, LoaderInv, LoaderType, LoadPcs, BootPcs
<1>4. SpacesApart'
  BY <1>1, <1>2 DEF MInv, SpacesApart, BootPcs
<1>5. ContentsInv'
  <2>1. Loaded(loader') = {}
    BY <1>2 DEF Loaded
  <2> QED BY <1>1, <2>1 DEF MInv, ContentsInv
<1>6. UsedInv'
  BY <1>1, <1>2, MachineUp DEF UsedInv
<1>7. MemInv(phys, page_directory, Spaces)'
  <2>1. Spaces' \subseteq Spaces
    BY <1>1, <1>2 DEF Spaces
  <2>2. MemInv(phys, page_directory, Spaces')
    BY <1>1, <2>1, MachineUp, FewerSpaces
  <2> QED BY <1>1, <2>2
<1> QED BY <1>1, <1>2, <1>3, <1>4, <1>5, <1>6, <1>7 DEF MInv, MemInv

\* Copies of directories and new frames do not disturb the pages there are.
LEMMA KeepsPages ==
    ASSUME NEW m, NEW k, NEW A, MemInv(m, k, A), NEW o, SameWalks(m, o, A \cup {k}),
           m.used \subseteq o.used, Keeps(m, o)
    PROVE  Undisturbed(m, o, A)
<1>1. \A y \in A, u \in UserPages : Walk(m, y, u) # Absent => Walk(m, y, u) \in m.used
  BY DEF MemInv, PagesApart
<1> QED BY <1>1, Layout DEF Undisturbed, SameWalks, Keeps

\* The contents of the programs' pages after a step that leaves them alone.
LEMMA ViewsKept ==
    ASSUME MInv, Undisturbed(phys, phys', Spaces), UNCHANGED <<procs, view>>,
           Loaded(loader') = {}
    PROVE  ContentsInv'
<1>1. \A y \in Spaces, u \in UserPages : Walk(phys, y, u) # Absent =>
          /\ Walk(phys', y, u) = Walk(phys, y, u)
          /\ phys'.mem[Walk(phys, y, u)] = phys.mem[Walk(phys, y, u)]
  BY DEF Undisturbed
<1>2. \A s \in Slots : procs[s] # NoFrame => procs[s] \in Spaces
  BY DEF Spaces
<1>3. ContentsInv
  BY DEF MInv
<1>4. \A s \in Slots : \A v \in DOMAIN view[s] :
          /\ Walk(phys', procs[s], v) # Absent
          /\ phys'.mem[Walk(phys', procs[s], v)] = view[s][v]
  BY <1>1, <1>2, <1>3 DEF ContentsInv
<1> QED BY <1>3, <1>4 DEF ContentsInv

\* A step of the loader before it has a directory.
LEMMA ChecksInv ==
    ASSUME MInv, stopped = "no", loader.pc \in {"idle", "check"},
           loader'.pc \in {"check", "space"}, loader'.dir = loader.dir,
           UNCHANGED <<phys, page_directory, procs, view, result, stopped>>, LoaderInv'
    PROVE  MInv'
<1>1. loader.pc \notin BootPcs /\ loader'.pc \notin BootPcs /\ loader'.pc # "graphics"
  BY DEF BootPcs
<1>2. Spaces' = Spaces /\ Loaded(loader') = {}
  BY DEF Spaces, Loaded
<1>3. SpacesApart'
  BY <1>1 DEF MInv, SpacesApart
<1>4. ContentsInv'
  BY <1>2 DEF MInv, ContentsInv
<1>5. UsedInv'
  BY <1>1, MachineUp DEF UsedInv
<1>6. MemInv(phys, page_directory, Spaces)'
  BY <1>1, <1>2, MachineUp
<1> QED BY <1>1, <1>3, <1>4, <1>5, <1>6 DEF MInv, MemInv, BootPcs

\* Reading the program's file keeps the invariant.
LEMMA OpenFileInv ==
    ASSUME MInv, stopped = "no", NEW img \in Images, OpenFile(img)
    PROVE  MInv'
<1>1. loader.pc = "idle" /\ UNCHANGED <<phys, procs, view>>
  BY DEF OpenFile
<1>2. CASE Return(-2) \/ Return(-3) \/ Return(-4)
  BY <1>1, <1>2, ReturnInv
<1>3. CASE /\ loader' = At("check", img, NoFrame, 1, 0)
           /\ header' = TRUE
           /\ UNCHANGED <<page_directory, result, stopped>>
  <2>1. /\ loader'.pc = "check" /\ loader'.dir = NoFrame /\ loader'.img = img
        /\ loader' \in LoaderType
    BY <1>3, SizesAreNat DEF At, LoaderType, LoadPcs, NoFrame, Frames
  <2>2. loader.dir = NoFrame
    BY <1>1 DEF MInv, LoaderInv
  <2>3. LoaderInv'
    BY <1>3, <2>1 DEF MInv, LoaderInv, LoadPcs
  <2> QED BY <1>1, <1>3, <2>1, <2>2, <2>3, ChecksInv
<1> QED BY <1>2, <1>3 DEF OpenFile

\* The checks of the ELF header keep the invariant.
LEMMA CheckFileInv ==
    ASSUME MInv, stopped = "no", CheckFile
    PROVE  MInv'
<1>1. loader.pc = "check" /\ loader.pc \in LoadPcs /\ UNCHANGED <<phys, procs, view>>
  BY DEF CheckFile, LoadPcs
<1>2. CASE Return(-5) \/ Return(-6) \/ Return(-7)
  BY <1>1, <1>2, ReturnInv
<1>3. CASE /\ loader' = [loader EXCEPT !.pc = "space"]
           /\ UNCHANGED <<page_directory, header, result, stopped>>
  <2>1. loader \in LoaderType /\ loader.dir = NoFrame /\ loader.img \in Images /\ header
    BY <1>1 DEF MInv, LoaderInv
  <2>2. /\ loader'.pc = "space" /\ loader'.dir = loader.dir /\ loader'.img = loader.img
        /\ loader' \in LoaderType
    BY <1>3, <2>1 DEF LoaderType, LoadPcs
  <2>3. LoaderInv'
    BY <1>3, <2>1, <2>2 DEF MInv, LoaderInv, LoadPcs
  <2> QED BY <1>1, <1>3, <2>2, <2>3, ChecksInv
<1> QED BY <1>2, <1>3 DEF CheckFile

\* n is the loader ld before its segment seg, or past all of them.
StartsAt(n, ld, seg) ==
    /\ n \in LoaderType /\ n.img = ld.img /\ n.dir = ld.dir
    /\ n.pc \in {"segment", "stack"}
    /\ n.pc = "segment" =>
        /\ n.seg \in 1 .. Len(n.img) /\ n.page \in 0 .. n.img[n.seg].memsz - 1
    /\ n.pc = "stack" => n.page \in StackPages
    /\ Loaded(n) = FirstSegments(ld.img, seg - 1)

\* The loader goes on to the first page of the next segment that has one.
LEMMA FromSegmentStarts ==
    ASSUME NEW ld \in LoaderType, ld.img \in Images, NEW seg \in 1 .. Len(ld.img) + 1
    PROVE  StartsAt(FromSegment(ld, seg), ld, seg)
<1> DEFINE n == FromSegment(ld, seg)
           P == FirstSegments(ld.img, seg - 1)
<1>1. /\ ld.img \in Seq(Segment) /\ DOMAIN ld.img = 1 .. Len(ld.img) /\ Len(ld.img) \in Nat
      /\ \A i \in 1 .. Len(ld.img) : ld.img[i] \in Segment
  BY ImagesAssumption
<1>2. Stack[1] \in Nat /\ Stack[2] \in Nat /\ Stack[1] <= Stack[2]
  BY SizesAssumption, Layout
<1>3. seg \in Nat /\ seg >= 1
  BY <1>1
<1>4. CASE seg <= Len(ld.img)
  <2>1. /\ n.pc = "segment" /\ n.seg = seg /\ n.page = 0 /\ n.img = ld.img /\ n.dir = ld.dir
        /\ n \in LoaderType
    <3>1. n = [ld EXCEPT !.pc = "segment", !.seg = seg, !.page = 0]
      BY <1>4 DEF FromSegment
    <3> HIDE DEF n
    <3> QED BY <1>3, <3>1 DEF LoaderType, LoadPcs
  <2>2. ld.img[seg] \in Segment /\ ld.img[seg].memsz \in Nat \ {0} /\ ld.img[seg].virt \in Nat
    <3>1. ld.img[seg] \in Segment
      BY <1>1, <1>4, <1>3
    <3> QED BY <3>1, Layout DEF Segment
  <2> HIDE DEF n
  <2>3. Loaded(n) = P \cup (ld.img[seg].virt .. ld.img[seg].virt + 0 - 1)
    BY <2>1 DEF Loaded
  <2>4. ld.img[seg].virt .. ld.img[seg].virt + 0 - 1 = {}
    BY <2>2
  <2>5. Loaded(n) = P
    BY <2>3, <2>4
  <2> QED BY <1>4, <2>1, <2>2, <2>5 DEF StartsAt, n
<1>5. CASE seg = Len(ld.img) + 1
  <2>1. /\ n.pc = "stack" /\ n.page = Stack[1] /\ n.img = ld.img /\ n.dir = ld.dir
        /\ n \in LoaderType
    <3>1. n = [ld EXCEPT !.pc = "stack", !.page = Stack[1]]
      BY <1>1, <1>5, <1>3 DEF FromSegment
    <3> HIDE DEF n
    <3> QED BY <1>2, <3>1 DEF LoaderType, LoadPcs
  <2> HIDE DEF n
  <2>2. Loaded(n) = ImagePages(ld.img) \cup (Stack[1] .. Stack[1] - 1)
    BY <2>1 DEF Loaded
  <2>3. Stack[1] .. Stack[1] - 1 = {}
    BY <1>2
  <2>4. ImagePages(ld.img) = P
    <3>1. DOMAIN ld.img = 1 .. seg - 1
      BY <1>1, <1>3, <1>5
    <3> QED BY <3>1 DEF ImagePages, FirstSegments
  <2>5. Loaded(n) = P /\ n.page \in StackPages
    BY <1>2, <2>1, <2>2, <2>3, <2>4 DEF StackPages
  <2> QED BY <2>1, <2>5 DEF StartsAt, n
<1> QED BY <1>1, <1>4, <1>5

\* vmm_create_address_space keeps the invariant: the copied entries are shared
\* with the kernel and nothing else is in the new directory.
LEMMA CreateSpaceInv ==
    ASSUME MInv, stopped = "no", CreateSpace
    PROVE  MInv'
<1> DEFINE f == NextFrame(phys)
           m == Allocated(phys)
           k == page_directory
           A == Spaces
<1>1. /\ loader.pc = "space" /\ loader.pc \in LoadPcs /\ loader.pc \notin BootPcs
      /\ loader.dir = NoFrame /\ loader.img \in Images /\ loader \in LoaderType
  BY DEF CreateSpace, LoadPcs, BootPcs, MInv, LoaderInv
<1>2. MemInv(phys, k, A) /\ phys.used \subseteq 0 .. IdentityEnd - 1 /\ Counted(phys)
  BY <1>1, MachineUp
<1>3. f # NoFrame /\ Takes(phys, m, f) /\ f \in Frames /\ f \in Nat
  BY <1>2, NextBelow, AllocatedTakes, SizesAreNat DEF Takes, Frames
<1>4. MemInv(m, k, A) /\ m.used = phys.used \cup {f} /\ m.mem = phys.mem
  BY <1>2, <1>3, TakesInv DEF Takes
<1>5. CASE ~Writable(m, f)
  <2>1. Panic(m)
    BY <1>3, <1>5 DEF CreateSpace
  <2>2. f >= IdentityEnd
    BY <1>3, <1>4, <1>5, WritableBelow, SizesAreNat
  <2>3. 0 .. IdentityEnd - 1 \subseteq m.used
    BY <1>3, <2>2, BeyondMap
  <2>4. Undisturbed(phys, m, A)
    BY <1>4 DEF Undisturbed, Walk, Entry
  <2>5. Stops
    <3> HIDE DEF m
    <3> QED BY <1>4, <2>1, <2>3, <2>4 DEF Stops, Panic
  <2> QED BY <1>1, <2>5, StopsInv
<1>6. CASE Writable(m, f)
  <2> DEFINE o == CopyKernelSpace(m, f)
             next == FromSegment([loader EXCEPT !.dir = f], 1)
  <2>1. phys' = o /\ loader' = next /\ UNCHANGED <<k, header, procs, view, result, stopped>>
    BY <1>3, <1>6 DEF CreateSpace
  <2>2. Writes(m, o, f, m.mem[k])
    <3>1. m = [m EXCEPT !.mem = m.mem]
      BY <1>4, SpaceFacts DEF Memories
    <3> QED BY <3>1 DEF CopyKernelSpace, Writes
  <2>3. m.mem[k] \in DirContents
    BY <1>4, SpaceFacts DEF IsDir
  <2> HIDE DEF m, f, o, A, k
  <2>4. /\ MemInv(o, k, A \cup {f}) /\ SameWalks(phys, o, A \cup {k})
        /\ f \notin A \cup {k} /\ Keeps(phys, o)
    BY <1>2, <1>3, <2>2, NewSpaceInv
  <2>5. o.used = phys.used \cup {f} /\ f < IdentityEnd
    <3>1. m \in Memories
      BY <1>4, SpaceFacts
    <3>2. o.used = m.used
      BY <1>3, <2>2, <2>3, <3>1, WritesFields
    <3> QED BY <1>3, <1>4, <1>6, <3>2, WritableBelow DEF k
  <2>6. Undisturbed(phys, o, A)
    BY <1>2, <2>4, <2>5, KeepsPages
  <2>7. StartsAt(next, [loader EXCEPT !.dir = f], 1)
    <3> DEFINE ld == [loader EXCEPT !.dir = f]
    <3>1. ld \in LoaderType /\ ld.img \in Images
      BY <1>1, <1>3 DEF LoaderType
    <3>2. 1 \in 1 .. Len(ld.img) + 1
      <4>1. ld.img \in Seq(Segment)
        BY <3>1, ImagesAssumption
      <4>2. Len(ld.img) \in Nat
        BY <4>1
      <4> QED BY <4>2
    <3> HIDE DEF ld
    <3>3. StartsAt(FromSegment(ld, 1), ld, 1)
      BY <3>1, <3>2, FromSegmentStarts
    <3> QED BY <3>3 DEF ld
  <2>8. /\ loader' \in LoaderType /\ loader'.img = loader.img /\ loader'.dir = f
        /\ loader'.pc \in {"segment", "stack"} /\ Loaded(loader') = {}
    <3>1. [loader EXCEPT !.dir = f].img = loader.img /\ [loader EXCEPT !.dir = f].dir = f
      BY <1>1 DEF LoaderType
    <3>2. Loaded(loader') = FirstSegments([loader EXCEPT !.dir = f].img, 1 - 1)
      BY <2>1, <2>7 DEF StartsAt
    <3>3. 1 .. 1 - 1 = {}
      OBVIOUS
    <3>4. Loaded(loader') = {}
      BY <3>2, <3>3 DEF FirstSegments
    <3> QED BY <2>1, <2>7, <3>1, <3>4 DEF StartsAt
  <2>9. LoaderInv'
    <3>1. /\ loader'.pc = "segment" =>
                /\ loader'.seg \in 1 .. Len(loader'.img)
                /\ loader'.page \in 0 .. loader'.img[loader'.seg].memsz - 1
          /\ loader'.pc = "stack" => loader'.page \in StackPages
      BY <2>1, <2>7 DEF StartsAt
    <3> QED BY <1>1, <1>3, <2>1, <2>8, <3>1 DEF MInv, LoaderInv, LoadPcs
  <2>10. Spaces' = A \cup {f}
    BY <1>1, <1>3, <2>1, <2>8 DEF Spaces, A
  <2>11. SpacesApart'
    <3>1. \A s \in Slots : procs[s] # NoFrame => procs[s] # f
      BY <2>4 DEF A, Spaces
    <3> QED BY <2>1, <2>8, <3>1 DEF MInv, SpacesApart, BootPcs
  <2>12. ContentsInv'
    BY <2>1, <2>6, <2>8, ViewsKept DEF A
  <2>13. UsedInv'
    <3>1. o.used \subseteq 0 .. IdentityEnd - 1
      BY <1>2, <1>3, <2>5, SizesAreNat
    <3> QED BY <2>1, <2>8, <3>1 DEF UsedInv
  <2>14. MemInv(phys, page_directory, Spaces)'
    BY <2>1, <2>4, <2>10 DEF k
  <2>15. page_directory' \in Frames /\ loader'.pc # "vmm_init"
    BY <2>1, <2>8 DEF MInv, k
  <2> QED BY <2>9, <2>11, <2>12, <2>13, <2>14, <2>15 DEF MInv, MemInv
<1> QED BY <1>5, <1>6

\* A page the loader tries to place, whichever way it ends.
LEMMA PlacePageEnds ==
    ASSUME MInv, stopped = "no", loader.pc \in {"segment", "stack"},
           NEW v \in UserPages, NEW code \in -12 .. 0, NEW next, Proceeds(v, next),
           PlacePage(v, ImageContent(loader.img, v), code, next),
           loader' = next /\ UNCHANGED <<header, result, stopped>> => LoaderInv'
    PROVE  MInv'
<1>1. loader.pc \in LoadPcs /\ loader.pc \notin BootPcs
  BY DEF LoadPcs, BootPcs
<1>2. loader.dir # NoFrame /\ loader.img \in Images
  BY <1>1 DEF MInv, LoaderInv
<1>3. LoadingInv
  BY <1>1, <1>2, MachineUp
<1>4. ImageContent(loader.img, v) \in PageContents
  BY <1>2, ImagePageContents DEF UserPages
<1>5. Stops \/ Places(v, ImageContent(loader.img, v), next)
  BY <1>3, <1>4, PlacePageStep
<1>6. CASE Stops
  BY <1>1, <1>6, StopsInv
<1>7. CASE Places(v, ImageContent(loader.img, v), next)
  <2>1. LoaderInv'
    BY <1>7 DEF Places
  <2> QED BY <1>7, <2>1, PlacesInv
<1> QED BY <1>5, <1>6, <1>7

\* Loading a page of a segment keeps the invariant.
LEMMA LoadPageInv ==
    ASSUME MInv, stopped = "no", LoadPage
    PROVE  MInv'
<1> DEFINE img == loader.img
           seg == img[loader.seg]
           v == seg.virt + loader.page
           next == IF loader.page + 1 < seg.memsz THEN [loader EXCEPT !.page = @ + 1]
                   ELSE FromSegment(loader, loader.seg + 1)
<1>1. /\ loader.pc = "segment" /\ loader.pc \in LoadPcs /\ loader.dir # NoFrame
      /\ img \in Images /\ loader \in LoaderType
      /\ loader.seg \in 1 .. Len(img) /\ loader.page \in 0 .. seg.memsz - 1
      /\ header
  <2>1. loader.pc = "segment" /\ loader.pc \in LoadPcs
    BY DEF LoadPage, LoadPcs
  <2>2. LoaderInv
    BY DEF MInv
  <2> QED BY <2>1, <2>2 DEF LoadPage, LoaderInv, MInv
<1>2. /\ img \in Seq(Segment) /\ seg \in Segment /\ Len(img) \in Nat
      /\ DOMAIN img = 1 .. Len(img)
  BY <1>1, ImagesAssumption
<1>3. /\ seg.virt \in Nat /\ seg.memsz \in Nat /\ loader.page \in Nat
      /\ loader.seg \in Nat /\ loader.seg >= 1
  <2>1. seg.virt \in Nat /\ seg.memsz \in Nat
    BY <1>2, Layout DEF Segment
  <2>2. loader.page \in Nat /\ loader.seg \in Nat
    BY <1>1 DEF LoaderType
  <2>3. loader.seg >= 1
    BY <1>1, <1>2, <2>2
  <2> QED BY <2>1, <2>2, <2>3
<1>4. v \in UserPages
  <2>1. v \in SegmentPages(seg)
    <3> HIDE DEF seg
    <3> QED BY <1>1, <1>3 DEF SegmentPages
  <2>2. v \in ImagePages(img)
    BY <1>1, <1>2, <2>1 DEF ImagePages
  <2> QED BY <1>1, <2>2, UserPage
<1> DEFINE P == FirstSegments(img, loader.seg - 1)
<1>5. Loaded(loader) = P \cup (seg.virt .. v - 1)
  BY <1>1, <1>3, LoadedWhen
<1>6. CASE ~seg.inFile
  <2>1. Return(-11) /\ UNCHANGED <<phys, procs, view>>
    BY <1>6 DEF LoadPage
  <2> QED BY <1>1, <2>1, ReturnInv
<1>7. CASE seg.inFile
  <2>1. PlacePage(v, ImageContent(img, v), -9, next)
    BY <1>7 DEF LoadPage
  <2>2. /\ next \in LoaderType /\ next.img = img /\ next.dir = loader.dir
        /\ next.pc \in {"segment", "stack"}
        /\ next.pc = "segment" =>
            /\ next.seg \in 1 .. Len(img) /\ next.page \in 0 .. img[next.seg].memsz - 1
        /\ next.pc = "stack" => next.page \in StackPages
        /\ Loaded(next) \subseteq Loaded(loader) \cup {v}
    <3>1. CASE loader.page + 1 < seg.memsz
      <4>1. next = [loader EXCEPT !.page = loader.page + 1]
        BY <1>1, <3>1 DEF LoaderType
      <4> HIDE DEF next
      <4>2. /\ next \in LoaderType /\ next.img = img /\ next.dir = loader.dir
            /\ next.pc = "segment" /\ next.seg = loader.seg /\ next.page = loader.page + 1
        BY <1>1, <1>3, <4>1 DEF LoaderType
      <4>3. next.page \in 0 .. seg.memsz - 1
        <5> HIDE DEF seg
        <5> QED BY <1>3, <3>1, <4>2
      <4>4. Loaded(next) = P \cup (seg.virt .. seg.virt + (loader.page + 1) - 1)
        BY <4>2 DEF Loaded
      <4>5. seg.virt .. seg.virt + (loader.page + 1) - 1 = (seg.virt .. v - 1) \cup {v}
        <5> HIDE DEF seg
        <5> QED BY <1>3
      <4> QED BY <1>1, <1>5, <4>2, <4>3, <4>4, <4>5
    <3>2. CASE ~(loader.page + 1 < seg.memsz)
      <4>1. next = FromSegment(loader, loader.seg + 1)
        BY <3>2
      <4>2. loader.seg + 1 \in 1 .. Len(img) + 1
        BY <1>1, <1>2, <1>3
      <4> HIDE DEF next
      <4>3. StartsAt(next, loader, loader.seg + 1)
        BY <1>1, <4>1, <4>2, FromSegmentStarts
      <4>4. Loaded(next) = P \cup SegmentPages(seg)
        <5> DEFINE I == 1 .. loader.seg + 1 - 1
        <5>1. I = (1 .. loader.seg - 1) \cup {loader.seg}
          BY <1>3
        <5>2. Loaded(next) = FirstSegments(img, loader.seg + 1 - 1)
          BY <1>3, <4>3 DEF StartsAt
        <5>3. FirstSegments(img, loader.seg + 1 - 1) = UNION {SegmentPages(img[i]) : i \in I}
          BY Zenon DEF FirstSegments
        <5>4. P = UNION {SegmentPages(img[i]) : i \in 1 .. loader.seg - 1}
          BY Zenon DEF FirstSegments
        <5> HIDE DEF I, P
        <5> QED BY <5>1, <5>2, <5>3, <5>4
      <4>5. SegmentPages(seg) = (seg.virt .. v - 1) \cup {v}
        <5> HIDE DEF seg
        <5> QED BY <1>1, <1>3, <3>2 DEF SegmentPages
      <4> QED BY <1>5, <4>3, <4>4, <4>5 DEF StartsAt
    <3> QED BY <3>1, <3>2
  <2> HIDE DEF next, v
  <2>3. Proceeds(v, next)
    BY <2>2 DEF Proceeds
  <2>4. loader' = next /\ UNCHANGED <<header, result, stopped>> => LoaderInv'
    BY <1>1, <2>2 DEF MInv, LoaderInv, LoadPcs
  <2>5. -9 \in -12 .. 0
    OBVIOUS
  <2> QED BY <1>1, <1>4, <2>1, <2>3, <2>4, <2>5, PlacePageEnds
<1> QED BY <1>6, <1>7

\* The stack's pages hold nothing of the file.
LEMMA StackContent ==
    ASSUME NEW img \in Images, NEW v \in StackPages
    PROVE  ImageContent(img, v) = Zero
<1>1. img \in Seq(Segment) /\ v \notin ImagePages(img)
  BY ImagesAssumption
<1>2. ASSUME NEW i \in DOMAIN img, v \in img[i].virt .. img[i].virt + img[i].filesz - 1
      PROVE  FALSE
  <2>1. /\ img[i].virt \in Nat /\ img[i].memsz \in Nat /\ img[i].filesz \in Nat
        /\ img[i].filesz <= img[i].memsz
    <3>1. img[i] \in Segment
      BY <1>1
    <3> QED BY <3>1, ImagesAssumption, Layout DEF Segment
  <2>2. v \in SegmentPages(img[i])
    BY <1>2, <2>1 DEF SegmentPages
  <2> QED BY <1>1, <2>2 DEF ImagePages
<1> QED BY <1>2 DEF ImageContent

\* Loading a page of the program's stack keeps the invariant.
LEMMA LoadStackInv ==
    ASSUME MInv, stopped = "no", LoadStack
    PROVE  MInv'
<1> DEFINE v == loader.page
           next == IF v < Stack[2] THEN [loader EXCEPT !.page = v + 1]
                   ELSE [loader EXCEPT !.pc = "create"]
<1>1. /\ loader.pc = "stack" /\ loader.pc \in LoadPcs /\ loader.dir # NoFrame
      /\ loader.img \in Images /\ loader \in LoaderType /\ header
      /\ v \in StackPages
      /\ PlacePage(v, Zero, -12, next)
  BY DEF LoadStack, LoadPcs, MInv, LoaderInv
<1>2. Stack[1] \in Nat /\ Stack[2] \in Nat /\ v \in Nat /\ v >= Stack[1] /\ v <= Stack[2]
  <2>1. Stack[1] \in Nat /\ Stack[2] \in Nat
    BY SizesAssumption, Layout
  <2> QED BY <1>1, <2>1 DEF StackPages
<1>3. v \in UserPages /\ ImageContent(loader.img, v) = Zero
  BY <1>1, UserPage, StackContent
<1>4. Loaded(loader) = ImagePages(loader.img) \cup (Stack[1] .. v - 1)
  BY <1>1 DEF Loaded
<1>5. /\ next \in LoaderType /\ next.img = loader.img /\ next.dir = loader.dir
      /\ next.pc \in {"stack", "create"}
      /\ next.pc = "stack" => next.page \in StackPages
      /\ Loaded(next) \subseteq Loaded(loader) \cup {v}
  <2>1. CASE v < Stack[2]
    <3>1. next = [loader EXCEPT !.page = v + 1]
      BY <2>1
    <3> HIDE DEF next
    <3>2. /\ next \in LoaderType /\ next.img = loader.img /\ next.dir = loader.dir
          /\ next.pc = "stack" /\ next.page = v + 1
      BY <1>1, <1>2, <3>1 DEF LoaderType
    <3>3. next.page \in StackPages
      <4> HIDE DEF v
      <4> QED BY <1>2, <2>1, <3>2 DEF StackPages
    <3>4. Loaded(next) = ImagePages(loader.img) \cup (Stack[1] .. next.page - 1)
      BY <3>2, LoadedWhen
    <3>5. Stack[1] .. next.page - 1 = (Stack[1] .. v - 1) \cup {v}
      <4> HIDE DEF v
      <4> QED BY <1>2, <3>2
    <3> QED BY <1>4, <3>2, <3>3, <3>4, <3>5
  <2>2. CASE ~(v < Stack[2])
    <3>1. next = [loader EXCEPT !.pc = "create"]
      BY <2>2
    <3> HIDE DEF next
    <3>2. /\ next \in LoaderType /\ next.img = loader.img /\ next.dir = loader.dir
          /\ next.pc = "create"
      BY <1>1, <3>1 DEF LoaderType, LoadPcs
    <3>3. Loaded(next) = ImagePages(loader.img) \cup StackPages
      BY <3>2 DEF Loaded
    <3>4. StackPages = (Stack[1] .. v - 1) \cup {v}
      <4> HIDE DEF v
      <4> QED BY <1>2, <2>2 DEF StackPages
    <3> QED BY <1>4, <3>2, <3>3, <3>4
  <2> QED BY <2>1, <2>2
<1> HIDE DEF next, v
<1>6. Proceeds(v, next)
  BY <1>5 DEF Proceeds
<1>7. loader' = next /\ UNCHANGED <<header, result, stopped>> => LoaderInv'
  BY <1>1, <1>5 DEF MInv, LoaderInv, LoadPcs
<1>8. -12 \in -12 .. 0
  OBVIOUS
<1> QED BY <1>1, <1>3, <1>6, <1>7, <1>8, PlacePageEnds

\* The loader's directory becomes the program's.
LEMMA StartInv ==
    ASSUME MInv, stopped = "no", NEW s \in Slots, Start(s)
    PROVE  MInv'
<1> DEFINE x == loader.dir
           w == [v \in ImagePages(loader.img) \cup StackPages |-> ImageContent(loader.img, v)]
<1>1. /\ loader.pc = "create" /\ loader.pc \notin BootPcs /\ x # NoFrame /\ x \in Frames
      /\ loader.img \in Images /\ procs[s] = NoFrame
      /\ procs' = [procs EXCEPT ![s] = x] /\ view' = [view EXCEPT ![s] = w]
      /\ loader' = Idle /\ header' = FALSE /\ result' = 0
      /\ UNCHANGED <<page_directory, stopped, phys>>
  BY DEF Start, Return, BootPcs, LoadPcs, MInv, LoaderInv, LoaderType
<1>2. /\ loader'.pc = "idle" /\ loader'.dir = NoFrame /\ loader'.img = <<>>
      /\ loader' \in [pc : {"idle"}, img : {<<>>}, dir : Frames, seg : Nat, page : Nat]
  BY <1>1, SizesAreNat DEF Idle, At, Frames, NoFrame
<1>3. LoaderInv'
  <2>1. 0 \in -12 .. 0
    OBVIOUS
  <2> QED BY <2>1, <1>1, <1>2 DEF MInv, LoaderInv, LoaderType, LoadPcs, BootPcs
<1>4. SpacesApart /\ ContentsInv
  BY DEF MInv
<1>5. \A t \in Slots : procs'[t] = IF t = s THEN x ELSE procs[t]
  BY <1>1, <1>4 DEF SpacesApart
<1>6. SpacesApart'
  <2>1. procs' \in [Slots -> Frames]
    BY <1>1, <1>4 DEF SpacesApart
  <2> QED BY <1>2, <1>4, <1>5, <2>1 DEF SpacesApart, BootPcs
<1>7. ContentsInv'
  <2>1. view = [t \in Slots |-> view[t]]
    BY <1>4 DEF ContentsInv
  <2> HIDE DEF w
  <2>2. /\ view' = [t \in Slots |-> view'[t]]
        /\ \A t \in Slots : view'[t] = IF t = s THEN w ELSE view[t]
    BY <1>1, <2>1
  <2>3. DOMAIN w = Loaded(loader) /\ DOMAIN w \subseteq UserPages
        /\ \A v \in DOMAIN w : w[v] = ImageContent(loader.img, v)
    <3>1. Loaded(loader) = ImagePages(loader.img) \cup StackPages
      BY <1>1 DEF Loaded
    <3> QED BY <3>1, LoadedPages DEF w, MInv
  <2>4. Loaded(loader') = {}
    BY <1>2 DEF Loaded
  <2>5. ASSUME NEW t \in Slots
        PROVE  /\ DOMAIN view'[t] \subseteq UserPages
               /\ procs'[t] = NoFrame => DOMAIN view'[t] = {}
               /\ \A v \in DOMAIN view'[t] :
                    /\ Walk(phys', procs'[t], v) # Absent
                    /\ phys'.mem[Walk(phys', procs'[t], v)] = view'[t][v]
    <3>1. CASE t = s
      BY <1>1, <1>4, <1>5, <2>2, <2>3, <3>1 DEF ContentsInv
    <3>2. CASE t # s
      <4>1. procs'[t] = procs[t] /\ view'[t] = view[t] /\ phys' = phys
        BY <1>1, <1>5, <2>2, <3>2
      <4>2. /\ DOMAIN view[t] \subseteq UserPages
            /\ procs[t] = NoFrame => DOMAIN view[t] = {}
            /\ \A v \in DOMAIN view[t] :
                /\ Walk(phys, procs[t], v) # Absent
                /\ phys.mem[Walk(phys, procs[t], v)] = view[t][v]
        BY <1>4 DEF ContentsInv
      <4> QED BY <4>1, <4>2
    <3> QED BY <3>1, <3>2
  <2> QED BY <2>2, <2>4, <2>5 DEF ContentsInv
<1>8. UsedInv'
  BY <1>1, <1>2, MachineUp DEF UsedInv
<1>9. MemInv(phys, page_directory, Spaces)'
  <2>1. Spaces' \subseteq Spaces
    BY <1>1, <1>2, <1>5 DEF Spaces
  <2>2. MemInv(phys, page_directory, Spaces')
    BY <1>1, <2>1, MachineUp, FewerSpaces
  <2> QED BY <1>1, <2>2
<1> QED BY <1>1, <1>2, <1>3, <1>6, <1>7, <1>8, <1>9 DEF MInv, MemInv

\* A process that cannot be created leaves the invariant as it is.
LEMMA StartFailsInv ==
    ASSUME MInv, stopped = "no", StartFails
    PROVE  MInv'
<1>1. loader.pc \in LoadPcs /\ Return(-10) /\ UNCHANGED <<phys, procs, view>>
  BY DEF StartFails, LoadPcs
<1>2. -10 \in -12 .. 0
  OBVIOUS
<1> QED BY <1>1, <1>2, ReturnInv

-----------------------------------------------------------------------------
(* The programs' steps.                                                    *)

\* A store changes one page of one program, which need not be the storing one.
LEMMA UserWriteInv ==
    ASSUME MInv, stopped = "no", NEW s \in Slots, NEW v \in Pages, UserWrite(s, v)
    PROVE  MInv'
<1> DEFINE k == page_directory
           A == Spaces
           f == Walk(phys, procs[s], v)
           c == Written(s)
<1>1. /\ procs[s] # NoFrame /\ f # Absent
      /\ phys' = [phys EXCEPT !.mem[f] = c]
      /\ view' = [t \in Slots |-> [u \in DOMAIN view[t] |->
                    IF Walk(phys, procs[t], u) = f THEN c ELSE view[t][u]]]
      /\ UNCHANGED <<page_directory, loader, header, procs, result, stopped>>
  BY DEF UserWrite
<1>2. SpacesApart /\ ContentsInv /\ LoaderInv
  BY DEF MInv
<1>3. PICK o \in Slots : \E u \in DOMAIN view[o] : Walk(phys, procs[o], u) = f
  BY DEF UserWrite
<1>4. PICK w \in DOMAIN view[o] : Walk(phys, procs[o], w) = f
  BY <1>3
<1> DEFINE x == procs[o]
<1>5. loader.pc \notin BootPcs /\ x \in A /\ x # NoFrame /\ w \in UserPages
  BY <1>1, <1>2, <1>4 DEF SpacesApart, ContentsInv, Spaces
<1>6. MemInv(phys, k, A) /\ phys.used \subseteq 0 .. IdentityEnd - 1
  BY <1>5, MachineUp
<1>7. /\ IsPage(phys, f) /\ f \in phys.used
      /\ \A a \in A, u \in UserPages : Walk(phys, a, u) = f => a = x /\ u = w
  BY <1>1, <1>4, <1>5, <1>6 DEF MemInv, PagesApart
<1>8. c \in PageContents
  BY DEF Written, PageContents
<1>9. Writes(phys, phys', f, c)
  <2>1. phys \in Memories
    BY <1>6, SpaceFacts
  <2> QED BY <1>1, <2>1 DEF Writes, Memories
<1> HIDE DEF f, c, A, k
<1>10. MemInv(phys', k, A) /\ SameWalks(phys, phys', A \cup {k})
  BY <1>6, <1>7, <1>8, <1>9, WritePageInv
<1>11. phys'.used = phys.used /\ phys'.mem[f] = c
       /\ \A g \in Frames : g # f => phys'.mem[g] = phys.mem[g]
  <2>1. phys \in Memories /\ f \in Frames
    BY <1>6, <1>7, SpaceFacts DEF IsPage
  <2> QED BY <1>8, <1>9, <2>1, WritesFields
<1>12. \A a \in A, u \in UserPages :
          /\ Walk(phys', a, u) = Walk(phys, a, u)
          /\ Walk(phys, a, u) # Absent /\ Walk(phys, a, u) # f =>
                phys'.mem[Walk(phys, a, u)] = phys.mem[Walk(phys, a, u)]
  <2>1. \A a \in A, u \in UserPages : Walk(phys, a, u) # Absent => Walk(phys, a, u) \in Frames
    BY <1>6 DEF MemInv, PagesApart, IsPage
  <2> QED BY <1>10, <1>11, <2>1, Layout DEF SameWalks
<1>13. \A t \in Slots : procs[t] # NoFrame => procs[t] \in A
  BY DEF A, Spaces
<1>14. LoaderInv' /\ SpacesApart'
  BY <1>1, <1>2 DEF LoaderInv, SpacesApart
<1>15. ContentsInv'
  <2>1. /\ view' = [t \in Slots |-> view'[t]]
        /\ \A t \in Slots : DOMAIN view'[t] = DOMAIN view[t]
        /\ \A t \in Slots : \A u \in DOMAIN view[t] :
              view'[t][u] = IF Walk(phys, procs[t], u) = f THEN c ELSE view[t][u]
    BY <1>1
  <2>2. ASSUME NEW t \in Slots, NEW u \in DOMAIN view[t]
        PROVE  /\ Walk(phys', procs[t], u) # Absent
               /\ phys'.mem[Walk(phys', procs[t], u)] = view'[t][u]
    <3>1. /\ procs[t] # NoFrame /\ procs[t] \in A /\ u \in UserPages
          /\ Walk(phys, procs[t], u) # Absent
          /\ phys.mem[Walk(phys, procs[t], u)] = view[t][u]
      BY <1>2, <1>13 DEF ContentsInv
    <3>2. CASE Walk(phys, procs[t], u) = f
      BY <1>11, <1>12, <2>1, <3>1, <3>2
    <3>3. CASE Walk(phys, procs[t], u) # f
      BY <1>12, <2>1, <3>1, <3>3
    <3> QED BY <3>2, <3>3
  <2>3. ASSUME NEW u \in Loaded(loader)
        PROVE  /\ Walk(phys', loader.dir, u) # Absent
               /\ phys'.mem[Walk(phys', loader.dir, u)] = ImageContent(loader.img, u)
    <3>1. loader.dir # NoFrame /\ loader.dir \in A /\ u \in UserPages
      BY <1>2, LoadedPages DEF A, Spaces
    <3>2. loader.dir # x
      BY <1>2, <1>5 DEF SpacesApart
    <3>3. Walk(phys, loader.dir, u) # f
      BY <1>7, <3>1, <3>2
    <3> QED BY <1>2, <1>12, <3>1, <3>3 DEF ContentsInv
  <2>4. \A t \in Slots : /\ DOMAIN view'[t] \subseteq UserPages
                         /\ procs[t] = NoFrame => DOMAIN view'[t] = {}
    BY <1>2, <2>1 DEF ContentsInv
  <2>5. \A t \in Slots : \A u \in DOMAIN view'[t] :
            /\ Walk(phys', procs[t], u) # Absent
            /\ phys'.mem[Walk(phys', procs[t], u)] = view'[t][u]
    BY <2>1, <2>2
  <2>6. procs' = procs /\ loader' = loader /\ Loaded(loader') = Loaded(loader)
    BY <1>1
  <2> QED BY <2>1, <2>3, <2>4, <2>5, <2>6 DEF ContentsInv
<1>16. UsedInv'
  BY <1>1, <1>5, <1>6, <1>11 DEF UsedInv, BootPcs
<1>17. MemInv(phys, page_directory, Spaces)'
  <2>1. Spaces' = Spaces
    BY <1>1 DEF Spaces
  <2> QED BY <1>1, <1>10, <2>1 DEF A, k
<1>18. page_directory' \in Frames /\ loader'.pc # "vmm_init"
  BY <1>1, <1>5 DEF MInv, BootPcs
<1> QED BY <1>14, <1>15, <1>16, <1>17, <1>18 DEF MInv, MemInv

\* What the module does not follow changes nothing that it keeps.
LEMMA UserStraysInv ==
    ASSUME MInv, stopped = "no", NEW s \in Slots, UserStrays(s)
    PROVE  MInv'
<1>1. /\ procs[s] # NoFrame /\ stopped' = "program"
      /\ UNCHANGED <<phys, page_directory, loader, header, procs, view, result>>
  BY DEF UserStrays
<1>2. Spaces' = Spaces
  BY <1>1 DEF Spaces
<1>3. MemInv(phys, page_directory, Spaces)' <=> MemInv(phys, page_directory, Spaces)
  BY <1>1, <1>2
<1>4. LoaderInv' /\ SpacesApart' /\ ContentsInv'
  BY <1>1 DEF MInv, LoaderInv, SpacesApart, ContentsInv
<1>5. UsedInv'
  BY <1>1 DEF MInv, UsedInv, Entry
<1>6. Counted(phys)' /\ (AtStart \/ (loader.pc # "vmm_init" /\ MemInv(phys, page_directory, Spaces)))'
  <2>1. AtStart <=> AtStart'
    BY <1>1 DEF AtStart
  <2> QED BY <1>1, <1>3, <2>1 DEF MInv
<1> QED BY <1>1, <1>4, <1>5, <1>6 DEF MInv

\* A program that is gone leaves the others as they were.
LEMMA ProcessGoneInv ==
    ASSUME MInv, stopped = "no", NEW s \in Slots, ProcessGone(s)
    PROVE  MInv'
<1>1. /\ procs[s] # NoFrame
      /\ procs' = [procs EXCEPT ![s] = NoFrame] /\ view' = [view EXCEPT ![s] = <<>>]
      /\ UNCHANGED <<phys, page_directory, loader, header, result, stopped>>
  BY DEF ProcessGone
<1>2. SpacesApart /\ ContentsInv /\ LoaderInv /\ NoFrame \in Frames
  BY SizesAreNat DEF MInv, NoFrame, Frames
<1>3. loader.pc \notin BootPcs
  BY <1>1, <1>2 DEF SpacesApart
<1>4. \A t \in Slots : procs'[t] = IF t = s THEN NoFrame ELSE procs[t]
  BY <1>1, <1>2 DEF SpacesApart
<1>5. LoaderInv'
  BY <1>1, <1>2 DEF LoaderInv
<1>6. SpacesApart'
  BY <1>1, <1>2, <1>4 DEF SpacesApart
<1>7. ContentsInv'
  <2>1. view = [t \in Slots |-> view[t]]
    BY <1>2 DEF ContentsInv
  <2>2. /\ view' = [t \in Slots |-> view'[t]]
        /\ \A t \in Slots : view'[t] = IF t = s THEN <<>> ELSE view[t]
    BY <1>1, <2>1
  <2>3. ASSUME NEW t \in Slots
        PROVE  /\ DOMAIN view'[t] \subseteq UserPages
               /\ procs'[t] = NoFrame => DOMAIN view'[t] = {}
               /\ \A v \in DOMAIN view'[t] :
                    /\ Walk(phys, procs'[t], v) # Absent
                    /\ phys.mem[Walk(phys, procs'[t], v)] = view'[t][v]
    <3>1. CASE t = s
      <4>1. DOMAIN view'[t] = {}
        BY <2>2, <3>1
      <4> QED BY <4>1
    <3>2. CASE t # s
      <4>1. procs'[t] = procs[t] /\ view'[t] = view[t]
        BY <1>4, <2>2, <3>2
      <4> QED BY <1>2, <4>1 DEF ContentsInv
    <3> QED BY <3>1, <3>2
  <2>4. phys' = phys /\ loader' = loader /\ Loaded(loader') = Loaded(loader)
    BY <1>1
  <2> QED BY <1>2, <2>2, <2>3, <2>4 DEF ContentsInv
<1>8. UsedInv'
  BY <1>1, <1>3 DEF MInv, UsedInv, BootPcs
<1>9. MemInv(phys, page_directory, Spaces)'
  <2>1. Spaces' \subseteq Spaces
    BY <1>1, <1>4 DEF Spaces
  <2>2. MemInv(phys, page_directory, Spaces')
    BY <1>3, <2>1, MachineUp, FewerSpaces
  <2> QED BY <1>1, <2>2
<1>10. page_directory' \in Frames /\ loader'.pc # "vmm_init"
  BY <1>1, <1>3 DEF MInv, BootPcs
<1> QED BY <1>5, <1>6, <1>7, <1>8, <1>9, <1>10 DEF MInv, MemInv

-----------------------------------------------------------------------------
(* The boot's steps.                                                       *)

\* The boot's own frames lie in the identity map.
LEMMA BootFits ==
    ReservedEnd + IdentityDirs + 2 < IdentityEnd /\ IdentityEnd < TotalFrames
<1>1. Framebuffer[1] \in Nat /\ Framebuffer[2] \in Nat /\ Framebuffer[1] <= Framebuffer[2]
  BY SizesAssumption, Layout
<1>2. /\ DirOf(Framebuffer[1]) \in Nat /\ DirOf(Framebuffer[2]) \in Nat
      /\ DirOf(Framebuffer[1]) <= DirOf(Framebuffer[2])
  BY <1>1, PageFromIndices, DirOrder
<1>3. ReservedEnd + IdentityDirs + 2 + DirOf(Framebuffer[2]) - DirOf(Framebuffer[1])
          < IdentityEnd /\ IdentityEnd < TotalFrames
  BY SizesAssumption
<1> HIDE DEF DirOf
<1> QED BY <1>2, <1>3, SizesAreNat

\* There is no address space but the kernel's yet, and the memory taken by
\* the tables of the framebuffer stays below the end of the map.
LEMMA AtBoot ==
    ASSUME MInv, stopped = "no", loader.pc = "graphics"
    PROVE  /\ Spaces = {} /\ loader.page \in FramebufferPages
           /\ MemInv(phys, page_directory, {}) /\ Counted(phys)
           /\ loader \in LoaderType /\ loader.dir = NoFrame
           /\ \A s \in Slots : DOMAIN view[s] = {}
<1>1. /\ loader \in LoaderType /\ loader.dir = NoFrame /\ loader.page \in FramebufferPages
      /\ \A s \in Slots : procs[s] = NoFrame
  BY DEF MInv, LoaderInv, SpacesApart, BootPcs
<1>2. Spaces = {}
  BY <1>1 DEF Spaces
<1> QED BY <1>1, <1>2 DEF MInv, AtStart, ContentsInv

\* The end of the boot establishes what holds while the machine is up.
LEMMA BootEnds ==
    ASSUME NEW v \in FramebufferPages
    PROVE  /\ BootEnd(v) \in Nat /\ BootEnd(v) + 2 < IdentityEnd
           /\ v # Framebuffer[2] =>
                /\ v + 1 \in FramebufferPages
                /\ \/ DirOf(v + 1) = DirOf(v) /\ BootEnd(v + 1) = BootEnd(v)
                   \/ BootEnd(v + 1) = BootEnd(v) + 1
<1>1. Framebuffer[1] \in Nat /\ Framebuffer[2] \in Nat /\ v \in Nat /\ v + 1 \in Nat
  <2>1. Pages \subseteq Nat /\ FramebufferPages \subseteq Pages
    BY Layout
  <2>2. Framebuffer[1] \in Pages /\ Framebuffer[2] \in Pages
    BY SizesAssumption
  <2>3. v \in Nat
    BY <2>1
  <2>4. v + 1 \in Nat
    BY <2>3
  <2>5. Framebuffer[1] \in Nat /\ Framebuffer[2] \in Nat
    BY <2>1, <2>2
  <2> QED BY <2>3, <2>4, <2>5
<1>2. Framebuffer[1] <= v /\ v <= Framebuffer[2]
  BY <1>1 DEF FramebufferPages
<1> DEFINE a == DirOf(Framebuffer[1])
           b == DirOf(Framebuffer[2])
           d == DirOf(v)
           e == DirOf(v + 1)
<1>3. a \in Nat /\ b \in Nat /\ d \in Nat /\ e \in Nat /\ a <= d /\ d <= b /\ e \in {d, d + 1}
  BY <1>1, <1>2, DirOrder, PageFromIndices
<1>4. ReservedEnd + IdentityDirs + 2 + b - a < IdentityEnd
  BY SizesAssumption
<1>5. BootEnd(v) = ReservedEnd + IdentityDirs + d - a
      /\ BootEnd(v + 1) = ReservedEnd + IdentityDirs + e - a
  BY DEF BootEnd
<1> HIDE DEF a, b, d, e
<1>6. BootEnd(v) \in Nat /\ BootEnd(v) + 2 < IdentityEnd
  BY <1>3, <1>4, <1>5, SizesAreNat
<1>7. v # Framebuffer[2] => v + 1 \in FramebufferPages
  BY <1>1, <1>2 DEF FramebufferPages
<1>8. (e = d /\ BootEnd(v + 1) = BootEnd(v)) \/ BootEnd(v + 1) = BootEnd(v) + 1
  BY <1>3, <1>5, SizesAreNat
<1> QED BY <1>6, <1>7, <1>8 DEF d, e

\* Boot is over, or goes on with the next page.
LEMMA BootStepInv ==
    ASSUME MInv, stopped = "no", loader.pc = "graphics",
           MemInv(phys', page_directory, {}),
           UNCHANGED <<page_directory, header, procs, view, result, stopped>>,
           UsedInv',
           \/ loader' = Idle
           \/ /\ loader' = [loader EXCEPT !.page = loader.page + 1]
              /\ loader.page + 1 \in FramebufferPages
    PROVE  MInv'
<1>1. /\ loader' \in LoaderType /\ loader'.dir = NoFrame
      /\ loader'.pc \in {"idle", "graphics"}
      /\ loader'.pc = "graphics" => loader'.page \in FramebufferPages
  <2>1. CASE loader' = Idle
    BY <2>1, SizesAreNat DEF Idle, At, LoaderType, Frames, NoFrame
  <2>2. CASE /\ loader' = [loader EXCEPT !.page = loader.page + 1]
             /\ loader.page + 1 \in FramebufferPages
    <3>1. loader \in LoaderType /\ loader.dir = NoFrame
      BY AtBoot
    <3>2. loader.page + 1 \in Nat
      BY <2>2, Layout
    <3> QED BY <2>2, <3>1, <3>2 DEF LoaderType
  <2> QED BY <2>1, <2>2
<1>2. LoaderInv'
  BY <1>1 DEF MInv, LoaderInv, LoadPcs
<1>3. SpacesApart'
  BY <1>1 DEF MInv, SpacesApart, BootPcs
<1>4. Spaces' = {}
  <2>1. \A s \in Slots : procs[s] = NoFrame
    BY DEF MInv, SpacesApart, BootPcs
  <2> QED BY <1>1, <2>1 DEF Spaces
<1>5. ContentsInv'
  <2>1. Loaded(loader') = {}
    BY <1>1 DEF Loaded
  <2>2. view = [s \in Slots |-> view[s]]
    BY DEF MInv, ContentsInv
  <2> QED BY <2>1, <2>2, AtBoot DEF ContentsInv
<1>6. MemInv(phys, page_directory, Spaces)'
  BY <1>4
<1>7. page_directory' \in Frames
  BY DEF MInv
<1> QED BY <1>1, <1>2, <1>3, <1>5, <1>6, <1>7 DEF MInv, MemInv

\* Going on in text mode keeps the invariant.
LEMMA NoGraphicsInv ==
    ASSUME MInv, stopped = "no", NoGraphics
    PROVE  MInv'
<1>1. /\ loader.pc = "graphics" /\ loader.page = Framebuffer[1] /\ loader' = Idle
      /\ UNCHANGED <<phys, page_directory, header, procs, view, result, stopped>>
  BY DEF NoGraphics
<1>2. MemInv(phys', page_directory, {})
  BY <1>1, AtBoot
<1>3. phys.used \subseteq 0 .. IdentityEnd - 1
  <2>1. BootEnd(loader.page) \in Nat /\ BootEnd(loader.page) + 2 < IdentityEnd
    BY <1>1, AtBoot, BootEnds
  <2>2. phys.used \subseteq 0 .. BootEnd(loader.page) + 0
        \/ phys.used \subseteq 0 .. BootEnd(loader.page) + 1
    BY <1>1 DEF MInv, UsedInv
  <2> HIDE DEF BootEnd
  <2> QED BY <2>1, <2>2, SizesAreNat
<1>4. UsedInv'
  BY <1>1, <1>3 DEF UsedInv, Idle, At
<1> QED BY <1>1, <1>2, <1>4, BootStepInv

\* One page of the framebuffer, and a table if it is the first in one.
LEMMA MapFramebufferInv ==
    ASSUME MInv, stopped = "no", MapFramebuffer
    PROVE  MInv'
<1> DEFINE v == loader.page
           k == page_directory
           d == DirOf(v)
<1>1. /\ loader.pc = "graphics" /\ phys' = MapPage(phys, k, v, v)
      /\ loader' = IF v = Framebuffer[2] THEN Idle ELSE [loader EXCEPT !.page = v + 1]
      /\ UNCHANGED <<page_directory, header, procs, view, result, stopped>>
  BY DEF MapFramebuffer
<1>2. v \in FramebufferPages /\ MemInv(phys, k, {}) /\ Counted(phys)
  BY <1>1, AtBoot
<1>3. BootEnd(v) \in Nat /\ BootEnd(v) + 2 < IdentityEnd
  BY <1>2, BootEnds
<1>4. phys.used \subseteq 0 .. BootEnd(v) + (IF Entry(phys, k, v) = Absent THEN 0 ELSE 1)
  BY <1>1 DEF MInv, UsedInv
<1>5. d \in KernelDirs /\ d \in DirEntries
  BY <1>2, Layout
<1>6. /\ MemInv(phys', k, {}) /\ Entry(phys', k, v) # Absent
      /\ phys'.used \subseteq 0 .. BootEnd(v) + 1
  <2>1. ASSUME NEW o, MemInv(o, k, {}), o.mem[k].dir[d] # Absent
        PROVE  /\ MemInv(SetEntry(o, k, v, v), k, {})
               /\ SetEntry(o, k, v, v).used = o.used
               /\ Entry(SetEntry(o, k, v, v), k, v) # Absent
    <3> DEFINE n == SetEntry(o, k, v, v)
               t == o.mem[k].dir[DirOf(v)]
    <3>1. o \in Memories /\ IsTable(o, t) /\ IsDir(o, k)
      BY <1>5, <2>1, SpaceFacts
    <3>2. Maps(o, n, o.mem[k].dir[DirOf(v)], IndexOf(v), v)
      BY <3>1 DEF Maps, SetEntry, Entry, Memories
    <3> HIDE DEF n
    <3>3. MemInv(n, k, {}) /\ OneWalk(o, n, {} \cup {k}, k, v, v)
      BY <1>2, <2>1, <3>2, MapKernelInv
    <3>4. n.mem[k] = o.mem[k]
      <4>1. k # t /\ k \in Frames
        BY <3>1, KindsApart DEF IsDir
      <4>2. IndexOf(v) \in TableEntries /\ v \in Int
        <5>1. v \in Pages /\ Pages \subseteq Nat
          BY <1>2, Layout
        <5>2. IndexOf(v) \in TableEntries
          BY <5>1, Layout
        <5>3. v \in Nat
          BY <5>1
        <5> QED BY <5>2, <5>3
      <4> HIDE DEF t, k, v
      <4>3. \A g \in Frames : g # t => n.mem[g] = o.mem[g]
        BY <3>1, <3>2, <4>2, MapsFields DEF t
      <4> QED BY <4>1, <4>3
    <3> QED BY <2>1, <3>3, <3>4 DEF OneWalk, Entry, n
  <2>2. CASE Entry(phys, k, v) # Absent
    <3>1. phys' = SetEntry(phys, k, v, v) /\ phys.mem[k].dir[d] # Absent
      BY <1>1, <2>2 DEF MapPage, Entry
    <3> QED BY <1>2, <1>4, <2>1, <2>2, <3>1
  <2>3. CASE Entry(phys, k, v) = Absent
    <3> DEFINE t == NextFrame(phys)
               a == Allocated(phys)
               o == NewTable(phys, k, v)
    <3>1. phys.used \subseteq 0 .. BootEnd(v) /\ phys.used \subseteq 0 .. IdentityEnd - 1
      BY <1>3, <1>4, <2>3, SizesAreNat
    <3>2. t # NoFrame /\ Takes(phys, a, t)
      BY <1>2, <3>1, NextBelow, AllocatedTakes
    <3>3. t <= BootEnd(v) + 1 /\ t \in Nat
      <4>1. BootEnd(v) + 1 \in Frames /\ BootEnd(v) + 1 \notin phys.used
        BY <1>3, <3>1, SizesAssumption, SizesAreNat DEF Frames
      <4>2. t \in Nat
        BY <3>2, SizesAreNat DEF Takes, Frames
      <4> HIDE DEF t, v
      <4> QED BY <1>3, <3>2, <4>1, <4>2 DEF Takes
    <3>4. Tables(a, o, k, d, t)
      <4>1. phys \in Memories
        BY <1>2, SpaceFacts
      <4> QED BY <4>1 DEF NewTable, Tables, Allocated, Memories
    <3>5. MayMap(k, {}, k, d) /\ phys.mem[k].dir[d] = Absent
      BY <1>5, <2>3 DEF MayMap, Entry
    <3>6. phys' = SetEntry(o, k, v, v)
      BY <1>1, <2>3, <3>2 DEF MapPage
    <3> HIDE DEF a, o, t, k, d, v
    <3>7. MemInv(o, k, {}) /\ Tabled(phys, o, k, d, t)
      BY <1>2, <3>2, <3>4, <3>5, NewTableInv
    <3>8. o.mem[k].dir[d] # Absent /\ o.used = phys.used \cup {t}
      BY <3>3, <3>7 DEF Tabled, Absent
    <3>9. o.used \subseteq 0 .. BootEnd(v) + 1
      BY <1>3, <3>1, <3>3, <3>8
    <3> QED BY <2>1, <3>6, <3>7, <3>8, <3>9
  <2> QED BY <2>2, <2>3
<1>7. UsedInv'
  <2>1. CASE v = Framebuffer[2]
    <3>1. loader'.pc = "idle"
      BY <1>1, <2>1 DEF Idle, At
    <3>2. phys'.used \subseteq 0 .. IdentityEnd - 1
      BY <1>3, <1>6, SizesAreNat
    <3> QED BY <1>1, <3>1, <3>2 DEF UsedInv
  <2>2. CASE v # Framebuffer[2]
    <3>1. loader'.pc = "graphics" /\ loader'.page = v + 1
      BY <1>1, <2>2, AtBoot DEF LoaderType
    <3>2. \/ DirOf(v + 1) = DirOf(v) /\ BootEnd(v + 1) = BootEnd(v)
          \/ BootEnd(v + 1) = BootEnd(v) + 1
      BY <1>2, <2>2, BootEnds
    <3>3. CASE DirOf(v + 1) = DirOf(v) /\ BootEnd(v + 1) = BootEnd(v)
      <4>1. Entry(phys', k, v + 1) = Entry(phys', k, v)
        BY <3>3 DEF Entry
      <4> QED BY <1>1, <1>6, <3>1, <3>3, <4>1 DEF UsedInv
    <3>4. CASE BootEnd(v + 1) = BootEnd(v) + 1
      <4>1. 0 .. BootEnd(v) + 1 \subseteq 0 .. BootEnd(v + 1) + 0
            /\ 0 .. BootEnd(v) + 1 \subseteq 0 .. BootEnd(v + 1) + 1
        BY <1>3, <3>4
      <4> QED BY <1>1, <1>6, <3>1, <4>1 DEF UsedInv
    <3> QED BY <3>2, <3>3, <3>4
  <2> QED BY <2>1, <2>2
<1>8. \/ loader' = Idle
      \/ loader' = [loader EXCEPT !.page = loader.page + 1] /\ loader.page + 1 \in FramebufferPages
  BY <1>1, <1>2, BootEnds
<1> QED BY <1>1, <1>6, <1>7, <1>8, BootStepInv

\* The map vmm_init builds.
LEMMA IdentityMapInv ==
    ASSUME NEW m, NEW d, d = ReservedEnd,
           m = [used |-> (0 .. ReservedEnd - 1) \cup (d .. d + IdentityDirs),
                count |-> ReservedEnd + 1 + IdentityDirs,
                mem |-> IdentityMap(d)]
    PROVE  /\ MemInv(m, d, {}) /\ m.used = 0 .. ReservedEnd + IdentityDirs
           /\ \A v \in FramebufferPages : Entry(m, d, v) = Absent
<1> USE SizesAreNat
<1>1. /\ d \in Frames /\ d \in Nat /\ d + IdentityDirs \in Frames
      /\ d .. d + IdentityDirs \subseteq Frames
  BY BootFits DEF Frames
<1> DEFINE r == [dir |-> [i \in DirEntries |-> IF i < IdentityDirs THEN d + 1 + i ELSE Absent]]
           T(f) == [table |-> [i \in TableEntries |-> (f - d - 1) * TableSize + i]]
<1>2. /\ m.used = 0 .. ReservedEnd + IdentityDirs /\ m.count = ReservedEnd + 1 + IdentityDirs
      /\ m.mem = IdentityMap(d)
  <2>1. (0 .. ReservedEnd - 1) \cup (d .. d + IdentityDirs) = 0 .. ReservedEnd + IdentityDirs
    BY <1>1
  <2> QED BY <2>1
<1>3. /\ m.mem[d] = r
      /\ \A f \in d + 1 .. d + IdentityDirs : m.mem[f] = T(f)
      /\ \A f \in Frames \ (d .. d + IdentityDirs) : m.mem[f] = Garbage
  <2>1. d \notin d + 1 .. d + IdentityDirs /\ d + 1 .. d + IdentityDirs \subseteq Frames
        /\ d + 1 .. d + IdentityDirs \subseteq d .. d + IdentityDirs
    BY <1>1
  <2>2. m.mem[d] = r
    BY <1>1, <1>2 DEF IdentityMap, DirEntries
  <2>3. \A f \in d + 1 .. d + IdentityDirs : m.mem[f] = T(f)
    <3> SUFFICES ASSUME NEW f \in d + 1 .. d + IdentityDirs PROVE m.mem[f] = T(f)
      OBVIOUS
    <3>1. f \in Frames /\ f # d
      BY <2>1
    <3> QED BY <1>2, <3>1 DEF IdentityMap, TableEntries
  <2>4. \A f \in Frames \ (d .. d + IdentityDirs) : m.mem[f] = Garbage
    <3> SUFFICES ASSUME NEW f \in Frames \ (d .. d + IdentityDirs) PROVE m.mem[f] = Garbage
      OBVIOUS
    <3>1. f # d /\ f \notin d + 1 .. d + IdentityDirs
      BY <1>1, <2>1
    <3> QED BY <1>2, <3>1 DEF IdentityMap
  <2> QED BY <2>2, <2>3, <2>4
<1>4. /\ r \in DirContents /\ Garbage \in PageContents
      /\ \A f \in d + 1 .. d + IdentityDirs : T(f) \in TableContents
  <2>1. r \in DirContents
    <3>1. \A i \in DirEntries : (IF i < IdentityDirs THEN d + 1 + i ELSE Absent) \in Int
      BY <1>1 DEF DirEntries, Absent
    <3> HIDE DEF Absent
    <3> QED BY <3>1 DEF DirContents
  <2>2. Garbage \in PageContents
    BY DEF Garbage, PageContents
  <2>3. ASSUME NEW f \in d + 1 .. d + IdentityDirs PROVE T(f) \in TableContents
    <3>1. \A i \in TableEntries : (f - d - 1) * TableSize + i \in Int
      BY <1>1 DEF TableEntries
    <3> QED BY <3>1 DEF TableContents
  <2> QED BY <2>1, <2>2, <2>3
<1>5. \A f \in Frames : f = d \/ f \in d + 1 .. d + IdentityDirs
                        \/ f \in Frames \ (d .. d + IdentityDirs)
  BY <1>1 DEF Frames
<1>6. m.mem \in Mem
  <2>1. \A f \in Frames : IdentityMap(d)[f] \in DirContents \cup TableContents \cup PageContents
    <3> HIDE DEF r, T
    <3> QED BY <1>2, <1>3, <1>4, <1>5
  <2>2. IdentityMap(d) = [f \in Frames |-> IdentityMap(d)[f]]
    BY DEF IdentityMap
  <2> QED BY <1>2, <2>1, <2>2, Zenon DEF Mem
<1>7. Counted(m)
  <2>1. Cardinality(0 .. ReservedEnd + IdentityDirs) = ReservedEnd + IdentityDirs + 1
    BY FS_Interval
  <2>2. m.used \subseteq Frames
    BY <1>1, <1>2 DEF Frames
  <2>3. m \in Memories
    <3>1. m = [used |-> m.used, count |-> m.count, mem |-> m.mem]
      OBVIOUS
    <3>2. m.count \in Nat
      BY <1>2
    <3> QED BY <1>6, <2>2, <3>1, <3>2 DEF Memories
  <2>4. \A f \in Frames \ m.used : IsPage(m, f)
    <3>1. \A f \in Frames \ m.used : f \in Frames \ (d .. d + IdentityDirs)
      BY <1>1, <1>2 DEF Frames
    <3> QED BY <1>3, <1>4, <3>1 DEF IsPage
  <2>5. NoFrame \in m.used
    BY <1>2 DEF NoFrame
  <2>6. m.count = Cardinality(m.used)
    <3>1. m.used = 0 .. ReservedEnd + IdentityDirs
      BY <1>2
    <3>2. Cardinality(m.used) = ReservedEnd + IdentityDirs + 1
      BY <2>1, <3>1, Zenon
    <3>3. m.count = ReservedEnd + 1 + IdentityDirs
      BY <1>2
    <3> QED BY <3>2, <3>3
  <2> QED BY <2>3, <2>4, <2>5, <2>6 DEF Counted
<1>8. /\ IsDir(m, d) /\ d \in m.used
      /\ \A i \in DirEntries : m.mem[d].dir[i] = IF i < IdentityDirs THEN d + 1 + i ELSE Absent
  BY <1>1, <1>2, <1>3, <1>4 DEF IsDir
<1> HIDE DEF r
<1>9. KernelShared(m, d, {})
  <2>1. \A i \in DirEntries \ KernelDirs : ~(i < IdentityDirs)
    BY DEF DirEntries, KernelDirs
  <2> QED BY <1>8, <2>1 DEF KernelShared
<1>10. \A i \in DirEntries : i < IdentityDirs =>
            d + 1 + i \in d + 1 .. d + IdentityDirs /\ d + 1 + i # Absent
  BY <1>1 DEF DirEntries, Absent
<1>11. TablesApart(m, d, {})
  <2>1. \A f \in d + 1 .. d + IdentityDirs : f \in m.used /\ IsTable(m, f)
    <3>1. \A f \in d + 1 .. d + IdentityDirs : f \in m.used /\ f \in Frames
      BY <1>1, <1>2 DEF Frames
    <3> QED BY <1>3, <1>4, <3>1 DEF IsTable
  <2>2. \A i \in DirEntries : m.mem[d].dir[i] # Absent =>
            i < IdentityDirs /\ m.mem[d].dir[i] = d + 1 + i
    BY <1>8
  <2>3. \A i, j \in DirEntries : d + 1 + i = d + 1 + j => i = j
    BY <1>1 DEF DirEntries
  <2>4. \A i \in DirEntries : m.mem[d].dir[i] # Absent =>
            m.mem[d].dir[i] \in m.used /\ IsTable(m, m.mem[d].dir[i])
    BY <1>10, <2>1, <2>2
  <2>5. \A i, j \in DirEntries :
            m.mem[d].dir[i] = m.mem[d].dir[j] /\ m.mem[d].dir[i] # Absent => i = j
    BY <2>2, <2>3
  <2>6. \A x \in {} \cup {d} : x = d
    OBVIOUS
  <2>7. \A x \in {} \cup {d}, i \in DirEntries : m.mem[x].dir[i] # Absent =>
            m.mem[x].dir[i] \in m.used /\ IsTable(m, m.mem[x].dir[i])
    BY <2>4, <2>6
  <2>8. \A x, y \in {} \cup {d}, i, j \in DirEntries :
            m.mem[x].dir[i] = m.mem[y].dir[j] /\ m.mem[x].dir[i] # Absent => x = y /\ i = j
    BY <2>5, <2>6
  <2>9. \A x, y \in {} \cup {d}, i, j \in DirEntries :
            /\ Owns(d, x, i) /\ Owns(d, y, j)
            /\ m.mem[x].dir[i] = m.mem[y].dir[j] /\ m.mem[x].dir[i] # Absent
            => x = y /\ i = j
    BY <2>8
  <2> QED BY <2>7, <2>9, Zenon DEF TablesApart
<1>12. ASSUME NEW v \in Pages
       PROVE  Walk(m, d, v) = IF v < IdentityEnd THEN v ELSE Absent
  <2>1. /\ v \in Nat /\ DirOf(v) \in DirEntries /\ IndexOf(v) \in TableEntries
        /\ DirOf(v) \in Nat /\ DirOf(v) * TableSize + IndexOf(v) = v
        /\ v < IdentityEnd <=> DirOf(v) < IdentityDirs
    BY Layout, PageFromIndices, PageDirs
  <2>2. CASE DirOf(v) < IdentityDirs
    <3> DEFINE f == d + 1 + DirOf(v)
    <3>1. Entry(m, d, v) = f /\ f # Absent /\ f \in d + 1 .. d + IdentityDirs
      BY <1>8, <1>10, <2>1, <2>2 DEF Entry
    <3>2. Walk(m, d, v) = (f - d - 1) * TableSize + IndexOf(v)
      <4> HIDE DEF f
      <4>1. m.mem[f].table[IndexOf(v)] = (f - d - 1) * TableSize + IndexOf(v)
        <5>1. m.mem[f] = T(f)
          BY <1>3, <3>1
        <5> QED BY <2>1, <5>1
      <4> QED BY <3>1, <4>1 DEF Walk
    <3>3. f - d - 1 = DirOf(v)
      <4> HIDE DEF DirOf
      <4> QED BY <1>1, <2>1
    <3> QED BY <2>1, <2>2, <3>2, <3>3
  <2>3. CASE ~(DirOf(v) < IdentityDirs)
    BY <1>8, <2>1, <2>3 DEF Walk, Entry
  <2> QED BY <2>2, <2>3
<1>13. IdentityMapped(m, d)
  <2>1. 0 .. IdentityEnd - 1 \subseteq Pages /\ \A v \in 0 .. IdentityEnd - 1 : v < IdentityEnd
    BY Layout
  <2> QED BY <1>12, <2>1 DEF IdentityMapped
<1>14. PagesApart(m, {})
  BY DEF PagesApart
<1>15. \A v \in FramebufferPages : Entry(m, d, v) = Absent
  <2>1. \A v \in FramebufferPages : DirOf(v) \in DirEntries /\ ~(DirOf(v) < IdentityDirs)
    BY Layout DEF DirEntries
  <2> QED BY <1>8, <2>1 DEF Entry
<1> QED BY <1>2, <1>7, <1>9, <1>11, <1>13, <1>14, <1>15 DEF MemInv

\* vmm_init builds the identity map and its tables and keeps the invariant.
LEMMA VmmInitInv ==
    ASSUME MInv, stopped = "no", VmmInit
    PROVE  MInv'
<1> DEFINE d == NextFrame(phys)
           m == [used |-> phys.used \cup (d .. d + IdentityDirs),
                 count |-> phys.count + 1 + IdentityDirs,
                 mem |-> IdentityMap(d)]
<1>1. /\ loader.pc = "vmm_init" /\ phys' = m /\ page_directory' = d
      /\ loader' = [loader EXCEPT !.pc = "graphics", !.page = Framebuffer[1]]
      /\ UNCHANGED <<header, procs, view, result, stopped>>
  BY DEF VmmInit
<1>2. phys.used = 0 .. ReservedEnd - 1 /\ phys.count = ReservedEnd
  BY <1>1 DEF MInv, AtStart
<1>3. d = ReservedEnd /\ ReservedEnd \in Frames
  <2>1. ReservedEnd \in Frames
    BY BootFits, SizesAreNat DEF Frames
  <2>2. FreeFrames(phys) = ReservedEnd .. TotalFrames - 1
    BY <1>2, SizesAreNat DEF FreeFrames, Frames
  <2>3. ReservedEnd \in FreeFrames(phys) /\ \A g \in FreeFrames(phys) : ReservedEnd <= g
    BY <2>1, <2>2, SizesAreNat DEF Frames
  <2>4. d = CHOOSE f \in FreeFrames(phys) : \A g \in FreeFrames(phys) : f <= g
    BY <2>3 DEF NextFrame
  <2>5. \A f \in FreeFrames(phys) : f \in Nat
    BY SizesAreNat DEF FreeFrames, Frames
  <2> HIDE DEF d
  <2>6. d \in FreeFrames(phys) /\ d <= ReservedEnd
    BY <2>3, <2>4
  <2> QED BY <2>1, <2>3, <2>5, <2>6, SizesAreNat
<1>4. /\ MemInv(m, d, {}) /\ m.used = 0 .. ReservedEnd + IdentityDirs
      /\ \A v \in FramebufferPages : Entry(m, d, v) = Absent
  <2> HIDE DEF d
  <2> QED BY <1>2, <1>3, IdentityMapInv
<1> HIDE DEF m, d
<1>5. /\ Framebuffer[1] \in FramebufferPages /\ Framebuffer[1] \in Nat
      /\ BootEnd(Framebuffer[1]) = ReservedEnd + IdentityDirs
  <2>1. Framebuffer[1] \in Nat /\ Framebuffer[1] <= Framebuffer[2] /\ Framebuffer[2] \in Nat
    BY SizesAssumption, Layout
  <2>2. DirOf(Framebuffer[1]) \in Nat
    BY <2>1, PageFromIndices
  <2> QED BY <2>1, <2>2, SizesAreNat DEF FramebufferPages, BootEnd
<1>6. loader \in LoaderType /\ loader.dir = NoFrame /\ \A s \in Slots : procs[s] = NoFrame
  BY <1>1 DEF MInv, LoaderInv, SpacesApart, BootPcs
<1>7. /\ loader' \in LoaderType /\ loader'.pc = "graphics" /\ loader'.dir = NoFrame
      /\ loader'.page = Framebuffer[1]
  BY <1>1, <1>5, <1>6 DEF LoaderType, BootPcs
<1>8. LoaderInv'
  BY <1>1, <1>5, <1>7 DEF MInv, LoaderInv, LoadPcs
<1>9. SpacesApart'
  BY <1>1, <1>6, <1>7 DEF MInv, SpacesApart
<1>10. ContentsInv'
  <2>1. Loaded(loader') = {}
    BY <1>7 DEF Loaded
  <2>2. view = [s \in Slots |-> view[s]] /\ \A s \in Slots : DOMAIN view[s] = {}
    BY <1>6 DEF MInv, ContentsInv
  <2> QED BY <1>1, <2>1, <2>2 DEF ContentsInv
<1>11. UsedInv'
  <2>1. Entry(phys', page_directory', loader'.page) = Absent
    BY <1>1, <1>4, <1>5, <1>7
  <2>2. phys'.used \subseteq 0 .. BootEnd(loader'.page) + 0
    BY <1>1, <1>4, <1>5, <1>7, SizesAreNat
  <2> QED BY <1>1, <1>7, <2>1, <2>2 DEF UsedInv
<1>12. Spaces' = {}
  BY <1>1, <1>6, <1>7 DEF Spaces
<1>13. MemInv(phys, page_directory, Spaces)'
  BY <1>1, <1>4, <1>12
<1>14. page_directory' \in Frames
  BY <1>1, <1>3
<1> QED BY <1>7, <1>8, <1>9, <1>10, <1>11, <1>13, <1>14 DEF MInv, MemInv

-----------------------------------------------------------------------------
(* The invariant holds of every run.                                       *)

\* pmm_init starts in the invariant.
LEMMA MInitMInv == MInit => MInv
<1> SUFFICES ASSUME MInit PROVE MInv
  OBVIOUS
<1>1. /\ phys = [used |-> 0 .. ReservedEnd - 1, count |-> ReservedEnd,
                 mem |-> [f \in Frames |-> Garbage]]
      /\ page_directory = NoFrame /\ loader = At("vmm_init", <<>>, NoFrame, 1, 0)
      /\ header = FALSE /\ procs = [s \in Slots |-> NoFrame]
      /\ view = [s \in Slots |-> <<>>] /\ result = 0 /\ stopped = "no"
  BY DEF MInit
<1>2. NoFrame \in Frames /\ 0 .. ReservedEnd - 1 \subseteq Frames
  BY BootFits, SizesAreNat DEF Frames, NoFrame
<1>3. /\ loader.pc = "vmm_init" /\ loader.img = <<>> /\ loader.dir = NoFrame
      /\ loader \in LoaderType
  BY <1>1, <1>2 DEF At, LoaderType, BootPcs
<1>4. LoaderInv
  <2>1. 0 \in -12 .. 0
    OBVIOUS
  <2> QED BY <1>1, <1>3, <2>1 DEF LoaderInv, LoadPcs
<1>5. SpacesApart
  BY <1>1, <1>2, <1>3 DEF SpacesApart
<1>6. ContentsInv
  <2>1. Loaded(loader) = {}
    BY <1>3 DEF Loaded
  <2>2. \A s \in Slots : DOMAIN view[s] = {}
    BY <1>1
  <2> QED BY <1>1, <2>1, <2>2 DEF ContentsInv
<1>7. UsedInv
  <2>1. 0 .. ReservedEnd - 1 \subseteq 0 .. IdentityEnd - 1
    BY BootFits, SizesAreNat
  <2> QED BY <1>1, <1>3, <2>1 DEF UsedInv
<1>8. Counted(phys)
  <2>1. Cardinality(0 .. ReservedEnd - 1) = ReservedEnd
    <3>1. 0 \in Int /\ ReservedEnd - 1 \in Int /\ ~(0 > ReservedEnd - 1)
      BY SizesAreNat
    <3>2. Cardinality(0 .. ReservedEnd - 1) = ReservedEnd - 1 - 0 + 1
      BY <3>1, FS_Interval
    <3> QED BY <3>2, SizesAreNat
  <2>2. Garbage \in PageContents
    BY DEF Garbage, PageContents
  <2>3. phys \in Memories
    BY <1>1, <1>2, <2>2, SizesAreNat DEF Memories, Mem
  <2>4. \A f \in Frames : IsPage(phys, f)
    BY <1>1, <2>2 DEF IsPage
  <2>5. NoFrame \in phys.used
    BY <1>1, SizesAreNat DEF NoFrame
  <2>6. phys.count = Cardinality(phys.used)
    BY <1>1, <2>1
  <2> QED BY <2>3, <2>4, <2>5, <2>6 DEF Counted
<1>9. AtStart
  BY <1>1, <1>3 DEF AtStart
<1> QED BY <1>1, <1>2, <1>4, <1>5, <1>6, <1>7, <1>8, <1>9 DEF MInv

\* Every step of the memory's users keeps the invariant.
LEMMA MNextMInv ==
    ASSUME MInv, [MNext]_mvars
    PROVE  MInv'
<1>1. CASE UNCHANGED mvars
  BY <1>1 DEF mvars, MInv, LoaderInv, SpacesApart, ContentsInv, UsedInv, AtStart, Spaces, Entry
<1>2. CASE stopped = "no" /\ VmmInit
  BY <1>2, VmmInitInv
<1>3. CASE stopped = "no" /\ NoGraphics
  BY <1>3, NoGraphicsInv
<1>4. CASE stopped = "no" /\ MapFramebuffer
  BY <1>4, MapFramebufferInv
<1>5. CASE stopped = "no" /\ \E img \in Images : OpenFile(img)
  BY <1>5, OpenFileInv
<1>6. CASE stopped = "no" /\ CheckFile
  BY <1>6, CheckFileInv
<1>7. CASE stopped = "no" /\ CreateSpace
  BY <1>7, CreateSpaceInv
<1>8. CASE stopped = "no" /\ LoadPage
  BY <1>8, LoadPageInv
<1>9. CASE stopped = "no" /\ LoadStack
  BY <1>9, LoadStackInv
<1>10. CASE stopped = "no" /\ \E s \in Slots : Start(s)
  BY <1>10, StartInv
<1>11. CASE stopped = "no" /\ \E s \in Slots : ProcessGone(s)
  BY <1>11, ProcessGoneInv
<1>12. CASE stopped = "no" /\ StartFails
  BY <1>12, StartFailsInv
<1>13. CASE stopped = "no" /\ \E s \in Slots, v \in Pages : UserWrite(s, v)
  BY <1>13, UserWriteInv
<1>14. CASE stopped = "no" /\ \E s \in Slots : UserStrays(s)
  BY <1>14, UserStraysInv
<1>15. CASE Halted
  BY <1>1, <1>15 DEF Halted
<1> QED BY <1>1, <1>2, <1>3, <1>4, <1>5, <1>6, <1>7, <1>8, <1>9, <1>10, <1>11, <1>12, <1>13, <1>14,
           <1>15 DEF MNext, Running

\* Frames, tables, pages and spaces are kept apart in every run.
THEOREM MemoryInvariance == MSpec => []MInv
<1>1. MInit => MInv
  BY MInitMInv
<1>2. MInv /\ [MNext]_mvars => MInv'
  BY MNextMInv
<1> QED BY <1>1, <1>2, PTL DEF MSpec

\* Types, the count of used frames (pmm_used), and no copy of a file left
\* behind by a loader at rest.
THEOREM MemoryTypeCorrect == MSpec => []MTypeOK
<1>1. MInv => MTypeOK
  <2> SUFFICES ASSUME MInv PROVE MTypeOK
    OBVIOUS
  <2>1. phys.used \subseteq Frames /\ phys.count = Cardinality(phys.used)
    BY DEF MInv, Counted, Memories
  <2>2. LoaderInv /\ SpacesApart /\ page_directory \in Frames
    BY DEF MInv
  <2> QED BY <2>1, <2>2 DEF MTypeOK, LoaderInv, LoaderType, SpacesApart, BootPcs, LoadPcs
<1> QED BY <1>1, MemoryInvariance, PTL

\* The kernel finds its memory and the framebuffer alike in every address
\* space, so that interrupts and system calls can run in any.
THEOREM KernelSafety == MSpec => []KernelSeenByAll
<1>1. MInv => KernelSeenByAll
  <2> SUFFICES ASSUME MInv, Booted PROVE KernelSeenByAll
    BY DEF KernelSeenByAll
  <2>1. MemInv(phys, page_directory, Spaces)
    BY DEF MInv, AtStart, Booted
  <2>2. Directories \subseteq Spaces \cup {page_directory}
    BY DEF Directories, Spaces
  <2>3. ASSUME NEW d \in Directories, NEW v \in Pages, DirOf(v) \in KernelDirs
        PROVE  Walk(phys, d, v) = Walk(phys, page_directory, v)
    BY <2>1, <2>2, <2>3, SpaceFacts DEF Walk, Entry
  <2>4. ASSUME NEW d \in Directories, NEW f \in 0 .. IdentityEnd - 1
        PROVE  Walk(phys, d, f) = f
    <3>1. f \in Pages /\ DirOf(f) \in KernelDirs
      BY Layout, SizesAreNat DEF KernelDirs
    <3>2. Walk(phys, page_directory, f) = f
      BY <2>1 DEF MemInv, IdentityMapped
    <3> QED BY <2>3, <3>1, <3>2
  <2>5. ASSUME NEW d \in Directories, NEW v \in Framebuffer[1] .. Framebuffer[2]
        PROVE  Walk(phys, d, v) = Walk(phys, page_directory, v)
    <3>1. v \in Pages /\ DirOf(v) \in KernelDirs
      BY Layout DEF FramebufferPages
    <3> QED BY <2>3, <3>1
  <2> QED BY <2>4, <2>5 DEF KernelSeenByAll
<1> QED BY <1>1, MemoryInvariance, PTL

\* The kernel never changes, and never maps for another, a page of a program
\* that it has started, whatever it loads, fails to load or clears away.
THEOREM KeptByKernelSafety == MSpec => []KeptByKernel
<1>1. MInv => KeptByKernel
  <2> SUFFICES ASSUME MInv, NEW s \in Slots, NEW v \in Pages, v \in DOMAIN view[s]
               PROVE  /\ Walk(phys, procs[s], v) \in phys.used
                      /\ phys.mem[Walk(phys, procs[s], v)] = view[s][v]
                      /\ \A t \in Slots : \A u \in DOMAIN view[t] :
                            Walk(phys, procs[t], u) = Walk(phys, procs[s], v) => t = s /\ u = v
    BY DEF KeptByKernel
  <2>1. \A t \in Slots : \A u \in DOMAIN view[t] :
            /\ procs[t] # NoFrame /\ procs[t] \in Spaces
            /\ u \in UserPages /\ Walk(phys, procs[t], u) # Absent
    BY DEF MInv, ContentsInv, Spaces
  <2>2. phys.mem[Walk(phys, procs[s], v)] = view[s][v]
    BY DEF MInv, ContentsInv
  <2>3. MemInv(phys, page_directory, Spaces)
    BY <2>1 DEF MInv, AtStart, SpacesApart, BootPcs
  <2>4. \A t \in Slots : \A u \in DOMAIN view[t] :
            Walk(phys, procs[t], u) = Walk(phys, procs[s], v) => procs[t] = procs[s] /\ u = v
    BY <2>1, <2>3 DEF MemInv, PagesApart
  <2>5. \A t \in Slots : procs[t] = procs[s] => t = s
    BY <2>1 DEF MInv, SpacesApart
  <2> QED BY <2>1, <2>2, <2>3, <2>4, <2>5 DEF MemInv, PagesApart
<1> QED BY <1>1, MemoryInvariance, PTL

\* The loader stops the machine only when all of the mapped memory is taken.
THEOREM PanicSafety == MSpec => []PanicOnlyPastMap
<1>1. MInv => PanicOnlyPastMap
  BY DEF MInv, UsedInv, PanicOnlyPastMap
<1> QED BY <1>1, MemoryInvariance, PTL
===============================================================================
