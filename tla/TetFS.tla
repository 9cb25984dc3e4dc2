------------------------------- MODULE TetFS --------------------------------
(***************************************************************************)
(* The file system of kernel/fs/tetfs.c under the commands of              *)
(* kernel/shell/shell.c and the installation of the bundled programs in    *)
(* kernel/user/appseed.c.  Every sector written to the disk is one step,   *)
(* so that a power cut can come between any two; what is computed from the *)
(* sectors read before a write is part of the step that writes.            *)
(*                                                                         *)
(* The MAX_BLOCKS bits of the bitmap fit in its first sector; the second   *)
(* stays zero and is left out.  Read errors are left out too.              *)
(***************************************************************************)
EXTENDS Integers, Sequences, FiniteSetsExt

CONSTANTS
    MaxInodes,      \* TETFS_MAX_INODES
    PerSector,      \* inodes in a sector: 8
    MaxBlocks,      \* TETFS_MAX_BLOCKS
    MaxFileBlocks,  \* TETFS_MAX_FILE_BLOCKS
    BlockSize,      \* TETFS_BLOCK_SIZE
    ShortNames,     \* names of at most 50 characters
    LongNames,      \* longer ones: all begin with the 50 characters of Cut
    Cut,
    Buffers,        \* what is written to files: sequences of bytes
    Seeds           \* the files appseed_install writes, in order

Inodes == 0 .. MaxInodes - 1
Root == 0
Blocks == 0 .. MaxBlocks - 1
NoParent == -1      \* 0xFFFF
Names == ShortNames \cup LongNames

ASSUME FSAssumption ==
    /\ MaxInodes \in Nat \ {0} /\ PerSector \in Nat \ {0}
    /\ MaxBlocks \in Nat \ {0} /\ MaxFileBlocks \in Nat /\ BlockSize \in Nat \ {0}
    /\ Cut \notin LongNames
    /\ Buffers \subseteq Seq(0 .. 255)
    /\ Seeds \in Seq([name : ShortNames, buf : Buffers])

VARIABLES
    formatted,      \* disk: a superblock with the magic and the version
    inode,          \* disk: the inode table
    bitmap,         \* disk: the blocks whose bit is set
    data,           \* disk: the bytes of every block
    fs_mounted,
    cwd_inode,      \* shell.c: the current directory
    todo,           \* what appseed_install has still to write
    op              \* the call under way and its locals

disk == <<formatted, inode, bitmap, data>>
fvars == <<disk, fs_mounted, cwd_inode, todo, op>>

Zero == [k \in 1 .. BlockSize |-> 0]
FreeInode == [type |-> "free", name |-> "", parent |-> Root,
              size |-> 0, start_block |-> 0, block_count |-> 0]
RootInode == [FreeInode EXCEPT !.type = "dir", !.name = "/", !.parent = NoParent]

\* old is a ghost: what the file under op.idx held before the call.
Idle == [pc |-> "idle", idx |-> Root, buf |-> <<>>, start |-> 0, i |-> 0, old |-> <<>>]

FInit ==
    /\ formatted = FALSE
    /\ inode = [i \in Inodes |-> FreeInode]
    /\ bitmap = {}
    /\ data = [b \in Blocks |-> Zero]
    /\ fs_mounted = FALSE
    /\ cwd_inode = Root
    /\ todo = <<>>
    /\ op = Idle

-----------------------------------------------------------------------------
(* Reading.                                                                *)

Used(i) == inode[i].type # "free"

Extent(i) == inode[i].start_block .. inode[i].start_block + inode[i].block_count - 1

\* strncpy-like: create keeps 50 characters of a name.
Stored(name) == IF name \in LongNames THEN Cut ELSE name

\* The entries the search by name stops at.
Matches(name, parent) ==
    {i \in Inodes \ {Root} :
        Used(i) /\ inode[i].parent = parent /\ inode[i].name = name}

tetfs_find(name, parent) == Min(Matches(name, parent))

FreeEntries == {i \in Inodes \ {Root} : ~Used(i)}

\* Block by block, never past the size nor past the last block.
tetfs_read(i, offset, len) ==
    LET end == Min({offset + len, inode[i].size, inode[i].block_count * BlockSize})
    IN [k \in 1 .. end - offset |->
            LET pos == offset + k - 1 IN
            data[inode[i].start_block + pos \div BlockSize][(pos % BlockSize) + 1]]

Contents(i) == tetfs_read(i, 0, inode[i].size)

-----------------------------------------------------------------------------
(* Creating, writing and deleting.                                         *)

\* The call is over; appseed_install goes on with its next file.
Succeed ==
    /\ op' = Idle
    /\ todo' = IF todo = <<>> THEN <<>> ELSE Tail(todo)

\* It has returned -1, and appseed_install with it.
Fail == op' = Idle /\ todo' = <<>>

\* tetfs_create: the caller has found no such name.
Create(name, parent, type) ==
    /\ FreeEntries # {}
    /\ inode' = [inode EXCEPT ![Min(FreeEntries)] =
                    [FreeInode EXCEPT !.type = type, !.name = Stored(name),
                                      !.parent = parent]]

\* Mutant: the run may reach one block past the last.
RunsPastEnd(bm, count) ==
    {s \in Blocks : s + count <= MaxBlocks + 1 /\ (s .. s + count - 1) \cap bm = {}}

\* Mutant: only the first block of the run is looked at.
RunsOfOne(bm, count) ==
    {s \in Blocks : s + count <= MaxBlocks /\ s \notin bm}

\* Where count adjacent blocks are free.
Runs(bm, count) ==
    {s \in Blocks : s + count <= MaxBlocks /\ (s .. s + count - 1) \cap bm = {}}

BlocksNeeded(buf) == (Len(buf) + BlockSize - 1) \div BlockSize

\* Block i of buf, padded with zeros.
Chunk(buf, i) ==
    [k \in 1 .. BlockSize |->
        IF i * BlockSize + k <= Len(buf) THEN buf[i * BlockSize + k] ELSE 0]

\* Find the file or create it, then tetfs_write.
StartWrite(name, parent, buf) ==
    /\ \/ /\ Matches(name, parent) # {}
          /\ op' = [Idle EXCEPT !.pc = "bitmap", !.buf = buf,
                                !.idx = tetfs_find(name, parent)]
          /\ UNCHANGED <<inode, todo>>
       \/ /\ Matches(name, parent) = {}
          /\ Create(name, parent, "file")
          /\ op' = [Idle EXCEPT !.pc = "bitmap", !.buf = buf, !.idx = Min(FreeEntries)]
          /\ UNCHANGED todo
       \/ /\ Matches(name, parent) = {} /\ FreeEntries = {}
          /\ Fail
          /\ UNCHANGED inode
    /\ UNCHANGED <<formatted, bitmap, data, fs_mounted, cwd_inode>>

\* The file's own blocks count as free: the new ones may overlap them.
Others == bitmap \ Extent(op.idx)
Fits == Runs(Others, BlocksNeeded(op.buf))
Writable == inode[op.idx].type = "file"
                /\ BlocksNeeded(op.buf) <= MaxFileBlocks /\ Fits # {}

WriteRefused ==
    /\ op.pc = "bitmap"
    /\ ~Writable
    /\ Fail
    /\ UNCHANGED <<disk, fs_mounted, cwd_inode>>

\* An empty buffer leaves the file its blocks.
WriteEmpty ==
    /\ op.pc = "bitmap"
    /\ inode[op.idx].type = "file" /\ op.buf = <<>>
    /\ inode' = [inode EXCEPT ![op.idx].size = 0]
    /\ Succeed
    /\ UNCHANGED <<formatted, bitmap, data, fs_mounted, cwd_inode>>

\* Mutant: the blocks the file had stay marked.
WriteBitmapKeepsOld ==
    /\ op.pc = "bitmap"
    /\ Writable /\ op.buf # <<>>
    /\ bitmap' = bitmap \cup (Min(Fits) .. Min(Fits) + BlocksNeeded(op.buf) - 1)
    /\ op' = [op EXCEPT !.pc = "data", !.start = Min(Fits), !.old = Contents(op.idx)]
    /\ UNCHANGED <<formatted, inode, data, fs_mounted, cwd_inode, todo>>

\* The old blocks are given up and the first run that is long enough taken.
WriteBitmap ==
    /\ op.pc = "bitmap"
    /\ Writable /\ op.buf # <<>>
    /\ bitmap' = Others \cup (Min(Fits) .. Min(Fits) + BlocksNeeded(op.buf) - 1)
    /\ op' = [op EXCEPT !.pc = "data", !.start = Min(Fits), !.old = Contents(op.idx)]
    /\ UNCHANGED <<formatted, inode, data, fs_mounted, cwd_inode, todo>>

WriteData ==
    /\ op.pc = "data"
    /\ data' = [data EXCEPT ![op.start + op.i] = Chunk(op.buf, op.i)]
    /\ op' = [op EXCEPT !.i = op.i + 1,
                        !.pc = IF op.i + 1 < BlocksNeeded(op.buf) THEN "data" ELSE "inode"]
    /\ UNCHANGED <<formatted, inode, bitmap, fs_mounted, cwd_inode, todo>>

WriteInode ==
    /\ op.pc = "inode"
    /\ inode' = [inode EXCEPT ![op.idx].start_block = op.start,
                              ![op.idx].block_count = BlocksNeeded(op.buf),
                              ![op.idx].size = Len(op.buf)]
    /\ Succeed
    /\ UNCHANGED <<formatted, bitmap, data, fs_mounted, cwd_inode>>

\* tetfs_delete, the second write: the entry, its blocks free already.
Unlink ==
    /\ op.pc = "unlink"
    /\ inode' = [inode EXCEPT ![op.idx] = FreeInode]
    /\ Succeed
    /\ UNCHANGED <<formatted, bitmap, data, fs_mounted, cwd_inode>>

-----------------------------------------------------------------------------
(* The shell's commands, between two calls and on a mounted file system.   *)

Ready == op.pc = "idle" /\ todo = <<>>
Command == Ready /\ fs_mounted

\* touch and mkdir.
Make(name, type) ==
    /\ Command
    /\ Matches(name, cwd_inode) = {}
    /\ Create(name, cwd_inode, type)
    /\ UNCHANGED <<formatted, bitmap, data, fs_mounted, cwd_inode, todo, op>>

\* write cuts the name itself before it looks for it.
Write(name, buf) ==
    /\ Command
    /\ StartWrite(Stored(name), cwd_inode, buf)

\* rm, up to the first write of tetfs_delete.  Nothing asks whether a
\* directory is empty.
Rm(name) ==
    /\ Command
    /\ Matches(name, cwd_inode) # {}
    /\ LET idx == tetfs_find(name, cwd_inode) IN
        IF inode[idx].block_count > 0
        THEN /\ bitmap' = bitmap \ Extent(idx)
             /\ op' = [Idle EXCEPT !.pc = "unlink", !.idx = idx]
             /\ UNCHANGED inode
        ELSE /\ inode' = [inode EXCEPT ![idx] = FreeInode]
             /\ UNCHANGED <<bitmap, op>>
    /\ UNCHANGED <<formatted, data, fs_mounted, cwd_inode, todo>>

Cd(name) ==
    /\ Command
    /\ Matches(name, cwd_inode) # {}
    /\ LET idx == tetfs_find(name, cwd_inode) IN
        inode[idx].type = "dir" /\ cwd_inode' = idx
    /\ UNCHANGED <<disk, fs_mounted, todo, op>>

\* cd .., from wherever the current directory's entry now says it lies.
CdUp ==
    /\ Command
    /\ cwd_inode # Root
    /\ cwd_inode' = IF inode[cwd_inode].parent = NoParent
                    THEN Root ELSE inode[cwd_inode].parent
    /\ UNCHANGED <<disk, fs_mounted, todo, op>>

CdRoot ==
    /\ Command
    /\ cwd_inode' = Root
    /\ UNCHANGED <<disk, fs_mounted, todo, op>>

\* format needs no mounted file system.  The current directory stays.
Format ==
    /\ Ready
    /\ formatted' = TRUE
    /\ op' = [Idle EXCEPT !.pc = "format_inodes"]
    /\ UNCHANGED <<inode, bitmap, data, fs_mounted, cwd_inode, todo>>

FormatInodes ==
    /\ op.pc = "format_inodes"
    /\ inode' = [k \in Inodes |-> IF k \div PerSector = op.i THEN FreeInode ELSE inode[k]]
    /\ op' = [op EXCEPT !.i = op.i + 1,
                        !.pc = IF (op.i + 1) * PerSector < MaxInodes
                               THEN "format_inodes" ELSE "format_bitmap"]
    /\ UNCHANGED <<formatted, bitmap, data, fs_mounted, cwd_inode, todo>>

FormatBitmap ==
    /\ op.pc = "format_bitmap"
    /\ bitmap' = {}
    /\ op' = [op EXCEPT !.pc = "format_root"]
    /\ UNCHANGED <<formatted, inode, data, fs_mounted, cwd_inode, todo>>

FormatRoot ==
    /\ op.pc = "format_root"
    /\ inode' = [inode EXCEPT ![Root] = RootInode]
    /\ fs_mounted' = TRUE
    /\ todo' = Seeds
    /\ op' = Idle
    /\ UNCHANGED <<formatted, bitmap, data, cwd_inode>>

\* seed, and the next of the files to install.
Seed ==
    /\ Command
    /\ todo' = Seeds
    /\ UNCHANGED <<disk, fs_mounted, cwd_inode, op>>

Install ==
    /\ op.pc = "idle" /\ todo # <<>>
    /\ StartWrite(Head(todo).name, Root, Head(todo).buf)

\* Power goes and comes back: memory is lost; kernel_main mounts what has a
\* superblock and installs the bundled files again.
PowerCycle ==
    /\ op' = Idle
    /\ fs_mounted' = formatted
    /\ cwd_inode' = Root
    /\ todo' = IF formatted THEN Seeds ELSE <<>>
    /\ UNCHANGED disk

Reboot == Ready /\ PowerCycle

Crash == ~Ready /\ PowerCycle

\* ata_write reports an error before it has written.
WriteError == op.pc # "idle" /\ Fail /\ UNCHANGED <<disk, fs_mounted, cwd_inode>>

\* What the shell and appseed_install do while the power is on.
Shell ==
    \/ \E name \in Names : Make(name, "file") \/ Make(name, "dir") \/ Rm(name) \/ Cd(name)
    \/ \E name \in Names, buf \in Buffers : Write(name, buf)
    \/ WriteRefused \/ WriteEmpty \/ WriteBitmap \/ WriteData \/ WriteInode \/ Unlink
    \/ CdUp \/ CdRoot
    \/ Format \/ FormatInodes \/ FormatBitmap \/ FormatRoot
    \/ Seed \/ Install

FNext == Shell \/ Reboot

\* The first of the sectors that a call writes is on the disk and the last is not.
Midway == op.pc \in {"data", "inode", "unlink", "format_inodes", "format_bitmap", "format_root"}

GentleFault == ~Midway /\ (Crash \/ WriteError)

\* The power goes or the disk fails, but never midway; or at any time.
GentleSpec == FInit /\ [][FNext \/ GentleFault]_fvars
FaultSpec == FInit /\ [][FNext \/ Crash \/ WriteError]_fvars

-----------------------------------------------------------------------------
(* Properties                                                              *)

FTypeOK ==
    /\ formatted \in BOOLEAN
    /\ inode \in [Inodes -> [type : {"free", "file", "dir"},
                             name : Names \cup {Cut, "", "/"},
                             parent : Inodes \cup {NoParent},
                             size : 0 .. MaxFileBlocks * BlockSize,
                             start_block : Blocks,
                             block_count : 0 .. MaxFileBlocks]]
    /\ bitmap \subseteq Blocks
    /\ DOMAIN data = Blocks
    /\ fs_mounted \in BOOLEAN
    /\ cwd_inode \in Inodes

\* Between two calls the bitmap marks exactly the blocks of files, and no
\* block belongs to two of them: creating, overwriting by longer, shorter and
\* empty contents, deleting and formatting neither leak nor share a block.
BlocksExact ==
    op.pc = "idle" =>
        /\ bitmap = UNION {Extent(i) : i \in {k \in Inodes : Used(k)}}
        /\ \A i, j \in Inodes :
            i # j /\ Used(i) /\ Used(j) => Extent(i) \cap Extent(j) = {}

\* The file table as a user sees it.  A call changes it when its last sector
\* is written, format when it begins.
Formatting == op.pc \in {"format_inodes", "format_bitmap", "format_root"}
NoFile == [type |-> "none"]
Files == [i \in Inodes \ {Root} |->
    IF Formatting \/ ~Used(i) THEN NoFile
    ELSE [type |-> inode[i].type, name |-> inode[i].name, parent |-> inode[i].parent,
          contents |-> IF op.pc \in {"data", "inode"} /\ op.idx = i
                       THEN op.old ELSE Contents(i)]]

\* What is stored of the names that are cut.
CutNames == {Stored(name) : name \in LongNames}

Store == INSTANCE FileStore WITH
    Entries <- Inodes \ {Root}, Names <- Names \cup {Cut}, Directories <- Inodes,
    None <- NoFile, Ambiguous <- CutNames, files <- Files

\* What is read back from a file is what was last written to it, across
\* reboots and whatever is done to other files that take or leave the blocks
\* around it, those of the same name too; and a name appears once in a
\* directory, unless it is one that longer names are cut to.
IsFileStore == Store!Spec

\* The "Block bitmap" of the disk layout "tracks" the blocks (tetfs.h:12): a
\* block that a file reads from is marked as taken.
BitmapTracks ==
    op.pc = "idle" => \A i \in Inodes : Used(i) => Extent(i) \subseteq bitmap
=============================================================================
