--------------------------- MODULE FileSystemProofs ---------------------------
(***************************************************************************)
(* Blocks, files and open files, for a disk, a table and contents of any   *)
(* size: proofs about TetFS and Vfs.                                       *)
(***************************************************************************)
EXTENDS Vfs, SequenceTheorems, WellFoundedInduction, TLAPS

-----------------------------------------------------------------------------
(* Numbers.                                                                *)

\* The sizes of the disk are natural numbers and the root has an entry.
LEMMA DiskSizes ==
    /\ MaxInodes \in Nat \ {0} /\ PerSector \in Nat \ {0} /\ BlockSize \in Nat \ {0}
    /\ MaxBlocks \in Nat \ {0} /\ MaxFileBlocks \in Nat
    /\ MaxFileBlocks * BlockSize \in Nat /\ 0 * BlockSize = 0
    /\ 0 \in 0 .. MaxFileBlocks * BlockSize /\ 0 \in 0 .. MaxFileBlocks
    /\ Root \in Inodes /\ 0 \in Blocks
    /\ Inodes \subseteq Nat /\ Blocks \subseteq Nat
<1>1. /\ MaxInodes \in Nat \ {0} /\ PerSector \in Nat \ {0} /\ BlockSize \in Nat \ {0}
      /\ MaxBlocks \in Nat \ {0} /\ MaxFileBlocks \in Nat
  BY FSAssumption
<1>2. MaxFileBlocks * BlockSize \in Nat /\ 0 * BlockSize = 0
  BY <1>1
<1>3. 0 \in 0 .. MaxFileBlocks * BlockSize
  BY <1>2
<1> QED BY <1>1, <1>2, <1>3 DEF Root, Inodes, Blocks

\* The least element, which Min names.
LEMMA MinIsLeast ==
    ASSUME NEW S \in SUBSET Nat, S # {}
    PROVE  Min(S) \in S /\ \A y \in S : Min(S) <= y
<1>1. \E x \in S : \A y \in S : ~ (<<y, x>> \in OpToRel(<, Nat))
  BY WFMin, NatLessThanWellFounded
<1>2. PICK x \in S : \A y \in S : ~ (<<y, x>> \in OpToRel(<, Nat))
  BY <1>1
<1>3. \A y \in S : ~(y < x)
  BY <1>2 DEF OpToRel
<1>4. x \in S /\ \A y \in S : x <= y
  BY <1>3
<1> QED BY <1>4 DEF Min

\* Byte n of a file lies in block n \div BlockSize, which is one of the first c.
LEMMA BlockOfByte ==
    ASSUME NEW n \in Nat
    PROVE  /\ n \div BlockSize \in Nat /\ n % BlockSize \in 0 .. BlockSize - 1
           /\ (n \div BlockSize) * BlockSize + (n % BlockSize) = n
           /\ \A c \in Nat : n < c * BlockSize => n \div BlockSize < c
<1> DEFINE q == n \div BlockSize
           r == n % BlockSize
<1>1. q \in Nat /\ r \in 0 .. BlockSize - 1
  BY DiskSizes
<1>2. (q * BlockSize + r) \div BlockSize = q /\ (q * BlockSize + r) % BlockSize = r
  <2> HIDE DEF q, r
  <2> QED BY <1>1, DiskSizes
<1>3. q * BlockSize + r \in Nat
  <2> HIDE DEF q, r
  <2> QED BY <1>1, DiskSizes
<1>4. q * BlockSize + r = n
  BY <1>2, <1>3, DiskSizes
<1>5. \A c \in Nat : n < c * BlockSize => q < c
  BY DiskSizes
<1> QED BY <1>1, <1>4, <1>5

\* A buffer fits in the blocks taken for it.
LEMMA BufferFits ==
    ASSUME NEW buf \in Seq(0 .. 255)
    PROVE  /\ BlocksNeeded(buf) \in Nat
           /\ Len(buf) \in Nat
           /\ Len(buf) <= BlocksNeeded(buf) * BlockSize
           /\ buf # <<>> => BlocksNeeded(buf) >= 1
           /\ BlocksNeeded(buf) <= MaxFileBlocks => Len(buf) <= MaxFileBlocks * BlockSize
<1> DEFINE n == Len(buf)
           k == BlocksNeeded(buf)
<1>1. n \in Nat /\ (buf # <<>> => n >= 1)
  BY EmptySeq
<1>2. k \in Nat
  BY <1>1, DiskSizes DEF BlocksNeeded
<1>3. n <= k * BlockSize
  <2>1. n + BlockSize - 1 \in Nat
    BY <1>1, DiskSizes
  <2>2. /\ (n + BlockSize - 1) % BlockSize \in 0 .. BlockSize - 1
        /\ k * BlockSize + ((n + BlockSize - 1) % BlockSize) = n + BlockSize - 1
    BY <2>1, BlockOfByte DEF BlocksNeeded
  <2>3. k * BlockSize \in Nat
    BY <1>2, DiskSizes
  <2> HIDE DEF k, n
  <2> QED BY <2>2, <2>3, <1>1, DiskSizes
<1>4. n >= 1 => k >= 1
  <2> HIDE DEF k, n
  <2>1. k = 0 => k * BlockSize = 0
    BY DiskSizes
  <2> QED BY <1>1, <1>2, <1>3, <2>1
<1>5. k <= MaxFileBlocks => k * BlockSize <= MaxFileBlocks * BlockSize
  <2> HIDE DEF k
  <2> QED BY <1>2, DiskSizes
<1>6. k * BlockSize \in Nat
  BY <1>2, DiskSizes
<1> QED BY <1>1, <1>2, <1>3, <1>4, <1>5, <1>6, DiskSizes

-----------------------------------------------------------------------------
(* The inductive invariant of tetFS.                                       *)

Bytes == 0 .. 255
Block == [1 .. BlockSize -> Bytes]

Entry == [type : {"free", "file", "dir"},
          name : Names \cup {Cut, "", "/"},
          parent : Inodes \cup {NoParent},
          size : 0 .. MaxFileBlocks * BlockSize,
          start_block : Blocks,
          block_count : 0 .. MaxFileBlocks]

FormatPcs == {"format_inodes", "format_bitmap", "format_root"}
WritePcs == {"bitmap", "data", "inode"}

Call == [pc : {"idle", "unlink"} \cup WritePcs \cup FormatPcs,
         idx : Inodes, buf : Seq(Bytes), start : Blocks, i : Nat, old : Seq(Bytes)]

SeedFile == [name : ShortNames, buf : Buffers]

\* An entry is free and blank, or its bytes lie in its blocks and those on
\* the disk.
Sound(n) ==
    /\ n \in Entry
    /\ n.type = "free" => n = FreeInode
    /\ n.size <= n.block_count * BlockSize
    /\ n.start_block + n.block_count <= MaxBlocks

EntryExtent(n) == n.start_block .. n.start_block + n.block_count - 1

TableInv ==
    /\ inode \in [Inodes -> Entry]
    /\ \A k \in Inodes : Sound(inode[k])
    /\ \A j, k \in Inodes :
          j # k => EntryExtent(inode[j]) \cap EntryExtent(inode[k]) = {}

MemoryOK ==
    /\ formatted \in BOOLEAN /\ fs_mounted \in BOOLEAN
    /\ cwd_inode \in Inodes
    /\ bitmap \subseteq Blocks
    /\ data \in [Blocks -> Block]
    /\ todo \in Seq(SeedFile)
    /\ op \in Call

\* The blocks of the entries in S.
Owned(S) == {b \in Blocks : \E k \in S : b \in EntryExtent(inode[k])}

\* The blocks that tetfs_write has taken for the call under way.
Run_(o) == o.start .. o.start + BlocksNeeded(o.buf) - 1

Marked ==
    /\ op.pc \in {"idle", "bitmap"} => bitmap = Owned(Inodes)
    /\ op.pc = "unlink" => bitmap = Owned(Inodes \ {op.idx})
    /\ op.pc \in {"data", "inode"} => bitmap = Owned(Inodes \ {op.idx}) \cup Run_(op)

\* The entry the call under way is about.
CallEntry ==
    op.pc \in WritePcs \cup {"unlink"} => op.idx # Root /\ inode[op.idx].type # "free"

Beginning == op.pc = "bitmap" => op.i = 0 /\ op.buf \in Buffers

\* The blocks taken belong to no other file, and the first op.i hold what is
\* to be written.
Taking ==
    op.pc \in {"data", "inode"} =>
        /\ op.buf \in Buffers /\ op.buf # <<>>
        /\ inode[op.idx].type = "file"
        /\ BlocksNeeded(op.buf) <= MaxFileBlocks
        /\ op.start + BlocksNeeded(op.buf) <= MaxBlocks
        /\ op.i <= BlocksNeeded(op.buf)
        /\ op.pc = "data" <=> op.i < BlocksNeeded(op.buf)
        /\ \A k \in Inodes \ {op.idx} : EntryExtent(inode[k]) \cap Run_(op) = {}
        /\ \A b \in 0 .. op.i - 1 : data[op.start + b] = Chunk(op.buf, b)

\* format has cleared the sectors before op.i, then the table, then the bitmap.
Clearing ==
    /\ op.pc = "format_inodes" =>
          \A k \in Inodes : k \div PerSector < op.i => inode[k] = FreeInode
    /\ op.pc = "format_inodes" => op.i * PerSector < MaxInodes
    /\ op.pc \in {"format_bitmap", "format_root"} =>
          \A k \in Inodes : inode[k] = FreeInode
    /\ op.pc = "format_root" => bitmap = {}

FInv == TableInv /\ MemoryOK /\ Marked /\ CallEntry /\ Beginning /\ Taking /\ Clearing

-----------------------------------------------------------------------------
(* Entries and the table.                                                  *)

\* The numbers in a sound entry.
LEMMA EntryNumbers ==
    ASSUME NEW n, Sound(n)
    PROVE  /\ n.size \in Nat /\ n.start_block \in Nat /\ n.block_count \in Nat
           /\ n.start_block \in Blocks /\ n.block_count <= MaxFileBlocks
           /\ n.size <= n.block_count * BlockSize
           /\ n.start_block + n.block_count <= MaxBlocks
<1>1. 0 .. MaxFileBlocks * BlockSize \subseteq Nat /\ 0 .. MaxFileBlocks \subseteq Nat
  BY DiskSizes
<1>2. /\ n.size \in 0 .. MaxFileBlocks * BlockSize /\ n.start_block \in Blocks
      /\ n.block_count \in 0 .. MaxFileBlocks
  BY DEF Sound, Entry
<1>3. n.block_count <= MaxFileBlocks
  BY <1>2, DiskSizes
<1> QED BY <1>1, <1>2, <1>3, DiskSizes DEF Sound

\* A blank entry is sound and has no blocks, and so has the root's.
LEMMA BlankEntries ==
    /\ Sound(FreeInode) /\ EntryExtent(FreeInode) = {}
    /\ Sound(RootInode) /\ EntryExtent(RootInode) = {}
    /\ \A t \in {"file", "dir"}, n \in Names \cup {Cut}, p \in Inodes :
          LET e == [FreeInode EXCEPT !.type = t, !.name = n, !.parent = p]
          IN  Sound(e) /\ EntryExtent(e) = {}
<1>1. FreeInode \in Entry /\ RootInode \in Entry
  BY DiskSizes DEF Entry, FreeInode, RootInode, NoParent, Inodes, Blocks, Root
<1>a. \A n \in {FreeInode, RootInode} :
          n.size = 0 /\ n.start_block = 0 /\ n.block_count = 0
  <2>1. FreeInode.size = 0 /\ FreeInode.start_block = 0 /\ FreeInode.block_count = 0
    BY DEF FreeInode
  <2>2. RootInode.size = 0 /\ RootInode.start_block = 0 /\ RootInode.block_count = 0
    BY DEF FreeInode, RootInode
  <2> QED BY <2>1, <2>2
<1>2. Sound(FreeInode) /\ EntryExtent(FreeInode) = {}
  BY <1>1, <1>a, DiskSizes DEF Sound, EntryExtent
<1>b. RootInode.type = "dir"
  BY DEF FreeInode, RootInode
<1>3. Sound(RootInode) /\ EntryExtent(RootInode) = {}
  BY <1>1, <1>a, <1>b, DiskSizes DEF Sound, EntryExtent
<1>4. ASSUME NEW t \in {"file", "dir"}, NEW n \in Names \cup {Cut}, NEW p \in Inodes,
             NEW e, e = [FreeInode EXCEPT !.type = t, !.name = n, !.parent = p]
      PROVE  Sound(e) /\ EntryExtent(e) = {}
  <2>1. e = [type |-> t, name |-> n, parent |-> p, size |-> 0, start_block |-> 0, block_count |-> 0]
    BY <1>4 DEF FreeInode
  <2>2. e \in Entry
    BY <2>1, DiskSizes DEF Entry
  <2> QED BY <2>1, <2>2, DiskSizes DEF Sound, EntryExtent
<1> QED BY <1>2, <1>3, <1>4

\* An entry that is written keeps the table sound if it is sound itself and
\* has no block of another entry.
Fitting(e, n) ==
    Sound(n) /\ \A k \in Inodes \ {e} : EntryExtent(n) \cap EntryExtent(inode[k]) = {}

\* A table that is sound stays so with an entry that fits.
LEMMA TableUpdate ==
    ASSUME TableInv, NEW e \in Inodes, NEW n, Fitting(e, n),
           inode' = [inode EXCEPT ![e] = n]
    PROVE  TableInv'
<1>1. inode' \in [Inodes -> Entry] /\ \A k \in Inodes : inode'[k] = IF k = e THEN n ELSE inode[k]
  BY DEF TableInv, Fitting, Sound
<1>2. \A k \in Inodes : Sound(inode'[k])
  BY <1>1 DEF TableInv, Fitting
<1>3. ASSUME NEW j \in Inodes, NEW k \in Inodes, j # k
      PROVE  EntryExtent(inode'[j]) \cap EntryExtent(inode'[k]) = {}
  BY <1>1, <1>3 DEF TableInv, Fitting
<1> QED BY <1>1, <1>2, <1>3 DEF TableInv

\* The search by name finds an entry in use that is not the root.
LEMMA FindsEntry ==
    ASSUME TableInv, NEW name, NEW parent, Matches(name, parent) # {}
    PROVE  /\ tetfs_find(name, parent) \in Inodes \ {Root}
           /\ inode[tetfs_find(name, parent)].type # "free"
<1>1. Matches(name, parent) \in SUBSET Nat
  BY DiskSizes DEF Matches
<1> QED BY <1>1, MinIsLeast DEF tetfs_find, Matches, Used

\* The first free entry is blank and not the root.
LEMMA FreeEntry ==
    ASSUME TableInv, FreeEntries # {}
    PROVE  /\ Min(FreeEntries) \in Inodes \ {Root}
           /\ inode[Min(FreeEntries)] = FreeInode
<1>1. FreeEntries \in SUBSET Nat
  BY DiskSizes DEF FreeEntries
<1>2. Min(FreeEntries) \in FreeEntries
  BY <1>1, MinIsLeast
<1> QED BY <1>2 DEF FreeEntries, Used, TableInv, Sound

\* The blocks of a sound entry are blocks of the disk.
LEMMA ExtentOnDisk ==
    ASSUME NEW n, Sound(n)
    PROVE  EntryExtent(n) \subseteq Blocks
BY EntryNumbers, DiskSizes DEF EntryExtent, Blocks

\* How the blocks owned change with one entry.
LEMMA OwnedUpdate ==
    ASSUME TableInv, NEW e \in Inodes, NEW n, Sound(n),
           inode' = [inode EXCEPT ![e] = n]
    PROVE  /\ Owned(Inodes)' = Owned(Inodes \ {e}) \cup EntryExtent(n)
           /\ Owned(Inodes \ {e})' = Owned(Inodes \ {e})
<1>1. \A k \in Inodes : inode'[k] = IF k = e THEN n ELSE inode[k]
  BY DEF TableInv
<1>2. EntryExtent(n) \subseteq Blocks
  BY ExtentOnDisk
<1>3. Owned(Inodes \ {e})' = Owned(Inodes \ {e})
  BY <1>1 DEF Owned
<1>4. ASSUME NEW b \in Blocks
      PROVE  (\E k \in Inodes : b \in EntryExtent(inode'[k]))
                <=> (\E k \in Inodes \ {e} : b \in EntryExtent(inode[k])) \/ b \in EntryExtent(n)
  BY <1>1
<1>5. Owned(Inodes)' = {b \in Blocks : \E k \in Inodes : b \in EntryExtent(inode'[k])}
  BY DEF Owned
<1> QED BY <1>2, <1>3, <1>4, <1>5 DEF Owned

\* The blocks of all entries are those of one of them and of the others.
LEMMA OwnedSplit ==
    ASSUME TableInv, NEW e \in Inodes
    PROVE  /\ Owned(Inodes) = Owned(Inodes \ {e}) \cup EntryExtent(inode[e])
           /\ Owned(Inodes \ {e}) = Owned(Inodes) \ EntryExtent(inode[e])
<1>1. EntryExtent(inode[e]) \subseteq Blocks
  BY ExtentOnDisk DEF TableInv
<1>2. \A k \in Inodes \ {e} : EntryExtent(inode[k]) \cap EntryExtent(inode[e]) = {}
  BY DEF TableInv
<1>3. Owned(Inodes) = Owned(Inodes \ {e}) \cup EntryExtent(inode[e])
  BY <1>1 DEF Owned
<1>4. Owned(Inodes \ {e}) \cap EntryExtent(inode[e]) = {}
  BY <1>2 DEF Owned
<1> QED BY <1>3, <1>4

\* tetfs_create keeps the table sound and takes no block.
LEMMA CreateKeeps ==
    ASSUME TableInv, NEW name \in Names \cup {Cut}, NEW parent \in Inodes,
           NEW type \in {"file", "dir"}, Create(name, parent, type)
    PROVE  /\ TableInv' /\ Owned(Inodes)' = Owned(Inodes)
           /\ Min(FreeEntries) \in Inodes \ {Root}
           /\ inode'[Min(FreeEntries)].type = type
<1> DEFINE e == Min(FreeEntries)
           n == [FreeInode EXCEPT !.type = type, !.name = Stored(name), !.parent = parent]
<1>1. /\ inode' = [inode EXCEPT ![e] = n]
      /\ e \in Inodes \ {Root} /\ inode[e] = FreeInode
  BY FreeEntry DEF Create
<1>2. Stored(name) \in Names \cup {Cut}
  BY DEF Stored, Names
<1>3. Sound(n) /\ EntryExtent(n) = {} /\ EntryExtent(FreeInode) = {}
  BY <1>2, BlankEntries
<1>4. n.type = type
  BY DEF FreeInode
<1> HIDE DEF e, n
<1>5. Fitting(e, n)
  BY <1>3 DEF Fitting
<1>6. TableInv'
  BY <1>1, <1>5, TableUpdate
<1>7. Owned(Inodes)' = Owned(Inodes)
  <2>1. e \in Inodes
    BY <1>1
  <2>2. Owned(Inodes)' = Owned(Inodes \ {e})
    BY <1>1, <1>3, <2>1, OwnedUpdate
  <2>3. Owned(Inodes) = Owned(Inodes \ {e})
    BY <1>1, <1>3, <2>1, OwnedSplit
  <2> QED BY <2>2, <2>3
<1>8. inode'[e].type = type
  BY <1>1, <1>4 DEF TableInv
<1> QED BY <1>1, <1>6, <1>7, <1>8 DEF e

-----------------------------------------------------------------------------
(* Reading.                                                                *)

ByteAt(i, pos) ==
    data[inode[i].start_block + (pos \div BlockSize)][(pos % BlockSize) + 1]

\* How far a read of len bytes from offset gets.
ReadEnd(i, offset, len) ==
    Min({offset + len, inode[i].size, inode[i].block_count * BlockSize})
ReadLen(i, offset, len) ==
    IF ReadEnd(i, offset, len) >= offset THEN ReadEnd(i, offset, len) - offset ELSE 0

\* A byte before the size of a file lies in one of its blocks.
LEMMA ByteInExtent ==
    ASSUME NEW n, Sound(n), NEW pos \in Nat, pos < n.size
    PROVE  /\ n.start_block + (pos \div BlockSize) \in EntryExtent(n)
           /\ (pos % BlockSize) + 1 \in 1 .. BlockSize
<1> DEFINE q == pos \div BlockSize
           c == n.block_count
<1>1. /\ n.start_block \in Nat /\ c \in Nat /\ n.size \in Nat
      /\ n.size <= c * BlockSize
  BY EntryNumbers
<1>2. c * BlockSize \in Nat
  BY <1>1, DiskSizes
<1>3. q \in Nat /\ q < c /\ pos % BlockSize \in 0 .. BlockSize - 1
  BY <1>1, <1>2, BlockOfByte
<1> HIDE DEF q, c
<1>4. n.start_block + q \in n.start_block .. n.start_block + c - 1
  BY <1>1, <1>3
<1> QED BY <1>3, <1>4, DiskSizes DEF q, c, EntryExtent

\* Functions on an initial segment are sequences.
LEMMA SegmentIsSeq ==
    ASSUME NEW S, NEW n \in Nat, NEW f \in [1 .. n -> S]
    PROVE  f \in Seq(S) /\ Len(f) = n
OBVIOUS

\* tetfs_read returns the bytes from offset on, up to the size of the file.
LEMMA ReadIs ==
    ASSUME TableInv, MemoryOK, NEW i \in Inodes, NEW offset \in Nat, NEW len \in Nat
    PROVE  /\ ReadLen(i, offset, len) \in Nat
           /\ ReadEnd(i, offset, len) \in Nat
           /\ ReadEnd(i, offset, len) <= inode[i].size
           /\ ReadEnd(i, offset, len) = offset + len \/ ReadEnd(i, offset, len) = inode[i].size
           /\ tetfs_read(i, offset, len) \in Seq(Bytes)
           /\ Len(tetfs_read(i, offset, len)) = ReadLen(i, offset, len)
           /\ \A k \in 1 .. ReadLen(i, offset, len) :
                 tetfs_read(i, offset, len)[k] = ByteAt(i, offset + k - 1)
<1> DEFINE m == inode[i]
           S == {offset + len, m.size, m.block_count * BlockSize}
           end == ReadEnd(i, offset, len)
           n == ReadLen(i, offset, len)
           f == tetfs_read(i, offset, len)
<1>1. Sound(m) /\ m.size \in Nat /\ m.block_count \in Nat /\ m.size <= m.block_count * BlockSize
  BY EntryNumbers DEF TableInv
<1>2. m.block_count * BlockSize \in Nat
  BY <1>1, DiskSizes
<1>3. S \in SUBSET Nat /\ S # {}
  BY <1>1, <1>2
<1>4. end \in S /\ \A y \in S : end <= y
  BY <1>3, MinIsLeast DEF ReadEnd
<1>5. end \in Nat /\ end <= m.size /\ (end = offset + len \/ end = m.size)
  <2>1. end \in Nat /\ end <= m.size
    BY <1>3, <1>4
  <2>2. end = m.block_count * BlockSize => end = m.size
    BY <1>1, <1>2, <1>4, <2>1
  <2> QED BY <2>1, <2>2, <1>4
<1>6. n \in Nat /\ 1 .. end - offset = 1 .. n /\ \A k \in 1 .. n : offset + k - 1 \in Nat /\ offset + k - 1 < end
  <2> HIDE DEF end
  <2>1. n = IF end >= offset THEN end - offset ELSE 0
    BY DEF end, ReadLen
  <2> HIDE DEF n
  <2> QED BY <2>1, <1>5
<1>7. f = [k \in 1 .. n |-> ByteAt(i, offset + k - 1)]
  <2>1. f = [k \in 1 .. end - offset |-> ByteAt(i, offset + k - 1)]
    BY DEF tetfs_read, ReadEnd, ByteAt
  <2> QED BY <2>1, <1>6
<1>8. ASSUME NEW k \in 1 .. n PROVE ByteAt(i, offset + k - 1) \in Bytes
  <2> DEFINE pos == offset + k - 1
  <2>1. pos \in Nat /\ pos < m.size
    BY <1>1, <1>5, <1>6
  <2> HIDE DEF pos
  <2>2. /\ m.start_block + (pos \div BlockSize) \in Blocks
        /\ (pos % BlockSize) + 1 \in 1 .. BlockSize
    BY <2>1, <1>1, ByteInExtent, ExtentOnDisk
  <2>3. ByteAt(i, pos) \in Bytes
    BY <2>2 DEF ByteAt, MemoryOK, Block
  <2> QED BY <2>3 DEF pos
<1> HIDE DEF n, f, end
<1>9. f \in [1 .. n -> Bytes]
  BY <1>7, <1>8
<1>10. f \in Seq(Bytes) /\ Len(f) = n
  BY <1>6, <1>9, SegmentIsSeq
<1>11. \A k \in 1 .. n : f[k] = ByteAt(i, offset + k - 1)
  BY <1>7
<1> QED BY <1>5, <1>6, <1>10, <1>11 DEF n, f, end, m

\* The contents of a file: as many bytes as its size.
LEMMA ContentsIs ==
    ASSUME TableInv, MemoryOK, NEW i \in Inodes
    PROVE  /\ Contents(i) \in Seq(Bytes)
           /\ Len(Contents(i)) = inode[i].size
           /\ inode[i].size \in Nat
           /\ \A k \in 1 .. inode[i].size : Contents(i)[k] = ByteAt(i, k - 1)
<1> DEFINE z == inode[i].size
<1>1. z \in Nat
  BY EntryNumbers DEF TableInv
<1>2. ReadEnd(i, 0, z) = z
  <2>1. 0 \in Nat /\ 0 + z = z
    BY <1>1
  <2> HIDE DEF z
  <2> QED BY <1>1, <2>1, ReadIs DEF z
<1>3. ReadLen(i, 0, z) = z
  BY <1>1, <1>2 DEF ReadLen
<1>4. \A k \in 1 .. z : 0 + k - 1 = k - 1
  BY <1>1
<1>0. 0 \in Nat
  OBVIOUS
<1>5. /\ tetfs_read(i, 0, z) \in Seq(Bytes) /\ Len(tetfs_read(i, 0, z)) = z
      /\ \A k \in 1 .. z : tetfs_read(i, 0, z)[k] = ByteAt(i, 0 + k - 1)
  <2> HIDE DEF z
  <2>1. /\ tetfs_read(i, 0, z) \in Seq(Bytes) /\ Len(tetfs_read(i, 0, z)) = ReadLen(i, 0, z)
        /\ \A k \in 1 .. ReadLen(i, 0, z) : tetfs_read(i, 0, z)[k] = ByteAt(i, 0 + k - 1)
    BY <1>0, <1>1, ReadIs
  <2> QED BY <1>3, <2>1
<1> HIDE DEF z
<1>6. \A k \in 1 .. z : tetfs_read(i, 0, z)[k] = ByteAt(i, k - 1)
  BY <1>4, <1>5
<1> QED BY <1>1, <1>5, <1>6 DEF Contents, z

-----------------------------------------------------------------------------
(* Every step keeps the invariant.                                         *)

\* The idle call is a call.
LEMMA IdleIsCall ==
    Idle \in Call /\ Idle.pc = "idle"
<1>1. <<>> \in Seq(Bytes)
  BY EmptySeq
<1> QED BY <1>1, DiskSizes DEF Idle, Call, Root, Blocks, WritePcs, FormatPcs

\* Between two calls the invariant is that of the table and of the bitmap.
LEMMA IdleInv ==
    ASSUME TableInv', MemoryOK', op'.pc = "idle", bitmap' = Owned(Inodes)'
    PROVE  FInv'
BY DEF FInv, Marked, CallEntry, Beginning, Taking, Clearing, WritePcs, FormatPcs

\* A step that leaves the disk alone between two calls.
LEMMA QuietInv ==
    ASSUME FInv, op.pc \in {"idle", "bitmap"}, op'.pc = "idle", UNCHANGED disk, MemoryOK'
    PROVE  FInv'
<1>1. TableInv' /\ Owned(Inodes)' = Owned(Inodes)
  BY DEF FInv, TableInv, Owned, disk
<1>2. bitmap' = Owned(Inodes)
  BY DEF FInv, Marked, disk
<1> QED BY <1>1, <1>2, IdleInv

\* The files still to be installed are bundled files.
LEMMA TodoTail ==
    ASSUME todo \in Seq(SeedFile)
    PROVE  /\ <<>> \in Seq(SeedFile) /\ Seeds \in Seq(SeedFile)
           /\ (IF todo = <<>> THEN <<>> ELSE Tail(todo)) \in Seq(SeedFile)
           /\ todo # <<>> => Head(todo) \in SeedFile
<1>1. <<>> \in Seq(SeedFile) /\ Seeds \in Seq(SeedFile)
  BY EmptySeq, FSAssumption DEF SeedFile
<1>2. todo # <<>> => Head(todo) \in SeedFile /\ Tail(todo) \in Seq(SeedFile)
  BY HeadTailProperties
<1> QED BY <1>1, <1>2

\* The end of a call that has succeeded.
LEMMA SucceedInv ==
    ASSUME MemoryOK, Succeed, UNCHANGED <<formatted, fs_mounted, cwd_inode>>,
           TableInv', bitmap' \subseteq Blocks, data' \in [Blocks -> Block],
           bitmap' = Owned(Inodes)'
    PROVE  FInv'
<1>1. op' = Idle /\ todo' \in Seq(SeedFile)
  BY TodoTail DEF Succeed, MemoryOK
<1>2. MemoryOK'
  BY <1>1, IdleIsCall DEF MemoryOK
<1> QED BY <1>1, <1>2, IdleIsCall, IdleInv

\* touch and mkdir.
LEMMA MakeInv ==
    ASSUME FInv, NEW name \in Names, NEW type \in {"file", "dir"}, Make(name, type)
    PROVE  FInv'
<1>1. /\ Create(name, cwd_inode, type) /\ op.pc = "idle"
      /\ UNCHANGED <<formatted, bitmap, data, fs_mounted, cwd_inode, todo, op>>
  BY DEF Make, Command, Ready
<1>2. TableInv' /\ Owned(Inodes)' = Owned(Inodes)
  BY <1>1, CreateKeeps DEF FInv, MemoryOK
<1>3. MemoryOK'
  BY <1>1 DEF FInv, MemoryOK
<1>4. bitmap' = Owned(Inodes)
  BY <1>1 DEF FInv, Marked
<1> QED BY <1>1, <1>2, <1>3, <1>4, IdleInv

\* The start of a write: the search, and the creation if it is in vain.
LEMMA StartWriteInv ==
    ASSUME FInv, op.pc = "idle", NEW name \in Names \cup {Cut}, NEW parent \in Inodes,
           NEW buf \in Buffers, StartWrite(name, parent, buf)
    PROVE  FInv'
<1>1. UNCHANGED <<formatted, bitmap, data, fs_mounted, cwd_inode>>
  BY DEF StartWrite
<1>2. bitmap = Owned(Inodes)
  BY DEF FInv, Marked
<1>3. buf \in Seq(Bytes)
  BY FSAssumption DEF Bytes
<1>4. ASSUME NEW e \in Inodes \ {Root}, op' = [Idle EXCEPT !.pc = "bitmap", !.buf = buf, !.idx = e],
             TableInv', Owned(Inodes)' = Owned(Inodes), inode'[e].type # "free", UNCHANGED todo
      PROVE  FInv'
  <2>1. op' \in Call /\ op'.pc = "bitmap" /\ op'.idx = e /\ op'.i = 0 /\ op'.buf = buf
    <3>1. op' = [pc |-> "bitmap", idx |-> e, buf |-> buf, start |-> 0, i |-> 0, old |-> <<>>]
      BY <1>4 DEF Idle
    <3>2. <<>> \in Seq(Bytes)
      BY EmptySeq
    <3> QED BY <3>1, <3>2, <1>3, DiskSizes DEF Call, WritePcs
  <2>2. MemoryOK'
    BY <1>1, <1>4, <2>1 DEF FInv, MemoryOK
  <2>3. bitmap' = Owned(Inodes)'
    BY <1>1, <1>2, <1>4
  <2>4. Marked' /\ CallEntry' /\ Beginning' /\ Taking' /\ Clearing'
    BY <1>4, <2>1, <2>3 DEF Marked, CallEntry, Beginning, Taking, Clearing
  <2> QED BY <1>4, <2>2, <2>4 DEF FInv
<1>5. CASE /\ Matches(name, parent) # {}
           /\ op' = [Idle EXCEPT !.pc = "bitmap", !.buf = buf,
                                 !.idx = tetfs_find(name, parent)]
           /\ UNCHANGED <<inode, todo>>
  <2>1. TableInv' /\ Owned(Inodes)' = Owned(Inodes)
    BY <1>5 DEF FInv, TableInv, Owned
  <2>2. /\ tetfs_find(name, parent) \in Inodes \ {Root}
        /\ inode[tetfs_find(name, parent)].type # "free"
    BY <1>5, FindsEntry DEF FInv
  <2> QED BY <1>4, <1>5, <2>1, <2>2
<1>6. CASE /\ Create(name, parent, "file")
           /\ op' = [Idle EXCEPT !.pc = "bitmap", !.buf = buf, !.idx = Min(FreeEntries)]
           /\ UNCHANGED todo
  <2>1. /\ TableInv' /\ Owned(Inodes)' = Owned(Inodes)
        /\ Min(FreeEntries) \in Inodes \ {Root}
        /\ inode'[Min(FreeEntries)].type = "file"
    BY <1>6, CreateKeeps DEF FInv
  <2> QED BY <1>4, <1>6, <2>1
<1>7. CASE Fail /\ UNCHANGED inode
  <2>1. MemoryOK'
    BY <1>1, <1>7, IdleIsCall, TodoTail DEF FInv, MemoryOK, Fail
  <2> QED BY <1>1, <1>7, <2>1, IdleIsCall, QuietInv DEF Fail, disk
<1> QED BY <1>5, <1>6, <1>7 DEF StartWrite

\* The names that the callers search and create.
LEMMA StoredName ==
    ASSUME NEW name \in Names
    PROVE  Stored(name) \in Names \cup {Cut}
BY DEF Stored, Names

\* The command write.
LEMMA WriteInv ==
    ASSUME FInv, NEW name \in Names, NEW buf \in Buffers, Write(name, buf)
    PROVE  FInv'
<1>1. op.pc = "idle" /\ StartWrite(Stored(name), cwd_inode, buf)
  BY DEF Write, Command, Ready
<1> QED BY <1>1, StoredName, StartWriteInv DEF FInv, MemoryOK

\* The next of the bundled files.
LEMMA InstallInv ==
    ASSUME FInv, Install
    PROVE  FInv'
<1>1. op.pc = "idle" /\ StartWrite(Head(todo).name, Root, Head(todo).buf)
  BY DEF Install
<1>2. Head(todo).name \in Names /\ Head(todo).buf \in Buffers
  BY TodoTail DEF Install, FInv, MemoryOK, SeedFile, Names
<1> QED BY <1>1, <1>2, StartWriteInv, DiskSizes

\* A write that is refused.
LEMMA WriteRefusedInv ==
    ASSUME FInv, WriteRefused
    PROVE  FInv'
<1>1. op.pc = "bitmap" /\ op' = Idle /\ UNCHANGED disk
  BY DEF WriteRefused, Fail
<1>2. MemoryOK'
  BY IdleIsCall, TodoTail DEF WriteRefused, Fail, FInv, MemoryOK, disk
<1> QED BY <1>1, <1>2, IdleIsCall, QuietInv

\* The commands that look at the disk or at memory only.
LEMMA CommandsInv ==
    ASSUME FInv, (\E name \in Names : Cd(name)) \/ CdUp \/ CdRoot \/ Seed \/ Reboot
    PROVE  FInv'
<1>1. op.pc = "idle" /\ UNCHANGED disk
  BY DEF Cd, CdUp, CdRoot, Seed, Reboot, Command, Ready, PowerCycle
<1>2. cwd_inode \in Inodes /\ inode[cwd_inode].parent \in Inodes \cup {NoParent}
  BY DEF FInv, MemoryOK, TableInv, Entry
<1>3. cwd_inode' \in Inodes
  <2>1. ASSUME NEW name \in Names, Cd(name) PROVE cwd_inode' \in Inodes
    BY <2>1, FindsEntry DEF Cd, FInv
  <2> QED BY <2>1, <1>2, DiskSizes DEF CdUp, CdRoot, Seed, Reboot, PowerCycle
<1>4. /\ op' \in {op, Idle} /\ todo' \in {todo, Seeds, <<>>}
      /\ formatted' = formatted /\ fs_mounted' \in {fs_mounted, formatted}
  BY DEF Cd, CdUp, CdRoot, Seed, Reboot, PowerCycle, disk
<1>5. MemoryOK'
  BY <1>1, <1>3, <1>4, IdleIsCall, TodoTail DEF FInv, MemoryOK, disk
<1>6. op'.pc = "idle"
  BY <1>1, <1>4, IdleIsCall
<1> QED BY <1>1, <1>5, <1>6, QuietInv

\* A file that is emptied keeps its blocks.
LEMMA EmptyEntry ==
    ASSUME NEW m, Sound(m), m.type = "file", NEW n, n = [m EXCEPT !.size = 0]
    PROVE  Sound(n) /\ n.type = "file" /\ EntryExtent(n) = EntryExtent(m)
<1>1. m \in Entry
  BY DEF Sound
<1>2. /\ n.size = 0 /\ n.type = "file" /\ n.start_block = m.start_block
      /\ n.block_count = m.block_count /\ n \in Entry
  BY <1>1, DiskSizes DEF Entry
<1>3. m.block_count * BlockSize \in Nat
  BY EntryNumbers, DiskSizes
<1> QED BY <1>2, <1>3, EntryNumbers DEF Sound, EntryExtent

\* Writing an empty buffer leaves the file its blocks.
LEMMA WriteEmptyInv ==
    ASSUME FInv, WriteEmpty
    PROVE  FInv'
<1> DEFINE e == op.idx
           m == inode[e]
           n == [m EXCEPT !.size = 0]
<1>1. /\ op.pc = "bitmap" /\ m.type = "file" /\ Succeed
      /\ UNCHANGED <<formatted, bitmap, data, fs_mounted, cwd_inode>>
      /\ inode' = [inode EXCEPT ![e].size = 0]
  BY DEF WriteEmpty
<1>2. e \in Inodes /\ Sound(m) /\ m \in Entry
  BY DEF FInv, MemoryOK, Call, TableInv, Sound
<1>3. inode' = [inode EXCEPT ![e] = n]
  BY <1>1, <1>2 DEF FInv, TableInv
<1>4. Sound(n) /\ EntryExtent(n) = EntryExtent(m)
  BY <1>1, <1>2, EmptyEntry
<1>5. Fitting(e, n)
  BY <1>2, <1>4 DEF Fitting, FInv, TableInv
<1> HIDE DEF n, m
<1>6. TableInv'
  BY <1>2, <1>3, <1>5, TableUpdate DEF FInv
<1>7. Owned(Inodes)' = Owned(Inodes)
  BY <1>2, <1>3, <1>4, OwnedUpdate, OwnedSplit DEF FInv, m
<1>8. bitmap' = Owned(Inodes)'
  BY <1>1, <1>7 DEF FInv, Marked
<1> QED BY <1>1, <1>6, <1>8, SucceedInv DEF FInv, MemoryOK

\* A run of free blocks lies on the disk and is free.
LEMMA FitOnDisk ==
    ASSUME Fits # {}, op.buf \in Seq(Bytes)
    PROVE  /\ Min(Fits) \in Blocks
           /\ Min(Fits) + BlocksNeeded(op.buf) <= MaxBlocks
           /\ (Min(Fits) .. Min(Fits) + BlocksNeeded(op.buf) - 1) \cap Others = {}
           /\ (Min(Fits) .. Min(Fits) + BlocksNeeded(op.buf) - 1) \subseteq Blocks
<1>1. Fits \in SUBSET Nat
  BY DiskSizes DEF Fits, Runs
<1>2. Min(Fits) \in Fits
  BY <1>1, MinIsLeast
<1>3. BlocksNeeded(op.buf) \in Nat
  BY BufferFits DEF Bytes
<1>4. /\ Min(Fits) \in Blocks /\ Min(Fits) + BlocksNeeded(op.buf) <= MaxBlocks
      /\ (Min(Fits) .. Min(Fits) + BlocksNeeded(op.buf) - 1) \cap Others = {}
  BY <1>2 DEF Fits, Runs
<1>5. (Min(Fits) .. Min(Fits) + BlocksNeeded(op.buf) - 1) \subseteq Blocks
  BY <1>3, <1>4, DiskSizes DEF Blocks
<1> QED BY <1>4, <1>5

\* It is free of all other files' blocks.
LEMMA FirstFit ==
    ASSUME FInv, op.pc = "bitmap", Fits # {}
    PROVE  /\ Min(Fits) \in Blocks
           /\ Min(Fits) + BlocksNeeded(op.buf) <= MaxBlocks
           /\ (Min(Fits) .. Min(Fits) + BlocksNeeded(op.buf) - 1) \cap Others = {}
           /\ (Min(Fits) .. Min(Fits) + BlocksNeeded(op.buf) - 1) \subseteq Blocks
           /\ Others = Owned(Inodes \ {op.idx})
<1>1. op.buf \in Seq(Bytes)
  BY DEF FInv, MemoryOK, Call
<1>2. Others = Owned(Inodes \ {op.idx})
  BY OwnedSplit DEF Others, Extent, EntryExtent, FInv, MemoryOK, Call, Marked
<1> QED BY <1>1, <1>2, FitOnDisk

\* The bitmap is written: the file's own blocks are given up and a run that
\* is free otherwise is taken.
LEMMA WriteBitmapInv ==
    ASSUME FInv, WriteBitmap
    PROVE  FInv'
<1> DEFINE s == Min(Fits)
           c == BlocksNeeded(op.buf)
<1>1. /\ op.pc = "bitmap" /\ Writable /\ op.buf # <<>>
      /\ bitmap' = Others \cup (s .. s + c - 1)
      /\ op' = [op EXCEPT !.pc = "data", !.start = s, !.old = Contents(op.idx)]
      /\ UNCHANGED <<formatted, inode, data, fs_mounted, cwd_inode, todo>>
  BY DEF WriteBitmap
<1>2. /\ s \in Blocks /\ s + c <= MaxBlocks
      /\ (s .. s + c - 1) \cap Others = {}
      /\ (s .. s + c - 1) \subseteq Blocks
      /\ Others = Owned(Inodes \ {op.idx})
  BY <1>1, FirstFit DEF Writable
<1>3. op \in Call /\ op.idx \in Inodes /\ op.i = 0 /\ op.buf \in Buffers /\ c \in Nat /\ c >= 1
  BY <1>1, BufferFits DEF FInv, MemoryOK, Call, Beginning, Bytes
<1>4. Contents(op.idx) \in Seq(Bytes)
  BY <1>3, ContentsIs DEF FInv
<1> HIDE DEF s, c
<1>5. /\ op' \in Call /\ op'.pc = "data" /\ op'.idx = op.idx /\ op'.buf = op.buf
      /\ op'.start = s /\ op'.i = 0
  BY <1>1, <1>2, <1>3, <1>4 DEF Call, WritePcs
<1>6. TableInv' /\ Owned(Inodes \ {op.idx})' = Owned(Inodes \ {op.idx})
  <2>1. inode' = inode /\ op'.idx = op.idx
    BY <1>1, <1>5
  <2>2. TableInv'
    BY <2>1 DEF FInv, TableInv
  <2>3. Owned(Inodes \ {op.idx})' = Owned(Inodes \ {op.idx})
    BY <2>1 DEF Owned
  <2> QED BY <2>2, <2>3
<1>7. Run_(op') = s .. s + c - 1
  BY <1>5 DEF Run_, c
<1>8. MemoryOK'
  <2>1. bitmap' \subseteq Blocks
    BY <1>1, <1>2 DEF Owned
  <2> QED BY <1>1, <1>5, <2>1 DEF FInv, MemoryOK
<1>9. Marked'
  BY <1>1, <1>2, <1>5, <1>6, <1>7 DEF Marked
<1>10. ASSUME NEW k \in Inodes \ {op.idx}
       PROVE  EntryExtent(inode[k]) \cap (s .. s + c - 1) = {}
  BY <1>2 DEF Owned
<1>11. Taking'
  <2>1. op'.i = 0 /\ 0 .. op'.i - 1 = {} /\ 0 < c /\ 0 <= c
    BY <1>3, <1>5
  <2>2. op'.buf \in Buffers /\ op'.buf # <<>> /\ inode'[op'.idx].type = "file" /\ c <= MaxFileBlocks
    BY <1>1, <1>3, <1>5 DEF Writable, c
  <2>3. \A k \in Inodes \ {op'.idx} : EntryExtent(inode'[k]) \cap Run_(op') = {}
    BY <1>1, <1>5, <1>7, <1>10
  <2>4. BlocksNeeded(op'.buf) = c
    BY <1>5 DEF c
  <2> QED BY <2>1, <2>2, <2>3, <2>4, <1>2, <1>5 DEF Taking
<1>12. CallEntry' /\ Beginning' /\ Clearing'
  BY <1>1, <1>5 DEF FInv, CallEntry, Beginning, Clearing, WritePcs
<1> QED BY <1>6, <1>8, <1>9, <1>11, <1>12 DEF FInv

\* What is written to a block is a block.
LEMMA ChunkIsBlock ==
    ASSUME NEW buf \in Seq(Bytes), NEW i \in Nat
    PROVE  Chunk(buf, i) \in Block
<1>1. Len(buf) \in Nat /\ \A k \in 1 .. Len(buf) : buf[k] \in Bytes
  BY LenProperties, ElementOfSeq
<1>2. i * BlockSize \in Nat
  BY DiskSizes
<1>3. ASSUME NEW k \in 1 .. BlockSize, i * BlockSize + k <= Len(buf)
      PROVE  buf[i * BlockSize + k] \in Bytes
  <2>1. i * BlockSize + k \in 1 .. Len(buf)
    BY <1>1, <1>2, <1>3, DiskSizes
  <2> QED BY <1>1, <2>1
<1>4. 0 \in Bytes
  BY DEF Bytes
<1> QED BY <1>3, <1>4 DEF Chunk, Block

\* The next block of the run is written.
LEMMA WriteDataInv ==
    ASSUME FInv, WriteData
    PROVE  FInv'
<1> DEFINE c == BlocksNeeded(op.buf)
           b == op.start + op.i
<1>1. /\ op.pc = "data"
      /\ data' = [data EXCEPT ![b] = Chunk(op.buf, op.i)]
      /\ op' = [op EXCEPT !.i = op.i + 1,
                          !.pc = IF op.i + 1 < c THEN "data" ELSE "inode"]
      /\ UNCHANGED <<formatted, inode, bitmap, fs_mounted, cwd_inode, todo>>
  BY DEF WriteData
<1>2. /\ op \in Call /\ op.i \in Nat /\ c \in Nat /\ op.i < c /\ op.start \in Nat
      /\ op.start + c <= MaxBlocks /\ op.buf \in Seq(Bytes) /\ op.idx \in Inodes
  BY <1>1, BufferFits, DiskSizes DEF FInv, MemoryOK, Call, Taking, Bytes
<1>3. b \in Blocks
  BY <1>2, DiskSizes DEF Blocks
<1>4. /\ op' \in Call /\ op'.idx = op.idx /\ op'.buf = op.buf /\ op'.start = op.start
      /\ op'.i = op.i + 1 /\ op'.pc = IF op.i + 1 < c THEN "data" ELSE "inode"
  <2>1. op.i + 1 \in Nat
    BY <1>2
  <2> HIDE DEF c
  <2>2. (IF op.i + 1 < c THEN "data" ELSE "inode") \in WritePcs
    BY DEF WritePcs
  <2> QED BY <1>1, <1>2, <2>1, <2>2 DEF Call
<1>5. data' \in [Blocks -> Block] /\ \A x \in Blocks : x # b => data'[x] = data[x]
  BY <1>1, <1>2, <1>3, ChunkIsBlock DEF FInv, MemoryOK
<1>6. data'[b] = Chunk(op.buf, op.i)
  BY <1>1, <1>3 DEF FInv, MemoryOK
<1>7. TableInv' /\ MemoryOK'
  BY <1>1, <1>4, <1>5 DEF FInv, TableInv, MemoryOK
<1>8. Run_(op') = Run_(op) /\ BlocksNeeded(op'.buf) = c /\ op'.pc \in {"data", "inode"}
  BY <1>4 DEF Run_
<1>9. Marked' /\ CallEntry' /\ Beginning' /\ Clearing'
  BY <1>1, <1>4, <1>8 DEF FInv, Marked, CallEntry, Beginning, Clearing, Owned, WritePcs
<1>10. ASSUME NEW x \in 0 .. op'.i - 1
       PROVE  data'[op'.start + x] = Chunk(op'.buf, x)
  <2>1. x \in Nat /\ x <= op.i
    BY <1>2, <1>4
  <2>2. CASE x = op.i
    BY <2>2, <1>4, <1>6
  <2>3. CASE x # op.i
    <3>1. x \in 0 .. op.i - 1 /\ op.start + x # b /\ op.start + x \in Blocks
      BY <2>1, <2>3, <1>2, DiskSizes DEF Blocks
    <3>2. data[op.start + x] = Chunk(op.buf, x)
      BY <3>1, <1>1 DEF FInv, Taking
    <3> HIDE DEF b
    <3> QED BY <3>1, <3>2, <1>4, <1>5
  <2> QED BY <2>2, <2>3
<1> HIDE DEF b, c
<1>11. Taking'
  <2>1. op'.i <= c /\ (op'.pc = "data" <=> op'.i < c)
    BY <1>2, <1>4
  <2> QED BY <2>1, <1>1, <1>4, <1>8, <1>10 DEF FInv, Taking, c
<1> QED BY <1>7, <1>9, <1>11 DEF FInv

\* The entry m with a run of blocks that holds buf.
WithRun(m, start, buf) ==
    [m EXCEPT !.start_block = start, !.block_count = BlocksNeeded(buf), !.size = Len(buf)]

\* The entry of a file that has been given blocks on the disk.
LEMMA NewEntry ==
    ASSUME NEW m, Sound(m), m.type = "file", NEW buf \in Seq(Bytes), NEW start \in Blocks,
           BlocksNeeded(buf) <= MaxFileBlocks, start + BlocksNeeded(buf) <= MaxBlocks
    PROVE  /\ Sound(WithRun(m, start, buf))
           /\ EntryExtent(WithRun(m, start, buf)) = start .. start + BlocksNeeded(buf) - 1
<1> DEFINE n == WithRun(m, start, buf)
<1>1. m \in Entry
  BY DEF Sound
<1>2. /\ BlocksNeeded(buf) \in 0 .. MaxFileBlocks
      /\ Len(buf) \in 0 .. MaxFileBlocks * BlockSize
      /\ Len(buf) <= BlocksNeeded(buf) * BlockSize
  BY BufferFits, DiskSizes DEF Bytes
<1>3. /\ n.size = Len(buf) /\ n.type = "file" /\ n.start_block = start
      /\ n.block_count = BlocksNeeded(buf) /\ n \in Entry
  BY <1>1, <1>2 DEF Entry, WithRun
<1> HIDE DEF n
<1>4. Sound(n) /\ EntryExtent(n) = start .. start + BlocksNeeded(buf) - 1
  BY <1>2, <1>3 DEF Sound, EntryExtent
<1> QED BY <1>4 DEF n

\* The entry is written last: the file has the new blocks.
LEMMA WriteInodeInv ==
    ASSUME FInv, WriteInode
    PROVE  FInv'
<1> DEFINE e == op.idx
           m == inode[e]
           n == WithRun(m, op.start, op.buf)
<1>1. /\ op.pc = "inode" /\ Succeed
      /\ UNCHANGED <<formatted, bitmap, data, fs_mounted, cwd_inode>>
      /\ inode' = [inode EXCEPT ![e].start_block = op.start,
                                ![e].block_count = BlocksNeeded(op.buf),
                                ![e].size = Len(op.buf)]
  BY DEF WriteInode
<1>2. /\ e \in Inodes /\ Sound(m) /\ m \in Entry /\ m.type = "file"
      /\ op.buf \in Seq(Bytes) /\ op.start \in Blocks
      /\ BlocksNeeded(op.buf) <= MaxFileBlocks
      /\ op.start + BlocksNeeded(op.buf) <= MaxBlocks
  BY <1>1 DEF FInv, MemoryOK, Call, TableInv, Sound, Taking
<1>3. inode' = [inode EXCEPT ![e] = n]
  BY <1>1, <1>2 DEF FInv, TableInv, WithRun
<1>4. Sound(n) /\ EntryExtent(n) = Run_(op)
  BY <1>2, NewEntry DEF Run_
<1> HIDE DEF n
<1>5. Fitting(e, n)
  BY <1>1, <1>4 DEF Fitting, FInv, Taking
<1>6. TableInv'
  BY <1>2, <1>3, <1>5, TableUpdate DEF FInv
<1>7. Owned(Inodes)' = Owned(Inodes \ {e}) \cup Run_(op)
  BY <1>2, <1>3, <1>4, OwnedUpdate DEF FInv
<1>8. bitmap' = Owned(Inodes)'
  BY <1>1, <1>7 DEF FInv, Marked
<1> QED BY <1>1, <1>6, <1>8, SucceedInv DEF FInv, MemoryOK

\* An entry is cleared once its blocks are free.
LEMMA ClearEntry ==
    ASSUME TableInv, NEW e \in Inodes, inode' = [inode EXCEPT ![e] = FreeInode]
    PROVE  TableInv' /\ Owned(Inodes)' = Owned(Inodes \ {e})
<1>1. Fitting(e, FreeInode)
  BY BlankEntries DEF Fitting
<1>2. TableInv'
  BY <1>1, TableUpdate
<1>3. Sound(FreeInode) /\ EntryExtent(FreeInode) = {}
  BY BlankEntries
<1>4. Owned(Inodes)' = Owned(Inodes \ {e}) \cup EntryExtent(FreeInode)
  BY <1>3, OwnedUpdate
<1> QED BY <1>2, <1>3, <1>4

\* The second write of tetfs_delete.
LEMMA UnlinkInv ==
    ASSUME FInv, Unlink
    PROVE  FInv'
<1>1. /\ op.pc = "unlink" /\ Succeed /\ op.idx \in Inodes
      /\ UNCHANGED <<formatted, bitmap, data, fs_mounted, cwd_inode>>
      /\ inode' = [inode EXCEPT ![op.idx] = FreeInode]
  BY DEF Unlink, FInv, MemoryOK, Call
<1>2. TableInv' /\ bitmap' = Owned(Inodes)'
  BY <1>1, ClearEntry DEF FInv, Marked
<1> QED BY <1>1, <1>2, SucceedInv DEF FInv, MemoryOK

\* rm: the blocks first, the entry at once if it has none.
LEMMA RmInv ==
    ASSUME FInv, NEW name \in Names, Rm(name)
    PROVE  FInv'
<1>1. /\ op.pc = "idle" /\ Matches(name, cwd_inode) # {}
      /\ UNCHANGED <<formatted, data, fs_mounted, cwd_inode, todo>>
  BY DEF Rm, Command, Ready
<1>e. PICK e \in Inodes \ {Root} : e = tetfs_find(name, cwd_inode)
  BY <1>1, FindsEntry DEF FInv
<1>2. e \in Inodes \ {Root} /\ inode[e].type # "free" /\ Sound(inode[e])
  BY <1>1, <1>e, FindsEntry DEF FInv, TableInv
<1>3. bitmap = Owned(Inodes)
  BY <1>1 DEF FInv, Marked
<1>4. CASE /\ inode[e].block_count > 0
           /\ bitmap' = bitmap \ Extent(e)
           /\ op' = [Idle EXCEPT !.pc = "unlink", !.idx = e]
           /\ UNCHANGED inode
  <2>1. op' \in Call /\ op'.pc = "unlink" /\ op'.idx = e
    <3>1. op' = [pc |-> "unlink", idx |-> e, buf |-> <<>>, start |-> 0, i |-> 0, old |-> <<>>]
      BY <1>4 DEF Idle
    <3>2. <<>> \in Seq(Bytes)
      BY EmptySeq
    <3> QED BY <3>1, <3>2, <1>2, DiskSizes DEF Call
  <2>2. bitmap' = Owned(Inodes \ {e})
    BY <1>2, <1>3, <1>4, OwnedSplit DEF Extent, EntryExtent, FInv
  <2>3. TableInv' /\ Owned(Inodes \ {e})' = Owned(Inodes \ {e})
    BY <1>4 DEF FInv, TableInv, Owned
  <2>4. MemoryOK'
    BY <1>1, <2>1, <2>2 DEF FInv, MemoryOK, Owned
  <2> QED BY <1>2, <1>4, <2>1, <2>2, <2>3, <2>4
          DEF FInv, Marked, CallEntry, Beginning, Taking, Clearing, WritePcs
<1>5. CASE /\ ~(inode[e].block_count > 0)
           /\ inode' = [inode EXCEPT ![e] = FreeInode]
           /\ UNCHANGED <<bitmap, op>>
  <2>1. EntryExtent(inode[e]) = {}
    BY <1>2, <1>5, EntryNumbers DEF EntryExtent
  <2>2. TableInv' /\ Owned(Inodes)' = Owned(Inodes \ {e})
    BY <1>2, <1>5, ClearEntry DEF FInv
  <2>3. bitmap' = Owned(Inodes)'
    BY <1>2, <1>3, <1>5, <2>1, <2>2, OwnedSplit DEF FInv
  <2>4. MemoryOK'
    BY <1>1, <1>5 DEF FInv, MemoryOK
  <2> QED BY <1>1, <1>5, <2>2, <2>3, <2>4, IdleInv
<1> QED BY <1>e, <1>4, <1>5 DEF Rm

\* format: the superblock, and with it the end of what was there.
LEMMA FormatInv ==
    ASSUME FInv, Format
    PROVE  FInv'
<1>1. /\ op' = [Idle EXCEPT !.pc = "format_inodes"] /\ formatted' = TRUE
      /\ UNCHANGED <<inode, bitmap, data, fs_mounted, cwd_inode, todo>>
  BY DEF Format
<1>2. op' \in Call /\ op'.pc = "format_inodes" /\ op'.i = 0
  <2>1. op' = [pc |-> "format_inodes", idx |-> Root, buf |-> <<>>, start |-> 0, i |-> 0, old |-> <<>>]
    BY <1>1 DEF Idle
  <2>2. <<>> \in Seq(Bytes)
    BY EmptySeq
  <2> QED BY <2>1, <2>2, DiskSizes DEF Call, FormatPcs
<1>3. TableInv' /\ MemoryOK'
  BY <1>1, <1>2 DEF FInv, TableInv, MemoryOK
<1>4. op'.i * PerSector < MaxInodes /\ \A k \in Inodes : ~(k \div PerSector < op'.i)
  <2>1. \A k \in Nat : k \div PerSector \in Nat
    BY DiskSizes
  <2>2. 0 * PerSector = 0
    BY DiskSizes
  <2> QED BY <1>2, <2>1, <2>2, DiskSizes
<1> QED BY <1>2, <1>3, <1>4
        DEF FInv, Marked, CallEntry, Beginning, Taking, Clearing, WritePcs

\* The sector cleared last adds to those cleared before.
LEMMA SectorCleared ==
    ASSUME op.i \in Nat, Clearing, FormatInodes, inode' \in [Inodes -> Entry],
           op'.i = op.i + 1,
           op'.pc = IF (op.i + 1) * PerSector < MaxInodes
                    THEN "format_inodes" ELSE "format_bitmap"
    PROVE  Clearing'
<1> DEFINE last == ~((op.i + 1) * PerSector < MaxInodes)
<1>1. /\ op.pc = "format_inodes"
      /\ \A k \in Inodes : inode'[k] = IF k \div PerSector = op.i THEN FreeInode ELSE inode[k]
  BY DEF FormatInodes
<1>2. ASSUME NEW k \in Inodes, k \div PerSector < op.i + 1
      PROVE  inode'[k] = FreeInode
  <2>1. k \div PerSector \in Nat
    BY DiskSizes
  <2>2. k \div PerSector < op.i \/ k \div PerSector = op.i
    BY <1>2, <2>1
  <2>3. \A j \in Inodes : j \div PerSector < op.i => inode[j] = FreeInode
    BY <1>1 DEF Clearing
  <2> QED BY <2>2, <2>3, <1>1
<1>3. ASSUME last, NEW k \in Inodes PROVE k \div PerSector < op.i + 1
  <2>1. k < (op.i + 1) * PerSector
    <3>1. (op.i + 1) * PerSector \in Nat
      BY DiskSizes
    <3> QED BY <1>3, <3>1, DiskSizes DEF Inodes
  <2> QED BY <2>1, DiskSizes
<1> HIDE DEF last
<1>4. CASE last
  <2>1. \A k \in Inodes : inode'[k] = FreeInode
    BY <1>2, <1>3, <1>4
  <2>2. op'.pc = "format_bitmap"
    BY <1>4 DEF last
  <2> QED BY <2>1, <2>2 DEF Clearing
<1>5. CASE ~last
  <2>1. op'.pc = "format_inodes" /\ op'.i * PerSector < MaxInodes
    BY <1>5 DEF last
  <2>2. \A k \in Inodes : k \div PerSector < op'.i => inode'[k] = FreeInode
    BY <1>2
  <2> QED BY <2>1, <2>2 DEF Clearing
<1> QED BY <1>4, <1>5

\* The table is cleared sector by sector.
LEMMA FormatInodesInv ==
    ASSUME FInv, FormatInodes
    PROVE  FInv'
<1> DEFINE last == ~((op.i + 1) * PerSector < MaxInodes)
<1>1. /\ op.pc = "format_inodes"
      /\ inode' = [k \in Inodes |-> IF k \div PerSector = op.i THEN FreeInode ELSE inode[k]]
      /\ op' = [op EXCEPT !.i = op.i + 1,
                          !.pc = IF (op.i + 1) * PerSector < MaxInodes
                                 THEN "format_inodes" ELSE "format_bitmap"]
      /\ UNCHANGED <<formatted, bitmap, data, fs_mounted, cwd_inode, todo>>
  BY DEF FormatInodes
<1>2. op \in Call /\ op.i \in Nat /\ op.i + 1 \in Nat
  BY DEF FInv, MemoryOK, Call
<1>3. /\ op' \in Call /\ op'.i = op.i + 1
      /\ op'.pc = IF last THEN "format_bitmap" ELSE "format_inodes"
  <2>1. (IF last THEN "format_bitmap" ELSE "format_inodes") \in FormatPcs
    BY DEF FormatPcs
  <2>2. op' = [op EXCEPT !.i = op.i + 1, !.pc = IF last THEN "format_bitmap" ELSE "format_inodes"]
    BY <1>1
  <2> HIDE DEF last
  <2> QED BY <1>2, <2>1, <2>2 DEF Call
<1>4. \A k \in Inodes : inode'[k] \in {FreeInode, inode[k]}
  BY <1>1
<1>5. TableInv'
  <2>1. Sound(FreeInode) /\ EntryExtent(FreeInode) = {}
    BY BlankEntries
  <2>2. \A k \in Inodes : Sound(inode'[k])
    BY <1>4, <2>1 DEF FInv, TableInv
  <2>3. inode' \in [Inodes -> Entry]
    BY <1>1, <2>2 DEF Sound
  <2>4. ASSUME NEW j \in Inodes, NEW k \in Inodes, j # k
        PROVE  EntryExtent(inode'[j]) \cap EntryExtent(inode'[k]) = {}
    BY <1>4, <2>1, <2>4 DEF FInv, TableInv
  <2> QED BY <2>2, <2>3, <2>4 DEF TableInv
<1>6. MemoryOK'
  BY <1>1, <1>3 DEF FInv, MemoryOK
<1>7. Clearing'
  BY <1>2, <1>3, <1>5, SectorCleared DEF FInv, TableInv
<1>8. op'.pc \in FormatPcs
  BY <1>3 DEF FormatPcs
<1> HIDE DEF last
<1> QED BY <1>5, <1>6, <1>7, <1>8
        DEF FInv, Marked, CallEntry, Beginning, Taking, WritePcs, FormatPcs

\* The bitmap is cleared, and the root written.
LEMMA FormatEndsInv ==
    ASSUME FInv, FormatBitmap \/ FormatRoot
    PROVE  FInv'
<1>1. CASE FormatBitmap
  <2>1. /\ op.pc = "format_bitmap" /\ bitmap' = {}
        /\ op' = [op EXCEPT !.pc = "format_root"]
        /\ UNCHANGED <<formatted, inode, data, fs_mounted, cwd_inode, todo>>
    BY <1>1 DEF FormatBitmap
  <2>2. op' \in Call /\ op'.pc = "format_root"
    BY <2>1 DEF FInv, MemoryOK, Call, FormatPcs
  <2>3. TableInv' /\ MemoryOK'
    BY <2>1, <2>2 DEF FInv, TableInv, MemoryOK
  <2> QED BY <2>1, <2>2, <2>3
          DEF FInv, Marked, CallEntry, Beginning, Taking, Clearing, WritePcs
<1>2. CASE FormatRoot
  <2>1. /\ op.pc = "format_root" /\ op' = Idle /\ fs_mounted' = TRUE /\ todo' = Seeds
        /\ inode' = [inode EXCEPT ![Root] = RootInode]
        /\ UNCHANGED <<formatted, bitmap, data, cwd_inode>>
    BY <1>2 DEF FormatRoot
  <2>2. Fitting(Root, RootInode)
    BY BlankEntries DEF Fitting
  <2>3. TableInv'
    BY <2>1, <2>2, TableUpdate, DiskSizes DEF FInv
  <2>4. /\ bitmap = {}
        /\ \A k \in Inodes : EntryExtent(inode[k]) = {}
    BY <2>1, BlankEntries DEF FInv, Clearing
  <2>5. Owned(Inodes)' = Owned(Inodes \ {Root}) \cup EntryExtent(RootInode)
    BY <2>1, OwnedUpdate, BlankEntries, DiskSizes DEF FInv
  <2>6. Owned(Inodes)' = {}
    BY <2>4, <2>5, BlankEntries DEF Owned
  <2>7. MemoryOK'
    BY <2>1, TodoTail, IdleIsCall DEF FInv, MemoryOK
  <2> QED BY <2>1, <2>3, <2>4, <2>6, <2>7, IdleIsCall, IdleInv
<1> QED BY <1>1, <1>2

\* A new disk is full of zeros.
LEMMA FInitFInv == FInit => FInv
<1> SUFFICES ASSUME FInit PROVE FInv
  OBVIOUS
<1>1. \A k \in Inodes : inode[k] = FreeInode
  BY DEF FInit
<1>2. TableInv /\ Owned(Inodes) = {}
  BY <1>1, BlankEntries DEF TableInv, Owned, FInit, Sound
<1>3. Zero \in Block
  BY DEF Zero, Block, Bytes
<1>4. MemoryOK
  BY <1>3, TodoTail, IdleIsCall, EmptySeq, DiskSizes DEF FInit, MemoryOK
<1> QED BY <1>2, <1>4, IdleIsCall
        DEF FInit, FInv, Marked, CallEntry, Beginning, Taking, Clearing, WritePcs

\* Every step of the shell and every restart keeps the invariant.
LEMMA FNextFInv == FInv /\ [FNext]_fvars => FInv'
<1> SUFFICES ASSUME FInv, [FNext]_fvars PROVE FInv'
  OBVIOUS
<1>1. CASE \E name \in Names : Make(name, "file") \/ Make(name, "dir")
  BY <1>1, MakeInv
<1>2. CASE \E name \in Names : Rm(name)
  BY <1>2, RmInv
<1>3. CASE \E name \in Names, buf \in Buffers : Write(name, buf)
  BY <1>3, WriteInv
<1>4. CASE (\E name \in Names : Cd(name)) \/ CdUp \/ CdRoot \/ Seed \/ Reboot
  BY <1>4, CommandsInv
<1>5. CASE WriteRefused \/ WriteEmpty \/ WriteBitmap \/ WriteData \/ WriteInode \/ Unlink
  BY <1>5, WriteRefusedInv, WriteEmptyInv, WriteBitmapInv, WriteDataInv, WriteInodeInv, UnlinkInv
<1>6. CASE Format \/ FormatInodes \/ FormatBitmap \/ FormatRoot
  BY <1>6, FormatInv, FormatInodesInv, FormatEndsInv
<1>7. CASE Install
  BY <1>7, InstallInv
<1>8. CASE UNCHANGED fvars
  BY <1>8 DEF fvars, disk, FInv, TableInv, MemoryOK, Marked, Owned, CallEntry, Beginning,
              Taking, Clearing
<1> QED BY <1>1, <1>2, <1>3, <1>4, <1>5, <1>6, <1>7, <1>8 DEF FNext, Shell

\* A fault that is not midway finds the disk as a call leaves it.
LEMMA GentleCall ==
    ASSUME FInv, GentleFault
    PROVE  /\ op.pc \in {"idle", "bitmap"} /\ op'.pc = "idle"
           /\ UNCHANGED disk /\ MemoryOK'
<1>1. op.pc \in {"idle", "bitmap"}
  BY DEF GentleFault, Midway, FInv, MemoryOK, Call, WritePcs, FormatPcs
<1>2. /\ op' = Idle /\ todo' \in {Seeds, <<>>} /\ cwd_inode' \in {Root, cwd_inode}
      /\ fs_mounted' \in {formatted, fs_mounted} /\ UNCHANGED disk
  BY DEF GentleFault, Crash, WriteError, PowerCycle, Fail
<1>3. MemoryOK'
  BY <1>2, IdleIsCall, TodoTail, DiskSizes DEF FInv, MemoryOK, disk
<1> QED BY <1>1, <1>2, <1>3, IdleIsCall

\* Every step but a fault midway keeps the invariant.
LEMMA GentleFInv == FInv /\ [FNext \/ GentleFault]_fvars => FInv'
<1>1. FInv /\ GentleFault => FInv'
  BY GentleCall, QuietInv
<1> QED BY <1>1, FNextFInv

\* The inductive invariant of tetFS: sound entries, files that share no
\* block, a bitmap that is exact but for the call under way, and a call under
\* way that has written to no other file's blocks.  A power cut or a failing
\* disk breaks it only between the first and the last sector a call writes.
THEOREM FileSystemInvariance == GentleSpec => []FInv
<1> QED BY FInitFInv, GentleFInv, PTL DEF GentleSpec

\* Type correctness of the disk and of the shell's view of it.
THEOREM FileSystemTypeCorrect == GentleSpec => []FTypeOK
<1>1. FInv => FTypeOK
  BY DEF FInv, TableInv, MemoryOK, FTypeOK, Entry
<1> QED BY <1>1, FileSystemInvariance, PTL

\* The invariant, put in terms of the files.
LEMMA ExactWhenIdle == FInv => BlocksExact
<1> SUFFICES ASSUME FInv, op.pc = "idle" PROVE BlocksExact
  BY DEF BlocksExact
<1>1. \A k \in Inodes : Extent(k) = EntryExtent(inode[k]) /\ Extent(k) \subseteq Blocks
  BY ExtentOnDisk DEF Extent, EntryExtent, FInv, TableInv
<1>2. \A k \in Inodes : ~Used(k) => Extent(k) = {}
  BY <1>1, BlankEntries DEF Used, FInv, TableInv, Sound
<1>3. bitmap = Owned(Inodes)
  BY DEF FInv, Marked
<1>4. bitmap = UNION {Extent(k) : k \in {i \in Inodes : Used(i)}}
  BY <1>1, <1>2, <1>3 DEF Owned
<1>5. \A i, j \in Inodes : i # j => Extent(i) \cap Extent(j) = {}
  BY <1>1 DEF FInv, TableInv
<1> QED BY <1>4, <1>5 DEF BlocksExact

\* Between two calls the bitmap marks exactly the blocks of files and no
\* block belongs to two of them.
THEOREM BlocksSafety == GentleSpec => []BlocksExact
<1> QED BY ExactWhenIdle, FileSystemInvariance, PTL

-----------------------------------------------------------------------------
(* Faults midway.  What they can do to the disk, and that format undoes it. *)

\* Entries of the type the disk has, whose blocks lie on it.  Those of two
\* entries may be the same.
EntriesOK == inode \in [Inodes -> Entry] /\ \A k \in Inodes : Sound(inode[k])

DiskOK ==
    /\ formatted \in BOOLEAN /\ fs_mounted \in BOOLEAN
    /\ cwd_inode \in Inodes
    /\ bitmap \subseteq Blocks
    /\ data \in [Blocks -> Block]
    /\ todo \in Seq(SeedFile)
    /\ EntriesOK

\* A call, whatever its ghost.
CallFields(o) ==
    o \in [pc : {"idle", "unlink"} \cup WritePcs \cup FormatPcs, idx : Inodes,
           buf : Seq(Bytes), start : Blocks, i : Nat, old : {o.old}]

\* The call under way writes within the disk.
WithinDisk ==
    op.pc \in {"data", "inode"} =>
        /\ inode[op.idx].type = "file"
        /\ BlocksNeeded(op.buf) <= MaxFileBlocks
        /\ op.start + BlocksNeeded(op.buf) <= MaxBlocks

\* The inductive invariant under any fault.
FaultyInv == DiskOK /\ CallFields(op) /\ WithinDisk /\ Clearing

\* Sound entries stay so with one that is sound.
LEMMA EntryWritten ==
    ASSUME EntriesOK, NEW e \in Inodes, NEW n, Sound(n), inode' = [inode EXCEPT ![e] = n]
    PROVE  EntriesOK'
<1>1. \A k \in Inodes : inode'[k] = IF k = e THEN n ELSE inode[k]
  BY DEF EntriesOK
<1>2. n \in Entry
  BY DEF Sound
<1> QED BY <1>1, <1>2 DEF EntriesOK

\* tetfs_create, on any disk.
LEMMA CreateSound ==
    ASSUME EntriesOK, NEW name \in Names \cup {Cut}, NEW parent \in Inodes,
           NEW type \in {"file", "dir"}, Create(name, parent, type)
    PROVE  EntriesOK' /\ Min(FreeEntries) \in Inodes
<1> DEFINE e == Min(FreeEntries)
           n == [FreeInode EXCEPT !.type = type, !.name = Stored(name), !.parent = parent]
<1>1. inode' = [inode EXCEPT ![e] = n] /\ FreeEntries # {}
  BY DEF Create
<1>2. FreeEntries \in SUBSET Nat
  BY DiskSizes DEF FreeEntries
<1>3. e \in Inodes
  BY <1>1, <1>2, MinIsLeast DEF FreeEntries
<1>4. Stored(name) \in Names \cup {Cut}
  BY DEF Stored, Names
<1>5. Sound(n)
  BY <1>4, BlankEntries
<1> HIDE DEF e, n
<1>6. EntriesOK'
  BY <1>1, <1>3, <1>5, EntryWritten
<1> QED BY <1>3, <1>6 DEF e

\* The search by name, on any disk.
LEMMA FindsNumber ==
    ASSUME NEW name, NEW parent, Matches(name, parent) # {}
    PROVE  tetfs_find(name, parent) \in Inodes
<1>1. Matches(name, parent) \in SUBSET Nat
  BY DiskSizes DEF Matches
<1> QED BY <1>1, MinIsLeast DEF tetfs_find, Matches

\* A call that is idle, or has just begun.
LEMMA NewCall ==
    /\ CallFields(Idle)
    /\ \A pc \in {"bitmap", "unlink", "format_inodes"}, e \in Inodes, buf \in Seq(Bytes) :
          \A o : o = [pc |-> pc, idx |-> e, buf |-> buf, start |-> 0, i |-> 0, old |-> <<>>]
                   => CallFields(o) /\ o.pc = pc /\ o.i = 0
<1>1. CallFields(Idle)
  BY IdleIsCall DEF CallFields, Call
<1>2. ASSUME NEW pc \in {"bitmap", "unlink", "format_inodes"}, NEW e \in Inodes,
             NEW buf \in Seq(Bytes), NEW o,
             o = [pc |-> pc, idx |-> e, buf |-> buf, start |-> 0, i |-> 0, old |-> <<>>]
      PROVE  CallFields(o) /\ o.pc = pc /\ o.i = 0
  <2>1. o.old = <<>> /\ o.pc = pc /\ o.i = 0
    BY <1>2
  <2> QED BY <1>2, <2>1, DiskSizes DEF CallFields, WritePcs, FormatPcs
<1> QED BY <1>1, <1>2

\* Before a call has written, only the disk counts.
LEMMA BeforeWriting ==
    ASSUME DiskOK', CallFields(op'), op'.pc \in {"idle", "bitmap", "unlink"}
    PROVE  FaultyInv'
BY DEF FaultyInv, WithinDisk, Clearing

\* What changes no sector: the commands that only look, what is refused, and
\* the faults themselves.
LEMMA DiskKept ==
    ASSUME FaultyInv,
           \/ \E name \in Names : Cd(name)
           \/ CdUp \/ CdRoot \/ Seed \/ Reboot \/ WriteRefused \/ Crash \/ WriteError
    PROVE  FaultyInv'
<1>1. /\ UNCHANGED disk
      /\ op' = Idle \/ (op.pc = "idle" /\ op' = op)
      /\ todo' \in {todo, Seeds, <<>>} /\ fs_mounted' \in {fs_mounted, formatted}
  BY DEF Cd, CdUp, CdRoot, Seed, Reboot, WriteRefused, Crash, WriteError, Command, Ready,
         PowerCycle, Fail
<1>2. cwd_inode \in Inodes /\ inode[cwd_inode].parent \in Inodes \cup {NoParent}
  BY DEF FaultyInv, DiskOK, EntriesOK, Entry
<1>3. cwd_inode' \in Inodes
  <2>1. ASSUME NEW name \in Names, Cd(name) PROVE cwd_inode' \in Inodes
    BY <2>1, FindsNumber DEF Cd
  <2> QED BY <2>1, <1>2, DiskSizes
          DEF CdUp, CdRoot, Seed, Reboot, WriteRefused, Crash, WriteError, PowerCycle
<1>4. todo' \in Seq(SeedFile)
  BY <1>1, TodoTail DEF FaultyInv, DiskOK
<1>5. DiskOK'
  BY <1>1, <1>3, <1>4 DEF FaultyInv, DiskOK, EntriesOK, disk
<1>6. CallFields(op') /\ op'.pc = "idle"
  BY <1>1, NewCall, IdleIsCall DEF FaultyInv
<1> QED BY <1>5, <1>6, BeforeWriting

\* touch, mkdir and rm.
LEMMA CommandOnAny ==
    ASSUME FaultyInv, NEW name \in Names,
           Make(name, "file") \/ Make(name, "dir") \/ Rm(name)
    PROVE  FaultyInv'
<1>1. CASE Make(name, "file") \/ Make(name, "dir")
  <2>1. PICK type \in {"file", "dir"} : Make(name, type)
    BY <1>1
  <2>2. /\ Create(name, cwd_inode, type) /\ op.pc = "idle"
        /\ UNCHANGED <<formatted, bitmap, data, fs_mounted, cwd_inode, todo, op>>
    BY <2>1 DEF Make, Command, Ready
  <2>3. EntriesOK'
    BY <2>2, CreateSound DEF FaultyInv, DiskOK
  <2>4. DiskOK'
    BY <2>2, <2>3 DEF FaultyInv, DiskOK
  <2> QED BY <2>2, <2>4, BeforeWriting DEF FaultyInv
<1>2. CASE Rm(name)
  <2>1. PICK e \in Inodes : e = tetfs_find(name, cwd_inode)
    BY <1>2, FindsNumber DEF Rm
  <2>2. /\ op.pc = "idle" /\ UNCHANGED <<formatted, data, fs_mounted, cwd_inode, todo>>
        /\ \/ /\ bitmap' = bitmap \ Extent(e)
              /\ op' = [Idle EXCEPT !.pc = "unlink", !.idx = e]
              /\ UNCHANGED inode
           \/ inode' = [inode EXCEPT ![e] = FreeInode] /\ UNCHANGED <<bitmap, op>>
    BY <1>2, <2>1 DEF Rm, Command, Ready
  <2>3. EntriesOK'
    <3>1. CASE inode' = [inode EXCEPT ![e] = FreeInode]
      BY <3>1, BlankEntries, EntryWritten DEF FaultyInv, DiskOK
    <3>2. CASE UNCHANGED inode
      BY <3>2 DEF FaultyInv, DiskOK, EntriesOK
    <3> QED BY <2>2, <3>1, <3>2
  <2>4. DiskOK'
    BY <2>2, <2>3 DEF FaultyInv, DiskOK
  <2>5. CASE op' = [Idle EXCEPT !.pc = "unlink", !.idx = e]
    <3>1. op' = [pc |-> "unlink", idx |-> e, buf |-> <<>>, start |-> 0, i |-> 0, old |-> <<>>]
      BY <2>5 DEF Idle
    <3>2. CallFields(op') /\ op'.pc = "unlink"
      BY <3>1, NewCall, EmptySeq
    <3> QED BY <2>4, <3>2, BeforeWriting
  <2>6. CASE op' = op
    BY <2>2, <2>4, <2>6, BeforeWriting DEF FaultyInv
  <2> QED BY <2>2, <2>5, <2>6
<1> QED BY <1>1, <1>2

\* The start of a write.
LEMMA StartOnAny ==
    ASSUME FaultyInv, NEW name \in Names \cup {Cut}, NEW parent \in Inodes,
           NEW buf \in Buffers, StartWrite(name, parent, buf)
    PROVE  FaultyInv'
<1>1. UNCHANGED <<formatted, bitmap, data, fs_mounted, cwd_inode>>
  BY DEF StartWrite
<1>2. buf \in Seq(Bytes)
  BY FSAssumption DEF Bytes
<1>3. ASSUME NEW e \in Inodes, EntriesOK', UNCHANGED todo,
             op' = [Idle EXCEPT !.pc = "bitmap", !.buf = buf, !.idx = e]
      PROVE  FaultyInv'
  <2>1. op' = [pc |-> "bitmap", idx |-> e, buf |-> buf, start |-> 0, i |-> 0, old |-> <<>>]
    BY <1>3 DEF Idle
  <2>2. CallFields(op') /\ op'.pc = "bitmap"
    BY <2>1, <1>2, NewCall
  <2>3. DiskOK'
    BY <1>1, <1>3 DEF FaultyInv, DiskOK
  <2> QED BY <2>2, <2>3, BeforeWriting
<1>4. CASE /\ Matches(name, parent) # {}
           /\ op' = [Idle EXCEPT !.pc = "bitmap", !.buf = buf,
                                 !.idx = tetfs_find(name, parent)]
           /\ UNCHANGED <<inode, todo>>
  <2>1. EntriesOK' /\ tetfs_find(name, parent) \in Inodes
    BY <1>4, FindsNumber DEF FaultyInv, DiskOK, EntriesOK
  <2> QED BY <1>3, <1>4, <2>1
<1>5. CASE /\ Create(name, parent, "file")
           /\ op' = [Idle EXCEPT !.pc = "bitmap", !.buf = buf, !.idx = Min(FreeEntries)]
           /\ UNCHANGED todo
  <2>1. EntriesOK' /\ Min(FreeEntries) \in Inodes
    BY <1>5, CreateSound DEF FaultyInv, DiskOK
  <2> QED BY <1>3, <1>5, <2>1
<1>6. CASE Fail /\ UNCHANGED inode
  <2>1. DiskOK'
    BY <1>1, <1>6, TodoTail DEF FaultyInv, DiskOK, EntriesOK, Fail
  <2> QED BY <1>6, <2>1, NewCall, IdleIsCall, BeforeWriting DEF Fail
<1> QED BY <1>4, <1>5, <1>6 DEF StartWrite

\* The steps that end a call with the sector of its entry.
LEMMA EntryLast ==
    ASSUME FaultyInv, WriteEmpty \/ WriteInode \/ Unlink
    PROVE  FaultyInv'
<1> DEFINE e == op.idx
           m == inode[e]
<1>1. /\ Succeed /\ e \in Inodes /\ Sound(m) /\ m \in Entry
      /\ UNCHANGED <<formatted, bitmap, data, fs_mounted, cwd_inode>>
  BY DEF WriteEmpty, WriteInode, Unlink, FaultyInv, DiskOK, EntriesOK, CallFields
<1>2. EntriesOK'
  <2>1. CASE WriteEmpty
    <3>1. inode' = [inode EXCEPT ![e] = [m EXCEPT !.size = 0]] /\ m.type = "file"
      BY <2>1, <1>1 DEF WriteEmpty, FaultyInv, DiskOK, EntriesOK
    <3>2. Sound([m EXCEPT !.size = 0])
      BY <1>1, <3>1, EmptyEntry
    <3> QED BY <1>1, <3>1, <3>2, EntryWritten DEF FaultyInv, DiskOK
  <2>2. CASE WriteInode
    <3>1. inode' = [inode EXCEPT ![e] = WithRun(m, op.start, op.buf)]
      BY <2>2, <1>1 DEF WriteInode, WithRun, FaultyInv, DiskOK, EntriesOK
    <3>2. Sound(WithRun(m, op.start, op.buf))
      BY <2>2, <1>1, NewEntry DEF WriteInode, FaultyInv, CallFields, WithinDisk
    <3> QED BY <1>1, <3>1, <3>2, EntryWritten DEF FaultyInv, DiskOK
  <2>3. CASE Unlink
    BY <2>3, <1>1, BlankEntries, EntryWritten DEF Unlink, FaultyInv, DiskOK
  <2> QED BY <2>1, <2>2, <2>3
<1>3. op' = Idle /\ todo' \in Seq(SeedFile)
  BY <1>1, TodoTail DEF Succeed, FaultyInv, DiskOK
<1>4. DiskOK'
  BY <1>1, <1>2, <1>3 DEF FaultyInv, DiskOK
<1> QED BY <1>3, <1>4, NewCall, IdleIsCall, BeforeWriting

\* The bitmap and the blocks of a write.
LEMMA WriteOnAny ==
    ASSUME FaultyInv, WriteBitmap \/ WriteData
    PROVE  FaultyInv'
<1>1. /\ CallFields(op) /\ op.idx \in Inodes /\ op.buf \in Seq(Bytes)
      /\ op.i \in Nat /\ op.i + 1 \in Nat
  BY DEF FaultyInv, CallFields
<1>2. CASE WriteBitmap
  <2>1. /\ Fits # {} /\ BlocksNeeded(op.buf) <= MaxFileBlocks /\ inode[op.idx].type = "file"
        /\ bitmap' = Others \cup (Min(Fits) .. Min(Fits) + BlocksNeeded(op.buf) - 1)
        /\ op' = [op EXCEPT !.pc = "data", !.start = Min(Fits), !.old = Contents(op.idx)]
        /\ UNCHANGED <<formatted, inode, data, fs_mounted, cwd_inode, todo>>
    BY <1>2 DEF WriteBitmap, Writable
  <2>2. /\ Min(Fits) \in Blocks /\ Min(Fits) + BlocksNeeded(op.buf) <= MaxBlocks
        /\ Min(Fits) .. Min(Fits) + BlocksNeeded(op.buf) - 1 \subseteq Blocks
    BY <1>1, <2>1, FitOnDisk
  <2>3. DiskOK'
    BY <2>1, <2>2 DEF FaultyInv, DiskOK, EntriesOK, Others
  <2>4. /\ op'.pc = "data" /\ op'.idx = op.idx /\ op'.buf = op.buf
        /\ op'.start = Min(Fits) /\ CallFields(op')
    BY <1>1, <2>1, <2>2 DEF CallFields, WritePcs
  <2>5. WithinDisk' /\ Clearing'
    BY <2>1, <2>2, <2>4 DEF WithinDisk, Clearing
  <2> QED BY <2>3, <2>4, <2>5 DEF FaultyInv
<1>3. CASE WriteData
  <2>1. PICK pc \in {"data", "inode"} : op' = [op EXCEPT !.i = op.i + 1, !.pc = pc]
    BY <1>3 DEF WriteData
  <2>2. /\ op.pc = "data" /\ data' = [data EXCEPT ![op.start + op.i] = Chunk(op.buf, op.i)]
        /\ UNCHANGED <<formatted, inode, bitmap, fs_mounted, cwd_inode, todo>>
    BY <1>3 DEF WriteData
  <2>3. Chunk(op.buf, op.i) \in Block
    BY <1>1, ChunkIsBlock
  <2>4. data' \in [Blocks -> Block]
    BY <2>2, <2>3 DEF FaultyInv, DiskOK
  <2>5. DiskOK'
    BY <2>2, <2>4 DEF FaultyInv, DiskOK, EntriesOK
  <2>6. /\ op'.pc = pc /\ op'.idx = op.idx /\ op'.buf = op.buf /\ op'.start = op.start
        /\ CallFields(op')
    BY <1>1, <2>1 DEF CallFields, WritePcs
  <2>7. WithinDisk' /\ Clearing'
    BY <2>2, <2>6 DEF FaultyInv, WithinDisk, Clearing
  <2> QED BY <2>5, <2>6, <2>7 DEF FaultyInv
<1> QED BY <1>2, <1>3

\* format, step by step.
LEMMA FormatOnAny ==
    ASSUME FaultyInv, Format \/ FormatInodes \/ FormatBitmap \/ FormatRoot
    PROVE  FaultyInv'
<1>1. /\ CallFields(op) /\ op.i \in Nat /\ op.i + 1 \in Nat
      /\ EntriesOK
  BY DEF FaultyInv, CallFields, DiskOK
<1>2. CASE Format
  <2>1. /\ op' = [Idle EXCEPT !.pc = "format_inodes"] /\ formatted' = TRUE
        /\ UNCHANGED <<inode, bitmap, data, fs_mounted, cwd_inode, todo>>
    BY <1>2 DEF Format
  <2>2. op' = [pc |-> "format_inodes", idx |-> Root, buf |-> <<>>, start |-> 0, i |-> 0, old |-> <<>>]
    BY <2>1 DEF Idle
  <2>3. CallFields(op') /\ op'.pc = "format_inodes" /\ op'.i = 0
    BY <2>2, NewCall, EmptySeq, DiskSizes
  <2>4. DiskOK'
    BY <2>1 DEF FaultyInv, DiskOK, EntriesOK
  <2>5. Clearing'
    <3>1. \A k \in Nat : k \div PerSector \in Nat
      BY DiskSizes
    <3>2. 0 * PerSector = 0
      BY DiskSizes
    <3>3. op'.i * PerSector < MaxInodes /\ \A k \in Inodes : ~(k \div PerSector < op'.i)
      BY <2>3, <3>1, <3>2, DiskSizes
    <3> QED BY <2>3, <3>3 DEF Clearing
  <2> QED BY <2>3, <2>4, <2>5 DEF FaultyInv, WithinDisk
<1>3. CASE FormatInodes
  <2>1. /\ inode' = [k \in Inodes |-> IF k \div PerSector = op.i THEN FreeInode ELSE inode[k]]
        /\ op' = [op EXCEPT !.i = op.i + 1,
                            !.pc = IF (op.i + 1) * PerSector < MaxInodes
                                   THEN "format_inodes" ELSE "format_bitmap"]
        /\ UNCHANGED <<formatted, bitmap, data, fs_mounted, cwd_inode, todo>>
    BY <1>3 DEF FormatInodes
  <2>2. PICK pc \in {"format_inodes", "format_bitmap"} :
            pc = IF (op.i + 1) * PerSector < MaxInodes THEN "format_inodes" ELSE "format_bitmap"
    OBVIOUS
  <2>3. op'.i = op.i + 1 /\ op'.pc = pc /\ CallFields(op')
    <3>1. op' = [op EXCEPT !.i = op.i + 1, !.pc = pc]
      BY <2>1, <2>2
    <3> QED BY <3>1, <1>1 DEF CallFields, FormatPcs
  <2>4. EntriesOK'
    <3>1. Sound(FreeInode) /\ FreeInode \in Entry
      BY BlankEntries DEF Sound
    <3> QED BY <1>1, <2>1, <3>1 DEF EntriesOK
  <2>5. DiskOK'
    BY <2>1, <2>4 DEF FaultyInv, DiskOK
  <2>6. Clearing'
    BY <1>1, <1>3, <2>2, <2>3, <2>4, SectorCleared DEF FaultyInv, EntriesOK
  <2> QED BY <2>3, <2>5, <2>6 DEF FaultyInv, WithinDisk
<1>4. CASE FormatBitmap
  <2>1. /\ op.pc = "format_bitmap" /\ bitmap' = {} /\ op' = [op EXCEPT !.pc = "format_root"]
        /\ UNCHANGED <<formatted, inode, data, fs_mounted, cwd_inode, todo>>
    BY <1>4 DEF FormatBitmap
  <2>2. op'.pc = "format_root" /\ CallFields(op')
    BY <1>1, <2>1 DEF CallFields, FormatPcs
  <2>3. DiskOK' /\ Clearing'
    BY <2>1, <2>2 DEF FaultyInv, DiskOK, EntriesOK, Clearing
  <2> QED BY <2>2, <2>3 DEF FaultyInv, WithinDisk
<1>5. CASE FormatRoot
  <2>1. /\ inode' = [inode EXCEPT ![Root] = RootInode]
        /\ fs_mounted' = TRUE /\ todo' = Seeds /\ op' = Idle
        /\ UNCHANGED <<formatted, bitmap, data, cwd_inode>>
    BY <1>5 DEF FormatRoot
  <2>2. EntriesOK'
    BY <1>1, <2>1, BlankEntries, EntryWritten, DiskSizes
  <2>3. DiskOK'
    BY <2>1, <2>2, TodoTail DEF FaultyInv, DiskOK
  <2> QED BY <2>1, <2>3, NewCall, IdleIsCall, BeforeWriting
<1> QED BY <1>2, <1>3, <1>4, <1>5

\* Whatever happens and whenever the power goes, the entries, the bitmap and
\* the blocks stay of their types and calls write within the disk.
THEOREM FaultInvariance == FaultSpec => []FaultyInv
<1>1. FInit => FaultyInv
  BY FInitFInv DEF FInv, TableInv, MemoryOK, Call, Taking, FaultyInv, DiskOK, EntriesOK,
                   CallFields, WithinDisk
<1>2. FaultyInv /\ [FNext \/ Crash \/ WriteError]_fvars => FaultyInv'
  <2> SUFFICES ASSUME FaultyInv, [FNext \/ Crash \/ WriteError]_fvars PROVE FaultyInv'
    OBVIOUS
  <2>1. CASE \E name \in Names : Make(name, "file") \/ Make(name, "dir") \/ Rm(name)
    BY <2>1, CommandOnAny
  <2>2. CASE \E name \in Names, buf \in Buffers : Write(name, buf)
    BY <2>2, StoredName, StartOnAny DEF Write, FaultyInv, DiskOK
  <2>3. CASE Install
    <3>1. Head(todo).name \in Names /\ Head(todo).buf \in Buffers
      BY <2>3, TodoTail DEF Install, FaultyInv, DiskOK, SeedFile, Names
    <3> QED BY <2>3, <3>1, StartOnAny, DiskSizes DEF Install
  <2>4. CASE WriteEmpty \/ WriteInode \/ Unlink
    BY <2>4, EntryLast
  <2>5. CASE WriteBitmap \/ WriteData
    BY <2>5, WriteOnAny
  <2>6. CASE Format \/ FormatInodes \/ FormatBitmap \/ FormatRoot
    BY <2>6, FormatOnAny
  <2>7. CASE \/ \E name \in Names : Cd(name)
             \/ CdUp \/ CdRoot \/ Seed \/ Reboot \/ WriteRefused \/ Crash \/ WriteError
    BY <2>7, DiskKept
  <2>8. CASE UNCHANGED fvars
    BY <2>8 DEF fvars, disk, FaultyInv, DiskOK, EntriesOK, CallFields, WithinDisk, Clearing
  <2> QED BY <2>1, <2>2, <2>3, <2>4, <2>5, <2>6, <2>7, <2>8 DEF FNext, Shell
<1> QED BY <1>1, <1>2, PTL DEF FaultSpec

\* Repair: when format returns the whole invariant holds, whatever faults have
\* done before, those in the middle of an earlier format too.  From there on
\* GentleFInv applies again.
THEOREM FormatRepairs == FaultSpec => [][FormatRoot => FInv' /\ BlocksExact']_fvars
<1>1. FaultyInv /\ FormatRoot => FInv'
  <2> SUFFICES ASSUME FaultyInv, FormatRoot PROVE FInv'
    OBVIOUS
  <2>1. /\ op.pc = "format_root" /\ op' = Idle /\ UNCHANGED bitmap
        /\ inode' = [inode EXCEPT ![Root] = RootInode]
    BY DEF FormatRoot
  <2>2. bitmap = {} /\ \A k \in Inodes : inode[k] = FreeInode
    BY <2>1 DEF FaultyInv, Clearing
  <2>3. FaultyInv'
    BY FormatOnAny
  <2>4. \A k \in Inodes : EntryExtent(inode'[k]) = {}
    BY <2>1, <2>2, BlankEntries DEF FaultyInv, DiskOK, EntriesOK
  <2>5. TableInv'
    BY <2>3, <2>4 DEF FaultyInv, DiskOK, EntriesOK, TableInv
  <2>6. bitmap' = Owned(Inodes)'
    BY <2>1, <2>2, <2>4 DEF Owned
  <2>7. MemoryOK'
    BY <2>1, <2>3, IdleIsCall DEF FaultyInv, DiskOK, MemoryOK
  <2> QED BY <2>1, <2>5, <2>6, <2>7, IdleIsCall, IdleInv
<1> QED BY <1>1, ExactWhenIdle, FaultInvariance, PTL

-----------------------------------------------------------------------------
(* The files as their users see them.                                      *)

\* The bytes of the entry n on the disk d.
BytesOf(n, d) ==
    [k \in 1 .. n.size |->
        d[n.start_block + ((k - 1) \div BlockSize)][((k - 1) % BlockSize) + 1]]

\* What Files shows of the entry i with the fields n.
View(n, d, o, i) ==
    IF o.pc \in FormatPcs \/ n.type = "free" THEN NoFile
    ELSE [type |-> n.type, name |-> n.name, parent |-> n.parent,
          contents |-> IF o.pc \in {"data", "inode"} /\ o.idx = i
                       THEN o.old ELSE BytesOf(n, d)]

\* A sound entry is read to its size.
LEMMA WholeRead ==
    ASSUME NEW n, Sound(n)
    PROVE  Min({0 + n.size, n.size, n.block_count * BlockSize}) - 0 = n.size
<1> DEFINE S == {0 + n.size, n.size, n.block_count * BlockSize}
<1>1. /\ n.size \in Nat /\ n.size <= n.block_count * BlockSize /\ 0 + n.size = n.size
      /\ n.block_count * BlockSize \in Nat
  BY EntryNumbers, DiskSizes
<1>2. S \in SUBSET Nat /\ S # {}
  BY <1>1
<1>3. Min(S) \in S /\ Min(S) <= n.size
  BY <1>2, MinIsLeast
<1>4. Min(S) = n.size
  BY <1>1, <1>3
<1> QED BY <1>1, <1>4

\* What Contents is, before a step.
LEMMA ContentsAre ==
    ASSUME NEW i \in Inodes, Sound(inode[i])
    PROVE  Contents(i) = BytesOf(inode[i], data)
<1>1. Min({0 + inode[i].size, inode[i].size, inode[i].block_count * BlockSize}) - 0 = inode[i].size
  BY WholeRead
<1>2. \A k \in 1 .. inode[i].size : 0 + k - 1 = k - 1
  BY EntryNumbers
<1> QED BY <1>1, <1>2 DEF Contents, tetfs_read, BytesOf

\* What Contents is, after a step.
LEMMA ContentsBecome ==
    ASSUME NEW i \in Inodes, Sound(inode'[i])
    PROVE  Contents(i)' = BytesOf(inode'[i], data')
<1>1. Min({0 + inode'[i].size, inode'[i].size, inode'[i].block_count * BlockSize}) - 0 = inode'[i].size
  BY WholeRead
<1>2. \A k \in 1 .. inode'[i].size : 0 + k - 1 = k - 1
  BY EntryNumbers
<1> QED BY <1>1, <1>2 DEF Contents, tetfs_read, BytesOf

\* Files before and after a step, by entry.
LEMMA FilesAre ==
    ASSUME TableInv, TableInv'
    PROVE  /\ Files = [i \in Inodes \ {Root} |-> View(inode[i], data, op, i)]
           /\ Files' = [i \in Inodes \ {Root} |-> View(inode'[i], data', op', i)]
<1>1. \A i \in Inodes \ {Root} : Contents(i) = BytesOf(inode[i], data)
  BY ContentsAre DEF TableInv
<1>2. \A i \in Inodes \ {Root} : Contents(i)' = BytesOf(inode'[i], data')
  BY ContentsBecome DEF TableInv
<1>3. Files = [i \in Inodes \ {Root} |-> View(inode[i], data, op, i)]
  BY <1>1 DEF Files, View, Formatting, FormatPcs, Used
<1>4. Files' = [i \in Inodes \ {Root} |-> View(inode'[i], data', op', i)]
  BY <1>2 DEF Files, View, Formatting, FormatPcs, Used
<1> QED BY <1>3, <1>4

\* The bytes of an entry change only with its own blocks.
LEMMA BytesSame ==
    ASSUME NEW n, Sound(n), NEW d, NEW c, \A b \in EntryExtent(n) : d[b] = c[b]
    PROVE  BytesOf(n, d) = BytesOf(n, c)
<1>1. ASSUME NEW k \in 1 .. n.size
      PROVE  n.start_block + ((k - 1) \div BlockSize) \in EntryExtent(n)
  <2>1. k - 1 \in Nat /\ k - 1 < n.size
    BY EntryNumbers
  <2> QED BY <2>1, ByteInExtent
<1> QED BY <1>1 DEF BytesOf

\* A buffer that was written block by block is read back.
Holds(n, d, buf) ==
    /\ n.size = Len(buf) /\ n.block_count = BlocksNeeded(buf)
    /\ \A b \in 0 .. BlocksNeeded(buf) - 1 : d[n.start_block + b] = Chunk(buf, b)

\* An entry whose blocks hold a buffer shows that buffer.
LEMMA BytesWritten ==
    ASSUME NEW n, Sound(n), NEW d, NEW buf \in Seq(Bytes), Holds(n, d, buf)
    PROVE  BytesOf(n, d) = buf
<1>1. buf = [k \in 1 .. Len(buf) |-> buf[k]] /\ Len(buf) \in Nat
  BY LenProperties
<1>2. ASSUME NEW k \in 1 .. Len(buf)
      PROVE  d[n.start_block + ((k - 1) \div BlockSize)][((k - 1) % BlockSize) + 1] = buf[k]
  <2> DEFINE q == (k - 1) \div BlockSize
             r == (k - 1) % BlockSize
  <2>1. k - 1 \in Nat /\ k - 1 < Len(buf) /\ k <= Len(buf) /\ k \in Nat
    BY <1>1
  <2>2. /\ q \in Nat /\ r \in 0 .. BlockSize - 1 /\ q * BlockSize + r = k - 1
        /\ (k - 1 < BlocksNeeded(buf) * BlockSize => q < BlocksNeeded(buf))
    BY <2>1, BlockOfByte, BufferFits DEF Bytes
  <2>3. BlocksNeeded(buf) \in Nat /\ Len(buf) <= BlocksNeeded(buf) * BlockSize
    BY BufferFits DEF Bytes
  <2>4. BlocksNeeded(buf) * BlockSize \in Nat /\ q * BlockSize \in Nat
    BY <2>2, <2>3, DiskSizes
  <2> HIDE DEF q, r
  <2>5. q \in 0 .. BlocksNeeded(buf) - 1
    BY <2>1, <2>2, <2>3, <2>4
  <2>6. r + 1 \in 1 .. BlockSize /\ q * BlockSize + (r + 1) = k
    BY <2>1, <2>2, <2>4, DiskSizes
  <2>7. Chunk(buf, q)[r + 1] = buf[k]
    BY <2>1, <2>6 DEF Chunk
  <2>8. d[n.start_block + q] = Chunk(buf, q)
    BY <2>5 DEF Holds
  <2> QED BY <2>7, <2>8 DEF q, r
<1> QED BY <1>1, <1>2 DEF BytesOf, Holds

\* An entry of size zero shows an empty file.
LEMMA BytesNone ==
    ASSUME NEW n, NEW d, n.size = 0
    PROVE  BytesOf(n, d) = <<>>
<1>1. BytesOf(n, d) \in [1 .. 0 -> Bytes]
  BY DEF BytesOf
<1>2. BytesOf(n, d) \in Seq(Bytes) /\ Len(BytesOf(n, d)) = 0
  BY <1>1, SegmentIsSeq
<1> QED BY <1>2, EmptySeq

\* No entry in use looks like none.
LEMMA ViewIsFile ==
    ASSUME NEW n, NEW d, NEW o, NEW i, n.type \in {"file", "dir"}, o.pc \notin FormatPcs
    PROVE  /\ View(n, d, o, i) # NoFile
           /\ View(n, d, o, i).type = n.type /\ View(n, d, o, i).name = n.name
           /\ View(n, d, o, i).parent = n.parent
<1>1. /\ View(n, d, o, i).type = n.type /\ View(n, d, o, i).name = n.name
      /\ View(n, d, o, i).parent = n.parent
  BY DEF View
<1>2. NoFile.type = "none"
  BY DEF NoFile
<1> QED BY <1>1, <1>2

-----------------------------------------------------------------------------
(* tetFS implements FileStore.                                             *)

\* Nothing a user sees changes.
SameViews ==
    \A i \in Inodes \ {Root} : View(inode'[i], data', op', i) = View(inode[i], data, op, i)

\* A step that shows in no entry shows in no file.
LEMMA SameViewsStutter ==
    ASSUME TableInv, TableInv', SameViews
    PROVE  Files' = Files
BY FilesAre DEF SameViews

\* An entry seen through two calls that do not write to it.
LEMMA ViewSame ==
    ASSUME NEW n, Sound(n), NEW d, NEW c, NEW o, NEW p, NEW i,
           o.pc \notin {"data", "inode"} \/ o.idx # i,
           p.pc \notin {"data", "inode"} \/ p.idx # i,
           o.pc \notin FormatPcs, p.pc \notin FormatPcs,
           \A b \in EntryExtent(n) : d[b] = c[b]
    PROVE  View(n, d, o, i) = View(n, c, p, i)
BY BytesSame DEF View

\* A step that changes the view of one entry.
LEMMA FilesChange ==
    ASSUME TableInv, TableInv', NEW e \in Inodes \ {Root},
           \A i \in Inodes \ {Root, e} :
               View(inode'[i], data', op', i) = View(inode[i], data, op, i)
    PROVE  /\ Files' = [Files EXCEPT ![e] = View(inode'[e], data', op', e)]
           /\ Files[e] = View(inode[e], data, op, e)
           /\ DOMAIN Files = Inodes \ {Root}
BY FilesAre

\* A step that writes one entry and nothing else that another one shows.
LEMMA OneEntryChanges ==
    ASSUME FInv, NEW e \in Inodes \ {Root}, NEW n, inode' = [inode EXCEPT ![e] = n],
           data' = data, op.pc \notin FormatPcs, op'.pc \notin FormatPcs,
           op.pc \notin {"data", "inode"} \/ op.idx = e,
           op'.pc \notin {"data", "inode"}
    PROVE  /\ \A i \in Inodes \ {Root, e} :
                 View(inode'[i], data', op', i) = View(inode[i], data, op, i)
           /\ inode'[e] = n
<1>1. inode'[e] = n /\ \A i \in Inodes \ {Root, e} : inode'[i] = inode[i] /\ Sound(inode[i])
  BY DEF FInv, TableInv
<1>2. ASSUME NEW i \in Inodes \ {Root, e}
      PROVE  View(inode'[i], data', op', i) = View(inode[i], data, op, i)
  <2>1. /\ op'.pc \notin {"data", "inode"} \/ op'.idx # i
        /\ op.pc \notin {"data", "inode"} \/ op.idx # i
    OBVIOUS
  <2>2. \A b \in EntryExtent(inode[i]) : data'[b] = data[b]
    OBVIOUS
  <2>3. View(inode[i], data', op', i) = View(inode[i], data, op, i)
    BY <1>1, <2>1, <2>2, ViewSame
  <2> QED BY <1>1, <2>3
<1> QED BY <1>1, <1>2

\* tetfs_create makes an empty file where there was none, under a name that
\* the directory did not have or that was cut.
LEMMA CreateStep ==
    ASSUME FInv, TableInv', NEW name \in Names \cup {Cut},
           NEW parent \in Inodes, NEW type \in {"file", "dir"},
           Matches(name, parent) = {}, Create(name, parent, type),
           data' = data, op.pc = "idle", op'.pc \in {"idle", "bitmap"}
    PROVE  Store!Create
<1> DEFINE m == [FreeInode EXCEPT !.type = type, !.name = Stored(name), !.parent = parent]
<1>1. PICK e \in Inodes \ {Root} :
          e = Min(FreeEntries) /\ inode[e] = FreeInode /\ inode' = [inode EXCEPT ![e] = m]
  BY FreeEntry DEF Create, FInv
<1>2. /\ Stored(name) \in Names \cup {Cut}
      /\ Stored(name) = name \/ Stored(name) \in CutNames
  BY DEF Stored, CutNames, Names
<1>3. m.type = type /\ m.name = Stored(name) /\ m.parent = parent /\ m.size = 0
  BY DEF FreeInode
<1> HIDE DEF m
<1>4. op.pc \notin FormatPcs /\ op'.pc \notin FormatPcs
  BY DEF FormatPcs
<1>5. /\ \A i \in Inodes \ {Root, e} :
            View(inode'[i], data', op', i) = View(inode[i], data, op, i)
      /\ inode'[e] = m
  BY <1>1, <1>4, OneEntryChanges
<1>6. /\ Files' = [Files EXCEPT ![e] = View(m, data', op', e)]
      /\ Files[e] = View(inode[e], data, op, e) /\ DOMAIN Files = Inodes \ {Root}
  BY <1>5, FilesChange DEF FInv
<1>7. Files[e] = NoFile
  <2>0. FreeInode.type = "free"
    BY DEF FreeInode
  <2>1. inode[e].type = "free"
    BY <1>1, <2>0
  <2> QED BY <1>6, <2>1 DEF View
<1>8. View(m, data', op', e) =
          [type |-> type, name |-> Stored(name), parent |-> parent, contents |-> <<>>]
  <2>1. BytesOf(m, data') = <<>>
    BY <1>3, BytesNone
  <2>2. m.type # "free"
    BY <1>3
  <2> QED BY <1>3, <1>4, <2>1, <2>2 DEF View
<1>9. ASSUME Stored(name) \notin CutNames, NEW f \in Inodes \ {Root}, Files[f] # NoFile
      PROVE  Files[f].parent # parent \/ Files[f].name # Stored(name)
  <2>1. Files[f] = View(inode[f], data, op, f)
    BY FilesAre DEF FInv
  <2>2. inode[f].type # "free" /\ inode[f] \in Entry
    BY <1>9, <2>1 DEF View, FInv, TableInv
  <2>3. inode[f].parent # parent \/ inode[f].name # Stored(name)
    BY <1>2, <1>9, <2>2 DEF Matches, Used
  <2>4. inode[f].type \in {"file", "dir"}
    BY <2>2 DEF Entry
  <2> QED BY <1>4, <2>1, <2>3, <2>4, ViewIsFile
<1> QED BY <1>2, <1>6, <1>7, <1>8, <1>9 DEF Store!Create

\* An entry that is cleared takes its file with it.
LEMMA DeleteStep ==
    ASSUME FInv, TableInv', NEW e \in Inodes \ {Root},
           inode' = [inode EXCEPT ![e] = FreeInode], data' = data,
           op.pc \in {"idle", "unlink"}, op'.pc = "idle"
    PROVE  Store!Delete
<1>1. op.pc \notin FormatPcs /\ op'.pc \notin FormatPcs
  BY DEF FormatPcs
<1>2. /\ \A i \in Inodes \ {Root, e} :
            View(inode'[i], data', op', i) = View(inode[i], data, op, i)
      /\ inode'[e] = FreeInode
  BY <1>1, OneEntryChanges
<1>3. Files' = [Files EXCEPT ![e] = View(FreeInode, data', op', e)]
  BY <1>2, FilesChange DEF FInv
<1>4. View(FreeInode, data', op', e) = NoFile
  <2>1. FreeInode.type = "free"
    BY DEF FreeInode
  <2> QED BY <2>1 DEF View
<1> QED BY <1>3, <1>4 DEF Store!Delete

\* The last step of tetfs_write makes the buffer the contents of the file.
LEMMA WriteStep ==
    ASSUME FInv, TableInv', NEW e \in Inodes \ {Root}, NEW n,
           inode' = [inode EXCEPT ![e] = n], data' = data,
           op.pc \in {"bitmap", "inode"}, op.idx = e, op'.pc = "idle",
           inode[e].type = "file", n.type = "file",
           n.name = inode[e].name, n.parent = inode[e].parent,
           NEW buf \in Buffers, BytesOf(n, data') = buf
    PROVE  Store!Write
<1>1. op.pc \notin FormatPcs /\ op'.pc \notin FormatPcs /\ op'.pc \notin {"data", "inode"}
  BY DEF FormatPcs
<1>2. /\ \A i \in Inodes \ {Root, e} :
            View(inode'[i], data', op', i) = View(inode[i], data, op, i)
      /\ inode'[e] = n
  BY <1>1, OneEntryChanges
<1>3. /\ Files' = [Files EXCEPT ![e] = View(n, data', op', e)]
      /\ Files[e] = View(inode[e], data, op, e)
  BY <1>2, FilesChange DEF FInv
<1>4. View(inode[e], data, op, e).type = "file" /\ View(inode[e], data, op, e) # NoFile
  BY <1>1, ViewIsFile
<1>5. View(n, data', op', e) = [View(inode[e], data, op, e) EXCEPT !.contents = buf]
  BY <1>1 DEF View
<1>6. Files' = [Files EXCEPT ![e].contents = buf]
  BY <1>3, <1>5, FilesAre DEF FInv
<1>7. Files[e] # NoFile /\ Files[e].type = "file"
  BY <1>3, <1>4
<1> QED BY <1>6, <1>7 DEF Store!Write

\* The step of StartWrite is a creation or nothing that shows.
LEMMA StartWriteStep ==
    ASSUME FInv, TableInv', op.pc = "idle", NEW name \in Names \cup {Cut},
           NEW parent \in Inodes, NEW buf \in Buffers, StartWrite(name, parent, buf)
    PROVE  Store!Create \/ Files' = Files
<1>1. data' = data
  BY DEF StartWrite
<1>2. CASE Matches(name, parent) = {} /\ Create(name, parent, "file") /\ op'.pc = "bitmap"
  BY <1>1, <1>2, CreateStep
<1>3. CASE UNCHANGED inode /\ op'.pc \in {"idle", "bitmap"}
  <2>1. \A i \in Inodes \ {Root} : Sound(inode[i]) /\ \A b \in EntryExtent(inode[i]) : data'[b] = data[b]
    BY <1>1 DEF FInv, TableInv
  <2>2. /\ op.pc \notin FormatPcs /\ op'.pc \notin FormatPcs
        /\ op.pc \notin {"data", "inode"} /\ op'.pc \notin {"data", "inode"}
    BY <1>3 DEF FormatPcs
  <2>3. SameViews
    BY <1>3, <2>1, <2>2, ViewSame DEF SameViews
  <2> QED BY <2>3, SameViewsStutter DEF FInv
<1>4. [Idle EXCEPT !.pc = "bitmap", !.buf = buf, !.idx = tetfs_find(name, parent)].pc = "bitmap"
  BY DEF Idle
<1>5. [Idle EXCEPT !.pc = "bitmap", !.buf = buf, !.idx = Min(FreeEntries)].pc = "bitmap"
  BY DEF Idle
<1> QED BY <1>2, <1>3, <1>4, <1>5, IdleIsCall DEF StartWrite, Fail

\* The steps of tetfs_write after the first.
LEMMA WriteSteps ==
    ASSUME FInv, TableInv',
           WriteRefused \/ WriteEmpty \/ WriteBitmap \/ WriteData \/ WriteInode
    PROVE  Store!Write \/ Files' = Files
<1>0. /\ op.pc \in WritePcs /\ op.idx \in Inodes \ {Root} /\ op \in Call
      /\ op.pc \notin FormatPcs /\ Idle.pc = "idle" /\ op.buf \in Seq(Bytes)
  BY IdleIsCall DEF WriteRefused, WriteEmpty, WriteBitmap, WriteData, WriteInode, WritePcs,
     FormatPcs, FInv, MemoryOK, Call, CallEntry
<1>s. \A i \in Inodes \ {Root} : Sound(inode[i])
  BY DEF FInv, TableInv
<1>t. PICK e \in Inodes \ {Root} : e = op.idx
  BY <1>0
<1>1. CASE WriteRefused
  <2>1. /\ op.pc = "bitmap" /\ op'.pc = "idle" /\ inode' = inode /\ data' = data
        /\ op'.pc \notin FormatPcs
    BY <1>0, <1>1 DEF WriteRefused, Fail, disk, FormatPcs
  <2>2. SameViews
    BY <1>0, <1>s, <2>1, ViewSame DEF SameViews
  <2> QED BY <2>2, SameViewsStutter DEF FInv
<1>2. CASE WriteEmpty
  <2> DEFINE n == [inode[e] EXCEPT !.size = 0]
  <2>1. /\ op.pc = "bitmap" /\ inode[e].type = "file" /\ op.buf = <<>> /\ op'.pc = "idle"
        /\ inode' = [inode EXCEPT ![e].size = 0] /\ data' = data
    BY <1>0, <1>2, <1>t DEF WriteEmpty, Succeed
  <2>2. inode' = [inode EXCEPT ![e] = n]
    BY <2>1
  <2>3. inode[e] \in Entry
    BY DEF FInv, TableInv
  <2>4. n.type = "file" /\ n.name = inode[e].name /\ n.parent = inode[e].parent /\ n.size = 0
    BY <2>1, <2>3 DEF Entry
  <2> HIDE DEF n
  <2>5. BytesOf(n, data') = <<>> /\ <<>> \in Buffers
    BY <2>1, <2>4, BytesNone DEF FInv, Beginning
  <2> QED BY <1>t, <2>1, <2>2, <2>4, <2>5, WriteStep
<1>3. CASE WriteBitmap
  <2>1. /\ op.pc = "bitmap" /\ inode' = inode /\ data' = data
        /\ op' = [op EXCEPT !.pc = "data", !.start = Min(Fits), !.old = Contents(op.idx)]
    BY <1>3 DEF WriteBitmap
  <2>2. op'.pc = "data" /\ op'.idx = e /\ op'.old = Contents(op.idx) /\ op'.pc \notin FormatPcs
    BY <1>0, <1>t, <2>1 DEF Call, FormatPcs
  <2>3. op'.old = BytesOf(inode[e], data)
    BY <1>0, <1>s, <1>t, <2>2, ContentsAre
  <2>4. View(inode'[e], data', op', e) = View(inode[e], data, op, e)
    BY <1>0, <2>1, <2>2, <2>3 DEF View
  <2>5. ASSUME NEW i \in Inodes \ {Root, e}
        PROVE  View(inode'[i], data', op', i) = View(inode[i], data, op, i)
    <3>1. op.idx # i /\ op'.idx # i /\ Sound(inode[i])
      BY <1>s, <1>t, <2>2
    <3>a. \A b \in EntryExtent(inode[i]) : data'[b] = data[b]
      BY <2>1
    <3>2. View(inode[i], data', op', i) = View(inode[i], data, op, i)
      BY <1>0, <2>2, <3>1, <3>a, ViewSame
    <3> QED BY <2>1, <3>2
  <2>6. SameViews
    BY <2>4, <2>5 DEF SameViews
  <2> QED BY <2>6, SameViewsStutter DEF FInv
<1>4. CASE WriteData
  <2>1. /\ op.pc = "data" /\ inode' = inode
        /\ data' = [data EXCEPT ![op.start + op.i] = Chunk(op.buf, op.i)]
        /\ op' = [op EXCEPT !.i = op.i + 1,
                            !.pc = IF op.i + 1 < BlocksNeeded(op.buf) THEN "data" ELSE "inode"]
    BY <1>4 DEF WriteData
  <2>2. /\ op'.pc \in {"data", "inode"} /\ op'.idx = e /\ op'.old = op.old
        /\ op'.pc \notin FormatPcs
    BY <1>0, <1>t, <2>1 DEF Call, FormatPcs
  <2>3. op.start + op.i \in Run_(op)
    <3>1. /\ op.start \in Nat /\ op.i \in Nat /\ BlocksNeeded(op.buf) \in Nat
      BY <1>0, BufferFits, DiskSizes DEF Call, Bytes
    <3>2. op.i < BlocksNeeded(op.buf)
      BY <2>1 DEF FInv, Taking
    <3> QED BY <3>1, <3>2 DEF Run_
  <2>4. ASSUME NEW i \in Inodes \ {Root, e}
        PROVE  View(inode'[i], data', op', i) = View(inode[i], data, op, i)
    <3>1. op.start + op.i \notin EntryExtent(inode[i])
      BY <1>t, <2>1, <2>3 DEF FInv, Taking
    <3>2. \A b \in EntryExtent(inode[i]) : data'[b] = data[b]
      BY <1>s, <2>1, <3>1, ExtentOnDisk DEF FInv, MemoryOK
    <3>3. op.idx # i /\ op'.idx # i /\ Sound(inode[i])
      BY <1>s, <1>t, <2>2
    <3>4. View(inode[i], data', op', i) = View(inode[i], data, op, i)
      BY <1>0, <2>2, <3>2, <3>3, ViewSame
    <3> QED BY <2>1, <3>4
  <2>5. View(inode'[e], data', op', e) = View(inode[e], data, op, e)
    BY <1>0, <1>t, <2>1, <2>2 DEF View
  <2>6. SameViews
    BY <2>4, <2>5 DEF SameViews
  <2> QED BY <2>6, SameViewsStutter DEF FInv
<1>5. CASE WriteInode
  <2> DEFINE n == [inode[e] EXCEPT !.start_block = op.start,
                                   !.block_count = BlocksNeeded(op.buf),
                                   !.size = Len(op.buf)]
  <2>1. /\ op.pc = "inode" /\ op'.pc = "idle" /\ data' = data
        /\ inode' = [inode EXCEPT ![e].start_block = op.start,
                                  ![e].block_count = BlocksNeeded(op.buf),
                                  ![e].size = Len(op.buf)]
    BY <1>0, <1>5, <1>t DEF WriteInode, Succeed
  <2>2. inode' = [inode EXCEPT ![e] = n]
    BY <2>1 DEF FInv, TableInv
  <2>3. inode[e] \in Entry /\ inode[e].type = "file" /\ op.buf \in Buffers
    BY <1>t, <2>1 DEF FInv, TableInv, Taking
  <2>4. /\ n.type = "file" /\ n.name = inode[e].name /\ n.parent = inode[e].parent
        /\ n.size = Len(op.buf) /\ n.block_count = BlocksNeeded(op.buf)
        /\ n.start_block = op.start
    BY <2>3 DEF Entry
  <2> HIDE DEF n
  <2>5. inode'[e] = n /\ Sound(n)
    BY <2>2 DEF FInv, TableInv
  <2>6. Holds(n, data', op.buf)
    <3>1. BlocksNeeded(op.buf) \in Nat
      BY <1>0, BufferFits DEF Bytes
    <3>2. op.i = BlocksNeeded(op.buf)
      BY <1>0, <2>1, <3>1 DEF FInv, Taking, Call
    <3> QED BY <2>1, <2>4, <3>2 DEF Holds, FInv, Taking
  <2>7. BytesOf(n, data') = op.buf
    BY <1>0, <2>5, <2>6, BytesWritten
  <2> QED BY <1>t, <2>1, <2>2, <2>3, <2>4, <2>7, WriteStep
<1> QED BY <1>1, <1>2, <1>3, <1>4, <1>5

\* rm deletes a file when it writes the entry.
LEMMA RmSteps ==
    ASSUME FInv, TableInv', Unlink \/ \E name \in Names : Rm(name)
    PROVE  Store!Delete \/ Files' = Files
<1>1. CASE Unlink
  <2>1. PICK e \in Inodes \ {Root} : e = op.idx
    BY <1>1 DEF Unlink, FInv, MemoryOK, Call, CallEntry
  <2> QED BY <1>1, <2>1, DeleteStep, IdleIsCall DEF Unlink, Succeed
<1>2. ASSUME NEW name \in Names, Rm(name)
      PROVE  Store!Delete \/ Files' = Files
  <2>1. op.pc = "idle" /\ data' = data /\ Matches(name, cwd_inode) # {}
    BY <1>2 DEF Rm, Command, Ready
  <2>2. PICK e \in Inodes \ {Root} : e = tetfs_find(name, cwd_inode)
    BY <2>1, FindsEntry DEF FInv
  <2>3. CASE inode' = [inode EXCEPT ![e] = FreeInode] /\ op' = op
    BY <2>1, <2>3, DeleteStep
  <2>4. CASE inode' = inode /\ op'.pc = "unlink"
    <3>1. /\ op.pc \notin FormatPcs /\ op'.pc \notin FormatPcs
          /\ op.pc \notin {"data", "inode"} /\ op'.pc \notin {"data", "inode"}
      BY <2>1, <2>4 DEF FormatPcs
    <3>2. \A i \in Inodes \ {Root} :
              Sound(inode[i]) /\ \A b \in EntryExtent(inode[i]) : data'[b] = data[b]
      BY <2>1 DEF FInv, TableInv
    <3>3. SameViews
      BY <2>4, <3>1, <3>2, ViewSame DEF SameViews
    <3> QED BY <3>3, SameViewsStutter DEF FInv
  <2>5. [Idle EXCEPT !.pc = "unlink", !.idx = e].pc = "unlink"
    BY DEF Idle
  <2> QED BY <1>2, <2>2, <2>3, <2>4, <2>5 DEF Rm
<1> QED BY <1>1, <1>2

\* What happens between two calls and writes nothing does not show.
LEMMA QuietSteps ==
    ASSUME FInv, TableInv', op.pc \in {"idle", "bitmap"}, op'.pc = "idle", UNCHANGED disk
    PROVE  Files' = Files
<1>1. inode' = inode /\ data' = data /\ op.pc \notin FormatPcs /\ op'.pc \notin FormatPcs
  BY DEF disk, FormatPcs
<1>2. SameViews
  BY <1>1 DEF SameViews, View
<1> QED BY <1>2, SameViewsStutter DEF FInv

\* format takes all files away when it begins.
LEMMA FormatSteps ==
    ASSUME FInv, TableInv', Format \/ FormatInodes \/ FormatBitmap \/ FormatRoot
    PROVE  Store!Format \/ Files' = Files
<1>1. CASE Format
  <2>1. op'.pc \in FormatPcs
    <3>1. [Idle EXCEPT !.pc = "format_inodes"].pc = "format_inodes"
      BY DEF Idle
    <3> QED BY <1>1, <3>1 DEF Format, FormatPcs
  <2>2. \A i \in Inodes \ {Root} : View(inode'[i], data', op', i) = NoFile
    BY <2>1 DEF View
  <2>3. Files' = [i \in Inodes \ {Root} |-> NoFile]
    BY <2>2, FilesAre DEF FInv
  <2> QED BY <2>3 DEF Store!Format
<1>2. CASE FormatInodes \/ FormatBitmap \/ FormatRoot
  <2>1. op.pc \in FormatPcs
    BY <1>2 DEF FormatInodes, FormatBitmap, FormatRoot, FormatPcs
  <2>2. \A i \in Inodes \ {Root} : View(inode[i], data, op, i) = NoFile
    BY <2>1 DEF View
  <2>3. \A i \in Inodes \ {Root} : View(inode'[i], data', op', i) = NoFile
    <3>1. CASE FormatInodes \/ FormatBitmap
      <4>1. op'.pc \in FormatPcs
        BY <3>1 DEF FormatInodes, FormatBitmap, FormatPcs, FInv, MemoryOK, Call
      <4> QED BY <4>1 DEF View
    <3>2. CASE FormatRoot
      <4>1. \A i \in Inodes \ {Root} : inode'[i] = FreeInode
        BY <3>2 DEF FormatRoot, FInv, TableInv, Clearing
      <4>2. FreeInode.type = "free"
        BY DEF FreeInode
      <4> QED BY <4>1, <4>2 DEF View
    <3> QED BY <1>2, <3>1, <3>2
  <2>4. SameViews
    BY <2>2, <2>3 DEF SameViews
  <2> QED BY <2>4, SameViewsStutter DEF FInv
<1> QED BY <1>1, <1>2

\* Every step of tetFS is a step of FileStore or leaves the files alone.
LEMMA StepIsStoreStep ==
    ASSUME FInv, TableInv', [FNext]_fvars
    PROVE  [Store!Next]_Files
<1> SUFFICES Store!Step \/ Files' = Files
  BY DEF Store!Next
<1>1. ASSUME NEW name \in Names, NEW type \in {"file", "dir"}, Make(name, type)
      PROVE  Store!Create
  <2>1. /\ op.pc = "idle" /\ op' = op /\ data' = data
        /\ Matches(name, cwd_inode) = {} /\ Create(name, cwd_inode, type)
    BY <1>1 DEF Make, Command, Ready
  <2> QED BY <2>1, CreateStep DEF FInv, MemoryOK
<1>2. ASSUME NEW name \in Names, NEW buf \in Buffers, Write(name, buf)
      PROVE  Store!Create \/ Files' = Files
  <2>1. op.pc = "idle" /\ StartWrite(Stored(name), cwd_inode, buf)
    BY <1>2 DEF Write, Command, Ready
  <2> QED BY <2>1, StoredName, StartWriteStep DEF FInv, MemoryOK
<1>3. CASE Install
  <2>1. op.pc = "idle" /\ StartWrite(Head(todo).name, Root, Head(todo).buf)
    BY <1>3 DEF Install
  <2>2. Head(todo).name \in Names /\ Head(todo).buf \in Buffers
    BY <1>3, TodoTail DEF Install, FInv, MemoryOK, SeedFile, Names
  <2>3. Store!Create \/ Files' = Files
    BY <2>1, <2>2, StartWriteStep, DiskSizes
  <2> QED BY <2>3 DEF Store!Step
<1>4. CASE (\E name \in Names : Cd(name)) \/ CdUp \/ CdRoot \/ Seed \/ Reboot
  <2>1. op.pc = "idle" /\ op' \in {op, Idle} /\ UNCHANGED disk
    BY <1>4 DEF Cd, CdUp, CdRoot, Seed, Reboot, Command, Ready, PowerCycle
  <2>2. op'.pc = "idle"
    BY <2>1, IdleIsCall
  <2> QED BY <2>1, <2>2, QuietSteps
<1>5. CASE WriteRefused \/ WriteEmpty \/ WriteBitmap \/ WriteData \/ WriteInode
  BY <1>5, WriteSteps DEF Store!Step
<1>6. CASE Unlink \/ \E name \in Names : Rm(name)
  BY <1>6, RmSteps DEF Store!Step
<1>7. CASE Format \/ FormatInodes \/ FormatBitmap \/ FormatRoot
  BY <1>7, FormatSteps DEF Store!Step
<1>8. CASE UNCHANGED fvars
  <2>1. inode' = inode /\ data' = data /\ op' = op
    BY <1>8 DEF fvars, disk
  <2>2. SameViews
    BY <2>1 DEF SameViews
  <2> QED BY <2>2, SameViewsStutter DEF FInv
<1> QED BY <1>1, <1>2, <1>3, <1>4, <1>5, <1>6, <1>7, <1>8 DEF FNext, Shell, Store!Step

\* On a new disk there are no files.
LEMMA InitIsStoreInit == FInit => Store!Init
<1> SUFFICES ASSUME FInit PROVE Store!Init
  OBVIOUS
<1>1. \A i \in Inodes : inode[i].type = "free"
  BY DEF FInit, FreeInode
<1> QED BY <1>1 DEF Store!Init, Files, Used

\* tetFS, sector by sector, implements a table of files that calls change one
\* at a time: what is read from a file is what was last written to it, and a
\* name appears once in a directory, unless longer names are cut to it.  A
\* write that a fault ends before its first sector leaves all files alone.
THEOREM FileSystemIsStore == GentleSpec => IsFileStore
<1>1. FInit => Store!Init
  BY InitIsStoreInit
<1>2. FInv /\ FInv' /\ [FNext]_fvars => [Store!Next]_Files
  BY StepIsStoreStep DEF FInv
<1>3. FInv /\ FInv' /\ GentleFault => Files' = Files
  BY GentleCall, QuietSteps DEF FInv
<1>4. FInv /\ FInv' /\ [FNext \/ GentleFault]_fvars => [Store!Next]_Files
  BY <1>2, <1>3
<1> QED BY <1>1, <1>4, FileSystemInvariance, PTL DEF GentleSpec, IsFileStore, Store!Spec

-----------------------------------------------------------------------------
(* Open files.                                                             *)

\* The disk under the system calls is that of TetFS.
LEMMA VfsStepIsDiskStep == [VNext]_vvars => [FNext \/ GentleFault]_fvars
BY Zenon DEF VNext, Syscall, Open, Read, Close, ShellStep, Run, VfsReboot, FNext, GentleFault,
             vvars

\* System calls never change the file system: with programs running it is the
\* one of TetFS, and all that holds there holds here.
THEOREM VfsKeepsFileSystem == VSpec => GentleSpec
<1>1. VInit => FInit
  BY DEF VInit
<1> QED BY <1>1, VfsStepIsDiskStep, PTL DEF VSpec, GentleSpec

OpenFile == [in_use : BOOLEAN, inode : Inodes, offset : 0 .. MaxFileBlocks * BlockSize]
SeenFile == [file : Seq(Bytes), read : Seq(Bytes), changed : BOOLEAN]

\* What one open file f has to do with its ghost s, the disk and the call o.
Snapshot(f, s) ==
    f.in_use =>
        /\ Changing(op, f.inode) => s.changed
        /\ ~s.changed =>
              /\ s.file = BytesOf(inode[f.inode], data)
              /\ f.offset <= Len(s.file)
              /\ s.read = SubSeq(s.file, 1, f.offset)

VInv ==
    /\ FInv
    /\ programs \in BOOLEAN
    /\ vfs_files \in [Fds -> OpenFile]
    /\ seen \in [Fds -> SeenFile]
    /\ ~programs => \A fd \in Fds : ~vfs_files[fd].in_use
    /\ \A fd \in Fds : Snapshot(vfs_files[fd], seen[fd])

\* A closed file, and the ghosts of a file nobody has seen or that changes.
LEMMA ClosedFiles ==
    /\ ClosedFile \in OpenFile /\ ~ClosedFile.in_use
    /\ Unseen \in SeenFile /\ Changed \in SeenFile /\ Changed.changed
    /\ Unseen = [file |-> <<>>, read |-> <<>>, changed |-> FALSE]
    /\ Fds \subseteq Nat
<1>1. ClosedFile \in OpenFile /\ ~ClosedFile.in_use
  BY DiskSizes DEF ClosedFile, OpenFile, Root
<1>2. <<>> \in Seq(Bytes)
  BY EmptySeq
<1>3. Unseen \in SeenFile /\ Changed \in SeenFile /\ Changed.changed
  BY <1>2 DEF Unseen, Changed, SeenFile
<1>4. Fds \subseteq Nat
  BY VfsAssumption DEF Fds
<1> QED BY <1>1, <1>3, <1>4 DEF Unseen

\* Bytes of an entry make a sequence.
LEMMA ContentsSeq ==
    ASSUME TableInv, MemoryOK, NEW i \in Inodes
    PROVE  /\ BytesOf(inode[i], data) \in Seq(Bytes)
           /\ Len(BytesOf(inode[i], data)) = inode[i].size
           /\ Contents(i) = BytesOf(inode[i], data)
           /\ inode[i].size \in Nat
           /\ \A k \in 1 .. inode[i].size : BytesOf(inode[i], data)[k] = ByteAt(i, k - 1)
<1>1. Contents(i) = BytesOf(inode[i], data)
  BY ContentsAre DEF TableInv
<1> QED BY <1>1, ContentsIs

\* SYS_OPEN takes a free slot, and the file begins as it is on the disk.
LEMMA OpenInv ==
    ASSUME VInv, NEW name, Open(name)
    PROVE  VInv'
<1>1. PICK i \in Inodes : i = tetfs_find(name, Root)
  BY FindsEntry DEF Open, VInv, FInv
<1>2. FreeSlots \in SUBSET Nat /\ FreeSlots # {}
  BY ClosedFiles DEF FreeSlots, Open
<1>3. PICK fd \in Fds : fd = Min(FreeSlots)
  BY <1>2, MinIsLeast DEF FreeSlots
<1> DEFINE f == [in_use |-> TRUE, inode |-> i, offset |-> 0]
           s == IF Changing(op, i) THEN Changed ELSE [Unseen EXCEPT !.file = Contents(i)]
<1>4. /\ vfs_files' = [vfs_files EXCEPT ![fd] = f] /\ seen' = [seen EXCEPT ![fd] = s]
      /\ programs /\ programs' = programs /\ UNCHANGED fvars
  BY <1>1, <1>3 DEF Open
<1>5. /\ Contents(i) = BytesOf(inode[i], data) /\ Contents(i) \in Seq(Bytes)
      /\ Len(Contents(i)) \in Nat
  BY ContentsSeq DEF VInv, FInv
<1>6. f \in OpenFile /\ s \in SeenFile
  <2>1. f \in OpenFile
    BY DiskSizes DEF OpenFile
  <2>2. [Unseen EXCEPT !.file = Contents(i)] \in SeenFile
    BY <1>5, ClosedFiles DEF SeenFile
  <2> QED BY <2>1, <2>2, ClosedFiles
<1>7. Snapshot(f, s)
  <2>1. CASE Changing(op, i)
    BY <2>1, ClosedFiles DEF Snapshot
  <2>2. CASE ~Changing(op, i)
    <3>1. s = [file |-> Contents(i), read |-> <<>>, changed |-> FALSE]
      BY <2>2, ClosedFiles
    <3>2. SubSeq(Contents(i), 1, 0) = <<>>
      BY SubSeqEmpty
    <3>3. f.inode = i /\ f.offset = 0 /\ f.in_use
      OBVIOUS
    <3>4. s.file = Contents(i) /\ s.read = <<>> /\ ~s.changed
      BY <3>1
    <3> HIDE DEF f, s
    <3>5. 0 <= Len(Contents(i))
      BY <1>5
    <3> QED BY <2>2, <3>2, <3>3, <3>4, <3>5, <1>5 DEF Snapshot
  <2> QED BY <2>1, <2>2
<1> HIDE DEF f, s
<1>8. FInv'
  BY <1>4, FNextFInv DEF VInv
<1>9. /\ inode' = inode /\ data' = data /\ op' = op
  BY <1>4 DEF fvars, disk
<1>10. vfs_files' \in [Fds -> OpenFile] /\ seen' \in [Fds -> SeenFile]
  BY <1>4, <1>6 DEF VInv
<1>11. ASSUME NEW x \in Fds PROVE Snapshot(vfs_files[x], seen[x])'
  <2>1. CASE x = fd
    BY <2>1, <1>4, <1>7, <1>9 DEF Snapshot, Changing, VInv
  <2>2. CASE x # fd
    BY <2>2, <1>4, <1>9 DEF Snapshot, Changing, VInv
  <2> QED BY <2>1, <2>2
<1> QED BY <1>4, <1>8, <1>10, <1>11 DEF VInv

\* A piece of a sequence.
LEMMA PieceOf ==
    ASSUME NEW S, NEW s \in Seq(S), NEW a \in Nat, NEW n \in Nat, a + n <= Len(s)
    PROVE  /\ SubSeq(s, a + 1, a + n) \in Seq(S)
           /\ Len(SubSeq(s, a + 1, a + n)) = n
           /\ \A k \in 1 .. n : SubSeq(s, a + 1, a + n)[k] = s[a + k]
<1>1. SubSeq(s, a + 1, a + n) \in Seq(S)
  OBVIOUS
<1>2. Len(SubSeq(s, a + 1, a + n)) = n
  OBVIOUS
<1>3. \A k \in 1 .. n : SubSeq(s, a + 1, a + n)[k] = s[a + k]
  OBVIOUS
<1> QED BY <1>1, <1>2, <1>3

\* The bytes that a read returns follow those read before.
LEMMA ReadContinues ==
    ASSUME TableInv, MemoryOK, NEW i \in Inodes, NEW offset \in Nat, NEW len \in Nat,
           NEW file, file = BytesOf(inode[i], data), offset <= Len(file)
    PROVE  /\ offset + Len(tetfs_read(i, offset, len)) <= Len(file)
           /\ SubSeq(file, 1, offset) \o tetfs_read(i, offset, len)
                = SubSeq(file, 1, offset + Len(tetfs_read(i, offset, len)))
<1> DEFINE r == tetfs_read(i, offset, len)
           n == ReadLen(i, offset, len)
           z == inode[i].size
<1>1. /\ file \in Seq(Bytes) /\ Len(file) = z /\ z \in Nat
      /\ \A k \in 1 .. z : file[k] = ByteAt(i, k - 1)
  BY ContentsSeq
<1>2. /\ r \in Seq(Bytes) /\ Len(r) = n /\ n \in Nat
      /\ \A k \in 1 .. n : r[k] = ByteAt(i, offset + k - 1)
  BY ReadIs
<1>3. offset + n <= z
  <2> DEFINE end == ReadEnd(i, offset, len)
  <2>1. end \in Nat /\ end <= z
    BY ReadIs
  <2>2. n = IF end >= offset THEN end - offset ELSE 0
    BY DEF ReadLen
  <2> HIDE DEF end, n, z
  <2> QED BY <2>1, <2>2, <1>1
<1> HIDE DEF r, n, z
<1>4. r = SubSeq(file, offset + 1, offset + n)
  <2> DEFINE t == SubSeq(file, offset + 1, offset + n)
  <2>1. offset + n <= Len(file)
    BY <1>1, <1>3
  <2>2. t \in Seq(Bytes) /\ Len(t) = n /\ \A k \in 1 .. n : t[k] = file[offset + k]
    BY <1>1, <1>2, <2>1, PieceOf
  <2> HIDE DEF t
  <2>4. ASSUME NEW k \in 1 .. n PROVE r[k] = t[k]
    <3>1. offset + k \in 1 .. z
      BY <1>1, <1>2, <1>3
    <3>2. t[k] = file[offset + k]
      BY <2>2
    <3>3. file[offset + k] = ByteAt(i, offset + k - 1)
      BY <1>1, <3>1
    <3> QED BY <3>2, <3>3, <1>2
  <2>5. r = t
    BY <1>2, <2>2, <2>4, SeqEqual
  <2> QED BY <2>5 DEF t
<1>5. SubSeq(file, 1, offset) \o SubSeq(file, offset + 1, offset + n) = SubSeq(file, 1, offset + n)
  <2>1. /\ 1 \in 1 .. Len(file) + 1 /\ offset \in 1 - 1 .. Len(file)
        /\ offset + n \in offset .. Len(file)
    BY <1>1, <1>2, <1>3
  <2> QED BY <1>1, <2>1, ConcatAdjacentSubSeq
<1>6. SubSeq(file, 1, offset) \o r = SubSeq(file, 1, offset + n)
  BY <1>4, <1>5
<1>7. offset + Len(r) <= Len(file) /\ Len(r) = n
  BY <1>1, <1>2, <1>3
<1> QED BY <1>6, <1>7 DEF r

\* An offset never gets beyond what the largest file can hold.
LEMMA OffsetBound ==
    ASSUME TableInv, MemoryOK, NEW i \in Inodes, NEW len \in Nat,
           NEW offset \in 0 .. MaxFileBlocks * BlockSize
    PROVE  offset + Len(tetfs_read(i, offset, len)) \in 0 .. MaxFileBlocks * BlockSize
<1>1. inode[i].size \in 0 .. MaxFileBlocks * BlockSize
  BY DEF TableInv, Entry
<1>2. MaxFileBlocks * BlockSize \in Nat
  BY DiskSizes
<1>3. offset \in Nat
  BY <1>2
<1>4. /\ Len(tetfs_read(i, offset, len)) = ReadLen(i, offset, len)
      /\ ReadEnd(i, offset, len) \in Nat /\ ReadEnd(i, offset, len) <= inode[i].size
  BY <1>3, ReadIs
<1>5. ReadLen(i, offset, len) =
          IF ReadEnd(i, offset, len) >= offset THEN ReadEnd(i, offset, len) - offset ELSE 0
  BY DEF ReadLen
<1> QED BY <1>1, <1>2, <1>3, <1>4, <1>5

\* SYS_READ goes on where the last read ended.
LEMMA ReadInv ==
    ASSUME VInv, NEW fd \in Fds, NEW len \in Lengths, Read(fd, len)
    PROVE  VInv'
<1> DEFINE f == vfs_files[fd]
           s == seen[fd]
           r == tetfs_read(f.inode, f.offset, len)
<1>1. /\ programs /\ programs' = programs /\ UNCHANGED fvars /\ f.in_use
      /\ vfs_files' = [vfs_files EXCEPT ![fd].offset = f.offset + Len(r)]
      /\ seen' = IF s.changed THEN seen ELSE [seen EXCEPT ![fd].read = s.read \o r]
  BY DEF Read, VInv
<1>2. f \in OpenFile /\ s \in SeenFile /\ Snapshot(f, s)
  BY DEF VInv
<1>3. /\ f.inode \in Inodes /\ f.offset \in 0 .. MaxFileBlocks * BlockSize /\ len \in Nat
      /\ TableInv /\ MemoryOK
  BY <1>2, VfsAssumption DEF OpenFile, VInv, FInv
<1>4. f.offset \in Nat
  BY <1>3, DiskSizes
<1>5. r \in Seq(Bytes) /\ f.offset + Len(r) \in 0 .. MaxFileBlocks * BlockSize
  BY <1>3, <1>4, ReadIs, OffsetBound
<1> DEFINE g == [f EXCEPT !.offset = f.offset + Len(r)]
           t == IF s.changed THEN s ELSE [s EXCEPT !.read = s.read \o r]
<1> HIDE DEF r
<1>6. /\ vfs_files' = [vfs_files EXCEPT ![fd] = g] /\ seen' = [seen EXCEPT ![fd] = t]
  BY <1>1 DEF VInv
<1>7. /\ g \in OpenFile /\ g.in_use /\ g.inode = f.inode /\ g.offset = f.offset + Len(r)
  BY <1>1, <1>2, <1>5 DEF OpenFile
<1>8. t \in SeenFile /\ t.changed = s.changed
  <2>1. s.read \o r \in Seq(Bytes)
    BY <1>2, <1>5, ConcatProperties DEF SeenFile
  <2> QED BY <1>2, <2>1 DEF SeenFile
<1>9. Snapshot(g, t)
  <2>1. CASE s.changed
    BY <2>1, <1>8 DEF Snapshot
  <2>2. CASE ~s.changed
    <3>1. /\ s.file = BytesOf(inode[f.inode], data) /\ f.offset <= Len(s.file)
          /\ s.read = SubSeq(s.file, 1, f.offset) /\ ~Changing(op, f.inode)
      BY <2>2, <1>1, <1>2 DEF Snapshot
    <3>2. t.file = s.file /\ t.read = s.read \o r
      BY <2>2, <1>2 DEF SeenFile
    <3>3. f.offset + Len(r) <= Len(s.file)
          /\ SubSeq(s.file, 1, f.offset) \o r = SubSeq(s.file, 1, f.offset + Len(r))
      BY <3>1, <1>3, <1>4, ReadContinues DEF r
    <3> HIDE DEF g, t
    <3> QED BY <3>1, <3>2, <3>3, <1>7, <1>8 DEF Snapshot
  <2> QED BY <2>1, <2>2
<1> HIDE DEF g, t
<1>10. FInv'
  BY <1>1, FNextFInv DEF VInv
<1>11. inode' = inode /\ data' = data /\ op' = op
  BY <1>1 DEF fvars, disk
<1>12. vfs_files' \in [Fds -> OpenFile] /\ seen' \in [Fds -> SeenFile]
  BY <1>6, <1>7, <1>8 DEF VInv
<1>13. ASSUME NEW x \in Fds PROVE Snapshot(vfs_files[x], seen[x])'
  <2>1. CASE x = fd
    BY <2>1, <1>6, <1>9, <1>11 DEF Snapshot, Changing, VInv
  <2>2. CASE x # fd
    BY <2>2, <1>6, <1>11 DEF Snapshot, Changing, VInv
  <2> QED BY <2>1, <2>2
<1> QED BY <1>1, <1>10, <1>12, <1>13 DEF VInv

\* SYS_CLOSE, run and a restart.
LEMMA OtherCallsInv ==
    ASSUME VInv, (\E fd \in Fds : Close(fd)) \/ Run \/ VfsReboot
    PROVE  VInv'
<1>1. CASE VfsReboot
  <2>1. /\ programs' = FALSE /\ vfs_files' = [fd \in Fds |-> ClosedFile]
        /\ seen' = [fd \in Fds |-> Unseen] /\ (Reboot \/ GentleFault)
    BY <1>1 DEF VfsReboot, GentleFault
  <2>2. FInv'
    BY <2>1, GentleFInv DEF VInv, FNext
  <2> QED BY <2>1, <2>2, ClosedFiles DEF VInv, Snapshot
<1>2. CASE (\E fd \in Fds : Close(fd)) \/ Run
  <2>1. /\ UNCHANGED fvars /\ programs' \in BOOLEAN /\ (programs => programs')
        /\ programs' \/ (vfs_files' = vfs_files /\ programs' = programs)
    BY <1>2 DEF Close, Run, VInv
  <2>2. FInv' /\ inode' = inode /\ data' = data /\ op' = op
    BY <2>1, FNextFInv DEF VInv, fvars, disk
  <2>3. \A x \in Fds : \/ vfs_files'[x] = vfs_files[x] /\ seen'[x] = seen[x]
                       \/ vfs_files'[x] = ClosedFile /\ seen'[x] = Unseen
    BY <1>2 DEF Close, Run, VInv
  <2>4. vfs_files' \in [Fds -> OpenFile] /\ seen' \in [Fds -> SeenFile]
    <3>1. vfs_files \in [Fds -> OpenFile] /\ seen \in [Fds -> SeenFile]
      BY DEF VInv
    <3>2. CASE \E fd \in Fds : Close(fd)
      BY <3>1, <3>2, ClosedFiles DEF Close
    <3>3. CASE Run
      BY <3>1, <3>3 DEF Run
    <3> QED BY <1>2, <3>2, <3>3
  <2>5. ASSUME NEW x \in Fds PROVE Snapshot(vfs_files[x], seen[x])'
    <3>1. CASE vfs_files'[x] = vfs_files[x] /\ seen'[x] = seen[x]
      <4>1. Snapshot(vfs_files[x], seen[x])
        BY DEF VInv
      <4> QED BY <2>2, <3>1, <4>1 DEF Snapshot, Changing
    <3>2. CASE vfs_files'[x] = ClosedFile /\ seen'[x] = Unseen
      <4>1. ~ClosedFile.in_use
        BY DEF ClosedFile
      <4> QED BY <3>2, <4>1 DEF Snapshot
    <3> QED BY <2>3, <3>1, <3>2
  <2>6. programs' \/ \A fd \in Fds : ~vfs_files'[fd].in_use
    <3>1. ~programs => \A fd \in Fds : ~vfs_files[fd].in_use
      BY Zenon DEF VInv
    <3> QED BY <2>1, <3>1
  <2> QED BY <2>1, <2>2, <2>4, <2>5, <2>6 DEF VInv
<1> QED BY <1>1, <1>2

\* A command that does not change a file leaves the bytes of its blocks.
LEMMA BytesKept ==
    ASSUME FInv, Shell \/ WriteError, NEW i \in Inodes, ~Changes(i)
    PROVE  BytesOf(inode'[i], data') = BytesOf(inode[i], data)
<1>1. inode'[i] = inode[i] /\ ~Changing(op', i) /\ Sound(inode[i])
  BY DEF Changes, FInv, TableInv
<1>2. CASE data' = data
  BY <1>1, <1>2
<1>3. CASE WriteData
  <2>1. /\ op.pc = "data"
        /\ data' = [data EXCEPT ![op.start + op.i] = Chunk(op.buf, op.i)]
        /\ op' = [op EXCEPT !.i = op.i + 1,
                            !.pc = IF op.i + 1 < BlocksNeeded(op.buf) THEN "data" ELSE "inode"]
    BY <1>3 DEF WriteData
  <2>2. op \in Call
    BY DEF FInv, MemoryOK
  <2>3. op'.pc \in {"data", "inode"} /\ op'.idx = op.idx
    BY <2>1, <2>2 DEF Call
  <2>4. op.idx # i
    BY <1>1, <2>3 DEF Changing
  <2>5. op.start + op.i \in Run_(op)
    <3>1. op.start \in Nat /\ op.i \in Nat /\ BlocksNeeded(op.buf) \in Nat
      BY <2>2, BufferFits, DiskSizes DEF Call, Bytes
    <3>2. op.i < BlocksNeeded(op.buf)
      BY <2>1 DEF FInv, Taking
    <3> QED BY <3>1, <3>2 DEF Run_
  <2>6. op.start + op.i \notin EntryExtent(inode[i])
    BY <2>1, <2>4, <2>5 DEF FInv, Taking
  <2>7. \A b \in EntryExtent(inode[i]) : data[b] = data'[b]
    BY <1>1, <2>1, <2>6, ExtentOnDisk DEF FInv, MemoryOK
  <2>8. BytesOf(inode[i], data) = BytesOf(inode[i], data')
    BY <1>1, <2>7, BytesSame
  <2> QED BY <1>1, <2>8
<1> QED BY <1>2, <1>3 DEF Shell, Make, Rm, Cd, Write, StartWrite, WriteRefused, WriteEmpty,
           WriteBitmap, WriteInode, Unlink, CdUp, CdRoot, Format, FormatInodes,
           FormatBitmap, FormatRoot, Seed, Install, WriteError, disk

\* A step of the shell: open files that it changes are marked, and the others
\* are what they were.
LEMMA ShellStepInv ==
    ASSUME VInv, ShellStep
    PROVE  VInv'
<1>1. /\ Shell \/ (~Midway /\ WriteError)
      /\ UNCHANGED <<programs, vfs_files>>
      /\ seen' = [fd \in Fds |->
                     IF vfs_files[fd].in_use /\ Changes(vfs_files[fd].inode)
                     THEN Changed ELSE seen[fd]]
  BY DEF ShellStep
<1>2. FInv'
  BY <1>1, GentleFInv DEF VInv, FNext, GentleFault
<1>3. seen' \in [Fds -> SeenFile]
  BY <1>1, ClosedFiles DEF VInv
<1>4. ASSUME NEW x \in Fds PROVE Snapshot(vfs_files[x], seen[x])'
  <2> DEFINE f == vfs_files[x]
             s == seen[x]
  <2>1. f \in OpenFile /\ f.inode \in Inodes /\ Snapshot(f, s) /\ vfs_files'[x] = f
    BY <1>1 DEF VInv, OpenFile
  <2>2. CASE ~f.in_use
    BY <2>1, <2>2 DEF Snapshot
  <2>3. CASE f.in_use /\ Changes(f.inode)
    BY <1>1, <2>1, <2>3, ClosedFiles DEF Snapshot
  <2>4. CASE f.in_use /\ ~Changes(f.inode)
    <3>1. seen'[x] = s
      BY <1>1, <2>4
    <3>2. BytesOf(inode'[f.inode], data') = BytesOf(inode[f.inode], data)
      BY <1>1, <2>1, <2>4, BytesKept DEF VInv
    <3>3. ~Changing(op', f.inode)
      BY <2>4 DEF Changes
    <3>4. ~Changing(op, f.inode) \/ s.changed
      BY <2>1, <2>4 DEF Snapshot
    <3>5. ~s.changed => /\ s.file = BytesOf(inode'[f.inode], data')
                        /\ f.offset <= Len(s.file)
                        /\ s.read = SubSeq(s.file, 1, f.offset)
      BY <2>1, <2>4, <3>2 DEF Snapshot
    <3> HIDE DEF f, s
    <3>6. /\ vfs_files[x]' = f /\ seen[x]' = s
      BY <2>1, <3>1
    <3> QED BY <3>3, <3>5, <3>6 DEF Snapshot, Changing
  <2> QED BY <2>2, <2>3, <2>4
<1> QED BY <1>1, <1>2, <1>3, <1>4 DEF VInv

\* The invariant of the open files: those whose file no command has changed
\* show it as it was when they were opened.
LEMMA VNextVInv == VInv /\ [VNext]_vvars => VInv'
<1> SUFFICES ASSUME VInv, [VNext]_vvars PROVE VInv'
  OBVIOUS
<1>1. CASE \E name \in ShortNames \cup {Cut} : Open(name)
  BY <1>1, OpenInv
<1>2. CASE \E fd \in Fds, len \in Lengths : Read(fd, len)
  BY <1>2, ReadInv
<1>3. CASE (\E fd \in Fds : Close(fd)) \/ Run \/ VfsReboot
  BY <1>3, OtherCallsInv
<1>4. CASE ShellStep
  BY <1>4, ShellStepInv
<1>5. CASE UNCHANGED vvars
  <2>1. FInv'
    BY <1>5, FNextFInv DEF vvars, VInv
  <2> QED BY <1>5, <2>1 DEF vvars, fvars, disk, VInv, Snapshot, Changing
<1> QED BY <1>1, <1>2, <1>3, <1>4, <1>5 DEF VNext, Syscall

\* The inductive invariant of the file system with programs reading it.
THEOREM OpenFilesInvariance == VSpec => []VInv
<1>1. VInit => VInv
  BY FInitFInv, ClosedFiles DEF VInit, VInv, Snapshot
<1> QED BY <1>1, VNextVInv, PTL DEF VSpec

\* Type correctness of the table of open files: no offset leaves what the
\* largest file can hold, and a slot is in use only while programs can use it.
THEOREM OpenFilesTypeCorrect == VSpec => []VTypeOK
<1>1. VInv => VTypeOK
  BY DEF VInv, VTypeOK, OpenFile
<1> QED BY <1>1, OpenFilesInvariance, PTL

\* A program that reads a file piece by piece gets it from the first byte on,
\* without a gap and as it was when it was opened, as long as no command
\* changes that very file, whatever else the shell writes between the pieces.
THEOREM SnapshotSafety == VSpec => []ReadsSnapshot
<1>1. VInv => ReadsSnapshot
  <2> SUFFICES ASSUME VInv, NEW fd \in Fds, vfs_files[fd].in_use, ~seen[fd].changed
               PROVE  /\ seen[fd].read = SubSeq(seen[fd].file, 1, vfs_files[fd].offset)
                      /\ Contents(vfs_files[fd].inode) = seen[fd].file
    BY DEF ReadsSnapshot
  <2>1. vfs_files[fd].inode \in Inodes
    BY DEF VInv, OpenFile
  <2>2. Contents(vfs_files[fd].inode) = BytesOf(inode[vfs_files[fd].inode], data)
    BY <2>1, ContentsSeq DEF VInv, FInv
  <2> QED BY <2>2 DEF VInv, Snapshot
<1> QED BY <1>1, OpenFilesInvariance, PTL

===============================================================================
