-------------------------------- MODULE Vfs ---------------------------------
(***************************************************************************)
(* The open files of kernel/fs/vfs.c under the system calls of             *)
(* kernel/syscall/syscall.c.  A program in ring 3 runs between any two     *)
(* sector writes of the command the shell is executing, and a system call  *)
(* runs whole: int 0x80 enters it with interrupts off.  SYS_OPEN opens for *)
(* reading and from the root directory, so programs never write a file.    *)
(*                                                                         *)
(* The table is shared by all programs and no exit closes a file: which    *)
(* program makes a call makes no difference here.                          *)
(***************************************************************************)
EXTENDS TetFS

CONSTANTS
    MaxOpenFiles,   \* VFS_MAX_OPEN_FILES
    Lengths         \* how many bytes programs ask for at a time

ASSUME VfsAssumption == MaxOpenFiles \in Nat \ {0} /\ Lengths \subseteq Nat \ {0}

Fds == 0 .. MaxOpenFiles - 1

VARIABLES
    programs,       \* has the shell started a program since boot?
    vfs_files,      \* in_use, vnode.inode and offset of every slot
    seen            \* ghost: the file when it was opened, what was read of it,
                    \* and whether a command has changed that very file since

vvars == <<fvars, programs, vfs_files, seen>>

ClosedFile == [in_use |-> FALSE, inode |-> Root, offset |-> 0]
Unseen == [file |-> <<>>, read |-> <<>>, changed |-> FALSE]
Changed == [Unseen EXCEPT !.changed = TRUE]

VInit ==
    /\ FInit
    /\ programs = FALSE
    /\ vfs_files = [fd \in Fds |-> ClosedFile]
    /\ seen = [fd \in Fds |-> Unseen]

-----------------------------------------------------------------------------
(* System calls.  A pointer outside user memory, a name that is not there, *)
(* no free slot or a slot not in use: the call answers -1 and changes      *)
(* nothing, which is a stutter.                                            *)

\* A command changes the file of entry i while it writes to the blocks the
\* entry names or has freed them, and when it writes the entry.
Changing(o, i) == o.idx = i /\ o.pc \in {"data", "inode", "unlink"}
Changes(i) == inode'[i] # inode[i] \/ Changing(op', i)

\* alloc_file_slot takes the first of them.
FreeSlots == {fd \in Fds : ~vfs_files[fd].in_use}

\* SYS_OPEN: neither the type of the entry nor fs_mounted is looked at.
Open(name) ==
    /\ programs
    /\ Matches(name, Root) # {} /\ FreeSlots # {}
    /\ LET idx == tetfs_find(name, Root)
           fd == Min(FreeSlots)
       IN  /\ vfs_files' = [vfs_files EXCEPT ![fd] =
                              [in_use |-> TRUE, inode |-> idx, offset |-> 0]]
           /\ seen' = [seen EXCEPT ![fd] =
                          IF Changing(op, idx) THEN Changed
                          ELSE [Unseen EXCEPT !.file = Contents(idx)]]
    /\ UNCHANGED <<fvars, programs>>

\* Mutant: the offset moves by what was asked for.
ReadAdvancesByLen(fd, len) ==
    LET f == vfs_files[fd]
        bytes == tetfs_read(f.inode, f.offset, len)
    IN  /\ programs /\ f.in_use
        /\ inode[f.inode].type = "file"
        /\ vfs_files' = [vfs_files EXCEPT ![fd].offset = @ + len]
        /\ seen' = IF seen[fd].changed THEN seen
                   ELSE [seen EXCEPT ![fd].read = @ \o bytes]
        /\ UNCHANGED <<fvars, programs>>

\* SYS_READ
Read(fd, len) ==
    LET f == vfs_files[fd]
        bytes == tetfs_read(f.inode, f.offset, len)
    IN  /\ programs /\ f.in_use
        /\ inode[f.inode].type = "file"
        /\ vfs_files' = [vfs_files EXCEPT ![fd].offset = @ + Len(bytes)]
        /\ seen' = IF seen[fd].changed THEN seen
                   ELSE [seen EXCEPT ![fd].read = @ \o bytes]
        /\ UNCHANGED <<fvars, programs>>

\* SYS_CLOSE
Close(fd) ==
    /\ programs /\ vfs_files[fd].in_use
    /\ vfs_files' = [vfs_files EXCEPT ![fd] = ClosedFile]
    /\ seen' = [seen EXCEPT ![fd] = Unseen]
    /\ UNCHANGED <<fvars, programs>>

-----------------------------------------------------------------------------
(* The shell, with the faults of GentleSpec.                               *)

\* The command run, as far as this module is concerned.
Run ==
    /\ Command
    /\ programs' = TRUE
    /\ UNCHANGED <<fvars, vfs_files, seen>>

ShellStep ==
    /\ Shell \/ (~Midway /\ WriteError)
    /\ seen' = [fd \in Fds |->
                   IF vfs_files[fd].in_use /\ Changes(vfs_files[fd].inode)
                   THEN Changed ELSE seen[fd]]
    /\ UNCHANGED <<programs, vfs_files>>

\* fs_init calls vfs_init.
VfsReboot ==
    /\ Reboot \/ (~Midway /\ Crash)
    /\ programs' = FALSE
    /\ vfs_files' = [fd \in Fds |-> ClosedFile]
    /\ seen' = [fd \in Fds |-> Unseen]

Syscall ==
    \/ \E name \in ShortNames \cup {Cut} : Open(name)
    \/ \E fd \in Fds, len \in Lengths : Read(fd, len)
    \/ \E fd \in Fds : Close(fd)

VNext == Syscall \/ ShellStep \/ Run \/ VfsReboot

VSpec == VInit /\ [][VNext]_vvars

-----------------------------------------------------------------------------
(* Properties                                                              *)

\* An open file never stands beyond what its blocks can hold, and a slot is in
\* use only while programs can use it.
VTypeOK ==
    /\ programs \in BOOLEAN
    /\ vfs_files \in [Fds -> [in_use : BOOLEAN, inode : Inodes,
                              offset : 0 .. MaxFileBlocks * BlockSize]]
    /\ ~programs => \A fd \in Fds : ~vfs_files[fd].in_use

\* A program that reads a file piece by piece gets it in order, without a gap,
\* from the first byte, as it was when it was opened, although between any two
\* pieces the shell writes other files, moves them, deletes them and gives
\* their blocks away, as long as no command changes this file itself.
ReadsSnapshot ==
    \A fd \in Fds :
        LET f == vfs_files[fd]
            s == seen[fd]
        IN  f.in_use /\ ~s.changed =>
                /\ s.read = SubSeq(s.file, 1, f.offset)
                /\ Contents(f.inode) = s.file
=============================================================================
