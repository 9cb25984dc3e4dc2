------------------------------ MODULE FileStore ------------------------------
(***************************************************************************)
(* What tetFS promises: a table of files and directories, each with the    *)
(* contents last written to it, changed by one command at a time.          *)
(***************************************************************************)
CONSTANTS
    Entries, Names, Buffers, Directories, None,
    Ambiguous       \* the names that several files of a directory may bear

VARIABLE files      \* per entry: None, or its type, name, parent and contents

Init == files = [e \in Entries |-> None]

\* A name that is not ambiguous is given once in a directory, whatever bears it.
Create == \E e \in Entries, t \in {"file", "dir"}, n \in Names, d \in Directories :
    /\ files[e] = None
    /\ n \notin Ambiguous => \A f \in Entries :
        files[f] # None => files[f].parent # d \/ files[f].name # n
    /\ files' = [files EXCEPT ![e] =
                    [type |-> t, name |-> n, parent |-> d, contents |-> <<>>]]

Write == \E e \in Entries, b \in Buffers :
    /\ files[e] # None
    /\ files[e].type = "file"
    /\ files' = [files EXCEPT ![e].contents = b]

Delete == \E e \in Entries : files' = [files EXCEPT ![e] = None]

Format == files' = [e \in Entries |-> None]

Step == Create \/ Write \/ Delete \/ Format

\* A step of the store; a command may also leave the table as it is.
Next == files' # files /\ Step

Spec == Init /\ [][Next]_files
=============================================================================
