------------------------------ MODULE MCMemory ------------------------------
(* Two page tables of identity map, sixteen frames, of which fourteen are   *)
(* for the boot and for programs; eight more frames lie beyond the map.     *)
EXTENDS Memory

CONSTANTS s1, s2

Seg(virt, filesz, memsz, inFile) ==
    [virt |-> virt, filesz |-> filesz, memsz |-> memsz, inFile |-> inFile]

\* hello: one page.  big: code and data in two tables, with a page of bss.
\* cut: its second segment is beyond the end of the file.
hello == <<Seg(16, 1, 1, TRUE)>>
big == <<Seg(16, 1, 1, TRUE), Seg(23, 1, 2, TRUE)>>
cut == <<Seg(16, 1, 1, TRUE), Seg(20, 1, 1, FALSE)>>

MCImages == {hello, big, cut}
MCFramebuffer == <<41, 42>>
MCStack == <<39, 39>>
=============================================================================
