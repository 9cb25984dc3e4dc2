------------------------------ MODULE MCDesktop ------------------------------
(* Desktop with three programs on a screen of 4 x 4 cells, the bottom row    *)
(* being the taskbar: a window of 3 x 2 cells, which can be moved by one in  *)
(* each direction, one of 3 x 3 that moves sideways, and one that is asked   *)
(* for larger than the screen.  One cell or two of a title bar are neither   *)
(* of its buttons.                                                           *)
EXTENDS Desktop

Rect(x, y, w, h) == [x |-> x, y |-> y, w |-> w, h |-> h]
Windows3 == {"terminal", "editor", "taskmgr"}
Places == [terminal |-> Rect(-1, 0, 3, 2), editor |-> Rect(1, 1, 3, 3),
           taskmgr |-> Rect(2, 2, 5, 3)]
Buttons == [terminal |-> Rect(1, 3, 1, 1), editor |-> Rect(2, 3, 1, 1),
            taskmgr |-> Rect(3, 3, 1, 1)]
Menu == [i \in 1 .. 4 |-> Rect(0, i - 1, 1, 1)]
Start == Rect(0, 3, 1, 1)
Cells == [x : 0 .. 3, y : 0 .. 3]
=============================================================================
