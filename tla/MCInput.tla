------------------------------- MODULE MCInput -------------------------------
(* A ring of two keys and one of three events, one entry less being in use,  *)
(* a line of two characters, a text of two, a screen of 3 x 2.  In a session *)
(* the user touches a few keys that interfere, or the mouse, or both: a key  *)
(* and the right button are enough to keep the loops of the desktop busy.    *)
EXTENDS Input

Key(ext, sc) == [ext |-> ext, sc |-> sc]
Keys(ks) == [keys |-> ks, fingers |-> 2, packets |-> {}, focus |-> None]
Writing(program) ==
    [keys |-> {Key(FALSE, "a"), Key(FALSE, "enter"), Key(FALSE, "backspace")},
     fingers |-> 1, packets |-> {}, focus |-> program]
Move(dx, dy, left) == [dx |-> dx, dy |-> dy, left |-> left]
Mouse(ps) == [keys |-> {}, fingers |-> 0, packets |-> ps, focus |-> None]

Both(k, p) == [keys |-> {k}, fingers |-> 1, packets |-> {p}, focus |-> None]

MCSessions == {
    Keys({Key(FALSE, "lshift"), Key(FALSE, "rshift"), Key(FALSE, "a")}),
    Keys({Key(FALSE, "ctrl"), Key(TRUE, "ctrl"), Key(TRUE, "48"), Key(FALSE, "48")}),
    Keys({Key(FALSE, "alt"), Key(TRUE, "alt"), Key(FALSE, "f1")}),
    Keys({Caps, Key(FALSE, "lshift"), Key(FALSE, "a")}),
    Keys({PrintScreen, Key(FALSE, "lshift"), Key(FALSE, "1")}),
    Writing("terminal"),
    Writing("editor"),
    Mouse({Move(1, 0, FALSE), Move(0, 1, TRUE)}),
    Mouse({Move(-8, 0, TRUE), Move(200, 0, FALSE)}),
    Both(Key(FALSE, "a"), Move(0, 0, FALSE)) }
=============================================================================
