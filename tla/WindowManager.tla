--------------------------- MODULE WindowManager ---------------------------
(***************************************************************************)
(* The windows of kernel/wm/wm.c: a doubly linked list in stacking order   *)
(* from wm_head to wm_tail, one focused window, and at most one that the   *)
(* mouse drags.  The operations are functions of the manager's state wm,   *)
(* because one mouse event goes through several of them.                   *)
(*                                                                         *)
(* What the mouse interrupt queues is read one event at a time.  The queue *)
(* drops what does not fit, so any sequence of positions and buttons can   *)
(* be read from it.                                                        *)
(***************************************************************************)
EXTENDS Integers

CONSTANTS
    Windows,        \* the windows that can be created
    NULL,
    ScreenW, ScreenH,
    Reserved,       \* wm_reserved_bottom: the taskbar
    MinW, MinH,     \* WM_MIN_WIDTH, WM_MIN_HEIGHT
    TitleH,         \* WM_TITLE_HEIGHT
    BtnSize,        \* WM_BTN_SIZE
    BtnMargin       \* WM_BTN_MARGIN

WorkH == ScreenH - Reserved     \* wm_work_h
Rects == [x : Int, y : Int, w : Nat, h : Nat]
NoRect == [x |-> 0, y |-> 0, w |-> 0, h |-> 0]

ASSUME ScreenAssumption ==
    /\ NULL \notin Windows
    /\ ScreenW \in Nat /\ ScreenH \in Nat /\ Reserved \in Nat
    /\ MinW \in Nat \ {0} /\ MinH \in Nat \ {0}
    /\ MinW <= ScreenW /\ MinH <= WorkH
    /\ TitleH \in Nat /\ BtnSize \in Nat /\ BtnMargin \in Nat

VARIABLE wm

\* created is the windows not NULL in the caller's hands; saved means
\* something while a window is maximized, offset while one is dragged.
NoWindows ==
    [created |-> {}, visible |-> {}, maximized |-> {},
     rect |-> [w \in Windows |-> NoRect], saved |-> [w \in Windows |-> NoRect],
     prev |-> [w \in Windows |-> NULL], next |-> [w \in Windows |-> NULL],
     head |-> NULL, tail |-> NULL, focused |-> NULL,
     dragging |-> NULL, offset |-> <<0, 0>>, left |-> FALSE]

-----------------------------------------------------------------------------
(* The list.                                                               *)

\* f with f[a] = b, unless there is no a.
Link(f, a, b) == IF a = NULL THEN f ELSE [f EXCEPT ![a] = b]

\* Mutant: the window above keeps its link to the one taken out.
DetachOneWay(m, w) ==
    LET p == m.prev[w]
        n == m.next[w]
    IN [m EXCEPT !.head = IF p = NULL THEN n ELSE @,
                 !.tail = IF n = NULL THEN p ELSE @,
                 !.next = [Link(@, p, n) EXCEPT ![w] = NULL],
                 !.prev[w] = NULL]

\* wm_list_detach
Detach(m, w) ==
    LET p == m.prev[w]
        n == m.next[w]
    IN [m EXCEPT !.head = IF p = NULL THEN n ELSE @,
                 !.tail = IF n = NULL THEN p ELSE @,
                 !.next = [Link(@, p, n) EXCEPT ![w] = NULL],
                 !.prev = [Link(@, n, p) EXCEPT ![w] = NULL]]

\* wm_list_attach_tail
AttachTail(m, w) ==
    [m EXCEPT !.prev[w] = m.tail,
              !.next = Link([@ EXCEPT ![w] = NULL], m.tail, w),
              !.head = IF m.tail = NULL THEN w ELSE @,
              !.tail = w]

\* Mutant: the window changes places with the one on top.
FocusSwaps(m, w) ==
    LET Swap(u) == IF u = w THEN m.tail ELSE IF u = m.tail THEN w ELSE u
    IN [m EXCEPT !.next = [u \in Windows |-> Swap(m.next[Swap(u)])],
                 !.prev = [u \in Windows |-> Swap(m.prev[Swap(u)])],
                 !.head = Swap(@), !.tail = w, !.focused = w]

\* wm_focus_internal
Focus(m, w) ==
    IF w = m.tail THEN [m EXCEPT !.focused = w]
    ELSE [AttachTail(Detach(m, w), w) EXCEPT !.focused = w]

-----------------------------------------------------------------------------
(* Geometry.                                                               *)

Clamp(v, lo, hi) == IF v < lo THEN lo ELSE IF v > hi THEN hi ELSE v

\* Mutant: the window is kept on the screen, not above the taskbar.
BoundedByScreen(r) ==
    LET w == Clamp(r.w, MinW, ScreenW)
        h == Clamp(r.h, MinH, ScreenH)
    IN [x |-> Clamp(r.x, 0, ScreenW - w), y |-> Clamp(r.y, 0, ScreenH - h),
        w |-> w, h |-> h]

\* wm_apply_bounds
Bounded(r) ==
    LET w == Clamp(r.w, MinW, ScreenW)
        h == Clamp(r.h, MinH, WorkH)
    IN [x |-> Clamp(r.x, 0, ScreenW - w), y |-> Clamp(r.y, 0, WorkH - h),
        w |-> w, h |-> h]

In(p, r) == p.x >= r.x /\ p.x < r.x + r.w /\ p.y >= r.y /\ p.y < r.y + r.h

\* wm_button_rects
CloseButton(r) == [x |-> r.x + r.w - BtnMargin - BtnSize,
                   y |-> r.y + (TitleH - BtnSize) \div 2, w |-> BtnSize, h |-> BtnSize]
MaxButton(r) == [CloseButton(r) EXCEPT !.x = @ - BtnSize - BtnMargin]

\* The windows a walk along f visits from w.
Walk(f, w) ==
    {t \in Windows : w # NULL /\ \A S \in SUBSET Windows :
        (w \in S /\ \A u \in S : f[u] \in S \cup {NULL}) => t \in S}

\* wm_find_topmost: t is the first window under p from the tail down.
Topmost(m, p, t) ==
    LET Hits == {u \in Walk(m.prev, m.tail) \cap m.visible : In(p, m.rect[u])}
    IN t \in Hits /\ \A u \in Hits \ {t} : t \notin Walk(m.prev, u)

-----------------------------------------------------------------------------
(* The functions the desktop calls.                                        *)

\* wm_create_window, and whatever its caller sets in the new window.
CreateWindow(m, w, r) ==
    Focus(AttachTail([m EXCEPT !.created = @ \cup {w}, !.visible = @ \cup {w},
                               !.rect[w] = Bounded(r)], w), w)

ShowWindow(m, w) == [m EXCEPT !.visible = @ \cup {w}]

EndDrag(m) == [m EXCEPT !.dragging = NULL, !.offset = <<0, 0>>]

\* Mutants: a hidden window keeps the focus; it stays on the mouse.
HideKeepsFocus(m, w) ==
    LET n == IF m.dragging = w THEN EndDrag(m) ELSE m
    IN [n EXCEPT !.visible = @ \ {w}]

HideKeepsDrag(m, w) ==
    [m EXCEPT !.visible = @ \ {w}, !.focused = IF @ = w THEN NULL ELSE @]

HideWindow(m, w) ==
    LET n == IF m.dragging = w THEN EndDrag(m) ELSE m
    IN [n EXCEPT !.visible = @ \ {w}, !.focused = IF @ = w THEN NULL ELSE @]

\* Mutant: a restored window still counts as maximized.
MaximizeKeepsFlag(m, w) ==
    IF w \notin m.maximized
    THEN [m EXCEPT !.saved[w] = m.rect[w],
                   !.rect[w] = Bounded([x |-> 0, y |-> 0, w |-> ScreenW, h |-> WorkH]),
                   !.maximized = @ \cup {w}]
    ELSE [m EXCEPT !.rect[w] = Bounded(m.saved[w])]

MaximizeToggle(m, w) ==
    IF w \notin m.maximized
    THEN [m EXCEPT !.saved[w] = m.rect[w],
                   !.rect[w] = Bounded([x |-> 0, y |-> 0, w |-> ScreenW, h |-> WorkH]),
                   !.maximized = @ \cup {w}]
    ELSE [m EXCEPT !.rect[w] = Bounded(m.saved[w]), !.saved[w] = NoRect,
                   !.maximized = @ \ {w}]

-----------------------------------------------------------------------------
(* wm_update: what one event e, a position and the left button, does.      *)

\* The end of the loop's body: the dragged window follows the mouse.
Follow(m, e) ==
    LET n == IF m.dragging = NULL THEN m
             ELSE [m EXCEPT !.rect[m.dragging] =
                        Bounded([@ EXCEPT !.x = e.x - m.offset[1],
                                          !.y = e.y - m.offset[2]])]
    IN [n EXCEPT !.left = e.left]

Pressed(e) == e.left /\ ~wm.left

PressNowhere(e) ==
    /\ Pressed(e)
    /\ \A t \in Windows : ~Topmost(wm, e, t)
    /\ wm' = Follow(wm, e)

\* Every program has a close callback, and it hides its window.
PressClose(e) == \E t \in Windows :
    /\ Pressed(e) /\ Topmost(wm, e, t)
    /\ In(e, CloseButton(wm.rect[t]))
    /\ wm' = Follow(HideWindow(Focus(wm, t), t), e)

PressMaximize(e) == \E t \in Windows :
    /\ Pressed(e) /\ Topmost(wm, e, t)
    /\ ~In(e, CloseButton(wm.rect[t])) /\ In(e, MaxButton(wm.rect[t]))
    /\ wm' = Follow(MaximizeToggle(Focus(wm, t), t), e)

OnButton(e, r) == In(e, CloseButton(r)) \/ In(e, MaxButton(r))

StartDrag(m, t, e) ==
    [m EXCEPT !.dragging = t, !.offset = <<e.x - m.rect[t].x, e.y - m.rect[t].y>>]

PressTitle(e) == \E t \in Windows :
    /\ Pressed(e) /\ Topmost(wm, e, t)
    /\ ~OnButton(e, wm.rect[t])
    /\ e.y < wm.rect[t].y + TitleH
    /\ t \notin wm.maximized
    /\ wm' = Follow(StartDrag(Focus(wm, t), t, e), e)

\* No program has a click callback.
PressOther(e) == \E t \in Windows :
    /\ Pressed(e) /\ Topmost(wm, e, t)
    /\ ~OnButton(e, wm.rect[t])
    /\ e.y >= wm.rect[t].y + TitleH \/ t \in wm.maximized
    /\ wm' = Follow(Focus(wm, t), e)

Release(e) ==
    /\ ~e.left /\ wm.left
    /\ wm' = Follow(EndDrag(wm), e)

Move(e) ==
    /\ e.left = wm.left
    /\ wm' = Follow(wm, e)

Event(e) ==
    \/ PressNowhere(e) \/ PressClose(e) \/ PressMaximize(e) \/ PressTitle(e)
    \/ PressOther(e) \/ Release(e) \/ Move(e)
=============================================================================
