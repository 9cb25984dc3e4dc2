------------------------------ MODULE Desktop ------------------------------
(***************************************************************************)
(* The main loop of kernel/kernel.c: desktop_update of                     *)
(* kernel/desktop/desktop.c over the window manager, one program to a      *)
(* window.  A frame reads the mouse twice: the taskbar and the start menu  *)
(* act on its position and buttons when the frame begins, the windows on   *)
(* the queued events.  The interrupt queues, drops and moves in between,   *)
(* so neither tells anything about the other.                              *)
(*                                                                         *)
(* Keys go to the focused program and touch no window; of what they do,    *)
(* only the terminal's commands shutdown and reboot matter here.           *)
(***************************************************************************)
EXTENDS WindowManager

CONSTANTS
    Terminal,       \* APP_TERMINAL, the program opened at the start
    Place,          \* where desktop_create_app puts a program's window
    StartButton,    \* start_btn_rect
    AppButton,      \* app_btn_rect
    MenuItem,       \* start_item_rect, 1 to 4
    Points          \* positions of the mouse

ASSUME LayoutAssumption ==
    /\ Terminal \in Windows
    /\ Place \in [Windows -> Rects]
    /\ StartButton \in Rects /\ AppButton \in [Windows -> Rects]
    /\ \A p \in Points : \A i, j \in Windows :
        In(p, AppButton[i]) /\ In(p, AppButton[j]) => i = j
    /\ MenuItem \in [1 .. 4 -> Rects]
    /\ Points \subseteq [x : Int, y : Int]

VARIABLES
    pc,                     \* "frame", or "events" in wm_update
    desktop_last_buttons,   \* was the left button down in the last frame?
    start_open

desk == <<desktop_last_buttons, start_open>>
dvars == <<wm, pc, desk>>

DInit ==
    /\ wm = CreateWindow(NoWindows, Terminal, Place[Terminal])
    /\ pc = "frame"
    /\ desktop_last_buttons = FALSE
    /\ start_open = FALSE

-----------------------------------------------------------------------------
(* desktop_update, with the mouse at p.                                    *)

Frame(left) ==
    /\ pc = "frame"
    /\ pc' = "events"
    /\ desktop_last_buttons' = left

DesktopPress == Frame(TRUE) /\ ~desktop_last_buttons

NoPress(left) ==
    /\ Frame(left)
    /\ ~left \/ desktop_last_buttons
    /\ UNCHANGED <<wm, start_open>>

OpenMenu(p) ==
    /\ DesktopPress
    /\ ~start_open /\ In(p, StartButton)
    /\ start_open' = TRUE
    /\ UNCHANGED wm

\* Sleep and Close, or a click beside the menu.
CloseMenu(p) ==
    /\ DesktopPress
    /\ start_open /\ ~In(p, MenuItem[1]) /\ ~In(p, MenuItem[2])
    /\ start_open' = FALSE
    /\ UNCHANGED wm

\* Mutant: what a failure after wm_create_window leaves on the list.
OpenAppHalfway(i) ==
    \/ /\ i \in wm.created
       /\ wm' = Focus(ShowWindow(wm, i), i)
    \/ /\ i \notin wm.created
       /\ wm' = CreateWindow(wm, i, Place[i])
    \/ /\ i \notin wm.created
       /\ wm' = [CreateWindow(wm, i, Place[i]) EXCEPT !.created = wm.created]

\* desktop_open_app; kmalloc may have nothing left for a new window.
OpenApp(i) ==
    \/ /\ i \in wm.created
       /\ wm' = Focus(ShowWindow(wm, i), i)
    \/ /\ i \notin wm.created
       /\ wm' = CreateWindow(wm, i, Place[i])
    \/ /\ i \notin wm.created
       /\ UNCHANGED wm

\* The taskbar's buttons.
ToggleApp(p) == \E i \in Windows :
    /\ DesktopPress
    /\ ~start_open /\ ~In(p, StartButton) /\ In(p, AppButton[i])
    /\ IF i \in wm.visible THEN wm' = HideWindow(wm, i) ELSE OpenApp(i)
    /\ UNCHANGED start_open

PressElsewhere(p) ==
    /\ DesktopPress
    /\ ~start_open /\ ~In(p, StartButton) /\ \A i \in Windows : ~In(p, AppButton[i])
    /\ UNCHANGED <<wm, start_open>>

\* Shutdown and Restart, from the menu or typed at the terminal: the machine
\* comes back with a new desktop.
Power ==
    /\ wm' = CreateWindow(NoWindows, Terminal, Place[Terminal])
    /\ pc' = "frame"
    /\ desktop_last_buttons' = FALSE
    /\ start_open' = FALSE

MenuPower(p) ==
    /\ pc = "frame" /\ ~desktop_last_buttons
    /\ start_open /\ (In(p, MenuItem[1]) \/ In(p, MenuItem[2]))
    /\ Power

TypedPower ==
    /\ pc = "frame"
    /\ wm.focused = Terminal /\ Terminal \in wm.visible
    /\ Power

\* wm_update, and when the queue is empty the next frame.
HandleEvent(e) == pc = "events" /\ Event(e) /\ UNCHANGED <<pc, desk>>

FrameEnds == pc = "events" /\ pc' = "frame" /\ UNCHANGED <<wm, desk>>

DNext ==
    \/ \E left \in BOOLEAN : NoPress(left)
    \/ \E p \in Points :
        OpenMenu(p) \/ CloseMenu(p) \/ ToggleApp(p) \/ PressElsewhere(p) \/ MenuPower(p)
    \/ TypedPower
    \/ \E p \in Points, left \in BOOLEAN :
        HandleEvent([x |-> p.x, y |-> p.y, left |-> left])
    \/ FrameEnds

DSpec == DInit /\ [][DNext]_dvars

-----------------------------------------------------------------------------
(* Properties                                                              *)

DTypeOK ==
    /\ wm.created \subseteq Windows
    /\ wm.visible \subseteq wm.created /\ wm.maximized \subseteq wm.created
    /\ wm.rect \in [Windows -> Rects] /\ wm.saved \in [Windows -> Rects]
    /\ wm.prev \in [Windows -> Windows \cup {NULL}]
    /\ wm.next \in [Windows -> Windows \cup {NULL}]
    /\ {wm.head, wm.tail, wm.focused, wm.dragging} \subseteq wm.created \cup {NULL}
    /\ wm.left \in BOOLEAN
    /\ pc \in {"frame", "events"}
    /\ desktop_last_buttons \in BOOLEAN /\ start_open \in BOOLEAN

\* The list, walked from its head to be drawn or from its tail to find what
\* was clicked, holds exactly the windows created, and both walks agree.
ListIsWhole ==
    /\ Walk(wm.next, wm.head) = wm.created
    /\ Walk(wm.prev, wm.tail) = wm.created
    /\ \A v, w \in wm.created : wm.next[v] = w <=> wm.prev[w] = v

\* Keys reach the window drawn on top: whatever was clicked, closed or
\* toggled, the focused window is visible and nothing covers it.
FocusOnTop == wm.focused # NULL => wm.focused = wm.tail /\ wm.focused \in wm.visible

\* No window leaves the screen or lies under the taskbar, where its title bar
\* could not be reached and its clicks would go to the taskbar as well.
InWorkArea == \A w \in wm.created :
    LET r == wm.rect[w]
    IN /\ r.x >= 0 /\ r.x + r.w <= ScreenW /\ r.w >= MinW
       /\ r.y >= 0 /\ r.y + r.h <= WorkH /\ r.h >= MinH

\* A window on the mouse can be seen, is held by its title bar and the button
\* is down as far as the events read tell, also when events were lost or the
\* taskbar hid or raised windows during the drag.
DragHeld == wm.dragging # NULL =>
    /\ wm.dragging \in wm.visible
    /\ wm.left
    /\ wm.offset[1] \in 0 .. wm.rect[wm.dragging].w - 1
    /\ wm.offset[2] \in 0 .. TitleH - 1

\* A maximized window fills the work area until it is restored.
MaximizedFills == \A w \in wm.maximized :
    wm.rect[w] = [x |-> 0, y |-> 0, w |-> ScreenW, h |-> WorkH]

\* While the machine is on, a step puts at most one window on top, and the
\* others keep the order in which they cover each other.
OrderKept == [][wm.created \subseteq wm'.created =>
    \A v, w \in wm.created \ {wm'.tail} :
        w \in Walk(wm.next, v) => w \in Walk(wm'.next, v)]_dvars
=============================================================================
