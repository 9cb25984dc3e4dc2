------------------------------- MODULE Input -------------------------------
(***************************************************************************)
(* From the keys and the mouse to the programs on the desktop: the two     *)
(* interrupt handlers (kernel/keyboard/keyboard.c, kernel/mouse/mouse.c)   *)
(* with their rings, the loop of kernel/kernel.c that reads them, and the  *)
(* text the terminal and the editor keep (kernel/desktop/desktop.c).       *)
(*                                                                         *)
(* A device puts bytes on a wire and the controller raises one interrupt   *)
(* for each.  A handler runs whole, as its gate clears the interrupt flag, *)
(* and it can run between any two steps of the loop: between the test for  *)
(* an empty ring and hlt, and between the load of an entry and the advance *)
(* past it.                                                                *)
(***************************************************************************)
EXTENDS Integers, Sequences, FiniteSets

CONSTANTS
    Sessions,           \* what the user does: the keys used and how many at a
                        \* time, the packets of the mouse, and the program in focus
    KeyBufferSize,      \* KEY_BUFFER_SIZE (256)
    EventBufferSize,    \* MOUSE_EVENT_BUFFER_SIZE (64)
    TermCols,           \* TERM_COLS (64)
    TermHistory,        \* TERM_HISTORY (128)
    EditBuf,            \* EDIT_BUF (1080)
    ScreenW, ScreenH,
    MaxWire             \* bound: bytes of the keyboard under way when the user acts

None == "none"

\* A key sends the scancode sc, behind the prefix E0 when ext.  The key print
\* sends an extended shift around its own, as if shift were held.
PrintScreen == [ext |-> TRUE, sc |-> "print"]
ShiftKeys == [ext : {FALSE}, sc : {"lshift", "rshift"}]
CtrlKeys == [ext : BOOLEAN, sc : {"ctrl"}]
AltKeys == [ext : BOOLEAN, sc : {"alt"}]
Caps == [ext |-> FALSE, sc |-> "caps"]

\* The keys, as far as the decoder tells them apart, and the movements of the
\* mouse, of nine bits.
KeySet ==
    [ext : {FALSE}, sc : {"lshift", "rshift", "ctrl", "alt", "caps",
                          "a", "1", "48", "f1", "enter", "backspace"}]
    \cup [ext : {TRUE}, sc : {"ctrl", "alt", "48", "print"}]
Movements == [dx : -256 .. 255, dy : -256 .. 255, left : BOOLEAN]

ASSUME InputAssumption ==
    /\ {KeyBufferSize, EventBufferSize, TermCols, TermHistory} \subseteq Nat \ {0, 1}
    /\ {EditBuf, ScreenW, ScreenH} \subseteq Nat \ {0}
    /\ MaxWire \in Nat
    /\ Sessions \subseteq [keys : SUBSET KeySet, fingers : Nat, packets : SUBSET Movements,
                           focus : {"terminal", "editor", None}]

\* Scancode 0x48 is the arrow behind E0 and 8 on the keypad without it.
Characters == {"a", "A", "1", "!"}
KeyCodes == Characters \cup {"UP", "F1", "ENTER", "BACKSPACE"}

VARIABLES
    session,
    held,       \* the user: keys that are down
    capsOn,     \* the user: has caps lock been pressed an odd number of times?
    odd,        \* the user did something one flag per modifier cannot follow
    wire,       \* bytes of the keyboard not yet handled, with what is meant
    kbd,        \* ext_prefix, shift_down, ctrl_down, alt_down, caps_lock
    keys,       \* key_buffer, buffer_read, buffer_write
    mistyped    \* ghost: was a key decoded that was not the one meant?

keyboard == <<held, capsOn, odd, wire, kbd, keys, mistyped>>

VARIABLES
    mwire,      \* bytes of the mouse not yet handled
    aim,        \* the user: where the pointer should be, and the left button
    rough,      \* a byte was lost, or a movement left its eight bits
    packet,     \* packet[0 .. packet_index - 1]
    mouse,      \* mouse_x, mouse_y, mouse_buttons
    events,     \* event_buffer, event_read, event_write
    dropped     \* ghost: did the last event find the ring full?

pointer == <<mwire, aim, rough, packet, mouse, events, dropped>>

VARIABLES
    pc,         \* where the loop of kernel_main is
    loaded,     \* the ring entry it has in hand
    wmLeft,     \* wm_last_buttons
    text        \* term_input_len, term_line_count, editor_len

loop == <<pc, loaded, wmLeft, text>>
ivars == <<session, keyboard, pointer, loop>>

-----------------------------------------------------------------------------
(* The rings.                                                              *)

Empty == [buf |-> <<>>, read |-> 0, write |-> 0]
IsEmpty(r) == r.read = r.write
Set(buf, i, x) == [j \in DOMAIN buf \cup {i} |-> IF j = i THEN x ELSE buf[j]]

\* Mutant: nothing keeps the writer from catching up with the reader.
PushOverrun(r, size, x) ==
    [r EXCEPT !.buf = Set(@, r.write, x), !.write = (r.write + 1) % size]

\* push_key and push_event: what does not fit is dropped.
Push(r, size, x) ==
    LET next == (r.write + 1) % size IN
    IF next = r.read THEN r
    ELSE [r EXCEPT !.buf = Set(@, r.write, x), !.write = next]

Advance(r, size) == [r EXCEPT !.read = (@ + 1) % size]

\* The entries a ring holds, oldest first.
Contents(r, size) ==
    [i \in 1 .. (r.write + size - r.read) % size |-> r.buf[(r.read + i - 1) % size]]

-----------------------------------------------------------------------------
(* The keyboard.  The user presses, holds and releases keys.               *)

\* The bytes of one key going down or up; what is meant goes with the last.
Bytes(k, released, meant) ==
    LET byte(sc, m) == [sc |-> sc, released |-> released, meant |-> m]
        prefix == [sc |-> "E0", released |-> TRUE, meant |-> None]
        sent(sc, m) == IF k.ext THEN <<prefix, byte(sc, m)>> ELSE <<byte(sc, m)>>
    IN  IF k # PrintScreen THEN sent(k.sc, meant)
        ELSE IF released THEN sent("print", None) \o sent("lshift", meant)
        ELSE sent("lshift", None) \o sent("print", meant)

Shifted == held \cap ShiftKeys # {}

\* What the legend of a key says under shift and caps lock.
Meant(k) ==
    CASE k.sc = "a" -> IF capsOn # Shifted THEN "A" ELSE "a"
      [] k.sc = "1" -> IF Shifted THEN "!" ELSE "1"
      [] k.sc = "48" /\ k.ext -> "UP"
      [] k.sc = "f1" -> "F1"
      [] k.sc = "enter" -> "ENTER"
      [] k.sc = "backspace" -> "BACKSPACE"
      [] OTHER -> None

Touch == Len(wire) <= MaxWire

Press(k) ==
    /\ Touch
    /\ k \notin held /\ Cardinality(held) < session.fingers
    /\ held' = held \cup {k}
    /\ capsOn' = IF k = Caps THEN ~capsOn ELSE capsOn
    /\ wire' = wire \o Bytes(k, FALSE, Meant(k))
    /\ UNCHANGED <<session, odd, kbd, keys, mistyped, pointer, loop>>

\* The keyboard repeats a key that is held; caps lock is toggled again.
Repeat(k) ==
    /\ Touch
    /\ k \in held
    /\ odd' = (odd \/ k = Caps)
    /\ wire' = wire \o Bytes(k, FALSE, Meant(k))
    /\ UNCHANGED <<session, held, capsOn, kbd, keys, mistyped, pointer, loop>>

\* With both shift keys down, the first one released clears the one flag.
Release(k) ==
    /\ Touch
    /\ k \in held
    /\ held' = held \ {k}
    /\ odd' = (odd \/ ShiftKeys \subseteq held)
    /\ wire' = wire \o Bytes(k, TRUE, None)
    /\ UNCHANGED <<session, capsOn, kbd, keys, mistyped, pointer, loop>>

\* decode_extended, of the codes that occur here.
DecodeExtended(sc) == IF sc = "48" THEN "UP" ELSE None

\* Mutant: caps lock adds to shift and nothing takes away.
DecodeAsciiCapsOnly(d, sc) ==
    CASE sc = "a" -> IF d.caps \/ d.shift THEN "A" ELSE "a"
      [] sc = "1" -> IF d.shift THEN "!" ELSE "1"
      [] sc = "enter" -> "ENTER"
      [] sc = "backspace" -> "BACKSPACE"
      [] OTHER -> None

\* decode_ascii and the renaming of '\n' and '\b': a letter found in the table
\* of the shift state is turned around by caps lock.
DecodeAscii(d, sc) ==
    CASE sc = "a" ->
            LET c == IF d.shift THEN "A" ELSE "a"
            IN  IF c = "a" /\ d.caps # d.shift THEN "A"
                ELSE IF c = "A" /\ d.caps = d.shift THEN "a"
                ELSE c
      [] sc = "1" -> IF d.shift THEN "!" ELSE "1"
      [] sc = "enter" -> "ENTER"
      [] sc = "backspace" -> "BACKSPACE"
      [] OTHER -> None

DecodePlain(d, b) ==
    IF b.released THEN None
    ELSE IF b.sc = "f1" THEN "F1"       \* decode_function
    ELSE DecodeAscii(d, b.sc)

\* Mutant: the prefix is not looked at before the shift keys.
DecodeShiftFirst(d, b) ==
    CASE b.sc = "E0" -> [d |-> [d EXCEPT !.ext = TRUE], key |-> None]
      [] b.sc \in {"lshift", "rshift"} ->
            [d |-> [d EXCEPT !.ext = FALSE, !.shift = ~b.released], key |-> None]
      [] b.sc = "ctrl" ->
            [d |-> [d EXCEPT !.ext = FALSE, !.ctrl = ~b.released], key |-> None]
      [] b.sc = "alt" ->
            [d |-> [d EXCEPT !.ext = FALSE, !.alt = ~b.released], key |-> None]
      [] b.sc = "caps" /\ ~b.released ->
            [d |-> [d EXCEPT !.caps = ~@], key |-> None]
      [] d.ext ->
            [d |-> [d EXCEPT !.ext = FALSE],
             key |-> IF b.released THEN None ELSE DecodeExtended(b.sc)]
      [] OTHER -> [d |-> d, key |-> DecodePlain(d, b)]

\* keyboard_callback up to push_key: the decoder's state after byte b, and the
\* key to push.  E0 is tested first, then, behind it, everything but ctrl and
\* alt is looked up in the table of extended codes.
Decode(d, b) ==
    CASE b.sc = "E0" -> [d |-> [d EXCEPT !.ext = TRUE], key |-> None]
      [] b.sc = "ctrl" ->
            [d |-> [d EXCEPT !.ext = FALSE, !.ctrl = ~b.released], key |-> None]
      [] b.sc = "alt" ->
            [d |-> [d EXCEPT !.ext = FALSE, !.alt = ~b.released], key |-> None]
      [] d.ext /\ b.sc \notin {"E0", "ctrl", "alt"} ->
            [d |-> [d EXCEPT !.ext = FALSE],
             key |-> IF b.released THEN None ELSE DecodeExtended(b.sc)]
      [] ~d.ext /\ b.sc \in {"lshift", "rshift"} ->
            [d |-> [d EXCEPT !.shift = ~b.released], key |-> None]
      [] ~d.ext /\ b.sc = "caps" /\ ~b.released ->
            [d |-> [d EXCEPT !.caps = ~@], key |-> None]
      [] OTHER -> [d |-> d, key |-> DecodePlain(d, b)]

\* An interrupt ends the hlt of the loop, or that of the command sleep.
Waiting == {"halted", "asleep"}
Woken == IF pc \in Waiting THEN "frame" ELSE pc

KeyboardCallback ==
    LET r == Decode(kbd, Head(wire)) IN
    /\ wire # <<>>
    /\ wire' = Tail(wire)
    /\ kbd' = r.d
    /\ keys' = IF r.key = None THEN keys ELSE Push(keys, KeyBufferSize, r.key)
    /\ mistyped' = (mistyped \/ (~odd /\ r.key # Head(wire).meant))
    /\ pc' = Woken
    /\ UNCHANGED <<session, held, capsOn, odd, pointer,
                   loaded, wmLeft, text>>

-----------------------------------------------------------------------------
(* The mouse.  A packet of the session is a movement (dx, dy) of up to     *)
(* nine bits, up being positive, and the state of the left button.         *)

Byte == 0 .. 255
Bit(b, n) == (b \div n) % 2 = 1
Int8(b) == IF b >= 128 THEN b - 256 ELSE b
Fits(d) == d \in -128 .. 127

Clamp(v, size) == IF v < 0 THEN 0 ELSE IF v >= size THEN size - 1 ELSE v

\* Where mouse_init puts the pointer.
Start == [x |-> ScreenW \div 2, y |-> ScreenH \div 2, left |-> FALSE]

Flag(cond, n) == IF cond THEN n ELSE 0

\* Status (always with bit 3, the signs, the button), and the low bytes.
Packet(p) ==
    <<8 + Flag(p.dx < 0, 16) + Flag(p.dy < 0, 32) + Flag(p.left, 1),
      p.dx % 256, p.dy % 256>>

\* Bound: one packet at a time.
MoveMouse(p) ==
    /\ mwire = <<>>
    /\ mwire' = Packet(p)
    /\ rough' = (rough \/ ~Fits(p.dx) \/ ~Fits(p.dy))
    /\ aim' = IF rough' THEN Start
              ELSE [x |-> Clamp(aim.x + p.dx, ScreenW),
                    y |-> Clamp(aim.y - p.dy, ScreenH), left |-> p.left]
    /\ UNCHANGED <<session, keyboard, packet, mouse, events, dropped, loop>>

\* Bound: once.
LoseByte ==
    /\ mwire # <<>> /\ ~rough
    /\ mwire' = Tail(mwire)
    /\ rough' = TRUE /\ aim' = Start
    /\ UNCHANGED <<session, keyboard, packet, mouse, events, dropped, loop>>

\* Mutant: the vertical axis of the mouse is taken for that of the screen.
HandlePacketUpsideDown(b) ==
    [x |-> Clamp(mouse.x + (IF Bit(b[1], 64) THEN 0 ELSE Int8(b[2])), ScreenW),
     y |-> Clamp(mouse.y + (IF Bit(b[1], 128) THEN 0 ELSE Int8(b[3])), ScreenH),
     left |-> Bit(b[1], 1)]

\* mouse_handle_packet: the overflow bits void a movement, the sign bits are
\* not looked at.
HandlePacket(b) ==
    [x |-> Clamp(mouse.x + (IF Bit(b[1], 64) THEN 0 ELSE Int8(b[2])), ScreenW),
     y |-> Clamp(mouse.y - (IF Bit(b[1], 128) THEN 0 ELSE Int8(b[3])), ScreenH),
     left |-> Bit(b[1], 1)]

\* mouse_irq: a first byte without bit 3 is skipped, a third completes a packet.
MouseIrq ==
    LET b == Append(packet, Head(mwire))
        e == HandlePacket(b)
    IN  /\ mwire # <<>>
        /\ mwire' = Tail(mwire)
        /\ IF packet = <<>> /\ ~Bit(Head(mwire), 8)
           THEN UNCHANGED <<packet, mouse, events, dropped>>
           ELSE IF Len(b) < 3
           THEN packet' = b /\ UNCHANGED <<mouse, events, dropped>>
           ELSE /\ packet' = <<>>
                /\ mouse' = e
                /\ events' = Push(events, EventBufferSize, e)
                /\ dropped' = (events' = events)
        /\ pc' = Woken
        /\ UNCHANGED <<session, keyboard, aim, rough,
                       loaded, wmLeft, text>>

-----------------------------------------------------------------------------
(* The text of the two programs that read keys, as lengths.                *)

\* term_push, n times: the oldest lines go.
Lines(lines, n) == IF lines + n > TermHistory THEN TermHistory ELSE lines + n

\* How many lines a command answers with: uptime, echo, a disk that is missing
\* and a command that is unknown one, disk two, about three, mem four, help
\* eleven, ps a heading and one for each of up to sixteen processes.
Answers == {1, 3, 4, 11} \cup (2 .. 17)

\* term_execute: the echo of the line, then nothing for an empty one, clear, or
\* the answer.  What ends the session is in the module Desktop.
Echoed(t) == [t EXCEPT !.lines = Lines(@, 1), !.input = 0]
Execute(t) ==
    IF t.input = 0 THEN {Echoed(t)}
    ELSE {[Echoed(t) EXCEPT !.lines = 0]}
         \cup {[Echoed(t) EXCEPT !.lines = Lines(@, n)] : n \in Answers}

\* Mutant: the bound of the line forgets its terminator.
TermOnKeyOffByOne(t, key) ==
    CASE key = "ENTER" -> Execute(t)
      [] key = "BACKSPACE" /\ t.input > 0 -> {[t EXCEPT !.input = @ - 1]}
      [] key \in Characters /\ t.input < TermCols -> {[t EXCEPT !.input = @ + 1]}
      [] OTHER -> {t}

\* term_on_key: what the text can be afterwards.
TermOnKey(t, key) ==
    CASE key = "ENTER" -> Execute(t)
      [] key = "BACKSPACE" /\ t.input > 0 -> {[t EXCEPT !.input = @ - 1]}
      [] key \in Characters /\ t.input < TermCols - 1 -> {[t EXCEPT !.input = @ + 1]}
      [] OTHER -> {t}

\* editor_on_key
EditorOnKey(t, key) ==
    CASE key = "BACKSPACE" /\ t.editor > 0 -> {[t EXCEPT !.editor = @ - 1]}
      [] key \in Characters \cup {"ENTER"} /\ t.editor < EditBuf ->
            {[t EXCEPT !.editor = @ + 1]}
      [] OTHER -> {t}

\* wm_deliver_key, to the program in the focused window if it has a handler.
Deliver(t, key) ==
    CASE session.focus = "terminal" -> TermOnKey(t, key)
      [] session.focus = "editor" -> EditorOnKey(t, key)
      [] OTHER -> {t}

-----------------------------------------------------------------------------
(* The loop of kernel_main: desktop_update's keys, wm_update's events,     *)
(* drawing, hlt.  What clicks do to the windows is the module Desktop.     *)

\* A step of the loop that only moves on.
Goto(from, to) ==
    /\ pc = from
    /\ pc' = to
    /\ UNCHANGED <<session, keyboard, pointer, loaded,
                   wmLeft, text>>

KeyLoop ==
    \/ IsEmpty(keys) /\ Goto("frame", "events")
    \/ ~IsEmpty(keys) /\ Goto("frame", "load_key")

LoadKey ==
    /\ pc = "load_key"
    /\ pc' = "take_key"
    /\ loaded' = keys.buf[keys.read]
    /\ UNCHANGED <<session, keyboard, pointer, wmLeft, text>>

\* Has the terminal been given a command, which may be sleep?
MaySleep == session.focus = "terminal" /\ loaded = "ENTER" /\ text.input > 0

\* sleep halts here, with keys of the same frame still to come.
TakeKey ==
    /\ pc = "take_key"
    /\ keys' = Advance(keys, KeyBufferSize)
    /\ loaded' = None
    /\ \/ pc' = "frame" /\ text' \in Deliver(text, loaded)
       \/ MaySleep /\ pc' = "asleep" /\ text' = Echoed(text)
    /\ UNCHANGED <<session, held, capsOn, odd, wire, kbd, mistyped, pointer,
                   wmLeft>>

EventLoop ==
    \/ IsEmpty(events) /\ Goto("events", "render")
    \/ ~IsEmpty(events) /\ Goto("events", "load_event")

LoadEvent ==
    /\ pc = "load_event"
    /\ pc' = "take_event"
    /\ loaded' = events.buf[events.read]
    /\ UNCHANGED <<session, keyboard, pointer, wmLeft, text>>

TakeEvent ==
    /\ pc = "take_event"
    /\ pc' = "events"
    /\ events' = Advance(events, EventBufferSize)
    /\ loaded' = None
    /\ wmLeft' = loaded.left
    /\ UNCHANGED <<session, keyboard, mwire, aim, rough, packet, mouse, dropped, text>>

Halt == Goto("render", "halted")

\* Mutant: the timer interrupt is masked while the loop is halted.
TickMasked == pc \in Waiting /\ UNCHANGED ivars

\* timer_callback, as far as the loop sees it.
Tick == \E at \in Waiting : Goto(at, "frame")

-----------------------------------------------------------------------------
IInit ==
    /\ session \in Sessions
    /\ held = {} /\ capsOn = FALSE /\ odd = FALSE
    /\ wire = <<>>
    /\ kbd = [ext |-> FALSE, shift |-> FALSE, ctrl |-> FALSE, alt |-> FALSE,
              caps |-> FALSE]
    /\ keys = Empty
    /\ mistyped = FALSE
    /\ mwire = <<>> /\ packet = <<>>
    /\ mouse = Start /\ aim = Start /\ rough = FALSE
    /\ events = Empty /\ dropped = FALSE
    /\ pc = "frame"
    /\ loaded = None
    /\ wmLeft = FALSE
    /\ text = [input |-> 0, lines |-> 1, editor |-> 0]

User ==
    \/ \E k \in session.keys : Press(k) \/ Repeat(k) \/ Release(k)
    \/ \E p \in session.packets : MoveMouse(p)

Loop ==
    \/ KeyLoop \/ LoadKey \/ TakeKey
    \/ EventLoop \/ LoadEvent \/ TakeEvent \/ Halt

INext == User \/ LoseByte \/ KeyboardCallback \/ MouseIrq \/ Loop \/ Tick

\* The scheduler comes back to the loop, and the interrupts are delivered.
Fairness ==
    /\ WF_ivars(Loop)
    /\ WF_ivars(KeyboardCallback)
    /\ WF_ivars(MouseIrq)
    /\ WF_ivars(Tick)

ISpec == IInit /\ [][INext]_ivars /\ Fairness

-----------------------------------------------------------------------------
(* Properties                                                              *)

EventSet == [x : 0 .. ScreenW - 1, y : 0 .. ScreenH - 1, left : BOOLEAN]

ITypeOK ==
    /\ session \in Sessions /\ held \subseteq session.keys
    /\ kbd \in [ext : BOOLEAN, shift : BOOLEAN, ctrl : BOOLEAN, alt : BOOLEAN,
                caps : BOOLEAN]
    /\ keys.read \in 0 .. KeyBufferSize - 1 /\ keys.write \in 0 .. KeyBufferSize - 1
    /\ events.read \in 0 .. EventBufferSize - 1
    /\ events.write \in 0 .. EventBufferSize - 1
    /\ Len(packet) <= 2
    /\ mouse \in EventSet
    /\ pc = "take_key" => loaded \in KeyCodes
    /\ pc = "take_event" => loaded \in EventSet
    /\ text.input \in 0 .. TermCols - 1
    /\ text.lines \in 0 .. TermHistory
    /\ text.editor \in 0 .. EditBuf

InHand(at) == IF pc = at THEN <<loaded>> ELSE <<>>

KeyQueue == INSTANCE LossyQueue
    WITH Items <- KeyCodes, Capacity <- KeyBufferSize - 1,
         queue <- Contents(keys, KeyBufferSize), hand <- InHand("take_key")
EventQueue == INSTANCE LossyQueue
    WITH Items <- EventSet, Capacity <- EventBufferSize - 1,
         queue <- Contents(events, EventBufferSize), hand <- InHand("take_event")

\* Interrupts that push while the loop is between its load of an entry and its
\* advance neither change, repeat nor reorder what the loop gets.
IsLossyQueue == KeyQueue!QSpec /\ EventQueue!QSpec

\* Once the handler has seen every byte, no modifier is down that the user does
\* not hold, and the next byte is not taken for an extended code: prefixes,
\* repeats, the second key of a pair and the shift that print pretends included.
NoStuckModifier == wire = <<>> =>
    /\ kbd.shift => held \cap ShiftKeys # {}
    /\ kbd.ctrl => held \cap CtrlKeys # {}
    /\ kbd.alt => held \cap AltKeys # {}
    /\ ~kbd.ext

\* A key is decoded to what its legend says under the modifiers at the moment
\* it was pressed, however late the bytes are handled.
KeysFaithful == ~mistyped

\* As long as no byte is lost and no movement exceeds eight bits, the pointer
\* is where the packets handled put it; and once the events are read, the
\* window manager knows whether the button is down, unless the last event found
\* the ring full.
MouseAgrees ==
    /\ mwire = <<>> /\ ~rough => mouse = aim
    /\ IsEmpty(events) /\ ~dropped => wmLeft = mouse.left

\* Out of the loop of a ring, which goes on for as long as that ring fills.
KeysPause == <>[](wire = <<>>) \/ []<>(pc \notin {"frame", "load_key", "take_key"})
MousePauses ==
    <>[](mwire = <<>>) \/ []<>(pc \notin {"events", "load_event", "take_event"})

\* Whatever is in a ring is read, though nothing but the timer may interrupt
\* the hlt after it: provided the other device falls silent or, again and again,
\* lets the loop get out of its ring.  Keys that never cease keep desktop_update
\* from wm_update, and events that never cease keep wm_update from returning.
InputIsRead ==
    /\ MousePauses => \A i \in 0 .. KeyBufferSize - 1 :
          (keys.read = i /\ ~IsEmpty(keys)) ~> keys.read # i
    /\ KeysPause => \A i \in 0 .. EventBufferSize - 1 :
          (events.read = i /\ ~IsEmpty(events)) ~> events.read # i
=============================================================================
