----------------------------- MODULE DesktopProofs -----------------------------
(***************************************************************************)
(* The windows stay linked, in their order and within reach, for any set   *)
(* of programs, any screen and any sequence of clicks, movements and       *)
(* frames: proofs about WindowManager and Desktop.                         *)
(***************************************************************************)
EXTENDS Desktop, TLAPS

-----------------------------------------------------------------------------
(* Doubly linked lists.                                                    *)

\* A part of L that holds h and whatever nx leads to.
Closed(S, L, nx, h) ==
    /\ S \in SUBSET L
    /\ h \in S \cup {NULL}
    /\ \A u \in S : nx[u] \in S \cup {NULL}

\* From h, nx leads through all of L: only L itself is closed.
Chain(L, nx, h) ==
    /\ Closed(L, L, nx, h)
    /\ \A S \in SUBSET L : Closed(S, L, nx, h) => S = L

\* Both directions, each the other's inverse.
IsList(L, nx, pv, h, t) ==
    /\ Chain(L, nx, h) /\ Chain(L, pv, t)
    /\ \A u \in L : (nx[u] = NULL <=> u = t) /\ (pv[u] = NULL <=> u = h)
    /\ \A u, v \in L : nx[u] = v <=> pv[v] = u

Links == [Windows -> Windows \cup {NULL}]

Managers ==
    [created : SUBSET Windows, visible : SUBSET Windows, maximized : SUBSET Windows,
     rect : [Windows -> Rects], saved : [Windows -> Rects],
     prev : Links, next : Links,
     head : Windows \cup {NULL}, tail : Windows \cup {NULL},
     focused : Windows \cup {NULL}, dragging : Windows \cup {NULL},
     offset : Int \X Int, left : BOOLEAN]

ListOf(m) == IsList(m.created, m.next, m.prev, m.head, m.tail)

\* Other links, and another box, leave a window manager.
LEMMA RelinkTyped ==
    ASSUME NEW m \in Managers, NEW h \in Windows \cup {NULL}, NEW t \in Windows \cup {NULL},
           NEW nx \in Links, NEW pv \in Links
    PROVE  [m EXCEPT !.head = h, !.tail = t, !.next = nx, !.prev = pv] \in Managers
BY DEF Managers

LEMMA ResizeTyped ==
    ASSUME NEW m \in Managers, NEW rs \in [Windows -> Rects], NEW ss \in [Windows -> Rects],
           NEW x \in SUBSET Windows
    PROVE  [m EXCEPT !.saved = ss, !.rect = rs, !.maximized = x] \in Managers
BY DEF Managers

\* Seen from the other end a list is a list.
LEMMA ListReversed ==
    ASSUME NEW L, NEW nx, NEW pv, NEW h, NEW t
    PROVE  IsList(L, nx, pv, h, t) <=> IsList(L, pv, nx, t, h)
BY DEF IsList

\* No part of a list but all of it holds its first window and is closed.
LEMMA ListClosed ==
    ASSUME NEW L, NEW nx, NEW pv, NEW h, NEW t, IsList(L, nx, pv, h, t),
           NEW S, Closed(S, L, nx, h)
    PROVE  S = L
BY DEF IsList, Chain, Closed

\* What a list says of its single windows.
LEMMA ListFacts ==
    ASSUME NEW L \in SUBSET Windows, NEW nx, NEW pv, NEW h, NEW t,
           IsList(L, nx, pv, h, t)
    PROVE  /\ NULL \notin L
           /\ h \in L \cup {NULL} /\ t \in L \cup {NULL}
           /\ (h = NULL <=> L = {}) /\ (t = NULL <=> L = {})
           /\ \A u \in L :
                /\ nx[u] \in L \cup {NULL} /\ pv[u] \in L \cup {NULL}
                /\ (nx[u] = NULL <=> u = t) /\ (pv[u] = NULL <=> u = h)
                /\ nx[u] # u /\ pv[u] # u
           /\ \A u, v \in L : nx[u] = v <=> pv[v] = u
<1>1. /\ NULL \notin L
      /\ h \in L \cup {NULL} /\ t \in L \cup {NULL}
      /\ \A u \in L :
           /\ nx[u] \in L \cup {NULL} /\ pv[u] \in L \cup {NULL}
           /\ (nx[u] = NULL <=> u = t) /\ (pv[u] = NULL <=> u = h)
      /\ \A u, v \in L : nx[u] = v <=> pv[v] = u
  BY ScreenAssumption DEF IsList, Chain, Closed
<1>2. h = NULL => L = {}
  <2>1. h = NULL => Closed({}, L, nx, h)
    BY DEF Closed
  <2> QED BY <2>1, ListClosed
<1>3. t = NULL => L = {}
  <2>1. t = NULL => Closed({}, L, pv, t)
    BY DEF Closed
  <2>2. IsList(L, pv, nx, t, h)
    BY ListReversed
  <2> QED BY <2>1, <2>2, ListClosed
<1>4. ASSUME NEW w \in L, nx[w] = w PROVE FALSE
  <2>1. pv[w] = w /\ w # h /\ h \in L \ {w}
    BY <1>1, <1>2, <1>4
  <2>2. Closed(L \ {w}, L, nx, h)
    BY <1>1, <2>1 DEF Closed
  <2>3. L \ {w} = L
    BY <2>2, ListClosed
  <2> QED BY <2>3
<1>5. \A w \in L : pv[w] # w
  BY <1>1, <1>4
<1> QED BY <1>1, <1>2, <1>3, <1>4, <1>5

\* One direction of wm_list_detach: who pointed to w points past it.
Bypasses(w, L, nx, ny) ==
    \A u \in L \ {w} : ny[u] = IF nx[u] = w THEN nx[w] ELSE nx[u]

\* Taking a window out of a chain leaves a chain of the others.
LEMMA ChainWithout ==
    ASSUME NEW L \in SUBSET Windows, NEW nx, NEW pv, NEW h, NEW t,
           IsList(L, nx, pv, h, t), NEW w \in L, NEW ny, Bypasses(w, L, nx, ny)
    PROVE  Chain(L \ {w}, ny, IF w = h THEN nx[w] ELSE h)
<1> DEFINE g == IF w = h THEN nx[w] ELSE h
<1>1. Closed(L \ {w}, L \ {w}, ny, g)
  BY ListFacts DEF Closed, Bypasses
<1>2. ASSUME NEW S \in SUBSET (L \ {w}), Closed(S, L \ {w}, ny, g)
      PROVE  S = L \ {w}
  <2> DEFINE T == S \cup {v \in {w} : w = h \/ pv[w] \in S}
  <2>1. T \in SUBSET L /\ h \in T \cup {NULL}
    BY <1>2 DEF Closed
  <2>2. \A u \in T : nx[u] \in T \cup {NULL}
    <3> SUFFICES ASSUME NEW u \in T, nx[u] # NULL PROVE nx[u] \in T
      OBVIOUS
    <3>1. CASE u = w
      <4>1. CASE w = h
        BY <1>2, <3>1, <4>1 DEF Closed
      <4>2. CASE w # h
        <5>1. pv[w] \in S /\ nx[pv[w]] = w
          BY <1>2, <3>1, <4>2, ListFacts
        <5>2. ny[pv[w]] = nx[w]
          BY <5>1 DEF Bypasses
        <5> QED BY <1>2, <3>1, <5>1, <5>2 DEF Closed
      <4> QED BY <4>1, <4>2
    <3>2. CASE u # w /\ nx[u] = w
      BY <1>2, <3>2, ListFacts DEF Closed
    <3>3. CASE u # w /\ nx[u] # w
      BY <1>2, <3>3 DEF Closed, Bypasses
    <3> QED BY <3>1, <3>2, <3>3
  <2>3. T = L
    <3>1. Closed(T, L, nx, h)
      BY <2>1, <2>2 DEF Closed
    <3> HIDE DEF T
    <3> QED BY <3>1, ListClosed
  <2> QED BY <1>2, <2>3
<1> QED BY <1>1, <1>2 DEF Chain

\* wm_list_detach leaves a list of the others.
LEMMA DetachList ==
    ASSUME NEW m, m \in Managers, ListOf(m), NEW w \in m.created
    PROVE  /\ Detach(m, w) \in Managers
           /\ IsList(m.created \ {w}, Detach(m, w).next, Detach(m, w).prev,
                     Detach(m, w).head, Detach(m, w).tail)
           /\ Bypasses(w, m.created, m.next, Detach(m, w).next)
           /\ w # m.tail => Detach(m, w).tail = m.tail
<1> USE ScreenAssumption DEF ListOf
<1> DEFINE L == m.created
           p == m.prev[w]
           n == m.next[w]
           d == Detach(m, w)
<1>1. L \in SUBSET Windows /\ m.next \in Links /\ m.prev \in Links
  BY DEF Managers
<1>2. /\ NULL \notin L /\ w # NULL
      /\ m.head \in L \cup {NULL} /\ m.tail \in L \cup {NULL}
      /\ \A u \in L :
           /\ m.next[u] \in L \cup {NULL} /\ m.prev[u] \in L \cup {NULL}
           /\ (m.next[u] = NULL <=> u = m.tail) /\ (m.prev[u] = NULL <=> u = m.head)
           /\ m.next[u] # u /\ m.prev[u] # u
      /\ \A u, v \in L : m.next[u] = v <=> m.prev[v] = u
  BY <1>1, ListFacts
<1>3. p \in (L \ {w}) \cup {NULL} /\ n \in (L \ {w}) \cup {NULL}
  BY <1>2
<1>4. /\ d = [m EXCEPT !.head = d.head, !.tail = d.tail, !.next = d.next, !.prev = d.prev]
      /\ d.head = IF p = NULL THEN n ELSE m.head
      /\ d.tail = IF n = NULL THEN p ELSE m.tail
      /\ d.next = [Link(m.next, p, n) EXCEPT ![w] = NULL]
      /\ d.prev = [Link(m.prev, n, p) EXCEPT ![w] = NULL]
  BY DEF Detach, Managers
<1> HIDE DEF d
<1>5. d.next \in Links /\ d.prev \in Links
  BY <1>1, <1>3, <1>4 DEF Links, Link
<1>6. d \in Managers
  <2>1. d.head \in Windows \cup {NULL} /\ d.tail \in Windows \cup {NULL}
    BY <1>1, <1>2, <1>3, <1>4
  <2>2. d = [m EXCEPT !.head = d.head, !.tail = d.tail, !.next = d.next, !.prev = d.prev]
    BY <1>4
  <2>3. [m EXCEPT !.head = d.head, !.tail = d.tail, !.next = d.next, !.prev = d.prev]
          \in Managers
    BY <1>5, <2>1, RelinkTyped
  <2> QED BY <2>2, <2>3
<1>7. \A u \in L : (m.next[u] = w <=> u = p) /\ (m.prev[u] = w <=> u = n)
  BY <1>2
<1>8. \A u \in L \ {w} : /\ d.next[u] = IF m.next[u] = w THEN n ELSE m.next[u]
                         /\ d.prev[u] = IF m.prev[u] = w THEN p ELSE m.prev[u]
  BY <1>1, <1>3, <1>4, <1>7 DEF Link, Links
<1>9. Chain(L \ {w}, d.next, d.head)
  <2>1. d.head = IF w = m.head THEN m.next[w] ELSE m.head
    BY <1>2, <1>4
  <2>2. Bypasses(w, L, m.next, d.next)
    BY <1>8 DEF Bypasses
  <2>3. Chain(L \ {w}, d.next, IF w = m.head THEN m.next[w] ELSE m.head)
    BY <1>1, <2>2, ChainWithout
  <2> QED BY <2>1, <2>3
<1>10. Chain(L \ {w}, d.prev, d.tail)
  <2>1. IsList(L, m.prev, m.next, m.tail, m.head)
    BY ListReversed
  <2>2. d.tail = IF w = m.tail THEN m.prev[w] ELSE m.tail
    BY <1>2, <1>4
  <2>3. Bypasses(w, L, m.prev, d.prev)
    BY <1>8 DEF Bypasses
  <2>4. Chain(L \ {w}, d.prev, IF w = m.tail THEN m.prev[w] ELSE m.tail)
    BY <1>1, <2>1, <2>3, ChainWithout
  <2> QED BY <2>2, <2>4
<1>11. \A u \in L \ {w} : (d.next[u] = NULL <=> u = d.tail) /\ (d.prev[u] = NULL <=> u = d.head)
  BY <1>2, <1>3, <1>4, <1>7, <1>8
<1>12. \A u, v \in L \ {w} : d.next[u] = v <=> d.prev[v] = u
  BY <1>2, <1>3, <1>7, <1>8
<1>13. Bypasses(w, L, m.next, d.next) /\ (w # m.tail => d.tail = m.tail)
  BY <1>2, <1>4, <1>8 DEF Bypasses
<1> QED BY <1>6, <1>9, <1>10, <1>11, <1>12, <1>13 DEF IsList, d

\* wm_list_attach_tail adds at the end.
\* m becomes a: t is the last window, and all but the list is as it was.
Relinked(m, a, t) ==
    a = [m EXCEPT !.head = a.head, !.tail = t, !.next = a.next, !.prev = a.prev]

\* The last of L leads to w.
Appends(w, L, m, a) ==
    \A u \in L : a.next[u] = IF u = m.tail THEN w ELSE m.next[u]

Attachable(m, L, w) ==
    /\ m \in Managers
    /\ L \in SUBSET Windows /\ w \in Windows \ L
    /\ IsList(L, m.next, m.prev, m.head, m.tail)

\* attach puts a window at the head of a list that does not hold it.
LEMMA AttachList ==
    ASSUME NEW m, NEW L, NEW w, Attachable(m, L, w)
    PROVE  /\ AttachTail(m, w) \in Managers
           /\ IsList(L \cup {w}, AttachTail(m, w).next, AttachTail(m, w).prev,
                     AttachTail(m, w).head, w)
           /\ Relinked(m, AttachTail(m, w), w)
           /\ Appends(w, L, m, AttachTail(m, w))
<1> USE ScreenAssumption
<1> DEFINE a == AttachTail(m, w)
           t == m.tail
<1>0. /\ m \in Managers
      /\ L \in SUBSET Windows /\ w \in Windows \ L
      /\ IsList(L, m.next, m.prev, m.head, m.tail)
  BY DEF Attachable
<1>1. /\ NULL \notin L /\ w # NULL
      /\ m.head \in L \cup {NULL} /\ t \in L \cup {NULL}
      /\ (m.head = NULL <=> L = {}) /\ (t = NULL <=> L = {})
      /\ \A u \in L :
           /\ m.next[u] \in L \cup {NULL} /\ m.prev[u] \in L \cup {NULL}
           /\ (m.next[u] = NULL <=> u = t) /\ (m.prev[u] = NULL <=> u = m.head)
           /\ m.next[u] # u /\ m.prev[u] # u
      /\ \A u, v \in L : m.next[u] = v <=> m.prev[v] = u
  BY <1>0, ListFacts
<1>2. /\ a = [m EXCEPT !.head = a.head, !.tail = w, !.next = a.next, !.prev = a.prev]
      /\ a.head = IF t = NULL THEN w ELSE m.head
      /\ a.next = Link([m.next EXCEPT ![w] = NULL], t, w)
      /\ a.prev = [m.prev EXCEPT ![w] = t]
  BY <1>0 DEF AttachTail, Managers
<1> HIDE DEF a
<1>3. /\ a.next \in Links /\ a.prev \in Links
      /\ \A u \in L : a.next[u] = IF u = t THEN w ELSE m.next[u]
      /\ \A u \in L : a.prev[u] = m.prev[u]
      /\ a.next[w] = NULL /\ a.prev[w] = t
  BY <1>0, <1>1, <1>2 DEF Link, Managers, Links
<1>4. a \in Managers
  <2>1. a.head \in Windows \cup {NULL}
    BY <1>0, <1>1, <1>2
  <2>2. a = [m EXCEPT !.head = a.head, !.tail = w, !.next = a.next, !.prev = a.prev]
    BY <1>2
  <2>3. w \in Windows \cup {NULL}
    BY <1>0
  <2>4. [m EXCEPT !.head = a.head, !.tail = w, !.next = a.next, !.prev = a.prev]
          \in Managers
    BY <1>0, <1>3, <2>1, <2>3, RelinkTyped
  <2> QED BY <2>2, <2>4
<1>6. Chain(L \cup {w}, a.next, a.head)
  <2>1. Closed(L \cup {w}, L \cup {w}, a.next, a.head)
    BY <1>1, <1>2, <1>3 DEF Closed
  <2>2. ASSUME NEW S \in SUBSET (L \cup {w}), Closed(S, L \cup {w}, a.next, a.head)
        PROVE  S = L \cup {w}
    <3>1. a.head \in S
      BY <1>1, <1>2, <2>2 DEF Closed
    <3>2. CASE t = NULL
      BY <1>1, <1>2, <2>2, <3>1, <3>2
    <3>3. CASE t # NULL
      <4>1. Closed(S \ {w}, L, m.next, m.head)
        BY <1>1, <1>2, <1>3, <2>2, <3>1, <3>3 DEF Closed
      <4>2. S \ {w} = L
        BY <1>0, <4>1, ListClosed
      <4>3. a.next[t] = w /\ t \in S
        BY <1>1, <1>3, <3>3, <4>2
      <4> QED BY <1>1, <2>2, <4>2, <4>3 DEF Closed
    <3> QED BY <3>2, <3>3
  <2> QED BY <2>1, <2>2 DEF Chain
<1>7. Chain(L \cup {w}, a.prev, w)
  <2>1. Closed(L \cup {w}, L \cup {w}, a.prev, w)
    BY <1>1, <1>3 DEF Closed
  <2>2. ASSUME NEW S \in SUBSET (L \cup {w}), Closed(S, L \cup {w}, a.prev, w)
        PROVE  S = L \cup {w}
    <3>1. Closed(S \ {w}, L, m.prev, t) /\ w \in S
      BY <1>1, <1>3, <2>2 DEF Closed
    <3>2. IsList(L, m.prev, m.next, t, m.head)
      BY <1>0, ListReversed
    <3>3. S \ {w} = L
      BY <3>1, <3>2, ListClosed
    <3> QED BY <2>2, <3>1, <3>3
  <2> QED BY <2>1, <2>2 DEF Chain
<1>8. \A u \in L \cup {w} : (a.next[u] = NULL <=> u = w) /\ (a.prev[u] = NULL <=> u = a.head)
  BY <1>1, <1>2, <1>3
<1>9. \A u, v \in L \cup {w} : a.next[u] = v <=> a.prev[v] = u
  BY <1>1, <1>2, <1>3
<1>10. Relinked(m, a, w)
  BY <1>2 DEF Relinked
<1> QED BY <1>3, <1>4, <1>6, <1>7, <1>8, <1>9, <1>10 DEF IsList, Appends, a

\* A walk along a list visits all of it.
LEMMA WalkVisitsAll ==
    ASSUME NEW L \in SUBSET Windows, NEW nx \in Links, NEW pv, NEW h, NEW t,
           IsList(L, nx, pv, h, t)
    PROVE  Walk(nx, h) = L
<1>1. NULL \notin L /\ h \in L \cup {NULL} /\ (h = NULL <=> L = {})
      /\ \A u \in L : nx[u] \in L \cup {NULL}
  BY ListFacts
<1>2. Walk(nx, h) \subseteq L
  <2>1. CASE h = NULL
    BY <1>1, <2>1 DEF Walk
  <2>2. CASE h # NULL
    BY <1>1, <2>2 DEF Walk
  <2> QED BY <2>1, <2>2
<1>3. ASSUME NEW x \in L, NEW S \in SUBSET Windows, h \in S,
             \A u \in S : nx[u] \in S \cup {NULL}
      PROVE  x \in S
  <2>1. Closed(S \cap L, L, nx, h)
    BY <1>1, <1>3 DEF Closed
  <2>2. S \cap L = L
    BY <2>1, ListClosed
  <2> QED BY <2>2
<1>4. L \subseteq Walk(nx, h)
  BY <1>1, <1>3 DEF Walk
<1> QED BY <1>2, <1>4

-----------------------------------------------------------------------------
(* Geometry.                                                               *)

InArea(r) ==
    /\ r.x >= 0 /\ r.x + r.w <= ScreenW /\ r.w >= MinW
    /\ r.y >= 0 /\ r.y + r.h <= WorkH /\ r.h >= MinH

Full == [x |-> 0, y |-> 0, w |-> ScreenW, h |-> WorkH]

\* wm_apply_bounds puts any window into the work area, does not change the size
\* of one that fits, nor one that fills it.
LEMMA BoundedFits ==
    ASSUME NEW r \in Rects
    PROVE  /\ Bounded(r) \in Rects /\ InArea(Bounded(r))
           /\ \A q \in Rects : InArea(q) /\ r.w = q.w /\ r.h = q.h =>
                Bounded(r).w = q.w /\ Bounded(r).h = q.h
<1> USE ScreenAssumption DEF Rects, WorkH
<1> DEFINE w == Clamp(r.w, MinW, ScreenW)
           h == Clamp(r.h, MinH, WorkH)
<1>1. w \in MinW .. ScreenW /\ h \in MinH .. WorkH
  BY DEF Clamp
<1>2. /\ Clamp(r.x, 0, ScreenW - w) \in 0 .. ScreenW - w
      /\ Clamp(r.y, 0, WorkH - h) \in 0 .. WorkH - h
  BY <1>1 DEF Clamp
<1>3. Bounded(r) = [x |-> Clamp(r.x, 0, ScreenW - w), y |-> Clamp(r.y, 0, WorkH - h),
                    w |-> w, h |-> h]
  BY DEF Bounded
<1>4. /\ r.w \in MinW .. ScreenW => w = r.w
      /\ r.h \in MinH .. WorkH => h = r.h
  BY DEF Clamp
<1> HIDE DEF w, h
<1>5. Bounded(r) \in Rects /\ InArea(Bounded(r))
  BY <1>1, <1>2, <1>3 DEF InArea
<1> QED BY <1>3, <1>4, <1>5 DEF InArea

\* The screen above the taskbar is a rectangle that bounding leaves alone.
LEMMA BoundedFull == Full \in Rects /\ Bounded(Full) = Full /\ InArea(Full)
BY ScreenAssumption DEF Full, Rects, InArea, Bounded, Clamp, WorkH

-----------------------------------------------------------------------------
(* The inductive invariant, of the manager's state m.  A window on the     *)
(* mouse is not maximized, so that it is held by the same point of its     *)
(* title bar when it is moved; the list is closed in both directions.      *)

FocusInv(m) ==
    m.focused # NULL => m.focused = m.tail /\ m.focused \in m.visible

DragInv(m) ==
    m.dragging # NULL =>
        /\ m.dragging \in m.visible \ m.maximized
        /\ m.offset[1] \in 0 .. m.rect[m.dragging].w - 1
        /\ m.offset[2] \in 0 .. TitleH - 1

\* All but the button, which changes last.
WmInv(m) ==
    /\ m \in Managers
    /\ ListOf(m)
    /\ m.visible \subseteq m.created /\ m.maximized \subseteq m.created
    /\ {m.focused, m.dragging} \subseteq m.created \cup {NULL}
    /\ FocusInv(m)
    /\ \A w \in m.created : InArea(m.rect[w])
    /\ \A w \in m.maximized : m.rect[w] = Full
    /\ DragInv(m)

Held(m) == m.dragging # NULL => m.left

DInv ==
    /\ WmInv(wm) /\ Held(wm)
    /\ pc \in {"frame", "events"}
    /\ desktop_last_buttons \in BOOLEAN /\ start_open \in BOOLEAN

\* wm_focus_internal keeps all in order and changes nothing but the order.
LEMMA FocusWm ==
    ASSUME NEW m, WmInv(m), NEW w \in m.visible
    PROVE  /\ WmInv(Focus(m, w))
           /\ Focus(m, w) = [m EXCEPT !.head = Focus(m, w).head, !.tail = w,
                                !.next = Focus(m, w).next, !.prev = Focus(m, w).prev,
                                !.focused = w]
<1> DEFINE f == Focus(m, w)
<1>1. m \in Managers /\ ListOf(m) /\ w \in m.created /\ w \in Windows /\ w # NULL
  BY ScreenAssumption DEF WmInv, Managers
<1>2. CASE w = m.tail
  <2>1. f = [m EXCEPT !.focused = w]
    BY <1>2 DEF Focus
  <2>2. f \in Managers
    BY <1>1, <2>1 DEF Managers
  <2>3. f = [m EXCEPT !.head = f.head, !.tail = w, !.next = f.next, !.prev = f.prev,
                      !.focused = w]
    BY <1>1, <1>2, <2>1 DEF Managers
  <2>4. /\ f.created = m.created /\ f.visible = m.visible /\ f.maximized = m.maximized
        /\ f.rect = m.rect /\ f.next = m.next /\ f.prev = m.prev /\ f.head = m.head
        /\ f.tail = m.tail /\ f.focused = w /\ f.dragging = m.dragging
        /\ f.offset = m.offset
    BY <1>1, <2>1 DEF Managers
  <2> HIDE DEF f
  <2>5. WmInv(f)
    BY <1>1, <1>2, <2>2, <2>4 DEF WmInv, ListOf, FocusInv, DragInv
  <2> QED BY <2>3, <2>5 DEF f
<1>3. CASE w # m.tail
  <2> DEFINE d == Detach(m, w)
             a == AttachTail(d, w)
  <2>1. /\ d \in Managers
        /\ IsList(m.created \ {w}, d.next, d.prev, d.head, d.tail)
        /\ d = [m EXCEPT !.head = d.head, !.tail = d.tail, !.next = d.next, !.prev = d.prev]
    <3>1. d = [m EXCEPT !.head = d.head, !.tail = d.tail, !.next = d.next, !.prev = d.prev]
      BY <1>1 DEF Detach, Managers
    <3> QED BY <1>1, <3>1, DetachList
  <2> HIDE DEF d
  <2> DEFINE L == m.created \ {w}
  <2>2. L \in SUBSET Windows /\ w \in Windows \ L /\ L \cup {w} = m.created
    BY <1>1 DEF Managers
  <2>3. Attachable(d, L, w)
    BY <2>1, <2>2 DEF Attachable
  <2> HIDE DEF L
  <2>4. /\ a \in Managers
        /\ IsList(L \cup {w}, a.next, a.prev, a.head, w)
        /\ Relinked(d, a, w)
    BY <2>3, AttachList
  <2> HIDE DEF a
  <2>5. f = [a EXCEPT !.focused = w]
    BY <1>3 DEF Focus, a, d
  <2> HIDE DEF f
  <2>6. f = [m EXCEPT !.head = a.head, !.tail = w, !.next = a.next, !.prev = a.prev,
                      !.focused = w]
    <3>1. a = [m EXCEPT !.head = a.head, !.tail = w, !.next = a.next, !.prev = a.prev]
      BY <1>1, <2>1, <2>4 DEF Managers, Relinked
    <3> QED BY <1>1, <2>5, <3>1 DEF Managers
  <2>7. /\ f.created = m.created /\ f.visible = m.visible /\ f.maximized = m.maximized
        /\ f.rect = m.rect /\ f.next = a.next /\ f.prev = a.prev /\ f.head = a.head
        /\ f.tail = w /\ f.focused = w /\ f.dragging = m.dragging
        /\ f.offset = m.offset
    BY <1>1, <2>6 DEF Managers
  <2>8. f \in Managers
    BY <1>1, <2>4, <2>5 DEF Managers
  <2>9. WmInv(f)
    BY <1>1, <2>2, <2>4, <2>7, <2>8 DEF WmInv, ListOf, FocusInv, DragInv
  <2> QED BY <2>6, <2>7, <2>9 DEF f
<1> QED BY <1>2, <1>3

\* wm_create_window puts a new window on top, inside the work area.
LEMMA CreateWm ==
    ASSUME NEW m, WmInv(m), NEW w \in Windows \ m.created, NEW r \in Rects
    PROVE  WmInv(CreateWindow(m, w, r)) /\ (Held(m) => Held(CreateWindow(m, w, r)))
<1> DEFINE L == m.created
           b == Bounded(r)
           c == [m EXCEPT !.created = @ \cup {w}, !.visible = @ \cup {w}, !.rect[w] = b]
           a == AttachTail(c, w)
           f == CreateWindow(m, w, r)
<1>1. /\ m \in Managers /\ ListOf(m) /\ w \in Windows /\ w # NULL /\ w \notin L
      /\ L \in SUBSET Windows
      /\ b \in Rects /\ InArea(b)
  BY ScreenAssumption, BoundedFits DEF WmInv, Managers
<1> HIDE DEF b
<1>2. c \in Managers
  BY <1>1 DEF Managers
<1>3. /\ c.created = L \cup {w} /\ c.visible = m.visible \cup {w}
      /\ c.maximized = m.maximized /\ c.rect = [m.rect EXCEPT ![w] = b]
      /\ c.next = m.next /\ c.prev = m.prev /\ c.head = m.head /\ c.tail = m.tail
      /\ c.focused = m.focused /\ c.dragging = m.dragging
      /\ c.offset = m.offset /\ c.left = m.left
  BY <1>1 DEF Managers
<1>4. f = Focus(a, w)
  BY DEF CreateWindow, b
<1> HIDE DEF c, f
<1>5. Attachable(c, L, w)
  BY <1>1, <1>2, <1>3 DEF Attachable, ListOf
<1>6. /\ a \in Managers
      /\ IsList(L \cup {w}, a.next, a.prev, a.head, w)
      /\ Relinked(c, a, w)
  BY <1>5, AttachList
<1> HIDE DEF a
<1>7. f = [c EXCEPT !.head = a.head, !.tail = w, !.next = a.next, !.prev = a.prev,
                    !.focused = w]
  <2>1. a.tail = w
    BY <1>2, <1>6 DEF Relinked, Managers
  <2> QED BY <1>2, <1>4, <1>6, <2>1 DEF Relinked, Managers, Focus
<1>8. f \in Managers
  BY <1>1, <1>2, <1>6, <1>7 DEF Managers
<1>9. /\ f.created = L \cup {w} /\ f.visible = m.visible \cup {w}
      /\ f.maximized = m.maximized /\ f.rect = [m.rect EXCEPT ![w] = b]
      /\ f.next = a.next /\ f.prev = a.prev /\ f.head = a.head
      /\ f.tail = w /\ f.focused = w /\ f.dragging = m.dragging
      /\ f.offset = m.offset /\ f.left = m.left
  BY <1>2, <1>3, <1>7 DEF Managers
<1>10. \A u \in f.created : f.rect[u] = IF u = w THEN b ELSE m.rect[u]
  BY <1>1, <1>9 DEF Managers
<1>11. (\A u \in f.created : InArea(f.rect[u])) /\ \A u \in f.maximized : f.rect[u] = Full
  BY <1>1, <1>9, <1>10 DEF WmInv
<1>12. DragInv(f)
  BY <1>1, <1>9, <1>10 DEF WmInv, DragInv
<1>13. WmInv(f)
  BY <1>1, <1>6, <1>8, <1>9, <1>11, <1>12 DEF WmInv, ListOf, FocusInv
<1> QED BY <1>9, <1>13 DEF f, Held

\* wm_show_window touches nothing but what is visible.
LEMMA ShowWm ==
    ASSUME NEW m, WmInv(m), NEW w \in m.created
    PROVE  WmInv(ShowWindow(m, w)) /\ (Held(m) => Held(ShowWindow(m, w)))
<1> DEFINE f == ShowWindow(m, w)
<1>1. m \in Managers /\ w \in Windows
  BY DEF WmInv, Managers
<1>2. /\ f \in Managers
      /\ f.created = m.created /\ f.visible = m.visible \cup {w}
      /\ f.maximized = m.maximized /\ f.rect = m.rect
      /\ f.next = m.next /\ f.prev = m.prev /\ f.head = m.head /\ f.tail = m.tail
      /\ f.focused = m.focused /\ f.dragging = m.dragging
      /\ f.offset = m.offset /\ f.left = m.left
  BY <1>1 DEF Managers, ShowWindow
<1> HIDE DEF f
<1> QED BY <1>2 DEF WmInv, ListOf, FocusInv, DragInv, Held, f

\* The mouse lets go of the window.
LEMMA EndDragWm ==
    ASSUME NEW m, WmInv(m)
    PROVE  /\ WmInv(EndDrag(m)) /\ EndDrag(m).dragging = NULL
           /\ EndDrag(m).created = m.created /\ EndDrag(m).visible = m.visible
<1> DEFINE f == EndDrag(m)
<1>1. m \in Managers
  BY DEF WmInv
<1>2. /\ f \in Managers
      /\ f.created = m.created /\ f.visible = m.visible
      /\ f.maximized = m.maximized /\ f.rect = m.rect
      /\ f.next = m.next /\ f.prev = m.prev /\ f.head = m.head /\ f.tail = m.tail
      /\ f.focused = m.focused /\ f.dragging = NULL
  <2>1. f = [m EXCEPT !.dragging = NULL, !.offset = <<0, 0>>] /\ <<0, 0>> \in Int \X Int
    BY DEF EndDrag
  <2> HIDE DEF f
  <2> DEFINE z == <<0, 0>>
  <2> HIDE DEF z
  <2>2. f = [m EXCEPT !.dragging = NULL, !.offset = z] /\ z \in Int \X Int
    BY <2>1 DEF z
  <2> QED BY <1>1, <2>2 DEF Managers
<1> HIDE DEF f
<1> QED BY <1>2 DEF WmInv, ListOf, FocusInv, DragInv, f

\* wm_hide_window takes the focus and the mouse from the window it hides.
LEMMA HideWm ==
    ASSUME NEW m, WmInv(m), NEW w \in Windows
    PROVE  /\ WmInv(HideWindow(m, w)) /\ (Held(m) => Held(HideWindow(m, w)))
           /\ HideWindow(m, w).dragging \in {NULL, m.dragging}
<1> DEFINE n == IF m.dragging = w THEN EndDrag(m) ELSE m
           f == HideWindow(m, w)
<1>1. m \in Managers /\ w # NULL
  BY ScreenAssumption DEF WmInv
<1>2. WmInv(n) /\ n.dragging \in {NULL, m.dragging} /\ n.dragging # w /\ n.left = m.left
  <2>1. EndDrag(m).left = m.left
    BY <1>1 DEF EndDrag, Managers
  <2> QED BY <1>1, <2>1, EndDragWm
<1>3. n \in Managers
  BY <1>2 DEF WmInv
<1>4. f = [n EXCEPT !.visible = @ \ {w}, !.focused = IF @ = w THEN NULL ELSE @]
  BY DEF HideWindow
<1> HIDE DEF n, f
<1>5. /\ f \in Managers
      /\ f.created = n.created /\ f.visible = n.visible \ {w}
      /\ f.maximized = n.maximized /\ f.rect = n.rect
      /\ f.next = n.next /\ f.prev = n.prev /\ f.head = n.head /\ f.tail = n.tail
      /\ f.focused = (IF n.focused = w THEN NULL ELSE n.focused)
      /\ f.dragging = n.dragging /\ f.offset = n.offset /\ f.left = n.left
  BY <1>3, <1>4 DEF Managers
<1>6. WmInv(f)
  BY <1>2, <1>5 DEF WmInv, ListOf, FocusInv, DragInv
<1> QED BY <1>2, <1>5, <1>6 DEF Held, f

\* wm_maximize_toggle changes the place of one window, which is not on the mouse.
LEMMA MaximizeWm ==
    ASSUME NEW m, WmInv(m), m.dragging = NULL, NEW w \in m.created
    PROVE  WmInv(MaximizeToggle(m, w)) /\ MaximizeToggle(m, w).dragging = NULL
<1> DEFINE f == MaximizeToggle(m, w)
           b == IF w \notin m.maximized THEN Full ELSE Bounded(m.saved[w])
           s == IF w \notin m.maximized THEN m.rect[w] ELSE NoRect
           x == IF w \notin m.maximized THEN m.maximized \cup {w} ELSE m.maximized \ {w}
<1>1. m \in Managers /\ w \in Windows /\ NoRect \in Rects
  BY DEF WmInv, Managers, NoRect, Rects
<1>2. /\ b \in Rects /\ InArea(b) /\ (w \in x => b = Full)
      /\ s \in Rects /\ x \subseteq m.created
  <2>1. m.saved[w] \in Rects /\ m.rect[w] \in Rects
    BY <1>1 DEF Managers
  <2>2. /\ Bounded(m.saved[w]) \in Rects /\ InArea(Bounded(m.saved[w]))
        /\ Full \in Rects /\ InArea(Full)
    BY <2>1, BoundedFits, BoundedFull
  <2> QED BY <1>1, <2>1, <2>2 DEF WmInv
<1>3. f = [m EXCEPT !.saved[w] = s, !.rect[w] = b, !.maximized = x]
  <2>1. CASE w \notin m.maximized
    BY <2>1, BoundedFull DEF MaximizeToggle, Full
  <2>2. CASE w \in m.maximized
    BY <1>1, <2>2 DEF MaximizeToggle, Managers
  <2> QED BY <2>1, <2>2
<1>4. \A u \in x \ {w} : u \in m.maximized
  OBVIOUS
<1> HIDE DEF b, s, x, f
<1>5. f \in Managers
  <2>1. /\ m.created \in SUBSET Windows
        /\ m.saved \in [Windows -> Rects] /\ m.rect \in [Windows -> Rects]
    BY <1>1 DEF Managers
  <2>2. x \in SUBSET Windows
    BY <1>2, <2>1
  <2> DEFINE ss == [m.saved EXCEPT ![w] = s]
             rs == [m.rect EXCEPT ![w] = b]
  <2>3. ss \in [Windows -> Rects] /\ rs \in [Windows -> Rects]
    BY <1>1, <1>2, <2>1
  <2>4. f = [m EXCEPT !.saved = ss, !.rect = rs, !.maximized = x]
    BY <1>3
  <2> HIDE DEF ss, rs
  <2>5. [m EXCEPT !.saved = ss, !.rect = rs, !.maximized = x] \in Managers
    BY <1>1, <2>2, <2>3, ResizeTyped
  <2> QED BY <2>4, <2>5
<1>6. /\ f.created = m.created /\ f.visible = m.visible
      /\ f.maximized = x /\ f.rect = [m.rect EXCEPT ![w] = b]
      /\ f.next = m.next /\ f.prev = m.prev /\ f.head = m.head /\ f.tail = m.tail
      /\ f.focused = m.focused /\ f.dragging = m.dragging
  BY <1>1, <1>3 DEF Managers
<1>7. \A u \in f.created : f.rect[u] = IF u = w THEN b ELSE m.rect[u]
  BY <1>1, <1>6 DEF Managers
<1>8. (\A u \in f.created : InArea(f.rect[u])) /\ \A u \in f.maximized : f.rect[u] = Full
  BY <1>1, <1>2, <1>4, <1>6, <1>7 DEF WmInv
<1>9. WmInv(f)
  BY <1>2, <1>5, <1>6, <1>8 DEF WmInv, ListOf, FocusInv, DragInv
<1> QED BY <1>6, <1>9 DEF f

Mice == [x : Int, y : Int, left : BOOLEAN]

\* A window on the mouse is moved by as much as the mouse, as far as the work
\* area goes, and keeps its size.
LEMMA FollowWm ==
    ASSUME NEW m, WmInv(m), NEW e \in Mice, m.dragging # NULL => e.left
    PROVE  WmInv(Follow(m, e)) /\ Held(Follow(m, e))
<1> DEFINE d == m.dragging
           q == m.rect[d]
           b == Bounded([q EXCEPT !.x = e.x - m.offset[1], !.y = e.y - m.offset[2]])
           n == IF d = NULL THEN m ELSE [m EXCEPT !.rect[d] = b]
           f == Follow(m, e)
<1>1. m \in Managers /\ NULL \notin Windows /\ e.left \in BOOLEAN
  BY ScreenAssumption DEF WmInv, Mice
<1>2. d # NULL => /\ d \in Windows /\ d \in m.created /\ d \in m.visible
                  /\ d \notin m.maximized
                  /\ q \in Rects /\ InArea(q)
  BY <1>1 DEF WmInv, DragInv, Managers
<1>3. d # NULL => b \in Rects /\ InArea(b) /\ b.w = q.w /\ b.h = q.h
  <2> SUFFICES ASSUME d # NULL PROVE b \in Rects /\ InArea(b) /\ b.w = q.w /\ b.h = q.h
    OBVIOUS
  <2> DEFINE r == [q EXCEPT !.x = e.x - m.offset[1], !.y = e.y - m.offset[2]]
  <2>1. m.offset[1] \in Int /\ m.offset[2] \in Int /\ e.x \in Int /\ e.y \in Int
    BY <1>1 DEF Managers, Mice
  <2>2. r \in Rects /\ r.w = q.w /\ r.h = q.h
    <3>1. q \in Rects
      BY <1>2
    <3> DEFINE i == e.x - m.offset[1]
               j == e.y - m.offset[2]
    <3>2. i \in Int /\ j \in Int
      BY <2>1
    <3>3. r = [q EXCEPT !.x = i, !.y = j]
      OBVIOUS
    <3> HIDE DEF i, j, q, r
    <3> QED BY <3>1, <3>2, <3>3 DEF Rects
  <2> HIDE DEF r
  <2>3. /\ Bounded(r) \in Rects /\ InArea(Bounded(r))
        /\ Bounded(r).w = q.w /\ Bounded(r).h = q.h
    BY <1>2, <2>2, BoundedFits
  <2> QED BY <2>3 DEF r
<1>4. f = [n EXCEPT !.left = e.left]
  BY DEF Follow
<1> HIDE DEF b
<1>5. /\ n \in Managers
      /\ n.created = m.created /\ n.visible = m.visible
      /\ n.maximized = m.maximized
      /\ n.next = m.next /\ n.prev = m.prev /\ n.head = m.head /\ n.tail = m.tail
      /\ n.focused = m.focused /\ n.dragging = d /\ n.offset = m.offset
      /\ n.rect = IF d = NULL THEN m.rect ELSE [m.rect EXCEPT ![d] = b]
  <2>1. CASE d = NULL
    BY <1>1, <2>1
  <2>2. CASE d # NULL
    <3> HIDE DEF d
    <3>1. n = [m EXCEPT !.rect = [m.rect EXCEPT ![d] = b]]
      BY <1>1, <1>2, <2>2 DEF Managers
    <3>2. [m.rect EXCEPT ![d] = b] \in [Windows -> Rects]
      BY <1>1, <1>2, <1>3, <2>2 DEF Managers
    <3> QED BY <1>1, <2>2, <3>1, <3>2 DEF Managers, d
  <2> QED BY <2>1, <2>2
<1> HIDE DEF n
<1>6. /\ f \in Managers
      /\ f.created = m.created /\ f.visible = m.visible
      /\ f.maximized = m.maximized /\ f.rect = n.rect
      /\ f.next = m.next /\ f.prev = m.prev /\ f.head = m.head /\ f.tail = m.tail
      /\ f.focused = m.focused /\ f.dragging = d /\ f.offset = m.offset
      /\ f.left = e.left
  <2> HIDE DEF f, d
  <2>1. f \in Managers
    BY <1>1, <1>4, <1>5 DEF Managers
  <2> QED BY <1>4, <1>5, <2>1 DEF Managers
<1> HIDE DEF f
<1>7. \A u \in m.created : n.rect[u] = IF u = d THEN b ELSE m.rect[u]
  BY <1>1, <1>2, <1>5 DEF Managers
<1>8. /\ \A u \in m.created : InArea(n.rect[u])
      /\ \A u \in m.maximized : n.rect[u] = Full
  <2>1. /\ m.maximized \subseteq m.created
        /\ \A u \in m.created : InArea(m.rect[u])
        /\ \A u \in m.maximized : m.rect[u] = Full
    BY DEF WmInv
  <2>2. \A u \in m.created : u = d => d # NULL
    BY <1>1 DEF Managers
  <2> HIDE DEF d, q
  <2> QED BY <1>2, <1>3, <1>7, <2>1, <2>2
<1>9. DragInv(f)
  BY <1>1, <1>2, <1>3, <1>6, <1>7 DEF WmInv, DragInv
<1>10. WmInv(f)
  BY <1>6, <1>8, <1>9 DEF WmInv, ListOf, FocusInv
<1> QED BY <1>6, <1>10 DEF Held, f

-----------------------------------------------------------------------------
(* One event of the queue.                                                 *)

\* What is clicked is visible, under the mouse.
LEMMA TopmostHit ==
    ASSUME NEW m, WmInv(m), NEW e, NEW t, Topmost(m, e, t)
    PROVE  t \in m.visible /\ In(e, m.rect[t]) /\ t \in m.created /\ t \in Windows
BY DEF Topmost, WmInv, Managers

\* A pressed button finds no window on the mouse.
LEMMA PressedFree ==
    ASSUME WmInv(wm), Held(wm), NEW e, Pressed(e)
    PROVE  wm.dragging = NULL /\ e.left
BY DEF Pressed, Held

\* wm_focus_window keeps the windows where they are.
LEMMA FocusedWm ==
    ASSUME NEW m, WmInv(m), NEW w \in m.visible
    PROVE  /\ WmInv(Focus(m, w)) /\ (Held(m) => Held(Focus(m, w)))
           /\ Focus(m, w).created = m.created /\ Focus(m, w).visible = m.visible
           /\ Focus(m, w).maximized = m.maximized /\ Focus(m, w).rect = m.rect
           /\ Focus(m, w).dragging = m.dragging
<1> DEFINE f == Focus(m, w)
<1>1. m \in Managers
  BY DEF WmInv
<1>2. /\ WmInv(f)
      /\ f = [m EXCEPT !.head = f.head, !.tail = w, !.next = f.next, !.prev = f.prev,
                       !.focused = w]
  BY FocusWm
<1> HIDE DEF f
<1>3. /\ f.created = m.created /\ f.visible = m.visible
      /\ f.maximized = m.maximized /\ f.rect = m.rect
      /\ f.dragging = m.dragging /\ f.left = m.left
  BY <1>1, <1>2 DEF Managers
<1> QED BY <1>2, <1>3 DEF f, Held

\* A press on the title bar: the offset is that of the point pressed.
LEMMA StartDragWm ==
    ASSUME NEW m, WmInv(m), NEW w \in m.visible \ m.maximized, NEW e \in Mice,
           In(e, m.rect[w]), e.y < m.rect[w].y + TitleH
    PROVE  WmInv(StartDrag(m, w, e)) /\ StartDrag(m, w, e).dragging = w
<1> DEFINE r == m.rect[w]
           x == e.x - r.x
           y == e.y - r.y
           o == <<x, y>>
           f == StartDrag(m, w, e)
<1>1. m \in Managers /\ w \in Windows /\ w \in m.created
  BY DEF WmInv, Managers
<1>2. r \in Rects
  BY <1>1 DEF Managers
<1>3. x \in 0 .. r.w - 1 /\ y \in 0 .. TitleH - 1
  <2>1. /\ r.x \in Int /\ r.y \in Int /\ r.w \in Int /\ r.h \in Int
        /\ e.x \in Int /\ e.y \in Int /\ TitleH \in Int
    BY <1>2, ScreenAssumption DEF Rects, Mice
  <2>2. e.x >= r.x /\ e.x < r.x + r.w /\ e.y >= r.y /\ e.y < r.y + TitleH
    BY DEF In
  <2> HIDE DEF r
  <2> QED BY <2>1, <2>2
<1> HIDE DEF x, y
<1>4. o \in Int \X Int /\ o[1] = x /\ o[2] = y
  BY <1>3
<1>5. f = [m EXCEPT !.dragging = w, !.offset = o]
  BY DEF StartDrag, x, y
<1> HIDE DEF o, f
<1>6. /\ f \in Managers
      /\ f.created = m.created /\ f.visible = m.visible
      /\ f.maximized = m.maximized /\ f.rect = m.rect
      /\ f.next = m.next /\ f.prev = m.prev /\ f.head = m.head /\ f.tail = m.tail
      /\ f.focused = m.focused /\ f.dragging = w /\ f.offset = o
  BY <1>1, <1>4, <1>5 DEF Managers
<1>7. DragInv(f)
  BY <1>1, <1>3, <1>4, <1>6 DEF DragInv
<1>8. WmInv(f)
  BY <1>1, <1>6, <1>7 DEF WmInv, ListOf, FocusInv
<1> QED BY <1>6, <1>8 DEF f

\* wm_update keeps the invariant, whatever event it reads.
LEMMA EventWm ==
    ASSUME WmInv(wm), Held(wm), NEW e \in Mice, Event(e)
    PROVE  WmInv(wm') /\ Held(wm')
<1>1. CASE PressNowhere(e)
  BY <1>1, PressedFree, FollowWm DEF PressNowhere
<1>2. CASE PressClose(e)
  <2> PICK t \in Windows : /\ Pressed(e) /\ Topmost(wm, e, t)
                           /\ wm' = Follow(HideWindow(Focus(wm, t), t), e)
    BY <1>2 DEF PressClose
  <2> DEFINE f == Focus(wm, t)
             h == HideWindow(f, t)
  <2>1. wm.dragging = NULL /\ e.left /\ t \in wm.visible
    BY PressedFree, TopmostHit
  <2>2. WmInv(f) /\ f.dragging = NULL
    BY <2>1, FocusedWm
  <2> HIDE DEF f
  <2>3. WmInv(h) /\ h.dragging = NULL
    BY <2>2, HideWm
  <2> HIDE DEF h
  <2>4. WmInv(Follow(h, e)) /\ Held(Follow(h, e))
    BY <2>3, FollowWm
  <2> QED BY <2>4 DEF f, h
<1>3. CASE PressMaximize(e)
  <2> PICK t \in Windows : /\ Pressed(e) /\ Topmost(wm, e, t)
                           /\ wm' = Follow(MaximizeToggle(Focus(wm, t), t), e)
    BY <1>3 DEF PressMaximize
  <2> DEFINE f == Focus(wm, t)
             h == MaximizeToggle(f, t)
  <2>1. wm.dragging = NULL /\ e.left /\ t \in wm.visible /\ t \in wm.created
    BY PressedFree, TopmostHit
  <2>2. WmInv(f) /\ f.dragging = NULL /\ t \in f.created
    BY <2>1, FocusedWm
  <2> HIDE DEF f
  <2>3. WmInv(h) /\ h.dragging = NULL
    BY <2>2, MaximizeWm
  <2> HIDE DEF h
  <2>4. WmInv(Follow(h, e)) /\ Held(Follow(h, e))
    BY <2>3, FollowWm
  <2> QED BY <2>4 DEF f, h
<1>4. CASE PressTitle(e)
  <2> PICK t \in Windows : /\ Pressed(e) /\ Topmost(wm, e, t)
                           /\ e.y < wm.rect[t].y + TitleH
                           /\ t \notin wm.maximized
                           /\ wm' = Follow(StartDrag(Focus(wm, t), t, e), e)
    BY <1>4 DEF PressTitle
  <2> DEFINE f == Focus(wm, t)
             h == StartDrag(f, t, e)
  <2>1. e.left /\ t \in wm.visible /\ In(e, wm.rect[t])
    BY PressedFree, TopmostHit
  <2>2. WmInv(f) /\ f.rect = wm.rect /\ t \in f.visible \ f.maximized
    BY <2>1, FocusedWm
  <2> HIDE DEF f
  <2>3. In(e, f.rect[t]) /\ e.y < f.rect[t].y + TitleH
    BY <2>1, <2>2
  <2>4. WmInv(h)
    BY <2>2, <2>3, StartDragWm
  <2> HIDE DEF h
  <2>5. WmInv(Follow(h, e)) /\ Held(Follow(h, e))
    BY <2>1, <2>4, FollowWm
  <2> QED BY <2>5 DEF f, h
<1>5. CASE PressOther(e)
  <2> PICK t \in Windows : /\ Pressed(e) /\ Topmost(wm, e, t)
                           /\ wm' = Follow(Focus(wm, t), e)
    BY <1>5 DEF PressOther
  <2>1. e.left /\ t \in wm.visible
    BY PressedFree, TopmostHit
  <2>2. WmInv(Focus(wm, t))
    BY <2>1, FocusedWm
  <2> QED BY <2>1, <2>2, FollowWm
<1>6. CASE Release(e)
  <2>1. WmInv(EndDrag(wm)) /\ EndDrag(wm).dragging = NULL
    BY EndDragWm
  <2> QED BY <1>6, <2>1, FollowWm DEF Release
<1>7. CASE Move(e)
  BY <1>7, FollowWm DEF Move, Held
<1> QED BY <1>1, <1>2, <1>3, <1>4, <1>5, <1>6, <1>7 DEF Event

-----------------------------------------------------------------------------
(* The desktop.                                                            *)

\* Before the first window is created nothing is out of place.
LEMMA NoWindowsWm == WmInv(NoWindows) /\ Held(NoWindows) /\ NoWindows.created = {}
<1> DEFINE n == NoWindows
<1>1. /\ n.created = {} /\ n.visible = {} /\ n.maximized = {}
      /\ n.next = [w \in Windows |-> NULL] /\ n.prev = [w \in Windows |-> NULL]
      /\ n.head = NULL /\ n.tail = NULL /\ n.focused = NULL /\ n.dragging = NULL
  BY DEF NoWindows
<1>2. n \in Managers
  <2>1. NoRect \in Rects /\ <<0, 0>> \in Int \X Int
    BY DEF NoRect, Rects
  <2> QED BY <2>1 DEF NoWindows, Managers, Links
<1> HIDE DEF n
<1>3. ListOf(n)
  BY <1>1 DEF ListOf, IsList, Chain, Closed
<1> QED BY <1>1, <1>2, <1>3 DEF WmInv, FocusInv, DragInv, Held, n

\* The desktop that kernel_main starts.
LEMMA FirstWm ==
    LET f == CreateWindow(NoWindows, Terminal, Place[Terminal])
    IN WmInv(f) /\ Held(f)
<1>1. Terminal \in Windows \ NoWindows.created /\ Place[Terminal] \in Rects
  BY NoWindowsWm, LayoutAssumption
<1> QED BY <1>1, NoWindowsWm, CreateWm

\* It holds the terminal's window only.
LEMMA FirstCreated ==
    LET f == CreateWindow(NoWindows, Terminal, Place[Terminal])
    IN f.created = {Terminal} /\ f.tail = Terminal
<1> DEFINE c == [NoWindows EXCEPT !.created = @ \cup {Terminal},
                                  !.visible = @ \cup {Terminal},
                                  !.rect[Terminal] = Bounded(Place[Terminal])]
           a == AttachTail(c, Terminal)
<1>1. c.created = {Terminal}
  BY DEF NoWindows
<1>2. a.created = c.created /\ a.tail = Terminal
  BY DEF AttachTail, NoWindows
<1> QED BY <1>1, <1>2 DEF CreateWindow, Focus, AttachTail, NoWindows

\* desktop_open_app shows the program's window, creates it, or does nothing.
LEMMA OpenAppWm ==
    ASSUME WmInv(wm), Held(wm), NEW i \in Windows, OpenApp(i)
    PROVE  WmInv(wm') /\ Held(wm')
<1>1. CASE i \in wm.created /\ wm' = Focus(ShowWindow(wm, i), i)
  <2> DEFINE s == ShowWindow(wm, i)
  <2>1. WmInv(s) /\ Held(s)
    BY <1>1, ShowWm
  <2>2. i \in s.visible
    BY DEF ShowWindow, WmInv, Managers
  <2> HIDE DEF s
  <2>3. WmInv(Focus(s, i)) /\ Held(Focus(s, i))
    BY <2>1, <2>2, FocusedWm
  <2> QED BY <1>1, <2>3 DEF s
<1>2. CASE i \notin wm.created /\ wm' = CreateWindow(wm, i, Place[i])
  <2>1. i \in Windows \ wm.created /\ Place[i] \in Rects
    BY <1>2, LayoutAssumption
  <2> QED BY <1>2, <2>1, CreateWm
<1>3. CASE UNCHANGED wm
  BY <1>3
<1> QED BY <1>1, <1>2, <1>3 DEF OpenApp

\* desktop_init leaves the desktop in the invariant.
LEMMA DInitDInv == DInit => DInv
BY FirstWm DEF DInit, DInv

\* A frame of the desktop or an event keeps the invariant.
LEMMA DNextDInv == DInv /\ [DNext]_dvars => DInv'
<1> SUFFICES ASSUME DInv, [DNext]_dvars PROVE DInv'
  OBVIOUS
<1>1. /\ WmInv(wm) /\ Held(wm) /\ pc \in {"frame", "events"}
      /\ desktop_last_buttons \in BOOLEAN /\ start_open \in BOOLEAN
  BY DEF DInv
<1>2. CASE \E left \in BOOLEAN : NoPress(left)
  BY <1>1, <1>2 DEF NoPress, Frame, DInv
<1>3. ASSUME NEW p \in Points, OpenMenu(p) \/ CloseMenu(p) \/ PressElsewhere(p)
      PROVE  DInv'
  BY <1>1, <1>3 DEF OpenMenu, CloseMenu, PressElsewhere, DesktopPress, Frame, DInv
<1>4. ASSUME NEW p \in Points, ToggleApp(p)
      PROVE  DInv'
  <2> PICK i \in Windows :
        /\ DesktopPress
        /\ IF i \in wm.visible THEN wm' = HideWindow(wm, i) ELSE OpenApp(i)
        /\ UNCHANGED start_open
    BY <1>4 DEF ToggleApp
  <2>1. WmInv(wm') /\ Held(wm')
    BY <1>1, HideWm, OpenAppWm
  <2> QED BY <1>1, <2>1 DEF DesktopPress, Frame, DInv
<1>5. ASSUME Power PROVE DInv'
  BY <1>5, FirstWm DEF Power, DInv
<1>6. CASE TypedPower \/ \E p \in Points : MenuPower(p)
  BY <1>5, <1>6 DEF TypedPower, MenuPower
<1>7. ASSUME NEW p \in Points, NEW left \in BOOLEAN,
             HandleEvent([x |-> p.x, y |-> p.y, left |-> left])
      PROVE  DInv'
  <2> DEFINE e == [x |-> p.x, y |-> p.y, left |-> left]
  <2>1. e \in Mice
    BY LayoutAssumption DEF Mice
  <2>2. Event(e) /\ UNCHANGED <<pc, desk>>
    BY <1>7 DEF HandleEvent
  <2> HIDE DEF e
  <2>3. WmInv(wm') /\ Held(wm')
    BY <1>1, <2>1, <2>2, EventWm
  <2> QED BY <1>1, <2>2, <2>3 DEF desk, DInv
<1>8. CASE FrameEnds
  BY <1>1, <1>8 DEF FrameEnds, desk, DInv
<1>9. CASE UNCHANGED dvars
  BY <1>1, <1>9 DEF dvars, desk, DInv
<1> QED BY <1>2, <1>3, <1>4, <1>6, <1>7, <1>8, <1>9 DEF DNext

\* The inductive invariant holds whatever is clicked, and whenever.
THEOREM DesktopInvariance == DSpec => []DInv
BY DInitDInv, DNextDInv, PTL DEF DSpec

\* What the runs check, drawn from it.
LEMMA DInvImplies ==
    DInv => DTypeOK /\ FocusOnTop /\ InWorkArea /\ DragHeld /\ MaximizedFills
<1> SUFFICES ASSUME DInv
             PROVE  DTypeOK /\ FocusOnTop /\ InWorkArea /\ DragHeld /\ MaximizedFills
  OBVIOUS
<1>1. WmInv(wm) /\ Held(wm) /\ wm \in Managers /\ ListOf(wm)
  BY DEF DInv, WmInv
<1>2. wm.head \in wm.created \cup {NULL} /\ wm.tail \in wm.created \cup {NULL}
  BY <1>1, ListFacts DEF ListOf, Managers
<1>3. DTypeOK
  BY <1>1, <1>2 DEF DInv, DTypeOK, WmInv, Managers, Links
<1>4. FocusOnTop /\ DragHeld
  BY <1>1 DEF FocusOnTop, DragHeld, WmInv, FocusInv, DragInv, Held
<1>5. InWorkArea /\ MaximizedFills
  BY <1>1 DEF InWorkArea, InArea, MaximizedFills, Full, WmInv
<1> QED BY <1>3, <1>4, <1>5

\* The windows, their links and places, and the desktop's flags are what they
\* should be.
THEOREM DesktopTypeCorrect == DSpec => []DTypeOK
BY DesktopInvariance, DInvImplies, PTL

\* Keys reach the window drawn on top, whatever was clicked, hidden or raised.
THEOREM FocusSafety == DSpec => []FocusOnTop
BY DesktopInvariance, DInvImplies, PTL

\* No window leaves the screen or lies under the taskbar, however it is
\* dragged, maximized and restored.
THEOREM WorkAreaSafety == DSpec => []InWorkArea
BY DesktopInvariance, DInvImplies, PTL

\* The window on the mouse is seen, held by its title bar and the button is down.
THEOREM DragSafety == DSpec => []DragHeld
BY DesktopInvariance, DInvImplies, PTL

\* A maximized window fills the work area.
THEOREM MaximizedSafety == DSpec => []MaximizedFills
BY DesktopInvariance, DInvImplies, PTL

\* No window is lost from the list, in either direction.
LEMMA DInvWhole == DInv => ListIsWhole
<1> SUFFICES ASSUME DInv PROVE ListIsWhole
  OBVIOUS
<1>1. /\ wm.created \in SUBSET Windows /\ wm.next \in Links /\ wm.prev \in Links
      /\ IsList(wm.created, wm.next, wm.prev, wm.head, wm.tail)
  BY DEF DInv, WmInv, Managers, ListOf
<1>2. IsList(wm.created, wm.prev, wm.next, wm.tail, wm.head)
  BY <1>1, ListReversed
<1>3. Walk(wm.next, wm.head) = wm.created
  BY <1>1, WalkVisitsAll
<1>4. Walk(wm.prev, wm.tail) = wm.created
  BY <1>1, <1>2, WalkVisitsAll
<1>5. \A v, w \in wm.created : wm.next[v] = w <=> wm.prev[w] = v
  BY <1>1 DEF IsList
<1> QED BY <1>3, <1>4, <1>5 DEF ListIsWhole

\* Both walks of the list, to draw it and to find what was clicked, visit
\* exactly the windows that were created.
THEOREM ListSafety == DSpec => []ListIsWhole
BY DesktopInvariance, DInvWhole, PTL

-----------------------------------------------------------------------------
(* The order of the windows.                                               *)

SameOrder(m, n) == n.next = m.next /\ n.tail = m.tail

\* x is put on top of the others.
OnTop(m, n, x) ==
    /\ n.tail = x
    /\ \A u \in m.created \ {x} :
        n.next[u] = IF u = m.tail THEN x
                    ELSE IF m.next[u] = x THEN m.next[x] ELSE m.next[u]

Restacked(m, n) == SameOrder(m, n) \/ \E x \in Windows : OnTop(m, n, x)

OthersKeepOrder(m, n) ==
    \A v, w \in m.created \ {n.tail} : w \in Walk(m.next, v) => w \in Walk(n.next, v)

\* A closed set of the new list, without the window put on top and with it if
\* something in the set led to it, is a closed set of the old list.
LEMMA RestackedKeepsOrder ==
    ASSUME NEW m, WmInv(m), NEW n, Restacked(m, n)
    PROVE  OthersKeepOrder(m, n)
<1>1. CASE SameOrder(m, n)
  BY <1>1 DEF SameOrder, OthersKeepOrder
<1>2. ASSUME NEW x \in Windows, OnTop(m, n, x) PROVE OthersKeepOrder(m, n)
  <2> DEFINE L == m.created
  <2>1. /\ L \in SUBSET Windows /\ NULL \notin L
        /\ \A u \in L : /\ m.next[u] \in L \cup {NULL}
                        /\ (m.next[u] = NULL <=> u = m.tail)
                        /\ m.next[u] # u
    <3>1. L \in SUBSET Windows /\ IsList(L, m.next, m.prev, m.head, m.tail)
      BY DEF WmInv, ListOf, Managers
    <3> HIDE DEF L
    <3> QED BY <3>1, ListFacts
  <2>2. /\ n.tail = x
        /\ \A u \in L \ {x} :
            n.next[u] = IF u = m.tail THEN x
                        ELSE IF m.next[u] = x THEN m.next[x] ELSE m.next[u]
    BY <1>2 DEF OnTop
  <2> HIDE DEF L
  <2>3. ASSUME NEW v \in L \ {x}, NEW w \in L \ {x}, w \in Walk(m.next, v),
               NEW S \in SUBSET Windows, v \in S, \A u \in S : n.next[u] \in S \cup {NULL}
        PROVE  w \in S
    <3> DEFINE R == (S \cap L) \ {x}
               T == R \cup {y \in {x} : \E u \in R : m.next[u] = x}
    <3>1. T \in SUBSET Windows /\ v \in T
      BY <2>1, <2>3
    <3>2. \A u \in R : m.next[u] \in T \cup {NULL}
      <4> SUFFICES ASSUME NEW u \in R, m.next[u] # NULL, m.next[u] # x
                   PROVE  m.next[u] \in R
        OBVIOUS
      <4>1. n.next[u] = m.next[u]
        BY <2>1, <2>2
      <4> QED BY <2>1, <2>3, <4>1
    <3>3. x \in T => m.next[x] \in T \cup {NULL}
      <4> SUFFICES ASSUME NEW u \in R, m.next[u] = x, m.next[x] # NULL
                   PROVE  m.next[x] \in R
        OBVIOUS
      <4>1. x \in L /\ u # m.tail /\ m.next[x] \in L /\ m.next[x] # x
        BY <1>2, <2>1, ScreenAssumption
      <4>2. n.next[u] = m.next[x]
        BY <2>2, <4>1
      <4> QED BY <2>3, <4>1, <4>2
    <3>4. \A u \in T : m.next[u] \in T \cup {NULL}
      BY <3>2, <3>3
    <3>5. w \in T
      <4> HIDE DEF T
      <4> QED BY <2>3, <3>1, <3>4 DEF Walk
    <3> QED BY <3>5
  <2>4. ASSUME NEW v \in L \ {x}, NEW w \in L \ {x}, w \in Walk(m.next, v)
        PROVE  w \in Walk(n.next, v)
    <3>1. w \in Windows /\ v # NULL
      BY <2>1
    <3> QED BY <2>3, <2>4, <3>1 DEF Walk
  <2> QED BY <2>2, <2>4 DEF OthersKeepOrder, L
<1> QED BY <1>1, <1>2 DEF Restacked

\* wm_focus_internal puts its window on top.
LEMMA FocusRestacks ==
    ASSUME NEW m, WmInv(m), NEW w \in m.created
    PROVE  Restacked(m, Focus(m, w))
<1>1. m \in Managers /\ ListOf(m) /\ w \in Windows
  BY DEF WmInv, Managers
<1>2. CASE w = m.tail
  <2>1. SameOrder(m, Focus(m, w))
    BY <1>1, <1>2 DEF Focus, Managers, SameOrder
  <2> QED BY <2>1 DEF Restacked
<1>3. CASE w # m.tail
  <2> DEFINE d == Detach(m, w)
             a == AttachTail(d, w)
             L == m.created \ {w}
             f == Focus(m, w)
  <2>1. /\ d \in Managers /\ d.tail = m.tail
        /\ IsList(L, d.next, d.prev, d.head, d.tail)
        /\ Bypasses(w, m.created, m.next, d.next)
    BY <1>1, <1>3, DetachList
  <2> HIDE DEF d
  <2>2. L \in SUBSET Windows /\ w \in Windows \ L
    BY <1>1 DEF Managers
  <2>3. \A u \in L : d.next[u] = IF m.next[u] = w THEN m.next[w] ELSE m.next[u]
    BY <2>1 DEF Bypasses
  <2>4. \A u \in L : m.next[u] = w => u # m.tail
    <3>1. m.next[m.tail] = NULL \/ m.tail \notin L
      BY <1>1, ListFacts DEF ListOf, Managers
    <3> QED BY <1>1, <3>1, ScreenAssumption
  <2> HIDE DEF L
  <2>5. Attachable(d, L, w)
    BY <2>1, <2>2 DEF Attachable
  <2>6. Relinked(d, a, w) /\ Appends(w, L, d, a)
    BY <2>5, AttachList
  <2> HIDE DEF a
  <2>7. f.tail = w /\ f.next = a.next
    <3>1. f = [a EXCEPT !.focused = w]
      BY <1>3 DEF Focus, a, d
    <3> HIDE DEF f
    <3> QED BY <2>1, <2>6, <3>1 DEF Relinked, Managers
  <2> HIDE DEF f
  <2>8. OnTop(m, f, w)
    BY <2>1, <2>3, <2>6, <2>7 DEF OnTop, Appends, L
  <2> QED BY <1>1, <2>8 DEF Restacked, f
<1> QED BY <1>2, <1>3

\* wm_create_window puts the new one on top.
LEMMA CreateRestacks ==
    ASSUME NEW m, WmInv(m), NEW w \in Windows \ m.created, NEW r \in Rects
    PROVE  Restacked(m, CreateWindow(m, w, r))
<1> DEFINE L == m.created
           b == Bounded(r)
           c == [m EXCEPT !.created = @ \cup {w}, !.visible = @ \cup {w}, !.rect[w] = b]
           a == AttachTail(c, w)
           f == CreateWindow(m, w, r)
<1>1. /\ m \in Managers /\ ListOf(m) /\ L \in SUBSET Windows /\ b \in Rects
  BY BoundedFits DEF WmInv, Managers
<1>2. \A u \in L : m.next[u] # w
  BY <1>1, ListFacts, ScreenAssumption DEF ListOf
<1>3. f = Focus(a, w)
  BY DEF CreateWindow
<1> HIDE DEF b
<1>4. /\ c \in Managers
      /\ c.next = m.next /\ c.prev = m.prev /\ c.head = m.head /\ c.tail = m.tail
  BY <1>1 DEF Managers
<1> HIDE DEF c
<1>5. Attachable(c, L, w)
  BY <1>1, <1>4 DEF Attachable, ListOf
<1>6. Relinked(c, a, w) /\ Appends(w, L, c, a)
  BY <1>5, AttachList
<1> HIDE DEF a, f
<1>7. f.tail = w /\ f.next = a.next
  <2>1. a = [c EXCEPT !.head = a.head, !.tail = w, !.next = a.next, !.prev = a.prev]
    BY <1>6 DEF Relinked
  <2>2. f = [a EXCEPT !.focused = w]
    BY <1>3, <1>4, <2>1 DEF Focus, Managers
  <2> QED BY <1>4, <2>1, <2>2 DEF Managers
<1>8. OnTop(m, f, w)
  BY <1>2, <1>4, <1>6, <1>7 DEF OnTop, Appends
<1> QED BY <1>8 DEF Restacked, f

\* What shows, hides, moves or maximizes a window does not touch the order.
LEMMA OthersSameOrder ==
    ASSUME NEW m \in Managers, NEW w, NEW e
    PROVE  /\ SameOrder(m, ShowWindow(m, w)) /\ SameOrder(m, HideWindow(m, w))
           /\ SameOrder(m, EndDrag(m)) /\ SameOrder(m, MaximizeToggle(m, w))
           /\ SameOrder(m, StartDrag(m, w, e)) /\ SameOrder(m, Follow(m, e))
<1>1. SameOrder(m, ShowWindow(m, w))
  BY DEF SameOrder, Managers, ShowWindow
<1>2. SameOrder(m, EndDrag(m))
  BY DEF SameOrder, Managers, EndDrag
<1>3. SameOrder(m, HideWindow(m, w))
  BY DEF SameOrder, Managers, HideWindow, EndDrag
<1>4. SameOrder(m, MaximizeToggle(m, w))
  BY DEF SameOrder, Managers, MaximizeToggle
<1>5. SameOrder(m, StartDrag(m, w, e))
  BY DEF SameOrder, Managers, StartDrag
<1>6. SameOrder(m, Follow(m, e))
  BY DEF SameOrder, Managers, Follow
<1> QED BY <1>1, <1>2, <1>3, <1>4, <1>5, <1>6

\* One after the other.
LEMMA RestackedThen ==
    ASSUME NEW m, NEW n, NEW o
    PROVE  /\ Restacked(m, n) /\ SameOrder(n, o) => Restacked(m, o)
           /\ SameOrder(m, n) /\ m.created = n.created /\ Restacked(n, o) => Restacked(m, o)
BY DEF Restacked, SameOrder, OnTop

\* A mouse event moves windows in the stack only by raising one.
LEMMA EventRestacks ==
    ASSUME WmInv(wm), Held(wm), NEW e \in Mice, Event(e)
    PROVE  Restacked(wm, wm')
<1>1. ASSUME NEW m, m \in Managers, Restacked(wm, m), wm' = Follow(m, e)
      PROVE  Restacked(wm, wm')
  BY <1>1, OthersSameOrder, RestackedThen
<1>2. wm \in Managers /\ Restacked(wm, wm)
  BY DEF WmInv, Restacked, SameOrder
<1>3. ASSUME NEW t \in Windows, Topmost(wm, e, t), Pressed(e)
      PROVE  /\ Restacked(wm, Focus(wm, t)) /\ WmInv(Focus(wm, t))
             /\ Focus(wm, t) \in Managers /\ t \in Focus(wm, t).created
             /\ Focus(wm, t).dragging = NULL
             /\ t \in Focus(wm, t).visible
             /\ Focus(wm, t).maximized = wm.maximized
             /\ Focus(wm, t).rect = wm.rect
             /\ In(e, wm.rect[t])
  <2>1. t \in wm.visible /\ t \in wm.created /\ wm.dragging = NULL /\ In(e, wm.rect[t])
    BY <1>3, TopmostHit, PressedFree
  <2>2. Restacked(wm, Focus(wm, t))
    BY <2>1, FocusRestacks
  <2>3. WmInv(Focus(wm, t))
    BY <2>1, FocusedWm
  <2>4. Focus(wm, t) \in Managers
    BY <2>3 DEF WmInv
  <2> QED BY <2>1, <2>2, <2>3, <2>4, FocusedWm
<1>4. CASE PressNowhere(e)
  BY <1>1, <1>2, <1>4 DEF PressNowhere
<1>5. CASE PressClose(e)
  <2> PICK t \in Windows : /\ Pressed(e) /\ Topmost(wm, e, t)
                           /\ wm' = Follow(HideWindow(Focus(wm, t), t), e)
    BY <1>5 DEF PressClose
  <2>1. HideWindow(Focus(wm, t), t) \in Managers
    BY <1>3, HideWm DEF WmInv
  <2>2. Restacked(wm, HideWindow(Focus(wm, t), t))
    BY <1>3, OthersSameOrder, RestackedThen
  <2> QED BY <1>1, <2>1, <2>2
<1>6. CASE PressMaximize(e)
  <2> PICK t \in Windows : /\ Pressed(e) /\ Topmost(wm, e, t)
                           /\ wm' = Follow(MaximizeToggle(Focus(wm, t), t), e)
    BY <1>6 DEF PressMaximize
  <2>1. MaximizeToggle(Focus(wm, t), t) \in Managers
    BY <1>3, MaximizeWm DEF WmInv
  <2>2. Restacked(wm, MaximizeToggle(Focus(wm, t), t))
    BY <1>3, OthersSameOrder, RestackedThen
  <2> QED BY <1>1, <2>1, <2>2
<1>7. CASE PressTitle(e)
  <2> PICK t \in Windows : /\ Pressed(e) /\ Topmost(wm, e, t)
                           /\ e.y < wm.rect[t].y + TitleH
                           /\ t \notin wm.maximized
                           /\ wm' = Follow(StartDrag(Focus(wm, t), t, e), e)
    BY <1>7 DEF PressTitle
  <2>1. StartDrag(Focus(wm, t), t, e) \in Managers
    BY <1>3, StartDragWm DEF WmInv
  <2>2. Restacked(wm, StartDrag(Focus(wm, t), t, e))
    BY <1>3, OthersSameOrder, RestackedThen
  <2> QED BY <1>1, <2>1, <2>2
<1>8. CASE PressOther(e)
  BY <1>1, <1>3, <1>8 DEF PressOther
<1>9. CASE Release(e)
  <2>1. EndDrag(wm) \in Managers
    BY EndDragWm DEF WmInv
  <2>2. Restacked(wm, EndDrag(wm))
    BY <1>2, OthersSameOrder, RestackedThen
  <2> QED BY <1>1, <1>9, <2>1, <2>2 DEF Release
<1>10. CASE Move(e)
  BY <1>1, <1>2, <1>10 DEF Move
<1> QED BY <1>4, <1>5, <1>6, <1>7, <1>8, <1>9, <1>10 DEF Event

\* Opening a program changes the stack only by the window it raises.
LEMMA OpenAppRestacks ==
    ASSUME WmInv(wm), Held(wm), NEW i \in Windows, OpenApp(i)
    PROVE  Restacked(wm, wm')
<1>1. CASE i \in wm.created /\ wm' = Focus(ShowWindow(wm, i), i)
  <2> DEFINE s == ShowWindow(wm, i)
  <2>1. WmInv(s) /\ SameOrder(wm, s) /\ s.created = wm.created
    <3>1. s.created = wm.created
      BY DEF ShowWindow, WmInv, Managers
    <3> QED BY <1>1, <3>1, ShowWm, OthersSameOrder DEF WmInv
  <2> HIDE DEF s
  <2>2. Restacked(s, Focus(s, i))
    BY <1>1, <2>1, FocusRestacks
  <2>3. Restacked(wm, Focus(s, i))
    BY <2>1, <2>2, RestackedThen
  <2> QED BY <1>1, <2>3 DEF s
<1>2. CASE i \notin wm.created /\ wm' = CreateWindow(wm, i, Place[i])
  <2>1. i \in Windows \ wm.created /\ Place[i] \in Rects
    BY <1>2, LayoutAssumption
  <2> QED BY <1>2, <2>1, CreateRestacks
<1>3. CASE UNCHANGED wm
  BY <1>3 DEF Restacked, SameOrder
<1> QED BY <1>1, <1>2, <1>3 DEF OpenApp

\* One step of the desktop.
LEMMA DNextKeepsOrder ==
    DInv /\ [DNext]_dvars =>
        [wm.created \subseteq wm'.created => OthersKeepOrder(wm, wm')]_dvars
<1> SUFFICES ASSUME DInv, [DNext]_dvars, wm.created \subseteq wm'.created
             PROVE  OthersKeepOrder(wm, wm')
  OBVIOUS
<1>1. WmInv(wm) /\ Held(wm)
  BY DEF DInv
<1>2. ASSUME wm' = wm PROVE Restacked(wm, wm')
  BY <1>2 DEF Restacked, SameOrder
<1>3. CASE \E left \in BOOLEAN : NoPress(left)
  BY <1>1, <1>2, <1>3, RestackedKeepsOrder DEF NoPress
<1>4. ASSUME NEW p \in Points, OpenMenu(p) \/ CloseMenu(p) \/ PressElsewhere(p)
      PROVE  OthersKeepOrder(wm, wm')
  BY <1>1, <1>2, <1>4, RestackedKeepsOrder DEF OpenMenu, CloseMenu, PressElsewhere
<1>5. ASSUME NEW p \in Points, ToggleApp(p)
      PROVE  OthersKeepOrder(wm, wm')
  <2> PICK i \in Windows :
        IF i \in wm.visible THEN wm' = HideWindow(wm, i) ELSE OpenApp(i)
    BY <1>5 DEF ToggleApp
  <2>1. CASE wm' = HideWindow(wm, i)
    <3>1. SameOrder(wm, wm')
      BY <1>1, <2>1, OthersSameOrder DEF WmInv
    <3> QED BY <1>1, <3>1, RestackedKeepsOrder DEF Restacked
  <2>2. CASE OpenApp(i)
    BY <1>1, <2>2, OpenAppRestacks, RestackedKeepsOrder
  <2> QED BY <2>1, <2>2
<1>6. ASSUME Power PROVE OthersKeepOrder(wm, wm')
  <2> DEFINE f == CreateWindow(NoWindows, Terminal, Place[Terminal])
  <2>1. f.created = {Terminal} /\ f.tail = Terminal
    BY FirstCreated
  <2>2. wm' = f
    BY <1>6 DEF Power
  <2> HIDE DEF f
  <2> QED BY <2>1, <2>2 DEF OthersKeepOrder
<1>7. CASE TypedPower \/ \E p \in Points : MenuPower(p)
  BY <1>6, <1>7 DEF TypedPower, MenuPower
<1>8. ASSUME NEW p \in Points, NEW left \in BOOLEAN,
             HandleEvent([x |-> p.x, y |-> p.y, left |-> left])
      PROVE  OthersKeepOrder(wm, wm')
  <2> DEFINE e == [x |-> p.x, y |-> p.y, left |-> left]
  <2>1. e \in Mice
    BY LayoutAssumption DEF Mice
  <2>2. Event(e)
    BY <1>8 DEF HandleEvent
  <2> HIDE DEF e
  <2> QED BY <1>1, <2>1, <2>2, EventRestacks, RestackedKeepsOrder
<1>9. CASE FrameEnds
  BY <1>1, <1>2, <1>9, RestackedKeepsOrder DEF FrameEnds
<1>10. CASE UNCHANGED dvars
  BY <1>1, <1>2, <1>10, RestackedKeepsOrder DEF dvars
<1> QED BY <1>3, <1>4, <1>5, <1>7, <1>8, <1>9, <1>10 DEF DNext

\* Whatever a step does, the windows that are not put on top keep the order in
\* which they cover each other.
THEOREM OrderSafety == DSpec => OrderKept
<1>1. DInv /\ [DNext]_dvars =>
        [wm.created \subseteq wm'.created =>
            \A v, w \in wm.created \ {wm'.tail} :
                w \in Walk(wm.next, v) => w \in Walk(wm'.next, v)]_dvars
  BY DNextKeepsOrder DEF OthersKeepOrder
<1> QED BY <1>1, DesktopInvariance, PTL DEF DSpec, OrderKept
================================================================================
