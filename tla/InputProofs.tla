----------------------------- MODULE InputProofs -----------------------------
(***************************************************************************)
(* The rings, the two decoders and the loop that reads them, for rings, a  *)
(* screen and texts of any size and any keys and movements: proofs about   *)
(* Input.                                                                  *)
(***************************************************************************)
EXTENDS Input, SequenceTheorems, TLAPS

-----------------------------------------------------------------------------
(* The rings.                                                              *)

\* The sizes, as numbers.
LEMMA Sizes ==
    /\ KeyBufferSize \in Nat \ {0, 1} /\ EventBufferSize \in Nat \ {0, 1}
    /\ TermCols \in Nat \ {0, 1} /\ TermHistory \in Nat \ {0, 1}
    /\ EditBuf \in Nat \ {0} /\ ScreenW \in Nat \ {0} /\ ScreenH \in Nat \ {0}
BY InputAssumption

\* A number below 2n is brought below n by at most one subtraction.
LEMMA WrapsOnce ==
    ASSUME NEW n \in Nat \ {0}, NEW a \in 0 .. n + n - 1
    PROVE  a % n = IF a < n THEN a ELSE a - n
<1> DEFINE q == a \div n
           r == a % n
<1>1. q \in Nat /\ r \in 0 .. n - 1
  OBVIOUS
<1>2. q * n + r = a
  OBVIOUS
<1>3. q = 0 \/ q = 1
  <2> HIDE DEF q, r
  <2>1. q >= 2 => q * n >= 2 * n
    BY <1>1
  <2> QED BY <1>1, <1>2, <2>1
<1> HIDE DEF q, r
<1>4. CASE q = 0
  BY <1>1, <1>2, <1>4 DEF r
<1>5. CASE q = 1
  BY <1>1, <1>2, <1>5 DEF r
<1> QED BY <1>3, <1>4, <1>5

\* The slot k places behind slot a, and how many entries lie between the two
\* ends of a ring.
Slot(a, k, size) == IF a + k < size THEN a + k ELSE a + k - size
Fill(r, size) == IF r.write >= r.read THEN r.write - r.read ELSE r.write + size - r.read

\* A ring: the entries from read to write are in the buffer and are in S.
IsRing(r, size, S) ==
    /\ r = [buf |-> r.buf, read |-> r.read, write |-> r.write]
    /\ r.read \in 0 .. size - 1 /\ r.write \in 0 .. size - 1
    /\ \A k \in Nat : k < Fill(r, size) =>
          /\ Slot(r.read, k, size) \in DOMAIN r.buf
          /\ r.buf[Slot(r.read, k, size)] \in S

\* Functions on an initial segment are sequences.
LEMMA SegmentIsSeq ==
    ASSUME NEW S, NEW n \in Nat, NEW f \in [1 .. n -> S]
    PROVE  f \in Seq(S) /\ Len(f) = n
OBVIOUS

\* The contents of a ring are a sequence, empty when the two ends meet.
LEMMA ContentsAre ==
    ASSUME NEW size \in Nat \ {0}, NEW S, NEW r, IsRing(r, size, S)
    PROVE  /\ Fill(r, size) \in 0 .. size - 1
           /\ Contents(r, size) = [i \in 1 .. Fill(r, size) |-> r.buf[Slot(r.read, i - 1, size)]]
           /\ Contents(r, size) \in Seq(S)
           /\ Len(Contents(r, size)) = Fill(r, size)
           /\ IsEmpty(r) <=> Contents(r, size) = <<>>
<1> DEFINE n == Fill(r, size)
           c == [i \in 1 .. n |-> r.buf[Slot(r.read, i - 1, size)]]
<1>1. r.read \in 0 .. size - 1 /\ r.write \in 0 .. size - 1
  BY DEF IsRing
<1>2. n \in 0 .. size - 1 /\ (IsEmpty(r) <=> n = 0)
  BY <1>1 DEF Fill, IsEmpty
<1>3. (r.write + size - r.read) % size = n
  <2>1. r.write + size - r.read \in 0 .. size + size - 1
    BY <1>1
  <2>2. (r.write + size - r.read) % size =
            IF r.write + size - r.read < size THEN r.write + size - r.read
            ELSE (r.write + size - r.read) - size
    BY <2>1, WrapsOnce
  <2> QED BY <1>1, <2>2 DEF Fill
<1>4. ASSUME NEW i \in 1 .. n
      PROVE  (r.read + i - 1) % size = Slot(r.read, i - 1, size)
  <2>1. r.read + i - 1 \in 0 .. size + size - 1 /\ r.read + i - 1 = r.read + (i - 1)
    BY <1>1, <1>2
  <2>2. (r.read + i - 1) % size =
            IF r.read + i - 1 < size THEN r.read + i - 1 ELSE (r.read + i - 1) - size
    BY <2>1, WrapsOnce
  <2> QED BY <1>1, <2>1, <2>2 DEF Slot
<1>5. Contents(r, size) = c
  BY <1>3, <1>4 DEF Contents
<1>6. c \in [1 .. n -> S]
  <2>1. ASSUME NEW i \in 1 .. n PROVE r.buf[Slot(r.read, i - 1, size)] \in S
    <3>1. i - 1 \in Nat /\ i - 1 < n
      BY <1>2
    <3> QED BY <3>1 DEF IsRing
  <2> QED BY <2>1
<1>7. c \in Seq(S) /\ Len(c) = n
  <2> HIDE DEF c, n
  <2> QED BY <1>2, <1>6, SegmentIsSeq
<1>8. n = 0 <=> c = <<>>
  <2> HIDE DEF c, n
  <2> QED BY <1>2, <1>7, EmptySeq
<1> QED BY <1>2, <1>5, <1>7, <1>8

\* An empty ring.
LEMMA EmptyRing ==
    ASSUME NEW size \in Nat \ {0}, NEW S
    PROVE  IsRing(Empty, size, S) /\ Contents(Empty, size) = <<>>
<1>1. Empty.read = 0 /\ Empty.write = 0 /\ Empty = [buf |-> Empty.buf, read |-> 0, write |-> 0]
  BY DEF Empty
<1>2. Fill(Empty, size) = 0
  BY <1>1 DEF Fill
<1>3. IsRing(Empty, size, S)
  BY <1>1, <1>2 DEF IsRing
<1>4. IsEmpty(Empty)
  BY <1>1 DEF IsEmpty
<1> QED BY <1>3, <1>4, ContentsAre

\* The producer appends, or loses the entry when the ring is full.
LEMMA PushAppends ==
    ASSUME NEW size \in Nat \ {0}, NEW S, NEW r, IsRing(r, size, S), NEW x \in S
    PROVE  /\ IsRing(Push(r, size, x), size, S)
           /\ \/ Push(r, size, x) = r
              \/ /\ Push(r, size, x) # r
                 /\ Len(Contents(r, size)) < size - 1
                 /\ Contents(Push(r, size, x), size) = Append(Contents(r, size), x)
<1> DEFINE next == (r.write + 1) % size
           p == [buf |-> Set(r.buf, r.write, x), read |-> r.read, write |-> next]
           n == Fill(r, size)
<1>1. /\ r = [buf |-> r.buf, read |-> r.read, write |-> r.write]
      /\ r.read \in 0 .. size - 1 /\ r.write \in 0 .. size - 1
  BY DEF IsRing
<1>2. next = Slot(r.write, 1, size) /\ next \in 0 .. size - 1
  <2>1. r.write + 1 \in 0 .. size + size - 1
    BY <1>1
  <2>2. (r.write + 1) % size = IF r.write + 1 < size THEN r.write + 1 ELSE (r.write + 1) - size
    BY <2>1, WrapsOnce
  <2>3. next = IF r.write + 1 < size THEN r.write + 1 ELSE (r.write + 1) - size
    BY <2>2
  <2> HIDE DEF next
  <2> QED BY <1>1, <2>3 DEF Slot
<1>3. Push(r, size, x) = IF next = r.read THEN r ELSE p
  <2>1. Push(r, size, x) = IF next = r.read THEN r
                           ELSE [r EXCEPT !.buf = Set(r.buf, r.write, x), !.write = next]
    BY DEF Push
  <2> DEFINE b == Set(r.buf, r.write, x)
             t == [r EXCEPT !.buf = b]
  <2> HIDE DEF b, next
  <2>2. t = [buf |-> b, read |-> r.read, write |-> r.write]
    BY <1>1
  <2>3. [t EXCEPT !.write = next] = [buf |-> b, read |-> r.read, write |-> next]
    <3> HIDE DEF t
    <3> QED BY <2>2
  <2>4. [r EXCEPT !.buf = b, !.write = next] = [t EXCEPT !.write = next]
    OBVIOUS
  <2> QED BY <2>1, <2>3, <2>4 DEF b
<1>4. CASE next = r.read
  BY <1>3, <1>4
<1>5. CASE next # r.read
  <2> HIDE DEF next
  <2>1. n \in 0 .. size - 2 /\ Slot(r.read, n, size) = r.write
    BY <1>1, <1>2, <1>5 DEF Fill, Slot
  <2>2. p.read = r.read /\ p.write = next /\ p.buf = Set(r.buf, r.write, x)
    OBVIOUS
  <2>3. Fill(p, size) = n + 1
    BY <1>1, <1>2, <1>5, <2>2 DEF Fill, Slot
  <2>4. ASSUME NEW k \in Nat, k < n
        PROVE  /\ Slot(r.read, k, size) # r.write
               /\ Slot(r.read, k, size) \in DOMAIN r.buf
               /\ r.buf[Slot(r.read, k, size)] \in S
    <3>1. Slot(r.read, k, size) # r.write
      BY <1>1, <2>1, <2>4 DEF Slot
    <3> QED BY <2>4, <3>1 DEF IsRing
  <2>5. /\ r.write \in DOMAIN p.buf /\ p.buf[r.write] = x
        /\ \A j \in DOMAIN r.buf : j \in DOMAIN p.buf /\ (j # r.write => p.buf[j] = r.buf[j])
    BY <2>2 DEF Set
  <2>6. ASSUME NEW k \in Nat, k < n + 1
        PROVE  /\ Slot(r.read, k, size) \in DOMAIN p.buf
               /\ p.buf[Slot(r.read, k, size)] =
                     IF k < n THEN r.buf[Slot(r.read, k, size)] ELSE x
               /\ p.buf[Slot(r.read, k, size)] \in S
    <3>1. CASE k < n
      BY <3>1, <2>4, <2>5
    <3>2. CASE ~(k < n)
      <4>1. k = n
        BY <2>1, <2>6, <3>2
      <4> QED BY <4>1, <2>1, <2>5
    <3> QED BY <3>1, <3>2
  <2> HIDE DEF p
  <2>7. IsRing(p, size, S)
    <3>1. p = [buf |-> p.buf, read |-> p.read, write |-> p.write]
      BY DEF p
    <3> QED BY <1>1, <1>2, <2>2, <2>3, <2>6, <3>1 DEF IsRing
  <2>8. p # r
    BY <1>1, <1>2, <2>1, <2>2, <2>3
  <2>9. Contents(p, size) = Append(Contents(r, size), x)
    <3> DEFINE c == Contents(r, size)
               d == Contents(p, size)
    <3>1. c = [i \in 1 .. n |-> r.buf[Slot(r.read, i - 1, size)]] /\ c \in Seq(S) /\ Len(c) = n
      BY ContentsAre
    <3>2. d = [i \in 1 .. n + 1 |-> p.buf[Slot(r.read, i - 1, size)]] /\ d \in Seq(S) /\ Len(d) = n + 1
      BY <2>2, <2>3, <2>7, ContentsAre
    <3>3. Append(c, x) \in Seq(S) /\ Len(Append(c, x)) = n + 1
          /\ \A i \in 1 .. n + 1 : Append(c, x)[i] = IF i <= n THEN c[i] ELSE x
      <4> HIDE DEF c, n
      <4> QED BY <3>1, <2>1, AppendProperties
    <3>4. ASSUME NEW i \in 1 .. n + 1 PROVE d[i] = Append(c, x)[i]
      <4>1. i - 1 \in Nat /\ i - 1 < n + 1 /\ (i - 1 < n <=> i <= n)
        BY <2>1
      <4>2. p.buf[Slot(r.read, i - 1, size)] =
                IF i - 1 < n THEN r.buf[Slot(r.read, i - 1, size)] ELSE x
        BY <4>1, <2>6
      <4>3. i <= n => c[i] = r.buf[Slot(r.read, i - 1, size)]
        BY <3>1, <2>1
      <4> HIDE DEF c, d, n
      <4> QED BY <4>1, <4>2, <4>3, <3>2, <3>3
    <3> HIDE DEF c, d, n
    <3>5. d = Append(c, x)
      BY <3>2, <3>3, <3>4, SeqEqual
    <3> QED BY <3>5 DEF c, d
  <2>10. Len(Contents(r, size)) < size - 1
    BY <2>1, ContentsAre
  <2> QED BY <1>3, <1>5, <2>7, <2>8, <2>9, <2>10
<1> QED BY <1>4, <1>5

\* The consumer takes the oldest entry, which is the one at read.
LEMMA AdvanceTakes ==
    ASSUME NEW size \in Nat \ {0}, NEW S, NEW r, IsRing(r, size, S), ~IsEmpty(r)
    PROVE  /\ IsRing(Advance(r, size), size, S)
           /\ Contents(r, size) # <<>>
           /\ Head(Contents(r, size)) = r.buf[r.read]
           /\ Contents(Advance(r, size), size) = Tail(Contents(r, size))
<1> DEFINE next == (r.read + 1) % size
           p == [buf |-> r.buf, read |-> next, write |-> r.write]
           n == Fill(r, size)
           c == Contents(r, size)
           d == Contents(p, size)
<1>1. /\ r = [buf |-> r.buf, read |-> r.read, write |-> r.write]
      /\ r.read \in 0 .. size - 1 /\ r.write \in 0 .. size - 1
  BY DEF IsRing
<1>2. next = Slot(r.read, 1, size) /\ next \in 0 .. size - 1
  <2>1. r.read + 1 \in 0 .. size + size - 1
    BY <1>1
  <2>2. (r.read + 1) % size = IF r.read + 1 < size THEN r.read + 1 ELSE (r.read + 1) - size
    BY <2>1, WrapsOnce
  <2>3. next = IF r.read + 1 < size THEN r.read + 1 ELSE (r.read + 1) - size
    BY <2>2
  <2> HIDE DEF next
  <2> QED BY <1>1, <2>3 DEF Slot
<1>3. Advance(r, size) = p
  BY <1>1 DEF Advance
<1> HIDE DEF next
<1>4. n \in 1 .. size - 1 /\ r.read # r.write
  BY <1>1 DEF Fill, IsEmpty
<1>5. p.read = next /\ p.write = r.write /\ p.buf = r.buf
  OBVIOUS
<1>6. Fill(p, size) = n - 1
  BY <1>1, <1>2, <1>4, <1>5 DEF Fill, Slot
<1>7. ASSUME NEW k \in Nat, k < n - 1
      PROVE  Slot(next, k, size) = Slot(r.read, k + 1, size)
  BY <1>1, <1>2, <1>4, <1>7 DEF Slot
<1>8. p = [buf |-> p.buf, read |-> p.read, write |-> p.write]
  OBVIOUS
<1> HIDE DEF p
<1>9. IsRing(p, size, S)
  <2>1. ASSUME NEW k \in Nat, k < n - 1
        PROVE  Slot(next, k, size) \in DOMAIN r.buf /\ r.buf[Slot(next, k, size)] \in S
    <3>1. k + 1 \in Nat /\ k + 1 < n
      BY <1>4, <2>1
    <3>2. Slot(r.read, k + 1, size) \in DOMAIN r.buf /\ r.buf[Slot(r.read, k + 1, size)] \in S
      BY <3>1 DEF IsRing
    <3> QED BY <2>1, <3>2, <1>7
  <2> QED BY <1>1, <1>2, <1>5, <1>6, <1>8, <2>1 DEF IsRing
<1>10. c = [i \in 1 .. n |-> r.buf[Slot(r.read, i - 1, size)]] /\ c \in Seq(S) /\ Len(c) = n
  BY ContentsAre
<1>11. d = [i \in 1 .. n - 1 |-> r.buf[Slot(next, i - 1, size)]] /\ d \in Seq(S) /\ Len(d) = n - 1
  BY <1>5, <1>6, <1>9, ContentsAre
<1>12. c # <<>> /\ Head(c) = r.buf[r.read]
  <2>1. Slot(r.read, 1 - 1, size) = r.read
    BY <1>1 DEF Slot
  <2>2. c[1] = r.buf[r.read]
    BY <1>4, <1>10, <2>1
  <2> HIDE DEF c, n
  <2> QED BY <1>4, <1>10, <2>2, EmptySeq, HeadTailProperties
<1>13. Tail(c) \in Seq(S) /\ Len(Tail(c)) = n - 1 /\ \A i \in 1 .. n - 1 : Tail(c)[i] = c[i + 1]
  <2> HIDE DEF c, n
  <2> QED BY <1>4, <1>10, <1>12, HeadTailProperties
<1>14. ASSUME NEW i \in 1 .. n - 1 PROVE d[i] = Tail(c)[i]
  <2>1. i - 1 \in Nat /\ i - 1 < n - 1 /\ i + 1 \in 1 .. n /\ (i - 1) + 1 = (i + 1) - 1
    BY <1>4
  <2>2. d[i] = r.buf[Slot(r.read, (i + 1) - 1, size)]
    BY <1>7, <1>11, <2>1
  <2>3. c[i + 1] = r.buf[Slot(r.read, (i + 1) - 1, size)]
    BY <1>10, <2>1
  <2> QED BY <1>13, <2>2, <2>3
<1> HIDE DEF c, d, n
<1>15. d = Tail(c)
  BY <1>11, <1>13, <1>14, SeqEqual
<1> QED BY <1>3, <1>9, <1>12, <1>15 DEF c, d

-----------------------------------------------------------------------------
(* The decoder of the keyboard.                                            *)

Decoder == [ext : BOOLEAN, shift : BOOLEAN, ctrl : BOOLEAN, alt : BOOLEAN, caps : BOOLEAN]

WireByte == [sc : {"E0", "lshift", "rshift", "ctrl", "alt", "caps", "a", "1", "48",
                   "f1", "enter", "backspace", "print"},
             released : BOOLEAN,
             meant : KeyCodes \cup {None}]

\* None is no key.
LEMMA NoneIsNoKey == None \notin KeyCodes
BY DEF None, KeyCodes, Characters

\* A decoder with given flags.
Dec(e, s, c, a, p) == [ext |-> e, shift |-> s, ctrl |-> c, alt |-> a, caps |-> p]

\* The changes of a decoder.
WithExt(d, v) == [d EXCEPT !.ext = v]
WithShift(d, v) == [d EXCEPT !.shift = v]
WithCaps(d, v) == [d EXCEPT !.caps = v]
WithCtrl(d, v) == [d EXCEPT !.ext = FALSE, !.ctrl = v]
WithAlt(d, v) == [d EXCEPT !.ext = FALSE, !.alt = v]

\* A decoder is its flags.
LEMMA DecoderFields ==
    ASSUME NEW d \in Decoder
    PROVE  d = Dec(d.ext, d.shift, d.ctrl, d.alt, d.caps)
BY DEF Decoder, Dec

\* The flags of a decoder after a change.
LEMMA ChangedFields ==
    ASSUME NEW d \in Decoder, NEW v \in BOOLEAN
    PROVE  /\ WithExt(d, v) = Dec(v, d.shift, d.ctrl, d.alt, d.caps)
           /\ WithShift(d, v) = Dec(d.ext, v, d.ctrl, d.alt, d.caps)
           /\ WithCaps(d, v) = Dec(d.ext, d.shift, d.ctrl, d.alt, v)
           /\ WithCtrl(d, v) = Dec(FALSE, d.shift, v, d.alt, d.caps)
           /\ WithAlt(d, v) = Dec(FALSE, d.shift, d.ctrl, v, d.caps)
<1>1. ASSUME NEW w \in BOOLEAN
      PROVE  WithExt(d, w) = Dec(w, d.shift, d.ctrl, d.alt, d.caps)
  BY DEF Decoder, Dec, WithExt
<1>2. WithShift(d, v) = Dec(d.ext, v, d.ctrl, d.alt, d.caps)
  BY DEF Decoder, Dec, WithShift
<1>3. WithCaps(d, v) = Dec(d.ext, d.shift, d.ctrl, d.alt, v)
  BY DEF Decoder, Dec, WithCaps
<1> DEFINE e == WithExt(d, FALSE)
<1>4. e \in Decoder
  BY DEF WithExt, Decoder
<1>5. /\ e.ext = FALSE /\ e.shift = d.shift /\ e.ctrl = d.ctrl
      /\ e.alt = d.alt /\ e.caps = d.caps
  <2>1. e = Dec(FALSE, d.shift, d.ctrl, d.alt, d.caps)
    BY <1>1
  <2> HIDE DEF e
  <2> QED BY <2>1 DEF Dec
<1>0. e = [d EXCEPT !.ext = FALSE]
  BY DEF WithExt
<1> HIDE DEF e
<1>6. WithCtrl(d, v) = [e EXCEPT !.ctrl = v] /\ WithAlt(d, v) = [e EXCEPT !.alt = v]
  BY <1>0 DEF WithCtrl, WithAlt
<1>7. [e EXCEPT !.ctrl = v] = Dec(e.ext, e.shift, v, e.alt, e.caps)
  BY <1>4 DEF Decoder, Dec
<1>8. [e EXCEPT !.alt = v] = Dec(e.ext, e.shift, e.ctrl, v, e.caps)
  BY <1>4 DEF Decoder, Dec
<1> QED BY <1>1, <1>2, <1>3, <1>5, <1>6, <1>7, <1>8

\* Flags make a decoder, and are its flags.
LEMMA DecIsDecoder ==
    ASSUME NEW e \in BOOLEAN, NEW s \in BOOLEAN, NEW c \in BOOLEAN,
           NEW a \in BOOLEAN, NEW p \in BOOLEAN
    PROVE  /\ Dec(e, s, c, a, p) \in Decoder
           /\ Dec(e, s, c, a, p).ext = e /\ Dec(e, s, c, a, p).shift = s
           /\ Dec(e, s, c, a, p).ctrl = c /\ Dec(e, s, c, a, p).alt = a
           /\ Dec(e, s, c, a, p).caps = p
BY DEF Decoder, Dec

\* What a byte is decoded to: the state of the decoder, and a key or none.
Decoded(d, key) == [d |-> d, key |-> key]

\* A byte with what is meant by it.
KeyByte(sc, released, m) == [sc |-> sc, released |-> released, meant |-> m]

\* What a byte does to the decoder, branch by branch.
Branches(d, sc, released, m) ==
    /\ sc = "E0" =>
         Decode(d, KeyByte(sc, released, m)) = Decoded(Dec(TRUE, d.shift, d.ctrl, d.alt, d.caps), None)
    /\ sc = "ctrl" =>
         Decode(d, KeyByte(sc, released, m)) = Decoded(Dec(FALSE, d.shift, ~released, d.alt, d.caps), None)
    /\ sc = "alt" =>
         Decode(d, KeyByte(sc, released, m)) = Decoded(Dec(FALSE, d.shift, d.ctrl, ~released, d.caps), None)
    /\ d.ext /\ sc \notin {"E0", "ctrl", "alt"} =>
         Decode(d, KeyByte(sc, released, m)) = Decoded(Dec(FALSE, d.shift, d.ctrl, d.alt, d.caps),
                                IF released THEN None ELSE DecodeExtended(sc))
    /\ ~d.ext /\ sc \in {"lshift", "rshift"} =>
         Decode(d, KeyByte(sc, released, m)) = Decoded(Dec(FALSE, ~released, d.ctrl, d.alt, d.caps), None)
    /\ ~d.ext /\ sc = "caps" /\ ~released =>
         Decode(d, KeyByte(sc, released, m)) = Decoded(Dec(FALSE, d.shift, d.ctrl, d.alt, ~d.caps), None)
    /\ /\ ~d.ext /\ sc \notin {"E0", "ctrl", "alt", "lshift", "rshift"}
       /\ ~(sc = "caps" /\ ~released)
       => Decode(d, KeyByte(sc, released, m)) = Decoded(d, DecodePlain(d, KeyByte(sc, released, m)))

\* The branches are those of the handler.
LEMMA DecodeBranches ==
    ASSUME NEW d \in Decoder, NEW sc, NEW released \in BOOLEAN, NEW m
    PROVE  Branches(d, sc, released, m)
<1>1. /\ d.ext \in BOOLEAN /\ (~d.ext => d.ext = FALSE)
      /\ (~released) \in BOOLEAN /\ (~d.caps) \in BOOLEAN
  BY DEF Decoder
<1> DEFINE b == KeyByte(sc, released, m)
<1>b. b.sc = sc /\ b.released = released
  BY DEF KeyByte
<1> HIDE DEF b
<1>2. ASSUME sc = "E0"
      PROVE  Decode(d, b) = Decoded(Dec(TRUE, d.shift, d.ctrl, d.alt, d.caps), None)
  <2>1. Decode(d, b) = Decoded(WithExt(d, TRUE), None)
    BY <1>b, <1>2 DEF Decode, Decoded, WithExt
  <2> QED BY <2>1, ChangedFields
<1>3. ASSUME sc = "ctrl"
      PROVE  Decode(d, b) = Decoded(Dec(FALSE, d.shift, ~released, d.alt, d.caps), None)
  <2>0. b.sc = "ctrl" /\ b.sc # "E0"
    BY <1>1, <1>b, <1>3
  <2>1. Decode(d, b) = Decoded(WithCtrl(d, ~released), None)
    BY <1>b, <2>0 DEF Decode, Decoded, WithCtrl
  <2> QED BY <1>1, <2>1, ChangedFields
<1>4. ASSUME sc = "alt"
      PROVE  Decode(d, b) = Decoded(Dec(FALSE, d.shift, d.ctrl, ~released, d.caps), None)
  <2>0. b.sc = "alt" /\ b.sc \notin {"E0", "ctrl"}
    BY <1>1, <1>b, <1>4
  <2>1. Decode(d, b) = Decoded(WithAlt(d, ~released), None)
    BY <1>b, <2>0 DEF Decode, Decoded, WithAlt
  <2> QED BY <1>1, <2>1, ChangedFields
<1>5. ASSUME d.ext /\ sc \notin {"E0", "ctrl", "alt"}
      PROVE  Decode(d, b) = Decoded(Dec(FALSE, d.shift, d.ctrl, d.alt, d.caps),
                                    IF released THEN None ELSE DecodeExtended(sc))
  <2>1. Decode(d, b) = Decoded(WithExt(d, FALSE),
                               IF released THEN None ELSE DecodeExtended(sc))
    BY <1>b, <1>5 DEF Decode, Decoded, WithExt
  <2> QED BY <2>1, ChangedFields
<1>6. ASSUME ~d.ext /\ sc \in {"lshift", "rshift"}
      PROVE  Decode(d, b) = Decoded(Dec(FALSE, ~released, d.ctrl, d.alt, d.caps), None)
  <2>0. /\ d.ext = FALSE
        /\ b.sc \in {"lshift", "rshift"} /\ b.sc \notin {"E0", "ctrl", "alt"}
    BY <1>1, <1>b, <1>6
  <2>1. Decode(d, b) = Decoded(WithShift(d, ~released), None)
    BY <1>b, <2>0 DEF Decode, Decoded, WithShift
  <2>2. WithShift(d, ~released) = Dec(d.ext, ~released, d.ctrl, d.alt, d.caps)
    BY <1>1, ChangedFields
  <2> QED BY <2>0, <2>1, <2>2
<1>7. ASSUME ~d.ext /\ sc = "caps" /\ ~released
      PROVE  Decode(d, b) = Decoded(Dec(FALSE, d.shift, d.ctrl, d.alt, ~d.caps), None)
  <2>0. /\ d.ext = FALSE /\ b.released = FALSE /\ b.sc = "caps"
        /\ b.sc \notin {"E0", "ctrl", "alt", "lshift", "rshift"}
    BY <1>1, <1>b, <1>7
  <2>1. Decode(d, b) = Decoded(WithCaps(d, ~d.caps), None)
    BY <1>b, <2>0 DEF Decode, Decoded, WithCaps
  <2>2. WithCaps(d, ~d.caps) = Dec(d.ext, d.shift, d.ctrl, d.alt, ~d.caps)
    BY <1>1, ChangedFields
  <2> QED BY <2>0, <2>1, <2>2
<1>8. ASSUME /\ ~d.ext /\ sc \notin {"E0", "ctrl", "alt", "lshift", "rshift"}
             /\ ~(sc = "caps" /\ ~released)
      PROVE  Decode(d, b) = Decoded(d, DecodePlain(d, b))
  BY <1>b, <1>8 DEF Decode, Decoded
<1> QED BY <1>2, <1>3, <1>4, <1>5, <1>6, <1>7, <1>8 DEF Branches, b

\* A byte leaves a decoder a decoder, and a key is a key code or none.
LEMMA DecodeType ==
    ASSUME NEW d \in Decoder, NEW b \in WireByte
    PROVE  Decode(d, b).d \in Decoder /\ Decode(d, b).key \in KeyCodes \cup {None}
<1>1. /\ b.released \in BOOLEAN /\ (~b.released) \in BOOLEAN /\ (~d.caps) \in BOOLEAN
      /\ d.ext \in BOOLEAN /\ d.shift \in BOOLEAN /\ d.ctrl \in BOOLEAN
      /\ d.alt \in BOOLEAN /\ d.caps \in BOOLEAN
      /\ b = KeyByte(b.sc, b.released, b.meant)
  BY DEF WireByte, Decoder, KeyByte
<1>2. DecodePlain(d, b) \in KeyCodes \cup {None}
  <2>1. DecodeAscii(d, b.sc) \in KeyCodes \cup {None}
    BY DEF DecodeAscii, KeyCodes, Characters
  <2> QED BY <2>1 DEF DecodePlain, KeyCodes
<1>3. DecodeExtended(b.sc) \in KeyCodes \cup {None}
  BY DEF DecodeExtended, KeyCodes
<1>4. Branches(d, b.sc, b.released, b.meant) /\ b = KeyByte(b.sc, b.released, b.meant)
  BY <1>1, DecodeBranches
<1>5. (IF b.released THEN None ELSE DecodeExtended(b.sc)) \in KeyCodes \cup {None}
  BY <1>3
<1>6. \E e \in Decoder, key \in KeyCodes \cup {None} : Decode(d, b) = Decoded(e, key)
  <2>1. CASE b.sc = "E0"
    <3>1. Decode(d, b) = Decoded(Dec(TRUE, d.shift, d.ctrl, d.alt, d.caps), None)
      BY <1>4, <2>1 DEF Branches
    <3>2. Dec(TRUE, d.shift, d.ctrl, d.alt, d.caps) \in Decoder
      BY <1>1 DEF Dec, Decoder
    <3> QED BY <1>5, <3>1, <3>2
  <2>2. CASE b.sc = "ctrl"
    <3>1. Decode(d, b) = Decoded(Dec(FALSE, d.shift, ~b.released, d.alt, d.caps), None)
      BY <1>4, <2>2 DEF Branches
    <3>2. Dec(FALSE, d.shift, ~b.released, d.alt, d.caps) \in Decoder
      BY <1>1 DEF Dec, Decoder
    <3> QED BY <1>5, <3>1, <3>2
  <2>3. CASE b.sc = "alt"
    <3>1. Decode(d, b) = Decoded(Dec(FALSE, d.shift, d.ctrl, ~b.released, d.caps), None)
      BY <1>4, <2>3 DEF Branches
    <3>2. Dec(FALSE, d.shift, d.ctrl, ~b.released, d.caps) \in Decoder
      BY <1>1 DEF Dec, Decoder
    <3> QED BY <1>5, <3>1, <3>2
  <2>4. CASE d.ext /\ b.sc \notin {"E0", "ctrl", "alt"}
    <3>1. Decode(d, b) = Decoded(Dec(FALSE, d.shift, d.ctrl, d.alt, d.caps), IF b.released THEN None ELSE DecodeExtended(b.sc))
      BY <1>4, <2>4 DEF Branches
    <3>2. Dec(FALSE, d.shift, d.ctrl, d.alt, d.caps) \in Decoder
      BY <1>1 DEF Dec, Decoder
    <3> QED BY <1>5, <3>1, <3>2
  <2>5. CASE ~d.ext /\ b.sc \in {"lshift", "rshift"}
    <3>1. Decode(d, b) = Decoded(Dec(FALSE, ~b.released, d.ctrl, d.alt, d.caps), None)
      BY <1>4, <2>5 DEF Branches
    <3>2. Dec(FALSE, ~b.released, d.ctrl, d.alt, d.caps) \in Decoder
      BY <1>1 DEF Dec, Decoder
    <3> QED BY <1>5, <3>1, <3>2
  <2>6. CASE ~d.ext /\ b.sc = "caps" /\ ~b.released
    <3>1. Decode(d, b) = Decoded(Dec(FALSE, d.shift, d.ctrl, d.alt, ~d.caps), None)
      BY <1>4, <2>6 DEF Branches
    <3>2. Dec(FALSE, d.shift, d.ctrl, d.alt, ~d.caps) \in Decoder
      BY <1>1 DEF Dec, Decoder
    <3> QED BY <1>5, <3>1, <3>2
  <2>7. CASE /\ ~d.ext /\ b.sc \notin {"E0", "ctrl", "alt", "lshift", "rshift"}
             /\ ~(b.sc = "caps" /\ ~b.released)
    <3>1. Decode(d, b) = Decoded(d, DecodePlain(d, b))
      BY <1>4, <2>7 DEF Branches
    <3> QED BY <1>2, <3>1
  <2> QED BY <1>1, <2>1, <2>2, <2>3, <2>4, <2>5, <2>6, <2>7
<1> QED BY <1>6 DEF Decoded

\* What a key does to a decoder that is not behind a prefix, and the key code
\* that comes out.
AfterKey(d, k, released) ==
    Dec(FALSE,
        IF k \in ShiftKeys THEN ~released ELSE d.shift,
        IF k \in CtrlKeys THEN ~released ELSE d.ctrl,
        IF k \in AltKeys THEN ~released ELSE d.alt,
        IF k = Caps /\ ~released THEN ~d.caps ELSE d.caps)

Legend(d, k) ==
    CASE k.sc = "a" -> IF d.caps # d.shift THEN "A" ELSE "a"
      [] k.sc = "1" -> IF d.shift THEN "!" ELSE "1"
      [] k.sc = "48" /\ k.ext -> "UP"
      [] k.sc = "f1" -> "F1"
      [] k.sc = "enter" -> "ENTER"
      [] k.sc = "backspace" -> "BACKSPACE"
      [] OTHER -> None

KeyCode(d, k, released) == IF released THEN None ELSE Legend(d, k)

Prefix == [sc |-> "E0", released |-> TRUE, meant |-> None]

\* What the kinds of keys are, by scancode.
LEMMA Kinds ==
    ASSUME NEW k \in KeySet
    PROVE  /\ k.ext \in BOOLEAN /\ k = [ext |-> k.ext, sc |-> k.sc]
           /\ k \in ShiftKeys <=> k.sc \in {"lshift", "rshift"}
           /\ k \in CtrlKeys <=> k.sc = "ctrl"
           /\ k \in AltKeys <=> k.sc = "alt"
           /\ k = Caps <=> k.sc = "caps"
           /\ k = PrintScreen <=> k.sc = "print"
           /\ ~k.ext => k.sc \in {"lshift", "rshift", "ctrl", "alt", "caps",
                                  "a", "1", "48", "f1", "enter", "backspace"}
           /\ k.ext => k.sc \in {"ctrl", "alt", "48", "print"}
           /\ KeyByte(k.sc, TRUE, None).sc = k.sc
<1>1. k.ext \in BOOLEAN /\ k = [ext |-> k.ext, sc |-> k.sc]
  BY DEF KeySet
<1>2. /\ ~k.ext => k.sc \in {"lshift", "rshift", "ctrl", "alt", "caps",
                             "a", "1", "48", "f1", "enter", "backspace"}
      /\ k.ext => k.sc \in {"ctrl", "alt", "48", "print"}
  BY DEF KeySet
<1>3. k \in ShiftKeys <=> k.sc \in {"lshift", "rshift"}
  BY <1>1, <1>2 DEF ShiftKeys
<1>4. /\ k \in CtrlKeys <=> k.sc = "ctrl"
      /\ k \in AltKeys <=> k.sc = "alt"
  BY <1>1 DEF CtrlKeys, AltKeys
<1>5. k = Caps <=> k.sc = "caps"
  BY <1>1, <1>2 DEF Caps
<1>6. k = PrintScreen <=> k.sc = "print"
  BY <1>1, <1>2 DEF PrintScreen
<1> QED BY <1>1, <1>2, <1>3, <1>4, <1>5, <1>6 DEF KeyByte

\* One byte of a key without a prefix.
LEMMA PlainByte ==
    ASSUME NEW k \in KeySet, ~k.ext, NEW released \in BOOLEAN, NEW m,
           NEW d \in Decoder, ~d.ext
    PROVE  Decode(d, KeyByte(k.sc, released, m))
             = Decoded(AfterKey(d, k, released), KeyCode(d, k, released))
<1> DEFINE b == KeyByte(k.sc, released, m)
           a == AfterKey(d, k, released)
           c == KeyCode(d, k, released)
<1>1. b.sc = k.sc /\ b.released = released /\ b.released \in BOOLEAN
  BY DEF KeyByte
<1>2. /\ d = Dec(FALSE, d.shift, d.ctrl, d.alt, d.caps)
      /\ d.shift \in BOOLEAN /\ d.caps \in BOOLEAN
  <2>1. d.ext = FALSE /\ d.shift \in BOOLEAN /\ d.caps \in BOOLEAN
    BY DEF Decoder
  <2> QED BY <2>1, DecoderFields
<1>b. Branches(d, k.sc, released, m)
  BY DecodeBranches
<1> HIDE DEF b
<1>3. CASE k.sc \in {"lshift", "rshift"}
  <2>1. Decode(d, b) = Decoded(Dec(FALSE, ~released, d.ctrl, d.alt, d.caps), None)
    BY <1>b, <1>3 DEF b, Branches
  <2>2. a = Dec(FALSE, ~released, d.ctrl, d.alt, d.caps)
    BY <1>3, Kinds DEF AfterKey
  <2>3. c = None
    BY <1>3 DEF KeyCode, Legend
  <2> QED BY <2>1, <2>2, <2>3 DEF b
<1>4. CASE k.sc = "ctrl"
  <2>1. Decode(d, b) = Decoded(Dec(FALSE, d.shift, ~released, d.alt, d.caps), None)
    BY <1>b, <1>4 DEF b, Branches
  <2>2. a = Dec(FALSE, d.shift, ~released, d.alt, d.caps)
    BY <1>4, Kinds DEF AfterKey
  <2>3. c = None
    BY <1>4 DEF KeyCode, Legend
  <2> QED BY <2>1, <2>2, <2>3 DEF b
<1>5. CASE k.sc = "alt"
  <2>1. Decode(d, b) = Decoded(Dec(FALSE, d.shift, d.ctrl, ~released, d.caps), None)
    BY <1>b, <1>5 DEF b, Branches
  <2>2. a = Dec(FALSE, d.shift, d.ctrl, ~released, d.caps)
    BY <1>5, Kinds DEF AfterKey
  <2>3. c = None
    BY <1>5 DEF KeyCode, Legend
  <2> QED BY <2>1, <2>2, <2>3 DEF b
<1>6. CASE k.sc = "caps" /\ ~released
  <2>1. Decode(d, b) = Decoded(Dec(FALSE, d.shift, d.ctrl, d.alt, ~d.caps), None)
    BY <1>b, <1>6 DEF b, Branches
  <2>2. a = Dec(FALSE, d.shift, d.ctrl, d.alt, ~d.caps)
    BY <1>6, Kinds DEF AfterKey
  <2>3. c = None
    BY <1>6 DEF KeyCode, Legend
  <2> QED BY <2>1, <2>2, <2>3 DEF b
<1>7. CASE /\ k.sc \in {"caps", "a", "1", "48", "f1", "enter", "backspace"}
           /\ ~(k.sc = "caps" /\ ~released)
  <2>1. Decode(d, b) = Decoded(d, DecodePlain(d, b))
    BY <1>b, <1>7 DEF b, Branches
  <2>2. a = d
    BY <1>2, <1>7, Kinds DEF AfterKey
  <2>3. c = DecodePlain(d, b)
    <3>1. CASE released
      BY <3>1, <1>1 DEF KeyCode, DecodePlain
    <3>2. CASE ~released
      BY <3>2, <1>1, <1>2, <1>7 DEF KeyCode, Legend, DecodePlain, DecodeAscii
    <3> QED BY <3>1, <3>2
  <2> QED BY <2>1, <2>2, <2>3 DEF b
<1> QED BY <1>3, <1>4, <1>5, <1>6, <1>7, Kinds

\* The prefix takes the decoder from d to e, and a byte behind it does the rest.
Prefixed(d, e, released, m) ==
    /\ Decode(d, Prefix) = Decoded(e, None)
    /\ \A k \in KeySet : k.ext =>
         Decode(e, KeyByte(k.sc, released, m))
           = Decoded(AfterKey(d, k, released), KeyCode(d, k, released))
    /\ \A sc \in {"print", "lshift"} :
         Decode(e, KeyByte(sc, released, m)) = Decoded(d, None)

\* The prefix, and the byte behind it.
LEMMA ExtendedBytes ==
    ASSUME NEW released \in BOOLEAN, NEW m, NEW d \in Decoder, ~d.ext
    PROVE  \E e \in Decoder : Prefixed(d, e, released, m)
<1>1. PICK e \in Decoder : e = Dec(TRUE, d.shift, d.ctrl, d.alt, d.caps)
  BY DEF Dec, Decoder
<1>2. Decode(d, Prefix) = Decoded(e, None)
  <2>1. Prefix = KeyByte("E0", TRUE, None)
    BY DEF Prefix, KeyByte
  <2>2. Branches(d, "E0", TRUE, None)
    BY DecodeBranches
  <2> QED BY <1>1, <2>1, <2>2 DEF Branches
<1>3. /\ e.ext /\ e.shift = d.shift /\ e.ctrl = d.ctrl /\ e.alt = d.alt /\ e.caps = d.caps
  BY <1>1 DEF Dec
<1>4. d = Dec(FALSE, d.shift, d.ctrl, d.alt, d.caps)
  <2>1. d.ext = FALSE
    BY DEF Decoder
  <2> QED BY <2>1, DecoderFields
<1>5. ASSUME NEW k \in KeySet, k.ext
      PROVE  Decode(e, KeyByte(k.sc, released, m))
               = Decoded(AfterKey(d, k, released), KeyCode(d, k, released))
  <2> DEFINE b == KeyByte(k.sc, released, m)
             a == AfterKey(d, k, released)
             c == KeyCode(d, k, released)
  <2>1. b.sc = k.sc /\ b.released = released /\ b.released \in BOOLEAN
    BY DEF KeyByte
  <2>b. Branches(e, k.sc, released, m)
    BY DecodeBranches
  <2> HIDE DEF b
  <2>2. CASE k.sc = "ctrl"
    <3>1. Decode(e, b) = Decoded(Dec(FALSE, d.shift, ~released, d.alt, d.caps), None)
      BY <1>3, <2>b, <2>2 DEF b, Branches
    <3>2. a = Dec(FALSE, d.shift, ~released, d.alt, d.caps)
      BY <2>2, Kinds DEF AfterKey
    <3>3. c = None
      BY <2>2 DEF KeyCode, Legend
    <3> QED BY <3>1, <3>2, <3>3 DEF b
  <2>3. CASE k.sc = "alt"
    <3>1. Decode(e, b) = Decoded(Dec(FALSE, d.shift, d.ctrl, ~released, d.caps), None)
      BY <1>3, <2>b, <2>3 DEF b, Branches
    <3>2. a = Dec(FALSE, d.shift, d.ctrl, ~released, d.caps)
      BY <2>3, Kinds DEF AfterKey
    <3>3. c = None
      BY <2>3 DEF KeyCode, Legend
    <3> QED BY <3>1, <3>2, <3>3 DEF b
  <2>4. CASE k.sc \in {"48", "print"}
    <3>1. Decode(e, b) = Decoded(d, IF released THEN None ELSE DecodeExtended(k.sc))
      <4>1. k.sc \notin {"E0", "ctrl", "alt"}
        BY <2>4
      <4> QED BY <1>3, <1>4, <2>b, <4>1 DEF b, Branches
    <3>2. a = d
      BY <1>4, <2>4, Kinds DEF AfterKey
    <3>3. c = IF released THEN None ELSE DecodeExtended(k.sc)
      BY <1>5, <2>4 DEF KeyCode, Legend, DecodeExtended
    <3> QED BY <3>1, <3>2, <3>3 DEF b
  <2> QED BY <1>5, <2>2, <2>3, <2>4, Kinds
<1>6. ASSUME NEW sc \in {"print", "lshift"}
      PROVE  Decode(e, KeyByte(sc, released, m)) = Decoded(d, None)
  <2> DEFINE b == KeyByte(sc, released, m)
  <2>1. b.sc = sc /\ b.released = released /\ b.released \in BOOLEAN
    BY DEF KeyByte
  <2>b. Branches(e, sc, released, m)
    BY DecodeBranches
  <2> HIDE DEF b
  <2>2. Decode(e, b) = Decoded(d, IF released THEN None ELSE DecodeExtended(sc))
    <3>1. sc \notin {"E0", "ctrl", "alt"}
      OBVIOUS
    <3> QED BY <1>3, <1>4, <2>b, <3>1 DEF b, Branches
  <2>3. DecodeExtended(sc) = None
    BY DEF DecodeExtended
  <2> QED BY <2>2, <2>3 DEF b
<1> QED BY <1>2, <1>5, <1>6 DEF Prefixed

-----------------------------------------------------------------------------
(* The bytes under way.                                                    *)

\* Over the bytes w the decoder gets from c to d and, if f, every key that
\* comes out is the one meant.
RunsTo(w, c, d, f) ==
    \E st \in [0 .. Len(w) -> Decoder] :
        /\ st[0] = c /\ st[Len(w)] = d
        /\ \A i \in 1 .. Len(w) :
              /\ st[i] = Decode(st[i - 1], w[i]).d
              /\ f => Decode(st[i - 1], w[i]).key = w[i].meant

\* Over no bytes the decoder stays as it is.
LEMMA RunEmpty ==
    ASSUME NEW c \in Decoder, NEW f
    PROVE  /\ RunsTo(<<>>, c, c, f)
           /\ \A d : RunsTo(<<>>, c, d, f) => d = c
<1>1. Len(<<>>) = 0
  BY EmptySeq
<1>2. [i \in 0 .. 0 |-> c] \in [0 .. Len(<<>>) -> Decoder] /\ 1 .. Len(<<>>) = {}
  BY <1>1
<1>3. RunsTo(<<>>, c, c, f)
  <2> DEFINE st == [i \in 0 .. 0 |-> c]
  <2>1. st[0] = c /\ st[Len(<<>>)] = c
    BY <1>1
  <2> HIDE DEF st
  <2>2. st \in [0 .. Len(<<>>) -> Decoder]
    BY <1>2 DEF st
  <2> QED BY <1>2, <2>1, <2>2 DEF RunsTo
<1>4. ASSUME NEW d, RunsTo(<<>>, c, d, f) PROVE d = c
  <2>1. PICK st : st[0] = c /\ st[Len(<<>>)] = d
    BY <1>4 DEF RunsTo
  <2> QED BY <1>1, <2>1
<1> QED BY <1>3, <1>4

\* One more byte.
LEMMA RunAppend ==
    ASSUME NEW w \in Seq(WireByte), NEW b \in WireByte, NEW c, NEW d, NEW f,
           RunsTo(w, c, d, f),
           NEW e \in Decoder, NEW key, Decode(d, b) = Decoded(e, key),
           f => key = b.meant
    PROVE  RunsTo(Append(w, b), c, e, f) /\ Append(w, b) \in Seq(WireByte)
<1> DEFINE n == Len(w)
           v == Append(w, b)
<1>1. PICK st \in [0 .. n -> Decoder] :
        /\ st[0] = c /\ st[n] = d
        /\ \A i \in 1 .. n :
              /\ st[i] = Decode(st[i - 1], w[i]).d
              /\ f => Decode(st[i - 1], w[i]).key = w[i].meant
  BY DEF RunsTo
<1>2. /\ n \in Nat /\ v \in Seq(WireByte) /\ Len(v) = n + 1 /\ v[n + 1] = b
      /\ \A i \in 1 .. n : v[i] = w[i]
  BY AppendProperties, LenProperties
<1> HIDE DEF n, v
<1> DEFINE su == [i \in 0 .. n + 1 |-> IF i = n + 1 THEN e ELSE st[i]]
<1>3. /\ su \in [0 .. Len(v) -> Decoder]
      /\ su[n + 1] = e /\ su[n] = d /\ su[0] = c
      /\ \A i \in 0 .. n : su[i] = st[i]
  BY <1>1, <1>2
<1> HIDE DEF su
<1>4. Decode(d, b).d = e /\ Decode(d, b).key = key
  BY DEF Decoded
<1>5. ASSUME NEW i \in 1 .. n + 1
      PROVE  /\ su[i] = Decode(su[i - 1], v[i]).d
             /\ f => Decode(su[i - 1], v[i]).key = v[i].meant
  <2>1. CASE i = n + 1
    <3>1. su[i] = e /\ su[i - 1] = d /\ v[i] = b
      BY <1>2, <1>3, <2>1
    <3> QED BY <1>4, <3>1
  <2>2. CASE i # n + 1
    <3>1. i \in 1 .. n /\ i - 1 \in 0 .. n /\ i \in 0 .. n
      BY <1>2, <2>2
    <3>2. su[i] = st[i] /\ su[i - 1] = st[i - 1] /\ v[i] = w[i]
      BY <1>2, <1>3, <3>1
    <3> QED BY <1>1, <3>1, <3>2
  <2> QED BY <2>1, <2>2
<1>6. RunsTo(v, c, e, f)
  BY <1>2, <1>3, <1>5 DEF RunsTo
<1> QED BY <1>2, <1>6 DEF v

\* The first byte is handled.
LEMMA RunTail ==
    ASSUME NEW w \in Seq(WireByte), w # <<>>, NEW c, NEW d, NEW f, RunsTo(w, c, d, f)
    PROVE  /\ RunsTo(Tail(w), Decode(c, Head(w)).d, d, f)
           /\ f => Decode(c, Head(w)).key = Head(w).meant
           /\ Head(w) \in WireByte /\ Tail(w) \in Seq(WireByte)
<1> DEFINE n == Len(w)
           v == Tail(w)
<1>1. PICK st \in [0 .. n -> Decoder] :
        /\ st[0] = c /\ st[n] = d
        /\ \A i \in 1 .. n :
              /\ st[i] = Decode(st[i - 1], w[i]).d
              /\ f => Decode(st[i - 1], w[i]).key = w[i].meant
  BY DEF RunsTo
<1>2. /\ n \in Nat \ {0} /\ v \in Seq(WireByte) /\ Len(v) = n - 1
      /\ \A i \in 1 .. n - 1 : v[i] = w[i + 1]
      /\ Head(w) = w[1] /\ Head(w) \in WireByte
  BY EmptySeq, HeadTailProperties
<1> HIDE DEF n, v
<1> DEFINE su == [i \in 0 .. n - 1 |-> st[i + 1]]
<1>3. /\ su \in [0 .. Len(v) -> Decoder]
      /\ su[n - 1] = d /\ su[0] = st[1]
      /\ \A i \in 0 .. n - 1 : su[i] = st[i + 1]
  BY <1>1, <1>2
<1> HIDE DEF su
<1>4. 1 \in 1 .. n /\ 1 - 1 = 0
  BY <1>2
<1>5. st[1] = Decode(c, Head(w)).d /\ (f => Decode(c, Head(w)).key = Head(w).meant)
  BY <1>1, <1>2, <1>4
<1>6. ASSUME NEW i \in 1 .. n - 1
      PROVE  /\ su[i] = Decode(su[i - 1], v[i]).d
             /\ f => Decode(su[i - 1], v[i]).key = v[i].meant
  <2>1. i + 1 \in 1 .. n /\ i - 1 \in 0 .. n - 1 /\ i \in 0 .. n - 1
        /\ (i + 1) - 1 = i /\ (i - 1) + 1 = i
    BY <1>2
  <2>2. su[i] = st[i + 1] /\ su[i - 1] = st[i] /\ v[i] = w[i + 1]
    BY <1>2, <1>3, <2>1
  <2> QED BY <1>1, <2>1, <2>2
<1>7. RunsTo(v, st[1], d, f)
  BY <1>2, <1>3, <1>6 DEF RunsTo
<1> QED BY <1>2, <1>5, <1>7 DEF v

\* What holds of the keys may be forgotten.
LEMMA RunWeaken ==
    ASSUME NEW w, NEW c, NEW d, NEW f, NEW g, RunsTo(w, c, d, f), g => f
    PROVE  RunsTo(w, c, d, g)
BY DEF RunsTo

\* One byte, and two bytes, behind others.
LEMMA ConcatBytes ==
    ASSUME NEW w \in Seq(WireByte), NEW a \in WireByte, NEW b \in WireByte
    PROVE  /\ w \o <<a>> = Append(w, a)
           /\ w \o <<a, b>> = Append(Append(w, a), b)
           /\ <<a, b>> \in Seq(WireByte)
OBVIOUS

\* A prefixed byte.
LEMMA RunTwo ==
    ASSUME NEW w \in Seq(WireByte), NEW a \in WireByte, NEW b \in WireByte,
           NEW c, NEW d, NEW f, RunsTo(w, c, d, f),
           NEW e \in Decoder, Decode(d, a) = Decoded(e, None), a.meant = None,
           NEW g \in Decoder, NEW key, Decode(e, b) = Decoded(g, key),
           f => key = b.meant
    PROVE  RunsTo(w \o <<a, b>>, c, g, f) /\ w \o <<a, b>> \in Seq(WireByte)
<1>1. RunsTo(Append(w, a), c, e, f) /\ Append(w, a) \in Seq(WireByte)
  BY RunAppend
<1>2. RunsTo(Append(Append(w, a), b), c, g, f) /\ Append(Append(w, a), b) \in Seq(WireByte)
  BY <1>1, RunAppend
<1> QED BY <1>2, ConcatBytes

\* The bytes of a key take the decoder where the key takes it, and the last of
\* them gives its key code.
LEMMA KeyRun ==
    ASSUME NEW k \in KeySet, NEW released \in BOOLEAN, NEW m \in KeyCodes \cup {None},
           NEW w \in Seq(WireByte), NEW c, NEW d \in Decoder, ~d.ext, NEW f,
           RunsTo(w, c, d, f), f => KeyCode(d, k, released) = m
    PROVE  /\ RunsTo(w \o Bytes(k, released, m), c, AfterKey(d, k, released), f)
           /\ w \o Bytes(k, released, m) \in Seq(WireByte)
           /\ AfterKey(d, k, released) \in Decoder
<1> DEFINE a == AfterKey(d, k, released)
           b == KeyByte(k.sc, released, m)
<1>1. a \in Decoder
  BY DEF AfterKey, Dec, Decoder
<1>2. /\ Prefix \in WireByte /\ Prefix.meant = None
      /\ \A sc \in {"print", "lshift", k.sc}, x \in {m, None} :
            KeyByte(sc, released, x) \in WireByte /\ KeyByte(sc, released, x).meant = x
  BY Kinds DEF Prefix, KeyByte, WireByte
<1>3. CASE ~k.ext
  <2>1. Bytes(k, released, m) = <<b>>
    BY <1>3, Kinds DEF Bytes, PrintScreen, KeyByte
  <2>2. Decode(d, b) = Decoded(a, KeyCode(d, k, released))
    BY <1>3, PlainByte
  <2>3. RunsTo(Append(w, b), c, a, f) /\ Append(w, b) \in Seq(WireByte)
    BY <1>1, <1>2, <2>2, RunAppend
  <2> QED BY <1>1, <1>2, <2>1, <2>3, ConcatBytes
<1>4. CASE k.ext /\ k # PrintScreen
  <2>1. Bytes(k, released, m) = <<Prefix, b>>
    BY <1>4 DEF Bytes, Prefix, KeyByte
  <2>2. PICK e \in Decoder : Prefixed(d, e, released, m)
    BY ExtendedBytes
  <2>3. Decode(d, Prefix) = Decoded(e, None)
    BY <2>2 DEF Prefixed
  <2>4. Decode(e, b) = Decoded(a, KeyCode(d, k, released))
    <3>1. \A j \in KeySet : j.ext =>
            Decode(e, KeyByte(j.sc, released, m))
              = Decoded(AfterKey(d, j, released), KeyCode(d, j, released))
      BY <2>2 DEF Prefixed
    <3> QED BY <1>4, <3>1
  <2> QED BY <1>1, <1>2, <2>1, <2>3, <2>4, RunTwo
<1>5. CASE k = PrintScreen
  <2>1. /\ AfterKey(d, k, released) = d /\ KeyCode(d, k, released) = None
        /\ k.ext /\ k.sc = "print"
    <3>1. k.ext /\ k.sc = "print" /\ k.ext = TRUE
      BY <1>5 DEF PrintScreen
    <3>2. d = Dec(FALSE, d.shift, d.ctrl, d.alt, d.caps)
      <4>1. d.ext = FALSE
        BY DEF Decoder
      <4> QED BY <4>1, DecoderFields
    <3>3. KeyCode(d, k, released) = None
      BY <3>1 DEF KeyCode, Legend
    <3>4. k \notin ShiftKeys /\ k \notin CtrlKeys /\ k \notin AltKeys /\ k # Caps
      BY <3>1, Kinds
    <3>5. AfterKey(d, k, released) = d
      BY <3>2, <3>4 DEF AfterKey
    <3> QED BY <3>1, <3>3, <3>5
  <2> DEFINE s1 == IF released THEN "print" ELSE "lshift"
             s2 == IF released THEN "lshift" ELSE "print"
             b1 == KeyByte(s1, released, None)
             b2 == KeyByte(s2, released, m)
  <2>2. Bytes(k, released, m) = <<Prefix, b1>> \o <<Prefix, b2>>
    BY <1>5, <2>1 DEF Bytes, Prefix, KeyByte
  <2>3. b1 \in WireByte /\ b2 \in WireByte /\ b1.meant = None /\ b2.meant = m
    BY <1>2
  <2>4. ASSUME NEW sc \in {"print", "lshift"}, NEW x
        PROVE  \E e \in Decoder : /\ Decode(d, Prefix) = Decoded(e, None)
                                 /\ Decode(e, KeyByte(sc, released, x)) = Decoded(d, None)
    <3>1. PICK e \in Decoder : Prefixed(d, e, released, x)
      BY ExtendedBytes
    <3> QED BY <3>1 DEF Prefixed
  <2>5. s1 \in {"print", "lshift"} /\ s2 \in {"print", "lshift"}
    OBVIOUS
  <2> HIDE DEF s1, s2
  <2>10. PICK e \in Decoder : Decode(d, Prefix) = Decoded(e, None) /\ Decode(e, b1) = Decoded(d, None)
    BY <2>4, <2>5
  <2>11. PICK g \in Decoder : Decode(d, Prefix) = Decoded(g, None) /\ Decode(g, b2) = Decoded(d, None)
    BY <2>4, <2>5
  <2> HIDE DEF b1, b2
  <2> DEFINE w1 == w \o <<Prefix, b1>>
  <2>6. RunsTo(w1, c, d, f) /\ w1 \in Seq(WireByte)
    BY <1>2, <2>3, <2>10, RunTwo
  <2> HIDE DEF w1
  <2>7. f => None = b2.meant
    BY <2>1, <2>3
  <2>8. RunsTo(w1 \o <<Prefix, b2>>, c, d, f) /\ w1 \o <<Prefix, b2>> \in Seq(WireByte)
    BY <1>2, <2>3, <2>11, <2>6, <2>7, RunTwo
  <2>9. w1 \o <<Prefix, b2>> = w \o (<<Prefix, b1>> \o <<Prefix, b2>>)
    BY <1>2, <2>3, ConcatBytes, ConcatAssociative DEF w1
  <2> QED BY <1>1, <2>1, <2>2, <2>8, <2>9
<1> QED BY <1>3, <1>4, <1>5, Kinds DEF PrintScreen

-----------------------------------------------------------------------------
(* The inductive invariant.                                                *)

\* The decoder, once it has seen all bytes under way, follows the keys held.
Follows(d) ==
    /\ ~d.ext
    /\ d.shift => Shifted
    /\ d.ctrl => held \cap CtrlKeys # {}
    /\ d.alt => held \cap AltKeys # {}
    /\ ~odd => (Shifted => d.shift) /\ d.caps = capsOn

KeyboardInv ==
    /\ session \in Sessions /\ held \subseteq session.keys
    /\ capsOn \in BOOLEAN /\ odd \in BOOLEAN
    /\ wire \in Seq(WireByte) /\ kbd \in Decoder
    /\ mistyped = FALSE
    /\ \E d \in Decoder : RunsTo(wire, kbd, d, ~odd) /\ Follows(d)

\* Where a movement takes the pointer.
Moved(m, p) ==
    [x |-> Clamp(m.x + p.dx, ScreenW), y |-> Clamp(m.y - p.dy, ScreenH), left |-> p.left]

\* A packet of which the handler has seen nothing, one byte or two.
UnderWay(q) ==
    \/ packet = <<>> /\ mwire = q
    \/ packet = <<q[1]>> /\ mwire = <<q[2], q[3]>>
    \/ packet = <<q[1], q[2]>> /\ mwire = <<q[3]>>

\* The pointer is where it should be, or the packet under way takes it there.
OnTrack ==
    \/ mwire = <<>> /\ packet = <<>> /\ mouse = aim
    \/ \E p \in Movements :
          /\ Fits(p.dx) /\ Fits(p.dy)
          /\ aim = Moved(mouse, p)
          /\ UnderWay(Packet(p))

MouseInv ==
    /\ mwire \in Seq(Byte) /\ packet \in Seq(Byte) /\ Len(packet) <= 2
    /\ mouse \in EventSet /\ rough \in BOOLEAN
    /\ ~rough => OnTrack

KeysWaiting == Contents(keys, KeyBufferSize)
EventsWaiting == Contents(events, EventBufferSize)

\* What the window manager will know of the button once it has read all events.
LastLeft ==
    IF EventsWaiting = <<>> THEN wmLeft ELSE EventsWaiting[Len(EventsWaiting)].left

RingsInv ==
    /\ IsRing(keys, KeyBufferSize, KeyCodes)
    /\ IsRing(events, EventBufferSize, EventSet)
    /\ dropped \in BOOLEAN
    /\ ~dropped => LastLeft = mouse.left

\* What the loop has in hand is the oldest entry, whatever is pushed meanwhile.
LoopInv ==
    /\ pc \in {"frame", "load_key", "take_key", "events", "load_event", "take_event",
               "render", "halted", "asleep"}
    /\ pc \in {"load_key", "take_key"} => KeysWaiting # <<>>
    /\ pc = "take_key" => loaded = Head(KeysWaiting)
    /\ pc \in {"load_event", "take_event"} => EventsWaiting # <<>>
    /\ pc = "take_event" => loaded = Head(EventsWaiting)

Text == [input : 0 .. TermCols - 1, lines : 0 .. TermHistory, editor : 0 .. EditBuf]

IInv == KeyboardInv /\ MouseInv /\ RingsInv /\ LoopInv /\ text \in Text

-----------------------------------------------------------------------------
(* The keyboard.                                                           *)

\* The keys of a session are keys, and its packets movements.
LEMMA SessionKeys ==
    ASSUME session \in Sessions
    PROVE  session.keys \subseteq KeySet /\ session.packets \subseteq Movements
BY InputAssumption

\* What the user means is what the decoder makes of the key, as long as it
\* follows the keys held and caps lock.
LEMMA LegendIsMeant ==
    ASSUME NEW k, NEW d \in Decoder, capsOn \in BOOLEAN
    PROVE  /\ Meant(k) \in KeyCodes \cup {None}
           /\ Follows(d) /\ ~odd => Legend(d, k) = Meant(k)
<1>1. Meant(k) \in KeyCodes \cup {None}
  BY DEF Meant, KeyCodes, Characters
<1>2. ASSUME Follows(d), ~odd PROVE Legend(d, k) = Meant(k)
  <2>1. (Shifted <=> d.shift) /\ d.caps = capsOn
    BY <1>2 DEF Follows
  <2>2. d.shift \in BOOLEAN /\ d.caps \in BOOLEAN /\ Shifted \in BOOLEAN
    BY DEF Decoder, Shifted
  <2>3. (d.caps # d.shift) <=> (capsOn # Shifted)
    BY <2>1, <2>2
  <2> QED BY <2>1, <2>3 DEF Legend, Meant
<1> QED BY <1>1, <1>2

\* The flags after a key.
LEMMA AfterKeyFlags ==
    ASSUME NEW k, NEW released \in BOOLEAN, NEW d \in Decoder,
           NEW e, e = AfterKey(d, k, released)
    PROVE  /\ ~e.ext
           /\ k \in ShiftKeys => (e.shift <=> ~released)
           /\ k \notin ShiftKeys => (e.shift <=> d.shift)
           /\ k \in CtrlKeys => (e.ctrl <=> ~released)
           /\ k \notin CtrlKeys => (e.ctrl <=> d.ctrl)
           /\ k \in AltKeys => (e.alt <=> ~released)
           /\ k \notin AltKeys => (e.alt <=> d.alt)
           /\ k = Caps /\ ~released => (e.caps <=> ~d.caps)
           /\ k # Caps \/ released => (e.caps <=> d.caps)
           /\ e.caps \in BOOLEAN /\ d.caps \in BOOLEAN
BY DEF AfterKey, Dec, Decoder

\* The user does something with a key: the bytes go on the wire, and the
\* decoder follows if the key's flags do.
LEMMA KeySent ==
    ASSUME KeyboardInv, NEW k \in KeySet, NEW released \in BOOLEAN, NEW m \in KeyCodes \cup {None},
           wire' = wire \o Bytes(k, released, m),
           UNCHANGED <<session, kbd, mistyped>>,
           held' \subseteq session.keys, capsOn' \in BOOLEAN, odd' \in BOOLEAN, odd => odd',
           \A d \in Decoder : Follows(d) =>
              /\ ~odd' => KeyCode(d, k, released) = m
              /\ \A e \in Decoder : e = AfterKey(d, k, released) => Follows(e)'
    PROVE  KeyboardInv'
<1>1. PICK d \in Decoder : RunsTo(wire, kbd, d, ~odd) /\ Follows(d)
  BY DEF KeyboardInv
<1>2. RunsTo(wire, kbd, d, ~odd')
  BY <1>1, RunWeaken
<1>3. ~d.ext /\ wire \in Seq(WireByte)
  BY <1>1 DEF Follows, KeyboardInv
<1>4. ~odd' => KeyCode(d, k, released) = m
  BY <1>1
<1>5. /\ RunsTo(wire \o Bytes(k, released, m), kbd, AfterKey(d, k, released), ~odd')
      /\ wire \o Bytes(k, released, m) \in Seq(WireByte)
      /\ AfterKey(d, k, released) \in Decoder
  BY <1>2, <1>3, <1>4, KeyRun
<1>6. PICK e \in Decoder : e = AfterKey(d, k, released)
  BY <1>5
<1>7. Follows(e)'
  BY <1>1, <1>6
<1>8. RunsTo(wire', kbd', e, ~odd') /\ wire' \in Seq(WireByte)
  BY <1>5, <1>6
<1> QED BY <1>7, <1>8 DEF KeyboardInv

\* A key goes down.
LEMMA PressInv ==
    ASSUME KeyboardInv, NEW k \in session.keys, Press(k)
    PROVE  KeyboardInv'
<1>1. k \in KeySet
  BY SessionKeys DEF KeyboardInv
<1>2. /\ held' = held \cup {k} /\ capsOn' = IF k = Caps THEN ~capsOn ELSE capsOn
      /\ wire' = wire \o Bytes(k, FALSE, Meant(k)) /\ odd' = odd
      /\ UNCHANGED <<session, kbd, mistyped>>
  BY DEF Press
<1>3. /\ capsOn' \in BOOLEAN /\ odd' \in BOOLEAN /\ held' \subseteq session.keys
      /\ capsOn \in BOOLEAN
  BY <1>2 DEF KeyboardInv
<1>4. ASSUME NEW d \in Decoder, Follows(d), NEW e \in Decoder, e = AfterKey(d, k, FALSE)
      PROVE  Follows(e)'
  <2>1. /\ ~e.ext
        /\ k \in ShiftKeys => e.shift
        /\ k \notin ShiftKeys => (e.shift <=> d.shift)
        /\ k \notin CtrlKeys => (e.ctrl <=> d.ctrl)
        /\ k \notin AltKeys => (e.alt <=> d.alt)
        /\ k = Caps => (e.caps <=> ~d.caps)
        /\ k # Caps => (e.caps <=> d.caps)
        /\ e.caps \in BOOLEAN /\ d.caps \in BOOLEAN
    BY <1>4, AfterKeyFlags
  <2>2. (e.shift => Shifted)' /\ (Shifted' => Shifted \/ k \in ShiftKeys)
    BY <1>2, <1>4, <2>1 DEF Follows, Shifted
  <2>3. /\ e.ctrl => (held \cap CtrlKeys # {})'
        /\ e.alt => (held \cap AltKeys # {})'
    BY <1>2, <1>4, <2>1 DEF Follows
  <2>4. ASSUME ~odd' PROVE (Shifted' => e.shift) /\ e.caps = capsOn'
    <3>1. (Shifted => d.shift) /\ d.caps = capsOn
      BY <1>2, <1>4, <2>4 DEF Follows
    <3>2. e.caps = capsOn'
      BY <1>2, <1>3, <2>1, <3>1
    <3> QED BY <2>1, <2>2, <3>1, <3>2
  <2> QED BY <2>1, <2>2, <2>3, <2>4 DEF Follows
<1>5. ASSUME NEW d \in Decoder, Follows(d), ~odd' PROVE KeyCode(d, k, FALSE) = Meant(k)
  BY <1>2, <1>3, <1>5, LegendIsMeant DEF KeyCode
<1>6. Meant(k) \in KeyCodes \cup {None}
  <2>1. kbd \in Decoder
    BY DEF KeyboardInv
  <2> QED BY <1>3, <2>1, LegendIsMeant
<1> QED BY <1>1, <1>2, <1>3, <1>4, <1>5, <1>6, KeySent

\* A key that is held comes again.
LEMMA RepeatInv ==
    ASSUME KeyboardInv, NEW k \in session.keys, Repeat(k)
    PROVE  KeyboardInv'
<1>1. k \in KeySet
  BY SessionKeys DEF KeyboardInv
<1>2. /\ k \in held /\ held' = held /\ capsOn' = capsOn
      /\ wire' = wire \o Bytes(k, FALSE, Meant(k)) /\ odd' = (odd \/ k = Caps)
      /\ UNCHANGED <<session, kbd, mistyped>>
  BY DEF Repeat
<1>3. /\ capsOn' \in BOOLEAN /\ odd' \in BOOLEAN /\ held' \subseteq session.keys
      /\ capsOn \in BOOLEAN /\ (odd => odd')
  BY <1>2 DEF KeyboardInv
<1>4. ASSUME NEW d \in Decoder, Follows(d), NEW e \in Decoder, e = AfterKey(d, k, FALSE)
      PROVE  Follows(e)'
  <2>1. /\ ~e.ext
        /\ k \in ShiftKeys => e.shift
        /\ k \notin ShiftKeys => (e.shift <=> d.shift)
        /\ k \notin CtrlKeys => (e.ctrl <=> d.ctrl)
        /\ k \notin AltKeys => (e.alt <=> d.alt)
        /\ k # Caps => (e.caps <=> d.caps)
        /\ e.caps \in BOOLEAN /\ d.caps \in BOOLEAN
    BY <1>4, AfterKeyFlags
  <2>2. (e.shift => Shifted)' /\ (Shifted' <=> Shifted)
    BY <1>2, <1>4, <2>1 DEF Follows, Shifted
  <2>3. /\ e.ctrl => (held \cap CtrlKeys # {})'
        /\ e.alt => (held \cap AltKeys # {})'
    BY <1>2, <1>4, <2>1 DEF Follows
  <2>4. ASSUME ~odd' PROVE (Shifted' => e.shift) /\ e.caps = capsOn'
    <3>1. (Shifted => d.shift) /\ d.caps = capsOn /\ k # Caps
      BY <1>2, <1>4, <2>4 DEF Follows
    <3>2. e.caps = capsOn'
      BY <1>2, <1>3, <2>1, <3>1
    <3> QED BY <2>1, <2>2, <3>1, <3>2
  <2> QED BY <2>1, <2>2, <2>3, <2>4 DEF Follows
<1>5. ASSUME NEW d \in Decoder, Follows(d), ~odd' PROVE KeyCode(d, k, FALSE) = Meant(k)
  BY <1>2, <1>3, <1>5, LegendIsMeant DEF KeyCode
<1>6. Meant(k) \in KeyCodes \cup {None}
  <2>1. kbd \in Decoder
    BY DEF KeyboardInv
  <2> QED BY <1>3, <2>1, LegendIsMeant
<1> QED BY <1>1, <1>2, <1>3, <1>4, <1>5, <1>6, KeySent

\* A key goes up.
LEMMA ReleaseInv ==
    ASSUME KeyboardInv, NEW k \in session.keys, Release(k)
    PROVE  KeyboardInv'
<1>1. k \in KeySet
  BY SessionKeys DEF KeyboardInv
<1>2. /\ k \in held /\ held' = held \ {k} /\ capsOn' = capsOn
      /\ wire' = wire \o Bytes(k, TRUE, None) /\ odd' = (odd \/ ShiftKeys \subseteq held)
      /\ UNCHANGED <<session, kbd, mistyped>>
  BY DEF Release
<1>3. /\ capsOn' \in BOOLEAN /\ odd' \in BOOLEAN /\ held' \subseteq session.keys
      /\ capsOn \in BOOLEAN /\ (odd => odd')
  BY <1>2 DEF KeyboardInv
<1>4. ASSUME NEW d \in Decoder, Follows(d), NEW e \in Decoder, e = AfterKey(d, k, TRUE)
      PROVE  Follows(e)'
  <2>1. /\ ~e.ext
        /\ k \in ShiftKeys => ~e.shift
        /\ k \notin ShiftKeys => (e.shift <=> d.shift)
        /\ k \in CtrlKeys => ~e.ctrl
        /\ k \notin CtrlKeys => (e.ctrl <=> d.ctrl)
        /\ k \in AltKeys => ~e.alt
        /\ k \notin AltKeys => (e.alt <=> d.alt)
        /\ (e.caps <=> d.caps)
        /\ e.caps \in BOOLEAN /\ d.caps \in BOOLEAN
    BY <1>4, AfterKeyFlags
  <2>2. (e.shift => Shifted)'
    BY <1>2, <1>4, <2>1 DEF Follows, Shifted
  <2>3. /\ e.ctrl => (held \cap CtrlKeys # {})'
        /\ e.alt => (held \cap AltKeys # {})'
    BY <1>2, <1>4, <2>1 DEF Follows
  <2>4. ASSUME ~odd' PROVE (Shifted' => e.shift) /\ e.caps = capsOn'
    <3>1. (Shifted => d.shift) /\ d.caps = capsOn /\ ~(ShiftKeys \subseteq held)
      BY <1>2, <1>4, <2>4 DEF Follows
    <3>2. e.caps = capsOn'
      BY <1>2, <1>3, <2>1, <3>1
    <3>3. k \in ShiftKeys => ~Shifted'
      <4>1. \A x, y \in ShiftKeys : x.sc \in {"lshift", "rshift"} /\ (x.sc = y.sc => x = y)
        <5>1. ASSUME NEW x \in ShiftKeys
              PROVE  x.sc \in {"lshift", "rshift"} /\ x.ext = FALSE /\ x = [ext |-> x.ext, sc |-> x.sc]
          BY DEF ShiftKeys
        <5> QED BY <5>1
      <4>2. ASSUME NEW x \in ShiftKeys, NEW y \in ShiftKeys, x # y, NEW z \in ShiftKeys
            PROVE  z = x \/ z = y
        BY <4>1, <4>2
      <4> QED BY <1>2, <3>1, <4>2 DEF Shifted
    <3>4. k \notin ShiftKeys => (Shifted' <=> Shifted)
      BY <1>2 DEF Shifted
    <3> QED BY <2>1, <3>1, <3>2, <3>3, <3>4
  <2> QED BY <2>1, <2>2, <2>3, <2>4 DEF Follows
<1>5. \A d \in Decoder : KeyCode(d, k, TRUE) = None
  BY DEF KeyCode
<1> QED BY <1>1, <1>2, <1>3, <1>4, <1>5, KeySent

\* The handler takes a byte: no key comes out that was not meant.
LEMMA ByteHandledInv ==
    ASSUME KeyboardInv, KeyboardCallback
    PROVE  /\ KeyboardInv'
           /\ Decode(kbd, Head(wire)).key \in KeyCodes \cup {None}
<1> DEFINE b == Head(wire)
           r == Decode(kbd, b)
<1>1. /\ wire # <<>> /\ wire' = Tail(wire) /\ kbd' = r.d
      /\ mistyped' = (mistyped \/ (~odd /\ r.key # b.meant))
      /\ UNCHANGED <<session, held, capsOn, odd>>
  BY DEF KeyboardCallback
<1>2. PICK d \in Decoder : RunsTo(wire, kbd, d, ~odd) /\ Follows(d)
  BY DEF KeyboardInv
<1>3. /\ RunsTo(Tail(wire), r.d, d, ~odd) /\ (~odd => r.key = b.meant)
      /\ b \in WireByte /\ Tail(wire) \in Seq(WireByte)
  BY <1>1, <1>2, RunTail DEF KeyboardInv
<1>4. r.d \in Decoder /\ r.key \in KeyCodes \cup {None}
  BY <1>3, DecodeType DEF KeyboardInv
<1> HIDE DEF r, b
<1>5. mistyped' = FALSE
  BY <1>1, <1>3 DEF KeyboardInv
<1>6. Follows(d)'
  BY <1>1, <1>2 DEF Follows, Shifted
<1>7. RunsTo(wire', kbd', d, ~odd')
  BY <1>1, <1>3
<1>8. KeyboardInv'
  BY <1>1, <1>3, <1>4, <1>5, <1>6, <1>7 DEF KeyboardInv
<1> QED BY <1>4, <1>8 DEF r, b

\* Whatever else happens does not touch the keyboard.
LEMMA KeyboardRestInv ==
    ASSUME KeyboardInv, UNCHANGED <<session, held, capsOn, odd, wire, kbd, mistyped>>
    PROVE  KeyboardInv'
<1>1. PICK d \in Decoder : RunsTo(wire, kbd, d, ~odd) /\ Follows(d)
  BY DEF KeyboardInv
<1>2. RunsTo(wire', kbd', d, ~odd') /\ Follows(d)'
  BY <1>1 DEF Follows, Shifted
<1> QED BY <1>2 DEF KeyboardInv

-----------------------------------------------------------------------------
(* The mouse.                                                              *)

\* Clamp keeps a number on the screen.
LEMMA ClampOnScreen ==
    ASSUME NEW v \in Int, NEW n \in Nat \ {0}
    PROVE  Clamp(v, n) \in 0 .. n - 1
BY DEF Clamp

\* Three bytes take the pointer to a place on the screen.
LEMMA HandledOnScreen ==
    ASSUME mouse \in EventSet, NEW b, b[1] \in Byte, b[2] \in Byte, b[3] \in Byte
    PROVE  HandlePacket(b) \in EventSet
<1>1. mouse.x \in Int /\ mouse.y \in Int
  BY Sizes DEF EventSet
<1>2. /\ (IF Bit(b[1], 64) THEN 0 ELSE Int8(b[2])) \in Int
      /\ (IF Bit(b[1], 128) THEN 0 ELSE Int8(b[3])) \in Int
  <2>1. \A n \in Byte : Int8(n) \in Int
    BY DEF Byte, Int8
  <2> QED BY <2>1
<1>3. Bit(b[1], 1) \in BOOLEAN
  BY DEF Bit
<1>4. /\ Clamp(mouse.x + (IF Bit(b[1], 64) THEN 0 ELSE Int8(b[2])), ScreenW) \in 0 .. ScreenW - 1
      /\ Clamp(mouse.y - (IF Bit(b[1], 128) THEN 0 ELSE Int8(b[3])), ScreenH) \in 0 .. ScreenH - 1
  <2>1. \A u, v \in Int : u + v \in Int /\ u - v \in Int
    OBVIOUS
  <2> DEFINE u == IF Bit(b[1], 64) THEN 0 ELSE Int8(b[2])
             w == IF Bit(b[1], 128) THEN 0 ELSE Int8(b[3])
  <2>2. u \in Int /\ w \in Int
    BY <1>2
  <2> HIDE DEF u, w
  <2>3. mouse.x + u \in Int /\ mouse.y - w \in Int
    BY <1>1, <2>1, <2>2
  <2>4. /\ Clamp(mouse.x + u, ScreenW) \in 0 .. ScreenW - 1
        /\ Clamp(mouse.y - w, ScreenH) \in 0 .. ScreenH - 1
    BY <2>3, ClampOnScreen, Sizes
  <2> QED BY <2>4 DEF u, w
<1> QED BY <1>3, <1>4 DEF HandlePacket, EventSet

\* The bytes of a packet, and what the handler reads from them when the
\* movement fits in eight bits.
LEMMA PacketBytes ==
    ASSUME NEW p \in Movements, NEW q, q = Packet(p)
    PROVE  /\ q = <<q[1], q[2], q[3]>>
           /\ q[1] \in Byte /\ q[2] \in Byte /\ q[3] \in Byte
           /\ Bit(q[1], 8) /\ ~Bit(q[1], 64) /\ ~Bit(q[1], 128)
           /\ Bit(q[1], 1) = p.left
           /\ Fits(p.dx) => Int8(q[2]) = p.dx
           /\ Fits(p.dy) => Int8(q[3]) = p.dy
<1>1. p.dx \in -256 .. 255 /\ p.dy \in -256 .. 255 /\ p.left \in BOOLEAN
  BY DEF Movements
<1>2. /\ q[1] = 8 + Flag(p.dx < 0, 16) + Flag(p.dy < 0, 32) + Flag(p.left, 1)
      /\ q[2] = p.dx % 256 /\ q[3] = p.dy % 256 /\ q = <<q[1], q[2], q[3]>>
  BY DEF Packet
<1>3. q[2] \in Byte /\ q[3] \in Byte
  <2>1. \A n \in Int : n % 256 \in 0 .. 255
    OBVIOUS
  <2>2. p.dx \in Int /\ p.dy \in Int
    BY <1>1
  <2>3. p.dx % 256 \in Byte /\ p.dy % 256 \in Byte
    BY <2>1, <2>2 DEF Byte
  <2> QED BY <1>2, <2>3
<1>4. \E a \in {0, 16}, c \in {0, 32}, e \in {0, 1} :
         q[1] = 8 + a + c + e /\ (e = 1 <=> p.left)
  BY <1>1, <1>2 DEF Flag
<1>5. q[1] \in Byte /\ Bit(q[1], 8) /\ ~Bit(q[1], 64) /\ ~Bit(q[1], 128)
      /\ (Bit(q[1], 1) <=> p.left)
  <2>1. \A a \in {0, 16}, c \in {0, 32}, e \in {0, 1} :
           /\ e = 0 => 8 + a + c + e \in {8, 24, 40, 56}
           /\ e = 1 => 8 + a + c + e \in {9, 25, 41, 57}
    OBVIOUS
  <2>2. \A n \in {8, 24, 40, 56} :
           n \in Byte /\ Bit(n, 8) /\ ~Bit(n, 64) /\ ~Bit(n, 128) /\ ~Bit(n, 1)
    BY DEF Byte, Bit
  <2>3. \A n \in {9, 25, 41, 57} :
           n \in Byte /\ Bit(n, 8) /\ ~Bit(n, 64) /\ ~Bit(n, 128) /\ Bit(n, 1)
    BY DEF Byte, Bit
  <2>4. PICK a \in {0, 16}, c \in {0, 32}, e \in {0, 1} :
           q[1] = 8 + a + c + e /\ (e = 1 <=> p.left)
    BY <1>4
  <2>5. CASE e = 0
    <3>1. q[1] \in {8, 24, 40, 56} /\ ~p.left
      BY <2>1, <2>4, <2>5
    <3> QED BY <2>2, <3>1
  <2>6. CASE e = 1
    <3>1. q[1] \in {9, 25, 41, 57} /\ p.left
      BY <2>1, <2>4, <2>6
    <3> QED BY <2>3, <3>1
  <2> QED BY <2>5, <2>6
<1>6. Bit(q[1], 1) = p.left
  BY <1>1, <1>5 DEF Bit
<1>0. \A n \in -128 .. 127 : Int8(n % 256) = n
  <2>1. \A n \in 0 .. 127 : n % 256 = n
    OBVIOUS
  <2>2. \A n \in -128 .. -1 : n % 256 = n + 256
    OBVIOUS
  <2>3. ASSUME NEW n \in -128 .. 127 PROVE Int8(n % 256) = n
    <3>1. CASE n \in 0 .. 127
      BY <2>1, <3>1 DEF Int8
    <3>2. CASE n \in -128 .. -1
      <4>1. n + 256 >= 128 /\ n + 256 - 256 = n
        BY <3>2
      <4> QED BY <2>2, <3>2, <4>1 DEF Int8
    <3> QED BY <3>1, <3>2
  <2> QED BY <2>3
<1>7. Fits(p.dx) => Int8(q[2]) = p.dx
  BY <1>0, <1>2 DEF Fits
<1>8. Fits(p.dy) => Int8(q[3]) = p.dy
  BY <1>0, <1>2 DEF Fits
<1> QED BY <1>2, <1>3, <1>5, <1>6, <1>7, <1>8

\* The handler moves the pointer as the packet says.
LEMMA HandledIsMoved ==
    ASSUME NEW p \in Movements, Fits(p.dx), Fits(p.dy), NEW q, q = Packet(p)
    PROVE  HandlePacket(q) = Moved(mouse, p)
BY PacketBytes DEF HandlePacket, Moved

\* What becomes of three bytes.
Shorts(a, b, c) ==
    /\ Append(<<>>, a) = <<a>> /\ Append(<<a>>, b) = <<a, b>>
    /\ Append(<<a, b>>, c) = <<a, b, c>>
    /\ Head(<<a>>) = a /\ Head(<<a, b>>) = a /\ Head(<<a, b, c>>) = a
    /\ Tail(<<a>>) = <<>> /\ Tail(<<a, b>>) = <<b>> /\ Tail(<<a, b, c>>) = <<b, c>>
    /\ Len(<<a>>) = 1 /\ Len(<<a, b>>) = 2 /\ Len(<<a, b, c>>) = 3
    /\ <<a>> # <<>> /\ <<a, b>> # <<>> /\ <<a, b, c>> # <<>>

\* A sequence with an item behind it.
LEMMA AppendItems ==
    ASSUME NEW S, NEW s \in Seq(S), NEW c \in S
    PROVE  /\ Append(s, c) \in Seq(S) /\ Len(Append(s, c)) = Len(s) + 1
           /\ Append(s, c)[Len(s) + 1] = c
           /\ \A i \in 1 .. Len(s) : Append(s, c)[i] = s[i]
BY AppendProperties

\* The third item of a sequence.
LEMMA AppendThird ==
    ASSUME NEW S, NEW s \in Seq(S), NEW c \in S, Len(s) = 2
    PROVE  /\ Append(s, c) \in Seq(S) /\ Len(Append(s, c)) = 3
           /\ Append(s, c)[1] = s[1] /\ Append(s, c)[2] = s[2] /\ Append(s, c)[3] = c
<1>1. /\ Append(s, c) \in Seq(S) /\ Len(Append(s, c)) = Len(s) + 1
      /\ Append(s, c)[Len(s) + 1] = c
      /\ \A i \in 1 .. Len(s) : Append(s, c)[i] = s[i]
  BY AppendItems
<1>2. 1 \in 1 .. Len(s) /\ 2 \in 1 .. Len(s) /\ Len(s) + 1 = 3
  OBVIOUS
<1> QED BY <1>1, <1>2

\* Short sequences.
LEMMA ShortSeqs ==
    ASSUME NEW S, NEW a \in S, NEW b \in S, NEW c \in S
    PROVE  /\ <<a>> \in Seq(S) /\ <<a, b>> \in Seq(S) /\ <<a, b, c>> \in Seq(S)
           /\ Shorts(a, b, c)
<1>1. <<a>> \in Seq(S) /\ <<a, b>> \in Seq(S) /\ <<a, b, c>> \in Seq(S)
  OBVIOUS
<1>2. Append(<<>>, a) = <<a>>
  OBVIOUS
<1>3. Append(<<a>>, b) = <<a, b>>
  <2> DEFINE s == <<a>>
             t == <<a, b>>
  <2>1. s \in Seq(S) /\ Len(s) = 1 /\ s[1] = a
    OBVIOUS
  <2>2. t \in Seq(S) /\ Len(t) = 2 /\ t[1] = a /\ t[2] = b
    OBVIOUS
  <2> HIDE DEF s, t
  <2>3. /\ Append(s, b) \in Seq(S) /\ Len(Append(s, b)) = 2
        /\ Append(s, b)[1] = a /\ Append(s, b)[2] = b
    BY <2>1, AppendProperties
  <2>4. Append(s, b) = t
    BY <2>2, <2>3, SeqEqual
  <2> QED BY <2>4 DEF s, t
<1>9. Append(<<a, b>>, c) = <<a, b, c>>
  <2> DEFINE s == <<a, b>>
             t == <<a, b, c>>
  <2>1. s \in Seq(S) /\ Len(s) = 2 /\ s[1] = a /\ s[2] = b
    OBVIOUS
  <2>2. t \in Seq(S) /\ Len(t) = 3 /\ t[1] = a /\ t[2] = b /\ t[3] = c
    OBVIOUS
  <2> HIDE DEF s, t
  <2>3. /\ Append(s, c) \in Seq(S) /\ Len(Append(s, c)) = 3
        /\ Append(s, c)[1] = a /\ Append(s, c)[2] = b /\ Append(s, c)[3] = c
    BY <2>1, AppendThird
  <2>4. Append(s, c) = t
    BY <2>2, <2>3, SeqEqual
  <2> QED BY <2>4 DEF s, t
<1>4. Head(<<a>>) = a /\ Head(<<a, b>>) = a /\ Head(<<a, b, c>>) = a
  OBVIOUS
<1>5. Tail(<<a>>) = <<>> /\ Tail(<<a, b>>) = <<b>>
  OBVIOUS
<1>6. Tail(<<a, b, c>>) = <<b, c>>
  OBVIOUS
<1>7. Len(<<a>>) = 1 /\ Len(<<a, b>>) = 2 /\ Len(<<a, b, c>>) = 3
  OBVIOUS
<1>8. <<a>> # <<>> /\ <<a, b>> # <<>> /\ <<a, b, c>> # <<>>
  OBVIOUS
<1> QED BY <1>1, <1>2, <1>3, <1>4, <1>5, <1>6, <1>7, <1>8, <1>9 DEF Shorts

\* The user moves the mouse, or a byte is lost.
LEMMA MouseMovedInv ==
    ASSUME session \in Sessions, MouseInv,
           (\E p \in session.packets : MoveMouse(p)) \/ LoseByte
    PROVE  MouseInv'
<1>1. ASSUME NEW p \in session.packets, MoveMouse(p) PROVE MouseInv'
  <2>1. p \in Movements
    BY SessionKeys
  <2>2. /\ mwire = <<>> /\ mwire' = Packet(p) /\ packet' = packet /\ mouse' = mouse
        /\ rough' = (rough \/ ~Fits(p.dx) \/ ~Fits(p.dy))
        /\ aim' = IF rough' THEN Start
                  ELSE [x |-> Clamp(aim.x + p.dx, ScreenW),
                        y |-> Clamp(aim.y - p.dy, ScreenH), left |-> p.left]
    BY <1>1 DEF MoveMouse
  <2>3. mwire' \in Seq(Byte)
    <3>1. PICK q : q = Packet(p)
      OBVIOUS
    <3>2. q = <<q[1], q[2], q[3]>> /\ q[1] \in Byte /\ q[2] \in Byte /\ q[3] \in Byte
      BY <2>1, <3>1, PacketBytes
    <3>3. <<q[1], q[2], q[3]>> \in Seq(Byte)
      BY <3>2, ShortSeqs
    <3> QED BY <2>2, <3>1, <3>2, <3>3
  <2>4. rough' \in BOOLEAN
    BY <2>2
  <2>5. ASSUME ~rough' PROVE OnTrack'
    <3>1. ~rough /\ Fits(p.dx) /\ Fits(p.dy)
      BY <2>2, <2>5
    <3>2. packet = <<>> /\ mouse = aim
      <4>1. ASSUME NEW r \in Movements, UnderWay(Packet(r)) PROVE FALSE
        <5>1. PICK q : q = Packet(r)
          OBVIOUS
        <5>2. q = <<q[1], q[2], q[3]>> /\ q[1] \in Byte /\ q[2] \in Byte /\ q[3] \in Byte
          BY <5>1, PacketBytes
        <5>3. Shorts(q[1], q[2], q[3]) /\ Shorts(q[2], q[3], q[1]) /\ Shorts(q[3], q[1], q[2])
          BY <5>2, ShortSeqs
        <5>4. q # <<>> /\ <<q[2], q[3]>> # <<>> /\ <<q[3]>> # <<>>
          BY <5>2, <5>3 DEF Shorts
        <5> QED BY <2>2, <4>1, <5>1, <5>4 DEF UnderWay
      <4> QED BY <3>1, <4>1 DEF MouseInv, OnTrack
    <3>3. aim' = Moved(mouse', p)
      BY <2>2, <2>5, <3>2 DEF Moved
    <3>4. UnderWay(Packet(p))'
      BY <2>2, <3>2 DEF UnderWay
    <3> QED BY <2>1, <3>1, <3>3, <3>4 DEF OnTrack
  <2> QED BY <2>2, <2>3, <2>4, <2>5 DEF MouseInv
<1>2. CASE LoseByte
  <2>1. /\ mwire # <<>> /\ mwire' = Tail(mwire) /\ rough' = TRUE
        /\ packet' = packet /\ mouse' = mouse
    BY <1>2 DEF LoseByte
  <2>2. mwire' \in Seq(Byte)
    BY <2>1, HeadTailProperties DEF MouseInv
  <2> QED BY <2>1, <2>2 DEF MouseInv
<1> QED BY <1>1, <1>2

\* The handler takes a byte.
LEMMA MouseByteInv ==
    ASSUME MouseInv, MouseIrq
    PROVE  MouseInv'
<1> DEFINE h == Head(mwire)
           b == Append(packet, h)
           e == HandlePacket(b)
<1>1. /\ mwire # <<>> /\ mwire' = Tail(mwire)
      /\ IF packet = <<>> /\ ~Bit(h, 8) THEN packet' = packet /\ mouse' = mouse
         ELSE IF Len(b) < 3 THEN packet' = b /\ mouse' = mouse
         ELSE packet' = <<>> /\ mouse' = e
      /\ UNCHANGED <<aim, rough>>
  BY DEF MouseIrq
<1>2. /\ h \in Byte /\ mwire' \in Seq(Byte)
  BY <1>1, HeadTailProperties DEF MouseInv
<1>3. /\ packet \in Seq(Byte) /\ Len(packet) \in Nat /\ Len(packet) <= 2
      /\ b \in Seq(Byte) /\ Len(b) = Len(packet) + 1
  BY <1>2, AppendProperties, LenProperties DEF MouseInv
<1>4. Len(b) >= 3 => e \in EventSet
  <2>1. ASSUME Len(b) >= 3 PROVE b[1] \in Byte /\ b[2] \in Byte /\ b[3] \in Byte
    <3>1. Len(b) = 3
      BY <1>3, <2>1
    <3> HIDE DEF b
    <3>2. 1 \in 1 .. Len(b) /\ 2 \in 1 .. Len(b) /\ 3 \in 1 .. Len(b)
      BY <3>1
    <3> QED BY <1>3, <3>2, ElementOfSeq
  <2> HIDE DEF b
  <2> QED BY <2>1, HandledOnScreen DEF MouseInv
<1> HIDE DEF b, e, h
<1>5. /\ packet' \in Seq(Byte) /\ Len(packet') <= 2 /\ mouse' \in EventSet
  <2>1. CASE packet = <<>> /\ ~Bit(h, 8)
    BY <1>1, <2>1 DEF MouseInv
  <2>2. CASE ~(packet = <<>> /\ ~Bit(h, 8)) /\ Len(b) < 3
    BY <1>1, <1>3, <2>2 DEF MouseInv
  <2>3. CASE ~(packet = <<>> /\ ~Bit(h, 8)) /\ ~(Len(b) < 3)
    <3>1. packet' = <<>> /\ mouse' = e /\ Len(b) >= 3
      BY <1>1, <1>3, <2>3
    <3> QED BY <1>4, <3>1, EmptySeq
  <2> QED BY <2>1, <2>2, <2>3
<1>6. ASSUME ~rough PROVE OnTrack'
  <2>1. PICK p \in Movements : /\ Fits(p.dx) /\ Fits(p.dy) /\ aim = Moved(mouse, p)
                               /\ UnderWay(Packet(p))
    BY <1>1, <1>6 DEF MouseInv, OnTrack
  <2>2. PICK q : q = Packet(p)
    OBVIOUS
  <2>3. /\ q = <<q[1], q[2], q[3]>>
        /\ q[1] \in Byte /\ q[2] \in Byte /\ q[3] \in Byte /\ Bit(q[1], 8)
    BY <2>2, PacketBytes
  <2>4. PICK x \in Byte, y \in Byte, z \in Byte : x = q[1] /\ y = q[2] /\ z = q[3]
    BY <2>3
  <2>5. q = <<x, y, z>> /\ Bit(x, 8)
    BY <2>3, <2>4
  <2>6. \/ packet = <<>> /\ mwire = <<x, y, z>>
        \/ packet = <<x>> /\ mwire = <<y, z>>
        \/ packet = <<x, y>> /\ mwire = <<z>>
    BY <2>1, <2>2, <2>4, <2>5 DEF UnderWay
  <2>10. Shorts(x, y, z) /\ Shorts(y, z, x) /\ Shorts(z, x, y)
    BY ShortSeqs
  <2>7. CASE packet = <<>> /\ mwire = <<x, y, z>>
    <3>1. h = x /\ b = <<x>> /\ mwire' = <<y, z>> /\ Len(b) = 1
      BY <1>1, <2>7, <2>10 DEF h, b, Shorts
    <3>2. packet' = <<x>> /\ mouse' = mouse
      BY <1>1, <2>5, <3>1
    <3> QED BY <1>1, <2>1, <2>2, <2>4, <3>1, <3>2 DEF OnTrack, UnderWay
  <2>8. CASE packet = <<x>> /\ mwire = <<y, z>>
    <3>1. b = <<x, y>> /\ mwire' = <<z>> /\ Len(b) = 2 /\ packet # <<>>
      BY <1>1, <2>8, <2>10 DEF h, b, Shorts
    <3>2. packet' = <<x, y>> /\ mouse' = mouse
      BY <1>1, <3>1
    <3> QED BY <1>1, <2>1, <2>2, <2>4, <3>1, <3>2 DEF OnTrack, UnderWay
  <2>9. CASE packet = <<x, y>> /\ mwire = <<z>>
    <3>1. b = <<x, y, z>> /\ mwire' = <<>> /\ Len(b) = 3 /\ packet # <<>>
      BY <1>1, <2>9, <2>10 DEF h, b, Shorts
    <3>2. packet' = <<>> /\ mouse' = e
      BY <1>1, <3>1
    <3>3. e = Moved(mouse, p)
      BY <2>1, <2>2, <2>5, <3>1, HandledIsMoved DEF e
    <3> QED BY <1>1, <2>1, <3>1, <3>2, <3>3 DEF OnTrack
  <2> QED BY <2>6, <2>7, <2>8, <2>9
<1> QED BY <1>1, <1>2, <1>5, <1>6 DEF MouseInv

\* Whatever else happens does not touch the mouse.
LEMMA MouseRestInv ==
    ASSUME MouseInv, UNCHANGED <<mwire, aim, rough, packet, mouse>>
    PROVE  MouseInv'
BY DEF MouseInv, OnTrack, UnderWay

-----------------------------------------------------------------------------
(* The rings and the loop.                                                 *)

\* The producer put at most one entry behind the others, and the oldest entry
\* is still the oldest.
Enqueued(s, t, S, capacity) ==
    \/ t = s
    \/ \E x \in S : Len(s) < capacity /\ t = Append(s, x)
Grows(s, t) == s # <<>> => t # <<>> /\ Head(t) = Head(s)

\* What is put behind the others is the last, and not the oldest unless alone.
LEMMA AppendGrows ==
    ASSUME NEW S, NEW s \in Seq(S), NEW x \in S
    PROVE  /\ Append(s, x) # <<>> /\ Append(s, x)[Len(Append(s, x))] = x
           /\ Grows(s, Append(s, x))
<1>1. /\ Append(s, x) \in Seq(S) /\ Len(Append(s, x)) = Len(s) + 1 /\ Append(s, x)[Len(s) + 1] = x
      /\ \A i \in 1 .. Len(s) : Append(s, x)[i] = s[i]
  BY AppendItems
<1>2. Len(s) \in Nat
  OBVIOUS
<1>3. Append(s, x) # <<>>
  BY <1>1, <1>2, EmptySeq
<1>4. ASSUME s # <<>> PROVE Head(Append(s, x)) = Head(s)
  <2> DEFINE t == Append(s, x)
  <2>1. t[1] = s[1]
    <3>1. 1 \in 1 .. Len(s)
      BY <1>2, <1>4, EmptySeq
    <3> QED BY <1>1, <3>1
  <2>2. t \in Seq(S) /\ t # <<>>
    BY <1>1, <1>3
  <2> HIDE DEF t
  <2>3. Head(t) = t[1] /\ Head(s) = s[1]
    BY <2>2, <1>4, HeadTailProperties
  <2> QED BY <2>1, <2>3 DEF t
<1> QED BY <1>1, <1>3, <1>4 DEF Grows

\* A push enqueues.
LEMMA PushEnqueues ==
    ASSUME NEW size \in Nat \ {0}, NEW S, NEW r, IsRing(r, size, S), NEW x \in S
    PROVE  /\ IsRing(Push(r, size, x), size, S)
           /\ Enqueued(Contents(r, size), Contents(Push(r, size, x), size), S, size - 1)
           /\ Grows(Contents(r, size), Contents(Push(r, size, x), size))
           /\ Push(r, size, x) # r =>
                 Contents(Push(r, size, x), size) = Append(Contents(r, size), x)
<1>1. Contents(r, size) \in Seq(S)
  BY ContentsAre
<1>2. Grows(Contents(r, size), Append(Contents(r, size), x))
  BY <1>1, AppendGrows
<1>3. Grows(Contents(r, size), Contents(r, size))
  BY DEF Grows
<1>4. PICK t : t = Push(r, size, x)
  OBVIOUS
<1>5. PICK c, d : c = Contents(r, size) /\ d = Contents(t, size)
  OBVIOUS
<1>6. IsRing(t, size, S) /\ (t = r \/ (Len(c) < size - 1 /\ d = Append(c, x)))
  <2>1. /\ IsRing(Push(r, size, x), size, S)
        /\ \/ Push(r, size, x) = r
           \/ /\ Push(r, size, x) # r
              /\ Len(Contents(r, size)) < size - 1
              /\ Contents(Push(r, size, x), size) = Append(Contents(r, size), x)
    BY PushAppends
  <2> QED BY <1>4, <1>5, <2>1
<1>7. t = r => d = c
  BY <1>5
<1>8. Enqueued(c, d, S, size - 1)
  BY <1>6, <1>7 DEF Enqueued
<1>9. Grows(c, d)
  BY <1>2, <1>3, <1>5, <1>6, <1>7
<1>10. t # r => d = Append(c, x)
  BY <1>6
<1> QED BY <1>4, <1>5, <1>6, <1>8, <1>9, <1>10

\* The contents of the two rings.
LEMMA WaitingSeqs ==
    ASSUME RingsInv
    PROVE  /\ KeysWaiting \in Seq(KeyCodes) /\ EventsWaiting \in Seq(EventSet)
           /\ IsEmpty(keys) <=> KeysWaiting = <<>>
           /\ IsEmpty(events) <=> EventsWaiting = <<>>
BY Sizes, ContentsAre DEF RingsInv, KeysWaiting, EventsWaiting

\* An interrupt that leaves the oldest entries in place does not disturb the loop.
LEMMA WokenLoop ==
    ASSUME LoopInv, pc' = Woken, loaded' = loaded,
           Grows(KeysWaiting, KeysWaiting'), Grows(EventsWaiting, EventsWaiting')
    PROVE  LoopInv'
BY DEF LoopInv, Woken, Waiting, Grows

\* The keyboard's interrupt.
LEMMA KeyPushed ==
    ASSUME KeyboardInv, RingsInv, LoopInv, KeyboardCallback
    PROVE  /\ RingsInv' /\ LoopInv'
           /\ Enqueued(KeysWaiting, KeysWaiting', KeyCodes, KeyBufferSize - 1)
           /\ EventsWaiting' = EventsWaiting
<1> DEFINE x == Decode(kbd, Head(wire)).key
<1>1. x \in KeyCodes \cup {None}
  BY ByteHandledInv
<1>2. /\ keys' = IF x = None THEN keys ELSE Push(keys, KeyBufferSize, x)
      /\ UNCHANGED <<events, dropped, mouse, wmLeft, loaded>> /\ pc' = Woken
  BY DEF KeyboardCallback, pointer
<1> HIDE DEF x
<1>3. EventsWaiting' = EventsWaiting /\ LastLeft' = LastLeft
  BY <1>2 DEF EventsWaiting, LastLeft
<1>4. /\ IsRing(keys', KeyBufferSize, KeyCodes)
      /\ Enqueued(KeysWaiting, KeysWaiting', KeyCodes, KeyBufferSize - 1)
      /\ Grows(KeysWaiting, KeysWaiting')
  <2>1. IsRing(keys, KeyBufferSize, KeyCodes) /\ KeyBufferSize \in Nat \ {0}
    BY Sizes DEF RingsInv
  <2>2. CASE keys' = keys
    BY <2>1, <2>2 DEF Enqueued, Grows, KeysWaiting
  <2>3. CASE x \in KeyCodes /\ keys' = Push(keys, KeyBufferSize, x)
    BY <2>1, <2>3, PushEnqueues DEF KeysWaiting
  <2> QED BY <1>1, <1>2, <2>2, <2>3
<1>5. RingsInv'
  BY <1>2, <1>3, <1>4 DEF RingsInv
<1>6. Grows(EventsWaiting, EventsWaiting')
  BY <1>3 DEF Grows
<1>7. LoopInv'
  BY <1>2, <1>4, <1>6, WokenLoop
<1> QED BY <1>3, <1>4, <1>5, <1>7

\* The mouse's interrupt.
LEMMA EventPushed ==
    ASSUME MouseInv, RingsInv, LoopInv, MouseIrq
    PROVE  /\ RingsInv' /\ LoopInv'
           /\ Enqueued(EventsWaiting, EventsWaiting', EventSet, EventBufferSize - 1)
           /\ KeysWaiting' = KeysWaiting
<1>1. /\ UNCHANGED <<keys, wmLeft, loaded>> /\ pc' = Woken
      /\ \/ UNCHANGED <<mouse, events, dropped>>
         \/ events' = Push(events, EventBufferSize, mouse') /\ dropped' = (events' = events)
  BY DEF MouseIrq, keyboard
<1>2. mouse' \in EventSet
  BY MouseByteInv DEF MouseInv
<1>3. KeysWaiting' = KeysWaiting
  BY <1>1 DEF KeysWaiting
<1>4. /\ IsRing(events, EventBufferSize, EventSet) /\ IsRing(keys', KeyBufferSize, KeyCodes)
      /\ EventBufferSize \in Nat \ {0}
  BY <1>1, Sizes DEF RingsInv
<1>5. /\ IsRing(events', EventBufferSize, EventSet)
      /\ Enqueued(EventsWaiting, EventsWaiting', EventSet, EventBufferSize - 1)
      /\ Grows(EventsWaiting, EventsWaiting')
      /\ dropped' \in BOOLEAN /\ (~dropped' => LastLeft' = mouse'.left)
  <2>1. CASE UNCHANGED <<mouse, events, dropped>>
    <3>1. EventsWaiting' = EventsWaiting /\ LastLeft' = LastLeft
      BY <1>1, <2>1 DEF EventsWaiting, LastLeft
    <3> QED BY <1>4, <2>1, <3>1 DEF RingsInv, Enqueued, Grows
  <2>2. CASE events' = Push(events, EventBufferSize, mouse') /\ dropped' = (events' = events)
    <3>1. /\ IsRing(events', EventBufferSize, EventSet)
          /\ Enqueued(EventsWaiting, EventsWaiting', EventSet, EventBufferSize - 1)
          /\ Grows(EventsWaiting, EventsWaiting')
          /\ events' # events => EventsWaiting' = Append(EventsWaiting, mouse')
      BY <1>2, <1>4, <2>2, PushEnqueues DEF EventsWaiting
    <3>2. ASSUME ~dropped' PROVE LastLeft' = mouse'.left
      <4>1. EventsWaiting' = Append(EventsWaiting, mouse')
        BY <2>2, <3>1, <3>2
      <4>2. EventsWaiting' # <<>> /\ EventsWaiting'[Len(EventsWaiting')] = mouse'
        BY <1>2, <4>1, WaitingSeqs, AppendGrows
      <4> QED BY <4>2 DEF LastLeft
    <3>3. dropped' \in BOOLEAN
      BY <2>2
    <3> QED BY <3>1, <3>2, <3>3
  <2> QED BY <1>1, <2>1, <2>2
<1>6. RingsInv'
  BY <1>4, <1>5 DEF RingsInv
<1>7. Grows(KeysWaiting, KeysWaiting')
  BY <1>3 DEF Grows
<1>8. LoopInv'
  BY <1>1, <1>5, <1>7, WokenLoop
<1> QED BY <1>3, <1>5, <1>6, <1>8

\* The texts stay in their buffers, whatever key is delivered.
LEMMA TextKept ==
    ASSUME text \in Text, NEW key
    PROVE  Deliver(text, key) \subseteq Text /\ Echoed(text) \in Text
<1> DEFINE t == text
<1>1. /\ t = [input |-> t.input, lines |-> t.lines, editor |-> t.editor]
      /\ t.input \in 0 .. TermCols - 1 /\ t.lines \in 0 .. TermHistory
      /\ t.editor \in 0 .. EditBuf
  BY DEF Text
<1>2. ASSUME NEW n \in Nat, NEW l \in 0 .. TermHistory PROVE Lines(l, n) \in 0 .. TermHistory
  BY Sizes DEF Lines
<1>3. Echoed(t) \in Text
  <2>1. PICK n : n = Lines(t.lines, 1) /\ n \in 0 .. TermHistory
    BY <1>1, <1>2
  <2>2. PICK u \in Text : u = [t EXCEPT !.lines = n]
    BY <2>1 DEF Text
  <2>3. Echoed(t) = [u EXCEPT !.input = 0]
    BY <2>1, <2>2 DEF Echoed
  <2>4. [u EXCEPT !.input = 0] \in Text
    BY Sizes DEF Text
  <2> QED BY <2>3, <2>4
<1>4. Execute(t) \subseteq Text
  <2>1. PICK u \in Text : u = Echoed(t)
    BY <1>3
  <2>2. [u EXCEPT !.lines = 0] \in Text
    BY Sizes DEF Text
  <2>3. ASSUME NEW n \in Answers PROVE [u EXCEPT !.lines = Lines(@, n)] \in Text
    <3>1. n \in Nat
      BY DEF Answers
    <3>2. Lines(u.lines, n) \in 0 .. TermHistory
      BY <1>2, <3>1 DEF Text
    <3> QED BY <3>2 DEF Text
  <2> QED BY <2>1, <2>2, <2>3 DEF Execute
<1>5. TermOnKey(t, key) \subseteq Text
  <2>1. CASE key = "ENTER"
    <3>1. TermOnKey(t, key) = Execute(t)
      BY <2>1 DEF TermOnKey, Characters
    <3> QED BY <1>4, <3>1
  <2>2. CASE key # "ENTER"
    <3>1. t.input > 0 => [t EXCEPT !.input = @ - 1] \in Text
      BY <1>1, Sizes DEF Text
    <3>2. t.input < TermCols - 1 => [t EXCEPT !.input = @ + 1] \in Text
      BY <1>1, Sizes DEF Text
    <3> QED BY <2>2, <3>1, <3>2 DEF TermOnKey
  <2> QED BY <2>1, <2>2
<1>6. EditorOnKey(t, key) \subseteq Text
  <2>1. t.editor > 0 => [t EXCEPT !.editor = @ - 1] \in Text
    BY <1>1, Sizes DEF Text
  <2>2. t.editor < EditBuf => [t EXCEPT !.editor = @ + 1] \in Text
    BY <1>1, Sizes DEF Text
  <2> QED BY <2>1, <2>2 DEF EditorOnKey
<1> QED BY <1>3, <1>5, <1>6 DEF Deliver

\* The loop takes the key it has in hand out of the ring.
LEMMA KeyTaken ==
    ASSUME RingsInv, LoopInv, text \in Text, TakeKey
    PROVE  /\ RingsInv' /\ LoopInv' /\ text' \in Text
           /\ KeysWaiting # <<>> /\ loaded = Head(KeysWaiting)
           /\ KeysWaiting' = Tail(KeysWaiting)
           /\ EventsWaiting' = EventsWaiting /\ pc' # "take_key"
<1>1. /\ pc = "take_key" /\ pc' \in {"frame", "asleep"}
      /\ keys' = Advance(keys, KeyBufferSize)
      /\ UNCHANGED <<events, dropped, mouse, wmLeft>>
      /\ text' \in Deliver(text, loaded) \/ text' = Echoed(text)
  BY DEF TakeKey, pointer
<1>2. text' \in Text
  BY <1>1, TextKept
<1>3. KeysWaiting # <<>> /\ loaded = Head(KeysWaiting)
  BY <1>1 DEF LoopInv
<1>4. /\ IsRing(keys, KeyBufferSize, KeyCodes) /\ ~IsEmpty(keys)
      /\ KeyBufferSize \in Nat \ {0}
  BY <1>3, WaitingSeqs, Sizes DEF RingsInv
<1>5. IsRing(keys', KeyBufferSize, KeyCodes) /\ KeysWaiting' = Tail(KeysWaiting)
  BY <1>1, <1>4, AdvanceTakes DEF KeysWaiting
<1>6. EventsWaiting' = EventsWaiting /\ LastLeft' = LastLeft
  BY <1>1 DEF EventsWaiting, LastLeft
<1>7. RingsInv'
  BY <1>1, <1>5, <1>6 DEF RingsInv
<1>8. LoopInv'
  BY <1>1 DEF LoopInv
<1> QED BY <1>1, <1>2, <1>3, <1>5, <1>6, <1>7, <1>8

\* What is left of a sequence has the same last entry, if it has any.
LEMMA LastOfTail ==
    ASSUME NEW S, NEW s \in Seq(S), s # <<>>
    PROVE  IF Tail(s) = <<>> THEN s[Len(s)] = Head(s)
           ELSE Tail(s)[Len(Tail(s))] = s[Len(s)]
<1>1. /\ Head(s) = s[1] /\ Tail(s) \in Seq(S) /\ Len(Tail(s)) = Len(s) - 1
      /\ \A i \in 1 .. Len(Tail(s)) : Tail(s)[i] = s[i + 1]
  BY HeadTailProperties
<1>2. Len(s) \in Nat /\ Len(s) > 0
  BY EmptySeq
<1>3. CASE Tail(s) = <<>>
  <2>1. Len(s) = 1
    BY <1>1, <1>2, <1>3, EmptySeq
  <2> QED BY <1>1, <1>3, <2>1
<1>4. CASE Tail(s) # <<>>
  <2>1. Len(Tail(s)) \in 1 .. Len(Tail(s)) /\ Len(Tail(s)) + 1 = Len(s)
    BY <1>1, <1>2, <1>4, EmptySeq
  <2>2. Tail(s)[Len(Tail(s))] = s[Len(Tail(s)) + 1]
    BY <1>1, <2>1
  <2> QED BY <1>4, <2>1, <2>2
<1> QED BY <1>3, <1>4

\* The loop takes the event it has in hand out of the ring, and the window
\* manager remembers its button.
LEMMA EventTaken ==
    ASSUME RingsInv, LoopInv, TakeEvent
    PROVE  /\ RingsInv' /\ LoopInv'
           /\ EventsWaiting # <<>> /\ loaded = Head(EventsWaiting)
           /\ EventsWaiting' = Tail(EventsWaiting)
           /\ KeysWaiting' = KeysWaiting /\ pc' = "events"
<1>1. /\ pc = "take_event" /\ pc' = "events"
      /\ events' = Advance(events, EventBufferSize)
      /\ wmLeft' = loaded.left
      /\ UNCHANGED <<keys, dropped, mouse>>
  BY DEF TakeEvent, keyboard
<1>3. EventsWaiting # <<>> /\ loaded = Head(EventsWaiting)
  BY <1>1 DEF LoopInv
<1>4. /\ IsRing(events, EventBufferSize, EventSet) /\ ~IsEmpty(events)
      /\ EventBufferSize \in Nat \ {0} /\ EventsWaiting \in Seq(EventSet)
  BY <1>3, WaitingSeqs, Sizes DEF RingsInv
<1>5. IsRing(events', EventBufferSize, EventSet) /\ EventsWaiting' = Tail(EventsWaiting)
  BY <1>1, <1>4, AdvanceTakes DEF EventsWaiting
<1>6. KeysWaiting' = KeysWaiting
  BY <1>1 DEF KeysWaiting
<1>7. LastLeft' = LastLeft
  BY <1>1, <1>3, <1>4, <1>5, LastOfTail DEF LastLeft
<1>8. RingsInv'
  BY <1>1, <1>5, <1>7 DEF RingsInv
<1>9. LoopInv'
  BY <1>1 DEF LoopInv
<1> QED BY <1>1, <1>3, <1>5, <1>6, <1>8, <1>9

\* A copy is made where the loop was about to load, and kept until it is taken.
Steps(from, to) ==
    /\ from \notin {"take_key", "take_event"}
    /\ to = "take_key" => from = "load_key"
    /\ to = "take_event" => from = "load_event"

\* The loop makes its copy of the oldest entry, or only moves on.
LEMMA LoopMoves ==
    ASSUME RingsInv, LoopInv,
           KeyLoop \/ LoadKey \/ EventLoop \/ LoadEvent \/ Halt \/ Tick
    PROVE  /\ RingsInv' /\ LoopInv'
           /\ UNCHANGED <<session, keyboard, pointer, text>>
           /\ KeysWaiting' = KeysWaiting /\ EventsWaiting' = EventsWaiting
           /\ Steps(pc, pc')
<1>1. UNCHANGED <<session, keyboard, pointer, wmLeft, text>>
  BY DEF KeyLoop, LoadKey, EventLoop, LoadEvent, Halt, Tick, Goto
<1>2. UNCHANGED <<keys, events, dropped, mouse>>
  BY <1>1 DEF keyboard, pointer
<1>3. KeysWaiting' = KeysWaiting /\ EventsWaiting' = EventsWaiting /\ LastLeft' = LastLeft
  BY <1>1, <1>2 DEF KeysWaiting, EventsWaiting, LastLeft
<1>4. RingsInv'
  BY <1>2, <1>3 DEF RingsInv
<1>5. /\ IsEmpty(keys) <=> KeysWaiting = <<>>
      /\ IsEmpty(events) <=> EventsWaiting = <<>>
  BY WaitingSeqs
<1>6. LoopInv' /\ Steps(pc, pc')
  <2>1. CASE KeyLoop
    BY <1>3, <1>5, <2>1 DEF KeyLoop, Goto, LoopInv, Steps
  <2>2. CASE LoadKey
    <3>1. pc = "load_key" /\ pc' = "take_key" /\ KeysWaiting # <<>> /\ loaded' = keys.buf[keys.read]
      BY <2>2 DEF LoadKey, LoopInv
    <3>2. loaded' = Head(KeysWaiting)
      BY <1>5, <3>1, Sizes, AdvanceTakes DEF RingsInv, KeysWaiting
    <3> QED BY <1>3, <3>1, <3>2 DEF LoopInv, Steps
  <2>3. CASE EventLoop
    BY <1>3, <1>5, <2>3 DEF EventLoop, Goto, LoopInv, Steps
  <2>4. CASE LoadEvent
    <3>1. pc = "load_event" /\ pc' = "take_event" /\ EventsWaiting # <<>> /\ loaded' = events.buf[events.read]
      BY <2>4 DEF LoadEvent, LoopInv
    <3>2. loaded' = Head(EventsWaiting)
      BY <1>5, <3>1, Sizes, AdvanceTakes DEF RingsInv, EventsWaiting
    <3> QED BY <1>3, <3>1, <3>2 DEF LoopInv, Steps
  <2>5. CASE Halt
    BY <1>3, <2>5 DEF Halt, Goto, LoopInv, Steps
  <2>6. CASE Tick
    BY <1>3, <2>6 DEF Tick, Waiting, Goto, LoopInv, Steps
  <2> QED BY <2>1, <2>2, <2>3, <2>4, <2>5, <2>6
<1> QED BY <1>1, <1>3, <1>4, <1>6

\* What the user does, and a lost byte, do not touch the rings and the loop.
LEMMA RingsRest ==
    ASSUME UNCHANGED <<keys, events, dropped, mouse, loop>>
    PROVE  /\ RingsInv => RingsInv'
           /\ LoopInv => LoopInv'
           /\ text' = text
           /\ KeysWaiting' = KeysWaiting /\ EventsWaiting' = EventsWaiting
<1>1. UNCHANGED <<pc, loaded, wmLeft, text>>
  BY DEF loop
<1>2. KeysWaiting' = KeysWaiting /\ EventsWaiting' = EventsWaiting /\ LastLeft' = LastLeft
  BY <1>1 DEF KeysWaiting, EventsWaiting, LastLeft
<1> QED BY <1>1, <1>2 DEF RingsInv, LoopInv

-----------------------------------------------------------------------------
(* The theorems.                                                           *)

\* The start: nothing under way, nothing in the rings, nothing typed.
LEMMA IInitIInv == IInit => IInv
<1> SUFFICES ASSUME IInit PROVE IInv
  OBVIOUS
<1>1. session \in Sessions /\ held = {} /\ capsOn = FALSE /\ odd = FALSE
  BY DEF IInit
<1>2. KeyboardInv
  <2>1. kbd = Dec(FALSE, FALSE, FALSE, FALSE, FALSE) /\ wire = <<>> /\ mistyped = FALSE
    BY DEF IInit, Dec
  <2>2. kbd \in Decoder /\ kbd.ext = FALSE /\ kbd.shift = FALSE /\ kbd.ctrl = FALSE
        /\ kbd.alt = FALSE /\ kbd.caps = FALSE
    BY <2>1 DEF Dec, Decoder
  <2>3. Follows(kbd)
    BY <1>1, <2>2 DEF Follows, Shifted
  <2>4. RunsTo(wire, kbd, kbd, ~odd)
    BY <2>1, <2>2, RunEmpty
  <2>5. wire \in Seq(WireByte)
    BY <2>1, EmptySeq
  <2> QED BY <1>1, <2>1, <2>2, <2>3, <2>4, <2>5 DEF KeyboardInv
<1>3. MouseInv
  <2>1. /\ mwire = <<>> /\ packet = <<>> /\ mouse = Start /\ aim = Start /\ rough = FALSE
    BY DEF IInit
  <2>2. Start \in EventSet
    BY Sizes DEF Start, EventSet
  <2>3. mwire \in Seq(Byte) /\ packet \in Seq(Byte) /\ Len(packet) <= 2
    BY <2>1, EmptySeq
  <2> QED BY <2>1, <2>2, <2>3 DEF MouseInv, OnTrack
<1>4. RingsInv /\ KeysWaiting = <<>> /\ EventsWaiting = <<>>
  <2>1. keys = Empty /\ events = Empty /\ dropped = FALSE /\ wmLeft = FALSE /\ mouse = Start
    BY DEF IInit
  <2>2. KeysWaiting = <<>> /\ EventsWaiting = <<>>
    BY <2>1, Sizes, EmptyRing DEF KeysWaiting, EventsWaiting
  <2>3. LastLeft = mouse.left
    BY <2>1, <2>2 DEF LastLeft, Start
  <2> QED BY <2>1, <2>2, <2>3, Sizes, EmptyRing DEF RingsInv
<1>5. LoopInv
  BY DEF LoopInv, IInit
<1>6. text \in Text
  BY Sizes DEF IInit, Text
<1> QED BY <1>2, <1>3, <1>4, <1>5, <1>6 DEF IInv

\* What only the user, or the loss of a byte, changes.
Outside ==
    \/ \E k \in session.keys : Press(k) \/ Repeat(k) \/ Release(k)
    \/ \E p \in session.packets : MoveMouse(p)
    \/ LoseByte
    \/ UNCHANGED ivars

\* It leaves the rings and the loop alone.
LEMMA OutsideQuiet ==
    ASSUME Outside
    PROVE  UNCHANGED <<session, keys, events, dropped, mouse, loop>>
BY DEF Outside, Press, Repeat, Release, MoveMouse, LoseByte, ivars, keyboard, pointer, loop

\* The user's steps keep the invariant.
LEMMA OutsideInv == ASSUME IInv, Outside PROVE IInv'
<1>1. /\ RingsInv' /\ LoopInv' /\ text' \in Text
  BY OutsideQuiet, RingsRest DEF IInv
<1>2. ASSUME NEW k \in session.keys, Press(k) \/ Repeat(k) \/ Release(k)
      PROVE  KeyboardInv' /\ MouseInv'
  <2>1. KeyboardInv'
    BY <1>2, PressInv, RepeatInv, ReleaseInv DEF IInv
  <2>2. UNCHANGED <<mwire, aim, rough, packet, mouse>>
    BY <1>2 DEF Press, Repeat, Release, pointer
  <2> QED BY <2>1, <2>2, MouseRestInv DEF IInv
<1>3. CASE (\E p \in session.packets : MoveMouse(p)) \/ LoseByte
  <2>1. MouseInv'
    BY <1>3, MouseMovedInv DEF IInv, KeyboardInv
  <2>2. UNCHANGED <<session, held, capsOn, odd, wire, kbd, mistyped>>
    BY <1>3 DEF MoveMouse, LoseByte, keyboard
  <2> QED BY <1>1, <2>1, <2>2, KeyboardRestInv DEF IInv
<1>4. CASE UNCHANGED ivars
  <2>1. UNCHANGED <<session, held, capsOn, odd, wire, kbd, mistyped>>
    BY <1>4 DEF ivars, keyboard
  <2>2. UNCHANGED <<mwire, aim, rough, packet, mouse>>
    BY <1>4 DEF ivars, pointer
  <2> QED BY <1>1, <2>1, <2>2, KeyboardRestInv, MouseRestInv DEF IInv
<1> QED BY <1>1, <1>2, <1>3, <1>4 DEF Outside, IInv

\* Every step keeps the invariant.
LEMMA INextIInv == IInv /\ [INext]_ivars => IInv'
<1> SUFFICES ASSUME IInv, [INext]_ivars PROVE IInv'
  OBVIOUS
<1>1. CASE Outside
  BY <1>1, OutsideInv
<1>2. CASE KeyboardCallback
  <2>1. KeyboardInv'
    BY <1>2, ByteHandledInv DEF IInv
  <2>2. RingsInv' /\ LoopInv'
    BY <1>2, KeyPushed DEF IInv
  <2>3. UNCHANGED <<mwire, aim, rough, packet, mouse>> /\ text' = text
    BY <1>2 DEF KeyboardCallback, pointer
  <2> QED BY <2>1, <2>2, <2>3, MouseRestInv DEF IInv
<1>3. CASE MouseIrq
  <2>1. MouseInv'
    BY <1>3, MouseByteInv DEF IInv
  <2>2. RingsInv' /\ LoopInv'
    BY <1>3, EventPushed DEF IInv
  <2>3. UNCHANGED <<session, held, capsOn, odd, wire, kbd, mistyped>> /\ text' = text
    BY <1>3 DEF MouseIrq, keyboard
  <2> QED BY <2>1, <2>2, <2>3, KeyboardRestInv DEF IInv
<1>4. CASE TakeKey
  <2>1. RingsInv' /\ LoopInv' /\ text' \in Text
    BY <1>4, KeyTaken DEF IInv
  <2>2. UNCHANGED <<session, held, capsOn, odd, wire, kbd, mistyped>>
        /\ UNCHANGED <<mwire, aim, rough, packet, mouse>>
    BY <1>4 DEF TakeKey, pointer
  <2> QED BY <2>1, <2>2, KeyboardRestInv, MouseRestInv DEF IInv
<1>5. CASE TakeEvent
  <2>1. RingsInv' /\ LoopInv'
    BY <1>5, EventTaken DEF IInv
  <2>2. UNCHANGED <<session, held, capsOn, odd, wire, kbd, mistyped>>
        /\ UNCHANGED <<mwire, aim, rough, packet, mouse>> /\ text' = text
    BY <1>5 DEF TakeEvent, keyboard
  <2> QED BY <2>1, <2>2, KeyboardRestInv, MouseRestInv DEF IInv
<1>6. CASE KeyLoop \/ LoadKey \/ EventLoop \/ LoadEvent \/ Halt \/ Tick
  <2>1. RingsInv' /\ LoopInv' /\ UNCHANGED <<session, keyboard, pointer, text>>
    BY <1>6, LoopMoves DEF IInv
  <2>2. UNCHANGED <<session, held, capsOn, odd, wire, kbd, mistyped>>
        /\ UNCHANGED <<mwire, aim, rough, packet, mouse>>
    BY <2>1 DEF keyboard, pointer
  <2> QED BY <2>1, <2>2, KeyboardRestInv, MouseRestInv DEF IInv
<1> QED BY <1>1, <1>2, <1>3, <1>4, <1>5, <1>6 DEF INext, User, Loop, Outside

\* The inductive invariant of the input: the decoder runs through the bytes
\* under way to a state that follows the keys held, the mouse through its
\* packet to where the pointer should be, and the copy the loop has in hand is
\* the oldest entry of its ring.
THEOREM InputInvariance == ISpec => []IInv
BY IInitIInv, INextIInv, PTL DEF ISpec

\* Type correctness: the ends of the rings stay inside them, the pointer on the
\* screen, and the line, the history and the text of the editor in their buffers.
THEOREM InputTypeCorrect == ISpec => []ITypeOK
<1>1. IInv => ITypeOK
  <2> SUFFICES ASSUME IInv PROVE ITypeOK
    OBVIOUS
  <2>1. session \in Sessions /\ held \subseteq session.keys /\ kbd \in Decoder
    BY DEF IInv, KeyboardInv
  <2>2. /\ keys.read \in 0 .. KeyBufferSize - 1 /\ keys.write \in 0 .. KeyBufferSize - 1
        /\ events.read \in 0 .. EventBufferSize - 1
        /\ events.write \in 0 .. EventBufferSize - 1
    BY DEF IInv, RingsInv, IsRing
  <2>3. Len(packet) <= 2 /\ mouse \in EventSet
    BY DEF IInv, MouseInv
  <2>4. KeysWaiting \in Seq(KeyCodes) /\ EventsWaiting \in Seq(EventSet)
    BY WaitingSeqs DEF IInv
  <2>5. pc = "take_key" => loaded \in KeyCodes
    <3>1. ASSUME pc = "take_key" PROVE loaded = Head(KeysWaiting) /\ KeysWaiting # <<>>
      BY <3>1 DEF IInv, LoopInv
    <3> QED BY <2>4, <3>1, HeadTailProperties
  <2>6. pc = "take_event" => loaded \in EventSet
    <3>1. ASSUME pc = "take_event" PROVE loaded = Head(EventsWaiting) /\ EventsWaiting # <<>>
      BY <3>1 DEF IInv, LoopInv
    <3> QED BY <2>4, <3>1, HeadTailProperties
  <2>7. /\ text.input \in 0 .. TermCols - 1 /\ text.lines \in 0 .. TermHistory
        /\ text.editor \in 0 .. EditBuf
    BY DEF IInv, Text
  <2> QED BY <2>1, <2>2, <2>3, <2>5, <2>6, <2>7 DEF ITypeOK, Decoder
<1> QED BY <1>1, InputInvariance, PTL

\* No modifier stays down that the user has let go, once the handler has seen
\* every byte, whatever keys were pressed, repeated and released in what order.
THEOREM ModifierSafety == ISpec => []NoStuckModifier
<1>1. IInv => NoStuckModifier
  <2> SUFFICES ASSUME IInv, wire = <<>>
               PROVE  /\ kbd.shift => held \cap ShiftKeys # {}
                      /\ kbd.ctrl => held \cap CtrlKeys # {}
                      /\ kbd.alt => held \cap AltKeys # {}
                      /\ ~kbd.ext
    BY DEF NoStuckModifier
  <2>1. PICK d \in Decoder : RunsTo(wire, kbd, d, ~odd) /\ Follows(d)
    BY DEF IInv, KeyboardInv
  <2>2. kbd \in Decoder
    BY DEF IInv, KeyboardInv
  <2>3. d = kbd
    BY <2>1, <2>2, RunEmpty
  <2> QED BY <2>1, <2>3 DEF Follows, Shifted
<1> QED BY <1>1, InputInvariance, PTL

\* No key is decoded to anything but what its legend said under the modifiers
\* at the moment it was pressed.
THEOREM KeysSafety == ISpec => []KeysFaithful
<1>1. IInv => KeysFaithful
  BY DEF IInv, KeyboardInv, KeysFaithful
<1> QED BY <1>1, InputInvariance, PTL

\* The pointer is where the packets put it, and the window manager knows the
\* button once it has read the events.
THEOREM MouseSafety == ISpec => []MouseAgrees
<1>1. IInv => MouseAgrees
  <2> SUFFICES ASSUME IInv PROVE MouseAgrees
    OBVIOUS
  <2>1. ASSUME mwire = <<>>, ~rough PROVE mouse = aim
    <3>1. OnTrack
      BY <2>1 DEF IInv, MouseInv
    <3>2. ASSUME NEW p \in Movements, UnderWay(Packet(p)) PROVE FALSE
      <4>1. PICK q : q = Packet(p)
        OBVIOUS
      <4>2. q[1] \in Byte /\ q[2] \in Byte /\ q[3] \in Byte /\ q = <<q[1], q[2], q[3]>>
        BY <4>1, PacketBytes
      <4>3. Shorts(q[1], q[2], q[3]) /\ Shorts(q[2], q[3], q[1]) /\ Shorts(q[3], q[1], q[2])
        BY <4>2, ShortSeqs
      <4>4. /\ <<q[1], q[2], q[3]>> # <<>> /\ <<q[2], q[3]>> # <<>> /\ <<q[3]>> # <<>>
        BY <4>3 DEF Shorts
      <4> QED BY <2>1, <3>2, <4>1, <4>2, <4>4 DEF UnderWay
    <3> QED BY <3>1, <3>2 DEF OnTrack
  <2>2. ASSUME IsEmpty(events), ~dropped PROVE wmLeft = mouse.left
    <3>1. EventsWaiting = <<>>
      BY <2>2, WaitingSeqs DEF IInv
    <3> QED BY <2>2, <3>1 DEF IInv, RingsInv, LastLeft
  <2> QED BY <2>1, <2>2 DEF MouseAgrees
<1> QED BY <1>1, InputInvariance, PTL

-----------------------------------------------------------------------------
(* The rings implement queues that lose what does not fit.                 *)

\* An interrupt leaves the copy the loop has made alone.
LEMMA HandKept ==
    ASSUME NEW at \in {"take_key", "take_event"}, pc' = Woken, loaded' = loaded
    PROVE  InHand(at)' = InHand(at)
BY DEF InHand, Woken, Waiting

\* What a step does to the two queues and to the copies of the loop.
LEMMA QueueSteps ==
    ASSUME IInv, [INext]_ivars
    PROVE  \/ /\ UNCHANGED <<KeysWaiting, EventsWaiting, pc, loaded>>
           \/ /\ Enqueued(KeysWaiting, KeysWaiting', KeyCodes, KeyBufferSize - 1)
              /\ Enqueued(EventsWaiting, EventsWaiting', EventSet, EventBufferSize - 1)
              /\ pc' = Woken /\ loaded' = loaded
           \/ TakeKey
           \/ TakeEvent
           \/ /\ UNCHANGED <<KeysWaiting, EventsWaiting>> /\ Steps(pc, pc')
<1>1. CASE Outside
  <2>1. UNCHANGED <<KeysWaiting, EventsWaiting>> /\ UNCHANGED loop
    BY <1>1, OutsideQuiet, RingsRest
  <2> QED BY <2>1 DEF loop
<1>2. CASE KeyboardCallback
  <2>1. /\ Enqueued(KeysWaiting, KeysWaiting', KeyCodes, KeyBufferSize - 1)
        /\ EventsWaiting' = EventsWaiting
    BY <1>2, KeyPushed DEF IInv
  <2> QED BY <1>2, <2>1 DEF KeyboardCallback, Enqueued
<1>3. CASE MouseIrq
  <2>1. /\ Enqueued(EventsWaiting, EventsWaiting', EventSet, EventBufferSize - 1)
        /\ KeysWaiting' = KeysWaiting
    BY <1>3, EventPushed DEF IInv
  <2> QED BY <1>3, <2>1 DEF MouseIrq, Enqueued
<1>4. CASE KeyLoop \/ LoadKey \/ EventLoop \/ LoadEvent \/ Halt \/ Tick
  BY <1>4, LoopMoves DEF IInv
<1> QED BY <1>1, <1>2, <1>3, <1>4 DEF INext, User, Loop, Outside

\* A step is one of the queue of keys.
LEMMA KeyQueueStep ==
    ASSUME IInv, IInv', [INext]_ivars
    PROVE  [(\E x \in KeyCodes : KeyQueue!Put(x)) \/ KeyQueue!Look \/ KeyQueue!Take]_<<
               Contents(keys, KeyBufferSize), InHand("take_key")>>
<1> DEFINE at == "take_key"
<1>1. CASE UNCHANGED <<KeysWaiting, pc, loaded>>
  BY <1>1 DEF KeysWaiting, InHand
<1>2. CASE /\ Enqueued(KeysWaiting, KeysWaiting', KeyCodes, KeyBufferSize - 1)
           /\ pc' = Woken /\ loaded' = loaded
  <2>1. InHand(at)' = InHand(at)
    BY <1>2, HandKept
  <2> QED BY <1>2, <2>1 DEF Enqueued, KeysWaiting, KeyQueue!Put
<1>3. CASE TakeKey
  <2>1. /\ KeysWaiting # <<>> /\ loaded = Head(KeysWaiting) /\ KeysWaiting' = Tail(KeysWaiting)
        /\ pc' # at /\ pc = at
    BY <1>3, KeyTaken DEF IInv, TakeKey
  <2> QED BY <2>1 DEF KeysWaiting, InHand, KeyQueue!Take
<1>4. CASE TakeEvent
  <2>1. KeysWaiting' = KeysWaiting /\ pc' # at /\ pc # at
    BY <1>4, EventTaken DEF IInv, TakeEvent
  <2> QED BY <2>1 DEF KeysWaiting, InHand
<1>5. CASE KeysWaiting' = KeysWaiting /\ Steps(pc, pc')
  <2>1. CASE pc' # at
    BY <1>5, <2>1 DEF Steps, KeysWaiting, InHand
  <2>2. CASE pc' = at
    <3>1. KeysWaiting' # <<>> /\ loaded' = Head(KeysWaiting')
      BY <2>2 DEF IInv, LoopInv
    <3> QED BY <1>5, <2>2, <3>1 DEF KeysWaiting, InHand, KeyQueue!Look
  <2> QED BY <2>1, <2>2
<1> QED BY <1>1, <1>2, <1>3, <1>4, <1>5, QueueSteps

\* A step is one of the queue of events.
LEMMA EventQueueStep ==
    ASSUME IInv, IInv', [INext]_ivars
    PROVE  [(\E x \in EventSet : EventQueue!Put(x)) \/ EventQueue!Look \/ EventQueue!Take]_<<
               Contents(events, EventBufferSize), InHand("take_event")>>
<1> DEFINE at == "take_event"
<1>1. CASE UNCHANGED <<EventsWaiting, pc, loaded>>
  BY <1>1 DEF EventsWaiting, InHand
<1>2. CASE /\ Enqueued(EventsWaiting, EventsWaiting', EventSet, EventBufferSize - 1)
           /\ pc' = Woken /\ loaded' = loaded
  <2>1. InHand(at)' = InHand(at)
    BY <1>2, HandKept
  <2> QED BY <1>2, <2>1 DEF Enqueued, EventsWaiting, EventQueue!Put
<1>3. CASE TakeEvent
  <2>1. /\ EventsWaiting # <<>> /\ loaded = Head(EventsWaiting)
        /\ EventsWaiting' = Tail(EventsWaiting) /\ pc' # at /\ pc = at
    BY <1>3, EventTaken DEF IInv, TakeEvent
  <2> QED BY <2>1 DEF EventsWaiting, InHand, EventQueue!Take
<1>4. CASE TakeKey
  <2>1. EventsWaiting' = EventsWaiting /\ pc' # at /\ pc # at
    BY <1>4, KeyTaken DEF IInv, TakeKey
  <2> QED BY <2>1 DEF EventsWaiting, InHand
<1>5. CASE EventsWaiting' = EventsWaiting /\ Steps(pc, pc')
  <2>1. CASE pc' # at
    BY <1>5, <2>1 DEF Steps, EventsWaiting, InHand
  <2>2. CASE pc' = at
    <3>1. EventsWaiting' # <<>> /\ loaded' = Head(EventsWaiting')
      BY <2>2 DEF IInv, LoopInv
    <3> QED BY <1>5, <2>2, <3>1 DEF EventsWaiting, InHand, EventQueue!Look
  <2> QED BY <2>1, <2>2
<1> QED BY <1>1, <1>2, <1>3, <1>4, <1>5, QueueSteps

\* Both rings are queues that lose the newest entry when they are full, and
\* nothing else: an interrupt between the load of an entry and the advance past
\* it does not change, repeat or reorder what the loop gets.
THEOREM RingsAreLossyQueues == ISpec => IsLossyQueue
<1>1. IInit => KeyQueue!QInit /\ EventQueue!QInit
  <2> SUFFICES ASSUME IInit PROVE KeyQueue!QInit /\ EventQueue!QInit
    OBVIOUS
  <2>1. keys = Empty /\ events = Empty /\ pc = "frame"
    BY DEF IInit
  <2>2. Contents(keys, KeyBufferSize) = <<>> /\ Contents(events, EventBufferSize) = <<>>
    BY <2>1, Sizes, EmptyRing
  <2> QED BY <2>1, <2>2 DEF InHand, KeyQueue!QInit, EventQueue!QInit
<1>2. IInv /\ IInv' /\ [INext]_ivars =>
        [(\E x \in KeyCodes : KeyQueue!Put(x)) \/ KeyQueue!Look \/ KeyQueue!Take]_<<
               Contents(keys, KeyBufferSize), InHand("take_key")>>
  BY KeyQueueStep
<1>3. IInv /\ IInv' /\ [INext]_ivars =>
        [(\E x \in EventSet : EventQueue!Put(x)) \/ EventQueue!Look \/ EventQueue!Take]_<<
               Contents(events, EventBufferSize), InHand("take_event")>>
  BY EventQueueStep
<1> QED BY <1>1, <1>2, <1>3, InputInvariance, PTL
        DEF ISpec, IsLossyQueue, KeyQueue!QSpec, EventQueue!QSpec

=============================================================================
