----------------------------- MODULE HeapProofs -----------------------------
(***************************************************************************)
(* For a heap of any size, any header size and any requests: the blocks    *)
(* always tile the heap, and kmalloc and kfree implement Allocator.        *)
(***************************************************************************)
EXTENDS Heap, SequenceTheorems, TLAPS

Headers == [addr : Nat, size : Nat, used : BOOLEAN]

\* Tiling relates neighbours; a proof cannot walk from one block to a distant
\* one, so the invariant orders every two blocks.
Ordered ==
    \A i, j \in 1 .. Len(list) :
        i < j => End(list[i]) <= list[j].addr

HInv == HTypeOK /\ Tiling /\ Ordered /\ UsedIsOwned

\* A function on 1..n is a sequence of length n.
LEMMA FunIsSeq ==
    ASSUME NEW S, NEW n \in Nat, NEW f \in [1 .. n -> S]
    PROVE  f \in Seq(S) /\ Len(f) = n
<1>1. f \in Seq(S)
  BY SeqDef
<1>2. DOMAIN f = 1 .. Len(f) /\ Len(f) \in Nat
  BY <1>1, LenProperties
<1>3. 1 .. Len(f) = 1 .. n
  BY <1>2
<1> QED BY <1>1, <1>2, <1>3

\* Two pieces of the typing used everywhere.
LEMMA ListType ==
    ASSUME HTypeOK
    PROVE  /\ Len(list) \in Nat
           /\ \A i \in 1 .. Len(list) :
                /\ list[i].addr \in Nat /\ list[i].size \in Nat
                /\ list[i].used \in BOOLEAN
                /\ list[i] \in Headers
           /\ list \in [1 .. Len(list) -> Headers]
<1>1. list \in Seq(Headers)
  BY DEF HTypeOK, Headers
<1>2. Len(list) \in Nat /\ list \in [1 .. Len(list) -> Headers]
  BY <1>1, LenProperties
<1> QED BY <1>2 DEF Headers

\* Where a block begins and ends.
LEMMA HeaderFacts ==
    ASSUME NEW h \in Headers
    PROVE  /\ h.addr \in Nat /\ h.size \in Nat
           /\ Payload(h) \in Nat /\ End(h) \in Nat
           /\ Payload(h) = h.addr + HeaderSize
           /\ End(h) = h.addr + HeaderSize + h.size
           /\ h.addr < End(h)
<1>1. h.addr \in Nat /\ h.size \in Nat
  BY DEF Headers
<1>2. \A a, n \in Nat, hs \in Nat \ {0} :
        a + hs \in Nat /\ a + hs + n \in Nat /\ a < a + hs + n
  OBVIOUS
<1>3. HeaderSize \in Nat \ {0}
  BY HeapAssumption
<1>4. Payload(h) = h.addr + HeaderSize /\ End(h) = h.addr + HeaderSize + h.size
  BY DEF Payload, End
<1> QED BY <1>1, <1>2, <1>3, <1>4

\* Different blocks have different payloads.
LEMMA PayloadInjective ==
    ASSUME HInv, NEW i \in 1 .. Len(list), NEW j \in 1 .. Len(list),
           Payload(list[i]) = Payload(list[j])
    PROVE  i = j
<1> DEFINE g == list[i]
           h == list[j]
<1>1. g \in Headers /\ h \in Headers /\ Len(list) \in Nat
  BY ListType DEF HInv
<1>2. /\ i < j => End(g) <= h.addr
      /\ j < i => End(h) <= g.addr
  BY DEF HInv, Ordered
<1>3. Payload(g) = Payload(h)
  OBVIOUS
<1> HIDE DEF g, h
<1>4. /\ HeaderSize \in Nat
      /\ g.addr \in Nat /\ h.addr \in Nat /\ End(g) \in Nat /\ End(h) \in Nat
      /\ g.addr < End(g) /\ h.addr < End(h)
      /\ Payload(g) = g.addr + HeaderSize /\ Payload(h) = h.addr + HeaderSize
  BY <1>1, HeaderFacts, HeapAssumption
<1>5. g.addr = h.addr
  <2>1. \A a, b, c \in Nat : a + c = b + c => a = b
    OBVIOUS
  <2> QED BY <1>3, <1>4, <2>1
<1> QED BY <1>1, <1>2, <1>4, <1>5

\* The whole heap is one free block at first.
LEMMA InitHInv == HInit => HInv
<1> SUFFICES ASSUME HInit PROVE HInv
  OBVIOUS
<1>1. HeapSize - HeaderSize \in Nat /\ HeaderSize \in Nat
  BY HeapAssumption
<1>2. list = <<[addr |-> 0, size |-> HeapSize - HeaderSize, used |-> FALSE]>>
  BY DEF HInit, Header
<1>3. HTypeOK
  <2>1. [addr |-> 0, size |-> HeapSize - HeaderSize, used |-> FALSE] \in Headers
    BY <1>1 DEF Headers
  <2>2. list \in Seq(Headers)
    BY <1>2, <2>1
  <2> QED BY <2>2 DEF HTypeOK, HInit, Headers
<1>4. Len(list) = 1 /\ list[1] = [addr |-> 0, size |-> HeapSize - HeaderSize, used |-> FALSE]
  BY <1>2
<1>5. Tiling
  BY <1>1, <1>4, HeapAssumption DEF Tiling, Payload, End
<1>6. Ordered
  BY <1>4 DEF Ordered
<1>7. UsedIsOwned
  <2>1. list[1].used = FALSE /\ 1 .. Len(list) = {1}
    BY <1>4
  <2>2. owned = {}
    BY DEF HInit
  <2>3. \A i \in 1 .. Len(list) : list[i].used <=> \E b \in owned : b.ptr = Payload(list[i])
    BY <2>1, <2>2
  <2> QED BY <2>2, <2>3 DEF UsedIsOwned
<1> QED BY <1>3, <1>5, <1>6, <1>7 DEF HInv

\* Cutting a free block in two.
LEMMA SplitList ==
    ASSUME HInv, NEW i \in 1 .. Len(list), NEW n \in Nat,
           list[i].size > n + HeaderSize + MinRest, list' = Split(i, n)
    PROVE  /\ list' \in Seq(Headers)
           /\ Len(list') = Len(list) + 1
           /\ \A j \in 1 .. i - 1 : list'[j] = list[j]
           /\ list'[i] = Header(list[i].addr, n, TRUE)
           /\ list'[i + 1] = Header(Payload(list[i]) + n,
                                    list[i].size - n - HeaderSize, FALSE)
           /\ \A j \in i + 2 .. Len(list) + 1 : list'[j] = list[j - 1]
           /\ Tiling' /\ Ordered'
<1> DEFINE L == Len(list)
           first == Header(list[i].addr, n, TRUE)
           rest == Header(Payload(list[i]) + n, list[i].size - n - HeaderSize, FALSE)
<1>1. HeaderSize \in Nat \ {0} /\ MinRest \in Nat
  BY HeapAssumption
<1>2. /\ L \in Nat
      /\ \A k \in 1 .. L :
            list[k].addr \in Nat /\ list[k].size \in Nat /\ list[k] \in Headers
  BY ListType DEF HInv
<1>3. first \in Headers /\ rest \in Headers
  <2>1. list[i].addr \in Nat /\ list[i].size \in Nat
    BY <1>2
  <2>2. Payload(list[i]) + n \in Nat
    BY <1>2, HeaderFacts
  <2>3. list[i].size - n - HeaderSize \in Nat
    <3>1. \A a, b, c, d \in Nat : a > b + c + d => a - b - c \in Nat
      OBVIOUS
    <3> QED BY <1>1, <2>1, <3>1
  <2> QED BY <2>1, <2>2, <2>3 DEF Header, Headers
<1>4. list' = [j \in 1 .. L + 1 |->
                IF j < i THEN list[j] ELSE IF j = i THEN first
                ELSE IF j = i + 1 THEN rest ELSE list[j - 1]]
  BY DEF Split
<1> HIDE DEF first, rest
<1>5. \A j \in 1 .. L + 1 :
        (IF j < i THEN list[j] ELSE IF j = i THEN first
         ELSE IF j = i + 1 THEN rest ELSE list[j - 1]) \in Headers
  BY <1>2, <1>3
<1>6. list' \in [1 .. L + 1 -> Headers]
  BY <1>4, <1>5
<1>7. list' \in Seq(Headers) /\ Len(list') = L + 1
  BY <1>2, <1>6, FunIsSeq
<1>8. /\ \A j \in 1 .. i - 1 : list'[j] = list[j]
      /\ list'[i] = first
      /\ list'[i + 1] = rest
      /\ \A j \in i + 2 .. L + 1 : list'[j] = list[j - 1]
  BY <1>2, <1>4
<1>9. /\ first.addr = list[i].addr /\ End(first) = rest.addr
      /\ End(rest) = End(list[i])
      /\ list[i].addr <= rest.addr /\ rest.addr <= End(list[i])
      /\ rest.addr \in Nat
  <2>1. /\ first.addr = list[i].addr /\ first.size = n
        /\ rest.addr = Payload(list[i]) + n
        /\ rest.size = list[i].size - n - HeaderSize
    BY DEF first, rest, Header
  <2>2. /\ End(first) = list[i].addr + HeaderSize + n
        /\ End(rest) = rest.addr + HeaderSize + rest.size
        /\ End(list[i]) = list[i].addr + HeaderSize + list[i].size
        /\ Payload(list[i]) = list[i].addr + HeaderSize
    BY <2>1 DEF End, Payload
  <2>3. \A a, z, h, r \in Nat : z > n + h + r =>
          /\ a + h + n + h + (z - n - h) = a + h + z
          /\ a <= a + h + n /\ a + h + n <= a + h + z
          /\ a + h + n \in Nat
    OBVIOUS
  <2>4. list[i].addr \in Nat /\ list[i].size \in Nat
    BY <1>2
  <2> DEFINE a == list[i].addr
             z == list[i].size
  <2>5. /\ a + HeaderSize + n + HeaderSize + (z - n - HeaderSize) = a + HeaderSize + z
        /\ a <= a + HeaderSize + n /\ a + HeaderSize + n <= a + HeaderSize + z
        /\ a + HeaderSize + n \in Nat
    <3> HIDE DEF a, z
    <3>1. a \in Nat /\ z \in Nat /\ z > n + HeaderSize + MinRest
      BY <2>4 DEF a, z
    <3> QED BY <1>1, <2>3, <3>1
  <2> QED BY <2>1, <2>2, <2>5
<1>10. \A k \in 1 .. L : End(list[k]) \in Nat
  BY <1>2, HeaderFacts
<1>11. \A k \in 1 .. L : End(list[k]) = IF k = L THEN HeapSize ELSE list[k + 1].addr
  BY DEF HInv, Tiling
<1>12. Tiling'
  <2>1. list'[1].addr = 0
    BY <1>2, <1>8, <1>9 DEF HInv, Tiling
  <2>2. ASSUME NEW k \in 1 .. L + 1
        PROVE  End(list'[k]) = IF k = L + 1 THEN HeapSize ELSE list'[k + 1].addr
    <3>1. CASE k < i
      <4>1. k \in 1 .. i - 1 /\ k # L + 1 /\ list'[k] = list[k]
        BY <1>2, <1>8, <3>1
      <4>2. End(list[k]) = list[k + 1].addr
        BY <1>2, <1>11, <4>1
      <4>3. list'[k + 1].addr = list[k + 1].addr
        BY <1>2, <1>8, <1>9, <3>1
      <4> QED BY <4>1, <4>2, <4>3
    <3>2. CASE k = i
      BY <1>2, <1>8, <1>9, <3>2
    <3>3. CASE k = i + 1
      <4>1. End(list'[k]) = IF i = L THEN HeapSize ELSE list[i + 1].addr
        BY <1>8, <1>9, <1>11, <3>3
      <4>2. CASE i = L
        BY <1>2, <4>1, <4>2, <3>3
      <4>3. CASE i # L
        <5>1. k + 1 \in i + 2 .. L + 1 /\ (k + 1) - 1 = i + 1 /\ k # L + 1
          BY <1>2, <4>3, <3>3
        <5>2. list'[k + 1] = list[i + 1]
          BY <1>8, <5>1
        <5> QED BY <4>1, <4>3, <5>1, <5>2
      <4> QED BY <4>2, <4>3
    <3>4. CASE k > i + 1
      <4>1. k \in i + 2 .. L + 1 /\ k - 1 \in 1 .. L /\ (k - 1) + 1 = k
        BY <1>2, <3>4
      <4>2. list'[k] = list[k - 1]
        BY <1>8, <4>1
      <4>3. End(list[k - 1]) = IF k - 1 = L THEN HeapSize ELSE list[k].addr
        BY <1>11, <4>1
      <4>4. CASE k = L + 1
        <5>1. k - 1 = L
          BY <1>2, <4>4
        <5> QED BY <4>2, <4>3, <4>4, <5>1
      <4>5. CASE k # L + 1
        <5>1. k + 1 \in i + 2 .. L + 1 /\ (k + 1) - 1 = k
          BY <1>2, <4>1, <4>5
        <5>2. list'[k + 1] = list[k]
          BY <1>8, <5>1
        <5> QED BY <1>2, <4>1, <4>2, <4>3, <4>5, <5>2
      <4> QED BY <4>4, <4>5
    <3> QED BY <1>2, <3>1, <3>2, <3>3, <3>4
  <2> QED BY <1>2, <1>7, <2>1, <2>2 DEF Tiling, End, Payload
<1>13. Ordered'
  <2>1. \A k, l \in 1 .. L : k < l => End(list[k]) <= list[l].addr
    BY DEF HInv, Ordered
  <2>2. ASSUME NEW k \in 1 .. L + 1, NEW l \in 1 .. L + 1, k < l
        PROVE  End(list'[k]) <= list'[l].addr
    <3>1. CASE l <= i
      <4>1. list'[k] = list[k] /\ list'[l].addr = list[l].addr
        BY <1>2, <1>8, <1>9, <2>2, <3>1
      <4>2. k \in 1 .. L /\ l \in 1 .. L
        BY <1>2, <2>2, <3>1
      <4> QED BY <2>1, <2>2, <4>1, <4>2
    <3>2. CASE l = i + 1 /\ k = i
      BY <1>2, <1>8, <1>9, <3>2
    <3>3. CASE l = i + 1 /\ k < i
      <4>1. k \in 1 .. i - 1 /\ k \in 1 .. L
        BY <1>2, <3>3
      <4>2. list'[k] = list[k] /\ list'[l] = rest
        BY <1>8, <3>3, <4>1
      <4>3. End(list[k]) <= list[i].addr /\ End(list[k]) \in Nat
        BY <1>10, <2>1, <3>3, <4>1
      <4>4. list[i].addr \in Nat
        BY <1>2
      <4> QED BY <1>9, <4>2, <4>3, <4>4
    <3>4. CASE l > i + 1
      <4>1. l \in i + 2 .. L + 1 /\ l - 1 \in 1 .. L /\ i < l - 1
        BY <1>2, <3>4
      <4>2. list'[l] = list[l - 1]
        BY <1>8, <4>1
      <4>3. End(list[i]) <= list[l - 1].addr
        BY <1>2, <2>1, <4>1
      <4>4. CASE k < i
        <5>1. k \in 1 .. i - 1 /\ k \in 1 .. L /\ k < l - 1
          BY <1>2, <4>1, <4>4
        <5>2. list'[k] = list[k]
          BY <1>8, <5>1
        <5> QED BY <2>1, <4>1, <4>2, <5>1, <5>2
      <4>5. CASE k = i
        <5>1. End(list'[k]) <= End(list[i]) /\ End(list'[k]) \in Nat
          BY <1>8, <1>9, <4>5
        <5>2. list[l - 1].addr \in Nat /\ End(list[i]) \in Nat
          BY <1>2, <1>10, <4>1
        <5> QED BY <4>2, <4>3, <5>1, <5>2
      <4>6. CASE k = i + 1
        BY <1>8, <1>9, <4>2, <4>3, <4>6
      <4>7. CASE k > i + 1
        <5>1. k \in i + 2 .. L + 1 /\ k - 1 \in 1 .. L /\ k - 1 < l - 1
          BY <1>2, <2>2, <4>7
        <5>2. list'[k] = list[k - 1]
          BY <1>8, <5>1
        <5> QED BY <2>1, <4>1, <4>2, <5>1, <5>2
      <4> QED BY <1>2, <4>4, <4>5, <4>6, <4>7
    <3> QED BY <1>2, <2>2, <3>1, <3>2, <3>3, <3>4
  <2> QED BY <1>2, <1>7, <2>2 DEF Ordered, End, Payload
<1> QED BY <1>7, <1>8, <1>12, <1>13 DEF first, rest

\* A block taking in the one after it.
LEMMA MergeList ==
    ASSUME HInv, NEW i \in 1 .. Len(list), i < Len(list), list' = Merge(i)
    PROVE  /\ list' \in Seq(Headers)
           /\ Len(list') = Len(list) - 1
           /\ \A j \in 1 .. i - 1 : list'[j] = list[j]
           /\ list'[i] = Header(list[i].addr,
                                list[i].size + HeaderSize + list[i + 1].size, FALSE)
           /\ \A j \in i + 1 .. Len(list) - 1 : list'[j] = list[j + 1]
           /\ Tiling' /\ Ordered'
<1> DEFINE L == Len(list)
           both == Header(list[i].addr, list[i].size + HeaderSize + list[i + 1].size, FALSE)
<1>1. HeaderSize \in Nat \ {0}
  BY HeapAssumption
<1>2. /\ L \in Nat
      /\ \A k \in 1 .. L :
            list[k].addr \in Nat /\ list[k].size \in Nat /\ list[k] \in Headers
  BY ListType DEF HInv
<1>3. i + 1 \in 1 .. L /\ L - 1 \in Nat
  BY <1>2
<1>4. both \in Headers
  <2>1. \A a, b, c \in Nat : a + b + c \in Nat
    OBVIOUS
  <2>2. list[i].size + HeaderSize + list[i + 1].size \in Nat /\ list[i].addr \in Nat
    BY <1>1, <1>2, <1>3, <2>1
  <2> QED BY <2>2 DEF Header, Headers
<1>5. list' = [j \in 1 .. L - 1 |->
                IF j < i THEN list[j] ELSE IF j = i THEN both ELSE list[j + 1]]
  BY DEF Merge
<1>6. \A k \in 1 .. L : End(list[k]) = IF k = L THEN HeapSize ELSE list[k + 1].addr
  BY DEF HInv, Tiling
<1>7. \A k \in 1 .. L : End(list[k]) \in Nat
  BY <1>2, HeaderFacts
<1>8. both.addr = list[i].addr /\ End(both) = End(list[i + 1])
  <2>1. i # L
    BY <1>2
  <2>2. list[i + 1].addr = list[i].addr + HeaderSize + list[i].size
    BY <1>2, <1>6, <2>1, HeaderFacts
  <2>3. /\ both.addr = list[i].addr
        /\ both.size = list[i].size + HeaderSize + list[i + 1].size
    BY DEF Header
  <2>4. End(both) = both.addr + HeaderSize + both.size
    BY DEF End, Payload
  <2>5. End(list[i + 1]) = list[i + 1].addr + HeaderSize + list[i + 1].size
    BY DEF End, Payload
  <2>6. \A a, h, z, y \in Nat : a + h + (z + h + y) = a + h + z + h + y
    OBVIOUS
  <2>7. /\ list[i].addr \in Nat /\ list[i].size \in Nat
        /\ list[i + 1].size \in Nat
    BY <1>2, <1>3
  <2> HIDE DEF both
  <2>8. both.addr + HeaderSize + both.size
          = list[i].addr + HeaderSize + list[i].size + HeaderSize + list[i + 1].size
    <3> DEFINE a == list[i].addr
               z == list[i].size
               y == list[i + 1].size
    <3>1. a \in Nat /\ z \in Nat /\ y \in Nat
      BY <2>7
    <3> HIDE DEF a, z, y
    <3>2. a + HeaderSize + (z + HeaderSize + y) = a + HeaderSize + z + HeaderSize + y
      BY <1>1, <2>6, <3>1
    <3> QED BY <2>3, <3>2 DEF a, z, y
  <2> QED BY <2>2, <2>3, <2>4, <2>5, <2>8
<1> HIDE DEF both
<1>9. list' \in Seq(Headers) /\ Len(list') = L - 1
  <2>1. \A j \in 1 .. L - 1 :
          (IF j < i THEN list[j] ELSE IF j = i THEN both ELSE list[j + 1]) \in Headers
    BY <1>2, <1>4
  <2>2. list' \in [1 .. L - 1 -> Headers]
    BY <1>5, <2>1
  <2> QED BY <1>3, <2>2, FunIsSeq
<1>10. /\ \A j \in 1 .. i - 1 : list'[j] = list[j]
       /\ list'[i] = both
       /\ \A j \in i + 1 .. L - 1 : list'[j] = list[j + 1]
  BY <1>2, <1>5
<1>11. Tiling'
  <2>1. list'[1].addr = 0
    <3>1. list[1].addr = 0
      BY DEF HInv, Tiling
    <3>2. i = 1 \/ 1 \in 1 .. i - 1
      BY <1>2
    <3> QED BY <1>8, <1>10, <3>1, <3>2
  <2>2. ASSUME NEW k \in 1 .. L - 1
        PROVE  End(list'[k]) = IF k = L - 1 THEN HeapSize ELSE list'[k + 1].addr
    <3>1. CASE k < i
      <4>1. k \in 1 .. i - 1 /\ k # L - 1 /\ k \in 1 .. L /\ k # L
        BY <1>2, <3>1
      <4>2. list'[k] = list[k] /\ End(list[k]) = list[k + 1].addr
        BY <1>6, <1>10, <4>1
      <4>3. list'[k + 1].addr = list[k + 1].addr
        BY <1>2, <1>8, <1>10, <3>1
      <4> QED BY <4>1, <4>2, <4>3
    <3>2. CASE k >= i
      <4>1. k + 1 \in 1 .. L
        BY <1>2
      <4>2. End(list'[k]) = End(list[k + 1])
        BY <1>2, <1>8, <1>10, <3>2
      <4>3. End(list[k + 1]) = IF k + 1 = L THEN HeapSize ELSE list[(k + 1) + 1].addr
        BY <1>6, <4>1
      <4>4. CASE k = L - 1
        BY <1>2, <4>2, <4>3, <4>4
      <4>5. CASE k # L - 1
        <5>1. k + 1 \in i + 1 .. L - 1 /\ k + 1 # L
          BY <1>2, <3>2, <4>5
        <5>2. list'[k + 1] = list[(k + 1) + 1]
          BY <1>10, <5>1
        <5> QED BY <4>2, <4>3, <4>5, <5>1, <5>2
      <4> QED BY <4>4, <4>5
    <3> QED BY <1>2, <3>1, <3>2
  <2>3. L - 1 > 0
    BY <1>2
  <2> QED BY <1>9, <2>1, <2>2, <2>3 DEF Tiling, End, Payload
<1>12. Ordered'
  <2>1. \A k, l \in 1 .. L : k < l => End(list[k]) <= list[l].addr
    BY DEF HInv, Ordered
  <2>2. ASSUME NEW k \in 1 .. L - 1, NEW l \in 1 .. L - 1, k < l
        PROVE  End(list'[k]) <= list'[l].addr
    <3> DEFINE b == IF l <= i THEN l ELSE l + 1
               a == IF k < i THEN k ELSE k + 1
    <3>1. a \in 1 .. L /\ b \in 1 .. L /\ (k < i => a < b) /\ (k >= i => a < b)
      BY <1>2, <2>2
    <3>2. End(list'[k]) = End(list[a])
      <4>1. CASE k < i
        <5>1. k \in 1 .. i - 1
          BY <1>2, <4>1
        <5> QED BY <1>10, <4>1, <5>1
      <4>2. CASE k = i
        BY <1>8, <1>10, <4>2
      <4>3. CASE k > i
        <5>1. k \in i + 1 .. L - 1 /\ ~(k < i)
          BY <1>2, <4>3
        <5> QED BY <1>10, <5>1
      <4> QED BY <1>2, <4>1, <4>2, <4>3
    <3>3. list'[l].addr = list[b].addr
      <4>1. CASE l < i
        <5>1. l \in 1 .. i - 1 /\ l <= i
          BY <1>2, <4>1
        <5> QED BY <1>10, <5>1
      <4>2. CASE l = i
        BY <1>8, <1>10, <4>2
      <4>3. CASE l > i
        <5>1. l \in i + 1 .. L - 1 /\ ~(l <= i)
          BY <1>2, <4>3
        <5> QED BY <1>10, <5>1
      <4> QED BY <1>2, <4>1, <4>2, <4>3
    <3>4. a < b
      BY <1>2, <3>1
    <3> HIDE DEF a, b
    <3> QED BY <2>1, <3>1, <3>2, <3>3, <3>4
  <2> QED BY <1>9, <2>2 DEF Ordered, End, Payload
<1> QED BY <1>9, <1>10, <1>11, <1>12 DEF both

\* Marking a block does not move it.
LEMMA MarkList ==
    ASSUME HInv, NEW i \in 1 .. Len(list), NEW u \in BOOLEAN,
           list' = [list EXCEPT ![i].used = u]
    PROVE  /\ list' \in Seq(Headers)
           /\ Len(list') = Len(list)
           /\ \A j \in 1 .. Len(list) : j # i => list'[j] = list[j]
           /\ list'[i] = [list[i] EXCEPT !.used = u]
           /\ Tiling' /\ Ordered'
<1>1. /\ Len(list) \in Nat
      /\ \A k \in 1 .. Len(list) : list[k] \in Headers
      /\ list \in [1 .. Len(list) -> Headers]
  BY ListType DEF HInv
<1>2. [list[i] EXCEPT !.used = u] \in Headers
  BY <1>1 DEF Headers
<1>3. list' \in [1 .. Len(list) -> Headers]
  BY <1>1, <1>2
<1>4. list' \in Seq(Headers) /\ Len(list') = Len(list)
  BY <1>1, <1>3, FunIsSeq
<1>5. /\ \A j \in 1 .. Len(list) : j # i => list'[j] = list[j]
      /\ list'[i] = [list[i] EXCEPT !.used = u]
  BY <1>1
<1>6. \A j \in 1 .. Len(list) :
        list'[j].addr = list[j].addr /\ list'[j].size = list[j].size
  BY <1>1, <1>5 DEF Headers
<1>7. Tiling'
  BY <1>1, <1>4, <1>6 DEF HInv, Tiling, End, Payload
<1>8. Ordered'
  BY <1>4, <1>6 DEF HInv, Ordered, End, Payload
<1> QED BY <1>4, <1>5, <1>7, <1>8

-----------------------------------------------------------------------------
(* Who owns what, from the blocks that a step keeps.                       *)

\* Block i is handed out: every other block stays or is a free one that
\* starts where none did.
LEMMA HandOut ==
    ASSUME HInv, NEW i \in 1 .. Len(list), NEW n \in Requests,
           ~list[i].used, list[i].size >= n,
           owned' = owned \cup {[ptr |-> Payload(list[i]), size |-> n]},
           \A j \in 1 .. Len(list') :
              \/ \E k \in 1 .. Len(list) \ {i} : list'[j] = list[k]
              \/ Payload(list'[j]) = Payload(list[i]) /\ list'[j].used
              \/ ~list'[j].used /\ \A k \in 1 .. Len(list) :
                                      Payload(list'[j]) # Payload(list[k]),
           \A k \in 1 .. Len(list) \ {i} : \E j \in 1 .. Len(list') : list'[j] = list[k],
           \E j \in 1 .. Len(list') :
              Payload(list'[j]) = Payload(list[i]) /\ list'[j].size >= n
    PROVE  UsedIsOwned'
<1> DEFINE new == [ptr |-> Payload(list[i]), size |-> n]
<1>1. new \in owned' /\ new.ptr = Payload(list[i]) /\ new.size = n
  OBVIOUS
<1>2. /\ \A k \in 1 .. Len(list) :
            list[k].used <=> \E b \in owned : b.ptr = Payload(list[k])
      /\ \A b \in owned : \E k \in 1 .. Len(list) :
            Payload(list[k]) = b.ptr /\ list[k].size >= b.size
      /\ \A b, c \in owned : b.ptr = c.ptr => b = c
  BY DEF HInv, UsedIsOwned
<1>3. \A k \in 1 .. Len(list) : Payload(list[k]) = Payload(list[i]) => k = i
  BY PayloadInjective
<1>4. \A b \in owned : b.ptr # new.ptr
  BY <1>1, <1>2
<1>5. owned' = owned \cup {new}
  OBVIOUS
<1> HIDE DEF new
<1>6. ASSUME NEW j \in 1 .. Len(list')
      PROVE  list'[j].used <=> \E b \in owned' : b.ptr = Payload(list'[j])
  <2>1. CASE \E k \in 1 .. Len(list) \ {i} : list'[j] = list[k]
    <3>1. PICK k \in 1 .. Len(list) \ {i} : list'[j] = list[k]
      BY <2>1
    <3>2. Payload(list'[j]) # new.ptr
      BY <1>1, <1>3, <3>1
    <3>3. list'[j].used <=> \E b \in owned : b.ptr = Payload(list'[j])
      BY <1>2, <3>1
    <3> QED BY <1>5, <3>2, <3>3
  <2>2. CASE Payload(list'[j]) = Payload(list[i]) /\ list'[j].used
    BY <1>1, <2>2
  <2>3. CASE ~list'[j].used /\ \A k \in 1 .. Len(list) :
                                   Payload(list'[j]) # Payload(list[k])
    BY <1>1, <1>2, <1>5, <2>3
  <2> QED BY <2>1, <2>2, <2>3
<1>7. ASSUME NEW b \in owned'
      PROVE  \E j \in 1 .. Len(list') :
                Payload(list'[j]) = b.ptr /\ list'[j].size >= b.size
  <2>1. CASE b = new
    BY <1>1, <2>1
  <2>2. CASE b \in owned
    <3>1. PICK k \in 1 .. Len(list) : Payload(list[k]) = b.ptr /\ list[k].size >= b.size
      BY <1>2, <2>2
    <3>2. k # i
      BY <1>1, <1>4, <2>2, <3>1
    <3> QED BY <3>1, <3>2
  <2> QED BY <1>5, <2>1, <2>2
<1>8. \A b, c \in owned' : b.ptr = c.ptr => b = c
  BY <1>2, <1>4, <1>5
<1> QED BY <1>6, <1>7, <1>8 DEF UsedIsOwned, Payload

\* Block i is given back: the used blocks stay, no other block becomes used.
LEMMA GiveBack ==
    ASSUME HInv, NEW i \in 1 .. Len(list), NEW b \in owned,
           Payload(list[i]) = b.ptr, owned' = owned \ {b},
           \A j \in 1 .. Len(list') :
              \/ \E k \in 1 .. Len(list) \ {i} : list'[j] = list[k]
              \/ ~list'[j].used /\ Payload(list'[j]) = Payload(list[i]),
           \A k \in 1 .. Len(list) \ {i} :
              list[k].used => \E j \in 1 .. Len(list') : list'[j] = list[k]
    PROVE  UsedIsOwned'
<1>1. /\ \A k \in 1 .. Len(list) :
            list[k].used <=> \E c \in owned : c.ptr = Payload(list[k])
      /\ \A c \in owned : \E k \in 1 .. Len(list) :
            Payload(list[k]) = c.ptr /\ list[k].size >= c.size
      /\ \A c, d \in owned : c.ptr = d.ptr => c = d
  BY DEF HInv, UsedIsOwned
<1>2. \A k \in 1 .. Len(list) : Payload(list[k]) = Payload(list[i]) => k = i
  BY PayloadInjective
<1>3. ASSUME NEW j \in 1 .. Len(list')
      PROVE  list'[j].used <=> \E c \in owned' : c.ptr = Payload(list'[j])
  <2>1. CASE \E k \in 1 .. Len(list) \ {i} : list'[j] = list[k]
    <3>1. PICK k \in 1 .. Len(list) \ {i} : list'[j] = list[k]
      BY <2>1
    <3>2. Payload(list'[j]) # b.ptr
      BY <1>2, <3>1
    <3>3. list'[j].used <=> \E c \in owned : c.ptr = Payload(list'[j])
      BY <1>1, <3>1
    <3> QED BY <3>2, <3>3
  <2>2. CASE ~list'[j].used /\ Payload(list'[j]) = Payload(list[i])
    BY <1>1, <2>2
  <2> QED BY <2>1, <2>2
<1>4. ASSUME NEW c \in owned'
      PROVE  \E j \in 1 .. Len(list') :
                Payload(list'[j]) = c.ptr /\ list'[j].size >= c.size
  <2>1. c \in owned /\ c # b
    OBVIOUS
  <2>2. PICK k \in 1 .. Len(list) : Payload(list[k]) = c.ptr /\ list[k].size >= c.size
    BY <1>1, <2>1
  <2>3. k # i /\ list[k].used
    BY <1>1, <2>1, <2>2
  <2> QED BY <2>2, <2>3
<1>5. \A c, d \in owned' : c.ptr = d.ptr => c = d
  BY <1>1
<1> QED BY <1>3, <1>4, <1>5 DEF UsedIsOwned, Payload

-----------------------------------------------------------------------------
(* The steps.                                                              *)

\* kmalloc keeps the invariant, whether it splits a block, takes it whole
\* or finds none.
LEMMA KmallocHInv ==
    ASSUME HInv, NEW n \in Requests, Kmalloc(n)
    PROVE  HInv'
<1>1. PICK i \in 1 .. Len(list) :
        /\ FirstFit(i, n)
        /\ list' = IF list[i].size > n + HeaderSize + MinRest
                   THEN Split(i, n) ELSE [list EXCEPT ![i].used = TRUE]
        /\ owned' = owned \cup {[ptr |-> Payload(list[i]), size |-> n]}
  BY DEF Kmalloc
<1>2. ~list[i].used /\ list[i].size >= n
  BY <1>1 DEF FirstFit
<1>3. HeaderSize \in Nat \ {0} /\ MinRest \in Nat /\ n \in Nat
  BY HeapAssumption
<1>4. /\ Len(list) \in Nat
      /\ \A k \in 1 .. Len(list) : list[k].addr \in Nat /\ list[k].size \in Nat
  BY ListType DEF HInv
<1>5. owned' \subseteq [ptr : Nat, size : Requests]
  <2>1. Payload(list[i]) \in Nat
    BY <1>3, <1>4 DEF Payload
  <2> QED BY <1>1, <2>1 DEF HInv, HTypeOK
<1>6. CASE list[i].size > n + HeaderSize + MinRest
  <2>1. list' = Split(i, n)
    BY <1>1, <1>6
  <2>2. /\ list' \in Seq(Headers)
        /\ Len(list') = Len(list) + 1
        /\ \A j \in 1 .. i - 1 : list'[j] = list[j]
        /\ list'[i] = Header(list[i].addr, n, TRUE)
        /\ list'[i + 1] = Header(Payload(list[i]) + n,
                                 list[i].size - n - HeaderSize, FALSE)
        /\ \A j \in i + 2 .. Len(list) + 1 : list'[j] = list[j - 1]
        /\ Tiling' /\ Ordered'
    BY <1>3, <1>6, <2>1, SplitList
  <2>3. /\ Payload(list'[i]) = Payload(list[i])
        /\ list'[i].used /\ list'[i].size >= n
    BY <1>3, <2>2 DEF Payload, Header
  <2>4. ~list'[i + 1].used /\ \A k \in 1 .. Len(list) :
                                Payload(list'[i + 1]) # Payload(list[k])
    <3>1. list'[i + 1].addr = list[i].addr + HeaderSize + n /\ ~list'[i + 1].used
      BY <2>2 DEF Payload, Header
    <3>2. ASSUME NEW k \in 1 .. Len(list)
          PROVE  list'[i + 1].addr # list[k].addr
      <4>1. CASE k <= i
        <5>1. list[k].addr <= list[i].addr
          <6>1. CASE k = i
            BY <1>4, <6>1
          <6>2. CASE k < i
            <7>1. End(list[k]) <= list[i].addr
              BY <6>2 DEF HInv, Ordered
            <7>2. list[k] \in Headers
              BY ListType DEF HInv
            <7>3. /\ list[k].addr \in Nat /\ End(list[k]) \in Nat
                  /\ list[k].addr < End(list[k])
              BY <7>2, HeaderFacts
            <7>4. \A a, b, c \in Nat : a < b /\ b <= c => a <= c
              OBVIOUS
            <7> QED BY <1>3, <1>4, <7>1, <7>3, <7>4
          <6> QED BY <1>3, <1>4, <4>1, <6>1, <6>2
        <5>2. \A a, b, h, m \in Nat : b <= a /\ h > 0 => a + h + m # b
          OBVIOUS
        <5> QED BY <1>3, <1>4, <3>1, <5>1, <5>2
      <4>2. CASE k > i
        <5>1. End(list[i]) <= list[k].addr
          BY <4>2 DEF HInv, Ordered
        <5>2. End(list[i]) = list[i].addr + HeaderSize + list[i].size
          BY DEF End, Payload
        <5>3. \A a, b, h, m, r, z \in Nat :
                 z > m + h + r /\ a + h + z <= b => a + h + m # b
          OBVIOUS
        <5> QED BY <1>3, <1>4, <1>6, <3>1, <5>1, <5>2, <5>3
      <4> QED BY <1>3, <1>4, <4>1, <4>2
    <3>3. \A k \in 1 .. Len(list) : list'[i + 1].addr \in Nat /\ list[k].addr \in Nat
      BY <1>3, <1>4, <3>1
    <3>4. \A a, b, h \in Nat : a # b => a + h # b + h
      OBVIOUS
    <3> QED BY <1>3, <3>1, <3>2, <3>3, <3>4 DEF Payload
  <2>5. ASSUME NEW j \in 1 .. Len(list')
        PROVE  \/ \E k \in 1 .. Len(list) \ {i} : list'[j] = list[k]
               \/ Payload(list'[j]) = Payload(list[i]) /\ list'[j].used
               \/ ~list'[j].used /\ \A k \in 1 .. Len(list) :
                                       Payload(list'[j]) # Payload(list[k])
    <3>1. CASE j < i
      <4>1. j \in 1 .. i - 1 /\ j \in 1 .. Len(list) \ {i}
        BY <1>4, <3>1
      <4> QED BY <2>2, <4>1
    <3>2. CASE j = i \/ j = i + 1
      BY <2>3, <2>4, <3>2
    <3>3. CASE j > i + 1
      <4>1. j \in i + 2 .. Len(list) + 1 /\ j - 1 \in 1 .. Len(list) \ {i}
        BY <1>4, <2>2, <3>3
      <4> QED BY <2>2, <4>1
    <3> QED BY <1>4, <2>2, <3>1, <3>2, <3>3
  <2>6. ASSUME NEW k \in 1 .. Len(list) \ {i}
        PROVE  \E j \in 1 .. Len(list') : list'[j] = list[k]
    <3>1. CASE k < i
      <4>1. k \in 1 .. i - 1 /\ k \in 1 .. Len(list')
        BY <1>4, <2>2, <3>1
      <4> QED BY <2>2, <4>1
    <3>2. CASE k > i
      <4>1. k + 1 \in i + 2 .. Len(list) + 1 /\ k + 1 \in 1 .. Len(list')
            /\ (k + 1) - 1 = k
        BY <1>4, <2>2, <3>2
      <4> QED BY <2>2, <4>1
    <3> QED BY <3>1, <3>2
  <2>7. i \in 1 .. Len(list')
    BY <1>4, <2>2
  <2>8. UsedIsOwned'
    BY <1>1, <1>2, <2>3, <2>5, <2>6, <2>7, HandOut
  <2> QED BY <1>5, <2>2, <2>8 DEF HInv, HTypeOK, Headers
<1>7. CASE ~(list[i].size > n + HeaderSize + MinRest)
  <2>1. list' = [list EXCEPT ![i].used = TRUE]
    BY <1>1, <1>7
  <2>2. /\ list' \in Seq(Headers)
        /\ Len(list') = Len(list)
        /\ \A j \in 1 .. Len(list) : j # i => list'[j] = list[j]
        /\ list'[i] = [list[i] EXCEPT !.used = TRUE]
        /\ Tiling' /\ Ordered'
    BY <2>1, MarkList
  <2>3. list'[i].addr = list[i].addr /\ list'[i].size = list[i].size /\ list'[i].used
    BY <2>2, ListType DEF HInv, Headers
  <2>4. /\ Payload(list'[i]) = Payload(list[i])
        /\ list'[i].used /\ list'[i].size >= n
    BY <1>2, <2>3 DEF Payload
  <2>5. /\ \A j \in 1 .. Len(list') :
              \/ \E k \in 1 .. Len(list) \ {i} : list'[j] = list[k]
              \/ Payload(list'[j]) = Payload(list[i]) /\ list'[j].used
        /\ \A k \in 1 .. Len(list) \ {i} : \E j \in 1 .. Len(list') : list'[j] = list[k]
        /\ \E j \in 1 .. Len(list') :
              Payload(list'[j]) = Payload(list[i]) /\ list'[j].size >= n
    BY <2>2, <2>4
  <2>6. UsedIsOwned'
    BY <1>1, <1>2, <2>5, HandOut
  <2> QED BY <1>5, <2>2, <2>6 DEF HInv, HTypeOK, Headers
<1> QED BY <1>6, <1>7

\* kfree keeps the invariant, whichever neighbours it merges with.
LEMMA KfreeHInv ==
    ASSUME HInv, NEW b \in owned, Kfree(b)
    PROVE  HInv'
<1>1. PICK i \in 1 .. Len(list) :
        /\ Payload(list[i]) = b.ptr
        /\ list' = IF i < Len(list) /\ ~list[i + 1].used
                   THEN Merge(i) ELSE [list EXCEPT ![i].used = FALSE]
        /\ owned' = owned \ {b}
  BY DEF Kfree
<1>2. Len(list) \in Nat
  BY ListType DEF HInv
<1>3. owned' \subseteq [ptr : Nat, size : Requests]
  BY <1>1 DEF HInv, HTypeOK
<1>4. CASE i < Len(list) /\ ~list[i + 1].used
  <2>1. list' = Merge(i)
    BY <1>1, <1>4
  <2>2. /\ list' \in Seq(Headers)
        /\ Len(list') = Len(list) - 1
        /\ \A j \in 1 .. i - 1 : list'[j] = list[j]
        /\ list'[i] = Header(list[i].addr,
                             list[i].size + HeaderSize + list[i + 1].size, FALSE)
        /\ \A j \in i + 1 .. Len(list) - 1 : list'[j] = list[j + 1]
        /\ Tiling' /\ Ordered'
    BY <1>4, <2>1, MergeList
  <2>3. ~list'[i].used /\ Payload(list'[i]) = Payload(list[i])
    BY <2>2 DEF Payload, Header
  <2>4. ASSUME NEW j \in 1 .. Len(list')
        PROVE  \/ \E k \in 1 .. Len(list) \ {i} : list'[j] = list[k]
               \/ ~list'[j].used /\ Payload(list'[j]) = Payload(list[i])
    <3>1. CASE j < i
      <4>1. j \in 1 .. i - 1 /\ j \in 1 .. Len(list) \ {i}
        BY <1>2, <3>1
      <4> QED BY <2>2, <4>1
    <3>2. CASE j = i
      BY <2>3, <3>2
    <3>3. CASE j > i
      <4>1. j \in i + 1 .. Len(list) - 1 /\ j + 1 \in 1 .. Len(list) \ {i}
        BY <1>2, <2>2, <3>3
      <4> QED BY <2>2, <4>1
    <3> QED BY <1>2, <3>1, <3>2, <3>3
  <2>5. ASSUME NEW k \in 1 .. Len(list) \ {i}, list[k].used
        PROVE  \E j \in 1 .. Len(list') : list'[j] = list[k]
    <3>1. CASE k < i
      <4>1. k \in 1 .. i - 1 /\ k \in 1 .. Len(list')
        BY <1>2, <1>4, <2>2, <3>1
      <4> QED BY <2>2, <4>1
    <3>2. CASE k > i
      <4>1. k # i + 1
        BY <1>4, <2>5
      <4>2. k - 1 \in i + 1 .. Len(list) - 1 /\ k - 1 \in 1 .. Len(list')
            /\ (k - 1) + 1 = k
        BY <1>2, <2>2, <3>2, <4>1
      <4> QED BY <2>2, <4>2
    <3> QED BY <3>1, <3>2
  <2>6. UsedIsOwned'
    BY <1>1, <2>4, <2>5, GiveBack
  <2> QED BY <1>3, <2>2, <2>6 DEF HInv, HTypeOK, Headers
<1>5. CASE ~(i < Len(list) /\ ~list[i + 1].used)
  <2>1. list' = [list EXCEPT ![i].used = FALSE]
    BY <1>1, <1>5
  <2>2. /\ list' \in Seq(Headers)
        /\ Len(list') = Len(list)
        /\ \A j \in 1 .. Len(list) : j # i => list'[j] = list[j]
        /\ list'[i] = [list[i] EXCEPT !.used = FALSE]
        /\ Tiling' /\ Ordered'
    BY <2>1, MarkList
  <2>3. list'[i].addr = list[i].addr /\ list'[i].used = FALSE
    BY <2>2, ListType DEF HInv, Headers
  <2>4. ~list'[i].used /\ Payload(list'[i]) = Payload(list[i])
    BY <2>3 DEF Payload
  <2>5. UsedIsOwned'
    BY <1>1, <2>2, <2>4, GiveBack
  <2> QED BY <1>3, <2>2, <2>5 DEF HInv, HTypeOK, Headers
<1> QED BY <1>4, <1>5

\* What the refinement needs of a step: the place of a block handed out.
LEMMA KmallocPlace ==
    ASSUME HInv, NEW n \in Requests, Kmalloc(n)
    PROVE  \E b \in Abstract!Blocks :
              /\ b.lo <= b.hi
              /\ \A a \in Held : Abstract!Disjoint(a, b)
              /\ Held' = Held \cup {b}
<1>1. PICK i \in 1 .. Len(list) :
        /\ FirstFit(i, n)
        /\ owned' = owned \cup {[ptr |-> Payload(list[i]), size |-> n]}
  BY DEF Kmalloc
<1>2. ~list[i].used /\ list[i].size >= n
  BY <1>1 DEF FirstFit
<1>3. HeaderSize \in Nat \ {0} /\ n \in Nat /\ HeapSize \in Nat
  BY HeapAssumption
<1>4. /\ Len(list) \in Nat
      /\ \A k \in 1 .. Len(list) : list[k].addr \in Nat /\ list[k].size \in Nat
  BY ListType DEF HInv
<1> DEFINE new == [ptr |-> Payload(list[i]), size |-> n]
           b == [lo |-> new.ptr - HeaderSize, hi |-> new.ptr + new.size - 1]
<1>5. b.lo = list[i].addr /\ b.hi = list[i].addr + HeaderSize + n - 1
  BY <1>3, <1>4 DEF Payload
<1>6. End(list[i]) <= HeapSize
  <2>1. CASE i = Len(list)
    <3>1. End(list[i]) = HeapSize
      BY <2>1 DEF HInv, Tiling
    <3> QED BY <1>3, <3>1
  <2>2. CASE i # Len(list)
    <3>1. Len(list) \in 1 .. Len(list) /\ i < Len(list)
      BY <1>4, <2>2
    <3>2. End(list[Len(list)]) = HeapSize
      BY <3>1 DEF HInv, Tiling
    <3>3. End(list[i]) <= list[Len(list)].addr
      BY <3>1 DEF HInv, Ordered
    <3>4. list[Len(list)] \in Headers
      BY <1>4, ListType DEF HInv
    <3>5. /\ list[Len(list)].addr \in Nat
          /\ list[Len(list)].addr < End(list[Len(list)])
      BY <3>4, HeaderFacts
    <3>6. \A x, y, z \in Nat : x <= y /\ y < z => x <= z
      OBVIOUS
    <3>7. End(list[i]) \in Nat /\ HeapSize \in Nat
      BY ListType, HeaderFacts, HeapAssumption DEF HInv
    <3> QED BY <3>2, <3>3, <3>5, <3>6, <3>7
  <2> QED BY <2>1, <2>2
<1>7. list[i].addr + HeaderSize + n <= End(list[i])
  BY <1>2, <1>3, <1>4 DEF End, Payload
<1>8. b.lo \in 0 .. HeapSize /\ b.hi \in 0 .. HeapSize /\ b.lo <= b.hi
  <2>1. End(list[i]) \in Nat
    BY <1>3, <1>4 DEF End, Payload
  <2> QED BY <1>3, <1>4, <1>5, <1>6, <1>7, <2>1
<1>9. b \in Abstract!Blocks
  BY <1>8 DEF Abstract!Blocks
<1>10. ASSUME NEW a \in Held
       PROVE  Abstract!Disjoint(a, b)
  <2>1. PICK c \in owned : a = [lo |-> c.ptr - HeaderSize, hi |-> c.ptr + c.size - 1]
    BY DEF Held
  <2>2. PICK k \in 1 .. Len(list) : Payload(list[k]) = c.ptr /\ list[k].size >= c.size
    BY DEF HInv, UsedIsOwned
  <2>3. k # i
    BY <1>2, <2>2 DEF HInv, UsedIsOwned
  <2>4. c.ptr \in Nat /\ c.size \in Nat
    BY HeapAssumption DEF HInv, HTypeOK
  <2>5. /\ a.lo = list[k].addr /\ a.hi < End(list[k])
        /\ a.lo \in Int /\ a.hi \in Int
    <3>1. a.lo = c.ptr - HeaderSize /\ a.hi = c.ptr + c.size - 1
      BY <2>1
    <3>2. c.ptr = list[k].addr + HeaderSize
      BY <2>2 DEF Payload
    <3>3. End(list[k]) = list[k].addr + HeaderSize + list[k].size
      BY DEF Payload, End
    <3>4. list[k].addr \in Nat /\ list[k].size \in Nat /\ list[k].size >= c.size
      BY <1>4, <2>2
    <3> HIDE DEF b, new
    <3> DEFINE x == list[k].addr
               z == list[k].size
    <3>5. x \in Nat /\ z \in Nat /\ HeaderSize \in Nat /\ c.size \in Nat /\ z >= c.size
      BY <1>3, <2>4, <3>4
    <3> HIDE DEF x, z
    <3>6. \A p, h, m, y \in Nat : y >= m =>
             /\ p + h - h = p /\ p + h + m - 1 < p + h + y
             /\ p + h + m - 1 \in Int
      OBVIOUS
    <3>7. /\ x + HeaderSize - HeaderSize = x
          /\ x + HeaderSize + c.size - 1 < x + HeaderSize + z
          /\ x + HeaderSize + c.size - 1 \in Int
      BY <3>5, <3>6
    <3> QED BY <3>1, <3>2, <3>3, <3>5, <3>7 DEF x, z
  <2>6. End(list[i]) \in Nat /\ End(list[k]) \in Nat
    BY ListType, HeaderFacts DEF HInv
  <2>7. (k < i => End(list[k]) <= list[i].addr) /\ (i < k => End(list[i]) <= list[k].addr)
    BY DEF HInv, Ordered
  <2>8. CASE k < i
    <3>1. a.hi < b.lo
      <4>1. \A p \in Int : \A q, r \in Nat : p < q /\ q <= r => p < r
        OBVIOUS
      <4>2. list[i].addr \in Nat
        BY <1>4
      <4> QED BY <1>5, <2>5, <2>6, <2>7, <2>8, <4>1, <4>2
    <3> QED BY <3>1 DEF Abstract!Disjoint
  <2>9. CASE i < k
    <3>1. b.hi < a.lo
      <4>1. \A x, h, m, p, q \in Nat : x + h + m <= p /\ p <= q => x + h + m - 1 < q
        OBVIOUS
      <4>2. list[i].addr \in Nat /\ list[k].addr \in Nat
        BY <1>4
      <4> QED BY <1>3, <1>5, <1>7, <2>5, <2>6, <2>7, <2>9, <4>1, <4>2
    <3> QED BY <3>1 DEF Abstract!Disjoint
  <2> QED BY <1>4, <2>3, <2>8, <2>9
<1>11. Held' = Held \cup {b}
  BY <1>1 DEF Held
<1> QED BY <1>8, <1>9, <1>10, <1>11

\* Giving back one block takes exactly one from the abstract allocator.
LEMMA KfreePlace ==
    ASSUME HInv, NEW b \in owned, Kfree(b)
    PROVE  \E a \in Held : Held' = Held \ {a}
<1> DEFINE place(c) == [lo |-> c.ptr - HeaderSize, hi |-> c.ptr + c.size - 1]
<1>1. owned' = owned \ {b}
  BY DEF Kfree
<1>2. Held = {place(c) : c \in owned} /\ Held' = {place(c) : c \in owned'}
  BY DEF Held
<1>3. ASSUME NEW c \in owned, NEW d \in owned, place(c) = place(d)
      PROVE  c = d
  <2>1. c.ptr - HeaderSize = d.ptr - HeaderSize
    BY <1>3
  <2>2. c.ptr \in Nat /\ d.ptr \in Nat /\ HeaderSize \in Nat
    BY HeapAssumption DEF HInv, HTypeOK
  <2>3. c.ptr = d.ptr
    BY <2>1, <2>2
  <2> QED BY <2>3 DEF HInv, UsedIsOwned
<1> HIDE DEF place
<1>4. Held' = Held \ {place(b)}
  BY <1>1, <1>2, <1>3
<1> QED BY <1>2, <1>4

-----------------------------------------------------------------------------

\* Every step of the heap keeps the invariant.
LEMMA NextHInv == HInv /\ [HNext]_hvars => HInv'
<1> SUFFICES ASSUME HInv, [HNext]_hvars PROVE HInv'
  OBVIOUS
<1>1. CASE Malloc
  BY <1>1, KmallocHInv DEF Malloc
<1>2. CASE Free
  BY <1>2, KfreeHInv DEF Free
<1>3. CASE UNCHANGED hvars
  <2>1. list' = list /\ owned' = owned
    BY <1>3 DEF hvars
  <2> QED BY <2>1 DEF HInv, HTypeOK, Tiling, Ordered, UsedIsOwned
<1> QED BY <1>1, <1>2, <1>3 DEF HNext

\* The blocks stay ordered, typed, tiling and owned, in every reachable state.
THEOREM HeapInvariance == HSpec => []HInv
  BY InitHInv, NextHInv, PTL DEF HSpec

\* Every header holds natural numbers: the split's and the merge's arithmetic
\* never wraps.
THEOREM HeapTypeCorrect == HSpec => []HTypeOK
<1>1. HInv => HTypeOK
  BY DEF HInv
<1> QED BY <1>1, HeapInvariance, PTL

\* The blocks tile the heap after any sequence of kmalloc and kfree.
THEOREM TilingSafety == HSpec => []Tiling
<1>1. HInv => Tiling
  BY DEF HInv
<1> QED BY <1>1, HeapInvariance, PTL

\* Exactly the used blocks are in callers' hands, and each is large enough.
THEOREM OwnershipSafety == HSpec => []UsedIsOwned
<1>1. HInv => UsedIsOwned
  BY DEF HInv
<1> QED BY <1>1, HeapInvariance, PTL

\* kmalloc and kfree keep the promise of Allocator: what is handed out lies in
\* the heap and overlaps nothing that somebody holds.
THEOREM HeapIsAllocator == HSpec => IsAllocator
<1>1. HInit => Abstract!Init
  BY DEF HInit, Abstract!Init, Held
<1>2. HInv /\ [HNext]_hvars => [Abstract!Next]_Held
  <2> SUFFICES ASSUME HInv, [HNext]_hvars PROVE [Abstract!Next]_Held
    OBVIOUS
  <2>1. CASE Malloc
    BY <2>1, KmallocPlace DEF Malloc, Abstract!Next, Abstract!Malloc
  <2>2. CASE Free
    BY <2>2, KfreePlace DEF Free, Abstract!Next, Abstract!Free
  <2>3. CASE UNCHANGED hvars
    BY <2>3 DEF hvars, Held
  <2> QED BY <2>1, <2>2, <2>3 DEF HNext
<1> QED BY <1>1, <1>2, HeapInvariance, PTL DEF HSpec, IsAllocator, Abstract!Spec
=============================================================================
