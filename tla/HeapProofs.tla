------------------------------ MODULE HeapProofs ------------------------------
(***************************************************************************)
(* Proofs about the heap, for heaps of any length, any number of cores and *)
(* any sizes and values.                                                   *)
(***************************************************************************)
EXTENDS Heap, FiniteSetTheorems, TLAPS

Mem(n) == [0 .. n - 1 -> Int]

(***************************************************************************)
(* Blocks.                                                                 *)
(***************************************************************************)

\* A header holds the size of its block or, of a taken one, minus the size.
LEMMA Sizes == ASSUME NEW n \in Nat, NEW m \in Mem(n), NEW i \in 0 .. n - 1
               PROVE  /\ Size(m, i) \in Nat /\ m[i] \in Int
                      /\ m[i] = Size(m, i) \/ m[i] = -Size(m, i)
BY DEF Mem, Size

\* Where the words of a block are, and that two blocks share none.
LEMMA Spans ==
    ASSUME NEW n \in Nat, NEW m \in Mem(n), NEW B \in SUBSET (0 .. n - 1), Tiles(m, B, n), NEW b \in B
    PROVE  /\ b \in Nat /\ Size(m, b) \in Nat /\ Size(m, b) >= 2 /\ b + Size(m, b) <= n
           /\ Right(m, b) = b + Size(m, b) /\ m[b + Size(m, b) - 1] = m[b]
           /\ \A d \in B : d # b => b + Size(m, b) <= d \/ d + Size(m, d) <= b
<1>1. \A d \in B : Size(m, d) \in Nat /\ d \in 0 .. n - 1
  BY Sizes
<1>2. Right(m, b) = b + Size(m, b) /\ \A d \in B : Right(m, d) = d + Size(m, d)
  BY DEF Right
<1>3. Size(m, b) >= 2 /\ Right(m, b) \in B \cup {n} /\ m[b + Size(m, b) - 1] = m[b]
  BY DEF Tiles
<1>4. \A c, d \in B : c < d => Right(m, c) <= d
  BY DEF Tiles
<1>5. b + Size(m, b) <= n
  BY <1>1, <1>2, <1>3
<1>6. \A d \in B : d # b => b + Size(m, b) <= d \/ d + Size(m, d) <= b
  BY <1>1, <1>2, <1>4
<1> QED
  BY <1>1, <1>2, <1>3, <1>5, <1>6

\* A block that is not the first one has a block on its left, which says how long it is.
LEMMA LeftOf ==
    ASSUME NEW n \in Nat, NEW m \in Mem(n), NEW B \in SUBSET (0 .. n - 1), Tiles(m, B, n),
           NEW b \in B, b # 0
    PROVE  /\ Left(m, b) \in B /\ Right(m, Left(m, b)) = b /\ Left(m, b) < b
           /\ IsAvail(m, Left(m, b)) <=> m[b - 1] > 0
<1>1. PICK d \in B : Right(m, d) = b
  BY DEF Tiles
<1>2. /\ d \in Nat /\ Size(m, d) \in Nat /\ Size(m, d) >= 2 /\ b = d + Size(m, d)
      /\ m[d + Size(m, d) - 1] = m[d]
  BY <1>1, Spans
<1>3. m[b - 1] = m[d] /\ d < b
  BY <1>2
<1>4. Size(m, b - 1) = Size(m, d)
  BY <1>3 DEF Size
<1>5. Left(m, b) = d
  BY <1>2, <1>4 DEF Left
<1> QED
  BY <1>1, <1>3, <1>5 DEF IsAvail

\* The blocks stay as they are when a memory says the same of all of them.
LEMMA Kept ==
    ASSUME NEW n \in Nat, NEW m \in Mem(n), NEW B \in SUBSET (0 .. n - 1), Tiles(m, B, n),
           NEW q \in Mem(n),
           \A b \in B : Size(q, b) = Size(m, b) /\ q[b + Size(m, b) - 1] = q[b]
    PROVE  Tiles(q, B, n)
BY DEF Tiles, Right

\* The blocks of X begin and end in q as they do in m.
SameBorders(q, m, X) == \A b \in X : q[b] = m[b] /\ q[b + Size(m, b) - 1] = m[b + Size(m, b) - 1]

\* A block is cut in two.
LEMMA Cut ==
    ASSUME NEW n \in Nat, NEW m \in Mem(n), NEW B \in SUBSET (0 .. n - 1), Tiles(m, B, n),
           NEW q \in Mem(n), NEW i \in B, NEW k \in Nat, k >= 2, NEW e \in Nat, e >= 2, Size(m, i) = k + e,
           Size(q, i) = k, q[i + k - 1] = q[i], Size(q, i + k) = e, q[i + k + e - 1] = q[i + k],
           SameBorders(q, m, B \ {i})
    PROVE  /\ Tiles(q, B \cup {i + k}, n) /\ i + k \in (0 .. n - 1) \ B
           /\ \A b \in B \ {i} : Size(q, b) = Size(m, b)
<1>a. \A b \in B : /\ b \in Nat /\ Size(m, b) \in Nat /\ Size(m, b) >= 2 /\ b + Size(m, b) <= n
                   /\ Right(m, b) = b + Size(m, b) /\ m[b + Size(m, b) - 1] = m[b]
                   /\ \A d \in B : d # b => b + Size(m, b) <= d \/ d + Size(m, d) <= b
  BY Spans
<1>b. \A b \in B : /\ b + Size(m, b) \in B \cup {n}
                   /\ b # 0 => \E d \in B : d + Size(m, d) = b
  BY <1>a DEF Tiles
<1>s. \A b \in B \ {i} : q[b] = m[b] /\ q[b + Size(m, b) - 1] = m[b + Size(m, b) - 1]
  BY DEF SameBorders
<1>1. \A b \in B \ {i} : Size(q, b) = Size(m, b)
  BY <1>s DEF Size
<1>2. i + k \in (0 .. n - 1) \ B
  <2>1. i + k \in 0 .. n - 1
    BY <1>a
  <2>2. i + k \notin B
    BY <1>a
  <2> QED
    BY <2>1, <2>2
<1>3. \A b : Right(q, b) = b + Size(q, b)
  BY DEF Right
<1>4. ASSUME NEW b \in B \cup {i + k}
      PROVE  /\ Size(q, b) >= 2 /\ q[b + Size(q, b) - 1] = q[b]
             /\ b + Size(q, b) \in (B \cup {i + k}) \cup {n}
             /\ \A d \in B \cup {i + k} : b < d => b + Size(q, b) <= d
             /\ b # 0 => \E d \in B \cup {i + k} : d + Size(q, d) = b
  <2>1. CASE b = i
    <3>1. \A d \in B : b < d => b + k <= d
      BY <1>a, <2>1
    <3>2. b # 0 => \E d \in B \ {i} : d + Size(m, d) = b
      BY <1>a, <1>b, <2>1
    <3> QED
      BY <1>1, <2>1, <3>1, <3>2
  <2>2. CASE b = i + k
    <3>1. b + e = i + Size(m, i) /\ b + Size(q, b) = b + e
      BY <1>a, <2>2
    <3>2. b + Size(q, b) \in B \cup {n}
      BY <1>b, <3>1
    <3>3. \A d \in B : b < d => b + e <= d
      BY <1>a, <2>2, <3>1
    <3> QED
      BY <2>2, <3>1, <3>2, <3>3
  <2>3. CASE b \in B \ {i}
    <3>1. Size(q, b) = Size(m, b) /\ q[b] = m[b] /\ q[b + Size(m, b) - 1] = m[b + Size(m, b) - 1]
      BY <1>1, <1>s, <2>3
    <3>2. b + Size(q, b) \in B \cup {n}
      BY <1>b, <2>3, <3>1
    <3>3. \A d \in B \cup {i + k} : b < d => b + Size(q, b) <= d
      BY <1>a, <2>3, <3>1
    <3>4. b # 0 => \E d \in B \cup {i + k} : d + Size(q, d) = b
      <4> SUFFICES ASSUME b # 0 PROVE \E d \in B \cup {i + k} : d + Size(q, d) = b
        OBVIOUS
      <4>1. PICK d \in B : d + Size(m, d) = b
        BY <1>b, <2>3
      <4>2. CASE d = i
        BY <1>a, <4>1, <4>2
      <4>3. CASE d # i
        BY <1>1, <4>1, <4>3
      <4> QED
        BY <4>2, <4>3
    <3>5. Size(q, b) >= 2 /\ q[b + Size(q, b) - 1] = q[b]
      BY <1>a, <2>3, <3>1
    <3> QED
      BY <3>2, <3>3, <3>4, <3>5
  <2> QED
    BY <2>1, <2>2, <2>3
<1> QED
  BY <1>1, <1>2, <1>3, <1>4 DEF Tiles

\* The blocks of B that are not among the k words at i.
Outside(B, i, k) == {b \in B : b < i \/ i + k <= b}

\* The block at i becomes one of k words, and takes in the blocks in between.
LEMMA Merge ==
    ASSUME NEW n \in Nat, NEW m \in Mem(n), NEW B \in SUBSET (0 .. n - 1), Tiles(m, B, n),
           NEW q \in Mem(n), NEW i \in B, NEW k \in Nat, k >= 2, i + k \in B \cup {n},
           Size(q, i) = k, q[i + k - 1] = q[i],
           SameBorders(q, m, Outside(B, i, k))
    PROVE  Tiles(q, Outside(B, i, k) \cup {i}, n) /\ \A b \in Outside(B, i, k) : Size(q, b) = Size(m, b)
<1>0. PICK X : X = Outside(B, i, k)
  OBVIOUS
<1>a. \A b \in B : /\ b \in Nat /\ Size(m, b) \in Nat /\ Size(m, b) >= 2 /\ b + Size(m, b) <= n
                   /\ Right(m, b) = b + Size(m, b) /\ m[b + Size(m, b) - 1] = m[b]
                   /\ \A d \in B : d # b => b + Size(m, b) <= d \/ d + Size(m, d) <= b
  BY Spans
<1>b. \A b \in B : /\ b + Size(m, b) \in B \cup {n}
                   /\ b # 0 => \E d \in B : d + Size(m, d) = b
  BY <1>a DEF Tiles
<1>s. \A b \in X : q[b] = m[b] /\ q[b + Size(m, b) - 1] = m[b + Size(m, b) - 1]
  BY <1>0 DEF SameBorders
<1>1. \A b \in X : Size(q, b) = Size(m, b)
  BY <1>s DEF Size
<1>2. i \in B /\ i \in Nat /\ k \in Nat /\ k >= 2 /\ n \in Nat /\ i + k \in B \cup {n}
  BY <1>a
<1>3. \A b : Right(q, b) = b + Size(q, b)
  BY DEF Right
<1>x. \A b : b \in X <=> b \in B /\ (b < i \/ i + k <= b)
  BY <1>0 DEF Outside
<1>4. ASSUME NEW b \in X \cup {i}
      PROVE  /\ Size(q, b) >= 2 /\ q[b + Size(q, b) - 1] = q[b]
             /\ b + Size(q, b) \in (X \cup {i}) \cup {n}
             /\ \A d \in X \cup {i} : b < d => b + Size(q, b) <= d
             /\ b # 0 => \E d \in X \cup {i} : d + Size(q, d) = b
  <2>1. CASE b = i
    <3>0. Size(q, b) = k /\ q[b + k - 1] = q[b]
      BY <2>1
    <3>1. b + k \in (X \cup {i}) \cup {n}
      BY ONLY <1>2, <1>x, <2>1
    <3>2. \A d \in X \cup {i} : b < d => b + k <= d
      BY ONLY <1>2, <1>x, <1>a, <2>1
    <3>3. b # 0 => \E d \in X : d + Size(m, d) = b
      <4> SUFFICES ASSUME b # 0 PROVE \E d \in X : d + Size(m, d) = b
        OBVIOUS
      <4>1. PICK d \in B : d + Size(m, d) = b
        BY <1>b, <1>2, <2>1
      <4>2. d \in X
        BY ONLY <1>2, <1>a, <1>x, <2>1, <4>1, d \in B
      <4> QED
        BY <4>1, <4>2
    <3> QED
      BY <1>1, <1>2, <3>0, <3>1, <3>2, <3>3
  <2>2. CASE b \in X
    <3>0. b \in B /\ b \in Nat /\ (b < i \/ i + k <= b)
      BY <1>a, <1>x, <2>2
    <3>1. Size(q, b) = Size(m, b) /\ q[b] = m[b] /\ q[b + Size(m, b) - 1] = m[b + Size(m, b) - 1]
      BY <1>1, <1>s, <2>2
    <3>2. b + Size(m, b) \in (X \cup {i}) \cup {n}
      <4>1. b + Size(m, b) \in B \cup {n}
        BY ONLY <1>b, <3>0
      <4>2. CASE b < i
        <5>1. b + Size(m, b) <= i
          BY ONLY <1>a, <1>2, <3>0, <4>2
        <5> QED
          BY ONLY <1>a, <1>2, <1>x, <3>0, <4>1, <5>1
      <4>3. CASE i + k <= b
        <5>1. i + k <= b + Size(m, b)
          BY ONLY <1>a, <1>2, <3>0, <4>3
        <5> QED
          BY ONLY <1>x, <4>1, <5>1
      <4> QED
        BY <3>0, <4>2, <4>3
    <3>3. \A d \in X \cup {i} : b < d => b + Size(m, b) <= d
      BY ONLY <1>a, <1>2, <1>x, <3>0
    <3>4. b # 0 => \E d \in X \cup {i} : d + Size(q, d) = b
      <4> SUFFICES ASSUME b # 0 PROVE \E d \in X \cup {i} : d + Size(q, d) = b
        OBVIOUS
      <4>1. PICK d \in B : d + Size(m, d) = b
        BY <1>b, <3>0
      <4>2. CASE d \in X
        BY <1>1, <4>1, <4>2
      <4>3. CASE d \notin X
        <5>1. d \in Nat /\ Size(m, d) \in Nat /\ i <= d /\ d < i + k
          BY ONLY <1>a, <1>2, <1>x, <4>3, d \in B
        <5>2. d + Size(m, d) <= i + k
          <6>1. CASE i + k \in B
            BY ONLY <1>a, <1>2, <5>1, <6>1, d \in B
          <6>2. CASE i + k = n
            BY ONLY <1>a, <6>2, d \in B
          <6> QED
            BY <1>2, <6>1, <6>2
        <5>3. b = i + k
          BY ONLY <1>a, <1>2, <3>0, <4>1, <5>1, <5>2, d \in B
        <5> QED
          BY <5>3
      <4> QED
        BY <4>2, <4>3
    <3>5. Size(q, b) >= 2 /\ q[b + Size(q, b) - 1] = q[b]
      BY <1>a, <3>0, <3>1
    <3> QED
      BY <3>1, <3>2, <3>3, <3>4, <3>5
  <2> QED
    BY <2>1, <2>2
<1> QED
  BY <1>0, <1>1, <1>3, <1>4 DEF Tiles

(***************************************************************************)
(* The list.                                                               *)
(***************************************************************************)

\* A list of blocks that do not come near one another's links.
Spaced(o) ==
    \A j, k \in DOMAIN o : j # k => o[j] + 4 <= o[k] \/ o[k] + 4 <= o[j]

FirstOf(o) == IF o = <<>> THEN 0 ELSE o[1]

\* A memory that differs from m at most in the links of the blocks of o.
OnlyLinks(q, m, o) ==
    \A w \in DOMAIN m : (\A k \in DOMAIN o : w # o[k] + 1 /\ w # o[k] + 2) => q[w] = m[w]

\* What is used of sequences: their length, their domain and their elements.
LEMMA Lists ==
    ASSUME NEW S, NEW o \in Seq(S)
    PROVE  /\ Len(o) \in Nat /\ DOMAIN o = 1 .. Len(o) /\ (o = <<>> <=> Len(o) = 0)
           /\ o \in [1 .. Len(o) -> S] /\ \A k \in 1 .. Len(o) : o[k] \in S
OBVIOUS

\* A function on 1 .. k is a sequence of k elements.
LEMMA Made ==
    ASSUME NEW S, NEW k \in Nat, NEW s \in [1 .. k -> S]
    PROVE  s \in Seq(S) /\ Len(s) = k /\ DOMAIN s = 1 .. k
OBVIOUS

Elements(o) == {o[k] : k \in DOMAIN o}

Members(o, l) == {o[j] : j \in 1 .. l}

Row(l, n) == [1 .. l -> 1 .. n - 4]

Once(o, l) == \A j, h \in 1 .. l : o[j] = o[h] => j = h

\* What is left of a list without one of its blocks.
LEMMA Shorter ==
    ASSUME NEW S, NEW o \in Seq(S), Once(o, Len(o)), NEW k \in DOMAIN o
    PROVE  LET p == Without(o, o[k]) IN
           /\ p \in Seq(S) /\ Len(p) = Len(o) - 1 /\ DOMAIN p = 1 .. Len(o) - 1
           /\ \A j \in DOMAIN p : p[j] = IF j < k THEN o[j] ELSE o[j + 1]
<1> DEFINE p == Without(o, o[k])
<1>0. \A j, l \in DOMAIN o : o[j] = o[l] => j = l
  BY Lists DEF Once
<1>1. (CHOOSE l \in DOMAIN o : o[l] = o[k]) = k
  BY <1>0
<1>2. p = [j \in 1 .. Len(o) - 1 |-> IF j < k THEN o[j] ELSE o[j + 1]]
  BY <1>1 DEF Without
<1>3. Len(o) \in Nat /\ DOMAIN o = 1 .. Len(o) /\ \A j \in 1 .. Len(o) : o[j] \in S
  BY Lists
<1>4. Len(o) - 1 \in Nat /\ p \in [1 .. Len(o) - 1 -> S]
  BY <1>2, <1>3
<1>5. p \in Seq(S) /\ Len(p) = Len(o) - 1 /\ DOMAIN p = 1 .. Len(o) - 1
  BY <1>4, Made
<1> HIDE DEF p
<1>6. \A j \in DOMAIN p : p[j] = IF j < k THEN o[j] ELSE o[j + 1]
  BY <1>2, <1>5
<1> QED
  BY <1>5, <1>6 DEF p

\* The memory when the block i has left the list.
Unlinked(m, i) == Link(Link(m, m[i + 2], 1, m[i + 1]), m[i + 1], 2, m[i + 2])

\* The helpers, by the parts of the heap.
IsHeap(h) == DOMAIN h = {"array", "avail", "blocks", "order"}

\* What remove(i) makes of each part of the heap.
LEMMA RemoveParts ==
    ASSUME NEW h, IsHeap(h), NEW i
    PROVE  LET m == h.array
               g == Remove(h, i)
           IN  /\ IsHeap(g)
               /\ g.array = Unlinked(m, i)
               /\ g.avail = IF m[i + 2] = 0 THEN m[i + 1] ELSE h.avail
               /\ g.blocks = h.blocks
               /\ g.order = Without(h.order, i)
BY DEF IsHeap, Remove, PrevOf, NextOf, Unlinked

\* What makeAvail(i, k) makes of each part of the heap.
LEMMA MakeAvailParts ==
    ASSUME NEW h, IsHeap(h), NEW i, NEW k
    PROVE  LET g == MakeAvail(h, i, k) IN
           /\ IsHeap(g)
           /\ g.array = Link([Stamp(h.array, i, k, k) EXCEPT ![i + 1] = h.avail, ![i + 2] = 0], h.avail, 2, i)
           /\ g.avail = i /\ g.blocks = h.blocks \cup {i} /\ g.order = <<i>> \o h.order
BY DEF IsHeap, MakeAvail

\* What makeTaken(i, k) makes of each part of the heap.
LEMMA MakeTakenParts ==
    ASSUME NEW h, IsHeap(h), NEW i, NEW k
    PROVE  LET g == MakeTaken(h, i, k) IN
           /\ IsHeap(g)
           /\ g.array = Stamp(h.array, i, -k, k)
           /\ g.avail = h.avail /\ g.blocks = h.blocks \cup {i} /\ g.order = h.order
BY DEF IsHeap, MakeTaken

\* The words of the memory m say that the list o of l blocks is linked.
Chained(m, o, l) ==
    \A j \in 1 .. l : /\ m[o[j] + 1] = IF j = l THEN 0 ELSE o[j + 1]
                     /\ m[o[j] + 2] = IF j = 1 THEN 0 ELSE o[j - 1]

\* No two of the first l blocks of o come near one another's links.
Spread(o, l) ==
    \A j, h \in 1 .. l : j # h => o[j] + 4 <= o[h] \/ o[h] + 4 <= o[j]

\* The list p is the list o, of l blocks, without the one at place k.
Skips(p, o, l, k) ==
    \A j \in 1 .. l - 1 : p[j] = IF j < k THEN o[j] ELSE o[j + 1]

\* The links of all blocks but the one at place k, when that has left the list.
Bypassed(q, o, l, k) ==
    \A j \in 1 .. l : j # k =>
        /\ q[o[j] + 1] = IF j = k - 1 THEN (IF k = l THEN 0 ELSE o[k + 1])
                         ELSE IF j = l THEN 0 ELSE o[j + 1]
        /\ q[o[j] + 2] = IF j = k + 1 THEN (IF k = 1 THEN 0 ELSE o[k - 1])
                         ELSE IF j = 1 THEN 0 ELSE o[j - 1]

\* A block leaves the list: its neighbours before and after it in the list are linked.
LEMMA UnlinkWords ==
    ASSUME NEW n \in Nat, NEW m \in Mem(n), NEW l \in Nat, NEW o \in Row(l, n),
           Spread(o, l), Chained(m, o, l), NEW k \in 1 .. l, NEW q, q = Unlinked(m, o[k])
    PROVE  /\ q \in Mem(n)
           /\ OnlyLinks(q, m, o)
           /\ Bypassed(q, o, l, k)
<1>0. n \in Nat /\ l \in Nat /\ k \in 1 .. l /\ \A j \in 1 .. l : o[j] \in 1 .. n - 4
  BY DEF Row
<1>a. \A j, h \in 1 .. l : j # h => o[j] + 4 <= o[h] \/ o[h] + 4 <= o[j]
  BY DEF Spread
<1>c. \A j \in 1 .. l : /\ m[o[j] + 1] = IF j = l THEN 0 ELSE o[j + 1]
                        /\ m[o[j] + 2] = IF j = 1 THEN 0 ELSE o[j - 1]
  BY DEF Chained
<1>p. PICK before, after : before = m[o[k] + 2] /\ after = m[o[k] + 1]
  OBVIOUS
<1>b. m \in Mem(n) /\ q = Link(Link(m, before, 1, after), after, 2, before)
  BY <1>p DEF Unlinked
<1>1. /\ before = IF k = 1 THEN 0 ELSE o[k - 1]
      /\ after = IF k = l THEN 0 ELSE o[k + 1]
  BY ONLY <1>0, <1>c, <1>p
<1>2. /\ before # 0 <=> k # 1
      /\ after # 0 <=> k # l
  BY ONLY <1>0, <1>1
<1>3. /\ before \in Int /\ after \in Int
      /\ before # 0 => before + 1 \in 0 .. n - 1
      /\ after # 0 => after + 2 \in 0 .. n - 1
  BY ONLY <1>0, <1>1
<1>4. /\ q \in Mem(n)
      /\ \A w \in 0 .. n - 1 : q[w] = IF after # 0 /\ w = after + 2 THEN before
                                      ELSE IF before # 0 /\ w = before + 1 THEN after
                                      ELSE m[w]
  <2>1. PICK u : u = Link(m, before, 1, after)
    OBVIOUS
  <2>2. /\ u \in Mem(n)
        /\ \A w \in 0 .. n - 1 : u[w] = IF before # 0 /\ w = before + 1 THEN after ELSE m[w]
    BY ONLY <1>0, <1>b, <1>3, <2>1 DEF Link, Mem
  <2>3. q = Link(u, after, 2, before)
    BY <1>b, <2>1
  <2>4. /\ q \in Mem(n)
        /\ \A w \in 0 .. n - 1 : q[w] = IF after # 0 /\ w = after + 2 THEN before ELSE u[w]
    BY ONLY <1>0, <1>3, <2>2, <2>3 DEF Link, Mem
  <2> QED
    BY <2>2, <2>4
<1>5. ASSUME NEW w \in 0 .. n - 1, \A j \in 1 .. l : w # o[j] + 1 /\ w # o[j] + 2
      PROVE  q[w] = m[w]
  <2>1. after # 0 => w # after + 2
    BY ONLY <1>0, <1>1, <1>5
  <2>2. before # 0 => w # before + 1
    BY ONLY <1>0, <1>1, <1>5
  <2> QED
    BY <1>4, <2>1, <2>2
<1>6. ASSUME NEW j \in 1 .. l, j # k
      PROVE  /\ q[o[j] + 1] = IF j = k - 1 THEN after ELSE m[o[j] + 1]
             /\ q[o[j] + 2] = IF j = k + 1 THEN before ELSE m[o[j] + 2]
  <2>j. j \in 1 .. l /\ j # k
    BY <1>6
  <2>0. o[j] + 1 \in 0 .. n - 1 /\ o[j] + 2 \in 0 .. n - 1
    BY <1>0
  <2>1. after # 0 => (o[j] + 1 # after + 2 /\ (o[j] + 2 = after + 2 <=> j = k + 1))
    <3> SUFFICES ASSUME after # 0
                 PROVE  o[j] + 1 # after + 2 /\ (o[j] + 2 = after + 2 <=> j = k + 1)
      OBVIOUS
    <3>1. k + 1 \in 1 .. l /\ after = o[k + 1]
      BY ONLY <1>0, <1>1, after # 0
    <3>2. o[j] \in Int /\ o[k + 1] \in Int
      BY ONLY <1>0, <2>j, <3>1
    <3>3. j # k + 1 => o[j] + 4 <= o[k + 1] \/ o[k + 1] + 4 <= o[j]
      BY ONLY <1>a, <2>j, <3>1
    <3> QED
      BY ONLY <3>1, <3>2, <3>3
  <2>2. before # 0 => (o[j] + 2 # before + 1 /\ (o[j] + 1 = before + 1 <=> j = k - 1))
    <3> SUFFICES ASSUME before # 0
                 PROVE  o[j] + 2 # before + 1 /\ (o[j] + 1 = before + 1 <=> j = k - 1)
      OBVIOUS
    <3>1. k - 1 \in 1 .. l /\ before = o[k - 1]
      BY ONLY <1>0, <1>1, before # 0
    <3>2. o[j] \in Int /\ o[k - 1] \in Int
      BY ONLY <1>0, <2>j, <3>1
    <3>3. j # k - 1 => o[j] + 4 <= o[k - 1] \/ o[k - 1] + 4 <= o[j]
      BY ONLY <1>a, <2>j, <3>1
    <3>4. CASE j = k - 1
      BY ONLY <3>1, <3>2, <3>4
    <3>5. CASE j # k - 1
      BY ONLY <3>1, <3>2, <3>3, <3>5
    <3> QED
      BY ONLY <3>4, <3>5
  <2>3. (j = k + 1 => after # 0) /\ (j = k - 1 => before # 0)
    BY <1>2
  <2> QED
    BY <1>4, <2>0, <2>1, <2>2, <2>3
<1>7. Bypassed(q, o, l, k)
  BY ONLY <1>1, <1>6, <1>c DEF Bypassed
<1>8. OnlyLinks(q, m, o)
  <2>1. DOMAIN m = 0 .. n - 1 /\ DOMAIN o = 1 .. l
    BY DEF Mem, Row
  <2> QED
    BY ONLY <1>5, <2>1 DEF OnlyLinks
<1> QED
  BY <1>4, <1>7, <1>8

\* Then the list without it is linked.
LEMMA UnlinkLinks ==
    ASSUME NEW l \in Nat, NEW k \in 1 .. l, NEW o, NEW p, NEW q,
           Bypassed(q, o, l, k), Skips(p, o, l, k)
    PROVE  Chained(q, p, l - 1)
<1>p. PICK before, after : /\ before = IF k = 1 THEN 0 ELSE o[k - 1]
                           /\ after = IF k = l THEN 0 ELSE o[k + 1]
  OBVIOUS
<1>b. \A j \in 1 .. l : j # k =>
          /\ q[o[j] + 1] = IF j = k - 1 THEN after ELSE IF j = l THEN 0 ELSE o[j + 1]
          /\ q[o[j] + 2] = IF j = k + 1 THEN before ELSE IF j = 1 THEN 0 ELSE o[j - 1]
  BY <1>p DEF Bypassed
<1>s. \A j \in 1 .. l - 1 : p[j] = IF j < k THEN o[j] ELSE o[j + 1]
  BY DEF Skips
<1>0. l \in Nat /\ k \in 1 .. l
  OBVIOUS
<1>1. ASSUME NEW j \in 1 .. l - 1, j < k
      PROVE  /\ q[p[j] + 1] = IF j = l - 1 THEN 0 ELSE p[j + 1]
             /\ q[p[j] + 2] = IF j = 1 THEN 0 ELSE p[j - 1]
  <2>0. j \in 1 .. l - 1 /\ j < k
    BY <1>1
  <2>1. j \in 1 .. l /\ j # k /\ j # l /\ j # k + 1
    BY ONLY <1>0, <2>0
  <2>2. p[j] = o[j]
    BY <1>s, <1>1
  <2>3. q[o[j] + 2] = IF j = 1 THEN 0 ELSE o[j - 1]
    BY <1>b, <2>1
  <2>4. j # 1 => p[j - 1] = o[j - 1]
    <3>1. j # 1 => j - 1 \in 1 .. l - 1 /\ j - 1 < k
      BY ONLY <1>0, <2>0
    <3> QED
      BY <1>s, <3>1
  <2>5. CASE j = k - 1
    <3>1. q[o[j] + 1] = after
      BY <1>b, <2>1, <2>5
    <3>2. j = l - 1 <=> k = l
      BY ONLY <1>0, <2>0, <2>5
    <3>3. j # l - 1 => p[j + 1] = o[k + 1]
      <4>1. j # l - 1 => j + 1 \in 1 .. l - 1 /\ ~(j + 1 < k) /\ j + 1 = k
        BY ONLY <1>0, <2>0, <2>5
      <4> QED
        BY <1>s, <4>1
    <3> QED
      BY <1>p, <2>2, <2>3, <2>4, <3>1, <3>2, <3>3
  <2>6. CASE j # k - 1
    <3>0. j # l
      BY <2>1
    <3>1. q[o[j] + 1] = o[j + 1]
      BY <1>b, <2>1, <2>6, <3>0
    <3>2. j + 1 \in 1 .. l - 1 /\ j + 1 < k /\ j # l - 1
      BY ONLY <1>0, <2>0, <2>6
    <3>3. p[j + 1] = o[j + 1]
      BY <1>s, <3>2
    <3> QED
      BY <2>2, <2>3, <2>4, <3>1, <3>2, <3>3
  <2> QED
    BY <2>5, <2>6
<1>2. ASSUME NEW j \in 1 .. l - 1, ~(j < k)
      PROVE  /\ q[p[j] + 1] = IF j = l - 1 THEN 0 ELSE p[j + 1]
             /\ q[p[j] + 2] = IF j = 1 THEN 0 ELSE p[j - 1]
  <2>0. j \in 1 .. l - 1 /\ ~(j < k)
    BY <1>2
  <2>1. j + 1 \in 1 .. l /\ j + 1 # k /\ j + 1 # 1 /\ j + 1 # k - 1 /\ (j + 1 = l <=> j = l - 1)
    BY ONLY <1>0, <2>0
  <2>2. p[j] = o[j + 1]
    BY <1>s, <1>2
  <2>3. q[o[j + 1] + 1] = IF j = l - 1 THEN 0 ELSE o[(j + 1) + 1]
    BY <1>b, <2>1
  <2>4. j # l - 1 => p[j + 1] = o[(j + 1) + 1]
    <3>1. j # l - 1 => j + 1 \in 1 .. l - 1 /\ ~(j + 1 < k)
      BY ONLY <1>0, <2>0
    <3> QED
      BY <1>s, <3>1
  <2>5. CASE j = k
    <3>1. q[o[j + 1] + 2] = before
      <4>1. j + 1 = k + 1
        BY ONLY <1>0, <2>5
      <4> QED
        BY <1>b, <2>1, <4>1
    <3>2. j # 1 => p[j - 1] = o[k - 1]
      <4>1. j # 1 => j - 1 \in 1 .. l - 1 /\ j - 1 < k /\ j - 1 = k - 1
        BY ONLY <1>0, <2>0, <2>5
      <4> QED
        BY <1>s, <4>1
    <3> QED
      BY <1>p, <2>2, <2>3, <2>4, <2>5, <3>1, <3>2
  <2>6. CASE j # k
    <3>1. j + 1 # k + 1 /\ (j + 1) - 1 = j /\ j - 1 \in 1 .. l - 1 /\ ~(j - 1 < k) /\ j # 1 /\ (j - 1) + 1 = j
      BY ONLY <1>0, <2>0, <2>6
    <3>2. q[o[j + 1] + 2] = o[j]
      BY <1>b, <2>1, <3>1
    <3>3. p[j - 1] = o[j]
      BY <1>s, <3>1
    <3> QED
      BY <2>2, <2>3, <2>4, <3>1, <3>2, <3>3
  <2> QED
    BY <2>5, <2>6
<1> QED
  BY <1>1, <1>2 DEF Chained

\* The elements of the list are those of the longer one without the one that left.
LEMMA UnlinkSet ==
    ASSUME NEW l \in Nat, NEW k \in 1 .. l, NEW o, NEW p,
           Once(o, l), Skips(p, o, l, k)
    PROVE  Members(p, l - 1) = Members(o, l) \ {o[k]}
<1>0. l \in Nat /\ k \in 1 .. l
  OBVIOUS
<1>s. /\ \A j, h \in 1 .. l : o[j] = o[h] => j = h
      /\ \A j \in 1 .. l - 1 : p[j] = IF j < k THEN o[j] ELSE o[j + 1]
  BY DEF Once, Skips
<1>1. ASSUME NEW j \in 1 .. l - 1 PROVE p[j] \in {o[h] : h \in 1 .. l} \ {o[k]}
  <2>1. PICK h \in 1 .. l : h = IF j < k THEN j ELSE j + 1
    OBVIOUS
  <2>2. p[j] = o[h]
    BY <1>s, <2>1
  <2>3. h # k
    BY ONLY <1>0, <2>1
  <2>4. o[h] # o[k]
    BY <1>s, <2>3
  <2> QED
    BY <2>2, <2>4
<1>2. ASSUME NEW h \in 1 .. l, o[h] # o[k] PROVE o[h] \in {p[j] : j \in 1 .. l - 1}
  <2>0. h \in 1 .. l /\ h # k
    BY <1>2
  <2>1. PICK j : j = IF h < k THEN h ELSE h - 1
    OBVIOUS
  <2>2. j \in 1 .. l - 1 /\ h = IF j < k THEN j ELSE j + 1
    BY ONLY <1>0, <2>0, <2>1
  <2>3. p[j] = o[h]
    BY <1>s, <2>2
  <2> QED
    BY <2>2, <2>3
<1> QED
  BY <1>1, <1>2 DEF Members

\* A block leaves the list.
LEMMA Unlink ==
    ASSUME NEW n \in Nat, NEW m \in Mem(n), NEW o \in Seq(1 .. n - 4), Spaced(o), Linked(m, o),
           NEW k \in DOMAIN o
    PROVE  /\ Unlinked(m, o[k]) \in Mem(n) /\ OnlyLinks(Unlinked(m, o[k]), m, o)
           /\ Without(o, o[k]) \in Seq(1 .. n - 4) /\ Spaced(Without(o, o[k]))
           /\ Linked(Unlinked(m, o[k]), Without(o, o[k]))
           /\ Elements(Without(o, o[k])) = Elements(o) \ {o[k]}
           /\ FirstOf(Without(o, o[k])) = IF m[o[k] + 2] = 0 THEN m[o[k] + 1] ELSE FirstOf(o)
<1>0. PICK q, p, v : v = FirstOf(o) /\ q = Unlinked(m, o[k]) /\ p = Without(o, o[k])
  OBVIOUS
<1>1. PICK l \in Nat : l = Len(o)
  BY Lists
<1>2. /\ DOMAIN o = 1 .. l /\ (o = <<>> <=> l = 0) /\ o \in [1 .. l -> 1 .. n - 4] /\ o \in Row(l, n)
      /\ n \in Nat /\ l \in Nat /\ k \in 1 .. l /\ m \in Mem(n) /\ DOMAIN m = 0 .. n - 1
  BY <1>1, Lists DEF Mem, Row
<1>3. Spread(o, l)
  BY <1>2 DEF Spaced, Spread
<1>4. Once(o, l)
  <2>1. \A j \in 1 .. l : o[j] \in Int
    BY ONLY <1>2
  <2> QED
    BY ONLY <1>3, <2>1 DEF Spread, Once
<1>5. Chained(m, o, l)
  BY <1>1, <1>2 DEF Linked, NextOf, PrevOf, Chained
<1>7. q = Unlinked(m, o[k])
  BY <1>0
<1>8. /\ m[o[k] + 2] = IF k = 1 THEN 0 ELSE o[k - 1]
      /\ m[o[k] + 1] = IF k = l THEN 0 ELSE o[k + 1]
  BY ONLY <1>2, <1>5 DEF Chained
<1>9. q \in Mem(n) /\ OnlyLinks(q, m, o) /\ Bypassed(q, o, l, k)
  BY ONLY <1>2, <1>3, <1>5, <1>7, UnlinkWords
<1>10. p \in Seq(1 .. n - 4) /\ Len(p) = l - 1 /\ DOMAIN p = 1 .. l - 1 /\ Skips(p, o, l, k)
  <2>1. Once(o, Len(o))
    BY <1>1, <1>4
  <2>2. o \in Seq(1 .. n - 4) /\ k \in DOMAIN o /\ p = Without(o, o[k])
    BY <1>0
  <2> QED
    BY ONLY <1>1, <2>1, <2>2, Shorter DEF Skips
<1>11. Chained(q, p, l - 1)
  BY ONLY <1>2, <1>9, <1>10, UnlinkLinks
<1>12. Linked(q, p)
  BY ONLY <1>10, <1>11 DEF Linked, NextOf, PrevOf, Chained
<1>13. Elements(p) = Elements(o) \ {o[k]}
  <2>1. Members(p, l - 1) = Members(o, l) \ {o[k]}
    BY ONLY <1>2, <1>4, <1>10, UnlinkSet
  <2> QED
    BY ONLY <1>2, <1>10, <2>1 DEF Members, Elements
<1>14. Spaced(p)
  <2> SUFFICES ASSUME NEW j \in 1 .. l - 1, NEW h \in 1 .. l - 1, j # h
               PROVE  p[j] + 4 <= p[h] \/ p[h] + 4 <= p[j]
    BY <1>10 DEF Spaced
  <2>1. PICK a, b : a = (IF j < k THEN j ELSE j + 1) /\ b = (IF h < k THEN h ELSE h + 1)
    OBVIOUS
  <2>2. a \in 1 .. l /\ b \in 1 .. l /\ a # b
    BY <1>2, <2>1
  <2>3. p[j] = o[a] /\ p[h] = o[b]
    BY <1>10, <2>1 DEF Skips
  <2> QED
    BY <1>3, <2>2, <2>3 DEF Spread
<1>15. (IF m[o[k] + 2] = 0 THEN m[o[k] + 1] ELSE v) = FirstOf(p)
  <2>1. p = <<>> <=> l - 1 = 0
    BY ONLY <1>10, Lists
  <2>2. \A j \in 1 .. l : o[j] # 0
    BY ONLY <1>2
  <2>3. CASE k = 1
    <3>1. l # 1 => p[1] = o[2]
      BY ONLY <1>2, <1>10, <2>3 DEF Skips
    <3>2. m[o[k] + 2] = 0 /\ (l # 1 => m[o[k] + 1] = o[2]) /\ (l = 1 => m[o[k] + 1] = 0)
      BY ONLY <1>2, <1>8, <2>3
    <3> QED
      BY ONLY <1>0, <1>2, <2>1, <3>1, <3>2 DEF FirstOf
  <2>4. CASE k # 1
    <3>1. 1 \in 1 .. l - 1 /\ 1 < k /\ l # 1 /\ l # 0 /\ k - 1 \in 1 .. l /\ l - 1 # 0
      BY ONLY <1>2, <2>4
    <3>2. p[1] = o[1] /\ p # <<>> /\ o # <<>>
      BY ONLY <1>2, <1>10, <2>1, <3>1 DEF Skips
    <3>3. m[o[k] + 2] # 0
      BY ONLY <1>8, <2>2, <2>4, <3>1
    <3> QED
      BY <1>0, <3>2, <3>3 DEF FirstOf
  <2> QED
    BY <2>3, <2>4
<1> QED
  BY <1>0, <1>8, <1>9, <1>10, <1>12, <1>13, <1>14, <1>15

(***************************************************************************)
(* The helpers on a heap whose list is in order.                           *)
(***************************************************************************)

IsList(m, o, n) == o \in Seq(1 .. n - 4) /\ Spaced(o) /\ Linked(m, o)

Listed(h, n) ==
    IsHeap(h) /\ h.array \in Mem(n) /\ IsList(h.array, h.order, n) /\ h.avail = FirstOf(h.order)

\* The memory q differs from m at most in the links of the blocks of L.
SameButLinks(q, m, L) ==
    \A w \in DOMAIN m : (\A a \in L : w # a + 1 /\ w # a + 2) => q[w] = m[w]

\* What remove(i) does to a block i of the list.
LEMMA Removed ==
    ASSUME NEW n \in Nat, NEW h, Listed(h, n), NEW i \in Elements(h.order), NEW g, g = Remove(h, i)
    PROVE  /\ Listed(g, n) /\ g.blocks = h.blocks
           /\ Elements(g.order) = Elements(h.order) \ {i}
           /\ SameButLinks(g.array, h.array, Elements(h.order))
<1>1. PICK m, o, v : m = h.array /\ o = h.order /\ v = h.avail
  OBVIOUS
<1>2. /\ IsHeap(h) /\ m \in Mem(n) /\ o \in Seq(1 .. n - 4) /\ Spaced(o) /\ Linked(m, o)
      /\ v = FirstOf(o)
  BY <1>1 DEF Listed, IsList
<1>3. PICK k \in DOMAIN o : o[k] = i
  BY <1>1 DEF Elements
<1>4. /\ IsHeap(g) /\ g.array = Unlinked(m, o[k]) /\ g.order = Without(o, o[k])
      /\ g.avail = (IF m[o[k] + 2] = 0 THEN m[o[k] + 1] ELSE v) /\ g.blocks = h.blocks
  <2>1. LET q == h.array
            f == Remove(h, i)
        IN  /\ IsHeap(f) /\ f.array = Unlinked(q, i) /\ f.order = Without(h.order, i)
            /\ f.avail = (IF q[i + 2] = 0 THEN q[i + 1] ELSE h.avail) /\ f.blocks = h.blocks
    BY ONLY <1>2, RemoveParts
  <2> QED
    BY ONLY g = Remove(h, i), <1>1, <1>3, <2>1
<1>5. /\ g.array \in Mem(n) /\ OnlyLinks(g.array, m, o)
      /\ g.order \in Seq(1 .. n - 4) /\ Spaced(g.order) /\ Linked(g.array, g.order)
      /\ Elements(g.order) = Elements(o) \ {o[k]}
      /\ FirstOf(g.order) = IF m[o[k] + 2] = 0 THEN m[o[k] + 1] ELSE v
  <2>1. /\ Unlinked(m, o[k]) \in Mem(n) /\ OnlyLinks(Unlinked(m, o[k]), m, o)
        /\ Without(o, o[k]) \in Seq(1 .. n - 4) /\ Spaced(Without(o, o[k]))
        /\ Linked(Unlinked(m, o[k]), Without(o, o[k]))
        /\ Elements(Without(o, o[k])) = Elements(o) \ {o[k]}
        /\ FirstOf(Without(o, o[k])) = IF m[o[k] + 2] = 0 THEN m[o[k] + 1] ELSE FirstOf(o)
    BY ONLY n \in Nat, <1>2, <1>3, Unlink
  <2> QED
    BY <1>2, <1>4, <2>1
<1>6. SameButLinks(g.array, m, Elements(o))
  BY ONLY <1>5 DEF SameButLinks, OnlyLinks, Elements
<1> QED
  BY ONLY <1>1, <1>3, <1>4, <1>5, <1>6 DEF Listed, IsList, Elements

\* remove(i), and the block is no block any more.
Drop(h, i) == [Remove(h, i) EXCEPT !.blocks = @ \ {i}]

\* After that the list and the blocks have lost i, and only links of the list were written.
LEMMA Dropped ==
    ASSUME NEW n \in Nat, NEW h, Listed(h, n), NEW i \in Elements(h.order)
    PROVE  LET g == Drop(h, i) IN
           /\ Listed(g, n) /\ g.blocks = h.blocks \ {i}
           /\ Elements(g.order) = Elements(h.order) \ {i}
           /\ SameButLinks(g.array, h.array, Elements(h.order))
<1>1. PICK f, g : f = Remove(h, i) /\ g = Drop(h, i)
  OBVIOUS
<1>2. /\ Listed(f, n) /\ f.blocks = h.blocks
      /\ Elements(f.order) = Elements(h.order) \ {i}
      /\ SameButLinks(f.array, h.array, Elements(h.order))
  BY <1>1, Removed
<1>3. IsHeap(f)
  BY <1>2 DEF Listed
<1>4. IsHeap(g) /\ g.array = f.array /\ g.avail = f.avail /\ g.order = f.order /\ g.blocks = f.blocks \ {i}
  BY ONLY <1>1, <1>3 DEF IsHeap, Drop
<1> QED
  BY ONLY <1>1, <1>2, <1>4 DEF Listed

\* The links of L are as they were, but for the link back of v.
LinksKept(q, m, L, v) == \A a \in L : q[a + 1] = m[a + 1] /\ (a # v => q[a + 2] = m[a + 2])

\* The word w is no link of L.
OffLinks(w, L) == \A a \in L : w # a + 1 /\ w # a + 2

\* The k words at i keep clear of the blocks of L.
Apart(i, k, L) == \A a \in L : i + k <= a \/ a + 4 <= i

\* A list stays linked when none of its links is written.
LEMMA Untroubled ==
    ASSUME NEW n \in Nat, NEW m \in Mem(n), NEW o, IsList(m, o, n), NEW q \in Mem(n),
           LinksKept(q, m, Elements(o), 0)
    PROVE  IsList(q, o, n)
<1>1. o \in Seq(1 .. n - 4) /\ Spaced(o) /\ Linked(m, o)
  BY DEF IsList
<1>2. \A k \in DOMAIN o : o[k] \in 1 .. n - 4 /\ o[k] \in Elements(o)
  BY ONLY <1>1, Lists DEF Elements
<1>4. \A k \in DOMAIN o : q[o[k] + 1] = m[o[k] + 1] /\ q[o[k] + 2] = m[o[k] + 2]
  BY <1>2 DEF LinksKept
<1>5. Linked(q, o)
  BY ONLY <1>1, <1>4 DEF Linked, NextOf, PrevOf
<1> QED
  BY ONLY <1>1, <1>5 DEF IsList

\* The words that are written at the ends of a block.
Stamps(q, m, i, x, k) ==
    \A w \in DOMAIN m : q[w] = IF w = i \/ w = i + k - 1 THEN x ELSE m[w]

\* Header and footer of a block of at least two words are both written, and nothing else.
LEMMA Stamped ==
    ASSUME NEW n \in Nat, NEW m \in Mem(n), NEW i \in 0 .. n - 1, NEW k \in Nat, k >= 2, i + k <= n,
           NEW x \in Int
    PROVE  Stamp(m, i, x, k) \in Mem(n) /\ Stamps(Stamp(m, i, x, k), m, i, x, k)
<1>0. PICK q : q = Stamp(m, i, x, k)
  OBVIOUS
<1>1. i + k - 1 \in 0 .. n - 1
  OBVIOUS
<1>2. m \in [0 .. n - 1 -> Int] /\ q = [m EXCEPT ![i] = x, ![i + k - 1] = x]
  BY <1>0 DEF Mem, Stamp
<1>3. i \in 0 .. n - 1 /\ x \in Int
  OBVIOUS
<1>4. q \in [0 .. n - 1 -> Int]
  BY ONLY <1>1, <1>2, <1>3
<1>5. \A w \in 0 .. n - 1 : q[w] = IF w = i \/ w = i + k - 1 THEN x ELSE m[w]
  BY ONLY <1>1, <1>2, <1>3
<1> QED
  BY ONLY <1>0, <1>2, <1>4, <1>5 DEF Mem, Stamps

\* The block of k words at i is marked as taken, and nothing else changes.
Marked(g, h, i, k, n) ==
    /\ Listed(g, n) /\ g.blocks = h.blocks \cup {i} /\ g.order = h.order
    /\ Stamps(g.array, h.array, i, -k, k)

\* What makeTaken(i, k) does where no links are.
LEMMA Marks ==
    ASSUME NEW n \in Nat, NEW h, Listed(h, n), NEW i \in 0 .. n - 1, NEW k \in Nat, k >= 2, i + k <= n,
           OffLinks(i, Elements(h.order)), OffLinks(i + k - 1, Elements(h.order))
    PROVE  Marked(MakeTaken(h, i, k), h, i, k, n)
<1>0. PICK g : g = MakeTaken(h, i, k)
  OBVIOUS
<1>1. IsHeap(h) /\ h.array \in Mem(n) /\ IsList(h.array, h.order, n) /\ h.avail = FirstOf(h.order)
  BY DEF Listed
<1>2. /\ IsHeap(g) /\ g.array = Stamp(h.array, i, -k, k)
      /\ g.avail = h.avail /\ g.blocks = h.blocks \cup {i} /\ g.order = h.order
  BY ONLY <1>0, <1>1, MakeTakenParts
<1>3. -k \in Int
  OBVIOUS
<1>4. g.array \in Mem(n) /\ Stamps(g.array, h.array, i, -k, k) /\ DOMAIN h.array = 0 .. n - 1
  <2>1. n \in Nat /\ h.array \in Mem(n) /\ i \in 0 .. n - 1 /\ k \in Nat /\ k >= 2 /\ i + k <= n /\ -k \in Int
    BY <1>1, <1>3
  <2>2. Stamp(h.array, i, -k, k) \in Mem(n) /\ Stamps(Stamp(h.array, i, -k, k), h.array, i, -k, k)
    BY ONLY <2>1, Stamped
  <2> QED
    BY ONLY <1>2, <2>1, <2>2 DEF Mem
<1>5. IsList(g.array, h.order, n)
  <2>1. \A a \in Elements(h.order) : a \in 1 .. n - 4
    BY ONLY <1>1, Lists DEF Elements, IsList
  <2>2. \A a \in Elements(h.order) : a + 1 \in 0 .. n - 1 /\ a + 2 \in 0 .. n - 1
    BY <2>1
  <2>3. LinksKept(g.array, h.array, Elements(h.order), 0)
    BY <1>4, <2>2 DEF LinksKept, OffLinks, Stamps
  <2> QED
    BY <1>1, <1>4, <2>3, Untroubled
<1> QED
  BY ONLY <1>0, <1>1, <1>2, <1>4, <1>5 DEF Listed, Marked

\* The ends of the k words at i are no links.
Takeable(h, i, k, n) ==
    /\ n \in Nat /\ Listed(h, n) /\ i \in 0 .. n - 1 /\ k \in Nat /\ k >= 2 /\ i + k <= n
    /\ OffLinks(i, Elements(h.order)) /\ OffLinks(i + k - 1, Elements(h.order))

\* The same, from one fact.
LEMMA Taken ==
    ASSUME NEW n, NEW h, NEW i, NEW k, Takeable(h, i, k, n)
    PROVE  Marked(MakeTaken(h, i, k), h, i, k, n)
BY Marks DEF Takeable

\* A block away from the blocks of the list becomes its first one.
LEMMA Pushed ==
    ASSUME NEW n \in Nat, NEW m \in Mem(n), NEW o, IsList(m, o, n), NEW v, v = FirstOf(o),
           NEW i \in 1 .. n - 4, NEW q \in Mem(n),
           Apart(i, 4, Elements(o)), q[i + 1] = v, q[i + 2] = 0, v # 0 => q[v + 2] = i,
           LinksKept(q, m, Elements(o), v)
    PROVE  /\ IsList(q, <<i>> \o o, n) /\ FirstOf(<<i>> \o o) = i
           /\ Elements(<<i>> \o o) = Elements(o) \cup {i}
<1>p. PICK p : p = <<i>> \o o
  OBVIOUS
<1>1. o \in Seq(1 .. n - 4) /\ Spaced(o) /\ Linked(m, o) /\ i \in 1 .. n - 4 /\ n \in Nat
  BY DEF IsList
<1>2. PICK l \in Nat : l = Len(o)
  BY ONLY <1>1, Lists
<1>3. /\ DOMAIN o = 1 .. l /\ Len(o) = l /\ (o = <<>> <=> l = 0)
      /\ \A j \in 1 .. l : o[j] \in 1 .. n - 4 /\ o[j] \in Elements(o)
  BY ONLY <1>1, <1>2, Lists DEF Elements
<1>4. /\ p \in Seq(1 .. n - 4) /\ Len(p) = l + 1 /\ DOMAIN p = 1 .. l + 1 /\ p # <<>> /\ p[1] = i
      /\ \A j \in 1 .. l : p[j + 1] = o[j]
  BY ONLY <1>1, <1>2, <1>p
<1>d. DOMAIN p = 1 .. l + 1 /\ DOMAIN o = 1 .. l /\ p[1] = i /\ l \in Nat
  BY <1>3, <1>4
<1>5. \A j \in 1 .. l + 1 : j # 1 => j - 1 \in 1 .. l /\ p[j] = o[j - 1]
  <2> SUFFICES ASSUME NEW j \in 1 .. l + 1, j # 1 PROVE j - 1 \in 1 .. l /\ p[j] = o[j - 1]
    OBVIOUS
  <2>1. j - 1 \in 1 .. l /\ (j - 1) + 1 = j
    OBVIOUS
  <2> QED
    BY <1>4, <2>1
<1>6. \A j, h \in 1 .. l : j # h => o[j] + 4 <= o[h] \/ o[h] + 4 <= o[j]
  BY ONLY <1>1, <1>3 DEF Spaced
<1>7. \A j \in 1 .. l : i + 4 <= o[j] \/ o[j] + 4 <= i
  BY <1>3 DEF Apart
<1>8. Spaced(p)
  <2> SUFFICES ASSUME NEW j \in 1 .. l + 1, NEW h \in 1 .. l + 1, j # h
               PROVE  p[j] + 4 <= p[h] \/ p[h] + 4 <= p[j]
    BY <1>4 DEF Spaced
  <2>0. j \in 1 .. l + 1 /\ h \in 1 .. l + 1 /\ j # h
    OBVIOUS
  <2>1. CASE j = 1
    BY ONLY <1>d, <1>5, <1>7, <2>0, <2>1
  <2>2. CASE h = 1
    BY ONLY <1>d, <1>5, <1>7, <2>0, <2>2
  <2>3. CASE j # 1 /\ h # 1
    <3>1. j - 1 # h - 1
      BY ONLY <1>d, <2>0
    <3> QED
      BY ONLY <1>5, <1>6, <2>0, <2>3, <3>1
  <2> QED
    BY <2>1, <2>2, <2>3
<1>9. v = IF l = 0 THEN 0 ELSE o[1]
  BY <1>3 DEF FirstOf
<1>10. \A j \in 1 .. l : /\ m[o[j] + 1] = IF j = l THEN 0 ELSE o[j + 1]
                         /\ m[o[j] + 2] = IF j = 1 THEN 0 ELSE o[j - 1]
  BY ONLY <1>1, <1>3 DEF Linked, NextOf, PrevOf
<1>11. \A j \in 1 .. l : /\ q[o[j] + 1] = m[o[j] + 1]
                         /\ q[o[j] + 2] = IF j = 1 THEN i ELSE m[o[j] + 2]
  <2> SUFFICES ASSUME NEW j \in 1 .. l
               PROVE  /\ q[o[j] + 1] = m[o[j] + 1]
                      /\ q[o[j] + 2] = IF j = 1 THEN i ELSE m[o[j] + 2]
    OBVIOUS
  <2>1. o[j] + 1 \in 0 .. n - 1 /\ o[j] + 2 \in 0 .. n - 1
    BY ONLY <1>1, <1>3, j \in 1 .. l
  <2>2. q[o[j] + 1] = m[o[j] + 1] /\ (o[j] # v => q[o[j] + 2] = m[o[j] + 2])
    BY <1>3 DEF LinksKept
  <2>3. CASE j = 1
    <3>1. v = o[1] /\ v # 0
      BY ONLY <1>3, <1>9, <2>3, j \in 1 .. l, l \in Nat
    <3> QED
      BY <2>2, <2>3, <3>1
  <2>4. CASE j # 1
    <3>1. 1 \in 1 .. l /\ l # 0
      BY ONLY <2>4, j \in 1 .. l, l \in Nat
    <3>2. o[j] # v
      BY ONLY <1>3, <1>6, <1>9, <2>4, <3>1, j \in 1 .. l
    <3> QED
      BY <2>2, <2>4, <3>2
  <2> QED
    BY <2>3, <2>4
<1>12. \A j \in 1 .. l + 1 : /\ q[p[j] + 1] = IF j = l + 1 THEN 0 ELSE p[j + 1]
                             /\ q[p[j] + 2] = IF j = 1 THEN 0 ELSE p[j - 1]
  <2> SUFFICES ASSUME NEW j \in 1 .. l + 1
               PROVE  /\ q[p[j] + 1] = IF j = l + 1 THEN 0 ELSE p[j + 1]
                      /\ q[p[j] + 2] = IF j = 1 THEN 0 ELSE p[j - 1]
    OBVIOUS
  <2>1. CASE j = 1
    <3>1. q[p[j] + 1] = v /\ q[p[j] + 2] = 0
      BY <1>4, <2>1
    <3>2. j = l + 1 <=> l = 0
      BY <2>1
    <3>3. l # 0 => p[j + 1] = o[1]
      <4>1. l # 0 => 1 \in 1 .. l
        OBVIOUS
      <4> QED
        BY <1>4, <2>1, <4>1
    <3> QED
      BY <1>9, <2>1, <3>1, <3>2, <3>3
  <2>2. CASE j # 1
    <3>1. PICK h \in 1 .. l : h = j - 1 /\ p[j] = o[h]
      BY <1>5, <2>2
    <3>2. q[o[h] + 1] = IF h = l THEN 0 ELSE o[h + 1]
      BY <1>10, <1>11
    <3>3. q[o[h] + 2] = IF h = 1 THEN i ELSE o[h - 1]
      BY <1>10, <1>11
    <3>4. (h = l <=> j = l + 1) /\ (h # l => h + 1 \in 1 .. l /\ (h + 1) + 1 = j + 1)
      BY <3>1
    <3>5. h # l => p[j + 1] = o[h + 1]
      BY <1>4, <3>4
    <3>6. p[j - 1] = IF h = 1 THEN i ELSE o[h - 1]
      <4>1. j - 1 = h /\ h \in 1 .. l + 1
        BY <3>1
      <4> QED
        BY <1>4, <1>5, <4>1
    <3> QED
      BY <2>2, <3>1, <3>2, <3>3, <3>4, <3>5, <3>6
  <2> QED
    BY <2>1, <2>2
<1>13. Linked(q, p)
  BY ONLY <1>4, <1>12 DEF Linked, NextOf, PrevOf
<1>14. Elements(p) = Elements(o) \cup {i}
  <2>1. \A j \in 1 .. l + 1 : p[j] \in Elements(o) \cup {i}
    BY <1>3, <1>4, <1>5
  <2>2. \A j \in 1 .. l : j + 1 \in 1 .. l + 1 /\ p[j + 1] = o[j]
    BY <1>4
  <2>3. 1 \in 1 .. l + 1
    OBVIOUS
  <2>4. \A a \in Elements(p) : a \in Elements(o) \cup {i}
    BY ONLY <1>d, <2>1 DEF Elements
  <2>5. i \in Elements(p)
    BY ONLY <1>d, <2>3 DEF Elements
  <2>6. \A a \in Elements(o) : a \in Elements(p)
    BY ONLY <1>d, <2>2 DEF Elements
  <2> QED
    BY ONLY <2>4, <2>5, <2>6
<1>15. FirstOf(p) = i
  BY <1>4 DEF FirstOf
<1> QED
  BY ONLY <1>p, <1>4, <1>8, <1>13, <1>14, <1>15 DEF IsList

\* The words that makeAvail(i, k) writes, when the list is L.
AvailWords(q, m, i, k, L) ==
    /\ q[i] = k /\ q[i + k - 1] = k
    /\ \A w \in DOMAIN m : (w \notin {i, i + 1, i + 2, i + k - 1} /\ \A a \in L : w # a + 2) => q[w] = m[w]

\* The block of k words at i is marked as available, and is in the list.
Added(g, h, i, k, n) ==
    /\ Listed(g, n) /\ g.blocks = h.blocks \cup {i}
    /\ Elements(g.order) = Elements(h.order) \cup {i}
    /\ AvailWords(g.array, h.array, i, k, Elements(h.order))

\* What makeAvail(i, k) does away from the blocks of the list.
LEMMA Adds ==
    ASSUME NEW n \in Nat, NEW h, Listed(h, n), NEW i \in 1 .. n - 4, NEW k \in Nat, k >= 4, i + k <= n,
           Apart(i, k, Elements(h.order))
    PROVE  Added(MakeAvail(h, i, k), h, i, k, n)
<1>0. PICK g : g = MakeAvail(h, i, k)
  OBVIOUS
<1>1. IsHeap(h) /\ h.array \in Mem(n) /\ IsList(h.array, h.order, n) /\ h.avail = FirstOf(h.order)
  BY DEF Listed
<1>2. PICK m, o, v, q : m = h.array /\ o = h.order /\ v = h.avail /\ q = g.array
  OBVIOUS
<1>3. PICK u : u = Stamp(m, i, k, k)
  OBVIOUS
<1>4. /\ IsHeap(g) /\ q = Link([u EXCEPT ![i + 1] = v, ![i + 2] = 0], v, 2, i)
      /\ g.avail = i /\ g.blocks = h.blocks \cup {i} /\ g.order = <<i>> \o o
  BY ONLY <1>0, <1>1, <1>2, <1>3, MakeAvailParts
<1>5. i \in 0 .. n - 1 /\ i + 1 \in 0 .. n - 1 /\ i + 2 \in 0 .. n - 1 /\ i + k - 1 \in 0 .. n - 1
  OBVIOUS
<1>6. /\ u \in Mem(n)
      /\ \A w \in 0 .. n - 1 : u[w] = IF w = i \/ w = i + k - 1 THEN k ELSE m[w]
  <2>1. n \in Nat /\ m \in Mem(n) /\ i \in 0 .. n - 1 /\ k \in Nat /\ k >= 2 /\ i + k <= n /\ k \in Int
    BY <1>1, <1>2, <1>5
  <2>2. u \in Mem(n) /\ Stamps(u, m, i, k, k)
    BY ONLY <1>3, <2>1, Stamped
  <2> QED
    BY ONLY <2>1, <2>2 DEF Stamps, Mem
<1>7. /\ v = 0 \/ (v \in 1 .. n - 4 /\ v \in Elements(o))
      /\ v \in Int /\ (v # 0 => v + 2 \in 0 .. n - 1)
  <2>1. /\ o = <<>> <=> Len(o) = 0
        /\ Len(o) \in Nat /\ DOMAIN o = 1 .. Len(o) /\ \A j \in 1 .. Len(o) : o[j] \in 1 .. n - 4
    <3>1. o \in Seq(1 .. n - 4)
      BY ONLY <1>1, <1>2 DEF IsList
    <3> QED
      BY ONLY <3>1, Lists
  <2>2. v = 0 \/ (1 \in DOMAIN o /\ v = o[1] /\ v \in 1 .. n - 4)
    BY ONLY <1>1, <1>2, <2>1 DEF FirstOf
  <2>3. v \in Int /\ (v # 0 => v + 2 \in 0 .. n - 1)
    BY ONLY <2>2, n \in Nat
  <2> QED
    BY <2>2, <2>3 DEF Elements
<1>8. /\ q \in Mem(n)
      /\ \A w \in 0 .. n - 1 : q[w] = IF v # 0 /\ w = v + 2 THEN i
                                      ELSE IF w = i + 2 THEN 0 ELSE IF w = i + 1 THEN v ELSE u[w]
  <2>1. PICK t : t = [u EXCEPT ![i + 1] = v, ![i + 2] = 0]
    OBVIOUS
  <2>2. i \in Int
    OBVIOUS
  <2>3. /\ t \in [0 .. n - 1 -> Int]
        /\ \A w \in 0 .. n - 1 : t[w] = IF w = i + 2 THEN 0 ELSE IF w = i + 1 THEN v ELSE u[w]
    BY ONLY <1>5, <1>6, <1>7, <2>1, <2>2 DEF Mem
  <2>4. q = IF v = 0 THEN t ELSE [t EXCEPT ![v + 2] = i]
    BY ONLY <1>4, <2>1 DEF Link
  <2> QED
    BY ONLY <1>7, <2>2, <2>3, <2>4 DEF Mem
<1>9. \A a \in Elements(o) : a \in 1 .. n - 4 /\ (i + k <= a \/ a + 4 <= i)
  <2>1. \A a \in Elements(o) : a \in 1 .. n - 4
    BY ONLY <1>1, <1>2, Lists DEF Elements, IsList
  <2> QED
    BY <1>2, <2>1 DEF Apart
<1>10. q[i] = k /\ q[i + k - 1] = k /\ q[i + 1] = v /\ q[i + 2] = 0
  <2>1. v # 0 => v + 2 # i /\ v + 2 # i + k - 1 /\ v + 2 # i + 1 /\ v + 2 # i + 2
    BY <1>7, <1>9
  <2>2. i + k - 1 # i + 2 /\ i + k - 1 # i + 1
    OBVIOUS
  <2> QED
    BY <1>5, <1>6, <1>8, <2>1, <2>2
<1>11. v # 0 => q[v + 2] = i
  BY <1>7, <1>8
<1>12. ASSUME NEW w \in 0 .. n - 1, w \notin {i, i + 1, i + 2, i + k - 1},
              \A a \in Elements(o) : w # a + 2
       PROVE  q[w] = m[w]
  BY <1>6, <1>7, <1>8, <1>12
<1>13. ASSUME NEW w \in 0 .. n - 1, NEW a \in Elements(o), w = a + 1 \/ (w = a + 2 /\ a # v)
       PROVE  q[w] = m[w]
  <2>1. w # i /\ w # i + 1 /\ w # i + 2 /\ w # i + k - 1
    BY <1>9, <1>13
  <2>2. v # 0 => w # v + 2
    <3>1. CASE w = a + 2 /\ a # v
      BY <1>7, <1>9, <3>1
    <3>2. CASE w = a + 1
      <4>1. v # 0 => v = a \/ v + 4 <= a \/ a + 4 <= v
        <5>1. \A j, l \in DOMAIN o : j # l => o[j] + 4 <= o[l] \/ o[l] + 4 <= o[j]
          BY ONLY <1>1, <1>2 DEF IsList, Spaced
        <5> QED
          BY <1>7, <5>1 DEF Elements
      <4> QED
        BY <1>7, <1>9, <3>2, <4>1
    <3> QED
      BY <1>13, <3>1, <3>2
  <2> QED
    BY <1>6, <1>8, <2>1, <2>2
<1>14. Apart(i, 4, Elements(o)) /\ LinksKept(q, m, Elements(o), v)
  <2>1. Apart(i, 4, Elements(o))
    BY <1>9 DEF Apart
  <2>2. \A a \in Elements(o) : a + 1 \in 0 .. n - 1 /\ a + 2 \in 0 .. n - 1
    BY <1>9
  <2> QED
    BY ONLY <1>13, <2>1, <2>2 DEF LinksKept
<1>15. /\ IsList(q, g.order, n) /\ FirstOf(g.order) = i
       /\ Elements(g.order) = Elements(o) \cup {i}
  <2>1. /\ n \in Nat /\ m \in Mem(n) /\ IsList(m, o, n) /\ v = FirstOf(o) /\ i \in 1 .. n - 4
        /\ q \in Mem(n) /\ Apart(i, 4, Elements(o))
        /\ q[i + 1] = v /\ q[i + 2] = 0 /\ (v # 0 => q[v + 2] = i) /\ LinksKept(q, m, Elements(o), v)
    BY <1>1, <1>2, <1>4, <1>8, <1>10, <1>11, <1>14
  <2>2. IsList(q, <<i>> \o o, n)
    BY ONLY <2>1, Pushed
  <2>3. FirstOf(<<i>> \o o) = i
    BY ONLY <2>1, Pushed
  <2>4. Elements(<<i>> \o o) = Elements(o) \cup {i}
    BY ONLY <2>1, Pushed
  <2> QED
    BY <1>4, <2>2, <2>3, <2>4
<1>16. Listed(g, n)
  BY ONLY <1>2, <1>4, <1>8, <1>15 DEF Listed
<1>17. AvailWords(q, m, i, k, Elements(o))
  BY <1>1, <1>2, <1>10, <1>12 DEF AvailWords, Mem
<1> QED
  BY ONLY <1>0, <1>2, <1>4, <1>15, <1>16, <1>17 DEF Added

\* The k words at i have room for the links, away from the blocks of the list.
Freeable(h, i, k, n) ==
    /\ n \in Nat /\ Listed(h, n) /\ i \in 1 .. n - 4 /\ k \in Nat /\ k >= 4 /\ i + k <= n
    /\ Apart(i, k, Elements(h.order))

\* The same, from one fact.
LEMMA MadeAvail ==
    ASSUME NEW n, NEW h, NEW i, NEW k, Freeable(h, i, k, n)
    PROVE  Added(MakeAvail(h, i, k), h, i, k, n)
BY Adds DEF Freeable

(***************************************************************************)
(* The heap between two calls.                                             *)
(***************************************************************************)

\* The heap h of n words: what the parts Tiled, ListExact and Coalesced of the invariant
\* say of it once it has been set up.
Heaped(h, n) ==
    /\ Listed(h, n)
    /\ h.blocks \in SUBSET (0 .. n - 1) /\ Tiles(h.array, h.blocks, n)
    /\ 0 \in h.blocks /\ n - 2 \in h.blocks /\ h.array[0] = -2 /\ h.array[n - 2] = -2
    /\ \A b \in h.blocks : b \notin {0, n - 2} => Size(h.array, b) >= 4
    /\ Elements(h.order) = {b \in h.blocks : IsAvail(h.array, b)}
    /\ \A b \in Elements(h.order) : Right(h.array, b) \notin Elements(h.order)

InUse(h) == h.blocks \ Elements(h.order)

\* The blocks of X, as they are in the heap h, are in the heap g word for word.
Preserved(g, h, X) ==
    \A b \in X : /\ b \in g.blocks
                 /\ \A w \in b .. b + Size(h.array, b) - 1 : g.array[w] = h.array[w]

\* The block i is given out, or comes back, and the others in use stay as they are.
GivenOut(g, h, i, n) ==
    Heaped(g, n) /\ InUse(g) = InUse(h) \cup {i} /\ Preserved(g, h, InUse(h))

GivenBack(g, h, i, n) ==
    Heaped(g, n) /\ InUse(g) = InUse(h) \ {i} /\ Preserved(g, h, InUse(h) \ {i})

\* The available blocks have room for their links.
LEMMA Room ==
    ASSUME NEW n \in Nat, NEW h, Heaped(h, n)
    PROVE  /\ h.array \in Mem(n) /\ h.blocks \in SUBSET (0 .. n - 1) /\ Tiles(h.array, h.blocks, n)
           /\ \A a \in Elements(h.order) :
                 /\ a \in h.blocks /\ a \in Nat /\ a # 0 /\ a # n - 2 /\ Size(h.array, a) \in Nat
                 /\ Size(h.array, a) >= 4 /\ a + Size(h.array, a) <= n /\ h.array[a] = Size(h.array, a)
<1>1. h.array \in Mem(n) /\ h.blocks \in SUBSET (0 .. n - 1) /\ Tiles(h.array, h.blocks, n)
  BY DEF Heaped, Listed
<1>2. ASSUME NEW a \in Elements(h.order)
      PROVE  /\ a \in h.blocks /\ a \in Nat /\ a # 0 /\ a # n - 2 /\ Size(h.array, a) \in Nat
             /\ Size(h.array, a) >= 4 /\ a + Size(h.array, a) <= n /\ h.array[a] = Size(h.array, a)
  <2>1. a \in h.blocks /\ h.array[a] > 0 /\ a # 0 /\ a # n - 2
    BY <1>2 DEF Heaped, IsAvail
  <2>2. Size(h.array, a) >= 4
    BY <2>1 DEF Heaped
  <2>3. a \in Nat /\ Size(h.array, a) \in Nat /\ a + Size(h.array, a) <= n
    BY <1>1, <2>1, Spans
  <2>4. h.array[a] = Size(h.array, a)
    BY <1>1, <2>1, Sizes DEF Size
  <2> QED
    BY <2>1, <2>2, <2>3, <2>4
<1> QED
  BY <1>1, <1>2

\* The links of a block are none of its borders, and no word of another block.
LEMMA Away ==
    ASSUME NEW n \in Nat, NEW m \in Mem(n), NEW B \in SUBSET (0 .. n - 1), Tiles(m, B, n),
           NEW a \in B, Size(m, a) >= 4, NEW b \in B, NEW w \in b .. b + Size(m, b) - 1,
           b # a \/ w = b \/ w = b + Size(m, b) - 1
    PROVE  w # a + 1 /\ w # a + 2 /\ w \in 0 .. n - 1
<1>1. /\ a \in Nat /\ Size(m, a) \in Nat /\ a + Size(m, a) <= n
      /\ b \in Nat /\ Size(m, b) \in Nat /\ b + Size(m, b) <= n
      /\ b # a => a + Size(m, a) <= b \/ b + Size(m, b) <= a
  BY Spans
<1>2. Size(m, a) >= 4 /\ w \in b .. b + Size(m, b) - 1 /\ n \in Nat
      /\ (b # a \/ w = b \/ w = b + Size(m, b) - 1)
  OBVIOUS
<1> QED
  BY ONLY <1>1, <1>2

\* The blocks of L are blocks of B, and have room for links.
Roomy(m, B, L) == \A a \in L : a \in B /\ Size(m, a) >= 4

\* Writing links leaves the blocks as they are.
LEMMA Borders ==
    ASSUME NEW n \in Nat, NEW m \in Mem(n), NEW B \in SUBSET (0 .. n - 1), Tiles(m, B, n),
           NEW L, Roomy(m, B, L), NEW q \in Mem(n), SameButLinks(q, m, L)
    PROVE  /\ Tiles(q, B, n)
           /\ \A b \in B : /\ q[b] = m[b] /\ q[b + Size(m, b) - 1] = m[b + Size(m, b) - 1]
                           /\ Size(q, b) = Size(m, b)
           /\ \A b \in B \ L : \A w \in b .. b + Size(m, b) - 1 : q[w] = m[w]
<1>1. \A b \in B : b \in Nat /\ Size(m, b) \in Nat /\ Size(m, b) >= 2 /\ m[b + Size(m, b) - 1] = m[b]
  BY Spans
<1>2. DOMAIN m = 0 .. n - 1
  BY DEF Mem
<1>3. ASSUME NEW b \in B, NEW w \in b .. b + Size(m, b) - 1,
             b \notin L \/ w = b \/ w = b + Size(m, b) - 1
      PROVE  q[w] = m[w]
  <2>1. \A a \in L : w # a + 1 /\ w # a + 2
    <3> SUFFICES ASSUME NEW a \in L PROVE w # a + 1 /\ w # a + 2
      OBVIOUS
    <3>1. a \in B /\ Size(m, a) >= 4 /\ (b # a \/ w = b \/ w = b + Size(m, b) - 1)
      BY <1>3 DEF Roomy
    <3> QED
      BY <3>1, Away
  <2>2. w \in 0 .. n - 1
    BY <1>1, <1>3, Spans
  <2> QED
    BY <1>2, <2>1, <2>2 DEF SameButLinks
<1>4. ASSUME NEW b \in B
      PROVE  /\ q[b] = m[b] /\ q[b + Size(m, b) - 1] = m[b + Size(m, b) - 1]
             /\ Size(q, b) = Size(m, b)
  <2>1. b \in b .. b + Size(m, b) - 1 /\ b + Size(m, b) - 1 \in b .. b + Size(m, b) - 1
    BY <1>1
  <2>2. q[b] = m[b] /\ q[b + Size(m, b) - 1] = m[b + Size(m, b) - 1]
    BY <1>3, <2>1
  <2> QED
    BY <2>2 DEF Size
<1>5. Tiles(q, B, n)
  BY <1>1, <1>4, Kept
<1>6. \A b \in B \ L : \A w \in b .. b + Size(m, b) - 1 : q[w] = m[w]
  BY <1>3
<1> QED
  BY <1>4, <1>5, <1>6

(***************************************************************************)
(* A block is carved out of an available one.                              *)
(***************************************************************************)

\* What remove(i) leaves: the blocks are as they were.
LEMMA OffTheList ==
    ASSUME NEW n \in Nat, NEW h, Heaped(h, n), NEW i \in Elements(h.order), NEW f, f = Remove(h, i)
    PROVE  /\ Listed(f, n) /\ f.array \in Mem(n) /\ f.blocks = h.blocks
           /\ Elements(f.order) = Elements(h.order) \ {i}
           /\ Tiles(f.array, h.blocks, n)
           /\ \A b \in h.blocks :
                 /\ f.array[b] = h.array[b] /\ Size(f.array, b) = Size(h.array, b)
                 /\ f.array[b + Size(h.array, b) - 1] = h.array[b + Size(h.array, b) - 1]
           /\ \A b \in InUse(h) : \A w \in b .. b + Size(h.array, b) - 1 : f.array[w] = h.array[w]
<1>1. /\ h.array \in Mem(n) /\ h.blocks \in SUBSET (0 .. n - 1) /\ Tiles(h.array, h.blocks, n)
      /\ Roomy(h.array, h.blocks, Elements(h.order)) /\ n \in Nat
  BY Room DEF Roomy
<1>2. Listed(h, n)
  BY DEF Heaped
<1>3. /\ Listed(f, n) /\ f.blocks = h.blocks
      /\ Elements(f.order) = Elements(h.order) \ {i}
      /\ SameButLinks(f.array, h.array, Elements(h.order))
  BY <1>2, Removed
<1>4. f.array \in Mem(n)
  BY <1>3 DEF Listed
<1>5. /\ Tiles(f.array, h.blocks, n)
      /\ \A b \in h.blocks :
            /\ f.array[b] = h.array[b]
            /\ f.array[b + Size(h.array, b) - 1] = h.array[b + Size(h.array, b) - 1]
            /\ Size(f.array, b) = Size(h.array, b)
      /\ \A b \in h.blocks \ Elements(h.order) :
            \A w \in b .. b + Size(h.array, b) - 1 : f.array[w] = h.array[w]
  BY ONLY <1>1, <1>3, <1>4, Borders
<1> QED
  BY <1>3, <1>4, <1>5 DEF InUse

\* All of the block is taken.
LEMMA CarveWhole ==
    ASSUME NEW n \in Nat, NEW h, Heaped(h, n), NEW i \in Elements(h.order),
           NEW s, s = Size(h.array, i)
    PROVE  LET g == MakeTaken(Remove(h, i), i, s) IN
           GivenOut(g, h, i, n) /\ Size(g.array, i) = s
<1>0. PICK g : g = MakeTaken(Remove(h, i), i, s)
  OBVIOUS
<1>1. PICK f, m, B, L, q : /\ f = Remove(h, i) /\ m = h.array /\ B = h.blocks
                           /\ L = Elements(h.order) /\ q = g.array
  OBVIOUS
<1>2. /\ m \in Mem(n) /\ B \in SUBSET (0 .. n - 1) /\ Tiles(m, B, n)
      /\ \A a \in L : /\ a \in B /\ a \in Nat /\ a # 0 /\ a # n - 2 /\ Size(m, a) \in Nat
                      /\ Size(m, a) >= 4 /\ a + Size(m, a) <= n /\ m[a] = Size(m, a)
  BY <1>1, Room
<1>3. /\ Listed(f, n) /\ f.array \in Mem(n) /\ f.blocks = B /\ Elements(f.order) = L \ {i}
      /\ \A b \in B :
            /\ f.array[b] = m[b] /\ Size(f.array, b) = Size(m, b)
            /\ f.array[b + Size(m, b) - 1] = m[b + Size(m, b) - 1]
      /\ \A b \in B \ L : \A w \in b .. b + Size(m, b) - 1 : f.array[w] = m[w]
  BY <1>1, OffTheList DEF InUse
<1>4. /\ i \in L /\ i \in B /\ s \in Nat /\ s >= 4 /\ i + s <= n /\ i \in 0 .. n - 1 /\ s = Size(m, i)
      /\ i # 0 /\ i # n - 2 /\ n \in Nat /\ i \in i .. i + s - 1 /\ i + s - 1 \in i .. i + s - 1
      /\ i \in Nat
  BY <1>1, <1>2
<1>5. OffLinks(i, L \ {i}) /\ OffLinks(i + s - 1, L \ {i})
  BY ONLY <1>2, <1>4, Away DEF OffLinks
<1>6. /\ Listed(g, n) /\ g.blocks = B \cup {i} /\ g.order = f.order
      /\ \A w \in 0 .. n - 1 : q[w] = IF w = i \/ w = i + s - 1 THEN -s ELSE f.array[w]
  <2>0. DOMAIN f.array = 0 .. n - 1
    BY <1>3 DEF Mem
  <2>1. g = MakeTaken(f, i, s)
    BY <1>0, <1>1
  <2>2. /\ Listed(f, n) /\ i \in 0 .. n - 1 /\ s \in Nat /\ s >= 2 /\ i + s <= n /\ n \in Nat
        /\ OffLinks(i, Elements(f.order)) /\ OffLinks(i + s - 1, Elements(f.order))
    BY <1>3, <1>4, <1>5
  <2> QED
    <3>1. /\ Listed(g, n) /\ g.blocks = f.blocks \cup {i} /\ g.order = f.order
          /\ Stamps(g.array, f.array, i, -s, s)
      <4>1. Takeable(f, i, s, n)
        BY ONLY <2>2 DEF Takeable
      <4>2. Marked(g, f, i, s, n)
        BY ONLY <2>1, <4>1, Taken
      <4> QED
        BY ONLY <4>2 DEF Marked
    <3>2. \A w \in 0 .. n - 1 : g.array[w] = IF w = i \/ w = i + s - 1 THEN -s ELSE f.array[w]
      BY ONLY <2>0, <3>1 DEF Stamps
    <3>3. q = g.array /\ f.blocks = B
      BY ONLY <1>1, <1>3
    <3> QED
      BY ONLY <3>1, <3>2, <3>3
<1>7. \A b \in B : /\ b \in Nat /\ Size(m, b) \in Nat /\ Size(m, b) >= 2 /\ b + Size(m, b) <= n
                   /\ Right(m, b) = b + Size(m, b) /\ m[b + Size(m, b) - 1] = m[b]
                   /\ b # i => i + s <= b \/ b + Size(m, b) <= i
  BY <1>2, <1>4, Spans
<1>8. g.blocks = B /\ Elements(g.order) = L \ {i} /\ q \in Mem(n)
  BY <1>1, <1>3, <1>4, <1>6 DEF Listed
<1>9. ASSUME NEW b \in B \ {i}, NEW w \in b .. b + Size(m, b) - 1
      PROVE  q[w] = f.array[w]
  <2>1. w \in 0 .. n - 1 /\ w # i /\ w # i + s - 1
    <3>1. b \in B \ {i} /\ w \in b .. b + Size(m, b) - 1
      BY <1>9
    <3> QED
      BY ONLY <1>4, <1>7, <3>1
  <2> QED
    BY <1>6, <2>1
<1>10. \A b \in B \ {i} : /\ q[b] = m[b] /\ q[b + Size(m, b) - 1] = m[b + Size(m, b) - 1]
                          /\ Size(q, b) = Size(m, b)
  <2> SUFFICES ASSUME NEW b \in B \ {i}
               PROVE  /\ q[b] = m[b] /\ q[b + Size(m, b) - 1] = m[b + Size(m, b) - 1]
                      /\ Size(q, b) = Size(m, b)
    OBVIOUS
  <2>1. b \in b .. b + Size(m, b) - 1 /\ b + Size(m, b) - 1 \in b .. b + Size(m, b) - 1
    BY <1>7
  <2>2. q[b] = m[b] /\ q[b + Size(m, b) - 1] = m[b + Size(m, b) - 1]
    BY <1>3, <1>9, <2>1
  <2> QED
    BY <2>2 DEF Size
<1>11. q[i] = -s /\ q[i + s - 1] = -s /\ Size(q, i) = s
  <2>1. i + s - 1 \in 0 .. n - 1
    BY <1>4
  <2>2. q[i] = -s /\ q[i + s - 1] = -s
    BY <1>4, <1>6, <2>1
  <2> QED
    BY <1>4, <2>2 DEF Size
<1>12. Tiles(q, B, n)
  <2>1. \A b \in B : Size(q, b) = Size(m, b) /\ q[b + Size(m, b) - 1] = q[b]
    BY <1>4, <1>7, <1>10, <1>11
  <2> QED
    BY <1>2, <1>8, <2>1, Kept
<1>13. \A b \in B : b \in L <=> IsAvail(m, b)
  BY <1>1 DEF Heaped
<1>14. L \ {i} = {b \in B : IsAvail(q, b)}
  <2>1. ~IsAvail(q, i)
    BY <1>4, <1>11 DEF IsAvail
  <2>2. \A b \in B \ {i} : IsAvail(q, b) <=> b \in L
    BY <1>10, <1>13 DEF IsAvail
  <2> QED
    BY <1>2, <2>1, <2>2
<1>15. \A b \in L \ {i} : Right(q, b) \notin L \ {i}
  BY <1>1, <1>2, <1>10 DEF Heaped, Right
<1>16. /\ 0 \in B /\ n - 2 \in B /\ q[0] = -2 /\ q[n - 2] = -2
       /\ \A b \in B : b \notin {0, n - 2} => Size(q, b) >= 4
  BY <1>1, <1>4, <1>10, <1>11 DEF Heaped
<1>17. Heaped(g, n)
  BY ONLY <1>1, <1>2, <1>6, <1>8, <1>12, <1>14, <1>15, <1>16 DEF Heaped
<1>18. InUse(g) = InUse(h) \cup {i}
  BY <1>1, <1>2, <1>4, <1>8 DEF InUse
<1>19. Preserved(g, h, InUse(h))
  <2>1. \A b \in B \ L : b \in B \ {i} /\ \A w \in b .. b + Size(m, b) - 1 : q[w] = m[w]
    BY <1>3, <1>4, <1>9
  <2> QED
    BY ONLY <1>1, <1>8, <2>1 DEF Preserved, InUse
<1> QED
  BY ONLY <1>0, <1>1, <1>11, <1>17, <1>18, <1>19 DEF GivenOut

\* The first k words are taken, the rest becomes an available block.
LEMMA CarveSplit ==
    ASSUME NEW n \in Nat, NEW h, Heaped(h, n), NEW i \in Elements(h.order),
           NEW k \in Nat, k >= 4, NEW e \in Nat, e >= 4, Size(h.array, i) = k + e
    PROVE  LET g == MakeAvail(MakeTaken(Remove(h, i), i, k), i + k, e) IN
           GivenOut(g, h, i, n) /\ Size(g.array, i) = k
<1>0. PICK g : g = MakeAvail(MakeTaken(Remove(h, i), i, k), i + k, e)
  OBVIOUS
<1>1. PICK f, m, B, L, u, q : /\ f = Remove(h, i) /\ m = h.array /\ B = h.blocks
                              /\ L = Elements(h.order) /\ u = MakeTaken(f, i, k) /\ q = g.array
  OBVIOUS
<1>2. /\ m \in Mem(n) /\ B \in SUBSET (0 .. n - 1) /\ Tiles(m, B, n)
      /\ \A a \in L : /\ a \in B /\ a \in Nat /\ a # 0 /\ a # n - 2 /\ Size(m, a) \in Nat
                      /\ Size(m, a) >= 4 /\ a + Size(m, a) <= n /\ m[a] = Size(m, a)
  BY <1>1, Room
<1>3. /\ Listed(f, n) /\ f.array \in Mem(n) /\ f.blocks = B /\ Elements(f.order) = L \ {i}
      /\ \A b \in B :
            /\ f.array[b] = m[b] /\ Size(f.array, b) = Size(m, b)
            /\ f.array[b + Size(m, b) - 1] = m[b + Size(m, b) - 1]
      /\ \A b \in B \ L : \A w \in b .. b + Size(m, b) - 1 : f.array[w] = m[w]
  BY <1>1, OffTheList DEF InUse
<1>4. /\ i \in L /\ i \in B /\ i + k + e <= n /\ i \in 0 .. n - 1 /\ Size(m, i) = k + e
      /\ i # 0 /\ i # n - 2 /\ n \in Nat /\ i \in Nat /\ k \in Nat /\ k >= 4 /\ e \in Nat /\ e >= 4
      /\ i + k \in 1 .. n - 4 /\ i + k <= n /\ k >= 2
  BY <1>1, <1>2
<1>7. \A b \in B : /\ b \in Nat /\ Size(m, b) \in Nat /\ Size(m, b) >= 2 /\ b + Size(m, b) <= n
                   /\ Right(m, b) = b + Size(m, b) /\ m[b + Size(m, b) - 1] = m[b]
                   /\ b # i => i + k + e <= b \/ b + Size(m, b) <= i
  BY <1>2, <1>4, Spans
<1>5. \A a \in L \ {i} : i + k + e <= a \/ a + 4 <= i
  <2> SUFFICES ASSUME NEW a \in L \ {i} PROVE i + k + e <= a \/ a + 4 <= i
    OBVIOUS
  <2>1. a \in B /\ a # i /\ Size(m, a) >= 4
    BY <1>2
  <2>2. a \in Nat /\ Size(m, a) \in Nat /\ (i + k + e <= a \/ a + Size(m, a) <= i)
    BY ONLY <1>7, <2>1
  <2> QED
    BY ONLY <1>4, <2>1, <2>2
<1>6. /\ Listed(u, n) /\ u.blocks = B /\ Elements(u.order) = L \ {i}
      /\ \A w \in 0 .. n - 1 : u.array[w] = IF w = i \/ w = i + k - 1 THEN -k ELSE f.array[w]
  <2>0. DOMAIN f.array = 0 .. n - 1
    BY <1>3 DEF Mem
  <2>1. OffLinks(i, Elements(f.order)) /\ OffLinks(i + k - 1, Elements(f.order))
    <3>1. Elements(f.order) = L \ {i} /\ \A a \in L \ {i} : a \in Nat /\ Size(m, a) \in Nat /\ Size(m, a) >= 4
      BY ONLY <1>2, <1>3
    <3>2. i \in Nat /\ k \in Nat /\ e \in Nat /\ k >= 4 /\ e >= 4
      BY ONLY <1>4
    <3>3. \A a \in L \ {i} : i + k + e <= a \/ a + 4 <= i
      BY ONLY <1>5
    <3>4. \A a \in L \ {i} : i # a + 1 /\ i # a + 2 /\ i + k - 1 # a + 1 /\ i + k - 1 # a + 2
      BY ONLY <3>1, <3>2, <3>3
    <3> QED
      BY ONLY <3>1, <3>4 DEF OffLinks
  <2>2. u = MakeTaken(f, i, k) /\ B \cup {i} = B
    BY <1>1, <1>4
  <2> QED
    <3>1. /\ Listed(u, n) /\ u.blocks = f.blocks \cup {i} /\ u.order = f.order
          /\ Stamps(u.array, f.array, i, -k, k)
      <4>1. Takeable(f, i, k, n)
        BY ONLY <1>3, <1>4, <2>1 DEF Takeable
      <4>2. Marked(u, f, i, k, n)
        BY ONLY <2>2, <4>1, Taken
      <4> QED
        BY ONLY <4>2 DEF Marked
    <3>2. \A w \in 0 .. n - 1 : u.array[w] = IF w = i \/ w = i + k - 1 THEN -k ELSE f.array[w]
      BY ONLY <2>0, <3>1 DEF Stamps
    <3>3. u.blocks = B /\ Elements(u.order) = L \ {i}
      <4>1. f.blocks = B /\ Elements(f.order) = L \ {i}
        BY ONLY <1>3
      <4> QED
        BY ONLY <2>2, <3>1, <4>1
    <3> QED
      BY ONLY <3>1, <3>2, <3>3
<1>8. /\ Listed(g, n) /\ g.blocks = B \cup {i + k} /\ Elements(g.order) = (L \ {i}) \cup {i + k}
      /\ q[i + k] = e /\ q[i + k + e - 1] = e
      /\ \A w \in 0 .. n - 1 :
            (w \notin {i + k, i + k + 1, i + k + 2, i + k + e - 1} /\ \A a \in L \ {i} : w # a + 2)
               => q[w] = u.array[w]
  <2>1. Apart(i + k, e, Elements(u.order))
    BY <1>2, <1>4, <1>5, <1>6 DEF Apart
  <2>2. g = MakeAvail(u, i + k, e)
    BY <1>0, <1>1
  <2>3. /\ Listed(g, n) /\ g.blocks = u.blocks \cup {i + k}
        /\ Elements(g.order) = Elements(u.order) \cup {i + k}
        /\ AvailWords(g.array, u.array, i + k, e, Elements(u.order))
    <3>1. Freeable(u, i + k, e, n)
      BY ONLY <1>4, <1>6, <2>1 DEF Freeable
    <3>2. Added(g, u, i + k, e, n)
      BY ONLY <2>2, <3>1, MadeAvail
    <3> QED
      BY ONLY <3>2 DEF Added
  <2>4. DOMAIN u.array = 0 .. n - 1
    BY <1>6 DEF Listed, Mem
  <2> QED
    BY ONLY <1>1, <1>6, <2>3, <2>4 DEF AvailWords
<1>9. ASSUME NEW b \in B \ {i}, NEW w \in b .. b + Size(m, b) - 1,
             b \notin L \/ w = b \/ w = b + Size(m, b) - 1
      PROVE  q[w] = m[w]
  <2>0. b \in B \ {i} /\ w \in b .. b + Size(m, b) - 1 /\ (b \notin L \/ w = b \/ w = b + Size(m, b) - 1)
    BY <1>9
  <2>1. w \in 0 .. n - 1 /\ w # i /\ w # i + k - 1 /\ w \notin {i + k, i + k + 1, i + k + 2, i + k + e - 1}
    BY ONLY <1>4, <1>7, <2>0
  <2>2. \A a \in L \ {i} : w # a + 2
    <3> SUFFICES ASSUME NEW a \in L \ {i} PROVE w # a + 2
      OBVIOUS
    <3>1. a \in B /\ Size(m, a) >= 4 /\ (b # a \/ w = b \/ w = b + Size(m, b) - 1)
      BY <1>2, <2>0
    <3> QED
      BY <1>2, <2>0, <3>1, Away
  <2>3. q[w] = u.array[w]
    BY <1>8, <2>1, <2>2
  <2>4. u.array[w] = f.array[w]
    BY <1>6, <2>1
  <2>5. f.array[w] = m[w]
    BY <1>3, <2>0
  <2> QED
    BY <2>3, <2>4, <2>5
<1>10. \A b \in B \ {i} : /\ q[b] = m[b] /\ q[b + Size(m, b) - 1] = m[b + Size(m, b) - 1]
                          /\ Size(q, b) = Size(m, b)
  <2> SUFFICES ASSUME NEW b \in B \ {i}
               PROVE  /\ q[b] = m[b] /\ q[b + Size(m, b) - 1] = m[b + Size(m, b) - 1]
                      /\ Size(q, b) = Size(m, b)
    OBVIOUS
  <2>1. b \in b .. b + Size(m, b) - 1 /\ b + Size(m, b) - 1 \in b .. b + Size(m, b) - 1
    BY <1>7
  <2>2. q[b] = m[b] /\ q[b + Size(m, b) - 1] = m[b + Size(m, b) - 1]
    BY <1>9, <2>1
  <2> QED
    BY <2>2 DEF Size
<1>11. q[i] = -k /\ q[i + k - 1] = -k /\ Size(q, i) = k
  <2>1. /\ i \in 0 .. n - 1 /\ i + k - 1 \in 0 .. n - 1
        /\ i \notin {i + k, i + k + 1, i + k + 2, i + k + e - 1}
        /\ i + k - 1 \notin {i + k, i + k + 1, i + k + 2, i + k + e - 1}
    BY ONLY <1>4
  <2>2. \A a \in L \ {i} : i # a + 2 /\ i + k - 1 # a + 2
    BY <1>2, <1>4, <1>5
  <2>3. q[i] = u.array[i] /\ q[i + k - 1] = u.array[i + k - 1]
    BY <1>8, <2>1, <2>2
  <2>4. q[i] = -k /\ q[i + k - 1] = -k
    BY <1>6, <2>1, <2>3
  <2> QED
    BY <1>4, <2>4 DEF Size
<1>12. q \in Mem(n) /\ Size(q, i + k) = e /\ q[i + k] = e /\ q[i + k + e - 1] = q[i + k]
  BY <1>1, <1>4, <1>8 DEF Listed, Size
<1>13. /\ Tiles(q, B \cup {i + k}, n) /\ i + k \in (0 .. n - 1) \ B
  <2>1. SameBorders(q, m, B \ {i})
    BY <1>10 DEF SameBorders
  <2>2. k >= 2 /\ e >= 2 /\ q[i + k - 1] = q[i]
    BY <1>4, <1>11
  <2> QED
    BY ONLY <1>2, <1>4, <1>11, <1>12, <2>1, <2>2, Cut
<1>14. \A b \in B : b \in L <=> IsAvail(m, b)
  BY <1>1 DEF Heaped
<1>15. (L \ {i}) \cup {i + k} = {b \in B \cup {i + k} : IsAvail(q, b)}
  <2>1. ~IsAvail(q, i) /\ IsAvail(q, i + k) /\ i + k \notin B
    BY <1>4, <1>11, <1>12, <1>13 DEF IsAvail
  <2>2. \A b \in B \ {i} : IsAvail(q, b) <=> b \in L
    BY <1>10, <1>14 DEF IsAvail
  <2> QED
    BY <1>2, <2>1, <2>2
<1>16. \A b \in (L \ {i}) \cup {i + k} : Right(q, b) \notin (L \ {i}) \cup {i + k}
  <2>1. \A b \in L : Right(m, b) \notin L
    BY <1>1 DEF Heaped
  <2>2. Right(q, i + k) = Right(m, i) /\ Right(q, i + k) # i + k
    BY <1>4, <1>7, <1>12 DEF Right
  <2>3. \A b \in L \ {i} : Right(q, b) = Right(m, b)
    BY <1>2, <1>10 DEF Right
  <2>4. \A b \in B : Right(m, b) \in B \cup {n}
    BY <1>2 DEF Tiles
  <2>5. \A b \in L : Right(m, b) # i + k
    BY <1>2, <1>4, <1>13, <2>4
  <2> QED
    BY <1>4, <2>1, <2>2, <2>3, <2>5
<1>17. /\ 0 \in B /\ n - 2 \in B /\ q[0] = -2 /\ q[n - 2] = -2
       /\ \A b \in B \cup {i + k} : b \notin {0, n - 2} => Size(q, b) >= 4
  BY <1>1, <1>4, <1>10, <1>11, <1>12 DEF Heaped
<1>18. B \cup {i + k} \in SUBSET (0 .. n - 1)
  BY <1>2, <1>13
<1>19. Heaped(g, n)
  BY ONLY <1>1, <1>8, <1>13, <1>15, <1>16, <1>17, <1>18 DEF Heaped
<1>20. InUse(g) = InUse(h) \cup {i}
  BY <1>1, <1>2, <1>4, <1>8, <1>13 DEF InUse
<1>21. Preserved(g, h, InUse(h))
  <2>1. \A b \in B \ L : b \in B \cup {i + k} /\ \A w \in b .. b + Size(m, b) - 1 : q[w] = m[w]
    BY <1>4, <1>9
  <2> QED
    BY ONLY <1>1, <1>8, <2>1 DEF Preserved, InUse
<1> QED
  BY ONLY <1>0, <1>1, <1>11, <1>19, <1>20, <1>21 DEF GivenOut

(***************************************************************************)
(* A block comes back and joins its neighbours.                            *)
(***************************************************************************)

\* The blocks of h from j on, for k words, are the block i and those of D; the blocks on
\* either side of them are not in the list.
Joins(h, D, i, j, k) ==
    /\ D \subseteq Elements(h.order) /\ j \in D \cup {i} /\ j + k \in h.blocks
    /\ \A b \in h.blocks : b \in D \cup {i} <=> j <= b /\ b < j + k
    /\ j + k \notin Elements(h.order)
    /\ \A b \in Elements(h.order) \ D : Right(h.array, b) # j

\* The blocks of D have left the list of the heap h, which is then f, and they and i
\* are no blocks any more.
Lacks(f, h, i, D, n) ==
    /\ Listed(f, n) /\ Elements(f.order) = Elements(h.order) \ D /\ f.blocks = (h.blocks \ {i}) \ D
    /\ SameButLinks(f.array, h.array, Elements(h.order))

\* Then they become one block.
LEMMA Merged ==
    ASSUME NEW n \in Nat, NEW h, Heaped(h, n), NEW i \in InUse(h), i # 0, i # n - 2,
           NEW D, NEW j, NEW k \in Nat, k >= 4, Joins(h, D, i, j, k),
           NEW f, Lacks(f, h, i, D, n)
    PROVE  GivenBack(MakeAvail(f, j, k), h, i, n)
<1>0. PICK g : g = MakeAvail(f, j, k)
  OBVIOUS
<1>a. /\ D \subseteq Elements(h.order) /\ j \in D \cup {i} /\ j + k \in h.blocks
      /\ \A b \in h.blocks : b \in D \cup {i} <=> j <= b /\ b < j + k
      /\ j + k \notin Elements(h.order)
      /\ \A b \in Elements(h.order) \ D : Right(h.array, b) # j
  BY DEF Joins
<1>b. /\ Listed(f, n) /\ Elements(f.order) = Elements(h.order) \ D /\ f.blocks = (h.blocks \ {i}) \ D
      /\ SameButLinks(f.array, h.array, Elements(h.order))
  BY DEF Lacks
<1>1. PICK m, B, L, q, X : /\ m = h.array /\ B = h.blocks /\ L = Elements(h.order) /\ q = g.array
                           /\ X = {b \in B : b < j \/ j + k <= b}
  OBVIOUS
<1>2. /\ m \in Mem(n) /\ B \in SUBSET (0 .. n - 1) /\ Tiles(m, B, n)
      /\ \A a \in L : /\ a \in B /\ a \in Nat /\ a # 0 /\ a # n - 2 /\ Size(m, a) \in Nat
                      /\ Size(m, a) >= 4 /\ a + Size(m, a) <= n /\ m[a] = Size(m, a)
  BY <1>1, Room
<1>3. \A b \in B : /\ b \in Nat /\ Size(m, b) \in Nat /\ Size(m, b) >= 2 /\ b + Size(m, b) <= n
                   /\ Right(m, b) = b + Size(m, b) /\ m[b + Size(m, b) - 1] = m[b]
                   /\ \A d \in B : d # b => b + Size(m, b) <= d \/ d + Size(m, d) <= b
  BY <1>2, Spans
<1>4. /\ n \in Nat /\ k \in Nat /\ k >= 4 /\ k >= 2 /\ j \in B /\ j \in Nat /\ j # 0 /\ j # n - 2
      /\ j + k \in B /\ j + k < n /\ j + k <= n /\ j \in 1 .. n - 4 /\ i \in B /\ i \notin L
  <2>1. i \in B /\ i \notin L /\ i \in Nat /\ i # 0
    BY <1>1, <1>3 DEF InUse
  <2>2. j \in B /\ j \in Nat /\ j # 0 /\ j # n - 2
    BY <1>a, <1>1, <1>2, <2>1
  <2>3. j + k \in B /\ j + k < n
    BY <1>a, <1>1, <1>2
  <2> QED
    BY <2>1, <2>2, <2>3
<1>5. \A b \in B : b \in D \cup {i} <=> j <= b /\ b < j + k
  BY <1>a, <1>1
<1>6. \A b : b \in X <=> b \in B /\ b \notin D \cup {i}
  BY <1>1, <1>3, <1>4, <1>5
<1>7. \A b \in X : b \in B /\ (j + k <= b \/ b + Size(m, b) <= j)
  <2> SUFFICES ASSUME NEW b \in X PROVE b \in B /\ (j + k <= b \/ b + Size(m, b) <= j)
    OBVIOUS
  <2>1. b \in B /\ (b < j \/ j + k <= b)
    BY <1>1
  <2> QED
    BY ONLY <1>3, <1>4, <2>1
<1>8. /\ f.array \in Mem(n) /\ DOMAIN f.array = 0 .. n - 1
      /\ \A b \in B : /\ f.array[b] = m[b]
                      /\ f.array[b + Size(m, b) - 1] = m[b + Size(m, b) - 1]
      /\ \A b \in B \ L : \A w \in b .. b + Size(m, b) - 1 : f.array[w] = m[w]
  <2>1. f.array \in Mem(n) /\ DOMAIN f.array = 0 .. n - 1
    BY <1>b DEF Listed, Mem
  <2>2. Roomy(m, B, L)
    BY <1>2 DEF Roomy
  <2>3. SameButLinks(f.array, m, L)
    BY <1>b, <1>1
  <2> QED
    <3>1. n \in Nat /\ m \in Mem(n) /\ B \in SUBSET (0 .. n - 1) /\ Tiles(m, B, n)
      BY <1>2, <1>4
    <3> QED
      BY ONLY <2>1, <2>2, <2>3, <3>1, Borders
<1>9. /\ Listed(g, n) /\ g.blocks = f.blocks \cup {j} /\ Elements(g.order) = (L \ D) \cup {j}
      /\ q[j] = k /\ q[j + k - 1] = k
      /\ \A w \in 0 .. n - 1 : (w \notin {j, j + 1, j + 2, j + k - 1} /\ \A a \in L \ D : w # a + 2)
                                  => q[w] = f.array[w]
  <2>1. Apart(j, k, L \ D)
    <3> SUFFICES ASSUME NEW a \in L \ D PROVE j + k <= a \/ a + 4 <= j
      BY DEF Apart
    <3>1. a \in X /\ Size(m, a) \in Nat /\ Size(m, a) >= 4 /\ a \in Nat
      BY <1>2, <1>4, <1>6
    <3>2. j + k <= a \/ a + Size(m, a) <= j
      BY <1>7, <3>1
    <3> QED
      BY ONLY <1>4, <3>1, <3>2
  <2>2. Elements(f.order) = L \ D
    BY <1>b, <1>1
  <2>3. Freeable(f, j, k, n) /\ g = MakeAvail(f, j, k)
    BY <1>b, <1>0, <1>4, <2>1, <2>2 DEF Freeable
  <2>4. /\ Listed(g, n) /\ g.blocks = f.blocks \cup {j}
        /\ Elements(g.order) = Elements(f.order) \cup {j}
        /\ AvailWords(g.array, f.array, j, k, Elements(f.order))
    <3>1. Added(g, f, j, k, n)
      BY ONLY <2>3, MadeAvail
    <3> QED
      BY ONLY <3>1 DEF Added
  <2> QED
    BY ONLY <1>1, <1>8, <2>2, <2>4 DEF AvailWords
<1>10. g.blocks = X \cup {j}
  <2>1. f.blocks = (B \ {i}) \ D
    BY <1>b, <1>1
  <2> QED
    BY ONLY <1>6, <1>9, <2>1
<1>11. ASSUME NEW b \in X, NEW w \in b .. b + Size(m, b) - 1,
              b \notin L \/ w = b \/ w = b + Size(m, b) - 1
       PROVE  q[w] = m[w]
  <2>0. b \in X /\ b \in B /\ w \in b .. b + Size(m, b) - 1 /\ (b \notin L \/ w = b \/ w = b + Size(m, b) - 1)
    BY <1>7, <1>11
  <2>1. w \in 0 .. n - 1 /\ w \notin {j, j + 1, j + 2, j + k - 1}
    BY ONLY <1>3, <1>4, <1>7, <2>0
  <2>2. \A a \in L \ D : w # a + 2
    <3> SUFFICES ASSUME NEW a \in L \ D PROVE w # a + 2
      OBVIOUS
    <3>1. a \in B /\ Size(m, a) >= 4 /\ (b # a \/ w = b \/ w = b + Size(m, b) - 1)
      BY <1>2, <2>0
    <3> QED
      BY ONLY <1>2, <1>4, <2>0, <3>1, Away
  <2>3. q[w] = f.array[w]
    BY <1>9, <2>1, <2>2
  <2>4. f.array[w] = m[w]
    BY <1>8, <2>0
  <2> QED
    BY <2>3, <2>4
<1>12. SameBorders(q, m, X)
  <2> SUFFICES ASSUME NEW b \in X
               PROVE  q[b] = m[b] /\ q[b + Size(m, b) - 1] = m[b + Size(m, b) - 1]
    BY DEF SameBorders
  <2>1. b \in b .. b + Size(m, b) - 1 /\ b + Size(m, b) - 1 \in b .. b + Size(m, b) - 1
    BY <1>3, <1>7
  <2> QED
    BY <1>11, <2>1
<1>13. q \in Mem(n) /\ Size(q, j) = k /\ q[j + k - 1] = q[j] /\ IsAvail(q, j)
  BY <1>1, <1>4, <1>9 DEF Listed, Size, IsAvail
<1>14. Tiles(q, X \cup {j}, n) /\ \A b \in X : Size(q, b) = Size(m, b)
  <2>1. j + k \in B \cup {n} /\ X = Outside(B, j, k)
    BY <1>1, <1>4 DEF Outside
  <2> QED
    BY ONLY <1>2, <1>4, <1>12, <1>13, <2>1, Merge
<1>15. \A b \in X : q[b] = m[b]
  BY <1>12 DEF SameBorders
<1>16. \A b \in B : b \in L <=> IsAvail(m, b)
  BY <1>1 DEF Heaped
<1>17. (L \ D) \cup {j} = {b \in X \cup {j} : IsAvail(q, b)}
  <2>1. \A b \in X : IsAvail(q, b) <=> b \in L \ D
    BY <1>6, <1>15, <1>16 DEF IsAvail
  <2>2. \A b \in L \ D : b \in X
    BY <1>2, <1>4, <1>6
  <2> QED
    BY ONLY <1>13, <2>1, <2>2
<1>18. \A b \in (L \ D) \cup {j} : Right(q, b) \notin (L \ D) \cup {j}
  <2>1. \A b \in L \ D : b \in X
    BY <1>2, <1>4, <1>6
  <2>2. \A b \in L \ D : Right(q, b) = Right(m, b)
    BY <1>14, <2>1 DEF Right
  <2>3. \A b \in L \ D : Right(m, b) \notin L /\ Right(m, b) # j
    BY <1>a, <1>1 DEF Heaped
  <2>4. Right(q, j) = j + k /\ j + k # j /\ j + k \notin L
    BY <1>a, <1>1, <1>4, <1>13 DEF Right
  <2> QED
    BY ONLY <2>2, <2>3, <2>4
<1>19. /\ 0 \in X /\ n - 2 \in X /\ q[0] = -2 /\ q[n - 2] = -2
       /\ \A b \in X \cup {j} : b \notin {0, n - 2} => Size(q, b) >= 4
  <2>1. /\ 0 \in B /\ n - 2 \in B /\ m[0] = -2 /\ m[n - 2] = -2
        /\ \A b \in B : b \notin {0, n - 2} => Size(m, b) >= 4
    BY <1>1 DEF Heaped
  <2>2. 0 \in X /\ n - 2 \in X
    <3>1. \A d \in D : d # 0 /\ d # n - 2
      BY <1>a, <1>1, <1>2
    <3>2. i # 0 /\ i # n - 2
      OBVIOUS
    <3> QED
      BY ONLY <1>6, <2>1, <3>1, <3>2
  <2> QED
    BY <1>4, <1>7, <1>13, <1>14, <1>15, <2>1, <2>2
<1>20. X \cup {j} \in SUBSET (0 .. n - 1)
  BY <1>2, <1>4, <1>7
<1>21. Heaped(g, n)
  BY ONLY <1>1, <1>9, <1>10, <1>14, <1>17, <1>18, <1>19, <1>20 DEF Heaped
<1>22. InUse(g) = InUse(h) \ {i}
  <2>1. D \subseteq L /\ j \in D \cup {i}
    BY <1>a, <1>1
  <2> QED
    BY ONLY <1>1, <1>2, <1>4, <1>6, <1>9, <1>10, <2>1 DEF InUse
<1>23. Preserved(g, h, InUse(h) \ {i})
  <2>1. \A b \in (B \ L) \ {i} : b \in X /\ b \in B
    BY <1>a, <1>1, <1>6
  <2>2. \A b \in (B \ L) \ {i} : b \in X \cup {j} /\ \A w \in b .. b + Size(m, b) - 1 : q[w] = m[w]
    BY <1>11, <2>1
  <2> QED
    BY ONLY <1>1, <1>10, <2>2 DEF Preserved, InUse
<1> QED
  BY ONLY <1>0, <1>21, <1>22, <1>23 DEF GivenBack

\* A block that is not the last one has a block on its right.
LEMMA RightOf ==
    ASSUME NEW n \in Nat, NEW h, Heaped(h, n), NEW b \in h.blocks, b # n - 2
    PROVE  Right(h.array, b) \in h.blocks /\ Right(h.array, b) = b + Size(h.array, b)
<1>1. h.array \in Mem(n) /\ h.blocks \in SUBSET (0 .. n - 1) /\ Tiles(h.array, h.blocks, n)
  BY Room
<1>2. n - 2 \in h.blocks
  BY DEF Heaped
<1>3. /\ b \in Nat /\ Size(h.array, b) \in Nat /\ Size(h.array, b) >= 2 /\ b + Size(h.array, b) <= n
      /\ Right(h.array, b) = b + Size(h.array, b)
      /\ b + Size(h.array, b) <= n - 2 \/ (n - 2) + Size(h.array, n - 2) <= b
      /\ Size(h.array, n - 2) \in Nat /\ Size(h.array, n - 2) >= 2
  BY <1>1, <1>2, Spans
<1>4. Right(h.array, b) \in h.blocks \cup {n}
  BY <1>1 DEF Tiles
<1>5. Right(h.array, b) # n
  BY ONLY <1>3, n \in Nat
<1> QED
  BY <1>3, <1>4, <1>5

\* Two blocks do not have the same block on their right.
LEMMA OneLeft ==
    ASSUME NEW n \in Nat, NEW m \in Mem(n), NEW B \in SUBSET (0 .. n - 1), Tiles(m, B, n),
           NEW b \in B, NEW d \in B, Right(m, b) = Right(m, d)
    PROVE  b = d
<1>1. /\ b \in Nat /\ Size(m, b) \in Nat /\ Size(m, b) >= 2 /\ Right(m, b) = b + Size(m, b)
      /\ d \in Nat /\ Size(m, d) \in Nat /\ Size(m, d) >= 2 /\ Right(m, d) = d + Size(m, d)
      /\ b # d => b + Size(m, b) <= d \/ d + Size(m, d) <= b
  BY Spans
<1>2. Right(m, b) = Right(m, d)
  OBVIOUS
<1> QED
  BY ONLY <1>1, <1>2

\* What is done with the heap h in free() of block i, when l and r are its neighbours.
Rejoined(h, i, l, r) ==
    LET h0 == [h EXCEPT !.blocks = @ \ {i}]
        h1 == IF IsAvail(h.array, l) THEN Drop(h0, l) ELSE h0
        h2 == IF IsAvail(h.array, r) THEN Drop(h1, r) ELSE h1
        sz == Size(h.array, i) + (IF IsAvail(h.array, l) THEN Size(h.array, l) ELSE 0)
                               + (IF IsAvail(h.array, r) THEN Size(h.array, r) ELSE 0)
    IN  MakeAvail(h2, IF IsAvail(h.array, l) THEN l ELSE i, sz)

\* A block of the list is dropped after others have been.
LEMMA DroppedToo ==
    ASSUME NEW n \in Nat, NEW h, h.array \in Mem(n), NEW i, NEW D, NEW f, Lacks(f, h, i, D, n),
           NEW d \in Elements(h.order), d \notin D
    PROVE  Lacks(Drop(f, d), h, i, D \cup {d}, n)
<1>1. PICK g : g = Drop(f, d)
  OBVIOUS
<1>2. /\ Listed(f, n) /\ Elements(f.order) = Elements(h.order) \ D /\ f.blocks = (h.blocks \ {i}) \ D
      /\ SameButLinks(f.array, h.array, Elements(h.order))
  BY DEF Lacks
<1>3. n \in Nat /\ Listed(f, n) /\ d \in Elements(f.order)
  BY <1>2
<1>4. /\ Listed(g, n) /\ g.blocks = f.blocks \ {d} /\ Elements(g.order) = Elements(f.order) \ {d}
      /\ SameButLinks(g.array, f.array, Elements(f.order))
  BY ONLY <1>1, <1>3, Dropped
<1>5. DOMAIN h.array = 0 .. n - 1 /\ DOMAIN f.array = 0 .. n - 1
  BY <1>2 DEF Listed, Mem
<1>6. SameButLinks(g.array, h.array, Elements(h.order))
  BY ONLY <1>2, <1>4, <1>5 DEF SameButLinks
<1>7. /\ Elements(g.order) = Elements(h.order) \ (D \cup {d})
      /\ g.blocks = (h.blocks \ {i}) \ (D \cup {d})
  BY ONLY <1>2, <1>4
<1> QED
  BY ONLY <1>1, <1>4, <1>6, <1>7 DEF Lacks

\* A block comes back.
LEMMA Returned ==
    ASSUME NEW n \in Nat, NEW h, Heaped(h, n), NEW i \in InUse(h), i # 0, i # n - 2
    PROVE  GivenBack(Rejoined(h, i, Left(h.array, i), Right(h.array, i)), h, i, n)
<1>1. PICK m, B, L, l, r, g, h0 :
          /\ m = h.array /\ B = h.blocks /\ L = Elements(h.order) /\ l = Left(m, i) /\ r = Right(m, i)
          /\ g = Rejoined(h, i, l, r) /\ h0 = [h EXCEPT !.blocks = @ \ {i}]
  OBVIOUS
<1>2. /\ m \in Mem(n) /\ B \in SUBSET (0 .. n - 1) /\ Tiles(m, B, n)
      /\ \A a \in L : a \in B /\ a # 0 /\ a # n - 2 /\ Size(m, a) >= 4
  BY <1>1, Room
<1>3. \A b \in B : /\ b \in Nat /\ Size(m, b) \in Nat /\ Size(m, b) >= 2 /\ b + Size(m, b) <= n
                   /\ Right(m, b) = b + Size(m, b)
                   /\ \A d \in B : d # b => b + Size(m, b) <= d \/ d + Size(m, d) <= b
  BY <1>2, Spans
<1>4. i \in B /\ i \notin L /\ i # 0 /\ i # n - 2 /\ n \in Nat /\ Size(m, i) >= 4
  BY <1>1 DEF InUse, Heaped
<1>5. l \in B /\ Right(m, l) = i /\ l < i
  BY <1>1, <1>2, <1>4, LeftOf
<1>6. r \in B /\ r = i + Size(m, i)
  BY <1>1, <1>4, RightOf
<1>7. \A b \in B : IsAvail(m, b) <=> b \in L
  BY <1>1 DEF Heaped
<1>8. \A b \in L : Right(m, b) \notin L
  BY <1>1 DEF Heaped
<1>9. \A b \in B : Right(m, b) = i => b = l
  BY ONLY <1>2, <1>4, <1>5, OneLeft
<1>10. i = l + Size(m, l)
  BY <1>3, <1>5
<1>11. r \in L => Right(m, r) \in B /\ Right(m, r) = r + Size(m, r) /\ Right(m, r) \notin L
  BY <1>1, <1>2, <1>8, RightOf
<1>12. Lacks(h0, h, i, {}, n)
  <2>1. h0.array = m /\ h0.order = h.order /\ h0.blocks = B \ {i} /\ h0.avail = h.avail /\ IsHeap(h0)
    BY <1>1 DEF Heaped, Listed, IsHeap
  <2>2. Listed(h0, n)
    BY <1>1, <2>1 DEF Heaped, Listed
  <2>3. SameButLinks(m, m, L)
    BY DEF SameButLinks
  <2> QED
    BY <1>1, <2>1, <2>2, <2>3 DEF Lacks
<1>13. n \in Nat /\ Heaped(h, n) /\ i \in InUse(h) /\ i # 0 /\ i # n - 2
  OBVIOUS
<1>14. n \in Nat /\ h.array \in Mem(n)
  BY <1>1, <1>2
<1>15. CASE l \notin L /\ r \notin L
  <2>1. g = MakeAvail(h0, i, Size(m, i))
    BY <1>1, <1>3, <1>4, <1>5, <1>6, <1>7, <1>15 DEF Rejoined
  <2>2. \A b \in B : b \in {} \cup {i} <=> i <= b /\ b < i + Size(m, i)
    BY <1>3, <1>4
  <2>3. \A b \in L \ {} : Right(m, b) # i
    BY <1>2, <1>9, <1>15
  <2>4. Joins(h, {}, i, i, Size(m, i)) /\ Size(m, i) \in Nat /\ Size(m, i) >= 4
    BY <1>1, <1>3, <1>4, <1>6, <1>15, <2>2, <2>3 DEF Joins
  <2> QED
    BY ONLY <1>1, <1>12, <1>13, <2>1, <2>4, Merged
<1>16. CASE l \in L /\ r \notin L
  <2>0. PICK k : k = Size(m, i) + Size(m, l)
    OBVIOUS
  <2>1. PICK f : f = Drop(h0, l)
    OBVIOUS
  <2>2. g = MakeAvail(f, l, k)
    BY <1>1, <1>3, <1>4, <1>5, <1>6, <1>7, <1>16, <2>0, <2>1 DEF Rejoined
  <2>3. \A b \in B : b \in {l} \cup {i} <=> l <= b /\ b < l + k
    BY ONLY <1>3, <1>4, <1>5, <1>10, <2>0
  <2>4. \A b \in L \ {l} : Right(m, b) # l
    BY <1>8, <1>16
  <2>5. l \in Elements(h.order) /\ l \notin {} /\ {} \cup {l} = {l}
    BY <1>1, <1>16
  <2>6. Lacks(f, h, i, {l}, n)
    BY ONLY <1>12, <1>14, <2>1, <2>5, DroppedToo
  <2>7. k \in Nat /\ k >= 4 /\ l + k = r
    BY <1>3, <1>4, <1>5, <1>6, <1>10, <2>0
  <2>8. Joins(h, {l}, i, l, k)
    BY ONLY <1>1, <1>6, <1>16, <2>3, <2>4, <2>7 DEF Joins
  <2> QED
    BY ONLY <1>1, <1>13, <2>2, <2>6, <2>7, <2>8, Merged
<1>17. CASE l \notin L /\ r \in L
  <2>0. PICK k : k = Size(m, i) + Size(m, r)
    OBVIOUS
  <2>1. PICK f : f = Drop(h0, r)
    OBVIOUS
  <2>2. g = MakeAvail(f, i, k)
    BY <1>1, <1>3, <1>4, <1>5, <1>6, <1>7, <1>17, <2>0, <2>1 DEF Rejoined
  <2>3. \A b \in B : b \in {r} \cup {i} <=> i <= b /\ b < i + k
    BY ONLY <1>3, <1>4, <1>6, <2>0
  <2>4. \A b \in L \ {r} : Right(m, b) # i
    BY <1>2, <1>9, <1>17
  <2>5. r \in Elements(h.order) /\ r \notin {} /\ {} \cup {r} = {r}
    BY <1>1, <1>17
  <2>6. Lacks(f, h, i, {r}, n)
    BY ONLY <1>12, <1>14, <2>1, <2>5, DroppedToo
  <2>7. k \in Nat /\ k >= 4 /\ i + k = Right(m, r)
    BY <1>3, <1>4, <1>6, <1>11, <1>17, <2>0
  <2>8. Joins(h, {r}, i, i, k)
    BY ONLY <1>1, <1>11, <1>17, <2>3, <2>4, <2>7 DEF Joins
  <2> QED
    BY ONLY <1>1, <1>13, <2>2, <2>6, <2>7, <2>8, Merged
<1>18. CASE l \in L /\ r \in L
  <2>0. PICK k : k = Size(m, i) + Size(m, l) + Size(m, r)
    OBVIOUS
  <2>1. PICK e, f : e = Drop(h0, l) /\ f = Drop(e, r)
    OBVIOUS
  <2>2. g = MakeAvail(f, l, k)
    BY <1>1, <1>5, <1>6, <1>7, <1>18, <2>0, <2>1 DEF Rejoined
  <2>3. \A b \in B : b \in {l, r} \cup {i} <=> l <= b /\ b < l + k
    BY ONLY <1>3, <1>4, <1>5, <1>6, <1>10, <2>0
  <2>4. \A b \in L \ {l, r} : Right(m, b) # l
    BY <1>8, <1>18
  <2>5. l \in Elements(h.order) /\ l \notin {} /\ {} \cup {l} = {l}
    BY <1>1, <1>18
  <2>6. Lacks(e, h, i, {l}, n)
    BY ONLY <1>12, <1>14, <2>1, <2>5, DroppedToo
  <2>7. r \in Elements(h.order) /\ r \notin {l} /\ {l} \cup {r} = {l, r}
    BY <1>1, <1>3, <1>4, <1>5, <1>6, <1>18
  <2>8. Lacks(f, h, i, {l, r}, n)
    BY ONLY <1>14, <2>1, <2>6, <2>7, DroppedToo
  <2>9. k \in Nat /\ k >= 4 /\ l + k = Right(m, r)
    BY <1>3, <1>4, <1>5, <1>6, <1>10, <1>11, <1>18, <2>0
  <2>10. Joins(h, {l, r}, i, l, k)
    BY ONLY <1>1, <1>11, <1>18, <2>3, <2>4, <2>9 DEF Joins
  <2> QED
    BY ONLY <1>1, <1>13, <2>2, <2>8, <2>9, <2>10, Merged
<1> QED
  BY <1>1, <1>15, <1>16, <1>17, <1>18

(***************************************************************************)
(* heapInit()                                                              *)
(***************************************************************************)

\* A word that is negative says that its block is taken, and how long it is.
LEMMA Negative ==
    ASSUME NEW m, NEW i, NEW k \in Nat, k > 0, m[i] = -k
    PROVE  Size(m, i) = k /\ IsTaken(m, i) /\ ~IsAvail(m, i)
BY DEF Size, IsTaken, IsAvail

\* It is set up as two blocks that stay taken and an available one between them.
LEMMA Begin ==
    ASSUME NEW n \in Nat, n >= 12, NEW h, Listed(h, n), h.order = <<>>, h.blocks = {}
    PROVE  LET g == MakeTaken(MakeAvail(MakeTaken(h, 0, 2), 2, n - 4), n - 2, 2) IN
           Heaped(g, n) /\ InUse(g) = {0, n - 2} /\ g.blocks = {0, 2, n - 2}
<1>1. PICK u, v, g, q : /\ u = MakeTaken(h, 0, 2) /\ v = MakeAvail(u, 2, n - 4)
                        /\ g = MakeTaken(v, n - 2, 2) /\ q = g.array
  OBVIOUS
<1>2. /\ n \in Nat /\ n >= 12 /\ 0 \in 0 .. n - 1 /\ 2 \in Nat /\ 2 >= 2 /\ 0 + 2 <= n
      /\ 2 \in 1 .. n - 4 /\ n - 4 \in Nat /\ n - 4 >= 4 /\ 2 + (n - 4) <= n
      /\ n - 2 \in 0 .. n - 1 /\ (n - 2) + 2 <= n
  OBVIOUS
<1>3. Elements(h.order) = {}
  BY DEF Elements
<1>4. Listed(u, n) /\ u.blocks = {0} /\ Elements(u.order) = {} /\ Stamps(u.array, h.array, 0, -2, 2)
  <2>1. Listed(h, n) /\ OffLinks(0, Elements(h.order)) /\ OffLinks(0 + 2 - 1, Elements(h.order))
    BY <1>3 DEF OffLinks
  <2>2. /\ Listed(u, n) /\ u.blocks = h.blocks \cup {0} /\ u.order = h.order
        /\ Stamps(u.array, h.array, 0, -2, 2)
    <3>1. Takeable(h, 0, 2, n)
      BY ONLY <1>2, <2>1 DEF Takeable
    <3>2. Marked(u, h, 0, 2, n)
      BY ONLY <1>1, <3>1, Taken
    <3> QED
      BY ONLY <3>2 DEF Marked
  <2> QED
    BY <1>3, <2>2
<1>5. Listed(v, n) /\ v.blocks = {0, 2} /\ Elements(v.order) = {2} /\ AvailWords(v.array, u.array, 2, n - 4, {})
  <2>1. Listed(u, n) /\ Apart(2, n - 4, Elements(u.order))
    BY <1>4 DEF Apart
  <2>2. /\ Listed(v, n) /\ v.blocks = u.blocks \cup {2}
        /\ Elements(v.order) = Elements(u.order) \cup {2}
        /\ AvailWords(v.array, u.array, 2, n - 4, Elements(u.order))
    <3>1. Freeable(u, 2, n - 4, n)
      BY ONLY <1>2, <2>1 DEF Freeable
    <3>2. Added(v, u, 2, n - 4, n)
      BY ONLY <1>1, <3>1, MadeAvail
    <3> QED
      BY ONLY <3>2 DEF Added
  <2> QED
    BY <1>4, <2>2
<1>6. Listed(g, n) /\ g.blocks = {0, 2, n - 2} /\ Elements(g.order) = {2} /\ Stamps(q, v.array, n - 2, -2, 2)
  <2>1. Listed(v, n) /\ OffLinks(n - 2, Elements(v.order)) /\ OffLinks((n - 2) + 2 - 1, Elements(v.order))
    BY <1>2, <1>5 DEF OffLinks
  <2>2. /\ Listed(g, n) /\ g.blocks = v.blocks \cup {n - 2} /\ g.order = v.order
        /\ Stamps(q, v.array, n - 2, -2, 2)
    <3>1. Takeable(v, n - 2, 2, n)
      BY ONLY <1>2, <2>1 DEF Takeable
    <3>2. Marked(g, v, n - 2, 2, n)
      BY ONLY <1>1, <3>1, Taken
    <3> QED
      BY ONLY <1>1, <3>2 DEF Marked
  <2> QED
    BY <1>5, <2>2
<1>7. /\ DOMAIN h.array = 0 .. n - 1 /\ DOMAIN u.array = 0 .. n - 1 /\ DOMAIN v.array = 0 .. n - 1
      /\ q \in Mem(n)
  BY <1>1, <1>4, <1>5, <1>6 DEF Listed, Mem
<1>8. u.array[0] = -2 /\ u.array[1] = -2
  <2>1. \A w \in 0 .. n - 1 : u.array[w] = IF w = 0 \/ w = 0 + 2 - 1 THEN -2 ELSE h.array[w]
    BY ONLY <1>4, <1>7 DEF Stamps
  <2>2. 0 \in 0 .. n - 1 /\ 1 \in 0 .. n - 1 /\ 0 + 2 - 1 = 1
    BY ONLY <1>2
  <2> QED
    BY ONLY <2>1, <2>2
<1>9. v.array[0] = -2 /\ v.array[1] = -2 /\ v.array[2] = n - 4 /\ v.array[n - 3] = n - 4
  BY ONLY <1>2, <1>5, <1>7, <1>8 DEF AvailWords
<1>10. /\ q[0] = -2 /\ q[1] = -2 /\ q[2] = n - 4 /\ q[n - 3] = n - 4
       /\ q[n - 2] = -2 /\ q[n - 1] = -2
  <2>1. \A w \in 0 .. n - 1 : q[w] = IF w = n - 2 \/ w = (n - 2) + 2 - 1 THEN -2 ELSE v.array[w]
    BY ONLY <1>6, <1>7 DEF Stamps
  <2>2. /\ 0 \in 0 .. n - 1 /\ 1 \in 0 .. n - 1 /\ 2 \in 0 .. n - 1 /\ n - 3 \in 0 .. n - 1
        /\ n - 2 \in 0 .. n - 1 /\ n - 1 \in 0 .. n - 1 /\ (n - 2) + 2 - 1 = n - 1
        /\ n - 3 # n - 2 /\ n - 3 # n - 1 /\ 2 # n - 2 /\ 2 # n - 1 /\ 1 # n - 2 /\ 1 # n - 1
        /\ 0 # n - 2 /\ 0 # n - 1
    BY ONLY <1>2
  <2>3. q[0] = v.array[0] /\ q[1] = v.array[1] /\ q[2] = v.array[2] /\ q[n - 3] = v.array[n - 3]
    BY ONLY <2>1, <2>2
  <2>4. q[n - 2] = -2 /\ q[n - 1] = -2
    BY ONLY <2>1, <2>2
  <2> QED
    BY ONLY <1>9, <2>3, <2>4
<1>11. Size(q, 0) = 2 /\ Size(q, 2) = n - 4 /\ Size(q, n - 2) = 2
  <2>1. Size(q, 0) = 2 /\ Size(q, n - 2) = 2
    BY ONLY <1>10, Negative
  <2>2. ~(q[2] < 0)
    BY ONLY <1>2, <1>10
  <2> QED
    BY ONLY <1>10, <2>1, <2>2 DEF Size
<1>12. Right(q, 0) = 2 /\ Right(q, 2) = n - 2 /\ Right(q, n - 2) = n
  BY <1>2, <1>11 DEF Right
<1>13. Tiles(q, {0, 2, n - 2}, n)
  <2> SUFFICES ASSUME NEW b \in {0, 2, n - 2}
               PROVE  /\ Size(q, b) >= 2
                      /\ q[b + Size(q, b) - 1] = q[b]
                      /\ Right(q, b) \in {0, 2, n - 2} \cup {n}
                      /\ \A d \in {0, 2, n - 2} : b < d => Right(q, b) <= d
                      /\ b # 0 => \E d \in {0, 2, n - 2} : Right(q, d) = b
    BY DEF Tiles
  <2>1. CASE b = 0
    BY ONLY <1>2, <1>10, <1>11, <1>12, <2>1
  <2>2. CASE b = 2
    BY ONLY <1>2, <1>10, <1>11, <1>12, <2>2
  <2>3. CASE b = n - 2
    <3>1. b + Size(q, b) - 1 = n - 1
      BY ONLY <1>2, <1>11, <2>3
    <3>2. q[b + Size(q, b) - 1] = q[b]
      BY ONLY <1>10, <2>3, <3>1
    <3> QED
      BY ONLY <1>2, <1>11, <1>12, <2>3, <3>2
  <2> QED
    BY <2>1, <2>2, <2>3
<1>14. {2} = {b \in {0, 2, n - 2} : IsAvail(q, b)}
  BY <1>2, <1>10 DEF IsAvail
<1>15. \A b \in {2} : Right(q, b) \notin {2}
  BY <1>2, <1>12
<1>16. {0, 2, n - 2} \in SUBSET (0 .. n - 1)
  BY <1>2
<1>17. \A b \in {0, 2, n - 2} : b \notin {0, n - 2} => Size(q, b) >= 4
  BY <1>2, <1>11
<1>18. Heaped(g, n)
  BY ONLY <1>1, <1>6, <1>10, <1>13, <1>14, <1>15, <1>16, <1>17 DEF Heaped
<1>19. InUse(g) = {0, n - 2}
  BY <1>2, <1>6 DEF InUse
<1> QED
  BY <1>1, <1>6, <1>18, <1>19

(***************************************************************************)
(* The state.                                                              *)
(***************************************************************************)

\* What the invariant says of the memory alone.
Shape ==
    /\ setup \in Setups
    /\ array \in [0 .. len - 1 -> Int]
    /\ avail \in 0 .. len - 1
    /\ blocks \subseteq 0 .. len - 1
    /\ order \in Seq(blocks)
    /\ Tiles(array, blocks, len)
    /\ blocks # {} => Ends \subseteq blocks /\ array[0] = -2 /\ array[len - 2] = -2
    /\ \A b \in blocks \ Ends : Size(array, b) >= 4
    /\ ListExact /\ Coalesced

\* What it says of the blocks in use.
Users ==
    /\ owned \subseteq [at : blocks, bytes : Bytes, fill : Value \cup {Unset}]
    /\ \A b \in owned : Size(array, b.at) >= Ints(b.bytes)
    /\ PayloadIntact

\* What it says of the cores.
Control ==
    /\ theLock \in 0 .. len - 1
    /\ holder \in Core \cup {NoCore}
    /\ pc \in [Core -> Locked \cup {"heapInit", "idle", "malloc", "free", "panic"}]
    /\ reg \in [Core -> [ints : Int, p : 0 .. len - 1, mx : Int, it : 0 .. len - 1,
                         countDown : Int, bytes : Nat]]
    /\ UnderLock /\ Begun /\ NoPanic
    /\ \A c \in Core : Knows(c)

\* The parts of the invariant as the lemmas below take them apart.
LEMMA Parts == Inv <=> Shape /\ Users /\ Control /\ GivenExact
BY DEF Inv, Shape, Users, Control, TypeOK, Tiled

\* How long the heap is.
LEMMA Length == ASSUME setup \in Setups PROVE len \in Nat /\ len >= 12
BY HeapAssumption DEF len

\* The fields of the heap.
LEMMA Fields ==
    /\ IsHeap(Now) /\ Now.array = array /\ Now.avail = avail
    /\ Now.blocks = blocks /\ Now.order = order
BY DEF Now, IsHeap

\* The available blocks are in the list, and none of them is an end.
LEMMA InTheList ==
    ASSUME Shape, blocks # {}
    PROVE  /\ Elements(order) = Available
           /\ \A b \in Available : b \in 1 .. len - 4 /\ b \in blocks
<1>1. len \in Nat /\ len >= 12
  BY Length DEF Shape
<1>2. Elements(order) = Available
  BY DEF Shape, ListExact, Elements
<1>3. ASSUME NEW b \in Available
      PROVE  b \in 1 .. len - 4 /\ b \in blocks
  <2>1. /\ len \in Nat /\ array \in Mem(len) /\ blocks \in SUBSET (0 .. len - 1)
        /\ Tiles(array, blocks, len) /\ b \in blocks
    BY <1>1, <1>3 DEF Shape, Mem, Available
  <2>2. b \in Nat /\ Size(array, b) \in Nat /\ b + Size(array, b) <= len
    BY ONLY <2>1, Spans
  <2>3. Size(array, b) >= 4
    BY <1>3 DEF Shape, Coalesced
  <2>4. b # 0
    <3>1. array[0] = -2
      BY DEF Shape
    <3>2. ~IsAvail(array, 0)
      BY ONLY <3>1, Negative
    <3> QED
      BY <1>3, <3>2 DEF Available
  <2> QED
    BY ONLY <1>1, <2>1, <2>2, <2>3, <2>4
<1> QED
  BY <1>2, <1>3

\* Then the list is one of the lemmas above.
LEMMA IsInOrder ==
    ASSUME Shape, blocks # {}
    PROVE  IsList(array, order, len)
<1>1. len \in Nat /\ len >= 12
  BY Length DEF Shape
<1>2. PICK l, B : l = Len(order) /\ B = 1 .. len - 4
  OBVIOUS
<1>3. l \in Nat /\ DOMAIN order = 1 .. l /\ order \in [1 .. l -> blocks]
  BY <1>2, Lists DEF Shape
<1>4. \A k \in 1 .. l : order[k] \in Available
  BY <1>3 DEF Shape, ListExact
<1>5. \A k \in 1 .. l : order[k] \in B
  BY <1>2, <1>4, InTheList
<1>6. order \in Seq(B)
  <2>1. order \in [1 .. l -> B]
    BY <1>3, <1>5
  <2> QED
    BY <1>3, <2>1, Made
<1>7. Spaced(order)
  <2>1. \A a, b \in 1 .. l : order[a] = order[b] => a = b
    <3>1. \A a, b \in DOMAIN order : order[a] = order[b] => a = b
      BY DEF Shape, ListExact
    <3> QED
      BY ONLY <1>3, <3>1
  <2>2. /\ len \in Nat /\ array \in Mem(len) /\ blocks \in SUBSET (0 .. len - 1)
        /\ Tiles(array, blocks, len)
    BY <1>1 DEF Shape, Mem
  <2>3. ASSUME NEW a \in Available, NEW b \in Available, a # b
        PROVE  a + 4 <= b \/ b + 4 <= a
    <3>1. a \in blocks /\ b \in blocks /\ Size(array, a) >= 4 /\ Size(array, b) >= 4
      BY <2>3 DEF Shape, Coalesced, Available
    <3>2. /\ a \in Nat /\ Size(array, a) \in Nat
          /\ \A d \in blocks : d # a => a + Size(array, a) <= d \/ d + Size(array, d) <= a
      BY ONLY <2>2, <3>1, Spans
    <3>3. b \in Nat /\ Size(array, b) \in Nat
      BY ONLY <2>2, <3>1, Spans
    <3> QED
      BY ONLY <2>3, <3>1, <3>2, <3>3
  <2> SUFFICES ASSUME NEW j \in 1 .. l, NEW k \in 1 .. l, j # k
               PROVE  order[j] + 4 <= order[k] \/ order[k] + 4 <= order[j]
    BY <1>3 DEF Spaced
  <2>4. order[j] # order[k]
    BY <2>1
  <2> QED
    BY <1>4, <2>3, <2>4
<1> QED
  BY <1>2, <1>6, <1>7 DEF IsList, Shape, ListExact

\* Once there are blocks the heap is in order, and the blocks in use are those given
\* out and the two ends.
LEMMA Orderly ==
    ASSUME Shape, blocks # {}
    PROVE  /\ Heaped(Now, len) /\ Elements(order) = Available
           /\ InUse(Now) = Given \cup Ends /\ 0 \notin Given /\ len - 2 \notin Given
<1>1. len \in Nat /\ len >= 12
  BY Length DEF Shape
<1>2. Elements(order) = Available /\ \A b \in Available : b \in 1 .. len - 4 /\ b \in blocks
  BY InTheList
<1>3. Listed(Now, len)
  BY Fields, IsInOrder DEF Listed, Shape, ListExact, FirstOf, Mem
<1>4. /\ blocks \in SUBSET (0 .. len - 1) /\ Tiles(array, blocks, len)
      /\ 0 \in blocks /\ len - 2 \in blocks /\ array[0] = -2 /\ array[len - 2] = -2
      /\ \A b \in blocks : b \notin {0, len - 2} => Size(array, b) >= 4
      /\ Elements(order) = {b \in blocks : IsAvail(array, b)}
      /\ \A b \in Elements(order) : Right(array, b) \notin Elements(order)
  BY <1>2 DEF Shape, Ends, Coalesced, Available
<1>5. Heaped(Now, len)
  BY ONLY <1>3, <1>4, Fields DEF Heaped
<1>6. InUse(Now) = Given \cup Ends
  <2>1. Ends \subseteq blocks /\ Ends \cap Available = {}
    BY <1>1, <1>2, <1>4 DEF Ends
  <2>2. InUse(Now) = blocks \ Available /\ Given = blocks \ (Available \cup Ends)
    BY <1>2, Fields DEF InUse, Given
  <2> QED
    BY ONLY <2>1, <2>2
<1> QED
  BY <1>2, <1>5, <1>6 DEF Given, Ends

\* And a heap in order is one that the invariant allows.
LEMMA Shaped ==
    setup \in Setups /\ Heaped(Now, len) =>
        /\ Shape /\ blocks # {} /\ Elements(order) = Available
        /\ InUse(Now) = Given \cup Ends /\ 0 \notin Given /\ len - 2 \notin Given
<1> SUFFICES ASSUME setup \in Setups, Heaped(Now, len)
             PROVE  /\ Shape /\ blocks # {} /\ Elements(order) = Available
                    /\ InUse(Now) = Given \cup Ends /\ 0 \notin Given /\ len - 2 \notin Given
  OBVIOUS
<1>1. len \in Nat /\ len >= 12
  BY Length
<1>2. /\ array \in Mem(len) /\ IsList(array, order, len) /\ avail = FirstOf(order)
      /\ blocks \in SUBSET (0 .. len - 1) /\ Tiles(array, blocks, len)
      /\ 0 \in blocks /\ len - 2 \in blocks /\ array[0] = -2 /\ array[len - 2] = -2
      /\ \A b \in blocks : b \notin {0, len - 2} => Size(array, b) >= 4
      /\ Elements(order) = {b \in blocks : IsAvail(array, b)}
      /\ \A b \in Elements(order) : Right(array, b) \notin Elements(order)
  BY Fields DEF Heaped, Listed
<1>3. Elements(order) = Available
  BY <1>2 DEF Available
<1>4. PICK l, B : l = Len(order) /\ B = 1 .. len - 4
  OBVIOUS
<1>5. /\ order \in Seq(B) /\ l \in Nat /\ DOMAIN order = 1 .. l /\ order \in [1 .. l -> B]
      /\ (order = <<>> <=> l = 0)
  BY <1>2, <1>4, Lists DEF IsList
<1>6. \A k \in 1 .. l : order[k] \in Available
  BY <1>3, <1>5 DEF Elements
<1>7. order \in Seq(blocks)
  <2>1. order \in [1 .. l -> blocks]
    BY <1>5, <1>6 DEF Available
  <2> QED
    BY <1>4, <1>5, <2>1, Made
<1>8. avail \in 0 .. len - 1
  <2>1. CASE order = <<>>
    BY <1>1, <1>2, <2>1 DEF FirstOf
  <2>2. CASE order # <<>>
    <3>1. 1 \in 1 .. l
      BY <1>5, <2>2
    <3>2. avail = order[1] /\ order[1] \in B
      BY <1>2, <1>5, <2>2, <3>1 DEF FirstOf
    <3> QED
      BY <1>1, <1>4, <3>2
  <2> QED
    BY <2>1, <2>2
<1>9. ListExact
  <2>1. ASSUME NEW j \in DOMAIN order, NEW k \in DOMAIN order, order[j] = order[k]
        PROVE  j = k
    <3>1. order[j] \in Nat
      BY <1>1, <1>4, <1>5
    <3>2. j # k => order[j] + 4 <= order[k] \/ order[k] + 4 <= order[j]
      BY <1>2 DEF IsList, Spaced
    <3> QED
      BY <2>1, <3>1, <3>2
  <2> QED
    BY <1>2, <1>3, <2>1 DEF ListExact, Elements, IsList, FirstOf
<1>10. \A b \in Available : b # 0 /\ b # len - 2
  <2>1. ~IsAvail(array, 0) /\ ~IsAvail(array, len - 2)
    BY <1>2, Negative
  <2> QED
    BY <2>1 DEF Available
<1>11. Coalesced
  <2> SUFFICES ASSUME NEW b \in Available
               PROVE  Size(array, b) >= 4 /\ Right(array, b) \notin Available
    BY DEF Coalesced
  <2>1. b \in blocks /\ b \notin {0, len - 2} /\ b \in Elements(order)
    BY <1>3, <1>10 DEF Available
  <2> QED
    BY <1>2, <1>3, <2>1
<1>12. Shape
  <2>1. \A b \in blocks \ Ends : Size(array, b) >= 4
    BY <1>2 DEF Ends
  <2>2. Ends \subseteq blocks
    BY <1>2 DEF Ends
  <2> QED
    BY <1>2, <1>7, <1>8, <1>9, <1>11, <2>1, <2>2 DEF Shape, Mem
<1>13. blocks # {}
  BY <1>2
<1> QED
  BY <1>3, <1>12, <1>13, Orderly

\* The heap after a step is the one that the step makes.
LEMMA Becoming ==
    ASSUME NEW h, Becomes(h), setup \in Setups, Heaped(h, len)
    PROVE  /\ Shape' /\ blocks' # {} /\ Elements(order)' = Available'
           /\ InUse(h) = Given' \cup Ends /\ 0 \notin Given' /\ len - 2 \notin Given'
           /\ array' = h.array /\ len' = len
<1>1. /\ setup' = setup /\ array' = h.array /\ avail' = h.avail /\ blocks' = h.blocks
      /\ order' = h.order /\ len' = len
  BY DEF Becomes, len
<1>2. Heaped(Now, len)'
  <2>1. /\ IsHeap(Now') /\ Now'.array = h.array /\ Now'.avail = h.avail
        /\ Now'.blocks = h.blocks /\ Now'.order = h.order
    BY <1>1 DEF Now, IsHeap
  <2>2. Heaped(Now', len)
    BY <2>1 DEF Heaped, Listed
  <2> QED
    BY <1>1, <2>2
<1>3. setup' \in Setups
  BY <1>1
<1>4. /\ Shape' /\ blocks' # {} /\ Elements(order)' = Available'
      /\ InUse(Now)' = Given' \cup Ends' /\ 0 \notin Given' /\ (len - 2 \notin Given)'
  <2>1. (setup \in Setups /\ Heaped(Now, len))'
    BY <1>2, <1>3
  <2>2. (/\ Shape /\ blocks # {} /\ Elements(order) = Available
         /\ InUse(Now) = Given \cup Ends /\ 0 \notin Given /\ len - 2 \notin Given)'
    BY ONLY <2>1, Shaped, PTL
  <2> QED
    BY ONLY <2>2
<1>5. InUse(Now)' = InUse(h)
  BY <1>1, Fields DEF InUse, Now
<1> QED
  BY <1>1, <1>4, <1>5 DEF Ends

(***************************************************************************)
(* Who has which block.                                                    *)
(***************************************************************************)

Ats(O) == {b.at : b \in O}

\* The blocks of G are known each to one of: the users O, the calls F, the lock k.
Exactly(G, O, F, k) ==
    /\ F \in [Core -> SUBSET (G \ {0})]
    /\ \A x \in G : x \in Ats(O) \/ (\E c \in Core : x \in F[c]) \/ x = k
    /\ Ats(O) \subseteq G /\ 0 \notin G /\ (k # 0 => k \in G)
    /\ \A b, d \in O : b.at = d.at => b = d
    /\ k \notin Ats(O)
    /\ \A c, d \in Core : \A x \in F[c] : x \in F[d] => c = d
    /\ \A c \in Core : \A x \in F[c] : x # k /\ x \notin Ats(O)

Flights == [c \in Core |-> InFlight(c)]

\* It is what GivenExact says.
LEMMA Accounts == 0 \notin Given => (GivenExact <=> Exactly(Given, owned, Flights, theLock))
<1> SUFFICES ASSUME 0 \notin Given
             PROVE  GivenExact <=> Exactly(Given, owned, Flights, theLock)
  OBVIOUS
<1> DEFINE F == Flights
           G == Given
           U == UNION {InFlight(c) : c \in Core}
<1>1. DOMAIN F = Core /\ \A c \in Core : F[c] = InFlight(c)
  BY DEF Flights
<1>2. \A x : x \in U <=> \E c \in Core : x \in F[c]
  BY <1>1
<1>3. Ats(owned) = {b.at : b \in owned}
  BY DEF Ats
<1>4. ASSUME GivenExact
      PROVE  Exactly(G, owned, F, theLock)
  <2>1. /\ G = Ats(owned) \cup U \cup ({theLock} \ {0})
        /\ \A b, d \in owned : b.at = d.at => b = d
        /\ theLock \notin Ats(owned)
        /\ \A c, d \in Core : F[c] \cap F[d] # {} => c = d
        /\ \A c \in Core : F[c] \cap ({theLock} \cup Ats(owned)) = {}
    <3>1. /\ G = {b.at : b \in owned} \cup U \cup ({theLock} \ {0})
          /\ \A b, d \in owned : b.at = d.at => b = d
          /\ theLock \notin {b.at : b \in owned}
          /\ \A c, d \in Core : InFlight(c) \cap InFlight(d) # {} => c = d
          /\ \A c \in Core : InFlight(c) \cap ({theLock} \cup {b.at : b \in owned}) = {}
      BY <1>4 DEF GivenExact
    <3> HIDE DEF F, G, U
    <3>2. G = Ats(owned) \cup U \cup ({theLock} \ {0}) /\ theLock \notin Ats(owned)
      BY ONLY <1>3, <3>1
    <3>3. \A c, d \in Core : F[c] \cap F[d] # {} => c = d
      BY ONLY <1>1, <3>1
    <3>4. ASSUME NEW c \in Core
          PROVE  F[c] \cap ({theLock} \cup Ats(owned)) = {}
      BY ONLY <1>1, <1>3, <3>1
    <3> QED
      BY ONLY <3>1, <3>2, <3>3, <3>4
  <2>2. \A c \in Core : F[c] \subseteq G \ {0}
    BY <1>2, <2>1
  <2>3. F \in [Core -> SUBSET (G \ {0})]
    BY <2>2 DEF Flights
  <2>4. /\ \A x \in G : x \in Ats(owned) \/ (\E c \in Core : x \in F[c]) \/ x = theLock
        /\ Ats(owned) \subseteq G /\ (theLock # 0 => theLock \in G)
    <3> HIDE DEF F, G, U
    <3> QED
      BY <1>2, <2>1
  <2>5. \A c, d \in Core : \A x \in F[c] : x \in F[d] => c = d
    <3> HIDE DEF F
    <3> QED
      BY <2>1
  <2>6. \A c \in Core : \A x \in F[c] : x # theLock /\ x \notin Ats(owned)
    <3> HIDE DEF F
    <3> QED
      BY <2>1
  <2> QED
    BY <2>1, <2>3, <2>4, <2>5, <2>6 DEF Exactly
<1>5. ASSUME Exactly(G, owned, F, theLock)
      PROVE  GivenExact
  <2>1. /\ F \in [Core -> SUBSET (G \ {0})]
        /\ \A x \in G : x \in Ats(owned) \/ (\E c \in Core : x \in F[c]) \/ x = theLock
        /\ Ats(owned) \subseteq G /\ 0 \notin G /\ (theLock # 0 => theLock \in G)
        /\ \A b, d \in owned : b.at = d.at => b = d
        /\ theLock \notin Ats(owned)
        /\ \A c, d \in Core : \A x \in F[c] : x \in F[d] => c = d
        /\ \A c \in Core : \A x \in F[c] : x # theLock /\ x \notin Ats(owned)
    BY <1>5 DEF Exactly
  <2>2. G = Ats(owned) \cup U \cup ({theLock} \ {0})
    <3> HIDE DEF F, G, U
    <3>1. \A x \in U : x \in G
      BY <1>2, <2>1
    <3>2. \A x \in G : x \in Ats(owned) \/ x \in U \/ x \in {theLock} \ {0}
      BY <1>2, <2>1
    <3>3. \A x \in {theLock} \ {0} : x \in G
      BY <2>1
    <3> QED
      BY <2>1, <3>1, <3>2, <3>3
  <2>3. \A c, d \in Core : InFlight(c) \cap InFlight(d) # {} => c = d
    BY <1>1, <2>1
  <2>4. \A c \in Core : InFlight(c) \cap ({theLock} \cup Ats(owned)) = {}
    BY <1>1, <2>1
  <2>5. /\ Given = {b.at : b \in owned} \cup (UNION {InFlight(c) : c \in Core}) \cup ({theLock} \ {0})
        /\ \A b, d \in owned : b.at = d.at => b = d
        /\ theLock \notin {b.at : b \in owned}
        /\ \A c, d \in Core : InFlight(c) \cap InFlight(d) # {} => c = d
        /\ \A c \in Core : InFlight(c) \cap ({theLock} \cup {b.at : b \in owned}) = {}
    <3>1. Given = {b.at : b \in owned} \cup (UNION {InFlight(c) : c \in Core}) \cup ({theLock} \ {0})
      BY ONLY <1>3, <2>2
    <3>2. theLock \notin {b.at : b \in owned}
      BY ONLY <1>3, <2>1
    <3>3. ASSUME NEW c \in Core
          PROVE  InFlight(c) \cap ({theLock} \cup {b.at : b \in owned}) = {}
      BY ONLY <1>3, <2>4
    <3> QED
      BY ONLY <2>1, <2>3, <3>1, <3>2, <3>3
  <2> QED
    BY ONLY <2>5 DEF GivenExact
<1> QED
  BY <1>4, <1>5

\* The call c has the blocks X.
Holds(F, c, X) == [F EXCEPT ![c] = X]

\* A block that was not given out is given to the call c.
LEMMA Enters ==
    ASSUME NEW G, NEW O, NEW F, NEW k, Exactly(G, O, F, k), NEW c \in Core, F[c] = {},
           NEW i, i \notin G, i # 0, i # k
    PROVE  Exactly(G \cup {i}, O, Holds(F, c, {i}), k)
BY DEF Exactly, Holds, Ats

\* The block of the call c comes back.
LEMMA Leaves ==
    ASSUME NEW G, NEW O, NEW F, NEW k, Exactly(G, O, F, k), NEW c \in Core, NEW i, F[c] = {i}
    PROVE  Exactly(G \ {i}, O, Holds(F, c, {}), k)
BY DEF Exactly, Holds, Ats

\* The block of the call c is handed to the users.
LEMMA HandedOut ==
    ASSUME NEW G, NEW O, NEW F, NEW k, Exactly(G, O, F, k), NEW c \in Core,
           NEW b, F[c] = {b.at}
    PROVE  Exactly(G, O \cup {b}, Holds(F, c, {}), k)
BY DEF Exactly, Holds, Ats

\* A block of the users is handed to the call c.
LEMMA TakenBack ==
    ASSUME NEW G, NEW O, NEW F, NEW k, Exactly(G, O, F, k), NEW c \in Core, F[c] = {},
           NEW b \in O
    PROVE  Exactly(G, O \ {b}, Holds(F, c, {b.at}), k)
BY DEF Exactly, Holds, Ats

\* The block of the call c becomes the lock.
LEMMA BecomesLock ==
    ASSUME NEW G, NEW O, NEW F, Exactly(G, O, F, 0), NEW c \in Core, NEW i, F[c] = {i}
    PROVE  Exactly(G, O, Holds(F, c, {}), i)
BY DEF Exactly, Holds, Ats

\* A user's block is a record of another fill, and nothing else changes.
LEMMA Refilled ==
    ASSUME NEW G, NEW O, NEW F, NEW k, Exactly(G, O, F, k), NEW b \in O, NEW d, d.at = b.at
    PROVE  Exactly(G, (O \ {b}) \cup {d}, F, k)
<1>1. Ats((O \ {b}) \cup {d}) = Ats(O)
  BY DEF Ats
<1> QED
  BY <1>1 DEF Exactly

\* What is said of one block in use.
User(b, m, B) ==
    /\ b \in [at : B, bytes : Bytes, fill : Value \cup {Unset}]
    /\ Size(m, b.at) >= Ints(b.bytes)
    /\ Payload(b) \subseteq b.at + 1 .. Right(m, b.at) - 2
    /\ b.fill # Unset => \A i \in Payload(b) : m[i] = b.fill

\* They are all that is said of the users.
LEMMA ByUser == Users <=> \A u \in owned : User(u, array, blocks)
BY DEF Users, User, PayloadIntact

\* After a step.
LEMMA ByUserAgain == (\A u \in owned : User(u, array, blocks))' => Users'
<1>1. (\A u \in owned : User(u, array, blocks)) => Users
  BY ByUser
<1> QED
  BY <1>1, PTL

\* A block that is preserved is still right for its user.
LEMMA UserKept ==
    ASSUME NEW n \in Nat, NEW h, Heaped(h, n), NEW g, g.array \in Mem(n),
           NEW X, Preserved(g, h, X), NEW b, User(b, h.array, h.blocks), b.at \in X
    PROVE  User(b, g.array, g.blocks)
<1>1. PICK m, q, i, s : m = h.array /\ q = g.array /\ i = b.at /\ s = Size(m, i)
  OBVIOUS
<1>2. /\ n \in Nat /\ m \in Mem(n) /\ h.blocks \in SUBSET (0 .. n - 1) /\ Tiles(m, h.blocks, n)
  BY <1>1, Room
<1>3. i \in h.blocks /\ b.bytes \in Bytes /\ b.fill \in Value \cup {Unset}
  BY <1>1 DEF User
<1>4. i \in Nat /\ s \in Nat /\ s >= 2 /\ i + s <= n
  BY ONLY <1>1, <1>2, <1>3, Spans
<1>5. i \in g.blocks /\ \A w \in i .. i + s - 1 : q[w] = m[w]
  BY <1>1 DEF Preserved
<1>6. q[i] = m[i]
  BY <1>4, <1>5
<1>7. Size(q, i) = s
  BY <1>1, <1>6 DEF Size
<1>8. Right(q, i) = Right(m, i) /\ Right(m, i) = i + s
  BY <1>1, <1>7 DEF Right
<1>9. \A w \in i + 1 .. i + s - 2 : q[w] = m[w]
  BY <1>4, <1>5
<1>10. b \in [at : g.blocks, bytes : Bytes, fill : Value \cup {Unset}]
  BY <1>1, <1>3, <1>5 DEF User
<1>11. Payload(b) \subseteq i + 1 .. i + s - 2
  <2>1. Payload(b) \subseteq b.at + 1 .. Right(h.array, b.at) - 2
    BY DEF User
  <2>2. Right(h.array, b.at) = i + s /\ b.at = i
    BY ONLY <1>1, <1>8
  <2> QED
    BY ONLY <1>4, <2>1, <2>2
<1> QED
  BY <1>1, <1>7, <1>8, <1>9, <1>10, <1>11 DEF User

\* What is asked for fits between the header and the footer.
LEMMA Fit ==
    ASSUME NEW bytes \in Nat
    PROVE  Ints(bytes) \in Nat /\ Ints(bytes) >= 4 /\ (bytes + 3) \div 4 <= Ints(bytes) - 2
BY DEF Ints

\* A block that is large enough is right for a user who has not written into it.
LEMMA NewUser ==
    ASSUME NEW n \in Nat, NEW m \in Mem(n), NEW B \in SUBSET (0 .. n - 1), Tiles(m, B, n),
           NEW i \in B, NEW bytes \in Bytes, Ints(bytes) <= Size(m, i)
    PROVE  User([at |-> i, bytes |-> bytes, fill |-> Unset], m, B)
<1> DEFINE b == [at |-> i, bytes |-> bytes, fill |-> Unset]
           k == (bytes + 3) \div 4
<1>1. bytes \in Nat
  BY HeapAssumption
<1>2. k \in Nat /\ Ints(bytes) \in Nat /\ k <= Ints(bytes) - 2
  BY <1>1, Fit
<1>3. i \in Nat /\ Size(m, i) \in Nat /\ Right(m, i) = i + Size(m, i)
  BY Spans
<1>4. Payload(b) = i + 1 .. i + k
  BY DEF Payload
<1>5. Payload(b) \subseteq i + 1 .. Right(m, i) - 2
  <2> HIDE DEF b, k
  <2>1. i + k <= Right(m, i) - 2
    BY <1>2, <1>3
  <2> QED
    BY <1>2, <1>3, <1>4, <2>1
<1> QED
  BY <1>5 DEF User

(***************************************************************************)
(* What every step has to show of the cores.                               *)
(***************************************************************************)

\* The core c goes on at the place to, the others stay.
Moves(c, to) == pc' = [pc EXCEPT ![c] = to]

Places == Locked \cup {"heapInit", "idle", "malloc", "free", "panic"}

\* Where the cores are, and who has the lock.
LEMMA Whereabouts ==
    ASSUME Control
    PROVE  pc \in [Core -> Places] /\ UnderLock /\ Begun
<1>1. pc \in [Core -> Locked \cup {"heapInit", "idle", "malloc", "free", "panic"}]
  BY DEF Control
<1>2. Places = Locked \cup {"heapInit", "idle", "malloc", "free", "panic"}
  BY DEF Places
<1>3. pc \in [Core -> Places]
  BY ONLY <1>1, <1>2
<1> QED
  BY <1>3 DEF Control

\* Only the core that takes a step is somewhere else after it.
LEMMA Moved ==
    ASSUME Control, NEW c \in Core, NEW to \in Places, Moves(c, to)
    PROVE  /\ pc' \in [Core -> Places] /\ pc'[c] = to
           /\ \A d \in Core : d # c => pc'[d] = pc[d]
BY DEF Control, Moves, Places

\* Without blocks there is only the core that sets the heap up.
LEMMA Busy ==
    ASSUME Inv, blocks = {}
    PROVE  /\ theLock = 0 /\ owned = {} /\ pc[Boot] = "heapInit"
           /\ \A c \in Core \ {Boot} : pc[c] = "idle"
<1>1. GivenExact /\ Begun
  BY DEF Inv
<1>2. Given = {}
  BY DEF Given
<1>3. theLock = 0
  BY <1>1, <1>2 DEF GivenExact
<1> QED
  BY <1>1, <1>3 DEF Begun

\* One core at a time is between the guard and its end.
LEMMA AloneIn ==
    ASSUME Control, NEW c \in Core, NEW d \in Core, pc[c] \in Locked, pc[d] \in Locked
    PROVE  c = d
<1>1. CASE theLock # 0
  BY <1>1 DEF Control, UnderLock
<1>2. CASE theLock = 0
  BY <1>2 DEF Control, Begun, Locked
<1> QED
  BY <1>1, <1>2

\* The lock when a core takes it, keeps it, releases it, or is outside.
LEMMA Lock ==
    ASSUME Control, NEW c \in Core, NEW to \in Places, Moves(c, to), theLock' = theLock,
           \/ pc[c] \notin Locked /\ to \in Locked /\ Guard(c)
           \/ pc[c] \in Locked /\ to \in Locked /\ holder' = holder
           \/ pc[c] \in Locked /\ to \notin Locked /\ holder' = NoCore
           \/ pc[c] \notin Locked /\ to \notin Locked /\ holder' = holder
    PROVE  UnderLock' /\ holder' \in Core \cup {NoCore}
<1>1. /\ \A d \in Core : d # c => pc'[d] = pc[d]
      /\ pc'[c] = to
  BY Moved
<1>2. NoCore \notin Core /\ holder \in Core \cup {NoCore} /\ UnderLock
  BY HeapAssumption DEF Control
<1>3. CASE pc[c] \notin Locked /\ to \in Locked /\ Guard(c)
  BY <1>1, <1>2, <1>3 DEF UnderLock, Guard
<1>4. CASE pc[c] \in Locked /\ to \in Locked /\ holder' = holder
  BY <1>1, <1>2, <1>4 DEF UnderLock
<1>5. CASE pc[c] \in Locked /\ to \notin Locked /\ holder' = NoCore
  <2> SUFFICES ASSUME theLock # 0
               PROVE  \A d \in Core : pc'[d] \in Locked <=> holder' = d
    BY <1>2, <1>5 DEF UnderLock
  <2>1. \A d \in Core : d # c => pc[d] \notin Locked
    BY <1>5, AloneIn
  <2> QED
    BY <1>1, <1>2, <1>5, <2>1
<1>6. CASE pc[c] \notin Locked /\ to \notin Locked /\ holder' = holder
  BY <1>1, <1>2, <1>6 DEF UnderLock
<1> QED
  BY <1>3, <1>4, <1>5, <1>6

\* The beginning, when a core goes on after it.
LEMMA BegunStill ==
    ASSUME Control, NEW c \in Core, NEW to \in Places \ {"heapInit"}, Moves(c, to),
           blocks' # {}, blocks # {} \/ (c = Boot /\ pc[Boot] = "heapInit"),
           theLock' = theLock,
           theLock = 0 => c = Boot /\ owned' = {} /\ holder' = NoCore
                          /\ to \notin {"free", "coalesce", "free return"}
    PROVE  Begun'
<1>1. /\ \A d \in Core : d # c => pc'[d] = pc[d]
      /\ pc'[c] = to /\ Boot \in Core
  BY Moved, HeapAssumption
<1>2. pc'[Boot] # "heapInit"
  BY <1>1 DEF Control, Begun
<1>3. \A d \in Core \ {Boot} : pc'[d] # "heapInit"
  BY <1>1 DEF Control, Begun
<1>4. theLock = 0 => /\ \A d \in Core \ {Boot} : pc'[d] = "idle"
                     /\ pc'[Boot] \notin {"free", "coalesce", "free return"}
  BY <1>1 DEF Control, Begun
<1> QED
  BY <1>2, <1>3, <1>4 DEF Begun

\* What the other cores know, when the heap does not change or they do not look at it.
LEMMA KnowsStill ==
    ASSUME NEW d \in Core, Knows(d), pc'[d] = pc[d], reg'[d] = reg[d], theLock' = theLock,
           (array' = array /\ Available' = Available) \/ pc[d] \notin Locked
    PROVE  Knows(d)'
<1>1. CASE array' = array /\ Available' = Available
  BY <1>1 DEF Knows, Size
<1>2. CASE pc[d] \notin Locked
  BY <1>2 DEF Knows, Locked
<1> QED
  BY <1>1, <1>2

\* What the invariant says of the memory stays true when the memory stays.
LEMMA Still ==
    ASSUME Shape, UNCHANGED heap
    PROVE  /\ Shape' /\ Available' = Available /\ Given' = Given
           /\ array' = array /\ blocks' = blocks /\ len' = len /\ setup' = setup
<1>1. setup' = setup /\ array' = array /\ avail' = avail /\ blocks' = blocks /\ order' = order
  BY DEF heap
<1> QED
  BY <1>1 DEF Shape, Available, Given, len, Ends, ListExact, Coalesced

\* The local variables of a core.
Registers == [ints : Int, p : 0 .. len - 1, mx : Int, it : 0 .. len - 1, countDown : Int, bytes : Nat]

\* The core c leaves the local variables of the others alone.
Keeps(c) == reg' \in [Core -> Registers'] /\ \A d \in Core : d # c => reg'[d] = reg[d]

\* A step of the core c that leaves the heap alone.
LEMMA Quiet ==
    ASSUME Inv, NEW c \in Core, NEW to \in Places \ {"heapInit", "panic"}, Moves(c, to), Keeps(c),
           UNCHANGED <<heap, theLock>>, blocks # {},
           \/ pc[c] \notin Locked /\ to \in Locked /\ Guard(c)
           \/ pc[c] \in Locked /\ to \in Locked /\ holder' = holder
           \/ pc[c] \in Locked /\ to \notin Locked /\ holder' = NoCore
           \/ pc[c] \notin Locked /\ to \notin Locked /\ holder' = holder,
           theLock = 0 => c = Boot /\ owned' = {} /\ to \notin {"free", "coalesce", "free return"},
           Knows(c)'
    PROVE  Shape' /\ Control'
<1>1. Shape /\ Control
  BY Parts
<1>2. /\ Shape' /\ Available' = Available /\ array' = array /\ blocks' = blocks /\ len' = len
      /\ theLock' = theLock
  BY <1>1, Still
<1>3. /\ pc' \in [Core -> Places] /\ pc'[c] = to /\ \A d \in Core : d # c => pc'[d] = pc[d]
  BY <1>1, Moved
<1>4. UnderLock' /\ holder' \in Core \cup {NoCore}
  BY <1>1, <1>2, Lock
<1>5. Begun'
  <2>1. theLock = 0 => holder' = NoCore
    BY <1>1 DEF Control, Begun, Guard
  <2> QED
    BY <1>1, <1>2, <2>1, BegunStill
<1>6. NoPanic'
  BY <1>1, <1>3 DEF Control, NoPanic
<1>7. ASSUME NEW d \in Core
      PROVE  Knows(d)'
  <2>1. CASE d = c
    BY <2>1
  <2>2. CASE d # c
    BY <1>1, <1>2, <1>3, <2>2, KnowsStill DEF Control, Keeps
  <2> QED
    BY <2>1, <2>2
<1>8. theLock' \in 0 .. len' - 1
  BY <1>1, <1>2 DEF Control
<1> QED
  BY <1>2, <1>3, <1>4, <1>5, <1>6, <1>7, <1>8 DEF Control, Keeps, Registers, Places

\* The users when the memory stays.
LEMMA UsersStill ==
    ASSUME Users, UNCHANGED heap, owned' \subseteq owned
    PROVE  Users'
<1>1. \A u \in owned : User(u, array, blocks)
  BY ByUser
<1>2. (\A u \in owned : User(u, array, blocks))'
  BY <1>1 DEF heap, User, Payload, Ints, Right, Size
<1> QED
  BY <1>2, ByUserAgain

\* What the calls have when only the core c goes on.
LEMMA Flown ==
    ASSUME Control, NEW c \in Core, NEW to \in Places, Moves(c, to), Keeps(c), NEW X, InFlight(c)' = X
    PROVE  Flights' = Holds(Flights, c, X)
<1>1. \A d \in Core : d # c => pc'[d] = pc[d] /\ reg'[d] = reg[d]
  BY Moved DEF Keeps
<1>2. \A d \in Core : d # c => InFlight(d)' = InFlight(d)
  BY <1>1 DEF InFlight
<1> QED
  BY <1>2 DEF Flights, Holds

\* Every block given out is accounted for, before and after.
LEMMA Counted ==
    ASSUME Inv, blocks # {}
    PROVE  Exactly(Given, owned, Flights, theLock) /\ 0 \notin Given
BY Parts, Orderly, Accounts

\* The same of the next state: accounts that are exact give everything out once.
LEMMA CountedAgain ==
    (0 \notin Given /\ Exactly(Given, owned, Flights, theLock))' => GivenExact'
<1>1. 0 \notin Given /\ Exactly(Given, owned, Flights, theLock) => GivenExact
  BY Accounts
<1> QED
  BY <1>1, PTL

\* A step that hands no block over.
LEMMA NothingHanded ==
    ASSUME Inv, NEW c \in Core, NEW to \in Places, Moves(c, to), Keeps(c), UNCHANGED <<heap, theLock, owned>>,
           blocks # {}, InFlight(c)' = InFlight(c)
    PROVE  GivenExact'
<1>1. Exactly(Given, owned, Flights, theLock) /\ 0 \notin Given
  BY Counted
<1>2. Given' = Given
  BY Parts, Still
<1>3. Flights' = Flights
  <2>1. Flights' = Holds(Flights, c, InFlight(c))
    BY Parts, Flown
  <2> QED
    BY <2>1 DEF Holds, Flights
<1>4. Exactly(Given, owned, Flights, theLock)'
  BY <1>1, <1>2, <1>3 DEF Exactly, Ats
<1> QED
  BY <1>1, <1>2, <1>4, CountedAgain

(***************************************************************************)
(* The steps that leave the heap alone.                                    *)
(***************************************************************************)

\* Where a core is, and the length of the heap.
LEMMA Around ==
    ASSUME Inv, NEW c \in Core
    PROVE  /\ Shape /\ Users /\ Control /\ GivenExact
           /\ pc[c] \in Places /\ reg \in [Core -> Registers] /\ reg[c] \in Registers
           /\ Knows(c) /\ len \in Nat /\ len >= 12 /\ 0 \in 0 .. len - 1
           /\ pc[c] = "heapInit" => blocks = {} /\ c = Boot
           /\ pc[c] \notin {"heapInit", "idle"} => blocks # {}
           /\ theLock # 0 => blocks # {}
           /\ pc[c] # "idle" /\ theLock = 0 => c = Boot /\ owned = {}
<1>1. Shape /\ Users /\ Control /\ GivenExact
  BY Parts
<1>2. len \in Nat /\ len >= 12
  BY <1>1, Length DEF Shape
<1>3. /\ pc[c] = "heapInit" => blocks = {} /\ c = Boot
      /\ pc[c] # "idle" /\ theLock = 0 => c = Boot /\ owned = {}
  BY <1>1 DEF Control, Begun
<1>4. pc[c] \notin {"heapInit", "idle"} => blocks # {}
  BY Busy
<1>5. theLock # 0 => blocks # {}
  BY Busy
<1> QED
  BY <1>1, <1>2, <1>3, <1>4, <1>5 DEF Control, Places, Registers

\* The local variables when malloc() is called.
LEMMA Request ==
    ASSUME len \in Nat, len >= 12, NEW x \in Int, NEW y \in Nat
    PROVE  [Idle EXCEPT !.ints = x, !.bytes = y] \in Registers
<1>1. Idle \in Registers
  BY DEF Idle, Registers
<1>2. \A r \in Registers : [r EXCEPT !.ints = x] \in Registers
  BY DEF Registers
<1>3. \A r \in Registers : [r EXCEPT !.bytes = y] \in Registers
  BY DEF Registers
<1> QED
  BY <1>1, <1>2, <1>3

\* A core calls malloc().
LEMMA MallocStep ==
    ASSUME Inv, NEW c \in Core, Malloc(c)
    PROVE  Inv'
<1>1. PICK bytes \in setup.bytes :
         reg' = [reg EXCEPT ![c] = [Idle EXCEPT !.ints = Ints(bytes), !.bytes = bytes]]
  BY DEF Malloc
<1>2. /\ theLock # 0 /\ pc[c] = "idle" /\ Moves(c, "malloc") /\ UNCHANGED <<heap, theLock>>
      /\ UNCHANGED <<heap, theLock, owned>> /\ holder' = holder /\ owned' = owned
  BY DEF Malloc, GoTo, Moves
<1>3. Shape /\ Users /\ Control /\ blocks # {} /\ reg \in [Core -> Registers] /\ len \in Nat /\ len >= 12
  BY <1>2, Around
<1>4. bytes \in Bytes /\ bytes \in Nat
  BY <1>3, HeapAssumption DEF Shape
<1>5. Ints(bytes) \in Int
  BY <1>4, Fit
<1>6. Keeps(c) /\ reg'[c].ints = Ints(bytes) /\ reg'[c].bytes = bytes /\ reg'[c].it = 0
  <2>1. [Idle EXCEPT !.ints = Ints(bytes), !.bytes = bytes] \in Registers
    BY <1>3, <1>4, <1>5, Request
  <2>2. Registers' = Registers
    BY <1>2 DEF Registers, heap, len
  <2> QED
    BY <1>1, <1>3, <2>1, <2>2 DEF Keeps, Idle
<1>7. pc'[c] = "malloc" /\ "malloc" \in Places \ {"heapInit", "panic"}
  BY <1>2, <1>3, Moved DEF Places
<1>8. Knows(c)'
  BY <1>2, <1>4, <1>6, <1>7 DEF Knows
<1>9. pc[c] \notin Locked /\ "malloc" \notin Locked
  BY <1>2 DEF Locked
<1>10. Shape' /\ Control'
  BY <1>2, <1>3, <1>6, <1>7, <1>8, <1>9, Quiet
<1>11. Users'
  BY <1>2, <1>3, UsersStill
<1>12. GivenExact'
  <2>1. InFlight(c)' = InFlight(c)
    BY <1>2, <1>7 DEF InFlight
  <2> QED
    BY <1>2, <1>3, <1>6, <1>7, <2>1, NothingHanded
<1> QED
  BY <1>10, <1>11, <1>12, Parts, PTL

\* The local variables g are those of f but for some that malloc() keeps for the search.
Turned(g, f, c) ==
    /\ g \in [Core -> Registers] /\ \A d \in Core : d # c => g[d] = f[d]
    /\ g[c].ints = f[c].ints /\ g[c].bytes = f[c].bytes /\ g[c].it = f[c].it

\* The local variables when the search begins.
Begins(f, c, p, x, y) == [f EXCEPT ![c].p = p, ![c].mx = x, ![c].countDown = y]

\* It sets some of the local variables of one core.
LEMMA Beginning ==
    ASSUME NEW f \in [Core -> Registers], NEW c \in Core, NEW p \in 0 .. len - 1, NEW x \in Int, NEW y \in Int
    PROVE  Turned(Begins(f, c, p, x, y), f, c) /\ Begins(f, c, p, x, y)[c].p = p
<1>1. PICK a : a = [f EXCEPT ![c].p = p]
  OBVIOUS
<1>2. Turned(a, f, c) /\ a[c].p = p
  BY <1>1 DEF Registers, Turned
<1>3. PICK b : b = [a EXCEPT ![c].mx = x]
  OBVIOUS
<1>4. Turned(b, a, c) /\ b[c].p = p
  BY <1>2, <1>3 DEF Registers, Turned
<1>5. PICK g : g = [b EXCEPT ![c].countDown = y]
  OBVIOUS
<1>6. Turned(g, b, c) /\ g[c].p = p
  BY <1>4, <1>5 DEF Registers, Turned
<1>7. Turned(g, f, c)
  BY <1>2, <1>4, <1>6 DEF Turned
<1>8. g = Begins(f, c, p, x, y)
  BY <1>1, <1>3, <1>5 DEF Begins
<1> QED
  BY <1>6, <1>7, <1>8

\* The search begins.
LEMMA StartSearchStep ==
    ASSUME Inv, NEW c \in Core, StartSearch(c)
    PROVE  Inv'
<1>1. reg' = Begins(reg, c, avail, Huge, MaxFits)
  BY DEF StartSearch, Begins
<1>2. /\ pc[c] = "malloc" /\ Moves(c, "search") /\ UNCHANGED <<heap, theLock>>
      /\ UNCHANGED <<heap, theLock, owned>> /\ owned' = owned /\ Guard(c)
  BY DEF StartSearch, GoTo, Moves
<1>3. /\ Shape /\ Users /\ Control /\ blocks # {} /\ reg \in [Core -> Registers] /\ reg[c] \in Registers
      /\ Knows(c) /\ len \in Nat /\ len >= 12 /\ (theLock = 0 => c = Boot /\ owned = {})
  BY <1>2, Around
<1>5. avail \in 0 .. len - 1 /\ Huge \in Int /\ MaxFits \in Int
  BY <1>3, HeapAssumption DEF Shape, Huge, MaxFits
<1>6. Turned(reg', reg, c) /\ reg'[c].p = avail
  BY <1>1, <1>3, <1>5, Beginning
<1>7. Keeps(c)
  <2>1. Registers' = Registers
    BY <1>2 DEF Registers, heap, len
  <2> QED
    BY <1>6, <2>1 DEF Keeps, Turned
<1>8. /\ pc'[c] = "search" /\ "search" \in Places \ {"heapInit", "panic"} /\ "search" \in Locked
      /\ pc[c] \notin Locked
  BY <1>2, <1>3, Moved DEF Places, Locked
<1>9. Available' = Available /\ array' = array /\ theLock' = theLock
  BY <1>2, <1>3, Still
<1>10. avail # 0 => avail \in Available
  <2>1. order # <<>> => 1 \in DOMAIN order
    BY <1>3, Lists DEF Shape
  <2> QED
    BY <1>3, <2>1 DEF Shape, ListExact
<1>11. Knows(c)'
  <2>1. /\ reg[c].ints = Ints(reg[c].bytes) /\ reg[c].it = 0
        /\ reg[c].bytes \in Bytes \cup (IF theLock = 0 THEN {1} ELSE {})
    BY <1>2, <1>3 DEF Knows
  <2> QED
    BY <1>6, <1>8, <1>9, <1>10, <2>1 DEF Knows, Turned
<1>12. Shape' /\ Control'
  BY <1>2, <1>3, <1>7, <1>8, <1>11, Quiet
<1>13. Users'
  BY <1>2, <1>3, UsersStill
<1>14. GivenExact'
  <2>1. InFlight(c)' = InFlight(c)
    BY <1>2, <1>8 DEF InFlight
  <2> QED
    BY <1>2, <1>3, <1>7, <1>8, <2>1, NothingHanded
<1> QED
  BY <1>12, <1>13, <1>14, Parts, PTL

\* free() sees a block that is taken: no core meets the panic.
LEMMA StartFreeStep ==
    ASSUME Inv, NEW c \in Core, StartFree(c)
    PROVE  Inv'
<1>1. /\ pc[c] = "free" /\ UNCHANGED <<heap, theLock>>
      /\ UNCHANGED <<heap, theLock, owned>> /\ owned' = owned /\ Guard(c) /\ reg' = reg
      /\ Moves(c, IF IsTaken(array, reg[c].p) THEN "coalesce" ELSE "panic")
  BY DEF StartFree, Moves
<1>2. /\ Shape /\ Users /\ Control /\ blocks # {} /\ reg \in [Core -> Registers] /\ reg[c] \in Registers
      /\ Knows(c) /\ len \in Nat /\ len >= 12 /\ GivenExact
  BY <1>1, Around
<1>3. theLock # 0
  BY <1>1, <1>2, HeapAssumption DEF Control, Begun
<1>4. IsTaken(array, reg[c].p)
  <2>1. reg[c].p \in Given
    BY <1>1, <1>2 DEF GivenExact, InFlight
  <2>2. /\ len \in Nat /\ array \in Mem(len) /\ blocks \in SUBSET (0 .. len - 1)
        /\ Tiles(array, blocks, len) /\ reg[c].p \in blocks
    BY <1>2, <2>1 DEF Shape, Mem, Given
  <2>3. Size(array, reg[c].p) \in Nat /\ Size(array, reg[c].p) >= 2 /\ reg[c].p \in 0 .. len - 1
    BY ONLY <2>2, Spans
  <2>4. ~IsAvail(array, reg[c].p)
    BY <2>1, <2>2 DEF Given, Available
  <2>5. array[reg[c].p] \in Int
    BY <2>2, <2>3 DEF Mem
  <2> QED
    BY <2>3, <2>4, <2>5 DEF IsAvail, IsTaken, Size
<1>5. Moves(c, "coalesce")
  BY <1>1, <1>4
<1>6. Keeps(c) /\ reg'[c] = reg[c]
  <2>1. Registers' = Registers
    BY <1>1 DEF Registers, heap, len
  <2> QED
    BY <1>1, <1>2, <2>1 DEF Keeps
<1>7. /\ pc'[c] = "coalesce" /\ "coalesce" \in Places \ {"heapInit", "panic"} /\ "coalesce" \in Locked
      /\ pc[c] \notin Locked
  BY <1>1, <1>2, <1>5, Moved DEF Places, Locked
<1>8. Knows(c)'
  BY <1>7 DEF Knows
<1>9. Shape' /\ Control'
  BY <1>1, <1>2, <1>3, <1>5, <1>6, <1>7, <1>8, Quiet
<1>10. Users'
  BY <1>1, <1>2, UsersStill
<1>11. GivenExact'
  <2>1. InFlight(c)' = InFlight(c)
    BY <1>1, <1>6, <1>7 DEF InFlight
  <2> QED
    BY <1>1, <1>2, <1>5, <1>6, <1>7, <2>1, NothingHanded
<1> QED
  BY <1>9, <1>10, <1>11, Parts, PTL

\* free() returns.
LEMMA FreeReturnStep ==
    ASSUME Inv, NEW c \in Core, FreeReturn(c)
    PROVE  Inv'
<1>1. /\ pc[c] = "free return" /\ Moves(c, "idle") /\ UNCHANGED <<heap, theLock>>
      /\ UNCHANGED <<heap, theLock, owned>> /\ owned' = owned /\ holder' = NoCore
      /\ reg' = [reg EXCEPT ![c] = Idle]
  BY DEF FreeReturn, GoTo, Moves
<1>2. /\ Shape /\ Users /\ Control /\ blocks # {} /\ reg \in [Core -> Registers]
      /\ len \in Nat /\ len >= 12
  BY <1>1, Around
<1>3. theLock # 0
  BY <1>1, <1>2, HeapAssumption DEF Control, Begun
<1>4. Keeps(c) /\ reg'[c] = Idle
  <2>1. Registers' = Registers
    BY <1>1 DEF Registers, heap, len
  <2>2. Idle \in Registers
    BY <1>2 DEF Registers, Idle
  <2> QED
    BY <1>1, <1>2, <2>1, <2>2 DEF Keeps
<1>5. /\ pc'[c] = "idle" /\ "idle" \in Places \ {"heapInit", "panic"} /\ "idle" \notin Locked
      /\ pc[c] \in Locked
  BY <1>1, <1>2, Moved DEF Places, Locked
<1>6. Knows(c)'
  BY <1>5 DEF Knows
<1>7. Shape' /\ Control'
  BY <1>1, <1>2, <1>3, <1>4, <1>5, <1>6, Quiet
<1>8. Users'
  BY <1>1, <1>2, UsersStill
<1>9. GivenExact'
  <2>1. InFlight(c)' = InFlight(c)
    BY <1>1, <1>5 DEF InFlight
  <2> QED
    BY <1>1, <1>2, <1>4, <1>5, <2>1, NothingHanded
<1> QED
  BY <1>7, <1>8, <1>9, Parts, PTL

\* The link to the next block of the list leads to a block of the list, or nowhere.
LEMMA NextInList ==
    ASSUME Shape, NEW b \in Available
    PROVE  NextOf(array, b) = 0 \/ NextOf(array, b) \in Available
<1>1. PICK k \in DOMAIN order : order[k] = b
  BY DEF Shape, ListExact
<1>2. DOMAIN order = 1 .. Len(order) /\ Len(order) \in Nat
  BY Lists DEF Shape
<1>3. NextOf(array, b) = IF k = Len(order) THEN 0 ELSE order[k + 1]
  BY <1>1 DEF Shape, ListExact, Linked
<1>4. k # Len(order) => k + 1 \in DOMAIN order
  BY <1>2
<1>5. \A j \in DOMAIN order : order[j] \in Available
  BY DEF Shape, ListExact
<1> QED
  BY <1>3, <1>4, <1>5

\* The local variables after an iteration of the search.
Advanced(r, x, i, down, p) == [r EXCEPT !.mx = x, !.it = i, !.countDown = down, !.p = p]

\* It sets the ones that the search uses.
LEMMA Advance ==
    ASSUME NEW r \in Registers, NEW x \in Int, NEW i \in 0 .. len - 1, NEW down \in Int, NEW p \in 0 .. len - 1
    PROVE  LET u == Advanced(r, x, i, down, p) IN
           /\ u \in Registers /\ u.ints = r.ints /\ u.bytes = r.bytes
           /\ u.mx = x /\ u.it = i /\ u.countDown = down /\ u.p = p
<1>1. PICK a : a = [r EXCEPT !.mx = x]
  OBVIOUS
<1>2. a \in Registers /\ a.ints = r.ints /\ a.bytes = r.bytes /\ a.mx = x
  BY <1>1 DEF Registers
<1>3. PICK b : b = [a EXCEPT !.it = i]
  OBVIOUS
<1>4. b \in Registers /\ b.ints = r.ints /\ b.bytes = r.bytes /\ b.mx = x /\ b.it = i
  BY <1>2, <1>3 DEF Registers
<1>5. PICK d : d = [b EXCEPT !.countDown = down]
  OBVIOUS
<1>6. /\ d \in Registers /\ d.ints = r.ints /\ d.bytes = r.bytes /\ d.mx = x /\ d.it = i
      /\ d.countDown = down
  BY <1>4, <1>5 DEF Registers
<1>7. PICK u : u = [d EXCEPT !.p = p]
  OBVIOUS
<1>8. /\ u \in Registers /\ u.ints = r.ints /\ u.bytes = r.bytes /\ u.mx = x /\ u.it = i
      /\ u.countDown = down /\ u.p = p
  BY <1>6, <1>7 DEF Registers
<1>9. u = Advanced(r, x, i, down, p)
  BY <1>1, <1>3, <1>5, <1>7 DEF Advanced
<1> QED
  BY <1>8, <1>9

\* One iteration of the search: it looks at blocks of the list only, and knows what it has found.
LEMMA Searching ==
    ASSUME Inv, NEW c \in Core, Search(c)
    PROVE  \E to \in {"carve", "search"} :
               Moves(c, to) /\ Keeps(c) /\ Knows(c)' /\ reg'[c].ints = reg[c].ints
<1> DEFINE r == reg[c]
           sz == Size(array, r.p)
           fits == sz >= r.ints
           better == fits /\ sz < r.mx
           down == IF fits THEN r.countDown - 1 ELSE r.countDown
           x == IF better THEN sz ELSE r.mx
           i == IF better THEN r.p ELSE r.it
           p == IF down = 0 THEN r.p ELSE NextOf(array, r.p)
<1>1. /\ pc[c] = "search" /\ UNCHANGED <<heap, theLock>>
      /\ UNCHANGED <<heap, theLock, owned>> /\ owned' = owned /\ holder' = holder
  BY DEF Search
<1>2. /\ Shape /\ Users /\ Control /\ blocks # {} /\ reg \in [Core -> Registers] /\ r \in Registers
      /\ Knows(c) /\ len \in Nat /\ len >= 12 /\ (theLock = 0 => c = Boot /\ owned = {})
  BY <1>1, Around
<1>3. Available' = Available /\ array' = array /\ theLock' = theLock /\ Registers' = Registers
  BY <1>1, <1>2, Still DEF Registers
<1>4. /\ r.ints = Ints(r.bytes)
      /\ r.bytes \in Bytes \cup (IF theLock = 0 THEN {1} ELSE {})
      /\ r.p # 0 => r.p \in Available
      /\ r.it # 0 => r.it \in Available /\ r.mx = Size(array, r.it) /\ r.ints <= Size(array, r.it)
  BY <1>1, <1>2 DEF Knows
<1>5. /\ "carve" \in Places \ {"heapInit", "panic"} /\ "carve" \in Locked
      /\ "search" \in Places \ {"heapInit", "panic"} /\ "search" \in Locked
  BY DEF Places, Locked
<1>6. CASE r.p = 0
  <2>1. Moves(c, "carve") /\ reg' = reg
    BY <1>6 DEF Search, Moves
  <2>2. Keeps(c)
    BY <1>2, <1>3, <2>1 DEF Keeps
  <2>3. pc'[c] = "carve"
    BY <1>2, <1>5, <2>1, Moved
  <2>4. Knows(c)'
    BY <1>3, <1>4, <2>1, <2>3 DEF Knows
  <2> QED
    BY <2>1, <2>2, <2>4
<1>7. CASE r.p # 0
  <2>1. r.p \in Available /\ IsAvail(array, r.p)
    BY <1>4, <1>7 DEF Available
  <2>2. /\ Moves(c, IF down = 0 THEN "carve" ELSE "search")
        /\ reg' = [reg EXCEPT ![c] = Advanced(r, x, i, down, p)]
    BY <1>7, <2>1 DEF Search, Moves, Advanced
  <2>3. PICK to \in {"carve", "search"} : to = IF down = 0 THEN "carve" ELSE "search"
    OBVIOUS
  <2>4. PICK u : u = Advanced(r, x, i, down, p)
    OBVIOUS
  <2>5. sz \in Int /\ r.p \in 0 .. len - 1 /\ r.it \in 0 .. len - 1 /\ r.mx \in Int /\ r.countDown \in Int
    <3>1. r.p \in 0 .. len - 1 /\ r.it \in 0 .. len - 1 /\ r.mx \in Int /\ r.countDown \in Int
      BY <1>2 DEF Registers
    <3>2. len \in Nat /\ array \in Mem(len) /\ r.p \in 0 .. len - 1
      BY <1>2, <3>1 DEF Shape, Mem
    <3>3. sz \in Nat
      BY ONLY <3>2, Sizes
    <3> QED
      BY <3>1, <3>3
  <2>6. NextOf(array, r.p) \in 0 .. len - 1 /\ (NextOf(array, r.p) # 0 => NextOf(array, r.p) \in Available)
    <3>1. NextOf(array, r.p) = 0 \/ NextOf(array, r.p) \in Available
      BY <1>2, <2>1, NextInList
    <3>2. Available \subseteq 0 .. len - 1
      BY <1>2 DEF Available, Shape
    <3>3. 0 \in 0 .. len - 1
      BY ONLY <1>2
    <3> QED
      BY ONLY <3>1, <3>2, <3>3
  <2>7. x \in Int /\ i \in 0 .. len - 1 /\ down \in Int /\ p \in 0 .. len - 1 /\ (p # 0 => p \in Available)
    BY <2>1, <2>5, <2>6
  <2>8. u \in Registers /\ u.ints = r.ints /\ u.bytes = r.bytes /\ u.mx = x /\ u.it = i /\ u.p = p
    BY <1>2, <2>4, <2>7, Advance
  <2>9. Keeps(c) /\ reg'[c] = u
    BY <1>2, <1>3, <2>2, <2>4, <2>8 DEF Keeps
  <2>10. pc'[c] = to /\ Moves(c, to)
    BY <1>2, <1>5, <2>2, <2>3, Moved
  <2>11. i # 0 => i \in Available /\ x = Size(array, i) /\ r.ints <= Size(array, i)
    BY <1>4, <2>1
  <2>12. Knows(c)'
    <3> HIDE DEF x, i, p
    <3> QED
      BY <1>3, <1>4, <2>7, <2>8, <2>9, <2>10, <2>11 DEF Knows
  <2> QED
    BY <2>8, <2>9, <2>10, <2>12
<1> QED
  BY <1>6, <1>7

\* It leaves everything else as it was.
LEMMA SearchStep ==
    ASSUME Inv, NEW c \in Core, Search(c)
    PROVE  Inv'
<1>1. /\ pc[c] = "search" /\ UNCHANGED <<heap, theLock>>
      /\ UNCHANGED <<heap, theLock, owned>> /\ owned' = owned /\ holder' = holder
  BY DEF Search
<1>2. /\ Shape /\ Users /\ Control /\ blocks # {}
      /\ (theLock = 0 => c = Boot /\ owned = {})
  BY <1>1, Around
<1>5. /\ "carve" \in Places \ {"heapInit", "panic"} /\ "carve" \in Locked
      /\ "search" \in Places \ {"heapInit", "panic"} /\ "search" \in Locked
  BY DEF Places, Locked
<1>6. PICK to \in {"carve", "search"} : Moves(c, to) /\ Keeps(c) /\ Knows(c)'
  BY Searching
<1>7. pc'[c] = to /\ to \in Places \ {"heapInit", "panic"} /\ to \in Locked /\ pc[c] \in Locked
  BY <1>1, <1>2, <1>5, <1>6, Moved
<1>8. Shape' /\ Control'
  <2>1. theLock = 0 => c = Boot /\ owned' = {} /\ to \notin {"free", "coalesce", "free return"}
    BY <1>1, <1>2
  <2> QED
    BY <1>1, <1>2, <1>6, <1>7, <2>1, Quiet
<1>9. Users'
  BY <1>1, <1>2, UsersStill
<1>10. GivenExact'
  <2>1. InFlight(c)' = InFlight(c)
    BY <1>1, <1>7 DEF InFlight
  <2> QED
    BY <1>1, <1>2, <1>6, <1>7, <2>1, NothingHanded
<1> QED
  BY <1>8, <1>9, <1>10, Parts, PTL

\* A user gives a block to free().
LEMMA FreeStep ==
    ASSUME Inv, NEW c \in Core, Free(c)
    PROVE  Inv'
<1>1. PICK b \in owned : owned' = owned \ {b} /\ reg' = [reg EXCEPT ![c].p = b.at]
  BY DEF Free
<1>2. pc[c] = "idle" /\ Moves(c, "free") /\ UNCHANGED <<heap, theLock>> /\ holder' = holder
  BY DEF Free, GoTo, Moves
<1>3. Control /\ Users /\ Shape
  BY Around
<1>4. theLock # 0
  BY <1>1, <1>3 DEF Control, Begun
<1>5. blocks # {} /\ reg \in [Core -> Registers] /\ len \in Nat /\ len >= 12
  BY <1>4, Around
<1>6. b.at \in 0 .. len - 1
  BY <1>1, <1>3 DEF Users, Shape
<1>7. Keeps(c) /\ reg'[c].p = b.at
  <2>1. Registers' = Registers
    BY <1>2 DEF Registers, heap, len
  <2>2. reg' \in [Core -> Registers] /\ reg'[c].p = b.at /\ \A d \in Core : d # c => reg'[d] = reg[d]
    BY <1>1, <1>5, <1>6 DEF Registers
  <2> QED
    BY <2>1, <2>2 DEF Keeps
<1>8. /\ pc'[c] = "free" /\ "free" \in Places \ {"heapInit", "panic"} /\ "free" \notin Locked
      /\ pc[c] \notin Locked
  BY <1>2, <1>3, Moved DEF Places, Locked
<1>9. Knows(c)'
  BY <1>8 DEF Knows
<1>10. Shape' /\ Control'
  BY <1>2, <1>4, <1>5, <1>7, <1>8, <1>9, Quiet
<1>11. Users'
  BY <1>1, <1>2, <1>3, UsersStill
<1>12. GivenExact'
  <2>1. Exactly(Given, owned, Flights, theLock) /\ 0 \notin Given
    BY <1>5, Counted
  <2>2. Flights[c] = {}
    BY <1>2 DEF Flights, InFlight
  <2>3. Exactly(Given, owned \ {b}, Holds(Flights, c, {b.at}), theLock)
    BY <2>1, <2>2, TakenBack
  <2>4. InFlight(c)' = {b.at}
    BY <1>7, <1>8 DEF InFlight
  <2>5. Flights' = Holds(Flights, c, {b.at})
    BY <1>2, <1>3, <1>7, <1>8, <2>4, Flown
  <2>6. Given' = Given /\ theLock' = theLock
    BY <1>2, <1>3, Still
  <2>7. Exactly(Given, owned, Flights, theLock)'
    BY <1>1, <2>3, <2>5, <2>6 DEF Exactly, Ats
  <2> QED
    BY <2>1, <2>6, <2>7, CountedAgain
<1> QED
  BY <1>10, <1>11, <1>12, Parts, PTL

\* The lock comes into being.
LEMMA LockMade ==
    ASSUME Inv, NEW c \in Core, MallocReturn(c), theLock = 0
    PROVE  Inv'
<1> DEFINE it == reg[c].it
<1>1. /\ pc[c] = "malloc return" /\ Moves(c, "idle") /\ UNCHANGED heap /\ theLock' = it
      /\ holder' = holder /\ owned' = owned /\ reg' = [reg EXCEPT ![c] = Idle]
  BY DEF MallocReturn, GoTo, Moves
<1>2. /\ Shape /\ Users /\ Control /\ blocks # {} /\ reg \in [Core -> Registers] /\ reg[c] \in Registers
      /\ Knows(c) /\ len \in Nat /\ len >= 12 /\ c = Boot /\ owned = {}
  BY <1>1, Around
<1>3. /\ Shape' /\ Given' = Given /\ array' = array /\ blocks' = blocks /\ len' = len
  BY <1>1, <1>2, Still
<1>4. \A d \in Core : pc'[d] = "idle"
  <2>1. "idle" \in Places
    BY DEF Places
  <2> QED
    BY <1>1, <1>2, <2>1, Moved DEF Control, Begun
<1>5. /\ holder' = NoCore /\ NoCore \notin Core
  BY <1>1, <1>2, HeapAssumption DEF Control, Begun
<1>6. Keeps(c)
  <2>1. Registers' = Registers
    BY <1>3 DEF Registers
  <2>2. Idle \in Registers
    BY <1>2 DEF Registers, Idle
  <2> QED
    BY <1>1, <1>2, <2>1, <2>2 DEF Keeps
<1>7. Control'
  <2>1. UnderLock' /\ NoPanic' /\ (\A d \in Core : Knows(d))'
    BY <1>4, <1>5 DEF UnderLock, NoPanic, Knows, Locked
  <2>2. Begun'
    BY <1>1, <1>2, <1>3, <1>4, <1>5, HeapAssumption DEF Begun
  <2>3. theLock' \in 0 .. len' - 1
    BY <1>1, <1>2, <1>3 DEF Registers
  <2>4. pc' \in [Core -> Places]
    BY <1>1, <1>2, Moved DEF Places
  <2> QED
    BY <1>5, <1>6, <2>1, <2>2, <2>3, <2>4 DEF Control, Keeps, Registers, Places
<1>8. Users'
  BY <1>1, <1>2, UsersStill
<1>9. GivenExact'
  <2>1. Exactly(Given, owned, Flights, 0) /\ 0 \notin Given
    BY <1>2, Counted
  <2>2. InFlight(c)' = {}
    BY <1>4 DEF InFlight
  <2>3. Flights' = Holds(Flights, c, {})
    BY <1>1, <1>2, <1>6, <2>2, Flown DEF Places
  <2>4. Exactly(Given, owned, Holds(Flights, c, {}), it)
    <3>1. CASE it = 0
      <4>1. Flights[c] = {}
        BY <1>1, <3>1 DEF Flights, InFlight
      <4>2. Holds(Flights, c, {}) = Flights
        BY <4>1 DEF Holds, Flights
      <4> QED
        BY <2>1, <3>1, <4>2
    <3>2. CASE it # 0
      <4>1. Flights[c] = {it}
        BY <1>1, <3>2 DEF Flights, InFlight
      <4> QED
        BY <2>1, <4>1, BecomesLock
    <3> QED
      BY <3>1, <3>2
  <2>5. Exactly(Given, owned, Flights, theLock)'
    BY <1>1, <1>3, <2>3, <2>4 DEF Exactly, Ats
  <2> QED
    BY <1>3, <2>1, <2>5, CountedAgain
<1> QED
  BY <1>3, <1>7, <1>8, <1>9, Parts, PTL

\* malloc() returns.
LEMMA MallocReturnStep ==
    ASSUME Inv, NEW c \in Core, MallocReturn(c)
    PROVE  Inv'
<1> SUFFICES ASSUME theLock # 0
             PROVE  Inv'
  BY LockMade
<1> DEFINE it == reg[c].it
           mine == [at |-> it, bytes |-> reg[c].bytes, fill |-> Unset]
<1>1. /\ pc[c] = "malloc return" /\ Moves(c, "idle") /\ UNCHANGED <<heap, theLock>> /\ holder' = NoCore
      /\ owned' = IF it = 0 THEN owned ELSE owned \cup {mine}
      /\ reg' = [reg EXCEPT ![c] = Idle]
  BY DEF MallocReturn, GoTo, Moves
<1>2. /\ Shape /\ Users /\ Control /\ blocks # {} /\ reg \in [Core -> Registers] /\ reg[c] \in Registers
      /\ Knows(c) /\ len \in Nat /\ len >= 12 /\ GivenExact
  BY <1>1, Around
<1>3. /\ Shape' /\ Given' = Given /\ array' = array /\ blocks' = blocks /\ len' = len /\ theLock' = theLock
  BY <1>1, <1>2, Still
<1>4. Keeps(c)
  <2>1. Registers' = Registers
    BY <1>3 DEF Registers
  <2>2. Idle \in Registers
    BY <1>2 DEF Registers, Idle
  <2> QED
    BY <1>1, <1>2, <2>1, <2>2 DEF Keeps
<1>5. /\ pc'[c] = "idle" /\ "idle" \in Places \ {"heapInit", "panic"} /\ "idle" \notin Locked
      /\ pc[c] \in Locked
  BY <1>1, <1>2, Moved DEF Places, Locked
<1>6. Knows(c)'
  BY <1>5 DEF Knows
<1>7. Control'
  BY <1>1, <1>2, <1>4, <1>5, <1>6, Quiet
<1>8. Exactly(Given, owned, Flights, theLock) /\ 0 \notin Given
  BY <1>2, Counted
<1>9. Flights' = Holds(Flights, c, {})
  <2>1. InFlight(c)' = {}
    BY <1>5 DEF InFlight
  <2> QED
    BY <1>1, <1>2, <1>4, <1>5, <2>1, Flown
<1>10. CASE it = 0
  <2>1. Users'
    BY <1>1, <1>2, <1>10, UsersStill
  <2>2. Flights' = Flights
    <3>1. Flights[c] = {}
      BY <1>1, <1>10 DEF Flights, InFlight
    <3> QED
      BY <1>9, <3>1 DEF Holds, Flights
  <2>3. Exactly(Given, owned, Flights, theLock)'
    BY <1>1, <1>3, <1>8, <1>10, <2>2 DEF Exactly, Ats
  <2>4. GivenExact'
    BY <1>3, <1>8, <2>3, CountedAgain
  <2> QED
    BY <1>3, <1>7, <2>1, <2>4, Parts, PTL
<1>11. CASE it # 0
  <2>1. Flights[c] = {it} /\ it \in Given
    <3>1. it \in InFlight(c) /\ InFlight(c) = {it}
      BY <1>1, <1>11 DEF InFlight
    <3>2. it \in Given
      BY <1>2, <3>1 DEF GivenExact
    <3> QED
      BY <3>1, <3>2 DEF Flights
  <2>2. owned' = owned \cup {mine}
    BY <1>1, <1>11
  <2>3. Users'
    <3>1. User(mine, array, blocks)
      <4>1. reg[c].bytes \in Bytes /\ Ints(reg[c].bytes) <= Size(array, it)
        BY <1>1, <1>2, <1>11 DEF Knows
      <4>2. /\ len \in Nat /\ array \in Mem(len) /\ blocks \in SUBSET (0 .. len - 1)
            /\ Tiles(array, blocks, len) /\ it \in blocks
        BY <1>2, <2>1 DEF Shape, Mem, Given
      <4> QED
        BY ONLY <4>1, <4>2, NewUser
    <3>2. \A u \in owned : User(u, array, blocks)
      BY <1>2, ByUser
    <3>3. \A b \in owned' : User(b, array, blocks)
      <4> HIDE DEF mine
      <4> QED
        BY <2>2, <3>1, <3>2
    <3>4. (\A u \in owned : User(u, array, blocks))'
      BY <1>3, <3>3 DEF User, Payload, Ints, Right, Size
    <3> QED
      BY <3>4, ByUserAgain
  <2>4. GivenExact'
    <3>1. Exactly(Given, owned \cup {mine}, Holds(Flights, c, {}), theLock)
      <4>1. Flights[c] = {mine.at}
        BY <2>1
      <4> HIDE DEF mine
      <4> QED
        BY <1>8, <4>1, HandedOut
    <3>2. Exactly(Given, owned, Flights, theLock)'
      <4> HIDE DEF mine
      <4> QED
        BY <1>3, <1>9, <2>2, <3>1 DEF Exactly, Ats
    <3> QED
      BY <1>3, <1>8, <3>2, CountedAgain
  <2> QED
    BY <1>3, <1>7, <2>3, <2>4, Parts, PTL
<1> QED
  BY <1>10, <1>11

(***************************************************************************)
(* The steps that change the heap.                                         *)
(***************************************************************************)

\* The cores, when the one that has the lock changes the heap.
LEMMA Changing ==
    ASSUME Inv, NEW c \in Core, NEW to \in {"malloc return", "free return"}, Moves(c, to),
           pc[c] \in {"carve", "coalesce"}, theLock = 0 => to = "malloc return",
           UNCHANGED <<theLock, holder, reg, owned>>, len' = len, blocks' # {}, Knows(c)'
    PROVE  Control'
<1>1. Control /\ blocks # {} /\ (theLock = 0 => c = Boot /\ owned = {})
  BY Around
<1>2. to \in Locked /\ to \in Places \ {"heapInit", "panic"} /\ pc[c] \in Locked
  BY DEF Locked, Places
<1>3. /\ pc' \in [Core -> Places] /\ pc'[c] = to /\ \A d \in Core : d # c => pc'[d] = pc[d]
  BY <1>1, <1>2, Moved
<1>4. UnderLock' /\ holder' \in Core \cup {NoCore}
  BY <1>1, <1>2, Lock
<1>5. Begun'
  <2>1. theLock = 0 => holder = NoCore
    BY <1>1 DEF Control, Begun
  <2> QED
    BY <1>1, <1>2, <2>1, BegunStill
<1>6. NoPanic'
  BY <1>1, <1>2, <1>3 DEF Control, NoPanic
<1>7. ASSUME NEW d \in Core
      PROVE  Knows(d)'
  <2>1. CASE d = c
    BY <2>1
  <2>2. CASE d # c
    <3>1. pc[d] \notin Locked
      BY <1>1, <1>2, <2>2, AloneIn
    <3> QED
      BY <1>1, <1>3, <2>2, <3>1, KnowsStill DEF Control
  <2> QED
    BY <2>1, <2>2
<1> QED
  BY <1>1, <1>3, <1>4, <1>5, <1>6, <1>7 DEF Control, Places

\* The users, when their blocks are preserved.
LEMMA UsersPreserved ==
    ASSUME Inv, blocks # {}, NEW h, Becomes(h), h.array \in Mem(len),
           NEW X, Preserved(h, Now, X), Ats(owned) \subseteq X, owned' = owned
    PROVE  Users'
<1>1. Shape /\ Users
  BY Parts
<1>2. len \in Nat /\ Heaped(Now, len)
  BY <1>1, Orderly, Length DEF Shape
<1>3. \A u \in owned : User(u, array, blocks)
  BY <1>1, ByUser
<1>4. ASSUME NEW b \in owned
      PROVE  User(b, h.array, h.blocks)
  <2>1. User(b, Now.array, Now.blocks) /\ b.at \in X
    BY <1>3, Fields DEF Ats
  <2> QED
    BY <1>2, <2>1, UserKept
<1>5. array' = h.array /\ blocks' = h.blocks
  BY DEF Becomes
<1>6. (\A u \in owned : User(u, array, blocks))'
  BY <1>4, <1>5 DEF User, Payload, Ints, Right, Size
<1> QED
  BY <1>6, ByUserAgain

\* The block found is given out, whole or cut to what was asked for.
LEMMA Carving ==
    ASSUME Inv, NEW c \in Core, Carve(c), reg[c].it # 0
    PROVE  \E h : /\ Becomes(h) /\ GivenOut(h, Now, reg[c].it, len)
                  /\ Size(h.array, reg[c].it) =
                        IF reg[c].mx - reg[c].ints >= 4 THEN reg[c].ints ELSE reg[c].mx
<1> DEFINE it == reg[c].it
           ints == reg[c].ints
           mx == reg[c].mx
<1>1. pc[c] = "carve"
  BY DEF Carve, GoTo
<1>2. /\ Shape /\ blocks # {} /\ reg[c] \in Registers /\ Knows(c) /\ len \in Nat /\ len >= 12
  BY <1>1, Around DEF Shape
<1>3. /\ ints = Ints(reg[c].bytes) /\ it \in Available /\ mx = Size(array, it) /\ ints <= Size(array, it)
  BY <1>1, <1>2 DEF Knows
<1>4. ints \in Nat /\ ints >= 4
  BY <1>2, <1>3, Fit DEF Registers
<1>5. Heaped(Now, len) /\ Elements(order) = Available
  BY <1>2, Orderly
<1>6. it \in Elements(Now.order) /\ mx = Size(Now.array, it) /\ ints <= mx /\ mx \in Nat
  <2>1. it \in Elements(Now.order) /\ mx = Size(Now.array, it) /\ ints <= mx
    BY <1>3, <1>5, Fields
  <2>2. mx \in Nat
    BY ONLY <1>2, <1>5, <2>1, Room
  <2> QED
    BY <2>1, <2>2
<1>7. CASE mx - ints >= 4
  <2>1. PICK e : e = mx - ints
    OBVIOUS
  <2>2. e \in Nat /\ e >= 4 /\ Size(Now.array, it) = ints + e
    BY <1>4, <1>6, <1>7, <2>1
  <2>3. PICK g : g = MakeAvail(MakeTaken(Remove(Now, it), it, ints), it + ints, e)
    OBVIOUS
  <2>4. GivenOut(g, Now, it, len) /\ Size(g.array, it) = ints
    BY ONLY <1>2, <1>4, <1>5, <1>6, <2>2, <2>3, CarveSplit
  <2>5. Becomes(g)
    BY <1>7, <2>1, <2>3 DEF Carve
  <2> QED
    BY <1>7, <2>4, <2>5
<1>8. CASE ~(mx - ints >= 4)
  <2>1. PICK g : g = MakeTaken(Remove(Now, it), it, mx)
    OBVIOUS
  <2>2. GivenOut(g, Now, it, len) /\ Size(g.array, it) = mx
    BY ONLY <1>2, <1>5, <1>6, <2>1, CarveWhole
  <2>3. Becomes(g)
    BY <1>8, <2>1 DEF Carve
  <2> QED
    BY <1>8, <2>2, <2>3
<1> QED
  BY <1>7, <1>8

\* The block found leaves the list, and what is left over of it becomes a block.
LEMMA CarveStep ==
    ASSUME Inv, NEW c \in Core, Carve(c)
    PROVE  Inv'
<1> DEFINE it == reg[c].it
           ints == reg[c].ints
           mx == reg[c].mx
<1>1. /\ pc[c] = "carve" /\ Moves(c, "malloc return") /\ UNCHANGED <<theLock, holder, reg, owned>>
      /\ theLock' = theLock /\ reg' = reg /\ owned' = owned
  BY DEF Carve, GoTo, Moves
<1>2. /\ Shape /\ Users /\ Control /\ blocks # {} /\ reg \in [Core -> Registers] /\ reg[c] \in Registers
      /\ Knows(c) /\ len \in Nat /\ len >= 12 /\ GivenExact /\ setup \in Setups
  BY <1>1, Around DEF Shape
<1>3. /\ ints = Ints(reg[c].bytes)
      /\ reg[c].bytes \in Bytes \cup (IF theLock = 0 THEN {1} ELSE {})
      /\ it # 0 => it \in Available /\ mx = Size(array, it) /\ ints <= Size(array, it)
  BY <1>1, <1>2 DEF Knows
<1>4. /\ "malloc return" \in Places /\ pc'[c] = "malloc return"
  BY <1>1, <1>2, Moved DEF Places, Locked
<1>5. ints \in Nat /\ ints >= 4
  <2>1. reg[c].bytes \in Nat
    BY <1>2 DEF Registers
  <2> QED
    BY <1>3, <2>1, Fit
<1>6. CASE it = 0
  <2>1. UNCHANGED heap
    BY <1>6 DEF Carve
  <2>2. Shape' /\ len' = len /\ blocks' = blocks
    BY <1>2, <2>1, Still
  <2>3. Knows(c)'
    BY <1>1, <1>3, <1>4, <1>6 DEF Knows
  <2>4. Control'
    BY <1>1, <1>2, <2>2, <2>3, Changing
  <2>5. Users'
    BY <1>1, <1>2, <2>1, UsersStill
  <2>6. GivenExact'
    <3>1. InFlight(c)' = InFlight(c)
      BY <1>1, <1>4, <1>6 DEF InFlight
    <3>2. Keeps(c)
      BY <1>1, <1>2, <2>2 DEF Keeps, Registers
    <3> QED
      BY <1>1, <1>2, <1>4, <2>1, <3>1, <3>2, NothingHanded
  <2> QED
    BY <2>2, <2>4, <2>5, <2>6, Parts, PTL
<1>7. CASE it # 0
  <2>1. /\ Heaped(Now, len) /\ Elements(order) = Available /\ InUse(Now) = Given \cup Ends
        /\ 0 \notin Given /\ len - 2 \notin Given
    BY <1>2, Orderly
  <2>2. it \in Elements(Now.order) /\ mx = Size(Now.array, it) /\ ints <= mx /\ mx \in Nat
    <3>1. it \in Elements(Now.order) /\ mx = Size(Now.array, it) /\ ints <= mx
      BY <1>3, <1>7, <2>1, Fields
    <3>2. mx \in Nat
      BY ONLY <1>2, <2>1, <3>1, Room
    <3> QED
      BY <3>1, <3>2
  <2>3. PICK h : /\ Becomes(h) /\ GivenOut(h, Now, it, len)
                 /\ Size(h.array, it) = IF mx - ints >= 4 THEN ints ELSE mx
    BY <1>7, Carving
  <2>4. /\ Heaped(h, len) /\ InUse(h) = InUse(Now) \cup {it} /\ Preserved(h, Now, InUse(Now))
    BY <2>3 DEF GivenOut
  <2>5. /\ Shape' /\ blocks' # {} /\ InUse(h) = Given' \cup Ends /\ 0 \notin Given'
        /\ len - 2 \notin Given' /\ array' = h.array /\ len' = len
    BY <1>2, <2>3, <2>4, Becoming
  <2>6. it \notin Given /\ it \notin Ends /\ it # 0
    BY <1>2, <1>3, <1>7, InTheList DEF Given, Ends
  <2>7. Given' = Given \cup {it}
    BY <2>1, <2>4, <2>5, <2>6 DEF Ends
  <2>8. Knows(c)'
    <3>1. ints <= Size(h.array, it)
      BY <1>5, <2>2, <2>3
    <3>2. Size(array, it)' = Size(h.array, it')
      BY <2>5
    <3> QED
      BY <1>1, <1>3, <1>4, <2>5, <3>1 DEF Knows
  <2>9. Control'
    BY <1>1, <1>2, <2>5, <2>8, Changing
  <2>10. Exactly(Given, owned, Flights, theLock)
    BY <1>2, Counted
  <2>11. Users'
    <3>1. Ats(owned) \subseteq InUse(Now)
      BY <2>1, <2>10 DEF Exactly
    <3>2. h.array \in Mem(len)
      BY <1>2, <2>4, Room
    <3> QED
      BY <1>1, <1>2, <2>3, <2>4, <3>1, <3>2, UsersPreserved
  <2>12. GivenExact'
    <3>1. Flights[c] = {} /\ it # theLock
      BY <1>1, <2>6, <2>10 DEF Flights, InFlight, Exactly
    <3>2. Exactly(Given \cup {it}, owned, Holds(Flights, c, {it}), theLock)
      BY ONLY <2>6, <2>10, <3>1, c \in Core, Enters
    <3>3. InFlight(c)' = {it}
      BY <1>1, <1>4, <1>7 DEF InFlight
    <3>4. Keeps(c)
      BY <1>1, <1>2, <2>5 DEF Keeps, Registers
    <3>5. Flights' = Holds(Flights, c, {it})
      BY <1>1, <1>2, <1>4, <3>3, <3>4, Flown
    <3>6. Exactly(Given, owned, Flights, theLock)'
      BY <1>1, <2>7, <3>2, <3>5 DEF Exactly, Ats
    <3> QED
      BY <2>5, <3>6, CountedAgain
  <2> QED
    BY <2>5, <2>9, <2>11, <2>12, Parts, PTL
<1> QED
  BY <1>6, <1>7

\* The block that comes back is one that was given out, and joins its neighbours.
LEMMA Returning ==
    ASSUME Inv, NEW c \in Core, Coalesce(c)
    PROVE  /\ reg[c].p \in Given
           /\ \E h : Becomes(h) /\ GivenBack(h, Now, reg[c].p, len)
<1> DEFINE i == reg[c].p
<1>1. pc[c] = "coalesce"
  BY DEF Coalesce, GoTo
<1>2. Shape /\ blocks # {} /\ len \in Nat
  BY <1>1, Around
<1>3. Heaped(Now, len) /\ InUse(Now) = Given \cup Ends /\ 0 \notin Given /\ len - 2 \notin Given
  BY <1>2, Orderly
<1>4. Exactly(Given, owned, Flights, theLock)
  BY <1>2, Counted
<1>5. Flights[c] = {i}
  BY <1>1 DEF Flights, InFlight
<1>6. i \in Given
  BY <1>4, <1>5 DEF Exactly
<1>7. i \in InUse(Now) /\ i # 0 /\ i # len - 2
  BY <1>3, <1>6
<1>8. PICK h : h = Rejoined(Now, i, Left(Now.array, i), Right(Now.array, i))
  OBVIOUS
<1>9. GivenBack(h, Now, i, len)
  <2>1. len \in Nat /\ Heaped(Now, len) /\ i \in InUse(Now) /\ i # 0 /\ i # len - 2
    BY ONLY <1>2, <1>3, <1>7
  <2>2. GivenBack(Rejoined(Now, i, Left(Now.array, i), Right(Now.array, i)), Now, i, len)
    BY ONLY <2>1, Returned
  <2> QED
    BY ONLY <1>8, <2>2
<1>10. Becomes(h)
  BY <1>8, Fields DEF Coalesce, Rejoined, Drop
<1> QED
  BY <1>6, <1>9, <1>10

\* A block comes back and joins its neighbours.
LEMMA CoalesceStep ==
    ASSUME Inv, NEW c \in Core, Coalesce(c)
    PROVE  Inv'
<1> DEFINE i == reg[c].p
<1>1. /\ pc[c] = "coalesce" /\ Moves(c, "free return") /\ UNCHANGED <<theLock, holder, reg, owned>>
      /\ theLock' = theLock /\ reg' = reg /\ owned' = owned
  BY DEF Coalesce, GoTo, Moves
<1>2. /\ Shape /\ Users /\ Control /\ blocks # {} /\ reg \in [Core -> Registers] /\ reg[c] \in Registers
      /\ Knows(c) /\ len \in Nat /\ len >= 12 /\ GivenExact /\ setup \in Setups
  BY <1>1, Around DEF Shape
<1>3. theLock # 0
  BY <1>1, <1>2, HeapAssumption DEF Control, Begun
<1>4. /\ "free return" \in Places /\ pc'[c] = "free return"
  BY <1>1, <1>2, Moved DEF Places, Locked
<1>5. /\ Heaped(Now, len) /\ InUse(Now) = Given \cup Ends
      /\ 0 \notin Given /\ len - 2 \notin Given
  BY <1>2, Orderly
<1>6. Exactly(Given, owned, Flights, theLock)
  BY <1>2, Counted
<1>7. Flights[c] = {i}
  BY <1>1 DEF Flights, InFlight
<1>8. i \in Given /\ i \notin Ats(owned)
  BY <1>6, <1>7 DEF Exactly
<1>12. PICK h : Becomes(h) /\ GivenBack(h, Now, i, len)
  BY Returning
<1>13. Heaped(h, len) /\ InUse(h) = InUse(Now) \ {i} /\ Preserved(h, Now, InUse(Now) \ {i})
  BY <1>12 DEF GivenBack
<1>14. /\ Shape' /\ blocks' # {} /\ InUse(h) = Given' \cup Ends /\ 0 \notin Given'
       /\ len - 2 \notin Given' /\ array' = h.array /\ len' = len
  BY <1>2, <1>12, <1>13, Becoming
<1>15. Given' = Given \ {i}
  BY <1>5, <1>13, <1>14 DEF Ends
<1>16. Knows(c)'
  BY <1>4 DEF Knows
<1>17. Control'
  BY <1>1, <1>2, <1>3, <1>14, <1>16, Changing
<1>18. Users'
  <2>1. Ats(owned) \subseteq InUse(Now) \ {i}
    BY <1>5, <1>6, <1>8 DEF Exactly
  <2>2. h.array \in Mem(len)
    BY <1>2, <1>13, Room
  <2> QED
    BY <1>1, <1>2, <1>12, <1>13, <2>1, <2>2, UsersPreserved
<1>19. GivenExact'
  <2>1. Exactly(Given \ {i}, owned, Holds(Flights, c, {}), theLock)
    BY ONLY <1>6, <1>7, c \in Core, Leaves
  <2>2. InFlight(c)' = {}
    BY <1>4 DEF InFlight
  <2>3. Keeps(c)
    BY <1>1, <1>2, <1>14 DEF Keeps, Registers
  <2>4. Flights' = Holds(Flights, c, {})
    BY <1>1, <1>2, <1>4, <2>2, <2>3, Flown
  <2>5. Exactly(Given, owned, Flights, theLock)'
    BY <1>1, <1>15, <2>1, <2>4 DEF Exactly, Ats
  <2> QED
    BY <1>14, <2>5, CountedAgain
<1> QED
  BY <1>14, <1>17, <1>18, <1>19, Parts, PTL

\* The words of q are those of m but for some between the ends of the block of s words at i.
Within(q, m, i, s) == \A w \in DOMAIN m : (w <= i \/ i + s - 1 <= w) => q[w] = m[w]

\* The heap g is h, with the block i in use written between its ends.
Fills(g, h, i, n) ==
    /\ n \in Nat /\ Heaped(h, n) /\ i \in InUse(h) /\ IsHeap(g) /\ g.array \in Mem(n)
    /\ Within(g.array, h.array, i, Size(h.array, i))
    /\ g.blocks = h.blocks /\ g.order = h.order /\ g.avail = h.avail

\* The heap g has the blocks of h, and the words of those in use but for i.
Unharmed(g, h, i, n) ==
    /\ Heaped(g, n) /\ InUse(g) = InUse(h) /\ Preserved(g, h, InUse(h) \ {i})
    /\ \A b \in h.blocks : g.array[b] = h.array[b] /\ Size(g.array, b) = Size(h.array, b)

\* What is written between the ends of a block in use harms no other.
LEMMA Filled ==
    ASSUME NEW n, NEW h, NEW i, NEW g, Fills(g, h, i, n)
    PROVE  Unharmed(g, h, i, n)
<1> SUFFICES ASSUME n \in Nat, Heaped(h, n), i \in InUse(h), IsHeap(g), g.array \in Mem(n),
                    Within(g.array, h.array, i, Size(h.array, i)),
                    g.blocks = h.blocks, g.order = h.order, g.avail = h.avail
             PROVE  /\ Heaped(g, n) /\ InUse(g) = InUse(h) /\ Preserved(g, h, InUse(h) \ {i})
                    /\ \A b \in h.blocks : g.array[b] = h.array[b] /\ Size(g.array, b) = Size(h.array, b)
  BY DEF Fills, Unharmed
<1>0. n \in Nat
  OBVIOUS
<1>1. PICK m, q, B, L, s : /\ m = h.array /\ q = g.array /\ B = h.blocks /\ L = Elements(h.order)
                           /\ s = Size(m, i)
  OBVIOUS
<1>2. /\ n \in Nat /\ m \in Mem(n) /\ B \in SUBSET (0 .. n - 1) /\ Tiles(m, B, n)
      /\ q \in Mem(n) /\ i \in B /\ i \notin L
  BY <1>1, Room DEF InUse
<1>3. \A a \in L : a \in B /\ a \in Nat /\ Size(m, a) \in Nat /\ Size(m, a) >= 4 /\ a # 0
                   /\ a + Size(m, a) <= n
  BY <1>1, Room
<1>4. i \in Nat /\ s \in Nat /\ s >= 2 /\ i + s <= n
  BY ONLY <1>1, <1>2, Spans
<1>5. \A w \in 0 .. n - 1 : (w <= i \/ i + s - 1 <= w) => q[w] = m[w]
  <2>1. DOMAIN m = 0 .. n - 1
    BY <1>2 DEF Mem
  <2> QED
    BY <1>1, <2>1 DEF Within
<1>6. ASSUME NEW b \in B, b # i
      PROVE  \A w \in b .. b + Size(m, b) - 1 : q[w] = m[w]
  <2>1. /\ b \in Nat /\ Size(m, b) \in Nat /\ b + Size(m, b) <= n
        /\ \A d \in B : d # b => b + Size(m, b) <= d \/ d + Size(m, d) <= b
    BY ONLY <1>2, <1>6, Spans
  <2>2. b + Size(m, b) <= i \/ i + s <= b
    BY ONLY <1>1, <1>2, <1>6, <2>1
  <2> QED
    BY ONLY <1>0, <1>4, <1>5, <2>1, <2>2
<1>7. ASSUME NEW b \in B
      PROVE  q[b] = m[b] /\ q[b + Size(m, b) - 1] = m[b + Size(m, b) - 1]
  <2>1. b \in Nat /\ Size(m, b) \in Nat /\ Size(m, b) >= 2 /\ b + Size(m, b) <= n
    BY ONLY <1>2, <1>7, Spans
  <2>2. CASE b # i
    BY ONLY <1>6, <1>7, <2>1, <2>2
  <2>3. CASE b = i
    BY ONLY <1>0, <1>1, <1>4, <1>5, <2>3
  <2> QED
    BY <2>2, <2>3
<1>8. \A b \in B : q[b] = m[b] /\ Size(q, b) = Size(m, b)
  BY <1>7 DEF Size
<1>9. Tiles(q, B, n)
  <2>1. \A b \in B : Size(q, b) = Size(m, b) /\ q[b + Size(m, b) - 1] = q[b]
    <3> SUFFICES ASSUME NEW b \in B
                 PROVE  q[b + Size(m, b) - 1] = q[b]
      BY <1>8
    <3>1. m[b + Size(m, b) - 1] = m[b]
      BY ONLY <1>2, b \in B, Spans
    <3> QED
      BY <1>7, <3>1
  <2> QED
    BY ONLY <1>2, <2>1, Kept
<1>10. Listed(g, n)
  <2>1. LinksKept(q, m, L, 0)
    <3> SUFFICES ASSUME NEW a \in L
                 PROVE  q[a + 1] = m[a + 1] /\ q[a + 2] = m[a + 2]
      BY DEF LinksKept
    <3>1. a \in B /\ a # i /\ a + 1 \in a .. a + Size(m, a) - 1 /\ a + 2 \in a .. a + Size(m, a) - 1
      BY <1>2, <1>3
    <3> QED
      BY ONLY <1>6, <3>1
  <2>2. IsList(m, h.order, n) /\ h.avail = FirstOf(h.order)
    BY <1>1 DEF Heaped, Listed
  <2>3. IsList(q, h.order, n)
    BY ONLY <1>1, <1>2, <2>1, <2>2, Untroubled
  <2> QED
    BY <1>1, <1>2, <2>2, <2>3 DEF Listed
<1>11. /\ 0 \in B /\ n - 2 \in B /\ m[0] = -2 /\ m[n - 2] = -2
       /\ \A b \in B : b \notin {0, n - 2} => Size(m, b) >= 4
       /\ L = {b \in B : IsAvail(m, b)}
       /\ \A b \in L : Right(m, b) \notin L
  BY <1>1 DEF Heaped
<1>12. L = {b \in B : IsAvail(q, b)}
  BY <1>8, <1>11 DEF IsAvail
<1>13. \A b \in L : Right(q, b) \notin L
  BY <1>3, <1>8, <1>11 DEF Right
<1>14. q[0] = -2 /\ q[n - 2] = -2 /\ \A b \in B : b \notin {0, n - 2} => Size(q, b) >= 4
  BY <1>8, <1>11
<1>15. Heaped(g, n)
  BY <1>1, <1>2, <1>9, <1>10, <1>11, <1>12, <1>13, <1>14 DEF Heaped
<1>16. InUse(g) = InUse(h)
  BY DEF InUse
<1>17. Preserved(g, h, InUse(h) \ {i})
  BY <1>1, <1>6 DEF Preserved, InUse
<1> QED
  BY <1>1, <1>8, <1>15, <1>16, <1>17

\* What a user writes into a block is between its ends, and harms no other.
LEMMA Writes ==
    ASSUME Inv, NEW b \in owned, NEW v \in setup.values,
           array' = [w \in DOMAIN array |-> IF w \in Payload(b) THEN v ELSE array[w]],
           UNCHANGED <<setup, avail, blocks, order>>
    PROVE  /\ b.at \in Given /\ Payload(b) \subseteq b.at + 1 .. b.at + Size(array, b.at) - 2
           /\ \A w \in 0 .. len - 1 : array'[w] = IF w \in Payload(b) THEN v ELSE array[w]
           /\ array' \in Mem(len) /\ Heaped(Now, len)
           /\ \E h : Becomes(h) /\ Unharmed(h, Now, b.at, len)
<1>3. Shape /\ Users /\ Control /\ GivenExact
  BY Parts
<1>4. blocks # {}
  BY <1>3, Busy
<1>5. len \in Nat /\ len >= 12 /\ setup \in Setups
  BY <1>3, Length DEF Shape
<1>6. Heaped(Now, len) /\ InUse(Now) = Given \cup Ends
  BY <1>3, <1>4, Orderly
<1>7. Exactly(Given, owned, Flights, theLock)
  BY <1>4, Counted
<1> DEFINE i == b.at
<1>8. i \in InUse(Now) /\ i \in Given
  BY <1>6, <1>7 DEF Exactly, Ats
<1>9. User(b, array, blocks)
  BY <1>3, ByUser
<1>10. v \in Int
  BY <1>5, HeapAssumption
<1>11. /\ array \in Mem(len) /\ blocks \in SUBSET (0 .. len - 1) /\ Tiles(array, blocks, len) /\ i \in blocks
       /\ len \in Nat
  BY <1>3, <1>5, <1>8 DEF Shape, Mem, Given
<1>12. /\ i \in Nat /\ Size(array, i) \in Nat /\ Size(array, i) >= 2 /\ i + Size(array, i) <= len
       /\ Right(array, i) = i + Size(array, i)
  BY ONLY <1>11, Spans
<1>13. Payload(b) \subseteq i + 1 .. i + Size(array, i) - 2
  <2>1. Payload(b) \subseteq b.at + 1 .. Right(array, b.at) - 2
    BY <1>9 DEF User
  <2> QED
    BY <1>12, <2>1
<1>14. array' \in Mem(len) /\ \A w \in 0 .. len - 1 : array'[w] = IF w \in Payload(b) THEN v ELSE array[w]
  BY <1>10, <1>11 DEF Mem
<1>15. Within(array', array, i, Size(array, i))
  <2>1. DOMAIN array = 0 .. len - 1
    BY <1>11 DEF Mem
  <2>2. ASSUME NEW w \in 0 .. len - 1, w <= i \/ i + Size(array, i) - 1 <= w
        PROVE  array'[w] = array[w]
    <3>1. w \notin i + 1 .. i + Size(array, i) - 2
      BY ONLY <1>5, <1>12, <2>2
    <3>2. w \notin Payload(b)
      BY ONLY <1>13, <3>1
    <3> QED
      BY <1>14, <3>2
  <2> QED
    BY <2>1, <2>2 DEF Within
<1>16. PICK h : h = [array |-> array', avail |-> avail, blocks |-> blocks, order |-> order]
  OBVIOUS
<1>17. /\ IsHeap(h) /\ h.array = array' /\ h.avail = Now.avail /\ h.blocks = Now.blocks /\ h.order = Now.order
       /\ Now.array = array
  BY <1>16, Fields DEF IsHeap
<1>18. Becomes(h)
  BY <1>17, Fields DEF Becomes
<1>19. Unharmed(h, Now, i, len)
  <2>1. Fills(h, Now, i, len)
    BY <1>5, <1>6, <1>8, <1>14, <1>15, <1>17 DEF Fills
  <2> QED
    BY ONLY <2>1, Filled
<1> QED
  BY <1>6, <1>8, <1>13, <1>14, <1>18, <1>19

\* No header changes, so nothing is given out or comes back.
LEMMA Written ==
    ASSUME Inv, Write
    PROVE  /\ Given' = Given /\ len' = len
           /\ \A a \in blocks : array'[a] = array[a] /\ Size(array', a) = Size(array, a)
<1>1. PICK b \in owned, v \in setup.values :
         array' = [w \in DOMAIN array |-> IF w \in Payload(b) THEN v ELSE array[w]]
  BY DEF Write
<1>2. UNCHANGED <<setup, avail, blocks, order>> /\ len' = len /\ blocks' = blocks
  BY DEF Write, len
<1>3. PICK h : Becomes(h) /\ Unharmed(h, Now, b.at, len)
  BY ONLY Inv, <1>1, <1>2, Writes
<1>4. \A a \in blocks : array'[a] = array[a] /\ Size(array', a) = Size(array, a)
  BY <1>3, Fields DEF Becomes, Unharmed
<1>5. \A a \in blocks : IsAvail(array', a) <=> IsAvail(array, a)
  BY <1>4 DEF IsAvail
<1>6. Available' = Available /\ Ends' = Ends
  BY <1>2, <1>5 DEF Available, Ends
<1> QED
  BY <1>2, <1>4, <1>6 DEF Given

\* A user writes into a block: the heap, and what the other users wrote, stay.
LEMMA WriteStep ==
    ASSUME Inv, Write
    PROVE  Inv'
<1>1. PICK b \in owned, v \in setup.values :
         /\ array' = [w \in DOMAIN array |-> IF w \in Payload(b) THEN v ELSE array[w]]
         /\ owned' = (owned \ {b}) \cup {[b EXCEPT !.fill = v]}
  BY DEF Write
<1>2. /\ UNCHANGED <<setup, avail, theLock, holder, pc, reg, blocks, order>> /\ len' = len
      /\ theLock' = theLock /\ blocks' = blocks /\ pc' = pc /\ reg' = reg /\ holder' = holder
  BY DEF Write, len
<1>3. Shape /\ Users /\ Control /\ GivenExact
  BY Parts
<1>4. theLock # 0 /\ blocks # {}
  <2>1. owned # {}
    BY <1>1
  <2> QED
    BY <1>3, <2>1, Busy DEF Control, Begun
<1>5. len \in Nat /\ len >= 12 /\ setup \in Setups
  BY <1>3, Length DEF Shape
<1>6. /\ Heaped(Now, len) /\ InUse(Now) = Given \cup Ends /\ Elements(order) = Available
      /\ 0 \notin Given /\ len - 2 \notin Given
  BY <1>3, <1>4, Orderly
<1>7. Exactly(Given, owned, Flights, theLock)
  BY <1>4, Counted
<1> DEFINE i == b.at
           d == [b EXCEPT !.fill = v]
<1>8. PICK h : Becomes(h) /\ Unharmed(h, Now, i, len)
  BY ONLY Inv, <1>1, <1>2, Writes
<1>9. User(b, array, blocks) /\ b \in [at : blocks, bytes : Bytes, fill : Value \cup {Unset}]
  BY <1>1, <1>3, ByUser DEF User
<1>10. v \in Value
  BY <1>1, <1>5, HeapAssumption
<1>11. array \in Mem(len) /\ blocks \in SUBSET (0 .. len - 1) /\ Tiles(array, blocks, len) /\ i \in blocks
  BY <1>3, <1>5, <1>9 DEF Shape, Mem
<1>12. i \in Nat /\ Size(array, i) \in Nat /\ i + Size(array, i) <= len
  BY ONLY <1>5, <1>11, Spans
<1>13. Payload(b) \subseteq i + 1 .. i + Size(array, i) - 2
  BY ONLY Inv, <1>1, <1>2, Writes
<1>14. array' \in Mem(len) /\ \A w \in 0 .. len - 1 : array'[w] = IF w \in Payload(b) THEN v ELSE array[w]
  BY ONLY Inv, <1>1, <1>2, Writes
<1>17. h.array = array' /\ h.blocks = Now.blocks /\ Now.array = array /\ Now.blocks = blocks
  BY <1>2, <1>8, Fields DEF Becomes
<1>19. /\ Heaped(h, len) /\ InUse(h) = InUse(Now) /\ Preserved(h, Now, InUse(Now) \ {i})
       /\ \A a \in blocks : h.array[a] = array[a] /\ Size(h.array, a) = Size(array, a)
  BY <1>8, <1>17 DEF Unharmed
<1>20. /\ Shape' /\ blocks' # {} /\ InUse(h) = Given' \cup Ends /\ 0 \notin Given'
       /\ len - 2 \notin Given' /\ array' = h.array
  BY <1>5, <1>8, <1>19, Becoming
<1>21. Given' = Given
  BY <1>6, <1>19, <1>20 DEF Ends
<1>22. Available' = Available
  BY <1>2, <1>17, <1>19 DEF Available, IsAvail
<1>23. Control'
  <2>1. ASSUME NEW c \in Core
        PROVE  Knows(c)'
    <3>1. \A a \in Available : Size(array, a)' = Size(array, a')
      <4>1. \A a \in Available : a \in blocks
        BY DEF Available
      <4> QED
        BY <1>17, <1>19, <4>1 DEF Size
    <3>2. Knows(c)
      BY <1>3 DEF Control
    <3>3. \A a \in blocks : Size(array', a) = Size(array, a)
      BY <1>17, <1>19
    <3>4. pc[c] = "malloc return" /\ reg[c].it # 0 => reg[c].it \in blocks
      <4>1. pc[c] = "malloc return" /\ reg[c].it # 0 => reg[c].it \in Given
        <5>1. pc[c] = "malloc return" /\ reg[c].it # 0 => reg[c].it \in InFlight(c)
          BY DEF InFlight
        <5> QED
          BY <1>3, <5>1 DEF GivenExact
      <4> QED
        BY <4>1 DEF Given
    <3>5. pc[c] \in {"search", "carve", "malloc return"} /\ reg[c].it # 0
             => Size(array', reg[c].it) = Size(array, reg[c].it)
      BY <3>2, <3>3, <3>4 DEF Knows, Available
    <3> QED
      BY <1>2, <1>22, <3>2, <3>5 DEF Knows
  <2>2. UnderLock' /\ Begun' /\ NoPanic'
    BY <1>2, <1>3, <1>4 DEF Control, UnderLock, Begun, NoPanic
  <2> QED
    BY <1>2, <1>3, <2>1, <2>2 DEF Control
<1>24. d.at = i /\ d.bytes = b.bytes /\ d.fill = v /\ d \in [at : blocks, bytes : Bytes, fill : Value \cup {Unset}]
  BY <1>9, <1>10
<1>25. Users'
  <2>1. User(d, array', blocks)
    <3>1. Payload(d) = Payload(b)
      BY <1>24 DEF Payload
    <3>2. Size(array', i) = Size(array, i) /\ Right(array', i) = Right(array, i)
      BY <1>11, <1>17, <1>19 DEF Right
    <3>3. \A w \in Payload(d) : array'[w] = v
      <4>1. i + 1 .. i + Size(array, i) - 2 \subseteq 0 .. len - 1
        BY ONLY <1>5, <1>12
      <4> QED
        BY <1>13, <1>14, <3>1, <4>1
    <3> HIDE DEF d
    <3> QED
      BY <1>9, <1>24, <3>1, <3>2, <3>3 DEF User
  <2>2. ASSUME NEW a \in owned, a # b
        PROVE  User(a, array', blocks)
    <3>1. a.at \in InUse(Now) \ {i}
      BY <1>1, <1>6, <1>7, <2>2 DEF Exactly, Ats
    <3>2. User(a, Now.array, Now.blocks)
      BY <1>3, <1>17, ByUser
    <3>3. h.array \in Mem(len)
      BY <1>14, <1>17
    <3>4. User(a, h.array, h.blocks)
      BY ONLY <1>5, <1>6, <1>19, <3>1, <3>2, <3>3, UserKept
    <3> QED
      BY <1>17, <3>4
  <2>3. \A a \in owned' : User(a, array', blocks)
    <3> HIDE DEF d
    <3>1. owned' = (owned \ {b}) \cup {d}
      BY <1>1 DEF d
    <3> QED
      BY <2>1, <2>2, <3>1
  <2>4. (\A u \in owned : User(u, array, blocks))'
    BY <1>2, <2>3 DEF User, Payload, Ints, Right, Size
  <2> QED
    BY <2>4, ByUserAgain
<1>26. GivenExact'
  <2>1. Exactly(Given, (owned \ {b}) \cup {d}, Flights, theLock)
    <3> HIDE DEF d
    <3> QED
      BY <1>1, <1>7, <1>24, Refilled
  <2>2. Flights' = Flights
    BY <1>2 DEF Flights, InFlight
  <2>3. Exactly(Given, owned, Flights, theLock)'
    BY <1>1, <1>2, <1>21, <2>1, <2>2 DEF Exactly, Ats
  <2> QED
    BY <1>20, <2>3, CountedAgain
<1> QED
  BY <1>20, <1>23, <1>25, <1>26, Parts, PTL

\* heapInit() makes the blocks, of which none is given out.
LEMMA SettingUp ==
    ASSUME Inv, NEW c \in Core, HeapInit(c)
    PROVE  Shape' /\ blocks' # {} /\ Given' = {} /\ len' = len
<1>1. pc[c] = "heapInit"
  BY DEF HeapInit, GoTo
<1>2. /\ Shape /\ blocks = {} /\ len \in Nat /\ len >= 12 /\ setup \in Setups
  BY <1>1, Around DEF Shape
<1>3. Listed(Now, len) /\ order = <<>>
  <2>1. DOMAIN order = 1 .. Len(order) /\ Len(order) \in Nat /\ (order = <<>> <=> Len(order) = 0)
    BY <1>2, Lists DEF Shape
  <2>2. DOMAIN order = {}
    BY <1>2 DEF Shape, ListExact, Available
  <2>3. order = <<>>
    BY <2>1, <2>2
  <2>4. IsList(array, <<>>, len)
    BY DEF IsList, Spaced, Linked
  <2>5. avail = FirstOf(<<>>)
    BY <1>2, <2>3 DEF Shape, ListExact, FirstOf
  <2>6. array \in Mem(len)
    BY <1>2 DEF Shape, Mem
  <2> QED
    BY <2>3, <2>4, <2>5, <2>6, Fields DEF Listed
<1>4. PICK h : h = MakeTaken(MakeAvail(MakeTaken(Now, 0, 2), 2, len - 4), len - 2, 2)
  OBVIOUS
<1>5. Heaped(h, len) /\ InUse(h) = {0, len - 2} /\ h.blocks = {0, 2, len - 2}
  BY <1>2, <1>3, <1>4, Fields, Begin
<1>6. Becomes(h)
  BY <1>4 DEF HeapInit
<1>7. /\ Shape' /\ blocks' # {} /\ InUse(h) = Given' \cup Ends /\ 0 \notin Given'
      /\ len - 2 \notin Given' /\ array' = h.array /\ len' = len
  BY <1>2, <1>5, <1>6, Becoming
<1>8. Given' = {}
  BY <1>5, <1>7 DEF Ends
<1> QED
  BY <1>7, <1>8

\* It asks for one for the lock.
LEMMA HeapInitStep ==
    ASSUME Inv, NEW c \in Core, HeapInit(c)
    PROVE  Inv'
<1>1. /\ pc[c] = "heapInit" /\ Moves(c, "malloc") /\ UNCHANGED <<theLock, holder, owned>>
      /\ theLock' = theLock /\ owned' = owned /\ holder' = holder
      /\ reg' = [reg EXCEPT ![c] = [Idle EXCEPT !.ints = Ints(1), !.bytes = 1]]
  BY DEF HeapInit, GoTo, Moves
<1>2. /\ Shape /\ Users /\ Control /\ blocks = {} /\ reg \in [Core -> Registers]
      /\ len \in Nat /\ len >= 12 /\ GivenExact /\ setup \in Setups /\ c = Boot
  BY <1>1, Around DEF Shape
<1>3. /\ theLock = 0 /\ owned = {} /\ pc[Boot] = "heapInit" /\ holder = NoCore
      /\ \A d \in Core \ {Boot} : pc[d] = "idle"
  BY <1>2, Busy DEF Control, Begun
<1>8. Shape' /\ blocks' # {} /\ Given' = {} /\ len' = len
  BY SettingUp
<1>9. Given' = {}
  BY <1>8
<1>10. /\ "malloc" \in Places \ {"heapInit"} /\ "malloc" \notin Locked /\ pc[c] \notin Locked
       /\ pc'[c] = "malloc"
  BY <1>1, <1>2, Moved DEF Places, Locked
<1>11. Ints(1) \in Nat
  BY Fit
<1>12. Keeps(c) /\ reg'[c].ints = Ints(1) /\ reg'[c].bytes = 1 /\ reg'[c].it = 0
  <2>1. [Idle EXCEPT !.ints = Ints(1), !.bytes = 1] \in Registers
    <3>1. PICK x, y : x = Ints(1) /\ y = 1
      OBVIOUS
    <3>2. x \in Int /\ y \in Nat
      BY <1>11, <3>1
    <3>3. [Idle EXCEPT !.ints = x, !.bytes = y] \in Registers
      BY <1>2, <3>2, Request
    <3> QED
      BY ONLY <3>1, <3>3
  <2>2. Registers' = Registers
    BY <1>8 DEF Registers
  <2> QED
    BY <1>1, <1>2, <2>1, <2>2 DEF Keeps, Idle
<1>13. /\ pc' \in [Core -> Places] /\ \A d \in Core : d # c => pc'[d] = pc[d]
  BY <1>1, <1>2, <1>10, Moved
<1>14. Control'
  <2>1. UnderLock' /\ holder' \in Core \cup {NoCore}
    BY <1>1, <1>2, <1>10, Lock
  <2>2. Begun'
    BY <1>1, <1>2, <1>3, <1>8, <1>10, BegunStill
  <2>3. NoPanic'
    BY <1>2, <1>10, <1>13 DEF Control, NoPanic
  <2>4. ASSUME NEW d \in Core
        PROVE  Knows(d)'
    <3>1. CASE d = c
      <4>1. theLock' = 0
        BY <1>1, <1>3
      <4> QED
        BY <1>10, <1>12, <3>1, <4>1 DEF Knows
    <3>2. CASE d # c
      <4>1. pc[d] \notin Locked
        BY <1>2, <1>3, <3>2 DEF Locked
      <4> QED
        BY <1>1, <1>2, <1>12, <1>13, <3>2, <4>1, KnowsStill DEF Control, Keeps
    <3> QED
      BY <3>1, <3>2
  <2>5. theLock' \in 0 .. len' - 1
    BY <1>1, <1>2, <1>8 DEF Control
  <2> QED
    BY <1>12, <1>13, <2>1, <2>2, <2>3, <2>4, <2>5 DEF Control, Keeps, Registers, Places
<1>15. Users'
  BY <1>1, <1>3 DEF Users, PayloadIntact
<1>16. GivenExact'
  <2>1. \A d \in Core : InFlight(d)' = {}
    BY <1>2, <1>3, <1>10, <1>13 DEF InFlight
  <2>2. owned' = {} /\ theLock' = 0
    BY <1>1, <1>3
  <2> QED
    BY <1>9, <2>1, <2>2 DEF GivenExact
<1> QED
  BY <1>8, <1>14, <1>15, <1>16, Parts, PTL

(***************************************************************************)
(* The invariant.                                                          *)
(***************************************************************************)

\* Before heapInit everything but the boot core idles, and nothing is given out.
LEMMA InitInv == Init => Inv
<1> SUFFICES ASSUME Init
             PROVE  Inv
  OBVIOUS
<1>1. /\ setup \in Setups /\ array = [i \in 0 .. len - 1 |-> 0] /\ avail = 0 /\ theLock = 0
      /\ holder = NoCore /\ pc = [c \in Core |-> IF c = Boot THEN "heapInit" ELSE "idle"]
      /\ reg = [c \in Core |-> Idle] /\ owned = {} /\ blocks = {} /\ order = <<>>
  BY DEF Init
<1>2. len \in Nat /\ len >= 12 /\ Boot \in Core /\ NoCore \notin Core
  BY <1>1, Length, HeapAssumption
<1>3. Available = {} /\ Given = {}
  BY <1>1 DEF Available, Given
<1>4. Shape
  <2>1. ListExact
    BY <1>1, <1>3 DEF ListExact, Linked
  <2>2. array \in [0 .. len - 1 -> Int]
    BY <1>1
  <2> QED
    BY <1>1, <1>2, <1>3, <2>1, <2>2 DEF Shape, Coalesced, Tiles
<1>5. Users
  BY <1>1 DEF Users, PayloadIntact
<1>6. Control
  <2>1. Idle \in Registers
    BY <1>2 DEF Idle, Registers
  <2>2. UnderLock /\ NoPanic /\ \A c \in Core : Knows(c)
    BY <1>1 DEF UnderLock, NoPanic, Knows
  <2>3. Begun
    BY <1>1, <1>2 DEF Begun
  <2> QED
    BY <1>1, <1>2, <2>1, <2>2, <2>3 DEF Control, Registers
<1>7. GivenExact
  <2>1. \A c \in Core : InFlight(c) = {}
    BY <1>1 DEF InFlight
  <2> QED
    BY <1>1, <1>3, <2>1 DEF GivenExact
<1> QED
  BY <1>4, <1>5, <1>6, <1>7, Parts

\* A step that changes nothing.
LEMMA Stutter == Inv /\ UNCHANGED vars => Inv'
<1> SUFFICES ASSUME Inv, UNCHANGED vars
             PROVE  Inv'
  OBVIOUS
<1>1. UNCHANGED heap /\ theLock' = theLock /\ holder' = holder /\ pc' = pc /\ reg' = reg /\ owned' = owned
  BY DEF vars
<1>2. Shape /\ Users /\ Control /\ GivenExact
  BY Parts
<1>3. /\ Shape' /\ Available' = Available /\ Given' = Given
      /\ array' = array /\ blocks' = blocks /\ len' = len
  BY <1>1, <1>2, Still
<1>4. Users'
  BY <1>1, <1>2, UsersStill
<1>5. Control'
  <2>1. ASSUME NEW c \in Core
        PROVE  Knows(c)'
    BY <1>1, <1>2, <1>3, KnowsStill DEF Control
  <2> QED
    BY <1>1, <1>2, <1>3, <2>1 DEF Control, UnderLock, Begun, NoPanic
<1>6. GivenExact'
  <2>1. \A c \in Core : InFlight(c)' = InFlight(c)
    BY <1>1 DEF InFlight
  <2> QED
    BY <1>1, <1>2, <1>3, <2>1 DEF GivenExact
<1> QED
  BY <1>3, <1>4, <1>5, <1>6, Parts, PTL

\* Every step of every core keeps the invariant, by the lemma of its action.
LEMMA NextInv == Inv /\ [Next]_vars => Inv'
<1>1. ASSUME Inv, NEW c \in Core, Step(c) \/ Malloc(c) \/ Free(c)
      PROVE  Inv'
  BY <1>1, HeapInitStep, StartSearchStep, SearchStep, CarveStep, MallocReturnStep, StartFreeStep,
     CoalesceStep, FreeReturnStep, MallocStep, FreeStep DEF Step
<1> QED
  BY <1>1, WriteStep, Stutter DEF Next

\* The inductive invariant: of the memory, its blocks and its list, the lock, the cores
\* and the users.
THEOREM Invariance == SafeSpec => []Inv
<1>1. Init => Inv
  BY InitInv
<1>2. Inv /\ [Next]_vars => Inv'
  BY NextInv
<1> QED
  BY <1>1, <1>2, PTL DEF SafeSpec

\* free() joins a block with its neighbours, so that no two available blocks are side by
\* side, and an available block has room for its links.
THEOREM Joined == SafeSpec => []Coalesced
<1>1. Inv => Coalesced
  BY DEF Inv
<1> QED
  BY <1>1, Invariance, PTL

\* No block is given to two users or calls, and none that was given out is lost.
THEOREM OneOwner == SafeSpec => []GivenExact
<1>1. Inv => GivenExact
  BY DEF Inv
<1> QED
  BY <1>1, Invariance, PTL

\* malloc() and free() leave what the users write, and the words a user asked for are
\* between the header and the footer of the block.
THEOREM Untouched == SafeSpec => []PayloadIntact
<1>1. Inv => PayloadIntact
  BY DEF Inv
<1> QED
  BY <1>1, Invariance, PTL

\* malloc() never meets a taken block in its list, and free() never an available one.
THEOREM Calm == SafeSpec => []NoPanic
<1>1. Inv => NoPanic
  BY DEF Inv
<1> QED
  BY <1>1, Invariance, PTL

(***************************************************************************)
(* The choice of the search.                                               *)
(***************************************************************************)

\* The places among the first k of the list o where a block has n words or more.
Big(m, o, n, k) == {j \in 1 .. k : Size(m, o[j]) >= n}

\* One place more.
LEMMA BigMore ==
    ASSUME NEW m, NEW o, NEW n, NEW k \in Nat
    PROVE  /\ Big(m, o, n, 0) = {} /\ Cardinality({}) = 0
           /\ Big(m, o, n, k) \subseteq 1 .. k /\ Cardinality(Big(m, o, n, k)) \in Nat
           /\ (Size(m, o[k + 1]) >= n) =>
                 /\ Big(m, o, n, k + 1) = Big(m, o, n, k) \cup {k + 1}
                 /\ Cardinality(Big(m, o, n, k + 1)) = Cardinality(Big(m, o, n, k)) + 1
           /\ ~(Size(m, o[k + 1]) >= n) => Big(m, o, n, k + 1) = Big(m, o, n, k)
<1>1. IsFiniteSet(1 .. k) /\ Big(m, o, n, k) \subseteq 1 .. k
  BY FS_Interval DEF Big
<1>2. IsFiniteSet(Big(m, o, n, k)) /\ Cardinality(Big(m, o, n, k)) \in Nat
  BY <1>1, FS_Subset, FS_CardinalityType
<1>3. k + 1 \notin Big(m, o, n, k) /\ 1 .. k + 1 = (1 .. k) \cup {k + 1}
  BY <1>1
<1>4. ASSUME Size(m, o[k + 1]) >= n
      PROVE  Big(m, o, n, k + 1) = Big(m, o, n, k) \cup {k + 1}
  BY <1>3, <1>4 DEF Big
<1>5. ASSUME Size(m, o[k + 1]) >= n
      PROVE  Cardinality(Big(m, o, n, k + 1)) = Cardinality(Big(m, o, n, k)) + 1
  BY <1>2, <1>3, <1>4, <1>5, FS_AddElement
<1>6. ASSUME ~(Size(m, o[k + 1]) >= n)
      PROVE  Big(m, o, n, k + 1) = Big(m, o, n, k)
  BY <1>3, <1>6 DEF Big
<1>7. Big(m, o, n, 0) = {}
  BY DEF Big
<1> QED
  BY <1>1, <1>2, <1>4, <1>5, <1>6, <1>7, FS_EmptySet

\* More places, more blocks.
LEMMA BigWithin ==
    ASSUME NEW m, NEW o, NEW n, NEW k \in Nat, NEW j \in Nat, j <= k
    PROVE  /\ Big(m, o, n, j) \subseteq Big(m, o, n, k)
           /\ Cardinality(Big(m, o, n, j)) <= Cardinality(Big(m, o, n, k))
<1>1. IsFiniteSet(1 .. k) /\ Big(m, o, n, k) \subseteq 1 .. k
  BY FS_Interval DEF Big
<1>2. IsFiniteSet(Big(m, o, n, k))
  BY <1>1, FS_Subset
<1>3. Big(m, o, n, j) \subseteq Big(m, o, n, k)
  BY DEF Big
<1> QED
  BY <1>2, <1>3, FS_Subset

\* What the variables of a search say when it has looked at the first k of the list:
\* how many more may fit, and a smallest of those that did.
Looked(r, m, o, k, fits, huge) ==
    LET S == Big(m, o, r.ints, k) IN
    /\ r.countDown = fits - Cardinality(S)
    /\ S = {} => r.it = 0 /\ r.mx = huge
    /\ S # {} => /\ \E j \in S : r.it = o[j]
                 /\ \A j \in S : r.mx <= Size(m, o[j])
                 /\ r.mx = Size(m, r.it)

\* It looks at the next one.
Looks(u, r, m, o, k) ==
    LET b == o[k + 1]
        fit == Size(m, b) >= r.ints
        better == fit /\ Size(m, b) < r.mx
    IN  /\ u.ints = r.ints
        /\ u.countDown = IF fit THEN r.countDown - 1 ELSE r.countDown
        /\ u.mx = IF better THEN Size(m, b) ELSE r.mx
        /\ u.it = IF better THEN b ELSE r.it

\* Then it says the same of one more.
LEMMA LookOn ==
    ASSUME NEW m, NEW o, NEW r, NEW u, NEW k \in Nat, NEW fits \in Int, NEW huge \in Int,
           Looked(r, m, o, k, fits, huge), Looks(u, r, m, o, k),
           r.ints \in Int, r.mx \in Int, \A j \in 1 .. k + 1 : Size(m, o[j]) \in Int,
           Size(m, o[k + 1]) < huge
    PROVE  Looked(u, m, o, k + 1, fits, huge)
<1> DEFINE S == Big(m, o, r.ints, k)
           T == Big(m, o, r.ints, k + 1)
           z == Size(m, o[k + 1])
<1>1. /\ S \subseteq 1 .. k /\ Cardinality(S) \in Nat
      /\ z >= r.ints => T = S \cup {k + 1} /\ Cardinality(T) = Cardinality(S) + 1
      /\ ~(z >= r.ints) => T = S
  BY BigMore
<1>2. /\ r.countDown = fits - Cardinality(S)
      /\ S = {} => r.it = 0 /\ r.mx = huge
      /\ S # {} => /\ \E j \in S : r.it = o[j]
                   /\ \A j \in S : r.mx <= Size(m, o[j])
                   /\ r.mx = Size(m, r.it)
  BY DEF Looked
<1>3. u.ints = r.ints /\ z \in Int
  BY DEF Looks
<1>4. CASE ~(z >= r.ints)
  <2>1. u.countDown = r.countDown /\ u.mx = r.mx /\ u.it = r.it /\ T = S
    BY <1>1, <1>4 DEF Looks
  <2> QED
    BY <1>2, <1>3, <2>1 DEF Looked
<1>5. CASE z >= r.ints /\ z < r.mx
  <2>1. u.countDown = r.countDown - 1 /\ u.mx = z /\ u.it = o[k + 1] /\ T = S \cup {k + 1}
        /\ Cardinality(T) = Cardinality(S) + 1
    BY <1>1, <1>5 DEF Looks
  <2>2. u.countDown = fits - Cardinality(T)
    BY <1>1, <1>2, <2>1
  <2>3. \A j \in S : u.mx <= Size(m, o[j])
    <3> SUFFICES ASSUME NEW j \in S PROVE u.mx <= Size(m, o[j])
      OBVIOUS
    <3>1. r.mx <= Size(m, o[j]) /\ Size(m, o[j]) \in Int
      BY <1>1, <1>2
    <3> QED
      BY ONLY r.mx \in Int, <1>3, <1>5, <2>1, <3>1
  <2>4. \A j \in T : u.mx <= Size(m, o[j])
    BY <1>3, <2>1, <2>3
  <2> HIDE DEF T
  <2>5. \E j \in T : u.it = o[j]
    BY <2>1
  <2>6. T # {} /\ T = Big(m, o, u.ints, k + 1) /\ u.mx = Size(m, u.it)
    BY <1>3, <2>1, <2>5 DEF T
  <2> QED
    BY <2>2, <2>4, <2>5, <2>6 DEF Looked
<1>6. CASE z >= r.ints /\ ~(z < r.mx)
  <2>1. u.countDown = r.countDown - 1 /\ u.mx = r.mx /\ u.it = r.it /\ T = S \cup {k + 1}
        /\ Cardinality(T) = Cardinality(S) + 1
    BY <1>1, <1>6 DEF Looks
  <2>2. u.countDown = fits - Cardinality(T)
    BY <1>1, <1>2, <2>1
  <2>3. S # {}
    BY <1>2, <1>6
  <2>4. \A j \in T : u.mx <= Size(m, o[j])
    BY <1>2, <1>3, <1>6, <2>1, <2>3
  <2>5. \E j \in T : u.it = o[j]
    BY <1>2, <2>1, <2>3
  <2> HIDE DEF T
  <2>6. T # {} /\ T = Big(m, o, u.ints, k + 1) /\ u.mx = Size(m, u.it)
    BY <1>2, <1>3, <2>1, <2>3, <2>5 DEF T
  <2> QED
    BY <2>2, <2>4, <2>5, <2>6 DEF Looked
<1> QED
  BY <1>4, <1>5, <1>6

\* The same sizes, the same choice.
LEMMA LookedSame ==
    ASSUME NEW m, NEW q, NEW o, NEW r, NEW fits, NEW huge,
           Len(o) \in Nat, DOMAIN o = 1 .. Len(o), NEW k \in 0 .. Len(o),
           \A b \in Elements(o) : Size(q, b) = Size(m, b), Looked(r, m, o, k, fits, huge)
    PROVE  Looked(r, q, o, k, fits, huge) /\ Big(q, o, r.ints, k) = Big(m, o, r.ints, k)
<1>1. \A j \in 1 .. k : o[j] \in Elements(o) /\ Size(q, o[j]) = Size(m, o[j])
  BY DEF Elements
<1>2. Big(q, o, r.ints, k) = Big(m, o, r.ints, k)
  BY <1>1 DEF Big
<1>3. Big(m, o, r.ints, k) \subseteq 1 .. k
  BY DEF Big
<1> QED
  BY <1>1, <1>2, <1>3 DEF Looked

\* Where a search is in the list, and what it has found when it ends: it has looked at
\* the whole list, or the last it has looked at was the last that may fit.
Chosen(c) ==
    LET r == reg[c]
        upTo(k) == Looked(r, array, order, k, MaxFits, Huge)
    IN  /\ pc[c] = "search" =>
              \E k \in 0 .. Len(order) :
                  /\ upTo(k) /\ r.countDown > 0
                  /\ r.p = IF k = Len(order) THEN 0 ELSE order[k + 1]
        /\ pc[c] = "carve" =>
              \E k \in 0 .. Len(order) :
                  /\ upTo(k)
                  /\ IF r.countDown = 0 THEN k \in Big(array, order, r.ints, k)
                     ELSE k = Len(order) /\ r.countDown > 0

\* What the invariant says of the list.
LEMMA ListFacts ==
    ASSUME Inv
    PROVE  /\ Len(order) \in Nat /\ DOMAIN order = 1 .. Len(order)
           /\ \A j \in 1 .. Len(order) : order[j] \in Available /\ order[j] # 0
           /\ avail = IF Len(order) = 0 THEN 0 ELSE order[1]
           /\ Elements(order) = Available
           /\ \A j \in 1 .. Len(order) :
                 NextOf(array, order[j]) = IF j = Len(order) THEN 0 ELSE order[j + 1]
<1>1. Shape
  BY Parts
<1>2. /\ Len(order) \in Nat /\ DOMAIN order = 1 .. Len(order) /\ (order = <<>> <=> Len(order) = 0)
  BY <1>1, Lists DEF Shape
<1>3. Elements(order) = Available
  BY <1>1 DEF Shape, ListExact, Elements
<1>4. \A b \in Available : b # 0
  <2>1. CASE blocks = {}
    BY <2>1 DEF Available
  <2>2. CASE blocks # {}
    BY <1>1, <2>2, InTheList
  <2> QED
    BY <2>1, <2>2
<1> QED
  BY <1>1, <1>2, <1>3, <1>4 DEF Shape, ListExact, Elements, Linked

\* A search that does not move, in a heap whose list is the same, has looked at the same.
LEMMA ChosenStill ==
    ASSUME Inv, NEW c \in Core, Chosen(c), pc'[c] = pc[c], reg'[c] = reg[c], order' = order, setup' = setup,
           \A b \in Available : Size(array', b) = Size(array, b)
    PROVE  Chosen(c)'
<1>1. /\ Len(order) \in Nat /\ DOMAIN order = 1 .. Len(order)
      /\ \A b \in Elements(order) : Size(array', b) = Size(array, b)
  BY ListFacts
<1>2. MaxFits' = MaxFits /\ Huge' = Huge
  BY DEF MaxFits, Huge, len
<1>3. ASSUME NEW k \in 0 .. Len(order), Looked(reg[c], array, order, k, MaxFits, Huge)
      PROVE  /\ Looked(reg[c], array', order, k, MaxFits, Huge)
             /\ Big(array', order, reg[c].ints, k) = Big(array, order, reg[c].ints, k)
  BY ONLY <1>1, <1>3, LookedSame
<1> QED
  BY <1>2, <1>3 DEF Chosen

\* Every step of a core moves it, and is one of those under the lock, or takes the lock, or
\* is a call.
LEMMA Going ==
    ASSUME NEW c \in Core, Step(c) \/ Malloc(c) \/ Free(c)
    PROVE  /\ \E to : Moves(c, to)
           /\ pc[c] \in Locked \cup {"heapInit"} \/ Guard(c) \/ Malloc(c) \/ Free(c)
           /\ pc[c] = "idle" => Malloc(c) \/ Free(c)
<1>1. CASE HeapInit(c)
  BY <1>1 DEF HeapInit, GoTo, Moves
<1>2. CASE StartSearch(c)
  BY <1>2 DEF StartSearch, GoTo, Moves
<1>3. CASE Search(c)
  <2>1. \E to : Moves(c, to)
    BY <1>3 DEF Search, Moves
  <2> QED
    BY <1>3, <2>1 DEF Search, Locked
<1>4. CASE Carve(c)
  BY <1>4 DEF Carve, GoTo, Moves, Locked
<1>5. CASE MallocReturn(c)
  BY <1>5 DEF MallocReturn, GoTo, Moves, Locked
<1>6. CASE StartFree(c)
  BY <1>6 DEF StartFree, Moves
<1>7. CASE Coalesce(c)
  BY <1>7 DEF Coalesce, GoTo, Moves, Locked
<1>8. CASE FreeReturn(c)
  BY <1>8 DEF FreeReturn, GoTo, Moves, Locked
<1>9. CASE Malloc(c) \/ Free(c)
  BY <1>9 DEF Malloc, Free, GoTo, Moves
<1> QED
  BY <1>1, <1>2, <1>3, <1>4, <1>5, <1>6, <1>7, <1>8, <1>9 DEF Step

\* Nobody else touches the heap during a search.
LEMMA ChosenElse ==
    ASSUME Inv, NEW c \in Core, Chosen(c), NEW d \in Core, d # c, Step(d) \/ Malloc(d) \/ Free(d)
    PROVE  Chosen(c)'
<1>1. /\ Shape /\ Control /\ pc \in [Core -> Places] /\ reg \in [Core -> Registers]
      /\ pc[d] = "heapInit" => blocks = {} /\ d = Boot
      /\ pc[d] # "idle" /\ theLock = 0 => d = Boot /\ owned = {}
      /\ pc[c] # "idle" /\ theLock = 0 => c = Boot /\ owned = {}
      /\ pc[c] \notin {"heapInit", "idle"} => blocks # {}
  <2>1. /\ Shape /\ Control /\ reg \in [Core -> Registers]
        /\ pc[d] = "heapInit" => blocks = {} /\ d = Boot
        /\ pc[d] # "idle" /\ theLock = 0 => d = Boot /\ owned = {}
    BY ONLY Inv, d \in Core, Around
  <2>2. /\ pc[c] # "idle" /\ theLock = 0 => c = Boot /\ owned = {}
        /\ pc[c] \notin {"heapInit", "idle"} => blocks # {}
    BY ONLY Inv, c \in Core, Around
  <2>3. Control
    BY <2>1
  <2>4. pc \in [Core -> Places]
    BY ONLY <2>3, Whereabouts
  <2> QED
    BY ONLY <2>1, <2>2, <2>4
<1>2. pc'[c] = pc[c]
  BY <1>1, Going DEF Moves
<1>3. CASE pc[c] \notin {"search", "carve"}
  BY <1>2, <1>3 DEF Chosen
<1>4. CASE pc[c] \in {"search", "carve"}
  <2>1. pc[c] \in Locked /\ pc[d] \notin Locked /\ pc[d] # "heapInit"
    BY <1>1, <1>4, AloneIn DEF Locked
  <2>2. ~Guard(d) \/ pc[d] = "idle"
    <3>1. CASE theLock = 0
      BY <1>1, <1>4, <3>1
    <3>2. CASE theLock # 0
      <4>1. UnderLock
        BY <1>1, Whereabouts
      <4>2. holder = c
        BY ONLY <2>1, <3>2, <4>1, c \in Core DEF UnderLock
      <4> QED
        BY <3>2, <4>2, HeapAssumption DEF Guard
    <3> QED
      BY <3>1, <3>2
  <2>3. Malloc(d) \/ Free(d)
    <3>1. pc[d] \notin Locked \cup {"heapInit"}
      BY <2>1
    <3> QED
      BY <2>2, <3>1, Going
  <2>4. UNCHANGED heap /\ reg'[c] = reg[c]
    BY <1>1, <2>3 DEF Malloc, Free
  <2> QED
    BY <1>2, <2>4, ChosenStill DEF heap
<1> QED
  BY <1>3, <1>4

\* The search begins with nothing.
LEMMA ChosenFirst ==
    ASSUME Inv, NEW c \in Core, StartSearch(c)
    PROVE  Chosen(c)'
<1>1. reg' = Begins(reg, c, avail, Huge, MaxFits)
  BY DEF StartSearch, Begins
<1>2. /\ pc[c] = "malloc" /\ Moves(c, "search") /\ UNCHANGED heap
  BY DEF StartSearch, GoTo, Moves
<1>3. /\ Control /\ reg \in [Core -> Registers] /\ reg[c] \in Registers /\ Knows(c) /\ setup \in Setups
  BY Around DEF Shape
<1>4. pc'[c] = "search"
  BY <1>2, <1>3, Moved DEF Places, Locked
<1>5. PICK r : r = reg'[c]
  OBVIOUS
<1>6. r.it = 0 /\ r.mx = Huge /\ r.countDown = MaxFits /\ r.p = avail
  <2>1. reg[c].it = 0
    BY <1>2, <1>3 DEF Knows
  <2>2. /\ r.it = reg[c].it /\ r.mx = Huge /\ r.countDown = MaxFits /\ r.p = avail
    <3>1. PICK x, y, p : x = Huge /\ y = MaxFits /\ p = avail
      OBVIOUS
    <3>2. PICK a : a = [reg EXCEPT ![c].p = p]
      OBVIOUS
    <3>3. PICK b : b = [a EXCEPT ![c].mx = x]
      OBVIOUS
    <3>4. PICK g : g = [b EXCEPT ![c].countDown = y]
      OBVIOUS
    <3>5. r = g[c]
      BY <1>1, <1>5, <3>1, <3>2, <3>3, <3>4 DEF Begins
    <3>6. /\ DOMAIN reg = Core /\ DOMAIN a = Core /\ DOMAIN b = Core
      BY <1>3, <3>2, <3>3
    <3>7. /\ a[c] = [reg[c] EXCEPT !.p = p] /\ b[c] = [a[c] EXCEPT !.mx = x]
          /\ g[c] = [b[c] EXCEPT !.countDown = y]
      BY ONLY <3>2, <3>3, <3>4, <3>6, c \in Core
    <3>8. /\ a[c].p = p /\ a[c].it = reg[c].it /\ DOMAIN a[c] = DOMAIN reg[c]
      BY <1>3, <3>7 DEF Registers
    <3>9. /\ b[c].p = p /\ b[c].it = reg[c].it /\ b[c].mx = x /\ DOMAIN b[c] = DOMAIN reg[c]
      BY <1>3, <3>7, <3>8 DEF Registers
    <3>10. /\ g[c].p = p /\ g[c].it = reg[c].it /\ g[c].mx = x /\ g[c].countDown = y
      BY <1>3, <3>7, <3>9 DEF Registers
    <3> QED
      BY <3>1, <3>5, <3>10
  <2> QED
    BY <2>1, <2>2
<1>7. MaxFits \in Nat \ {0}
  BY <1>3, HeapAssumption DEF MaxFits
<1>8. /\ order' = order /\ array' = array /\ MaxFits' = MaxFits /\ Huge' = Huge
  BY <1>2 DEF heap, MaxFits, Huge, len
<1>9. Looked(r, array, order, 0, MaxFits, Huge)
  <2>1. Big(array, order, r.ints, 0) = {} /\ Cardinality({}) = 0
    BY BigMore
  <2> QED
    BY <1>6, <1>7, <2>1 DEF Looked
<1>10. 0 \in 0 .. Len(order) /\ r.p = IF 0 = Len(order) THEN 0 ELSE order[0 + 1]
  <2>1. Len(order) \in Nat /\ avail = IF Len(order) = 0 THEN 0 ELSE order[1]
    BY ListFacts
  <2>2. 0 + 1 = 1
    OBVIOUS
  <2> QED
    BY ONLY <1>6, <2>1, <2>2
<1> QED
  BY <1>4, <1>5, <1>6, <1>7, <1>8, <1>9, <1>10 DEF Chosen

\* An iteration of the search looks at the next block of the list.
LEMMA ChosenNext ==
    ASSUME Inv, NEW c \in Core, Search(c), Chosen(c)
    PROVE  Chosen(c)'
<1> DEFINE r == reg[c]
           sz == Size(array, r.p)
           fits == sz >= r.ints
           better == fits /\ sz < r.mx
           down == IF fits THEN r.countDown - 1 ELSE r.countDown
           x == IF better THEN sz ELSE r.mx
           i == IF better THEN r.p ELSE r.it
           p == IF down = 0 THEN r.p ELSE NextOf(array, r.p)
<1>1. pc[c] = "search" /\ UNCHANGED heap
  BY DEF Search
<1>2. /\ Shape /\ Control /\ reg \in [Core -> Registers] /\ r \in Registers
      /\ Knows(c) /\ len \in Nat /\ len >= 12 /\ setup \in Setups /\ pc \in [Core -> Places]
  <2>1. /\ Shape /\ Control /\ reg \in [Core -> Registers] /\ r \in Registers
        /\ Knows(c) /\ len \in Nat /\ len >= 12
    BY Around
  <2>2. setup \in Setups
    BY <2>1 DEF Shape
  <2>3. Control
    BY <2>1
  <2>4. pc \in [Core -> Places]
    BY ONLY <2>3, Whereabouts
  <2> QED
    BY ONLY <2>1, <2>2, <2>4
<1>3. MaxFits \in Nat /\ Huge \in Nat
  BY <1>2, HeapAssumption DEF MaxFits, Huge
<1>4. /\ order' = order /\ array' = array /\ MaxFits' = MaxFits /\ Huge' = Huge
  BY <1>1 DEF heap, MaxFits, Huge, len
<1>5. /\ Len(order) \in Nat /\ \A j \in 1 .. Len(order) : order[j] \in Available /\ order[j] # 0
      /\ \A j \in 1 .. Len(order) :
            NextOf(array, order[j]) = IF j = Len(order) THEN 0 ELSE order[j + 1]
  BY ListFacts
<1>6. PICK k \in 0 .. Len(order) :
         /\ Looked(r, array, order, k, MaxFits, Huge) /\ r.countDown > 0
         /\ r.p = IF k = Len(order) THEN 0 ELSE order[k + 1]
  BY <1>1 DEF Chosen
<1>7. /\ r.ints \in Int /\ r.mx \in Int /\ r.countDown \in Int
  BY <1>2 DEF Registers
<1>8. CASE r.p = 0
  <2>1. pc'[c] = "carve" /\ reg' = reg
    BY <1>2, <1>8 DEF Search
  <2>2. k = Len(order)
    BY <1>5, <1>6, <1>8
  <2> QED
    BY <1>4, <1>6, <1>7, <2>1, <2>2 DEF Chosen
<1>9. CASE r.p # 0
  <2>1. k < Len(order) /\ k + 1 \in 1 .. Len(order) /\ r.p = order[k + 1] /\ r.p \in Available
    BY <1>5, <1>6, <1>9
  <2>2. IsAvail(array, r.p)
    BY <2>1 DEF Available
  <2>3. /\ pc'[c] = IF down = 0 THEN "carve" ELSE "search"
        /\ reg' = [reg EXCEPT ![c] = Advanced(r, x, i, down, p)]
    BY <1>2, <1>9, <2>2 DEF Search, Advanced
  <2>4. \A j \in 1 .. Len(order) : Size(array, order[j]) \in Nat /\ Size(array, order[j]) < Huge
    <3>1. \A a \in Available : Size(array, a) \in Nat /\ Size(array, a) < len
      <4> SUFFICES ASSUME NEW a \in Available PROVE Size(array, a) \in Nat /\ Size(array, a) < len
        OBVIOUS
      <4>1. blocks # {} /\ a \in blocks
        BY DEF Available
      <4>2. /\ len \in Nat /\ array \in Mem(len) /\ blocks \in SUBSET (0 .. len - 1)
            /\ Tiles(array, blocks, len) /\ a \in 1 .. len - 4
        BY <1>2, <4>1, InTheList DEF Shape, Mem
      <4>3. a \in Nat /\ Size(array, a) \in Nat /\ a + Size(array, a) <= len
        BY ONLY <4>1, <4>2, Spans
      <4> QED
        BY ONLY <4>2, <4>3
    <3> QED
      BY <1>5, <3>1 DEF Huge
  <2>5. PICK u : u = Advanced(r, x, i, down, p)
    OBVIOUS
  <2>6. u.ints = r.ints /\ u.mx = x /\ u.it = i /\ u.countDown = down /\ u.p = p
    <3>1. /\ x \in Int /\ i \in 0 .. len - 1 /\ down \in Int /\ p \in 0 .. len - 1
      <4>1. r.p \in 0 .. len - 1 /\ r.it \in 0 .. len - 1
        BY <1>2 DEF Registers
      <4>2. NextOf(array, r.p) \in 0 .. len - 1
        <5>1. NextOf(array, r.p) = 0 \/ NextOf(array, r.p) \in Available
          BY <1>2, <2>1, NextInList
        <5>2. Available \subseteq 0 .. len - 1
          BY <1>2 DEF Available, Shape
        <5>3. 0 \in 0 .. len - 1
          BY ONLY <1>2
        <5> QED
          BY ONLY <5>1, <5>2, <5>3
      <4>3. sz \in Int
        BY <2>1, <2>4
      <4> QED
        BY <1>7, <4>1, <4>2, <4>3
    <3> HIDE DEF x, i, down, p
    <3> QED
      BY <1>2, <2>5, <3>1, Advance
  <2>7. reg'[c] = u
    BY <1>2, <2>3, <2>5
  <2>8. Looks(u, r, array, order, k)
    BY <2>1, <2>6 DEF Looks
  <2>9. Looked(u, array, order, k + 1, MaxFits, Huge)
    <3>1. /\ k \in Nat /\ MaxFits \in Int /\ Huge \in Int /\ Looked(r, array, order, k, MaxFits, Huge)
          /\ Looks(u, r, array, order, k) /\ r.ints \in Int /\ r.mx \in Int
          /\ \A j \in 1 .. k + 1 : Size(array, order[j]) \in Int
          /\ Size(array, order[k + 1]) < Huge
      BY <1>3, <1>6, <1>7, <2>1, <2>4, <2>8
    <3> QED
      BY ONLY <3>1, LookOn
  <2>10. CASE down = 0
    <3>1. fits
      BY <1>6, <1>7, <2>10
    <3>2. k + 1 \in Big(array, order, u.ints, k + 1)
      BY <1>6, <2>1, <2>6, <3>1 DEF Big
    <3>3. pc'[c] = "carve" /\ u.countDown = 0
      BY <2>3, <2>6, <2>10
    <3>4. k + 1 \in 0 .. Len(order)
      BY <2>1
    <3> QED
      BY <1>4, <2>7, <2>9, <3>2, <3>3, <3>4 DEF Chosen
  <2>11. CASE down # 0
    <3>1. pc'[c] = "search" /\ u.countDown > 0
      BY <1>6, <1>7, <2>3, <2>6, <2>11
    <3>2. u.p = IF k + 1 = Len(order) THEN 0 ELSE order[(k + 1) + 1]
      BY <1>5, <2>1, <2>6, <2>11
    <3>3. k + 1 \in 0 .. Len(order)
      BY <2>1
    <3> QED
      BY <1>4, <2>7, <2>9, <3>1, <3>2, <3>3 DEF Chosen
  <2> QED
    BY <2>10, <2>11
<1> QED
  BY <1>8, <1>9

\* The other steps of a core end no search in a choice.
LEMMA ChosenNot ==
    ASSUME Inv, NEW c \in Core,
           \/ HeapInit(c) \/ Carve(c) \/ MallocReturn(c) \/ StartFree(c) \/ Coalesce(c) \/ FreeReturn(c)
           \/ Malloc(c) \/ Free(c)
    PROVE  Chosen(c)'
<1>1. pc \in [Core -> Places]
  <2>1. Control
    BY Parts
  <2> QED
    BY ONLY <2>1, Whereabouts
<1>2. CASE HeapInit(c) \/ Carve(c) \/ MallocReturn(c)
  <2>1. pc'[c] \notin {"search", "carve"}
    BY <1>1, <1>2 DEF HeapInit, Carve, MallocReturn, GoTo
  <2> QED
    BY <2>1 DEF Chosen
<1>3. CASE StartFree(c)
  <2>1. PICK to \in {"coalesce", "panic"} : pc' = [pc EXCEPT ![c] = to]
    BY <1>3 DEF StartFree
  <2>2. pc'[c] = to
    BY ONLY <1>1, <2>1, c \in Core
  <2> QED
    BY <2>2 DEF Chosen
<1>4. CASE Coalesce(c) \/ FreeReturn(c)
  <2>1. pc'[c] \notin {"search", "carve"}
    BY <1>1, <1>4 DEF Coalesce, FreeReturn, GoTo
  <2> QED
    BY <2>1 DEF Chosen
<1>5. CASE Malloc(c) \/ Free(c)
  <2>1. pc'[c] \notin {"search", "carve"}
    BY <1>1, <1>5 DEF Malloc, Free, GoTo
  <2> QED
    BY <2>1 DEF Chosen
<1> QED
  BY <1>2, <1>3, <1>4, <1>5

\* What the cores write leaves the blocks and their sizes as they are.
LEMMA ChosenWrite ==
    ASSUME Inv, Write, NEW c \in Core, Chosen(c)
    PROVE  Chosen(c)'
<1>1. /\ pc' = pc /\ reg' = reg /\ order' = order /\ setup' = setup
  BY DEF Write
<1>2. \A b \in Available : b \in blocks
  BY DEF Available
<1>3. \A b \in blocks : Size(array', b) = Size(array, b)
  BY Written
<1> QED
  BY <1>1, <1>2, <1>3, ChosenStill

\* The choices of all searches, with the invariant of the heap.
Choosing == Inv /\ \A c \in Core : Chosen(c)

\* Every step keeps them.
LEMMA ChoosingStep == Choosing /\ [Next]_vars => Choosing'
<1>1. ASSUME Choosing, NEW c \in Core, Step(c) \/ Malloc(c) \/ Free(c)
      PROVE  \A d \in Core : Chosen(d)'
  <2> SUFFICES ASSUME NEW d \in Core PROVE Chosen(d)'
    OBVIOUS
  <2>1. Inv /\ Chosen(d)
    BY <1>1 DEF Choosing
  <2>2. CASE d # c
    BY <1>1, <2>1, <2>2, ChosenElse
  <2>3. CASE d = c
    BY <1>1, <2>1, <2>3, ChosenFirst, ChosenNext, ChosenNot DEF Step
  <2> QED
    BY <2>2, <2>3
<1>2. ASSUME Choosing, Write
      PROVE  \A d \in Core : Chosen(d)'
  BY <1>2, ChosenWrite DEF Choosing
<1>3. ASSUME Choosing, UNCHANGED vars
      PROVE  \A d \in Core : Chosen(d)'
  <2>1. /\ Inv /\ pc' = pc /\ reg' = reg /\ order' = order /\ setup' = setup /\ array' = array
    BY <1>3 DEF Choosing, vars, heap
  <2> QED
    BY <1>3, <2>1, ChosenStill DEF Choosing
<1>4. Choosing /\ [Next]_vars => Inv'
  BY NextInv DEF Choosing
<1>5. Choosing /\ [Next]_vars => \A d \in Core : Chosen(d)'
  BY <1>1, <1>2, <1>3 DEF Next
<1> QED
  BY <1>4, <1>5 DEF Choosing

\* At first nobody searches.
LEMMA InitChoosing == Init => Choosing
<1>1. Init => \A c \in Core : Chosen(c)
  BY DEF Init, Chosen
<1> QED
  BY <1>1, InitInv DEF Choosing

\* The search ends with a smallest block among the first that fit, as many as it may
\* look at, and with none only where none fits.
THEOREM Best == SafeSpec => []BestOfFirst
<1>1. Init => Choosing
  BY InitChoosing
<1>2. Choosing => BestOfFirst
  <2> SUFFICES ASSUME Choosing, NEW c \in Core, pc[c] = "carve"
               PROVE  LET seen == {k \in FittingUpTo(c, Len(order)) :
                                      Cardinality(FittingUpTo(c, k)) <= MaxFits}
                      IN  IF seen = {} THEN reg[c].it = 0
                          ELSE /\ \E k \in seen : reg[c].it = order[k]
                               /\ reg[c].mx = Size(array, reg[c].it)
                               /\ \A k \in seen : reg[c].mx <= Size(array, order[k])
    BY DEF BestOfFirst
  <2> DEFINE r == reg[c]
             S(k) == Big(array, order, r.ints, k)
             seen == {k \in FittingUpTo(c, Len(order)) : Cardinality(FittingUpTo(c, k)) <= MaxFits}
  <2>1. PICK k \in 0 .. Len(order) :
           /\ Looked(r, array, order, k, MaxFits, Huge)
           /\ IF r.countDown = 0 THEN k \in S(k) ELSE k = Len(order) /\ r.countDown > 0
    BY DEF Choosing, Chosen
  <2>2. Len(order) \in Nat /\ MaxFits \in Nat /\ r.countDown \in Int
    <3>1. Inv /\ setup \in Setups /\ reg[c] \in Registers
      BY Around DEF Choosing, Shape
    <3> QED
      BY <3>1, ListFacts, HeapAssumption DEF MaxFits, Registers
  <2>3. \A j : FittingUpTo(c, j) = S(j)
    BY DEF FittingUpTo, Fits, Big
  <2>4. r.countDown = MaxFits - Cardinality(S(k)) /\ Cardinality(S(k)) \in Nat /\ S(k) \subseteq 1 .. k
    BY <2>1, <2>2, BigMore DEF Looked
  <2>5. ASSUME NEW j \in S(k)
        PROVE  j \in seen
    <3>1. j \in Nat /\ j <= k /\ k \in Nat /\ k <= Len(order)
      BY <2>1, <2>2, <2>4
    <3>2. Cardinality(S(j)) <= Cardinality(S(k)) /\ S(k) \subseteq S(Len(order)) /\ Cardinality(S(j)) \in Nat
      BY <2>2, <3>1, BigWithin, BigMore
    <3>3. Cardinality(S(j)) <= MaxFits
      BY <2>1, <2>2, <2>4, <3>2
    <3> QED
      BY <2>3, <2>5, <3>2, <3>3
  <2>6. ASSUME NEW j \in seen
        PROVE  j \in S(k)
    <3>1. j \in S(Len(order)) /\ Cardinality(S(j)) <= MaxFits
      BY <2>3
    <3>2. j \in 1 .. Len(order) /\ Size(array, order[j]) >= r.ints
      BY <3>1 DEF Big
    <3>3. CASE j <= k
      BY <2>1, <3>2, <3>3 DEF Big
    <3>4. CASE j > k
      <4>1. r.countDown = 0 /\ Cardinality(S(k)) = MaxFits
        BY <2>1, <2>2, <2>4, <3>2, <3>4
      <4>2. PICK i \in Nat : i + 1 = j /\ k <= i
        BY <2>1, <2>2, <3>2, <3>4
      <4>3. /\ Cardinality(S(i + 1)) = Cardinality(S(i)) + 1 /\ Cardinality(S(k)) <= Cardinality(S(i))
            /\ Cardinality(S(i)) \in Nat
        <5>1. i \in Nat /\ k \in Nat /\ k <= i /\ Size(array, order[i + 1]) >= r.ints
          BY <2>1, <2>2, <3>2, <4>2
        <5>2. Cardinality(S(i + 1)) = Cardinality(S(i)) + 1 /\ Cardinality(S(i)) \in Nat
          <6>1. PICK n : n = r.ints
            OBVIOUS
          <6>2. i \in Nat /\ Size(array, order[i + 1]) >= n
            BY ONLY <5>1, <6>1
          <6>3. /\ Cardinality(Big(array, order, n, i + 1)) = Cardinality(Big(array, order, n, i)) + 1
                /\ Cardinality(Big(array, order, n, i)) \in Nat
            BY ONLY <6>2, BigMore
          <6> QED
            BY ONLY <6>1, <6>3
        <5>3. Cardinality(S(k)) <= Cardinality(S(i))
          BY ONLY <5>1, BigWithin
        <5> QED
          BY <5>2, <5>3
      <4> QED
        BY <2>2, <3>1, <4>1, <4>2, <4>3
    <3> QED
      BY <2>1, <2>2, <3>2, <3>3, <3>4
  <2>7. seen = S(k)
    BY <2>5, <2>6
  <2> HIDE DEF S, seen
  <2>8. /\ S(k) = {} => r.it = 0
        /\ S(k) # {} => /\ \E j \in S(k) : r.it = order[j]
                        /\ \A j \in S(k) : r.mx <= Size(array, order[j])
                        /\ r.mx = Size(array, r.it)
    BY <2>1 DEF Looked, S
  <2>9. IF seen = {} THEN reg[c].it = 0
        ELSE /\ \E j \in seen : reg[c].it = order[j]
             /\ reg[c].mx = Size(array, reg[c].it)
             /\ \A j \in seen : reg[c].mx <= Size(array, order[j])
    BY <2>7, <2>8
  <2> QED
    BY <2>9 DEF seen
<1> QED
  BY <1>1, <1>2, ChoosingStep, PTL DEF SafeSpec

(***************************************************************************)
(* What malloc and free promise.                                           *)
(***************************************************************************)

\* Every word is in a block: otherwise each block up to it would have a right neighbour
\* up to it, all of them different and none of them the first.
LEMMA Covered ==
    ASSUME NEW n \in Nat, NEW m \in Mem(n), NEW B \in SUBSET (0 .. n - 1), Tiles(m, B, n), 0 \in B,
           NEW w \in 0 .. n - 1
    PROVE  \E b \in B : b <= w /\ w < b + Size(m, b)
<1> SUFFICES ASSUME \A b \in B : b <= w => b + Size(m, b) <= w
             PROVE  FALSE
  <2>1. \A b \in B : b \in Nat /\ Size(m, b) \in Nat
    BY Sizes
  <2> QED
    BY <2>1
<1>1. \A b \in B : /\ b \in Nat /\ Size(m, b) \in Nat /\ Size(m, b) >= 2
                   /\ Right(m, b) = b + Size(m, b)
                   /\ \A d \in B : d # b => b + Size(m, b) <= d \/ d + Size(m, d) <= b
  BY Spans
<1>2. \A b \in B : b + Size(m, b) \in B \cup {n}
  BY <1>1 DEF Tiles
<1> DEFINE S == {b \in B : b <= w}
           T == S \ {0}
           f == [b \in S |-> b + Size(m, b)]
<1>3. 0 \in S /\ IsFiniteSet(S)
  <2>1. IsFiniteSet(0 .. n - 1)
    BY FS_Interval
  <2>2. S \subseteq 0 .. n - 1
    OBVIOUS
  <2>3. 0 \in S
    OBVIOUS
  <2> QED
    BY <2>1, <2>2, <2>3, FS_Subset
<1>4. IsFiniteSet(T) /\ Cardinality(T) < Cardinality(S)
  <2>1. IsFiniteSet(T) /\ Cardinality(T) = Cardinality(S) - 1 /\ Cardinality(S) \in Nat
    BY <1>3, FS_RemoveElement, FS_CardinalityType
  <2> QED
    BY <2>1
<1>5. f \in [S -> T]
  <2> SUFFICES ASSUME NEW b \in S PROVE b + Size(m, b) \in T
    OBVIOUS
  <2>1. b \in Nat /\ Size(m, b) \in Nat /\ Size(m, b) >= 2 /\ b + Size(m, b) \in B \cup {n}
    BY <1>1, <1>2
  <2>2. b + Size(m, b) <= w /\ w \in 0 .. n - 1 /\ n \in Nat
    OBVIOUS
  <2>3. b + Size(m, b) # n /\ b + Size(m, b) # 0
    BY ONLY <2>1, <2>2
  <2> QED
    BY <2>1, <2>2, <2>3
<1>6. \A x, y \in S : f[x] = f[y] => x = y
  <2> SUFFICES ASSUME NEW x \in S, NEW y \in S, f[x] = f[y], x # y PROVE FALSE
    OBVIOUS
  <2>1. /\ x \in Nat /\ y \in Nat /\ Size(m, x) \in Nat /\ Size(m, y) \in Nat
        /\ Size(m, x) >= 2 /\ Size(m, y) >= 2
        /\ x + Size(m, x) <= y \/ y + Size(m, y) <= x
    BY <1>1
  <2>2. x + Size(m, x) = y + Size(m, y)
    OBVIOUS
  <2> QED
    BY ONLY <2>1, <2>2
<1> HIDE DEF S, T, f
<1> QED
  BY <1>3, <1>4, <1>5, <1>6, FS_PigeonHole

\* A search that has found nothing has seen that nothing fits.
LEMMA NoneFits ==
    ASSUME Choosing, NEW c \in Core, pc[c] = "carve", reg[c].it = 0
    PROVE  \A b \in Available : ~(Size(array, b) >= reg[c].ints)
<1> DEFINE r == reg[c]
           S(k) == Big(array, order, r.ints, k)
<1>1. PICK k \in 0 .. Len(order) :
         /\ Looked(r, array, order, k, MaxFits, Huge)
         /\ IF r.countDown = 0 THEN k \in S(k) ELSE k = Len(order) /\ r.countDown > 0
  BY DEF Choosing, Chosen
<1>2. /\ Len(order) \in Nat /\ DOMAIN order = 1 .. Len(order) /\ Elements(order) = Available
      /\ \A j \in 1 .. Len(order) : order[j] # 0
  BY ListFacts DEF Choosing
<1>3. S(k) = {}
  <2>1. S(k) \subseteq 1 .. Len(order)
    BY <1>2 DEF Big
  <2> QED
    BY <1>1, <1>2, <2>1 DEF Looked
<1>4. k = Len(order)
  BY <1>1, <1>3
<1>5. \A j \in 1 .. Len(order) : ~(Size(array, order[j]) >= r.ints)
  BY <1>3, <1>4 DEF Big
<1> QED
  BY <1>2, <1>5 DEF Elements

\* How long the blocks given out are stays the same, but for those of X.
SizesStay(X) == \A b \in Given \ X : Size(array', b) = Size(array, b)

\* Blocks that are preserved word for word keep their sizes.
LEMMA PreservedSizes ==
    ASSUME NEW n \in Nat, NEW h, Heaped(h, n), NEW g, NEW X, X \subseteq h.blocks, Preserved(g, h, X)
    PROVE  \A b \in X : Size(g.array, b) = Size(h.array, b)
<1> SUFFICES ASSUME NEW b \in X PROVE Size(g.array, b) = Size(h.array, b)
  OBVIOUS
<1>1. b \in Nat /\ Size(h.array, b) \in Nat /\ Size(h.array, b) >= 2
  BY Spans, Room
<1>2. b \in b .. b + Size(h.array, b) - 1
  BY ONLY <1>1
<1>3. g.array[b] = h.array[b]
  BY <1>2 DEF Preserved
<1> QED
  BY <1>3 DEF Size

\* The block that is given out is one from the list, whose size it does not exceed, and
\* has at most three words more than were asked for.
LEMMA Carved ==
    ASSUME Inv, NEW c \in Core, Carve(c), reg[c].it # 0
    PROVE  LET it == reg[c].it
               s == Size(array', it)
           IN  /\ it \in Available /\ Given' = Given \cup {it} /\ len' = len /\ SizesStay({})
               /\ s \in Nat /\ s <= Size(array, it) /\ s - reg[c].ints \in 0 .. 3
<1> DEFINE it == reg[c].it
           ints == reg[c].ints
           mx == reg[c].mx
<1>1. pc[c] = "carve"
  BY DEF Carve, GoTo
<1>2. /\ Shape /\ blocks # {} /\ reg[c] \in Registers /\ Knows(c) /\ len \in Nat /\ len >= 12
      /\ setup \in Setups
  BY <1>1, Around DEF Shape
<1>3. /\ ints = Ints(reg[c].bytes) /\ it \in Available /\ mx = Size(array, it) /\ ints <= mx
  BY <1>1, <1>2 DEF Knows
<1>4. ints \in Nat
  BY <1>2, <1>3, Fit DEF Registers
<1>5. /\ Heaped(Now, len) /\ InUse(Now) = Given \cup Ends /\ 0 \notin Given /\ len - 2 \notin Given
      /\ Elements(order) = Available
  BY <1>2, Orderly
<1>6. mx \in Nat
  <2>1. it \in Elements(Now.order) /\ mx = Size(Now.array, it)
    BY <1>3, <1>5, Fields
  <2> QED
    BY ONLY <1>2, <1>5, <2>1, Room
<1>7. PICK h : /\ Becomes(h) /\ GivenOut(h, Now, it, len)
               /\ Size(h.array, it) = IF mx - ints >= 4 THEN ints ELSE mx
  BY Carving
<1>8. /\ Heaped(h, len) /\ InUse(h) = InUse(Now) \cup {it} /\ Preserved(h, Now, InUse(Now))
  BY <1>7 DEF GivenOut
<1>9. /\ InUse(h) = Given' \cup Ends /\ 0 \notin Given' /\ len - 2 \notin Given' /\ array' = h.array
      /\ len' = len
  BY <1>2, <1>7, <1>8, Becoming
<1>10. it \notin Ends
  BY <1>2, <1>3, InTheList DEF Ends
<1>11. Given' = Given \cup {it}
  BY <1>5, <1>8, <1>9, <1>10 DEF Ends
<1>12. SizesStay({})
  <2>1. InUse(Now) \subseteq Now.blocks
    BY DEF InUse
  <2>0. len \in Nat /\ Heaped(Now, len) /\ Preserved(h, Now, InUse(Now))
    BY <1>2, <1>5, <1>8
  <2>2. \A b \in InUse(Now) : Size(h.array, b) = Size(Now.array, b)
    BY ONLY <2>0, <2>1, PreservedSizes
  <2> QED
    BY <1>5, <1>9, <2>2, Fields DEF SizesStay
<1>13. Size(array', it) = IF mx - ints >= 4 THEN ints ELSE mx
  BY <1>7, <1>9
<1>14. PICK s : s = Size(array', it)
  OBVIOUS
<1>15. s \in Nat /\ s <= mx /\ s - ints \in 0 .. 3
  BY ONLY <1>3, <1>4, <1>6, <1>13, <1>14
<1> QED
  BY <1>3, <1>9, <1>11, <1>12, <1>14, <1>15

\* What a block that comes back leaves.
LEMMA Coalescing ==
    ASSUME Inv, NEW c \in Core, Coalesce(c)
    PROVE  /\ reg[c].p \in Given /\ Given' = Given \ {reg[c].p} /\ len' = len
           /\ SizesStay({reg[c].p})
<1> DEFINE i == reg[c].p
<1>1. pc[c] = "coalesce"
  BY DEF Coalesce, GoTo
<1>2. Shape /\ blocks # {} /\ len \in Nat /\ setup \in Setups
  BY <1>1, Around DEF Shape
<1>3. Heaped(Now, len) /\ InUse(Now) = Given \cup Ends /\ 0 \notin Given /\ len - 2 \notin Given
  BY <1>2, Orderly
<1>4. PICK h : i \in Given /\ Becomes(h) /\ GivenBack(h, Now, i, len)
  BY Returning
<1>5. Heaped(h, len) /\ InUse(h) = InUse(Now) \ {i} /\ Preserved(h, Now, InUse(Now) \ {i})
  BY <1>4 DEF GivenBack
<1>6. /\ InUse(h) = Given' \cup Ends /\ 0 \notin Given' /\ len - 2 \notin Given' /\ array' = h.array
      /\ len' = len
  BY <1>2, <1>4, <1>5, Becoming
<1>7. Given' = Given \ {i}
  BY <1>3, <1>4, <1>5, <1>6 DEF Ends
<1>8. SizesStay({i})
  <2>1. InUse(Now) \ {i} \subseteq Now.blocks
    BY DEF InUse
  <2>0. len \in Nat /\ Heaped(Now, len) /\ Preserved(h, Now, InUse(Now) \ {i})
    BY <1>2, <1>3, <1>5
  <2>2. \A b \in InUse(Now) \ {i} : Size(h.array, b) = Size(Now.array, b)
    BY ONLY <2>0, <2>1, PreservedSizes
  <2> QED
    BY <1>3, <1>6, <2>2, Fields DEF SizesStay
<1> QED
  BY <1>4, <1>6, <1>7, <1>8

\* The state of the abstract allocator: the call of each core, and the extents given out.
Call(c) ==
    IF pc[c] \in {"malloc", "search", "carve"} THEN [op |-> "malloc", words |-> reg[c].ints]
    ELSE IF pc[c] \in {"free", "coalesce"} THEN [op |-> "free", extent |-> Extent(reg[c].p)]
    ELSE [op |-> "none"]

Calls == [c \in Core |-> Call(c)]

Live == {Extent(b) : b \in Given}

\* The variables of the allocator are these.
LEMMA Abstractly ==
    /\ UNCHANGED <<2 .. len - 3, Live, Calls>> => UNCHANGED A!vars
    /\ \A c \in Core : Calls[c] = Call(c)
BY DEF A!vars, Live, Calls, Call

\* A step of one core is one of its call.
LEMMA Calling ==
    ASSUME Inv, NEW c \in Core, NEW to \in Places, Moves(c, to), \A d \in Core : d # c => reg'[d] = reg[d],
           SizesStay(InFlight(c))
    PROVE  Calls' = [Calls EXCEPT ![c] = Call(c)']
<1>1. Control
  BY Parts
<1>2. ASSUME NEW d \in Core, d # c
      PROVE  Call(d)' = Call(d)
  <2>1. pc'[d] = pc[d] /\ reg'[d] = reg[d]
    BY <1>1, <1>2, Moved
  <2>2. CASE pc[d] \notin {"free", "coalesce"}
    BY <2>1, <2>2 DEF Call
  <2>3. CASE pc[d] \in {"free", "coalesce"}
    <3>1. blocks # {}
      BY <2>3, Around
    <3>2. Exactly(Given, owned, Flights, theLock)
      BY <3>1, Counted
    <3>3. Flights[d] = {reg[d].p} /\ Flights[c] = InFlight(c)
      BY <2>3 DEF Flights, InFlight
    <3>4. reg[d].p \in Given \ InFlight(c)
      BY <1>2, <3>2, <3>3 DEF Exactly
    <3>5. Size(array', reg[d].p) = Size(array, reg[d].p)
      BY <3>4 DEF SizesStay
    <3>6. Extent(reg[d].p)' = Extent(reg[d].p)
      BY <2>1, <3>5 DEF Extent
    <3> QED
      BY <2>1, <2>3, <3>6 DEF Call
  <2> QED
    BY <2>2, <2>3
<1>3. \A d \in Core : Call(d)' = IF d = c THEN Call(c)' ELSE Call(d)
  BY <1>2
<1> QED
  BY <1>3 DEF Calls

\* The extents that were given out stay as they are where their sizes do.
LEMMA Lives ==
    ASSUME NEW X, SizesStay(X)
    PROVE  \A b \in Given \ X : Extent(b)' = Extent(b)
BY DEF SizesStay, Extent

\* A step that leaves the heap and the call of the core alone is none of the allocator.
LEMMA Unseen ==
    ASSUME Inv, NEW c \in Core, NEW to \in Places, Moves(c, to), \A d \in Core : d # c => reg'[d] = reg[d],
           UNCHANGED heap, Call(c)' = Call(c)
    PROVE  UNCHANGED A!vars
<1>1. Given' = Given /\ array' = array /\ len' = len
  BY Parts, Still
<1>2. SizesStay(InFlight(c)) /\ SizesStay({})
  BY <1>1 DEF SizesStay
<1>3. Calls' = Calls
  <2>1. Calls' = [Calls EXCEPT ![c] = Call(c)']
    BY <1>2, Calling
  <2> QED
    BY <2>1, Abstractly DEF Calls
<1>4. Live' = Live
  BY <1>1 DEF Live, Extent
<1> QED
  BY <1>1, <1>3, <1>4, Abstractly

\* The steps of a core that the allocator does not see.
LEMMA Unnoticed ==
    ASSUME Inv, NEW c \in Core, Inv',
           StartSearch(c) \/ Search(c) \/ MallocReturn(c) \/ StartFree(c) \/ FreeReturn(c)
    PROVE  UNCHANGED A!vars
<1>1. /\ Shape /\ Control /\ reg \in [Core -> Registers] /\ reg[c] \in Registers /\ len \in Nat
      /\ pc \in [Core -> Places]
  BY Around, Whereabouts DEF Places
<1>2. CASE StartSearch(c)
  <2>1. Moves(c, "search") /\ UNCHANGED heap /\ pc[c] = "malloc"
    BY <1>2 DEF StartSearch, GoTo, Moves
  <2>2. reg' = Begins(reg, c, avail, Huge, MaxFits)
    BY <1>2 DEF StartSearch, Begins
  <2>3. "search" \in Places
    BY DEF Places, Locked
  <2>4. reg'[c].ints = reg[c].ints /\ \A d \in Core : d # c => reg'[d] = reg[d]
    <3>1. avail \in 0 .. len - 1 /\ Huge \in Int /\ MaxFits \in Int
      BY <1>1, HeapAssumption DEF Shape, Huge, MaxFits
    <3>2. Turned(reg', reg, c)
      BY <1>1, <2>2, <3>1, Beginning
    <3> QED
      BY <3>2 DEF Turned
  <2>5. Call(c)' = Call(c)
    BY <1>1, <2>1, <2>3, <2>4, Moved DEF Call
  <2> QED
    BY <2>1, <2>3, <2>4, <2>5, Unseen
<1>3. CASE Search(c)
  <2>1. PICK to \in {"carve", "search"} : Moves(c, to) /\ Keeps(c) /\ reg'[c].ints = reg[c].ints
    BY <1>3, Searching
  <2>2. UNCHANGED heap /\ pc[c] = "search"
    BY <1>3 DEF Search
  <2>3. to \in Places /\ pc'[c] = to
    BY <1>1, <2>1, Moved DEF Places, Locked
  <2>4. Call(c)' = Call(c)
    BY <2>1, <2>2, <2>3 DEF Call
  <2> QED
    BY <2>1, <2>2, <2>3, <2>4, Unseen DEF Keeps
<1>4. CASE MallocReturn(c)
  <2>1. /\ Moves(c, "idle") /\ UNCHANGED heap /\ pc[c] = "malloc return"
        /\ reg' = [reg EXCEPT ![c] = Idle]
    BY <1>4 DEF MallocReturn, GoTo, Moves
  <2>2. "idle" \in Places
    BY DEF Places
  <2>3. Call(c)' = Call(c)
    BY <1>1, <2>1, <2>2, Moved DEF Call
  <2> QED
    BY <1>1, <2>1, <2>2, <2>3, Unseen
<1>5. CASE StartFree(c)
  <2>1. /\ UNCHANGED heap /\ pc[c] = "free" /\ reg' = reg
        /\ Moves(c, IF IsTaken(array, reg[c].p) THEN "coalesce" ELSE "panic")
    BY <1>5 DEF StartFree, Moves
  <2>2. IsTaken(array, reg[c].p)
    <3>1. pc'[c] # "panic"
      BY DEF Inv, NoPanic
    <3> QED
      BY <1>1, <2>1, <3>1 DEF Moves
  <2>3. Moves(c, "coalesce") /\ "coalesce" \in Places
    BY <2>1, <2>2 DEF Places, Locked
  <2>4. array' = array /\ Extent(reg[c].p)' = Extent(reg[c].p)
    BY <2>1 DEF heap, Extent
  <2>5. Call(c)' = Call(c)
    BY <1>1, <2>1, <2>3, <2>4, Moved DEF Call
  <2> QED
    BY <2>1, <2>3, <2>5, Unseen
<1>6. CASE FreeReturn(c)
  <2>1. /\ Moves(c, "idle") /\ UNCHANGED heap /\ pc[c] = "free return"
        /\ reg' = [reg EXCEPT ![c] = Idle]
    BY <1>6 DEF FreeReturn, GoTo, Moves
  <2>2. "idle" \in Places
    BY DEF Places
  <2>3. Call(c)' = Call(c)
    BY <1>1, <2>1, <2>2, Moved DEF Call
  <2> QED
    BY <1>1, <2>1, <2>2, <2>3, Unseen
<1> QED
  BY <1>2, <1>3, <1>4, <1>5, <1>6

\* Each step of the allocator in terms of these.
LEMMA Asking ==
    ASSUME NEW c \in Core, Call(c) = [op |-> "none"], Live' = Live, len' = len
    PROVE  /\ \A n \in {Ints(bytes) : bytes \in Bytes \cup {1}} :
                 Calls' = [Calls EXCEPT ![c] = [op |-> "malloc", words |-> n]] => A!AskMalloc(c)
           /\ \A e \in Live :
                 Calls' = [Calls EXCEPT ![c] = [op |-> "free", extent |-> e]] => A!AskFree(c)
<1>1. Calls[c] = [op |-> "none"]
  BY DEF Calls
<1>2. (2 .. len - 3)' = 2 .. len - 3
  OBVIOUS
<1>3. ASSUME NEW n \in {Ints(bytes) : bytes \in Bytes \cup {1}},
             Calls' = [Calls EXCEPT ![c] = [op |-> "malloc", words |-> n]]
      PROVE  A!AskMalloc(c)
  BY <1>1, <1>2, <1>3 DEF A!AskMalloc, A!None, A!Malloc, Calls, Call, Live
<1>4. ASSUME NEW e \in Live, Calls' = [Calls EXCEPT ![c] = [op |-> "free", extent |-> e]]
      PROVE  A!AskFree(c)
  BY <1>1, <1>2, <1>4 DEF A!AskFree, A!None, A!Free, Calls, Call, Live
<1> QED
  BY <1>3, <1>4

\* The answers of the allocator: a block is released, a request refused or granted.
LEMMA Answering ==
    ASSUME NEW c \in Core, len' = len, Calls' = [Calls EXCEPT ![c] = [op |-> "none"]]
    PROVE  /\ Call(c).op = "free" /\ Live' = Live \ {Call(c).extent} => A!Release(c)
           /\ /\ Call(c).op = "malloc" /\ Live' = Live
              /\ \A at \in 2 .. len - 3 : ~A!Vacant(at, Call(c).words)
              => A!Refuse(c)
           /\ \A at \in 2 .. len - 3, extra \in 0 .. 3 :
                 /\ Call(c).op = "malloc" /\ A!Vacant(at, Call(c).words + extra)
                 /\ Live' = Live \cup {[at |-> at, size |-> Call(c).words + extra]}
                 => A!Grant(c)
<1>1. Calls[c] = Call(c)
  BY DEF Calls
<1>2. (2 .. len - 3)' = 2 .. len - 3
  OBVIOUS
<1>3. ASSUME Call(c).op = "free", Live' = Live \ {Call(c).extent}
      PROVE  A!Release(c)
  BY <1>1, <1>2, <1>3 DEF A!Release, A!None, Calls, Call, Live
<1>4. ASSUME Call(c).op = "malloc", Live' = Live, \A at \in 2 .. len - 3 : ~A!Vacant(at, Call(c).words)
      PROVE  A!Refuse(c)
  BY <1>1, <1>2, <1>4 DEF A!Refuse, A!None, Calls, Call, Live
<1>5. ASSUME NEW at \in 2 .. len - 3, NEW extra \in 0 .. 3,
             Call(c).op = "malloc", A!Vacant(at, Call(c).words + extra),
             Live' = Live \cup {[at |-> at, size |-> Call(c).words + extra]}
      PROVE  A!Grant(c)
  BY <1>1, <1>2, <1>5 DEF A!Grant, A!None, Calls, Call, Live
<1> QED
  BY <1>3, <1>4, <1>5

\* malloc() is called by a core, or by heapInit() for the lock.
LEMMA Called ==
    ASSUME Inv, NEW c \in Core, HeapInit(c) \/ Malloc(c)
    PROVE  A!AskMalloc(c)
<1>1. /\ Shape /\ Control /\ reg \in [Core -> Registers] /\ setup \in Setups /\ pc \in [Core -> Places]
      /\ "malloc" \in Places
  BY Around, Whereabouts DEF Places, Shape
<1>2. PICK bytes \in Bytes \cup {1} :
         reg' = [reg EXCEPT ![c] = [Idle EXCEPT !.ints = Ints(bytes), !.bytes = bytes]]
  BY <1>1, HeapAssumption DEF HeapInit, Malloc
<1>3. Moves(c, "malloc") /\ pc[c] \in {"heapInit", "idle"} /\ pc'[c] = "malloc"
  BY <1>1 DEF HeapInit, Malloc, GoTo, Moves
<1>4. reg'[c].ints = Ints(bytes) /\ \A d \in Core : d # c => reg'[d] = reg[d]
  BY <1>1, <1>2 DEF Idle
<1>5. len' = len /\ Live' = Live /\ SizesStay(InFlight(c))
  <2>1. CASE HeapInit(c)
    <3>1. blocks = {} /\ Given' = {} /\ len' = len
      BY <2>1, SettingUp, Around DEF HeapInit, GoTo
    <3>2. Given = {}
      BY <3>1 DEF Given
    <3> QED
      BY <3>1, <3>2 DEF Live, SizesStay
  <2>2. CASE Malloc(c)
    <3>1. Given' = Given /\ array' = array /\ len' = len
      BY <1>1, <2>2, Still DEF Malloc
    <3> QED
      BY <3>1 DEF Live, SizesStay, Extent
  <2> QED
    BY <2>1, <2>2
<1>6. Calls' = [Calls EXCEPT ![c] = Call(c)']
  BY <1>1, <1>3, <1>4, <1>5, Calling
<1>7. Call(c) = [op |-> "none"] /\ Call(c)' = [op |-> "malloc", words |-> Ints(bytes)]
  BY <1>3, <1>4 DEF Call
<1> QED
  BY <1>5, <1>6, <1>7, Asking

\* free() is called with a block in use.
LEMMA GivingBack ==
    ASSUME Inv, NEW c \in Core, Free(c)
    PROVE  A!AskFree(c)
<1>1. PICK b \in owned : owned' = owned \ {b} /\ reg' = [reg EXCEPT ![c].p = b.at]
  BY DEF Free
<1>2. /\ Shape /\ Control /\ reg \in [Core -> Registers] /\ pc \in [Core -> Places] /\ "free" \in Places
      /\ GivenExact
  BY Around, Whereabouts DEF Places
<1>3. Moves(c, "free") /\ pc[c] = "idle" /\ UNCHANGED heap /\ pc'[c] = "free"
  BY <1>2 DEF Free, GoTo, Moves
<1>4. reg'[c].p = b.at /\ \A d \in Core : d # c => reg'[d] = reg[d]
  BY <1>1, <1>2 DEF Registers
<1>5. Given' = Given /\ array' = array /\ len' = len
  BY <1>2, <1>3, Still
<1>6. Live' = Live /\ SizesStay(InFlight(c))
  BY <1>5 DEF Live, SizesStay, Extent
<1>7. Calls' = [Calls EXCEPT ![c] = Call(c)']
  BY <1>2, <1>3, <1>4, <1>6, Calling
<1>8. b.at \in Given /\ Extent(b.at) \in Live
  BY <1>2 DEF GivenExact, Live
<1>9. Call(c) = [op |-> "none"] /\ Call(c)' = [op |-> "free", extent |-> Extent(b.at)]
  BY <1>3, <1>4, <1>5 DEF Call, Extent
<1> QED
  BY <1>5, <1>6, <1>7, <1>8, <1>9, Asking

\* The block that comes back is the one that the call gave.
LEMMA Released ==
    ASSUME Inv, NEW c \in Core, Coalesce(c)
    PROVE  A!Release(c)
<1> DEFINE i == reg[c].p
<1>1. /\ Control /\ reg \in [Core -> Registers] /\ pc \in [Core -> Places] /\ "free return" \in Places
  BY Around, Whereabouts DEF Places, Locked
<1>2. Moves(c, "free return") /\ pc[c] = "coalesce" /\ reg' = reg /\ pc'[c] = "free return"
  BY <1>1 DEF Coalesce, GoTo, Moves
<1>3. i \in Given /\ Given' = Given \ {i} /\ len' = len /\ SizesStay({i})
  BY Coalescing
<1>4. InFlight(c) = {i}
  BY <1>2 DEF InFlight
<1>5. Calls' = [Calls EXCEPT ![c] = Call(c)']
  BY <1>1, <1>2, <1>3, <1>4, Calling
<1>6. Call(c) = [op |-> "free", extent |-> Extent(i)] /\ Call(c)' = [op |-> "none"]
  BY <1>2 DEF Call
<1>7. Live' = Live \ {Extent(i)}
  <2>1. \A b \in Given \ {i} : Extent(b)' = Extent(b) /\ Extent(b) # Extent(i)
    BY <1>3, Lives DEF Extent
  <2>2. Live' = {Extent(b)' : b \in Given \ {i}}
    BY <1>3 DEF Live
  <2>3. Live' = {Extent(b) : b \in Given \ {i}}
    BY <2>1, <2>2
  <2> QED
    BY <1>3, <2>1, <2>3 DEF Live
<1>8. Call(c).op = "free" /\ Live' = Live \ {Call(c).extent}
  BY <1>6, <1>7
<1>9. len' = len /\ Calls' = [Calls EXCEPT ![c] = [op |-> "none"]]
  BY <1>3, <1>5, <1>6
<1> QED
  BY ONLY <1>8, <1>9, c \in Core, Answering

\* Where the words of a block given out are.
LEMMA GivenSpan ==
    ASSUME Shape, blocks # {}
    PROVE  /\ len \in Nat /\ len >= 12 /\ 0 \in blocks /\ len - 2 \in blocks
           /\ Size(array, 0) = 2
           /\ \A b \in blocks :
                 /\ b \in Nat /\ Size(array, b) \in Nat /\ Size(array, b) >= 2
                 /\ b + Size(array, b) <= len /\ Right(array, b) = b + Size(array, b)
                 /\ b + Size(array, b) \in blocks \cup {len}
                 /\ \A d \in blocks : d # b =>
                       b + Size(array, b) <= d \/ d + Size(array, d) <= b
           /\ \A w \in 0 .. len - 1 : \E b \in blocks : b <= w /\ w < b + Size(array, b)
<1>1. len \in Nat /\ len >= 12
  BY Length DEF Shape
<1>2. /\ array \in Mem(len) /\ blocks \in SUBSET (0 .. len - 1) /\ Tiles(array, blocks, len)
      /\ Ends \subseteq blocks /\ array[0] = -2
  BY DEF Shape, Mem
<1>3. 0 \in blocks /\ len - 2 \in blocks
  BY <1>2 DEF Ends
<1>4. Size(array, 0) = 2
  <2>1. array[0] = -2
    BY <1>2
  <2> QED
    BY ONLY <2>1, Negative
<1>5. \A b \in blocks :
         /\ b \in Nat /\ Size(array, b) \in Nat /\ Size(array, b) >= 2
         /\ b + Size(array, b) <= len /\ Right(array, b) = b + Size(array, b)
         /\ \A d \in blocks : d # b => b + Size(array, b) <= d \/ d + Size(array, d) <= b
  BY ONLY <1>1, <1>2, Spans
<1>6. \A b \in blocks : b + Size(array, b) \in blocks \cup {len}
  BY <1>2, <1>5 DEF Tiles
<1>7. \A w \in 0 .. len - 1 : \E b \in blocks : b <= w /\ w < b + Size(array, b)
  BY ONLY <1>1, <1>2, <1>3, Covered
<1> QED
  BY <1>1, <1>3, <1>4, <1>5, <1>6, <1>7

\* An extent that no block given out overlaps.
LEMMA Vacancy ==
    ASSUME NEW at, NEW n
    PROVE  A!Vacant(at, n) <=>
              /\ at .. at + n - 1 \subseteq 2 .. len - 3
              /\ \A b \in Given : (b .. b + Size(array, b) - 1) \cap (at .. at + n - 1) = {}
<1>1. \A b : /\ A!Overlap(Extent(b), at, n) <=>
                  (b .. b + Size(array, b) - 1) \cap (at .. at + n - 1) # {}
  BY DEF A!Overlap, A!Span, Extent
<1>2. (\A e \in {Extent(b) : b \in Given} : ~A!Overlap(e, at, n)) <=>
          \A b \in Given : ~A!Overlap(Extent(b), at, n)
  OBVIOUS
<1> QED
  BY <1>1, <1>2 DEF A!Vacant, A!Span

\* The block that is given out was all unused.
LEMMA Granted ==
    ASSUME Inv, NEW c \in Core, Carve(c), reg[c].it # 0
    PROVE  A!Grant(c)
<1>0. PICK it, s, n : it = reg[c].it /\ s = Size(array', it) /\ n = reg[c].ints
  OBVIOUS
<1>1. /\ Shape /\ Control /\ pc \in [Core -> Places] /\ "malloc return" \in Places
  BY Around, Whereabouts DEF Places, Locked
<1>2. /\ Moves(c, "malloc return") /\ pc[c] = "carve" /\ reg' = reg /\ pc'[c] = "malloc return"
      /\ blocks # {}
  <2>1. Moves(c, "malloc return") /\ pc[c] = "carve" /\ reg' = reg /\ pc'[c] = "malloc return"
    BY <1>1 DEF Carve, GoTo, Moves
  <2> QED
    BY <2>1, Around
<1>3. /\ it \in Available /\ Given' = Given \cup {it} /\ len' = len /\ SizesStay({})
      /\ s \in Nat /\ s <= Size(array, it) /\ s - n \in 0 .. 3
  BY <1>0, Carved
<1>4. n \in Int
  <2>1. reg[c] \in Registers
    BY Around
  <2> QED
    BY <1>0, <2>1 DEF Registers
<1>5. InFlight(c) = {}
  BY <1>2 DEF InFlight
<1>6. Calls' = [Calls EXCEPT ![c] = Call(c)']
  BY <1>1, <1>2, <1>3, <1>5, Calling
<1>7. Call(c).op = "malloc" /\ Call(c).words = n /\ Call(c)' = [op |-> "none"]
  BY <1>0, <1>2 DEF Call
<1>8. PICK extra \in 0 .. 3 : s = n + extra
  BY <1>3, <1>4
<1>9. Live' = Live \cup {[at |-> it, size |-> n + extra]}
  <2>1. \A b \in Given : Extent(b)' = Extent(b)
    BY <1>3, Lives
  <2>2. Extent(it)' = [at |-> it, size |-> s]
    BY <1>0, <1>2 DEF Extent
  <2>3. Live' = {Extent(b)' : b \in Given} \cup {Extent(it)'}
    BY <1>3 DEF Live
  <2> QED
    BY <1>8, <2>1, <2>2, <2>3 DEF Live
<1>10. it \in 2 .. len - 3 /\ A!Vacant(it, n + extra)
  <2>1. /\ len \in Nat /\ 0 \in blocks /\ len - 2 \in blocks /\ Size(array, 0) = 2
        /\ \A b \in blocks :
              /\ b \in Nat /\ Size(array, b) \in Nat /\ Size(array, b) >= 2
              /\ b + Size(array, b) <= len
              /\ \A d \in blocks : d # b =>
                    b + Size(array, b) <= d \/ d + Size(array, d) <= b
    BY <1>1, <1>2, GivenSpan
  <2>2. it \in blocks /\ it # 0 /\ it # len - 2
    <3>1. Shape /\ blocks # {} /\ it \in Available
      BY <1>1, <1>2, <1>3
    <3>2. it \in blocks /\ it \in 1 .. len - 4
      BY ONLY <3>1, InTheList
    <3> QED
      BY ONLY <2>1, <3>2
  <2>3. 2 <= it /\ it + Size(array, it) <= len - 2
    BY ONLY <2>1, <2>2
  <2>4. /\ it \in Nat /\ Size(array, it) \in Nat
        /\ \A b \in Given : /\ b \in Nat /\ Size(array, b) \in Nat
                            /\ it + Size(array, it) <= b \/ b + Size(array, b) <= it
    <3>1. \A b \in Given : b \in blocks /\ b # it
      BY <1>3 DEF Given
    <3> QED
      BY ONLY <2>1, <2>2, <3>1
  <2>5. it .. it + s - 1 \subseteq 2 .. len - 3
    BY ONLY <1>3, <2>1, <2>3, <2>4
  <2>6. \A b \in Given : (b .. b + Size(array, b) - 1) \cap (it .. it + s - 1) = {}
    <3> SUFFICES ASSUME NEW b \in Given, NEW w \in b .. b + Size(array, b) - 1, w \in it .. it + s - 1
                 PROVE  FALSE
      OBVIOUS
    <3>1. /\ b \in Nat /\ Size(array, b) \in Nat
          /\ it + Size(array, it) <= b \/ b + Size(array, b) <= it
      BY <2>4
    <3>2. w \in b .. b + Size(array, b) - 1 /\ w \in it .. it + s - 1
      OBVIOUS
    <3> QED
      BY ONLY <1>3, <2>4, <3>1, <3>2
  <2> QED
    BY <1>8, <2>1, <2>2, <2>3, <2>5, <2>6, Vacancy
<1> QED
  BY <1>3, <1>6, <1>7, <1>9, <1>10, Answering

\* A run of unused words is inside one available block: neighbours of an available block
\* are given out, or are the ends.
LEMMA OneBlock ==
    ASSUME Shape, blocks # {}, NEW at \in Int, NEW n \in Nat, n >= 1, A!Vacant(at, n)
    PROVE  \E b \in Available : Size(array, b) >= n
<1>1. /\ at .. at + n - 1 \subseteq 2 .. len - 3
      /\ \A b \in Given : (b .. b + Size(array, b) - 1) \cap (at .. at + n - 1) = {}
  BY Vacancy
<1>2. /\ len \in Nat /\ len >= 12 /\ Size(array, 0) = 2
      /\ \A b \in blocks :
            /\ b \in Nat /\ Size(array, b) \in Nat /\ Size(array, b) >= 2
            /\ Right(array, b) = b + Size(array, b)
            /\ b + Size(array, b) \in blocks \cup {len}
      /\ \A w \in 0 .. len - 1 : \E b \in blocks : b <= w /\ w < b + Size(array, b)
  BY GivenSpan
<1>3. at \in Int /\ n \in Nat /\ n >= 1 /\ at \in at .. at + n - 1
  OBVIOUS
<1>4. at \in 2 .. len - 3
  BY <1>1, <1>3
<1>5. ASSUME NEW b \in blocks, NEW w \in at .. at + n - 1, b <= w, w < b + Size(array, b)
      PROVE  b \in Available
  <2>1. b \in Nat /\ Size(array, b) \in Nat /\ w \in 2 .. len - 3 /\ b <= w /\ w < b + Size(array, b)
    BY <1>1, <1>2, <1>5
  <2>2. w \in b .. b + Size(array, b) - 1
    BY ONLY <2>1
  <2>3. b \notin Given
    BY <1>1, <1>5, <2>2
  <2>4. b # 0
    BY ONLY <1>2, <2>1
  <2>5. b # len - 2
    BY ONLY <1>2, <2>1
  <2> QED
    BY <1>5, <2>3, <2>4, <2>5 DEF Given, Ends
<1>6. PICK b \in blocks : b <= at /\ at < b + Size(array, b)
  <2>1. at \in 0 .. len - 1
    BY ONLY <1>2, <1>4
  <2> QED
    BY <1>2, <2>1
<1>7. b \in Available
  BY <1>3, <1>5, <1>6
<1>8. b \in Nat /\ Size(array, b) \in Nat /\ b + Size(array, b) \in blocks \cup {len}
      /\ Right(array, b) = b + Size(array, b)
  BY <1>2
<1>9. ~(b + Size(array, b) <= at + n - 1)
  <2> SUFFICES ASSUME b + Size(array, b) <= at + n - 1 PROVE FALSE
    OBVIOUS
  <2>1. PICK r : r = b + Size(array, b)
    OBVIOUS
  <2>2. r \in at .. at + n - 1
    BY ONLY <1>3, <1>6, <1>8, <2>1, b + Size(array, b) <= at + n - 1
  <2>3. r \in 2 .. len - 3 /\ r # len
    <3>1. r \in 2 .. len - 3
      BY <1>1, <2>2
    <3> QED
      BY ONLY <1>2, <3>1
  <2>4. r \in blocks /\ r \in Nat /\ Size(array, r) \in Nat /\ Size(array, r) >= 2
    BY <1>2, <1>8, <2>1, <2>3
  <2>5. r <= r /\ r < r + Size(array, r)
    BY ONLY <2>4
  <2>6. r \in Available
    BY <1>5, <2>2, <2>4, <2>5
  <2> QED
    BY <1>7, <1>8, <2>1, <2>6 DEF Shape, Coalesced
<1> QED
  BY <1>3, <1>6, <1>7, <1>8, <1>9

\* malloc() gives nothing only when there is no such run.
LEMMA Refused ==
    ASSUME Choosing, NEW c \in Core, Carve(c), reg[c].it = 0
    PROVE  A!Refuse(c)
<1>0. Inv
  BY DEF Choosing
<1>1. /\ Shape /\ Control /\ pc \in [Core -> Places] /\ "malloc return" \in Places /\ reg[c] \in Registers
      /\ Knows(c)
  BY <1>0, Around, Whereabouts DEF Places, Locked
<1>2. /\ Moves(c, "malloc return") /\ pc[c] = "carve" /\ reg' = reg /\ pc'[c] = "malloc return"
      /\ UNCHANGED heap
  BY <1>1 DEF Carve, GoTo, Moves
<1>3. blocks # {}
  BY <1>0, <1>2, Around
<1>4. PICK n : n = reg[c].ints
  OBVIOUS
<1>5. n \in Nat /\ n >= 4
  <2>1. n = Ints(reg[c].bytes) /\ reg[c].bytes \in Nat
    BY <1>1, <1>2, <1>4 DEF Knows, Registers
  <2> QED
    BY <2>1, Fit
<1>6. Given' = Given /\ array' = array /\ len' = len
  BY <1>1, <1>2, Still
<1>7. Live' = Live /\ SizesStay(InFlight(c))
  BY <1>6 DEF Live, SizesStay, Extent
<1>8. Calls' = [Calls EXCEPT ![c] = Call(c)']
  BY <1>0, <1>1, <1>2, <1>7, Calling
<1>9. Call(c).op = "malloc" /\ Call(c).words = n /\ Call(c)' = [op |-> "none"]
  BY <1>2, <1>4 DEF Call
<1>10. ASSUME NEW at \in 2 .. len - 3
       PROVE  ~A!Vacant(at, n)
  <2> SUFFICES ASSUME A!Vacant(at, n) PROVE FALSE
    OBVIOUS
  <2>1. at \in Int /\ n \in Nat /\ n >= 1
    BY <1>5
  <2>2. PICK b \in Available : Size(array, b) >= n
    BY ONLY <1>1, <1>3, <2>1, A!Vacant(at, n), OneBlock
  <2> QED
    BY <1>2, <1>4, <2>2, NoneFits
<1>11. Call(c).op = "malloc" /\ Live' = Live /\ \A at \in 2 .. len - 3 : ~A!Vacant(at, Call(c).words)
  BY <1>7, <1>9, <1>10
<1>12. len' = len /\ Calls' = [Calls EXCEPT ![c] = [op |-> "none"]]
  BY <1>6, <1>8, <1>9
<1> QED
  BY ONLY <1>11, <1>12, c \in Core, Answering

\* Every step of the heap is one of the allocator, or none.
LEMMA Allocates == Choosing /\ [Next]_vars => [A!Next]_A!vars
<1>1. ASSUME Choosing, NEW c \in Core, Step(c) \/ Malloc(c) \/ Free(c)
      PROVE  A!Next \/ UNCHANGED A!vars
  <2>1. Inv /\ Inv'
    BY <1>1, NextInv DEF Choosing, Next
  <2>2. CASE HeapInit(c) \/ Malloc(c)
    BY <2>1, <2>2, Called DEF A!Next
  <2>3. CASE StartSearch(c) \/ Search(c) \/ MallocReturn(c) \/ StartFree(c) \/ FreeReturn(c)
    BY <2>1, <2>3, Unnoticed
  <2>4. CASE Carve(c) /\ reg[c].it # 0
    BY <2>1, <2>4, Granted DEF A!Next
  <2>5. CASE Carve(c) /\ reg[c].it = 0
    BY <1>1, <2>5, Refused DEF A!Next
  <2>6. CASE Coalesce(c)
    BY <2>1, <2>6, Released DEF A!Next
  <2>7. CASE Free(c)
    BY <2>1, <2>7, GivingBack DEF A!Next
  <2> QED
    BY <1>1, <2>2, <2>3, <2>4, <2>5, <2>6, <2>7 DEF Step
<1>2. ASSUME Choosing, Write
      PROVE  UNCHANGED A!vars
  <2>1. Inv
    BY <1>2 DEF Choosing
  <2>2. /\ Given' = Given /\ len' = len /\ \A a \in blocks : Size(array', a) = Size(array, a)
    BY <1>2, <2>1, Written
  <2>3. pc' = pc /\ reg' = reg
    BY <1>2 DEF Write
  <2>4. SizesStay({}) /\ \A b \in Given : Extent(b)' = Extent(b)
    BY <2>2 DEF SizesStay, Given, Extent
  <2>5. Live' = Live
    BY <2>2, <2>4 DEF Live
  <2>6. ASSUME NEW c \in Core
        PROVE  Call(c)' = Call(c)
    <3>1. CASE pc[c] \notin {"free", "coalesce"}
      BY <2>3, <3>1 DEF Call
    <3>2. CASE pc[c] \in {"free", "coalesce"}
      <4>1. blocks # {}
        BY <2>1, <3>2, Around
      <4>2. Exactly(Given, owned, Flights, theLock) /\ Flights[c] = {reg[c].p}
        BY <2>1, <3>2, <4>1, Counted DEF Flights, InFlight
      <4>3. Extent(reg[c].p)' = Extent(reg[c].p)
        BY <2>3, <2>4, <4>2 DEF Exactly, Extent, SizesStay
      <4> QED
        BY <2>3, <3>2, <4>3 DEF Call
    <3> QED
      BY <3>1, <3>2
  <2>7. Calls' = Calls
    BY <2>6 DEF Calls
  <2> QED
    BY <2>2, <2>5, <2>7, Abstractly
<1>3. ASSUME UNCHANGED vars
      PROVE  UNCHANGED A!vars
  <2>1. setup' = setup /\ array' = array /\ blocks' = blocks /\ pc' = pc /\ reg' = reg
    BY <1>3 DEF vars, heap
  <2>2. len' = len /\ Live' = Live /\ Calls' = Calls
    BY <2>1 DEF len, Live, Calls, Call, Extent, Given, Available, Ends, IsAvail, Size
  <2> QED
    BY <2>2, Abstractly
<1> QED
  BY <1>1, <1>2, <1>3 DEF Next

\* malloc and free keep what the allocator promises: the extents given out are disjoint and
\* inside the heap, one that is given back is the one that was given out, and a request is
\* refused only when no run of unused words is long enough for it.
THEOREM Implemented == SafeSpec => ImplementsAllocator
<1>1. Init => A!Init
  <2> SUFFICES ASSUME Init PROVE A!Init
    OBVIOUS
  <2>1. Given = {}
    BY DEF Init, Given
  <2>2. \A c \in Core : Call(c) = [op |-> "none"]
    BY DEF Init, Call
  <2>3. Live = {} /\ Calls = [c \in Core |-> [op |-> "none"]]
    BY <2>1, <2>2 DEF Live, Calls
  <2> QED
    BY <2>3 DEF A!Init, A!None, Live, Calls, Call
<1>2. Init => Choosing
  BY InitChoosing
<1> QED
  BY <1>1, <1>2, ChoosingStep, Allocates, PTL DEF SafeSpec, ImplementsAllocator, A!SafeSpec
=============================================================================
