----------------------------- MODULE BootProofs -----------------------------
(***************************************************************************)
(* Proofs about the boot of the x86 kernel, for any number of processors,  *)
(* any drive, any memory and any tables of the firmware that describe      *)
(* them.  First what configInit() finds on such tables, then the boot.     *)
(*                                                                         *)
(* The walk over a table and the or of two words are recursive functions.  *)
(* Induction on the numbers up to some L, as a lemma on sets, follows from *)
(* the pigeonhole principle; a recursive function is then known from its   *)
(* first value and from each to the next.                                  *)
(***************************************************************************)
EXTENDS Boot, FiniteSetTheorems, SequenceTheorems, TLAPS

(***************************************************************************)
(* configInit() on any table.                                              *)
(***************************************************************************)

\* Induction, from the pigeonhole principle: if n were not in S, adding one would take
\* the numbers up to n that are in S to themselves without 0.
LEMMA Induction ==
    ASSUME NEW S, 0 \in S, \A n \in Nat : n \in S => n + 1 \in S
    PROVE  Nat \subseteq S
<1> SUFFICES ASSUME NEW n \in Nat, n \notin S PROVE FALSE
  OBVIOUS
<1> DEFINE A == {i \in 0 .. n : i \in S}
           B == A \ {0}
           up == [i \in A |-> i + 1]
<1>1. IsFiniteSet(A) /\ 0 \in A
  <2>1. IsFiniteSet(0 .. n)
    BY FS_Interval
  <2> QED
    BY <2>1, FS_Subset
<1>2. up \in [A -> B]
  OBVIOUS
<1>3. \A x, y \in A : up[x] = up[y] => x = y
  OBVIOUS
<1> HIDE DEF A, up
<1>4. IsFiniteSet(B) /\ Cardinality(B) = Cardinality(A) - 1
  BY <1>1, FS_RemoveElement
<1>5. Cardinality(B) < Cardinality(A)
  BY <1>1, <1>4, FS_CardinalityType
<1> HIDE DEF B
<1>6. \E x, y \in A : x # y /\ up[x] = up[y]
  BY ONLY <1>1, <1>2, <1>4, <1>5, FS_PigeonHole
<1> QED
  BY <1>3, <1>6

\* g goes from t on, a step for each number.
Iterates(g, L, T, t, step) ==
    g \in [0 .. L -> T] /\ g[0] = t /\ \A i \in 1 .. L : g[i] = step[i][g[i - 1]]

\* There is such a g ...
LEMMA Recursion ==
    ASSUME NEW L \in Nat, NEW T, NEW t \in T, NEW step \in [1 .. L -> [T -> T]]
    PROVE  \E g : Iterates(g, L, T, t, step)
<1> DEFINE Upto(n) == \E g \in [0 .. n -> T] :
                          g[0] = t /\ \A i \in 1 .. n : g[i] = step[i][g[i - 1]]
           S == {n \in Nat : n <= L => Upto(n)}
<1>1. 0 \in S
  <2> DEFINE g == [i \in 0 .. 0 |-> t]
  <2>1. g \in [0 .. 0 -> T] /\ g[0] = t /\ \A i \in 1 .. 0 : g[i] = step[i][g[i - 1]]
    OBVIOUS
  <2> HIDE DEF g
  <2>2. Upto(0)
    BY <2>1
  <2> QED
    BY <2>2
<1>2. ASSUME NEW n \in Nat, n \in S PROVE n + 1 \in S
  <2> SUFFICES ASSUME n + 1 <= L PROVE Upto(n + 1)
    OBVIOUS
  <2>1. PICK g \in [0 .. n -> T] : g[0] = t /\ \A i \in 1 .. n : g[i] = step[i][g[i - 1]]
    BY <1>2
  <2> DEFINE h == [i \in 0 .. n + 1 |-> IF i <= n THEN g[i] ELSE step[n + 1][g[n]]]
  <2>2. step[n + 1][g[n]] \in T
    <3>1. n + 1 \in 1 .. L /\ g[n] \in T
      OBVIOUS
    <3> QED
      BY <3>1
  <2>3. \A i \in 0 .. n + 1 : h[i] \in T
    <3>1. \A i \in 0 .. n + 1 : i <= n => g[i] \in T
      OBVIOUS
    <3> QED
      BY <2>2, <3>1
  <2>6. h \in [0 .. n + 1 -> T]
    BY <2>3
  <2>7. h[0] = t /\ h[n + 1] = step[n + 1][h[n]]
    <3>1. 0 \in 0 .. n + 1 /\ n \in 0 .. n + 1 /\ n + 1 \in 0 .. n + 1 /\ ~(n + 1 <= n) /\ 0 <= n
      OBVIOUS
    <3> QED
      BY <2>1, <3>1
  <2>4. \A i \in 1 .. n : h[i] = step[i][h[i - 1]]
    BY <2>1
  <2>5. \A i \in 1 .. n + 1 : i \in 1 .. n \/ i = n + 1
    OBVIOUS
  <2> HIDE DEF h
  <2>8. \A i \in 1 .. n + 1 : h[i] = step[i][h[i - 1]]
    <3>1. (n + 1) - 1 = n
      OBVIOUS
    <3> QED
      BY <2>4, <2>5, <2>7, <3>1
  <2> QED
    BY <2>6, <2>7, <2>8
<1> HIDE DEF S
<1>3. Nat \subseteq S
  BY <1>1, <1>2, Induction
<1>4. PICK g \in [0 .. L -> T] : g[0] = t /\ \A i \in 1 .. L : g[i] = step[i][g[i - 1]]
  BY <1>3 DEF S
<1>5. Iterates(g, L, T, t, step)
  BY <1>4 DEF Iterates
<1> QED
  BY <1>5

\* What the first of the numbers up to L has and each hands on to the next, all have.
LEMMA ByRounds ==
    ASSUME NEW L \in Nat, NEW Q, 0 \in Q, \A n \in 0 .. L - 1 : n \in Q => n + 1 \in Q
    PROVE  0 .. L \subseteq Q
<1> DEFINE S == {n \in Nat : n <= L => n \in Q}
<1>1. 0 \in S /\ \A n \in Nat : n \in S => n + 1 \in S
  OBVIOUS
<1> HIDE DEF S
<1>2. Nat \subseteq S
  BY <1>1, Induction
<1> QED
  BY <1>2 DEF S

\* A recursive function on the numbers up to L is such a function.
LEMMA Recursive ==
    ASSUME NEW L \in Nat, NEW T, NEW t \in T, NEW step \in [1 .. L -> [T -> T]],
           NEW F, F = [n \in 0 .. L |-> F[n]], F[0] = t,
           \A n \in 1 .. L : F[n - 1] \in T => F[n] = step[n][F[n - 1]]
    PROVE  Iterates(F, L, T, t, step)
<1> DEFINE Q == {n \in 0 .. L : F[n] \in T}
<1>1. 0 \in Q
  OBVIOUS
<1>2. ASSUME NEW n \in 0 .. L - 1, n \in Q PROVE n + 1 \in Q
  <2>1. n + 1 \in 1 .. L /\ (n + 1) - 1 = n /\ F[n] \in T
    BY <1>2
  <2>2. F[n + 1] = step[n + 1][F[n]]
    BY <2>1
  <2> QED
    BY <2>1, <2>2
<1>3. 0 .. L \subseteq Q
  <2> HIDE DEF Q
  <2> QED
    BY <1>1, <1>2, ByRounds
<1>4. \A n \in 0 .. L : F[n] \in T
  BY <1>3
<1>5. F \in [0 .. L -> T]
  BY <1>4
<1>6. ASSUME NEW n \in 1 .. L PROVE F[n] = step[n][F[n - 1]]
  <2>1. n - 1 \in 0 .. L
    OBVIOUS
  <2> QED
    BY <1>4, <2>1
<1> QED
  BY <1>5, <1>6 DEF Iterates

(***************************************************************************)
(* The walk of configInit() over the table of the processors.              *)
(***************************************************************************)
Found == [bytesForEntries : Int, apicInfo : Seq(Nat), ioAPIC : Nat]

\* A look at an entry leaves the bytes alone.
LEMMA LookType ==
    ASSUME NEW e \in Entry, NEW s \in Found
    PROVE  Look(e, s) \in Found /\ Look(e, s).bytesForEntries = s.bytesForEntries
<1>1. CASE IsOther(e)
  <2>1. e.processorId \in Nat
    BY <1>1 DEF Entry, IsOther
  <2>2. Append(s.apicInfo, e.processorId) \in Seq(Nat)
    BY <2>1 DEF Found
  <2> QED
    BY <1>1, <2>2 DEF Look, Found
<1>2. CASE ~IsOther(e) /\ IsIOApic(e)
  <2>1. e.address \in Nat
    BY <1>2 DEF Entry, IsIOApic
  <2> QED
    BY <1>2, <2>1 DEF Look, Found
<1>3. CASE ~IsOther(e) /\ ~IsIOApic(e)
  BY <1>3 DEF Look
<1> QED
  BY <1>1, <1>2, <1>3

\* Where the loop starts, and round n of it.
AtFirst(madt) == [bytesForEntries |-> madt.length - sizeofMADT, apicInfo |-> <<>>, ioAPIC |-> 0]

OneRound(madt, n, s) ==
    Look(madt.memory[n + 1], [s EXCEPT !.bytesForEntries = @ - madt.memory[n].len])

\* The rounds of the loop.
LEMMA RoundsDef ==
    ASSUME NEW madt, madt.memory \in Seq(Entry), madt.length \in Int, madt.memory # <<>>
    PROVE  /\ Rounds(madt) \in [0 .. Len(madt.memory) - 1 -> Found]
           /\ Rounds(madt)[0] = AtFirst(madt)
           /\ \A n \in 1 .. Len(madt.memory) - 1 :
                 Rounds(madt)[n] = OneRound(madt, n, Rounds(madt)[n - 1])
<1> DEFINE L == Len(madt.memory) - 1
           step == [n \in 1 .. L |-> [s \in Found |-> OneRound(madt, n, s)]]
<1>1. L \in Nat /\ AtFirst(madt) \in Found
  BY DEF AtFirst, Found, sizeofMADT
<1>2. ASSUME NEW n \in 1 .. L, NEW s \in Found PROVE OneRound(madt, n, s) \in Found
  <2>1. madt.memory[n] \in Entry /\ madt.memory[n + 1] \in Entry
    BY <1>1
  <2>2. [s EXCEPT !.bytesForEntries = @ - madt.memory[n].len] \in Found
    <3>1. madt.memory[n].len \in Int
      BY <2>1 DEF Entry
    <3>2. s.bytesForEntries - madt.memory[n].len \in Int
      BY <3>1 DEF Found
    <3> QED
      BY <3>2 DEF Found
  <2> QED
    BY <2>1, <2>2, LookType DEF OneRound
<1>3. step \in [1 .. L -> [Found -> Found]]
  BY <1>2
<1>4. PICK g : Iterates(g, L, Found, AtFirst(madt), step)
  <2> HIDE DEF L, step
  <2> QED
    BY ONLY <1>1, <1>3, Recursion
<1>5. \A i \in 1 .. L : g[i] = OneRound(madt, i, g[i - 1])
  <2> SUFFICES ASSUME NEW i \in 1 .. L PROVE g[i] = OneRound(madt, i, g[i - 1])
    OBVIOUS
  <2>1. g[i - 1] \in Found
    BY <1>1, <1>4 DEF Iterates
  <2>2. step[i][g[i - 1]] = OneRound(madt, i, g[i - 1])
    BY <2>1
  <2> QED
    BY <1>4, <2>2 DEF Iterates
<1> DEFINE Is(f) == f = [n \in 0 .. L |-> IF n = 0 THEN AtFirst(madt) ELSE OneRound(madt, n, f[n - 1])]
<1>6. Is(g)
  BY <1>1, <1>4, <1>5 DEF Iterates
<1>7. Rounds(madt) = CHOOSE f : Is(f)
  BY DEF Rounds, AtFirst, OneRound
<1> HIDE DEF Is
<1>8. Is(Rounds(madt))
  BY <1>6, <1>7
<1> DEFINE R == Rounds(madt)
<1>9. R = [n \in 0 .. L |-> R[n]] /\ R[0] = AtFirst(madt)
  BY <1>1, <1>8 DEF Is
<1>10. ASSUME NEW n \in 1 .. L PROVE R[n] = OneRound(madt, n, R[n - 1])
  BY <1>1, <1>8 DEF Is
<1>11. ASSUME NEW n \in 1 .. L, R[n - 1] \in Found PROVE R[n] = step[n][R[n - 1]]
  BY <1>10, <1>11
<1>12. Iterates(R, L, Found, AtFirst(madt), step)
  <2> HIDE DEF L, R, step
  <2> QED
    BY ONLY <1>1, <1>3, <1>9, <1>11, Recursive
<1> QED
  BY <1>9, <1>10, <1>12 DEF Iterates

\* The bytes of the entries.
LEMMA BytesDef ==
    ASSUME NEW entries \in Seq(Entry)
    PROVE  /\ Bytes(entries) \in [0 .. Len(entries) -> Nat]
           /\ Bytes(entries)[0] = 0
           /\ \A i \in 1 .. Len(entries) : Bytes(entries)[i] = Bytes(entries)[i - 1] + entries[i].len
<1> DEFINE L == Len(entries)
           step == [i \in 1 .. L |-> [s \in Nat |-> s + entries[i].len]]
<1>1. L \in Nat /\ 0 \in Nat
  OBVIOUS
<1>2. ASSUME NEW n \in 1 .. L PROVE entries[n].len \in Nat
  <2>1. entries[n] \in Entry
    OBVIOUS
  <2> QED
    BY <2>1 DEF Entry
<1>3. step \in [1 .. L -> [Nat -> Nat]]
  BY <1>2
<1>4. PICK g : Iterates(g, L, Nat, 0, step)
  <2> HIDE DEF L, step
  <2> QED
    BY ONLY <1>1, <1>3, Recursion
<1> DEFINE Is(f) == f = [i \in 0 .. L |-> IF i = 0 THEN 0 ELSE f[i - 1] + entries[i].len]
<1>5. ASSUME NEW i \in 1 .. L PROVE g[i] = g[i - 1] + entries[i].len
  <2>1. i - 1 \in 0 .. L
    BY <1>1
  <2>2. g[i - 1] \in Nat /\ g[i] = step[i][g[i - 1]]
    <3> HIDE DEF step, L
    <3> QED
      BY <1>4, <2>1 DEF Iterates
  <2> QED
    BY <2>2
<1>6. Is(g)
  BY <1>4, <1>5 DEF Iterates
<1>7. Bytes(entries) = CHOOSE f : Is(f)
  BY DEF Bytes
<1> HIDE DEF Is
<1>8. Is(Bytes(entries))
  BY <1>6, <1>7
<1> DEFINE R == Bytes(entries)
<1>9. R = [n \in 0 .. L |-> R[n]] /\ R[0] = 0
  BY <1>1, <1>8 DEF Is
<1>10. ASSUME NEW n \in 1 .. L PROVE R[n] = R[n - 1] + entries[n].len
  BY <1>1, <1>8 DEF Is
<1>11. ASSUME NEW n \in 1 .. L, R[n - 1] \in Nat PROVE R[n] = step[n][R[n - 1]]
  BY <1>10, <1>11
<1>12. Iterates(R, L, Nat, 0, step)
  <2> HIDE DEF L, R, step
  <2> QED
    BY ONLY <1>1, <1>3, <1>9, <1>11, Recursive
<1> QED
  BY <1>9, <1>10, <1>12 DEF Iterates

\* Of the entries 2 to n + 1, those of processors are entered once, and the I/O APIC is.
Entered(mem, n, s) ==
    /\ \A j \in 1 .. Len(s.apicInfo) :
          \E i \in 2 .. n + 1 : IsOther(mem[i]) /\ mem[i].processorId = s.apicInfo[j]
    /\ \A i \in 2 .. n + 1 :
          IsOther(mem[i]) => \E j \in 1 .. Len(s.apicInfo) : s.apicInfo[j] = mem[i].processorId
    /\ \A j, k \in 1 .. Len(s.apicInfo) : s.apicInfo[j] = s.apicInfo[k] => j = k
    /\ (\E i \in 2 .. n + 1 : IsIOApic(mem[i])) => s.ioAPIC # 0

\* Another round enters another entry.
LEMMA EnterOne ==
    ASSUME NEW mem \in Seq(Entry), NEW n \in Nat, n + 2 <= Len(mem),
           NEW s \in Found, Entered(mem, n, s),
           NEW u \in Found, u.apicInfo = s.apicInfo, u.ioAPIC = s.ioAPIC,
           \A i, j \in 1 .. Len(mem) :
               IsOther(mem[i]) /\ IsOther(mem[j]) /\ mem[i].processorId = mem[j].processorId => i = j
    PROVE  Entered(mem, n + 1, Look(mem[n + 2], u))
<1> DEFINE e == mem[n + 2]
           v == Look(e, u)
<1>1. e \in Entry /\ Len(mem) \in Nat /\ s.apicInfo \in Seq(Nat) /\ Len(s.apicInfo) \in Nat
  BY DEF Found
<1>2. \A i \in 2 .. (n + 1) + 1 : i \in 2 .. n + 1 \/ i = n + 2
  OBVIOUS
<1>3. \A i \in 2 .. n + 1 : i \in 2 .. (n + 1) + 1 /\ i \in 1 .. Len(mem) /\ i # n + 2
  BY <1>1
<1>4. n + 2 \in 2 .. (n + 1) + 1 /\ n + 2 \in 1 .. Len(mem)
  BY <1>1
<1>5. CASE IsOther(e)
  <2> DEFINE a == s.apicInfo
             b == Append(a, e.processorId)
             l == Len(a)
  <2>1. v.apicInfo = b /\ v.ioAPIC = s.ioAPIC /\ ~IsIOApic(e)
    BY <1>5 DEF Look, Found, IsOther, IsIOApic
  <2>2. e.processorId \in Nat
    BY <1>1, <1>5 DEF Entry, IsOther
  <2>3. Len(b) = l + 1 /\ b[l + 1] = e.processorId /\ \A j \in 1 .. l : b[j] = a[j]
    BY <1>1, <2>2
  <2>4. \A j \in 1 .. l : a[j] # e.processorId
    <3> SUFFICES ASSUME NEW j \in 1 .. l, a[j] = e.processorId PROVE FALSE
      OBVIOUS
    <3>1. PICK i \in 2 .. n + 1 : IsOther(mem[i]) /\ mem[i].processorId = a[j]
      BY DEF Entered
    <3> QED
      BY <1>3, <1>4, <1>5, <3>1
  <2>5. \A j \in 1 .. l + 1 : j \in 1 .. l \/ j = l + 1
    BY <1>1
  <2>6. \A j \in 1 .. l : j \in 1 .. l + 1
    BY <1>1
  <2>7. l + 1 \in 1 .. l + 1
    BY <1>1
  <2> HIDE DEF b, l
  <2>8. ASSUME NEW j \in 1 .. Len(b)
        PROVE  \E i \in 2 .. (n + 1) + 1 : IsOther(mem[i]) /\ mem[i].processorId = b[j]
    <3>1. CASE j = l + 1
      BY <1>4, <1>5, <2>3, <3>1
    <3>2. CASE j \in 1 .. l
      BY <1>3, <2>3, <3>2 DEF Entered, l
    <3> QED
      BY <2>3, <2>5, <3>1, <3>2
  <2>9. ASSUME NEW i \in 2 .. (n + 1) + 1, IsOther(mem[i])
        PROVE  \E j \in 1 .. Len(b) : b[j] = mem[i].processorId
    <3>1. CASE i = n + 2
      BY <2>3, <2>7, <3>1
    <3>2. CASE i \in 2 .. n + 1
      <4>1. PICK j \in 1 .. l : a[j] = mem[i].processorId
        BY <2>9, <3>2 DEF Entered, l
      <4> QED
        BY <2>3, <2>6, <4>1
    <3> QED
      BY <1>2, <3>1, <3>2
  <2>10. ASSUME NEW j \in 1 .. Len(b), NEW k \in 1 .. Len(b), b[j] = b[k] PROVE j = k
    <3>1. ASSUME j \in 1 .. l, k \in 1 .. l PROVE j = k
      BY <2>3, <2>10, <3>1 DEF Entered, l
    <3> QED
      BY <2>3, <2>4, <2>5, <2>10, <3>1
  <2>11. (\E i \in 2 .. (n + 1) + 1 : IsIOApic(mem[i])) => s.ioAPIC # 0
    BY <1>2, <2>1 DEF Entered
  <2> HIDE DEF v, e
  <2>12. \A j \in 1 .. Len(v.apicInfo) :
            \E i \in 2 .. (n + 1) + 1 : IsOther(mem[i]) /\ mem[i].processorId = v.apicInfo[j]
    BY <2>1, <2>8
  <2>13. \A i \in 2 .. (n + 1) + 1 :
            IsOther(mem[i]) => \E j \in 1 .. Len(v.apicInfo) : v.apicInfo[j] = mem[i].processorId
    BY <2>1, <2>9
  <2>14. \A j, k \in 1 .. Len(v.apicInfo) : v.apicInfo[j] = v.apicInfo[k] => j = k
    BY <2>1, <2>10
  <2>15. (\E i \in 2 .. (n + 1) + 1 : IsIOApic(mem[i])) => v.ioAPIC # 0
    BY <2>1, <2>11
  <2>16. Entered(mem, n + 1, v)
    BY ONLY <2>12, <2>13, <2>14, <2>15 DEF Entered
  <2> QED
    BY <2>16 DEF v, e
<1>6. CASE ~IsOther(e)
  <2>1. v.apicInfo = s.apicInfo
    BY <1>6 DEF Look, Found
  <2>2. IF IsIOApic(e) THEN v.ioAPIC # 0 ELSE v.ioAPIC = s.ioAPIC
    <3>1. IsIOApic(e) => e.address # 0
      BY <1>1 DEF Entry, IsIOApic
    <3> QED
      BY <1>6, <3>1 DEF Look, Found
  <2>3. (\E i \in 2 .. (n + 1) + 1 : IsIOApic(mem[i])) => v.ioAPIC # 0
    BY <1>2, <2>2 DEF Entered
  <2>4. \A i \in 2 .. (n + 1) + 1 : IsOther(mem[i]) => i \in 2 .. n + 1
    BY <1>2, <1>6
  <2>5. \A i \in 2 .. n + 1 : i \in 2 .. (n + 1) + 1
    BY <1>3
  <2> HIDE DEF v, e
  <2>6. \A j \in 1 .. Len(v.apicInfo) :
            \E i \in 2 .. (n + 1) + 1 : IsOther(mem[i]) /\ mem[i].processorId = v.apicInfo[j]
    BY <2>1, <2>5 DEF Entered
  <2>7. \A i \in 2 .. (n + 1) + 1 :
            IsOther(mem[i]) => \E j \in 1 .. Len(v.apicInfo) : v.apicInfo[j] = mem[i].processorId
    BY <2>1, <2>4 DEF Entered
  <2>8. \A j, k \in 1 .. Len(v.apicInfo) : v.apicInfo[j] = v.apicInfo[k] => j = k
    BY <2>1 DEF Entered
  <2>9. Entered(mem, n + 1, v)
    BY ONLY <2>3, <2>6, <2>7, <2>8 DEF Entered
  <2> QED
    BY <2>9 DEF v, e
<1> QED
  BY <1>5, <1>6

\* The first entries take less than all.
LEMMA BytesGrow ==
    ASSUME NEW entries \in Seq(Entry), NEW n \in 0 .. Len(entries) - 1
    PROVE  Bytes(entries)[n] < Bytes(entries)[Len(entries)]
<1> DEFINE L == Len(entries)
           B == Bytes(entries)
           Q == {i \in 0 .. L : \A m \in 0 .. i - 1 : B[m] < B[i]}
<1>1. L \in Nat /\ B \in [0 .. L -> Nat]
  BY BytesDef
<1>2. ASSUME NEW i \in 0 .. L - 1 PROVE i + 1 \in 1 .. L /\ i \in 0 .. L /\ B[i + 1] > B[i]
  <2>1. i + 1 \in 1 .. L /\ i + 1 \in 0 .. L /\ i \in 0 .. L /\ (i + 1) - 1 = i
    BY <1>1
  <2>2. entries[i + 1].len \in Nat \ {0}
    <3>1. entries[i + 1] \in Entry
      BY <2>1
    <3> QED
      BY <3>1 DEF Entry
  <2>3. B[i + 1] = B[i] + entries[i + 1].len
    BY <2>1, BytesDef
  <2>4. B[i] \in Nat /\ B[i + 1] \in Nat
    BY <1>1, <2>1
  <2> HIDE DEF B
  <2> QED
    BY <2>1, <2>2, <2>3, <2>4
<1> HIDE DEF B, L
<1>3. 0 \in Q
  BY <1>1
<1>4. ASSUME NEW i \in 0 .. L - 1, i \in Q PROVE i + 1 \in Q
  <2>1. i + 1 \in 0 .. L /\ i \in 0 .. L /\ B[i] \in Nat /\ B[i + 1] \in Nat /\ B[i + 1] > B[i]
    BY <1>1, <1>2
  <2>2. ASSUME NEW m \in 0 .. (i + 1) - 1 PROVE B[m] < B[i + 1]
    <3>1. m = i \/ m \in 0 .. i - 1
      BY <2>1
    <3>2. m \in 0 .. i - 1 => B[m] < B[i] /\ B[m] \in Nat
      BY <1>1, <1>4, <2>1
    <3> QED
      BY <2>1, <3>1, <3>2
  <2> QED
    BY <2>1, <2>2
<1>5. 0 .. L \subseteq Q
  <2> HIDE DEF Q
  <2> QED
    BY ONLY <1>1, <1>3, <1>4, ByRounds
<1>6. L \in Q /\ n \in 0 .. L - 1
  BY <1>1, <1>5 DEF L
<1> QED
  BY <1>6 DEF B, L

\* What the table of the processors holds.
LEMMA Listed ==
    ASSUME NEW K \in Nat \ {0}, NEW madt, ListsProcessors(madt, K)
    PROVE  LET mem == madt.memory
               L == Len(mem) - 1
               entries == SubSeq(mem, 1, L)
           IN  /\ mem \in Seq(Entry) /\ L \in Nat /\ mem # <<>>
               /\ entries \in Seq(Entry) /\ Len(entries) = L
               /\ \A i \in 1 .. L : entries[i] = mem[i]
               /\ mem[L + 1] = Letter
               /\ madt.length = sizeofMADT + Bytes(entries)[L]
               /\ {mem[i].processorId : i \in {j \in 2 .. L : IsOther(mem[j])}} = 1 .. K - 1
               /\ \A i, j \in 1 .. L + 1 :
                     IsOther(mem[i]) /\ IsOther(mem[j]) /\ mem[i].processorId = mem[j].processorId
                         => i = j
               /\ \E i \in 2 .. L : IsIOApic(mem[i])
<1> DEFINE mem == madt.memory
           L == Len(mem) - 1
           entries == SubSeq(mem, 1, L)
           others == {i \in DOMAIN entries : IsOther(entries[i])}
<1>1. /\ mem \in Seq(Entry) /\ madt = Table("APIC", entries) /\ 1 \notin others
      /\ {entries[i].processorId : i \in others} = 1 .. K - 1
      /\ \A i, j \in others : entries[i].processorId = entries[j].processorId => i = j
      /\ \E i \in DOMAIN entries \ {1} : IsIOApic(entries[i])
  BY DEF ListsProcessors
<1>2. Len(mem) \in Nat /\ L \in Int
  BY <1>1
<1>3. \A i \in 1 .. L : mem[i] \in Entry
  BY <1>1, <1>2
<1>4. /\ entries \in Seq(Entry) /\ Len(entries) = IF 1 <= L THEN L - 1 + 1 ELSE 0
      /\ \A i \in 1 .. L - 1 + 1 : entries[i] = mem[1 + i - 1]
  <2> HIDE DEF L, mem
  <2>1. 1 \in Int
    OBVIOUS
  <2> QED
    BY ONLY <1>2, <1>3, <2>1, SubSeqProperties
<1> DEFINE M == Len(entries)
<1>5. DOMAIN entries = 1 .. M /\ M \in Nat
  BY <1>4
<1>6. M = L
  BY <1>1, <1>2, <1>4, <1>5
<1>7. mem = Append(entries, Letter) /\ madt.length = sizeofMADT + Bytes(entries)[M]
  BY <1>1 DEF Table
<1>8. mem[L + 1] = Letter
  <2> HIDE DEF mem, L
  <2>1. entries \in Seq(Entry \cup {Letter}) /\ Letter \in Entry \cup {Letter}
    BY <1>4
  <2> QED
    BY <1>6, <1>7, <2>1, AppendProperties
<1>9. \A i \in 1 .. L : entries[i] = mem[i]
  BY <1>2, <1>4
<1>10. ~IsOther(Letter)
  BY DEF Letter, IsOther
<1>11. DOMAIN entries = 1 .. L
  BY <1>5, <1>6
<1> DEFINE proc == {j \in 2 .. L : IsOther(mem[j])}
<1>12. others = proc
  <2> HIDE DEF entries, mem, L
  <2>1. \A i \in 1 .. L : i = 1 \/ i \in 2 .. L
    BY <1>2
  <2>2. \A i \in 2 .. L : i \in 1 .. L /\ i # 1
    BY <1>2
  <2> QED
    BY <1>1, <1>9, <1>11, <2>1, <2>2
<1>13. {mem[i].processorId : i \in proc} = 1 .. K - 1
  <2>1. \A i \in proc : entries[i].processorId = mem[i].processorId
    BY <1>9, <1>11, <1>12
  <2> HIDE DEF others, proc, mem, entries
  <2> QED
    BY <1>1, <1>12, <2>1
<1>14. ASSUME NEW i \in 1 .. L + 1, NEW j \in 1 .. L + 1,
              IsOther(mem[i]), IsOther(mem[j]), mem[i].processorId = mem[j].processorId
       PROVE  i = j
  <2> HIDE DEF entries, mem, L
  <2>1. i \in 1 .. L /\ j \in 1 .. L
    BY <1>2, <1>8, <1>10, <1>14
  <2> QED
    BY <1>1, <1>9, <1>11, <1>14, <2>1
<1>15. \E i \in 2 .. L : IsIOApic(mem[i])
  <2> HIDE DEF entries, mem, L
  <2>1. PICK i \in (1 .. L) \ {1} : IsIOApic(entries[i])
    BY <1>1, <1>11
  <2>2. i \in 2 .. L /\ mem[i] = entries[i]
    BY <1>2, <1>9, <2>1
  <2> QED
    BY <2>1, <2>2
<1>16. L \in Nat /\ mem # <<>>
  BY <1>2, <1>5, <1>6
<1> HIDE DEF proc
<1> QED
  BY <1>1, <1>4, <1>6, <1>7, <1>8, <1>9, <1>13, <1>14, <1>15, <1>16 DEF proc

\* After n rounds, the bytes of the first n entries have been counted down, and the
\* n behind the first entry are entered.
Walking(madt, entries, n, s) ==
    /\ s.bytesForEntries = Bytes(entries)[Len(entries)] - Bytes(entries)[n]
    /\ Entered(madt.memory, n, s)

\* ... which holds after each round.
LEMMA WalkRounds ==
    ASSUME NEW madt, NEW entries \in Seq(Entry), madt.memory \in Seq(Entry),
           Len(madt.memory) = Len(entries) + 1, madt.memory # <<>>,
           \A i \in 1 .. Len(entries) : entries[i] = madt.memory[i],
           madt.length = sizeofMADT + Bytes(entries)[Len(entries)],
           \A i, j \in 1 .. Len(madt.memory) :
               IsOther(madt.memory[i]) /\ IsOther(madt.memory[j])
                 /\ madt.memory[i].processorId = madt.memory[j].processorId => i = j
    PROVE  \A n \in 0 .. Len(entries) : Walking(madt, entries, n, Rounds(madt)[n])
<1> DEFINE mem == madt.memory
           L == Len(entries)
           B == Bytes(entries)
           R == Rounds(madt)
           Q == {n \in 0 .. L : Walking(madt, entries, n, R[n])}
<1>1. L \in Nat /\ B \in [0 .. L -> Nat] /\ B[0] = 0
      /\ \A i \in 1 .. L : B[i] = B[i - 1] + entries[i].len
  BY BytesDef
<1>2. madt.length \in Int /\ madt.length - sizeofMADT = B[L]
  BY <1>1 DEF sizeofMADT
<1>3. /\ R \in [0 .. L -> Found] /\ R[0] = AtFirst(madt)
      /\ \A n \in 1 .. L : R[n] = OneRound(madt, n, R[n - 1])
  <2>1. Len(mem) - 1 = L
    BY <1>1
  <2> HIDE DEF L, R
  <2> QED
    BY <1>2, <2>1, RoundsDef DEF R
<1>4. 0 \in Q
  <2>1. 0 \in 0 .. L /\ R[0].bytesForEntries = B[L] - B[0]
    BY <1>1, <1>2, <1>3 DEF AtFirst
  <2>2. R[0].apicInfo = <<>>
    BY <1>3 DEF AtFirst
  <2>3. Entered(mem, 0, R[0])
    BY <2>2 DEF Entered
  <2> QED
    BY <2>1, <2>3 DEF Walking
<1>5. ASSUME NEW n \in 0 .. L - 1, n \in Q PROVE n + 1 \in Q
  <2> DEFINE s == R[n]
             u == [s EXCEPT !.bytesForEntries = @ - mem[n + 1].len]
  <2>1. n \in Nat /\ n + 1 \in 1 .. L /\ n + 1 \in 0 .. L /\ n \in 0 .. L /\ (n + 1) - 1 = n
        /\ (n + 1) + 1 = n + 2 /\ n + 2 <= Len(mem) /\ n + 2 \in 1 .. Len(mem)
    BY <1>1
  <2>2. s \in Found /\ Entered(mem, n, s) /\ s.bytesForEntries = B[L] - B[n]
    BY <1>3, <1>5, <2>1 DEF Walking
  <2>3. R[n + 1] = Look(mem[n + 2], u)
    BY <1>3, <2>1 DEF OneRound
  <2>4. entries[n + 1] = mem[n + 1] /\ mem[n + 1].len \in Nat /\ mem[n + 2] \in Entry
    <3>1. entries[n + 1] \in Entry
      BY <2>1
    <3>2. entries[n + 1] = mem[n + 1] /\ mem[n + 2] \in Entry
      BY <2>1
    <3> QED
      BY <3>1, <3>2 DEF Entry
  <2>5. B[n + 1] = B[n] + mem[n + 1].len /\ B[n] \in Nat /\ B[L] \in Nat
    <3>1. L \in 0 .. L
      BY <1>1
    <3> HIDE DEF B, L, mem
    <3> QED
      BY <1>1, <2>1, <2>4, <3>1
  <2>6. u \in Found /\ u.apicInfo = s.apicInfo /\ u.ioAPIC = s.ioAPIC
        /\ u.bytesForEntries = B[L] - B[n + 1]
    <3> HIDE DEF s, B, L, mem
    <3>1. s.bytesForEntries - mem[n + 1].len = B[L] - B[n + 1]
          /\ s.bytesForEntries - mem[n + 1].len \in Int
      BY <2>1, <2>2, <2>4, <2>5
    <3> QED
      BY <2>2, <3>1 DEF Found
  <2> HIDE DEF s, u, R, L, B, mem
  <2>7. Entered(mem, n + 1, R[n + 1])
    <3>1. mem \in Seq(Entry) /\ \A i, j \in 1 .. Len(mem) :
               IsOther(mem[i]) /\ IsOther(mem[j]) /\ mem[i].processorId = mem[j].processorId => i = j
      BY DEF mem
    <3> QED
      BY ONLY <2>1, <2>2, <2>3, <2>6, <3>1, EnterOne
  <2>8. R[n + 1].bytesForEntries = B[L] - B[n + 1]
    BY <2>3, <2>4, <2>6, LookType
  <2> QED
    BY <2>1, <2>7, <2>8 DEF Walking, mem, B, L
<1>6. 0 .. L \subseteq Q
  <2> HIDE DEF Q, L
  <2> QED
    BY ONLY <1>1, <1>4, <1>5, ByRounds
<1> QED
  BY <1>6

\* The loop of configInit() stops behind the last entry, and what follows the table is
\* of another kind: each processor but the first, whose entry need not be the one that
\* the loop leaves out, is in apicInfo once, and the I/O APIC is found.
LEMMA Walked ==
    ASSUME NEW K \in Nat \ {0}, NEW madt, ListsProcessors(madt, K)
    PROVE  LET found == Walk(madt)
           IN  /\ found.apicInfo \in Seq(Nat) /\ Len(found.apicInfo) + 1 = K
               /\ {found.apicInfo[i] : i \in DOMAIN found.apicInfo} = 1 .. K - 1
               /\ found.ioAPIC # 0
<1> DEFINE mem == madt.memory
           L == Len(mem) - 1
           entries == SubSeq(mem, 1, L)
           R == Rounds(madt)
           B == Bytes(entries)
<1>1. /\ mem \in Seq(Entry) /\ L \in Nat /\ mem # <<>> /\ entries \in Seq(Entry) /\ Len(entries) = L
      /\ \A i \in 1 .. L : entries[i] = mem[i]
      /\ mem[L + 1] = Letter
      /\ madt.length = sizeofMADT + Bytes(entries)[L]
  BY Listed
<1>2. /\ {mem[i].processorId : i \in {j \in 2 .. L : IsOther(mem[j])}} = 1 .. K - 1
      /\ \A i, j \in 1 .. L + 1 :
           IsOther(mem[i]) /\ IsOther(mem[j]) /\ mem[i].processorId = mem[j].processorId => i = j
      /\ \E i \in 2 .. L : IsIOApic(mem[i])
  BY Listed
<1>3. Len(mem) = L + 1
  BY <1>1
<1>4. \A n \in 0 .. L : Walking(madt, entries, n, R[n])
  <2> HIDE DEF L, entries, R
  <2> QED
    BY <1>1, <1>2, <1>3, WalkRounds DEF R
<1>5. B \in [0 .. L -> Nat] /\ R \in [0 .. L -> Found]
  <2>1. B \in [0 .. L -> Nat]
    BY <1>1, BytesDef
  <2>2. L \in 0 .. L
    BY <1>1
  <2>3. madt.length \in Int
    <3>1. madt.length = sizeofMADT + B[L] /\ sizeofMADT \in Nat
      BY <1>1 DEF sizeofMADT
    <3> HIDE DEF B, L
    <3>2. B[L] \in Nat
      BY ONLY <2>1, <2>2
    <3> QED
      BY ONLY <3>1, <3>2
  <2>4. mem \in Seq(Entry) /\ mem # <<>>
    BY <1>1
  <2>5. Rounds(madt) \in [0 .. Len(madt.memory) - 1 -> Found]
    BY ONLY <2>3, <2>4, RoundsDef
  <2> QED
    BY <2>1, <2>5
<1>6. \A n \in 0 .. L : R[n].bytesForEntries <= 0 <=> n = L
  <2> SUFFICES ASSUME NEW n \in 0 .. L PROVE R[n].bytesForEntries <= 0 <=> n = L
    OBVIOUS
  <2>1. R[n].bytesForEntries = B[L] - B[n] /\ B[L] \in Nat /\ B[n] \in Nat
    <3>1. R[n].bytesForEntries = Bytes(entries)[Len(entries)] - Bytes(entries)[n]
      BY <1>4 DEF Walking
    <3>2. L \in 0 .. L
      BY <1>1
    <3>3. R[n].bytesForEntries = B[L] - B[n]
      BY <1>1, <3>1
    <3> HIDE DEF B, L, R
    <3> QED
      BY <1>5, <3>2, <3>3
  <2>2. n # L => B[n] < B[L]
    <3>1. n # L => n \in 0 .. L - 1
      BY <1>1
    <3> QED
      BY <1>1, <3>1, BytesGrow
  <2> HIDE DEF B, R, L
  <2> QED
    BY <2>1, <2>2
<1> DEFINE Last(n) == /\ R[n].bytesForEntries <= 0
                      /\ \A m \in 0 .. n - 1 : R[m].bytesForEntries > 0
<1>7. Walk(madt) = R[CHOOSE n \in 0 .. L : Last(n)]
  BY <1>5 DEF Walk
<1>8. \A n \in 0 .. L : Last(n) <=> n = L
  <2>1. ASSUME NEW m \in 0 .. L - 1 PROVE R[m].bytesForEntries > 0
    <3>1. m \in 0 .. L /\ m # L
      BY <1>1
    <3>2. R[m].bytesForEntries \in Int
      BY <1>5, <3>1 DEF Found
    <3> QED
      BY <1>6, <3>1, <3>2
  <2> HIDE DEF R, L
  <2> QED
    BY <1>6, <2>1
<1>9. Walk(madt) = R[L]
  <2>1. L \in 0 .. L
    BY <1>1
  <2> HIDE DEF R, L, Last
  <2> QED
    BY <1>7, <1>8, <2>1
<1> DEFINE s == R[L]
           a == s.apicInfo
           l == Len(a)
<1>10. L \in 0 .. L /\ s \in Found /\ Entered(mem, L, s)
  <2>1. L \in 0 .. L
    BY <1>1
  <2>2. Walking(madt, entries, L, R[L])
    BY <1>4, <2>1
  <2>3. R[L] \in Found
    BY <1>5, <2>1
  <2> QED
    BY <2>1, <2>2, <2>3 DEF Walking
<1>11. a \in Seq(Nat) /\ l \in Nat /\ DOMAIN a = 1 .. l
  <2> HIDE DEF s
  <2> QED
    BY <1>10 DEF Found
<1> HIDE DEF s, R
<1>12. \A i \in 2 .. L + 1 : IsOther(mem[i]) \/ IsIOApic(mem[i]) => i \in 2 .. L
  <2>1. ~IsOther(mem[L + 1]) /\ ~IsIOApic(mem[L + 1])
    BY <1>1 DEF IsOther, IsIOApic, Letter
  <2> HIDE DEF L, mem
  <2> QED
    BY <1>1, <2>1
<1>13. \A i \in 2 .. L : i \in 2 .. L + 1
  BY <1>1
<1> HIDE DEF L, mem
<1>14. \A j \in 1 .. l : a[j] \in 1 .. K - 1
  <2> SUFFICES ASSUME NEW j \in 1 .. l PROVE a[j] \in 1 .. K - 1
    OBVIOUS
  <2>1. PICK i \in 2 .. L + 1 : IsOther(mem[i]) /\ mem[i].processorId = a[j]
    BY <1>10 DEF Entered
  <2> QED
    BY <1>2, <1>12, <2>1
<1>15. \A x \in 1 .. K - 1 : \E j \in 1 .. l : a[j] = x
  <2> SUFFICES ASSUME NEW x \in 1 .. K - 1 PROVE \E j \in 1 .. l : a[j] = x
    OBVIOUS
  <2>1. PICK i \in {j \in 2 .. L : IsOther(mem[j])} : mem[i].processorId = x
    BY <1>2
  <2> QED
    BY <1>10, <1>13, <2>1 DEF Entered
<1>16. \A j, k \in 1 .. l : a[j] = a[k] => j = k
  BY <1>10 DEF Entered
<1>17. s.ioAPIC # 0
  BY <1>2, <1>10, <1>13 DEF Entered
<1> HIDE DEF a, l
<1>18. {a[i] : i \in DOMAIN a} = 1 .. K - 1
  BY <1>11, <1>14, <1>15
<1> DEFINE f == [j \in 1 .. l |-> a[j]]
<1>19. f \in Surjection(1 .. l, 1 .. K - 1) /\ f \in Injection(1 .. l, 1 .. K - 1)
  <2>1. f \in [1 .. l -> 1 .. K - 1]
    BY <1>14
  <2>2. \A j \in 1 .. l : f[j] = a[j]
    OBVIOUS
  <2> HIDE DEF f
  <2>3. \A x \in 1 .. K - 1 : \E j \in 1 .. l : f[j] = x
    BY <1>15, <2>2
  <2>4. \A j, k \in 1 .. l : f[j] = f[k] => j = k
    BY <1>16, <2>2
  <2> QED
    BY <2>1, <2>3, <2>4 DEF Surjection, Injection, IsInjective
<1>20. IsFiniteSet(1 .. l) /\ Cardinality(1 .. l) = l /\ Cardinality(1 .. K - 1) = K - 1
  <2>1. 1 \in Int /\ l \in Int /\ K - 1 \in Int
    BY <1>11
  <2>2. /\ IsFiniteSet(1 .. l) /\ Cardinality(1 .. l) = IF 1 > l THEN 0 ELSE l - 1 + 1
        /\ Cardinality(1 .. K - 1) = IF 1 > K - 1 THEN 0 ELSE (K - 1) - 1 + 1
    BY ONLY <2>1, FS_Interval
  <2> QED
    BY <1>11, <2>2
<1>21. Cardinality(1 .. K - 1) = Cardinality(1 .. l)
  <2> HIDE DEF f
  <2> QED
    BY ONLY <1>19, <1>20, FS_Surjection
<1>22. l + 1 = K
  BY <1>11, <1>20, <1>21
<1> HIDE DEF f
<1> QED
  BY ONLY <1>9, <1>11, <1>17, <1>18, <1>22 DEF a, l, s, R, L, mem

(***************************************************************************)
(* The size of the memory.                                                 *)
(***************************************************************************)
\* x | y is a when the bits of a are those of x and those of y.
LEMMA OrIs ==
    ASSUME NEW a \in 0 .. 2^16 - 1, NEW x, NEW y,
           \A n \in 0 .. 15 :
              ((x \div 2^n) % 2 = 1 \/ (y \div 2^n) % 2 = 1) <=> (a \div 2^n) % 2 = 1
    PROVE  Or(x, y) = a
<1> DEFINE Bit(n) == IF (x \div 2^n) % 2 = 1 \/ (y \div 2^n) % 2 = 1 THEN 2^n ELSE 0
           step == [n \in 1 .. 16 |-> [s \in Int |-> s + Bit(n - 1)]]
<1>1. ASSUME NEW n \in 0 .. 15 PROVE Bit(n) \in Int
  <2>1. 2^n \in Int
    OBVIOUS
  <2> QED
    BY <2>1
<1> HIDE DEF Bit
<1>2. step \in [1 .. 16 -> [Int -> Int]]
  <2>1. ASSUME NEW n \in 1 .. 16 PROVE Bit(n - 1) \in Int
    <3>1. n - 1 \in 0 .. 15
      OBVIOUS
    <3> QED
      BY <1>1, <3>1
  <2> QED
    BY <2>1
<1>3. PICK g : Iterates(g, 16, Int, 0, step)
  <2>1. 16 \in Nat /\ 0 \in Int
    OBVIOUS
  <2> HIDE DEF step
  <2> QED
    BY ONLY <1>2, <2>1, Recursion
<1>4. ASSUME NEW n \in 1 .. 16 PROVE g[n] = g[n - 1] + Bit(n - 1)
  <2>1. g[n - 1] \in Int /\ g[n] = step[n][g[n - 1]]
    <3> HIDE DEF step
    <3>1. n - 1 \in 0 .. 16
      OBVIOUS
    <3> QED
      BY <1>3, <3>1 DEF Iterates
  <2> QED
    BY <2>1
<1> DEFINE Is(f) == f = [n \in 0 .. 16 |-> IF n = 0 THEN 0 ELSE f[n - 1] + Bit(n - 1)]
<1>5. Is(g)
  BY <1>3, <1>4 DEF Iterates
<1> DEFINE low == CHOOSE f : Is(f)
<1>6. Or(x, y) = low[16]
  BY DEF Or, Bit
<1> HIDE DEF Is
<1>7. Is(low)
  BY <1>5
<1> HIDE DEF low
<1>8. low[0] = 0 /\ \A n \in 0 .. 15 : low[n + 1] = low[n] + Bit(n)
  <2>1. \A n \in 0 .. 15 : n + 1 \in 0 .. 16 /\ n + 1 # 0 /\ (n + 1) - 1 = n
    OBVIOUS
  <2> QED
    BY <1>7, <2>1 DEF Is
<1>9. ASSUME NEW n \in 0 .. 15
      PROVE  low[n + 1] = low[n] + (IF (a \div 2^n) % 2 = 1 THEN 2^n ELSE 0)
  BY <1>8 DEF Bit
<1>10. low[0] = 0
  BY <1>8
<1>11. low[1] = a % 2^1
  <2>1. 0 \in 0 .. 15 /\ 0 + 1 = 1
    OBVIOUS
  <2>2. low[1] = low[0] + (IF (a \div 2^0) % 2 = 1 THEN 2^0 ELSE 0)
    BY ONLY <1>9, <2>1, Zenon
  <2> QED
    BY <1>10, <2>2
<1>12. low[2] = a % 2^2
  <2>1. 1 \in 0 .. 15 /\ 1 + 1 = 2
    OBVIOUS
  <2>2. low[2] = low[1] + (IF (a \div 2^1) % 2 = 1 THEN 2^1 ELSE 0)
    BY ONLY <1>9, <2>1, Zenon
  <2> QED
    BY <1>11, <2>2
<1>13. low[3] = a % 2^3
  <2>1. 2 \in 0 .. 15 /\ 2 + 1 = 3
    OBVIOUS
  <2>2. low[3] = low[2] + (IF (a \div 2^2) % 2 = 1 THEN 2^2 ELSE 0)
    BY ONLY <1>9, <2>1, Zenon
  <2> QED
    BY <1>12, <2>2
<1>14. low[4] = a % 2^4
  <2>1. 3 \in 0 .. 15 /\ 3 + 1 = 4
    OBVIOUS
  <2>2. low[4] = low[3] + (IF (a \div 2^3) % 2 = 1 THEN 2^3 ELSE 0)
    BY ONLY <1>9, <2>1, Zenon
  <2> QED
    BY <1>13, <2>2
<1>15. low[5] = a % 2^5
  <2>1. 4 \in 0 .. 15 /\ 4 + 1 = 5
    OBVIOUS
  <2>2. low[5] = low[4] + (IF (a \div 2^4) % 2 = 1 THEN 2^4 ELSE 0)
    BY ONLY <1>9, <2>1, Zenon
  <2> QED
    BY <1>14, <2>2
<1>16. low[6] = a % 2^6
  <2>1. 5 \in 0 .. 15 /\ 5 + 1 = 6
    OBVIOUS
  <2>2. low[6] = low[5] + (IF (a \div 2^5) % 2 = 1 THEN 2^5 ELSE 0)
    BY ONLY <1>9, <2>1, Zenon
  <2> QED
    BY <1>15, <2>2
<1>17. low[7] = a % 2^7
  <2>1. 6 \in 0 .. 15 /\ 6 + 1 = 7
    OBVIOUS
  <2>2. low[7] = low[6] + (IF (a \div 2^6) % 2 = 1 THEN 2^6 ELSE 0)
    BY ONLY <1>9, <2>1, Zenon
  <2> QED
    BY <1>16, <2>2
<1>18. low[8] = a % 2^8
  <2>1. 7 \in 0 .. 15 /\ 7 + 1 = 8
    OBVIOUS
  <2>2. low[8] = low[7] + (IF (a \div 2^7) % 2 = 1 THEN 2^7 ELSE 0)
    BY ONLY <1>9, <2>1, Zenon
  <2> QED
    BY <1>17, <2>2
<1>19. low[9] = a % 2^9
  <2>1. 8 \in 0 .. 15 /\ 8 + 1 = 9
    OBVIOUS
  <2>2. low[9] = low[8] + (IF (a \div 2^8) % 2 = 1 THEN 2^8 ELSE 0)
    BY ONLY <1>9, <2>1, Zenon
  <2> QED
    BY <1>18, <2>2
<1>20. low[10] = a % 2^10
  <2>1. 9 \in 0 .. 15 /\ 9 + 1 = 10
    OBVIOUS
  <2>2. low[10] = low[9] + (IF (a \div 2^9) % 2 = 1 THEN 2^9 ELSE 0)
    BY ONLY <1>9, <2>1, Zenon
  <2> QED
    BY <1>19, <2>2
<1>21. low[11] = a % 2^11
  <2>1. 10 \in 0 .. 15 /\ 10 + 1 = 11
    OBVIOUS
  <2>2. low[11] = low[10] + (IF (a \div 2^10) % 2 = 1 THEN 2^10 ELSE 0)
    BY ONLY <1>9, <2>1, Zenon
  <2> QED
    BY <1>20, <2>2
<1>22. low[12] = a % 2^12
  <2>1. 11 \in 0 .. 15 /\ 11 + 1 = 12
    OBVIOUS
  <2>2. low[12] = low[11] + (IF (a \div 2^11) % 2 = 1 THEN 2^11 ELSE 0)
    BY ONLY <1>9, <2>1, Zenon
  <2> QED
    BY <1>21, <2>2
<1>23. low[13] = a % 2^13
  <2>1. 12 \in 0 .. 15 /\ 12 + 1 = 13
    OBVIOUS
  <2>2. low[13] = low[12] + (IF (a \div 2^12) % 2 = 1 THEN 2^12 ELSE 0)
    BY ONLY <1>9, <2>1, Zenon
  <2> QED
    BY <1>22, <2>2
<1>24. low[14] = a % 2^14
  <2>1. 13 \in 0 .. 15 /\ 13 + 1 = 14
    OBVIOUS
  <2>2. low[14] = low[13] + (IF (a \div 2^13) % 2 = 1 THEN 2^13 ELSE 0)
    BY ONLY <1>9, <2>1, Zenon
  <2> QED
    BY <1>23, <2>2
<1>25. low[15] = a % 2^15
  <2>1. 14 \in 0 .. 15 /\ 14 + 1 = 15
    OBVIOUS
  <2>2. low[15] = low[14] + (IF (a \div 2^14) % 2 = 1 THEN 2^14 ELSE 0)
    BY ONLY <1>9, <2>1, Zenon
  <2> QED
    BY <1>24, <2>2
<1>26. low[16] = a % 2^16
  <2>1. 15 \in 0 .. 15 /\ 15 + 1 = 16
    OBVIOUS
  <2>2. low[16] = low[15] + (IF (a \div 2^15) % 2 = 1 THEN 2^15 ELSE 0)
    BY ONLY <1>9, <2>1, Zenon
  <2> QED
    BY <1>25, <2>2
<1> QED
  BY <1>6, <1>26

\* a | a, a | 0 and 0 | a are a.
LEMMA OrOfZero ==
    ASSUME NEW a \in 0 .. 2^16 - 1
    PROVE  Or(a, a) = a /\ Or(a, 0) = a /\ Or(0, a) = a
<1>1. ASSUME NEW n \in 0 .. 15 PROVE (0 \div 2^n) % 2 # 1
  <2>1. ASSUME NEW d \in Nat \ {0} PROVE (0 \div d) % 2 # 1
    OBVIOUS
  <2>2. CASE n = 0
    <3>1. 2^0 \in Nat \ {0}
      OBVIOUS
    <3>2. (0 \div 2^0) % 2 # 1
      BY ONLY <2>1, <3>1, Zenon
    <3> QED
      BY ONLY <2>2, <3>2, Zenon
  <2>3. CASE n = 1
    <3>1. 2^1 \in Nat \ {0}
      OBVIOUS
    <3>2. (0 \div 2^1) % 2 # 1
      BY ONLY <2>1, <3>1, Zenon
    <3> QED
      BY ONLY <2>3, <3>2, Zenon
  <2>4. CASE n = 2
    <3>1. 2^2 \in Nat \ {0}
      OBVIOUS
    <3>2. (0 \div 2^2) % 2 # 1
      BY ONLY <2>1, <3>1, Zenon
    <3> QED
      BY ONLY <2>4, <3>2, Zenon
  <2>5. CASE n = 3
    <3>1. 2^3 \in Nat \ {0}
      OBVIOUS
    <3>2. (0 \div 2^3) % 2 # 1
      BY ONLY <2>1, <3>1, Zenon
    <3> QED
      BY ONLY <2>5, <3>2, Zenon
  <2>6. CASE n = 4
    <3>1. 2^4 \in Nat \ {0}
      OBVIOUS
    <3>2. (0 \div 2^4) % 2 # 1
      BY ONLY <2>1, <3>1, Zenon
    <3> QED
      BY ONLY <2>6, <3>2, Zenon
  <2>7. CASE n = 5
    <3>1. 2^5 \in Nat \ {0}
      OBVIOUS
    <3>2. (0 \div 2^5) % 2 # 1
      BY ONLY <2>1, <3>1, Zenon
    <3> QED
      BY ONLY <2>7, <3>2, Zenon
  <2>8. CASE n = 6
    <3>1. 2^6 \in Nat \ {0}
      OBVIOUS
    <3>2. (0 \div 2^6) % 2 # 1
      BY ONLY <2>1, <3>1, Zenon
    <3> QED
      BY ONLY <2>8, <3>2, Zenon
  <2>9. CASE n = 7
    <3>1. 2^7 \in Nat \ {0}
      OBVIOUS
    <3>2. (0 \div 2^7) % 2 # 1
      BY ONLY <2>1, <3>1, Zenon
    <3> QED
      BY ONLY <2>9, <3>2, Zenon
  <2>10. CASE n = 8
    <3>1. 2^8 \in Nat \ {0}
      OBVIOUS
    <3>2. (0 \div 2^8) % 2 # 1
      BY ONLY <2>1, <3>1, Zenon
    <3> QED
      BY ONLY <2>10, <3>2, Zenon
  <2>11. CASE n = 9
    <3>1. 2^9 \in Nat \ {0}
      OBVIOUS
    <3>2. (0 \div 2^9) % 2 # 1
      BY ONLY <2>1, <3>1, Zenon
    <3> QED
      BY ONLY <2>11, <3>2, Zenon
  <2>12. CASE n = 10
    <3>1. 2^10 \in Nat \ {0}
      OBVIOUS
    <3>2. (0 \div 2^10) % 2 # 1
      BY ONLY <2>1, <3>1, Zenon
    <3> QED
      BY ONLY <2>12, <3>2, Zenon
  <2>13. CASE n = 11
    <3>1. 2^11 \in Nat \ {0}
      OBVIOUS
    <3>2. (0 \div 2^11) % 2 # 1
      BY ONLY <2>1, <3>1, Zenon
    <3> QED
      BY ONLY <2>13, <3>2, Zenon
  <2>14. CASE n = 12
    <3>1. 2^12 \in Nat \ {0}
      OBVIOUS
    <3>2. (0 \div 2^12) % 2 # 1
      BY ONLY <2>1, <3>1, Zenon
    <3> QED
      BY ONLY <2>14, <3>2, Zenon
  <2>15. CASE n = 13
    <3>1. 2^13 \in Nat \ {0}
      OBVIOUS
    <3>2. (0 \div 2^13) % 2 # 1
      BY ONLY <2>1, <3>1, Zenon
    <3> QED
      BY ONLY <2>15, <3>2, Zenon
  <2>16. CASE n = 14
    <3>1. 2^14 \in Nat \ {0}
      OBVIOUS
    <3>2. (0 \div 2^14) % 2 # 1
      BY ONLY <2>1, <3>1, Zenon
    <3> QED
      BY ONLY <2>16, <3>2, Zenon
  <2>17. CASE n = 15
    <3>1. 2^15 \in Nat \ {0}
      OBVIOUS
    <3>2. (0 \div 2^15) % 2 # 1
      BY ONLY <2>1, <3>1, Zenon
    <3> QED
      BY ONLY <2>17, <3>2, Zenon
  <2> QED
    BY <2>2, <2>3, <2>4, <2>5, <2>6, <2>7, <2>8, <2>9, <2>10, <2>11, <2>12, <2>13, <2>14, <2>15,
       <2>16, <2>17
<1>2. a \in 0 .. 2^16 - 1
  OBVIOUS
<1>3. Or(a, a) = a
  BY ONLY <1>2, OrIs, Zenon
<1>4. Or(a, 0) = a
  BY ONLY <1>1, <1>2, OrIs, Zenon
<1>5. Or(0, a) = a
  BY ONLY <1>1, <1>2, OrIs, Zenon
<1> QED
  BY ONLY <1>3, <1>4, <1>5, Zenon

\* Where the BIOS reports the memory in either pair of registers or in both, memSize is
\* what there is.
LEMMA MemoryAdded ==
    ASSUME NEW memInfo, NEW kb, ReportsMemory(memInfo, kb)
    PROVE  (memAbove1M(memInfo) + 1024) % 2^22 = kb
<1>1. PICK low \in {memInfo.ax, memInfo.cx}, high \in {memInfo.bx, memInfo.dx} :
        /\ {low, high} \subseteq 0 .. 2^16 - 1
        /\ (memInfo.ax = low /\ memInfo.bx = high) \/ (memInfo.ax = 0 /\ memInfo.bx = 0)
        /\ (memInfo.cx = low /\ memInfo.dx = high) \/ (memInfo.cx = 0 /\ memInfo.dx = 0)
        /\ kb = 1024 + low + 64 * high /\ kb < 2^22
  BY DEF ReportsMemory
<1>2. low \in 0 .. 2^16 - 1 /\ high \in 0 .. 2^16 - 1
  <2>1. {low, high} \subseteq 0 .. 2^16 - 1
    BY ONLY <1>1, Zenon
  <2> QED
    BY ONLY <2>1, Zenon
<1>3. 0 \in 0 .. 2^16 - 1
  OBVIOUS
<1>4. Or(0, 0) = 0 /\ Or(low, low) = low /\ Or(low, 0) = low /\ Or(0, low) = low
  BY ONLY <1>2, <1>3, OrOfZero, Zenon
<1>5. Or(high, high) = high /\ Or(high, 0) = high /\ Or(0, high) = high
  BY ONLY <1>2, <1>3, OrOfZero, Zenon
<1>6. (memInfo.ax = low /\ memInfo.bx = high) \/ (memInfo.ax = 0 /\ memInfo.bx = 0)
  BY ONLY <1>1, Zenon
<1>7. (memInfo.cx = low /\ memInfo.dx = high) \/ (memInfo.cx = 0 /\ memInfo.dx = 0)
  BY ONLY <1>1, Zenon
<1>8. low \in {memInfo.ax, memInfo.cx} /\ high \in {memInfo.bx, memInfo.dx}
  OBVIOUS
<1>9. Or(memInfo.ax, memInfo.cx) = low /\ Or(memInfo.bx, memInfo.dx) = high
  BY ONLY <1>4, <1>5, <1>6, <1>7, <1>8
<1>10. memAbove1M(memInfo) = low + 64 * high
  BY ONLY <1>9 DEF memAbove1M
<1>11. kb = 1024 + low + 64 * high /\ kb < 2^22
  BY ONLY <1>1, Zenon
<1> QED
  BY ONLY <1>2, <1>10, <1>11

(***************************************************************************)
(* The boot.                                                               *)
(***************************************************************************)

\* The constants.
LEMMA BootFacts ==
    /\ N \in Nat /\ N > 0 /\ Word \in Nat /\ Word > N
    /\ 0 \in Cpu /\ Cpu \subseteq Nat /\ \A c \in Cpu : c < N
    /\ IsFiniteSet(Cpu) /\ Cardinality(Cpu) = N
<1>1. N \in Nat /\ N > 0 /\ Word \in Nat /\ Word > N
  BY BootAssumption DEF BootAssumption
<1>2. 0 \in Cpu /\ Cpu \subseteq Nat /\ \A c \in Cpu : c < N
  BY <1>1 DEF Cpu
<1>3. IsFiniteSet(0 .. N - 1) /\ Cardinality(0 .. N - 1) = N
  BY <1>1, FS_Interval
<1> QED
  BY <1>1, <1>2, <1>3 DEF Cpu

\* What the assumptions say of the image: its pieces fit into the memory and into the counter of the loop.
LEMMA LoaderFacts ==
    /\ CountWord \in Nat /\ Pieces \in Nat /\ Ram \in Nat /\ First \in Nat /\ Image \in Nat
    /\ First > 0 /\ Image > 1 /\ First + Image <= Ram + 1 /\ Ram <= Pieces /\ Image <= CountWord
    /\ \A m \in Machines : m.sectors \in Nat
BY LoaderAssumption, MachineAssumption DEF LoaderAssumption, MachineAssumption

\* The numbers of 16 bits stay what they are, and so do the places.
LEMMA LoadTypes ==
    ASSUME TypeOK, NEW c \in Cpu, Load(c)
    PROVE  TypeOK'
<1> USE LoaderFacts DEF TypeOK
<1>1. CASE LastSector
  BY <1>1 DEF Load, loader, Places, Early
<1>2. CASE ~LastSector
  <2>1. ReadSector /\ pc' = [pc EXCEPT ![c] = IF Wrapped THEN "lost" ELSE "mbr"]
    BY <1>2 DEF Load
  <2>2. cx' \in 0 .. CountWord - 1 /\ bp' \in 0 .. CountWord - 1 /\ di' \in 0 .. Pieces - 1
    BY <2>1 DEF ReadSector
  <2>3. memory' \in [0 .. Pieces - 1 -> Int]
    BY <2>1 DEF ReadSector
  <2>4. pc' \in [Cpu -> Places]
    BY <2>1 DEF Places, Early, Loading
  <2> QED
    BY <2>2, <2>3, <2>4 DEF Load
<1> QED
  BY <1>1, <1>2

\* The places, one by one.
LEMMA PlacesList ==
    /\ Asleep = {"off", "wait for startup"} /\ Loading = {"mbr", "lost"}
    /\ Early = {"mbr", "lost", "kk", "pick", "kernelInit", "constructors", "panic", "barriers",
                "gate", "first lapic", "count", "join"}
    /\ Unmade = {"mbr", "lost", "kk", "pick", "kernelInit", "constructors", "panic", "barriers"}
    /\ Waking = {"wake", "INIT sent", "startup sent", "await"}
    /\ Late = {"starting", "kernelMain", "stopping", "shutdown", "hlt"}
    /\ Done = {"stopping", "shutdown", "hlt"}
    /\ Places = {"off", "wait for startup", "mbr", "lost", "kk", "pick", "kernelInit", "constructors",
                 "panic", "barriers", "gate", "first lapic", "count", "join", "wake", "INIT sent",
                 "startup sent", "await", "lapic", "arrive", "starting", "kernelMain", "stopping",
                 "shutdown", "hlt"}
BY DEF Asleep, Loading, Early, Unmade, Waking, Late, Done, Places

\* A processor goes from one place to another, and only there.
LEMMA Goes ==
    ASSUME pc \in [Cpu -> Places], NEW c \in Cpu, Step(c)
    PROVE  \E to \in Places : pc' = [pc EXCEPT ![c] = to]
<1>1. CASE Load(c) \/ UseTempStack(c) \/ PickKernelStack(c) \/ WhichInit(c)
  BY <1>1, PlacesList DEF Load, UseTempStack, PickKernelStack, WhichInit, GoTo
<1>2. CASE FirstInit(c) \/ Count(c)
  BY <1>2, PlacesList DEF FirstInit, Construct, NewBarriers, Interrupt, FirstLapic, Count, GoTo
<1>3. CASE WakeOthers(c) \/ Lapic(c)
  BY <1>3, PlacesList DEF WakeOthers, Wake, Startup, Delivered, Await, Lapic, GoTo
<1>4. CASE Arrive(c) \/ Start(c) \/ Leave(c) \/ End(c)
  BY <1>4, PlacesList DEF Arrive, Start, Leave, End, GoTo
<1> QED
  BY <1>1, <1>2, <1>3, <1>4 DEF Step

\* Every step of a processor but its fetch_add keeps the types.
LEMMA StepTypes ==
    ASSUME Order, NEW c \in Cpu, Step(c), ~Count(c)
    PROVE  TypeOK'
<1>0. TypeOK
  BY DEF Order
<1>a. pc' \in [Cpu -> Places]
  BY <1>0, Goes DEF TypeOK
<1> USE <1>0, <1>a, BootFacts DEF TypeOK, setting, loader, NoIpi
<1>1. CASE Load(c)
  BY <1>1, LoadTypes
<1>2. CASE UseTempStack(c) \/ PickKernelStack(c) \/ WhichInit(c)
  BY <1>2 DEF UseTempStack, PickKernelStack, WhichInit
<1>3. CASE Construct(c)
  BY <1>3 DEF Construct
<1>4. CASE NewBarriers(c)
  BY <1>4 DEF NewBarriers
<1>5. CASE Interrupt(c)
  <2>1. c = 0
    BY <1>5, PlacesList DEF Interrupt, Order, SetUpOnce
  <2>2. gate # 2
    BY <1>5, <2>1, PlacesList DEF Interrupt, Order, GateFirst
  <2>3. gate \in 0 .. 2 /\ gate' = gate + 1
    BY <1>5 DEF Interrupt
  <2>4. gate' \in 0 .. 2
    BY ONLY <2>2, <2>3
  <2> QED
    BY <1>5, <2>4 DEF Interrupt
<1>6. CASE FirstLapic(c) \/ Lapic(c)
  BY <1>6 DEF FirstLapic, Lapic, EnableLapic
<1>7. CASE WakeOthers(c)
  <2>0. \A num \in {"INIT", "startup"} :
            [to |-> id, num |-> num] \in [to : Nat, num : {"none", "INIT", "startup"}]
    OBVIOUS
  <2>1. CASE Wake(c)
    <3>1. icr' \in [to : Nat, num : {"none", "INIT", "startup"}]
      BY <2>0, <2>1 DEF Wake
    <3> QED
      BY <2>1, <3>1 DEF Wake
  <2>2. CASE Startup(c) \/ Delivered(c)
    <3>1. icr' \in [to : Nat, num : {"none", "INIT", "startup"}]
      BY <2>0, <2>2 DEF Startup, Delivered
    <3> QED
      BY <2>2, <3>1 DEF Startup, Delivered
  <2>3. CASE Await(c)
    BY <2>3 DEF Await
  <2> QED
    BY <1>7, <2>1, <2>2, <2>3 DEF WakeOthers
<1>8. CASE Arrive(c) \/ Start(c) \/ Leave(c) \/ End(c)
  BY <1>8 DEF Arrive, Start, Leave, End
<1> QED
  BY <1>1, <1>2, <1>3, <1>4, <1>5, <1>6, <1>7, <1>8 DEF Step, FirstInit

\* So does the delivery of an interrupt.
LEMMA DeliverTypes == TypeOK /\ Deliver => TypeOK'
<1> SUFFICES ASSUME TypeOK, Deliver PROVE TypeOK'
  OBVIOUS
<1>1. icr' \in [to : Nat, num : {"none", "INIT", "startup"}]
  BY DEF Deliver, NoIpi
<1>2. pc' \in [Cpu -> Places] /\ esp' \in [Cpu -> Cpu \cup {tempStack, NoStack}]
  BY PlacesList DEF Deliver, TypeOK
<1> QED
  BY <1>1, <1>2 DEF Deliver, TypeOK, setting, loader

\* Which processors have counted themselves changes by a fetch_add only.
LEMMA Uncounted ==
    ASSUME Order, NEW c \in Cpu, Step(c), ~Count(c)
    PROVE  Counted' = Counted /\ running' = running
<1>1. pc \in [Cpu -> Places] /\ running \in Nat
  BY DEF Order, TypeOK
<1> USE <1>1, PlacesList DEF Counted, GoTo
<1>2. CASE Load(c) \/ UseTempStack(c) \/ PickKernelStack(c) \/ WhichInit(c)
  BY <1>2 DEF Load, UseTempStack, PickKernelStack, WhichInit
<1>3. CASE Construct(c)
  <2>1. c = 0 /\ pc[0] = "constructors"
    BY <1>3 DEF Construct, Order, SetUpOnce
  <2>2. Counted = {}
    <3> SUFFICES ASSUME NEW d \in Counted PROVE FALSE
      OBVIOUS
    <3>1. d # 0 => pc[d] = "off"
      BY <2>1 DEF Order, WokenInTurn
    <3> QED
      BY <2>1, <3>1
  <2>3. running = 0
    BY <2>2, FS_EmptySet DEF Order, RunningExact
  <2>4. Counted' = Counted
    BY <1>3 DEF Construct
  <2> QED
    BY <1>3, <2>3, <2>4 DEF Construct
<1>4. CASE NewBarriers(c) \/ Interrupt(c) \/ FirstLapic(c) \/ Lapic(c)
  BY <1>4 DEF NewBarriers, Interrupt, FirstLapic, Lapic
<1>5. CASE WakeOthers(c)
  BY <1>5 DEF WakeOthers, Wake, Startup, Delivered, Await
<1>6. CASE Arrive(c) \/ Start(c) \/ Leave(c) \/ End(c)
  BY <1>6 DEF Arrive, Start, Leave, End
<1> QED
  BY <1>2, <1>3, <1>4, <1>5, <1>6 DEF Step, FirstInit

\* A fetch_add counts the one that makes it, without an overflow.
LEMMA CountStep ==
    ASSUME Order, NEW c \in Cpu, Count(c)
    PROVE  /\ Counted' = Counted \cup {c} /\ c \notin Counted
           /\ running' = running + 1 /\ running' = Cardinality(Counted')
           /\ running' \in 0 .. N
<1>1. pc \in [Cpu -> Places] /\ running = Cardinality(Counted)
  BY DEF Order, TypeOK, RunningExact
<1>2. Counted' = Counted \cup {c} /\ c \notin Counted
  BY <1>1, PlacesList DEF Counted, Count, GoTo
<1>3. IsFiniteSet(Counted) /\ Cardinality(Counted) \in Nat
  BY BootFacts, FS_Subset, FS_CardinalityType DEF Counted
<1>4. Cardinality(Counted') = Cardinality(Counted) + 1
  BY <1>2, <1>3, FS_AddElement
<1>5. Cardinality(Counted') <= N
  BY BootFacts, FS_Subset DEF Counted
<1>6. running' = running + 1
  <2>1. running' = (running + 1) % Word
    BY DEF Count
  <2> QED
    BY <1>1, <1>3, <1>4, <1>5, <2>1, BootFacts
<1> QED
  BY <1>1, <1>2, <1>3, <1>4, <1>5, <1>6, BootFacts

\* A delivery wakes a processor that has not counted itself.
LEMMA DeliverAsleep ==
    ASSUME Order, Deliver
    PROVE  \/ UNCHANGED <<pc, esp>>
           \/ /\ id \in Cpu \ {0} /\ pc[id] \in Asleep
              /\ \/ /\ pc[0] = "INIT sent" /\ pc' = [pc EXCEPT ![id] = "wait for startup"]
                    /\ esp' = [esp EXCEPT ![id] = NoStack]
                 \/ /\ pc[0] = "startup sent" /\ pc' = [pc EXCEPT ![id] = "kk"]
                    /\ UNCHANGED esp
<1>0. /\ TypeOK /\ WokenInTurn /\ id \in Nat
      /\ pc \in [Cpu -> Places] /\ esp \in [Cpu -> Cpu \cup {tempStack, NoStack}]
  BY DEF Order, TypeOK
<1>1. CASE icr.to \notin machine.present
  BY <1>1, <1>0 DEF Deliver, TypeOK
<1>2. CASE icr.num = "INIT" /\ icr.to \in machine.present
  <2>1. /\ pc[0] = "INIT sent" /\ icr.to = id
        /\ pc' = [pc EXCEPT ![id] = "wait for startup"] /\ esp' = [esp EXCEPT ![id] = NoStack]
    BY <1>0, <1>2 DEF Deliver, WokenInTurn
  <2>2. CASE id \in Cpu
    <3>1. id # 0 /\ pc[id] \in Asleep
      <4>1. pc[0] \notin Early
        BY <2>1, PlacesList
      <4>2. id > 0
        BY <1>0, <4>1 DEF WokenInTurn
      <4>3. id # 0
        BY ONLY <1>0, <4>2
      <4> QED
        BY <1>0, <2>1, <2>2, <4>3 DEF WokenInTurn
    <3> QED
      BY <2>1, <2>2, <3>1
  <2>3. CASE id \notin Cpu
    <3>1. pc' = pc /\ esp' = esp
      BY <1>0, <2>1, <2>3
    <3> QED
      BY <3>1
  <2> QED
    BY <2>2, <2>3
<1>3. CASE icr.num = "startup" /\ icr.to \in machine.present
  <2>1. /\ pc[0] = "startup sent" /\ icr.to = id /\ esp' = esp
        /\ pc' = [pc EXCEPT ![id] = IF @ = "wait for startup" THEN "kk" ELSE @]
    BY <1>0, <1>3 DEF Deliver, WokenInTurn
  <2>2. CASE id \in Cpu
    <3>1. id # 0 /\ pc[id] \in Asleep
      <4>1. pc[0] \notin Early
        BY <2>1, PlacesList
      <4>2. id > 0
        BY <1>0, <4>1 DEF WokenInTurn
      <4>3. id # 0
        BY ONLY <1>0, <4>2
      <4> QED
        BY <1>0, <1>3, <2>2, <4>3 DEF WokenInTurn
    <3>2. CASE pc[id] = "wait for startup"
      BY <2>1, <2>2, <3>1, <3>2
    <3>3. CASE pc[id] # "wait for startup"
      <4>1. pc' = pc
        BY <1>0, <2>1, <3>3
      <4> QED
        BY <2>1, <4>1
    <3> QED
      BY <3>2, <3>3
  <2>3. CASE id \notin Cpu
    <3>1. pc' = pc
      BY <1>0, <2>1, <2>3
    <3> QED
      BY <2>1, <3>1
  <2> QED
    BY <2>2, <2>3
<1> QED
  BY <1>1, <1>2, <1>3 DEF Deliver

\* A processor changes its stack where mbr.S says so, and nowhere else.
LEMMA Stacks == Order /\ [Next]_vars => OwnStack'
<1> SUFFICES ASSUME Order, [Next]_vars PROVE OwnStack'
  OBVIOUS
<1>0. /\ TypeOK /\ OwnStack /\ SetUpOnce /\ smpInitDone \in BOOLEAN
      /\ pc \in [Cpu -> Places] /\ esp \in [Cpu -> Cpu \cup {tempStack, NoStack}]
  BY DEF Order, TypeOK
<1> DEFINE Stack(place, c) == IF place \in Asleep \cup Loading \cup {"kk"} THEN NoStack
                              ELSE IF place = "pick" THEN tempStack ELSE c
<1>1. ASSUME NEW c \in Cpu, NEW to, pc' = [pc EXCEPT ![c] = to], esp' = [esp EXCEPT ![c] = Stack(to, c)]
      PROVE  OwnStack'
  BY <1>0, <1>1 DEF OwnStack
<1>2. ASSUME NEW c \in Cpu, NEW to, pc' = [pc EXCEPT ![c] = to], esp' = esp,
             Stack(to, c) = Stack(pc[c], c)
      PROVE  OwnStack'
  BY <1>0, <1>2 DEF OwnStack
<1>3. ASSUME NEW c \in Cpu, Step(c) PROVE OwnStack'
  <2>1. CASE UseTempStack(c)
    <3>1. Stack("pick", c) = tempStack
      BY PlacesList
    <3> QED
      BY <1>1, <2>1, <3>1 DEF UseTempStack, GoTo
  <2>2. CASE PickKernelStack(c)
    <3>1. IF smpInitDone THEN TRUE ELSE c = 0
      BY <1>0, <2>2, PlacesList DEF PickKernelStack, GoTo, SetUpOnce
    <3>2. Stack("kernelInit", c) = c
      BY PlacesList
    <3>3. esp' = [esp EXCEPT ![c] = c]
      BY <2>2, <3>1 DEF PickKernelStack
    <3> QED
      BY <1>1, <2>2, <3>2, <3>3 DEF PickKernelStack, GoTo
  <2>3. CASE ~UseTempStack(c) /\ ~PickKernelStack(c)
    <3>1. CASE Load(c) \/ WhichInit(c) \/ Construct(c)
      BY <1>2, <3>1, PlacesList DEF Load, WhichInit, Construct, GoTo
    <3>2. CASE NewBarriers(c) \/ Interrupt(c) \/ FirstLapic(c) \/ Lapic(c) \/ Count(c)
      BY <1>2, <3>2, PlacesList DEF NewBarriers, Interrupt, FirstLapic, Lapic, Count, GoTo
    <3>3. CASE WakeOthers(c)
      BY <1>2, <3>3, PlacesList DEF WakeOthers, Wake, Startup, Delivered, Await, GoTo
    <3>4. CASE Arrive(c) \/ Start(c) \/ Leave(c) \/ End(c)
      BY <1>2, <3>4, PlacesList DEF Arrive, Start, Leave, End, GoTo
    <3> QED
      BY <1>3, <2>3, <3>1, <3>2, <3>3, <3>4 DEF Step, FirstInit
  <2> QED
    BY <2>1, <2>2, <2>3
<1>4. CASE Deliver
  <2>1. CASE UNCHANGED <<pc, esp>>
    BY <1>0, <2>1 DEF OwnStack
  <2>2. CASE id \in Cpu /\ pc' = [pc EXCEPT ![id] = "wait for startup"] /\ esp' = [esp EXCEPT ![id] = NoStack]
    <3>1. Stack("wait for startup", id) = NoStack
      BY PlacesList
    <3> QED
      BY <1>1, <2>2, <3>1
  <2>3. CASE id \in Cpu /\ pc[id] \in Asleep /\ pc' = [pc EXCEPT ![id] = "kk"] /\ esp' = esp
    <3>1. Stack("kk", id) = Stack(pc[id], id)
      BY <2>3
    <3> QED
      BY <1>2, <2>3, <3>1
  <2> QED
    BY <1>4, <2>1, <2>2, <2>3, DeliverAsleep
<1>5. CASE UNCHANGED vars
  BY <1>0, <1>5 DEF vars, OwnStack
<1> QED
  BY <1>3, <1>4, <1>5 DEF Next, AwaitSpin, Off

\* Each processor keeps to its branch of kernelInit().
LEMMA Branches == Order /\ [Next]_vars => SetUpOnce'
<1> SUFFICES ASSUME Order, [Next]_vars PROVE SetUpOnce'
  OBVIOUS
<1>0. SetUpOnce /\ pc \in [Cpu -> Places] /\ smpInitDone \in BOOLEAN
  BY DEF Order, TypeOK
<1> USE <1>0, BootFacts DEF SetUpOnce
<1>1. ASSUME NEW c \in Cpu, Step(c) PROVE SetUpOnce'
  <2> USE PlacesList DEF GoTo
  <2>1. CASE Load(c)
    BY <2>1 DEF Load
  <2>2. CASE UseTempStack(c)
    BY <2>2 DEF UseTempStack
  <2>14. CASE PickKernelStack(c)
    BY <2>14 DEF PickKernelStack
  <2>3. CASE WhichInit(c)
    BY <2>3 DEF WhichInit
  <2>4. CASE Construct(c)
    BY <2>4 DEF Construct
  <2>5. CASE NewBarriers(c)
    BY <2>5 DEF NewBarriers
  <2>6. CASE Interrupt(c)
    BY <2>6 DEF Interrupt
  <2>7. CASE FirstLapic(c)
    BY <2>7 DEF FirstLapic
  <2>8. CASE Count(c)
    BY <2>8 DEF Count
  <2>9. CASE Wake(c)
    <3>1. c = 0 /\ smpInitDone' = smpInitDone
      BY <2>9 DEF Wake
    <3>2. pc' = [pc EXCEPT ![0] = "INIT sent"] \/ pc' = [pc EXCEPT ![0] = "arrive"]
      BY <2>9, <3>1 DEF Wake
    <3>3. pc[0] = "wake"
      BY <2>9, <3>1 DEF Wake
    <3>4. CASE pc' = [pc EXCEPT ![0] = "INIT sent"]
      BY <3>1, <3>3, <3>4
    <3>5. CASE pc' = [pc EXCEPT ![0] = "arrive"]
      BY <3>1, <3>3, <3>5
    <3> QED
      BY <3>2, <3>4, <3>5
  <2>10. CASE Startup(c) \/ Delivered(c) \/ Await(c)
    <3>1. /\ pc[c] \in Waking /\ smpInitDone' = smpInitDone
          /\ \E to \in Waking : pc' = [pc EXCEPT ![c] = to]
      BY <2>10 DEF Startup, Delivered, Await
    <3>2. c = 0
      BY <3>1
    <3> QED
      BY <3>1, <3>2
  <2>11. CASE Lapic(c)
    BY <2>11 DEF Lapic
  <2>12. CASE Arrive(c) \/ Start(c) \/ Leave(c)
    <3>1. /\ pc[c] \in {"arrive", "starting", "kernelMain"} /\ smpInitDone' = smpInitDone
          /\ \E to \in {"starting", "kernelMain", "stopping"} : pc' = [pc EXCEPT ![c] = to]
      BY <2>12 DEF Arrive, Start, Leave
    <3> QED
      BY <3>1
  <2>13. CASE End(c)
    BY <2>13 DEF End
  <2> QED
    BY <1>1, <2>1, <2>2, <2>3, <2>4, <2>5, <2>6, <2>7, <2>8, <2>9, <2>10, <2>11, <2>12, <2>13, <2>14
       DEF Step, FirstInit, WakeOthers
<1>2. CASE Deliver
  <2>1. smpInitDone' = smpInitDone
    BY <1>2 DEF Deliver
  <2>2. CASE pc' = pc
    BY <2>1, <2>2
  <2>3. ASSUME NEW to \in {"wait for startup", "kk"}, id \in Cpu \ {0}, pc' = [pc EXCEPT ![id] = to],
               pc[0] \in {"INIT sent", "startup sent"}
        PROVE  SetUpOnce'
    BY <2>1, <2>3, PlacesList
  <2> QED
    BY <1>2, <2>2, <2>3, DeliverAsleep
<1>3. CASE UNCHANGED vars
  BY <1>3 DEF vars
<1> QED
  BY <1>1, <1>2, <1>3 DEF Next, AwaitSpin, Off

\* The gate is written by the first processor, before any local APIC is enabled.
LEMMA Gate == Order /\ [Next]_vars => GateFirst'
<1> SUFFICES ASSUME Order, [Next]_vars PROVE GateFirst'
  OBVIOUS
<1>0. GateFirst /\ SetUpOnce /\ pc \in [Cpu -> Places] /\ gate \in 0 .. 2
  BY DEF Order, TypeOK
<1> USE <1>0, BootFacts DEF GateFirst
<1>1. ASSUME NEW c \in Cpu, Step(c) PROVE GateFirst'
  <2> USE PlacesList DEF GoTo, setting
  <2>1. CASE Load(c)
    BY <2>1 DEF Load
  <2>10. CASE UseTempStack(c)
    BY <2>10 DEF UseTempStack
  <2>8. CASE PickKernelStack(c)
    BY <2>8 DEF PickKernelStack
  <2>9. CASE WhichInit(c)
    <3>1. CASE c # 0
      BY <2>9, <3>1 DEF WhichInit
    <3>2. CASE c = 0
      <4>1. pc[0] = "kernelInit" /\ ~smpInitDone
        BY <2>9, <3>2 DEF WhichInit, SetUpOnce
      <4> QED
        BY <2>9, <3>2, <4>1 DEF WhichInit
    <3> QED
      BY <3>1, <3>2
  <2>2. CASE Construct(c)
    BY <2>2 DEF Construct
  <2>11. CASE NewBarriers(c)
    BY <2>11 DEF NewBarriers
  <2>3. CASE Interrupt(c)
    <3>1. c = 0 /\ pc[0] = "gate" /\ gate' = gate + 1 /\ lapics' = lapics
      BY <2>3 DEF Interrupt, SetUpOnce
    <3>2. pc'[0] = IF gate' = 2 THEN "first lapic" ELSE "gate"
      BY <2>3, <3>1 DEF Interrupt
    <3>3. lapics = {}
      BY <3>1
    <3> QED
      BY <3>1, <3>2, <3>3
  <2>4. CASE FirstLapic(c)
    <3>1. c = 0 /\ gate' = gate
      BY <2>4 DEF FirstLapic, SetUpOnce, EnableLapic
    <3> QED
      BY <2>4, <3>1 DEF FirstLapic
  <2>5. CASE Lapic(c)
    <3>1. c # 0 /\ pc[0] \notin Early /\ gate' = gate
      BY <2>5 DEF Lapic, SetUpOnce, EnableLapic
    <3> QED
      BY <2>5, <3>1 DEF Lapic
  <2>6. CASE Count(c) \/ WakeOthers(c)
    BY <2>6 DEF Count, WakeOthers, Wake, Startup, Delivered, Await
  <2>7. CASE Arrive(c) \/ Start(c) \/ Leave(c) \/ End(c)
    BY <2>7 DEF Arrive, Start, Leave, End
  <2> QED
    BY <1>1, <2>1, <2>2, <2>3, <2>4, <2>5, <2>6, <2>7, <2>8, <2>9, <2>10, <2>11 DEF Step, FirstInit
<1>2. CASE Deliver
  <2>1. pc'[0] = pc[0]
    BY <1>2, DeliverAsleep
  <2> QED
    BY <1>2, <2>1 DEF Deliver, setting
<1>3. CASE UNCHANGED vars
  BY <1>3 DEF vars, setting
<1> QED
  BY <1>1, <1>2, <1>3 DEF Next, AwaitSpin, Off

\* The processors are woken in turn, and who waits is behind the one that is being woken.
LEMMA InTurn == Order /\ [Next]_vars => WokenInTurn'
<1> SUFFICES ASSUME Order, [Next]_vars PROVE WokenInTurn'
  OBVIOUS
<1>0. /\ WokenInTurn /\ SetUpOnce /\ pc \in [Cpu -> Places] /\ id \in Nat
  BY DEF Order, TypeOK
<1>a. /\ \A c \in Cpu \ {0} :
           /\ pc[0] \in Early \/ c > id => pc[c] = "off"
           /\ pc[0] \notin Early /\ c < id => pc[c] \notin Asleep \cup Early
      /\ pc[0] \notin Early => id > 0
      /\ id \in Cpu \ {0} =>
            /\ pc[0] \notin {"INIT sent", "startup sent", "await"} => pc[id] = "off"
            /\ pc[0] = "INIT sent" \/ icr.num = "startup" => pc[id] \in Asleep
      /\ icr.num = "INIT" => pc[0] = "INIT sent" /\ icr.to = id
      /\ icr.num = "startup" => pc[0] = "startup sent" /\ icr.to = id
  BY <1>0 DEF WokenInTurn, Counted
<1>b. \A c, d \in Cpu : c > d \/ c = d \/ c < d
  BY BootFacts
<1>1. ASSUME NEW c \in Cpu \ {0}, NEW to, pc[c] \notin Asleep, to \notin Asleep,
             pc[c] \in Early \/ to \notin Early,
             pc' = [pc EXCEPT ![c] = to], icr' = icr, id' = id
      PROVE  WokenInTurn'
  <2>1. pc[c] # "off" /\ pc'[0] = pc[0] /\ pc[0] \notin Early /\ ~(c > id)
    BY <1>0, <1>a, <1>1, BootFacts, PlacesList
  <2>2. ASSUME NEW d \in Cpu \ {0}
        PROVE  /\ d > id => pc'[d] = "off"
               /\ d < id => pc'[d] \notin Asleep \cup Early
    BY <1>0, <1>a, <1>1, <2>1
  <2>3. ASSUME id \in Cpu \ {0}
        PROVE  /\ pc[0] \notin {"INIT sent", "startup sent", "await"} => pc'[id] = "off"
               /\ pc[0] = "INIT sent" \/ icr.num = "startup" => pc'[id] \in Asleep
    BY <1>0, <1>a, <1>1, <2>1, <2>3
  <2> QED
    BY <1>a, <1>1, <2>1, <2>2, <2>3 DEF WokenInTurn, Counted
<1>2. ASSUME NEW c \in Cpu \ {0}, Step(c) PROVE WokenInTurn'
  <2> USE PlacesList DEF GoTo
  <2>1. CASE Load(c) \/ FirstInit(c) \/ WakeOthers(c)
    BY <1>0, <1>2, <2>1
       DEF Load, FirstInit, Construct, NewBarriers, Interrupt, FirstLapic, WakeOthers, Wake, Startup,
           Delivered, Await, SetUpOnce
  <2>2. CASE UseTempStack(c) \/ PickKernelStack(c)
    BY <1>1, <1>2, <2>2 DEF UseTempStack, PickKernelStack
  <2>3. CASE WhichInit(c)
    <3>1. pc[c] = "kernelInit" /\ pc' = [pc EXCEPT ![c] = "join"] /\ icr' = icr /\ id' = id
      <4>1. pc[c] = "kernelInit" /\ "kernelInit" \notin Asleep
        BY <2>3, PlacesList DEF WhichInit
      <4>2. smpInitDone
        BY <1>0, <4>1 DEF SetUpOnce
      <4> QED
        BY <2>3, <4>1, <4>2 DEF WhichInit
    <3>2. {"kernelInit", "join"} \subseteq Early \ Asleep
      BY PlacesList
    <3> HIDE PlacesList
    <3> QED
      BY <1>1, <3>1, <3>2
  <2>4. CASE Count(c) \/ Lapic(c)
    <3>1. pc[c] # "count"
      BY <1>0, <1>2 DEF SetUpOnce
    <3>2. /\ pc[c] \in {"join", "lapic"} /\ icr' = icr /\ id' = id
          /\ \E to \in {"lapic", "arrive"} : pc' = [pc EXCEPT ![c] = to]
      BY <2>4, <3>1 DEF Count, Lapic
    <3> QED
      BY <1>1, <3>2
  <2>5. CASE Arrive(c) \/ Start(c) \/ Leave(c) \/ End(c)
    BY <1>1, <1>2, <2>5 DEF Arrive, Start, Leave, End
  <2> QED
    BY <1>2, <2>1, <2>2, <2>3, <2>4, <2>5 DEF Step
<1>c. /\ pc[0] \notin Asleep \cup {"join", "lapic", "hlt"} /\ 0 \in Cpu
      /\ \A c \in Cpu \ {0} : pc[0] \in Early => pc[c] = "off"
      /\ id \in Cpu \ {0} /\ pc[0] \in Early => pc[id] = "off"
  BY <1>0, <1>a, BootFacts DEF SetUpOnce
<1>3. ASSUME NEW to \in Early, pc[0] \in Early, pc' = [pc EXCEPT ![0] = to], icr' = icr, id' = id
      PROVE  WokenInTurn'
  <2>1. pc'[0] \in Early /\ \A c \in Cpu \ {0} : pc'[c] = pc[c]
    BY <1>0, <1>3, <1>c
  <2>2. icr.num # "INIT" /\ icr.num # "startup"
    BY <1>a, <1>3, PlacesList
  <2>3. \A c \in Cpu \ {0} : pc'[c] = "off"
    BY <1>c, <1>3, <2>1
  <2> QED
    <3>1. pc'[0] # "INIT sent" /\ icr'.num # "INIT" /\ icr'.num # "startup"
      <4>1. "INIT sent" \notin Early
        BY PlacesList
      <4> QED
        BY <1>3, <2>1, <2>2, <4>1
    <3>2. \A c \in Cpu \ {0} : pc'[0] \notin Early /\ c < id' => c \in Counted'
      BY <2>1
    <3>3. id' \in Cpu \ {0} => pc'[id'] = "off"
      BY <2>3
    <3>4. /\ pc'[0] \in Early \/ ~(id' > 0) => \A c \in Cpu \ {0} : pc'[c] = "off"
          /\ pc'[0] \notin Early => id' > 0
      BY <2>1, <2>3
    <3> QED
      BY <2>3, <3>1, <3>2, <3>3, <3>4 DEF WokenInTurn
<1>4. ASSUME NEW to, to \notin Early, pc[0] \notin Early, pc' = [pc EXCEPT ![0] = to], id' = id,
             \/ icr' = icr /\ icr.num = "none" /\ pc[0] # "INIT sent"
                /\ to # "INIT sent"
                /\ (to \in {"startup sent", "await"} \/ pc[0] \notin {"startup sent", "await"})
             \/ icr' = [to |-> id, num |-> "INIT"] /\ pc[0] = "wake" /\ to = "INIT sent"
             \/ icr' = [to |-> id, num |-> "startup"] /\ pc[0] = "INIT sent" /\ to = "startup sent"
      PROVE  WokenInTurn'
  <2>1. pc'[0] = to /\ \A c \in Cpu \ {0} : pc'[c] = pc[c]
    BY <1>0, <1>4, <1>c
  <2>2. \A c \in Cpu \ {0} : (c > id => pc'[c] = "off") /\ (c < id => pc'[c] \notin Asleep \cup Early)
    BY <1>a, <1>4, <2>1
  <2>3. id \in Cpu \ {0} =>
           /\ to \notin {"INIT sent", "startup sent", "await"} => pc[id] = "off"
           /\ to = "INIT sent" \/ icr'.num = "startup" => pc[id] \in Asleep
    BY <1>a, <1>4, PlacesList
  <2>4. /\ icr'.num = "INIT" => to = "INIT sent" /\ icr'.to = id
        /\ icr'.num = "startup" => to = "startup sent" /\ icr'.to = id
    <3>1. CASE icr' = icr /\ icr.num = "none"
      BY <3>1
    <3>2. CASE icr' = [to |-> id, num |-> "INIT"] /\ to = "INIT sent"
      BY <3>2
    <3>3. CASE icr' = [to |-> id, num |-> "startup"] /\ to = "startup sent"
      BY <3>3
    <3> QED
      BY <1>4, <3>1, <3>2, <3>3
  <2> QED
    BY <1>a, <1>4, <2>1, <2>2, <2>3, <2>4 DEF WokenInTurn, Counted
<1>d. /\ icr.num \in {"none", "INIT", "startup"}
      /\ pc[0] \notin {"INIT sent", "startup sent"} => icr.num = "none"
  BY <1>a DEF Order, TypeOK
<1>5. ASSUME Step(0) PROVE WokenInTurn'
  <2> USE DEF GoTo
  <2>1. CASE Load(0) \/ UseTempStack(0) \/ PickKernelStack(0) \/ WhichInit(0)
    BY <1>3, <1>c, <2>1, PlacesList DEF Load, UseTempStack, PickKernelStack, WhichInit
  <2>2. CASE Construct(0) \/ NewBarriers(0) \/ Interrupt(0) \/ FirstLapic(0)
    BY <1>3, <1>c, <2>2, PlacesList DEF Construct, NewBarriers, Interrupt, FirstLapic
  <2>3. CASE Count(0)
    <3>1. /\ pc[0] = "count" /\ pc' = [pc EXCEPT ![0] = "wake"] /\ id' = 1 /\ icr' = icr
      BY <1>c, <2>3 DEF Count
    <3>2. icr.num = "none" /\ pc[0] \in Early
      BY <1>d, <3>1, PlacesList
    <3>3. \A c \in Cpu \ {0} : pc'[c] = "off" /\ ~(c < 1)
      BY <1>0, <1>c, <3>1, <3>2, BootFacts
    <3>4. pc'[0] = "wake" /\ "wake" \notin Early
      BY <1>0, <1>c, <3>1, PlacesList
    <3>5. icr'.num # "INIT" /\ icr'.num # "startup" /\ id' > 0
      BY <3>1, <3>2
    <3>6. \A c \in Cpu \ {0} : pc'[c] = "off" /\ (c < id' => c \in Counted')
      BY <3>1, <3>3
    <3>7. id' \in Cpu \ {0} => pc'[id'] = "off"
      BY <3>3
    <3> QED
      BY <3>4, <3>5, <3>6, <3>7 DEF WokenInTurn
  <2>4. CASE Wake(0)
    BY <1>4, <1>d, <2>4, PlacesList DEF Wake
  <2>5. CASE Startup(0)
    <3>1. /\ pc[0] = "INIT sent" /\ pc' = [pc EXCEPT ![0] = "startup sent"] /\ id' = id
          /\ icr' = [to |-> id, num |-> "startup"]
      BY <2>5 DEF Startup
    <3>2. "INIT sent" \notin Early /\ "startup sent" \notin Early
      BY PlacesList
    <3> QED
      BY <1>4, <3>1, <3>2
  <2>6. CASE Delivered(0)
    <3>1. /\ pc[0] = "startup sent" /\ pc' = [pc EXCEPT ![0] = "await"] /\ id' = id
          /\ icr' = icr /\ icr.num = "none"
      BY <2>6 DEF Delivered
    <3>2. "await" \notin Early /\ "startup sent" \notin Early
      BY PlacesList
    <3> QED
      BY <1>4, <3>1, <3>2
  <2>7. CASE Await(0)
    <3>1. /\ pc[0] = "await" /\ pc' = [pc EXCEPT ![0] = "wake"] /\ id' = id + 1 /\ icr' = icr
          /\ running > id
      BY <2>7 DEF Await
    <3>2. icr.num = "none" /\ pc[0] \notin Early
      BY <1>d, <3>1, PlacesList
    <3>3. id \in Cpu \ {0} => pc[id] \notin Asleep \cup Early
      <4>1. SUFFICES ASSUME id \in Cpu \ {0}, pc[id] \in Asleep \cup Early PROVE FALSE
        OBVIOUS
      <4>2. Counted \subseteq 0 .. id - 1
        <5> SUFFICES ASSUME NEW c \in Counted PROVE c \in 0 .. id - 1
          OBVIOUS
        <5>1. c \in Cpu /\ c \in Nat /\ pc[c] \notin Asleep \cup Early /\ "off" \in Asleep
          BY BootFacts, PlacesList DEF Counted
        <5>2. c # 0 => ~(c > id) /\ c # id
          BY <1>a, <4>1, <5>1
        <5>3. id > 0
          BY <1>a, <3>2
        <5> QED
          BY <1>0, <5>1, <5>2, <5>3
      <4>3. Cardinality(Counted) <= id
        <5>1. IsFiniteSet(0 .. id - 1) /\ Cardinality(0 .. id - 1) = id
          BY <1>0, FS_Interval
        <5> QED
          BY <4>2, <5>1, FS_Subset
      <4>4. running = Cardinality(Counted) /\ running \in Nat
        BY DEF Order, TypeOK, RunningExact
      <4> QED
        BY <1>0, <3>1, <4>3, <4>4
    <3>4. pc'[0] = "wake" /\ "wake" \notin Early /\ \A c \in Cpu \ {0} : pc'[c] = pc[c]
      BY <1>0, <1>c, <3>1, PlacesList
    <3>5. \A c \in Cpu \ {0} :
             /\ c > id' => pc'[c] = "off"
             /\ c < id' => pc'[c] \notin Asleep \cup Early
      <4> TAKE c \in Cpu \ {0}
      <4>1. c \in Nat /\ id' = id + 1
        BY <3>1, BootFacts
      <4>2. (c > id' => c > id) /\ (c < id' => c < id \/ c = id)
        BY <1>0, <4>1
      <4> QED
        BY <1>a, <3>2, <3>3, <3>4, <4>2
    <3>6. id' > 0 /\ (id' \in Cpu \ {0} => pc'[id'] = "off")
      <4>1. id' > 0 /\ id' > id
        BY <1>0, <3>1
      <4> QED
        BY <1>a, <3>4, <4>1
    <3> QED
      BY <3>1, <3>2, <3>4, <3>5, <3>6 DEF WokenInTurn, Counted
  <2>8. CASE Lapic(0)
    BY <1>c, <2>8 DEF Lapic
  <2>9. CASE Arrive(0) \/ Start(0) \/ Leave(0)
    BY <1>4, <1>d, <2>9, PlacesList DEF Arrive, Start, Leave
  <2>10. CASE End(0)
    <3>1. /\ pc[0] = "stopping" /\ pc' = [pc EXCEPT ![0] = "shutdown"] /\ id' = id /\ icr' = icr
      BY <2>10 DEF End
    <3>2. "stopping" \notin Early /\ "shutdown" \notin Early
      BY PlacesList
    <3> QED
      BY <1>4, <1>d, <3>1, <3>2
  <2> QED
    BY <1>5, <2>1, <2>2, <2>3, <2>4, <2>5, <2>6, <2>7, <2>8, <2>9, <2>10 DEF Step, FirstInit, WakeOthers
<1>6. CASE Deliver
  <2>1. id' = id /\ icr' = NoIpi /\ icr'.num = "none"
    BY <1>6 DEF Deliver, NoIpi
  <2>2. CASE pc' = pc
    BY <1>a, <2>1, <2>2 DEF WokenInTurn, Counted
  <2>3. ASSUME NEW to, id \in Cpu \ {0}, pc' = [pc EXCEPT ![id] = to], pc[id] \in Asleep,
               \/ pc[0] = "INIT sent" /\ to = "wait for startup"
               \/ pc[0] = "startup sent" /\ to = "kk"
        PROVE  WokenInTurn'
    <3>1. pc'[0] = pc[0] /\ pc'[id] = to /\ \A c \in Cpu \ {0, id} : pc'[c] = pc[c]
      BY <1>0, <1>c, <2>3
    <3>2. pc[0] \notin Early
      BY <2>3, PlacesList
    <3>3. \A c \in Cpu \ {0} : (c > id \/ c < id) => c # id
      BY <1>0, BootFacts
    <3>4. \A c \in Cpu \ {0} : (c > id => pc'[c] = "off") /\ (c < id => pc'[c] \notin Asleep \cup Early)
      BY <1>a, <3>1, <3>2, <3>3
    <3>5. to = "wait for startup" => to \in Asleep
      BY PlacesList
    <3> QED
      BY <1>a, <2>1, <2>3, <3>1, <3>2, <3>4, <3>5 DEF WokenInTurn, Counted
  <2> QED
    BY <1>6, <2>2, <2>3, DeliverAsleep
<1>7. CASE UNCHANGED vars
  BY <1>a, <1>7 DEF vars, WokenInTurn, Counted
<1> QED
  BY <1>2, <1>5, <1>6, <1>7 DEF Next, AwaitSpin, Off

\* A word that does not overflow, and one that does.
LEMMA Small == ASSUME NEW w \in Nat, NEW n \in 0 .. w - 1 PROVE n % w = n
OBVIOUS

\* A counter that reaches its width is zero.
LEMMA Wraps == ASSUME NEW w \in Nat, w > 0 PROVE w % w = 0
OBVIOUS

\* What the loop of the boot sector has read stays in its place.
LEMMA Sectors == Order /\ [Next]_vars => SectorsInPlace'
<1> SUFFICES ASSUME Order, [Next]_vars, machine'.sectors \in Image .. CountWord - 1
             PROVE  /\ pc'[0] = "mbr" =>
                         /\ bp' > 0 /\ cx' > 0 /\ cx' + bp' = machine'.sectors + 1
                         /\ di' = First - 1 + bp' \/ (di' = 0 /\ First - 1 + bp' = Pieces)
                         /\ \A s \in 0 .. Image - 1 : s < bp' => memory'[First - 1 + s] = s
                    /\ pc'[0] \notin Loading => Loaded'
  BY DEF SectorsInPlace
<1>0. /\ machine \in Machines
      /\ cx \in 0 .. CountWord - 1 /\ di \in 0 .. Pieces - 1 /\ bp \in 0 .. CountWord - 1
      /\ memory \in [0 .. Pieces - 1 -> Int]
      /\ pc \in [Cpu -> Places] /\ SetUpOnce /\ SectorsInPlace /\ 0 \in Cpu
  BY BootFacts DEF Order, TypeOK
<1>1. machine' = machine /\ machine.sectors \in Image .. CountWord - 1
  <2>1. CASE Next
    <3>1. ASSUME NEW c \in Cpu, Step(c) PROVE machine' = machine
      <4> USE DEF setting
      <4>1. CASE Load(c) \/ UseTempStack(c) \/ PickKernelStack(c) \/ WhichInit(c) \/ FirstInit(c)
        BY <4>1 DEF Load, UseTempStack, PickKernelStack, WhichInit, FirstInit, Construct, NewBarriers,
                    Interrupt, FirstLapic, EnableLapic
      <4>2. CASE Count(c) \/ WakeOthers(c) \/ Lapic(c)
        BY <4>2 DEF Count, WakeOthers, Wake, Startup, Delivered, Await, Lapic, EnableLapic
      <4>3. CASE Arrive(c) \/ Start(c) \/ Leave(c) \/ End(c)
        BY <4>3 DEF Arrive, Start, Leave, End
      <4> QED
        BY <3>1, <4>1, <4>2, <4>3 DEF Step
    <3> QED
      BY <2>1, <3>1 DEF Next, AwaitSpin, Deliver, Off, vars, setting
  <2>2. CASE UNCHANGED vars
    BY <2>2 DEF vars, setting
  <2> QED
    BY <2>1, <2>2
<1>2. /\ pc[0] = "mbr" =>
           /\ bp > 0 /\ cx > 0 /\ cx + bp = machine.sectors + 1
           /\ di = First - 1 + bp \/ (di = 0 /\ First - 1 + bp = Pieces)
           /\ \A s \in 0 .. Image - 1 : s < bp => memory[First - 1 + s] = s
      /\ pc[0] \notin Loading => Loaded
  BY <1>0, <1>1 DEF SectorsInPlace
<1>3. ASSUME loader' = loader, pc'[0] = pc[0] \/ (pc[0] \notin Loading /\ pc'[0] \notin Loading)
      PROVE  /\ pc'[0] = "mbr" =>
                  /\ bp' > 0 /\ cx' > 0 /\ cx' + bp' = machine'.sectors + 1
                  /\ di' = First - 1 + bp' \/ (di' = 0 /\ First - 1 + bp' = Pieces)
                  /\ \A s \in 0 .. Image - 1 : s < bp' => memory'[First - 1 + s] = s
             /\ pc'[0] \notin Loading => Loaded'
  <2>1. cx' = cx /\ di' = di /\ bp' = bp /\ memory' = memory
    BY <1>3 DEF loader
  <2>2. Loaded' = Loaded
    BY <2>1 DEF Loaded
  <2>3. "mbr" \in Loading
    BY PlacesList
  <2> QED
    BY <1>1, <1>2, <1>3, <2>1, <2>2, <2>3
<1>4. ASSUME Load(0)
      PROVE  /\ pc'[0] = "mbr" =>
                  /\ bp' > 0 /\ cx' > 0 /\ cx' + bp' = machine'.sectors + 1
                  /\ di' = First - 1 + bp' \/ (di' = 0 /\ First - 1 + bp' = Pieces)
                  /\ \A s \in 0 .. Image - 1 : s < bp' => memory'[First - 1 + s] = s
             /\ pc'[0] \notin Loading => Loaded'
  <2>0. pc[0] = "mbr"
    BY <1>4 DEF Load
  <2>1. CASE LastSector
    <3>1. pc'[0] = "kk" /\ memory' = memory
      BY <1>0, <1>4, <2>1 DEF Load, loader
    <3>2. cx = 1
      <4>1. (cx - 1) % CountWord = 0 /\ cx > 0
        BY <1>2, <2>0, <2>1 DEF LastSector
      <4>2. (cx - 1) % CountWord = cx - 1
        <5>1. CountWord \in Nat /\ cx - 1 \in 0 .. CountWord - 1
          BY <1>0, <4>1, LoaderFacts
        <5> QED
          BY ONLY <5>1, Small
      <4> QED
        BY <1>0, <4>1, <4>2
    <3>3. bp >= Image
      BY <1>0, <1>1, <1>2, <2>0, <3>2, LoaderFacts
    <3>4. Loaded
      BY <1>0, <1>2, <2>0, <3>3, LoaderFacts DEF Loaded
    <3>5. Loaded'
      BY <3>1, <3>4 DEF Loaded
    <3> QED
      BY <3>1, <3>5
  <2>2. CASE ~LastSector
    <3>1. ReadSector /\ pc'[0] = IF Wrapped THEN "lost" ELSE "mbr"
      BY <1>0, <1>4, <2>2 DEF Load
    <3>2. CASE Wrapped
      BY <3>1, <3>2, PlacesList
    <3>3. CASE ~Wrapped
      <4>1. /\ bp > 0 /\ cx > 0 /\ cx + bp = machine.sectors + 1 /\ machine.sectors < CountWord
            /\ di = First - 1 + bp \/ di = 0
        BY <1>0, <1>1, <1>2, <2>0, LoaderFacts
      <4>a. di = First - 1 + bp
        BY <1>0, <3>3, <4>1, LoaderFacts DEF Wrapped
      <4>b. (cx - 1) % CountWord = cx - 1 /\ cx > 1
        <5>1. (cx - 1) % CountWord # 0
          BY <2>2 DEF LastSector
        <5>2. (cx - 1) % CountWord = cx - 1
          <6>1. CountWord \in Nat /\ cx - 1 \in 0 .. CountWord - 1
            BY <1>0, <4>1, LoaderFacts
          <6> QED
            BY ONLY <6>1, Small
        <5> QED
          BY <1>0, <4>1, <5>1, <5>2
      <4>2. cx' = cx - 1 /\ cx' > 0
        BY <1>0, <3>1, <4>b DEF ReadSector
      <4>3. bp' = bp + 1
        <5>1. CountWord \in Nat /\ bp + 1 \in 0 .. CountWord - 1
          BY <1>0, <4>1, <4>b, LoaderFacts
        <5>2. bp' = (bp + 1) % CountWord
          BY <3>1 DEF ReadSector
        <5> QED
          BY ONLY <5>1, <5>2, Small
      <4>4. di' = First - 1 + bp' \/ (di' = 0 /\ First - 1 + bp' = Pieces)
        <5>1. di' = (di + 1) % Pieces
          BY <3>1 DEF ReadSector
        <5>2. CASE di + 1 < Pieces
          <6>1. di' = di + 1
            <7>1. Pieces \in Nat /\ di + 1 \in 0 .. Pieces - 1
              BY <1>0, <5>2, LoaderFacts
            <7> QED
              BY ONLY <5>1, <7>1, Small
          <6> QED
            BY <1>0, <4>a, <4>3, <6>1, LoaderFacts
        <5>3. CASE di + 1 = Pieces
          <6>1. di' = 0
            <7>1. Pieces \in Nat /\ Pieces > 0
              BY LoaderFacts
            <7> QED
              BY ONLY <5>1, <5>3, <7>1, Wraps
          <6> QED
            BY <1>0, <4>a, <4>3, <5>3, <6>1, LoaderFacts
        <5> QED
          BY <1>0, <5>2, <5>3, LoaderFacts
      <4>5. ASSUME NEW s \in 0 .. Image - 1, s < bp'
            PROVE  memory'[First - 1 + s] = s
        <5>1. memory' = IF di < Ram THEN [memory EXCEPT ![di] = bp] ELSE memory
          BY <3>1 DEF ReadSector
        <5>2. First - 1 + s < Ram /\ First - 1 + s \in 0 .. Pieces - 1
          BY LoaderFacts
        <5>3. CASE s = bp
          BY <1>0, <4>a, <5>1, <5>2, <5>3
        <5>4. CASE s < bp
          <6>1. First - 1 + s # di
            BY <1>0, <4>a, <5>4, LoaderFacts
          <6>2. memory[First - 1 + s] = s
            BY <1>2, <2>0, <5>4
          <6> QED
            BY <1>0, <5>1, <5>2, <6>1, <6>2
        <5> QED
          BY <1>0, <4>3, <4>5, <5>3, <5>4
      <4>6. cx' + bp' = machine'.sectors + 1 /\ bp' > 0
        BY <1>0, <1>1, <1>2, <2>0, <4>1, <4>2, <4>3
      <4>7. pc'[0] = "mbr" /\ "mbr" \in Loading
        BY <3>1, <3>3, PlacesList
      <4> QED
        BY <4>2, <4>4, <4>5, <4>6, <4>7
    <3> QED
      BY <3>2, <3>3
  <2> QED
    BY <2>1, <2>2
<1>5. ASSUME NEW c \in Cpu, Step(c), c # 0 \/ ~Load(c)
      PROVE  loader' = loader /\ (pc'[0] = pc[0] \/ (pc[0] \notin Loading /\ pc'[0] \notin Loading))
  <2> USE <1>0, <1>5 DEF setting, GoTo
  <2>1. CASE Load(c)
    BY <2>1, PlacesList DEF Load, SetUpOnce
  <2>2. CASE UseTempStack(c) \/ PickKernelStack(c) \/ WhichInit(c)
    BY <2>2, PlacesList DEF UseTempStack, PickKernelStack, WhichInit
  <2>3. CASE Construct(c) \/ NewBarriers(c) \/ Interrupt(c) \/ FirstLapic(c) \/ Lapic(c)
    BY <2>3, PlacesList DEF Construct, NewBarriers, Interrupt, FirstLapic, Lapic, EnableLapic
  <2>4. CASE Count(c) \/ WakeOthers(c)
    BY <2>4, PlacesList DEF Count, WakeOthers, Wake, Startup, Delivered, Await
  <2>5. CASE Arrive(c) \/ Start(c) \/ Leave(c)
    BY <2>5, PlacesList DEF Arrive, Start, Leave
  <2>6. CASE End(c)
    BY <2>6, PlacesList DEF End
  <2> QED
    BY <2>1, <2>2, <2>3, <2>4, <2>5, <2>6 DEF Step, FirstInit
<1>6. CASE Deliver
  <2>1. pc'[0] = pc[0]
    BY <1>0, <1>6, DeliverAsleep
  <2> QED
    BY <1>3, <1>6, <2>1 DEF Deliver, setting
<1>7. CASE UNCHANGED vars
  BY <1>3, <1>7 DEF vars, setting
<1> QED
  BY <1>3, <1>4, <1>5, <1>6, <1>7 DEF Next, AwaitSpin, Off

\* SMP::running counts those behind their fetch_add, and stays below the width of a counter.
LEMMA Running ==
    ASSUME Order, [Next]_vars
    PROVE  TypeOK' /\ RunningExact'
<1>0. TypeOK /\ RunningExact /\ pc \in [Cpu -> Places]
  BY DEF Order, TypeOK
<1>1. ASSUME NEW c \in Cpu, Count(c) PROVE TypeOK' /\ RunningExact'
  <2>1. running' \in 0 .. N /\ running' = Cardinality(Counted')
    BY <1>1, CountStep
  <2>2. pc' \in [Cpu -> Places]
    BY <1>0, <1>1, PlacesList DEF Count, GoTo
  <2>3. id' \in Nat
    BY <1>0, <1>1 DEF Count, TypeOK
  <2>4. UNCHANGED <<setting, smpInitDone, icr, esp>>
    BY <1>1 DEF Count
  <2> QED
    BY <1>0, <2>1, <2>2, <2>3, <2>4 DEF TypeOK, RunningExact, setting, loader
<1>2. ASSUME NEW c \in Cpu, Step(c), ~Count(c) PROVE TypeOK' /\ RunningExact'
  BY <1>0, <1>2, StepTypes, Uncounted DEF RunningExact
<1>3. CASE Deliver
  <2>1. Counted' = Counted
    <3>1. CASE pc' = pc
      BY <3>1 DEF Counted
    <3>2. ASSUME NEW to \in {"wait for startup", "kk"}, id \in Cpu \ {0}, pc[id] \in Asleep,
                 pc' = [pc EXCEPT ![id] = to]
          PROVE  Counted' = Counted
      <4>1. to \in Asleep \cup Early
        BY PlacesList
      <4> QED
        BY <1>0, <3>2, <4>1 DEF Counted
    <3> QED
      BY <1>3, <3>1, <3>2, DeliverAsleep
  <2> QED
    BY <1>0, <1>3, <2>1, DeliverTypes DEF Deliver, RunningExact
<1>4. CASE UNCHANGED vars
  BY <1>0, <1>4 DEF vars, setting, loader, TypeOK, RunningExact, Counted
<1> QED
  BY <1>1, <1>2, <1>3, <1>4 DEF Next, AwaitSpin, Off

\* Every step keeps the order of the boot, part by part.
LEMMA OrderStep == Order /\ [Next]_vars => Order'
BY Running, Stacks, Branches, InTurn, Gate, Sectors DEF Order

\* At power on only processor 0 runs, at the boot sector.
LEMMA OrderInit == Init => Order
<1> SUFFICES ASSUME Init PROVE Order
  OBVIOUS
<1> USE BootFacts, LoaderFacts DEF Init
<1>1. pc \in [Cpu -> Places] /\ pc[0] = "mbr" /\ \A c \in Cpu \ {0} : pc[c] = "off"
  BY PlacesList
<1>2. TypeOK
  <2>1. cx \in 0 .. CountWord - 1 /\ di \in 0 .. Pieces - 1 /\ bp \in 0 .. CountWord - 1
    BY DEF LoaderInit
  <2>2. memory \in [0 .. Pieces - 1 -> Int]
    BY DEF LoaderInit
  <2>3. icr \in [to : Nat, num : {"none", "INIT", "startup"}]
    BY DEF NoIpi
  <2> QED
    <3>1. /\ machine \in Machines /\ gate \in 0 .. 2 /\ lapics \subseteq Cpu /\ running \in 0 .. N
          /\ smpInitDone \in BOOLEAN /\ id \in Nat
      OBVIOUS
    <3>2. esp \in [Cpu -> Cpu \cup {tempStack, NoStack}]
      OBVIOUS
    <3> QED
      BY <1>1, <2>1, <2>2, <2>3, <3>1, <3>2 DEF TypeOK
<1>3. OwnStack
  BY <1>1, PlacesList DEF OwnStack
<1>4. RunningExact
  <2>1. Counted = {}
    BY <1>1, PlacesList DEF Counted
  <2> QED
    BY <2>1, FS_EmptySet DEF RunningExact
<1>5. SetUpOnce
  BY <1>1, PlacesList DEF SetUpOnce
<1>6. WokenInTurn
  <2>1. icr.num = "none"
    BY DEF NoIpi
  <2>2. "mbr" \in Early
    BY PlacesList
  <2> QED
    BY <1>1, <2>1, <2>2 DEF WokenInTurn
<1>7. GateFirst
  <2>1. "mbr" \in Unmade /\ gate = 0 /\ lapics = {}
    BY PlacesList
  <2> QED
    BY <1>1, <2>1 DEF GateFirst
<1>8. SectorsInPlace
  <2> SUFFICES ASSUME machine.sectors \in Image .. CountWord - 1
               PROVE  /\ bp > 0 /\ cx > 0 /\ cx + bp = machine.sectors + 1
                      /\ di = First - 1 + bp
                      /\ \A s \in 0 .. Image - 1 : s < bp => memory[First - 1 + s] = s
    BY <1>1, PlacesList DEF SectorsInPlace
  <2>1. cx = machine.sectors
    <3>1. CountWord \in Nat /\ machine.sectors \in 0 .. CountWord - 1
      OBVIOUS
    <3>2. cx = machine.sectors % CountWord
      BY DEF LoaderInit
    <3> QED
      BY ONLY <3>1, <3>2, Small
  <2>2. bp = 1 /\ di = First
    BY DEF LoaderInit
  <2>3. memory[First - 1 + 0] = 0
    BY DEF LoaderInit
  <2>4. \A s \in 0 .. Image - 1 : s < bp => s = 0
    BY <2>2
  <2> QED
    BY <2>1, <2>2, <2>3, <2>4
<1> QED
  BY <1>2, <1>3, <1>4, <1>5, <1>6, <1>7, <1>8 DEF Order

\* Whatever the tables of the firmware say, and whoever is missing: the processors take
\* their branches of kernelInit(), are woken in turn and count themselves once.
THEOREM Ordered == SafeSpec => []Order
<1>1. Init => Order
  BY OrderInit
<1>2. Order /\ [Next]_vars => Order'
  BY OrderStep
<1> QED
  BY <1>1, <1>2, PTL DEF SafeSpec

\* No two processors are ever on one stack: between the two instructions in which mbr.S
\* uses tempStack there is only the one that is being woken.
THEOREM StacksApart == SafeSpec => []NoSharedStack
<1>1. Order => NoSharedStack
  <2> SUFFICES ASSUME Order, NEW c \in Cpu, NEW d \in Cpu, c # d, esp[c] = esp[d], esp[c] # NoStack
               PROVE  FALSE
    BY DEF NoSharedStack
  <2>0. OwnStack /\ SetUpOnce /\ WokenInTurn /\ id \in Nat
    BY DEF Order, TypeOK
  <2>1. pc[c] = "pick" /\ pc[d] = "pick" /\ esp[c] = tempStack
    <3>1. \A e \in {c, d} : esp[e] = IF pc[e] = "pick" THEN tempStack ELSE e
      BY <2>0 DEF OwnStack
    <3> QED
      BY <3>1, StackAssumption DEF StackAssumption
  <2>2. \A e \in Cpu : pc[e] = "pick" => e = 0 \/ e = id
    <3> SUFFICES ASSUME NEW e \in Cpu \ {0}, pc[e] = "pick", e # id PROVE FALSE
      OBVIOUS
    <3>1. "pick" \in Early /\ "pick" \notin Asleep /\ "off" \in Asleep
      BY PlacesList
    <3>2. pc[0] \notin Early
      BY <2>0, <3>1 DEF SetUpOnce
    <3>3. ~(e > id) /\ ~(e < id)
      BY <2>0, <3>1, <3>2 DEF WokenInTurn, Counted
    <3> QED
      BY <2>0, <3>3, BootFacts
  <2>3. ASSUME pc[0] = "pick" PROVE \A e \in Cpu \ {0} : pc[e] # "pick"
    BY <2>0, <2>3, PlacesList DEF SetUpOnce
  <2> QED
    BY <2>1, <2>2, <2>3
<1> QED
  BY <1>1, Ordered, PTL

\* The boot sector jumps to a kernel that is in its place, on every drive whose number
\* of sectors fits into 16 bits, and no processor is ever started on another one.
THEOREM ImagePlaced == SafeSpec => []ImageLoaded
<1>1. Order => ImageLoaded
  <2> SUFFICES ASSUME Order, machine.sectors \in Image .. CountWord - 1,
                      NEW c \in Cpu, pc[c] \notin Asleep \cup Loading
               PROVE  Loaded
    BY DEF ImageLoaded
  <2>1. pc[0] \notin Loading
    BY PlacesList DEF Order, SetUpOnce
  <2> QED
    BY <2>1 DEF Order, SectorsInPlace
<1> QED
  BY <1>1, Ordered, PTL

(***************************************************************************)
(* The configuration.                                                      *)
(***************************************************************************)

\* What configInit() finds on each machine.
LEMMA ConfigFound ==
    ASSUME NEW m \in Machines, MemInfoPlausible(m.memInfo)
    PROVE  LET config == configInit(m.roots, m.memInfo)
           IN  /\ config.totalProcs = N
               /\ {config.apicInfo[i] : i \in DOMAIN config.apicInfo} = Cpu \ {0}
               /\ config.ioAPIC # 0
               /\ config.memSize = m.kb
<1> DEFINE madt == findSDT(findRSD(m.roots), "APIC")
           config == configInit(m.roots, m.memInfo)
           found == Walk(madt)
<1>1. N \in Nat \ {0} /\ ListsProcessors(madt, N) /\ ReportsMemory(m.memInfo, m.kb)
  BY BootAssumption, FirmwareAssumption DEF BootAssumption, FirmwareAssumption
<1> HIDE DEF madt
<1>2. /\ found.apicInfo \in Seq(Nat) /\ Len(found.apicInfo) + 1 = N
      /\ {found.apicInfo[i] : i \in DOMAIN found.apicInfo} = 1 .. N - 1
      /\ found.ioAPIC # 0
  BY ONLY <1>1, Walked
<1>3. (memAbove1M(m.memInfo) + 1024) % 2^22 = m.kb
  BY ONLY <1>1, MemoryAdded
<1>4. /\ config.apicInfo = found.apicInfo /\ config.totalProcs = Len(found.apicInfo) + 1
      /\ config.memSize = (memAbove1M(m.memInfo) + 1024) % 2^22
      /\ config.ioAPIC = found.ioAPIC
  BY DEF configInit, madt
<1>5. 1 .. N - 1 = Cpu \ {0}
  BY <1>1 DEF Cpu
<1> HIDE DEF found, config
<1>6. {config.apicInfo[i] : i \in DOMAIN config.apicInfo} = Cpu \ {0}
  <2>1. config.apicInfo = found.apicInfo
    BY <1>4
  <2>2. {config.apicInfo[i] : i \in DOMAIN config.apicInfo}
           = {found.apicInfo[i] : i \in DOMAIN found.apicInfo}
    BY ONLY <2>1, Zenon
  <2>3. {found.apicInfo[i] : i \in DOMAIN found.apicInfo} = 1 .. N - 1
    BY ONLY <1>2, Zenon
  <2> QED
    BY ONLY <1>5, <2>2, <2>3, Zenon
<1> QED
  BY ONLY <1>2, <1>3, <1>4, <1>6 DEF config

\* kConfig is empty until configInit() has filled it.
Configured ==
    /\ machine \in Machines
    /\ \/ kConfig.totalProcs = 0
       \/ MemInfoPlausible(machine.memInfo) /\ kConfig = configInit(machine.roots, machine.memInfo)

\* ... and nothing changes it later.
LEMMA ConfiguredStep == Configured /\ [Next]_vars => Configured'
<1> SUFFICES ASSUME Configured, [Next]_vars PROVE Configured'
  OBVIOUS
<1>1. UNCHANGED <<machine, kConfig>> => Configured'
  BY DEF Configured
<1>2. ASSUME NEW c \in Cpu, Step(c) PROVE Configured'
  <2>1. CASE Construct(c)
    <3>1. CASE MemInfoPlausible(machine.memInfo)
      BY <2>1, <3>1 DEF Construct, Configured
    <3>2. CASE ~MemInfoPlausible(machine.memInfo)
      BY <1>1, <2>1, <3>2 DEF Construct
    <3> QED
      BY <3>1, <3>2
  <2>2. CASE Load(c) \/ UseTempStack(c) \/ PickKernelStack(c) \/ WhichInit(c)
    BY <1>1, <2>2 DEF Load, UseTempStack, PickKernelStack, WhichInit, setting
  <2>3. CASE NewBarriers(c) \/ Interrupt(c) \/ FirstLapic(c) \/ Lapic(c)
    BY <1>1, <2>3 DEF NewBarriers, Interrupt, FirstLapic, Lapic, EnableLapic, setting
  <2>4. CASE Count(c) \/ WakeOthers(c)
    BY <1>1, <2>4 DEF Count, WakeOthers, Wake, Startup, Delivered, Await, setting
  <2>5. CASE Arrive(c) \/ Start(c) \/ Leave(c) \/ End(c)
    BY <1>1, <2>5 DEF Arrive, Start, Leave, End, setting
  <2> QED
    BY <1>2, <2>1, <2>2, <2>3, <2>4, <2>5 DEF Step, FirstInit
<1>3. CASE Deliver
  BY <1>1, <1>3 DEF Deliver, setting
<1>4. CASE UNCHANGED vars
  BY <1>1, <1>4 DEF vars, setting
<1> QED
  BY <1>2, <1>3, <1>4 DEF Next, AwaitSpin, Off

\* Whatever tables the firmware writes, in which order ever it lists the processors: as
\* long as the entry of no other one comes first, each is found, and the I/O APIC is.
THEOREM ProcessorsFound == SafeSpec => []EveryProcessorFound
<1>1. Init => Configured
  BY DEF Init, Configured
<1>2. Configured => EveryProcessorFound
  BY ConfigFound DEF Configured, EveryProcessorFound
<1> QED
  BY <1>1, <1>2, ConfiguredStep, PTL DEF SafeSpec

\* The kernel takes the memory to be as large as it is, in whichever registers the BIOS
\* reports it.
THEOREM MemoryFound == SafeSpec => []MemoryKnown
<1>1. Init => Configured
  BY DEF Init, Configured
<1>2. Configured => MemoryKnown
  BY ConfigFound DEF Configured, MemoryKnown
<1> QED
  BY <1>1, <1>2, ConfiguredStep, PTL DEF SafeSpec

(***************************************************************************)
(* The barriers.  They count what configInit() has found, which is every   *)
(* processor.                                                              *)
(***************************************************************************)

\* One more of the processors.
LEMMA Sizes == \A S \in SUBSET Cpu : Cardinality(S) \in 0 .. N
<1> TAKE S \in SUBSET Cpu
<1>1. IsFiniteSet(S) /\ Cardinality(S) <= N
  BY BootFacts, FS_Subset
<1> QED
  BY <1>1, BootFacts, FS_CardinalityType

\* One processor more counts for one.
LEMMA OneMore ==
    ASSUME NEW S \in SUBSET Cpu, NEW c \in Cpu, c \notin S
    PROVE  Cardinality(S \cup {c}) = Cardinality(S) + 1
BY BootFacts, FS_Subset, FS_AddElement

\* Each barrier counts down by those who come to it, and to no less than zero.
LEMMA BarriersStep ==
    ASSUME Inv, [Next]_vars
    PROVE  BarriersExact'
<1>0. /\ Order /\ BarriersExact /\ SetUpOnce /\ machine \in Machines
      /\ pc \in [Cpu -> Places] /\ id \in Nat /\ running \in 0 .. N
  BY DEF Inv, Order, TypeOK
<1> DEFINE Unlisted == Loading \cup {"kk", "pick", "kernelInit", "constructors", "panic"}
<1>a. /\ id <= N
      /\ pc[0] \notin Unlisted => kConfig.totalProcs = N
      /\ pc[0] \notin Unmade => starting = N - Cardinality(Arrived) /\ stopping = N - Cardinality(Back)
      /\ pc[0] \in {"arrive"} \cup Late => id = N
  BY <1>0 DEF BarriersExact
<1>b. Unlisted \subseteq Unmade /\ Unmade \subseteq Early /\ Done \subseteq Late /\ Unlisted' = Unlisted
  BY PlacesList
<1>z. /\ pc[0] # "lapic"
      /\ \A c \in Cpu \ {0} : pc[c] \notin {"constructors", "barriers", "wake", "await"}
  BY <1>0, PlacesList DEF SetUpOnce
<1>s. ASSUME /\ id' <= N
             /\ pc'[0] \notin Unlisted => kConfig'.totalProcs = N
             /\ pc'[0] \notin Unmade =>
                    starting' = N - Cardinality(Arrived') /\ stopping' = N - Cardinality(Back')
             /\ pc'[0] \in {"arrive"} \cup Late => id' = N
      PROVE  BarriersExact'
  BY <1>s DEF BarriersExact
<1> HIDE DEF Unlisted
<1>1. ASSUME NEW c \in Cpu, NEW to, pc' = [pc EXCEPT ![c] = to], pc[c] \notin Late, to \notin Late,
             starting' = starting, stopping' = stopping, kConfig' = kConfig, id' <= N,
             c # 0 => id' = id,
             pc[c] \in Unmade => to \in Unmade,
             pc[c] \in Unlisted => to \in Unlisted,
             c = 0 /\ to = "arrive" => id' = N
      PROVE  BarriersExact'
  <2>1. Arrived' = Arrived /\ Back' = Back
    BY <1>0, <1>1, <1>b DEF Arrived, Back
  <2>2. CASE c = 0
    <3>1. pc'[0] = to
      BY <1>0, <1>1, <2>2
    <3> QED
      BY <1>a, <1>1, <2>1, <2>2, <3>1, <1>s
  <2>3. CASE c # 0
    <3>1. pc'[0] = pc[0]
      BY <1>0, <1>1, <2>3, BootFacts
    <3> QED
      BY <1>a, <1>1, <2>1, <2>3, <3>1, <1>s
  <2> QED
    BY <2>2, <2>3
<1>x. ASSUME NEW c \in Cpu \ {0}, NEW to, pc' = [pc EXCEPT ![c] = to], pc[c] \notin Late, to \notin Late,
             UNCHANGED <<kConfig, starting, stopping, id>>
      PROVE  BarriersExact'
  <2>1. Arrived' = Arrived /\ Back' = Back
    BY <1>0, <1>x, <1>b DEF Arrived, Back
  <2>2. pc'[0] = pc[0]
    BY <1>0, <1>x, BootFacts
  <2> QED
    BY <1>a, <1>x, <2>1, <2>2, <1>s
<1>2. ASSUME NEW c \in Cpu, NEW to, pc' = [pc EXCEPT ![c] = to],
             pc[c] \in {"arrive"} \cup Late, to \in Late,
             kConfig' = kConfig, id' = id,
             \/ pc[c] \notin Late /\ to \notin Done /\ starting' = (starting - 1) % Word /\ stopping' = stopping
             \/ pc[c] \in Late \ Done /\ to \in Done /\ starting' = starting /\ stopping' = (stopping - 1) % Word
             \/ pc[c] \in Late /\ (pc[c] \in Done <=> to \in Done) /\ starting' = starting /\ stopping' = stopping
      PROVE  BarriersExact'
  <2>1. /\ pc[0] \notin Unmade
        /\ c = 0 => pc'[0] = to
        /\ c # 0 => pc'[0] = pc[0]
    <3>1. pc[c] \notin Asleep \cup Early
      BY <1>2, PlacesList
    <3>2. CASE c = 0
      BY <1>0, <1>2, <1>b, <3>1, <3>2
    <3>3. CASE c # 0
      BY <1>0, <1>2, <1>b, <3>1, <3>3, BootFacts DEF SetUpOnce
    <3> QED
      BY <3>2, <3>3
  <2>2. pc'[0] \in {"arrive"} \cup Late => id' = N
    BY <1>a, <1>2, <2>1
  <2>3. pc'[0] \notin Unlisted => kConfig'.totalProcs = N
    BY <1>a, <1>b, <1>2, <2>1
  <2>4. /\ Cardinality(Arrived) \in 0 .. N /\ Cardinality(Arrived') \in 0 .. N
        /\ (pc[c] \in Late <=> to \in Late) => Arrived' = Arrived
        /\ pc[c] \notin Late /\ to \in Late => Cardinality(Arrived') = Cardinality(Arrived) + 1
    <3>1. Arrived \in SUBSET Cpu /\ Arrived' \in SUBSET Cpu /\ (c \in Arrived <=> pc[c] \in Late)
      BY DEF Arrived
    <3>2. (pc[c] \in Late <=> to \in Late) => Arrived' = Arrived
      BY <1>0, <1>2 DEF Arrived
    <3>3. pc[c] \notin Late /\ to \in Late => Arrived' = Arrived \cup {c}
      BY <1>0, <1>2 DEF Arrived
    <3> QED
      BY <3>1, <3>2, <3>3, Sizes, OneMore
  <2>5. /\ Cardinality(Back) \in 0 .. N /\ Cardinality(Back') \in 0 .. N
        /\ (pc[c] \in Done <=> to \in Done) => Back' = Back
        /\ pc[c] \notin Done /\ to \in Done => Cardinality(Back') = Cardinality(Back) + 1
    <3>1. Back \in SUBSET Cpu /\ Back' \in SUBSET Cpu /\ (c \in Back <=> pc[c] \in Done)
      BY DEF Back
    <3>2. (pc[c] \in Done <=> to \in Done) => Back' = Back
      BY <1>0, <1>2 DEF Back
    <3>3. pc[c] \notin Done /\ to \in Done => Back' = Back \cup {c}
      BY <1>0, <1>2 DEF Back
    <3> QED
      BY <3>1, <3>2, <3>3, Sizes, OneMore
  <2>6. ASSUME NEW n \in 0 .. N, n + 1 \in 0 .. N PROVE (N - n - 1) % Word = N - (n + 1)
    <3>1. Word \in Nat /\ N - n - 1 \in 0 .. Word - 1 /\ N - n - 1 = N - (n + 1)
      BY <2>6, BootFacts
    <3> QED
      BY ONLY <3>1, Small
  <2>7. starting' = N - Cardinality(Arrived')
    <3>1. starting = N - Cardinality(Arrived)
      BY <1>a, <2>1
    <3>2. CASE pc[c] \in Late
      BY <1>2, <2>4, <3>1, <3>2
    <3>3. CASE pc[c] \notin Late
      BY <1>2, <2>4, <2>6, <3>1, <3>3
    <3> QED
      BY <3>2, <3>3
  <2>8. stopping' = N - Cardinality(Back')
    <3>1. stopping = N - Cardinality(Back)
      BY <1>a, <2>1
    <3>2. CASE pc[c] \in Done <=> to \in Done
      BY <1>2, <1>b, <2>5, <3>1, <3>2
    <3>3. CASE ~(pc[c] \in Done <=> to \in Done)
      BY <1>2, <1>b, <2>5, <2>6, <3>1, <3>3
    <3> QED
      BY <3>2, <3>3
  <2> QED
    BY <1>a, <1>2, <2>2, <2>3, <2>7, <2>8, <1>s
<1>3. ASSUME NEW c \in Cpu, Step(c) PROVE BarriersExact'
  <2> USE <1>0 DEF GoTo, setting
  <2>1. CASE Load(c)
    <3>1. PICK to \in {"mbr", "kk", "lost"} :
              pc[c] = "mbr" /\ pc' = [pc EXCEPT ![c] = to] /\ UNCHANGED <<kConfig, starting, stopping, id>>
      BY <2>1 DEF Load
    <3>2. /\ "mbr" \notin Late /\ to \notin Late /\ to # "arrive"
          /\ "mbr" \in Unmade => to \in Unmade
          /\ "mbr" \in Unlisted => to \in Unlisted
      BY PlacesList DEF Unlisted
    <3> QED
      BY <1>1, <1>a, <3>1, <3>2
  <2>2. CASE UseTempStack(c)
    <3>1. /\ pc[c] = "kk" /\ pc' = [pc EXCEPT ![c] = "pick"]
          /\ UNCHANGED <<kConfig, starting, stopping, id>>
      BY <2>2 DEF UseTempStack
    <3>2. /\ "kk" \notin Late /\ "pick" \notin Late
          /\ "kk" \in Unmade => "pick" \in Unmade
          /\ "kk" \in Unlisted => "pick" \in Unlisted
      BY PlacesList DEF Unlisted
    <3> QED
      BY <1>1, <1>a, <3>1, <3>2
  <2>3. CASE PickKernelStack(c)
    <3>1. /\ pc[c] = "pick" /\ pc' = [pc EXCEPT ![c] = "kernelInit"]
          /\ UNCHANGED <<kConfig, starting, stopping, id>>
      BY <2>3 DEF PickKernelStack
    <3>2. /\ "pick" \notin Late /\ "kernelInit" \notin Late
          /\ "pick" \in Unmade => "kernelInit" \in Unmade
          /\ "pick" \in Unlisted => "kernelInit" \in Unlisted
      BY PlacesList DEF Unlisted
    <3> QED
      BY <1>1, <1>a, <3>1, <3>2
  <2>4. CASE WhichInit(c)
    <3>1. pc[c] = "kernelInit" /\ UNCHANGED <<kConfig, starting, stopping, id>>
      BY <2>4 DEF WhichInit
    <3>2. "kernelInit" \in Early \ {"count"} /\ "kernelInit" \notin Asleep
      BY PlacesList
    <3>3. c = 0 <=> ~smpInitDone
      BY <3>1, <3>2 DEF SetUpOnce
    <3>4. CASE smpInitDone
      <4>1. pc' = [pc EXCEPT ![c] = "join"]
        BY <2>4, <3>4 DEF WhichInit
      <4> QED
        <5>1. "kernelInit" \notin Late /\ "join" \notin Late
          BY PlacesList
        <5> QED
          BY <1>x, <3>1, <3>3, <3>4, <4>1, <5>1
    <3>5. CASE ~smpInitDone
      <4>1. pc' = [pc EXCEPT ![c] = "constructors"]
        BY <2>4, <3>5 DEF WhichInit
      <4>2. {"kernelInit", "constructors"} \subseteq Unlisted \cap Unmade
        BY PlacesList DEF Unlisted
      <4>3. {"kernelInit", "constructors"} \cap Late = {}
        BY PlacesList
      <4> QED
        BY <1>1, <1>a, <3>1, <4>1, <4>2, <4>3
    <3> QED
      BY <3>4, <3>5
  <2>5. CASE Construct(c)
    <3>1. c = 0 /\ id' = id
      BY <1>z, <2>5 DEF Construct
    <3>a. {"barriers", "panic"} \cap Late = {} /\ {"barriers", "panic"} \subseteq Unmade
          /\ "panic" \in Unlisted
      BY PlacesList DEF Unlisted
    <3>2. CASE MemInfoPlausible(machine.memInfo)
      <4>1. kConfig'.totalProcs = N
        BY <1>0, <2>5, <3>2, ConfigFound DEF Construct
      <4>2. pc'[0] = "barriers"
        BY <2>5, <3>1, <3>2, BootFacts DEF Construct
      <4> QED
        BY <1>a, <3>1, <3>a, <4>1, <4>2, <1>s
    <3>3. CASE ~MemInfoPlausible(machine.memInfo)
      <4>2. pc'[0] = "panic"
        BY <2>5, <3>1, <3>3, BootFacts DEF Construct
      <4> QED
        BY <1>a, <3>1, <3>a, <4>2, <1>s
    <3> QED
      BY <3>2, <3>3
  <2>6. CASE NewBarriers(c)
    <3>1. c = 0 /\ id' = id /\ kConfig' = kConfig /\ pc[0] = "barriers"
      BY <1>z, <2>6 DEF NewBarriers
    <3>a. /\ "barriers" \in Early /\ "barriers" \notin Unlisted
          /\ {"gate", "off"} \cap Late = {} /\ {"gate", "off"} \cap Done = {}
      BY PlacesList DEF Unlisted
    <3>2. pc'[0] = "gate" /\ \A d \in Cpu \ {0} : pc'[d] = "off"
      <4>1. \A d \in Cpu \ {0} : pc[d] = "off"
        BY <3>1, <3>a DEF Order, WokenInTurn
      <4> QED
        BY <2>6, <3>1, <4>1, BootFacts DEF NewBarriers
    <3>3. Arrived' = {} /\ Back' = {}
      <4>1. \A d \in Cpu : pc'[d] \in {"gate", "off"}
        BY <3>2
      <4> QED
        BY <3>a, <4>1 DEF Arrived, Back
    <3>4. starting' = N /\ stopping' = N /\ kConfig.totalProcs = N
      BY <1>a, <2>6, <3>1, <3>a DEF NewBarriers
    <3>5. starting' = N - Cardinality(Arrived') /\ stopping' = N - Cardinality(Back')
      BY <3>3, <3>4, FS_EmptySet, BootFacts
    <3> QED
      BY <1>a, <3>1, <3>2, <3>4, <3>5, <3>a, <1>s
  <2>7. CASE Interrupt(c)
    <3>1. PICK to \in {"gate", "first lapic"} :
              pc[c] = "gate" /\ pc' = [pc EXCEPT ![c] = to] /\ UNCHANGED <<kConfig, starting, stopping, id>>
      BY <2>7 DEF Interrupt
    <3>2. /\ "gate" \notin Late /\ to \notin Late /\ to # "arrive"
          /\ "gate" \in Unmade => to \in Unmade
          /\ "gate" \in Unlisted => to \in Unlisted
      BY PlacesList DEF Unlisted
    <3> QED
      BY <1>1, <1>a, <3>1, <3>2
  <2>8. CASE FirstLapic(c)
    <3>1. /\ pc[c] = "first lapic" /\ pc' = [pc EXCEPT ![c] = "count"]
          /\ UNCHANGED <<kConfig, starting, stopping, id>>
      BY <2>8 DEF FirstLapic, EnableLapic
    <3>2. /\ "first lapic" \notin Late /\ "count" \notin Late
          /\ "first lapic" \in Unmade => "count" \in Unmade
          /\ "first lapic" \in Unlisted => "count" \in Unlisted
      BY PlacesList DEF Unlisted
    <3> QED
      BY <1>1, <1>a, <3>1, <3>2
  <2>9. CASE Count(c)
    <3>1. PICK from \in {"count", "join"}, to \in {"wake", "lapic"} :
              /\ pc[c] = from /\ pc' = [pc EXCEPT ![c] = to]
              /\ UNCHANGED <<kConfig, starting, stopping>>
              /\ id' = 1 \/ id' = id
              /\ from = "join" => id' = id
      BY <2>9 DEF Count
    <3>4. c # 0 => from # "count"
      BY <1>0, <3>1, PlacesList DEF SetUpOnce
    <3>2. id' <= N
      BY <1>a, <3>1, BootFacts
    <3>3. from \notin Unmade \cup Unlisted /\ {from, to} \cap Late = {} /\ to # "arrive"
      BY PlacesList DEF Unlisted
    <3> QED
      BY <1>1, <3>1, <3>2, <3>3, <3>4
  <2>10. CASE Wake(c)
    <3>1. pc[c] = "wake" /\ UNCHANGED <<kConfig, starting, stopping, id>>
      BY <2>10 DEF Wake
    <3>2. c = 0
      BY <1>z, <3>1
    <3>3. "wake" \notin Unmade \cup Unlisted /\ {"wake", "INIT sent", "arrive"} \cap Late = {}
      BY PlacesList DEF Unlisted
    <3>4. kConfig.totalProcs = N
      BY <1>a, <3>1, <3>2, <3>3
    <3>5. CASE id < N
      <4>1. pc' = [pc EXCEPT ![c] = "INIT sent"]
        BY <2>10, <3>4, <3>5 DEF Wake
      <4> QED
        BY <1>1, <1>a, <3>1, <3>3, <4>1
    <3>6. CASE ~(id < N)
      <4>1. pc' = [pc EXCEPT ![c] = "arrive"]
        BY <2>10, <3>4, <3>6 DEF Wake
      <4>2. id = N
        BY <1>a, <3>6, BootFacts
      <4> QED
        BY <1>1, <1>a, <3>1, <3>3, <4>1, <4>2
    <3> QED
      BY <3>5, <3>6
  <2>11. CASE Startup(c)
    <3>1. /\ pc[c] = "INIT sent" /\ pc' = [pc EXCEPT ![c] = "startup sent"]
          /\ UNCHANGED <<kConfig, starting, stopping, id>>
      BY <2>11 DEF Startup
    <3>2. /\ "INIT sent" \notin Late /\ "startup sent" \notin Late
          /\ "INIT sent" \in Unmade => "startup sent" \in Unmade
          /\ "INIT sent" \in Unlisted => "startup sent" \in Unlisted
      BY PlacesList DEF Unlisted
    <3> QED
      BY <1>1, <1>a, <3>1, <3>2
  <2>12. CASE Delivered(c)
    <3>1. /\ pc[c] = "startup sent" /\ pc' = [pc EXCEPT ![c] = "await"]
          /\ UNCHANGED <<kConfig, starting, stopping, id>>
      BY <2>12 DEF Delivered
    <3>2. /\ "startup sent" \notin Late /\ "await" \notin Late
          /\ "startup sent" \in Unmade => "await" \in Unmade
          /\ "startup sent" \in Unlisted => "await" \in Unlisted
      BY PlacesList DEF Unlisted
    <3> QED
      BY <1>1, <1>a, <3>1, <3>2
  <2>13. CASE Await(c)
    <3>1. /\ pc[c] = "await" /\ pc' = [pc EXCEPT ![c] = "wake"] /\ running > id /\ id' = id + 1
          /\ UNCHANGED <<kConfig, starting, stopping>>
      BY <2>13 DEF Await
    <3>2. c = 0
      BY <1>z, <3>1
    <3>3. id' <= N
      BY <3>1, BootFacts
    <3>4. "await" \notin Unmade \cup Unlisted /\ {"await", "wake"} \cap Late = {}
      BY PlacesList DEF Unlisted
    <3> QED
      BY <1>1, <3>1, <3>2, <3>3, <3>4
  <2>14. CASE Lapic(c)
    <3>1. /\ pc[c] = "lapic" /\ pc' = [pc EXCEPT ![c] = "arrive"]
          /\ UNCHANGED <<kConfig, starting, stopping, id>>
      BY <2>14 DEF Lapic, EnableLapic
    <3>2. c # 0
      BY <1>z, <3>1
    <3>3. "lapic" \notin Unmade \cup Unlisted /\ {"lapic", "arrive"} \cap Late = {}
      BY PlacesList DEF Unlisted
    <3> QED
      BY <1>1, <1>a, <3>1, <3>2, <3>3
  <2>15. CASE Arrive(c)
    <3>1. /\ pc[c] = "arrive" /\ pc' = [pc EXCEPT ![c] = "starting"]
          /\ UNCHANGED <<kConfig, id>> /\ starting' = (starting - 1) % Word /\ stopping' = stopping
      BY <2>15 DEF Arrive
    <3> QED
      BY <1>2, <3>1, PlacesList
  <2>16. CASE Start(c)
    <3>1. /\ pc[c] = "starting" /\ pc' = [pc EXCEPT ![c] = "kernelMain"]
          /\ UNCHANGED <<kConfig, id>> /\ UNCHANGED <<starting, stopping>>
      BY <2>16 DEF Start
    <3> QED
      BY <1>2, <3>1, PlacesList
  <2>17. CASE Leave(c)
    <3>1. /\ pc[c] = "kernelMain" /\ pc' = [pc EXCEPT ![c] = "stopping"]
          /\ UNCHANGED <<kConfig, id>> /\ starting' = starting /\ stopping' = (stopping - 1) % Word
      BY <2>17 DEF Leave
    <3> QED
      BY <1>2, <3>1, PlacesList
  <2>18. CASE End(c)
    <3>1. PICK to \in {"shutdown", "hlt"} :
              /\ pc[c] = "stopping" /\ pc' = [pc EXCEPT ![c] = to]
              /\ UNCHANGED <<kConfig, id, starting, stopping>>
      BY <2>18 DEF End
    <3>2. {"stopping", "shutdown", "hlt"} \subseteq Late \cap Done
      BY PlacesList
    <3> QED
      BY <1>2, <3>1, <3>2
  <2> QED
    BY <1>3, <2>1, <2>2, <2>3, <2>4, <2>5, <2>6, <2>7, <2>8, <2>9, <2>10, <2>11, <2>12, <2>13, <2>14,
       <2>15, <2>16, <2>17, <2>18 DEF Step, FirstInit, WakeOthers
<1>4. CASE Deliver
  <2>1. UNCHANGED <<kConfig, starting, stopping, id>>
    BY <1>4 DEF Deliver, setting
  <2>2. CASE pc' = pc
    BY <1>a, <2>1, <2>2, <1>s DEF Arrived, Back
  <2>3. ASSUME NEW to \in {"wait for startup", "kk"}, id \in Cpu \ {0}, pc[id] \in Asleep,
               pc' = [pc EXCEPT ![id] = to]
        PROVE  BarriersExact'
    <3>1. pc[id] \notin Late /\ to \notin Late
      BY <2>3, PlacesList
    <3> QED
      BY <1>x, <2>1, <2>3, <3>1
  <2> QED
    BY <1>0, <1>4, <2>2, <2>3, DeliverAsleep
<1>5. CASE UNCHANGED vars
  BY <1>a, <1>5, <1>s DEF vars, setting, Arrived, Back
<1> QED
  BY <1>3, <1>4, <1>5 DEF Next, AwaitSpin, Off

\* The processors are woken in turn and count themselves, the barriers count them, and
\* what the boot sector has read is in its place.
THEOREM Invariance == SafeSpec => []Inv
<1>1. Init => Inv
  <2>1. Init => BarriersExact
    <3> SUFFICES ASSUME Init PROVE BarriersExact
      OBVIOUS
    <3>1. pc[0] = "mbr" /\ id <= N
      BY BootFacts DEF Init
    <3>2. "mbr" \in Unmade /\ "mbr" \in Loading /\ "mbr" \notin {"arrive"} \cup Late
      BY PlacesList
    <3> QED
      BY <3>1, <3>2 DEF BarriersExact
  <2> QED
    BY <2>1, OrderInit DEF Inv
<1>2. Inv /\ [Next]_vars => Inv'
  BY OrderStep, BarriersStep DEF Inv
<1> QED
  BY <1>1, <1>2, PTL DEF SafeSpec

\* An open barrier: everybody has come.
LEMMA Everybody ==
    ASSUME Inv, NEW c \in Cpu
    PROVE  /\ pc[c] \in Late /\ starting = 0 => \A d \in Cpu : pc[d] \in Late
           /\ pc[c] \in Late /\ stopping = 0 => \A d \in Cpu : pc[d] \in Done
<1> SUFFICES ASSUME pc[c] \in Late
             PROVE  /\ starting = 0 => \A d \in Cpu : pc[d] \in Late
                    /\ stopping = 0 => \A d \in Cpu : pc[d] \in Done
  OBVIOUS
<1>0. BarriersExact /\ SetUpOnce
  BY DEF Inv, Order
<1>1. pc[0] \notin Unmade
  <2>1. pc[c] \notin Asleep \cup Early /\ Unmade \subseteq Early
    BY PlacesList
  <2> QED
    BY <1>0, <2>1 DEF SetUpOnce
<1>2. starting = N - Cardinality(Arrived) /\ stopping = N - Cardinality(Back)
  BY <1>0, <1>1 DEF BarriersExact
<1>3. Arrived \in SUBSET Cpu /\ Back \in SUBSET Cpu
  BY DEF Arrived, Back
<1>4. \A S \in SUBSET Cpu : N - Cardinality(S) = 0 => S = Cpu
  <2> SUFFICES ASSUME NEW S \in SUBSET Cpu, N - Cardinality(S) = 0 PROVE S = Cpu
    OBVIOUS
  <2>1. Cardinality(S) = Cardinality(Cpu)
    BY Sizes, BootFacts
  <2> QED
    BY <2>1, BootFacts, FS_Subset
<1> QED
  BY <1>2, <1>3, <1>4 DEF Arrived, Back

\* The steps that a barrier does not see are those between other places.
LEMMA Moves ==
    ASSUME pc \in [Cpu -> Places], NEW c \in Cpu, Step(c)
    PROVE  \/ Arrive(c) \/ Start(c) \/ Leave(c) \/ End(c)
           \/ pc[c] \notin Late /\ \E to \in Places \ Late : pc' = [pc EXCEPT ![c] = to]
<1> USE PlacesList DEF GoTo
<1>1. CASE Load(c) \/ UseTempStack(c) \/ PickKernelStack(c)
  BY <1>1 DEF Load, UseTempStack, PickKernelStack
<1>2. CASE WhichInit(c)
  BY <1>2 DEF WhichInit
<1>3. CASE Construct(c) \/ NewBarriers(c)
  BY <1>3 DEF Construct, NewBarriers
<1>4. CASE Interrupt(c) \/ FirstLapic(c) \/ Lapic(c)
  BY <1>4 DEF Interrupt, FirstLapic, Lapic
<1>5. CASE Count(c)
  BY <1>5 DEF Count
<1>6. CASE WakeOthers(c)
  BY <1>6 DEF WakeOthers, Wake, Startup, Delivered, Await
<1> QED
  BY <1>1, <1>2, <1>3, <1>4, <1>5, <1>6 DEF Step, FirstInit

\* The machine is shut down when all have come back from kernelMain(), and only then.
THEOREM Together == SafeSpec => []NobodyCutOff
<1> DEFINE Ended == \A c \in Cpu : pc[c] \in {"shutdown", "hlt"} => \A d \in Cpu : pc[d] \in Done
<1>1. Init => Ended
  BY DEF Init
<1>2. Inv /\ Ended /\ [Next]_vars => Ended'
  <2> SUFFICES ASSUME Inv, Ended, [Next]_vars PROVE Ended'
    OBVIOUS
  <2>0. Order /\ SetUpOnce /\ pc \in [Cpu -> Places]
    BY DEF Inv, Order, TypeOK
  <2>1. ASSUME NEW c \in Cpu, NEW to, pc' = [pc EXCEPT ![c] = to],
               to \notin {"shutdown", "hlt"}, pc[c] \notin Done
        PROVE  Ended'
    BY <2>0, <2>1
  <2>2. ASSUME NEW c \in Cpu, End(c) PROVE Ended'
    <3>1. pc[c] = "stopping" /\ stopping = 0 /\ \E to \in Done : pc' = [pc EXCEPT ![c] = to]
      BY <2>2, PlacesList DEF End
    <3>2. \A d \in Cpu : pc[d] \in Done
      BY <3>1, PlacesList, Everybody
    <3>3. \A d \in Cpu : pc'[d] \in Done
      BY <2>0, <3>1, <3>2
    <3> QED
      BY <3>3
  <2>3. ASSUME NEW c \in Cpu, Step(c), ~End(c) PROVE Ended'
    <3>1. CASE Arrive(c) \/ Start(c) \/ Leave(c)
      BY <2>1, <3>1, PlacesList DEF Arrive, Start, Leave, GoTo
    <3>2. ASSUME NEW to \in Places \ Late, pc[c] \notin Late, pc' = [pc EXCEPT ![c] = to]
          PROVE  Ended'
      <4>1. to \notin {"shutdown", "hlt"} /\ pc[c] \notin Done
        BY <3>2, PlacesList
      <4> QED
        BY <2>1, <3>2, <4>1
    <3> QED
      BY <2>0, <2>3, <3>1, <3>2, Moves
  <2>4. CASE Deliver
    <3>1. CASE pc' = pc
      BY <3>1
    <3>2. ASSUME NEW to \in {"wait for startup", "kk"}, id \in Cpu, pc[id] \in Asleep,
                 pc' = [pc EXCEPT ![id] = to]
          PROVE  Ended'
      <4>1. pc[id] \notin Done
        BY <3>2, PlacesList
      <4> QED
        BY <2>1, <3>2, <4>1
    <3> QED
      BY <2>0, <2>4, <3>1, <3>2, DeliverAsleep
  <2>5. CASE UNCHANGED vars
    BY <2>5 DEF vars
  <2> QED
    BY <2>2, <2>3, <2>4, <2>5 DEF Next, AwaitSpin, Off
<1>3. Ended => NobodyCutOff
  BY BootFacts DEF NobodyCutOff
<1> QED
  BY <1>1, <1>2, <1>3, Invariance, PTL DEF SafeSpec

(***************************************************************************)
(* The barriers implement the abstract one.                                *)
(***************************************************************************)
startSide == [c \in Cpu |-> SideOf(c, Late, "starting")]
stopSide == [c \in Cpu |-> SideOf(c, Done, "stopping")]

\* Other processors stay on their side; the one that goes on changes to the side of its
\* new place.
LEMMA Sides ==
    ASSUME pc \in [Cpu -> Places], NEW c \in Cpu, NEW to, pc' = [pc EXCEPT ![c] = to]
    PROVE  /\ startSide' = [startSide EXCEPT ![c] =
                   IF to \notin Late THEN "before" ELSE IF to = "starting" THEN "waiting" ELSE "after"]
           /\ stopSide' = [stopSide EXCEPT ![c] =
                   IF to \notin Done THEN "before" ELSE IF to = "stopping" THEN "waiting" ELSE "after"]
<1>1. Late' = Late /\ Done' = Done
  BY PlacesList
<1>2. \A d \in Cpu : pc'[d] = IF d = c THEN to ELSE pc[d]
  OBVIOUS
<1> QED
  BY <1>1, <1>2 DEF startSide, stopSide, SideOf

\* Every step of the boot is a step of each barrier, or none.
LEMMA SidesStep ==
    ASSUME Inv, [Next]_vars
    PROVE  [StartBarrier!Next]_startSide /\ [StopBarrier!Next]_stopSide
<1>0. pc \in [Cpu -> Places] /\ SetUpOnce /\ WokenInTurn
  BY DEF Inv, Order, TypeOK
<1>a. "starting" \notin Done /\ "kernelMain" \notin Done /\ Done \subseteq Late
  BY PlacesList
<1>1. ASSUME NEW c \in Cpu, NEW to \in Places \ Late, pc[c] \notin Late, pc' = [pc EXCEPT ![c] = to]
      PROVE  startSide' = startSide /\ stopSide' = stopSide
  BY <1>0, <1>1, <1>a, Sides DEF startSide, stopSide, SideOf
<1>2. ASSUME NEW c \in Cpu, Arrive(c)
      PROVE  StartBarrier!Arrive(c) /\ stopSide' = stopSide
  <2>1. pc[c] = "arrive" /\ pc' = [pc EXCEPT ![c] = "starting"]
    BY <1>2 DEF Arrive, GoTo
  <2>2. "arrive" \notin Late /\ "arrive" \notin Done /\ "starting" \in Late
    BY PlacesList
  <2>3. startSide[c] = "before" /\ startSide' = [startSide EXCEPT ![c] = "waiting"]
    BY <1>0, <2>1, <2>2, Sides DEF startSide, SideOf
  <2>4. stopSide' = stopSide
    BY <1>0, <1>a, <2>1, <2>2, Sides DEF stopSide, SideOf
  <2> QED
    BY <2>3, <2>4 DEF StartBarrier!Arrive, startSide
<1>3. ASSUME NEW c \in Cpu, Start(c)
      PROVE  StartBarrier!Pass(c) /\ stopSide' = stopSide
  <2>1. pc[c] = "starting" /\ pc' = [pc EXCEPT ![c] = "kernelMain"] /\ starting = 0
    BY <1>3 DEF Start, GoTo
  <2>2. "starting" \in Late /\ "kernelMain" \in Late
    BY PlacesList
  <2>3. startSide[c] = "waiting" /\ startSide' = [startSide EXCEPT ![c] = "after"]
    BY <1>0, <2>1, <2>2, Sides DEF startSide, SideOf
  <2>4. \A d \in Cpu : startSide[d] # "before"
    BY <2>1, <2>2, Everybody DEF startSide, SideOf
  <2>5. stopSide' = stopSide
    BY <1>0, <1>a, <2>1, Sides DEF stopSide, SideOf
  <2> QED
    BY <2>3, <2>4, <2>5 DEF StartBarrier!Pass, startSide
<1>4. ASSUME NEW c \in Cpu, Leave(c)
      PROVE  startSide' = startSide /\ StopBarrier!Arrive(c)
  <2>1. pc[c] = "kernelMain" /\ pc' = [pc EXCEPT ![c] = "stopping"]
    BY <1>4 DEF Leave, GoTo
  <2>2. {"kernelMain", "stopping"} \subseteq Late /\ "stopping" \in Done
    BY PlacesList
  <2>3. startSide' = startSide
    BY <1>0, <2>1, <2>2, Sides DEF startSide, SideOf
  <2>4. stopSide[c] = "before" /\ stopSide' = [stopSide EXCEPT ![c] = "waiting"]
    BY <1>0, <1>a, <2>1, <2>2, Sides DEF stopSide, SideOf
  <2> QED
    BY <2>3, <2>4 DEF StopBarrier!Arrive, stopSide
<1>5. ASSUME NEW c \in Cpu, End(c)
      PROVE  startSide' = startSide /\ StopBarrier!Pass(c)
  <2>1. PICK to \in {"shutdown", "hlt"} :
            pc[c] = "stopping" /\ stopping = 0 /\ pc' = [pc EXCEPT ![c] = to]
    BY <1>5 DEF End
  <2>2. {"stopping", to} \subseteq Done /\ to # "stopping" /\ to # "starting"
    BY PlacesList
  <2>3. startSide' = startSide
    BY <1>0, <1>a, <2>1, <2>2, Sides DEF startSide, SideOf
  <2>4. stopSide[c] = "waiting" /\ stopSide' = [stopSide EXCEPT ![c] = "after"]
    BY <1>0, <2>1, <2>2, Sides DEF stopSide, SideOf
  <2>5. \A d \in Cpu : stopSide[d] # "before"
    BY <1>a, <2>1, <2>2, Everybody DEF stopSide, SideOf
  <2> QED
    BY <2>3, <2>4, <2>5 DEF StopBarrier!Pass, stopSide
<1>6. CASE Deliver
  <2>1. CASE pc' = pc
    BY <2>1 DEF startSide, stopSide, SideOf
  <2>2. ASSUME NEW to \in {"wait for startup", "kk"}, id \in Cpu, pc[id] \in Asleep,
               pc' = [pc EXCEPT ![id] = to]
        PROVE  startSide' = startSide /\ stopSide' = stopSide
    <3>1. pc[id] \notin Late /\ to \in Places \ Late
      BY <2>2, PlacesList
    <3> QED
      BY <1>1, <2>2, <3>1
  <2> QED
    BY <1>6, <2>1, <2>2, DeliverAsleep DEF Inv
<1>7. CASE UNCHANGED vars
  BY <1>7 DEF vars, startSide, stopSide, SideOf
<1>8. ASSUME NEW c \in Cpu, Step(c)
      PROVE  [StartBarrier!Next]_startSide /\ [StopBarrier!Next]_stopSide
  <2>1. CASE Arrive(c)
    BY <1>2, <2>1 DEF StartBarrier!Next
  <2>2. CASE Start(c)
    BY <1>3, <2>2 DEF StartBarrier!Next
  <2>3. CASE Leave(c)
    BY <1>4, <2>3 DEF StopBarrier!Next
  <2>4. CASE End(c)
    BY <1>5, <2>4 DEF StopBarrier!Next
  <2>5. CASE pc[c] \notin Late /\ \E to \in Places \ Late : pc' = [pc EXCEPT ![c] = to]
    BY <1>1, <2>5
  <2> QED
    BY <1>0, <1>8, <2>1, <2>2, <2>3, <2>4, <2>5, Moves
<1> QED
  BY <1>6, <1>7, <1>8 DEF Next, AwaitSpin, Off

\* Nobody enters kernelMain() before everybody is up, and nobody stops before everybody
\* has come back: both barriers are, as far as safety goes, what a barrier is.
THEOREM Rendezvoused == SafeSpec => StartBarrier!SafeSpec /\ StopBarrier!SafeSpec
<1>1. Init => StartBarrier!Init /\ StopBarrier!Init
  <2> SUFFICES ASSUME Init PROVE startSide = [c \in Cpu |-> "before"] /\ stopSide = [c \in Cpu |-> "before"]
    BY DEF StartBarrier!Init, StopBarrier!Init, startSide, stopSide
  <2>1. \A c \in Cpu : pc[c] \in {"mbr", "off"}
    BY DEF Init
  <2>2. {"mbr", "off"} \cap Late = {} /\ {"mbr", "off"} \cap Done = {}
    BY PlacesList
  <2> QED
    BY <2>1, <2>2 DEF startSide, stopSide, SideOf
<1>2. Inv /\ [Next]_vars => [StartBarrier!Next]_startSide /\ [StopBarrier!Next]_stopSide
  BY SidesStep
<1> QED
  BY <1>1, <1>2, Invariance, PTL DEF SafeSpec, StartBarrier!SafeSpec, StopBarrier!SafeSpec, startSide, stopSide
=============================================================================
