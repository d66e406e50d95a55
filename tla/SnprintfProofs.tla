--------------------------- MODULE SnprintfProofs ---------------------------
(***************************************************************************)
(* What dopr() keeps to for every format, however it is made up of         *)
(* literals and directives and wherever it breaks off: the loop is in an   *)
(* item of the program, in front of the character and the argument that    *)
(* its state wants (Parsed), which takes where the items and their         *)
(* arguments are in what a caller passes; and that every number printed    *)
(* reads back as that number, with every flag, width and precision.        *)
(*                                                                         *)
(* Numerals, texts put one behind the other, and the digits of a number    *)
(* are recursive functions.  Induction on the numbers they go along comes  *)
(* from the pigeonhole principle, as in BootProofs, with the same lemmas.  *)
(***************************************************************************)
EXTENDS Snprintf, FiniteSetTheorems, SequenceTheorems, TLAPS

(***************************************************************************)
(* Functions that go from step to step.                                    *)
(***************************************************************************)

\* Induction, from the pigeonhole principle: if n were not in S, adding one would take
\* the numbers up to n that are in S to themselves without 0.
LEMMA Induction ==
    ASSUME NEW S, 0 \in S, \A n \in Nat : n \in S => n + 1 \in S
    PROVE  Nat \subseteq S
<1> SUFFICES ASSUME NEW n \in Nat, n \notin S PROVE FALSE
  OBVIOUS
<1> DEFINE A == {i \in 0 .. n : i \in S}
           B == A \ {0}
           up == [i \in A |-> i + 1]
<1>1. IsFiniteSet(A) /\ 0 \in A
  <2>1. IsFiniteSet(0 .. n)
    BY FS_Interval
  <2> QED
    BY <2>1, FS_Subset
<1>2. up \in [A -> B]
  OBVIOUS
<1>3. \A x, y \in A : up[x] = up[y] => x = y
  OBVIOUS
<1> HIDE DEF A, up
<1>4. IsFiniteSet(B) /\ Cardinality(B) = Cardinality(A) - 1
  BY <1>1, FS_RemoveElement
<1>5. Cardinality(B) < Cardinality(A)
  BY <1>1, <1>4, FS_CardinalityType
<1> HIDE DEF B
<1>6. \E x, y \in A : x # y /\ up[x] = up[y]
  BY ONLY <1>1, <1>2, <1>4, <1>5, FS_PigeonHole
<1> QED
  BY <1>3, <1>6

\* g goes from t on, a step for each number.
Iterates(g, L, T, t, step) ==
    g \in [0 .. L -> T] /\ g[0] = t /\ \A i \in 1 .. L : g[i] = step[i][g[i - 1]]

\* There is such a g ...
LEMMA Recursion ==
    ASSUME NEW L \in Nat, NEW T, NEW t \in T, NEW step \in [1 .. L -> [T -> T]]
    PROVE  \E g : Iterates(g, L, T, t, step)
<1> DEFINE Upto(n) == \E g \in [0 .. n -> T] :
                          g[0] = t /\ \A i \in 1 .. n : g[i] = step[i][g[i - 1]]
           S == {n \in Nat : n <= L => Upto(n)}
<1>1. 0 \in S
  <2> DEFINE g == [i \in 0 .. 0 |-> t]
  <2>1. g \in [0 .. 0 -> T] /\ g[0] = t /\ \A i \in 1 .. 0 : g[i] = step[i][g[i - 1]]
    OBVIOUS
  <2> HIDE DEF g
  <2>2. Upto(0)
    BY <2>1
  <2> QED
    BY <2>2
<1>2. ASSUME NEW n \in Nat, n \in S PROVE n + 1 \in S
  <2> SUFFICES ASSUME n + 1 <= L PROVE Upto(n + 1)
    OBVIOUS
  <2>1. PICK g \in [0 .. n -> T] : g[0] = t /\ \A i \in 1 .. n : g[i] = step[i][g[i - 1]]
    BY <1>2
  <2> DEFINE h == [i \in 0 .. n + 1 |-> IF i <= n THEN g[i] ELSE step[n + 1][g[n]]]
  <2>2. step[n + 1][g[n]] \in T
    <3>1. n + 1 \in 1 .. L /\ g[n] \in T
      OBVIOUS
    <3> QED
      BY <3>1
  <2>3. \A i \in 0 .. n + 1 : h[i] \in T
    <3>1. \A i \in 0 .. n + 1 : i <= n => g[i] \in T
      OBVIOUS
    <3> QED
      BY <2>2, <3>1
  <2>6. h \in [0 .. n + 1 -> T]
    BY <2>3
  <2>7. h[0] = t /\ h[n + 1] = step[n + 1][h[n]]
    <3>1. 0 \in 0 .. n + 1 /\ n \in 0 .. n + 1 /\ n + 1 \in 0 .. n + 1 /\ ~(n + 1 <= n) /\ 0 <= n
      OBVIOUS
    <3> QED
      BY <2>1, <3>1
  <2>4. \A i \in 1 .. n : h[i] = step[i][h[i - 1]]
    BY <2>1
  <2>5. \A i \in 1 .. n + 1 : i \in 1 .. n \/ i = n + 1
    OBVIOUS
  <2> HIDE DEF h
  <2>8. \A i \in 1 .. n + 1 : h[i] = step[i][h[i - 1]]
    <3>1. (n + 1) - 1 = n
      OBVIOUS
    <3> QED
      BY <2>4, <2>5, <2>7, <3>1
  <2> QED
    BY <2>6, <2>7, <2>8
<1> HIDE DEF S
<1>3. Nat \subseteq S
  BY <1>1, <1>2, Induction
<1>4. PICK g \in [0 .. L -> T] : g[0] = t /\ \A i \in 1 .. L : g[i] = step[i][g[i - 1]]
  BY <1>3 DEF S
<1>5. Iterates(g, L, T, t, step)
  BY <1>4 DEF Iterates
<1> QED
  BY <1>5

\* What the first of the numbers up to L has and each hands on to the next, all have.
LEMMA ByRounds ==
    ASSUME NEW L \in Nat, NEW Q, 0 \in Q, \A n \in 0 .. L - 1 : n \in Q => n + 1 \in Q
    PROVE  0 .. L \subseteq Q
<1> DEFINE S == {n \in Nat : n <= L => n \in Q}
<1>1. 0 \in S /\ \A n \in Nat : n \in S => n + 1 \in S
  OBVIOUS
<1> HIDE DEF S
<1>2. Nat \subseteq S
  BY <1>1, Induction
<1> QED
  BY <1>2 DEF S

\* A recursive function on the numbers up to L is such a function.
LEMMA Recursive ==
    ASSUME NEW L \in Nat, NEW T, NEW t \in T, NEW step \in [1 .. L -> [T -> T]],
           NEW F, F = [n \in 0 .. L |-> F[n]], F[0] = t,
           \A n \in 1 .. L : F[n - 1] \in T => F[n] = step[n][F[n - 1]]
    PROVE  Iterates(F, L, T, t, step)
<1> DEFINE Q == {n \in 0 .. L : F[n] \in T}
<1>1. 0 \in Q
  OBVIOUS
<1>2. ASSUME NEW n \in 0 .. L - 1, n \in Q PROVE n + 1 \in Q
  <2>1. n + 1 \in 1 .. L /\ (n + 1) - 1 = n /\ F[n] \in T
    BY <1>2
  <2>2. F[n + 1] = step[n + 1][F[n]]
    BY <2>1
  <2> QED
    BY <2>1, <2>2
<1>3. 0 .. L \subseteq Q
  <2> HIDE DEF Q
  <2> QED
    BY <1>1, <1>2, ByRounds
<1>4. \A n \in 0 .. L : F[n] \in T
  BY <1>3
<1>5. F \in [0 .. L -> T]
  BY <1>4
<1>6. ASSUME NEW n \in 1 .. L PROVE F[n] = step[n][F[n - 1]]
  <2>1. n - 1 \in 0 .. L
    OBVIOUS
  <2> QED
    BY <1>4, <2>1
<1> QED
  BY <1>5, <1>6 DEF Iterates

\* The step may always be the same.
Repeats(g, L, T, t, G) == Iterates(g, L, T, t, [i \in 1 .. L |-> G])

\* Two of them, up to L and further, agree as far as both go.
LEMMA Agree ==
    ASSUME NEW L \in Nat, NEW M \in Nat, L <= M, NEW T, NEW t, NEW G,
           NEW g, Repeats(g, L, T, t, G), NEW h, Repeats(h, M, T, t, G)
    PROVE  \A i \in 0 .. L : g[i] = h[i]
<1> DEFINE Q == {i \in 0 .. L : g[i] = h[i]}
<1>1. 0 \in Q
  BY DEF Repeats, Iterates
<1>2. ASSUME NEW n \in 0 .. L - 1, n \in Q PROVE n + 1 \in Q
  <2>1. n + 1 \in 1 .. L /\ n + 1 \in 1 .. M /\ (n + 1) - 1 = n
    OBVIOUS
  <2>2. g[n + 1] = G[g[n]] /\ h[n + 1] = G[h[n]]
    BY <2>1 DEF Repeats, Iterates
  <2> QED
    BY <1>2, <2>1, <2>2
<1>3. 0 .. L \subseteq Q
  <2> HIDE DEF Q
  <2> QED
    BY <1>1, <1>2, ByRounds
<1> QED
  BY <1>3

\* One that goes on for ever.
LEMMA Forever ==
    ASSUME NEW T, NEW t \in T, NEW G \in [T -> T]
    PROVE  \E g : g \in [Nat -> T] /\ g[0] = t /\ \A n \in Nat : g[n + 1] = G[g[n]]
<1> DEFINE Is(L, h) == Repeats(h, L, T, t, G)
           upto(L) == CHOOSE h : Is(L, h)
           g == [n \in Nat |-> upto(n)[n]]
<1>1. ASSUME NEW L \in Nat PROVE Is(L, upto(L))
  <2>1. [i \in 1 .. L |-> G] \in [1 .. L -> [T -> T]]
    OBVIOUS
  <2>2. \E h : Is(L, h)
    BY <2>1, Recursion DEF Repeats
  <2> HIDE DEF Is
  <2> QED
    BY <2>2
<1> HIDE DEF upto
<1>2. ASSUME NEW n \in Nat
      PROVE  upto(n) \in [0 .. n -> T] /\ upto(n)[0] = t
             /\ \A i \in 1 .. n : upto(n)[i] = G[upto(n)[i - 1]]
  BY <1>1 DEF Repeats, Iterates
<1>3. g \in [Nat -> T] /\ g[0] = t
  <2>1. \A n \in Nat : n \in 0 .. n
    OBVIOUS
  <2> QED
    BY <1>2, <2>1
<1>4. ASSUME NEW n \in Nat PROVE g[n + 1] = G[g[n]]
  <2>1. n \in Nat /\ n + 1 \in Nat /\ n <= n + 1 /\ n + 1 \in 1 .. n + 1 /\ (n + 1) - 1 = n
        /\ n \in 0 .. n
    OBVIOUS
  <2>2. upto(n + 1)[n + 1] = G[upto(n + 1)[n]]
    BY <1>2, <2>1
  <2>3. upto(n)[n] = upto(n + 1)[n]
    <3>1. Repeats(upto(n), n, T, t, G) /\ Repeats(upto(n + 1), n + 1, T, t, G)
      BY <1>1, <2>1
    <3>2. \A i \in 0 .. n : upto(n)[i] = upto(n + 1)[i]
      BY ONLY <2>1, <3>1, Agree
    <3> QED
      BY <2>1, <3>2
  <2> QED
    BY <2>1, <2>2, <2>3
<1> HIDE DEF g
<1> QED
  BY <1>3, <1>4

\* The digits of a number are digits.
LEMMA NumeralType ==
    ASSUME NEW number \in Nat, NEW b \in Nat, b > 1, NEW S, NEW digits,
           \A i \in 1 .. b : digits[i] \in S
    PROVE  Numeral(number, b, digits) \in Seq(S)
<1> DEFINE T == [Nat -> Seq(S)]
           First(n) == <<digits[n + 1]>>
           More(f, n) == Append(f[n \div b], digits[(n % b) + 1])
           Write(f, n) == IF n < b THEN First(n) ELSE More(f, n)
           G == [f \in T |-> [n \in Nat |-> Write(f, n)]]
           t == [n \in Nat |-> <<>>]
<1>1. t \in T
  OBVIOUS
<1>2. ASSUME NEW n \in Nat
      PROVE  /\ n < b => First(n) \in Seq(S)
             /\ n >= b => n \div b \in Nat /\ n \div b < n
             /\ digits[(n % b) + 1] \in S
  <2>1. n % b \in 0 .. b - 1
    OBVIOUS
  <2>2. (n % b) + 1 \in 1 .. b
    BY <2>1
  <2>3. n < b => n + 1 \in 1 .. b
    OBVIOUS
  <2>4. n \div b \in Nat
    OBVIOUS
  <2>5. n = b * (n \div b) + (n % b)
    OBVIOUS
  <2>6. n >= b => n \div b < n
    <3> DEFINE q == n \div b
    <3>1. q \in Nat /\ n % b \in Nat /\ n = b * q + (n % b)
      BY <2>1, <2>4, <2>5
    <3> HIDE DEF q
    <3>2. q > 0 => b * q > q
      <4>1. q > 0 => (b - 1) * q > 0
        BY <3>1
      <4>2. b * q = (b - 1) * q + q
        BY <3>1
      <4>3. b * q \in Int /\ (b - 1) * q \in Int
        BY <3>1
      <4> QED
        BY <3>1, <4>1, <4>2, <4>3
    <3>3. b * q \in Int
      BY <3>1
    <3>4. n >= b => q < n
      BY <3>1, <3>2, <3>3
    <3> QED
      BY <3>4 DEF q
  <2> QED
    BY <2>2, <2>3, <2>4, <2>6
<1>3. ASSUME NEW f \in T, NEW n \in Nat PROVE Write(f, n) \in Seq(S)
  <2>1. CASE n < b
    BY <1>2, <2>1
  <2>2. CASE n >= b
    <3>1. f[n \div b] \in Seq(S)
      BY <1>2, <2>2
    <3>2. digits[(n % b) + 1] \in S
      BY <1>2
    <3>3. More(f, n) \in Seq(S)
      BY <3>1, <3>2
    <3> QED
      BY <2>2, <3>3
  <2> QED
    BY <2>1, <2>2
<1> HIDE DEF First, More
<1>4. G \in [T -> T]
  BY <1>3
<1>5. PICK h : h \in [Nat -> T] /\ h[0] = t /\ \A k \in Nat : h[k + 1] = G[h[k]]
  <2> HIDE DEF T, t, G
  <2> QED
    BY ONLY <1>1, <1>4, Forever
<1>6. ASSUME NEW k \in Nat, NEW n \in Nat PROVE h[k + 1][n] = Write(h[k], n)
  <2>1. h[k] \in T /\ h[k + 1] = G[h[k]]
    BY <1>5
  <2> HIDE DEF T, Write
  <2> QED
    BY <2>1
<1>7. ASSUME NEW f \in T, NEW e \in T, NEW n \in Nat, n < b \/ f[n \div b] = e[n \div b]
      PROVE  Write(f, n) = Write(e, n)
  BY <1>7 DEF More
<1> HIDE DEF Write
\* The digits of n are there after n rounds.
<1> DEFINE Q == {k \in Nat : \A n \in Nat : n < k => h[k + 1][n] = h[k][n]}
<1>8. 0 \in Q
  OBVIOUS
<1>9. ASSUME NEW k \in Nat, k \in Q PROVE k + 1 \in Q
  <2> SUFFICES ASSUME NEW n \in Nat, n < k + 1 PROVE h[(k + 1) + 1][n] = h[k + 1][n]
    OBVIOUS
  <2>1. h[(k + 1) + 1][n] = Write(h[k + 1], n) /\ h[k + 1][n] = Write(h[k], n)
    <3>1. k + 1 \in Nat
      OBVIOUS
    <3> QED
      BY <1>6, <3>1
  <2>2. h[k + 1] \in T /\ h[k] \in T
    <3>1. k + 1 \in Nat
      OBVIOUS
    <3> HIDE DEF T
    <3> QED
      BY <1>5, <3>1
  <2>3. n < b \/ h[k + 1][n \div b] = h[k][n \div b]
    <3>1. n >= b => n \div b \in Nat /\ n \div b < k
      BY <1>2
    <3> QED
      BY <1>9, <3>1
  <2>4. Write(h[k + 1], n) = Write(h[k], n)
    <3> HIDE DEF T
    <3> QED
      BY <1>7, <2>2, <2>3
  <2> QED
    BY <2>1, <2>4
<1>10. Nat \subseteq Q
  <2> HIDE DEF Q
  <2> QED
    BY <1>8, <1>9, Induction
<1>11. ASSUME NEW n \in Nat PROVE \A k \in Nat : k > n => h[k][n] = h[n + 1][n]
  <2> DEFINE R == {k \in Nat : h[n + 1 + k][n] = h[n + 1][n]}
  <2>1. 0 \in R
    OBVIOUS
  <2>2. ASSUME NEW k \in Nat, k \in R PROVE k + 1 \in R
    <3>1. n + 1 + (k + 1) = (n + 1 + k) + 1 /\ n + 1 + k \in Nat /\ n < n + 1 + k
      OBVIOUS
    <3>2. h[(n + 1 + k) + 1][n] = h[n + 1 + k][n]
      BY <1>10, <3>1
    <3> QED
      BY <2>2, <3>1, <3>2
  <2>3. Nat \subseteq R
    <3> HIDE DEF R
    <3> QED
      BY <2>1, <2>2, Induction
  <2> SUFFICES ASSUME NEW k \in Nat, k > n PROVE h[k][n] = h[n + 1][n]
    OBVIOUS
  <2>4. k - (n + 1) \in Nat /\ n + 1 + (k - (n + 1)) = k
    OBVIOUS
  <2> QED
    BY <2>3, <2>4
<1> DEFINE W == [n \in Nat |-> h[n + 1][n]]
<1>12. ASSUME NEW n \in Nat PROVE W[n] = Write(h[n], n) /\ h[n] \in T /\ W[n] \in Seq(S)
  <2>1. h[n] \in T /\ h[n + 1] \in T
    <3>1. n + 1 \in Nat
      OBVIOUS
    <3> HIDE DEF T
    <3> QED
      BY <1>5, <3>1
  <2>2. h[n + 1][n] \in Seq(S)
    BY <2>1
  <2>3. h[n + 1][n] = Write(h[n], n)
    BY <1>6
  <2> HIDE DEF T
  <2> QED
    BY <2>1, <2>2, <2>3
<1>13. W \in T
  BY <1>12
<1>14. ASSUME NEW n \in Nat PROVE W[n] = Write(W, n)
  <2>1. n < b \/ h[n][n \div b] = W[n \div b]
    <3>1. n >= b => n \div b \in Nat /\ n > n \div b
      BY <1>2
    <3> QED
      BY <1>11, <3>1
  <2> HIDE DEF W, T
  <2> QED
    BY <1>7, <1>12, <1>13, <2>1
<1> DEFINE Is(f) == f = [n \in Nat |-> Write(f, n)]
<1>15. Is(W)
  BY <1>14
<1> HIDE DEF Is, W
<1>16. Is(CHOOSE f : Is(f))
  BY <1>15
<1> DEFINE w == CHOOSE f : Is(f)
<1>17. Numeral(number, b, digits) = w[number]
  BY DEF Numeral, Is, Write, First, More
<1>18. \A n \in Nat : w[n] = Write(w, n)
  <2> HIDE DEF w
  <2> QED
    BY <1>16 DEF Is, w
<1> HIDE DEF w
<1> DEFINE P == {n \in Nat : \A m \in Nat : m <= n => w[m] \in Seq(S)}
<1>19. ASSUME NEW n \in Nat, n < b \/ w[n \div b] \in Seq(S) PROVE w[n] \in Seq(S)
  <2>1. CASE n < b
    BY <1>2, <1>18, <2>1 DEF Write, First
  <2>2. CASE n >= b
    <3>0. ~(n < b)
      BY <2>2
    <3>3. digits[(n % b) + 1] \in S
      BY <1>2
    <3>1. w[n \div b] \in Seq(S)
      BY <1>19, <3>0
    <3>2. w[n] = Append(w[n \div b], digits[(n % b) + 1])
      BY <1>18, <3>0 DEF Write, More
    <3> QED
      BY <3>1, <3>2, <3>3
  <2> QED
    BY <2>1, <2>2
<1>20. 0 \in P
  BY <1>19
<1>21. ASSUME NEW n \in Nat, n \in P PROVE n + 1 \in P
  <2> SUFFICES ASSUME NEW m \in Nat, m <= n + 1 PROVE w[m] \in Seq(S)
    OBVIOUS
  <2>1. m >= b => m \div b \in Nat /\ m \div b <= n
    BY <1>2
  <2> QED
    BY <1>19, <1>21, <2>1
<1>22. Nat \subseteq P
  <2> HIDE DEF P
  <2> QED
    BY <1>20, <1>21, Induction
<1>23. w[number] \in Seq(S)
  <2>1. number \in P /\ number <= number
    BY <1>22
  <2> QED
    BY <2>1
<1> QED
  BY <1>17, <1>23

\* F[k] is where the first k of some sequences end when they are put behind each other.
Ends(F, seqs) ==
    /\ F \in [0 .. Len(seqs) -> Nat] /\ F[0] = 0 /\ F[Len(seqs)] = Len(FlattenSeq(seqs))
    /\ \A k \in 1 .. Len(seqs) :
          /\ F[k] = F[k - 1] + Len(seqs[k])
          /\ \A j \in 1 .. Len(seqs[k]) : FlattenSeq(seqs)[F[k - 1] + j] = seqs[k][j]

\* What is in two sequences, behind each other.
LEMMA Behind ==
    ASSUME NEW S, NEW p \in Seq(S), NEW q \in Seq(S)
    PROVE  /\ p \o q \in Seq(S) /\ Len(p \o q) = Len(p) + Len(q) /\ Len(p) \in Nat /\ Len(q) \in Nat
           /\ \A i \in 1 .. Len(p) : i \in 1 .. Len(p \o q) /\ (p \o q)[i] = p[i]
           /\ \A i \in 1 .. Len(q) :
                 Len(p) + i \in 1 .. Len(p \o q) /\ (p \o q)[Len(p) + i] = q[i]
OBVIOUS

\* Sequences of values, put one behind the other, are such a sequence, and each has an end.
LEMMA Flattened ==
    ASSUME NEW S, NEW seqs \in Seq(Seq(S))
    PROVE  FlattenSeq(seqs) \in Seq(S) /\ \E F : Ends(F, seqs)
<1> DEFINE L == Len(seqs)
           T == Seq(S)
           step == [i \in 1 .. L |-> [s \in T |-> s \o seqs[i]]]
<1>1. L \in Nat /\ <<>> \in T /\ \A i \in 1 .. L : seqs[i] \in T
  OBVIOUS
<1>2. step \in [1 .. L -> [T -> T]]
  <2>1. ASSUME NEW i \in 1 .. L, NEW s \in T PROVE s \o seqs[i] \in T
    BY <1>1, Behind
  <2> QED
    BY <2>1
<1>3. PICK g : Iterates(g, L, T, <<>>, step)
  <2> HIDE DEF L, T, step
  <2> QED
    BY ONLY <1>1, <1>2, Recursion
<1>4. g \in [0 .. L -> T] /\ g[0] = <<>> /\ \A i \in 1 .. L : g[i] = g[i - 1] \o seqs[i]
  <2>1. g \in [0 .. L -> T] /\ g[0] = <<>> /\ \A i \in 1 .. L : g[i] = step[i][g[i - 1]]
    BY <1>3 DEF Iterates
  <2>2. ASSUME NEW i \in 1 .. L PROVE g[i] = g[i - 1] \o seqs[i]
    <3>1. i - 1 \in 0 .. L
      BY <1>1
    <3>2. g[i - 1] \in T
      <4> HIDE DEF T, L
      <4> QED
        BY <2>1, <3>1
    <3>3. step[i][g[i - 1]] = g[i - 1] \o seqs[i]
      <4> HIDE DEF T, L
      <4> QED
        BY <3>2
    <3> QED
      BY <2>1, <3>3
  <2> QED
    BY <2>1, <2>2
<1>5. FlattenSeq(seqs) = g[L]
  <2>1. CASE L = 0
    BY <1>4, <2>1 DEF FlattenSeq
  <2>2. CASE L # 0
    <3> DEFINE Is(f) == f = [i \in 1 .. L |-> IF i = 1 THEN seqs[i] ELSE f[i - 1] \o seqs[i]]
               w == [i \in 1 .. L |-> g[i]]
               f0 == CHOOSE f : Is(f)
    <3>1. Is(w)
      <4>1. 1 \in 1 .. L /\ 1 - 1 = 0 /\ \A i \in 1 .. L : i # 1 => i - 1 \in 1 .. L
        BY <1>1, <2>2
      <4>2. <<>> \o seqs[1] = seqs[1]
        BY <1>1, <4>1
      <4>3. g[1] = seqs[1]
        BY <1>4, <4>1, <4>2
      <4>4. ASSUME NEW i \in 1 .. L
            PROVE  g[i] = IF i = 1 THEN seqs[i] ELSE w[i - 1] \o seqs[i]
        <5> HIDE DEF L
        <5> QED
          BY <1>4, <4>1, <4>3
      <4> HIDE DEF L
      <4> QED
        BY <4>4
    <3>2. FlattenSeq(seqs) = f0[L]
      BY <2>2 DEF FlattenSeq
    <3> HIDE DEF Is, w
    <3>3. Is(f0)
      BY <3>1
    <3> HIDE DEF f0
    <3> DEFINE Q == {i \in 0 .. L : i = 0 \/ f0[i] = g[i]}
    <3>4. 0 \in Q
      BY <1>1
    <3>5. ASSUME NEW n \in 0 .. L - 1, n \in Q PROVE n + 1 \in Q
      <4>1. n + 1 \in 1 .. L /\ n + 1 \in 0 .. L /\ (n + 1) - 1 = n /\ (n + 1 = 1 <=> n = 0)
        BY <1>1
      <4>2. f0[n + 1] = IF n = 0 THEN seqs[n + 1] ELSE f0[n] \o seqs[n + 1]
        <5> HIDE DEF L, Q
        <5> QED
          BY <3>3, <4>1 DEF Is
      <4>3. g[n + 1] = g[n] \o seqs[n + 1]
        <5> HIDE DEF L, Q
        <5> QED
          BY <1>4, <4>1
      <4>4. <<>> \o seqs[n + 1] = seqs[n + 1]
        BY <1>1, <4>1
      <4> HIDE DEF L
      <4> QED
        BY <1>4, <3>5, <4>1, <4>2, <4>3, <4>4
    <3>6. 0 .. L \subseteq Q
      <4> HIDE DEF L, Q
      <4> QED
        BY ONLY <1>1, <3>4, <3>5, ByRounds
    <3>7. L \in Q
      BY <1>1, <3>6
    <3> QED
      BY <2>2, <3>2, <3>7
  <2> QED
    BY <2>1, <2>2
<1> HIDE DEF step
<1> DEFINE Within(m, k, j) == Len(g[k - 1]) + j \in 1 .. Len(g[m]) /\ g[m][Len(g[k - 1]) + j] = seqs[k][j]
           R == {m \in 0 .. L : \A k \in 1 .. m : \A j \in 1 .. Len(seqs[k]) : Within(m, k, j)}
<1>6. 0 \in R
  BY <1>1
<1>7. ASSUME NEW m \in 0 .. L - 1, m \in R PROVE m + 1 \in R
  <2>1. m + 1 \in 0 .. L /\ m + 1 \in 1 .. L /\ m \in 0 .. L /\ (m + 1) - 1 = m
        /\ \A k \in 1 .. m + 1 : k \in 1 .. m \/ k = m + 1
    BY <1>1
  <2>2. g[m] \in T /\ seqs[m + 1] \in T /\ g[m + 1] = g[m] \o seqs[m + 1]
    <3> HIDE DEF T, L
    <3> QED
      BY <1>1, <1>4, <2>1
  <2>3. /\ \A i \in 1 .. Len(g[m]) : i \in 1 .. Len(g[m + 1]) /\ g[m + 1][i] = g[m][i]
        /\ \A i \in 1 .. Len(seqs[m + 1]) : /\ Len(g[m]) + i \in 1 .. Len(g[m + 1])
                                            /\ g[m + 1][Len(g[m]) + i] = seqs[m + 1][i]
    <3> DEFINE p == g[m]
               q == seqs[m + 1]
               r == g[m + 1]
    <3>1. p \in Seq(S) /\ q \in Seq(S) /\ r = p \o q
      BY ONLY <2>2
    <3> HIDE DEF p, q, r
    <3>2. /\ \A i \in 1 .. Len(p) : i \in 1 .. Len(r) /\ r[i] = p[i]
          /\ \A i \in 1 .. Len(q) : Len(p) + i \in 1 .. Len(r) /\ r[Len(p) + i] = q[i]
      BY ONLY <3>1, Behind
    <3> QED
      BY ONLY <3>2 DEF p, q, r
  <2> SUFFICES ASSUME NEW k \in 1 .. m + 1, NEW j \in 1 .. Len(seqs[k]) PROVE Within(m + 1, k, j)
    BY <2>1
  <2>4. CASE k = m + 1
    BY <2>1, <2>3, <2>4
  <2>5. CASE k \in 1 .. m
    <3>1. Within(m, k, j)
      BY <1>7, <2>5
    <3> QED
      BY <2>3, <3>1
  <2> QED
    BY <2>1, <2>4, <2>5
<1>8. 0 .. L \subseteq R
  <2> HIDE DEF L, R
  <2> QED
    BY ONLY <1>1, <1>6, <1>7, ByRounds
<1> DEFINE F == [k \in 0 .. L |-> Len(g[k])]
<1>9. F \in [0 .. L -> Nat] /\ F[0] = 0 /\ F[L] = Len(FlattenSeq(seqs))
  <2>1. \A k \in 0 .. L : g[k] \in T /\ Len(g[k]) \in Nat
    BY <1>4
  <2>2. 0 \in 0 .. L /\ L \in 0 .. L /\ Len(g[0]) = 0
    BY <1>1, <1>4
  <2> HIDE DEF L
  <2> QED
    BY <1>5, <2>1, <2>2
<1>10. ASSUME NEW k \in 1 .. L
       PROVE  /\ F[k] = F[k - 1] + Len(seqs[k])
              /\ \A j \in 1 .. Len(seqs[k]) : FlattenSeq(seqs)[F[k - 1] + j] = seqs[k][j]
  <2>1. k \in 0 .. L /\ k - 1 \in 0 .. L /\ L \in 0 .. L
    BY <1>1
  <2>2. F[k] = Len(g[k]) /\ F[k - 1] = Len(g[k - 1])
    <3> HIDE DEF L
    <3> QED
      BY <2>1
  <2>3. g[k - 1] \in T /\ seqs[k] \in T /\ g[k] = g[k - 1] \o seqs[k]
    <3> HIDE DEF L, T
    <3> QED
      BY <1>1, <1>4, <2>1
  <2>4. Len(g[k]) = Len(g[k - 1]) + Len(seqs[k])
    BY <2>3, Behind
  <2>5. ASSUME NEW j \in 1 .. Len(seqs[k]) PROVE Within(L, k, j)
    <3>1. L \in R
      BY <1>8, <2>1
    <3> HIDE DEF L, Within
    <3> QED
      BY <3>1
  <2> HIDE DEF F, L
  <2> QED
    BY <1>5, <2>2, <2>4, <2>5
<1>11. Ends(F, seqs)
  <2> HIDE DEF F
  <2> QED
    BY <1>9, <1>10 DEF Ends
<1>12. FlattenSeq(seqs) \in Seq(S)
  <2>1. L \in 0 .. L
    BY <1>1
  <2> HIDE DEF L
  <2> QED
    BY <1>4, <1>5, <2>1
<1> HIDE DEF F
<1> QED
  BY <1>11, <1>12

Convs == IntConv \cup {"s", "f", "c", "n", "e", "E", "g", "G", "%", "w", "?"}

\* What a caller gives for an argument.
Values == Int \cup STRING \cup Seq(STRING) \cup [neg : BOOLEAN, num : Nat, den : Nat \ {0}]

\* What the parts of an item are.
LEMMA Parts ==
    ASSUME NEW item \in Item
    PROVE  /\ ~IsDirective(item) => item.char \in STRING /\ item.char # "%"
           /\ IsDirective(item) =>
                 /\ item.flags \in Seq(FlagChars) /\ item.width \in Int /\ item.prec \in Int
                 /\ item.mod \in {<<>>, <<"h">>, <<"l">>, <<"L">>} /\ item.conv \in Convs
                 /\ item.value \in Values
                 /\ item.conv \in IntConv => item.value \in 0 .. Word - 1
                 /\ item.conv = "s" => item.value \in Seq(STRING)
                 /\ item.conv = "f" => item.value \in [neg : BOOLEAN, num : Nat, den : Nat \ {0}]
                 /\ item.conv = "c" => item.value \in STRING
<1>1. CASE item \in [char : STRING \ {"%"}]
  BY <1>1 DEF IsDirective
<1>2. ASSUME NEW convs, NEW values, item \in DirectiveOf(convs, values)
      PROVE  /\ IsDirective(item)
             /\ item.flags \in Seq(FlagChars) /\ item.width \in Int /\ item.prec \in Int
             /\ item.mod \in {<<>>, <<"h">>, <<"l">>, <<"L">>}
             /\ item.conv \in convs /\ item.value \in values
  BY <1>2 DEF DirectiveOf, IsDirective
<1>3. CASE item \in DirectiveOf(IntConv, 0 .. Word - 1)
  <2>1. item.conv \in IntConv /\ item.value \in 0 .. Word - 1
    BY <1>2, <1>3
  <2>2. item.value \in Values
    BY <2>1 DEF Values
  <2> QED
    BY <1>2, <1>3, <2>1, <2>2 DEF IntConv, Convs
<1>4. CASE item \in DirectiveOf({"s"}, Seq(STRING))
  <2>1. item.value \in Values
    BY <1>2, <1>4 DEF Values
  <2> QED
    BY <1>2, <1>4, <2>1 DEF IntConv, Convs
<1>5. CASE item \in DirectiveOf({"f"}, [neg : BOOLEAN, num : Nat, den : Nat \ {0}])
  <2> DEFINE values == [neg : BOOLEAN, num : Nat, den : Nat \ {0}]
  <2>1. item \in DirectiveOf({"f"}, values)
    BY <1>5
  <2>2. item.value \in values => item.value \in [neg : BOOLEAN, num : Nat, den : Nat \ {0}]
    OBVIOUS
  <2>3. item.value \in values => item.value \in Values
    BY DEF Values
  <2> HIDE DEF values
  <2> QED
    BY <1>2, <2>1, <2>2, <2>3 DEF IntConv, Convs
<1>6. CASE item \in DirectiveOf({"c"}, STRING)
  <2>1. item.value \in Values
    BY <1>2, <1>6 DEF Values
  <2> QED
    BY <1>2, <1>6, <2>1 DEF IntConv, Convs
<1>7. CASE item \in DirectiveOf({"n", "e", "E", "g", "G", "%", "w", "?"}, Nat)
  <2>1. item.value \in Values
    BY <1>2, <1>7 DEF Values
  <2> QED
    BY <1>2, <1>7, <2>1 DEF IntConv, Convs
<1> QED
  BY <1>1, <1>3, <1>4, <1>5, <1>6, <1>7 DEF Item

\* Where the width, the precision, the length and the conversion of a directive are.
WidthAt(d) == 2 + Len(d.flags)
DotAt(d) == WidthAt(d) + Len(SpelledWidth(d))
ModAt(d) == DotAt(d) + Len(SpelledPrec(d))
ConvAt(d) == Len(SpelledItem(d))

Numerals == {Lower[i] : i \in 1 .. 10}

\* The characters that a width or a precision is spelled with.
LEMMA NumeralsAre == Numerals = {"0", "1", "2", "3", "4", "5", "6", "7", "8", "9"}
<1>1. Lower[1] = "0" /\ Lower[2] = "1" /\ Lower[3] = "2" /\ Lower[4] = "3" /\ Lower[5] = "4"
      /\ Lower[6] = "5" /\ Lower[7] = "6" /\ Lower[8] = "7" /\ Lower[9] = "8" /\ Lower[10] = "9"
  BY DEF Lower
<1>2. \A i \in 1 .. 10 : i = 1 \/ i = 2 \/ i = 3 \/ i = 4 \/ i = 5 \/ i = 6 \/ i = 7 \/ i = 8
                         \/ i = 9 \/ i = 10
  OBVIOUS
<1>3. 1 \in 1 .. 10 /\ 2 \in 1 .. 10 /\ 3 \in 1 .. 10 /\ 4 \in 1 .. 10 /\ 5 \in 1 .. 10
      /\ 6 \in 1 .. 10 /\ 7 \in 1 .. 10 /\ 8 \in 1 .. 10 /\ 9 \in 1 .. 10 /\ 10 \in 1 .. 10
  OBVIOUS
<1>4. ASSUME NEW c PROVE isdigit(c) <=> c \in {"0", "1", "2", "3", "4", "5", "6", "7", "8", "9"}
  <2>1. ASSUME isdigit(c) PROVE c \in {"0", "1", "2", "3", "4", "5", "6", "7", "8", "9"}
    <3>1. PICK i \in 1 .. 10 : c = Lower[i]
      BY <2>1 DEF isdigit
    <3> QED
      BY ONLY <3>1, <1>1, <1>2, Zenon
  <2>2. ASSUME c \in {"0", "1", "2", "3", "4", "5", "6", "7", "8", "9"} PROVE isdigit(c)
    BY <2>2, <1>1, <1>3, Zenon DEF isdigit
  <2> QED
    BY <2>1, <2>2
<1>5. \A c : c \in Numerals <=> isdigit(c)
  BY Zenon DEF Numerals, isdigit
<1> QED
  BY ONLY <1>4, <1>5, Zenon

\* isdigit() tells them.
LEMMA DigitsAre == \A c : isdigit(c) <=> c \in Numerals
BY Zenon DEF Numerals, isdigit

\* A numeral in base 10 has nothing but the ten digits in it.
LEMMA TenNumeral ==
    ASSUME NEW n \in Nat
    PROVE  Numeral(n, 10, Lower) \in Seq(Numerals)
<1>1. \A i \in 1 .. 10 : Lower[i] \in Numerals
  BY NumeralsAre DEF Lower
<1> QED
  BY <1>1, NumeralType

\* A width or a precision is a star, numerals, or not there.
LEMMA SpelledParts ==
    ASSUME NEW d \in Item, IsDirective(d)
    PROVE  /\ IF "width" \in d.star THEN SpelledWidth(d) = <<"*">>
              ELSE SpelledWidth(d) \in Seq(Numerals)
           /\ \/ SpelledPrec(d) = <<>> /\ "prec" \notin d.star
              \/ SpelledPrec(d) = <<".", "*">> /\ "prec" \in d.star
              \/ /\ "prec" \notin d.star
                 /\ \E s \in Seq(Numerals) : SpelledPrec(d) = <<".">> \o s
<1>1. d.width \in Int /\ d.prec \in Int
  BY Parts
<1>2. d.width > 0 => Numeral(d.width, 10, Lower) \in Seq(Numerals)
  BY <1>1, TenNumeral
<1>3. d.prec >= 0 => Numeral(d.prec, 10, Lower) \in Seq(Numerals)
  BY <1>1, TenNumeral
<1>4. <<>> \in Seq(Numerals)
  OBVIOUS
<1> QED
  BY <1>1, <1>2, <1>3, <1>4 DEF SpelledWidth, SpelledPrec

\* What is where in a sequence of six parts.
Six(S, a, b, c, e, f, g) ==
    a \in Seq(S) /\ b \in Seq(S) /\ c \in Seq(S) /\ e \in Seq(S) /\ f \in Seq(S) /\ g \in Seq(S)

SixIn(S, a, b, c, e, f, g, s) ==
    /\ s \in Seq(S) /\ Len(s) = Len(a) + Len(b) + Len(c) + Len(e) + Len(f) + Len(g)
    /\ \A i \in 1 .. Len(a) : s[i] = a[i]
    /\ \A i \in 1 .. Len(b) : s[Len(a) + i] = b[i]
    /\ \A i \in 1 .. Len(c) : s[Len(a) + Len(b) + i] = c[i]
    /\ \A i \in 1 .. Len(e) : s[Len(a) + Len(b) + Len(c) + i] = e[i]
    /\ \A i \in 1 .. Len(f) : s[Len(a) + Len(b) + Len(c) + Len(e) + i] = f[i]
    /\ \A i \in 1 .. Len(g) : s[Len(a) + Len(b) + Len(c) + Len(e) + Len(f) + i] = g[i]

\* Six texts one behind the other: each is where the lengths of those before it put it.
LEMMA Chain ==
    ASSUME NEW S, NEW a, NEW b, NEW c, NEW e, NEW f, NEW g, Six(S, a, b, c, e, f, g)
    PROVE  SixIn(S, a, b, c, e, f, g, a \o b \o c \o e \o f \o g)
<1>a. a \in Seq(S) /\ b \in Seq(S) /\ c \in Seq(S) /\ e \in Seq(S) /\ f \in Seq(S) /\ g \in Seq(S)
  BY DEF Six
<1> DEFINE s == a \o b \o c \o e \o f \o g
<1> DEFINE Joined(p, q, r) ==
               /\ r \in Seq(S) /\ Len(r) = Len(p) + Len(q) /\ Len(p) \in Nat /\ Len(q) \in Nat
               /\ \A i \in 1 .. Len(p) : i \in 1 .. Len(r) /\ r[i] = p[i]
               /\ \A i \in 1 .. Len(q) : Len(p) + i \in 1 .. Len(r) /\ r[Len(p) + i] = q[i]
<1>1. ASSUME NEW p \in Seq(S), NEW q \in Seq(S), NEW r, r = p \o q PROVE Joined(p, q, r)
  <2>1. Joined(p, q, p \o q)
    BY Behind
  <2> QED
    BY <1>1, <2>1
<1> DEFINE s1 == a \o b
           s2 == s1 \o c
           s3 == s2 \o e
           s4 == s3 \o f
<1>0. s1 = a \o b /\ s2 = s1 \o c /\ s3 = s2 \o e /\ s4 = s3 \o f /\ s = s4 \o g
  OBVIOUS
<1> HIDE DEF s1, s2, s3, s4, s, Joined
<1>2. Joined(a, b, s1)
  BY <1>a, <1>0, <1>1
<1>3. Joined(s1, c, s2)
  BY <1>a, <1>0, <1>1, <1>2 DEF Joined
<1>4. Joined(s2, e, s3)
  <2>1. s2 \in Seq(S)
    BY <1>3 DEF Joined
  <2> QED
    BY ONLY <1>a, <1>0, <1>1, <2>1
<1>5. Joined(s3, f, s4)
  <2>1. s3 \in Seq(S)
    BY <1>4 DEF Joined
  <2> QED
    BY ONLY <1>a, <1>0, <1>1, <2>1
<1>6. Joined(s4, g, s)
  <2>1. s4 \in Seq(S)
    BY <1>5 DEF Joined
  <2> QED
    BY ONLY <1>a, <1>0, <1>1, <2>1
<1> DEFINE At(p, n, r) == \A i \in 1 .. Len(p) : n + i \in 1 .. Len(r) /\ r[n + i] = p[i]
<1>7. ASSUME NEW p, NEW n \in Nat, NEW q, NEW r, NEW v, Joined(r, q, v), At(p, n, r) PROVE At(p, n, v)
  BY ONLY <1>7, n \in Nat DEF Joined
<1>8. Len(a) \in Nat /\ Len(b) \in Nat /\ Len(c) \in Nat /\ Len(e) \in Nat /\ Len(f) \in Nat
      /\ Len(g) \in Nat
  BY <1>a
<1>9. /\ Len(s1) = Len(a) + Len(b) /\ Len(s2) = Len(a) + Len(b) + Len(c)
      /\ Len(s3) = Len(a) + Len(b) + Len(c) + Len(e)
      /\ Len(s4) = Len(a) + Len(b) + Len(c) + Len(e) + Len(f)
      /\ Len(s) = Len(a) + Len(b) + Len(c) + Len(e) + Len(f) + Len(g)
  BY ONLY <1>2, <1>3, <1>4, <1>5, <1>6, <1>8 DEF Joined
<1>10. ASSUME NEW p, NEW q, NEW r, Joined(p, q, r) PROVE At(q, Len(p), r)
  BY ONLY <1>10 DEF Joined
<1>11. \A i \in 1 .. Len(a) : s[i] = a[i]
  BY ONLY <1>2, <1>3, <1>4, <1>5, <1>6 DEF Joined
<1> HIDE DEF At
<1>12. /\ Len(a) \in Nat /\ Len(a) + Len(b) \in Nat /\ Len(a) + Len(b) + Len(c) \in Nat
       /\ Len(a) + Len(b) + Len(c) + Len(e) \in Nat
       /\ Len(a) + Len(b) + Len(c) + Len(e) + Len(f) \in Nat
  BY ONLY <1>8
<1>13. At(b, Len(a), s)
  BY ONLY <1>2, <1>3, <1>4, <1>5, <1>6, <1>7, <1>10, <1>12
<1>14. At(c, Len(a) + Len(b), s)
  BY ONLY <1>3, <1>4, <1>5, <1>6, <1>7, <1>9, <1>10, <1>12
<1>15. At(e, Len(a) + Len(b) + Len(c), s)
  BY ONLY <1>4, <1>5, <1>6, <1>7, <1>9, <1>10, <1>12
<1>16. At(f, Len(a) + Len(b) + Len(c) + Len(e), s)
  BY ONLY <1>5, <1>6, <1>7, <1>9, <1>10, <1>12
<1>17. At(g, Len(a) + Len(b) + Len(c) + Len(e) + Len(f), s)
  BY ONLY <1>6, <1>7, <1>9, <1>10, <1>12
<1>18. s \in Seq(S)
  BY ONLY <1>6 DEF Joined
<1> QED
  BY ONLY <1>9, <1>11, <1>13, <1>14, <1>15, <1>16, <1>17, <1>18 DEF At, SixIn, s

Symbols == STRING \cup FlagChars \cup Convs \cup Numerals \cup {".", "*", "h", "l", "L"}

\* What is where in a directive as it is spelled.
Layout(d) ==
    /\ SpelledItem(d) \in Seq(Symbols)
    /\ SpelledItem(d)[1] = "%"
    /\ 2 <= WidthAt(d) /\ WidthAt(d) <= DotAt(d) /\ DotAt(d) <= ModAt(d) /\ ModAt(d) <= ConvAt(d)
    /\ WidthAt(d) \in Nat /\ DotAt(d) \in Nat /\ ModAt(d) \in Nat /\ ConvAt(d) \in Nat
    /\ \A j \in 2 .. WidthAt(d) - 1 : SpelledItem(d)[j] \in FlagChars
    /\ IF "width" \in d.star
       THEN DotAt(d) = WidthAt(d) + 1 /\ SpelledItem(d)[WidthAt(d)] = "*"
       ELSE \A j \in WidthAt(d) .. DotAt(d) - 1 : isdigit(SpelledItem(d)[j])
    /\ ModAt(d) = DotAt(d) => "prec" \notin d.star
    /\ ModAt(d) > DotAt(d) => SpelledItem(d)[DotAt(d)] = "."
    /\ IF "prec" \in d.star
       THEN ModAt(d) = DotAt(d) + 2 /\ SpelledItem(d)[DotAt(d) + 1] = "*"
       ELSE \A j \in DotAt(d) + 1 .. ModAt(d) - 1 : isdigit(SpelledItem(d)[j])
    /\ \/ ConvAt(d) = ModAt(d)
       \/ ConvAt(d) = ModAt(d) + 1 /\ SpelledItem(d)[ModAt(d)] \in {"h", "l", "L"}
    /\ SpelledItem(d)[ConvAt(d)] = d.conv

\* That is how every directive is spelled.
LEMMA LaidOut ==
    ASSUME NEW d \in Item, IsDirective(d) PROVE Layout(d)
<1> DEFINE a == <<"%">>
           b == d.flags
           c == SpelledWidth(d)
           e == SpelledPrec(d)
           f == d.mod
           g == <<d.conv>>
           s == SpelledItem(d)
           S == Symbols
<1>1. a \in Seq(S) /\ Len(a) = 1 /\ a[1] = "%"
  <2>1. "%" \in S
    BY DEF Symbols, Convs
  <2> QED
    BY <2>1
<1>2. b \in Seq(S) /\ Len(b) \in Nat /\ \A i \in 1 .. Len(b) : b[i] \in FlagChars
  <2>1. b \in Seq(FlagChars)
    BY Parts
  <2>2. FlagChars \subseteq S
    BY DEF Symbols
  <2> HIDE DEF S, b
  <2> QED
    BY <2>1, <2>2
<1>3. ASSUME NEW q \in Seq(Numerals)
      PROVE  q \in Seq(S) /\ Len(q) \in Nat /\ \A i \in 1 .. Len(q) : isdigit(q[i])
  <2>1. Numerals \subseteq S
    BY DEF Symbols
  <2> HIDE DEF S
  <2>2. \A i \in 1 .. Len(q) : q[i] \in Numerals
    OBVIOUS
  <2> QED
    BY <2>1, <2>2, DigitsAre
<1>4. /\ c \in Seq(S) /\ Len(c) \in Nat
      /\ IF "width" \in d.star THEN Len(c) = 1 /\ c[1] = "*"
         ELSE \A i \in 1 .. Len(c) : isdigit(c[i])
  <2>1. IF "width" \in d.star THEN c = <<"*">> ELSE c \in Seq(Numerals)
    BY SpelledParts
  <2>2. <<"*">> \in Seq(S)
    BY DEF Symbols
  <2>3. CASE "width" \in d.star
    <3>1. c = <<"*">>
      BY <2>1, <2>3
    <3> QED
      BY <2>2, <2>3, <3>1
  <2>4. CASE "width" \notin d.star
    <3>1. c \in Seq(Numerals)
      BY <2>1, <2>4
    <3> HIDE DEF c, S
    <3> QED
      BY <1>3, <2>4, <3>1
  <2> HIDE DEF c, S
  <2> QED
    BY ONLY <2>3, <2>4
<1>5. /\ e \in Seq(S) /\ Len(e) \in Nat
      /\ Len(e) = 0 => "prec" \notin d.star
      /\ Len(e) > 0 => e[1] = "."
      /\ IF "prec" \in d.star THEN Len(e) = 2 /\ e[2] = "*"
         ELSE \A i \in 2 .. Len(e) : isdigit(e[i])
  <2>0. <<>> \in Seq(S) /\ <<".", "*">> \in Seq(S) /\ <<".">> \in Seq(S)
    BY DEF Symbols
  <2>1. CASE e = <<>> /\ "prec" \notin d.star
    BY <2>0, <2>1
  <2>2. CASE e = <<".", "*">> /\ "prec" \in d.star
    BY <2>0, <2>2
  <2>3. ASSUME "prec" \notin d.star, NEW q \in Seq(Numerals), e = <<".">> \o q
        PROVE  /\ e \in Seq(S) /\ Len(e) > 0 /\ Len(e) \in Nat /\ e[1] = "."
               /\ \A i \in 2 .. Len(e) : isdigit(e[i])
    <3> HIDE DEF e, S
    <3>1. q \in Seq(S) /\ Len(q) \in Nat /\ \A i \in 1 .. Len(q) : isdigit(q[i])
      BY <1>3
    <3>2. e \in Seq(S) /\ Len(e) = 1 + Len(q) /\ e[1] = "."
          /\ \A i \in 2 .. Len(e) : e[i] = q[i - 1]
      BY <2>0, <2>3, <3>1
    <3>3. \A i \in 2 .. Len(e) : i - 1 \in 1 .. Len(q)
      BY <3>1, <3>2
    <3> QED
      BY <3>1, <3>2, <3>3
  <2>4. \/ e = <<>> /\ "prec" \notin d.star
        \/ e = <<".", "*">> /\ "prec" \in d.star
        \/ "prec" \notin d.star /\ (\E q \in Seq(Numerals) : e = <<".">> \o q)
    <3>1. \/ SpelledPrec(d) = <<>> /\ "prec" \notin d.star
          \/ SpelledPrec(d) = <<".", "*">> /\ "prec" \in d.star
          \/ /\ "prec" \notin d.star
             /\ \E q \in Seq(Numerals) : SpelledPrec(d) = <<".">> \o q
      BY ONLY d \in Item, IsDirective(d), SpelledParts, Zenon
    <3> QED
      BY ONLY <3>1
  <2> HIDE DEF e, S
  <2> QED
    BY <2>1, <2>2, <2>3, <2>4
<1>6. f \in Seq(S) /\ (Len(f) = 0 \/ (Len(f) = 1 /\ f[1] \in {"h", "l", "L"}))
  <2>1. f \in {<<>>, <<"h">>, <<"l">>, <<"L">>}
    BY Parts
  <2>2. \A x \in {"h", "l", "L"} : x \in S
    BY DEF Symbols
  <2>3. <<>> \in Seq(S) /\ <<"h">> \in Seq(S) /\ <<"l">> \in Seq(S) /\ <<"L">> \in Seq(S)
    <3> HIDE DEF S
    <3> QED
      BY <2>2
  <2> HIDE DEF f, S
  <2>4. CASE f = <<>>
    <3>1. Len(f) = 0
      BY <2>4
    <3>2. f \in Seq(S)
      BY ONLY <2>3, <2>4
    <3> QED
      BY ONLY <3>1, <3>2
  <2>5. CASE f = <<"h">>
    BY <2>3, <2>5
  <2>6. CASE f = <<"l">>
    BY <2>3, <2>6
  <2>7. CASE f = <<"L">>
    BY <2>3, <2>7
  <2> QED
    BY ONLY <2>1, <2>4, <2>5, <2>6, <2>7
<1>7. g \in Seq(S) /\ Len(g) = 1 /\ g[1] = d.conv
  <2>1. d.conv \in S
    BY Parts DEF Symbols
  <2> HIDE DEF S
  <2> QED
    BY <2>1
<1>8. s = a \o b \o c \o e \o f \o g
  BY DEF SpelledItem
<1>9. WidthAt(d) = 2 + Len(b) /\ DotAt(d) = 2 + Len(b) + Len(c)
      /\ ModAt(d) = 2 + Len(b) + Len(c) + Len(e) /\ ConvAt(d) = Len(s)
  BY DEF WidthAt, DotAt, ModAt, ConvAt
<1> HIDE DEF a, b, c, e, f, g, S
<1>10. /\ s \in Seq(S) /\ Len(s) = Len(a) + Len(b) + Len(c) + Len(e) + Len(f) + Len(g)
       /\ \A i \in 1 .. Len(a) : s[i] = a[i]
       /\ \A i \in 1 .. Len(b) : s[Len(a) + i] = b[i]
       /\ \A i \in 1 .. Len(c) : s[Len(a) + Len(b) + i] = c[i]
       /\ \A i \in 1 .. Len(e) : s[Len(a) + Len(b) + Len(c) + i] = e[i]
       /\ \A i \in 1 .. Len(f) : s[Len(a) + Len(b) + Len(c) + Len(e) + i] = f[i]
       /\ \A i \in 1 .. Len(g) : s[Len(a) + Len(b) + Len(c) + Len(e) + Len(f) + i] = g[i]
  <2> HIDE DEF s
  <2>1. a \in Seq(S) /\ b \in Seq(S) /\ c \in Seq(S) /\ e \in Seq(S) /\ f \in Seq(S) /\ g \in Seq(S)
    BY ONLY <1>1, <1>2, <1>4, <1>5, <1>6, <1>7
  <2>2. Six(S, a, b, c, e, f, g)
    BY ONLY <2>1 DEF Six
  <2>3. SixIn(S, a, b, c, e, f, g, a \o b \o c \o e \o f \o g)
    BY ONLY <2>2, Chain
  <2>4. SixIn(S, a, b, c, e, f, g, s)
    BY ONLY <1>8, <2>3
  <2> QED
    BY ONLY <2>4 DEF SixIn
<1>11. /\ ConvAt(d) = ModAt(d) + Len(f) /\ Len(b) \in Nat /\ Len(c) \in Nat /\ Len(e) \in Nat
       /\ Len(f) \in 0 .. 1 /\ Len(a) = 1
  BY <1>1, <1>2, <1>4, <1>5, <1>6, <1>7, <1>9, <1>10
<1> HIDE DEF s
<1>12. s[1] = "%"
  BY <1>1, <1>10
<1>13. ASSUME NEW j \in 2 .. WidthAt(d) - 1 PROVE s[j] \in FlagChars
  <2>1. j - 1 \in 1 .. Len(b) /\ Len(a) + (j - 1) = j
    BY <1>9, <1>11
  <2> QED
    BY <1>2, <1>10, <2>1
<1>14. IF "width" \in d.star
       THEN DotAt(d) = WidthAt(d) + 1 /\ s[WidthAt(d)] = "*"
       ELSE \A j \in WidthAt(d) .. DotAt(d) - 1 : isdigit(s[j])
  <2>1. ASSUME NEW j \in WidthAt(d) .. DotAt(d) - 1
        PROVE  j - WidthAt(d) + 1 \in 1 .. Len(c) /\ Len(a) + Len(b) + (j - WidthAt(d) + 1) = j
    BY <1>9, <1>11
  <2>2. ASSUME NEW j \in WidthAt(d) .. DotAt(d) - 1 PROVE s[j] = c[j - WidthAt(d) + 1]
    BY <1>10, <2>1
  <2>3. CASE "width" \in d.star
    <3>0. Len(c) = 1 /\ c[1] = "*"
      BY ONLY <1>4, <2>3
    <3>1. DotAt(d) = WidthAt(d) + 1 /\ WidthAt(d) - WidthAt(d) + 1 = 1
          /\ WidthAt(d) \in WidthAt(d) .. DotAt(d) - 1
      BY ONLY <1>9, <1>11, <3>0
    <3> QED
      BY ONLY <2>2, <2>3, <3>0, <3>1
  <2>4. CASE "width" \notin d.star
    BY <1>4, <2>1, <2>2, <2>4
  <2> QED
    BY <2>3, <2>4
<1>15. ASSUME NEW j \in DotAt(d) .. ModAt(d) - 1
       PROVE  j - DotAt(d) + 1 \in 1 .. Len(e) /\ s[j] = e[j - DotAt(d) + 1]
  <2>1. j - DotAt(d) + 1 \in 1 .. Len(e) /\ Len(a) + Len(b) + Len(c) + (j - DotAt(d) + 1) = j
    BY <1>9, <1>11
  <2> QED
    BY <1>10, <2>1
<1>16. ModAt(d) > DotAt(d) => s[DotAt(d)] = "."
  <2> SUFFICES ASSUME ModAt(d) > DotAt(d) PROVE s[DotAt(d)] = "."
    OBVIOUS
  <2>1. DotAt(d) \in DotAt(d) .. ModAt(d) - 1 /\ DotAt(d) - DotAt(d) + 1 = 1 /\ Len(e) > 0
    BY <1>9, <1>11
  <2> QED
    BY <1>5, <1>15, <2>1
<1>17. IF "prec" \in d.star
       THEN ModAt(d) = DotAt(d) + 2 /\ s[DotAt(d) + 1] = "*"
       ELSE \A j \in DotAt(d) + 1 .. ModAt(d) - 1 : isdigit(s[j])
  <2>1. CASE "prec" \in d.star
    <3>0. Len(e) = 2 /\ e[2] = "*"
      BY ONLY <1>5, <2>1
    <3>1. ModAt(d) = DotAt(d) + 2 /\ DotAt(d) + 1 \in DotAt(d) .. ModAt(d) - 1
          /\ (DotAt(d) + 1) - DotAt(d) + 1 = 2
      BY ONLY <1>9, <1>11, <3>0
    <3> QED
      BY ONLY <1>15, <2>1, <3>0, <3>1
  <2>2. CASE "prec" \notin d.star
    <3> SUFFICES ASSUME NEW j \in DotAt(d) + 1 .. ModAt(d) - 1 PROVE isdigit(s[j])
      BY <2>2
    <3>1. j \in DotAt(d) .. ModAt(d) - 1 /\ j - DotAt(d) + 1 > 1
      BY <1>9, <1>11
    <3>2. j - DotAt(d) + 1 \in 2 .. Len(e)
      BY <1>11, <1>15, <3>1
    <3> QED
      BY <1>5, <1>15, <2>2, <3>1, <3>2
  <2> QED
    BY <2>1, <2>2
<1>18. ModAt(d) = DotAt(d) => "prec" \notin d.star
  BY <1>5, <1>9, <1>11
<1>19. \/ ConvAt(d) = ModAt(d)
       \/ ConvAt(d) = ModAt(d) + 1 /\ s[ModAt(d)] \in {"h", "l", "L"}
  <2>1. Len(a) + Len(b) + Len(c) + Len(e) + 1 = ModAt(d)
    BY <1>9, <1>11
  <2>2. Len(f) = 1 => s[ModAt(d)] = f[1]
    BY <1>10, <2>1
  <2>3. Len(f) = 0 \/ (Len(f) = 1 /\ f[1] \in {"h", "l", "L"})
    BY ONLY <1>6
  <2>4. ConvAt(d) = ModAt(d) + Len(f) /\ ModAt(d) \in Int
    BY ONLY <1>9, <1>11
  <2>5. CASE Len(f) = 0
    BY ONLY <2>4, <2>5
  <2>6. CASE Len(f) = 1 /\ f[1] \in {"h", "l", "L"}
    <3>1. s[ModAt(d)] \in {"h", "l", "L"}
      BY ONLY <2>2, <2>6, Zenon
    <3>2. ConvAt(d) = ModAt(d) + 1
      BY ONLY <2>4, <2>6
    <3> QED
      BY ONLY <3>1, <3>2, Zenon
  <2> QED
    BY ONLY <2>3, <2>5, <2>6
<1>20. s[ConvAt(d)] = d.conv
  <2>1. Len(a) + Len(b) + Len(c) + Len(e) + Len(f) + 1 = ConvAt(d)
    BY <1>9, <1>11
  <2>2. s[ConvAt(d)] = g[1]
    BY <1>7, <1>10, <2>1
  <2> QED
    BY <1>7, <2>2
<1>21. 2 <= WidthAt(d) /\ WidthAt(d) <= DotAt(d) /\ DotAt(d) <= ModAt(d) /\ ModAt(d) <= ConvAt(d)
       /\ WidthAt(d) \in Nat /\ DotAt(d) \in Nat /\ ModAt(d) \in Nat /\ ConvAt(d) \in Nat
  BY <1>9, <1>11
<1> QED
  BY ONLY <1>10, <1>12, <1>13, <1>14, <1>16, <1>17, <1>18, <1>19, <1>20, <1>21, Zenon DEF Layout, s, S

\* How many arguments a directive takes before its value.
WidthArgs(d) == IF "width" \in d.star THEN 1 ELSE 0
PrecArgs(d) == IF "prec" \in d.star THEN 1 ELSE 0
ValueArgs(d) == IF d.conv \in {"%", "w", "?"} THEN 0 ELSE 1

\* What is where in the arguments of a directive.
ArgLayout(d) ==
    /\ ArgsOf(d) \in Seq(Values) /\ Len(ArgsOf(d)) = WidthArgs(d) + PrecArgs(d) + ValueArgs(d)
    /\ "width" \in d.star => ArgsOf(d)[1] = d.width
    /\ "prec" \in d.star => ArgsOf(d)[WidthArgs(d) + 1] = d.prec
    /\ d.conv \notin {"%", "w", "?"} => ArgsOf(d)[WidthArgs(d) + PrecArgs(d) + 1] = d.value

\* Those are the arguments of every directive.
LEMMA ArgsLaidOut ==
    ASSUME NEW d \in Item, IsDirective(d) PROVE ArgLayout(d)
<1> DEFINE a == IF "width" \in d.star THEN <<d.width>> ELSE <<>>
           b == IF "prec" \in d.star THEN <<d.prec>> ELSE <<>>
           c == IF d.conv \in {"%", "w", "?"} THEN <<>> ELSE <<d.value>>
           S == Values
<1>1. ArgsOf(d) = a \o b \o c
  BY DEF ArgsOf
<1>2. d.width \in S /\ d.prec \in S /\ d.value \in S
  BY Parts DEF Values
<1> HIDE DEF S
<1>3. a \in Seq(S) /\ Len(a) = WidthArgs(d) /\ ("width" \in d.star => a[1] = d.width)
  BY <1>2 DEF WidthArgs
<1>4. b \in Seq(S) /\ Len(b) = PrecArgs(d) /\ ("prec" \in d.star => b[1] = d.prec)
  BY <1>2 DEF PrecArgs
<1>5. c \in Seq(S) /\ Len(c) = ValueArgs(d) /\ (d.conv \notin {"%", "w", "?"} => c[1] = d.value)
  BY <1>2 DEF ValueArgs
<1>6. /\ WidthArgs(d) = (IF "width" \in d.star THEN 1 ELSE 0)
      /\ PrecArgs(d) = (IF "prec" \in d.star THEN 1 ELSE 0)
      /\ ValueArgs(d) = (IF d.conv \in {"%", "w", "?"} THEN 0 ELSE 1)
  BY DEF WidthArgs, PrecArgs, ValueArgs
<1> HIDE DEF a, b, c
<1> DEFINE ab == a \o b
<1>7. /\ ab \in Seq(S) /\ Len(ab) = Len(a) + Len(b) /\ Len(a) \in Nat /\ Len(b) \in Nat
      /\ \A i \in 1 .. Len(a) : ab[i] = a[i]
      /\ \A i \in 1 .. Len(b) : ab[Len(a) + i] = b[i]
  <2>1. a \in Seq(S) /\ b \in Seq(S)
    BY ONLY <1>3, <1>4
  <2> QED
    BY ONLY <2>1, Behind
<1>8. ArgsOf(d) = ab \o c
  BY <1>1
<1> HIDE DEF ab
<1>9. /\ ArgsOf(d) \in Seq(S) /\ Len(ArgsOf(d)) = Len(ab) + Len(c)
      /\ \A i \in 1 .. Len(ab) : ArgsOf(d)[i] = ab[i]
      /\ \A i \in 1 .. Len(c) : ArgsOf(d)[Len(ab) + i] = c[i]
  BY <1>5, <1>7, <1>8, Behind
<1>10. "width" \in d.star => ArgsOf(d)[1] = d.width
  BY <1>3, <1>6, <1>7, <1>9
<1>11. "prec" \in d.star => ArgsOf(d)[WidthArgs(d) + 1] = d.prec
  <2> SUFFICES ASSUME "prec" \in d.star PROVE ArgsOf(d)[WidthArgs(d) + 1] = d.prec
    OBVIOUS
  <2>1. Len(b) = 1 /\ b[1] = d.prec /\ Len(a) = WidthArgs(d) /\ Len(a) \in Nat
    BY <1>3, <1>4, <1>6
  <2>2. 1 \in 1 .. Len(b) /\ Len(a) + 1 \in 1 .. Len(ab)
    BY ONLY <1>7, <2>1
  <2>3. ArgsOf(d)[Len(a) + 1] = ab[Len(a) + 1] /\ ab[Len(a) + 1] = b[1]
    BY ONLY <1>7, <1>9, <2>2
  <2> QED
    BY ONLY <2>1, <2>3
<1>12. d.conv \notin {"%", "w", "?"} => ArgsOf(d)[WidthArgs(d) + PrecArgs(d) + 1] = d.value
  BY <1>3, <1>4, <1>5, <1>6, <1>7, <1>9
<1>13. Len(ArgsOf(d)) = WidthArgs(d) + PrecArgs(d) + ValueArgs(d)
  BY <1>3, <1>4, <1>5, <1>6, <1>7, <1>9
<1> QED
  BY ONLY <1>9, <1>10, <1>11, <1>12, <1>13, Zenon DEF ArgLayout, S

\* What ends where ends before the end of the whole.
LEMMA Ascending ==
    ASSUME NEW S, NEW seqs \in Seq(Seq(S)), NEW F, Ends(F, seqs)
    PROVE  \A k \in 0 .. Len(seqs) : F[k] <= F[Len(seqs)]
<1> DEFINE L == Len(seqs)
           Q == {n \in 0 .. L : F[L - n] <= F[L]}
<1>1. L \in Nat /\ F \in [0 .. L -> Nat] /\ \A k \in 1 .. L : F[k] = F[k - 1] + Len(seqs[k])
  <2>1. L \in Nat
    OBVIOUS
  <2>2. F \in [0 .. Len(seqs) -> Nat] /\ \A k \in 1 .. Len(seqs) : F[k] = F[k - 1] + Len(seqs[k])
    BY Zenon DEF Ends
  <2> QED
    BY ONLY <2>1, <2>2
<1>2. \A k \in 1 .. L : Len(seqs[k]) \in Nat
  <2>1. \A k \in 1 .. L : seqs[k] \in Seq(S)
    OBVIOUS
  <2>2. \A s \in Seq(S) : Len(s) \in Nat
    OBVIOUS
  <2> QED
    BY ONLY <2>1, <2>2
<1> HIDE DEF L
<1>3. 0 \in Q
  BY <1>1
<1>4. ASSUME NEW n \in 0 .. L - 1, n \in Q PROVE n + 1 \in Q
  <2>1. L - n \in 1 .. L /\ (L - n) - 1 = L - (n + 1) /\ L - (n + 1) \in 0 .. L /\ n + 1 \in 0 .. L
    BY <1>1
  <2>2. F[L - n] = F[L - (n + 1)] + Len(seqs[L - n])
    BY <1>1, <2>1
  <2>3. F[L - (n + 1)] \in Nat /\ F[L - n] \in Nat /\ F[L] \in Nat /\ Len(seqs[L - n]) \in Nat
    BY <1>1, <1>2, <2>1
  <2>4. F[L - n] <= F[L]
    BY <1>4
  <2> QED
    BY <2>1, <2>2, <2>3, <2>4
<1>5. 0 .. L \subseteq Q
  <2> HIDE DEF Q
  <2> QED
    BY ONLY <1>1, <1>3, <1>4, ByRounds
<1>6. ASSUME NEW k \in 0 .. L PROVE F[k] <= F[L]
  <2>1. L - k \in 0 .. L /\ L - (L - k) = k
    BY <1>1
  <2> QED
    BY <1>5, <2>1
<1> QED
  BY <1>6 DEF L

Spellings(items) == [i \in DOMAIN items |-> SpelledItem(items[i])]
ArgLists(items) == [i \in DOMAIN items |-> ArgsOf(items[i])]

\* Where the items of a program end in its format and in its arguments.
Chars(items) == CHOOSE F : Ends(F, Spellings(items))
Vals(items) == CHOOSE F : Ends(F, ArgLists(items))

\* F is where the parts of a whole end.
Places(F, whole, parts, L) ==
    /\ F \in [0 .. L -> Nat] /\ F[0] = 0 /\ F[L] = Len(whole)
    /\ \A k \in 0 .. L : F[k] <= F[L]
    /\ \A k \in 1 .. L : F[k] = F[k - 1] + Len(parts[k])
    /\ \A k \in 1 .. L : \A j \in 1 .. Len(parts[k]) : whole[F[k - 1] + j] = parts[k][j]

\* Flattened, with the ends as one function.
LEMMA PlacesOf ==
    ASSUME NEW S, NEW parts \in Seq(Seq(S))
    PROVE  /\ FlattenSeq(parts) \in Seq(S)
           /\ Places(CHOOSE F : Ends(F, parts), FlattenSeq(parts), parts, Len(parts))
<1>1. FlattenSeq(parts) \in Seq(S) /\ \E F : Ends(F, parts)
  BY Flattened
<1> DEFINE F == CHOOSE F : Ends(F, parts)
<1>2. Ends(F, parts)
  BY <1>1
<1> HIDE DEF F
<1>3. \A k \in 0 .. Len(parts) : F[k] <= F[Len(parts)]
  BY <1>2, Ascending
<1>4. Places(F, FlattenSeq(parts), parts, Len(parts))
  BY ONLY <1>2, <1>3 DEF Ends, Places
<1> QED
  BY <1>1, <1>4 DEF F

\* A literal is one character and takes no argument.
LEMMA LiteralLaidOut ==
    ASSUME NEW item \in Item, ~IsDirective(item)
    PROVE  /\ SpelledItem(item) = <<item.char>> /\ item.char \in STRING /\ item.char # "%"
           /\ ArgsOf(item) = <<>>
BY Parts DEF SpelledItem, ArgsOf

\* Where the items of a program are in its format, and their arguments in the list.
LEMMA ProgramLaidOut ==
    ASSUME NEW items \in Seq(Item)
    PROVE  /\ Spelled(items) \in Seq(Symbols) /\ Args(items) \in Seq(Values)
           /\ Places(Chars(items), Spelled(items), Spellings(items), Len(items))
           /\ Places(Vals(items), Args(items), ArgLists(items), Len(items))
<1>1. Len(items) \in Nat /\ DOMAIN items = 1 .. Len(items)
      /\ \A i \in 1 .. Len(items) : items[i] \in Item
  OBVIOUS
<1>2. ASSUME NEW item \in Item PROVE SpelledItem(item) \in Seq(Symbols) /\ ArgsOf(item) \in Seq(Values)
  <2>1. CASE IsDirective(item)
    BY <2>1, LaidOut, ArgsLaidOut DEF Layout, ArgLayout
  <2>2. CASE ~IsDirective(item)
    <3>1. SpelledItem(item) = <<item.char>> /\ item.char \in Symbols /\ ArgsOf(item) = <<>>
      BY <2>2, LiteralLaidOut DEF Symbols
    <3> QED
      BY <3>1
  <2> QED
    BY <2>1, <2>2
<1>3. Spellings(items) \in Seq(Seq(Symbols)) /\ Len(Spellings(items)) = Len(items)
  <2>1. Spellings(items) \in [1 .. Len(items) -> Seq(Symbols)]
    BY <1>1, <1>2 DEF Spellings
  <2> HIDE DEF Spellings
  <2> QED
    BY <1>1, <2>1
<1>4. ArgLists(items) \in Seq(Seq(Values)) /\ Len(ArgLists(items)) = Len(items)
  <2>1. ArgLists(items) \in [1 .. Len(items) -> Seq(Values)]
    BY <1>1, <1>2 DEF ArgLists
  <2> HIDE DEF ArgLists
  <2> QED
    BY <1>1, <2>1
<1>5. Spelled(items) = FlattenSeq(Spellings(items)) /\ Args(items) = FlattenSeq(ArgLists(items))
  BY DEF Spelled, Spellings, Args, ArgLists
<1>6. FlattenSeq(Spellings(items)) \in Seq(Symbols)
      /\ Places(Chars(items), FlattenSeq(Spellings(items)), Spellings(items), Len(Spellings(items)))
  <2> DEFINE parts == Spellings(items)
             S == Symbols
  <2>1. parts \in Seq(Seq(S))
    BY <1>3
  <2> HIDE DEF parts, S
  <2>2. /\ FlattenSeq(parts) \in Seq(S)
        /\ Places(CHOOSE F : Ends(F, parts), FlattenSeq(parts), parts, Len(parts))
    BY ONLY <2>1, PlacesOf
  <2> QED
    BY ONLY <2>2 DEF parts, S, Chars
<1>7. FlattenSeq(ArgLists(items)) \in Seq(Values)
      /\ Places(Vals(items), FlattenSeq(ArgLists(items)), ArgLists(items), Len(ArgLists(items)))
  <2> DEFINE parts == ArgLists(items)
             S == Values
  <2>1. parts \in Seq(Seq(S))
    BY <1>4
  <2> HIDE DEF parts, S
  <2>2. /\ FlattenSeq(parts) \in Seq(S)
        /\ Places(CHOOSE F : Ends(F, parts), FlattenSeq(parts), parts, Len(parts))
    BY ONLY <2>1, PlacesOf
  <2> QED
    BY ONLY <2>2 DEF parts, S, Vals
<1> QED
  BY ONLY <1>3, <1>4, <1>5, <1>6, <1>7

(***************************************************************************)
(* The texts that fmtint(), fmtstr() and fmtfp() print.                    *)
(***************************************************************************)

\* Times() repeats a character.
LEMMA TimesType ==
    ASSUME NEW n \in Int, NEW S, NEW c \in S
    PROVE  /\ Times(n, c) \in Seq(S) /\ Len(Times(n, c)) = Larger(n, 0)
           /\ \A i \in 1 .. Larger(n, 0) : Times(n, c)[i] = c
<1>1. CASE n >= 0
  <2>1. Times(n, c) \in [1 .. n -> S] /\ n \in Nat /\ Larger(n, 0) = n
    BY <1>1 DEF Times, Larger
  <2>2. Times(n, c) \in Seq(S) /\ Len(Times(n, c)) = n
    BY <2>1
  <2>3. \A i \in 1 .. n : Times(n, c)[i] = c
    BY DEF Times
  <2> QED
    BY <2>1, <2>2, <2>3
<1>2. CASE n < 0
  <2>1. 1 .. n = {} /\ Larger(n, 0) = 0 /\ 1 .. 0 = {}
    BY <1>2 DEF Larger
  <2>2. Times(n, c) \in [1 .. 0 -> S]
    BY <2>1 DEF Times
  <2>3. Times(n, c) \in Seq(S) /\ Len(Times(n, c)) = 0
    BY <2>2
  <2> QED
    BY <2>1, <2>3
<1> QED
  BY <1>1, <1>2

\* What is left of a number when its last digit is taken away, time and again.
Divisible(T, b) == \A x \in T : x \div b \in T

\* Rests() divides again and again.
LEMMA RestsDef ==
    ASSUME NEW T, NEW u \in T, NEW b, Divisible(T, b)
    PROVE  /\ Rests(u, b) \in [0 .. 20 -> T] /\ Rests(u, b)[0] = u
           /\ \A n \in 1 .. 20 : Rests(u, b)[n] = Rests(u, b)[n - 1] \div b
<1> DEFINE step == [i \in 1 .. 20 |-> [x \in T |-> x \div b]]
           Is(f) == f = [n \in 0 .. 20 |-> IF n = 0 THEN u ELSE f[n - 1] \div b]
<1>1. step \in [1 .. 20 -> [T -> T]]
  BY DEF Divisible
<1>2. \A i \in 1 .. 20 : \A x \in T : step[i][x] = x \div b
  OBVIOUS
<1> HIDE DEF step
<1>3. PICK g : Iterates(g, 20, T, u, step)
  BY ONLY u \in T, <1>1, Recursion
<1>4. g \in [0 .. 20 -> T] /\ g[0] = u /\ \A n \in 1 .. 20 : g[n] = g[n - 1] \div b
  <2>1. \A n \in 1 .. 20 : n - 1 \in 0 .. 20
    OBVIOUS
  <2> QED
    BY <1>2, <1>3, <2>1 DEF Iterates
<1>5. Is(g)
  <2>1. \A n \in 0 .. 20 : n = 0 \/ n \in 1 .. 20
    OBVIOUS
  <2> QED
    BY <1>4, <2>1
<1> DEFINE F == CHOOSE f : Is(f)
<1>6. Is(F)
  <2> HIDE DEF Is
  <2> QED
    BY <1>5
<1>7. Rests(u, b) = F
  BY DEF Rests
<1> HIDE DEF F
<1>8. F = [n \in 0 .. 20 |-> F[n]] /\ F[0] = u /\ \A n \in 1 .. 20 : F[n] = F[n - 1] \div b
  <2>1. 0 \in 0 .. 20 /\ \A n \in 1 .. 20 : n \in 0 .. 20 /\ n # 0
    OBVIOUS
  <2> QED
    BY <1>6, <2>1
<1>9. \A n \in 1 .. 20 : F[n - 1] \in T => F[n] = step[n][F[n - 1]]
  BY <1>2, <1>8
<1>10. Iterates(F, 20, T, u, step)
  BY ONLY u \in T, <1>1, <1>8, <1>9, Recursive
<1> QED
  BY <1>7, <1>8, <1>10 DEF Iterates

\* The first rest that is 0, or the last one there is room for.
LEMMA PlaceIs ==
    ASSUME NEW u \in Int, NEW b \in Nat \ {0}
    PROVE  /\ Place(u, b) \in 1 .. 19
           /\ Rests(u, b)[Place(u, b)] = 0 \/ Place(u, b) = 19
<1> DEFINE rest == Rests(u, b)
           Good(n) == /\ rest[n] = 0 \/ n = 20
                      /\ \A m \in 1 .. n - 1 : rest[m] # 0
           Q == {n \in 0 .. 19 : (\E m \in 1 .. 20 : Good(m)) \/ \A m \in 1 .. n : rest[m] # 0}
<1> HIDE DEF rest
<1>1. 0 \in Q
  OBVIOUS
<1>2. ASSUME NEW n \in 0 .. 18, n \in Q PROVE n + 1 \in Q
  <2>1. CASE \E m \in 1 .. 20 : Good(m)
    BY <2>1
  <2>2. CASE (\A m \in 1 .. n : rest[m] # 0) /\ rest[n + 1] = 0
    <3>1. (n + 1) - 1 = n /\ n + 1 \in 1 .. 20
      OBVIOUS
    <3>2. Good(n + 1)
      BY <2>2, <3>1
    <3> HIDE DEF Good
    <3> QED
      BY <3>1, <3>2
  <2>3. CASE (\A m \in 1 .. n : rest[m] # 0) /\ rest[n + 1] # 0
    <3>1. \A m \in 1 .. n + 1 : m \in 1 .. n \/ m = n + 1
      OBVIOUS
    <3> QED
      BY <2>3, <3>1
  <2> QED
    BY <1>2, <2>1, <2>2, <2>3
<1>3. 0 .. 19 \subseteq Q
  <2>1. \A n \in 0 .. 19 - 1 : n \in Q => n + 1 \in Q
    BY <1>2
  <2> HIDE DEF Q
  <2> QED
    BY ONLY <1>1, <2>1, ByRounds
<1>4. \E m \in 1 .. 20 : Good(m)
  <2>1. 19 \in Q
    <3> HIDE DEF Q
    <3> QED
      BY <1>3
  <2>4. \/ \E m \in 1 .. 20 : Good(m)
        \/ \A m \in 1 .. 19 : rest[m] # 0
    <3> HIDE DEF Good
    <3> QED
      BY <2>1
  <2>2. (\A m \in 1 .. 19 : rest[m] # 0) => Good(20)
    OBVIOUS
  <2>3. 20 \in 1 .. 20
    OBVIOUS
  <2> HIDE DEF Good
  <2> QED
    BY <2>2, <2>3, <2>4
<1> DEFINE place == CHOOSE n \in 1 .. 20 : Good(n)
<1>5. place \in 1 .. 20 /\ Good(place)
  <2> HIDE DEF Good
  <2> QED
    BY <1>4
<1>6. Place(u, b) = IF place = 20 THEN 19 ELSE place
  BY DEF Place, PlaceIn, rest
<1> HIDE DEF place
<1> QED
  BY <1>5, <1>6 DEF rest

\* The digits are characters.
LEMMA DigitChars == \A i \in 1 .. 16 : Lower[i] \in STRING /\ Upper[i] \in STRING
BY PrintedAssumption DEF Printed

\* So is what else the formatter puts in the buffer.
LEMMA OtherChars == \A c \in {" ", "+", "-", ".", "%", "<", "N", "U", "L", ">"} : c \in STRING
BY PrintedAssumption DEF Printed

\* The same, one by one.
LEMMA PlainChars ==
    "0" \in STRING /\ " " \in STRING /\ "+" \in STRING /\ "-" \in STRING /\ "." \in STRING
    /\ "%" \in STRING
<1>1. Lower[1] = "0" /\ 1 \in 1 .. 16
  BY DEF Lower
<1>2. "0" \in STRING
  BY <1>1, DigitChars
<1> QED
  BY <1>2, OtherChars

\* A text of at most one value.
LEMMA OneOf ==
    ASSUME NEW S, NEW c \in S PROVE <<>> \in Seq(S) /\ <<c>> \in Seq(S)
OBVIOUS

\* The texts of at most one character that are used.
LEMMA ShortTexts ==
    /\ <<>> \in Seq(STRING) /\ <<"+">> \in Seq(STRING) /\ <<" ">> \in Seq(STRING)
    /\ <<"-">> \in Seq(STRING) /\ <<".">> \in Seq(STRING) /\ <<"%">> \in Seq(STRING)
<1> DEFINE S == STRING
<1>1. "+" \in S /\ " " \in S /\ "-" \in S /\ "." \in S /\ "%" \in S
  BY PlainChars
<1> HIDE DEF S
<1>2. /\ <<>> \in Seq(S) /\ <<"+">> \in Seq(S) /\ <<" ">> \in Seq(S)
      /\ <<"-">> \in Seq(S) /\ <<".">> \in Seq(S) /\ <<"%">> \in Seq(S)
  BY ONLY <1>1, OneOf
<1> QED
  BY ONLY <1>2 DEF S

\* The digits of a number, the most significant first.
LEMMA DigitsType ==
    ASSUME NEW u \in Int, NEW b \in 1 .. 16, NEW caps
    PROVE  /\ Digits(u, b, caps) \in Seq(STRING) /\ Len(Digits(u, b, caps)) = Place(u, b)
           /\ \A j \in 1 .. Place(u, b) :
                 Digits(u, b, caps)[j]
                     = (IF caps THEN Upper ELSE Lower)[(Rests(u, b)[Place(u, b) - j] % b) + 1]
<1> DEFINE P == Place(u, b)
           rest == Rests(u, b)
           chars == IF caps THEN Upper ELSE Lower
<1>1. P \in 1 .. 19
  BY PlaceIs
<1>2. rest \in [0 .. 20 -> Int]
  <2>1. Divisible(Int, b) /\ u \in Int
    BY DEF Divisible
  <2> QED
    BY <2>1, RestsDef
<1>3. ASSUME NEW i \in 0 .. P - 1 PROVE (rest[i] % b) + 1 \in 1 .. 16 /\ chars[(rest[i] % b) + 1] \in STRING
  <2>1. rest[i] \in Int
    BY <1>1, <1>2
  <2>2. rest[i] % b \in 0 .. b - 1
    BY <2>1
  <2>3. (rest[i] % b) + 1 \in 1 .. 16
    BY <2>2
  <2> HIDE DEF rest
  <2> QED
    BY <2>3, DigitChars
<1>4. \A i \in 0 .. P - 1 : Convert(u, b, caps)[i] = chars[(rest[i] % b) + 1]
  BY DEF Convert
<1> HIDE DEF P, rest, chars
<1>5. ASSUME NEW j \in 1 .. P PROVE P - j \in 0 .. P - 1
  BY <1>1
<1>6. Digits(u, b, caps) = [j \in 1 .. P |-> Convert(u, b, caps)[P - j]]
  BY DEF Digits, P
<1>7. Digits(u, b, caps) \in [1 .. P -> STRING]
  BY <1>3, <1>4, <1>5, <1>6
<1>8. \A j \in 1 .. P : Digits(u, b, caps)[j] = chars[(rest[P - j] % b) + 1]
  BY <1>4, <1>5, <1>6
<1>9. Digits(u, b, caps) \in Seq(STRING) /\ Len(Digits(u, b, caps)) = P
  BY <1>1, <1>7
<1> QED
  BY <1>8, <1>9 DEF P, rest, chars

Filled(s, c) == s \in Seq(STRING) /\ \A i \in 1 .. Len(s) : s[i] = c

\* Times() fills with its character.
LEMMA TimesFilled ==
    ASSUME NEW n \in Int, NEW c \in STRING PROVE Filled(Times(n, c), c)
BY TimesType DEF Filled

\* So does a text without characters.
LEMMA EmptyFilled ==
    ASSUME NEW c PROVE Filled(<<>>, c)
BY DEF Filled

\* What fmtint() lays out: blanks, a sign, zeros, digits, blanks.
Negative(value, fl) == "unsigned" \notin fl /\ value < 0

Magnitude(value, fl) == (IF Negative(value, fl) THEN 0 - value ELSE value) % Word

Parted(text, value, b, fl, s1, sign, zeros, s2) ==
    /\ text = s1 \o sign \o zeros \o Digits(Magnitude(value, fl), b, "caps" \in fl) \o s2
    /\ Filled(s1, " ") /\ Filled(zeros, "0") /\ Filled(s2, " ")
    /\ IF Negative(value, fl) THEN sign = <<"-">> ELSE sign \in {<<>>, <<"+">>, <<" ">>}

\* fmtint() prints blanks, sign, zeros, digits and blanks.
LEMMA FmtIntIs ==
    ASSUME NEW value \in Int, NEW b \in 1 .. 16, NEW mn \in Int, NEW mx \in Int, NEW fl
    PROVE  \E s1, sign, zeros, s2 :
              Parted(FmtInt(value, b, mn, mx, fl), value, b, fl, s1, sign, zeros, s2)
<1> DEFINE sign == IF "unsigned" \in fl THEN <<>>
                   ELSE IF value < 0 THEN <<"-">>
                   ELSE IF "+" \in fl THEN <<"+">>
                   ELSE IF " " \in fl THEN <<" ">> ELSE <<>>
           u == (IF sign = <<"-">> THEN 0 - value ELSE value) % Word
           place == Place(u, b)
           m0 == Larger(mx, 0)
           zeros == Larger(m0 - place, 0)
           room == Larger(mn - Larger(m0, place) - Len(sign), 0)
           zpadlen == IF "0" \in fl THEN Larger(zeros, room) ELSE zeros
           spaces == Times(IF "0" \in fl THEN 0 ELSE room, " ")
           s1 == IF "-" \in fl THEN <<>> ELSE spaces
           s2 == IF "-" \in fl THEN spaces ELSE <<>>
<1>1. FmtInt(value, b, mn, mx, fl)
          = s1 \o sign \o Times(zpadlen, "0") \o Digits(u, b, "caps" \in fl) \o s2
  BY DEF FmtInt
<1>2. /\ sign = <<"-">> <=> Negative(value, fl)
      /\ Negative(value, fl) \/ sign \in {<<>>, <<"+">>, <<" ">>}
      /\ Len(sign) \in {0, 1}
  BY DEF Negative
<1> HIDE DEF sign
<1>3. u = Magnitude(value, fl)
  BY <1>2 DEF Magnitude
<1>4. u \in Int
  BY <1>3, SnprintfAssumption DEF Magnitude
<1> HIDE DEF u
<1>5. place \in Int
  BY <1>4, PlaceIs
<1> HIDE DEF place
<1>6. \A p, q \in Int : Larger(p, q) \in Int
  BY DEF Larger
<1>7. Len(sign) \in Int
  <2>1. Len(sign) \in {0, 1}
    BY <1>2
  <2> QED
    BY ONLY <2>1
<1>8. zpadlen \in Int /\ room \in Int
  <2>1. m0 \in Int
    BY <1>6
  <2> HIDE DEF m0
  <2>2. zeros \in Int
    BY <1>5, <1>6, <2>1
  <2>3. Larger(m0, place) \in Int
    BY <1>5, <1>6, <2>1
  <2>4. mn - Larger(m0, place) - Len(sign) \in Int
    BY <1>7, <2>3
  <2>5. room \in Int
    BY <1>6, <2>4
  <2> HIDE DEF zeros, room
  <2> QED
    BY <1>6, <2>2, <2>5
<1> HIDE DEF zpadlen, room
<1>9. Filled(spaces, " ") /\ Filled(Times(zpadlen, "0"), "0")
  <2>1. " " \in STRING /\ "0" \in STRING
    BY PlainChars
  <2>2. (IF "0" \in fl THEN 0 ELSE room) \in Int
    BY <1>8
  <2> QED
    BY <1>8, <2>1, <2>2, TimesFilled
<1> HIDE DEF spaces
<1>10. Filled(s1, " ") /\ Filled(s2, " ")
  BY <1>9, EmptyFilled
<1> HIDE DEF s1, s2
<1>11. Parted(FmtInt(value, b, mn, mx, fl), value, b, fl, s1, sign, Times(zpadlen, "0"), s2)
  BY ONLY <1>1, <1>2, <1>3, <1>9, <1>10 DEF Parted
<1> QED
  BY <1>11

\* Where the parts of such a text are.
LEMMA PartedIs ==
    ASSUME NEW text, NEW value \in Int, NEW b \in 1 .. 16, NEW fl,
           NEW s1, NEW sign, NEW zeros, NEW s2, Parted(text, value, b, fl, s1, sign, zeros, s2)
    PROVE  LET digits == Digits(Magnitude(value, fl), b, "caps" \in fl)
           IN  SixIn(STRING, <<>>, s1, sign, zeros, digits, s2, text)
<1> DEFINE digits == Digits(Magnitude(value, fl), b, "caps" \in fl)
<1>1. Magnitude(value, fl) \in Int
  BY SnprintfAssumption DEF Magnitude
<1>2. digits \in Seq(STRING)
  BY <1>1, DigitsType
<1>3. s1 \in Seq(STRING) /\ zeros \in Seq(STRING) /\ s2 \in Seq(STRING)
  BY DEF Parted, Filled
<1>4. sign \in Seq(STRING)
  <2>1. sign \in {<<>>, <<"+">>, <<" ">>, <<"-">>}
    BY DEF Parted
  <2>2. <<>> \in Seq(STRING) /\ <<"+">> \in Seq(STRING) /\ <<" ">> \in Seq(STRING)
        /\ <<"-">> \in Seq(STRING)
    BY ShortTexts
  <2>3. CASE sign = <<>>
    BY ONLY <2>2, <2>3
  <2>4. CASE sign = <<"+">>
    BY ONLY <2>2, <2>4
  <2>5. CASE sign = <<" ">>
    BY ONLY <2>2, <2>5
  <2>6. CASE sign = <<"-">>
    BY ONLY <2>2, <2>6
  <2> QED
    BY ONLY <2>1, <2>3, <2>4, <2>5, <2>6
<1>5. <<>> \in Seq(STRING) /\ <<>> \o s1 = s1
  BY <1>3
<1> HIDE DEF digits
<1>6. text = <<>> \o s1 \o sign \o zeros \o digits \o s2
  BY <1>5 DEF Parted, digits
<1>7. Six(STRING, <<>>, s1, sign, zeros, digits, s2)
  BY <1>2, <1>3, <1>4, <1>5 DEF Six
<1>8. SixIn(STRING, <<>>, s1, sign, zeros, digits, s2, <<>> \o s1 \o sign \o zeros \o digits \o s2)
  BY ONLY <1>7, Chain
<1> QED
  BY ONLY <1>6, <1>8 DEF digits

\* fmtint() prints a text.
LEMMA FmtIntType ==
    ASSUME NEW value \in Int, NEW b \in 1 .. 16, NEW mn \in Int, NEW mx \in Int, NEW fl
    PROVE  FmtInt(value, b, mn, mx, fl) \in Seq(STRING)
<1> DEFINE text == FmtInt(value, b, mn, mx, fl)
<1>1. PICK s1, sign, zeros, s2 : Parted(text, value, b, fl, s1, sign, zeros, s2)
  BY FmtIntIs
<1> HIDE DEF text
<1>2. SixIn(STRING, <<>>, s1, sign, zeros, Digits(Magnitude(value, fl), b, "caps" \in fl), s2, text)
  BY <1>1, PartedIs
<1> QED
  BY <1>2 DEF SixIn, text

\* The part of a sequence up to some place.
LEMMA CutType ==
    ASSUME NEW S, NEW s \in Seq(S), NEW n \in Int, n <= Len(s)
    PROVE  /\ SubSeq(s, 1, n) \in Seq(S) /\ Len(SubSeq(s, 1, n)) = Larger(n, 0)
           /\ \A i \in 1 .. Larger(n, 0) : SubSeq(s, 1, n)[i] = s[i]
<1>1. CASE n >= 1
  <2>1. n \in Nat /\ 1 \in 1 .. Len(s) + 1 /\ n \in 0 .. Len(s)
    BY <1>1
  <2>2. SubSeq(s, 1, n) \in Seq(S) /\ Len(SubSeq(s, 1, n)) = n
        /\ \A i \in 1 .. n : SubSeq(s, 1, n)[i] = s[i]
    BY <1>1, <2>1
  <2> QED
    BY <1>1, <2>2 DEF Larger
<1>2. CASE n < 1
  <2>1. SubSeq(s, 1, n) = <<>> /\ Larger(n, 0) = 0
    BY <1>2 DEF Larger
  <2> QED
    BY <2>1
<1> QED
  BY <1>1, <1>2

\* What is printed for a pointer that is 0 is a text.
LEMMA NullText == <<"<", "N", "U", "L", "L", ">">> \in Seq(STRING)
<1>1. "<" \in STRING /\ "N" \in STRING /\ "U" \in STRING /\ "L" \in STRING /\ ">" \in STRING
  BY OtherChars
<1> QED
  BY <1>1

\* fmtstr() prints a text.
LEMMA FmtStrType ==
    ASSUME NEW value \in Seq(STRING), NEW fl, NEW mn \in Int, NEW mx \in Int
    PROVE  FmtStr(value, fl, mn, mx) \in Seq(STRING)
<1> DEFINE text == IF value = Null THEN <<"<", "N", "U", "L", "L", ">">> ELSE value
           blanks == Times(Larger(mn - Len(text), 0), " ")
           all == IF "-" \in fl THEN text \o blanks ELSE blanks \o text
<1>1. text \in Seq(STRING)
  BY NullText
<1>2. FmtStr(value, fl, mn, mx) = SubSeq(all, 1, Smaller(mx, Len(all)))
  BY DEF FmtStr
<1> HIDE DEF text
<1>3. blanks \in Seq(STRING)
  <2>1. Larger(mn - Len(text), 0) \in Int
    BY <1>1 DEF Larger
  <2>2. " " \in STRING
    BY OtherChars
  <2> QED
    BY ONLY <2>1, <2>2, TimesType
<1> HIDE DEF blanks
<1>4. all \in Seq(STRING)
  <2>1. text \o blanks \in Seq(STRING) /\ blanks \o text \in Seq(STRING)
    BY ONLY <1>1, <1>3, Behind
  <2> QED
    BY <2>1
<1> HIDE DEF all
<1>5. Smaller(mx, Len(all)) \in Int /\ Smaller(mx, Len(all)) <= Len(all)
  BY <1>4 DEF Smaller
<1> QED
  BY <1>2, <1>4, <1>5, CutType

\* fmtfp() prints a text.
LEMMA FmtFpType ==
    ASSUME NEW value \in [neg : BOOLEAN, num : Nat, den : Nat \ {0}],
           NEW mn \in Int, NEW mx \in Int, NEW fl
    PROVE  FmtFp(value, mn, mx, fl) \in Seq(STRING)
<1> DEFINE p == IF mx < 0 THEN 6 ELSE Smaller(mx, 9)
           sign == IF value.neg THEN <<"-">>
                   ELSE IF "+" \in fl THEN <<"+">>
                   ELSE IF " " \in fl THEN <<" ">> ELSE <<>>
           rounded == Xround(10^p * (value.num % value.den), value.den)
           carry == IF rounded >= 10^p THEN 1 ELSE 0
           int == Digits((value.num \div value.den) + carry, 10, FALSE)
           frac == Digits(rounded - carry * 10^p, 10, FALSE)
           room == Larger(mn - Len(int) - p - 1 - Len(sign), 0)
           zeros == IF "0" \notin fl \/ "-" \in fl \/ room = 0 THEN 0 ELSE room - Len(sign)
           blanks == IF "0" \in fl THEN <<>> ELSE Times(room, " ")
           point == IF p > 0 THEN <<".">> \o frac ELSE <<>>
           before == IF "-" \in fl THEN <<>> ELSE blanks
           behind == IF "-" \in fl THEN Times(room, " ") ELSE <<>>
<1>1. FmtFp(value, mn, mx, fl)
          = before \o sign \o Times(zeros, "0") \o int \o point \o Times(p - Len(frac), "0") \o behind
  BY DEF FmtFp
<1>2. p \in Nat
  BY DEF Smaller
<1> DEFINE power == 10^p
<1>3. power \in Int
  BY <1>2
<1> HIDE DEF p
<1>4. rounded \in Int
  <2> DEFINE r == power * (value.num % value.den)
  <2>1. value.num % value.den \in Int /\ value.den \in Nat \ {0}
    BY DEF Xround
  <2>2. r \in Int
    <3> DEFINE q == value.num % value.den
    <3> HIDE DEF power, q
    <3>1. power * q \in Int
      BY <1>3, <2>1 DEF q
    <3> QED
      BY <3>1 DEF q, power
  <2>3. rounded = Xround(r, value.den)
    BY DEF power
  <2> HIDE DEF r
  <2> QED
    BY <2>1, <2>2, <2>3 DEF Xround
<1> HIDE DEF rounded
<1>5. carry \in Int /\ rounded - carry * power \in Int
  <2>1. carry \in {0, 1}
    OBVIOUS
  <2> HIDE DEF carry, power
  <2> QED
    BY <1>3, <1>4, <2>1
<1> HIDE DEF carry
<1>6. (value.num \div value.den) + carry \in Int
  BY <1>5
<1>7. int \in Seq(STRING) /\ frac \in Seq(STRING)
  <2>1. 10 \in 1 .. 16
    OBVIOUS
  <2>2. int \in Seq(STRING)
    BY <1>6, <2>1, DigitsType
  <2>3. frac \in Seq(STRING)
    BY <1>5, <2>1, DigitsType DEF power
  <2> QED
    BY <2>2, <2>3
<1> HIDE DEF int, frac
<1>8. " " \in STRING /\ "0" \in STRING /\ "+" \in STRING /\ "-" \in STRING /\ "." \in STRING
  BY PlainChars
<1>9. sign \in Seq(STRING) /\ Len(sign) \in Int /\ Len(int) \in Int /\ Len(frac) \in Int
  <2>1. <<>> \in Seq(STRING) /\ <<"+">> \in Seq(STRING) /\ <<" ">> \in Seq(STRING)
        /\ <<"-">> \in Seq(STRING)
    BY ShortTexts
  <2>2. sign \in Seq(STRING)
    BY <2>1
  <2> HIDE DEF sign
  <2> QED
    BY ONLY <1>7, <2>2
<1> HIDE DEF sign
<1>10. room \in Int
  BY <1>2, <1>9 DEF Larger
<1> HIDE DEF room
<1>11. zeros \in Int /\ p - Len(frac) \in Int
  BY <1>2, <1>9, <1>10
<1> HIDE DEF zeros
<1>12. Times(room, " ") \in Seq(STRING) /\ Times(zeros, "0") \in Seq(STRING)
       /\ Times(p - Len(frac), "0") \in Seq(STRING)
  BY ONLY <1>8, <1>10, <1>11, TimesType
<1>13. point \in Seq(STRING)
  <2>1. <<".">> \in Seq(STRING) /\ <<>> \in Seq(STRING)
    BY ShortTexts
  <2>2. <<".">> \o frac \in Seq(STRING)
    BY ONLY <1>7, <2>1, Behind
  <2> QED
    BY <2>1, <2>2
<1> HIDE DEF point
<1>14. before \in Seq(STRING) /\ behind \in Seq(STRING)
  <2>1. <<>> \in Seq(STRING)
    OBVIOUS
  <2> QED
    BY <1>12, <2>1
<1> HIDE DEF before, behind
<1> DEFINE t1 == Times(zeros, "0")
           t2 == Times(p - Len(frac), "0")
<1>15. t1 \in Seq(STRING) /\ t2 \in Seq(STRING)
  BY <1>12
<1>16. FmtFp(value, mn, mx, fl) = before \o sign \o t1 \o int \o point \o t2 \o behind
  BY <1>1
<1> HIDE DEF t1, t2
<1>17. \A q, r \in Seq(STRING) : q \o r \in Seq(STRING)
  BY Behind
<1> QED
  BY ONLY <1>7, <1>9, <1>13, <1>14, <1>15, <1>16, <1>17

\* The flags and the width end here, and the precision there.
WidthEnd(d) == IF "width" \in d.star THEN WidthAt(d) ELSE DotAt(d)
PrecEnd(d) == IF "prec" \in d.star THEN DotAt(d) + 1 ELSE ModAt(d)

\* How far the loop may have come in a directive, when it is in state s: at its
\* j-th character, and at its t-th argument.
Phase(s, d, j, t) ==
    \/ s = "flags" /\ j \in 2 .. WidthEnd(d) /\ t = 1
    \/ s = "min" /\ j \in WidthAt(d) .. WidthEnd(d) /\ t = 1
    \/ s = "dot" /\ j = DotAt(d) /\ t = WidthArgs(d) + 1
    \/ /\ s = "max" /\ j \in DotAt(d) + 1 .. PrecEnd(d) /\ t = WidthArgs(d) + 1
       /\ DotAt(d) < ModAt(d)
    \/ s = "mod" /\ j = ModAt(d) /\ t = WidthArgs(d) + PrecArgs(d) + 1
    \/ s = "conv" /\ j = ConvAt(d) /\ t = WidthArgs(d) + PrecArgs(d) + 1

\* What may follow the width is no part of it.
LEMMA ConvChars ==
    ASSUME NEW c \in Convs \cup {".", "h", "l", "L"}
    PROVE  c \notin FlagChars /\ ~isdigit(c) /\ c # "*"
BY DigitsAre, NumeralsAre DEF Convs, IntConv, FlagChars

\* What comes behind the width and behind the precision.
LEMMA Behinds ==
    ASSUME NEW d \in Item, IsDirective(d)
    PROVE  /\ SpelledItem(d)[DotAt(d)] \in Convs \cup {".", "h", "l", "L"}
           /\ SpelledItem(d)[ModAt(d)] \in Convs \cup {"h", "l", "L"}
           /\ SpelledItem(d)[DotAt(d)] = "." <=> DotAt(d) < ModAt(d)
           /\ SpelledItem(d)[ModAt(d)] \in {"h", "l", "L"} <=> ConvAt(d) = ModAt(d) + 1
           /\ SpelledItem(d)[ConvAt(d)] = d.conv /\ d.conv \in Convs
<1>1. Layout(d) /\ d.conv \in Convs
  BY LaidOut, Parts
<1>2. d.conv \notin {"h", "l", "L"} /\ d.conv # "."
  BY <1>1 DEF Convs, IntConv
<1>3. SpelledItem(d)[ConvAt(d)] = d.conv
  BY <1>1 DEF Layout
<1>4. DotAt(d) \in Nat /\ ModAt(d) \in Nat /\ DotAt(d) <= ModAt(d)
  BY <1>1 DEF Layout
<1>5. CASE ConvAt(d) = ModAt(d)
  <2>1. SpelledItem(d)[ModAt(d)] = d.conv
    BY <1>3, <1>5
  <2>2. DotAt(d) = ModAt(d) => SpelledItem(d)[DotAt(d)] = d.conv
    BY <2>1
  <2>3. DotAt(d) < ModAt(d) => SpelledItem(d)[DotAt(d)] = "."
    BY <1>1, <1>4 DEF Layout
  <2>4. ConvAt(d) # ModAt(d) + 1
    BY <1>4, <1>5
  <2> QED
    BY ONLY <1>1, <1>2, <1>3, <1>4, <2>1, <2>2, <2>3, <2>4
<1>6. CASE ConvAt(d) = ModAt(d) + 1 /\ SpelledItem(d)[ModAt(d)] \in {"h", "l", "L"}
  <2>1. DotAt(d) = ModAt(d) => SpelledItem(d)[DotAt(d)] \in {"h", "l", "L"}
    BY <1>6
  <2>2. DotAt(d) < ModAt(d) => SpelledItem(d)[DotAt(d)] = "."
    BY <1>1, <1>4 DEF Layout
  <2> QED
    BY ONLY <1>1, <1>2, <1>3, <1>4, <1>6, <2>1, <2>2
<1> QED
  BY <1>1, <1>5, <1>6 DEF Layout

\* DP_S_FLAGS takes a flag, or goes on to the width, within the directive.
LEMMA FlagsPhase ==
    ASSUME NEW d \in Item, IsDirective(d), NEW j, NEW t, Phase("flags", d, j, t)
    PROVE  /\ j \in 1 .. ConvAt(d)
           /\ SpelledItem(d)[j] \in FlagChars => Phase("flags", d, j + 1, t)
           /\ SpelledItem(d)[j] \notin FlagChars => Phase("min", d, j, t)
<1>1. Layout(d)
  BY LaidOut
<1>2. j \in 2 .. WidthEnd(d) /\ t = 1
  BY DEF Phase
<1>3. WidthEnd(d) \in Nat /\ WidthAt(d) <= WidthEnd(d) /\ WidthEnd(d) <= ConvAt(d)
      /\ ConvAt(d) \in Nat
      /\ WidthAt(d) \in Nat
  BY <1>1 DEF Layout, WidthEnd
<1>4. j < WidthAt(d) => SpelledItem(d)[j] \in FlagChars
  <2>1. j < WidthAt(d) => j \in 2 .. WidthAt(d) - 1
    BY <1>2, <1>3
  <2> QED
    BY <1>1, <2>1 DEF Layout
<1>5. SpelledItem(d)[WidthEnd(d)] \notin FlagChars
  <2>1. CASE "width" \in d.star
    BY <1>1, <2>1 DEF Layout, WidthEnd, FlagChars
  <2>2. CASE "width" \notin d.star
    BY <2>2, Behinds, ConvChars DEF WidthEnd
  <2> QED
    BY <2>1, <2>2
<1>6. SpelledItem(d)[j] \in FlagChars => j + 1 \in 2 .. WidthEnd(d)
  BY <1>2, <1>3, <1>5
<1>7. SpelledItem(d)[j] \notin FlagChars => j \in WidthAt(d) .. WidthEnd(d)
  BY <1>2, <1>3, <1>4
<1> QED
  BY <1>2, <1>3, <1>6, <1>7 DEF Phase

\* DP_S_MIN takes a digit, or a star with its argument, or goes on, within the directive.
LEMMA WidthPhase ==
    ASSUME NEW d \in Item, IsDirective(d), NEW j, NEW t, Phase("min", d, j, t)
    PROVE  /\ j \in 1 .. ConvAt(d)
           /\ isdigit(SpelledItem(d)[j]) => Phase("min", d, j + 1, t)
           /\ SpelledItem(d)[j] = "*" =>
                 Phase("dot", d, j + 1, t + 1) /\ t = 1 /\ "width" \in d.star
           /\ ~isdigit(SpelledItem(d)[j]) /\ SpelledItem(d)[j] # "*" => Phase("dot", d, j, t)
<1>1. Layout(d)
  BY LaidOut
<1>2. j \in WidthAt(d) .. WidthEnd(d) /\ t = 1
  BY DEF Phase
<1>3. ~isdigit("*")
  BY DigitsAre, NumeralsAre
<1>4. CASE "width" \in d.star
  <2>1. j = WidthAt(d) /\ SpelledItem(d)[j] = "*" /\ DotAt(d) = j + 1 /\ WidthArgs(d) = 1
    BY <1>1, <1>2, <1>4 DEF Layout, WidthEnd, WidthArgs
  <2>2. j \in 1 .. ConvAt(d)
    BY <1>1, <2>1 DEF Layout
  <2> QED
    BY <1>2, <1>3, <1>4, <2>1, <2>2 DEF Phase
<1>5. CASE "width" \notin d.star
  <2>1. WidthEnd(d) = DotAt(d) /\ WidthArgs(d) = 0
    BY <1>5 DEF WidthEnd, WidthArgs
  <2>2. WidthAt(d) \in Nat /\ DotAt(d) \in Nat /\ WidthAt(d) <= DotAt(d) /\ ConvAt(d) \in Nat
        /\ DotAt(d) <= ConvAt(d) /\ 2 <= WidthAt(d)
    BY <1>1 DEF Layout
  <2>3. j < DotAt(d) => isdigit(SpelledItem(d)[j])
    <3>1. j < DotAt(d) => j \in WidthAt(d) .. DotAt(d) - 1
      BY <1>2, <2>1, <2>2
    <3> QED
      BY <1>1, <1>5, <3>1 DEF Layout
  <2>4. ~isdigit(SpelledItem(d)[DotAt(d)]) /\ SpelledItem(d)[DotAt(d)] # "*"
    BY Behinds, ConvChars
  <2>5. SpelledItem(d)[j] # "*"
    BY <1>2, <1>3, <2>1, <2>2, <2>3, <2>4
  <2>6. isdigit(SpelledItem(d)[j]) => j + 1 \in WidthAt(d) .. WidthEnd(d)
    BY <1>2, <2>1, <2>2, <2>4
  <2>7. ~isdigit(SpelledItem(d)[j]) => j = DotAt(d)
    BY <1>2, <2>1, <2>2, <2>3
  <2>8. j \in 1 .. ConvAt(d)
    BY <1>2, <2>1, <2>2
  <2> QED
    BY <1>2, <2>1, <2>5, <2>6, <2>7, <2>8 DEF Phase
<1> QED
  BY <1>4, <1>5

\* DP_S_DOT finds the point of a precision, or none.
LEMMA DotPhase ==
    ASSUME NEW d \in Item, IsDirective(d), NEW j, NEW t, Phase("dot", d, j, t)
    PROVE  /\ j \in 1 .. ConvAt(d)
           /\ SpelledItem(d)[j] = "." => Phase("max", d, j + 1, t)
           /\ SpelledItem(d)[j] # "." => Phase("mod", d, j, t)
<1>1. Layout(d)
  BY LaidOut
<1>2. j = DotAt(d) /\ t = WidthArgs(d) + 1
  BY DEF Phase
<1>3. WidthAt(d) \in Nat /\ DotAt(d) \in Nat /\ ModAt(d) \in Nat /\ ConvAt(d) \in Nat
      /\ DotAt(d) <= ModAt(d) /\ ModAt(d) <= ConvAt(d) /\ 2 <= WidthAt(d) /\ WidthAt(d) <= DotAt(d)
  BY <1>1 DEF Layout
<1>4. SpelledItem(d)[j] = "." <=> DotAt(d) < ModAt(d)
  BY <1>2, Behinds
<1>5. CASE DotAt(d) < ModAt(d)
  <2>1. j + 1 \in DotAt(d) + 1 .. PrecEnd(d)
    BY <1>1, <1>2, <1>3, <1>5 DEF Layout, PrecEnd
  <2> QED
    BY <1>2, <1>3, <1>4, <1>5, <2>1 DEF Phase
<1>6. CASE ~(DotAt(d) < ModAt(d))
  <2>1. DotAt(d) = ModAt(d) /\ PrecArgs(d) = 0 /\ WidthArgs(d) \in Nat
    BY <1>1, <1>3, <1>6 DEF Layout, PrecArgs, WidthArgs
  <2> QED
    BY <1>2, <1>3, <1>4, <1>6, <2>1 DEF Phase
<1> QED
  BY <1>5, <1>6

\* DP_S_MAX takes a digit, or a star with its argument, or goes on, within the directive.
LEMMA PrecPhase ==
    ASSUME NEW d \in Item, IsDirective(d), NEW j, NEW t, Phase("max", d, j, t)
    PROVE  /\ j \in 1 .. ConvAt(d)
           /\ isdigit(SpelledItem(d)[j]) => Phase("max", d, j + 1, t)
           /\ SpelledItem(d)[j] = "*" =>
                 Phase("mod", d, j + 1, t + 1) /\ t = WidthArgs(d) + 1 /\ "prec" \in d.star
           /\ ~isdigit(SpelledItem(d)[j]) /\ SpelledItem(d)[j] # "*" => Phase("mod", d, j, t)
<1>1. Layout(d)
  BY LaidOut
<1>2. j \in DotAt(d) + 1 .. PrecEnd(d) /\ t = WidthArgs(d) + 1 /\ DotAt(d) < ModAt(d)
  BY DEF Phase
<1>3. ~isdigit("*")
  BY DigitsAre, NumeralsAre
<1>a. WidthAt(d) \in Nat /\ DotAt(d) \in Nat /\ ModAt(d) \in Nat /\ ConvAt(d) \in Nat
      /\ DotAt(d) <= ModAt(d) /\ ModAt(d) <= ConvAt(d) /\ 2 <= WidthAt(d) /\ WidthAt(d) <= DotAt(d)
  BY <1>1 DEF Layout
<1>b. WidthArgs(d) \in Nat
  BY DEF WidthArgs
<1>4. CASE "prec" \in d.star
  <2>3. PrecEnd(d) = DotAt(d) + 1 /\ PrecArgs(d) = 1
    BY <1>4 DEF PrecEnd, PrecArgs
  <2>4. ModAt(d) = DotAt(d) + 2 /\ SpelledItem(d)[DotAt(d) + 1] = "*"
    BY <1>1, <1>4 DEF Layout
  <2>1. j = DotAt(d) + 1 /\ SpelledItem(d)[j] = "*" /\ ModAt(d) = j + 1 /\ PrecArgs(d) = 1
    <3>1. j = DotAt(d) + 1
      BY <1>2, <1>a, <2>3
    <3> QED
      BY ONLY <1>a, <2>3, <2>4, <3>1
  <2>2. j \in 1 .. ConvAt(d)
    BY <1>a, <2>1
  <2> QED
    BY <1>2, <1>3, <1>4, <1>b, <2>1, <2>2 DEF Phase
<1>5. CASE "prec" \notin d.star
  <2>1. PrecEnd(d) = ModAt(d) /\ PrecArgs(d) = 0
    BY <1>5 DEF PrecEnd, PrecArgs
  <2>3. j < ModAt(d) => isdigit(SpelledItem(d)[j])
    <3>1. j < ModAt(d) => j \in DotAt(d) + 1 .. ModAt(d) - 1
      BY <1>2, <1>a, <2>1
    <3> QED
      BY <1>1, <1>5, <3>1 DEF Layout
  <2>4. ~isdigit(SpelledItem(d)[ModAt(d)]) /\ SpelledItem(d)[ModAt(d)] # "*"
    <3>1. SpelledItem(d)[ModAt(d)] \in Convs \cup {".", "h", "l", "L"}
      BY Behinds
    <3> QED
      BY <3>1, ConvChars
  <2>5. SpelledItem(d)[j] # "*"
    BY <1>2, <1>3, <1>a, <2>1, <2>3, <2>4
  <2>6. isdigit(SpelledItem(d)[j]) => j + 1 \in DotAt(d) + 1 .. PrecEnd(d)
    BY <1>2, <1>a, <2>1, <2>4
  <2>7. ~isdigit(SpelledItem(d)[j]) => j = ModAt(d)
    BY <1>2, <1>a, <2>1, <2>3
  <2>8. j \in 1 .. ConvAt(d)
    BY <1>2, <1>a, <2>1
  <2> QED
    BY <1>2, <1>b, <2>1, <2>5, <2>6, <2>7, <2>8 DEF Phase
<1> QED
  BY <1>4, <1>5

\* DP_S_MOD takes a modifier, if there is one, and is at the conversion then.
LEMMA ModPhase ==
    ASSUME NEW d \in Item, IsDirective(d), NEW j, NEW t, Phase("mod", d, j, t)
    PROVE  /\ j \in 1 .. ConvAt(d)
           /\ Phase("conv", d, j + (IF SpelledItem(d)[j] \in {"h", "l", "L"} THEN 1 ELSE 0), t)
<1>1. Layout(d)
  BY LaidOut
<1>2. j = ModAt(d) /\ t = WidthArgs(d) + PrecArgs(d) + 1
  BY DEF Phase
<1>3. ModAt(d) \in Nat /\ ConvAt(d) \in Nat /\ ModAt(d) <= ConvAt(d) /\ ModAt(d) >= 1
      /\ (ConvAt(d) = ModAt(d) \/ ConvAt(d) = ModAt(d) + 1)
  BY <1>1 DEF Layout
<1>4. SpelledItem(d)[j] \in {"h", "l", "L"} <=> ConvAt(d) = ModAt(d) + 1
  BY <1>2, Behinds
<1>5. j + (IF SpelledItem(d)[j] \in {"h", "l", "L"} THEN 1 ELSE 0) = ConvAt(d)
  BY <1>2, <1>3, <1>4
<1> QED
  BY <1>2, <1>3, <1>5 DEF Phase

(***************************************************************************)
(* Where dopr() is in its format, and what each of its steps does to that. *)
(***************************************************************************)

\* What Init fixes for the whole run.
Given ==
    /\ program \in Programs /\ maxlen \in Limits
    /\ format = LET spelled == Spelled(program.items)
                IN  SubSeq(spelled, 1, Smaller(program.cut, Len(spelled)))
    /\ args = Args(program.items)

\* The loop is between the k-th item and the next one.
Between(k) == pos = Chars(program.items)[k] + 1 /\ next = Vals(program.items)[k] + 1

\* The loop is in the k-th item, a directive.
InDirective(k) ==
    /\ IsDirective(program.items[k])
    /\ Phase(state, program.items[k], pos - Chars(program.items)[k - 1], next - Vals(program.items)[k - 1])

Parsed ==
    \/ state = "done"
    \/ Overrun
    \/ state = "default" /\ pos > Len(format)
    \/ state = "default" /\ \E k \in 0 .. Len(program.items) : Between(k)
    \/ \E k \in 1 .. Len(program.items) : InDirective(k)

IInv == TypeOK /\ Inside /\ Given /\ Parsed

\* What the format and the arguments of a program are.
Laid ==
    /\ program.items \in Seq(Item) /\ Len(program.items) \in Nat /\ maxlen \in Nat
    /\ \A k \in 1 .. Len(program.items) : program.items[k] \in Item
    /\ Places(Chars(program.items), Spelled(program.items), Spellings(program.items), Len(program.items))
    /\ Places(Vals(program.items), args, ArgLists(program.items), Len(program.items))
    /\ \A k \in 1 .. Len(program.items) :
          Spellings(program.items)[k] = SpelledItem(program.items[k])
          /\ ArgLists(program.items)[k] = ArgsOf(program.items[k])
    /\ Len(format) \in Nat /\ Len(format) <= Len(Spelled(program.items))
    /\ Len(Spelled(program.items)) \in Nat /\ Len(args) \in Nat
    /\ \A i \in 1 .. Len(format) : format[i] = Spelled(program.items)[i]
    /\ program.behind \in Seq(STRING) /\ program.left \in Left

\* The format, which may be cut off, and the arguments are those of the program.
LEMMA GivenLaid == ASSUME Given PROVE Laid
<1> DEFINE items == program.items
           spelled == Spelled(items)
           n == Smaller(program.cut, Len(spelled))
<1>1. items \in Seq(Item) /\ program.cut \in Nat /\ maxlen \in Nat
      /\ program.behind \in Seq(STRING) /\ program.left \in Left
  BY ProgramsAssumption, SnprintfAssumption DEF Given
<1>2. /\ spelled \in Seq(Symbols) /\ args \in Seq(Values)
      /\ Places(Chars(items), spelled, Spellings(items), Len(items))
      /\ Places(Vals(items), args, ArgLists(items), Len(items))
  BY <1>1, ProgramLaidOut DEF Given
<1>3. Len(spelled) \in Nat /\ Len(args) \in Nat
  BY ONLY <1>2
<1>4. n \in Int /\ n <= Len(spelled) /\ n >= 0
  BY ONLY <1>1, <1>3 DEF Smaller
<1>5. format = SubSeq(spelled, 1, n)
  BY DEF Given
<1>6. /\ format \in Seq(Symbols) /\ Len(format) = Larger(n, 0)
      /\ \A i \in 1 .. Larger(n, 0) : format[i] = spelled[i]
  <2> HIDE DEF n, spelled
  <2> QED
    BY ONLY <1>2, <1>4, <1>5, CutType
<1>7. Larger(n, 0) = n
  BY ONLY <1>4 DEF Larger
<1>8. \A k \in 1 .. Len(items) : /\ items[k] \in Item
                                 /\ Spellings(items)[k] = SpelledItem(items[k])
                                 /\ ArgLists(items)[k] = ArgsOf(items[k])
  BY <1>1 DEF Spellings, ArgLists
<1>9. Len(items) \in Nat
  BY <1>1
<1> HIDE DEF n
<1>10. Len(format) \in Nat /\ Len(format) <= Len(spelled)
       /\ \A i \in 1 .. Len(format) : format[i] = spelled[i]
  BY ONLY <1>3, <1>4, <1>6, <1>7
<1> QED
  BY ONLY <1>1, <1>2, <1>3, <1>8, <1>9, <1>10 DEF Laid

\* The loop is at the j-th character and at the t-th argument of the k-th item.
At(k, j, t) ==
    /\ k \in 1 .. Len(program.items) /\ program.items[k] \in Item /\ j \in Int /\ t \in Int
    /\ Chars(program.items)[k - 1] \in Nat /\ Vals(program.items)[k - 1] \in Nat
    /\ pos = Chars(program.items)[k - 1] + j /\ next = Vals(program.items)[k - 1] + t

\* In the format, while it is not between two items, the loop is in a directive.
LEMMA WhereItIs ==
    ASSUME IInv, ~Overrun, state # "done", state # "default"
    PROVE  \E k, j, t : /\ At(k, j, t) /\ IsDirective(program.items[k])
                        /\ Phase(state, program.items[k], j, t)
<1>1. PICK k \in 1 .. Len(program.items) : InDirective(k)
  BY DEF IInv, Parsed
<1>2. Laid
  BY GivenLaid DEF IInv
<1>3. Chars(program.items)[k - 1] \in Nat /\ Vals(program.items)[k - 1] \in Nat
  <2>1. k - 1 \in 0 .. Len(program.items)
    BY <1>2 DEF Laid
  <2> QED
    BY <1>2, <2>1 DEF Laid, Places
<1> DEFINE j == pos - Chars(program.items)[k - 1]
           t == next - Vals(program.items)[k - 1]
<1>4. pos \in Nat /\ next \in Nat
  BY DEF IInv, TypeOK
<1>5. j \in Int /\ t \in Int /\ pos = Chars(program.items)[k - 1] + j
      /\ next = Vals(program.items)[k - 1] + t
  BY <1>3, <1>4
<1>6. At(k, j, t)
  BY <1>2, <1>3, <1>5 DEF At, Laid
<1>7. IsDirective(program.items[k]) /\ Phase(state, program.items[k], j, t)
  BY <1>1 DEF InDirective
<1> HIDE DEF j, t
<1> QED
  BY <1>6, <1>7

\* Until it is left, a character that is not the terminator is one of the format.
LEMMA NotBehind ==
    ASSUME Laid, pos \in Int, ~Overrun, ch # Nul
    PROVE  pos <= Len(format) /\ ch = format[pos]
<1>1. Len(format) \in Nat
  BY DEF Laid
<1>2. ~(pos <= Len(format)) => pos - Len(format) - 1 = 0
  BY <1>1 DEF Overrun
<1>3. 0 \notin DOMAIN program.behind
  BY DEF Laid
<1> QED
  BY <1>2, <1>3 DEF ch

\* The character and the argument that the loop is at.
LEMMA CharSeen ==
    ASSUME Laid, ~Overrun, ch # Nul, NEW k, NEW j, NEW t, At(k, j, t),
           j \in 1 .. Len(SpelledItem(program.items[k]))
    PROVE  pos \in Nat /\ pos <= Len(format) /\ ch = SpelledItem(program.items[k])[j]
<1> DEFINE spelled == Spelled(program.items)
<1>0. pos \in Int /\ Len(format) \in Nat
  <2>1. j \in Int /\ Chars(program.items)[k - 1] \in Nat /\ pos = Chars(program.items)[k - 1] + j
    BY DEF At
  <2>2. Len(format) \in Nat
    BY DEF Laid
  <2> QED
    BY ONLY <2>1, <2>2
<1>1. pos <= Len(format) /\ ch = format[pos]
  BY <1>0, NotBehind
<1>2. pos \in 1 .. Len(format)
  <2>1. j \in Int /\ j >= 1 /\ Chars(program.items)[k - 1] \in Nat
        /\ pos = Chars(program.items)[k - 1] + j
    BY DEF At
  <2>2. Len(format) \in Nat
    BY DEF Laid
  <2> QED
    BY ONLY <1>1, <2>1, <2>2
<1>3. format[pos] = spelled[pos]
  BY <1>2 DEF Laid
<1>4. spelled[Chars(program.items)[k - 1] + j] = SpelledItem(program.items[k])[j]
  <2>1. k \in 1 .. Len(program.items) /\ Spellings(program.items)[k] = SpelledItem(program.items[k])
    BY DEF Laid, At
  <2>2. \A m \in 1 .. Len(program.items) : \A i \in 1 .. Len(Spellings(program.items)[m]) :
            spelled[Chars(program.items)[m - 1] + i] = Spellings(program.items)[m][i]
    BY DEF Laid, Places
  <2> QED
    BY <2>1, <2>2
<1> QED
  BY <1>1, <1>2, <1>3, <1>4 DEF At

\* The argument that va_arg() gives is one of the directive's.
LEMMA ArgSeen ==
    ASSUME Laid, ~Overrun, NEW k, NEW j, NEW t, At(k, j, t), t \in 1 .. Len(ArgsOf(program.items[k])),
           NEW kind
    PROVE  Arg(kind) = ArgsOf(program.items[k])[t]
<1>1. Arg(kind) = args[next]
  BY DEF Arg
<1>2. args[next] = ArgsOf(program.items[k])[t]
  BY DEF Laid, Places, At
<1> QED
  BY <1>1, <1>2

\* Where the k-th item ends.
LEMMA ItemEnds ==
    ASSUME Laid, NEW k \in 1 .. Len(program.items)
    PROVE  /\ Chars(program.items)[k] \in Nat /\ Vals(program.items)[k] \in Nat
           /\ Chars(program.items)[k - 1] \in Nat /\ Vals(program.items)[k - 1] \in Nat
           /\ Chars(program.items)[k] = Chars(program.items)[k - 1] + Len(SpelledItem(program.items[k]))
           /\ Vals(program.items)[k] = Vals(program.items)[k - 1] + Len(ArgsOf(program.items[k]))
           /\ Chars(program.items)[k] <= Len(Spelled(program.items))
           /\ Vals(program.items)[k] <= Len(args)
<1>1. k - 1 \in 0 .. Len(program.items) /\ k \in 0 .. Len(program.items)
  BY DEF Laid
<1>2. Chars(program.items)[k] \in Nat /\ Vals(program.items)[k] \in Nat
      /\ Chars(program.items)[k - 1] \in Nat /\ Vals(program.items)[k - 1] \in Nat
  BY <1>1 DEF Laid, Places
<1>3. Chars(program.items)[k] = Chars(program.items)[k - 1] + Len(SpelledItem(program.items[k]))
      /\ Vals(program.items)[k] = Vals(program.items)[k - 1] + Len(ArgsOf(program.items[k]))
  BY <1>1 DEF Laid, Places
<1>4. Chars(program.items)[k] <= Len(Spelled(program.items)) /\ Vals(program.items)[k] <= Len(args)
  BY <1>1 DEF Laid, Places
<1> QED
  BY ONLY <1>2, <1>3, <1>4

\* A step within a directive.
LEMMA Moved ==
    ASSUME Laid, NEW k, NEW j, NEW t, At(k, j, t), IsDirective(program.items[k]), UNCHANGED given,
           NEW a \in Nat, pos' = pos + a, NEW b \in Nat, next' = next + b,
           Phase(state', program.items[k], j + a, t + b), t + b <= Len(ArgsOf(program.items[k])) + 1
    PROVE  Parsed' /\ next' <= Len(args') + 1
<1>1. program' = program /\ args' = args
  BY DEF given
<1>2. pos' - Chars(program.items)[k - 1] = j + a /\ next' - Vals(program.items)[k - 1] = t + b
  <2>1. /\ Chars(program.items)[k - 1] \in Nat /\ Vals(program.items)[k - 1] \in Nat
        /\ pos = Chars(program.items)[k - 1] + j /\ next = Vals(program.items)[k - 1] + t
        /\ j \in Int /\ t \in Int
    BY DEF At
  <2> QED
    BY ONLY <2>1, pos' = pos + a, next' = next + b, a \in Nat, b \in Nat
<1>3. InDirective(k)'
  BY <1>1, <1>2 DEF InDirective
<1>4. k \in 1 .. Len(program'.items)
  BY <1>1 DEF At
<1>5. Parsed'
  BY <1>3, <1>4 DEF Parsed
<1>6. Vals(program.items)[k] = Vals(program.items)[k - 1] + Len(ArgsOf(program.items[k]))
      /\ Vals(program.items)[k] <= Len(args) /\ Vals(program.items)[k] \in Nat
  BY ItemEnds DEF At
<1>7. Len(args) \in Nat /\ Len(ArgsOf(program.items[k])) \in Nat
  BY ProgramLaidOut, ArgsLaidOut DEF Laid, ArgLayout, At
<1>8. next' <= Len(args) + 1
  BY ONLY <1>2, <1>6, <1>7, next' = next + b, t + b <= Len(ArgsOf(program.items[k])) + 1,
          At(k, j, t), b \in Nat DEF At
<1> QED
  BY <1>1, <1>5, <1>8

\* dopr() starts in front of the first item.
LEMMA InitInv == Init => IInv
<1> SUFFICES ASSUME Init PROVE IInv
  OBVIOUS
<1>1. Given
  BY DEF Init, Given
<1>2. Laid
  BY <1>1, GivenLaid
<1>3. 0 \in 0 .. Len(program.items) /\ Between(0)
  BY <1>2 DEF Init, Laid, Places, Between
<1>4. Parsed
  BY <1>3 DEF Init, Parsed
<1>5. TypeOK
  BY DEF Init, TypeOK, States
<1>6. Inside
  <2>1. Len(format) \in Nat /\ Len(args) \in Nat
    BY <1>2 DEF Laid
  <2>2. pos = 1 /\ next = 1
    BY DEF Init
  <2>3. ~(pos > Len(format) + 1) /\ next <= Len(args) + 1
    BY ONLY <2>1, <2>2
  <2> QED
    BY <2>3 DEF Inside, Overrun
<1> QED
  BY <1>1, <1>4, <1>5, <1>6 DEF IInv

\* No step changes what is formatted.
LEMMA GivenKept == ASSUME Given, UNCHANGED given PROVE Given'
BY DEF Given, given

\* The format is not left in a step to the next character.
LEMMA InsideKept ==
    ASSUME Laid, UNCHANGED given, pos \in Nat, pos <= Len(format), pos' \in {pos, pos + 1},
           next' <= Len(args') + 1
    PROVE  Inside'
<1>1. format' = format
  BY DEF given
<1>2. Len(format) \in Nat
  BY DEF Laid
<1>3. ~(pos' > Len(format) + 1)
  BY ONLY <1>2, pos \in Nat, pos <= Len(format), pos' \in {pos, pos + 1}
<1> QED
  BY <1>1, <1>3 DEF Inside, Overrun

\* How many arguments a phase has left.
LEMMA PhaseArgs ==
    ASSUME NEW d \in Item, IsDirective(d), NEW s, NEW j, NEW t, Phase(s, d, j, t)
    PROVE  t \in Nat /\ t <= Len(ArgsOf(d)) + 1
<1>1. Len(ArgsOf(d)) = WidthArgs(d) + PrecArgs(d) + ValueArgs(d)
  BY ArgsLaidOut DEF ArgLayout
<1>2. WidthArgs(d) \in {0, 1} /\ PrecArgs(d) \in {0, 1} /\ ValueArgs(d) \in {0, 1}
  BY DEF WidthArgs, PrecArgs, ValueArgs
<1>3. t = 1 \/ t = WidthArgs(d) + 1 \/ t = WidthArgs(d) + PrecArgs(d) + 1
  BY DEF Phase
<1> QED
  BY ONLY <1>1, <1>2, <1>3

\* A flag is read, or the end of the flags.
LEMMA FlagsInv == ASSUME IInv, ~Overrun, Flags PROVE IInv'
<1>1. Laid /\ Given' /\ state = "flags" /\ ch # Nul /\ UNCHANGED given
  BY GivenLaid, GivenKept DEF IInv, Flags, In, AtEnd
<1>2. PICK k, j, t : /\ At(k, j, t) /\ IsDirective(program.items[k])
                     /\ Phase("flags", program.items[k], j, t)
  BY <1>1, WhereItIs
<1> DEFINE d == program.items[k]
<1>3. d \in Item /\ j \in Int /\ t \in Int
  BY <1>2 DEF At
<1>4. j \in 1 .. Len(SpelledItem(d)) /\ (SpelledItem(d)[j] \in FlagChars => Phase("flags", d, j + 1, t))
      /\ (SpelledItem(d)[j] \notin FlagChars => Phase("min", d, j, t))
  BY <1>2, <1>3, FlagsPhase DEF ConvAt
<1>5. pos \in Nat /\ pos <= Len(format) /\ ch = SpelledItem(d)[j]
  BY <1>1, <1>2, <1>4, CharSeen
<1>6. t + 0 = t /\ j + 0 = j /\ t <= Len(ArgsOf(d)) + 1
  BY <1>2, <1>3, PhaseArgs
<1>7. next' = next + 0
  BY DEF Flags, IInv, TypeOK
<1>8. /\ pos' \in {pos, pos + 1} /\ state' \in States /\ flags' \subseteq FlagChars
      /\ UNCHANGED <<next, min, max, cflags, out, stored>>
  BY <1>5 DEF Flags, GoOn, States, IInv, TypeOK
<1>9. TypeOK'
  BY <1>5, <1>8 DEF IInv, TypeOK
<1> HIDE DEF d
<1>10. Parsed' /\ next' <= Len(args') + 1
  <2>1. CASE ch \in FlagChars
    <3>1. state' = "flags" /\ pos' = pos + 1
      BY <2>1 DEF Flags, GoOn
    <3>2. Phase(state', d, j + 1, t + 0)
      BY <1>4, <1>5, <1>6, <2>1, <3>1
    <3> QED
      BY <1>1, <1>2, <1>6, <1>7, <3>1, <3>2, Moved DEF d
  <2>2. CASE ch \notin FlagChars
    <3>1. state' = "min" /\ pos' = pos + 0
      BY <2>2, <1>5 DEF Flags, GoOn
    <3>2. Phase(state', d, j + 0, t + 0)
      BY <1>4, <1>5, <1>6, <2>2, <3>1
    <3> QED
      BY <1>1, <1>2, <1>6, <1>7, <3>1, <3>2, Moved DEF d
  <2> QED
    BY <2>1, <2>2
<1>11. Inside'
  BY <1>1, <1>5, <1>8, <1>10, InsideKept
<1> QED
  BY <1>1, <1>9, <1>10, <1>11 DEF IInv

\* A modifier is read, or none.
LEMMA ModInv == ASSUME IInv, ~Overrun, Mod PROVE IInv'
<1>1. Laid /\ Given' /\ state = "mod" /\ ch # Nul /\ UNCHANGED given
  BY GivenLaid, GivenKept DEF IInv, Mod, In, AtEnd
<1>2. PICK k, j, t : /\ At(k, j, t) /\ IsDirective(program.items[k])
                     /\ Phase("mod", program.items[k], j, t)
  BY <1>1, WhereItIs
<1> DEFINE d == program.items[k]
           a == IF ch \in {"h", "l", "L"} THEN 1 ELSE 0
<1>3. d \in Item /\ j \in Int /\ t \in Int
  BY <1>2 DEF At
<1>4. /\ j \in 1 .. Len(SpelledItem(d))
      /\ Phase("conv", d, j + (IF SpelledItem(d)[j] \in {"h", "l", "L"} THEN 1 ELSE 0), t)
  BY <1>2, <1>3, ModPhase DEF ConvAt
<1>5. pos \in Nat /\ pos <= Len(format) /\ ch = SpelledItem(d)[j]
  BY <1>1, <1>2, <1>4, CharSeen
<1>6. t + 0 = t /\ t <= Len(ArgsOf(d)) + 1 /\ a \in Nat
  BY <1>2, <1>3, PhaseArgs
<1>7. next' = next + 0
  BY DEF Mod, IInv, TypeOK
<1>8. /\ pos' = pos + a /\ state' = "conv" /\ UNCHANGED <<next, flags, min, max, out, stored>>
      /\ cflags' = cflags \/ cflags' \in {"h", "l", "L"}
  BY <1>5 DEF Mod, GoOn
<1>a. pos' \in {pos, pos + 1}
  BY <1>5, <1>8
<1>9. TypeOK'
  BY <1>5, <1>8, <1>a DEF IInv, TypeOK, States, spec
<1>10. Phase(state', d, j + a, t + 0)
  BY <1>4, <1>5, <1>6, <1>8
<1> HIDE DEF d, a
<1>11. Parsed' /\ next' <= Len(args') + 1
  BY <1>1, <1>2, <1>6, <1>7, <1>8, <1>10, Moved DEF d
<1>12. Inside'
  BY <1>1, <1>5, <1>a, <1>11, InsideKept
<1> QED
  BY <1>1, <1>9, <1>11, <1>12 DEF IInv

\* A point is read, or none.
LEMMA DotInv == ASSUME IInv, ~Overrun, Dot PROVE IInv'
<1>1. Laid /\ Given' /\ state = "dot" /\ ch # Nul /\ UNCHANGED given
  BY GivenLaid, GivenKept DEF IInv, Dot, In, AtEnd
<1>2. PICK k, j, t : /\ At(k, j, t) /\ IsDirective(program.items[k])
                     /\ Phase("dot", program.items[k], j, t)
  BY <1>1, WhereItIs
<1> DEFINE d == program.items[k]
<1>3. d \in Item /\ j \in Int /\ t \in Int
  BY <1>2 DEF At
<1>4. j \in 1 .. Len(SpelledItem(d)) /\ (SpelledItem(d)[j] = "." => Phase("max", d, j + 1, t))
      /\ (SpelledItem(d)[j] # "." => Phase("mod", d, j, t))
  BY <1>2, <1>3, DotPhase DEF ConvAt
<1>5. pos \in Nat /\ pos <= Len(format) /\ ch = SpelledItem(d)[j]
  BY <1>1, <1>2, <1>4, CharSeen
<1>6. t + 0 = t /\ j + 0 = j /\ t <= Len(ArgsOf(d)) + 1
  BY <1>2, <1>3, PhaseArgs
<1>7. next' = next + 0
  BY DEF Dot, IInv, TypeOK
<1>8. pos' \in {pos, pos + 1} /\ state' \in States /\ UNCHANGED <<next, spec, out, stored>>
  BY <1>5 DEF Dot, GoOn, States
<1>9. TypeOK'
  BY <1>5, <1>8 DEF IInv, TypeOK, spec
<1> HIDE DEF d
<1>10. Parsed' /\ next' <= Len(args') + 1
  <2>1. CASE ch = "."
    <3>1. state' = "max" /\ pos' = pos + 1
      BY <2>1 DEF Dot, GoOn
    <3>2. Phase(state', d, j + 1, t + 0)
      BY <1>4, <1>5, <1>6, <2>1, <3>1
    <3> QED
      BY <1>1, <1>2, <1>6, <1>7, <3>1, <3>2, Moved DEF d
  <2>2. CASE ch # "."
    <3>1. state' = "mod" /\ pos' = pos + 0
      BY <2>2, <1>5 DEF Dot, GoOn
    <3>2. Phase(state', d, j + 0, t + 0)
      BY <1>4, <1>5, <1>6, <2>2, <3>1
    <3> QED
      BY <1>1, <1>2, <1>6, <1>7, <3>1, <3>2, Moved DEF d
  <2> QED
    BY <2>1, <2>2
<1>11. Inside'
  BY <1>1, <1>5, <1>8, <1>10, InsideKept
<1> QED
  BY <1>1, <1>9, <1>10, <1>11 DEF IInv

\* The value of a digit.
LEMMA NumberType == \A c : isdigit(c) => Number[c] \in Int
<1> SUFFICES ASSUME NEW c, isdigit(c) PROVE Number[c] \in Int
  OBVIOUS
<1>1. PICK i \in 1 .. 10 : c = Lower[i]
  BY DEF isdigit
<1>2. DOMAIN Lower = 1 .. 16
  BY DEF Lower
<1>3. c \in ToSet(Lower)
  BY <1>1, <1>2 DEF ToSet
<1> DEFINE place == CHOOSE m \in DOMAIN Lower : Lower[m] = c
<1>4. Number[c] = place - 1
  BY <1>3 DEF Number
<1>5. place \in 1 .. 16
  <2>1. \E m \in DOMAIN Lower : Lower[m] = c
    BY <1>1, <1>2
  <2> QED
    BY <1>2, <2>1
<1> HIDE DEF place
<1> QED
  BY <1>4, <1>5

\* A digit of the width is read, a star, or the end of the width.
LEMMA WidthInv == ASSUME IInv, ~Overrun, Width PROVE IInv'
<1>1. Laid /\ Given' /\ state = "min" /\ ch # Nul /\ UNCHANGED given
  BY GivenLaid, GivenKept DEF IInv, Width, In, AtEnd
<1>2. PICK k, j, t : /\ At(k, j, t) /\ IsDirective(program.items[k])
                     /\ Phase("min", program.items[k], j, t)
  BY <1>1, WhereItIs
<1> DEFINE d == program.items[k]
<1>3. d \in Item /\ j \in Int /\ t \in Int
  BY <1>2 DEF At
<1>4. /\ j \in 1 .. Len(SpelledItem(d))
      /\ isdigit(SpelledItem(d)[j]) => Phase("min", d, j + 1, t)
      /\ SpelledItem(d)[j] = "*" => Phase("dot", d, j + 1, t + 1) /\ t = 1 /\ "width" \in d.star
      /\ ~isdigit(SpelledItem(d)[j]) /\ SpelledItem(d)[j] # "*" => Phase("dot", d, j, t)
  BY <1>2, <1>3, WidthPhase DEF ConvAt
<1>5. pos \in Nat /\ pos <= Len(format) /\ ch = SpelledItem(d)[j]
  BY <1>1, <1>2, <1>4, CharSeen
<1>6. t + 0 = t /\ j + 0 = j /\ t <= Len(ArgsOf(d)) + 1
  BY <1>2, <1>3, PhaseArgs
<1>7. next + 0 = next /\ pos + 0 = pos /\ next \in Nat \ {0} /\ min \in Int /\ max \in Int
  BY DEF IInv, TypeOK
<1>8. UNCHANGED <<flags, max, cflags, out, stored>>
  BY DEF Width
<1> HIDE DEF d
<1>9. CASE isdigit(ch) /\ min' = 10 * min + Number[ch] /\ GoOn("min", 1) /\ UNCHANGED next
  <2>1. state' = "min" /\ pos' = pos + 1 /\ next' = next + 0
    BY <1>7, <1>9 DEF GoOn
  <2>2. Phase(state', d, j + 1, t + 0)
    BY <1>4, <1>5, <1>6, <1>9, <2>1
  <2>3. Parsed' /\ next' <= Len(args') + 1
    BY <1>1, <1>2, <1>6, <2>1, <2>2, Moved DEF d
  <2>4. Number[ch] \in Int
    BY <1>9, NumberType
  <2>5. TypeOK'
    BY <1>5, <1>7, <1>8, <1>9, <2>1, <2>4 DEF IInv, TypeOK, States
  <2>6. Inside'
    BY <1>1, <1>5, <2>1, <2>3, InsideKept
  <2> QED
    BY <1>1, <2>3, <2>5, <2>6 DEF IInv
<1>10. CASE ch = "*" /\ min' = Arg("star") /\ next' = next + 1 /\ GoOn("dot", 1)
  <2>1. state' = "dot" /\ pos' = pos + 1 /\ next' = next + 1
    BY <1>10 DEF GoOn
  <2>2. Phase(state', d, j + 1, t + 1) /\ t = 1 /\ "width" \in d.star
    BY <1>4, <1>5, <1>10, <2>1
  <2>3. t + 1 <= Len(ArgsOf(d)) + 1
    <3>1. Len(ArgsOf(d)) = WidthArgs(d) + PrecArgs(d) + ValueArgs(d) /\ WidthArgs(d) = 1
          /\ PrecArgs(d) \in {0, 1} /\ ValueArgs(d) \in {0, 1}
      BY <1>2, <1>3, <2>2, ArgsLaidOut DEF ArgLayout, WidthArgs, PrecArgs, ValueArgs, d
    <3> QED
      BY ONLY <2>2, <3>1
  <2>4. Parsed' /\ next' <= Len(args') + 1
    BY <1>1, <1>2, <2>1, <2>2, <2>3, Moved DEF d
  <2>5. Arg("star") = d.width /\ d.width \in Int
    <3>1. ArgLayout(d) /\ d.width \in Int
      BY <1>2, <1>3, ArgsLaidOut, Parts DEF d
    <3>2. Len(ArgsOf(d)) \in Nat
      BY <3>1 DEF ArgLayout
    <3>3. t \in 1 .. Len(ArgsOf(d))
      BY ONLY <2>2, <2>3, <3>2
    <3>4. Arg("star") = ArgsOf(d)[t]
      BY <1>1, <1>2, <3>3, ArgSeen DEF d
    <3> QED
      BY <2>2, <3>1, <3>4 DEF ArgLayout
  <2>6. TypeOK'
    BY <1>5, <1>7, <1>8, <1>10, <2>1, <2>5 DEF IInv, TypeOK, States
  <2>7. Inside'
    BY <1>1, <1>5, <2>1, <2>4, InsideKept
  <2> QED
    BY <1>1, <2>4, <2>6, <2>7 DEF IInv
<1>11. CASE ~isdigit(ch) /\ ch # "*" /\ GoOn("dot", 0) /\ UNCHANGED <<min, next>>
  <2>1. state' = "dot" /\ pos' = pos + 0 /\ next' = next + 0
    BY <1>7, <1>11 DEF GoOn
  <2>2. Phase(state', d, j + 0, t + 0)
    BY <1>4, <1>5, <1>6, <1>11, <2>1
  <2>3. Parsed' /\ next' <= Len(args') + 1
    BY <1>1, <1>2, <1>6, <2>1, <2>2, Moved DEF d
  <2>4. pos' \in {pos, pos + 1}
    BY <1>7, <2>1, <1>5
  <2>5. TypeOK'
    BY <1>5, <1>7, <1>8, <1>11, <2>1 DEF IInv, TypeOK, States
  <2>6. Inside'
    BY <1>1, <1>5, <2>3, <2>4, InsideKept
  <2> QED
    BY <1>1, <2>3, <2>5, <2>6 DEF IInv
<1> QED
  BY <1>9, <1>10, <1>11 DEF Width

\* The same for the precision.
LEMMA PrecInv == ASSUME IInv, ~Overrun, Precision PROVE IInv'
<1>1. Laid /\ Given' /\ state = "max" /\ ch # Nul /\ UNCHANGED given
  BY GivenLaid, GivenKept DEF IInv, Precision, In, AtEnd
<1>2. PICK k, j, t : /\ At(k, j, t) /\ IsDirective(program.items[k])
                     /\ Phase("max", program.items[k], j, t)
  BY <1>1, WhereItIs
<1> DEFINE d == program.items[k]
<1>3. d \in Item /\ j \in Int /\ t \in Int
  BY <1>2 DEF At
<1>4. /\ j \in 1 .. Len(SpelledItem(d))
      /\ isdigit(SpelledItem(d)[j]) => Phase("max", d, j + 1, t)
      /\ SpelledItem(d)[j] = "*" => Phase("mod", d, j + 1, t + 1) /\ t = WidthArgs(d) + 1 /\ "prec" \in d.star
      /\ ~isdigit(SpelledItem(d)[j]) /\ SpelledItem(d)[j] # "*" => Phase("mod", d, j, t)
  BY <1>2, <1>3, PrecPhase DEF ConvAt
<1>5. pos \in Nat /\ pos <= Len(format) /\ ch = SpelledItem(d)[j]
  BY <1>1, <1>2, <1>4, CharSeen
<1>6. t + 0 = t /\ j + 0 = j /\ t <= Len(ArgsOf(d)) + 1
  BY <1>2, <1>3, PhaseArgs
<1>7. next + 0 = next /\ pos + 0 = pos /\ next \in Nat \ {0} /\ min \in Int /\ max \in Int
  BY DEF IInv, TypeOK
<1>8. UNCHANGED <<flags, min, cflags, out, stored>>
  BY DEF Precision
<1> HIDE DEF d
<1>9. CASE isdigit(ch) /\ max' = 10 * Larger(max, 0) + Number[ch] /\ GoOn("max", 1) /\ UNCHANGED next
  <2>1. state' = "max" /\ pos' = pos + 1 /\ next' = next + 0
    BY <1>7, <1>9 DEF GoOn
  <2>2. Phase(state', d, j + 1, t + 0)
    BY <1>4, <1>5, <1>6, <1>9, <2>1
  <2>3. Parsed' /\ next' <= Len(args') + 1
    BY <1>1, <1>2, <1>6, <2>1, <2>2, Moved DEF d
  <2>4. Number[ch] \in Int /\ Larger(max, 0) \in Int
    BY <1>7, <1>9, NumberType DEF Larger
  <2>5. TypeOK'
    BY <1>5, <1>7, <1>8, <1>9, <2>1, <2>4 DEF IInv, TypeOK, States
  <2>6. Inside'
    BY <1>1, <1>5, <2>1, <2>3, InsideKept
  <2> QED
    BY <1>1, <2>3, <2>5, <2>6 DEF IInv
<1>10. CASE ch = "*" /\ max' = Arg("star") /\ next' = next + 1 /\ GoOn("mod", 1)
  <2>1. state' = "mod" /\ pos' = pos + 1 /\ next' = next + 1
    BY <1>10 DEF GoOn
  <2>2. Phase(state', d, j + 1, t + 1) /\ t = WidthArgs(d) + 1 /\ "prec" \in d.star
    BY <1>4, <1>5, <1>10, <2>1
  <2>3. t + 1 <= Len(ArgsOf(d)) + 1
    <3>1. Len(ArgsOf(d)) = WidthArgs(d) + PrecArgs(d) + ValueArgs(d) /\ PrecArgs(d) = 1
          /\ WidthArgs(d) \in {0, 1} /\ ValueArgs(d) \in {0, 1}
      BY <1>2, <1>3, <2>2, ArgsLaidOut DEF ArgLayout, WidthArgs, PrecArgs, ValueArgs, d
    <3> QED
      BY ONLY <2>2, <3>1
  <2>4. Parsed' /\ next' <= Len(args') + 1
    BY <1>1, <1>2, <2>1, <2>2, <2>3, Moved DEF d
  <2>5. Arg("star") = d.prec /\ d.prec \in Int
    <3>1. ArgLayout(d) /\ d.prec \in Int
      BY <1>2, <1>3, ArgsLaidOut, Parts DEF d
    <3>2. Len(ArgsOf(d)) \in Nat
      BY <3>1 DEF ArgLayout
    <3>3. t \in 1 .. Len(ArgsOf(d))
      <4>1. WidthArgs(d) \in {0, 1}
        BY DEF WidthArgs
      <4> QED
        BY ONLY <2>2, <2>3, <3>2, <4>1
    <3>4. Arg("star") = ArgsOf(d)[t]
      BY <1>1, <1>2, <3>3, ArgSeen DEF d
    <3> QED
      BY <2>2, <3>1, <3>4 DEF ArgLayout
  <2>6. TypeOK'
    BY <1>5, <1>7, <1>8, <1>10, <2>1, <2>5 DEF IInv, TypeOK, States
  <2>7. Inside'
    BY <1>1, <1>5, <2>1, <2>4, InsideKept
  <2> QED
    BY <1>1, <2>4, <2>6, <2>7 DEF IInv
<1>11. CASE ~isdigit(ch) /\ ch # "*" /\ GoOn("mod", 0) /\ UNCHANGED <<max, next>>
  <2>1. state' = "mod" /\ pos' = pos + 0 /\ next' = next + 0
    BY <1>7, <1>11 DEF GoOn
  <2>2. Phase(state', d, j + 0, t + 0)
    BY <1>4, <1>5, <1>6, <1>11, <2>1
  <2>3. Parsed' /\ next' <= Len(args') + 1
    BY <1>1, <1>2, <1>6, <2>1, <2>2, Moved DEF d
  <2>4. pos' \in {pos, pos + 1}
    BY <1>7, <2>1, <1>5
  <2>5. TypeOK'
    BY <1>5, <1>7, <1>8, <1>11, <2>1 DEF IInv, TypeOK, States
  <2>6. Inside'
    BY <1>1, <1>5, <2>3, <2>4, InsideKept
  <2> QED
    BY <1>1, <2>3, <2>5, <2>6 DEF IInv
<1> QED
  BY <1>9, <1>10, <1>11 DEF Precision

\* A literal is printed, or the start of a directive read.
LEMMA DefaultInv == ASSUME IInv, ~Overrun, Default PROVE IInv'
<1>1. Laid /\ Given' /\ state = "default" /\ ch # Nul /\ UNCHANGED given
  BY GivenLaid, GivenKept DEF IInv, Default, In, AtEnd
<1>2. pos \in Nat \ {0} /\ pos <= Len(format) /\ ch = format[pos] /\ next \in Nat
  BY <1>1, NotBehind DEF IInv, TypeOK
<1>3. PICK m \in 0 .. Len(program.items) : Between(m)
  <2>1. ~(pos > Len(format))
    BY <1>1, <1>2 DEF Laid
  <2>2. \A k \in 1 .. Len(program.items) : ~InDirective(k)
    BY <1>1 DEF InDirective, Phase
  <2> QED
    BY <1>1, <2>1, <2>2 DEF IInv, Parsed
<1> DEFINE k == m + 1
           C == Chars(program.items)
           V == Vals(program.items)
           item == program.items[k]
<1>4. C[m] \in Nat /\ V[m] \in Nat /\ C[Len(program.items)] = Len(Spelled(program.items))
  BY <1>1 DEF Laid, Places
<1>5. m # Len(program.items)
  <2>1. pos = C[m] + 1 /\ Len(format) <= Len(Spelled(program.items)) /\ Len(format) \in Nat
        /\ Len(Spelled(program.items)) \in Nat
    BY <1>1, <1>3 DEF Between, Laid
  <2> QED
    BY ONLY <1>2, <1>4, <2>1
<1>6. k \in 1 .. Len(program.items) /\ k - 1 = m /\ item \in Item
  <2>1. k \in 1 .. Len(program.items) /\ k - 1 = m
    BY <1>1, <1>5 DEF Laid
  <2> QED
    BY <1>1, <2>1 DEF Laid
<1>7. At(k, 1, 1)
  BY <1>3, <1>4, <1>6 DEF At, Between
<1>8. /\ C[k] = C[m] + Len(SpelledItem(item)) /\ V[k] = V[m] + Len(ArgsOf(item))
      /\ V[k] <= Len(args) /\ V[k] \in Nat
  BY <1>1, <1>6, ItemEnds
<1>a. pos = C[m] + 1 /\ next = V[m] + 1 /\ Len(args) \in Nat
  BY <1>1, <1>3 DEF Between, Laid
<1>b. UNCHANGED <<next, spec, stored>> /\ format' = format /\ args' = args /\ program' = program
  BY <1>1 DEF Default, given
<1> HIDE DEF k, item, C, V
<1>9. CASE IsDirective(item)
  <2>1. Layout(item) /\ 1 <= Len(SpelledItem(item)) /\ Len(SpelledItem(item)) \in Nat
    <3>1. Layout(item)
      BY <1>6, <1>9, LaidOut
    <3>2. /\ 2 <= WidthAt(item) /\ WidthAt(item) <= DotAt(item) /\ DotAt(item) <= ModAt(item)
          /\ ModAt(item) <= ConvAt(item) /\ WidthAt(item) \in Nat /\ DotAt(item) \in Nat
          /\ ModAt(item) \in Nat /\ ConvAt(item) \in Nat
      BY <3>1 DEF Layout
    <3>3. 1 <= ConvAt(item)
      BY ONLY <3>2
    <3> QED
      BY <3>1, <3>2, <3>3 DEF ConvAt
  <2>2. ch = "%"
    <3>1. ch = SpelledItem(item)[1]
      BY <1>1, <1>7, <2>1, CharSeen DEF item
    <3> QED
      BY <2>1, <3>1 DEF Layout
  <2>3. state' = "flags" /\ pos' = pos + 1 /\ out' = out /\ next' = next + 0
    BY <1>2, <2>2 DEF Default, GoOn
  <2>4. Phase(state', item, 1 + 1, 1 + 0)
    <3>1. 2 \in 2 .. WidthEnd(item)
      BY <2>1 DEF Layout, WidthEnd
    <3> QED
      BY <2>3, <3>1 DEF Phase
  <2>5. 1 + 0 <= Len(ArgsOf(item)) + 1
    BY <1>6, <1>9, ArgsLaidOut DEF ArgLayout
  <2>6. Parsed' /\ next' <= Len(args') + 1
    BY <1>1, <1>7, <1>9, <2>3, <2>4, <2>5, Moved DEF item
  <2>7. TypeOK'
    BY <1>2, <1>b, <2>3 DEF IInv, TypeOK, States, spec
  <2>8. Inside'
    BY <1>1, <1>2, <2>3, <2>6, InsideKept
  <2> QED
    BY <1>1, <2>6, <2>7, <2>8 DEF IInv
<1>10. CASE ~IsDirective(item)
  <2>1. SpelledItem(item) = <<item.char>> /\ item.char \in STRING /\ item.char # "%"
        /\ ArgsOf(item) = <<>>
    BY <1>6, <1>10, LiteralLaidOut
  <2>2. Len(SpelledItem(item)) = 1 /\ SpelledItem(item)[1] = item.char /\ Len(ArgsOf(item)) = 0
    BY <2>1
  <2>3. ch = item.char
    <3>1. 1 \in 1 .. Len(SpelledItem(item))
      BY <2>2
    <3>2. ch = SpelledItem(item)[1]
      BY <1>1, <1>7, <3>1, CharSeen DEF item
    <3> QED
      BY <2>2, <3>2
  <2>4. state' = "default" /\ pos' = pos + 1 /\ out' = Append(out, ch)
    BY <2>1, <2>3 DEF Default, GoOn
  <2>5. pos' = C[k] + 1 /\ next' = V[k] + 1
    BY ONLY <1>4, <1>8, <1>a, <1>b, <2>2, <2>4
  <2>6. Parsed'
    <3>1. Between(k)'
      BY <1>b, <2>5 DEF Between, C, V, k
    <3>2. k \in 0 .. Len(program'.items)
      BY <1>6, <1>b
    <3> QED
      BY <2>4, <3>1, <3>2 DEF Parsed
  <2>7. next' <= Len(args') + 1
    BY ONLY <1>8, <1>a, <1>b, <2>5
  <2>8. TypeOK'
    <3>1. out' \in Seq(STRING)
      BY <2>1, <2>3, <2>4 DEF IInv, TypeOK
    <3>2. pos' \in Nat \ {0}
      BY ONLY <1>2, <2>4
    <3> QED
      BY <1>b, <2>4, <3>1, <3>2 DEF IInv, TypeOK, States, spec
  <2>9. Inside'
    BY <1>1, <1>2, <2>4, <2>7, InsideKept
  <2> QED
    BY <1>1, <2>6, <2>8, <2>9 DEF IInv
<1> QED
  BY <1>9, <1>10

\* The end is noticed.
LEMMA FinishInv == ASSUME IInv, Finish PROVE IInv'
BY GivenKept DEF IInv, Finish, given, spec, TypeOK, States, Inside, Overrun, Parsed

\* Nothing happens.
LEMMA StutterInv == ASSUME IInv, UNCHANGED vars PROVE IInv'
BY DEF IInv, vars, given, spec, TypeOK, Inside, Overrun, Given, Parsed, Between, InDirective

\* The conversions give the buffer strings.
LEMMA SignedType == ASSUME NEW v \in 0 .. Word - 1 PROVE Signed(v) \in Int
BY SnprintfAssumption DEF Signed

\* The bases that numbers are printed in.
LEMMA BaseType == \A c : BaseOf(c) \in {8, 10, 16} /\ BaseOf(c) \in 1 .. 16
BY DEF BaseOf

\* What va_arg() gives is of the kind that the conversion asks for.
Supplied ==
    /\ ch \in IntConv => Arg("number") \in 0 .. Word - 1
    /\ ch = "s" => Arg("text") \in Seq(STRING)
    /\ ch = "f" => Arg("real") \in [neg : BOOLEAN, num : Nat, den : Nat \ {0}]
    /\ ch = "c" => Arg("char") \in STRING

\* The arguments that a conversion takes.
Takes(c) == IF c \in IntConv \cup {"s", "f", "n", "c", "e", "E", "g", "G"} THEN 1 ELSE 0

\* A long that was assigned to a short is a number.
LEMMA ShortType == ASSUME NEW n \in Int PROVE ToShort(n) \in Int
BY SnprintfAssumption DEF ToShort

\* What a conversion prints and stores, and how many arguments it takes.
LEMMA Converted ==
    ASSUME TypeOK, maxlen \in Nat, Supplied, Integer \/ String \/ Float \/ Count \/ Other
    PROVE  out' \in Seq(STRING) /\ stored' \in Seq(Int) /\ next' = next + Takes(ch)
<1>1. out \in Seq(STRING) /\ stored \in Seq(Int) /\ min \in Int /\ max \in Int /\ next \in Nat
      /\ Len(out) \in Nat
  BY DEF TypeOK
<1>3. \A text \in Seq(STRING) : out \o text \in Seq(STRING)
  BY <1>1
<1>4. CASE Integer
  <2>1. ch \in IntConv /\ Takes(ch) = 1
    BY <1>4 DEF Integer, Takes
  <2>2. Arg("number") \in 0 .. Word - 1
    BY <2>1 DEF Supplied
  <2>3. Signed(Arg("number")) \in Int /\ BaseOf(ch) \in 1 .. 16
    BY <2>2, SignedType, BaseType
  <2> DEFINE fl == flags \cup (IF ch \in {"o", "u", "x", "X"} THEN {"unsigned"} ELSE {})
                         \cup (IF ch = "X" THEN {"caps"} ELSE {})
             text == FmtInt(Signed(Arg("number")), BaseOf(ch), min, max, fl)
  <2>4. text \in Seq(STRING)
    <3> HIDE DEF fl
    <3> QED
      BY <1>1, <2>3, FmtIntType
  <2>5. out' = out \o text /\ next' = next + 1 /\ stored' = stored
    BY <1>4 DEF Integer, Put
  <2> HIDE DEF text
  <2> QED
    BY <1>1, <1>3, <2>1, <2>4, <2>5
<1>5. CASE String
  <2>1. ch = "s" /\ Takes(ch) = 1
    BY <1>5 DEF String, Takes
  <2>2. Arg("text") \in Seq(STRING)
    BY <2>1 DEF Supplied
  <2> DEFINE text == FmtStr(Arg("text"), flags, min, IF max < 0 THEN maxlen ELSE max)
  <2>3. text \in Seq(STRING)
    BY <1>1, <2>2, FmtStrType
  <2>4. out' = out \o text /\ next' = next + 1 /\ stored' = stored
    BY <1>5 DEF String, Put
  <2> HIDE DEF text
  <2> QED
    BY <1>1, <1>3, <2>1, <2>3, <2>4
<1>6. CASE Float
  <2>1. ch = "f" /\ Takes(ch) = 1
    BY <1>6 DEF Float, Takes
  <2>2. Arg("real") \in [neg : BOOLEAN, num : Nat, den : Nat \ {0}]
    BY <2>1 DEF Supplied
  <2> DEFINE text == FmtFp(Arg("real"), min, max, flags)
  <2>3. text \in Seq(STRING)
    BY <1>1, <2>2, FmtFpType
  <2>4. out' = out \o text /\ next' = next + 1 /\ stored' = stored
    BY <1>6 DEF Float, Put
  <2> HIDE DEF text
  <2> QED
    BY <1>1, <1>3, <2>1, <2>3, <2>4
<1>7. CASE Count
  <2> DEFINE n == IF cflags = "h" THEN ToShort(Len(out)) ELSE Len(out)
  <2>1. Takes(ch) = 1 /\ out' = out /\ next' = next + 1 /\ stored' = Append(stored, n)
    BY <1>7 DEF Count, Takes
  <2>2. n \in Int
    BY <1>1, ShortType
  <2> HIDE DEF n
  <2> QED
    BY <1>1, <2>1, <2>2
<1>8. CASE Other
  <2>1. CASE ch = "c" /\ Put(<<Arg("char")>>, 1)
    <3>1. Takes(ch) = 1 /\ Arg("char") \in STRING
      BY <2>1 DEF Supplied, Takes
    <3>2. <<Arg("char")>> \in Seq(STRING)
      BY <3>1, OneOf
    <3> QED
      BY <1>1, <1>3, <2>1, <3>1, <3>2 DEF Put
  <2>2. CASE ch = "%" /\ Put(<<"%">>, 0)
    <3>1. Takes(ch) = 0
      BY <2>2 DEF Takes, IntConv
    <3> QED
      BY <1>1, <1>3, <2>2, <3>1, ShortTexts DEF Put
  <2>3. CASE ch \in {"e", "E", "g", "G"} /\ Put(<<>>, 1)
    <3>1. Takes(ch) = 1
      BY <2>3 DEF Takes
    <3> QED
      BY <1>1, <1>3, <2>3, <3>1, ShortTexts DEF Put
  <2>4. CASE /\ ch \notin IntConv \cup {"s", "f", "n", "c", "%", "e", "E", "g", "G"}
             /\ Put(<<>>, 0)
    <3>1. Takes(ch) = 0
      BY <2>4 DEF Takes
    <3> QED
      BY <1>1, <1>3, <2>4, <3>1, ShortTexts DEF Put
  <2> QED
    BY <1>8, <2>1, <2>2, <2>3, <2>4 DEF Other
<1> QED
  BY <1>4, <1>5, <1>6, <1>7, <1>8

\* In the conversion of a directive, that conversion is looked at, and the argument
\* that va_arg() gives is the value of the directive.
LEMMA ConvSeen ==
    ASSUME Laid, ~Overrun, ch # Nul, NEW k, NEW j, NEW t, At(k, j, t), IsDirective(program.items[k]),
           Phase("conv", program.items[k], j, t)
    PROVE  LET d == program.items[k]
           IN  /\ pos \in Nat /\ pos <= Len(format) /\ ch = d.conv
               /\ d.conv \notin {"%", "w", "?"} => \A kind : Arg(kind) = d.value
<1> DEFINE d == program.items[k]
<1>3. d \in Item /\ IsDirective(d)
  BY DEF At
<1>4. j = ConvAt(d) /\ t = WidthArgs(d) + PrecArgs(d) + 1
  BY DEF Phase
<1>5. Layout(d) /\ ArgLayout(d) /\ d.conv \in Convs
  BY <1>3, LaidOut, ArgsLaidOut, Parts
<1>6. ConvAt(d) \in Nat /\ ConvAt(d) >= 1 /\ ConvAt(d) = Len(SpelledItem(d))
      /\ SpelledItem(d)[ConvAt(d)] = d.conv
  <2>1. /\ 2 <= WidthAt(d) /\ WidthAt(d) <= DotAt(d) /\ DotAt(d) <= ModAt(d)
        /\ ModAt(d) <= ConvAt(d) /\ WidthAt(d) \in Nat /\ DotAt(d) \in Nat
        /\ ModAt(d) \in Nat /\ ConvAt(d) \in Nat /\ SpelledItem(d)[ConvAt(d)] = d.conv
    BY <1>5 DEF Layout
  <2>2. 1 <= ConvAt(d)
    BY ONLY <2>1
  <2> QED
    BY <2>1, <2>2 DEF ConvAt
<1>7. pos \in Nat /\ pos <= Len(format) /\ ch = d.conv
  <2>1. j \in 1 .. Len(SpelledItem(d))
    BY ONLY <1>4, <1>6
  <2> QED
    BY <1>4, <1>6, <2>1, CharSeen
<1>10. Len(ArgsOf(d)) = WidthArgs(d) + PrecArgs(d) + ValueArgs(d)
       /\ WidthArgs(d) \in {0, 1} /\ PrecArgs(d) \in {0, 1} /\ ValueArgs(d) \in {0, 1}
  BY <1>5 DEF ArgLayout, WidthArgs, PrecArgs, ValueArgs
<1>11. d.conv \notin {"%", "w", "?"} => \A kind : Arg(kind) = d.value
  <2> SUFFICES ASSUME d.conv \notin {"%", "w", "?"}, NEW kind PROVE Arg(kind) = d.value
    OBVIOUS
  <2>1. ValueArgs(d) = 1
    BY DEF ValueArgs
  <2>2. t \in 1 .. Len(ArgsOf(d))
    BY ONLY <1>4, <1>10, <2>1
  <2>3. Arg(kind) = ArgsOf(d)[t]
    BY <2>2, ArgSeen
  <2> QED
    BY <1>4, <1>5, <2>3 DEF ArgLayout
<1> QED
  BY <1>7, <1>11

\* Such a value is of the kind that is asked for.
LEMMA ValueSupplied ==
    ASSUME NEW d \in Item, IsDirective(d), ch = d.conv,
           d.conv \notin {"%", "w", "?"} => \A kind : Arg(kind) = d.value
    PROVE  Supplied /\ Takes(ch) = ValueArgs(d)
<1>1. ch \in Convs
  BY Parts
<1>2. CASE ch \in IntConv
  <2>1. ch \notin {"%", "w", "?", "s", "f", "c"}
    BY <1>2 DEF IntConv
  <2> QED
    BY <1>2, <2>1, Parts DEF Supplied, Takes, ValueArgs
<1>3. CASE ch \notin IntConv
  <2>1. ch = "s" => Arg("text") \in Seq(STRING)
    BY Parts
  <2>2. ch = "f" => Arg("real") \in [neg : BOOLEAN, num : Nat, den : Nat \ {0}]
    BY Parts
  <2>3. ch = "c" => Arg("char") \in STRING
    BY Parts
  <2>4. Takes(ch) = ValueArgs(d)
    BY <1>1, <1>3 DEF Takes, ValueArgs, Convs
  <2> QED
    BY <1>3, <2>1, <2>2, <2>3, <2>4 DEF Supplied
<1> QED
  BY <1>2, <1>3

\* %w takes the character behind it with it, which is a literal or the terminator.
LEMMA ConvInv == ASSUME IInv, ~Overrun, Conv PROVE IInv'
<1>1. Laid /\ Given' /\ state = "conv" /\ ch # Nul /\ UNCHANGED given
  BY GivenLaid, GivenKept DEF IInv, Conv, In, AtEnd
<1>2. PICK k, j, t : /\ At(k, j, t) /\ IsDirective(program.items[k])
                     /\ Phase("conv", program.items[k], j, t)
  BY <1>1, WhereItIs
<1> DEFINE d == program.items[k]
           L == Len(program.items)
           C == Chars(program.items)
           V == Vals(program.items)
<1>3. d \in Item /\ IsDirective(d) /\ k \in 1 .. L /\ L \in Nat
  BY <1>1, <1>2 DEF At, Laid
<1>4. j = ConvAt(d) /\ t = WidthArgs(d) + PrecArgs(d) + 1
  BY <1>2 DEF Phase
<1>5. Layout(d) /\ ArgLayout(d) /\ d.conv \in Convs
  BY <1>3, LaidOut, ArgsLaidOut, Parts
<1>6. ConvAt(d) \in Nat /\ ConvAt(d) >= 1 /\ ConvAt(d) = Len(SpelledItem(d))
      /\ SpelledItem(d)[ConvAt(d)] = d.conv
  <2>1. /\ 2 <= WidthAt(d) /\ WidthAt(d) <= DotAt(d) /\ DotAt(d) <= ModAt(d)
        /\ ModAt(d) <= ConvAt(d) /\ WidthAt(d) \in Nat /\ DotAt(d) \in Nat
        /\ ModAt(d) \in Nat /\ ConvAt(d) \in Nat /\ SpelledItem(d)[ConvAt(d)] = d.conv
    BY <1>5 DEF Layout
  <2>2. 1 <= ConvAt(d)
    BY ONLY <2>1
  <2> QED
    BY <2>1, <2>2 DEF ConvAt
<1>7. /\ pos \in Nat /\ pos <= Len(format) /\ ch = d.conv
      /\ d.conv \notin {"%", "w", "?"} => \A kind : Arg(kind) = d.value
  BY <1>1, <1>2, ConvSeen
<1>8. /\ C[k] \in Nat /\ V[k] \in Nat /\ C[k - 1] \in Nat /\ V[k - 1] \in Nat
      /\ C[k] = C[k - 1] + Len(SpelledItem(d)) /\ V[k] = V[k - 1] + Len(ArgsOf(d))
      /\ C[k] <= Len(Spelled(program.items)) /\ V[k] <= Len(args)
  BY <1>1, <1>3, ItemEnds
<1>9. pos = C[k - 1] + j /\ next = V[k - 1] + t
  BY <1>2 DEF At
<1>10. Len(ArgsOf(d)) = WidthArgs(d) + PrecArgs(d) + ValueArgs(d)
       /\ WidthArgs(d) \in {0, 1} /\ PrecArgs(d) \in {0, 1} /\ ValueArgs(d) \in {0, 1}
  BY <1>5 DEF ArgLayout, WidthArgs, PrecArgs, ValueArgs
<1>11. Supplied /\ Takes(ch) = ValueArgs(d)
  BY <1>3, <1>7, ValueSupplied
<1>12. out' \in Seq(STRING) /\ stored' \in Seq(Int) /\ next' = next + ValueArgs(d)
  BY <1>1, <1>11, Converted DEF Conv, IInv, Laid
<1>13. state' = "default" /\ pos' = pos + (IF ch = "w" THEN 2 ELSE 1) /\ flags' = {} /\ min' = 0
       /\ max' = -1 /\ cflags' = "none"
  BY DEF Conv, GoOn
<1>14. program' = program /\ format' = format /\ args' = args
  BY <1>1 DEF given
<1> HIDE DEF d, C, V, L
<1>15. pos = C[k] /\ next' = V[k] + 1
  <2>1. pos = C[k]
    BY ONLY <1>4, <1>6, <1>8, <1>9
  <2>2. V[k] = V[k - 1] + (WidthArgs(d) + PrecArgs(d) + ValueArgs(d))
    BY ONLY <1>8, <1>10
  <2>3. next' = V[k - 1] + (WidthArgs(d) + PrecArgs(d) + 1) + ValueArgs(d)
    BY ONLY <1>4, <1>9, <1>12
  <2>4. V[k - 1] \in Int /\ WidthArgs(d) \in Int /\ PrecArgs(d) \in Int /\ ValueArgs(d) \in Int
    BY ONLY <1>8, <1>10
  <2> QED
    BY ONLY <2>1, <2>2, <2>3, <2>4
<1>16. TypeOK'
  <2>1. pos' \in Nat \ {0} /\ next' \in Nat \ {0}
    <3>1. pos' \in {pos + 1, pos + 2}
      BY <1>13
    <3>2. V[k] \in Nat
      BY ONLY <1>8
    <3> QED
      BY ONLY <1>7, <1>15, <3>1, <3>2
  <2> QED
    BY <1>12, <1>13, <2>1 DEF TypeOK, States
<1>17. next' <= Len(args') + 1
  <2>1. Len(args) \in Nat
    BY <1>1 DEF Laid
  <2> QED
    BY ONLY <1>8, <1>14, <1>15, <2>1
<1>18. CASE ch # "w"
  <2>1. pos' = pos + 1
    BY <1>13, <1>18
  <2>2. Between(k)'
    BY <1>14, <1>15, <2>1 DEF Between, C, V
  <2>3. k \in 0 .. Len(program'.items)
    BY <1>3, <1>14 DEF L
  <2>4. Parsed'
    BY <1>13, <2>2, <2>3 DEF Parsed
  <2>5. Inside'
    BY <1>1, <1>7, <1>17, <2>1, InsideKept
  <2> QED
    BY <1>1, <1>16, <2>4, <2>5 DEF IInv
<1>19. CASE ch = "w"
  <2>1. pos' = pos + 2 /\ d.conv = "w"
    BY <1>7, <1>13, <1>19
  <2>2. Len(format) \in Nat /\ Len(format) <= Len(Spelled(program.items))
        /\ Len(Spelled(program.items)) \in Nat
    BY <1>1 DEF Laid
  <2>3. pos' > Len(format) + 1 => Last(format') = "w"
    <3>1. pos' > Len(format) + 1 => pos = Len(format)
      BY ONLY <1>7, <2>1, <2>2
    <3>2. ch = format[pos]
      BY <1>1, <1>7, NotBehind
    <3> QED
      BY <1>14, <1>19, <3>1, <3>2 DEF Last
  <2>4. Inside'
    BY <1>14, <1>17, <2>3 DEF Inside, Overrun
  <2>5. CASE k = L
    <3>1. C[k] = Len(Spelled(program.items))
      BY <1>1, <2>5 DEF Laid, Places, C, L
    <3>2. pos' > Len(format)
      BY ONLY <1>7, <1>15, <2>1, <2>2, <3>1
    <3>3. Parsed'
      BY <1>13, <1>14, <3>2 DEF Parsed
    <3> QED
      BY <1>1, <1>16, <2>4, <3>3 DEF IInv
  <2>6. CASE k # L
    <3>1. k \in 1 .. L - 1 /\ k + 1 \in 1 .. L /\ (k + 1) - 1 = k
      BY ONLY <1>3, <2>6
    <3> DEFINE item == program.items[k + 1]
    <3>2. item \in Item
      BY <1>1, <3>1 DEF Laid, L
    <3>3. ~IsDirective(item)
      BY <1>3, <2>1, <3>1, ProgramsAssumption DEF IInv, Given, d, L
    <3> HIDE DEF item
    <3>4. Len(SpelledItem(item)) = 1 /\ Len(ArgsOf(item)) = 0
      BY <3>2, <3>3, LiteralLaidOut
    <3>5. C[k + 1] = C[k] + Len(SpelledItem(item)) /\ V[k + 1] = V[k] + Len(ArgsOf(item))
      BY <1>1, <3>1, ItemEnds DEF item, C, V, L
    <3>6. pos' = C[k + 1] + 1 /\ next' = V[k + 1] + 1
      <4>1. C[k] \in Nat /\ V[k] \in Nat
        BY ONLY <1>8
      <4>2. C[k + 1] = C[k] + 1 /\ V[k + 1] = V[k] + 0
        BY ONLY <3>4, <3>5
      <4> QED
        BY ONLY <1>15, <2>1, <4>1, <4>2
    <3>7. Between(k + 1)'
      BY <1>14, <3>6 DEF Between, C, V
    <3>8. k + 1 \in 0 .. Len(program'.items)
      BY <1>14, <3>1 DEF L
    <3>9. Parsed'
      BY <1>13, <3>7, <3>8 DEF Parsed
    <3> QED
      BY <1>1, <1>16, <2>4, <3>9 DEF IInv
  <2> QED
    BY <2>5, <2>6
<1> QED
  BY <1>18, <1>19

\* A format that was left is not come back to.
LEMMA OverrunKept ==
    ASSUME IInv, Overrun, UNCHANGED given, pos' \in Nat, pos' >= pos, TypeOK'
    PROVE  IInv'
<1>1. Laid /\ Given'
  BY GivenLaid, GivenKept DEF IInv
<1>2. format' = format
  BY DEF given
<1>3. pos' > Len(format) + 1
  <2>1. Len(format) \in Nat /\ pos \in Nat /\ pos > Len(format) + 1
    BY <1>1 DEF Laid, IInv, TypeOK, Overrun
  <2> QED
    BY ONLY <2>1, pos' \in Nat, pos' >= pos
<1>4. Overrun'
  BY <1>2, <1>3 DEF Overrun
<1>5. Inside' /\ Parsed'
  BY <1>2, <1>4 DEF IInv, Inside, Parsed
<1> QED
  BY <1>1, <1>5 DEF IInv

\* What is behind a format is read as one, with what va_arg() gives there.
LEMMA BehindSeen ==
    ASSUME Laid, pos \in Nat, Overrun, ch # Nul
    PROVE  ch \in STRING /\ Arg("star") \in Int /\ Supplied
<1>1. Len(format) \in Nat /\ pos > Len(format) + 1
  BY DEF Laid, Overrun
<1>2. pos - Len(format) - 1 \in DOMAIN program.behind /\ ch = program.behind[pos - Len(format) - 1]
  BY <1>1 DEF ch
<1>3. ch \in STRING
  BY <1>2 DEF Laid
<1>4. \A kind : Arg(kind) = program.left[kind]
  BY DEF Arg
<1>5. /\ program.left["star"] \in Int /\ program.left["number"] \in 0 .. Word - 1
      /\ program.left["text"] \in Seq(STRING) /\ program.left["char"] \in STRING
      /\ program.left["real"] \in [neg : BOOLEAN, num : Nat, den : Nat \ {0}]
  BY DEF Laid, Left
<1> QED
  BY <1>3, <1>4, <1>5 DEF Supplied

\* What is behind a format is interpreted, whatever it is.
LEMMA OverrunInv == ASSUME IInv, Overrun, Next, ~Finish, ~Returned PROVE IInv'
<1>1. UNCHANGED given /\ ch # Nul
  BY DEF Next, Default, Flags, Width, Dot, Precision, Mod, Conv, In, AtEnd
<1>2. Laid /\ TypeOK
  BY GivenLaid DEF IInv
<1>3. /\ pos \in Nat \ {0} /\ next \in Nat \ {0} /\ min \in Int /\ max \in Int
      /\ out \in Seq(STRING) /\ stored \in Seq(Int) /\ flags \subseteq FlagChars
      /\ cflags \in {"none", "h", "l", "L"}
  BY <1>2 DEF TypeOK
<1>4. ch \in STRING /\ Arg("star") \in Int /\ Supplied
  BY <1>1, <1>2, <1>3, BehindSeen
<1>5. pos' = pos \/ pos' = pos + 0 \/ pos' = pos + 1 \/ pos' = pos + 2
  BY DEF Next, Default, Flags, Width, Dot, Precision, Mod, Conv, GoOn
<1>6. pos' \in Nat \ {0} /\ pos' >= pos
  BY ONLY <1>3, <1>5
<1>7. state' \in States
  BY DEF Next, Default, Flags, Width, Dot, Precision, Mod, Conv, GoOn, States
<1>8. ASSUME Default PROVE TypeOK'
  <2>1. out' \in Seq(STRING) /\ UNCHANGED <<next, spec, stored>>
    BY <1>3, <1>4, <1>8 DEF Default
  <2> QED
    BY <1>3, <1>6, <1>7, <2>1 DEF TypeOK, spec
<1>9. ASSUME Flags PROVE TypeOK'
  <2>1. flags' \subseteq FlagChars /\ UNCHANGED <<next, min, max, cflags, out, stored>>
    BY <1>3, <1>9 DEF Flags
  <2> QED
    BY <1>3, <1>6, <1>7, <2>1 DEF TypeOK
<1>10. ASSUME Width PROVE TypeOK'
  <2>1. UNCHANGED <<flags, max, cflags, out, stored>>
    BY <1>10 DEF Width
  <2>2. min' \in Int /\ next' \in Nat \ {0}
    <3>1. isdigit(ch) => Number[ch] \in Int
      BY NumberType
    <3> QED
      BY <1>3, <1>4, <1>10, <3>1 DEF Width
  <2> QED
    BY <1>3, <1>6, <1>7, <2>1, <2>2 DEF TypeOK
<1>11. ASSUME Dot PROVE TypeOK'
  <2>1. UNCHANGED <<next, spec, out, stored>>
    BY <1>11 DEF Dot
  <2> QED
    BY <1>3, <1>6, <1>7, <2>1 DEF TypeOK, spec
<1>12. ASSUME Precision PROVE TypeOK'
  <2>1. UNCHANGED <<flags, min, cflags, out, stored>>
    BY <1>12 DEF Precision
  <2>2. max' \in Int /\ next' \in Nat \ {0}
    <3>1. isdigit(ch) => Number[ch] \in Int
      BY NumberType
    <3>2. Larger(max, 0) \in Int
      BY <1>3 DEF Larger
    <3> QED
      BY <1>3, <1>4, <1>12, <3>1, <3>2 DEF Precision
  <2> QED
    BY <1>3, <1>6, <1>7, <2>1, <2>2 DEF TypeOK
<1>13. ASSUME Mod PROVE TypeOK'
  <2>1. UNCHANGED <<next, flags, min, max, out, stored>> /\ cflags' \in {"none", "h", "l", "L"}
    BY <1>3, <1>13 DEF Mod
  <2> QED
    BY <1>3, <1>6, <1>7, <2>1 DEF TypeOK
<1>14. ASSUME Conv PROVE TypeOK'
  <2>1. out' \in Seq(STRING) /\ stored' \in Seq(Int) /\ next' = next + Takes(ch)
    BY <1>2, <1>4, <1>14, Converted DEF Conv, Laid
  <2>2. flags' = {} /\ min' = 0 /\ max' = -1 /\ cflags' = "none"
    BY <1>14 DEF Conv
  <2>3. next' \in Nat \ {0}
    BY <1>3, <2>1 DEF Takes
  <2> QED
    BY <1>6, <1>7, <2>1, <2>2, <2>3 DEF TypeOK
<1>15. Default \/ Flags \/ Width \/ Dot \/ Precision \/ Mod \/ Conv
  BY DEF Next
<1>16. TypeOK' => IInv'
  BY <1>1, <1>6, OverrunKept
<1> QED
  BY <1>8, <1>9, <1>10, <1>11, <1>12, <1>13, <1>14, <1>15, <1>16

\* dopr() stays within the format and within the arguments of every program.
THEOREM Invariance == Spec => []IInv
<1>1. Init => IInv
  BY InitInv
<1>2. IInv /\ [Next]_vars => IInv'
  <2> SUFFICES ASSUME IInv, [Next]_vars PROVE IInv'
    OBVIOUS
  <2>1. CASE Default /\ ~Overrun
    BY <2>1, DefaultInv
  <2>2. CASE Flags /\ ~Overrun
    BY <2>2, FlagsInv
  <2>3. CASE Width /\ ~Overrun
    BY <2>3, WidthInv
  <2>4. CASE Dot /\ ~Overrun
    BY <2>4, DotInv
  <2>5. CASE Precision /\ ~Overrun
    BY <2>5, PrecInv
  <2>6. CASE Mod /\ ~Overrun
    BY <2>6, ModInv
  <2>7. CASE Conv /\ ~Overrun
    BY <2>7, ConvInv
  <2>8. CASE Finish
    BY <2>8, FinishInv
  <2>9. CASE Returned
    BY <2>9, StutterInv DEF Returned
  <2>10. CASE UNCHANGED vars
    BY <2>10, StutterInv
  <2>11. CASE Overrun /\ Next /\ ~Finish /\ ~Returned
    BY <2>11, OverrunInv
  <2> QED
    BY <2>1, <2>2, <2>3, <2>4, <2>5, <2>6, <2>7, <2>8, <2>9, <2>10, <2>11 DEF Next
<1> QED
  BY <1>1, <1>2, PTL DEF Spec

\* dopr() does not look behind the terminator of the format, wherever that breaks off,
\* but for a format that ends in %w, and until it does, it does not ask for an argument
\* that was not given
\* (dopr(): every case of the switch that moves on in the format or calls va_arg()).
THEOREM StaysInside == Spec => []Inv
<1>1. IInv => Inv
  BY DEF IInv, Inv
<1> QED
  BY <1>1, Invariance, PTL

(***************************************************************************)
(* What a printed number reads back as.                                    *)
(***************************************************************************)

\* Nothing is left of a number of an int when 19 digits are taken away.
LEMMA Eighth ==
    ASSUME NEW x \in Nat, NEW y \in Nat, x < 8 * y, NEW b \in {8, 10, 16} PROVE x \div b < y
<1>1. b \in Nat /\ b >= 8
  OBVIOUS
<1> DEFINE q == x \div b
           r == x % b
<1>2. CASE b = 8
  BY <1>2
<1>3. CASE b = 10
  BY <1>3
<1>4. CASE b = 16
  BY <1>4
<1> QED
  BY <1>2, <1>3, <1>4

\* Which is why 19 places are enough.
LEMMA LastRest ==
    ASSUME NEW u \in 0 .. Word - 1, NEW b \in {8, 10, 16}
    PROVE  Rests(u, b) \in [0 .. 20 -> Nat] /\ Rests(u, b)[19] = 0
<1> DEFINE r == Rests(u, b)
<1>1. Word \in Nat /\ Word < 144115188075855872
  <2>1. Word \in Nat /\ Word \div 2^28 < 2^29
    BY SnprintfAssumption
  <2>2. 2^28 = 268435456 /\ 2^29 = 536870912
    OBVIOUS
  <2>3. Word \div 268435456 < 536870912
    BY <2>1, <2>2
  <2> QED
    BY ONLY <2>1, <2>3
<1>2. r \in [0 .. 20 -> Nat] /\ r[0] = u /\ \A n \in 1 .. 20 : r[n] = r[n - 1] \div b
  <2> DEFINE T == Nat
  <2>1. Divisible(T, b) /\ u \in T
    BY <1>1 DEF Divisible
  <2> HIDE DEF T
  <2>2. r \in [0 .. 20 -> T] /\ r[0] = u /\ \A n \in 1 .. 20 : r[n] = r[n - 1] \div b
    BY ONLY <2>1, RestsDef
  <2> QED
    BY ONLY <2>2 DEF T
<1>3. \A n \in 0 .. 20 : r[n] \in Nat
  BY <1>2
<1> HIDE DEF r
<1>4. ASSUME NEW n \in 1 .. 20, NEW m, m = n - 1, NEW y \in Nat, r[m] < 8 * y PROVE r[n] < y
  <2>1. m \in 0 .. 20 /\ r[m] \in Nat /\ r[n] = r[m] \div b
    BY <1>2, <1>3, <1>4
  <2> QED
    BY <1>4, <2>1, Eighth
<1>5. r[0] < 144115188075855872
  BY <1>1, <1>2
<1>6. r[1] < 18014398509481984
  BY <1>4, <1>5
<1>7. r[2] < 2251799813685248
  BY <1>4, <1>6
<1>8. r[3] < 281474976710656
  BY <1>4, <1>7
<1>9. r[4] < 35184372088832
  BY <1>4, <1>8
<1>10. r[5] < 4398046511104
  BY <1>4, <1>9
<1>11. r[6] < 549755813888
  BY <1>4, <1>10
<1>12. r[7] < 68719476736
  BY <1>4, <1>11
<1>13. r[8] < 8589934592
  BY <1>4, <1>12
<1>14. r[9] < 1073741824
  BY <1>4, <1>13
<1>15. r[10] < 134217728
  BY <1>4, <1>14
<1>16. r[11] < 16777216
  BY <1>4, <1>15
<1>17. r[12] < 2097152
  BY <1>4, <1>16
<1>18. r[13] < 262144
  BY <1>4, <1>17
<1>19. r[14] < 32768
  BY <1>4, <1>18
<1>20. r[15] < 4096
  BY <1>4, <1>19
<1>21. r[16] < 512
  BY <1>4, <1>20
<1>22. r[17] < 64
  BY <1>4, <1>21
<1>23. r[18] < 8
  BY <1>4, <1>22
<1>24. r[19] < 1
  BY <1>4, <1>23
<1> QED
  BY <1>2, <1>3, <1>24 DEF r

Marks == {" ", "+", "-"}

\* What the digits are worth.
LEMMA DigitWorth ==
    ASSUME NEW i \in 1 .. 16
    PROVE  /\ Lower[i] \notin Marks /\ Upper[i] \notin Marks
           /\ DigitOf(Lower[i]) = i - 1 /\ DigitOf(Upper[i]) = i - 1
<1>1. /\ Lower[1] = "0" /\ Lower[2] = "1" /\ Lower[3] = "2" /\ Lower[4] = "3"
      /\ Lower[5] = "4" /\ Lower[6] = "5" /\ Lower[7] = "6" /\ Lower[8] = "7"
      /\ Lower[9] = "8" /\ Lower[10] = "9" /\ Lower[11] = "a" /\ Lower[12] = "b"
      /\ Lower[13] = "c" /\ Lower[14] = "d" /\ Lower[15] = "e" /\ Lower[16] = "f"
  BY DEF Lower
<1>2. /\ Upper[1] = "0" /\ Upper[2] = "1" /\ Upper[3] = "2" /\ Upper[4] = "3"
      /\ Upper[5] = "4" /\ Upper[6] = "5" /\ Upper[7] = "6" /\ Upper[8] = "7"
      /\ Upper[9] = "8" /\ Upper[10] = "9" /\ Upper[11] = "A" /\ Upper[12] = "B"
      /\ Upper[13] = "C" /\ Upper[14] = "D" /\ Upper[15] = "E" /\ Upper[16] = "F"
  BY DEF Upper
<1>3. \A j \in 1 .. 16 : j = 1 \/ j = 2 \/ j = 3 \/ j = 4 \/ j = 5 \/ j = 6 \/ j = 7 \/ j = 8
                         \/ j = 9 \/ j = 10 \/ j = 11 \/ j = 12 \/ j = 13 \/ j = 14 \/ j = 15 \/ j = 16
  OBVIOUS
<1>4. DOMAIN Lower = 1 .. 16 /\ DOMAIN Upper = 1 .. 16
  BY DEF Lower, Upper
<1>5. ASSUME NEW j \in 1 .. 16, NEW k \in 1 .. 16, Lower[j] = Lower[k] PROVE j = k
  BY ONLY <1>1, <1>3, <1>5
<1>6. ASSUME NEW j \in 1 .. 16, NEW k \in 1 .. 16, Upper[j] = Upper[k] PROVE j = k
  BY ONLY <1>2, <1>3, <1>6
<1>7. ASSUME NEW j \in 1 .. 16, NEW k \in 1 .. 16, Upper[j] = Lower[k] PROVE j = k
  BY ONLY <1>1, <1>2, <1>3, <1>7
<1>8. \A c : c \in ToSet(Lower) <=> \E j \in 1 .. 16 : c = Lower[j]
  BY <1>4 DEF ToSet
<1>9. ASSUME NEW j \in 1 .. 16 PROVE DigitOf(Lower[j]) = j - 1
  <2> DEFINE place == CHOOSE m \in DOMAIN Lower : Lower[m] = Lower[j]
  <2>1. place \in 1 .. 16 /\ Lower[place] = Lower[j]
    BY <1>4
  <2>2. DigitOf(Lower[j]) = place - 1
    BY <1>8 DEF DigitOf, Number
  <2> HIDE DEF place
  <2>3. place = j
    BY <1>5, <2>1
  <2> QED
    BY <2>2, <2>3
<1>10. DigitOf(Upper[i]) = i - 1
  <2>1. CASE Upper[i] \in ToSet(Lower)
    <3>1. PICK j \in 1 .. 16 : Upper[i] = Lower[j]
      BY <1>8, <2>1
    <3>2. i = j
      BY <1>7, <3>1
    <3> QED
      BY <1>9, <3>1, <3>2
  <2>2. CASE Upper[i] \notin ToSet(Lower)
    <3> DEFINE place == CHOOSE m \in DOMAIN Upper : Upper[m] = Upper[i]
    <3>1. place \in 1 .. 16 /\ Upper[place] = Upper[i]
      BY <1>4
    <3>2. DigitOf(Upper[i]) = place - 1
      BY <2>2 DEF DigitOf
    <3> HIDE DEF place
    <3>3. place = i
      BY <1>6, <3>1
    <3> QED
      BY <3>2, <3>3
  <2> QED
    BY <2>1, <2>2
<1>11. Lower[i] \notin Marks /\ Upper[i] \notin Marks
  BY ONLY <1>1, <1>2, <1>3, i \in 1 .. 16 DEF Marks
<1> QED
  BY <1>9, <1>10, <1>11

\* What Read() goes through.
Reads(N, text, b) ==
    /\ N \in [0 .. Len(text) -> Int] /\ N[0] = 0
    /\ \A n \in 1 .. Len(text) :
          N[n] = IF text[n] \in Marks THEN N[n - 1] ELSE b * N[n - 1] + DigitOf(text[n])

Readable(text) ==
    \A i \in 1 .. Len(text) : text[i] \in Marks \/ DigitOf(text[i]) \in Int

\* There is such a function, and Read() is its last value.
LEMMA ReadDef ==
    ASSUME NEW text \in Seq(STRING), NEW b \in Nat, Readable(text)
    PROVE  \E N : /\ Reads(N, text, b)
                  /\ Read(text, b) = IF "-" \in ToSet(text) THEN 0 - N[Len(text)] ELSE N[Len(text)]
<1> DEFINE L == Len(text)
           To(n, x) == IF text[n] \in {" ", "+", "-"} THEN x ELSE b * x + DigitOf(text[n])
           step == [n \in 1 .. L |-> [x \in Int |-> To(n, x)]]
           Is(f) == f = [n \in 0 .. L |-> IF n = 0 THEN 0
                                          ELSE IF text[n] \in {" ", "+", "-"} THEN f[n - 1]
                                          ELSE b * f[n - 1] + DigitOf(text[n])]
<1>1. L \in Nat
  OBVIOUS
<1>2. ASSUME NEW n \in 1 .. L, NEW x \in Int PROVE To(n, x) \in Int
  <2>1. text[n] \in {" ", "+", "-"} \/ DigitOf(text[n]) \in Int
    BY DEF Readable, Marks
  <2>2. CASE text[n] \in {" ", "+", "-"}
    <3>1. To(n, x) = x
      BY <2>2
    <3> QED
      BY <3>1
  <2>3. CASE text[n] \notin {" ", "+", "-"}
    <3>1. To(n, x) = b * x + DigitOf(text[n])
      BY <2>3
    <3> DEFINE digit == DigitOf(text[n])
    <3>2. digit \in Int
      BY ONLY <2>1, <2>3, Zenon
    <3> HIDE DEF digit
    <3>3. b * x + digit \in Int
      BY <3>2
    <3> HIDE DEF To
    <3> QED
      BY <3>1, <3>3 DEF digit
  <2> QED
    BY <2>2, <2>3
<1>3. step \in [1 .. L -> [Int -> Int]] /\ \A n \in 1 .. L : \A x \in Int : step[n][x] = To(n, x)
  <2> HIDE DEF L, To
  <2> QED
    BY <1>2
<1>4. PICK g : Iterates(g, L, Int, 0, step)
  <2>1. 0 \in Int
    OBVIOUS
  <2> HIDE DEF L, step
  <2> QED
    BY ONLY <1>1, <1>3, <2>1, Recursion
<1> HIDE DEF step
<1>5. g \in [0 .. L -> Int] /\ g[0] = 0 /\ \A n \in 1 .. L : g[n] = To(n, g[n - 1])
  <2>1. g \in [0 .. L -> Int] /\ g[0] = 0 /\ \A n \in 1 .. L : g[n] = step[n][g[n - 1]]
    BY <1>4 DEF Iterates
  <2>2. \A n \in 1 .. L : n - 1 \in 0 .. L
    BY <1>1
  <2> HIDE DEF L, To
  <2> QED
    BY <1>3, <2>1, <2>2
<1>6. Is(g)
  <2>1. \A n \in 0 .. L : n = 0 \/ n \in 1 .. L
    BY <1>1
  <2> HIDE DEF L, To
  <2>2. \A n \in 0 .. L : g[n] = IF n = 0 THEN 0 ELSE To(n, g[n - 1])
    BY <1>5, <2>1
  <2>3. g = [n \in 0 .. L |-> IF n = 0 THEN 0 ELSE To(n, g[n - 1])]
    BY <1>5, <2>2
  <2> QED
    BY <2>3 DEF To
<1> DEFINE F == CHOOSE f : Is(f)
<1>7. Is(F)
  <2> HIDE DEF Is
  <2> QED
    BY <1>6
<1>8. Read(text, b) = IF "-" \in ToSet(text) THEN 0 - F[L] ELSE F[L]
  BY DEF Read
<1> HIDE DEF F
<1>9. F = [n \in 0 .. L |-> F[n]] /\ F[0] = 0 /\ \A n \in 1 .. L : F[n] = To(n, F[n - 1])
  <2>1. 0 \in 0 .. L /\ \A n \in 1 .. L : n \in 0 .. L /\ n # 0
    BY <1>1
  <2>2. F = [n \in 0 .. L |-> IF n = 0 THEN 0 ELSE To(n, F[n - 1])]
    BY <1>7
  <2> HIDE DEF L, To
  <2> QED
    BY <2>1, <2>2
<1>10. \A n \in 1 .. L : F[n - 1] \in Int => F[n] = step[n][F[n - 1]]
  <2> HIDE DEF L, To
  <2> QED
    BY <1>3, <1>9
<1>11. Iterates(F, L, Int, 0, step)
  <2>1. 0 \in Int
    OBVIOUS
  <2> HIDE DEF L, To
  <2> QED
    BY ONLY <1>1, <1>3, <1>9, <1>10, <2>1, Recursive
<1>12. Reads(F, text, b)
  <2>1. F \in [0 .. L -> Int]
    BY <1>11 DEF Iterates
  <2> QED
    BY <1>1, <1>9, <2>1 DEF Reads, Marks
<1> QED
  BY <1>8, <1>12

\* The len characters behind the first m are blanks and signs, or leading zeros.
Passable(N, text, m, len) ==
    /\ m + len <= Len(text)
    /\ \/ \A i \in 1 .. len : text[m + i] \in Marks
       \/ N[m] = 0 /\ \A i \in 1 .. len : text[m + i] \in Marks \/ text[m + i] = "0"

\* Blanks, signs and leading zeros do not change what was read.
LEMMA Passed ==
    ASSUME NEW text \in Seq(STRING), NEW b \in Nat, NEW N, Reads(N, text, b),
           NEW m \in Nat, NEW len \in Nat, Passable(N, text, m, len)
    PROVE  N[m + len] = N[m]
<1>0. /\ m + len <= Len(text)
      /\ \/ \A i \in 1 .. len : text[m + i] \in Marks
         \/ N[m] = 0 /\ \A i \in 1 .. len : text[m + i] \in Marks \/ text[m + i] = "0"
  BY DEF Passable
<1> DEFINE Q == {n \in 0 .. len : N[m + n] = N[m]}
<1>1. 0 \in Q
  OBVIOUS
<1>2. ASSUME NEW n \in 0 .. len - 1, n \in Q PROVE n + 1 \in Q
  <2>1. n + 1 \in 1 .. len /\ m + (n + 1) \in 1 .. Len(text) /\ (m + (n + 1)) - 1 = m + n
        /\ n + 1 \in 0 .. len /\ m + n \in 0 .. Len(text)
    BY <1>0
  <2>2. N[m + n] = N[m] /\ N[m] \in Int
    <3>1. m \in 0 .. Len(text)
      BY <1>0
    <3> QED
      BY <1>2, <3>1 DEF Reads
  <2>3. N[m + (n + 1)] = IF text[m + (n + 1)] \in Marks THEN N[m + n]
                         ELSE b * N[m + n] + DigitOf(text[m + (n + 1)])
    BY <2>1 DEF Reads
  <2>4. CASE text[m + (n + 1)] \in Marks
    BY <2>1, <2>2, <2>3, <2>4
  <2>5. CASE N[m] = 0 /\ text[m + (n + 1)] = "0"
    <3>1. "0" \notin Marks /\ DigitOf("0") = 0
      <4>1. Lower[1] = "0" /\ 1 \in 1 .. 16
        BY DEF Lower
      <4>2. Lower[1] \notin Marks /\ DigitOf(Lower[1]) = 1 - 1
        BY <4>1, DigitWorth
      <4> QED
        BY ONLY <4>1, <4>2
    <3>2. b * 0 + 0 = 0
      OBVIOUS
    <3>3. N[m + (n + 1)] = b * 0 + 0
      BY ONLY <2>2, <2>3, <2>5, <3>1
    <3> QED
      BY <2>1, <2>5, <3>2, <3>3
  <2> QED
    BY <1>0, <2>1, <2>4, <2>5
<1>3. 0 .. len \subseteq Q
  <2> HIDE DEF Q
  <2> QED
    BY ONLY len \in Nat, <1>1, <1>2, ByRounds
<1>4. len \in 0 .. len
  OBVIOUS
<1> QED
  BY <1>3, <1>4

\* What DigitsType says of the digits, as one fact.
Numbered(digits, u, b, caps) ==
    /\ Len(digits) = Place(u, b)
    /\ \A j \in 1 .. Place(u, b) :
          digits[j] = (IF caps THEN Upper ELSE Lower)[(Rests(u, b)[Place(u, b) - j] % b) + 1]

\* DigitsType, as one fact.
LEMMA DigitsNumbered ==
    ASSUME NEW u \in Int, NEW b \in 1 .. 16, NEW caps
    PROVE  Numbered(Digits(u, b, caps), u, b, caps)
BY DigitsType DEF Numbered

\* A text is read as a magnitude with its sign.
ReadAs(text, value, b, fl) ==
    Read(text, b) = IF Negative(value, fl) THEN 0 - Magnitude(value, fl) ELSE Magnitude(value, fl)

\* What fmtint() lays out reads back as the magnitude, with its sign.
LEMMA MagnitudeRead ==
    ASSUME NEW text, NEW value \in Int, NEW b \in {8, 10, 16}, NEW fl,
           NEW s1, NEW sign, NEW zeros, NEW s2, Parted(text, value, b, fl, s1, sign, zeros, s2),
           Magnitude(value, fl) \in 0 .. Word - 1
    PROVE  ReadAs(text, value, b, fl)
<1> DEFINE u == Magnitude(value, fl)
           caps == "caps" \in fl
           digits == Digits(u, b, caps)
           P == Place(u, b)
           rest == Rests(u, b)
           chars == IF caps THEN Upper ELSE Lower
           a == Len(s1) + Len(sign) + Len(zeros)
<1>1. u \in Int /\ b \in 1 .. 16 /\ b \in Nat /\ b \in Nat \ {0}
  BY SnprintfAssumption
<1>2. rest \in [0 .. 20 -> Nat] /\ rest[19] = 0 /\ rest[0] = u
      /\ \A n \in 1 .. 20 : rest[n] = rest[n - 1] \div b
  <2>1. Divisible(Int, b)
    BY <1>1 DEF Divisible
  <2>2. rest[0] = u /\ \A n \in 1 .. 20 : rest[n] = rest[n - 1] \div b
    BY <1>1, <2>1, RestsDef
  <2> QED
    BY <2>2, LastRest
<1>3. P \in 1 .. 19 /\ rest[P] = 0
  BY <1>1, <1>2, PlaceIs
<1>4. Len(digits) = P /\ \A j \in 1 .. P : digits[j] = chars[(rest[P - j] % b) + 1]
  <2>1. Numbered(digits, u, b, caps)
    <3> HIDE DEF u
    <3> QED
      BY ONLY <1>1, DigitsNumbered, Zenon DEF digits
  <2> HIDE DEF u, digits
  <2> QED
    BY ONLY <2>1, Zenon DEF Numbered, P, rest, chars
<1>5. SixIn(STRING, <<>>, s1, sign, zeros, digits, s2, text)
  BY <1>1, PartedIs
<1>6. Filled(s1, " ") /\ Filled(zeros, "0") /\ Filled(s2, " ")
      /\ (IF Negative(value, fl) THEN sign = <<"-">> ELSE sign \in {<<>>, <<"+">>, <<" ">>})
  BY DEF Parted
<1> HIDE DEF u, digits, P, rest
\* The digits.
<1>7. ASSUME NEW j \in 1 .. P
      PROVE  /\ digits[j] \notin Marks /\ DigitOf(digits[j]) = rest[P - j] % b
             /\ rest[P - j] \in Nat /\ rest[P - (j - 1)] = rest[P - j] \div b
  <2>1. P - j \in 0 .. 20 /\ P - (j - 1) \in 1 .. 20 /\ (P - (j - 1)) - 1 = P - j
    BY <1>3
  <2>2. rest[P - j] \in Nat /\ rest[P - (j - 1)] = rest[P - j] \div b
    BY <1>2, <2>1
  <2> DEFINE i == (rest[P - j] % b) + 1
  <2>3. i \in 1 .. 16 /\ i - 1 = rest[P - j] % b
    <3>1. rest[P - j] % b \in 0 .. b - 1
      BY <1>1, <2>2
    <3> QED
      BY <1>1, <3>1
  <2>4. digits[j] = chars[i]
    BY <1>4
  <2> HIDE DEF i
  <2>5. chars[i] \notin Marks /\ DigitOf(chars[i]) = i - 1
    BY <2>3, DigitWorth
  <2> QED
    BY <2>2, <2>3, <2>4, <2>5
\* What is where.
<1>8. sign \in Seq(STRING) /\ Len(sign) \in Nat /\ Len(s1) \in Nat /\ Len(zeros) \in Nat
      /\ Len(s2) \in Nat
      /\ \A i \in 1 .. Len(sign) : sign[i] \in Marks
  <2>1. sign \in {<<>>, <<"+">>, <<" ">>, <<"-">>}
    BY <1>6
  <2>2. "+" \in Marks /\ " " \in Marks /\ "-" \in Marks
    BY DEF Marks
  <2>3. sign \in Seq(STRING)
    BY <2>1, ShortTexts
  <2>4. \A i \in 1 .. Len(sign) : sign[i] \in Marks
    <3>1. CASE sign = <<>>
      <4>1. Len(sign) = 0 /\ \A i \in 1 .. 0 : FALSE
        BY ONLY <3>1
      <4> QED
        BY ONLY <4>1
    <3>2. CASE sign = <<"+">>
      <4>1. Len(sign) = 1 /\ sign[1] = "+" /\ \A i \in 1 .. 1 : i = 1
        BY ONLY <3>2
      <4> QED
        BY ONLY <2>2, <4>1, Zenon
    <3>3. CASE sign = <<" ">>
      <4>1. Len(sign) = 1 /\ sign[1] = " " /\ \A i \in 1 .. 1 : i = 1
        <5>1. \A c : Len(<<c>>) = 1 /\ <<c>>[1] = c /\ \A i \in 1 .. 1 : i = 1
          OBVIOUS
        <5> QED
          BY ONLY <3>3, <5>1, Zenon
      <4> QED
        BY ONLY <2>2, <4>1, Zenon
    <3>4. CASE sign = <<"-">>
      <4>1. Len(sign) = 1 /\ sign[1] = "-" /\ \A i \in 1 .. 1 : i = 1
        BY ONLY <3>4
      <4> QED
        BY ONLY <2>2, <4>1, Zenon
    <3> QED
      BY <2>1, <3>1, <3>2, <3>3, <3>4
  <2>5. s1 \in Seq(STRING) /\ zeros \in Seq(STRING) /\ s2 \in Seq(STRING)
    BY <1>6 DEF Filled
  <2>6. \A s \in Seq(STRING) : Len(s) \in Nat
    OBVIOUS
  <2> QED
    BY ONLY <2>3, <2>4, <2>5, <2>6
<1>9. text \in Seq(STRING) /\ Len(text) = a + P + Len(s2) /\ a \in Nat
  BY <1>3, <1>4, <1>5, <1>8 DEF SixIn
<1>23. /\ \A i \in 1 .. Len(s1) : text[i] = s1[i]
       /\ \A i \in 1 .. Len(sign) : text[Len(s1) + i] = sign[i]
       /\ \A i \in 1 .. Len(zeros) : text[Len(s1) + Len(sign) + i] = zeros[i]
  BY <1>5, <1>8 DEF SixIn
<1>10. ASSUME NEW i \in 1 .. a PROVE text[i] \in Marks \/ text[i] = "0"
  <2>1. CASE i \in 1 .. Len(s1)
    <3>1. text[i] = s1[i]
      BY <1>5, <1>8, <2>1 DEF SixIn
    <3> QED
      BY <1>6, <2>1, <3>1 DEF Filled, Marks
  <2>2. CASE i \in Len(s1) + 1 .. Len(s1) + Len(sign)
    <3>1. i - Len(s1) \in 1 .. Len(sign) /\ Len(s1) + (i - Len(s1)) = i
      BY <1>8, <2>2
    <3>2. text[i] = sign[i - Len(s1)]
      BY <1>5, <1>8, <3>1 DEF SixIn
    <3> QED
      BY <1>8, <3>1, <3>2
  <2>3. CASE i \in Len(s1) + Len(sign) + 1 .. a
    <3>1. i - (Len(s1) + Len(sign)) \in 1 .. Len(zeros)
          /\ Len(s1) + Len(sign) + (i - (Len(s1) + Len(sign))) = i
      BY <1>8, <2>3
    <3>2. text[i] = zeros[i - (Len(s1) + Len(sign))]
      BY ONLY <1>23, <3>1
    <3> QED
      BY <1>6, <3>1, <3>2 DEF Filled
  <2> QED
    BY <1>8, <2>1, <2>2, <2>3
<1>11. ASSUME NEW j \in 1 .. P PROVE text[a + j] = digits[j]
  BY <1>4, <1>5, <1>8 DEF SixIn
<1>12. ASSUME NEW i \in 1 .. Len(s2) PROVE text[a + P + i] \in Marks
  <2>1. text[a + P + i] = s2[i]
    BY <1>4, <1>5, <1>8 DEF SixIn
  <2> QED
    BY <1>6, <2>1 DEF Filled, Marks
<1> HIDE DEF a
<1>13. "0" \notin Marks /\ DigitOf("0") = 0
  <2>1. Lower[1] = "0" /\ 1 \in 1 .. 16
    BY DEF Lower
  <2>2. Lower[1] \notin Marks /\ DigitOf(Lower[1]) = 1 - 1
    BY <2>1, DigitWorth
  <2> QED
    BY ONLY <2>1, <2>2
<1>14. ASSUME NEW i \in 1 .. Len(text)
       PROVE  i \in 1 .. a \/ (\E j \in 1 .. P : i = a + j) \/ (\E j \in 1 .. Len(s2) : i = a + P + j)
  <2>1. CASE i \in a + 1 .. a + P
    <3>1. i - a \in 1 .. P /\ i = a + (i - a)
      BY <1>3, <1>9, <2>1
    <3> QED
      BY <3>1
  <2>2. CASE i \in a + P + 1 .. Len(text)
    <3>1. i - (a + P) \in 1 .. Len(s2) /\ i = a + P + (i - (a + P))
      BY <1>3, <1>8, <1>9, <2>2
    <3> QED
      BY <3>1
  <2> QED
    BY <1>3, <1>8, <1>9, <2>1, <2>2
<1>15. ASSUME NEW j \in 1 .. P
       PROVE  /\ text[a + j] \notin Marks /\ DigitOf(text[a + j]) = rest[P - j] % b
              /\ DigitOf(text[a + j]) \in Int
  <2>1. text[a + j] = digits[j]
    BY <1>11
  <2>2. digits[j] \notin Marks /\ DigitOf(digits[j]) = rest[P - j] % b /\ rest[P - j] \in Nat
    BY <1>7
  <2>3. rest[P - j] % b \in Int
    BY <1>1, <2>2
  <2> QED
    BY ONLY <2>1, <2>2, <2>3
<1>16. Readable(text)
  <2> SUFFICES ASSUME NEW i \in 1 .. Len(text) PROVE text[i] \in Marks \/ DigitOf(text[i]) \in Int
    BY DEF Readable
  <2>1. CASE i \in 1 .. a
    <3>1. text[i] \in Marks \/ text[i] = "0"
      BY <1>10, <2>1
    <3>2. 0 \in Int
      OBVIOUS
    <3> QED
      BY ONLY <1>13, <3>1, <3>2
  <2>2. CASE \E j \in 1 .. P : i = a + j
    BY <1>15, <2>2
  <2>3. CASE \E j \in 1 .. Len(s2) : i = a + P + j
    BY <1>12, <2>3
  <2> QED
    BY <1>14, <2>1, <2>2, <2>3
<1>17. PICK N : /\ Reads(N, text, b)
                /\ Read(text, b) = IF "-" \in ToSet(text) THEN 0 - N[Len(text)] ELSE N[Len(text)]
  BY <1>1, <1>9, <1>16, ReadDef
<1>18. /\ N \in [0 .. Len(text) -> Int] /\ N[0] = 0
       /\ \A n \in 1 .. Len(text) :
             N[n] = IF text[n] \in Marks THEN N[n - 1] ELSE b * N[n - 1] + DigitOf(text[n])
  BY <1>17 DEF Reads
\* Nothing is read in front of the digits.
<1>19. N[a] = 0
  <2>4. PICK m \in Nat : m = 0
    OBVIOUS
  <2>1. N[m] = 0 /\ \A i \in 1 .. a : text[m + i] \in Marks \/ text[m + i] = "0"
    <3>1. \A i \in 1 .. a : m + i = i
      BY <2>4
    <3>2. N[m] = 0
      BY <1>18, <2>4
    <3> QED
      BY ONLY <1>10, <3>1, <3>2
  <2>2. m + a <= Len(text) /\ m + a = a
    BY <1>3, <1>8, <1>9, <2>4
  <2>3. N[m + a] = N[m]
    <3>1. Reads(N, text, b) /\ text \in Seq(STRING) /\ b \in Nat /\ a \in Nat /\ m \in Nat
          /\ Passable(N, text, m, a)
      BY <1>1, <1>9, <1>17, <2>1, <2>2 DEF Passable
    <3> QED
      BY ONLY <3>1, Passed
  <2> QED
    BY ONLY <2>1, <2>2, <2>3
\* After j digits: what is left of the number when the others are taken away.
<1>20. 0 .. P \subseteq {j \in 0 .. P : N[a + j] = rest[P - j]}
  <2> DEFINE Q == {j \in 0 .. P : N[a + j] = rest[P - j]}
  <2>1. 0 \in Q
    <3>1. a + 0 = a /\ P - 0 = P /\ 0 \in 0 .. P
      BY <1>3, <1>9
    <3> QED
      BY ONLY <1>3, <1>19, <3>1
  <2>2. ASSUME NEW j \in 0 .. P - 1, j \in Q PROVE j + 1 \in Q
    <3>1. /\ j + 1 \in 1 .. P /\ j + 1 \in 0 .. P /\ (j + 1) - 1 = j
          /\ a + (j + 1) \in 1 .. Len(text) /\ (a + (j + 1)) - 1 = a + j
      BY <1>3, <1>8, <1>9
    <3>2. N[a + j] = rest[P - j]
      BY <2>2
    <3>3. N[a + (j + 1)] = b * N[a + j] + DigitOf(text[a + (j + 1)])
      BY <1>15, <1>18, <3>1
    <3>4. DigitOf(text[a + (j + 1)]) = rest[P - (j + 1)] % b
      BY <1>15, <3>1
    <3>5. rest[P - (j + 1)] \in Nat /\ rest[P - j] = rest[P - (j + 1)] \div b
      BY <1>7, <3>1
    <3> DEFINE x == rest[P - (j + 1)]
    <3>6. N[a + (j + 1)] = b * (x \div b) + (x % b) /\ x \in Nat
      BY ONLY <3>2, <3>3, <3>4, <3>5
    <3> HIDE DEF x
    <3>7. b * (x \div b) + (x % b) = x
      BY <1>1, <3>6
    <3>8. N[a + (j + 1)] = x
      BY <3>6, <3>7
    <3> QED
      BY <3>1, <3>8 DEF x
  <2> HIDE DEF Q
  <2>3. 0 .. P \subseteq Q
    <3>1. P \in Nat
      BY <1>3
    <3> QED
      BY ONLY <2>1, <2>2, <3>1, ByRounds
  <2> QED
    BY <2>3 DEF Q
<1>21. N[a + P] = u
  <2>1. P \in 0 .. P /\ P - P = 0
    BY <1>3
  <2> QED
    BY <1>2, <1>20, <2>1
<1>22. N[Len(text)] = u
  <2>1. a + P \in Nat /\ Len(s2) \in Nat /\ (a + P) + Len(s2) <= Len(text)
        /\ Len(text) = (a + P) + Len(s2)
    BY <1>3, <1>8, <1>9
  <2>4. PICK m \in Nat : m = a + P
    BY <2>1
  <2>2. \A i \in 1 .. Len(s2) : text[m + i] \in Marks
    BY <1>12, <2>4
  <2>5. m + Len(s2) <= Len(text) /\ Len(text) = m + Len(s2)
    BY <2>1, <2>4
  <2>3. N[m + Len(s2)] = N[m]
    <3>1. Reads(N, text, b) /\ text \in Seq(STRING) /\ b \in Nat /\ Len(s2) \in Nat
          /\ m \in Nat /\ Passable(N, text, m, Len(s2))
      BY <1>1, <1>8, <1>9, <1>17, <2>2, <2>5 DEF Passable
    <3> QED
      BY ONLY <3>1, Passed
  <2> QED
    BY ONLY <1>21, <2>4, <2>5, <2>3
\* The only minus sign is that of a negative number.
<1>24. "-" \in ToSet(text) <=> Negative(value, fl)
  <2>1. ASSUME NEW i \in 1 .. Len(text), text[i] = "-"
        PROVE  Negative(value, fl)
    <3>1. CASE i \in 1 .. a
      <4>1. CASE i \in 1 .. Len(s1)
        <5>1. text[i] = s1[i] /\ s1[i] = " "
          BY <1>6, <1>23, <4>1 DEF Filled
        <5> QED
          BY <2>1, <5>1
      <4>2. CASE i \in Len(s1) + 1 .. Len(s1) + Len(sign)
        <5>1. i - Len(s1) \in 1 .. Len(sign) /\ Len(s1) + (i - Len(s1)) = i
          BY <1>8, <4>2
        <5>2. sign[i - Len(s1)] = "-"
          BY <1>5, <1>8, <2>1, <5>1 DEF SixIn
        <5>3. CASE sign \in {<<>>, <<"+">>, <<" ">>}
          <6> DEFINE k == i - Len(s1)
          <6>4. k \in 1 .. Len(sign) /\ sign[k] = "-"
            BY ONLY <5>1, <5>2
          <6> HIDE DEF k
          <6>1. CASE sign = <<>>
            BY ONLY <6>4, <6>1
          <6>2. CASE sign = <<"+">>
            BY ONLY <6>4, <6>2
          <6>3. CASE sign = <<" ">>
            <7>1. PICK e : e = " "
              OBVIOUS
            <7>2. sign = <<e>>
              BY ONLY <6>3, <7>1, Zenon
            <7>3. k = 1 /\ sign[k] = e
              BY ONLY <6>4, <7>2
            <7> QED
              BY ONLY <6>4, <7>1, <7>3, Zenon
          <6> QED
            BY <5>3, <6>1, <6>2, <6>3
        <5> QED
          BY <1>6, <5>3
      <4>3. CASE i \in Len(s1) + Len(sign) + 1 .. a
        <5>1. i - (Len(s1) + Len(sign)) \in 1 .. Len(zeros)
              /\ Len(s1) + Len(sign) + (i - (Len(s1) + Len(sign))) = i
          BY <1>8, <4>3 DEF a
        <5>2. text[i] = zeros[i - (Len(s1) + Len(sign))]
          BY ONLY <1>23, <5>1
        <5>3. text[i] = "0"
          BY <1>6, <5>1, <5>2 DEF Filled
        <5> QED
          BY <2>1, <5>3
      <4> QED
        BY <1>8, <1>9, <3>1, <4>1, <4>2, <4>3 DEF a
    <3>2. CASE \E j \in 1 .. P : i = a + j
      BY <1>15, <2>1, <3>2 DEF Marks
    <3>3. CASE \E j \in 1 .. Len(s2) : i = a + P + j
      <4>1. PICK j \in 1 .. Len(s2) : i = a + P + j
        BY <3>3
      <4>2. text[a + P + j] = s2[j]
        BY <1>4, <1>5, <1>8 DEF SixIn, a
      <4>3. s2[j] = " "
        BY <1>6 DEF Filled
      <4> QED
        BY <2>1, <4>1, <4>2, <4>3
    <3> QED
      BY <1>14, <3>1, <3>2, <3>3
  <2>2. ASSUME Negative(value, fl) PROVE \E i \in 1 .. Len(text) : text[i] = "-"
    <3>1. sign = <<"-">>
      BY <1>6, <2>2
    <3>2. Len(sign) = 1 /\ sign[1] = "-"
      BY <3>1
    <3>3. text[Len(s1) + 1] = sign[1]
      BY <1>5, <1>8, <3>2 DEF SixIn
    <3>4. Len(s1) + 1 \in 1 .. Len(text)
      BY <1>3, <1>8, <1>9, <3>2 DEF a
    <3> QED
      BY <3>2, <3>3, <3>4
  <2>3. "-" \in ToSet(text) <=> \E i \in 1 .. Len(text) : text[i] = "-"
    BY <1>9 DEF ToSet
  <2> QED
    BY <2>1, <2>2, <2>3
<1> QED
  BY <1>17, <1>22, <1>24 DEF u, ReadAs

\* A number that the width of an int takes in is that number; one below 0 is as much
\* below the end.
LEMMA WordMod ==
    ASSUME NEW W \in Nat \ {0}, NEW r \in 0 .. W - 1
    PROVE  r % W = r /\ (r - W) % W = r
<1>1. ASSUME NEW x \in Int, NEW k \in Int, x = W * k + r PROVE x % W = r
  <2> DEFINE q == x \div W
             m == x % W
  <2>1. q \in Int /\ m \in 0 .. W - 1 /\ x = W * q + m
    OBVIOUS
  <2> HIDE DEF q, m
  <2>2. W * (q - k) = r - m
    BY <1>1, <2>1
  <2>3. q - k >= 1 => W * (q - k) >= W
    BY <2>1
  <2>4. q - k <= -1 => W * (q - k) <= 0 - W
    BY <2>1
  <2>5. q = k
    BY <2>1, <2>2, <2>3, <2>4
  <2>6. m = r
    BY <1>1, <2>1, <2>5
  <2> QED
    BY <2>6 DEF m
<1>2. r = W * 0 + r /\ r - W = W * (-1) + r
  OBVIOUS
<1> QED
  BY <1>1, <1>2

\* The number that an argument stands for, with its sign or without.
LEMMA SignedWorth ==
    ASSUME NEW v \in 0 .. Word - 1, NEW fl
    PROVE  /\ Magnitude(Signed(v), fl) \in 0 .. Word - 1
           /\ (IF Negative(Signed(v), fl) THEN 0 - Magnitude(Signed(v), fl)
               ELSE Magnitude(Signed(v), fl)) % Word = v
<1> DEFINE value == Signed(v)
           m == Magnitude(value, fl)
<1>1. Word \in Nat \ {0}
  BY SnprintfAssumption
<1>2. value \in {v, v - Word} /\ (value < 0 <=> value = v - Word)
  BY <1>1 DEF Signed
<1>3. v % Word = v /\ (v - Word) % Word = v
  BY <1>1, WordMod
<1> HIDE DEF value
<1>4. CASE Negative(value, fl)
  <2>1. value = v - Word /\ value < 0
    BY <1>2, <1>4 DEF Negative
  <2>2. 0 - value \in 0 .. Word - 1 \/ v = 0
    BY <1>1, <2>1
  <2>3. v # 0
    BY <1>1, <2>1 DEF value, Signed
  <2>4. (0 - value) % Word = 0 - value
    BY <1>1, <2>2, <2>3, WordMod
  <2>5. m = 0 - value
    BY <1>4, <2>4 DEF Magnitude
  <2>6. m \in 0 .. Word - 1 /\ 0 - m = v - Word
    BY <1>1, <2>1, <2>2, <2>3, <2>5
  <2> QED
    BY <1>3, <1>4, <2>6 DEF value
<1>5. CASE ~Negative(value, fl)
  <2>1. m = value % Word
    BY <1>5 DEF Magnitude
  <2>2. m = v
    BY <1>2, <1>3, <2>1
  <2> QED
    BY <1>3, <1>5, <2>2 DEF value
<1> QED
  BY <1>4, <1>5

\* What was appended is what is behind the old end.
LEMMA Appended ==
    ASSUME NEW s \in Seq(STRING), NEW t \in Seq(STRING)
    PROVE  SubSeq(s \o t, Len(s) + 1, Len(s \o t)) = t
<1> DEFINE S == STRING
<1>1. s \in Seq(S) /\ t \in Seq(S)
  OBVIOUS
<1> HIDE DEF S
<1> DEFINE u == s \o t
           m == Len(s) + 1
           n == Len(u)
           cut == SubSeq(u, m, n)
<1>2. u \in Seq(S) /\ n = Len(s) + Len(t) /\ m \in Int /\ n \in Int /\ Len(s) \in Nat
      /\ Len(t) \in Nat
      /\ \A i \in 1 .. Len(t) : u[Len(s) + i] = t[i]
  BY <1>1
<1>3. \A i \in m .. n : u[i] \in S
  BY <1>2
<1> HIDE DEF u, n
<1>4. cut \in Seq(S) /\ Len(cut) = (IF m <= n THEN n - m + 1 ELSE 0)
      /\ \A i \in 1 .. n - m + 1 : cut[i] = u[m + i - 1]
  BY <1>2, <1>3, SubSeqProperties
<1>5. Len(cut) = Len(t) /\ n - m + 1 = Len(t)
  BY <1>2, <1>4
<1>6. ASSUME NEW i \in 1 .. Len(t) PROVE cut[i] = t[i]
  <2>1. m + i - 1 = Len(s) + i
    BY <1>2
  <2> HIDE DEF m, cut
  <2> QED
    BY <1>2, <1>4, <1>5, <2>1
<1> HIDE DEF cut
<1>7. cut = t
  BY <1>1, <1>4, <1>5, <1>6
<1> QED
  BY <1>7 DEF cut, n, u

\* What a number is printed as reads back as that number, whatever the flags, the
\* width and the precision.
LEMMA FmtIntRead ==
    ASSUME NEW v \in 0 .. Word - 1, NEW b \in {8, 10, 16}, NEW mn \in Int, NEW mx \in Int, NEW fl
    PROVE  Read(FmtInt(Signed(v), b, mn, mx, fl), b) % Word = v
<1> DEFINE value == Signed(v)
           text == FmtInt(value, b, mn, mx, fl)
<1>1. value \in Int /\ b \in 1 .. 16 /\ b \in {8, 10, 16}
  BY SignedType
<1>2. /\ Magnitude(value, fl) \in 0 .. Word - 1
      /\ (IF Negative(value, fl) THEN 0 - Magnitude(value, fl) ELSE Magnitude(value, fl)) % Word = v
  BY SignedWorth
<1> HIDE DEF value
<1>3. PICK s1, sign, zeros, s2 : Parted(text, value, b, fl, s1, sign, zeros, s2)
  BY <1>1, FmtIntIs
<1> HIDE DEF text
<1>4. ReadAs(text, value, b, fl)
  BY ONLY <1>1, <1>2, <1>3, MagnitudeRead
<1> QED
  BY <1>2, <1>4 DEF ReadAs, text, value

\* One iteration in which a number is printed.
LEMMA NumberRead ==
    ASSUME IInv, [Next]_vars, state = "conv", ~AtEnd, ch \in IntConv, vars' # vars
    PROVE  Read(SubSeq(out', Len(out) + 1, Len(out')), BaseOf(ch)) % Word = Arg("number")
<1> DEFINE v == Arg("number")
           b == BaseOf(ch)
           fl == flags \cup (IF ch \in {"o", "u", "x", "X"} THEN {"unsigned"} ELSE {})
                       \cup (IF ch = "X" THEN {"caps"} ELSE {})
           text == FmtInt(Signed(v), b, min, max, fl)
<1>1. ch # Nul /\ Laid /\ pos \in Nat
  BY GivenLaid DEF AtEnd, IInv, TypeOK
<1>2. Supplied
  <2>1. CASE Overrun
    BY <1>1, <2>1, BehindSeen
  <2>2. CASE ~Overrun
    <3>1. PICK k, j, t : /\ At(k, j, t) /\ IsDirective(program.items[k])
                         /\ Phase("conv", program.items[k], j, t)
      BY <2>2, WhereItIs
    <3> DEFINE d == program.items[k]
    <3>2. /\ d \in Item /\ ch = d.conv
          /\ d.conv \notin {"%", "w", "?"} => \A kind : Arg(kind) = d.value
      BY <1>1, <2>2, <3>1, ConvSeen DEF At
    <3> QED
      BY <3>1, <3>2, ValueSupplied
  <2> QED
    BY <2>1, <2>2
<1>4. v \in 0 .. Word - 1
  BY <1>2 DEF Supplied
<1>5. b \in {8, 10, 16} /\ b \in 1 .. 16 /\ min \in Int /\ max \in Int /\ out \in Seq(STRING)
  BY BaseType DEF IInv, TypeOK
<1>6. Integer
  <2>1. Next
    BY DEF vars
  <2>2. Conv
    <3>1. ~Default /\ ~Flags /\ ~Width /\ ~Dot /\ ~Precision /\ ~Mod
      BY DEF Default, Flags, Width, Dot, Precision, Mod, In
    <3>2. ~Finish
      BY DEF Finish
    <3>3. ~Returned
      BY DEF Returned
    <3> QED
      BY <2>1, <3>1, <3>2, <3>3 DEF Next
  <2>3. Integer \/ String \/ Float \/ Count \/ Other
    BY <2>2 DEF Conv
  <2>4. ch \notin {"s", "f", "n", "c", "%", "e", "E", "g", "G"}
    BY DEF IntConv
  <2>5. ~String /\ ~Float /\ ~Count /\ ~Other
    BY <2>4 DEF String, Float, Count, Other
  <2> QED
    BY <2>3, <2>5
<1>7. out' = out \o text
  BY <1>6 DEF Integer, Put
<1> HIDE DEF v, fl, b
<1>8. text \in Seq(STRING)
  <2>1. Signed(v) \in Int
    BY <1>4, SignedType
  <2> QED
    BY <1>5, <2>1, FmtIntType
<1>9. Read(text, b) % Word = v
  BY <1>4, <1>5, FmtIntRead
<1> HIDE DEF text
<1>10. SubSeq(out', Len(out) + 1, Len(out')) = text
  BY <1>5, <1>7, <1>8, Appended
<1> QED
  BY <1>9, <1>10 DEF b, v

\* Whatever a number is printed with, as in C or not, what is put in the buffer
\* reads back as that number.
THEOREM NumbersReadBack == Spec => ReadsBack
<1>1. IInv /\ [Next]_vars =>
          [state = "conv" /\ ~AtEnd /\ ch \in IntConv =>
              Read(SubSeq(out', Len(out) + 1, Len(out')), BaseOf(ch)) % Word = Arg("number")]_vars
  BY NumberRead
<1> QED
  BY <1>1, Invariance, PTL DEF Spec, ReadsBack
=============================================================================
