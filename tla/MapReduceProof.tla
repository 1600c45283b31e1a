--------------------------- MODULE MapReduceProof ---------------------------
(* Proofs about MapReduce, for any number of jobs and workers and any input: *)
(* that a worker has one job at a time, and that what Merge() writes has     *)
(* every line of the input once.                                             *)
(*                                                                           *)
(* The second has two parts.  What the loops of Split(), DoMap(), DoReduce() *)
(* and Merge() compute is shown by induction over the lines, with the least- *)
(* number principle in place of an induction rule: a set of numbers that has *)
(* a number missing has a least one missing.  That failed and repeated       *)
(* attempts leave the files as one sequential run would is an invariant.     *)
EXTENDS MapReduce, FiniteSetTheorems, FunctionTheorems, SequenceTheorems,
        NaturalsInduction, WellFoundedInduction, TLAPS

-----------------------------------------------------------------------------
(* Induction and recursion over numbers *)

Less == {p \in Nat \X Nat : p[1] < p[2]}

\* The order of the natural numbers is well founded.
LEMMA LessWellFounded == IsWellFoundedOn(Less, Nat)
  BY NatLessThanWellFounded, Zenon DEF Less, OpToRel

\* A set of natural numbers has a least one.
LEMMA LeastNumber ==
  ASSUME NEW T \in SUBSET Nat, T # {}
  PROVE  \E x \in T : \A y \in T : x =< y
<1>1. ASSUME NEW y \in Nat, NEW x \in Nat, y < x PROVE <<y, x>> \in Less
  <2>1. <<y, x>> \in Nat \X Nat /\ <<y, x>>[1] = y /\ <<y, x>>[2] = x
    OBVIOUS
  <2>2. QED
    BY <1>1, <2>1 DEF Less
<1>2. PICK x \in T : \A y \in T : ~(<<y, x>> \in Less)
  BY LessWellFounded, WFMin
<1>3. \A y \in T : ~(y < x)
  BY <1>1, <1>2
<1>4. QED
  BY <1>3

\* Induction up to a number: a set with 0 and, with every number, the next.
LEMMA UpTo ==
  ASSUME NEW n \in Nat, NEW S, 0 \in S, \A k \in 1..n : k - 1 \in S => k \in S
  PROVE  0..n \subseteq S
<1> SUFFICES ASSUME (0..n) \ S # {} PROVE FALSE
  OBVIOUS
<1> DEFINE T == (0..n) \ S
<1>1. T \in SUBSET Nat /\ T # {}
  OBVIOUS
<1>2. PICK x \in T : \A y \in T : x =< y
  BY <1>1, LeastNumber, Zenon
<1>3. x \in 0..n /\ x \notin S /\ x # 0
  BY <1>2
<1>4. x \in 1..n /\ x - 1 \in 0..n /\ ~(x =< x - 1)
  BY <1>3
<1>5. x - 1 \in S
  BY <1>2, <1>4
<1>6. QED
  BY <1>3, <1>4, <1>5

Definable(n, V, v0, G) ==
  \E f \in [0..n -> V] : f[0] = v0 /\ \A k \in 1..n : f[k] = G[k][f[k - 1]]

\* A function can be defined by recursion: G[k] is what one turn of a loop,
\* the k-th, makes of the value before it.
LEMMA Recursion ==
  ASSUME NEW n \in Nat, NEW V, NEW v0 \in V, NEW G \in [1..n -> [V -> V]]
  PROVE  Definable(n, V, v0, G)
<1> DEFINE Good(m, f) == f \in [0..m -> V] /\ f[0] = v0 /\ \A k \in 1..m : f[k] = G[k][f[k - 1]]
           S == {m \in 0..n : \E f : Good(m, f)}
<1>1. 0 \in S
  <2> DEFINE f == [k \in 0..0 |-> v0]
  <2>1. f \in [0..0 -> V] /\ f[0] = v0 /\ 1..0 = {}
    OBVIOUS
  <2>2. Good(0, f) /\ 0 \in 0..n
    BY <2>1
  <2> HIDE DEF f, Good
  <2>3. QED
    BY <2>2
<1>2. ASSUME NEW k \in 1..n, k - 1 \in S PROVE k \in S
  <2>1. PICK f : Good(k - 1, f)
    BY <1>2
  <2> DEFINE g == [i \in 0..k |-> IF i = k THEN G[k][f[k - 1]] ELSE f[i]]
  <2>2. f[k - 1] \in V /\ G[k] \in [V -> V] /\ G[k][f[k - 1]] \in V
    BY <2>1
  <2>3. g \in [0..k -> V] /\ g[k] = G[k][f[k - 1]] /\ \A i \in 0..(k - 1) : g[i] = f[i]
    BY <2>1, <2>2
  <2> HIDE DEF g
  <2>4. g[0] = v0
    BY <2>1, <2>3
  <2>5. ASSUME NEW i \in 1..k PROVE g[i] = G[i][g[i - 1]]
    <3>1. i - 1 \in 0..(k - 1) /\ (i # k => i \in 1..(k - 1) /\ i \in 0..(k - 1))
      OBVIOUS
    <3>2. CASE i = k
      BY <2>3, <3>1, <3>2
    <3>3. CASE i # k
      BY <2>1, <2>3, <3>1, <3>3
    <3>4. QED
      BY <3>2, <3>3
  <2>6. Good(k, g) /\ k \in 0..n
    BY <2>3, <2>4, <2>5
  <2> HIDE DEF Good
  <2>7. QED
    BY <2>6
<1>3. 0..n \subseteq S
  <2> HIDE DEF S
  <2>1. QED
    BY <1>1, <1>2, UpTo
<1>4. n \in S
  BY <1>3
<1>5. QED
  BY <1>4 DEF Definable

-----------------------------------------------------------------------------
(* What the loops compute *)

\* No element is in the sequence twice.
Once(s) == \A i, j \in 1..Len(s) : s[i] = s[j] => i = j

IsWritten(w, lines, s) ==
  w = [k \in 0..Len(lines) |->
         IF k = 0 THEN <<>>
         ELSE IF lines[k] \in s THEN Append(w[k-1], lines[k]) ELSE w[k-1]]

\* The loop that writes some of the lines.
LEMMA WrittenLoop ==
  ASSUME NEW S, NEW lines \in Seq(S), NEW s
  PROVE  \E w : /\ w \in [0..Len(lines) -> Seq(S)] /\ w[0] = <<>>
                /\ \A k \in 1..Len(lines) :
                     w[k] = IF lines[k] \in s THEN Append(w[k - 1], lines[k]) ELSE w[k - 1]
                /\ Written(lines, s) = w[Len(lines)]
<1> DEFINE n == Len(lines)
           G == [k \in 1..n |-> [v \in Seq(S) |-> IF lines[k] \in s THEN Append(v, lines[k]) ELSE v]]
<1>1. n \in Nat /\ \A k \in 1..n : lines[k] \in S
  OBVIOUS
<1>2. G \in [1..n -> [Seq(S) -> Seq(S)]] /\ <<>> \in Seq(S)
  BY <1>1
<1>3. PICK f \in [0..n -> Seq(S)] : f[0] = <<>> /\ \A k \in 1..n : f[k] = G[k][f[k - 1]]
  <2> DEFINE V == Seq(S)
             v0 == <<>>
  <2>1. n \in Nat /\ v0 \in V /\ G \in [1..n -> [V -> V]]
    BY <1>1, <1>2
  <2> HIDE DEF G, n, V, v0
  <2>2. Definable(n, V, v0, G)
    BY <2>1, Recursion
  <2>3. QED
    BY <2>2 DEF Definable, V, v0
<1>4. ASSUME NEW k \in 1..n
      PROVE  f[k] = IF lines[k] \in s THEN Append(f[k - 1], lines[k]) ELSE f[k - 1]
  <2>1. f[k - 1] \in Seq(S)
    BY <1>1
  <2>2. QED
    BY <1>3, <2>1
<1>5. IsWritten(f, lines, s)
  <2> DEFINE E(k) == IF k = 0 THEN <<>>
                     ELSE IF lines[k] \in s THEN Append(f[k-1], lines[k]) ELSE f[k-1]
  <2>0. \A k \in 0..n : k = 0 \/ (k # 0 /\ k \in 1..n)
    BY <1>1
  <2>1. ASSUME NEW k \in 0..n PROVE f[k] = E(k)
    <3>1. CASE k = 0
      BY <1>3, <3>1
    <3>2. CASE k # 0 /\ k \in 1..n
      BY <1>4, <3>2
    <3>3. QED
      BY <2>0, <3>1, <3>2
  <2>2. f = [k \in 0..n |-> E(k)]
    BY <2>1
  <2>3. QED
    BY <2>2 DEF IsWritten
<1> DEFINE w == CHOOSE x : IsWritten(x, lines, s)
<1>6. IsWritten(w, lines, s)
  BY <1>5, Zenon
<1>7. Written(lines, s) = w[n]
  BY Zenon DEF Written, IsWritten
<1> HIDE DEF w
<1>8. \A k \in 0..n : w[k] = IF k = 0 THEN <<>>
                     ELSE IF lines[k] \in s THEN Append(w[k-1], lines[k]) ELSE w[k-1]
  BY <1>6 DEF IsWritten
<1>9. w[0] = <<>> /\ \A k \in 1..n : w[k] = IF lines[k] \in s THEN Append(w[k - 1], lines[k]) ELSE w[k - 1]
  <2>1. n \in Nat /\ 0 \in 0..n /\ \A k \in 1..n : k \in 0..n /\ k # 0
    BY <1>1
  <2>2. QED
    BY <1>8, <2>1
<1>10. w \in [0..n -> Seq(S)]
  <2> DEFINE T == {k \in 0..n : w[k] \in Seq(S)}
  <2>0. n \in Nat
    BY <1>1
  <2>1. 0 \in T
    <3>1. w[0] \in Seq(S) /\ 0 \in 0..n
      BY <1>2, <1>9, <2>0
    <3>2. QED
      BY <3>1
  <2>2. ASSUME NEW k \in 1..n, k - 1 \in T PROVE k \in T
    <3>1. k \in 0..n /\ w[k - 1] \in Seq(S) /\ lines[k] \in S
      BY <1>1, <2>2
    <3>2. w[k] = Append(w[k - 1], lines[k]) \/ w[k] = w[k - 1]
      BY <1>9
    <3>3. w[k] \in Seq(S)
      <4>1. Append(w[k - 1], lines[k]) \in Seq(S) /\ w[k - 1] \in Seq(S)
        BY <3>1
      <4>2. QED
        BY <3>2, <4>1, Zenon
    <3>4. QED
      BY <3>1, <3>3
  <2>3. 0..n \subseteq T
    <3> HIDE DEF T
    <3>1. QED
      BY <1>1, <2>1, <2>2, UpTo
  <2>4. w = [k \in 0..n |-> w[k]]
    BY <1>6 DEF IsWritten
  <2>5. QED
    BY <2>3, <2>4
<1>11. QED
  BY <1>7, <1>9, <1>10

\* A line is appended.
LEMMA AppendOnce ==
  ASSUME NEW S, NEW s \in Seq(S), NEW x \in S, Once(s), x \notin ToSet(s)
  PROVE  Append(s, x) \in Seq(S) /\ ToSet(Append(s, x)) = ToSet(s) \cup {x} /\ Once(Append(s, x))
<1> DEFINE a == Append(s, x)
<1>1. /\ a \in Seq(S) /\ Len(a) = Len(s) + 1 /\ Len(s) \in Nat
      /\ DOMAIN a = 1..(Len(s) + 1) /\ DOMAIN s = 1..Len(s)
      /\ \A i \in 1..Len(s) : a[i] = s[i]
      /\ a[Len(s) + 1] = x
  OBVIOUS
<1> HIDE DEF a
<1>2. ToSet(a) = ToSet(s) \cup {x}
  BY <1>1 DEF ToSet
<1>3. Once(a)
  BY <1>1 DEF Once, ToSet
<1>4. QED
  BY <1>1, <1>2, <1>3 DEF a

\* Two files, one behind the other.
LEMMA ConcatOnce ==
  ASSUME NEW S, NEW a \in Seq(S), NEW b \in Seq(S), Once(a), Once(b), ToSet(a) \cap ToSet(b) = {}
  PROVE  a \o b \in Seq(S) /\ ToSet(a \o b) = ToSet(a) \cup ToSet(b) /\ Once(a \o b)
<1> DEFINE c == a \o b
           m == Len(a)
           n == Len(b)
<1>1. /\ c \in Seq(S) /\ Len(c) = m + n /\ m \in Nat /\ n \in Nat
      /\ DOMAIN c = 1..(m + n) /\ DOMAIN a = 1..m /\ DOMAIN b = 1..n
      /\ \A i \in 1..(m + n) : c[i] = IF i =< m THEN a[i] ELSE b[i - m]
  BY ConcatProperties
<1> HIDE DEF c, m, n
<1>2. \A i \in 1..m : i \in 1..(m + n) /\ c[i] = a[i]
  BY <1>1
<1>3. \A i \in 1..n : i + m \in 1..(m + n) /\ c[i + m] = b[i]
  <2> SUFFICES ASSUME NEW i \in 1..n PROVE i + m \in 1..(m + n) /\ c[i + m] = b[i]
    OBVIOUS
  <2>1. i + m \in 1..(m + n) /\ ~(i + m =< m) /\ (i + m) - m = i
    BY <1>1
  <2>2. QED
    BY <1>1, <2>1
<1>4. \A i \in 1..(m + n) : i \in 1..m \/ (i - m \in 1..n /\ (i - m) + m = i)
  BY <1>1
<1>5. ToSet(c) = ToSet(a) \cup ToSet(b)
  <2>1. ASSUME NEW y \in ToSet(c) PROVE y \in ToSet(a) \cup ToSet(b)
    <3>1. PICK i \in 1..(m + n) : y = c[i]
      BY <1>1 DEF ToSet
    <3>2. CASE i \in 1..m
      BY <1>1, <1>2, <3>1, <3>2 DEF ToSet
    <3>3. CASE i - m \in 1..n /\ (i - m) + m = i
      <4>1. y = b[i - m]
        BY <1>3, <3>1, <3>3
      <4>2. QED
        BY <1>1, <3>3, <4>1 DEF ToSet
    <3>4. QED
      BY <1>4, <3>2, <3>3
  <2>2. ASSUME NEW y \in ToSet(a) PROVE y \in ToSet(c)
    BY <1>1, <1>2 DEF ToSet
  <2>3. ASSUME NEW y \in ToSet(b) PROVE y \in ToSet(c)
    <3>1. PICK i \in 1..n : y = b[i]
      BY <1>1 DEF ToSet
    <3>2. i + m \in DOMAIN c /\ c[i + m] = y
      BY <1>1, <1>3, <3>1
    <3>3. QED
      BY <3>2 DEF ToSet
  <2>4. QED
    BY <2>1, <2>2, <2>3
<1>6. Once(c)
  <2> SUFFICES ASSUME NEW i \in 1..(m + n), NEW j \in 1..(m + n), c[i] = c[j] PROVE i = j
    BY <1>1 DEF Once
  <2>1. CASE i \in 1..m /\ j \in 1..m
    BY <1>2, <2>1 DEF Once, m
  <2>2. CASE i - m \in 1..n /\ (i - m) + m = i /\ j - m \in 1..n /\ (j - m) + m = j
    <3>1. b[i - m] = b[j - m]
      BY <1>3, <2>2
    <3>2. i - m = j - m
      BY <2>2, <3>1 DEF Once, n
    <3>3. QED
      BY <2>2, <3>2
  <2>3. CASE i \in 1..m /\ j - m \in 1..n /\ (j - m) + m = j
    <3>1. a[i] = b[j - m]
      BY <1>2, <1>3, <2>3
    <3>2. a[i] \in ToSet(a) /\ b[j - m] \in ToSet(b)
      BY <1>1, <2>3 DEF ToSet
    <3>3. QED
      BY <3>1, <3>2
  <2>4. CASE j \in 1..m /\ i - m \in 1..n /\ (i - m) + m = i
    <3>1. a[j] = b[i - m]
      BY <1>2, <1>3, <2>4
    <3>2. a[j] \in ToSet(a) /\ b[i - m] \in ToSet(b)
      BY <1>1, <2>4 DEF ToSet
    <3>3. QED
      BY <3>1, <3>2
  <2>5. QED
    BY <1>4, <2>1, <2>2, <2>3, <2>4
<1>7. QED
  BY <1>1, <1>5, <1>6 DEF c

\* The loop writes the lines of the set, each as often as there are.
LEMMA WrittenIs ==
  ASSUME NEW S, NEW lines \in Seq(S), Once(lines), NEW s
  PROVE  /\ Written(lines, s) \in Seq(S)
         /\ ToSet(Written(lines, s)) = ToSet(lines) \cap s
         /\ Once(Written(lines, s))
<1> DEFINE n == Len(lines)
           Upto(k) == {lines[i] : i \in 1..k}
<1>1. n \in Nat /\ DOMAIN lines = 1..n /\ \A k \in 1..n : lines[k] \in S
  OBVIOUS
<1>2. PICK w : /\ w \in [0..n -> Seq(S)] /\ w[0] = <<>>
               /\ \A k \in 1..n :
                    w[k] = IF lines[k] \in s THEN Append(w[k - 1], lines[k]) ELSE w[k - 1]
               /\ Written(lines, s) = w[n]
  BY WrittenLoop
<1> DEFINE Good(k) == ToSet(w[k]) = Upto(k) \cap s /\ Once(w[k])
           T == {k \in 0..n : Good(k)}
<1>3. 0 \in T
  <2>1. ToSet(<<>>) = {} /\ Once(<<>>) /\ 1..0 = {}
    BY DEF ToSet, Once
  <2>2. Good(0)
    BY <1>2, <2>1
  <2>3. QED
    BY <1>1, <2>2
<1>4. ASSUME NEW k \in 1..n, k - 1 \in T PROVE k \in T
  <2>0. Good(k - 1) /\ k \in 0..n /\ k - 1 \in 0..n /\ w[k - 1] \in Seq(S) /\ lines[k] \in S
    BY <1>1, <1>2, <1>4
  <2>1. Upto(k) = Upto(k - 1) \cup {lines[k]}
    <3>1. 1..k = 1..(k - 1) \cup {k}
      BY <1>1
    <3>2. QED
      BY <3>1
  <2>2. lines[k] \notin Upto(k - 1)
    <3>1. \A i \in 1..(k - 1) : i \in 1..n /\ i # k
      BY <1>1
    <3>2. QED
      BY <3>1 DEF Once
  <2> HIDE DEF Upto
  <2>3. CASE lines[k] \in s
    <3>1. w[k] = Append(w[k - 1], lines[k])
      BY <1>2, <2>3
    <3>2. ToSet(Append(w[k - 1], lines[k])) = ToSet(w[k - 1]) \cup {lines[k]} /\ Once(Append(w[k - 1], lines[k]))
      BY <2>0, <2>2, AppendOnce
    <3>3. Good(k)
      BY <2>0, <2>1, <2>3, <3>1, <3>2
    <3>4. QED
      BY <2>0, <3>3
  <2>4. CASE lines[k] \notin s
    <3>1. w[k] = w[k - 1]
      BY <1>2, <2>4
    <3>2. Good(k)
      BY <2>0, <2>1, <2>4, <3>1
    <3>3. QED
      BY <2>0, <3>2
  <2>5. QED
    BY <2>3, <2>4
<1>5. 0..n \subseteq T
  <2> HIDE DEF T, n
  <2>1. QED
    BY <1>1, <1>3, <1>4, UpTo
<1>6. Good(n) /\ w[n] \in Seq(S)
  BY <1>1, <1>2, <1>5
<1>7. Upto(n) = ToSet(lines)
  BY <1>1 DEF ToSet
<1>8. QED
  BY <1>2, <1>6, <1>7

IsFlat(f, seqs) ==
  f = [i \in 1..Len(seqs) |-> IF i = 1 THEN seqs[i] ELSE f[i-1] \o seqs[i]]

Concats(S, n, q) ==
  \E g \in [0..n -> Seq(S)] : g[0] = <<>> /\ \A k \in 1..n : g[k] = g[k - 1] \o q[k]

\* Files one behind the other, by recursion.
LEMMA ConcatRecursion ==
  ASSUME NEW S, NEW n \in Nat, NEW q \in [1..n -> Seq(S)]
  PROVE  Concats(S, n, q)
<1> DEFINE V == Seq(S)
           v0 == <<>>
           G == [k \in 1..n |-> [v \in V |-> v \o q[k]]]
<1>1. \A v \in V : \A u \in V : v \o u \in V
  BY ConcatProperties
<1>2. v0 \in V /\ \A k \in 1..n : q[k] \in V
  OBVIOUS
<1>3. G \in [1..n -> [V -> V]]
  BY <1>1, <1>2
<1>4. Definable(n, V, v0, G)
  <2> HIDE DEF V, v0, G
  <2>1. v0 \in V
    BY <1>2
  <2>2. QED
    BY <1>3, <2>1, Recursion
<1>5. PICK g \in [0..n -> V] : g[0] = v0 /\ \A k \in 1..n : g[k] = G[k][g[k - 1]]
  BY <1>4 DEF Definable
<1>6. ASSUME NEW k \in 1..n PROVE g[k] = g[k - 1] \o q[k]
  <2>1. k - 1 \in 0..n
    OBVIOUS
  <2>2. g[k - 1] \in V
    BY <2>1
  <2>3. G[k][g[k - 1]] = g[k - 1] \o q[k]
    BY <2>2
  <2>4. QED
    BY <1>5, <2>3
<1>7. QED
  BY <1>5, <1>6 DEF Concats

\* The loop that writes files one behind the other.
LEMMA FlattenLoop ==
  ASSUME NEW S, NEW seqs \in Seq(Seq(S)), Len(seqs) >= 1
  PROVE  \E f : /\ f[1] = seqs[1]
                /\ \A k \in 2..Len(seqs) : f[k] = f[k - 1] \o seqs[k]
                /\ FlattenSeq(seqs) = f[Len(seqs)]
<1> DEFINE n == Len(seqs)
<1>1. n \in Nat /\ n # 0 /\ \A k \in 1..n : seqs[k] \in Seq(S)
  OBVIOUS
<1>2. seqs \in [1..n -> Seq(S)]
  OBVIOUS
<1>4. PICK g \in [0..n -> Seq(S)] : g[0] = <<>> /\ \A k \in 1..n : g[k] = g[k - 1] \o seqs[k]
  <2>1. n \in Nat
    BY <1>1
  <2> HIDE DEF n
  <2>2. Concats(S, n, seqs)
    BY <1>2, <2>1, ConcatRecursion
  <2>3. QED
    BY <2>2 DEF Concats
<1>5. \A k \in 1..n : g[k] = g[k - 1] \o seqs[k]
  BY <1>4
<1>6. g[1] = seqs[1]
  <2>1. 1 \in 1..n /\ 1 - 1 = 0
    BY <1>1
  <2>2. g[1] = <<>> \o seqs[1] /\ seqs[1] \in Seq(S)
    BY <1>1, <1>4, <1>5, <2>1
  <2>3. QED
    BY <2>2, ConcatEmptySeq
<1> DEFINE h == [k \in 1..n |-> g[k]]
<1>7. IsFlat(h, seqs)
  <2> DEFINE E(k) == IF k = 1 THEN seqs[k] ELSE h[k - 1] \o seqs[k]
  <2>1. ASSUME NEW k \in 1..n PROVE h[k] = E(k)
    <3>1. CASE k = 1
      BY <1>6, <3>1
    <3>2. CASE k # 1
      <4>1. k - 1 \in 1..n
        BY <3>2
      <4>2. QED
        BY <1>5, <3>2, <4>1
    <3>3. QED
      BY <3>1, <3>2
  <2>2. h = [k \in 1..n |-> E(k)]
    BY <2>1
  <2>3. QED
    BY <2>2 DEF IsFlat
<1> DEFINE f == CHOOSE x : IsFlat(x, seqs)
<1>8. IsFlat(f, seqs)
  <2> HIDE DEF h
  <2>1. QED
    BY <1>7, Zenon
<1>9. FlattenSeq(seqs) = f[n]
  <2>1. Len(seqs) # 0
    BY <1>1
  <2>2. QED
    BY <2>1, Zenon DEF FlattenSeq, IsFlat
<1> HIDE DEF f
<1>10. \A k \in 1..n : f[k] = IF k = 1 THEN seqs[k] ELSE f[k-1] \o seqs[k]
  BY <1>8 DEF IsFlat
<1>11. f[1] = seqs[1] /\ \A k \in 2..n : f[k] = f[k - 1] \o seqs[k]
  <2>1. 1 \in 1..n /\ \A k \in 2..n : k \in 1..n /\ k # 1
    BY <1>1
  <2>2. QED
    BY <1>10, <2>1
<1>12. QED
  BY <1>9, <1>11

\* Files with different lines, one behind the other, have the lines of all.
LEMMA FlattenIs ==
  ASSUME NEW S, NEW seqs \in Seq(Seq(S)), Len(seqs) >= 1,
         \A k \in 1..Len(seqs) : Once(seqs[k]),
         \A k, l \in 1..Len(seqs) : k # l => ToSet(seqs[k]) \cap ToSet(seqs[l]) = {}
  PROVE  /\ FlattenSeq(seqs) \in Seq(S) /\ Once(FlattenSeq(seqs))
         /\ \A x : x \in ToSet(FlattenSeq(seqs)) <=> \E k \in 1..Len(seqs) : x \in ToSet(seqs[k])
<1> DEFINE n == Len(seqs)
           Upto(m) == UNION {ToSet(seqs[k]) : k \in 1..m}
<1>1. n \in Nat /\ n >= 1 /\ \A k \in 1..n : seqs[k] \in Seq(S)
  OBVIOUS
<1>2. PICK f : /\ f[1] = seqs[1]
               /\ \A k \in 2..n : f[k] = f[k - 1] \o seqs[k]
               /\ FlattenSeq(seqs) = f[n]
  BY FlattenLoop
<1> DEFINE Good(k) == f[k] \in Seq(S) /\ ToSet(f[k]) = Upto(k) /\ Once(f[k])
           T == {k \in 0..n : k = 0 \/ Good(k)}
<1>3. 0 \in T
  BY <1>1
<1>4. ASSUME NEW k \in 1..n, k - 1 \in T PROVE k \in T
  <2>1. CASE k = 1
    <3>1. 1..1 = {1} /\ Upto(1) = ToSet(seqs[1])
      <4>1. 1..1 = {1}
        OBVIOUS
      <4>2. QED
        BY <4>1
    <3> HIDE DEF Upto
    <3>2. Good(1)
      <4>1. 1 \in 1..n
        BY <1>1
      <4>2. seqs[1] \in Seq(S) /\ Once(seqs[1])
        BY <1>1, <4>1
      <4>3. f[1] \in Seq(S) /\ Once(f[1]) /\ ToSet(f[1]) = Upto(1)
        BY <1>2, <3>1, <4>2
      <4>4. QED
        BY <4>3
    <3>3. QED
      BY <1>1, <2>1, <3>2
  <2>2. CASE k # 1
    <3>1. k \in 2..n /\ k - 1 \in 1..n /\ k \in 0..n /\ k - 1 # 0 /\ 1..k = 1..(k - 1) \cup {k}
      BY <1>1, <2>2
    <3>2. Good(k - 1)
      BY <1>4, <3>1
    <3>3. f[k] = f[k - 1] \o seqs[k] /\ seqs[k] \in Seq(S) /\ Once(seqs[k])
      BY <1>1, <1>2, <3>1
    <3>4. Upto(k) = Upto(k - 1) \cup ToSet(seqs[k])
      BY <3>1
    <3>5. Upto(k - 1) \cap ToSet(seqs[k]) = {}
      <4>1. \A i \in 1..(k - 1) : i \in 1..n /\ i # k
        BY <1>1
      <4>2. \A i \in 1..(k - 1) : ToSet(seqs[i]) \cap ToSet(seqs[k]) = {}
        BY <4>1
      <4>3. QED
        BY <4>2
    <3> HIDE DEF Upto
    <3>6. /\ f[k - 1] \o seqs[k] \in Seq(S)
          /\ ToSet(f[k - 1] \o seqs[k]) = ToSet(f[k - 1]) \cup ToSet(seqs[k])
          /\ Once(f[k - 1] \o seqs[k])
      BY <3>2, <3>3, <3>5, ConcatOnce
    <3>7. Good(k)
      BY <3>2, <3>3, <3>4, <3>6
    <3>8. QED
      BY <3>1, <3>7
  <2>3. QED
    BY <2>1, <2>2
<1>5. 0..n \subseteq T
  <2> HIDE DEF T, n
  <2>1. QED
    BY <1>1, <1>3, <1>4, UpTo
<1>6. Good(n)
  <2>1. n \in 0..n /\ n # 0
    BY <1>1
  <2>2. QED
    BY <1>5, <2>1
<1>7. QED
  BY <1>2, <1>6

-----------------------------------------------------------------------------
(* Split() *)

IsOffset(i, lens) == i = [k \in 0..Len(lens) |-> IF k = 0 THEN 0 ELSE i[k-1] + lens[k]]

Sums(n, q) ==
  \E g \in [0..n -> Nat] : g[0] = 0 /\ \A k \in 1..n : g[k] = g[k - 1] + q[k]

\* Sums, by recursion.
LEMMA SumRecursion ==
  ASSUME NEW n \in Nat, NEW q \in [1..n -> Nat]
  PROVE  Sums(n, q)
<1> DEFINE V == Nat
           v0 == 0
           G == [k \in 1..n |-> [v \in V |-> v + q[k]]]
<1>1. v0 \in V /\ G \in [1..n -> [V -> V]]
  OBVIOUS
<1>2. Definable(n, V, v0, G)
  <2> HIDE DEF V, v0, G
  <2>1. QED
    BY <1>1, Recursion
<1>3. PICK g \in [0..n -> V] : g[0] = v0 /\ \A k \in 1..n : g[k] = G[k][g[k - 1]]
  BY <1>2 DEF Definable
<1>4. ASSUME NEW k \in 1..n PROVE g[k] = g[k - 1] + q[k]
  <2>1. k - 1 \in 0..n
    OBVIOUS
  <2>2. g[k - 1] \in V
    BY <2>1
  <2>3. G[k][g[k - 1]] = g[k - 1] + q[k]
    BY <2>2
  <2>4. QED
    BY <1>3, <2>3
<1>5. QED
  BY <1>3, <1>4 DEF Sums

\* The bytes before a line are no more than those of the file.
LEMMA OffsetIs ==
  ASSUME NEW lens \in Seq(Nat)
  PROVE  /\ Offset(lens) \in [0..Len(lens) -> Nat]
         /\ \A k \in 0..Len(lens) : Offset(lens)[k] =< Offset(lens)[Len(lens)]
<1> DEFINE n == Len(lens)
<1>1. n \in Nat /\ lens \in [1..n -> Nat]
  OBVIOUS
<1>2. PICK g \in [0..n -> Nat] : g[0] = 0 /\ \A k \in 1..n : g[k] = g[k - 1] + lens[k]
  <2> HIDE DEF n
  <2>1. Sums(n, lens)
    BY <1>1, SumRecursion
  <2>2. QED
    BY <2>1 DEF Sums
<1>3. IsOffset(g, lens)
  <2> DEFINE E(k) == IF k = 0 THEN 0 ELSE g[k-1] + lens[k]
  <2>0. \A k \in 0..n : k = 0 \/ (k # 0 /\ k \in 1..n)
    BY <1>1
  <2>1. \A k \in 0..n : g[k] = E(k)
    BY <1>2, <2>0
  <2>2. g = [k \in 0..n |-> E(k)]
    BY <2>1
  <2>3. QED
    BY <2>2 DEF IsOffset
<1> DEFINE o == CHOOSE x : IsOffset(x, lens)
<1>4. IsOffset(o, lens)
  BY <1>3, Zenon
<1>5. Offset(lens) = o
  BY Zenon DEF Offset, IsOffset
<1> HIDE DEF o
<1>6. \A k \in 0..n : o[k] = IF k = 0 THEN 0 ELSE o[k-1] + lens[k]
  BY <1>4 DEF IsOffset
<1>7. o[0] = 0 /\ \A k \in 1..n : o[k] = o[k - 1] + lens[k]
  <2>1. n \in Nat /\ 0 \in 0..n /\ \A k \in 1..n : k \in 0..n /\ k # 0
    BY <1>1
  <2>2. QED
    BY <1>6, <2>1
<1>8. \A k \in 0..n : o[k] \in Nat
  <2> DEFINE T == {k \in 0..n : o[k] \in Nat}
  <2>1. 0 \in T
    BY <1>1, <1>7
  <2>2. ASSUME NEW k \in 1..n, k - 1 \in T PROVE k \in T
    <3>1. o[k - 1] \in Nat /\ lens[k] \in Nat /\ k \in 0..n
      BY <1>1, <2>2
    <3>2. QED
      BY <1>7, <3>1
  <2>3. 0..n \subseteq T
    <3> HIDE DEF T, n
    <3>1. QED
      BY <1>1, <2>1, <2>2, UpTo
  <2>4. QED
    BY <2>3
\* Going down from the last line.
<1>9. \A k \in 0..n : o[n - k] =< o[n]
  <2> DEFINE T == {k \in 0..n : o[n - k] =< o[n]}
  <2>1. 0 \in T
    <3>1. n - 0 = n /\ 0 \in 0..n /\ o[n] \in Nat
      BY <1>1, <1>8
    <3>2. QED
      BY <3>1
  <2>2. ASSUME NEW k \in 1..n, k - 1 \in T PROVE k \in T
    <3>1. /\ n - k \in 0..n /\ n - (k - 1) \in 1..n /\ n - (k - 1) \in 0..n /\ (n - (k - 1)) - 1 = n - k
          /\ k \in 0..n /\ n \in 0..n
      BY <1>1
    <3>2. o[n - (k - 1)] = o[n - k] + lens[n - (k - 1)]
      BY <1>7, <3>1
    <3>3. o[n - k] \in Nat /\ lens[n - (k - 1)] \in Nat /\ o[n] \in Nat /\ o[n - (k - 1)] =< o[n]
      BY <1>1, <1>8, <2>2, <3>1
    <3>4. o[n - k] =< o[n]
      BY <3>2, <3>3
    <3>5. QED
      BY <3>1, <3>4
  <2>3. 0..n \subseteq T
    <3> HIDE DEF T, n
    <3>1. QED
      BY <1>1, <2>1, <2>2, UpTo
  <2>4. QED
    BY <2>3
<1>10. ASSUME NEW k \in 0..n PROVE o[k] =< o[n]
  <2>1. n - k \in 0..n /\ n - (n - k) = k
    BY <1>1
  <2>2. QED
    BY <1>9, <2>1
<1>11. o \in [0..n -> Nat]
  <2>1. o = [k \in 0..n |-> o[k]]
    BY <1>4 DEF IsOffset
  <2>2. QED
    BY <1>8, <2>1
<1>12. QED
  BY <1>5, <1>10, <1>11

\* A chunk is so long that NMap of them hold the file.
LEMMA ChunkBound ==
  ASSUME NEW size \in Nat
  PROVE  /\ size \div NMap + 1 \in Nat
         /\ size < (size \div NMap + 1) * NMap
<1>1. NMap \in Nat /\ NMap > 0
  BY JobsAssumption
<1> DEFINE d == size \div NMap
           r == size % NMap
<1>2. d \in Nat /\ r \in 0..(NMap - 1) /\ size = d * NMap + r
  BY <1>1
<1> HIDE DEF d, r
<1>3. (d + 1) * NMap = d * NMap + NMap /\ d * NMap \in Nat
  BY <1>1, <1>2
<1>4. QED
  BY <1>1, <1>2, <1>3 DEF d

IsFileOf(m, lens, o, c) ==
  m = [k \in 0..Len(lens) |-> IF k = 0 THEN 1 ELSE NextFile(o[k-1], c, m[k-1])]

Numbers(n, o, c) ==
  \E g \in [0..n -> Nat] : g[0] = 1 /\ \A k \in 1..n : g[k] = NextFile(o[k - 1], c, g[k - 1])

\* The numbers of the files, by recursion.
LEMMA FileRecursion ==
  ASSUME NEW n \in Nat, NEW o \in [0..n -> Nat], NEW c \in Nat
  PROVE  Numbers(n, o, c)
<1> DEFINE V == Nat
           v0 == 1
           G == [k \in 1..n |-> [v \in V |-> NextFile(o[k - 1], c, v)]]
<1>1. \A x : \A v \in V : NextFile(x, c, v) \in V
  BY DEF NextFile
<1>2. v0 \in V /\ G \in [1..n -> [V -> V]]
  BY <1>1
<1>3. Definable(n, V, v0, G)
  <2> HIDE DEF V, v0, G
  <2>1. QED
    BY <1>2, Recursion
<1>4. PICK g \in [0..n -> V] : g[0] = v0 /\ \A k \in 1..n : g[k] = G[k][g[k - 1]]
  BY <1>3 DEF Definable
<1>5. ASSUME NEW k \in 1..n PROVE g[k] = NextFile(o[k - 1], c, g[k - 1])
  <2>1. k - 1 \in 0..n
    OBVIOUS
  <2>2. g[k - 1] \in V
    BY <2>1
  <2>3. G[k][g[k - 1]] = NextFile(o[k - 1], c, g[k - 1])
    BY <2>2
  <2>4. QED
    BY <1>4, <2>3
<1>6. QED
  BY <1>4, <1>5 DEF Numbers

\* The files are numbered up to NMap at most, and the last line is in the last.
LEMMA FileOfIs ==
  ASSUME NEW lens \in Seq(Nat)
  PROVE  /\ FileOf(lens)[Len(lens)] \in 1..NMap
         /\ \A k \in 0..Len(lens) : FileOf(lens)[k] \in 1..FileOf(lens)[Len(lens)]
<1> DEFINE n == Len(lens)
           o == Offset(lens)
           c == o[n] \div NMap + 1
<1>1. n \in Nat /\ o \in [0..n -> Nat] /\ \A k \in 0..n : o[k] =< o[n]
  BY OffsetIs
<1>2. NMap \in Nat /\ NMap >= 1
  BY JobsAssumption
<1>3. o[n] \in Nat /\ c \in Nat /\ o[n] < c * NMap
  <2>1. o[n] \in Nat
    BY <1>1
  <2>2. QED
    BY <2>1, ChunkBound
<1> DEFINE m == CHOOSE x : IsFileOf(x, lens, o, c)
<1>4. FileOf(lens) = m
  BY Zenon DEF FileOf, IsFileOf
<1> HIDE DEF o, c
<1>5. PICK g \in [0..n -> Nat] : g[0] = 1 /\ \A k \in 1..n : g[k] = NextFile(o[k - 1], c, g[k - 1])
  <2>1. n \in Nat /\ o \in [0..n -> Nat] /\ c \in Nat
    BY <1>1, <1>3
  <2> HIDE DEF n
  <2>2. Numbers(n, o, c)
    BY <2>1, FileRecursion
  <2>3. QED
    BY <2>2 DEF Numbers
<1>6. IsFileOf(g, lens, o, c)
  <2> DEFINE E(k) == IF k = 0 THEN 1 ELSE NextFile(o[k-1], c, g[k-1])
  <2>0. \A k \in 0..n : k = 0 \/ (k # 0 /\ k \in 1..n)
    BY <1>1
  <2>1. \A k \in 0..n : g[k] = E(k)
    BY <1>5, <2>0
  <2>2. g = [k \in 0..n |-> E(k)]
    BY <2>1
  <2>3. QED
    BY <2>2 DEF IsFileOf
<1>7. IsFileOf(m, lens, o, c)
  BY <1>6, Zenon
<1> HIDE DEF m
<1>8. \A k \in 0..n : m[k] = IF k = 0 THEN 1 ELSE NextFile(o[k-1], c, m[k-1])
  BY <1>7 DEF IsFileOf
<1>9. m[0] = 1 /\ \A k \in 1..n : m[k] = NextFile(o[k - 1], c, m[k - 1])
  <2>1. n \in Nat /\ 0 \in 0..n /\ \A k \in 1..n : k \in 0..n /\ k # 0
    BY <1>1
  <2>2. QED
    BY <1>8, <2>1
<1>10. \A k \in 0..n : m[k] \in 1..NMap
  <2> DEFINE T == {k \in 0..n : m[k] \in 1..NMap}
  <2>1. 0 \in T
    BY <1>1, <1>2, <1>9
  <2>2. ASSUME NEW k \in 1..n, k - 1 \in T PROVE k \in T
    <3>1. m[k - 1] \in 1..NMap /\ k \in 0..n /\ k - 1 \in 0..n
      BY <1>1, <2>2
    <3>2. o[k - 1] \in Nat /\ o[k - 1] =< o[n]
      BY <1>1, <3>1
    <3>3. CASE m[k - 1] = NMap
      <4>1. ~(o[k - 1] > c * NMap)
        <5>1. c * NMap \in Nat
          BY <1>2, <1>3
        <5>2. QED
          BY <1>3, <3>2, <5>1
      <4>2. m[k] = NMap
        BY <1>9, <3>3, <4>1 DEF NextFile
      <4>3. QED
        BY <1>2, <3>1, <4>2
    <3>4. CASE m[k - 1] # NMap
      <4>1. m[k] = m[k - 1] \/ m[k] = m[k - 1] + 1
        BY <1>9 DEF NextFile
      <4>2. m[k] \in 1..NMap
        BY <1>2, <3>1, <3>4, <4>1
      <4>3. QED
        BY <3>1, <4>2
    <3>5. QED
      BY <3>3, <3>4
  <2>3. 0..n \subseteq T
    <3> HIDE DEF T, n
    <3>1. QED
      BY <1>1, <2>1, <2>2, UpTo
  <2>4. QED
    BY <2>3
\* Going down from the last line.
<1>11. \A k \in 0..n : m[n - k] =< m[n]
  <2> DEFINE T == {k \in 0..n : m[n - k] =< m[n]}
  <2>1. 0 \in T
    <3>1. n - 0 = n /\ 0 \in 0..n /\ n \in 0..n
      BY <1>1
    <3>2. m[n] \in Nat
      BY <1>2, <1>10, <3>1
    <3>3. QED
      BY <3>1, <3>2
  <2>2. ASSUME NEW k \in 1..n, k - 1 \in T PROVE k \in T
    <3>1. /\ n - k \in 0..n /\ n - (k - 1) \in 1..n /\ n - (k - 1) \in 0..n /\ (n - (k - 1)) - 1 = n - k
          /\ k \in 0..n /\ n \in 0..n
      BY <1>1
    <3>2. m[n - (k - 1)] = m[n - k] \/ m[n - (k - 1)] = m[n - k] + 1
      BY <1>9, <3>1 DEF NextFile
    <3>3. m[n - k] \in Nat /\ m[n] \in Nat /\ m[n - (k - 1)] =< m[n]
      BY <1>2, <1>10, <2>2, <3>1
    <3>4. m[n - k] =< m[n]
      BY <3>2, <3>3
    <3>5. QED
      BY <3>1, <3>4
  <2>3. 0..n \subseteq T
    <3> HIDE DEF T, n
    <3>1. QED
      BY <1>1, <2>1, <2>2, UpTo
  <2>4. QED
    BY <2>3
<1>12. ASSUME NEW k \in 0..n PROVE m[k] \in 1..m[n]
  <2>1. n - k \in 0..n /\ n - (n - k) = k /\ n \in 0..n
    BY <1>1
  <2>2. m[k] =< m[n]
    BY <1>11, <2>1
  <2>3. m[k] \in 1..NMap /\ m[n] \in 1..NMap
    BY <1>10, <2>1
  <2>4. QED
    BY <1>2, <2>2, <2>3
<1>13. m[n] \in 1..NMap
  BY <1>1, <1>10
<1>14. QED
  BY <1>4, <1>12, <1>13

\* Every line is in one file, once, and there are NMap files or fewer.
LEMMA SplitIs ==
  ASSUME NEW lens \in Seq(Nat)
  PROVE  /\ \A m \in DOMAIN Split(lens) : Split(lens)[m] \in Seq(1..Len(lens)) /\ Once(Split(lens)[m])
         /\ DOMAIN Split(lens) \subseteq 1..NMap
         /\ \A k \in 1..Len(lens) : \E m \in DOMAIN Split(lens) : k \in ToSet(Split(lens)[m])
         /\ \A l, m \in DOMAIN Split(lens) :
              l # m => ToSet(Split(lens)[l]) \cap ToSet(Split(lens)[m]) = {}
<1> DEFINE n == Len(lens)
           F == FileOf(lens)
           all == [k \in 1..n |-> k]
           In(m) == {k \in 1..n : F[k] = m}
           N == F[n]
<1>1. n \in Nat /\ N \in 1..NMap /\ \A k \in 0..n : F[k] \in 1..N
  BY FileOfIs
<1>2. all \in Seq(1..n) /\ Len(all) = n /\ DOMAIN all = 1..n /\ \A k \in 1..n : all[k] = k
  <2>1. n \in Nat
    BY <1>1
  <2>2. all \in [1..n -> 1..n]
    OBVIOUS
  <2> HIDE DEF n
  <2>3. all \in Seq(1..n) /\ Len(all) = n
    BY <2>1, <2>2, IsASeq
  <2>4. QED
    BY <2>3
<1>3. Once(all) /\ ToSet(all) = 1..n
  <2> HIDE DEF all
  <2>1. QED
    BY <1>2 DEF Once, ToSet
<1>4. Split(lens) = [m \in 1..N |-> Written(all, In(m))]
  BY DEF Split
<1> HIDE DEF all, N
<1>5. ASSUME NEW m \in 1..N
      PROVE  /\ Split(lens)[m] \in Seq(1..n) /\ Once(Split(lens)[m])
             /\ ToSet(Split(lens)[m]) = In(m)
  <2>1. Split(lens)[m] = Written(all, In(m))
    BY <1>4
  <2>2. In(m) \subseteq 1..n
    OBVIOUS
  <2> HIDE DEF In
  <2>3. /\ Written(all, In(m)) \in Seq(1..n) /\ Once(Written(all, In(m)))
        /\ ToSet(Written(all, In(m))) = ToSet(all) \cap In(m)
    BY <1>2, <1>3, WrittenIs
  <2>4. QED
    BY <1>3, <2>1, <2>2, <2>3
<1>6. DOMAIN Split(lens) = 1..N
  BY <1>4
<1>7. 1..N \subseteq 1..NMap
  BY <1>1, JobsAssumption
<1>8. ASSUME NEW k \in 1..n PROVE \E m \in 1..N : k \in ToSet(Split(lens)[m])
  <2>1. k \in 0..n
    BY <1>1
  <2>2. F[k] \in 1..N /\ k \in In(F[k])
    BY <1>1, <2>1
  <2>3. k \in ToSet(Split(lens)[F[k]])
    BY <1>5, <2>2
  <2>4. QED
    BY <2>2, <2>3
<1>9. \A l, m \in 1..N : l # m => ToSet(Split(lens)[l]) \cap ToSet(Split(lens)[m]) = {}
  <2> SUFFICES ASSUME NEW l \in 1..N, NEW m \in 1..N, l # m
               PROVE  ToSet(Split(lens)[l]) \cap ToSet(Split(lens)[m]) = {}
    OBVIOUS
  <2>1. ToSet(Split(lens)[l]) = In(l) /\ ToSet(Split(lens)[m]) = In(m)
    BY <1>5
  <2>2. In(l) \cap In(m) = {}
    OBVIOUS
  <2>3. QED
    BY <2>1, <2>2
<1>10. QED
  BY <1>5, <1>6, <1>7, <1>8, <1>9

-----------------------------------------------------------------------------
(* What one sequential run, RunSingle(), writes *)

\* A line of the input belongs to a reduce job.
Part(lens, j) == {k \in 1..Len(lens) : Partition(k) = j}

MapOf(lens, i, j) == Written(Split(lens)[i + 1], Part(lens, j))
ReduceOf(lens, j) == FlattenSeq([i \in 1..NMap |-> MapOf(lens, i - 1, j)])
MergeOf(lens) == FlattenSeq([j \in 1..NReduce |-> ReduceOf(lens, j - 1)])

\* There is a file for every map job.
Full(lens) == 1..NMap \subseteq DOMAIN Split(lens)

\* A line has a reduce job.
LEMMA PartitionIs ==
  ASSUME NEW k \in Nat
  PROVE  Partition(k) \in 0..NReduce-1
  BY JobsAssumption DEF Partition

\* What DoMap() writes: the lines of its file that belong to the reduce job.
LEMMA MapOfIs ==
  ASSUME NEW lens \in Seq(Nat), NEW i, i + 1 \in DOMAIN Split(lens), NEW j
  PROVE  /\ MapOf(lens, i, j) \in Seq(1..Len(lens)) /\ Once(MapOf(lens, i, j))
         /\ ToSet(MapOf(lens, i, j)) = ToSet(Split(lens)[i + 1]) \cap Part(lens, j)
<1>1. Split(lens)[i + 1] \in Seq(1..Len(lens)) /\ Once(Split(lens)[i + 1])
  BY SplitIs
<1>2. QED
  BY <1>1, WrittenIs DEF MapOf

\* A function on 1..n is a sequence of n.
LEMMA AsSeq ==
  ASSUME NEW S, NEW n \in Nat, NEW f \in [1..n -> S]
  PROVE  f \in Seq(S) /\ Len(f) = n
  BY IsASeq

\* What DoReduce() writes: all lines that belong to it.
LEMMA ReduceOfIs ==
  ASSUME NEW lens \in Seq(Nat), Full(lens), NEW j
  PROVE  /\ ReduceOf(lens, j) \in Seq(1..Len(lens)) /\ Once(ReduceOf(lens, j))
         /\ ToSet(ReduceOf(lens, j)) = Part(lens, j)
<1> DEFINE L == 1..Len(lens)
           q == [i \in 1..NMap |-> MapOf(lens, i - 1, j)]
<1>0. NMap \in Nat /\ NMap >= 1
  BY JobsAssumption
<1>1. ASSUME NEW i \in 1..NMap
      PROVE  q[i] \in Seq(L) /\ Once(q[i]) /\ ToSet(q[i]) = ToSet(Split(lens)[i]) \cap Part(lens, j)
  <2>1. (i - 1) + 1 = i
    BY <1>0
  <2>2. (i - 1) + 1 \in DOMAIN Split(lens)
    BY <2>1 DEF Full
  <2>3. /\ MapOf(lens, i - 1, j) \in Seq(L) /\ Once(MapOf(lens, i - 1, j))
        /\ ToSet(MapOf(lens, i - 1, j)) = ToSet(Split(lens)[(i - 1) + 1]) \cap Part(lens, j)
    BY <2>2, MapOfIs
  <2>4. QED
    BY <2>1, <2>3
<1>2. q \in [1..NMap -> Seq(L)]
  BY <1>1
<1> HIDE DEF q, L
<1>3. q \in Seq(Seq(L)) /\ Len(q) = NMap
  BY <1>0, <1>2, AsSeq
<1>4. \A k, l \in 1..Len(q) : k # l => ToSet(q[k]) \cap ToSet(q[l]) = {}
  <2> SUFFICES ASSUME NEW k \in 1..NMap, NEW l \in 1..NMap, k # l
               PROVE  ToSet(q[k]) \cap ToSet(q[l]) = {}
    BY <1>3
  <2>1. k \in DOMAIN Split(lens) /\ l \in DOMAIN Split(lens)
    BY DEF Full
  <2>2. ToSet(Split(lens)[k]) \cap ToSet(Split(lens)[l]) = {}
    BY <2>1, SplitIs
  <2>3. QED
    BY <1>1, <2>2
<1>5. /\ FlattenSeq(q) \in Seq(L) /\ Once(FlattenSeq(q))
      /\ \A x : x \in ToSet(FlattenSeq(q)) <=> \E k \in 1..NMap : x \in ToSet(q[k])
  <2>1. Len(q) >= 1 /\ \A k \in 1..Len(q) : Once(q[k])
    BY <1>0, <1>1, <1>3
  <2>2. /\ FlattenSeq(q) \in Seq(L) /\ Once(FlattenSeq(q))
        /\ \A x : x \in ToSet(FlattenSeq(q)) <=> \E k \in 1..Len(q) : x \in ToSet(q[k])
    BY <1>3, <1>4, <2>1, FlattenIs
  <2>3. QED
    BY <1>3, <2>2
<1>6. \A x \in Part(lens, j) : \E k \in 1..NMap : x \in ToSet(q[k])
  <2> SUFFICES ASSUME NEW x \in Part(lens, j) PROVE \E k \in 1..NMap : x \in ToSet(q[k])
    OBVIOUS
  <2>1. x \in 1..Len(lens)
    BY DEF Part
  <2>2. PICK k \in DOMAIN Split(lens) : x \in ToSet(Split(lens)[k])
    BY <2>1, SplitIs
  <2>3. k \in 1..NMap
    BY SplitIs
  <2>4. QED
    BY <1>1, <2>2, <2>3
<1>7. ToSet(FlattenSeq(q)) = Part(lens, j)
  BY <1>1, <1>5, <1>6
<1>8. QED
  BY <1>5, <1>7 DEF ReduceOf, q, L

\* A sequence of the numbers up to n, each once, has length n.
LEMMA OnceLength ==
  ASSUME NEW n \in Nat, NEW s \in Seq(1..n), Once(s), ToSet(s) = 1..n
  PROVE  Len(s) = n
<1>1. Len(s) \in Nat /\ DOMAIN s = 1..Len(s) /\ s \in [1..Len(s) -> 1..n]
  OBVIOUS
<1>2. s \in Bijection(1..Len(s), 1..n)
  <2>1. s \in Injection(1..Len(s), 1..n)
    <3>1. \A a, b \in 1..Len(s) : s[a] = s[b] => a = b
      BY DEF Once
    <3>2. QED
      BY <1>1, <3>1, Fun_IsInj
  <2>2. s \in Surjection(1..Len(s), 1..n)
    <3>1. \A t \in 1..n : \E a \in 1..Len(s) : s[a] = t
      BY <1>1 DEF ToSet
    <3>2. QED
      BY <1>1, <3>1, Fun_IsSurj
  <2>3. QED
    BY <2>1, <2>2, Fun_IsBij
<1>3. ExistsBijection(1..Len(s), 1..n)
  BY <1>2 DEF ExistsBijection
<1>4. IsFiniteSet(1..n) /\ Cardinality(1..n) = n /\ IsFiniteSet(1..Len(s)) /\ Cardinality(1..Len(s)) = Len(s)
  <2>1. 1 \in Int /\ n \in Int /\ Len(s) \in Int
    BY <1>1
  <2>2. /\ IsFiniteSet(1..n) /\ Cardinality(1..n) = IF 1 > n THEN 0 ELSE n - 1 + 1
        /\ IsFiniteSet(1..Len(s)) /\ Cardinality(1..Len(s)) = IF 1 > Len(s) THEN 0 ELSE Len(s) - 1 + 1
    BY <2>1, FS_Interval
  <2>3. QED
    BY <1>1, <2>2
<1>5. Cardinality(1..Len(s)) = Cardinality(1..n)
  BY <1>3, <1>4, FS_Bijection DEF ExistsBijection
<1>6. QED
  BY <1>4, <1>5

\* What Merge() writes: every line once.
LEMMA MergeOfIs ==
  ASSUME NEW lens \in Seq(Nat), Full(lens)
  PROVE  Len(MergeOf(lens)) = Len(lens) /\ ToSet(MergeOf(lens)) = 1..Len(lens)
<1> DEFINE L == 1..Len(lens)
           q == [j \in 1..NReduce |-> ReduceOf(lens, j - 1)]
<1>0. NReduce \in Nat /\ NReduce >= 1 /\ Len(lens) \in Nat
  BY JobsAssumption
<1>1. ASSUME NEW j \in 1..NReduce
      PROVE  q[j] \in Seq(L) /\ Once(q[j]) /\ ToSet(q[j]) = Part(lens, j - 1)
  <2>1. /\ ReduceOf(lens, j - 1) \in Seq(L) /\ Once(ReduceOf(lens, j - 1))
        /\ ToSet(ReduceOf(lens, j - 1)) = Part(lens, j - 1)
    BY ReduceOfIs
  <2>2. QED
    BY <2>1
<1>2. q \in [1..NReduce -> Seq(L)]
  BY <1>1
<1> HIDE DEF q
<1>3. q \in Seq(Seq(L)) /\ Len(q) = NReduce
  <2> HIDE DEF L
  <2>1. QED
    BY <1>0, <1>2, AsSeq
<1>4. \A k, l \in 1..Len(q) : k # l => ToSet(q[k]) \cap ToSet(q[l]) = {}
  <2> SUFFICES ASSUME NEW k \in 1..NReduce, NEW l \in 1..NReduce, k # l
               PROVE  Part(lens, k - 1) \cap Part(lens, l - 1) = {}
    BY <1>1, <1>3
  <2>1. k - 1 # l - 1
    BY <1>0
  <2>2. QED
    BY <2>1 DEF Part
<1>5. /\ FlattenSeq(q) \in Seq(L) /\ Once(FlattenSeq(q))
      /\ \A x : x \in ToSet(FlattenSeq(q)) <=> \E k \in 1..NReduce : x \in ToSet(q[k])
  <2> HIDE DEF L
  <2>1. Len(q) >= 1 /\ \A k \in 1..Len(q) : Once(q[k])
    BY <1>0, <1>1, <1>3
  <2>2. /\ FlattenSeq(q) \in Seq(L) /\ Once(FlattenSeq(q))
        /\ \A x : x \in ToSet(FlattenSeq(q)) <=> \E k \in 1..Len(q) : x \in ToSet(q[k])
    BY <1>3, <1>4, <2>1, FlattenIs
  <2>3. QED
    BY <1>3, <2>2
<1>6. ASSUME NEW x \in L PROVE \E k \in 1..NReduce : x \in ToSet(q[k])
  <2>1. Partition(x) \in 0..NReduce-1
    BY <1>0, PartitionIs
  <2> DEFINE p == Partition(x)
  <2>2. p + 1 \in 1..NReduce /\ (p + 1) - 1 = p
    BY <1>0, <2>1
  <2>3. x \in Part(lens, p)
    BY DEF Part
  <2> HIDE DEF p
  <2>4. x \in ToSet(q[p + 1])
    BY <1>1, <2>2, <2>3
  <2>5. QED
    BY <2>2, <2>4
<1>7. ASSUME NEW k \in 1..NReduce, NEW x \in ToSet(q[k]) PROVE x \in L
  BY <1>1 DEF Part
<1>8. ToSet(FlattenSeq(q)) = L
  BY <1>5, <1>6, <1>7
<1>9. Len(FlattenSeq(q)) = Len(lens)
  BY <1>0, <1>5, <1>8, OnceLength
<1>10. QED
  BY <1>8, <1>9 DEF MergeOf, q

-----------------------------------------------------------------------------
(* The inductive invariant *)

Sent(t) == task[t].pc \in {"offer", "end"}

Types ==
  /\ input \in Inputs
  /\ phase \in {"split", "map", "reduce", "merged", "done"}
  /\ task \in [Jobs -> [pc : {"none", "select", "call", "wait", "offer", "end"},
                        worker : Workers \cup {None}]]
  /\ worker \in [Workers -> [pc : {"start", "registering", "serving", "gone"}, nRPC : Int]]
  /\ job \in [Workers -> [task : Jobs, file : Nat, open : BOOLEAN] \cup {None}]
  /\ mapFile \in [0..NMap-1 -> [0..NReduce-1 -> Seq(Nat) \cup {None}]]
  /\ resFile \in [0..NReduce-1 -> Seq(Nat) \cup {None}]

\* A worker is held by one goroutine at most, which calls it, waits for it or
\* offers it; only a registered worker is held, and only a worker that is
\* waited for has a job.
Held(t) ==
  /\ task[t].worker # None <=> task[t].pc \in {"call", "wait", "offer"}
  /\ task[t].worker # None => worker[task[t].worker].pc \in {"serving", "gone"}

Unshared ==
  \A t, u \in Jobs : task[t].worker # None /\ task[t].worker = task[u].worker => t = u

Served(w) ==
  job[w] # None => /\ worker[w].pc = "serving"
                   /\ task[job[w].task].pc = "wait" /\ task[job[w].task].worker = w

Holding ==
  /\ \A t \in Jobs : Held(t)
  /\ Unshared
  /\ \A w \in Workers : Served(w)

\* The jobs of a phase begin when those of the one before are done.
Phases ==
  /\ phase # "split" => split = Split(input)
  /\ phase = "split" => \A t \in MapJobs : task[t].pc = "none"
  /\ phase \in {"split", "map"} => \A t \in ReduceJobs : task[t].pc = "none"
  /\ phase \in {"reduce", "merged", "done"} => \A t \in MapJobs : Sent(t)

\* The files of a job that is done are those of a sequential run.
MapDone(i) ==
  Sent(<<"Map", i>>) =>
    i + 1 \in DOMAIN Split(input) /\ \A j \in 0..NReduce-1 : mapFile[i][j] = MapOf(input, i, j)
ReduceDone(j) == Sent(<<"Reduce", j>>) => resFile[j] = ReduceOf(input, j)

\* So are those that the job a worker has now has finished; the one it has
\* begun is empty, whatever an attempt before has left in it.
MapBegun(w, i) ==
  (job[w] # None /\ job[w].task = <<"Map", i>>) =>
    /\ job[w].file =< NReduce
    /\ job[w].file > 0 \/ job[w].open => i + 1 \in DOMAIN Split(input)
    /\ \A j \in 0..NReduce-1 : j < job[w].file => mapFile[i][j] = MapOf(input, i, j)
    /\ job[w].open => job[w].file < NReduce /\ mapFile[i][job[w].file] = <<>>
ReduceBegun(w, j) ==
  (job[w] # None /\ job[w].task = <<"Reduce", j>>) =>
    /\ job[w].file > 0 => resFile[j] = ReduceOf(input, j)
    /\ job[w].open => resFile[j] = <<>>

MapFiles ==
  \A i \in 0..NMap-1 : MapDone(i) /\ \A w \in Workers : MapBegun(w, i)
ReduceFiles ==
  \A j \in 0..NReduce-1 : ReduceDone(j) /\ \A w \in Workers : ReduceBegun(w, j)

Output == out # None => Full(input) /\ out = MergeOf(input)

IInv == Types /\ Holding /\ Phases /\ MapFiles /\ ReduceFiles /\ Output

-----------------------------------------------------------------------------
(* Steps *)

\* The jobs are the pairs of a kind and a number.
LEMMA JobIs ==
  /\ MapJobs \subseteq Jobs /\ ReduceJobs \subseteq Jobs
  /\ \A i \in 0..NMap-1 : <<"Map", i>> \in MapJobs /\ <<"Map", i>> \notin ReduceJobs
  /\ \A j \in 0..NReduce-1 : <<"Reduce", j>> \in ReduceJobs /\ <<"Reduce", j>> \notin MapJobs
  /\ \A t \in MapJobs : t \notin ReduceJobs /\ t[1] = "Map" /\ t[2] \in 0..NMap-1 /\ t = <<"Map", t[2]>>
  /\ \A t \in ReduceJobs : t \notin MapJobs /\ t[1] = "Reduce" /\ t[2] \in 0..NReduce-1 /\ t = <<"Reduce", t[2]>>
  /\ \A t \in Jobs : t \in MapJobs \/ t \in ReduceJobs
<1>1. \A i \in 0..NMap-1 : \A j \in 0..NReduce-1 : <<"Map", i>> # <<"Reduce", j>>
  OBVIOUS
<1>2. \A i \in 0..NMap-1 : <<"Map", i>>[1] = "Map" /\ <<"Map", i>>[2] = i
  OBVIOUS
<1>3. \A j \in 0..NReduce-1 : <<"Reduce", j>>[1] = "Reduce" /\ <<"Reduce", j>>[2] = j
  OBVIOUS
<1>4. QED
  BY <1>1, <1>2, <1>3 DEF MapJobs, ReduceJobs, Jobs

\* A step that finishes no job and writes no file.
LEMMA FilesFrame ==
  ASSUME MapFiles, ReduceFiles, UNCHANGED <<input, mapFile, resFile>>,
         \A t \in Jobs : Sent(t)' => Sent(t),
         \A w \in Workers : \/ job'[w] = job[w] \/ job'[w] = None
                            \/ job'[w].file = 0 /\ job'[w].open = FALSE
  PROVE  MapFiles' /\ ReduceFiles'
<1>1. ASSUME NEW i \in 0..NMap-1 PROVE MapDone(i)'
  <2>1. MapDone(i) /\ (Sent(<<"Map", i>>)' => Sent(<<"Map", i>>))
    BY JobIs DEF MapFiles
  <2>2. QED
    BY <2>1 DEF MapDone
<1>2. ASSUME NEW j \in 0..NReduce-1 PROVE ReduceDone(j)'
  <2>1. ReduceDone(j) /\ (Sent(<<"Reduce", j>>)' => Sent(<<"Reduce", j>>))
    BY JobIs DEF ReduceFiles
  <2>2. QED
    BY <2>1 DEF ReduceDone
<1>3. ASSUME NEW i \in 0..NMap-1, NEW w \in Workers PROVE MapBegun(w, i)'
  <2>1. CASE job'[w] = job[w] \/ job'[w] = None
    BY <2>1 DEF MapFiles, MapBegun
  <2>2. CASE job'[w].file = 0 /\ job'[w].open = FALSE
    BY <2>2, JobsAssumption DEF MapBegun
  <2>3. QED
    BY <2>1, <2>2
<1>4. ASSUME NEW j \in 0..NReduce-1, NEW w \in Workers PROVE ReduceBegun(w, j)'
  <2>1. CASE job'[w] = job[w] \/ job'[w] = None
    BY <2>1 DEF ReduceFiles, ReduceBegun
  <2>2. CASE job'[w].file = 0 /\ job'[w].open = FALSE
    BY <2>2 DEF ReduceBegun
  <2>3. QED
    BY <2>1, <2>2
<1>5. QED
  BY <1>1, <1>2, <1>3, <1>4 DEF MapFiles, ReduceFiles

\* A step that is not of Run().
LEMMA PhasesFrame ==
  ASSUME Phases, UNCHANGED <<input, split, phase>>,
         \A t \in Jobs : /\ task[t].pc = "none" => task'[t].pc = "none"
                         /\ Sent(t) => Sent(t)'
  PROVE  Phases'
<1>1. ASSUME NEW t \in MapJobs
      PROVE  t \in Jobs
  BY JobIs
<1>2. ASSUME NEW t \in ReduceJobs
      PROVE  t \in Jobs
  BY JobIs
<1>3. phase = "split" => \A t \in MapJobs : task'[t].pc = "none"
  BY <1>1 DEF Phases
<1>4. phase \in {"split", "map"} => \A t \in ReduceJobs : task'[t].pc = "none"
  BY <1>2 DEF Phases
<1>5. phase \in {"reduce", "merged", "done"} => \A t \in MapJobs : Sent(t)'
  BY <1>1 DEF Phases
<1>6. QED
  BY <1>3, <1>4, <1>5 DEF Phases

\* Merge() has not run, or runs no more.
LEMMA OutputFrame ==
  ASSUME Output, UNCHANGED <<input, out>>
  PROVE  Output'
  BY DEF Output

\* A step that hands over no worker.
LEMMA HoldingFrame ==
  ASSUME Holding, task' = task,
         \A w \in Workers : worker[w].pc \in {"serving", "gone"} => worker'[w].pc \in {"serving", "gone"},
         \A w \in Workers : job'[w] # None => /\ job[w] # None /\ job'[w].task = job[w].task
                                              /\ worker'[w].pc = worker[w].pc,
         \A t \in Jobs : task[t].worker # None => task[t].worker \in Workers
  PROVE  Holding'
<1>1. ASSUME NEW t \in Jobs PROVE Held(t)'
  BY DEF Holding, Held
<1>2. Unshared'
  BY DEF Holding, Unshared
<1>3. ASSUME NEW w \in Workers PROVE Served(w)'
  BY DEF Holding, Served
<1>4. QED
  BY <1>1, <1>2, <1>3 DEF Holding

\* The goroutine holds a worker, not None.
LEMMA HeldType ==
  ASSUME Types, NEW t \in Jobs
  PROVE  /\ task[t].worker # None => task[t].worker \in Workers
         /\ task[t] = [pc |-> task[t].pc, worker |-> task[t].worker]
  BY DEF Types

\* Initially no goroutine runs and no worker is registered.
LEMMA InitInv == Init => IInv
<1> SUFFICES ASSUME Init PROVE IInv
  OBVIOUS
<1>1. Types
  BY WorkersAssumption DEF Init, Types
<1>2. Holding
  BY DEF Init, Holding, Held, Unshared, Served
<1>3. Phases
  BY JobIs DEF Init, Phases
<1>4. \A t \in Jobs : ~Sent(t)
  BY DEF Init, Sent
<1>5. \A w \in Workers : job[w] = None
  BY DEF Init
<1>6. MapFiles
  BY <1>4, <1>5, JobIs DEF MapFiles, MapDone, MapBegun
<1>7. ReduceFiles
  BY <1>4, <1>5, JobIs DEF ReduceFiles, ReduceDone, ReduceBegun
<1>8. Output
  BY DEF Init, Output
<1>9. QED
  BY <1>1, <1>2, <1>3, <1>6, <1>7, <1>8 DEF IInv

\* The goroutines of a phase are started.
LEMMA StartedStep ==
  ASSUME Types, Holding, NEW js, js \subseteq Jobs, \A t \in js : task[t].pc = "none",
         task' = Started(js), UNCHANGED <<input, worker, job, mapFile, resFile>>,
         phase' \in {"split", "map", "reduce", "merged", "done"}
  PROVE  /\ Types' /\ Holding'
         /\ \A t \in Jobs : Sent(t)' <=> Sent(t)
         /\ \A t \in Jobs \ js : task'[t] = task[t]
<1>1. \A t \in Jobs : task'[t] = IF t \in js THEN [task[t] EXCEPT !.pc = "select"] ELSE task[t]
  BY DEF Started
<1>2. \A t \in Jobs : task[t].worker = task'[t].worker /\ (t \in js => task'[t].pc = "select")
  BY <1>1, HeldType
<1>0. \A t \in Jobs : t \notin js => task'[t] = task[t]
  BY <1>1
<1>3. Types'
  <2>1. task' \in [Jobs -> [pc : {"none", "select", "call", "wait", "offer", "end"},
                            worker : Workers \cup {None}]]
    BY DEF Started, Types
  <2>2. QED
    BY <2>1 DEF Types
<1>4. Holding'
  <2>1. ASSUME NEW t \in Jobs PROVE Held(t)'
    <3>1. Held(t) /\ worker' = worker
      BY DEF Holding
    <3>2. CASE t \in js
      BY <1>2, <3>1, <3>2 DEF Held
    <3>3. CASE t \notin js
      BY <1>0, <3>1, <3>3 DEF Held
    <3>4. QED
      BY <3>2, <3>3
  <2>2. Unshared'
    BY <1>2 DEF Holding, Unshared
  <2>3. ASSUME NEW w \in Workers PROVE Served(w)'
    <3>1. job[w] # None => job[w].task \in Jobs
      BY DEF Types
    <3>2. Served(w) /\ job' = job /\ worker' = worker
      BY DEF Holding
    <3>3. job[w] # None => task'[job[w].task] = task[job[w].task]
      BY <1>0, <3>1, <3>2 DEF Served
    <3>4. QED
      BY <3>2, <3>3 DEF Served
  <2>4. QED
    BY <2>1, <2>2, <2>3 DEF Holding
<1>5. \A t \in Jobs : Sent(t)' <=> Sent(t)
  BY <1>1, <1>2 DEF Sent
<1>6. QED
  BY <1>1, <1>3, <1>4, <1>5

\* Split() and the start of the map jobs.
LEMMA RunSplitStep == IInv /\ RunSplit => IInv'
<1> SUFFICES ASSUME IInv, RunSplit PROVE IInv'
  OBVIOUS
<1> USE DEF IInv
<1>1. MapJobs \subseteq Jobs /\ \A t \in MapJobs : task[t].pc = "none"
  BY JobIs DEF RunSplit, Phases
<1>2. /\ Types' /\ Holding'
      /\ \A t \in Jobs : Sent(t)' <=> Sent(t)
      /\ \A t \in Jobs \ MapJobs : task'[t] = task[t]
  BY <1>1, StartedStep DEF RunSplit
<1>3. Phases'
  <2>1. \A t \in ReduceJobs : task'[t].pc = "none"
    BY <1>2, JobIs DEF RunSplit, Phases
  <2>2. QED
    BY <2>1 DEF RunSplit, Phases
<1>4. MapFiles' /\ ReduceFiles'
  BY <1>2, FilesFrame DEF RunSplit
<1>5. Output'
  BY OutputFrame DEF RunSplit
<1>6. QED
  BY <1>2, <1>3, <1>4, <1>5

\* The map jobs are done, the reduce jobs start.
LEMMA RunReduceStep == IInv /\ RunReduce => IInv'
<1> SUFFICES ASSUME IInv, RunReduce PROVE IInv'
  OBVIOUS
<1> USE DEF IInv
<1>1. ReduceJobs \subseteq Jobs /\ \A t \in ReduceJobs : task[t].pc = "none"
  BY JobIs DEF RunReduce, Phases
<1>2. /\ Types' /\ Holding'
      /\ \A t \in Jobs : Sent(t)' <=> Sent(t)
      /\ \A t \in Jobs \ ReduceJobs : task'[t] = task[t]
  BY <1>1, StartedStep DEF RunReduce
<1>3. Phases'
  <2>1. ASSUME NEW t \in MapJobs PROVE Sent(t)'
    <3>1. t \in Jobs /\ Sent(t)
      BY JobIs DEF RunReduce, AllSent, Sent
    <3>2. QED
      BY <1>2, <3>1
  <2>2. QED
    BY <2>1 DEF RunReduce, Phases
<1>4. MapFiles' /\ ReduceFiles'
  BY <1>2, FilesFrame DEF RunReduce
<1>5. Output'
  BY OutputFrame DEF RunReduce
<1>6. QED
  BY <1>2, <1>3, <1>4, <1>5

\* The map jobs are done when reduce jobs run: every file is there.
LEMMA MapsAreDone ==
  ASSUME IInv, phase \notin {"split", "map"}
  PROVE  /\ Full(input)
         /\ \A i \in 0..NMap-1 : \A j \in 0..NReduce-1 : mapFile[i][j] = MapOf(input, i, j)
<1>1. phase \in {"reduce", "merged", "done"}
  BY DEF IInv, Types
<1>2. ASSUME NEW i \in 0..NMap-1
      PROVE  /\ i + 1 \in DOMAIN Split(input)
             /\ \A j \in 0..NReduce-1 : mapFile[i][j] = MapOf(input, i, j)
  <2>1. Sent(<<"Map", i>>)
    BY <1>1, JobIs DEF IInv, Phases
  <2>2. QED
    BY <2>1 DEF IInv, MapFiles, MapDone
<1>3. Full(input)
  <2> SUFFICES ASSUME NEW m \in 1..NMap PROVE m \in DOMAIN Split(input)
    BY DEF Full
  <2>1. m - 1 \in 0..NMap-1 /\ (m - 1) + 1 = m
    BY JobsAssumption
  <2>2. QED
    BY <1>2, <2>1
<1>4. QED
  BY <1>2, <1>3

\* Lines are numbers.
LEMMA LinesAreNumbers ==
  ASSUME NEW lens \in Seq(Nat), NEW s \in Seq(1..Len(lens))
  PROVE  s \in Seq(Nat) /\ s # None
<1>1. Len(s) \in Nat /\ s \in [1..Len(s) -> Nat]
  OBVIOUS
<1>2. s \in Seq(Nat)
  BY <1>1, AsSeq
<1>3. QED
  BY <1>2, InputsAssumption

\* Merge() finds the files of a sequential run.
LEMMA MergeStep == IInv /\ Merge => IInv'
<1> SUFFICES ASSUME IInv, Merge PROVE IInv'
  OBVIOUS
<1> USE DEF IInv
<1>1. Types'
  BY DEF Merge, Types
<1>2. Holding'
  BY HeldType, HoldingFrame DEF Merge
<1>3. Phases'
  BY DEF Merge, Phases, Sent
<1>4. MapFiles' /\ ReduceFiles'
  BY FilesFrame DEF Merge, Sent
<1>5. Output'
  <2>1. Full(input) /\ input \in Seq(Nat)
    BY MapsAreDone, InputsAssumption DEF Merge, Types
  <2>2. ASSUME NEW j \in 1..NReduce PROVE Content(resFile[j - 1]) = ReduceOf(input, j - 1)
    <3>1. j - 1 \in 0..NReduce-1
      BY JobsAssumption
    <3>2. Sent(<<"Reduce", j - 1>>)
      BY <3>1, JobIs DEF Merge, AllSent, Sent
    <3>3. resFile[j - 1] = ReduceOf(input, j - 1)
      BY <3>1, <3>2 DEF ReduceFiles, ReduceDone
    <3>4. ReduceOf(input, j - 1) # None
      BY <2>1, ReduceOfIs, LinesAreNumbers
    <3>5. QED
      BY <3>3, <3>4 DEF Content
  <2>3. [j \in 1..NReduce |-> Content(resFile[j-1])] = [j \in 1..NReduce |-> ReduceOf(input, j - 1)]
    BY <2>2
  <2>4. out' = MergeOf(input)
    BY <2>3, Zenon DEF Merge, MergeOf
  <2>5. QED
    BY <2>1, <2>4 DEF Merge, Output
<1>6. QED
  BY <1>1, <1>2, <1>3, <1>4, <1>5

\* The end of RunMaster().
LEMMA CleanupRegistrationStep == IInv /\ CleanupRegistration => IInv'
<1> SUFFICES ASSUME IInv, CleanupRegistration PROVE IInv'
  OBVIOUS
<1> USE DEF IInv
<1>1. Types'
  BY DEF CleanupRegistration, Types
<1>2. Holding'
  BY HeldType, HoldingFrame DEF CleanupRegistration
<1>3. Phases'
  BY DEF CleanupRegistration, Phases, Sent
<1>4. MapFiles' /\ ReduceFiles'
  BY FilesFrame DEF CleanupRegistration, Sent
<1>5. Output'
  BY OutputFrame DEF CleanupRegistration
<1>6. QED
  BY <1>1, <1>2, <1>3, <1>4, <1>5

\* A worker calls Register().
LEMMA RegisterStep == ASSUME NEW w \in Workers PROVE IInv /\ Register(w) => IInv'
<1> SUFFICES ASSUME IInv, Register(w) PROVE IInv'
  OBVIOUS
<1> USE DEF IInv
<1>1. Types'
  BY DEF Register, Types
<1>2. Holding'
  <2>1. \A v \in Workers : v # w => worker'[v] = worker[v]
    BY DEF Register, Types
  <2>2. worker[w].pc = "start" /\ job[w] = None /\ task' = task /\ job' = job
    BY DEF Register, Holding, Served
  <2>3. \A v \in Workers : worker[v].pc \in {"serving", "gone"} => worker'[v].pc \in {"serving", "gone"}
    BY <2>1, <2>2
  <2>4. \A v \in Workers : job'[v] # None => /\ job[v] # None /\ job'[v].task = job[v].task
                                             /\ worker'[v].pc = worker[v].pc
    BY <2>1, <2>2
  <2>5. QED
    BY <2>2, <2>3, <2>4, HeldType, HoldingFrame
<1>3. Phases'
  BY PhasesFrame DEF Register, Sent
<1>4. MapFiles' /\ ReduceFiles'
  BY FilesFrame DEF Register, Sent
<1>5. Output'
  BY OutputFrame DEF Register
<1>6. QED
  BY <1>1, <1>2, <1>3, <1>4, <1>5

\* A worker is gone, and with it the job it had.
LEMMA GoneStep ==
  ASSUME IInv, NEW w \in Workers, worker[w].pc \in {"serving", "registering"},
         worker' = [worker EXCEPT ![w].pc = "gone"],
         job' = [job EXCEPT ![w] = None],
         UNCHANGED <<input, split, phase, task, mapFile, resFile, out>>
  PROVE  IInv'
<1> USE DEF IInv
<1>1. Types'
  BY DEF Types
<1>0. \A v \in Workers : job'[v] = IF v = w THEN None ELSE job[v]
  BY DEF Types
<1>2. Holding'
  <2>1. \A v \in Workers : v # w => worker'[v] = worker[v]
    BY DEF Types
  <2>2. worker'[w].pc = "gone"
    BY DEF Types
  <2>3. \A v \in Workers : worker[v].pc \in {"serving", "gone"} => worker'[v].pc \in {"serving", "gone"}
    BY <2>1, <2>2
  <2>4. \A v \in Workers : job'[v] # None => /\ job[v] # None /\ job'[v].task = job[v].task
                                             /\ worker'[v].pc = worker[v].pc
    BY <1>0, <2>1
  <2>5. QED
    BY <2>3, <2>4, HeldType, HoldingFrame
<1>3. Phases'
  BY PhasesFrame DEF Sent
<1>4. MapFiles' /\ ReduceFiles'
  <2>1. \A t \in Jobs : Sent(t)' => Sent(t)
    BY DEF Sent
  <2>2. QED
    BY <1>0, <2>1, FilesFrame
<1>5. Output'
  BY OutputFrame
<1>6. QED
  BY <1>1, <1>2, <1>3, <1>4, <1>5

\* The worker leaves its accept loop.
LEMMA ExitStep == ASSUME NEW w \in Workers PROVE IInv /\ Exit(w) => IInv'
  BY GoneStep DEF Exit

\* The worker dies.
LEMMA DieStep == ASSUME NEW w \in Workers PROVE IInv /\ Die(w) => IInv'
<1> SUFFICES ASSUME IInv, Die(w) PROVE IInv'
  OBVIOUS
<1>1. worker[w].pc \in {"serving", "registering"}
  BY DEF IInv, Types, Die
<1>2. QED
  BY <1>1, GoneStep DEF Die

\* The worker calls log.Fatal().
LEMMA FatalStep == ASSUME NEW w \in Workers PROVE IInv /\ Fatal(w) => IInv'
<1> SUFFICES ASSUME IInv, Fatal(w) PROVE IInv'
  OBVIOUS
<1>1. worker[w].pc \in {"serving", "registering"}
  BY DEF IInv, Holding, Served, Fatal
<1>2. QED
  BY <1>1, GoneStep DEF Fatal

\* A goroutine takes a worker that registers.
LEMMA TakeRegisteredStep ==
  ASSUME NEW t \in Jobs, NEW w \in Workers PROVE IInv /\ TakeRegistered(t, w) => IInv'
<1> SUFFICES ASSUME IInv, TakeRegistered(t, w) PROVE IInv'
  OBVIOUS
<1> USE DEF IInv
<1>0. /\ \A u \in Jobs : u # t => task'[u] = task[u]
      /\ task'[t].pc = "call" /\ task'[t].worker = w /\ task[t].pc = "select"
      /\ \A v \in Workers : v # w => worker'[v] = worker[v]
      /\ worker[w].pc = "registering" /\ worker'[w].pc = "serving"
      /\ job' = job
  BY DEF TakeRegistered, Types
<1>1. Types'
  BY DEF Types, TakeRegistered
<1>2. Holding'
  <2>1. ASSUME NEW u \in Jobs PROVE task[u].worker # w
    <3>1. Held(u) /\ w # None
      BY WorkersAssumption DEF Holding
    <3>2. QED
      BY <1>0, <3>1 DEF Held
  <2>2. ASSUME NEW u \in Jobs PROVE Held(u)'
    <3>1. CASE u = t
      <4>1. w # None
        BY WorkersAssumption
      <4>2. QED
        BY <1>0, <3>1, <4>1 DEF Held
    <3>2. CASE u # t
      <4>1. Held(u) /\ task'[u] = task[u] /\ task[u].worker # w
        BY <1>0, <2>1, <3>2 DEF Holding
      <4>2. task[u].worker # None => worker'[task[u].worker] = worker[task[u].worker]
        BY <1>0, <4>1, HeldType
      <4>3. QED
        BY <4>1, <4>2 DEF Held
    <3>3. QED
      BY <3>1, <3>2
  <2>3. Unshared'
    <3> SUFFICES ASSUME NEW x \in Jobs, NEW y \in Jobs,
                        task'[x].worker # None, task'[x].worker = task'[y].worker
                 PROVE  x = y
      BY DEF Unshared
    <3>1. CASE x = t
      BY <1>0, <2>1, <3>1
    <3>2. CASE x # t /\ y = t
      BY <1>0, <2>1, <3>2
    <3>3. CASE x # t /\ y # t
      BY <1>0, <3>3 DEF Holding, Unshared
    <3>4. QED
      BY <3>1, <3>2, <3>3
  <2>4. ASSUME NEW v \in Workers PROVE Served(v)'
    <3> SUFFICES ASSUME job[v] # None PROVE Served(v)'
      BY <1>0 DEF Served
    <3>1. Served(v) /\ job[v].task \in Jobs
      BY DEF Holding, Types
    <3>2. v # w /\ job[v].task # t
      BY <1>0, <3>1 DEF Served
    <3>3. QED
      BY <1>0, <3>1, <3>2 DEF Served
  <2>5. QED
    BY <2>2, <2>3, <2>4 DEF Holding
<1>3. \A u \in Jobs : /\ Sent(u)' => Sent(u)
                      /\ Sent(u) => Sent(u)'
                      /\ task[u].pc = "none" => task'[u].pc = "none"
  BY <1>0 DEF Sent
<1>4. Phases'
  BY <1>3, PhasesFrame DEF TakeRegistered
<1>5. MapFiles' /\ ReduceFiles'
  BY <1>3, FilesFrame DEF TakeRegistered
<1>6. Output'
  BY OutputFrame DEF TakeRegistered
<1>7. QED
  BY <1>1, <1>2, <1>4, <1>5, <1>6

\* A goroutine takes a worker that another offers.
LEMMA TakeReturnedStep ==
  ASSUME NEW t \in Jobs, NEW o \in Jobs PROVE IInv /\ TakeReturned(t, o) => IInv'
<1> SUFFICES ASSUME IInv, TakeReturned(t, o) PROVE IInv'
  OBVIOUS
<1> USE DEF IInv
<1>a. t # o /\ Held(o)
  BY DEF TakeReturned, Holding
<1>b. task[o].worker # None /\ task[o].worker \in Workers
  BY <1>a, HeldType DEF TakeReturned, Held
<1>0. /\ \A u \in Jobs : u # t /\ u # o => task'[u] = task[u]
      /\ task'[t].pc = "call" /\ task'[t].worker = task[o].worker /\ task[t].pc = "select"
      /\ task'[o].pc = "end" /\ task'[o].worker = None /\ task[o].pc = "offer"
      /\ worker' = worker /\ job' = job
  BY <1>a DEF TakeReturned, Types
<1>1. Types'
  BY <1>b DEF Types, TakeReturned
<1>2. Holding'
  <2>1. ASSUME NEW u \in Jobs, u # o PROVE task[u].worker # task[o].worker
    BY <1>b, <2>1 DEF Holding, Unshared
  <2>2. ASSUME NEW u \in Jobs PROVE Held(u)'
    <3>1. CASE u = t
      BY <1>0, <1>a, <1>b, <3>1 DEF Held
    <3>2. CASE u = o
      BY <1>0, <3>2 DEF Held
    <3>3. CASE u # t /\ u # o
      BY <1>0, <3>3 DEF Held, Holding
    <3>4. QED
      BY <3>1, <3>2, <3>3
  <2>3. Unshared'
    <3> SUFFICES ASSUME NEW x \in Jobs, NEW y \in Jobs,
                        task'[x].worker # None, task'[x].worker = task'[y].worker
                 PROVE  x = y
      BY DEF Unshared
    <3>1. x # o /\ y # o
      BY <1>0
    <3>2. CASE x = t
      BY <1>0, <2>1, <3>1, <3>2
    <3>3. CASE x # t /\ y = t
      BY <1>0, <2>1, <3>1, <3>3
    <3>4. CASE x # t /\ y # t
      BY <1>0, <3>1, <3>4 DEF Holding, Unshared
    <3>5. QED
      BY <3>2, <3>3, <3>4
  <2>4. ASSUME NEW v \in Workers PROVE Served(v)'
    <3> SUFFICES ASSUME job[v] # None PROVE Served(v)'
      BY <1>0 DEF Served
    <3>1. Served(v) /\ job[v].task \in Jobs
      BY DEF Holding, Types
    <3>2. job[v].task # t /\ job[v].task # o
      BY <1>0, <3>1 DEF Served
    <3>3. QED
      BY <1>0, <3>1, <3>2 DEF Served
  <2>5. QED
    BY <2>2, <2>3, <2>4 DEF Holding
<1>3. \A u \in Jobs : /\ Sent(u)' => Sent(u)
                      /\ Sent(u) => Sent(u)'
                      /\ task[u].pc = "none" => task'[u].pc = "none"
  BY <1>0 DEF Sent
<1>4. Phases'
  BY <1>3, PhasesFrame DEF TakeReturned
<1>5. MapFiles' /\ ReduceFiles'
  BY <1>3, FilesFrame DEF TakeReturned
<1>6. Output'
  BY OutputFrame DEF TakeReturned
<1>7. QED
  BY <1>1, <1>2, <1>4, <1>5, <1>6

\* The worker accepts the call of the goroutine that holds it.
LEMMA AcceptStep == ASSUME NEW t \in Jobs PROVE IInv /\ Accept(t) => IInv'
<1> SUFFICES ASSUME IInv, Accept(t) PROVE IInv'
  OBVIOUS
<1> USE DEF IInv
<1>a. Held(t) /\ task[t].pc = "call"
  BY DEF Accept, Holding
<1>b. PICK w \in Workers : w = task[t].worker
  BY <1>a, HeldType DEF Held
<1>0. /\ \A u \in Jobs : u # t => task'[u] = task[u]
      /\ task'[t].pc = "wait" /\ task'[t].worker = w
      /\ \A v \in Workers : v # w => worker'[v] = worker[v]
      /\ worker[w].pc = "serving" /\ worker'[w].pc = "serving"
      /\ \A v \in Workers : v # w => job'[v] = job[v]
      /\ job'[w].task = t /\ job'[w].file = 0 /\ job'[w].open = FALSE
  BY <1>b DEF Accept, Types
<1>1. Types'
  BY <1>b DEF Types, Accept
<1>2. Holding'
  <2>1. ASSUME NEW u \in Jobs, u # t PROVE task[u].worker # w
    BY <1>b, <2>1, WorkersAssumption DEF Holding, Unshared
  <2>2. ASSUME NEW u \in Jobs PROVE Held(u)'
    <3>1. CASE u = t
      <4>1. w # None
        BY WorkersAssumption
      <4>2. QED
        BY <1>0, <3>1, <4>1 DEF Held
    <3>2. CASE u # t
      <4>1. Held(u) /\ task'[u] = task[u] /\ task[u].worker # w
        BY <1>0, <2>1, <3>2 DEF Holding
      <4>2. task[u].worker # None => worker'[task[u].worker] = worker[task[u].worker]
        BY <1>0, <4>1, HeldType
      <4>3. QED
        BY <4>1, <4>2 DEF Held
    <3>3. QED
      BY <3>1, <3>2
  <2>3. Unshared'
    <3>1. \A u \in Jobs : task'[u].worker = task[u].worker
      BY <1>0, <1>b
    <3>2. QED
      BY <3>1 DEF Holding, Unshared
  <2>4. ASSUME NEW v \in Workers PROVE Served(v)'
    <3>1. CASE v = w
      BY <1>0, <3>1 DEF Served
    <3>2. CASE v # w
      <4> SUFFICES ASSUME job[v] # None PROVE Served(v)'
        BY <1>0, <3>2 DEF Served
      <4>1. Served(v) /\ job[v].task \in Jobs
        BY DEF Holding, Types
      <4>2. job[v].task # t
        BY <1>a, <4>1 DEF Served
      <4>3. QED
        BY <1>0, <3>2, <4>1, <4>2 DEF Served
    <3>3. QED
      BY <3>1, <3>2
  <2>5. QED
    BY <2>2, <2>3, <2>4 DEF Holding
<1>3. \A u \in Jobs : /\ Sent(u)' => Sent(u)
                      /\ Sent(u) => Sent(u)'
                      /\ task[u].pc = "none" => task'[u].pc = "none"
  BY <1>0, <1>a DEF Sent
<1>4. Phases'
  BY <1>3, PhasesFrame DEF Accept
<1>5. MapFiles' /\ ReduceFiles'
  <2>1. UNCHANGED <<input, mapFile, resFile>>
    BY DEF Accept
  <2>2. QED
    BY <1>0, <1>3, <2>1, FilesFrame
<1>6. Output'
  BY OutputFrame DEF Accept
<1>7. QED
  BY <1>1, <1>2, <1>4, <1>5, <1>6

\* The call of a goroutine fails; the worker it held has no job.
LEMMA CallFailsStep == ASSUME NEW t \in Jobs PROVE IInv /\ CallFails(t) => IInv'
<1> SUFFICES ASSUME IInv, CallFails(t) PROVE IInv'
  OBVIOUS
<1> USE DEF IInv
<1>a. /\ task[t].pc \in {"call", "wait"}
      /\ task[t].pc = "wait" => worker[task[t].worker].pc = "gone"
  BY DEF CallFails
<1>0. /\ \A u \in Jobs : u # t => task'[u] = task[u]
      /\ task'[t].pc = "select" /\ task'[t].worker = None
      /\ worker' = worker /\ job' = job
  BY DEF CallFails, Types
<1>1. Types'
  BY DEF Types, CallFails
<1>2. Holding'
  <2>1. ASSUME NEW u \in Jobs PROVE Held(u)'
    BY <1>0 DEF Held, Holding
  <2>2. Unshared'
    BY <1>0 DEF Holding, Unshared
  <2>3. ASSUME NEW v \in Workers PROVE Served(v)'
    <3> SUFFICES ASSUME job[v] # None PROVE Served(v)'
      BY <1>0 DEF Served
    <3>1. Served(v) /\ job[v].task \in Jobs
      BY DEF Holding, Types
    <3>2. job[v].task # t
      BY <1>a, <3>1 DEF Served
    <3>3. QED
      BY <1>0, <3>1, <3>2 DEF Served
  <2>4. QED
    BY <2>1, <2>2, <2>3 DEF Holding
<1>3. \A u \in Jobs : /\ Sent(u)' => Sent(u)
                      /\ Sent(u) => Sent(u)'
                      /\ task[u].pc = "none" => task'[u].pc = "none"
  BY <1>0, <1>a DEF Sent
<1>4. Phases'
  BY <1>3, PhasesFrame DEF CallFails
<1>5. MapFiles' /\ ReduceFiles'
  BY <1>3, FilesFrame DEF CallFails
<1>6. Output'
  BY OutputFrame DEF CallFails
<1>7. QED
  BY <1>1, <1>2, <1>4, <1>5, <1>6

\* The job of a worker is no other worker's.
LEMMA JobsDiffer ==
  ASSUME Types, Holding, NEW v \in Workers, NEW w \in Workers, v # w, job[v] # None, job[w] # None
  PROVE  job[v].task # job[w].task
  BY DEF Holding, Served

\* A job that has a worker is not done, and its phase has begun.
LEMMA JobIsOpen ==
  ASSUME IInv, NEW w \in Workers, job[w] # None
  PROVE  /\ job[w].task \in Jobs /\ ~Sent(job[w].task)
         /\ split = Split(input)
         /\ job[w].task \in ReduceJobs => phase \notin {"split", "map"}
<1>1. job[w].task \in Jobs /\ task[job[w].task].pc = "wait"
  BY DEF IInv, Types, Holding, Served
<1>2. job[w].task \in MapJobs \/ job[w].task \in ReduceJobs
  BY <1>1, JobIs
<1>3. phase # "split"
  BY <1>1, <1>2 DEF IInv, Phases
<1>4. QED
  BY <1>1, <1>3 DEF IInv, Phases, Sent

\* What a step of a job leaves as it is.
LEMMA DoJobFrame ==
  ASSUME IInv, NEW w \in Workers, DoJob(w)
  PROVE  /\ job' \in [Workers -> [task : Jobs, file : Nat, open : BOOLEAN] \cup {None}]
         /\ job'[w].task = job[w].task
         /\ job'[w].open = ~job[w].open
         /\ job'[w].file = IF job[w].open THEN job[w].file + 1 ELSE job[w].file
         /\ \A v \in Workers : v # w => job'[v] = job[v]
         /\ Holding' /\ Phases' /\ Output'
         /\ \A t \in Jobs : Sent(t)' <=> Sent(t)
<1> USE DEF IInv
<1>1. job[w] \in [task : Jobs, file : Nat, open : BOOLEAN]
  BY DEF DoJob, Types
<1>2. job' = [job EXCEPT ![w].open = ~job[w].open,
                         ![w].file = IF job[w].open THEN @ + 1 ELSE @]
  BY DEF DoJob, DoMap, DoReduce
<1>3. job'[w] = [task |-> job[w].task, file |-> IF job[w].open THEN job[w].file + 1 ELSE job[w].file,
                 open |-> ~job[w].open]
  BY <1>1, <1>2 DEF Types
<1>4. \A v \in Workers : v # w => job'[v] = job[v]
  BY <1>2 DEF Types
<1>5. job'[w] \in [task : Jobs, file : Nat, open : BOOLEAN]
  BY <1>1, <1>3
<1>6. job' \in [Workers -> [task : Jobs, file : Nat, open : BOOLEAN] \cup {None}]
  <2>1. DOMAIN job' = Workers /\ job' = [v \in Workers |-> job'[v]]
    BY <1>2 DEF Types
  <2>2. ASSUME NEW v \in Workers PROVE job'[v] \in [task : Jobs, file : Nat, open : BOOLEAN] \cup {None}
    BY <1>4, <1>5 DEF Types
  <2>3. QED
    BY <2>1, <2>2
<1>8. Holding'
  <2>1. job[w] # None /\ task' = task /\ worker' = worker
    BY DEF DoJob
  <2>2. \A v \in Workers : job'[v] # None => job[v] # None /\ job'[v].task = job[v].task
    BY <1>3, <1>4, <2>1
  <2>3. QED
    BY <2>1, <2>2, HeldType, HoldingFrame
<1>9. Phases' /\ Output'
  BY PhasesFrame, OutputFrame DEF DoJob, Sent
<1>10. \A t \in Jobs : Sent(t)' <=> Sent(t)
  BY DEF DoJob, Sent
<1>11. QED
  BY <1>3, <1>4, <1>6, <1>8, <1>9, <1>10

\* DoMap() empties a file, or writes it.
LEMMA DoMapStep == ASSUME NEW w \in Workers PROVE IInv /\ DoJob(w) /\ DoMap(w) => IInv'
<1> SUFFICES ASSUME IInv, DoJob(w), DoMap(w) PROVE IInv'
  OBVIOUS
<1> USE DEF IInv
<1>a. job[w].task \in MapJobs /\ job[w] # None /\ job[w].file < NReduce /\ job[w].file \in Nat
  BY DEF DoMap, DoJob, Types
<1>b. PICK i \in 0..NMap-1 : job[w].task = <<"Map", i>> /\ job[w].task[2] = i
  BY <1>a, JobIs
<1>c. PICK f \in 0..NReduce-1 : f = job[w].file
  BY <1>a, JobsAssumption
<1>d. ~Sent(<<"Map", i>>) /\ split = Split(input)
  BY <1>a, <1>b, JobIsOpen
<1>e. i + 1 \in DOMAIN Split(input) /\ input \in Seq(Nat)
  BY <1>a, <1>b, <1>d, JobIs, InputsAssumption DEF DoJob, Readable, Types
<1>f. MapOutput(i, f) = MapOf(input, i, f)
  BY <1>d DEF MapOutput, MapOf, Part, Lines
<1>g. MapOf(input, i, f) \in Seq(Nat) /\ MapOf(input, i, f) = <<>> \o MapOf(input, i, f)
  <2>1. MapOf(input, i, f) \in Seq(1..Len(input))
    BY <1>e, MapOfIs
  <2>2. MapOf(input, i, f) \in Seq(Nat)
    BY <1>e, <2>1, LinesAreNumbers
  <2>3. QED
    BY <2>2, ConcatEmptySeq
<1>h. job[w].open => mapFile[i][f] = <<>>
  BY <1>a, <1>b, <1>c DEF MapFiles, MapBegun
<1> DEFINE new == IF job[w].open THEN MapOf(input, i, f) ELSE <<>>
<1>0. /\ mapFile' = [mapFile EXCEPT ![i] = [mapFile[i] EXCEPT ![f] = new]]
      /\ resFile' = resFile
  <2>1. mapFile' = [mapFile EXCEPT ![i][f] =
          IF job[w].open THEN mapFile[i][f] \o MapOutput(i, f) ELSE <<>>]
    BY <1>b, <1>c DEF DoMap, Created
  <2>2. (IF job[w].open THEN mapFile[i][f] \o MapOutput(i, f) ELSE <<>>) = new
    BY <1>f, <1>g, <1>h
  <2>3. QED
    BY <2>1, <2>2 DEF DoMap
<1>1. new \in Seq(Nat)
  BY <1>g
<1> HIDE DEF new
<1>2. /\ \A k \in 0..NMap-1 : k # i => mapFile'[k] = mapFile[k]
      /\ \A j \in 0..NReduce-1 : j # f => mapFile'[i][j] = mapFile[i][j]
      /\ mapFile'[i][f] = new
  BY <1>0 DEF Types
<1>3. Types'
  <2>1. mapFile' \in [0..NMap-1 -> [0..NReduce-1 -> Seq(Nat) \cup {None}]]
    BY <1>0, <1>1 DEF Types
  <2>2. QED
    BY <1>0, <2>1, DoJobFrame DEF Types, DoJob
<1>4. MapFiles'
  <2>1. ASSUME NEW k \in 0..NMap-1 PROVE MapDone(k)'
    <3>1. Sent(<<"Map", k>>)' => Sent(<<"Map", k>>)
      BY JobIs, DoJobFrame
    <3>2. Sent(<<"Map", k>>) => k # i
      BY <1>d
    <3>3. MapDone(k) /\ input' = input
      BY DEF MapFiles, DoJob
    <3>4. QED
      BY <1>2, <3>1, <3>2, <3>3 DEF MapDone
  <2>2. ASSUME NEW k \in 0..NMap-1, NEW v \in Workers, v # w PROVE MapBegun(v, k)'
    <3> SUFFICES ASSUME job[v] # None, job[v].task = <<"Map", k>> PROVE MapBegun(v, k)'
      BY <2>2, DoJobFrame DEF MapBegun
    <3>1. k # i
      BY <1>a, <1>b, <2>2, JobsDiffer
    <3>2. MapBegun(v, k) /\ input' = input /\ job'[v] = job[v] /\ mapFile'[k] = mapFile[k]
      BY <1>2, <2>2, <3>1, DoJobFrame DEF MapFiles, DoJob
    <3>3. QED
      BY <3>2 DEF MapBegun
  <2>3. ASSUME NEW k \in 0..NMap-1 PROVE MapBegun(w, k)'
    <3> SUFFICES ASSUME k = i PROVE MapBegun(w, i)'
      <4>1. job'[w].task = <<"Map", k>> => k = i
        BY <1>b, DoJobFrame
      <4>2. QED
        BY <4>1 DEF MapBegun
    <3>1. MapBegun(w, i) /\ input' = input
      BY DEF MapFiles, DoJob
    <3>2. \A j \in 0..NReduce-1 : j < f => mapFile'[i][j] = MapOf(input, i, j)
      BY <1>2, <1>a, <1>b, <1>c, <3>1 DEF MapBegun
    <3>3. CASE job[w].open
      <4>1. job'[w].file = f + 1 /\ job'[w].open = FALSE
        BY <1>c, <3>3, DoJobFrame
      <4>2. mapFile'[i][f] = MapOf(input, i, f)
        BY <1>2, <3>3 DEF new
      <4>3. \A j \in 0..NReduce-1 : j < f + 1 => j < f \/ j = f
        OBVIOUS
      <4>4. f + 1 =< NReduce
        BY <1>a, <1>c, JobsAssumption
      <4>5. QED
        BY <1>e, <3>1, <3>2, <4>1, <4>2, <4>3, <4>4 DEF MapBegun
    <3>4. CASE ~job[w].open
      <4>1. job'[w].file = f /\ job'[w].open = TRUE
        BY <1>c, <3>4, DoJobFrame
      <4>2. mapFile'[i][f] = <<>>
        BY <1>2, <3>4 DEF new
      <4>3. f =< NReduce /\ f < NReduce
        BY <1>a, <1>c, JobsAssumption
      <4>4. QED
        BY <1>e, <3>1, <3>2, <4>1, <4>2, <4>3 DEF MapBegun
    <3>5. QED
      BY <3>3, <3>4
  <2>4. QED
    BY <2>1, <2>2, <2>3 DEF MapFiles
<1>5. ReduceFiles'
  <2>1. ASSUME NEW j \in 0..NReduce-1 PROVE ReduceDone(j)'
    <3>1. Sent(<<"Reduce", j>>)' => Sent(<<"Reduce", j>>)
      BY JobIs, DoJobFrame
    <3>2. ReduceDone(j) /\ input' = input
      BY DEF ReduceFiles, DoJob
    <3>3. QED
      BY <1>0, <3>1, <3>2 DEF ReduceDone
  <2>2. ASSUME NEW j \in 0..NReduce-1, NEW v \in Workers PROVE ReduceBegun(v, j)'
    <3>1. CASE v = w
      <4>1. job'[w].task # <<"Reduce", j>>
        BY <1>a, DoJobFrame, JobIs
      <4>2. QED
        BY <3>1, <4>1 DEF ReduceBegun
    <3>2. CASE v # w
      <4>1. ReduceBegun(v, j) /\ input' = input /\ job'[v] = job[v]
        BY <3>2, DoJobFrame DEF ReduceFiles, DoJob
      <4>2. QED
        BY <1>0, <4>1 DEF ReduceBegun
    <3>3. QED
      BY <3>1, <3>2
  <2>3. QED
    BY <2>1, <2>2 DEF ReduceFiles
<1>6. QED
  BY <1>3, <1>4, <1>5, DoJobFrame

\* DoReduce() empties its file, or writes it: it finds what the map jobs wrote.
LEMMA DoReduceStep == ASSUME NEW w \in Workers PROVE IInv /\ DoJob(w) /\ DoReduce(w) => IInv'
<1> SUFFICES ASSUME IInv, DoJob(w), DoReduce(w) PROVE IInv'
  OBVIOUS
<1> USE DEF IInv
<1>a. job[w].task \in ReduceJobs /\ job[w] # None /\ job[w].file = 0
  BY DEF DoReduce, DoJob
<1>b. PICK i \in 0..NReduce-1 : job[w].task = <<"Reduce", i>> /\ job[w].task[2] = i
  BY <1>a, JobIs
<1>d. ~Sent(<<"Reduce", i>>) /\ phase \notin {"split", "map"}
  BY <1>a, <1>b, JobIsOpen
<1>e. Full(input) /\ input \in Seq(Nat) /\ \A k \in 0..NMap-1 : mapFile[k][i] = MapOf(input, k, i)
  BY <1>d, MapsAreDone, InputsAssumption DEF Types
<1>f. ReduceOutput(i) = ReduceOf(input, i)
  <2>1. ASSUME NEW k \in 1..NMap PROVE Content(mapFile[k-1][i]) = MapOf(input, k - 1, i)
    <3>1. k - 1 \in 0..NMap-1 /\ (k - 1) + 1 = k
      BY JobsAssumption
    <3>2. (k - 1) + 1 \in DOMAIN Split(input)
      BY <1>e, <3>1 DEF Full
    <3>3. MapOf(input, k - 1, i) # None
      BY <1>e, <3>2, MapOfIs, LinesAreNumbers
    <3>4. QED
      BY <1>e, <3>1, <3>3 DEF Content
  <2>2. [k \in 1..NMap |-> Content(mapFile[k-1][i])] = [k \in 1..NMap |-> MapOf(input, k - 1, i)]
    BY <2>1
  <2>3. QED
    BY <2>2, Zenon DEF ReduceOutput, ReduceOf
<1>g. ReduceOf(input, i) \in Seq(Nat) /\ ReduceOf(input, i) = <<>> \o ReduceOf(input, i)
  <2>1. ReduceOf(input, i) \in Seq(1..Len(input))
    BY <1>e, ReduceOfIs
  <2>2. ReduceOf(input, i) \in Seq(Nat)
    BY <1>e, <2>1, LinesAreNumbers
  <2>3. QED
    BY <2>2, ConcatEmptySeq
<1>h. job[w].open => resFile[i] = <<>>
  BY <1>a, <1>b DEF ReduceFiles, ReduceBegun
<1> DEFINE new == IF job[w].open THEN ReduceOf(input, i) ELSE <<>>
<1>0. /\ resFile' = [resFile EXCEPT ![i] = new]
      /\ mapFile' = mapFile
  <2>1. resFile' = [resFile EXCEPT ![i] =
          IF job[w].open THEN resFile[i] \o ReduceOutput(i) ELSE <<>>]
    BY <1>b DEF DoReduce, Created
  <2>2. (IF job[w].open THEN resFile[i] \o ReduceOutput(i) ELSE <<>>) = new
    BY <1>f, <1>g, <1>h
  <2>3. QED
    BY <2>1, <2>2 DEF DoReduce
<1>1. new \in Seq(Nat)
  BY <1>g
<1> HIDE DEF new
<1>2. /\ \A k \in 0..NReduce-1 : k # i => resFile'[k] = resFile[k]
      /\ resFile'[i] = new
  BY <1>0 DEF Types
<1>3. Types'
  <2>1. resFile' \in [0..NReduce-1 -> Seq(Nat) \cup {None}]
    BY <1>0, <1>1 DEF Types
  <2>2. QED
    BY <1>0, <2>1, DoJobFrame DEF Types, DoJob
<1>4. ReduceFiles'
  <2>1. ASSUME NEW k \in 0..NReduce-1 PROVE ReduceDone(k)'
    <3>1. Sent(<<"Reduce", k>>)' => Sent(<<"Reduce", k>>)
      BY JobIs, DoJobFrame
    <3>2. Sent(<<"Reduce", k>>) => k # i
      BY <1>d
    <3>3. ReduceDone(k) /\ input' = input
      BY DEF ReduceFiles, DoJob
    <3>4. QED
      BY <1>2, <3>1, <3>2, <3>3 DEF ReduceDone
  <2>2. ASSUME NEW k \in 0..NReduce-1, NEW v \in Workers, v # w PROVE ReduceBegun(v, k)'
    <3> SUFFICES ASSUME job[v] # None, job[v].task = <<"Reduce", k>> PROVE ReduceBegun(v, k)'
      BY <2>2, DoJobFrame DEF ReduceBegun
    <3>1. k # i
      BY <1>a, <1>b, <2>2, JobsDiffer
    <3>2. ReduceBegun(v, k) /\ input' = input /\ job'[v] = job[v] /\ resFile'[k] = resFile[k]
      BY <1>2, <2>2, <3>1, DoJobFrame DEF ReduceFiles, DoJob
    <3>3. QED
      BY <3>2 DEF ReduceBegun
  <2>3. ASSUME NEW k \in 0..NReduce-1 PROVE ReduceBegun(w, k)'
    <3> SUFFICES ASSUME k = i PROVE ReduceBegun(w, i)'
      <4>1. job'[w].task = <<"Reduce", k>> => k = i
        BY <1>b, DoJobFrame
      <4>2. QED
        BY <4>1 DEF ReduceBegun
    <3>1. input' = input
      BY DEF DoJob
    <3>2. CASE job[w].open
      <4>1. job'[w].open = FALSE /\ resFile'[i] = ReduceOf(input, i)
        BY <1>2, <3>2, DoJobFrame DEF new
      <4>2. QED
        BY <3>1, <4>1 DEF ReduceBegun
    <3>3. CASE ~job[w].open
      <4>1. job'[w].file = 0 /\ resFile'[i] = <<>>
        BY <1>2, <1>a, <3>3, DoJobFrame DEF new
      <4>2. QED
        BY <3>1, <4>1 DEF ReduceBegun
    <3>4. QED
      BY <3>2, <3>3
  <2>4. QED
    BY <2>1, <2>2, <2>3 DEF ReduceFiles
<1>5. MapFiles'
  <2>1. ASSUME NEW k \in 0..NMap-1 PROVE MapDone(k)'
    <3>1. Sent(<<"Map", k>>)' => Sent(<<"Map", k>>)
      BY JobIs, DoJobFrame
    <3>2. MapDone(k) /\ input' = input
      BY DEF MapFiles, DoJob
    <3>3. QED
      BY <1>0, <3>1, <3>2 DEF MapDone
  <2>2. ASSUME NEW k \in 0..NMap-1, NEW v \in Workers PROVE MapBegun(v, k)'
    <3>1. CASE v = w
      <4>1. job'[w].task # <<"Map", k>>
        BY <1>a, DoJobFrame, JobIs
      <4>2. QED
        BY <3>1, <4>1 DEF MapBegun
    <3>2. CASE v # w
      <4>1. MapBegun(v, k) /\ input' = input /\ job'[v] = job[v]
        BY <3>2, DoJobFrame DEF MapFiles, DoJob
      <4>2. QED
        BY <1>0, <4>1 DEF MapBegun
    <3>3. QED
      BY <3>1, <3>2
  <2>3. QED
    BY <2>1, <2>2 DEF MapFiles
<1>6. QED
  BY <1>3, <1>4, <1>5, DoJobFrame

\* The worker replies when it has written every file of its job.
LEMMA ReplyStep == ASSUME NEW w \in Workers PROVE IInv /\ Reply(w) => IInv'
<1> SUFFICES ASSUME IInv, Reply(w) PROVE IInv'
  OBVIOUS
<1> USE DEF IInv
<1>a. job[w] # None /\ job[w].file = Files(job[w].task) /\ Served(w)
  BY DEF Reply, Holding
<1>b. PICK t \in Jobs : t = job[w].task
  BY <1>a DEF Types
<1>0. /\ \A u \in Jobs : u # t => task'[u] = task[u]
      /\ task[t].pc = "wait" /\ task'[t].pc = "offer" /\ task[t].worker = w /\ task'[t].worker = w
      /\ worker' = worker /\ worker[w].pc = "serving"
      /\ job'[w] = None
      /\ \A v \in Workers : v # w => job'[v] = job[v]
      /\ UNCHANGED <<input, mapFile, resFile>>
  BY <1>a, <1>b DEF Reply, Served, Types
<1>1. Types'
  BY <1>b DEF Types, Reply
<1>2. Holding'
  <2>1. ASSUME NEW u \in Jobs PROVE Held(u)'
    BY <1>0, WorkersAssumption DEF Held, Holding
  <2>2. Unshared'
    <3>1. \A u \in Jobs : task'[u].worker = task[u].worker
      BY <1>0
    <3>2. QED
      BY <3>1 DEF Holding, Unshared
  <2>3. ASSUME NEW v \in Workers PROVE Served(v)'
    <3>1. CASE v = w
      BY <1>0, <3>1 DEF Served
    <3>2. CASE v # w
      <4> SUFFICES ASSUME job[v] # None PROVE Served(v)'
        BY <1>0, <3>2 DEF Served
      <4>1. Served(v) /\ job[v].task \in Jobs /\ job[v].task # t
        BY <1>a, <1>b, <3>2, JobsDiffer DEF Holding, Types
      <4>2. QED
        BY <1>0, <3>2, <4>1 DEF Served
    <3>3. QED
      BY <3>1, <3>2
  <2>4. QED
    BY <2>1, <2>2, <2>3 DEF Holding
<1>3. Phases'
  <2>1. \A u \in Jobs : (Sent(u) => Sent(u)') /\ (task[u].pc = "none" => task'[u].pc = "none")
    BY <1>0 DEF Sent
  <2>2. QED
    BY <2>1, PhasesFrame DEF Reply
<1>4. \A u \in Jobs : Sent(u)' => Sent(u) \/ u = t
  BY <1>0 DEF Sent
<1>5. MapFiles'
  <2>1. ASSUME NEW i \in 0..NMap-1 PROVE MapDone(i)'
    <3>0. MapDone(i) /\ MapBegun(w, i) /\ <<"Map", i>> \in Jobs
      BY JobIs DEF MapFiles
    <3>1. CASE t = <<"Map", i>>
      <4>1. job[w].file = NReduce /\ NReduce > 0
        BY <1>a, <1>b, <3>1, JobsAssumption DEF Files
      <4>2. /\ i + 1 \in DOMAIN Split(input)
            /\ \A j \in 0..NReduce-1 : mapFile[i][j] = MapOf(input, i, j)
        <5>1. \A j \in 0..NReduce-1 : j < NReduce
          BY JobsAssumption
        <5>2. QED
          BY <1>a, <1>b, <3>0, <3>1, <4>1, <5>1 DEF MapBegun
      <4>3. QED
        BY <1>0, <4>2 DEF MapDone
    <3>2. CASE t # <<"Map", i>>
      <4>1. Sent(<<"Map", i>>)' => Sent(<<"Map", i>>)
        BY <1>4, <3>0, <3>2
      <4>2. QED
        BY <1>0, <3>0, <4>1 DEF MapDone
    <3>3. QED
      BY <3>1, <3>2
  <2>2. ASSUME NEW i \in 0..NMap-1, NEW v \in Workers PROVE MapBegun(v, i)'
    <3>1. CASE v = w
      BY <1>0, <3>1 DEF MapBegun
    <3>2. CASE v # w
      BY <1>0, <3>2 DEF MapFiles, MapBegun
    <3>3. QED
      BY <3>1, <3>2
  <2>3. QED
    BY <2>1, <2>2 DEF MapFiles
<1>6. ReduceFiles'
  <2>1. ASSUME NEW j \in 0..NReduce-1 PROVE ReduceDone(j)'
    <3>0. ReduceDone(j) /\ ReduceBegun(w, j) /\ <<"Reduce", j>> \in Jobs
      BY JobIs DEF ReduceFiles
    <3>1. CASE t = <<"Reduce", j>>
      <4>1. job[w].file = 1
        BY <1>a, <1>b, <3>1 DEF Files
      <4>2. resFile[j] = ReduceOf(input, j)
        BY <1>a, <1>b, <3>0, <3>1, <4>1 DEF ReduceBegun
      <4>3. QED
        BY <1>0, <4>2 DEF ReduceDone
    <3>2. CASE t # <<"Reduce", j>>
      <4>1. Sent(<<"Reduce", j>>)' => Sent(<<"Reduce", j>>)
        BY <1>4, <3>0, <3>2
      <4>2. QED
        BY <1>0, <3>0, <4>1 DEF ReduceDone
    <3>3. QED
      BY <3>1, <3>2
  <2>2. ASSUME NEW j \in 0..NReduce-1, NEW v \in Workers PROVE ReduceBegun(v, j)'
    <3>1. CASE v = w
      BY <1>0, <3>1 DEF ReduceBegun
    <3>2. CASE v # w
      BY <1>0, <3>2 DEF ReduceFiles, ReduceBegun
    <3>3. QED
      BY <3>1, <3>2
  <2>3. QED
    BY <2>1, <2>2 DEF ReduceFiles
<1>7. Output'
  BY OutputFrame DEF Reply
<1>8. QED
  BY <1>1, <1>2, <1>3, <1>5, <1>6, <1>7

\* Every step of the master, of a goroutine or of a worker keeps the invariant.
LEMMA NextInv == IInv /\ [Next]_vars => IInv'
<1> SUFFICES ASSUME IInv, [Next]_vars PROVE IInv'
  OBVIOUS
<1>1. CASE Master
  BY <1>1, RunSplitStep, RunReduceStep, MergeStep, CleanupRegistrationStep DEF Master
<1>2. ASSUME NEW t \in Jobs, Goroutine(t) PROVE IInv'
  BY <1>2, TakeRegisteredStep, TakeReturnedStep, AcceptStep, CallFailsStep DEF Goroutine
<1>3. ASSUME NEW w \in Workers, DoJob(w) PROVE IInv'
  <2>1. DoMap(w) \/ DoReduce(w)
    BY <1>3 DEF DoJob
  <2>2. QED
    BY <1>3, <2>1, DoMapStep, DoReduceStep
<1>4. ASSUME NEW w \in Workers, Process(w) \/ Die(w) PROVE IInv'
  BY <1>3, <1>4, RegisterStep, ExitStep, FatalStep, ReplyStep, DieStep DEF Process
<1>5. CASE UNCHANGED vars
  <2>0. /\ input' = input /\ split' = split /\ phase' = phase /\ task' = task /\ worker' = worker
        /\ job' = job /\ mapFile' = mapFile /\ resFile' = resFile /\ out' = out
    BY <1>5 DEF vars
  <2>1. Types'
    BY <2>0 DEF IInv, Types
  <2>2. Holding'
    BY <2>0, HeldType, HoldingFrame DEF IInv
  <2>3. \A t \in Jobs : Sent(t)' <=> Sent(t)
    BY <2>0 DEF Sent
  <2>4. Phases' /\ MapFiles' /\ ReduceFiles' /\ Output'
    BY <2>0, <2>3, PhasesFrame, FilesFrame, OutputFrame DEF IInv
  <2>5. QED
    BY <2>1, <2>2, <2>4 DEF IInv
<1>6. QED
  BY <1>1, <1>2, <1>4, <1>5 DEF Next

\* The invariant holds in every state RunMaster() and the workers reach.
LEMMA Invariant == Spec => []IInv
  BY InitInv, NextInv, PTL DEF Spec

-----------------------------------------------------------------------------
(* The properties *)

\* A set in which any two are equal has one element at most.
LEMMA AtMostOne ==
  ASSUME NEW S, \A x, y \in S : x = y
  PROVE  Cardinality(S) =< 1
<1>1. CASE S = {}
  BY <1>1, FS_EmptySet
<1>2. CASE S # {}
  <2>1. PICK x : S = {x}
    BY <1>2
  <2>2. QED
    BY <2>1, FS_Singleton
<1>3. QED
  BY <1>1, <1>2

\* The invariant says that a worker has one job.
LEMMA OneJob == IInv => WorkerHasOneJob
<1> SUFFICES ASSUME IInv, NEW w \in Workers
             PROVE  /\ Cardinality({t \in Jobs : task[t].worker = w}) =< 1
                    /\ worker[w].pc \in {"start", "registering"} =>
                         {t \in Jobs : task[t].worker = w} = {}
                    /\ job[w] # None => task[job[w].task] = [pc |-> "wait", worker |-> w]
  BY DEF WorkerHasOneJob
<1> USE DEF IInv
<1> DEFINE H == {t \in Jobs : task[t].worker = w}
<1>1. Cardinality(H) =< 1
  <2>1. \A x, y \in H : x = y
    BY WorkersAssumption DEF Holding, Unshared
  <2> HIDE DEF H
  <2>2. QED
    BY <2>1, AtMostOne
<1>2. worker[w].pc \in {"start", "registering"} => H = {}
  <2> SUFFICES ASSUME NEW t \in Jobs, task[t].worker = w PROVE worker[w].pc \in {"serving", "gone"}
    OBVIOUS
  <2>1. Held(t) /\ w # None
    BY WorkersAssumption DEF Holding
  <2>2. QED
    BY <2>1 DEF Held
<1>3. job[w] # None => task[job[w].task] = [pc |-> "wait", worker |-> w]
  <2> SUFFICES ASSUME job[w] # None PROVE task[job[w].task] = [pc |-> "wait", worker |-> w]
    OBVIOUS
  <2>1. job[w].task \in Jobs /\ Served(w)
    BY DEF Types, Holding
  <2>2. task[job[w].task] = [pc |-> task[job[w].task].pc, worker |-> task[job[w].task].worker]
    BY <2>1, HeldType
  <2>3. QED
    BY <2>1, <2>2 DEF Served
<1>4. QED
  BY <1>1, <1>2, <1>3

\* A worker is with one goroutine of RunMaster() at most, with none before it
\* has registered, and the job it executes is the one that goroutine waits
\* for: for any number of jobs and workers, with workers that leave or die.
THEOREM WorkerHasOneJobHolds == Spec => []WorkerHasOneJob
  BY Invariant, OneJob, PTL

\* What Merge() writes has every line of the input once, for any input and any
\* number of jobs and workers, however often jobs fail and are begun again.
THEOREM OutputIsSequentialHolds == Spec => []OutputIsSequential
<1>1. IInv => OutputIsSequential
  <2> SUFFICES ASSUME IInv, out # None
               PROVE  Len(out) = Len(input) /\ ToSet(out) = Lines
    BY DEF OutputIsSequential
  <2>1. Full(input) /\ out = MergeOf(input) /\ input \in Seq(Nat)
    BY InputsAssumption DEF IInv, Output, Types
  <2>2. QED
    BY <2>1, MergeOfIs DEF Lines
<1>2. QED
  BY <1>1, Invariant, PTL
=============================================================================
