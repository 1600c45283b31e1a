---------------------------- MODULE LibraryProof ----------------------------
(* Proofs about InFlightQueue, Guid and TimerLoop, for any messages with any *)
(* times, any capacity, any widths of the fields of a number, and any timers.*)
(*                                                                           *)
(* The loops of up() and down(), of a shift and of an OR are recursive       *)
(* functions over the turns.  What they compute is shown by induction over   *)
(* the turns, with the least-number principle in place of an induction rule; *)
(* that the queue is a heap and that the numbers increase are invariants.    *)
EXTENDS InFlightQueue, Guid, TimerLoop, FiniteSetTheorems, SequenceTheorems,
        NaturalsInduction, WellFoundedInduction, TLAPS

-----------------------------------------------------------------------------
(* Induction and recursion over numbers *)

Less == {p \in Nat \X Nat : p[1] < p[2]}

\* The order of the natural numbers is well founded.
LEMMA LessWellFounded == IsWellFoundedOn(Less, Nat)
  BY NatLessThanWellFounded, Zenon DEF Less, OpToRel

\* A set of natural numbers has a least one.
LEMMA LeastNumber ==
  ASSUME NEW T \in SUBSET Nat, T # {}
  PROVE  \E x \in T : \A y \in T : x =< y
<1>1. ASSUME NEW y \in Nat, NEW x \in Nat, y < x PROVE <<y, x>> \in Less
  <2>1. <<y, x>> \in Nat \X Nat /\ <<y, x>>[1] = y /\ <<y, x>>[2] = x
    OBVIOUS
  <2>2. QED
    BY <1>1, <2>1 DEF Less
<1>2. PICK x \in T : \A y \in T : ~(<<y, x>> \in Less)
  BY LessWellFounded, WFMin
<1>3. \A y \in T : ~(y < x)
  BY <1>1, <1>2
<1>4. QED
  BY <1>3

\* Induction up to a number: a set with 0 and, with every number, the next.
LEMMA UpTo ==
  ASSUME NEW n \in Nat, NEW S, 0 \in S, \A k \in 1..n : k - 1 \in S => k \in S
  PROVE  0..n \subseteq S
<1> SUFFICES ASSUME (0..n) \ S # {} PROVE FALSE
  OBVIOUS
<1> DEFINE T == (0..n) \ S
<1>1. T \in SUBSET Nat /\ T # {}
  OBVIOUS
<1>2. PICK x \in T : \A y \in T : x =< y
  BY <1>1, LeastNumber, Zenon
<1>3. x \in 0..n /\ x \notin S /\ x # 0
  BY <1>2
<1>4. x \in 1..n /\ x - 1 \in 0..n /\ ~(x =< x - 1)
  BY <1>3
<1>5. x - 1 \in S
  BY <1>2, <1>4
<1>6. QED
  BY <1>3, <1>4, <1>5

Definable(n, V, v0, G) ==
  \E f \in [0..n -> V] : f[0] = v0 /\ \A k \in 1..n : f[k] = G[k][f[k - 1]]

\* A function can be defined by recursion: G[k] is what one turn of a loop,
\* the k-th, makes of the value before it.
LEMMA Recursion ==
  ASSUME NEW n \in Nat, NEW V, NEW v0 \in V, NEW G \in [1..n -> [V -> V]]
  PROVE  Definable(n, V, v0, G)
<1> DEFINE Good(m, f) == f \in [0..m -> V] /\ f[0] = v0 /\ \A k \in 1..m : f[k] = G[k][f[k - 1]]
           S == {m \in 0..n : \E f : Good(m, f)}
<1>1. 0 \in S
  <2> DEFINE f == [k \in 0..0 |-> v0]
  <2>1. f \in [0..0 -> V] /\ f[0] = v0 /\ 1..0 = {}
    OBVIOUS
  <2>2. Good(0, f) /\ 0 \in 0..n
    BY <2>1
  <2> HIDE DEF f, Good
  <2>3. QED
    BY <2>2
<1>2. ASSUME NEW k \in 1..n, k - 1 \in S PROVE k \in S
  <2>1. PICK f : Good(k - 1, f)
    BY <1>2
  <2> DEFINE g == [i \in 0..k |-> IF i = k THEN G[k][f[k - 1]] ELSE f[i]]
  <2>2. f[k - 1] \in V /\ G[k] \in [V -> V] /\ G[k][f[k - 1]] \in V
    BY <2>1
  <2>3. g \in [0..k -> V] /\ g[k] = G[k][f[k - 1]] /\ \A i \in 0..(k - 1) : g[i] = f[i]
    BY <2>1, <2>2
  <2> HIDE DEF g
  <2>4. g[0] = v0
    BY <2>1, <2>3
  <2>5. ASSUME NEW i \in 1..k PROVE g[i] = G[i][g[i - 1]]
    <3>1. i - 1 \in 0..(k - 1) /\ (i # k => i \in 1..(k - 1) /\ i \in 0..(k - 1))
      OBVIOUS
    <3>2. CASE i = k
      BY <2>3, <3>1, <3>2
    <3>3. CASE i # k
      BY <2>1, <2>3, <3>1, <3>3
    <3>4. QED
      BY <3>2, <3>3
  <2>6. Good(k, g) /\ k \in 0..n
    BY <2>3, <2>4, <2>5
  <2> HIDE DEF Good
  <2>7. QED
    BY <2>6
<1>3. 0..n \subseteq S
  <2> HIDE DEF S
  <2>1. QED
    BY <1>1, <1>2, UpTo
<1>4. n \in S
  BY <1>3
<1>5. QED
  BY <1>4 DEF Definable

-----------------------------------------------------------------------------
(* The heap of in_flight_pqueue.go: the order of times alone *)

\* parent() in the tree that the slice is: a place has two below it.
LEMMA Parents ==
  ASSUME NEW c \in Nat \ {0}
  PROVE  /\ parent(c) = (c - 1) \div 2
         /\ parent(c) \in Nat /\ parent(c) < c
         /\ \A i \in Nat : parent(c) = i <=> (c = 2 * i + 1 \/ c = 2 * i + 2)
  BY DEF parent

\* The same, for a place in a slice of m messages.
LEMMA ParentIn ==
  ASSUME NEW m \in Nat, NEW c \in 1..(m - 1)
  PROVE  c \in 0..(m - 1) /\ c \in Nat \ {0} /\ parent(c) \in 0..(m - 1) /\ parent(c) < c
<1>1. c \in Nat \ {0} /\ c \in 0..(m - 1)
  OBVIOUS
<1>2. parent(c) \in Nat /\ parent(c) < c
  BY <1>1, Parents
<1>3. QED
  BY <1>1, <1>2

\* No time is before that of its parent.
Sorted(p, m) == \A c \in 1..(m - 1) : p[parent(c)] =< p[c]

\* The first time is the earliest of all.
LEMMA SortedFirst ==
  ASSUME NEW m \in Nat, NEW p \in [0..(m - 1) -> Int], Sorted(p, m)
  PROVE  \A k \in 0..(m - 1) : p[0] =< p[k]
<1> DEFINE T == {k \in 0..(m - 1) : ~(p[0] =< p[k])}
<1> SUFFICES ASSUME T # {} PROVE FALSE
  OBVIOUS
<1>1. T \in SUBSET Nat
  OBVIOUS
<1>2. PICK k \in T : \A l \in T : k =< l
  BY <1>1, LeastNumber, Zenon
<1>3. k \in 0..(m - 1) /\ ~(p[0] =< p[k]) /\ p[0] \in Int /\ p[k] \in Int
  BY <1>2
<1>4. k # 0 /\ k \in 1..(m - 1)
  BY <1>3
<1>5. parent(k) \in 0..(m - 1) /\ parent(k) < k
  BY <1>4, ParentIn
<1>6. p[parent(k)] =< p[k] /\ p[parent(k)] \in Int
  BY <1>4, <1>5 DEF Sorted
<1>7. parent(k) \notin T
  BY <1>2, <1>3, <1>5
<1>8. QED
  BY <1>3, <1>5, <1>6, <1>7

\* What up() finds: only the time at j may be before its parent, and those
\* below j would be in order without it.
SortedBut(p, m, j) ==
  \A c \in 1..(m - 1) :
    /\ c # j => p[parent(c)] =< p[c]
    /\ parent(c) = j /\ j # 0 => p[parent(j)] =< p[c]

\* What down() finds after some turns: only the times below i may be before
\* that at i, and, as long as i is where it began, the time at i before its
\* parent.
SortedAbove(p, m, i, first) ==
  \A c \in 1..(m - 1) :
    /\ parent(c) # i /\ ~(c = i /\ i = first) => p[parent(c)] =< p[c]
    /\ parent(c) = i /\ i # 0 => p[parent(i)] =< p[c]

Exchanged(p, i, j) == [p EXCEPT ![i] = p[j], ![j] = p[i]]

\* A turn of up().
LEMMA UpSorts ==
  ASSUME NEW m \in Nat, NEW p \in [0..(m - 1) -> Int], NEW j \in 1..(m - 1),
         SortedBut(p, m, j), p[j] < p[parent(j)]
  PROVE  SortedBut(Exchanged(p, parent(j), j), m, parent(j))
<1>1. PICK i \in 0..(m - 1) : i = parent(j) /\ i < j
  BY ParentIn
<1> DEFINE r == Exchanged(p, i, j)
<1>2. /\ r[i] = p[j] /\ r[j] = p[i] /\ i # j
      /\ \A c \in 0..(m - 1) : c # i /\ c # j => r[c] = p[c]
      /\ \A c \in 0..(m - 1) : p[c] \in Int
  BY <1>1 DEF Exchanged
<1> HIDE DEF r
<1>3. ASSUME NEW c \in 1..(m - 1), c # i PROVE r[parent(c)] =< r[c]
  <2>1. c \in 0..(m - 1) /\ parent(c) \in 0..(m - 1) /\ parent(c) < c
    BY ParentIn
  <2>2. CASE c = j
    BY <1>1, <1>2, <2>2
  <2>3. CASE c # j /\ parent(c) = i
    <3>1. p[i] =< p[c] /\ r[c] = p[c] /\ r[i] = p[j] /\ p[j] < p[i]
      BY <1>1, <1>2, <1>3, <2>1, <2>3 DEF SortedBut
    <3>2. QED
      BY <1>1, <1>2, <2>1, <2>3, <3>1
  <2>4. CASE c # j /\ parent(c) = j
    <3>1. p[i] =< p[c] /\ r[c] = p[c] /\ r[j] = p[i]
      BY <1>1, <1>2, <1>3, <2>1, <2>4 DEF SortedBut
    <3>2. QED
      BY <1>1, <1>2, <2>1, <2>4, <3>1
  <2>5. CASE c # j /\ parent(c) # i /\ parent(c) # j
    BY <1>2, <1>3, <2>1, <2>5 DEF SortedBut
  <2>6. QED
    BY <2>2, <2>3, <2>4, <2>5
<1>4. ASSUME NEW c \in 1..(m - 1), parent(c) = i, i # 0 PROVE r[parent(i)] =< r[c]
  <2>1. i \in 1..(m - 1) /\ parent(i) \in 0..(m - 1) /\ parent(i) < i /\ c \in 0..(m - 1) /\ c > i
    BY <1>1, <1>4, ParentIn
  <2>2. r[parent(i)] = p[parent(i)] /\ p[parent(i)] =< p[i] /\ p[parent(i)] \in Int /\ p[i] \in Int
    BY <1>1, <1>2, <2>1 DEF SortedBut
  <2>3. CASE c = j
    BY <1>2, <2>2, <2>3
  <2>4. CASE c # j
    <3>1. p[i] =< p[c] /\ r[c] = p[c] /\ p[c] \in Int
      BY <1>2, <1>4, <2>1, <2>4 DEF SortedBut
    <3>2. QED
      BY <2>2, <3>1
  <2>5. QED
    BY <2>3, <2>4
<1>5. SortedBut(r, m, i)
  BY <1>3, <1>4 DEF SortedBut
<1>6. QED
  BY <1>1, <1>5 DEF r

\* Where up() stops, all is in order.
LEMMA UpEnds ==
  ASSUME NEW m \in Nat, NEW p \in [0..(m - 1) -> Int], NEW j \in 0..(m - 1),
         SortedBut(p, m, j), j = 0 \/ p[j] >= p[parent(j)]
  PROVE  Sorted(p, m)
<1> SUFFICES ASSUME NEW c \in 1..(m - 1) PROVE p[parent(c)] =< p[c]
  BY DEF Sorted
<1>1. parent(c) \in 0..(m - 1) /\ c \in 0..(m - 1) /\ p[parent(c)] \in Int /\ p[c] \in Int
  BY ParentIn
<1>2. QED
  BY <1>1 DEF SortedBut

\* A turn of down(): the earlier one of the two below i changes places with it.
LEMMA DownSorts ==
  ASSUME NEW m \in Nat, NEW p \in [0..(m - 1) -> Int], NEW i \in 0..(m - 1), NEW first \in 0..i,
         SortedAbove(p, m, i, first),
         NEW j \in 1..(m - 1), parent(j) = i, p[j] < p[i],
         \A c \in 1..(m - 1) : parent(c) = i => p[j] =< p[c]
  PROVE  SortedAbove(Exchanged(p, i, j), m, j, first)
<1> DEFINE r == Exchanged(p, i, j)
<1>1. i < j /\ j \in 0..(m - 1) /\ j # first
  BY ParentIn
<1>2. /\ r[i] = p[j] /\ r[j] = p[i]
      /\ \A c \in 0..(m - 1) : c # i /\ c # j => r[c] = p[c]
      /\ \A c \in 0..(m - 1) : p[c] \in Int
  BY <1>1 DEF Exchanged
<1> HIDE DEF r
<1>3. ASSUME NEW c \in 1..(m - 1), parent(c) # j PROVE r[parent(c)] =< r[c]
  <2>1. c \in 0..(m - 1) /\ parent(c) \in 0..(m - 1) /\ parent(c) < c
    BY ParentIn
  <2>2. CASE c = j
    BY <1>1, <1>2, <2>2
  <2>3. CASE c # j /\ parent(c) = i
    <3>1. p[j] =< p[c] /\ r[c] = p[c] /\ r[i] = p[j]
      BY <1>2, <2>1, <2>3
    <3>2. QED
      BY <2>3, <3>1
  <2>4. CASE c = i
    <3>1. p[parent(i)] =< p[j] /\ r[parent(i)] = p[parent(i)] /\ r[i] = p[j]
      BY <1>1, <1>2, <1>3, <2>1, <2>4 DEF SortedAbove
    <3>2. QED
      BY <2>4, <3>1
  <2>5. CASE c # i /\ c # j /\ parent(c) # i
    BY <1>2, <1>3, <2>1, <2>5 DEF SortedAbove
  <2>6. QED
    BY <2>2, <2>3, <2>4, <2>5
<1>4. ASSUME NEW c \in 1..(m - 1), parent(c) = j PROVE r[parent(j)] =< r[c]
  <2>1. c \in 0..(m - 1) /\ c > j
    BY <1>4, ParentIn
  <2>2. p[j] =< p[c] /\ r[c] = p[c] /\ r[i] = p[j]
    <3>1. c # i /\ c # j /\ parent(c) # i
      BY <1>1, <1>4, <2>1
    <3>2. p[parent(c)] =< p[c]
      BY <3>1 DEF SortedAbove
    <3>3. QED
      BY <1>2, <1>4, <2>1, <3>1, <3>2
  <2>3. QED
    BY <2>2
<1>5. SortedAbove(r, m, j, first)
  BY <1>3, <1>4 DEF SortedAbove
<1>6. QED
  BY <1>5 DEF r

\* Where down() stops, all is in order but for the time where it began.
LEMMA DownEnds ==
  ASSUME NEW m \in Nat, NEW p \in [0..(m - 1) -> Int], NEW i \in 0..(m - 1), NEW first \in 0..i,
         SortedAbove(p, m, i, first),
         \A c \in 1..(m - 1) : parent(c) = i => p[i] =< p[c]
  PROVE  SortedBut(p, m, first)
<1> USE DEF SortedAbove
<1>1. ASSUME NEW c \in 1..(m - 1), c # first PROVE p[parent(c)] =< p[c]
  BY <1>1
<1>2. ASSUME NEW c \in 1..(m - 1), parent(c) = first, first # 0 PROVE p[parent(first)] =< p[c]
  <2>1. CASE i = first
    BY <1>2, <2>1
  <2>2. CASE i # first
    <3>1. /\ first \in 1..(m - 1) /\ first \in 0..(m - 1) /\ c \in 0..(m - 1) /\ c > first
          /\ parent(first) \in 0..(m - 1) /\ parent(first) < first
      BY <1>2, ParentIn
    <3>2. p[parent(first)] =< p[first] /\ p[first] =< p[c]
      BY <1>1, <1>2, <2>2, <3>1
    <3>3. p[parent(first)] \in Int /\ p[first] \in Int /\ p[c] \in Int
      BY <3>1
    <3>4. QED
      BY <3>2, <3>3
  <2>3. QED
    BY <2>1, <2>2
<1>3. QED
  BY <1>1, <1>2 DEF SortedBut

-----------------------------------------------------------------------------
(* The heap: what the loops of up() and down() do *)

QueuesOf(n) == [slice : [1..n -> Messages], cap : Nat, index : [Messages -> Int]]

\* A queue of n messages, those of A, each of which knows its place.
Knowing(h, n, A) ==
  /\ h \in QueuesOf(n)
  /\ \A i \in 0..(n - 1) : h.index[At(h, i)] = i
  /\ \A x \in Messages : x \in A <=> \E i \in 0..(n - 1) : At(h, i) = x

Times(h, m) == [i \in 0..(m - 1) |-> pri(At(h, i))]

\* The messages from m on are the same.
SameFrom(h, g, m, n) == \A i \in m..(n - 1) : At(h, i) = At(g, i)

\* A message in the slice, and its time.
LEMMA InSlice ==
  ASSUME NEW n \in Nat, NEW h \in QueuesOf(n), NEW i \in 0..(n - 1)
  PROVE  At(h, i) \in Messages /\ pri(At(h, i)) \in Int /\ i + 1 \in 1..n
<1>1. i + 1 \in 1..n
  OBVIOUS
<1>2. At(h, i) \in Messages
  BY <1>1 DEF QueuesOf, At
<1>3. QED
  BY <1>1, <1>2, QueueAssumption DEF pri

TimesAre(h, m, n) ==
  /\ Times(h, m) \in [0..(m - 1) -> Int]
  /\ \A i \in 0..(m - 1) : i \in 0..(n - 1) /\ Times(h, m)[i] = pri(At(h, i))

\* The times of the first messages.
LEMMA TimesIn ==
  ASSUME NEW n \in Nat, NEW h \in QueuesOf(n), NEW m \in 0..n
  PROVE  TimesAre(h, m, n)
<1>1. \A i \in 0..(m - 1) : i \in 0..(n - 1)
  OBVIOUS
<1>2. \A i \in 0..(m - 1) : pri(At(h, i)) \in Int
  BY <1>1, InSlice
<1>3. QED
  BY <1>1, <1>2 DEF Times, TimesAre

\* Swap() exchanges two messages and tells them their new places.
LEMMA SwapDoes ==
  ASSUME NEW n \in Nat, NEW h, NEW A, Knowing(h, n, A), NEW i \in 0..(n - 1), NEW j \in 0..(n - 1)
  PROVE  /\ Knowing(Swap(h, i, j), n, A)
         /\ Swap(h, i, j).cap = h.cap
         /\ At(Swap(h, i, j), i) = At(h, j) /\ At(Swap(h, i, j), j) = At(h, i)
         /\ \A k \in 0..(n - 1) : k # i /\ k # j => At(Swap(h, i, j), k) = At(h, k)
<1> DEFINE g == Swap(h, i, j)
<1>1. /\ h \in QueuesOf(n) /\ h.slice \in [1..n -> Messages] /\ h.cap \in Nat
      /\ h.index \in [Messages -> Int]
  BY DEF Knowing, QueuesOf
<1>2. /\ At(h, i) \in Messages /\ At(h, j) \in Messages /\ i \in Int /\ j \in Int
      /\ i + 1 \in 1..n /\ j + 1 \in 1..n
  BY <1>1, InSlice
<1>3. /\ g.slice = [h.slice EXCEPT ![i + 1] = At(h, j), ![j + 1] = At(h, i)]
      /\ g.cap = h.cap
      /\ g.index = [h.index EXCEPT ![At(h, j)] = i, ![At(h, i)] = j]
      /\ g = [slice |-> g.slice, cap |-> g.cap, index |-> g.index]
  BY DEF Swap
<1> HIDE DEF g
<1>4. g.slice \in [1..n -> Messages] /\ g.index \in [Messages -> Int]
  <2>1. [h.slice EXCEPT ![i + 1] = At(h, j), ![j + 1] = At(h, i)] \in [1..n -> Messages]
    BY <1>1, <1>2
  <2>2. [h.index EXCEPT ![At(h, j)] = i, ![At(h, i)] = j] \in [Messages -> Int]
    BY <1>1, <1>2
  <2>3. QED
    BY <1>3, <2>1, <2>2
<1>5. g \in QueuesOf(n)
  BY <1>1, <1>3, <1>4 DEF QueuesOf
<1>6. /\ At(g, i) = At(h, j) /\ At(g, j) = At(h, i)
      /\ \A k \in 0..(n - 1) : k # i /\ k # j => At(g, k) = At(h, k)
  BY <1>1, <1>2, <1>3 DEF At
<1>7. \A k, l \in 0..(n - 1) : At(h, k) = At(h, l) => k = l
  BY DEF Knowing
<1>8. ASSUME NEW k \in 0..(n - 1) PROVE g.index[At(g, k)] = k
  <2>1. At(h, k) \in Messages /\ h.index[At(h, k)] = k
    BY <1>1, InSlice DEF Knowing
  <2>2. CASE k = j
    BY <1>1, <1>2, <1>3, <1>6, <2>2
  <2>3. CASE k = i /\ i # j
    <3>1. At(h, i) # At(h, j)
      BY <1>7, <2>3
    <3>2. QED
      BY <1>1, <1>2, <1>3, <1>6, <2>3, <3>1
  <2>4. CASE k # i /\ k # j
    <3>1. At(h, k) # At(h, i) /\ At(h, k) # At(h, j) /\ At(g, k) = At(h, k)
      BY <1>6, <1>7, <2>4
    <3>2. QED
      BY <1>1, <1>2, <1>3, <2>1, <3>1
  <2>5. QED
    BY <2>2, <2>3, <2>4
<1>9. ASSUME NEW x \in Messages PROVE x \in A <=> \E k \in 0..(n - 1) : At(g, k) = x
  <2>1. x \in A <=> \E k \in 0..(n - 1) : At(h, k) = x
    BY DEF Knowing
  <2>2. ASSUME NEW k \in 0..(n - 1) PROVE \E l \in 0..(n - 1) : At(g, l) = At(h, k)
    BY <1>6
  <2>3. ASSUME NEW k \in 0..(n - 1) PROVE \E l \in 0..(n - 1) : At(h, l) = At(g, k)
    BY <1>6
  <2>4. QED
    BY <2>1, <2>2, <2>3
<1>10. Knowing(g, n, A)
  BY <1>5, <1>8, <1>9 DEF Knowing
<1>11. QED
  BY <1>3, <1>6, <1>10 DEF g

\* Seen from the times, Swap() exchanges two of them.
LEMMA SwapTimes ==
  ASSUME NEW n \in Nat, NEW h, NEW A, Knowing(h, n, A), NEW m \in 0..n,
         NEW i \in 0..(m - 1), NEW j \in 0..(m - 1)
  PROVE  /\ Times(Swap(h, i, j), m) = Exchanged(Times(h, m), i, j)
         /\ \A g : SameFrom(h, g, m, n) => SameFrom(Swap(h, i, j), g, m, n)
<1>1. i \in 0..(n - 1) /\ j \in 0..(n - 1) /\ h \in QueuesOf(n)
  BY DEF Knowing
<1>2. PICK s : s = Swap(h, i, j)
  OBVIOUS
<1>3. /\ Knowing(s, n, A) /\ s \in QueuesOf(n)
      /\ At(s, i) = At(h, j) /\ At(s, j) = At(h, i)
      /\ \A k \in 0..(n - 1) : k # i /\ k # j => At(s, k) = At(h, k)
  BY <1>1, <1>2, SwapDoes DEF Knowing
<1>4. PICK p \in [0..(m - 1) -> Int], r \in [0..(m - 1) -> Int] :
        /\ p = Times(h, m) /\ r = Times(s, m)
        /\ \A k \in 0..(m - 1) : k \in 0..(n - 1) /\ p[k] = pri(At(h, k)) /\ r[k] = pri(At(s, k))
  <2>1. /\ Times(h, m) \in [0..(m - 1) -> Int]
        /\ \A k \in 0..(m - 1) : k \in 0..(n - 1) /\ Times(h, m)[k] = pri(At(h, k))
    BY <1>1, TimesIn DEF TimesAre
  <2>2. /\ Times(s, m) \in [0..(m - 1) -> Int]
        /\ \A k \in 0..(m - 1) : k \in 0..(n - 1) /\ Times(s, m)[k] = pri(At(s, k))
    BY <1>3, TimesIn DEF TimesAre
  <2>3. QED
    BY <2>1, <2>2, Zenon
<1>5. r[i] = p[j] /\ r[j] = p[i] /\ \A k \in 0..(m - 1) : k # i /\ k # j => r[k] = p[k]
  BY <1>3, <1>4
<1>6. r = [p EXCEPT ![i] = p[j], ![j] = p[i]]
  BY <1>4, <1>5
<1>7. \A k \in m..(n - 1) : k \in 0..(n - 1) /\ k # i /\ k # j
  OBVIOUS
<1>8. \A g : SameFrom(h, g, m, n) => SameFrom(s, g, m, n)
  BY <1>3, <1>7 DEF SameFrom
<1>9. QED
  BY <1>2, <1>4, <1>6, <1>8 DEF Exchanged

\* What up() may have made of a queue g with c places, and where it is.
Rising(n, m, A, c, g) ==
  {s \in [h : QueuesOf(n), j : 0..(m - 1)] :
     /\ Knowing(s.h, n, A) /\ s.h.cap = c /\ SameFrom(s.h, g, m, n)
     /\ SortedBut(Times(s.h, m), m, s.j)}

UpStopped(s) == s.j = 0 \/ pri(At(s.h, s.j)) >= pri(At(s.h, parent(s.j)))

\* A turn of up() goes on to the parent, or the loop has stopped.
LEMMA UpTurns ==
  ASSUME NEW n \in Nat, NEW m \in 1..n, NEW A, NEW c, NEW g, NEW s \in Rising(n, m, A, c, g)
  PROVE  /\ UpTurn(s) \in Rising(n, m, A, c, g)
         /\ UpStopped(s) => UpTurn(s) = s
         /\ ~UpStopped(s) => UpTurn(s).j < s.j
<1>1. PICK h \in QueuesOf(n), j \in 0..(m - 1) :
        /\ h = s.h /\ j = s.j /\ s = [h |-> h, j |-> j]
        /\ Knowing(h, n, A) /\ h.cap = c /\ SameFrom(h, g, m, n)
        /\ SortedBut(Times(h, m), m, j)
  <2>1. s.h \in QueuesOf(n) /\ s.j \in 0..(m - 1) /\ s = [h |-> s.h, j |-> s.j]
    BY DEF Rising
  <2>2. QED
    BY <2>1, Zenon DEF Rising
<1>2. CASE UpStopped(s)
  <2>1. parent(s.j) = s.j \/ pri(At(s.h, s.j)) >= pri(At(s.h, parent(s.j)))
    BY <1>2 DEF UpStopped, parent
  <2>2. UpTurn(s) = s
    BY <2>1, Zenon DEF UpTurn
  <2>3. QED
    BY <1>2, <2>2
<1>3. CASE ~UpStopped(s)
  <2>1. m \in Nat /\ m \in 0..n /\ j \in 1..(m - 1) /\ ~(pri(At(h, j)) >= pri(At(h, parent(j))))
    BY <1>1, <1>3 DEF UpStopped
  <2>2. PICK i \in 0..(m - 1) : i = parent(j) /\ i < j
    BY <2>1, ParentIn
  <2>3. UpTurn(s) = [h |-> Swap(h, i, j), j |-> i]
    <3>1. ~(parent(s.j) = s.j \/ pri(At(s.h, s.j)) >= pri(At(s.h, parent(s.j))))
      BY <1>1, <2>1, <2>2
    <3>2. UpTurn(s) = [h |-> Swap(s.h, parent(s.j), s.j), j |-> parent(s.j)]
      BY <3>1, Zenon DEF UpTurn
    <3>3. QED
      BY <1>1, <2>2, <3>2
  <2>4. i \in 0..(n - 1) /\ j \in 0..(n - 1)
    OBVIOUS
  <2>5. Knowing(Swap(h, i, j), n, A) /\ Swap(h, i, j).cap = c
    <3>1. Knowing(h, n, A) /\ h.cap = c
      BY <1>1
    <3>2. QED
      BY <2>4, <3>1, SwapDoes
  <2>6. Times(Swap(h, i, j), m) = Exchanged(Times(h, m), i, j) /\ SameFrom(Swap(h, i, j), g, m, n)
    <3>1. Knowing(h, n, A) /\ SameFrom(h, g, m, n)
      BY <1>1
    <3>2. m \in 0..n
      BY <2>1
    <3>3. QED
      BY <3>1, <3>2, SwapTimes
  <2>7. /\ Times(h, m) \in [0..(m - 1) -> Int]
        /\ Times(h, m)[j] = pri(At(h, j)) /\ Times(h, m)[i] = pri(At(h, i))
    <3>1. /\ Times(h, m) \in [0..(m - 1) -> Int]
          /\ \A k \in 0..(m - 1) : k \in 0..(n - 1) /\ Times(h, m)[k] = pri(At(h, k))
      BY <2>1, TimesIn DEF TimesAre
    <3>2. QED
      BY <3>1
  <2>8. Times(h, m)[j] < Times(h, m)[parent(j)]
    BY <2>1, <2>2, <2>7
  <2>9. SortedBut(Times(Swap(h, i, j), m), m, i)
    BY <1>1, <2>1, <2>2, <2>6, <2>7, <2>8, UpSorts
  <2>10. Swap(h, i, j) \in QueuesOf(n)
    BY <2>5 DEF Knowing
  <2>11. UpTurn(s) \in Rising(n, m, A, c, g)
    BY <2>3, <2>5, <2>6, <2>9, <2>10 DEF Rising
  <2>12. UpTurn(s).j < s.j
    BY <1>1, <2>2, <2>3
  <2>13. QED
    BY <1>3, <2>11, <2>12
<1>4. QED
  BY <1>2, <1>3

\* In a queue where up() has stopped, all is in order.
LEMMA UpDone ==
  ASSUME NEW n \in Nat, NEW m \in 1..n, NEW A, NEW c, NEW g, NEW s \in Rising(n, m, A, c, g),
         UpStopped(s)
  PROVE  Knowing(s.h, n, A) /\ s.h.cap = c /\ SameFrom(s.h, g, m, n) /\ Sorted(Times(s.h, m), m)
<1>1. PICK h \in QueuesOf(n), j \in 0..(m - 1) :
        /\ h = s.h /\ j = s.j
        /\ Knowing(h, n, A) /\ h.cap = c /\ SameFrom(h, g, m, n)
        /\ SortedBut(Times(h, m), m, j)
  <2>1. s.h \in QueuesOf(n) /\ s.j \in 0..(m - 1) /\ s = [h |-> s.h, j |-> s.j]
    BY DEF Rising
  <2>2. QED
    BY <2>1, Zenon DEF Rising
<1>2. m \in Nat /\ m \in 0..n
  OBVIOUS
<1>3. /\ Times(h, m) \in [0..(m - 1) -> Int]
      /\ \A i \in 0..(m - 1) : i \in 0..(n - 1) /\ Times(h, m)[i] = pri(At(h, i))
  BY <1>2, TimesIn DEF TimesAre
<1>4. j = 0 \/ Times(h, m)[j] >= Times(h, m)[parent(j)]
  <2>1. CASE j = 0
    BY <2>1
  <2>2. CASE j # 0
    <3>1. parent(j) \in 0..(m - 1)
      BY <1>2, <2>2, ParentIn
    <3>2. pri(At(h, j)) >= pri(At(h, parent(j)))
      BY <1>1, <2>2 DEF UpStopped
    <3>3. QED
      BY <1>3, <3>1, <3>2
  <2>3. QED
    BY <2>1, <2>2
<1>5. Sorted(Times(h, m), m)
  BY <1>1, <1>2, <1>3, <1>4, UpEnds
<1>6. QED
  BY <1>1, <1>5

IsUp(t, h, j) ==
  t = [k \in 0..j |-> IF k = 0 THEN [h |-> h, j |-> j] ELSE UpTurn(t[k - 1])]

\* The loop of up() stops within as many turns as there are places before j.
LEMMA UpLoop ==
  ASSUME NEW n \in Nat, NEW m \in 1..n, NEW A, NEW c, NEW g, NEW h, NEW j \in 0..(m - 1),
         [h |-> h, j |-> j] \in Rising(n, m, A, c, g)
  PROVE  \E u : /\ u = up(h, j) /\ Knowing(u, n, A) /\ u.cap = c
                /\ SameFrom(u, g, m, n) /\ Sorted(Times(u, m), m)
<1> DEFINE V == Rising(n, m, A, c, g)
           v0 == [h |-> h, j |-> j]
           G == [k \in 1..j |-> [s \in V |-> UpTurn(s)]]
<1>1. j \in Nat /\ v0 \in V /\ v0.j = j
  OBVIOUS
<1>2. \A s \in V : UpTurn(s) \in V /\ s.j \in Nat
  <2>1. \A s \in V : s.j \in Nat
    BY DEF Rising
  <2>2. QED
    BY <2>1, UpTurns
<1> HIDE DEF V, v0
<1>3. G \in [1..j -> [V -> V]] /\ \A k \in 1..j, s \in V : G[k][s] = UpTurn(s)
  <2>1. [s \in V |-> UpTurn(s)] \in [V -> V]
    BY <1>2
  <2>2. QED
    BY <2>1
<1> HIDE DEF G
<1>4. Definable(j, V, v0, G)
  BY <1>1, <1>3, Recursion, Zenon
<1>5. PICK f \in [0..j -> V] : f[0] = v0 /\ \A k \in 1..j : f[k] = G[k][f[k - 1]]
  BY <1>4, Zenon DEF Definable
<1>6. ASSUME NEW k \in 0..j PROVE f[k] = IF k = 0 THEN v0 ELSE UpTurn(f[k - 1])
  <2>1. CASE k = 0
    BY <1>5, <2>1
  <2>2. CASE k # 0
    <3>1. k \in 1..j /\ k - 1 \in 0..j
      BY <1>1, <2>2
    <3>2. QED
      BY <1>3, <1>5, <2>2, <3>1
  <2>3. QED
    BY <2>1, <2>2
<1>7. IsUp(f, h, j)
  BY <1>5, <1>6, Zenon DEF IsUp, v0
<1>8. up(h, j) = (CHOOSE t : IsUp(t, h, j))[j].h
  BY Zenon DEF up, IsUp
<1>9. PICK t : t = (CHOOSE r : IsUp(r, h, j)) /\ IsUp(t, h, j)
  BY <1>7, Zenon
<1>10. \A k \in 0..j : t[k] = IF k = 0 THEN v0 ELSE UpTurn(t[k - 1])
  BY <1>9, Zenon DEF IsUp, v0
<1>11. t[0] = v0 /\ \A k \in 1..j : t[k] = UpTurn(t[k - 1])
  <2>1. 0 \in 0..j /\ \A k \in 1..j : k \in 0..j /\ k # 0
    BY <1>1
  <2>2. QED
    BY <1>10, <2>1, Zenon
<1> DEFINE S == {k \in 0..j : t[k] \in V /\ (UpStopped(t[k]) \/ t[k].j + k =< j)}
<1>12. 0 \in S
  BY <1>1, <1>11
<1>13. ASSUME NEW k \in 1..j, k - 1 \in S PROVE k \in S
  <2>1. PICK s \in V : s = t[k - 1] /\ (UpStopped(s) \/ s.j + (k - 1) =< j)
    BY <1>13
  <2>2. t[k] = UpTurn(s)
    BY <1>11, <2>1
  <2>3. UpTurn(s) \in V /\ s.j \in Nat /\ UpTurn(s).j \in Nat
    BY <1>2
  <2>4. (UpStopped(s) => UpTurn(s) = s) /\ (~UpStopped(s) => UpTurn(s).j < s.j)
    BY UpTurns DEF V
  <2>5. UpStopped(t[k]) \/ t[k].j + k =< j
    <3>1. CASE UpStopped(s)
      BY <2>2, <2>4, <3>1
    <3>2. CASE ~UpStopped(s)
      BY <2>1, <2>2, <2>3, <2>4, <3>2
    <3>3. QED
      BY <3>1, <3>2
  <2>6. QED
    BY <2>2, <2>3, <2>5
<1>14. 0..j \subseteq S
  <2> HIDE DEF S
  <2>1. QED
    BY <1>1, <1>12, <1>13, UpTo
<1>15. PICK e \in V : e = t[j] /\ (UpStopped(e) \/ e.j + j =< j)
  BY <1>1, <1>14
<1>16. UpStopped(e)
  BY <1>1, <1>2, <1>15 DEF UpStopped
<1>17. /\ Knowing(e.h, n, A) /\ e.h.cap = c /\ SameFrom(e.h, g, m, n)
       /\ Sorted(Times(e.h, m), m)
  BY <1>16, UpDone DEF V
<1>18. up(h, j) = e.h
  BY <1>8, <1>9, <1>15
<1>19. QED
  BY <1>17, <1>18

\* What down() may have made of a queue g, and where it is.
Sinking(n, m, A, c, g, first) ==
  {s \in [h : QueuesOf(n), i : 0..(m - 1)] :
     /\ Knowing(s.h, n, A) /\ s.h.cap = c /\ SameFrom(s.h, g, m, n)
     /\ first =< s.i /\ SortedAbove(Times(s.h, m), m, s.i, first)}

\* The place below i that down() looks at.
Child(s, m) ==
  LET j1 == 2 * s.i + 1
  IN IF j1 + 1 < m /\ pri(At(s.h, j1)) >= pri(At(s.h, j1 + 1)) THEN j1 + 1 ELSE j1
DownStopped(s, m) == 2 * s.i + 1 >= m \/ pri(At(s.h, Child(s, m))) >= pri(At(s.h, s.i))

\* It has the earliest message of those below i.
LEMMA ChildIs ==
  ASSUME NEW n \in Nat, NEW m \in 1..n, NEW h \in QueuesOf(n), NEW i \in 0..(m - 1), NEW s,
         s.h = h, s.i = i, ~(2 * i + 1 >= m)
  PROVE  /\ Child(s, m) \in 1..(m - 1) /\ parent(Child(s, m)) = i
         /\ \A c \in 1..(m - 1) : parent(c) = i => Times(h, m)[Child(s, m)] =< Times(h, m)[c]
<1>1. m \in Nat /\ m \in 0..n /\ 2 * i + 1 \in 1..(m - 1) /\ i \in Nat
  OBVIOUS
<1>2. /\ Times(h, m) \in [0..(m - 1) -> Int]
      /\ \A k \in 0..(m - 1) : k \in 0..(n - 1) /\ Times(h, m)[k] = pri(At(h, k))
  <2>1. m \in 0..n
    BY <1>1
  <2>2. TimesAre(h, m, n)
    BY <2>1, TimesIn, Zenon
  <2>3. QED
    BY <2>2 DEF TimesAre
<1>3. PICK p \in [0..(m - 1) -> Int] : p = Times(h, m) /\ \A k \in 0..(m - 1) : p[k] = pri(At(h, k))
  BY <1>2
<1>4. PICK a \in 1..(m - 1) : a = 2 * i + 1 /\ a \in Nat \ {0} /\ a + 1 \in Nat \ {0}
  BY <1>1
<1>5. parent(a) = i /\ parent(a + 1) = i
  BY <1>1, <1>4, Parents
<1>6. \A c \in 1..(m - 1) : parent(c) = i => c = a \/ c = a + 1
  <2> TAKE c \in 1..(m - 1)
  <2>1. c \in Nat \ {0}
    BY <1>1
  <2>2. parent(c) = i => c = 2 * i + 1 \/ c = 2 * i + 2
    BY <1>1, <2>1, Parents
  <2>3. QED
    BY <1>1, <1>4, <2>2
<1>7. Child(s, m) = IF a + 1 < m /\ pri(At(h, a)) >= pri(At(h, a + 1)) THEN a + 1 ELSE a
  BY <1>4 DEF Child
<1>8. CASE a + 1 < m
  <2>1. a \in 0..(m - 1) /\ a + 1 \in 0..(m - 1) /\ a + 1 \in 1..(m - 1)
    BY <1>1, <1>4, <1>8
  <2>2. p[a] = pri(At(h, a)) /\ p[a + 1] = pri(At(h, a + 1)) /\ p[a] \in Int /\ p[a + 1] \in Int
    BY <1>3, <2>1
  <2>3. CASE p[a] >= p[a + 1]
    <3>1. Child(s, m) = a + 1
      BY <1>7, <1>8, <2>2, <2>3
    <3>2. \A c \in 1..(m - 1) : parent(c) = i => p[a + 1] =< p[c]
      BY <1>6, <2>2, <2>3
    <3>3. QED
      BY <1>3, <1>5, <2>1, <3>1, <3>2
  <2>4. CASE ~(p[a] >= p[a + 1])
    <3>1. Child(s, m) = a
      BY <1>7, <2>2, <2>4
    <3>2. \A c \in 1..(m - 1) : parent(c) = i => p[a] =< p[c]
      BY <1>6, <2>2, <2>4
    <3>3. QED
      BY <1>3, <1>5, <3>1, <3>2
  <2>5. QED
    BY <2>3, <2>4
<1>9. CASE ~(a + 1 < m)
  <2>1. Child(s, m) = a
    BY <1>7, <1>9
  <2>2. \A c \in 1..(m - 1) : c # a + 1
    BY <1>1, <1>4, <1>9
  <2>3. a \in 0..(m - 1) /\ p[a] \in Int /\ p[a] =< p[a]
    BY <1>3, <1>4
  <2>4. \A c \in 1..(m - 1) : parent(c) = i => p[a] =< p[c]
    BY <1>6, <2>2, <2>3
  <2>5. QED
    BY <1>3, <1>5, <2>1, <2>4
<1>10. QED
  BY <1>8, <1>9

\* A turn of down() goes on to a place below, or the loop has stopped.
LEMMA DownTurns ==
  ASSUME NEW n \in Nat, NEW m \in 1..n, NEW A, NEW c, NEW g, NEW first \in Nat,
         NEW s \in Sinking(n, m, A, c, g, first)
  PROVE  /\ DownTurn(s, m) \in Sinking(n, m, A, c, g, first)
         /\ DownStopped(s, m) => DownTurn(s, m) = s
         /\ ~DownStopped(s, m) => DownTurn(s, m).i > s.i
<1>1. PICK h \in QueuesOf(n), i \in 0..(m - 1) :
        /\ h = s.h /\ i = s.i
        /\ Knowing(h, n, A) /\ h.cap = c /\ SameFrom(h, g, m, n)
        /\ first =< i /\ SortedAbove(Times(h, m), m, i, first)
  <2>1. s.h \in QueuesOf(n) /\ s.i \in 0..(m - 1)
    BY DEF Sinking
  <2>2. QED
    BY <2>1, Zenon DEF Sinking
<1>2. CASE DownStopped(s, m)
  <2>1. DownTurn(s, m) = s
    BY <1>2, Zenon DEF DownTurn, DownStopped, Child
  <2>2. QED
    BY <1>2, <2>1
<1>3. CASE ~DownStopped(s, m)
  <2>1. m \in Nat /\ m \in 0..n /\ first \in 0..i /\ ~(2 * i + 1 >= m)
    BY <1>1, <1>3 DEF DownStopped
  <2>2. PICK j \in 1..(m - 1) :
          /\ j = Child(s, m) /\ parent(j) = i
          /\ \A d \in 1..(m - 1) : parent(d) = i => Times(h, m)[j] =< Times(h, m)[d]
    BY <1>1, <2>1, ChildIs
  <2>3. ~(pri(At(h, j)) >= pri(At(h, i)))
    BY <1>1, <1>3, <2>2 DEF DownStopped
  <2>4. DownTurn(s, m) = [h |-> Swap(h, i, j), i |-> j]
    <3>1. DownTurn(s, m) = [h |-> Swap(s.h, s.i, Child(s, m)), i |-> Child(s, m)]
      BY <1>3, Zenon DEF DownTurn, DownStopped, Child
    <3>2. QED
      BY <1>1, <2>2, <3>1
  <2>5. i \in 0..(n - 1) /\ j \in 0..(n - 1) /\ j \in 0..(m - 1)
    OBVIOUS
  <2>6. Knowing(Swap(h, i, j), n, A) /\ Swap(h, i, j).cap = c
    <3>1. Knowing(h, n, A) /\ h.cap = c
      BY <1>1
    <3>2. QED
      BY <2>5, <3>1, SwapDoes
  <2>7. Times(Swap(h, i, j), m) = Exchanged(Times(h, m), i, j) /\ SameFrom(Swap(h, i, j), g, m, n)
    <3>1. Knowing(h, n, A) /\ SameFrom(h, g, m, n)
      BY <1>1
    <3>2. m \in 0..n /\ j \in 0..(m - 1)
      BY <2>1, <2>5
    <3>3. QED
      BY <3>1, <3>2, SwapTimes
  <2>8. /\ Times(h, m) \in [0..(m - 1) -> Int]
        /\ \A k \in 0..(m - 1) : k \in 0..(n - 1) /\ Times(h, m)[k] = pri(At(h, k))
    <3>1. m \in 0..n
      BY <2>1
    <3>2. TimesAre(h, m, n)
      BY <3>1, TimesIn, Zenon
    <3>3. QED
      BY <3>2 DEF TimesAre
  <2>9. Times(h, m)[j] < Times(h, m)[i]
    BY <2>3, <2>5, <2>8
  <2>10. SortedAbove(Times(Swap(h, i, j), m), m, j, first)
    <3>1. SortedAbove(Exchanged(Times(h, m), i, j), m, j, first)
      BY <1>1, <2>1, <2>2, <2>8, <2>9, DownSorts
    <3>2. QED
      BY <2>7, <3>1
  <2>11. Swap(h, i, j) \in QueuesOf(n)
    BY <2>6 DEF Knowing
  <2>12. i < j
    BY <2>1, <2>2, ParentIn
  <2>13. first =< j
    BY <1>1, <2>12
  <2>14. DownTurn(s, m) \in Sinking(n, m, A, c, g, first)
    BY <2>4, <2>5, <2>6, <2>7, <2>10, <2>11, <2>13 DEF Sinking
  <2>15. DownTurn(s, m).i > s.i
    BY <1>1, <2>4, <2>12
  <2>16. QED
    BY <1>3, <2>14, <2>15
<1>4. QED
  BY <1>2, <1>3

\* In a queue where down() has stopped, only the message where it began may
\* be out of order.
LEMMA DownDone ==
  ASSUME NEW n \in Nat, NEW m \in 1..n, NEW A, NEW c, NEW g, NEW first \in Nat,
         NEW s \in Sinking(n, m, A, c, g, first), DownStopped(s, m)
  PROVE  /\ Knowing(s.h, n, A) /\ s.h.cap = c /\ SameFrom(s.h, g, m, n)
         /\ SortedBut(Times(s.h, m), m, first)
<1>1. PICK h \in QueuesOf(n), i \in 0..(m - 1) :
        /\ h = s.h /\ i = s.i
        /\ Knowing(h, n, A) /\ h.cap = c /\ SameFrom(h, g, m, n)
        /\ first =< i /\ SortedAbove(Times(h, m), m, i, first)
  <2>1. s.h \in QueuesOf(n) /\ s.i \in 0..(m - 1)
    BY DEF Sinking
  <2>2. QED
    BY <2>1, Zenon DEF Sinking
<1>2. m \in Nat /\ m \in 0..n /\ first \in 0..i /\ i \in Nat
  BY <1>1
<1>3. /\ Times(h, m) \in [0..(m - 1) -> Int]
      /\ \A k \in 0..(m - 1) : k \in 0..(n - 1) /\ Times(h, m)[k] = pri(At(h, k))
  <2>1. m \in 0..n
    BY <1>2
  <2>2. TimesAre(h, m, n)
    BY <2>1, TimesIn, Zenon
  <2>3. QED
    BY <2>2 DEF TimesAre
<1>4. ASSUME NEW d \in 1..(m - 1), parent(d) = i PROVE Times(h, m)[i] =< Times(h, m)[d]
  <2>1. ~(2 * i + 1 >= m)
    BY <1>2, <1>4, Parents
  <2>2. PICK j \in 1..(m - 1) :
          /\ j = Child(s, m)
          /\ \A b \in 1..(m - 1) : parent(b) = i => Times(h, m)[j] =< Times(h, m)[b]
    BY <1>1, <2>1, ChildIs
  <2>3. pri(At(h, j)) >= pri(At(h, i))
    BY <1>1, <2>1, <2>2 DEF DownStopped
  <2>4. j \in 0..(m - 1) /\ d \in 0..(m - 1)
    OBVIOUS
  <2>5. Times(h, m)[j] >= Times(h, m)[i] /\ Times(h, m)[j] =< Times(h, m)[d]
    BY <1>3, <1>4, <2>2, <2>3, <2>4
  <2>6. Times(h, m)[j] \in Int /\ Times(h, m)[i] \in Int /\ Times(h, m)[d] \in Int
    BY <1>3, <2>4
  <2>7. QED
    BY <2>5, <2>6
<1>5. SortedBut(Times(h, m), m, first)
  BY <1>1, <1>2, <1>3, <1>4, DownEnds
<1>6. QED
  BY <1>1, <1>5

IsDown(t, h, i, m) ==
  t = [k \in 0..m |-> IF k = 0 THEN [h |-> h, i |-> i] ELSE DownTurn(t[k - 1], m)]

\* The loop of down() stops within as many turns as there are places.
LEMMA DownLoop ==
  ASSUME NEW n \in Nat, NEW m \in 1..n, NEW A, NEW c, NEW g, NEW h, NEW i \in 0..(m - 1),
         [h |-> h, i |-> i] \in Sinking(n, m, A, c, g, i)
  PROVE  \E u : /\ u = down(h, i, m) /\ Knowing(u, n, A) /\ u.cap = c
                /\ SameFrom(u, g, m, n) /\ SortedBut(Times(u, m), m, i)
<1> DEFINE V == Sinking(n, m, A, c, g, i)
           v0 == [h |-> h, i |-> i]
           G == [k \in 1..m |-> [s \in V |-> DownTurn(s, m)]]
<1>1. m \in Nat /\ i \in Nat /\ v0 \in V /\ v0.i = i
  OBVIOUS
<1>2. \A s \in V : DownTurn(s, m) \in V /\ s.i \in 0..(m - 1)
  <2>1. \A s \in V : s.i \in 0..(m - 1)
    BY DEF Sinking
  <2>2. QED
    BY <1>1, <2>1, DownTurns
<1> HIDE DEF V, v0
<1>3. G \in [1..m -> [V -> V]] /\ \A k \in 1..m, s \in V : G[k][s] = DownTurn(s, m)
  <2>1. [s \in V |-> DownTurn(s, m)] \in [V -> V]
    BY <1>2
  <2>2. QED
    BY <2>1
<1> HIDE DEF G
<1>4. Definable(m, V, v0, G)
  BY <1>1, <1>3, Recursion, Zenon
<1>5. PICK f \in [0..m -> V] : f[0] = v0 /\ \A k \in 1..m : f[k] = G[k][f[k - 1]]
  BY <1>4, Zenon DEF Definable
<1>6. ASSUME NEW k \in 0..m PROVE f[k] = IF k = 0 THEN v0 ELSE DownTurn(f[k - 1], m)
  <2>1. CASE k = 0
    BY <1>5, <2>1
  <2>2. CASE k # 0
    <3>1. k \in 1..m /\ k - 1 \in 0..m
      BY <1>1, <2>2
    <3>2. QED
      BY <1>3, <1>5, <2>2, <3>1
  <2>3. QED
    BY <2>1, <2>2
<1>7. IsDown(f, h, i, m)
  BY <1>5, <1>6, Zenon DEF IsDown, v0
<1>8. down(h, i, m) = (CHOOSE t : IsDown(t, h, i, m))[m].h
  BY Zenon DEF down, IsDown
<1>9. PICK t : t = (CHOOSE r : IsDown(r, h, i, m)) /\ IsDown(t, h, i, m)
  BY <1>7, Zenon
<1>10. \A k \in 0..m : t[k] = IF k = 0 THEN v0 ELSE DownTurn(t[k - 1], m)
  BY <1>9, Zenon DEF IsDown, v0
<1>11. t[0] = v0 /\ \A k \in 1..m : t[k] = DownTurn(t[k - 1], m)
  <2>1. 0 \in 0..m /\ \A k \in 1..m : k \in 0..m /\ k # 0
    BY <1>1
  <2>2. QED
    BY <1>10, <2>1, Zenon
<1> DEFINE S == {k \in 0..m : t[k] \in V /\ (DownStopped(t[k], m) \/ t[k].i >= k)}
<1>12. 0 \in S
  BY <1>1, <1>11
<1>13. ASSUME NEW k \in 1..m, k - 1 \in S PROVE k \in S
  <2>1. PICK s \in V : s = t[k - 1] /\ (DownStopped(s, m) \/ s.i >= k - 1)
    BY <1>13
  <2>2. t[k] = DownTurn(s, m)
    BY <1>11, <2>1
  <2>3. DownTurn(s, m) \in V /\ s.i \in 0..(m - 1) /\ DownTurn(s, m).i \in 0..(m - 1)
    BY <1>2
  <2>4. /\ DownStopped(s, m) => DownTurn(s, m) = s
        /\ ~DownStopped(s, m) => DownTurn(s, m).i > s.i
    BY <1>1, DownTurns DEF V
  <2>5. DownStopped(t[k], m) \/ t[k].i >= k
    <3>1. CASE DownStopped(s, m)
      BY <2>2, <2>4, <3>1
    <3>2. CASE ~DownStopped(s, m)
      BY <2>1, <2>2, <2>3, <2>4, <3>2
    <3>3. QED
      BY <3>1, <3>2
  <2>6. QED
    BY <2>2, <2>3, <2>5
<1>14. 0..m \subseteq S
  <2> HIDE DEF S
  <2>1. QED
    BY <1>1, <1>12, <1>13, UpTo
<1>15. PICK e \in V : e = t[m] /\ (DownStopped(e, m) \/ e.i >= m)
  BY <1>1, <1>14
<1>16. DownStopped(e, m)
  BY <1>1, <1>2, <1>15
<1>17. /\ Knowing(e.h, n, A) /\ e.h.cap = c /\ SameFrom(e.h, g, m, n)
       /\ SortedBut(Times(e.h, m), m, i)
  BY <1>1, <1>16, DownDone DEF V
<1>18. down(h, i, m) = e.h
  BY <1>8, <1>9, <1>15
<1>19. QED
  BY <1>17, <1>18

\* In an empty part of the slice down() does nothing.
LEMMA DownNothing ==
  ASSUME NEW h, NEW i
  PROVE  down(h, i, 0) = h
<1> DEFINE v0 == [h |-> h, i |-> i]
           f == [k \in 0..0 |-> v0]
<1>1. \A k : k \in 0..0 <=> k = 0
  OBVIOUS
<1>2. \A k \in 0..0 : v0 = IF k = 0 THEN v0 ELSE DownTurn(f[k - 1], 0)
  BY <1>1, Zenon
<1>3. IsDown(f, h, i, 0)
  BY <1>2, Zenon DEF IsDown
<1>4. down(h, i, 0) = (CHOOSE t : IsDown(t, h, i, 0))[0].h
  BY Zenon DEF down, IsDown
<1>5. PICK t : t = (CHOOSE r : IsDown(r, h, i, 0)) /\ IsDown(t, h, i, 0)
  BY <1>3, Zenon
<1>6. t[0] = v0
  BY <1>1, <1>5, Zenon DEF IsDown
<1>7. QED
  BY <1>4, <1>5, <1>6

-----------------------------------------------------------------------------
(* The heap: Push, Pop and Remove *)

\* A slice of n messages is a sequence of length n.
LEMMA SliceIs ==
  ASSUME NEW n \in Nat, NEW f \in [1..n -> Messages]
  PROVE  f \in Seq(Messages) /\ Len(f) = n
<1>1. f \in Seq(Messages)
  BY SeqDef
<1>2. Len(f) \in Nat /\ 1..Len(f) = 1..n
  BY <1>1, LenProperties
<1>3. QED
  BY <1>1, <1>2

\* The last message is taken out; the order of the others is as it was.
LEMMA TakeLastKeeps ==
  ASSUME NEW n \in Nat \ {0}, NEW h, NEW A, Knowing(h, n, A), Sorted(Times(h, n - 1), n - 1)
  PROVE  /\ Knowing(TakeLast(h), n - 1, A \ {At(h, n - 1)})
         /\ TakeLast(h).cap = h.cap
         /\ Sorted(Times(TakeLast(h), n - 1), n - 1)
<1> DEFINE g == TakeLast(h)
           x == At(h, n - 1)
<1>1. /\ h \in QueuesOf(n) /\ h.slice \in [1..n -> Messages] /\ h.cap \in Nat
      /\ h.index \in [Messages -> Int]
  BY DEF Knowing, QueuesOf
<1>2. h.slice \in Seq(Messages) /\ Len(h.slice) = n /\ Len0(h) = n /\ Last0(h) = x
  BY <1>1, SliceIs DEF Len0, Last0
<1>3. n - 1 \in Nat /\ n - 1 \in 0..(n - 1) /\ x \in Messages
  BY <1>1, InSlice
<1>4. /\ g.slice = Front(h.slice) /\ g.cap = h.cap
      /\ g.index = [h.index EXCEPT ![x] = -1]
      /\ g = [slice |-> g.slice, cap |-> g.cap, index |-> g.index]
  BY <1>2 DEF TakeLast
<1> HIDE DEF g
<1>5. g.slice \in [1..(n - 1) -> Messages] /\ \A k \in 1..(n - 1) : g.slice[k] = h.slice[k]
  <2>1. g.slice = SubSeq(h.slice, 1, n - 1)
    BY <1>2, <1>4 DEF Front
  <2>2. PICK q \in Seq(Messages) : q = h.slice /\ Len(q) = n
    BY <1>2
  <2>3. PICK w : w = SubSeq(q, 1, n - 1)
    OBVIOUS
  <2>4. w \in Seq(Messages) /\ Len(w) = n - 1 /\ \A k \in 1..(n - 1) : w[k] = q[k]
    BY <1>3, <2>2, <2>3
  <2>5. w \in [1..(n - 1) -> Messages]
    BY <2>4, LenProperties
  <2>6. QED
    BY <2>1, <2>2, <2>3, <2>4, <2>5
<1>6. g.index \in [Messages -> Int]
  BY <1>1, <1>3, <1>4
<1>7. g \in QueuesOf(n - 1)
  BY <1>1, <1>4, <1>5, <1>6 DEF QueuesOf
<1>8. \A i \in 0..(n - 2) : At(g, i) = At(h, i) /\ i \in 0..(n - 1) /\ i # n - 1
  <2> TAKE i \in 0..(n - 2)
  <2>1. i + 1 \in 1..(n - 1) /\ i \in 0..(n - 1) /\ i # n - 1
    OBVIOUS
  <2>2. QED
    BY <1>5, <2>1 DEF At
<1>9. \A i \in 0..(n - 1) : h.index[At(h, i)] = i /\ At(h, i) \in Messages
  BY <1>1, InSlice DEF Knowing
<1>10. (n - 1) - 1 = n - 2 /\ \A i \in 0..(n - 1) : i # n - 1 => i \in 0..(n - 2)
  OBVIOUS
<1> HIDE DEF x
<1>11. x = At(h, n - 1)
  BY DEF x
<1>12. ASSUME NEW i \in 0..(n - 2) PROVE g.index[At(g, i)] = i /\ At(g, i) # x
  <2>1. At(g, i) = At(h, i) /\ h.index[At(h, i)] = i /\ At(h, i) \in Messages /\ i # n - 1
    BY <1>8, <1>9
  <2>2. h.index[x] = n - 1
    BY <1>3, <1>9, <1>11
  <2>3. QED
    BY <1>1, <1>3, <1>4, <2>1, <2>2
<1>13. ASSUME NEW y \in Messages PROVE y \in A \ {x} <=> \E i \in 0..(n - 2) : At(g, i) = y
  <2>1. y \in A <=> \E i \in 0..(n - 1) : At(h, i) = y
    BY DEF Knowing
  <2>2. ASSUME NEW i \in 0..(n - 1), At(h, i) = y, y # x PROVE \E k \in 0..(n - 2) : At(g, k) = y
    <3>1. i # n - 1
      BY <1>11, <2>2
    <3>2. i \in 0..(n - 2)
      BY <1>10, <3>1
    <3>3. QED
      BY <1>8, <2>2, <3>2
  <2>3. ASSUME NEW i \in 0..(n - 2), At(g, i) = y PROVE y # x /\ \E k \in 0..(n - 1) : At(h, k) = y
    BY <1>8, <1>12, <2>3
  <2>4. QED
    BY <2>1, <2>2, <2>3
<1>14. Knowing(g, n - 1, A \ {x})
  BY <1>7, <1>10, <1>12, <1>13 DEF Knowing
<1>15. Times(g, n - 1) = Times(h, n - 1)
  BY <1>8, <1>10 DEF Times
<1>16. QED
  BY <1>4, <1>11, <1>14, <1>15 DEF g

\* After a message has changed places with the last one, only its place may
\* be out of order.
LEMMA SwapOut ==
  ASSUME NEW n \in Nat, NEW h, NEW A, Knowing(h, n, A), Sorted(Times(h, n), n),
         NEW i \in 0..(n - 2)
  PROVE  [h |-> Swap(h, i, n - 1), i |-> i] \in Sinking(n, n - 1, A, h.cap, Swap(h, i, n - 1), i)
<1> DEFINE m == n - 1
<1>1. /\ m \in 1..n /\ m \in 0..n /\ n \in 0..n
      /\ i \in 0..(n - 1) /\ n - 1 \in 0..(n - 1) /\ i \in 0..(m - 1)
  OBVIOUS
<1>2. h \in QueuesOf(n)
  BY DEF Knowing
<1>3. PICK s : s = Swap(h, i, n - 1)
  OBVIOUS
<1>4. /\ Knowing(s, n, A) /\ s.cap = h.cap
      /\ \A k \in 0..(n - 1) : k # i /\ k # n - 1 => At(s, k) = At(h, k)
  BY <1>1, <1>3, SwapDoes
<1>5. s \in QueuesOf(n)
  BY <1>4 DEF Knowing
<1>6. TimesAre(h, n, n)
  BY <1>1, <1>2, TimesIn
<1>7. TimesAre(s, m, n)
  BY <1>1, <1>5, TimesIn
<1> HIDE DEF m
<1>8. \A k \in 0..(m - 1) : k \in 0..(n - 1) /\ k # n - 1
  BY DEF m
<1>9. PICK p \in [0..(n - 1) -> Int], r \in [0..(m - 1) -> Int] :
        /\ p = Times(h, n) /\ r = Times(s, m)
        /\ \A k \in 0..(m - 1) : k # i => r[k] = p[k]
  <2>1. \A k \in 0..(m - 1) : k # i => Times(s, m)[k] = Times(h, n)[k]
    BY <1>4, <1>6, <1>7, <1>8 DEF TimesAre
  <2>2. QED
    BY <1>6, <1>7, <2>1, Zenon DEF TimesAre
<1>10. m \in Nat
  BY <1>1
<1>11. ASSUME NEW c \in 1..(m - 1), parent(c) # i, c # i PROVE r[parent(c)] =< r[c]
  <2>1. c \in 0..(m - 1) /\ parent(c) \in 0..(m - 1) /\ c \in 1..(n - 1)
    BY <1>10, ParentIn DEF m
  <2>2. p[parent(c)] =< p[c]
    BY <1>9, <2>1 DEF Sorted
  <2>3. QED
    BY <1>9, <1>11, <2>1, <2>2
<1>12. ASSUME NEW c \in 1..(m - 1), parent(c) = i, i # 0 PROVE r[parent(i)] =< r[c]
  <2>1. c \in 0..(m - 1) /\ c > i /\ c \in 1..(n - 1)
    BY <1>10, <1>12, ParentIn DEF m
  <2>2. i \in 1..(m - 1)
    BY <1>1, <1>12
  <2>3. parent(i) \in 0..(m - 1) /\ parent(i) < i /\ i \in 1..(n - 1)
    BY <1>10, <2>2, ParentIn DEF m
  <2>4. p[parent(i)] =< p[i] /\ p[i] =< p[c]
    BY <1>9, <1>12, <2>1, <2>3 DEF Sorted
  <2>5. p[parent(i)] \in Int /\ p[i] \in Int /\ p[c] \in Int
    BY <1>8, <1>9, <2>1, <2>3
  <2>6. r[parent(i)] = p[parent(i)] /\ r[c] = p[c]
    BY <1>9, <2>1, <2>3
  <2>7. QED
    BY <2>4, <2>5, <2>6
<1>13. SortedAbove(r, m, i, i)
  BY <1>11, <1>12 DEF SortedAbove
<1>14. SameFrom(s, s, m, n) /\ i =< i
  BY DEF SameFrom
<1>15. [h |-> s, i |-> i] \in Sinking(n, m, A, h.cap, s, i)
  BY <1>1, <1>4, <1>5, <1>9, <1>13, <1>14 DEF Sinking
<1>16. QED
  BY <1>3, <1>15 DEF m

\* The inductive invariant: the queue is a heap of n messages, and has room.
Heap(h, n, A) ==
  /\ Knowing(h, n, A) /\ Sorted(Times(h, n), n)
  /\ n =< h.cap /\ h.cap >= 1
QueueInv == inside \subseteq Messages /\ \E n \in Nat : Heap(pq, n, inside)

\* The length of the slice is the number of messages.
LEMMA HeapLength ==
  ASSUME NEW n \in Nat, NEW h, NEW A, Knowing(h, n, A)
  PROVE  /\ h \in QueuesOf(n) /\ h.slice \in [1..n -> Messages] /\ h.slice \in Seq(Messages)
         /\ Len(h.slice) = n /\ Len0(h) = n /\ h.cap \in Nat /\ h.index \in [Messages -> Int]
<1>1. /\ h \in QueuesOf(n) /\ h.slice \in [1..n -> Messages] /\ h.cap \in Nat
      /\ h.index \in [Messages -> Int]
  BY DEF Knowing, QueuesOf
<1>2. h.slice \in Seq(Messages) /\ Len(h.slice) = n
  BY <1>1, SliceIs
<1>3. QED
  BY <1>1, <1>2 DEF Len0

\* Push appends the message and lets it rise.
LEMMA PushKeeps ==
  ASSUME QueueInv, NEW x \in Messages, Push(x)
  PROVE  QueueInv'
<1>1. PICK n \in Nat : Heap(pq, n, inside)
  BY DEF QueueInv
<1>2. Knowing(pq, n, inside) /\ Sorted(Times(pq, n), n) /\ n =< pq.cap /\ pq.cap >= 1
  BY <1>1 DEF Heap
<1>3. /\ pq \in QueuesOf(n) /\ pq.slice \in [1..n -> Messages] /\ pq.slice \in Seq(Messages)
      /\ Len(pq.slice) = n /\ Len0(pq) = n /\ pq.cap \in Nat /\ pq.index \in [Messages -> Int]
  BY <1>2, HeapLength
<1> DEFINE h0 == [slice |-> Append(pq.slice, x),
                  cap |-> IF n + 1 > pq.cap THEN pq.cap * 2 ELSE pq.cap,
                  index |-> [pq.index EXCEPT ![x] = n]]
<1>4. x \notin inside /\ pq' = up(h0, n) /\ inside' = inside \cup {x}
  BY <1>3, Zenon DEF Push
<1>5. /\ h0.slice = Append(pq.slice, x) /\ h0.index = [pq.index EXCEPT ![x] = n]
      /\ h0.cap = IF n + 1 > pq.cap THEN pq.cap * 2 ELSE pq.cap
      /\ h0 = [slice |-> h0.slice, cap |-> h0.cap, index |-> h0.index]
  OBVIOUS
<1> HIDE DEF h0
<1>6. PICK h : h = h0
  OBVIOUS
<1>7. h.cap \in Nat /\ n + 1 =< h.cap /\ h.cap >= 1
  BY <1>2, <1>3, <1>5, <1>6
<1>8. /\ h.slice \in [1..(n + 1) -> Messages] /\ h.slice[n + 1] = x
      /\ \A k \in 1..n : h.slice[k] = pq.slice[k]
  <2>1. PICK q \in Seq(Messages) : q = pq.slice /\ Len(q) = n
    BY <1>3
  <2>2. PICK w : w = Append(q, x)
    OBVIOUS
  <2>3. w \in Seq(Messages) /\ Len(w) = n + 1 /\ w[n + 1] = x /\ \A k \in 1..n : w[k] = q[k]
    BY <2>1, <2>2
  <2>4. w \in [1..(n + 1) -> Messages]
    BY <2>3, LenProperties
  <2>5. QED
    BY <1>5, <1>6, <2>1, <2>2, <2>3, <2>4
<1>9. /\ h.index \in [Messages -> Int] /\ h.index[x] = n
      /\ \A y \in Messages : y # x => h.index[y] = pq.index[y]
  <2>1. h.index = [pq.index EXCEPT ![x] = n]
    BY <1>5, <1>6
  <2>2. PICK w \in [Messages -> Int] : w = pq.index
    BY <1>3
  <2>3. [w EXCEPT ![x] = n] \in [Messages -> Int]
    OBVIOUS
  <2>4. [w EXCEPT ![x] = n][x] = n /\ \A y \in Messages : y # x => [w EXCEPT ![x] = n][y] = w[y]
    OBVIOUS
  <2>5. QED
    BY <2>1, <2>2, <2>3, <2>4
<1>10. h \in QueuesOf(n + 1)
  BY <1>5, <1>6, <1>7, <1>8, <1>9 DEF QueuesOf
<1>11. /\ (n + 1) - 1 = n /\ n \in 0..n
       /\ \A i \in 0..n : i # n => i \in 0..(n - 1)
       /\ \A i \in 0..(n - 1) : i \in 0..n /\ i # n /\ i + 1 \in 1..n
  OBVIOUS
<1>12. At(h, n) = x /\ \A i \in 0..(n - 1) : At(h, i) = At(pq, i)
  BY <1>8, <1>11 DEF At
<1>13. \A i \in 0..(n - 1) :
         At(pq, i) \in Messages /\ pq.index[At(pq, i)] = i /\ At(pq, i) \in inside
  <2> TAKE i \in 0..(n - 1)
  <2>1. At(pq, i) \in Messages
    BY <1>3, InSlice
  <2>2. QED
    BY <1>2, <2>1 DEF Knowing
<1>14. ASSUME NEW i \in 0..n PROVE h.index[At(h, i)] = i
  <2>1. CASE i = n
    BY <1>9, <1>12, <2>1
  <2>2. CASE i # n
    BY <1>4, <1>9, <1>11, <1>12, <1>13, <2>2
  <2>3. QED
    BY <2>1, <2>2
<1>15. ASSUME NEW y \in Messages PROVE y \in inside \cup {x} <=> \E i \in 0..n : At(h, i) = y
  <2>1. y \in inside <=> \E i \in 0..(n - 1) : At(pq, i) = y
    BY <1>2 DEF Knowing
  <2>2. QED
    BY <1>11, <1>12, <2>1
<1>16. Knowing(h, n + 1, inside \cup {x})
  BY <1>10, <1>11, <1>14, <1>15 DEF Knowing
<1>17. n \in 0..n /\ n + 1 \in 1..(n + 1) /\ n + 1 \in Nat /\ n + 1 \in 0..(n + 1)
  OBVIOUS
<1>18. TimesAre(pq, n, n) /\ TimesAre(h, n + 1, n + 1)
  BY <1>3, <1>10, <1>17, TimesIn
<1>19. \A k \in 0..(n - 1) : Times(h, n + 1)[k] = Times(pq, n)[k]
  BY <1>11, <1>12, <1>18 DEF TimesAre
<1>20. SortedBut(Times(h, n + 1), n + 1, n)
  <2>1. ASSUME NEW c \in 1..n, c # n PROVE Times(h, n + 1)[parent(c)] =< Times(h, n + 1)[c]
    <3>1. c \in 1..(n - 1)
      BY <2>1
    <3>2. c \in 0..(n - 1) /\ parent(c) \in 0..(n - 1)
      BY <3>1, ParentIn
    <3>3. Times(pq, n)[parent(c)] =< Times(pq, n)[c]
      BY <1>2, <3>1 DEF Sorted
    <3>4. QED
      BY <1>19, <3>2, <3>3
  <2>2. ASSUME NEW c \in 1..n PROVE parent(c) # n
    <3>1. c \in 1..((n + 1) - 1)
      OBVIOUS
    <3>2. parent(c) \in 0..((n + 1) - 1) /\ parent(c) < c
      BY <1>17, <3>1, ParentIn
    <3>3. QED
      BY <3>2
  <2>3. QED
    BY <1>11, <2>1, <2>2 DEF SortedBut
<1>21. SameFrom(h, h, n + 1, n + 1)
  BY DEF SameFrom
<1>22. [h |-> h, j |-> n] \in Rising(n + 1, n + 1, inside \cup {x}, h.cap, h)
  BY <1>10, <1>11, <1>16, <1>20, <1>21 DEF Rising
<1>23. PICK u : /\ u = up(h, n) /\ Knowing(u, n + 1, inside \cup {x}) /\ u.cap = h.cap
                /\ Sorted(Times(u, n + 1), n + 1)
  <2>1. n \in 0..((n + 1) - 1)
    OBVIOUS
  <2>2. QED
    BY <1>17, <1>22, <2>1, UpLoop
<1>24. Heap(u, n + 1, inside \cup {x})
  BY <1>7, <1>23 DEF Heap
<1>25. pq' = u
  BY <1>4, <1>6, <1>23
<1>26. Heap(pq', n + 1, inside')
  BY <1>4, <1>24, <1>25
<1>27. inside' \subseteq Messages
  BY <1>4 DEF QueueInv
<1>28. QED
  BY <1>17, <1>26, <1>27 DEF QueueInv, Heap, Knowing, Sorted, Times, At, pri, QueuesOf, parent

\* Remove: the message's place is taken by the last one, which sinks or rises
\* to its own, and the message comes last.
LEMMA RemovedDoes ==
  ASSUME NEW n \in Nat, NEW h, NEW A, Heap(h, n, A), NEW i \in 0..(n - 1)
  PROVE  \E u : /\ u = Removed(h, i) /\ Knowing(u, n, A) /\ u.cap = h.cap
                /\ At(u, n - 1) = At(h, i) /\ Sorted(Times(u, n - 1), n - 1)
<1>1. Knowing(h, n, A) /\ Sorted(Times(h, n), n)
  BY DEF Heap
<1>2. h \in QueuesOf(n) /\ Len0(h) = n
  BY <1>1, HeapLength
<1>3. CASE i = n - 1
  <2>1. Removed(h, i) = h
    BY <1>2, <1>3, Zenon DEF Removed
  <2>2. Sorted(Times(h, n - 1), n - 1)
    <3>1. n \in 0..n /\ n - 1 \in 0..n /\ n - 1 \in Nat
      OBVIOUS
    <3>2. TimesAre(h, n, n) /\ TimesAre(h, n - 1, n)
      BY <1>2, <3>1, TimesIn
    <3>3. \A k \in 0..((n - 1) - 1) : Times(h, n - 1)[k] = Times(h, n)[k]
      BY <3>2 DEF TimesAre
    <3>4. ASSUME NEW c \in 1..((n - 1) - 1) PROVE Times(h, n - 1)[parent(c)] =< Times(h, n - 1)[c]
      <4>1. c \in 0..((n - 1) - 1) /\ parent(c) \in 0..((n - 1) - 1) /\ c \in 1..(n - 1)
        BY <3>1, ParentIn
      <4>2. Times(h, n)[parent(c)] =< Times(h, n)[c]
        BY <1>1, <4>1 DEF Sorted
      <4>3. QED
        BY <3>3, <4>1, <4>2
    <3>5. QED
      BY <3>4 DEF Sorted
  <2>3. QED
    BY <1>1, <1>3, <2>1, <2>2
<1>4. CASE i # n - 1
  <2>1. i \in 0..(n - 2) /\ n - 1 \in 1..n /\ i \in 0..((n - 1) - 1) /\ n - 1 \in 0..(n - 1)
    BY <1>4
  <2>2. PICK s : s = Swap(h, i, n - 1)
    OBVIOUS
  <2>3. At(s, n - 1) = At(h, i)
    BY <1>1, <2>1, <2>2, SwapDoes
  <2>4. [h |-> s, i |-> i] \in Sinking(n, n - 1, A, h.cap, s, i)
    BY <1>1, <2>1, <2>2, SwapOut
  <2>5. PICK d : /\ d = down(s, i, n - 1) /\ Knowing(d, n, A) /\ d.cap = h.cap
                 /\ SameFrom(d, s, n - 1, n) /\ SortedBut(Times(d, n - 1), n - 1, i)
    BY <2>1, <2>4, DownLoop
  <2>6. d \in QueuesOf(n)
    BY <2>5 DEF Knowing
  <2>7. [h |-> d, j |-> i] \in Rising(n, n - 1, A, h.cap, s)
    BY <2>1, <2>5, <2>6 DEF Rising
  <2>8. PICK u : /\ u = up(d, i) /\ Knowing(u, n, A) /\ u.cap = h.cap
                 /\ SameFrom(u, s, n - 1, n) /\ Sorted(Times(u, n - 1), n - 1)
    BY <2>1, <2>7, UpLoop
  <2>9. At(u, n - 1) = At(h, i)
    <3>1. n - 1 \in (n - 1)..(n - 1)
      OBVIOUS
    <3>2. QED
      BY <2>3, <2>8, <3>1 DEF SameFrom
  <2>10. Removed(h, i) = u
    <3>1. n - 1 # i
      BY <1>4
    <3>2. QED
      BY <1>2, <2>2, <2>5, <2>8, <3>1, Zenon DEF Removed
  <2>11. QED
    BY <2>8, <2>9, <2>10
<1>5. QED
  BY <1>3, <1>4

\* What a call leaves is the invariant again.
LEMMA HeapAgain ==
  ASSUME QueueInv, NEW n \in Nat, NEW h, NEW A, Heap(h, n, A), A \subseteq Messages,
         pq' = h, inside' = A
  PROVE  QueueInv'
<1>1. Heap(pq', n, inside')
  BY Zenon
<1>2. QED
  BY <1>1 DEF QueueInv, Heap, Knowing, Sorted, Times, At, pri, QueuesOf, parent

\* Remove() of the place a message knows takes out that message.
LEMMA RemoveKeeps ==
  ASSUME QueueInv, NEW x \in Messages, RemoveMessage(x)
  PROVE  QueueInv'
<1>1. PICK n \in Nat : Heap(pq, n, inside)
  BY DEF QueueInv
<1>2. Knowing(pq, n, inside) /\ n =< pq.cap /\ pq.cap >= 1
  BY <1>1 DEF Heap
<1>3. x \in inside /\ pq' = TakeLast(Removed(pq, pq.index[x])) /\ inside' = inside \ {x}
  BY Zenon DEF RemoveMessage
<1>4. PICK i \in 0..(n - 1) : At(pq, i) = x /\ pq.index[x] = i
  BY <1>2, <1>3 DEF Knowing
<1>5. PICK u : /\ u = Removed(pq, i) /\ Knowing(u, n, inside) /\ u.cap = pq.cap
               /\ At(u, n - 1) = x /\ Sorted(Times(u, n - 1), n - 1)
  BY <1>1, <1>4, RemovedDoes
<1>6. n \in Nat \ {0} /\ n - 1 \in Nat
  OBVIOUS
<1>7. PICK g : g = TakeLast(u)
  OBVIOUS
<1>8. Knowing(g, n - 1, inside \ {x}) /\ g.cap = pq.cap /\ Sorted(Times(g, n - 1), n - 1)
  BY <1>5, <1>6, <1>7, TakeLastKeeps
<1>9. pq.cap \in Nat
  BY <1>2, HeapLength
<1>10. Heap(g, n - 1, inside \ {x})
  BY <1>2, <1>6, <1>8, <1>9 DEF Heap
<1>11. pq' = g /\ inside' = inside \ {x}
  BY <1>3, <1>4, <1>5, <1>7
<1>12. inside \ {x} \subseteq Messages
  BY DEF QueueInv
<1>13. QED
  BY <1>6, <1>10, <1>11, <1>12, HeapAgain

\* Pop: the first message changes places with the last one, which sinks.
LEMMA PoppedDoes ==
  ASSUME NEW n \in Nat \ {0}, NEW h, NEW A, Heap(h, n, A)
  PROVE  \E u : /\ u = Popped(h) /\ Knowing(u, n, A) /\ n - 1 =< u.cap /\ u.cap >= 1
                /\ At(u, n - 1) = At(h, 0) /\ Sorted(Times(u, n - 1), n - 1)
<1>1. Knowing(h, n, A) /\ Sorted(Times(h, n), n) /\ n =< h.cap /\ h.cap >= 1
  BY DEF Heap
<1>2. h \in QueuesOf(n) /\ Len0(h) = n /\ h.cap \in Nat
  BY <1>1, HeapLength
<1>3. 0 \in 0..(n - 1) /\ n - 1 \in 0..(n - 1) /\ n - 1 \in Nat
  OBVIOUS
<1>4. PICK s : s = Swap(h, 0, n - 1)
  OBVIOUS
<1>5. At(s, n - 1) = At(h, 0) /\ Knowing(s, n, A) /\ s.cap = h.cap
  BY <1>1, <1>3, <1>4, SwapDoes
<1>6. PICK d : /\ d = down(s, 0, n - 1) /\ Knowing(d, n, A)
               /\ At(d, n - 1) = At(h, 0) /\ Sorted(Times(d, n - 1), n - 1)
  <2>1. CASE n = 1
    <3>1. down(s, 0, n - 1) = s
      BY <2>1, DownNothing
    <3>2. Sorted(Times(s, n - 1), n - 1)
      BY <2>1 DEF Sorted
    <3>3. QED
      BY <1>5, <3>1, <3>2
  <2>2. CASE n # 1
    <3>1. 0 \in 0..(n - 2) /\ n - 1 \in 1..n /\ 0 \in 0..((n - 1) - 1) /\ n \in Nat
      BY <2>2
    <3>2. [h |-> s, i |-> 0] \in Sinking(n, n - 1, A, h.cap, s, 0)
      BY <1>1, <1>4, <3>1, SwapOut
    <3>3. PICK d : /\ d = down(s, 0, n - 1) /\ Knowing(d, n, A)
                   /\ SameFrom(d, s, n - 1, n) /\ SortedBut(Times(d, n - 1), n - 1, 0)
      BY <3>1, <3>2, DownLoop
    <3>4. Sorted(Times(d, n - 1), n - 1)
      BY <3>3 DEF Sorted, SortedBut
    <3>5. n - 1 \in (n - 1)..(n - 1)
      OBVIOUS
    <3>6. At(d, n - 1) = At(h, 0)
      BY <1>5, <3>3, <3>5 DEF SameFrom
    <3>7. QED
      BY <3>3, <3>4, <3>6
  <2>3. QED
    BY <2>1, <2>2
<1> DEFINE cc == IF n < h.cap \div 2 /\ h.cap > ShrinkAbove THEN h.cap \div 2 ELSE h.cap
<1>7. cc \in Nat /\ n - 1 =< cc /\ cc >= 1
  BY <1>1, <1>2
<1>8. Popped(h) = [d EXCEPT !.cap = cc]
  BY <1>2, <1>4, <1>6, Zenon DEF Popped
<1> HIDE DEF cc
<1>9. PICK u : u = [d EXCEPT !.cap = cc]
  OBVIOUS
<1>10. d \in QueuesOf(n) /\ d = [slice |-> d.slice, cap |-> d.cap, index |-> d.index]
  BY <1>6 DEF Knowing, QueuesOf
<1>11. /\ u.slice = d.slice /\ u.index = d.index /\ u.cap = cc
       /\ u = [slice |-> u.slice, cap |-> u.cap, index |-> u.index]
  BY <1>9, <1>10
<1>12. u \in QueuesOf(n)
  BY <1>7, <1>10, <1>11 DEF QueuesOf
<1>13. \A i : At(u, i) = At(d, i)
  BY <1>11 DEF At
<1>14. Knowing(u, n, A)
  BY <1>6, <1>11, <1>12, <1>13 DEF Knowing
<1>15. Times(u, n - 1) = Times(d, n - 1)
  BY <1>13 DEF Times
<1>16. QED
  BY <1>6, <1>7, <1>8, <1>9, <1>11, <1>13, <1>14, <1>15

\* PeekAndShift takes the first message out.
LEMMA ShiftKeeps ==
  ASSUME QueueInv, NEW max, PeekAndShift(max)
  PROVE  QueueInv'
<1>1. PICK n \in Nat : Heap(pq, n, inside)
  BY DEF QueueInv
<1>2. /\ pq.slice # <<>> /\ pq' = TakeLast(Popped(pq)) /\ inside' = inside \ {At(pq, 0)}
  BY Zenon DEF PeekAndShift
<1>3. pq.slice \in Seq(Messages) /\ Len(pq.slice) = n
  BY <1>1, HeapLength DEF Heap
<1>4. n \in Nat \ {0} /\ n - 1 \in Nat
  BY <1>2, <1>3
<1>5. PICK u : /\ u = Popped(pq) /\ Knowing(u, n, inside) /\ n - 1 =< u.cap /\ u.cap >= 1
               /\ At(u, n - 1) = At(pq, 0) /\ Sorted(Times(u, n - 1), n - 1)
  BY <1>1, <1>4, PoppedDoes
<1>6. PICK g, x : g = TakeLast(u) /\ x = At(pq, 0)
  OBVIOUS
<1>7. Knowing(g, n - 1, inside \ {x}) /\ g.cap = u.cap /\ Sorted(Times(g, n - 1), n - 1)
  BY <1>4, <1>5, <1>6, TakeLastKeeps
<1>8. Heap(g, n - 1, inside \ {x})
  BY <1>5, <1>7 DEF Heap
<1>9. pq' = g /\ inside' = inside \ {x}
  BY <1>2, <1>5, <1>6
<1>10. inside \ {x} \subseteq Messages
  BY DEF QueueInv
<1>11. QED
  BY <1>4, <1>8, <1>9, <1>10, HeapAgain

\* The invariant says of the queue what InFlightHeap does.
LEMMA QueueInvSays ==
  ASSUME QueueInv
  PROVE  InFlightHeap
<1>1. PICK n \in Nat : Heap(pq, n, inside)
  BY DEF QueueInv
<1>2. Knowing(pq, n, inside) /\ Sorted(Times(pq, n), n) /\ n =< pq.cap
  BY <1>1 DEF Heap
<1>3. pq \in QueuesOf(n) /\ pq.slice \in [1..n -> Messages] /\ Len0(pq) = n
  BY <1>2, HeapLength
<1>4. \A i \in 0..(n - 1) : pq.index[At(pq, i)] = i
  BY <1>2 DEF Knowing
<1>5. \A x \in Messages : x \in inside <=> \E i \in 0..(n - 1) : At(pq, i) = x
  BY <1>2 DEF Knowing
<1>6. inside \subseteq Messages
  BY DEF QueueInv
<1>7. /\ \A k \in 1..n : k - 1 \in 0..(n - 1) /\ At(pq, k - 1) = pq.slice[k]
      /\ \A i \in 0..(n - 1) : i + 1 \in 1..n /\ At(pq, i) = pq.slice[i + 1]
  <2>1. \A k \in 1..n : k - 1 \in 0..(n - 1) /\ (k - 1) + 1 = k
    OBVIOUS
  <2>2. \A i \in 0..(n - 1) : i + 1 \in 1..n
    OBVIOUS
  <2>3. QED
    BY <2>1, <2>2 DEF At
<1>8. \A x \in Messages : x \in inside <=> \E k \in 1..n : pq.slice[k] = x
  BY <1>5, <1>7
<1>9. ToSet(pq.slice) = inside
  <2>1. ToSet(pq.slice) = {pq.slice[k] : k \in 1..n}
    BY <1>3 DEF ToSet
  <2>2. QED
    BY <1>3, <1>6, <1>8, <2>1
<1>10. \A k, l \in 1..n : pq.slice[k] = pq.slice[l] => k = l
  <2> TAKE k, l \in 1..n
  <2>1. pq.index[pq.slice[k]] = k - 1 /\ pq.index[pq.slice[l]] = l - 1
    BY <1>4, <1>7
  <2>2. QED
    BY <2>1
<1>11. Cardinality(inside) = n
  <2>1. pq.slice \in [1..n -> inside] /\ \A x \in inside : \E k \in 1..n : pq.slice[k] = x
    BY <1>3, <1>6, <1>8
  <2>2. pq.slice \in Bijection(1..n, inside)
    BY <1>10, <2>1 DEF Bijection, Injection, IsInjective, Surjection
  <2>3. ExistsBijection(1..n, inside)
    BY <2>2 DEF ExistsBijection
  <2>4. QED
    BY <2>3, FS_CountingElements
<1>12. ASSUME NEW i \in 1..(n - 1) PROVE pri(At(pq, (i - 1) \div 2)) =< pri(At(pq, i))
  <2>1. i \in 0..(n - 1) /\ i \in Nat \ {0} /\ parent(i) \in 0..(n - 1)
    BY ParentIn
  <2>2. parent(i) = (i - 1) \div 2
    BY <2>1, Parents
  <2>3. n \in 0..n
    OBVIOUS
  <2>4. TimesAre(pq, n, n)
    BY <1>3, <2>3, TimesIn
  <2>5. Times(pq, n)[parent(i)] =< Times(pq, n)[i]
    BY <1>2 DEF Sorted
  <2>6. pri(At(pq, parent(i))) =< pri(At(pq, i))
    BY <2>1, <2>4, <2>5 DEF TimesAre
  <2>7. QED
    BY <2>2, <2>6
<1>13. ASSUME NEW x \in inside, n > 0 PROVE pri(At(pq, 0)) =< pri(x)
  <2>1. PICK i \in 0..(n - 1) : At(pq, i) = x
    BY <1>5, <1>6
  <2>2. n \in 0..n /\ 0 \in 0..(n - 1)
    BY <1>13
  <2>3. TimesAre(pq, n, n)
    BY <1>3, <2>2, TimesIn
  <2>4. PICK p \in [0..(n - 1) -> Int] : p = Times(pq, n)
    BY <2>3 DEF TimesAre
  <2>5. \A k \in 0..(n - 1) : p[0] =< p[k]
    BY <1>2, <2>4, SortedFirst
  <2>6. p[0] = pri(At(pq, 0)) /\ p[i] = pri(At(pq, i))
    BY <2>2, <2>3, <2>4 DEF TimesAre
  <2>7. QED
    BY <2>1, <2>5, <2>6
<1>14. QED
  BY <1>2, <1>3, <1>4, <1>9, <1>11, <1>12, <1>13, Zenon DEF InFlightHeap

\* Whatever is pushed, shifted and removed, the in-flight queue is a heap of
\* exactly the messages that should be in it, the earliest first, each of
\* which knows its place, and its capacity suffices.
THEOREM InFlightHeapHolds == PQSpec => []InFlightHeap
<1>1. newInFlightPqueue => QueueInv
  <2> SUFFICES ASSUME newInFlightPqueue PROVE QueueInv
    OBVIOUS
  <2>1. /\ pq = [slice |-> <<>>, cap |-> PQSIZE, index |-> [x \in Messages |-> 0]]
        /\ inside = {}
    BY DEF newInFlightPqueue
  <2>2. pq.slice = <<>> /\ pq.cap = PQSIZE /\ pq.index = [x \in Messages |-> 0]
    BY <2>1
  <2>3. PQSIZE \in Nat /\ PQSIZE >= 1 /\ 0 =< PQSIZE
    BY QueueAssumption
  <2>4. <<>> \in [1..0 -> Messages] /\ 0..(0 - 1) = {} /\ 1..(0 - 1) = {}
    OBVIOUS
  <2>5. pq \in QueuesOf(0)
    BY <2>1, <2>3, <2>4 DEF QueuesOf
  <2>6. Knowing(pq, 0, inside)
    BY <2>1, <2>4, <2>5 DEF Knowing
  <2>7. Sorted(Times(pq, 0), 0)
    BY <2>4 DEF Sorted
  <2>8. Heap(pq, 0, inside)
    BY <2>2, <2>3, <2>6, <2>7 DEF Heap
  <2>9. QED
    BY <2>1, <2>8 DEF QueueInv
<1>2. QueueInv /\ [PQNext]_pqVars => QueueInv'
  <2> SUFFICES ASSUME QueueInv, [PQNext]_pqVars PROVE QueueInv'
    OBVIOUS
  <2>1. ASSUME NEW x \in Messages, Push(x) PROVE QueueInv'
    BY <2>1, PushKeeps
  <2>2. ASSUME NEW x \in Messages, RemoveMessage(x) PROVE QueueInv'
    BY <2>2, RemoveKeeps
  <2>3. ASSUME NEW max \in {pri(x) : x \in Messages}, PeekAndShift(max) PROVE QueueInv'
    BY <2>3, ShiftKeeps
  <2>4. CASE UNCHANGED pqVars
    <3>1. PICK n \in Nat : Heap(pq, n, inside)
      BY DEF QueueInv
    <3>2. QED
      BY <2>4, <3>1, HeapAgain DEF pqVars, QueueInv
  <2>5. QED
    BY <2>1, <2>2, <2>3, <2>4 DEF PQNext
<1>3. QED
  BY <1>1, <1>2, QueueInvSays, PTL DEF PQSpec

-----------------------------------------------------------------------------
(* The numbers of guid.go *)

IsPow2(f) == f = [n \in 0..WordBits |-> IF n = 0 THEN 1 ELSE 2 * f[n - 1]]

\* 1 << n, for every shift that stays in the word.
LEMMA Powers ==
  /\ Pow2 \in [0..WordBits -> Nat \ {0}]
  /\ Pow2[0] = 1
  /\ \A n \in 1..WordBits : Pow2[n] = 2 * Pow2[n - 1]
<1> DEFINE V == Nat \ {0}
           G == [n \in 1..WordBits |-> [v \in V |-> 2 * v]]
<1>1. WordBits \in Nat /\ 1 \in V /\ G \in [1..WordBits -> [V -> V]]
  BY GuidAssumption
<1>2. Definable(WordBits, V, 1, G)
  BY <1>1, Recursion, Zenon
<1>3. PICK f \in [0..WordBits -> V] : f[0] = 1 /\ \A n \in 1..WordBits : f[n] = G[n][f[n - 1]]
  BY <1>2, Zenon DEF Definable
<1>4. ASSUME NEW n \in 1..WordBits PROVE f[n] = 2 * f[n - 1]
  <2>1. n - 1 \in 0..WordBits
    BY <1>1
  <2>2. f[n - 1] \in V /\ f[n] = G[n][f[n - 1]]
    BY <1>3, <2>1
  <2>3. \A v \in V : G[n][v] = 2 * v
    OBVIOUS
  <2> HIDE DEF G, V
  <2>4. QED
    BY <2>2, <2>3
<1>5. ASSUME NEW n \in 0..WordBits PROVE f[n] = IF n = 0 THEN 1 ELSE 2 * f[n - 1]
  <2>1. CASE n = 0
    BY <1>3, <2>1
  <2>2. CASE n # 0
    BY <1>1, <1>4, <2>2
  <2>3. QED
    BY <2>1, <2>2
<1>6. IsPow2(f)
  BY <1>3, <1>5, Zenon DEF IsPow2
<1>7. Pow2 = CHOOSE g : IsPow2(g)
  BY Zenon DEF Pow2, IsPow2
<1>8. IsPow2(Pow2)
  BY <1>6, <1>7, Zenon
<1>9. /\ DOMAIN Pow2 = 0..WordBits
      /\ \A n \in 0..WordBits : Pow2[n] = IF n = 0 THEN 1 ELSE 2 * Pow2[n - 1]
      /\ Pow2 = [n \in 0..WordBits |-> Pow2[n]]
  BY <1>8, Zenon DEF IsPow2
<1>10. Pow2[0] = 1 /\ \A n \in 1..WordBits : Pow2[n] = 2 * Pow2[n - 1]
  <2>1. 0 \in 0..WordBits /\ \A n \in 1..WordBits : n \in 0..WordBits /\ n # 0
    BY <1>1
  <2>2. QED
    BY <1>9, <2>1, Zenon
<1> DEFINE S == {n \in 0..WordBits : Pow2[n] \in V}
<1>11. 0 \in S /\ \A n \in 1..WordBits : n - 1 \in S => n \in S
  BY <1>1, <1>10
<1>12. 0..WordBits \subseteq S
  <2> HIDE DEF S
  <2>1. QED
    BY <1>1, <1>11, UpTo
<1>13. QED
  BY <1>9, <1>10, <1>12

\* Shifting by one number and then by another is shifting by their sum.
LEMMA PowersAdd ==
  ASSUME NEW a \in Nat, NEW b \in Nat, a + b =< WordBits
  PROVE  Pow2[a + b] = Pow2[a] * Pow2[b]
<1> DEFINE S == {k \in 0..b : Pow2[a + k] = Pow2[a] * Pow2[k]}
<1>1. WordBits \in Nat /\ a \in 0..WordBits /\ b \in 0..WordBits /\ Pow2[a] \in Nat
  BY GuidAssumption, Powers
<1>2. 0 \in S
  BY <1>1, Powers
<1>3. ASSUME NEW k \in 1..b, k - 1 \in S PROVE k \in S
  <2>1. /\ k \in 1..WordBits /\ k - 1 \in 0..WordBits
        /\ a + k \in 1..WordBits /\ (a + k) - 1 = a + (k - 1)
    BY <1>1
  <2>2. Pow2[a + k] = 2 * Pow2[a + (k - 1)] /\ Pow2[k] = 2 * Pow2[k - 1] /\ Pow2[k - 1] \in Nat
    BY <2>1, Powers
  <2>3. \A x, y \in Nat : 2 * (x * y) = x * (2 * y)
    OBVIOUS
  <2>4. Pow2[a + k] = Pow2[a] * Pow2[k]
    BY <1>1, <1>3, <2>2, <2>3
  <2>5. QED
    BY <2>4
<1>4. 0..b \subseteq S
  <2> HIDE DEF S
  <2>1. QED
    BY <1>2, <1>3, UpTo
<1>5. QED
  BY <1>4

\* Division with a remainder, for the numbers the provers do not know.
LEMMA Divided ==
  ASSUME NEW x \in Nat, NEW t \in Nat \ {0}
  PROVE  x \div t \in Nat /\ x % t \in Nat /\ x % t < t /\ x = (x \div t) * t + (x % t)
  OBVIOUS

\* There is only one quotient and one remainder.
LEMMA Remainder ==
  ASSUME NEW x \in Nat, NEW t \in Nat \ {0}, NEW q \in Nat, NEW r \in Nat, r < t, x = q * t + r
  PROVE  x % t = r
  OBVIOUS

\* The remainder by twice a power has one bit more than that by the power.
LEMMA NextBit ==
  ASSUME NEW x \in Nat, NEW t \in Nat \ {0}
  PROVE  x % (2 * t) = (x % t) + (IF (x \div t) % 2 = 1 THEN t ELSE 0)
<1>1. PICK q \in Nat, r \in Nat : q = x \div t /\ r = x % t /\ r < t /\ x = q * t + r
  BY Divided
<1>2. PICK p \in Nat, b \in {0, 1} : b = q % 2 /\ q = 2 * p + b
  OBVIOUS
<1>3. 2 * t \in Nat \ {0}
  OBVIOUS
<1>4. CASE b = 0
  <2>1. q = 2 * p /\ \A a, c \in Nat : (2 * a) * c = a * (2 * c)
    BY <1>2, <1>4
  <2>2. q * t = p * (2 * t)
    BY <2>1
  <2>3. x = p * (2 * t) + r /\ r < 2 * t
    BY <1>1, <2>2
  <2>4. x % (2 * t) = r
    BY <1>3, <2>3, Remainder
  <2>5. (x \div t) % 2 = 0 /\ x % t = r
    BY <1>1, <1>2, <1>4
  <2>6. (IF (x \div t) % 2 = 1 THEN t ELSE 0) = 0
    BY <2>5
  <2>7. QED
    BY <2>4, <2>5, <2>6
<1>5. CASE b = 1
  <2>1. q = 2 * p + 1 /\ \A a, c \in Nat : (2 * a + 1) * c = a * (2 * c) + c
    BY <1>2, <1>5
  <2>2. q * t = p * (2 * t) + t
    BY <2>1
  <2>3. x = p * (2 * t) + (t + r) /\ t + r \in Nat /\ t + r < 2 * t
    BY <1>1, <2>2
  <2>4. x % (2 * t) = t + r
    BY <1>3, <2>3, Remainder
  <2>5. QED
    BY <1>1, <1>2, <1>5, <2>4
<1>6. QED
  BY <1>4, <1>5

IsOr(f, x, y) ==
  f = [k \in 0..WordBits |->
         IF k = 0 THEN 0
         ELSE f[k-1] + IF Bit(x, k-1) = 1 \/ Bit(y, k-1) = 1 THEN Pow2[k-1] ELSE 0]

\* The loop over the bits in x | y.
LEMMA OrLoop ==
  ASSUME NEW x \in Nat, NEW y \in Nat
  PROVE  \E f \in [0..WordBits -> Nat] :
           /\ f[0] = 0
           /\ \A k \in 1..WordBits :
                f[k] = f[k-1] + IF Bit(x, k-1) = 1 \/ Bit(y, k-1) = 1 THEN Pow2[k-1] ELSE 0
           /\ Or(x, y) = f[WordBits]
<1> DEFINE Add(k) == IF Bit(x, k-1) = 1 \/ Bit(y, k-1) = 1 THEN Pow2[k-1] ELSE 0
           V == Nat
           G == [k \in 1..WordBits |-> [v \in V |-> v + Add(k)]]
<1>1. WordBits \in Nat /\ 0 \in V /\ \A k \in 1..WordBits : Add(k) \in Nat
  <2>1. WordBits \in Nat /\ \A k \in 1..WordBits : k - 1 \in 0..WordBits
    BY GuidAssumption
  <2>2. \A k \in 1..WordBits : Pow2[k - 1] \in Nat
    BY <2>1, Powers
  <2>3. QED
    BY <2>1, <2>2
<1> HIDE DEF Add
<1>2. G \in [1..WordBits -> [V -> V]] /\ \A k \in 1..WordBits, v \in V : G[k][v] = v + Add(k)
  <2>1. \A k \in 1..WordBits : [v \in V |-> v + Add(k)] \in [V -> V]
    BY <1>1
  <2>2. QED
    BY <2>1
<1> HIDE DEF G
<1>3. Definable(WordBits, V, 0, G)
  BY <1>1, <1>2, Recursion, Zenon
<1>4. PICK f \in [0..WordBits -> V] : f[0] = 0 /\ \A n \in 1..WordBits : f[n] = G[n][f[n - 1]]
  BY <1>3, Zenon DEF Definable
<1>5. ASSUME NEW k \in 1..WordBits PROVE f[k] = f[k - 1] + Add(k)
  <2>1. k - 1 \in 0..WordBits
    BY <1>1
  <2>2. QED
    BY <1>2, <1>4, <2>1
<1>6. \A n \in 0..WordBits : n # 0 => n \in 1..WordBits
  BY <1>1
<1>7. ASSUME NEW k \in 0..WordBits PROVE f[k] = IF k = 0 THEN 0 ELSE f[k - 1] + Add(k)
  BY <1>4, <1>5, <1>6
<1>8. IsOr(f, x, y)
  BY <1>4, <1>7, Zenon DEF IsOr, Add
<1>9. Or(x, y) = (CHOOSE g : IsOr(g, x, y))[WordBits]
  BY Zenon DEF Or, IsOr
<1>10. PICK g : g = (CHOOSE h : IsOr(h, x, y)) /\ IsOr(g, x, y)
  BY <1>8, Zenon
<1>11. /\ g = [k \in 0..WordBits |-> g[k]]
       /\ \A k \in 0..WordBits : g[k] = IF k = 0 THEN 0 ELSE g[k - 1] + Add(k)
  BY <1>10, Zenon DEF IsOr, Add
<1>12. 0 \in 0..WordBits /\ \A k \in 1..WordBits : k \in 0..WordBits /\ k # 0
  BY <1>1
<1>13. g[0] = 0 /\ \A k \in 1..WordBits : g[k] = g[k - 1] + Add(k)
  BY <1>11, <1>12, Zenon
<1> DEFINE S == {k \in 0..WordBits : g[k] \in Nat}
<1>14. 0 \in S /\ \A k \in 1..WordBits : k - 1 \in S => k \in S
  BY <1>1, <1>13
<1>15. 0..WordBits \subseteq S
  <2> HIDE DEF S
  <2>1. QED
    BY <1>1, <1>14, UpTo
<1>16. g \in [0..WordBits -> Nat]
  BY <1>11, <1>15
<1>17. QED
  BY <1>9, <1>10, <1>13, <1>16, Zenon DEF Add

\* x | y has the bits of x, and no bits beyond those of x and y: it is not
\* less than x, not more than x + y, and it fits into the word.
LEMMA OrBounds ==
  ASSUME NEW x \in Nat, NEW y \in Nat, x < Pow2[WordBits]
  PROVE  Or(x, y) \in Nat /\ x =< Or(x, y) /\ Or(x, y) =< x + y /\ Or(x, y) < Pow2[WordBits]
<1>1. PICK f \in [0..WordBits -> Nat] :
           /\ f[0] = 0
           /\ \A k \in 1..WordBits :
                f[k] = f[k-1] + IF Bit(x, k-1) = 1 \/ Bit(y, k-1) = 1 THEN Pow2[k-1] ELSE 0
           /\ Or(x, y) = f[WordBits]
  BY OrLoop
<1>2. WordBits \in Nat /\ WordBits \in 0..WordBits
  BY GuidAssumption
<1> DEFINE Low(z, k) == z % Pow2[k]
           S == {k \in 0..WordBits :
                  Low(x, k) =< f[k] /\ f[k] =< Low(x, k) + Low(y, k) /\ f[k] < Pow2[k]}
<1>3. \A z \in Nat, k \in 0..WordBits : Low(z, k) \in Nat /\ Low(z, k) =< z
  <2> TAKE z \in Nat, k \in 0..WordBits
  <2>1. Pow2[k] \in Nat \ {0}
    BY Powers
  <2>2. PICK t \in Nat \ {0} : t = Pow2[k]
    BY <2>1
  <2>3. z % t \in Nat /\ z % t =< z
    OBVIOUS
  <2>4. QED
    BY <2>2, <2>3
<1>4. 0 \in S
  <2>1. Low(x, 0) = 0 /\ Low(y, 0) = 0
    BY Powers
  <2>2. QED
    BY <1>1, <1>2, <2>1, Powers
<1>5. ASSUME NEW k \in 1..WordBits, k - 1 \in S PROVE k \in S
  <2>1. k \in 0..WordBits /\ k - 1 \in 0..WordBits
    BY <1>2
  <2>2. PICK t \in Nat \ {0} : t = Pow2[k - 1] /\ 2 * t = Pow2[k]
    BY <2>1, Powers
  <2>3. \A z \in Nat : Low(z, k) = Low(z, k - 1) + (IF Bit(z, k - 1) = 1 THEN t ELSE 0)
    BY <2>2, NextBit DEF Bit
  <2>4. f[k - 1] \in Nat /\ Low(x, k - 1) \in Nat /\ Low(y, k - 1) \in Nat
    BY <1>1, <1>3, <2>1
  <2>5. Low(x, k - 1) =< f[k - 1] /\ f[k - 1] =< Low(x, k - 1) + Low(y, k - 1) /\ f[k - 1] < t
    BY <1>5, <2>2
  <2>6. f[k] = f[k - 1] + IF Bit(x, k - 1) = 1 \/ Bit(y, k - 1) = 1 THEN t ELSE 0
    BY <1>1, <2>2
  <2> HIDE DEF Low
  <2>7. Low(x, k) =< f[k] /\ f[k] =< Low(x, k) + Low(y, k) /\ f[k] < 2 * t
    <3>1. CASE Bit(x, k - 1) = 1 /\ Bit(y, k - 1) = 1
      BY <2>3, <2>4, <2>5, <2>6, <3>1
    <3>2. CASE Bit(x, k - 1) = 1 /\ Bit(y, k - 1) # 1
      BY <2>3, <2>4, <2>5, <2>6, <3>2
    <3>3. CASE Bit(x, k - 1) # 1 /\ Bit(y, k - 1) = 1
      BY <2>3, <2>4, <2>5, <2>6, <3>3
    <3>4. CASE Bit(x, k - 1) # 1 /\ Bit(y, k - 1) # 1
      BY <2>3, <2>4, <2>5, <2>6, <3>4
    <3>5. QED
      BY <3>1, <3>2, <3>3, <3>4
  <2>8. QED
    BY <2>1, <2>2, <2>7
<1>6. 0..WordBits \subseteq S
  <2> HIDE DEF S
  <2>1. QED
    BY <1>2, <1>4, <1>5, UpTo
<1>7. Low(x, WordBits) = x
  <2>1. PICK t \in Nat \ {0} : t = Pow2[WordBits]
    BY <1>2, Powers
  <2>2. x % t = x
    <3>1. x < t /\ x = 0 * t + x
      BY <2>1
    <3>2. QED
      BY <3>1, Remainder
  <2>3. QED
    BY <2>1, <2>2
<1> HIDE DEF Low
<1>8. QED
  BY <1>1, <1>2, <1>3, <1>6, <1>7

\* A number has the time in its upper bits; the upper bits of NODEID, ORed
\* into those of the time, make it larger, and by less than Pow2[OverlapBits] - 1
\* units of time.
LEMMA MakeIDBounds ==
  ASSUME NEW ts \in 0..MaxClock, NEW seq \in 0..(Pow2[sequenceBits] - 1)
  PROVE  /\ MakeID(ts, seq) \in Nat
         /\ ts * Pow2[timestampShift] =< MakeID(ts, seq)
         /\ MakeID(ts, seq) < (ts + (Pow2[OverlapBits] - 1)) * Pow2[timestampShift]
<1>1. /\ {sequenceBits, nodeIDBits, OverlapBits, WordBits, NODEID, MaxClock} \subseteq Nat
      /\ timestampShift = sequenceBits + nodeIDBits
      /\ {sequenceBits, nodeIDBits, OverlapBits, timestampShift, WordBits} \subseteq 0..WordBits
  BY GuidAssumption DEF timestampShift
<1>2. PICK S \in Nat \ {0}, M \in Nat \ {0}, T \in Nat \ {0}, K \in Nat \ {0}, W \in Nat \ {0} :
        /\ S = Pow2[sequenceBits] /\ M = Pow2[nodeIDBits] /\ T = Pow2[OverlapBits]
        /\ K = Pow2[timestampShift] /\ W = Pow2[WordBits]
  BY <1>1, Powers
<1>3. K = S * M
  <2>1. sequenceBits + nodeIDBits =< WordBits
    BY <1>1
  <2>2. QED
    BY <1>1, <1>2, <2>1, PowersAdd
<1>4. ts \in Nat /\ seq \in Nat /\ NODEID \in Nat /\ T - 1 \in Nat
  BY <1>1, <1>2
<1>5. ts * K \in Nat /\ NODEID * S \in Nat
  BY <1>4
<1>6. ts * K < W
  <2>1. MaxClock * K < W /\ ts =< MaxClock
    BY <1>1, <1>2, GuidAssumption
  <2>2. \A a, b, c \in Nat : a =< b => a * c =< b * c
    OBVIOUS
  <2>3. ts * K =< MaxClock * K
    BY <1>1, <1>4, <2>1, <2>2
  <2>4. MaxClock * K \in Nat
    BY <1>1
  <2>5. QED
    BY <1>5, <2>1, <2>3, <2>4
<1>7. PICK z \in Nat : /\ z = Or(ts * K, NODEID * S)
                       /\ ts * K =< z /\ z =< ts * K + NODEID * S /\ z < W
  BY <1>2, <1>5, <1>6, OrBounds
<1>8. /\ Or(z, seq) \in Nat /\ z =< Or(z, seq) /\ Or(z, seq) =< z + seq
      /\ MakeID(ts, seq) = Or(z, seq)
  BY <1>2, <1>4, <1>7, OrBounds DEF MakeID
<1>9. NODEID * S + seq < (T - 1) * K
  <2>1. NODEID < (T - 1) * M /\ seq < S
    BY <1>2, <1>4, GuidAssumption
  <2>2. PICK u \in Nat : u = (T - 1) * M
    BY <1>4
  <2>3. \A a, b, c \in Nat : a < b => a * c + c =< b * c
    <3> TAKE a, b, c \in Nat
    <3>1. a < b => (a + 1) * c =< b * c
      OBVIOUS
    <3>2. (a + 1) * c = a * c + c
      OBVIOUS
    <3>3. QED
      BY <3>1, <3>2
  <2>4. NODEID * S + S =< u * S
    BY <1>4, <2>1, <2>2, <2>3
  <2>5. \A a, b, c \in Nat : (a * b) * c = a * (c * b)
    OBVIOUS
  <2>6. u * S = (T - 1) * K
    BY <1>3, <1>4, <2>2, <2>5
  <2>7. (T - 1) * K \in Nat
    BY <1>4
  <2>8. QED
    BY <1>4, <1>5, <2>1, <2>4, <2>6, <2>7
<1>10. (ts + (T - 1)) * K = ts * K + (T - 1) * K /\ (T - 1) * K \in Nat
  BY <1>4
<1>11. ts * K =< MakeID(ts, seq) /\ MakeID(ts, seq) < (ts + (T - 1)) * K
  BY <1>4, <1>5, <1>7, <1>8, <1>9, <1>10
<1>12. QED
  BY <1>2, <1>8, <1>11

\* What is known of the factory's fields.
GuidTypeOK ==
  /\ clock \in 1..MaxClock
  /\ sequence \in 0..(Pow2[sequenceBits] - 1)
  /\ lastTimestamp \in 0..MaxClock
  /\ lastID \in Nat
  /\ ids \in Seq(Nat)

\* The numbers grow, and the last one is the one the factory knows.
Growing ==
  /\ \A i \in 1..(Len(ids) - 1) : ids[i] < ids[i + 1]
  /\ ids # <<>> => lastID = ids[Len(ids)]

\* Either no call has been made, or the last number was made at a time s and
\* the calls since then are not so late that the upper bits of NODEID no
\* longer hide the time.
SinceLast(s, q) ==
  /\ lastID = MakeID(s, q)
  /\ s =< lastTimestamp /\ lastTimestamp < s + (Pow2[OverlapBits] - 1)
  /\ refused \subseteq s..lastTimestamp
NearLast ==
  \/ lastTimestamp = 0 /\ lastID = 0 /\ refused = {}
  \/ \E s \in 1..MaxClock, q \in 0..(Pow2[sequenceBits] - 1) : SinceLast(s, q)

GuidInv == GuidTypeOK /\ Growing /\ NearLast

\* The constants of the factory, as the proofs use them.
LEMMA GuidConstants ==
  /\ MaxClock \in Nat \ {0} /\ Pow2[sequenceBits] \in Nat \ {0}
  /\ Pow2[timestampShift] \in Nat \ {0}
  /\ Pow2[OverlapBits] \in Nat /\ Pow2[OverlapBits] - 1 \in Nat \ {0}
<1>1. /\ {sequenceBits, nodeIDBits, OverlapBits, WordBits, NODEID, MaxClock} \subseteq Nat
      /\ MaxClock \in Nat \ {0}
      /\ {sequenceBits, nodeIDBits, OverlapBits, timestampShift, WordBits} \subseteq 0..WordBits
  BY GuidAssumption DEF timestampShift
<1>2. PICK M \in Nat \ {0}, T \in Nat \ {0} : M = Pow2[nodeIDBits] /\ T = Pow2[OverlapBits]
  BY <1>1, Powers
<1>3. T # 1
  <2> SUFFICES ASSUME T = 1 PROVE FALSE
    OBVIOUS
  <2>1. NODEID < (T - 1) * M /\ NODEID \in Nat
    BY <1>1, <1>2, GuidAssumption
  <2>2. (T - 1) * M = 0
    OBVIOUS
  <2>3. QED
    BY <2>1, <2>2
<1>4. QED
  BY <1>1, <1>2, <1>3, Powers

\* What every call of NewGUID does with the time and the sequence number.
LEMMA NewGUIDStep ==
  ASSUME GuidInv, NewGUID
  PROVE  \E seq \in 0..(Pow2[sequenceBits] - 1) :
           /\ clock' = clock /\ clock \in 1..MaxClock /\ clock >= lastTimestamp
           /\ sequence' = seq /\ lastTimestamp' = clock
           /\ clock # lastTimestamp => seq = 0
           /\ \/ /\ clock = lastTimestamp \/ MakeID(clock, seq) =< lastID
                 /\ lastID' = lastID /\ ids' = ids /\ refused' = refused \cup {clock}
              \/ /\ ~(MakeID(clock, seq) =< lastID)
                 /\ lastID' = MakeID(clock, seq) /\ ids' = Append(ids, lastID') /\ refused' = {}
<1>1. PICK S \in Nat \ {0} : S = Pow2[sequenceBits]
  BY GuidConstants
<1>2. sequence \in 0..(S - 1)
  BY <1>1 DEF GuidInv, GuidTypeOK
<1>3. (sequence + 1) % S \in 0..(S - 1) /\ 0 \in 0..(S - 1)
  BY <1>2
<1>4. NextSequence(clock) \in 0..(S - 1) /\ (clock # lastTimestamp => NextSequence(clock) = 0)
  BY <1>1, <1>3, Zenon DEF NextSequence
<1>5. /\ clock' = clock /\ clock >= lastTimestamp
      /\ sequence' = NextSequence(clock) /\ lastTimestamp' = clock
      /\ \/ /\ clock = lastTimestamp \/ MakeID(clock, NextSequence(clock)) =< lastID
            /\ lastID' = lastID /\ ids' = ids /\ refused' = refused \cup {clock}
         \/ /\ ~(MakeID(clock, NextSequence(clock)) =< lastID)
            /\ lastID' = MakeID(clock, NextSequence(clock)) /\ ids' = Append(ids, lastID')
            /\ refused' = {}
  BY Zenon DEF NewGUID, GoesBack, Refuse
<1>6. clock \in 1..MaxClock
  BY DEF GuidInv, GuidTypeOK
<1>7. QED
  BY <1>1, <1>4, <1>5, <1>6, Zenon

\* A call of NewGUID keeps the invariant: one that is refused is refused
\* because the time has not gone on, or not far enough.
LEMMA NewGUIDKeeps ==
  ASSUME GuidInv, NewGUID
  PROVE  GuidInv'
<1>1. PICK seq \in 0..(Pow2[sequenceBits] - 1) :
           /\ clock' = clock /\ clock \in 1..MaxClock /\ clock >= lastTimestamp
           /\ sequence' = seq /\ lastTimestamp' = clock
           /\ clock # lastTimestamp => seq = 0
           /\ \/ /\ clock = lastTimestamp \/ MakeID(clock, seq) =< lastID
                 /\ lastID' = lastID /\ ids' = ids /\ refused' = refused \cup {clock}
              \/ /\ ~(MakeID(clock, seq) =< lastID)
                 /\ lastID' = MakeID(clock, seq) /\ ids' = Append(ids, lastID') /\ refused' = {}
  BY NewGUIDStep, Zenon
<1>2. PICK T1 \in Nat \ {0}, K \in Nat \ {0} :
        T1 = Pow2[OverlapBits] - 1 /\ K = Pow2[timestampShift]
  BY GuidConstants
<1>3. /\ MaxClock \in Nat /\ clock \in 0..MaxClock /\ clock \in Nat \ {0}
      /\ lastTimestamp \in Nat /\ lastID \in Nat
  BY <1>1, GuidConstants DEF GuidInv, GuidTypeOK
<1>4. PICK id \in Nat : id = MakeID(clock, seq) /\ clock * K =< id
  BY <1>1, <1>2, <1>3, MakeIDBounds
<1>5. clock * K >= 1 /\ clock * K \in Nat
  BY <1>3
<1>6. CASE /\ ~(id =< lastID)
           /\ lastID' = id /\ ids' = Append(ids, id) /\ refused' = {}
  <2>1. ids \in Seq(Nat)
    BY DEF GuidInv, GuidTypeOK
  <2>2. GuidTypeOK'
    BY <1>1, <1>3, <1>6, <2>1 DEF GuidTypeOK
  <2>3. Growing'
    <3>1. /\ ids' \in Seq(Nat) /\ Len(ids') = Len(ids) + 1 /\ Len(ids) \in Nat
          /\ ids'[Len(ids) + 1] = id /\ \A i \in 1..Len(ids) : ids'[i] = ids[i]
      BY <1>6, <2>1
    <3>2. ASSUME NEW i \in 1..(Len(ids') - 1) PROVE ids'[i] < ids'[i + 1]
      <4>1. i \in 1..Len(ids) /\ ids'[i] = ids[i] /\ ids # <<>>
        BY <3>1
      <4>2. CASE i = Len(ids)
        <5>1. ids[i] = lastID
          BY <4>1, <4>2 DEF GuidInv, Growing
        <5>2. QED
          BY <1>3, <1>6, <3>1, <4>1, <4>2, <5>1
      <4>3. CASE i # Len(ids)
        <5>1. i \in 1..(Len(ids) - 1) /\ i + 1 \in 1..Len(ids)
          BY <3>1, <4>1, <4>3
        <5>2. ids[i] < ids[i + 1] /\ ids'[i + 1] = ids[i + 1]
          BY <3>1, <5>1 DEF GuidInv, Growing
        <5>3. QED
          BY <4>1, <5>2
      <4>4. QED
        BY <4>2, <4>3
    <3>3. lastID' = ids'[Len(ids')]
      BY <1>6, <3>1
    <3>4. QED
      BY <3>2, <3>3 DEF Growing
  <2>4. NearLast'
    <3>1. SinceLast(clock, seq)'
      <4>1. lastID' = MakeID(clock, seq)
        BY <1>4, <1>6
      <4>2. clock =< lastTimestamp' /\ lastTimestamp' < clock + (Pow2[OverlapBits] - 1)
        <5>1. clock =< clock /\ clock < clock + T1
          BY <1>3
        <5>2. lastTimestamp' = clock
          BY <1>1
        <5>3. QED
          BY <1>2, <5>1, <5>2, Zenon
      <4>3. refused' \subseteq clock..lastTimestamp'
        BY <1>6
      <4>4. QED
        BY <1>1, <4>1, <4>2, <4>3 DEF SinceLast, MakeID
    <3>2. QED
      BY <1>1, <3>1 DEF NearLast
  <2>5. QED
    BY <2>2, <2>3, <2>4 DEF GuidInv
<1>7. CASE /\ clock = lastTimestamp \/ id =< lastID
           /\ lastID' = lastID /\ ids' = ids /\ refused' = refused \cup {clock}
  <2>1. GuidTypeOK' /\ Growing'
    BY <1>1, <1>3, <1>7 DEF GuidInv, GuidTypeOK, Growing
  <2>2. ~(lastTimestamp = 0 /\ lastID = 0)
    BY <1>3, <1>4, <1>5, <1>7
  <2>3. PICK s \in 1..MaxClock, q \in 0..(Pow2[sequenceBits] - 1) : SinceLast(s, q)
    BY <2>2 DEF GuidInv, NearLast
  <2>4. /\ lastID = MakeID(s, q)
        /\ s =< lastTimestamp /\ lastTimestamp < s + T1
        /\ refused \subseteq s..lastTimestamp
    BY <1>2, <2>3 DEF SinceLast
  <2>5. s \in Nat /\ s \in 0..MaxClock
    BY <1>3
  <2>6. lastID < (s + T1) * K
    BY <1>2, <2>4, <2>5, MakeIDBounds
  <2>7. clock < s + T1
    <3> SUFFICES ASSUME clock >= s + T1 PROVE FALSE
      BY <1>2, <1>3, <2>5
    <3>1. clock # lastTimestamp
      BY <1>2, <1>3, <2>4, <2>5
    <3>2. clock * K =< lastID
      BY <1>3, <1>4, <1>5, <1>7, <3>1
    <3>3. \A a, b, c \in Nat : a =< b => a * c =< b * c
      OBVIOUS
    <3>4. (s + T1) * K =< clock * K /\ (s + T1) * K \in Nat
      BY <1>2, <1>3, <2>5, <3>3
    <3>5. QED
      BY <1>3, <1>5, <2>6, <3>2, <3>4
  <2>8. refused' \subseteq s..clock
    <3>1. clock \in s..clock /\ s..lastTimestamp \subseteq s..clock
      BY <1>1, <1>3, <2>4, <2>5
    <3>2. QED
      BY <1>7, <2>4, <3>1
  <2>9. SinceLast(s, q)'
    <3>1. lastID' = MakeID(s, q) /\ s =< lastTimestamp'
      BY <1>1, <1>3, <1>7, <2>4, <2>5
    <3>2. QED
      BY <1>1, <1>2, <2>7, <2>8, <3>1 DEF SinceLast, MakeID
  <2>10. QED
    BY <2>1, <2>9 DEF GuidInv, NearLast
<1>8. QED
  BY <1>1, <1>4, <1>6, <1>7, Zenon

\* The invariant says of the numbers what IdsIncrease does: the times of
\* refusals are between that of the last number and the bound.
LEMMA GuidInvSays ==
  ASSUME GuidInv
  PROVE  IdsIncrease
<1>1. PICK T1 \in Nat \ {0} : T1 = Pow2[OverlapBits] - 1 /\ Pow2[OverlapBits] = T1 + 1
  BY GuidConstants
<1>2. Cardinality(refused) =< T1 /\ Cardinality(refused) \in Nat
  <2>1. CASE refused = {}
    BY <2>1, FS_EmptySet
  <2>2. CASE refused # {}
    <3>1. PICK s \in 1..MaxClock, q \in 0..(Pow2[sequenceBits] - 1) : SinceLast(s, q)
      BY <2>2 DEF GuidInv, NearLast
    <3>2. s \in Nat /\ lastTimestamp \in Nat /\ s =< lastTimestamp /\ lastTimestamp < s + T1
      BY <1>1, <3>1, GuidConstants DEF GuidInv, GuidTypeOK, SinceLast
    <3>3. IsFiniteSet(s..lastTimestamp) /\ Cardinality(s..lastTimestamp) = (lastTimestamp - s) + 1
      BY <3>2, FS_Interval
    <3>4. refused \subseteq s..lastTimestamp
      BY <3>1 DEF SinceLast
    <3>5. IsFiniteSet(refused) /\ Cardinality(refused) =< Cardinality(s..lastTimestamp)
      BY <3>3, <3>4, FS_Subset
    <3>6. Cardinality(refused) \in Nat
      BY <3>5, FS_CardinalityType
    <3>7. QED
      BY <3>2, <3>3, <3>5, <3>6
  <2>3. QED
    BY <2>1, <2>2
<1>3. Cardinality(refused) < Pow2[OverlapBits]
  BY <1>1, <1>2
<1>4. QED
  BY <1>3 DEF GuidInv, Growing, IdsIncrease

\* The numbers NewGUID() returns increase, whatever the clock does, and
\* GenerateID() is not refused at more times than NODEID's upper bits can hide.
THEOREM GuidsIncrease == GuidSpec => []IdsIncrease
<1>1. NewGUIDFactory => GuidInv
  <2> SUFFICES ASSUME NewGUIDFactory PROVE GuidInv
    OBVIOUS
  <2>1. clock = 1 /\ sequence = 0 /\ lastTimestamp = 0 /\ lastID = 0 /\ ids = <<>> /\ refused = {}
    BY DEF NewGUIDFactory
  <2>2. GuidTypeOK
    BY <2>1, GuidConstants DEF GuidTypeOK
  <2>3. Growing /\ NearLast
    BY <2>1 DEF Growing, NearLast
  <2>4. QED
    BY <2>2, <2>3 DEF GuidInv
<1>2. GuidInv /\ [GuidNext]_guidVars => GuidInv'
  <2> SUFFICES ASSUME GuidInv, [GuidNext]_guidVars PROVE GuidInv'
    OBVIOUS
  <2>1. CASE NewGUID
    BY <2>1, NewGUIDKeeps
  <2>2. ASSUME UNCHANGED <<sequence, lastTimestamp, lastID, ids, refused>>, clock' \in 1..MaxClock
        PROVE  GuidInv'
    BY <2>2 DEF GuidInv, GuidTypeOK, Growing, NearLast, SinceLast, MakeID
  <2>3. CASE (Tick \/ SetBack) /\ UNCHANGED <<sequence, lastTimestamp, lastID, ids, refused>>
    <3>1. clock' \in 1..MaxClock
      BY <2>3, GuidConstants DEF Tick, SetBack, GuidInv, GuidTypeOK
    <3>2. QED
      BY <2>2, <2>3, <3>1
  <2>4. CASE UNCHANGED guidVars
    BY <2>2, <2>4 DEF guidVars, GuidInv, GuidTypeOK
  <2>5. QED
    BY <2>1, <2>3, <2>4 DEF GuidNext
<1>3. QED
  BY <1>1, <1>2, GuidInvSays, PTL DEF GuidSpec

-----------------------------------------------------------------------------
(* TimerLoop: the pass over the timers *)

\* The timers that have been made have their place in the order, which no two share.
TimerTypes ==
  /\ time \in Nat
  /\ key \in [Timers -> Nat] /\ interval \in [Timers -> Nat]
  /\ \A n \in Timers : key[n] # 0 => key[n] % (MaxTimers + 1) = n
  /\ live \subseteq {n \in Timers : key[n] # 0} /\ owed \subseteq live
  /\ pass \in [pc : {"idle", "walk", "callback"}, now : Nat,
               te : live \cup {NULL}, next : live \cup {NULL}]

\* x is where the walk has to go on, for the timers S that it still has to come to.
Ahead(x, S) == S # {} => x # NULL /\ \A n \in S : key[x] =< key[n]

\* In a callback the walk goes on at next, which is not the timer about to go.
Walk ==
  /\ \A n \in owed : Timeout(n) =< pass.now
  /\ pass.pc = "idle" => owed = {}
  /\ pass.pc # "callback" => pass.next = NULL
  /\ Ahead(pass.te, owed)
  /\ pass.pc = "callback" => /\ pass.te \in live /\ pass.next # pass.te
                             /\ Ahead(pass.next, owed \ {pass.te})

TimerInv == TimerTypes /\ Walk

\* Timers are numbers other than NULL.
LEMMA TimerNumbers ==
  /\ MaxTimers + 1 \in Nat \ {0}
  /\ \A n \in Timers : n \in Nat /\ n # NULL /\ n < MaxTimers + 1
  /\ \A tv \in Intervals : tv \in Nat
  BY TimerAssumption DEF Timers, NULL

\* The first of the timers is there.
LEMMA EarliestIs ==
  ASSUME TimerTypes, NEW S \in SUBSET live
  PROVE  /\ S = {} => Earliest(S) = NULL
         /\ S # {} => Earliest(S) \in S /\ \A m \in S : key[Earliest(S)] =< key[m]
<1>1. CASE S = {}
  BY <1>1 DEF Earliest
<1>2. CASE S # {}
  <2>1. S \subseteq Timers /\ key \in [Timers -> Nat]
    BY DEF TimerTypes
  <2>2. {key[n] : n \in S} \in SUBSET Nat /\ {key[n] : n \in S} # {}
    BY <1>2, <2>1
  <2>3. PICK k \in {key[n] : n \in S} : \A y \in {key[n] : n \in S} : k =< y
    BY <2>2, LeastNumber
  <2>4. \E n \in S : \A m \in S : key[n] =< key[m]
    BY <2>3
  <2>5. QED
    BY <1>2, <2>4, Zenon DEF Earliest
<1>3. QED
  BY <1>1, <1>2

\* A timer before one that is due is due.
LEMMA DueBefore ==
  ASSUME NEW a \in Nat, NEW b \in Nat, a =< b
  PROVE  a \div (MaxTimers + 1) =< b \div (MaxTimers + 1)
<1> DEFINE K == MaxTimers + 1
           p == a \div K
           q == b \div K
           r == a % K
           s == b % K
<1>1. K \in Nat \ {0}
  BY TimerNumbers
<1>2. /\ p \in Nat /\ r \in Nat /\ a = p * K + r
      /\ q \in Nat /\ s \in Nat /\ s < K /\ b = q * K + s
  BY <1>1, Divided
<1> HIDE DEF K, p, q, r, s
<1>3. ASSUME q < p PROVE FALSE
  <2>1. PICK d \in Nat : p = q + 1 + d
    <3>1. p - q - 1 \in Nat /\ p = q + 1 + (p - q - 1)
      BY <1>2, <1>3
    <3>2. QED
      BY <3>1
  <2>2. d * K \in Nat /\ q * K \in Nat
    BY <1>1, <1>2
  <2>3. (q + 1 + d) * K = q * K + K + d * K
    BY <1>1, <1>2
  <2>4. p * K = q * K + K + d * K
    BY <2>1, <2>3
  <2>5. QED
    BY <1>1, <1>2, <2>2, <2>4
<1>4. p =< q
  BY <1>2, <1>3
<1>5. QED
  BY <1>4 DEF p, q, K

\* A timer that is made has a place of its own; the others keep theirs.
LEMMA MadeDoes ==
  ASSUME TimerTypes, NEW n \in Unused, NEW tv \in Nat, Made(n, tv)
  PROVE  /\ n \in Timers /\ n \notin live
         /\ key' \in [Timers -> Nat] /\ interval' \in [Timers -> Nat]
         /\ \A m \in Timers : key'[m] # 0 => key'[m] % (MaxTimers + 1) = m
         /\ key'[n] # 0 /\ \A m \in Timers : m # n => key'[m] = key[m]
<1> DEFINE K == MaxTimers + 1
           k == (time + tv) * K + n
<1>1. /\ n \in Timers /\ key[n] = 0 /\ n \notin live
      /\ key \in [Timers -> Nat] /\ interval \in [Timers -> Nat]
      /\ time + tv \in Nat /\ K \in Nat \ {0} /\ n \in Nat /\ n # 0 /\ n < K
  BY TimerNumbers DEF Unused, TimerTypes, NULL
<1>2. k \in Nat /\ k # 0
  <2>1. (time + tv) * K \in Nat
    BY <1>1
  <2>2. QED
    BY <1>1, <2>1
<1>3. k % K = n
  BY <1>1, <1>2, Remainder
<1>4. key' = [key EXCEPT ![n] = k] /\ interval' = [interval EXCEPT ![n] = tv]
  BY DEF Made, TimerKey
<1> HIDE DEF k, K
<1>5. \A m \in Timers : key[m] # 0 => key[m] % K = m
  BY DEF TimerTypes, K
<1>6. \A m \in Timers : key'[m] # 0 => key'[m] % K = m
  BY <1>1, <1>3, <1>4, <1>5
<1>7. QED
  BY <1>1, <1>2, <1>4, <1>6 DEF K

\* A timer made from outside a pass or from a callback does not disturb the walk.
LEMMA CreateKeeps ==
  ASSUME TimerInv, NEW n \in Unused, NEW tv \in Intervals, aeCreateTimeEvent(n, tv)
  PROVE  TimerInv'
<1>0. TimerTypes /\ Walk /\ tv \in Nat
  BY TimerNumbers DEF TimerInv
<1>1. /\ n \in Timers /\ n \notin live
      /\ key' \in [Timers -> Nat] /\ interval' \in [Timers -> Nat]
      /\ \A m \in Timers : key'[m] # 0 => key'[m] % (MaxTimers + 1) = m
      /\ key'[n] # 0 /\ \A m \in Timers : m # n => key'[m] = key[m]
  BY <1>0, MadeDoes DEF aeCreateTimeEvent
<1>2. live' = live \cup {n} /\ UNCHANGED <<time, pass, owed>>
  BY DEF aeCreateTimeEvent
<1>3. live \subseteq Timers /\ owed \subseteq live /\ \A m \in live : key'[m] = key[m]
  BY <1>0, <1>1 DEF TimerTypes
<1>4. TimerTypes'
  <2>1. live' \subseteq {m \in Timers : key'[m] # 0} /\ owed' \subseteq live'
    BY <1>0, <1>1, <1>2, <1>3 DEF TimerTypes
  <2>2. pass' \in [pc : {"idle", "walk", "callback"}, now : Nat,
                   te : live' \cup {NULL}, next : live' \cup {NULL}]
    BY <1>0, <1>2 DEF TimerTypes
  <2>3. QED
    BY <1>0, <1>1, <1>2, <2>1, <2>2 DEF TimerTypes
<1>5. pass.te \in live \cup {NULL} /\ pass.next \in live \cup {NULL}
  BY <1>0 DEF TimerTypes
<1>6. Walk'
  BY <1>0, <1>2, <1>3, <1>5 DEF Walk, Ahead, Timeout
<1>7. QED
  BY <1>4, <1>6 DEF TimerInv

\* The pass begins at the earliest timer.
LEMMA BeginKeeps ==
  ASSUME TimerInv, PassBegin(Earliest(live))
  PROVE  TimerInv'
<1> DEFINE first == Earliest(live)
           all == {n \in live : Due(n, time)}
<1>0. TimerTypes /\ live \subseteq Timers /\ key \in [Timers -> Nat] /\ time \in Nat
  BY DEF TimerInv, TimerTypes
<1>1. /\ live = {} => first = NULL
      /\ live # {} => first \in live /\ \A m \in live : key[first] =< key[m]
  BY <1>0, EarliestIs
<1> HIDE DEF first
<1>2. /\ pass' = [pc |-> "walk", now |-> time, te |-> first, next |-> NULL]
      /\ owed' = all /\ UNCHANGED <<key, interval, time, live>>
  BY DEF PassBegin, first
<1>3. pass'.pc = "walk" /\ pass'.now = time /\ pass'.te = first /\ pass'.next = NULL
  BY <1>2
<1>4. \A n \in all : n \in live /\ Timeout(n) =< time
  BY <1>0, TimerNumbers DEF Due
<1>5. all # {} => first # NULL /\ \A m \in all : key[first] =< key[m]
  BY <1>0, <1>1, TimerNumbers
<1>6. first \in live \cup {NULL}
  BY <1>1
<1>7. pass' \in [pc : {"idle", "walk", "callback"}, now : Nat,
                 te : live \cup {NULL}, next : live \cup {NULL}]
  BY <1>0, <1>2, <1>6
<1> HIDE DEF all
<1>8. TimerTypes'
  BY <1>0, <1>2, <1>4, <1>7 DEF TimerTypes
<1>9. Walk'
  <2>1. \A n \in owed' : Timeout(n)' =< pass'.now
    BY <1>2, <1>3, <1>4 DEF Timeout
  <2>2. Ahead(pass.te, owed)'
    BY <1>2, <1>3, <1>5 DEF Ahead
  <2>3. QED
    BY <1>3, <2>1, <2>2 DEF Walk
<1>10. QED
  BY <1>8, <1>9 DEF TimerInv

\* The timer read before the callback is where the walk has to go on after it.
LEMMA CallKeeps ==
  ASSUME TimerInv, PassCall(After(pass.te))
  PROVE  TimerInv'
<1> DEFINE te == pass.te
           later == {m \in live : key[m] > key[te]}
           next == Earliest(later)
<1>0. /\ TimerTypes /\ Walk /\ key \in [Timers -> Nat]
      /\ live \subseteq Timers /\ owed \subseteq live
      /\ te \in live \cup {NULL} /\ pass.now \in Nat
  BY DEF TimerInv, TimerTypes
<1>1. te \in live /\ pass.pc = "walk"
  BY <1>0 DEF PassCall, Due
<1>2. /\ later = {} => next = NULL
      /\ later # {} => next \in later /\ \A m \in later : key[next] =< key[m]
  BY <1>0, EarliestIs
<1>3. /\ pass' = [pass EXCEPT !.pc = "callback", !.next = next]
      /\ UNCHANGED <<key, interval, time, live, owed>>
  BY DEF PassCall, After
<1> HIDE DEF next
<1>4. next \in live \cup {NULL} /\ next # te
  BY <1>0, <1>1, <1>2, TimerNumbers
<1>5. \A n \in owed \ {te} : n \in later
  <2>1. ASSUME NEW n \in owed \ {te} PROVE key[n] > key[te]
    <3>1. /\ n \in live /\ n \in Timers /\ te \in Timers /\ key[n] \in Nat /\ key[te] \in Nat
          /\ key[te] =< key[n] /\ n # te /\ key[n] # 0 /\ key[te] # 0
      BY <1>0, <1>1 DEF TimerTypes, Walk, Ahead
    <3>2. key[n] # key[te]
      BY <1>0, <3>1 DEF TimerTypes
    <3>3. QED
      BY <3>1, <3>2
  <2>2. QED
    BY <1>0, <2>1
<1>6. owed \ {te} # {} => next # NULL /\ \A n \in owed \ {te} : key[next] =< key[n]
  BY <1>0, <1>2, <1>5, TimerNumbers
<1>7. /\ pass' \in [pc : {"idle", "walk", "callback"}, now : Nat,
                    te : live \cup {NULL}, next : live \cup {NULL}]
      /\ pass'.pc = "callback" /\ pass'.now = pass.now /\ pass'.te = te /\ pass'.next = next
  BY <1>0, <1>3, <1>4 DEF TimerTypes
<1> HIDE DEF te
<1>8. TimerTypes'
  BY <1>0, <1>3, <1>7 DEF TimerTypes
<1>9. Walk'
  <2>1. Ahead(pass.te, owed)'
    BY <1>0, <1>3, <1>7 DEF Walk, Ahead, te
  <2>2. Ahead(pass.next, owed \ {pass.te})'
    BY <1>3, <1>6, <1>7 DEF Ahead
  <2>3. \A n \in owed' : Timeout(n)' =< pass'.now
    BY <1>0, <1>3, <1>7 DEF Walk, Timeout
  <2>4. QED
    BY <1>1, <1>3, <1>4, <1>7, <2>1, <2>2, <2>3 DEF Walk
<1>10. QED
  BY <1>8, <1>9 DEF TimerInv

\* The timer that has run goes, and the walk goes on at next.
LEMMA GoneKeeps ==
  ASSUME TimerInv, Gone,
         key' \in [Timers -> Nat], interval' \in [Timers -> Nat],
         \A m \in Timers : key'[m] # 0 => key'[m] % (MaxTimers + 1) = m,
         live' \subseteq {m \in Timers : key'[m] # 0}, live \ {pass.te} \subseteq live',
         \A m \in live : key'[m] = key[m]
  PROVE  TimerInv'
<1> DEFINE te == pass.te
           next == pass.next
<1>0. /\ TimerTypes /\ Walk /\ owed \subseteq live /\ pass.now \in Nat
      /\ te \in live /\ next # te /\ next \in live \cup {NULL}
      /\ Ahead(next, owed \ {te})
  BY DEF TimerInv, TimerTypes, Gone, Walk
<1>1. /\ pass' = [pass EXCEPT !.pc = "walk", !.te = next, !.next = NULL]
      /\ owed' = owed \ {te} /\ time' = time
  BY DEF Gone
<1>2. next \in live' \cup {NULL} /\ owed' \subseteq live'
  BY <1>0, <1>1
<1>3. /\ pass' \in [pc : {"idle", "walk", "callback"}, now : Nat,
                    te : live' \cup {NULL}, next : live' \cup {NULL}]
      /\ pass'.pc = "walk" /\ pass'.now = pass.now /\ pass'.te = next /\ pass'.next = NULL
  BY <1>0, <1>1, <1>2 DEF TimerTypes
<1> HIDE DEF te, next
<1>4. TimerTypes'
  BY <1>0, <1>1, <1>2, <1>3 DEF TimerTypes
<1>5. Walk'
  <2>1. Ahead(pass.te, owed)'
    BY <1>0, <1>1, <1>3 DEF Ahead
  <2>2. \A n \in owed' : Timeout(n)' =< pass'.now
    BY <1>0, <1>1, <1>3 DEF Walk, Timeout
  <2>3. QED
    BY <1>3, <2>1, <2>2 DEF Walk
<1>6. QED
  BY <1>4, <1>5 DEF TimerInv

\* The callback returns, with or without a timer for the next time.
LEMMA ReturnKeeps ==
  ASSUME TimerInv, PassReturn \/ \E n \in Unused : PassAgain(n)
  PROVE  TimerInv'
<1>0. TimerTypes
  BY DEF TimerInv
<1>1. CASE PassReturn
  <2>1. Gone /\ live' = live \ {pass.te} /\ UNCHANGED <<key, interval>>
    BY <1>1 DEF PassReturn
  <2>2. QED
    BY <1>0, <2>1, GoneKeeps DEF TimerTypes
<1>2. CASE \E n \in Unused : PassAgain(n)
  <2>1. PICK n \in Unused : PassAgain(n)
    BY <1>2
  <2>2. /\ Gone /\ live' = (live \cup {n}) \ {pass.te} /\ Made(n, interval[pass.te])
        /\ pass.te \in live
    BY <2>1 DEF PassAgain, Gone, TimerInv, Walk
  <2>3. interval[pass.te] \in Nat /\ live \subseteq Timers
    BY <1>0, <2>2 DEF TimerTypes
  <2>4. /\ n \in Timers /\ n \notin live
        /\ key' \in [Timers -> Nat] /\ interval' \in [Timers -> Nat]
        /\ \A m \in Timers : key'[m] # 0 => key'[m] % (MaxTimers + 1) = m
        /\ key'[n] # 0 /\ \A m \in Timers : m # n => key'[m] = key[m]
    BY <1>0, <2>2, <2>3, MadeDoes
  <2>5. /\ \A m \in live : key'[m] = key[m]
        /\ live' \subseteq {m \in Timers : key'[m] # 0}
    BY <1>0, <2>2, <2>3, <2>4 DEF TimerTypes
  <2>6. QED
    BY <2>2, <2>4, <2>5, GoneKeeps
<1>3. QED
  BY <1>1, <1>2

\* When the walk stops, at a timer that is not due or at the end, none is owed.
LEMMA EndKeeps ==
  ASSUME TimerInv, PassEnd
  PROVE  TimerInv'
<1>0. TimerTypes /\ Walk
  BY DEF TimerInv
<1>1. owed = {}
  <2> SUFFICES ASSUME NEW n \in owed PROVE FALSE
    OBVIOUS
  <2>1. /\ pass.te # NULL /\ key[pass.te] =< key[n] /\ Timeout(n) =< pass.now /\ pass.now \in Nat
        /\ key[pass.te] \in Nat /\ key[n] \in Nat
    BY <1>0 DEF TimerTypes, Walk, Ahead
  <2>2. Timeout(pass.te) =< Timeout(n) /\ Timeout(pass.te) \in Nat /\ Timeout(n) \in Nat
    BY <2>1, DueBefore, Divided, TimerNumbers DEF Timeout
  <2>3. Due(pass.te, pass.now)
    BY <2>1, <2>2 DEF Due
  <2>4. QED
    BY <2>3 DEF PassEnd
<1>2. pass' = Idle /\ UNCHANGED <<key, interval, time, live, owed>>
  BY DEF PassEnd
<1>3. TimerTypes'
  BY <1>0, <1>2 DEF TimerTypes, Idle
<1>4. Walk'
  BY <1>1, <1>2 DEF Walk, Ahead, Idle
<1>5. QED
  BY <1>3, <1>4 DEF TimerInv

\* Before the first timer.
LEMMA TimerInvInit == TimerInit => TimerInv
<1> SUFFICES ASSUME TimerInit PROVE TimerInv
  OBVIOUS
<1>1. TimerTypes
  BY DEF TimerInit, TimerTypes, Idle
<1>2. Walk
  BY DEF TimerInit, Walk, Ahead, Idle
<1>3. QED
  BY <1>1, <1>2 DEF TimerInv

\* Every step keeps the invariant.
LEMMA TimerInvStep == TimerInv /\ [TimerNext]_timerVars => TimerInv'
<1> SUFFICES ASSUME TimerInv, [TimerNext]_timerVars PROVE TimerInv'
  OBVIOUS
<1>1. CASE TimePasses
  <2>1. time' \in Nat /\ UNCHANGED <<key, interval, pass, live, owed>>
    BY <1>1 DEF TimePasses, TimerInv, TimerTypes
  <2>2. QED
    BY <2>1 DEF TimerInv, TimerTypes, Walk, Ahead, Timeout
<1>2. CASE UNCHANGED timerVars
  BY <1>2 DEF timerVars, TimerInv, TimerTypes, Walk, Ahead, Timeout
<1>3. QED
  BY <1>1, <1>2, CreateKeeps, BeginKeeps, CallKeeps, ReturnKeeps, EndKeeps DEF TimerNext

\* The pass over the timers calls each that was due when it began, the earlier
\* first, whatever timers the callbacks and the timers themselves make meanwhile.
THEOREM DueTimersRunHolds == TimerSpec => []DueTimersRun
<1>1. TimerInv => DueTimersRun
  BY DEF TimerInv, TimerTypes, Walk, Ahead, DueTimersRun
<1>2. QED
  BY <1>1, TimerInvInit, TimerInvStep, PTL DEF TimerSpec
=============================================================================
