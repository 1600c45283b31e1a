--------------------------- MODULE InFlightQueue ---------------------------
(* nsqd/in_flight_pqueue.go: the priority queue of the messages a channel    *)
(* has handed out, a heap in a slice whose messages know where they are.     *)
(* PeekAndShift() and Remove() take messages out again; channel.go only      *)
(* pushes so far.                                                            *)
EXTENDS Integers, Sequences, SequencesExt, FiniteSets

CONSTANTS Messages,
          DueTime,      \* the time of each, its field pri
          PQSIZE,       \* the first capacity
          ShrinkAbove   \* 25: a slice of this capacity is not made smaller

ASSUME QueueAssumption ==
  /\ DueTime \in [Messages -> Int]   \* two messages may have the same time
  /\ PQSIZE \in Nat \ {0}
  /\ ShrinkAbove \in Nat

(* pq is [slice, cap, index]: the messages in heap order, the capacity, and  *)
(* the index field of every message; inside is what a user of the queue      *)
(* expects in it.                                                            *)
VARIABLES pq, inside
pqVars == <<pq, inside>>

pri(x) == DueTime[x]

At(h, i) == h.slice[i + 1]
Len0(h) == Len(h.slice)

newInFlightPqueue ==
  /\ pq = [slice |-> <<>>, cap |-> PQSIZE, index |-> [x \in Messages |-> 0]]
  /\ inside = {}

Swap(h, i, j) ==
  [slice |-> [h.slice EXCEPT ![i + 1] = At(h, j), ![j + 1] = At(h, i)],
   cap |-> h.cap,
   index |-> [h.index EXCEPT ![At(h, j)] = i, ![At(h, i)] = j]]

parent(j) == IF j = 0 THEN 0 ELSE (j - 1) \div 2  \* Go: -1 / 2 is 0

(* One turn of the loop in up(), which a break leaves as it is: the queue    *)
(* and j after it.  j is smaller after every turn, so there are at most j.   *)
UpTurn(s) ==
  LET i == parent(s.j)
  IN IF i = s.j \/ pri(At(s.h, s.j)) >= pri(At(s.h, i)) THEN s
     ELSE [h |-> Swap(s.h, i, s.j), j |-> i]

up(h, j) ==
  LET turn[k \in 0..j] == IF k = 0 THEN [h |-> h, j |-> j] ELSE UpTurn(turn[k - 1])
  IN turn[j].h

(* The same for down(): i is larger after every turn, and less than n.       *)
DownTurn(s, n) ==
  LET j1 == 2 * s.i + 1
      j == IF j1 + 1 < n /\ pri(At(s.h, j1)) >= pri(At(s.h, j1 + 1)) THEN j1 + 1 ELSE j1
  IN IF j1 >= n \/ pri(At(s.h, j)) >= pri(At(s.h, s.i)) THEN s
     ELSE [h |-> Swap(s.h, s.i, j), i |-> j]

down(h, i, n) ==
  LET turn[k \in 0..n] == IF k = 0 THEN [h |-> h, i |-> i] ELSE DownTurn(turn[k - 1], n)
  IN turn[n].h

Push(x) ==
  LET n == Len0(pq)
      h == [slice |-> Append(pq.slice, x),
            cap |-> IF n + 1 > pq.cap THEN pq.cap * 2 ELSE pq.cap,
            index |-> [pq.index EXCEPT ![x] = n]]
  IN /\ x \notin inside
     /\ pq' = up(h, n)
     /\ inside' = inside \cup {x}

(* The last message of the slice, taken out.                                 *)
Last0(h) == At(h, Len0(h) - 1)
TakeLast(h) ==
  [slice |-> Front(h.slice), cap |-> h.cap, index |-> [h.index EXCEPT ![Last0(h)] = -1]]

Popped(h) ==
  LET n == Len0(h)  c == h.cap
      d == down(Swap(h, 0, n - 1), 0, n - 1)
  IN [d EXCEPT !.cap = IF n < c \div 2 /\ c > ShrinkAbove THEN c \div 2 ELSE c]

\* Mutant: the message that takes the free place only goes down.
RemovedDown(h, i) ==
  LET n == Len0(h) IN IF n - 1 = i THEN h ELSE down(Swap(h, i, n - 1), i, n - 1)

Removed(h, i) ==
  LET n == Len0(h) IN IF n - 1 = i THEN h ELSE up(down(Swap(h, i, n - 1), i, n - 1), i)

(* The message whose index field is i, as its owner asks for it.             *)
RemoveMessage(x) ==
  LET h == Removed(pq, pq.index[x])
  IN /\ x \in inside
     /\ pq' = TakeLast(h)
     /\ inside' = inside \ {x}

(* max is a time: messages that are due later stay.                          *)
PeekAndShift(max) ==
  /\ pq.slice # <<>> /\ pri(At(pq, 0)) =< max
  /\ pq' = TakeLast(Popped(pq))
  /\ inside' = inside \ {At(pq, 0)}

PQNext == \/ \E x \in Messages : Push(x) \/ RemoveMessage(x)
          \/ \E max \in {pri(x) : x \in Messages} : PeekAndShift(max)

PQSpec == newInFlightPqueue /\ [][PQNext]_pqVars

----------------------------------------------------------------------------
(* However messages are pushed, taken in the order of their times and        *)
(* removed from the middle, the queue holds exactly those it should, the     *)
(* earliest is the one PeekAndShift() looks at, no message is before its     *)
(* parent in the heap, every message knows its place, and the slice has room *)
(* for them.                                                                 *)
InFlightHeap ==
  LET n == Len0(pq) IN
  /\ ToSet(pq.slice) = inside /\ n = Cardinality(inside) /\ n =< pq.cap
  /\ n > 0 => \A x \in inside : pri(At(pq, 0)) =< pri(x)
  /\ \A i \in 1..(n - 1) : pri(At(pq, (i - 1) \div 2)) =< pri(At(pq, i))
  /\ \A i \in 0..(n - 1) : pq.index[At(pq, i)] = i
=============================================================================
