--------------------------- MODULE JsonIterator ----------------------------
(* json.hpp: iter_impl and json_reverse_iterator, the constructor from a     *)
(* range, and the accessors that are written with iterators.                 *)
(*                                                                           *)
(* An iterator is [id, j, pos]: the container (m_object, told apart by id)   *)
(* with its value, and the position in it, an object's elements being in the *)
(* order of their keys.  Results are values or Throw.                        *)
EXTENDS JsonValue

Iter(id, j, pos) == [id |-> id, j |-> j, pos |-> pos]

(* On a value that is not a container begin is 0 and end is 1; null has no   *)
(* elements.                                                                 *)
set_begin(j) == IF j = Null THEN 1 ELSE 0
set_end(j) == IF is_array(j) \/ is_object(j) THEN size(j) ELSE 1
begin(id, j) == Iter(id, j, set_begin(j))
end(id, j) == Iter(id, j, set_end(j))

(* operator*; the end of a container must not be dereferenced (assert).      *)
Dereference(it) ==
  LET j == it.j IN
  CASE is_array(j) -> j[2][it.pos + 1]
    [] is_object(j) -> j[2][Keys(j)[it.pos + 1]]
    [] OTHER -> IF j # Null /\ it.pos = 0 THEN j ELSE Throw("out_of_range")
key(it) == IF is_object(it.j) THEN String(Keys(it.j)[it.pos + 1]) ELSE Throw("domain_error")

Increment(it) == [it EXCEPT !.pos = @ + 1]
Decrement(it) == [it EXCEPT !.pos = @ - 1]

(* +=, -, < and [] are for all but objects; == and < for one container.      *)
PlusAssign(it, n) == IF is_object(it.j) THEN Throw("domain_error") ELSE [it EXCEPT !.pos = @ + n]
Distance(a, b) == IF is_object(a.j) THEN Throw("domain_error") ELSE <<"int", a.pos - b.pos>>
IterEqual(a, b) == IF a.id # b.id THEN Throw("domain_error") ELSE Boolean(a.pos = b.pos)
IterLess(a, b) == IF a.id # b.id \/ is_object(a.j) THEN Throw("domain_error") ELSE Boolean(a.pos < b.pos)
Subscript(it, n) ==
  IF is_object(it.j) THEN Throw("domain_error")
  ELSE IF is_array(it.j) THEN Dereference(PlusAssign(it, n))
  ELSE IF it.j # Null /\ it.pos = -n THEN it.j ELSE Throw("out_of_range")

(* A json_reverse_iterator is the iterator behind the element it stands for. *)
ReverseDereference(it) == Dereference(Decrement(it))

(* basic_json(first, last).                                                  *)
FromRange(first, last) ==
  LET j == first.j  taken == ToSet(SubSeq(Keys(j), first.pos + 1, last.pos)) IN
  CASE first.id # last.id \/ j = Null -> Throw("domain_error")
    [] is_array(j) -> Array(SubSeq(j[2], first.pos + 1, last.pos))
    [] is_object(j) -> Object([k \in taken |-> j[2][k]])
    [] OTHER -> IF first.pos = 0 /\ last.pos = 1 THEN j ELSE Throw("out_of_range")

find(id, j, k) ==
  IF is_object(j) /\ k \in DOMAIN j[2]
  THEN Iter(id, j, (CHOOSE p \in DOMAIN Keys(j) : Keys(j)[p] = k) - 1) ELSE end(id, j)
count(j, k) == IF is_object(j) /\ k \in DOMAIN j[2] THEN 1 ELSE 0
front(j) == Dereference(begin(0, j))
back(j) == ReverseDereference(end(0, j))

(* What the loops from begin() to end() and from rbegin() to rend() meet.    *)
RECURSIVE Loop(_, _), ReverseLoop(_, _)
Loop(it, last) ==
  IF IterEqual(it, last)[2] THEN <<>> ELSE <<Dereference(it)>> \o Loop(Increment(it), last)
ReverseLoop(it, last) ==
  IF IterEqual(it, last)[2] THEN <<>> ELSE <<ReverseDereference(it)>> \o ReverseLoop(Decrement(it), last)
Visited(j) == Loop(begin(0, j), end(0, j))
=============================================================================
