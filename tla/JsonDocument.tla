--------------------------- MODULE JsonDocument ----------------------------
(* A json under edit: every modifier of json.hpp applied to one document, in *)
(* any order, with what must hold of the document each time.                 *)
EXTENDS JsonBinary, JsonPointer, JsonText, JsonIterator

CONSTANTS Members,    \* keys
          Values,     \* values that are put into the document
          Pointers,   \* texts of json pointers
          Patches,    \* sequences of patch operations
          Loaded,     \* documents to start from
          Others,     \* documents to compare the document with
          MaxText,    \* longer strings are not dumped and parsed
          MaxNodes    \* an edit is only made if the document stays this small

VARIABLES doc,        \* the document
          exc         \* the exception of the last call, or "none"
vars == <<doc, exc>>

RECURSIVE Nodes(_)
Nodes(j) == IF is_array(j) \/ is_object(j)
            THEN FoldSet(LAMBDA k, n : n + Nodes(j[2][k]), 1, DOMAIN j[2]) ELSE 1

Init == doc \in Loaded /\ exc = "none"

(* A call that returns the new document or throws and leaves the old one.    *)
Becomes(r) ==
  IF Thrown(r) THEN exc' = r[2] /\ UNCHANGED doc
  ELSE Nodes(r) =< MaxNodes /\ doc' = r /\ exc' = "none"

(* The assignment to a member that operator[] returns.                       *)
Member(r, k, v) == IF Thrown(r) THEN r ELSE <<Type(r), [r[2] EXCEPT ![k] = v]>>

PushBack == \E v \in Values : Becomes(push_back(doc, v))
PushBackPair == \E k \in Members, v \in Values : Becomes(push_back_pair(doc, k, v))
PushBackList == \E k \in Members, v \in Values : Becomes(push_back_list(doc, <<String(k), v>>))
SetIndex == \E i \in 0..2, v \in Values : Becomes(Member(IndexArray(doc, i), i + 1, v))
SetKey == \E k \in Members, v \in Values : Becomes(Member(IndexObject(doc, k), k, v))
Insert == \E v \in Values : \E p \in 0..size(doc) : Becomes(insert(doc, p, <<v>>))
EraseIndex == \E i \in 0..2 : Becomes(erase_index(doc, i))
EraseKey == \E k \in Members : Becomes(erase_key(doc, k))
Erase == \E p \in set_begin(doc)..set_end(doc) : \E q \in p..set_end(doc) :
           Becomes(erase_range(doc, p, q))
Clear == Becomes(clear(doc))
ApplyPatch == \E p \in Patches : Becomes(patch(doc, Array(p)))

(* doc[pointer] = v.  What was created on the way stays when it throws.      *)
SetPointer ==
  \E p \in Pointers, v \in Values :
    \E r \in {AssignPointer(doc, split(p)[2], "unchecked", v)} :
      Nodes(r.doc) =< MaxNodes /\ doc' = r.doc /\ exc' = r.exc

(* A large document that was loaded is only cleared.                         *)
Next == \/ Clear
        \/ /\ Nodes(doc) =< MaxNodes
           /\ \/ PushBack \/ PushBackPair \/ PushBackList \/ SetIndex \/ SetKey \/ Insert
              \/ EraseIndex \/ EraseKey \/ Erase \/ ApplyPatch \/ SetPointer

Spec == Init /\ [][Next]_vars

----------------------------------------------------------------------------
ReadBack(r, v) == Equal(r.j, doc) /\ r.idx = Len(v)

(* from_cbor(to_cbor(j)) == j, all bytes being read: numbers and lengths on  *)
(* either side of every width are written and read alike.                    *)
CborRoundTrip == ReadBack(from_cbor(to_cbor(doc)), to_cbor(doc))

(* The same for MessagePack.                                                 *)
MsgpackRoundTrip == ReadBack(from_msgpack(to_msgpack(doc)), to_msgpack(doc))

(* What another encoder may write reads as the same document: containers of  *)
(* indefinite length, strings in two chunks, and numbers in half or single   *)
(* precision where they fit.                                                 *)
Narrow(x, exponent, mantissa) ==
  LET e == FoldLeft(LAMBDA acc, bit : 2 * acc + bit, 0, SubSeq(x, 2, 12)) - 1023 + 2^(exponent - 1) - 1
      bits == <<x[1]>> \o [i \in 1..exponent |-> (e \div 2^(exponent - i)) % 2] \o SubSeq(x, 13, 12 + mantissa)
  IN IF e \in 1..(2^exponent - 2) /\ \A i \in (13 + mantissa)..64 : x[i] = 0
     THEN {SubSeq(Bytes(bits \o [i \in 1..(64 - Len(bits)) |-> 0]), 1, Len(bits) \div 8)} ELSE {}
OtherForms ==
  LET items(major) == SubSeq(to_cbor(doc), 1 + Len(CborHead(major, Length8(size(doc)))), Len(to_cbor(doc)))
      chunk(from, to) == to_cbor(String(SubSeq(doc[2], from, to)))
      x == Bits(ToDouble(doc))
  IN CASE is_array(doc) -> {<<159>> \o items(4) \o <<255>>}
       [] is_object(doc) -> {<<191>> \o items(5) \o <<255>>}
       [] is_string(doc) -> {<<127>> \o chunk(1, n) \o chunk(n + 1, Len(doc[2])) \o <<255>> :
                               n \in 0..Min({Len(doc[2]), 3})}
       [] is_number(doc) -> {<<249>> \o b : b \in Narrow(x, 5, 10)} \cup {<<250>> \o b : b \in Narrow(x, 8, 23)}
       [] OTHER -> {}
OtherFormsAgree ==
  /\ \A v \in OtherForms : ReadBack(from_cbor(v), v)
  /\ is_number(doc) => \A b \in Narrow(Bits(ToDouble(doc)), 8, 23) :
                        ReadBack(from_msgpack(<<202>> \o b), <<202>> \o b)

(* A message that was cut off is refused, wherever it was cut: the decoders  *)
(* never make a shorter document of it, nor read behind the end.             *)
CutMessageRefused ==
  Nodes(doc) =< MaxNodes =>
    /\ \A n \in 0..(Len(to_cbor(doc)) - 1) :
         Thrown(from_cbor(SubSeq(to_cbor(doc), 1, n)).j)
    /\ \A n \in 0..(Len(to_msgpack(doc)) - 1) :
         Thrown(from_msgpack(SubSeq(to_msgpack(doc), 1, n)).j)

(* The four together: the binary encodings lose nothing and take nothing for *)
(* a document that is none.                                                  *)
BinaryRoundTrip == CborRoundTrip /\ MsgpackRoundTrip /\ OtherFormsAgree /\ CutMessageRefused

(* parse(dump(j)) == j, pretty-printed or not, and so is what a callback     *)
(* that keeps everything gets.  One that refuses every value gets the        *)
(* containers alone.                                                         *)
Parseable == is_string(doc) => Len(doc[2]) =< MaxText
Events == {"object_start", "object_end", "array_start", "array_end", "key", "value"}
Callback(kept) == [on |-> TRUE, keep |-> [e \in Events |-> e \in kept]]
RECURSIVE Containers(_)
Containers(j) ==
  IF is_object(j)
  THEN Object([k \in {k \in DOMAIN j[2] : ~is_primitive(j[2][k])} |-> Containers(j[2][k])])
  ELSE LET inner == SelectSeq(j[2], LAMBDA x : ~is_primitive(x))
       IN Array([i \in DOMAIN inner |-> Containers(inner[i])])
DumpParses ==
  Parseable =>
    /\ \A indent_step \in {-1, 2}, cb \in {NoCallback, Callback(Events)} :
         Equal(parse(dump(doc, indent_step, 0), cb).j, doc)
    /\ parse(dump(doc, 0, 0), Callback(Events \ {"value"})).j
         = IF is_primitive(doc) THEN Null ELSE Containers(doc)

(* A callback is told how deep every event is nested, as long as it refuses  *)
(* no start of a container (depth is then not counted down again): the       *)
(* recursion over arrays and objects keeps the one counter of the parser.    *)
DepthIsNesting(calls) == \A i \in DOMAIN calls : calls[i][2] = calls[i][3]
CallbackDepth ==
  Parseable =>
    \A e \in {"key", "value", "object_end", "array_end"} :
      DepthIsNesting(parse(dump(doc, -1, 0), Callback(Events \ {e})).calls)

(* What dump() writes the parser reads, and tells the callback so.           *)
TextRoundTrip == DumpParses /\ CallbackDepth

(* source.patch(diff(source, target)) == target, for the document as source  *)
(* and as target.                                                            *)
DiffPatch ==
  \A o \in Others : /\ Equal(patch(doc, Array(diff(doc, o, <<>>))), o)
                    /\ Equal(patch(o, Array(diff(o, doc, <<>>))), doc)

(* Every key of the flattened document is a pointer to the value it has in   *)
(* the document: escaping, splitting and looking up agree.                   *)
FlatKeysPoint ==
  \A p \in DOMAIN flatten(doc)[2] :
    /\ split(p)[1] = "tokens"
    /\ LET v == get_checked(doc, split(p)[2])
       IN v = flatten(doc)[2][p] \/ (v \in {EmptyArray, EmptyObject} /\ flatten(doc)[2][p] = Null)

(* j == j.flatten().unflatten(), as its documentation says, apart from empty *)
(* containers (flattened to null) and, which it does not say, from objects   *)
(* with a key "0" (unflattened as arrays).                                   *)
RECURSIVE Holds(_, _)
Holds(j, kind) ==
  /\ is_array(j) \/ is_object(j)
  /\ \/ kind = "empty" /\ DOMAIN j[2] = {}
     \/ kind = "key 0" /\ is_object(j) /\ <<48>> \in DOMAIN j[2]
     \/ \E k \in DOMAIN j[2] : Holds(j[2][k], kind)
FlattenInverts ==
  Holds(doc, "empty") \/ Holds(doc, "key 0") \/ Equal(unflatten(flatten(doc)), doc)

(* Pointers: a patch made by diff() leads to its target, and flattened       *)
(* documents point back into the document and can be unflattened.            *)
PointersAgree == DiffPatch /\ FlatKeysPoint /\ FlattenInverts

(* Of two documents exactly one is less or they are equal, numbers of         *)
(* different types too, and less is transitive, as a std::map or a std::sort *)
(* needs it, unless a signed integer meets an unsigned one of 2^63 or more:  *)
(* operator< converts the latter to a negative number when it compares it    *)
(* with the former, and only then.                                           *)
RECURSIVE Leaves(_)
Leaves(j) == IF is_array(j) \/ is_object(j) THEN UNION {Leaves(j[2][k]) : k \in DOMAIN j[2]} ELSE {j}
SignMatters(documents) ==
  LET leaves == UNION {Leaves(j) : j \in documents} IN
  /\ \E j \in leaves : Type(j) = "number_integer"
  /\ \E j \in leaves : Type(j) = "number_unsigned" /\ Negative(j[2])
OrderedDocuments ==
  \A a \in Others :
    /\ Cardinality({x \in {"less", "greater", "equal"} :
                      \/ x = "less" /\ Less(doc, a)
                      \/ x = "greater" /\ Less(a, doc)
                      \/ x = "equal" /\ Equal(a, doc)}) = 1
    /\ \A b \in Others :
         \/ SignMatters({doc, a, b})
         \/ /\ Less(doc, a) /\ Less(a, b) => Less(doc, b)
            /\ Less(a, doc) /\ Less(doc, b) => Less(a, b)

(* Cutting an array in two at any position and inserting what was cut off    *)
(* there gives the array again; a range of an object can be erased and       *)
(* inserted back by key.                                                     *)
CutAndInsert ==
  \A p \in 0..size(doc) :
    LET left == erase_range(doc, p, size(doc))
        right == erase_range(doc, 0, p)
    IN /\ is_array(doc) => insert(left, p, Visited(right)) = doc
       /\ is_object(doc) => /\ size(left) = p
                            /\ Keys(left) \o Keys(right) = Keys(doc)
                            /\ \A k \in DOMAIN right[2] : push_back_pair(left, k, right[2][k])[2][k] = doc[2][k]

(* Loops over the document in both directions meet each of its size()        *)
(* elements once, differences, sums, order and subscripts of iterators agree *)
(* on where they are, and a key is found exactly if it can be looked up.     *)
Iteration ==
  LET p == begin(1, doc)  q == end(1, doc)  n == q.pos - p.pos IN
  /\ Len(Visited(doc)) = size(doc) /\ ReverseLoop(q, p) = Reverse(Visited(doc))
  /\ size(doc) > 0 => front(doc) = Head(Visited(doc)) /\ back(doc) = Last(Visited(doc))
  /\ ~is_object(doc) => /\ IterEqual(PlusAssign(p, n), q)[2] /\ Distance(q, p)[2] = n
                        /\ \A i \in 0..(n - 1) :
                             /\ Subscript(p, i) = Visited(doc)[i + 1]
                             /\ IterLess(PlusAssign(p, i), q)[2] /\ ~IterLess(q, PlusAssign(p, i))[2]
  /\ \A k \in Members : LET it == find(1, doc, k) IN
       /\ IterEqual(it, q)[2] <=> Thrown(at_key(doc, k))
       /\ count(doc, k) = 1 => key(it) = String(k) /\ Dereference(it) = value(doc, k, Null)

(* What a range of iterators copies is what erasing the rest of the document *)
(* leaves, and the three parts of the document have all its elements.        *)
RangeIsPart ==
  ~is_primitive(doc) /\ Nodes(doc) =< MaxNodes =>
    \A p \in 0..size(doc) : \A q \in p..size(doc) :
      LET part(a, b) == FromRange(Iter(1, doc, a), Iter(1, doc, b))
      IN /\ part(p, q) = erase_range(erase_range(doc, q, size(doc)), 0, p)
         /\ Visited(part(0, p)) \o Visited(part(p, q)) \o Visited(part(q, size(doc))) = Visited(doc)

(* Iterators, and the modifiers and constructors that take them, agree on    *)
(* what is where.                                                            *)
IteratorsAgree == Iteration /\ CutAndInsert /\ RangeIsPart
=============================================================================
