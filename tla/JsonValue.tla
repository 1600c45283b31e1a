----------------------------- MODULE JsonValue -----------------------------
(* basic_json, the value type of ssdb/src/util/json.hpp, which the server's  *)
(* configuration is read with: construction, element access, modifiers,      *)
(* iterators and comparison.                                                 *)
(*                                                                           *)
(* A value is <<m_type, m_value>>.  Strings are sequences of character       *)
(* codes, numbers the 8 bytes of their 64-bit pattern (most significant      *)
(* first), arrays sequences, objects functions on their keys.  A modifier    *)
(* returns the value the json has afterwards or Throw(exception).            *)
EXTENDS Integers, Sequences, SequencesExt, FiniteSets, FiniteSetsExt

Null == <<"null", 0>>
Discarded == <<"discarded", 0>>
Boolean(b) == <<"boolean", b>>
Integer(n) == <<"number_integer", n>>
Unsigned(n) == <<"number_unsigned", n>>
String(s) == <<"string", s>>
Array(s) == <<"array", s>>
Object(f) == <<"object", f>>
Throw(what) == <<"throw", what>>

Type(j) == j[1]
Thrown(j) == Type(j) = "throw"
is_array(j) == Type(j) = "array"
is_object(j) == Type(j) = "object"
is_string(j) == Type(j) = "string"
is_number(j) == Type(j) \in {"number_integer", "number_unsigned", "number_float"}
is_primitive(j) == Type(j) \in {"null", "string", "boolean"} \/ is_number(j)

EmptyObject == Object([k \in {} |-> Null])
EmptyArray == Array(<<>>)

----------------------------------------------------------------------------
(* 64-bit patterns.                                                          *)
Zero8 == <<0, 0, 0, 0, 0, 0, 0, 0>>
Bits(b) == [i \in 1..64 |-> (b[(i - 1) \div 8 + 1] \div 2^(7 - ((i - 1) % 8))) % 2]
Bytes(x) == [k \in 1..8 |-> FoldLeft(LAMBDA acc, bit : 2 * acc + bit, 0,
                                     SubSeq(x, 8 * k - 7, 8 * k))]
PlusOne(x) ==
  LET z == Max({0} \cup {i \in DOMAIN x : x[i] = 0})
  IN [i \in DOMAIN x |-> IF i < z THEN x[i] ELSE IF i = z THEN 1 ELSE 0]
Complement(b) == [k \in 1..8 |-> 255 - b[k]]      \* -1 - b
Negate(b) == Bytes(PlusOne(Bits(Complement(b))))  \* -b
Negative(b) == b[1] >= 128

(* The double nearest to x * 2^e, x 64 bits: sign, exponent and 52 bits,     *)
(* ties to even.                                                             *)
Scaled(neg, x, e) ==
  LET p == Min({i \in 1..64 : x[i] = 1})
      rest == SubSeq(x, p + 1, 64) \o [i \in 1..53 |-> 0]
      ex == 1023 + 64 - p + e
      kept == [i \in 1..11 |-> (ex \div 2^(11 - i)) % 2] \o SubSeq(rest, 1, 52)
      up == rest[53] = 1 /\ (kept[63] = 1 \/ \E i \in 54..Len(rest) : rest[i] = 1)
      sign == <<IF neg THEN 1 ELSE 0>>
  IN IF \A i \in 1..64 : x[i] = 0 THEN Bytes(sign \o [i \in 1..63 |-> 0])
     ELSE Bytes(sign \o IF up THEN PlusOne(kept) ELSE kept)

(* static_cast<double>                                                       *)
ToDouble(j) ==
  LET neg == Type(j) = "number_integer" /\ Negative(j[2])
  IN IF Type(j) = "number_float" THEN j[2]
     ELSE Scaled(neg, Bits(IF neg THEN Negate(j[2]) ELSE j[2]), 0)

(* A number_float that is not finite becomes null.                           *)
Float(b) == IF b[1] % 128 = 127 /\ b[2] >= 240 THEN Null ELSE <<"number_float", b>>

LexLess(a, b) ==
  \E i \in 1..Len(b) : /\ i =< Len(a) + 1
                       /\ \A h \in 1..(i - 1) : a[h] = b[h]
                       /\ i = Len(a) + 1 \/ a[i] < b[i]

(* The keys of an object in the order of std::map.                           *)
Keys(o) ==
  FoldSet(LAMBDA k, s : SelectSeq(s, LAMBDA x : LexLess(x, k)) \o <<k>>
                        \o SelectSeq(s, LAMBDA x : LexLess(k, x)), <<>>, DOMAIN o[2])

----------------------------------------------------------------------------
(* Comparison.                                                               *)
FloatZero(x) == [x EXCEPT ![1] = @ % 128] = Zero8
FloatEqual(x, y) == x = y \/ (FloatZero(x) /\ FloatZero(y))
FloatLess(x, y) ==
  /\ ~FloatEqual(x, y)
  /\ IF Negative(x) # Negative(y) THEN Negative(x)
     ELSE IF Negative(x) THEN LexLess(y, x) ELSE LexLess(x, y)
SignedLess(x, y) ==
  LexLess([x EXCEPT ![1] = (@ + 128) % 256], [y EXCEPT ![1] = (@ + 128) % 256])

RECURSIVE Equal(_, _)
Equal(a, b) ==
  CASE is_number(a) /\ is_number(b) ->
         IF "number_float" \in {Type(a), Type(b)} THEN FloatEqual(ToDouble(a), ToDouble(b))
         ELSE a[2] = b[2]
    [] Type(a) # Type(b) \/ Type(a) = "discarded" -> FALSE
    [] is_array(a) \/ is_object(a) ->
         DOMAIN a[2] = DOMAIN b[2] /\ \A k \in DOMAIN a[2] : Equal(a[2][k], b[2][k])
    [] OTHER -> a[2] = b[2]

TypeOrder(j) ==
  CASE Type(j) = "null" -> 0 [] Type(j) = "boolean" -> 1 [] is_number(j) -> 2
    [] Type(j) = "object" -> 3 [] Type(j) = "array" -> 4 [] Type(j) = "string" -> 5

\* Mutant: of a signed and an unsigned number the signed one is converted.
NumberLessUnsigned(a, b) ==
  IF "number_float" \in {Type(a), Type(b)} THEN FloatLess(ToDouble(a), ToDouble(b))
  ELSE IF "number_unsigned" \in {Type(a), Type(b)}
  THEN LexLess(a[2], b[2]) ELSE SignedLess(a[2], b[2])

(* Of a signed and an unsigned number the unsigned one is converted.         *)
NumberLess(a, b) ==
  IF "number_float" \in {Type(a), Type(b)} THEN FloatLess(ToDouble(a), ToDouble(b))
  ELSE IF Type(a) = "number_unsigned" /\ Type(b) = "number_unsigned"
  THEN LexLess(a[2], b[2]) ELSE SignedLess(a[2], b[2])

RECURSIVE Less(_, _)
Less(a, b) ==
  LET ka == Keys(a)  kb == Keys(b) IN
  CASE "discarded" \in {Type(a), Type(b)} -> FALSE
    [] is_number(a) /\ is_number(b) -> NumberLess(a, b)
    [] Type(a) # Type(b) -> TypeOrder(a) < TypeOrder(b)
    [] Type(a) = "null" -> FALSE
    [] Type(a) = "boolean" -> ~a[2] /\ b[2]
    [] Type(a) = "string" -> LexLess(a[2], b[2])
    [] Type(a) = "array" ->
         \E i \in 1..Len(b[2]) :
           /\ i =< Len(a[2]) + 1
           /\ \A h \in 1..(i - 1) : ~Less(a[2][h], b[2][h]) /\ ~Less(b[2][h], a[2][h])
           /\ i = Len(a[2]) + 1 \/ Less(a[2][i], b[2][i])
    [] Type(a) = "object" ->
         \E i \in 1..Len(kb) :
           /\ i =< Len(ka) + 1
           /\ \A h \in 1..(i - 1) : /\ ka[h] = kb[h]
                                    /\ ~Less(a[2][ka[h]], b[2][kb[h]])
                                    /\ ~Less(b[2][kb[h]], a[2][ka[h]])
           /\ \/ i = Len(ka) + 1
              \/ LexLess(ka[i], kb[i])
              \/ ka[i] = kb[i] /\ Less(a[2][ka[i]], b[2][kb[i]])

----------------------------------------------------------------------------
(* Construction.                                                             *)
(* An initializer list is an object when every element is a pair that starts *)
(* with a string: the empty list too.  emplace() keeps the first value.      *)
FromList(init, type_deduction, manual_type) ==
  LET pairs == \A i \in DOMAIN init : /\ is_array(init[i]) /\ Len(init[i][2]) = 2
                                      /\ is_string(init[i][2][1])
      keys == {init[i][2][1][2] : i \in DOMAIN init}
      first(k) == Min({i \in DOMAIN init : init[i][2][1][2] = k})
  IN IF ~type_deduction /\ manual_type = "object" /\ ~pairs THEN Throw("domain_error")
     ELSE IF pairs /\ (type_deduction \/ manual_type # "array")
     THEN Object([k \in keys |-> init[first(k)][2][2]])
     ELSE Array(init)

----------------------------------------------------------------------------
(* Element access and modifiers.  Indices count from 0.                      *)
Nulls(n) == [i \in 1..Max({0, n}) |-> Null]
WithKey(f, k, v) == [x \in DOMAIN f \cup {k} |-> IF x = k THEN v ELSE f[x]]
WithoutKey(f, k) == [x \in DOMAIN f \ {k} |-> f[x]]

at_index(j, idx) ==
  IF ~is_array(j) THEN Throw("domain_error")
  ELSE IF idx \notin 0..(Len(j[2]) - 1) THEN Throw("out_of_range") ELSE j[2][idx + 1]
at_key(j, key) ==
  IF ~is_object(j) THEN Throw("domain_error")
  ELSE IF key \notin DOMAIN j[2] THEN Throw("out_of_range") ELSE j[2][key]

(* The value after operator[](idx): null becomes an array, and an array is   *)
(* filled up with nulls.                                                     *)
IndexArray(j, idx) ==
  LET s == IF j = Null THEN <<>> ELSE j[2] IN
  IF j # Null /\ ~is_array(j) THEN Throw("domain_error")
  ELSE IF idx < 0 THEN Throw("length_error")
  ELSE Array(s \o Nulls(idx + 1 - Len(s)))

(* The value after operator[](key).                                          *)
IndexObject(j, key) ==
  IF j = Null THEN Object([k \in {key} |-> Null])
  ELSE IF ~is_object(j) THEN Throw("domain_error")
  ELSE IF key \in DOMAIN j[2] THEN j ELSE Object(WithKey(j[2], key, Null))

value(j, key, default_value) ==
  IF ~is_object(j) THEN Throw("domain_error")
  ELSE IF key \in DOMAIN j[2] THEN j[2][key] ELSE default_value

size(j) == CASE Type(j) = "null" -> 0
             [] Type(j) = "array" -> Len(j[2])
             [] Type(j) = "object" -> Cardinality(DOMAIN j[2])
             [] OTHER -> 1

push_back(j, val) ==
  IF j = Null THEN Array(<<val>>)
  ELSE IF is_array(j) THEN Array(Append(j[2], val)) ELSE Throw("domain_error")

(* std::map::insert() leaves a key alone that is there.                      *)
push_back_pair(j, key, val) ==
  IF j = Null THEN Object([k \in {key} |-> val])
  ELSE IF ~is_object(j) THEN Throw("domain_error")
  ELSE IF key \in DOMAIN j[2] THEN j ELSE Object(WithKey(j[2], key, val))

push_back_list(j, init) ==
  IF is_object(j) /\ Len(init) = 2 /\ is_string(init[1])
  THEN push_back_pair(j, init[1][2], init[2])
  ELSE push_back(j, FromList(init, TRUE, "array"))

(* insert() of a sequence of values before position pos.                     *)
insert(j, pos, vals) ==
  IF ~is_array(j) THEN Throw("domain_error")
  ELSE Array(SubSeq(j[2], 1, pos) \o vals \o SubSeq(j[2], pos + 1, Len(j[2])))

erase_key(j, key) ==
  IF is_object(j) THEN Object(WithoutKey(j[2], key)) ELSE Throw("domain_error")
erase_index(j, idx) ==
  IF ~is_array(j) THEN Throw("domain_error")
  ELSE IF idx \notin 0..(Len(j[2]) - 1) THEN Throw("out_of_range")
  ELSE Array(RemoveAt(j[2], idx + 1))

\* Mutant: the element at last is erased too.
erase_rangeInclusive(j, first, last) ==
  IF is_array(j) THEN Array(SubSeq(j[2], 1, first) \o SubSeq(j[2], last + 2, Len(j[2]))) ELSE j

(* erase(first, last), the iterators at those positions of j.                *)
erase_range(j, first, last) ==
  CASE j = Null -> Throw("domain_error")
    [] is_primitive(j) /\ j # Null ->
         IF first = 0 /\ last = 1 THEN Null ELSE Throw("out_of_range")
    [] is_array(j) -> Array(SubSeq(j[2], 1, first) \o SubSeq(j[2], last + 1, Len(j[2])))
    [] is_object(j) -> Object([k \in DOMAIN j[2] \ ToSet(SubSeq(Keys(j), first + 1, last))
                                 |-> j[2][k]])

clear(j) == CASE is_number(j) -> <<Type(j), Zero8>>
              [] Type(j) = "boolean" -> Boolean(FALSE)
              [] Type(j) = "string" -> String(<<>>)
              [] Type(j) = "array" -> EmptyArray
              [] Type(j) = "object" -> EmptyObject
              [] OTHER -> j

=============================================================================
