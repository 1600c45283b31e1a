---------------------------- MODULE JsonBinary -----------------------------
(* json.hpp: the CBOR and MessagePack encodings of a json, to_cbor(),        *)
(* from_cbor(), to_msgpack() and from_msgpack().                             *)
(*                                                                           *)
(* A vector is a sequence of bytes.  A decoder returns [j, idx]: the value   *)
(* or the exception, and the index (from 0) of the next byte.                *)
EXTENDS JsonValue

(* The last n bytes of a number, and the pattern n bytes stand for.          *)
add_to_vector(n, b) == SubSeq(b, 9 - n, 8)
ZeroExtend(b) == [i \in 1..(8 - Len(b)) |-> 0] \o b
SignExtend(b) == [i \in 1..(8 - Len(b)) |-> IF b[1] >= 128 THEN 255 ELSE 0] \o b

FitsUnsigned(n, b) == b = ZeroExtend(add_to_vector(n, b))
FitsSigned(n, b) == b = SignExtend(add_to_vector(n, b))
(* The 8 bytes of a length (the models' lengths are below 2^29).             *)
Length8(n) == <<0, 0, 0, 0, n \div 2^24, (n \div 2^16) % 256, (n \div 256) % 256, n % 256>>
(* A length that was read; one of 2^29 or more is longer than any input.     *)
HugeLength == 2^29
LengthOf(b) == IF FitsUnsigned(4, b) /\ b[5] < 32
               THEN ((b[5] * 256 + b[6]) * 256 + b[7]) * 256 + b[8] ELSE HugeLength

(* The bytes [current_idx + 1 .. current_idx + n], or <<>> when they are not *)
(* all there: get_from_vector() and vector::at() throw out_of_range.         *)
get_from_vector(v, current_idx, n) ==
  IF current_idx + n + 1 > Len(v) THEN <<>> ELSE SubSeq(v, current_idx + 2, current_idx + n + 1)

check_length(v, len, offset) == len =< Len(v) /\ offset =< Len(v) /\ len + offset =< Len(v)

----------------------------------------------------------------------------
(* The number as an immediate value of its first byte, or in 1, 2, 4 or 8    *)
(* bytes after it.                                                           *)
CborHead(major, b) ==
  CASE FitsUnsigned(1, b) /\ b[8] =< 23 -> <<32 * major + b[8]>>
    [] FitsUnsigned(1, b) /\ b[8] > 23 -> <<32 * major + 24>> \o add_to_vector(1, b)
    [] FitsUnsigned(2, b) /\ ~FitsUnsigned(1, b) -> <<32 * major + 25>> \o add_to_vector(2, b)
    [] FitsUnsigned(4, b) /\ ~FitsUnsigned(2, b) -> <<32 * major + 26>> \o add_to_vector(4, b)
    [] ~FitsUnsigned(4, b) -> <<32 * major + 27>> \o b

RECURSIVE to_cbor(_)
to_cbor(j) ==
  LET t == Type(j)  v == j[2] IN
  CASE t = "null" -> <<246>>
    [] t = "boolean" -> <<IF v THEN 245 ELSE 244>>
    [] t = "number_unsigned" -> CborHead(0, v)
    [] t = "number_integer" -> IF Negative(v) THEN CborHead(1, Complement(v)) ELSE CborHead(0, v)
    [] t = "number_float" -> <<251>> \o v
    [] t = "string" -> CborHead(3, Length8(Len(v))) \o v
    [] t = "array" ->
         CborHead(4, Length8(Len(v))) \o FlattenSeq([i \in DOMAIN v |-> to_cbor(v[i])])
    [] t = "object" ->
         LET k == Keys(j)
         IN CborHead(5, Length8(Len(k)))
            \o FlattenSeq([i \in DOMAIN k |-> to_cbor(String(k[i])) \o to_cbor(v[k[i]])])

Bad(what) == [j |-> Throw(what), idx |-> 0]
OutOfRange == Bad("out_of_range")

(* Half and single precision: ldexp(mantissa, exponent), with its sign.      *)
HalfFloat(b) ==
  LET exp == (b[1] % 128) \div 4
      mant == (b[1] % 4) * 256 + b[2]
      val(m, e) == <<"number_float", Scaled(b[1] >= 128, Bits(Length8(m)), e)>>
  IN CASE exp = 31 -> Null [] exp = 0 -> val(mant, -24) [] OTHER -> val(mant + 1024, exp - 25)
SingleFloat(b) ==
  LET exp == (b[1] % 128) * 2 + b[2] \div 128
      mant == ((b[2] % 128) * 256 + b[3]) * 256 + b[4]
      val(m, e) == <<"number_float", Scaled(b[1] >= 128, Bits(Length8(m)), e)>>
  IN CASE exp = 255 -> Null [] exp = 0 -> val(mant, -149) [] OTHER -> val(mant + 2^23, exp - 150)

\* Mutant: the two bytes of the length are not skipped.
CborArgKeepsLength(v, current_idx, info) ==
  LET n == 2^(info - 24)  b == get_from_vector(v, current_idx, n) IN
  IF info =< 23 THEN [b |-> ZeroExtend(<<info>>), idx |-> current_idx + 1]
  ELSE [b |-> IF b = <<>> THEN b ELSE ZeroExtend(b),
        idx |-> current_idx + (IF n = 2 THEN 1 ELSE n + 1)]

(* The number that belongs to a first byte: <<>> when bytes are missing.     *)
CborArg(v, current_idx, info) ==
  LET n == 2^(info - 24)  b == get_from_vector(v, current_idx, n) IN
  IF info =< 23 THEN [b |-> ZeroExtend(<<info>>), idx |-> current_idx + 1]
  ELSE [b |-> IF b = <<>> THEN b ELSE ZeroExtend(b), idx |-> current_idx + n + 1]

RECURSIVE from_cbor_internal(_, _), CborItems(_, _, _, _)
(* len elements (an object's count twice), or up to the byte 0xff when len   *)
(* is -1.  The values read so far are in acc.                                *)
CborItems(v, idx, len, acc) ==
  LET r == from_cbor_internal(v, idx) IN
  IF len = 0 THEN [j |-> Array(acc), idx |-> idx]
  ELSE IF len < 0 /\ idx >= Len(v) THEN OutOfRange
  ELSE IF len < 0 /\ v[idx + 1] = 255 THEN [j |-> Array(acc), idx |-> idx + 1]
  ELSE IF Thrown(r.j) THEN r
  ELSE CborItems(v, r.idx, len - 1, Append(acc, r.j))

(* Keys and values in turn: a key must be a string, a later one replaces an  *)
(* equal earlier one, and there must be a value for the last.                *)
AsObject(r) ==
  LET s == r.j[2]
      n == Len(s) \div 2
      last(k) == Max({i \in 1..n : s[2 * i - 1][2] = k})
  IN IF Thrown(r.j) THEN r
     ELSE IF Len(s) % 2 = 1 THEN Bad("invalid_argument")  \* 0xff where a value is due
     ELSE IF \E i \in 1..n : ~is_string(s[2 * i - 1]) THEN Bad("domain_error")
     ELSE [r EXCEPT !.j = Object([k \in {s[2 * i - 1][2] : i \in 1..n} |-> s[2 * last(k)]])]

AsString(r) ==
  IF Thrown(r.j) THEN r
  ELSE IF \E i \in DOMAIN r.j[2] : ~is_string(r.j[2][i]) THEN Bad("domain_error")
  ELSE [r EXCEPT !.j = String(FlattenSeq([i \in DOMAIN @[2] |-> @[2][i][2]]))]

Text(v, offset, len) ==
  IF check_length(v, len, offset)
  THEN [j |-> String(SubSeq(v, offset + 1, offset + len)), idx |-> offset + len]
  ELSE OutOfRange

from_cbor_internal(v, idx) ==
  IF idx >= Len(v) THEN OutOfRange
  ELSE
  LET byte == v[idx + 1]
      major == byte \div 32
      info == byte % 32
      arg == CborArg(v, idx, info)
      len == LengthOf(arg.b)
      raw(n) == get_from_vector(v, idx, n)
      number(j) == [j |-> j, idx |-> arg.idx]
      float(n, j) == [j |-> j, idx |-> idx + n + 1]
  IN CASE byte = 127 -> AsString(CborItems(v, idx + 1, -1, <<>>))
       [] byte = 159 -> CborItems(v, idx + 1, -1, <<>>)
       [] byte = 191 -> AsObject(CborItems(v, idx + 1, -1, <<>>))
       [] major \in {0, 1, 3, 4, 5} /\ info =< 27 ->
            IF arg.b = <<>> THEN OutOfRange
            ELSE (CASE major = 0 -> number(Unsigned(arg.b))
                   [] major = 1 -> number(Integer(Complement(arg.b)))
                   [] major = 3 -> Text(v, arg.idx, len)
                   [] major = 4 -> CborItems(v, arg.idx, len, <<>>)
                   [] major = 5 -> AsObject(CborItems(v, arg.idx, 2 * len, <<>>)))
       [] byte \in {244, 245} -> [j |-> Boolean(byte = 245), idx |-> idx + 1]
       [] byte = 246 -> [j |-> Null, idx |-> idx + 1]
       [] byte = 249 -> IF raw(2) = <<>> THEN OutOfRange ELSE float(2, HalfFloat(raw(2)))
       [] byte = 250 -> IF raw(4) = <<>> THEN OutOfRange ELSE float(4, SingleFloat(raw(4)))
       [] byte = 251 -> IF raw(8) = <<>> THEN OutOfRange ELSE float(8, Float(raw(8)))
       [] OTHER -> Bad("invalid_argument")
from_cbor(v) == from_cbor_internal(v, 0)

----------------------------------------------------------------------------

MsgpackUnsigned(b) ==
  CASE FitsUnsigned(1, b) /\ b[8] < 128 -> add_to_vector(1, b)
    [] FitsUnsigned(1, b) /\ b[8] >= 128 -> <<204>> \o add_to_vector(1, b)
    [] FitsUnsigned(2, b) /\ ~FitsUnsigned(1, b) -> <<205>> \o add_to_vector(2, b)
    [] FitsUnsigned(4, b) /\ ~FitsUnsigned(2, b) -> <<206>> \o add_to_vector(4, b)
    [] ~FitsUnsigned(4, b) -> <<207>> \o b

MsgpackNegative(b) ==
  CASE FitsSigned(1, b) /\ b[8] >= 224 -> add_to_vector(1, b)
    [] FitsSigned(1, b) /\ b[8] < 224 -> <<208>> \o add_to_vector(1, b)
    [] FitsSigned(2, b) /\ ~FitsSigned(1, b) -> <<209>> \o add_to_vector(2, b)
    [] FitsSigned(4, b) /\ ~FitsSigned(2, b) -> <<210>> \o add_to_vector(4, b)
    [] ~FitsSigned(4, b) -> <<211>> \o b

(* The first bytes of a string, array or object of n: up to fix in the first *)
(* byte; else one of the bytes b1 (strings only), b1 + 1, b1 + 2 and n.      *)
MsgpackHead(fixed, fix, b1, n) ==
  CASE n =< fix -> <<fixed + n>>
    [] n > fix /\ n =< 255 /\ b1 = 217 -> <<b1>> \o add_to_vector(1, Length8(n))
    [] n > fix /\ n =< 65535 /\ (n > 255 \/ b1 # 217) ->
         <<b1 + 1>> \o add_to_vector(2, Length8(n))
    [] n > 65535 -> <<b1 + 2>> \o add_to_vector(4, Length8(n))

RECURSIVE to_msgpack(_)
to_msgpack(j) ==
  LET t == Type(j)  v == j[2] IN
  CASE t = "null" -> <<192>>
    [] t = "boolean" -> <<IF v THEN 195 ELSE 194>>
    [] t = "number_unsigned" -> MsgpackUnsigned(v)
    [] t = "number_integer" -> IF Negative(v) THEN MsgpackNegative(v) ELSE MsgpackUnsigned(v)
    [] t = "number_float" -> <<203>> \o v
    [] t = "string" -> MsgpackHead(160, 31, 217, Len(v)) \o v
    [] t = "array" ->
         MsgpackHead(144, 15, 219, Len(v)) \o FlattenSeq([i \in DOMAIN v |-> to_msgpack(v[i])])
    [] t = "object" ->
         LET k == Keys(j)
         IN MsgpackHead(128, 15, 221, Len(k))
            \o FlattenSeq([i \in DOMAIN k |-> to_msgpack(String(k[i])) \o to_msgpack(v[k[i]])])

RECURSIVE from_msgpack_internal(_, _), MsgpackItems(_, _, _, _)
MsgpackItems(v, idx, len, acc) ==
  LET r == from_msgpack_internal(v, idx) IN
  IF len = 0 THEN [j |-> Array(acc), idx |-> idx]
  ELSE IF Thrown(r.j) THEN r
  ELSE MsgpackItems(v, r.idx, len - 1, Append(acc, r.j))

from_msgpack_internal(v, idx) ==
  IF ~check_length(v, 1, idx) THEN OutOfRange
  ELSE
  LET byte == v[idx + 1]
      raw(n) == get_from_vector(v, idx, n)
      len(n) == LengthOf(ZeroExtend(raw(n)))
      one(j) == [j |-> j, idx |-> idx + 1]
      \* how many bytes follow that are read as one number
      width == CASE byte \in {204, 208, 217} -> 1
                 [] byte \in {205, 209, 218, 220, 222} -> 2
                 [] byte \in {202, 206, 210, 219, 221, 223} -> 4
                 [] byte \in {203, 207, 211} -> 8
                 [] OTHER -> 0
      next == idx + 1 + width
      read(j) == [j |-> j, idx |-> next]
  IN CASE width > 0 /\ raw(width) = <<>> -> OutOfRange
       [] byte =< 127 -> one(Unsigned(ZeroExtend(<<byte>>)))
       [] byte \in 128..143 -> AsObject(MsgpackItems(v, idx + 1, 2 * (byte - 128), <<>>))
       [] byte \in 144..159 -> MsgpackItems(v, idx + 1, byte - 144, <<>>)
       [] byte \in 160..191 -> Text(v, idx + 1, byte - 160)
       [] byte = 192 -> one(Null)
       [] byte \in {194, 195} -> one(Boolean(byte = 195))
       [] byte >= 224 -> one(Integer(SignExtend(<<byte>>)))
       [] width > 0 /\ raw(width) # <<>> ->
            (CASE byte = 202 -> read(SingleFloat(raw(4)))
              [] byte = 203 -> read(Float(raw(8)))
              [] byte \in 204..207 -> read(Unsigned(ZeroExtend(raw(width))))
              [] byte \in 208..211 -> read(Integer(SignExtend(raw(width))))
              [] byte \in 217..219 -> Text(v, next, len(width))
              [] byte \in 220..221 -> MsgpackItems(v, next, len(width), <<>>)
              [] byte \in 222..223 -> AsObject(MsgpackItems(v, next, 2 * len(width), <<>>)))
       [] OTHER -> Bad("invalid_argument")
from_msgpack(v) == from_msgpack_internal(v, 0)
=============================================================================
