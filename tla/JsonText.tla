------------------------------ MODULE JsonText -----------------------------
(* json.hpp: dump(), the lexer and the parser with its callback.             *)
(*                                                                           *)
(* A text is a sequence of character codes.  What iostreams and strtod() do  *)
(* with floating-point numbers is not modelled: such a token yields a        *)
(* number_float with the token as its value, and dump() is not applied to    *)
(* values with floats.                                                       *)
EXTENDS JsonValue

Quote == 34
Backslash == 92
(* Characters and the letters they are escaped with.                         *)
Letter == [c \in {34, 92, 8, 12, 10, 13, 9} |->
             CASE c = 8 -> 98 [] c = 12 -> 102 [] c = 10 -> 110 [] c = 13 -> 114
               [] c = 9 -> 116 [] OTHER -> c]
Hex(n) == IF n < 10 THEN 48 + n ELSE 87 + n
True_ == <<116, 114, 117, 101>>
False_ == <<102, 97, 108, 115, 101>>
Null_ == <<110, 117, 108, 108>>

\* Mutant: control characters without a letter of their own are left as they are.
escape_stringPlain(s) ==
  FlattenSeq([i \in DOMAIN s |->
    IF s[i] \in DOMAIN Letter THEN <<Backslash, Letter[s[i]]>> ELSE <<s[i]>>])

escape_string(s) ==
  FlattenSeq([i \in DOMAIN s |->
    CASE s[i] \in DOMAIN Letter -> <<Backslash, Letter[s[i]]>>
      [] s[i] =< 31 /\ s[i] \notin DOMAIN Letter ->
           <<Backslash, 117, 48, 48, Hex(s[i] \div 16), Hex(s[i] % 16)>>
      [] OTHER -> <<s[i]>>])
Quoted(s) == <<Quote>> \o escape_string(s) \o <<Quote>>

(* Decimal digits of 64 bits, and the other way round: ten times b plus d,   *)
(* with what is carried out of the 64 bits.                                  *)
DivTen(b) ==
  FoldLeft(LAMBDA acc, x : [q |-> Append(acc.q, (acc.r * 256 + x) \div 10),
                            r |-> (acc.r * 256 + x) % 10], [q |-> <<>>, r |-> 0], b)
RECURSIVE Decimal(_)
Decimal(b) == LET d == DivTen(b)
              IN IF d.q = Zero8 THEN <<48 + d.r>> ELSE Append(Decimal(d.q), 48 + d.r)
TimesTen(b, d) ==
  FoldRight(LAMBDA x, acc : [b |-> <<(10 * x + acc.c) % 256>> \o acc.b,
                             c |-> (10 * x + acc.c) \div 256], b, [b |-> <<>>, c |-> d])

(* indent_step spaces per level; -1 stands for no pretty printing.           *)
Spaces(n) == [i \in 1..n |-> 32]
Indent(indent_step, current_indent) == IF indent_step >= 0 THEN current_indent + indent_step ELSE 0
Block(open, items, close, indent_step, current_indent) ==
  LET newline == IF indent_step >= 0 THEN <<10>> ELSE <<>>
  IN IF items = <<>> THEN <<open, close>>
     ELSE <<open>> \o newline
          \o FlattenSeq([i \in DOMAIN items |->
               (IF i = 1 THEN <<>> ELSE <<44>> \o newline)
               \o Spaces(Indent(indent_step, current_indent)) \o items[i]])
          \o newline \o Spaces(IF indent_step >= 0 THEN current_indent ELSE 0) \o <<close>>

RECURSIVE dump(_, _, _)
DumpMember(k, text, indent_step) ==
  Quoted(k) \o <<58>> \o (IF indent_step >= 0 THEN <<32>> ELSE <<>>) \o text
dump(j, indent_step, current_indent) ==
  LET inner(x) == dump(x, indent_step, Indent(indent_step, current_indent))
      block(open, items, close) == Block(open, items, close, indent_step, current_indent)
  IN CASE is_object(j) ->
            block(123, [i \in DOMAIN Keys(j) |->
                          DumpMember(Keys(j)[i], inner(j[2][Keys(j)[i]]), indent_step)], 125)
       [] is_array(j) -> block(91, [i \in DOMAIN j[2] |-> inner(j[2][i])], 93)
       [] Type(j) = "string" -> Quoted(j[2])
       [] Type(j) = "boolean" -> IF j[2] THEN True_ ELSE False_
       [] Type(j) = "null" -> Null_
       [] Type(j) = "number_unsigned" -> Decimal(j[2])
       [] Type(j) = "number_integer" ->
            IF Negative(j[2]) THEN <<45>> \o Decimal(Negate(j[2])) ELSE Decimal(j[2])

----------------------------------------------------------------------------
(* The lexer.  Behind the end of the text there is a 0.                      *)
At(t, i) == IF i =< Len(t) THEN t[i] ELSE 0
IsDigit(c) == c \in 48..57
IsHex(c) == IsDigit(c) \/ c \in 65..70 \/ c \in 97..102
HexValue(c) == IF IsDigit(c) THEN c - 48 ELSE (c % 32) + 9
Continues(t, i, low, high) == At(t, i) \in low..high

(* The length of the character of a string that starts at i, 0 if there is   *)
(* none: plain, escaped, or well-formed UTF-8.                               *)
CharLength(t, i) ==
  LET c == At(t, i)
      two == Continues(t, i + 1, 128, 191)
      three(low, high) == Continues(t, i + 1, low, high) /\ Continues(t, i + 2, 128, 191)
      four(low, high) == three(low, high) /\ Continues(t, i + 3, 128, 191)
  IN CASE c \in (32..127) \ {Quote, Backslash} -> 1
       [] c = Backslash ->
            IF At(t, i + 1) \in {34, 92, 47, 98, 102, 110, 114, 116} THEN 2
            ELSE IF At(t, i + 1) = 117 /\ \A h \in 2..5 : IsHex(At(t, i + h)) THEN 6 ELSE 0
       [] c \in 194..223 -> IF two THEN 2 ELSE 0
       [] c = 224 -> IF three(160, 191) THEN 3 ELSE 0
       [] c = 237 -> IF three(128, 159) THEN 3 ELSE 0
       [] c \in 225..239 /\ c # 237 -> IF three(128, 191) THEN 3 ELSE 0
       [] c = 240 -> IF four(144, 191) THEN 4 ELSE 0
       [] c \in 241..243 -> IF four(128, 191) THEN 4 ELSE 0
       [] c = 244 -> IF four(128, 143) THEN 4 ELSE 0
       [] OTHER -> 0

RECURSIVE StringEnd(_, _), DigitsEnd(_, _)
StringEnd(t, i) == IF CharLength(t, i) = 0 THEN i ELSE StringEnd(t, i + CharLength(t, i))
DigitsEnd(t, i) == IF IsDigit(At(t, i)) THEN DigitsEnd(t, i + 1) ELSE i

(* The end of the longest number that starts at i; i when there is none.     *)
NumberEnd(t, i) ==
  LET first == IF At(t, i) = 45 THEN i + 1 ELSE i
      int == IF At(t, first) = 48 THEN first + 1 ELSE DigitsEnd(t, first)
      frac == IF At(t, int) = 46 /\ IsDigit(At(t, int + 1)) THEN DigitsEnd(t, int + 1) ELSE int
      sign == IF At(t, frac + 1) \in {43, 45} THEN frac + 2 ELSE frac + 1
      exp == IF At(t, frac) \in {69, 101} /\ IsDigit(At(t, sign)) THEN DigitsEnd(t, sign) ELSE frac
  IN IF int = first THEN i ELSE exp

(* The token at i: its type, and the text between from and to.               *)
RECURSIVE scan(_, _)
scan(t, i) ==
  LET c == At(t, i)
      token(type, to) == [type |-> type, from |-> i, to |-> to]
      literal(type, word) == IF SubSeq(t, i, i + Len(word) - 1) = word
                             THEN token(type, i + Len(word)) ELSE token("parse_error", i + 1)
      quoted(close) == IF At(t, close) = Quote THEN token("value_string", close + 1)
                       ELSE token("parse_error", i + 1)
      number(end) == IF end > i THEN token("value_number", end) ELSE token("parse_error", i + 1)
  IN CASE c \in {32, 9, 10, 13} -> scan(t, i + 1)
       [] c = 0 -> token("end_of_input", i + 1)
       [] c = 44 -> token("value_separator", i + 1)
       [] c = 58 -> token("name_separator", i + 1)
       [] c = 91 -> token("begin_array", i + 1)
       [] c = 93 -> token("end_array", i + 1)
       [] c = 123 -> token("begin_object", i + 1)
       [] c = 125 -> token("end_object", i + 1)
       [] c = 110 -> literal("literal_null", Null_)
       [] c = 116 -> literal("literal_true", True_)
       [] c = 102 -> literal("literal_false", False_)
       [] c = Quote -> quoted(StringEnd(t, i + 1))
       [] c = 45 \/ IsDigit(c) -> number(NumberEnd(t, i))
       [] OTHER -> token("parse_error", i + 1)

to_unicode(codepoint1, codepoint2) ==
  LET surrogate == codepoint1 \in 55296..56319
      c == IF surrogate THEN (codepoint1 - 55296) * 1024 + (codepoint2 - 56320) + 65536
           ELSE codepoint1
      tail(n) == 128 + ((c \div n) % 64)
  IN IF surrogate /\ codepoint2 \notin 56320..57343 THEN Throw("invalid_argument")
     ELSE CASE c < 128 -> String(<<c>>)
            [] c \in 128..2047 -> String(<<192 + c \div 64, tail(1)>>)
            [] c \in 2048..65535 -> String(<<224 + c \div 4096, tail(64), tail(1)>>)
            [] c >= 65536 -> String(<<240 + c \div 262144, tail(4096), tail(64), tail(1)>>)

(* The escape \uXXXX at i, or the pair of them that makes a surrogate pair.  *)
CodePoint(t, i) == FoldLeft(LAMBDA acc, c : 16 * acc + HexValue(c), 0, SubSeq(t, i + 2, i + 5))
Unicode(t, i) ==
  CASE CodePoint(t, i) \in 55296..56319 ->
         IF At(t, i + 6) # Backslash \/ At(t, i + 7) # 117 THEN Throw("invalid_argument")
         ELSE to_unicode(CodePoint(t, i), CodePoint(t, i + 6))
    [] CodePoint(t, i) \in 56320..57343 -> Throw("invalid_argument")
    [] OTHER -> to_unicode(CodePoint(t, i), 0)

Unescaped(c) == IF c = 47 THEN c ELSE CHOOSE x \in DOMAIN Letter : Letter[x] = c

(* The characters between i and end, the closing quote, with what was        *)
(* escaped put back; Throw for a surrogate without its partner.              *)
IsUnicode(t, i) == At(t, i) = Backslash /\ At(t, i + 1) = 117
SourceLength(t, i) ==
  IF IsUnicode(t, i) /\ CodePoint(t, i) \in 55296..56319 THEN 12 ELSE CharLength(t, i)
Char(t, i, n) ==
  IF IsUnicode(t, i) THEN Unicode(t, i)
  ELSE String(IF At(t, i) = Backslash THEN <<Unescaped(At(t, i + 1))>> ELSE SubSeq(t, i, i + n - 1))
Joined(a, b) == IF Thrown(a) THEN a ELSE IF Thrown(b) THEN b ELSE String(a[2] \o b[2])

RECURSIVE get_string(_, _, _)
get_string(t, i, end) ==
  LET from(n) == Joined(Char(t, i, n), get_string(t, i + n, end))
  IN IF i >= end THEN String(<<>>) ELSE from(SourceLength(t, i))

(* The number of a token: digits while they fit, and a float otherwise.      *)
get_number(s) ==
  LET neg == s[1] = 45
      max == <<128, 0, 0, 0, 0, 0, 0, 0>>
      take(acc, c, r) == IF acc.float \/ ~IsDigit(c) \/ r.c # 0 \/ (neg /\ LexLess(max, r.b))
                         THEN [acc EXCEPT !.float = TRUE] ELSE [acc EXCEPT !.value = r.b]
      result(n) == IF n.float THEN <<"number_float", s>>
                   ELSE IF neg THEN Integer(Negate(n.value)) ELSE Unsigned(n.value)
  IN result(FoldLeft(LAMBDA acc, c : take(acc, c, TimesTen(acc.value, c - 48)),
                     [value |-> Zero8, float |-> FALSE], IF neg THEN Tail(s) ELSE s))

----------------------------------------------------------------------------
(* The parser: the last token, the depth it tells the callback, and the      *)
(* calls <<event, depth, nesting>> so far, nesting being where it really is. *)
(* A callback is on or not, and keeps what its answer for the event says.    *)
NoCallback == [on |-> FALSE]
get_token(t, s) == [s EXCEPT !.tok = scan(t, s.tok.to)]
Failed(s) == [s EXCEPT !.exc = "invalid_argument"]
Tell(s, event, depth, nest) == [s EXCEPT !.depth = depth, !.calls = Append(@, <<event, depth, nest>>)]
Result(r, s) == [r |-> r, s |-> s]

(* The start of a container: the state and whether to keep it.               *)
Start(s, event, keep, nest, cb) ==
  IF keep /\ cb.on
  THEN [keep |-> cb.keep[event],
        s |-> [Tell(s, event, s.depth, nest) EXCEPT !.depth = @ + 1]]
  ELSE [keep |-> keep, s |-> s]

(* Its end.                                                                  *)
Finish(r, s, event, asked, nest, cb) ==
  IF ~asked \/ ~cb.on THEN Result(r, s)
  ELSE Result(IF cb.keep[event] THEN r ELSE Discarded, Tell(s, event, s.depth - 1, nest))

Scalar(t, tok) ==
  CASE tok.type = "literal_null" -> Null
    [] tok.type = "literal_true" -> Boolean(TRUE)
    [] tok.type = "literal_false" -> Boolean(FALSE)
    [] tok.type = "value_string" -> get_string(t, tok.from + 1, tok.to - 1)
    [] tok.type = "value_number" -> get_number(SubSeq(t, tok.from, tok.to - 1))
    [] OTHER -> Throw("invalid_argument")

ParseScalar(v, s, after, asked, nest, cb) ==
  IF Thrown(v) THEN Result(Discarded, Failed(s))
  ELSE IF asked THEN Result(IF cb.keep["value"] THEN v ELSE Discarded, Tell(after, "value", s.depth, nest))
  ELSE Result(v, after)

RECURSIVE parse_internal(_, _, _, _, _), ObjectItems(_, _, _, _, _, _), ArrayItems(_, _, _, _, _, _),
          ObjectValue(_, _, _, _, _, _, _), ParseObject(_, _, _, _, _), ParseArray(_, _, _, _, _)
parse_internal(t, s, keep, nest, cb) ==
  LET object(begin) == ParseObject(t, get_token(t, begin.s), begin.keep, nest, cb)
      array(begin) == ParseArray(t, get_token(t, begin.s), begin.keep, nest, cb)
  IN CASE s.tok.type = "begin_object" -> object(Start(s, "object_start", keep, nest, cb))
       [] s.tok.type = "begin_array" -> array(Start(s, "array_start", keep, nest, cb))
       [] OTHER -> ParseScalar(Scalar(t, s.tok), s, get_token(t, s), keep /\ cb.on, nest, cb)

(* After the opening bracket.                                                *)
ParseObject(t, s, keep, nest, cb) ==
  LET r == IF keep THEN EmptyObject ELSE Discarded
  IN CASE s.tok.type = "end_object" -> Finish(r, get_token(t, s), "object_end", keep, nest, cb)
       [] s.tok.type = "value_separator" -> Result(Discarded, Failed(s))
       [] OTHER -> ObjectItems(t, s, keep, nest, cb, r)

ParseArray(t, s, keep, nest, cb) ==
  LET r == IF keep THEN EmptyArray ELSE Discarded
  IN CASE s.tok.type = "end_array" -> Finish(r, get_token(t, s), "array_end", TRUE, nest, cb)
       [] s.tok.type = "value_separator" -> Result(Discarded, Failed(s))
       [] OTHER -> ArrayItems(t, s, keep, nest, cb, r)

(* The members from the key s is at, and a member from behind its key.       *)
ObjectItems(t, s, keep, nest, cb, r) ==
  LET from(key) ==
        IF s.tok.type # "value_string" \/ Thrown(key) THEN Result(Discarded, Failed(s))
        ELSE ObjectValue(t, get_token(t, IF keep /\ cb.on THEN Tell(s, "key", s.depth, nest + 1) ELSE s),
                         keep, nest, cb, r, key[2])
  IN from(get_string(t, s.tok.from + 1, s.tok.to - 1))

ObjectValue(t, s, keep, nest, cb, r, key) ==
  LET keep_tag == keep /\ (~cb.on \/ cb.keep["key"])
      with(v) == IF keep_tag /\ v # Discarded THEN Object(WithKey(r[2], key, v)) ELSE r
      after(v) ==
        CASE v.s.exc # "none" -> v
          [] v.s.exc = "none" /\ v.s.tok.type = "value_separator" ->
               ObjectItems(t, get_token(t, v.s), keep, nest, cb, with(v.r))
          [] v.s.exc = "none" /\ v.s.tok.type = "end_object" ->
               Finish(with(v.r), get_token(t, v.s), "object_end", keep, nest, cb)
          [] OTHER -> Result(Discarded, Failed(v.s))
  IN IF s.tok.type # "name_separator" THEN Result(Discarded, Failed(s))
     ELSE after(parse_internal(t, get_token(t, s), keep, nest + 1, cb))

ArrayItems(t, s, keep, nest, cb, r) ==
  LET with(v) == IF keep /\ v # Discarded THEN push_back(r, v) ELSE r
      after(v) ==
        CASE v.s.exc # "none" -> v
          [] v.s.exc = "none" /\ v.s.tok.type = "value_separator" ->
               ArrayItems(t, get_token(t, v.s), keep, nest, cb, with(v.r))
          [] v.s.exc = "none" /\ v.s.tok.type = "end_array" ->
               Finish(with(v.r), get_token(t, v.s), "array_end", keep, nest, cb)
          [] OTHER -> Result(Discarded, Failed(v.s))
  IN after(parse_internal(t, s, keep, nest + 1, cb))

(* The value, or Throw, and the calls of the callback.                       *)
Parsed(p) ==
  [calls |-> p.s.calls,
   j |-> IF p.s.exc # "none" THEN Throw(p.s.exc)
         ELSE IF p.s.tok.type # "end_of_input" THEN Throw("invalid_argument")
         ELSE IF p.r = Discarded THEN Null ELSE p.r]
parse(t, cb) ==
  Parsed(parse_internal(t, [tok |-> scan(t, 1), depth |-> 0, calls |-> <<>>, exc |-> "none"],
                        TRUE, 0, cb))
=============================================================================
