---------------------------- MODULE JsonPointer ----------------------------
(* json.hpp: json_pointer (RFC 6901), flatten() and unflatten(), patch()     *)
(* (RFC 6902) and diff().                                                    *)
EXTENDS JsonValue

Slash == 47
Tilde == 126
Dash == <<45>>
Digit(c) == c \in 48..57

(* All occurrences of f in s, from left to right, become t.                  *)
RECURSIVE replace_substring(_, _, _)
replace_substring(s, f, t) ==
  IF Len(s) < Len(f) THEN s
  ELSE IF IsPrefix(f, s) THEN t \o replace_substring(SubSeq(s, Len(f) + 1, Len(s)), f, t)
  ELSE <<Head(s)>> \o replace_substring(Tail(s), f, t)

escape(s) ==
  replace_substring(replace_substring(s, <<Tilde>>, <<Tilde, 48>>), <<Slash>>, <<Tilde, 49>>)

unescape(s) ==
  replace_substring(replace_substring(s, <<Tilde, 49>>, <<Slash>>), <<Tilde, 48>>, <<Tilde>>)

to_string(tokens) == FlattenSeq([i \in DOMAIN tokens |-> <<Slash>> \o escape(tokens[i])])

(* The reference tokens of a pointer, or Throw.                              *)
split(s) ==
  LET slashes == SelectSeq([i \in DOMAIN s |-> i], LAMBDA i : s[i] = Slash)
      raw == [n \in DOMAIN slashes |->
                SubSeq(s, slashes[n] + 1, IF n = Len(slashes) THEN Len(s) ELSE slashes[n + 1] - 1)]
      escaped(t) == \A i \in DOMAIN t : t[i] = Tilde => i < Len(t) /\ t[i + 1] \in {48, 49}
  IN IF s = <<>> THEN <<"tokens", <<>>>>
     ELSE IF s[1] # Slash THEN Throw("domain_error")
     ELSE IF \E n \in DOMAIN raw : ~escaped(raw[n]) THEN Throw("domain_error")
     ELSE <<"tokens", [n \in DOMAIN raw |-> unescape(raw[n])]>>

(* std::stoi: a minus sign and digits at the front (tokens have no space or  *)
(* plus sign here).                                                          *)
stoi(s) ==
  LET neg == s # <<>> /\ s[1] = 45
      from == IF neg THEN 2 ELSE 1
      stop == {i \in from..Len(s) : ~Digit(s[i])}
      digits == SubSeq(s, from, IF stop = {} THEN Len(s) ELSE Min(stop) - 1)
      n == FoldLeft(LAMBDA acc, c : 10 * acc + c - 48, 0, digits)
  IN IF digits = <<>> THEN Throw("invalid_argument") ELSE <<"int", IF neg THEN -n ELSE n>>

RECURSIVE std_to_string(_)
std_to_string(n) == IF n < 10 THEN <<48 + n>> ELSE Append(std_to_string(n \div 10), 48 + (n % 10))

----------------------------------------------------------------------------
(* One token of a pointer.  Each returns [exc, doc, key]: the exception or   *)
(* "none", the value as the access leaves it, and the member it leads to.    *)
Step(doc, key) == [exc |-> "none", doc |-> doc, key |-> key]
Fail(doc, what) == [exc |-> what, doc |-> doc, key |-> 0]
StepTo(old, doc, key) == IF Thrown(doc) THEN Fail(old, doc[2]) ELSE Step(doc, key)
LeadingZero(t) == Len(t) > 1 /\ t[1] = 48

ByIndex(j, t) == IF Thrown(stoi(t)) THEN Fail(j, stoi(t)[2])
                 ELSE StepTo(j, IndexArray(j, stoi(t)[2]), stoi(t)[2] + 1)

StepChecked(j, t) ==
  CASE is_object(j) -> IF Thrown(at_key(j, t)) THEN Fail(j, "out_of_range") ELSE Step(j, t)
    [] is_array(j) ->
         IF t = Dash THEN Fail(j, "out_of_range")
         ELSE IF LeadingZero(t) THEN Fail(j, "domain_error")
         ELSE IF Thrown(stoi(t)) THEN Fail(j, stoi(t)[2])
         ELSE IF Thrown(at_index(j, stoi(t)[2])) THEN Fail(j, "out_of_range")
         ELSE Step(j, stoi(t)[2] + 1)
    [] OTHER -> Fail(j, "out_of_range")

(* operator[]: null turns into the container the token asks for (an empty    *)
(* token counts as digits), and stays one if the token then turns out wrong. *)
AskedFor(t) == IF (\A i \in DOMAIN t : Digit(t[i])) \/ t = Dash THEN EmptyArray ELSE EmptyObject
StepInto(j, t) ==
  CASE is_object(j) -> StepTo(j, IndexObject(j, t), t)
    [] is_array(j) -> IF LeadingZero(t) THEN Fail(j, "domain_error")
                      ELSE IF t = Dash THEN Step(IndexArray(j, Len(j[2])), Len(j[2]) + 1)
                      ELSE ByIndex(j, t)
    [] OTHER -> Fail(j, "out_of_range")
StepUnchecked(j, t) == StepInto(IF j = Null THEN AskedFor(t) ELSE j, t)

(* get_and_create(), for unflatten().                                        *)
StepCreate(j, t) ==
  CASE j = Null -> IF t = <<48>> THEN StepTo(j, IndexArray(j, 0), 1)
                   ELSE StepTo(j, IndexObject(j, t), t)
    [] is_object(j) -> StepTo(j, IndexObject(j, t), t)
    [] is_array(j) -> ByIndex(j, t)
    [] OTHER -> Fail(j, "domain_error")

(* Follows the tokens: the exception, the document afterwards and the place  *)
(* that the reference is to.                                                 *)
Within(s, r) == [exc |-> r.exc, doc |-> <<Type(s.doc), [s.doc[2] EXCEPT ![s.key] = r.doc]>>,
                 place |-> <<s.key>> \o r.place]
RECURSIVE Resolve(_, _, _), ResolveAfter(_, _, _)
ResolveAfter(s, tokens, mode) ==
  IF s.exc # "none" THEN [exc |-> s.exc, doc |-> s.doc, place |-> <<>>]
  ELSE Within(s, Resolve(s.doc[2][s.key], tokens, mode))
Resolve(j, tokens, mode) ==
  IF tokens = <<>> THEN [exc |-> "none", doc |-> j, place |-> <<>>]
  ELSE ResolveAfter(CASE mode = "checked" -> StepChecked(j, Head(tokens))
                      [] mode = "unchecked" -> StepUnchecked(j, Head(tokens))
                      [] mode = "create" -> StepCreate(j, Head(tokens)), Tail(tokens), mode)

RECURSIVE Follow(_, _), Assign(_, _, _)
Follow(j, place) == IF place = <<>> THEN j ELSE Follow(j[2][Head(place)], Tail(place))
Assign(j, place, v) ==
  IF place = <<>> THEN v
  ELSE <<Type(j), [j[2] EXCEPT ![Head(place)] = Assign(@, Tail(place), v)]>>

Fetched(r) == IF r.exc # "none" THEN Throw(r.exc) ELSE Follow(r.doc, r.place)
get_checked(j, tokens) == Fetched(Resolve(j, tokens, "checked"))

(* j[ptr] = v: the exception and the document afterwards.                    *)
Assigned(r, v) == [exc |-> r.exc, doc |-> IF r.exc # "none" THEN r.doc ELSE Assign(r.doc, r.place, v)]
AssignPointer(j, tokens, mode, v) == Assigned(Resolve(j, tokens, mode), v)

----------------------------------------------------------------------------
(* flatten() and unflatten().  The flat form is an object whose keys are     *)
(* pointers, handled here as a sequence of <<pointer, value>>.               *)
RECURSIVE FlatEntries(_, _)
FlatEntries(path, j) ==
  LET k == Keys(j) IN
  CASE (is_array(j) \/ is_object(j)) /\ DOMAIN j[2] = {} -> <<<<path, Null>>>>
    [] is_array(j) /\ DOMAIN j[2] # {} ->
         FlattenSeq([i \in DOMAIN j[2] |->
           FlatEntries(path \o <<Slash>> \o std_to_string(i - 1), j[2][i])])
    [] is_object(j) /\ DOMAIN j[2] # {} ->
         FlattenSeq([i \in DOMAIN k |->
           FlatEntries(path \o <<Slash>> \o escape(k[i]), j[2][k[i]])])
    [] OTHER -> <<<<path, j>>>>

flatten(j) ==
  LET e == FlatEntries(<<>>, j)
  IN Object([p \in {e[i][1] : i \in DOMAIN e} |->
               e[CHOOSE i \in DOMAIN e : e[i][1] = p][2]])

Outcome(r) == IF r.exc # "none" THEN Throw(r.exc) ELSE r.doc
Unflattened(r, ptr, v) ==
  CASE r.exc # "none" -> r
    [] r.exc = "none" /\ ~is_primitive(v) -> [r EXCEPT !.exc = "domain_error"]
    [] r.exc = "none" /\ is_primitive(v) /\ Thrown(ptr) -> [r EXCEPT !.exc = ptr[2]]
    [] OTHER -> AssignPointer(r.doc, ptr[2], "create", v)
unflatten(j) ==
  IF ~is_object(j) THEN Throw("domain_error")
  ELSE Outcome(FoldLeft(LAMBDA r, k : Unflattened(r, split(k), j[2][k]),
                        [exc |-> "none", doc |-> Null], Keys(j)))

----------------------------------------------------------------------------
(* patch().  An operation is <<"object", members>>, the members op, path,    *)
(* value and from as the fields of a record.                                 *)
Added(parent, last, val) ==
  CASE parent = Null \/ is_object(parent) ->
         Object(WithKey(IndexObject(parent, last)[2], last, val))
    [] is_array(parent) ->
         IF last = Dash THEN push_back(parent, val)
         ELSE IF Thrown(stoi(last)) THEN stoi(last)
         ELSE IF stoi(last)[2] \notin 0..Len(parent[2]) THEN Throw("out_of_range")
         ELSE insert(parent, stoi(last)[2], <<val>>)
    [] OTHER -> Throw("assertion")

Without(parent, last) ==
  CASE is_object(parent) -> IF last \in DOMAIN parent[2] THEN erase_key(parent, last)
                            ELSE Throw("out_of_range")
    [] is_array(parent) -> IF Thrown(stoi(last)) THEN stoi(last)
                           ELSE erase_index(parent, stoi(last)[2])
    [] OTHER -> parent

(* The document with another parent at the place that r refers to.           *)
Replaced(r, parent) ==
  IF r.exc # "none" THEN Throw(r.exc)
  ELSE IF Thrown(parent) THEN parent ELSE Assign(r.doc, r.place, parent)
AddTo(r, last, val) == Replaced(r, Added(Follow(r.doc, r.place), last, val))
RemoveFrom(r, last) == Replaced(r, Without(Follow(r.doc, r.place), last))

operation_add(j, tokens, val) ==
  IF tokens = <<>> THEN val
  ELSE IF Len(tokens) > 1 /\ Thrown(get_checked(j, <<tokens[1]>>))
  THEN get_checked(j, <<tokens[1]>>)
  ELSE AddTo(Resolve(j, Front(tokens), "unchecked"), Last(tokens), val)

operation_remove(j, tokens) ==
  IF tokens = <<>> THEN Throw("domain_error")
  ELSE RemoveFrom(Resolve(j, Front(tokens), "checked"), Last(tokens))

(* One operation on the result so far.                                       *)
OpPointer(m, member) ==
  IF member \notin DOMAIN m \/ ~is_string(m[member]) THEN Throw("invalid_argument")
  ELSE split(m[member][2])
Unless(r, F(_)) == IF Thrown(r) THEN r ELSE F(r)

(* move, copy and test; of copy's two accesses the one that may throw is     *)
(* taken first, which C++ leaves open.                                       *)
operation_move(j, from, to) ==
  Unless(get_checked(j, from), LAMBDA v :
    Unless(operation_remove(j, from), LAMBDA rest : operation_add(rest, to, v)))
operation_copy(j, from, to) ==
  Unless(get_checked(j, from), LAMBDA v : Outcome(AssignPointer(j, to, "unchecked", v)))
operation_test(j, there, v) ==
  IF Thrown(there) THEN Throw(IF there[2] = "out_of_range" THEN "domain_error" ELSE there[2])
  ELSE IF Equal(there, v) THEN j ELSE Throw("domain_error")

Operation(j, m, to) ==
  CASE m.op = "add" /\ "value" \in DOMAIN m -> operation_add(j, to, m.value)
    [] m.op = "remove" -> operation_remove(j, to)
    [] m.op = "replace" /\ "value" \in DOMAIN m -> Outcome(AssignPointer(j, to, "checked", m.value))
    [] m.op = "move" -> Unless(OpPointer(m, "from"), LAMBDA from : operation_move(j, from[2], to))
    [] m.op = "copy" -> Unless(OpPointer(m, "from"), LAMBDA from : operation_copy(j, from[2], to))
    [] m.op = "test" /\ "value" \in DOMAIN m -> operation_test(j, get_checked(j, to), m.value)
    [] OTHER -> Throw("invalid_argument")

PatchStep(j, val) ==
  IF ~is_object(val) \/ "op" \notin DOMAIN val[2] THEN Throw("invalid_argument")
  ELSE Unless(OpPointer(val[2], "path"), LAMBDA to : Operation(j, val[2], to[2]))

(* The operations work on a copy: a patch that throws changes nothing.       *)
patch(j, json_patch) ==
  IF ~is_array(json_patch) THEN Throw("invalid_argument")
  ELSE FoldLeft(LAMBDA acc, val : Unless(acc, LAMBDA a : PatchStep(a, val)), j, json_patch[2])

----------------------------------------------------------------------------
Op(op, path) == <<"object", [op |-> op, path |-> String(path)]>>
OpValue(op, path, v) == <<"object", [op |-> op, path |-> String(path), value |-> v]>>
Under(path, key) == path \o <<Slash>> \o key

\* Mutant: the elements to remove are listed from the front.
RemovalsFromFront(path, from, to) ==
  [n \in 1..(to - from) |-> Op("remove", Under(path, std_to_string(from + n - 1)))]

(* The removal of elements from..to-1: each is put before the earlier ones,  *)
(* so that the indices of the others stay right.                             *)
Removals(path, from, to) ==
  [n \in 1..(to - from) |-> Op("remove", Under(path, std_to_string(to - n)))]

RECURSIVE diff(_, _, _)
diff(source, target, path) ==
  LET s == source[2]  t == target[2]
      n == Min({Len(s), Len(t)})
      ks == Keys(source)  kt == Keys(target)
  IN CASE Equal(source, target) -> <<>>
       [] ~Equal(source, target) /\ is_array(source) /\ is_array(target) ->
            FlattenSeq([i \in 1..n |-> diff(s[i], t[i], Under(path, std_to_string(i - 1)))])
            \o Removals(path, n, Len(s))
            \o [i \in 1..(Len(t) - n) |-> OpValue("add", Under(path, std_to_string(n + i - 1)), t[n + i])]
       [] ~Equal(source, target) /\ is_object(source) /\ is_object(target) ->
            FlattenSeq([i \in DOMAIN ks |->
              IF ks[i] \in DOMAIN t THEN diff(s[ks[i]], t[ks[i]], Under(path, escape(ks[i])))
              ELSE <<Op("remove", Under(path, escape(ks[i])))>>])
            \o FlattenSeq([i \in DOMAIN kt |->
              IF kt[i] \in DOMAIN s THEN <<>>
              ELSE <<OpValue("add", Under(path, escape(kt[i])), t[kt[i]])>>])
       [] OTHER -> <<OpValue("replace", path, target)>>
=============================================================================
