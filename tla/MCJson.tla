------------------------------- MODULE MCJson ------------------------------
EXTENDS JsonDocument

KeyA == <<97>>
Key0 == <<48>>
KeyTilde == <<126, 49>>
KeySlash == <<47>>
One == Unsigned(Length8(1))
MinusOne == Integer(Complement(Zero8))
Obj1(k, v) == Object([x \in {k} |-> v])

MCMembers == {KeyA, Key0, KeyTilde}
MCValues == {Null, One, EmptyArray, Obj1(KeySlash, MinusOne)}

\* "/a/0", "/-", "/0/~1", "/1", "/a/"
MCPointers == {<<47, 97, 47, 48>>, <<47, 45>>, <<47, 48, 47, 126, 49>>, <<47, 49>>, <<47, 97, 47>>}

Path(p) == String(p)
PathA == <<47, 97>>
Path0 == <<47, 48>>
PathEnd == <<47, 45>>
MCPatches ==
  {<<OpValue("add", PathEnd, One)>>,
   <<OpValue("add", Path0, Null), OpValue("replace", Path0, EmptyObject)>>,
   <<OpValue("test", PathA, One), Op("remove", PathA)>>,
   <<<<"object", [op |-> "move", path |-> Path(Path0), from |-> Path(PathA)]>>>>,
   <<<<"object", [op |-> "copy", path |-> Path(PathA), from |-> Path(Path0)]>>>>,
   <<Op("add", PathA)>>, <<Null>>, <<<<"object", [op |-> "remove"]>>>>,
   <<Op("swap", PathA)>>}

(* 2^k, and what lies around it. *)
PowerOf2(k) == [i \in 1..8 |-> IF i = 8 - k \div 8 THEN 2^(k % 8) ELSE 0]
Successor(b) == Bytes(PlusOne(Bits(b)))
Around(b) == {b, Complement(Negate(b)), Successor(b)}
Edges == UNION {Around(b) : b \in {Zero8, Length8(24), Length8(32)}
                              \cup {PowerOf2(k) : k \in {7, 8, 15, 16, 31, 32, 63}}}
Numbers == {Unsigned(b) : b \in Edges} \cup {Integer(b) : b \in Edges}
           \cup {Integer(Negate(b)) : b \in Edges}
(* ", \, newline, 0x1f, 0x7f, two-, three- and four-byte characters *)
Strings == {String(<<34, 92, 10, 31, 127>>), String(<<194, 162, 226, 130, 172, 240, 144, 141, 136>>)}
(* Lengths around those that need another first byte. *)
Long(n) == {String([i \in 1..n |-> 97])}
           \cup IF n > 32 THEN {}
                ELSE {Array(Nulls(n)), Object([k \in {<<64 + i>> : i \in 1..n} |-> Null])}
MCLoaded == {Null} \cup Numbers \cup Strings
            \cup UNION {Long(n) : n \in {15, 16, 23, 24, 31, 32, 255, 256}}

(* Numbers of all three types: 1, -1, 2^64-1, which is -1 when it is converted, *)
(* and 1.5.                                                                     *)
MCOthers == {Null, One, MinusOne, Unsigned(Complement(Zero8)), Float(<<63, 248, 0, 0, 0, 0, 0, 0>>),
             EmptyArray, EmptyObject, Array(<<One>>), Obj1(Key0, Array(<<Null, One>>)),
             Array(<<Null, Obj1(KeySlash, Boolean(TRUE)), Null>>),
             Object([k \in {KeyA, KeyTilde} |-> IF k = KeyA THEN Null ELSE Obj1(KeySlash, One)])}
=============================================================================
