-------------------------------- MODULE Link -------------------------------
(* ssdb: a connection of the server.  Link::onRead() gets bytes as the       *)
(* network delivers them, takes requests from them in ssdb's own or in       *)
(* redis' protocol (link.cpp, link_redis.cpp, bytes.cpp), runs the commands  *)
(* (proc_kv.cpp, ssdb_impl.cpp) and writes the replies.                      *)
(*                                                                           *)
(* A byte is a string; the name of a command is one byte, and so are the     *)
(* words of a reply ("OK", the text of an error).  The numbers of a header   *)
(* are decimal digits.  sync140, which starts a thread, is in Replication.   *)
EXTENDS Integers, Sequences, SequencesExt, FiniteSets

CONSTANTS Scripts,           \* what clients send: sequences of requests
          INIT_BUFFER_SIZE, BEST_BUFFER_SIZE, LargeBuffer,  \* 1024, 8K, 512K
          MAX_PACKET_SIZE

Digits == <<"0", "1", "2", "3", "4", "5", "6", "7", "8", "9">>
IsDigit(c) == c \in ToSet(Digits)
Newlines == {"CR", "LF"}
CRLF == <<"CR", "LF">>

(* atoi() and strtol(): the value of the digits at the front.                *)
Number(s) ==
  LET n == SelectInSeq(s, LAMBDA c : ~IsDigit(c))
      front == IF n = 0 THEN s ELSE SubSeq(s, 1, n - 1)
      digit(c) == (CHOOSE i \in 1..10 : Digits[i] = c) - 1
  IN FoldLeft(LAMBDA acc, c : 10 * acc + digit(c), 0, front)

RECURSIVE Decimal(_)
Decimal(n) == IF n < 10 THEN <<Digits[n + 1]>> ELSE Append(Decimal(n \div 10), Digits[(n % 10) + 1])

(* The index of the first c at or behind i, 0 if there is none.              *)
Find(s, i, c) == LET n == SelectInSubSeq(s, i, Len(s), LAMBDA x : x = c)
                 IN IF i > Len(s) THEN 0 ELSE n

----------------------------------------------------------------------------
(* Clients.  A request is its arguments, its protocol and its end of line.   *)
Bulk(arg, eol) == <<"$">> \o Decimal(Len(arg)) \o eol \o arg \o eol
Record(arg, eol) == Decimal(Len(arg)) \o eol \o arg \o eol
Encode(r) ==
  IF r.form = "redis"
  THEN <<"*">> \o Decimal(Len(r.args)) \o r.eol
       \o FlattenSeq([i \in DOMAIN r.args |-> Bulk(r.args[i], r.eol)])
  ELSE FlattenSeq([i \in DOMAIN r.args |-> Record(r.args[i], r.eol)]) \o r.eol

----------------------------------------------------------------------------
(* The input buffer: its bytes, where they start and how many it can hold.   *)
space(b) == b.total - b.off - Len(b.data)

grow(b) == [b EXCEPT !.total = IF @ < BEST_BUFFER_SIZE THEN BEST_BUFFER_SIZE
                               ELSE IF @ < LargeBuffer THEN 8 * @ ELSE 2 * @]

RECURSIVE append(_, _)
append(b, s) == IF Len(s) > space(b) THEN append(grow(b), s) ELSE [b EXCEPT !.data = @ \o s]

decr(b, n) == [b EXCEPT !.data = SubSeq(@, n + 1, Len(@)), !.off = @ + n]

nice(b) == IF b.data = <<>> \/ b.off > b.total \div 2 THEN [b EXCEPT !.off = 0] ELSE b

(* What both protocols do when no request is complete.                       *)
MakeSpace(b) == IF space(b) > 0 THEN b
                ELSE IF space(nice(b)) > 0 THEN nice(b) ELSE grow(nice(b))

----------------------------------------------------------------------------
(* Parsing: "ready" with a request and how many bytes it took, "wait" or     *)
(* "error".                                                                  *)
Ready(req, parsed) == [kind |-> "ready", req |-> req, parsed |-> parsed]
Wait == [kind |-> "wait"]
Error == [kind |-> "error"]

(* The index behind the empty lines at the front.                            *)
Leading(s) == LET n == SelectInSeq(s, LAMBDA c : c \notin Newlines)
              IN IF n = 0 THEN Len(s) + 1 ELSE n

\* Mutant: the byte behind a CR is not waited for.
LineEndAtOnce(s, i) ==
  IF i > Len(s) THEN 0
  ELSE IF s[i] = "LF" THEN 1
  ELSE IF SubSeq(s, i, Min({i + 1, Len(s)})) = CRLF THEN 2 ELSE -1

(* The length of the end of line at i: 0 if that is not known yet, -1 for    *)
(* something else.                                                           *)
LineEnd(s, i) ==
  IF i > Len(s) THEN 0
  ELSE IF s[i] = "LF" THEN 1
  ELSE IF i = Len(s) THEN 0
  ELSE IF SubSeq(s, i, i + 1) = CRLF THEN 2 ELSE -1

RECURSIVE Records(_, _, _), RecordAt(_, _, _, _, _)
Records(s, i, acc) ==
  LET lf == Find(s, i, "LF") IN
  IF lf = 0 THEN Wait ELSE RecordAt(s, i, lf, lf + Number(SubSeq(s, i, lf - 1)) + 1, acc)

(* The line from i to lf is empty, or the record goes on up to next.         *)
RecordAt(s, i, lf, next, acc) ==
  LET head_len == lf - i + 1
      n == LineEnd(s, next)
  IN IF head_len = 1 \/ (head_len = 2 /\ s[i] = "CR") THEN Ready(acc, lf)
     ELSE IF ~IsDigit(s[i]) \/ head_len > 19 THEN Error
     ELSE IF n = 0 THEN Wait
     ELSE IF n = -1 \/ next + n - 1 > MAX_PACKET_SIZE THEN Error
     ELSE Records(s, next + n, Append(acc, SubSeq(s, lf + 1, next - 1)))

(* The argument is there, and a byte behind it.                              *)
ArgComplete(len, size) == len =< size - 1

(* num_args is 0 before the first line, the one with the number.             *)
RECURSIVE Args(_, _, _, _), ArgAt(_, _, _, _, _)
Args(s, i, num_args, acc) ==
  LET lf == Find(s, i, "LF") IN
  IF lf = 0 THEN Wait ELSE ArgAt(s, lf, Number(SubSeq(s, i + 1, lf - 1)), num_args, acc)

ArgAt(s, lf, len, num_args, acc) ==
  LET behind == lf + len + 2
      next == IF behind =< Len(s) /\ s[behind] = "LF" THEN behind + 1 ELSE behind
      args == Append(acc, SubSeq(s, lf + 1, lf + len))
  IN IF num_args = 0 THEN IF len = 0 THEN Error ELSE Args(s, lf + 1, len, acc)
     ELSE IF ~ArgComplete(len, Len(s) - lf) THEN Wait
     ELSE IF num_args = 1 THEN Ready(args, next - 1) ELSE Args(s, next, num_args - 1, args)

(* The kind of the reply to a command of redis; the commands that are left   *)
(* out have ssdb names which the server does not know.                       *)
reply_type(c) == CASE c \in {"get", "hget"} -> "bulk" [] c \in {"del", "hset"} -> "int"
                   [] c = "set" -> "status" [] c = "ping" -> "ping" [] OTHER -> "none"
strtolower(c) == CASE c = "GET" -> "get" [] c = "SET" -> "set" [] OTHER -> c
convert_req(args) == <<(<<strtolower(args[1][1])>>)>> \o Tail(args)

(* Link::recv_req(): the request, and whether redis' parser made it.         *)
Request(p, redis) ==
  IF p.kind # "ready" THEN p
  ELSE [p EXCEPT !.req = [redis |-> redis, args |-> IF redis THEN convert_req(@) ELSE @]]
recv_req(s) ==
  LET i == Leading(s)
      redis == i =< Len(s) /\ s[i] = "*"
  IN Request(IF redis THEN Args(s, i, 0, <<>>) ELSE Records(s, i, <<>>), redis)

----------------------------------------------------------------------------
(* The commands.  The database is the values of keys, the fields of hashes   *)
(* and the sizes of hashes; a response is a status and perhaps a value.      *)
Put(f, k, v) == [x \in DOMAIN f \cup {k} |-> IF x = k THEN v ELSE f[x]]
Params == [get |-> 2, set |-> 3, del |-> 2, hget |-> 3, hset |-> 4]

get(db, args) ==
  [db |-> db, resp |-> IF args[2] \in DOMAIN db.kv THEN <<"ok", db.kv[args[2]]>> ELSE <<"not_found">>]

(* An empty key is not stored, and the answer is the same.                   *)
set(db, args) ==
  [db |-> IF args[2] = <<>> THEN db ELSE [db EXCEPT !.kv = Put(@, args[2], args[3])],
   resp |-> <<"ok", <<"1">>>>]

del(db, args) ==
  [db |-> [db EXCEPT !.kv = [k \in DOMAIN @ \ {args[2]} |-> @[k]]], resp |-> <<"ok", <<"1">>>>]

hget(db, args) ==
  LET k == <<args[2], args[3]>>
  IN [db |-> db, resp |-> IF k \in DOMAIN db.hash THEN <<"ok", db.hash[k]>> ELSE <<"not_found">>]

hsize(db, name) == IF name \in DOMAIN db.hsize THEN db.hsize[name] ELSE 0

(* The number of newly added fields.                                         *)
hset_one(db, k) == IF k \in DOMAIN db.hash THEN 0 ELSE 1

hset(db, args) ==
  LET k == <<args[2], args[3]>>
      ret == hset_one(db, k)
      db1 == [db EXCEPT !.hash = Put(@, k, args[4])]
  IN IF args[2] = <<>> \/ args[3] = <<>> THEN [db |-> db, resp |-> <<"error">>]
     ELSE [db |-> IF ret = 0 THEN db1
                  ELSE [db1 EXCEPT !.hsize = Put(@, args[2], hsize(db, args[2]) + ret)],
           resp |-> <<"ok", Decimal(ret)>>]

proc(db, args) ==
  LET c == args[1][1] IN
  IF c \notin DOMAIN Params \/ Len(args) < Params[c]
  THEN [db |-> db, resp |-> <<"client_error">>]
  ELSE CASE c = "get" -> get(db, args) [] c = "set" -> set(db, args) [] c = "del" -> del(db, args)
         [] c = "hget" -> hget(db, args) [] c = "hset" -> hset(db, args)

\* Mutant: the line behind a value is not ended.
BulkReplyOpen(val) == <<"$">> \o Decimal(Len(val)) \o CRLF \o val

BulkReply(val) == <<"$">> \o Decimal(Len(val)) \o CRLF \o val \o CRLF

(* The reply has the kind of the last command redis' parser has seen.        *)
send_resp(desc, resp) ==
  CASE resp[1] \in {"error", "client_error"} -> <<"-", "ERR">> \o CRLF
    [] resp[1] = "not_found" -> <<"$", "-", "1">> \o CRLF
    [] resp[1] = "ok" ->
         (CASE desc = "none" -> <<"*">> \o Decimal(Len(resp) - 1) \o CRLF \o BulkReply(resp[2])
           [] desc = "ping" -> <<"+", "PONG">> \o CRLF
           [] desc = "status" -> <<"+", "OK">> \o CRLF
           [] desc = "bulk" -> BulkReply(resp[2])
           [] desc = "int" -> <<":">> \o resp[2] \o CRLF)

----------------------------------------------------------------------------
(* What the client sends, the bytes on their way, those that have arrived,   *)
(* the connection and the database.  link.handled and link.out are what has  *)
(* been done and written.                                                    *)
VARIABLES script, wire, arrived, link, store
linkVars == <<script, wire, arrived, link, store>>

NoStore == LET none == [x \in {} |-> <<>>] IN [kv |-> none, hash |-> none, hsize |-> none]

newLink == [input |-> [data |-> <<>>, off |-> 0, total |-> INIT_BUFFER_SIZE],
            desc |-> "none", handled |-> <<>>, out |-> <<>>, open |-> TRUE]

LinkInit ==
  /\ script \in Scripts
  /\ wire = FlattenSeq([i \in DOMAIN script |-> Encode(script[i])])
  /\ arrived = <<>> /\ link = newLink /\ store = NoStore

(* The loop of onRead(): requests are served until one is incomplete; a bad  *)
(* one ends the connection.                                                  *)
RECURSIVE Serve(_, _), Handle(_, _, _)
Serve(l, db) ==
  IF l.input.data = <<>> THEN [link |-> l, db |-> db] ELSE Handle(l, db, recv_req(l.input.data))

Handle(l, db, p) ==
  LET desc == IF p.req.redis THEN reply_type(p.req.args[1][1]) ELSE l.desc
      r == proc(db, p.req.args)
  IN CASE p.kind = "error" -> [link |-> [l EXCEPT !.open = FALSE], db |-> db]
       [] p.kind = "wait" -> [link |-> [l EXCEPT !.input = MakeSpace(@)], db |-> db]
       [] p.kind = "ready" ->
            Serve([l EXCEPT !.input = decr(@, p.parsed), !.desc = desc,
                            !.handled = Append(@, p.req), !.out = @ \o send_resp(desc, r.resp)],
                  r.db)

(* n bytes have arrived.                                                     *)
onRead(n) ==
  /\ link.open
  /\ n =< Len(wire)
  /\ wire' = SubSeq(wire, n + 1, Len(wire))
  /\ arrived' = arrived \o SubSeq(wire, 1, n)
  /\ \E s \in {Serve([link EXCEPT !.input = append(@, SubSeq(wire, 1, n))], store)} :
       link' = s.link /\ store' = s.db
  /\ UNCHANGED script

LinkNext == \E n \in 1..Len(wire) : onRead(n)

----------------------------------------------------------------------------
(* A client of redis: the replies in a stream of bytes, "bad" for what is   *)
(* none.                                                                     *)
RECURSIVE Replies(_, _)
Replies(s, i) ==
  LET cr == Find(s, i, "CR")
      n == Number(SubSeq(s, i + 1, cr - 1))
      line == SubSeq(s, i, cr - 1)
      bad == <<(<<"bad">>)>>
      value == SubSeq(s, cr + 2, cr + 1 + n)
      rest(j) == IF j < Len(s) /\ SubSeq(s, j, j + 1) = CRLF THEN Replies(s, j + 2) ELSE bad
  IN CASE i > Len(s) -> <<>>
       [] i =< Len(s) /\ cr = 0 -> bad
       [] OTHER ->
            IF s[i] \in {"-", "+", ":"} \/ line = <<"$", "-", "1">> THEN <<line>> \o rest(cr)
            ELSE IF s[i] = "$" /\ cr + 1 + n < Len(s) THEN <<value>> \o rest(cr + 2 + n)
            ELSE IF s[i] = "*" THEN Replies(s, cr + 2)  \* of one value
            ELSE bad

(* What the request asks of a plain map, given the requests before it.       *)
LastWrite(h, i, test(_)) == Max({0} \cup {j \in 1..(i - 1) : test(h[j].args)})
Known(args) == args[1][1] \in DOMAIN Params /\ Len(args) >= Params[args[1][1]]
Expected(h, i) ==
  LET a == h[i].args  c == a[1][1]
      w == LastWrite(h, i, LAMBDA x : Known(x) /\ x[2] = a[2] /\ x[1][1] \in {"set", "del"})
      f == LastWrite(h, i, LAMBDA x : Known(x) /\ x[1][1] = "hset" /\ x[2] = a[2] /\ x[3] = a[3])
      nil == <<"$", "-", "1">>
      empty == a[2] = <<>> \/ a[3] = <<>>
  IN CASE ~Known(a) -> <<"-", "ERR">>
       [] Known(a) /\ c = "set" -> <<"+", "OK">>
       [] Known(a) /\ c = "del" -> <<":", "1">>
       [] Known(a) /\ c = "get" ->
            IF w = 0 \/ a[2] = <<>> THEN nil ELSE IF h[w].args[1][1] = "del" THEN nil ELSE h[w].args[3]
       [] Known(a) /\ c = "hset" ->
            IF empty THEN <<"-", "ERR">> ELSE IF f = 0 THEN <<":", "1">> ELSE <<":", "0">>
       [] Known(a) /\ c = "hget" -> IF empty \/ f = 0 THEN nil ELSE h[f].args[4]

(* Every request that has been read is answered once and in order, by a      *)
(* reply that a client can tell from the next; to a request of redis it is   *)
(* the one that the requests before it call for (RedisLink::send_resp keeps  *)
(* the kind of the reply in the link, proc_kv.cpp the values in the store).  *)
(* The size kept for a hash is the number of its fields.                     *)
Answered ==
  LET r == Replies(link.out, 1)  h == link.handled IN
  /\ Len(r) = Len(h) /\ <<"bad">> \notin ToSet(r)
  /\ \A i \in DOMAIN h : h[i].redis => r[i] = Expected(h, i)
  /\ \A name \in {k[1] : k \in DOMAIN store.hash} :
       hsize(store, name) = Cardinality({k \in DOMAIN store.hash : k[1] = name})

(* All that was sent has been handled when all has arrived, with bytes that  *)
(* look like headers or ends of lines inside the values; only a packet that  *)
(* is too large ends the connection.                                         *)
ArrivesWhole ==
  LET sent(r) == [redis |-> r.form = "redis",
                  args |-> IF r.form = "redis" THEN convert_req(r.args) ELSE r.args]
  IN /\ wire = <<>> /\ link.open => link.handled = [i \in DOMAIN script |-> sent(script[i])]
     /\ link.open \/ \E i \in DOMAIN script : Len(Encode(script[i])) > MAX_PACKET_SIZE

(* What is read does not depend on how the network cuts the bytes: it is     *)
(* what would be read if all that has arrived had arrived at once, the same  *)
(* is left in the buffer, but for newlines at its front, and a part of a     *)
(* request is never taken for an error that the whole is not.  In the end    *)
(* all is read, and the buffer has always had room for what is in it.        *)
AtOnce(bytes) == Serve([newLink EXCEPT !.input = append(@, bytes)], NoStore).link
Unread(l) == SubSeq(l.input.data, Leading(l.input.data), Len(l.input.data))
LikeAtOnce(once) ==
  /\ link.handled = once.handled /\ link.open = once.open
  /\ link.open => Unread(link) = Unread(once)
CutAnywhere ==
  /\ LikeAtOnce(AtOnce(arrived))
  /\ ~link.open => ~AtOnce(arrived \o wire).open
  /\ ArrivesWhole
  /\ space(link.input) >= 0 /\ IsSuffix(link.input.data, arrived)
=============================================================================
