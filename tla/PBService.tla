----------------------------- MODULE PBService -----------------------------
(***************************************************************************)
(* The primary/backup key/value service of 6.824/src/pbservice on top of   *)
(* ViewService: servers, which keep a database and the view they know, and *)
(* clerks, which call the primary of the view they have cached.            *)
(*                                                                         *)
(* One key is modelled; its value is the sequence of the updates it is     *)
(* made of.  The database also holds an entry per update applied, keyed by *)
(* the client and the uid, and is always sent as a whole.                  *)
(*                                                                         *)
(* pb.mu is held from the beginning of a handler or of tick() to its end,  *)
(* across the calls it makes.  A call to the view service is one step with *)
(* the section around it.  A call that forwards the database takes the     *)
(* mutex of the other server, so it is a step of its own, and mu[s] says   *)
(* that s is in it.                                                        *)
(*                                                                         *)
(* A failed call leaves its request in net: it may still be executed, at   *)
(* any later moment, or never.                                             *)
(***************************************************************************)
EXTENDS Naturals, Sequences, FiniteSets

CONSTANTS Server, Clerk, NoServer, DeadPings,
          NoClerk,   \* nobody waits for the answer
          Ops,       \* the operations clerks use: "Get", "Put", "Append"
          MaxOps     \* operations of a clerk

ASSUME NamesAssumption == NoServer \notin Server /\ Clerk \cap Server = {}
ASSUME DeadPingsAssumption == DeadPings \in Nat \ {0}
ASSUME NoClerkAssumption == NoClerk \notin Clerk
ASSUME OpsAssumption == Ops \subseteq {"Get", "Put", "Append"}
ASSUME MaxOpsAssumption == MaxOps \in Nat

VARIABLES view, primaryAcked, primaryAge, backupAge, known, late, views, told,
          db,      \* db[s]: pb.db
          mu,      \* mu[s]: the forward s is in, with pb.mu held
          cl,      \* cl[c]: the clerk's operation
          net,     \* requests to servers whose calls have failed
          acked    \* history: the updates answered with OK

VS == INSTANCE ViewService

vsVars == <<view, primaryAcked, primaryAge, backupAge, known, late, views, told>>
pbVars == <<db, mu, cl, net, acked>>
vars == <<view, primaryAcked, primaryAge, backupAge, known, late, views, told,
          db, mu, cl, net, acked>>

\* The key under which an update is remembered: client and uid.
Uid == Clerk \X (1..MaxOps)

\* A database: the value of the key and the updates that have been applied.
DB == [val : Seq(Uid), uids : SUBSET Uid]

EmptyDB == [val |-> <<>>, uids |-> {}]

Unlocked == [to |-> NoServer, client |-> NoClerk]

Write == [type : {"PutAppend"}, to : Server, op : {"Put", "Append"}, uid : Uid]

Forwarded == [type : {"Forward"}, to : Server, content : DB]

\* A clerk's operation, and what it has been answered.
Operation ==
    [pc : {"idle", "update", "call", "wait"}, n : 0..MaxOps,
     op : {"Get", "Put", "Append"},
     before : SUBSET Uid,   \* the updates answered before a Get() began
     err : {"", "OK", "ErrNoKey", "ErrWrongServer"}, val : Seq(Uid)]

TypeOK ==
    /\ VS!TypeOK
    /\ db \in [Server -> DB]
    /\ mu \in [Server -> [to : Server \cup {NoServer}, client : Clerk \cup {NoClerk}]]
    /\ cl \in [Clerk -> Operation]
    /\ net \subseteq Write \cup Forwarded
    /\ acked \subseteq Uid

Init ==
    /\ VS!Init
    /\ db = [s \in Server |-> EmptyDB]
    /\ mu = [s \in Server |-> Unlocked]
    /\ cl = [c \in Clerk |-> [pc |-> "idle", n |-> 0, op |-> "Get", before |-> {},
                              err |-> "", val |-> <<>>]]
    /\ net = {}
    /\ acked = {}

----------------------------------------------------------------------------
(* The server. *)

Free(s) == mu[s] = Unlocked

isPrimary(s) == known[s].primary = s

hasBackup(s) == known[s].backup # NoServer

\* Mutant: the update is not remembered.
AppliedNoUid(d, u, op) ==
    [d EXCEPT !.val = IF op = "Append" THEN Append(@, u) ELSE <<u>>]

\* What an update makes of the database.
Applied(d, u, op) ==
    [val  |-> IF op = "Append" THEN Append(d.val, u) ELSE <<u>>,
     uids |-> d.uids \cup {u}]

\* Mutant: ProcessForward() takes the values, not the entries of the updates.
MergedValueOnly(d, content) ==
    [d EXCEPT !.val = IF content.val = <<>> THEN @ ELSE content.val]

\* What ProcessForward() makes of the database: the keys sent replace its own.
Merged(d, content) ==
    [val  |-> IF content.val = <<>> THEN d.val ELSE content.val,
     uids |-> d.uids \cup content.uids]

\* The answer to a PutAppend(); "" when the update has been applied before.
PutAppendErr(s, u) ==
    IF ~isPrimary(s) THEN "ErrWrongServer"
    ELSE IF u \in db[s].uids THEN "" ELSE "OK"

\* PutAppend() on s, up to the forward to the backup if there is one.
PutAppend(s, u, op, client) ==
    /\ Free(s)
    /\ IF PutAppendErr(s, u) = "OK"
         THEN /\ db' = [db EXCEPT ![s] = Applied(@, u, op)]
              /\ mu' = IF hasBackup(s)
                         THEN [mu EXCEPT ![s] = [to |-> known[s].backup,
                                                 client |-> client]]
                         ELSE mu
         ELSE UNCHANGED <<db, mu>>

\* tick(): ping, take the view, send the database to a new backup.  Whether s
\* is the primary is read from the view it had before.
tick(s) ==
    /\ Free(s)
    /\ VS!Ping(s)
    /\ mu' = IF /\ view'.backup # NoServer
                /\ view'.backup # known[s].backup
                /\ isPrimary(s)
               THEN [mu EXCEPT ![s] = [to |-> view'.backup, client |-> NoClerk]]
               ELSE mu
    /\ UNCHANGED <<db, cl, net, acked>>

tickFails(s) ==
    /\ Free(s)
    /\ VS!PingFails(s)
    /\ UNCHANGED pbVars

----------------------------------------------------------------------------
(* The clerk. *)

\* The client and the uid an operation is sent with.
uid(c) == <<c, cl[c].n>>

Answer(c, err, val) ==
    /\ cl' = [cl EXCEPT ![c].pc = "idle", ![c].err = err, ![c].val = val]
    /\ acked' = IF cl[c].op # "Get" /\ err = "OK" THEN acked \cup {uid(c)} ELSE acked

\* Get(), Put() or Append() of the clerk is called.
Start(c, op) ==
    /\ cl[c].pc = "idle" /\ cl[c].n < MaxOps
    /\ cl' = [cl EXCEPT ![c] = [pc     |-> IF known[c].num = 0 THEN "update" ELSE "call",
                                n      |-> @.n + 1, op |-> op,
                                before |-> IF op = "Get" THEN acked ELSE {},
                                err    |-> "", val |-> <<>>]]
    /\ UNCHANGED <<vsVars, db, mu, net, acked>>

updateView(c) ==
    /\ cl[c].pc = "update"
    /\ VS!Ping(c) \/ VS!PingFails(c)
    /\ cl' = [cl EXCEPT ![c].pc = "call"]
    /\ UNCHANGED <<db, mu, net, acked>>

CallGet(c) ==
    LET s == known[c].primary IN
    /\ cl[c].pc = "call" /\ cl[c].op = "Get"
    /\ s \in Server /\ Free(s)
    /\ Answer(c, IF ~isPrimary(s) THEN "ErrWrongServer"
                 ELSE IF db[s].val = <<>> THEN "ErrNoKey" ELSE "OK",
              IF isPrimary(s) THEN db[s].val ELSE <<>>)
    /\ UNCHANGED <<vsVars, db, mu, net>>

\* Mutant: the forward goes on in the background.
CallPutAppendBackground(c) ==
    LET s == known[c].primary IN
    /\ cl[c].pc = "call" /\ cl[c].op # "Get"
    /\ s \in Server
    /\ PutAppend(s, uid(c), cl[c].op, NoClerk)
    /\ Answer(c, PutAppendErr(s, uid(c)), <<>>)
    /\ UNCHANGED <<vsVars, net>>

\* A PutAppend() is answered at once unless the server has to forward.
CallPutAppend(c) ==
    LET s == known[c].primary IN
    /\ cl[c].pc = "call" /\ cl[c].op # "Get"
    /\ s \in Server
    /\ PutAppend(s, uid(c), cl[c].op, c)
    /\ IF PutAppendErr(s, uid(c)) = "OK" /\ hasBackup(s)
         THEN cl' = [cl EXCEPT ![c].pc = "wait"] /\ UNCHANGED acked
         ELSE Answer(c, PutAppendErr(s, uid(c)), <<>>)
    /\ UNCHANGED <<vsVars, net>>

\* The call fails: the server cannot be reached, or the request or the answer
\* is lost.  The clerk asks for the view and tries again.
CallFails(c) ==
    /\ cl[c].pc \in {"call", "wait"}
    /\ cl' = [cl EXCEPT ![c].pc = "update"]
    /\ net' = IF cl[c].pc = "call" /\ cl[c].op # "Get" /\ known[c].primary # NoServer
                THEN net \cup {[type |-> "PutAppend", to |-> known[c].primary,
                                op |-> cl[c].op, uid |-> uid(c)]}
                ELSE net
    /\ mu' = [s \in Server |-> IF mu[s].client = c
                                THEN [to |-> mu[s].to, client |-> NoClerk]
                                ELSE mu[s]]
    /\ UNCHANGED <<vsVars, db, acked>>

----------------------------------------------------------------------------
(* Forwards and late requests. *)

\* The handler returns: the mutex is free and the clerk, if it still waits, has
\* its answer.
Return(s) ==
    /\ mu' = [mu EXCEPT ![s] = Unlocked]
    /\ IF mu[s].client # NoClerk THEN Answer(mu[s].client, "OK", <<>>)
                                 ELSE UNCHANGED <<cl, acked>>

\* The backup executes the forward, which takes its mutex.
Forward(s) ==
    LET b == mu[s].to IN
    /\ ~Free(s) /\ Free(b)
    /\ db' = [db EXCEPT ![b] = Merged(@, db[s])]
    /\ Return(s)
    /\ UNCHANGED <<vsVars, net>>

\* The forward fails; nobody looks at the error.
ForwardFails(s) ==
    /\ ~Free(s)
    /\ net' = net \cup {[type |-> "Forward", to |-> mu[s].to, content |-> db[s]]}
    /\ Return(s)
    /\ UNCHANGED <<vsVars, db>>

LateWrite(m) ==
    /\ m.type = "PutAppend"
    /\ PutAppend(m.to, m.uid, m.op, NoClerk)
    /\ net' = net \ {m}
    /\ UNCHANGED <<vsVars, cl, acked>>

LateForward(m) ==
    /\ m.type = "Forward"
    /\ Free(m.to)
    /\ db' = [db EXCEPT ![m.to] = Merged(@, m.content)]
    /\ net' = net \ {m}
    /\ UNCHANGED <<vsVars, mu, cl, acked>>

\* A server dies, with its database and the requests on their way to it, and is
\* started again under its name.  A forward it has sent may arrive; the clerk it
\* was serving sees its call fail.
Restart(s) ==
    /\ VS!Restart(s)
    /\ db' = [db EXCEPT ![s] = EmptyDB]
    /\ mu' = [mu EXCEPT ![s] = Unlocked]
    /\ cl' = [c \in Clerk |-> IF mu[s].client = c THEN [cl[c] EXCEPT !.pc = "update"]
                                                  ELSE cl[c]]
    /\ net' = {m \in net : m.to # s} \cup
              (IF mu[s].to \in {NoServer, s} THEN {}
               ELSE {[type |-> "Forward", to |-> mu[s].to, content |-> db[s]]})
    /\ UNCHANGED acked

ViewServer ==
    /\ VS!tick \/ \E m \in late : VS!LatePing(m)
    /\ UNCHANGED pbVars

ServerStep(s) == tick(s) \/ tickFails(s) \/ Forward(s) \/ ForwardFails(s) \/ Restart(s)

ClerkStep(c) ==
    \/ \E op \in Ops : Start(c, op)
    \/ updateView(c) \/ CallGet(c) \/ CallPutAppend(c) \/ CallFails(c)

Next == \/ ViewServer
        \/ \E s \in Server : ServerStep(s)
        \/ \E c \in Clerk : ClerkStep(c)
        \/ \E m \in net : LateWrite(m) \/ LateForward(m)

Spec == Init /\ [][Next]_vars

----------------------------------------------------------------------------
(* Properties. *)

NoRepeat(q) == \A i, j \in 1..Len(q) : q[i] = q[j] => i = j

\* An update is in a value at most once, however often its call is retried, late
\* or forwarded, and whichever servers were primary in between ("at-most-once
\* Append", test_test.go:187).
AtMostOnce == \A s \in Server : NoRepeat(db[s].val)

Holds(q, u) == \E i \in 1..Len(q) : q[i] = u

\* When an update is answered with OK, a server that takes itself for the primary
\* has it in its value, and so has the backup it knows, if any, unless the forward
\* failed and is still under way: pb.mu, held across the forward, keeps late
\* forwards and other updates from coming in between (server.go:54, PutAppend()).
OkMeansForwarded ==
    [][\A u \in acked' \ acked : \E s \in Server :
          /\ isPrimary(s) /\ Holds(db'[s].val, u)
          /\ LET b == known[s].backup IN
                \/ b = NoServer
                \/ Holds(db'[b].val, u)
                \/ \E m \in net' : /\ m.type = "Forward" /\ m.to = b
                                    /\ Holds(m.content.val, u)
      ]_vars

\* A Get() that finds the key misses no Append() that was answered before it
\* began and that a server still has, so an old primary does not answer after a
\* new one has taken an update ("Get to old primary succeeded and produced stale
\* value", test_test.go:1028).
NoStaleGet ==
    \A c \in Clerk : cl[c].pc = "idle" /\ cl[c].op = "Get" /\ cl[c].err = "OK" =>
        \A u \in cl[c].before :
            (\E s \in Server : Holds(db[s].val, u)) => Holds(cl[c].val, u)

----------------------------------------------------------------------------
(* The inductive invariant of AtMostOnce. *)

\* What is in the value is remembered as applied, once.
Remembered(d) ==
    /\ NoRepeat(d.val)
    /\ \A i \in 1..Len(d.val) : d.val[i] \in d.uids

\* An operation that a clerk or a server is busy with has been started.
Started ==
    /\ \A c \in Clerk : cl[c].pc # "idle" => cl[c].n # 0
    /\ \A s \in Server : mu[s].client # NoClerk => cl[mu[s].client].n # 0

Inv ==
    /\ Started
    /\ \A s \in Server : Remembered(db[s])
    /\ \A m \in net : m.type = "Forward" => Remembered(m.content)

----------------------------------------------------------------------------
(* The inductive invariant of OkMeansForwarded. *)

\* A server in a forward for a clerk has the clerk's update in its value and
\* takes itself for the primary, with the server it forwards to as the backup.
Forwarding(s) ==
    LET c == mu[s].client IN
    /\ cl[c].pc = "wait" /\ cl[c].op # "Get"
    /\ isPrimary(s) /\ mu[s].to = known[s].backup
    /\ Holds(db[s].val, uid(c))

\* A clerk that waits is served by one server.
WaitInv ==
    \A s \in Server : mu[s].client # NoClerk =>
        /\ Forwarding(s)
        /\ \A t \in Server : mu[t].client = mu[s].client => t = s
=============================================================================
