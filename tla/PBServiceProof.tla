-------------------------- MODULE PBServiceProof --------------------------
(* Proofs about PBService, for any servers, clerks, operations and bounds. *)
EXTENDS PBService, TLAPS

----------------------------------------------------------------------------
(* The view service inside the whole. *)

\* A step of the servers and clerks is a step of the view service or leaves
\* it alone.
LEMMA ViewServiceStep == [Next]_vars => [VS!Next]_VS!vars
<1> SUFFICES ASSUME [Next]_vars PROVE VS!Next \/ UNCHANGED VS!vars
  OBVIOUS
<1>1. CASE ViewServer
  BY <1>1 DEF ViewServer, VS!Next
<1>2. ASSUME NEW s \in Server, ServerStep(s)
      PROVE  VS!Next \/ UNCHANGED VS!vars
  BY <1>2 DEF ServerStep, tick, tickFails, Forward, ForwardFails, Restart, Return,
              VS!Next, VS!vars, VS!Client, vsVars
<1>3. ASSUME NEW c \in Clerk, ClerkStep(c)
      PROVE  VS!Next \/ UNCHANGED VS!vars
  BY <1>3 DEF ClerkStep, Start, updateView, CallGet, CallPutAppend, CallFails,
              VS!Next, VS!vars, VS!Client, vsVars
<1>4. ASSUME NEW m \in net, LateWrite(m) \/ LateForward(m)
      PROVE  UNCHANGED VS!vars
  BY <1>4 DEF LateWrite, LateForward, VS!vars, vsVars
<1>5. CASE UNCHANGED vars
  BY <1>5 DEF vars, VS!vars
<1>6. QED
  BY <1>1, <1>2, <1>3, <1>4, <1>5 DEF Next

\* The handler of a ping, and a promotion, leave the view server well typed.
ServerTypes ==
    /\ view' \in VS!View /\ primaryAcked' \in Nat
    /\ primaryAge' \in VS!Age /\ backupAge' \in VS!Age /\ views' \subseteq VS!View

\* Ages stay in their range.
LEMMA AgeTypes == 0 \in VS!Age /\ \A a \in VS!Age : VS!Older(a) \in VS!Age
  BY DeadPingsAssumption DEF VS!Age, VS!Older

\* A view whose fields are replaced is a view.
LEMMA ViewUpdate ==
  ASSUME NEW v \in VS!View, NEW n \in Nat, NEW p \in VS!Name, NEW b \in VS!Name
  PROVE  /\ v.num \in Nat /\ v.num + 1 \in Nat /\ v.primary \in VS!Name /\ v.backup \in VS!Name
         /\ [num |-> n, primary |-> p, backup |-> b] \in VS!View
         /\ [v EXCEPT !.num = n, !.primary = p] \in VS!View
         /\ [v EXCEPT !.num = n, !.backup = b] \in VS!View
         /\ [v EXCEPT !.num = n] \in VS!View
<1>1. /\ v.num \in Nat /\ v.num + 1 \in Nat /\ v.primary \in VS!Name /\ v.backup \in VS!Name
      /\ [num |-> n, primary |-> p, backup |-> b] \in VS!View
  BY DEF VS!View
<1>2. PICK w : w = [v EXCEPT !.num = n, !.primary = p]
  OBVIOUS
<1>3. w \in VS!View
  BY <1>2 DEF VS!View
<1>4. PICK x : x = [v EXCEPT !.num = n, !.backup = b]
  OBVIOUS
<1>5. x \in VS!View
  BY <1>4 DEF VS!View
<1>6. PICK y : y = [v EXCEPT !.num = n]
  OBVIOUS
<1>7. y \in VS!View
  BY <1>6 DEF VS!View
<1>8. QED
  BY <1>1, <1>2, <1>3, <1>4, <1>5, <1>6, <1>7

\* The backup takes over.
LEMMA PromoteTypes ==
  ASSUME VS!TypeOK, NEW a \in VS!Age, VS!Promote(a)
  PROVE  view' \in VS!View /\ primaryAcked' \in Nat /\ primaryAge' \in VS!Age
  BY DEF VS!TypeOK, VS!Promote, VS!View, VS!Name

\* A ping, of whatever process.
LEMMA HandleTypes ==
  ASSUME VS!TypeOK, NEW me \in VS!Name, NEW num \in Nat, VS!HandlePing(me, num)
  PROVE  ServerTypes
<1>0. /\ views' = views \cup {view'} /\ view \in VS!View /\ views \subseteq VS!View
      /\ primaryAcked \in Nat /\ primaryAge \in VS!Age /\ backupAge \in VS!Age /\ 0 \in VS!Age
  BY AgeTypes DEF VS!HandlePing, VS!TypeOK
<1>1. view.num + 1 \in Nat /\ view.num \in Nat /\ 1 \in Nat /\ 0 \in Nat
  BY <1>0 DEF VS!View
<1>2. /\ [view EXCEPT !.num = 1, !.primary = me] \in VS!View
      /\ [view EXCEPT !.num = view.num + 1, !.backup = me] \in VS!View
      /\ [view EXCEPT !.num = view.num + 1] \in VS!View
      /\ [view EXCEPT !.num = view.num] \in VS!View
  BY <1>0, <1>1, ViewUpdate
<1>3. /\ view' \in VS!View /\ primaryAcked' \in Nat
      /\ primaryAge' \in VS!Age /\ backupAge' \in VS!Age
  <2>1. CASE VS!FirstPing(me, num)
    BY <1>0, <1>1, <1>2, <2>1 DEF VS!FirstPing
  <2>2. CASE VS!RestartedPrimaryPing(me, num)
    BY <1>0, <2>2, PromoteTypes DEF VS!RestartedPrimaryPing
  <2>3. CASE VS!PrimaryPing(me, num)
    BY <1>0, <2>3 DEF VS!PrimaryPing
  <2>4. CASE VS!VolunteerPing(me, num)
    BY <1>0, <1>2, <2>4 DEF VS!VolunteerPing
  <2>5. CASE VS!BackupPing(me, num)
    BY <1>0, <1>2, <2>5 DEF VS!BackupPing
  <2>6. CASE VS!IdlePing(me, num)
    BY <1>0, <2>6 DEF VS!IdlePing, VS!vsVars
  <2>7. QED
    BY <2>1, <2>2, <2>3, <2>4, <2>5, <2>6 DEF VS!HandlePing
<1>4. QED
  BY <1>0, <1>3 DEF ServerTypes

\* Every step of the view service keeps its types.
LEMMA ViewServiceTypes == VS!TypeOK /\ [VS!Next]_VS!vars => VS!TypeOK'
<1> SUFFICES ASSUME VS!TypeOK, [VS!Next]_VS!vars PROVE VS!TypeOK'
  OBVIOUS
<1>0. VS!NoView \in VS!View /\ \A c \in VS!Client : /\ VS!Me(c) \in VS!Name /\ known[c] \in VS!View
                                                   /\ known[c].num \in Nat
  BY DEF VS!TypeOK, VS!NoView, VS!View, VS!Me, VS!Name
<1>1. ASSUME NEW c \in VS!Client, VS!Ping(c) PROVE VS!TypeOK'
  <2>1. ServerTypes
    BY <1>0, <1>1, HandleTypes DEF VS!Ping
  <2>2. view'.num \in Nat
    BY <2>1 DEF ServerTypes, VS!View
  <2>3. QED
    BY <1>1, <2>1, <2>2 DEF VS!Ping, ServerTypes, VS!TypeOK
<1>2. ASSUME NEW c \in VS!Client, VS!PingFails(c) PROVE VS!TypeOK'
  BY <1>0, <1>2 DEF VS!PingFails, VS!TypeOK
<1>3. ASSUME NEW m \in late, VS!LatePing(m) PROVE VS!TypeOK'
  <2>1. m.me \in VS!Name /\ m.num \in Nat
    BY DEF VS!TypeOK
  <2>2. ServerTypes
    BY <1>3, <2>1, HandleTypes DEF VS!LatePing
  <2>3. QED
    BY <1>3, <2>2 DEF VS!LatePing, ServerTypes, VS!TypeOK
<1>4. ASSUME NEW s \in Server, VS!Restart(s) PROVE VS!TypeOK'
  BY <1>0, <1>4 DEF VS!Restart, VS!TypeOK
<1>5. CASE VS!tick
  <2>0. /\ VS!Older(primaryAge) \in VS!Age /\ VS!Older(backupAge) \in VS!Age
        /\ view \in VS!View /\ NoServer \in VS!Name /\ primaryAcked \in Nat
    BY AgeTypes DEF VS!TypeOK, VS!Name
  <2>1. [view EXCEPT !.num = view.num + 1, !.backup = NoServer] \in VS!View
    BY <2>0, ViewUpdate
  <2>2. view' \in VS!View /\ primaryAcked' \in Nat /\ primaryAge' \in VS!Age
    BY <1>5, <2>0, <2>1, PromoteTypes DEF VS!tick
  <2>3. QED
    BY <1>5, <2>0, <2>2 DEF VS!tick, VS!TypeOK
<1>6. CASE UNCHANGED VS!vars
  BY <1>6 DEF VS!vars, VS!TypeOK
<1>7. QED
  BY <1>1, <1>2, <1>3, <1>4, <1>5, <1>6 DEF VS!Next

----------------------------------------------------------------------------
(* At most once. *)

\* The part of the types the invariant needs.
DataOK ==
    /\ db \in [Server -> DB]
    /\ cl \in [Clerk -> Operation]
    /\ mu = [s \in Server |-> mu[s]]
    /\ \A s \in Server : mu[s].client \in Clerk \cup {NoClerk}
    /\ acked \subseteq Uid
    /\ \A m \in net : /\ m.type = "PutAppend" => m.uid \in Uid
                      /\ m.type = "Forward" => m.content \in DB

IInv == DataOK /\ Inv

Good(d) == d \in DB /\ Remembered(d)

\* Applying an update that is not remembered leaves a database that
\* remembers it, once.
LEMMA AppliedGood ==
  ASSUME NEW d, Good(d), NEW u \in Uid, u \notin d.uids, NEW op
  PROVE  Good(Applied(d, u, op))
<1> DEFINE q == IF op = "Append" THEN Append(d.val, u) ELSE <<u>>
<1>1. d.val \in Seq(Uid) /\ d.uids \subseteq Uid
  BY DEF Good, DB
<1>2. q \in Seq(Uid) /\ d.uids \cup {u} \subseteq Uid
  BY <1>1
<1>3. Applied(d, u, op) = [val |-> q, uids |-> d.uids \cup {u}]
  BY DEF Applied
<1>4. Applied(d, u, op) \in DB
  BY <1>2, <1>3 DEF DB
<1>5. \A i \in 1..Len(q) : q[i] \in d.uids \cup {u}
  <2>1. CASE op = "Append"
    BY <1>1, <2>1 DEF Good, Remembered
  <2>2. CASE op # "Append"
    BY <2>2
  <2>3. QED
    BY <2>1, <2>2
<1>6. NoRepeat(q)
  <2>1. CASE op = "Append"
    BY <1>1, <2>1 DEF Good, Remembered, NoRepeat
  <2>2. CASE op # "Append"
    BY <2>2 DEF NoRepeat
  <2>3. QED
    BY <2>1, <2>2
<1>7. QED
  BY <1>3, <1>4, <1>5, <1>6 DEF Good, Remembered

\* A database that takes in a forwarded one stays good.
LEMMA MergedGood ==
  ASSUME NEW d, Good(d), NEW content, Good(content)
  PROVE  Good(Merged(d, content))
<1> DEFINE q == IF content.val = <<>> THEN d.val ELSE content.val
<1>1. /\ d.val \in Seq(Uid) /\ d.uids \subseteq Uid
      /\ content.val \in Seq(Uid) /\ content.uids \subseteq Uid
  BY DEF Good, DB
<1>2. Merged(d, content) = [val |-> q, uids |-> d.uids \cup content.uids]
  BY DEF Merged
<1>3. Merged(d, content) \in DB
  BY <1>1, <1>2 DEF DB
<1>4. NoRepeat(q) /\ \A i \in 1..Len(q) : q[i] \in d.uids \cup content.uids
  BY DEF Good, Remembered
<1>5. QED
  BY <1>2, <1>3, <1>4 DEF Good, Remembered

\* A fresh database is good.
LEMMA EmptyGood == Good(EmptyDB)
<1>1. EmptyDB \in DB
  BY DEF EmptyDB, DB
<1>2. EmptyDB.val = <<>> /\ Len(<<>>) = 0
  BY DEF EmptyDB
<1>3. QED
  BY <1>1, <1>2 DEF Good, Remembered, NoRepeat

\* The invariant, restated on what the steps change.
AllGood(f) == f \in [Server -> DB] /\ \A s \in Server : Good(f[s])

NetGood(n) ==
    \A m \in n : /\ m.type = "PutAppend" => m.uid \in Uid
                 /\ m.type = "Forward" => Good(m.content)

ClerkGood(f) ==
    f \in [Clerk -> Operation] /\ \A c \in Clerk : f[c].pc # "idle" => f[c].n # 0

MuGood(f, g) ==
    /\ f = [s \in Server |-> f[s]]
    /\ \A s \in Server : /\ f[s].client \in Clerk \cup {NoClerk}
                         /\ f[s].client # NoClerk => g[f[s].client].n # 0

\* The invariant, in terms of the variables.
LEMMA IInvParts ==
  /\ IInv <=> /\ AllGood(db) /\ NetGood(net) /\ ClerkGood(cl) /\ MuGood(mu, cl)
              /\ acked \subseteq Uid
  /\ IInv' <=> /\ AllGood(db') /\ NetGood(net') /\ ClerkGood(cl') /\ MuGood(mu', cl')
               /\ acked' \subseteq Uid
  BY DEF IInv, DataOK, Inv, Started, AllGood, NetGood, ClerkGood, MuGood, Good

\* A clerk's operation keeps its number when it goes on.
LEMMA OperationGoesOn ==
  ASSUME NEW o \in Operation, NEW pc \in {"idle", "update", "call", "wait"}, NEW w,
         w = [o EXCEPT !.pc = pc]
  PROVE  w \in Operation /\ w.pc = pc /\ w.n = o.n
  BY DEF Operation

\* An operation that has begun has a uid.
LEMMA UidType ==
  ASSUME ClerkGood(cl), NEW c \in Clerk, cl[c].n # 0
  PROVE  uid(c) \in Uid
<1>1. cl[c].n \in 0..MaxOps
  BY DEF ClerkGood, Operation
<1>2. cl[c].n \in 1..MaxOps
  BY <1>1, MaxOpsAssumption
<1>3. QED
  BY <1>2 DEF uid, Uid

\* A clerk's operation goes on: what is started stays started.
LEMMA ClerkUpdate ==
  ASSUME ClerkGood(cl), NEW f, f = [c \in Clerk |-> f[c]],
         \A c \in Clerk : /\ f[c] \in Operation
                          /\ f[c].n = cl[c].n
                          /\ f[c].pc # "idle" => cl[c].pc # "idle"
  PROVE  /\ ClerkGood(f)
         /\ \A g : MuGood(g, cl) => MuGood(g, f)
<1>1. ClerkGood(f)
  BY DEF ClerkGood
<1>2. ASSUME NEW g, MuGood(g, cl) PROVE MuGood(g, f)
  BY <1>2 DEF MuGood
<1>3. QED
  BY <1>1, <1>2

\* A clerk that is answered.
LEMMA AnswerStep ==
  ASSUME ClerkGood(cl), acked \subseteq Uid, NEW c \in Clerk, cl[c].n # 0,
         NEW err \in {"", "OK", "ErrNoKey", "ErrWrongServer"}, NEW val \in Seq(Uid),
         Answer(c, err, val)
  PROVE  /\ ClerkGood(cl') /\ acked' \subseteq Uid
         /\ \A g : MuGood(g, cl) => MuGood(g, cl')
<1>1. acked' \subseteq Uid
  BY UidType DEF Answer
<1>2. cl[c] \in Operation /\ cl = [d \in Clerk |-> cl[d]]
  BY DEF ClerkGood
<1>. PICK o : o = [cl[c] EXCEPT !.pc = "idle", !.err = err, !.val = val]
  OBVIOUS
<1>3. o \in Operation /\ o.pc = "idle" /\ o.n = cl[c].n
  <2>1. PICK p : p = cl[c]
    OBVIOUS
  <2>2. p \in Operation /\ o = [p EXCEPT !.pc = "idle", !.err = err, !.val = val]
    BY <1>2, <2>1
  <2>3. QED
    BY <2>1, <2>2 DEF Operation
<1>4. cl' = [cl EXCEPT ![c] = o]
  BY <1>2 DEF Answer
<1>5. cl' = [d \in Clerk |-> cl'[d]]
  BY <1>2, <1>4
<1>6. \A d \in Clerk : /\ cl'[d] \in Operation /\ cl'[d].n = cl[d].n
                       /\ cl'[d].pc # "idle" => cl[d].pc # "idle"
  BY <1>2, <1>3, <1>4 DEF ClerkGood
<1>7. QED
  BY <1>1, <1>5, <1>6, ClerkUpdate

\* A clerk that only goes to another place in its loop.
LEMMA ProgramCounterStep ==
  ASSUME ClerkGood(cl), NEW c \in Clerk, cl[c].pc # "idle",
         NEW pc \in {"idle", "update", "call", "wait"},
         cl' = [cl EXCEPT ![c].pc = pc]
  PROVE  ClerkGood(cl') /\ \A g : MuGood(g, cl) => MuGood(g, cl')
<1>2. cl[c] \in Operation /\ cl = [d \in Clerk |-> cl[d]]
  BY DEF ClerkGood
<1>. PICK o : o = [cl[c] EXCEPT !.pc = pc]
  OBVIOUS
<1>3. o \in Operation /\ o.pc = pc /\ o.n = cl[c].n
  BY <1>2, OperationGoesOn
<1>4. cl' = [cl EXCEPT ![c] = o]
  BY <1>2
<1>5. cl' = [d \in Clerk |-> cl'[d]]
  BY <1>2, <1>4
<1>6. \A d \in Clerk : /\ cl'[d] \in Operation /\ cl'[d].n = cl[d].n
                       /\ cl'[d].pc # "idle" => cl[d].pc # "idle"
  BY <1>2, <1>3, <1>4 DEF ClerkGood
<1>7. QED
  BY <1>5, <1>6, ClerkUpdate
\* The PutAppend handler applies an update only if it is not remembered.
LEMMA PutAppendStep ==
  ASSUME AllGood(db), MuGood(mu, cl), NEW s, NEW u \in Uid, NEW op,
         NEW c \in Clerk \cup {NoClerk}, c # NoClerk => cl[c].n # 0,
         PutAppend(s, u, op, c)
  PROVE  AllGood(db') /\ MuGood(mu', cl)
<1>1. CASE UNCHANGED <<db, mu>>
  BY <1>1
<1>2. CASE /\ u \notin db[s].uids
           /\ db' = [db EXCEPT ![s] = Applied(db[s], u, op)]
           /\ mu' = mu \/ mu' = [mu EXCEPT ![s] = [to |-> known[s].backup, client |-> c]]
  <2>1. AllGood(db')
    <3>1. CASE s \in Server
      <4>1. Good(db[s])
        BY <3>1 DEF AllGood
      <4>2. PICK d : d = Applied(db[s], u, op)
        OBVIOUS
      <4>3. Good(d) /\ d \in DB
        BY <1>2, <4>1, <4>2, AppliedGood DEF Good
      <4>4. db' = [db EXCEPT ![s] = d]
        BY <1>2, <4>2
      <4>5. QED
        BY <3>1, <4>3, <4>4 DEF AllGood
    <3>2. CASE s \notin Server
      BY <1>2, <3>2 DEF AllGood
    <3>3. QED
      BY <3>1, <3>2
  <2>2. MuGood(mu', cl)
    BY <1>2 DEF MuGood
  <2>3. QED
    BY <2>1, <2>2
<1>3. QED
  BY <1>1, <1>2 DEF PutAppend, PutAppendErr

\* A handler that held the mutex over a forward returns.
LEMMA ReturnStep ==
  ASSUME ClerkGood(cl), MuGood(mu, cl), acked \subseteq Uid, NEW s \in Server, Return(s)
  PROVE  ClerkGood(cl') /\ MuGood(mu', cl') /\ acked' \subseteq Uid
<1>1. mu' = [mu EXCEPT ![s] = Unlocked] /\ Unlocked.client = NoClerk
  BY DEF Return, Unlocked
<1>2. MuGood(mu', cl)
  BY <1>1 DEF MuGood
<1>3. CASE mu[s].client = NoClerk
  BY <1>2, <1>3 DEF Return
<1>4. CASE mu[s].client # NoClerk
  <2>1. mu[s].client \in Clerk /\ cl[mu[s].client].n # 0
    BY <1>4 DEF MuGood
  <2>2. Answer(mu[s].client, "OK", <<>>)
    BY <1>4 DEF Return
  <2>3. <<>> \in Seq(Uid)
    OBVIOUS
  <2>4. QED
    BY <1>2, <2>1, <2>2, <2>3, AnswerStep
<1>5. QED
  BY <1>3, <1>4

\* A database that arrives at b, from a server or late.
LEMMA MergeStep ==
  ASSUME AllGood(db), NEW b, NEW content, Good(content),
         db' = [db EXCEPT ![b] = Merged(db[b], content)]
  PROVE  AllGood(db')
<1>1. CASE b \in Server
  <2>1. PICK d : d = Merged(db[b], content)
    OBVIOUS
  <2>2. Good(d) /\ d \in DB
    BY <1>1, <2>1, MergedGood DEF AllGood, Good
  <2>3. QED
    BY <1>1, <2>1, <2>2 DEF AllGood
<1>2. CASE b \notin Server
  BY <1>2 DEF AllGood
<1>3. QED
  BY <1>1, <1>2

\* What is sent is as good as what it was made of.
LEMMA SentGood ==
  ASSUME NetGood(net), NEW m, m.type = "PutAppend" => m.uid \in Uid,
         m.type = "Forward" => Good(m.content), net' \subseteq net \cup {m}
  PROVE  NetGood(net')
  BY DEF NetGood
Goal == /\ AllGood(db') /\ NetGood(net') /\ ClerkGood(cl') /\ MuGood(mu', cl')
        /\ acked' \subseteq Uid

\* The steps of a server keep the invariant.
LEMMA ServerGood ==
  ASSUME AllGood(db), NetGood(net), ClerkGood(cl), MuGood(mu, cl), acked \subseteq Uid,
         NEW s \in Server, ServerStep(s)
  PROVE  Goal
<1>1. CASE tick(s)
  <2>1. mu' = mu \/ mu' = [mu EXCEPT ![s] = [to |-> view'.backup, client |-> NoClerk]]
    BY <1>1 DEF tick
  <2>2. MuGood(mu', cl)
    BY <2>1 DEF MuGood
  <2>3. QED
    BY <1>1, <2>2 DEF tick, Goal
<1>2. CASE tickFails(s)
  BY <1>2 DEF tickFails, pbVars, Goal
<1>3. CASE Forward(s)
  <2>1. Good(db[s]) /\ Return(s) /\ net' = net
    BY <1>3 DEF Forward, AllGood
  <2>2. db' = [db EXCEPT ![mu[s].to] = Merged(db[mu[s].to], db[s])]
    BY <1>3 DEF Forward
  <2>3. QED
    BY <2>1, <2>2, MergeStep, ReturnStep DEF Goal
<1>4. CASE ForwardFails(s)
  <2>1. PICK m : m = [type |-> "Forward", to |-> mu[s].to, content |-> db[s]]
    OBVIOUS
  <2>2. m.type = "Forward" /\ m.content = db[s] /\ Good(db[s])
    BY <2>1 DEF AllGood
  <2>3. net' = net \cup {m} /\ Return(s) /\ db' = db
    BY <1>4, <2>1 DEF ForwardFails
  <2>4. NetGood(net')
    BY <2>2, <2>3, SentGood
  <2>5. QED
    BY <2>3, <2>4, ReturnStep DEF Goal
<1>5. CASE Restart(s)
  <2>1. PICK m : m = [type |-> "Forward", to |-> mu[s].to, content |-> db[s]]
    OBVIOUS
  <2>2. m.type = "Forward" /\ m.content = db[s] /\ Good(db[s])
    BY <2>1 DEF AllGood
  <2>3. net' \subseteq net \cup {m} /\ acked' = acked
    BY <1>5, <2>1 DEF Restart
  <2>4. NetGood(net')
    BY <2>2, <2>3, SentGood
  <2>5. AllGood(db')
    <3>1. db' = [db EXCEPT ![s] = EmptyDB]
      BY <1>5 DEF Restart
    <3>2. QED
      BY <3>1, EmptyGood DEF AllGood, Good
  <2>6. MuGood(mu', cl)
    <3>1. mu' = [mu EXCEPT ![s] = Unlocked] /\ Unlocked.client = NoClerk
      BY <1>5 DEF Restart, Unlocked
    <3>2. QED
      BY <3>1 DEF MuGood
  <2>7. ClerkGood(cl') /\ MuGood(mu', cl')
    <3>1. cl' = [c \in Clerk |-> IF mu[s].client = c THEN [cl[c] EXCEPT !.pc = "update"]
                                                      ELSE cl[c]]
      BY <1>5 DEF Restart
    <3>2. ASSUME NEW c \in Clerk
          PROVE  /\ cl'[c] \in Operation /\ cl'[c].n = cl[c].n
                 /\ cl'[c].pc # "idle" => cl[c].n # 0
      <4>1. cl[c] \in Operation /\ (cl[c].pc # "idle" => cl[c].n # 0)
        BY DEF ClerkGood
      <4>2. CASE mu[s].client = c
        <5>1. PICK o : o = [cl[c] EXCEPT !.pc = "update"]
          OBVIOUS
        <5>2. o \in Operation /\ o.n = cl[c].n
          BY <4>1, <5>1, OperationGoesOn
        <5>3. cl'[c] = o
          BY <3>1, <4>2, <5>1
        <5>4. cl[c].n # 0
          <6>1. NoClerk \notin Clerk
            BY NoClerkAssumption
          <6>2. QED
            BY <4>2, <6>1 DEF MuGood
        <5>5. QED
          BY <5>2, <5>3, <5>4
      <4>3. CASE mu[s].client # c
        BY <3>1, <4>1, <4>3
      <4>4. QED
        BY <4>2, <4>3
    <3>3. cl' \in [Clerk -> Operation]
      BY <3>1, <3>2
    <3>4. QED
      BY <2>6, <3>2, <3>3 DEF ClerkGood, MuGood
  <2>8. QED
    BY <2>3, <2>4, <2>5, <2>7 DEF Goal
<1>6. QED
  BY <1>1, <1>2, <1>3, <1>4, <1>5 DEF ServerStep

\* The steps of a clerk keep the invariant.
LEMMA ClerkGoodStep ==
  ASSUME AllGood(db), NetGood(net), ClerkGood(cl), MuGood(mu, cl), acked \subseteq Uid,
         NEW c \in Clerk, ClerkStep(c)
  PROVE  Goal
<1>0. cl[c] \in Operation /\ c \in Clerk \cup {NoClerk}
  BY DEF ClerkGood
<1>1. ASSUME NEW op \in Ops, Start(c, op) PROVE Goal
  <2>1. PICK o : o = [pc |-> IF known[c].num = 0 THEN "update" ELSE "call",
                      n |-> cl[c].n + 1, op |-> op,
                      before |-> IF op = "Get" THEN acked ELSE {},
                      err |-> "", val |-> <<>>]
    OBVIOUS
  <2>2. cl[c].n \in 0..MaxOps /\ cl[c].n < MaxOps
    BY <1>0, <1>1 DEF Start, Operation
  <2>3. cl[c].n + 1 \in 0..MaxOps /\ cl[c].n + 1 # 0
    BY <2>2, MaxOpsAssumption
  <2>4. o \in Operation /\ o.n # 0
    <3>1. op \in {"Get", "Put", "Append"} /\ <<>> \in Seq(Uid)
      BY OpsAssumption
    <3>2. PICK pc \in {"update", "call"} :
            pc = IF known[c].num = 0 THEN "update" ELSE "call"
      OBVIOUS
    <3>3. PICK before \in SUBSET Uid : before = IF op = "Get" THEN acked ELSE {}
      OBVIOUS
    <3>4. o = [pc |-> pc, n |-> cl[c].n + 1, op |-> op, before |-> before,
               err |-> "", val |-> <<>>]
      BY <2>1, <3>2, <3>3
    <3>5. QED
      BY <2>3, <3>1, <3>4 DEF Operation
  <2>5. cl' = [cl EXCEPT ![c] = o]
    BY <1>1, <2>1 DEF Start
  <2>6. ClerkGood(cl') /\ MuGood(mu, cl')
    BY <2>4, <2>5 DEF ClerkGood, MuGood
  <2>7. QED
    BY <1>1, <2>6 DEF Start, Goal
<1>2. CASE updateView(c)
  <2>1. cl[c].pc # "idle" /\ cl' = [cl EXCEPT ![c].pc = "call"]
        /\ UNCHANGED <<db, mu, net, acked>>
    BY <1>2 DEF updateView
  <2>2. QED
    BY <2>1, ProgramCounterStep DEF Goal
<1>3. CASE CallGet(c)
  <2>1. cl[c].n # 0 /\ UNCHANGED <<db, mu, net>>
    BY <1>3 DEF CallGet, ClerkGood
  <2>2. PICK s : s = known[c].primary
    OBVIOUS
  <2>3. s \in Server
    BY <1>3, <2>2 DEF CallGet
  <2>4. PICK err : err = IF ~isPrimary(s) THEN "ErrWrongServer"
                         ELSE IF db[s].val = <<>> THEN "ErrNoKey" ELSE "OK"
    OBVIOUS
  <2>5. PICK val : val = IF isPrimary(s) THEN db[s].val ELSE <<>>
    OBVIOUS
  <2>6. Answer(c, err, val)
    BY <1>3, <2>2, <2>4, <2>5 DEF CallGet
  <2>7. err \in {"", "OK", "ErrNoKey", "ErrWrongServer"} /\ val \in Seq(Uid)
    BY <2>3, <2>4, <2>5 DEF AllGood, DB
  <2>8. QED
    BY <2>1, <2>6, <2>7, AnswerStep DEF Goal
<1>4. CASE CallPutAppend(c)
  <2>1. PICK s : s = known[c].primary
    OBVIOUS
  <2>2. /\ cl[c].n # 0 /\ cl[c].pc # "idle" /\ net' = net
        /\ PutAppend(s, uid(c), cl[c].op, c)
    BY <1>4, <2>1 DEF CallPutAppend, ClerkGood
  <2>3. AllGood(db') /\ MuGood(mu', cl)
    BY <1>0, <2>2, UidType, PutAppendStep
  <2>4. CASE cl' = [cl EXCEPT ![c].pc = "wait"] /\ UNCHANGED acked
    BY <2>2, <2>3, <2>4, ProgramCounterStep DEF Goal
  <2>5. CASE Answer(c, PutAppendErr(s, uid(c)), <<>>)
    <3>1. PICK err : err = PutAppendErr(s, uid(c))
      OBVIOUS
    <3>2. err \in {"", "OK", "ErrNoKey", "ErrWrongServer"} /\ <<>> \in Seq(Uid)
      <4>1. <<>> \in Seq(Uid)
        OBVIOUS
      <4>2. err \in {"", "OK", "ErrNoKey", "ErrWrongServer"}
        BY <3>1, Zenon DEF PutAppendErr
      <4>3. QED
        BY <4>1, <4>2
    <3>3. Answer(c, err, <<>>)
      BY <2>5, <3>1
    <3>4. ClerkGood(cl') /\ acked' \subseteq Uid /\ MuGood(mu', cl')
      BY <2>2, <2>3, <3>2, <3>3, AnswerStep
    <3>5. QED
      BY <2>2, <2>3, <3>4 DEF Goal
  <2>6. QED
    BY <1>4, <2>1, <2>4, <2>5 DEF CallPutAppend
<1>5. CASE CallFails(c)
  <2>1. /\ cl[c].n # 0 /\ cl[c].pc # "idle" /\ db' = db /\ acked' = acked
        /\ cl' = [cl EXCEPT ![c].pc = "update"]
    BY <1>5 DEF CallFails, ClerkGood
  <2>2. PICK m : m = [type |-> "PutAppend", to |-> known[c].primary,
                      op |-> cl[c].op, uid |-> uid(c)]
    OBVIOUS
  <2>3. m.type = "PutAppend" /\ m.uid \in Uid
    BY <2>1, <2>2, UidType
  <2>4. net' \subseteq net \cup {m}
    BY <1>5, <2>2 DEF CallFails
  <2>5. NetGood(net')
    BY <2>3, <2>4, SentGood
  <2>6. MuGood(mu', cl)
    <3>1. mu' = [s \in Server |-> IF mu[s].client = c
                                   THEN [to |-> mu[s].to, client |-> NoClerk] ELSE mu[s]]
      BY <1>5 DEF CallFails
    <3>2. QED
      BY <3>1 DEF MuGood
  <2>7. QED
    BY <2>1, <2>5, <2>6, ProgramCounterStep DEF Goal
<1>6. QED
  BY <1>1, <1>2, <1>3, <1>4, <1>5 DEF ClerkStep

\* Late requests and forwards keep the invariant.
LEMMA LateGood ==
  ASSUME AllGood(db), NetGood(net), ClerkGood(cl), MuGood(mu, cl), acked \subseteq Uid,
         NEW m \in net, LateWrite(m) \/ LateForward(m)
  PROVE  Goal
<1>1. NetGood(net')
  BY DEF LateWrite, LateForward, NetGood
<1>2. CASE LateWrite(m)
  <2>1. m.uid \in Uid /\ PutAppend(m.to, m.uid, m.op, NoClerk) /\ UNCHANGED <<cl, acked>>
    BY <1>2 DEF LateWrite, NetGood
  <2>2. AllGood(db') /\ MuGood(mu', cl)
    BY <2>1, PutAppendStep
  <2>3. QED
    BY <1>1, <2>1, <2>2 DEF Goal
<1>3. CASE LateForward(m)
  <2>1. Good(m.content) /\ UNCHANGED <<mu, cl, acked>>
    BY <1>3 DEF LateForward, NetGood
  <2>2. db' = [db EXCEPT ![m.to] = Merged(db[m.to], m.content)]
    BY <1>3 DEF LateForward
  <2>3. AllGood(db')
    BY <2>1, <2>2, MergeStep
  <2>4. QED
    BY <1>1, <2>1, <2>3 DEF Goal
<1>4. QED
  BY <1>2, <1>3

\* The invariant holds before the first ping.
LEMMA IInvInit == Init => IInv
<1> SUFFICES ASSUME Init PROVE IInv
  OBVIOUS
<1>1. AllGood(db)
  BY EmptyGood DEF Init, AllGood, Good
<1>2. NetGood(net) /\ acked \subseteq Uid
  BY DEF Init, NetGood
<1>3. ClerkGood(cl)
  <2>1. 0 \in 0..MaxOps
    BY MaxOpsAssumption
  <2>2. [pc |-> "idle", n |-> 0, op |-> "Get", before |-> {}, err |-> "", val |-> <<>>]
          \in Operation
    BY <2>1 DEF Operation
  <2>3. QED
    BY <2>2 DEF Init, ClerkGood
<1>4. MuGood(mu, cl)
  BY DEF Init, MuGood, Unlocked
<1>5. QED
  BY <1>1, <1>2, <1>3, <1>4, IInvParts

\* Every step keeps the invariant.
LEMMA IInvStep == IInv /\ [Next]_vars => IInv'
<1> SUFFICES ASSUME IInv, [Next]_vars PROVE IInv'
  OBVIOUS
<1>1. AllGood(db) /\ NetGood(net) /\ ClerkGood(cl) /\ MuGood(mu, cl) /\ acked \subseteq Uid
  BY IInvParts
<1>2. ViewServer => Goal
  BY <1>1 DEF ViewServer, pbVars, Goal
<1>3. UNCHANGED vars => Goal
  BY <1>1 DEF vars, Goal
<1>4. Goal
  BY <1>1, <1>2, <1>3, ServerGood, ClerkGoodStep, LateGood DEF Next
<1>5. QED
  BY <1>4, IInvParts DEF Goal

\* An update is in a value at most once.
THEOREM AtMostOnceHolds == Spec => []AtMostOnce
<1>1. IInv => AtMostOnce
  BY DEF IInv, Inv, Remembered, AtMostOnce
<1>2. QED
  BY <1>1, IInvInit, IInvStep, PTL DEF Spec

----------------------------------------------------------------------------
(* Types.  What a server forwards goes to a server, which the types do not say *)
(* by themselves: a server is in a forward to nobody only when it is in none.  *)

Lock == [to : Server \cup {NoServer}, client : Clerk \cup {NoClerk}]

Locks(f) ==
    /\ f \in [Server -> Lock]
    /\ \A s \in Server : f[s].to = NoServer => f[s].client = NoClerk

Requests(n) == n \subseteq Write \cup Forwarded

TypeInv == VS!TypeOK /\ Locks(mu) /\ Requests(net) /\ IInv

\* A server takes its mutex for a forward to a server, or returns.
LEMMA LockStep ==
  ASSUME Locks(mu), NEW s \in Server, NEW c \in Clerk \cup {NoClerk}
  PROVE  /\ \A b \in Server : Locks([mu EXCEPT ![s] = [to |-> b, client |-> c]])
         /\ Locks([mu EXCEPT ![s] = Unlocked])
<1>0. NoServer \notin Server
  BY NamesAssumption
<1>1. ASSUME NEW b \in Server PROVE Locks([mu EXCEPT ![s] = [to |-> b, client |-> c]])
  <2>1. PICK x : x = [to |-> b, client |-> c]
    OBVIOUS
  <2>2. x \in Lock /\ x.to # NoServer
    BY <1>0, <2>1 DEF Lock
  <2>3. Locks([mu EXCEPT ![s] = x])
    BY <2>2 DEF Locks
  <2>4. QED
    BY <2>1, <2>3
<1>2. Locks([mu EXCEPT ![s] = Unlocked])
  <2>1. Unlocked \in Lock /\ Unlocked.client = NoClerk
    BY DEF Unlocked, Lock
  <2>2. QED
    BY <2>1 DEF Locks
<1>3. QED
  BY <1>1, <1>2

\* A server that is in a forward forwards to a server.
LEMMA HeldForServer ==
  ASSUME Locks(mu), NEW s \in Server, ~Free(s) \/ mu[s].to # NoServer
  PROVE  mu[s].to \in Server
<1>1. PICK x : x = mu[s]
  OBVIOUS
<1>2. x \in Lock /\ (x.to = NoServer => x.client = NoClerk)
  BY <1>1 DEF Locks
<1>3. x.to = NoServer => x = Unlocked
  BY <1>2 DEF Lock, Unlocked
<1>4. QED
  BY <1>1, <1>2, <1>3 DEF Free, Lock

\* The backup in a view is a server, if there is one.
LEMMA BackupIsServer ==
  ASSUME NEW v \in VS!View
  PROVE  /\ v.backup # NoServer => v.backup \in Server
         /\ v.primary # NoServer => v.primary \in Server
  BY DEF VS!View, VS!Name

\* PutAppend() takes the mutex for a forward to the backup it knows.
LEMMA PutAppendLock ==
  ASSUME VS!TypeOK, Locks(mu), NEW s \in Server, NEW u, NEW op,
         NEW c \in Clerk \cup {NoClerk}, PutAppend(s, u, op, c)
  PROVE  Locks(mu')
<1>1. known[s] \in VS!View
  BY DEF VS!TypeOK, VS!Client
<1>2. CASE mu' = mu
  BY <1>2
<1>3. CASE hasBackup(s) /\ mu' = [mu EXCEPT ![s] = [to |-> known[s].backup, client |-> c]]
  <2>1. known[s].backup \in Server
    BY <1>1, <1>3, BackupIsServer DEF hasBackup
  <2>2. QED
    BY <1>3, <2>1, LockStep
<1>4. QED
  BY <1>2, <1>3 DEF PutAppend

\* A forward that is sent goes to a server.
LEMMA ForwardSent ==
  ASSUME Requests(net), NEW b \in Server, NEW d \in DB,
         net' \subseteq net \cup {[type |-> "Forward", to |-> b, content |-> d]}
  PROVE  Requests(net')
<1>1. PICK m : m = [type |-> "Forward", to |-> b, content |-> d]
  OBVIOUS
<1>2. m \in Forwarded
  BY <1>1 DEF Forwarded
<1>3. QED
  BY <1>1, <1>2 DEF Requests

\* A server's step.
LEMMA ServerTyped ==
  ASSUME TypeInv, VS!TypeOK', NEW s \in Server, ServerStep(s)
  PROVE  Locks(mu') /\ Requests(net')
<1>0. VS!TypeOK /\ Locks(mu) /\ Requests(net) /\ db[s] \in DB
  BY DEF TypeInv, IInv, DataOK
<1>1. CASE tick(s)
  <2>1. CASE /\ view'.backup # NoServer
             /\ mu' = [mu EXCEPT ![s] = [to |-> view'.backup, client |-> NoClerk]]
    <3>1. view' \in VS!View
      BY DEF VS!TypeOK
    <3>2. view'.backup \in Server
      BY <2>1, <3>1, BackupIsServer
    <3>3. Locks(mu')
      <4>1. NoClerk \in Clerk \cup {NoClerk}
        OBVIOUS
      <4>2. QED
        BY <1>0, <2>1, <3>2, <4>1, LockStep
    <3>4. QED
      BY <1>0, <1>1, <3>3 DEF tick
  <2>2. CASE mu' = mu
    BY <1>0, <1>1, <2>2 DEF tick
  <2>3. QED
    BY <1>1, <2>1, <2>2 DEF tick
<1>2. CASE tickFails(s)
  BY <1>0, <1>2 DEF tickFails, pbVars
<1>3. CASE Forward(s)
  BY <1>0, <1>3, LockStep DEF Forward, Return
<1>4. CASE ForwardFails(s)
  <2>1. mu[s].to \in Server /\ Locks(mu')
    BY <1>0, <1>4, HeldForServer, LockStep DEF ForwardFails, Return
  <2>2. QED
    BY <1>0, <1>4, <2>1, ForwardSent DEF ForwardFails
<1>5. CASE Restart(s)
  <2>1. Locks(mu')
    BY <1>0, <1>5, LockStep DEF Restart
  <2>2. CASE mu[s].to \in {NoServer, s}
    BY <1>0, <1>5, <2>1, <2>2 DEF Restart, Requests
  <2>3. CASE mu[s].to \notin {NoServer, s}
    <3>1. mu[s].to \in Server
      BY <1>0, <2>3, HeldForServer
    <3>2. net' \subseteq net \cup {[type |-> "Forward", to |-> mu[s].to, content |-> db[s]]}
      BY <1>5, <2>3 DEF Restart
    <3>3. QED
      BY <1>0, <2>1, <3>1, <3>2, ForwardSent
  <2>4. QED
    BY <2>2, <2>3
<1>6. QED
  BY <1>1, <1>2, <1>3, <1>4, <1>5 DEF ServerStep

\* A clerk's step.
LEMMA ClerkTyped ==
  ASSUME TypeInv, NEW c \in Clerk, ClerkStep(c)
  PROVE  Locks(mu') /\ Requests(net')
<1>0. VS!TypeOK /\ Locks(mu) /\ Requests(net) /\ ClerkGood(cl) /\ cl[c] \in Operation
  BY IInvParts DEF TypeInv, ClerkGood
<1>1. CASE UNCHANGED <<mu, net>>
  BY <1>0, <1>1
<1>2. CASE CallPutAppend(c)
  <2>1. c \in Clerk \cup {NoClerk} /\ net' = net
    BY <1>2 DEF CallPutAppend
  <2>2. PICK s \in Server : PutAppend(s, uid(c), cl[c].op, c)
    BY <1>2 DEF CallPutAppend
  <2>3. QED
    BY <1>0, <2>1, <2>2, PutAppendLock
<1>3. CASE CallFails(c)
  <2>1. Locks(mu')
    <3>1. mu' = [s \in Server |-> IF mu[s].client = c
                                   THEN [to |-> mu[s].to, client |-> NoClerk] ELSE mu[s]]
      BY <1>3 DEF CallFails
    <3>2. ASSUME NEW s \in Server
          PROVE  mu'[s] \in Lock /\ (mu'[s].to = NoServer => mu'[s].client = NoClerk)
      <4>1. mu[s] \in Lock /\ (mu[s].to = NoServer => mu[s].client = NoClerk)
        BY <1>0 DEF Locks
      <4>2. PICK x : x = [to |-> mu[s].to, client |-> NoClerk]
        OBVIOUS
      <4>3. x \in Lock /\ x.client = NoClerk
        BY <4>1, <4>2 DEF Lock
      <4>4. mu'[s] = x \/ mu'[s] = mu[s]
        BY <3>1, <4>2
      <4>5. QED
        BY <4>1, <4>3, <4>4
    <3>3. QED
      BY <3>1, <3>2 DEF Locks
  <2>2. CASE net' = net
    BY <1>0, <2>1, <2>2
  <2>3. CASE net' # net
    <3>1. /\ cl[c].pc = "call" /\ cl[c].op # "Get" /\ known[c].primary # NoServer
          /\ net' = net \cup {[type |-> "PutAppend", to |-> known[c].primary,
                               op |-> cl[c].op, uid |-> uid(c)]}
      BY <1>3, <2>3 DEF CallFails
    <3>2. known[c] \in VS!View
      BY <1>0 DEF VS!TypeOK, VS!Client
    <3>3. known[c].primary \in Server
      BY <3>1, <3>2, BackupIsServer
    <3>4. cl[c].op \in {"Put", "Append"}
      BY <1>0, <3>1 DEF Operation
    <3>5. uid(c) \in Uid
      <4>1. cl[c].n # 0
        BY <1>0, <3>1 DEF ClerkGood
      <4>2. QED
        BY <1>0, <4>1, UidType
    <3>6. PICK m : m = [type |-> "PutAppend", to |-> known[c].primary,
                        op |-> cl[c].op, uid |-> uid(c)]
      OBVIOUS
    <3>7. m \in Write
      BY <3>3, <3>4, <3>5, <3>6 DEF Write
    <3>8. QED
      BY <1>0, <2>1, <3>1, <3>6, <3>7 DEF Requests
  <2>4. QED
    BY <2>2, <2>3
<1>4. QED
  BY <1>1, <1>2, <1>3 DEF ClerkStep, Start, updateView, CallGet

\* A request that was late.
LEMMA LateTyped ==
  ASSUME TypeInv, NEW m \in net, LateWrite(m) \/ LateForward(m)
  PROVE  Locks(mu') /\ Requests(net')
<1>1. VS!TypeOK /\ Locks(mu) /\ Requests(net) /\ Requests(net')
  BY DEF TypeInv, LateWrite, LateForward, Requests
<1>2. CASE LateForward(m)
  BY <1>1, <1>2 DEF LateForward
<1>3. CASE LateWrite(m)
  <2>1. m.to \in Server /\ NoClerk \in Clerk \cup {NoClerk}
    BY <1>1 DEF Requests, Write, Forwarded
  <2>2. PutAppend(m.to, m.uid, m.op, NoClerk)
    BY <1>3 DEF LateWrite
  <2>3. QED
    BY <1>1, <2>1, <2>2, PutAppendLock
<1>4. QED
  BY <1>2, <1>3

\* The types hold before the first ping.
LEMMA TypeInvInit == Init => TypeInv
<1> SUFFICES ASSUME Init PROVE TypeInv
  OBVIOUS
<1>1. VS!TypeOK
  <2>1. VS!NoView \in VS!View
    BY DEF VS!NoView, VS!View, VS!Name
  <2>2. QED
    BY <2>1, AgeTypes DEF Init, VS!Init, VS!TypeOK
<1>2. Locks(mu)
  <2>1. Unlocked \in Lock /\ Unlocked.client = NoClerk
    BY DEF Unlocked, Lock
  <2>2. QED
    BY <2>1 DEF Init, Locks
<1>3. Requests(net)
  BY DEF Init, Requests
<1>4. QED
  BY <1>1, <1>2, <1>3, IInvInit DEF TypeInv

\* Every step keeps them.
LEMMA TypeInvStep == TypeInv /\ [Next]_vars => TypeInv'
<1> SUFFICES ASSUME TypeInv, [Next]_vars PROVE TypeInv'
  OBVIOUS
<1>1. VS!TypeOK' /\ IInv'
  BY ViewServiceStep, ViewServiceTypes, IInvStep DEF TypeInv
<1>2. Locks(mu) /\ Requests(net)
  BY DEF TypeInv
<1>3. ViewServer \/ UNCHANGED vars => Locks(mu') /\ Requests(net')
  BY <1>2 DEF ViewServer, pbVars, vars
<1>4. Locks(mu') /\ Requests(net')
  BY <1>1, <1>3, ServerTyped, ClerkTyped, LateTyped DEF Next
<1>5. QED
  BY <1>1, <1>4 DEF TypeInv, Locks, Requests

\* Every state has the declared types: a forward and a late request go to a
\* server that exists, under whatever views the servers and clerks act.
THEOREM TypeCorrect == Spec => []TypeOK
<1>1. TypeInv => TypeOK
  BY DEF TypeInv, IInv, DataOK, Locks, Lock, Requests, TypeOK
<1>2. QED
  BY <1>1, TypeInvInit, TypeInvStep, PTL DEF Spec
----------------------------------------------------------------------------
(* What OK means.  A server in a forward for a clerk keeps its mutex, so       *)
(* neither its database nor the view it knows changes until it answers.        *)

FInv == TypeInv /\ WaitInv

\* A waiting clerk and the server that serves it are left alone.
Undisturbed(s) ==
    LET c == mu[s].client IN
    /\ mu'[s] = mu[s] /\ known'[s] = known[s] /\ db'[s] = db[s]
    /\ cl'[c].pc = cl[c].pc /\ cl'[c].op = cl[c].op /\ cl'[c].n = cl[c].n

\* A step that disturbs no server in a forward for a clerk keeps the invariant.
LEMMA WaitFrame ==
  ASSUME WaitInv,
         \A s \in Server : mu'[s].client # NoClerk => Undisturbed(s)
  PROVE  WaitInv'
<1> SUFFICES ASSUME NEW s \in Server, mu'[s].client # NoClerk
             PROVE  /\ Forwarding(s)'
                    /\ \A t \in Server : mu'[t].client = mu'[s].client => t = s
  BY DEF WaitInv
<1>1. Undisturbed(s) /\ mu[s].client # NoClerk
  BY DEF Undisturbed
<1>2. Forwarding(s) /\ \A t \in Server : mu[t].client = mu[s].client => t = s
  BY <1>1 DEF WaitInv
<1>3. Forwarding(s)'
  BY <1>1, <1>2 DEF Forwarding, Undisturbed, isPrimary, uid
<1>4. ASSUME NEW t \in Server, mu'[t].client = mu'[s].client PROVE t = s
  BY <1>1, <1>2, <1>4 DEF Undisturbed
<1>5. QED
  BY <1>3, <1>4

\* A server whose mutex is free serves nobody.
LEMMA FreeServesNobody == \A s : Free(s) => mu[s].client = NoClerk
  BY DEF Free, Unlocked

\* A clerk that is somewhere else in its loop is served by nobody.
LEMMA NotServed ==
  ASSUME WaitInv, NEW c \in Clerk, cl[c].pc # "wait", NEW s \in Server
  PROVE  mu[s].client # c
  BY NoClerkAssumption DEF WaitInv, Forwarding

\* An update that was applied is in the value.
LEMMA AppliedHolds ==
  ASSUME NEW d \in DB, NEW u \in Uid, NEW op
  PROVE  Holds(Applied(d, u, op).val, u)
<1>1. d.val \in Seq(Uid)
  BY DEF DB
<1>2. CASE op = "Append"
  <2>1. Applied(d, u, op).val = Append(d.val, u)
    BY <1>2 DEF Applied
  <2>2. /\ Append(d.val, u)[Len(d.val) + 1] = u
        /\ Len(d.val) + 1 \in 1..Len(Append(d.val, u))
    BY <1>1
  <2>3. QED
    BY <2>1, <2>2 DEF Holds
<1>3. CASE op # "Append"
  <2>1. Applied(d, u, op).val = <<u>>
    BY <1>3 DEF Applied
  <2>2. 1 \in 1..Len(<<u>>) /\ <<u>>[1] = u
    OBVIOUS
  <2>3. QED
    BY <2>1, <2>2 DEF Holds
<1>4. QED
  BY <1>2, <1>3

\* PutAppend() for a clerk, or for nobody, with the mutex taken.
LEMMA PutAppendWait ==
  ASSUME FInv, NEW s \in Server, NEW u \in Uid, NEW op, NEW c, PutAppend(s, u, op, c)
  PROVE  \A t \in Server \ {s} : mu'[t] = mu[t] /\ db'[t] = db[t]
<1>1. db \in [Server -> DB] /\ mu \in [Server -> Lock]
  BY DEF FInv, TypeInv, IInv, DataOK, Locks
<1>2. QED
  BY <1>1 DEF PutAppend

\* The handler returns: the clerk it served was served by no other server.
LEMMA ReturnWait ==
  ASSUME FInv, NEW s \in Server, Return(s), NEW t \in Server, mu'[t].client # NoClerk
  PROVE  /\ t # s /\ mu'[t] = mu[t]
         /\ cl'[mu[t].client] = cl[mu[t].client]
<1>1. mu \in [Server -> Lock] /\ cl \in [Clerk -> Operation]
  BY DEF FInv, TypeInv, IInv, DataOK, Locks
<1>2. t # s /\ mu'[t] = mu[t]
  BY <1>1 DEF Return, Unlocked
<1>3. mu[t].client \in Clerk /\ mu[t].client # mu[s].client
  BY <1>1, <1>2 DEF FInv, WaitInv, Lock
<1>4. cl'[mu[t].client] = cl[mu[t].client]
  BY <1>1, <1>3 DEF Return, Answer
<1>5. QED
  BY <1>2, <1>4

\* A server's step.
LEMMA ServerWait ==
  ASSUME FInv, NEW s \in Server, ServerStep(s)
  PROVE  WaitInv'
<1>0. /\ db \in [Server -> DB] /\ mu \in [Server -> Lock] /\ cl \in [Clerk -> Operation]
      /\ known \in [VS!Client -> VS!View] /\ Locks(mu) /\ WaitInv
  BY DEF FInv, TypeInv, IInv, DataOK, Locks, VS!TypeOK
<1> SUFFICES ASSUME NEW t \in Server, mu'[t].client # NoClerk PROVE Undisturbed(t)
  BY <1>0, WaitFrame
<1>1. CASE tick(s)
  <2>1. /\ mu[s].client = NoClerk /\ db' = db /\ cl' = cl
        /\ known' = [known EXCEPT ![s] = view']
    BY <1>1, FreeServesNobody DEF tick, VS!Ping
  <2>2. t # s /\ mu'[t] = mu[t]
    BY <1>0, <1>1, <2>1 DEF tick
  <2>3. QED
    BY <1>0, <2>1, <2>2 DEF Undisturbed, VS!Client
<1>2. CASE tickFails(s)
  <2>1. /\ mu[s].client = NoClerk /\ db' = db /\ cl' = cl /\ mu' = mu
        /\ known' = [known EXCEPT ![s] = IF s \in Server THEN VS!NoView ELSE @]
    BY <1>2, FreeServesNobody DEF tickFails, VS!PingFails, pbVars
  <2>2. t # s
    BY <2>1
  <2>3. QED
    BY <1>0, <2>1, <2>2 DEF Undisturbed, VS!Client
<1>3. CASE Forward(s)
  <2>1. /\ Free(mu[s].to) /\ known' = known
        /\ db' = [db EXCEPT ![mu[s].to] = Merged(db[mu[s].to], db[s])]
    BY <1>3 DEF Forward, vsVars
  <2>2. mu'[t] = mu[t] /\ cl'[mu[t].client] = cl[mu[t].client]
    BY <1>3, ReturnWait DEF Forward
  <2>3. t # mu[s].to
    BY <2>1, <2>2, FreeServesNobody
  <2>4. db'[t] = db[t]
    BY <1>0, <2>1, <2>3
  <2>5. QED
    BY <2>1, <2>2, <2>4 DEF Undisturbed
<1>4. CASE ForwardFails(s)
  <2>1. known' = known /\ db' = db
    BY <1>4 DEF ForwardFails, vsVars
  <2>2. mu'[t] = mu[t] /\ cl'[mu[t].client] = cl[mu[t].client]
    BY <1>4, ReturnWait DEF ForwardFails
  <2>3. QED
    BY <2>1, <2>2 DEF Undisturbed
<1>5. CASE Restart(s)
  <2>1. /\ mu' = [mu EXCEPT ![s] = Unlocked] /\ db' = [db EXCEPT ![s] = EmptyDB]
        /\ known' = [known EXCEPT ![s] = VS!NoView]
        /\ cl' = [c \in Clerk |-> IF mu[s].client = c THEN [cl[c] EXCEPT !.pc = "update"]
                                                      ELSE cl[c]]
    BY <1>5 DEF Restart, VS!Restart
  <2>2. t # s /\ mu'[t] = mu[t] /\ db'[t] = db[t] /\ known'[t] = known[t]
    BY <1>0, <2>1 DEF Unlocked, VS!Client
  <2>3. mu[t].client \in Clerk /\ mu[t].client # mu[s].client
    BY <1>0, <2>2 DEF WaitInv, Lock
  <2>4. cl'[mu[t].client] = cl[mu[t].client]
    BY <2>1, <2>3
  <2>5. QED
    BY <2>2, <2>4 DEF Undisturbed
<1>6. QED
  BY <1>1, <1>2, <1>3, <1>4, <1>5 DEF ServerStep

\* A clerk whose update is applied and forwarded begins to wait.
LEMMA CallPutAppendWait ==
  ASSUME FInv, NEW c \in Clerk, CallPutAppend(c)
  PROVE  WaitInv'
<1>0. /\ db \in [Server -> DB] /\ mu \in [Server -> Lock] /\ cl \in [Clerk -> Operation]
      /\ WaitInv /\ ClerkGood(cl)
  BY IInvParts DEF FInv, TypeInv, IInv, DataOK, Locks
<1>1. PICK s \in Server : s = known[c].primary
  BY DEF CallPutAppend
<1>2. /\ cl[c].pc = "call" /\ cl[c].op # "Get" /\ PutAppend(s, uid(c), cl[c].op, c)
      /\ known' = known
      /\ IF PutAppendErr(s, uid(c)) = "OK" /\ hasBackup(s)
           THEN cl' = [cl EXCEPT ![c].pc = "wait"] /\ UNCHANGED acked
           ELSE Answer(c, PutAppendErr(s, uid(c)), <<>>)
  BY <1>1 DEF CallPutAppend, vsVars
<1>3. uid(c) \in Uid
  BY <1>0, <1>2, UidType DEF ClerkGood
<1>4. Free(s) /\ mu[s].client = NoClerk
  BY <1>2, FreeServesNobody DEF PutAppend
<1>5. \A t \in Server : mu[t].client # c
  BY <1>0, <1>2, NotServed
<1>6. \A t \in Server \ {s} : mu'[t] = mu[t] /\ db'[t] = db[t]
  BY <1>2, <1>3, PutAppendWait
<1>7. \A d \in Clerk \ {c} : cl'[d] = cl[d]
  BY <1>0, <1>2 DEF Answer
<1>8. ASSUME NEW t \in Server, t # s, mu'[t].client # NoClerk PROVE Undisturbed(t)
  <2>1. mu[t].client \in Clerk \ {c}
    BY <1>0, <1>5, <1>6, <1>8 DEF Lock
  <2>2. cl'[mu[t].client] = cl[mu[t].client]
    BY <1>7, <2>1
  <2>3. QED
    BY <1>2, <1>6, <1>8, <2>2 DEF Undisturbed
<1>9. CASE mu'[s].client = NoClerk
  BY <1>0, <1>8, <1>9, WaitFrame
<1>10. CASE mu'[s].client # NoClerk
  <2>1. PutAppendErr(s, uid(c)) = "OK" /\ hasBackup(s)
    BY <1>2, <1>4, <1>10 DEF PutAppend
  <2>2. /\ mu' = [mu EXCEPT ![s] = [to |-> known[s].backup, client |-> c]]
        /\ db' = [db EXCEPT ![s] = Applied(@, uid(c), cl[c].op)]
        /\ cl' = [cl EXCEPT ![c].pc = "wait"]
    BY <1>2, <2>1 DEF PutAppend
  <2>3. mu'[s].to = known[s].backup /\ mu'[s].client = c
    BY <1>0, <2>2
  <2>4. db'[s] = Applied(db[s], uid(c), cl[c].op) /\ db[s] \in DB
    BY <1>0, <2>2
  <2>5. Holds(db'[s].val, uid(c))
    BY <1>3, <2>4, AppliedHolds
  <2>6. cl'[c].pc = "wait" /\ cl'[c].op = cl[c].op /\ cl'[c].n = cl[c].n
    <3>1. PICK o : o = [cl[c] EXCEPT !.pc = "wait"]
      OBVIOUS
    <3>2. cl'[c] = o
      BY <1>0, <2>2, <3>1
    <3>3. cl[c] \in Operation
      BY <1>0
    <3>4. o.pc = "wait" /\ o.op = cl[c].op /\ o.n = cl[c].n
      BY <3>1, <3>3 DEF Operation
    <3>5. QED
      BY <3>2, <3>4
  <2>7. isPrimary(s)
    BY <2>1 DEF PutAppendErr
  <2>8. Forwarding(s)'
    BY <1>2, <2>3, <2>5, <2>6, <2>7 DEF Forwarding, isPrimary, uid
  <2>9. ASSUME NEW t \in Server, t # s, mu'[t].client # NoClerk
        PROVE  Forwarding(t)' /\ mu'[t].client # c
               /\ \A r \in Server : mu'[r].client = mu'[t].client => r = t
    <3>1. Undisturbed(t) /\ mu'[t] = mu[t]
      BY <1>6, <1>8, <2>9
    <3>2. Forwarding(t) /\ \A r \in Server : mu[r].client = mu[t].client => r = t
      BY <1>0, <2>9, <3>1 DEF WaitInv
    <3>3. Forwarding(t)'
      BY <3>1, <3>2 DEF Forwarding, Undisturbed, isPrimary, uid
    <3>4. mu'[t].client # c
      BY <1>5, <3>1
    <3>5. \A r \in Server : mu'[r].client = mu'[t].client => r = t
      BY <1>6, <2>3, <3>1, <3>2, <3>4
    <3>6. QED
      BY <3>3, <3>4, <3>5
  <2>10. QED
    BY <2>3, <2>8, <2>9 DEF WaitInv
<1>11. QED
  BY <1>9, <1>10

\* A clerk's step.
LEMMA ClerkWait ==
  ASSUME FInv, NEW c \in Clerk, ClerkStep(c)
  PROVE  WaitInv'
<1>0. /\ db \in [Server -> DB] /\ mu \in [Server -> Lock] /\ cl \in [Clerk -> Operation]
      /\ known \in [VS!Client -> VS!View] /\ WaitInv
  BY DEF FInv, TypeInv, IInv, DataOK, Locks, VS!TypeOK
<1>1. CASE CallPutAppend(c)
  BY <1>1, CallPutAppendWait
<1>2. CASE CallFails(c)
  <2>1. /\ mu' = [s \in Server |-> IF mu[s].client = c
                                     THEN [to |-> mu[s].to, client |-> NoClerk]
                                     ELSE mu[s]]
        /\ cl' = [cl EXCEPT ![c].pc = "update"] /\ db' = db /\ known' = known
    BY <1>2 DEF CallFails, vsVars
  <2>2. ASSUME NEW t \in Server, mu'[t].client # NoClerk PROVE Undisturbed(t)
    <3>1. mu'[t] = mu[t] /\ mu[t].client \in Clerk \ {c}
      BY <1>0, <2>1, <2>2 DEF Lock
    <3>2. cl'[mu[t].client] = cl[mu[t].client]
      BY <1>0, <2>1, <3>1
    <3>3. QED
      BY <2>1, <3>1, <3>2 DEF Undisturbed
  <2>3. QED
    BY <1>0, <2>2, WaitFrame
<1>3. CASE /\ cl[c].pc # "wait" /\ mu' = mu /\ db' = db
           /\ \A s \in Server : known'[s] = known[s]
           /\ \A d \in Clerk \ {c} : cl'[d] = cl[d]
  <2>1. ASSUME NEW t \in Server, mu'[t].client # NoClerk PROVE Undisturbed(t)
    <3>1. mu[t].client \in Clerk \ {c}
      BY <1>0, <1>3, <2>1, NotServed DEF Lock
    <3>2. cl'[mu[t].client] = cl[mu[t].client]
      BY <1>3, <3>1
    <3>3. QED
      BY <1>3, <3>2 DEF Undisturbed
  <2>2. QED
    BY <1>0, <2>1, WaitFrame
<1>4. ASSUME NEW op \in Ops, Start(c, op) PROVE WaitInv'
  <2>1. /\ cl[c].pc # "wait" /\ mu' = mu /\ db' = db /\ known' = known
        /\ \A d \in Clerk \ {c} : cl'[d] = cl[d]
    BY <1>0, <1>4 DEF Start, vsVars
  <2>2. QED
    BY <1>3, <2>1
<1>5. CASE updateView(c)
  <2>1. cl[c].pc # "wait" /\ mu' = mu /\ db' = db /\ \A d \in Clerk \ {c} : cl'[d] = cl[d]
    BY <1>0, <1>5 DEF updateView
  <2>2. \A s \in Server : known'[s] = known[s]
    <3>1. \E v : known' = [known EXCEPT ![c] = v]
      BY <1>5 DEF updateView, VS!Ping, VS!PingFails
    <3>2. QED
      BY <1>0, <3>1, NamesAssumption DEF VS!Client
  <2>3. QED
    BY <1>3, <2>1, <2>2
<1>6. CASE CallGet(c)
  <2>1. /\ cl[c].pc # "wait" /\ mu' = mu /\ db' = db /\ known' = known
        /\ \A d \in Clerk \ {c} : cl'[d] = cl[d]
    BY <1>0, <1>6 DEF CallGet, Answer, vsVars
  <2>2. QED
    BY <1>3, <2>1
<1>7. QED
  BY <1>1, <1>2, <1>4, <1>5, <1>6 DEF ClerkStep

\* A request that was late.
LEMMA LateWait ==
  ASSUME FInv, NEW m \in net, LateWrite(m) \/ LateForward(m)
  PROVE  WaitInv'
<1>0. /\ db \in [Server -> DB] /\ mu \in [Server -> Lock] /\ WaitInv
      /\ m.to \in Server /\ (m.type = "PutAppend" => m.uid \in Uid)
  BY DEF FInv, TypeInv, IInv, DataOK, Locks, Requests, Write, Forwarded
<1>1. known' = known /\ cl' = cl /\ mu[m.to].client = NoClerk
  BY FreeServesNobody DEF LateWrite, LateForward, PutAppend, vsVars
<1>2. \A t \in Server \ {m.to} : mu'[t] = mu[t] /\ db'[t] = db[t]
  <2>1. CASE LateWrite(m)
    BY <1>0, <2>1, PutAppendWait DEF LateWrite
  <2>2. CASE LateForward(m)
    BY <1>0, <2>2 DEF LateForward
  <2>3. QED
    BY <2>1, <2>2
<1>3. mu'[m.to].client = NoClerk
  <2>1. mu' = mu \/ mu' = [mu EXCEPT ![m.to] = [to |-> known[m.to].backup,
                                                client |-> NoClerk]]
    BY DEF LateWrite, LateForward, PutAppend
  <2>2. QED
    BY <1>0, <1>1, <2>1
<1>4. ASSUME NEW t \in Server, mu'[t].client # NoClerk PROVE Undisturbed(t)
  BY <1>1, <1>2, <1>3, <1>4 DEF Undisturbed
<1>5. QED
  BY <1>0, <1>4, WaitFrame

\* The invariant holds before the first ping.
LEMMA FInvInit == Init => FInv
<1> SUFFICES ASSUME Init PROVE FInv
  OBVIOUS
<1>1. \A s \in Server : mu[s].client = NoClerk
  BY DEF Init, Unlocked
<1>2. QED
  BY <1>1, TypeInvInit DEF FInv, WaitInv

\* Every step keeps it.
LEMMA FInvStep == FInv /\ [Next]_vars => FInv'
<1> SUFFICES ASSUME FInv, [Next]_vars PROVE FInv'
  OBVIOUS
<1>1. TypeInv'
  BY TypeInvStep DEF FInv
<1>2. ASSUME UNCHANGED <<mu, db, cl, known>> PROVE WaitInv'
  BY <1>2, WaitFrame DEF FInv, Undisturbed
<1>3. ViewServer \/ UNCHANGED vars => UNCHANGED <<mu, db, cl, known>>
  BY DEF ViewServer, VS!tick, VS!LatePing, pbVars, vars
<1>4. WaitInv'
  BY <1>2, <1>3, ServerWait, ClerkWait, LateWait DEF Next
<1>5. QED
  BY <1>1, <1>4 DEF FInv

\* What is said of an update that is answered with OK in a step.
Kept(u) ==
    \E s \in Server :
        /\ isPrimary(s) /\ Holds(db'[s].val, u)
        /\ LET b == known[s].backup IN
              \/ b = NoServer
              \/ Holds(db'[b].val, u)
              \/ \E m \in net' : /\ m.type = "Forward" /\ m.to = b
                                  /\ Holds(m.content.val, u)

\* The handler that returns answers the update of the clerk it served.
LEMMA ReturnAnswers ==
  ASSUME FInv, NEW s \in Server, Return(s), NEW u \in acked' \ acked
  PROVE  /\ u = uid(mu[s].client) /\ mu[s].client # NoClerk
         /\ isPrimary(s) /\ mu[s].to = known[s].backup /\ Holds(db[s].val, u)
<1>1. u = uid(mu[s].client) /\ mu[s].client # NoClerk
  BY DEF Return, Answer
<1>2. QED
  BY <1>1 DEF FInv, WaitInv, Forwarding

\* A forward that is executed.
LEMMA ForwardKeeps ==
  ASSUME FInv, NEW s \in Server, Forward(s), NEW u \in acked' \ acked
  PROVE  Kept(u)
<1>0. db \in [Server -> DB] /\ mu[s].to \in Server
  BY HeldForServer DEF FInv, TypeInv, IInv, DataOK, Forward
<1>1. /\ isPrimary(s) /\ mu[s].to = known[s].backup /\ Holds(db[s].val, u)
  BY ReturnAnswers DEF Forward
<1>2. /\ db' = [db EXCEPT ![mu[s].to] = Merged(db[mu[s].to], db[s])]
      /\ mu[s].to # s
  BY DEF Forward
<1>3. db'[s] = db[s] /\ db'[mu[s].to] = Merged(db[mu[s].to], db[s])
  BY <1>0, <1>2
<1>4. db[s].val # <<>>
  BY <1>1 DEF Holds
<1>5. db'[mu[s].to].val = db[s].val
  BY <1>3, <1>4 DEF Merged
<1>6. QED
  BY <1>1, <1>3, <1>5 DEF Kept

\* A forward that fails.
LEMMA ForwardFailsKeeps ==
  ASSUME FInv, NEW s \in Server, ForwardFails(s), NEW u \in acked' \ acked
  PROVE  Kept(u)
<1>1. /\ isPrimary(s) /\ mu[s].to = known[s].backup /\ Holds(db[s].val, u)
  BY ReturnAnswers DEF ForwardFails
<1>2. PICK m : m = [type |-> "Forward", to |-> mu[s].to, content |-> db[s]]
  OBVIOUS
<1>3. m \in net' /\ m.type = "Forward" /\ m.to = known[s].backup
      /\ m.content = db[s] /\ db' = db
  BY <1>1, <1>2 DEF ForwardFails
<1>4. QED
  BY <1>1, <1>3 DEF Kept

\* An update that is answered at once.
LEMMA CallPutAppendKeeps ==
  ASSUME FInv, NEW c \in Clerk, CallPutAppend(c), NEW u \in acked' \ acked
  PROVE  Kept(u)
<1>0. db \in [Server -> DB] /\ ClerkGood(cl)
  BY IInvParts DEF FInv, TypeInv, IInv, DataOK
<1>1. PICK s \in Server : s = known[c].primary
  BY DEF CallPutAppend
<1>2. /\ cl[c].pc = "call" /\ PutAppend(s, uid(c), cl[c].op, c)
      /\ IF PutAppendErr(s, uid(c)) = "OK" /\ hasBackup(s)
           THEN cl' = [cl EXCEPT ![c].pc = "wait"] /\ UNCHANGED acked
           ELSE Answer(c, PutAppendErr(s, uid(c)), <<>>)
  BY <1>1 DEF CallPutAppend
<1>3. uid(c) \in Uid
  BY <1>0, <1>2, UidType DEF ClerkGood
<1>4. PutAppendErr(s, uid(c)) = "OK" /\ ~hasBackup(s) /\ u = uid(c)
  BY <1>2 DEF Answer
<1>5. isPrimary(s) /\ known[s].backup = NoServer
  BY <1>4 DEF PutAppendErr, hasBackup
<1>6. db'[s] = Applied(db[s], u, cl[c].op) /\ db[s] \in DB
  BY <1>0, <1>2, <1>4 DEF PutAppend
<1>7. Holds(db'[s].val, u)
  BY <1>3, <1>4, <1>6, AppliedHolds
<1>8. QED
  BY <1>5, <1>7 DEF Kept

\* When an update is answered with OK, the server that took it has it, and so
\* has its backup, or the forward is under way.
THEOREM OkMeansForwardedHolds == Spec => OkMeansForwarded
<1>1. ASSUME FInv, [Next]_vars
      PROVE  \A u \in acked' \ acked : Kept(u)
  <2>1. ASSUME NEW s \in Server, ServerStep(s), NEW u \in acked' \ acked PROVE Kept(u)
    BY <1>1, <2>1, ForwardKeeps, ForwardFailsKeeps
       DEF ServerStep, tick, tickFails, Restart, pbVars
  <2>2. ASSUME NEW c \in Clerk, ClerkStep(c), NEW u \in acked' \ acked PROVE Kept(u)
    <3>1. CASE CallGet(c)
      BY <2>2, <3>1 DEF CallGet, Answer
    <3>2. QED
      BY <1>1, <2>2, <3>1, CallPutAppendKeeps DEF ClerkStep, Start, updateView, CallFails
  <2>3. ViewServer \/ (\E m \in net : LateWrite(m) \/ LateForward(m)) \/ UNCHANGED vars
          => acked' = acked
    BY DEF ViewServer, LateWrite, LateForward, pbVars, vars
  <2>4. QED
    BY <1>1, <2>1, <2>2, <2>3 DEF Next
<1>2. FInv /\ [Next]_vars =>
        [\A u \in acked' \ acked : \E s \in Server :
            /\ isPrimary(s) /\ Holds(db'[s].val, u)
            /\ LET b == known[s].backup IN
                  \/ b = NoServer
                  \/ Holds(db'[b].val, u)
                  \/ \E m \in net' : /\ m.type = "Forward" /\ m.to = b
                                      /\ Holds(m.content.val, u)
        ]_vars
  BY <1>1 DEF Kept
<1>3. QED
  BY <1>2, FInvInit, FInvStep, PTL DEF Spec, OkMeansForwarded
=============================================================================
