-------------------------- MODULE ReplicationProof --------------------------
(* Proofs about Replication, for any keys, values, chunks and bounds.        *)
(*                                                                           *)
(* What the slave will hold is what it holds now with the messages on their  *)
(* way redone.  The invariant says of every prefix of these messages, since  *)
(* the connection may break after any of them, that each key is then right,  *)
(* or named by a log entry behind the sequence number the slave will have,   *)
(* or still to be copied.                                                    *)
EXTENDS Replication, TLAPS

\* k holds the master's value when n messages have been redone.
Current(n, k) ==
    \/ \E i \in 1..n : /\ chan[i].key = k /\ chan[i].val = db[k]
                       /\ \A j \in (i+1)..n : chan[j].key # k
    \/ sdb[k] = db[k] /\ \A j \in 1..n : chan[j].key # k

\* The sequence number the slave has then, or a later one.
SeqAt(n) == IF n = 0 THEN mem.seq ELSE chan[n].seq

\* The copy goes on then and has not come to k.
Uncopied(n, k) ==
    /\ copying /\ k > mem.key
    /\ \A i \in 1..n : chan[i].type = "COPY" => chan[i].cmd # "END" /\ chan[i].key < k

\* Wherever the slave stops listening, it can go on from there.
Resumes ==
    \A k \in Key \ lost : \A n \in 0..Len(chan) :
        Current(n, k) \/ Logged(k, SeqAt(n)) \/ Uncopied(n, k)

\* The client thread has sent, or has still to deal with, every write.
Covered(k) ==
    Current(Len(chan), k) \/ Pending(k) \/ (status = "COPY" /\ k > key)
AllCovered == conn = "up" => \A k \in Key \ lost : Covered(k)

\* The iterator's snapshot of keys that the copy has yet to reach is stale only
\* if sync() will find an entry, and the slave has nothing of these keys.
SnapshotOK ==
    conn = "up" /\ status = "COPY" =>
        \A k \in Key \ lost : k > key =>
            /\ iter # NoIter => iter[k] = db[k] \/ Logged(k, seq)
            /\ sdb[k] = NoVal /\ \A i \in DOMAIN chan : chan[i].key # k

\* The newest entry of a key says whether the key exists.
LogOK ==
    \A i \in DOMAIN logs :
        /\ logs[i].cmd = "HSET" <=> logs[i].key = HashKey
        /\ logs[i].cmd = "KSET" /\ db[logs[i].key] = NoVal => Logged(logs[i].key, i)
        /\ logs[i].cmd = "KDEL" /\ db[logs[i].key] # NoVal => Logged(logs[i].key, i)

\* Messages are in the order of the log and of the keys, and each is of an entry
\* the slave has not come to or a key it has not been copied.
Ordered(i) ==
    /\ mem.seq =< chan[i].seq /\ chan[i].seq =< Len(logs)
    /\ \A j \in 1..(i-1) : chan[j].seq =< chan[i].seq
    /\ chan[i].cmd \in {"KSET", "KDEL"} <=> chan[i].key # 0
    /\ chan[i].type = "SYNC" =>
         /\ chan[i].cmd \in {"KSET", "KDEL"}
         /\ chan[i].seq # 0 /\ logs[chan[i].seq].key = chan[i].key
         /\ mem.seq < chan[i].seq /\ \A j \in 1..(i-1) : chan[j].seq < chan[i].seq
    /\ chan[i].type = "COPY" /\ chan[i].key # 0 =>
         /\ copying /\ mem.key < chan[i].key
         /\ \A j \in 1..(i-1) : chan[j].type = "COPY" => chan[j].cmd # "END" /\ chan[j].key < chan[i].key
ChanOK == \A i \in DOMAIN chan : Ordered(i)

\* The client thread is ahead of all it has sent.
ClientOK ==
    conn = "up" =>
        /\ mem.seq =< seq /\ seq =< Len(logs)
        /\ \A i \in DOMAIN chan : chan[i].seq =< seq
        /\ pc = "send" => /\ mem.seq < seq /\ \A i \in DOMAIN chan : chan[i].seq < seq
                          /\ status = "COPY" => logs[seq].key =< key
        /\ pc = "copy" => status = "COPY"
        /\ status = "COPY" =>
             /\ copying /\ mem.key =< key
             /\ \A i \in DOMAIN chan : chan[i].cmd # "END" /\ chan[i].key =< key

\* What is saved is behind what is in memory.
SavedOK ==
    /\ saved.seq =< mem.seq /\ mem.seq =< Len(logs)
    /\ copying => saved.key =< mem.key
    /\ conn = "none" => mem = saved /\ chan = <<>> /\ spc = "idle"

IInv ==
    /\ TypeOK /\ LogOK /\ ChanOK /\ ClientOK /\ SavedOK
    /\ SnapshotOK /\ AllCovered /\ Resumes

-----------------------------------------------------------------------------
(* The types *)

\* Every step keeps the variables in their types.
LEMMA TypeStep == TypeOK /\ ChanOK /\ LogOK /\ ClientOK /\ [Next]_vars => TypeOK'
<1> SUFFICES ASSUME TypeOK, ChanOK, LogOK, ClientOK, [Next]_vars PROVE TypeOK'
  OBVIOUS
<1> USE DEF TypeOK
<1>1. ASSUME NEW c \in {"KSET", "KDEL", "HSET"}, NEW k \in DbKey,
             NEW v \in Value \cup {NoVal}, Commit(c, k, v)
      PROVE  TypeOK'
  <2>1. [cmd |-> c, key |-> k] \in Entry
    BY DEF Entry
  <2>2. logs' \in Seq(Entry)
    BY <1>1, <2>1 DEF Commit
  <2>3. QED
    BY <1>1, <2>2 DEF Commit, clientVars, slaveVars
<1>2. CASE ClientStep
  <2>0. DOMAIN logs = 1..Len(logs) /\ Len(logs) \in Nat
    OBVIOUS
  <2>00. faults' \in Nat
    BY <1>2 DEF ClientStep
  <2> USE <1>2, <2>00 DEF ClientStep, masterVars, slaveVars
  <2>1. CASE SyncNone
    BY <2>1 DEF SyncNone
  <2>2. CASE SyncDrop
    BY <2>2, <2>0 DEF SyncDrop, Found, NextSeq, Skipped
  <2>3. CASE SyncTake
    BY <2>3, <2>0 DEF SyncTake, Found, NextSeq, Skipped
  <2>4. CASE SyncSend
    <3>1. chan' \in Seq(Message) /\ lost' \subseteq Key
      <4>0. seq \in DOMAIN logs /\ logs[seq] \in Entry
        BY <2>0, <2>4 DEF ClientOK, SyncSend, Point
      <4>1. CASE chan' = chan /\ lost' = lost
        BY <4>1
      <4>2. ASSUME NEW c \in {"KSET", "KDEL"}, NEW v \in Value \cup {NoVal},
                   logs[seq].cmd = c, chan' = Append(chan, Msg("SYNC", c, logs[seq].key, v)),
                   lost' = lost \ {logs[seq].key}
            PROVE  chan' \in Seq(Message) /\ lost' \subseteq Key
        <5>2. logs[seq].key \in Key
          BY <4>0, <4>2 DEF LogOK, Entry, DbKey, HashKey
        <5>3. Msg("SYNC", c, logs[seq].key, v) \in Message
          BY <5>2 DEF Msg, Message
        <5>4. QED
          BY <4>2, <5>3
      <4>3. logs[seq].key \in DbKey
        BY <4>0 DEF Entry
      <4>4. QED
        BY <2>4, <4>1, <4>2, <4>3 DEF SyncSend, Forward, Send
    <3>2. QED
      BY <2>4, <3>1 DEF SyncSend, AfterSync
  <2>5. CASE CopyOpen
    BY <2>5 DEF CopyOpen
  <2>6. CASE CopyItem
    <3>1. PICK k \in ToVisit :
              /\ key' = k
              /\ IF k = HashKey
                   THEN UNCHANGED <<chan, lost>>
                   ELSE /\ Send(Msg("COPY", "KSET", k, iter[k]))
                        /\ lost' = lost \ {j \in {k} : iter[j] = db[j] \/ Logged(j, seq)}
      BY <2>6 DEF CopyItem
    <3>2. k \in DbKey /\ iter[k] \in Value \cup {NoVal}
      BY <2>6 DEF CopyItem, ToVisit
    <3>3. k # HashKey => Msg("COPY", "KSET", k, iter[k]) \in Message
      BY <3>2 DEF DbKey, Msg, Message
    <3>4. chan' \in Seq(Message) /\ lost' \subseteq Key
      <4>1. CASE k = HashKey
        BY <3>1, <4>1
      <4>2. CASE k # HashKey
        <5>1. chan' = Append(chan, Msg("COPY", "KSET", k, iter[k])) /\ lost' \subseteq lost
          BY <3>1, <4>2 DEF Send
        <5>2. QED
          BY <3>3, <4>2, <5>1
      <4>3. QED
        BY <4>1, <4>2
    <3>5. QED
      BY <2>6, <3>1, <3>2, <3>4 DEF CopyItem
  <2>7. CASE CopyPause
    BY <2>7 DEF CopyPause
  <2>8. CASE EndCopy
    <3>1. Msg("COPY", "END", 0, NoVal) \in Message
      BY DEF Msg, Message
    <3>2. lost' \subseteq Key
      <4>1. \A k \in ToVisit \ {HashKey} : k \in Key
        BY DEF ToVisit, DbKey
      <4>2. lost' = lost \cup {k \in ToVisit \ {HashKey} : ~Logged(k, seq)}
        BY <2>8 DEF EndCopy
      <4>3. QED
        BY <4>1, <4>2
    <3>3. QED
      BY <2>8, <3>1, <3>2 DEF EndCopy, Send
  <2>9. CASE ReadFails
    <3>1. seq \in DOMAIN logs /\ logs[seq] \in Entry
      BY <2>0, <2>9 DEF ClientOK, ReadFails, Point
    <3>2. logs[seq].key \in Key
      BY <2>9, <3>1 DEF ReadFails, LogOK, Entry, DbKey, HashKey
    <3>3. QED
      BY <2>9, <3>2 DEF ReadFails, AfterSync
  <2>10. QED
    BY <2>1, <2>2, <2>3, <2>4, <2>5, <2>6, <2>7, <2>8, <2>9 DEF CopyEnd, IterFails
<1>3. CASE Proc
  <2>1. Head(chan) \in Message /\ Tail(chan) \in Seq(Message) /\ chan[1] = Head(chan)
        /\ 1 \in DOMAIN chan
    BY <1>3 DEF Proc
  <2> DEFINE h == Head(chan)
  <2>2. h.cmd \in {"KSET", "KDEL"} => h.key \in Key
    BY <2>1 DEF ChanOK, Ordered, Message
  <2>3. h.seq \in Nat /\ h.key \in Key \cup {0} /\ h.val \in Value \cup {NoVal}
    BY <2>1 DEF Message
  <2> HIDE DEF h
  <2>4. CASE h.cmd \in {"KSET", "KDEL"} /\ Redo(h)
    BY <1>3, <2>1, <2>2, <2>3, <2>4 DEF Proc, Redo, masterVars, clientVars, Point, DbKey
  <2>5. CASE h.cmd \in {"KSET", "KDEL"} /\ RedoFails(h)
    BY <1>3, <2>1, <2>2, <2>3, <2>5 DEF Proc, RedoFails, masterVars, clientVars
  <2>6. CASE EndOfCopy
    BY <1>3, <2>1, <2>6 DEF Proc, EndOfCopy, masterVars, clientVars, Point
  <2>7. CASE UNCHANGED <<sdb, mem, spc, faults, copying, lost>>
    BY <1>3, <2>1, <2>7 DEF Proc, masterVars, clientVars
  <2>8. QED
    BY <1>3, <2>4, <2>5, <2>6, <2>7 DEF Proc, h
<1>4. CASE SaveKey
  BY <1>4 DEF SaveKey, masterVars, clientVars, Point
<1>5. CASE SaveSeq
  BY <1>5 DEF SaveSeq, masterVars, clientVars, Point
<1>6. CASE Connect
  <2> DEFINE b == [type |-> "COPY", cmd |-> "BEGIN", seq |-> 0, key |-> 0, val |-> NoVal]
  <2>1. b \in Message
    BY DEF Message
  <2>2. chan' \in {<<>>, <<b>>} /\ status' \in {"INIT", "COPY"} /\ copying' \in BOOLEAN
    BY <1>6 DEF Connect
  <2> HIDE DEF b
  <2>3. lost' \subseteq Key
    BY <1>6 DEF Connect, GivenUp
  <2>4. chan' \in Seq(Message)
    <3>1. <<>> \in Seq(Message) /\ <<b>> \in Seq(Message)
      BY <2>1
    <3>2. QED
      BY <2>2, <3>1, Zenon
  <2>5. QED
    BY <1>6, <2>2, <2>3, <2>4 DEF Connect, masterVars, slaveVars, Point
<1>7. CASE Disconnect
  <2>1. \A n \in 0..Len(chan) : SubSeq(chan, 1, n) \in Seq(Message)
    OBVIOUS
  <2>2. QED
    BY <1>7, <2>1 DEF Disconnect, masterVars, clientVars, slaveVars
<1>8. CASE Restart
  BY <1>8 DEF Restart, masterVars, clientVars
<1>9. CASE UNCHANGED vars
  BY <1>9 DEF vars
<1>10. \A k \in Key, v \in Value : Set(k, v) => TypeOK'
  BY <1>1 DEF Set, DbKey
<1>11. \A k \in Key : Del(k) => TypeOK'
  BY <1>1 DEF Del, DbKey
<1>12. \A v \in Value : HSet(v) => TypeOK'
  BY <1>1 DEF HSet, DbKey
<1>13. QED
  BY <1>2, <1>3, <1>4, <1>5, <1>6, <1>7, <1>8, <1>9, <1>10, <1>11, <1>12
  DEF Next, SlaveStep

-----------------------------------------------------------------------------
(* Sequences *)

\* What Append() does, in the form the proofs use.
LEMMA AppendFacts ==
  ASSUME NEW S, NEW s \in Seq(S), NEW x \in S
  PROVE  /\ Len(s) \in Nat /\ DOMAIN s = 1..Len(s)
         /\ Len(Append(s, x)) = Len(s) + 1
         /\ DOMAIN Append(s, x) = 1..(Len(s) + 1)
         /\ \A i \in 1..Len(s) : Append(s, x)[i] = s[i]
         /\ Append(s, x)[Len(s) + 1] = x
  OBVIOUS

\* The same for Head() and Tail() of a sequence that is not empty.
LEMMA TailFacts ==
  ASSUME NEW S, NEW s \in Seq(S), s # <<>>
  PROVE  /\ Len(s) \in Nat /\ Len(s) >= 1 /\ DOMAIN s = 1..Len(s)
         /\ Head(s) = s[1] /\ s[1] \in S
         /\ Tail(s) \in Seq(S)
         /\ Len(Tail(s)) = Len(s) - 1
         /\ DOMAIN Tail(s) = 1..(Len(s) - 1)
         /\ \A i \in 1..(Len(s) - 1) : Tail(s)[i] = s[i + 1]
  OBVIOUS

\* The same for the first n elements.
LEMMA PrefixFacts ==
  ASSUME NEW S, NEW s \in Seq(S), NEW n \in 0..Len(s)
  PROVE  /\ Len(s) \in Nat /\ DOMAIN s = 1..Len(s)
         /\ SubSeq(s, 1, n) \in Seq(S)
         /\ Len(SubSeq(s, 1, n)) = n
         /\ DOMAIN SubSeq(s, 1, n) = 1..n
         /\ \A i \in 1..n : SubSeq(s, 1, n)[i] = s[i]
  OBVIOUS

\* The numbers the invariant compares are natural numbers.
LEMMA Numbers ==
  ASSUME TypeOK
  PROVE  /\ Key \subseteq Nat \ {0, HashKey} /\ DbKey \subseteq Nat \ {0} /\ HashKey \in Nat
         /\ key \in Nat /\ seq \in Nat
         /\ mem.seq \in Nat /\ mem.key \in Nat /\ saved.seq \in Nat /\ saved.key \in Nat
         /\ Len(chan) \in Nat /\ DOMAIN chan = 1..Len(chan)
         /\ Len(logs) \in Nat /\ DOMAIN logs = 1..Len(logs)
         /\ \A i \in 1..Len(chan) : chan[i] \in Message /\ chan[i].seq \in Nat /\ chan[i].key \in Nat
         /\ \A i \in 1..Len(logs) : logs[i] \in Entry /\ logs[i].key \in DbKey
         /\ \A n \in 0..Len(chan) : SeqAt(n) \in Nat
<1>1. Key \subseteq Nat \ {0, HashKey} /\ DbKey \subseteq Nat \ {0} /\ HashKey \in Nat
  BY KeyAssumption DEF DbKey, HashKey
<1>2. /\ key \in Nat /\ seq \in Nat
      /\ mem.seq \in Nat /\ mem.key \in Nat /\ saved.seq \in Nat /\ saved.key \in Nat
  <2>1. mem \in Point /\ saved \in Point /\ key \in DbKey \cup {0} /\ seq \in Nat
    BY DEF TypeOK
  <2>2. \A p \in Point : p.seq \in Nat /\ p.key \in DbKey \cup {0}
    BY DEF Point
  <2>3. DbKey \cup {0} \subseteq Nat
    BY <1>1
  <2> HIDE DEF DbKey
  <2>4. QED
    BY <2>1, <2>2, <2>3
<1>3. /\ Len(chan) \in Nat /\ DOMAIN chan = 1..Len(chan)
      /\ Len(logs) \in Nat /\ DOMAIN logs = 1..Len(logs)
  BY DEF TypeOK
<1>4. \A i \in 1..Len(chan) : chan[i] \in Message /\ chan[i].seq \in Nat /\ chan[i].key \in Nat
  <2>1. \A i \in 1..Len(chan) : chan[i] \in Message
    BY <1>3 DEF TypeOK
  <2>2. \A m \in Message : m.seq \in Nat /\ m.key \in Key \cup {0}
    BY DEF Message
  <2>3. Key \cup {0} \subseteq Nat
    BY <1>1
  <2>4. QED
    BY <2>1, <2>2, <2>3
<1>5. \A i \in 1..Len(logs) : logs[i] \in Entry /\ logs[i].key \in DbKey
  <2>1. \A i \in 1..Len(logs) : logs[i] \in Entry
    BY <1>3 DEF TypeOK
  <2>2. QED
    BY <2>1 DEF Entry
<1>6. QED
  BY <1>1, <1>2, <1>3, <1>4, <1>5 DEF SeqAt

\* No sequence number that is in use is beyond the log.
LEMMA Behind ==
  ASSUME TypeOK, ChanOK, SavedOK
  PROVE  \A n \in 0..Len(chan) : SeqAt(n) =< Len(logs)
BY Numbers DEF SeqAt, ChanOK, Ordered, SavedOK

-----------------------------------------------------------------------------
(* The master's writes *)

\* A write appends an entry of the key that is behind every sequence number.
LEMMA CommitStep ==
  ASSUME IInv, TypeOK', NEW c \in {"KSET", "KDEL", "HSET"}, NEW k \in DbKey,
         NEW v \in Value \cup {NoVal}, Commit(c, k, v),
         c = "HSET" <=> k = HashKey, c = "KSET" => v # NoVal, c = "KDEL" => v = NoVal
  PROVE  IInv'
<1> USE DEF IInv
<1>1. /\ conn' = conn /\ pc' = pc /\ status' = status /\ seq' = seq /\ key' = key
      /\ iter' = iter /\ chan' = chan /\ sdb' = sdb /\ mem' = mem /\ saved' = saved
      /\ spc' = spc /\ copying' = copying /\ lost' = lost
  BY DEF Commit, clientVars, slaveVars
<1>2. /\ Len(logs') = Len(logs) + 1 /\ DOMAIN logs' = 1..(Len(logs) + 1)
      /\ \A i \in 1..Len(logs) : logs'[i] = logs[i]
      /\ logs'[Len(logs) + 1].cmd = c /\ logs'[Len(logs) + 1].key = k
  <2> DEFINE e == [cmd |-> c, key |-> k]
  <2>1. e \in Entry /\ e.cmd = c /\ e.key = k
    BY DEF Entry
  <2>2. logs' = Append(logs, e) /\ logs \in Seq(Entry)
    BY DEF Commit, TypeOK
  <2> HIDE DEF e
  <2>3. QED
    BY <2>1, <2>2, AppendFacts
<1>3. db'[k] = v /\ \A j \in DbKey : j # k => db'[j] = db[j]
  BY DEF Commit, TypeOK
<1>4. \A j \in DbKey, a \in Nat : Logged(j, a) => Logged(j, a)'
  BY <1>2, Numbers DEF Logged
<1>5. \A a \in Nat : a =< Len(logs) => Logged(k, a)'
  <2>1. Len(logs) \in Nat
    BY Numbers
  <2>2. Len(logs) + 1 \in DOMAIN logs' /\ logs'[Len(logs) + 1].key = k
        /\ \A a \in Nat : a =< Len(logs) => Len(logs) + 1 > a
    BY <1>2, <2>1
  <2>3. QED
    BY <2>2 DEF Logged
<1>6. LogOK'
  <2> SUFFICES ASSUME NEW i \in DOMAIN logs'
               PROVE  /\ logs'[i].cmd = "HSET" <=> logs'[i].key = HashKey
                      /\ logs'[i].cmd = "KSET" /\ db'[logs'[i].key] = NoVal => Logged(logs[i].key, i)'
                      /\ logs'[i].cmd = "KDEL" /\ db'[logs'[i].key] # NoVal => Logged(logs[i].key, i)'
    BY DEF LogOK
  <2>1. CASE i = Len(logs) + 1
    BY <1>2, <1>3, <2>1
  <2>2. CASE i \in 1..Len(logs)
    <3>1. logs'[i] = logs[i] /\ logs[i].key \in DbKey /\ i \in Nat /\ i =< Len(logs)
      BY <1>2, <2>2, Numbers
    <3>2. CASE logs[i].key = k
      BY <3>1, <3>2, <1>5, <2>2, Numbers DEF LogOK
    <3>3. CASE logs[i].key # k
      BY <3>1, <3>3, <1>3, <1>4, <2>2, Numbers DEF LogOK
    <3>4. QED
      BY <3>2, <3>3
  <2>3. QED
    BY <1>2, <2>1, <2>2, Numbers
<1>7. ChanOK'
  <2> SUFFICES ASSUME NEW i \in DOMAIN chan PROVE Ordered(i)'
    BY <1>1 DEF ChanOK
  <2>1. Ordered(i) /\ chan[i].seq \in Nat
    BY Numbers DEF ChanOK
  <2>2. chan[i].seq # 0 => logs'[chan[i].seq] = logs[chan[i].seq]
    BY <1>2, <2>1, Numbers DEF Ordered
  <2>3. chan[i].seq =< Len(logs) => chan[i].seq =< Len(logs')
    BY <1>2, <2>1, Numbers
  <2>4. QED
    BY <1>1, <2>1, <2>2, <2>3 DEF Ordered
<1>8. ClientOK'
  BY <1>1, <1>2, Numbers DEF ClientOK
<1>9. SavedOK'
  BY <1>1, <1>2, Numbers DEF SavedOK
<1>10. SnapshotOK'
  <2> SUFFICES ASSUME conn = "up", status = "COPY", NEW j \in Key \ lost, j > key
               PROVE  /\ iter # NoIter => iter[j] = db'[j] \/ Logged(j, seq)'
                      /\ sdb[j] = NoVal /\ \A i \in DOMAIN chan : chan[i].key # j
    BY <1>1 DEF SnapshotOK
  <2>1. seq \in Nat /\ seq =< Len(logs)
    BY Numbers DEF ClientOK
  <2>2. QED
    BY <1>1, <1>3, <1>4, <1>5, <2>1 DEF SnapshotOK, DbKey
<1>11. AllCovered'
  <2> SUFFICES ASSUME conn = "up", NEW j \in Key \ lost PROVE Covered(j)'
    BY <1>1 DEF AllCovered
  <2>1. seq \in Nat /\ seq =< Len(logs)
    BY Numbers DEF ClientOK
  <2>2. CASE j = k
    BY <2>1, <2>2, <1>1, <1>5 DEF Covered, Pending
  <2>3. CASE j # k
    <3>1. Covered(j) /\ db'[j] = db[j] /\ (Logged(j, seq) => Logged(j, seq)')
      BY <1>1, <1>3, <1>4, <2>1, <2>3 DEF AllCovered, DbKey
    <3>2. pc = "send" => logs'[seq] = logs[seq]
      BY <1>2, Numbers DEF ClientOK
    <3>3. QED
      BY <1>1, <3>1, <3>2 DEF Covered, Current, Pending
  <2>4. QED
    BY <2>2, <2>3
<1>12. Resumes'
  <2> SUFFICES ASSUME NEW j \in Key \ lost, NEW n \in 0..Len(chan)
               PROVE  Current(n, j)' \/ Logged(j, SeqAt(n))' \/ Uncopied(n, j)'
    BY <1>1 DEF Resumes
  <2>1. SeqAt(n) \in Nat /\ SeqAt(n) =< Len(logs) /\ SeqAt(n)' = SeqAt(n)
    BY <1>1, Numbers, Behind DEF SeqAt
  <2>2. CASE j = k
    BY <2>1, <2>2, <1>5 DEF Logged
  <2>3. CASE j # k
    <3>1. db'[j] = db[j] /\ (Logged(j, SeqAt(n)) => Logged(j, SeqAt(n))')
      BY <1>3, <1>4, <2>1, <2>3 DEF DbKey, Logged
    <3>2. QED
      BY <1>1, <3>1 DEF Resumes, Current, Uncopied
  <2>4. QED
    BY <2>2, <2>3
<1>13. QED
  BY <1>6, <1>7, <1>8, <1>9, <1>10, <1>11, <1>12

-----------------------------------------------------------------------------
(* The master's thread for the slave *)

\* What no step of the client thread changes.
ClientFrame == conn = "up" /\ UNCHANGED <<masterVars, conn, slaveVars, copying>>

\* The same, variable by variable.
LEMMA ClientFrameFacts ==
  ASSUME ClientFrame
  PROVE  /\ conn = "up" /\ conn' = "up" /\ db' = db /\ logs' = logs /\ sdb' = sdb
         /\ mem' = mem /\ saved' = saved /\ spc' = spc /\ copying' = copying
BY DEF ClientFrame, masterVars, slaveVars

\* A step that sends nothing and gives no key another chance.
LEMMA SilentFrame ==
  ASSUME IInv, ClientFrame, chan' = chan, lost \subseteq lost'
  PROVE  LogOK' /\ ChanOK' /\ SavedOK' /\ Resumes'
<1> USE ClientFrameFacts DEF IInv
<1>1. LogOK'
  BY DEF LogOK, Logged
<1>2. ChanOK'
  BY DEF ChanOK, Ordered
<1>3. SavedOK'
  BY DEF SavedOK
<1>4. Resumes'
  BY DEF Resumes, Current, Logged, SeqAt, Uncopied
<1>5. QED
  BY <1>1, <1>2, <1>3, <1>4

\* The thread goes from sync() to copy() or back.
LEMMA TurnStep ==
  ASSUME IInv, TypeOK', ClientFrame, SyncNone \/ CopyPause
  PROVE  IInv'
<1> USE ClientFrameFacts DEF IInv
<1>1. /\ UNCHANGED <<status, seq, key, iter, chan, lost>> /\ pc # "send" /\ pc' # "send"
      /\ pc' = "copy" => status = "COPY"
  BY DEF SyncNone, CopyPause
<1>2. LogOK' /\ ChanOK' /\ SavedOK' /\ Resumes'
  BY <1>1, SilentFrame
<1>3. ClientOK'
  BY <1>1 DEF ClientOK
<1>4. SnapshotOK'
  BY <1>1 DEF SnapshotOK, Logged
<1>5. AllCovered'
  BY <1>1 DEF AllCovered, Covered, Current, Pending, Logged
<1>6. QED
  BY <1>2, <1>3, <1>4, <1>5

\* sync() reads an entry behind all it has dealt with.
LEMMA NextSeqFacts ==
  ASSUME TypeOK, Found
  PROVE  /\ NextSeq \in 1..Len(logs) /\ NextSeq > seq
         /\ \A i \in 1..Len(logs) :
                i > seq => i >= NextSeq \/ (status = "COPY" /\ seq = 0)
BY Numbers DEF Found, NextSeq

\* sync() drops the entry of a key ahead of the copy, which will bring the key.
LEMMA SyncDropStep ==
  ASSUME IInv, TypeOK', ClientFrame, SyncDrop
  PROVE  IInv'
<1> USE ClientFrameFacts DEF IInv
<1>1. /\ UNCHANGED <<pc, status, key, chan>> /\ iter' = NoIter /\ pc = "sync"
      /\ status = "COPY" /\ logs[seq'].key > key
      /\ lost' = lost \cup Skipped({k \in Key : k =< key})
  BY DEF SyncDrop, Ahead
<1>2. /\ seq' \in 1..Len(logs) /\ seq' > seq
      /\ \A i \in 1..Len(logs) : i > seq => i >= seq' \/ seq = 0
  BY NextSeqFacts DEF SyncDrop
<1>3. LogOK' /\ ChanOK' /\ SavedOK' /\ Resumes'
  BY <1>1, SilentFrame
<1>4. ClientOK'
  BY <1>1, <1>2, Numbers DEF ClientOK
<1>5. SnapshotOK'
  BY <1>1 DEF SnapshotOK
<1>6. AllCovered'
  <2> SUFFICES ASSUME NEW k \in Key \ lost' PROVE Covered(k)'
    BY DEF AllCovered
  <2>1. Covered(k) /\ k \in Nat /\ key \in Nat
    BY <1>1, Numbers DEF AllCovered
  <2>2. CASE Current(Len(chan), k) \/ k > key
    BY <1>1, <2>2 DEF Covered, Current
  <2>3. CASE Logged(k, seq) /\ ~(k > key)
    <3>1. PICK i \in 1..Len(logs) : i > seq /\ logs[i].key = k
      BY <2>3, Numbers DEF Logged
    <3>2. seq # 0
      BY <1>1, <2>1, <2>3 DEF Skipped
    <3>3. i > seq'
      BY <1>1, <1>2, <2>1, <2>3, <3>1, <3>2
    <3>4. Logged(k, seq)'
      BY <3>1, <3>3, Numbers DEF Logged
    <3>5. QED
      BY <3>4 DEF Covered, Pending
  <2>4. QED
    BY <1>1, <2>1, <2>2, <2>3 DEF Covered, Pending
<1>7. QED
  BY <1>3, <1>4, <1>5, <1>6

\* sync() takes an entry: it is the one that pc = "send" stands for.
LEMMA SyncTakeStep ==
  ASSUME IInv, TypeOK', ClientFrame, SyncTake
  PROVE  IInv'
<1> USE ClientFrameFacts DEF IInv
<1>1. /\ UNCHANGED <<status, key, iter, chan>> /\ pc = "sync" /\ pc' = "send"
      /\ status = "COPY" => ~(logs[seq'].key > key)
      /\ lost' = lost \cup Skipped(Key)
  BY DEF SyncTake, Ahead
<1>2. /\ seq' \in 1..Len(logs) /\ seq' > seq
      /\ \A i \in 1..Len(logs) : i > seq => i >= seq' \/ (status = "COPY" /\ seq = 0)
  BY NextSeqFacts DEF SyncTake
<1>3. LogOK' /\ ChanOK' /\ SavedOK' /\ Resumes'
  BY <1>1, SilentFrame
<1>4. ClientOK'
  <2>1. logs[seq'].key \in Nat /\ key \in Nat
    BY <1>2, Numbers
  <2>2. status = "COPY" => logs[seq'].key =< key
    BY <1>1, <2>1
  <2>3. /\ mem.seq =< seq' /\ seq' =< Len(logs) /\ mem.seq < seq'
        /\ \A i \in DOMAIN chan : chan[i].seq =< seq' /\ chan[i].seq < seq'
    BY <1>2, Numbers DEF ClientOK
  <2>4. QED
    BY <1>1, <2>2, <2>3 DEF ClientOK
<1>5. ASSUME NEW k \in Key \ lost', Logged(k, seq)
      PROVE  Logged(k, seq)' \/ logs[seq'].key = k
  <2>1. PICK i \in 1..Len(logs) : i > seq /\ logs[i].key = k
    BY <1>5, Numbers DEF Logged
  <2>2. ~(status = "COPY" /\ seq = 0)
    BY <1>1 DEF Skipped
  <2>3. i = seq' \/ i > seq'
    BY <1>2, <2>1, <2>2
  <2>4. QED
    BY <2>1, <2>3, Numbers DEF Logged
<1>6. SnapshotOK'
  BY <1>1, <1>5 DEF SnapshotOK
<1>7. AllCovered'
  BY <1>1, <1>5 DEF AllCovered, Covered, Current, Pending
<1>8. QED
  BY <1>3, <1>4, <1>6, <1>7

\* copy() opens an iterator over the data as they are.
LEMMA CopyOpenStep ==
  ASSUME IInv, TypeOK', ClientFrame, CopyOpen
  PROVE  IInv'
<1> USE ClientFrameFacts DEF IInv
<1>1. UNCHANGED <<pc, status, seq, key, chan, lost>> /\ iter' = db
  BY DEF CopyOpen
<1>2. LogOK' /\ ChanOK' /\ SavedOK' /\ Resumes'
  BY <1>1, SilentFrame
<1>3. ClientOK'
  BY <1>1 DEF ClientOK
<1>4. SnapshotOK'
  BY <1>1 DEF SnapshotOK
<1>5. AllCovered'
  BY <1>1 DEF AllCovered, Covered, Current, Pending, Logged
<1>6. QED
  BY <1>2, <1>3, <1>4, <1>5

\* What holds of the messages on their way holds of them with one more behind.
LEMMA SendFacts ==
  ASSUME IInv, ClientFrame, NEW m \in Message, chan' = Append(chan, m)
  PROVE  /\ Len(chan') = Len(chan) + 1 /\ DOMAIN chan' = 1..(Len(chan) + 1)
         /\ \A i \in 1..Len(chan) : chan'[i] = chan[i]
         /\ chan'[Len(chan) + 1] = m
         /\ LogOK' /\ SavedOK' /\ \A i \in 1..Len(chan) : Ordered(i)'
<1> USE ClientFrameFacts DEF IInv
<1>1. /\ Len(chan') = Len(chan) + 1 /\ DOMAIN chan' = 1..(Len(chan) + 1)
      /\ \A i \in 1..Len(chan) : chan'[i] = chan[i]
      /\ chan'[Len(chan) + 1] = m
  BY AppendFacts DEF TypeOK
<1>2. LogOK'
  BY DEF LogOK, Logged
<1>3. SavedOK'
  BY DEF SavedOK
<1>4. ASSUME NEW i \in 1..Len(chan) PROVE Ordered(i)'
  <2>1. Ordered(i) /\ chan'[i] = chan[i] /\ \A j \in 1..(i-1) : chan'[j] = chan[j]
    BY <1>1, <1>4, Numbers DEF ChanOK
  <2>2. QED
    BY <2>1 DEF Ordered
<1>5. QED
  BY <1>1, <1>2, <1>3, <1>4

\* A message behind the others changes nothing for shorter prefixes, and nothing
\* but its own key for the whole.
LEMMA CurrentSent ==
  ASSUME IInv, ClientFrame, NEW m \in Message, chan' = Append(chan, m), NEW k \in Key
  PROVE  /\ \A n \in 0..Len(chan) : /\ Current(n, k) => Current(n, k)'
                                    /\ SeqAt(n)' = SeqAt(n)
                                    /\ Uncopied(n, k) => Uncopied(n, k)'
         /\ SeqAt(Len(chan))' = m.seq
         /\ m.key # k /\ Current(Len(chan), k) => Current(Len(chan), k)'
         /\ m.key = k /\ m.val = db[k] => Current(Len(chan), k)'
<1> USE ClientFrameFacts DEF IInv
<1>1. /\ Len(chan') = Len(chan) + 1
      /\ \A i \in 1..Len(chan) : chan'[i] = chan[i]
      /\ chan'[Len(chan) + 1] = m
      /\ Len(chan) \in Nat
  BY SendFacts, Numbers
<1>2. ASSUME NEW n \in 0..Len(chan)
      PROVE  /\ Current(n, k) => Current(n, k)'
             /\ SeqAt(n)' = SeqAt(n)
             /\ Uncopied(n, k) => Uncopied(n, k)'
  <2>1. \A i \in 1..n : chan'[i] = chan[i]
    BY <1>1, <1>2
  <2>2. Current(n, k) => Current(n, k)'
    BY <2>1 DEF Current
  <2>3. SeqAt(n)' = SeqAt(n)
    BY <1>1, <1>2 DEF SeqAt
  <2>4. Uncopied(n, k) => Uncopied(n, k)'
    BY <2>1 DEF Uncopied
  <2>5. QED
    BY <2>2, <2>3, <2>4
<1>3. SeqAt(Len(chan))' = m.seq
  BY <1>1 DEF SeqAt
<1>4. ASSUME m.key # k, Current(Len(chan), k) PROVE Current(Len(chan), k)'
  BY <1>1, <1>4 DEF Current
<1>5. ASSUME m.key = k, m.val = db[k] PROVE Current(Len(chan), k)'
  BY <1>1, <1>5 DEF Current
<1>6. QED
  BY <1>2, <1>3, <1>4, <1>5

\* Where the client thread is not sending, its number is good enough for a slave
\* that redoes all that was sent and one SYNC message more.
LEMMA CoveredUncopied ==
  ASSUME IInv, conn = "up", NEW k \in Key, status = "COPY", k > key
  PROVE  Uncopied(Len(chan), k)
<1>1. copying /\ mem.key =< key
      /\ \A i \in 1..Len(chan) : chan[i].cmd # "END" /\ chan[i].key =< key
  BY Numbers DEF IInv, ClientOK
<1>2. k \in Nat /\ key \in Nat /\ mem.key \in Nat
      /\ \A i \in 1..Len(chan) : chan[i].key \in Nat
  BY Numbers DEF IInv
<1>3. k > mem.key /\ \A i \in 1..Len(chan) : chan[i].key < k
  BY <1>1, <1>2
<1>4. QED
  BY <1>1, <1>3 DEF Uncopied

\* sync() sends the present value of the key of an entry: if the entry does not
\* say so, there is a newer one.
LEMMA SendEntryStep ==
  ASSUME IInv, TypeOK', ClientFrame, NEW m \in Message, chan' = Append(chan, m),
         pc = "send", pc' # "send", pc' = "copy" => status = "COPY",
         UNCHANGED <<status, seq, key, iter>>,
         m.type = "SYNC", m.cmd \in {"KSET", "KDEL"}, m.seq = seq, m.key = logs[seq].key,
         m.key \in Key, m.val = db[m.key] \/ Logged(m.key, seq), lost' = lost \ {m.key}
  PROVE  IInv'
<1> USE ClientFrameFacts DEF IInv
<1>1. /\ Len(chan') = Len(chan) + 1 /\ DOMAIN chan' = 1..(Len(chan) + 1)
      /\ \A i \in 1..Len(chan) : chan'[i] = chan[i]
      /\ chan'[Len(chan) + 1] = m
      /\ LogOK' /\ SavedOK' /\ \A i \in 1..Len(chan) : Ordered(i)'
  BY SendFacts
<1>2. /\ Len(chan) \in Nat /\ DOMAIN chan = 1..Len(chan) /\ seq \in Nat /\ mem.seq \in Nat
      /\ m.key # 0 /\ m.key \in Nat /\ key \in Nat /\ Key \subseteq Nat
      /\ DOMAIN logs = 1..Len(logs)
  BY Numbers
<1>3. /\ mem.seq < seq /\ seq =< Len(logs)
      /\ \A i \in 1..Len(chan) : chan[i].seq < seq
      /\ status = "COPY" => m.key =< key
  BY <1>2 DEF ClientOK
<1>4. ChanOK'
  <2>1. ASSUME NEW i \in Nat, i = Len(chan) + 1 PROVE Ordered(i)'
    <3>1. \A j \in 1..Len(chan) : chan'[j].seq < seq /\ chan'[j].seq =< seq
      BY <1>1, <1>3, Numbers
    <3>2. i - 1 = Len(chan) /\ mem.seq =< seq /\ seq # 0
      BY <1>2, <1>3, <2>1
    <3>3. QED
      BY <1>1, <1>2, <1>3, <2>1, <3>1, <3>2 DEF Ordered
  <2>2. QED
    BY <1>1, <1>2, <2>1 DEF ChanOK
<1>5. ClientOK'
  <2> SUFFICES /\ mem.seq =< seq /\ seq =< Len(logs)
               /\ \A i \in DOMAIN chan' : chan'[i].seq =< seq
               /\ status = "COPY" =>
                    /\ copying /\ mem.key =< key
                    /\ \A i \in DOMAIN chan' : chan'[i].cmd # "END" /\ chan'[i].key =< key
    BY DEF ClientOK
  <2>1. ASSUME NEW i \in DOMAIN chan'
        PROVE  /\ chan'[i].seq =< seq
               /\ status = "COPY" => chan'[i].cmd # "END" /\ chan'[i].key =< key
    <3>1. CASE i = Len(chan) + 1
      BY <1>1, <1>2, <1>3, <3>1
    <3>2. CASE i \in DOMAIN chan
      BY <1>1, <1>2, <3>2 DEF ClientOK
    <3>3. QED
      BY <1>1, <1>2, <3>1, <3>2
  <2>2. QED
    BY <2>1 DEF ClientOK
<1>6. SnapshotOK'
  <2> SUFFICES ASSUME status = "COPY", NEW k \in Key \ lost', k > key
               PROVE  /\ iter # NoIter => iter[k] = db[k] \/ Logged(k, seq)
                      /\ sdb[k] = NoVal /\ \A i \in DOMAIN chan' : chan'[i].key # k
    BY DEF SnapshotOK, Logged
  <2>1. k # m.key /\ k \notin lost
    BY <1>2, <1>3
  <2>2. QED
    BY <1>1, <1>2, <2>1 DEF SnapshotOK
<1>7. ASSUME NEW k \in Key \ lost'
      PROVE  Current(Len(chan), k)' \/ Logged(k, seq) \/ (status = "COPY" /\ k > key)
  <2>1. CASE k = m.key
    BY <2>1, CurrentSent
  <2>2. CASE k # m.key
    BY <2>2, CurrentSent DEF AllCovered, Covered, Pending
  <2>3. QED
    BY <2>1, <2>2
<1>8. AllCovered'
  BY <1>7 DEF AllCovered, Covered, Pending, Logged
<1>9. Resumes'
  <2> SUFFICES ASSUME NEW k \in Key \ lost', NEW n \in 0..Len(chan')
               PROVE  Current(n, k)' \/ Logged(k, SeqAt(n))' \/ Uncopied(n, k)'
    BY DEF Resumes
  <2>1. CASE n = Len(chan')
    <3>1. SeqAt(n)' = seq /\ n = Len(chan) + 1
      BY <1>1, <2>1 DEF SeqAt
    <3>2. CASE status = "COPY" /\ k > key
      BY <1>1, <3>1, <3>2, CoveredUncopied DEF Uncopied
    <3>3. QED
      BY <1>7, <2>1, <3>1, <3>2 DEF Logged
  <2>2. CASE n \in 0..Len(chan)
    <3>1. SeqAt(n)' = SeqAt(n) /\ SeqAt(n) < seq
      BY <1>2, <1>3, <2>2, CurrentSent DEF SeqAt
    <3>2. CASE k = m.key
      BY <1>2, <1>3, <3>1, <3>2 DEF Logged
    <3>3. CASE k # m.key
      BY <2>2, <3>1, <3>3, CurrentSent DEF Resumes, Logged
    <3>4. QED
      BY <3>2, <3>3
  <2>3. QED
    BY <1>1, <1>2, <2>1, <2>2
<1>10. QED
  BY <1>1, <1>4, <1>5, <1>6, <1>8, <1>9

\* sync() sends the entry it has taken, or has nothing to send for it.
LEMMA SyncSendStep ==
  ASSUME IInv, TypeOK', ClientFrame, SyncSend
  PROVE  IInv'
<1> USE ClientFrameFacts DEF IInv
<1> DEFINE e == logs[seq]
<1>1. /\ UNCHANGED <<status, seq, key, iter>> /\ pc = "send" /\ pc' # "send"
      /\ pc' = "copy" => status = "COPY"
      /\ Forward(e)
  BY DEF SyncSend, AfterSync
<1>2. seq \in DOMAIN logs /\ e \in Entry /\ seq \in Nat
  BY <1>1, Numbers DEF ClientOK
<1>3. /\ e.cmd \in {"KSET", "KDEL", "HSET"}
      /\ e.cmd = "HSET" <=> e.key = HashKey
      /\ e.key \in DbKey
      /\ e.cmd = "KSET" /\ db[e.key] = NoVal => Logged(e.key, seq)
      /\ e.cmd = "KDEL" /\ db[e.key] # NoVal => Logged(e.key, seq)
  BY <1>2 DEF LogOK, Entry
<1> HIDE DEF e
<1>4. ASSUME NEW c \in {"KSET", "KDEL"}, NEW v \in Value \cup {NoVal}, e.cmd = c,
             chan' = Append(chan, Msg("SYNC", c, e.key, v)), lost' = lost \ {e.key},
             v = db[e.key] \/ Logged(e.key, seq)
      PROVE  IInv'
  <2> DEFINE m == Msg("SYNC", c, e.key, v)
  <2>1. e.key \in Key
    BY <1>3, <1>4 DEF DbKey
  <2>2. /\ m \in Message /\ m.type = "SYNC" /\ m.cmd = c /\ m.seq = seq /\ m.key = e.key
        /\ m.val = v
    BY <1>2, <2>1 DEF Msg, Message
  <2>3. chan' = Append(chan, m)
    BY <1>4
  <2> HIDE DEF m
  <2>4. QED
    BY <1>1, <1>4, <2>1, <2>2, <2>3, SendEntryStep DEF e
<1>5. ASSUME UNCHANGED <<chan, lost>>,
             e.cmd = "HSET" \/ (e.cmd = "KSET" /\ db[e.key] = NoVal)
      PROVE  IInv'
  <2>1. LogOK' /\ ChanOK' /\ SavedOK' /\ Resumes'
    BY <1>5, SilentFrame
  <2>2. ClientOK'
    BY <1>1, <1>5 DEF ClientOK
  <2>3. SnapshotOK'
    BY <1>1, <1>5 DEF SnapshotOK, Logged
  <2>4. \A k \in Key : Pending(k) => Logged(k, seq)
    BY <1>3, <1>5, Numbers DEF Pending, e
  <2>5. AllCovered'
    BY <1>1, <1>5, <2>4 DEF AllCovered, Covered, Current, Pending, Logged
  <2>6. QED
    BY <2>1, <2>2, <2>3, <2>5
<1>6. db[e.key] \in Value \cup {NoVal}
  BY <1>3 DEF TypeOK
<1>7. QED
  BY <1>1, <1>3, <1>4, <1>5, <1>6 DEF Forward, Send

\* An entry whose value could not be read is passed over: its key is given up
\* unless a later entry names it.
LEMMA ReadFailsStep ==
  ASSUME IInv, TypeOK', ClientFrame, ReadFails
  PROVE  IInv'
<1> USE ClientFrameFacts DEF IInv
<1>1. /\ UNCHANGED <<status, seq, key, iter, chan>> /\ pc = "send" /\ pc' # "send"
      /\ pc' = "copy" => status = "COPY"
      /\ lost \subseteq lost'
      /\ logs[seq].key \in lost' \/ Logged(logs[seq].key, seq)
  BY DEF ReadFails, AfterSync
<1>2. LogOK' /\ ChanOK' /\ SavedOK' /\ Resumes'
  BY <1>1, SilentFrame
<1>3. ClientOK'
  BY <1>1 DEF ClientOK
<1>4. SnapshotOK'
  BY <1>1 DEF SnapshotOK, Logged
<1>5. \A k \in Key \ lost' : Pending(k) => Logged(k, seq)
  BY <1>1 DEF Pending
<1>6. AllCovered'
  BY <1>1, <1>5 DEF AllCovered, Covered, Current, Pending, Logged
<1>7. QED
  BY <1>2, <1>3, <1>4, <1>6

\* A key that the iterator passes over is one that the slave does not have, and
\* the master had not when the iterator was opened.
LEMMA Passed ==
  ASSUME IInv, conn = "up", pc = "copy", iter # NoIter, NEW k \in Key \ lost,
         k > key, k \notin ToVisit
  PROVE  Current(Len(chan), k) \/ Logged(k, seq)
<1>1. iter[k] = NoVal
  BY DEF ToVisit, DbKey
<1>2. /\ iter[k] = db[k] \/ Logged(k, seq)
      /\ sdb[k] = NoVal /\ \A i \in 1..Len(chan) : chan[i].key # k
  BY Numbers DEF IInv, ClientOK, SnapshotOK
<1>3. QED
  BY <1>1, <1>2 DEF Current

\* copy() visits the hash key, for which it sends nothing.
LEMMA CopyHashStep ==
  ASSUME IInv, TypeOK', ClientFrame, pc = "copy", iter # NoIter,
         UNCHANGED <<pc, status, seq, iter, chan, lost>>,
         key' = HashKey, HashKey \in ToVisit, \A j \in ToVisit : HashKey =< j
  PROVE  IInv'
<1> USE ClientFrameFacts DEF IInv
<1>1. status = "COPY" /\ key < key' /\ key \in Nat /\ key' \in Nat /\ Key \subseteq Nat
  BY Numbers DEF ClientOK, ToVisit
<1>2. LogOK' /\ ChanOK' /\ SavedOK' /\ Resumes'
  BY SilentFrame
<1>3. ClientOK'
  <2>1. mem.key =< key' /\ \A i \in DOMAIN chan : chan[i].cmd # "END" /\ chan[i].key =< key'
    BY <1>1, Numbers DEF ClientOK
  <2>2. QED
    BY <1>1, <2>1 DEF ClientOK
<1>4. SnapshotOK'
  BY <1>1 DEF SnapshotOK, Logged
<1>5. AllCovered'
  <2> SUFFICES ASSUME NEW k \in Key \ lost PROVE Covered(k)'
    BY DEF AllCovered
  <2>1. CASE k > key /\ ~(k > key')
    <3>1. k \notin ToVisit
      BY <1>1, <2>1, Numbers
    <3>2. QED
      BY <2>1, <3>1, Passed DEF Covered, Pending, Current, Logged
  <2>2. CASE ~(k > key) \/ k > key'
    BY <1>1, <2>2 DEF AllCovered, Covered, Pending, Current, Logged
  <2>3. QED
    BY <2>1, <2>2
<1>6. QED
  BY <1>2, <1>3, <1>4, <1>5

\* copy() sends what the snapshot has for the next key.
LEMMA CopyKeyStep ==
  ASSUME IInv, TypeOK', ClientFrame, pc = "copy", iter # NoIter,
         UNCHANGED <<pc, status, seq, iter>>,
         NEW k \in Key, k \in ToVisit, \A j \in ToVisit : k =< j, key' = k,
         NEW m \in Message, chan' = Append(chan, m),
         m.type = "COPY", m.cmd = "KSET", m.seq = seq, m.key = k, m.val = iter[k],
         lost' = lost \ {j \in {k} : iter[j] = db[j] \/ Logged(j, seq)}
  PROVE  IInv'
<1> USE ClientFrameFacts DEF IInv
<1>1. /\ Len(chan') = Len(chan) + 1 /\ DOMAIN chan' = 1..(Len(chan) + 1)
      /\ \A i \in 1..Len(chan) : chan'[i] = chan[i]
      /\ chan'[Len(chan) + 1] = m
      /\ LogOK' /\ SavedOK' /\ \A i \in 1..Len(chan) : Ordered(i)'
  BY SendFacts
<1>2. /\ Len(chan) \in Nat /\ DOMAIN chan = 1..Len(chan) /\ seq \in Nat /\ mem.seq \in Nat
      /\ k # 0 /\ k \in Nat /\ key \in Nat /\ Key \subseteq Nat /\ mem.key \in Nat
      /\ \A i \in 1..Len(chan) : chan[i].key \in Nat
  BY Numbers
<1>3. /\ status = "COPY" /\ copying /\ mem.key =< key /\ key < k
      /\ mem.seq =< seq /\ seq =< Len(logs)
      /\ \A i \in 1..Len(chan) : chan[i].cmd # "END" /\ chan[i].key =< key /\ chan[i].seq =< seq
  BY <1>2 DEF ClientOK, ToVisit
<1>4. mem.key < k /\ \A i \in 1..Len(chan) : chan[i].key < k /\ chan[i].key =< k
  BY <1>2, <1>3
<1>5. ChanOK'
  <2>1. ASSUME NEW i \in Nat, i = Len(chan) + 1 PROVE Ordered(i)'
    <3>1. \A j \in 1..(i-1) : chan'[j].seq =< seq /\ chan'[j].cmd # "END" /\ chan'[j].key < k
      BY <1>1, <1>2, <1>3, <1>4, <2>1
    <3>2. QED
      BY <1>1, <1>2, <1>3, <1>4, <2>1, <3>1 DEF Ordered
  <2>2. QED
    BY <1>1, <1>2, <2>1 DEF ChanOK
<1>6. ClientOK'
  <2>1. ASSUME NEW i \in DOMAIN chan'
        PROVE  chan'[i].seq =< seq /\ chan'[i].cmd # "END" /\ chan'[i].key =< k
    BY <1>1, <1>2, <1>3, <1>4
  <2>2. mem.key =< k
    BY <1>2, <1>4
  <2>3. QED
    BY <1>3, <2>1, <2>2 DEF ClientOK
<1>7. SnapshotOK'
  <2> SUFFICES ASSUME NEW j \in Key \ lost', j > k
               PROVE  /\ iter[j] = db[j] \/ Logged(j, seq)
                      /\ sdb[j] = NoVal /\ \A i \in DOMAIN chan' : chan'[i].key # j
    BY DEF SnapshotOK, Logged
  <2>1. j # k /\ j > key /\ j \notin lost
    BY <1>2, <1>3
  <2>2. /\ iter[j] = db[j] \/ Logged(j, seq)
        /\ sdb[j] = NoVal /\ \A i \in DOMAIN chan : chan[i].key # j
    BY <1>3, <2>1 DEF SnapshotOK
  <2>3. \A i \in DOMAIN chan' : i \in DOMAIN chan \/ i = Len(chan) + 1
    BY <1>1, <1>2
  <2>4. QED
    BY <1>1, <1>2, <2>1, <2>2, <2>3
<1>8. ASSUME NEW j \in Key \ lost'
      PROVE  Current(Len(chan), j)' \/ Logged(j, seq) \/ j > k
  <2>1. CASE j = k
    <3>1. iter[k] = db[k] \/ Logged(k, seq)
      BY <1>3, <2>1 DEF SnapshotOK
    <3>2. QED
      BY <2>1, <3>1, CurrentSent
  <2>2. CASE j # k /\ ~(j > k)
    <3>1. Current(Len(chan), j) \/ Logged(j, seq)
      <4>1. CASE j > key
        <5>1. j \notin ToVisit
          BY <1>2, <2>2
        <5>2. QED
          BY <2>2, <4>1, <5>1, Passed
      <4>2. CASE ~(j > key)
        BY <2>2, <4>2 DEF AllCovered, Covered, Pending
      <4>3. QED
        BY <4>1, <4>2
    <3>2. QED
      BY <2>2, <3>1, CurrentSent
  <2>3. QED
    BY <2>1, <2>2
<1>9. AllCovered'
  BY <1>3, <1>8 DEF AllCovered, Covered, Pending, Logged
<1>10. Resumes'
  <2> SUFFICES ASSUME NEW j \in Key \ lost', NEW n \in 0..Len(chan')
               PROVE  Current(n, j)' \/ Logged(j, SeqAt(n))' \/ Uncopied(n, j)'
    BY DEF Resumes
  <2>1. CASE n = Len(chan')
    <3>1. SeqAt(n)' = seq /\ n = Len(chan) + 1
      BY <1>1, <2>1 DEF SeqAt
    <3>2. CASE j > k
      <4>1. mem.key < j /\ \A i \in 1..n : chan'[i].cmd # "END" /\ chan'[i].key < j
        BY <1>1, <1>2, <1>3, <1>4, <3>1, <3>2
      <4>2. QED
        BY <1>3, <4>1 DEF Uncopied
    <3>3. QED
      BY <1>8, <2>1, <3>1, <3>2 DEF Logged
  <2>2. CASE n \in 0..Len(chan)
    <3>1. CASE j = k
      <4>1. Uncopied(n, j)
        BY <1>2, <1>3, <1>4, <2>2, <3>1 DEF Uncopied
      <4>2. QED
        BY <2>2, <4>1, CurrentSent
    <3>2. CASE j # k
      BY <2>2, <3>2, CurrentSent DEF Resumes, Logged
    <3>3. QED
      BY <3>1, <3>2
  <2>3. QED
    BY <1>1, <1>2, <2>1, <2>2
<1>11. QED
  BY <1>1, <1>5, <1>6, <1>7, <1>9, <1>10

\* copy() visits the next key.
LEMMA CopyItemStep ==
  ASSUME IInv, TypeOK', ClientFrame, CopyItem
  PROVE  IInv'
<1>1. pc = "copy" /\ iter # NoIter /\ UNCHANGED <<pc, status, seq, iter>>
  BY DEF CopyItem
<1>2. PICK k \in ToVisit :
          /\ \A j \in ToVisit : k =< j
          /\ key' = k
          /\ IF k = HashKey
               THEN UNCHANGED <<chan, lost>>
               ELSE /\ Send(Msg("COPY", "KSET", k, iter[k]))
                    /\ lost' = lost \ {j \in {k} : iter[j] = db[j] \/ Logged(j, seq)}
  BY DEF CopyItem
<1>3. CASE k = HashKey
  BY <1>1, <1>2, <1>3, CopyHashStep
<1>4. CASE k # HashKey
  <2> DEFINE m == Msg("COPY", "KSET", k, iter[k])
  <2>1. k \in Key
    BY <1>4 DEF ToVisit, DbKey
  <2>2. iter[k] \in Value \cup {NoVal} /\ seq \in Nat
    BY <1>1, <2>1 DEF IInv, TypeOK, DbKey
  <2>3. /\ m \in Message /\ m.type = "COPY" /\ m.cmd = "KSET" /\ m.seq = seq /\ m.key = k
        /\ m.val = iter[k]
    BY <2>1, <2>2 DEF Msg, Message
  <2>4. /\ chan' = Append(chan, m)
        /\ lost' = lost \ {j \in {k} : iter[j] = db[j] \/ Logged(j, seq)}
    BY <1>2, <1>4 DEF Send
  <2> HIDE DEF m
  <2>5. QED
    BY <1>1, <1>2, <2>1, <2>3, <2>4, CopyKeyStep
<1>5. QED
  BY <1>3, <1>4

\* copy() comes to an end: every key has been sent or passed over, or is given up
\* with the iterator that failed.
LEMMA CopyEndStep ==
  ASSUME IInv, TypeOK', ClientFrame, EndCopy
  PROVE  IInv'
<1> USE ClientFrameFacts DEF IInv
<1> DEFINE m == Msg("COPY", "END", 0, NoVal)
<1>0. /\ m \in Message /\ m.type = "COPY" /\ m.cmd = "END" /\ m.seq = seq /\ m.key = 0
  BY DEF Msg, Message, TypeOK
<1>1. /\ pc = "copy" /\ iter # NoIter /\ status' = "SYNC" /\ pc' = "sync"
      /\ UNCHANGED <<seq, key>> /\ chan' = Append(chan, m)
      /\ lost \subseteq lost'
      /\ \A k \in ToVisit \ {HashKey} : k \in lost' \/ Logged(k, seq)
  BY DEF EndCopy, Send
<1> HIDE DEF m
<1>2. /\ Len(chan') = Len(chan) + 1 /\ DOMAIN chan' = 1..(Len(chan) + 1)
      /\ \A i \in 1..Len(chan) : chan'[i] = chan[i]
      /\ chan'[Len(chan) + 1] = m
      /\ LogOK' /\ SavedOK' /\ \A i \in 1..Len(chan) : Ordered(i)'
  BY <1>0, <1>1, SendFacts
<1>3. /\ Len(chan) \in Nat /\ DOMAIN chan = 1..Len(chan) /\ seq \in Nat
      /\ mem.seq =< seq /\ seq =< Len(logs)
      /\ \A i \in 1..Len(chan) : chan[i].seq =< seq
  BY Numbers DEF ClientOK
<1>4. ChanOK'
  <2>1. ASSUME NEW i \in Nat, i = Len(chan) + 1 PROVE Ordered(i)'
    <3>1. \A j \in 1..(i-1) : chan'[j].seq =< seq
      BY <1>2, <1>3, <2>1
    <3>2. QED
      BY <1>0, <1>2, <1>3, <2>1, <3>1 DEF Ordered
  <2>2. QED
    BY <1>2, <1>3, <2>1 DEF ChanOK
<1>5. ClientOK'
  <2>1. \A i \in DOMAIN chan' : chan'[i].seq =< seq
    BY <1>0, <1>2, <1>3
  <2>2. QED
    BY <1>1, <1>3, <2>1 DEF ClientOK
<1>6. SnapshotOK'
  BY <1>1 DEF SnapshotOK
<1>7. ASSUME NEW j \in Key \ lost'
      PROVE  Current(Len(chan), j)' \/ Logged(j, seq)
  <2>0. j \notin lost /\ j # HashKey
    BY <1>1, Numbers
  <2>1. Current(Len(chan), j) \/ Logged(j, seq)
    BY <1>1, <2>0, Passed DEF AllCovered, Covered, Pending
  <2>2. m.key # j
    BY <1>0, Numbers
  <2>3. QED
    BY <1>0, <1>1, <2>1, <2>2, CurrentSent
<1>8. AllCovered'
  BY <1>1, <1>7 DEF AllCovered, Covered, Pending, Logged
<1>9. Resumes'
  <2> SUFFICES ASSUME NEW j \in Key \ lost', NEW n \in 0..Len(chan')
               PROVE  Current(n, j)' \/ Logged(j, SeqAt(n))' \/ Uncopied(n, j)'
    BY <1>1 DEF Resumes
  <2>1. CASE n = Len(chan')
    <3>1. SeqAt(n)' = seq
      BY <1>0, <1>2, <1>3, <2>1 DEF SeqAt
    <3>2. QED
      BY <1>7, <2>1, <3>1 DEF Logged
  <2>2. CASE n \in 0..Len(chan)
    BY <1>0, <1>1, <2>2, CurrentSent DEF Resumes, Logged
  <2>3. QED
    BY <1>2, <1>3, <2>1, <2>2
<1>10. QED
  BY <1>2, <1>4, <1>5, <1>6, <1>8, <1>9

-----------------------------------------------------------------------------
(* The slave *)

\* Once the first message has been dealt with, a key has the value it would have
\* had with one message more, unless its redo failed and no other follows.
LEMMA CurrentTaken ==
  ASSUME TypeOK, chan # <<>>, chan' = Tail(chan), db' = db,
         NEW k \in Key, NEW n \in 0..(Len(chan) - 1),
         k # chan[1].key => sdb'[k] = sdb[k],
         \/ k # chan[1].key \/ sdb'[k] = chan[1].val
         \/ \E i \in 2..(n + 1) : chan[i].key = k,
         Current(n + 1, k)
  PROVE  Current(n, k)'
<1>1. /\ Len(chan) \in Nat /\ Len(chan) >= 1
      /\ \A i \in 1..(Len(chan) - 1) : chan'[i] = chan[i + 1]
  BY TailFacts DEF TypeOK
<1>2. \A i \in 1..n : chan'[i] = chan[i + 1]
  BY <1>1
<1>3. ASSUME NEW i \in 2..(n + 1), chan[i].key = k, chan[i].val = db[k],
             \A j \in (i+1)..(n+1) : chan[j].key # k
      PROVE  Current(n, k)'
  <2>1. i - 1 \in 1..n /\ chan'[i - 1] = chan[i]
    <3>1. i - 1 \in 1..n /\ (i - 1) + 1 = i
      OBVIOUS
    <3>2. QED
      BY <1>2, <3>1
  <2>2. \A j \in ((i-1)+1)..n : chan'[j].key # k
    BY <1>2, <1>3
  <2>3. QED
    BY <1>3, <2>1, <2>2 DEF Current
<1>4. ASSUME \A j \in 2..(n + 1) : chan[j].key # k, sdb'[k] = db[k]
      PROVE  Current(n, k)'
  <2>1. \A j \in 1..n : chan'[j].key # k
    BY <1>2, <1>4
  <2>2. QED
    BY <1>4, <2>1 DEF Current
<1>5. CASE \E i \in 1..(n+1) : /\ chan[i].key = k /\ chan[i].val = db[k]
                               /\ \A j \in (i+1)..(n+1) : chan[j].key # k
  <2>1. PICK i \in 1..(n+1) : /\ chan[i].key = k /\ chan[i].val = db[k]
                              /\ \A j \in (i+1)..(n+1) : chan[j].key # k
    BY <1>5
  <2>2. CASE i = 1
    <3>1. \A j \in 2..(n+1) : chan[j].key # k
      BY <2>1, <2>2
    <3>2. QED
      BY <1>4, <2>1, <2>2, <3>1
  <2>3. CASE i \in 2..(n+1)
    BY <1>3, <2>1, <2>3
  <2>4. QED
    BY <2>2, <2>3
<1>6. CASE sdb[k] = db[k] /\ \A j \in 1..(n+1) : chan[j].key # k
  <2>1. chan[1].key # k /\ \A j \in 2..(n+1) : chan[j].key # k
    BY <1>6
  <2>2. QED
    BY <1>4, <1>6, <2>1
<1>7. QED
  BY <1>5, <1>6 DEF Current

\* The slave deals with a message: it has redone it or passes over it.
LEMMA TakenStep ==
  ASSUME IInv, TypeOK', chan # <<>>, chan' = Tail(chan),
         UNCHANGED <<masterVars, conn, clientVars, saved>>, lost \subseteq lost',
         mem'.seq = mem.seq \/ mem'.seq = chan[1].seq,
         copying' => copying /\ chan[1].cmd # "END",
         copying /\ chan[1].cmd # "END" => copying',
         copying' => \/ mem'.key = mem.key
                     \/ chan[1].type = "COPY" /\ mem'.key = chan[1].key /\ chan[1].key # 0,
         chan[1].type = "COPY" /\ chan[1].key # 0 => mem'.key = chan[1].key \/ mem'.key = mem.key,
         \A k \in Key : k # chan[1].key => sdb'[k] = sdb[k],
         \A k \in Key \ lost' : \/ k # chan[1].key \/ sdb'[k] = chan[1].val
                                \/ \E i \in 2..Len(chan) : chan[i].key = k
  PROVE  IInv'
<1> USE DEF IInv
<1>1. /\ db' = db /\ logs' = logs /\ conn' = conn /\ pc' = pc /\ status' = status
      /\ seq' = seq /\ key' = key /\ iter' = iter /\ saved' = saved
  BY DEF masterVars, clientVars
<1>2. /\ Len(chan) \in Nat /\ Len(chan) >= 1 /\ DOMAIN chan = 1..Len(chan)
      /\ Len(chan') = Len(chan) - 1 /\ DOMAIN chan' = 1..(Len(chan) - 1)
      /\ \A i \in 1..(Len(chan) - 1) : chan'[i] = chan[i + 1]
  BY TailFacts DEF TypeOK
<1>3. Ordered(1)
  BY <1>2 DEF ChanOK
<1>4. /\ mem.seq \in Nat /\ mem'.seq \in Nat /\ mem.key \in Nat /\ Len(logs) \in Nat
      /\ seq \in Nat /\ key \in Nat /\ saved.seq \in Nat /\ saved.key \in Nat
      /\ DOMAIN logs = 1..Len(logs) /\ Key \subseteq Nat \ {0}
      /\ \A i \in 1..Len(chan) : chan[i].seq \in Nat /\ chan[i].key \in Nat
  BY <1>2, Numbers
<1>5. mem.seq =< mem'.seq /\ mem'.seq =< chan[1].seq
  BY <1>3, <1>4 DEF Ordered
<1>6. LogOK'
  BY <1>1 DEF LogOK, Logged
<1>7. ChanOK'
  <2> SUFFICES ASSUME NEW i \in 1..(Len(chan) - 1) PROVE Ordered(i)'
    BY <1>2 DEF ChanOK
  <2>1. /\ Ordered(i + 1) /\ chan'[i] = chan[i + 1] /\ i + 1 \in 1..Len(chan)
        /\ \A j \in 1..(i-1) : chan'[j] = chan[j + 1] /\ j + 1 \in 1..((i+1)-1)
        /\ 1 \in 1..((i+1)-1) /\ 1 \in 1..Len(chan)
    BY <1>2 DEF ChanOK
  <2>2. mem'.seq =< chan[i+1].seq
    BY <1>4, <1>5, <2>1 DEF Ordered
  <2>3. ASSUME chan[i+1].type = "SYNC"
        PROVE  mem'.seq < chan[i+1].seq
    BY <1>4, <1>5, <2>1, <2>3 DEF Ordered
  <2>4. ASSUME chan[i+1].type = "COPY", chan[i+1].key # 0
        PROVE  copying' /\ mem'.key < chan[i+1].key
    <3>1. /\ copying /\ mem.key < chan[i+1].key
          /\ chan[1].type = "COPY" => chan[1].cmd # "END" /\ chan[1].key < chan[i+1].key
      BY <2>1, <2>4 DEF Ordered
    <3>2. chan[1].cmd # "END"
      <4>1. chan[1] \in Message
        BY <2>1, Numbers
      <4>2. chan[1].type \in {"COPY", "SYNC"}
        BY <4>1 DEF Message
      <4>3. QED
        BY <1>3, <3>1, <4>2 DEF Ordered
    <3>3. QED
      BY <3>1, <3>2
  <2>5. QED
    BY <1>1, <2>1, <2>2, <2>3, <2>4 DEF Ordered
<1>8. ClientOK'
  <2> SUFFICES ASSUME conn = "up" PROVE ClientOK'
    BY <1>1 DEF ClientOK
  <2>1. 1 \in DOMAIN chan /\ \A i \in DOMAIN chan' : i + 1 \in DOMAIN chan /\ chan'[i] = chan[i+1]
    BY <1>2
  <2>2. mem'.seq =< seq /\ (pc = "send" => mem'.seq < seq)
    BY <1>4, <1>5, <2>1, <1>2 DEF ClientOK
  <2>3. ASSUME status = "COPY" PROVE copying' /\ mem'.key =< key
    BY <2>1, <2>3 DEF ClientOK
  <2>4. QED
    BY <1>1, <2>1, <2>2, <2>3 DEF ClientOK
<1>9. SavedOK'
  <2>1. saved.seq =< mem'.seq /\ mem'.seq =< Len(logs)
    BY <1>3, <1>4, <1>5 DEF SavedOK, Ordered
  <2>2. ASSUME copying' PROVE saved.key =< mem'.key
    BY <1>3, <1>4, <2>2, <1>2 DEF SavedOK, Ordered
  <2>3. conn # "none"
    BY DEF SavedOK
  <2>4. QED
    BY <1>1, <2>1, <2>2, <2>3 DEF SavedOK
<1>10. SnapshotOK'
  <2> SUFFICES ASSUME conn = "up", status = "COPY", NEW k \in Key \ lost', k > key
               PROVE  /\ iter # NoIter => iter[k] = db[k] \/ Logged(k, seq)
                      /\ sdb'[k] = NoVal /\ \A i \in DOMAIN chan' : chan'[i].key # k
    BY <1>1 DEF SnapshotOK, Logged
  <2>1. /\ iter # NoIter => iter[k] = db[k] \/ Logged(k, seq)
        /\ sdb[k] = NoVal /\ \A i \in DOMAIN chan : chan[i].key # k
    BY DEF SnapshotOK
  <2>2. 1 \in DOMAIN chan /\ \A i \in DOMAIN chan' : i + 1 \in DOMAIN chan /\ chan'[i] = chan[i+1]
    BY <1>2
  <2>3. QED
    BY <2>1, <2>2
<1>11. AllCovered'
  <2> SUFFICES ASSUME conn = "up", NEW k \in Key \ lost' PROVE Covered(k)'
    BY <1>1 DEF AllCovered
  <2>1. Covered(k)
    BY DEF AllCovered
  <2>2. ASSUME Current(Len(chan), k) PROVE Current(Len(chan), k)'
    <3>1. Len(chan) - 1 \in 0..(Len(chan) - 1) /\ (Len(chan) - 1) + 1 = Len(chan)
      BY <1>2
    <3>2. Current((Len(chan) - 1) + 1, k)
      BY <2>2, <3>1
    <3>3. ASSUME NEW n \in 0..(Len(chan) - 1), n = Len(chan) - 1 PROVE Current(n, k)'
      <4>1. Current(n + 1, k) /\ n + 1 = Len(chan)
        BY <3>1, <3>2, <3>3
      <4>2. QED
        BY <1>1, <4>1, CurrentTaken
    <3>4. QED
      BY <1>2, <3>1, <3>3
  <2>3. QED
    BY <1>1, <2>1, <2>2 DEF Covered, Pending, Logged
<1>12. Resumes'
  <2> SUFFICES ASSUME NEW k \in Key \ lost', NEW n \in 0..(Len(chan) - 1)
               PROVE  Current(n, k)' \/ Logged(k, SeqAt(n))' \/ Uncopied(n, k)'
    BY <1>2 DEF Resumes
  <2>1. /\ n + 1 \in 1..Len(chan) /\ n + 1 # 0 /\ n + 1 \in 0..Len(chan) /\ 1 \in 1..(n+1)
        /\ \A i \in 1..n : chan'[i] = chan[i + 1] /\ i + 1 \in 1..(n+1)
        /\ 1 \in 1..Len(chan)
    BY <1>2
  <2>2. SeqAt(n)' \in Nat /\ SeqAt(n)' =< chan[n + 1].seq /\ SeqAt(n + 1) = chan[n + 1].seq
    <3>1. CASE n = 0
      BY <1>4, <1>5, <2>1, <3>1 DEF SeqAt
    <3>2. CASE n # 0
      <4>1. n \in 1..n
        BY <3>2
      <4>2. QED
        BY <1>4, <2>1, <3>2, <4>1 DEF SeqAt
    <3>3. QED
      BY <3>1, <3>2
  <2>3. ASSUME Logged(k, SeqAt(n + 1)) PROVE Logged(k, SeqAt(n))'
    <3>1. PICK i \in DOMAIN logs : i > chan[n + 1].seq /\ logs[i].key = k
      BY <2>2, <2>3 DEF Logged
    <3>2. i \in Nat /\ i > SeqAt(n)'
      <4>1. chan[n + 1].seq \in Nat /\ i \in Nat
        BY <1>4, <2>1
      <4>2. QED
        BY <2>2, <3>1, <4>1
    <3>3. QED
      BY <1>1, <3>1, <3>2 DEF Logged
  <2>4. ASSUME Uncopied(n + 1, k) PROVE Uncopied(n, k)'
    <3>1. /\ copying /\ k > mem.key
          /\ chan[1].type = "COPY" => chan[1].cmd # "END" /\ chan[1].key < k
          /\ \A i \in 1..n : chan'[i].type = "COPY" => chan'[i].cmd # "END" /\ chan'[i].key < k
      BY <2>1, <2>4 DEF Uncopied
    <3>2. chan[1].cmd # "END"
      <4>1. chan[1] \in Message
        BY <2>1, Numbers
      <4>2. chan[1].type \in {"COPY", "SYNC"}
        BY <4>1 DEF Message
      <4>3. QED
        BY <1>3, <3>1, <4>2 DEF Ordered
    <3>3. k > mem'.key
      BY <1>4, <2>1, <3>1, <3>2, Numbers
    <3>4. QED
      BY <3>1, <3>2, <3>3 DEF Uncopied
  <2>5. CASE \/ k # chan[1].key \/ sdb'[k] = chan[1].val
             \/ \E i \in 2..(n + 1) : chan[i].key = k
    <3>1. Current(n + 1, k) => Current(n, k)'
      BY <1>1, <2>5, CurrentTaken
    <3>2. QED
      BY <2>1, <2>3, <2>4, <3>1 DEF Resumes
  <2>6. ASSUME NEW i \in (n + 2)..Len(chan), chan[i].key = k, k = chan[1].key
        PROVE  Logged(k, SeqAt(n))' \/ Uncopied(n, k)'
    <3>1. /\ Ordered(i) /\ n + 1 \in 1..(i-1) /\ 1 \in 1..(i-1) /\ k # 0
          /\ \A j \in 1..n : j + 1 \in 1..(i-1)
          /\ i \in DOMAIN chan
      <4>1. i \in DOMAIN chan /\ k # 0
        BY <1>2, <1>4
      <4>2. n + 1 \in 1..(i-1) /\ 1 \in 1..(i-1) /\ \A j \in 1..n : j + 1 \in 1..(i-1)
        BY <1>2
      <4>3. QED
        BY <4>1, <4>2 DEF ChanOK
    <3>2. CASE chan[i].type = "SYNC"
      <4>1. chan[i].seq # 0 /\ chan[i].seq =< Len(logs) /\ logs[chan[i].seq].key = k
            /\ chan[n + 1].seq < chan[i].seq
        BY <2>6, <3>1, <3>2 DEF Ordered
      <4>2. chan[i].seq \in DOMAIN logs /\ chan[i].seq > SeqAt(n)'
        BY <1>2, <1>4, <2>1, <2>2, <3>1, <4>1
      <4>3. QED
        BY <1>1, <4>1, <4>2 DEF Logged
    <3>3. CASE chan[i].type = "COPY"
      <4>1. /\ copying /\ mem.key < k
            /\ \A j \in 1..(i-1) : chan[j].type = "COPY" => chan[j].cmd # "END" /\ chan[j].key < k
        BY <2>6, <3>1, <3>3 DEF Ordered
      <4>2. /\ chan[1].type = "COPY" => chan[1].cmd # "END" /\ chan[1].key < k
            /\ \A j \in 1..n : chan'[j].type = "COPY" => chan'[j].cmd # "END" /\ chan'[j].key < k
        BY <2>1, <3>1, <4>1
      <4>3. chan[1].type # "COPY"
        BY <1>4, <2>1, <2>6, <4>2
      <4>4. chan[1].cmd # "END"
        <5>1. chan[1] \in Message
          BY <2>1, Numbers
        <5>2. chan[1].type = "SYNC"
          BY <4>3, <5>1 DEF Message
        <5>3. QED
          BY <1>3, <5>2 DEF Ordered
      <4>5. copying' /\ k > mem'.key
        BY <1>4, <4>1, <4>3, <4>4, Numbers
      <4>6. QED
        BY <4>2, <4>5 DEF Uncopied
    <3>4. chan[i].type \in {"COPY", "SYNC"}
      <4>1. chan[i] \in Message
        BY <1>2, <3>1, Numbers
      <4>2. QED
        BY <4>1 DEF Message
    <3>5. QED
      BY <3>2, <3>3, <3>4
  <2>7. CASE \E i \in 2..Len(chan) : chan[i].key = k
    BY <1>2, <2>5, <2>6, <2>7
  <2>8. QED
    BY <2>5, <2>7
<1>13. QED
  BY <1>6, <1>7, <1>8, <1>9, <1>10, <1>11, <1>12

\* proc() redoes a message, fails to, or learns where a copy begins or ends.
LEMMA ProcStep ==
  ASSUME IInv, TypeOK', Proc
  PROVE  IInv'
<1> DEFINE m == chan[1]
<1>1. /\ chan # <<>> /\ chan' = Tail(chan) /\ Head(chan) = m
      /\ UNCHANGED <<masterVars, conn, clientVars, saved>>
  BY TailFacts DEF Proc, IInv, TypeOK
<1>2. /\ Len(chan) \in Nat /\ Len(chan) >= 1
      /\ DOMAIN Tail(chan) = 1..(Len(chan) - 1)
      /\ \A i \in 1..(Len(chan) - 1) : Tail(chan)[i] = chan[i + 1]
      /\ m \in Message /\ 1 \in DOMAIN chan
  BY <1>1, TailFacts DEF IInv, TypeOK
<1>3. m.cmd \in {"KSET", "KDEL"} <=> m.key # 0
  BY <1>2 DEF IInv, ChanOK, Ordered
<1>4. /\ m.seq \in Nat /\ m.key \in Key \cup {0} /\ mem \in Point /\ sdb \in [Key -> Value \cup {NoVal}]
      /\ mem' \in Point /\ 0 \notin Key /\ copying \in BOOLEAN /\ copying' \in BOOLEAN
  BY <1>2, KeyAssumption DEF IInv, TypeOK, Message
<1> HIDE DEF m
<1>5. CASE m.cmd \in {"KSET", "KDEL"} /\ Redo(m)
  <2>1. m.key \in Key /\ m.key # 0 /\ m.cmd # "END"
    BY <1>3, <1>4, <1>5
  <2>2. /\ mem'.seq = m.seq /\ lost' = lost /\ copying' = copying
        /\ mem'.key = IF m.type = "COPY" THEN m.key ELSE mem.key
    BY <1>5 DEF Redo
  <2>3. sdb'[m.key] = m.val /\ \A k \in Key : k # m.key => sdb'[k] = sdb[k]
    BY <1>4, <1>5, <2>1 DEF Redo
  <2>4. QED
    BY <1>1, <2>1, <2>2, <2>3, TakenStep DEF m
<1>6. CASE m.cmd \in {"KSET", "KDEL"} /\ RedoFails(m)
  <2>1. m.cmd # "END"
    BY <1>6
  <2>2. /\ mem' = mem /\ sdb' = sdb /\ copying' = copying
        /\ lost' = IF \E i \in DOMAIN Tail(chan) : Tail(chan)[i].key = m.key
                     THEN lost ELSE lost \cup {m.key}
    BY <1>6 DEF RedoFails
  <2>3. ASSUME NEW k \in Key \ lost', k = m.key
        PROVE  \E i \in 2..Len(chan) : chan[i].key = k
    <3>1. PICK i \in 1..(Len(chan) - 1) : Tail(chan)[i].key = m.key
      BY <1>2, <2>2, <2>3
    <3>2. i + 1 \in 2..Len(chan) /\ chan[i + 1].key = k
      BY <1>2, <2>3, <3>1
    <3>3. QED
      BY <3>2
  <2>4. QED
    BY <1>1, <2>1, <2>2, <2>3, TakenStep DEF m
<1>7. CASE m.cmd = "END" /\ EndOfCopy
  <2>1. m.key = 0 /\ copying' = FALSE /\ sdb' = sdb /\ lost' = lost
    BY <1>3, <1>7 DEF EndOfCopy
  <2>2. mem'.seq = mem.seq
    BY <1>4, <1>7 DEF EndOfCopy, Point
  <2>3. QED
    BY <1>1, <1>4, <1>7, <2>1, <2>2, TakenStep DEF m
<1>8. CASE m.cmd = "BEGIN" /\ UNCHANGED <<sdb, mem, spc, faults, copying, lost>>
  <2>1. m.key = 0 /\ m.cmd # "END"
    BY <1>3, <1>8
  <2>2. QED
    BY <1>1, <1>4, <1>8, <2>1, TakenStep DEF m
<1>9. QED
  BY <1>1, <1>5, <1>6, <1>7, <1>8 DEF Proc

\* save_status() writes the key and then the sequence number.
LEMMA SaveStep ==
  ASSUME IInv, TypeOK', SaveKey \/ SaveSeq
  PROVE  IInv'
<1> USE DEF IInv
<1>1. /\ UNCHANGED <<db, logs, conn, pc, status, seq, key, iter, chan, sdb, mem, copying, lost>>
      /\ spc # "idle"
      /\ saved'.key \in {saved.key, mem.key} /\ saved'.seq \in {saved.seq, mem.seq}
  <2>1. saved \in Point
    BY DEF TypeOK
  <2>2. QED
    BY <2>1 DEF SaveKey, SaveSeq, masterVars, clientVars, Point
<1>2. LogOK' /\ ChanOK' /\ ClientOK'
  BY <1>1 DEF LogOK, Logged, ChanOK, Ordered, ClientOK
<1>3. SnapshotOK' /\ AllCovered'
  BY <1>1 DEF SnapshotOK, AllCovered, Covered, Current, Pending, Logged
<1>4. Resumes'
  BY <1>1 DEF Resumes, Current, Logged, SeqAt, Uncopied
<1>5. SavedOK'
  BY <1>1, Numbers DEF SavedOK
<1>6. QED
  BY <1>2, <1>3, <1>4, <1>5

-----------------------------------------------------------------------------
(* Connections and faults *)

\* At any time, what the slave has and where it is are good enough to go on.
LEMMA Now ==
  ASSUME IInv, NEW k \in Key \ lost
  PROVE  sdb[k] = db[k] \/ Logged(k, mem.seq) \/ (copying /\ k > mem.key)
<1>1. 0 \in 0..Len(chan) /\ 1..0 = {}
  BY Numbers DEF IInv
<1>2. Current(0, k) \/ Logged(k, SeqAt(0)) \/ Uncopied(0, k)
  BY <1>1 DEF IInv, Resumes
<1>3. QED
  BY <1>1, <1>2 DEF Current, SeqAt, Uncopied

\* Where it was when it last saved its status is good enough, too.
LEMMA Saved ==
  ASSUME IInv, NEW k \in Key \ lost
  PROVE  sdb[k] = db[k] \/ Logged(k, saved.seq) \/ (copying /\ k > saved.key)
<1>1. /\ saved.seq =< mem.seq /\ (copying => saved.key =< mem.key)
      /\ saved.seq \in Nat /\ mem.seq \in Nat /\ saved.key \in Nat /\ mem.key \in Nat
      /\ k \in Nat /\ DOMAIN logs \subseteq Nat
  BY Numbers DEF IInv, SavedOK
<1>2. Logged(k, mem.seq) => Logged(k, saved.seq)
  BY <1>1 DEF Logged
<1>3. QED
  BY <1>1, <1>2, Now

\* A connection starts from what the slave has: keys it will not bring are lost.
LEMMA ConnectStep ==
  ASSUME IInv, TypeOK', Connect
  PROVE  IInv'
<1> USE DEF IInv
<1>1. /\ UNCHANGED <<db, logs, sdb, mem, saved, spc>> /\ conn = "none" /\ conn' = "up"
      /\ pc' = "sync" /\ seq' = mem.seq /\ key' = mem.key /\ iter' = NoIter
      /\ lost' = lost \cup GivenUp
  BY DEF Connect, masterVars, slaveVars
<1>2. /\ mem = saved /\ mem.seq \in Nat /\ mem.key \in Nat /\ Len(logs) \in Nat
      /\ mem.seq =< Len(logs) /\ Key \subseteq Nat \ {0}
  BY <1>1, Numbers DEF SavedOK
<1>3. LogOK'
  BY <1>1 DEF LogOK, Logged
<1>4. CASE mem.seq = 0 /\ mem.key = 0
  <2> DEFINE b == [type |-> "COPY", cmd |-> "BEGIN", seq |-> 0, key |-> 0, val |-> NoVal]
  <2>1. status' = "COPY" /\ copying' = TRUE /\ chan' = <<b>>
    BY <1>4 DEF Connect
  <2>2. b.type = "COPY" /\ b.cmd = "BEGIN" /\ b.seq = 0 /\ b.key = 0
    OBVIOUS
  <2> HIDE DEF b
  <2>3. Len(chan') = 1 /\ DOMAIN chan' = {1} /\ chan'[1] = b
    BY <2>1
  <2>4. \A k \in Key \ lost' : k \notin lost /\ sdb[k] = NoVal /\ k > 0 /\ k # 0
    BY <1>1, <1>2, <1>4 DEF GivenUp
  <2>5. ChanOK'
    BY <1>1, <1>2, <1>4, <2>2, <2>3 DEF ChanOK, Ordered
  <2>6. ClientOK'
    BY <1>1, <1>2, <1>4, <2>1, <2>2, <2>3 DEF ClientOK
  <2>7. SavedOK'
    BY <1>1, <1>2 DEF SavedOK
  <2>8. SnapshotOK'
    BY <1>1, <2>2, <2>3, <2>4 DEF SnapshotOK
  <2>9. AllCovered'
    BY <1>1, <1>4, <2>1, <2>4 DEF AllCovered, Covered
  <2>10. Resumes'
    <3> SUFFICES ASSUME NEW k \in Key \ lost', NEW n \in 0..1 PROVE Uncopied(n, k)'
      BY <2>3 DEF Resumes
    <3>1. \A i \in 1..n : i = 1
      OBVIOUS
    <3>2. QED
      BY <1>1, <1>4, <2>1, <2>2, <2>3, <2>4, <3>1 DEF Uncopied
  <2>11. QED
    BY <1>3, <2>5, <2>6, <2>7, <2>8, <2>9, <2>10
<1>5. CASE ~(mem.seq = 0 /\ mem.key = 0)
  <2>1. status' = "INIT" /\ copying' = FALSE /\ chan' = <<>>
    BY <1>5 DEF Connect
  <2>2. Len(chan') = 0 /\ DOMAIN chan' = {} /\ 1..0 = {} /\ 0..0 = {0}
    BY <2>1
  <2>3. \A k \in Key \ lost' : sdb[k] = db[k] \/ Logged(k, mem.seq)
    BY <1>1, <1>5, Now DEF GivenUp
  <2>4. ChanOK' /\ SavedOK' /\ SnapshotOK'
    BY <1>1, <1>2, <2>1, <2>2 DEF ChanOK, SavedOK, SnapshotOK
  <2>5. ClientOK'
    BY <1>1, <1>2, <2>1, <2>2 DEF ClientOK
  <2>6. AllCovered'
    BY <1>1, <2>2, <2>3 DEF AllCovered, Covered, Current, Pending, Logged
  <2>7. Resumes'
    BY <1>1, <2>2, <2>3 DEF Resumes, Current, SeqAt, Logged
  <2>8. QED
    BY <1>3, <2>4, <2>5, <2>6, <2>7
<1>6. QED
  BY <1>4, <1>5

\* What arrives of a broken connection is a prefix of what was sent.
LEMMA DisconnectStep ==
  ASSUME IInv, TypeOK', Disconnect
  PROVE  IInv'
<1> USE DEF IInv
<1>1. /\ UNCHANGED <<db, logs, sdb, mem, saved, spc, copying, lost>>
      /\ conn = "up" /\ conn' = "down"
  BY DEF Disconnect, masterVars, slaveVars
<1>2. PICK l \in 0..Len(chan) : chan' = SubSeq(chan, 1, l)
  BY DEF Disconnect
<1>3. /\ Len(chan) \in Nat /\ DOMAIN chan = 1..Len(chan) /\ Len(chan') = l /\ DOMAIN chan' = 1..l
      /\ \A i \in 1..l : chan'[i] = chan[i]
  BY <1>2, PrefixFacts DEF TypeOK
<1>4. LogOK' /\ ClientOK' /\ SnapshotOK' /\ AllCovered' /\ SavedOK'
  BY <1>1 DEF LogOK, Logged, ClientOK, SnapshotOK, AllCovered, SavedOK
<1>5. ChanOK'
  <2> SUFFICES ASSUME NEW i \in 1..l PROVE Ordered(i)'
    BY <1>3 DEF ChanOK
  <2>1. Ordered(i) /\ chan'[i] = chan[i] /\ \A j \in 1..(i-1) : chan'[j] = chan[j]
    BY <1>3 DEF ChanOK
  <2>2. QED
    BY <1>1, <2>1 DEF Ordered
<1>6. Resumes'
  <2> SUFFICES ASSUME NEW k \in Key \ lost, NEW n \in 0..l
               PROVE  Current(n, k)' \/ Logged(k, SeqAt(n))' \/ Uncopied(n, k)'
    BY <1>1, <1>3 DEF Resumes
  <2>1. n \in 0..Len(chan) /\ \A i \in 1..n : chan'[i] = chan[i]
    BY <1>3
  <2>2. SeqAt(n)' = SeqAt(n)
    BY <1>1, <1>3, <2>1 DEF SeqAt
  <2>3. Current(n, k) \/ Logged(k, SeqAt(n)) \/ Uncopied(n, k)
    BY <2>1 DEF Resumes
  <2>4. Current(n, k) => Current(n, k)'
    BY <1>1, <2>1 DEF Current
  <2>5. Uncopied(n, k) => Uncopied(n, k)'
    BY <1>1, <2>1 DEF Uncopied
  <2>6. QED
    BY <1>1, <2>2, <2>3, <2>4, <2>5 DEF Logged
<1>7. QED
  BY <1>4, <1>5, <1>6

\* A slave that starts goes on from what it has saved.
LEMMA RestartStep ==
  ASSUME IInv, TypeOK', Restart
  PROVE  IInv'
<1> USE DEF IInv
<1>1. /\ UNCHANGED <<db, logs, sdb, saved, copying, lost>>
      /\ conn' = "none" /\ chan' = <<>> /\ mem' = saved /\ spc' = "idle"
  BY DEF Restart, masterVars
<1>2. Len(chan') = 0 /\ DOMAIN chan' = {} /\ 1..0 = {} /\ 0..0 = {0}
  BY <1>1
<1>3. LogOK' /\ ClientOK' /\ SnapshotOK' /\ AllCovered' /\ ChanOK'
  BY <1>1, <1>2 DEF LogOK, Logged, ClientOK, SnapshotOK, AllCovered, ChanOK
<1>4. SavedOK'
  BY <1>1, Numbers DEF SavedOK
<1>5. Resumes'
  <2> SUFFICES ASSUME NEW k \in Key \ lost
               PROVE  Current(0, k)' \/ Logged(k, SeqAt(0))' \/ Uncopied(0, k)'
    BY <1>1, <1>2 DEF Resumes
  <2>1. sdb[k] = db[k] => Current(0, k)'
    BY <1>1, <1>2 DEF Current
  <2>2. Logged(k, saved.seq) => Logged(k, SeqAt(0))'
    BY <1>1 DEF Logged, SeqAt
  <2>3. copying /\ k > saved.key => Uncopied(0, k)'
    BY <1>1, <1>2 DEF Uncopied
  <2>4. QED
    BY <2>1, <2>2, <2>3, Saved
<1>6. QED
  BY <1>3, <1>4, <1>5

-----------------------------------------------------------------------------
(* The theorems *)

\* The invariant holds at the start.
LEMMA IInvInit == Init => IInv
<1> SUFFICES ASSUME Init PROVE IInv
  OBVIOUS
<1>1. TypeOK
  <2>1. [seq |-> 0, key |-> 0] \in Point /\ <<>> \in Seq(Entry) /\ <<>> \in Seq(Message)
    BY DEF Point
  <2>2. QED
    BY <2>1 DEF Init, TypeOK
<1>2. Len(chan) = 0 /\ DOMAIN chan = {} /\ DOMAIN logs = {} /\ Len(logs) = 0 /\ 0..0 = {0} /\ 1..0 = {}
  BY DEF Init
<1>3. LogOK /\ ChanOK /\ ClientOK /\ SnapshotOK /\ AllCovered
  BY <1>2 DEF Init, LogOK, ChanOK, ClientOK, SnapshotOK, AllCovered
<1>4. SavedOK
  BY <1>2 DEF Init, SavedOK
<1>5. Resumes
  BY <1>2 DEF Init, Resumes, Current, DbKey
<1>6. QED
  BY <1>1, <1>3, <1>4, <1>5 DEF IInv

\* Every step keeps it.
LEMMA IInvStep == IInv /\ [Next]_vars => IInv'
<1> SUFFICES ASSUME IInv, [Next]_vars PROVE IInv'
  OBVIOUS
<1>0. TypeOK'
  BY TypeStep DEF IInv
<1>1. ASSUME NEW k \in Key, NEW v \in Value, Set(k, v) PROVE IInv'
  <2>1. k \in DbKey /\ k # HashKey /\ v # NoVal
    BY KeyAssumption, ValueAssumption DEF DbKey
  <2>2. QED
    BY <1>0, <1>1, <2>1, CommitStep DEF Set
<1>2. ASSUME NEW k \in Key, Del(k) PROVE IInv'
  <2>1. k \in DbKey /\ k # HashKey
    BY KeyAssumption DEF DbKey
  <2>2. QED
    BY <1>0, <1>2, <2>1, CommitStep DEF Del
<1>3. ASSUME NEW v \in Value, HSet(v) PROVE IInv'
  <2>1. HashKey \in DbKey
    BY DEF DbKey
  <2>2. QED
    BY <1>0, <1>3, <2>1, CommitStep DEF HSet
<1>4. CASE ClientStep
  <2>1. ClientFrame
    BY <1>4 DEF ClientStep, ClientFrame
  <2>2. QED
    BY <1>0, <1>4, <2>1, TurnStep, SyncDropStep, SyncTakeStep, SyncSendStep, ReadFailsStep,
       CopyOpenStep, CopyItemStep, CopyEndStep DEF ClientStep, CopyEnd, IterFails
<1>5. CASE SlaveStep
  BY <1>0, <1>5, ProcStep, SaveStep DEF SlaveStep
<1>6. CASE Connect \/ Disconnect \/ Restart
  BY <1>0, <1>6, ConnectStep, DisconnectStep, RestartStep
<1>7. CASE UNCHANGED vars
  <2> USE <1>7 DEF vars, IInv
  <2>1. LogOK' /\ ChanOK' /\ ClientOK' /\ SavedOK'
    BY DEF LogOK, Logged, ChanOK, Ordered, ClientOK, SavedOK
  <2>2. SnapshotOK' /\ AllCovered'
    BY DEF SnapshotOK, AllCovered, Covered, Current, Pending, Logged
  <2>3. Resumes'
    BY DEF Resumes, Current, Logged, SeqAt, Uncopied
  <2>4. QED
    BY <1>0, <2>1, <2>2, <2>3
<1>8. QED
  BY <1>1, <1>2, <1>3, <1>4, <1>5, <1>6, <1>7 DEF Next

\* The variables have their types, for any number of keys and values, any size of
\* copy() and any number of writes and faults.
THEOREM TypeCorrect == Spec => []TypeOK
<1>1. IInv => TypeOK
  BY DEF IInv
<1>2. QED
  BY <1>1, IInvInit, IInvStep, PTL DEF Spec

\* A slave whose connection has nothing left for it holds what the master holds,
\* except for the keys the protocol gave up.
THEOREM CaughtUpHolds == Spec => []CaughtUp
<1>1. IInv => CaughtUp
  <2> SUFFICES ASSUME IInv, conn = "up", Quiet, NEW k \in Key \ lost PROVE sdb[k] = db[k]
    BY DEF CaughtUp
  <2>1. Len(chan) = 0 /\ 1..0 = {} /\ pc = "sync" /\ status # "COPY"
    BY DEF Quiet
  <2>2. ~Logged(k, seq)
    BY Numbers DEF IInv, Quiet, Logged
  <2>3. QED
    BY <2>1, <2>2 DEF IInv, AllCovered, Covered, Pending, Current
<1>2. QED
  BY <1>1, IInvInit, IInvStep, PTL DEF Spec

\* A slave that stops at any time, between the two writes of save_status() too,
\* can go on from what it has saved.
THEOREM ResumeSafeHolds == Spec => []ResumeSafe
<1>1. IInv => ResumeSafe
  BY Saved DEF ResumeSafe
<1>2. QED
  BY <1>1, IInvInit, IInvStep, PTL DEF Spec
=============================================================================
