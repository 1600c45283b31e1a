----------------------------- MODULE Replication -----------------------------
(***************************************************************************)
(* Master-slave replication of ssdb/src.  The master (ssdb_impl.cpp,       *)
(* binlog.cpp) commits every write together with a log entry.  For a slave *)
(* that connects it runs a thread (backend_sync.cpp) that alternates       *)
(* sync(), which follows the log, with copy(), which walks over the keys   *)
(* in order; the slave (slave.cpp) redoes what it receives and saves how   *)
(* far it has come, the key and the sequence number in two writes.         *)
(*                                                                         *)
(* Keys are numbers, ordered as leveldb orders the encoded keys: 0 is the  *)
(* empty string, 1 a hash key ('h' before 'k'), the others are KV keys.    *)
(* The log is never trimmed, so the entry with sequence number i is        *)
(* logs[i], and sync() cannot find itself out of sync.  The slave takes no *)
(* writes of its own, and asks for "sync", never for "mirror".             *)
(*                                                                         *)
(* The slave does not connect again when its connection ends; only its     *)
(* restart does that.  A client thread of an ended connection goes on      *)
(* forever, but what it sends reaches nobody: it is left out.              *)
(***************************************************************************)
EXTENDS Naturals, Sequences, FiniteSets

CONSTANTS Key,        \* KV keys
          Value,
          NoVal,      \* no such key
          NoIter,     \* iter == NULL
          Chunk,      \* items one copy() visits at most: 1000 in the code
          MaxLog,     \* bound: writes on the master
          MaxFaults   \* bound: failed reads and redos, lost connections, slave restarts

HashKey == 1

ASSUME KeyAssumption == Key \subseteq Nat \ {0, HashKey}
ASSUME ValueAssumption == NoVal \notin Value
ASSUME ChunkAssumption == Chunk \in Nat \ {0}
ASSUME IterAssumption == NoIter \notin [Key \cup {HashKey} -> Value \cup {NoVal}]

VARIABLES db,       \* the master's data
          logs,     \* the master's binlog
          conn,     \* the slave's connection: "none", "up", or "down" for good
          pc,       \* client thread: in sync(), about to send in sync(), in copy()
          status,   \* client.status
          seq,      \* client.last_seq
          key,      \* client.last_key
          iter,     \* client.iter: the snapshot it reads; it stands at last_key
          count,    \* copy()'s iterate_count
          chan,     \* messages on the way to the slave
          sdb,      \* the slave's data
          mem,      \* slave->last_seq, slave->last_key
          saved,    \* the same as saved in the slave's meta db
          spc,      \* the slave: waiting, or saving the key, or the seq
          faults,   \* faults so far
          copying,  \* history: the slave has had part of a copy that goes on
          lost      \* history: keys whose last write the protocol gave up

masterVars == <<db, logs>>
clientVars == <<pc, status, seq, key, iter, count>>
slaveVars == <<sdb, mem, saved, spc>>
vars == <<db, logs, conn, pc, status, seq, key, iter, count, chan,
          sdb, mem, saved, spc, faults, copying, lost>>

DbKey == Key \cup {HashKey}
Entry == [cmd : {"KSET", "KDEL", "HSET"}, key : DbKey]
Message == [type : {"COPY", "SYNC"}, cmd : {"BEGIN", "KSET", "KDEL", "END"},
            seq : Nat, key : Key \cup {0}, val : Value \cup {NoVal}]
Point == [seq : Nat, key : DbKey \cup {0}]

TypeOK ==
    /\ db \in [DbKey -> Value \cup {NoVal}]
    /\ logs \in Seq(Entry)
    /\ conn \in {"none", "up", "down"}
    /\ pc \in {"sync", "send", "copy"}
    /\ status \in {"INIT", "COPY", "SYNC"}
    /\ seq \in Nat
    /\ key \in DbKey \cup {0}
    /\ iter \in [DbKey -> Value \cup {NoVal}] \cup {NoIter}
    /\ count \in Nat
    /\ chan \in Seq(Message)
    /\ sdb \in [Key -> Value \cup {NoVal}]
    /\ mem \in Point
    /\ saved \in Point
    /\ spc \in {"idle", "key", "seq"}
    /\ faults \in Nat
    /\ copying \in BOOLEAN
    /\ lost \subseteq Key

Init ==
    /\ db = [k \in DbKey |-> NoVal]
    /\ logs = <<>>
    /\ conn = "none"
    /\ pc = "sync" /\ status = "INIT" /\ seq = 0 /\ key = 0
    /\ iter = NoIter /\ count = 0
    /\ chan = <<>>
    /\ sdb = [k \in Key |-> NoVal]
    /\ mem = [seq |-> 0, key |-> 0]
    /\ saved = [seq |-> 0, key |-> 0]
    /\ spc = "idle"
    /\ faults = 0
    /\ copying = FALSE
    /\ lost = {}

-----------------------------------------------------------------------------
(* The master's writes *)

\* A transaction: the data and the log entry are one leveldb batch.
Commit(cmd, k, v) ==
    /\ Len(logs) < MaxLog
    /\ db' = [db EXCEPT ![k] = v]
    /\ logs' = Append(logs, [cmd |-> cmd, key |-> k])
    /\ UNCHANGED <<conn, clientVars, chan, slaveVars, faults, copying, lost>>

Set(k, v) == Commit("KSET", k, v)

Del(k) == Commit("KDEL", k, NoVal)

\* An hset of the value that is already there writes no log entry.
HSet(v) == db[HashKey] # v /\ Commit("HSET", HashKey, v)

-----------------------------------------------------------------------------
(* The master's thread for the slave *)

\* Mutant: messages carry the newest sequence number of the log.
MsgNewest(type, cmd, k, v) ==
    [type |-> type, cmd |-> cmd, seq |-> Len(logs), key |-> k, val |-> v]

Msg(type, cmd, k, v) ==
    [type |-> type, cmd |-> cmd, seq |-> seq, key |-> k, val |-> v]

Send(m) == chan' = Append(chan, m)

\* The newest log entry when nothing has been followed yet, else the next one.
NextSeq == IF status = "COPY" /\ seq = 0 THEN Len(logs) ELSE seq + 1

Found == NextSeq \in DOMAIN logs

\* Entries of keys that the copy has yet to reach are not sent: the copy will.
Ahead == status = "COPY" /\ logs[NextSeq].key > key

\* The log has an entry of k after the given one.
Logged(k, after) == \E i \in DOMAIN logs : i > after /\ logs[i].key = k

\* find_last() after copy() has begun passes over all entries but one; those of
\* keys ahead of the copy are made good if it starts a new snapshot.
Skipped(keys) == IF status = "COPY" /\ seq = 0 THEN keys ELSE {}

SyncNone ==
    /\ pc = "sync" /\ ~Found
    /\ pc' = IF status = "COPY" THEN "copy" ELSE "sync"
    /\ UNCHANGED <<status, seq, key, iter, chan, count, lost>>

\* Mutant: the iterator is kept.
SyncDropKeepsIter ==
    /\ pc = "sync" /\ Found /\ Ahead
    /\ seq' = NextSeq
    /\ lost' = lost \cup Skipped({k \in Key : k =< key})
    /\ UNCHANGED <<pc, status, key, iter, chan, count>>

\* The copy must see what is dropped here, so it starts a new snapshot.
SyncDrop ==
    /\ pc = "sync" /\ Found /\ Ahead
    /\ seq' = NextSeq
    /\ iter' = NoIter
    /\ lost' = lost \cup Skipped({k \in Key : k =< key})
    /\ UNCHANGED <<pc, status, key, chan, count>>

SyncTake ==
    /\ pc = "sync" /\ Found /\ ~Ahead
    /\ seq' = NextSeq
    /\ pc' = "send"
    /\ lost' = lost \cup Skipped(Key)
    /\ UNCHANGED <<status, key, iter, chan, count>>

\* The value sent is the one the key has now, not the one that was logged.
Forward(e) ==
    \/ /\ e.cmd = "KSET" /\ db[e.key] # NoVal
       /\ Send(Msg("SYNC", "KSET", e.key, db[e.key]))
       /\ lost' = lost \ {e.key}
    \/ /\ e.cmd = "KDEL"
       /\ Send(Msg("SYNC", "KDEL", e.key, NoVal))
       /\ lost' = lost \ {e.key}
    \/ /\ e.cmd = "HSET" \/ (e.cmd = "KSET" /\ db[e.key] = NoVal)
       /\ UNCHANGED <<chan, lost>>

AfterSync ==
    /\ pc' = IF status = "COPY" THEN "copy" ELSE "sync"
    /\ UNCHANGED <<status, seq, key, iter, count>>

SyncSend == pc = "send" /\ Forward(logs[seq]) /\ AfterSync

\* raw_get() fails: nothing is sent, and the entry is not read again.
ReadFails ==
    /\ pc = "send" /\ logs[seq].cmd = "KSET"
    /\ lost' = IF Logged(logs[seq].key, seq) THEN lost ELSE lost \cup {logs[seq].key}
    /\ AfterSync
    /\ UNCHANGED chan

CopyOpen ==
    /\ pc = "copy" /\ iter = NoIter
    /\ iter' = db
    /\ UNCHANGED <<pc, status, seq, key, chan, count, lost>>

\* The keys the iterator has yet to visit.
ToVisit == {k \in DbKey : k > key /\ iter[k] # NoVal}

\* A hash key is visited but not sent.
CopyItem ==
    /\ pc = "copy" /\ iter # NoIter /\ count < Chunk
    /\ \E k \in ToVisit :
          /\ \A j \in ToVisit : k =< j
          /\ key' = k
          /\ IF k = HashKey
               THEN UNCHANGED <<chan, lost>>
               ELSE /\ Send(Msg("COPY", "KSET", k, iter[k]))
                    /\ lost' = lost \ {j \in {k} : iter[j] = db[j] \/ Logged(j, seq)}
    /\ count' = count + 1
    /\ UNCHANGED <<pc, status, seq, iter>>

\* Mutant: iterate_count is not reset.
CopyPauseKeepsCount ==
    /\ pc = "copy" /\ iter # NoIter /\ count = Chunk
    /\ pc' = "sync"
    /\ UNCHANGED <<status, seq, key, iter, chan, count, lost>>

CopyPause ==
    /\ pc = "copy" /\ iter # NoIter /\ count = Chunk
    /\ pc' = "sync"
    /\ count' = 0
    /\ UNCHANGED <<status, seq, key, iter, chan, lost>>

\* Keys not visited are not copied any more.
EndCopy ==
    /\ pc = "copy" /\ iter # NoIter /\ count < Chunk
    /\ status' = "SYNC"
    /\ iter' = NoIter
    /\ Send(Msg("COPY", "END", 0, NoVal))
    /\ pc' = "sync"
    /\ count' = 0
    /\ lost' = lost \cup {k \in ToVisit \ {HashKey} : ~Logged(k, seq)}
    /\ UNCHANGED <<seq, key>>

CopyEnd == EndCopy /\ ToVisit = {}

\* An iterator that fails is not valid any more, and next() says no more.
IterFails == EndCopy /\ ToVisit # {}

\* _run_thread() after init().
ClientStep ==
    /\ conn = "up"
    /\ \/ /\ \/ SyncNone \/ SyncDrop \/ SyncTake \/ SyncSend
             \/ CopyOpen \/ CopyItem \/ CopyPause \/ CopyEnd
          /\ UNCHANGED faults
       \/ /\ ReadFails \/ IterFails
          /\ faults < MaxFaults
          /\ faults' = faults + 1
    /\ UNCHANGED <<masterVars, conn, slaveVars, copying>>

-----------------------------------------------------------------------------
(* The slave *)

\* A redo: the new last_seq and last_key, and then save_status().
Redo(m) ==
    /\ sdb' = [sdb EXCEPT ![m.key] = m.val]
    /\ mem' = [seq |-> m.seq, key |-> IF m.type = "COPY" THEN m.key ELSE mem.key]
    /\ spc' = "key"
    /\ UNCHANGED <<faults, copying, lost>>

\* A redo that fails is skipped: what it returns is looked at by nobody.
RedoFails(m) ==
    /\ faults < MaxFaults
    /\ faults' = faults + 1
    /\ lost' = IF \E i \in DOMAIN Tail(chan) : Tail(chan)[i].key = m.key
                 THEN lost ELSE lost \cup {m.key}
    /\ UNCHANGED <<sdb, mem, spc, copying>>

EndOfCopy ==
    /\ mem' = [mem EXCEPT !.key = 0]
    /\ spc' = "key"
    /\ copying' = FALSE
    /\ UNCHANGED <<sdb, faults, lost>>

Proc ==
    /\ spc = "idle" /\ chan # <<>>
    /\ chan' = Tail(chan)
    /\ LET m == Head(chan) IN
          \/ m.cmd \in {"KSET", "KDEL"} /\ (Redo(m) \/ RedoFails(m))
          \/ m.cmd = "END" /\ EndOfCopy
          \/ m.cmd = "BEGIN" /\ UNCHANGED <<sdb, mem, spc, faults, copying, lost>>
    /\ UNCHANGED <<masterVars, conn, clientVars, saved>>

SaveKey ==
    /\ spc = "key"
    /\ saved' = [saved EXCEPT !.key = mem.key]
    /\ spc' = "seq"
    /\ UNCHANGED <<masterVars, conn, clientVars, chan, sdb, mem, faults, copying, lost>>

SaveSeq ==
    /\ spc = "seq"
    /\ saved' = [saved EXCEPT !.seq = mem.seq]
    /\ spc' = "idle"
    /\ UNCHANGED <<masterVars, conn, clientVars, chan, sdb, mem, faults, copying, lost>>

SlaveStep == Proc \/ SaveKey \/ SaveSeq

-----------------------------------------------------------------------------
(* Connections and faults *)

\* What a connection will not make good: when it copies from the start, keys
\* the slave has already and the copy may not come across; when it only follows
\* the log, though the last copy was broken off, the keys not copied then.
GivenUp ==
    IF mem.seq = 0 /\ mem.key = 0
      THEN {k \in Key : sdb[k] # NoVal}
      ELSE {k \in Key : copying /\ k > mem.key /\ ~Logged(k, mem.seq)}

\* on_connect() asks for what follows mem; the master starts a thread, which
\* copies only for a slave that has nothing.  The constructor of the Client
\* leaves iter uninitialised: here it is NULL, and a Disconnect at this point
\* stands for the master that dies of any other value.
Connect ==
    /\ conn = "none"
    /\ conn' = "up"
    /\ pc' = "sync"
    /\ seq' = mem.seq
    /\ key' = mem.key
    /\ iter' = NoIter
    /\ count' = 0
    /\ lost' = lost \cup GivenUp
    /\ IF mem.seq = 0 /\ mem.key = 0
         THEN /\ status' = "COPY" /\ copying' = TRUE
              /\ chan' = <<[type |-> "COPY", cmd |-> "BEGIN", seq |-> 0,
                            key |-> 0, val |-> NoVal]>>
         ELSE status' = "INIT" /\ copying' = FALSE /\ chan' = <<>>
    /\ UNCHANGED <<masterVars, slaveVars, faults>>

\* The connection breaks, or the master stops: some of what was sent arrives.
Disconnect ==
    /\ conn = "up" /\ faults < MaxFaults
    /\ conn' = "down"
    /\ \E n \in 0..Len(chan) : chan' = SubSeq(chan, 1, n)
    /\ faults' = faults + 1
    /\ UNCHANGED <<masterVars, clientVars, slaveVars, copying, lost>>

\* The slave stops, at any point, and starts: load_status().
Restart ==
    /\ conn # "none" /\ faults < MaxFaults
    /\ conn' = "none"
    /\ chan' = <<>>
    /\ mem' = saved
    /\ spc' = "idle"
    /\ faults' = faults + 1
    /\ UNCHANGED <<masterVars, clientVars, sdb, saved, copying, lost>>

Next ==
    \/ \E k \in Key, v \in Value : Set(k, v)
    \/ \E k \in Key : Del(k)
    \/ \E v \in Value : HSet(v)
    \/ ClientStep
    \/ SlaveStep
    \/ Connect
    \/ Disconnect
    \/ Restart

Spec == Init /\ [][Next]_vars

\* The client thread and the slave's loop never block for good.
FairSpec == Spec /\ WF_vars(ClientStep) /\ WF_vars(SlaveStep) /\ WF_vars(Connect)

-----------------------------------------------------------------------------
(* Properties *)

\* An entry of k that the client thread has yet to deal with.
Pending(k) == Logged(k, seq) \/ (pc = "send" /\ logs[seq].key = k)

\* The client thread has nothing more to send, and all that was sent is redone.
Quiet == pc = "sync" /\ status # "COPY" /\ seq >= Len(logs) /\ chan = <<>>

\* A slave that has received everything its connection had for it holds what
\* the master holds, except for keys in lost, whose last write a read, a redo or
\* a connection that failed, or a jump over the log, has taken: the copy, the log
\* entries dropped during it, the values read after their entries and the entries
\* that were logged while it ran together miss no write (backend_sync.cpp, sync()
\* and copy()).
CaughtUp ==
    conn = "up" /\ Quiet => \A k \in Key \ lost : sdb[k] = db[k]

\* Whenever the slave stops, in the middle of save_status() too, following the
\* log from the saved point makes good every key but those in lost and those
\* that a copy had yet to bring (slave.cpp, proc_sync(), save_status()).
ResumeSafe ==
    \A k \in Key \ lost :
        \/ sdb[k] = db[k]
        \/ Logged(k, saved.seq)
        \/ copying /\ k > saved.key

\* A slave that stays connected gets to hold all that it can: the copy ends,
\* although every write ahead of it makes it open a new iterator, and then
\* sync() comes to the end of the log (backend_sync.cpp, _run_thread()).
CatchesUp == conn = "up" ~> (conn # "up" \/ (Quiet /\ spc = "idle"))
=============================================================================
