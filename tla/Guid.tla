-------------------------------- MODULE Guid -------------------------------
(* nsqd/guid.go: the numbers that name messages, made of the time, the node  *)
(* and a sequence number; topic.go asks again until it gets one.             *)
(*                                                                           *)
(* In the source a node has 10 bits, but topic.go's NODEID, 123456, has 17:  *)
(* its upper bits are ORed into those of the time.  The widths here are      *)
(* smaller; NODEID overlaps the time in the same way.                        *)
EXTENDS Integers, Sequences, FiniteSets

CONSTANTS sequenceBits, nodeIDBits, NODEID,
          OverlapBits,  \* how many bits NODEID has beyond nodeIDBits
          WordBits,     \* 63: an int64 without its sign
          MaxClock      \* bound

timestampShift == sequenceBits + nodeIDBits

(* 1 << n.                                                                   *)
Pow2[n \in 0..WordBits] == IF n = 0 THEN 1 ELSE 2 * Pow2[n - 1]

(* The numbers fit into a word, and NODEID into its bits and those it shares *)
(* with the time, of which it has not all: 123456 is 120 * 2^10 + 576, and   *)
(* 120 is less than 127.                                                     *)
ASSUME GuidAssumption ==
  /\ {sequenceBits, nodeIDBits, OverlapBits, WordBits, NODEID, MaxClock} \subseteq Nat /\ MaxClock > 0
  /\ timestampShift =< WordBits /\ OverlapBits =< WordBits
  /\ MaxClock * Pow2[timestampShift] < Pow2[WordBits]
  /\ NODEID < (Pow2[OverlapBits] - 1) * Pow2[nodeIDBits]

(* The clock, the factory's fields, the numbers returned so far, and the     *)
(* times at which the call in progress has been refused (a clock that was    *)
(* set back not counted).                                                    *)
VARIABLES clock, sequence, lastTimestamp, lastID, ids, refused
guidVars == <<clock, sequence, lastTimestamp, lastID, ids, refused>>

NewGUIDFactory ==
  /\ clock = 1 /\ sequence = 0 /\ lastTimestamp = 0 /\ lastID = 0
  /\ ids = <<>> /\ refused = {}

NextSequence(ts) == IF ts = lastTimestamp THEN (sequence + 1) % Pow2[sequenceBits] ELSE 0

(* x | y, bit by bit.                                                        *)
Bit(x, k) == (x \div Pow2[k]) % 2
Or(x, y) ==
  LET or[k \in 0..WordBits] ==
        IF k = 0 THEN 0
        ELSE or[k-1] + IF Bit(x, k-1) = 1 \/ Bit(y, k-1) = 1 THEN Pow2[k-1] ELSE 0
  IN or[WordBits]

MakeID(ts, seq) ==
  Or(Or(ts * Pow2[timestampShift], NODEID * Pow2[sequenceBits]), seq)

\* Mutant: a number that is not larger than the last one is returned.
GoesBackNever(id) == FALSE

GoesBack(id) == id =< lastID

Refuse(ts) == refused' = refused \cup {ts} /\ UNCHANGED <<lastID, ids>>

(* One call of GenerateID's loop.                                            *)
NewGUID ==
  LET ts == clock
      seq == NextSequence(ts)
      expired == ts = lastTimestamp /\ seq = 0
      id == MakeID(ts, seq)
  IN /\ ts >= lastTimestamp   \* else ErrTimeBackwards: nothing changes
     /\ sequence' = seq
     /\ lastTimestamp' = ts
     /\ \/ (expired \/ GoesBack(id)) /\ Refuse(ts)
        \/ /\ ~expired /\ ~GoesBack(id)
           /\ lastID' = id /\ ids' = Append(ids, id) /\ refused' = {}
     /\ UNCHANGED clock

(* The clock goes on, or is set back.                                        *)
Tick == clock < MaxClock /\ clock' = clock + 1
SetBack == clock > 1 /\ clock' = clock - 1

GuidNext == \/ NewGUID
            \/ (Tick \/ SetBack) /\ UNCHANGED <<sequence, lastTimestamp, lastID, ids, refused>>

GuidSpec == NewGUIDFactory /\ [][GuidNext]_guidVars

----------------------------------------------------------------------------
(* No number is returned twice, and each is larger than the one before,      *)
(* whatever the clock does.  GenerateID comes to an end all the same: it is  *)
(* not refused at more times than one value of the upper bits of the time    *)
(* lasts.                                                                    *)
IdsIncrease ==
  /\ \A i \in 1..(Len(ids) - 1) : ids[i] < ids[i + 1]
  /\ Cardinality(refused) < Pow2[OverlapBits]
=============================================================================
