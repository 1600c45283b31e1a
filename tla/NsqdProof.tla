------------------------------ MODULE NsqdProof ------------------------------
(* Proofs about a topic of nsqd, for any number of channels, connections and *)
(* messages and any capacity of the queues.                                  *)
(*                                                                           *)
(* The invariant says where the copies of a message are with sets, from      *)
(* which the counts of OneCopyPerChannel follow at the end: what a channel   *)
(* holds (queued, in flight, or about to be put by the topic's pump) is what *)
(* the pump owed it, and it holds nothing twice.                             *)
EXTENDS Nsqd, FiniteSetTheorems, TLAPS

-----------------------------------------------------------------------------
(* Sequences without duplicates *)

Distinct(s) == \A i, j \in 1..Len(s) : s[i] = s[j] => i = j

\* Appending a new element.
LEMMA AppendKeeps ==
  ASSUME NEW S, NEW s \in Seq(S), NEW x \in S
  PROVE  /\ Append(s, x) \in Seq(S) /\ Len(Append(s, x)) = Len(s) + 1
         /\ ToSet(Append(s, x)) = ToSet(s) \cup {x}
         /\ Distinct(s) /\ x \notin ToSet(s) => Distinct(Append(s, x))
<1> DEFINE a == Append(s, x)
<1>1. /\ a \in Seq(S) /\ Len(a) = Len(s) + 1 /\ Len(s) \in Nat
      /\ DOMAIN a = 1..(Len(s) + 1) /\ DOMAIN s = 1..Len(s)
      /\ \A i \in 1..Len(s) : a[i] = s[i]
      /\ a[Len(s) + 1] = x
  OBVIOUS
<1> HIDE DEF a
<1>2. ToSet(a) = ToSet(s) \cup {x}
  BY <1>1 DEF ToSet
<1>3. ASSUME Distinct(s), x \notin ToSet(s) PROVE Distinct(a)
  BY <1>1, <1>3 DEF Distinct, ToSet
<1>4. QED
  BY <1>1, <1>2, <1>3 DEF a

\* Taking the first element.
LEMMA TailKeeps ==
  ASSUME NEW S, NEW s \in Seq(S), Len(s) >= 1, Distinct(s)
  PROVE  /\ Tail(s) \in Seq(S) /\ Len(Tail(s)) = Len(s) - 1
         /\ Head(s) \in S /\ Head(s) \in ToSet(s)
         /\ ToSet(Tail(s)) = ToSet(s) \ {Head(s)}
         /\ Distinct(Tail(s))
<1> DEFINE t == Tail(s)
<1>1. /\ t \in Seq(S) /\ Len(t) = Len(s) - 1 /\ Len(s) \in Nat
      /\ DOMAIN t = 1..(Len(s) - 1) /\ DOMAIN s = 1..Len(s)
      /\ Head(s) = s[1] /\ s[1] \in S
      /\ \A i \in 1..(Len(s) - 1) : t[i] = s[i + 1]
  OBVIOUS
<1> HIDE DEF t
<1>2. Head(s) \in ToSet(s)
  BY <1>1 DEF ToSet
<1>3. ToSet(t) \subseteq ToSet(s) \ {Head(s)}
  BY <1>1 DEF ToSet, Distinct
<1>4. ASSUME NEW y \in ToSet(s), y # Head(s) PROVE y \in ToSet(t)
  <2>1. PICK i \in 1..Len(s) : y = s[i]
    BY <1>1 DEF ToSet
  <2>2. i - 1 \in 1..(Len(s) - 1) /\ (i - 1) + 1 = i
    BY <1>1, <1>4, <2>1
  <2>3. t[i - 1] = y
    BY <1>1, <2>1, <2>2
  <2>4. QED
    BY <1>1, <2>2, <2>3 DEF ToSet
<1>5. Distinct(t)
  <2> SUFFICES ASSUME NEW i \in 1..Len(t), NEW j \in 1..Len(t), t[i] = t[j] PROVE i = j
    BY DEF Distinct
  <2>1. i + 1 \in 1..Len(s) /\ j + 1 \in 1..Len(s) /\ s[i + 1] = s[j + 1]
    BY <1>1
  <2>2. i + 1 = j + 1
    BY <2>1 DEF Distinct
  <2>3. QED
    BY <1>1, <2>2
<1>6. QED
  BY <1>1, <1>2, <1>3, <1>4, <1>5 DEF t

\* An element is in such a sequence once or not at all.
LEMMA CountOnce ==
  ASSUME NEW S, NEW s \in Seq(S), Distinct(s), NEW x
  PROVE  Cardinality({i \in 1..Len(s) : s[i] = x}) = IF x \in ToSet(s) THEN 1 ELSE 0
<1> DEFINE P == {i \in 1..Len(s) : s[i] = x}
<1>0. DOMAIN s = 1..Len(s)
  OBVIOUS
<1>1. CASE x \in ToSet(s)
  <2>1. PICK i \in 1..Len(s) : s[i] = x
    BY <1>0, <1>1 DEF ToSet
  <2>2. P = {i}
    BY <2>1 DEF Distinct
  <2>3. QED
    BY <1>1, <2>2, FS_Singleton
<1>2. CASE x \notin ToSet(s)
  <2>1. P = {}
    BY <1>0, <1>2 DEF ToSet
  <2>2. QED
    BY <1>2, <2>1, FS_EmptySet
<1>3. QED
  BY <1>1, <1>2

-----------------------------------------------------------------------------
(* A queue in memory and on disk *)

\* No message is in the queue twice, in memory and on disk together.
QueueOK(q) ==
  /\ q \in Queue /\ Len(q.mem) =< MemQueueSize
  /\ Distinct(q.mem) /\ Distinct(q.back)
  /\ ToSet(q.mem) \cap ToSet(q.back) = {}

\* The empty queue.
LEMMA EmptyQueue == QueueOK(Empty) /\ Queued(Empty) = {}
<1>1. /\ <<>> \in Seq(Message) /\ <<>> \in Seq(Message \ Large) /\ Len(<<>>) = 0
      /\ ToSet(<<>>) = {}
  BY DEF ToSet
<1>2. Distinct(<<>>)
  BY <1>1 DEF Distinct
<1>3. QED
  BY <1>1, <1>2, BoundsAssumption DEF QueueOK, Queued, Empty, Queue

\* What is queued are messages, and those on disk are not too long for it.
LEMMA QueueFacts ==
  ASSUME NEW q, QueueOK(q)
  PROVE  /\ q.mem \in Seq(Message) /\ q.back \in Seq(Message \ Large)
         /\ Len(q.mem) \in Nat /\ Len(q.back) \in Nat /\ Len(q.mem) =< MemQueueSize
         /\ q = [mem |-> q.mem, back |-> q.back]
         /\ Distinct(q.mem) /\ Distinct(q.back) /\ ToSet(q.mem) \cap ToSet(q.back) = {}
         /\ Queued(q) \subseteq Message
<1>1. /\ q.mem \in Seq(Message) /\ q.back \in Seq(Message \ Large)
      /\ q = [mem |-> q.mem, back |-> q.back]
  BY DEF QueueOK, Queue
<1>2. Len(q.mem) \in Nat /\ Len(q.back) \in Nat
  BY <1>1
<1>3. ToSet(q.mem) \subseteq Message /\ ToSet(q.back) \subseteq Message
  BY <1>1 DEF ToSet
<1>4. QED
  BY <1>1, <1>2, <1>3 DEF QueueOK, Queued

\* put() adds the message, unless the disk queue refuses it.
LEMMA PutFacts ==
  ASSUME NEW q, QueueOK(q), NEW m \in Message, m \notin Queued(q)
  PROVE  /\ QueueOK(put(q, m))
         /\ Queued(put(q, m)) = IF Refused(q, m) THEN Queued(q) ELSE Queued(q) \cup {m}
<1>1. /\ q.mem \in Seq(Message) /\ q.back \in Seq(Message \ Large)
      /\ Len(q.mem) \in Nat /\ Len(q.back) \in Nat /\ Len(q.mem) =< MemQueueSize
      /\ q = [mem |-> q.mem, back |-> q.back]
      /\ Distinct(q.mem) /\ Distinct(q.back) /\ ToSet(q.mem) \cap ToSet(q.back) = {}
  BY QueueFacts
<1>2. MemQueueSize \in Nat
  BY BoundsAssumption
<1>3. m \notin ToSet(q.mem) /\ m \notin ToSet(q.back)
  BY DEF Queued
<1>4. CASE Len(q.mem) < MemQueueSize
  <2> DEFINE a == Append(q.mem, m)
  <2>1. a \in Seq(Message) /\ Len(a) = Len(q.mem) + 1 /\ ToSet(a) = ToSet(q.mem) \cup {m} /\ Distinct(a)
    BY <1>1, <1>3, AppendKeeps
  <2>2. put(q, m) = [mem |-> a, back |-> q.back]
    BY <1>1, <1>4 DEF put
  <2>3. ~Refused(q, m)
    BY <1>1, <1>2, <1>4 DEF Refused
  <2> HIDE DEF a
  <2>4. QED
    BY <1>1, <1>2, <1>3, <1>4, <2>1, <2>2, <2>3 DEF QueueOK, Queued, Queue
<1>5. CASE ~(Len(q.mem) < MemQueueSize) /\ m \in Large
  <2>1. put(q, m) = q /\ Refused(q, m)
    BY <1>1, <1>2, <1>5 DEF put, Refused
  <2>2. QED
    BY <2>1
<1>6. CASE ~(Len(q.mem) < MemQueueSize) /\ m \notin Large
  <2> DEFINE a == Append(q.back, m)
  <2>1. /\ a \in Seq(Message \ Large) /\ ToSet(a) = ToSet(q.back) \cup {m} /\ Distinct(a)
    BY <1>1, <1>3, <1>6, AppendKeeps
  <2>2. put(q, m) = [mem |-> q.mem, back |-> a]
    BY <1>1, <1>6 DEF put
  <2>3. ~Refused(q, m)
    BY <1>6 DEF Refused
  <2> HIDE DEF a
  <2>4. QED
    BY <1>1, <1>3, <2>1, <2>2, <2>3 DEF QueueOK, Queued, Queue
<1>7. QED
  BY <1>4, <1>5, <1>6

\* A receive takes the head of one of the two.
LEMMA HeadsFacts ==
  ASSUME NEW q, QueueOK(q), NEW h \in Heads(q)
  PROVE  /\ h[1] \in Queued(q) /\ h[1] \in Message
         /\ QueueOK(h[2]) /\ Queued(h[2]) = Queued(q) \ {h[1]}
<1>1. /\ q.mem \in Seq(Message) /\ q.back \in Seq(Message \ Large)
      /\ Len(q.mem) \in Nat /\ Len(q.back) \in Nat /\ Len(q.mem) =< MemQueueSize
      /\ q = [mem |-> q.mem, back |-> q.back]
      /\ Distinct(q.mem) /\ Distinct(q.back) /\ ToSet(q.mem) \cap ToSet(q.back) = {}
      /\ Queued(q) \subseteq Message
  BY QueueFacts
<1>2. MemQueueSize \in Nat
  BY BoundsAssumption
<1>3. CASE Len(q.mem) >= 1 /\ h = <<Head(q.mem), [q EXCEPT !.mem = Tail(@)]>>
  <2> DEFINE x == Head(q.mem)
             t == Tail(q.mem)
  <2>1. /\ t \in Seq(Message) /\ Len(t) = Len(q.mem) - 1 /\ x \in ToSet(q.mem)
        /\ ToSet(t) = ToSet(q.mem) \ {x} /\ Distinct(t)
    BY <1>1, <1>3, TailKeeps
  <2>2. h[1] = x /\ h[2] = [mem |-> t, back |-> q.back]
    BY <1>1, <1>3
  <2> HIDE DEF t, x
  <2>3. h[1] \in Queued(q)
    BY <2>1, <2>2 DEF Queued
  <2>4. QED
    BY <1>1, <1>2, <2>1, <2>2, <2>3 DEF QueueOK, Queued, Queue
<1>4. CASE Len(q.back) >= 1 /\ h = <<Head(q.back), [q EXCEPT !.back = Tail(@)]>>
  <2> DEFINE x == Head(q.back)
             t == Tail(q.back)
  <2>1. /\ t \in Seq(Message \ Large) /\ x \in ToSet(q.back)
        /\ ToSet(t) = ToSet(q.back) \ {x} /\ Distinct(t)
    BY <1>1, <1>4, TailKeeps
  <2>2. h[1] = x /\ h[2] = [mem |-> q.mem, back |-> t]
    BY <1>1, <1>4
  <2> HIDE DEF t, x
  <2>3. h[1] \in Queued(q)
    BY <2>1, <2>2 DEF Queued
  <2>4. QED
    BY <1>1, <2>1, <2>2, <2>3 DEF QueueOK, Queued, Queue
<1>5. QED
  BY <1>1, <1>3, <1>4 DEF Heads

-----------------------------------------------------------------------------
(* The inductive invariant *)

ClientRec ==
  [io : {"ready", "getchannel", "event", "closed"},
   want : Channels \cup {None}, event : Channels \cup {None}, sub : Channels \cup {None},
   msg : Message \cup {None}, pump : {"run", "exit"}, conn : {"open", "gone", "closed"},
   got : SUBSET Message, subs : Nat]

Types ==
  /\ published \in Nat /\ published =< MaxPub
  /\ channelMap \subseteq Channels /\ chans \subseteq channelMap
  /\ pump \in [msg : Message \cup {None}, left : SUBSET Channels]
  /\ pump.left # {} => pump.msg \in Message
  /\ channelQ \in [Channels -> Queue]
  /\ inFlight \in [Channels -> SUBSET (Message \X Clients)]
  /\ client \in [Clients -> ClientRec]
  /\ known \in [Message -> SUBSET Channels]
  /\ due \in [Message -> (SUBSET Channels) \cup {None}]

\* The topic's queue has the messages that the pump has not taken.
TopicOK ==
  /\ QueueOK(topicQ)
  /\ Queued(topicQ) = {m \in 1..published : due[m] = None}
  /\ \A m \in Message : m > published => due[m] = None

Taken(c) == {f[1] : f \in inFlight[c]}
Pending(c) == IF c \in pump.left THEN {pump.msg} ELSE {}
Held(c) == Queued(channelQ[c]) \cup Taken(c) \cup Pending(c)

\* A channel holds nothing twice.
ChannelsOK ==
  \A c \in Channels :
    /\ QueueOK(channelQ[c])
    /\ \A f, g \in inFlight[c] : f[1] = g[1] => f = g
    /\ Queued(channelQ[c]) \cap Taken(c) = {}
    /\ Pending(c) \cap Queued(channelQ[c]) = {} /\ Pending(c) \cap Taken(c) = {}

\* It holds what it was owed and nothing else.
DueOK ==
  \A c \in Channels : \A m \in Message : m \in Held(c) <=> due[m] # None /\ c \in due[m]

\* The pump never forgets a channel.
KnownOK ==
  /\ \A m \in 1..published : known[m] \subseteq chans
  /\ NoChannelForgotten

IInv == Types /\ TopicOK /\ ChannelsOK /\ DueOK /\ KnownOK /\ LostOnlyWithConnection

-----------------------------------------------------------------------------
(* The steps *)

\* A message is not mistaken for no message, nor a set of channels for none.
LEMMA NoneFacts ==
  /\ None \notin Message /\ None \notin Channels /\ \A s \in SUBSET Channels : s # None
  BY NoneAssumption DEF Message

\* A step of one connection that moves no message and loses none: the loop
\* and the pump of the connection, and what they do to the topic's channels.
LEMMA ClientStep ==
  ASSUME IInv, NEW k \in Clients, NEW r \in ClientRec,
         client' = [client EXCEPT ![k] = r],
         r.conn = "open" => /\ client[k].conn = "open" /\ client[k].got \subseteq r.got
                            /\ client[k].msg # None => client[k].msg \in r.got \cup {r.msg},
         UNCHANGED <<published, topicQ, pump, channelQ, inFlight, known, due>>,
         channelMap' \subseteq Channels, chans' \subseteq channelMap', chans \subseteq chans'
  PROVE  IInv'
<1> USE DEF IInv
<1>1. /\ client' \in [Clients -> ClientRec] /\ client'[k] = r
      /\ \A j \in Clients : j # k => client'[j] = client[j]
  BY DEF Types
<1>2. Types'
  BY <1>1 DEF Types
<1>3. TopicOK'
  BY DEF TopicOK
<1>4. ChannelsOK' /\ DueOK'
  BY DEF ChannelsOK, DueOK, Held, Taken, Pending
<1>5. KnownOK'
  BY DEF KnownOK, NoChannelForgotten
<1>6. LostOnlyWithConnection'
  <2> SUFFICES ASSUME NEW c \in Channels, NEW f \in inFlight[c]
               PROVE  \/ f[1] \in client'[f[2]].got \cup {client'[f[2]].msg}
                      \/ client'[f[2]].conn # "open"
    BY DEF LostOnlyWithConnection
  <2>1. f[1] \in Message /\ f[2] \in Clients /\ f[1] # None
    BY NoneFacts DEF Types
  <2>2. \/ f[1] \in client[f[2]].got \cup {client[f[2]].msg}
        \/ client[f[2]].conn # "open"
    BY DEF LostOnlyWithConnection
  <2>3. CASE f[2] # k
    BY <1>1, <2>1, <2>2, <2>3
  <2>4. CASE f[2] = k
    BY <1>1, <2>1, <2>2, <2>4
  <2>5. QED
    BY <2>3, <2>4
<1>7. QED
  BY <1>2, <1>3, <1>4, <1>5, <1>6

\* What is known of one connection.
LEMMA ClientType ==
  ASSUME IInv, NEW k \in Clients
  PROVE  /\ client[k] \in ClientRec /\ channelMap \subseteq Channels /\ chans \subseteq channelMap
         /\ client[k].want \in Channels \cup {None} /\ client[k].event \in Channels \cup {None}
         /\ client[k].msg \in Message \cup {None} /\ client[k].got \subseteq Message
         /\ client[k].sub \in Channels \cup {None} /\ client[k].subs \in Nat
         /\ client[k].conn \in {"open", "gone", "closed"}
<1>1. client[k] \in ClientRec /\ channelMap \subseteq Channels /\ chans \subseteq channelMap
  BY DEF IInv, Types
<1>2. QED
  BY <1>1 DEF ClientRec

\* The pump of the topic learns of the channels.
LEMMA ChannelUpdateStep == ASSUME IInv, NEW k \in Clients, ChannelUpdate(k) PROVE IInv'
<1> DEFINE r == [client[k] EXCEPT !.io = "event"]
<1>1. client' = [client EXCEPT ![k] = r]
  BY DEF ChannelUpdate
<1>2. r \in ClientRec /\ r.conn = client[k].conn /\ r.got = client[k].got /\ r.msg = client[k].msg
  BY ClientType DEF ClientRec
<1> HIDE DEF r
<1>3. /\ UNCHANGED <<published, topicQ, pump, channelQ, inFlight, known, due>>
      /\ channelMap' = channelMap /\ chans' = channelMap
  BY DEF ChannelUpdate, Updated
<1>4. channelMap' \subseteq Channels /\ chans' \subseteq channelMap' /\ chans \subseteq chans'
  BY <1>3, ClientType
<1>5. QED
  BY <1>1, <1>2, <1>3, <1>4, ClientStep

\* SUB finds or makes a channel.
LEMMA SUBStep == ASSUME IInv, NEW k \in Clients, NEW c \in Channels, SUB(k, c) PROVE IInv'
<1> DEFINE i == IF c \in channelMap THEN "event" ELSE "getchannel"
           n == client[k].subs + 1
           r == [client[k] EXCEPT !.io = i, !.want = c, !.subs = n]
<1>0. i \in {"event", "getchannel"} /\ n \in Nat
  BY ClientType
<1>1. client' = [client EXCEPT ![k] = r]
  BY DEF SUB
<1> HIDE DEF i, n
<1>2. r \in ClientRec /\ r.conn = client[k].conn /\ r.got = client[k].got /\ r.msg = client[k].msg
  BY <1>0, ClientType DEF ClientRec
<1> HIDE DEF r
<1>3. /\ UNCHANGED <<published, topicQ, pump, channelQ, inFlight, known, due>>
      /\ channelMap' = channelMap \cup {c} /\ chans' = chans
  BY DEF SUB
<1>4. channelMap' \subseteq Channels /\ chans' \subseteq channelMap' /\ chans \subseteq chans'
  BY <1>3, ClientType
<1>5. QED
  BY <1>1, <1>2, <1>3, <1>4, ClientStep

\* The other steps of a connection leave the channels of the topic alone.
LEMMA ConnectionStep ==
  ASSUME IInv, NEW k \in Clients, NEW r \in ClientRec,
         client' = [client EXCEPT ![k] = r],
         r.conn = "open" => /\ client[k].conn = "open" /\ client[k].got \subseteq r.got
                            /\ client[k].msg # None => client[k].msg \in r.got \cup {r.msg},
         UNCHANGED <<published, topicQ, channelMap, chans, pump, channelQ, inFlight, known, due>>
  PROVE  IInv'
<1>1. channelMap' \subseteq Channels /\ chans' \subseteq channelMap' /\ chans \subseteq chans'
  BY ClientType
<1>2. QED
  BY <1>1, ClientStep

\* The channel is passed to the pump of the connection.
LEMMA SubEventStep == ASSUME IInv, NEW k \in Clients, SubEvent(k) PROVE IInv'
<1> DEFINE r == [client[k] EXCEPT !.event = client[k].want, !.io = "ready"]
<1>1. client' = [client EXCEPT ![k] = r]
  BY DEF SubEvent
<1>2. r \in ClientRec /\ r.conn = client[k].conn /\ r.got = client[k].got /\ r.msg = client[k].msg
  BY ClientType DEF ClientRec
<1> HIDE DEF r
<1>3. QED
  BY <1>1, <1>2, ConnectionStep DEF SubEvent

\* The loop of a connection ends.
LEMMA BreakStep == ASSUME IInv, NEW k \in Clients, Break(k) PROVE IInv'
<1> DEFINE r == [client[k] EXCEPT !.io = "closed", !.conn = "closed"]
<1>1. client' = [client EXCEPT ![k] = r]
  BY DEF Break
<1>2. r \in ClientRec /\ r.conn = "closed"
  BY ClientType DEF ClientRec
<1> HIDE DEF r
<1>3. QED
  BY <1>1, <1>2, ConnectionStep DEF Break

\* The peer of a connection goes.
LEMMA HangupStep == ASSUME IInv, NEW k \in Clients, Hangup(k) PROVE IInv'
<1> DEFINE r == [client[k] EXCEPT !.conn = "gone"]
<1>1. client' = [client EXCEPT ![k] = r]
  BY DEF Hangup
<1>2. r \in ClientRec /\ r.conn = "gone"
  BY ClientType DEF ClientRec
<1> HIDE DEF r
<1>3. QED
  BY <1>1, <1>2, ConnectionStep DEF Hangup

\* The pump of the connection takes its channel.
LEMMA SubscribeStep == ASSUME IInv, NEW k \in Clients, Subscribe(k) PROVE IInv'
<1> DEFINE r == [client[k] EXCEPT !.sub = client[k].event, !.event = None]
<1>1. client' = [client EXCEPT ![k] = r]
  BY DEF Subscribe
<1>2. r \in ClientRec /\ r.conn = client[k].conn /\ r.got = client[k].got /\ r.msg = client[k].msg
  BY ClientType DEF ClientRec
<1> HIDE DEF r
<1>3. QED
  BY <1>1, <1>2, ConnectionStep DEF Subscribe

\* A message is sent: on an open connection it arrives.
LEMMA SendMessageStep == ASSUME IInv, NEW k \in Clients, SendMessage(k) PROVE IInv'
<1>1. client[k].msg # None /\ client[k].msg \in Message
  BY ClientType DEF SendMessage
<1>2. PICK ok \in BOOLEAN : client' = [client EXCEPT ![k] =
         [@ EXCEPT !.msg = None,
                   !.pump = IF ok THEN client[k].pump ELSE "exit",
                   !.got = client[k].got \cup
                             (IF client[k].conn = "open" THEN {client[k].msg} ELSE {})]]
  <2>1. client[k].conn \in {"open", "gone", "closed"}
    BY ClientType
  <2>2. CASE client[k].conn = "open"
    BY <2>2 DEF SendMessage
  <2>3. CASE client[k].conn = "gone"
    BY <2>3 DEF SendMessage
  <2>4. CASE client[k].conn = "closed"
    BY <2>4 DEF SendMessage
  <2>5. QED
    BY <2>1, <2>2, <2>3, <2>4
<1> DEFINE g == client[k].got \cup (IF client[k].conn = "open" THEN {client[k].msg} ELSE {})
           p == IF ok THEN client[k].pump ELSE "exit"
           r == [client[k] EXCEPT !.msg = None, !.pump = p, !.got = g]
<1>3. client' = [client EXCEPT ![k] = r]
  BY <1>2
<1>4. g \subseteq Message /\ p \in {"run", "exit"}
  BY <1>1, ClientType DEF ClientRec
<1>5. client[k].conn = "open" => client[k].got \subseteq g /\ client[k].msg \in g
  OBVIOUS
<1> HIDE DEF g, p
<1>6. r \in ClientRec /\ r.conn = client[k].conn /\ r.got = g /\ r.msg = None
  BY <1>4, ClientType DEF ClientRec
<1> HIDE DEF r
<1>7. QED
  BY <1>3, <1>5, <1>6, ConnectionStep DEF SendMessage

\* What is owed of a message is a set of channels.
LEMMA DueIsSet ==
  ASSUME IInv, NEW m \in Message
  PROVE  due[m] # None => due[m] \in SUBSET Channels
  BY DEF IInv, Types

\* A new message enters the topic's queue or is refused.
LEMMA PUBStep == ASSUME IInv, PUB PROVE IInv'
<1> USE DEF IInv
<1> DEFINE n == published + 1
           d == IF Refused(topicQ, n) THEN {} ELSE None
<1>1. /\ n \in Message /\ published' = n /\ topicQ' = put(topicQ, n)
      /\ known' = [known EXCEPT ![n] = chans] /\ due' = [due EXCEPT ![n] = d]
      /\ channelMap' = channelMap /\ chans' = chans /\ pump' = pump /\ channelQ' = channelQ
      /\ inFlight' = inFlight /\ client' = client
  BY DEF PUB
<1>2. published \in Nat /\ n \in Nat /\ n > published /\ n =< MaxPub /\ MaxPub \in Nat
  BY <1>1, BoundsAssumption DEF Types, Message
<1>3. due[n] = None /\ n \notin Queued(topicQ)
  BY <1>1, <1>2 DEF TopicOK
<1>4. d = None \/ d = {}
  OBVIOUS
<1>5. /\ due' \in [Message -> (SUBSET Channels) \cup {None}] /\ due'[n] = d
      /\ \A m \in Message : m # n => due'[m] = due[m]
  BY <1>1, <1>4 DEF Types
<1>6. /\ known' \in [Message -> SUBSET Channels] /\ known'[n] = chans
      /\ \A m \in Message : m # n => known'[m] = known[m]
  BY <1>1 DEF Types
<1>7. Types'
  BY <1>1, <1>2, <1>5, <1>6 DEF Types
<1>8. /\ QueueOK(topicQ')
      /\ Queued(topicQ') = IF Refused(topicQ, n) THEN Queued(topicQ) ELSE Queued(topicQ) \cup {n}
  BY <1>1, <1>3, PutFacts DEF TopicOK
<1>9. d = None <=> ~Refused(topicQ, n)
  BY NoneFacts
<1>10. d = {} => n \in Large
  BY NoneFacts DEF Refused
<1> HIDE DEF n, d
<1>11. 1..published \subseteq Message /\ 1..published' = 1..published \cup {n} /\ n \notin 1..published
  BY <1>1, <1>2 DEF n, Message
<1>12. TopicOK'
  <2>1. Queued(topicQ) = {m \in 1..published : due[m] = None}
    BY DEF TopicOK
  <2>2. Queued(topicQ') = {m \in 1..published' : due'[m] = None}
    BY <1>5, <1>8, <1>9, <1>11, <2>1
  <2>3. \A m \in Message : m > published' => due'[m] = None
    <3> SUFFICES ASSUME NEW m \in Message, m > published' PROVE due'[m] = None
      OBVIOUS
    <3>1. m # n /\ m > published
      BY <1>1, <1>2 DEF Message
    <3>2. QED
      BY <1>5, <3>1 DEF TopicOK
  <2>4. QED
    BY <1>8, <2>2, <2>3 DEF TopicOK
<1>13. ChannelsOK'
  BY <1>1 DEF ChannelsOK, Taken, Pending
<1>14. DueOK'
  <2>1. \A c \in Channels : Held(c)' = Held(c)
    BY <1>1 DEF Held, Taken, Pending
  <2>2. QED
    BY <1>1, <1>3, <1>4, <1>5, <2>1 DEF DueOK
<1>15. KnownOK'
  <2>1. \A m \in 1..published' : known'[m] \subseteq chans'
    BY <1>1, <1>6, <1>11 DEF KnownOK
  <2>2. NoChannelForgotten'
    <3> SUFFICES ASSUME NEW m \in 1..published', m \notin Large, due'[m] # None
                 PROVE  known'[m] \subseteq due'[m]
      BY DEF NoChannelForgotten
    <3>1. m \in 1..published /\ m # n /\ m \in Message
      BY <1>4, <1>5, <1>1, <1>10, <1>11
    <3>2. QED
      BY <1>5, <1>6, <3>1 DEF KnownOK, NoChannelForgotten
  <2>3. QED
    BY <2>1, <2>2 DEF KnownOK
<1>16. LostOnlyWithConnection'
  BY <1>1 DEF LostOnlyWithConnection
<1>17. QED
  BY <1>7, <1>12, <1>13, <1>14, <1>15, <1>16

\* The topic's pump takes a message for all channels it knows.
LEMMA TakeStep == ASSUME IInv, Take PROVE IInv'
<1> USE DEF IInv
<1>1. PICK h \in Heads(topicQ) :
        /\ pump' = [msg |-> h[1], left |-> chans] /\ topicQ' = h[2]
        /\ due' = [due EXCEPT ![h[1]] = chans]
  BY DEF Take
<1>2. /\ pump.left = {} /\ published' = published /\ channelMap' = channelMap /\ chans' = chans
      /\ channelQ' = channelQ /\ inFlight' = inFlight /\ client' = client /\ known' = known
  BY DEF Take
<1> DEFINE n == h[1]
<1>3. /\ n \in Queued(topicQ) /\ n \in Message
      /\ QueueOK(topicQ') /\ Queued(topicQ') = Queued(topicQ) \ {n}
  BY <1>1, HeadsFacts DEF TopicOK
<1>4. pump' = [msg |-> n, left |-> chans] /\ due' = [due EXCEPT ![n] = chans]
  BY <1>1
<1> HIDE DEF n
<1>5. n \in 1..published /\ due[n] = None
  BY <1>3 DEF TopicOK
<1>6. chans \in SUBSET Channels /\ chans # None
  BY NoneFacts DEF Types
<1>7. /\ due' \in [Message -> (SUBSET Channels) \cup {None}] /\ due'[n] = chans
      /\ \A m \in Message : m # n => due'[m] = due[m]
  BY <1>3, <1>4, <1>6 DEF Types
<1>8. Types'
  BY <1>2, <1>3, <1>4, <1>6, <1>7 DEF Types
<1>9. 1..published \subseteq Message
  BY BoundsAssumption DEF Types, Message
<1>10. TopicOK'
  <2>1. /\ Queued(topicQ) = {m \in 1..published : due[m] = None}
        /\ \A m \in Message : m > published => due[m] = None
    BY DEF TopicOK
  <2>2. Queued(topicQ') = {m \in 1..published : due'[m] = None}
    BY <1>3, <1>5, <1>6, <1>7, <1>9, <2>1
  <2>3. \A m \in Message : m > published => due'[m] = None
    <3> SUFFICES ASSUME NEW m \in Message, m > published PROVE due'[m] = None
      OBVIOUS
    <3>1. m # n
      BY <1>5 DEF Types, Message
    <3>2. QED
      BY <1>7, <2>1, <3>1
  <2>4. QED
    BY <1>2, <1>3, <2>2, <2>3 DEF TopicOK
<1>11. \A c \in Channels : n \notin Held(c)
  BY <1>3, <1>5 DEF DueOK
<1>12. \A c \in Channels : /\ Taken(c)' = Taken(c) /\ Pending(c) = {}
                           /\ Pending(c)' = IF c \in chans THEN {n} ELSE {}
                           /\ Held(c)' = Held(c) \cup (IF c \in chans THEN {n} ELSE {})
  BY <1>2, <1>4 DEF Held, Taken, Pending
<1>13. ChannelsOK'
  <2> SUFFICES ASSUME NEW c \in Channels
               PROVE  /\ QueueOK(channelQ'[c])
                      /\ \A f, g \in inFlight'[c] : f[1] = g[1] => f = g
                      /\ Queued(channelQ'[c]) \cap Taken(c)' = {}
                      /\ Pending(c)' \cap Queued(channelQ'[c]) = {} /\ Pending(c)' \cap Taken(c)' = {}
    BY DEF ChannelsOK
  <2>1. n \notin Queued(channelQ[c]) /\ n \notin Taken(c)
    BY <1>11 DEF Held
  <2>2. QED
    BY <1>2, <1>12, <2>1 DEF ChannelsOK
<1>14. DueOK'
  <2> SUFFICES ASSUME NEW c \in Channels, NEW m \in Message
               PROVE  m \in Held(c)' <=> due'[m] # None /\ c \in due'[m]
    BY DEF DueOK
  <2>1. CASE m = n
    BY <1>6, <1>7, <1>11, <1>12, <2>1
  <2>2. CASE m # n
    BY <1>7, <1>12, <2>2 DEF DueOK
  <2>3. QED
    BY <2>1, <2>2
<1>15. KnownOK'
  <2>1. \A m \in 1..published' : known'[m] \subseteq chans'
    BY <1>2 DEF KnownOK
  <2>2. NoChannelForgotten'
    <3> SUFFICES ASSUME NEW m \in 1..published, m \notin Large, due'[m] # None
                 PROVE  known'[m] \subseteq due'[m]
      BY <1>2 DEF NoChannelForgotten
    <3>1. CASE m = n
      BY <1>2, <1>7, <2>1, <3>1
    <3>2. CASE m # n
      BY <1>2, <1>7, <1>9, <3>2 DEF KnownOK, NoChannelForgotten
    <3>3. QED
      BY <3>1, <3>2
  <2>3. QED
    BY <2>1, <2>2 DEF KnownOK
<1>16. LostOnlyWithConnection'
  BY <1>2 DEF LostOnlyWithConnection
<1>17. QED
  BY <1>8, <1>10, <1>13, <1>14, <1>15, <1>16

\* The message goes to one more channel, or is refused by its disk queue.
LEMMA PutMessageStep == ASSUME IInv, NEW c \in Channels, PutMessage(c) PROVE IInv'
<1> USE DEF IInv
<1> DEFINE n == pump.msg
           q == put(channelQ[c], n)
           d == IF Refused(channelQ[c], n) THEN due[n] \ {c} ELSE due[n]
           l == pump.left \ {c}
<1>1. /\ c \in pump.left /\ channelQ' = [channelQ EXCEPT ![c] = q]
      /\ pump' = [pump EXCEPT !.left = l]
      /\ due' = IF Refused(channelQ[c], n) THEN [due EXCEPT ![n] = d] ELSE due
      /\ published' = published /\ topicQ' = topicQ /\ channelMap' = channelMap /\ chans' = chans
      /\ inFlight' = inFlight /\ client' = client /\ known' = known
  BY DEF PutMessage
<1>2. n \in Message /\ pump \in [msg : Message \cup {None}, left : SUBSET Channels]
  BY <1>1 DEF Types
<1>3. n \notin Queued(channelQ[c]) /\ n \notin Taken(c) /\ QueueOK(channelQ[c]) /\ n \in Held(c)
  BY <1>1 DEF ChannelsOK, Pending, Held
<1>4. due[n] # None /\ c \in due[n] /\ due[n] \in SUBSET Channels
  BY <1>2, <1>3, DueIsSet DEF DueOK
<1>5. n \in 1..published /\ n \notin Queued(topicQ)
  <2>1. ~(n > published)
    BY <1>2, <1>4 DEF TopicOK
  <2>2. n \in 1..published
    BY <1>2, <2>1, BoundsAssumption DEF Types, Message
  <2>3. QED
    BY <1>4, <2>2 DEF TopicOK
<1>6. /\ QueueOK(q)
      /\ Queued(q) = IF Refused(channelQ[c], n) THEN Queued(channelQ[c]) ELSE Queued(channelQ[c]) \cup {n}
  BY <1>2, <1>3, PutFacts
<1>7. d \in SUBSET Channels /\ d # None
  BY <1>4, NoneFacts
<1>8. /\ due' \in [Message -> (SUBSET Channels) \cup {None}] /\ due'[n] = d
      /\ \A m \in Message : m # n => due'[m] = due[m]
  <2>1. CASE Refused(channelQ[c], n)
    BY <1>1, <1>2, <1>7, <2>1 DEF Types
  <2>2. CASE ~Refused(channelQ[c], n)
    BY <1>1, <2>2 DEF Types
  <2>3. QED
    BY <2>1, <2>2
<1>9. /\ pump'.msg = n /\ pump'.left = l
      /\ pump' \in [msg : Message \cup {None}, left : SUBSET Channels]
  BY <1>1, <1>2
<1>10. /\ channelQ' \in [Channels -> Queue] /\ channelQ'[c] = q
       /\ \A e \in Channels : e # c => channelQ'[e] = channelQ[e]
  BY <1>1, <1>6 DEF Types, QueueOK
<1>11. n \notin Large => d = due[n]
  BY DEF Refused
<1>12. Refused(channelQ[c], n) => d = due[n] \ {c}
  OBVIOUS
<1>13. ~Refused(channelQ[c], n) => d = due[n]
  OBVIOUS
<1> HIDE DEF n, q, d
<1>14. Types'
  BY <1>1, <1>2, <1>8, <1>9, <1>10 DEF Types
<1>15. 1..published \subseteq Message
  BY BoundsAssumption DEF Types, Message
<1>16. TopicOK'
  <2>1. /\ Queued(topicQ) = {m \in 1..published : due[m] = None}
        /\ \A m \in Message : m > published => due[m] = None
    BY DEF TopicOK
  <2>2. \A m \in Message : due'[m] = None <=> due[m] = None
    BY <1>4, <1>7, <1>8
  <2>3. QED
    BY <1>1, <1>15, <2>1, <2>2 DEF TopicOK
<1>17. \A e \in Channels : Taken(e)' = Taken(e)
  BY <1>1 DEF Taken
<1>18. /\ Pending(c) = {n} /\ Pending(c)' = {}
       /\ \A e \in Channels : e # c => Pending(e)' = Pending(e)
  BY <1>1, <1>9 DEF Pending, n
<1>19. ChannelsOK'
  <2> SUFFICES ASSUME NEW e \in Channels
               PROVE  /\ QueueOK(channelQ'[e])
                      /\ \A f, g \in inFlight'[e] : f[1] = g[1] => f = g
                      /\ Queued(channelQ'[e]) \cap Taken(e)' = {}
                      /\ Pending(e)' \cap Queued(channelQ'[e]) = {} /\ Pending(e)' \cap Taken(e)' = {}
    BY DEF ChannelsOK
  <2>1. CASE e # c
    BY <1>1, <1>10, <1>17, <1>18, <2>1 DEF ChannelsOK
  <2>2. CASE e = c
    <3>1. Queued(channelQ[c]) \cap Taken(c) = {} /\ \A f, g \in inFlight[c] : f[1] = g[1] => f = g
      BY DEF ChannelsOK
    <3>2. QED
      BY <1>1, <1>3, <1>6, <1>10, <1>17, <1>18, <2>2, <3>1
  <2>3. QED
    BY <2>1, <2>2
<1>20. DueOK'
  <2> SUFFICES ASSUME NEW e \in Channels, NEW m \in Message
               PROVE  m \in Held(e)' <=> due'[m] # None /\ e \in due'[m]
    BY DEF DueOK
  <2>1. m \in Held(e) <=> due[m] # None /\ e \in due[m]
    BY DEF DueOK
  <2>2. CASE e # c
    <3>1. Held(e)' = Held(e)
      BY <1>10, <1>17, <1>18, <2>2 DEF Held
    <3>2. due'[m] # None /\ e \in due'[m] <=> due[m] # None /\ e \in due[m]
      BY <1>4, <1>7, <1>8, <1>12, <1>13, <2>2
    <3>3. QED
      BY <2>1, <3>1, <3>2
  <2>3. CASE e = c /\ Refused(channelQ[c], n)
    <3>1. Held(c)' = Held(c) \ {n}
      BY <1>3, <1>6, <1>10, <1>17, <1>18, <2>3 DEF Held
    <3>2. due'[m] # None /\ c \in due'[m] <=> m # n /\ due[m] # None /\ c \in due[m]
      BY <1>4, <1>7, <1>8, <1>12, <2>3
    <3>3. QED
      BY <2>1, <2>3, <3>1, <3>2
  <2>4. CASE e = c /\ ~Refused(channelQ[c], n)
    <3>1. Held(c)' = Held(c)
      BY <1>6, <1>10, <1>17, <1>18, <2>4 DEF Held
    <3>2. due'[m] = due[m]
      BY <1>8, <1>13, <2>4
    <3>3. QED
      BY <2>1, <2>4, <3>1, <3>2
  <2>5. QED
    BY <2>2, <2>3, <2>4
<1>21. KnownOK'
  <2>1. \A m \in 1..published' : known'[m] \subseteq chans'
    BY <1>1 DEF KnownOK
  <2>2. NoChannelForgotten'
    <3> SUFFICES ASSUME NEW m \in 1..published, m \notin Large, due'[m] # None
                 PROVE  known[m] \subseteq due'[m]
      BY <1>1 DEF NoChannelForgotten
    <3>1. due'[m] = due[m]
      BY <1>8, <1>11, <1>15
    <3>2. QED
      BY <3>1 DEF KnownOK, NoChannelForgotten
  <2>3. QED
    BY <2>1, <2>2 DEF KnownOK
<1>22. LostOnlyWithConnection'
  BY <1>1 DEF LostOnlyWithConnection
<1>23. QED
  BY <1>14, <1>16, <1>19, <1>20, <1>21, <1>22

\* A pump takes a message from its channel: it is in flight.
LEMMA ReceiveStep == ASSUME IInv, NEW k \in Clients, Receive(k) PROVE IInv'
<1> USE DEF IInv
<1>0. PICK c \in Channels :
        \E h \in Heads(channelQ[c]) :
          /\ channelQ' = [channelQ EXCEPT ![c] = h[2]]
          /\ inFlight' = [inFlight EXCEPT ![c] = @ \cup {<<h[1], k>>}]
          /\ client' = [client EXCEPT ![k].msg = h[1]]
  BY ClientType DEF Receive, Readable
<1>1. c \in Channels /\ client[k].msg = None
  BY DEF Receive
<1>2. PICK h \in Heads(channelQ[c]) :
        /\ channelQ' = [channelQ EXCEPT ![c] = h[2]]
        /\ inFlight' = [inFlight EXCEPT ![c] = @ \cup {<<h[1], k>>}]
        /\ client' = [client EXCEPT ![k].msg = h[1]]
  BY <1>0
<1>3. /\ published' = published /\ topicQ' = topicQ /\ channelMap' = channelMap /\ chans' = chans
      /\ pump' = pump /\ known' = known /\ due' = due
  BY DEF Receive
<1> DEFINE n == h[1]
           q == h[2]
           r == [client[k] EXCEPT !.msg = n]
           F == inFlight[c] \cup {<<n, k>>}
<1>4. QueueOK(channelQ[c])
  BY <1>1 DEF ChannelsOK
<1>5. n \in Queued(channelQ[c]) /\ n \in Message /\ QueueOK(q) /\ Queued(q) = Queued(channelQ[c]) \ {n}
  BY <1>4, HeadsFacts
<1>6. r \in ClientRec /\ r.msg = n /\ r.got = client[k].got /\ r.conn = client[k].conn
  BY <1>5, ClientType DEF ClientRec
<1>7. /\ channelQ' = [channelQ EXCEPT ![c] = q] /\ inFlight' = [inFlight EXCEPT ![c] = F]
      /\ client' = [client EXCEPT ![k] = r]
  BY <1>2
<1> HIDE DEF r, n, q
<1>8. inFlight[c] \subseteq Message \X Clients /\ F \subseteq Message \X Clients
  BY <1>1, <1>5 DEF Types
<1>9. {f[1] : f \in F} = Taken(c) \cup {n}
  <2>1. <<n, k>>[1] = n
    OBVIOUS
  <2>2. QED
    BY <2>1 DEF Taken
<1>10. \A f \in F : f \in inFlight[c] \/ f = <<n, k>>
  OBVIOUS
<1> HIDE DEF F
<1>11. /\ channelQ' \in [Channels -> Queue] /\ channelQ'[c] = q
       /\ \A e \in Channels : e # c => channelQ'[e] = channelQ[e]
  BY <1>1, <1>5, <1>7 DEF Types, QueueOK
<1>12. /\ inFlight' \in [Channels -> SUBSET (Message \X Clients)] /\ inFlight'[c] = F
       /\ \A e \in Channels : e # c => inFlight'[e] = inFlight[e]
  BY <1>1, <1>7, <1>8 DEF Types
<1>13. /\ client' \in [Clients -> ClientRec] /\ client'[k] = r
       /\ \A j \in Clients : j # k => client'[j] = client[j]
  BY <1>6, <1>7 DEF Types
<1>14. Types'
  BY <1>3, <1>11, <1>12, <1>13 DEF Types
<1>15. TopicOK' /\ KnownOK'
  BY <1>3 DEF TopicOK, KnownOK, NoChannelForgotten
<1>16. /\ \A e \in Channels : Pending(e)' = Pending(e)
       /\ \A e \in Channels : e # c => Taken(e)' = Taken(e)
       /\ Taken(c)' = Taken(c) \cup {n}
  BY <1>3, <1>9, <1>12 DEF Pending, Taken
<1>17. ChannelsOK'
  <2> SUFFICES ASSUME NEW e \in Channels
               PROVE  /\ QueueOK(channelQ'[e])
                      /\ \A f, g \in inFlight'[e] : f[1] = g[1] => f = g
                      /\ Queued(channelQ'[e]) \cap Taken(e)' = {}
                      /\ Pending(e)' \cap Queued(channelQ'[e]) = {} /\ Pending(e)' \cap Taken(e)' = {}
    BY DEF ChannelsOK
  <2>0. /\ \A f, g \in inFlight[e] : f[1] = g[1] => f = g
        /\ Queued(channelQ[e]) \cap Taken(e) = {}
        /\ Pending(e) \cap Queued(channelQ[e]) = {} /\ Pending(e) \cap Taken(e) = {}
        /\ QueueOK(channelQ[e])
    BY DEF ChannelsOK
  <2>1. CASE e # c
    BY <1>11, <1>12, <1>16, <2>0, <2>1
  <2>2. CASE e = c
    <3>1. \A f, g \in F : f[1] = g[1] => f = g
      <4>1. \A f \in inFlight[c] : f[1] # n
        BY <1>5, <2>0, <2>2 DEF Taken
      <4>2. <<n, k>>[1] = n
        OBVIOUS
      <4>3. QED
        BY <1>10, <2>0, <2>2, <4>1, <4>2
    <3>2. QED
      BY <1>5, <1>11, <1>12, <1>16, <2>0, <2>2, <3>1
  <2>3. QED
    BY <2>1, <2>2
<1>18. DueOK'
  <2>1. \A e \in Channels : Held(e)' = Held(e)
    <3>1. Held(c)' = Held(c)
      BY <1>1, <1>5, <1>11, <1>16 DEF Held
    <3>2. QED
      BY <1>11, <1>16, <3>1 DEF Held
  <2>2. QED
    BY <1>3, <2>1 DEF DueOK
<1>19. LostOnlyWithConnection'
  <2> SUFFICES ASSUME NEW e \in Channels, NEW f \in inFlight'[e]
               PROVE  \/ f[1] \in client'[f[2]].got \cup {client'[f[2]].msg}
                      \/ client'[f[2]].conn # "open"
    BY DEF LostOnlyWithConnection
  <2>1. CASE f \in inFlight[e]
    <3>1. f[1] \in Message /\ f[2] \in Clients /\ f[1] # None
      BY <2>1, NoneFacts DEF Types
    <3>2. \/ f[1] \in client[f[2]].got \cup {client[f[2]].msg}
          \/ client[f[2]].conn # "open"
      BY <2>1 DEF LostOnlyWithConnection
    <3>3. QED
      BY <1>1, <1>6, <1>13, <3>1, <3>2
  <2>2. CASE f = <<n, k>>
    <3>1. f[1] = n /\ f[2] = k
      BY <2>2
    <3>2. QED
      BY <1>6, <1>13, <3>1
  <2>3. QED
    BY <1>10, <1>12, <2>1, <2>2
<1>20. QED
  BY <1>14, <1>15, <1>17, <1>18, <1>19

-----------------------------------------------------------------------------
(* The theorems *)

\* The invariant holds when nsqd starts.
LEMMA InitInv == Init => IInv
<1> SUFFICES ASSUME Init PROVE IInv
  OBVIOUS
<1>1. QueueOK(Empty) /\ Queued(Empty) = {} /\ Empty \in Queue
  BY EmptyQueue DEF QueueOK
<1>2. /\ published = 0 /\ topicQ = Empty /\ channelMap = {} /\ chans = {}
      /\ pump = [msg |-> None, left |-> {}]
      /\ channelQ = [c \in Channels |-> Empty] /\ inFlight = [c \in Channels |-> {}]
      /\ known = [m \in Message |-> {}] /\ due = [m \in Message |-> None]
  BY DEF Init
<1>3. client \in [Clients -> ClientRec]
  BY DEF Init, ClientRec
<1>4. MaxPub \in Nat /\ 1..0 = {}
  BY BoundsAssumption
<1>5. Types
  BY <1>1, <1>2, <1>3, <1>4 DEF Types
<1>6. TopicOK
  BY <1>1, <1>2, <1>4 DEF TopicOK
<1>7. \A c \in Channels : Queued(channelQ[c]) = {} /\ Taken(c) = {} /\ Pending(c) = {}
  BY <1>1, <1>2 DEF Taken, Pending
<1>8. ChannelsOK /\ DueOK
  BY <1>1, <1>2, <1>7 DEF ChannelsOK, DueOK, Held
<1>9. KnownOK
  BY <1>2, <1>4 DEF KnownOK, NoChannelForgotten
<1>10. LostOnlyWithConnection
  BY <1>2 DEF LostOnlyWithConnection
<1>11. QED
  BY <1>5, <1>6, <1>8, <1>9, <1>10 DEF IInv

\* Every step keeps it.
LEMMA NextInv == IInv /\ [Next]_vars => IInv'
<1> SUFFICES ASSUME IInv, [Next]_vars PROVE IInv'
  OBVIOUS
<1>1. CASE Next
  BY <1>1, PUBStep, ChannelUpdateStep, TakeStep, PutMessageStep, SUBStep, SubEventStep, BreakStep,
     HangupStep, SubscribeStep, ReceiveStep, SendMessageStep DEF Next, TopicPump, ClientPump
<1>2. CASE UNCHANGED vars
  <2>1. /\ published' = published /\ topicQ' = topicQ /\ channelMap' = channelMap /\ chans' = chans
        /\ pump' = pump /\ channelQ' = channelQ /\ inFlight' = inFlight /\ client' = client
        /\ known' = known /\ due' = due
    BY <1>2 DEF vars
  <2>2. Types' /\ TopicOK' /\ KnownOK' /\ LostOnlyWithConnection'
    BY <2>1 DEF IInv, Types, TopicOK, KnownOK, NoChannelForgotten, LostOnlyWithConnection
  <2>3. ChannelsOK' /\ DueOK'
    BY <2>1 DEF IInv, ChannelsOK, DueOK, Held, Taken, Pending
  <2>4. QED
    BY <2>2, <2>3 DEF IInv
<1>3. QED
  BY <1>1, <1>2

\* The invariant always holds.
LEMMA Invariance == Spec => []IInv
  BY InitInv, NextInv, PTL DEF Spec

\* What a channel holds is counted once.
LEMMA HeldOnce ==
  ASSUME IInv, NEW c \in Channels, NEW m \in Message
  PROVE  Copies(c, m) = IF m \in Held(c) THEN 1 ELSE 0
<1> DEFINE q == channelQ[c]
           P == {f \in inFlight[c] : f[1] = m}
<1>1. /\ QueueOK(q) /\ \A f, g \in inFlight[c] : f[1] = g[1] => f = g
      /\ Queued(q) \cap Taken(c) = {}
      /\ Pending(c) \cap Queued(q) = {} /\ Pending(c) \cap Taken(c) = {}
  BY DEF IInv, ChannelsOK
<1>2. /\ q.mem \in Seq(Message) /\ q.back \in Seq(Message \ Large)
      /\ Distinct(q.mem) /\ Distinct(q.back) /\ ToSet(q.mem) \cap ToSet(q.back) = {}
  BY <1>1, QueueFacts
<1>3. /\ Cardinality({i \in 1..Len(q.mem) : q.mem[i] = m}) = IF m \in ToSet(q.mem) THEN 1 ELSE 0
      /\ Cardinality({i \in 1..Len(q.back) : q.back[i] = m}) = IF m \in ToSet(q.back) THEN 1 ELSE 0
  BY <1>2, CountOnce
<1>4. Cardinality(P) = IF m \in Taken(c) THEN 1 ELSE 0
  <2>1. CASE m \in Taken(c)
    <3>1. PICK f \in inFlight[c] : f[1] = m
      BY <2>1 DEF Taken
    <3>2. P = {f}
      BY <1>1, <3>1
    <3>3. QED
      BY <2>1, <3>2, FS_Singleton
  <2>2. CASE m \notin Taken(c)
    <3>1. P = {}
      BY <2>2 DEF Taken
    <3>2. QED
      BY <2>2, <3>1, FS_EmptySet
  <2>3. QED
    BY <2>1, <2>2
<1>5. (IF pump.msg = m /\ c \in pump.left THEN 1 ELSE 0) = IF m \in Pending(c) THEN 1 ELSE 0
  BY DEF Pending
<1>6. m \in Held(c) <=> \/ m \in ToSet(q.mem) \/ m \in ToSet(q.back)
                        \/ m \in Taken(c) \/ m \in Pending(c)
  BY DEF Held, Queued
<1>7. Copies(c, m) = (IF m \in ToSet(q.mem) THEN 1 ELSE 0) + (IF m \in ToSet(q.back) THEN 1 ELSE 0)
                     + (IF m \in Taken(c) THEN 1 ELSE 0) + (IF m \in Pending(c) THEN 1 ELSE 0)
  BY <1>3, <1>4, <1>5 DEF Copies
<1>8. /\ ~(m \in ToSet(q.mem) /\ m \in ToSet(q.back))
      /\ ~(m \in ToSet(q.mem) /\ m \in Taken(c)) /\ ~(m \in ToSet(q.back) /\ m \in Taken(c))
      /\ ~(m \in ToSet(q.mem) /\ m \in Pending(c)) /\ ~(m \in ToSet(q.back) /\ m \in Pending(c))
      /\ ~(m \in Taken(c) /\ m \in Pending(c))
  BY <1>1, <1>2 DEF Queued
<1>9. QED
  BY <1>6, <1>7, <1>8

\* The queues hold messages, those in memory no more than their capacity and
\* those on disk none that is too long for it.
THEOREM TypeCorrect == Spec => []TypeOK
<1>1. IInv => TypeOK
  <2> SUFFICES ASSUME IInv PROVE TypeOK
    OBVIOUS
  <2>1. \A c \in Channels : channelQ[c] \in Queue /\ Len(channelQ[c].mem) =< MemQueueSize
    BY DEF IInv, ChannelsOK, QueueOK
  <2>2. topicQ \in Queue /\ Len(topicQ.mem) =< MemQueueSize
    BY DEF IInv, TopicOK, QueueOK
  <2>3. QED
    BY <2>1, <2>2 DEF TypeOK, IInv, Types
<1>2. QED
  BY <1>1, Invariance, PTL

\* messagePump() of topic.go and the pumps of the connections neither lose a
\* copy of a message nor make a second one, whoever races for a channel,
\* whatever overflows to disk and whichever connection goes.
THEOREM OneCopyPerChannelHolds == Spec => []OneCopyPerChannel
<1>1. IInv => OneCopyPerChannel
  <2> SUFFICES ASSUME IInv, NEW m \in 1..published
               PROVE  /\ (due[m] = None) = (m \in Queued(topicQ))
                      /\ due[m] # None =>
                           \A c \in Channels : Copies(c, m) = (IF c \in due[m] THEN 1 ELSE 0)
    BY DEF OneCopyPerChannel
  <2>1. m \in Message
    BY BoundsAssumption DEF IInv, Types, Message
  <2>2. due[m] = None <=> m \in Queued(topicQ)
    BY DEF IInv, TopicOK
  <2>3. ASSUME due[m] # None, NEW c \in Channels
        PROVE  Copies(c, m) = IF c \in due[m] THEN 1 ELSE 0
    <3>1. m \in Held(c) <=> c \in due[m]
      BY <2>1, <2>3 DEF IInv, DueOK
    <3>2. QED
      BY <2>1, <3>1, HeldOnce
  <2>4. (due[m] = None) \in BOOLEAN /\ (m \in Queued(topicQ)) \in BOOLEAN
    OBVIOUS
  <2>5. (due[m] = None) = (m \in Queued(topicQ))
    BY <2>2, <2>4
  <2>6. QED
    BY <2>3, <2>5
<1>2. QED
  BY <1>1, Invariance, PTL

\* A message goes to every channel the pump of the topic knew when it was
\* published: channelMap only grows, and so does the copy of it.
THEOREM NoChannelForgottenHolds == Spec => []NoChannelForgotten
<1>1. IInv => NoChannelForgotten
  BY DEF IInv, KnownOK
<1>2. QED
  BY <1>1, Invariance, PTL

\* A message is noted as in flight before it is sent, and one that did not
\* arrive was taken for a connection that is lost (protocol_v2.go).
THEOREM LostOnlyWithConnectionHolds == Spec => []LostOnlyWithConnection
<1>1. IInv => LostOnlyWithConnection
  BY DEF IInv
<1>2. QED
  BY <1>1, Invariance, PTL
=============================================================================
