------------------------------- MODULE Nsqd -------------------------------
(* One topic of nsqd (topic.go, channel.go, protocol_v2.go, client_v2.go):   *)
(* publishers, the topic's messagePump() that copies messages to the         *)
(* channels it knows of, and per connection an IOLoop() that takes commands  *)
(* and a messagePump() that sends the messages of one channel.               *)
(*                                                                           *)
(* A message is the number of its PUB.  A queue is a bounded Go channel in   *)
(* memory and a disk queue that takes what does not fit; the disk queue is   *)
(* first in, first out, and refuses a message longer than MaxMsgSize.        *)
(* FIN changes nothing and is left out, as are the frames on the wire.       *)
EXTENDS Naturals, Sequences, SequencesExt, FiniteSets

CONSTANTS Channels, Clients,
          MaxPub,       \* how many messages are published
          MaxSub,       \* client -> how many SUB commands it sends
          Leaving,      \* the clients that go or send a wrong command
          MemQueueSize, \* the capacity of a memoryMsgChan
          Large,        \* the messages the disk queue refuses
          None

ASSUME BoundsAssumption ==
  MaxPub \in Nat /\ MaxSub \in [Clients -> Nat] /\ MemQueueSize \in Nat \ {0}
ASSUME NoneAssumption ==
  None \notin Channels /\ None \notin 1..MaxPub /\ \A s \in SUBSET Channels : s # None

VARIABLES
  published,  \* the messages PUB has been answered OK for, and the refused
  topicQ,     \* the topic's queue: memoryMsgChan and backend
  channelMap, \* the topic's channels
  chans,      \* messagePump()'s copy of them
  pump,       \* the message messagePump() holds, and the channels to go
  channelQ,   \* per channel, its queue
  inFlight,   \* per channel, its inFlightMessages and who took them
  client,     \* per connection, IOLoop() and messagePump()
  known,      \* history: per message, chans when it was published
  due         \* history: per message, chans when the pump took it

vars == <<published, topicQ, channelMap, chans, pump, channelQ, inFlight,
          client, known, due>>

Message == 1..MaxPub
Empty == [mem |-> <<>>, back |-> <<>>]
Queued(q) == ToSet(q.mem) \cup ToSet(q.back)

Refused(q, m) == Len(q.mem) >= MemQueueSize /\ m \in Large

(* put(): memory if there is room, the disk queue if not.                    *)
put(q, m) ==
  IF Len(q.mem) < MemQueueSize THEN [q EXCEPT !.mem = Append(@, m)]
  ELSE IF m \in Large THEN q
  ELSE [q EXCEPT !.back = Append(@, m)]

\* Mutant: what is read from the disk queue stays there.
HeadsKeepDisk(q) ==
  {<<Head(q.mem), [q EXCEPT !.mem = Tail(@)]>> : x \in {1} \cap 1..Len(q.mem)}
  \cup {<<Head(q.back), q>> : x \in {1} \cap 1..Len(q.back)}

(* A receive on both queues at once: select takes either head.               *)
Heads(q) ==
  {<<Head(q.mem), [q EXCEPT !.mem = Tail(@)]>> : x \in {1} \cap 1..Len(q.mem)}
  \cup
  {<<Head(q.back), [q EXCEPT !.back = Tail(@)]>> : x \in {1} \cap 1..Len(q.back)}

Init ==
  /\ published = 0
  /\ topicQ = Empty
  /\ channelMap = {} /\ chans = {}
  /\ pump = [msg |-> None, left |-> {}]
  /\ channelQ = [c \in Channels |-> Empty]
  /\ inFlight = [c \in Channels |-> {}]
  /\ client = [k \in Clients |->
       [io |-> "ready", want |-> None, event |-> None, sub |-> None,
        msg |-> None, pump |-> "run", conn |-> "open", got |-> {}, subs |-> 0]]
  /\ known = [m \in Message |-> {}]
  /\ due = [m \in Message |-> None]

(* PUB of any connection; one that the disk queue refuses is answered with   *)
(* an error.                                                                 *)
PUB ==
  LET m == published + 1 IN
  /\ m \in Message
  /\ published' = m
  /\ topicQ' = put(topicQ, m)
  /\ known' = [known EXCEPT ![m] = chans]
  /\ due' = [due EXCEPT ![m] = IF Refused(topicQ, m) THEN {} ELSE None]
  /\ UNCHANGED <<channelMap, chans, pump, channelQ, inFlight, client>>

----------------------------------------------------------------------------
(* The topic's messagePump().                                                *)
\* Mutant: the pump learns of the new channel and forgets the others.
UpdatedNewOnly(k) == {client[k].want}

Updated(k) == channelMap

ChannelUpdate(k) ==
  /\ pump.left = {} /\ client[k].io = "getchannel"
  /\ chans' = Updated(k)
  /\ client' = [client EXCEPT ![k].io = "event"]
  /\ UNCHANGED <<published, topicQ, channelMap, pump, channelQ, inFlight, known, due>>

(* Both queues are read only while there is a channel to copy to.            *)
Take ==
  /\ pump.left = {} /\ chans # {}
  /\ \E h \in Heads(topicQ) :
       /\ pump' = [msg |-> h[1], left |-> chans]
       /\ topicQ' = h[2]
       /\ due' = [due EXCEPT ![h[1]] = chans]
  /\ UNCHANGED <<published, channelMap, chans, channelQ, inFlight, client, known>>

(* channel.PutMessage(); its error is printed and the message is lost.       *)
PutMessage(c) ==
  /\ c \in pump.left
  /\ channelQ' = [channelQ EXCEPT ![c] = put(@, pump.msg)]
  /\ pump' = [pump EXCEPT !.left = @ \ {c}]
  /\ due' = IF Refused(channelQ[c], pump.msg)
            THEN [due EXCEPT ![pump.msg] = @ \ {c}] ELSE due
  /\ UNCHANGED <<published, topicQ, channelMap, chans, inFlight, client, known>>

----------------------------------------------------------------------------
(* IOLoop(): SUB finds or makes the channel; who makes it waits for the      *)
(* topic's pump, who finds it does not.                                      *)
SUB(k, c) ==
  /\ client[k].io = "ready" /\ client[k].conn = "open" /\ client[k].subs < MaxSub[k]
  /\ channelMap' = channelMap \cup {c}
  /\ client' = [client EXCEPT ![k] =
       [@ EXCEPT !.io = IF c \in channelMap THEN "event" ELSE "getchannel",
                 !.want = c, !.subs = client[k].subs + 1]]
  /\ UNCHANGED <<published, topicQ, chans, pump, channelQ, inFlight, known, due>>

\* Mutant: SubEventChan has no buffer.
SubEventUnbuffered(k) ==
  /\ client[k].io = "event"
  /\ client[k].pump = "run" /\ client[k].msg = None /\ client[k].sub = None
  /\ client' = [client EXCEPT ![k] =
       [@ EXCEPT !.sub = client[k].want, !.io = "ready"]]
  /\ UNCHANGED <<published, topicQ, channelMap, chans, pump, channelQ, inFlight, known, due>>

(* client.SubEventChan <- channel, which has room for one, and the answer:   *)
(* sending it fails when the peer has gone, at the latest at the next read.  *)
SubEvent(k) ==
  /\ client[k].io = "event" /\ client[k].event = None
  /\ client' = [client EXCEPT ![k] =
       [@ EXCEPT !.event = client[k].want, !.io = "ready"]]
  /\ UNCHANGED <<published, topicQ, channelMap, chans, pump, channelQ, inFlight, known, due>>

(* A read error, or a command that is answered with an error: the loop ends  *)
(* and closes the connection; nobody tells the pump.                         *)
Break(k) ==
  /\ k \in Leaving /\ client[k].io = "ready"
  /\ client' = [client EXCEPT ![k] = [@ EXCEPT !.io = "closed", !.conn = "closed"]]
  /\ UNCHANGED <<published, topicQ, channelMap, chans, pump, channelQ, inFlight, known, due>>

(* The peer goes: the server does not know yet.                              *)
Hangup(k) ==
  /\ k \in Leaving /\ client[k].conn = "open"
  /\ client' = [client EXCEPT ![k].conn = "gone"]
  /\ UNCHANGED <<published, topicQ, channelMap, chans, pump, channelQ, inFlight, known, due>>

----------------------------------------------------------------------------
(* The connection's messagePump().  It takes one SubEvent in its life.       *)
Subscribe(k) ==
  /\ client[k].pump = "run" /\ client[k].msg = None
  /\ client[k].event # None /\ client[k].sub = None
  /\ client' = [client EXCEPT ![k] =
       [@ EXCEPT !.sub = client[k].event, !.event = None]]
  /\ UNCHANGED <<published, topicQ, channelMap, chans, pump, channelQ, inFlight, known, due>>

\* Mutant: the disk queue of the channel is never read.
ReadableMemoryOnly(q) == {h \in Heads(q) : Len(h[2].mem) < Len(q.mem)}

Readable(q) == Heads(q)

(* StartInFlightTimeout() notes the message before it is sent.               *)
Receive(k) ==
  LET c == client[k].sub IN
  /\ client[k].pump = "run" /\ client[k].msg = None /\ c # None
  /\ \E h \in Readable(channelQ[c]) :
       /\ channelQ' = [channelQ EXCEPT ![c] = h[2]]
       /\ inFlight' = [inFlight EXCEPT ![c] = @ \cup {<<h[1], k>>}]
       /\ client' = [client EXCEPT ![k].msg = h[1]]
  /\ UNCHANGED <<published, topicQ, channelMap, chans, pump, known, due>>

\* Mutant: the message stays in a buffered writer that nobody flushes.
SendMessageUnflushed(k) ==
  /\ client[k].msg # None
  /\ client' = [client EXCEPT ![k].msg = None]
  /\ UNCHANGED <<published, topicQ, channelMap, chans, pump, channelQ, inFlight, known, due>>

(* SendMessage() fails on a closed connection; on one whose peer is gone it  *)
(* may fail or seem to succeed.                                              *)
SendMessage(k) ==
  /\ client[k].msg # None
  /\ \E ok \in CASE client[k].conn = "open" -> {TRUE}
                 [] client[k].conn = "gone" -> {TRUE, FALSE}
                 [] client[k].conn = "closed" -> {FALSE} :
       client' = [client EXCEPT ![k] =
         [@ EXCEPT !.msg = None,
                   !.pump = IF ok THEN client[k].pump ELSE "exit",
                   !.got = client[k].got \cup
                             (IF client[k].conn = "open" THEN {client[k].msg} ELSE {})]]
  /\ UNCHANGED <<published, topicQ, channelMap, chans, pump, channelQ, inFlight, known, due>>

TopicPump ==
  \/ \E k \in Clients : ChannelUpdate(k)
  \/ Take
  \/ \E c \in Channels : PutMessage(c)
ClientPump(k) == Subscribe(k) \/ Receive(k) \/ SendMessage(k)

Next ==
  \/ PUB \/ TopicPump
  \/ \E k \in Clients : \/ \E c \in Channels : SUB(k, c)
                        \/ SubEvent(k) \/ Break(k) \/ Hangup(k) \/ ClientPump(k)

(* Goroutines that can go on do.  Publishers and clients need not.           *)
Fairness ==
  /\ WF_vars(TopicPump)
  /\ \A k \in Clients : WF_vars(ClientPump(k)) /\ WF_vars(SubEvent(k))

Spec == Init /\ [][Next]_vars /\ Fairness

----------------------------------------------------------------------------
(* Types, and queues in memory within their capacity.                        *)
Queue == [mem : Seq(Message), back : Seq(Message \ Large)]
TypeOK ==
  /\ \A q \in {topicQ} \cup {channelQ[c] : c \in Channels} :
       q \in Queue /\ Len(q.mem) =< MemQueueSize
  /\ chans \subseteq channelMap /\ channelMap \subseteq Channels
  /\ pump.left # {} => pump.msg \in Message

Copies(c, m) ==
  Cardinality({i \in 1..Len(channelQ[c].mem) : channelQ[c].mem[i] = m})
  + Cardinality({i \in 1..Len(channelQ[c].back) : channelQ[c].back[i] = m})
  + Cardinality({f \in inFlight[c] : f[1] = m})
  + (IF pump.msg = m /\ c \in pump.left THEN 1 ELSE 0)

(* A message is in one place: in the topic's queue, or once in every channel *)
(* the pump copied it to and in no other channel.  Overflowing to disk,      *)
(* pumps that race for a channel and clients that go neither lose a copy     *)
(* inside nsqd nor make a second one, but for a message too long for the     *)
(* disk queue.                                                               *)
OneCopyPerChannel ==
  \A m \in 1..published :
    /\ (due[m] = None) = (m \in Queued(topicQ))
    /\ due[m] # None => \A c \in Channels : Copies(c, m) = (IF c \in due[m] THEN 1 ELSE 0)

(* A message goes to every channel that the pump knew when it was published, *)
(* that is, every channel whose first SUB had been let through.  (Who finds  *)
(* a channel that another SUB has just made may miss messages published      *)
(* after its own answer: the pump's copy of channelMap is older.)            *)
NoChannelForgotten ==
  \A m \in 1..published \ Large : due[m] # None => known[m] \subseteq due[m]

(* A message in flight has reached its client, or is in the hands of the     *)
(* pump that took it, or was taken for a connection that is lost.            *)
LostOnlyWithConnection ==
  \A c \in Channels : \A f \in inFlight[c] :
    LET k == client[f[2]] IN f[1] \in k.got \cup {k.msg} \/ k.conn # "open"

(* A channel with a connected subscriber drains: what is in its queues, in   *)
(* memory or on disk, does not stay there.                                   *)
Drains ==
  \A c \in Channels :
    []<>(\/ Queued(channelQ[c]) = {}
         \/ \A k \in Clients : client[k].sub = c => client[k].conn # "open")

(* The first two SUBs of a connection are answered: the IOLoop() that waits  *)
(* for the topic's pump is let through.  (A third waits for ever for room in *)
(* SubEventChan, which the pump reads once.)                                 *)
SubAnswered ==
  \A k \in Clients :
    (client[k].io \in {"getchannel", "event"} /\ client[k].subs =< 2)
      ~> (client[k].io \in {"ready", "closed"})
=============================================================================
