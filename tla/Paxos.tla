------------------------------- MODULE Paxos -------------------------------
(***************************************************************************)
(* The Paxos library of 6.824/src/paxos: N peers, each with its map of     *)
(* instances and its table of Done() arguments, and the proposer           *)
(* goroutines that Start() spawns.                                         *)
(*                                                                         *)
(* Each mutex-protected section of the code is one step.  A remote call    *)
(* either is executed and answered (one step: nothing but the waiting      *)
(* goroutine sees the gap between the two) or fails for the caller; the    *)
(* request of a failed call stays in net, where the peer may still execute *)
(* it at any later moment, or never.  That covers refused connections,     *)
(* discarded requests, discarded replies and requests that are executed    *)
(* after the caller has seen an end-of-file.                               *)
(***************************************************************************)
EXTENDS Integers, FiniteSets

CONSTANTS N,          \* number of peers
          Seqs,       \* sequence numbers the applications use
          Value,      \* values passed to Start()
          NoValue,    \* Go's nil
          PNum,       \* proposal numbers generatePNum() can draw
          Goroutine   \* proposer goroutines; bounds the number of Start()s

ASSUME NAssumption == N \in Nat \ {0}
ASSUME SeqsAssumption == Seqs \subseteq Nat
ASSUME PNumAssumption == PNum \subseteq Nat \ {0}
ASSUME NoValueAssumption == NoValue \notin Value

Peers == 1..N

VARIABLES inst,    \* inst[p][s]: px.instances[s] of peer p
          dones,   \* dones[p][q]: px.dones[q] of peer p
          prop,    \* prop[g]: the local variables of proposer goroutine g
          net,     \* requests of failed calls, still on their way
          used,    \* proposal numbers already drawn
          dead,    \* peers whose process died of a nil dereference
          votes,   \* history: <<peer, seq, pnum, value>> accepted in good faith
          mp,      \* history: mp[p][s], the highest number p ever promised
          proposed \* history: <<seq, pnum, value>> sent in an accept phase

hist == <<votes, mp, proposed>>
vars == <<inst, dones, prop, net, used, dead, votes, mp, proposed>>

----------------------------------------------------------------------------
(* Instances. *)

Instance == [state : {"Absent", "Pending", "Decided"},
             n_p : Nat, n_a : Nat, v_a : Value \cup {NoValue}]

Absent == [state |-> "Absent", n_p |-> 0, n_a |-> 0, v_a |-> NoValue]

\* The entry of the map, created by newInstance() when it is missing.
Touched(i) == IF i.state = "Absent" THEN [i EXCEPT !.state = "Pending"] ELSE i

\* Mutant: Prepare() answers OK whatever it has promised.
PrepareAlways(i, b) == TRUE

PrepareOK(i, b) == i.state = "Absent" \/ b > i.n_p

Prepare(i, b) ==
    IF PrepareOK(i, b) THEN [Touched(i) EXCEPT !.n_p = b] ELSE i

\* Mutant: Accept() does not look at the promise.
AcceptAlways(i, b) == TRUE

AcceptOK(i, b) == i.state = "Absent" \/ b >= i.n_p

Accept(i, b, v) ==
    IF AcceptOK(i, b)
      THEN [Touched(i) EXCEPT !.n_a = b, !.n_p = b, !.v_a = v]
      ELSE i

Decide(i, b, v) == [state |-> "Decided", n_p |-> b, n_a |-> b, v_a |-> v]

Majority == N \div 2 + 1

----------------------------------------------------------------------------
(* Forgetting. *)

\* Mutant: the maximum of px.dones instead of the minimum.
BelowMax(p, s) == \E q \in Peers : s <= dones[p][q]

\* seq < px.Min(): every entry of px.dones is at least seq.
BelowMin(p, s) == \A q \in Peers : s <= dones[p][q]

\* Mutant: Min() marks the instances instead of deleting them.
ForgetMarks(p) ==
    [s \in Seqs |-> IF BelowMin(p, s) /\ inst[p][s].state = "Decided"
                      THEN [inst[p][s] EXCEPT !.state = "Forgotten"] ELSE inst[p][s]]

\* What Min() leaves of the map: decided instances below it are deleted.
Forget(p) ==
    [s \in Seqs |-> IF BelowMin(p, s) /\ inst[p][s].state = "Decided"
                      THEN Absent ELSE inst[p][s]]

\* What Status(seq) answers the application.
Status(p, s) ==
    IF BelowMin(p, s) THEN "Forgotten"
    ELSE IF inst[p][s].state = "Decided" THEN "Decided" ELSE "Pending"

----------------------------------------------------------------------------
(* Requests. *)

Message ==
    [type : {"Prepare"}, to : Peers, seq : Seqs, pnum : PNum]
  \cup
    [type : {"Accept"}, to : Peers, seq : Seqs, pnum : PNum, val : Value]
  \cup
    [type : {"Decide"}, to : Peers, seq : Seqs, pnum : PNum, val : Value,
     me : Peers, done : Int]

NoPNum == 0

Proposer ==
    [pc : {"idle", "prepare", "accept", "decide", "min", "status", "done"},
     me : Peers, seq : Seqs \cup {-1}, v : Value \cup {NoValue},
     pnum : PNum \cup {NoPNum}, i : 1..(N + 1), oks : SUBSET Peers,
     rp : Nat, rv : Value \cup {NoValue}]

Idle == [pc |-> "idle", me |-> 1, seq |-> -1, v |-> NoValue,
         pnum |-> NoPNum, i |-> 1, oks |-> {}, rp |-> 0, rv |-> NoValue]

TypeOK ==
    /\ inst \in [Peers -> [Seqs -> Instance]]
    /\ dones \in [Peers -> [Peers -> Int]]
    /\ prop \in [Goroutine -> Proposer]
    /\ net \subseteq Message
    /\ used \subseteq PNum
    /\ dead \subseteq Peers
    /\ votes \subseteq Peers \X Seqs \X PNum \X Value
    /\ mp \in [Peers -> [Seqs -> Nat]]
    /\ proposed \subseteq Seqs \X PNum \X Value

Init ==
    /\ inst = [p \in Peers |-> [s \in Seqs |-> Absent]]
    /\ dones = [p \in Peers |-> [q \in Peers |-> -1]]
    /\ prop = [g \in Goroutine |-> Idle]
    /\ net = {}
    /\ used = {}
    /\ dead = {}
    /\ votes = {}
    /\ mp = [p \in Peers |-> [s \in Seqs |-> 0]]
    /\ proposed = {}

----------------------------------------------------------------------------
(* Peer p executes one request; the history variables follow. *)

HandlePrepare(p, s, b) ==
    /\ inst' = [inst EXCEPT ![p][s] = Prepare(inst[p][s], b)]
    /\ mp' = [mp EXCEPT ![p][s] = IF PrepareOK(inst[p][s], b) /\ b > @
                                    THEN b ELSE @]
    /\ UNCHANGED <<dones, votes>>

HandleAccept(p, s, b, v) ==
    /\ inst' = [inst EXCEPT ![p][s] = Accept(inst[p][s], b, v)]
    /\ IF AcceptOK(inst[p][s], b) /\ b >= mp[p][s]
         THEN /\ votes' = votes \cup {<<p, s, b, v>>}
              /\ mp' = [mp EXCEPT ![p][s] = b]
         ELSE UNCHANGED <<votes, mp>>
    /\ UNCHANGED dones

\* Mutant: Decide() records the sequence number as the sender's Done argument.
HandleDecideSeq(p, s, b, v, from, done) ==
    /\ inst' = [inst EXCEPT ![p][s] = Decide(inst[p][s], b, v)]
    /\ mp' = [mp EXCEPT ![p][s] = IF b > @ THEN b ELSE @]
    /\ dones' = [dones EXCEPT ![p][from] = s]
    /\ UNCHANGED votes

HandleDecide(p, s, b, v, from, done) ==
    /\ inst' = [inst EXCEPT ![p][s] = Decide(inst[p][s], b, v)]
    /\ mp' = [mp EXCEPT ![p][s] = IF b > @ THEN b ELSE @]
    /\ dones' = [dones EXCEPT ![p][from] = done]
    /\ UNCHANGED votes

----------------------------------------------------------------------------
(* The proposer goroutine. *)

Live(g) == prop[g].me \notin dead

\* The head of the proposer loop: sendPrepare() draws a number.
NewRound(r, b) ==
    [r EXCEPT !.pc = "prepare", !.pnum = b, !.i = 1, !.oks = {},
              !.rp = 0, !.rv = r.v]

\* generatePNum(): the clock in nanoseconds with the index of the peer.  That no
\* number is drawn twice is assumed: two goroutines of one peer would have to read
\* the same nanosecond, or the clock to be set back to one it has had.
Fresh == PNum \ used

\* px.Start(seq, v) and the first step of its goroutine, the Min() check.
Start(g, p, s, v) ==
    /\ prop[g].pc = "idle"
    /\ p \notin dead
    /\ inst' = [inst EXCEPT ![p] = Forget(p)]
    /\ LET r == [Idle EXCEPT !.me = p, !.seq = s, !.v = v] IN
       \/ /\ BelowMin(p, s)
          /\ prop' = [prop EXCEPT ![g] = [r EXCEPT !.pc = "done"]]
          /\ UNCHANGED used
       \/ /\ ~BelowMin(p, s)
          /\ \E b \in Fresh :
               /\ prop' = [prop EXCEPT ![g] = NewRound(r, b)]
               /\ used' = used \cup {b}
    /\ UNCHANGED <<dones, net, dead, hist>>

\* Mutant: the proposer sticks to its own value.
AfterPrepareOwn(r, q) ==
    IF PrepareOK(inst[q][r.seq], r.pnum)
      THEN [r EXCEPT !.i = @ + 1, !.oks = @ \cup {q}]
      ELSE [r EXCEPT !.i = @ + 1]

\* The proposer's view of an answered Prepare.
AfterPrepare(r, q) ==
    LET ins == inst[q][r.seq] IN
    IF ~PrepareOK(ins, r.pnum) THEN [r EXCEPT !.i = @ + 1]
    ELSE IF ins.n_a > r.rp
      THEN [r EXCEPT !.i = @ + 1, !.oks = @ \cup {q},
                     !.rp = ins.n_a, !.rv = ins.v_a]
      ELSE [r EXCEPT !.i = @ + 1, !.oks = @ \cup {q}]

\* sendPrepare(): the call to peer i is executed and answered.
CallPrepare(g) ==
    LET r == prop[g] IN
    /\ r.pc = "prepare" /\ Live(g)
    /\ r.i \in Peers \ dead
    /\ HandlePrepare(r.i, r.seq, r.pnum)
    /\ prop' = [prop EXCEPT ![g] = AfterPrepare(r, r.i)]
    /\ UNCHANGED <<net, used, dead, proposed>>

\* sendPrepare(): the call to peer i # me fails.
FailPrepare(g) ==
    LET r == prop[g] IN
    /\ r.pc = "prepare" /\ Live(g)
    /\ r.i \in Peers \ {r.me}
    /\ net' = net \cup {[type |-> "Prepare", to |-> r.i,
                         seq |-> r.seq, pnum |-> r.pnum]}
    /\ prop' = [prop EXCEPT ![g].i = @ + 1]
    /\ UNCHANGED <<inst, dones, used, dead, hist>>

\* sendPrepare() returns: a majority answered OK, or the round is lost.
EndPrepare(g) ==
    LET r == prop[g] IN
    /\ r.pc = "prepare" /\ Live(g)
    /\ r.i = N + 1
    /\ IF Cardinality(r.oks) >= Majority
         THEN /\ prop' = [prop EXCEPT ![g] =
                            [r EXCEPT !.pc = "accept", !.i = 1, !.oks = {}]]
              /\ proposed' = proposed \cup {<<r.seq, r.pnum, r.rv>>}
         ELSE /\ prop' = [prop EXCEPT ![g].pc = "min"]
              /\ UNCHANGED proposed
    /\ UNCHANGED <<inst, dones, net, used, dead, votes, mp>>

\* sendAccept(): the call to peer i is executed and answered.
CallAccept(g) ==
    LET r == prop[g] IN
    /\ r.pc = "accept" /\ Live(g)
    /\ r.i \in Peers \ dead
    /\ HandleAccept(r.i, r.seq, r.pnum, r.rv)
    /\ prop' = [prop EXCEPT ![g] =
                  [r EXCEPT !.i = @ + 1,
                            !.oks = IF AcceptOK(inst[r.i][r.seq], r.pnum)
                                      THEN @ \cup {r.i} ELSE @]]
    /\ UNCHANGED <<net, used, dead, proposed>>

FailAccept(g) ==
    LET r == prop[g] IN
    /\ r.pc = "accept" /\ Live(g)
    /\ r.i \in Peers \ {r.me}
    /\ net' = net \cup {[type |-> "Accept", to |-> r.i, seq |-> r.seq,
                         pnum |-> r.pnum, val |-> r.rv]}
    /\ prop' = [prop EXCEPT ![g].i = @ + 1]
    /\ UNCHANGED <<inst, dones, used, dead, hist>>

EndAccept(g) ==
    LET r == prop[g] IN
    /\ r.pc = "accept" /\ Live(g)
    /\ r.i = N + 1
    /\ prop' = [prop EXCEPT ![g].pc =
                  IF Cardinality(r.oks) >= Majority THEN "decide" ELSE "min"]
    /\ UNCHANGED <<inst, dones, net, used, dead, hist>>

\* sendDecide(): the local update, then one call per other peer.  No reply is
\* looked at, so every call is a request in net.  The local update dereferences
\* the map entry; if Min() has deleted it meanwhile, the process dies.
SendDecide(g) ==
    LET r == prop[g]
        p == r.me IN
    /\ r.pc = "decide" /\ Live(g)
    /\ IF inst[p][r.seq].state = "Absent"
         THEN /\ dead' = dead \cup {p}
              /\ UNCHANGED <<inst, net, prop, mp>>
         ELSE /\ inst' = [inst EXCEPT ![p][r.seq] = Decide(@, r.pnum, r.rv)]
              /\ mp' = [mp EXCEPT ![p][r.seq] = IF r.pnum > @ THEN r.pnum ELSE @]
              /\ net' = net \cup
                   {[type |-> "Decide", to |-> q, seq |-> r.seq,
                     pnum |-> r.pnum, val |-> r.rv,
                     me |-> p, done |-> dones[p][p]] : q \in Peers \ {p}}
              /\ prop' = [prop EXCEPT ![g].pc = "done"]
              /\ UNCHANGED dead
    /\ UNCHANGED <<dones, used, votes, proposed>>

\* The round is lost: Status() first runs Min(); Forgotten is not Decided, so
\* the loop goes round again.
LoopMin(g) ==
    LET r == prop[g] IN
    /\ r.pc = "min" /\ Live(g)
    /\ inst' = [inst EXCEPT ![r.me] = Forget(r.me)]
    /\ \/ /\ BelowMin(r.me, r.seq)
          /\ \E b \in Fresh :
               /\ prop' = [prop EXCEPT ![g] = NewRound(r, b)]
               /\ used' = used \cup {b}
       \/ /\ ~BelowMin(r.me, r.seq)
          /\ prop' = [prop EXCEPT ![g].pc = "status"]
          /\ UNCHANGED used
    /\ UNCHANGED <<dones, net, dead, hist>>

\* The second half of Status(): stop if the instance is decided here.
LoopStatus(g) ==
    LET r == prop[g] IN
    /\ r.pc = "status" /\ Live(g)
    /\ \/ /\ inst[r.me][r.seq].state = "Decided"
          /\ prop' = [prop EXCEPT ![g].pc = "done"]
          /\ UNCHANGED used
       \/ /\ inst[r.me][r.seq].state # "Decided"
          /\ \E b \in Fresh :
               /\ prop' = [prop EXCEPT ![g] = NewRound(r, b)]
               /\ used' = used \cup {b}
    /\ UNCHANGED <<inst, dones, net, dead, hist>>

----------------------------------------------------------------------------
(* A request whose call has failed is executed after all. *)

LatePrepare(m) ==
    /\ m.type = "Prepare"
    /\ HandlePrepare(m.to, m.seq, m.pnum)

LateAccept(m) ==
    /\ m.type = "Accept"
    /\ HandleAccept(m.to, m.seq, m.pnum, m.val)

LateDecide(m) ==
    /\ m.type = "Decide"
    /\ HandleDecide(m.to, m.seq, m.pnum, m.val, m.me, m.done)

Late(m) ==
    /\ m.to \notin dead
    /\ LatePrepare(m) \/ LateAccept(m) \/ LateDecide(m)
    /\ net' = net \ {m}
    /\ UNCHANGED <<prop, used, dead, proposed>>

----------------------------------------------------------------------------
(* The application on peer p. *)

Done(p, s) ==
    /\ p \notin dead
    /\ s > dones[p][p]
    /\ dones' = [dones EXCEPT ![p][p] = s]
    /\ UNCHANGED <<inst, prop, net, used, dead, hist>>

\* Min(), or Status(), called by the application.
Min(p) ==
    /\ p \notin dead
    /\ Forget(p) # inst[p]
    /\ inst' = [inst EXCEPT ![p] = Forget(p)]
    /\ UNCHANGED <<dones, prop, net, used, dead, hist>>

----------------------------------------------------------------------------

Propose(g) ==
    \/ \E p \in Peers, s \in Seqs, v \in Value : Start(g, p, s, v)
    \/ CallPrepare(g) \/ FailPrepare(g) \/ EndPrepare(g)
    \/ CallAccept(g) \/ FailAccept(g) \/ EndAccept(g)
    \/ SendDecide(g) \/ LoopMin(g) \/ LoopStatus(g)

Next == \/ \E g \in Goroutine : Propose(g)
        \/ \E m \in net : Late(m)
        \/ \E p \in Peers, s \in Seqs : Done(p, s)
        \/ \E p \in Peers : Min(p)

Spec == Init /\ [][Next]_vars

----------------------------------------------------------------------------
(* Properties. *)

Quorum == {Q \in SUBSET Peers : Cardinality(Q) >= Majority}

VotedFor(a, s, b, v) == <<a, s, b, v>> \in votes

DidNotVote(a, s, b) == \A v \in Value : ~VotedFor(a, s, b, v)

ChosenAt(s, b, v) == \E Q \in Quorum : \A a \in Q : VotedFor(a, s, b, v)

\* Nothing but v is or will be chosen below b.
SafeAt(s, b, v) ==
    \A c \in PNum : c < b =>
        \E Q \in Quorum : \A a \in Q :
            \/ VotedFor(a, s, c, v)
            \/ DidNotVote(a, s, c) /\ mp[a][s] > c

\* v has been chosen, at b or earlier.
Backed(s, b, v) == \E d \in PNum : d <= b /\ ChosenAt(s, d, v)

\* The sequence numbers that some application has not passed to Done() yet:
\* the ones the library still has to answer for.
Open == {s \in Seqs : \E q \in Peers : dones[q][q] < s}

\* Two peers whose Status() answers Decided for the same sequence number
\* report the same value ("decided values do not match",
\* paxos/test_test.go:40), as long as some application is not done with it.
Agreement ==
    \A p, q \in Peers, s \in Open :
        Status(p, s) = "Decided" /\ Status(q, s) = "Decided"
            => inst[p][s].v_a = inst[q][s].v_a

\* No peer dies: sendDecide() always finds the instance it dereferences, however
\* slow its calls were ("Copes with network failures", paxos.go:10).
NoPanic == dead = {}

\* The promise a peer gave may be taken back by a late Decide, which sets n_p
\* to the number of the decided round even when the peer has promised a higher
\* one.  What makes that harmless: a promise is only ever taken back down to a
\* round at or above one in which a value was chosen, and the values accepted
\* there are that value.
BrokenPromiseBacked ==
    \A p \in Peers, s \in Open :
        inst[p][s].n_p < mp[p][s] => \E v \in Value : Backed(s, inst[p][s].n_p, v)

\* A peer never believes another to be further along than it is: what Min()
\* treats as done has been passed to Done() on that very peer, so an instance is
\* forgotten only when no application needs it (comment of Min(),
\* paxos.go:414-421).
DonesNeverAhead ==
    \A p, q \in Peers : dones[p][q] <= dones[q][q]

\* The values chosen for the open sequence numbers.
Chosen ==
    [s \in Seqs |-> {v \in Value : s \in Open /\ \E b \in PNum : ChosenAt(s, b, v)}]

C == INSTANCE Consensus WITH chosen <- Chosen, open <- Open

\* The library implements the abstract specification: for a number that is
\* still open a value is chosen at most once and never replaced, whatever calls
\* are lost, late or answered after a restart of the round.
Implements == C!Spec

----------------------------------------------------------------------------
(* What the types leave out: a goroutine that runs has a sequence number, a  *)
(* value and a proposal number, an accepted proposal has a value.            *)

WellFormed ==
    /\ \A g \in Goroutine :
        /\ prop[g].pc # "idle" => prop[g].seq \in Seqs /\ prop[g].v \in Value
        /\ prop[g].pc \in {"prepare", "accept", "decide"} =>
            prop[g].pnum \in PNum /\ prop[g].rv \in Value
    /\ \A p \in Peers, s \in Seqs :
        inst[p][s].n_a # 0 => inst[p][s].v_a \in Value

TypeInv == TypeOK /\ WellFormed

----------------------------------------------------------------------------
(* The inductive invariant of the agreement protocol. *)

ProposalInv ==
    /\ \A s \in Seqs, b \in PNum, v \in Value :
        <<s, b, v>> \in proposed => b \in used
    /\ \A s \in Seqs, b \in PNum, v, w \in Value :
        <<s, b, v>> \in proposed /\ <<s, b, w>> \in proposed => v = w
    /\ \A a \in Peers, s \in Seqs, b \in PNum, v \in Value :
        VotedFor(a, s, b, v) => <<s, b, v>> \in proposed /\ b <= mp[a][s]
    /\ \A s \in Open, b \in PNum, v \in Value :
        <<s, b, v>> \in proposed => SafeAt(s, b, v)

\* What instance i of peer p records about an open sequence number s.
InstanceInv(i, p, s) ==
    /\ i.n_a <= i.n_p /\ i.n_p <= mp[p][s]
    /\ i.state = "Absent" => mp[p][s] = 0
    /\ i.n_a # 0 => <<s, i.n_a, i.v_a>> \in proposed
    /\ i.n_p < mp[p][s] => \E v \in Value : Backed(s, i.n_p, v)
    /\ \/ \A c \in PNum : c > i.n_a => DidNotVote(p, s, c)
       \/ Backed(s, i.n_a, i.v_a)
    /\ i.state = "Decided" => Backed(s, i.n_a, i.v_a)

AcceptorInv ==
    \A p \in Peers, s \in Open : InstanceInv(inst[p][s], p, s)

\* What the answers of a prepare phase entitle it to.
PrepareInv(r) ==
    /\ \A a \in r.oks : mp[a][r.seq] >= r.pnum
    /\ r.rp < r.pnum
    /\ r.rp # 0 => <<r.seq, r.rp, r.rv>> \in proposed
    /\ \/ \A a \in r.oks, c \in PNum :
              r.rp < c /\ c < r.pnum => DidNotVote(a, r.seq, c)
       \/ Backed(r.seq, r.rp, r.rv)
    /\ r.i > r.me => inst[r.me][r.seq].state # "Absent"

\* What the answers of an accept phase entitle it to.
AcceptInv(r) ==
    /\ inst[r.me][r.seq].state # "Absent"
    /\ r.pc = "accept" =>
        \A a \in r.oks : \/ VotedFor(a, r.seq, r.pnum, r.rv)
                         \/ Backed(r.seq, r.pnum, r.rv)
    /\ r.pc = "decide" => Backed(r.seq, r.pnum, r.rv)

RoundInv(r) ==
    /\ r.pc \in {"prepare", "accept", "decide"} => r.pnum \in used
    /\ r.pc = "prepare" =>
        \A s \in Seqs, v \in Value : <<s, r.pnum, v>> \notin proposed
    /\ r.pc \in {"accept", "decide"} => <<r.seq, r.pnum, r.rv>> \in proposed
    /\ r.pc = "prepare" /\ r.seq \in Open => PrepareInv(r)
    /\ r.pc \in {"accept", "decide"} /\ r.seq \in Open => AcceptInv(r)

ProposerInv ==
    /\ \A g \in Goroutine : RoundInv(prop[g])
    /\ \A g, h \in Goroutine :
        /\ prop[g].pc \in {"prepare", "accept", "decide"}
        /\ prop[h].pc \in {"prepare", "accept", "decide"}
        /\ prop[g].pnum = prop[h].pnum
        => g = h

NetInv ==
    \A m \in net :
        /\ m.type \in {"Accept", "Decide"} => <<m.seq, m.pnum, m.val>> \in proposed
        /\ m.type = "Decide" /\ m.seq \in Open => Backed(m.seq, m.pnum, m.val)

\* A Decide on its way carries a number its sender has passed to Done().
DonesInv ==
    /\ DonesNeverAhead
    /\ \A m \in net : m.type = "Decide" =>
        m.to # m.me /\ m.done <= dones[m.me][m.me]

\* The proposals are safe, the acceptors' records agree with them, the rounds
\* under way know what their answers entitle them to, and no peer forgets what
\* is still open.
AgreeInv == ProposalInv /\ AcceptorInv /\ ProposerInv /\ NetInv /\ DonesInv
============================================================================
