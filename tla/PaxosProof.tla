---------------------------- MODULE PaxosProof ----------------------------
(***************************************************************************)
(* Proofs about Paxos, for any number of peers, any set of values, any     *)
(* sequence numbers and any supply of proposal numbers.                    *)
(***************************************************************************)
EXTENDS Paxos, FiniteSetTheorems, TLAPS

\* There are N peers.
LEMMA PeersFinite == IsFiniteSet(Peers) /\ Cardinality(Peers) = N
  BY NAssumption, FS_Interval DEF Peers

\* Two majorities share a peer: majority() is len(px.peers)/2 + 1.
LEMMA QuorumsMeet ==
  ASSUME NEW Q1 \in Quorum, NEW Q2 \in Quorum
  PROVE  Q1 \cap Q2 # {}
<1>1. Q1 \in SUBSET Peers /\ Q2 \in SUBSET Peers
  BY DEF Quorum
<1>2. Cardinality(Q1) >= Majority /\ Cardinality(Q2) >= Majority
  BY DEF Quorum
<1>3. /\ IsFiniteSet(Q1) /\ IsFiniteSet(Q2)
      /\ Cardinality(Q1) \in Nat /\ Cardinality(Q2) \in Nat
  BY <1>1, PeersFinite, FS_Subset, FS_CardinalityType
<1>4. Cardinality(Q1) + Cardinality(Q2) > Cardinality(Peers)
  BY <1>2, <1>3, PeersFinite, NAssumption DEF Majority
<1>5. QED
  BY <1>1, <1>4, PeersFinite, FS_MajoritiesIntersect

\* A majority has a member.
LEMMA QuorumNotEmpty ==
  ASSUME NEW Q \in Quorum
  PROVE  \E a \in Q : a \in Peers
  BY QuorumsMeet DEF Quorum

\* A proposal at or above a round in which a value was chosen has that value.
LEMMA ChosenValue ==
  ASSUME TypeOK, ProposalInv, NEW s \in Open, s \in Seqs,
         NEW b \in PNum, NEW v \in Value, <<s, b, v>> \in proposed,
         NEW d \in PNum, NEW w \in Value, d <= b, ChosenAt(s, d, w)
  PROVE  w = v
<1>1. PICK Q1 \in Quorum : \A a \in Q1 : VotedFor(a, s, d, w)
  BY DEF ChosenAt
<1>2. CASE d = b
  <2>1. PICK a \in Q1 : a \in Peers
    BY QuorumNotEmpty
  <2>2. <<s, d, w>> \in proposed
    BY <1>1, <2>1 DEF ProposalInv
  <2>3. QED
    BY <1>2, <2>2 DEF ProposalInv
<1>3. CASE d < b
  <2>1. SafeAt(s, b, v)
    BY DEF ProposalInv
  <2>2. PICK Q2 \in Quorum : \A a \in Q2 :
            \/ VotedFor(a, s, d, v)
            \/ DidNotVote(a, s, d) /\ mp[a][s] > d
    BY <1>3, <2>1 DEF SafeAt
  <2>3. PICK a \in Q1 \cap Q2 : a \in Peers
    BY QuorumsMeet DEF Quorum
  <2>4. VotedFor(a, s, d, w) /\ VotedFor(a, s, d, v)
    BY <1>1, <2>2, <2>3 DEF DidNotVote
  <2>5. QED
    BY <2>3, <2>4 DEF ProposalInv
<1>4. QED
  BY <1>2, <1>3, PNumAssumption

----------------------------------------------------------------------------
(* Types. *)

\* The loop over the peers counts from 1 to N and one beyond.
LEMMA Counter ==
  1 \in Peers /\ 1 \in 1..(N + 1) /\ \A i \in Peers : i + 1 \in 1..(N + 1)
  BY NAssumption DEF Peers

\* What a goroutine's variables are at the start of a round.
LEMMA RoundTypes ==
  ASSUME NEW r \in Proposer, NEW b \in PNum
  PROVE  /\ NewRound(r, b) \in Proposer
         /\ NewRound(r, b).pc = "prepare" /\ NewRound(r, b).pnum = b
         /\ NewRound(r, b).me = r.me /\ NewRound(r, b).seq = r.seq
         /\ NewRound(r, b).v = r.v /\ NewRound(r, b).rv = r.v
         /\ NewRound(r, b).i = 1 /\ NewRound(r, b).oks = {}
         /\ NewRound(r, b).rp = 0
  BY Counter DEF Proposer, NewRound

\* A goroutine whose new locals are well formed leaves all of them so.
LEMMA PropUpdate ==
  ASSUME TypeInv, NEW g \in Goroutine, NEW n \in Proposer,
         prop' = [prop EXCEPT ![g] = n],
         n.seq \in Seqs, n.v \in Value,
         n.pc \in {"prepare", "accept", "decide"} =>
            n.pnum \in PNum /\ n.rv \in Value
  PROVE  /\ prop' \in [Goroutine -> Proposer]
         /\ \A h \in Goroutine :
              /\ prop'[h].pc # "idle" => prop'[h].seq \in Seqs /\ prop'[h].v \in Value
              /\ prop'[h].pc \in {"prepare", "accept", "decide"} =>
                  prop'[h].pnum \in PNum /\ prop'[h].rv \in Value
<1>1. prop \in [Goroutine -> Proposer]
  BY DEF TypeInv, TypeOK
<1>2. \A h \in Goroutine :
        /\ prop[h].pc # "idle" => prop[h].seq \in Seqs /\ prop[h].v \in Value
        /\ prop[h].pc \in {"prepare", "accept", "decide"} =>
            prop[h].pnum \in PNum /\ prop[h].rv \in Value
  BY DEF TypeInv, WellFormed
<1>3. QED
  BY <1>1, <1>2

\* A new round leaves every goroutine with a number and a value where it
\* needs them.
LEMMA NewRoundUpdate ==
  ASSUME TypeInv, NEW g \in Goroutine, NEW r \in Proposer, NEW b \in PNum,
         r.seq \in Seqs, r.v \in Value,
         prop' = [prop EXCEPT ![g] = NewRound(r, b)]
  PROVE  /\ prop' \in [Goroutine -> Proposer]
         /\ \A h \in Goroutine :
              /\ prop'[h].pc # "idle" => prop'[h].seq \in Seqs /\ prop'[h].v \in Value
              /\ prop'[h].pc \in {"prepare", "accept", "decide"} =>
                  prop'[h].pnum \in PNum /\ prop'[h].rv \in Value
<1> DEFINE n == NewRound(r, b)
<1>1. /\ n \in Proposer /\ n.seq \in Seqs /\ n.v \in Value
      /\ n.pnum \in PNum /\ n.rv \in Value
  BY RoundTypes
<1>2. prop' = [prop EXCEPT ![g] = n]
  OBVIOUS
<1> HIDE DEF n
<1>3. QED
  BY <1>1, <1>2, PropUpdate

\* What the handlers make of an instance is an instance; a fresh vote is
\* for the value sent.
LEMMA InstanceType ==
  ASSUME NEW i \in Instance, NEW b \in PNum, NEW v \in Value
  PROVE  /\ Prepare(i, b) \in Instance
         /\ Prepare(i, b).n_a = i.n_a /\ Prepare(i, b).v_a = i.v_a
         /\ Accept(i, b, v) \in Instance
         /\ Accept(i, b, v).v_a \in {i.v_a, v}
         /\ Accept(i, b, v).n_a # 0 => i.n_a # 0 \/ Accept(i, b, v).v_a = v
         /\ Decide(i, b, v) \in Instance
         /\ Decide(i, b, v).v_a = v
  BY PNumAssumption DEF Instance, Prepare, Accept, Decide, Touched, PrepareOK, AcceptOK

\* Min() keeps an instance or deletes it.
LEMMA ForgetType ==
  ASSUME TypeOK, NEW p \in Peers
  PROVE  /\ Forget(p) \in [Seqs -> Instance]
         /\ \A s \in Seqs : Forget(p)[s] \in {inst[p][s], Absent}
  BY DEF TypeOK, Forget, Absent, Instance

\* The Prepare handler keeps the types.
LEMMA PrepareTypes ==
  ASSUME TypeInv, NEW p \in Peers, NEW s \in Seqs, NEW b \in PNum,
         HandlePrepare(p, s, b)
  PROVE  /\ inst' \in [Peers -> [Seqs -> Instance]]
         /\ \A q \in Peers, t \in Seqs :
               inst'[q][t].n_a # 0 => inst'[q][t].v_a \in Value
         /\ mp' \in [Peers -> [Seqs -> Nat]]
         /\ dones' = dones /\ votes' = votes
<1> DEFINE i == Prepare(inst[p][s], b)
<1>1. i \in Instance /\ (i.n_a # 0 => i.v_a \in Value)
  <2>1. inst[p][s] \in Instance
    BY DEF TypeInv, TypeOK
  <2>2. QED
    BY <2>1, PNumAssumption DEF TypeInv, WellFormed, Prepare, Touched, Instance, PrepareOK
<1>2. inst' = [inst EXCEPT ![p][s] = i]
  BY DEF HandlePrepare
<1> HIDE DEF i
<1>3. QED
  BY <1>1, <1>2, PNumAssumption DEF TypeInv, TypeOK, WellFormed, HandlePrepare

\* The Accept handler keeps the types.
LEMMA AcceptTypes ==
  ASSUME TypeInv, NEW p \in Peers, NEW s \in Seqs, NEW b \in PNum,
         NEW v \in Value, HandleAccept(p, s, b, v)
  PROVE  /\ inst' \in [Peers -> [Seqs -> Instance]]
         /\ \A q \in Peers, t \in Seqs :
               inst'[q][t].n_a # 0 => inst'[q][t].v_a \in Value
         /\ mp' \in [Peers -> [Seqs -> Nat]]
         /\ votes' \subseteq Peers \X Seqs \X PNum \X Value
         /\ dones' = dones
<1> DEFINE i == Accept(inst[p][s], b, v)
<1>1. i \in Instance /\ (i.n_a # 0 => i.v_a \in Value)
  <2>1. inst[p][s] \in Instance
    BY DEF TypeInv, TypeOK
  <2>2. QED
    BY <2>1, InstanceType DEF TypeInv, WellFormed
<1>2. inst' = [inst EXCEPT ![p][s] = i]
  BY DEF HandleAccept
<1> HIDE DEF i
<1>3. /\ inst' \in [Peers -> [Seqs -> Instance]]
      /\ \A q \in Peers, t \in Seqs :
            inst'[q][t].n_a # 0 => inst'[q][t].v_a \in Value
  BY <1>1, <1>2 DEF TypeInv, TypeOK, WellFormed
<1>4. /\ mp' \in [Peers -> [Seqs -> Nat]]
      /\ dones' = dones
  <2>1. (mp' = mp \/ mp' = [mp EXCEPT ![p][s] = b]) /\ dones' = dones
    BY DEF HandleAccept
  <2>2. mp \in [Peers -> [Seqs -> Nat]] /\ b \in Nat
    BY PNumAssumption DEF TypeInv, TypeOK
  <2>3. QED
    BY <2>1, <2>2
<1>5. votes' \subseteq Peers \X Seqs \X PNum \X Value
  <2>1. votes' = votes \/ votes' = votes \cup {<<p, s, b, v>>}
    BY DEF HandleAccept
  <2>2. <<p, s, b, v>> \in Peers \X Seqs \X PNum \X Value
    OBVIOUS
  <2>3. QED
    BY <2>1, <2>2 DEF TypeInv, TypeOK
<1>6. QED
  BY <1>3, <1>4, <1>5

\* The Decide handler keeps the types.
LEMMA DecideTypes ==
  ASSUME TypeInv, NEW p \in Peers, NEW s \in Seqs, NEW b \in PNum,
         NEW v \in Value,
         inst' = [inst EXCEPT ![p][s] = Decide(inst[p][s], b, v)],
         mp' = [mp EXCEPT ![p][s] = IF b > @ THEN b ELSE @]
  PROVE  /\ inst' \in [Peers -> [Seqs -> Instance]]
         /\ \A q \in Peers, t \in Seqs :
               inst'[q][t].n_a # 0 => inst'[q][t].v_a \in Value
         /\ mp' \in [Peers -> [Seqs -> Nat]]
<1> DEFINE i == Decide(inst[p][s], b, v)
<1>1. i \in Instance /\ i.v_a \in Value
  BY PNumAssumption DEF Decide, Instance
<1>2. inst' = [inst EXCEPT ![p][s] = i]
  OBVIOUS
<1> HIDE DEF i
<1>3. QED
  BY <1>1, <1>2, PNumAssumption DEF TypeInv, TypeOK, WellFormed

\* What a step leaves alone is still well typed; one step per action.
LEMMA TypeStep ==
  TypeInv /\ [Next]_vars => TypeInv'
<1> SUFFICES ASSUME TypeInv, [Next]_vars PROVE TypeInv'
  OBVIOUS
<1> USE DEF TypeInv
<1>0. ASSUME NEW p \in Peers, inst' = [inst EXCEPT ![p] = Forget(p)]
      PROVE  /\ inst' \in [Peers -> [Seqs -> Instance]]
             /\ \A q \in Peers, t \in Seqs :
                   inst'[q][t].n_a # 0 => inst'[q][t].v_a \in Value
  <2>1. Forget(p) \in [Seqs -> Instance]
        /\ \A t \in Seqs : Forget(p)[t] \in {inst[p][t], Absent}
    BY ForgetType
  <2>2. inst \in [Peers -> [Seqs -> Instance]]
    BY DEF TypeOK
  <2>3. \A q \in Peers, t \in Seqs :
          inst[q][t].n_a # 0 => inst[q][t].v_a \in Value
    BY DEF WellFormed
  <2>4. QED
    BY <1>0, <2>1, <2>2, <2>3 DEF Absent
<1>1. ASSUME NEW g \in Goroutine, NEW p \in Peers, NEW s \in Seqs,
             NEW v \in Value, Start(g, p, s, v)
      PROVE  TypeInv'
  <2> DEFINE r == [Idle EXCEPT !.me = p, !.seq = s, !.v = v]
  <2>1. /\ r \in Proposer /\ r.seq = s /\ r.v = v
        /\ [r EXCEPT !.pc = "done"] \in Proposer
        /\ [r EXCEPT !.pc = "done"].seq = s /\ [r EXCEPT !.pc = "done"].v = v
        /\ [r EXCEPT !.pc = "done"].pc = "done"
    BY Counter DEF Proposer, Idle, NoPNum
  <2>2. /\ inst' = [inst EXCEPT ![p] = Forget(p)]
        /\ UNCHANGED <<dones, net, dead, votes, mp, proposed>>
        /\ \/ prop' = [prop EXCEPT ![g] = [r EXCEPT !.pc = "done"]] /\ used' = used
           \/ \E b \in PNum : /\ prop' = [prop EXCEPT ![g] = NewRound(r, b)]
                               /\ used' = used \cup {b}
    <3>1. CASE BelowMin(p, s)
      BY <1>1, <3>1 DEF Start, hist
    <3>2. CASE ~BelowMin(p, s)
      BY <1>1, <3>2 DEF Start, Fresh, hist
    <3>3. QED
      BY <3>1, <3>2
  <2> HIDE DEF r
  <2>3. CASE prop' = [prop EXCEPT ![g] = [r EXCEPT !.pc = "done"]] /\ used' = used
    BY <2>1, <2>2, <2>3, <1>0, PropUpdate DEF TypeOK, WellFormed
  <2>4. ASSUME NEW b \in PNum, prop' = [prop EXCEPT ![g] = NewRound(r, b)],
               used' = used \cup {b}
        PROVE  TypeInv'
    <3>1. r.seq \in Seqs /\ r.v \in Value /\ used' \subseteq PNum
      BY <2>1, <2>4 DEF TypeOK
    <3>2. QED
      BY <2>1, <2>2, <2>4, <3>1, <1>0, NewRoundUpdate DEF TypeOK, WellFormed
  <2>5. QED
    BY <2>2, <2>3, <2>4
<1>2. ASSUME NEW g \in Goroutine, CallPrepare(g)
      PROVE  TypeInv'
  <2> DEFINE r == prop[g]
  <2>1. /\ r \in Proposer /\ r.pc = "prepare" /\ r.seq \in Seqs
        /\ r.pnum \in PNum /\ r.v \in Value /\ r.rv \in Value /\ r.i \in Peers
    BY <1>2 DEF CallPrepare, TypeOK, WellFormed
  <2>2. /\ HandlePrepare(r.i, r.seq, r.pnum)
        /\ prop' = [prop EXCEPT ![g] = AfterPrepare(r, r.i)]
        /\ UNCHANGED <<net, used, dead, proposed>>
    BY <1>2 DEF CallPrepare
  <2>3. inst[r.i][r.seq] \in Instance
    BY <2>1 DEF TypeOK
  <2>4. inst[r.i][r.seq].n_a > r.rp => inst[r.i][r.seq].v_a \in Value
    BY <2>1, <2>3 DEF WellFormed, Instance, Proposer
  <2> HIDE DEF r
  <2>5. /\ AfterPrepare(r, r.i) \in Proposer
        /\ AfterPrepare(r, r.i).seq = r.seq
        /\ AfterPrepare(r, r.i).v = r.v
        /\ AfterPrepare(r, r.i).pnum = r.pnum
        /\ AfterPrepare(r, r.i).rv \in Value
    <3>1. CASE ~PrepareOK(inst[r.i][r.seq], r.pnum)
      BY <2>1, <3>1, Counter DEF AfterPrepare, Proposer
    <3>2. CASE /\ PrepareOK(inst[r.i][r.seq], r.pnum)
               /\ ~(inst[r.i][r.seq].n_a > r.rp)
      BY <2>1, <3>2, Counter DEF AfterPrepare, Proposer
    <3>3. CASE /\ PrepareOK(inst[r.i][r.seq], r.pnum)
               /\ inst[r.i][r.seq].n_a > r.rp
      <4>1. inst[r.i][r.seq].n_a \in Nat
        BY <2>3 DEF Instance
      <4>2. QED
        BY <2>1, <2>4, <3>3, <4>1, Counter DEF AfterPrepare, Proposer
    <3>4. QED
      BY <3>1, <3>2, <3>3
  <2>6. QED
    BY <2>1, <2>2, <2>5, PrepareTypes, PropUpdate DEF TypeOK, WellFormed
<1>3. ASSUME NEW g \in Goroutine, FailPrepare(g)
      PROVE  TypeInv'
  <2>1. /\ prop[g] \in Proposer /\ prop[g].seq \in Seqs /\ prop[g].i \in Peers
        /\ prop[g].pnum \in PNum /\ prop[g].v \in Value /\ prop[g].rv \in Value
    BY <1>3 DEF FailPrepare, TypeOK, WellFormed
  <2>2. net' \subseteq Message /\ UNCHANGED <<inst, dones, used, dead, votes, mp, proposed>>
    BY <1>3, <2>1 DEF FailPrepare, TypeOK, Message, hist
  <2> DEFINE n == [prop[g] EXCEPT !.i = @ + 1]
  <2>3. prop' = [prop EXCEPT ![g] = n]
    BY <1>3 DEF FailPrepare, TypeOK
  <2>4. /\ n \in Proposer /\ n.seq \in Seqs /\ n.v \in Value
        /\ n.pnum \in PNum /\ n.rv \in Value
    BY <2>1, Counter DEF Proposer
  <2> HIDE DEF n
  <2>5. QED
    BY <2>2, <2>3, <2>4, PropUpdate DEF TypeOK, WellFormed
<1>4. ASSUME NEW g \in Goroutine, EndPrepare(g)
      PROVE  TypeInv'
  <2>1. /\ prop[g] \in Proposer /\ prop[g].seq \in Seqs /\ prop[g].v \in Value
        /\ prop[g].pnum \in PNum /\ prop[g].rv \in Value
    BY <1>4 DEF EndPrepare, TypeOK, WellFormed
  <2>2. /\ proposed' \subseteq Seqs \X PNum \X Value
        /\ UNCHANGED <<inst, dones, net, used, dead, votes, mp>>
    BY <1>4, <2>1 DEF EndPrepare, TypeOK
  <2> DEFINE n == IF Cardinality(prop[g].oks) >= Majority
                    THEN [prop[g] EXCEPT !.pc = "accept", !.i = 1, !.oks = {}]
                    ELSE [prop[g] EXCEPT !.pc = "min"]
  <2>3. prop' = [prop EXCEPT ![g] = n]
    BY <1>4 DEF EndPrepare, TypeOK
  <2>4. /\ n \in Proposer /\ n.seq \in Seqs /\ n.v \in Value
        /\ n.pnum \in PNum /\ n.rv \in Value
    BY <2>1, Counter DEF Proposer
  <2> HIDE DEF n
  <2>5. QED
    BY <2>2, <2>3, <2>4, PropUpdate DEF TypeOK, WellFormed
<1>5. ASSUME NEW g \in Goroutine, CallAccept(g)
      PROVE  TypeInv'
  <2> DEFINE r == prop[g]
             n == [r EXCEPT !.i = @ + 1,
                            !.oks = IF AcceptOK(inst[r.i][r.seq], r.pnum)
                                      THEN @ \cup {r.i} ELSE @]
  <2>1. /\ r \in Proposer /\ r.pc = "accept" /\ r.seq \in Seqs
        /\ r.pnum \in PNum /\ r.v \in Value /\ r.rv \in Value /\ r.i \in Peers
    BY <1>5 DEF CallAccept, TypeOK, WellFormed
  <2>2. /\ HandleAccept(r.i, r.seq, r.pnum, r.rv)
        /\ UNCHANGED <<net, used, dead, proposed>>
    BY <1>5 DEF CallAccept
  <2>3. prop' = [prop EXCEPT ![g] = n]
    BY <1>5 DEF CallAccept
  <2> HIDE DEF r
  <2>4. /\ n \in Proposer /\ n.seq \in Seqs /\ n.v \in Value
        /\ n.pnum \in PNum /\ n.rv \in Value
    BY <2>1, Counter DEF Proposer
  <2> HIDE DEF n
  <2>5. QED
    BY <2>1, <2>2, <2>3, <2>4, AcceptTypes, PropUpdate DEF TypeOK, WellFormed
<1>6. ASSUME NEW g \in Goroutine, FailAccept(g)
      PROVE  TypeInv'
  <2>1. /\ prop[g] \in Proposer /\ prop[g].seq \in Seqs /\ prop[g].i \in Peers
        /\ prop[g].pnum \in PNum /\ prop[g].v \in Value /\ prop[g].rv \in Value
    BY <1>6 DEF FailAccept, TypeOK, WellFormed
  <2>2. net' \subseteq Message /\ UNCHANGED <<inst, dones, used, dead, votes, mp, proposed>>
    BY <1>6, <2>1 DEF FailAccept, TypeOK, Message, hist
  <2> DEFINE n == [prop[g] EXCEPT !.i = @ + 1]
  <2>3. prop' = [prop EXCEPT ![g] = n]
    BY <1>6 DEF FailAccept, TypeOK
  <2>4. /\ n \in Proposer /\ n.seq \in Seqs /\ n.v \in Value
        /\ n.pnum \in PNum /\ n.rv \in Value
    BY <2>1, Counter DEF Proposer
  <2> HIDE DEF n
  <2>5. QED
    BY <2>2, <2>3, <2>4, PropUpdate DEF TypeOK, WellFormed
<1>7. ASSUME NEW g \in Goroutine, EndAccept(g)
      PROVE  TypeInv'
  <2>1. /\ prop[g] \in Proposer /\ prop[g].seq \in Seqs /\ prop[g].v \in Value
        /\ prop[g].pnum \in PNum /\ prop[g].rv \in Value
    BY <1>7 DEF EndAccept, TypeOK, WellFormed
  <2> DEFINE n == [prop[g] EXCEPT !.pc = IF Cardinality(prop[g].oks) >= Majority
                                           THEN "decide" ELSE "min"]
  <2>2. /\ prop' = [prop EXCEPT ![g] = n]
        /\ UNCHANGED <<inst, dones, net, used, dead, votes, mp, proposed>>
    BY <1>7 DEF EndAccept, TypeOK, hist
  <2>3. /\ n \in Proposer /\ n.seq \in Seqs /\ n.v \in Value
        /\ n.pnum \in PNum /\ n.rv \in Value
    BY <2>1 DEF Proposer
  <2> HIDE DEF n
  <2>4. QED
    BY <2>2, <2>3, PropUpdate DEF TypeOK, WellFormed
<1>8. ASSUME NEW g \in Goroutine, SendDecide(g)
      PROVE  TypeInv'
  <2> DEFINE r == prop[g]
             n == [r EXCEPT !.pc = "done"]
  <2>1. /\ r \in Proposer /\ r.pc = "decide" /\ r.seq \in Seqs /\ r.me \in Peers
        /\ r.pnum \in PNum /\ r.v \in Value /\ r.rv \in Value
    BY <1>8 DEF SendDecide, TypeOK, WellFormed, Proposer
  <2>2. CASE inst[r.me][r.seq].state = "Absent"
    BY <1>8, <2>1, <2>2 DEF SendDecide, TypeOK, WellFormed, hist
  <2>3. CASE inst[r.me][r.seq].state # "Absent"
    <3>1. /\ inst' = [inst EXCEPT ![r.me][r.seq] =
                        Decide(inst[r.me][r.seq], r.pnum, r.rv)]
          /\ mp' = [mp EXCEPT ![r.me][r.seq] = IF r.pnum > @ THEN r.pnum ELSE @]
          /\ UNCHANGED <<dones, used, dead, votes, proposed>>
      BY <1>8, <2>3 DEF SendDecide
    <3>2. prop' = [prop EXCEPT ![g] = n]
      BY <1>8, <2>3 DEF SendDecide, TypeOK
    <3>3. net' \subseteq Message
      BY <1>8, <2>1, <2>3 DEF SendDecide, TypeOK, Message
    <3> HIDE DEF r
    <3>4. n \in Proposer /\ n.seq \in Seqs /\ n.v \in Value /\ n.pc = "done"
      BY <2>1 DEF Proposer
    <3>5. /\ inst' \in [Peers -> [Seqs -> Instance]]
          /\ \A q \in Peers, t \in Seqs :
                inst'[q][t].n_a # 0 => inst'[q][t].v_a \in Value
          /\ mp' \in [Peers -> [Seqs -> Nat]]
      BY <2>1, <3>1, DecideTypes
    <3> HIDE DEF n
    <3>6. QED
      BY <3>1, <3>2, <3>3, <3>4, <3>5, PropUpdate DEF TypeOK, WellFormed
  <2>4. QED
    BY <2>2, <2>3
<1>9. ASSUME NEW g \in Goroutine, LoopMin(g)
      PROVE  TypeInv'
  <2> DEFINE r == prop[g]
             n == [r EXCEPT !.pc = "status"]
  <2>1. /\ r \in Proposer /\ r.pc = "min" /\ r.seq \in Seqs /\ r.me \in Peers
        /\ r.v \in Value
    BY <1>9 DEF LoopMin, TypeOK, WellFormed, Proposer
  <2>2. /\ inst' = [inst EXCEPT ![r.me] = Forget(r.me)]
        /\ UNCHANGED <<dones, net, dead, votes, mp, proposed>>
        /\ \/ prop' = [prop EXCEPT ![g] = n] /\ used' = used
           \/ \E b \in PNum : /\ prop' = [prop EXCEPT ![g] = NewRound(r, b)]
                               /\ used' = used \cup {b}
    BY <1>9 DEF LoopMin, Fresh, hist, TypeOK
  <2> HIDE DEF r
  <2>3. n \in Proposer /\ n.seq \in Seqs /\ n.v \in Value /\ n.pc = "status"
    BY <2>1 DEF Proposer
  <2> HIDE DEF n
  <2>4. CASE prop' = [prop EXCEPT ![g] = n] /\ used' = used
    BY <2>1, <2>2, <2>3, <2>4, <1>0, PropUpdate DEF TypeOK, WellFormed
  <2>5. ASSUME NEW b \in PNum, prop' = [prop EXCEPT ![g] = NewRound(r, b)],
               used' = used \cup {b}
        PROVE  TypeInv'
    BY <2>1, <2>2, <2>5, <1>0, NewRoundUpdate DEF TypeOK, WellFormed
  <2>6. QED
    BY <2>2, <2>4, <2>5
<1>10. ASSUME NEW g \in Goroutine, LoopStatus(g)
       PROVE  TypeInv'
  <2> DEFINE r == prop[g]
             n == [r EXCEPT !.pc = "done"]
  <2>1. /\ r \in Proposer /\ r.pc = "status" /\ r.seq \in Seqs /\ r.me \in Peers
        /\ r.v \in Value
    BY <1>10 DEF LoopStatus, TypeOK, WellFormed, Proposer
  <2>2. /\ UNCHANGED <<inst, dones, net, dead, votes, mp, proposed>>
        /\ \/ prop' = [prop EXCEPT ![g] = n] /\ used' = used
           \/ \E b \in PNum : /\ prop' = [prop EXCEPT ![g] = NewRound(r, b)]
                               /\ used' = used \cup {b}
    BY <1>10 DEF LoopStatus, Fresh, hist, TypeOK
  <2> HIDE DEF r
  <2>3. n \in Proposer /\ n.seq \in Seqs /\ n.v \in Value /\ n.pc = "done"
    BY <2>1 DEF Proposer
  <2> HIDE DEF n
  <2>4. CASE prop' = [prop EXCEPT ![g] = n] /\ used' = used
    BY <2>2, <2>3, <2>4, PropUpdate DEF TypeOK, WellFormed
  <2>5. ASSUME NEW b \in PNum, prop' = [prop EXCEPT ![g] = NewRound(r, b)],
               used' = used \cup {b}
        PROVE  TypeInv'
    BY <2>1, <2>2, <2>5, NewRoundUpdate DEF TypeOK, WellFormed
  <2>6. QED
    BY <2>2, <2>4, <2>5
<1>11. ASSUME NEW m \in net, Late(m)
       PROVE  TypeInv'
  <2>1. /\ m \in Message
        /\ net' \subseteq Message
        /\ UNCHANGED <<prop, used, dead, proposed>>
    BY <1>11 DEF Late, TypeOK
  <2>2. CASE LatePrepare(m)
    <3>1. m.to \in Peers /\ m.seq \in Seqs /\ m.pnum \in PNum
      BY <2>1 DEF Message
    <3>2. QED
      BY <2>1, <2>2, <3>1, PrepareTypes DEF LatePrepare, TypeOK, WellFormed
  <2>3. CASE LateAccept(m)
    <3>1. m.to \in Peers /\ m.seq \in Seqs /\ m.pnum \in PNum /\ m.val \in Value
      BY <2>1, <2>3 DEF Message, LateAccept
    <3>2. QED
      BY <2>1, <2>3, <3>1, AcceptTypes DEF LateAccept, TypeOK, WellFormed
  <2>4. CASE LateDecide(m)
    <3>1. /\ m.to \in Peers /\ m.seq \in Seqs /\ m.pnum \in PNum /\ m.val \in Value
          /\ m.me \in Peers /\ m.done \in Int
      BY <2>1, <2>4 DEF Message, LateDecide
    <3>2. /\ inst' = [inst EXCEPT ![m.to][m.seq] =
                        Decide(inst[m.to][m.seq], m.pnum, m.val)]
          /\ mp' = [mp EXCEPT ![m.to][m.seq] = IF m.pnum > @ THEN m.pnum ELSE @]
          /\ votes' = votes
      BY <2>4 DEF LateDecide, HandleDecide
    <3>3. dones' \in [Peers -> [Peers -> Int]]
      BY <2>4, <3>1 DEF LateDecide, HandleDecide, TypeOK
    <3>4. QED
      BY <2>1, <3>1, <3>2, <3>3, DecideTypes DEF TypeOK, WellFormed
  <2>5. QED
    BY <1>11, <2>2, <2>3, <2>4 DEF Late
<1>12. ASSUME NEW p \in Peers, NEW s \in Seqs, Done(p, s)
       PROVE  TypeInv'
  BY <1>12, SeqsAssumption DEF Done, TypeOK, WellFormed, hist
<1>13. ASSUME NEW p \in Peers, Min(p)
       PROVE  TypeInv'
  BY <1>13, <1>0 DEF Min, TypeOK, WellFormed, hist
<1>14. CASE UNCHANGED vars
  BY <1>14 DEF vars, TypeOK, WellFormed
<1>15. QED
  BY <1>1, <1>2, <1>3, <1>4, <1>5, <1>6, <1>7, <1>8, <1>9, <1>10, <1>11, <1>12,
     <1>13, <1>14 DEF Next, Propose

\* The types hold when Make() returns.
LEMMA TypeInit == Init => TypeInv
  BY NAssumption DEF Init, TypeInv, TypeOK, WellFormed, Absent, Instance, Idle,
     Proposer, Peers, NoPNum

\* Every variable keeps its type, whatever the applications do with Start(),
\* Done() and Min() and however the network behaves.
THEOREM TypeCorrect == Spec => []TypeOK
<1>1. TypeInv => TypeOK
  BY DEF TypeInv
<1>2. QED
  BY TypeInit, TypeStep, <1>1, PTL DEF Spec

----------------------------------------------------------------------------
(* What is known stays known. *)

\* Votes, proposals and numbers are only added, promises only rise (mp is the
\* highest ever made), a new vote is at or above the voter's promises, closed
\* numbers stay closed and no instance of an open one disappears.
Grow ==
    /\ Open' \subseteq Open
    /\ votes \subseteq votes' /\ proposed \subseteq proposed' /\ used \subseteq used'
    /\ \A a \in Peers, s \in Seqs : mp[a][s] <= mp'[a][s]
    /\ \A a \in Peers, s \in Seqs, b \in PNum, v \in Value :
          <<a, s, b, v>> \in votes' => <<a, s, b, v>> \in votes \/ b >= mp[a][s]
    /\ \A p \in Peers, s \in Open :
          inst[p][s].state # "Absent" => inst'[p][s].state # "Absent"

\* An open sequence number is a sequence number.
LEMMA OpenSeqs == Open \subseteq Seqs
  BY DEF Open

\* What is chosen, backed or safe stays so while votes and promises grow.
LEMMA Stable ==
  ASSUME TypeOK, TypeOK', Grow
  PROVE  /\ \A s, d, v : ChosenAt(s, d, v) => ChosenAt(s, d, v)'
         /\ \A s, b, v : Backed(s, b, v) => Backed(s, b, v)'
         /\ \A a \in Peers, s \in Seqs, c \in PNum :
              DidNotVote(a, s, c) /\ mp[a][s] > c
                => DidNotVote(a, s, c)' /\ mp'[a][s] > c
         /\ \A s \in Seqs, b \in PNum, v \in Value :
              SafeAt(s, b, v) => SafeAt(s, b, v)'
<1>1. \A s, d, v : ChosenAt(s, d, v) => ChosenAt(s, d, v)'
  BY DEF ChosenAt, VotedFor, Grow
<1>2. \A s, b, v : Backed(s, b, v) => Backed(s, b, v)'
  BY <1>1 DEF Backed
<1>3. ASSUME NEW a \in Peers, NEW s \in Seqs, NEW c \in PNum,
             DidNotVote(a, s, c), mp[a][s] > c
      PROVE  DidNotVote(a, s, c)' /\ mp'[a][s] > c
  <2>1. /\ mp[a][s] \in Nat /\ mp'[a][s] \in Nat /\ c \in Nat
        /\ mp[a][s] <= mp'[a][s]
    BY PNumAssumption DEF TypeOK, Grow
  <2>2. \A v \in Value : <<a, s, c, v>> \in votes' => <<a, s, c, v>> \in votes
    BY <1>3, <2>1 DEF Grow
  <2>3. QED
    BY <1>3, <2>1, <2>2 DEF DidNotVote, VotedFor
<1>4. ASSUME NEW s \in Seqs, NEW b \in PNum, NEW v \in Value, SafeAt(s, b, v)
      PROVE  SafeAt(s, b, v)'
  <2>1. SUFFICES ASSUME NEW c \in PNum, c < b
                 PROVE  \E Q \in Quorum : \A a \in Q :
                           \/ VotedFor(a, s, c, v)'
                           \/ DidNotVote(a, s, c)' /\ mp'[a][s] > c
    BY DEF SafeAt
  <2>2. PICK Q \in Quorum : \A a \in Q :
            \/ VotedFor(a, s, c, v)
            \/ DidNotVote(a, s, c) /\ mp[a][s] > c
    BY <1>4, <2>1 DEF SafeAt
  <2>3. \A a \in Q : a \in Peers
    BY DEF Quorum
  <2>4. \A a \in Q : VotedFor(a, s, c, v) => VotedFor(a, s, c, v)'
    BY DEF VotedFor, Grow
  <2>5. QED
    BY <1>3, <2>2, <2>3, <2>4
<1>5. QED
  BY <1>1, <1>2, <1>3, <1>4

\* A value chosen at or below b is chosen at or below any c above b.
LEMMA BackedLater ==
  ASSUME NEW s, NEW v, NEW b \in Nat, NEW c \in Nat, b <= c, Backed(s, b, v)
  PROVE  Backed(s, c, v)
  BY PNumAssumption DEF Backed

\* What is chosen is a value, in a round with a number.
LEMMA BackedValue ==
  ASSUME TypeOK, NEW s, NEW v, NEW b \in Nat, Backed(s, b, v)
  PROVE  v \in Value /\ b # 0
<1>1. PICK d \in PNum : d <= b /\ ChosenAt(s, d, v)
  BY DEF Backed
<1>2. PICK Q \in Quorum : \A a \in Q : VotedFor(a, s, d, v)
  BY <1>1 DEF ChosenAt
<1>3. PICK a \in Q : TRUE
  BY QuorumNotEmpty
<1>4. <<a, s, d, v>> \in Peers \X Seqs \X PNum \X Value
  BY <1>2, <1>3 DEF VotedFor, TypeOK
<1>5. QED
  BY <1>1, <1>4, PNumAssumption

\* What is chosen was proposed.
LEMMA ChosenProposed ==
  ASSUME TypeOK, ProposalInv, NEW s \in Seqs, NEW d \in PNum, NEW v \in Value,
         ChosenAt(s, d, v)
  PROVE  <<s, d, v>> \in proposed
<1>1. PICK Q \in Quorum : \A a \in Q : VotedFor(a, s, d, v)
  BY DEF ChosenAt
<1>2. PICK a \in Q : a \in Peers
  BY QuorumNotEmpty
<1>3. QED
  BY <1>1, <1>2 DEF ProposalInv

\* A proposal at or above a number by which a value was chosen has that value.
LEMMA BackedProposal ==
  ASSUME TypeOK, ProposalInv, NEW s \in Open, s \in Seqs, NEW b \in PNum,
         NEW v \in Value, <<s, b, v>> \in proposed,
         NEW c \in Nat, NEW w, c <= b, Backed(s, c, w)
  PROVE  w = v
<1>1. w \in Value
  BY BackedValue
<1>2. PICK d \in PNum : d <= c /\ ChosenAt(s, d, w)
  BY DEF Backed
<1>3. d <= b
  BY <1>2, PNumAssumption
<1>4. QED
  BY <1>1, <1>2, <1>3, ChosenValue

----------------------------------------------------------------------------
(* The three handlers. *)

\* An instance no step touches keeps its part of the invariant.
LEMMA InstanceStable ==
  ASSUME TypeOK, TypeOK', Grow, NEW i \in Instance, NEW p \in Peers,
         NEW s \in Seqs, InstanceInv(i, p, s),
         mp'[p][s] = mp[p][s],
         \A b \in PNum, v \in Value :
            <<p, s, b, v>> \in votes' => <<p, s, b, v>> \in votes
  PROVE  InstanceInv(i, p, s)'
<1>1. /\ i.n_a <= i.n_p /\ i.n_p <= mp'[p][s]
      /\ i.state = "Absent" => mp'[p][s] = 0
  BY DEF InstanceInv
<1>2. i.n_a # 0 => <<s, i.n_a, i.v_a>> \in proposed'
  BY DEF InstanceInv, Grow
<1>3. i.n_p < mp'[p][s] => \E v \in Value : Backed(s, i.n_p, v)'
  BY Stable DEF InstanceInv
<1>4. \A c \in PNum : DidNotVote(p, s, c) => DidNotVote(p, s, c)'
  BY DEF DidNotVote, VotedFor
<1>5. \/ \A c \in PNum : c > i.n_a => DidNotVote(p, s, c)'
      \/ Backed(s, i.n_a, i.v_a)'
  BY <1>4, Stable DEF InstanceInv
<1>6. i.state = "Decided" => Backed(s, i.n_a, i.v_a)'
  BY Stable DEF InstanceInv
<1>7. QED
  BY <1>1, <1>2, <1>3, <1>5, <1>6 DEF InstanceInv

\* A step that changes one instance, promise and vote of one peer.
LEMMA AcceptorUpdate ==
  ASSUME TypeOK, TypeOK', Grow, AcceptorInv, NEW p \in Peers, NEW s \in Seqs,
         s \in Open' => InstanceInv(inst[p][s], p, s)',
         \A q \in Peers, t \in Open : q # p \/ t # s =>
            /\ inst'[q][t] = inst[q][t] /\ mp'[q][t] = mp[q][t]
            /\ \A c \in PNum, w \in Value :
                  <<q, t, c, w>> \in votes' => <<q, t, c, w>> \in votes
  PROVE  AcceptorInv'
<1>1. ASSUME NEW q \in Peers, NEW t \in Open' PROVE InstanceInv(inst[q][t], q, t)'
  <2>1. CASE q = p /\ t = s
    BY <2>1
  <2>2. CASE q # p \/ t # s
    <3>0. t \in Open /\ t \in Seqs
      BY OpenSeqs DEF Grow
    <3>1. PICK k \in Instance : k = inst[q][t]
      BY <3>0 DEF TypeOK
    <3>2. InstanceInv(k, q, t) /\ inst'[q][t] = k /\ mp'[q][t] = mp[q][t]
      BY <2>2, <3>0, <3>1 DEF AcceptorInv
    <3>3. \A c \in PNum, w \in Value :
             <<q, t, c, w>> \in votes' => <<q, t, c, w>> \in votes
      BY <2>2, <3>0
    <3>4. InstanceInv(k, q, t)'
      BY <3>0, <3>2, <3>3, InstanceStable
    <3>5. QED
      BY <3>2, <3>4
  <2>3. QED
    BY <2>1, <2>2
<1>2. QED
  BY <1>1 DEF AcceptorInv

\* A step that leaves votes and the open instances alone.
LEMMA AcceptorStable ==
  ASSUME TypeOK, TypeOK', Grow, AcceptorInv, votes' = votes, mp' = mp,
         \A q \in Peers, t \in Open : inst'[q][t] = inst[q][t]
  PROVE  AcceptorInv'
<1>1. ASSUME NEW q \in Peers, NEW t \in Open' PROVE InstanceInv(inst[q][t], q, t)'
  <2>1. t \in Open /\ t \in Seqs
    BY OpenSeqs DEF Grow
  <2>2. PICK k \in Instance : k = inst[q][t]
    BY <2>1 DEF TypeOK
  <2>3. InstanceInv(k, q, t) /\ inst'[q][t] = k
    BY <2>1, <2>2 DEF AcceptorInv
  <2>4. InstanceInv(k, q, t)'
    BY <2>1, <2>3, InstanceStable
  <2>5. QED
    BY <2>3, <2>4
<1>2. QED
  BY <1>1 DEF AcceptorInv

\* Proposals stay safe when promises rise and no vote is added.
LEMMA ProposalStable ==
  ASSUME TypeOK, TypeOK', Grow, ProposalInv, votes' = votes, proposed' = proposed
  PROVE  ProposalInv'
<1>1. \A a \in Peers, t \in Seqs, c \in PNum :
         c <= mp[a][t] => c <= mp'[a][t]
  BY PNumAssumption DEF Grow, TypeOK
<1>2. \A t \in Open', c \in PNum, w \in Value :
         <<t, c, w>> \in proposed' => SafeAt(t, c, w)'
  BY Stable, OpenSeqs DEF ProposalInv, Grow
<1>3. \A t \in Seqs, c \in PNum, w \in Value :
         <<t, c, w>> \in proposed' => c \in used'
  BY DEF ProposalInv, Grow
<1>4. QED
  BY <1>1, <1>2, <1>3 DEF ProposalInv, VotedFor

\* A Prepare, on time or late, keeps the invariant of the acceptors and
\* leaves a promise.
LEMMA PrepareStep ==
  ASSUME TypeInv, TypeInv', ProposalInv, AcceptorInv,
         NEW p \in Peers, NEW s \in Seqs, NEW b \in PNum,
         HandlePrepare(p, s, b), proposed' = proposed, used' = used
  PROVE  /\ Grow /\ ProposalInv' /\ AcceptorInv'
         /\ inst'[p][s].state # "Absent"
         /\ PrepareOK(inst[p][s], b) => mp'[p][s] >= b
<1>i. PICK i \in Instance : i = inst[p][s]
  BY DEF TypeInv, TypeOK
<1>j. PICK j : j = Prepare(i, b)
  OBVIOUS
<1>0. /\ TypeOK /\ TypeOK' /\ b \in Nat /\ b # 0
      /\ inst \in [Peers -> [Seqs -> Instance]]
      /\ mp \in [Peers -> [Seqs -> Nat]]
      /\ i.n_a \in Nat /\ i.n_p \in Nat /\ mp[p][s] \in Nat
  BY PNumAssumption DEF TypeInv, TypeOK, Instance
<1>1. /\ inst' = [inst EXCEPT ![p][s] = j]
      /\ mp' = [mp EXCEPT ![p][s] = IF PrepareOK(i, b) /\ b > mp[p][s]
                                      THEN b ELSE mp[p][s]]
      /\ votes' = votes /\ dones' = dones
  BY <1>i, <1>j DEF HandlePrepare
<1>2. s \in Open => InstanceInv(i, p, s)
  BY <1>i DEF AcceptorInv
<1>3. /\ j \in Instance /\ j.n_a = i.n_a /\ j.v_a = i.v_a
      /\ j.n_p = IF PrepareOK(i, b) THEN b ELSE i.n_p
      /\ j.state # "Absent"
      /\ j.state = "Decided" => i.state = "Decided"
  BY <1>0, <1>j DEF Prepare, PrepareOK, Touched, Instance
<1>4. /\ inst'[p][s] = j
      /\ mp'[p][s] = IF PrepareOK(i, b) /\ b > mp[p][s] THEN b ELSE mp[p][s]
      /\ \A q \in Peers, t \in Seqs : q # p \/ t # s =>
            inst'[q][t] = inst[q][t] /\ mp'[q][t] = mp[q][t]
  BY <1>0, <1>1
<1>5. Grow /\ Open' = Open
  <2>1. \A q \in Peers, t \in Seqs : mp[q][t] <= mp'[q][t]
    BY <1>0, <1>4
  <2>2. \A q \in Peers, t \in Open :
           inst[q][t].state # "Absent" => inst'[q][t].state # "Absent"
    BY <1>i, <1>3, <1>4, OpenSeqs
  <2>3. Open' = Open
    BY <1>1 DEF Open
  <2>4. QED
    BY <1>1, <2>1, <2>2, <2>3 DEF Grow
<1>6. ProposalInv'
  BY <1>0, <1>1, <1>5, ProposalStable
<1>7. ASSUME s \in Open PROVE InstanceInv(j, p, s)'
  <2>1. /\ j.n_a <= j.n_p /\ j.n_p <= mp'[p][s]
        /\ j.state = "Absent" => mp'[p][s] = 0
    BY <1>0, <1>2, <1>3, <1>4, <1>7 DEF InstanceInv, PrepareOK
  <2>2. j.n_a # 0 => <<s, j.n_a, j.v_a>> \in proposed'
    BY <1>2, <1>3, <1>7 DEF InstanceInv
  <2>3. ASSUME j.n_p < mp'[p][s]
        PROVE  \E v \in Value : Backed(s, j.n_p, v)'
    <3>1. i.n_p < mp[p][s] /\ i.n_p <= j.n_p
      BY <1>0, <1>2, <1>3, <1>4, <1>7, <2>3 DEF InstanceInv, PrepareOK
    <3>2. PICK v \in Value : Backed(s, i.n_p, v)
      BY <1>2, <1>7, <3>1 DEF InstanceInv
    <3>3. Backed(s, j.n_p, v)
      BY <1>0, <1>3, <3>1, <3>2, BackedLater
    <3>4. QED
      BY <1>0, <1>5, <3>3, Stable
  <2>4. \A c \in PNum : DidNotVote(p, s, c) => DidNotVote(p, s, c)'
    BY <1>1 DEF DidNotVote, VotedFor
  <2>5. \/ \A c \in PNum : c > j.n_a => DidNotVote(p, s, c)'
        \/ Backed(s, j.n_a, j.v_a)'
    BY <1>0, <1>2, <1>3, <1>5, <1>7, <2>4, Stable DEF InstanceInv
  <2>6. j.state = "Decided" => Backed(s, j.n_a, j.v_a)'
    BY <1>0, <1>2, <1>3, <1>5, <1>7, Stable DEF InstanceInv
  <2>7. QED
    BY <2>1, <2>2, <2>3, <2>5, <2>6 DEF InstanceInv
<1>8. AcceptorInv'
  BY <1>0, <1>1, <1>4, <1>5, <1>7, AcceptorUpdate, OpenSeqs
<1>9. QED
  BY <1>i, <1>0, <1>3, <1>4, <1>5, <1>6, <1>8

\* An Accept does, and leaves a vote that counts or an instance that is
\* backed.
LEMMA AcceptStep ==
  ASSUME TypeInv, TypeInv', ProposalInv, AcceptorInv,
         NEW p \in Peers, NEW s \in Seqs, NEW b \in PNum, NEW v \in Value,
         <<s, b, v>> \in proposed,
         HandleAccept(p, s, b, v), proposed' = proposed, used' = used
  PROVE  /\ Grow /\ ProposalInv' /\ AcceptorInv'
         /\ s \in Open /\ AcceptOK(inst[p][s], b) =>
               VotedFor(p, s, b, v)' \/ Backed(s, b, v)'
<1>i. PICK i \in Instance : i = inst[p][s]
  BY DEF TypeInv, TypeOK
<1>j. PICK j : j = Accept(i, b, v)
  OBVIOUS
<1>0. /\ TypeOK /\ TypeOK' /\ b \in Nat /\ b # 0
      /\ inst \in [Peers -> [Seqs -> Instance]]
      /\ mp \in [Peers -> [Seqs -> Nat]]
      /\ i.n_a \in Nat /\ i.n_p \in Nat /\ mp[p][s] \in Nat
  BY PNumAssumption DEF TypeInv, TypeOK, Instance
<1>1. s \in Open => InstanceInv(i, p, s)
  BY <1>i DEF AcceptorInv
<1>2. inst' = [inst EXCEPT ![p][s] = j] /\ dones' = dones
  BY <1>i, <1>j DEF HandleAccept
<1>3. /\ inst'[p][s] = j /\ Open' = Open
      /\ \A q \in Peers, t \in Seqs : q # p \/ t # s => inst'[q][t] = inst[q][t]
  BY <1>0, <1>2 DEF Open
<1>4. CASE ~AcceptOK(i, b)
  <2>1. j = i /\ UNCHANGED <<votes, mp>>
    BY <1>i, <1>j, <1>4 DEF Accept, HandleAccept
  <2>2. \A q \in Peers, t \in Seqs : inst'[q][t] = inst[q][t]
    BY <1>i, <1>3, <2>1
  <2>3. Grow
    BY <1>0, <1>3, <2>1, <2>2, OpenSeqs DEF Grow
  <2>4. ProposalInv'
    BY <1>0, <2>1, <2>3, ProposalStable
  <2>5. AcceptorInv'
    BY <1>0, <2>1, <2>2, <2>3, AcceptorStable, OpenSeqs
  <2>6. QED
    BY <1>i, <1>4, <2>3, <2>4, <2>5
<1>5. ASSUME AcceptOK(i, b)
      PROVE  /\ j.state # "Absent" /\ j.n_a = b /\ j.n_p = b /\ j.v_a = v
             /\ j.state = "Decided" => i.state = "Decided"
             /\ \A q \in Peers, t \in Open :
                   inst[q][t].state # "Absent" => inst'[q][t].state # "Absent"
  <2>1. /\ j.state # "Absent" /\ j.n_a = b /\ j.n_p = b /\ j.v_a = v
        /\ j.state = "Decided" => i.state = "Decided"
    BY <1>0, <1>j, <1>5 DEF Accept, Touched, Instance
  <2>2. QED
    BY <1>i, <1>3, <2>1, OpenSeqs
<1>6. ASSUME AcceptOK(i, b), s \in Open
      PROVE  i.n_p <= b /\ (i.state = "Decided" => Backed(s, b, v))
  <2>1. i.n_p <= b
    BY <1>0, <1>1, <1>6 DEF AcceptOK, InstanceInv
  <2>2. ASSUME i.state = "Decided" PROVE Backed(s, b, v)
    <3>1. Backed(s, i.n_a, i.v_a) /\ i.n_a <= b
      BY <1>0, <1>1, <1>6, <2>1, <2>2 DEF InstanceInv
    <3>2. i.v_a = v
      BY <1>0, <1>6, <3>1, BackedProposal
    <3>3. QED
      BY <1>0, <3>1, <3>2, BackedLater
  <2>3. QED
    BY <2>1, <2>2
<1>7. CASE AcceptOK(i, b) /\ b >= mp[p][s]
  <2>1. votes' = votes \cup {<<p, s, b, v>>} /\ mp' = [mp EXCEPT ![p][s] = b]
    BY <1>i, <1>7 DEF HandleAccept
  <2>2. /\ mp'[p][s] = b
        /\ \A q \in Peers, t \in Seqs : q # p \/ t # s => mp'[q][t] = mp[q][t]
    BY <1>0, <2>1
  <2>3. Grow
    <3>1. \A q \in Peers, t \in Seqs : mp[q][t] <= mp'[q][t]
      BY <1>0, <1>7, <2>2
    <3>2. \A q \in Peers, t \in Seqs, c \in PNum, w \in Value :
             <<q, t, c, w>> \in votes' => <<q, t, c, w>> \in votes \/ c >= mp[q][t]
      BY <1>7, <2>1
    <3>3. QED
      BY <1>3, <1>5, <1>7, <2>1, <3>1, <3>2 DEF Grow
  <2>4. ProposalInv'
    <3>1. /\ \A t \in Seqs, c \in PNum, w \in Value :
                <<t, c, w>> \in proposed' => c \in used'
          /\ \A t \in Open', c \in PNum, w \in Value :
                <<t, c, w>> \in proposed' => SafeAt(t, c, w)'
          /\ \A t \in Seqs, c \in PNum, w, x \in Value :
                <<t, c, w>> \in proposed' /\ <<t, c, x>> \in proposed' => w = x
      BY <1>0, <1>3, <2>3, Stable, OpenSeqs DEF ProposalInv
    <3>2. ASSUME NEW a \in Peers, NEW t \in Seqs, NEW c \in PNum, NEW w \in Value,
                 <<a, t, c, w>> \in votes'
          PROVE  <<t, c, w>> \in proposed' /\ c <= mp'[a][t]
      <4>1. CASE <<a, t, c, w>> \in votes
        <5>1. <<t, c, w>> \in proposed /\ c <= mp[a][t]
          BY <4>1 DEF ProposalInv, VotedFor
        <5>2. mp[a][t] \in Nat /\ mp'[a][t] \in Nat /\ c \in Nat
              /\ mp[a][t] <= mp'[a][t]
          BY <1>0, <2>3, PNumAssumption DEF TypeOK, Grow
        <5>3. QED
          BY <5>1, <5>2
      <4>2. CASE <<a, t, c, w>> \notin votes
        <5>1. a = p /\ t = s /\ c = b /\ w = v
          BY <2>1, <3>2, <4>2
        <5>2. QED
          BY <1>0, <2>2, <5>1
      <4>3. QED
        BY <4>1, <4>2
    <3>3. QED
      BY <3>1, <3>2 DEF ProposalInv, VotedFor
  <2>5. ASSUME s \in Open PROVE InstanceInv(j, p, s)'
    <3>1. \A c \in PNum : c > j.n_a => DidNotVote(p, s, c)'
      <4>1. SUFFICES ASSUME NEW c \in PNum, c > b, NEW w \in Value,
                            <<p, s, c, w>> \in votes'
                     PROVE  FALSE
        BY <1>5, <1>7 DEF DidNotVote, VotedFor
      <4>2. <<p, s, c, w>> \in votes
        BY <1>0, <2>1, <4>1, PNumAssumption
      <4>3. c <= mp[p][s]
        BY <4>2 DEF ProposalInv, VotedFor
      <4>4. QED
        BY <1>0, <1>7, <4>1, <4>3, PNumAssumption
    <3>2. j.state = "Decided" => Backed(s, j.n_a, j.v_a)'
      BY <1>0, <1>5, <1>6, <1>7, <2>3, <2>5, Stable
    <3>3. <<s, j.n_a, j.v_a>> \in proposed'
      BY <1>5, <1>7
    <3>4. j.n_a <= j.n_p /\ j.n_p <= mp'[p][s] /\ ~(j.n_p < mp'[p][s])
      BY <1>0, <1>5, <1>7, <2>2
    <3>5. j.state # "Absent"
      BY <1>5, <1>7
    <3>6. QED
      BY <3>1, <3>2, <3>3, <3>4, <3>5 DEF InstanceInv
  <2>6. \A q \in Peers, t \in Seqs, c \in PNum, w \in Value :
           (q # p \/ t # s) /\ <<q, t, c, w>> \in votes' => <<q, t, c, w>> \in votes
    BY <2>1
  <2>7. AcceptorInv'
    BY <1>0, <1>3, <2>2, <2>3, <2>5, <2>6, AcceptorUpdate, OpenSeqs
  <2>8. VotedFor(p, s, b, v)'
    BY <2>1 DEF VotedFor
  <2>9. QED
    BY <2>3, <2>4, <2>7, <2>8
<1>8. CASE AcceptOK(i, b) /\ ~(b >= mp[p][s])
  <2>1. UNCHANGED <<votes, mp>>
    BY <1>i, <1>8 DEF HandleAccept
  <2>2. Grow
    BY <1>0, <1>3, <1>5, <1>8, <2>1 DEF Grow
  <2>3. ProposalInv'
    BY <1>0, <2>1, <2>2, ProposalStable
  <2>4. ASSUME s \in Open PROVE Backed(s, b, v)
    <3>1. PICK w \in Value : Backed(s, i.n_p, w)
      BY <1>0, <1>1, <1>6, <1>8, <2>4 DEF InstanceInv
    <3>2. w = v
      BY <1>0, <1>6, <1>8, <2>4, <3>1, BackedProposal
    <3>3. QED
      BY <1>0, <1>6, <1>8, <2>4, <3>1, <3>2, BackedLater
  <2>5. s \in Open => Backed(s, b, v)'
    BY <1>0, <2>2, <2>4, Stable
  <2>6. ASSUME s \in Open PROVE InstanceInv(j, p, s)'
    <3>1. <<s, j.n_a, j.v_a>> \in proposed' /\ j.state # "Absent"
      BY <1>5, <1>8
    <3>2. j.n_a <= j.n_p /\ j.n_p <= mp'[p][s]
      BY <1>0, <1>5, <1>8, <2>1
    <3>3. Backed(s, j.n_a, j.v_a)' /\ \E w \in Value : Backed(s, j.n_p, w)'
      BY <1>5, <1>8, <2>5, <2>6
    <3>4. QED
      BY <3>1, <3>2, <3>3 DEF InstanceInv
  <2>7. AcceptorInv'
    BY <1>0, <1>3, <2>1, <2>2, <2>6, AcceptorUpdate, OpenSeqs
  <2>8. QED
    BY <2>2, <2>3, <2>5, <2>7
<1>9. QED
  BY <1>4, <1>7, <1>8

\* A Decide does, as it lowers n_p and n_a only to a round in which its
\* value was chosen.
LEMMA DecideStep ==
  ASSUME TypeInv, TypeInv', ProposalInv, AcceptorInv,
         NEW p \in Peers, NEW s \in Seqs, NEW b \in PNum, NEW v \in Value,
         <<s, b, v>> \in proposed, s \in Open => Backed(s, b, v),
         inst' = [inst EXCEPT ![p][s] = Decide(inst[p][s], b, v)],
         mp' = [mp EXCEPT ![p][s] = IF b > @ THEN b ELSE @],
         votes' = votes, proposed' = proposed, used' = used, Open' \subseteq Open
  PROVE  Grow /\ ProposalInv' /\ AcceptorInv'
<1>j. PICK j : j = Decide(inst[p][s], b, v)
  OBVIOUS
<1>0. /\ TypeOK /\ TypeOK' /\ b \in Nat /\ b # 0
      /\ inst \in [Peers -> [Seqs -> Instance]]
      /\ mp \in [Peers -> [Seqs -> Nat]] /\ mp[p][s] \in Nat
  BY PNumAssumption DEF TypeInv, TypeOK
<1>1. j.state = "Decided" /\ j.n_p = b /\ j.n_a = b /\ j.v_a = v
  BY <1>j DEF Decide
<1>2. /\ inst'[p][s] = j
      /\ mp'[p][s] = IF b > mp[p][s] THEN b ELSE mp[p][s]
      /\ \A q \in Peers, t \in Seqs : q # p \/ t # s =>
            inst'[q][t] = inst[q][t] /\ mp'[q][t] = mp[q][t]
  BY <1>0, <1>j
<1>3. Grow
  <2>1. \A q \in Peers, t \in Seqs : mp[q][t] <= mp'[q][t]
    BY <1>0, <1>2
  <2>2. \A q \in Peers, t \in Open :
           inst[q][t].state # "Absent" => inst'[q][t].state # "Absent"
    BY <1>1, <1>2, OpenSeqs
  <2>3. QED
    BY <2>1, <2>2 DEF Grow
<1>4. ProposalInv'
  BY <1>0, <1>3, ProposalStable
<1>5. s \in Open => Backed(s, b, v)'
  BY <1>0, <1>3, Stable
<1>6. ASSUME s \in Open PROVE InstanceInv(j, p, s)'
  BY <1>0, <1>1, <1>2, <1>5, <1>6 DEF InstanceInv
<1>7. AcceptorInv'
  BY <1>0, <1>2, <1>3, <1>6, AcceptorUpdate, OpenSeqs
<1>8. QED
  BY <1>3, <1>4, <1>7

----------------------------------------------------------------------------
(* The proposers. *)

Active == {"prepare", "accept", "decide"}

\* A round under way keeps its invariant when another goroutine, or a late
\* request, takes a step.
LEMMA PrepareInvStable ==
  ASSUME TypeOK, TypeOK', Grow, NEW r \in Proposer, r.seq \in Seqs, r.seq \in Open,
         r.pnum \in PNum, PrepareInv(r)
  PROVE  PrepareInv(r)'
<1>0. r.pnum \in Nat /\ r.me \in Peers /\ r.oks \subseteq Peers
  BY PNumAssumption DEF Proposer
<1>1. \A a \in r.oks : mp'[a][r.seq] >= r.pnum
  <2>1. \A a \in r.oks : mp[a][r.seq] \in Nat /\ mp'[a][r.seq] \in Nat
    BY <1>0 DEF TypeOK
  <2>2. \A a \in r.oks : mp[a][r.seq] >= r.pnum /\ mp[a][r.seq] <= mp'[a][r.seq]
    BY <1>0 DEF PrepareInv, Grow
  <2>3. QED
    BY <1>0, <2>1, <2>2
<1>2. r.rp < r.pnum /\ (r.rp # 0 => <<r.seq, r.rp, r.rv>> \in proposed')
  BY DEF PrepareInv, Grow
<1>3. \/ \A a \in r.oks, c \in PNum :
            r.rp < c /\ c < r.pnum => DidNotVote(a, r.seq, c)'
      \/ Backed(r.seq, r.rp, r.rv)'
  <2>1. CASE Backed(r.seq, r.rp, r.rv)
    BY <2>1, Stable
  <2>2. CASE \A a \in r.oks, c \in PNum :
                r.rp < c /\ c < r.pnum => DidNotVote(a, r.seq, c)
    <3>1. SUFFICES ASSUME NEW a \in r.oks, NEW c \in PNum, r.rp < c, c < r.pnum
                   PROVE  DidNotVote(a, r.seq, c)'
      OBVIOUS
    <3>2. a \in Peers /\ mp[a][r.seq] \in Nat /\ mp[a][r.seq] >= r.pnum
      BY <1>0 DEF PrepareInv, TypeOK
    <3>3. mp[a][r.seq] > c
      BY <1>0, <3>1, <3>2, PNumAssumption
    <3>4. QED
      BY <2>2, <3>1, <3>2, <3>3, Stable
  <2>3. QED
    BY <2>1, <2>2 DEF PrepareInv
<1>4. r.i > r.me => inst'[r.me][r.seq].state # "Absent"
  BY <1>0 DEF PrepareInv, Grow
<1>5. QED
  BY <1>1, <1>2, <1>3, <1>4 DEF PrepareInv

\* The accepts a goroutine has counted stay valid.
LEMMA AcceptInvStable ==
  ASSUME TypeOK, TypeOK', Grow, NEW r \in Proposer, r.seq \in Seqs, r.seq \in Open,
         AcceptInv(r)
  PROVE  AcceptInv(r)'
<1>1. inst'[r.me][r.seq].state # "Absent"
  BY DEF AcceptInv, Grow, Proposer
<1>2. r.pc = "accept" =>
        \A a \in r.oks : \/ VotedFor(a, r.seq, r.pnum, r.rv)'
                         \/ Backed(r.seq, r.pnum, r.rv)'
  BY Stable DEF AcceptInv, VotedFor, Grow
<1>3. r.pc = "decide" => Backed(r.seq, r.pnum, r.rv)'
  BY Stable DEF AcceptInv
<1>4. QED
  BY <1>1, <1>2, <1>3 DEF AcceptInv

\* A goroutine's round stays valid while others act.
LEMMA RoundStable ==
  ASSUME TypeOK, TypeOK', Grow, NEW r \in Proposer, RoundInv(r),
         r.pc \in Active => r.seq \in Seqs /\ r.pnum \in PNum,
         r.pc = "prepare" => \A s \in Seqs, v \in Value :
            <<s, r.pnum, v>> \in proposed' => <<s, r.pnum, v>> \in proposed
  PROVE  RoundInv(r)'
<1>1. CASE r.pc \notin Active
  BY <1>1 DEF RoundInv, Active
<1>2. CASE r.pc = "prepare"
  <2>1. r.pnum \in used' /\ \A s \in Seqs, v \in Value : <<s, r.pnum, v>> \notin proposed'
    BY <1>2 DEF RoundInv, Grow
  <2>2. r.seq \in Open' => PrepareInv(r)'
    BY <1>2, PrepareInvStable DEF RoundInv, Grow, Active
  <2>3. QED
    BY <1>2, <2>1, <2>2 DEF RoundInv
<1>3. CASE r.pc \in {"accept", "decide"}
  <2>1. r.pnum \in used' /\ <<r.seq, r.pnum, r.rv>> \in proposed'
    BY <1>3 DEF RoundInv, Grow
  <2>2. r.seq \in Open' => AcceptInv(r)'
    BY <1>3, AcceptInvStable DEF RoundInv, Grow, Active
  <2>3. QED
    BY <1>3, <2>1, <2>2 DEF RoundInv
<1>4. QED
  BY <1>1, <1>2, <1>3 DEF Active

\* The step of one goroutine: it goes on with its number or draws a new one.
LEMMA ProposerUpdate ==
  ASSUME TypeInv, TypeInv', Grow, ProposerInv, NEW g \in Goroutine, NEW n \in Proposer,
         prop' = [prop EXCEPT ![g] = n],
         RoundInv(n)',
         n.pc \in Active =>
            \/ prop[g].pc \in Active /\ n.pnum = prop[g].pnum
            \/ n.pnum \notin used,
         \A s \in Seqs, b \in PNum, v \in Value :
            <<s, b, v>> \in proposed' =>
               \/ <<s, b, v>> \in proposed
               \/ prop[g].pc \in Active /\ b = prop[g].pnum
  PROVE  ProposerInv'
<1>0. /\ TypeOK /\ TypeOK' /\ prop \in [Goroutine -> Proposer]
      /\ prop'[g] = n /\ \A h \in Goroutine : h # g => prop'[h] = prop[h]
  BY DEF TypeInv, TypeOK
<1>1. ASSUME NEW h \in Goroutine PROVE RoundInv(prop[h])'
  <2>1. CASE h = g
    BY <1>0, <2>1
  <2>2. CASE h # g
    <3>1. PICK r \in Proposer : r = prop[h]
      BY <1>0
    <3>2. RoundInv(r) /\ (r.pc \in Active => r.seq \in Seqs /\ r.pnum \in PNum)
      BY <3>1 DEF ProposerInv, TypeInv, WellFormed, Active
    <3>3. r.pc \in Active /\ prop[g].pc \in Active => r.pnum # prop[g].pnum
      BY <2>2, <3>1 DEF ProposerInv, Active
    <3>4. r.pc = "prepare" => \A s \in Seqs, v \in Value :
             <<s, r.pnum, v>> \in proposed' => <<s, r.pnum, v>> \in proposed
      BY <3>2, <3>3 DEF Active
    <3>5. RoundInv(r)'
      BY <1>0, <3>2, <3>4, RoundStable
    <3>6. QED
      BY <1>0, <2>2, <3>1, <3>5
  <2>3. QED
    BY <2>1, <2>2
<1>2. ASSUME NEW h \in Goroutine, NEW k \in Goroutine,
             prop'[h].pc \in Active, prop'[k].pc \in Active,
             prop'[h].pnum = prop'[k].pnum
      PROVE  h = k
  <2>1. \A x \in Goroutine : prop[x].pc \in Active => prop[x].pnum \in used
    BY DEF ProposerInv, RoundInv, Active
  <2>2. \A x, y \in Goroutine :
          prop[x].pc \in Active /\ prop[y].pc \in Active /\ prop[x].pnum = prop[y].pnum
             => x = y
    BY DEF ProposerInv, Active
  <2>3. CASE h # g /\ k # g
    BY <1>0, <1>2, <2>2, <2>3
  <2>4. CASE h = g /\ k # g
    BY <1>0, <1>2, <2>1, <2>2, <2>4
  <2>5. CASE h # g /\ k = g
    BY <1>0, <1>2, <2>1, <2>2, <2>5
  <2>6. QED
    BY <2>3, <2>4, <2>5
<1>3. QED
  BY <1>1, <1>2 DEF ProposerInv, Active

\* No goroutine moves.
LEMMA ProposerStable ==
  ASSUME TypeInv, TypeInv', Grow, ProposerInv, prop' = prop, proposed' = proposed
  PROVE  ProposerInv'
<1>1. ASSUME NEW h \in Goroutine PROVE RoundInv(prop[h])'
  <2>1. PICK r \in Proposer : r = prop[h]
    BY DEF TypeInv, TypeOK
  <2>2. RoundInv(r) /\ (r.pc \in Active => r.seq \in Seqs /\ r.pnum \in PNum)
    BY <2>1 DEF ProposerInv, TypeInv, WellFormed, Active
  <2>3. RoundInv(r)'
    BY <2>2, RoundStable DEF TypeInv
  <2>4. QED
    BY <2>1, <2>3
<1>2. QED
  BY <1>1 DEF ProposerInv

\* Requests leave the network, new ones carry only what is proposed.
NetGrow ==
    \A m \in net' :
        \/ m \in net
        \/ m.type = "Prepare"
        \/ m.type = "Accept" /\ <<m.seq, m.pnum, m.val>> \in proposed

\* The requests on their way stay valid.
LEMMA NetStable ==
  ASSUME TypeOK, TypeOK', Grow, NetInv,
         NetGrow
  PROVE  NetInv'
<1>1. ASSUME NEW m \in net'
      PROVE  /\ m.type \in {"Accept", "Decide"} =>
                   <<m.seq, m.pnum, m.val>> \in proposed'
             /\ m.type = "Decide" /\ m.seq \in Open' => Backed(m.seq, m.pnum, m.val)'
  <2>1. CASE m \in net
    BY <2>1, Stable DEF NetInv, Grow
  <2>2. CASE m \notin net
    BY <2>2 DEF NetGrow, Grow
  <2>3. QED
    BY <2>1, <2>2
<1>2. QED
  BY <1>1 DEF NetInv

\* Min() forgets nothing that is open: what it treats as done, every
\* application has passed to Done().
LEMMA NoForget ==
  ASSUME TypeOK, DonesInv, NEW p \in Peers, NEW s \in Open
  PROVE  ~BelowMin(p, s) /\ Forget(p)[s] = inst[p][s]
<1>0. s \in Seqs /\ s \in Nat
  BY OpenSeqs, SeqsAssumption
<1>1. PICK q \in Peers : dones[q][q] < s
  BY DEF Open
<1>2. dones[p][q] \in Int /\ dones[q][q] \in Int /\ dones[p][q] <= dones[q][q]
  BY DEF TypeOK, DonesInv, DonesNeverAhead
<1>3. ~BelowMin(p, s)
  BY <1>0, <1>1, <1>2 DEF BelowMin
<1>4. QED
  BY <1>0, <1>3 DEF Forget

\* Why a proposal is safe: the majority that answered the Prepare calls either
\* has no later vote than the one adopted, or something was chosen already and
\* the adopted value is that.
LEMMA SafeProposal ==
  ASSUME TypeInv, ProposalInv, NEW r \in Proposer, PrepareInv(r),
         r.seq \in Seqs, r.seq \in Open, r.pnum \in PNum, r.rv \in Value,
         Cardinality(r.oks) >= Majority
  PROVE  SafeAt(r.seq, r.pnum, r.rv)
<1>0. /\ TypeOK /\ r.oks \in Quorum /\ r.oks \subseteq Peers
      /\ r.pnum \in Nat /\ r.rp \in Nat
  BY PNumAssumption DEF TypeInv, Quorum, Proposer
<1>1. SUFFICES ASSUME NEW c \in PNum, c < r.pnum
               PROVE  \E Q \in Quorum : \A a \in Q :
                         \/ VotedFor(a, r.seq, c, r.rv)
                         \/ DidNotVote(a, r.seq, c) /\ mp[a][r.seq] > c
  BY DEF SafeAt
<1>2. c \in Nat /\ c # 0
  BY PNumAssumption
<1>3. \A a \in r.oks : mp[a][r.seq] > c
  <2>1. \A a \in r.oks : mp[a][r.seq] >= r.pnum /\ mp[a][r.seq] \in Nat
    BY <1>0 DEF PrepareInv, TypeOK
  <2>2. QED
    BY <1>0, <1>1, <1>2, <2>1
<1>4. ASSUME NEW d \in PNum, d > c, <<r.seq, d, r.rv>> \in proposed
      PROVE  \E Q \in Quorum : \A a \in Q :
                \/ VotedFor(a, r.seq, c, r.rv)
                \/ DidNotVote(a, r.seq, c) /\ mp[a][r.seq] > c
  <2>1. SafeAt(r.seq, d, r.rv) /\ c < d
    BY <1>2, <1>4, PNumAssumption DEF ProposalInv
  <2>2. QED
    BY <2>1 DEF SafeAt
<1>5. ASSUME \A a \in r.oks, w \in Value : VotedFor(a, r.seq, c, w) => w = r.rv
      PROVE  \E Q \in Quorum : \A a \in Q :
                \/ VotedFor(a, r.seq, c, r.rv)
                \/ DidNotVote(a, r.seq, c) /\ mp[a][r.seq] > c
  BY <1>0, <1>3, <1>5 DEF DidNotVote
<1>6. CASE Backed(r.seq, r.rp, r.rv)
  <2>1. PICK d \in PNum : d <= r.rp /\ ChosenAt(r.seq, d, r.rv)
    BY <1>6 DEF Backed
  <2>2. CASE d > c
    BY <1>0, <1>4, <2>1, <2>2, ChosenProposed
  <2>3. CASE d <= c
    <3>1. ASSUME NEW a \in r.oks, NEW w \in Value, VotedFor(a, r.seq, c, w)
          PROVE  w = r.rv
      <4>1. <<r.seq, c, w>> \in proposed
        BY <1>0, <3>1 DEF ProposalInv
      <4>2. QED
        BY <1>0, <2>1, <2>3, <4>1, ChosenValue
    <3>2. QED
      BY <1>5, <3>1
  <2>4. QED
    BY <1>2, <2>2, <2>3, PNumAssumption
<1>7. CASE \A a \in r.oks, d \in PNum :
              r.rp < d /\ d < r.pnum => DidNotVote(a, r.seq, d)
  <2>1. CASE r.rp < c
    BY <1>1, <1>5, <1>7, <2>1 DEF DidNotVote
  <2>2. CASE ~(r.rp < c)
    <3>1. r.rp # 0 /\ <<r.seq, r.rp, r.rv>> \in proposed
      BY <1>0, <1>2, <2>2 DEF PrepareInv
    <3>2. r.rp \in PNum
      BY <3>1 DEF TypeInv, TypeOK
    <3>3. CASE r.rp > c
      BY <1>4, <3>1, <3>2, <3>3
    <3>4. CASE r.rp = c
      <4>1. ASSUME NEW a \in r.oks, NEW w \in Value, VotedFor(a, r.seq, c, w)
            PROVE  w = r.rv
        <5>1. <<r.seq, c, w>> \in proposed
          BY <1>0, <4>1 DEF ProposalInv
        <5>2. QED
          BY <3>1, <3>4, <5>1 DEF ProposalInv
      <4>2. QED
        BY <1>5, <4>1
    <3>5. QED
      BY <1>0, <1>2, <2>2, <3>3, <3>4
  <2>3. QED
    BY <2>1, <2>2
<1>8. QED
  BY <1>6, <1>7 DEF PrepareInv

\* An answered Prepare: what the proposer adopts keeps the round's invariant.
LEMMA PrepareRound ==
  ASSUME TypeInv, TypeInv', ProposalInv, AcceptorInv, Grow,
         NEW r \in Proposer, PrepareInv(r),
         r.seq \in Seqs, r.seq \in Open, r.pnum \in PNum, r.rv \in Value,
         NEW q \in Peers, q = r.i, votes' = votes, proposed' = proposed,
         inst'[q][r.seq].state # "Absent",
         PrepareOK(inst[q][r.seq], r.pnum) => mp'[q][r.seq] >= r.pnum,
         NEW n, n = AfterPrepare(r, q)
  PROVE  PrepareInv(n)'
<1>i. PICK i \in Instance : i = inst[q][r.seq]
  BY DEF TypeInv, TypeOK
<1>0. /\ TypeOK /\ TypeOK' /\ r.pnum \in Nat /\ r.rp \in Nat /\ r.pnum # 0
      /\ i.n_a \in Nat /\ i.n_p \in Nat /\ mp[q][r.seq] \in Nat
      /\ r.me \in Peers /\ r.me \in Nat /\ r.i \in Nat
      /\ i.v_a \in Value \cup {NoValue}
  <2>1. r.me \in Peers
    BY DEF Proposer
  <2>2. r.me \in Nat /\ r.i \in Nat
    BY <2>1, NAssumption DEF Peers
  <2>3. QED
    BY <2>1, <2>2, PNumAssumption DEF TypeInv, TypeOK, Instance, Proposer
<1>1. PrepareInv(r)'
  BY <1>0, PrepareInvStable
<1>2. InstanceInv(i, q, r.seq)
  BY <1>i DEF AcceptorInv
<1>3. /\ n \in Proposer /\ n.pc = r.pc /\ n.me = r.me /\ n.seq = r.seq
      /\ n.pnum = r.pnum /\ n.i = r.i + 1
      /\ n.oks = (IF PrepareOK(i, r.pnum) THEN r.oks \cup {q} ELSE r.oks)
      /\ n.rp = (IF PrepareOK(i, r.pnum) /\ i.n_a > r.rp THEN i.n_a ELSE r.rp)
      /\ n.rv = (IF PrepareOK(i, r.pnum) /\ i.n_a > r.rp THEN i.v_a ELSE r.rv)
  <2>1. CASE ~PrepareOK(i, r.pnum)
    BY <1>i, <2>1, Counter DEF AfterPrepare, Proposer
  <2>2. CASE PrepareOK(i, r.pnum) /\ ~(i.n_a > r.rp)
    BY <1>i, <2>2, Counter DEF AfterPrepare, Proposer
  <2>3. CASE PrepareOK(i, r.pnum) /\ i.n_a > r.rp
    BY <1>i, <1>0, <2>3, Counter DEF AfterPrepare, Proposer
  <2>4. QED
    BY <2>1, <2>2, <2>3
<1>4. n.i > n.me => inst'[n.me][n.seq].state # "Absent"
  <2>1. CASE r.i > r.me
    BY <1>1, <1>3, <2>1 DEF PrepareInv
  <2>2. CASE ~(r.i > r.me)
    BY <1>0, <1>3, <2>2
  <2>3. QED
    BY <2>1, <2>2
<1>6. \A a \in n.oks : mp'[a][n.seq] >= n.pnum
  BY <1>i, <1>1, <1>3 DEF PrepareInv
<1>7. \A a, c : DidNotVote(a, r.seq, c) => DidNotVote(a, r.seq, c)'
  BY DEF DidNotVote, VotedFor
<1>8. /\ n.rp < n.pnum
      /\ n.rp # 0 => <<n.seq, n.rp, n.rv>> \in proposed'
      /\ \/ \A a \in n.oks, c \in PNum :
               n.rp < c /\ c < n.pnum => DidNotVote(a, n.seq, c)
         \/ Backed(n.seq, n.rp, n.rv)
  <2>1. CASE ~PrepareOK(i, r.pnum)
    BY <1>3, <2>1 DEF PrepareInv
  <2>2. CASE PrepareOK(i, r.pnum) /\ ~(i.n_a > r.rp)
    <3>1. n.rp = r.rp /\ n.rv = r.rv /\ n.oks = r.oks \cup {q} /\ n.seq = r.seq
      BY <1>3, <2>2
    <3>2. r.rp < r.pnum /\ (r.rp # 0 => <<r.seq, r.rp, r.rv>> \in proposed)
      BY DEF PrepareInv
    <3>3. CASE Backed(r.seq, r.rp, r.rv)
      BY <1>3, <3>1, <3>2, <3>3
    <3>4. CASE Backed(r.seq, i.n_a, i.v_a)
      <4>1. Backed(r.seq, r.rp, i.v_a) /\ r.rp # 0
        BY <1>0, <2>2, <3>4, BackedLater, BackedValue
      <4>2. r.rp \in PNum
        BY <1>0, <3>2, <4>1 DEF TypeOK
      <4>3. i.v_a = r.rv
        BY <1>0, <3>2, <4>1, <4>2, BackedProposal
      <4>4. QED
        BY <1>3, <3>1, <3>2, <4>1, <4>3
    <3>5. CASE /\ \A a \in r.oks, c \in PNum :
                     r.rp < c /\ c < r.pnum => DidNotVote(a, r.seq, c)
               /\ \A c \in PNum : c > i.n_a => DidNotVote(q, r.seq, c)
      <4>1. ASSUME NEW a \in n.oks, NEW c \in PNum, r.rp < c, c < r.pnum
            PROVE  DidNotVote(a, r.seq, c)
        <5>1. c > i.n_a
          BY <1>0, <2>2, <4>1, PNumAssumption
        <5>2. QED
          BY <3>1, <3>5, <4>1, <5>1
      <4>2. QED
        BY <1>3, <3>1, <3>2, <4>1
    <3>6. QED
      BY <1>2, <3>3, <3>4, <3>5 DEF PrepareInv, InstanceInv
  <2>3. CASE PrepareOK(i, r.pnum) /\ i.n_a > r.rp
    <3>1. n.rp = i.n_a /\ n.rv = i.v_a /\ n.oks = r.oks \cup {q} /\ n.seq = r.seq
      BY <1>3, <2>3
    <3>2. i.n_a < r.pnum /\ <<r.seq, i.n_a, i.v_a>> \in proposed
      BY <1>0, <1>2, <2>3 DEF InstanceInv, PrepareOK
    <3>3. CASE Backed(r.seq, i.n_a, i.v_a)
      BY <1>3, <3>1, <3>2, <3>3
    <3>4. CASE Backed(r.seq, r.rp, r.rv)
      <4>1. i.n_a \in PNum /\ i.v_a \in Value
        BY <1>0, <3>2 DEF TypeOK
      <4>2. r.rv = i.v_a
        BY <1>0, <2>3, <3>2, <3>4, <4>1, BackedProposal
      <4>3. Backed(r.seq, i.n_a, i.v_a)
        BY <1>0, <2>3, <3>4, <4>2, BackedLater
      <4>4. QED
        BY <1>3, <3>1, <3>2, <4>3
    <3>5. CASE /\ \A a \in r.oks, c \in PNum :
                     r.rp < c /\ c < r.pnum => DidNotVote(a, r.seq, c)
               /\ \A c \in PNum : c > i.n_a => DidNotVote(q, r.seq, c)
      <4>1. ASSUME NEW a \in n.oks, NEW c \in PNum, i.n_a < c, c < r.pnum
            PROVE  DidNotVote(a, r.seq, c)
        <5>1. r.rp < c /\ c > i.n_a
          BY <1>0, <2>3, <4>1, PNumAssumption
        <5>2. QED
          BY <3>1, <3>5, <4>1, <5>1
      <4>2. QED
        BY <1>3, <3>1, <3>2, <4>1
    <3>6. QED
      BY <1>2, <3>3, <3>4, <3>5 DEF PrepareInv, InstanceInv
  <2>4. QED
    BY <2>1, <2>2, <2>3
<1>9. \/ \A a \in n.oks, c \in PNum :
            n.rp < c /\ c < n.pnum => DidNotVote(a, n.seq, c)'
      \/ Backed(n.seq, n.rp, n.rv)'
  BY <1>0, <1>3, <1>7, <1>8, Stable
<1>10. QED
  BY <1>4, <1>6, <1>8, <1>9 DEF PrepareInv

\* An answered Accept: an OK is a vote, or the value is chosen already.
LEMMA AcceptRound ==
  ASSUME TypeInv, TypeInv', Grow,
         NEW r \in Proposer, r.pc = "accept", AcceptInv(r),
         r.seq \in Seqs, r.seq \in Open,
         NEW q \in Peers, q = r.i,
         AcceptOK(inst[q][r.seq], r.pnum) =>
            VotedFor(q, r.seq, r.pnum, r.rv)' \/ Backed(r.seq, r.pnum, r.rv)',
         NEW n \in Proposer,
         n = [r EXCEPT !.i = @ + 1,
                       !.oks = IF AcceptOK(inst[q][r.seq], r.pnum)
                                 THEN @ \cup {q} ELSE @]
  PROVE  AcceptInv(n)'
<1>1. AcceptInv(r)'
  BY AcceptInvStable DEF TypeInv
<1>2. /\ n.pc = "accept" /\ n.me = r.me /\ n.seq = r.seq
      /\ n.pnum = r.pnum /\ n.rv = r.rv
      /\ n.oks = (IF AcceptOK(inst[q][r.seq], r.pnum) THEN r.oks \cup {q} ELSE r.oks)
  BY DEF Proposer
<1>3. \A a \in n.oks : \/ VotedFor(a, n.seq, n.pnum, n.rv)'
                       \/ Backed(n.seq, n.pnum, n.rv)'
  BY <1>1, <1>2 DEF AcceptInv
<1>4. QED
  BY <1>1, <1>2, <1>3 DEF AcceptInv

----------------------------------------------------------------------------
(* Done() and Min(). *)

\* A step that leaves dones alone and sends true arguments keeps the
\* invariant of Done().
LEMMA DonesKept ==
  ASSUME DonesInv, dones' = dones,
         \A m \in net' : \/ m \in net
                         \/ m.type # "Decide"
                         \/ m.to # m.me /\ m.done <= dones[m.me][m.me]
  PROVE  DonesInv'
  BY DEF DonesInv, DonesNeverAhead

\* So does every other step.
LEMMA DonesStep == TypeInv /\ DonesInv /\ [Next]_vars => DonesInv'
<1> SUFFICES ASSUME TypeInv, DonesInv, [Next]_vars PROVE DonesInv'
  OBVIOUS
<1>0. dones \in [Peers -> [Peers -> Int]]
  BY DEF TypeInv, TypeOK
<1>1. ASSUME NEW g \in Goroutine, CallPrepare(g) PROVE DonesInv'
  BY <1>1, DonesKept DEF CallPrepare, HandlePrepare
<1>2. ASSUME NEW g \in Goroutine, CallAccept(g) PROVE DonesInv'
  BY <1>2, DonesKept DEF CallAccept, HandleAccept
<1>3. ASSUME NEW g \in Goroutine, SendDecide(g) PROVE DonesInv'
  <2>1. PICK r \in Proposer : r = prop[g]
    BY DEF TypeInv, TypeOK
  <2>2. r.me \in Peers /\ dones' = dones
    BY <1>3, <2>1 DEF SendDecide, Proposer
  <2>3. dones[r.me][r.me] <= dones[r.me][r.me]
    BY <1>0, <2>2
  <2>4. \/ net' = net
        \/ net' = net \cup
              {[type |-> "Decide", to |-> q, seq |-> r.seq,
                pnum |-> r.pnum, val |-> r.rv,
                me |-> r.me, done |-> dones[r.me][r.me]] : q \in Peers \ {r.me}}
    BY <1>3, <2>1 DEF SendDecide
  <2>5. QED
    BY <2>2, <2>3, <2>4, DonesKept
<1>4. ASSUME NEW g \in Goroutine, FailPrepare(g) \/ FailAccept(g) PROVE DonesInv'
  BY <1>4, DonesKept DEF FailPrepare, FailAccept
<1>5. ASSUME NEW g \in Goroutine,
             \/ \E p \in Peers, s \in Seqs, v \in Value : Start(g, p, s, v)
             \/ EndPrepare(g) \/ EndAccept(g) \/ LoopMin(g) \/ LoopStatus(g)
      PROVE  DonesInv'
  BY <1>5, DonesKept DEF Start, EndPrepare, EndAccept, LoopMin, LoopStatus
<1>6. ASSUME NEW m \in net, Late(m) PROVE DonesInv'
  <2>1. net' \subseteq net
    BY <1>6 DEF Late
  <2>2. CASE LatePrepare(m)
    BY <2>1, <2>2, DonesKept DEF LatePrepare, HandlePrepare
  <2>3. CASE LateAccept(m)
    BY <2>1, <2>3, DonesKept DEF LateAccept, HandleAccept
  <2>4. CASE LateDecide(m)
    <3>1. /\ m.to \in Peers /\ m.me \in Peers /\ m.to # m.me
          /\ m.done <= dones[m.me][m.me]
      BY <2>4 DEF LateDecide, TypeInv, TypeOK, Message, DonesInv
    <3>2. dones' = [dones EXCEPT ![m.to][m.me] = m.done]
      BY <2>4 DEF LateDecide, HandleDecide
    <3>3. \A p, q \in Peers : dones'[p][q] =
             IF p = m.to /\ q = m.me THEN m.done ELSE dones[p][q]
      BY <1>0, <3>1, <3>2
    <3>4. DonesNeverAhead'
      BY <3>1, <3>3 DEF DonesInv, DonesNeverAhead
    <3>5. \A n \in net' : n.type = "Decide" =>
             n.to # n.me /\ n.done <= dones'[n.me][n.me]
      <4>1. \A n \in net' : n.type = "Decide" => n.me \in Peers
        BY <2>1 DEF TypeInv, TypeOK, Message
      <4>2. \A n \in net' : n.type = "Decide" =>
               n.to # n.me /\ n.done <= dones[n.me][n.me]
        BY <2>1 DEF DonesInv
      <4>3. \A q \in Peers : dones'[q][q] = dones[q][q]
        BY <3>1, <3>3
      <4>4. QED
        BY <4>1, <4>2, <4>3
    <3>6. QED
      BY <3>4, <3>5 DEF DonesInv
  <2>5. QED
    BY <1>6, <2>2, <2>3, <2>4 DEF Late
<1>7. ASSUME NEW p \in Peers, NEW s \in Seqs, Done(p, s) PROVE DonesInv'
  <2>1. /\ s \in Int /\ s > dones[p][p] /\ net' = net
        /\ dones' = [dones EXCEPT ![p][p] = s]
    BY <1>7, SeqsAssumption DEF Done
  <2>2. \A q, t \in Peers :
           dones'[q][t] = IF q = p /\ t = p THEN s ELSE dones[q][t]
    BY <1>0, <2>1
  <2>3. DonesNeverAhead'
    BY <1>0, <2>1, <2>2 DEF DonesInv, DonesNeverAhead
  <2>4. \A m \in net : m.type = "Decide" => m.me \in Peers /\ m.done \in Int
    BY DEF TypeInv, TypeOK, Message
  <2>5. \A m \in net : m.type = "Decide" =>
           m.to # m.me /\ m.done <= dones'[m.me][m.me]
    BY <1>0, <2>1, <2>2, <2>4 DEF DonesInv
  <2>6. QED
    BY <2>1, <2>3, <2>5 DEF DonesInv
<1>8. ASSUME NEW p \in Peers, Min(p) PROVE DonesInv'
  BY <1>8, DonesKept DEF Min
<1>9. CASE UNCHANGED vars
  BY <1>9, DonesKept DEF vars
<1>10. QED
  BY <1>1, <1>2, <1>3, <1>4, <1>5, <1>6, <1>7, <1>8, <1>9
     DEF Next, Propose

\* No peer believes another to have finished with more than it has passed to
\* Done(): Min() is never too high, however late a Decide arrives.
THEOREM DonesNeverAheadHolds == Spec => []DonesNeverAhead
<1>1. Init => DonesInv
  BY DEF Init, DonesInv, DonesNeverAhead
<1>2. DonesInv => DonesNeverAhead
  BY DEF DonesInv
<1>3. QED
  BY <1>1, <1>2, TypeInit, TypeStep, DonesStep, PTL DEF Spec

----------------------------------------------------------------------------
(* The agreement invariant is inductive: one lemma per kind of step. *)

SameOpen == \A q \in Peers, t \in Open : inst'[q][t] = inst[q][t]

\* A step that changes neither the acceptors' open instances nor the proposals.
LEMMA QuietStep ==
  ASSUME TypeInv, TypeInv', AgreeInv, SameOpen,
         UNCHANGED <<votes, mp, proposed>>, used \subseteq used', Open' \subseteq Open,
         NetGrow
  PROVE  Grow /\ ProposalInv' /\ AcceptorInv' /\ NetInv'
<1>1. TypeOK /\ TypeOK' /\ Grow
  BY DEF TypeInv, TypeOK, Grow, SameOpen
<1>2. ProposalInv'
  BY <1>1, ProposalStable DEF AgreeInv
<1>3. AcceptorInv'
  BY <1>1, AcceptorStable DEF AgreeInv, SameOpen
<1>4. NetInv'
  BY <1>1, NetStable DEF AgreeInv
<1>5. QED
  BY <1>1, <1>2, <1>3, <1>4

\* A goroutine moves on, possibly leaving a failed request in the network.
LEMMA LocalStep ==
  ASSUME TypeInv, TypeInv', AgreeInv, SameOpen,
         UNCHANGED <<dones, votes, mp, proposed>>, used \subseteq used', NetGrow,
         NEW g \in Goroutine, NEW n \in Proposer, prop' = [prop EXCEPT ![g] = n],
         RoundInv(n)',
         n.pc \in Active =>
            \/ prop[g].pc \in Active /\ n.pnum = prop[g].pnum
            \/ n.pnum \notin used
  PROVE  AgreeInv'
<1>0. Open' = Open
  BY DEF Open
<1>1. Grow /\ ProposalInv' /\ AcceptorInv' /\ NetInv'
  BY <1>0, QuietStep
<1>2. ProposerInv'
  <2>1. ProposerInv
    BY DEF AgreeInv
  <2>2. \A s \in Seqs, b \in PNum, v \in Value :
           <<s, b, v>> \in proposed' =>
               \/ <<s, b, v>> \in proposed
               \/ prop[g].pc \in Active /\ b = prop[g].pnum
    OBVIOUS
  <2>3. QED
    BY <1>1, <2>1, <2>2, ProposerUpdate
<1>3. DonesInv'
  BY DonesKept DEF AgreeInv, NetGrow
<1>4. QED
  BY <1>1, <1>2, <1>3 DEF AgreeInv

\* A fresh number has no proposals yet, so a round may begin with it.
LEMMA NewRoundStep ==
  ASSUME TypeInv, TypeInv', AgreeInv, SameOpen,
         UNCHANGED <<dones, net, votes, mp, proposed>>,
         NEW g \in Goroutine, NEW r \in Proposer, r.seq \in Seqs,
         NEW b \in Fresh, prop' = [prop EXCEPT ![g] = NewRound(r, b)],
         used' = used \cup {b}
  PROVE  AgreeInv'
<1>0. b \in PNum /\ b \notin used /\ b \in Nat /\ b # 0
  BY PNumAssumption DEF Fresh
<1>1. PICK n : n = NewRound(r, b)
  OBVIOUS
<1>2. /\ n \in Proposer /\ n.pc = "prepare" /\ n.pnum = b /\ n.me = r.me
      /\ n.seq = r.seq /\ n.i = 1 /\ n.oks = {} /\ n.rp = 0
  BY <1>0, <1>1, RoundTypes
<1>3. \A s \in Seqs, v \in Value : <<s, b, v>> \notin proposed
  BY <1>0 DEF AgreeInv, ProposalInv
<1>4. ~(n.i > n.me)
  <2>1. n.me \in Peers
    BY <1>2 DEF Proposer
  <2>2. QED
    BY <1>2, <2>1, NAssumption DEF Peers
<1>5. RoundInv(n)'
  BY <1>0, <1>2, <1>3, <1>4 DEF RoundInv, PrepareInv
<1>6. QED
  BY <1>0, <1>1, <1>2, <1>5, LocalStep DEF NetGrow

\* A goroutine ends, or goes to a place where it holds no proposal number.
LEMMA IdleStep ==
  ASSUME TypeInv, TypeInv', AgreeInv, SameOpen,
         UNCHANGED <<dones, net, used, votes, mp, proposed>>,
         NEW g \in Goroutine, NEW n \in Proposer, prop' = [prop EXCEPT ![g] = n],
         n.pc \in {"done", "min", "status"}
  PROVE  AgreeInv'
<1>1. RoundInv(n)' /\ n.pc \notin Active
  BY DEF RoundInv, Active
<1>2. QED
  BY <1>1, LocalStep DEF NetGrow

\* Running Min() leaves the open instances alone.
LEMMA ForgetOpen ==
  ASSUME TypeInv, AgreeInv, NEW p \in Peers, inst' = [inst EXCEPT ![p] = Forget(p)]
  PROVE  SameOpen
<1>1. ASSUME NEW q \in Peers, NEW t \in Open PROVE inst'[q][t] = inst[q][t]
  <2>1. Forget(p)[t] = inst[p][t]
    BY NoForget DEF AgreeInv, TypeInv
  <2>2. QED
    BY <2>1 DEF TypeInv, TypeOK
<1>2. QED
  BY <1>1 DEF SameOpen

\* Start() keeps the invariant.
LEMMA StartStep ==
  ASSUME TypeInv, TypeInv', AgreeInv, NEW g \in Goroutine, NEW p \in Peers,
         NEW s \in Seqs, NEW v \in Value, Start(g, p, s, v)
  PROVE  AgreeInv'
<1>1. PICK r : r = [Idle EXCEPT !.me = p, !.seq = s, !.v = v]
  OBVIOUS
<1>2. r \in Proposer /\ r.seq \in Seqs
  BY <1>1, Counter DEF Proposer, Idle, NoPNum
<1>3. SameOpen
  BY ForgetOpen DEF Start
<1>4. UNCHANGED <<dones, net, votes, mp, proposed>>
  BY DEF Start, hist
<1>5. CASE BelowMin(p, s)
  <2>1. PICK n : n = [r EXCEPT !.pc = "done"]
    OBVIOUS
  <2>2. n \in Proposer /\ n.pc = "done"
    BY <1>2, <2>1 DEF Proposer
  <2>3. prop' = [prop EXCEPT ![g] = n] /\ used' = used
    BY <1>1, <1>5, <2>1 DEF Start
  <2>4. QED
    BY <1>3, <1>4, <2>2, <2>3, IdleStep
<1>6. CASE ~BelowMin(p, s)
  <2>1. PICK b \in Fresh : /\ prop' = [prop EXCEPT ![g] = NewRound(r, b)]
                           /\ used' = used \cup {b}
    BY <1>1, <1>6 DEF Start
  <2>2. QED
    BY <1>2, <1>3, <1>4, <2>1, NewRoundStep
<1>7. QED
  BY <1>5, <1>6

\* So does the goroutine when it gives up a number below Min().
LEMMA LoopMinStep ==
  ASSUME TypeInv, TypeInv', AgreeInv, NEW g \in Goroutine, LoopMin(g)
  PROVE  AgreeInv'
<1>1. PICK r \in Proposer : r = prop[g]
  BY DEF TypeInv, TypeOK
<1>2. r.pc = "min" /\ r.me \in Peers /\ r.seq \in Seqs
  BY <1>1 DEF LoopMin, TypeInv, WellFormed, Proposer
<1>3. SameOpen
  BY <1>1, <1>2, ForgetOpen DEF LoopMin
<1>4. UNCHANGED <<dones, net, votes, mp, proposed>>
  BY DEF LoopMin, hist
<1>5. CASE ~BelowMin(r.me, r.seq)
  <2>1. PICK n : n = [r EXCEPT !.pc = "status"]
    OBVIOUS
  <2>2. n \in Proposer /\ n.pc = "status"
    BY <2>1 DEF Proposer
  <2>3. prop' = [prop EXCEPT ![g] = n] /\ used' = used
    BY <1>1, <1>5, <2>1 DEF LoopMin, TypeInv, TypeOK
  <2>4. QED
    BY <1>3, <1>4, <2>2, <2>3, IdleStep
<1>6. CASE BelowMin(r.me, r.seq)
  <2>1. PICK b \in Fresh : /\ prop' = [prop EXCEPT ![g] = NewRound(r, b)]
                           /\ used' = used \cup {b}
    BY <1>1, <1>6 DEF LoopMin
  <2>2. QED
    BY <1>2, <1>3, <1>4, <2>1, NewRoundStep
<1>7. QED
  BY <1>5, <1>6

\* So does the look at Status() at the head of its loop.
LEMMA LoopStatusStep ==
  ASSUME TypeInv, TypeInv', AgreeInv, NEW g \in Goroutine, LoopStatus(g)
  PROVE  AgreeInv'
<1>1. PICK r \in Proposer : r = prop[g]
  BY DEF TypeInv, TypeOK
<1>2. r.pc = "status" /\ r.seq \in Seqs
  BY <1>1 DEF LoopStatus, TypeInv, WellFormed
<1>3. SameOpen /\ UNCHANGED <<dones, net, votes, mp, proposed>>
  BY DEF LoopStatus, hist, SameOpen
<1>4. CASE inst[r.me][r.seq].state = "Decided"
  <2>1. PICK n : n = [r EXCEPT !.pc = "done"]
    OBVIOUS
  <2>2. prop' = [prop EXCEPT ![g] = n] /\ used' = used
    BY <1>1, <1>4, <2>1 DEF LoopStatus, TypeInv, TypeOK
  <2>3. n \in Proposer /\ n.pc = "done"
    BY <2>1 DEF Proposer
  <2>4. QED
    BY <1>3, <2>2, <2>3, IdleStep
<1>5. CASE inst[r.me][r.seq].state # "Decided"
  <2>1. PICK b \in Fresh : /\ prop' = [prop EXCEPT ![g] = NewRound(r, b)]
                           /\ used' = used \cup {b}
    BY <1>1, <1>5 DEF LoopStatus
  <2>2. QED
    BY <1>2, <1>3, <2>1, NewRoundStep
<1>6. QED
  BY <1>4, <1>5

\* A Prepare call that is answered keeps the invariant.
LEMMA CallPrepareStep ==
  ASSUME TypeInv, TypeInv', AgreeInv, NEW g \in Goroutine, CallPrepare(g)
  PROVE  AgreeInv'
<1>1. PICK r \in Proposer : r = prop[g]
  BY DEF TypeInv, TypeOK
<1>2. /\ r.pc = "prepare" /\ r.i \in Peers /\ r.seq \in Seqs /\ r.pnum \in PNum
      /\ r.rv \in Value /\ RoundInv(r)
  BY <1>1 DEF CallPrepare, TypeInv, WellFormed, AgreeInv, ProposerInv
<1>3. HandlePrepare(r.i, r.seq, r.pnum) /\ UNCHANGED <<net, used, dead, proposed>>
  BY <1>1 DEF CallPrepare
<1>4. /\ Grow /\ ProposalInv' /\ AcceptorInv'
      /\ inst'[r.i][r.seq].state # "Absent"
      /\ PrepareOK(inst[r.i][r.seq], r.pnum) => mp'[r.i][r.seq] >= r.pnum
  BY <1>2, <1>3, PrepareStep DEF AgreeInv
<1>5. PICK n : n = AfterPrepare(r, r.i)
  OBVIOUS
<1>6. votes' = votes /\ dones' = dones
  BY <1>3 DEF HandlePrepare
<1>7. prop' = [prop EXCEPT ![g] = n]
  BY <1>1, <1>5 DEF CallPrepare
<1>8. n \in Proposer /\ n.pc = "prepare" /\ n.pnum = r.pnum /\ n.seq = r.seq
  <2>1. n = prop'[g] /\ n \in Proposer
    BY <1>7 DEF TypeInv, TypeOK
  <2>2. QED
    BY <1>2, <1>5, <2>1 DEF AfterPrepare, Proposer
<1>9. RoundInv(n)'
  <2>1. r.seq \in Open => PrepareInv(n)'
    BY <1>2, <1>3, <1>4, <1>5, <1>6, PrepareRound DEF AgreeInv, RoundInv
  <2>2. r.pnum \in used /\ \A s \in Seqs, v \in Value : <<s, r.pnum, v>> \notin proposed
    BY <1>2 DEF RoundInv
  <2>3. QED
    BY <1>3, <1>4, <1>8, <2>1, <2>2 DEF RoundInv, Grow
<1>10. ProposerInv'
  <2>1. prop[g].pc \in Active /\ n.pnum = prop[g].pnum
    BY <1>1, <1>2, <1>8 DEF Active
  <2>2. ProposerInv
    BY DEF AgreeInv
  <2>3. \A s \in Seqs, b \in PNum, v \in Value :
           <<s, b, v>> \in proposed' =>
               \/ <<s, b, v>> \in proposed
               \/ prop[g].pc \in Active /\ b = prop[g].pnum
    BY <1>3
  <2>4. QED
    BY <1>4, <1>7, <1>8, <1>9, <2>1, <2>2, <2>3, ProposerUpdate
<1>11. NetInv'
  BY <1>3, <1>4, NetStable DEF AgreeInv, NetGrow, TypeInv
<1>12. DonesInv'
  BY <1>3, <1>6, DonesKept DEF AgreeInv
<1>13. QED
  BY <1>4, <1>10, <1>11, <1>12 DEF AgreeInv

\* An Accept call that is answered keeps the invariant.
LEMMA CallAcceptStep ==
  ASSUME TypeInv, TypeInv', AgreeInv, NEW g \in Goroutine, CallAccept(g)
  PROVE  AgreeInv'
<1>1. PICK r \in Proposer : r = prop[g]
  BY DEF TypeInv, TypeOK
<1>2. /\ r.pc = "accept" /\ r.i \in Peers /\ r.seq \in Seqs /\ r.pnum \in PNum
      /\ r.rv \in Value /\ RoundInv(r)
  BY <1>1 DEF CallAccept, TypeInv, WellFormed, AgreeInv, ProposerInv
<1>3. HandleAccept(r.i, r.seq, r.pnum, r.rv) /\ UNCHANGED <<net, used, dead, proposed>>
  BY <1>1 DEF CallAccept
<1>4. <<r.seq, r.pnum, r.rv>> \in proposed /\ r.pnum \in used
  BY <1>2 DEF RoundInv
<1>5. /\ Grow /\ ProposalInv' /\ AcceptorInv'
      /\ r.seq \in Open /\ AcceptOK(inst[r.i][r.seq], r.pnum) =>
           VotedFor(r.i, r.seq, r.pnum, r.rv)' \/ Backed(r.seq, r.pnum, r.rv)'
  BY <1>2, <1>3, <1>4, AcceptStep DEF AgreeInv
<1>6. PICK n : n = [r EXCEPT !.i = @ + 1,
                             !.oks = IF AcceptOK(inst[r.i][r.seq], r.pnum)
                                       THEN @ \cup {r.i} ELSE @]
  OBVIOUS
<1>7. prop' = [prop EXCEPT ![g] = n]
  BY <1>1, <1>6 DEF CallAccept
<1>8. /\ n \in Proposer /\ n.pc = "accept" /\ n.pnum = r.pnum /\ n.seq = r.seq
      /\ n.rv = r.rv
  BY <1>2, <1>6, Counter DEF Proposer
<1>9. RoundInv(n)'
  <2>1. r.seq \in Open => AcceptInv(n)'
    BY <1>2, <1>5, <1>6, <1>8, AcceptRound DEF RoundInv
  <2>2. QED
    BY <1>3, <1>4, <1>5, <1>8, <2>1 DEF RoundInv, Grow
<1>10. ProposerInv'
  <2>1. prop[g].pc \in Active /\ n.pnum = prop[g].pnum
    BY <1>1, <1>2, <1>8 DEF Active
  <2>2. ProposerInv
    BY DEF AgreeInv
  <2>3. \A s \in Seqs, b \in PNum, v \in Value :
           <<s, b, v>> \in proposed' =>
               \/ <<s, b, v>> \in proposed
               \/ prop[g].pc \in Active /\ b = prop[g].pnum
    BY <1>3
  <2>4. QED
    BY <1>5, <1>7, <1>8, <1>9, <2>1, <2>2, <2>3, ProposerUpdate
<1>11. NetInv'
  BY <1>3, <1>5, NetStable DEF AgreeInv, NetGrow, TypeInv
<1>12. DonesInv'
  BY <1>3, DonesKept DEF AgreeInv, HandleAccept
<1>13. QED
  BY <1>5, <1>10, <1>11, <1>12 DEF AgreeInv

\* A call fails: the goroutine counts on, its request stays in the network.
LEMMA FailStep ==
  ASSUME TypeInv, TypeInv', AgreeInv, NEW g \in Goroutine, NEW r \in Proposer,
         r = prop[g], r.pc \in {"prepare", "accept"}, r.i \in Peers \ {r.me},
         UNCHANGED <<inst, dones, used, dead, votes, mp, proposed>>, NetGrow,
         prop' = [prop EXCEPT ![g].i = @ + 1]
  PROVE  AgreeInv'
<1>1. r.seq \in Seqs /\ r.pnum \in PNum /\ RoundInv(r)
  BY DEF TypeInv, WellFormed, AgreeInv, ProposerInv
<1>2. PICK n : n = [r EXCEPT !.i = @ + 1]
  OBVIOUS
<1>3. prop' = [prop EXCEPT ![g] = n]
  BY <1>2 DEF TypeInv, TypeOK
<1>4. /\ n \in Proposer /\ n.pc = r.pc /\ n.pnum = r.pnum /\ n.me = r.me
      /\ n.seq = r.seq /\ n.rp = r.rp /\ n.rv = r.rv /\ n.oks = r.oks /\ n.i = r.i + 1
  BY <1>2, Counter DEF Proposer
<1>5. n.i > n.me => r.i > r.me
  <2>1. r.me \in Peers
    BY DEF Proposer
  <2>2. r.me \in Nat /\ r.i \in Nat /\ r.i # r.me
    BY <2>1, NAssumption DEF Peers
  <2>3. QED
    BY <1>4, <2>2
<1>6. RoundInv(n)
  <2>1. PrepareInv(r) => PrepareInv(n)
    BY <1>4, <1>5 DEF PrepareInv
  <2>2. AcceptInv(r) => AcceptInv(n)
    BY <1>4 DEF AcceptInv
  <2>3. QED
    BY <1>1, <1>4, <2>1, <2>2 DEF RoundInv
<1>7. SameOpen /\ Open' = Open
  BY DEF SameOpen, Open
<1>8. TypeOK /\ TypeOK' /\ Grow
  BY <1>7, QuietStep DEF TypeInv
<1>9. RoundInv(n)'
  BY <1>1, <1>4, <1>6, <1>8, RoundStable
<1>10. prop[g].pc \in Active /\ n.pnum = prop[g].pnum
  BY <1>4 DEF Active
<1>11. QED
  BY <1>3, <1>4, <1>7, <1>9, <1>10, LocalStep

\* A Prepare call that fails keeps the invariant: its request may still
\* arrive.
LEMMA FailPrepareStep ==
  ASSUME TypeInv, TypeInv', AgreeInv, NEW g \in Goroutine, FailPrepare(g)
  PROVE  AgreeInv'
<1>1. PICK r \in Proposer : r = prop[g]
  BY DEF TypeInv, TypeOK
<1>2. NetGrow
  BY DEF FailPrepare, NetGrow
<1>3. QED
  BY <1>1, <1>2, FailStep DEF FailPrepare, hist

\* An Accept call that fails keeps the invariant: its request may still
\* arrive.
LEMMA FailAcceptStep ==
  ASSUME TypeInv, TypeInv', AgreeInv, NEW g \in Goroutine, FailAccept(g)
  PROVE  AgreeInv'
<1>1. PICK r \in Proposer : r = prop[g]
  BY DEF TypeInv, TypeOK
<1>2. r.pc = "accept" /\ <<r.seq, r.pnum, r.rv>> \in proposed
  BY <1>1 DEF FailAccept, AgreeInv, ProposerInv, RoundInv
<1>3. net' = net \cup {[type |-> "Accept", to |-> r.i, seq |-> r.seq,
                        pnum |-> r.pnum, val |-> r.rv]}
  BY <1>1 DEF FailAccept
<1>4. NetGrow
  BY <1>2, <1>3 DEF NetGrow
<1>5. QED
  BY <1>1, <1>4, FailStep DEF FailAccept, hist

\* A majority of accepts is a choice, unless the value was chosen before.
LEMMA EndAcceptStep ==
  ASSUME TypeInv, TypeInv', AgreeInv, NEW g \in Goroutine, EndAccept(g)
  PROVE  AgreeInv'
<1>1. PICK r \in Proposer : r = prop[g]
  BY DEF TypeInv, TypeOK
<1>2. /\ r.pc = "accept" /\ r.seq \in Seqs /\ r.pnum \in PNum /\ r.pnum \in Nat
      /\ RoundInv(r)
  BY <1>1, PNumAssumption DEF EndAccept, TypeInv, WellFormed, AgreeInv, ProposerInv
<1>3. UNCHANGED <<inst, dones, net, used, dead, votes, mp, proposed>>
  BY DEF EndAccept, hist
<1>4. PICK n : n = [r EXCEPT !.pc = IF Cardinality(r.oks) >= Majority
                                      THEN "decide" ELSE "min"]
  OBVIOUS
<1>5. prop' = [prop EXCEPT ![g] = n]
  BY <1>1, <1>4 DEF EndAccept, TypeInv, TypeOK
<1>6. /\ n \in Proposer /\ n.pnum = r.pnum /\ n.me = r.me
      /\ n.seq = r.seq /\ n.rv = r.rv
      /\ n.pc = IF Cardinality(r.oks) >= Majority THEN "decide" ELSE "min"
  BY <1>4 DEF Proposer
<1>7. ASSUME Cardinality(r.oks) >= Majority, r.seq \in Open
      PROVE  Backed(r.seq, r.pnum, r.rv)
  <2>1. r.oks \in Quorum
    BY <1>7 DEF Quorum, Proposer
  <2>2. CASE \A a \in r.oks : VotedFor(a, r.seq, r.pnum, r.rv)
    BY <1>2, <2>1, <2>2 DEF Backed, ChosenAt
  <2>3. QED
    BY <1>2, <1>7, <2>2 DEF RoundInv, AcceptInv
<1>8. RoundInv(n)
  BY <1>2, <1>6, <1>7 DEF RoundInv, AcceptInv
<1>9. SameOpen /\ Open' = Open /\ NetGrow
  BY <1>3 DEF SameOpen, Open, NetGrow
<1>10. TypeOK /\ TypeOK' /\ Grow
  BY <1>3, <1>9, QuietStep DEF TypeInv
<1>11. RoundInv(n)'
  BY <1>2, <1>3, <1>6, <1>8, <1>10, RoundStable
<1>12. prop[g].pc \in Active /\ n.pnum = prop[g].pnum
  BY <1>1, <1>2, <1>6 DEF Active
<1>13. QED
  BY <1>3, <1>5, <1>6, <1>9, <1>11, <1>12, LocalStep

\* With a majority of promises the value taken over is safe to propose.
LEMMA EndPrepareStep ==
  ASSUME TypeInv, TypeInv', AgreeInv, NEW g \in Goroutine, EndPrepare(g)
  PROVE  AgreeInv'
<1>1. PICK r \in Proposer : r = prop[g]
  BY DEF TypeInv, TypeOK
<1>2. /\ r.pc = "prepare" /\ r.i = N + 1 /\ r.seq \in Seqs /\ r.pnum \in PNum
      /\ r.rv \in Value /\ RoundInv(r) /\ r.me \in Peers
  BY <1>1 DEF EndPrepare, TypeInv, WellFormed, AgreeInv, ProposerInv, Proposer
<1>3. UNCHANGED <<inst, dones, net, used, dead, votes, mp>>
  BY DEF EndPrepare
<1>4. SameOpen /\ Open' = Open /\ NetGrow
  BY <1>3 DEF SameOpen, Open, NetGrow
<1>5. CASE ~(Cardinality(r.oks) >= Majority)
  <2>1. PICK n : n = [r EXCEPT !.pc = "min"]
    OBVIOUS
  <2>2. prop' = [prop EXCEPT ![g] = n] /\ proposed' = proposed
    BY <1>1, <1>5, <2>1 DEF EndPrepare, TypeInv, TypeOK
  <2>3. n \in Proposer /\ n.pc = "min"
    BY <2>1 DEF Proposer
  <2>4. QED
    BY <1>3, <1>4, <2>2, <2>3, IdleStep
<1>6. CASE Cardinality(r.oks) >= Majority
  <2>1. PICK n : n = [r EXCEPT !.pc = "accept", !.i = 1, !.oks = {}]
    OBVIOUS
  <2>2. /\ prop' = [prop EXCEPT ![g] = n]
        /\ proposed' = proposed \cup {<<r.seq, r.pnum, r.rv>>}
    BY <1>1, <1>6, <2>1 DEF EndPrepare
  <2>3. /\ n \in Proposer /\ n.pc = "accept" /\ n.pnum = r.pnum /\ n.me = r.me
        /\ n.seq = r.seq /\ n.rv = r.rv /\ n.oks = {}
    BY <2>1, Counter DEF Proposer
  <2>4. TypeOK /\ TypeOK' /\ Grow
    BY <1>3, <1>4, <2>2 DEF TypeInv, TypeOK, Grow, SameOpen
  <2>5. r.seq \in Open => SafeAt(r.seq, r.pnum, r.rv)
    BY <1>2, <1>6, SafeProposal DEF AgreeInv, RoundInv
  <2>6. ProposalInv'
    <3>1. ASSUME NEW s \in Seqs, NEW b \in PNum, NEW v \in Value,
                 <<s, b, v>> \in proposed'
          PROVE  b \in used' /\ (s \in Open' => SafeAt(s, b, v)')
      <4>1. CASE <<s, b, v>> \in proposed
        <5>1. b \in used /\ (s \in Open => SafeAt(s, b, v))
          BY <4>1 DEF AgreeInv, ProposalInv
        <5>2. QED
          BY <1>3, <1>4, <2>4, <5>1, Stable
      <4>2. CASE s = r.seq /\ b = r.pnum /\ v = r.rv
        <5>1. SafeAt(s, b, v) => SafeAt(s, b, v)'
          BY <2>4, Stable
        <5>2. b \in used
          BY <1>2, <4>2 DEF RoundInv
        <5>3. s \in Open => SafeAt(s, b, v)
          BY <2>5, <4>2
        <5>4. QED
          BY <1>3, <1>4, <5>1, <5>2, <5>3
      <4>3. QED
        BY <2>2, <3>1, <4>1, <4>2
    <3>2. ASSUME NEW s \in Seqs, NEW b \in PNum, NEW v \in Value, NEW w \in Value,
                 <<s, b, v>> \in proposed', <<s, b, w>> \in proposed'
          PROVE  v = w
      <4>1. \A t \in Seqs, x \in Value : <<t, r.pnum, x>> \notin proposed
        BY <1>2 DEF RoundInv
      <4>2. CASE b = r.pnum
        BY <2>2, <3>2, <4>1, <4>2
      <4>3. CASE b # r.pnum
        BY <2>2, <3>2, <4>3 DEF AgreeInv, ProposalInv
      <4>4. QED
        BY <4>2, <4>3
    <3>3. \A a \in Peers, s \in Seqs, b \in PNum, v \in Value :
             VotedFor(a, s, b, v)' => <<s, b, v>> \in proposed' /\ b <= mp'[a][s]
      BY <1>3, <2>2 DEF AgreeInv, ProposalInv, VotedFor
    <3>4. Open' \subseteq Seqs
      BY <1>4, OpenSeqs
    <3>5. QED
      BY <3>1, <3>2, <3>3, <3>4 DEF ProposalInv
  <2>7. AcceptorInv'
    BY <1>3, <1>4, <2>4, AcceptorStable DEF AgreeInv, SameOpen
  <2>8. RoundInv(n)'
    <3>1. r.seq \in Open => inst[r.me][r.seq].state # "Absent"
      <4>1. r.i > r.me
        BY <1>2, NAssumption DEF Peers
      <4>2. QED
        BY <1>2, <4>1 DEF RoundInv, PrepareInv
    <3>2. n.pnum \in used' /\ <<n.seq, n.pnum, n.rv>> \in proposed'
      BY <1>2, <1>3, <2>2, <2>3 DEF RoundInv
    <3>3. n.seq \in Open' => AcceptInv(n)'
      BY <1>3, <1>4, <2>3, <3>1 DEF AcceptInv
    <3>4. QED
      BY <2>3, <3>2, <3>3 DEF RoundInv
  <2>9. ProposerInv'
    <3>1. prop[g].pc \in Active /\ n.pnum = prop[g].pnum
      BY <1>1, <1>2, <2>3 DEF Active
    <3>2. ProposerInv
      BY DEF AgreeInv
    <3>3. \A s \in Seqs, b \in PNum, v \in Value :
             <<s, b, v>> \in proposed' =>
               \/ <<s, b, v>> \in proposed
               \/ prop[g].pc \in Active /\ b = prop[g].pnum
      BY <1>1, <2>2, <3>1
    <3>4. QED
      BY <2>2, <2>3, <2>4, <2>8, <3>1, <3>2, <3>3, ProposerUpdate
  <2>10. NetInv'
    BY <1>4, <2>4, NetStable DEF AgreeInv
  <2>11. DonesInv'
    BY <1>3, DonesKept DEF AgreeInv
  <2>12. QED
    BY <2>6, <2>7, <2>9, <2>10, <2>11 DEF AgreeInv
<1>7. QED
  BY <1>5, <1>6

\* With a majority of accepts the value is chosen, and Decides say no more.
LEMMA SendDecideStep ==
  ASSUME TypeInv, TypeInv', AgreeInv, NEW g \in Goroutine, SendDecide(g), DonesInv'
  PROVE  AgreeInv'
<1>1. PICK r \in Proposer : r = prop[g]
  BY DEF TypeInv, TypeOK
<1>2. /\ r.pc = "decide" /\ r.seq \in Seqs /\ r.pnum \in PNum /\ r.rv \in Value
      /\ r.me \in Peers /\ RoundInv(r)
  BY <1>1 DEF SendDecide, TypeInv, WellFormed, AgreeInv, ProposerInv, Proposer
<1>3. /\ <<r.seq, r.pnum, r.rv>> \in proposed
      /\ r.seq \in Open => Backed(r.seq, r.pnum, r.rv)
  BY <1>2 DEF RoundInv, AcceptInv
<1>4. UNCHANGED <<dones, used, votes, proposed>> /\ Open' = Open
  BY DEF SendDecide, Open
<1>5. CASE inst[r.me][r.seq].state = "Absent"
  <2>1. UNCHANGED <<inst, net, prop, mp>>
    BY <1>1, <1>5 DEF SendDecide
  <2>2. Grow /\ ProposalInv' /\ AcceptorInv' /\ NetInv'
    BY <1>4, <2>1, QuietStep DEF SameOpen, NetGrow
  <2>3. ProposerInv'
    BY <1>4, <2>1, <2>2, ProposerStable DEF AgreeInv
  <2>4. QED
    BY <2>2, <2>3 DEF AgreeInv
<1>6. CASE inst[r.me][r.seq].state # "Absent"
  <2>1. /\ inst' = [inst EXCEPT ![r.me][r.seq] =
                      Decide(inst[r.me][r.seq], r.pnum, r.rv)]
        /\ mp' = [mp EXCEPT ![r.me][r.seq] = IF r.pnum > @ THEN r.pnum ELSE @]
        /\ net' = net \cup
              {[type |-> "Decide", to |-> q, seq |-> r.seq,
                pnum |-> r.pnum, val |-> r.rv,
                me |-> r.me, done |-> dones[r.me][r.me]] : q \in Peers \ {r.me}}
    BY <1>1, <1>6 DEF SendDecide
  <2>2. Grow /\ ProposalInv' /\ AcceptorInv'
    BY <1>2, <1>3, <1>4, <2>1, DecideStep DEF AgreeInv
  <2>3. PICK n : n = [r EXCEPT !.pc = "done"]
    OBVIOUS
  <2>4. prop' = [prop EXCEPT ![g] = n]
    BY <1>1, <1>6, <2>3 DEF SendDecide, TypeInv, TypeOK
  <2>5. n \in Proposer /\ n.pc = "done"
    BY <2>3 DEF Proposer
  <2>6. ProposerInv'
    <3>1. RoundInv(n)' /\ n.pc \notin Active
      BY <2>5 DEF RoundInv, Active
    <3>2. ProposerInv
      BY DEF AgreeInv
    <3>3. \A s \in Seqs, b \in PNum, v \in Value :
             <<s, b, v>> \in proposed' =>
                \/ <<s, b, v>> \in proposed
                \/ prop[g].pc \in Active /\ b = prop[g].pnum
      BY <1>4
    <3>4. QED
      BY <2>2, <2>4, <2>5, <3>1, <3>2, <3>3, ProposerUpdate
  <2>7. NetInv'
    <3>0. \A s, b, v : Backed(s, b, v) => Backed(s, b, v)'
      BY <2>2, Stable DEF TypeInv
    <3>1. SUFFICES ASSUME NEW m \in net'
                   PROVE  /\ m.type \in {"Accept", "Decide"} =>
                               <<m.seq, m.pnum, m.val>> \in proposed'
                          /\ m.type = "Decide" /\ m.seq \in Open' =>
                               Backed(m.seq, m.pnum, m.val)'
      BY DEF NetInv
    <3>2. CASE m \in net
      BY <1>4, <3>0, <3>2 DEF AgreeInv, NetInv
    <3>3. CASE /\ m.type = "Decide" /\ m.seq = r.seq
               /\ m.pnum = r.pnum /\ m.val = r.rv
      <4>1. Backed(r.seq, r.pnum, r.rv) => Backed(m.seq, m.pnum, m.val)'
        BY <3>0, <3>3
      <4>2. QED
        BY <1>3, <1>4, <3>3, <4>1
    <3>4. QED
      BY <2>1, <3>1, <3>2, <3>3
  <2>8. QED
    BY <2>2, <2>6, <2>7 DEF AgreeInv
<1>7. QED
  BY <1>5, <1>6

\* A late request keeps the invariant.
LEMMA LateStep ==
  ASSUME TypeInv, TypeInv', AgreeInv, NEW m \in net, Late(m), DonesInv'
  PROVE  AgreeInv'
<1>1. /\ m \in Message /\ net' = net \ {m}
      /\ UNCHANGED <<prop, used, dead, proposed>>
  BY DEF Late, TypeInv, TypeOK
<1>2. ASSUME Grow, ProposalInv', AcceptorInv'
      PROVE  AgreeInv'
  <2>1. ProposerInv'
    BY <1>1, <1>2, ProposerStable DEF AgreeInv
  <2>2. NetInv'
    BY <1>1, <1>2, NetStable DEF AgreeInv, NetGrow, TypeInv
  <2>3. QED
    BY <1>2, <2>1, <2>2 DEF AgreeInv
<1>3. CASE LatePrepare(m)
  <2>1. m.to \in Peers /\ m.seq \in Seqs /\ m.pnum \in PNum
    BY <1>1 DEF Message
  <2>2. HandlePrepare(m.to, m.seq, m.pnum)
    BY <1>3 DEF LatePrepare
  <2>3. QED
    BY <1>1, <1>2, <2>1, <2>2, PrepareStep DEF AgreeInv
<1>4. CASE LateAccept(m)
  <2>1. m.to \in Peers /\ m.seq \in Seqs /\ m.pnum \in PNum /\ m.val \in Value
    BY <1>1, <1>4 DEF Message, LateAccept
  <2>2. HandleAccept(m.to, m.seq, m.pnum, m.val)
    BY <1>4 DEF LateAccept
  <2>3. <<m.seq, m.pnum, m.val>> \in proposed
    BY <1>4 DEF LateAccept, AgreeInv, NetInv
  <2>4. QED
    BY <1>1, <1>2, <2>1, <2>2, <2>3, AcceptStep DEF AgreeInv
<1>5. CASE LateDecide(m)
  <2>1. /\ m.to \in Peers /\ m.seq \in Seqs /\ m.pnum \in PNum /\ m.val \in Value
        /\ m.me \in Peers
    BY <1>1, <1>5 DEF Message, LateDecide
  <2>2. /\ inst' = [inst EXCEPT ![m.to][m.seq] =
                      Decide(inst[m.to][m.seq], m.pnum, m.val)]
        /\ mp' = [mp EXCEPT ![m.to][m.seq] = IF m.pnum > @ THEN m.pnum ELSE @]
        /\ votes' = votes
        /\ dones' = [dones EXCEPT ![m.to][m.me] = m.done]
    BY <1>5 DEF LateDecide, HandleDecide
  <2>3. /\ <<m.seq, m.pnum, m.val>> \in proposed
        /\ m.seq \in Open => Backed(m.seq, m.pnum, m.val)
        /\ m.to # m.me
    BY <1>5 DEF LateDecide, AgreeInv, NetInv, DonesInv
  <2>4. Open' = Open
    <3>1. \A q \in Peers : dones'[q][q] = dones[q][q]
      BY <2>1, <2>2, <2>3 DEF TypeInv, TypeOK
    <3>2. QED
      BY <3>1 DEF Open
  <2>5. Grow /\ ProposalInv' /\ AcceptorInv'
    BY <1>1, <2>1, <2>2, <2>3, <2>4, DecideStep DEF AgreeInv
  <2>6. QED
    BY <1>2, <2>5
<1>6. QED
  BY <1>3, <1>4, <1>5 DEF Late

\* Done() closes sequence numbers, it opens none.
LEMMA DoneStep ==
  ASSUME TypeInv, TypeInv', AgreeInv, NEW p \in Peers, NEW s \in Seqs, Done(p, s),
         DonesInv'
  PROVE  AgreeInv' /\ Open' \subseteq Open
<1>1. UNCHANGED <<inst, prop, net, used, dead, votes, mp, proposed>>
  BY DEF Done, hist
<1>2. Open' \subseteq Open
  <2>1. dones \in [Peers -> [Peers -> Int]] /\ s \in Int
    BY SeqsAssumption DEF TypeInv, TypeOK
  <2>2. \A q \in Peers : dones[q][q] <= dones'[q][q] /\ dones'[q][q] \in Int
    BY <2>1 DEF Done
  <2>3. ASSUME NEW t \in Seqs, NEW q \in Peers, dones'[q][q] < t
        PROVE  dones[q][q] < t
    <3>1. t \in Int /\ dones[q][q] \in Int
      BY <2>1, SeqsAssumption
    <3>2. QED
      BY <2>2, <2>3, <3>1
  <2>4. QED
    BY <2>3 DEF Open
<1>3. Grow /\ ProposalInv' /\ AcceptorInv' /\ NetInv'
  BY <1>1, <1>2, QuietStep DEF SameOpen, NetGrow
<1>4. ProposerInv'
  BY <1>1, <1>3, ProposerStable DEF AgreeInv
<1>5. QED
  BY <1>2, <1>3, <1>4 DEF AgreeInv

\* Min() deletes no instance of an open sequence number.
LEMMA MinStep ==
  ASSUME TypeInv, TypeInv', AgreeInv, NEW p \in Peers, Min(p), DonesInv'
  PROVE  AgreeInv'
<1>1. UNCHANGED <<dones, prop, net, used, dead, votes, mp, proposed>>
  BY DEF Min, hist
<1>2. SameOpen
  BY ForgetOpen DEF Min
<1>3. Open' = Open
  BY <1>1 DEF Open
<1>4. Grow /\ ProposalInv' /\ AcceptorInv' /\ NetInv'
  BY <1>1, <1>2, <1>3, QuietStep DEF NetGrow
<1>5. ProposerInv'
  BY <1>1, <1>4, ProposerStable DEF AgreeInv
<1>6. QED
  BY <1>4, <1>5 DEF AgreeInv

\* The invariant holds when Make() returns.
LEMMA AgreeInit == Init => AgreeInv
<1> SUFFICES ASSUME Init PROVE AgreeInv
  OBVIOUS
<1>1. ProposalInv
  BY DEF Init, ProposalInv, VotedFor
<1>2. AcceptorInv
  BY OpenSeqs DEF Init, AcceptorInv, InstanceInv, Absent, DidNotVote, VotedFor
<1>3. ProposerInv
  BY DEF Init, ProposerInv, RoundInv, Idle
<1>4. NetInv /\ DonesInv
  BY DEF Init, NetInv, DonesInv, DonesNeverAhead
<1>5. QED
  BY <1>1, <1>2, <1>3, <1>4 DEF AgreeInv

\* Every step keeps the invariant.
LEMMA AgreeStep ==
  ASSUME TypeInv, TypeInv', AgreeInv, [Next]_vars
  PROVE  AgreeInv'
<1>0. DonesInv'
  BY DonesStep DEF AgreeInv
<1>1. CASE UNCHANGED vars
  <2>1. SameOpen /\ NetGrow /\ Open' = Open
    BY <1>1 DEF vars, SameOpen, NetGrow, Open
  <2>2. Grow /\ ProposalInv' /\ AcceptorInv' /\ NetInv'
    BY <1>1, <2>1, QuietStep DEF vars
  <2>3. ProposerInv'
    BY <1>1, <2>2, ProposerStable DEF vars, AgreeInv
  <2>4. QED
    BY <1>0, <2>2, <2>3 DEF AgreeInv
<1>2. CASE Next
  BY <1>0, <1>2, StartStep, CallPrepareStep, FailPrepareStep, EndPrepareStep,
     CallAcceptStep, FailAcceptStep, EndAcceptStep, SendDecideStep,
     LoopMinStep, LoopStatusStep, LateStep, DoneStep, MinStep
     DEF Next, Propose
<1>3. QED
  BY <1>1, <1>2

\* The invariant holds in every state the library reaches.
LEMMA AgreeInvariant == Spec => [](TypeInv /\ AgreeInv)
<1>1. Init => TypeInv /\ AgreeInv
  BY TypeInit, AgreeInit
<1>2. TypeInv /\ AgreeInv /\ [Next]_vars => (TypeInv /\ AgreeInv)'
  BY TypeStep, AgreeStep
<1>3. QED
  BY <1>1, <1>2, PTL DEF Spec

----------------------------------------------------------------------------
(* What the invariant gives. *)

\* Two values chosen for one open sequence number are equal: the one chosen in
\* the higher round was proposed above the other.
LEMMA OneChosen ==
  ASSUME TypeOK, ProposalInv, NEW s \in Open, NEW b \in PNum, NEW c \in PNum,
         NEW v \in Value, NEW w \in Value, ChosenAt(s, b, v), ChosenAt(s, c, w)
  PROVE  v = w
<1>0. s \in Seqs
  BY OpenSeqs
<1>1. <<s, b, v>> \in proposed /\ <<s, c, w>> \in proposed
  BY <1>0, ChosenProposed
<1>2. b <= c \/ c <= b
  BY PNumAssumption
<1>3. QED
  BY <1>0, <1>1, <1>2, ChosenValue

\* Two decided instances of an open number are backed, so by the same
\* value.
LEMMA AgreementFromInvariant ==
  ASSUME TypeInv, AgreeInv
  PROVE  Agreement
<1>1. SUFFICES ASSUME NEW p \in Peers, NEW q \in Peers, NEW s \in Open,
                      inst[p][s].state = "Decided", inst[q][s].state = "Decided"
               PROVE  inst[p][s].v_a = inst[q][s].v_a
  BY DEF Agreement, Status
<1>2. \A a \in Peers : inst[a][s].n_a \in Nat
  BY OpenSeqs DEF TypeInv, TypeOK, Instance
<1>3. /\ Backed(s, inst[p][s].n_a, inst[p][s].v_a)
      /\ Backed(s, inst[q][s].n_a, inst[q][s].v_a)
  BY <1>1 DEF AgreeInv, AcceptorInv, InstanceInv
<1>4. inst[p][s].v_a \in Value /\ inst[q][s].v_a \in Value
  BY <1>2, <1>3, BackedValue DEF TypeInv
<1>5. PICK b \in PNum : ChosenAt(s, b, inst[p][s].v_a)
  BY <1>3 DEF Backed
<1>6. PICK c \in PNum : ChosenAt(s, c, inst[q][s].v_a)
  BY <1>3 DEF Backed
<1>7. QED
  BY <1>4, <1>5, <1>6, OneChosen DEF TypeInv, AgreeInv

\* Peers that report an open sequence number as decided report the same value,
\* for any number of peers, however calls fail, late requests arrive and
\* applications call Done() and Min().
THEOREM AgreementHolds == Spec => []Agreement
  BY AgreeInvariant, AgreementFromInvariant, PTL

\* A Decide that arrives late takes promises back only to a round by which a
\* value had been chosen.
THEOREM BrokenPromiseBackedHolds == Spec => []BrokenPromiseBacked
<1>1. AgreeInv => BrokenPromiseBacked
  BY DEF AgreeInv, AcceptorInv, InstanceInv, BrokenPromiseBacked
<1>2. QED
  BY AgreeInvariant, <1>1, PTL

----------------------------------------------------------------------------
(* The library implements Consensus. *)

\* A step adds at most one vote; only Done() closes sequence numbers, and it
\* adds none.
OneVoteMore ==
    \/ votes' = votes /\ Open' \subseteq Open
    \/ /\ Open' = Open
       /\ \E p \in Peers, s \in Seqs, b \in PNum, v \in Value :
             votes' = votes \cup {<<p, s, b, v>>}

\* A step adds one vote at most.
LEMMA OneVote ==
  ASSUME TypeInv, TypeInv', AgreeInv, [Next]_vars
  PROVE  OneVoteMore
<1>0. ASSUME dones' = dones PROVE Open' = Open
  BY <1>0 DEF Open
<1>1. ASSUME NEW p \in Peers, NEW s \in Seqs, NEW b \in PNum, NEW v \in Value,
             HandleAccept(p, s, b, v)
      PROVE  OneVoteMore
  <2>1. dones' = dones /\ (votes' = votes \/ votes' = votes \cup {<<p, s, b, v>>})
    BY <1>1 DEF HandleAccept
  <2>2. QED
    BY <1>0, <2>1 DEF OneVoteMore
<1>2. ASSUME NEW g \in Goroutine, CallAccept(g)
      PROVE  OneVoteMore
  <2>1. PICK r \in Proposer : r = prop[g]
    BY DEF TypeInv, TypeOK
  <2>2. r.i \in Peers /\ r.seq \in Seqs /\ r.pnum \in PNum /\ r.rv \in Value
    BY <1>2, <2>1 DEF CallAccept, TypeInv, WellFormed
  <2>3. HandleAccept(r.i, r.seq, r.pnum, r.rv)
    BY <1>2, <2>1 DEF CallAccept
  <2>4. QED
    BY <1>1, <2>2, <2>3
<1>3. ASSUME NEW m \in net, Late(m)
      PROVE  OneVoteMore
  <2>1. m \in Message
    BY DEF TypeInv, TypeOK
  <2>2. CASE LateAccept(m)
    <3>1. m.to \in Peers /\ m.seq \in Seqs /\ m.pnum \in PNum /\ m.val \in Value
      BY <2>1, <2>2 DEF Message, LateAccept
    <3>2. HandleAccept(m.to, m.seq, m.pnum, m.val)
      BY <2>2 DEF LateAccept
    <3>3. QED
      BY <1>1, <3>1, <3>2
  <2>3. CASE LatePrepare(m)
    BY <1>0, <2>3 DEF LatePrepare, HandlePrepare, OneVoteMore
  <2>4. CASE LateDecide(m)
    <3>1. m.to \in Peers /\ m.me \in Peers /\ m.to # m.me
      BY <2>1, <2>4 DEF Message, LateDecide, AgreeInv, DonesInv
    <3>2. votes' = votes /\ dones' = [dones EXCEPT ![m.to][m.me] = m.done]
      BY <2>4 DEF LateDecide, HandleDecide
    <3>3. \A q \in Peers : dones'[q][q] = dones[q][q]
      BY <3>1, <3>2 DEF TypeInv, TypeOK
    <3>4. Open' = Open
      BY <3>3 DEF Open
    <3>5. QED
      BY <3>2, <3>4 DEF OneVoteMore
  <2>5. QED
    BY <1>3, <2>2, <2>3, <2>4 DEF Late
<1>4. ASSUME NEW g \in Goroutine, CallPrepare(g)
      PROVE  OneVoteMore
  BY <1>0, <1>4 DEF CallPrepare, HandlePrepare, OneVoteMore
<1>5. ASSUME NEW g \in Goroutine, Propose(g), ~CallAccept(g), ~CallPrepare(g)
      PROVE  OneVoteMore
  <2>1. votes' = votes /\ dones' = dones
    BY <1>5 DEF Propose, Start, FailPrepare, EndPrepare, FailAccept, EndAccept,
       SendDecide, LoopMin, LoopStatus, hist
  <2>2. QED
    BY <1>0, <2>1 DEF OneVoteMore
<1>6. ASSUME NEW p \in Peers, NEW s \in Seqs, Done(p, s)
      PROVE  OneVoteMore
  <2>1. [Next]_vars /\ DonesInv'
    BY DonesStep DEF AgreeInv
  <2>2. votes' = votes /\ Open' \subseteq Open
    BY <1>6, <2>1, DoneStep DEF Done, hist
  <2>3. QED
    BY <2>2 DEF OneVoteMore
<1>7. ASSUME NEW p \in Peers, Min(p)
      PROVE  OneVoteMore
  BY <1>0, <1>7 DEF Min, hist, OneVoteMore
<1>8. CASE UNCHANGED vars
  BY <1>0, <1>8 DEF vars, OneVoteMore
<1>9. QED
  BY <1>2, <1>3, <1>4, <1>5, <1>6, <1>7, <1>8 DEF Next

\* OneChosen as a formula, to be read in the next state as well.
AtMostOneChosen ==
    \A s \in Open, b, c \in PNum, v, w \in Value :
        ChosenAt(s, b, v) /\ ChosenAt(s, c, w) => v = w

\* Votes that keep their promises choose one value at most.
LEMMA OneChosenAlways == TypeOK /\ ProposalInv => AtMostOneChosen
  BY OneChosen DEF AtMostOneChosen

\* No vote: the step closes the numbers of Open \ Open', or stutters.
LEMMA CloseStep ==
  ASSUME votes' = votes, Open' \subseteq Open
  PROVE  C!Close(Open \ Open')
<1>1. PICK S : S = Open \ Open'
  OBVIOUS
<1>2. Open' = Open \ S
  BY <1>1
<1>3. \A s, b, v : ChosenAt(s, b, v)' <=> ChosenAt(s, b, v)
  BY DEF ChosenAt, VotedFor
<1>4. Chosen' = [s \in Seqs |-> {v \in Value : s \in Open' /\ \E b \in PNum : ChosenAt(s, b, v)}]
  BY <1>3 DEF Chosen
<1>5. ASSUME NEW s \in Seqs
      PROVE  Chosen'[s] = IF s \in S THEN {} ELSE Chosen[s]
  <2>1. CASE s \in S
    BY <1>1, <1>4, <2>1
  <2>2. CASE s \notin S
    BY <1>1, <1>4, <2>2 DEF Chosen
  <2>3. QED
    BY <2>1, <2>2
<1>6. Chosen' = [s \in Seqs |-> IF s \in S THEN {} ELSE Chosen[s]]
  BY <1>4, <1>5
<1>7. QED
  BY <1>1, <1>2, <1>6 DEF C!Close

\* Every step is a step of Consensus or a stutter.
LEMMA ChosenStep ==
  ASSUME TypeInv, TypeInv', AgreeInv, AgreeInv', [Next]_vars
  PROVE  [C!Next]_<<Chosen, Open>>
<1>1. CASE votes' = votes /\ Open' \subseteq Open
  <2>1. C!Close(Open \ Open')
    BY <1>1, CloseStep
  <2>2. Open \ Open' \in SUBSET Open
    OBVIOUS
  <2>3. QED
    BY <2>1, <2>2 DEF C!Next
<1>2. CASE /\ Open' = Open
           /\ \E p \in Peers, s \in Seqs, b \in PNum, v \in Value :
                votes' = votes \cup {<<p, s, b, v>>}
  <2>1. PICK p \in Peers, s \in Seqs, b \in PNum, v \in Value :
           votes' = votes \cup {<<p, s, b, v>>}
    BY <1>2
  <2>2. \A t \in Seqs : \A c, w : t # s => (ChosenAt(t, c, w)' <=> ChosenAt(t, c, w))
    BY <2>1 DEF ChosenAt, VotedFor
  <2>3. \A t, c, w : ChosenAt(t, c, w) => ChosenAt(t, c, w)'
    BY <2>1 DEF ChosenAt, VotedFor
  <2>4. /\ Chosen \in [Seqs -> SUBSET Value] /\ Chosen' \in [Seqs -> SUBSET Value]
        /\ \A t \in Seqs : t # s => Chosen'[t] = Chosen[t]
        /\ Chosen[s] \subseteq Chosen'[s]
    BY <1>2, <2>2, <2>3 DEF Chosen
  <2>5. \A x, y \in Chosen'[s] : x = y /\ s \in Open'
    <3>1. SUFFICES ASSUME NEW x \in Chosen'[s], NEW y \in Chosen'[s]
                   PROVE  x = y /\ s \in Open'
      OBVIOUS
    <3>2. x \in Value /\ s \in Open' /\ \E c \in PNum : ChosenAt(s, c, x)'
      BY DEF Chosen
    <3>3. y \in Value /\ \E c \in PNum : ChosenAt(s, c, y)'
      BY DEF Chosen
    <3>4. PICK c \in PNum, d \in PNum : ChosenAt(s, c, x)' /\ ChosenAt(s, d, y)'
      BY <3>2, <3>3
    <3>5. \A c1, d1 \in PNum, x1, y1 \in Value :
             ChosenAt(s, c1, x1)' /\ ChosenAt(s, d1, y1)' => x1 = y1
      <4>1. TypeOK' /\ ProposalInv' => AtMostOneChosen'
        BY OneChosenAlways, PTL
      <4>2. QED
        BY <3>2, <4>1 DEF TypeInv, AgreeInv, AtMostOneChosen
    <3>6. QED
      BY <3>2, <3>3, <3>4, <3>5
  <2>6. CASE Chosen'[s] = Chosen[s]
    <3>1. Chosen' = Chosen
      BY <2>4, <2>6
    <3>2. QED
      BY <1>2, <3>1
  <2>7. CASE Chosen'[s] # Chosen[s]
    <3>1. PICK x \in Chosen'[s] : x \notin Chosen[s]
      BY <2>4, <2>7
    <3>2. x \in Value /\ Chosen[s] = {} /\ Chosen'[s] = {x} /\ s \in Open
      BY <1>2, <2>4, <2>5, <3>1
    <3>3. Chosen' = [Chosen EXCEPT ![s] = {x}]
      BY <2>4, <3>2
    <3>4. QED
      BY <1>2, <3>2, <3>3 DEF C!Next, C!Choose
  <2>8. QED
    BY <2>6, <2>7
<1>3. QED
  BY <1>1, <1>2, OneVote DEF OneVoteMore

\* The library implements Consensus: for an open sequence number a value is
\* chosen at most once and never replaced.
THEOREM ImplementsHolds == Spec => Implements
<1>1. Init => C!Init
  <2>1. SUFFICES ASSUME Init PROVE Chosen = [s \in Seqs |-> {}] /\ Open = Seqs
    BY DEF C!Init
  <2>2. \A s, b, v : ~ChosenAt(s, b, v)
    BY <2>1, QuorumNotEmpty DEF Init, ChosenAt, VotedFor
  <2>3. Open = Seqs
    <3>1. 1 \in Peers
      BY NAssumption DEF Peers
    <3>2. \A s \in Seqs : -1 < s
      BY SeqsAssumption
    <3>3. QED
      BY <2>1, <3>1, <3>2 DEF Init, Open
  <2>4. QED
    BY <2>2, <2>3 DEF Chosen
<1>2. /\ TypeInv /\ AgreeInv /\ (TypeInv /\ AgreeInv)' /\ [Next]_vars
      => [C!Next]_<<Chosen, Open>>
  BY ChosenStep
<1>3. QED
  BY <1>1, <1>2, AgreeInvariant, PTL DEF Spec, Implements, C!Spec

=============================================================================
