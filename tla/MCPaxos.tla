------------------------------ MODULE MCPaxos ------------------------------
(* Small instances of Paxos for TLC. *)
EXTENDS Paxos, TLC

CONSTANTS MaxLate,   \* prepare and accept requests outstanding after a failed call
          MaxDone    \* peers whose application calls Done()

Symmetry == Permutations(Goroutine) \cup Permutations(Value)

Bounded ==
    /\ Cardinality({m \in net : m.type # "Decide"}) <= MaxLate
    /\ Cardinality({p \in Peers : dones[p][p] # -1}) <= MaxDone
============================================================================
