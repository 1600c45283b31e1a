---------------------------- MODULE MCPBService ----------------------------
(* Small instances of PBService for TLC. *)
EXTENDS PBService, TLC

CONSTANTS MaxView,         \* views explored
          MaxLate,         \* pings outstanding after failed calls
          MaxOutstanding   \* requests of any kind outstanding after failed calls

Symmetry == Permutations(Server) \cup Permutations(Clerk)

Bounded ==
    /\ view.num <= MaxView
    /\ Cardinality(late) <= MaxLate
    /\ Cardinality(late) + Cardinality(net) <= MaxOutstanding
=============================================================================
