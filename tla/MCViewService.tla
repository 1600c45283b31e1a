--------------------------- MODULE MCViewService ---------------------------
(* Small instances of ViewService for TLC. *)
EXTENDS ViewService, TLC

CONSTANTS MaxView,   \* views explored
          MaxLate    \* requests outstanding after a failed call

Symmetry == Permutations(Server) \cup Permutations(Clerk)

Bounded == view.num <= MaxView /\ Cardinality(late) <= MaxLate
=============================================================================
