----------------------------- MODULE Consensus -----------------------------
(***************************************************************************)
(* What the Paxos library promises its applications, for every sequence    *)
(* number: nothing is chosen at first, a value may become chosen, once;    *)
(* when every application is done with the number it is closed, and no     *)
(* promise is made about it any more.                                      *)
(***************************************************************************)
CONSTANTS Value, Seqs

VARIABLES chosen,    \* chosen[s]: the values chosen for sequence number s
          open       \* the numbers some application may still ask about

Init == /\ chosen = [s \in Seqs |-> {}]
        /\ open = Seqs

Choose(s, v) ==
    /\ s \in open
    /\ chosen[s] = {}
    /\ chosen' = [chosen EXCEPT ![s] = {v}]
    /\ UNCHANGED open

Close(S) ==
    /\ open' = open \ S
    /\ chosen' = [s \in Seqs |-> IF s \in S THEN {} ELSE chosen[s]]

Next == \/ \E s \in Seqs, v \in Value : Choose(s, v)
        \/ \E S \in SUBSET open : Close(S)

Spec == Init /\ [][Next]_<<chosen, open>>
============================================================================
