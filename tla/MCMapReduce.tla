---------------------------- MODULE MCMapReduce ----------------------------
(* Three workers: one stays, one leaves after two calls, one may die.  The   *)
(* first inputs have lines for every split; the last has not, and its second *)
(* map job finds no file.                                                    *)
EXTENDS MapReduce

CONSTANTS w1, w2, w3

MCWorkers == {w1, w2, w3}
MCNRPC == w1 :> -1 @@ w2 :> 2 @@ w3 :> -1
MCMortal == {w3}
MCInputs == {<<1, 4, 1, 2>>, <<2, 2, 2, 2, 2, 2>>, <<2, 2, 2>>}
=============================================================================
