------------------------------ MODULE MCNsqd ------------------------------
(* Two channels; a client that subscribes twice and one that leaves; two     *)
(* messages, the first too long for the disk queue; room for one in memory.  *)
EXTENDS Nsqd

CONSTANTS ch1, ch2, k1, k2

MCChannels == {ch1, ch2}
MCClients == {k1, k2}
MCMaxSub == k1 :> 2 @@ k2 :> 1
MCLeaving == {k2}
MCLarge == {1}
=============================================================================
