----------------------------- MODULE EventLoop -----------------------------
(* cnm/net/ae.c on tree.h: TimerLoop with the timers in a red-black tree,    *)
(* which is walked while it changes.  Timers that are in the tree no more    *)
(* keep their memory, with the pointers as they were.                        *)
EXTENDS Trees, TimerLoop

VARIABLE timers
loopVars == <<timerVars, timers>>

LoopInit == TimerInit /\ timers = EmptyTree(Timers, key)

Inserted(n) == RB_INSERT([timers EXCEPT !.key = key'], n)

aeProcessTimeEvents ==
  \/ PassBegin(RB_MINMAX(timers, "L")) /\ UNCHANGED timers
  \/ PassCall(RB_NEXT(timers, pass.te)) /\ UNCHANGED timers
  \/ PassReturn /\ timers' = RB_REMOVE(timers, pass.te)
  \/ \E n \in Unused : PassAgain(n) /\ timers' = RB_REMOVE(Inserted(n), pass.te)
  \/ PassEnd /\ UNCHANGED timers

LoopNext ==
  \/ \E n \in Unused, tv \in Intervals : aeCreateTimeEvent(n, tv) /\ timers' = Inserted(n)
  \/ aeProcessTimeEvents
  \/ TimePasses /\ UNCHANGED timers

----------------------------------------------------------------------------
(* The tree stays one and holds the timers there are, and its answers are    *)
(* those of an ordered set, so that the steps here are those of TimerLoop.   *)
TimerTreeKept ==
  /\ SearchTree(timers, live) /\ RedBlack(timers, live) /\ timers.key = key
  /\ RB_MINMAX(timers, "L") = Earliest(live)
  /\ \A n \in live : RB_NEXT(timers, n) = After(n)
=============================================================================
