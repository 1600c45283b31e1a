----------------------------- MODULE TimerLoop -----------------------------
(* cnm/net/ae.c: the timers of an event loop and the pass over them, which   *)
(* is in progress while the callbacks make more.                             *)
(*                                                                           *)
(* What the code asks of the tree that holds the timers, the first of them   *)
(* and the one after a given one, is a parameter of the actions here.  With  *)
(* the answers of an ordered set this is the specification TimerSpec;        *)
(* EventLoop takes those of the tree.                                        *)
(*                                                                           *)
(* aeMain() handles file events between two passes over the timers; what     *)
(* their handlers do here is to make timers and to take time.                *)
EXTENDS Integers

CONSTANTS MaxTimers,   \* timers that are made in all; none is freed
          Intervals,   \* their tv
          MaxTime      \* bound on the clock

ASSUME TimerAssumption == {MaxTimers, MaxTime} \cup Intervals \subseteq Nat

(* The key of every timer (0: not made yet) and its tv, the time, the pass   *)
(* of aeProcessTimeEvents() that is going on; live are the timers that have  *)
(* been made and not removed, owed those that were due when the pass began   *)
(* and have not run.                                                         *)
VARIABLES key, interval, time, pass, live, owed
timerVars == <<key, interval, time, pass, live, owed>>

Timers == 1..MaxTimers
NULL == 0
Idle == [pc |-> "idle", now |-> 0, te |-> NULL, next |-> NULL]

TimerInit ==
  /\ key = [n \in Timers |-> 0]
  /\ interval = [n \in Timers |-> 0]
  /\ time = 1 /\ pass = Idle
  /\ live = {} /\ owed = {}

\* Mutant: timers are compared by their time alone.
TimerKeyTimeOnly(timeout, n) == timeout * (MaxTimers + 1)

(* compare(): by time, and by address when the times are equal.              *)
TimerKey(timeout, n) == timeout * (MaxTimers + 1) + n
Timeout(n) == key[n] \div (MaxTimers + 1)

(* malloc() may return any address that is not in use.                       *)
Unused == {n \in Timers : key[n] = 0}

Made(n, tv) ==
  /\ key' = [key EXCEPT ![n] = TimerKey(time + tv, n)]
  /\ interval' = [interval EXCEPT ![n] = tv]

(* From outside a pass, or from a callback.                                  *)
aeCreateTimeEvent(n, tv) ==
  /\ pass.pc \in {"idle", "callback"}
  /\ Made(n, tv)
  /\ live' = live \cup {n}
  /\ UNCHANGED <<time, pass, owed>>

(* A timer the loop calls rather than stop at: te, and not after now.        *)
Due(n, now) == IF n = NULL THEN FALSE ELSE Timeout(n) =< now

PassBegin(first) ==
  /\ pass.pc = "idle"
  /\ pass' = [pc |-> "walk", now |-> time, te |-> first, next |-> NULL]
  /\ owed' = {n \in live : Due(n, time)}
  /\ UNCHANGED <<key, interval, time, live>>

(* next is read before the callback.                                         *)
PassCall(next) ==
  /\ pass.pc = "walk" /\ Due(pass.te, pass.now)
  /\ pass' = [pass EXCEPT !.pc = "callback", !.next = next]
  /\ UNCHANGED <<key, interval, time, live, owed>>

(* The callback has returned: te goes, and the loop goes on with next.       *)
Gone ==
  /\ pass.pc = "callback"
  /\ owed' = owed \ {pass.te}
  /\ pass' = [pass EXCEPT !.pc = "walk", !.te = pass.next, !.next = NULL]
  /\ UNCHANGED time

(* The callback returned AE_NOMORE.                                          *)
PassReturn ==
  Gone /\ live' = live \ {pass.te} /\ UNCHANGED <<key, interval>>

(* Otherwise a timer for the next time is put in before te is removed.       *)
PassAgain(n) ==
  Gone /\ live' = (live \cup {n}) \ {pass.te} /\ Made(n, interval[pass.te])

PassEnd ==
  /\ pass.pc = "walk" /\ ~Due(pass.te, pass.now)
  /\ pass' = Idle
  /\ UNCHANGED <<key, interval, time, live, owed>>

TimePasses ==
  /\ time < MaxTime
  /\ time' = time + 1
  /\ UNCHANGED <<key, interval, pass, live, owed>>

----------------------------------------------------------------------------
(* The answers of an ordered set.                                            *)
Earliest(S) ==
  IF S = {} THEN NULL ELSE CHOOSE n \in S : \A m \in S : key[n] =< key[m]
After(n) == Earliest({m \in live : key[m] > key[n]})

TimerNext ==
  \/ \E n \in Unused, tv \in Intervals : aeCreateTimeEvent(n, tv)
  \/ PassBegin(Earliest(live)) \/ PassCall(After(pass.te))
  \/ PassReturn \/ \E n \in Unused : PassAgain(n)
  \/ PassEnd \/ TimePasses

TimerSpec == TimerInit /\ [][TimerNext]_timerVars

----------------------------------------------------------------------------
(* Callbacks that make timers, and timers that make themselves again, do not *)
(* mislead the walk: it stays on timers that are there, and every timer that *)
(* was due when the pass began runs in this pass, the earlier first, so that *)
(* none is owed when it ends.                                                *)
DueTimersRun ==
  /\ {pass.te, pass.next} \subseteq live \cup {NULL}
  /\ pass.pc = "idle" => owed = {}
  /\ owed # {} => /\ pass.te # NULL
                  /\ \A n \in owed : key[pass.te] =< key[n]
=============================================================================
