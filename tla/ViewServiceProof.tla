------------------------- MODULE ViewServiceProof -------------------------
(* Proofs about ViewService, for any servers, clerks and DeadPings. *)
EXTENDS ViewService, TLAPS

----------------------------------------------------------------------------
(* What a step may do to the view server: keep the view, where only a ping of *)
(* the primary changes primaryAcked, or go to the next view.                  *)

Stay(me, num) ==
    /\ view' = view
    /\ primaryAcked' # primaryAcked => me = view.primary /\ num # 0 /\ primaryAcked' = num

TakesOver == HasBackup /\ view'.primary = view.backup /\ view'.backup = NoServer

Move ==
    /\ view' \in View /\ view'.num = view.num + 1
    /\ primaryAcked' \in Nat /\ primaryAcked' # view'.num
    /\ view.num # 0 => view'.primary \in {view.primary, view.backup}
    /\ view'.backup # NoServer => view'.backup # view'.primary
    /\ view.num # 0 => Acked \/ TakesOver

ServerTypes == view' \in View /\ primaryAcked' \in Nat /\ primaryAge' \in Age /\ backupAge' \in Age

\* Ages stay in their range.
LEMMA AgeTypes ==
  /\ 0 \in Age
  /\ \A a \in Age : Older(a) \in Age
  BY DeadPingsAssumption DEF Age, Older

\* The backup becomes the primary: the next view, after an acknowledgement or
\* with a backup that takes over.
LEMMA PromoteStep ==
  ASSUME TypeOK, NEW a \in Age, Promote(a), Acked \/ HasBackup
  PROVE  Move /\ primaryAge' \in Age
  BY DEF TypeOK, Promote, Move, TakesOver, View, Name

\* A new backup leaves the primary as it is.
LEMMA NextView ==
  ASSUME NEW v \in View, NEW b \in Name
  PROVE  /\ [v EXCEPT !.num = @ + 1, !.backup = b]
              = [num |-> v.num + 1, primary |-> v.primary, backup |-> b]
         /\ v.num + 1 \in Nat /\ v.primary \in Name
<1>1. v.num \in Nat /\ v.num + 1 \in Nat /\ v.primary \in Name
  BY DEF View
<1>2. PICK w : w = [v EXCEPT !.num = @ + 1, !.backup = b]
  OBVIOUS
<1>3. w = [num |-> v.num + 1, primary |-> v.primary, backup |-> b]
  BY <1>1, <1>2 DEF View
<1>4. QED
  BY <1>1, <1>2, <1>3

\* View 0 is the empty view.
LEMMA EmptyView == TypeOK /\ ViewsInv /\ view.num = 0 => view = NoView
  BY DEF ViewsInv, NoView

\* A ping leaves the view or moves to the next one.
LEMMA HandleStep ==
  ASSUME TypeOK, Inv, NEW me \in Name, NEW num \in Nat, HandlePing(me, num)
  PROVE  /\ ServerTypes /\ views' = views \cup {view'}
         /\ Stay(me, num) \/ Move
<1>0. /\ views' = views \cup {view'} /\ view \in View /\ view.num \in Nat
      /\ primaryAcked \in Nat /\ primaryAge \in Age /\ backupAge \in Age /\ 0 \in Age
  BY AgeTypes DEF HandlePing, TypeOK, View
<1>1. CASE FirstPing(me, num)
  <2>1. view = NoView
    BY <1>1, EmptyView DEF FirstPing, First, Inv
  <2>2. view' = [num |-> 1, primary |-> me, backup |-> NoServer] /\ primaryAcked' = 0
    BY <1>1, <2>1 DEF FirstPing, NoView
  <2>3. Move
    BY <2>1, <2>2 DEF Move, View, Name, NoView
  <2>4. QED
    BY <1>0, <1>1, <2>3 DEF FirstPing, ServerTypes, Move
<1>2. CASE RestartedPrimaryPing(me, num)
  <2>1. CASE HasBackup
    <3>1. Promote(backupAge) /\ backupAge' = backupAge
      BY <1>2, <2>1 DEF RestartedPrimaryPing
    <3>2. Move /\ primaryAge' \in Age
      BY <1>0, <2>1, <3>1, PromoteStep
    <3>3. QED
      BY <1>0, <3>1, <3>2 DEF ServerTypes, Move
  <2>2. CASE ~HasBackup
    BY <1>0, <1>2, <2>2 DEF RestartedPrimaryPing, ServerTypes, Stay
  <2>3. QED
    BY <2>1, <2>2
<1>3. CASE PrimaryPing(me, num)
  BY <1>0, <1>3 DEF PrimaryPing, ServerTypes, Stay
<1>4. CASE VolunteerPing(me, num)
  <2>1. /\ view' \in View /\ view'.num = view.num + 1 /\ view'.primary = view.primary
        /\ view'.backup = me
    <3>1. view' = [num |-> view.num + 1, primary |-> view.primary, backup |-> me]
      BY <1>0, <1>4, NextView DEF VolunteerPing
    <3>2. QED
      BY <1>0, <3>1, NextView DEF View
  <2>2. Move
    BY <1>0, <1>4, <2>1 DEF Move, VolunteerPing, Acked
  <2>3. QED
    BY <1>0, <1>4, <2>1, <2>2 DEF VolunteerPing, ServerTypes
<1>5. CASE BackupPing(me, num)
  <2>1. CASE num = 0 /\ Acked
    <3>1. /\ view' \in View /\ view'.num = view.num + 1 /\ view'.primary = view.primary
          /\ view'.backup = view.backup
      BY <1>0, <1>5, <2>1 DEF BackupPing, View
    <3>2. Move
      BY <1>0, <1>5, <2>1, <3>1 DEF Move, BackupPing, Acked
    <3>3. QED
      BY <1>0, <1>5, <3>1, <3>2 DEF BackupPing, ServerTypes
  <2>2. CASE ~(num = 0 /\ Acked)
    <3>1. view' = view
      BY <1>0, <1>5, <2>2 DEF BackupPing, View
    <3>2. QED
      BY <1>0, <1>5, <3>1 DEF BackupPing, ServerTypes, Stay
  <2>3. QED
    BY <2>1, <2>2
<1>6. CASE IdlePing(me, num)
  BY <1>0, <1>6 DEF IdlePing, vsVars, ServerTypes, Stay
<1>7. QED
  BY <1>1, <1>2, <1>3, <1>4, <1>5, <1>6 DEF HandlePing

\* So does a tick.
LEMMA TickStep ==
  ASSUME TypeOK, Inv, tick
  PROVE  /\ ServerTypes /\ views' = views \cup {view'}
         /\ Stay(NoServer, 0) \/ Move
<1>0. /\ views' = views \cup {view'} /\ view \in View /\ view.num \in Nat
      /\ primaryAcked \in Nat /\ backupAge' = Older(backupAge)
      /\ Older(primaryAge) \in Age /\ Older(backupAge) \in Age
  BY AgeTypes DEF tick, TypeOK, View
<1>1. CASE PrimaryDead
  <2>1. Promote(Older(backupAge))
    BY <1>1 DEF tick
  <2>2. Move /\ primaryAge' \in Age
    BY <1>0, <1>1, <2>1, PromoteStep DEF PrimaryDead
  <2>3. QED
    BY <1>0, <2>2 DEF ServerTypes, Move
<1>2. CASE ~PrimaryDead /\ BackupDead
  <2>1. /\ view' \in View /\ view'.num = view.num + 1 /\ view'.primary = view.primary
        /\ view'.backup = NoServer
    <3>1. NoServer \in Name
      BY DEF Name
    <3>2. view' = [num |-> view.num + 1, primary |-> view.primary, backup |-> NoServer]
      BY <1>0, <1>2, <3>1, NextView DEF tick
    <3>3. QED
      BY <1>0, <3>1, <3>2, NextView DEF View
  <2>2. Move
    BY <1>0, <1>2, <2>1 DEF Move, tick, BackupDead, Acked
  <2>3. QED
    BY <1>0, <1>2, <2>1, <2>2 DEF tick, ServerTypes
<1>3. CASE ~PrimaryDead /\ ~BackupDead
  BY <1>0, <1>3 DEF tick, ServerTypes, Stay
<1>4. QED
  BY <1>1, <1>2, <1>3

----------------------------------------------------------------------------
(* The parts of the invariant that depend on the view server alone. *)

ServerInv ==
    /\ view \in views /\ NoView \in views
    /\ \A v \in views : v.num <= view.num
    /\ \A v, w \in views : v.num = w.num => v = w
    /\ BackupIsAnother

\* Either keeps what is said of the service.
LEMMA ServerStep ==
  ASSUME TypeOK, Inv, NEW me, NEW num, ServerTypes, views' = views \cup {view'},
         Stay(me, num) \/ Move
  PROVE  ServerInv' /\ views' \subseteq View
<1>0. /\ views \subseteq View /\ view \in views /\ NoView \in views
      /\ \A v \in views : v.num <= view.num
      /\ \A v, w \in views : v.num = w.num => v = w
      /\ BackupIsAnother /\ view' \in View
  BY DEF TypeOK, Inv, ViewsInv, ServerTypes
<1>1. CASE Stay(me, num)
  <2>1. view' = view /\ views' = views
    BY <1>0, <1>1 DEF Stay
  <2>2. QED
    BY <1>0, <2>1 DEF ServerInv, BackupIsAnother, HasBackup
<1>2. CASE Move
  <2>1. \A v \in views : v.num \in Nat /\ v.num < view'.num
    BY <1>0, <1>2 DEF Move, View
  <2>2. view'.num \in Nat
    BY <1>0 DEF View
  <2>3. \A v \in views' : v.num <= view'.num
    BY <2>1, <2>2
  <2>4. \A v, w \in views' : v.num = w.num => v = w
    BY <1>0, <2>1, <2>2
  <2>5. BackupIsAnother'
    BY <1>2 DEF Move, BackupIsAnother, HasBackup
  <2>6. QED
    BY <1>0, <2>3, <2>4, <2>5 DEF ServerInv
<1>3. QED
  BY <1>1, <1>2

\* An acknowledgement that a ping of the current primary brings is its own.
LEMMA AckStep ==
  ASSUME TypeOK, Inv, NEW me \in Name, NEW num \in Nat, Stay(me, num) \/ Move,
         told \subseteq told', view' \in View,
         me = view.primary /\ num # 0 /\ num = view.num => num \in told
  PROVE  AckMeansTold'
<1>1. CASE Move
  BY <1>1 DEF Move, AckMeansTold, Acked
<1>2. CASE Stay(me, num)
  BY <1>2 DEF Stay, AckMeansTold, Acked, Inv
<1>3. QED
  BY <1>1, <1>2

\* A new view has a number that no ping on its way carries.
LateInv ==
    /\ \A m \in late : m.num <= view.num
    /\ \A m \in late, v \in views :
        m.num # 0 /\ v.num = m.num /\ v.primary = m.me => m.num \in told

\* Either keeps what is said of late pings.
LEMMA LateStep ==
  ASSUME TypeOK, Inv, NEW me, NEW num, Stay(me, num) \/ Move,
         views' = views \cup {view'}, told \subseteq told', late' \subseteq late
  PROVE  LateInv'
<1>0. /\ view.num \in Nat /\ view \in views
      /\ \A m \in late : m.num \in Nat /\ m.num <= view.num
      /\ \A m \in late, v \in views :
            m.num # 0 /\ v.num = m.num /\ v.primary = m.me => m.num \in told
  BY DEF TypeOK, View, Inv, ViewsInv, ToldInv
<1>1. CASE Stay(me, num)
  BY <1>0, <1>1 DEF Stay, LateInv
<1>2. CASE Move
  <2>1. \A m \in late' : m.num <= view'.num /\ m.num # view'.num
    BY <1>0, <1>2 DEF Move
  <2>2. QED
    BY <1>0, <2>1 DEF LateInv
<1>3. QED
  BY <1>1, <1>2

----------------------------------------------------------------------------
(* The invariant is inductive: one lemma per action. *)

\* A ping that is answered keeps the invariant.
LEMMA PingStep ==
  ASSUME TypeOK, Inv, NEW c \in Client, Ping(c)
  PROVE  TypeOK' /\ Inv'
<1>1. /\ Me(c) \in Name /\ known[c] \in View /\ known[c].num \in Nat
      /\ known[c] \in views
  BY DEF TypeOK, View, Me, Name, Inv, ViewsInv
<1>2. /\ ServerTypes /\ views' = views \cup {view'}
      /\ Stay(Me(c), known[c].num) \/ Move
  BY <1>1, HandleStep DEF Ping
<1>3. /\ known' = [known EXCEPT ![c] = view'] /\ late' = late /\ view' \in View
      /\ told' = IF view'.primary = Me(c) THEN told \cup {view'.num} ELSE told
  BY <1>2 DEF Ping, ServerTypes
<1>4. ServerInv' /\ views' \subseteq View
  BY <1>2, ServerStep
<1>5. told \subseteq told' /\ view'.num \in Nat
  BY <1>3 DEF View
<1>6. TypeOK'
  BY <1>2, <1>3, <1>4, <1>5 DEF TypeOK, ServerTypes
<1>7. ViewsInv'
  <2>1. \A d \in Client : known'[d] \in views'
    BY <1>2, <1>3 DEF TypeOK, Inv, ViewsInv
  <2>2. QED
    BY <1>4, <2>1 DEF ServerInv, ViewsInv
<1>8. ToldInv'
  <2>1. \A d \in Client : known'[d].num # 0 /\ known'[d].primary = Me(d)
                            => known'[d].num \in told'
    BY <1>3 DEF TypeOK, Inv, ToldInv
  <2>2. LateInv'
    BY <1>2, <1>3, <1>5, LateStep
  <2>3. QED
    BY <2>1, <2>2 DEF LateInv, ToldInv
<1>9. AckMeansTold'
  <2>1. Me(c) = view.primary /\ known[c].num # 0 /\ known[c].num = view.num
          => known[c].num \in told
    BY <1>1 DEF Inv, ViewsInv, ToldInv
  <2>2. QED
    BY <1>1, <1>2, <1>3, <1>5, <2>1, AckStep
<1>10. QED
  BY <1>4, <1>6, <1>7, <1>8, <1>9 DEF Inv, ServerInv

\* A late ping keeps the invariant.
LEMMA LatePingStep ==
  ASSUME TypeOK, Inv, NEW m \in late, LatePing(m)
  PROVE  TypeOK' /\ Inv'
<1>1. m.me \in Name /\ m.num \in Nat
  BY DEF TypeOK
<1>2. /\ ServerTypes /\ views' = views \cup {view'}
      /\ Stay(m.me, m.num) \/ Move
  BY <1>1, HandleStep DEF LatePing
<1>3. /\ UNCHANGED <<known, told>> /\ late' \subseteq late /\ view' \in View
  BY <1>2 DEF LatePing, ServerTypes
<1>4. ServerInv' /\ views' \subseteq View
  BY <1>2, ServerStep
<1>5. TypeOK'
  BY <1>2, <1>3, <1>4 DEF TypeOK, ServerTypes
<1>6. ViewsInv'
  BY <1>2, <1>3, <1>4 DEF ServerInv, Inv, ViewsInv
<1>7. ToldInv'
  <2>1. LateInv'
    BY <1>2, <1>3, LateStep
  <2>2. QED
    BY <1>3, <2>1 DEF LateInv, Inv, ToldInv
<1>8. AckMeansTold'
  <2>1. m.me = view.primary /\ m.num # 0 /\ m.num = view.num => m.num \in told
    BY DEF Inv, ViewsInv, ToldInv
  <2>2. QED
    BY <1>1, <1>2, <1>3, <2>1, AckStep
<1>9. QED
  BY <1>4, <1>5, <1>6, <1>7, <1>8 DEF Inv, ServerInv

\* A tick keeps the invariant.
LEMMA TickInv ==
  ASSUME TypeOK, Inv, tick
  PROVE  TypeOK' /\ Inv'
<1>1. NoServer \in Name /\ 0 \in Nat
  BY DEF Name
<1>2. /\ ServerTypes /\ views' = views \cup {view'}
      /\ Stay(NoServer, 0) \/ Move
  BY TickStep
<1>3. /\ UNCHANGED <<known, told, late>> /\ view' \in View
  BY <1>2 DEF tick, ServerTypes
<1>4. ServerInv' /\ views' \subseteq View
  BY <1>2, ServerStep
<1>5. TypeOK'
  BY <1>2, <1>3, <1>4 DEF TypeOK, ServerTypes
<1>6. ViewsInv'
  BY <1>2, <1>3, <1>4 DEF ServerInv, Inv, ViewsInv
<1>7. ToldInv'
  <2>1. LateInv'
    BY <1>2, <1>3, LateStep
  <2>2. QED
    BY <1>3, <2>1 DEF LateInv, Inv, ToldInv
<1>8. AckMeansTold'
  BY <1>1, <1>2, <1>3, AckStep
<1>9. QED
  BY <1>4, <1>5, <1>6, <1>7, <1>8 DEF Inv, ServerInv

\* The view server does not move; a process may lose its view and leave a ping.
LEMMA ForgetStep ==
  ASSUME TypeOK, Inv, NEW c \in Client,
         known' = [known EXCEPT ![c] = NoView] \/ known' = known,
         UNCHANGED <<view, primaryAcked, primaryAge, backupAge, views, told>>,
         late' \subseteq late \cup {[me |-> Me(c), num |-> known[c].num]}
  PROVE  TypeOK' /\ Inv'
<1>1. NoView \in View /\ NoView.num = 0 /\ Me(c) \in Name
  BY DEF NoView, View, Name, Me
<1>2. /\ known[c] \in View /\ known[c].num \in Nat /\ known[c] \in views
      /\ known[c].num <= view.num
  BY DEF TypeOK, View, Inv, ViewsInv
<1>3. TypeOK'
  BY <1>1, <1>2 DEF TypeOK
<1>4. \A d \in Client : known'[d] = known[d] \/ known'[d] = NoView
  BY DEF TypeOK
<1>5. ViewsInv'
  BY <1>4 DEF Inv, ViewsInv
<1>6. ToldInv'
  <2>1. \A d \in Client : known'[d].num # 0 /\ known'[d].primary = Me(d)
                            => known'[d].num \in told'
    BY <1>1, <1>4 DEF Inv, ToldInv
  <2>2. ASSUME NEW m \in late'
        PROVE  /\ m.num <= view'.num
               /\ \A v \in views' : m.num # 0 /\ v.num = m.num /\ v.primary = m.me
                                       => m.num \in told'
    <3>1. CASE m \in late
      BY <3>1 DEF Inv, ToldInv
    <3>2. CASE m.me = Me(c) /\ m.num = known[c].num
      <4>1. \A v \in views : v.num = known[c].num => v = known[c]
        BY <1>2 DEF Inv, ViewsInv
      <4>2. QED
        BY <1>2, <3>2, <4>1 DEF Inv, ToldInv
    <3>3. QED
      BY <3>1, <3>2
  <2>3. QED
    BY <2>1, <2>2 DEF ToldInv
<1>7. AckMeansTold' /\ BackupIsAnother'
  BY DEF Inv, AckMeansTold, Acked, BackupIsAnother, HasBackup
<1>8. QED
  BY <1>3, <1>5, <1>6, <1>7 DEF Inv

\* The invariant holds when the service starts.
LEMMA InvInit == Init => TypeOK /\ Inv
<1> SUFFICES ASSUME Init PROVE TypeOK /\ Inv
  OBVIOUS
<1>1. NoView \in View /\ NoView.num = 0 /\ NoView.backup = NoServer
  BY DEF NoView, View, Name
<1>2. TypeOK
  BY <1>1, AgeTypes DEF Init, TypeOK
<1>3. Inv
  BY <1>1 DEF Init, Inv, ViewsInv, ToldInv, AckMeansTold, BackupIsAnother, HasBackup
<1>4. QED
  BY <1>2, <1>3

\* Every step keeps the invariant.
LEMMA InvStep == TypeOK /\ Inv /\ [Next]_vars => TypeOK' /\ Inv'
<1> SUFFICES ASSUME TypeOK, Inv, [Next]_vars PROVE TypeOK' /\ Inv'
  OBVIOUS
<1>1. ASSUME NEW c \in Client, PingFails(c) PROVE TypeOK' /\ Inv'
  <2>1. known' = [known EXCEPT ![c] = NoView] \/ known' = known
    BY <1>1 DEF PingFails, TypeOK
  <2>2. QED
    BY <1>1, <2>1, ForgetStep DEF PingFails
<1>2. ASSUME NEW s \in Server, Restart(s) PROVE TypeOK' /\ Inv'
  BY <1>2, ForgetStep DEF Restart, Client
<1>3. CASE UNCHANGED vars
  BY <1>3 DEF vars, TypeOK, Inv, ViewsInv, ToldInv, AckMeansTold, Acked,
     BackupIsAnother, HasBackup
<1>4. QED
  BY <1>1, <1>2, <1>3, PingStep, LatePingStep, TickInv DEF Next

\* The invariant holds in every state the service reaches.
LEMMA Invariant == Spec => [](TypeOK /\ Inv)
  BY InvInit, InvStep, PTL DEF Spec

\* Every state has the declared types.
THEOREM TypeCorrect == Spec => []TypeOK
  BY Invariant, PTL

\* Two processes told the same view number were told the same view.
THEOREM OneViewPerNumberHolds == Spec => []OneViewPerNumber
<1>1. Inv => OneViewPerNumber
  BY DEF Inv, ViewsInv, OneViewPerNumber
<1>2. QED
  BY <1>1, Invariant, PTL

\* A view is taken for acknowledged only when its primary was told of it.
THEOREM AckMeansToldHolds == Spec => []AckMeansTold
<1>1. Inv => AckMeansTold
  BY DEF Inv
<1>2. QED
  BY <1>1, Invariant, PTL

\* No server is its own backup.
THEOREM BackupIsAnotherHolds == Spec => []BackupIsAnother
<1>1. Inv => BackupIsAnother
  BY DEF Inv
<1>2. QED
  BY <1>1, Invariant, PTL

\* A step that changes the view goes to the next one.
LEMMA ViewStep ==
  ASSUME TypeOK, Inv, [Next]_vars
  PROVE  view' = view \/ Move
<1>1. ASSUME NEW c \in Client, Ping(c)
      PROVE  Stay(Me(c), known[c].num) \/ Move
  <2>1. Me(c) \in Name /\ known[c].num \in Nat
    BY DEF TypeOK, View, Me, Name
  <2>2. QED
    BY <1>1, <2>1, HandleStep DEF Ping
<1>2. ASSUME NEW m \in late, LatePing(m)
      PROVE  Stay(m.me, m.num) \/ Move
  <2>1. m.me \in Name /\ m.num \in Nat
    BY DEF TypeOK
  <2>2. QED
    BY <1>2, <2>1, HandleStep DEF LatePing
<1>3. ASSUME tick PROVE Stay(NoServer, 0) \/ Move
  BY <1>3, TickStep
<1>4. CASE UNCHANGED vars
  BY <1>4 DEF vars
<1>5. QED
  BY <1>1, <1>2, <1>3, <1>4 DEF Next, PingFails, Restart, Stay

\* The views are numbered one by one, each with the primary or the backup of
\* the one before as its primary.
THEOREM PrimaryFromPreviousViewHolds == Spec => PrimaryFromPreviousView
<1>1. ASSUME TypeOK, Inv, [Next]_vars
      PROVE  [view' # view => /\ view'.num = view.num + 1
                              /\ view.num # 0 =>
                                    view'.primary \in {view.primary, view.backup}
             ]_vars
  BY <1>1, ViewStep DEF Move
<1>2. QED
  BY <1>1, Invariant, PTL DEF Spec, PrimaryFromPreviousView

\* A view whose primary was not told of it is left only when its backup takes
\* over after a ping 0 of the primary.
THEOREM LeftOnlyWhenToldHolds == Spec => LeftOnlyWhenTold
<1>1. ASSUME TypeOK, Inv, [Next]_vars
      PROVE  [view' # view /\ view.num # 0 /\ view.num \notin told =>
                /\ HasBackup
                /\ view'.primary = view.backup /\ view'.backup = NoServer
             ]_vars
  BY <1>1, ViewStep DEF Move, TakesOver, Inv, AckMeansTold
<1>2. QED
  BY <1>1, Invariant, PTL DEF Spec, LeftOnlyWhenTold

=============================================================================
