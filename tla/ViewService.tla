---------------------------- MODULE ViewService ----------------------------
(***************************************************************************)
(* The view service of 6.824/src/viewservice, with the processes that ping *)
(* it: the p/b servers, which ping under their own name and keep the view  *)
(* they are told, and the p/b clerks, whose updateView() pings too, under  *)
(* the empty name they are made with.                                      *)
(*                                                                         *)
(* The code keeps the tick of the last ping of the primary and of the      *)
(* backup and compares its distance from the current tick with DeadPings;  *)
(* the model keeps the distances, which stop counting at DeadPings.        *)
(*                                                                         *)
(* A Ping() is executed and answered in one step (a process that waits for *)
(* the answer does nothing else), or fails; the request of a failed call   *)
(* stays in late and may be executed at any later moment, or never.        *)
(***************************************************************************)
EXTENDS Naturals, FiniteSets

CONSTANTS Server,     \* p/b servers
          Clerk,      \* p/b clerks
          NoServer,   \* the empty name
          DeadPings   \* missed pings after which a server is declared dead

ASSUME NamesAssumption == NoServer \notin Server /\ Clerk \cap Server = {}
ASSUME DeadPingsAssumption == DeadPings \in Nat \ {0}

VARIABLES view,          \* vs.view
          primaryAcked,  \* vs.primaryAcked
          primaryAge,    \* vs.currentTick - vs.primaryTick
          backupAge,     \* vs.currentTick - vs.backupTick
          known,         \* known[c]: pb.view of a server, ck.view of a clerk
          late,          \* requests of failed Ping() calls, still on their way
          views,         \* history: the views there have been
          told           \* history: the numbers whose view its primary was told

vsVars == <<view, primaryAcked, primaryAge, backupAge>>
vars == <<view, primaryAcked, primaryAge, backupAge, known, late, views, told>>

Client == Server \cup Clerk

\* The name a process pings under.
Me(c) == IF c \in Server THEN c ELSE NoServer

Name == Server \cup {NoServer}

View == [num : Nat, primary : Name, backup : Name]

\* The view before any ping; also what a p/b server has when a Ping() fails.
NoView == [num |-> 0, primary |-> NoServer, backup |-> NoServer]

Age == 0..DeadPings

TypeOK ==
    /\ view \in View
    /\ primaryAcked \in Nat
    /\ primaryAge \in Age
    /\ backupAge \in Age
    /\ known \in [Client -> View]
    /\ late \subseteq [me : Name, num : Nat]
    /\ views \subseteq View
    /\ told \subseteq Nat

Init ==
    /\ view = NoView
    /\ primaryAcked = 0
    /\ primaryAge = 0
    /\ backupAge = 0
    /\ known = [c \in Client |-> NoView]
    /\ late = {}
    /\ views = {NoView}
    /\ told = {}

HasPrimary == view.primary # NoServer

HasBackup == view.backup # NoServer

Acked == primaryAcked = view.num

----------------------------------------------------------------------------
(* The cases of the Ping() handler, in the order the code tries them. *)

First == view.num = 0 /\ ~HasPrimary

\* Mutant: the backup takes over under the same number.
PromoteSameNumber(bAge) ==
    /\ view' = [num |-> view.num, primary |-> view.backup, backup |-> NoServer]
    /\ primaryAcked' = 0
    /\ primaryAge' = bAge

\* The backup, if any, takes over; the new primary has acknowledged nothing.
Promote(bAge) ==
    /\ view' = [num |-> view.num + 1, primary |-> view.backup, backup |-> NoServer]
    /\ primaryAcked' = 0
    /\ primaryAge' = bAge

\* Mutant: a ping fills the place of the primary whenever it is empty.
FirstPingAnyView(me, num) ==
    /\ ~HasPrimary
    /\ view' = [view EXCEPT !.num = @ + 1, !.primary = me]
    /\ primaryAcked' = 0
    /\ primaryAge' = 0
    /\ UNCHANGED backupAge

FirstPing(me, num) ==
    /\ First
    /\ view' = [view EXCEPT !.num = 1, !.primary = me]
    /\ primaryAcked' = 0
    /\ primaryAge' = 0
    /\ UNCHANGED backupAge

\* The primary has restarted: its backup takes over.
RestartedPrimaryPing(me, num) ==
    /\ ~First /\ view.primary = me /\ num = 0
    /\ IF HasBackup THEN Promote(backupAge)
                    ELSE UNCHANGED <<view, primaryAcked, primaryAge>>
    /\ UNCHANGED backupAge

PrimaryPing(me, num) ==
    /\ ~First /\ view.primary = me /\ num # 0
    /\ primaryAcked' = num
    /\ primaryAge' = 0
    /\ UNCHANGED <<view, backupAge>>

\* Mutant: a volunteer does not wait for the acknowledgement.
VolunteerPingUnacked(me, num) ==
    /\ ~First /\ view.primary # me
    /\ ~HasBackup
    /\ view' = [view EXCEPT !.num = @ + 1, !.backup = me]
    /\ backupAge' = 0
    /\ UNCHANGED <<primaryAcked, primaryAge>>

\* A new server becomes the backup.
VolunteerPing(me, num) ==
    /\ ~First /\ view.primary # me
    /\ ~HasBackup /\ Acked
    /\ view' = [view EXCEPT !.num = @ + 1, !.backup = me]
    /\ backupAge' = 0
    /\ UNCHANGED <<primaryAcked, primaryAge>>

\* Mutant: the backup's ping counts as the acknowledgement of the view.
BackupPingAcks(me, num) ==
    /\ ~First /\ view.primary # me
    /\ HasBackup \/ ~Acked
    /\ view.backup = me
    /\ backupAge' = 0
    /\ primaryAcked' = num
    /\ UNCHANGED <<view, primaryAge>>

BackupPing(me, num) ==
    /\ ~First /\ view.primary # me
    /\ HasBackup \/ ~Acked
    /\ view.backup = me
    /\ backupAge' = 0
    /\ view' = [view EXCEPT !.num = IF num = 0 /\ Acked THEN @ + 1 ELSE @]
    /\ UNCHANGED <<primaryAcked, primaryAge>>

IdlePing(me, num) ==
    /\ ~First /\ me \notin {view.primary, view.backup}
    /\ HasBackup \/ ~Acked
    /\ UNCHANGED vsVars

HandlePing(me, num) ==
    /\ \/ FirstPing(me, num) \/ RestartedPrimaryPing(me, num)
       \/ PrimaryPing(me, num) \/ VolunteerPing(me, num)
       \/ BackupPing(me, num) \/ IdlePing(me, num)
    /\ views' = views \cup {view'}

----------------------------------------------------------------------------

\* The process pings and takes the view it is told.
Ping(c) ==
    /\ HandlePing(Me(c), known[c].num)
    /\ known' = [known EXCEPT ![c] = view']
    /\ told' = IF view'.primary = Me(c) THEN told \cup {view'.num} ELSE told
    /\ UNCHANGED late

\* The call fails.  tick() of a server ignores the error and takes the empty
\* view that comes with it, updateView() of a clerk keeps the view it had.
PingFails(c) ==
    /\ late' = late \cup {[me |-> Me(c), num |-> known[c].num]}
    /\ known' = [known EXCEPT ![c] = IF c \in Server THEN NoView ELSE @]
    /\ UNCHANGED <<view, primaryAcked, primaryAge, backupAge, views, told>>

\* The request of a failed call is executed after all.
LatePing(m) ==
    /\ HandlePing(m.me, m.num)
    /\ late' = late \ {m}
    /\ UNCHANGED <<known, told>>

\* A p/b server dies and is started again under its name.
Restart(s) ==
    /\ known' = [known EXCEPT ![s] = NoView]
    /\ UNCHANGED <<view, primaryAcked, primaryAge, backupAge, late, views, told>>

\* A distance that has reached DeadPings counts no further.
Older(age) == IF age = DeadPings THEN age ELSE age + 1

PrimaryDead == Older(primaryAge) = DeadPings /\ Acked

BackupDead == HasBackup /\ Older(backupAge) = DeadPings /\ Acked

\* tick(): after a promotion there is no backup left to declare dead.
tick ==
    /\ \/ PrimaryDead /\ Promote(Older(backupAge))
       \/ /\ ~PrimaryDead /\ BackupDead
          /\ view' = [view EXCEPT !.num = @ + 1, !.backup = NoServer]
          /\ primaryAge' = Older(primaryAge)
          /\ UNCHANGED primaryAcked
       \/ /\ ~PrimaryDead /\ ~BackupDead
          /\ primaryAge' = Older(primaryAge)
          /\ UNCHANGED <<view, primaryAcked>>
    /\ backupAge' = Older(backupAge)
    /\ views' = views \cup {view'}
    /\ UNCHANGED <<known, late, told>>

Next == \/ \E c \in Client : Ping(c) \/ PingFails(c)
        \/ \E m \in late : LatePing(m)
        \/ \E s \in Server : Restart(s)
        \/ tick

Spec == Init /\ [][Next]_vars

----------------------------------------------------------------------------
(* Properties. *)

\* A view number stands for one view: two processes that were told the same
\* number were told the same primary and the same backup, so two servers that
\* both take themselves for the primary do so under different numbers.
OneViewPerNumber ==
    \A c, d \in Client : known[c].num = known[d].num => known[c] = known[d]

\* When the service takes the current view for acknowledged, the primary of
\* this very view has been told of it: neither a ping of another server nor a
\* late one from an earlier view can pass for the acknowledgement.
AckMeansTold == Acked /\ view.num # 0 => view.num \in told

\* No server is its own backup.
BackupIsAnother == HasBackup => view.backup # view.primary

\* "The primary in a view is always either the primary or the backup of the
\* previous view" (common.go:14), and the views are numbered one by one.
PrimaryFromPreviousView ==
    [][view' # view => /\ view'.num = view.num + 1
                       /\ view.num # 0 => view'.primary \in {view.primary, view.backup}
      ]_vars

\* "The view server will not proceed to a new view until the primary from the
\* current view acknowledges" (common.go:29): a view whose primary has not even
\* been told of it is left in one way only, by its backup taking over, which a
\* ping 0 of the primary brings about (Ping(), server.go:68).  Late pings, dead
\* servers and volunteers never do it.
LeftOnlyWhenTold ==
    [][view' # view /\ view.num # 0 /\ view.num \notin told =>
          /\ HasBackup
          /\ view'.primary = view.backup /\ view'.backup = NoServer
      ]_vars

----------------------------------------------------------------------------
(* The inductive invariant. *)

\* The numbers of the views there have been are distinct and not above the
\* current one, and every process knows one of them.
ViewsInv ==
    /\ view \in views /\ NoView \in views
    /\ \A v \in views : v.num <= view.num
    /\ \A v, w \in views : v.num = w.num => v = w
    /\ \A c \in Client : known[c] \in views

\* A ping that may acknowledge a view was sent by a primary told of the view.
ToldInv ==
    /\ \A c \in Client :
        known[c].num # 0 /\ known[c].primary = Me(c) => known[c].num \in told
    /\ \A m \in late : m.num <= view.num
    /\ \A m \in late, v \in views :
        m.num # 0 /\ v.num = m.num /\ v.primary = m.me => m.num \in told

Inv == ViewsInv /\ ToldInv /\ AckMeansTold /\ BackupIsAnother
=============================================================================
