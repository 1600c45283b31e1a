----------------------------- MODULE MCLibrary -----------------------------
(* The sequential parts, each on its own under every sequence of the calls   *)
(* its users may make: the trees, the timers of cnm's event loop, nsqd's     *)
(* heap and its numbers, and a connection of the ssdb server.  Which one     *)
(* runs is chosen in the initial state.                                      *)
EXTENDS Trees, EventLoop, InFlightQueue, Guid, Link

CONSTANT N   \* nodes of a tree

(* tree is the tree that is used, held the nodes its user has put in.        *)
VARIABLES lib, tree, held
treeVars == <<tree, held>>
vars == <<lib, treeVars, loopVars, pqVars, guidVars, linkVars>>

Nodes == 1..N
Distinct == [n \in Nodes |-> n]
Paired == [n \in Nodes |-> (n + 1) \div 2]   \* equal keys are allowed

(* A node that is out of the tree; the code leaves its pointers as they are, *)
(* and sets them when it is inserted again.                                  *)
Freed(t, n) == [t EXCEPT !.L[n] = Null, !.R[n] = Null, !.par[n] = Null, !.red[n] = FALSE]
(* The local variable of SPLAY() is gone.                                    *)
Returned(t) == [t EXCEPT !.L[Dummy] = Null, !.R[Dummy] = Null]

TreeInit(l) ==
  /\ held = {}
  /\ tree = CASE l = "rb" -> EmptyTree(Nodes, Distinct)
              [] l = "splay" -> EmptyTree(Nodes \cup {Dummy}, Distinct)
              [] l = "bst" -> EmptyTree(Nodes, Paired)
              [] OTHER -> btree_create

RedBlackTree(n) ==
  \/ tree' = RB_INSERT(tree, n) /\ held' = held \cup {n}
  \/ n \in held /\ tree' = Freed(RB_REMOVE(tree, n), n) /\ held' = held \ {n}

SplayTree(n) ==
  \/ tree' = Returned(SPLAY_INSERT(tree, n)) /\ held' = held \cup {n}
  \/ n \in held /\ tree' = Returned(Freed(SPLAY_REMOVE(tree, n), n)) /\ held' = held \ {n}
  \/ /\ tree.root # Null
     /\ \E s \in {"L", "R"} : tree' = Returned(SPLAY_MINMAX(tree, s))
     /\ UNCHANGED held

BinaryTree(n) ==
  \/ n \notin held /\ tree' = tree_insert(tree, n) /\ held' = held \cup {n}
  \/ LET p == tree_search(tree, tree.root, Paired[n]) IN
       p # Null /\ tree' = Freed(tree_delete(tree, p), p) /\ held' = held \ {p}

BTree(n) ==
  n \notin held /\ tree' = btree_insert(tree, Paired[n]) /\ held' = held \cup {n}

TreeNext ==
  \E n \in Nodes :
    \/ lib = "rb" /\ RedBlackTree(n)
    \/ lib = "splay" /\ SplayTree(n)
    \/ lib = "bst" /\ BinaryTree(n)
    \/ lib = "btree" /\ BTree(n)

(* Times of the messages of the heap: two of them have the same.             *)
Halves == [x \in Messages |-> x \div 2]

(* What clients send over a connection: keys and values that look like parts *)
(* of the protocols, in ssdb's protocol and in redis', with both line ends.  *)
K == <<"LF">>
V == <<"*", "1", "CR", "LF">>
Long == <<"a", "b", "c", "d", "e", "f", "g", "h", "i", "j", "k">>
Get == <<(<<"GET">>), K>>
Set == <<(<<"SET">>), K, V>>
Del == <<(<<"del">>), K>>
HSet(v) == <<(<<"hset">>), K, V, v>>
HGet == <<(<<"hget">>), K, V>>
Redis(a) == [form |-> "redis", eol |-> CRLF, args |-> a]
RedisLF(a) == [form |-> "redis", eol |-> <<"LF">>, args |-> a]
Native(a) == [form |-> "native", eol |-> <<"LF">>, args |-> a]
NativeCR(a) == [form |-> "native", eol |-> CRLF, args |-> a]
Asked == {Get, Set, HSet(K), HGet, <<(<<"ping">>)>>, <<(<<"get">>)>>,
          <<(<<"set">>), <<>>, Long>>, <<(<<"hset">>), <<>>, K, K>>}
AllScripts ==
  {<<Redis(a), b>> : a \in Asked, b \in {Redis(x) : x \in Asked} \cup {Native(x) : x \in Asked}}
  \cup {<<Native(a), RedisLF(b)>> : a \in Asked, b \in {Get, HGet}}
  \cup {<<NativeCR(a), Native(b)>> : a \in Asked, b \in {Set, Del}}
  \cup {<<Redis(Set), Redis(a), Redis(Get)>> : a \in {Del, <<(<<"set">>), <<>>, Long>>}}
  \cup {<<Redis(HSet(K)), Redis(HSet(<<>>)), Redis(HGet)>>}

Libraries == {"rb", "splay", "bst", "btree", "timers", "pqueue", "guid", "link"}

Init ==
  /\ lib \in Libraries
  /\ TreeInit(lib) /\ LoopInit /\ newInFlightPqueue /\ NewGUIDFactory
  /\ IF lib = "link" THEN LinkInit
     ELSE script = <<>> /\ wire = <<>> /\ arrived = <<>> /\ link = newLink /\ store = NoStore

Next ==
  /\ UNCHANGED lib
  /\ \/ TreeNext /\ UNCHANGED <<loopVars, pqVars, guidVars, linkVars>>
     \/ lib = "timers" /\ LoopNext /\ UNCHANGED <<treeVars, pqVars, guidVars, linkVars>>
     \/ lib = "pqueue" /\ PQNext /\ UNCHANGED <<treeVars, loopVars, guidVars, linkVars>>
     \/ lib = "guid" /\ GuidNext /\ UNCHANGED <<treeVars, loopVars, pqVars, linkVars>>
     \/ lib = "link" /\ LinkNext /\ UNCHANGED <<treeVars, loopVars, pqVars, guidVars>>

Spec == Init /\ [][Next]_vars

----------------------------------------------------------------------------
(* RB_INSERT and RB_REMOVE keep the tree a search tree of exactly the nodes  *)
(* put in, with the same number of black nodes on every path, no red node    *)
(* under a red one and right parent pointers, and RB_NEXT visits all nodes.  *)
RedBlackKept ==
  lib = "rb" =>
    /\ SearchTree(tree, held) /\ ParentsRight(tree, held) /\ RedBlack(tree, held)
    /\ LET w == Walk(tree, tree.root) IN
       /\ RB_MINMAX(tree, "L") = (IF w = <<>> THEN Null ELSE Head(w))
       /\ \A i \in DOMAIN w : RB_NEXT(tree, w[i]) = (IF i = Len(w) THEN Null ELSE w[i + 1])

(* SPLAY, with the insertions and removals built on it, turns the tree over  *)
(* without losing a node, doubling one or putting one out of order.          *)
SplayKept == lib = "splay" => SearchTree(tree, held)

(* tree_delete(), with equal keys in the tree too, keeps the other nodes in  *)
(* order and their parents right.                                            *)
BinaryTreeKept == lib = "bst" => SearchTree(tree, held) /\ ParentsRight(tree, held)

(* Splits keep a B-tree sorted, of one depth and with every node but the     *)
(* root at least half full; a search finds exactly the keys that are in it,  *)
(* whatever is in the unset keys[0] as long as it is smaller than the key.   *)
BTreeKept ==
  lib = "btree" =>
    /\ Sorted(print_btree(tree)) /\ Len(print_btree(tree)) = Cardinality(held)
    /\ Cardinality(Depths(tree)) = 1 /\ Filled(tree, 0)
    /\ \A k \in 1..N, junk \in 0..N :
         k > junk => btree_search(tree, k, junk)
                     = (IF \E n \in held : Paired[n] = k THEN "found" ELSE "missing")

(* Each of the four kinds of trees, and the tree of the timers, stays what   *)
(* it should be under every sequence of insertions, removals and look-ups.   *)
TreesKept == RedBlackKept /\ SplayKept /\ BinaryTreeKept /\ BTreeKept /\ TimerTreeKept
=============================================================================
