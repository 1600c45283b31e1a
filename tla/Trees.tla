------------------------------- MODULE Trees -------------------------------
(* The search trees of the repository: the red-black and splay trees of      *)
(* cnm/net/tree.h, the binary search tree of algorithm/tree.c, the B-tree of *)
(* algorithm/btree.c.  Operations are functions from tree to tree.           *)
(*                                                                           *)
(* A linked tree is a record of pointers: its root and, per node, L, R and   *)
(* (where the code has it) par and key.  0 is NULL.  What the code writes    *)
(* twice, for left and for right, is written once for a side s and the other. *)
EXTENDS Integers, Sequences, SequencesExt, FiniteSets, FiniteSetsExt

Null == 0
Other(s) == IF s = "L" THEN "R" ELSE "L"

EmptyTree(nodes, key) ==
  LET none == [n \in nodes |-> Null]
  IN [key |-> key, root |-> Null, L |-> none, R |-> none, par |-> none,
      red |-> [n \in nodes |-> FALSE]]

RECURSIVE Walk(_, _)
Walk(t, n) == IF n = Null THEN <<>> ELSE Walk(t, t.L[n]) \o <<n>> \o Walk(t, t.R[n])

RECURSIVE Furthest(_, _, _)
Furthest(t, n, s) == IF n = Null \/ t[s][n] = Null THEN n ELSE Furthest(t, t[s][n], s)

(* The child of p that is old, or the root, becomes new.                     *)
Replace(t, p, old, new) ==
  IF p = Null THEN [t EXCEPT !.root = new]
  ELSE [t EXCEPT ![IF t.L[p] = old THEN "L" ELSE "R"][p] = new]

SetParent(t, n, p) == IF n = Null THEN t ELSE [t EXCEPT !.par[n] = p]

IsRed(t, n) == n # Null /\ t.red[n]

RECURSIVE tree_search(_, _, _)
tree_search(t, n, key) ==
  IF n = Null THEN Null
  ELSE IF t.key[n] = key THEN n
  ELSE tree_search(t, IF key < t.key[n] THEN t.L[n] ELSE t.R[n], key)

(* The node under which k belongs, and the side.                             *)
RECURSIVE Place(_, _, _)
Place(t, n, k) ==
  LET s == IF t.key[k] < t.key[n] THEN "L" ELSE "R" IN
  IF t[s][n] = Null THEN <<n, s>> ELSE Place(t, t[s][n], k)

Successor(t, n) ==
  LET RECURSIVE Up(_, _)
      Up(x, y) == IF y # Null /\ x = t.R[y] THEN Up(y, t.par[y]) ELSE y
  IN IF t.R[n] # Null THEN Furthest(t, t.R[n], "L") ELSE Up(n, t.par[n])

----------------------------------------------------------------------------
(* tree.h: red-black trees.                                                  *)
\* Mutant: the parent of the child that changes sides is not updated.
RB_ROTATEKeepsParent(t, e, s) ==
  LET o == Other(s)  tmp == t[o][e]  p == t.par[e]
      t1 == [t EXCEPT ![o][e] = t[s][tmp]]
      t2 == [Replace(t1, p, e, tmp) EXCEPT !.par[tmp] = p]
  IN [t2 EXCEPT ![s][tmp] = e, !.par[e] = tmp]

(* RB_ROTATE_LEFT for s = "L", RB_ROTATE_RIGHT for s = "R".                  *)
RB_ROTATE(t, e, s) ==
  LET o == Other(s)  tmp == t[o][e]  p == t.par[e]
      t1 == SetParent([t EXCEPT ![o][e] = t[s][tmp]], t[s][tmp], e)
      t2 == [Replace(t1, p, e, tmp) EXCEPT !.par[tmp] = p]
  IN [t2 EXCEPT ![s][tmp] = e, !.par[e] = tmp]

RB_SET_BLACKRED(t, b, r) == [t EXCEPT !.red[b] = FALSE, !.red[r] = TRUE]

RECURSIVE RB_INSERT_COLOR(_, _)
RB_INSERT_COLOR(t, e) ==
  LET p == t.par[e] IN
  IF ~IsRed(t, p) THEN [t EXCEPT !.red[t.root] = FALSE]
  ELSE
    LET g == t.par[p]
        s == IF p = t.L[g] THEN "L" ELSE "R"
        uncle == t[Other(s)][g]
        inner == t[Other(s)][p] = e
        t1 == IF inner THEN RB_ROTATE(t, p, s) ELSE t
        top == IF inner THEN e ELSE p
    IN IF IsRed(t, uncle)
       THEN RB_INSERT_COLOR(RB_SET_BLACKRED([t EXCEPT !.red[uncle] = FALSE], p, g), g)
       ELSE RB_INSERT_COLOR(RB_ROTATE(RB_SET_BLACKRED(t1, top, g), g, Other(s)),
                            IF inner THEN p ELSE e)

RB_FIND(t, e) == tree_search(t, t.root, t.key[e])

RB_INSERT(t, e) ==
  IF RB_FIND(t, e) # Null THEN t
  ELSE IF t.root = Null
  THEN RB_INSERT_COLOR([t EXCEPT !.root = e, !.L[e] = Null, !.R[e] = Null,
                                 !.par[e] = Null, !.red[e] = TRUE], e)
  ELSE LET at == Place(t, t.root, e)
           t1 == [t EXCEPT !.L[e] = Null, !.R[e] = Null,
                           !.par[e] = at[1], !.red[e] = TRUE]
       IN RB_INSERT_COLOR([t1 EXCEPT ![at[2]][at[1]] = e], e)

(* e, which may be NULL, is a child of p with one black node too few.        *)
RECURSIVE RB_REMOVE_COLOR(_, _, _)
RB_REMOVE_COLOR(t, p, e) ==
  IF IsRed(t, e) \/ e = t.root
  THEN IF e = Null THEN t ELSE [t EXCEPT !.red[e] = FALSE]
  ELSE
    LET s == IF t.L[p] = e THEN "L" ELSE "R"
        o == Other(s)
        t1 == IF IsRed(t, t[o][p])
              THEN RB_ROTATE(RB_SET_BLACKRED(t, t[o][p], p), p, s) ELSE t
        sib == t1[o][p]
        near == t1[s][sib]
        t2 == IF IsRed(t1, t1[o][sib]) THEN t1
              ELSE RB_ROTATE([t1 EXCEPT !.red[near] = FALSE, !.red[sib] = TRUE], sib, o)
        top == t2[o][p]
        t3 == RB_ROTATE([t2 EXCEPT !.red[top] = t2.red[p], !.red[p] = FALSE,
                                   !.red[t2[o][top]] = FALSE], p, s)
    IN IF ~IsRed(t1, near) /\ ~IsRed(t1, t1[o][sib])
       THEN RB_REMOVE_COLOR([t1 EXCEPT !.red[sib] = TRUE], t1.par[p], p)
       ELSE [t3 EXCEPT !.red[t3.root] = FALSE]

(* Unlinks e, which has at most one child, and returns the tree, the parent  *)
(* and the child.                                                            *)
Unlink(t, e) ==
  LET child == IF t.L[e] = Null THEN t.R[e] ELSE t.L[e]  p == t.par[e]
  IN <<Replace(SetParent(t, child, p), p, e, child), p, child>>

RB_REMOVE(t, old) ==
  LET two == t.L[old] # Null /\ t.R[old] # Null
      e == IF two THEN Furthest(t, t.R[old], "L") ELSE old
      u == Unlink(t, e)
      \* e takes the place of old
      t1 == [u[1] EXCEPT !.L[e] = u[1].L[old], !.R[e] = u[1].R[old],
                         !.par[e] = u[1].par[old], !.red[e] = u[1].red[old]]
      t2 == Replace(t1, t1.par[old], old, e)
      t3 == SetParent(SetParent(t2, t2.L[old], e), t2.R[old], e)
      after == IF two THEN t3 ELSE u[1]
      parent == IF two /\ u[2] = old THEN e ELSE u[2]
  IN IF t.red[e] THEN after ELSE RB_REMOVE_COLOR(after, parent, u[3])

RB_MINMAX(t, s) == Furthest(t, t.root, s)
RB_NEXT(t, e) == Successor(t, e)

----------------------------------------------------------------------------
(* tree.h: splay trees.  Dummy is the local __node, under which the parts to *)
(* the right and to the left of the path are collected.                      *)
Dummy == -1

SPLAY_ROTATE(t, s) ==  \* ROTATE_RIGHT for s = "L": the child on side s goes up
  LET tmp == t[s][t.root]
  IN [t EXCEPT ![s][t.root] = t[Other(s)][tmp], ![Other(s)][tmp] = t.root, !.root = tmp]

(* hang.L is the rightmost node of the left part, hang.R the leftmost of the *)
(* right part; both are Dummy at first.                                      *)
SPLAY_ASSEMBLE(t, hang) ==
  LET t1 == [t EXCEPT !.R[hang.L] = t.L[t.root]]
      t2 == [t1 EXCEPT !.L[hang.R] = t1.R[t1.root]]
  IN [t2 EXCEPT !.L[t2.root] = t2.R[Dummy], !.R[t2.root] = t2.L[Dummy]]

(* The side of n on which the key k is.                                      *)
SideOf(t, n, k) == IF k < t.key[n] THEN "L" ELSE "R"

RECURSIVE SplayLoop(_, _, _)
SplayLoop(t, hang, k) ==
  LET s == SideOf(t, t.root, k)  o == Other(s) IN
  IF k = t.key[t.root] THEN SPLAY_ASSEMBLE(t, hang)
  ELSE IF t[s][t.root] = Null THEN SPLAY_ASSEMBLE(t, hang)
  ELSE
    LET zig == k # t.key[t[s][t.root]] /\ SideOf(t, t[s][t.root], k) = s
        t1 == IF zig THEN SPLAY_ROTATE(t, s) ELSE t
        \* LINKLEFT for s = "L": the root goes to the right part
        t2 == [t1 EXCEPT ![s][hang[o]] = t1.root]
        t3 == [t2 EXCEPT !.root = t2[s][t2.root]]
    IN IF zig /\ t1[s][t1.root] = Null THEN SPLAY_ASSEMBLE(t1, hang)
       ELSE SplayLoop(t3, [hang EXCEPT ![o] = t1.root], k)

SplayAt(t, k) ==
  SplayLoop([t EXCEPT !.L[Dummy] = Null, !.R[Dummy] = Null], [L |-> Dummy, R |-> Dummy], k)
SPLAY(t, e) == SplayAt(t, t.key[e])

(* Splays for a key below (s = "L") or above all keys.                       *)
SPLAY_MINMAX(t, s) ==
  LET keys == {t.key[n] : n \in DOMAIN t.key}
  IN SplayAt(t, IF s = "L" THEN Min(keys) - 1 ELSE Max(keys) + 1)

SPLAY_INSERT(t, e) ==
  IF t.root = Null THEN [t EXCEPT !.L[e] = Null, !.R[e] = Null, !.root = e]
  ELSE LET t1 == SPLAY(t, e)
           s == SideOf(t1, t1.root, t.key[e])
       IN IF t.key[e] = t.key[t1.root] THEN t1
          ELSE [t1 EXCEPT ![s][e] = t1[s][t1.root], ![Other(s)][e] = t1.root,
                          ![s][t1.root] = Null, !.root = e]

SPLAY_REMOVE(t, e) ==
  IF t.root = Null THEN t
  ELSE LET t1 == SPLAY(t, e)
           right == t1.R[t1.root]
           t2 == SPLAY([t1 EXCEPT !.root = t1.L[t1.root]], e)
       IN IF t.key[t1.root] # t.key[e] THEN t1
          ELSE IF t1.L[e] = Null THEN [t1 EXCEPT !.root = right]
          ELSE [t2 EXCEPT !.R[t2.root] = right]

----------------------------------------------------------------------------
(* tree.c.  Equal keys are allowed and go right.                             *)
tree_insert(t, n) ==
  LET t1 == [t EXCEPT !.L[n] = Null, !.R[n] = Null, !.par[n] = Null] IN
  IF t.root = Null THEN [t1 EXCEPT !.root = n]
  ELSE LET at == Place(t, t.root, n)
       IN [t1 EXCEPT ![at[2]][at[1]] = n, !.par[n] = at[1]]

transplant(t, u, v) == SetParent(Replace(t, t.par[u], u, v), v, t.par[u])

(* tree_delete() of the node p that tree_search() has found.                 *)
tree_delete(t, p) ==
  LET y == Furthest(t, t.R[p], "L")
      t0 == transplant(t, y, t.R[y])
      t1 == IF t.par[y] = p THEN t
            ELSE SetParent([t0 EXCEPT !.R[y] = t0.R[p]], t0.R[p], y)
      t2 == transplant(t1, p, y)
  IN IF t.L[p] = Null THEN transplant(t, p, t.R[p])
     ELSE IF t.R[p] = Null THEN transplant(t, p, t.L[p])
     ELSE SetParent([t2 EXCEPT !.L[y] = t2.L[p]], t2.L[p], y)

----------------------------------------------------------------------------
(* btree.c: a node is its leaf flag, its keys and its childs.                *)
CONSTANT MAX_NODE_KEY
ASSUME MaxNodeKeyAssumption == MAX_NODE_KEY \in Nat \ {0, 1}

btree_create == [leaf |-> TRUE, keys |-> <<>>, childs |-> <<>>]
Full(x) == Len(x.keys) = 2 * MAX_NODE_KEY - 1

btree_split_child(x, i) ==
  LET y == x.childs[i]  m == MAX_NODE_KEY
      half(a, b) == [leaf |-> y.leaf, keys |-> SubSeq(y.keys, a, b),
                     childs |-> IF y.leaf THEN <<>> ELSE SubSeq(y.childs, a, b + 1)]
  IN [x EXCEPT !.keys = InsertAt(@, i, y.keys[m]),
               !.childs = InsertAt([@ EXCEPT ![i] = half(1, m - 1)], i + 1, half(m + 1, 2 * m - 1))]

RECURSIVE btree_insert_nonfull(_, _)
btree_insert_nonfull(p, key) ==
  LET i == Len(SelectSeq(p.keys, LAMBDA k : k =< key)) + 1 IN
  IF p.leaf THEN [p EXCEPT !.keys = InsertAt(@, i, key)]
  ELSE LET split == Full(p.childs[i])
           q == IF split THEN btree_split_child(p, i) ELSE p
           j == IF split /\ key > q.keys[i] THEN i + 1 ELSE i
       IN [q EXCEPT !.childs[j] = btree_insert_nonfull(@, key)]

btree_insert(root, key) ==
  IF Full(root)
  THEN btree_insert_nonfull(
         btree_split_child([leaf |-> FALSE, keys |-> <<>>, childs |-> <<root>>], 1), key)
  ELSE btree_insert_nonfull(root, key)

(* Keys are kept from index 1, but the search starts at keys[0], which is    *)
(* whatever malloc() returned: junk.                                         *)
RECURSIVE btree_search(_, _, _)
btree_search(p, key, junk) ==
  LET i == IF key =< junk THEN 0
           ELSE Len(SelectSeq(p.keys, LAMBDA k : k < key)) + 1 IN
  IF i = 0 THEN IF key = junk THEN "found" ELSE IF p.leaf THEN "missing" ELSE "crash"
  ELSE IF i =< Len(p.keys) /\ key = p.keys[i] THEN "found"
  ELSE IF p.leaf THEN "missing"
  ELSE btree_search(p.childs[i], key, junk)

RECURSIVE print_btree(_)
print_btree(p) ==
  IF p.leaf THEN p.keys
  ELSE FlattenSeq([i \in 1..Len(p.keys) |-> Append(print_btree(p.childs[i]), p.keys[i])])
       \o print_btree(p.childs[Len(p.keys) + 1])

----------------------------------------------------------------------------
(* What makes a tree right.                                                  *)
Sorted(s) == \A i, j \in DOMAIN s : i < j => s[i] =< s[j]

(* Its nodes are exactly these, once each, in the order of their keys, and   *)
(* every child knows its parent.                                             *)
SearchTree(t, nodes) ==
  LET w == Walk(t, t.root) IN
  /\ Len(w) = Cardinality(nodes) /\ ToSet(w) = nodes
  /\ Sorted([i \in DOMAIN w |-> t.key[w[i]]])
ParentsRight(t, nodes) ==
  /\ t.root # Null => t.par[t.root] = Null
  /\ \A n \in nodes, s \in {"L", "R"} : t[s][n] # Null => t.par[t[s][n]] = n

RECURSIVE BlackHeights(_, _)
BlackHeights(t, n) ==
  IF n = Null THEN {0}
  ELSE {h + (IF t.red[n] THEN 0 ELSE 1) : h \in BlackHeights(t, t.L[n]) \cup BlackHeights(t, t.R[n])}

RedBlack(t, nodes) ==
  /\ Cardinality(BlackHeights(t, t.root)) = 1
  /\ ~IsRed(t, t.root)
  /\ \A n \in nodes : t.red[n] => ~IsRed(t, t.L[n]) /\ ~IsRed(t, t.R[n])

RECURSIVE Depths(_)
Depths(p) == IF p.leaf THEN {0} ELSE {d + 1 : d \in UNION {Depths(p.childs[i]) : i \in DOMAIN p.childs}}

RECURSIVE Filled(_, _)
Filled(p, least) ==
  /\ Len(p.keys) \in least..(2 * MAX_NODE_KEY - 1)
  /\ ~p.leaf => /\ Len(p.childs) = Len(p.keys) + 1
                /\ \A i \in DOMAIN p.childs : Filled(p.childs[i], MAX_NODE_KEY - 1)
=============================================================================
