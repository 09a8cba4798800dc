------------------------------- MODULE RBTree -------------------------------
(***************************************************************************)
(* The red-black tree of std_rbtree.c.  A node of the tree is named by the *)
(* user's data that hangs off it; data with equal keys may be in the tree  *)
(* together.  Rebalancing goes one rotation or turn at a time.             *)
(*                                                                         *)
(* There is one sentinel, Nil, for all the leaves, and removal writes to   *)
(* its parent link: rebalancing begins there.                              *)
(***************************************************************************)
EXTENDS Integers, Sequences, FiniteSets

CONSTANTS
  Data,     \* the user's nodes, each with a key
  Nil

ASSUME TreeAssumption ==
  /\ IsFiniteSet(Data) /\ Nil \notin Data
  /\ \A d \in Data : d.key \in Int

Node == Data \cup {Nil}
Side == {"left", "right"}
Other(s) == IF s = "left" THEN "right" ELSE "left"

VARIABLES
  tree,     \* the links and colours, and rbtt_root
  size,     \* rbtt_numinodes
  op,       \* what is under way: nothing, or an insertion or a removal that
            \* rebalances at x
  held      \* history: the data inserted and not removed

treeVars == <<tree, size, op, held>>

Tree == [root : Node, child : [Node -> [Side -> Node]], parent : [Node -> Node],
         color : [Node -> {"red", "black"}]]
Idle == [do |-> "nothing"]
Op   == {Idle} \cup [do : {"insert"}, x : Data] \cup [do : {"remove", "splice"}, x : Node, y : Data, z : Data]

TreeInit ==
  /\ tree = [root |-> Nil, child |-> [n \in Node |-> [s \in Side |-> Nil]],
             parent |-> [n \in Node |-> Nil], color |-> [n \in Node |-> "black"]]
  /\ size = 0
  /\ op = Idle
  /\ held = {}

LeftOf(n)  == tree.child[n]["left"]
RightOf(n) == tree.child[n]["right"]
Parent(n)  == tree.parent[n]

\* The data at n and below.
Below(n) ==
  LET below[m \in Node] == IF m = Nil THEN {} ELSE {m} \cup below[LeftOf(m)] \cup below[RightOf(m)]
  IN below[n]
Present  == Below(tree.root)
----------------------------------------------------------------------------
(* The searches that insertion and removal make.                           *)

\* The last node from n down on side s.
Outermost(n, s) ==
  LET last[m \in Node] == IF tree.child[m][s] = Nil THEN m ELSE last[tree.child[m][s]]
  IN last[n]

\* From n up, past the nodes it is below on side s.
Back(n, s) ==
  LET back[m \in Node] ==
        IF Parent(m) # Nil /\ m = tree.child[Parent(m)][s] THEN back[Parent(m)] ELSE Parent(m)
  IN back[n]

\* Where the search for key goes on from n.
Toward(n, key) == tree.child[n][IF key < n.key THEN "left" ELSE "right"]

\* std_rbtree_getexact; Nil is the null pointer.
GetExact(key) ==
  LET at[n \in Node] == IF n = Nil \/ n.key = key THEN n ELSE at[Toward(n, key)]
  IN at[tree.root]

\* _std_rbtree_getnext.
NextOf(n) == IF RightOf(n) # Nil THEN Outermost(RightOf(n), "left") ELSE Back(n, "right")
----------------------------------------------------------------------------
(* Rotation and recolouring.                                               *)

\* The tree t with the child old of p, or its root, replaced by new.
Hang(t, p, old, new) ==
  IF p = Nil THEN [t EXCEPT !.root = new]
  ELSE [t EXCEPT !.child[p][IF t.child[p]["left"] = old THEN "left" ELSE "right"] = new]

SetParent(t, n, p) == IF n = Nil THEN t ELSE [t EXCEPT !.parent[n] = p]
Paint(t, n, c)     == [t EXCEPT !.color[n] = c]

\* A mutant of Rotate: the child that changes sides keeps its parent.
RotateForgetting(t, x, s) ==
  LET y == t.child[x][Other(s)]
      u == [Hang(t, t.parent[x], x, y) EXCEPT !.child[x][Other(s)] = t.child[y][s], !.child[y][s] = x]
  IN [u EXCEPT !.parent[y] = t.parent[x], !.parent[x] = y]

\* std_rbtree_rotateleft and _rotateright: x goes down on side s.
Rotate(t, x, s) ==
  LET y == t.child[x][Other(s)]
      u == [Hang(t, t.parent[x], x, y) EXCEPT !.child[x][Other(s)] = t.child[y][s], !.child[y][s] = x]
  IN [SetParent(u, t.child[y][s], x) EXCEPT !.parent[y] = t.parent[x], !.parent[x] = y]

SideOf(t, x) == IF x = t.child[t.parent[x]]["left"] THEN "left" ELSE "right"
----------------------------------------------------------------------------
(* Insertion.                                                              *)

\* The parent of a new node with this key.
PlaceFor(key) ==
  LET at[n \in Node] == IF n = Nil \/ Toward(n, key) = Nil THEN n ELSE at[Toward(n, key)]
  IN at[tree.root]

\* std_rbtree_insert, up to the rebalancing.  (An allocation that fails
\* leaves the tree alone.)
TreeInsert(d) ==
  /\ op = Idle
  /\ d \notin held
  /\ LET y == PlaceFor(d.key)
         t == [tree EXCEPT !.parent[d] = y, !.child[d] = [s \in Side |-> Nil], !.color[d] = "red"]
     IN tree' = IF y = Nil THEN [t EXCEPT !.root = d]
                ELSE [t EXCEPT !.child[y][IF d.key < y.key THEN "left" ELSE "right"] = d]
  /\ size' = size + 1
  /\ op' = [do |-> "insert", x |-> d]
  /\ held' = held \cup {d}

RedAbove == op.do = "insert" /\ op.x # tree.root /\ tree.color[Parent(op.x)] = "red"
Grand    == Parent(Parent(op.x))
Uncle    == tree.child[Grand][Other(SideOf(tree, Parent(op.x)))]

UncleIsRed ==
  /\ RedAbove
  /\ Uncle # Nil /\ tree.color[Uncle] = "red"
  /\ tree' = Paint(Paint(Paint(tree, Parent(op.x), "black"), Uncle, "black"), Grand, "red")
  /\ op' = [op EXCEPT !.x = Grand]
  /\ UNCHANGED <<size, held>>

BlackUncle == RedAbove /\ (Uncle = Nil \/ tree.color[Uncle] = "black")
IsInner    == op.x = tree.child[Parent(op.x)][Other(SideOf(tree, Parent(op.x)))]

\* An inner child is brought out first: its parent takes its part.
BringOut ==
  /\ BlackUncle /\ IsInner
  /\ tree' = Rotate(tree, Parent(op.x), SideOf(tree, Parent(op.x)))
  /\ op' = [op EXCEPT !.x = Parent(op.x)]
  /\ UNCHANGED <<size, held>>

\* A mutant of UncleIsBlack: an inner child is not brought out first.
UncleIsBlackInner ==
  /\ BlackUncle
  /\ LET s == SideOf(tree, Parent(op.x))
     IN tree' = Rotate(Paint(Paint(tree, Parent(op.x), "black"), Grand, "red"), Grand, Other(s))
  /\ UNCHANGED <<size, op, held>>

UncleIsBlack ==
  /\ BlackUncle /\ ~IsInner
  /\ LET s == SideOf(tree, Parent(op.x))
     IN tree' = Rotate(Paint(Paint(tree, Parent(op.x), "black"), Grand, "red"), Grand, Other(s))
  /\ UNCHANGED <<size, op, held>>

InsertDone ==
  /\ op.do = "insert" /\ ~RedAbove
  /\ tree' = Paint(tree, tree.root, "black")
  /\ op' = Idle
  /\ UNCHANGED <<size, held>>
----------------------------------------------------------------------------
(* Removal.                                                                *)

\* std_rbtree_remove, up to the rebalancing: y, which is z or the next one, is
\* cut out, and x takes its place.  (Nothing happens if the key is not there.)
TreeRemove(key) ==
  /\ op = Idle
  /\ GetExact(key) # Nil
  /\ LET z == GetExact(key)
         y == IF LeftOf(z) = Nil \/ RightOf(z) = Nil THEN z ELSE NextOf(z)
         x == IF LeftOf(y) # Nil THEN LeftOf(y) ELSE RightOf(y)
     IN /\ tree' = Hang([tree EXCEPT !.parent[x] = Parent(y)], Parent(y), y, x)
        /\ op' = [do |-> IF tree.color[y] = "black" THEN "remove" ELSE "splice", x |-> x, y |-> y, z |-> z]
  /\ UNCHANGED <<size, held>>

LacksBlack == op.do = "remove" /\ op.x # tree.root /\ tree.color[op.x] = "black"
Near       == SideOf(tree, op.x)

Sibling    == tree.child[Parent(op.x)][Other(Near)]
Nephew(s)  == tree.child[Sibling][s]
IsBlack(n) == tree.color[n] = "black"

\* A red sibling goes up, and a nephew becomes the sibling.
SiblingIsRed ==
  /\ LacksBlack
  /\ ~IsBlack(Sibling)
  /\ tree' = Rotate(Paint(Paint(tree, Sibling, "black"), Parent(op.x), "red"), Parent(op.x), Near)
  /\ UNCHANGED <<size, op, held>>

BlackSibling == LacksBlack /\ Sibling # Nil /\ IsBlack(Sibling)

BlackNephews ==
  /\ BlackSibling
  /\ \A s \in Side : IsBlack(Nephew(s))
  /\ tree' = Paint(tree, Sibling, "red")
  /\ op' = [op EXCEPT !.x = Parent(op.x)]
  /\ UNCHANGED <<size, held>>

\* The near nephew becomes the sibling, whose far child is then red.
NearNephewIsRed ==
  /\ BlackSibling
  /\ IsBlack(Nephew(Other(Near))) /\ ~IsBlack(Nephew(Near))
  /\ tree' = Rotate(Paint(Paint(tree, Nephew(Near), "black"), Sibling, "red"), Sibling, Other(Near))
  /\ UNCHANGED <<size, op, held>>

\* A mutant of FarNephewIsRed: the sibling does not get the colour of the parent.
FarNephewUnpainted ==
  /\ BlackSibling
  /\ ~IsBlack(Nephew(Other(Near)))
  /\ tree' = Rotate(Paint(Paint(tree, Parent(op.x), "black"), Nephew(Other(Near)), "black"), Parent(op.x), Near)
  /\ op' = [op EXCEPT !.x = tree'.root]
  /\ UNCHANGED <<size, held>>

FarNephewIsRed ==
  /\ BlackSibling
  /\ ~IsBlack(Nephew(Other(Near)))
  /\ LET p == Parent(op.x)
     IN tree' = Rotate(Paint(Paint(Paint(tree, Sibling, tree.color[p]), p, "black"), Nephew(Other(Near)), "black"),
                       p, Near)
  /\ op' = [op EXCEPT !.x = tree'.root]
  /\ UNCHANGED <<size, held>>

\* Also the way out at a sibling that is the sentinel.
BalanceDone ==
  /\ op.do = "remove" /\ (LacksBlack => Sibling = Nil)
  /\ tree' = Paint(tree, op.x, "black")
  /\ op' = [op EXCEPT !.do = "splice"]
  /\ UNCHANGED <<size, held>>

\* Every link to z leads to y, with z's links and colour.
Substitute(t, z, y) ==
  LET p == t.parent[z]
      u == [(IF t.root = z THEN [t EXCEPT !.root = y] ELSE t)
              EXCEPT !.parent[y] = p, !.child[y] = t.child[z], !.color[y] = t.color[z]]
      v == IF p = Nil THEN u ELSE Hang(u, p, z, y)
  IN SetParent(SetParent(v, t.child[z]["left"], y), t.child[z]["right"], y)

\* A mutant of Splice: what is removed is not counted.
SpliceUncounted ==
  /\ op.do = "splice"
  /\ LET z == op.z
         t == IF op.y = z THEN tree ELSE Substitute(tree, z, op.y)
     IN tree' = [t EXCEPT !.child[z] = [s \in Side |-> Nil], !.parent[z] = Nil, !.color[z] = "black"]
  /\ op' = Idle
  /\ held' = held \ {op.z}
  /\ UNCHANGED size

\* y, if it is not z, takes the place of z; z is freed.
Splice ==
  /\ op.do = "splice"
  /\ LET z == op.z
         t == IF op.y = z THEN tree ELSE Substitute(tree, z, op.y)
     IN tree' = [t EXCEPT !.child[z] = [s \in Side |-> Nil], !.parent[z] = Nil, !.color[z] = "black"]
  /\ size' = size - 1
  /\ op' = Idle
  /\ held' = held \ {op.z}

Rebalance ==
  \/ UncleIsRed \/ BringOut \/ UncleIsBlack \/ InsertDone
  \/ SiblingIsRed \/ BlackNephews \/ NearNephewIsRed \/ FarNephewIsRed \/ BalanceDone \/ Splice

TreeNext ==
  \/ \E d \in Data : TreeInsert(d)
  \/ \E d \in Data : TreeRemove(d.key)
  \/ Rebalance

TreeSpec == TreeInit /\ [][TreeNext]_treeVars
FairTree == TreeSpec /\ WF_treeVars(Rebalance)
----------------------------------------------------------------------------
TreeTypeOK ==
  /\ tree \in Tree
  /\ size \in 0 .. Cardinality(Data)
  /\ op \in Op
  /\ held \subseteq Data

\* The children of a node know it as their parent, also between two turns of
\* a rebalancing, and nobody is in two places.
LinksAgree ==
  /\ tree.root # Nil => Parent(tree.root) = Nil
  /\ \A n \in Present, s \in Side : tree.child[n][s] # Nil => Parent(tree.child[n][s]) = n
  /\ \A s \in Side : tree.child[Nil][s] = Nil
  /\ tree.color[Nil] = "black"

\* The data that are in the tree: between the cut and the splice y is out of it,
\* and z still in.
Linked == IF op.do \in {"remove", "splice"} THEN held \ {op.y} ELSE held

\* Whatever was inserted and removed, and also between two turns of a
\* rebalancing, the tree has all that was inserted and not removed, once, and
\* can be searched: what is on the left of a node has no greater key, what is
\* on the right no smaller one.  When nothing is under way size counts them.
TreeIsSorted ==
  /\ LinksAgree
  /\ Present = Linked
  /\ \A n \in Present :
       /\ n \notin Below(LeftOf(n)) /\ n \notin Below(RightOf(n))
       /\ Below(LeftOf(n)) \cap Below(RightOf(n)) = {}
       /\ \A m \in Below(LeftOf(n)) : m.key <= n.key
       /\ \A m \in Below(RightOf(n)) : n.key <= m.key
  /\ op = Idle => size = Cardinality(held)

\* The numbers of black nodes on the ways from n down.
Heights(n) ==
  LET heights[m \in Node] ==
        IF m = Nil THEN {0}
        ELSE {h + IF tree.color[m] = "black" THEN 1 ELSE 0 : h \in heights[LeftOf(m)] \cup heights[RightOf(m)]}
  IN heights[n]
RedPairs == {n \in Present : tree.color[n] = "red" /\ n # tree.root /\ tree.color[Parent(n)] = "red"}

\* When nothing is under way, no red node has a red parent and every way
\* from the root down meets as many black nodes, so that no look-up is longer
\* than twice the logarithm of size.  While an insertion rebalances, only x may
\* be a red node below a red one; a node that lacks a black one always has a
\* sibling, so that the loop never gives up at the sentinel (std_rbtree.c:229, :265),
\* which would leave one black missing.  Colours go wrong long before look-ups do.
Balanced ==
  /\ op = Idle => tree.color[tree.root] = "black" /\ RedPairs = {}
  /\ op.do = "insert" => RedPairs \subseteq {op.x}
  /\ op.do \in {"nothing", "insert"} => Cardinality(Heights(tree.root)) = 1
  /\ LacksBlack => Sibling # Nil

\* Every rebalancing ends.
RebalancingEnds == op # Idle ~> op = Idle
=============================================================================
