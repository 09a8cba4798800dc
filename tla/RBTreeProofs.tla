---------------------------- MODULE RBTreeProofs ----------------------------
(***************************************************************************)
(* Theorems about the red-black tree, for any finite set of data with any  *)
(* keys, equal ones too: it stays sorted and balanced, and its searches    *)
(* and walks are right.                                                    *)
(*                                                                         *)
(* Nothing here recurs over the tree.  Every node in it has a place, a     *)
(* number, and a range, from low to high, in which the places of all below *)
(* it are: what the links mean is said of a node and its children alone    *)
(* (Shape).  A rotation changes two ranges, an insertion makes room for a  *)
(* place, a removal takes one away.  So also with the colours: black gives *)
(* each node the number of black ones on the ways down from it, and a      *)
(* rebalancing is wrong at one node (Level, RedsApart).                    *)
(***************************************************************************)
EXTENDS RBLookups, LeastNumbers, FiniteSetTheorems, TLAPS
----------------------------------------------------------------------------
(* What the writes to the tree do to its fields.                           *)

\* There are two sides and each is the other of the other.
LEMMA Sides ==
  /\ \A s \in Side : Other(s) \in Side /\ Other(s) # s /\ Other(Other(s)) = s
  /\ \A s, d \in Side : d = s \/ d = Other(s)
BY DEF Side, Other

\* Hang puts new in the place of old under p and changes no other link.
LEMMA HangFields ==
  ASSUME NEW t \in Tree, NEW p \in Node, NEW old \in Node, NEW new \in Node
  PROVE  /\ Hang(t, p, old, new) \in Tree
         /\ Hang(t, p, old, new).parent = t.parent
         /\ Hang(t, p, old, new).color = t.color
         /\ p = Nil => Hang(t, p, old, new).root = new /\ Hang(t, p, old, new).child = t.child
         /\ p # Nil => /\ Hang(t, p, old, new).root = t.root
                       /\ \E d \in Side : /\ d = IF t.child[p]["left"] = old THEN "left" ELSE "right"
                                          /\ Hang(t, p, old, new).child[p][d] = new
                                          /\ Hang(t, p, old, new).child[p][Other(d)] = t.child[p][Other(d)]
                       /\ \A n \in Node : n # p => Hang(t, p, old, new).child[n] = t.child[n]
<1> DEFINE u == Hang(t, p, old, new)
<1>1. CASE p = Nil
  BY <1>1 DEF Hang, Tree
<1>2. CASE p # Nil
  <2> DEFINE d == IF t.child[p]["left"] = old THEN "left" ELSE "right"
  <2>1. u = [t EXCEPT !.child[p][d] = new]
    BY <1>2 DEF Hang
  <2>2. d \in Side
    BY DEF Side
  <2> HIDE DEF u, d
  <2>3. u.parent = t.parent /\ u.color = t.color /\ u.root = t.root
    BY <2>1 DEF Tree
  <2>4. u.child = [t.child EXCEPT ![p][d] = new]
    BY <2>1 DEF Tree
  <2>5. t.child \in [Node -> [Side -> Node]]
    BY DEF Tree
  <2>6. u.child \in [Node -> [Side -> Node]]
    BY <2>2, <2>4, <2>5
  <2>7. u \in Tree
    BY <2>1, <2>2 DEF Tree
  <2>8. u.child[p][d] = new /\ u.child[p][Other(d)] = t.child[p][Other(d)]
    BY <2>2, <2>4, <2>5, Sides
  <2>9. \A n \in Node : n # p => u.child[n] = t.child[n]
    BY <2>4, <2>5
  <2>10. d = IF t.child[p]["left"] = old THEN "left" ELSE "right"
    BY DEF d
  <2> QED BY <1>2, <2>2, <2>3, <2>7, <2>8, <2>9, <2>10 DEF u
<1> QED BY <1>1, <1>2

\* A child is set.
LEMMA ChildFields ==
  ASSUME NEW t \in Tree, NEW n \in Node, NEW s \in Side, NEW c \in Node
  PROVE  /\ [t EXCEPT !.child[n][s] = c] \in Tree
         /\ [t EXCEPT !.child[n][s] = c].parent = t.parent
         /\ [t EXCEPT !.child[n][s] = c].color = t.color
         /\ [t EXCEPT !.child[n][s] = c].root = t.root
         /\ [t EXCEPT !.child[n][s] = c].child[n][s] = c
         /\ [t EXCEPT !.child[n][s] = c].child[n][Other(s)] = t.child[n][Other(s)]
         /\ \A m \in Node : m # n => [t EXCEPT !.child[n][s] = c].child[m] = t.child[m]
<1> DEFINE u == [t EXCEPT !.child[n][s] = c]
<1>1. u \in Tree
  BY DEF Tree
<1>2. u.parent = t.parent /\ u.color = t.color /\ u.root = t.root
  BY DEF Tree
<1>3. u.child = [t.child EXCEPT ![n][s] = c]
  BY DEF Tree
<1>4. t.child \in [Node -> [Side -> Node]]
  BY DEF Tree
<1> HIDE DEF u
<1>5. u.child[n][s] = c /\ u.child[n][Other(s)] = t.child[n][Other(s)]
  BY <1>3, <1>4, Sides
<1>6. \A m \in Node : m # n => u.child[m] = t.child[m]
  BY <1>3, <1>4
<1> QED BY <1>1, <1>2, <1>5, <1>6 DEF u

\* A parent is set.
LEMMA ParentFields ==
  ASSUME NEW t \in Tree, NEW n \in Node, NEW p \in Node
  PROVE  /\ [t EXCEPT !.parent[n] = p] \in Tree
         /\ [t EXCEPT !.parent[n] = p].child = t.child
         /\ [t EXCEPT !.parent[n] = p].color = t.color
         /\ [t EXCEPT !.parent[n] = p].root = t.root
         /\ [t EXCEPT !.parent[n] = p].parent[n] = p
         /\ \A m \in Node : m # n => [t EXCEPT !.parent[n] = p].parent[m] = t.parent[m]
BY DEF Tree

\* SetParent changes the parent of a node that is not Nil, and nothing else.
LEMMA SetParentFields ==
  ASSUME NEW t \in Tree, NEW n \in Node, NEW p \in Node
  PROVE  /\ SetParent(t, n, p) \in Tree
         /\ SetParent(t, n, p).child = t.child
         /\ SetParent(t, n, p).color = t.color
         /\ SetParent(t, n, p).root = t.root
         /\ n # Nil => SetParent(t, n, p).parent[n] = p
         /\ \A m \in Node : m # n \/ m = Nil => SetParent(t, n, p).parent[m] = t.parent[m]
<1>1. CASE n = Nil
  BY <1>1 DEF SetParent
<1>2. CASE n # Nil
  <2>1. SetParent(t, n, p) = [t EXCEPT !.parent[n] = p]
    BY <1>2 DEF SetParent
  <2> QED BY <1>2, <2>1, ParentFields
<1> QED BY <1>1, <1>2

\* The two colours.
Hue == {"red", "black"}

\* Paint changes the colour of one node, and nothing else.
LEMMA PaintFields ==
  ASSUME NEW t \in Tree, NEW n \in Node, NEW c \in Hue
  PROVE  /\ Paint(t, n, c) \in Tree
         /\ Paint(t, n, c).child = t.child
         /\ Paint(t, n, c).parent = t.parent
         /\ Paint(t, n, c).root = t.root
         /\ Paint(t, n, c).color[n] = c
         /\ \A m \in Node : m # n => Paint(t, n, c).color[m] = t.color[m]
BY DEF Tree, Paint, Hue
----------------------------------------------------------------------------
(* The shape of a tree.  Its nodes P have places pos in one order, and the  *)
(* part of the tree at n is what has its place between low[n] and high[n]. *)

\* Links to children and to parents agree, and every node hangs somewhere.
Joined(t, P) ==
  /\ \A n \in P, s \in Side :
       t.child[n][s] # Nil => t.child[n][s] \in P /\ t.parent[t.child[n][s]] = n
  /\ t.root # Nil => t.root \in P /\ t.parent[t.root] = Nil
  /\ t.root = Nil => P = {}
  /\ \A n \in P : n # t.root => t.parent[n] \in P /\ \E s \in Side : t.child[t.parent[n]][s] = n
  /\ \A n \in Node \ P, s \in Side : t.child[n][s] \in P \cup {Nil}
  /\ \A s \in Side : t.child[Nil][s] = Nil

\* Who has a place there.
Seated(P, pos, low, high) ==
  /\ P \subseteq Data
  /\ pos \in [Data -> Int] /\ low \in [Data -> Int] /\ high \in [Data -> Int]
  /\ \A n \in P : low[n] <= pos[n] /\ pos[n] <= high[n]
  /\ \A m, n \in P : pos[m] = pos[n] => m = n

\* The part of the tree at a child lies on its side of the parent.
Nested(t, P, pos, low, high) ==
  /\ \A n \in P : t.child[n]["left"] # Nil =>
       low[n] <= low[t.child[n]["left"]] /\ high[t.child[n]["left"]] < pos[n]
  /\ \A n \in P : t.child[n]["right"] # Nil =>
       pos[n] < low[t.child[n]["right"]] /\ high[t.child[n]["right"]] <= high[n]

\* m has its place in the part of the tree at n.
At(m, n, pos, low, high) == low[n] <= pos[m] /\ pos[m] <= high[n]

\* What has its place at n is n, or has it at a child.
Full(t, P, pos, low, high) ==
  /\ \A m, n \in P : At(m, n, pos, low, high) /\ pos[m] < pos[n] =>
       t.child[n]["left"] # Nil /\ At(m, t.child[n]["left"], pos, low, high)
  /\ \A m, n \in P : At(m, n, pos, low, high) /\ pos[n] < pos[m] =>
       t.child[n]["right"] # Nil /\ At(m, t.child[n]["right"], pos, low, high)
  /\ \A m \in P : At(m, t.root, pos, low, high)

Shape(t, P, pos, low, high) ==
  /\ Joined(t, P) /\ Seated(P, pos, low, high)
  /\ Nested(t, P, pos, low, high) /\ Full(t, P, pos, low, high)

\* No node is its own child, its parent's parent or on both sides of its parent.
LEMMA Apart ==
  ASSUME NEW t \in Tree, NEW P, NEW pos, NEW low, NEW high, Shape(t, P, pos, low, high),
         NEW n \in P, NEW s \in Side, t.child[n][s] # Nil
  PROVE  /\ t.child[n][s] \in P /\ t.child[n][s] # n /\ t.child[n][s] # t.child[n][Other(s)]
         /\ t.parent[t.child[n][s]] = n /\ t.parent[n] # t.child[n][s] /\ t.child[n][s] # t.root
         /\ \A d \in Side : t.child[t.child[n][s]][d] # n /\ t.child[t.child[n][s]][d] # t.child[n][s]
<1> DEFINE c == t.child[n][s]
<1>1. c \in P /\ t.parent[c] = n /\ n \in Data /\ c \in Data /\ c # Nil /\ n # Nil
  BY TreeAssumption DEF Shape, Joined, Seated
<1>2. /\ pos[n] \in Int /\ low[n] \in Int /\ high[n] \in Int /\ pos[c] \in Int /\ low[c] \in Int /\ high[c] \in Int
      /\ low[n] <= pos[n] /\ pos[n] <= high[n] /\ low[c] <= pos[c] /\ pos[c] <= high[c]
  BY <1>1 DEF Shape, Seated
<1>3. /\ s = "left" => low[n] <= low[c] /\ high[c] < pos[n]
      /\ s = "right" => pos[n] < low[c] /\ high[c] <= high[n]
      /\ s = "left" \/ s = "right"
  BY <1>1 DEF Shape, Nested, Side
<1>4. c # n
  BY <1>2, <1>3
<1>5. ~(low[c] <= pos[n] /\ pos[n] <= high[c])
  BY <1>2, <1>3
<1>6. c # t.child[n][Other(s)]
  <2>1. CASE s = "left"
    <3> SUFFICES ASSUME t.child[n]["right"] = c PROVE FALSE
      BY <2>1 DEF Other
    <3>1. pos[n] < low[c] /\ high[c] < pos[n]
      BY <1>1, <1>3, <2>1 DEF Shape, Nested
    <3> QED BY <1>2, <3>1
  <2>2. CASE s = "right"
    <3> SUFFICES ASSUME t.child[n]["left"] = c PROVE FALSE
      BY <2>2 DEF Other
    <3>1. pos[n] < low[c] /\ high[c] < pos[n]
      BY <1>1, <1>3, <2>2 DEF Shape, Nested
    <3> QED BY <1>2, <3>1
  <2> QED BY <1>3, <2>1, <2>2
<1>7. ASSUME NEW d \in Side, t.child[c][d] \in P
      PROVE  /\ low[c] <= low[t.child[c][d]] /\ high[t.child[c][d]] <= high[c]
             /\ low[t.child[c][d]] <= pos[t.child[c][d]] /\ pos[t.child[c][d]] <= high[t.child[c][d]]
             /\ low[t.child[c][d]] \in Int /\ high[t.child[c][d]] \in Int /\ pos[t.child[c][d]] \in Int
             /\ pos[t.child[c][d]] # pos[c]
  <2> DEFINE e == t.child[c][d]
  <2>1. low[e] \in Int /\ high[e] \in Int /\ pos[e] \in Int /\ low[e] <= pos[e] /\ pos[e] <= high[e] /\ e # Nil
    BY <1>7, TreeAssumption DEF Shape, Seated
  <2>2. CASE d = "left"
    <3>1. low[c] <= low[e] /\ high[e] < pos[c]
      BY <1>1, <2>1, <2>2 DEF Shape, Nested
    <3> QED BY <1>2, <2>1, <3>1
  <2>3. CASE d = "right"
    <3>1. pos[c] < low[e] /\ high[e] <= high[c]
      BY <1>1, <2>1, <2>3 DEF Shape, Nested
    <3> QED BY <1>2, <2>1, <3>1
  <2> QED BY <2>2, <2>3 DEF Side
<1>8. ASSUME NEW d \in Side PROVE t.child[c][d] # n /\ t.child[c][d] # c
  <2>1. CASE t.child[c][d] \notin P
    BY <1>1, <2>1
  <2>2. CASE t.child[c][d] \in P
    <3>1. pos[t.child[c][d]] # pos[c] /\ low[c] <= pos[t.child[c][d]] /\ pos[t.child[c][d]] <= high[c]
      <4>1. /\ low[c] <= low[t.child[c][d]] /\ high[t.child[c][d]] <= high[c]
            /\ low[t.child[c][d]] <= pos[t.child[c][d]] /\ pos[t.child[c][d]] <= high[t.child[c][d]]
            /\ low[t.child[c][d]] \in Int /\ high[t.child[c][d]] \in Int /\ pos[t.child[c][d]] \in Int
            /\ pos[t.child[c][d]] # pos[c]
        BY <1>7, <2>2
      <4> QED BY ONLY <1>2, <4>1
    <3> QED BY ONLY <1>5, <3>1
  <2> QED BY <2>1, <2>2
<1>9. c # t.root
  BY <1>1, <1>2, <1>5 DEF Shape, Full, At
<1>10. t.parent[n] # c
  <2> SUFFICES ASSUME t.parent[n] = c PROVE FALSE
    OBVIOUS
  <2>1. n # t.root
    BY <1>1 DEF Shape, Joined
  <2>2. \E d \in Side : t.child[c][d] = n
    BY <2>1 DEF Shape, Joined
  <2> QED BY <1>8, <2>2
<1> QED BY <1>1, <1>4, <1>6, <1>8, <1>9, <1>10
----------------------------------------------------------------------------
(* Rotation.                                                               *)

\* u is t after x went down on side s below its child y.
Rotated(t, u, P, x, y, s) ==
  /\ u \in Tree /\ u.color = t.color
  /\ u.root = IF t.root = x THEN y ELSE t.root
  /\ u.child[x][Other(s)] = t.child[y][s] /\ u.child[x][s] = t.child[x][s]
  /\ u.child[y][s] = x /\ u.child[y][Other(s)] = t.child[y][Other(s)]
  /\ \A n \in P, d \in Side : n # x /\ n # y => u.child[n][d] = IF t.child[n][d] = x THEN y ELSE t.child[n][d]
  /\ \A n \in Node \ P : u.child[n] = t.child[n]
  /\ u.parent[y] = t.parent[x] /\ u.parent[x] = y
  /\ t.child[y][s] # Nil => u.parent[t.child[y][s]] = x
  /\ \A n \in P : n # x /\ n # y /\ n # t.child[y][s] => u.parent[n] = t.parent[n]
  /\ u.parent[Nil] = t.parent[Nil]

\* std_rbtree_rotateleft and _rotateright: what they do to the fields.
LEMMA RotateFields ==
  ASSUME NEW t \in Tree, NEW P, NEW pos, NEW low, NEW high, Shape(t, P, pos, low, high),
         NEW x \in P, NEW s \in Side, NEW y, y = t.child[x][Other(s)], y # Nil
  PROVE  Rotated(t, Rotate(t, x, s), P, x, y, s)
<1> DEFINE o == Other(s)
           b == t.child[y][s]
           p == t.parent[x]
           u1 == Hang(t, p, x, y)
           u2 == [u1 EXCEPT !.child[x][o] = b]
           u3 == [u2 EXCEPT !.child[y][s] = x]
           u4 == SetParent(u3, b, x)
           u5 == [u4 EXCEPT !.parent[y] = p]
           u6 == [u5 EXCEPT !.parent[x] = y]
<1>1. Rotate(t, x, s) = u6
  BY DEF Rotate
<1>2. /\ o \in Side /\ o # s /\ Other(o) = s /\ \A d \in Side : d = s \/ d = o
  BY Sides
<1>3. /\ y \in P /\ y # x /\ y # t.root /\ t.parent[y] = x /\ p # y
      /\ \A d \in Side : t.child[y][d] # x /\ t.child[y][d] # y
  BY <1>2, Apart
<1>4. P \subseteq Data /\ Nil \notin P /\ x \in Node /\ y \in Node /\ x # Nil /\ y # Nil
  BY <1>3, TreeAssumption DEF Shape, Seated, Node
<1>5. /\ p \in Node /\ b \in Node /\ b # x /\ b # y /\ (b # Nil => b \in P)
      /\ (p = Nil <=> x = t.root) /\ (p # Nil => p \in P /\ p # x /\ p # y)
      /\ p # Nil => \A d \in Side : t.child[p][d] = x => t.child[p][Other(d)] # x
      /\ p # Nil => \E d \in Side : t.child[p][d] = x
  <2>1. p \in Node /\ b \in Node
    BY <1>4 DEF Tree
  <2>2. b # Nil => b \in P
    BY <1>3 DEF Shape, Joined
  <2>3. (p = Nil <=> x = t.root) /\ (p # Nil => p \in P /\ \E d \in Side : t.child[p][d] = x)
    BY <1>4 DEF Shape, Joined
  <2>4. ASSUME p # Nil, NEW d \in Side, t.child[p][d] = x PROVE t.child[p][Other(d)] # x /\ p # x
    BY <1>4, <2>3, <2>4, Apart
  <2> QED BY <1>3, <2>1, <2>2, <2>3, <2>4
<1>6. \A n \in P, d \in Side : t.child[n][d] = x => n = p
  BY <1>4 DEF Shape, Joined
<1> HIDE DEF o, b, p, u1, u2, u3, u4, u5, u6
<1>7. /\ u1 \in Tree /\ u1.parent = t.parent /\ u1.color = t.color
      /\ p = Nil => u1.root = y /\ u1.child = t.child
      /\ p # Nil => /\ u1.root = t.root
                    /\ \E d \in Side : /\ d = IF t.child[p]["left"] = x THEN "left" ELSE "right"
                                       /\ u1.child[p][d] = y
                                       /\ u1.child[p][Other(d)] = t.child[p][Other(d)]
                    /\ \A n \in Node : n # p => u1.child[n] = t.child[n]
  <2>1. t \in Tree /\ p \in Node /\ x \in Node /\ y \in Node
    BY <1>4, <1>5
  <2> QED BY ONLY <2>1, HangFields DEF u1
<1>8. u1.root = IF t.root = x THEN y ELSE t.root
  BY <1>5, <1>7
<1>9. ASSUME p # Nil, NEW d \in Side PROVE u1.child[p][d] = IF t.child[p][d] = x THEN y ELSE t.child[p][d]
  <2>1. PICK e \in Side : /\ e = IF t.child[p]["left"] = x THEN "left" ELSE "right"
                          /\ u1.child[p][e] = y
                          /\ u1.child[p][Other(e)] = t.child[p][Other(e)]
    BY <1>7, <1>9
  <2>2. t.child[p][e] = x /\ t.child[p][Other(e)] # x
    BY <1>5, <1>9, <2>1 DEF Side
  <2>3. d = e \/ d = Other(e)
    BY Sides
  <2> QED BY <2>1, <2>2, <2>3
<1>10. \A n \in Node : n # p => u1.child[n] = t.child[n]
  BY <1>7
<1>11. /\ u2 \in Tree /\ u2.parent = t.parent /\ u2.color = t.color /\ u2.root = u1.root
       /\ u2.child[x][o] = b /\ u2.child[x][s] = t.child[x][s]
       /\ \A n \in Node : n # x => u2.child[n] = u1.child[n]
  <2>1. /\ u2 \in Tree /\ u2.parent = u1.parent /\ u2.color = u1.color /\ u2.root = u1.root
        /\ u2.child[x][o] = b /\ u2.child[x][Other(o)] = u1.child[x][Other(o)]
        /\ \A n \in Node : n # x => u2.child[n] = u1.child[n]
    <3>1. u1 \in Tree /\ x \in Node /\ o \in Side /\ b \in Node
      BY <1>2, <1>4, <1>5, <1>7
    <3> QED BY ONLY <3>1, ChildFields DEF u2
  <2>2. u1.child[x] = t.child[x]
    BY <1>4, <1>5, <1>10
  <2> QED BY <1>2, <1>7, <2>1, <2>2
<1>12. /\ u3 \in Tree /\ u3.parent = t.parent /\ u3.color = t.color /\ u3.root = u1.root
       /\ u3.child[y][s] = x /\ u3.child[y][o] = t.child[y][o]
       /\ \A n \in Node : n # y => u3.child[n] = u2.child[n]
  <2>1. /\ u3 \in Tree /\ u3.parent = u2.parent /\ u3.color = u2.color /\ u3.root = u2.root
        /\ u3.child[y][s] = x /\ u3.child[y][Other(s)] = u2.child[y][Other(s)]
        /\ \A n \in Node : n # y => u3.child[n] = u2.child[n]
    <3>1. u2 \in Tree /\ y \in Node /\ s \in Side /\ x \in Node
      BY <1>2, <1>4, <1>5, <1>11
    <3> QED BY ONLY <3>1, ChildFields DEF u3
  <2>2. u2.child[y] = t.child[y]
    BY <1>3, <1>4, <1>5, <1>10, <1>11
  <2> QED BY <1>2, <1>11, <2>1, <2>2 DEF o
<1>13. /\ u4 \in Tree /\ u4.child = u3.child /\ u4.color = u3.color /\ u4.root = u3.root
       /\ b # Nil => u4.parent[b] = x
       /\ \A m \in Node : m # b \/ m = Nil => u4.parent[m] = u3.parent[m]
  <2>1. u3 \in Tree /\ b \in Node /\ x \in Node
    BY <1>4, <1>5, <1>12
  <2> QED BY ONLY <2>1, SetParentFields DEF u4
<1>14. /\ u5 \in Tree /\ u5.child = u4.child /\ u5.color = u4.color /\ u5.root = u4.root /\ u5.parent[y] = p
       /\ \A m \in Node : m # y => u5.parent[m] = u4.parent[m]
  BY <1>4, <1>5, <1>13, ParentFields DEF u5
<1>15. /\ u6 \in Tree /\ u6.child = u5.child /\ u6.color = u5.color /\ u6.root = u5.root /\ u6.parent[x] = y
       /\ \A m \in Node : m # x => u6.parent[m] = u5.parent[m]
  BY <1>4, <1>5, <1>14, ParentFields DEF u6
<1>16. /\ u6.child = u3.child /\ u6.color = t.color /\ u6.root = IF t.root = x THEN y ELSE t.root
  BY <1>8, <1>12, <1>13, <1>14, <1>15
<1>17. /\ u6.child[x][o] = b /\ u6.child[x][s] = t.child[x][s]
       /\ u6.child[y][s] = x /\ u6.child[y][o] = t.child[y][o]
  BY <1>3, <1>4, <1>11, <1>12, <1>16
<1>18. \A n \in Node : n # x /\ n # y => u6.child[n] = u1.child[n]
  BY <1>11, <1>12, <1>16
<1>19. ASSUME NEW n \in P, NEW d \in Side, n # x, n # y
       PROVE  u6.child[n][d] = IF t.child[n][d] = x THEN y ELSE t.child[n][d]
  <2>1. n \in Node /\ n # Nil
    BY <1>4 DEF Node
  <2>2. CASE n = p
    BY <1>9, <1>18, <1>19, <2>1, <2>2
  <2>3. CASE n # p
    BY <1>6, <1>10, <1>18, <1>19, <2>1, <2>3
  <2> QED BY <2>2, <2>3
<1>20. \A n \in Node \ P : u6.child[n] = t.child[n]
  <2> SUFFICES ASSUME NEW n \in Node \ P PROVE u6.child[n] = t.child[n]
    OBVIOUS
  <2>1. n # x /\ n # y
    BY <1>3
  <2>2. CASE p = Nil
    BY <1>7, <1>18, <2>1, <2>2
  <2>3. CASE p # Nil
    BY <1>5, <1>7, <1>18, <2>1, <2>3
  <2> QED BY <2>2, <2>3
<1>21. u6.parent[y] = p /\ u6.parent[x] = y /\ (b # Nil => u6.parent[b] = x) /\ u6.parent[Nil] = t.parent[Nil]
  BY <1>3, <1>4, <1>5, <1>12, <1>13, <1>14, <1>15 DEF Node
<1>22. ASSUME NEW n \in P, n # x, n # y, n # b PROVE u6.parent[n] = t.parent[n]
  BY <1>4, <1>12, <1>13, <1>14, <1>15, <1>22 DEF Node
<1>23. Rotated(t, u6, P, x, y, s)
  BY <1>15, <1>16, <1>17, <1>19, <1>20, <1>21, <1>22 DEF Rotated, o, b, p
<1> QED BY <1>1, <1>23
----------------------------------------------------------------------------
\* After a rotation children and parents still agree.
LEMMA RotateJoins ==
  ASSUME NEW t \in Tree, NEW P, NEW pos, NEW low, NEW high, Shape(t, P, pos, low, high),
         NEW x \in P, NEW s \in Side, NEW y, y = t.child[x][Other(s)], y # Nil,
         NEW u, Rotated(t, u, P, x, y, s)
  PROVE  Joined(u, P) /\ P \subseteq Data /\ y \in P /\ x # y /\ t.child[y][s] # x /\ t.child[y][s] # y
<1> DEFINE o == Other(s)
           b == t.child[y][s]
           p == t.parent[x]
<1>1. /\ o \in Side /\ o # s /\ \A d \in Side : d = s \/ d = o
  BY Sides
<1>2. /\ y \in P /\ y # x /\ y # t.root /\ t.parent[y] = x /\ p # y
      /\ \A d \in Side : t.child[y][d] # x /\ t.child[y][d] # y
  BY <1>1, Apart
<1>3. P \subseteq Data /\ Nil \notin P /\ x # Nil /\ y # Nil /\ P \subseteq Node
  BY <1>2, TreeAssumption DEF Shape, Seated, Node
<1>4. b # Nil => b \in P /\ t.parent[b] = y
  BY <1>2 DEF Shape, Joined
<1>5. \A n \in P, d \in Side : t.child[n][d] # Nil => t.child[n][d] \in P /\ t.parent[t.child[n][d]] = n
  BY DEF Shape, Joined
<1>6. t.child[x][s] # y
  BY <1>1, Apart
<1>7. /\ u.child[x][o] = b /\ u.child[x][s] = t.child[x][s]
      /\ u.child[y][s] = x /\ u.child[y][o] = t.child[y][o]
      /\ \A n \in P, d \in Side : n # x /\ n # y => u.child[n][d] = IF t.child[n][d] = x THEN y ELSE t.child[n][d]
      /\ \A n \in Node \ P : u.child[n] = t.child[n]
      /\ u.parent[y] = p /\ u.parent[x] = y
      /\ b # Nil => u.parent[b] = x
      /\ \A n \in P : n # x /\ n # y /\ n # b => u.parent[n] = t.parent[n]
      /\ u.root = IF t.root = x THEN y ELSE t.root
  BY DEF Rotated
<1> HIDE DEF o, b, p
<1>8. ASSUME NEW n \in P, NEW d \in Side, u.child[n][d] # Nil
      PROVE  u.child[n][d] \in P /\ u.parent[u.child[n][d]] = n
  <2>1. CASE n = x /\ d = o
    BY <1>4, <1>7, <1>8, <2>1
  <2>2. CASE n = x /\ d = s
    <3>1. u.child[n][d] = t.child[x][s] /\ t.child[x][s] \in P /\ t.parent[t.child[x][s]] = x
      <4>1. u.child[n][d] = t.child[x][s] /\ u.child[n][d] # Nil
        BY <1>7, <1>8, <2>2
      <4> QED BY ONLY <1>5, <4>1, x \in P, s \in Side
    <3>2. t.child[x][s] # x /\ t.child[x][s] # y
      <4>1. t.child[x][s] # Nil
        BY <1>8, <2>2, <3>1
      <4> QED BY ONLY <1>6, <4>1, Apart, t \in Tree, Shape(t, P, pos, low, high), x \in P, s \in Side
    <3>3. t.child[x][s] # b
      BY ONLY <1>2, <1>3, <1>4, <3>1
    <3> QED BY <1>7, <2>2, <3>1, <3>2, <3>3
  <2>3. CASE n = y /\ d = s
    BY <1>7, <2>3
  <2>4. CASE n = y /\ d = o
    <3>1. u.child[n][d] = t.child[y][o] /\ t.child[y][o] \in P /\ t.parent[t.child[y][o]] = y
      BY <1>1, <1>2, <1>5, <1>7, <1>8, <2>4
    <3>2. t.child[y][o] # x /\ t.child[y][o] # y
      BY ONLY <1>1, <1>2
    <3>3. t.child[y][o] # b
      <4>1. y \in P /\ o \in Side /\ s \in Side /\ t.child[y][o] # Nil /\ Other(o) = s
        BY <1>1, <1>2, <1>3, <3>1, Sides DEF o
      <4>2. t.child[y][o] # t.child[y][Other(o)]
        BY ONLY <4>1, Apart, t \in Tree, Shape(t, P, pos, low, high)
      <4> QED BY ONLY <4>1, <4>2 DEF b
    <3> QED BY <1>7, <2>4, <3>1, <3>2, <3>3
  <2>5. CASE n # x /\ n # y
    <3>1. CASE t.child[n][d] = x
      <4>1. n = p
        BY <1>3, <1>5, <3>1 DEF p
      <4> QED BY <1>2, <1>7, <2>5, <3>1, <4>1
    <3>2. CASE t.child[n][d] # x
      <4>1. u.child[n][d] = t.child[n][d] /\ t.child[n][d] \in P /\ t.parent[t.child[n][d]] = n
        BY <1>5, <1>7, <1>8, <2>5, <3>2
      <4>2. t.child[n][d] # y /\ t.child[n][d] # b
        BY <1>2, <1>3, <1>4, <2>5, <4>1
      <4> QED BY <1>7, <3>2, <4>1, <4>2
    <3> QED BY <3>1, <3>2
  <2> QED BY <1>1, <2>1, <2>2, <2>3, <2>4, <2>5
<1>9. /\ u.root # Nil => u.root \in P /\ u.parent[u.root] = Nil
      /\ u.root = Nil => P = {}
  <2>1. /\ t.root # Nil => t.root \in P /\ t.parent[t.root] = Nil
        /\ t.root = Nil => P = {}
    BY DEF Shape, Joined
  <2>2. CASE t.root = x
    BY <1>2, <1>3, <1>7, <2>1, <2>2 DEF p
  <2>3. CASE t.root # x
    <3>1. t.root # b
      BY <1>3, <1>4, <2>1
    <3> QED BY <1>2, <1>7, <2>1, <2>3, <3>1
  <2> QED BY <2>2, <2>3
<1>10. ASSUME NEW n \in P, n # u.root PROVE u.parent[n] \in P /\ \E d \in Side : u.child[u.parent[n]][d] = n
  <2>1. CASE n = x
    BY ONLY <1>2, <1>7, <2>1, n \in P
  <2>2. CASE n = y
    <3>1. x # t.root
      BY <1>7, <1>10, <2>2
    <3>2. p \in P /\ \E d \in Side : t.child[p][d] = x
      BY <3>1 DEF Shape, Joined, p
    <3>3. p # x
      BY <1>3, <3>2, Apart
    <3> QED BY <1>2, <1>7, <2>2, <3>2, <3>3
  <2>3. CASE n # x /\ n # y /\ n = b
    BY <1>1, <1>3, <1>7, <2>3
  <2>4. CASE n # x /\ n # y /\ n # b
    <3>1. n # t.root
      BY <1>7, <1>10, <2>4
    <3>2. u.parent[n] = t.parent[n] /\ t.parent[n] \in P
      BY <1>7, <2>4, <3>1 DEF Shape, Joined
    <3>3. PICK d \in Side : t.child[t.parent[n]][d] = n
      BY <3>1 DEF Shape, Joined
    <3>4. CASE t.parent[n] = x
      <4>1. d = s
        BY <1>1, <2>4, <3>3, <3>4 DEF o
      <4> QED BY <1>7, <3>2, <3>3, <3>4, <4>1
    <3>5. CASE t.parent[n] = y
      <4>1. d = o
        BY <1>1, <2>4, <3>3, <3>5 DEF b
      <4> QED BY <1>1, <1>7, <3>2, <3>3, <3>5, <4>1
    <3>6. CASE t.parent[n] # x /\ t.parent[n] # y
      BY <1>7, <2>4, <3>2, <3>3, <3>6
    <3> QED BY <3>4, <3>5, <3>6
  <2> QED BY <2>1, <2>2, <2>3, <2>4
<1>11. /\ \A n \in Node \ P, d \in Side : u.child[n][d] \in P \cup {Nil}
       /\ \A d \in Side : u.child[Nil][d] = Nil
  BY <1>3, <1>7 DEF Shape, Joined, Node
<1> QED BY <1>2, <1>3, <1>8, <1>9, <1>10, <1>11 DEF Joined, b

\* A rotation to the left keeps every place; the two nodes change their ranges.
LEMMA RotateLeftShape ==
  ASSUME NEW t \in Tree, NEW P, NEW pos, NEW low, NEW high, Shape(t, P, pos, low, high),
         NEW x \in P, NEW y, y = t.child[x]["right"], y # Nil,
         NEW u, Rotated(t, u, P, x, y, "left")
  PROVE  Shape(u, P, pos, [low EXCEPT ![y] = low[x]], [high EXCEPT ![y] = high[x], ![x] = pos[y] - 1])
<1> DEFINE low2 == [low EXCEPT ![y] = low[x]]
           high2 == [high EXCEPT ![y] = high[x], ![x] = pos[y] - 1]
           b == t.child[y]["left"]
<1>1. /\ "left" \in Side /\ "right" \in Side /\ Other("left") = "right" /\ Other("right") = "left"
      /\ \A d \in Side : d = "left" \/ d = "right"
  BY DEF Side, Other
<1>2. Joined(u, P) /\ P \subseteq Data /\ y \in P /\ x # y /\ b # x /\ b # y
  <2>1. y = t.child[x][Other("left")]
    BY <1>1
  <2> QED BY <1>1, <2>1, RotateJoins
<1>3. /\ pos \in [Data -> Int] /\ low \in [Data -> Int] /\ high \in [Data -> Int]
      /\ \A n \in P : pos[n] \in Int /\ low[n] \in Int /\ high[n] \in Int /\ low[n] <= pos[n] /\ pos[n] <= high[n]
      /\ \A m, n \in P : pos[m] = pos[n] => m = n
  BY <1>2 DEF Shape, Seated
<1>4. pos[x] < low[y] /\ high[y] <= high[x]
  BY DEF Shape, Nested
<1>5. x \in Data /\ y \in Data /\ pos[x] < pos[y] /\ Nil \notin P
  BY <1>2, <1>3, <1>4, TreeAssumption
<1>6. /\ low2 \in [Data -> Int] /\ high2 \in [Data -> Int]
      /\ low2[x] = low[x] /\ high2[x] = pos[y] - 1 /\ low2[y] = low[x] /\ high2[y] = high[x]
      /\ \A n \in P : n # x /\ n # y => low2[n] = low[n] /\ high2[n] = high[n]
      /\ \A n \in P : low2[n] \in Int /\ high2[n] \in Int
  BY <1>2, <1>3, <1>5
<1> HIDE DEF low2, high2
<1>7. /\ u.child[x]["right"] = b /\ u.child[x]["left"] = t.child[x]["left"]
      /\ u.child[y]["left"] = x /\ u.child[y]["right"] = t.child[y]["right"]
      /\ \A n \in P, d \in Side : n # x /\ n # y => u.child[n][d] = IF t.child[n][d] = x THEN y ELSE t.child[n][d]
      /\ u.root = IF t.root = x THEN y ELSE t.root
  BY <1>1 DEF Rotated
<1>8. \A n \in P, d \in Side :
        t.child[n][d] # Nil => t.child[n][d] \in P /\ t.parent[t.child[n][d]] = n /\ t.child[n][d] # n
  BY Apart
<1>9. /\ \A n \in P : t.child[n]["left"] # Nil => low[n] <= low[t.child[n]["left"]] /\ high[t.child[n]["left"]] < pos[n]
      /\ \A n \in P : t.child[n]["right"] # Nil => pos[n] < low[t.child[n]["right"]] /\ high[t.child[n]["right"]] <= high[n]
  BY DEF Shape, Nested
<1>10. /\ \A m, n \in P : At(m, n, pos, low, high) /\ pos[m] < pos[n] =>
            t.child[n]["left"] # Nil /\ At(m, t.child[n]["left"], pos, low, high)
       /\ \A m, n \in P : At(m, n, pos, low, high) /\ pos[n] < pos[m] =>
            t.child[n]["right"] # Nil /\ At(m, t.child[n]["right"], pos, low, high)
       /\ \A m \in P : At(m, t.root, pos, low, high)
  BY DEF Shape, Full
<1> HIDE DEF b
<1>11. Seated(P, pos, low2, high2)
  <2> SUFFICES ASSUME NEW n \in P PROVE low2[n] <= pos[n] /\ pos[n] <= high2[n]
    BY <1>2, <1>3, <1>6 DEF Seated
  <2>1. CASE n = x
    BY <1>3, <1>5, <1>6, <2>1
  <2>2. CASE n = y
    BY <1>2, <1>3, <1>4, <1>5, <1>6, <2>2
  <2>3. CASE n # x /\ n # y
    BY <1>3, <1>6, <2>3
  <2> QED BY <2>1, <2>2, <2>3
<1>12. /\ t.child[x]["left"] # y /\ t.child[y]["right"] # x /\ t.child[y]["right"] # y
       /\ t.child[x]["left"] # x
       /\ \A n \in P, d \in Side : n # x => t.child[n][d] # y
  <2>1. t.parent[y] = x
    BY <1>1, <1>5, <1>8
  <2>2. t.child[x]["left"] # y
    BY <1>1, <1>2, <1>5, Apart
  <2>3. t.child[y]["right"] # x /\ t.child[y]["right"] # y
    BY <1>1, <1>2, <1>5, Apart
  <2> QED BY <1>1, <1>2, <1>5, <1>8, <2>1, <2>2, <2>3
<1>13. ASSUME NEW n \in P, u.child[n]["left"] # Nil
       PROVE  low2[n] <= low2[u.child[n]["left"]] /\ high2[u.child[n]["left"]] < pos[n]
  <2>1. CASE n = x
    <3>1. t.child[x]["left"] \in P /\ low[x] <= low[t.child[x]["left"]] /\ high[t.child[x]["left"]] < pos[x]
      BY <1>1, <1>7, <1>8, <1>9, <1>13, <2>1
    <3> QED BY <1>2, <1>3, <1>5, <1>6, <1>7, <1>12, <2>1, <3>1
  <2>2. CASE n = y
    BY <1>2, <1>3, <1>4, <1>5, <1>6, <1>7, <2>2
  <2>3. CASE n # x /\ n # y /\ t.child[n]["left"] = x
    <3>1. u.child[n]["left"] = y /\ low[n] <= low[x] /\ high[x] < pos[n]
      BY <1>1, <1>5, <1>7, <1>9, <2>3
    <3> QED BY <1>3, <1>6, <2>3, <3>1
  <2>4. CASE n # x /\ n # y /\ t.child[n]["left"] # x
    <3>1. /\ u.child[n]["left"] = t.child[n]["left"] /\ t.child[n]["left"] \in P /\ t.child[n]["left"] # y
          /\ low[n] <= low[t.child[n]["left"]] /\ high[t.child[n]["left"]] < pos[n]
      BY <1>1, <1>7, <1>8, <1>9, <1>12, <1>13, <2>4
    <3> QED BY <1>3, <1>6, <2>4, <3>1
  <2> QED BY <2>1, <2>2, <2>3, <2>4
<1>14. ASSUME NEW n \in P, u.child[n]["right"] # Nil
       PROVE  pos[n] < low2[u.child[n]["right"]] /\ high2[u.child[n]["right"]] <= high2[n]
  <2>1. CASE n = x
    <3>1. b \in P /\ low[y] <= low[b] /\ high[b] < pos[y]
      BY <1>1, <1>2, <1>7, <1>8, <1>9, <1>14, <2>1 DEF b
    <3> QED BY <1>2, <1>3, <1>4, <1>5, <1>6, <1>7, <2>1, <3>1
  <2>2. CASE n = y
    <3>1. t.child[y]["right"] \in P /\ pos[y] < low[t.child[y]["right"]] /\ high[t.child[y]["right"]] <= high[y]
      BY <1>1, <1>2, <1>7, <1>8, <1>9, <1>14, <2>2
    <3> QED BY <1>2, <1>3, <1>4, <1>5, <1>6, <1>7, <1>12, <2>2, <3>1
  <2>3. CASE n # x /\ n # y /\ t.child[n]["right"] = x
    <3>1. u.child[n]["right"] = y /\ pos[n] < low[x] /\ high[x] <= high[n]
      BY <1>1, <1>5, <1>7, <1>9, <2>3
    <3> QED BY <1>3, <1>6, <2>3, <3>1
  <2>4. CASE n # x /\ n # y /\ t.child[n]["right"] # x
    <3>1. /\ u.child[n]["right"] = t.child[n]["right"] /\ t.child[n]["right"] \in P /\ t.child[n]["right"] # y
          /\ pos[n] < low[t.child[n]["right"]] /\ high[t.child[n]["right"]] <= high[n]
      BY <1>1, <1>7, <1>8, <1>9, <1>12, <1>14, <2>4
    <3> QED BY <1>3, <1>6, <2>4, <3>1
  <2> QED BY <2>1, <2>2, <2>3, <2>4
<1>15. /\ \A m, n \in P : At(m, n, pos, low2, high2) <=> low2[n] <= pos[m] /\ pos[m] <= high2[n]
       /\ \A m, n \in P : At(m, n, pos, low, high) <=> low[n] <= pos[m] /\ pos[m] <= high[n]
  BY DEF At
<1>16. /\ \A m \in P : At(m, x, pos, low2, high2) => At(m, x, pos, low, high) /\ m # y /\ pos[m] < pos[y]
       /\ \A m \in P : At(m, x, pos, low, high) /\ pos[m] < pos[y] => At(m, x, pos, low2, high2)
       /\ \A m \in P : At(m, y, pos, low2, high2) <=> At(m, x, pos, low, high)
       /\ \A m, n \in P : n # x /\ n # y => (At(m, n, pos, low2, high2) <=> At(m, n, pos, low, high))
  BY <1>2, <1>3, <1>4, <1>5, <1>6, <1>15
<1>17. ASSUME NEW m \in P, NEW n \in P, At(m, n, pos, low2, high2), pos[m] < pos[n]
       PROVE  u.child[n]["left"] # Nil /\ At(m, u.child[n]["left"], pos, low2, high2)
  <2>1. CASE n = x
    <3>1. t.child[x]["left"] # Nil /\ At(m, t.child[x]["left"], pos, low, high)
      BY <1>10, <1>16, <1>17, <2>1
    <3> QED BY <1>1, <1>7, <1>8, <1>12, <1>16, <2>1, <3>1
  <2>2. CASE n = y
    <3>1. At(m, x, pos, low, high) /\ pos[m] < pos[y]
      BY <1>16, <1>17, <2>2
    <3> QED BY <1>5, <1>7, <1>16, <2>2, <3>1
  <2>3. CASE n # x /\ n # y
    <3>1. t.child[n]["left"] # Nil /\ At(m, t.child[n]["left"], pos, low, high)
      BY <1>10, <1>16, <1>17, <2>3
    <3>2. u.child[n]["left"] = IF t.child[n]["left"] = x THEN y ELSE t.child[n]["left"]
      BY <1>1, <1>7, <2>3
    <3>3. t.child[n]["left"] \in P /\ t.child[n]["left"] # y
      BY <1>1, <1>8, <1>12, <2>3, <3>1
    <3> QED BY <1>5, <1>16, <3>1, <3>2, <3>3
  <2> QED BY <2>1, <2>2, <2>3
<1>18. ASSUME NEW m \in P, NEW n \in P, At(m, n, pos, low2, high2), pos[n] < pos[m]
       PROVE  u.child[n]["right"] # Nil /\ At(m, u.child[n]["right"], pos, low2, high2)
  <2>1. CASE n = x
    <3>1. At(m, x, pos, low, high) /\ m # y /\ pos[m] < pos[y]
      BY <1>16, <1>18, <2>1
    <3>2. At(m, y, pos, low, high)
      BY <1>10, <1>18, <2>1, <3>1
    <3>3. b # Nil /\ At(m, b, pos, low, high)
      BY <1>2, <1>10, <3>1, <3>2 DEF b
    <3> QED BY <1>1, <1>2, <1>7, <1>8, <1>16, <2>1, <3>3 DEF b
  <2>2. CASE n = y
    <3>1. At(m, x, pos, low, high) /\ pos[x] < pos[m]
      BY <1>2, <1>3, <1>5, <1>16, <1>18, <2>2
    <3>2. At(m, y, pos, low, high)
      BY <1>10, <3>1
    <3>3. t.child[y]["right"] # Nil /\ At(m, t.child[y]["right"], pos, low, high)
      BY <1>2, <1>10, <1>18, <2>2, <3>2
    <3> QED BY <1>1, <1>2, <1>7, <1>8, <1>12, <1>16, <2>2, <3>3
  <2>3. CASE n # x /\ n # y
    <3>1. t.child[n]["right"] # Nil /\ At(m, t.child[n]["right"], pos, low, high)
      BY <1>10, <1>16, <1>18, <2>3
    <3>2. u.child[n]["right"] = IF t.child[n]["right"] = x THEN y ELSE t.child[n]["right"]
      BY <1>1, <1>7, <2>3
    <3>3. t.child[n]["right"] \in P /\ t.child[n]["right"] # y
      BY <1>1, <1>8, <1>12, <2>3, <3>1
    <3> QED BY <1>5, <1>16, <3>1, <3>2, <3>3
  <2> QED BY <2>1, <2>2, <2>3
<1>19. ASSUME NEW m \in P PROVE At(m, u.root, pos, low2, high2)
  <2>1. t.root \in P /\ t.root # y
    <3>1. t.root \in P
      BY DEF Shape, Joined
    <3> QED BY <1>1, <1>5, <3>1, Apart
  <2> QED BY <1>7, <1>10, <1>16, <2>1
<1> QED BY <1>2, <1>11, <1>13, <1>14, <1>17, <1>18, <1>19 DEF Shape, Nested, Full, low2, high2

\* So does a rotation to the right.
LEMMA RotateRightShape ==
  ASSUME NEW t \in Tree, NEW P, NEW pos, NEW low, NEW high, Shape(t, P, pos, low, high),
         NEW x \in P, NEW y, y = t.child[x]["left"], y # Nil,
         NEW u, Rotated(t, u, P, x, y, "right")
  PROVE  Shape(u, P, pos, [low EXCEPT ![y] = low[x], ![x] = pos[y] + 1], [high EXCEPT ![y] = high[x]])
<1> DEFINE low2 == [low EXCEPT ![y] = low[x], ![x] = pos[y] + 1]
           high2 == [high EXCEPT ![y] = high[x]]
           b == t.child[y]["right"]
<1>1. /\ "right" \in Side /\ "left" \in Side /\ Other("right") = "left" /\ Other("left") = "right"
      /\ \A d \in Side : d = "right" \/ d = "left"
  BY DEF Side, Other
<1>2. Joined(u, P) /\ P \subseteq Data /\ y \in P /\ x # y /\ b # x /\ b # y
  <2>1. y = t.child[x][Other("right")]
    BY <1>1
  <2> QED BY <1>1, <2>1, RotateJoins
<1>3. /\ pos \in [Data -> Int] /\ low \in [Data -> Int] /\ high \in [Data -> Int]
      /\ \A n \in P : pos[n] \in Int /\ low[n] \in Int /\ high[n] \in Int /\ low[n] <= pos[n] /\ pos[n] <= high[n]
      /\ \A m, n \in P : pos[m] = pos[n] => m = n
  BY <1>2 DEF Shape, Seated
<1>4. high[y] < pos[x] /\ low[x] <= low[y]
  BY DEF Shape, Nested
<1>5. x \in Data /\ y \in Data /\ pos[y] < pos[x] /\ Nil \notin P
  BY <1>2, <1>3, <1>4, TreeAssumption
<1>6. /\ low2 \in [Data -> Int] /\ high2 \in [Data -> Int]
      /\ low2[x] = pos[y] + 1 /\ high2[x] = high[x] /\ low2[y] = low[x] /\ high2[y] = high[x]
      /\ \A n \in P : n # x /\ n # y => low2[n] = low[n] /\ high2[n] = high[n]
      /\ \A n \in P : low2[n] \in Int /\ high2[n] \in Int
  BY <1>2, <1>3, <1>5
<1> HIDE DEF low2, high2
<1>7. /\ u.child[x]["left"] = b /\ u.child[x]["right"] = t.child[x]["right"]
      /\ u.child[y]["right"] = x /\ u.child[y]["left"] = t.child[y]["left"]
      /\ \A n \in P, d \in Side : n # x /\ n # y => u.child[n][d] = IF t.child[n][d] = x THEN y ELSE t.child[n][d]
      /\ u.root = IF t.root = x THEN y ELSE t.root
  BY <1>1 DEF Rotated
<1>8. \A n \in P, d \in Side :
        t.child[n][d] # Nil => t.child[n][d] \in P /\ t.parent[t.child[n][d]] = n /\ t.child[n][d] # n
  BY Apart
<1>9. /\ \A n \in P : t.child[n]["left"] # Nil => low[n] <= low[t.child[n]["left"]] /\ high[t.child[n]["left"]] < pos[n]
      /\ \A n \in P : t.child[n]["right"] # Nil => pos[n] < low[t.child[n]["right"]] /\ high[t.child[n]["right"]] <= high[n]
  BY DEF Shape, Nested
<1>10. /\ \A m, n \in P : At(m, n, pos, low, high) /\ pos[m] < pos[n] =>
            t.child[n]["left"] # Nil /\ At(m, t.child[n]["left"], pos, low, high)
       /\ \A m, n \in P : At(m, n, pos, low, high) /\ pos[n] < pos[m] =>
            t.child[n]["right"] # Nil /\ At(m, t.child[n]["right"], pos, low, high)
       /\ \A m \in P : At(m, t.root, pos, low, high)
  BY DEF Shape, Full
<1> HIDE DEF b
<1>11. Seated(P, pos, low2, high2)
  <2> SUFFICES ASSUME NEW n \in P PROVE low2[n] <= pos[n] /\ pos[n] <= high2[n]
    BY <1>2, <1>3, <1>6 DEF Seated
  <2>1. CASE n = x
    BY <1>3, <1>5, <1>6, <2>1
  <2>2. CASE n = y
    BY <1>2, <1>3, <1>4, <1>5, <1>6, <2>2
  <2>3. CASE n # x /\ n # y
    BY <1>3, <1>6, <2>3
  <2> QED BY <2>1, <2>2, <2>3
<1>12. /\ t.child[x]["right"] # y /\ t.child[y]["left"] # x /\ t.child[y]["left"] # y
       /\ t.child[x]["right"] # x
       /\ \A n \in P, d \in Side : n # x => t.child[n][d] # y
  <2>1. t.parent[y] = x
    BY <1>1, <1>5, <1>8
  <2>2. t.child[x]["right"] # y
    BY <1>1, <1>2, <1>5, Apart
  <2>3. t.child[y]["left"] # x /\ t.child[y]["left"] # y
    BY <1>1, <1>2, <1>5, Apart
  <2> QED BY <1>1, <1>2, <1>5, <1>8, <2>1, <2>2, <2>3
<1>13. ASSUME NEW n \in P, u.child[n]["left"] # Nil
       PROVE  low2[n] <= low2[u.child[n]["left"]] /\ high2[u.child[n]["left"]] < pos[n]
  <2>1. CASE n = x
    <3>1. b \in P /\ pos[y] < low[b] /\ high[b] <= high[y]
      BY <1>1, <1>2, <1>7, <1>8, <1>9, <1>13, <2>1 DEF b
    <3> QED BY <1>2, <1>3, <1>4, <1>5, <1>6, <1>7, <2>1, <3>1
  <2>2. CASE n = y
    <3>1. t.child[y]["left"] \in P /\ low[y] <= low[t.child[y]["left"]] /\ high[t.child[y]["left"]] < pos[y]
      BY <1>1, <1>2, <1>7, <1>8, <1>9, <1>13, <2>2
    <3> QED BY <1>2, <1>3, <1>4, <1>5, <1>6, <1>7, <1>12, <2>2, <3>1
  <2>3. CASE n # x /\ n # y /\ t.child[n]["left"] = x
    <3>1. u.child[n]["left"] = y /\ low[n] <= low[x] /\ high[x] < pos[n]
      BY <1>1, <1>5, <1>7, <1>9, <2>3
    <3> QED BY <1>3, <1>6, <2>3, <3>1
  <2>4. CASE n # x /\ n # y /\ t.child[n]["left"] # x
    <3>1. /\ u.child[n]["left"] = t.child[n]["left"] /\ t.child[n]["left"] \in P /\ t.child[n]["left"] # y
          /\ low[n] <= low[t.child[n]["left"]] /\ high[t.child[n]["left"]] < pos[n]
      BY <1>1, <1>7, <1>8, <1>9, <1>12, <1>13, <2>4
    <3> QED BY <1>3, <1>6, <2>4, <3>1
  <2> QED BY <2>1, <2>2, <2>3, <2>4
<1>14. ASSUME NEW n \in P, u.child[n]["right"] # Nil
       PROVE  pos[n] < low2[u.child[n]["right"]] /\ high2[u.child[n]["right"]] <= high2[n]
  <2>1. CASE n = x
    <3>1. t.child[x]["right"] \in P /\ pos[x] < low[t.child[x]["right"]] /\ high[t.child[x]["right"]] <= high[x]
      BY <1>1, <1>7, <1>8, <1>9, <1>14, <2>1
    <3> QED BY <1>2, <1>3, <1>5, <1>6, <1>7, <1>12, <2>1, <3>1
  <2>2. CASE n = y
    BY <1>2, <1>3, <1>4, <1>5, <1>6, <1>7, <2>2
  <2>3. CASE n # x /\ n # y /\ t.child[n]["right"] = x
    <3>1. u.child[n]["right"] = y /\ pos[n] < low[x] /\ high[x] <= high[n]
      BY <1>1, <1>5, <1>7, <1>9, <2>3
    <3> QED BY <1>3, <1>6, <2>3, <3>1
  <2>4. CASE n # x /\ n # y /\ t.child[n]["right"] # x
    <3>1. /\ u.child[n]["right"] = t.child[n]["right"] /\ t.child[n]["right"] \in P /\ t.child[n]["right"] # y
          /\ pos[n] < low[t.child[n]["right"]] /\ high[t.child[n]["right"]] <= high[n]
      BY <1>1, <1>7, <1>8, <1>9, <1>12, <1>14, <2>4
    <3> QED BY <1>3, <1>6, <2>4, <3>1
  <2> QED BY <2>1, <2>2, <2>3, <2>4
<1>15. /\ \A m, n \in P : At(m, n, pos, low2, high2) <=> low2[n] <= pos[m] /\ pos[m] <= high2[n]
       /\ \A m, n \in P : At(m, n, pos, low, high) <=> low[n] <= pos[m] /\ pos[m] <= high[n]
  BY DEF At
<1>16. /\ \A m \in P : At(m, x, pos, low2, high2) => At(m, x, pos, low, high) /\ m # y /\ pos[y] < pos[m]
       /\ \A m \in P : At(m, x, pos, low, high) /\ pos[y] < pos[m] => At(m, x, pos, low2, high2)
       /\ \A m \in P : At(m, y, pos, low2, high2) <=> At(m, x, pos, low, high)
       /\ \A m, n \in P : n # x /\ n # y => (At(m, n, pos, low2, high2) <=> At(m, n, pos, low, high))
  BY <1>2, <1>3, <1>4, <1>5, <1>6, <1>15
<1>17. ASSUME NEW m \in P, NEW n \in P, At(m, n, pos, low2, high2), pos[m] < pos[n]
       PROVE  u.child[n]["left"] # Nil /\ At(m, u.child[n]["left"], pos, low2, high2)
  <2>1. CASE n = x
    <3>1. At(m, x, pos, low, high) /\ m # y /\ pos[y] < pos[m]
      BY <1>16, <1>17, <2>1
    <3>2. At(m, y, pos, low, high)
      BY <1>10, <1>17, <2>1, <3>1
    <3>3. b # Nil /\ At(m, b, pos, low, high)
      BY <1>2, <1>10, <3>1, <3>2 DEF b
    <3> QED BY <1>1, <1>2, <1>7, <1>8, <1>16, <2>1, <3>3 DEF b
  <2>2. CASE n = y
    <3>1. At(m, x, pos, low, high) /\ pos[m] < pos[x]
      BY <1>2, <1>3, <1>5, <1>16, <1>17, <2>2
    <3>2. At(m, y, pos, low, high)
      BY <1>10, <3>1
    <3>3. t.child[y]["left"] # Nil /\ At(m, t.child[y]["left"], pos, low, high)
      BY <1>2, <1>10, <1>17, <2>2, <3>2
    <3> QED BY <1>1, <1>2, <1>7, <1>8, <1>12, <1>16, <2>2, <3>3
  <2>3. CASE n # x /\ n # y
    <3>1. t.child[n]["left"] # Nil /\ At(m, t.child[n]["left"], pos, low, high)
      BY <1>10, <1>16, <1>17, <2>3
    <3>2. u.child[n]["left"] = IF t.child[n]["left"] = x THEN y ELSE t.child[n]["left"]
      BY <1>1, <1>7, <2>3
    <3>3. t.child[n]["left"] \in P /\ t.child[n]["left"] # y
      BY <1>1, <1>8, <1>12, <2>3, <3>1
    <3> QED BY <1>5, <1>16, <3>1, <3>2, <3>3
  <2> QED BY <2>1, <2>2, <2>3
<1>18. ASSUME NEW m \in P, NEW n \in P, At(m, n, pos, low2, high2), pos[n] < pos[m]
       PROVE  u.child[n]["right"] # Nil /\ At(m, u.child[n]["right"], pos, low2, high2)
  <2>1. CASE n = x
    <3>1. t.child[x]["right"] # Nil /\ At(m, t.child[x]["right"], pos, low, high)
      BY <1>10, <1>16, <1>18, <2>1
    <3> QED BY <1>1, <1>7, <1>8, <1>12, <1>16, <2>1, <3>1
  <2>2. CASE n = y
    <3>1. At(m, x, pos, low, high) /\ pos[y] < pos[m]
      BY <1>16, <1>18, <2>2
    <3> QED BY <1>5, <1>7, <1>16, <2>2, <3>1
  <2>3. CASE n # x /\ n # y
    <3>1. t.child[n]["right"] # Nil /\ At(m, t.child[n]["right"], pos, low, high)
      BY <1>10, <1>16, <1>18, <2>3
    <3>2. u.child[n]["right"] = IF t.child[n]["right"] = x THEN y ELSE t.child[n]["right"]
      BY <1>1, <1>7, <2>3
    <3>3. t.child[n]["right"] \in P /\ t.child[n]["right"] # y
      BY <1>1, <1>8, <1>12, <2>3, <3>1
    <3> QED BY <1>5, <1>16, <3>1, <3>2, <3>3
  <2> QED BY <2>1, <2>2, <2>3
<1>19. ASSUME NEW m \in P PROVE At(m, u.root, pos, low2, high2)
  <2>1. t.root \in P /\ t.root # y
    <3>1. t.root \in P
      BY DEF Shape, Joined
    <3> QED BY <1>1, <1>5, <3>1, Apart
  <2> QED BY <1>7, <1>10, <1>16, <2>1
<1> QED BY <1>2, <1>11, <1>13, <1>14, <1>17, <1>18, <1>19 DEF Shape, Nested, Full, low2, high2

\* After a rotation the tree still has a shape, with the same places in order.
LEMMA RotateShape ==
  ASSUME NEW t \in Tree, NEW P, NEW pos, NEW low, NEW high, Shape(t, P, pos, low, high),
         NEW x \in P, NEW s \in Side, NEW y, y = t.child[x][Other(s)], y # Nil
  PROVE  /\ Rotated(t, Rotate(t, x, s), P, x, y, s) /\ y \in P /\ x # y /\ t.child[y][s] # x /\ t.child[y][s] # y
         /\ \E low2, high2 : Shape(Rotate(t, x, s), P, pos, low2, high2)
<1>1. Rotated(t, Rotate(t, x, s), P, x, y, s)
  BY RotateFields
<1>2. y \in P /\ x # y /\ t.child[y][s] # x /\ t.child[y][s] # y
  BY <1>1, RotateJoins
<1>3. \E low2, high2 : Shape(Rotate(t, x, s), P, pos, low2, high2)
  <2>1. CASE s = "left"
    <3>1. y = t.child[x]["right"]
      BY <2>1 DEF Other
    <3>2. Rotated(t, Rotate(t, x, s), P, x, y, "left")
      BY <1>1, <2>1
    <3>3. Shape(Rotate(t, x, s), P, pos, [low EXCEPT ![y] = low[x]], [high EXCEPT ![y] = high[x], ![x] = pos[y] - 1])
      BY <3>1, <3>2, RotateLeftShape
    <3> QED BY <3>3
  <2>2. CASE s = "right"
    <3>1. y = t.child[x]["left"]
      BY <2>2 DEF Other
    <3>2. Rotated(t, Rotate(t, x, s), P, x, y, "right")
      BY <1>1, <2>2
    <3>3. Shape(Rotate(t, x, s), P, pos, [low EXCEPT ![y] = low[x], ![x] = pos[y] + 1], [high EXCEPT ![y] = high[x]])
      BY <3>1, <3>2, RotateRightShape
    <3> QED BY <3>3
  <2> QED BY <2>1, <2>2 DEF Side
<1> QED BY <1>1, <1>2, <1>3
----------------------------------------------------------------------------
(* What the recursive functions of the module compute in a tree that has a *)
(* shape.                                                                  *)

\* What holds for a node whenever it holds for its children holds for all.
LEMMA TreeInduction ==
  ASSUME NEW t \in Tree, NEW P, NEW pos, NEW low, NEW high, Shape(t, P, pos, low, high), NEW Good,
         \A n \in P : (\A s \in Side : t.child[n][s] # Nil => t.child[n][s] \in Good) => n \in Good
  PROVE  P \subseteq Good
<1> DEFINE Bad == P \ Good
           B == {high[n] - low[n] : n \in Bad}
<1> SUFFICES ASSUME Bad # {} PROVE FALSE
  OBVIOUS
<1>1. P \subseteq Data /\ \A n \in P : n # Nil
  BY TreeAssumption DEF Shape, Seated
<1>2. \A n \in P : /\ low[n] \in Int /\ high[n] \in Int /\ pos[n] \in Int
                   /\ low[n] <= pos[n] /\ pos[n] <= high[n]
  BY <1>1 DEF Shape, Seated
<1>3. B \in SUBSET Nat /\ B # {}
  BY <1>2
<1>4. PICK k \in B : \A j \in B : k <= j
  <2> HIDE DEF B
  <2> QED BY <1>3, LeastNumber
<1>5. PICK n \in Bad : k = high[n] - low[n]
  OBVIOUS
<1>6. PICK s \in Side : t.child[n][s] # Nil /\ t.child[n][s] \notin Good
  OBVIOUS
<1>7. t.child[n][s] \in P
  BY <1>5, <1>6 DEF Shape, Joined
<1> DEFINE c == t.child[n][s]
<1>8. high[c] - low[c] < high[n] - low[n]
  <2>1. CASE s = "left"
    <3>1. low[n] <= low[c] /\ high[c] < pos[n]
      BY <1>5, <1>6, <2>1 DEF Shape, Nested
    <3> QED BY <1>2, <1>5, <1>7, <3>1
  <2>2. CASE s = "right"
    <3>1. pos[n] < low[c] /\ high[c] <= high[n]
      BY <1>5, <1>6, <2>2 DEF Shape, Nested
    <3> QED BY <1>2, <1>5, <1>7, <3>1
  <2> QED BY <2>1, <2>2 DEF Side
<1>9. high[c] - low[c] \in B
  BY <1>6, <1>7
<1>10. k <= high[c] - low[c]
  BY <1>4, <1>9
<1> QED BY <1>2, <1>5, <1>7, <1>8, <1>10

\* The part of the tree at a node; none at Nil.
Part(c, P, pos, low, high) == IF c \in P THEN {m \in P : At(m, c, pos, low, high)} ELSE {}

\* The nodes in the range of n are n and those in the ranges of its children.
LEMMA PartIs ==
  ASSUME NEW t \in Tree, NEW P, NEW pos, NEW low, NEW high, Shape(t, P, pos, low, high), NEW n \in P
  PROVE  /\ Part(n, P, pos, low, high) = {n} \cup Part(t.child[n]["left"], P, pos, low, high)
                                             \cup Part(t.child[n]["right"], P, pos, low, high)
         /\ \A m \in Part(t.child[n]["left"], P, pos, low, high) : pos[m] < pos[n] /\ m \in P
         /\ \A m \in Part(t.child[n]["right"], P, pos, low, high) : pos[n] < pos[m] /\ m \in P
<1> DEFINE l == t.child[n]["left"]
           r == t.child[n]["right"]
<1>1. P \subseteq Data /\ \A m \in P : m # Nil
  BY TreeAssumption DEF Shape, Seated
<1>2. \A m \in P : /\ low[m] \in Int /\ high[m] \in Int /\ pos[m] \in Int
                   /\ low[m] <= pos[m] /\ pos[m] <= high[m]
  BY <1>1 DEF Shape, Seated
<1>3. (l # Nil => l \in P) /\ (r # Nil => r \in P)
  BY DEF Shape, Joined, Side
<1>4. /\ l \in P => low[n] <= low[l] /\ high[l] < pos[n]
      /\ r \in P => pos[n] < low[r] /\ high[r] <= high[n]
  BY <1>1 DEF Shape, Nested
<1>5. \A m \in Part(l, P, pos, low, high) : pos[m] < pos[n] /\ m \in P /\ At(m, n, pos, low, high)
  BY <1>2, <1>4 DEF Part, At
<1>6. \A m \in Part(r, P, pos, low, high) : pos[n] < pos[m] /\ m \in P /\ At(m, n, pos, low, high)
  BY <1>2, <1>4 DEF Part, At
<1>7. ASSUME NEW m \in P, At(m, n, pos, low, high), m # n
      PROVE  m \in Part(l, P, pos, low, high) \cup Part(r, P, pos, low, high)
  <2>1. pos[m] < pos[n] \/ pos[n] < pos[m]
    BY <1>2, <1>7 DEF Shape, Seated
  <2>2. CASE pos[m] < pos[n]
    BY <1>3, <1>7, <2>2 DEF Part, Shape, Full
  <2>3. CASE pos[n] < pos[m]
    BY <1>3, <1>7, <2>3 DEF Part, Shape, Full
  <2> QED BY <2>1, <2>2, <2>3
<1>8. At(n, n, pos, low, high)
  BY <1>2 DEF At
<1>9. Part(n, P, pos, low, high) = {m \in P : At(m, n, pos, low, high)}
  BY DEF Part
<1> HIDE DEF l, r
<1>10. Part(n, P, pos, low, high) = {n} \cup Part(l, P, pos, low, high) \cup Part(r, P, pos, low, high)
  BY <1>5, <1>6, <1>7, <1>8, <1>9
<1> QED BY <1>5, <1>6, <1>10 DEF l, r

\* What is below a node is what has a place in its range.
LEMMA BelowIs ==
  ASSUME tree \in Tree, NEW P, NEW pos, NEW low, NEW high, Shape(tree, P, pos, low, high)
  PROVE  \A n \in P \cup {Nil} : Below(n) = Part(n, P, pos, low, high)
<1> DEFINE part(c) == Part(c, P, pos, low, high)
           b == [m \in Node |-> IF m = Nil THEN {}
                                ELSE IF m \in P THEN part(m)
                                ELSE {m} \cup part(LeftOf(m)) \cup part(RightOf(m))]
           Eq(f) == f = [m \in Node |-> IF m = Nil THEN {} ELSE {m} \cup f[LeftOf(m)] \cup f[RightOf(m)]]
<1>1. P \subseteq Data /\ Nil \notin P /\ P \subseteq Node /\ Nil \in Node
  BY TreeAssumption DEF Shape, Seated, Node
<1>2. \A m \in Node : m # Nil => LeftOf(m) \in P \cup {Nil} /\ RightOf(m) \in P \cup {Nil}
  BY <1>1 DEF Shape, Joined, LeftOf, RightOf, Side
<1>3. part(Nil) = {}
  BY <1>1 DEF Part
<1>4. \A n \in P : part(n) = {n} \cup part(LeftOf(n)) \cup part(RightOf(n))
  BY PartIs DEF LeftOf, RightOf
<1> HIDE DEF part
<1>5. \A n \in P \cup {Nil} : b[n] = part(n)
  BY <1>1, <1>3
<1>6. Eq(b)
  <2>1. \A m \in Node : b[m] = IF m = Nil THEN {} ELSE {m} \cup b[LeftOf(m)] \cup b[RightOf(m)]
    <3> SUFFICES ASSUME NEW m \in Node PROVE b[m] = IF m = Nil THEN {} ELSE {m} \cup b[LeftOf(m)] \cup b[RightOf(m)]
      OBVIOUS
    <3>1. CASE m = Nil
      BY <3>1
    <3>2. CASE m # Nil
      <4>1. b[LeftOf(m)] = part(LeftOf(m)) /\ b[RightOf(m)] = part(RightOf(m))
        BY <1>2, <1>5, <3>2
      <4>2. b[m] = {m} \cup part(LeftOf(m)) \cup part(RightOf(m))
        BY <1>4, <3>2
      <4> QED BY <3>2, <4>1, <4>2
    <3> QED BY <3>1, <3>2
  <2>2. b = [m \in Node |-> b[m]]
    OBVIOUS
  <2> HIDE DEF b
  <2> QED BY <2>1, <2>2
<1> HIDE DEF b
<1> DEFINE f == CHOOSE g : Eq(g)
<1>7. Eq(f)
  <2> HIDE DEF Eq
  <2> QED BY <1>6
<1>8. \A n \in Node : Below(n) = f[n]
  BY DEF Below
<1> HIDE DEF f
<1>9. \A m \in Node : f[m] = IF m = Nil THEN {} ELSE {m} \cup f[LeftOf(m)] \cup f[RightOf(m)]
  BY <1>7
<1> HIDE DEF Eq
<1>10. f[Nil] = part(Nil)
  BY <1>1, <1>3, <1>9
<1> DEFINE Good == {n \in P : f[n] = part(n)}
<1>11. ASSUME NEW n \in P, \A s \in Side : tree.child[n][s] # Nil => tree.child[n][s] \in Good
       PROVE  n \in Good
  <2>1. f[LeftOf(n)] = part(LeftOf(n)) /\ f[RightOf(n)] = part(RightOf(n))
    BY <1>10, <1>11 DEF LeftOf, RightOf, Side
  <2>2. f[n] = {n} \cup f[LeftOf(n)] \cup f[RightOf(n)]
    BY <1>1, <1>9
  <2> QED BY <1>4, <2>1, <2>2
<1>12. P \subseteq Good
  <2> HIDE DEF Good
  <2> QED BY <1>11, TreeInduction
<1> QED BY <1>1, <1>8, <1>10, <1>12 DEF part
----------------------------------------------------------------------------
(* Black nodes.                                                            *)

Blacks(c) == IF c = "black" THEN 1 ELSE 0

\* Every way down from n has black[n] black nodes; one is missing on the
\* ways through the child of at on side s.
LevelAt(t, n, black, at, s) ==
  \A d \in Side :
    /\ n = at /\ d = s => black[t.child[n][d]] + 1 = black[n] - Blacks(t.color[n])
    /\ ~(n = at /\ d = s) => black[t.child[n][d]] = black[n] - Blacks(t.color[n])

Level(t, P, black, at, s) ==
  /\ black \in [Node -> Nat] /\ black[Nil] = 0
  /\ \A n \in P : LevelAt(t, n, black, at, s)

\* In a level tree all ways down from a node have the same black height.
LEMMA HeightsAre ==
  ASSUME tree \in Tree, NEW P, NEW pos, NEW low, NEW high, Shape(tree, P, pos, low, high),
         NEW black, NEW s, Level(tree, P, black, Nil, s),
         \A n \in Node \ P, d \in Side : tree.child[n][d] = Nil
  PROVE  \A n \in P \cup {Nil} : Heights(n) = {black[n]}
<1> DEFINE own(m) == Blacks(tree.color[m])
           b == [m \in Node |-> IF m = Nil THEN {0} ELSE IF m \in P THEN {black[m]} ELSE {own(m)}]
           Eq(f) == f = [m \in Node |->
                           IF m = Nil THEN {0}
                           ELSE {h + IF tree.color[m] = "black" THEN 1 ELSE 0 : h \in f[LeftOf(m)] \cup f[RightOf(m)]}]
           Eq2(f) == \A m \in Node : f[m] = IF m = Nil THEN {0} ELSE {h + own(m) : h \in f[LeftOf(m)] \cup f[RightOf(m)]}
<1>1. P \subseteq Data /\ Nil \notin P /\ P \subseteq Node /\ Nil \in Node
  BY TreeAssumption DEF Shape, Seated, Node
<1>2. \A m \in P : LeftOf(m) \in P \cup {Nil} /\ RightOf(m) \in P \cup {Nil}
  BY DEF Shape, Joined, LeftOf, RightOf, Side
<1>3. \A m \in Node \ P : LeftOf(m) = Nil /\ RightOf(m) = Nil
  BY DEF LeftOf, RightOf, Side
<1>4. \A m \in Node : own(m) \in Nat
  BY DEF Blacks
<1>5. /\ \A m \in Node : black[m] \in Nat
      /\ black[Nil] = 0
      /\ \A m \in P : black[LeftOf(m)] = black[m] - own(m) /\ black[RightOf(m)] = black[m] - own(m)
  BY <1>1 DEF Level, LevelAt, LeftOf, RightOf, Side
<1>6. \A m \in P : black[LeftOf(m)] + own(m) = black[m] /\ black[RightOf(m)] + own(m) = black[m]
  BY <1>1, <1>2, <1>4, <1>5
<1>7. \A f : Eq(f) <=> f = [m \in Node |-> IF m = Nil THEN {0} ELSE {h + own(m) : h \in f[LeftOf(m)] \cup f[RightOf(m)]}]
  BY DEF Blacks
<1> HIDE DEF own, Eq
<1>8. Eq(b)
  <2>1. \A m \in P \cup {Nil} : b[m] = {black[m]}
    BY <1>1, <1>5
  <2>5. \A m \in Node : m # Nil /\ m \notin P => b[m] = {own(m)}
    OBVIOUS
  <2>3. b = [m \in Node |-> b[m]]
    OBVIOUS
  <2> HIDE DEF b
  <2>2. ASSUME NEW m \in Node PROVE b[m] = IF m = Nil THEN {0} ELSE {h + own(m) : h \in b[LeftOf(m)] \cup b[RightOf(m)]}
    <3>1. CASE m = Nil
      BY <1>5, <2>1, <3>1
    <3>2. CASE m \in P
      <4>1. b[LeftOf(m)] = {black[LeftOf(m)]} /\ b[RightOf(m)] = {black[RightOf(m)]}
        BY <1>2, <2>1, <3>2
      <4>2. b[LeftOf(m)] \cup b[RightOf(m)] = {black[LeftOf(m)]}
        BY <1>5, <3>2, <4>1
      <4> DEFINE hs == {h + own(m) : h \in b[LeftOf(m)] \cup b[RightOf(m)]}
      <4>3. hs = {black[LeftOf(m)] + own(m)}
        BY <4>2
      <4>4. m # Nil /\ b[m] = {black[m]} /\ black[LeftOf(m)] + own(m) = black[m]
        BY <1>1, <1>6, <2>1, <3>2
      <4> HIDE DEF hs
      <4>5. b[m] = IF m = Nil THEN {0} ELSE hs
        BY ONLY <4>3, <4>4
      <4> QED BY <4>5 DEF hs
    <3>3. CASE m # Nil /\ m \notin P
      <4>1. b[LeftOf(m)] \cup b[RightOf(m)] = {0}
        BY <1>3, <1>5, <2>1, <3>3
      <4>2. {h + own(m) : h \in b[LeftOf(m)] \cup b[RightOf(m)]} = {0 + own(m)}
        BY <4>1
      <4> QED BY <1>4, <2>5, <3>3, <4>2
    <3> QED BY <3>1, <3>2, <3>3
  <2>4. b = [m \in Node |-> IF m = Nil THEN {0} ELSE {h + own(m) : h \in b[LeftOf(m)] \cup b[RightOf(m)]}]
    BY <2>2, <2>3
  <2> QED BY <1>7, <2>4
<1> DEFINE f == CHOOSE g : Eq(g)
<1>9. Eq(f)
  BY <1>8
<1>10. \A n \in Node : Heights(n) = f[n]
  BY DEF Heights, Eq
<1> HIDE DEF f
<1>11. \A m \in Node : f[m] = IF m = Nil THEN {0} ELSE {h + own(m) : h \in f[LeftOf(m)] \cup f[RightOf(m)]}
  <2>1. f = [m \in Node |-> IF m = Nil THEN {0} ELSE {h + own(m) : h \in f[LeftOf(m)] \cup f[RightOf(m)]}]
    BY <1>7, <1>9
  <2> QED BY <2>1
<1>12. f[Nil] = {black[Nil]}
  BY <1>1, <1>5, <1>11
<1> DEFINE Good == {n \in P : f[n] = {black[n]}}
<1>13. ASSUME NEW n \in P, \A d \in Side : tree.child[n][d] # Nil => tree.child[n][d] \in Good
       PROVE  n \in Good
  <2>1. f[LeftOf(n)] = {black[LeftOf(n)]} /\ f[RightOf(n)] = {black[RightOf(n)]}
    BY <1>12, <1>13 DEF LeftOf, RightOf, Side
  <2>2. f[LeftOf(n)] \cup f[RightOf(n)] = {black[LeftOf(n)]}
    BY <1>5, <2>1
  <2>3. {h + own(n) : h \in f[LeftOf(n)] \cup f[RightOf(n)]} = {black[LeftOf(n)] + own(n)}
    BY <2>2
  <2>4. f[n] = {h + own(n) : h \in f[LeftOf(n)] \cup f[RightOf(n)]}
    BY <1>1, <1>11
  <2> QED BY <1>6, <2>3, <2>4
<1>14. P \subseteq Good
  <2> HIDE DEF Good
  <2> QED BY <1>13, TreeInduction
<1> QED BY <1>1, <1>10, <1>12, <1>14
----------------------------------------------------------------------------
(* The searches.                                                           *)

\* Who is not in the tree has no children.
OthersBare(t, P) == \A n \in Node \ P, d \in Side : t.child[n][d] = Nil

\* Each step of nxt goes to a child.
GoesDown(t, nxt) ==
  /\ nxt \in [Node -> Node]
  /\ \A n \in Node : nxt[n] = n \/ \E s \in Side : nxt[n] = t.child[n][s]

\* A search that goes down comes to ever smaller parts of the tree,
LEMMA SearchFalls ==
  ASSUME NEW t \in Tree, NEW P, NEW pos, NEW low, NEW high, Shape(t, P, pos, low, high), OthersBare(t, P),
         NEW nxt, GoesDown(t, nxt)
  PROVE  \E mu : Falls(mu, Node, nxt)
<1> DEFINE mu == [m \in Node |-> IF m \in P THEN high[m] - low[m] + 2 ELSE IF m = Nil THEN 0 ELSE 1]
<1>1. P \subseteq Data /\ Nil \notin P /\ P \subseteq Node /\ Nil \in Node
  BY TreeAssumption DEF Shape, Seated, Node
<1>2. \A m \in P : /\ low[m] \in Int /\ high[m] \in Int /\ pos[m] \in Int
                   /\ low[m] <= pos[m] /\ pos[m] <= high[m]
  BY <1>1 DEF Shape, Seated
<1>3. \A m \in Node : mu[m] \in Nat
  BY <1>1, <1>2
<1>4. mu \in [Node -> Nat]
  BY <1>3
<1>5. ASSUME NEW m \in Node, nxt[m] # m PROVE mu[nxt[m]] < mu[m]
  <2>1. PICK s \in Side : nxt[m] = t.child[m][s]
    BY <1>5 DEF GoesDown
  <2>2. CASE m \in P /\ nxt[m] # Nil
    <3>1. nxt[m] \in P
      BY <2>1, <2>2 DEF Shape, Joined
    <3>2. high[nxt[m]] - low[nxt[m]] < high[m] - low[m]
      <4>1. CASE s = "left"
        <5>1. low[m] <= low[nxt[m]] /\ high[nxt[m]] < pos[m]
          BY <2>1, <2>2, <4>1 DEF Shape, Nested
        <5> QED BY <1>2, <2>2, <3>1, <5>1
      <4>2. CASE s = "right"
        <5>1. pos[m] < low[nxt[m]] /\ high[nxt[m]] <= high[m]
          BY <2>1, <2>2, <4>2 DEF Shape, Nested
        <5> QED BY <1>2, <2>2, <3>1, <5>1
      <4> QED BY <4>1, <4>2 DEF Side
    <3>3. mu[nxt[m]] = high[nxt[m]] - low[nxt[m]] + 2 /\ mu[m] = high[m] - low[m] + 2
      BY <1>1, <2>2, <3>1
    <3> HIDE DEF mu
    <3> QED BY <1>2, <2>2, <3>1, <3>2, <3>3
  <2>3. CASE m \in P /\ nxt[m] = Nil
    <3>1. mu[nxt[m]] = 0 /\ mu[m] = high[m] - low[m] + 2
      BY <1>1, <2>3
    <3> HIDE DEF mu
    <3> QED BY <1>2, <2>3, <3>1
  <2>4. CASE m \notin P
    <3>1. nxt[m] = Nil
      BY <2>1, <2>4 DEF OthersBare
    <3> QED BY <1>1, <1>5, <2>4, <3>1
  <2> QED BY <2>2, <2>3, <2>4
<1> HIDE DEF mu
<1> QED BY <1>4, <1>5 DEF Falls

\* and so it stops, at a node of its own set that it does not leave.
LEMMA SearchEnds ==
  ASSUME NEW t \in Tree, NEW P, NEW pos, NEW low, NEW high, Shape(t, P, pos, low, high), OthersBare(t, P),
         NEW nxt, GoesDown(t, nxt), NEW f, Follows(f, Node, nxt),
         NEW S, StaysIn(S, Node, nxt), NEW n, n \in S
  PROVE  f[n] \in S /\ nxt[f[n]] = f[n]
<1>1. PICK mu : Falls(mu, Node, nxt)
  BY SearchFalls
<1>2. nxt \in [Node -> Node]
  BY DEF GoesDown
<1> QED BY <1>1, <1>2, FollowEnds

\* std_rbtree_getexact returns a node of the tree or Nil.
LEMMA GetExactFinds ==
  ASSUME tree \in Tree, NEW P, NEW pos, NEW low, NEW high, Shape(tree, P, pos, low, high), OthersBare(tree, P), NEW key
  PROVE  GetExact(key) \in P \cup {Nil}
<1> DEFINE Stops(n) == n = Nil \/ n.key = key
           nxt == [n \in Node |-> IF Stops(n) THEN n ELSE Toward(n, key)]
           Eq(f) == f = [n \in Node |-> IF n = Nil \/ n.key = key THEN n ELSE f[Toward(n, key)]]
<1>1. P \subseteq Data /\ Nil \notin P /\ P \subseteq Node /\ Nil \in Node
  BY TreeAssumption DEF Shape, Seated, Node
<1>2. \A n \in Node : \E s \in Side : Toward(n, key) = tree.child[n][s]
  BY DEF Toward, Side
<1>3. \A n \in Node : Toward(n, key) \in Node
  BY <1>2 DEF Tree
<1>4. nxt \in [Node -> Node] /\ \A n \in Node : nxt[n] = IF Stops(n) THEN n ELSE Toward(n, key)
  BY <1>3
<1>5. \A n \in Node : n # Nil => Toward(n, key) # n
  <2> SUFFICES ASSUME NEW n \in Node, n # Nil PROVE Toward(n, key) # n
    OBVIOUS
  <2>1. PICK s \in Side : Toward(n, key) = tree.child[n][s]
    BY <1>2
  <2>2. CASE n \in P
    BY <2>1, <2>2, Apart
  <2>3. CASE n \notin P
    BY <2>1, <2>3 DEF OthersBare
  <2> QED BY <2>2, <2>3
<1> HIDE DEF nxt
<1>6. GoesDown(tree, nxt)
  BY <1>2, <1>4 DEF GoesDown
<1>7. \A f : Eq(f) <=> Follows(f, Node, nxt)
  <2> SUFFICES ASSUME NEW f PROVE Eq(f) <=> Follows(f, Node, nxt)
    OBVIOUS
  <2>1. \A n \in Node : (IF n = Nil \/ n.key = key THEN n ELSE f[Toward(n, key)]) = IF nxt[n] # n THEN f[nxt[n]] ELSE n
    BY <1>4, <1>5
  <2>2. [n \in Node |-> IF n = Nil \/ n.key = key THEN n ELSE f[Toward(n, key)]]
          = [n \in Node |-> IF nxt[n] # n THEN f[nxt[n]] ELSE n]
    BY ONLY <2>1
  <2> QED BY <2>2 DEF Follows
<1>8. PICK g : Follows(g, Node, nxt)
  BY <1>4, FollowExists
<1> DEFINE at == CHOOSE f : Eq(f)
<1>9. Follows(at, Node, nxt)
  <2> HIDE DEF Eq
  <2> QED BY <1>7, <1>8
<1>10. GetExact(key) = at[tree.root]
  BY DEF GetExact
<1> HIDE DEF at, Eq
<1>11. StaysIn(P \cup {Nil}, Node, nxt)
  <2>1. \A n \in P, s \in Side : tree.child[n][s] \in P \cup {Nil}
    BY DEF Shape, Joined
  <2>2. ASSUME NEW n \in P \cup {Nil} PROVE nxt[n] \in P \cup {Nil}
    BY <1>1, <1>2, <1>4, <2>1
  <2> QED BY <1>1, <2>2 DEF StaysIn
<1>12. tree.root \in P \cup {Nil}
  BY DEF Shape, Joined
<1> QED BY <1>6, <1>9, <1>10, <1>11, <1>12, SearchEnds

\* In the order of the places no key goes down.
Ordered(P, pos) == \A m, n \in P : pos[m] < pos[n] => m.key <= n.key

\* A new node with this key belongs into the part of the tree at n.
Fits(n, key, P, pos, low, high) ==
  \A m \in P : /\ pos[m] < low[n] => m.key <= key
               /\ high[n] < pos[m] => key < m.key

\* The step of the search for a place keeps the key in the range.
LEMMA TowardFits ==
  ASSUME tree \in Tree, NEW P, NEW pos, NEW low, NEW high, Shape(tree, P, pos, low, high), Ordered(P, pos),
         NEW key \in Int, NEW n \in P, Fits(n, key, P, pos, low, high), NEW c, c = Toward(n, key), c # Nil
  PROVE  c \in P /\ Fits(c, key, P, pos, low, high)
<1>1. P \subseteq Data
  BY DEF Shape, Seated
<1>2. \A m \in P : /\ low[m] \in Int /\ high[m] \in Int /\ pos[m] \in Int /\ m.key \in Int
                   /\ low[m] <= pos[m] /\ pos[m] <= high[m]
  BY <1>1, TreeAssumption DEF Shape, Seated
<1>3. \A m, k \in P : pos[m] = pos[k] => m = k
  BY DEF Shape, Seated
<1>4. CASE key < n.key
  <2>1. c = tree.child[n]["left"] /\ "left" \in Side
    BY <1>4 DEF Toward, Side
  <2>2. c \in P /\ low[n] <= low[c] /\ high[c] < pos[n]
    BY <2>1 DEF Shape, Joined, Nested
  <2>3. \A m \in P : low[n] <= pos[m] /\ pos[m] < pos[n] => low[c] <= pos[m] /\ pos[m] <= high[c]
    <3>1. \A m \in P : At(m, n, pos, low, high) /\ pos[m] < pos[n] => At(m, c, pos, low, high)
      BY <2>1 DEF Shape, Full
    <3> QED BY <1>2, <3>1 DEF At
  <2>4. ASSUME NEW m \in P, pos[m] < low[c] PROVE m.key <= key
    <3>1. pos[m] < low[n]
      BY <1>2, <2>2, <2>3, <2>4
    <3> QED BY <3>1 DEF Fits
  <2>5. ASSUME NEW m \in P, high[c] < pos[m] PROVE key < m.key
    <3>1. CASE pos[m] < pos[n]
      BY <1>2, <2>2, <2>3, <2>5, <3>1
    <3>2. CASE pos[m] = pos[n]
      BY <1>3, <1>4, <3>2
    <3>3. CASE pos[n] < pos[m]
      <4>1. n.key <= m.key
        BY <3>3 DEF Ordered
      <4> QED BY <1>2, <1>4, <4>1
    <3> QED BY <1>2, <3>1, <3>2, <3>3
  <2> QED BY <2>2, <2>4, <2>5 DEF Fits
<1>5. CASE ~(key < n.key)
  <2>1. c = tree.child[n]["right"] /\ "right" \in Side
    BY <1>5 DEF Toward, Side
  <2>2. c \in P /\ pos[n] < low[c] /\ high[c] <= high[n]
    BY <2>1 DEF Shape, Joined, Nested
  <2>3. \A m \in P : pos[n] < pos[m] /\ pos[m] <= high[n] => low[c] <= pos[m] /\ pos[m] <= high[c]
    <3>1. \A m \in P : At(m, n, pos, low, high) /\ pos[n] < pos[m] => At(m, c, pos, low, high)
      BY <2>1 DEF Shape, Full
    <3> QED BY <1>2, <3>1 DEF At
  <2>4. ASSUME NEW m \in P, high[c] < pos[m] PROVE key < m.key
    <3>1. high[n] < pos[m]
      BY <1>2, <2>2, <2>3, <2>4
    <3> QED BY <3>1 DEF Fits
  <2>5. ASSUME NEW m \in P, pos[m] < low[c] PROVE m.key <= key
    <3>1. CASE pos[n] < pos[m]
      BY <1>2, <2>2, <2>3, <2>5, <3>1
    <3>2. CASE pos[m] = pos[n]
      BY <1>2, <1>3, <1>5, <3>2
    <3>3. CASE pos[m] < pos[n]
      <4>1. m.key <= n.key
        BY <3>3 DEF Ordered
      <4> QED BY <1>2, <1>5, <4>1
    <3> QED BY <1>2, <3>1, <3>2, <3>3
  <2> QED BY <2>2, <2>4, <2>5 DEF Fits
<1> QED BY <1>4, <1>5

\* The search for the place of a new node ends at a node that has none on the
\* side of the key, and with the key between the others.
LEMMA PlaceForFinds ==
  ASSUME tree \in Tree, NEW P, NEW pos, NEW low, NEW high, Shape(tree, P, pos, low, high), OthersBare(tree, P),
         Ordered(P, pos), NEW key \in Int, NEW y, y = PlaceFor(key)
  PROVE  /\ P = {} <=> y = Nil
         /\ P # {} => /\ y \in P /\ Toward(y, key) = Nil
                      /\ \A m \in P : /\ pos[m] < pos[y] => m.key <= key
                                      /\ pos[y] < pos[m] => key < m.key
<1> DEFINE Stops(n) == n = Nil \/ Toward(n, key) = Nil
           nxt == [n \in Node |-> IF Stops(n) THEN n ELSE Toward(n, key)]
           Eq(f) == f = [n \in Node |-> IF n = Nil \/ Toward(n, key) = Nil THEN n ELSE f[Toward(n, key)]]
           S == {n \in P : Fits(n, key, P, pos, low, high)}
<1>1. P \subseteq Data /\ Nil \notin P /\ P \subseteq Node /\ Nil \in Node
  BY TreeAssumption DEF Shape, Seated, Node
<1>2. \A n \in Node : \E s \in Side : Toward(n, key) = tree.child[n][s]
  BY DEF Toward, Side
<1>3. \A n \in Node : Toward(n, key) \in Node
  BY <1>2 DEF Tree
<1>4. nxt \in [Node -> Node] /\ \A n \in Node : nxt[n] = IF Stops(n) THEN n ELSE Toward(n, key)
  BY <1>3
<1>5. \A n \in Node : n # Nil => Toward(n, key) # n
  <2> SUFFICES ASSUME NEW n \in Node, n # Nil PROVE Toward(n, key) # n
    OBVIOUS
  <2>1. PICK s \in Side : Toward(n, key) = tree.child[n][s]
    BY <1>2
  <2>2. CASE n \in P
    BY <2>1, <2>2, Apart
  <2>3. CASE n \notin P
    BY <2>1, <2>3 DEF OthersBare
  <2> QED BY <2>2, <2>3
<1> HIDE DEF nxt
<1>6. GoesDown(tree, nxt)
  BY <1>2, <1>4 DEF GoesDown
<1>7. \A f : Eq(f) <=> Follows(f, Node, nxt)
  <2> SUFFICES ASSUME NEW f PROVE Eq(f) <=> Follows(f, Node, nxt)
    OBVIOUS
  <2>1. \A n \in Node : (IF n = Nil \/ Toward(n, key) = Nil THEN n ELSE f[Toward(n, key)]) = IF nxt[n] # n THEN f[nxt[n]] ELSE n
    BY <1>4, <1>5
  <2>2. [n \in Node |-> IF n = Nil \/ Toward(n, key) = Nil THEN n ELSE f[Toward(n, key)]]
          = [n \in Node |-> IF nxt[n] # n THEN f[nxt[n]] ELSE n]
    BY ONLY <2>1
  <2> QED BY <2>2 DEF Follows
<1>8. PICK g : Follows(g, Node, nxt)
  BY <1>4, FollowExists
<1> DEFINE at == CHOOSE f : Eq(f)
<1>9. Follows(at, Node, nxt)
  <2> HIDE DEF Eq
  <2> QED BY <1>7, <1>8
<1>10. y = at[tree.root]
  BY DEF PlaceFor
<1> HIDE DEF at, Eq
<1>11. CASE tree.root = Nil
  <2>1. P = {}
    BY <1>11 DEF Shape, Joined
  <2>2. nxt[Nil] = Nil /\ at[Nil] = IF nxt[Nil] # Nil THEN at[nxt[Nil]] ELSE Nil
    BY <1>1, <1>4, <1>9 DEF Follows
  <2> QED BY <1>10, <1>11, <2>1, <2>2
<1>12. CASE tree.root # Nil
  <2>1. tree.root \in P /\ \A m \in P : At(m, tree.root, pos, low, high)
    BY <1>12 DEF Shape, Joined, Full
  <2>2. \A m \in P : /\ low[m] \in Int /\ high[m] \in Int /\ pos[m] \in Int
                     /\ low[m] <= pos[m] /\ pos[m] <= high[m]
    BY <1>1 DEF Shape, Seated
  <2>3. tree.root \in S
    BY <2>1, <2>2 DEF Fits, At
  <2>4. StaysIn(S, Node, nxt)
    <3>1. ASSUME NEW n \in P, Fits(n, key, P, pos, low, high) PROVE nxt[n] \in S
      <4>1. CASE Stops(n)
        BY <1>1, <1>4, <3>1, <4>1
      <4>2. CASE ~Stops(n)
        <5>1. nxt[n] = Toward(n, key) /\ Toward(n, key) # Nil
          BY <1>1, <1>4, <4>2
        <5> QED BY <3>1, <5>1, TowardFits
      <4> QED BY <4>1, <4>2
    <3> QED BY <1>1, <3>1 DEF StaysIn
  <2>5. y \in S /\ nxt[y] = y
    <3> HIDE DEF S
    <3> QED BY <1>6, <1>9, <1>10, <2>3, <2>4, SearchEnds
  <2>6. y \in P /\ Fits(y, key, P, pos, low, high) /\ y # Nil /\ y \in Node
    BY <1>1, <2>5
  <2>7. Toward(y, key) = Nil
    BY <1>4, <1>5, <2>5, <2>6
  <2>8. y.key \in Int /\ \A m \in P : m.key \in Int
    BY <1>1, <2>6, TreeAssumption
  <2>9. CASE key < y.key
    <3>1. tree.child[y]["left"] = Nil
      BY <2>7, <2>9 DEF Toward
    <3>2. \A m \in P : At(m, y, pos, low, high) => ~(pos[m] < pos[y])
      BY <2>6, <3>1 DEF Shape, Full
    <3>3. ASSUME NEW m \in P, pos[m] < pos[y] PROVE m.key <= key
      <4>1. pos[m] < low[y]
        BY <2>2, <2>6, <3>2, <3>3 DEF At
      <4> QED BY <2>6, <4>1 DEF Fits
    <3>4. ASSUME NEW m \in P, pos[y] < pos[m] PROVE key < m.key
      <4>1. y.key <= m.key
        BY <2>6, <3>4 DEF Ordered
      <4> QED BY <2>8, <2>9, <4>1
    <3> QED BY <2>6, <2>7, <3>3, <3>4
  <2>10. CASE ~(key < y.key)
    <3>1. tree.child[y]["right"] = Nil
      BY <2>7, <2>10 DEF Toward
    <3>2. \A m \in P : At(m, y, pos, low, high) => ~(pos[y] < pos[m])
      BY <2>6, <3>1 DEF Shape, Full
    <3>3. ASSUME NEW m \in P, pos[y] < pos[m] PROVE key < m.key
      <4>1. high[y] < pos[m]
        BY <2>2, <2>6, <3>2, <3>3 DEF At
      <4> QED BY <2>6, <4>1 DEF Fits
    <3>4. ASSUME NEW m \in P, pos[m] < pos[y] PROVE m.key <= key
      <4>1. m.key <= y.key
        BY <2>6, <3>4 DEF Ordered
      <4> QED BY <2>8, <2>10, <4>1
    <3> QED BY <2>6, <2>7, <3>3, <3>4
  <2> QED BY <2>6, <2>9, <2>10
<1> QED BY <1>11, <1>12

\* m comes after z, and so do, at m, all that come between them.
Heads(m, z, P, pos, low, high) ==
  /\ m \in P /\ pos[z] < low[m]
  /\ \A k \in P : pos[z] < pos[k] /\ pos[k] < pos[m] => At(k, m, pos, low, high)

\* The next of a node with two children is the first after it, and has no left child.
LEMMA NextOfFinds ==
  ASSUME tree \in Tree, NEW P, NEW pos, NEW low, NEW high, Shape(tree, P, pos, low, high), OthersBare(tree, P),
         NEW z \in P, RightOf(z) # Nil, NEW y, y = NextOf(z)
  PROVE  /\ y \in P /\ pos[z] < pos[y] /\ LeftOf(y) = Nil
         /\ \A k \in P : pos[z] < pos[k] => pos[y] <= pos[k]
<1> DEFINE nxt == [n \in Node |-> IF tree.child[n]["left"] = Nil THEN n ELSE tree.child[n]["left"]]
           Eq(f) == f = [n \in Node |-> IF tree.child[n]["left"] = Nil THEN n ELSE f[tree.child[n]["left"]]]
           S == {m \in P : Heads(m, z, P, pos, low, high)}
           c == RightOf(z)
<1>1. P \subseteq Data /\ Nil \notin P /\ P \subseteq Node /\ Nil \in Node /\ "left" \in Side /\ "right" \in Side
  BY TreeAssumption DEF Shape, Seated, Node, Side
<1>2. \A m \in P : /\ low[m] \in Int /\ high[m] \in Int /\ pos[m] \in Int
                   /\ low[m] <= pos[m] /\ pos[m] <= high[m]
  BY <1>1 DEF Shape, Seated
<1>3. \A n \in Node : tree.child[n]["left"] \in Node
  BY <1>1 DEF Tree
<1>4. nxt \in [Node -> Node] /\ \A n \in Node : nxt[n] = IF tree.child[n]["left"] = Nil THEN n ELSE tree.child[n]["left"]
  BY <1>3
<1>5. \A n \in Node : n # Nil => tree.child[n]["left"] # n
  <2> SUFFICES ASSUME NEW n \in Node, n # Nil PROVE tree.child[n]["left"] # n
    OBVIOUS
  <2>1. CASE n \in P
    BY <1>1, <2>1, Apart
  <2>2. CASE n \notin P
    BY <1>1, <2>2 DEF OthersBare
  <2> QED BY <2>1, <2>2
<1> HIDE DEF nxt
<1>6. GoesDown(tree, nxt)
  BY <1>1, <1>4 DEF GoesDown
<1>7. \A f : Eq(f) <=> Follows(f, Node, nxt)
  <2> SUFFICES ASSUME NEW f PROVE Eq(f) <=> Follows(f, Node, nxt)
    OBVIOUS
  <2>1. \A n \in Node : (IF tree.child[n]["left"] = Nil THEN n ELSE f[tree.child[n]["left"]]) = IF nxt[n] # n THEN f[nxt[n]] ELSE n
    <3> SUFFICES ASSUME NEW n \in Node
                 PROVE  (IF tree.child[n]["left"] = Nil THEN n ELSE f[tree.child[n]["left"]]) = IF nxt[n] # n THEN f[nxt[n]] ELSE n
      OBVIOUS
    <3>1. CASE tree.child[n]["left"] = Nil
      BY <1>4, <3>1
    <3>2. CASE tree.child[n]["left"] # Nil
      <4>1. n # Nil
        BY <1>1, <3>2 DEF Shape, Joined
      <4> QED BY <1>4, <1>5, <3>2, <4>1
    <3> QED BY <3>1, <3>2
  <2>2. [n \in Node |-> IF tree.child[n]["left"] = Nil THEN n ELSE f[tree.child[n]["left"]]]
          = [n \in Node |-> IF nxt[n] # n THEN f[nxt[n]] ELSE n]
    BY ONLY <2>1
  <2> QED BY <2>2 DEF Follows
<1>8. PICK g : Follows(g, Node, nxt)
  BY <1>4, FollowExists
<1> DEFINE last == CHOOSE f : Eq(f)
<1>9. Follows(last, Node, nxt)
  <2> HIDE DEF Eq
  <2> QED BY <1>7, <1>8
<1>10. y = last[c]
  BY DEF NextOf, Outermost
<1> HIDE DEF last, Eq
<1>11. c \in S
  <2>1. c = tree.child[z]["right"] /\ c # Nil
    BY DEF RightOf
  <2>2. c \in P /\ pos[z] < low[c] /\ high[c] <= high[z]
    BY <1>1, <2>1 DEF Shape, Joined, Nested
  <2>3. ASSUME NEW k \in P, pos[z] < pos[k], pos[k] < pos[c] PROVE At(k, c, pos, low, high)
    <3>1. At(k, z, pos, low, high)
      BY <1>2, <2>2, <2>3 DEF At
    <3> QED BY <2>1, <2>3, <3>1 DEF Shape, Full
  <2> QED BY <2>2, <2>3 DEF Heads
<1>12. StaysIn(S, Node, nxt)
  <2> SUFFICES ASSUME NEW m \in P, Heads(m, z, P, pos, low, high), tree.child[m]["left"] # Nil
               PROVE  tree.child[m]["left"] \in P /\ Heads(tree.child[m]["left"], z, P, pos, low, high)
    BY <1>1, <1>4 DEF StaysIn
  <2> DEFINE l == tree.child[m]["left"]
  <2>1. l \in P /\ low[m] <= low[l] /\ high[l] < pos[m]
    BY <1>1 DEF Shape, Joined, Nested
  <2>2. pos[z] < low[l]
    BY <1>2, <2>1 DEF Heads
  <2>3. ASSUME NEW k \in P, pos[z] < pos[k], pos[k] < pos[l] PROVE At(k, l, pos, low, high)
    <3>1. pos[k] < pos[m]
      BY <1>2, <2>1, <2>3
    <3>2. At(k, m, pos, low, high)
      BY <2>3, <3>1 DEF Heads
    <3> QED BY <3>1, <3>2 DEF Shape, Full
  <2> QED BY <2>1, <2>2, <2>3 DEF Heads
<1>13. y \in S /\ nxt[y] = y
  <2> HIDE DEF S
  <2> QED BY <1>6, <1>9, <1>10, <1>11, <1>12, SearchEnds
<1>14. y \in P /\ Heads(y, z, P, pos, low, high) /\ tree.child[y]["left"] = Nil
  BY <1>1, <1>4, <1>5, <1>13
<1>15. pos[z] < pos[y]
  BY <1>2, <1>14 DEF Heads
<1>16. ASSUME NEW k \in P, pos[z] < pos[k] PROVE pos[y] <= pos[k]
  <2> SUFFICES ASSUME pos[k] < pos[y] PROVE FALSE
    BY <1>2, <1>14
  <2>1. At(k, y, pos, low, high)
    BY <1>14, <1>16 DEF Heads
  <2> QED BY <1>14, <2>1 DEF Shape, Full
<1> QED BY <1>14, <1>15, <1>16 DEF LeftOf
----------------------------------------------------------------------------
(* Insertion.                                                              *)

\* u is t with the leaf d added under y on side s, or as the root.
Added(t, u, d, y, s) ==
  /\ u \in Tree
  /\ y = Nil => u.root = d
  /\ y # Nil => u.root = t.root /\ u.child[y][s] = d /\ u.child[y][Other(s)] = t.child[y][Other(s)]
  /\ \A e \in Side : u.child[d][e] = Nil
  /\ \A n \in Node : n # d /\ n # y => u.child[n] = t.child[n]
  /\ y = Nil => u.child[Nil] = t.child[Nil]
  /\ u.parent[d] = y /\ \A n \in Node : n # d => u.parent[n] = t.parent[n]
  /\ u.color[d] = "red" /\ \A n \in Node : n # d => u.color[n] = t.color[n]

\* u is what TreeInsert makes of t.
Inserted(t, u, d, y, s) ==
  LET t1 == [t EXCEPT !.parent[d] = y, !.child[d] = [e \in Side |-> Nil], !.color[d] = "red"]
  IN u = IF y = Nil THEN [t1 EXCEPT !.root = d] ELSE [t1 EXCEPT !.child[y][s] = d]

\* The writes of std_rbtree_insert before it rebalances.
LEMMA InsertFields ==
  ASSUME NEW t \in Tree, NEW d \in Data, NEW y \in Node, y # d, NEW s \in Side, NEW u, Inserted(t, u, d, y, s)
  PROVE  Added(t, u, d, y, s)
<1> DEFINE t1 == [t EXCEPT !.parent[d] = y, !.child[d] = [e \in Side |-> Nil], !.color[d] = "red"]
<1>1. u = IF y = Nil THEN [t1 EXCEPT !.root = d] ELSE [t1 EXCEPT !.child[y][s] = d]
  BY DEF Inserted
<1>2. d \in Node /\ Nil \in Node /\ d # Nil
  BY TreeAssumption DEF Node
<1>3. /\ t1 \in Tree /\ t1.root = t.root
      /\ \A e \in Side : t1.child[d][e] = Nil
      /\ \A n \in Node : n # d => t1.child[n] = t.child[n]
      /\ t1.parent[d] = y /\ \A n \in Node : n # d => t1.parent[n] = t.parent[n]
      /\ t1.color[d] = "red" /\ \A n \in Node : n # d => t1.color[n] = t.color[n]
  <2>1. [e \in Side |-> Nil] \in [Side -> Node]
    BY <1>2
  <2>2. t1.root = t.root /\ t1.parent = [t.parent EXCEPT ![d] = y] /\ t1.color = [t.color EXCEPT ![d] = "red"]
        /\ t1.child = [t.child EXCEPT ![d] = [e \in Side |-> Nil]]
    BY DEF Tree
  <2>3. t1 \in Tree
    BY <1>2, <2>1 DEF Tree
  <2>4. t.parent \in [Node -> Node] /\ t.child \in [Node -> [Side -> Node]] /\ t.color \in [Node -> {"red", "black"}]
    BY DEF Tree
  <2> QED BY <1>2, <2>2, <2>3, <2>4
<1> HIDE DEF t1
<1>4. CASE y = Nil
  <2>1. u = [t1 EXCEPT !.root = d]
    BY <1>1, <1>4
  <2>2. u \in Tree /\ u.root = d /\ u.child = t1.child /\ u.parent = t1.parent /\ u.color = t1.color
    <3>1. t1 \in Tree /\ d \in Node
      BY <1>2, <1>3
    <3> QED BY ONLY <2>1, <3>1 DEF Tree
  <2> QED BY <1>2, <1>3, <1>4, <2>2 DEF Added
<1>5. CASE y # Nil
  <2>1. u = [t1 EXCEPT !.child[y][s] = d]
    BY <1>1, <1>5
  <2>2. /\ u \in Tree /\ u.parent = t1.parent /\ u.color = t1.color /\ u.root = t1.root
        /\ u.child[y][s] = d /\ u.child[y][Other(s)] = t1.child[y][Other(s)]
        /\ \A m \in Node : m # y => u.child[m] = t1.child[m]
    <3>1. t1 \in Tree /\ d \in Node /\ y \in Node /\ s \in Side
      BY <1>2, <1>3
    <3> QED BY ONLY <2>1, <3>1, ChildFields
  <2> QED BY <1>2, <1>3, <1>5, <2>2 DEF Added
<1> QED BY <1>4, <1>5

\* The places of before leave room for d next to y, on side s.
NextTo(u, P, pos, d, y, s) ==
  \E pos2, low2, high2 :
    /\ Shape(u, P \cup {d}, pos2, low2, high2)
    /\ \A m, n \in P : pos2[m] < pos2[n] => pos[m] < pos[n]
    /\ \A m \in P : /\ pos2[m] < pos2[d] => pos[m] < pos[y] \/ (m = y /\ s = "right")
                    /\ pos2[d] < pos2[m] => pos[y] < pos[m] \/ (m = y /\ s = "left")

\* The places after an insertion leave the new node the next place to y.
LEMMA AddShape ==
  ASSUME NEW t \in Tree, NEW P, NEW pos, NEW low, NEW high, Shape(t, P, pos, low, high), OthersBare(t, P),
         NEW d \in Data \ P, NEW y \in P, NEW s \in Side, t.child[y][s] = Nil,
         NEW u, Added(t, u, d, y, s)
  PROVE  NextTo(u, P, pos, d, y, s)
<1> DEFINE Q == P \cup {d}
           e == IF s = "left" THEN 3 * pos[y] - 1 ELSE 3 * pos[y] + 1
           pos2 == [n \in Data |-> IF n = d THEN e ELSE 3 * pos[n]]
           low2 == [n \in Data |-> IF n = d THEN e ELSE 3 * low[n] - 1]
           high2 == [n \in Data |-> IF n = d THEN e ELSE 3 * high[n] + 1]
<1>1. P \subseteq Data /\ Nil \notin P /\ Nil # d /\ y # d /\ y # Nil /\ Q \subseteq Node /\ Nil \in Node /\ d \in Data /\ d \notin P
  BY TreeAssumption DEF Shape, Seated, Node
<1>2. /\ \A m \in P : /\ low[m] \in Int /\ high[m] \in Int /\ pos[m] \in Int
                      /\ low[m] <= pos[m] /\ pos[m] <= high[m]
      /\ \A m, n \in P : pos[m] = pos[n] => m = n
      /\ pos \in [Data -> Int] /\ low \in [Data -> Int] /\ high \in [Data -> Int]
  BY <1>1 DEF Shape, Seated
<1>3. e \in Int /\ (s = "left" => e = 3 * pos[y] - 1) /\ (s = "right" => e = 3 * pos[y] + 1)
  BY <1>2
<1> HIDE DEF e
<1>4. /\ pos2 \in [Data -> Int] /\ low2 \in [Data -> Int] /\ high2 \in [Data -> Int]
      /\ pos2[d] = e /\ low2[d] = e /\ high2[d] = e
      /\ \A n \in P : pos2[n] = 3 * pos[n] /\ low2[n] = 3 * low[n] - 1 /\ high2[n] = 3 * high[n] + 1
  BY <1>1, <1>2, <1>3
<1> HIDE DEF pos2, low2, high2
<1>5. s = "left" \/ s = "right"
  BY DEF Side
<1>6. \A m \in P : pos2[m] # e /\ (e < pos2[m] <=> pos[y] < pos[m] \/ (m = y /\ s = "left"))
                   /\ (pos2[m] < e <=> pos[m] < pos[y] \/ (m = y /\ s = "right"))
  <2> SUFFICES ASSUME NEW m \in P
               PROVE  pos2[m] # e /\ (e < pos2[m] <=> pos[y] < pos[m] \/ (m = y /\ s = "left"))
                      /\ (pos2[m] < e <=> pos[m] < pos[y] \/ (m = y /\ s = "right"))
    OBVIOUS
  <2>1. pos[m] \in Int /\ pos[y] \in Int /\ pos2[m] = 3 * pos[m] /\ (pos[m] = pos[y] => m = y)
    BY <1>2, <1>4
  <2>2. CASE s = "left"
    BY <1>3, <2>1, <2>2
  <2>3. CASE s = "right"
    BY <1>3, <2>1, <2>3
  <2> QED BY <1>5, <2>2, <2>3
<1>7. /\ \A m, n \in P : At(m, n, pos2, low2, high2) <=> At(m, n, pos, low, high)
      /\ \A n \in P : At(d, n, pos2, low2, high2) <=> At(y, n, pos, low, high)
      /\ \A m \in P : ~At(m, d, pos2, low2, high2)
      /\ At(d, d, pos2, low2, high2)
  <2>1. ASSUME NEW m \in P, NEW n \in P PROVE At(m, n, pos2, low2, high2) <=> At(m, n, pos, low, high)
    <3>1. /\ low[n] \in Int /\ high[n] \in Int /\ pos[m] \in Int
          /\ pos2[m] = 3 * pos[m] /\ low2[n] = 3 * low[n] - 1 /\ high2[n] = 3 * high[n] + 1
      BY <1>2, <1>4
    <3> QED BY ONLY <3>1 DEF At
  <2>2. ASSUME NEW n \in P PROVE At(d, n, pos2, low2, high2) <=> At(y, n, pos, low, high)
    <3>1. /\ low[n] \in Int /\ high[n] \in Int /\ pos[y] \in Int /\ e \in Int
          /\ pos2[d] = e /\ low2[n] = 3 * low[n] - 1 /\ high2[n] = 3 * high[n] + 1
          /\ e = 3 * pos[y] - 1 \/ e = 3 * pos[y] + 1
      BY <1>2, <1>3, <1>4, <1>5
    <3> QED BY ONLY <3>1 DEF At
  <2>3. ASSUME NEW m \in P PROVE ~At(m, d, pos2, low2, high2)
    BY <1>1, <1>2, <1>3, <1>4, <1>6 DEF At
  <2>4. At(d, d, pos2, low2, high2)
    BY <1>3, <1>4 DEF At
  <2> QED BY <2>1, <2>2, <2>3, <2>4
<1>8. /\ u.root = t.root /\ u.child[y][s] = d /\ u.child[y][Other(s)] = t.child[y][Other(s)]
      /\ \A f \in Side : u.child[d][f] = Nil
      /\ \A n \in Node : n # d /\ n # y => u.child[n] = t.child[n]
      /\ u.parent[d] = y /\ \A n \in Node : n # d => u.parent[n] = t.parent[n]
  BY <1>1 DEF Added
<1>9. \A n \in P, f \in Side : u.child[n][f] = IF n = y /\ f = s THEN d ELSE t.child[n][f]
  BY <1>1, <1>8, Sides
<1>10. \A n \in P, f \in Side : t.child[n][f] # Nil => t.child[n][f] \in P /\ t.parent[t.child[n][f]] = n
  BY DEF Shape, Joined
<1>11. Joined(u, Q)
  <2>1. ASSUME NEW n \in Q, NEW f \in Side, u.child[n][f] # Nil PROVE u.child[n][f] \in Q /\ u.parent[u.child[n][f]] = n
    BY <1>1, <1>8, <1>9, <1>10, <2>1
  <2>2. t.root \in P /\ t.parent[t.root] = Nil /\ t.root # Nil
    BY <1>1 DEF Shape, Joined
  <2>3. ASSUME NEW n \in Q, n # u.root PROVE u.parent[n] \in Q /\ \E f \in Side : u.child[u.parent[n]][f] = n
    <3>1. CASE n = d
      BY <1>1, <1>8, <3>1
    <3>2. CASE n \in P
      <4>1. u.parent[n] = t.parent[n] /\ t.parent[n] \in P
        BY <1>1, <1>8, <2>3, <3>2 DEF Shape, Joined
      <4>2. PICK f \in Side : t.child[t.parent[n]][f] = n
        BY <1>8, <2>3, <3>2 DEF Shape, Joined
      <4>3. ~(t.parent[n] = y /\ f = s)
        BY <1>1, <3>2, <4>2
      <4> QED BY <1>9, <4>1, <4>2, <4>3
    <3> QED BY <3>1, <3>2
  <2>4. \A n \in Node \ Q, f \in Side : u.child[n][f] \in Q \cup {Nil}
    BY <1>1, <1>8 DEF OthersBare
  <2>5. \A f \in Side : u.child[Nil][f] = Nil
    BY <1>1, <1>8 DEF Shape, Joined
  <2> QED BY <1>1, <1>8, <2>1, <2>2, <2>3, <2>4, <2>5 DEF Joined
<1>12. Seated(Q, pos2, low2, high2)
  <2>1. \A n \in Q : low2[n] <= pos2[n] /\ pos2[n] <= high2[n]
    <3>1. \A n \in Q : At(n, n, pos2, low2, high2)
      BY <1>2, <1>7 DEF At
    <3> QED BY <3>1 DEF At
  <2>2. ASSUME NEW m \in Q, NEW n \in Q, pos2[m] = pos2[n] PROVE m = n
    <3>1. CASE m \in P /\ n \in P
      <4>1. pos[m] \in Int /\ pos[n] \in Int /\ 3 * pos[m] = 3 * pos[n]
        BY <1>2, <1>4, <2>2, <3>1
      <4>2. pos[m] = pos[n]
        BY ONLY <4>1
      <4> QED BY <1>2, <3>1, <4>2
    <3>2. CASE m \in P /\ n = d
      BY <1>4, <1>6, <2>2, <3>2
    <3>3. CASE m = d /\ n \in P
      BY <1>4, <1>6, <2>2, <3>3
    <3> QED BY <3>1, <3>2, <3>3
  <2> QED BY <1>1, <1>4, <2>1, <2>2 DEF Seated
<1>13. Nested(u, Q, pos2, low2, high2)
  <2>1. ASSUME NEW n \in Q, u.child[n]["left"] # Nil
        PROVE  low2[n] <= low2[u.child[n]["left"]] /\ high2[u.child[n]["left"]] < pos2[n]
    <3>1. n \in P
      BY <1>8, <2>1 DEF Side
    <3>2. CASE n = y /\ s = "left"
      <4>1. u.child[n]["left"] = d
        BY <1>8, <3>2
      <4>2. low2[y] <= e /\ e < pos2[y]
        BY <1>2, <1>3, <1>4, <3>2
      <4> QED BY <1>4, <3>2, <4>1, <4>2
    <3>3. CASE ~(n = y /\ s = "left")
      <4>1. u.child[n]["left"] = t.child[n]["left"]
        BY <1>9, <3>1, <3>3 DEF Side
      <4> DEFINE c == t.child[n]["left"]
      <4>2. c \in P /\ low[n] <= low[c] /\ high[c] < pos[n]
        BY <1>10, <2>1, <3>1, <4>1 DEF Shape, Nested, Side
      <4> HIDE DEF c
      <4>3. low2[n] <= low2[c] /\ high2[c] < pos2[n]
        BY <1>2, <1>4, <3>1, <4>2
      <4> QED BY <4>1, <4>3 DEF c
    <3> QED BY <3>2, <3>3
  <2>2. ASSUME NEW n \in Q, u.child[n]["right"] # Nil
        PROVE  pos2[n] < low2[u.child[n]["right"]] /\ high2[u.child[n]["right"]] <= high2[n]
    <3>1. n \in P
      BY <1>8, <2>2 DEF Side
    <3>2. CASE n = y /\ s = "right"
      <4>1. u.child[n]["right"] = d
        BY <1>8, <3>2
      <4>2. pos2[y] < e /\ e <= high2[y]
        BY <1>2, <1>3, <1>4, <3>2
      <4> QED BY <1>4, <3>2, <4>1, <4>2
    <3>3. CASE ~(n = y /\ s = "right")
      <4>1. u.child[n]["right"] = t.child[n]["right"]
        BY <1>9, <3>1, <3>3 DEF Side
      <4> DEFINE c == t.child[n]["right"]
      <4>2. c \in P /\ pos[n] < low[c] /\ high[c] <= high[n]
        BY <1>10, <2>2, <3>1, <4>1 DEF Shape, Nested, Side
      <4> HIDE DEF c
      <4>3. pos2[n] < low2[c] /\ high2[c] <= high2[n]
        BY <1>2, <1>4, <3>1, <4>2
      <4> QED BY <4>1, <4>3 DEF c
    <3> QED BY <3>2, <3>3
  <2> QED BY <2>1, <2>2 DEF Nested
<1>14. \A m, n \in P : /\ pos2[m] < pos2[n] <=> pos[m] < pos[n]
  <2> SUFFICES ASSUME NEW m \in P, NEW n \in P PROVE pos2[m] < pos2[n] <=> pos[m] < pos[n]
    OBVIOUS
  <2>1. pos[m] \in Int /\ pos[n] \in Int /\ pos2[m] = 3 * pos[m] /\ pos2[n] = 3 * pos[n]
    BY <1>2, <1>4
  <2> QED BY ONLY <2>1
<1>15. Full(u, Q, pos2, low2, high2)
  <2>1. ASSUME NEW m \in Q, NEW n \in Q, At(m, n, pos2, low2, high2), pos2[m] < pos2[n]
        PROVE  u.child[n]["left"] # Nil /\ At(m, u.child[n]["left"], pos2, low2, high2)
    <3>1. n \in P
      BY <1>3, <1>4, <1>7, <2>1
    <3>2. CASE m = d /\ n = y
      <4>1. s = "left"
        BY <1>4, <1>6, <1>2, <2>1, <3>2
      <4> QED BY <1>1, <1>7, <1>8, <3>2, <4>1
    <3>3. CASE ~(m = d /\ n = y)
      <4> DEFINE k == IF m = d THEN y ELSE m
      <4>1. k \in P /\ At(k, n, pos, low, high) /\ pos[k] < pos[n]
        BY <1>2, <1>4, <1>6, <1>7, <1>14, <2>1, <3>1, <3>3
      <4>2. t.child[n]["left"] # Nil /\ At(k, t.child[n]["left"], pos, low, high)
        BY <3>1, <4>1 DEF Shape, Full
      <4>3. u.child[n]["left"] = t.child[n]["left"] /\ t.child[n]["left"] \in P
        BY <1>9, <1>10, <3>1, <4>2 DEF Side
      <4> QED BY <1>7, <4>1, <4>2, <4>3
    <3> QED BY <3>2, <3>3
  <2>2. ASSUME NEW m \in Q, NEW n \in Q, At(m, n, pos2, low2, high2), pos2[n] < pos2[m]
        PROVE  u.child[n]["right"] # Nil /\ At(m, u.child[n]["right"], pos2, low2, high2)
    <3>1. n \in P
      BY <1>3, <1>4, <1>7, <2>2
    <3>2. CASE m = d /\ n = y
      <4>1. s = "right"
        BY <1>4, <1>6, <1>2, <2>2, <3>2
      <4> QED BY <1>1, <1>7, <1>8, <3>2, <4>1
    <3>3. CASE ~(m = d /\ n = y)
      <4> DEFINE k == IF m = d THEN y ELSE m
      <4>1. k \in P /\ At(k, n, pos, low, high) /\ pos[n] < pos[k]
        BY <1>2, <1>4, <1>6, <1>7, <1>14, <2>2, <3>1, <3>3
      <4>2. t.child[n]["right"] # Nil /\ At(k, t.child[n]["right"], pos, low, high)
        BY <3>1, <4>1 DEF Shape, Full
      <4>3. u.child[n]["right"] = t.child[n]["right"] /\ t.child[n]["right"] \in P
        BY <1>9, <1>10, <3>1, <4>2 DEF Side
      <4> QED BY <1>7, <4>1, <4>2, <4>3
    <3> QED BY <3>2, <3>3
  <2>3. ASSUME NEW m \in Q PROVE At(m, u.root, pos2, low2, high2)
    <3>1. t.root \in P /\ \A k \in P : At(k, t.root, pos, low, high)
      BY <1>1 DEF Shape, Joined, Full
    <3> QED BY <1>7, <1>8, <3>1
  <2> QED BY <2>1, <2>2, <2>3 DEF Full
<1>16. Shape(u, Q, pos2, low2, high2)
  BY <1>11, <1>12, <1>13, <1>15 DEF Shape
<1> HIDE DEF pos2, low2, high2
<1> QED BY <1>4, <1>6, <1>14, <1>16 DEF NextTo

\* The first node of an empty tree.
LEMMA AddFirst ==
  ASSUME NEW t \in Tree, NEW pos, NEW low, NEW high, Shape(t, {}, pos, low, high), OthersBare(t, {}),
         NEW d \in Data, NEW s \in Side, NEW u, Added(t, u, d, Nil, s)
  PROVE  \E pos2, low2, high2 : Shape(u, {d}, pos2, low2, high2)
<1> DEFINE z == [n \in Data |-> 0]
<1>1. d \in Node /\ Nil \in Node /\ d # Nil
  BY TreeAssumption DEF Node
<1>2. z \in [Data -> Int] /\ z[d] = 0
  OBVIOUS
<1>3. /\ u.root = d /\ u.parent[d] = Nil
      /\ \A n \in Node, f \in Side : u.child[n][f] = Nil
  BY <1>1 DEF Added, OthersBare
<1> HIDE DEF z
<1>4. Joined(u, {d})
  BY <1>1, <1>3 DEF Joined
<1>5. Seated({d}, z, z, z)
  BY <1>2 DEF Seated
<1>6. Nested(u, {d}, z, z, z)
  BY <1>1, <1>3 DEF Nested, Side
<1>7. Full(u, {d}, z, z, z)
  <2>1. At(d, d, z, z, z) /\ ~(z[d] < z[d])
    BY ONLY <1>2 DEF At
  <2> QED BY <1>3, <2>1 DEF Full
<1> QED BY <1>4, <1>5, <1>6, <1>7 DEF Shape
----------------------------------------------------------------------------
(* Removal: the cut.                                                       *)

\* u is t with y out, and its child x, which may be Nil, in its place.
CutOut(t, u, P, y, x) ==
  /\ u \in Tree /\ u.color = t.color
  /\ u.root = IF t.root = y THEN x ELSE t.root
  /\ \A n \in P \ {y}, d \in Side : u.child[n][d] = IF t.child[n][d] = y THEN x ELSE t.child[n][d]
  /\ \A n \in Node \ P : u.child[n] = t.child[n]
  /\ u.child[y] = t.child[y]
  /\ u.parent[x] = t.parent[y] /\ \A n \in Node : n # x => u.parent[n] = t.parent[n]

\* The writes that take out a node with one child at most.
LEMMA CutFields ==
  ASSUME NEW t \in Tree, NEW P, NEW pos, NEW low, NEW high, Shape(t, P, pos, low, high),
         NEW y \in P, NEW x, \E s \in Side : x = t.child[y][s],
         NEW u, u = Hang([t EXCEPT !.parent[x] = t.parent[y]], t.parent[y], y, x)
  PROVE  CutOut(t, u, P, y, x)
<1> DEFINE p == t.parent[y]
           t1 == [t EXCEPT !.parent[x] = p]
<1>1. P \subseteq Data /\ Nil \notin P /\ P \subseteq Node /\ y \in Node /\ y # Nil
  BY TreeAssumption DEF Shape, Seated, Node
<1>2. x \in Node /\ x # y /\ p \in Node
  <2>1. x \in Node /\ p \in Node
    BY <1>1 DEF Tree
  <2>2. x # y
    BY <1>1, Apart
  <2> QED BY <2>1, <2>2
<1>3. /\ (p = Nil <=> y = t.root) /\ (p # Nil => p \in P /\ p # y)
      /\ p # Nil => \A d \in Side : t.child[p][d] = y => t.child[p][Other(d)] # y
      /\ p # Nil => \E d \in Side : t.child[p][d] = y
  <2>1. (p = Nil <=> y = t.root) /\ (p # Nil => p \in P /\ \E d \in Side : t.child[p][d] = y)
    BY <1>1 DEF Shape, Joined
  <2>2. ASSUME p # Nil, NEW d \in Side, t.child[p][d] = y PROVE t.child[p][Other(d)] # y /\ p # y
    BY <1>1, <2>1, <2>2, Apart
  <2> QED BY <2>1, <2>2
<1>4. \A n \in P, d \in Side : t.child[n][d] = y => n = p
  BY <1>1 DEF Shape, Joined
<1> HIDE DEF p, t1
<1>5. /\ t1 \in Tree /\ t1.child = t.child /\ t1.color = t.color /\ t1.root = t.root
      /\ t1.parent[x] = p /\ \A n \in Node : n # x => t1.parent[n] = t.parent[n]
  BY <1>2, ParentFields DEF t1
<1>6. u = Hang(t1, p, y, x)
  BY DEF t1, p
<1>7. /\ u \in Tree /\ u.parent = t1.parent /\ u.color = t.color
      /\ p = Nil => u.root = x /\ u.child = t.child
      /\ p # Nil => /\ u.root = t.root
                    /\ \E d \in Side : /\ d = IF t.child[p]["left"] = y THEN "left" ELSE "right"
                                       /\ u.child[p][d] = x
                                       /\ u.child[p][Other(d)] = t.child[p][Other(d)]
                    /\ \A n \in Node : n # p => u.child[n] = t.child[n]
  <2>1. t1 \in Tree /\ p \in Node /\ y \in Node /\ x \in Node
    BY <1>1, <1>2, <1>5
  <2> DEFINE v == Hang(t1, p, y, x)
  <2>2. /\ v \in Tree /\ v.parent = t1.parent /\ v.color = t1.color
        /\ p = Nil => v.root = x /\ v.child = t1.child
        /\ p # Nil => /\ v.root = t1.root
                      /\ \E d \in Side : /\ d = IF t1.child[p]["left"] = y THEN "left" ELSE "right"
                                         /\ v.child[p][d] = x
                                         /\ v.child[p][Other(d)] = t1.child[p][Other(d)]
                      /\ \A n \in Node : n # p => v.child[n] = t1.child[n]
    BY ONLY <2>1, HangFields
  <2>3. u = v
    BY <1>6
  <2> HIDE DEF v
  <2> QED BY <1>5, <2>2, <2>3
<1>8. u.root = IF t.root = y THEN x ELSE t.root
  BY <1>3, <1>7
<1>9. ASSUME p # Nil, NEW d \in Side PROVE u.child[p][d] = IF t.child[p][d] = y THEN x ELSE t.child[p][d]
  <2>1. PICK e \in Side : /\ e = IF t.child[p]["left"] = y THEN "left" ELSE "right"
                          /\ u.child[p][e] = x
                          /\ u.child[p][Other(e)] = t.child[p][Other(e)]
    BY <1>7, <1>9
  <2>2. t.child[p][e] = y /\ t.child[p][Other(e)] # y
    BY <1>3, <1>9, <2>1 DEF Side
  <2>3. d = e \/ d = Other(e)
    BY Sides
  <2> QED BY ONLY <2>1, <2>2, <2>3
<1>10. ASSUME NEW n \in P, NEW d \in Side PROVE u.child[n][d] = IF t.child[n][d] = y THEN x ELSE t.child[n][d]
  BY <1>1, <1>4, <1>7, <1>9
<1>11. \A n \in Node \ P : u.child[n] = t.child[n]
  BY <1>3, <1>7
<1>12. u.child[y] = t.child[y]
  BY <1>1, <1>3, <1>7
<1> QED BY ONLY <1>5, <1>7, <1>8, <1>10, <1>11, <1>12 DEF CutOut, p

\* The tree without that node has the places it had.
LEMMA CutShape ==
  ASSUME NEW t \in Tree, NEW P, NEW pos, NEW low, NEW high, Shape(t, P, pos, low, high),
         OthersBare(t, P), NEW y \in P, NEW s \in Side, t.child[y][Other(s)] = Nil, NEW x, x = t.child[y][s],
         NEW u, CutOut(t, u, P, y, x)
  PROVE  Shape(u, P \ {y}, pos, low, high)
<1> DEFINE Q == P \ {y}
           p == t.parent[y]
<1>1. P \subseteq Data /\ Nil \notin P /\ P \subseteq Node /\ y \in Node /\ y # Nil /\ Nil \in Node
  BY TreeAssumption DEF Shape, Seated, Node
<1>2. /\ \A m \in P : /\ low[m] \in Int /\ high[m] \in Int /\ pos[m] \in Int
                      /\ low[m] <= pos[m] /\ pos[m] <= high[m]
      /\ \A m, n \in P : pos[m] = pos[n] => m = n
  BY <1>1 DEF Shape, Seated
<1>3. /\ \A n \in P, d \in Side : t.child[n][d] # Nil => t.child[n][d] \in P /\ t.parent[t.child[n][d]] = n
      /\ \A n \in P : n # t.root => t.parent[n] \in P /\ \E d \in Side : t.child[t.parent[n]][d] = n
      /\ t.root # Nil => t.root \in P /\ t.parent[t.root] = Nil
  BY DEF Shape, Joined
<1>4. /\ x # Nil => x \in P /\ x # y /\ x # t.root /\ t.parent[x] = y
      /\ \A d \in Side : t.child[y][d] # Nil => d = s
  <2>1. \A d \in Side : d = s \/ d = Other(s)
    BY Sides
  <2> QED BY <1>1, <1>3, <2>1, Apart
<1>5. /\ u.root = IF t.root = y THEN x ELSE t.root
      /\ \A n \in Q, d \in Side : u.child[n][d] = IF t.child[n][d] = y THEN x ELSE t.child[n][d]
      /\ \A n \in Node \ P : u.child[n] = t.child[n]
      /\ u.child[y] = t.child[y]
      /\ u.parent[x] = p /\ \A n \in Node : n # x => u.parent[n] = t.parent[n]
  BY DEF CutOut
<1> HIDE DEF p
\* What was at y is at x.
<1>6. \A m \in Q : At(m, y, pos, low, high) => x # Nil /\ At(m, x, pos, low, high)
  <2> SUFFICES ASSUME NEW m \in Q, At(m, y, pos, low, high) PROVE x # Nil /\ At(m, x, pos, low, high)
    OBVIOUS
  <2>1. pos[m] < pos[y] \/ pos[y] < pos[m]
    BY <1>2
  <2>2. CASE pos[m] < pos[y]
    <3>1. t.child[y]["left"] # Nil /\ At(m, t.child[y]["left"], pos, low, high)
      BY <2>2 DEF Shape, Full
    <3>2. s = "left"
      BY <1>4, <3>1 DEF Side
    <3> QED BY <3>1, <3>2
  <2>3. CASE pos[y] < pos[m]
    <3>1. t.child[y]["right"] # Nil /\ At(m, t.child[y]["right"], pos, low, high)
      BY <2>3 DEF Shape, Full
    <3>2. s = "right"
      BY <1>4, <3>1 DEF Side
    <3> QED BY <3>1, <3>2
  <2> QED BY <2>1, <2>2, <2>3
<1>7. x # Nil => low[y] <= low[x] /\ high[x] <= high[y]
  <2>1. CASE s = "left" /\ x # Nil
    BY <1>2, <1>4, <2>1 DEF Shape, Nested
  <2>2. CASE s = "right" /\ x # Nil
    BY <1>2, <1>4, <2>2 DEF Shape, Nested
  <2> QED BY <2>1, <2>2 DEF Side
<1>8. Joined(u, Q)
  <2>1. ASSUME NEW n \in Q, NEW d \in Side, u.child[n][d] # Nil PROVE u.child[n][d] \in Q /\ u.parent[u.child[n][d]] = n
    <3>1. CASE t.child[n][d] = y
      <4>1. p = n
        BY <1>1, <1>3, <3>1 DEF p
      <4> QED BY <1>4, <1>5, <2>1, <3>1, <4>1
    <3>2. CASE t.child[n][d] # y
      <4>1. u.child[n][d] = t.child[n][d] /\ t.child[n][d] \in P /\ t.parent[t.child[n][d]] = n
        BY <1>3, <1>5, <2>1, <3>2
      <4>2. t.child[n][d] # x
        BY <1>1, <1>4, <4>1
      <4> QED BY <1>1, <1>5, <3>2, <4>1, <4>2
    <3> QED BY <3>1, <3>2
  <2>2. u.root # Nil => u.root \in Q /\ u.parent[u.root] = Nil
    <3>1. CASE t.root = y
      BY <1>1, <1>3, <1>4, <1>5, <3>1 DEF p
    <3>2. CASE t.root # y
      BY <1>1, <1>3, <1>4, <1>5, <3>2
    <3> QED BY <3>1, <3>2
  <2>3. u.root = Nil => Q = {}
    <3>1. t.root # Nil
      BY DEF Shape, Joined
    <3>2. ASSUME t.root = y, NEW m \in Q PROVE x # Nil
      <4>1. At(m, y, pos, low, high)
        BY <3>2 DEF Shape, Full
      <4> QED BY <1>6, <4>1
    <3> QED BY <1>5, <3>1, <3>2
  <2>4. ASSUME NEW n \in Q, n # u.root PROVE u.parent[n] \in Q /\ \E d \in Side : u.child[u.parent[n]][d] = n
    <3>1. CASE n = x
      <4>1. y # t.root
        BY <1>5, <2>4, <3>1
      <4>2. p \in P /\ \E d \in Side : t.child[p][d] = y
        BY <1>3, <4>1 DEF p
      <4>3. p # y
        BY <1>1, <4>2, Apart
      <4> QED BY <1>5, <3>1, <4>2, <4>3
    <3>2. CASE n # x
      <4>1. n # t.root
        BY <1>5, <2>4
      <4>2. u.parent[n] = t.parent[n] /\ t.parent[n] \in P
        BY <1>1, <1>3, <1>5, <3>2, <4>1
      <4>3. PICK d \in Side : t.child[t.parent[n]][d] = n
        BY <1>3, <4>1
      <4>4. t.parent[n] # y
        BY <1>1, <1>4, <3>2, <4>3
      <4> QED BY <1>5, <4>2, <4>3, <4>4
    <3> QED BY <3>1, <3>2
  <2>5. \A n \in Node \ Q, d \in Side : u.child[n][d] \in Q \cup {Nil}
    <3>1. ASSUME NEW n \in Node \ P, NEW d \in Side PROVE t.child[n][d] = Nil
      BY DEF OthersBare
    <3>2. ASSUME NEW n \in Node \ P, NEW d \in Side PROVE u.child[n][d] \in Q \cup {Nil}
      BY <1>5, <3>1
    <3> QED BY <1>3, <1>4, <1>5, <3>2
  <2>6. \A d \in Side : u.child[Nil][d] = Nil
    BY <1>1, <1>5 DEF Shape, Joined
  <2> QED BY <2>1, <2>2, <2>3, <2>4, <2>5, <2>6 DEF Joined
<1>9. Seated(Q, pos, low, high)
  BY <1>2 DEF Shape, Seated
<1>10. Nested(u, Q, pos, low, high)
  <2>1. ASSUME NEW n \in Q, u.child[n]["left"] # Nil
        PROVE  low[n] <= low[u.child[n]["left"]] /\ high[u.child[n]["left"]] < pos[n]
    <3>1. t.child[n]["left"] # Nil => low[n] <= low[t.child[n]["left"]] /\ high[t.child[n]["left"]] < pos[n]
      BY DEF Shape, Nested
    <3>2. CASE t.child[n]["left"] = y
      <4>1. u.child[n]["left"] = x /\ low[n] <= low[y] /\ high[y] < pos[n] /\ x # Nil
        BY <1>1, <1>5, <2>1, <3>1, <3>2 DEF Side
      <4> QED BY <1>2, <1>4, <1>7, <4>1
    <3>3. CASE t.child[n]["left"] # y
      BY <1>5, <2>1, <3>1, <3>3 DEF Side
    <3> QED BY <3>2, <3>3
  <2>2. ASSUME NEW n \in Q, u.child[n]["right"] # Nil
        PROVE  pos[n] < low[u.child[n]["right"]] /\ high[u.child[n]["right"]] <= high[n]
    <3>1. t.child[n]["right"] # Nil => pos[n] < low[t.child[n]["right"]] /\ high[t.child[n]["right"]] <= high[n]
      BY DEF Shape, Nested
    <3>2. CASE t.child[n]["right"] = y
      <4>1. u.child[n]["right"] = x /\ pos[n] < low[y] /\ high[y] <= high[n] /\ x # Nil
        BY <1>1, <1>5, <2>2, <3>1, <3>2 DEF Side
      <4> QED BY <1>2, <1>4, <1>7, <4>1
    <3>3. CASE t.child[n]["right"] # y
      BY <1>5, <2>2, <3>1, <3>3 DEF Side
    <3> QED BY <3>2, <3>3
  <2> QED BY <2>1, <2>2 DEF Nested
<1>11. Full(u, Q, pos, low, high)
  <2>1. ASSUME NEW m \in Q, NEW n \in Q, At(m, n, pos, low, high), pos[m] < pos[n]
        PROVE  u.child[n]["left"] # Nil /\ At(m, u.child[n]["left"], pos, low, high)
    <3>1. t.child[n]["left"] # Nil /\ At(m, t.child[n]["left"], pos, low, high)
      BY <2>1 DEF Shape, Full
    <3> QED BY <1>5, <1>6, <3>1 DEF Side
  <2>2. ASSUME NEW m \in Q, NEW n \in Q, At(m, n, pos, low, high), pos[n] < pos[m]
        PROVE  u.child[n]["right"] # Nil /\ At(m, u.child[n]["right"], pos, low, high)
    <3>1. t.child[n]["right"] # Nil /\ At(m, t.child[n]["right"], pos, low, high)
      BY <2>2 DEF Shape, Full
    <3> QED BY <1>5, <1>6, <3>1 DEF Side
  <2>3. \A m \in Q : At(m, u.root, pos, low, high)
    <3>1. \A m \in Q : At(m, t.root, pos, low, high)
      BY DEF Shape, Full
    <3> QED BY <1>5, <1>6, <3>1
  <2> QED BY <2>1, <2>2, <2>3 DEF Full
<1> QED BY <1>8, <1>9, <1>10, <1>11 DEF Shape
----------------------------------------------------------------------------
(* Removal: the splice.                                                    *)

As(n, z, y) == IF n = z THEN y ELSE n

\* u is t with y in the place of z, and z out.
Replaced(t, u, P, z, y) ==
  /\ u \in Tree
  /\ u.root = As(t.root, z, y)
  /\ \A n \in P : /\ \A d \in Side : u.child[As(n, z, y)][d] = As(t.child[n][d], z, y)
                  /\ u.parent[As(n, z, y)] = As(t.parent[n], z, y)
                  /\ u.color[As(n, z, y)] = t.color[n]
  /\ \A d \in Side : u.child[z][d] = Nil
  /\ \A n \in Node \ P : n # y => u.child[n] = t.child[n]
  /\ u.color[Nil] = t.color[Nil]

\* The tree t with the node z as a free one is.
Cleared(t, u, z) ==
  u = [t EXCEPT !.child[z] = [s \in Side |-> Nil], !.parent[z] = Nil, !.color[z] = "black"]

\* The node z is emptied.
LEMMA ClearFields ==
  ASSUME NEW t \in Tree, NEW z \in Data, NEW u, Cleared(t, u, z)
  PROVE  /\ u \in Tree /\ u.root = t.root
         /\ \A d \in Side : u.child[z][d] = Nil
         /\ \A n \in Node : n # z => u.child[n] = t.child[n] /\ u.parent[n] = t.parent[n] /\ u.color[n] = t.color[n]
<1>1. z \in Node /\ Nil \in Node
  BY DEF Node
<1>2. [s \in Side |-> Nil] \in [Side -> Node]
  BY <1>1
<1>3. u \in Tree
  BY <1>1, <1>2 DEF Tree, Cleared
<1>4. /\ u.root = t.root /\ u.child = [t.child EXCEPT ![z] = [s \in Side |-> Nil]]
      /\ u.parent = [t.parent EXCEPT ![z] = Nil] /\ u.color = [t.color EXCEPT ![z] = "black"]
  BY DEF Tree, Cleared
<1>5. t.parent \in [Node -> Node] /\ t.child \in [Node -> [Side -> Node]] /\ t.color \in [Node -> {"red", "black"}]
  BY DEF Tree
<1> QED BY <1>1, <1>3, <1>4, <1>5

\* The writes that put y in the place of z.
LEMMA SpliceFields ==
  ASSUME NEW t \in Tree, NEW P, NEW pos, NEW low, NEW high, Shape(t, P, pos, low, high),
         NEW z \in P, NEW y \in Data \ P,
         NEW u, u = [Substitute(t, z, y) EXCEPT !.child[z] = [s \in Side |-> Nil], !.parent[z] = Nil,
                                                !.color[z] = "black"]
  PROVE  Replaced(t, u, P, z, y)
<1> DEFINE p == t.parent[z]
           t0 == IF t.root = z THEN [t EXCEPT !.root = y] ELSE t
           t1 == [t0 EXCEPT !.parent[y] = p, !.child[y] = t.child[z], !.color[y] = t.color[z]]
           t2 == IF p = Nil THEN t1 ELSE Hang(t1, p, z, y)
           l == t.child[z]["left"]
           r == t.child[z]["right"]
           t3 == SetParent(t2, l, y)
           t4 == SetParent(t3, r, y)
<1>1. /\ P \subseteq Data /\ Nil \notin P /\ P \subseteq Node /\ z \in Node /\ z # Nil /\ y \in Node /\ y # Nil /\ y # z
      /\ y \notin P /\ Nil \in Node /\ "left" \in Side /\ "right" \in Side /\ y \in Data
  BY TreeAssumption DEF Shape, Seated, Node, Side
<1>2. Substitute(t, z, y) = t4
  BY DEF Substitute
<1>3. p \in Node /\ l \in Node /\ r \in Node /\ t.child[z] \in [Side -> Node] /\ t.color[z] \in {"red", "black"}
  BY <1>1 DEF Tree
<1>4. /\ \A n \in P, d \in Side : t.child[n][d] # Nil => t.child[n][d] \in P /\ t.parent[t.child[n][d]] = n
      /\ \A n \in P : n # t.root => t.parent[n] \in P /\ \E d \in Side : t.child[t.parent[n]][d] = n
      /\ t.root # Nil => t.root \in P /\ t.parent[t.root] = Nil
      /\ t.root # Nil
  BY <1>1 DEF Shape, Joined
<1>5. /\ (p = Nil <=> z = t.root) /\ (p # Nil => p \in P /\ p # z)
      /\ p # Nil => \A d \in Side : t.child[p][d] = z => t.child[p][Other(d)] # z
      /\ p # Nil => \E d \in Side : t.child[p][d] = z
  <2>1. (p = Nil <=> z = t.root) /\ (p # Nil => p \in P /\ \E d \in Side : t.child[p][d] = z)
    BY <1>1, <1>4
  <2>2. ASSUME p # Nil, NEW d \in Side, t.child[p][d] = z PROVE t.child[p][Other(d)] # z /\ p # z
    BY <1>1, <2>1, <2>2, Apart
  <2> QED BY <2>1, <2>2
<1>6. /\ l # Nil => l \in P /\ l # z /\ l # r /\ t.parent[l] = z
      /\ r # Nil => r \in P /\ r # z /\ l # r /\ t.parent[r] = z
      /\ \A n \in P : t.parent[n] = z => n = l \/ n = r
      /\ l # y /\ r # y
  <2>1. \A d \in Side : d = "left" \/ d = "right"
    BY DEF Side
  <2>2. l # Nil => l \in P /\ l # z /\ l # r /\ t.parent[l] = z
    BY <1>1, Apart DEF Other
  <2>3. r # Nil => r \in P /\ r # z /\ l # r /\ t.parent[r] = z
    BY <1>1, Apart DEF Other
  <2> QED BY <1>1, <1>4, <2>1, <2>2, <2>3
<1> HIDE DEF p, t0, t1, t2, l, r, t3, t4
<1>7. t0 \in Tree /\ t0.root = As(t.root, z, y) /\ t0.child = t.child /\ t0.parent = t.parent /\ t0.color = t.color
  <2>1. CASE t.root = z
    <3>1. t0 = [t EXCEPT !.root = y]
      BY <2>1 DEF t0
    <3> QED BY <1>1, <2>1, <3>1 DEF Tree, As
  <2>2. CASE t.root # z
    BY <2>2 DEF t0, As
  <2> QED BY <2>1, <2>2
<1>8. /\ t1 \in Tree /\ t1.root = t0.root
      /\ t1.parent[y] = p /\ t1.child[y] = t.child[z] /\ t1.color[y] = t.color[z]
      /\ \A n \in Node : n # y => t1.parent[n] = t.parent[n] /\ t1.child[n] = t.child[n] /\ t1.color[n] = t.color[n]
  <2>1. t1 = [t0 EXCEPT !.parent[y] = p, !.child[y] = t.child[z], !.color[y] = t.color[z]]
    BY DEF t1
  <2>2. t1 \in Tree
    BY <1>1, <1>3, <1>7, <2>1 DEF Tree
  <2>3. /\ t1.root = t0.root /\ t1.parent = [t0.parent EXCEPT ![y] = p]
        /\ t1.child = [t0.child EXCEPT ![y] = t.child[z]] /\ t1.color = [t0.color EXCEPT ![y] = t.color[z]]
    BY <1>7, <2>1 DEF Tree
  <2>4. t0.parent \in [Node -> Node] /\ t0.child \in [Node -> [Side -> Node]] /\ t0.color \in [Node -> {"red", "black"}]
    BY <1>7 DEF Tree
  <2>5. y \in Node /\ t0.child = t.child /\ t0.parent = t.parent /\ t0.color = t.color
    BY <1>1, <1>7
  <2> QED BY ONLY <2>2, <2>3, <2>4, <2>5
<1>9. /\ t2 \in Tree /\ t2.root = t0.root /\ t2.parent = t1.parent /\ t2.color = t1.color
      /\ \A n \in Node : n # p => t2.child[n] = t1.child[n]
      /\ p # Nil => \A d \in Side : t2.child[p][d] = As(t.child[p][d], z, y)
      /\ p = Nil => t2.child = t1.child
  <2>1. CASE p = Nil
    BY <1>8, <2>1 DEF t2
  <2>2. CASE p # Nil
    <3> DEFINE v == Hang(t1, p, z, y)
    <3>1. t1 \in Tree /\ p \in Node /\ z \in Node /\ y \in Node
      BY <1>1, <1>3, <1>8
    <3>2. /\ v \in Tree /\ v.parent = t1.parent /\ v.color = t1.color
          /\ p # Nil => /\ v.root = t1.root
                        /\ \E d \in Side : /\ d = IF t1.child[p]["left"] = z THEN "left" ELSE "right"
                                           /\ v.child[p][d] = y
                                           /\ v.child[p][Other(d)] = t1.child[p][Other(d)]
                        /\ \A n \in Node : n # p => v.child[n] = t1.child[n]
      BY ONLY <3>1, HangFields
    <3>3. t2 = v
      BY <2>2 DEF t2
    <3> HIDE DEF v
    <3>4. t1.child[p] = t.child[p]
      BY <1>1, <1>3, <1>5, <1>8, <2>2
    <3>5. ASSUME NEW d \in Side PROVE t2.child[p][d] = As(t.child[p][d], z, y)
      <4>1. PICK e \in Side : /\ e = IF t.child[p]["left"] = z THEN "left" ELSE "right"
                              /\ t2.child[p][e] = y
                              /\ t2.child[p][Other(e)] = t.child[p][Other(e)]
        BY <2>2, <3>2, <3>3, <3>4
      <4>2. t.child[p][e] = z /\ t.child[p][Other(e)] # z
        BY <1>5, <2>2, <4>1 DEF Side
      <4>3. d = e \/ d = Other(e)
        BY Sides
      <4> QED BY <4>1, <4>2, <4>3 DEF As
    <3> QED BY <1>8, <2>2, <3>2, <3>3, <3>5
  <2> QED BY <2>1, <2>2
<1>10. /\ t3 \in Tree /\ t3.child = t2.child /\ t3.color = t2.color /\ t3.root = t2.root
       /\ l # Nil => t3.parent[l] = y
       /\ \A m \in Node : m # l \/ m = Nil => t3.parent[m] = t2.parent[m]
  <2>1. t2 \in Tree /\ l \in Node /\ y \in Node
    BY <1>1, <1>3, <1>9
  <2> QED BY ONLY <2>1, SetParentFields DEF t3
<1>11. /\ t4 \in Tree /\ t4.child = t3.child /\ t4.color = t3.color /\ t4.root = t3.root
       /\ r # Nil => t4.parent[r] = y
       /\ \A m \in Node : m # r \/ m = Nil => t4.parent[m] = t3.parent[m]
  <2>1. t3 \in Tree /\ r \in Node /\ y \in Node
    BY <1>1, <1>3, <1>10
  <2> QED BY ONLY <2>1, SetParentFields DEF t4
<1>12. /\ t4 \in Tree /\ t4.root = As(t.root, z, y)
       /\ t4.child = t2.child /\ t4.color = t1.color
       /\ \A n \in P : n # z => t4.parent[n] = As(t.parent[n], z, y)
       /\ t4.parent[y] = p
  <2>1. \A n \in P : n # z => t4.parent[n] = As(t.parent[n], z, y)
    <3> SUFFICES ASSUME NEW n \in P, n # z PROVE t4.parent[n] = As(t.parent[n], z, y)
      OBVIOUS
    <3>1. n \in Node /\ n # Nil /\ n # y
      BY <1>1
    <3>2. CASE n = l
      BY <1>6, <1>10, <1>11, <3>1, <3>2 DEF As
    <3>3. CASE n = r
      BY <1>6, <1>10, <1>11, <3>1, <3>3 DEF As
    <3>4. CASE n # l /\ n # r
      BY <1>6, <1>8, <1>9, <1>10, <1>11, <3>1, <3>4 DEF As
    <3> QED BY <3>2, <3>3, <3>4
  <2>2. t4.parent[y] = p
    BY <1>1, <1>6, <1>8, <1>9, <1>10, <1>11
  <2> QED BY <1>7, <1>9, <1>10, <1>11, <2>1, <2>2
<1>13. /\ u \in Tree /\ u.root = t4.root
       /\ \A d \in Side : u.child[z][d] = Nil
       /\ \A n \in Node : n # z => u.child[n] = t4.child[n] /\ u.parent[n] = t4.parent[n] /\ u.color[n] = t4.color[n]
  <2>1. t4 \in Tree /\ z \in Data
    BY <1>1, <1>12
  <2>2. u = [t4 EXCEPT !.child[z] = [s \in Side |-> Nil], !.parent[z] = Nil, !.color[z] = "black"]
    BY <1>2
  <2>3. Cleared(t4, u, z)
    BY <2>2 DEF Cleared
  <2> QED BY ONLY <2>1, <2>3, ClearFields
<1>14. ASSUME NEW n \in P
       PROVE  /\ \A d \in Side : u.child[As(n, z, y)][d] = As(t.child[n][d], z, y)
              /\ u.parent[As(n, z, y)] = As(t.parent[n], z, y)
              /\ u.color[As(n, z, y)] = t.color[n]
  <2>1. CASE n = z
    <3>1. As(n, z, y) = y
      BY <2>1 DEF As
    <3>2. u.child[y] = t.child[z] /\ u.color[y] = t.color[z] /\ u.parent[y] = p
      BY <1>1, <1>5, <1>8, <1>9, <1>12, <1>13
    <3>3. \A d \in Side : t.child[z][d] # z
      BY <1>1, Apart
    <3>4. p # z
      BY <1>1, <1>5
    <3> QED BY <2>1, <3>1, <3>2, <3>3, <3>4 DEF As, p
  <2>2. CASE n # z
    <3>1. As(n, z, y) = n /\ n # y /\ n \in Node
      BY <1>1, <2>2 DEF As
    <3>2. u.parent[n] = As(t.parent[n], z, y) /\ u.color[n] = t.color[n]
      BY <1>8, <1>12, <1>13, <2>2, <3>1
    <3>3. ASSUME NEW d \in Side PROVE u.child[n][d] = As(t.child[n][d], z, y)
      <4>1. u.child[n] = t2.child[n]
        BY <1>12, <1>13, <2>2, <3>1
      <4>2. CASE n = p
        BY <1>1, <1>9, <4>1, <4>2
      <4>3. CASE n # p
        <5>1. u.child[n] = t.child[n]
          BY <1>8, <1>9, <3>1, <4>1, <4>3
        <5>2. t.child[n][d] # z
          BY <1>1, <1>4, <4>3 DEF p
        <5> QED BY <5>1, <5>2 DEF As
      <4> QED BY <4>2, <4>3
    <3> QED BY <3>1, <3>2, <3>3
  <2> QED BY <2>1, <2>2
<1>15. \A n \in Node \ P : n # y => u.child[n] = t.child[n]
  BY <1>1, <1>5, <1>8, <1>9, <1>12, <1>13
<1>16. u.color[Nil] = t.color[Nil]
  BY <1>1, <1>8, <1>12, <1>13
<1> QED BY <1>12, <1>13, <1>14, <1>15, <1>16 DEF Replaced

\* With y in the place of z the places are those of before.
LEMMA ReplaceShape ==
  ASSUME NEW t \in Tree, NEW P, NEW pos, NEW low, NEW high, Shape(t, P, pos, low, high),
         NEW z \in P, NEW y \in Data \ P, \A n \in Node \ P, d \in Side : n # y => t.child[n][d] = Nil,
         NEW u, Replaced(t, u, P, z, y)
  PROVE  Shape(u, (P \ {z}) \cup {y}, [pos EXCEPT ![y] = pos[z]], [low EXCEPT ![y] = low[z]], [high EXCEPT ![y] = high[z]])
<1> DEFINE Q == (P \ {z}) \cup {y}
           pos2 == [pos EXCEPT ![y] = pos[z]]
           low2 == [low EXCEPT ![y] = low[z]]
           high2 == [high EXCEPT ![y] = high[z]]
           r(n) == As(n, z, y)
<1>1. /\ P \subseteq Data /\ Nil \notin P /\ P \subseteq Node /\ z # Nil /\ y # Nil /\ y # z
      /\ y \notin P /\ Nil \in Node /\ y \in Data /\ z \in Data
  BY TreeAssumption DEF Shape, Seated, Node
<1>2. /\ pos \in [Data -> Int] /\ low \in [Data -> Int] /\ high \in [Data -> Int]
      /\ \A m \in P : low[m] <= pos[m] /\ pos[m] <= high[m]
      /\ \A m, n \in P : pos[m] = pos[n] => m = n
  BY DEF Shape, Seated
<1>3. /\ pos2 \in [Data -> Int] /\ low2 \in [Data -> Int] /\ high2 \in [Data -> Int]
      /\ \A n \in P : pos2[r(n)] = pos[n] /\ low2[r(n)] = low[n] /\ high2[r(n)] = high[n]
  BY <1>1, <1>2 DEF As
<1>4. /\ \A n \in P : r(n) \in Q
      /\ \A n \in Q : \E m \in P : n = r(m)
      /\ r(Nil) = Nil
      /\ \A m, n \in P \cup {Nil} : r(m) = r(n) => m = n
  BY <1>1 DEF As
<1>5. /\ u.root = r(t.root)
      /\ \A n \in P : /\ \A d \in Side : u.child[r(n)][d] = r(t.child[n][d])
                      /\ u.parent[r(n)] = r(t.parent[n])
      /\ \A d \in Side : u.child[z][d] = Nil
      /\ \A n \in Node \ P : n # y => u.child[n] = t.child[n]
  BY DEF Replaced
<1>6. \A m, n \in P : At(r(m), r(n), pos2, low2, high2) <=> At(m, n, pos, low, high)
  BY <1>3 DEF At
<1> HIDE DEF r, pos2, low2, high2
<1>7. Joined(u, Q)
  <2>1. ASSUME NEW n \in Q, NEW d \in Side, u.child[n][d] # Nil PROVE u.child[n][d] \in Q /\ u.parent[u.child[n][d]] = n
    <3>1. PICK m \in P : n = r(m)
      BY <1>4
    <3>2. u.child[n][d] = r(t.child[m][d]) /\ t.child[m][d] # Nil
      BY <1>4, <1>5, <2>1, <3>1
    <3>3. t.child[m][d] \in P /\ t.parent[t.child[m][d]] = m
      BY <3>2 DEF Shape, Joined
    <3> QED BY <1>4, <1>5, <3>1, <3>2, <3>3
  <2>2. t.root \in P /\ t.parent[t.root] = Nil /\ t.root # Nil
    BY <1>1 DEF Shape, Joined
  <2>3. u.root \in Q /\ u.parent[u.root] = Nil /\ u.root # Nil
    BY <1>1, <1>4, <1>5, <2>2
  <2>4. ASSUME NEW n \in Q, n # u.root PROVE u.parent[n] \in Q /\ \E d \in Side : u.child[u.parent[n]][d] = n
    <3>1. PICK m \in P : n = r(m)
      BY <1>4
    <3>2. m # t.root
      BY <1>5, <2>4, <3>1
    <3>3. t.parent[m] \in P /\ \E d \in Side : t.child[t.parent[m]][d] = m
      BY <3>2 DEF Shape, Joined
    <3> QED BY <1>4, <1>5, <3>1, <3>3
  <2>5. ASSUME NEW n \in Node \ Q, NEW d \in Side PROVE u.child[n][d] = Nil
    <3>1. CASE n = z
      BY <1>5, <3>1
    <3>2. CASE n # z
      BY <1>5, <3>2
    <3> QED BY <3>1, <3>2
  <2>6. Nil \in Node \ Q
    BY <1>1
  <2> QED BY <2>1, <2>3, <2>4, <2>5, <2>6 DEF Joined
<1>8. Seated(Q, pos2, low2, high2)
  <2>1. \A n \in Q : low2[n] <= pos2[n] /\ pos2[n] <= high2[n]
    BY <1>2, <1>3, <1>4
  <2>2. \A m, n \in Q : pos2[m] = pos2[n] => m = n
    BY <1>2, <1>3, <1>4
  <2> QED BY <1>1, <1>3, <2>1, <2>2 DEF Seated
<1>9. Nested(u, Q, pos2, low2, high2)
  <2>1. ASSUME NEW n \in Q, u.child[n]["left"] # Nil
        PROVE  low2[n] <= low2[u.child[n]["left"]] /\ high2[u.child[n]["left"]] < pos2[n]
    <3>1. PICK m \in P : n = r(m)
      BY <1>4
    <3>2. u.child[n]["left"] = r(t.child[m]["left"]) /\ t.child[m]["left"] # Nil
      BY <1>4, <1>5, <2>1, <3>1 DEF Side
    <3>3. t.child[m]["left"] \in P /\ low[m] <= low[t.child[m]["left"]] /\ high[t.child[m]["left"]] < pos[m]
      BY <3>2 DEF Shape, Joined, Nested, Side
    <3> QED BY <1>3, <3>1, <3>2, <3>3
  <2>2. ASSUME NEW n \in Q, u.child[n]["right"] # Nil
        PROVE  pos2[n] < low2[u.child[n]["right"]] /\ high2[u.child[n]["right"]] <= high2[n]
    <3>1. PICK m \in P : n = r(m)
      BY <1>4
    <3>2. u.child[n]["right"] = r(t.child[m]["right"]) /\ t.child[m]["right"] # Nil
      BY <1>4, <1>5, <2>2, <3>1 DEF Side
    <3>3. t.child[m]["right"] \in P /\ pos[m] < low[t.child[m]["right"]] /\ high[t.child[m]["right"]] <= high[m]
      BY <3>2 DEF Shape, Joined, Nested, Side
    <3> QED BY <1>3, <3>1, <3>2, <3>3
  <2> QED BY <2>1, <2>2 DEF Nested
<1>10. Full(u, Q, pos2, low2, high2)
  <2>1. ASSUME NEW k \in Q, NEW n \in Q, At(k, n, pos2, low2, high2), pos2[k] < pos2[n]
        PROVE  u.child[n]["left"] # Nil /\ At(k, u.child[n]["left"], pos2, low2, high2)
    <3>1. PICK m \in P : n = r(m)
      BY <1>4
    <3>2. PICK j \in P : k = r(j)
      BY <1>4
    <3>3. At(j, m, pos, low, high) /\ pos[j] < pos[m]
      BY <1>3, <1>6, <2>1, <3>1, <3>2
    <3>4. t.child[m]["left"] # Nil /\ At(j, t.child[m]["left"], pos, low, high) /\ t.child[m]["left"] \in P
      BY <3>3 DEF Shape, Full, Joined, Side
    <3>5. u.child[n]["left"] = r(t.child[m]["left"])
      BY <1>5, <3>1 DEF Side
    <3> QED BY <1>1, <1>4, <1>6, <3>2, <3>4, <3>5
  <2>2. ASSUME NEW k \in Q, NEW n \in Q, At(k, n, pos2, low2, high2), pos2[n] < pos2[k]
        PROVE  u.child[n]["right"] # Nil /\ At(k, u.child[n]["right"], pos2, low2, high2)
    <3>1. PICK m \in P : n = r(m)
      BY <1>4
    <3>2. PICK j \in P : k = r(j)
      BY <1>4
    <3>3. At(j, m, pos, low, high) /\ pos[m] < pos[j]
      BY <1>3, <1>6, <2>2, <3>1, <3>2
    <3>4. t.child[m]["right"] # Nil /\ At(j, t.child[m]["right"], pos, low, high) /\ t.child[m]["right"] \in P
      BY <3>3 DEF Shape, Full, Joined, Side
    <3>5. u.child[n]["right"] = r(t.child[m]["right"])
      BY <1>5, <3>1 DEF Side
    <3> QED BY <1>1, <1>4, <1>6, <3>2, <3>4, <3>5
  <2>3. ASSUME NEW k \in Q PROVE At(k, u.root, pos2, low2, high2)
    <3>1. PICK j \in P : k = r(j)
      BY <1>4
    <3>2. At(j, t.root, pos, low, high) /\ t.root \in P
      BY <1>1 DEF Shape, Full, Joined
    <3> QED BY <1>5, <1>6, <3>1, <3>2
  <2> QED BY <2>1, <2>2, <2>3 DEF Full
<1> QED BY <1>7, <1>8, <1>9, <1>10 DEF Shape, pos2, low2, high2
----------------------------------------------------------------------------
(* The colours.                                                            *)

\* The places depend on the links alone.
LEMMA ShapeOfLinks ==
  ASSUME NEW t, NEW u, NEW P, NEW pos, NEW low, NEW high, Shape(t, P, pos, low, high),
         u.root = t.root, u.child = t.child, u.parent = t.parent
  PROVE  Shape(u, P, pos, low, high)
<1>1. Joined(u, P)
  BY DEF Shape, Joined
<1>2. Nested(u, P, pos, low, high) /\ Full(u, P, pos, low, high)
  BY DEF Shape, Nested, Full
<1> QED BY <1>1, <1>2 DEF Shape

\* The side a node is on.
LEMMA SideOfIs ==
  ASSUME NEW t \in Tree, NEW P, NEW pos, NEW low, NEW high, Shape(t, P, pos, low, high),
         NEW x \in P, x # t.root, NEW p, p = t.parent[x], NEW s, s = SideOf(t, x)
  PROVE  /\ p \in P /\ p # x /\ p # Nil /\ s \in Side /\ Other(s) \in Side /\ Other(s) # s /\ Other(Other(s)) = s
         /\ t.child[p][s] = x /\ t.child[p][Other(s)] # x
<1>1. p \in P /\ p # Nil /\ x # Nil
  BY TreeAssumption DEF Shape, Joined, Seated
<1>2. PICK d \in Side : t.child[p][d] = x
  BY DEF Shape, Joined
<1>3. x # p /\ t.child[p][Other(d)] # x
  BY ONLY <1>1, <1>2, Apart, t \in Tree, Shape(t, P, pos, low, high)
<1>4. s = d
  BY <1>2, <1>3 DEF SideOf, Side, Other
<1> QED BY <1>1, <1>2, <1>3, <1>4, Sides

\* A red node above a red one.
Clash(t, n, d) == t.color[n] = "red" /\ t.color[t.child[n][d]] = "red"

\* No red node is above a red one, unless it is one of F above any or any
\* above one of C.
RedsApart(t, P, F, C) == \A n \in P, d \in Side : Clash(t, n, d) => n \in F \/ t.child[n][d] \in C

\* An insertion that rebalances at x: x may be red below a red one.
Growing(t, P, black, x) ==
  /\ Level(t, P, black, Nil, "left")
  /\ x \in P /\ t.color[x] = "red"
  /\ RedsApart(t, P, {}, {x})
  /\ x # t.root => t.color[t.root] = "black"

\* A removal that rebalances at x, which may be Nil: a black node is missing
\* above x.
Shrinking(t, P, black, x) ==
  /\ x \in P \cup {Nil}
  /\ RedsApart(t, P, {x}, {x})
  /\ x = t.root => Level(t, P, black, Nil, "left")
  /\ x # t.root => /\ t.parent[x] \in P /\ t.child[t.parent[x]][SideOf(t, x)] = x
                   /\ t.color[t.root] = "black"
                   /\ Level(t, P, black, t.parent[x], SideOf(t, x))

\* All is well with the colours.
Settled(t, P, black) ==
  /\ Level(t, P, black, Nil, "left")
  /\ RedsApart(t, P, {}, {})
  /\ t.color[t.root] = "black"

\* A turn of a rebalancing: u is t, elsewhere linked, with the same nodes in the
\* same places.
Turned(t, u, P, pos) ==
  /\ u \in Tree /\ u.color[Nil] = "black"
  /\ \A n \in Node \ P : u.child[n] = t.child[n]
  /\ \E low, high : Shape(u, P, pos, low, high)

\* The colours after the rotation of x below y, where black changed to
\* black2 at x and y.
LEMMA RotateLevel ==
  ASSUME NEW t \in Tree, NEW P, NEW pos, NEW low, NEW high, Shape(t, P, pos, low, high),
         NEW x \in P, NEW s \in Side, NEW y \in P, y = t.child[x][Other(s)],
         NEW u, Rotated(t, u, P, x, y, s), NEW black, NEW black2, NEW at, NEW e,
         black \in [Node -> Nat], black2 \in [Node -> Nat], black2[Nil] = 0, black2[y] = black[x],
         \A n \in Node : n # x /\ n # y => black2[n] = black[n],
         \A n \in P : n # x /\ n # y => LevelAt(t, n, black, at, e),
         LevelAt(u, x, black2, at, e), LevelAt(u, y, black2, at, e)
  PROVE  Level(u, P, black2, at, e)
<1>1. P \subseteq Data /\ P \subseteq Node /\ Nil \notin P
  BY TreeAssumption DEF Shape, Seated, Node
<1>2. ASSUME NEW n \in P, n # x, n # y PROVE LevelAt(u, n, black2, at, e)
  <2>1. ASSUME NEW d \in Side PROVE black2[u.child[n][d]] = black[t.child[n][d]]
    <3>1. u.child[n][d] = IF t.child[n][d] = x THEN y ELSE t.child[n][d]
      BY <1>2 DEF Rotated
    <3>2. t.child[n][d] # y
      <4>1. x # Nil /\ y # Nil /\ t.parent[y] = x
        BY <1>1 DEF Shape, Joined, Side, Other
      <4>2. t.child[n][d] # Nil => t.parent[t.child[n][d]] = n
        BY DEF Shape, Joined
      <4> QED BY <1>2, <4>1, <4>2
    <3>3. t.child[n][d] \in Node
      BY <1>1 DEF Tree
    <3> QED BY <3>1, <3>2, <3>3
  <2>2. u.color[n] = t.color[n] /\ black2[n] = black[n] /\ LevelAt(t, n, black, at, e)
    BY <1>1, <1>2 DEF Rotated
  <2> QED BY ONLY <2>1, <2>2 DEF LevelAt
<1> QED BY <1>2 DEF Level
----------------------------------------------------------------------------
(* The colours while an insertion rebalances.                              *)

\* x, its red parent p, and the grandparent g with p on side s.
RedBelow(t, P, black, x, p, g, s) ==
  /\ Growing(t, P, black, x) /\ t.color[Nil] = "black"
  /\ x # t.root /\ p = t.parent[x] /\ t.color[p] = "red"
  /\ g = t.parent[p] /\ s = SideOf(t, p)

\* The red parent of a red node is not the root, and its own parent is black.
LEMMA GrandIsBlack ==
  ASSUME NEW t \in Tree, NEW P, NEW pos, NEW low, NEW high, Shape(t, P, pos, low, high),
         NEW black, NEW x, NEW p, NEW g, NEW s, RedBelow(t, P, black, x, p, g, s)
  PROVE  /\ x \in P /\ p \in P /\ g \in P /\ s \in Side /\ Other(s) \in Side /\ Other(s) # s /\ Other(Other(s)) = s
         /\ t.child[g][s] = p /\ t.child[g][Other(s)] # p /\ t.color[g] = "black" /\ p # g /\ p # x /\ g # x
         /\ p # Nil /\ g # Nil /\ x # Nil /\ P \subseteq Node /\ Nil \notin P /\ p # t.root
         /\ \A d \in Side : t.child[g][d] # g /\ t.child[p][d] # p /\ t.child[p][d] # g
         /\ \E d \in Side : t.child[p][d] = x
<1>1. P \subseteq Data /\ P \subseteq Node /\ Nil \notin P
  BY TreeAssumption DEF Shape, Seated, Node
<1>2. x \in P /\ x # t.root /\ p = t.parent[x] /\ t.color[p] = "red" /\ t.color[x] = "red" /\ p # t.root
  BY DEF RedBelow, Growing
<1>3. p \in P /\ p # x /\ \E d \in Side : t.child[p][d] = x
  BY ONLY <1>2, SideOfIs, t \in Tree, Shape(t, P, pos, low, high)
<1>4. g = t.parent[p] /\ s = SideOf(t, p)
  BY DEF RedBelow
<1>5. /\ g \in P /\ g # p /\ s \in Side /\ Other(s) \in Side /\ Other(s) # s /\ Other(Other(s)) = s
      /\ t.child[g][s] = p /\ t.child[g][Other(s)] # p
  BY ONLY <1>2, <1>3, <1>4, SideOfIs, t \in Tree, Shape(t, P, pos, low, high)
<1>6. g # x /\ \A d \in Side : t.child[p][d] # g
  <2>1. \A d \in Side : t.child[g][s] # Nil /\ t.child[p][d] # g
    BY ONLY <1>1, <1>3, <1>5, Apart, t \in Tree, Shape(t, P, pos, low, high)
  <2> QED BY <1>3, <2>1
<1>7. \A n \in P, d \in Side : t.child[n][d] # n
  BY ONLY <1>1, Apart, t \in Tree, Shape(t, P, pos, low, high)
<1>8. t.color[g] = "black"
  <2>1. Clash(t, g, s) => p = x
    BY <1>5 DEF RedBelow, Growing, RedsApart
  <2>2. t.color[g] \in {"red", "black"}
    BY <1>1, <1>5 DEF Tree
  <2> QED BY <1>2, <1>3, <1>5, <2>1, <2>2 DEF Clash
<1> QED BY <1>1, <1>2, <1>3, <1>5, <1>6, <1>7, <1>8

\* Whose child a node is.
LEMMA OneParent ==
  ASSUME NEW t \in Tree, NEW P, NEW pos, NEW low, NEW high, Shape(t, P, pos, low, high),
         NEW m \in P, NEW n \in P, NEW c \in P, NEW d \in Side, NEW e \in Side, t.child[m][d] = c, t.child[n][e] = c
  PROVE  m = n
BY TreeAssumption DEF Shape, Joined, Seated

\* The equations of the levels where no black node is missing at n.
LEMMA EvenAt ==
  ASSUME NEW t \in Tree, NEW P, P \subseteq Data, NEW black, NEW at, NEW s, Level(t, P, black, at, s),
         NEW n \in P, NEW d \in Side, ~(n = at /\ d = s)
  PROVE  /\ black[t.child[n][d]] = black[n] - Blacks(t.color[n])
         /\ black[t.child[n][d]] \in Nat /\ black[n] \in Nat /\ t.child[n][d] \in Node /\ n \in Node /\ n # Nil
<1>1. n \in Node /\ n # Nil /\ t.child[n][d] \in Node
  BY TreeAssumption DEF Node, Tree
<1>2. black[t.child[n][d]] \in Nat /\ black[n] \in Nat
  BY <1>1 DEF Level
<1>3. LevelAt(t, n, black, at, s)
  BY DEF Level
<1>4. black[t.child[n][d]] = black[n] - Blacks(t.color[n])
  BY <1>3 DEF LevelAt
<1> QED BY <1>1, <1>2, <1>4

\* The same when none is missing at all.
Even(t, P, black) ==
  \A n \in P, d \in Side :
    /\ black[t.child[n][d]] = black[n] - Blacks(t.color[n])
    /\ black[t.child[n][d]] \in Nat /\ black[n] \in Nat /\ t.child[n][d] \in Node /\ n \in Node /\ n # Nil

\* In a level tree every node has its children on one level.
LEMMA EvenLevel ==
  ASSUME NEW t \in Tree, NEW P, P \subseteq Data, NEW black, Level(t, P, black, Nil, "left")
  PROVE  Even(t, P, black)
<1> SUFFICES ASSUME NEW n \in P, NEW d \in Side
             PROVE  /\ black[t.child[n][d]] = black[n] - Blacks(t.color[n])
                    /\ black[t.child[n][d]] \in Nat /\ black[n] \in Nat /\ t.child[n][d] \in Node
                    /\ n \in Node /\ n # Nil
  BY DEF Even
<1>1. n \in Node /\ n # Nil /\ t.child[n][d] \in Node
  BY TreeAssumption DEF Node, Tree
<1>2. black[t.child[n][d]] \in Nat /\ black[n] \in Nat
  BY <1>1 DEF Level
<1>3. black[t.child[n][d]] = black[n] - Blacks(t.color[n])
  BY <1>1 DEF Level, LevelAt
<1> QED BY <1>1, <1>2, <1>3

\* What two nodes with one more black node below are.
LEMMA TwoMore ==
  ASSUME NEW black \in [Node -> Nat], NEW p \in Node, NEW w \in Node, p # w
  PROVE  /\ [black EXCEPT ![p] = @ + 1, ![w] = @ + 1] \in [Node -> Nat]
         /\ [black EXCEPT ![p] = @ + 1, ![w] = @ + 1][p] = black[p] + 1
         /\ [black EXCEPT ![p] = @ + 1, ![w] = @ + 1][w] = black[w] + 1
         /\ \A n \in Node : n # p /\ n # w => [black EXCEPT ![p] = @ + 1, ![w] = @ + 1][n] = black[n]
OBVIOUS

\* With a red uncle the black of the grandparent moves down, and the fault two up.
LEMMA UncleTurnsBlack ==
  ASSUME NEW t \in Tree, NEW P, NEW pos, NEW low, NEW high, Shape(t, P, pos, low, high),
         NEW black, NEW x, NEW p, NEW g, NEW s, RedBelow(t, P, black, x, p, g, s),
         NEW w, w = t.child[g][Other(s)], w # Nil, t.color[w] = "red",
         NEW u, u = Paint(Paint(Paint(t, p, "black"), w, "black"), g, "red")
  PROVE  /\ u \in Tree /\ u.root = t.root /\ u.child = t.child /\ u.parent = t.parent /\ u.color[Nil] = "black"
         /\ Growing(u, P, [black EXCEPT ![p] = @ + 1, ![w] = @ + 1], g)
<1> DEFINE black2 == [black EXCEPT ![p] = @ + 1, ![w] = @ + 1]
<1>1. /\ x \in P /\ p \in P /\ g \in P /\ s \in Side /\ Other(s) \in Side /\ Other(s) # s
      /\ t.child[g][s] = p /\ w # p /\ t.color[g] = "black" /\ p # g /\ p # x /\ g # x
      /\ p # Nil /\ g # Nil /\ x # Nil /\ P \subseteq Node /\ Nil \notin P /\ w # g
  BY GrandIsBlack
<1>2. w \in P
  BY <1>1 DEF Shape, Joined
<1>3. /\ u \in Tree /\ u.root = t.root /\ u.child = t.child /\ u.parent = t.parent
      /\ u.color[p] = "black" /\ u.color[w] = "black" /\ u.color[g] = "red"
      /\ \A n \in Node : n # p /\ n # w /\ n # g => u.color[n] = t.color[n]
  <2> DEFINE t1 == Paint(t, p, "black")
             t2 == Paint(t1, w, "black")
             v == Paint(t2, g, "red")
  <2>1. p \in Node /\ w \in Node /\ g \in Node /\ "red" \in Hue /\ "black" \in Hue
    BY <1>1, <1>2 DEF Hue
  <2>2. /\ t1 \in Tree /\ t1.root = t.root /\ t1.child = t.child /\ t1.parent = t.parent
        /\ t1.color[p] = "black" /\ \A n \in Node : n # p => t1.color[n] = t.color[n]
    BY ONLY <2>1, PaintFields, t \in Tree
  <2>3. u = v
    OBVIOUS
  <2> HIDE DEF t1
  <2>4. /\ t2 \in Tree /\ t2.root = t1.root /\ t2.child = t1.child /\ t2.parent = t1.parent
        /\ t2.color[w] = "black" /\ \A n \in Node : n # w => t2.color[n] = t1.color[n]
    BY ONLY <2>1, <2>2, PaintFields
  <2> HIDE DEF t2
  <2>5. /\ v \in Tree /\ v.root = t2.root /\ v.child = t2.child /\ v.parent = t2.parent
        /\ v.color[g] = "red" /\ \A n \in Node : n # g => v.color[n] = t2.color[n]
    <3>1. PICK c \in Hue : c = "red"
      BY DEF Hue
    <3>2. v = Paint(t2, g, c)
      BY <3>1
    <3> HIDE DEF v
    <3>3. /\ Paint(t2, g, c) \in Tree /\ Paint(t2, g, c).root = t2.root
          /\ Paint(t2, g, c).child = t2.child /\ Paint(t2, g, c).parent = t2.parent
          /\ Paint(t2, g, c).color[g] = c /\ \A n \in Node : n # g => Paint(t2, g, c).color[n] = t2.color[n]
      BY ONLY <2>1, <2>4, PaintFields, c \in Hue
    <3> QED BY ONLY <3>1, <3>2, <3>3
  <2> HIDE DEF v
  <2> QED BY <1>1, <2>1, <2>2, <2>3, <2>4, <2>5
<1>4. Level(t, P, black, Nil, "left") /\ t.color[Nil] = "black"
  BY DEF RedBelow, Growing
<1>5. /\ black2 \in [Node -> Nat] /\ black2[Nil] = 0 /\ black2[p] = black[p] + 1 /\ black2[w] = black[w] + 1
      /\ \A n \in Node : n # p /\ n # w => black2[n] = black[n]
  <2>1. black \in [Node -> Nat] /\ black[Nil] = 0 /\ p \in Node /\ w \in Node /\ p # w /\ Nil # p /\ Nil # w /\ Nil \in Node
    <3>1. black \in [Node -> Nat] /\ black[Nil] = 0
      BY ONLY <1>4 DEF Level
    <3>2. p \in Node /\ w \in Node /\ p # w /\ Nil # p /\ Nil # w /\ Nil \in Node
      BY ONLY <1>1, <1>2 DEF Node
    <3> QED BY ONLY <3>1, <3>2
  <2> QED BY ONLY <2>1, TwoMore
<1> HIDE DEF black2
<1>6. Level(u, P, black2, Nil, "left")
  <2>1. ASSUME NEW n \in P, NEW d \in Side PROVE black2[t.child[n][d]] = black2[n] - Blacks(u.color[n])
    <3>1. /\ black[t.child[n][d]] = black[n] - Blacks(t.color[n]) /\ t.child[n][d] \in Node /\ n \in Node /\ n # Nil
          /\ black[t.child[n][d]] \in Nat /\ black[n] \in Nat
      <4>1. n # Nil /\ P \subseteq Data
        BY <1>1 DEF Shape, Seated
      <4> QED BY ONLY <1>4, <4>1, EvenAt, n \in P, d \in Side, t \in Tree
    <3>2. t.child[n][d] = p \/ t.child[n][d] = w => n = g
      BY ONLY <1>1, <1>2, OneParent, t \in Tree, Shape(t, P, pos, low, high), w = t.child[g][Other(s)], n \in P, d \in Side
    <3>3. CASE n = g
      <4>1. t.child[n][d] = p \/ t.child[n][d] = w
        BY <1>1, <3>3, Sides
      <4> QED BY <1>1, <1>3, <1>5, <3>1, <3>3, <4>1 DEF Blacks
    <3>4. CASE n = p \/ n = w
      <4>1. t.child[n][d] # p /\ t.child[n][d] # w /\ t.color[n] = "red"
        <5>1. t.color[p] = "red"
          BY DEF RedBelow
        <5>2. n # g
          BY <1>1, <3>4
        <5> QED BY ONLY <1>1, <3>2, <3>4, <5>1, <5>2, w # Nil, t.color[w] = "red"
      <4> QED BY <1>3, <1>5, <3>1, <3>4, <4>1 DEF Blacks
    <3>5. CASE n # g /\ n # p /\ n # w
      <4>1. t.child[n][d] # p /\ t.child[n][d] # w
        BY ONLY <3>2, <3>5
      <4> QED BY ONLY <1>3, <1>5, <3>1, <3>5, <4>1
    <3> QED BY <3>3, <3>4, <3>5
  <2>2. u.child = t.child /\ \A n \in P : n # Nil
    BY <1>1, <1>3
  <2>3. \A n \in P : LevelAt(u, n, black2, Nil, "left")
    BY ONLY <2>1, <2>2 DEF LevelAt
  <2> QED BY ONLY <1>5, <2>3 DEF Level
<1>7. RedsApart(u, P, {}, {g})
  <2> SUFFICES ASSUME NEW n \in P, NEW d \in Side, Clash(u, n, d) PROVE t.child[n][d] = g
    BY <1>3 DEF RedsApart
  <2>1. u.color[n] = "red" /\ u.color[t.child[n][d]] = "red" /\ n # p /\ n # w /\ t.child[n][d] # p /\ t.child[n][d] # w
    BY <1>3 DEF Clash
  <2>2. n # g
    BY ONLY <1>1, <2>1, Sides, w = t.child[g][Other(s)], d \in Side
  <2>3. CASE t.child[n][d] # g
    <3>1. t.child[n][d] \in Node /\ n \in Node
      BY <1>1 DEF Tree
    <3>2. Clash(t, n, d)
      BY ONLY <1>3, <2>1, <2>2, <2>3, <3>1 DEF Clash
    <3>3. t.child[n][d] = x
      <4>1. RedsApart(t, P, {}, {x})
        BY DEF RedBelow, Growing
      <4> QED BY ONLY <3>2, <4>1, n \in P, d \in Side DEF RedsApart
    <3>4. t.parent[x] = n
      BY <1>1, <3>3 DEF Shape, Joined
    <3> QED BY <2>1, <3>4 DEF RedBelow
  <2> QED BY <2>3
<1>8. g # u.root => u.color[u.root] = "black"
  <2>1. t.root \in Node /\ t.color[t.root] = "black"
    BY DEF Tree, RedBelow, Growing
  <2> QED BY <1>3, <2>1
<1>9. u.color[Nil] = "black"
  BY <1>1, <1>2, <1>3, <1>4 DEF Node
<1> QED BY <1>1, <1>3, <1>6, <1>7, <1>8, <1>9 DEF Growing, black2

\* u is t with p and g painted.
Painted(t, u, p, c, g, e) ==
  /\ u \in Tree /\ u.root = t.root /\ u.child = t.child /\ u.parent = t.parent
  /\ u.color[p] = c /\ u.color[g] = e /\ \A n \in Node : n # p /\ n # g => u.color[n] = t.color[n]

\* Two nodes painted.
LEMMA PaintTwo ==
  ASSUME NEW t \in Tree, NEW p \in Node, NEW g \in Node, p # g,
         NEW c \in Hue, NEW e \in Hue, NEW u, u = Paint(Paint(t, p, c), g, e)
  PROVE  Painted(t, u, p, c, g, e)
<1> DEFINE t1 == Paint(t, p, c)
<1>1. /\ t1 \in Tree /\ t1.root = t.root /\ t1.child = t.child /\ t1.parent = t.parent
      /\ t1.color[p] = c /\ \A n \in Node : n # p => t1.color[n] = t.color[n]
  BY PaintFields
<1> HIDE DEF t1
<1> DEFINE v == Paint(t1, g, e)
<1>2. /\ v \in Tree /\ v.root = t1.root /\ v.child = t1.child /\ v.parent = t1.parent
      /\ v.color[g] = e /\ \A n \in Node : n # g => v.color[n] = t1.color[n]
  BY ONLY <1>1, PaintFields, g \in Node, e \in Hue
<1>3. u = v
  BY DEF t1
<1> HIDE DEF v
<1> QED BY <1>1, <1>2, <1>3 DEF Painted

\* The inner child x of the red p comes up in its place.
LEMMA InnerComesOut ==
  ASSUME NEW t \in Tree, NEW P, NEW pos, NEW low, NEW high, Shape(t, P, pos, low, high),
         NEW black, NEW x, NEW p, NEW g, NEW s, RedBelow(t, P, black, x, p, g, s), x = t.child[p][Other(s)],
         NEW u, u = Rotate(t, p, s)
  PROVE  Turned(t, u, P, pos) /\ Growing(u, P, black, p)
<1>1. /\ x \in P /\ p \in P /\ g \in P /\ s \in Side /\ p # x /\ p # Nil /\ x # Nil /\ P \subseteq Node /\ Nil \notin P
      /\ p # t.root /\ Other(Other(s)) = s /\ Other(s) \in Side /\ Other(s) # s
  BY GrandIsBlack
<1>2. /\ Rotated(t, u, P, p, x, s) /\ \E low2, high2 : Shape(u, P, pos, low2, high2)
  BY ONLY <1>1, RotateShape, t \in Tree, Shape(t, P, pos, low, high), x = t.child[p][Other(s)], u = Rotate(t, p, s)
<1>3. /\ Level(t, P, black, Nil, "left") /\ t.color[Nil] = "black" /\ t.color[p] = "red" /\ t.color[x] = "red"
      /\ RedsApart(t, P, {}, {x}) /\ x # t.root /\ t.color[t.root] = "black"
  BY DEF RedBelow, Growing
<1>4. u \in Tree /\ u.color = t.color
  BY <1>2 DEF Rotated
<1>5. P \subseteq Data
  BY DEF Shape, Seated
<1>6. \A n \in P, d \in Side : /\ black[t.child[n][d]] = black[n] - Blacks(t.color[n])
                              /\ black[t.child[n][d]] \in Nat /\ black[n] \in Nat
  <2>1. Even(t, P, black)
    BY ONLY <1>3, <1>5, EvenLevel, t \in Tree
  <2> QED BY <2>1 DEF Even
<1>7. black[x] = black[p]
  BY <1>1, <1>3, <1>6 DEF Blacks
<1>8. Level(u, P, black, Nil, "left")
  <2>1. black \in [Node -> Nat] /\ black[Nil] = 0 /\ \A n \in P : n # p /\ n # x => LevelAt(t, n, black, Nil, "left")
    BY <1>3 DEF Level
  <2>2. ASSUME NEW d \in Side PROVE black[u.child[p][d]] = black[p] - Blacks(u.color[p])
    <3>1. d = s \/ d = Other(s)
      BY <1>1, Sides
    <3>2. black[t.child[p][s]] = black[p] - Blacks(t.color[p]) /\ black[t.child[x][s]] = black[x] - Blacks(t.color[x])
      BY <1>1, <1>6
    <3>3. u.child[p][s] = t.child[p][s] /\ u.child[p][Other(s)] = t.child[x][s]
      BY <1>2 DEF Rotated
    <3> QED BY <1>3, <1>4, <1>7, <3>1, <3>2, <3>3
  <2>3. ASSUME NEW d \in Side PROVE black[u.child[x][d]] = black[x] - Blacks(u.color[x])
    <3>1. d = s \/ d = Other(s)
      BY <1>1, Sides
    <3>2. black[t.child[x][Other(s)]] = black[x] - Blacks(t.color[x])
      BY <1>1, <1>6
    <3>3. u.child[x][s] = p /\ u.child[x][Other(s)] = t.child[x][Other(s)]
      BY <1>2 DEF Rotated
    <3>4. black[p] = black[x] - Blacks(t.color[x])
      BY <1>1, <1>3, <1>6, <1>7 DEF Blacks
    <3> QED BY <1>4, <3>1, <3>2, <3>3, <3>4
  <2>4. LevelAt(u, p, black, Nil, "left") /\ LevelAt(u, x, black, Nil, "left")
    BY <1>1, <2>2, <2>3 DEF LevelAt
  <2>5. \A n \in Node : n # p /\ n # x => black[n] = black[n]
    OBVIOUS
  <2> QED BY ONLY <1>1, <1>2, <1>7, <2>1, <2>4, <2>5, RotateLevel, t \in Tree, Shape(t, P, pos, low, high),
                  x = t.child[p][Other(s)]
<1>9. RedsApart(u, P, {}, {p})
  <2> SUFFICES ASSUME NEW n \in P, NEW d \in Side, Clash(u, n, d) PROVE u.child[n][d] = p
    BY DEF RedsApart
  <2>1. t.color[n] = "red" /\ t.color[u.child[n][d]] = "red"
    BY <1>4 DEF Clash
  <2>2. \A m \in P, e \in Side : Clash(t, m, e) => t.child[m][e] = x
    BY <1>3 DEF RedsApart
  <2>3. \A m \in P, e \in Side : t.child[m][e] = x => m = p /\ e = Other(s)
    <3>1. \A m \in P, e \in Side : t.child[m][e] = x => m = p
      BY ONLY <1>1, OneParent, t \in Tree, Shape(t, P, pos, low, high), x = t.child[p][Other(s)]
    <3>2. t.child[p][s] # x
      BY ONLY <1>1, Apart, t \in Tree, Shape(t, P, pos, low, high), x = t.child[p][Other(s)]
    <3> QED BY <1>1, <3>1, <3>2, Sides
  <2>4. d = s \/ d = Other(s)
    BY <1>1, Sides
  <2>5. CASE n = p
    <3>1. t.color[t.child[p][s]] # "red" /\ t.color[t.child[x][s]] # "red"
      BY <1>1, <1>3, <2>2, <2>3 DEF Clash
    <3> QED BY <1>2, <2>1, <2>4, <2>5, <3>1 DEF Rotated
  <2>6. CASE n = x
    <3>1. t.color[t.child[x][Other(s)]] # "red"
      BY <1>1, <1>3, <2>2, <2>3 DEF Clash
    <3> QED BY <1>2, <2>1, <2>4, <2>6, <3>1 DEF Rotated
  <2>7. CASE n # p /\ n # x
    <3>1. u.child[n][d] = IF t.child[n][d] = p THEN x ELSE t.child[n][d]
      BY <1>2, <2>7 DEF Rotated
    <3>2. t.child[n][d] # p
      <4>1. t.child[n][d] = p => Clash(t, n, d)
        BY <1>3, <2>1 DEF Clash
      <4> QED BY <1>1, <2>2, <4>1
    <3>3. Clash(t, n, d)
      BY <2>1, <3>1, <3>2 DEF Clash
    <3> QED BY <2>2, <2>3, <2>7, <3>3
  <2> QED BY <2>5, <2>6, <2>7
<1>10. u.root = t.root
  BY <1>1, <1>2 DEF Rotated
<1>11. \A n \in Node \ P : u.child[n] = t.child[n]
  BY <1>2 DEF Rotated
<1> QED BY <1>1, <1>2, <1>3, <1>4, <1>8, <1>9, <1>10, <1>11 DEF Growing, Turned

\* What two nodes are when the levels there are set anew.
LEMMA TwoAnew ==
  ASSUME NEW black \in [Node -> Nat], NEW p \in Node, NEW w \in Node, p # w, NEW i \in Nat, NEW j \in Nat
  PROVE  /\ [black EXCEPT ![p] = i, ![w] = j] \in [Node -> Nat]
         /\ [black EXCEPT ![p] = i, ![w] = j][p] = i
         /\ [black EXCEPT ![p] = i, ![w] = j][w] = j
         /\ \A n \in Node : n # p /\ n # w => [black EXCEPT ![p] = i, ![w] = j][n] = black[n]
OBVIOUS

\* The red p comes up in the place of the black g, and takes its colour.
LEMMA OuterGoesUp ==
  ASSUME NEW t \in Tree, NEW P, NEW pos, NEW low, NEW high, Shape(t, P, pos, low, high),
         NEW black, NEW x, NEW p, NEW g, NEW s, RedBelow(t, P, black, x, p, g, s),
         x # t.child[p][Other(s)],
         NEW w, w = t.child[g][Other(s)], t.color[w] = "black",
         NEW t1, t1 = Paint(Paint(t, p, "black"), g, "red"),
         NEW u, u = Rotate(t1, g, Other(s))
  PROVE  Turned(t, u, P, pos) /\ \E black2 : Growing(u, P, black2, x)
<1>1. /\ x \in P /\ p \in P /\ g \in P /\ s \in Side /\ Other(s) \in Side /\ Other(s) # s /\ Other(Other(s)) = s
      /\ t.child[g][s] = p /\ w # p /\ t.color[g] = "black" /\ p # g /\ p # x /\ g # x
      /\ p # Nil /\ g # Nil /\ x # Nil /\ P \subseteq Node /\ Nil \notin P /\ p # t.root
  BY GrandIsBlack
<1>2. /\ t1 \in Tree /\ t1.root = t.root /\ t1.child = t.child /\ t1.parent = t.parent
      /\ t1.color[p] = "black" /\ t1.color[g] = "red" /\ \A n \in Node : n # p /\ n # g => t1.color[n] = t.color[n]
  <2>1. PICK c \in Hue, e \in Hue : c = "black" /\ e = "red"
    BY DEF Hue
  <2>2. p \in Node /\ g \in Node /\ t1 = Paint(Paint(t, p, c), g, e)
    BY <1>1, <2>1
  <2>3. Painted(t, t1, p, c, g, e)
    BY ONLY <1>1, <2>2, PaintTwo, t \in Tree, c \in Hue, e \in Hue
  <2> QED BY <2>1, <2>3 DEF Painted
<1>3. Shape(t1, P, pos, low, high)
  BY ONLY <1>2, ShapeOfLinks, Shape(t, P, pos, low, high)
<1>4. PICK o \in Side : o = Other(s) /\ Other(o) = s /\ o # s
  BY <1>1
<1>5. Rotated(t1, u, P, g, p, o) /\ \E low2, high2 : Shape(u, P, pos, low2, high2)
  <2>1. p = t1.child[g][Other(o)] /\ u = Rotate(t1, g, o)
    BY <1>1, <1>2, <1>4
  <2> QED BY ONLY <1>1, <1>2, <1>3, <1>4, <2>1, RotateShape
<1>6. u \in Tree /\ u.color = t1.color
  BY <1>5 DEF Rotated
<1>7. /\ Level(t, P, black, Nil, "left") /\ t.color[Nil] = "black" /\ t.color[p] = "red" /\ t.color[x] = "red"
      /\ RedsApart(t, P, {}, {x}) /\ x # t.root /\ t.color[t.root] = "black"
  BY DEF RedBelow, Growing
<1>8. \A n \in P, d \in Side : /\ black[t.child[n][d]] = black[n] - Blacks(t.color[n])
                              /\ black[t.child[n][d]] \in Nat /\ black[n] \in Nat
  <2>1. P \subseteq Data
    BY DEF Shape, Seated
  <2>2. Even(t, P, black)
    BY ONLY <1>7, <2>1, EvenLevel, t \in Tree
  <2> QED BY <2>2 DEF Even
<1>9. black[p] = black[g] - 1 /\ black[g] \in Nat /\ black[p] \in Nat
  BY <1>1, <1>8 DEF Blacks
<1> DEFINE black2 == [black EXCEPT ![p] = black[g], ![g] = black[p]]
<1>10. /\ black2 \in [Node -> Nat] /\ black2[Nil] = 0 /\ black2[p] = black[g] /\ black2[g] = black[p]
       /\ \A n \in Node : n # p /\ n # g => black2[n] = black[n]
  <2>1. black \in [Node -> Nat] /\ black[Nil] = 0 /\ p \in Node /\ g \in Node /\ Nil \in Node
    BY <1>1, <1>7 DEF Level, Node
  <2>2. /\ black2 \in [Node -> Nat] /\ black2[p] = black[g] /\ black2[g] = black[p]
        /\ \A n \in Node : n # p /\ n # g => black2[n] = black[n]
    BY ONLY <1>1, <1>9, <2>1, TwoAnew
  <2> QED BY ONLY <1>1, <2>1, <2>2
<1> HIDE DEF black2
<1>11. \A m \in P, e \in Side : t.child[m][e] = p => m = g
  BY ONLY <1>1, OneParent, t \in Tree, Shape(t, P, pos, low, high)
<1>12. \A n \in P, d \in Side : t.child[n][d] \in Node /\ t.child[n][d] # n
  <2>1. \A n \in P, d \in Side : t.child[n][d] # Nil => t.child[n][d] # n
    BY ONLY Apart, t \in Tree, Shape(t, P, pos, low, high)
  <2> QED BY <1>1, <2>1 DEF Tree
<1>13. \A d \in Side : t.child[p][d] # g
  BY GrandIsBlack
<1>14. Level(u, P, black2, Nil, "left")
  <2>1. LevelAt(u, g, black2, Nil, "left")
    <3>1. /\ black2[t.child[g][o]] = black2[g] /\ black2[t.child[p][o]] = black2[g]
      <4>1. t.child[g][o] # p /\ t.child[g][o] # g /\ t.child[p][o] # p /\ t.child[p][o] # g
        BY <1>1, <1>4, <1>12, <1>13
      <4>2. black[t.child[g][o]] = black[g] - 1 /\ black[t.child[p][o]] = black[p]
        BY <1>1, <1>7, <1>8 DEF Blacks
      <4> QED BY <1>1, <1>9, <1>10, <1>12, <4>1, <4>2
    <3>2. u.child[g][o] = t.child[g][o] /\ u.child[g][s] = t.child[p][o]
      BY <1>2, <1>4, <1>5 DEF Rotated
    <3>3. \A d \in Side : black2[u.child[g][d]] = black2[g]
      BY <1>4, <3>1, <3>2, Sides
    <3>4. Blacks(u.color[g]) = 0 /\ black2[g] \in Nat
      BY <1>2, <1>6, <1>9, <1>10 DEF Blacks
    <3> QED BY <1>1, <3>3, <3>4 DEF LevelAt
  <2>2. LevelAt(u, p, black2, Nil, "left")
    <3>1. black2[g] = black2[p] - 1 /\ black2[t.child[p][s]] = black2[p] - 1
      <4>1. t.child[p][s] # p /\ t.child[p][s] # g
        BY <1>1, <1>12, <1>13
      <4>2. black[t.child[p][s]] = black[p]
        BY <1>1, <1>7, <1>8 DEF Blacks
      <4> QED BY <1>1, <1>9, <1>10, <1>12, <4>1, <4>2
    <3>2. u.child[p][o] = g /\ u.child[p][s] = t.child[p][s]
      BY <1>2, <1>4, <1>5 DEF Rotated
    <3>3. \A d \in Side : black2[u.child[p][d]] = black2[p] - 1
      BY <1>4, <3>1, <3>2, Sides
    <3>4. Blacks(u.color[p]) = 1
      BY <1>2, <1>6 DEF Blacks
    <3> QED BY <1>1, <3>3, <3>4 DEF LevelAt
  <2>3. \A n \in P : n # g /\ n # p => LevelAt(t1, n, black, Nil, "left")
    BY <1>1, <1>2, <1>8 DEF LevelAt
  <2>4. black \in [Node -> Nat] /\ black2[p] = black[g] /\ p = t1.child[g][Other(o)] /\ \A n \in Node : n # g /\ n # p => black2[n] = black[n]
    BY <1>1, <1>2, <1>4, <1>7, <1>10 DEF Level
  <2> QED BY ONLY <1>1, <1>2, <1>3, <1>4, <1>5, <1>10, <2>1, <2>2, <2>3, <2>4, RotateLevel
<1>15. RedsApart(u, P, {}, {x})
  <2> SUFFICES ASSUME NEW n \in P, NEW d \in Side, Clash(u, n, d) PROVE u.child[n][d] = x
    BY DEF RedsApart
  <2>1. t1.color[n] = "red" /\ t1.color[u.child[n][d]] = "red" /\ n # p
    BY <1>2, <1>6 DEF Clash
  <2>2. \A m \in P, e \in Side : Clash(t, m, e) => t.child[m][e] = x
    BY <1>7 DEF RedsApart
  <2>3. d = s \/ d = o
    BY <1>4, Sides
  <2>4. CASE n = g
    <3>1. t.color[t.child[p][o]] # "red"
      BY <1>1, <1>4, <1>7, <2>2 DEF Clash
    <3>2. t.child[g][o] # g /\ t.child[p][o] # g /\ t.child[g][o] # p /\ t.child[p][o] # p
      BY <1>1, <1>4, <1>12, <1>13
    <3>3. t1.color[t.child[g][o]] = "black" /\ t1.color[t.child[p][o]] # "red"
      BY <1>1, <1>2, <1>4, <1>12, <3>1, <3>2
    <3>4. u.child[g][o] = t.child[g][o] /\ u.child[g][s] = t.child[p][o]
      BY <1>2, <1>4, <1>5 DEF Rotated
    <3> QED BY <2>1, <2>3, <2>4, <3>3, <3>4
  <2>5. CASE n # g
    <3>1. u.child[n][d] = IF t.child[n][d] = g THEN p ELSE t.child[n][d]
      BY <1>2, <1>5, <2>1, <2>5 DEF Rotated
    <3>2. t.child[n][d] # g /\ u.child[n][d] = t.child[n][d] /\ t.child[n][d] # p
      BY <1>2, <1>11, <2>1, <2>5, <3>1
    <3>3. Clash(t, n, d)
      BY <1>1, <1>2, <1>12, <2>1, <2>5, <3>2 DEF Clash
    <3> QED BY <2>2, <3>2, <3>3
  <2> QED BY <2>4, <2>5
<1>16. u.color[Nil] = "black" /\ u.color[x] = "red"
  <2>1. Nil \in Node
    BY DEF Node
  <2> QED BY <1>1, <1>2, <1>6, <1>7, <2>1
<1>17. u.color[u.root] = "black"
  <2>1. u.root = IF t.root = g THEN p ELSE t.root
    BY <1>2, <1>5 DEF Rotated
  <2>2. t.root \in Node
    BY DEF Tree
  <2> QED BY <1>1, <1>2, <1>6, <1>7, <2>1, <2>2
<1>18. \A n \in Node \ P : u.child[n] = t.child[n]
  BY <1>2, <1>5 DEF Rotated
<1> QED BY <1>1, <1>5, <1>6, <1>14, <1>15, <1>16, <1>17, <1>18 DEF Growing, Turned

\* The root may be painted black.
LEMMA RootTurnsBlack ==
  ASSUME NEW t \in Tree, NEW P, NEW pos, NEW low, NEW high, Shape(t, P, pos, low, high),
         NEW black, NEW x, Growing(t, P, black, x), t.color[Nil] = "black",
         x # t.root => t.color[t.parent[x]] # "red",
         NEW u, u = Paint(t, t.root, "black")
  PROVE  /\ u \in Tree /\ u.root = t.root /\ u.child = t.child /\ u.parent = t.parent /\ u.color[Nil] = "black"
         /\ \E black2 : Settled(u, P, black2)
<1>1. P \subseteq Data /\ P \subseteq Node /\ Nil \notin P /\ Nil \in Node /\ t.root \in Node /\ x \in P
  BY TreeAssumption DEF Shape, Seated, Node, Tree, Growing
<1>2. t.root \in P /\ t.root # Nil /\ \A n \in P, d \in Side : t.child[n][d] # t.root
  <2>1. t.root \in P
    BY <1>1 DEF Shape, Joined
  <2>2. \A n \in P, d \in Side : t.child[n][d] # Nil => t.child[n][d] # t.root
    BY ONLY Apart, t \in Tree, Shape(t, P, pos, low, high)
  <2> QED BY <1>1, <2>1, <2>2
<1>3. /\ u \in Tree /\ u.root = t.root /\ u.child = t.child /\ u.parent = t.parent /\ u.color[t.root] = "black"
      /\ \A n \in Node : n # t.root => u.color[n] = t.color[n]
  <2>1. "black" \in Hue
    BY DEF Hue
  <2> QED BY <1>1, <2>1, PaintFields
<1>4. Level(t, P, black, Nil, "left")
  BY DEF Growing
<1>5. \A n \in P, d \in Side : /\ black[t.child[n][d]] = black[n] - Blacks(t.color[n])
                              /\ black[t.child[n][d]] \in Nat /\ black[n] \in Nat /\ t.child[n][d] \in Node
  <2>1. Even(t, P, black)
    BY ONLY <1>1, <1>4, EvenLevel, t \in Tree
  <2> QED BY <2>1 DEF Even
<1>6. PICK i \in Nat : i = IF t.color[t.root] = "black" THEN black[t.root] ELSE black[t.root] + 1
  BY <1>1, <1>4 DEF Level
<1> DEFINE black2 == [black EXCEPT ![t.root] = i]
<1>7. /\ black2 \in [Node -> Nat] /\ black2[Nil] = 0 /\ black2[t.root] = i
      /\ \A n \in Node : n # t.root => black2[n] = black[n]
  BY <1>1, <1>2, <1>4, <1>6 DEF Level
<1> HIDE DEF black2
<1>8. Level(u, P, black2, Nil, "left")
  <2> SUFFICES ASSUME NEW n \in P, NEW d \in Side PROVE black2[t.child[n][d]] = black2[n] - Blacks(u.color[n])
    BY <1>1, <1>3, <1>7 DEF Level, LevelAt
  <2>1. black2[t.child[n][d]] = black[t.child[n][d]]
    BY <1>2, <1>5, <1>7
  <2>2. CASE n = t.root
    BY <1>2, <1>3, <1>5, <1>6, <1>7, <2>1, <2>2 DEF Blacks
  <2>3. CASE n # t.root
    BY <1>1, <1>3, <1>5, <1>7, <2>1, <2>3
  <2> QED BY <2>2, <2>3
<1>9. RedsApart(u, P, {}, {})
  <2> SUFFICES ASSUME NEW n \in P, NEW d \in Side, Clash(u, n, d) PROVE FALSE
    BY DEF RedsApart
  <2>1. n # t.root /\ t.child[n][d] # t.root /\ Clash(t, n, d)
    BY <1>1, <1>2, <1>3, <1>5 DEF Clash
  <2>2. t.child[n][d] = x
    BY <2>1 DEF Growing, RedsApart
  <2>3. t.parent[x] = n
    BY <1>1, <2>2 DEF Shape, Joined
  <2> QED BY <2>1, <2>2, <2>3 DEF Clash
<1>10. u.color[Nil] = "black"
  BY <1>1, <1>2, <1>3
<1> QED BY <1>3, <1>8, <1>9, <1>10 DEF Settled
----------------------------------------------------------------------------
(* The colours while a removal rebalances.                                 *)

\* x, above which a black node is missing, its parent p with x on side s, and
\* its sibling w.
Lacking(t, P, black, x, p, s, w) ==
  /\ Shrinking(t, P, black, x) /\ t.color[Nil] = "black"
  /\ x # t.root /\ t.color[x] = "black"
  /\ p = t.parent[x] /\ s = SideOf(t, x) /\ w = t.child[p][Other(s)]

\* Who they are.
Family(t, P, x, p, s, w) ==
  /\ P \subseteq Data /\ P \subseteq Node /\ Nil \notin P /\ Nil \in Node /\ p \in P /\ w \in P /\ x \in P \cup {Nil}
  /\ s \in Side /\ Other(s) \in Side /\ Other(s) # s /\ Other(Other(s)) = s
  /\ p # Nil /\ w # Nil /\ w # p /\ x # p /\ x # w
  /\ t.child[p][s] = x /\ t.child[p][Other(s)] = w /\ t.parent[x] = p /\ t.parent[w] = p
  /\ \A n \in P, d \in Side : t.child[n][d] \in Node /\ t.child[n][d] # n
  /\ \A d \in Side : t.child[w][d] # p /\ t.child[w][d] \in P \cup {Nil}
  /\ \A n \in P, d \in Side : t.child[n][d] = w => n = p
  /\ t.color[Nil] = "black" /\ t.color[t.root] = "black" /\ t.color[x] = "black"
  /\ \A n \in P, d \in Side : Clash(t, n, d) => n = x \/ t.child[n][d] = x

\* Their levels.
Uneven(t, P, black, x, p, w) ==
  /\ black \in [Node -> Nat] /\ black[Nil] = 0
  /\ \A n \in Node : black[n] \in Nat
  /\ black[x] + 1 = black[p] - Blacks(t.color[p]) /\ black[w] = black[p] - Blacks(t.color[p])
  /\ \A n \in P, d \in Side : n # p => black[t.child[n][d]] = black[n] - Blacks(t.color[n])
  /\ \A n \in P : n # p => black[n] >= Blacks(t.color[n])

\* A node above which a black one is missing has a sibling, and what they are.
LEMMA FamilyIs ==
  ASSUME NEW t \in Tree, NEW P, NEW pos, NEW low, NEW high, Shape(t, P, pos, low, high),
         NEW black, NEW x, NEW p, NEW s, NEW w, Lacking(t, P, black, x, p, s, w)
  PROVE  Family(t, P, x, p, s, w) /\ Uneven(t, P, black, x, p, w)
<1>1. P \subseteq Data /\ P \subseteq Node /\ Nil \notin P /\ Nil \in Node
  BY TreeAssumption DEF Shape, Seated, Node
<1>2. /\ x \in P \cup {Nil} /\ p \in P /\ t.child[p][s] = x /\ t.color[Nil] = "black" /\ t.color[t.root] = "black"
      /\ t.color[x] = "black" /\ Level(t, P, black, p, s) /\ RedsApart(t, P, {x}, {x}) /\ s \in Side
      /\ w = t.child[p][Other(s)] /\ p = t.parent[x]
  BY DEF Lacking, Shrinking, SideOf, Side
<1>3. Other(s) \in Side /\ Other(s) # s /\ Other(Other(s)) = s
  BY <1>2, Sides
<1>4. black \in [Node -> Nat] /\ black[Nil] = 0 /\ \A n \in Node : black[n] \in Nat
  BY <1>2 DEF Level
<1>5. \A n \in P, d \in Side : t.child[n][d] \in Node /\ t.child[n][d] # n
  <2>1. \A n \in P, d \in Side : t.child[n][d] # Nil => t.child[n][d] # n
    BY ONLY Apart, t \in Tree, Shape(t, P, pos, low, high)
  <2> QED BY <1>1, <2>1 DEF Tree
<1>6. \A n \in P : LevelAt(t, n, black, p, s)
  BY <1>2 DEF Level
<1>7. black[x] + 1 = black[p] - Blacks(t.color[p]) /\ black[w] = black[p] - Blacks(t.color[p])
  BY <1>2, <1>3, <1>6 DEF LevelAt
<1>8. \A n \in P, d \in Side : n # p => black[t.child[n][d]] = black[n] - Blacks(t.color[n])
  BY <1>6 DEF LevelAt
<1>9. black[x] \in Nat /\ x \in Node /\ black[p] \in Nat /\ Blacks(t.color[p]) \in Nat
  BY <1>1, <1>2, <1>4 DEF Blacks
<1>10. w # Nil /\ x # w
  BY <1>4, <1>7, <1>9
<1>11. w \in P /\ t.parent[w] = p /\ w # p
  BY <1>2, <1>3, <1>5, <1>10 DEF Shape, Joined
<1>12. \A n \in P, d \in Side : t.child[n][d] = w => n = p
  BY ONLY <1>2, <1>3, <1>11, OneParent, t \in Tree, Shape(t, P, pos, low, high)
<1>13. \A d \in Side : t.child[w][d] # p /\ t.child[w][d] \in P \cup {Nil}
  <2>1. \A d \in Side : t.child[w][d] # p
    BY ONLY <1>2, <1>3, <1>10, Apart, t \in Tree, Shape(t, P, pos, low, high)
  <2> QED BY <1>11, <2>1 DEF Shape, Joined
<1>14. \A n \in P : n # p => black[n] >= Blacks(t.color[n])
  <2> SUFFICES ASSUME NEW n \in P, n # p PROVE black[n] >= Blacks(t.color[n])
    OBVIOUS
  <2>1. black[t.child[n][s]] = black[n] - Blacks(t.color[n]) /\ black[t.child[n][s]] \in Nat /\ black[n] \in Nat
    BY <1>1, <1>2, <1>4, <1>5, <1>8
  <2> QED BY <2>1 DEF Blacks
<1>15. \A n \in P, d \in Side : Clash(t, n, d) => n = x \/ t.child[n][d] = x
  BY ONLY <1>2 DEF RedsApart
<1>16. Family(t, P, x, p, s, w)
  BY ONLY <1>1, <1>2, <1>3, <1>5, <1>10, <1>11, <1>12, <1>13, <1>15 DEF Family
<1>17. Uneven(t, P, black, x, p, w)
  BY ONLY <1>4, <1>7, <1>8, <1>14 DEF Uneven
<1> QED BY <1>16, <1>17

\* The red sibling w comes up in the place of p, which is black.
LEMMA RedSiblingGoesUp ==
  ASSUME NEW t \in Tree, NEW P, NEW pos, NEW low, NEW high, Shape(t, P, pos, low, high),
         NEW black, NEW x, NEW p, NEW s, NEW w, Lacking(t, P, black, x, p, s, w), t.color[w] = "red",
         NEW t1, t1 = Paint(Paint(t, w, "black"), p, "red"),
         NEW u, u = Rotate(t1, p, s)
  PROVE  Turned(t, u, P, pos) /\ \E black2 : Shrinking(u, P, black2, x)
<1>1. Family(t, P, x, p, s, w) /\ Uneven(t, P, black, x, p, w)
  BY FamilyIs
<1>2. /\ t1 \in Tree /\ t1.root = t.root /\ t1.child = t.child /\ t1.parent = t.parent
      /\ t1.color[w] = "black" /\ t1.color[p] = "red" /\ \A n \in Node : n # p /\ n # w => t1.color[n] = t.color[n]
  <2>1. PICK c \in Hue, e \in Hue : c = "black" /\ e = "red"
    BY DEF Hue
  <2>2. p \in Node /\ w \in Node /\ w # p /\ t1 = Paint(Paint(t, w, c), p, e)
    BY <1>1, <2>1 DEF Family
  <2>3. Painted(t, t1, w, c, p, e)
    BY ONLY <2>2, PaintTwo, t \in Tree, c \in Hue, e \in Hue
  <2> QED BY <2>1, <2>3 DEF Painted
<1>3. Shape(t1, P, pos, low, high)
  BY ONLY <1>2, ShapeOfLinks, Shape(t, P, pos, low, high)
<1>4. Rotated(t1, u, P, p, w, s) /\ \E low2, high2 : Shape(u, P, pos, low2, high2)
  <2>1. w = t1.child[p][Other(s)] /\ p \in P /\ s \in Side /\ w # Nil
    BY <1>1, <1>2 DEF Family
  <2> QED BY ONLY <1>2, <1>3, <2>1, RotateShape, u = Rotate(t1, p, s)
<1>5. u \in Tree /\ u.color = t1.color
  BY <1>4 DEF Rotated
<1>6. PICK o \in Side : o = Other(s) /\ Other(o) = s /\ o # s
  BY <1>1 DEF Family
<1>7. /\ u.child[p][s] = x /\ u.child[p][o] = t.child[w][s] /\ u.child[w][s] = p /\ u.child[w][o] = t.child[w][o]
      /\ \A n \in P, d \in Side : n # p /\ n # w => u.child[n][d] = IF t.child[n][d] = p THEN w ELSE t.child[n][d]
  BY <1>1, <1>2, <1>4, <1>6 DEF Rotated, Family
<1>8. t.color[p] = "black"
  <2>1. Clash(t, p, o) => FALSE
    BY <1>1, <1>6 DEF Family
  <2>2. t.color[p] \in {"red", "black"}
    BY <1>1 DEF Tree, Family
  <2> QED BY <1>1, <1>6, <2>1, <2>2 DEF Clash, Family
<1>9. /\ black[p] \in Nat /\ black[w] = black[p] - 1 /\ black[x] + 1 = black[w] /\ black[x] \in Nat /\ black[w] \in Nat
      /\ black[t.child[w][s]] = black[w] /\ black[t.child[w][o]] = black[w]
  <2>1. Blacks(t.color[p]) = 1 /\ Blacks(t.color[w]) = 0
    BY <1>8 DEF Blacks
  <2>2. p \in Node /\ w \in Node /\ x \in Node /\ w # p /\ w \in P /\ s \in Side
    BY <1>1 DEF Family
  <2> QED BY <1>1, <1>6, <2>1, <2>2 DEF Uneven
<1> DEFINE black2 == [black EXCEPT ![w] = black[p], ![p] = black[w]]
<1>10. /\ black2 \in [Node -> Nat] /\ black2[Nil] = 0 /\ black2[w] = black[p] /\ black2[p] = black[w]
       /\ \A n \in Node : n # p /\ n # w => black2[n] = black[n]
  <2>1. /\ black \in [Node -> Nat] /\ black[Nil] = 0 /\ p \in Node /\ w \in Node /\ Nil \in Node /\ w # p
        /\ p # Nil /\ w # Nil
    BY <1>1 DEF Uneven, Family
  <2>2. /\ black2 \in [Node -> Nat] /\ black2[w] = black[p] /\ black2[p] = black[w]
        /\ \A n \in Node : n # w /\ n # p => black2[n] = black[n]
    BY ONLY <1>9, <2>1, TwoAnew
  <2> QED BY ONLY <2>1, <2>2
<1> HIDE DEF black2
<1>11. Level(u, P, black2, p, s)
  <2>1. LevelAt(u, p, black2, p, s)
    <3>1. black2[x] + 1 = black2[p] /\ black2[t.child[w][s]] = black2[p]
      <4>1. t.child[w][s] # p /\ t.child[w][s] # w /\ t.child[w][s] \in Node /\ x \in Node /\ x # p /\ x # w
        BY <1>1 DEF Family
      <4> QED BY <1>9, <1>10, <4>1
    <3>2. Blacks(u.color[p]) = 0 /\ black2[p] \in Nat
      BY <1>2, <1>5, <1>9, <1>10 DEF Blacks
    <3>3. \A d \in Side : d = s \/ d = o
      BY <1>6, Sides
    <3> QED BY <1>6, <1>7, <3>1, <3>2, <3>3 DEF LevelAt
  <2>2. LevelAt(u, w, black2, p, s)
    <3>1. black2[p] = black2[w] - 1 /\ black2[t.child[w][o]] = black2[w] - 1
      <4>1. t.child[w][o] # p /\ t.child[w][o] # w /\ t.child[w][o] \in Node
        BY <1>1, <1>6 DEF Family
      <4> QED BY <1>9, <1>10, <4>1
    <3>2. Blacks(u.color[w]) = 1 /\ w # p
      BY <1>1, <1>2, <1>5 DEF Blacks, Family
    <3>3. \A d \in Side : d = s \/ d = o
      BY <1>6, Sides
    <3> QED BY <1>6, <1>7, <3>1, <3>2, <3>3 DEF LevelAt
  <2>3. \A n \in P : n # p /\ n # w => LevelAt(t1, n, black, p, s)
    <3>1. \A n \in P, d \in Side : n # p => black[t.child[n][d]] = black[n] - Blacks(t.color[n])
      BY <1>1 DEF Uneven
    <3>2. P \subseteq Node
      BY <1>1 DEF Family
    <3> QED BY <1>2, <3>1, <3>2 DEF LevelAt
  <2>4. black \in [Node -> Nat] /\ w = t1.child[p][Other(s)] /\ p \in P /\ w \in P /\ s \in Side
    BY <1>1, <1>2 DEF Uneven, Family
  <2> QED BY ONLY <1>2, <1>3, <1>4, <1>10, <2>1, <2>2, <2>3, <2>4, RotateLevel
<1>12. RedsApart(u, P, {x}, {x})
  <2> SUFFICES ASSUME NEW n \in P, NEW d \in Side, Clash(u, n, d), n # x, u.child[n][d] # x PROVE FALSE
    BY DEF RedsApart
  <2>1. t1.color[n] = "red" /\ t1.color[u.child[n][d]] = "red" /\ n # w /\ u.child[n][d] # w
    BY <1>2, <1>5 DEF Clash
  <2>2. CASE n = p
    <3>1. u.child[n][d] = t.child[w][s]
      BY <1>6, <1>7, <2>2, Sides
    <3>2. Clash(t, w, s)
      BY <1>1, <1>2, <2>1, <3>1 DEF Clash, Family
    <3> QED BY <1>1, <2>2, <3>1, <3>2 DEF Family
  <2>3. CASE n # p
    <3>1. u.child[n][d] = t.child[n][d] /\ t.child[n][d] # p /\ t.child[n][d] # w
      BY <1>7, <2>1, <2>3
    <3>2. Clash(t, n, d)
      BY <1>1, <1>2, <2>1, <2>3, <3>1 DEF Clash, Family
    <3> QED BY <1>1, <3>1, <3>2 DEF Family
  <2> QED BY <2>2, <2>3
<1>13. u.parent[x] = p
  <2>1. CASE x = Nil
    BY <1>1, <1>2, <1>4, <2>1 DEF Rotated, Family
  <2>2. CASE x # Nil
    BY <1>1, <1>4, <1>7, <2>2 DEF Shape, Joined, Family
  <2> QED BY <2>1, <2>2
<1>14. SideOf(u, x) = s
  <2>1. black[t.child[w][s]] # black[x]
    BY <1>9
  <2>2. u.child[p][o] # x
    BY <1>7, <2>1
  <2> QED BY <1>6, <1>7, <1>13, <2>2 DEF SideOf, Side, Other
<1>15. u.color[Nil] = "black" /\ x # u.root /\ u.color[u.root] = "black"
  <2>1. u.root = IF t.root = p THEN w ELSE t.root
    BY <1>2, <1>4 DEF Rotated
  <2>2. t.root \in Node /\ x # t.root
    BY DEF Tree, Lacking
  <2> QED BY <1>1, <1>2, <1>5, <2>1, <2>2 DEF Family
<1>16. Shrinking(u, P, black2, x)
  BY <1>1, <1>7, <1>11, <1>12, <1>13, <1>14, <1>15 DEF Shrinking, Family
<1>17. \A n \in Node \ P : u.child[n] = t.child[n]
  BY <1>2, <1>4 DEF Rotated
<1> QED BY <1>4, <1>5, <1>15, <1>16, <1>17 DEF Turned

\* The sibling with black children turns red: now the black node is missing
\* above p.
LEMMA SiblingTurnsRed ==
  ASSUME NEW t \in Tree, NEW P, NEW pos, NEW low, NEW high, Shape(t, P, pos, low, high),
         NEW black, NEW x, NEW p, NEW s, NEW w, Lacking(t, P, black, x, p, s, w), t.color[w] = "black",
         \A d \in Side : t.color[t.child[w][d]] = "black",
         NEW u, u = Paint(t, w, "red")
  PROVE  /\ u \in Tree /\ u.root = t.root /\ u.child = t.child /\ u.parent = t.parent /\ u.color[Nil] = "black"
         /\ \E black2 : Shrinking(u, P, black2, p)
<1>1. Family(t, P, x, p, s, w) /\ Uneven(t, P, black, x, p, w)
  BY FamilyIs
<1>2. /\ u \in Tree /\ u.root = t.root /\ u.child = t.child /\ u.parent = t.parent
      /\ u.color[w] = "red" /\ \A n \in Node : n # w => u.color[n] = t.color[n]
  <2>1. "red" \in Hue /\ w \in Node
    BY <1>1 DEF Hue, Family
  <2> QED BY <2>1, PaintFields
<1>3. PICK o \in Side : o = Other(s) /\ Other(o) = s /\ o # s
  BY <1>1 DEF Family
<1>4. PICK b \in Nat : b = black[p] - 1 /\ b = black[x] + Blacks(t.color[p])
  <2>1. black[p] \in Nat /\ black[x] \in Nat /\ Blacks(t.color[p]) \in Nat /\ black[x] + 1 = black[p] - Blacks(t.color[p])
    BY <1>1 DEF Uneven, Family, Blacks
  <2> QED BY <2>1
<1>5. PICK c \in Nat : c = black[w] - 1 /\ c = black[x]
  <2>1. black[w] \in Nat /\ black[x] \in Nat /\ black[w] = black[x] + 1
    BY <1>1 DEF Uneven, Family
  <2> QED BY <2>1
<1> DEFINE black2 == [black EXCEPT ![w] = c, ![p] = b]
<1>6. /\ black2 \in [Node -> Nat] /\ black2[Nil] = 0 /\ black2[w] = c /\ black2[p] = b
      /\ \A n \in Node : n # p /\ n # w => black2[n] = black[n]
  <2>1. /\ black \in [Node -> Nat] /\ black[Nil] = 0 /\ p \in Node /\ w \in Node /\ Nil \in Node /\ w # p
        /\ p # Nil /\ w # Nil
    BY <1>1 DEF Uneven, Family
  <2>2. /\ black2 \in [Node -> Nat] /\ black2[w] = c /\ black2[p] = b
        /\ \A n \in Node : n # w /\ n # p => black2[n] = black[n]
    BY ONLY <2>1, TwoAnew, b \in Nat, c \in Nat
  <2> QED BY ONLY <2>1, <2>2
<1> HIDE DEF black2
<1>7. \A d \in Side : black2[t.child[p][d]] = black2[p] - Blacks(u.color[p])
  <2>1. /\ t.child[p][s] = x /\ t.child[p][o] = w /\ x \in Node /\ x # p /\ x # w /\ p \in Node /\ w # p
        /\ black[x] \in Nat
    BY <1>1, <1>3 DEF Family, Uneven
  <2>2. black2[x] = black[x] /\ u.color[p] = t.color[p] /\ Blacks(t.color[p]) \in {0, 1}
    BY <1>2, <1>6, <2>1 DEF Blacks
  <2>3. black2[x] = black2[p] - Blacks(u.color[p]) /\ black2[w] = black2[p] - Blacks(u.color[p])
    BY <1>4, <1>5, <1>6, <2>1, <2>2
  <2> QED BY <1>3, <2>1, <2>3, Sides
<1>8. \A d \in Side : black2[t.child[w][d]] = black2[w] - Blacks(u.color[w])
  <2> SUFFICES ASSUME NEW d \in Side PROVE black2[t.child[w][d]] = black2[w] - Blacks(u.color[w])
    OBVIOUS
  <2>1. t.child[w][d] \in Node /\ t.child[w][d] # p /\ t.child[w][d] # w /\ w \in P /\ w # p
    BY <1>1 DEF Family
  <2>2. black[t.child[w][d]] = black[w] - Blacks(t.color[w]) /\ Blacks(t.color[w]) = 1 /\ Blacks(u.color[w]) = 0
    BY <1>1, <1>2, <2>1 DEF Uneven, Blacks
  <2> QED BY <1>5, <1>6, <2>1, <2>2
<1>9. \A n \in P, d \in Side :
        n # p /\ n # w => /\ t.child[n][d] = p => black2[t.child[n][d]] + 1 = black2[n] - Blacks(u.color[n])
                          /\ t.child[n][d] # p => black2[t.child[n][d]] = black2[n] - Blacks(u.color[n])
  <2> SUFFICES ASSUME NEW n \in P, NEW d \in Side, n # p, n # w
               PROVE  /\ t.child[n][d] = p => black2[t.child[n][d]] + 1 = black2[n] - Blacks(u.color[n])
                      /\ t.child[n][d] # p => black2[t.child[n][d]] = black2[n] - Blacks(u.color[n])
    OBVIOUS
  <2>1. t.child[n][d] \in Node /\ t.child[n][d] # w /\ n \in Node
    BY <1>1 DEF Family
  <2>2. /\ black[t.child[n][d]] = black[n] - Blacks(t.color[n]) /\ black2[n] = black[n] /\ u.color[n] = t.color[n]
        /\ black[p] \in Nat /\ black[n] \in Nat /\ Blacks(t.color[n]) \in Nat
    BY <1>1, <1>2, <1>6, <2>1 DEF Uneven, Family, Blacks
  <2> QED BY <1>4, <1>6, <2>1, <2>2
<1>10. RedsApart(u, P, {p}, {p})
  <2> SUFFICES ASSUME NEW n \in P, NEW d \in Side, Clash(u, n, d), n # p, t.child[n][d] # p PROVE FALSE
    BY <1>2 DEF RedsApart
  <2>1. /\ n \in Node /\ t.child[n][d] \in Node /\ t.child[n][d] # w /\ t.color[x] = "black"
        /\ Clash(t, n, d) => n = x \/ t.child[n][d] = x
    BY <1>1 DEF Family
  <2>2. n # w
    BY <1>2, <2>1 DEF Clash
  <2> QED BY <1>2, <2>1, <2>2 DEF Clash
<1>11. u.color[Nil] = "black" /\ u.color[u.root] = "black"
  <2>1. t.root \in Node /\ t.root # w
    <3>1. t.root = w => t.parent[w] = Nil
      BY <1>1 DEF Shape, Joined, Family
    <3> QED BY <1>1, <3>1 DEF Tree, Family
  <2> QED BY <1>1, <1>2, <2>1 DEF Family
<1>12. CASE p = t.root
  <2>1. \A n \in P, d \in Side : t.child[n][d] # p
    <3>1. \A n \in P, d \in Side : t.child[n][d] # Nil => t.child[n][d] # t.root
      BY ONLY Apart, t \in Tree, Shape(t, P, pos, low, high)
    <3> QED BY <1>1, <1>12, <3>1 DEF Family
  <2>2. \A n \in P, d \in Side : black2[t.child[n][d]] = black2[n] - Blacks(u.color[n])
    BY <1>7, <1>8, <1>9, <2>1
  <2>3. Level(u, P, black2, Nil, "left")
    BY <1>1, <1>2, <1>6, <2>2 DEF Level, LevelAt, Family
  <2>4. Shrinking(u, P, black2, p)
    BY <1>1, <1>2, <1>10, <1>12, <2>3 DEF Shrinking, Family
  <2> QED BY <1>2, <1>11, <2>4
<1>13. CASE p # t.root
  <2>1. PICK g \in P, e \in Side : /\ g = t.parent[p] /\ e = SideOf(t, p) /\ g # p
                                  /\ t.child[g][e] = p /\ t.child[g][Other(e)] # p
    <3>1. p \in P
      BY <1>1 DEF Family
    <3> QED BY ONLY <1>13, <3>1, SideOfIs, t \in Tree, Shape(t, P, pos, low, high)
  <2>2. SideOf(u, p) = e
    BY <1>2, <2>1 DEF SideOf
  <2>3. \A n \in P, d \in Side : t.child[n][d] = p <=> n = g /\ d = e
    <3>1. \A n \in P, d \in Side : t.child[n][d] = p => n = g
      <4>1. p \in P
        BY <1>1 DEF Family
      <4> QED BY ONLY <2>1, <4>1, OneParent, t \in Tree, Shape(t, P, pos, low, high), g \in P, e \in Side
    <3> QED BY <2>1, <3>1, Sides
  <2>4. g # w
    BY <1>1, <2>1 DEF Family
  <2>5. \A n \in P, d \in Side :
          /\ n = g /\ d = e => black2[t.child[n][d]] + 1 = black2[n] - Blacks(u.color[n])
          /\ ~(n = g /\ d = e) => black2[t.child[n][d]] = black2[n] - Blacks(u.color[n])
    <3> SUFFICES ASSUME NEW n \in P, NEW d \in Side
                 PROVE  /\ n = g /\ d = e => black2[t.child[n][d]] + 1 = black2[n] - Blacks(u.color[n])
                        /\ ~(n = g /\ d = e) => black2[t.child[n][d]] = black2[n] - Blacks(u.color[n])
      OBVIOUS
    <3>1. CASE n = p \/ n = w
      BY <1>7, <1>8, <2>1, <2>4, <3>1
    <3>2. CASE n # p /\ n # w
      BY <1>9, <2>3, <3>2
    <3> QED BY <3>1, <3>2
  <2>6. Level(u, P, black2, g, e)
    BY <1>2, <1>6, <2>5 DEF Level, LevelAt
  <2>7. p \in P
    BY <1>1 DEF Family
  <2>8. Shrinking(u, P, black2, p)
    BY <1>2, <1>10, <1>11, <1>13, <2>1, <2>2, <2>6, <2>7 DEF Shrinking
  <2> QED BY <1>2, <1>11, <2>8
<1> QED BY <1>12, <1>13

\* The red near child v of the sibling comes up in its place.
LEMMA NearNephewGoesUp ==
  ASSUME NEW t \in Tree, NEW P, NEW pos, NEW low, NEW high, Shape(t, P, pos, low, high),
         NEW black, NEW x, NEW p, NEW s, NEW w, Lacking(t, P, black, x, p, s, w), t.color[w] = "black",
         NEW v, v = t.child[w][s], t.color[v] = "red", t.color[t.child[w][Other(s)]] = "black",
         NEW t1, t1 = Paint(Paint(t, v, "black"), w, "red"),
         NEW u, u = Rotate(t1, w, Other(s))
  PROVE  Turned(t, u, P, pos) /\ \E black2 : Shrinking(u, P, black2, x)
<1>1. Family(t, P, x, p, s, w) /\ Uneven(t, P, black, x, p, w)
  BY FamilyIs
<1>2. v \in P /\ v # w /\ v # p /\ v # x /\ v # Nil /\ v \in Node
  <2>1. v # Nil
    BY <1>1 DEF Family
  <2> QED BY <1>1, <2>1 DEF Family
<1>3. /\ t1 \in Tree /\ t1.root = t.root /\ t1.child = t.child /\ t1.parent = t.parent
      /\ t1.color[v] = "black" /\ t1.color[w] = "red" /\ \A n \in Node : n # v /\ n # w => t1.color[n] = t.color[n]
  <2>1. PICK c \in Hue, e \in Hue : c = "black" /\ e = "red"
    BY DEF Hue
  <2>2. w \in Node /\ v \in Node /\ v # w /\ t1 = Paint(Paint(t, v, c), w, e)
    BY <1>1, <1>2, <2>1 DEF Family
  <2>3. Painted(t, t1, v, c, w, e)
    BY ONLY <2>2, PaintTwo, t \in Tree, c \in Hue, e \in Hue
  <2> QED BY <2>1, <2>3 DEF Painted
<1>4. Shape(t1, P, pos, low, high)
  BY ONLY <1>3, ShapeOfLinks, Shape(t, P, pos, low, high)
<1>5. PICK o \in Side : o = Other(s) /\ Other(o) = s /\ o # s
  BY <1>1 DEF Family
<1>6. Rotated(t1, u, P, w, v, o) /\ \E low2, high2 : Shape(u, P, pos, low2, high2)
  <2>1. v = t1.child[w][Other(o)] /\ w \in P /\ u = Rotate(t1, w, o)
    BY ONLY <1>1, <1>3, <1>5, v = t.child[w][s], u = Rotate(t1, w, Other(s)) DEF Family
  <2> QED BY ONLY <1>2, <1>3, <1>4, <2>1, RotateShape, o \in Side
<1>7. u \in Tree /\ u.color = t1.color
  BY ONLY <1>6 DEF Rotated
<1>8. /\ u.child[w][o] = t.child[w][o] /\ u.child[w][s] = t.child[v][o]
      /\ u.child[v][o] = w /\ u.child[v][s] = t.child[v][s]
      /\ \A n \in P, d \in Side : n # w /\ n # v => u.child[n][d] = IF t.child[n][d] = w THEN v ELSE t.child[n][d]
  <2>1. w \in P /\ s \in Side
    BY ONLY <1>1 DEF Family
  <2>2. /\ u.child[w][Other(o)] = t1.child[v][o] /\ u.child[w][o] = t1.child[w][o]
        /\ u.child[v][o] = w /\ u.child[v][Other(o)] = t1.child[v][Other(o)]
        /\ \A n \in P, d \in Side : n # w /\ n # v => u.child[n][d] = IF t1.child[n][d] = w THEN v ELSE t1.child[n][d]
    BY ONLY <1>6 DEF Rotated
  <2> QED BY ONLY <1>3, <1>5, <2>1, <2>2
<1>9. /\ black[w] \in Nat /\ black[v] \in Nat /\ black[v] = black[w] - 1
      /\ black[t.child[w][o]] = black[v] /\ \A d \in Side : black[t.child[v][d]] = black[v]
  <2>1. Blacks(t.color[w]) = 1 /\ Blacks(t.color[v]) = 0
    BY DEF Blacks
  <2>2. w \in Node /\ w # p /\ w \in P /\ s \in Side
    BY <1>1 DEF Family
  <2>3. black[w] \in Nat /\ black[v] \in Nat
    BY <1>1, <1>2, <2>2 DEF Uneven
  <2>4. black[t.child[w][s]] = black[w] - 1 /\ black[t.child[w][o]] = black[w] - 1
    BY <1>1, <2>1, <2>2 DEF Uneven
  <2>5. \A d \in Side : black[t.child[v][d]] = black[v] - 0
    BY <1>1, <1>2, <2>1 DEF Uneven
  <2> QED BY <2>3, <2>4, <2>5
<1> DEFINE black2 == [black EXCEPT ![v] = black[w], ![w] = black[v]]
<1>10. /\ black2 \in [Node -> Nat] /\ black2[Nil] = 0 /\ black2[w] = black[v] /\ black2[v] = black[w]
       /\ \A n \in Node : n # v /\ n # w => black2[n] = black[n]
  <2>1. /\ black \in [Node -> Nat] /\ black[Nil] = 0 /\ v \in Node /\ w \in Node /\ Nil \in Node /\ v # w
        /\ v # Nil /\ w # Nil
    BY <1>1, <1>2 DEF Uneven, Family
  <2>2. /\ black2 \in [Node -> Nat] /\ black2[v] = black[w] /\ black2[w] = black[v]
        /\ \A n \in Node : n # v /\ n # w => black2[n] = black[n]
    BY ONLY <1>9, <2>1, TwoAnew
  <2> QED BY ONLY <2>1, <2>2
<1> HIDE DEF black2
<1>11. \A d \in Side : /\ t.child[w][d] \in Node /\ t.child[w][d] # w /\ t.child[w][d] # p
                       /\ t.child[v][d] \in Node /\ t.child[v][d] # v /\ t.child[v][d] # w
                       /\ t.child[w][o] # v
  <2>1. t.child[w][o] # v /\ \A d \in Side : t.child[v][d] # w
    <3>1. w \in P /\ s \in Side /\ t.child[w][s] = v
      BY <1>1 DEF Family
    <3>2. t.child[w][s] # t.child[w][Other(s)] /\ \A d \in Side : t.child[t.child[w][s]][d] # w
      BY ONLY <1>2, <3>1, Apart, t \in Tree, Shape(t, P, pos, low, high)
    <3> QED BY <1>5, <3>1, <3>2
  <2> QED BY <1>1, <1>2, <2>1 DEF Family
<1>12. Level(u, P, black2, p, s)
  <2>1. LevelAt(u, w, black2, p, s)
    <3>1. black2[t.child[w][o]] = black2[w] /\ black2[t.child[v][o]] = black2[w]
      BY <1>9, <1>10, <1>11
    <3>2. Blacks(u.color[w]) = 0 /\ black2[w] \in Nat /\ w # p
      BY <1>1, <1>3, <1>7, <1>9, <1>10 DEF Blacks, Family
    <3>3. \A d \in Side : d = s \/ d = o
      BY ONLY <1>5, Sides
    <3>4. /\ black2[u.child[w][o]] = black2[w] - Blacks(u.color[w])
          /\ black2[u.child[w][s]] = black2[w] - Blacks(u.color[w])
      <4>1. u.child[w][o] = t.child[w][o] /\ u.child[w][s] = t.child[v][o]
        BY <1>8
      <4> QED BY ONLY <3>1, <3>2, <4>1
    <3> QED BY ONLY <3>2, <3>3, <3>4 DEF LevelAt
  <2>2. LevelAt(u, v, black2, p, s)
    <3>1. black2[w] = black2[v] - 1 /\ black2[t.child[v][s]] = black2[v] - 1
      <4>1. s \in Side
        BY <1>1 DEF Family
      <4> QED BY <1>9, <1>10, <1>11, <4>1
    <3>2. Blacks(u.color[v]) = 1
      BY <1>3, <1>7 DEF Blacks
    <3>3. \A d \in Side : d = s \/ d = o
      BY <1>5, Sides
    <3>4. /\ black2[u.child[v][o]] = black2[v] - Blacks(u.color[v])
          /\ black2[u.child[v][s]] = black2[v] - Blacks(u.color[v])
      <4>1. u.child[v][o] = w /\ u.child[v][s] = t.child[v][s]
        BY <1>8
      <4> QED BY ONLY <3>1, <3>2, <4>1
    <3> QED BY ONLY <1>2, <3>3, <3>4 DEF LevelAt
  <2>3. \A n \in P : n # w /\ n # v => LevelAt(t1, n, black, p, s)
    <3>1. /\ \A n \in P : LevelAt(t, n, black, p, s)
          /\ P \subseteq Node
      BY ONLY <1>1, Lacking(t, P, black, x, p, s, w) DEF Lacking, Shrinking, Level, Family
    <3> QED BY ONLY <1>3, <3>1 DEF LevelAt
  <2>4. /\ black \in [Node -> Nat] /\ v = t1.child[w][Other(o)] /\ w \in P /\ \A n \in Node : n # w /\ n # v => black2[n] = black[n]
    BY <1>1, <1>3, <1>5, <1>10 DEF Uneven, Family
  <2> QED BY ONLY <1>2, <1>3, <1>4, <1>6, <1>10, <2>1, <2>2, <2>3, <2>4, RotateLevel, o \in Side
<1>13. RedsApart(u, P, {x}, {x})
  <2> SUFFICES ASSUME NEW n \in P, NEW d \in Side, Clash(u, n, d), n # x, u.child[n][d] # x PROVE FALSE
    BY DEF RedsApart
  <2>1. t1.color[n] = "red" /\ t1.color[u.child[n][d]] = "red" /\ n # v /\ u.child[n][d] # v
    BY <1>3, <1>7 DEF Clash
  <2>2. CASE n = w
    <3>1. u.child[n][d] = t.child[w][o] \/ u.child[n][d] = t.child[v][o]
      BY ONLY <1>5, <1>8, <2>2, Sides, d \in Side
    <3>2. CASE u.child[n][d] = t.child[w][o]
      <4>1. t.child[w][o] \in Node /\ t.child[w][o] # w /\ t.child[w][o] # v /\ t.color[t.child[w][o]] = "black"
        BY <1>5, <1>11
      <4> QED BY ONLY <1>3, <2>1, <3>2, <4>1
    <3>3. CASE u.child[n][d] = t.child[v][o]
      <4>1. Clash(t, v, o)
        <5>1. t.child[v][o] \in Node /\ t.child[v][o] # w /\ t.child[v][o] # v /\ t.color[v] = "red"
          BY <1>5, <1>11
        <5> QED BY ONLY <1>3, <2>1, <3>3, <5>1 DEF Clash
      <4>2. v \in P /\ o \in Side /\ v # x /\ t.child[v][o] # x
        BY <1>2, <1>5, <2>1, <3>3
      <4> QED BY ONLY <1>1, <4>1, <4>2 DEF Family
    <3> QED BY <3>1, <3>2, <3>3
  <2>3. CASE n # w
    <3>1. u.child[n][d] = t.child[n][d] /\ t.child[n][d] # v /\ t.child[n][d] # w
      BY ONLY <1>8, <2>1, <2>3, n \in P, d \in Side
    <3>2. Clash(t, n, d)
      <4>1. n \in Node /\ t.child[n][d] \in Node
        BY <1>1 DEF Family
      <4> QED BY ONLY <1>3, <2>1, <2>3, <3>1, <4>1 DEF Clash
    <3> QED BY <1>1, <2>3, <3>1, <3>2 DEF Family
  <2> QED BY <2>2, <2>3
<1>14. u.child[p][s] = x /\ u.child[p][o] = v
  BY <1>1, <1>2, <1>5, <1>8 DEF Family
<1>15. u.parent[x] = p
  <2>1. u.parent[Nil] = t.parent[Nil]
    BY ONLY <1>3, <1>6 DEF Rotated
  <2>2. Joined(u, P)
    BY <1>6 DEF Shape
  <2>3. t.parent[x] = p /\ p \in P /\ s \in Side
    BY <1>1 DEF Family
  <2> QED BY ONLY <1>14, <2>1, <2>2, <2>3 DEF Joined
<1>16. SideOf(u, x) = s
  BY <1>2, <1>5, <1>14, <1>15 DEF SideOf, Side, Other
<1>17. u.color[Nil] = "black" /\ x # u.root /\ u.color[u.root] = "black"
  <2>1. u.root = IF t.root = w THEN v ELSE t.root
    BY ONLY <1>3, <1>6 DEF Rotated
  <2>2. t.root \in Node /\ x # t.root
    <3>1. t.root \in Node
      BY DEF Tree
    <3>2. x # t.root
      BY ONLY Lacking(t, P, black, x, p, s, w) DEF Lacking
    <3> QED BY ONLY <3>1, <3>2
  <2> QED BY ONLY <1>1, <1>2, <1>3, <1>7, <2>1, <2>2 DEF Family
<1>18. Shrinking(u, P, black2, x)
  BY <1>1, <1>12, <1>13, <1>14, <1>15, <1>16, <1>17 DEF Shrinking, Family
<1>19. \A n \in Node \ P : u.child[n] = t.child[n]
  BY ONLY <1>3, <1>6 DEF Rotated
<1> QED BY <1>6, <1>7, <1>17, <1>18, <1>19 DEF Turned

\* The sibling w with the red far child c comes up in the place of p and takes
\* its colour; nothing is missing then.
LEMMA FarNephewGoesUp ==
  ASSUME NEW t \in Tree, NEW P, NEW pos, NEW low, NEW high, Shape(t, P, pos, low, high),
         NEW black, NEW x, NEW p, NEW s, NEW w, Lacking(t, P, black, x, p, s, w), t.color[w] = "black",
         NEW c, c = t.child[w][Other(s)], t.color[c] = "red",
         NEW t1, t1 = Paint(Paint(Paint(t, w, t.color[p]), p, "black"), c, "black"),
         NEW u, u = Rotate(t1, p, s)
  PROVE  Turned(t, u, P, pos) /\ \E black2 : Shrinking(u, P, black2, u.root)
<1>1. Family(t, P, x, p, s, w) /\ Uneven(t, P, black, x, p, w)
  BY FamilyIs
<1>2. PICK o \in Side : o = Other(s) /\ Other(o) = s /\ o # s
  BY <1>1 DEF Family
<1>3. c \in P /\ c # w /\ c # p /\ c # x /\ c # Nil /\ c \in Node
  <2>1. c # Nil
    BY <1>1 DEF Family
  <2> QED BY <1>1, <1>2, <2>1 DEF Family
<1>4. /\ t1 \in Tree /\ t1.root = t.root /\ t1.child = t.child /\ t1.parent = t.parent
      /\ t1.color[w] = t.color[p] /\ t1.color[p] = "black" /\ t1.color[c] = "black"
      /\ \A n \in Node : n # p /\ n # w /\ n # c => t1.color[n] = t.color[n]
  <2>1. PICK h \in Hue, e \in Hue : h = t.color[p] /\ e = "black"
    BY <1>1 DEF Hue, Tree, Family
  <2> DEFINE t2 == Paint(Paint(t, w, h), p, e)
  <2>2. p \in Node /\ w \in Node /\ w # p
    BY <1>1 DEF Family
  <2>3. Painted(t, t2, w, h, p, e)
    BY ONLY <2>2, PaintTwo, t \in Tree, h \in Hue, e \in Hue
  <2>4. t1 = Paint(t2, c, e)
    BY <2>1
  <2> HIDE DEF t2
  <2>5. t2 \in Tree
    BY <2>3 DEF Painted
  <2>6. /\ Paint(t2, c, e) \in Tree /\ Paint(t2, c, e).child = t2.child /\ Paint(t2, c, e).parent = t2.parent
        /\ Paint(t2, c, e).root = t2.root /\ Paint(t2, c, e).color[c] = e
        /\ \A m \in Node : m # c => Paint(t2, c, e).color[m] = t2.color[m]
    BY ONLY <1>3, <2>5, PaintFields, e \in Hue
  <2> QED BY ONLY <1>3, <2>1, <2>2, <2>3, <2>4, <2>6 DEF Painted
<1>5. Shape(t1, P, pos, low, high)
  BY ONLY <1>4, ShapeOfLinks, Shape(t, P, pos, low, high)
<1>6. Rotated(t1, u, P, p, w, s) /\ \E low2, high2 : Shape(u, P, pos, low2, high2)
  <2>1. w = t1.child[p][Other(s)] /\ p \in P /\ s \in Side /\ w # Nil
    BY ONLY <1>1, <1>4 DEF Family
  <2> QED BY ONLY <1>4, <1>5, <2>1, RotateShape, u = Rotate(t1, p, s)
<1>7. u \in Tree /\ u.color = t1.color
  BY ONLY <1>6 DEF Rotated
<1>8. /\ u.child[p][s] = x /\ u.child[p][o] = t.child[w][s] /\ u.child[w][s] = p /\ u.child[w][o] = c
      /\ \A n \in P, d \in Side : n # p /\ n # w => u.child[n][d] = IF t.child[n][d] = p THEN w ELSE t.child[n][d]
  <2>1. /\ w \in P /\ s \in Side /\ t.child[p][s] = x
    BY ONLY <1>1 DEF Family
  <2>2. /\ u.child[p][Other(s)] = t1.child[w][s] /\ u.child[p][s] = t1.child[p][s]
        /\ u.child[w][s] = p /\ u.child[w][Other(s)] = t1.child[w][Other(s)]
        /\ \A n \in P, d \in Side : n # p /\ n # w => u.child[n][d] = IF t1.child[n][d] = p THEN w ELSE t1.child[n][d]
    BY ONLY <1>6 DEF Rotated
  <2> QED BY ONLY <1>2, <1>4, <2>1, <2>2, c = t.child[w][Other(s)]
<1>9. PICK k \in {0, 1}, i \in Nat, j \in Nat, l \in Nat :
        /\ k = Blacks(t.color[p]) /\ i = black[p] /\ j = black[w] /\ l = black[c] + 1
        /\ j = i - k /\ black[x] = j - 1 /\ black[t.child[w][s]] = j - 1 /\ l = j
  <2>1. /\ p \in Node /\ w \in Node /\ x \in Node /\ w # p /\ w \in P /\ s \in Side /\ c \in Node
        /\ Blacks(t.color[p]) \in {0, 1} /\ Blacks(t.color[w]) = 1
    BY <1>1, <1>3 DEF Family, Blacks
  <2>2. black[p] \in Nat /\ black[w] \in Nat /\ black[x] \in Nat /\ black[c] \in Nat
    BY <1>1, <2>1 DEF Uneven
  <2>3. black[t.child[w][s]] = black[w] - 1 /\ black[c] = black[w] - 1
    BY <1>1, <1>2, <2>1 DEF Uneven
  <2>4. black[x] + 1 = black[p] - Blacks(t.color[p]) /\ black[w] = black[p] - Blacks(t.color[p])
    BY <1>1 DEF Uneven
  <2> QED BY ONLY <2>1, <2>2, <2>3, <2>4
<1> DEFINE black1 == [black EXCEPT ![c] = l]
           black2 == [black1 EXCEPT ![w] = i, ![p] = j]
<1>10. black1 \in [Node -> Nat] /\ black1[Nil] = 0 /\ black1[c] = l /\ \A n \in Node : n # c => black1[n] = black[n]
  <2>1. black \in [Node -> Nat] /\ black[Nil] = 0 /\ Nil \in Node
    BY <1>1 DEF Uneven, Family
  <2> QED BY <1>3, <2>1
<1> HIDE DEF black1
<1>11. /\ black2 \in [Node -> Nat] /\ black2[Nil] = 0 /\ black2[w] = i /\ black2[p] = j
       /\ \A n \in Node : n # p /\ n # w => black2[n] = black1[n]
  <2>1. p \in Node /\ w \in Node /\ Nil \in Node /\ w # p /\ p # Nil /\ w # Nil
    BY <1>1 DEF Family
  <2>2. /\ black2 \in [Node -> Nat] /\ black2[w] = i /\ black2[p] = j
        /\ \A n \in Node : n # w /\ n # p => black2[n] = black1[n]
    BY ONLY <1>10, <2>1, TwoAnew, i \in Nat, j \in Nat
  <2> QED BY ONLY <1>10, <2>1, <2>2
<1> HIDE DEF black2
<1>12. \A n \in P, d \in Side : t.child[n][d] = c => n = w
  <2>1. w \in P
    BY <1>1 DEF Family
  <2> QED BY ONLY <1>2, <1>3, <2>1, OneParent, t \in Tree, Shape(t, P, pos, low, high), c = t.child[w][Other(s)]
<1>13. t.child[w][s] # c
  BY <1>1, <1>2, <1>3, Apart DEF Family
<1>14. Level(u, P, black2, Nil, "left")
  <2>1. LevelAt(u, p, black2, Nil, "left")
    <3>1. black2[x] = black2[p] - 1 /\ black2[t.child[w][s]] = black2[p] - 1
      <4>1. /\ t.child[w][s] # p /\ t.child[w][s] # w /\ t.child[w][s] \in Node
            /\ x \in Node /\ x # p /\ x # w
        BY <1>1 DEF Family
      <4> QED BY <1>3, <1>9, <1>10, <1>11, <1>13, <4>1
    <3>2. Blacks(u.color[p]) = 1 /\ p # Nil
      BY <1>1, <1>4, <1>7 DEF Blacks, Family
    <3>3. \A d \in Side : d = s \/ d = o
      BY ONLY <1>2, Sides
    <3> QED BY <1>2, <1>8, <3>1, <3>2, <3>3 DEF LevelAt
  <2>2. LevelAt(u, w, black2, Nil, "left")
    <3>1. black2[p] = black2[w] - k /\ black2[c] = black2[w] - k
      BY <1>3, <1>9, <1>10, <1>11
    <3>2. Blacks(u.color[w]) = k /\ w # Nil
      BY <1>1, <1>4, <1>7, <1>9 DEF Family
    <3>3. \A d \in Side : d = s \/ d = o
      BY <1>2, Sides
    <3> QED BY <1>2, <1>8, <3>1, <3>2, <3>3 DEF LevelAt
  <2>3. ASSUME NEW n \in P, n # p, n # w PROVE LevelAt(t1, n, black1, Nil, "left")
    <3> SUFFICES ASSUME NEW d \in Side PROVE black1[t.child[n][d]] = black1[n] - Blacks(t1.color[n])
      <4>1. n # Nil
        BY <1>1 DEF Family
      <4> QED BY <1>4, <4>1 DEF LevelAt
    <3>1. /\ n \in Node /\ t.child[n][d] \in Node /\ t.child[n][d] # c
          /\ black[t.child[n][d]] = black[n] - Blacks(t.color[n]) /\ black[n] \in Nat
      BY <1>1, <1>12, <2>3 DEF Family, Uneven
    <3>2. CASE n = c
      <4>1. Blacks(t.color[n]) = 0 /\ Blacks(t1.color[n]) = 1
        BY <1>4, <3>2 DEF Blacks
      <4> QED BY <1>9, <1>10, <3>1, <3>2, <4>1
    <3>3. CASE n # c
      BY <1>4, <1>10, <2>3, <3>1, <3>3
    <3> QED BY <3>2, <3>3
  <2>4. w = t1.child[p][Other(s)] /\ p \in P /\ w \in P /\ s \in Side /\ black2[w] = black1[p]
    BY <1>1, <1>3, <1>4, <1>9, <1>10, <1>11 DEF Family
  <2>5. \A n \in P : n # p /\ n # w => LevelAt(t1, n, black1, Nil, "left")
    BY <2>3
  <2> QED BY ONLY <1>4, <1>5, <1>6, <1>10, <1>11, <2>1, <2>2, <2>4, <2>5, RotateLevel
<1>15. RedsApart(u, P, {}, {})
  <2> SUFFICES ASSUME NEW n \in P, NEW d \in Side, Clash(u, n, d) PROVE FALSE
    BY DEF RedsApart
  <2>1. t1.color[n] = "red" /\ t1.color[u.child[n][d]] = "red" /\ n # p /\ n # c /\ u.child[n][d] # p /\ u.child[n][d] # c
    BY ONLY <1>4, <1>7, Clash(u, n, d) DEF Clash
  <2>2. n # w
    BY ONLY <1>2, <1>8, <2>1, Sides, n \in P, d \in Side
  <2>3. u.child[n][d] = IF t.child[n][d] = p THEN w ELSE t.child[n][d]
    BY <1>8, <2>1, <2>2
  <2>4. t.child[n][d] # w /\ t.child[n][d] \in Node /\ n \in Node
    BY ONLY <1>1, <2>1, <2>2, n \in P, d \in Side DEF Family
  <2>5. Clash(t, n, d)
    <3>1. t.color[n] = "red"
      BY ONLY <1>4, <2>1, <2>2, <2>4
    <3>2. CASE t.child[n][d] = p
      BY ONLY <1>4, <2>1, <2>3, <3>1, <3>2 DEF Clash
    <3>3. CASE t.child[n][d] # p
      BY ONLY <1>4, <2>1, <2>3, <2>4, <3>1, <3>3 DEF Clash
    <3> QED BY ONLY <3>2, <3>3
  <2>6. t.color[x] = "black" /\ (n = x \/ t.child[n][d] = x)
    BY <1>1, <2>5 DEF Family
  <2> QED BY <2>5, <2>6 DEF Clash
<1>16. u.color[Nil] = "black"
  BY ONLY <1>1, <1>3, <1>4, <1>7 DEF Family
<1>17. u.root \in P \cup {Nil}
  BY ONLY <1>6 DEF Shape, Joined
<1>18. Shrinking(u, P, black2, u.root)
  BY ONLY <1>14, <1>15, <1>17 DEF Shrinking, RedsApart
<1>19. \A n \in Node \ P : u.child[n] = t.child[n]
  BY ONLY <1>4, <1>6 DEF Rotated
<1> QED BY <1>6, <1>7, <1>16, <1>18, <1>19 DEF Turned

\* The end of a removal's rebalancing: x turns black.
LEMMA LackIsFilled ==
  ASSUME NEW t \in Tree, NEW P, NEW pos, NEW low, NEW high, Shape(t, P, pos, low, high),
         NEW black, NEW x, Shrinking(t, P, black, x), t.color[Nil] = "black",
         x = t.root \/ t.color[x] # "black",
         NEW u, u = Paint(t, x, "black")
  PROVE  /\ u \in Tree /\ u.root = t.root /\ u.child = t.child /\ u.parent = t.parent /\ u.color[Nil] = "black"
         /\ \E black2 : Settled(u, P, black2)
<1>1. P \subseteq Data /\ P \subseteq Node /\ Nil \notin P /\ Nil \in Node /\ x \in Node /\ x \in P \cup {Nil}
  BY TreeAssumption DEF Shape, Seated, Node, Shrinking
<1>2. /\ u \in Tree /\ u.root = t.root /\ u.child = t.child /\ u.parent = t.parent /\ u.color[x] = "black"
      /\ \A n \in Node : n # x => u.color[n] = t.color[n]
  <2>1. "black" \in Hue
    BY DEF Hue
  <2> QED BY <1>1, <2>1, PaintFields
<1>3. u.color[Nil] = "black"
  BY <1>1, <1>2
<1>4. RedsApart(u, P, {}, {})
  <2> SUFFICES ASSUME NEW n \in P, NEW d \in Side, Clash(u, n, d) PROVE FALSE
    BY DEF RedsApart
  <2>1. n # x /\ t.child[n][d] # x /\ t.child[n][d] \in Node /\ n \in Node
    <3>1. n \in Node /\ t.child[n][d] \in Node
      BY <1>1 DEF Tree
    <3> QED BY ONLY <1>2, <3>1, Clash(u, n, d), "red" # "black" DEF Clash
  <2>2. Clash(t, n, d)
    BY <1>2, <2>1 DEF Clash
  <2> QED BY <2>1, <2>2 DEF Shrinking, RedsApart
<1>5. u.color[u.root] = "black"
  <2>1. t.root \in Node
    BY DEF Tree
  <2> QED BY <1>2, <2>1 DEF Shrinking
<1>6. CASE t.color[x] = "black"
  <2>1. x = t.root
    BY <1>6
  <2>2. \A n \in P : u.color[n] = t.color[n]
    BY <1>1, <1>2, <1>6
  <2>3. Level(u, P, black, Nil, "left")
    BY <1>1, <1>2, <2>1, <2>2 DEF Shrinking, Level, LevelAt
  <2> QED BY <1>2, <1>3, <1>4, <1>5, <2>3 DEF Settled
<1>7. CASE t.color[x] # "black"
  <2>1. x \in P /\ x # Nil
    BY <1>1, <1>7
  <2>2. PICK at \in Node, s \in Side :
          /\ Level(t, P, black, at, s)
          /\ \A n \in P, d \in Side : t.child[n][d] = x <=> n = at /\ d = s
    <3>1. CASE x = t.root
      <4>1. Level(t, P, black, Nil, "left")
        BY <3>1 DEF Shrinking
      <4>2. \A n \in P, d \in Side : t.child[n][d] # Nil => t.child[n][d] # t.root
        BY ONLY Apart, t \in Tree, Shape(t, P, pos, low, high)
      <4>3. \A n \in P, d \in Side : t.child[n][d] # x /\ n # Nil
        BY <1>1, <2>1, <3>1, <4>2
      <4> QED BY <1>1, <4>1, <4>3 DEF Side
    <3>2. CASE x # t.root
      <4>1. PICK p \in P, s \in Side : p = t.parent[x] /\ s = SideOf(t, x) /\ t.child[p][s] = x /\ t.child[p][Other(s)] # x
        BY ONLY <2>1, <3>2, SideOfIs, t \in Tree, Shape(t, P, pos, low, high)
      <4>2. Level(t, P, black, p, s)
        BY <3>2, <4>1 DEF Shrinking
      <4>3. \A n \in P, d \in Side : t.child[n][d] = x => n = p
        BY ONLY <2>1, <4>1, OneParent, t \in Tree, Shape(t, P, pos, low, high), p \in P, s \in Side
      <4>4. \A n \in P, d \in Side : t.child[n][d] = x <=> n = p /\ d = s
        BY <4>1, <4>3, Sides
      <4> QED BY <1>1, <4>2, <4>4
    <3> QED BY <3>1, <3>2
  <2>3. PICK i \in Nat : i = black[x] + 1
    BY <1>1, <2>2 DEF Level
  <2> DEFINE black2 == [black EXCEPT ![x] = i]
  <2>4. black2 \in [Node -> Nat] /\ black2[Nil] = 0 /\ black2[x] = i /\ \A n \in Node : n # x => black2[n] = black[n]
    BY <1>1, <2>1, <2>2 DEF Level
  <2> HIDE DEF black2
  <2>5. Level(u, P, black2, Nil, "left")
    <3> SUFFICES ASSUME NEW n \in P, NEW d \in Side PROVE black2[t.child[n][d]] = black2[n] - Blacks(u.color[n])
      BY <1>1, <1>2, <2>4 DEF Level, LevelAt
    <3>1. /\ n = at /\ d = s => black[t.child[n][d]] + 1 = black[n] - Blacks(t.color[n])
          /\ ~(n = at /\ d = s) => black[t.child[n][d]] = black[n] - Blacks(t.color[n])
      BY <2>2 DEF Level, LevelAt
    <3>2. t.child[n][d] \in Node /\ n \in Node /\ black[t.child[n][d]] \in Nat /\ black[n] \in Nat
      BY <1>1, <2>2 DEF Level, Tree
    <3>3. CASE n = x
      <4>1. t.child[n][d] # x
        <5>1. \A m \in P, e \in Side : t.child[m][e] # Nil => t.child[m][e] # m
          BY ONLY Apart, t \in Tree, Shape(t, P, pos, low, high)
        <5> QED BY <2>1, <3>3, <5>1
      <4>2. black[t.child[n][d]] = black[n] - Blacks(t.color[n])
        BY <2>2, <3>1, <4>1
      <4> QED BY <1>2, <1>7, <2>3, <2>4, <3>2, <3>3, <4>1, <4>2 DEF Blacks
    <3>4. CASE n # x
      <4>1. u.color[n] = t.color[n] /\ black2[n] = black[n] /\ Blacks(t.color[n]) \in {0, 1}
        BY <1>2, <2>4, <3>2, <3>4 DEF Blacks
      <4>2. CASE t.child[n][d] = x
        BY <2>2, <2>3, <2>4, <3>1, <3>2, <4>1, <4>2
      <4>3. CASE t.child[n][d] # x
        BY <2>2, <2>4, <3>1, <3>2, <4>1, <4>3
      <4> QED BY <4>2, <4>3
    <3> QED BY <3>3, <3>4
  <2> QED BY <1>2, <1>3, <1>4, <1>5, <2>5 DEF Settled
<1> QED BY <1>6, <1>7
----------------------------------------------------------------------------
(* The colours after a node came or went.                                  *)

\* A new node is red, and may be below a red one.
LEMMA AddedIsRed ==
  ASSUME NEW t \in Tree, NEW P, NEW pos, NEW low, NEW high, Shape(t, P, pos, low, high),
         NEW black, Settled(t, P, black), t.color[Nil] = "black",
         NEW d \in Data \ P, NEW y \in P \cup {Nil}, NEW s \in Side,
         P = {} <=> y = Nil, y # Nil => t.child[y][s] = Nil,
         NEW u, Added(t, u, d, y, s)
  PROVE  u.color[Nil] = "black" /\ \E black2 : Growing(u, P \cup {d}, black2, d)
<1>1. P \subseteq Data /\ P \subseteq Node /\ Nil \notin P /\ Nil \in Node /\ d \in Node /\ d # Nil /\ d # y /\ y \in Node
  BY TreeAssumption DEF Shape, Seated, Node
<1>2. Level(t, P, black, Nil, "left") /\ RedsApart(t, P, {}, {}) /\ t.color[t.root] = "black"
  BY DEF Settled
<1>3. \A n \in P, e \in Side : /\ black[t.child[n][e]] = black[n] - Blacks(t.color[n])
                              /\ black[t.child[n][e]] \in Nat /\ black[n] \in Nat
  <2>1. Even(t, P, black)
    BY ONLY <1>1, <1>2, EvenLevel, t \in Tree
  <2> QED BY <2>1 DEF Even
<1>4. \A n \in P, e \in Side : t.child[n][e] \in P \cup {Nil} /\ t.child[n][e] # d /\ t.child[n][e] \in Node
  BY <1>1 DEF Shape, Joined
<1>5. /\ \A n \in P, e \in Side : u.child[n][e] = IF n = y /\ e = s THEN d ELSE t.child[n][e]
      /\ \A e \in Side : u.child[d][e] = Nil
      /\ u.color[d] = "red" /\ \A n \in Node : n # d => u.color[n] = t.color[n]
      /\ u.root = IF y = Nil THEN d ELSE t.root
  <2>1. ASSUME NEW n \in P, NEW e \in Side PROVE u.child[n][e] = IF n = y /\ e = s THEN d ELSE t.child[n][e]
    <3>1. CASE n = y
      <4>1. y # Nil /\ (e = s \/ e = Other(s))
        BY <1>1, <3>1, Sides
      <4> QED BY <3>1, <4>1, Sides DEF Added
    <3>2. CASE n # y
      BY <1>1, <3>2 DEF Added
    <3> QED BY <3>1, <3>2
  <2> QED BY <2>1 DEF Added
<1> DEFINE black2 == [black EXCEPT ![d] = 0]
<1>6. black2 \in [Node -> Nat] /\ black2[Nil] = 0 /\ black2[d] = 0 /\ \A n \in Node : n # d => black2[n] = black[n]
  BY <1>1, <1>2 DEF Level
<1> HIDE DEF black2
<1>7. ASSUME NEW n \in P \cup {d}, NEW e \in Side PROVE black2[u.child[n][e]] = black2[n] - Blacks(u.color[n])
  <2>1. CASE n = d
    BY <1>5, <1>6, <2>1 DEF Blacks
  <2>2. CASE n # d
    <3>1. n \in P /\ n \in Node
      BY <1>1, <2>2
    <3>2. CASE n = y /\ e = s
      <4>1. black[Nil] = black[n] - Blacks(t.color[n]) /\ black[Nil] = 0
        BY <1>1, <1>2, <1>3, <3>1, <3>2 DEF Level
      <4> QED BY <1>5, <1>6, <2>2, <3>1, <3>2, <4>1
    <3>3. CASE ~(n = y /\ e = s)
      BY <1>3, <1>4, <1>5, <1>6, <2>2, <3>1, <3>3
    <3> QED BY <3>2, <3>3
  <2> QED BY <2>1, <2>2
<1>8. Level(u, P \cup {d}, black2, Nil, "left")
  BY <1>1, <1>6, <1>7 DEF Level, LevelAt
<1>9. u.color[Nil] = "black"
  BY <1>1, <1>5
<1>10. RedsApart(u, P \cup {d}, {}, {d})
  <2> SUFFICES ASSUME NEW n \in P \cup {d}, NEW e \in Side, Clash(u, n, e), u.child[n][e] # d PROVE FALSE
    BY DEF RedsApart
  <2>1. n # d
    BY <1>5, <1>9 DEF Clash
  <2>2. n \in P /\ n \in Node
    BY <1>1, <2>1
  <2>3. u.child[n][e] = t.child[n][e]
    BY <1>5, <2>2
  <2>4. Clash(t, n, e)
    BY <1>4, <1>5, <2>1, <2>2, <2>3 DEF Clash
  <2> QED BY <1>2, <2>2, <2>4 DEF RedsApart
<1>11. d # u.root => u.color[u.root] = "black"
  <2>1. t.root \in Node
    BY DEF Tree
  <2> QED BY <1>2, <1>5, <2>1
<1> QED BY <1>5, <1>8, <1>9, <1>10, <1>11 DEF Growing

\* After a red node is cut out all is well with the colours; after a black one,
\* a black node is missing above the child that took its place.
LEMMA CutLacks ==
  ASSUME NEW t \in Tree, NEW P, NEW pos, NEW low, NEW high, Shape(t, P, pos, low, high),
         NEW black, Settled(t, P, black), t.color[Nil] = "black",
         NEW y \in P, NEW s \in Side, t.child[y][Other(s)] = Nil, NEW x, x = t.child[y][s],
         NEW u, CutOut(t, u, P, y, x)
  PROVE  /\ u.color[Nil] = "black"
         /\ t.color[y] = "black" => Shrinking(u, P \ {y}, black, x)
         /\ t.color[y] # "black" => Settled(u, P \ {y}, black)
<1>1. P \subseteq Data /\ P \subseteq Node /\ Nil \notin P /\ Nil \in Node /\ y \in Node /\ y # Nil /\ t.root \in Node
  BY TreeAssumption DEF Shape, Seated, Node, Tree
<1>2. Level(t, P, black, Nil, "left") /\ RedsApart(t, P, {}, {}) /\ t.color[t.root] = "black"
  BY DEF Settled
<1>3. \A n \in P, e \in Side : /\ black[t.child[n][e]] = black[n] - Blacks(t.color[n])
                              /\ black[t.child[n][e]] \in Nat /\ black[n] \in Nat
  <2>1. Even(t, P, black)
    BY ONLY <1>1, <1>2, EvenLevel, t \in Tree
  <2> QED BY <2>1 DEF Even
<1>4. x \in P \cup {Nil} /\ x # y /\ x # t.root /\ t.root # Nil
  <2>1. x # Nil => x # y /\ x # t.root /\ x \in P
    BY ONLY Apart, t \in Tree, Shape(t, P, pos, low, high), y \in P, s \in Side, x = t.child[y][s]
  <2>2. t.root # Nil
    BY DEF Shape, Joined
  <2> QED BY <1>1, <2>1, <2>2
<1>5. /\ u.color = t.color /\ u.root = IF t.root = y THEN x ELSE t.root
      /\ \A n \in P \ {y}, d \in Side : u.child[n][d] = IF t.child[n][d] = y THEN x ELSE t.child[n][d]
      /\ u.parent[x] = t.parent[y]
  BY DEF CutOut
<1>6. black[x] = black[y] - Blacks(t.color[y]) /\ black[x] \in Nat /\ black[y] \in Nat
  BY <1>3
<1>7. black \in [Node -> Nat] /\ black[Nil] = 0
  BY <1>2 DEF Level
<1>8. \A n \in P, d \in Side : ~Clash(t, n, d)
  BY <1>2 DEF RedsApart
<1>9. \A n \in P, d \in Side : t.child[n][d] = y => t.parent[y] = n
  BY <1>1 DEF Shape, Joined
<1>10. ASSUME t.color[y] = "black" PROVE Shrinking(u, P \ {y}, black, x)
  <2>1. RedsApart(u, P \ {y}, {x}, {x})
    BY <1>5, <1>8 DEF RedsApart, Clash
  <2>2. black[x] + 1 = black[y]
    BY <1>6, <1>10 DEF Blacks
  <2>3. CASE y = t.root
    <3>1. \A n \in P, d \in Side : t.child[n][d] # y
      <4>1. \A n \in P, d \in Side : t.child[n][d] # Nil => t.child[n][d] # t.root
        BY ONLY Apart, t \in Tree, Shape(t, P, pos, low, high)
      <4> QED BY <1>1, <2>3, <4>1
    <3>2. Level(u, P \ {y}, black, Nil, "left")
      BY <1>1, <1>3, <1>5, <1>7, <3>1 DEF Level, LevelAt
    <3> QED BY <1>4, <1>5, <2>1, <2>3, <3>2 DEF Shrinking
  <2>4. CASE y # t.root
    <3>1. PICK p \in P, e \in Side : /\ p = t.parent[y] /\ p # y /\ t.child[p][e] = y /\ t.child[p][Other(e)] # y
                                    /\ Other(e) \in Side /\ Other(e) # e
      BY ONLY <2>4, SideOfIs, t \in Tree, Shape(t, P, pos, low, high), y \in P
    <3>2. u.parent[x] = p /\ u.child[p][e] = x /\ u.child[p][Other(e)] = t.child[p][Other(e)]
      BY <1>5, <3>1
    <3>3. u.child[p][Other(e)] # x
      <4>1. black[t.child[p][Other(e)]] = black[t.child[p][e]]
        BY <1>3, <3>1
      <4> QED BY <1>6, <2>2, <3>1, <3>2, <4>1
    <3>4. SideOf(u, x) = e
      BY <3>2, <3>3 DEF SideOf, Side, Other
    <3>5. \A n \in P, d \in Side : t.child[n][d] = y <=> n = p /\ d = e
      BY <1>9, <3>1, Sides
    <3>6. Level(u, P \ {y}, black, p, e)
      <4> SUFFICES ASSUME NEW n \in P \ {y}, NEW d \in Side
                   PROVE  /\ n = p /\ d = e => black[u.child[n][d]] + 1 = black[n] - Blacks(u.color[n])
                          /\ ~(n = p /\ d = e) => black[u.child[n][d]] = black[n] - Blacks(u.color[n])
        BY <1>7 DEF Level, LevelAt
      <4>1. CASE n = p /\ d = e
        BY <1>3, <1>5, <2>2, <3>2, <3>5, <4>1
      <4>2. CASE ~(n = p /\ d = e)
        BY <1>3, <1>5, <3>5, <4>2
      <4> QED BY <4>1, <4>2
    <3>7. u.root = t.root /\ x # u.root /\ u.color[u.root] = "black"
      BY <1>2, <1>4, <1>5, <2>4
    <3> QED BY <1>4, <2>1, <3>1, <3>2, <3>4, <3>6, <3>7 DEF Shrinking
  <2> QED BY <2>3, <2>4
<1>11. ASSUME t.color[y] # "black" PROVE Settled(u, P \ {y}, black)
  <2>1. t.color[y] = "red"
    BY <1>1, <1>11 DEF Tree
  <2>2. t.color[x] # "red"
    BY <1>8, <2>1 DEF Clash
  <2>3. black[x] = black[y]
    BY <1>6, <2>1 DEF Blacks
  <2>4. Level(u, P \ {y}, black, Nil, "left")
    <3> SUFFICES ASSUME NEW n \in P \ {y}, NEW d \in Side PROVE black[u.child[n][d]] = black[n] - Blacks(u.color[n])
      BY <1>1, <1>7 DEF Level, LevelAt
    <3> QED BY <1>3, <1>5, <2>3
  <2>5. RedsApart(u, P \ {y}, {}, {})
    BY <1>5, <1>8, <2>2 DEF RedsApart, Clash
  <2>6. u.color[u.root] = "black"
    BY <1>2, <1>5, <2>1
  <2> QED BY <2>4, <2>5, <2>6 DEF Settled
<1> QED BY <1>5, <1>10, <1>11

\* y in the place of z, with its colour, changes nothing.
LEMMA ReplacedIsSettled ==
  ASSUME NEW t \in Tree, NEW P, NEW pos, NEW low, NEW high, Shape(t, P, pos, low, high),
         NEW black, Settled(t, P, black), t.color[Nil] = "black",
         NEW z \in P, NEW y \in Data \ P, NEW u, Replaced(t, u, P, z, y)
  PROVE  u.color[Nil] = "black" /\ \E black2 : Settled(u, (P \ {z}) \cup {y}, black2)
<1>1. /\ P \subseteq Data /\ P \subseteq Node /\ Nil \notin P /\ Nil \in Node /\ y \in Node /\ y # Nil /\ z \in Node
      /\ t.root \in P \cup {Nil}
  BY TreeAssumption DEF Shape, Seated, Node, Joined
<1>2. Level(t, P, black, Nil, "left") /\ RedsApart(t, P, {}, {}) /\ t.color[t.root] = "black"
  BY DEF Settled
<1>3. \A n \in P, e \in Side : black[t.child[n][e]] = black[n] - Blacks(t.color[n]) /\ t.child[n][e] \in P \cup {Nil}
  <2>1. Even(t, P, black)
    BY ONLY <1>1, <1>2, EvenLevel, t \in Tree
  <2> QED BY <2>1 DEF Even, Shape, Joined
<1> DEFINE black2 == [black EXCEPT ![y] = black[z]]
<1>4. black2 \in [Node -> Nat] /\ black2[Nil] = 0 /\ \A n \in P \cup {Nil} : black2[As(n, z, y)] = black[n]
  BY <1>1, <1>2 DEF Level, As
<1> HIDE DEF black2
<1>5. u.color[Nil] = "black" /\ \A n \in P \cup {Nil} : u.color[As(n, z, y)] = t.color[n]
  BY <1>1 DEF Replaced, As
<1>6. \A n \in P, d \in Side : u.child[As(n, z, y)][d] = As(t.child[n][d], z, y)
  BY DEF Replaced
<1>7. \A m \in (P \ {z}) \cup {y} : \E n \in P : m = As(n, z, y) /\ m # Nil
  BY <1>1 DEF As
<1>8. Level(u, (P \ {z}) \cup {y}, black2, Nil, "left")
  <2> SUFFICES ASSUME NEW m \in (P \ {z}) \cup {y}, NEW d \in Side
               PROVE  black2[u.child[m][d]] = black2[m] - Blacks(u.color[m]) /\ m # Nil
    BY <1>4 DEF Level, LevelAt
  <2>1. PICK n \in P : m = As(n, z, y) /\ m # Nil
    BY <1>7
  <2> QED BY <1>3, <1>4, <1>5, <1>6, <2>1
<1>9. RedsApart(u, (P \ {z}) \cup {y}, {}, {})
  <2> SUFFICES ASSUME NEW m \in (P \ {z}) \cup {y}, NEW d \in Side, Clash(u, m, d) PROVE FALSE
    BY DEF RedsApart
  <2>1. PICK n \in P : m = As(n, z, y)
    BY <1>7
  <2>2. Clash(t, n, d)
    BY <1>3, <1>5, <1>6, <2>1 DEF Clash
  <2> QED BY <1>2, <2>2 DEF RedsApart
<1>10. u.color[u.root] = "black"
  BY <1>1, <1>2, <1>5 DEF Replaced
<1> QED BY <1>5, <1>8, <1>9, <1>10 DEF Settled

\* A node that is out of the tree may be emptied.
LEMMA ClearedIsSettled ==
  ASSUME NEW t \in Tree, NEW P, NEW pos, NEW low, NEW high, Shape(t, P, pos, low, high),
         NEW black, Settled(t, P, black), t.color[Nil] = "black",
         NEW z \in Data \ P, NEW u, Cleared(t, u, z)
  PROVE  u \in Tree /\ u.color[Nil] = "black" /\ Settled(u, P, black) /\ Shape(u, P, pos, low, high)
<1>1. /\ u \in Tree /\ u.root = t.root
      /\ \A d \in Side : u.child[z][d] = Nil
      /\ \A n \in Node : n # z => u.child[n] = t.child[n] /\ u.parent[n] = t.parent[n] /\ u.color[n] = t.color[n]
  BY ONLY ClearFields, t \in Tree, z \in Data \ P, Cleared(t, u, z)
<1>2. /\ P \subseteq Data /\ P \subseteq Node /\ Nil \notin P /\ Nil \in Node /\ z # Nil /\ z \notin P /\ t.root # z
      /\ t.root \in P \cup {Nil}
  BY TreeAssumption DEF Shape, Seated, Node, Joined
<1>3. \A n \in P : n # z /\ n \in Node /\ u.child[n] = t.child[n] /\ u.parent[n] = t.parent[n] /\ u.color[n] = t.color[n]
  BY <1>1, <1>2
<1>4. \A n \in P, d \in Side : t.child[n][d] # z /\ t.child[n][d] \in P \cup {Nil}
  BY <1>2 DEF Shape, Joined
<1>5. u.color[Nil] = t.color[Nil] /\ u.child[Nil] = t.child[Nil]
  BY <1>1, <1>2
<1>6. Shape(u, P, pos, low, high)
  <2>1. Joined(u, P)
    <3>1. \A n \in P, s \in Side : u.child[n][s] # Nil => u.child[n][s] \in P /\ u.parent[u.child[n][s]] = n
      BY <1>3 DEF Shape, Joined
    <3>2. /\ u.root # Nil => u.root \in P /\ u.parent[u.root] = Nil
          /\ u.root = Nil => P = {}
      BY <1>1, <1>3 DEF Shape, Joined
    <3>3. \A n \in P : n # u.root => u.parent[n] \in P /\ \E s \in Side : u.child[u.parent[n]][s] = n
      BY <1>1, <1>3 DEF Shape, Joined
    <3>4. /\ \A n \in Node \ P, s \in Side : u.child[n][s] \in P \cup {Nil}
          /\ \A s \in Side : u.child[Nil][s] = Nil
      BY <1>1, <1>5 DEF Shape, Joined
    <3> QED BY <3>1, <3>2, <3>3, <3>4 DEF Joined
  <2>2. Nested(u, P, pos, low, high) /\ Full(u, P, pos, low, high)
    BY <1>1, <1>3 DEF Shape, Nested, Full
  <2> QED BY <2>1, <2>2 DEF Shape
<1>7. Level(u, P, black, Nil, "left")
  BY <1>3 DEF Settled, Level, LevelAt
<1>8. RedsApart(u, P, {}, {})
  <2>1. \A n \in P, d \in Side : Clash(u, n, d) => Clash(t, n, d)
    BY <1>3, <1>4, <1>5 DEF Clash
  <2> QED BY <2>1 DEF Settled, RedsApart
<1>9. u.color[u.root] = "black"
  BY <1>1, <1>2, <1>3, <1>5 DEF Settled
<1> QED BY <1>1, <1>5, <1>6, <1>7, <1>8, <1>9 DEF Settled
----------------------------------------------------------------------------
(* The invariant.                                                          *)

\* What comes next to z will be in its place: it has a key that fits there.
Heir(P, pos, y, z) == y # z => z.key <= y.key /\ \A m \in P : pos[z] < pos[m] => y.key <= m.key

\* The tree t with the nodes P while o is under way.
InOrder(t, P, o, pos, low, high, black) ==
  /\ Shape(t, P, pos, low, high) /\ Ordered(P, pos)
  /\ o.do \in {"nothing", "splice"} => Settled(t, P, black)
  /\ o.do = "insert" => Growing(t, P, black, o.x)
  /\ o.do = "remove" => Shrinking(t, P, black, o.x)
  /\ o.do \in {"remove", "splice"} => Heir(P, pos, o.y, o.z)

TreeInv ==
  /\ tree \in Tree /\ op \in Op /\ held \subseteq Data /\ size = Cardinality(held)
  /\ tree.color[Nil] = "black"
  /\ \A n \in Data \ held, s \in Side : tree.child[n][s] = Nil
  /\ op.do \in {"remove", "splice"} => op.y \in held /\ op.z \in held
  /\ \E pos, low, high, black : InOrder(tree, Linked, op, pos, low, high, black)

\* What an operation may be.
LEMMA OpFields ==
  ASSUME NEW o \in Op
  PROVE  /\ o.do \in {"nothing", "insert", "remove", "splice"}
         /\ o.do = "nothing" <=> o = Idle
         /\ o.do = "insert" => o.x \in Data /\ o = [do |-> "insert", x |-> o.x]
         /\ o.do \in {"remove", "splice"} => /\ o.x \in Node /\ o.y \in Data /\ o.z \in Data
                                             /\ o = [do |-> o.do, x |-> o.x, y |-> o.y, z |-> o.z]
<1>1. CASE o = Idle
  BY <1>1 DEF Idle
<1>2. CASE o \in [do : {"insert"}, x : Data]
  BY <1>2 DEF Idle
<1>3. CASE o \in [do : {"remove", "splice"}, x : Node, y : Data, z : Data]
  BY <1>3 DEF Idle
<1> QED BY <1>1, <1>2, <1>3 DEF Op

\* An insertion that goes on at x.
LEMMA InsertAt ==
  ASSUME NEW o \in Op, o.do = "insert", NEW x \in Data, NEW q, q = [o EXCEPT !.x = x]
  PROVE  q \in Op /\ q.do = "insert" /\ q.x = x
<1>1. o = [do |-> "insert", x |-> o.x]
  BY OpFields
<1>2. q = [do |-> "insert", x |-> x]
  BY <1>1
<1> QED BY <1>2 DEF Op

\* A removal that goes on at x, or with the splice.
LEMMA RemoveAt ==
  ASSUME NEW o \in Op, o.do = "remove", NEW x \in Node, NEW q, q = [o EXCEPT !.x = x]
  PROVE  q \in Op /\ q.do = "remove" /\ q.x = x /\ q.y = o.y /\ q.z = o.z
<1>1. o = [do |-> "remove", x |-> o.x, y |-> o.y, z |-> o.z] /\ o.y \in Data /\ o.z \in Data
  BY OpFields
<1>2. q = [do |-> "remove", x |-> x, y |-> o.y, z |-> o.z]
  BY <1>1
<1> QED BY <1>1, <1>2 DEF Op

\* The next thing a removal does.
LEMMA SpliceNext ==
  ASSUME NEW o \in Op, o.do = "remove", NEW q, q = [o EXCEPT !.do = "splice"]
  PROVE  q \in Op /\ q.do = "splice" /\ q.y = o.y /\ q.z = o.z
<1>1. /\ o = [do |-> "remove", x |-> o.x, y |-> o.y, z |-> o.z]
      /\ o.x \in Node /\ o.y \in Data /\ o.z \in Data
  BY OpFields
<1>2. q = [do |-> "splice", x |-> o.x, y |-> o.y, z |-> o.z]
  BY <1>1
<1> QED BY <1>1, <1>2 DEF Op

\* Painting is a turn.
LEMMA PaintTurns ==
  ASSUME NEW t \in Tree, NEW P, NEW pos, NEW low, NEW high, Shape(t, P, pos, low, high),
         NEW u \in Tree, u.root = t.root, u.child = t.child, u.parent = t.parent, u.color[Nil] = "black"
  PROVE  Turned(t, u, P, pos)
BY ShapeOfLinks DEF Turned

\* What a turn of an insertion keeps.
LEMMA InsertTurns ==
  ASSUME TreeInv, op.do = "insert", held' = held, size' = size,
         NEW x \in Data, op' = [op EXCEPT !.x = x],
         NEW pos, Ordered(Linked, pos), Turned(tree, tree', Linked, pos),
         NEW black, Growing(tree', Linked, black, x)
  PROVE  TreeInv'
<1>1. op \in Op /\ Linked = held
  BY DEF TreeInv, Linked
<1>2. op' \in Op /\ op'.do = "insert" /\ op'.x = x
  BY <1>1, InsertAt
<1>3. Linked' = Linked
  BY <1>1, <1>2 DEF Linked
<1>4. PICK low, high : Shape(tree', Linked, pos, low, high)
  BY DEF Turned
<1>5. InOrder(tree', Linked', op', pos, low, high, black)
  BY <1>2, <1>3, <1>4 DEF InOrder
<1>6. /\ tree' \in Tree /\ held' \subseteq Data /\ size' = Cardinality(held') /\ (tree').color[Nil] = "black"
      /\ \A n \in Data \ held', s \in Side : (tree').child[n][s] = Nil
  BY <1>1 DEF TreeInv, Turned, Node
<1> QED BY <1>2, <1>5, <1>6 DEF TreeInv

\* What a turn of a removal keeps.
LEMMA RemoveTurns ==
  ASSUME TreeInv, op.do = "remove", held' = held, size' = size,
         NEW x \in Node, op' = [op EXCEPT !.x = x],
         NEW pos, Ordered(Linked, pos), Heir(Linked, pos, op.y, op.z), Turned(tree, tree', Linked, pos),
         NEW black, Shrinking(tree', Linked, black, x)
  PROVE  TreeInv'
<1>1. op \in Op /\ Linked = held \ {op.y} /\ op.y \in held /\ op.z \in held
  BY DEF TreeInv, Linked
<1>2. op' \in Op /\ op'.do = "remove" /\ op'.x = x /\ op'.y = op.y /\ op'.z = op.z
  BY <1>1, RemoveAt
<1>3. Linked' = Linked
  BY <1>1, <1>2 DEF Linked
<1>4. PICK low, high : Shape(tree', Linked, pos, low, high)
  BY DEF Turned
<1>5. InOrder(tree', Linked', op', pos, low, high, black)
  BY <1>2, <1>3, <1>4 DEF InOrder
<1>6. /\ tree' \in Tree /\ held' \subseteq Data /\ size' = Cardinality(held') /\ (tree').color[Nil] = "black"
      /\ \A n \in Data \ held', s \in Side : (tree').child[n][s] = Nil
  BY <1>1 DEF TreeInv, Turned, Node
<1> QED BY <1>1, <1>2, <1>5, <1>6 DEF TreeInv

\* What holds while an insertion finds red above red.
LEMMA RedAboveIs ==
  ASSUME TreeInv, RedAbove, NEW pos, NEW low, NEW high, NEW black,
         InOrder(tree, Linked, op, pos, low, high, black)
  PROVE  /\ tree \in Tree /\ op.do = "insert" /\ Shape(tree, Linked, pos, low, high) /\ Ordered(Linked, pos)
         /\ RedBelow(tree, Linked, black, op.x, Parent(op.x), Grand, SideOf(tree, Parent(op.x)))
         /\ Grand \in Data /\ Parent(op.x) \in Data /\ op.x \in Data
<1>1. /\ tree \in Tree /\ op.do = "insert" /\ Shape(tree, Linked, pos, low, high) /\ Ordered(Linked, pos)
      /\ Growing(tree, Linked, black, op.x) /\ tree.color[Nil] = "black"
  BY DEF TreeInv, RedAbove, InOrder
<1>2. RedBelow(tree, Linked, black, op.x, Parent(op.x), Grand, SideOf(tree, Parent(op.x)))
  BY <1>1 DEF RedAbove, RedBelow, Grand, Parent
<1>3. Grand \in Linked /\ Parent(op.x) \in Linked /\ op.x \in Linked /\ Linked \subseteq Data
  BY <1>1, <1>2, GrandIsBlack DEF Shape, Seated
<1> QED BY <1>1, <1>2, <1>3

\* Case 1 of the rebalancing of std_rbtree_insert keeps the invariant.
LEMMA InvUncleIsRed == TreeInv /\ UncleIsRed => TreeInv'
<1> SUFFICES ASSUME TreeInv, UncleIsRed PROVE TreeInv'
  OBVIOUS
<1>1. RedAbove /\ held' = held /\ size' = size /\ Uncle # Nil /\ tree.color[Uncle] = "red"
  BY DEF UncleIsRed
<1>2. PICK pos, low, high, black : InOrder(tree, Linked, op, pos, low, high, black)
  BY DEF TreeInv
<1> DEFINE p == Parent(op.x)
           g == Grand
           s == SideOf(tree, p)
           w == Uncle
           black2 == [black EXCEPT ![p] = @ + 1, ![w] = @ + 1]
<1>3. /\ tree \in Tree /\ op.do = "insert" /\ Shape(tree, Linked, pos, low, high) /\ Ordered(Linked, pos)
      /\ RedBelow(tree, Linked, black, op.x, p, g, s) /\ g \in Data
  BY <1>1, <1>2, RedAboveIs
<1>4. /\ w = tree.child[g][Other(s)] /\ op' = [op EXCEPT !.x = g]
      /\ tree' = Paint(Paint(Paint(tree, p, "black"), w, "black"), g, "red")
  BY DEF UncleIsRed, Uncle
<1> HIDE DEF p, g, s, w
<1>5. /\ tree' \in Tree /\ (tree').root = tree.root /\ (tree').child = tree.child /\ (tree').parent = tree.parent
      /\ (tree').color[Nil] = "black" /\ Growing(tree', Linked, black2, g)
  <2>1. w # Nil /\ tree.color[w] = "red"
    BY <1>1 DEF w
  <2> QED BY ONLY <1>3, <1>4, <2>1, UncleTurnsBlack
<1> HIDE DEF black2
<1>6. Turned(tree, tree', Linked, pos)
  BY ONLY <1>3, <1>5, PaintTurns
<1> QED BY ONLY <1>1, <1>3, <1>4, <1>5, <1>6, TreeInv, InsertTurns

\* Case 2 of std_rbtree_insert.
LEMMA InvBringOut == TreeInv /\ BringOut => TreeInv'
<1> SUFFICES ASSUME TreeInv, BringOut PROVE TreeInv'
  OBVIOUS
<1>1. RedAbove /\ IsInner /\ held' = held /\ size' = size
  BY DEF BringOut, BlackUncle
<1>2. PICK pos, low, high, black : InOrder(tree, Linked, op, pos, low, high, black)
  BY DEF TreeInv
<1> DEFINE p == Parent(op.x)
           g == Grand
           s == SideOf(tree, p)
<1>3. /\ tree \in Tree /\ op.do = "insert" /\ Shape(tree, Linked, pos, low, high) /\ Ordered(Linked, pos)
      /\ RedBelow(tree, Linked, black, op.x, p, g, s) /\ p \in Data
  BY <1>1, <1>2, RedAboveIs
<1>4. op' = [op EXCEPT !.x = p] /\ tree' = Rotate(tree, p, s) /\ op.x = tree.child[p][Other(s)]
  BY <1>1 DEF BringOut, IsInner
<1> HIDE DEF p, g, s
<1>5. Turned(tree, tree', Linked, pos) /\ Growing(tree', Linked, black, p)
  BY ONLY <1>3, <1>4, InnerComesOut
<1> QED BY ONLY <1>1, <1>3, <1>4, <1>5, TreeInv, InsertTurns

\* Case 3 of std_rbtree_insert, with the root.
LEMMA InvUncleIsBlack == TreeInv /\ UncleIsBlack => TreeInv'
<1> SUFFICES ASSUME TreeInv, UncleIsBlack PROVE TreeInv'
  OBVIOUS
<1>1. RedAbove /\ ~IsInner /\ held' = held /\ size' = size /\ op' = op
  BY DEF UncleIsBlack, BlackUncle
<1>2. PICK pos, low, high, black : InOrder(tree, Linked, op, pos, low, high, black)
  BY DEF TreeInv
<1> DEFINE p == Parent(op.x)
           g == Grand
           s == SideOf(tree, p)
           w == Uncle
           x == op.x
           t1 == Paint(Paint(tree, p, "black"), g, "red")
<1>3. /\ tree \in Tree /\ op.do = "insert" /\ Shape(tree, Linked, pos, low, high) /\ Ordered(Linked, pos)
      /\ RedBelow(tree, Linked, black, x, p, g, s) /\ x \in Data
  BY <1>1, <1>2, RedAboveIs
<1>4. tree' = Rotate(t1, g, Other(s)) /\ x # tree.child[p][Other(s)] /\ w = tree.child[g][Other(s)]
  BY <1>1 DEF UncleIsBlack, IsInner, Uncle
<1>5. tree.color[w] = "black"
  BY DEF UncleIsBlack, BlackUncle, TreeInv
<1>6. op' = [op EXCEPT !.x = x]
  <2>1. op \in Op
    BY DEF TreeInv
  <2> QED BY <1>1, <1>3, <2>1, OpFields
<1> HIDE DEF p, g, s, w, x
<1>7. Turned(tree, tree', Linked, pos) /\ \E black2 : Growing(tree', Linked, black2, x)
  <2>1. t1 = Paint(Paint(tree, p, "black"), g, "red")
    OBVIOUS
  <2> HIDE DEF t1
  <2> QED BY ONLY <1>3, <1>4, <1>5, <2>1, OuterGoesUp
<1>8. PICK black2 : Growing(tree', Linked, black2, x)
  BY <1>7
<1> QED BY ONLY <1>1, <1>3, <1>6, <1>7, <1>8, TreeInv, InsertTurns

\* When nothing is missing and no red node is above a red one, all is in order.
LEMMA InvInsertDone == TreeInv /\ InsertDone => TreeInv'
<1> SUFFICES ASSUME TreeInv, InsertDone PROVE TreeInv'
  OBVIOUS
<1>1. op.do = "insert" /\ ~RedAbove /\ held' = held /\ size' = size /\ op' = Idle /\ tree' = Paint(tree, tree.root, "black")
  BY DEF InsertDone
<1>2. PICK pos, low, high, black : InOrder(tree, Linked, op, pos, low, high, black)
  BY DEF TreeInv
<1> DEFINE x == op.x
<1>3. /\ tree \in Tree /\ tree.color[Nil] = "black" /\ Shape(tree, Linked, pos, low, high) /\ Ordered(Linked, pos)
      /\ Growing(tree, Linked, black, x) /\ Linked = held
  BY <1>1, <1>2 DEF TreeInv, InOrder, Linked
<1>4. x # tree.root => tree.color[tree.parent[x]] # "red"
  BY <1>1 DEF RedAbove, Parent
<1> HIDE DEF x
<1>5. /\ tree' \in Tree /\ (tree').root = tree.root /\ (tree').child = tree.child /\ (tree').parent = tree.parent
      /\ (tree').color[Nil] = "black" /\ \E black2 : Settled(tree', Linked, black2)
  BY ONLY <1>1, <1>3, <1>4, RootTurnsBlack
<1>6. PICK black2 : Settled(tree', Linked, black2)
  BY <1>5
<1>7. Shape(tree', Linked, pos, low, high)
  BY ONLY <1>3, <1>5, ShapeOfLinks
<1>8. Linked' = Linked /\ op'.do = "nothing" /\ op' \in Op
  BY <1>1, <1>3 DEF Linked, Idle, Op
<1>9. InOrder(tree', Linked', op', pos, low, high, black2)
  BY <1>3, <1>6, <1>7, <1>8 DEF InOrder
<1> QED BY <1>1, <1>5, <1>8, <1>9 DEF TreeInv

\* What holds while a removal lacks a black node.
LEMMA LacksBlackIs ==
  ASSUME TreeInv, LacksBlack, NEW pos, NEW low, NEW high, NEW black,
         InOrder(tree, Linked, op, pos, low, high, black)
  PROVE  /\ tree \in Tree /\ op.do = "remove" /\ Shape(tree, Linked, pos, low, high) /\ Ordered(Linked, pos)
         /\ Heir(Linked, pos, op.y, op.z)
         /\ Lacking(tree, Linked, black, op.x, Parent(op.x), Near, Sibling)
         /\ op.x \in Node /\ Parent(op.x) \in Node /\ Sibling # Nil
<1>1. /\ tree \in Tree /\ op.do = "remove" /\ Shape(tree, Linked, pos, low, high) /\ Ordered(Linked, pos)
      /\ Heir(Linked, pos, op.y, op.z) /\ Shrinking(tree, Linked, black, op.x) /\ tree.color[Nil] = "black"
  BY DEF TreeInv, LacksBlack, InOrder
<1>2. Lacking(tree, Linked, black, op.x, Parent(op.x), Near, Sibling)
  BY <1>1 DEF LacksBlack, Lacking, Near, Sibling, Parent
<1>3. Family(tree, Linked, op.x, Parent(op.x), Near, Sibling)
  BY ONLY <1>1, <1>2, FamilyIs
<1> QED BY <1>1, <1>2, <1>3 DEF Family

\* Case 1 of the rebalancing of std_rbtree_remove.
LEMMA InvSiblingIsRed == TreeInv /\ SiblingIsRed => TreeInv'
<1> SUFFICES ASSUME TreeInv, SiblingIsRed PROVE TreeInv'
  OBVIOUS
<1>1. LacksBlack /\ held' = held /\ size' = size /\ op' = op
  BY DEF SiblingIsRed
<1>2. PICK pos, low, high, black : InOrder(tree, Linked, op, pos, low, high, black)
  BY DEF TreeInv
<1> DEFINE p == Parent(op.x)
           s == Near
           w == Sibling
           x == op.x
           t1 == Paint(Paint(tree, w, "black"), p, "red")
<1>3. /\ tree \in Tree /\ op.do = "remove" /\ Shape(tree, Linked, pos, low, high) /\ Ordered(Linked, pos)
      /\ Heir(Linked, pos, op.y, op.z) /\ Lacking(tree, Linked, black, x, p, s, w) /\ x \in Node
  BY <1>1, <1>2, LacksBlackIs
<1>4. tree' = Rotate(t1, p, s)
  BY DEF SiblingIsRed
<1>5. op' = [op EXCEPT !.x = x]
  <2>1. op \in Op
    BY DEF TreeInv
  <2> QED BY <1>1, <1>3, <2>1, OpFields
<1>6. tree.color[w] = "red"
  <2>1. w \in Node
    <3>1. Family(tree, Linked, x, p, s, w)
      BY ONLY <1>3, FamilyIs
    <3> QED BY <3>1 DEF Family
  <2> QED BY <1>3, <2>1 DEF SiblingIsRed, IsBlack, Tree
<1> HIDE DEF p, s, w, x
<1>7. Turned(tree, tree', Linked, pos) /\ \E black2 : Shrinking(tree', Linked, black2, x)
  <2>1. t1 = Paint(Paint(tree, w, "black"), p, "red")
    OBVIOUS
  <2> HIDE DEF t1
  <2> QED BY ONLY <1>3, <1>4, <1>6, <2>1, RedSiblingGoesUp
<1>8. PICK black2 : Shrinking(tree', Linked, black2, x)
  BY <1>7
<1> QED BY ONLY <1>1, <1>3, <1>5, <1>7, <1>8, TreeInv, RemoveTurns

\* Case 2 of std_rbtree_remove.
LEMMA InvBlackNephews == TreeInv /\ BlackNephews => TreeInv'
<1> SUFFICES ASSUME TreeInv, BlackNephews PROVE TreeInv'
  OBVIOUS
<1>1. LacksBlack /\ held' = held /\ size' = size
  BY DEF BlackNephews, BlackSibling
<1>2. PICK pos, low, high, black : InOrder(tree, Linked, op, pos, low, high, black)
  BY DEF TreeInv
<1> DEFINE p == Parent(op.x)
           s == Near
           w == Sibling
           x == op.x
<1>3. /\ tree \in Tree /\ op.do = "remove" /\ Shape(tree, Linked, pos, low, high) /\ Ordered(Linked, pos)
      /\ Heir(Linked, pos, op.y, op.z) /\ Lacking(tree, Linked, black, x, p, s, w) /\ p \in Node
  BY <1>1, <1>2, LacksBlackIs
<1>4. /\ tree' = Paint(tree, w, "red") /\ op' = [op EXCEPT !.x = p]
      /\ tree.color[w] = "black" /\ \A d \in Side : tree.color[tree.child[w][d]] = "black"
  BY DEF BlackNephews, BlackSibling, IsBlack, Nephew
<1> HIDE DEF p, s, w, x
<1>5. /\ tree' \in Tree /\ (tree').root = tree.root /\ (tree').child = tree.child /\ (tree').parent = tree.parent
      /\ (tree').color[Nil] = "black" /\ \E black2 : Shrinking(tree', Linked, black2, p)
  BY ONLY <1>3, <1>4, SiblingTurnsRed
<1>6. Turned(tree, tree', Linked, pos)
  BY ONLY <1>3, <1>5, PaintTurns
<1>7. PICK black2 : Shrinking(tree', Linked, black2, p)
  BY <1>5
<1> QED BY ONLY <1>1, <1>3, <1>4, <1>6, <1>7, TreeInv, RemoveTurns

\* Case 3 of std_rbtree_remove.
LEMMA InvNearNephewIsRed == TreeInv /\ NearNephewIsRed => TreeInv'
<1> SUFFICES ASSUME TreeInv, NearNephewIsRed PROVE TreeInv'
  OBVIOUS
<1>1. LacksBlack /\ held' = held /\ size' = size /\ op' = op
  BY DEF NearNephewIsRed, BlackSibling
<1>2. PICK pos, low, high, black : InOrder(tree, Linked, op, pos, low, high, black)
  BY DEF TreeInv
<1> DEFINE p == Parent(op.x)
           s == Near
           w == Sibling
           x == op.x
           v == tree.child[w][s]
           t1 == Paint(Paint(tree, v, "black"), w, "red")
<1>3. /\ tree \in Tree /\ op.do = "remove" /\ Shape(tree, Linked, pos, low, high) /\ Ordered(Linked, pos)
      /\ Heir(Linked, pos, op.y, op.z) /\ Lacking(tree, Linked, black, x, p, s, w) /\ x \in Node
  BY <1>1, <1>2, LacksBlackIs
<1>4. /\ tree' = Rotate(t1, w, Other(s))
      /\ tree.color[w] = "black" /\ tree.color[tree.child[w][Other(s)]] = "black" /\ tree.color[v] # "black"
  BY DEF NearNephewIsRed, BlackSibling, IsBlack, Nephew
<1>5. op' = [op EXCEPT !.x = x]
  <2>1. op \in Op
    BY DEF TreeInv
  <2> QED BY <1>1, <1>3, <2>1, OpFields
<1>6. tree.color[v] = "red"
  <2>1. v \in Node
    <3>1. Family(tree, Linked, x, p, s, w)
      BY ONLY <1>3, FamilyIs
    <3> QED BY <3>1 DEF Family
  <2> QED BY <1>3, <1>4, <2>1 DEF Tree
<1>7. v = tree.child[w][s] /\ t1 = Paint(Paint(tree, v, "black"), w, "red")
  OBVIOUS
<1> HIDE DEF p, s, w, x, v, t1
<1>8. Turned(tree, tree', Linked, pos) /\ \E black2 : Shrinking(tree', Linked, black2, x)
  BY ONLY <1>3, <1>4, <1>6, <1>7, NearNephewGoesUp
<1>9. PICK black2 : Shrinking(tree', Linked, black2, x)
  BY <1>8
<1> QED BY ONLY <1>1, <1>3, <1>5, <1>8, <1>9, TreeInv, RemoveTurns

\* Case 4 of std_rbtree_remove.
LEMMA InvFarNephewIsRed == TreeInv /\ FarNephewIsRed => TreeInv'
<1> SUFFICES ASSUME TreeInv, FarNephewIsRed PROVE TreeInv'
  OBVIOUS
<1>1. LacksBlack /\ held' = held /\ size' = size
  BY DEF FarNephewIsRed, BlackSibling
<1>2. PICK pos, low, high, black : InOrder(tree, Linked, op, pos, low, high, black)
  BY DEF TreeInv
<1> DEFINE p == Parent(op.x)
           s == Near
           w == Sibling
           x == op.x
           c == tree.child[w][Other(s)]
           t1 == Paint(Paint(Paint(tree, w, tree.color[p]), p, "black"), c, "black")
           r == (tree').root
<1>3. /\ tree \in Tree /\ op.do = "remove" /\ Shape(tree, Linked, pos, low, high) /\ Ordered(Linked, pos)
      /\ Heir(Linked, pos, op.y, op.z) /\ Lacking(tree, Linked, black, x, p, s, w)
  BY <1>1, <1>2, LacksBlackIs
<1>4. /\ tree' = Rotate(t1, p, s) /\ op' = [op EXCEPT !.x = r]
      /\ tree.color[w] = "black" /\ tree.color[c] # "black"
  BY DEF FarNephewIsRed, BlackSibling, IsBlack, Nephew
<1>5. tree.color[c] = "red"
  <2>1. c \in Node
    <3>1. Family(tree, Linked, x, p, s, w)
      BY ONLY <1>3, FamilyIs
    <3> QED BY <3>1 DEF Family
  <2> QED BY <1>3, <1>4, <2>1 DEF Tree
<1>6. c = tree.child[w][Other(s)] /\ t1 = Paint(Paint(Paint(tree, w, tree.color[p]), p, "black"), c, "black")
  OBVIOUS
<1> HIDE DEF p, s, w, x, c, t1
<1>7. Turned(tree, tree', Linked, pos) /\ \E black2 : Shrinking(tree', Linked, black2, (tree').root)
  BY ONLY <1>3, <1>4, <1>5, <1>6, FarNephewGoesUp
<1>8. PICK black2 : Shrinking(tree', Linked, black2, r)
  BY <1>7
<1>9. r \in Node
  BY <1>7 DEF Turned, Tree
<1> HIDE DEF r
<1> QED BY ONLY <1>1, <1>3, <1>4, <1>7, <1>8, <1>9, TreeInv, RemoveTurns

\* The end of the rebalancing of std_rbtree_remove.
LEMMA InvBalanceDone == TreeInv /\ BalanceDone => TreeInv'
<1> SUFFICES ASSUME TreeInv, BalanceDone PROVE TreeInv'
  OBVIOUS
<1>1. /\ op.do = "remove" /\ held' = held /\ size' = size
      /\ tree' = Paint(tree, op.x, "black") /\ op' = [op EXCEPT !.do = "splice"]
  BY DEF BalanceDone
<1>2. PICK pos, low, high, black : InOrder(tree, Linked, op, pos, low, high, black)
  BY DEF TreeInv
<1> DEFINE x == op.x
<1>3. /\ tree \in Tree /\ tree.color[Nil] = "black" /\ Shape(tree, Linked, pos, low, high) /\ Ordered(Linked, pos)
      /\ Shrinking(tree, Linked, black, x) /\ Heir(Linked, pos, op.y, op.z) /\ Linked = held \ {op.y}
      /\ op \in Op /\ op.y \in held /\ op.z \in held
  BY <1>1, <1>2 DEF TreeInv, InOrder, Linked
<1>4. x = tree.root \/ tree.color[x] # "black"
  <2>1. LacksBlack => Sibling # Nil
    BY <1>2, LacksBlackIs
  <2>2. ~LacksBlack
    BY <2>1 DEF BalanceDone
  <2> QED BY <1>1, <2>2 DEF LacksBlack
<1>5. tree' = Paint(tree, x, "black")
  BY <1>1
<1> HIDE DEF x
<1>6. /\ tree' \in Tree /\ (tree').root = tree.root /\ (tree').child = tree.child /\ (tree').parent = tree.parent
      /\ (tree').color[Nil] = "black" /\ \E black2 : Settled(tree', Linked, black2)
  BY ONLY <1>3, <1>4, <1>5, LackIsFilled
<1>7. PICK black2 : Settled(tree', Linked, black2)
  BY <1>6
<1>8. Shape(tree', Linked, pos, low, high)
  BY ONLY <1>3, <1>6, ShapeOfLinks
<1>9. op' \in Op /\ op'.do = "splice" /\ op'.y = op.y /\ op'.z = op.z
  BY <1>1, <1>3, SpliceNext
<1>10. Linked' = Linked
  BY <1>1, <1>3, <1>9 DEF Linked
<1>11. InOrder(tree', Linked', op', pos, low, high, black2)
  BY <1>3, <1>7, <1>8, <1>9, <1>10 DEF InOrder
<1> QED BY <1>1, <1>3, <1>6, <1>9, <1>11 DEF TreeInv

\* The empty tree.
LEMMA InvInit == TreeInit => TreeInv
<1> SUFFICES ASSUME TreeInit PROVE TreeInv
  OBVIOUS
<1> DEFINE none == [n \in Data |-> 0]
           black == [n \in Node |-> 0]
<1>1. /\ tree = [root |-> Nil, child |-> [n \in Node |-> [s \in Side |-> Nil]],
                 parent |-> [n \in Node |-> Nil], color |-> [n \in Node |-> "black"]]
      /\ size = 0 /\ op = Idle /\ held = {}
  BY DEF TreeInit
<1>2. Nil \in Node
  BY DEF Node
<1>3. /\ tree \in Tree /\ tree.root = Nil /\ tree.color[Nil] = "black"
      /\ \A n \in Node, s \in Side : tree.child[n][s] = Nil
  BY <1>1, <1>2 DEF Tree
<1>4. op \in Op /\ op.do = "nothing" /\ Linked = {}
  BY <1>1 DEF Op, Idle, Linked
<1>5. Shape(tree, {}, none, none, none)
  <2>1. Joined(tree, {})
    BY <1>2, <1>3 DEF Joined
  <2> QED BY <2>1 DEF Shape, Seated, Nested, Full
<1>6. Settled(tree, {}, black)
  <2>1. black \in [Node -> Nat] /\ black[Nil] = 0
    BY <1>2
  <2> QED BY <1>3, <2>1 DEF Settled, Level, RedsApart
<1> HIDE DEF none, black
<1>7. InOrder(tree, Linked, op, none, none, none, black)
  BY <1>4, <1>5, <1>6 DEF InOrder, Ordered
<1>8. size = Cardinality(held)
  BY <1>1, FS_EmptySet
<1>9. \E pos, low, high, k : InOrder(tree, Linked, op, pos, low, high, k)
  BY <1>7
<1>10. held \subseteq Data /\ \A n \in Data \ held, s \in Side : tree.child[n][s] = Nil
  BY <1>1, <1>3 DEF Node
<1> QED BY <1>3, <1>4, <1>8, <1>9, <1>10 DEF TreeInv

\* What holds when nothing is under way.
LEMMA IdleIs ==
  ASSUME TreeInv, op = Idle, NEW pos, NEW low, NEW high, NEW black,
         InOrder(tree, Linked, op, pos, low, high, black)
  PROVE  /\ Linked = held /\ tree \in Tree /\ tree.color[Nil] = "black"
         /\ Shape(tree, held, pos, low, high) /\ Ordered(held, pos) /\ OthersBare(tree, held)
         /\ Settled(tree, held, black)
<1>1. op.do = "nothing" /\ Linked = held
  BY DEF Idle, Linked
<1>2. Shape(tree, held, pos, low, high) /\ Ordered(held, pos) /\ Settled(tree, held, black)
  BY <1>1 DEF InOrder
<1>3. OthersBare(tree, held)
  <2>1. \A s \in Side : tree.child[Nil][s] = Nil
    BY <1>2 DEF Shape, Joined
  <2> QED BY <2>1 DEF OthersBare, TreeInv, Node
<1> QED BY <1>1, <1>2, <1>3 DEF TreeInv

\* A new node goes where its key fits.
LEMMA InvInsert ==
  ASSUME TreeInv, NEW d \in Data, TreeInsert(d)
  PROVE  TreeInv'
<1>1. op = Idle /\ d \notin held /\ size' = size + 1 /\ op' = [do |-> "insert", x |-> d] /\ held' = held \cup {d}
  BY DEF TreeInsert
<1>2. PICK pos, low, high, black : InOrder(tree, Linked, op, pos, low, high, black)
  BY DEF TreeInv
<1> DEFINE y == PlaceFor(d.key)
           s == IF d.key < y.key THEN "left" ELSE "right"
<1>3. /\ tree \in Tree /\ tree.color[Nil] = "black" /\ held \subseteq Data
      /\ Shape(tree, held, pos, low, high) /\ Ordered(held, pos) /\ OthersBare(tree, held)
      /\ Settled(tree, held, black)
  <2>1. held \subseteq Data
    BY DEF TreeInv
  <2> QED BY <1>1, <1>2, <2>1, IdleIs
<1>4. \A n \in Data : n.key \in Int
  BY TreeAssumption
<1>5. /\ held = {} <=> y = Nil
      /\ held # {} => /\ y \in held /\ Toward(y, d.key) = Nil
                      /\ \A m \in held : /\ pos[m] < pos[y] => m.key <= d.key
                                         /\ pos[y] < pos[m] => d.key < m.key
  <2>1. d.key \in Int
    BY <1>4
  <2> DEFINE key == d.key
             at == PlaceFor(key)
  <2>2. key \in Int /\ at = PlaceFor(key)
    BY <2>1
  <2> HIDE DEF key, at
  <2>3. /\ held = {} <=> at = Nil
        /\ held # {} => /\ at \in held /\ Toward(at, key) = Nil
                        /\ \A m \in held : /\ pos[m] < pos[at] => m.key <= key
                                           /\ pos[at] < pos[m] => key < m.key
    BY ONLY <1>3, <2>2, PlaceForFinds
  <2> QED BY <2>3 DEF key, at
<1>6. s \in Side /\ y \in held \cup {Nil} /\ y \in Node /\ y # d /\ d \in Data \ held
  BY <1>1, <1>3, <1>5, TreeAssumption DEF Side, Node
<1>7. y # Nil => tree.child[y][s] = Nil
  BY <1>5 DEF Toward
<1>8. Inserted(tree, tree', d, y, s)
  BY DEF TreeInsert, Inserted
<1>9. y # Nil => (s = "left" => d.key < y.key) /\ (s = "right" => y.key <= d.key)
  BY <1>3, <1>4, <1>5
<1> HIDE DEF y, s
<1>10. Added(tree, tree', d, y, s)
  BY ONLY <1>3, <1>6, <1>8, InsertFields, d \in Data
<1>11. (tree').color[Nil] = "black" /\ \E black2 : Growing(tree', held \cup {d}, black2, d)
  BY ONLY <1>3, <1>5, <1>6, <1>7, <1>10, AddedIsRed
<1>12. \E pos2, low2, high2 : Shape(tree', held \cup {d}, pos2, low2, high2) /\ Ordered(held \cup {d}, pos2)
  <2>1. CASE held = {}
    <3>1. y = Nil
      BY <1>5, <2>1
    <3>2. Shape(tree, {}, pos, low, high) /\ OthersBare(tree, {}) /\ Added(tree, tree', d, Nil, s)
      BY <1>3, <1>10, <2>1, <3>1
    <3>3. PICK pos2, low2, high2 : Shape(tree', {d}, pos2, low2, high2)
      BY ONLY <1>3, <1>6, <3>2, AddFirst, d \in Data
    <3>4. Ordered({d}, pos2)
      BY <1>4 DEF Ordered
    <3>5. held \cup {d} = {d}
      BY <2>1
    <3> QED BY <3>3, <3>4, <3>5
  <2>2. CASE held # {}
    <3>1. y \in held /\ y # Nil
      BY <1>5, <2>2
    <3>2. tree.child[y][s] = Nil
      BY <1>7, <3>1
    <3>3. PICK pos2, low2, high2 :
             /\ Shape(tree', held \cup {d}, pos2, low2, high2)
             /\ \A m, n \in held : pos2[m] < pos2[n] => pos[m] < pos[n]
             /\ \A m \in held : /\ pos2[m] < pos2[d] => pos[m] < pos[y] \/ (m = y /\ s = "right")
                                /\ pos2[d] < pos2[m] => pos[y] < pos[m] \/ (m = y /\ s = "left")
      <4>1. /\ tree \in Tree /\ Shape(tree, held, pos, low, high) /\ OthersBare(tree, held)
            /\ d \in Data \ held /\ y \in held /\ s \in Side
        BY <1>3, <1>6, <3>1
      <4>2. NextTo(tree', held, pos, d, y, s)
        BY ONLY <1>10, <3>2, <4>1, AddShape
      <4> QED BY ONLY <4>2 DEF NextTo
    <3>4. ASSUME NEW m \in held \cup {d}, NEW n \in held \cup {d}, pos2[m] < pos2[n] PROVE m.key <= n.key
      <4>1. CASE m \in held /\ n \in held
        BY <1>3, <3>3, <3>4, <4>1 DEF Ordered
      <4>2. CASE m \in held /\ n = d
        <5>1. m.key <= d.key
          BY <1>5, <1>9, <2>2, <3>1, <3>3, <3>4, <4>2
        <5> QED BY <4>2, <5>1
      <4>3. CASE m = d /\ n \in held
        <5>1. d.key < n.key
          BY <1>5, <1>9, <2>2, <3>1, <3>3, <3>4, <4>3
        <5> QED BY <1>3, <1>4, <4>3, <5>1
      <4>4. CASE m = d /\ n = d
        BY <1>4, <4>4
      <4> QED BY <4>1, <4>2, <4>3, <4>4
    <3>5. Ordered(held \cup {d}, pos2)
      BY <3>4 DEF Ordered
    <3> QED BY <3>3, <3>5
  <2> QED BY <2>1, <2>2
<1>13. op' \in Op /\ op'.do = "insert" /\ op'.x = d
  BY <1>1 DEF Op
<1>14. Linked' = held \cup {d}
  BY <1>1, <1>13 DEF Linked
<1>15. PICK pos2, low2, high2 : Shape(tree', held \cup {d}, pos2, low2, high2) /\ Ordered(held \cup {d}, pos2)
  BY <1>12
<1>16. PICK black2 : Growing(tree', held \cup {d}, black2, d)
  BY <1>11
<1>17. InOrder(tree', Linked', op', pos2, low2, high2, black2)
  BY <1>13, <1>14, <1>15, <1>16 DEF InOrder
<1>18. size' = Cardinality(held')
  <2>1. IsFiniteSet(held) /\ size = Cardinality(held)
    BY <1>3, TreeAssumption, FS_Subset DEF TreeInv
  <2> QED BY <1>1, <2>1, FS_AddElement
<1>19. \A n \in Data \ held', e \in Side : (tree').child[n][e] = Nil
  BY <1>1, <1>3, <1>6, <1>10 DEF Added, OthersBare, Node
<1>20. tree' \in Tree /\ held' \subseteq Data
  BY <1>1, <1>3, <1>10 DEF Added
<1> QED BY <1>11, <1>13, <1>17, <1>18, <1>19, <1>20 DEF TreeInv

\* What a removal cuts out has at most one child, and is z or comes next to it.
LEMMA InvRemove ==
  ASSUME TreeInv, NEW key, TreeRemove(key)
  PROVE  TreeInv'
<1>1. op = Idle /\ GetExact(key) # Nil /\ size' = size /\ held' = held
  BY DEF TreeRemove
<1>2. PICK pos, low, high, black : InOrder(tree, Linked, op, pos, low, high, black)
  BY DEF TreeInv
<1>3. /\ tree \in Tree /\ tree.color[Nil] = "black" /\ held \subseteq Data
      /\ Shape(tree, held, pos, low, high) /\ Ordered(held, pos) /\ OthersBare(tree, held)
      /\ Settled(tree, held, black)
  <2>1. held \subseteq Data
    BY DEF TreeInv
  <2> QED BY <1>1, <1>2, <2>1, IdleIs
<1> DEFINE z == GetExact(key)
           y == IF LeftOf(z) = Nil \/ RightOf(z) = Nil THEN z ELSE NextOf(z)
           x == IF LeftOf(y) # Nil THEN LeftOf(y) ELSE RightOf(y)
<1>4. z \in held
  <2>1. GetExact(key) \in held \cup {Nil}
    BY ONLY <1>3, GetExactFinds
  <2> QED BY <1>1, <2>1
<1>5. /\ tree' = Hang([tree EXCEPT !.parent[x] = Parent(y)], Parent(y), y, x)
      /\ op' = [do |-> IF tree.color[y] = "black" THEN "remove" ELSE "splice", x |-> x, y |-> y, z |-> z]
  BY DEF TreeRemove
<1> HIDE DEF z
<1>6. /\ y \in held
      /\ y = z => LeftOf(z) = Nil \/ RightOf(z) = Nil
      /\ y # z => pos[z] < pos[y] /\ LeftOf(y) = Nil /\ \A k \in held : pos[z] < pos[k] => pos[y] <= pos[k]
  <2>1. CASE LeftOf(z) = Nil \/ RightOf(z) = Nil
    BY <1>4, <2>1
  <2>2. CASE ~(LeftOf(z) = Nil \/ RightOf(z) = Nil)
    <3> DEFINE n == NextOf(z)
    <3>1. RightOf(z) # Nil /\ n = NextOf(z)
      BY <2>2
    <3> HIDE DEF n
    <3>2. /\ n \in held /\ pos[z] < pos[n] /\ LeftOf(n) = Nil
          /\ \A k \in held : pos[z] < pos[k] => pos[n] <= pos[k]
      BY ONLY <1>3, <1>4, <3>1, NextOfFinds
    <3>3. y = n
      BY <2>2 DEF n
    <3>4. n # z
      <4>1. pos[z] \in Int
        BY <1>3, <1>4 DEF Shape, Seated
      <4> QED BY <3>2, <4>1
    <3> QED BY <3>2, <3>3, <3>4
  <2> QED BY <2>1, <2>2
<1> HIDE DEF y
<1>7. PICK s \in Side : tree.child[y][Other(s)] = Nil /\ x = tree.child[y][s]
  <2>1. CASE LeftOf(y) # Nil
    <3>1. RightOf(y) = Nil
      BY <1>6, <2>1
    <3> QED BY <2>1, <3>1 DEF LeftOf, RightOf, Side, Other
  <2>2. CASE LeftOf(y) = Nil
    BY <2>2 DEF LeftOf, RightOf, Side, Other
  <2> QED BY <2>1, <2>2
<1> HIDE DEF x
<1>8. CutOut(tree, tree', held, y, x)
  <2>1. y \in held /\ \E e \in Side : x = tree.child[y][e]
    BY <1>6, <1>7
  <2>2. tree' = Hang([tree EXCEPT !.parent[x] = tree.parent[y]], tree.parent[y], y, x)
    BY <1>5 DEF Parent
  <2> QED BY ONLY <1>3, <2>1, <2>2, CutFields
<1>9. Shape(tree', held \ {y}, pos, low, high)
  <2>1. y \in held /\ s \in Side
    BY <1>6
  <2> QED BY ONLY <1>3, <1>7, <1>8, <2>1, CutShape
<1>10. /\ (tree').color[Nil] = "black"
       /\ tree.color[y] = "black" => Shrinking(tree', held \ {y}, black, x)
       /\ tree.color[y] # "black" => Settled(tree', held \ {y}, black)
  <2>1. y \in held /\ s \in Side
    BY <1>6
  <2> QED BY ONLY <1>3, <1>7, <1>8, <2>1, CutLacks
<1>11. Ordered(held \ {y}, pos)
  BY <1>3 DEF Ordered
<1>12. Heir(held \ {y}, pos, y, z)
  <2> SUFFICES ASSUME y # z
               PROVE  z.key <= y.key /\ \A m \in held \ {y} : pos[z] < pos[m] => y.key <= m.key
    BY DEF Heir
  <2>1. z.key <= y.key
    BY <1>3, <1>4, <1>6 DEF Ordered
  <2>2. ASSUME NEW m \in held \ {y}, pos[z] < pos[m] PROVE y.key <= m.key
    <3>1. pos[y] <= pos[m] /\ pos[y] # pos[m] /\ pos[y] \in Int /\ pos[m] \in Int
      BY <1>3, <1>6, <2>2 DEF Shape, Seated
    <3>2. pos[y] < pos[m]
      BY <3>1
    <3> QED BY <1>3, <1>6, <3>2 DEF Ordered
  <2> QED BY <2>1, <2>2
<1>13. x \in Node /\ y \in Data /\ z \in Data
  <2>1. y \in Node
    BY <1>3, <1>6 DEF Node
  <2> QED BY <1>3, <1>4, <1>6, <1>7, <2>1 DEF Tree
<1>14. /\ op' \in Op /\ op'.do \in {"remove", "splice"} /\ op'.x = x /\ op'.y = y /\ op'.z = z
       /\ op'.do = "remove" <=> tree.color[y] = "black"
  BY <1>5, <1>13 DEF Op
<1>15. Linked' = held \ {y}
  BY <1>1, <1>14 DEF Linked
<1>16. InOrder(tree', Linked', op', pos, low, high, black)
  BY <1>9, <1>10, <1>11, <1>12, <1>14, <1>15 DEF InOrder
<1>17. \A n \in Data \ held', e \in Side : (tree').child[n][e] = Nil
  BY <1>1, <1>3, <1>8 DEF CutOut, OthersBare, Node
<1>18. tree' \in Tree /\ held' \subseteq Data /\ size' = Cardinality(held')
  BY <1>1, <1>8 DEF CutOut, TreeInv
<1>19. \E pos2, low2, high2, black2 : InOrder(tree', Linked', op', pos2, low2, high2, black2)
  BY <1>16
<1> QED BY <1>1, <1>4, <1>6, <1>10, <1>14, <1>17, <1>18, <1>19 DEF TreeInv

\* What comes next takes the place of what is removed.
LEMMA InvSplice == TreeInv /\ Splice => TreeInv'
<1> SUFFICES ASSUME TreeInv, Splice PROVE TreeInv'
  OBVIOUS
<1> DEFINE z == op.z
           y == op.y
           P == held \ {y}
<1>1. op.do = "splice" /\ size' = size - 1 /\ op' = Idle /\ held' = held \ {z}
  BY DEF Splice
<1>2. PICK pos, low, high, black : InOrder(tree, Linked, op, pos, low, high, black)
  BY DEF TreeInv
<1>3. Linked = P
  BY <1>1 DEF Linked
<1>4. /\ tree \in Tree /\ tree.color[Nil] = "black" /\ held \subseteq Data /\ y \in held /\ z \in held
      /\ \A n \in Data \ held, e \in Side : tree.child[n][e] = Nil
  BY <1>1 DEF TreeInv
<1>5. /\ Shape(tree, P, pos, low, high) /\ Ordered(P, pos) /\ Settled(tree, P, black) /\ Heir(P, pos, y, z)
  BY <1>1, <1>2, <1>3 DEF InOrder
<1>6. tree' = [(IF y = z THEN tree ELSE Substitute(tree, z, y))
                 EXCEPT !.child[z] = [s \in Side |-> Nil], !.parent[z] = Nil, !.color[z] = "black"]
  BY DEF Splice
<1>7. op' \in Op /\ op'.do = "nothing" /\ Linked' = held \ {z}
  BY <1>1 DEF Op, Idle, Linked
<1>8. size' = Cardinality(held')
  <2>1. IsFiniteSet(held) /\ size = Cardinality(held)
    BY <1>4, TreeAssumption, FS_Subset DEF TreeInv
  <2> QED BY <1>1, <1>4, <2>1, FS_RemoveElement
<1>9. /\ tree' \in Tree /\ (tree').color[Nil] = "black"
      /\ \A n \in Data \ held', e \in Side : (tree').child[n][e] = Nil
      /\ \E pos2, low2, high2, black2 : /\ Shape(tree', held \ {z}, pos2, low2, high2) /\ Ordered(held \ {z}, pos2)
                                        /\ Settled(tree', held \ {z}, black2)
  <2>1. CASE y = z
    <3>1. Cleared(tree, tree', z) /\ z \in Data \ P
      BY <1>4, <1>6, <2>1 DEF Cleared
    <3>2. P = held \ {z}
      BY <2>1
    <3> HIDE DEF P, y, z
    <3>3. /\ tree' \in Tree /\ (tree').color[Nil] = "black" /\ Settled(tree', P, black)
          /\ Shape(tree', P, pos, low, high)
      BY ONLY <1>4, <1>5, <3>1, ClearedIsSettled
    <3>4. \A n \in Data \ held', e \in Side : (tree').child[n][e] = Nil
      <4>1. /\ \A e \in Side : (tree').child[z][e] = Nil
            /\ \A n \in Node : n # z => (tree').child[n] = tree.child[n]
        BY ONLY <1>4, <3>1, ClearFields
      <4> QED BY <1>1, <1>4, <4>1 DEF Node
    <3> QED BY <1>5, <3>2, <3>3, <3>4
  <2>2. CASE y # z
    <3>1. /\ z \in P /\ y \in Data \ P /\ held \ {z} = (P \ {z}) \cup {y}
          /\ tree' = [Substitute(tree, z, y) EXCEPT !.child[z] = [s \in Side |-> Nil], !.parent[z] = Nil,
                                                    !.color[z] = "black"]
          /\ P \subseteq Data
      BY <1>4, <1>6, <2>2
    <3>2. \A n \in Node \ P, d \in Side : n # y => tree.child[n][d] = Nil
      <4>1. \A s \in Side : tree.child[Nil][s] = Nil
        BY <1>5 DEF Shape, Joined
      <4> QED BY <1>4, <4>1 DEF Node
    <3>3. \A n \in Data \ held' : n = z \/ (n \in Node \ P /\ n # y /\ n \notin held)
      BY <1>1, <1>4, <2>2 DEF Node
    <3> HIDE DEF P, y, z
    <3>4. Replaced(tree, tree', P, z, y)
      BY ONLY <1>4, <1>5, <3>1, SpliceFields
    <3> DEFINE pos2 == [pos EXCEPT ![y] = pos[z]]
               low2 == [low EXCEPT ![y] = low[z]]
               high2 == [high EXCEPT ![y] = high[z]]
    <3>5. Shape(tree', (P \ {z}) \cup {y}, pos2, low2, high2)
      BY ONLY <1>4, <1>5, <3>1, <3>2, <3>4, ReplaceShape
    <3>6. (tree').color[Nil] = "black" /\ \E black2 : Settled(tree', (P \ {z}) \cup {y}, black2)
      <4>1. /\ tree \in Tree /\ tree.color[Nil] = "black" /\ Shape(tree, P, pos, low, high) /\ Settled(tree, P, black)
            /\ z \in P /\ y \in Data \ P /\ Replaced(tree, tree', P, z, y)
        BY <1>4, <1>5, <3>1, <3>4
      <4> QED BY ONLY <4>1, ReplacedIsSettled
    <3>7. Ordered((P \ {z}) \cup {y}, pos2)
      <4>1. pos2[y] = pos[z] /\ \A n \in P : pos2[n] = pos[n]
        BY <1>5, <3>1 DEF Shape, Seated
      <4>2. z.key <= y.key /\ \A m \in P : pos[z] < pos[m] => y.key <= m.key
        BY <1>5, <2>2 DEF Heir
      <4>3. \A n \in P : pos[n] \in Int /\ n.key \in Int
        BY <1>5, <3>1, TreeAssumption DEF Shape, Seated
      <4>4. y.key \in Int /\ y \notin P
        BY <3>1, TreeAssumption
      <4>5. ASSUME NEW m \in (P \ {z}) \cup {y}, NEW n \in (P \ {z}) \cup {y}, pos2[m] < pos2[n] PROVE m.key <= n.key
        <5>1. CASE m # y /\ n # y
          BY <1>5, <4>1, <4>5, <5>1 DEF Ordered
        <5>2. CASE m = y /\ n # y
          BY <4>1, <4>2, <4>5, <5>2
        <5>3. CASE m # y /\ n = y
          <6>1. m \in P /\ m.key <= z.key
            BY <1>5, <3>1, <4>1, <4>5, <5>3 DEF Ordered
          <6> QED BY <3>1, <4>2, <4>3, <4>4, <5>3, <6>1
        <5>4. CASE m = y /\ n = y
          BY <4>4, <5>4
        <5> QED BY <5>1, <5>2, <5>3, <5>4
      <4> QED BY <4>5 DEF Ordered
    <3> HIDE DEF pos2, low2, high2
    <3>8. \A n \in Data \ held', e \in Side : (tree').child[n][e] = Nil
      <4>1. /\ \A d \in Side : (tree').child[z][d] = Nil
            /\ \A n \in Node \ P : n # y => (tree').child[n] = tree.child[n]
        BY <3>4 DEF Replaced
      <4> QED BY <1>4, <3>3, <4>1
    <3>9. tree' \in Tree
      BY <3>4 DEF Replaced
    <3> QED BY <3>1, <3>5, <3>6, <3>7, <3>8, <3>9
  <2> QED BY <2>1, <2>2
<1>10. PICK pos2, low2, high2, black2 : /\ Shape(tree', held \ {z}, pos2, low2, high2) /\ Ordered(held \ {z}, pos2)
                                        /\ Settled(tree', held \ {z}, black2)
  BY <1>9
<1>11. InOrder(tree', Linked', op', pos2, low2, high2, black2)
  BY <1>7, <1>10 DEF InOrder
<1>12. held' \subseteq Data
  BY <1>1, <1>4
<1>13. \E i, j, k, l : InOrder(tree', Linked', op', i, j, k, l)
  BY <1>11
<1> HIDE DEF P, y, z
<1> QED BY <1>7, <1>8, <1>9, <1>12, <1>13 DEF TreeInv

\* Every step keeps the invariant.
LEMMA TreeInvHolds == TreeSpec => []TreeInv
<1>1. TreeInit => TreeInv
  BY InvInit
<1>2. TreeInv /\ [TreeNext]_treeVars => TreeInv'
  <2> SUFFICES ASSUME TreeInv, [TreeNext]_treeVars PROVE TreeInv'
    OBVIOUS
  <2>1. ASSUME NEW d \in Data, TreeInsert(d) PROVE TreeInv'
    BY <2>1, InvInsert
  <2>2. ASSUME NEW d \in Data, TreeRemove(d.key) PROVE TreeInv'
    BY <2>2, InvRemove
  <2>3. ASSUME Rebalance PROVE TreeInv'
    BY <2>3, InvUncleIsRed, InvBringOut, InvUncleIsBlack, InvInsertDone, InvSiblingIsRed, InvBlackNephews,
       InvNearNephewIsRed, InvFarNephewIsRed, InvBalanceDone, InvSplice DEF Rebalance
  <2>4. CASE UNCHANGED treeVars
    BY <2>4 DEF treeVars, TreeInv, Linked
  <2> QED BY <2>1, <2>2, <2>3, <2>4 DEF TreeNext
<1> QED BY <1>1, <1>2, PTL DEF TreeSpec
----------------------------------------------------------------------------
(* What follows from the invariant.                                        *)

\* What the invariant says is stronger than the types,
LEMMA InvTyped == TreeInv => TreeTypeOK
<1> SUFFICES ASSUME TreeInv PROVE TreeTypeOK
  OBVIOUS
<1>1. tree \in Tree /\ op \in Op /\ held \subseteq Data /\ size = Cardinality(held)
  BY DEF TreeInv
<1>2. IsFiniteSet(held) /\ Cardinality(held) <= Cardinality(Data)
  BY <1>1, TreeAssumption, FS_Subset
<1>3. Cardinality(held) \in Nat /\ Cardinality(Data) \in Nat
  BY <1>2, TreeAssumption, FS_CardinalityType
<1> QED BY <1>1, <1>2, <1>3 DEF TreeTypeOK

\* The tree has the nodes it should have.
LEMMA PresentIs ==
  ASSUME tree \in Tree, NEW pos, NEW low, NEW high, Shape(tree, Linked, pos, low, high)
  PROVE  Present = Linked
<1>1. tree.root \in Linked \cup {Nil}
  BY DEF Shape, Joined
<1>2. Present = Part(tree.root, Linked, pos, low, high)
  BY <1>1, BelowIs DEF Present
<1>3. CASE tree.root = Nil
  <2>1. Linked = {}
    BY <1>3 DEF Shape, Joined
  <2> QED BY <1>2, <2>1 DEF Part
<1>4. CASE tree.root # Nil
  <2>1. \A m \in Linked : At(m, tree.root, pos, low, high)
    BY DEF Shape, Full
  <2> QED BY <1>1, <1>2, <1>4, <2>1 DEF Part
<1> QED BY <1>3, <1>4

\* than that the idle tree is sorted
LEMMA InvSorted == TreeInv => TreeIsSorted
<1> SUFFICES ASSUME TreeInv PROVE TreeIsSorted
  OBVIOUS
<1>1. PICK pos, low, high, black : InOrder(tree, Linked, op, pos, low, high, black)
  BY DEF TreeInv
<1>2. tree \in Tree /\ Shape(tree, Linked, pos, low, high) /\ Ordered(Linked, pos) /\ tree.color[Nil] = "black"
  BY <1>1 DEF TreeInv, InOrder
<1>3. Present = Linked
  BY ONLY <1>2, PresentIs
<1>4. LinksAgree
  BY <1>2, <1>3 DEF LinksAgree, Parent, Shape, Joined
<1>5. ASSUME NEW n \in Present
      PROVE  /\ n \notin Below(LeftOf(n)) /\ n \notin Below(RightOf(n))
             /\ Below(LeftOf(n)) \cap Below(RightOf(n)) = {}
             /\ \A m \in Below(LeftOf(n)) : m.key <= n.key
             /\ \A m \in Below(RightOf(n)) : n.key <= m.key
  <2>1. n \in Linked /\ n # Nil
    BY <1>2, <1>3, TreeAssumption DEF Shape, Seated
  <2>2. LeftOf(n) \in Linked \cup {Nil} /\ RightOf(n) \in Linked \cup {Nil}
    BY <1>2, <2>1 DEF LeftOf, RightOf, Shape, Joined, Side
  <2> DEFINE l == Part(LeftOf(n), Linked, pos, low, high)
             r == Part(RightOf(n), Linked, pos, low, high)
  <2>3. Below(LeftOf(n)) = l /\ Below(RightOf(n)) = r
    <3>1. \A m \in Linked \cup {Nil} : Below(m) = Part(m, Linked, pos, low, high)
      BY ONLY <1>2, BelowIs
    <3> QED BY <2>2, <3>1
  <2>4. (\A m \in l : pos[m] < pos[n] /\ m \in Linked) /\ (\A m \in r : pos[n] < pos[m] /\ m \in Linked)
    <3>1. /\ \A m \in Part(tree.child[n]["left"], Linked, pos, low, high) : pos[m] < pos[n] /\ m \in Linked
          /\ \A m \in Part(tree.child[n]["right"], Linked, pos, low, high) : pos[n] < pos[m] /\ m \in Linked
      BY ONLY <1>2, <2>1, PartIs
    <3> QED BY <3>1 DEF LeftOf, RightOf
  <2> HIDE DEF l, r
  <2>5. \A m \in Linked : pos[m] \in Int
    BY <1>2 DEF Shape, Seated
  <2>6. n \notin l /\ n \notin r /\ l \cap r = {}
    BY <2>1, <2>4, <2>5
  <2>7. (\A m \in l : m.key <= n.key) /\ (\A m \in r : n.key <= m.key)
    BY <1>2, <2>1, <2>4 DEF Ordered
  <2> QED BY <2>3, <2>6, <2>7
<1> QED BY <1>3, <1>4, <1>5 DEF TreeIsSorted, TreeInv

\* and than that it is balanced.
LEMMA InvBalanced == TreeInv => Balanced
<1> SUFFICES ASSUME TreeInv PROVE Balanced
  OBVIOUS
<1>1. PICK pos, low, high, black : InOrder(tree, Linked, op, pos, low, high, black)
  BY DEF TreeInv
<1>2. tree \in Tree /\ Shape(tree, Linked, pos, low, high)
  BY <1>1 DEF TreeInv, InOrder
<1>3. Present = Linked
  BY ONLY <1>2, PresentIs
<1>4. ASSUME NEW C, RedsApart(tree, Linked, {}, C) PROVE RedPairs \subseteq C
  <2> SUFFICES ASSUME NEW n \in Linked, tree.color[n] = "red", n # tree.root, tree.color[tree.parent[n]] = "red"
               PROVE  n \in C
    BY <1>3 DEF RedPairs, Parent
  <2>1. PICK s \in Side : tree.parent[n] \in Linked /\ tree.child[tree.parent[n]][s] = n
    BY <1>2 DEF Shape, Joined
  <2>2. Clash(tree, tree.parent[n], s)
    BY <2>1 DEF Clash
  <2> QED BY <1>4, <2>1, <2>2 DEF RedsApart
<1>5. op = Idle => tree.color[tree.root] = "black" /\ RedPairs = {}
  <2> SUFFICES ASSUME op = Idle PROVE tree.color[tree.root] = "black" /\ RedPairs = {}
    OBVIOUS
  <2>1. Settled(tree, Linked, black)
    BY <1>1 DEF InOrder, Idle
  <2>2. RedPairs \subseteq {}
    BY <1>4, <2>1 DEF Settled
  <2> QED BY <2>1, <2>2 DEF Settled
<1>6. op.do = "insert" => RedPairs \subseteq {op.x}
  <2> SUFFICES ASSUME op.do = "insert" PROVE RedPairs \subseteq {op.x}
    OBVIOUS
  <2>1. RedsApart(tree, Linked, {}, {op.x})
    BY <1>1 DEF InOrder, Growing
  <2> QED BY <1>4, <2>1
<1>7. op.do \in {"nothing", "insert"} => Cardinality(Heights(tree.root)) = 1
  <2> SUFFICES ASSUME op.do \in {"nothing", "insert"} PROVE Cardinality(Heights(tree.root)) = 1
    OBVIOUS
  <2>1. PICK s : s = "left"
    OBVIOUS
  <2>2. Level(tree, Linked, black, Nil, s)
    BY <1>1, <2>1 DEF InOrder, Settled, Growing
  <2>3. \A n \in Node \ Linked, d \in Side : tree.child[n][d] = Nil
    <3>1. \A d \in Side : tree.child[Nil][d] = Nil
      BY <1>2 DEF Shape, Joined
    <3>2. Linked = held
      BY DEF Linked
    <3> QED BY <3>1, <3>2 DEF TreeInv, Node
  <2>4. \A n \in Linked \cup {Nil} : Heights(n) = {black[n]}
    BY ONLY <1>2, <2>2, <2>3, HeightsAre
  <2>5. tree.root \in Linked \cup {Nil}
    BY <1>2 DEF Shape, Joined
  <2> QED BY <2>4, <2>5, FS_Singleton
<1>8. LacksBlack => Sibling # Nil
  BY <1>1, LacksBlackIs
<1> QED BY <1>5, <1>6, <1>7, <1>8 DEF Balanced

\* The tree of std_rbtree.c is always typed: removal may write to the parent of
\* the sentinel, but no link leads anywhere but to a node or the sentinel, and
\* rbtt_numinodes never passes the number of the user's nodes.
THEOREM TreeTypeCorrect == TreeSpec => []TreeTypeOK
BY TreeInvHolds, InvTyped, PTL

\* Through every rotation, turn, cut and splice of std_rbtree.c the tree has all
\* that was inserted and not removed, once, in the order of the keys, and when
\* nothing is under way rbtt_numinodes counts them.
THEOREM TreeStaysSorted == TreeSpec => []TreeIsSorted
BY TreeInvHolds, InvSorted, PTL

\* std_rbtree_insert and std_rbtree_remove leave no red node below a red one and
\* as many black nodes on every way down, and what lacks a black node on the
\* way there always has a sibling: the loop's way out at the sentinel
\* (std_rbtree.c:229, :265) is never taken with a black node missing.
THEOREM TreeStaysBalanced == TreeSpec => []Balanced
BY TreeInvHolds, InvBalanced, PTL
----------------------------------------------------------------------------
(* The look-ups.                                                           *)

\* b has its place on side s of a.
Past(s, pos, a, b) == IF s = "right" THEN pos[a] < pos[b] ELSE pos[b] < pos[a]

\* What Shape says of the part of the tree at a child.
LEMMA ChildPart ==
  ASSUME NEW t \in Tree, NEW P, NEW pos, NEW low, NEW high, Shape(t, P, pos, low, high),
         NEW n \in P, NEW s \in Side
  PROVE  /\ t.child[n][s] # Nil =>
              /\ t.child[n][s] \in P /\ t.parent[t.child[n][s]] = n
              /\ \A m \in P : At(m, t.child[n][s], pos, low, high) => At(m, n, pos, low, high) /\ Past(s, pos, n, m)
         /\ \A m \in P : At(m, n, pos, low, high) /\ Past(s, pos, n, m) =>
              t.child[n][s] # Nil /\ At(m, t.child[n][s], pos, low, high)
         /\ At(n, n, pos, low, high)
<1>1. P \subseteq Data
  BY DEF Shape, Seated
<1>2. \A m \in P : /\ low[m] \in Int /\ high[m] \in Int /\ pos[m] \in Int
                   /\ low[m] <= pos[m] /\ pos[m] <= high[m]
  BY <1>1 DEF Shape, Seated
<1>3. ASSUME t.child[n][s] # Nil
      PROVE  /\ t.child[n][s] \in P /\ t.parent[t.child[n][s]] = n
             /\ \A m \in P : At(m, t.child[n][s], pos, low, high) => At(m, n, pos, low, high) /\ Past(s, pos, n, m)
  <2> DEFINE c == t.child[n][s]
  <2>1. c \in P /\ t.parent[c] = n
    BY <1>3 DEF Shape, Joined
  <2>2. CASE s = "left"
    <3>1. low[n] <= low[c] /\ high[c] < pos[n]
      BY <1>3, <2>2 DEF Shape, Nested
    <3> QED BY <1>2, <2>1, <2>2, <3>1 DEF At, Past
  <2>3. CASE s = "right"
    <3>1. pos[n] < low[c] /\ high[c] <= high[n]
      BY <1>3, <2>3 DEF Shape, Nested
    <3> QED BY <1>2, <2>1, <2>3, <3>1 DEF At, Past
  <2> QED BY <2>2, <2>3, <2>1 DEF Side
<1>4. ASSUME NEW m \in P, At(m, n, pos, low, high), Past(s, pos, n, m)
      PROVE  t.child[n][s] # Nil /\ At(m, t.child[n][s], pos, low, high)
  BY <1>4 DEF Shape, Full, Past, Side
<1>5. At(n, n, pos, low, high)
  BY <1>2 DEF At
<1> QED BY <1>3, <1>4, <1>5

\* What is at a node that is at another is at that one.
LEMMA AtUp ==
  ASSUME NEW t \in Tree, NEW P, NEW pos, NEW low, NEW high, Shape(t, P, pos, low, high)
  PROVE  \A c \in P : \A m, k \in P : At(m, c, pos, low, high) /\ At(k, m, pos, low, high) => At(k, c, pos, low, high)
<1> DEFINE Good == {c \in P : \A m, k \in P : At(m, c, pos, low, high) /\ At(k, m, pos, low, high) => At(k, c, pos, low, high)}
<1>1. P \subseteq Data
  BY DEF Shape, Seated
<1>2. ASSUME NEW c \in P, \A s \in Side : t.child[c][s] # Nil => t.child[c][s] \in Good
      PROVE  c \in Good
  <2> SUFFICES ASSUME NEW m \in P, NEW k \in P, At(m, c, pos, low, high), At(k, m, pos, low, high)
               PROVE  At(k, c, pos, low, high)
    OBVIOUS
  <2>1. CASE m = c
    BY <2>1
  <2>2. ASSUME NEW s \in Side, Past(s, pos, c, m) PROVE At(k, c, pos, low, high)
    <3>1. t.child[c][s] # Nil /\ At(m, t.child[c][s], pos, low, high)
      BY <2>2, ChildPart
    <3>2. t.child[c][s] \in P /\ t.child[c][s] \in Good
      BY <1>2, <3>1, ChildPart
    <3>3. At(k, t.child[c][s], pos, low, high)
      BY <3>1, <3>2
    <3> QED BY <3>1, <3>3, ChildPart
  <2>3. m = c \/ Past("left", pos, c, m) \/ Past("right", pos, c, m)
    <3>1. pos[m] \in Int /\ pos[c] \in Int /\ (pos[m] = pos[c] => m = c)
      BY <1>1 DEF Shape, Seated
    <3> QED BY <3>1 DEF Past
  <2> QED BY <2>1, <2>2, <2>3 DEF Side
<1>3. P \subseteq Good
  <2> HIDE DEF Good
  <2> QED BY <1>2, TreeInduction
<1> QED BY <1>3

\* Places are in one row, and what is at a node is together there.
LEMMA PastOrder ==
  ASSUME NEW P, NEW pos, NEW low, NEW high, Seated(P, pos, low, high), NEW s \in Side
  PROVE  /\ \A a, b \in P : Past(Other(s), pos, a, b) <=> Past(s, pos, b, a)
         /\ \A a, b \in P : ~(Past(s, pos, a, b) /\ Past(s, pos, b, a))
         /\ \A a, b \in P : a = b \/ Past(s, pos, a, b) \/ Past(s, pos, b, a)
         /\ \A a, b, c \in P : Past(s, pos, a, b) /\ Past(s, pos, b, c) => Past(s, pos, a, c)
         /\ \A a, b, c, n \in P : At(a, n, pos, low, high) /\ At(c, n, pos, low, high)
                                    /\ Past(s, pos, a, b) /\ Past(s, pos, b, c) => At(b, n, pos, low, high)
<1>1. \A m \in P : low[m] \in Int /\ high[m] \in Int /\ pos[m] \in Int
  BY DEF Seated
<1>2. \A a, b \in P : pos[a] = pos[b] => a = b
  BY DEF Seated
<1>3. CASE s = "left"
  BY <1>1, <1>2, <1>3 DEF Past, Other, At
<1>4. CASE s = "right"
  BY <1>1, <1>2, <1>4 DEF Past, Other, At
<1> QED BY <1>3, <1>4 DEF Side

\* y is the nearest to n on side s, or there is none.
Neighbour(y, n, s, P, pos) ==
  IF y = Nil THEN \A k \in P : ~Past(s, pos, n, k)
  ELSE y \in P /\ Past(s, pos, n, y) /\ \A k \in P : Past(s, pos, n, k) => ~Past(s, pos, k, y)

\* The way back from a node that has nothing on side s leads to its neighbour there.
LEMMA BackFinds ==
  ASSUME tree \in Tree, NEW P, NEW pos, NEW low, NEW high, Shape(tree, P, pos, low, high),
         NEW n \in P, NEW s \in Side, tree.child[n][s] = Nil, NEW y, y = Back(n, s)
  PROVE  Neighbour(y, n, s, P, pos)
<1> DEFINE Goes(m) == Parent(m) # Nil /\ m = tree.child[Parent(m)][s]
           nxt == [m \in Node |-> IF Goes(m) THEN Parent(m) ELSE m]
           end == [m \in Node |-> Parent(m)]
           Eq(f) == f = [m \in Node |-> IF Parent(m) # Nil /\ m = tree.child[Parent(m)][s] THEN f[Parent(m)] ELSE Parent(m)]
           Before(m) == {k \in P : Past(s, pos, k, m)}
           mu == [m \in Node |-> IF m \in P THEN Cardinality(Before(m)) ELSE IF m = Nil THEN Cardinality(P) + 2 ELSE Cardinality(P) + 1]
           S == {m \in P : /\ At(n, m, pos, low, high)
                           /\ \A k \in P : At(k, m, pos, low, high) => ~Past(s, pos, n, k)}
<1>1. P \subseteq Data /\ Nil \notin P /\ P \subseteq Node /\ Nil \in Node
  BY TreeAssumption DEF Shape, Seated, Node
<1>2. /\ \A a, b \in P : Past(Other(s), pos, a, b) <=> Past(s, pos, b, a)
      /\ \A a, b \in P : ~(Past(s, pos, a, b) /\ Past(s, pos, b, a))
      /\ \A a, b \in P : a = b \/ Past(s, pos, a, b) \/ Past(s, pos, b, a)
      /\ \A a, b, c \in P : Past(s, pos, a, b) /\ Past(s, pos, b, c) => Past(s, pos, a, c)
      /\ \A a, b, c, d \in P : At(a, d, pos, low, high) /\ At(c, d, pos, low, high)
                                 /\ Past(s, pos, a, b) /\ Past(s, pos, b, c) => At(b, d, pos, low, high)
  BY PastOrder DEF Shape
<1>3. \A m \in Node : Parent(m) \in Node
  BY DEF Tree, Parent
<1>4. nxt \in [Node -> Node] /\ \A m \in Node : nxt[m] = IF Goes(m) THEN Parent(m) ELSE m
  BY <1>3
<1>5. \A m \in Node : m \notin P /\ m # Nil => ~Goes(m)
  BY <1>3 DEF Shape, Joined
<1>6. \A m \in P : Goes(m) => Parent(m) \in P /\ Parent(m) # m /\ Past(s, pos, Parent(m), m)
  <2> SUFFICES ASSUME NEW m \in P, Goes(m) PROVE Parent(m) \in P /\ Parent(m) # m /\ Past(s, pos, Parent(m), m)
    OBVIOUS
  <2>1. m # tree.root
    BY DEF Shape, Joined, Parent
  <2>2. Parent(m) \in P
    BY <2>1 DEF Shape, Joined, Parent
  <2>3. m # Nil /\ At(m, m, pos, low, high)
    BY <1>1, ChildPart
  <2>4. Past(s, pos, Parent(m), m)
    BY <2>2, <2>3, ChildPart
  <2> QED BY <1>2, <2>2, <2>4
<1>7. \A m \in Node : Goes(m) => Parent(m) # m
  BY <1>5, <1>6
<1>8. IsFiniteSet(P) /\ Cardinality(P) \in Nat
  BY <1>1, TreeAssumption, FS_Subset, FS_CardinalityType
<1>9. \A m \in P : Before(m) \subseteq P /\ IsFiniteSet(Before(m)) /\ Cardinality(Before(m)) \in Nat
                   /\ Cardinality(Before(m)) <= Cardinality(P)
  <2> SUFFICES ASSUME NEW m \in P
               PROVE  /\ Before(m) \subseteq P /\ IsFiniteSet(Before(m)) /\ Cardinality(Before(m)) \in Nat
                      /\ Cardinality(Before(m)) <= Cardinality(P)
    OBVIOUS
  <2>1. Before(m) \subseteq P
    OBVIOUS
  <2> HIDE DEF Before
  <2> QED BY <1>8, <2>1, FS_Subset, FS_CardinalityType
<1>10. /\ \A m \in P : mu[m] = Cardinality(Before(m))
       /\ \A m \in Node \ P : mu[m] = IF m = Nil THEN Cardinality(P) + 2 ELSE Cardinality(P) + 1
       /\ mu = [m \in Node |-> mu[m]]
  BY <1>1
<1> HIDE DEF nxt, mu, Before
<1>11. Falls(mu, Node, nxt)
  <2>1. ASSUME NEW m \in Node PROVE mu[m] \in Nat
    <3>1. CASE m \in P
      BY <1>9, <1>10, <3>1
    <3>2. CASE m = Nil
      BY <1>1, <1>8, <1>10, <3>2
    <3>3. CASE m \notin P /\ m # Nil
      BY <1>8, <1>10, <3>3
    <3> QED BY <3>1, <3>2, <3>3
  <2>2. ASSUME NEW m \in Node, nxt[m] # m PROVE mu[nxt[m]] < mu[m]
    <3>1. Goes(m) /\ nxt[m] = Parent(m)
      BY <1>4, <2>2
    <3>2. CASE m \in P
      <4> DEFINE p == Parent(m)
      <4>1. p \in P /\ Past(s, pos, p, m)
        BY <1>6, <3>1, <3>2
      <4>2. Before(p) \subseteq Before(m) /\ p \in Before(m) /\ p \notin Before(p)
        BY <1>2, <3>2, <4>1 DEF Before
      <4>3. Before(p) # Before(m)
        BY <4>2
      <4>4. Cardinality(Before(p)) < Cardinality(Before(m))
        <5>1. /\ IsFiniteSet(Before(p)) /\ IsFiniteSet(Before(m))
              /\ Cardinality(Before(p)) \in Nat /\ Cardinality(Before(m)) \in Nat
          BY <1>9, <3>2, <4>1
        <5>2. Cardinality(Before(p)) <= Cardinality(Before(m))
          BY <4>2, <5>1, FS_Subset
        <5>3. Cardinality(Before(p)) # Cardinality(Before(m))
          BY <4>2, <4>3, <5>1, FS_Subset
        <5> QED BY <5>1, <5>2, <5>3
      <4> QED BY <1>10, <3>1, <3>2, <4>1, <4>4
    <3>3. CASE m = Nil
      <4>1. Parent(Nil) # Nil /\ Parent(Nil) \in Node
        BY <1>3, <3>1, <3>3
      <4>2. mu[Nil] = Cardinality(P) + 2 /\ nxt[m] = Parent(Nil)
        BY <1>1, <1>10, <3>1, <3>3
      <4>3. mu[Parent(Nil)] <= Cardinality(P) + 1
        <5>1. CASE Parent(Nil) \in P
          BY <1>8, <1>9, <1>10, <5>1
        <5>2. CASE Parent(Nil) \notin P
          BY <1>8, <1>10, <4>1, <5>2
        <5> QED BY <5>1, <5>2
      <4>4. mu[Parent(Nil)] \in Nat
        BY <2>1, <4>1
      <4> QED BY <1>8, <3>3, <4>2, <4>3, <4>4
    <3> QED BY <1>5, <3>1, <3>2, <3>3
  <2> QED BY <1>10, <2>1, <2>2 DEF Falls
<1>12. \A f : Eq(f) <=> Leads(f, Node, nxt, end)
  <2> SUFFICES ASSUME NEW f PROVE Eq(f) <=> Leads(f, Node, nxt, end)
    OBVIOUS
  <2>1. \A m \in Node : (IF Parent(m) # Nil /\ m = tree.child[Parent(m)][s] THEN f[Parent(m)] ELSE Parent(m))
                          = IF nxt[m] # m THEN f[nxt[m]] ELSE end[m]
    BY <1>4, <1>7
  <2>2. [m \in Node |-> IF Parent(m) # Nil /\ m = tree.child[Parent(m)][s] THEN f[Parent(m)] ELSE Parent(m)]
          = [m \in Node |-> IF nxt[m] # m THEN f[nxt[m]] ELSE end[m]]
    BY ONLY <2>1
  <2> QED BY <2>2 DEF Leads
<1>13. \E g : Leads(g, Node, nxt, end)
  <2> HIDE DEF end
  <2> QED BY <1>4, LeadsExists
<1> DEFINE back == CHOOSE f : Eq(f)
<1>14. Leads(back, Node, nxt, end)
  <2> HIDE DEF Eq, end
  <2> QED BY <1>12, <1>13
<1>15. y = back[n]
  BY DEF Back
<1>16. \A m \in Node : end[m] = Parent(m)
  OBVIOUS
<1> HIDE DEF back, Eq, end
<1>17. n \in S
  <2>1. At(n, n, pos, low, high)
    BY ChildPart
  <2>2. ASSUME NEW k \in P, At(k, n, pos, low, high), Past(s, pos, n, k) PROVE FALSE
    BY <2>2, ChildPart
  <2> QED BY <2>1, <2>2
<1>18. ASSUME NEW m \in S, Goes(m) PROVE Parent(m) \in S
  <2> DEFINE p == Parent(m)
  <2>1. p \in P /\ p # Nil /\ m = tree.child[p][s] /\ m # Nil /\ m \in P
    BY <1>1, <1>6, <1>18
  <2>2. At(n, p, pos, low, high) /\ Past(s, pos, p, n)
    BY <2>1, ChildPart
  <2>3. ASSUME NEW k \in P, At(k, p, pos, low, high), Past(s, pos, n, k) PROVE FALSE
    <3>1. Past(s, pos, p, k)
      BY <1>2, <2>1, <2>2, <2>3
    <3>2. At(k, m, pos, low, high)
      BY <2>1, <2>3, <3>1, ChildPart
    <3> QED BY <2>3, <3>2
  <2> QED BY <2>1, <2>2, <2>3
<1>19. StaysIn(S, Node, nxt)
  <2>1. S \subseteq Node
    BY <1>1
  <2> HIDE DEF S, Goes
  <2>2. ASSUME NEW m \in S PROVE nxt[m] \in S
    BY <1>4, <1>18, <2>1
  <2> QED BY <2>1, <2>2 DEF StaysIn
<1>20. PICK e \in S : nxt[e] = e /\ y = end[e]
  <2> HIDE DEF S
  <2> QED BY <1>4, <1>11, <1>14, <1>15, <1>17, <1>19, LeadsEnds
<1>21. e \in P /\ e # Nil /\ y = Parent(e) /\ ~Goes(e)
  <2>1. e \in P /\ e \in Node
    BY <1>1
  <2> QED BY <1>1, <1>4, <1>7, <1>16, <1>20, <2>1
<1>22. CASE e = tree.root
  <2>1. y = Nil
    BY <1>21, <1>22 DEF Shape, Joined, Parent
  <2>2. \A k \in P : At(k, e, pos, low, high)
    BY <1>22 DEF Shape, Full
  <2> QED BY <2>1, <2>2 DEF Neighbour
<1>23. CASE e # tree.root
  <2>1. y \in P /\ \E d \in Side : tree.child[y][d] = e
    BY <1>21, <1>23 DEF Shape, Joined, Parent
  <2>2. y # Nil /\ tree.child[y][s] # e
    BY <1>1, <1>21, <2>1
  <2>3. tree.child[y][Other(s)] = e /\ Other(s) \in Side
    BY <2>1, <2>2, Sides
  <2>4. At(n, e, pos, low, high)
    OBVIOUS
  <2>5. At(n, y, pos, low, high) /\ Past(Other(s), pos, y, n) /\ At(y, y, pos, low, high)
    BY <1>21, <2>1, <2>3, <2>4, ChildPart
  <2>6. Past(s, pos, n, y)
    BY <1>2, <2>1, <2>5
  <2>7. ASSUME NEW k \in P, Past(s, pos, n, k), Past(s, pos, k, y) PROVE FALSE
    <3>1. At(k, y, pos, low, high)
      BY <1>2, <2>1, <2>5, <2>7
    <3>2. Past(Other(s), pos, y, k)
      BY <1>2, <2>1, <2>7
    <3>3. At(k, e, pos, low, high)
      BY <2>1, <2>3, <3>1, <3>2, ChildPart
    <3> QED BY <2>7, <3>3
  <2> QED BY <2>1, <2>2, <2>6, <2>7 DEF Neighbour
<1> QED BY <1>22, <1>23

\* The last node on side s below c is the farthest there, and has nothing on that side.
LEMMA OutermostFinds ==
  ASSUME tree \in Tree, NEW P, NEW pos, NEW low, NEW high, Shape(tree, P, pos, low, high), OthersBare(tree, P),
         NEW s \in Side, NEW c \in P \cup {Nil}, NEW y, y = Outermost(c, s)
  PROVE  IF c = Nil THEN y = Nil
         ELSE /\ y \in P /\ At(y, c, pos, low, high)
              /\ \A k \in P : At(k, c, pos, low, high) => ~Past(s, pos, y, k)
<1> DEFINE nxt == [n \in Node |-> IF tree.child[n][s] = Nil THEN n ELSE tree.child[n][s]]
           Eq(f) == f = [n \in Node |-> IF tree.child[n][s] = Nil THEN n ELSE f[tree.child[n][s]]]
           S == {m \in P : /\ At(m, c, pos, low, high)
                           /\ \A k \in P : At(k, c, pos, low, high) /\ Past(s, pos, m, k) => At(k, m, pos, low, high)}
<1>1. P \subseteq Data /\ Nil \notin P /\ P \subseteq Node /\ Nil \in Node
  BY TreeAssumption DEF Shape, Seated, Node
<1>2. /\ \A a, b, d \in P : Past(s, pos, a, b) /\ Past(s, pos, b, d) => Past(s, pos, a, d)
  BY PastOrder DEF Shape
<1>3. \A n \in Node : tree.child[n][s] \in Node
  BY DEF Tree
<1>4. nxt \in [Node -> Node] /\ \A n \in Node : nxt[n] = IF tree.child[n][s] = Nil THEN n ELSE tree.child[n][s]
  BY <1>3
<1>5. \A n \in Node : tree.child[n][s] # Nil => tree.child[n][s] # n
  <2> SUFFICES ASSUME NEW n \in Node, tree.child[n][s] # Nil PROVE tree.child[n][s] # n
    OBVIOUS
  <2>1. CASE n \in P
    BY <2>1, Apart
  <2>2. CASE n \notin P
    BY <2>2 DEF OthersBare
  <2> QED BY <2>1, <2>2
<1> HIDE DEF nxt
<1>6. GoesDown(tree, nxt)
  BY <1>4 DEF GoesDown
<1>7. \A f : Eq(f) <=> Follows(f, Node, nxt)
  <2> SUFFICES ASSUME NEW f PROVE Eq(f) <=> Follows(f, Node, nxt)
    OBVIOUS
  <2>1. \A n \in Node : (IF tree.child[n][s] = Nil THEN n ELSE f[tree.child[n][s]]) = IF nxt[n] # n THEN f[nxt[n]] ELSE n
    BY <1>4, <1>5
  <2>2. [n \in Node |-> IF tree.child[n][s] = Nil THEN n ELSE f[tree.child[n][s]]]
          = [n \in Node |-> IF nxt[n] # n THEN f[nxt[n]] ELSE n]
    BY ONLY <2>1
  <2> QED BY <2>2 DEF Follows
<1>8. PICK g : Follows(g, Node, nxt)
  BY <1>4, FollowExists
<1> DEFINE last == CHOOSE f : Eq(f)
<1>9. Follows(last, Node, nxt)
  <2> HIDE DEF Eq
  <2> QED BY <1>7, <1>8
<1>10. y = last[c]
  BY DEF Outermost
<1> HIDE DEF last, Eq
<1>11. CASE c = Nil
  <2>1. nxt[Nil] = Nil
    BY <1>1, <1>4 DEF Shape, Joined
  <2>2. last[Nil] = Nil
    BY <1>1, <1>9, <2>1 DEF Follows
  <2> QED BY <1>10, <1>11, <2>2
<1>12. CASE c # Nil
  <2>1. c \in S
    BY <1>12, ChildPart
  <2>2. StaysIn(S, Node, nxt)
    <3> SUFFICES ASSUME NEW m \in S, tree.child[m][s] # Nil PROVE tree.child[m][s] \in S
      <4>1. S \subseteq Node
        BY <1>1
      <4>2. \A m \in S : nxt[m] = m \/ (tree.child[m][s] # Nil /\ nxt[m] = tree.child[m][s])
        <5> HIDE DEF S
        <5> QED BY <1>4, <4>1
      <4> HIDE DEF S
      <4> QED BY <4>1, <4>2 DEF StaysIn
    <3> DEFINE l == tree.child[m][s]
    <3>1. l \in P /\ At(l, l, pos, low, high) /\ \A k \in P : At(k, l, pos, low, high) => Past(s, pos, m, k)
      BY ChildPart
    <3>2. Past(s, pos, m, l) /\ At(l, m, pos, low, high)
      BY <3>1, ChildPart
    <3>3. ASSUME NEW k \in P, At(k, c, pos, low, high), Past(s, pos, l, k) PROVE At(k, l, pos, low, high)
      <4>1. Past(s, pos, m, k)
        BY <1>2, <3>1, <3>2, <3>3
      <4> QED BY <3>3, <4>1, ChildPart
    <3>4. At(l, c, pos, low, high)
      <4>1. At(l, m, pos, low, high) /\ m \in P /\ At(m, c, pos, low, high)
        BY <3>2
      <4> QED BY <3>1, <4>1, <1>12, AtUp
    <3> QED BY <3>1, <3>3, <3>4
  <2>3. y \in S /\ nxt[y] = y
    <3> HIDE DEF S
    <3> QED BY <1>6, <1>9, <1>10, <2>1, <2>2, SearchEnds
  <2>4. y \in P /\ tree.child[y][s] = Nil
    BY <1>1, <1>4, <1>5, <2>3
  <2>5. \A k \in P : At(k, y, pos, low, high) => ~Past(s, pos, y, k)
    BY <2>4, ChildPart
  <2> QED BY <1>12, <2>3, <2>4, <2>5
<1> QED BY <1>11, <1>12

\* The next of a node is its neighbour on the right.
LEMMA NextOfIsNeighbour ==
  ASSUME tree \in Tree, NEW P, NEW pos, NEW low, NEW high, Shape(tree, P, pos, low, high), OthersBare(tree, P),
         NEW n \in P
  PROVE  Neighbour(NextOf(n), n, "right", P, pos)
<1>1. P \subseteq Data /\ Nil \notin P /\ "right" \in Side
  BY TreeAssumption DEF Shape, Seated, Side
<1>2. CASE RightOf(n) = Nil
  <2>1. NextOf(n) = Back(n, "right") /\ tree.child[n]["right"] = Nil
    BY <1>2 DEF NextOf, RightOf
  <2> QED BY ONLY tree \in Tree, Shape(tree, P, pos, low, high), n \in P, <1>1, <2>1, BackFinds
<1>3. CASE RightOf(n) # Nil
  <2>1. /\ NextOf(n) \in P /\ pos[n] < pos[NextOf(n)]
        /\ \A k \in P : pos[n] < pos[k] => pos[NextOf(n)] <= pos[k]
    BY <1>3, NextOfFinds
  <2>2. \A k \in P : pos[k] \in Int
    BY <1>1 DEF Shape, Seated
  <2>3. \A k \in P : pos[n] < pos[k] => ~(pos[k] < pos[NextOf(n)])
    BY <2>1, <2>2
  <2> QED BY <1>1, <2>1, <2>3 DEF Neighbour, Past
<1> QED BY <1>2, <1>3

\* The search for key is right to be at n: what is elsewhere has other keys.
Astray(n, key, P, pos, low, high) ==
  \A m \in P : ~At(m, n, pos, low, high) =>
    (pos[m] < pos[n] => m.key < key) /\ (pos[n] < pos[m] => key < m.key)

LEMMA TowardAstray ==
  ASSUME tree \in Tree, NEW P, NEW pos, NEW low, NEW high, Shape(tree, P, pos, low, high), Ordered(P, pos),
         NEW key \in Int, NEW n \in P, Astray(n, key, P, pos, low, high), n.key # key,
         NEW c, c = Toward(n, key), c # Nil
  PROVE  c \in P /\ Astray(c, key, P, pos, low, high)
<1>1. P \subseteq Data
  BY DEF Shape, Seated
<1>2. \A m \in P : /\ low[m] \in Int /\ high[m] \in Int /\ pos[m] \in Int /\ m.key \in Int
                   /\ low[m] <= pos[m] /\ pos[m] <= high[m]
  BY <1>1, TreeAssumption DEF Shape, Seated
<1>3. \A m, k \in P : pos[m] = pos[k] => m = k
  BY DEF Shape, Seated
<1>4. CASE key < n.key
  <2>1. c = tree.child[n]["left"] /\ "left" \in Side
    BY <1>4 DEF Toward, Side
  <2>2. c \in P /\ low[n] <= low[c] /\ high[c] < pos[n]
    BY <2>1 DEF Shape, Joined, Nested
  <2>3. \A m \in P : At(m, n, pos, low, high) /\ pos[m] < pos[n] => At(m, c, pos, low, high)
    BY <2>1 DEF Shape, Full
  <2>4. ASSUME NEW m \in P, ~At(m, c, pos, low, high), pos[m] < pos[c] PROVE m.key < key
    <3>1. pos[m] < pos[n]
      BY <1>2, <2>2, <2>4
    <3> QED BY <2>3, <2>4, <3>1 DEF Astray
  <2>5. ASSUME NEW m \in P, ~At(m, c, pos, low, high), pos[c] < pos[m] PROVE key < m.key
    <3>1. CASE pos[m] < pos[n]
      <4>1. ~At(m, n, pos, low, high)
        BY <2>3, <2>5, <3>1
      <4> QED BY <1>2, <2>2, <2>5, <3>1, <4>1 DEF At
    <3>2. CASE pos[m] = pos[n]
      BY <1>3, <1>4, <3>2
    <3>3. CASE pos[n] < pos[m]
      <4>1. n.key <= m.key
        BY <3>3 DEF Ordered
      <4> QED BY <1>2, <1>4, <4>1
    <3> QED BY <1>2, <3>1, <3>2, <3>3
  <2> QED BY <2>2, <2>4, <2>5 DEF Astray
<1>5. CASE ~(key < n.key)
  <2>1. c = tree.child[n]["right"] /\ "right" \in Side /\ n.key < key
    BY <1>2, <1>5 DEF Toward, Side
  <2>2. c \in P /\ pos[n] < low[c] /\ high[c] <= high[n]
    BY <2>1 DEF Shape, Joined, Nested
  <2>3. \A m \in P : At(m, n, pos, low, high) /\ pos[n] < pos[m] => At(m, c, pos, low, high)
    BY <2>1 DEF Shape, Full
  <2>4. ASSUME NEW m \in P, ~At(m, c, pos, low, high), pos[c] < pos[m] PROVE key < m.key
    <3>1. pos[n] < pos[m]
      BY <1>2, <2>2, <2>4
    <3> QED BY <2>3, <2>4, <3>1 DEF Astray
  <2>5. ASSUME NEW m \in P, ~At(m, c, pos, low, high), pos[m] < pos[c] PROVE m.key < key
    <3>1. CASE pos[n] < pos[m]
      <4>1. ~At(m, n, pos, low, high)
        BY <2>3, <2>5, <3>1
      <4> QED BY <1>2, <2>2, <2>5, <3>1, <4>1 DEF At
    <3>2. CASE pos[m] = pos[n]
      BY <1>3, <2>1, <3>2
    <3>3. CASE pos[m] < pos[n]
      <4>1. m.key <= n.key
        BY <3>3 DEF Ordered
      <4> QED BY <1>2, <2>1, <4>1
    <3> QED BY <1>2, <3>1, <3>2, <3>3
  <2> QED BY <2>2, <2>4, <2>5 DEF Astray
<1> QED BY <1>4, <1>5

\* Where the search cannot go on, the key falls between n and its neighbour.
LEMMA AstrayEnds ==
  ASSUME tree \in Tree, NEW P, NEW pos, NEW low, NEW high, Shape(tree, P, pos, low, high), Ordered(P, pos),
         NEW key \in Int, NEW n \in P, Astray(n, key, P, pos, low, high), n.key # key, Toward(n, key) = Nil
  PROVE  /\ n.key \in Int /\ \A m \in P : m.key \in Int /\ m.key # key
         /\ key < n.key => /\ tree.child[n]["left"] = Nil
                           /\ \A m \in P : (pos[m] < pos[n] => m.key < key) /\ (~(pos[m] < pos[n]) => key < m.key)
         /\ ~(key < n.key) => /\ tree.child[n]["right"] = Nil
                              /\ \A m \in P : (pos[n] < pos[m] => key < m.key) /\ (~(pos[n] < pos[m]) => m.key < key)
<1>1. P \subseteq Data
  BY DEF Shape, Seated
<1>2. \A m \in P : pos[m] \in Int /\ m.key \in Int
  BY <1>1, TreeAssumption DEF Shape, Seated
<1>3. \A m \in P : pos[m] = pos[n] => m = n
  BY DEF Shape, Seated
<1>4. CASE key < n.key
  <2>1. tree.child[n]["left"] = Nil
    BY <1>4 DEF Toward
  <2>2. ASSUME NEW m \in P, pos[m] < pos[n] PROVE m.key < key
    <3>1. ~At(m, n, pos, low, high)
      BY <2>1, <2>2 DEF Shape, Full
    <3> QED BY <2>2, <3>1 DEF Astray
  <2>3. ASSUME NEW m \in P, ~(pos[m] < pos[n]) PROVE key < m.key
    <3>1. CASE pos[n] < pos[m]
      <4>1. n.key <= m.key
        BY <3>1 DEF Ordered
      <4> QED BY <1>2, <1>4, <4>1
    <3>2. CASE pos[m] = pos[n]
      BY <1>3, <1>4, <3>2
    <3> QED BY <1>2, <2>3, <3>1, <3>2
  <2>4. ASSUME NEW m \in P PROVE m.key # key
    BY <1>2, <2>2, <2>3
  <2> QED BY <1>2, <1>4, <2>1, <2>2, <2>3, <2>4
<1>5. CASE ~(key < n.key)
  <2>1. tree.child[n]["right"] = Nil /\ n.key < key
    BY <1>2, <1>5 DEF Toward
  <2>2. ASSUME NEW m \in P, pos[n] < pos[m] PROVE key < m.key
    <3>1. ~At(m, n, pos, low, high)
      BY <2>1, <2>2 DEF Shape, Full
    <3> QED BY <2>2, <3>1 DEF Astray
  <2>3. ASSUME NEW m \in P, ~(pos[n] < pos[m]) PROVE m.key < key
    <3>1. CASE pos[m] < pos[n]
      <4>1. m.key <= n.key
        BY <3>1 DEF Ordered
      <4> QED BY <1>2, <2>1, <4>1
    <3>2. CASE pos[m] = pos[n]
      BY <1>3, <2>1, <3>2
    <3> QED BY <1>2, <2>3, <3>1, <3>2
  <2>4. ASSUME NEW m \in P PROVE m.key # key
    BY <1>2, <2>2, <2>3
  <2> QED BY <1>2, <1>5, <2>1, <2>2, <2>3, <2>4
<1> QED BY <1>4, <1>5

\* std_rbtree_getexact returns a node with the key if there is one.
LEMMA GetExactIs ==
  ASSUME tree \in Tree, NEW P, NEW pos, NEW low, NEW high, Shape(tree, P, pos, low, high), OthersBare(tree, P),
         Ordered(P, pos), NEW key \in Int, NEW y, y = GetExact(key)
  PROVE  IF y = Nil THEN \A m \in P : m.key # key ELSE y \in P /\ y.key = key
<1> DEFINE Stops(n) == n = Nil \/ n.key = key
           nxt == [n \in Node |-> IF Stops(n) THEN n ELSE Toward(n, key)]
           Eq(f) == f = [n \in Node |-> IF n = Nil \/ n.key = key THEN n ELSE f[Toward(n, key)]]
           S == {n \in P \cup {Nil} : IF n = Nil THEN \A m \in P : m.key # key ELSE Astray(n, key, P, pos, low, high)}
<1>1. P \subseteq Data /\ Nil \notin P /\ P \subseteq Node /\ Nil \in Node
  BY TreeAssumption DEF Shape, Seated, Node
<1>2. \A n \in Node : \E s \in Side : Toward(n, key) = tree.child[n][s]
  BY DEF Toward, Side
<1>3. \A n \in Node : Toward(n, key) \in Node
  BY <1>2 DEF Tree
<1>4. nxt \in [Node -> Node] /\ \A n \in Node : nxt[n] = IF Stops(n) THEN n ELSE Toward(n, key)
  BY <1>3
<1>5. \A n \in Node : n # Nil => Toward(n, key) # n
  <2> SUFFICES ASSUME NEW n \in Node, n # Nil PROVE Toward(n, key) # n
    OBVIOUS
  <2>1. PICK s \in Side : Toward(n, key) = tree.child[n][s]
    BY <1>2
  <2>2. CASE n \in P
    BY <2>1, <2>2, Apart
  <2>3. CASE n \notin P
    BY <2>1, <2>3 DEF OthersBare
  <2> QED BY <2>2, <2>3
<1> HIDE DEF nxt
<1>6. GoesDown(tree, nxt)
  BY <1>2, <1>4 DEF GoesDown
<1>7. \A f : Eq(f) <=> Follows(f, Node, nxt)
  <2> SUFFICES ASSUME NEW f PROVE Eq(f) <=> Follows(f, Node, nxt)
    OBVIOUS
  <2>1. \A n \in Node : (IF n = Nil \/ n.key = key THEN n ELSE f[Toward(n, key)]) = IF nxt[n] # n THEN f[nxt[n]] ELSE n
    BY <1>4, <1>5
  <2>2. [n \in Node |-> IF n = Nil \/ n.key = key THEN n ELSE f[Toward(n, key)]]
          = [n \in Node |-> IF nxt[n] # n THEN f[nxt[n]] ELSE n]
    BY ONLY <2>1
  <2> QED BY <2>2 DEF Follows
<1>8. PICK g : Follows(g, Node, nxt)
  BY <1>4, FollowExists
<1> DEFINE at == CHOOSE f : Eq(f)
<1>9. Follows(at, Node, nxt)
  <2> HIDE DEF Eq
  <2> QED BY <1>7, <1>8
<1>10. y = at[tree.root]
  BY DEF GetExact
<1> HIDE DEF at, Eq
<1>11. StaysIn(S, Node, nxt)
  <2>1. S \subseteq Node
    BY <1>1
  <2>2. ASSUME NEW n \in S PROVE nxt[n] \in S
    <3>1. CASE Stops(n)
      BY <1>4, <2>1, <3>1
    <3>2. CASE ~Stops(n)
      <4>1. n \in P /\ Astray(n, key, P, pos, low, high) /\ n.key # key /\ nxt[n] = Toward(n, key)
        BY <1>1, <1>4, <3>2
      <4>2. CASE Toward(n, key) = Nil
        <5>1. \A m \in P : m.key # key
          BY <4>1, <4>2, AstrayEnds
        <5> QED BY <4>1, <4>2, <5>1
      <4>3. CASE Toward(n, key) # Nil
        <5>1. Toward(n, key) \in P /\ Astray(Toward(n, key), key, P, pos, low, high)
          BY <4>1, <4>3, TowardAstray
        <5> QED BY <4>1, <4>3, <5>1
      <4> QED BY <4>2, <4>3
    <3> QED BY <3>1, <3>2
  <2> HIDE DEF S
  <2> QED BY <2>1, <2>2 DEF StaysIn
<1>12. tree.root \in S
  <2>1. tree.root = Nil => P = {}
    BY DEF Shape, Joined
  <2>2. tree.root # Nil => tree.root \in P /\ Astray(tree.root, key, P, pos, low, high)
    BY DEF Shape, Joined, Full, Astray
  <2> QED BY <2>1, <2>2
<1>13. y \in S /\ nxt[y] = y
  <2> HIDE DEF S
  <2> QED BY <1>6, <1>9, <1>10, <1>11, <1>12, SearchEnds
<1> QED BY <1>1, <1>4, <1>5, <1>13

\* The nearest search: the key if it is there, else the nearest on its side.
LEMMA ExactOrIs ==
  ASSUME tree \in Tree, NEW P, NEW pos, NEW low, NEW high, Shape(tree, P, pos, low, high), OthersBare(tree, P),
         Ordered(P, pos), NEW key \in Int, NEW s \in Side, NEW y, y = ExactOr(key, s)
  PROVE  IF y = Nil THEN \A m \in P : IF s = "right" THEN m.key < key ELSE key < m.key
         ELSE /\ y \in P
              /\ y.key = key \/ /\ \A m \in P : m.key # key
                                /\ IF s = "right" THEN key < y.key /\ \A m \in P : key < m.key => y.key <= m.key
                                   ELSE y.key < key /\ \A m \in P : m.key < key => m.key <= y.key
<1> DEFINE Stops(n) == n = Nil \/ n.key = key \/ Toward(n, key) = Nil
           nxt == [n \in Node |-> IF Stops(n) THEN n ELSE Toward(n, key)]
           last(n) == IF n = Nil \/ n.key = key THEN n ELSE IF key < n.key <=> s = "left" THEN Back(n, s) ELSE n
           end == [n \in Node |-> last(n)]
           Eq(f) == f = [n \in Node |->
                           IF n = Nil \/ n.key = key THEN n
                           ELSE IF Toward(n, key) # Nil THEN f[Toward(n, key)]
                           ELSE IF key < n.key <=> s = "left" THEN Back(n, s) ELSE n]
           S == {n \in P : Astray(n, key, P, pos, low, high)}
<1>1. P \subseteq Data /\ Nil \notin P /\ P \subseteq Node /\ Nil \in Node
  BY TreeAssumption DEF Shape, Seated, Node
<1>2. \A n \in Node : \E d \in Side : Toward(n, key) = tree.child[n][d]
  BY DEF Toward, Side
<1>3. \A n \in Node : Toward(n, key) \in Node
  BY <1>2 DEF Tree
<1>4. nxt \in [Node -> Node] /\ \A n \in Node : nxt[n] = IF Stops(n) THEN n ELSE Toward(n, key)
  BY <1>3
<1>5. \A n \in Node : n # Nil => Toward(n, key) # n
  <2> SUFFICES ASSUME NEW n \in Node, n # Nil PROVE Toward(n, key) # n
    OBVIOUS
  <2>1. PICK d \in Side : Toward(n, key) = tree.child[n][d]
    BY <1>2
  <2>2. CASE n \in P
    BY <2>1, <2>2, Apart
  <2>3. CASE n \notin P
    BY <2>1, <2>3 DEF OthersBare
  <2> QED BY <2>2, <2>3
<1>6. \A n \in Node : end[n] = last(n)
  OBVIOUS
<1> HIDE DEF nxt, end
<1>7. PICK mu : Falls(mu, Node, nxt)
  <2>1. GoesDown(tree, nxt)
    BY <1>2, <1>4 DEF GoesDown
  <2> QED BY <2>1, SearchFalls
<1>8. \A f : Eq(f) <=> Leads(f, Node, nxt, end)
  <2> SUFFICES ASSUME NEW f PROVE Eq(f) <=> Leads(f, Node, nxt, end)
    OBVIOUS
  <2> HIDE DEF last
  <2>1. ASSUME NEW n \in Node
        PROVE  (IF n = Nil \/ n.key = key THEN n ELSE IF Toward(n, key) # Nil THEN f[Toward(n, key)] ELSE last(n))
                 = IF nxt[n] # n THEN f[nxt[n]] ELSE end[n]
    <3>1. CASE Stops(n)
      <4>1. (n = Nil \/ n.key = key) => last(n) = n
        BY DEF last
      <4> QED BY <1>4, <1>6, <3>1, <4>1
    <3>2. CASE ~Stops(n)
      BY <1>4, <1>5, <3>2
    <3> QED BY <3>1, <3>2
  <2>2. [n \in Node |-> IF n = Nil \/ n.key = key THEN n ELSE IF Toward(n, key) # Nil THEN f[Toward(n, key)] ELSE last(n)]
          = [n \in Node |-> IF nxt[n] # n THEN f[nxt[n]] ELSE end[n]]
    BY ONLY <2>1
  <2>3. \A n \in Node :
          (IF n = Nil \/ n.key = key THEN n ELSE IF Toward(n, key) # Nil THEN f[Toward(n, key)] ELSE last(n))
            = (IF n = Nil \/ n.key = key THEN n ELSE IF Toward(n, key) # Nil THEN f[Toward(n, key)]
               ELSE IF key < n.key <=> s = "left" THEN Back(n, s) ELSE n)
    BY DEF last
  <2>4. [n \in Node |-> IF n = Nil \/ n.key = key THEN n ELSE IF Toward(n, key) # Nil THEN f[Toward(n, key)] ELSE last(n)]
          = [n \in Node |-> IF n = Nil \/ n.key = key THEN n ELSE IF Toward(n, key) # Nil THEN f[Toward(n, key)]
                            ELSE IF key < n.key <=> s = "left" THEN Back(n, s) ELSE n]
    BY ONLY <2>3
  <2> QED BY <2>2, <2>4 DEF Leads
<1>9. \E g : Leads(g, Node, nxt, end)
  BY <1>4, LeadsExists
<1> DEFINE at == CHOOSE f : Eq(f)
<1>10. Leads(at, Node, nxt, end)
  <2> HIDE DEF Eq
  <2> QED BY <1>8, <1>9
<1>11. y = at[tree.root]
  BY DEF ExactOr
<1> HIDE DEF at, Eq
<1>12. CASE tree.root = Nil
  <2>1. P = {}
    BY <1>12 DEF Shape, Joined
  <2>2. nxt[Nil] = Nil /\ end[Nil] = Nil
    BY <1>1, <1>4, <1>6
  <2>3. at[Nil] = Nil
    BY <1>1, <1>10, <2>2 DEF Leads
  <2> QED BY <1>11, <1>12, <2>1, <2>3
<1>13. CASE tree.root # Nil
  <2>1. tree.root \in S
    BY <1>13 DEF Shape, Joined, Full, Astray
  <2>2. StaysIn(S, Node, nxt)
    <3>1. S \subseteq Node
      BY <1>1
    <3>2. ASSUME NEW n \in S PROVE nxt[n] \in S
      <4>1. CASE Stops(n)
        BY <1>4, <3>1, <4>1
      <4>2. CASE ~Stops(n)
        <5>1. n \in P /\ Astray(n, key, P, pos, low, high) /\ n.key # key /\ nxt[n] = Toward(n, key)
          BY <1>1, <1>4, <4>2
        <5>2. Toward(n, key) \in P /\ Astray(Toward(n, key), key, P, pos, low, high)
          BY <4>2, <5>1, TowardAstray
        <5> QED BY <5>1, <5>2
      <4> QED BY <4>1, <4>2
    <3> HIDE DEF S
    <3> QED BY <3>1, <3>2 DEF StaysIn
  <2>3. PICK e \in S : nxt[e] = e /\ y = end[e]
    <3> HIDE DEF S
    <3> QED BY <1>4, <1>7, <1>10, <1>11, <2>1, <2>2, LeadsEnds
  <2>4. e \in P /\ e # Nil /\ Astray(e, key, P, pos, low, high) /\ Stops(e) /\ y = last(e)
    BY <1>1, <1>4, <1>5, <1>6, <2>3
  <2>5. CASE e.key = key
    BY <2>4, <2>5
  <2>6. CASE e.key # key
    <3>1. Toward(e, key) = Nil
      BY <2>4, <2>6
    <3>2. /\ e.key \in Int /\ \A m \in P : m.key \in Int /\ m.key # key
          /\ key < e.key => /\ tree.child[e]["left"] = Nil
                            /\ \A m \in P : (pos[m] < pos[e] => m.key < key) /\ (~(pos[m] < pos[e]) => key < m.key)
          /\ ~(key < e.key) => /\ tree.child[e]["right"] = Nil
                               /\ \A m \in P : (pos[e] < pos[m] => key < m.key) /\ (~(pos[e] < pos[m]) => m.key < key)
      BY <2>4, <2>6, <3>1, AstrayEnds
    <3>3. \A m \in P : pos[m] \in Int
      BY <1>1 DEF Shape, Seated
    <3>4. CASE key < e.key <=> s = "left"
      <4>1. y = Back(e, s) /\ tree.child[e][s] = Nil
        BY <2>4, <2>6, <3>2, <3>4 DEF Side
      <4>2. Neighbour(y, e, s, P, pos)
        BY <2>4, <4>1, BackFinds
      <4>3. CASE s = "right"
        <5>1. ~(key < e.key)
          BY <3>4, <4>3
        <5>2. \A m \in P : (pos[e] < pos[m] => key < m.key) /\ (~(pos[e] < pos[m]) => m.key < key)
          BY <3>2, <5>1
        <5>3. CASE y = Nil
          BY <4>2, <4>3, <5>2, <5>3 DEF Neighbour, Past
        <5>4. CASE y # Nil
          <6>1. y \in P /\ pos[e] < pos[y] /\ \A k \in P : pos[e] < pos[k] => ~(pos[k] < pos[y])
            BY <4>2, <4>3, <5>4 DEF Neighbour, Past
          <6>2. key < y.key
            BY <5>2, <6>1
          <6>3. ASSUME NEW m \in P, key < m.key PROVE y.key <= m.key
            <7>1. pos[e] < pos[m]
              BY <3>2, <5>2, <6>3
            <7>2. pos[y] < pos[m] \/ pos[y] = pos[m]
              BY <3>3, <6>1, <7>1
            <7>3. y = m => y.key <= m.key
              BY <3>2
            <7> QED BY <6>1, <7>2, <7>3 DEF Ordered, Shape, Seated
          <6> QED BY <3>2, <4>3, <5>4, <6>1, <6>2, <6>3
        <5> QED BY <5>3, <5>4
      <4>4. CASE s = "left"
        <5>1. key < e.key
          BY <3>4, <4>4
        <5>2. \A m \in P : (pos[m] < pos[e] => m.key < key) /\ (~(pos[m] < pos[e]) => key < m.key)
          BY <3>2, <5>1
        <5>3. CASE y = Nil
          BY <4>2, <4>4, <5>2, <5>3 DEF Neighbour, Past
        <5>4. CASE y # Nil
          <6>1. y \in P /\ pos[y] < pos[e] /\ \A k \in P : pos[k] < pos[e] => ~(pos[y] < pos[k])
            BY <4>2, <4>4, <5>4 DEF Neighbour, Past
          <6>2. y.key < key
            BY <5>2, <6>1
          <6>3. ASSUME NEW m \in P, m.key < key PROVE m.key <= y.key
            <7>1. pos[m] < pos[e]
              BY <3>2, <5>2, <6>3
            <7>2. pos[m] < pos[y] \/ pos[y] = pos[m]
              BY <3>3, <6>1, <7>1
            <7>3. y = m => m.key <= y.key
              BY <3>2
            <7> QED BY <6>1, <7>2, <7>3 DEF Ordered, Shape, Seated
          <6> QED BY <3>2, <4>4, <5>4, <6>1, <6>2, <6>3
        <5> QED BY <5>3, <5>4
      <4> QED BY <4>3, <4>4 DEF Side
    <3>5. CASE ~(key < e.key <=> s = "left")
      <4>1. y = e
        BY <2>4, <3>5
      <4>2. CASE s = "right"
        <5>1. key < e.key
          BY <3>5, <4>2
        <5>2. ASSUME NEW m \in P, key < m.key PROVE e.key <= m.key
          <6>1. ~(pos[m] < pos[e])
            BY <3>2, <5>1, <5>2
          <6>2. pos[e] < pos[m] \/ pos[e] = pos[m]
            BY <2>4, <3>3, <6>1
          <6>3. e = m => e.key <= m.key
            BY <3>2
          <6> QED BY <2>4, <6>2, <6>3 DEF Ordered, Shape, Seated
        <5> QED BY <2>4, <3>2, <4>1, <4>2, <5>1, <5>2
      <4>3. CASE s = "left"
        <5>1. e.key < key
          BY <2>6, <3>2, <3>5, <4>3
        <5>2. ASSUME NEW m \in P, m.key < key PROVE m.key <= e.key
          <6>1. ~(pos[e] < pos[m])
            BY <3>2, <5>1, <5>2
          <6>2. pos[m] < pos[e] \/ pos[e] = pos[m]
            BY <2>4, <3>3, <6>1
          <6>3. e = m => m.key <= e.key
            BY <3>2
          <6> QED BY <2>4, <6>2, <6>3 DEF Ordered, Shape, Seated
        <5> QED BY <2>4, <3>2, <4>1, <4>3, <5>1, <5>2
      <4> QED BY <4>2, <4>3 DEF Side
    <3> QED BY <3>4, <3>5
  <2> QED BY <2>5, <2>6
<1> QED BY <1>12, <1>13

\* In an idle tree the searches return what the keys say.
LEMMA InvSearches == TreeInv => SearchesAgree
<1> SUFFICES ASSUME TreeInv, op = Idle
             PROVE  LET keys == {d.key : d \in Present}
                    IN /\ \A k \in {d.key : d \in Data} :
                            /\ HasLowest(GetExact(k), keys \cap {k})
                            /\ HasLowest(GetExactOrNext(k), {j \in keys : j >= k})
                            /\ HasHighest(GetExactOrPrev(k), {j \in keys : j <= k})
                            /\ k \notin keys => HasLowest(GetNext(k), {j \in keys : j > k})
                       /\ HasLowest(GetFirst, keys)
  BY DEF SearchesAgree
<1> DEFINE keys == {d.key : d \in Present}
<1>1. PICK pos, low, high, black : InOrder(tree, Linked, op, pos, low, high, black)
  BY DEF TreeInv
<1>2. /\ Linked = held /\ tree \in Tree
      /\ Shape(tree, held, pos, low, high) /\ Ordered(held, pos) /\ OthersBare(tree, held)
  BY <1>1, IdleIs
<1>3. Present = held
  <2>1. Shape(tree, Linked, pos, low, high)
    BY <1>2
  <2> QED BY ONLY <1>2, <2>1, PresentIs
<1>4. held \subseteq Data /\ Nil \notin held /\ \A m \in held : m.key \in Int
  BY TreeAssumption DEF TreeInv
<1>5. \A m \in held : m.key \in keys
  BY <1>3
<1>6. \A j \in keys : j \in Int /\ \E m \in held : m.key = j
  BY <1>3, <1>4
<1> HIDE DEF keys
<1>7. ASSUME NEW k \in Int
      PROVE  /\ HasLowest(GetExact(k), keys \cap {k})
             /\ HasLowest(GetExactOrNext(k), {j \in keys : j >= k})
             /\ HasHighest(GetExactOrPrev(k), {j \in keys : j <= k})
             /\ k \notin keys => HasLowest(GetNext(k), {j \in keys : j > k})
  <2>1. HasLowest(GetExact(k), keys \cap {k})
    <3> DEFINE y == GetExact(k)
    <3>1. IF y = Nil THEN \A m \in held : m.key # k ELSE y \in held /\ y.key = k
      BY <1>2, GetExactIs
    <3> HIDE DEF y
    <3>2. CASE y = Nil
      <4>1. keys \cap {k} = {}
        BY <1>6, <3>1, <3>2
      <4> QED BY <3>2, <4>1 DEF HasLowest, y
    <3>3. CASE y # Nil
      <4>1. keys \cap {k} = {k} /\ y \in held /\ y.key = k
        BY <1>5, <3>1, <3>3
      <4>2. HasLowest(y, keys \cap {k})
        BY <1>3, <4>1 DEF HasLowest
      <4> QED BY <4>2 DEF y
    <3> QED BY <3>2, <3>3
  <2> DEFINE y == GetExactOrNext(k)
             z == GetExactOrPrev(k)
  <2>2. IF y = Nil THEN \A m \in held : m.key < k
        ELSE /\ y \in held
             /\ y.key = k \/ ((\A m \in held : m.key # k) /\ k < y.key /\ \A m \in held : k < m.key => y.key <= m.key)
    <3> DEFINE s == "right"
    <3>1. y = ExactOr(k, s) /\ s \in Side
      BY DEF GetExactOrNext, Side
    <3> HIDE DEF y, s
    <3>2. IF y = Nil THEN \A m \in held : IF s = "right" THEN m.key < k ELSE k < m.key
         ELSE /\ y \in held
              /\ y.key = k \/ /\ \A m \in held : m.key # k
                              /\ IF s = "right" THEN k < y.key /\ \A m \in held : k < m.key => y.key <= m.key
                                 ELSE y.key < k /\ \A m \in held : m.key < k => m.key <= y.key
      BY <1>2, <3>1, ExactOrIs
    <3>3. s = "right"
      BY DEF s
    <3> QED BY ONLY <3>2, <3>3
  <2>3. IF z = Nil THEN \A m \in held : k < m.key
        ELSE /\ z \in held
             /\ z.key = k \/ ((\A m \in held : m.key # k) /\ z.key < k /\ \A m \in held : m.key < k => m.key <= z.key)
    <3> DEFINE s == "left"
    <3>1. z = ExactOr(k, s) /\ s \in Side
      BY DEF GetExactOrPrev, Side
    <3> HIDE DEF z, s
    <3>2. IF z = Nil THEN \A m \in held : IF s = "right" THEN m.key < k ELSE k < m.key
         ELSE /\ z \in held
              /\ z.key = k \/ /\ \A m \in held : m.key # k
                              /\ IF s = "right" THEN k < z.key /\ \A m \in held : k < m.key => z.key <= m.key
                                 ELSE z.key < k /\ \A m \in held : m.key < k => m.key <= z.key
      BY <1>2, <3>1, ExactOrIs
    <3>3. s # "right"
      BY DEF s
    <3> QED BY ONLY <3>2, <3>3
  <2> HIDE DEF y, z
  <2>4. HasLowest(y, {j \in keys : j >= k}) /\ (k \notin keys => HasLowest(y, {j \in keys : j > k}))
    <3>1. CASE y = Nil
      <4>1. {j \in keys : j >= k} = {} /\ {j \in keys : j > k} = {}
        <5>1. \A j \in keys : ~(j >= k) /\ ~(j > k)
          BY <1>6, <2>2, <3>1
        <5> QED BY <5>1
      <4> QED BY <3>1, <4>1 DEF HasLowest
    <3>2. CASE y # Nil
      <4>1. y \in held /\ y.key \in keys /\ y.key \in Int
        BY <1>4, <1>5, <2>2, <3>2
      <4>2. y.key >= k /\ \A j \in keys : j >= k => y.key <= j
        BY <1>6, <2>2, <3>2, <4>1
      <4>3. ASSUME k \notin keys PROVE y.key > k /\ \A j \in keys : j > k => y.key <= j
        BY <1>6, <2>2, <3>2, <4>1, <4>2, <4>3
      <4>4. y.key \in {j \in keys : j >= k} /\ \A j \in {j \in keys : j >= k} : y.key <= j
        BY <4>1, <4>2
      <4>5. k \notin keys => y.key \in {j \in keys : j > k} /\ \A j \in {j \in keys : j > k} : y.key <= j
        BY <4>1, <4>3
      <4> QED BY <1>3, <4>1, <4>4, <4>5 DEF HasLowest
    <3> QED BY <3>1, <3>2
  <2>5. HasHighest(z, {j \in keys : j <= k})
    <3>1. CASE z = Nil
      <4>1. \A j \in keys : ~(j <= k)
        BY <1>6, <2>3, <3>1
      <4>2. {j \in keys : j <= k} = {}
        BY <4>1
      <4> QED BY <3>1, <4>2 DEF HasHighest
    <3>2. CASE z # Nil
      <4>1. z \in held /\ z.key \in keys /\ z.key \in Int
        BY <1>4, <1>5, <2>3, <3>2
      <4>2. z.key <= k /\ \A j \in keys : j <= k => z.key >= j
        BY <1>6, <2>3, <3>2, <4>1
      <4>3. z.key \in {j \in keys : j <= k} /\ \A j \in {j \in keys : j <= k} : z.key >= j
        BY <4>1, <4>2
      <4> QED BY <1>3, <4>1, <4>3 DEF HasHighest
    <3> QED BY <3>1, <3>2
  <2>6. k \notin keys => GetNext(k) = y
    <3> SUFFICES ASSUME k \notin keys PROVE GetNext(k) = y
      OBVIOUS
    <3>1. IF GetExact(k) = Nil THEN \A m \in held : m.key # k ELSE GetExact(k) \in held /\ GetExact(k).key = k
      BY <1>2, GetExactIs
    <3>2. GetExact(k) = Nil
      BY <1>5, <3>1
    <3> QED BY <3>2 DEF GetNext, y
  <2> QED BY <2>1, <2>4, <2>5, <2>6 DEF y, z
<1>8. HasLowest(GetFirst, keys)
  <2> DEFINE y == GetFirst
  <2>1. tree.root \in held \cup {Nil} /\ y = Outermost(tree.root, "left") /\ "left" \in Side
    BY <1>2 DEF Shape, Joined, GetFirst, Side
  <2>2. IF tree.root = Nil THEN y = Nil
        ELSE y \in held /\ \A k \in held : At(k, tree.root, pos, low, high) => ~Past("left", pos, y, k)
    <3> HIDE DEF y
    <3> QED BY ONLY <1>2, <2>1, OutermostFinds
  <2> HIDE DEF y
  <2>3. CASE tree.root = Nil
    <3>1. held = {}
      BY <1>2, <2>3 DEF Shape, Joined
    <3>2. keys = {}
      BY <1>6, <3>1
    <3> QED BY <2>2, <2>3, <3>2 DEF HasLowest, y
  <2>4. CASE tree.root # Nil
    <3>1. y \in held /\ y.key \in keys
      BY <1>5, <2>2, <2>4
    <3>2. ASSUME NEW m \in held PROVE y.key <= m.key
      <4>1. ~(pos[m] < pos[y])
        BY <1>2, <2>2, <2>4 DEF Shape, Full, Past
      <4>2. pos[m] \in Int /\ pos[y] \in Int /\ (pos[m] = pos[y] => m = y)
        BY <1>2, <1>4, <3>1 DEF Shape, Seated
      <4>3. m = y \/ pos[y] < pos[m]
        BY <4>1, <4>2
      <4>4. CASE m = y
        BY <1>4, <4>4
      <4>5. CASE pos[y] < pos[m]
        BY <1>2, <3>1, <4>5 DEF Ordered
      <4> QED BY <4>3, <4>4, <4>5
    <3>3. \A j \in keys : y.key <= j
      BY <1>6, <3>2
    <3>4. HasLowest(y, keys)
      BY <1>3, <3>1, <3>3 DEF HasLowest
    <3> QED BY <3>4 DEF y
  <2> QED BY <2>3, <2>4
<1>9. \A k \in {d.key : d \in Data} : k \in Int
  BY TreeAssumption
<1> QED BY <1>7, <1>8, <1>9 DEF keys
----------------------------------------------------------------------------
(* The walks.                                                              *)

\* The parts of the tree get smaller on the way down.
LEMMA PartShrinks ==
  ASSUME NEW t \in Tree, NEW P, NEW pos, NEW low, NEW high, Shape(t, P, pos, low, high),
         NEW n \in P, NEW s \in Side, NEW c, c = t.child[n][s]
  PROVE  /\ IsFiniteSet(P) /\ Part(n, P, pos, low, high) \subseteq P
         /\ Cardinality(P) \in Nat /\ Cardinality(Part(n, P, pos, low, high)) \in Nat
         /\ Cardinality(Part(c, P, pos, low, high)) \in Nat
         /\ Cardinality(Part(c, P, pos, low, high)) < Cardinality(Part(n, P, pos, low, high))
         /\ Cardinality(Part(n, P, pos, low, high)) <= Cardinality(P)
         /\ Part(c, P, pos, low, high) \subseteq Part(n, P, pos, low, high)
         /\ n \in Part(n, P, pos, low, high) /\ n \notin Part(c, P, pos, low, high)
<1>1. IsFiniteSet(P) /\ \A m \in P : pos[m] \in Int
  BY TreeAssumption, FS_Subset DEF Shape, Seated
<1>2. Part(n, P, pos, low, high) = {m \in P : At(m, n, pos, low, high)} /\ n \in Part(n, P, pos, low, high)
  BY ChildPart DEF Part
<1>3. Part(n, P, pos, low, high) \subseteq P /\ IsFiniteSet(Part(n, P, pos, low, high))
  BY <1>1, <1>2, FS_Subset
<1>4. Part(c, P, pos, low, high) \subseteq Part(n, P, pos, low, high) /\ n \notin Part(c, P, pos, low, high)
  <2>1. CASE s = "left"
    BY <1>1, <2>1, PartIs
  <2>2. CASE s = "right"
    BY <1>1, <2>2, PartIs
  <2> QED BY <2>1, <2>2 DEF Side
<1>5. /\ Cardinality(Part(c, P, pos, low, high)) < Cardinality(Part(n, P, pos, low, high))
      /\ Cardinality(Part(c, P, pos, low, high)) \in Nat /\ Cardinality(Part(n, P, pos, low, high)) \in Nat
  BY <1>2, <1>3, <1>4, Fewer
<1>6. Cardinality(P) \in Nat /\ Cardinality(Part(n, P, pos, low, high)) <= Cardinality(P)
  BY <1>1, <1>3, FS_Subset, FS_CardinalityType
<1> QED BY <1>1, <1>2, <1>3, <1>4, <1>5, <1>6

\* Who has an earlier place than whom.
InPlace(P, pos) == {ab \in P \X P : pos[ab[1]] < pos[ab[2]]}

LEMMA InPlaceIs ==
  ASSUME NEW P, NEW pos, NEW low, NEW high, Seated(P, pos, low, high)
  PROVE  /\ \A a, b : <<a, b>> \in InPlace(P, pos) <=> a \in P /\ b \in P /\ pos[a] < pos[b]
         /\ OneWay(InPlace(P, pos))
<1>1. \A a, b : <<a, b>> \in InPlace(P, pos) <=> a \in P /\ b \in P /\ pos[a] < pos[b]
  BY DEF InPlace
<1>2. \A m \in P : pos[m] \in Int
  BY DEF Seated
<1>3. OneWay(InPlace(P, pos))
  <2> SUFFICES ASSUME NEW a, NEW b, <<a, b>> \in InPlace(P, pos), <<b, a>> \in InPlace(P, pos) PROVE FALSE
    BY DEF OneWay
  <2>1. a \in P /\ b \in P /\ pos[a] < pos[b] /\ pos[b] < pos[a]
    BY <1>1
  <2>2. pos[a] \in Int /\ pos[b] \in Int
    BY <1>2, <2>1
  <2> QED BY ONLY <2>1, <2>2
<1> QED BY <1>1, <1>3

\* The recursive walk at a node lists the part of the tree there by place.
LEMMA RWalkLists ==
  ASSUME tree \in Tree, NEW P, NEW pos, NEW low, NEW high, Shape(tree, P, pos, low, high), OthersBare(tree, P)
  PROVE  \A n \in P \cup {Nil} : Lists(RWalk(n), Part(n, P, pos, low, high), InPlace(P, pos))
<1> DEFINE l == [m \in Node |-> LeftOf(m)]
           r == [m \in Node |-> RightOf(m)]
           Eq(f) == f = [m \in Node |-> IF m = Nil THEN << >> ELSE f[LeftOf(m)] \o <<m>> \o f[RightOf(m)]]
           card(m) == Cardinality(Part(m, P, pos, low, high))
           mu == [m \in Node |-> IF m \in P THEN card(m) + 1 ELSE IF m = Nil THEN 0 ELSE 1]
<1>1. P \subseteq Data /\ Nil \notin P /\ P \subseteq Node /\ Nil \in Node /\ IsFiniteSet(P) /\ Cardinality(P) \in Nat
  BY TreeAssumption, FS_Subset, FS_CardinalityType DEF Shape, Seated, Node
<1>2. l \in [Node -> Node] /\ r \in [Node -> Node] /\ \A m \in Node : l[m] = LeftOf(m) /\ r[m] = RightOf(m)
  BY DEF Tree, LeftOf, RightOf, Side
<1>3. \A m \in P : l[m] \in P \cup {Nil} /\ r[m] \in P \cup {Nil}
  BY <1>1, <1>2 DEF Shape, Joined, LeftOf, RightOf, Side
<1>4. \A m \in Node \ P : l[m] = Nil /\ r[m] = Nil
  BY <1>2 DEF OthersBare, LeftOf, RightOf, Side
<1>5. \A f : Eq(f) <=> Spreads(f, Node, Nil, l, r)
  <2> SUFFICES ASSUME NEW f PROVE Eq(f) <=> Spreads(f, Node, Nil, l, r)
    OBVIOUS
  <2>1. \A m \in Node : (IF m = Nil THEN << >> ELSE f[LeftOf(m)] \o <<m>> \o f[RightOf(m)])
                          = IF m = Nil THEN << >> ELSE f[l[m]] \o <<m>> \o f[r[m]]
    BY <1>2
  <2>2. [m \in Node |-> IF m = Nil THEN << >> ELSE f[LeftOf(m)] \o <<m>> \o f[RightOf(m)]]
          = [m \in Node |-> IF m = Nil THEN << >> ELSE f[l[m]] \o <<m>> \o f[r[m]]]
    BY ONLY <2>1
  <2> QED BY <2>2 DEF Spreads
<1>6. \A m \in P : card(m) \in Nat /\ card(l[m]) < card(m) /\ card(r[m]) < card(m) /\ card(m) <= Cardinality(P)
                   /\ card(l[m]) \in Nat /\ card(r[m]) \in Nat
  <2> SUFFICES ASSUME NEW m \in P
               PROVE  card(m) \in Nat /\ card(l[m]) < card(m) /\ card(r[m]) < card(m) /\ card(m) <= Cardinality(P)
                      /\ card(l[m]) \in Nat /\ card(r[m]) \in Nat
    OBVIOUS
  <2>1. l[m] = tree.child[m]["left"] /\ r[m] = tree.child[m]["right"] /\ "left" \in Side /\ "right" \in Side
    BY <1>1, <1>2 DEF LeftOf, RightOf, Side
  <2> HIDE DEF l, r
  <2> QED BY <2>1, PartShrinks
<1> HIDE DEF card, l, r
<1>7. /\ \A m \in P : mu[m] = card(m) + 1
      /\ mu[Nil] = 0 /\ \A m \in Node \ P : m # Nil => mu[m] = 1
      /\ mu \in [Node -> Nat] /\ \A m \in Node : mu[m] <= Cardinality(P) + 1
  BY <1>1, <1>6
<1> HIDE DEF mu
<1>8. \A m \in Node : m # Nil => mu[l[m]] < mu[m] /\ mu[r[m]] < mu[m]
  <2> SUFFICES ASSUME NEW m \in Node, m # Nil PROVE mu[l[m]] < mu[m] /\ mu[r[m]] < mu[m]
    OBVIOUS
  <2>1. CASE m \notin P
    BY <1>4, <1>7, <2>1
  <2>2. CASE m \in P
    BY <1>3, <1>6, <1>7, <2>2
  <2> QED BY <2>1, <2>2
<1>9. \E f : Eq(f)
  <2>1. Cardinality(P) + 1 \in Nat
    BY <1>1
  <2>2. \E f : Spreads(f, Node, Nil, l, r)
    BY ONLY <1>2, <1>7, <1>8, <2>1, SpreadsExists
  <2> HIDE DEF Eq
  <2> QED BY <1>5, <2>2
<1> DEFINE f == CHOOSE g : Eq(g)
<1>10. Eq(f)
  <2> HIDE DEF Eq
  <2> QED BY <1>9
<1>11. \A n \in Node : RWalk(n) = f[n]
  BY DEF RWalk
<1> HIDE DEF f
<1>12. \A m \in Node : f[m] = IF m = Nil THEN << >> ELSE f[l[m]] \o <<m>> \o f[r[m]]
  BY <1>2, <1>10
<1> HIDE DEF Eq
<1> DEFINE L == InPlace(P, pos)
           part(m) == Part(m, P, pos, low, high)
           Fine(m) == Lists(f[m], part(m), L)
           Good == {m \in P : Fine(m)}
<1>13. Fine(Nil)
  <2>1. f[Nil] = << >> /\ part(Nil) = {}
    BY <1>1, <1>12 DEF Part
  <2> HIDE DEF L, part
  <2> QED BY <2>1, ListsNone
<1>14. ASSUME NEW m \in P, \A s \in Side : tree.child[m][s] # Nil => tree.child[m][s] \in Good PROVE m \in Good
  <2>1. Fine(l[m]) /\ Fine(r[m])
    <3>1. l[m] = tree.child[m]["left"] /\ r[m] = tree.child[m]["right"] /\ "left" \in Side /\ "right" \in Side
      BY <1>1, <1>2 DEF LeftOf, RightOf, Side
    <3> HIDE DEF Fine
    <3> QED BY <1>13, <1>14, <3>1
  <2>2. /\ part(m) = {m} \cup part(l[m]) \cup part(r[m])
        /\ \A k \in part(l[m]) : pos[k] < pos[m] /\ k \in P
        /\ \A k \in part(r[m]) : pos[m] < pos[k] /\ k \in P
    <3>1. l[m] = tree.child[m]["left"] /\ r[m] = tree.child[m]["right"]
      BY <1>1, <1>2 DEF LeftOf, RightOf
    <3> QED BY <3>1, PartIs
  <2>3. \A k \in P : pos[k] \in Int
    BY DEF Shape, Seated
  <2>4. \A a, b : <<a, b>> \in L <=> a \in P /\ b \in P /\ pos[a] < pos[b]
    BY InPlaceIs DEF Shape
  <2>5. f[m] = f[l[m]] \o <<m>> \o f[r[m]]
    BY <1>1, <1>12
  <2> HIDE DEF L, part
  <2>6. Lists(<<m>>, {m}, L)
    BY ListsOne
  <2>7. Lists(f[l[m]] \o <<m>>, part(l[m]) \cup {m}, L)
    <3>1. \A a \in part(l[m]), b \in {m} : <<a, b>> \in L
      BY <2>2, <2>4
    <3> QED BY <2>1, <2>6, <3>1, ListsJoin
  <2>8. Lists(f[l[m]] \o <<m>> \o f[r[m]], (part(l[m]) \cup {m}) \cup part(r[m]), L)
    <3>1. ASSUME NEW a \in part(l[m]) \cup {m}, NEW b \in part(r[m]) PROVE <<a, b>> \in L
      <4>1. a \in P /\ b \in P /\ (pos[a] < pos[m] \/ a = m) /\ pos[m] < pos[b]
        BY <2>2
      <4>2. pos[a] \in Int /\ pos[b] \in Int /\ pos[m] \in Int
        BY <2>3, <4>1
      <4>3. pos[a] < pos[b]
        BY ONLY <4>1, <4>2
      <4> QED BY <2>4, <4>1, <4>3
    <3> QED BY <2>1, <2>7, <3>1, ListsJoin
  <2>9. (part(l[m]) \cup {m}) \cup part(r[m]) = part(m)
    BY <2>2
  <2> QED BY <2>5, <2>8, <2>9
<1>15. P \subseteq Good
  <2> HIDE DEF Good
  <2> QED BY <1>14, TreeInduction
<1> QED BY <1>1, <1>11, <1>13, <1>15

\* A child is below what its parent is below, but for itself.
LEMMA ParentAt ==
  ASSUME NEW t \in Tree, NEW P, NEW pos, NEW low, NEW high, Shape(t, P, pos, low, high),
         NEW p \in P, NEW s \in Side, NEW c, c = t.child[p][s], c # Nil
  PROVE  /\ \A m \in P : m # c => (At(c, m, pos, low, high) <=> At(p, m, pos, low, high))
         /\ At(c, p, pos, low, high) /\ ~At(p, c, pos, low, high)
<1>1. /\ c \in P /\ t.parent[c] = p /\ At(c, c, pos, low, high) /\ At(p, p, pos, low, high)
      /\ \A m \in P : At(m, c, pos, low, high) => At(m, p, pos, low, high) /\ Past(s, pos, p, m)
  BY ChildPart
<1>2. \A a, b \in P : ~(Past(s, pos, a, b) /\ Past(s, pos, b, a))
  BY PastOrder DEF Shape
<1>3. At(c, p, pos, low, high) /\ ~At(p, c, pos, low, high)
  BY <1>1, <1>2
<1>4. \A m \in P : At(p, m, pos, low, high) => At(c, m, pos, low, high)
  <2> HIDE DEF Past
  <2> QED BY <1>1, <1>3, AtUp
<1> DEFINE Good == {m \in P : At(c, m, pos, low, high) /\ m # c => At(p, m, pos, low, high)}
<1>5. ASSUME NEW m \in P, \A d \in Side : t.child[m][d] # Nil => t.child[m][d] \in Good
      PROVE  m \in Good
  <2> SUFFICES ASSUME At(c, m, pos, low, high), m # c PROVE At(p, m, pos, low, high)
    OBVIOUS
  <2>1. PICK d \in Side : Past(d, pos, m, c)
    <3>1. "left" \in Side /\ Other("left") = "right" /\ "right" \in Side
      BY DEF Side, Other
    <3>2. \A a, b \in P : a = b \/ Past("left", pos, a, b) \/ Past("left", pos, b, a)
      BY <3>1, PastOrder DEF Shape
    <3>3. \A a, b \in P : Past(Other("left"), pos, a, b) <=> Past("left", pos, b, a)
      BY <3>1, PastOrder DEF Shape
    <3> QED BY <1>1, <3>1, <3>2, <3>3
  <2> DEFINE e == t.child[m][d]
  <2>2. e # Nil /\ At(c, e, pos, low, high) /\ e \in P /\ t.parent[e] = m
    BY <1>1, <2>1, ChildPart
  <2>3. CASE e = c
    BY <1>1, <2>2, <2>3
  <2>4. CASE e # c
    <3>1. At(p, e, pos, low, high)
      BY <1>5, <2>2, <2>4
    <3> QED BY <2>2, <3>1, ChildPart
  <2> QED BY <2>3, <2>4
<1>6. P \subseteq Good
  <2> HIDE DEF Good
  <2> QED BY <1>5, TreeInduction
<1> QED BY <1>3, <1>4, <1>6
----------------------------------------------------------------------------
(* One turn of the loop of _std_rbtree_walk.                               *)

\* The six ways it may go.
Turn(n, way, y, in, pre, P) ==
  \/ /\ GoesUp(n, way) /\ n = tree.root
     /\ y = <<Nil, "up">> /\ in = << >> /\ pre = << >>
  \/ /\ GoesUp(n, way)
     /\ \E p \in P : tree.child[p]["left"] = n /\ y = <<p, "right">> /\ in = <<p>> /\ pre = << >>
  \/ /\ GoesUp(n, way)
     /\ \E p \in P : tree.child[p]["right"] = n /\ y = <<p, "up">> /\ in = << >> /\ pre = << >>
  \/ /\ way = "right" /\ RightOf(n) \in P
     /\ y = <<RightOf(n), "down">> /\ in = << >> /\ pre = << >>
  \/ /\ way = "down" /\ LeftOf(n) \in P
     /\ y = <<LeftOf(n), "down">> /\ in = << >> /\ pre = <<n>>
  \/ /\ way = "down" /\ LeftOf(n) = Nil
     /\ y = <<n, "right">> /\ in = <<n>> /\ pre = <<n>>

LEMMA TurnIs ==
  ASSUME tree \in Tree, NEW P, NEW pos, NEW low, NEW high, Shape(tree, P, pos, low, high),
         NEW n \in P, NEW way \in Way
  PROVE  Turn(n, way, Onward(n, way), Calls(n, way, "inorder"), Calls(n, way, "preorder"), P)
<1>1. P \subseteq Data /\ Nil \notin P
  BY TreeAssumption DEF Shape, Seated
<1>2. LeftOf(n) \in P \cup {Nil} /\ RightOf(n) \in P \cup {Nil}
  BY DEF Shape, Joined, LeftOf, RightOf, Side
<1>3. CASE GoesUp(n, way)
  <2>1. CASE n = tree.root
    <3>1. Parent(n) = Nil
      BY <1>1, <2>1 DEF Shape, Joined, Parent
    <3>2. ~FromLeft(n)
      BY <3>1 DEF FromLeft
    <3> QED BY <1>3, <2>1, <3>1, <3>2 DEF Turn, Onward, Calls
  <2>2. CASE n # tree.root
    <3>1. Parent(n) \in P /\ Parent(n) # Nil /\ \E s \in Side : tree.child[Parent(n)][s] = n
      BY <1>1, <2>2 DEF Shape, Joined, Parent
    <3>2. CASE FromLeft(n)
      <4>1. tree.child[Parent(n)]["left"] = n
        BY <3>2 DEF FromLeft, LeftOf
      <4>2. Onward(n, way) = <<Parent(n), "right">>
        BY <1>3, <3>2 DEF Onward
      <4>3. Calls(n, way, "inorder") = <<Parent(n)>> /\ Calls(n, way, "preorder") = << >>
        BY <1>3, <3>2 DEF Calls
      <4> QED BY <1>3, <3>1, <4>1, <4>2, <4>3 DEF Turn
    <3>3. CASE ~FromLeft(n)
      <4>1. tree.child[Parent(n)]["right"] = n
        BY <3>1, <3>3 DEF FromLeft, LeftOf, Side
      <4>2. Onward(n, way) = <<Parent(n), "up">>
        BY <1>3, <3>3 DEF Onward
      <4>3. Calls(n, way, "inorder") = << >> /\ Calls(n, way, "preorder") = << >>
        BY <1>3, <3>3 DEF Calls
      <4> QED BY <1>3, <3>1, <4>1, <4>2, <4>3 DEF Turn
    <3> QED BY <3>2, <3>3
  <2> QED BY <2>1, <2>2
<1>4. CASE ~GoesUp(n, way) /\ way = "right"
  <2>1. RightOf(n) \in P
    BY <1>2, <1>4 DEF GoesUp
  <2> QED BY <1>4, <2>1 DEF Turn, Onward, Calls
<1>5. CASE ~GoesUp(n, way) /\ way = "down"
  BY <1>1, <1>2, <1>5 DEF Turn, Onward, Calls
<1> QED BY <1>3, <1>4, <1>5 DEF Way, GoesUp

\* Who is still to come at n: by place, and without those n is below.
Ahead(n, way, P, pos, low, high) ==
  {m \in P : IF way = "down" THEN low[n] <= pos[m] ELSE IF way = "right" THEN pos[n] < pos[m] ELSE high[n] < pos[m]}
AheadBelow(n, way, P, pos, low, high) ==
  {m \in Ahead(n, way, P, pos, low, high) : m = n \/ ~At(n, m, pos, low, high)}

\* Who is ahead of the walk before a turn it calls for in the turn, or is ahead of it after.
LEMMA TurnAhead ==
  ASSUME tree \in Tree, NEW P, NEW pos, NEW low, NEW high, Shape(tree, P, pos, low, high),
         NEW n \in P, NEW way \in Way
  PROVE  /\ GoesUp(n, way) => \A m \in P : m \in Ahead(n, way, P, pos, low, high) <=> high[n] < pos[m]
         /\ GoesUp(n, way) /\ n = tree.root => Ahead(n, way, P, pos, low, high) = {}
         /\ \A p \in P : GoesUp(n, way) /\ tree.child[p]["left"] = n =>
              /\ Ahead(n, way, P, pos, low, high) = {p} \cup Ahead(p, "right", P, pos, low, high)
              /\ p \notin Ahead(p, "right", P, pos, low, high)
         /\ \A p \in P : GoesUp(n, way) /\ tree.child[p]["right"] = n =>
              Ahead(n, way, P, pos, low, high) = Ahead(p, "up", P, pos, low, high)
         /\ RightOf(n) \in P => Ahead(n, "right", P, pos, low, high) = Ahead(RightOf(n), "down", P, pos, low, high)
         /\ LeftOf(n) \in P => Ahead(n, "down", P, pos, low, high) = Ahead(LeftOf(n), "down", P, pos, low, high)
         /\ LeftOf(n) = Nil => Ahead(n, "down", P, pos, low, high) = {n} \cup Ahead(n, "right", P, pos, low, high)
         /\ n \notin Ahead(n, "right", P, pos, low, high) /\ n \in Ahead(n, "down", P, pos, low, high)
<1>1. Nil \notin P /\ \A m \in P : /\ low[m] \in Int /\ high[m] \in Int /\ pos[m] \in Int
                   /\ low[m] <= pos[m] /\ pos[m] <= high[m] /\ \A k \in P : pos[m] = pos[k] => m = k
  BY TreeAssumption DEF Shape, Seated
<1>2. \A p \in P : /\ tree.child[p]["left"] \in P => low[p] <= low[tree.child[p]["left"]] /\ high[tree.child[p]["left"]] < pos[p]
                   /\ tree.child[p]["right"] \in P => pos[p] < low[tree.child[p]["right"]] /\ high[tree.child[p]["right"]] <= high[p]
  BY <1>1 DEF Shape, Nested
<1>3. \A m, p \in P : /\ low[p] <= pos[m] /\ pos[m] < pos[p] =>
                           tree.child[p]["left"] # Nil /\ low[tree.child[p]["left"]] <= pos[m] /\ pos[m] <= high[tree.child[p]["left"]]
                      /\ pos[m] <= high[p] /\ pos[p] < pos[m] =>
                           tree.child[p]["right"] # Nil /\ low[tree.child[p]["right"]] <= pos[m] /\ pos[m] <= high[tree.child[p]["right"]]
  <2> SUFFICES ASSUME NEW m \in P, NEW p \in P
               PROVE  /\ low[p] <= pos[m] /\ pos[m] < pos[p] =>
                           tree.child[p]["left"] # Nil /\ low[tree.child[p]["left"]] <= pos[m] /\ pos[m] <= high[tree.child[p]["left"]]
                      /\ pos[m] <= high[p] /\ pos[p] < pos[m] =>
                           tree.child[p]["right"] # Nil /\ low[tree.child[p]["right"]] <= pos[m] /\ pos[m] <= high[tree.child[p]["right"]]
    OBVIOUS
  <2>1. low[p] \in Int /\ high[p] \in Int /\ pos[p] \in Int /\ pos[m] \in Int /\ low[p] <= pos[p] /\ pos[p] <= high[p]
    BY <1>1
  <2>2. /\ low[p] <= pos[m] /\ pos[m] < pos[p] => At(m, p, pos, low, high)
        /\ pos[m] <= high[p] /\ pos[p] < pos[m] => At(m, p, pos, low, high)
    BY <2>1 DEF At
  <2>3. /\ At(m, p, pos, low, high) /\ pos[m] < pos[p] => tree.child[p]["left"] # Nil /\ At(m, tree.child[p]["left"], pos, low, high)
        /\ At(m, p, pos, low, high) /\ pos[p] < pos[m] => tree.child[p]["right"] # Nil /\ At(m, tree.child[p]["right"], pos, low, high)
    BY DEF Shape, Full
  <2> QED BY <2>2, <2>3 DEF At
<1>4. /\ \A k, m \in P : m \in Ahead(k, "down", P, pos, low, high) <=> low[k] <= pos[m]
      /\ \A k, m \in P : m \in Ahead(k, "right", P, pos, low, high) <=> pos[k] < pos[m]
      /\ \A k, m \in P : m \in Ahead(k, "up", P, pos, low, high) <=> high[k] < pos[m]
      /\ \A k, w : Ahead(k, w, P, pos, low, high) \subseteq P
  BY DEF Ahead
<1>5. ASSUME GoesUp(n, way), NEW m \in P PROVE m \in Ahead(n, way, P, pos, low, high) <=> high[n] < pos[m]
  <2>1. CASE way = "up"
    BY <1>4, <2>1
  <2>2. CASE way # "up"
    <3>1. way = "right" /\ tree.child[n]["right"] = Nil
      BY <1>5, <2>2 DEF GoesUp, RightOf
    <3>2. pos[n] < pos[m] => ~(pos[m] <= high[n])
      BY <1>3, <3>1
    <3> QED BY <1>1, <1>4, <3>1, <3>2
  <2> QED BY <2>1, <2>2
<1>6. ASSUME GoesUp(n, way), n = tree.root PROVE Ahead(n, way, P, pos, low, high) = {}
  <2>1. \A m \in P : pos[m] <= high[n]
    BY <1>6 DEF Shape, Full, At
  <2> QED BY <1>1, <1>4, <1>5, <1>6, <2>1
<1>7. ASSUME NEW p \in P, GoesUp(n, way), tree.child[p]["left"] = n
      PROVE  /\ Ahead(n, way, P, pos, low, high) = {p} \cup Ahead(p, "right", P, pos, low, high)
             /\ p \notin Ahead(p, "right", P, pos, low, high)
  <2>1. low[p] <= low[n] /\ high[n] < pos[p]
    BY <1>2, <1>7
  <2>2. ASSUME NEW m \in P PROVE high[n] < pos[m] <=> m = p \/ pos[p] < pos[m]
    <3>1. low[p] <= pos[m] /\ pos[m] < pos[p] => pos[m] <= high[n]
      BY <1>3, <1>7
    <3> QED BY <1>1, <2>1, <3>1
  <2> QED BY <1>1, <1>4, <1>5, <1>7, <2>2
<1>8. ASSUME NEW p \in P, GoesUp(n, way), tree.child[p]["right"] = n
      PROVE  Ahead(n, way, P, pos, low, high) = Ahead(p, "up", P, pos, low, high)
  <2>1. pos[p] < low[n] /\ high[n] <= high[p]
    BY <1>2, <1>8
  <2>2. ASSUME NEW m \in P PROVE high[n] < pos[m] <=> high[p] < pos[m]
    <3>1. pos[m] <= high[p] /\ pos[p] < pos[m] => pos[m] <= high[n]
      BY <1>3, <1>8
    <3> QED BY <1>1, <2>1, <3>1
  <2> QED BY <1>4, <1>5, <1>8, <2>2
<1>9. ASSUME RightOf(n) \in P PROVE Ahead(n, "right", P, pos, low, high) = Ahead(RightOf(n), "down", P, pos, low, high)
  <2> DEFINE r == RightOf(n)
  <2>1. r \in P /\ r = tree.child[n]["right"] /\ pos[n] < low[r] /\ high[r] <= high[n]
    BY <1>2, <1>9 DEF RightOf
  <2>2. ASSUME NEW m \in P PROVE pos[n] < pos[m] <=> low[r] <= pos[m]
    <3>1. pos[m] <= high[n] /\ pos[n] < pos[m] => low[r] <= pos[m]
      BY <1>3, <2>1
    <3> HIDE DEF r
    <3> QED BY <1>1, <2>1, <3>1
  <2> QED BY <1>4, <2>1, <2>2
<1>10. ASSUME LeftOf(n) \in P PROVE Ahead(n, "down", P, pos, low, high) = Ahead(LeftOf(n), "down", P, pos, low, high)
  <2> DEFINE l == LeftOf(n)
  <2>1. l \in P /\ l = tree.child[n]["left"] /\ low[n] <= low[l] /\ high[l] < pos[n]
    BY <1>2, <1>10 DEF LeftOf
  <2>2. ASSUME NEW m \in P PROVE low[n] <= pos[m] <=> low[l] <= pos[m]
    <3>1. low[n] <= pos[m] /\ pos[m] < pos[n] => low[l] <= pos[m]
      BY <1>3, <2>1
    <3> HIDE DEF l
    <3> QED BY <1>1, <2>1, <3>1
  <2> QED BY <1>4, <2>1, <2>2
<1>11. ASSUME LeftOf(n) = Nil PROVE Ahead(n, "down", P, pos, low, high) = {n} \cup Ahead(n, "right", P, pos, low, high)
  <2>1. ASSUME NEW m \in P PROVE low[n] <= pos[m] <=> m = n \/ pos[n] < pos[m]
    <3>1. ~(low[n] <= pos[m] /\ pos[m] < pos[n])
      BY <1>3, <1>11 DEF LeftOf
    <3> QED BY <1>1, <3>1
  <2> QED BY <1>4, <2>1
<1>12. n \notin Ahead(n, "right", P, pos, low, high) /\ n \in Ahead(n, "down", P, pos, low, high)
  BY <1>1, <1>4
<1> QED BY <1>5, <1>6, <1>7, <1>8, <1>9, <1>10, <1>11, <1>12

\* And so it is, in preorder, with those who are not above the walk.
LEMMA TurnBelow ==
  ASSUME tree \in Tree, NEW P, NEW pos, NEW low, NEW high, Shape(tree, P, pos, low, high),
         NEW n \in P, NEW way \in Way
  PROVE  /\ GoesUp(n, way) /\ n = tree.root => AheadBelow(n, way, P, pos, low, high) = {}
         /\ \A p \in P : GoesUp(n, way) /\ tree.child[p]["left"] = n =>
              AheadBelow(n, way, P, pos, low, high) = AheadBelow(p, "right", P, pos, low, high)
         /\ \A p \in P : GoesUp(n, way) /\ tree.child[p]["right"] = n =>
              AheadBelow(n, way, P, pos, low, high) = AheadBelow(p, "up", P, pos, low, high)
         /\ RightOf(n) \in P => AheadBelow(n, "right", P, pos, low, high) = AheadBelow(RightOf(n), "down", P, pos, low, high)
         /\ LeftOf(n) \in P =>
              /\ AheadBelow(n, "down", P, pos, low, high) = {n} \cup AheadBelow(LeftOf(n), "down", P, pos, low, high)
              /\ \A m \in AheadBelow(LeftOf(n), "down", P, pos, low, high) : ~At(n, m, pos, low, high)
         /\ LeftOf(n) = Nil =>
              /\ AheadBelow(n, "down", P, pos, low, high) = {n} \cup AheadBelow(n, "right", P, pos, low, high)
              /\ \A m \in AheadBelow(n, "right", P, pos, low, high) : ~At(n, m, pos, low, high)
<1> DEFINE A(k, w) == Ahead(k, w, P, pos, low, high)
           B(k, w) == AheadBelow(k, w, P, pos, low, high)
           In(k, m) == At(k, m, pos, low, high)
<1>1. Nil \notin P /\ \A k \in P : In(k, k)
  <2>1. "left" \in Side /\ Nil \notin P
    BY TreeAssumption DEF Shape, Seated, Side
  <2>2. \A k \in P : At(k, k, pos, low, high)
    BY <2>1, ChildPart
  <2> QED BY <2>1, <2>2
<1>2. /\ \A k, w, m : m \in B(k, w) <=> m \in A(k, w) /\ (m = k \/ ~In(k, m))
      /\ \A k, w, m : m \in A(k, w) => m \in P
  BY DEF AheadBelow, Ahead
<1>3. ASSUME NEW p \in P, NEW s \in Side, NEW c, c = tree.child[p][s], c # Nil
      PROVE  (\A m \in P : m # c => (In(c, m) <=> In(p, m))) /\ In(c, p) /\ ~In(p, c) /\ c # p /\ c \in P
  BY <1>1, <1>3, ParentAt, ChildPart
<1>4. "left" \in Side /\ "right" \in Side
  BY DEF Side
<1>5. /\ GoesUp(n, way) /\ n = tree.root => A(n, way) = {}
      /\ \A p \in P : GoesUp(n, way) /\ tree.child[p]["left"] = n =>
           A(n, way) = {p} \cup A(p, "right") /\ p \notin A(p, "right")
      /\ \A p \in P : GoesUp(n, way) /\ tree.child[p]["right"] = n => A(n, way) = A(p, "up")
      /\ RightOf(n) \in P => A(n, "right") = A(RightOf(n), "down")
      /\ LeftOf(n) \in P => A(n, "down") = A(LeftOf(n), "down")
      /\ LeftOf(n) = Nil => A(n, "down") = {n} \cup A(n, "right")
      /\ n \notin A(n, "right") /\ n \in A(n, "down")
  BY TurnAhead
<1>6. /\ GoesUp(n, way) => n \notin A(n, way)
      /\ \A k \in P : k \notin A(k, "up")
  <2>1. \A m \in P : low[m] \in Int /\ high[m] \in Int /\ pos[m] \in Int /\ pos[m] <= high[m]
    BY DEF Shape, Seated
  <2>2. GoesUp(n, way) => \A m \in P : m \in A(n, way) <=> high[n] < pos[m]
    BY TurnAhead
  <2>3. GoesUp(n, way) => n \notin A(n, way)
    <3> HIDE DEF A
    <3> QED BY <2>1, <2>2
  <2>4. \A k \in P : k \notin A(k, "up")
    BY <2>1 DEF Ahead
  <2> QED BY <2>3, <2>4
<1> HIDE DEF A, B, In
<1>7. GoesUp(n, way) /\ n = tree.root => B(n, way) = {}
  BY <1>2, <1>5
<1>8. ASSUME NEW p \in P, GoesUp(n, way), tree.child[p]["left"] = n PROVE B(n, way) = B(p, "right")
  <2>1. (\A m \in P : m # n => (In(n, m) <=> In(p, m))) /\ In(n, p)
    BY <1>1, <1>3, <1>4, <1>8
  <2>2. A(n, way) = {p} \cup A(p, "right") /\ p \notin A(p, "right") /\ n \notin A(n, way)
    BY <1>5, <1>6, <1>8
  <2>3. p # n
    BY <2>2
  <2>4. \A m : m \in B(n, way) <=> m \in B(p, "right")
    BY <1>2, <2>1, <2>2, <2>3
  <2> QED BY <2>4
<1>9. ASSUME NEW p \in P, GoesUp(n, way), tree.child[p]["right"] = n PROVE B(n, way) = B(p, "up")
  <2>1. (\A m \in P : m # n => (In(n, m) <=> In(p, m))) /\ In(n, p)
    BY <1>1, <1>3, <1>4, <1>9
  <2>2. A(n, way) = A(p, "up") /\ p \notin A(p, "up") /\ n \notin A(n, way)
    BY <1>5, <1>6, <1>9
  <2>3. \A m : m \in B(n, way) <=> m \in B(p, "up")
    BY <1>2, <2>1, <2>2
  <2> QED BY <2>3
<1>10. ASSUME RightOf(n) \in P PROVE B(n, "right") = B(RightOf(n), "down")
  <2> DEFINE r == RightOf(n)
  <2>1. (\A m \in P : m # r => (In(r, m) <=> In(n, m))) /\ ~In(n, r) /\ r # n
    BY <1>1, <1>3, <1>4, <1>10 DEF RightOf
  <2>2. A(n, "right") = A(r, "down") /\ n \notin A(n, "right")
    BY <1>5, <1>10
  <2> HIDE DEF r
  <2>3. \A m : m \in B(n, "right") <=> m \in B(r, "down")
    BY <1>2, <2>1, <2>2
  <2> QED BY <2>3 DEF r
<1>11. ASSUME LeftOf(n) \in P
       PROVE  B(n, "down") = {n} \cup B(LeftOf(n), "down") /\ \A m \in B(LeftOf(n), "down") : ~In(n, m)
  <2> DEFINE l == LeftOf(n)
  <2>1. (\A m \in P : m # l => (In(l, m) <=> In(n, m))) /\ ~In(n, l) /\ In(l, n) /\ l # n
    BY <1>1, <1>3, <1>4, <1>11 DEF LeftOf
  <2>2. A(n, "down") = A(l, "down") /\ n \in A(n, "down")
    BY <1>5, <1>11
  <2> HIDE DEF l
  <2>3. \A m : m \in B(n, "down") <=> m = n \/ m \in B(l, "down")
    BY <1>2, <2>1, <2>2
  <2>4. \A m \in B(l, "down") : ~In(n, m)
    BY <1>2, <2>1
  <2> QED BY <2>3, <2>4 DEF l
<1>12. ASSUME LeftOf(n) = Nil
       PROVE  B(n, "down") = {n} \cup B(n, "right") /\ \A m \in B(n, "right") : ~In(n, m)
  <2>1. A(n, "down") = {n} \cup A(n, "right") /\ n \notin A(n, "right")
    BY <1>5, <1>12
  <2>2. \A m : m \in B(n, "down") <=> m = n \/ m \in B(n, "right")
    BY <1>2, <2>1
  <2>3. \A m \in B(n, "right") : ~In(n, m)
    BY <1>2, <2>1
  <2> QED BY <2>2, <2>3
<1> QED BY <1>7, <1>8, <1>9, <1>10, <1>11, <1>12 DEF A, B, In

\* How far the walk still is from its end: by those ahead, then by what there
\* is left of the way to the next of them.
WayLeft(n, way, P, pos, low, high) ==
  IF way = "down" THEN Cardinality(Part(n, P, pos, low, high)) + 1
  ELSE IF way = "right" THEN Cardinality(P) + 2
  ELSE Cardinality(P \ Part(n, P, pos, low, high)) + 1
Distance(n, way, P, pos, low, high) ==
  IF n = Nil THEN 0
  ELSE Cardinality(Ahead(n, way, P, pos, low, high)) * (Cardinality(P) + 3) + WayLeft(n, way, P, pos, low, high)

LEMMA TurnComesNearer ==
  ASSUME tree \in Tree, NEW P, NEW pos, NEW low, NEW high, Shape(tree, P, pos, low, high),
         NEW n \in P, NEW way \in Way, NEW y, y = Onward(n, way)
  PROVE  /\ y \in (P \cup {Nil}) \X Way
         /\ Distance(n, way, P, pos, low, high) \in Nat
         /\ Distance(n, way, P, pos, low, high) <= Cardinality(P) * (Cardinality(P) + 3) + (Cardinality(P) + 3)
         /\ Distance(y[1], y[2], P, pos, low, high) \in Nat
         /\ Distance(y[1], y[2], P, pos, low, high) < Distance(n, way, P, pos, low, high)
<1> DEFINE N == Cardinality(P)
           A(k, w) == Ahead(k, w, P, pos, low, high)
           part(k) == Part(k, P, pos, low, high)
           left(k, w) == WayLeft(k, w, P, pos, low, high)
           dist(k, w) == Distance(k, w, P, pos, low, high)
<1>1. P \subseteq Data /\ Nil \notin P /\ IsFiniteSet(P) /\ N \in Nat
  BY TreeAssumption, FS_Subset, FS_CardinalityType DEF Shape, Seated
<1>2. \A k, w : A(k, w) \subseteq P /\ IsFiniteSet(A(k, w)) /\ Cardinality(A(k, w)) \in Nat /\ Cardinality(A(k, w)) <= N
  <2> SUFFICES ASSUME NEW k, NEW w
               PROVE  A(k, w) \subseteq P /\ IsFiniteSet(A(k, w)) /\ Cardinality(A(k, w)) \in Nat /\ Cardinality(A(k, w)) <= N
    OBVIOUS
  <2>1. A(k, w) \subseteq P
    BY DEF Ahead
  <2> HIDE DEF A
  <2> QED BY <1>1, <2>1, FS_Subset, FS_CardinalityType
<1>3. \A k \in P : part(k) \subseteq P /\ k \in part(k) /\ Cardinality(part(k)) \in Nat /\ Cardinality(part(k)) <= N
                   /\ Cardinality(P \ part(k)) \in Nat /\ Cardinality(P \ part(k)) < N
  <2> SUFFICES ASSUME NEW k \in P
               PROVE  part(k) \subseteq P /\ k \in part(k) /\ Cardinality(part(k)) \in Nat /\ Cardinality(part(k)) <= N
                      /\ Cardinality(P \ part(k)) \in Nat /\ Cardinality(P \ part(k)) < N
    OBVIOUS
  <2>1. "left" \in Side
    BY DEF Side
  <2>2. part(k) \subseteq P /\ k \in part(k) /\ Cardinality(part(k)) \in Nat /\ Cardinality(part(k)) <= N
    BY <2>1, PartShrinks
  <2> HIDE DEF part
  <2>3. P \ part(k) \subseteq P /\ k \notin P \ part(k)
    BY <2>2
  <2> QED BY <1>1, <2>2, <2>3, Fewer
<1>4. \A k \in P, w \in Way : left(k, w) \in Nat /\ left(k, w) < N + 3
  BY <1>1, <1>3 DEF WayLeft
<1>5. \A k \in P, w \in Way : dist(k, w) = Cardinality(A(k, w)) * (N + 3) + left(k, w)
  BY <1>1 DEF Distance
<1>6. /\ \A k : left(k, "right") = N + 2
      /\ \A k : left(k, "down") = Cardinality(part(k)) + 1
      /\ \A k : left(k, "up") = Cardinality(P \ part(k)) + 1
      /\ \A w : dist(Nil, w) = 0
  BY DEF WayLeft, Distance
<1>7. Turn(n, way, y, Calls(n, way, "inorder"), Calls(n, way, "preorder"), P)
  BY TurnIs
<1>8. \A k \in P, s \in Side : tree.child[k][s] # Nil =>
        /\ tree.child[k][s] \in P /\ Cardinality(part(tree.child[k][s])) < Cardinality(part(k))
        /\ part(tree.child[k][s]) \subseteq part(k) /\ k \notin part(tree.child[k][s])
  BY PartShrinks, ChildPart
<1>9. /\ \A p \in P : GoesUp(n, way) /\ tree.child[p]["left"] = n =>
           A(n, way) = {p} \cup A(p, "right") /\ p \notin A(p, "right")
      /\ \A p \in P : GoesUp(n, way) /\ tree.child[p]["right"] = n => A(n, way) = A(p, "up")
      /\ RightOf(n) \in P => A(n, "right") = A(RightOf(n), "down")
      /\ LeftOf(n) \in P => A(n, "down") = A(LeftOf(n), "down")
      /\ LeftOf(n) = Nil => A(n, "down") = {n} \cup A(n, "right")
      /\ n \notin A(n, "right") /\ n \in A(n, "down")
  BY TurnAhead
<1>10. GoesUp(n, way) => way = "up" \/ way = "right"
  BY DEF GoesUp
<1>11. "left" \in Side /\ "right" \in Side /\ "up" \in Way /\ "down" \in Way /\ "right" \in Way
  BY DEF Side, Way
<1> HIDE DEF N, A, part, left, dist
<1>12. ASSUME NEW m \in P, NEW w \in Way, Cardinality(A(m, w)) < Cardinality(A(n, way)) PROVE dist(m, w) < dist(n, way)
  <2>1. /\ Cardinality(A(m, w)) \in Nat /\ Cardinality(A(n, way)) \in Nat /\ left(m, w) \in Nat /\ left(m, w) < N + 3
        /\ left(n, way) \in Nat /\ N + 3 \in Nat
    BY <1>1, <1>2, <1>4
  <2>2. Cardinality(A(m, w)) * (N + 3) + left(m, w) < Cardinality(A(n, way)) * (N + 3) + left(n, way)
    BY ONLY <1>12, <2>1, Lesser
  <2> QED BY <1>5, <2>2
<1>13. ASSUME NEW m \in P, NEW w \in Way, A(m, w) = A(n, way), left(m, w) < left(n, way) PROVE dist(m, w) < dist(n, way)
  <2> DEFINE q == Cardinality(A(n, way)) * (N + 3)
  <2>1. q \in Nat
    BY <1>1, <1>2
  <2>2. dist(m, w) = q + left(m, w) /\ dist(n, way) = q + left(n, way)
    BY <1>5, <1>13
  <2> HIDE DEF q
  <2> QED BY <1>4, <1>13, <2>1, <2>2
<1>14. /\ \A m \in P, w \in Way : dist(m, w) \in Nat /\ dist(m, w) > 0 /\ dist(m, w) <= N * (N + 3) + (N + 3)
  <2> SUFFICES ASSUME NEW m \in P, NEW w \in Way PROVE dist(m, w) \in Nat /\ dist(m, w) > 0 /\ dist(m, w) <= N * (N + 3) + (N + 3)
    OBVIOUS
  <2> DEFINE c == Cardinality(A(m, w))
  <2>1. c \in Nat /\ c < N + 1 /\ left(m, w) \in Nat /\ left(m, w) < N + 3 /\ left(m, w) > 0 /\ N + 3 \in Nat /\ N + 1 \in Nat
    <3>1. left(m, w) > 0
      <4>1. Cardinality(part(m)) \in Nat /\ Cardinality(P \ part(m)) \in Nat
        BY <1>3
      <4>2. left(m, w) \in {N + 2, Cardinality(part(m)) + 1, Cardinality(P \ part(m)) + 1}
        BY <1>6 DEF Way
      <4> QED BY ONLY <1>1, <4>1, <4>2
    <3> QED BY <1>1, <1>2, <1>4, <3>1
  <2>2. dist(m, w) = c * (N + 3) + left(m, w)
    BY <1>5
  <2> HIDE DEF c
  <2>3. c * (N + 3) + left(m, w) < (N + 1) * (N + 3) + 0
    BY ONLY <2>1, Lesser, 0 \in Nat
  <2>4. (N + 1) * (N + 3) = N * (N + 3) + (N + 3)
    BY <1>1
  <2>5. c * (N + 3) \in Nat /\ N * (N + 3) \in Nat
    BY <2>1, <1>1
  <2> QED BY <2>1, <2>2, <2>3, <2>4, <2>5
<1>15. y \in (P \cup {Nil}) \X Way /\ dist(y[1], y[2]) \in Nat /\ dist(y[1], y[2]) < dist(n, way)
  <2>1. CASE y = <<Nil, "up">>
    BY <1>6, <1>11, <1>14, <2>1
  <2>2. ASSUME NEW p \in P, GoesUp(n, way), tree.child[p]["left"] = n, y = <<p, "right">>
        PROVE  y \in (P \cup {Nil}) \X Way /\ dist(y[1], y[2]) \in Nat /\ dist(y[1], y[2]) < dist(n, way)
    <3>1. A(p, "right") \subseteq A(n, way) /\ p \in A(n, way) /\ p \notin A(p, "right")
      BY <1>9, <2>2
    <3>2. Cardinality(A(p, "right")) < Cardinality(A(n, way))
      BY <1>2, <3>1, Fewer
    <3> QED BY <1>11, <1>12, <1>14, <2>2, <3>2
  <2>3. ASSUME NEW p \in P, GoesUp(n, way), tree.child[p]["right"] = n, y = <<p, "up">>
        PROVE  y \in (P \cup {Nil}) \X Way /\ dist(y[1], y[2]) \in Nat /\ dist(y[1], y[2]) < dist(n, way)
    <3>1. A(p, "up") = A(n, way)
      BY <1>9, <2>3
    <3>2. part(n) \subseteq part(p) /\ p \notin part(n) /\ p \in part(p)
      BY <1>1, <1>3, <1>8, <1>11, <2>3
    <3>3. P \ part(p) \subseteq P \ part(n) /\ p \in P \ part(n) /\ p \notin P \ part(p)
      BY <3>2
    <3>4. IsFiniteSet(P \ part(n))
      BY <1>1, FS_Subset
    <3>5. Cardinality(P \ part(p)) < Cardinality(P \ part(n))
      BY <3>3, <3>4, Fewer
    <3>6. left(p, "up") < left(n, way)
      BY <1>1, <1>3, <1>6, <1>10, <2>3, <3>5
    <3> QED BY <1>11, <1>13, <1>14, <2>3, <3>1, <3>6
  <2>4. CASE way = "right" /\ RightOf(n) \in P /\ y = <<RightOf(n), "down">>
    <3>1. A(RightOf(n), "down") = A(n, way)
      BY <1>9, <2>4
    <3>2. left(RightOf(n), "down") < left(n, way)
      <4>1. Cardinality(part(RightOf(n))) \in Nat /\ Cardinality(part(RightOf(n))) <= N
        BY <1>3, <2>4
      <4>2. left(RightOf(n), "down") = Cardinality(part(RightOf(n))) + 1 /\ left(n, way) = N + 2
        BY <1>6, <2>4
      <4> QED BY ONLY <1>1, <4>1, <4>2
    <3> QED BY <1>11, <1>13, <1>14, <2>4, <3>1, <3>2
  <2>5. CASE way = "down" /\ LeftOf(n) \in P /\ y = <<LeftOf(n), "down">>
    <3>1. A(LeftOf(n), "down") = A(n, way)
      BY <1>9, <2>5
    <3>2. Cardinality(part(LeftOf(n))) < Cardinality(part(n))
      <4>1. LeftOf(n) = tree.child[n]["left"] /\ LeftOf(n) # Nil
        BY <1>1, <2>5 DEF LeftOf
      <4> QED BY <1>8, <1>11, <4>1
    <3>3. left(LeftOf(n), "down") < left(n, way)
      <4>1. Cardinality(part(LeftOf(n))) \in Nat /\ Cardinality(part(n)) \in Nat
        BY <1>3, <2>5
      <4>2. left(LeftOf(n), "down") = Cardinality(part(LeftOf(n))) + 1 /\ left(n, way) = Cardinality(part(n)) + 1
        BY <1>6, <2>5
      <4> QED BY ONLY <3>2, <4>1, <4>2
    <3> QED BY <1>11, <1>13, <1>14, <2>5, <3>1, <3>3
  <2>6. CASE way = "down" /\ LeftOf(n) = Nil /\ y = <<n, "right">>
    <3>1. A(n, "right") \subseteq A(n, way) /\ n \in A(n, way) /\ n \notin A(n, "right")
      BY <1>9, <2>6
    <3>2. Cardinality(A(n, "right")) < Cardinality(A(n, way))
      BY <1>2, <3>1, Fewer
    <3> QED BY <1>11, <1>12, <1>14, <2>6, <3>2
  <2> QED BY <1>7, <2>1, <2>2, <2>3, <2>4, <2>5, <2>6 DEF Turn
<1> QED BY <1>14, <1>15 DEF dist, N

\* The turns of the loop, which stands still where it has ended.
Turns(P) == [x \in (P \cup {Nil}) \X Way |-> IF x[1] = Nil THEN x ELSE Onward(x[1], x[2])]

LEMMA TurnsFall ==
  ASSUME tree \in Tree, NEW P, NEW pos, NEW low, NEW high, Shape(tree, P, pos, low, high)
  PROVE  /\ Turns(P) \in [(P \cup {Nil}) \X Way -> (P \cup {Nil}) \X Way]
         /\ \A n \in P, way \in Way : Turns(P)[<<n, way>>] = Onward(n, way) /\ Onward(n, way) # <<n, way>>
         /\ \A way \in Way : Turns(P)[<<Nil, way>>] = <<Nil, way>>
         /\ \E mu, top : Falls(mu, (P \cup {Nil}) \X Way, Turns(P)) /\ top \in Nat
                         /\ \A x \in (P \cup {Nil}) \X Way : mu[x] <= top
<1> DEFINE D == (P \cup {Nil}) \X Way
           dist(n, w) == Distance(n, w, P, pos, low, high)
           mu == [x \in D |-> dist(x[1], x[2])]
           N == Cardinality(P)
           top == N * (N + 3) + (N + 3)
<1>1. Nil \notin P /\ N \in Nat
  BY TreeAssumption, FS_Subset, FS_CardinalityType DEF Shape, Seated
<1>2. top \in Nat
  <2>1. N * (N + 3) \in Nat
    BY <1>1
  <2> HIDE DEF N
  <2> QED BY <1>1, <2>1
<1>3. ASSUME NEW n \in P, NEW w \in Way
      PROVE  /\ Onward(n, w) \in D /\ dist(n, w) \in Nat /\ dist(n, w) <= top
             /\ dist(Onward(n, w)[1], Onward(n, w)[2]) \in Nat
             /\ dist(Onward(n, w)[1], Onward(n, w)[2]) < dist(n, w)
  BY TurnComesNearer
<1>4. \A w \in Way : dist(Nil, w) = 0
  BY DEF Distance
<1>5. \A x \in D : x = <<x[1], x[2]>> /\ x[1] \in P \cup {Nil} /\ x[2] \in Way
  OBVIOUS
<1>6. \A n \in P, way \in Way : Turns(P)[<<n, way>>] = Onward(n, way)
  BY <1>1 DEF Turns
<1>7. \A way \in Way : Turns(P)[<<Nil, way>>] = <<Nil, way>>
  BY DEF Turns
<1>8. Turns(P) \in [D -> D]
  <2>1. \A x \in D : (IF x[1] = Nil THEN x ELSE Onward(x[1], x[2])) \in D
    BY <1>3, <1>5
  <2> HIDE DEF D
  <2>2. Turns(P) = [x \in D |-> IF x[1] = Nil THEN x ELSE Onward(x[1], x[2])]
    BY DEF Turns, D
  <2> QED BY <2>1, <2>2
<1> HIDE DEF dist, top, N
<1>9. \A x \in D : mu[x] = dist(x[1], x[2]) /\ mu[x] \in Nat /\ mu[x] <= top
  <2> SUFFICES ASSUME NEW x \in D PROVE mu[x] = dist(x[1], x[2]) /\ mu[x] \in Nat /\ mu[x] <= top
    OBVIOUS
  <2>1. mu[x] = dist(x[1], x[2])
    OBVIOUS
  <2>2. dist(x[1], x[2]) \in Nat /\ dist(x[1], x[2]) <= top
    <3>1. CASE x[1] = Nil
      BY <1>2, <1>4, <1>5, <3>1
    <3>2. CASE x[1] # Nil
      BY <1>3, <1>5, <3>2
    <3> QED BY <3>1, <3>2
  <2> QED BY <2>1, <2>2
<1>10. mu \in [D -> Nat]
  <2>1. mu = [x \in D |-> mu[x]]
    OBVIOUS
  <2> HIDE DEF mu, D
  <2> QED BY <1>9, <2>1
<1>11. ASSUME NEW x \in D, Turns(P)[x] # x PROVE mu[Turns(P)[x]] < mu[x]
  <2>1. x[1] \in P /\ x[2] \in Way /\ x = <<x[1], x[2]>>
    BY <1>5, <1>7, <1>11
  <2>2. Turns(P)[x] = Onward(x[1], x[2]) /\ Turns(P)[x] \in D
    BY <1>3, <1>6, <2>1
  <2>3. mu[Turns(P)[x]] = dist(Onward(x[1], x[2])[1], Onward(x[1], x[2])[2]) /\ mu[x] = dist(x[1], x[2])
    <3> HIDE DEF mu, D
    <3> QED BY <1>9, <2>2
  <2> QED BY <1>3, <2>1, <2>3
<1>12. \A n \in P, way \in Way : Onward(n, way) # <<n, way>>
  <2> SUFFICES ASSUME NEW n \in P, NEW way \in Way, Onward(n, way) = <<n, way>> PROVE FALSE
    OBVIOUS
  <2>1. dist(n, way) < dist(n, way) /\ dist(n, way) \in Nat
    BY <1>3
  <2> QED BY ONLY <2>1
<1> HIDE DEF mu
<1>13. Falls(mu, D, Turns(P))
  BY <1>10, <1>11 DEF Falls
<1> QED BY <1>2, <1>6, <1>7, <1>8, <1>9, <1>12, <1>13

\* The walk calls for whom its turns call for, and ends.
LEMMA WalkFromIs ==
  ASSUME tree \in Tree, NEW P, NEW pos, NEW low, NEW high, Shape(tree, P, pos, low, high), Present = P, NEW order
  PROVE  /\ \A way \in Way : WalkFrom(Nil, way, order) = << >>
         /\ \A n \in P, way \in Way :
              WalkFrom(n, way, order)
                = Calls(n, way, order) \o WalkFrom(Onward(n, way)[1], Onward(n, way)[2], order)
<1> DEFINE D == (P \cup {Nil}) \X Way
           nxt == Turns(P)
           pre == [x \in D |-> Calls(x[1], x[2], order)]
           Eq(f) == f = [x \in D |-> IF x[1] = Nil THEN << >> ELSE Calls(x[1], x[2], order) \o f[Onward(x[1], x[2])]]
<1>1. Nil \notin P
  BY TreeAssumption DEF Shape, Seated
<1>2. /\ nxt \in [D -> D]
      /\ \A n \in P, way \in Way : nxt[<<n, way>>] = Onward(n, way) /\ Onward(n, way) # <<n, way>>
      /\ \A way \in Way : nxt[<<Nil, way>>] = <<Nil, way>>
  BY TurnsFall
<1>3. PICK mu, top : Falls(mu, D, nxt) /\ top \in Nat /\ \A x \in D : mu[x] <= top
  BY TurnsFall
<1> HIDE DEF nxt
<1>4. \E f : Gathers(f, D, nxt, pre)
  <2> HIDE DEF D, pre
  <2> QED BY <1>2, <1>3, GathersExists
<1>5. \A x \in D : x = <<x[1], x[2]>> /\ x[1] \in P \cup {Nil} /\ x[2] \in Way
  OBVIOUS
<1>6. \A f : Eq(f) <=> Gathers(f, D, nxt, pre)
  <2> SUFFICES ASSUME NEW f PROVE Eq(f) <=> Gathers(f, D, nxt, pre)
    OBVIOUS
  <2>1. ASSUME NEW x \in D
        PROVE  (IF x[1] = Nil THEN << >> ELSE Calls(x[1], x[2], order) \o f[Onward(x[1], x[2])])
                 = IF nxt[x] # x THEN pre[x] \o f[nxt[x]] ELSE << >>
    <3>1. pre[x] = Calls(x[1], x[2], order)
      OBVIOUS
    <3>2. CASE x[1] = Nil
      <4>1. nxt[x] = x
        BY <1>2, <1>5, <3>2
      <4> QED BY <3>2, <4>1
    <3>3. CASE x[1] # Nil
      <4>1. nxt[x] = Onward(x[1], x[2]) /\ nxt[x] # x
        BY <1>2, <1>5, <3>3
      <4> QED BY <3>1, <3>3, <4>1
    <3> QED BY <3>2, <3>3
  <2>2. [x \in D |-> IF x[1] = Nil THEN << >> ELSE Calls(x[1], x[2], order) \o f[Onward(x[1], x[2])]]
          = [x \in D |-> IF nxt[x] # x THEN pre[x] \o f[nxt[x]] ELSE << >>]
    <3> HIDE DEF D, pre
    <3> QED BY ONLY <2>1
  <2> QED BY <2>2 DEF Gathers
<1> DEFINE f == CHOOSE g : Eq(g)
<1>7. Eq(f)
  <2> HIDE DEF Eq
  <2> QED BY <1>4, <1>6
<1>8. \A n, way : WalkFrom(n, way, order) = f[<<n, way>>]
  BY DEF WalkFrom
<1> HIDE DEF f
<1>9. \A x \in D : f[x] = IF x[1] = Nil THEN << >> ELSE Calls(x[1], x[2], order) \o f[Onward(x[1], x[2])]
  BY <1>7
<1> HIDE DEF Eq
<1>10. \A way \in Way : f[<<Nil, way>>] = << >>
  BY <1>9
<1>11. ASSUME NEW n \in P, NEW way \in Way
       PROVE  f[<<n, way>>] = Calls(n, way, order) \o f[<<Onward(n, way)[1], Onward(n, way)[2]>>]
  <2>1. <<n, way>> \in D /\ Onward(n, way) \in D
    BY <1>2
  <2>2. Onward(n, way) = <<Onward(n, way)[1], Onward(n, way)[2]>>
    BY <1>5, <2>1
  <2>3. f[<<n, way>>] = Calls(n, way, order) \o f[Onward(n, way)]
    BY <1>1, <1>9, <2>1
  <2> QED BY <2>2, <2>3
<1>12. \A way \in Way : WalkFrom(Nil, way, order) = << >>
  BY <1>8, <1>10
<1>13. ASSUME NEW n \in P, NEW way \in Way
       PROVE  WalkFrom(n, way, order)
                = Calls(n, way, order) \o WalkFrom(Onward(n, way)[1], Onward(n, way)[2], order)
  <2>1. WalkFrom(n, way, order) = f[<<n, way>>]
    BY <1>8
  <2>2. WalkFrom(Onward(n, way)[1], Onward(n, way)[2], order) = f[<<Onward(n, way)[1], Onward(n, way)[2]>>]
    BY <1>8
  <2> QED BY <1>11, <2>1, <2>2
<1> QED BY <1>12, <1>13

\* What holds at the end of the walk, and before a turn if it does after, holds throughout.
LEMMA WalkInduction ==
  ASSUME tree \in Tree, NEW P, NEW pos, NEW low, NEW high, Shape(tree, P, pos, low, high), NEW Good,
         \A way \in Way : <<Nil, way>> \in Good,
         \A n \in P, way \in Way : Onward(n, way) \in Good => <<n, way>> \in Good
  PROVE  (P \cup {Nil}) \X Way \subseteq Good
<1> DEFINE D == (P \cup {Nil}) \X Way
           nxt == Turns(P)
<1>1. /\ nxt \in [D -> D]
      /\ \A n \in P, way \in Way : nxt[<<n, way>>] = Onward(n, way) /\ Onward(n, way) # <<n, way>>
  BY TurnsFall
<1>2. PICK mu : Falls(mu, D, nxt)
  BY TurnsFall
<1> HIDE DEF nxt
<1>3. ASSUME NEW x \in D, nxt[x] # x => nxt[x] \in Good PROVE x \in Good
  <2>1. x = <<x[1], x[2]>> /\ x[1] \in P \cup {Nil} /\ x[2] \in Way
    OBVIOUS
  <2>2. CASE x[1] = Nil
    BY <2>1, <2>2
  <2>3. CASE x[1] # Nil
    BY <1>1, <1>3, <2>1, <2>3
  <2> QED BY <2>2, <2>3
<1> HIDE DEF D
<1>4. D \subseteq Good
  BY <1>1, <1>2, <1>3, FallsInduction
<1> QED BY <1>4 DEF D

\* Who is not below whom.
NotBelow(P, pos, low, high) == {ab \in P \X P : ~At(ab[1], ab[2], pos, low, high)}

\* The walk in order lists who is ahead of it by place, and the walk in
\* preorder lists those it is not yet below, nobody after one below.
LEMMA WalkFromLists ==
  ASSUME tree \in Tree, NEW P, NEW pos, NEW low, NEW high, Shape(tree, P, pos, low, high), Present = P
  PROVE  \A n \in P, way \in Way :
           /\ Lists(WalkFrom(n, way, "inorder"), Ahead(n, way, P, pos, low, high), InPlace(P, pos))
           /\ Lists(WalkFrom(n, way, "preorder"), AheadBelow(n, way, P, pos, low, high), NotBelow(P, pos, low, high))
<1> DEFINE L == InPlace(P, pos)
           M == NotBelow(P, pos, low, high)
           A(x) == IF x[1] = Nil THEN {} ELSE Ahead(x[1], x[2], P, pos, low, high)
           B(x) == IF x[1] = Nil THEN {} ELSE AheadBelow(x[1], x[2], P, pos, low, high)
           f(x) == WalkFrom(x[1], x[2], "inorder")
           g(x) == WalkFrom(x[1], x[2], "preorder")
           Good == {x \in (P \cup {Nil}) \X Way : Lists(f(x), A(x), L) /\ Lists(g(x), B(x), M)}
<1>1. Nil \notin P /\ "left" \in Side /\ "right" \in Side
  BY TreeAssumption DEF Shape, Seated, Side
<1>2. ASSUME NEW way \in Way PROVE <<Nil, way>> \in Good
  <2>1. f(<<Nil, way>>) = << >> /\ g(<<Nil, way>>) = << >>
    BY WalkFromIs
  <2>2. A(<<Nil, way>>) = {} /\ B(<<Nil, way>>) = {}
    OBVIOUS
  <2>3. <<Nil, way>> \in (P \cup {Nil}) \X Way
    OBVIOUS
  <2> HIDE DEF f, g, A, B, L, M
  <2> QED BY <2>1, <2>2, <2>3, ListsNone
<1>3. \A a, b : <<a, b>> \in L <=> a \in P /\ b \in P /\ pos[a] < pos[b]
  BY InPlaceIs DEF Shape
<1>4. \A a, b : <<a, b>> \in M <=> a \in P /\ b \in P /\ ~At(a, b, pos, low, high)
  BY DEF NotBelow
<1>5. ASSUME NEW n \in P, NEW way \in Way, Onward(n, way) \in Good PROVE <<n, way>> \in Good
  <2> DEFINE x == <<n, way>>
             y == Onward(n, way)
             in == Calls(n, way, "inorder")
             pre == Calls(n, way, "preorder")
  <2>1. f(x) = in \o f(y) /\ g(x) = pre \o g(y)
    BY WalkFromIs
  <2>2. Turn(n, way, y, in, pre, P)
    BY TurnIs
  <2>3. Lists(f(y), A(y), L) /\ Lists(g(y), B(y), M) /\ x \in (P \cup {Nil}) \X Way
    BY <1>5
  <2>4. n # Nil /\ A(x) = Ahead(n, way, P, pos, low, high) /\ B(x) = AheadBelow(n, way, P, pos, low, high)
    BY <1>1
  <2>5. f(y) = << >> \o f(y) /\ g(y) = << >> \o g(y)
    <3>1. f(y) \in Seq(A(y)) /\ g(y) \in Seq(B(y))
      <4> HIDE DEF f, g, A, B, y, L, M
      <4> QED BY <2>3 DEF Lists
    <3> HIDE DEF f, g, A, B, y
    <3> QED BY <3>1
  <2>6. \A Q, k, s : Lists(s, Q, L) /\ k \in P /\ (\A b \in Q : b \in P /\ pos[k] < pos[b]) => Lists(<<k>> \o s, {k} \cup Q, L)
    <3> HIDE DEF L
    <3> QED BY <1>3, ListsOne, ListsJoin
  <2>7. \A Q, k, s : Lists(s, Q, M) /\ k \in P /\ (\A b \in Q : b \in P /\ ~At(k, b, pos, low, high)) => Lists(<<k>> \o s, {k} \cup Q, M)
    <3> HIDE DEF M
    <3> QED BY <1>4, ListsOne, ListsJoin
  <2>8. \A k \in P : \A b \in Ahead(k, "right", P, pos, low, high) : b \in P /\ pos[k] < pos[b]
    BY DEF Ahead
  <2>9. \A k \in P, w \in Way : AheadBelow(k, w, P, pos, low, high) \subseteq P
    BY DEF Ahead, AheadBelow
  <2>10. "up" \in Way /\ "right" \in Way /\ "down" \in Way
    BY DEF Way
  <2>11. \A k \in P, w \in Way : A(<<k, w>>) = Ahead(k, w, P, pos, low, high) /\ B(<<k, w>>) = AheadBelow(k, w, P, pos, low, high)
    BY <1>1
  <2>12. A(<<Nil, "up">>) = {} /\ B(<<Nil, "up">>) = {}
    OBVIOUS
  <2> HIDE DEF f, g, A, B, L, M, in, pre, y
  <2>13. Lists(in \o f(y), A(x), L) /\ Lists(pre \o g(y), B(x), M)
    <3>1. CASE GoesUp(n, way) /\ n = tree.root /\ y = <<Nil, "up">> /\ in = << >> /\ pre = << >>
      <4>1. A(x) = {} /\ B(x) = {}
        BY <2>4, <3>1, TurnAhead, TurnBelow
      <4>2. A(y) = {} /\ B(y) = {}
        BY <2>12, <3>1
      <4> QED BY <2>3, <2>5, <3>1, <4>1, <4>2
    <3>2. ASSUME NEW p \in P, GoesUp(n, way), tree.child[p]["left"] = n, y = <<p, "right">>, in = <<p>>, pre = << >>
          PROVE  Lists(in \o f(y), A(x), L) /\ Lists(pre \o g(y), B(x), M)
      <4>1. A(x) = {p} \cup A(y) /\ B(x) = B(y)
        BY <2>4, <2>10, <2>11, <3>2, TurnAhead, TurnBelow
      <4>2. \A b \in A(y) : b \in P /\ pos[p] < pos[b]
        BY <2>8, <2>10, <2>11, <3>2
      <4>3. Lists(<<p>> \o f(y), {p} \cup A(y), L)
        BY <2>3, <2>6, <4>2
      <4> QED BY <2>3, <2>5, <3>2, <4>1, <4>3
    <3>3. ASSUME NEW p \in P, GoesUp(n, way), tree.child[p]["right"] = n, y = <<p, "up">>, in = << >>, pre = << >>
          PROVE  Lists(in \o f(y), A(x), L) /\ Lists(pre \o g(y), B(x), M)
      <4>1. A(x) = A(y) /\ B(x) = B(y)
        BY <2>4, <2>10, <2>11, <3>3, TurnAhead, TurnBelow
      <4> QED BY <2>3, <2>5, <3>3, <4>1
    <3>4. CASE way = "right" /\ RightOf(n) \in P /\ y = <<RightOf(n), "down">> /\ in = << >> /\ pre = << >>
      <4>1. A(x) = A(y) /\ B(x) = B(y)
        BY <2>4, <2>10, <2>11, <3>4, TurnAhead, TurnBelow
      <4> QED BY <2>3, <2>5, <3>4, <4>1
    <3>5. CASE way = "down" /\ LeftOf(n) \in P /\ y = <<LeftOf(n), "down">> /\ in = << >> /\ pre = <<n>>
      <4>1. A(x) = A(y) /\ B(x) = {n} \cup B(y) /\ \A b \in B(y) : b \in P /\ ~At(n, b, pos, low, high)
        BY <2>4, <2>9, <2>10, <2>11, <3>5, TurnAhead, TurnBelow
      <4>2. Lists(<<n>> \o g(y), {n} \cup B(y), M)
        BY <2>3, <2>7, <4>1
      <4> QED BY <2>3, <2>5, <3>5, <4>1, <4>2
    <3>6. CASE way = "down" /\ LeftOf(n) = Nil /\ y = <<n, "right">> /\ in = <<n>> /\ pre = <<n>>
      <4>1. A(x) = {n} \cup A(y) /\ B(x) = {n} \cup B(y) /\ \A b \in B(y) : b \in P /\ ~At(n, b, pos, low, high)
        BY <2>4, <2>9, <2>10, <2>11, <3>6, TurnAhead, TurnBelow
      <4>2. Lists(<<n>> \o g(y), {n} \cup B(y), M)
        BY <2>3, <2>7, <4>1
      <4>3. \A b \in A(y) : b \in P /\ pos[n] < pos[b]
        BY <2>8, <2>10, <2>11, <3>6
      <4>4. Lists(<<n>> \o f(y), {n} \cup A(y), L)
        BY <2>3, <2>6, <4>3
      <4> QED BY <3>6, <4>1, <4>2, <4>4
    <3> QED BY <2>2, <3>1, <3>2, <3>3, <3>4, <3>5, <3>6 DEF Turn
  <2> QED BY <2>1, <2>3, <2>13
<1>6. (P \cup {Nil}) \X Way \subseteq Good
  <2> HIDE DEF Good
  <2> QED BY <1>2, <1>5, WalkInduction
<1>7. ASSUME NEW n \in P, NEW way \in Way
      PROVE  /\ Lists(WalkFrom(n, way, "inorder"), Ahead(n, way, P, pos, low, high), L)
             /\ Lists(WalkFrom(n, way, "preorder"), AheadBelow(n, way, P, pos, low, high), M)
  <2>1. <<n, way>> \in Good
    BY <1>6
  <2> QED BY <1>1, <2>1
<1> QED BY <1>7

\* Two nodes are not each below the other.
LEMMA AtOneWay ==
  ASSUME NEW t \in Tree, NEW P, NEW pos, NEW low, NEW high, Shape(t, P, pos, low, high),
         NEW a \in P, NEW b \in P, At(a, b, pos, low, high), At(b, a, pos, low, high)
  PROVE  a = b
<1> SUFFICES ASSUME a # b PROVE FALSE
  OBVIOUS
<1>1. "left" \in Side /\ Other("left") = "right" /\ "right" \in Side
  BY DEF Side, Other
<1>2. PICK s \in Side : Past(s, pos, a, b)
  <2>1. \A c, d \in P : c = d \/ Past("left", pos, c, d) \/ Past("left", pos, d, c)
    BY <1>1, PastOrder DEF Shape
  <2>2. \A c, d \in P : Past(Other("left"), pos, c, d) <=> Past("left", pos, d, c)
    BY <1>1, PastOrder DEF Shape
  <2> QED BY <1>1, <2>1, <2>2
<1>3. t.child[a][s] # Nil /\ At(b, t.child[a][s], pos, low, high)
  BY <1>2, ChildPart
<1>4. t.child[a][s] \in P /\ ~At(a, t.child[a][s], pos, low, high)
  BY <1>3, ParentAt, ChildPart
<1> QED BY <1>3, <1>4, AtUp

\* Whoever is in the tree is ahead of a walk from the root.
LEMMA WalkAllLists ==
  ASSUME tree \in Tree, NEW P, NEW pos, NEW low, NEW high, Shape(tree, P, pos, low, high), Present = P
  PROVE  /\ Lists(WalkAll("inorder"), P, InPlace(P, pos))
         /\ Lists(WalkAll("preorder"), P, NotBelow(P, pos, low, high))
<1>1. Nil \notin P /\ tree.root \in P \cup {Nil} /\ "down" \in Way
  BY TreeAssumption DEF Shape, Seated, Joined, Way
<1>2. CASE tree.root = Nil
  <2>1. P = {}
    BY <1>2 DEF Shape, Joined
  <2>2. WalkAll("inorder") = << >> /\ WalkAll("preorder") = << >>
    BY <1>1, <1>2, WalkFromIs DEF WalkAll
  <2> QED BY <2>1, <2>2, ListsNone
<1>3. CASE tree.root # Nil
  <2>1. tree.root \in P
    BY <1>1, <1>3
  <2>2. \A m \in P : At(m, tree.root, pos, low, high)
    BY DEF Shape, Full
  <2>3. Ahead(tree.root, "down", P, pos, low, high) = P
    BY <2>2 DEF Ahead, At
  <2>4. \A m \in P : m = tree.root \/ ~At(tree.root, m, pos, low, high)
    BY <2>1, <2>2, AtOneWay
  <2>5. AheadBelow(tree.root, "down", P, pos, low, high) = P
    BY <2>3, <2>4 DEF AheadBelow
  <2>6. /\ Lists(WalkFrom(tree.root, "down", "inorder"), Ahead(tree.root, "down", P, pos, low, high), InPlace(P, pos))
        /\ Lists(WalkFrom(tree.root, "down", "preorder"), AheadBelow(tree.root, "down", P, pos, low, high), NotBelow(P, pos, low, high))
    BY <1>1, <2>1, WalkFromLists
  <2> QED BY <2>3, <2>5, <2>6 DEF WalkAll
<1> QED BY <1>2, <1>3

\* What a list in place says of two of its members.
LEMMA ListedInPlace ==
  ASSUME NEW P, NEW pos, NEW low, NEW high, Seated(P, pos, low, high), NEW s, Lists(s, P, InPlace(P, pos))
  PROVE  /\ s \in Seq(P) /\ Len(s) \in Nat /\ DOMAIN s = 1 .. Len(s)
         /\ \A i \in 1 .. Len(s) : s[i] \in P
         /\ \A i, j \in 1 .. Len(s) : i < j <=> pos[s[i]] < pos[s[j]]
         /\ \A i, j \in 1 .. Len(s) : s[i] = s[j] => i = j
         /\ \A k \in P : \E i \in 1 .. Len(s) : s[i] = k
<1>1. /\ \A a, b : <<a, b>> \in InPlace(P, pos) <=> a \in P /\ b \in P /\ pos[a] < pos[b]
      /\ OneWay(InPlace(P, pos))
  BY InPlaceIs
<1>2. s \in Seq(P) /\ Len(s) \in Nat /\ DOMAIN s = 1 .. Len(s)
  BY DEF Lists
<1>3. \A i \in 1 .. Len(s) : s[i] \in P
  BY DEF Lists
<1>4. \A i, j \in 1 .. Len(s) : s[i] = s[j] => i = j
  BY <1>1, ListsInject DEF OneWay
<1>5. ASSUME NEW i \in 1 .. Len(s), NEW j \in 1 .. Len(s) PROVE i < j <=> pos[s[i]] < pos[s[j]]
  <2>1. /\ i < j => pos[s[i]] < pos[s[j]]
        /\ j < i => pos[s[j]] < pos[s[i]]
    BY <1>1 DEF Lists
  <2>2. pos[s[i]] \in Int /\ pos[s[j]] \in Int
    BY <1>3 DEF Seated
  <2>3. i \in Int /\ j \in Int
    OBVIOUS
  <2>4. i < j \/ i = j \/ j < i
    BY ONLY <2>3
  <2>5. CASE i = j
    BY ONLY <2>2, <2>3, <2>5
  <2> QED BY ONLY <2>1, <2>2, <2>3, <2>4, <2>5
<1>6. \A k \in P : \E i \in 1 .. Len(s) : s[i] = k
  BY DEF Lists
<1> QED BY <1>2, <1>3, <1>4, <1>5, <1>6

\* The invariant says no less than that the walks of the idle tree are right.
LEMMA InvWalks == TreeInv => WalksAgree
<1> SUFFICES ASSUME TreeInv, op = Idle
             PROVE  LET all == RWalk(tree.root)
                        pre == WalkAll("preorder")
                    IN /\ Visits(all, Present)
                       /\ \A i \in 1 .. Len(all) - 1 : all[i].key <= all[i + 1].key
                       /\ \A i \in DOMAIN all : NextOf(all[i]) = IF i = Len(all) THEN Nil ELSE all[i + 1]
                       /\ WalkAll("inorder") = all
                       /\ \A i \in DOMAIN all :
                            \E first \in {i, i + 1} :
                              WalkFrom(all[i], "right", "inorder") = SubSeq(all, first, Len(all))
                       /\ Visits(pre, Present)
                       /\ \A i, j \in DOMAIN pre : i < j => pre[i] \notin Below(pre[j])
  BY DEF WalksAgree
<1> DEFINE all == RWalk(tree.root)
           pre == WalkAll("preorder")
<1>1. PICK pos, low, high, black : InOrder(tree, Linked, op, pos, low, high, black)
  BY DEF TreeInv
<1>2. /\ Linked = held /\ tree \in Tree
      /\ Shape(tree, held, pos, low, high) /\ Ordered(held, pos) /\ OthersBare(tree, held)
  BY <1>1, IdleIs
<1>3. Present = held
  <2>1. Shape(tree, Linked, pos, low, high)
    BY <1>2
  <2> QED BY ONLY <1>2, <2>1, PresentIs
<1>4. Nil \notin held /\ Seated(held, pos, low, high) /\ tree.root \in held \cup {Nil} /\ "right" \in Way
  BY <1>2, TreeAssumption DEF TreeInv, Shape, Joined, Way
<1> DEFINE L == InPlace(held, pos)
           M == NotBelow(held, pos, low, high)
<1>5. Lists(all, held, L)
  <2>1. Part(tree.root, held, pos, low, high) = held
    <3>1. CASE tree.root = Nil
      BY <1>2, <1>4, <3>1 DEF Part, Shape, Joined
    <3>2. CASE tree.root # Nil
      BY <1>2, <1>4, <3>2 DEF Part, Shape, Full
    <3> QED BY <3>1, <3>2
  <2>2. Lists(RWalk(tree.root), Part(tree.root, held, pos, low, high), InPlace(held, pos))
    BY ONLY <1>2, <1>4, RWalkLists
  <2> QED BY <2>1, <2>2
<1>6. Lists(WalkAll("inorder"), held, L) /\ Lists(pre, held, M)
  BY ONLY <1>2, <1>3, WalkAllLists
<1>7. OneWay(L) /\ \A a, b : <<a, b>> \in L <=> a \in held /\ b \in held /\ pos[a] < pos[b]
  BY <1>4, InPlaceIs
<1> HIDE DEF all, pre, L
<1>8. WalkAll("inorder") = all
  BY <1>5, <1>6, <1>7, ListsUnique
<1>9. /\ all \in Seq(held) /\ Len(all) \in Nat /\ DOMAIN all = 1 .. Len(all)
      /\ \A i \in 1 .. Len(all) : all[i] \in held
      /\ \A i, j \in 1 .. Len(all) : i < j <=> pos[all[i]] < pos[all[j]]
      /\ \A i, j \in 1 .. Len(all) : all[i] = all[j] => i = j
      /\ \A k \in held : \E i \in 1 .. Len(all) : all[i] = k
  BY <1>4, <1>5, ListedInPlace DEF L
<1>10. Visits(all, Present)
  BY <1>3, <1>9 DEF Visits
<1>11. \A i \in 1 .. Len(all) - 1 : all[i].key <= all[i + 1].key
  <2> SUFFICES ASSUME NEW i \in 1 .. Len(all) - 1 PROVE all[i].key <= all[i + 1].key
    OBVIOUS
  <2>1. i \in 1 .. Len(all) /\ i + 1 \in 1 .. Len(all) /\ i < i + 1
    BY <1>9
  <2>2. all[i] \in held /\ all[i + 1] \in held /\ pos[all[i]] < pos[all[i + 1]]
    BY <1>9, <2>1
  <2> QED BY <1>2, <2>2 DEF Ordered
<1>12. ASSUME NEW i \in 1 .. Len(all) PROVE NextOf(all[i]) = IF i = Len(all) THEN Nil ELSE all[i + 1]
  <2> DEFINE n == all[i]
             y == NextOf(n)
  <2>1. n \in held /\ i \in Nat
    BY <1>9
  <2>2. Neighbour(y, n, "right", held, pos)
    BY ONLY <1>2, <2>1, NextOfIsNeighbour
  <2> HIDE DEF y
  <2>3. IF y = Nil THEN \A k \in held : ~(pos[n] < pos[k])
        ELSE y \in held /\ pos[n] < pos[y] /\ \A k \in held : pos[n] < pos[k] => ~(pos[k] < pos[y])
    BY <2>2 DEF Neighbour, Past
  <2>4. ASSUME y # Nil PROVE i + 1 \in 1 .. Len(all) /\ y = all[i + 1]
    <3>1. PICK j \in 1 .. Len(all) : all[j] = y
      BY <1>9, <2>3, <2>4
    <3>2. i < j
      BY <1>9, <2>3, <2>4, <3>1
    <3>3. i + 1 \in 1 .. Len(all) /\ i < i + 1 /\ j \in Nat
      BY <1>9, <2>1, <3>2
    <3>4. ~(i + 1 < j)
      <4>1. all[i + 1] \in held /\ pos[n] < pos[all[i + 1]]
        BY <1>9, <3>3
      <4>2. ~(pos[all[i + 1]] < pos[all[j]])
        BY <2>3, <2>4, <3>1, <4>1
      <4> QED BY <1>9, <3>3, <4>2
    <3>5. j = i + 1
      BY ONLY <2>1, <3>2, <3>3, <3>4
    <3> QED BY <3>1, <3>3, <3>5
  <2>5. ASSUME i # Len(all) PROVE y # Nil
    <3>1. i + 1 \in 1 .. Len(all) /\ i < i + 1
      <4>1. Len(all) \in Nat /\ i \in 1 .. Len(all) /\ i # Len(all)
        BY <1>9, <2>5
      <4> QED BY ONLY <4>1
    <3>2. all[i + 1] \in held /\ pos[n] < pos[all[i + 1]]
      BY <1>9, <3>1
    <3> QED BY <2>3, <3>2
  <2>6. ASSUME i = Len(all) PROVE y = Nil
    <3>1. i + 1 \notin 1 .. Len(all)
      BY <1>9, <2>6
    <3> QED BY <2>4, <3>1
  <2>7. y = IF i = Len(all) THEN Nil ELSE all[i + 1]
    BY <2>4, <2>5, <2>6
  <2> QED BY <2>7 DEF y
<1>13. ASSUME NEW i \in 1 .. Len(all) PROVE WalkFrom(all[i], "right", "inorder") = SubSeq(all, i + 1, Len(all))
  <2> DEFINE n == all[i]
             R == {b \in held : <<n, b>> \in L}
  <2>1. n \in held
    BY <1>9
  <2>2. Lists(SubSeq(all, i + 1, Len(all)), R, L)
    BY <1>5, <1>7, ListsRest
  <2>3. Ahead(n, "right", held, pos, low, high) = R
    BY <1>7, <2>1 DEF Ahead
  <2>4. Lists(WalkFrom(n, "right", "inorder"), Ahead(n, "right", held, pos, low, high), L)
    BY ONLY <1>2, <1>3, <1>4, <2>1, WalkFromLists DEF L
  <2> HIDE DEF R, n
  <2>5. Lists(WalkFrom(n, "right", "inorder"), R, L)
    BY <2>3, <2>4
  <2>6. WalkFrom(n, "right", "inorder") = SubSeq(all, i + 1, Len(all))
    BY <1>7, <2>2, <2>5, ListsUnique
  <2> QED BY <2>6 DEF n
<1>14. /\ pre \in Seq(held) /\ DOMAIN pre = 1 .. Len(pre) /\ \A i \in 1 .. Len(pre) : pre[i] \in held
       /\ \A k \in held : \E i \in 1 .. Len(pre) : pre[i] = k
  <2>1. pre \in Seq(held) /\ {pre[i] : i \in 1 .. Len(pre)} = held
    BY <1>6 DEF Lists
  <2>2. DOMAIN pre = 1 .. Len(pre)
    BY <2>1
  <2> QED BY ONLY <2>1, <2>2
<1>15. \A a, b : <<a, b>> \in M <=> a \in held /\ b \in held /\ ~At(a, b, pos, low, high)
  BY DEF NotBelow
<1> HIDE DEF M
<1>16. \A a : <<a, a>> \notin M
  <2>1. \A a \in held : At(a, a, pos, low, high)
    BY <1>4 DEF Seated, At
  <2> QED BY <1>15, <2>1
<1>17. Visits(pre, Present)
  <2>1. \A i, j \in 1 .. Len(pre) : pre[i] = pre[j] => i = j
    BY <1>6, <1>16, ListsInject
  <2> QED BY <1>3, <1>14, <2>1 DEF Visits
<1>18. \A i, j \in DOMAIN pre : i < j => pre[i] \notin Below(pre[j])
  <2> SUFFICES ASSUME NEW i \in 1 .. Len(pre), NEW j \in 1 .. Len(pre), i < j PROVE pre[i] \notin Below(pre[j])
    BY <1>14
  <2>1. <<pre[i], pre[j]>> \in M
    BY <1>6 DEF Lists
  <2>2. pre[j] \in held /\ ~At(pre[i], pre[j], pos, low, high)
    BY <1>15, <2>1
  <2>3. \A m \in held \cup {Nil} : Below(m) = Part(m, held, pos, low, high)
    BY ONLY <1>2, BelowIs
  <2> QED BY <2>2, <2>3 DEF Part
<1> QED BY <1>8, <1>9, <1>10, <1>11, <1>12, <1>13, <1>17, <1>18 DEF all, pre

\* std_rbtree_getexact, _getexactornext, _getexactorprev, _getnext and _getfirst
\* return, by whatever way they went down and back, a node with the key that
\* the keys of all nodes in the tree say, and the null pointer if there is none.
THEOREM SearchesAreRight == TreeSpec => []SearchesAgree
BY TreeInvHolds, InvSearches, PTL

\* _std_rbtree_walk visits every node once in the order of the keys, as
\* _std_rbtree_rwalk and a repeated _std_rbtree_getnext do, from a node misses none
\* behind it, and in preorder comes to every node before those below it.
THEOREM WalksAreRight == TreeSpec => []WalksAgree
BY TreeInvHolds, InvWalks, PTL

\* The searches of std_rbtree.c and its walks of the whole tree, both, return what the
\* tree's content says.  Of a walk from a key the statement leaves open whether it
\* visits the node with that key, as std_rbtree.h says, or begins behind it.
THEOREM LookupsAreRight == TreeSpec => []TreeLookupsAgree
<1>1. SearchesAgree /\ WalksAgree => TreeLookupsAgree
  BY DEF TreeLookupsAgree
<1> QED BY <1>1, SearchesAreRight, WalksAreRight, PTL
=============================================================================
