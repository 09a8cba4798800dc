------------------------------- MODULE Radix -------------------------------
(***************************************************************************)
(* The radix tree of std_radix.c and its walk by versions.  A node is      *)
(* named by the bits that lead to it: their number is rtn_bit, and the     *)
(* bits never change while the node is allocated.  Of rtn_flags there is   *)
(* RDX_RN_DELE_BIT.                                                        *)
(*                                                                         *)
(* The tree is used by one thread.  What makes it hard is that the         *)
(* function versionwalk calls for a head may insert, remove, give versions *)
(* and walk: the walks under way form a stack, whose last one runs, or     *)
(* waits for its callback.                                                 *)
(*                                                                         *)
(* A head that is not in the tree is with its user, who clears it before   *)
(* inserting it again; rtt_rmfree is one way to get it back.               *)
(***************************************************************************)
EXTENDS Naturals, Sequences, FiniteSets

CONSTANTS
  Rth,         \* the user's heads: an address, and how much of it counts
  Width,        \* rtt_maxaddrlen
  MaxVersion,   \* bound: versions given
  MaxWalks,     \* bound: walks inside one another
  Counts,       \* the values of cnt a walk is started with, 0 for no limit
  NoNode, NoHead

Bit     == {0, 1}
Address == [1 .. Width -> Bit]
Node    == UNION {[1 .. n -> Bit] : n \in 0 .. Width}

ASSUME RadixAssumption ==
  /\ Width \in Nat
  /\ MaxVersion \in Nat
  /\ MaxWalks \in Nat
  /\ Counts \subseteq Nat
  /\ \A h \in Rth : h.addr \in Address /\ h.len \in 0 .. Width
  /\ NoNode \notin Node
  /\ NoHead \notin Rth

KeyOf(h)       == SubSeq(h.addr, 1, h.len)
IsPrefix(p, q) == Len(p) <= Len(q) /\ \A i \in 1 .. Len(p) : p[i] = q[i]

VARIABLES
  node,      \* the allocated nodes
  root,      \* rtt_root
  hnode,     \* rth_rtn of every head; NoNode while its user has it
  hver,      \* rth_version
  version,   \* rtt_version
  walks      \* the walks under way, the innermost last

vars == <<node, root, hnode, hver, version, walks>>

RtNode == [left : Node \cup {NoNode}, right : Node \cup {NoNode}, parent : Node \cup {NoNode},
           rth : Rth \cup {NoHead}, dele : BOOLEAN, lock : 0 .. MaxWalks, version : 0 .. MaxVersion]

\* A walk is "run"ning, in the "call"back for rtn, or has reached its count
\* and "sweep"s the marked nodes from at to the root.  last and clean are of no
\* use to the code: the node of the last callback, and whether the walk has
\* itself removed no node yet.
Walk == [phase : {"run", "call", "sweep"}, rtn : Node \cup {NoNode}, at : Node \cup {NoNode},
         dir : {"down", "right", "up"}, unlimited : BOOLEAN, left : Nat, min : 0 .. MaxVersion, max : 0 .. MaxVersion,
         last : Node \cup {NoNode}, clean : BOOLEAN]

Init ==
  /\ node = [n \in {} |-> NoNode]
  /\ root = NoNode
  /\ hnode = [h \in Rth |-> NoNode]
  /\ hver = [h \in Rth |-> 0]
  /\ version = 0
  /\ walks = <<>>

Nodes     == DOMAIN node
WithUser  == {h \in Rth : hnode[h] = NoNode}
InTable   == {h \in Rth \ WithUser : ~node[hnode[h]].dele}
NoneMarked == \A n \in Nodes : ~node[n].dele

\* The user's code runs when no walk does.
UserRuns == walks # <<>> => walks[Len(walks)].phase = "call"
----------------------------------------------------------------------------
(* Insertion.                                                              *)

Child(n, addr) == IF addr[Len(n) + 1] = 1 THEN node[n].right ELSE node[n].left

\* The first bit in which a and b differ, or max.
FirstDifference(a, b, max) ==
  CHOOSE d \in 0 .. max :
    /\ \A i \in 1 .. d : a[i] = b[i]
    /\ d < max => a[d + 1] # b[d + 1]

Least(a, b) == IF a <= b THEN a ELSE b

\* The node with a head where the search for addr, a prefix of len bits,
\* ends: at len bits or more, or where there is no child to go to.
FarthestHead(addr, len) ==
  LET down[n \in Nodes] ==
        IF (Len(n) < len \/ node[n].rth = NoHead) /\ Child(n, addr) # NoNode
          THEN down[Child(n, addr)] ELSE n
  IN down[root]

\* The highest node above n whose parent has fewer than d bits.
ClimbTo(n, d) ==
  LET up[m \in Nodes] ==
        IF node[m].parent # NoNode /\ Len(node[m].parent) >= d THEN up[node[m].parent] ELSE m
  IN up[n]

NewNode(rth, parent, left, right, ver) ==
  [left |-> left, right |-> right, parent |-> parent, rth |-> rth, dele |-> FALSE, lock |-> 0,
   version |-> ver]

\* The nodes of t and the new one n.
WithNode(t, n, new) == [m \in DOMAIN t \cup {n} |-> IF m = n THEN new ELSE t[m]]

\* The nodes of t with the child old of p replaced by new, if there is a p.
Relink(t, p, old, new) ==
  IF p = NoNode THEN t
  ELSE IF t[p].right = old THEN [t EXCEPT ![p].right = new]
  ELSE [t EXCEPT ![p].left = new]

\* Where h belongs: the node the search comes to and the first bit that
\* tells it from h.
Position(h) ==
  LET far  == FarthestHead(h.addr, h.len)
      dbit == FirstDifference(h.addr, node[far].rth.addr, Least(Len(far), h.len))
  IN [rtn |-> ClimbTo(far, dbit), dbit |-> dbit, his |-> node[far].rth.addr]

Give(h, n) ==
  /\ hnode' = [hnode EXCEPT ![h] = n]
  /\ UNCHANGED <<hver, version, walks>>

InsertFirst(h) ==
  /\ root = NoNode
  /\ root' = KeyOf(h)
  /\ node' = WithNode(node, KeyOf(h), NewNode(h, NoNode, NoNode, NoNode, 0))
  /\ Give(h, KeyOf(h))

\* Two mutants of InsertAtNode: h takes the place of a head that is not marked
\* as well; a marked head is forgotten.
InsertOver(h) ==
  LET rtn == Position(h).rtn
      old == node[rtn].rth
  IN /\ Len(rtn) = Position(h).dbit /\ Position(h).dbit = h.len
     /\ node' = [node EXCEPT ![rtn].rth = h, ![rtn].dele = FALSE]
     /\ hnode' = [g \in Rth |-> IF g = h THEN rtn ELSE IF g = old THEN NoNode ELSE hnode[g]]
     /\ hver' = [g \in Rth |-> IF g = old THEN 0 ELSE hver[g]]
     /\ UNCHANGED <<root, version, walks>>
InsertInPlaceOfOld(h) ==
  LET rtn == Position(h).rtn
      old == node[rtn].rth
  IN /\ Len(rtn) = Position(h).dbit /\ Position(h).dbit = h.len
     /\ old = NoHead \/ node[rtn].dele
     /\ node' = [node EXCEPT ![rtn].rth = h, ![rtn].dele = FALSE]
     /\ hnode' = [hnode EXCEPT ![h] = rtn]
     /\ UNCHANGED <<root, hver, version, walks>>

\* There is a node for the prefix.  A head that is there, and is not marked,
\* stays and h is not added (the state does not change); one that is marked
\* goes back to its user.
InsertAtNode(h) ==
  LET rtn == Position(h).rtn
      old == node[rtn].rth
  IN /\ Len(rtn) = Position(h).dbit /\ Position(h).dbit = h.len
     /\ old = NoHead \/ node[rtn].dele
     /\ node' = [node EXCEPT ![rtn].rth = h, ![rtn].dele = FALSE]
     /\ hnode' = [g \in Rth |-> IF g = h THEN rtn ELSE IF g = old THEN NoNode ELSE hnode[g]]
     /\ hver' = [g \in Rth |-> IF g = old THEN 0 ELSE hver[g]]
     /\ UNCHANGED <<root, version, walks>>

InsertBelow(h) ==
  LET pos == Position(h)
      n   == KeyOf(h)
  IN /\ Len(pos.rtn) = pos.dbit
     /\ pos.dbit # h.len
     /\ node' = WithNode([node EXCEPT ![pos.rtn] = IF h.addr[pos.dbit + 1] = 1 THEN [@ EXCEPT !.right = n]
                                                                               ELSE [@ EXCEPT !.left = n]],
                         n, NewNode(h, pos.rtn, NoNode, NoNode, 0))
     /\ UNCHANGED root
     /\ Give(h, n)

\* The new node n takes the place of rtn and gets it as a child.
InPlaceOf(rtn, n, new) == WithNode(Relink([node EXCEPT ![rtn].parent = n], node[rtn].parent, rtn, n), n, new)
RootWith(rtn, n)       == IF node[rtn].parent = NoNode THEN n ELSE root

\* h is on the way to rtn.
InsertBetween(h) ==
  LET pos == Position(h)
      rtn == pos.rtn
      n   == KeyOf(h)
      right == pos.his[h.len + 1] = 1
  IN /\ Len(rtn) # pos.dbit
     /\ pos.dbit = h.len
     /\ node' = InPlaceOf(rtn, n, NewNode(h, node[rtn].parent, IF right THEN NoNode ELSE rtn,
                                          IF right THEN rtn ELSE NoNode, node[rtn].version))
     /\ root' = RootWith(rtn, n)
     /\ Give(h, n)

\* A mutant of InsertSplit: the node without a head starts with no version.
InsertSplitUnversioned(h) ==
  LET pos == Position(h)
      rtn == pos.rtn
      n   == KeyOf(h)
      glue == SubSeq(h.addr, 1, pos.dbit)
      right == h.addr[pos.dbit + 1] = 1
  IN /\ Len(rtn) # pos.dbit
     /\ pos.dbit # h.len
     /\ node' = WithNode(InPlaceOf(rtn, glue, NewNode(NoHead, node[rtn].parent, IF right THEN rtn ELSE n,
                                                      IF right THEN n ELSE rtn, 0)),
                         n, NewNode(h, glue, NoNode, NoNode, 0))
     /\ root' = RootWith(rtn, glue)
     /\ Give(h, n)

\* h and rtn part at dbit: a node without a head gets both.
InsertSplit(h) ==
  LET pos == Position(h)
      rtn == pos.rtn
      n   == KeyOf(h)
      glue == SubSeq(h.addr, 1, pos.dbit)
      right == h.addr[pos.dbit + 1] = 1
  IN /\ Len(rtn) # pos.dbit
     /\ pos.dbit # h.len
     /\ node' = WithNode(InPlaceOf(rtn, glue, NewNode(NoHead, node[rtn].parent, IF right THEN rtn ELSE n,
                                                      IF right THEN n ELSE rtn, node[rtn].version)),
                         n, NewNode(h, glue, NoNode, NoNode, 0))
     /\ root' = RootWith(rtn, glue)
     /\ Give(h, n)

\* std_radix_insert.  Of the allocations that may fail, in all but the first
\* case, nothing remains.
Insert(h) ==
  /\ UserRuns
  /\ h \in WithUser
  /\ \/ InsertFirst(h)
     \/ root # NoNode /\ (InsertAtNode(h) \/ InsertBelow(h) \/ InsertBetween(h) \/ InsertSplit(h))
----------------------------------------------------------------------------
(* Removal.                                                                *)

Without(t, n) == [m \in DOMAIN t \ {n} |-> t[m]]
HeadsOf(rth)  == IF rth = NoHead THEN {} ELSE {rth}

\* What is left when n of the tree t, which has one child and no head, or a
\* head that goes, is replaced by its child; and where a walk goes on.
Promote(t, r, n) ==
  LET prev  == t[n].parent
      child == IF t[n].left # NoNode THEN t[n].left ELSE t[n].right
  IN [node |-> Without(Relink([t EXCEPT ![child].parent = prev], prev, n, child), n),
      root |-> IF prev = NoNode THEN child ELSE r,
      rtn  |-> IF t[n].left # NoNode THEN prev ELSE child,
      dir  |-> IF t[n].left # NoNode THEN "right" ELSE "down"]

\* A node with two children stays, without its head and with its mark.
KeepNode(n) ==
  [node |-> [node EXCEPT ![n].rth = NoHead], root |-> root, rtn |-> node[n].parent, dir |-> "up"]

\* A node without children goes, and with it the node above if that has no
\* head: it had two children.
DropLeaf(n, dir) ==
  LET prev == node[n].parent
      left == prev # NoNode /\ node[prev].left = n
      t    == Without(Relink(node, prev, n, NoNode), n)
  IN CASE prev = NoNode -> [node |-> t, root |-> NoNode, rtn |-> NoNode, dir |-> dir]
       [] prev # NoNode /\ node[prev].rth # NoHead ->
            [node |-> t, root |-> root, rtn |-> prev, dir |-> IF left THEN "right" ELSE "up"]
       [] OTHER -> Promote(t, root, prev)

\* A mutant of Removed: the node above a leaf is left without a head and with
\* one child.
RemovedLeafOnly(n, dir) ==
  LET prev == node[n].parent
  IN CASE node[n].left # NoNode /\ node[n].right # NoNode -> KeepNode(n)
       [] node[n].left = NoNode /\ node[n].right = NoNode ->
            [node |-> Without(Relink(node, prev, n, NoNode), n), root |-> IF prev = NoNode THEN NoNode ELSE root,
             rtn |-> prev, dir |-> dir]
       [] OTHER -> Promote(node, root, n)

\* _std_radix_remove(n): the tree it leaves, and the node and the direction
\* it gives to the walk that called it.
Removed(n, dir) ==
  CASE node[n].left # NoNode /\ node[n].right # NoNode -> KeepNode(n)
    [] node[n].left = NoNode /\ node[n].right = NoNode -> DropLeaf(n, dir)
    [] OTHER -> Promote(node, root, n)

\* n is removed and its head, if it has one, goes back to the user.
Becomes(n, after) ==
  /\ node' = after.node
  /\ root' = after.root
  /\ hnode' = [h \in Rth |-> IF h = node[n].rth THEN NoNode ELSE hnode[h]]
  /\ hver' = [h \in Rth |-> IF h = node[n].rth THEN 0 ELSE hver[h]]
  /\ UNCHANGED version

\* A mutant of Remove: a node a walk stands on is removed at once.
RemoveAtOnce(h) ==
  /\ UserRuns
  /\ h \in InTable
  /\ Becomes(hnode[h], Removed(hnode[h], "up"))
  /\ UNCHANGED walks

\* std_radix_remove: a node that is locked is marked.
Remove(h) ==
  /\ UserRuns
  /\ h \in InTable
  /\ IF node[hnode[h]].lock > 0
       THEN /\ node' = [node EXCEPT ![hnode[h]].dele = TRUE]
            /\ UNCHANGED <<root, hnode, hver, version>>
       ELSE Becomes(hnode[h], Removed(hnode[h], "up"))
  /\ UNCHANGED walks

\* std_radix_init, for a tree whose nodes have been removed.
Reset ==
  /\ root = NoNode
  /\ walks = <<>>
  /\ version' = 0
  /\ UNCHANGED <<node, root, hnode, hver, walks>>
----------------------------------------------------------------------------
(* Versions, and the walk.                                                 *)

\* n and the nodes above it.
UpFrom(n) ==
  LET up[m \in Nodes] == {m} \cup IF node[m].parent = NoNode THEN {} ELSE up[node[m].parent]
  IN up[n]

\* std_radix_setversion.
SetVersion(h) ==
  /\ UserRuns
  /\ h \in InTable
  /\ version < MaxVersion
  /\ version' = version + 1
  /\ hver' = [hver EXCEPT ![h] = version']
  /\ node' = [n \in Nodes |-> IF n \in UpFrom(hnode[h]) THEN [node[n] EXCEPT !.version = version'] ELSE node[n]]
  /\ UNCHANGED <<root, hnode, walks>>

\* std_radix_versionwalk is called, for all the tree.
BeginWalk(cnt, min, max) ==
  /\ UserRuns
  /\ Len(walks) < MaxWalks
  /\ walks' = Append(walks,
       [phase |-> "run", rtn |-> root, at |-> NoNode, dir |-> "down", unlimited |-> cnt = 0, left |-> cnt,
        min |-> min, max |-> max, last |-> NoNode, clean |-> TRUE])
  /\ UNCHANGED <<node, root, hnode, hver, version>>

top     == walks[Len(walks)]
Top(w)  == walks' = [walks EXCEPT ![Len(walks)] = w]
GoesOn(w) == w.unlimited \/ w.left > 0
Running == walks # <<>> /\ top.phase = "run" /\ GoesOn(top) /\ top.rtn # NoNode
InRange(n, w) == node[n].rth # NoHead /\ hver[node[n].rth] \in w.min .. w.max

\* RDX_WALKDOWN behind the callback: to the left, if there is a left.
Descend(w) == IF node[w.rtn].left # NoNode THEN [w EXCEPT !.rtn = node[w.rtn].left]
                                           ELSE [w EXCEPT !.dir = "right"]

\* RDX_WALKDOWN, up to the callback.
WalkDown ==
  /\ Running /\ top.dir = "down"
  /\ \/ /\ node[top.rtn].version < top.min
        /\ Top([top EXCEPT !.dir = "up"])
        /\ UNCHANGED node
     \/ /\ node[top.rtn].version >= top.min
        /\ ~InRange(top.rtn, top)
        /\ Top(Descend(top))
        /\ UNCHANGED node
     \/ /\ node[top.rtn].version >= top.min
        /\ InRange(top.rtn, top)
        /\ Top([top EXCEPT !.phase = "call", !.left = IF @ > 0 THEN @ - 1 ELSE 0,
                           !.last = top.rtn])
        /\ node' = [node EXCEPT ![top.rtn].lock = @ + 1]
  /\ UNCHANGED <<root, hnode, hver, version>>

\* The callback returns, and may ask the walk to stop.
CallbackReturns(stop) ==
  /\ walks # <<>> /\ top.phase = "call"
  /\ node' = [node EXCEPT ![top.rtn].lock = @ - 1]
  /\ LET w == Descend([top EXCEPT !.phase = "run"])
     IN Top(IF stop THEN [w EXCEPT !.unlimited = FALSE, !.left = 0] ELSE w)
  /\ UNCHANGED <<root, hnode, hver, version>>

WalkRight ==
  /\ Running /\ top.dir = "right"
  /\ IF node[top.rtn].right = NoNode
       THEN Top([top EXCEPT !.dir = "up"])
       ELSE Top([top EXCEPT !.dir = "down", !.rtn = node[top.rtn].right])
  /\ UNCHANGED <<node, root, hnode, hver, version>>

Sweepable(n) == node[n].lock = 0 /\ node[n].dele

\* A mutant of WalkUp: the way up is taken for the left one always.
WalkUpAgain ==
  /\ Running /\ top.dir = "up"
  /\ IF Sweepable(top.rtn)
       THEN LET after == Removed(top.rtn, top.dir)
            IN /\ Becomes(top.rtn, after)
               /\ Top([top EXCEPT !.rtn = after.rtn, !.dir = after.dir, !.clean = FALSE])
       ELSE LET up == node[top.rtn].parent
            IN /\ Top([top EXCEPT !.rtn = up,
                          !.dir = IF up # NoNode /\ node[up].right = top.rtn THEN "right" ELSE "up"])
               /\ UNCHANGED <<node, root, hnode, hver, version>>

\* RDX_WALKUP: the node the walk leaves is removed if it is marked.
WalkUp ==
  /\ Running /\ top.dir = "up"
  /\ IF Sweepable(top.rtn)
       THEN LET after == Removed(top.rtn, top.dir)
            IN /\ Becomes(top.rtn, after)
               /\ Top([top EXCEPT !.rtn = after.rtn, !.dir = after.dir, !.clean = FALSE])
       ELSE LET up == node[top.rtn].parent
            IN /\ Top([top EXCEPT !.rtn = up,
                          !.dir = IF up # NoNode /\ node[up].left = top.rtn THEN "right" ELSE "up"])
               /\ UNCHANGED <<node, root, hnode, hver, version>>

\* The count is reached: the marked nodes between rtn and the root go.
BeginSweep ==
  /\ walks # <<>> /\ top.phase = "run" /\ ~GoesOn(top) /\ top.rtn # NoNode
  /\ Top([top EXCEPT !.phase = "sweep", !.at = top.rtn])
  /\ UNCHANGED <<node, root, hnode, hver, version>>
Sweep ==
  /\ walks # <<>> /\ top.phase = "sweep" /\ top.at # NoNode
  /\ IF Sweepable(top.at)
       THEN LET after == Removed(top.at, top.dir)
            IN /\ Becomes(top.at, after)
               /\ Top([top EXCEPT !.at = after.rtn, !.dir = after.dir, !.clean = FALSE])
       ELSE /\ Top([top EXCEPT !.at = node[top.at].parent])
            /\ UNCHANGED <<node, root, hnode, hver, version>>

WalkIsOver == \/ top.phase = "run" /\ top.rtn = NoNode
              \/ top.phase = "sweep" /\ top.at = NoNode

\* What it returns, the head of rtn, is of no use to the table.
EndWalk ==
  /\ walks # <<>> /\ WalkIsOver
  /\ walks' = SubSeq(walks, 1, Len(walks) - 1)
  /\ UNCHANGED <<node, root, hnode, hver, version>>

Next ==
  \/ \E h \in Rth : Insert(h) \/ Remove(h) \/ SetVersion(h)
  \/ Reset
  \/ \E cnt \in Counts, min, max \in 0 .. version : min <= max /\ BeginWalk(cnt, min, max)
  \/ \E stop \in BOOLEAN : CallbackReturns(stop)
  \/ WalkDown \/ WalkRight \/ WalkUp
  \/ BeginSweep \/ Sweep \/ EndWalk

Spec == Init /\ [][Next]_vars
----------------------------------------------------------------------------
TypeOK ==
  /\ Nodes \subseteq Node
  /\ \A n \in Nodes : node[n] \in RtNode
  /\ root \in Nodes \cup {NoNode}
  /\ hnode \in [Rth -> Nodes \cup {NoNode}]
  /\ hver \in [Rth -> 0 .. version]
  /\ version \in 0 .. MaxVersion
  /\ walks \in Seq(Walk)
  /\ Len(walks) <= MaxWalks

\* The longest prefix of both p and q.
Meet(p, q) == CHOOSE r \in Node : /\ IsPrefix(r, p) /\ IsPrefix(r, q)
                                  /\ \A i \in {Len(r) + 1} : i <= Len(p) /\ i <= Len(q) => p[i] # q[i]

Above(n) == {m \in Nodes : m # n /\ IsPrefix(m, n)}
Under(n, bit) == {m \in Nodes : m # n /\ IsPrefix(n, m) /\ m[Len(n) + 1] = bit}
IsTop(m, ns) == m \in ns /\ \A k \in ns : IsPrefix(m, k)

\* Whatever was inserted and removed, marked and swept, the tree is the only
\* one its heads allow: a node for the prefix of every head, a node where two
\* of them part, no other, and every node between the nearest above and
\* below.  The search relies on every node without a head having two children
\* (std_radix_insert takes the address of the head it ends at).
TreeIsTheHeads ==
  LET keys == {KeyOf(h) : h \in Rth \ WithUser}
  IN /\ Nodes = {Meet(p, q) : p, q \in keys}
     /\ IF Nodes = {} THEN root = NoNode ELSE IsTop(root, Nodes)
     /\ \A h \in Rth \ WithUser : node[hnode[h]].rth = h /\ hnode[h] = KeyOf(h)
     /\ \A n \in Nodes :
          /\ node[n].rth # NoHead => hnode[node[n].rth] = n
          /\ IF Above(n) = {} THEN node[n].parent = NoNode
             ELSE node[n].parent \in Above(n) /\ \A m \in Above(n) : IsPrefix(m, node[n].parent)
          /\ IF Under(n, 0) = {} THEN node[n].left = NoNode ELSE IsTop(node[n].left, Under(n, 0))
          /\ IF Under(n, 1) = {} THEN node[n].right = NoNode ELSE IsTop(node[n].right, Under(n, 1))

\* A walk by versions turns back at a node older than its range: every node
\* is as new as the newest head below it, wherever nodes were put in between
\* or taken out since std_radix_setversion climbed to the root.
VersionsReachUp ==
  \A h \in Rth \ WithUser : \A n \in Above(hnode[h]) \cup {hnode[h]} : node[n].version >= hver[h]

\* A node a callback was called for stays, with a head, until the callback
\* has returned, whatever it and the walks within it do: its lock counts the
\* callbacks that will come back to it.
WalksKeepTheirNodes ==
  /\ \A i \in DOMAIN walks : walks[i].phase = "call" => walks[i].rtn \in Nodes
  /\ \A n \in Nodes :
       /\ node[n].lock = Cardinality({i \in DOMAIN walks : walks[i].phase = "call" /\ walks[i].rtn = n})
       /\ node[n].lock > 0 => node[n].rth # NoHead

\* The order of the walk: a prefix comes before what extends it.
Before(p, q) ==
  /\ ~IsPrefix(q, p)
  /\ IsPrefix(p, q) \/ p[Len(Meet(p, q)) + 1] < q[Len(Meet(p, q)) + 1]

\* What is still ahead of the walk w: the heads in its range behind the last
\* one it was called for, those whose removal is postponed among them.
HeadsAhead(w) ==
  {h \in Rth \ WithUser : hver[h] \in w.min .. w.max /\ (w.last # NoNode => Before(w.last, KeyOf(h)))}

\* The innermost walk calls for the first of the heads ahead of it, and ends
\* by itself only when there is none.
MissesNothing ==
  LET k == Len(walks)
      calls == Len(walks') = k /\ walks'[k].phase = "call" /\ top.phase = "run"
      ends  == Len(walks') < k /\ top.phase = "run"
  IN /\ calls => LET n == walks'[k].last
                 IN /\ node[n].rth \in HeadsAhead(top)
                    /\ \A h \in HeadsAhead(top) : ~Before(KeyOf(h), n)
     /\ ends => HeadsAhead(top) = {}

\* std_radix_versionwalk visits what is in its range in order, once each, and
\* misses nothing, though its callbacks insert, give versions, walk, and remove
\* heads at once or leave them marked, the one they stand on too, and though
\* removals in other walks have left their marks in the tree: up to the moment
\* when the walk itself takes a marked node out on its way up.  From there on
\* WalksMissNothing below is what the code does not do.
CleanWalksMissNothing == [][walks # <<>> /\ top.clean => MissesNothing]_vars

\* std_radix.c:1252 says of removals during a walk that it will "Just mark the
\* node for deletion", "or else we will mess up the walker": so walks miss
\* nothing, and visit nothing twice, in spite of postponed removals too.
WalksMissNothing == [][walks # <<>> => MissesNothing]_vars

\* The tree implements the table of RouteTable.tla.  A marked node is not in
\* the table, nor is its version.
TableOf   == [p \in Node |-> IF p \in Nodes /\ ~node[p].dele THEN node[p].rth ELSE NoHead]
VersionOf == [h \in Rth |-> IF h \in InTable THEN hver[h] ELSE 0]
Table == INSTANCE RouteTable WITH Prefix <- Node, table <- TableOf, hver <- VersionOf
ImplementsTable == Table!Spec
=============================================================================
