---------------------------- MODULE RadixLookups ----------------------------
(***************************************************************************)
(* The look-ups of std_radix.c in the tree of Radix.tla, and the walks     *)
(* that change nothing.  Each is stated a second time, as LookupsAgree     *)
(* reads it, over the set of the heads alone.                              *)
(***************************************************************************)
EXTENDS Radix

\* rdx_compare_address: the first n bits are the same.
SameBits(a, b, n) == \A i \in 1 .. n : a[i] = b[i]

\* Where the search for a node with len bits ends.
Nearest(addr, len) ==
  LET down[n \in Nodes] ==
        IF Len(n) < len /\ Child(n, addr) # NoNode THEN down[Child(n, addr)] ELSE n
  IN down[root]

\* The first node from n up whose head, with at most len bits, is a prefix of
\* addr.
MatchUp(start, addr, len) ==
  LET up[n \in Nodes \cup {NoNode}] ==
        IF n = NoNode THEN NoNode
        ELSE IF /\ Len(n) <= len
                /\ node[n].rth # NoHead
                /\ SameBits(addr, node[n].rth.addr, Len(n)) THEN n
        ELSE up[node[n].parent]
  IN up[start]

HeadUnmarked(n) == IF n = NoNode \/ node[n].dele THEN NoHead ELSE node[n].rth

BestNode(addr, len) == MatchUp(Nearest(addr, len), addr, len)

\* std_radix_getbest, and the second best of std_radix_getbestandprev, which
\* is what std_radix_getnextbest returns.
GetBest(addr, len) == IF root = NoNode THEN NoHead ELSE HeadUnmarked(BestNode(addr, len))

\* A mutant of GetNextBest: the search goes on from the node itself.
GetNextBestSame(addr, len) ==
  IF GetBest(addr, len) = NoHead THEN NoHead
  ELSE HeadUnmarked(MatchUp(BestNode(addr, len), addr, len))
GetNextBest(addr, len) ==
  IF GetBest(addr, len) = NoHead THEN NoHead
  ELSE HeadUnmarked(MatchUp(node[BestNode(addr, len)].parent, addr, len))

\* std_radix_getexact.
GetExact(addr, len) ==
  IF root = NoNode THEN NoHead
  ELSE LET n == Nearest(addr, len)
       IN IF Len(n) = len /\ node[n].rth # NoHead /\ SameBits(addr, node[n].rth.addr, len) THEN HeadUnmarked(n)
          ELSE NoHead

\* std_radix_getparent and std_radix_getlessspecific.
GetParent(h) ==
  LET up[n \in Nodes \cup {NoNode}] ==
        IF n = NoNode THEN NoHead
        ELSE IF node[n].rth # NoHead THEN node[n].rth ELSE up[node[n].parent]
  IN up[node[hnode[h]].parent]

NodeIsLeaf(h) == node[hnode[h]].left = NoNode /\ node[hnode[h]].right = NoNode
----------------------------------------------------------------------------
(* The order of the tree.                                                  *)

\* The node a walk that turns right at the first chance comes to from n.
NextRight(n) ==
  LET up[m \in Nodes] ==
        LET p == node[m].parent
        IN IF p = NoNode THEN NoNode
           ELSE IF node[p].right # NoNode /\ node[p].right # m THEN node[p].right
           ELSE up[p]
  IN up[n]

\* The node behind n in the order of the walk.
NextNode(n) ==
  IF node[n].left # NoNode THEN node[n].left
  ELSE IF node[n].right # NoNode THEN node[n].right
  ELSE NextRight(n)

\* The first node from n on that has a head.
FirstHead(start) ==
  LET on[n \in Nodes \cup {NoNode}] ==
        IF n = NoNode THEN NoHead
        ELSE IF node[n].rth # NoHead THEN node[n].rth ELSE on[NextNode(n)]
  IN on[start]

\* Where std_radix_getnext starts when dest goes to the right at dbit.
RightOf(start, dbit) ==
  LET up[m \in Nodes] ==
        LET p == node[m].parent
        IN IF p = NoNode THEN NoNode
           ELSE IF Len(p) <= dbit /\ node[p].right # NoNode /\ node[p].right # m THEN node[p].right
           ELSE up[p]
  IN up[start]

\* std_radix_getnext.  dest has no bit set behind the first len: the search
\* goes by them when the nodes have more bits.
GetNext(dest, len) ==
  IF root = NoNode THEN NoHead
  ELSE LET far  == FarthestHead(dest, len)
           max  == Least(Len(far), len)
           dbit == FirstDifference(dest, node[far].rth.addr, max)
       IN FirstHead(CASE dbit = max /\ Len(far) <= len -> NextNode(far)
                      [] dbit = max /\ Len(far) > len  -> far
                      [] dbit < max /\ dest[dbit + 1] = 1 -> RightOf(far, dbit)
                      [] OTHER -> ClimbTo(far, dbit + 1))

\* _std_radix_getsubtree: the highest node in the subtree of the prefix.
GetSubtree(addr, len) ==
  IF root = NoNode THEN NoNode
  ELSE IF GetExact(addr, len) # NoHead THEN hnode[GetExact(addr, len)]
  ELSE LET next == GetNext(addr, len)
       IN IF next = NoHead \/ ~SameBits(addr, next.addr, len) THEN NoNode ELSE ClimbTo(hnode[next], len)

Direction == {"down", "right", "up"}

\* std_radix_walk: one turn of its loop, and whom it calls for in it.
Onward(n, dir) ==
  LET p == node[n].parent
  IN CASE dir = "down"  -> IF node[n].left # NoNode THEN <<node[n].left, "down">> ELSE <<n, "right">>
       [] dir = "right" -> IF node[n].right # NoNode THEN <<node[n].right, "down">> ELSE <<n, "up">>
       [] OTHER         -> <<p, IF p # NoNode /\ node[p].left = n THEN "right" ELSE "up">>
CallsFor(n, dir) == IF dir = "down" /\ node[n].rth # NoHead THEN <<node[n].rth>> ELSE <<>>

\* From h, to the right of h, or from the first node: the heads it calls for.
WalkFrom(start, dir) ==
  LET to[at \in (Nodes \cup {NoNode}) \X Direction] ==
        IF at[1] = NoNode THEN <<>> ELSE CallsFor(at[1], at[2]) \o to[Onward(at[1], at[2])]
  IN to[<<start, dir>>]

\* std_radix_powerwalkstart and -end, from the root of a subtree.
NextWithin(top0, n) ==
  LET up[m \in Nodes] ==
        IF m = top0 \/ node[m].parent = NoNode THEN m
        ELSE LET p == node[m].parent
             IN IF node[p].right = m \/ node[p].right = NoNode THEN up[p] ELSE node[p].right
  IN IF node[n].left # NoNode THEN node[n].left
     ELSE IF node[n].right # NoNode THEN node[n].right ELSE up[n]
PowerWalk(top0) ==
  LET Subtree   == {n \in Nodes : IsPrefix(top0, n)}
      Behind(n) == IF NextWithin(top0, n) = top0 THEN NoNode ELSE NextWithin(top0, n)
      from[n \in Subtree \cup {NoNode}] ==
        IF n = NoNode THEN <<>>
        ELSE (IF HeadUnmarked(n) = NoHead THEN <<>> ELSE <<node[n].rth>>) \o from[Behind(n)]
  IN IF top0 = NoNode THEN <<>> ELSE from[top0]
----------------------------------------------------------------------------
(* The same from the set of the heads.                                     *)

Heads        == Rth \ WithUser
Matching(addr, len) == {h \in Heads : h.len <= len /\ SameBits(addr, h.addr, h.len)}
Longest(hs)  == IF hs = {} THEN NoHead ELSE CHOOSE h \in hs : \A g \in hs : g.len <= h.len
First(hs)    == IF hs = {} THEN NoHead ELSE CHOOSE h \in hs : \A g \in hs \ {h} : Before(KeyOf(h), KeyOf(g))
Extending(p) == {h \in Heads : IsPrefix(p, KeyOf(h))}
InOrder(s, hs) == /\ {s[i] : i \in DOMAIN s} = hs
                  /\ \A i, j \in DOMAIN s : i < j => Before(KeyOf(s[i]), KeyOf(s[j]))

NextIs(addr, len) ==
  GetNext(addr, len) = First({h \in Heads : Before(SubSeq(addr, 1, len), KeyOf(h))})

\* While no removal is postponed the look-ups by prefix return what the
\* prefixes of the heads say, for every address and length, whatever was
\* inserted and removed before, in callbacks too: the longest prefixes, the
\* exact one, the less specific one, and whether there are more specific ones.
PrefixesAgree ==
  NoneMarked =>
    /\ \A addr \in Address, len \in 0 .. Width :
         /\ GetBest(addr, len) = Longest(Matching(addr, len))
         /\ GetNextBest(addr, len) = Longest(Matching(addr, len) \ {GetBest(addr, len)})
         /\ GetExact(addr, len) = Longest({h \in Heads : KeyOf(h) = SubSeq(addr, 1, len)})
    /\ \A h \in Heads :
         /\ GetParent(h) = Longest({g \in Heads : g # h /\ IsPrefix(KeyOf(g), KeyOf(h))})
         /\ NodeIsLeaf(h) <=> Extending(KeyOf(h)) = {h}

\* So do those that follow the order: the next after a prefix that is there,
\* and the walks from the first head on, of all and of a subtree, which visit
\* every head, or every head of the subtree, in order, whatever bits there are
\* behind the prefix.  (Not the next after any other prefix, and not a walk
\* from a head: see NextIsNext and WalksBeginAtHeads.)
FollowsTheOrder ==
  /\ \A addr \in Address, len \in 0 .. Width :
       /\ GetExact(addr, len) # NoHead => NextIs(addr, len)
       /\ InOrder(PowerWalk(GetSubtree(addr, len)), Extending(SubSeq(addr, 1, len)))
  /\ InOrder(WalkFrom(root, "down"), Heads)

\* It is checked between walks, and holds in their callbacks too.
OrderAgrees == walks = <<>> /\ NoneMarked => FollowsTheOrder

\* A wrong turn in the tree needs three or four prefixes that part in different
\* bits to be seen in what a look-up of std_radix.c returns.
LookupsAgree == PrefixesAgree /\ OrderAgrees
----------------------------------------------------------------------------
(* Two sentences of std_radix.h that the code does not keep to.            *)

\* std_radix_getnext: "the routine finds ONLY the next one from the given
\* address in the lexicographic order", whatever address it is given.
NextIsNext == walks = <<>> /\ NoneMarked => \A addr \in Address, len \in 0 .. Width : NextIs(addr, len)

\* std_radix_walk: "the walk begins from the node with that key (or greater)
\* onwards".
WalksBeginAtHeads ==
  walks = <<>> /\ NoneMarked =>
    \A h \in Heads : InOrder(WalkFrom(hnode[h], "right"), {g \in Heads : g = h \/ Before(KeyOf(h), KeyOf(g))})
=============================================================================
