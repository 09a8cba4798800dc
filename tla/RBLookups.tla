------------------------------ MODULE RBLookups ------------------------------
(***************************************************************************)
(* The look-ups and the walks of std_rbtree.c.                             *)
(***************************************************************************)
EXTENDS RBTree

\* The search for key that ends at the nearest node on side s.
ExactOr(key, s) ==
  LET at[n \in Node] ==
        IF n = Nil \/ n.key = key THEN n
        ELSE IF Toward(n, key) # Nil THEN at[Toward(n, key)]
        ELSE IF key < n.key <=> s = "left" THEN Back(n, s) ELSE n
  IN at[tree.root]

\* std_rbtree_getfirst, _getexactornext, _getexactorprev.
GetFirst            == Outermost(tree.root, "left")

\* A mutant of GetExactOrNext: no way back.
ExactOrBelow(key) == GetExact(key)
GetExactOrNext(key) == ExactOr(key, "right")
GetExactOrPrev(key) == ExactOr(key, "left")

\* std_rbtree_getnext.
GetNext(key) == IF GetExact(key) # Nil THEN NextOf(GetExact(key)) ELSE GetExactOrNext(key)
----------------------------------------------------------------------------
(* _std_rbtree_walk.                                                       *)

Way == {"down", "right", "up"}

\* The walk goes up from n; it comes from the left of whom it comes to.
GoesUp(n, way) == way = "up" \/ (way = "right" /\ RightOf(n) = Nil)
FromLeft(n)    == Parent(n) # Nil /\ n = LeftOf(Parent(n))

\* One turn of the loop: where the walk is after it, and whom it calls for.
Onward(n, way) ==
  IF GoesUp(n, way) THEN <<Parent(n), IF FromLeft(n) THEN "right" ELSE "up">>
  ELSE IF way = "right" THEN <<RightOf(n), "down">>
  ELSE IF LeftOf(n) # Nil THEN <<LeftOf(n), "down">> ELSE <<n, "right">>

Calls(n, way, order) ==
  IF GoesUp(n, way) THEN IF FromLeft(n) /\ order = "inorder" THEN <<Parent(n)>> ELSE <<>>
  ELSE IF way = "down" /\ (LeftOf(n) = Nil \/ order = "preorder") THEN <<n>> ELSE <<>>

\* What is still called for at n.
WalkFrom(n, way, order) ==
  LET walk[at \in (Present \cup {Nil}) \X Way] ==
        IF at[1] = Nil THEN <<>>
        ELSE Calls(at[1], at[2], order) \o walk[Onward(at[1], at[2])]
  IN walk[<<n, way>>]

\* std_rbtree_walk of all, and from a key.
WalkAll(order)       == WalkFrom(tree.root, "down", order)
WalkKey(key, order)  ==
  IF GetExactOrNext(key) = Nil THEN WalkAll(order) ELSE WalkFrom(GetExactOrNext(key), "right", order)

\* _std_rbtree_rwalk.
RWalk(n) ==
  LET walk[m \in Node] == IF m = Nil THEN <<>> ELSE walk[LeftOf(m)] \o <<m>> \o walk[RightOf(m)]
  IN walk[n]
----------------------------------------------------------------------------
\* n has the lowest, or the highest, of the keys ks, and is nobody if there are none.
HasLowest(n, ks)  == IF ks = {} THEN n = Nil ELSE n \in Present /\ n.key \in ks /\ \A k \in ks : n.key <= k
HasHighest(n, ks) == IF ks = {} THEN n = Nil ELSE n \in Present /\ n.key \in ks /\ \A k \in ks : n.key >= k

\* The look-ups of std_rbtree.c, by whatever way the search takes and turns
\* back, return what the keys in the tree say, equal keys or not.
SearchesAgree ==
  op = Idle =>
    LET keys == {d.key : d \in Present}
    IN /\ \A k \in {d.key : d \in Data} :
            /\ HasLowest(GetExact(k), keys \cap {k})
            /\ HasLowest(GetExactOrNext(k), {j \in keys : j >= k})
            /\ HasHighest(GetExactOrPrev(k), {j \in keys : j <= k})
            /\ k \notin keys => HasLowest(GetNext(k), {j \in keys : j > k})
       /\ HasLowest(GetFirst, keys)

\* s goes through the data ds once.
Visits(s, ds) == {s[i] : i \in DOMAIN s} = ds /\ \A i, j \in DOMAIN s : s[i] = s[j] => i = j

\* The walks of std_rbtree.c go through all the data once: in the order of their
\* keys, by the iterative walk as by the recursive one and from one to the
\* next; or every node before those below it.  A walk from a node misses nothing
\* behind it.  Whether it begins at that node or behind it is left open: the header
\* says the one and the code does the other, see WalksBeginAtKeys.
WalksAgree ==
  op = Idle =>
    LET all == RWalk(tree.root)
        pre == WalkAll("preorder")
    IN /\ Visits(all, Present)
       /\ \A i \in 1 .. Len(all) - 1 : all[i].key <= all[i + 1].key
       /\ \A i \in DOMAIN all : NextOf(all[i]) = IF i = Len(all) THEN Nil ELSE all[i + 1]
       /\ WalkAll("inorder") = all
       /\ \A i \in DOMAIN all :
            \E first \in {i, i + 1} : WalkFrom(all[i], "right", "inorder") = SubSeq(all, first, Len(all))
       /\ Visits(pre, Present)
       /\ \A i, j \in DOMAIN pre : i < j => pre[i] \notin Below(pre[j])

\* What is read from the tree between the changes is right: a node with the key the
\* search is for, and all of them in order.
TreeLookupsAgree == SearchesAgree /\ WalksAgree

\* What std_rbtree.h:357-361 says of std_rbtree_walk from a key, that it "begins
\* from the node with that key (or greater) onwards", and std_rbtree.h:498-500 of
\* _std_rbtree_walk, that "x is inclusive".  The code begins behind that node.
WalksBeginAtKeys ==
  op = Idle =>
    \A k \in {d.key : d \in Present} :
      WalkKey(k, "inorder") # <<>> /\ Head(WalkKey(k, "inorder")) = GetExactOrNext(k)

\* So a walk from a key above all others visits nobody.  The code takes the
\* null pointer of the search for the caller's and walks the whole tree.
NothingIsAbove ==
  op = Idle =>
    \A k \in {d.key : d \in Data} : (\A d \in Present : d.key < k) => WalkKey(k, "inorder") = <<>>
=============================================================================
