------------------------------ MODULE Radical ------------------------------
(***************************************************************************)
(* The change list of std_radical.c: the nodes of a radix tree that have   *)
(* changed, in the order of their last change, each with the version of    *)
(* that change, and among them the markers (the "dummies") of the walkers. *)
(* A walk calls a function of its owner for the nodes behind its marker;   *)
(* while that function runs, nodes may be appended and removed and other   *)
(* walkers may walk.                                                       *)
(*                                                                         *)
(* The doubly linked list of std_llist.c is a strict total order: linked   *)
(* is the set of its items and before the pairs of items of which the      *)
(* first comes before the second.                                          *)
(***************************************************************************)
EXTENDS Naturals, FiniteSets

CONSTANTS
  Route,        \* the nodes of the tree that may change
  Walker,       \* the walkers
  NoRoute,
  MaxChanges,   \* bound: the number of changes
  MaxNodes,     \* bound: the limits a walk is called with
  Restless      \* callbacks may ask to revisit a node though they have
                \* appended it again or begun their walk again meanwhile

Item == Route \cup Walker

ASSUME RadicalAssumption ==
  /\ Route \cap Walker = {}
  /\ IsFiniteSet(Route)
  /\ NoRoute \notin Route
  /\ MaxChanges \in Nat
  /\ MaxNodes \in Nat
  /\ Restless \in BOOLEAN

VARIABLES
  linked,    \* the items of rtt_clhead
  before,    \* their order
  versions,  \* rth_version of the nodes and of the markers
  last,      \* rtt_version
  walk,      \* the walk whose callback each walker is in: the node it was
             \* called for, the version that node had, the walk's limits
  note       \* history: what has become of each marker's version, see Notes

radicalVars == <<linked, before, versions, last, walk, note>>

\* A walker may begin again within its callback, which then ends as any other
\* and writes the version of a node from before that: such a version is stale
\* until the next one is written.
Notes == {"sound", "begun", "stale"}

NoWalk   == [node |-> NoRoute]
InWalk   == [node : Route, version : 0 .. MaxChanges,
             left : 0 .. MaxNodes, maxVer : 0 .. MaxChanges]

Active   == linked \cap Walker
Walks(w) == walk[w] # NoWalk

\* before is a strict total order of linked.
Ordered ==
  /\ before \subseteq linked \X linked
  /\ \A x, y \in linked :
       /\ <<x, y>> \in before => <<y, x>> \notin before
       /\ x # y => <<x, y>> \in before \/ <<y, x>> \in before
       /\ \A z \in linked : <<x, y>> \in before /\ <<y, z>> \in before => <<x, z>> \in before

RadicalTypeOK ==
  /\ linked \subseteq Item
  /\ Ordered
  /\ versions \in [Item -> 0 .. MaxChanges]
  /\ last \in 0 .. MaxChanges
  /\ walk \in [Walker -> InWalk \cup {NoWalk}]
  /\ \A w \in Walker : Walks(w) => w \in linked
  /\ note \in [Walker -> Notes]

RadicalInit ==
  /\ linked = {}
  /\ before = {}
  /\ versions = [x \in Item |-> 0]
  /\ last = 0
  /\ walk = [w \in Walker |-> NoWalk]
  /\ note = [w \in Walker |-> "sound"]

\* The items before x; the nodes behind x; the first of them, which is what
\* std_radical_getnext returns.
Ahead(x)     == {y \in linked : <<y, x>> \in before}
NodesBehind(x) == {n \in Route \cap linked : <<x, n>> \in before}
IsNext(x, n) == n \in NodesBehind(x) /\ \A m \in NodesBehind(x) \ {n} : <<n, m>> \in before

\* A mutant of Place: an item that is in the list is not removed first.
PlaceAgain(x, ahead) ==
  /\ linked' = linked \cup {x}
  /\ before' = before \cup ((ahead \ {x}) \X {x}) \cup ({x} \X (linked \ (ahead \cup {x})))

\* x, wherever it was, gets the place behind the items of ahead.
Place(x, ahead) ==
  /\ linked' = linked \cup {x}
  /\ before' = {p \in before : p[1] # x /\ p[2] # x}
                 \cup ((ahead \ {x}) \X {x})
                 \cup ({x} \X (linked \ (ahead \cup {x})))

Unlink(x) ==
  /\ linked' = linked \ {x}
  /\ before' = {p \in before : p[1] # x /\ p[2] # x}
----------------------------------------------------------------------------
(* The nodes.                                                              *)

\* Two mutants of AppendToChangeList: the node is put at the front; a node
\* that is in the list stays where it is.
AppendAtFront(n) ==
  /\ last < MaxChanges
  /\ last' = last + 1
  /\ versions' = [versions EXCEPT ![n] = last']
  /\ Place(n, {})
  /\ UNCHANGED <<walk, note>>
AppendInPlace(n) ==
  /\ last < MaxChanges
  /\ last' = last + 1
  /\ versions' = [versions EXCEPT ![n] = last']
  /\ Place(n, IF n \in linked THEN Ahead(n) ELSE linked)
  /\ UNCHANGED <<walk, note>>

\* std_radical_appendtochangelist.
AppendToChangeList(n) ==
  /\ last < MaxChanges
  /\ last' = last + 1
  /\ versions' = [versions EXCEPT ![n] = last']
  /\ Place(n, linked)
  /\ UNCHANGED <<walk, note>>

\* std_radix_remove of a node that is on the list.
RemoveFromTree(n) ==
  /\ n \in linked
  /\ Unlink(n)
  /\ UNCHANGED <<versions, last, walk, note>>

\* The nodes up to x.
Upto(x) == {n \in Route \cap linked : n = x \/ <<n, x>> \in before}

\* std_radical_procverwrap, called between walks: the nodes are numbered
\* again, and each marker has the number of the last node before it.
ProcVerWrap ==
  /\ \A w \in Walker : ~Walks(w)
  /\ versions' = [x \in Item |-> IF x \in linked THEN Cardinality(Upto(x)) ELSE versions[x]]
  /\ note' = [w \in Walker |-> "sound"]
  /\ UNCHANGED <<linked, before, last, walk>>
----------------------------------------------------------------------------
(* The walkers.                                                            *)

\* std_radical_walkconstructor: begin, or begin again, at any time.
WalkConstructor(w) ==
  /\ Place(w, {})
  /\ versions' = [versions EXCEPT ![w] = 0]
  /\ note' = [note EXCEPT ![w] = IF Walks(w) THEN "begun" ELSE "sound"]
  /\ UNCHANGED <<last, walk>>

\* std_radical_walkconstructorafter.
WalkConstructorAfter(w, after) ==
  /\ after \in Active \ {w}
  /\ Place(w, Ahead(after) \cup {after})
  /\ versions' = [versions EXCEPT ![w] = versions[after]]
  /\ note' = [note EXCEPT ![w] = IF Walks(w) THEN "begun"
                                ELSE IF note[after] = "sound" THEN "sound" ELSE "stale"]
  /\ UNCHANGED <<last, walk>>

\* std_radical_walkdestructor, not from the walker's own callback.
WalkDestructor(w) ==
  /\ w \in Active
  /\ ~Walks(w)
  /\ Unlink(w)
  /\ UNCHANGED <<versions, last, walk, note>>

\* The history when a callback that w was in has come back.
Noted(w) == IF note[w] = "begun" THEN "stale" ELSE "sound"

\* The loop of std_radical_walkchangelist from the marker to the next call
\* of the callback, with the marker behind the node the callback gets, or to
\* the end of the walk: the next node is too new, or there is none.  ver is
\* the version the marker has got so far, noted its history.
Advance(w, ver, noted, left, maxVer) ==
  /\ \/ \E n \in Route :
          /\ IsNext(w, n)
          /\ versions[n] <= maxVer
          /\ Place(w, Ahead(n) \cup {n})
          /\ versions' = [versions EXCEPT ![w] = ver]
          /\ walk' = [walk EXCEPT ![w] = [node |-> n, version |-> versions[n],
                                         left |-> left, maxVer |-> maxVer]]
          /\ note' = [note EXCEPT ![w] = noted]
     \/ \E n \in Route :
          /\ IsNext(w, n)
          /\ versions[n] > maxVer
          /\ Place(w, Ahead(n))
          /\ versions' = [versions EXCEPT ![w] = maxVer]
          /\ walk' = [walk EXCEPT ![w] = NoWalk]
          /\ note' = [note EXCEPT ![w] = "sound"]
     \/ /\ NodesBehind(w) = {}
        /\ Place(w, linked)
        /\ versions' = [versions EXCEPT ![w] = last]
        /\ walk' = [walk EXCEPT ![w] = NoWalk]
        /\ note' = [note EXCEPT ![w] = "sound"]
  /\ UNCHANGED last

\* std_radical_walkchangelist is called, for so many nodes (0: all of them)
\* and up to a version.
WalkChangeList(w) ==
  /\ w \in Active
  /\ ~Walks(w)
  /\ \E left \in 0 .. MaxNodes, maxVer \in 0 .. MaxChanges :
       Advance(w, versions[w], note[w], left, maxVer)

\* The callback returns zero: the walk goes on unless that was its last node.
Continue(w) ==
  /\ Walks(w)
  /\ \/ /\ walk[w].left = 1
        /\ versions' = [versions EXCEPT ![w] = walk[w].version]
        /\ walk' = [walk EXCEPT ![w] = NoWalk]
        /\ note' = [note EXCEPT ![w] = Noted(w)]
        /\ UNCHANGED <<linked, before, last>>
     \/ /\ walk[w].left # 1
        /\ LET left == IF walk[w].left = 0 THEN 0 ELSE walk[w].left - 1
           IN  Advance(w, walk[w].version, Noted(w), left, walk[w].maxVer)

\* It returns a positive number: the walk stops behind the node.
Stop(w) ==
  /\ Walks(w)
  /\ versions' = [versions EXCEPT ![w] = walk[w].version]
  /\ walk' = [walk EXCEPT ![w] = NoWalk]
  /\ note' = [note EXCEPT ![w] = Noted(w)]
  /\ UNCHANGED <<linked, before, last>>

\* A mutant of Revisit: the marker's version is set as for the other results.
RevisitNoting(w) ==
  /\ Walks(w)
  /\ LET n == walk[w].node
     IN  /\ n \in linked
         /\ (<<n, w>> \in before /\ note[w] # "begun") \/ Restless
         /\ Place(w, Ahead(n))
  /\ versions' = [versions EXCEPT ![w] = walk[w].version]
  /\ walk' = [walk EXCEPT ![w] = NoWalk]
  /\ note' = [note EXCEPT ![w] = Noted(w)]
  /\ UNCHANGED last

\* It returns a negative number: the marker is put before the node, which
\* must still be in the list.
Revisit(w) ==
  /\ Walks(w)
  /\ LET n == walk[w].node
     IN  /\ n \in linked
         /\ (<<n, w>> \in before /\ note[w] # "begun") \/ Restless
         /\ Place(w, Ahead(n))
  /\ walk' = [walk EXCEPT ![w] = NoWalk]
  /\ note' = [note EXCEPT ![w] = IF @ = "begun" THEN "stale" ELSE @]
  /\ UNCHANGED <<versions, last>>
----------------------------------------------------------------------------
RadicalNext ==
  \/ \E n \in Route : AppendToChangeList(n) \/ RemoveFromTree(n)
  \/ ProcVerWrap
  \/ \E w \in Walker :
       \/ WalkConstructor(w)
       \/ \E v \in Walker : WalkConstructorAfter(w, v)
       \/ WalkDestructor(w)
       \/ WalkChangeList(w)
       \/ Continue(w)
       \/ Stop(w)
       \/ Revisit(w)

RadicalSpec == RadicalInit /\ [][RadicalNext]_radicalVars
----------------------------------------------------------------------------
(* Properties.                                                             *)

\* The versions of the nodes rise along the list, and none is newer than the
\* table's.
VersionsRise ==
  \A m, n \in Route \cap linked :
    /\ <<m, n>> \in before => versions[m] < versions[n]
    /\ versions[n] \in 1 .. last

\* A marker never claims more than its walker was told: the nodes behind it
\* are newer than the version it carries, however its walk was ended and
\* whichever marker it was copied from.  This is so of every marker until its
\* walker begins again within its own callback, and again from the first
\* callback after that which comes back.
MarkersHonest ==
  \A w \in Active : note[w] = "sound" =>
    \A n \in NodesBehind(w) : versions[n] > versions[w]

\* "It may be called any time to reset a walk to the start": a marker that has
\* been reset, in the walker's own callback too, claims no more than its walker
\* is told from then on.
ResetMarkersHonest ==
  \A w \in Active : \A n \in NodesBehind(w) : versions[n] > versions[w]

\* Every walker is told of every change behind its marker, in order and once,
\* whatever is appended, removed or walked in the meantime.
Feed == INSTANCE ChangeFeed WITH
  stamp   <- [n \in Route |-> IF n \in linked THEN versions[n] ELSE 0],
  walkers <- Active,
  todo    <- [w \in Walker |-> IF w \in linked THEN NodesBehind(w) ELSE {}],
  telling <- [w \in Walker |-> walk[w].node]

ImplementsFeed == Feed!FeedSpec

\* "Walks the changelist from the marker node onwards": a node that is behind
\* a marker stays there until the walker's callback gets it, it is removed, or
\* the walker ends or is aligned with another.
NothingSkipped ==
  [][\A w \in Active : \A n \in NodesBehind(w) :
       \/ n \in NodesBehind(w)'
       \/ walk'[w].node = n
       \/ n \notin linked'
       \/ w \notin linked'
       \/ \E v \in Walker : WalkConstructorAfter(w, v)]_radicalVars
============================================================================
