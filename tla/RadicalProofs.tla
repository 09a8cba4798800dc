--------------------------- MODULE RadicalProofs ---------------------------
(***************************************************************************)
(* Theorems about the change list, for any number of nodes and walkers.    *)
(***************************************************************************)
EXTENDS Radical, FiniteSetTheorems, TLAPS

(* The inductive invariants.                                               *)

\* No marker, and no walk, has a version newer than the table's.
MarkersOld ==
  \A w \in Walker :
    /\ w \in linked => versions[w] <= last
    /\ Walks(w) => walk[w].version <= last

ListInv == RadicalTypeOK /\ VersionsRise /\ MarkersOld

\* The nodes behind w's marker are newer than its version, unless that is stale.
MarkerHonest(w) ==
  w \in linked /\ note[w] = "sound" => \A n \in NodesBehind(w) : versions[n] > versions[w]

\* What a walk knows while its callback runs and has not begun it again: it has
\* got further than its marker says, what is behind the marker is newer than its
\* node was, and if the node is still before the marker it has not changed since.
WalkHonest(w) ==
  Walks(w) /\ note[w] # "begun" =>
              /\ note[w] = "sound" => versions[w] < walk[w].version
              /\ \A n \in NodesBehind(w) : versions[n] > walk[w].version
              /\ <<walk[w].node, w>> \in before => versions[walk[w].node] = walk[w].version

HonestInv == ListInv /\ \A w \in Walker : MarkerHonest(w) /\ WalkHonest(w)
----------------------------------------------------------------------------
(* The order of the list.                                                  *)

\* Place changes the relation of x to the others and nothing else.
LEMMA PlaceEffect ==
  ASSUME NEW x, NEW ahead \in SUBSET linked, before \subseteq linked \X linked, Place(x, ahead)
  PROVE  /\ linked' = linked \cup {x}
         /\ <<x, x>> \notin before'
         /\ \A y, z : y # x /\ z # x => (<<y, z>> \in before' <=> <<y, z>> \in before)
         /\ \A y : y # x => (<<y, x>> \in before' <=> y \in ahead)
         /\ \A y : y # x => (<<x, y>> \in before' <=> y \in linked \ ahead)
BY DEF Place

\* An item can be given any place of the list: behind a set of items that has,
\* with each item, those before it.
LEMMA PlaceOrdered ==
  ASSUME Ordered, NEW x, NEW ahead \in SUBSET linked, Place(x, ahead),
         \A y \in linked, z \in ahead : y # x /\ z # x /\ <<y, z>> \in before => y \in ahead
  PROVE  Ordered'
<1>1. before \subseteq linked \X linked
  BY DEF Ordered
<1>e. /\ linked' = linked \cup {x}
      /\ <<x, x>> \notin before'
      /\ \A y, z : y # x /\ z # x => (<<y, z>> \in before' <=> <<y, z>> \in before)
      /\ \A y : y # x => (<<y, x>> \in before' <=> y \in ahead)
      /\ \A y : y # x => (<<x, y>> \in before' <=> y \in linked \ ahead)
  BY <1>1, PlaceEffect
<1>2. before' \subseteq linked' \X linked'
  BY <1>1 DEF Place
<1>3. ASSUME NEW y \in linked', NEW z \in linked', <<y, z>> \in before'
      PROVE  <<z, y>> \notin before'
  <2>1. CASE y = x \/ z = x
    BY <1>3, <1>e, <2>1
  <2>2. CASE y # x /\ z # x
    BY <1>1, <1>3, <1>e, <2>2 DEF Ordered
  <2> QED BY <2>1, <2>2
<1>4. ASSUME NEW y \in linked', NEW z \in linked', y # z
      PROVE  <<y, z>> \in before' \/ <<z, y>> \in before'
  BY <1>1, <1>4, <1>e DEF Ordered
<1>5. ASSUME NEW y \in linked', NEW z \in linked', NEW u \in linked',
             <<y, z>> \in before', <<z, u>> \in before'
      PROVE  <<y, u>> \in before'
  <2>1. y # z /\ z # u /\ y # u
    BY <1>3, <1>5
  <2>2. CASE y # x /\ z # x /\ u # x
    BY <1>1, <1>5, <2>2, <1>e DEF Ordered
  <2>3. CASE y = x
    BY <1>1, <1>5, <2>1, <2>3, <1>e DEF Ordered
  <2>4. CASE z = x
    <3>1. y \in ahead /\ u \in linked \ ahead /\ y \in linked /\ u \in linked
      BY <1>1, <1>5, <2>1, <2>4, <1>e
    <3>2. <<u, y>> \notin before
      BY <2>1, <2>4, <3>1
    <3>3. <<y, u>> \in before
      BY <2>1, <3>1, <3>2 DEF Ordered
    <3> QED BY <1>1, <2>1, <2>4, <3>3, <1>e
  <2>5. CASE u = x
    BY <1>1, <1>5, <2>1, <2>5, <1>e DEF Ordered
  <2> QED BY <2>2, <2>3, <2>4, <2>5
<1> QED BY <1>2, <1>3, <1>4, <1>5 DEF Ordered

\* The order stays as it is.
LEMMA OrderedSame ==
  ASSUME Ordered, linked' = linked, before' = before
  PROVE  Ordered'
<1>1. before' \subseteq linked' \X linked'
  BY DEF Ordered
<1>2. ASSUME NEW x \in linked', NEW y \in linked'
      PROVE  /\ <<x, y>> \in before' => <<y, x>> \notin before'
             /\ x # y => <<x, y>> \in before' \/ <<y, x>> \in before'
             /\ \A z \in linked' : <<x, y>> \in before' /\ <<y, z>> \in before' => <<x, z>> \in before'
  BY DEF Ordered
<1> QED BY <1>1, <1>2 DEF Ordered

\* An item can be taken out.
LEMMA UnlinkEffect ==
  ASSUME Ordered, NEW x, Unlink(x)
  PROVE  /\ Ordered'
         /\ linked' = linked \ {x}
         /\ \A y, z : <<y, z>> \in before' <=> <<y, z>> \in before /\ y # x /\ z # x
<1>1. before \subseteq linked \X linked
  BY DEF Ordered
<1>2. linked' = linked \ {x}
  BY DEF Unlink
<1>3. \A y, z : <<y, z>> \in before' <=> <<y, z>> \in before /\ y # x /\ z # x
  BY DEF Unlink
<1>4. before' \subseteq linked' \X linked'
  BY <1>1 DEF Unlink
<1>5. Ordered'
  <2>1. ASSUME NEW y \in linked', NEW z \in linked'
        PROVE  /\ <<y, z>> \in before' => <<z, y>> \notin before'
               /\ y # z => <<y, z>> \in before' \/ <<z, y>> \in before'
    BY <1>2, <1>3 DEF Ordered
  <2>2. ASSUME NEW y \in linked', NEW z \in linked', NEW u \in linked',
               <<y, z>> \in before', <<z, u>> \in before'
        PROVE  <<y, u>> \in before'
    BY <1>2, <1>3, <2>2 DEF Ordered
  <2> QED BY <1>4, <2>1, <2>2 DEF Ordered
<1> QED BY <1>2, <1>3, <1>5

\* The items up to one, or before one, are such a set.
LEMMA AheadClosed ==
  ASSUME Ordered, NEW x \in linked
  PROVE  /\ Ahead(x) \in SUBSET linked
         /\ Ahead(x) \cup {x} \in SUBSET linked
         /\ x \notin Ahead(x)
         /\ \A y \in linked, z \in Ahead(x) : <<y, z>> \in before => y \in Ahead(x)
         /\ \A y \in linked, z \in Ahead(x) \cup {x} : <<y, z>> \in before => y \in Ahead(x) \cup {x}
BY DEF Ordered, Ahead

\* The places the operations of the module choose.
LEMMA PlaceAtEnds ==
  ASSUME Ordered, NEW x, Place(x, {}) \/ Place(x, linked)
  PROVE  /\ Ordered'
         /\ linked' = linked \cup {x}
         /\ \A y, z : y # x /\ z # x => (<<y, z>> \in before' <=> <<y, z>> \in before)
<1>1. before \subseteq linked \X linked
  BY DEF Ordered
<1>2. CASE Place(x, {})
  <2>1. Ordered'
    BY <1>2, PlaceOrdered
  <2> QED BY <1>1, <1>2, <2>1, PlaceEffect
<1>3. CASE Place(x, linked)
  <2>1. Ordered'
    BY <1>3, PlaceOrdered
  <2> QED BY <1>1, <1>3, <2>1, PlaceEffect
<1> QED BY <1>2, <1>3

LEMMA PlaceNearby ==
  ASSUME Ordered, NEW x, NEW y \in linked, Place(x, Ahead(y)) \/ Place(x, Ahead(y) \cup {y})
  PROVE  /\ Ordered'
         /\ linked' = linked \cup {x}
         /\ \A u, z : u # x /\ z # x => (<<u, z>> \in before' <=> <<u, z>> \in before)
<1>1. before \subseteq linked \X linked
  BY DEF Ordered
<1>2. CASE Place(x, Ahead(y))
  <2>1. /\ Ahead(y) \in SUBSET linked
        /\ \A u \in linked, z \in Ahead(y) : <<u, z>> \in before => u \in Ahead(y)
    BY AheadClosed
  <2>2. Ordered'
    BY <1>2, <2>1, PlaceOrdered
  <2> QED BY <1>1, <1>2, <2>1, <2>2, PlaceEffect
<1>3. CASE Place(x, Ahead(y) \cup {y})
  <2> DEFINE ahead == Ahead(y) \cup {y}
  <2>1. /\ ahead \in SUBSET linked
        /\ \A u \in linked, z \in ahead : <<u, z>> \in before => u \in ahead
        /\ Place(x, ahead)
    BY <1>3, AheadClosed
  <2> HIDE DEF ahead
  <2>2. Ordered'
    BY <2>1, PlaceOrdered
  <2> QED BY <1>1, <2>1, <2>2, PlaceEffect
<1> QED BY <1>2, <1>3
----------------------------------------------------------------------------
(* The versions.                                                           *)

\* Renumbering is possible with the numbers the table has given already, and
\* keeps the order.
LEMMA RankBound ==
  ASSUME ListInv, NEW x \in linked
  PROVE  /\ IsFiniteSet(Upto(x))
         /\ Cardinality(Upto(x)) \in 0 .. last
         /\ x \in Route => Cardinality(Upto(x)) # 0
<1>0. last \in Nat
  BY RadicalAssumption DEF ListInv, RadicalTypeOK
<1> DEFINE f == [n \in Upto(x) |-> versions[n]]
<1>1. f \in [Upto(x) -> 1 .. last]
  BY DEF ListInv, VersionsRise, Upto
<1>2. ASSUME NEW m \in Upto(x), NEW n \in Upto(x), m # n
      PROVE  f[m] # f[n]
  <2>1. m \in Route \cap linked /\ n \in Route \cap linked
    BY DEF Upto
  <2>2. <<m, n>> \in before \/ <<n, m>> \in before
    BY <1>2, <2>1 DEF ListInv, RadicalTypeOK, Ordered
  <2>3. versions[m] < versions[n] \/ versions[n] < versions[m]
    BY <2>1, <2>2 DEF ListInv, VersionsRise
  <2>4. versions[m] \in 1 .. last /\ versions[n] \in 1 .. last
    BY <2>1 DEF ListInv, VersionsRise
  <2> QED BY <1>0, <2>3, <2>4
<1>3. f \in Injection(Upto(x), 1 .. last)
  BY <1>1, <1>2 DEF Injection, IsInjective
<1>4. IsFiniteSet(1 .. last) /\ Cardinality(1 .. last) = last
  BY <1>0, FS_Interval
<1>5. IsFiniteSet(Upto(x)) /\ Cardinality(Upto(x)) <= last
  BY <1>3, <1>4, FS_Injection
<1>6. Cardinality(Upto(x)) \in Nat
  BY <1>5, FS_CardinalityType
<1>7. x \in Route => x \in Upto(x)
  BY DEF Upto
<1>8. x \in Route => Cardinality(Upto(x)) # 0
  BY <1>5, <1>7, FS_EmptySet
<1> QED BY <1>0, <1>5, <1>6, <1>8

LEMMA RankRises ==
  ASSUME ListInv, NEW x \in linked, NEW n \in Route \cap linked, <<x, n>> \in before
  PROVE  Cardinality(Upto(x)) < Cardinality(Upto(n))
<1>1. Upto(x) \subseteq Upto(n)
  BY DEF Upto, ListInv, RadicalTypeOK, Ordered
<1>2. n \in Upto(n) /\ n \notin Upto(x)
  BY DEF Upto, ListInv, RadicalTypeOK, Ordered
<1>3. /\ IsFiniteSet(Upto(n))
      /\ Cardinality(Upto(x)) \in 0 .. last
      /\ Cardinality(Upto(n)) \in 0 .. last
  BY RankBound
<1>4. /\ Cardinality(Upto(x)) <= Cardinality(Upto(n))
      /\ Cardinality(Upto(x)) # Cardinality(Upto(n))
  BY <1>1, <1>2, <1>3, FS_Subset
<1>5. last \in Nat
  BY RadicalAssumption DEF ListInv, RadicalTypeOK
<1> QED BY <1>3, <1>4, <1>5

\* A marker that is moved or gets a version says nothing of the nodes.
LEMMA MarkerMoved ==
  ASSUME ListInv, NEW w \in Walker, NEW v \in 0 .. last, Ordered', linked' = linked \cup {w},
         \A y, z : y # w /\ z # w => (<<y, z>> \in before' <=> <<y, z>> \in before),
         versions' = [versions EXCEPT ![w] = v], last' = last
  PROVE  /\ VersionsRise'
         /\ linked' \subseteq Item
         /\ versions' \in [Item -> 0 .. MaxChanges]
         /\ versions'[w] = v
         /\ \A x \in Item : x # w => versions'[x] = versions[x]
<1>1. w \in Item /\ w \notin Route /\ last \in 0 .. MaxChanges
  BY RadicalAssumption DEF Item, ListInv, RadicalTypeOK
<1>2. /\ versions'[w] = v
      /\ \A x \in Item : x # w => versions'[x] = versions[x]
      /\ versions' \in [Item -> 0 .. MaxChanges]
  BY <1>1, RadicalAssumption DEF ListInv, RadicalTypeOK
<1>3. VersionsRise'
  <2> SUFFICES ASSUME NEW m \in Route \cap linked', NEW n \in Route \cap linked'
               PROVE  /\ <<m, n>> \in before' => versions'[m] < versions'[n]
                      /\ versions'[n] \in 1 .. last'
    BY DEF VersionsRise
  <2>1. m \in Route \cap linked /\ n \in Route \cap linked /\ m # w /\ n # w
    BY <1>1
  <2>2. versions'[m] = versions[m] /\ versions'[n] = versions[n]
    BY <1>2, <2>1 DEF Item
  <2> QED BY <2>1, <2>2 DEF ListInv, VersionsRise
<1>4. linked' \subseteq Item
  BY <1>1 DEF ListInv, RadicalTypeOK
<1> QED BY <1>2, <1>3, <1>4

\* A step of a walker w keeps the invariant if it gives w's marker a version
\* that is not too new, a place in the order, and w a walk of the right kind.
LEMMA WalkerMoved ==
  ASSUME ListInv, NEW w \in Walker, NEW v \in 0 .. last, NEW k \in InWalk \cup {NoWalk},
         NEW m \in Notes, Ordered',
         linked' = linked \cup {w},
         \A y, z : y # w /\ z # w => (<<y, z>> \in before' <=> <<y, z>> \in before),
         versions' = [versions EXCEPT ![w] = v], last' = last,
         walk' = [walk EXCEPT ![w] = k], note' = [note EXCEPT ![w] = m],
         k # NoWalk => k.version <= last
  PROVE  ListInv'
<1>1. /\ VersionsRise'
      /\ linked' \subseteq Item
      /\ versions' \in [Item -> 0 .. MaxChanges]
      /\ versions'[w] = v
      /\ \A x \in Item : x # w => versions'[x] = versions[x]
  BY MarkerMoved
<1>2. /\ walk' \in [Walker -> InWalk \cup {NoWalk}]
      /\ walk'[w] = k
      /\ \A u \in Walker : u # w => walk'[u] = walk[u]
  BY DEF ListInv, RadicalTypeOK
<1>n. note' \in [Walker -> Notes]
  BY DEF ListInv, RadicalTypeOK
<1>3. RadicalTypeOK'
  BY <1>1, <1>2, <1>n DEF ListInv, RadicalTypeOK, Walks
<1>4. \A u \in Walker : u # w => versions'[u] = versions[u]
  BY <1>1 DEF Item
<1>5. MarkersOld'
  BY <1>1, <1>2, <1>4 DEF MarkersOld, ListInv, Walks, RadicalTypeOK
<1> QED BY <1>1, <1>3, <1>5 DEF ListInv

LEMMA AppendKeeps ==
  ASSUME ListInv, NEW n \in Route, AppendToChangeList(n)
  PROVE  ListInv'
<1>1. /\ Ordered'
      /\ linked' = linked \cup {n}
      /\ \A y, z : y # n /\ z # n => (<<y, z>> \in before' <=> <<y, z>> \in before)
      /\ \A y : y # n => <<n, y>> \notin before'
      /\ <<n, n>> \notin before'
  <2>1. Place(n, linked) /\ Ordered /\ before \subseteq linked \X linked
    BY DEF AppendToChangeList, ListInv, RadicalTypeOK, Ordered
  <2>2. Ordered' /\ linked' = linked \cup {n}
    BY <2>1, PlaceAtEnds
  <2> QED BY <2>1, <2>2, PlaceEffect
<1>2. /\ last' = last + 1 /\ last' \in 0 .. MaxChanges /\ last \in Nat
      /\ n \in Item /\ n \notin Walker
      /\ versions'[n] = last'
      /\ \A x \in Item : x # n => versions'[x] = versions[x]
      /\ versions' \in [Item -> 0 .. MaxChanges]
      /\ walk' = walk /\ note' = note
  BY RadicalAssumption DEF AppendToChangeList, ListInv, RadicalTypeOK, Item
<1>3. VersionsRise'
  <2> SUFFICES ASSUME NEW i \in Route \cap linked', NEW j \in Route \cap linked'
               PROVE  /\ <<i, j>> \in before' => versions'[i] < versions'[j]
                      /\ versions'[j] \in 1 .. last'
    BY DEF VersionsRise
  <2>1. i # n => i \in linked /\ versions'[i] = versions[i] /\ versions[i] \in 1 .. last
    BY <1>1, <1>2 DEF Item, ListInv, VersionsRise
  <2>2. j # n => j \in linked /\ versions'[j] = versions[j] /\ versions[j] \in 1 .. last
    BY <1>1, <1>2 DEF Item, ListInv, VersionsRise
  <2>3. versions'[j] \in 1 .. last'
    BY <1>2, <2>2
  <2>4. ASSUME <<i, j>> \in before'
        PROVE  versions'[i] < versions'[j]
    <3>1. i # n
      BY <1>1, <2>4
    <3>2. CASE j = n
      BY <1>2, <2>1, <3>1, <3>2
    <3>3. CASE j # n
      BY <1>1, <2>1, <2>2, <2>4, <3>1, <3>3 DEF ListInv, VersionsRise
    <3> QED BY <3>2, <3>3
  <2> QED BY <2>3, <2>4
<1>4. RadicalTypeOK'
  BY <1>1, <1>2 DEF ListInv, RadicalTypeOK, Walks
<1>5. MarkersOld'
  <2> SUFFICES ASSUME NEW w \in Walker
               PROVE  /\ w \in linked' => versions'[w] <= last'
                      /\ Walks(w)' => walk'[w].version <= last'
    BY DEF MarkersOld
  <2>1. w \in linked' => w \in linked /\ versions'[w] = versions[w] /\ versions[w] \in Nat
    BY <1>1, <1>2, RadicalAssumption DEF Item, ListInv, RadicalTypeOK
  <2>2. Walks(w)' => Walks(w) /\ walk'[w] = walk[w] /\ walk[w].version \in Nat
    BY <1>2, RadicalAssumption DEF Walks, InWalk, ListInv, RadicalTypeOK
  <2> QED BY <1>2, <2>1, <2>2 DEF ListInv, MarkersOld
<1> QED BY <1>3, <1>4, <1>5 DEF ListInv

\* What is taken off the list leaves the rest as it is.
LEMMA UnlinkKeeps ==
  ASSUME ListInv, NEW x, Unlink(x), UNCHANGED <<versions, last, walk, note>>,
         \A w \in Walker : Walks(w) => w # x
  PROVE  ListInv'
<1>1. /\ Ordered'
      /\ linked' = linked \ {x}
      /\ \A y, z : <<y, z>> \in before' <=> <<y, z>> \in before /\ y # x /\ z # x
  BY UnlinkEffect DEF ListInv, RadicalTypeOK
<1>2. RadicalTypeOK'
  BY <1>1 DEF ListInv, RadicalTypeOK, Walks
<1>3. VersionsRise' /\ MarkersOld'
  BY <1>1 DEF ListInv, VersionsRise, MarkersOld, Walks
<1> QED BY <1>2, <1>3 DEF ListInv

LEMMA ProcVerWrapKeeps ==
  ASSUME ListInv, ProcVerWrap
  PROVE  ListInv'
<1>1. UNCHANGED <<linked, before, last, walk>>
  BY DEF ProcVerWrap
<1>2. last \in 0 .. MaxChanges /\ last \in Nat
  BY RadicalAssumption DEF ListInv, RadicalTypeOK
<1>3. \A x \in linked : versions'[x] = Cardinality(Upto(x)) /\ versions'[x] \in 0 .. last
  BY RankBound DEF ProcVerWrap, ListInv, RadicalTypeOK
<1>4. versions' \in [Item -> 0 .. MaxChanges]
  BY <1>2, <1>3, RadicalAssumption DEF ProcVerWrap, ListInv, RadicalTypeOK
<1>5. RadicalTypeOK'
  <2>1. Ordered'
    BY <1>1, OrderedSame DEF ListInv, RadicalTypeOK
  <2>2. note' \in [Walker -> Notes]
    BY DEF ProcVerWrap, Notes
  <2> QED BY <1>1, <1>4, <2>1, <2>2 DEF ListInv, RadicalTypeOK, Walks
<1>6. VersionsRise'
  <2> SUFFICES ASSUME NEW m \in Route \cap linked, NEW n \in Route \cap linked
               PROVE  /\ <<m, n>> \in before => versions'[m] < versions'[n]
                      /\ versions'[n] \in 1 .. last
    BY <1>1 DEF VersionsRise
  <2> QED BY <1>2, <1>3, RankBound, RankRises
<1>7. MarkersOld'
  BY <1>1, <1>2, <1>3 DEF MarkersOld, ListInv, Walks
<1> QED BY <1>5, <1>6, <1>7 DEF ListInv

\* The walk goes on from a marker with a version that is not too new.
LEMMA AdvanceKeeps ==
  ASSUME ListInv, NEW w \in Walker, w \in linked, NEW ver \in 0 .. last, NEW noted \in Notes,
         NEW left \in 0 .. MaxNodes, NEW maxVer \in 0 .. MaxChanges,
         Advance(w, ver, noted, left, maxVer)
  PROVE  ListInv'
<1>0. Ordered /\ last \in 0 .. MaxChanges /\ last \in Nat /\ last' = last
  BY RadicalAssumption DEF ListInv, RadicalTypeOK, Advance
<1>s. "sound" \in Notes
  BY DEF Notes
<1>1. ASSUME NEW n \in Route, IsNext(w, n)
      PROVE  /\ n \in linked
             /\ versions[n] \in 1 .. last
             /\ versions[n] \in 0 .. MaxChanges
  <2>1. n \in Route \cap linked
    BY <1>1 DEF IsNext, NodesBehind
  <2>2. versions[n] \in 1 .. last
    BY <2>1 DEF ListInv, VersionsRise
  <2> QED BY <1>0, <2>1, <2>2, RadicalAssumption
<1>2. CASE \E n \in Route :
             /\ IsNext(w, n)
             /\ versions[n] <= maxVer
             /\ Place(w, Ahead(n) \cup {n})
             /\ versions' = [versions EXCEPT ![w] = ver]
             /\ walk' = [walk EXCEPT ![w] = [node |-> n, version |-> versions[n],
                                            left |-> left, maxVer |-> maxVer]]
             /\ note' = [note EXCEPT ![w] = noted]
  <2>1. PICK n \in Route :
             /\ IsNext(w, n)
             /\ Place(w, Ahead(n) \cup {n})
             /\ versions' = [versions EXCEPT ![w] = ver]
             /\ walk' = [walk EXCEPT ![w] = [node |-> n, version |-> versions[n],
                                            left |-> left, maxVer |-> maxVer]]
             /\ note' = [note EXCEPT ![w] = noted]
    BY <1>2
  <2> DEFINE k == [node |-> n, version |-> versions[n], left |-> left, maxVer |-> maxVer]
  <2>2. k \in InWalk /\ k.version <= last
    BY <1>0, <1>1, <2>1 DEF InWalk
  <2>3. /\ Ordered'
        /\ linked' = linked \cup {w}
        /\ \A y, z : y # w /\ z # w => (<<y, z>> \in before' <=> <<y, z>> \in before)
    BY <1>0, <1>1, <2>1, PlaceNearby
  <2>4. walk' = [walk EXCEPT ![w] = k]
    BY <2>1
  <2> HIDE DEF k
  <2> QED BY <1>0, <2>1, <2>2, <2>3, <2>4, WalkerMoved
<1>3. CASE \E n \in Route :
             /\ IsNext(w, n)
             /\ versions[n] > maxVer
             /\ Place(w, Ahead(n))
             /\ versions' = [versions EXCEPT ![w] = maxVer]
             /\ walk' = [walk EXCEPT ![w] = NoWalk]
             /\ note' = [note EXCEPT ![w] = "sound"]
  <2>1. PICK n \in Route :
             /\ IsNext(w, n)
             /\ versions[n] > maxVer
             /\ Place(w, Ahead(n))
             /\ versions' = [versions EXCEPT ![w] = maxVer]
             /\ walk' = [walk EXCEPT ![w] = NoWalk]
             /\ note' = [note EXCEPT ![w] = "sound"]
    BY <1>3
  <2>2. maxVer \in 0 .. last
    BY <1>0, <1>1, <2>1
  <2>3. /\ Ordered'
        /\ linked' = linked \cup {w}
        /\ \A y, z : y # w /\ z # w => (<<y, z>> \in before' <=> <<y, z>> \in before)
    BY <1>0, <1>1, <2>1, PlaceNearby
  <2> QED BY <1>0, <2>1, <2>2, <2>3, <1>s, WalkerMoved
<1>4. CASE /\ Place(w, linked)
           /\ versions' = [versions EXCEPT ![w] = last]
           /\ walk' = [walk EXCEPT ![w] = NoWalk]
           /\ note' = [note EXCEPT ![w] = "sound"]
  <2>1. /\ Ordered'
        /\ linked' = linked \cup {w}
        /\ \A y, z : y # w /\ z # w => (<<y, z>> \in before' <=> <<y, z>> \in before)
    BY <1>0, <1>4, PlaceAtEnds
  <2>2. last \in 0 .. last
    BY <1>0
  <2> QED BY <1>0, <1>4, <2>1, <2>2, <1>s, WalkerMoved
<1> QED BY <1>2, <1>3, <1>4 DEF Advance

\* The histories the steps write are of their kind.
LEMMA NotedType ==
  ASSUME NEW w \in Walker
  PROVE  Noted(w) \in Notes
BY DEF Noted, Notes

\* What the walk of a walker's callback tells of it.
LEMMA WalkTypes ==
  ASSUME ListInv, NEW w \in Walker, Walks(w)
  PROVE  /\ w \in linked
         /\ walk[w] \in InWalk
         /\ walk[w].node \in Route
         /\ walk[w].version \in 0 .. last
         /\ walk[w].left \in 0 .. MaxNodes
         /\ walk[w].maxVer \in 0 .. MaxChanges
<1>1. w \in linked /\ walk[w] \in InWalk /\ last \in Nat
  BY RadicalAssumption DEF ListInv, RadicalTypeOK, Walks
<1>2. walk[w].version \in Nat /\ walk[w].version <= last
  BY <1>1, RadicalAssumption DEF InWalk, ListInv, MarkersOld
<1> QED BY <1>1, <1>2 DEF InWalk

LEMMA ConstructorKeeps ==
  ASSUME ListInv, NEW w \in Walker,
         WalkConstructor(w) \/ \E v \in Walker : WalkConstructorAfter(w, v)
  PROVE  ListInv'
<1>0. Ordered /\ last \in Nat /\ walk[w] \in InWalk \cup {NoWalk} /\ walk = [walk EXCEPT ![w] = walk[w]]
  BY RadicalAssumption DEF ListInv, RadicalTypeOK
<1>1. walk[w] # NoWalk => walk[w].version <= last
  BY DEF ListInv, MarkersOld, Walks
<1>n. \E m \in Notes : note' = [note EXCEPT ![w] = m]
  BY DEF WalkConstructor, WalkConstructorAfter, Notes
<1>2. CASE WalkConstructor(w)
  <2>1. /\ Ordered'
        /\ linked' = linked \cup {w}
        /\ \A y, z : y # w /\ z # w => (<<y, z>> \in before' <=> <<y, z>> \in before)
    BY <1>0, <1>2, PlaceAtEnds DEF WalkConstructor
  <2>2. versions' = [versions EXCEPT ![w] = 0] /\ UNCHANGED <<last, walk>> /\ 0 \in 0 .. last
    BY <1>0, <1>2 DEF WalkConstructor
  <2> QED BY <1>0, <1>1, <1>n, <2>1, <2>2, WalkerMoved
<1>3. ASSUME NEW v \in Walker, WalkConstructorAfter(w, v)
      PROVE  ListInv'
  <2>1. v \in linked /\ versions[v] \in 0 .. last
    BY <1>0, <1>3, RadicalAssumption DEF WalkConstructorAfter, Active, ListInv, MarkersOld, RadicalTypeOK, Item
  <2>2. /\ Ordered'
        /\ linked' = linked \cup {w}
        /\ \A y, z : y # w /\ z # w => (<<y, z>> \in before' <=> <<y, z>> \in before)
    BY <1>0, <1>3, <2>1, PlaceNearby DEF WalkConstructorAfter
  <2>3. versions' = [versions EXCEPT ![w] = versions[v]] /\ UNCHANGED <<last, walk>>
    BY <1>3 DEF WalkConstructorAfter
  <2> QED BY <1>0, <1>1, <1>n, <2>1, <2>2, <2>3, WalkerMoved
<1> QED BY <1>2, <1>3

\* A callback's result that ends the walk where the marker is: after a
\* positive number, and after the last node the walk was called for.
LEMMA EndKeeps ==
  ASSUME ListInv, NEW w \in Walker, Walks(w),
         versions' = [versions EXCEPT ![w] = walk[w].version],
         walk' = [walk EXCEPT ![w] = NoWalk],
         note' = [note EXCEPT ![w] = Noted(w)],
         UNCHANGED <<linked, before, last>>
  PROVE  ListInv'
<1>1. w \in linked /\ walk[w].version \in 0 .. last
  BY WalkTypes
<1>2. Ordered' /\ linked' = linked \cup {w}
  BY <1>1, OrderedSame DEF ListInv, RadicalTypeOK
<1> QED BY <1>1, <1>2, NotedType, WalkerMoved

LEMMA RevisitKeeps ==
  ASSUME ListInv, NEW w \in Walker, Revisit(w)
  PROVE  ListInv'
<1>1. /\ walk[w].node \in linked
      /\ Place(w, Ahead(walk[w].node))
      /\ walk' = [walk EXCEPT ![w] = NoWalk]
      /\ UNCHANGED <<versions, last>>
      /\ Walks(w)
  BY DEF Revisit
<1>2. /\ Ordered'
      /\ linked' = linked \cup {w}
      /\ \A y, z : y # w /\ z # w => (<<y, z>> \in before' <=> <<y, z>> \in before)
  BY <1>1, PlaceNearby DEF ListInv, RadicalTypeOK
<1>3. w \in linked /\ last \in Nat /\ w \in Item
  BY <1>1, WalkTypes, RadicalAssumption DEF ListInv, RadicalTypeOK, Item
<1>4. versions[w] \in 0 .. last /\ versions' = [versions EXCEPT ![w] = versions[w]]
  BY <1>1, <1>3, RadicalAssumption DEF ListInv, RadicalTypeOK, MarkersOld
<1>5. \E m \in Notes : note' = [note EXCEPT ![w] = m]
  BY DEF Revisit, ListInv, RadicalTypeOK, Notes
<1> QED BY <1>1, <1>2, <1>4, <1>5, WalkerMoved
----------------------------------------------------------------------------
LEMMA ListInvInit == RadicalInit => ListInv
<1> SUFFICES ASSUME RadicalInit PROVE ListInv
  OBVIOUS
<1>1. RadicalTypeOK
  BY RadicalAssumption DEF RadicalInit, RadicalTypeOK, Ordered, Walks, Notes
<1> QED BY <1>1 DEF RadicalInit, ListInv, VersionsRise, MarkersOld, Walks

LEMMA ListInvNext == ListInv /\ [RadicalNext]_radicalVars => ListInv'
<1> SUFFICES ASSUME ListInv, [RadicalNext]_radicalVars PROVE ListInv'
  OBVIOUS
<1>1. ASSUME NEW n \in Route, AppendToChangeList(n)
      PROVE  ListInv'
  BY <1>1, AppendKeeps
<1>2. ASSUME NEW n \in Route, RemoveFromTree(n)
      PROVE  ListInv'
  BY <1>2, UnlinkKeeps, RadicalAssumption DEF RemoveFromTree
<1>3. CASE ProcVerWrap
  BY <1>3, ProcVerWrapKeeps
<1>4. ASSUME NEW w \in Walker, WalkConstructor(w) \/ \E v \in Walker : WalkConstructorAfter(w, v)
      PROVE  ListInv'
  BY <1>4, ConstructorKeeps
<1>5. ASSUME NEW w \in Walker, WalkDestructor(w)
      PROVE  ListInv'
  BY <1>5, UnlinkKeeps DEF WalkDestructor
<1>6. ASSUME NEW w \in Walker, WalkChangeList(w)
      PROVE  ListInv'
  <2>1. w \in linked /\ versions[w] \in 0 .. last
    BY <1>6, RadicalAssumption DEF WalkChangeList, Active, ListInv, RadicalTypeOK, MarkersOld, Item
  <2>2. note[w] \in Notes
    BY DEF ListInv, RadicalTypeOK
  <2> QED BY <1>6, <2>1, <2>2, AdvanceKeeps DEF WalkChangeList
<1>7. ASSUME NEW w \in Walker, Continue(w)
      PROVE  ListInv'
  <2>1. Walks(w)
    BY <1>7 DEF Continue
  <2>2. CASE walk[w].left = 1
    BY <1>7, <2>1, <2>2, EndKeeps DEF Continue
  <2>3. CASE walk[w].left # 1
    <3> DEFINE left == IF walk[w].left = 0 THEN 0 ELSE walk[w].left - 1
    <3>1. Advance(w, walk[w].version, Noted(w), left, walk[w].maxVer)
      BY <1>7, <2>3 DEF Continue
    <3>2. left \in 0 .. MaxNodes
      BY <2>1, <2>3, WalkTypes, RadicalAssumption
    <3> HIDE DEF left
    <3> QED BY <2>1, <3>1, <3>2, NotedType, WalkTypes, AdvanceKeeps
  <2> QED BY <2>2, <2>3
<1>8. ASSUME NEW w \in Walker, Stop(w)
      PROVE  ListInv'
  BY <1>8, EndKeeps DEF Stop
<1>9. ASSUME NEW w \in Walker, Revisit(w)
      PROVE  ListInv'
  BY <1>9, RevisitKeeps
<1>10. CASE UNCHANGED radicalVars
  <2>1. Ordered'
    BY <1>10, OrderedSame DEF radicalVars, ListInv, RadicalTypeOK
  <2>2. RadicalTypeOK'
    BY <1>10, <2>1 DEF radicalVars, ListInv, RadicalTypeOK, Walks
  <2> QED BY <1>10, <2>2 DEF radicalVars, ListInv, VersionsRise, MarkersOld, Walks
<1> QED BY <1>1, <1>2, <1>3, <1>4, <1>5, <1>6, <1>7, <1>8, <1>9, <1>10 DEF RadicalNext

THEOREM RadicalListInv == RadicalSpec => []ListInv
<1> QED BY ListInvInit, ListInvNext, PTL DEF RadicalSpec

\* The list stays a list: its order is total, and everything keeps its type.
THEOREM RadicalTypes == RadicalSpec => []RadicalTypeOK
<1>1. ListInv => RadicalTypeOK
  BY DEF ListInv
<1> QED BY <1>1, RadicalListInv, PTL

\* std_radical_appendtochangelist, std_radix_remove, std_radical_procverwrap and
\* the walks keep the nodes in the order of their versions.
THEOREM RadicalVersionsRise == RadicalSpec => []VersionsRise
<1>1. ListInv => VersionsRise
  BY DEF ListInv
<1> QED BY <1>1, RadicalListInv, PTL
----------------------------------------------------------------------------
(* What the markers claim.                                                 *)

\* The nodes that have a place of an order behind x.
LEMMA BehindPlace ==
  ASSUME Ordered, NEW x, NEW ahead \in SUBSET linked, Place(x, ahead), x \notin Route
  PROVE  NodesBehind(x)' = (Route \cap linked) \ ahead
<1>1. before \subseteq linked \X linked
  BY DEF Ordered
<1>2. /\ linked' = linked \cup {x}
      /\ \A y : y # x => (<<x, y>> \in before' <=> y \in linked \ ahead)
  BY <1>1, PlaceEffect
<1>3. \A n \in Route : n # x
  OBVIOUS
<1> QED BY <1>2, <1>3 DEF NodesBehind

\* The nodes that are not before an item are behind it, and those behind a
\* node are newer.
LEMMA BehindItem ==
  ASSUME Ordered, NEW y \in linked, NEW n \in linked, n \notin Ahead(y), n # y
  PROVE  <<y, n>> \in before
BY DEF Ordered, Ahead

\* What a walker does leaves the others as honest as they were.
LEMMA OthersHonest ==
  ASSUME HonestInv, NEW w \in Walker, NEW u \in Walker, u # w,
         linked' \in {linked \cup {w}, linked \ {w}},
         \A y, z : y # w /\ z # w => (<<y, z>> \in before' <=> <<y, z>> \in before),
         \A x \in Item : x # w => versions'[x] = versions[x],
         walk'[u] = walk[u], note'[u] = note[u]
  PROVE  MarkerHonest(u)' /\ WalkHonest(u)'
<1>1. \A n \in Route : n \in Item /\ n # w
  BY RadicalAssumption DEF Item
<1>2. u \in Item /\ versions'[u] = versions[u] /\ (u \in linked' <=> u \in linked)
  BY DEF Item
<1>3. NodesBehind(u)' = NodesBehind(u)
  BY <1>1 DEF NodesBehind
<1>4. \A n \in NodesBehind(u) : versions'[n] = versions[n]
  BY <1>1 DEF NodesBehind
<1>5. MarkerHonest(u)'
  BY <1>2, <1>3, <1>4 DEF MarkerHonest, HonestInv
<1>6. Walks(u) => walk[u].node \in Route
  BY WalkTypes DEF HonestInv
<1>7. Walks(u)' <=> Walks(u)
  BY DEF Walks
<1>8. WalkHonest(u)'
  BY <1>1, <1>2, <1>3, <1>4, <1>6, <1>7 DEF WalkHonest, HonestInv
<1> QED BY <1>5, <1>8

\* A walker that is in no callback afterwards is honest if its marker is.
LEMMA IdleHonest ==
  ASSUME NEW w \in Walker, walk \in [Walker -> InWalk \cup {NoWalk}],
         walk' = [walk EXCEPT ![w] = NoWalk]
  PROVE  WalkHonest(w)'
BY DEF WalkHonest, Walks

\* The walk goes on from a marker that is behind all that is not newer.
LEMMA AdvanceHonest ==
  ASSUME HonestInv, NEW w \in Walker, w \in linked, NEW ver \in 0 .. last,
         NEW noted \in Notes,
         noted = "sound" => \A n \in NodesBehind(w) : versions[n] > ver,
         NEW left \in 0 .. MaxNodes, NEW maxVer \in 0 .. MaxChanges,
         Advance(w, ver, noted, left, maxVer)
  PROVE  /\ MarkerHonest(w)' /\ WalkHonest(w)'
         /\ linked' = linked \cup {w}
         /\ \A y, z : y # w /\ z # w => (<<y, z>> \in before' <=> <<y, z>> \in before)
         /\ \A x \in Item : x # w => versions'[x] = versions[x]
         /\ \A u \in Walker : u # w => walk'[u] = walk[u] /\ note'[u] = note[u]
<1>0. /\ Ordered /\ w \in Item /\ w \notin Route
      /\ versions \in [Item -> 0 .. MaxChanges]
      /\ walk \in [Walker -> InWalk \cup {NoWalk}]
      /\ note \in [Walker -> Notes]
  BY RadicalAssumption DEF HonestInv, ListInv, RadicalTypeOK, Item
<1>1. \A n \in Route : n \in Item /\ n # w /\ versions[n] \in Nat
  BY <1>0, RadicalAssumption DEF Item
<1>2. ASSUME NEW n \in Route, IsNext(w, n),
             versions[n] <= maxVer,
             Place(w, Ahead(n) \cup {n}),
             versions' = [versions EXCEPT ![w] = ver],
             walk' = [walk EXCEPT ![w] = [node |-> n, version |-> versions[n],
                                         left |-> left, maxVer |-> maxVer]],
             note' = [note EXCEPT ![w] = noted]
      PROVE  MarkerHonest(w)' /\ WalkHonest(w)'
  <2>1. n \in linked /\ n \in NodesBehind(w)
    BY <1>2 DEF IsNext, NodesBehind
  <2>2. NodesBehind(w)' = (Route \cap linked) \ (Ahead(n) \cup {n})
    <3> DEFINE ahead == Ahead(n) \cup {n}
    <3>1. ahead \in SUBSET linked /\ Place(w, ahead)
      BY <1>0, <1>2, <2>1, AheadClosed
    <3> HIDE DEF ahead
    <3>2. NodesBehind(w)' = (Route \cap linked) \ ahead
      BY <1>0, <3>1, BehindPlace
    <3> QED BY <3>2 DEF ahead
  <2>3. \A m \in NodesBehind(w)' : m \in Route /\ versions[m] > versions[n]
    BY <1>0, <2>1, <2>2, BehindItem DEF HonestInv, ListInv, VersionsRise
  <2>4. noted = "sound" => versions[n] > ver
    BY <2>1
  <2>5. versions'[w] = ver /\ \A m \in Route : versions'[m] = versions[m]
    BY <1>0, <1>1, <1>2
  <2>6. walk'[w].node = n /\ walk'[w].version = versions[n] /\ note'[w] = noted
    BY <1>0, <1>2
  <2>7. MarkerHonest(w)'
    BY <1>1, <2>3, <2>4, <2>5, <2>6 DEF MarkerHonest
  <2>8. WalkHonest(w)'
    BY <1>1, <2>3, <2>4, <2>5, <2>6 DEF WalkHonest
  <2> QED BY <2>7, <2>8
<1>3. ASSUME NEW n \in Route, IsNext(w, n),
             versions[n] > maxVer,
             Place(w, Ahead(n)),
             versions' = [versions EXCEPT ![w] = maxVer],
             walk' = [walk EXCEPT ![w] = NoWalk]
      PROVE  MarkerHonest(w)' /\ WalkHonest(w)'
  <2>1. n \in linked
    BY <1>3 DEF IsNext, NodesBehind
  <2>2. NodesBehind(w)' = (Route \cap linked) \ Ahead(n)
    BY <1>0, <1>3, <2>1, AheadClosed, BehindPlace
  <2>3. \A m \in NodesBehind(w)' : m \in Route /\ (m = n \/ versions[m] > versions[n])
    BY <1>0, <2>1, <2>2, BehindItem DEF HonestInv, ListInv, VersionsRise
  <2>4. versions'[w] = maxVer /\ \A m \in Route : versions'[m] = versions[m]
    BY <1>0, <1>1, <1>3
  <2>5. MarkerHonest(w)'
    BY <1>1, <1>3, <2>3, <2>4 DEF MarkerHonest
  <2> QED BY <1>0, <1>3, <2>5, IdleHonest
<1>4. ASSUME Place(w, linked),
             versions' = [versions EXCEPT ![w] = last],
             walk' = [walk EXCEPT ![w] = NoWalk]
      PROVE  MarkerHonest(w)' /\ WalkHonest(w)'
  <2>1. NodesBehind(w)' = {}
    BY <1>0, <1>4, BehindPlace
  <2> QED BY <1>0, <1>4, <2>1, IdleHonest DEF MarkerHonest
<1>5. MarkerHonest(w)' /\ WalkHonest(w)'
  BY <1>2, <1>3, <1>4 DEF Advance
<1>6. /\ linked' = linked \cup {w}
      /\ \A y, z : y # w /\ z # w => (<<y, z>> \in before' <=> <<y, z>> \in before)
  BY <1>0, PlaceAtEnds, PlaceNearby DEF Advance, IsNext, NodesBehind
<1>7. /\ \A x \in Item : x # w => versions'[x] = versions[x]
      /\ \A u \in Walker : u # w => walk'[u] = walk[u] /\ note'[u] = note[u]
  BY <1>0 DEF Advance
<1> QED BY <1>5, <1>6, <1>7

LEMMA AppendHonest ==
  ASSUME HonestInv, NEW n \in Route, AppendToChangeList(n), NEW w \in Walker
  PROVE  MarkerHonest(w)' /\ WalkHonest(w)'
<1>0. w \in Item /\ w # n /\ w \notin Route /\ last \in Nat
  BY RadicalAssumption DEF HonestInv, ListInv, RadicalTypeOK, Item
<1>p. Ordered /\ before \subseteq linked \X linked /\ Place(n, linked)
  BY DEF HonestInv, ListInv, RadicalTypeOK, Ordered, AppendToChangeList
<1>1. /\ linked' = linked \cup {n}
      /\ \A y, z : y # n /\ z # n => (<<y, z>> \in before' <=> <<y, z>> \in before)
      /\ \A y : y # n => <<n, y>> \notin before'
  <2>1. linked' = linked \cup {n}
    BY <1>p, PlaceAtEnds
  <2> QED BY <1>p, <2>1, PlaceEffect
<1>2. /\ versions'[n] = last + 1 /\ walk' = walk /\ note' = note
      /\ \A x \in Item : x # n => versions'[x] = versions[x]
  BY RadicalAssumption DEF HonestInv, ListInv, RadicalTypeOK, AppendToChangeList, Item
<1>3. \A m \in NodesBehind(w)' : m = n \/ (m \in NodesBehind(w) /\ versions'[m] = versions[m])
  BY <1>0, <1>1, <1>2 DEF NodesBehind, Item
<1>4. versions'[w] = versions[w] /\ (w \in linked' <=> w \in linked)
  BY <1>0, <1>1, <1>2
<1>5. w \in linked => versions[w] \in Nat /\ versions[w] <= last
  BY <1>0, RadicalAssumption DEF HonestInv, ListInv, RadicalTypeOK, MarkersOld
<1>6. MarkerHonest(w)'
  BY <1>0, <1>2, <1>3, <1>4, <1>5 DEF MarkerHonest, HonestInv
<1>7. ASSUME Walks(w), note[w] # "begun"
      PROVE  WalkHonest(w)'
  <2>1. walk[w].node \in Route /\ walk[w].version \in 0 .. last
    BY <1>7, WalkTypes DEF HonestInv
  <2>2. /\ note[w] = "sound" => versions[w] < walk[w].version
        /\ \A m \in NodesBehind(w) : versions[m] > walk[w].version
        /\ <<walk[w].node, w>> \in before => versions[walk[w].node] = walk[w].version
    BY <1>7 DEF HonestInv, WalkHonest
  <2>3. <<walk[w].node, w>> \in before' =>
          <<walk[w].node, w>> \in before /\ versions'[walk[w].node] = versions[walk[w].node]
    BY <1>0, <1>1, <1>2, <2>1 DEF Item
  <2> QED BY <1>0, <1>2, <1>3, <1>4, <2>1, <2>2, <2>3 DEF WalkHonest
<1>8. ~(Walks(w) /\ note[w] # "begun") => WalkHonest(w)'
  BY <1>2 DEF WalkHonest, Walks
<1> QED BY <1>6, <1>7, <1>8

LEMMA UnlinkHonest ==
  ASSUME HonestInv, NEW x, Unlink(x), UNCHANGED <<versions, last, walk, note>>, NEW w \in Walker
  PROVE  MarkerHonest(w)' /\ WalkHonest(w)'
<1>1. /\ linked' = linked \ {x}
      /\ \A y, z : <<y, z>> \in before' <=> <<y, z>> \in before /\ y # x /\ z # x
  BY UnlinkEffect DEF HonestInv, ListInv, RadicalTypeOK
<1>2. NodesBehind(w)' \subseteq NodesBehind(w) /\ (w \in linked' => w \in linked)
  BY <1>1 DEF NodesBehind
<1>3. MarkerHonest(w)'
  BY <1>2 DEF MarkerHonest, HonestInv
<1>4. WalkHonest(w)'
  BY <1>1, <1>2 DEF WalkHonest, HonestInv, Walks
<1> QED BY <1>3, <1>4

LEMMA ProcVerWrapHonest ==
  ASSUME HonestInv, ProcVerWrap, NEW w \in Walker
  PROVE  MarkerHonest(w)' /\ WalkHonest(w)'
<1>1. UNCHANGED <<linked, before, last, walk>> /\ ~Walks(w)
  BY DEF ProcVerWrap
<1>2. \A x \in linked : versions'[x] = Cardinality(Upto(x))
  BY DEF ProcVerWrap, HonestInv, ListInv, RadicalTypeOK
<1>3. NodesBehind(w)' = NodesBehind(w) /\ NodesBehind(w) \subseteq Route \cap linked
  BY <1>1 DEF NodesBehind
<1>4. w \in linked => \A n \in NodesBehind(w) : Cardinality(Upto(n)) > Cardinality(Upto(w))
  <2> SUFFICES ASSUME w \in linked, NEW n \in NodesBehind(w)
               PROVE  Cardinality(Upto(n)) > Cardinality(Upto(w))
    OBVIOUS
  <2>1. n \in Route \cap linked /\ <<w, n>> \in before
    BY DEF NodesBehind
  <2>2. Cardinality(Upto(w)) < Cardinality(Upto(n))
    BY <2>1, RankRises DEF HonestInv
  <2> QED BY <2>2
<1>5. MarkerHonest(w)'
  BY <1>1, <1>2, <1>3, <1>4 DEF MarkerHonest
<1> QED BY <1>1, <1>5 DEF WalkHonest, Walks

LEMMA ConstructorHonest ==
  ASSUME HonestInv, NEW w \in Walker,
         WalkConstructor(w) \/ \E v \in Walker : WalkConstructorAfter(w, v)
  PROVE  /\ MarkerHonest(w)' /\ WalkHonest(w)'
         /\ linked' = linked \cup {w}
         /\ \A y, z : y # w /\ z # w => (<<y, z>> \in before' <=> <<y, z>> \in before)
<1>0. Ordered /\ w \notin Route /\ w \in Item /\ versions \in [Item -> 0 .. MaxChanges]
  BY RadicalAssumption DEF HonestInv, ListInv, RadicalTypeOK, Item
<1>1. walk' = walk /\ WalkHonest(w)'
  <2>1. walk' = walk /\ (Walks(w) => note'[w] = "begun")
    BY DEF WalkConstructor, WalkConstructorAfter, HonestInv, ListInv, RadicalTypeOK
  <2> QED BY <2>1 DEF WalkHonest, Walks
<1>2. CASE WalkConstructor(w)
  <2>1. NodesBehind(w)' = Route \cap linked
    BY <1>0, <1>2, BehindPlace DEF WalkConstructor
  <2>2. versions'[w] = 0 /\ \A n \in Route : versions'[n] = versions[n]
    BY <1>0, <1>2, RadicalAssumption DEF WalkConstructor, Item
  <2>3. \A n \in Route \cap linked : versions[n] \in 1 .. last
    BY DEF HonestInv, ListInv, VersionsRise
  <2>4. MarkerHonest(w)'
    BY <2>1, <2>2, <2>3 DEF MarkerHonest
  <2> QED BY <1>0, <1>1, <1>2, <2>4, PlaceAtEnds DEF WalkConstructor
<1>3. ASSUME NEW v \in Walker, WalkConstructorAfter(w, v)
      PROVE  /\ MarkerHonest(w)'
             /\ linked' = linked \cup {w}
             /\ \A y, z : y # w /\ z # w => (<<y, z>> \in before' <=> <<y, z>> \in before)
  <2> DEFINE ahead == Ahead(v) \cup {v}
  <2>1. v \in linked /\ v # w /\ v \notin Route /\ ahead \in SUBSET linked /\ Place(w, ahead)
    BY <1>0, <1>3, AheadClosed, RadicalAssumption DEF WalkConstructorAfter, Active
  <2>2. NodesBehind(w)' = (Route \cap linked) \ ahead
    <3> HIDE DEF ahead
    <3> QED BY <1>0, <2>1, BehindPlace
  <2>3. \A n \in NodesBehind(w)' : n \in NodesBehind(v)
    BY <1>0, <2>1, <2>2, BehindItem DEF NodesBehind
  <2>4. versions'[w] = versions[v] /\ \A n \in Route : versions'[n] = versions[n]
    BY <1>0, <1>3, RadicalAssumption DEF WalkConstructorAfter, Item
  <2>5. note'[w] = "sound" => note[v] = "sound"
    BY <1>3 DEF WalkConstructorAfter, HonestInv, ListInv, RadicalTypeOK
  <2>6. MarkerHonest(w)'
    BY <2>1, <2>3, <2>4, <2>5 DEF MarkerHonest, HonestInv, NodesBehind
  <2> QED BY <1>0, <1>3, <2>1, <2>6, PlaceNearby DEF WalkConstructorAfter
<1> QED BY <1>1, <1>2, <1>3

LEMMA EndHonest ==
  ASSUME HonestInv, NEW w \in Walker, Walks(w),
         versions' = [versions EXCEPT ![w] = walk[w].version],
         walk' = [walk EXCEPT ![w] = NoWalk],
         note' = [note EXCEPT ![w] = Noted(w)],
         UNCHANGED <<linked, before, last>>
  PROVE  MarkerHonest(w)' /\ WalkHonest(w)'
<1>0. w \notin Route /\ w \in Item /\ versions \in [Item -> 0 .. MaxChanges]
  BY RadicalAssumption DEF HonestInv, ListInv, RadicalTypeOK, Item
<1>1. NodesBehind(w)' = NodesBehind(w) /\ NodesBehind(w) \subseteq Route
  BY DEF NodesBehind
<1>2. versions'[w] = walk[w].version /\ \A n \in Route : versions'[n] = versions[n]
  BY <1>0 DEF Item
<1>n. note'[w] = "sound" => note[w] # "begun"
  BY DEF Noted, HonestInv, ListInv, RadicalTypeOK
<1>3. MarkerHonest(w)'
  BY <1>1, <1>2, <1>n DEF MarkerHonest, WalkHonest, HonestInv
<1> QED BY <1>3, IdleHonest DEF HonestInv, ListInv, RadicalTypeOK

LEMMA RevisitHonest ==
  ASSUME HonestInv, NEW w \in Walker, Revisit(w)
  PROVE  /\ MarkerHonest(w)' /\ WalkHonest(w)'
         /\ linked' = linked \cup {w}
         /\ \A y, z : y # w /\ z # w => (<<y, z>> \in before' <=> <<y, z>> \in before)
<1> DEFINE n == walk[w].node
<1>0. Ordered /\ w \notin Route /\ w \in Item /\ versions \in [Item -> 0 .. MaxChanges]
  BY RadicalAssumption DEF HonestInv, ListInv, RadicalTypeOK, Item
<1>1. /\ n \in linked /\ Place(w, Ahead(n))
      /\ walk' = [walk EXCEPT ![w] = NoWalk] /\ versions' = versions /\ Walks(w)
      /\ note'[w] = "sound" => note[w] = "sound"
  BY DEF Revisit, HonestInv, ListInv, RadicalTypeOK
<1>2. n \in Route /\ n # w /\ w \in linked
  BY <1>0, <1>1, WalkTypes DEF HonestInv
<1>3. note[w] = "sound" => versions[w] < versions[n]
  <2>1. CASE <<n, w>> \in before
    BY <1>1, <2>1 DEF HonestInv, WalkHonest
  <2>2. CASE <<n, w>> \notin before
    BY <1>0, <1>1, <1>2, <2>2 DEF HonestInv, MarkerHonest, NodesBehind, Ordered
  <2> QED BY <2>1, <2>2
<1> HIDE DEF n
<1>4. NodesBehind(w)' = (Route \cap linked) \ Ahead(n)
  BY <1>0, <1>1, AheadClosed, BehindPlace
<1>5. \A m \in NodesBehind(w)' : m \in Route /\ (m = n \/ versions[m] > versions[n])
  BY <1>0, <1>1, <1>2, <1>4, BehindItem DEF HonestInv, ListInv, VersionsRise
<1>6. \A m \in Route : versions[m] \in Nat /\ versions[w] \in Nat
  BY <1>0, RadicalAssumption DEF Item
<1>7. MarkerHonest(w)'
  BY <1>1, <1>2, <1>3, <1>5, <1>6 DEF MarkerHonest
<1>8. WalkHonest(w)'
  BY <1>1, IdleHonest DEF HonestInv, ListInv, RadicalTypeOK
<1> QED BY <1>0, <1>1, <1>7, <1>8, PlaceNearby
----------------------------------------------------------------------------
LEMMA HonestInvInit == RadicalInit => HonestInv
<1> SUFFICES ASSUME RadicalInit PROVE HonestInv
  OBVIOUS
<1>1. \A w \in Walker : w \notin linked /\ ~Walks(w)
  BY DEF RadicalInit, Walks
<1> QED BY <1>1, ListInvInit DEF HonestInv, MarkerHonest, WalkHonest

LEMMA HonestInvNext == HonestInv /\ [RadicalNext]_radicalVars => HonestInv'
<1> SUFFICES ASSUME HonestInv, [RadicalNext]_radicalVars
             PROVE  \A w \in Walker : MarkerHonest(w)' /\ WalkHonest(w)'
  BY ListInvNext DEF HonestInv
<1>0. /\ last \in Nat
      /\ walk \in [Walker -> InWalk \cup {NoWalk}]
      /\ versions \in [Item -> 0 .. MaxChanges]
      /\ note \in [Walker -> Notes]
      /\ \A w \in Walker : w \in linked => versions[w] \in 0 .. last
  BY RadicalAssumption DEF HonestInv, ListInv, RadicalTypeOK, MarkersOld, Item
<1>1. ASSUME NEW n \in Route, AppendToChangeList(n)
      PROVE  \A w \in Walker : MarkerHonest(w)' /\ WalkHonest(w)'
  BY <1>1, AppendHonest
<1>2. ASSUME NEW n \in Route, RemoveFromTree(n)
      PROVE  \A w \in Walker : MarkerHonest(w)' /\ WalkHonest(w)'
  BY <1>2, UnlinkHonest DEF RemoveFromTree
<1>3. CASE ProcVerWrap
  BY <1>3, ProcVerWrapHonest
<1>4. ASSUME NEW w \in Walker, WalkConstructor(w) \/ \E v \in Walker : WalkConstructorAfter(w, v)
      PROVE  \A u \in Walker : MarkerHonest(u)' /\ WalkHonest(u)'
  <2>1. /\ \A x \in Item : x # w => versions'[x] = versions[x]
        /\ walk' = walk
        /\ \A u \in Walker : u # w => note'[u] = note[u]
    BY <1>0, <1>4 DEF WalkConstructor, WalkConstructorAfter
  <2> QED BY <1>4, <2>1, ConstructorHonest, OthersHonest
<1>5. ASSUME NEW w \in Walker, WalkDestructor(w)
      PROVE  \A u \in Walker : MarkerHonest(u)' /\ WalkHonest(u)'
  BY <1>5, UnlinkHonest DEF WalkDestructor
<1>6. ASSUME NEW w \in Walker, WalkChangeList(w)
      PROVE  \A u \in Walker : MarkerHonest(u)' /\ WalkHonest(u)'
  <2>1. w \in linked /\ versions[w] \in 0 .. last /\ note[w] \in Notes
        /\ (note[w] = "sound" => \A n \in NodesBehind(w) : versions[n] > versions[w])
    BY <1>0, <1>6 DEF WalkChangeList, Active, HonestInv, MarkerHonest
  <2> QED BY <1>6, <2>1, AdvanceHonest, OthersHonest DEF WalkChangeList
<1>7. ASSUME NEW w \in Walker, Walks(w),
             versions' = [versions EXCEPT ![w] = walk[w].version],
             walk' = [walk EXCEPT ![w] = NoWalk],
             note' = [note EXCEPT ![w] = Noted(w)],
             UNCHANGED <<linked, before, last>>
      PROVE  \A u \in Walker : MarkerHonest(u)' /\ WalkHonest(u)'
  <2>1. w \in linked
    BY <1>7, WalkTypes DEF HonestInv
  <2>2. /\ linked' = linked \cup {w}
        /\ \A x \in Item : x # w => versions'[x] = versions[x]
        /\ \A u \in Walker : u # w => walk'[u] = walk[u] /\ note'[u] = note[u]
    BY <1>0, <1>7, <2>1
  <2> QED BY <1>7, <2>2, EndHonest, OthersHonest
<1>8. ASSUME NEW w \in Walker, Continue(w)
      PROVE  \A u \in Walker : MarkerHonest(u)' /\ WalkHonest(u)'
  <2>1. Walks(w)
    BY <1>8 DEF Continue
  <2>2. CASE walk[w].left = 1
    BY <1>7, <1>8, <2>1, <2>2 DEF Continue
  <2>3. CASE walk[w].left # 1
    <3> DEFINE left == IF walk[w].left = 0 THEN 0 ELSE walk[w].left - 1
    <3>1. Advance(w, walk[w].version, Noted(w), left, walk[w].maxVer)
      BY <1>8, <2>3 DEF Continue
    <3>2. /\ left \in 0 .. MaxNodes
          /\ w \in linked
          /\ walk[w].version \in 0 .. last
          /\ walk[w].maxVer \in 0 .. MaxChanges
      BY <2>1, <2>3, WalkTypes, RadicalAssumption DEF HonestInv
    <3>3. Noted(w) = "sound" => \A n \in NodesBehind(w) : versions[n] > walk[w].version
      BY <2>1 DEF HonestInv, WalkHonest, Noted
    <3> HIDE DEF left
    <3> QED BY <3>1, <3>2, <3>3, NotedType, AdvanceHonest, OthersHonest
  <2> QED BY <2>2, <2>3
<1>9. ASSUME NEW w \in Walker, Stop(w)
      PROVE  \A u \in Walker : MarkerHonest(u)' /\ WalkHonest(u)'
  BY <1>7, <1>9 DEF Stop
<1>10. ASSUME NEW w \in Walker, Revisit(w)
       PROVE  \A u \in Walker : MarkerHonest(u)' /\ WalkHonest(u)'
  <2>1. /\ versions' = versions
        /\ \A u \in Walker : u # w => walk'[u] = walk[u] /\ note'[u] = note[u]
    BY <1>0, <1>10 DEF Revisit
  <2> QED BY <1>10, <2>1, RevisitHonest, OthersHonest
<1>11. CASE UNCHANGED radicalVars
  <2>1. \A w \in Walker : NodesBehind(w)' = NodesBehind(w)
    BY <1>11 DEF radicalVars, NodesBehind
  <2> QED BY <1>11, <2>1 DEF radicalVars, HonestInv, MarkerHonest, WalkHonest, Walks
<1> QED BY <1>1, <1>2, <1>3, <1>4, <1>5, <1>6, <1>8, <1>9, <1>10, <1>11 DEF RadicalNext

\* Whatever is appended, removed, walked, reset and revisited, a marker claims
\* no more than its walker was told, but from a reset in the walker's own callback
\* to the return of the next one (std_radical.c:254 writes the version that was
\* read before the reset).
THEOREM RadicalMarkersHonest == RadicalSpec => []MarkersHonest
<1>1. HonestInv => MarkersHonest
  BY DEF HonestInv, MarkerHonest, MarkersHonest, Active
<1> QED BY <1>1, HonestInvInit, HonestInvNext, PTL DEF RadicalSpec
----------------------------------------------------------------------------
(* The change list implements the change feed: every walker is told of     *)
(* every change behind its marker, once and in order.                      *)

\* What the list is to the feed.
Stamp   == [n \in Route |-> IF n \in linked THEN versions[n] ELSE 0]
Todo    == [w \in Walker |-> IF w \in linked THEN NodesBehind(w) ELSE {}]
Telling == [w \in Walker |-> walk[w].node]

\* No node comes between a marker and the node its walker is in the callback for,
\* unless that node has been appended or the walk begun again: so that a revisit
\* begins with it.
Near(w) ==
  Walks(w) /\ note[w] # "begun" /\ <<walk[w].node, w>> \in before =>
    \A m \in Route : ~(<<walk[w].node, m>> \in before /\ <<m, w>> \in before)

FeedInv == ListInv /\ \A w \in Walker : Near(w)
----------------------------------------------------------------------------
(* What the steps do to the places.                                        *)

\* A walker that is moved changes neither the order of the others ...
LEMMA OthersNear ==
  ASSUME FeedInv, NEW w \in Walker, NEW u \in Walker, u # w,
         \A y, z : y # w /\ z # w => (<<y, z>> \in before' <=> <<y, z>> \in before),
         walk'[u] = walk[u], note'[u] = note[u]
  PROVE  Near(u)'
<1>1. \A n \in Route : n # w
  BY RadicalAssumption
<1>2. Walks(u)' <=> Walks(u)
  BY DEF Walks
<1>3. Walks(u) => walk[u].node \in Route
  BY WalkTypes DEF FeedInv
<1> QED BY <1>1, <1>2, <1>3 DEF Near, FeedInv

\* ... nor what they have to be told of.
LEMMA OthersTodo ==
  ASSUME ListInv, NEW w \in Walker,
         linked' \in {linked \cup {w}, linked \ {w}},
         \A y, z : y # w /\ z # w => (<<y, z>> \in before' <=> <<y, z>> \in before),
         \A n \in Route : versions'[n] = versions[n]
  PROVE  /\ Stamp' = Stamp
         /\ \A u \in Walker : u # w => Todo'[u] = Todo[u]
<1>1. w \notin Route /\ \A n \in Route : n \in linked' <=> n \in linked
  BY RadicalAssumption
<1>2. Stamp' = Stamp
  BY <1>1 DEF Stamp
<1>3. ASSUME NEW u \in Walker, u # w PROVE Todo'[u] = Todo[u]
  <2>1. u \in linked' <=> u \in linked
    BY <1>3
  <2>2. NodesBehind(u)' = NodesBehind(u)
    BY <1>1, <1>3 DEF NodesBehind
  <2> QED BY <2>1, <2>2 DEF Todo
<1> QED BY <1>2, <1>3

\* A walk that goes on is behind its node, with nothing between.
LEMMA AdvanceNear ==
  ASSUME FeedInv, NEW w \in Walker, w \in linked,
         NEW ver, NEW noted, NEW left, NEW maxVer, Advance(w, ver, noted, left, maxVer)
  PROVE  Near(w)'
<1>0. Ordered /\ w \notin Route /\ walk \in [Walker -> InWalk \cup {NoWalk}]
  BY RadicalAssumption DEF FeedInv, ListInv, RadicalTypeOK
<1>1. ASSUME NEW n \in Route, IsNext(w, n), Place(w, Ahead(n) \cup {n}),
             walk' = [walk EXCEPT ![w] = [node |-> n, version |-> versions[n],
                                         left |-> left, maxVer |-> maxVer]]
      PROVE  Near(w)'
  <2> DEFINE ahead == Ahead(n) \cup {n}
  <2>1. n \in linked
    BY <1>1 DEF IsNext, NodesBehind
  <2>2. ahead \in SUBSET linked /\ Place(w, ahead) /\ before \subseteq linked \X linked
    BY <1>0, <1>1, <2>1, AheadClosed DEF Ordered
  <2>3. ASSUME NEW m \in Route, <<n, m>> \in before', <<m, w>> \in before' PROVE FALSE
    <3>1. m # w /\ n # w
      BY <1>0
    <3>2. <<n, m>> \in before /\ m \in ahead
      <4> HIDE DEF ahead
      <4> QED BY <2>2, <2>3, <3>1, PlaceEffect
    <3> QED BY <1>0, <2>1, <2>2, <3>2 DEF Ahead, Ordered
  <2>4. walk'[w].node = n
    BY <1>0, <1>1
  <2> QED BY <2>3, <2>4 DEF Near
<1>2. CASE walk' = [walk EXCEPT ![w] = NoWalk]
  BY <1>0, <1>2 DEF Near, Walks
<1> QED BY <1>1, <1>2 DEF Advance

\* Every step keeps every marker near the node of its walk.
LEMMA NearNext ==
  ASSUME ~Restless, FeedInv, [RadicalNext]_radicalVars
  PROVE  \A w \in Walker : Near(w)'
<1>0. /\ Ordered /\ before \subseteq linked \X linked /\ last \in Nat
      /\ walk \in [Walker -> InWalk \cup {NoWalk}] /\ note \in [Walker -> Notes]
      /\ \A w \in Walker : w \notin Route
  <2>1. Ordered /\ last \in Nat /\ walk \in [Walker -> InWalk \cup {NoWalk}] /\ note \in [Walker -> Notes]
    BY RadicalAssumption DEF FeedInv, ListInv, RadicalTypeOK
  <2> QED BY <2>1, RadicalAssumption DEF Ordered
<1>1. ASSUME NEW n \in Route, AppendToChangeList(n), NEW w \in Walker PROVE Near(w)'
  <2>1. /\ \A y, z : y # n /\ z # n => (<<y, z>> \in before' <=> <<y, z>> \in before)
        /\ \A y : y # n => <<n, y>> \notin before'
    <3>1. Place(n, linked)
      BY <1>1 DEF AppendToChangeList
    <3>2. \A y : y # n => (<<n, y>> \in before' <=> y \in linked \ linked)
      BY <1>0, <3>1, PlaceEffect
    <3> QED BY <1>0, <3>1, <3>2, PlaceEffect
  <2>2. w # n /\ walk' = walk /\ note' = note
    BY <1>0, <1>1 DEF AppendToChangeList
  <2>3. Near(w)
    BY DEF FeedInv
  <2> QED BY <2>1, <2>2, <2>3 DEF Near, Walks
<1>2. ASSUME NEW x, Unlink(x), walk' = walk, note' = note, NEW w \in Walker PROVE Near(w)'
  <2>1. \A y, z : <<y, z>> \in before' => <<y, z>> \in before
    BY <1>0, <1>2, UnlinkEffect
  <2> QED BY <1>2, <2>1 DEF Near, Walks, FeedInv
<1>3. ASSUME before' = before, NEW w \in Walker,
             walk' = [walk EXCEPT ![w] = NoWalk],
             \A u \in Walker : u # w => note'[u] = note[u],
             NEW u \in Walker
      PROVE  Near(u)'
  <2>1. (walk'[u] = walk[u] /\ note'[u] = note[u]) \/ walk'[u] = NoWalk
    BY <1>0, <1>3
  <2>2. Near(u)
    BY DEF FeedInv
  <2> QED BY <1>3, <2>1, <2>2 DEF Near, Walks
<1>4. ASSUME NEW w \in Walker,
             WalkConstructor(w) \/ \E v \in Walker : WalkConstructorAfter(w, v)
      PROVE  \A u \in Walker : Near(u)'
  <2>1. /\ walk' = walk /\ (Walks(w) => note'[w] = "begun")
        /\ \A u \in Walker : u # w => note'[u] = note[u]
    BY <1>0, <1>4 DEF WalkConstructor, WalkConstructorAfter
  <2>2. \A y, z : y # w /\ z # w => (<<y, z>> \in before' <=> <<y, z>> \in before)
    BY <1>0, <1>4, PlaceAtEnds, PlaceNearby DEF WalkConstructor, WalkConstructorAfter, Active
  <2>3. Near(w)'
    BY <1>4, <2>1 DEF Near, Walks
  <2> QED BY <2>1, <2>2, <2>3, OthersNear
<1>5. ASSUME NEW w \in Walker, w \in linked, NEW ver, NEW noted, NEW left, NEW maxVer,
             Advance(w, ver, noted, left, maxVer)
      PROVE  \A u \in Walker : Near(u)'
  <2>1. \A y, z : y # w /\ z # w => (<<y, z>> \in before' <=> <<y, z>> \in before)
    BY <1>0, <1>5, PlaceAtEnds, PlaceNearby DEF Advance, IsNext, NodesBehind
  <2>2. \A u \in Walker : u # w => walk'[u] = walk[u] /\ note'[u] = note[u]
    BY <1>0, <1>5 DEF Advance
  <2> QED BY <1>5, <2>1, <2>2, AdvanceNear, OthersNear
<1>6. ASSUME NEW w \in Walker, WalkChangeList(w) PROVE \A u \in Walker : Near(u)'
  BY <1>5, <1>6 DEF WalkChangeList, Active
<1>7. ASSUME NEW w \in Walker, Continue(w) \/ Stop(w) PROVE \A u \in Walker : Near(u)'
  <2>1. w \in linked
    BY <1>7, WalkTypes DEF Continue, Stop, FeedInv
  <2>2. CASE UNCHANGED <<linked, before, last>> /\ walk' = [walk EXCEPT ![w] = NoWalk]
               /\ note' = [note EXCEPT ![w] = Noted(w)]
    BY <1>0, <1>3, <2>2
  <2>3. ASSUME NEW left, Advance(w, walk[w].version, Noted(w), left, walk[w].maxVer)
        PROVE  \A u \in Walker : Near(u)'
    BY <1>5, <2>1, <2>3
  <2> QED BY <1>7, <2>2, <2>3 DEF Continue, Stop
<1>8. ASSUME NEW w \in Walker, Revisit(w) PROVE \A u \in Walker : Near(u)'
  <2>1. walk[w].node \in linked /\ walk' = [walk EXCEPT ![w] = NoWalk]
    BY <1>8 DEF Revisit
  <2>2. \A y, z : y # w /\ z # w => (<<y, z>> \in before' <=> <<y, z>> \in before)
    BY <1>0, <1>8, <2>1, PlaceNearby DEF Revisit
  <2>3. Near(w)'
    BY <1>0, <2>1 DEF Near, Walks
  <2>4. \A u \in Walker : u # w => walk'[u] = walk[u] /\ note'[u] = note[u]
    BY <1>0, <1>8, <2>1 DEF Revisit
  <2> QED BY <2>2, <2>3, <2>4, OthersNear
<1>9. CASE UNCHANGED radicalVars
  BY <1>9 DEF radicalVars, Near, Walks, FeedInv
<1>10. CASE ProcVerWrap
  BY <1>10 DEF ProcVerWrap, Near, Walks, FeedInv
<1>11. ASSUME NEW n \in Route, RemoveFromTree(n) PROVE \A w \in Walker : Near(w)'
  BY <1>2, <1>11 DEF RemoveFromTree
<1>12. ASSUME NEW w \in Walker, WalkDestructor(w) PROVE \A u \in Walker : Near(u)'
  BY <1>2, <1>12 DEF WalkDestructor
<1> QED BY <1>1, <1>4, <1>6, <1>7, <1>8, <1>9, <1>10, <1>11, <1>12 DEF RadicalNext
----------------------------------------------------------------------------
(* The steps of the feed.                                                  *)

\* Nodes of the list have versions that are numbers of changes.
LEMMA NodeVersions ==
  ASSUME ListInv, NEW n \in Route, n \in linked
  PROVE  versions[n] \in Nat /\ versions[n] # 0
<1>1. versions[n] \in 1 .. last
  BY DEF ListInv, VersionsRise
<1>2. last \in Nat
  BY RadicalAssumption DEF ListInv, RadicalTypeOK
<1> QED BY <1>1, <1>2

\* A change.
LEMMA AppendChanges ==
  ASSUME FeedInv, NEW n \in Route, AppendToChangeList(n)
  PROVE  Feed!Change(n)
<1>0. /\ Ordered /\ before \subseteq linked \X linked
      /\ versions \in [Item -> 0 .. MaxChanges] /\ n \in Item /\ n \notin Walker
      /\ \A m \in Route : m \in Item
  BY RadicalAssumption DEF FeedInv, ListInv, RadicalTypeOK, Ordered, Item
<1>1. /\ linked' = linked \cup {n}
      /\ \A y, z : y # n /\ z # n => (<<y, z>> \in before' <=> <<y, z>> \in before)
      /\ \A y : y # n => (<<y, n>> \in before' <=> y \in linked)
  <2>1. Place(n, linked)
    BY DEF AppendToChangeList
  <2> QED BY <1>0, <2>1, PlaceEffect
<1>2. last' = last + 1 /\ versions' = [versions EXCEPT ![n] = last'] /\ walk' = walk
  BY DEF AppendToChangeList
<1>3. Stamp' = [Stamp EXCEPT ![n] = last']
  BY <1>0, <1>1, <1>2 DEF Stamp
<1>4. Active' = Active
  BY <1>0, <1>1 DEF Active
<1>5. ASSUME NEW w \in Walker
      PROVE  Todo'[w] = IF w \in Active THEN Todo[w] \cup {n} ELSE Todo[w]
  <2>1. w \in linked => NodesBehind(w)' = NodesBehind(w) \cup {n}
    BY <1>0, <1>1 DEF NodesBehind
  <2>2. w \in linked' <=> w \in linked
    BY <1>0, <1>1
  <2> QED BY <2>1, <2>2 DEF Todo, Active
<1>6. Todo' = [w \in Walker |-> IF w \in Active THEN Todo[w] \cup {n} ELSE Todo[w]]
  BY <1>5 DEF Todo
<1>7. Telling' = Telling
  BY <1>2 DEF Telling
<1> QED BY <1>2, <1>3, <1>4, <1>6, <1>7 DEF Feed!Change, Stamp, Todo, Telling

\* A node is forgotten.
LEMMA RemoveForgets ==
  ASSUME FeedInv, NEW n \in Route, RemoveFromTree(n)
  PROVE  Feed!Forget(n)
<1>0. Ordered /\ n \notin Walker /\ Unlink(n) /\ UNCHANGED <<versions, last, walk, note>>
  BY RadicalAssumption DEF FeedInv, ListInv, RadicalTypeOK, RemoveFromTree
<1>1. /\ linked' = linked \ {n}
      /\ \A y, z : <<y, z>> \in before' <=> <<y, z>> \in before /\ y # n /\ z # n
  BY <1>0, UnlinkEffect
<1>2. Stamp' = [Stamp EXCEPT ![n] = 0]
  BY <1>0, <1>1 DEF Stamp
<1>3. ASSUME NEW w \in Walker PROVE Todo'[w] = Todo[w] \ {n}
  <2>1. NodesBehind(w)' = NodesBehind(w) \ {n}
    BY <1>0, <1>1 DEF NodesBehind
  <2>2. w \in linked' <=> w \in linked
    BY <1>0, <1>1
  <2> QED BY <2>1, <2>2 DEF Todo
<1>4. Todo' = [w \in Walker |-> Todo[w] \ {n}]
  BY <1>3 DEF Todo
<1>5. Telling' = Telling /\ Active' = Active
  BY <1>0, <1>1 DEF Telling, Active
<1> QED BY <1>0, <1>2, <1>4, <1>5 DEF Feed!Forget, Stamp, Todo, Telling

\* Renumbering.
LEMMA WrapRenumbers ==
  ASSUME FeedInv, ProcVerWrap
  PROVE  Feed!Renumber
<1>0. /\ ListInv /\ Ordered /\ last \in Nat
      /\ UNCHANGED <<linked, before, last, walk>>
      /\ \A n \in Route : n \in Item
  BY RadicalAssumption DEF FeedInv, ListInv, RadicalTypeOK, ProcVerWrap, Item
<1>1. \A n \in Route : Stamp'[n] = IF n \in linked THEN Cardinality(Upto(n)) ELSE 0
  BY <1>0 DEF ProcVerWrap, Stamp
<1>2. \A n \in Route : n \in linked =>
        Cardinality(Upto(n)) \in 0 .. last /\ Cardinality(Upto(n)) # 0
  BY <1>0, RankBound
<1>3. \A n \in Route : n \in linked => versions[n] \in 1 .. last
  BY <1>0 DEF ListInv, VersionsRise
<1>4. \A n \in Route : Stamp[n] = IF n \in linked THEN versions[n] ELSE 0
  BY DEF Stamp
<1>5. ASSUME NEW m \in Route, NEW n \in Route
      PROVE  /\ Stamp[n] = 0 <=> Stamp'[n] = 0
             /\ Stamp[m] < Stamp[n] <=> Stamp'[m] < Stamp'[n]
  <2>1. Stamp[n] = 0 <=> Stamp'[n] = 0
    BY <1>0, <1>1, <1>2, <1>3, <1>4
  <2>2. ASSUME NEW k \in Route \cap linked, NEW l \in Route \cap linked, <<k, l>> \in before
        PROVE  versions[k] < versions[l] /\ Cardinality(Upto(k)) < Cardinality(Upto(l))
    <3>1. Cardinality(Upto(k)) < Cardinality(Upto(l))
      BY <1>0, <2>2, RankRises
    <3> QED BY <1>0, <2>2, <3>1 DEF ListInv, VersionsRise
  <2>3. CASE m \in linked /\ n \in linked
    <3>1. m = n \/ <<m, n>> \in before \/ <<n, m>> \in before
      BY <1>0, <2>3 DEF Ordered
    <3> QED BY <1>0, <1>1, <1>2, <1>3, <1>4, <2>2, <2>3, <3>1
  <2>4. CASE ~(m \in linked /\ n \in linked)
    BY <1>0, <1>1, <1>2, <1>3, <1>4, <2>4
  <2> QED BY <2>1, <2>3, <2>4
<1>6. Stamp' \in [Route -> 0 .. last]
  <2>1. \A n \in Route : Stamp'[n] \in 0 .. last
    BY <1>0, <1>1, <1>2
  <2> QED BY <2>1 DEF Stamp
<1>7. Todo' = Todo /\ Telling' = Telling /\ Active' = Active
  <2>1. \A w \in Walker : NodesBehind(w)' = NodesBehind(w)
    BY <1>0 DEF NodesBehind
  <2> QED BY <1>0, <2>1 DEF Todo, Telling, Active
<1> QED BY <1>0, <1>5, <1>6, <1>7 DEF Feed!Renumber, Stamp, Todo, Telling

\* A walker begins, with every change or where another is.
LEMMA ConstructorBegins ==
  ASSUME FeedInv, NEW w \in Walker,
         WalkConstructor(w) \/ \E v \in Walker : WalkConstructorAfter(w, v)
  PROVE  Feed!Begin(w)
<1>0. /\ ListInv /\ Ordered /\ w \notin Route /\ versions \in [Item -> 0 .. MaxChanges]
      /\ last' = last /\ walk' = walk
  BY RadicalAssumption DEF FeedInv, ListInv, RadicalTypeOK, WalkConstructor, WalkConstructorAfter
<1>1. /\ linked' = linked \cup {w}
      /\ \A y, z : y # w /\ z # w => (<<y, z>> \in before' <=> <<y, z>> \in before)
  BY <1>0, PlaceAtEnds, PlaceNearby DEF WalkConstructor, WalkConstructorAfter, Active
<1>2. \A n \in Route : versions'[n] = versions[n]
  BY <1>0 DEF WalkConstructor, WalkConstructorAfter, Item
<1>3. Stamp' = Stamp /\ \A u \in Walker : u # w => Todo'[u] = Todo[u]
  BY <1>0, <1>1, <1>2, OthersTodo
<1>4. Todo'[w] = NodesBehind(w)'
  BY <1>1 DEF Todo
<1>5. Todo'[w] = {n \in Route : Stamp[n] # 0} \/ \E v \in Active \ {w} : Todo'[w] = Todo[v]
  <2>1. CASE WalkConstructor(w)
    <3>1. NodesBehind(w)' = Route \cap linked
      BY <1>0, <2>1, BehindPlace DEF WalkConstructor
    <3>2. \A n \in Route : n \in linked => versions[n] # 0
      BY <1>0, NodeVersions
    <3>3. \A n \in Route : Stamp[n] # 0 <=> n \in linked
      BY <3>2 DEF Stamp
    <3> QED BY <1>4, <3>1, <3>3
  <2>2. ASSUME NEW v \in Walker, WalkConstructorAfter(w, v)
        PROVE  \E u \in Active \ {w} : Todo'[w] = Todo[u]
    <3> DEFINE ahead == Ahead(v) \cup {v}
    <3>1. v \in Active \ {w} /\ v \in linked /\ v \notin Route /\ Place(w, ahead)
      BY <1>0, <2>2, RadicalAssumption DEF WalkConstructorAfter, Active
    <3>2. ahead \in SUBSET linked
      BY <1>0, <3>1, AheadClosed
    <3>3. NodesBehind(w)' = (Route \cap linked) \ ahead
      <4> HIDE DEF ahead
      <4> QED BY <1>0, <3>1, <3>2, BehindPlace
    <3>4. NodesBehind(v) = (Route \cap linked) \ ahead
      BY <1>0, <3>1 DEF NodesBehind, Ahead, Ordered
    <3>5. Todo[v] = NodesBehind(v)
      BY <3>1 DEF Todo
    <3> QED BY <1>4, <3>1, <3>3, <3>4, <3>5
  <2> QED BY <2>1, <2>2
<1>6. /\ Active' = Active \cup {w} /\ Telling' = Telling
      /\ Todo' = [Todo EXCEPT ![w] = Todo'[w]]
  BY <1>0, <1>1, <1>3 DEF Active, Telling, Todo
<1>7. Feed!Changed = {n \in Route : Stamp[n] # 0}
  BY DEF Feed!Changed, Stamp
<1>8. PICK nodes \in {Feed!Changed} \cup {Todo[v] : v \in Active \ {w}} : nodes = Todo'[w]
  BY <1>5, <1>7
<1>9. Todo' \in {[Todo EXCEPT ![w] = nn] :
                  nn \in {Feed!Changed} \cup {Todo[v] : v \in Active \ {w}}}
  BY <1>6, <1>8
<1> QED BY <1>0, <1>3, <1>6, <1>9 DEF Feed!Begin, Stamp, Todo, Telling

\* A walker ends.
LEMMA DestructorEnds ==
  ASSUME FeedInv, NEW w \in Walker, WalkDestructor(w)
  PROVE  Feed!End(w)
<1>0. /\ ListInv /\ Ordered /\ w \notin Route /\ Unlink(w) /\ ~Walks(w)
      /\ UNCHANGED <<versions, last, walk, note>> /\ walk \in [Walker -> InWalk \cup {NoWalk}]
  BY RadicalAssumption DEF FeedInv, ListInv, RadicalTypeOK, WalkDestructor
<1>1. /\ linked' = linked \ {w}
      /\ \A y, z : <<y, z>> \in before' <=> <<y, z>> \in before /\ y # w /\ z # w
  BY <1>0, UnlinkEffect
<1>2. Stamp' = Stamp /\ \A u \in Walker : u # w => Todo'[u] = Todo[u]
  BY <1>0, <1>1, OthersTodo
<1>3. Todo' = [Todo EXCEPT ![w] = {}]
  BY <1>1, <1>2 DEF Todo
<1>4. Active' = Active \ {w} /\ Telling' = Telling /\ Telling[w] = NoRoute
  BY <1>0, <1>1 DEF Active, Telling, Walks, NoWalk
<1> QED BY <1>0, <1>2, <1>3, <1>4 DEF Feed!End, Stamp, Todo, Telling

\* A walker is told of the first of the nodes behind its marker, the earliest
\* change it does not know, or has taken note of the last it was told of.
LEMMA AdvanceTells ==
  ASSUME FeedInv, NEW w \in Walker, w \in linked,
         NEW ver, NEW noted, NEW left, NEW maxVer, Advance(w, ver, noted, left, maxVer)
  PROVE  \/ \E n \in Route : Feed!Tell(w, n)
         \/ walk' = [walk EXCEPT ![w] = NoWalk] /\ Todo' = Todo /\ Stamp' = Stamp
              /\ Active' = Active /\ last' = last
<1>0. /\ ListInv /\ Ordered /\ w \notin Route /\ w \in linked
      /\ versions \in [Item -> 0 .. MaxChanges] /\ last' = last
      /\ walk \in [Walker -> InWalk \cup {NoWalk}]
  BY RadicalAssumption DEF FeedInv, ListInv, RadicalTypeOK, Advance
<1>1. /\ linked' = linked \cup {w}
      /\ \A y, z : y # w /\ z # w => (<<y, z>> \in before' <=> <<y, z>> \in before)
  BY <1>0, PlaceAtEnds, PlaceNearby DEF Advance, IsNext, NodesBehind
<1>2. \A n \in Route : versions'[n] = versions[n]
  BY <1>0 DEF Advance, Item
<1>3. Stamp' = Stamp /\ \A u \in Walker : u # w => Todo'[u] = Todo[u]
  BY <1>0, <1>1, <1>2, OthersTodo
<1>4. Active' = Active /\ Todo'[w] = NodesBehind(w)' /\ Todo[w] = NodesBehind(w)
  BY <1>0, <1>1 DEF Active, Todo
<1>5. ASSUME NEW n \in Route, IsNext(w, n)
      PROVE  /\ n \in linked /\ Ahead(n) \in SUBSET linked /\ Ahead(n) \cup {n} \in SUBSET linked
             /\ NodesBehind(w) = (Route \cap linked) \ Ahead(n)
  <2>1. n \in linked /\ <<w, n>> \in before /\ \A m \in NodesBehind(w) \ {n} : <<n, m>> \in before
    BY <1>5 DEF IsNext, NodesBehind
  <2>2. NodesBehind(w) = (Route \cap linked) \ Ahead(n)
    <3>1. ASSUME NEW m \in Route \cap linked PROVE <<w, m>> \in before <=> <<m, n>> \notin before
      <4>1. CASE m = n
        BY <1>0, <2>1, <4>1 DEF Ordered
      <4>2. CASE m # n /\ <<w, m>> \in before
        BY <1>0, <2>1, <4>2 DEF Ordered, NodesBehind
      <4>3. CASE m # n /\ <<w, m>> \notin before
        BY <1>0, <2>1, <4>3 DEF Ordered
      <4> QED BY <4>1, <4>2, <4>3
    <3> QED BY <3>1 DEF NodesBehind, Ahead
  <2> QED BY <1>0, <2>1, <2>2, AheadClosed
<1>6. ASSUME NEW n \in Route, IsNext(w, n), Place(w, Ahead(n) \cup {n}),
             walk' = [walk EXCEPT ![w] = [node |-> n, version |-> versions[n],
                                         left |-> left, maxVer |-> maxVer]]
      PROVE  Feed!Tell(w, n)
  <2>1. NodesBehind(w)' = (Route \cap linked) \ (Ahead(n) \cup {n})
    <3> DEFINE ahead == Ahead(n) \cup {n}
    <3>1. ahead \in SUBSET linked /\ Place(w, ahead)
      BY <1>5, <1>6
    <3> HIDE DEF ahead
    <3>2. NodesBehind(w)' = (Route \cap linked) \ ahead
      BY <1>0, <3>1, BehindPlace
    <3> QED BY <3>2 DEF ahead
  <2>2. Todo' = [Todo EXCEPT ![w] = @ \ {n}]
    <3>1. Todo'[w] = Todo[w] \ {n}
      BY <1>4, <1>5, <1>6, <2>1
    <3> QED BY <1>3, <3>1 DEF Todo
  <2>3. n \in Todo[w] /\ \A m \in Todo[w] : Stamp[n] <= Stamp[m]
    <3>1. n \in NodesBehind(w) /\ \A m \in NodesBehind(w) : m = n \/ <<n, m>> \in before
      BY <1>6 DEF IsNext
    <3>2. NodesBehind(w) \subseteq Route \cap linked
      BY DEF NodesBehind
    <3>3. \A m \in NodesBehind(w) : versions[m] \in Nat /\ (m = n \/ versions[n] < versions[m])
      <4>1. \A m \in NodesBehind(w) : versions[m] \in Nat
        BY <1>0, <3>2, NodeVersions
      <4> QED BY <1>0, <3>1, <3>2, <4>1 DEF ListInv, VersionsRise
    <3>4. \A m \in NodesBehind(w) : Stamp[m] = versions[m]
      BY <3>2 DEF Stamp
    <3> QED BY <1>4, <3>1, <3>3, <3>4
  <2>4. Telling' = [Telling EXCEPT ![w] = n]
    BY <1>0, <1>6 DEF Telling
  <2> QED BY <1>0, <1>3, <1>4, <2>2, <2>3, <2>4 DEF Feed!Tell, Stamp, Todo, Telling
<1>7. ASSUME NEW n \in Route, IsNext(w, n), Place(w, Ahead(n))
      PROVE  Todo' = Todo
  <2>1. NodesBehind(w)' = NodesBehind(w)
    BY <1>0, <1>5, <1>7, BehindPlace
  <2> QED BY <1>3, <1>4, <2>1 DEF Todo
<1>8. ASSUME NodesBehind(w) = {}, Place(w, linked)
      PROVE  Todo' = Todo
  <2>1. NodesBehind(w)' = {}
    BY <1>0, <1>8, BehindPlace
  <2> QED BY <1>3, <1>4, <1>8, <2>1 DEF Todo
<1> QED BY <1>0, <1>3, <1>4, <1>6, <1>7, <1>8 DEF Advance

\* A callback returns and the walk ends: the walker has taken note.
LEMMA EndOfWalkTold ==
  ASSUME FeedInv, NEW w \in Walker, Walks(w), walk' = [walk EXCEPT ![w] = NoWalk],
         Todo' = Todo, Stamp' = Stamp, Active' = Active, last' = last
  PROVE  Feed!Told(w)
<1>1. walk \in [Walker -> InWalk \cup {NoWalk}] /\ walk[w].node \in Route
  BY WalkTypes DEF FeedInv, ListInv, RadicalTypeOK
<1>2. Telling[w] # NoRoute
  BY <1>1, RadicalAssumption DEF Telling
<1>3. Telling' = [Telling EXCEPT ![w] = NoRoute]
  BY <1>1 DEF Telling, NoWalk
<1> QED BY <1>2, <1>3 DEF Feed!Told, Stamp, Todo, Telling

\* A walker that asks for a revisit is to be told again.
LEMMA RevisitToldAgain ==
  ASSUME ~Restless, FeedInv, NEW w \in Walker, Revisit(w)
  PROVE  Feed!Told(w)
<1> DEFINE n == walk[w].node
<1>0. /\ ListInv /\ Ordered /\ w \notin Route /\ w \in linked /\ n \in Route /\ n \in linked
      /\ walk \in [Walker -> InWalk \cup {NoWalk}]
      /\ <<n, w>> \in before /\ note[w] # "begun" /\ Place(w, Ahead(n)) /\ walk' = [walk EXCEPT ![w] = NoWalk]
      /\ versions' = versions /\ last' = last /\ Walks(w)
  <2>1. Walks(w)
    BY DEF Revisit
  <2> QED BY <2>1, WalkTypes, RadicalAssumption DEF FeedInv, ListInv, RadicalTypeOK, Revisit
<1> HIDE DEF n
<1>1. /\ linked' = linked \cup {w}
      /\ \A y, z : y # w /\ z # w => (<<y, z>> \in before' <=> <<y, z>> \in before)
  BY <1>0, PlaceNearby
<1>2. Stamp' = Stamp /\ \A u \in Walker : u # w => Todo'[u] = Todo[u]
  BY <1>0, <1>1, OthersTodo
<1>3. NodesBehind(w)' = (Route \cap linked) \ Ahead(n)
  BY <1>0, AheadClosed, BehindPlace
<1>4. \A m \in Route : ~(<<n, m>> \in before /\ <<m, w>> \in before)
  BY <1>0 DEF FeedInv, Near, n
<1>5. ASSUME NEW m \in Route \cap linked
      PROVE  <<m, n>> \notin before <=> m = n \/ <<w, m>> \in before
  <2>1. m # w /\ <<m, m>> \notin before
    BY <1>0 DEF Ordered
  <2>2. CASE <<w, m>> \in before
    BY <1>0, <2>2 DEF Ordered
  <2>3. CASE <<m, w>> \in before
    BY <1>0, <1>4, <2>1, <2>3 DEF Ordered
  <2> QED BY <1>0, <2>1, <2>2, <2>3 DEF Ordered
<1>6. NodesBehind(w)' = NodesBehind(w) \cup {n}
  BY <1>0, <1>3, <1>5 DEF NodesBehind, Ahead
<1>7. Telling[w] = n /\ n # NoRoute /\ Telling' = [Telling EXCEPT ![w] = NoRoute]
  BY <1>0, RadicalAssumption DEF Telling, NoWalk, n
<1>8. Todo' = [Todo EXCEPT ![w] = @ \cup {Telling[w]}]
  BY <1>0, <1>1, <1>2, <1>6, <1>7 DEF Todo
<1>9. Active' = Active
  BY <1>0, <1>1 DEF Active
<1>10. Telling[w] \in Feed!Changed
  <2>1. versions[n] # 0
    BY <1>0, NodeVersions
  <2> QED BY <1>0, <1>7, <2>1 DEF Feed!Changed
<1> QED BY <1>0, <1>2, <1>7, <1>8, <1>9, <1>10 DEF Feed!Told, Stamp, Todo, Telling
----------------------------------------------------------------------------
\* Every step of the list is a step of the feed, or none.
LEMMA FeedSteps ==
  ASSUME ~Restless, FeedInv, [RadicalNext]_radicalVars
  PROVE  [Feed!FeedNext]_(Feed!feedVars)
<1>1. ASSUME NEW n \in Route, AppendToChangeList(n) \/ RemoveFromTree(n)
      PROVE  Feed!FeedNext
  BY <1>1, AppendChanges, RemoveForgets DEF Feed!FeedNext
<1>2. CASE ProcVerWrap
  BY <1>2, WrapRenumbers DEF Feed!FeedNext
<1>3. ASSUME NEW w \in Walker,
             \/ WalkConstructor(w) \/ \E v \in Walker : WalkConstructorAfter(w, v)
             \/ WalkDestructor(w)
             \/ Revisit(w)
      PROVE  Feed!FeedNext
  BY <1>3, ConstructorBegins, DestructorEnds, RevisitToldAgain DEF Feed!FeedNext
<1>4. ASSUME NEW w \in Walker, WalkChangeList(w)
      PROVE  [Feed!FeedNext]_(Feed!feedVars)
  <2>1. /\ w \in linked /\ walk[w] = NoWalk /\ walk \in [Walker -> InWalk \cup {NoWalk}]
        /\ \E left \in 0 .. MaxNodes, maxVer \in 0 .. MaxChanges :
             Advance(w, versions[w], note[w], left, maxVer)
    BY <1>4 DEF WalkChangeList, Active, Walks, FeedInv, ListInv, RadicalTypeOK
  <2>2. CASE \E n \in Route : Feed!Tell(w, n)
    BY <2>2 DEF Feed!FeedNext
  <2>3. CASE walk' = [walk EXCEPT ![w] = NoWalk] /\ Todo' = Todo /\ Stamp' = Stamp
               /\ Active' = Active /\ last' = last
    <3>1. Telling' = Telling
      BY <2>1, <2>3 DEF Telling
    <3> QED BY <2>3, <3>1 DEF Feed!feedVars, Stamp, Todo, Telling
  <2> QED BY <2>1, <2>2, <2>3, AdvanceTells
<1>5. ASSUME NEW w \in Walker, Continue(w) \/ Stop(w)
      PROVE  Feed!FeedNext
  <2>0. Walks(w) /\ w \in linked
    BY <1>5, WalkTypes DEF Continue, Stop, FeedInv
  <2>1. ASSUME NEW left, Advance(w, walk[w].version, Noted(w), left, walk[w].maxVer)
        PROVE  Feed!FeedNext
    <3>1. CASE \E n \in Route : Feed!Tell(w, n)
      BY <3>1 DEF Feed!FeedNext
    <3>2. CASE walk' = [walk EXCEPT ![w] = NoWalk] /\ Todo' = Todo /\ Stamp' = Stamp
                 /\ Active' = Active /\ last' = last
      BY <2>0, <3>2, EndOfWalkTold DEF Feed!FeedNext
    <3> QED BY <2>0, <2>1, <3>1, <3>2, AdvanceTells
  <2>2. CASE /\ versions' = [versions EXCEPT ![w] = walk[w].version]
             /\ walk' = [walk EXCEPT ![w] = NoWalk]
             /\ UNCHANGED <<linked, before, last>>
    <3>1. \A n \in Route : versions'[n] = versions[n]
      BY <2>2, RadicalAssumption DEF FeedInv, ListInv, RadicalTypeOK, Item
    <3>2. Stamp' = Stamp /\ Active' = Active
      BY <2>2, <3>1 DEF Stamp, Active
    <3>3. Todo' = Todo
      BY <2>2 DEF Todo, NodesBehind
    <3> QED BY <2>0, <2>2, <3>2, <3>3, EndOfWalkTold DEF Feed!FeedNext
  <2> QED BY <1>5, <2>1, <2>2 DEF Continue, Stop
<1>6. CASE UNCHANGED radicalVars
  BY <1>6 DEF radicalVars, Feed!feedVars, Active, NodesBehind
<1> QED BY <1>1, <1>2, <1>3, <1>4, <1>5, <1>6 DEF RadicalNext

\* The list is always in order and its markers near.
LEMMA FeedInvariant ==
  ASSUME ~Restless
  PROVE  RadicalSpec => []FeedInv
<1>1. RadicalInit => FeedInv
  BY ListInvInit DEF RadicalInit, FeedInv, Near, Walks
<1>2. FeedInv /\ [RadicalNext]_radicalVars => FeedInv'
  BY ListInvNext, NearNext DEF FeedInv
<1> QED BY <1>1, <1>2, PTL DEF RadicalSpec

\* Whatever is appended, removed, renumbered and walked, every walker is told of every
\* change behind its marker, in order and once, or begins again, if callbacks ask to
\* revisit only what they have not appended again, in a walk they have not begun again.
THEOREM RadicalImplementsFeed ==
  ASSUME ~Restless
  PROVE  RadicalSpec => ImplementsFeed
<1>1. RadicalInit => Feed!FeedInit
  BY DEF RadicalInit, Feed!FeedInit, NoWalk, Active
<1>2. FeedInv /\ [RadicalNext]_radicalVars => [Feed!FeedNext]_(Feed!feedVars)
  BY FeedSteps
<1> QED BY <1>1, <1>2, FeedInvariant, PTL DEF RadicalSpec, ImplementsFeed, Feed!FeedSpec
=============================================================================
