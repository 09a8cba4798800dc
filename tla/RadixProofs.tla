---------------------------- MODULE RadixProofs ----------------------------
(***************************************************************************)
(* Theorems about the radix tree, for every width, any heads and any depth *)
(* of walks within walks.                                                  *)
(***************************************************************************)
EXTENDS RadixLookups, LeastNumbers, SequenceTheorems, FiniteSetTheorems, TLAPS

----------------------------------------------------------------------------
(* Names.                                                                  *)

\* m is under n, on the side of bit b.
On(m, n, b) == IsPrefix(n, m) /\ m # n /\ m[Len(n) + 1] = b

LEMMA NodeIsSeq ==
  ASSUME NEW n
  PROVE  n \in Node <=> n \in Seq(Bit) /\ Len(n) <= Width
<1>0. Width \in Nat
  BY RadixAssumption
<1>1. ASSUME n \in Node PROVE n \in Seq(Bit) /\ Len(n) <= Width
  <2>1. PICK l \in 0 .. Width : n \in [1 .. l -> Bit]
    BY <1>1 DEF Node
  <2>2. n \in Seq(Bit) /\ l \in Nat
    BY <1>0, <2>1, SeqDef
  <2>3. Len(n) \in Nat /\ DOMAIN n = 1 .. Len(n) /\ DOMAIN n = 1 .. l
    BY <2>1, <2>2, LenProperties
  <2>4. Len(n) = l
    <3> DEFINE k == Len(n)
    <3>1. k \in Nat /\ 1 .. k = 1 .. l
      BY <2>3
    <3> HIDE DEF k
    <3>2. k = l
      BY ONLY <2>2, <3>1
    <3> QED BY <3>2 DEF k
  <2> QED BY <1>0, <2>1, <2>2, <2>4
<1>2. ASSUME n \in Seq(Bit), Len(n) <= Width PROVE n \in Node
  <2>1. Len(n) \in 0 .. Width /\ n \in [1 .. Len(n) -> Bit]
    BY <1>0, <1>2, LenProperties
  <2> QED BY <2>1 DEF Node
<1> QED BY <1>1, <1>2

\* What can be said of names without looking into them.
LEMMA Prefixes ==
  /\ \A p \in Node : IsPrefix(p, p) /\ Len(p) \in Nat /\ Len(p) <= Width
  /\ \A p, q, r \in Node : IsPrefix(p, q) /\ IsPrefix(q, r) => IsPrefix(p, r)
  /\ \A p, q \in Node : IsPrefix(p, q) => Len(p) <= Len(q) /\ (p # q => Len(p) < Len(q))
  /\ \A p, q, r \in Node : IsPrefix(p, r) /\ IsPrefix(q, r) /\ Len(p) <= Len(q) => IsPrefix(p, q)
<1>1. \A p \in Node : p \in Seq(Bit) /\ Len(p) \in Nat /\ Len(p) <= Width
  BY NodeIsSeq, LenProperties
<1>2. \A p \in Node : IsPrefix(p, p)
  BY <1>1 DEF IsPrefix
<1>3. \A p, q, r \in Node : IsPrefix(p, q) /\ IsPrefix(q, r) => IsPrefix(p, r)
  <2> SUFFICES ASSUME NEW p \in Node, NEW q \in Node, NEW r \in Node, IsPrefix(p, q), IsPrefix(q, r)
               PROVE  IsPrefix(p, r)
    OBVIOUS
  <2>1. Len(p) \in Nat /\ Len(q) \in Nat /\ Len(r) \in Nat
    BY <1>1
  <2> QED BY <2>1 DEF IsPrefix
<1>4. \A p, q \in Node : IsPrefix(p, q) => Len(p) <= Len(q) /\ (p # q => Len(p) < Len(q))
  <2> SUFFICES ASSUME NEW p \in Node, NEW q \in Node, IsPrefix(p, q), Len(p) = Len(q)
               PROVE  p = q
    BY <1>1 DEF IsPrefix
  <2>1. \A i \in 1 .. Len(p) : p[i] = q[i]
    BY DEF IsPrefix
  <2> QED BY <1>1, <2>1, SeqEqual
<1>5. \A p, q, r \in Node : IsPrefix(p, r) /\ IsPrefix(q, r) /\ Len(p) <= Len(q) => IsPrefix(p, q)
  <2> SUFFICES ASSUME NEW p \in Node, NEW q \in Node, NEW r \in Node, IsPrefix(p, r), IsPrefix(q, r),
                      Len(p) <= Len(q)
               PROVE  IsPrefix(p, q)
    OBVIOUS
  <2>1. Len(p) \in Nat /\ Len(q) \in Nat /\ Len(r) \in Nat
    BY <1>1
  <2> QED BY <2>1 DEF IsPrefix
<1> QED BY <1>1, <1>2, <1>3, <1>4, <1>5

LEMMA Sides ==
  /\ \A m, n \in Node : IsPrefix(n, m) /\ m # n => \E b \in Bit : On(m, n, b)
  /\ \A m, n, b : On(m, n, b) => IsPrefix(n, m) /\ m # n
  /\ \A m, n, b, c : On(m, n, b) /\ On(m, n, c) => b = c
  /\ \A m, n, k \in Node : \A b : On(m, n, b) /\ IsPrefix(m, k) => On(k, n, b)
  /\ \A m, n, k \in Node : \A b : On(m, n, b) /\ IsPrefix(n, k) /\ IsPrefix(k, m) /\ k # n => On(k, n, b)
<1>1. \A m, n \in Node : IsPrefix(n, m) /\ m # n => \E b \in Bit : On(m, n, b)
  <2> SUFFICES ASSUME NEW m \in Node, NEW n \in Node, IsPrefix(n, m), m # n PROVE m[Len(n) + 1] \in Bit
    BY DEF On
  <2>1. Len(n) + 1 \in 1 .. Len(m)
    BY Prefixes
  <2> QED BY <2>1, NodeIsSeq, ElementOfSeq
<1>2. \A m, n, b : On(m, n, b) => IsPrefix(n, m) /\ m # n
  BY DEF On
<1>3. \A m, n, b, c : On(m, n, b) /\ On(m, n, c) => b = c
  BY DEF On
<1>4. \A m, n, k \in Node : \A b : On(m, n, b) /\ IsPrefix(m, k) => On(k, n, b)
  <2> SUFFICES ASSUME NEW m \in Node, NEW n \in Node, NEW k \in Node, NEW b, On(m, n, b), IsPrefix(m, k)
               PROVE  On(k, n, b)
    OBVIOUS
  <2>1. IsPrefix(n, m) /\ m # n /\ m[Len(n) + 1] = b
    BY DEF On
  <2>2. Len(n) \in Nat /\ Len(m) \in Nat /\ Len(k) \in Nat /\ Len(n) < Len(m) /\ Len(m) <= Len(k) /\ IsPrefix(n, k)
    BY <2>1, Prefixes
  <2>3. k[Len(n) + 1] = m[Len(n) + 1] /\ k # n
    BY <2>2 DEF IsPrefix
  <2> QED BY <2>1, <2>2, <2>3 DEF On
<1>5. \A m, n, k \in Node : \A b : On(m, n, b) /\ IsPrefix(n, k) /\ IsPrefix(k, m) /\ k # n => On(k, n, b)
  <2> SUFFICES ASSUME NEW m \in Node, NEW n \in Node, NEW k \in Node, NEW b, On(m, n, b), IsPrefix(n, k),
                      IsPrefix(k, m), k # n
               PROVE  On(k, n, b)
    OBVIOUS
  <2>1. IsPrefix(n, m) /\ m # n /\ m[Len(n) + 1] = b
    BY DEF On
  <2>2. Len(n) \in Nat /\ Len(m) \in Nat /\ Len(k) \in Nat /\ Len(n) < Len(k)
    BY Prefixes
  <2>3. k[Len(n) + 1] = m[Len(n) + 1]
    BY <2>2 DEF IsPrefix
  <2> QED BY <2>1, <2>3 DEF On
<1> QED BY <1>1, <1>2, <1>3, <1>4, <1>5
----------------------------------------------------------------------------
(* Links.  In the tree t with the root r every link leads to the nearest   *)
(* node there is: what TreeIsTheHeads says of them.                        *)

SideIn(t, n, b) == IF b = 1 THEN t[n].right ELSE t[n].left

\* s is the highest node of t on the side b of n.
SideIs(t, n, b, s) ==
  /\ s = NoNode => \A m \in DOMAIN t : ~On(m, n, b)
  /\ s # NoNode => s \in DOMAIN t /\ On(s, n, b) /\ \A m \in DOMAIN t : On(m, n, b) => IsPrefix(s, m)

\* p is the lowest node of t above n.
ParentIs(t, n, p) ==
  /\ p = NoNode => \A m \in DOMAIN t : IsPrefix(m, n) => m = n
  /\ p # NoNode => /\ p \in DOMAIN t /\ IsPrefix(p, n) /\ p # n
                   /\ \A m \in DOMAIN t : IsPrefix(m, n) /\ m # n => IsPrefix(m, p)

RootIs(t, r) ==
  /\ r = NoNode => DOMAIN t = {}
  /\ r # NoNode => r \in DOMAIN t /\ \A m \in DOMAIN t : IsPrefix(r, m)

Linked(t, r) ==
  /\ DOMAIN t \subseteq Node
  /\ RootIs(t, r)
  /\ \A n \in DOMAIN t : ParentIs(t, n, t[n].parent) /\ \A b \in Bit : SideIs(t, n, b, SideIn(t, n, b))

\* A link up and a link down belong together.
LEMMA Kin ==
  ASSUME NEW t, NEW r, Linked(t, r)
  PROVE  /\ \A n \in DOMAIN t : n # NoNode
         /\ \A n \in DOMAIN t : \A b \in Bit : SideIn(t, n, b) # NoNode =>
              SideIn(t, n, b) \in DOMAIN t /\ On(SideIn(t, n, b), n, b) /\ t[SideIn(t, n, b)].parent = n
         /\ \A n \in DOMAIN t : t[n].parent # NoNode =>
              /\ t[n].parent \in DOMAIN t /\ IsPrefix(t[n].parent, n) /\ t[n].parent # n
              /\ \A b \in Bit : On(n, t[n].parent, b) <=> SideIn(t, t[n].parent, b) = n
         /\ \A n \in DOMAIN t : t[n].parent = NoNode <=> r = n
<1>0. DOMAIN t \subseteq Node /\ NoNode \notin Node
  BY RadixAssumption DEF Linked
<1>1. \A n \in DOMAIN t : n # NoNode
  BY <1>0
<1>2. ASSUME NEW n \in DOMAIN t, NEW b \in Bit, SideIn(t, n, b) # NoNode
      PROVE  SideIn(t, n, b) \in DOMAIN t /\ On(SideIn(t, n, b), n, b) /\ t[SideIn(t, n, b)].parent = n
  <2> DEFINE s == SideIn(t, n, b)
             q == t[s].parent
  <2>1. s \in DOMAIN t /\ On(s, n, b) /\ \A m \in DOMAIN t : On(m, n, b) => IsPrefix(s, m)
    BY <1>2 DEF Linked, SideIs
  <2>2. ParentIs(t, s, q) /\ IsPrefix(n, s) /\ n # s
    BY <2>1, Sides DEF Linked
  <2> HIDE DEF q, s
  <2>3. q # NoNode /\ q \in DOMAIN t /\ IsPrefix(q, s) /\ q # s /\ IsPrefix(n, q)
    BY <2>2 DEF ParentIs
  <2>4. ASSUME q # n PROVE FALSE
    <3>1. On(q, n, b)
      BY <1>0, <2>1, <2>3, <2>4, Sides
    <3>2. IsPrefix(s, q)
      BY <2>1, <2>3, <3>1
    <3>3. s \in Node /\ q \in Node
      BY <1>0, <2>1, <2>3
    <3> QED BY <2>3, <3>2, <3>3, Prefixes
  <2> QED BY <2>1, <2>4 DEF q, s
<1>3. ASSUME NEW n \in DOMAIN t, t[n].parent # NoNode
      PROVE  /\ t[n].parent \in DOMAIN t /\ IsPrefix(t[n].parent, n) /\ t[n].parent # n
             /\ \A b \in Bit : On(n, t[n].parent, b) <=> SideIn(t, t[n].parent, b) = n
  <2> DEFINE p == t[n].parent
  <2>1. p \in DOMAIN t /\ IsPrefix(p, n) /\ p # n /\ \A m \in DOMAIN t : IsPrefix(m, n) /\ m # n => IsPrefix(m, p)
    BY <1>3 DEF Linked, ParentIs
  <2>2. ASSUME NEW b \in Bit, SideIn(t, p, b) = n PROVE On(n, p, b)
    BY <1>1, <1>2, <2>1, <2>2
  <2>3. ASSUME NEW b \in Bit, On(n, p, b), SideIn(t, p, b) # n PROVE FALSE
    <3> DEFINE s == SideIn(t, p, b)
    <3>1. SideIs(t, p, b, s) /\ s # n
      BY <2>1, <2>3 DEF Linked
    <3> HIDE DEF s, p
    <3>2. s \in DOMAIN t /\ On(s, p, b) /\ IsPrefix(s, n)
      BY <2>3, <3>1 DEF SideIs
    <3>3. IsPrefix(s, p) /\ IsPrefix(p, s) /\ p # s /\ s \in Node /\ p \in Node
      BY <1>0, <2>1, <3>1, <3>2, Sides
    <3> QED BY <3>3, Prefixes
  <2> QED BY <2>1, <2>2, <2>3
<1>4. ASSUME NEW n \in DOMAIN t PROVE t[n].parent = NoNode <=> r = n
  <2>1. ParentIs(t, n, t[n].parent) /\ RootIs(t, r)
    BY DEF Linked
  <2>2. r \in DOMAIN t /\ IsPrefix(r, n)
    BY <2>1 DEF RootIs
  <2>3. ASSUME t[n].parent = NoNode PROVE r = n
    BY <2>1, <2>2, <2>3 DEF ParentIs
  <2>4. ASSUME t[n].parent # NoNode, r = n PROVE FALSE
    <3>1. IsPrefix(r, t[n].parent)
      BY <1>3, <2>1, <2>4 DEF RootIs
    <3> QED BY <1>0, <1>3, <2>4, <3>1, Prefixes
  <2> QED BY <2>3, <2>4
<1> QED BY <1>1, <1>2, <1>3, <1>4

\* t2 is t with the node n between p and c, which is on the side b of n: what
\* an insertion does to the links, and a removal the other way round.
Joined(t, r, t2, r2, n, p, c, b) ==
  /\ b \in Bit
  /\ n \in Node /\ n \notin DOMAIN t /\ DOMAIN t2 = DOMAIN t \cup {n}
  /\ p # NoNode => p \in DOMAIN t /\ IsPrefix(p, n)
  /\ c # NoNode => c \in DOMAIN t /\ On(c, n, b)
  /\ t2[n].parent = p
  /\ \A d \in Bit : SideIn(t2, n, d) = IF d = b THEN c ELSE NoNode
  /\ \A m \in DOMAIN t : IF m = c THEN t[m].parent = p /\ t2[m].parent = n ELSE t2[m].parent = t[m].parent
  /\ \A m \in DOMAIN t, d \in Bit :
       IF m = p /\ On(n, m, d) THEN SideIn(t, m, d) = c /\ SideIn(t2, m, d) = n
                               ELSE SideIn(t2, m, d) = SideIn(t, m, d)
  /\ IF p = NoNode THEN r = c /\ r2 = n ELSE r2 = r

\* Where n is put there are no other nodes than p above, and c below.
LEMMA Gap ==
  ASSUME NEW t, NEW r, NEW t2, NEW r2, NEW n, NEW p, NEW c, NEW b, Joined(t, r, t2, r2, n, p, c, b),
         DOMAIN t \subseteq Node, Linked(t, r) \/ Linked(t2, r2)
  PROVE  /\ \A m \in DOMAIN t : IsPrefix(n, m) => c # NoNode /\ IsPrefix(c, m)
         /\ \A m \in DOMAIN t : IsPrefix(m, n) => p # NoNode /\ IsPrefix(m, p)
<1> DEFINE D == DOMAIN t
<1>0. n \in Node /\ n \notin D /\ DOMAIN t2 = D \cup {n} /\ D \subseteq Node /\ NoNode \notin Node /\ b \in Bit
  BY RadixAssumption DEF Joined
<1>p. p # NoNode => p \in D /\ IsPrefix(p, n) /\ p # n
  BY <1>0 DEF Joined
<1>c. c # NoNode => c \in D /\ On(c, n, b) /\ IsPrefix(n, c) /\ c # n
  BY <1>0, Sides DEF Joined
<1>1. CASE Linked(t, r)
  <2>1. ASSUME p = NoNode, NEW m \in D PROVE c # NoNode /\ IsPrefix(c, m)
    BY <1>1, <2>1 DEF Linked, RootIs, Joined
  <2>2. ASSUME p # NoNode, NEW m \in D, NEW d \in Bit, On(n, p, d), On(m, p, d) PROVE c # NoNode /\ IsPrefix(c, m)
    <3>1. SideIn(t, p, d) = c
      BY <1>p, <2>2 DEF Joined
    <3>2. SideIs(t, p, d, c)
      BY <1>1, <1>p, <2>2, <3>1 DEF Linked
    <3> QED BY <2>2, <3>2 DEF SideIs
  <2>3. ASSUME NEW m \in D, IsPrefix(n, m) PROVE c # NoNode /\ IsPrefix(c, m)
    <3>1. CASE p = NoNode
      BY <2>1, <3>1
    <3>2. CASE p # NoNode
      <4>1. PICK d \in Bit : On(n, p, d)
        BY <1>0, <1>p, <3>2, Sides
      <4>2. On(m, p, d)
        BY <1>0, <1>p, <2>3, <3>2, <4>1, Sides
      <4> QED BY <2>2, <3>2, <4>1, <4>2
    <3> QED BY <3>1, <3>2
  <2>4. ASSUME NEW m \in D, IsPrefix(m, n), c # NoNode, IsPrefix(c, m) PROVE FALSE
    <3>1. IsPrefix(c, n)
      BY <1>0, <1>c, <2>4, Prefixes
    <3> QED BY <1>0, <1>c, <2>4, <3>1, Prefixes
  <2>5. ASSUME NEW m \in D, IsPrefix(m, n) PROVE p # NoNode /\ IsPrefix(m, p)
    <3>1. p # NoNode
      BY <2>1, <2>4, <2>5
    <3>2. IsPrefix(m, p) \/ (IsPrefix(p, m) /\ p # m)
      BY <1>0, <1>p, <2>5, <3>1, Prefixes
    <3>3. ASSUME IsPrefix(p, m), p # m PROVE FALSE
      <4>1. PICK d \in Bit : On(m, p, d)
        BY <1>0, <1>p, <3>1, <3>3, Sides
      <4>2. On(n, p, d)
        BY <1>0, <1>p, <2>5, <3>1, <4>1, Sides
      <4> QED BY <2>2, <2>4, <2>5, <3>1, <4>1, <4>2
    <3> QED BY <3>1, <3>2, <3>3
  <2> QED BY <2>3, <2>5
<1>2. CASE Linked(t2, r2)
  <2>1. t2[n].parent = p /\ ParentIs(t2, n, p) /\ \A d \in Bit : SideIs(t2, n, d, IF d = b THEN c ELSE NoNode)
    BY <1>0, <1>2 DEF Linked, Joined
  <2>2. ASSUME NEW m \in D, IsPrefix(n, m) PROVE c # NoNode /\ IsPrefix(c, m)
    <3>1. PICK d \in Bit : On(m, n, d)
      BY <1>0, <2>2, Sides
    <3> QED BY <1>0, <2>1, <3>1 DEF SideIs
  <2>3. ASSUME NEW m \in D, IsPrefix(m, n) PROVE p # NoNode /\ IsPrefix(m, p)
    BY <1>0, <2>1, <2>3 DEF ParentIs
  <2> QED BY <2>2, <2>3
<1> QED BY <1>1, <1>2

LEMMA Added ==
  ASSUME NEW t, NEW r, NEW t2, NEW r2, NEW n, NEW p, NEW c, NEW b, Joined(t, r, t2, r2, n, p, c, b), Linked(t, r)
  PROVE  Linked(t2, r2)
<1> DEFINE D == DOMAIN t
<1>0. n \in Node /\ n \notin D /\ DOMAIN t2 = D \cup {n} /\ D \subseteq Node /\ NoNode \notin Node /\ b \in Bit
  BY RadixAssumption DEF Joined, Linked
<1>p. p # NoNode => p \in D /\ IsPrefix(p, n) /\ p # n
  BY <1>0 DEF Joined
<1>c. c # NoNode => c \in D /\ On(c, n, b) /\ IsPrefix(n, c) /\ c # n
  BY <1>0, Sides DEF Joined
<1>g. /\ \A m \in D : IsPrefix(n, m) => c # NoNode /\ IsPrefix(c, m)
      /\ \A m \in D : IsPrefix(m, n) => p # NoNode /\ IsPrefix(m, p)
  BY <1>0, Gap
<1>1. DOMAIN t2 \subseteq Node
  BY <1>0
<1>2. RootIs(t2, r2)
  <2>1. CASE p = NoNode
    <3>1. r = c /\ r2 = n /\ RootIs(t, c)
      BY <2>1 DEF Linked, Joined
    <3>2. \A m \in D : IsPrefix(n, m)
      BY <1>0, <1>c, <3>1, Prefixes DEF RootIs
    <3> QED BY <1>0, <3>1, <3>2, Prefixes DEF RootIs
  <2>2. CASE p # NoNode
    <3>1. r2 = r /\ RootIs(t, r)
      BY <2>2 DEF Linked, Joined
    <3>2. r # NoNode /\ r \in D /\ \A m \in D : IsPrefix(r, m)
      BY <1>p, <2>2, <3>1 DEF RootIs
    <3>3. IsPrefix(r, n)
      BY <1>0, <1>p, <2>2, <3>2, Prefixes
    <3> QED BY <1>0, <3>1, <3>2, <3>3 DEF RootIs
  <2> QED BY <2>1, <2>2
<1>3. ASSUME NEW m \in D PROVE ParentIs(t2, m, t2[m].parent)
  <2>1. ParentIs(t, m, t[m].parent) /\ m \in Node
    BY <1>0 DEF Linked
  <2>2. CASE m = c
    <3>1. t[m].parent = p /\ t2[m].parent = n /\ IsPrefix(n, m) /\ n # m
      BY <1>0, <1>c, <2>2 DEF Joined
    <3>2. ASSUME NEW k \in D, IsPrefix(k, m), k # m PROVE IsPrefix(k, n)
      <4>1. p # NoNode /\ IsPrefix(k, p)
        BY <2>1, <3>1, <3>2 DEF ParentIs
      <4> QED BY <1>0, <1>p, <4>1, Prefixes
    <3> QED BY <1>0, <3>1, <3>2, Prefixes DEF ParentIs
  <2>3. CASE m # c
    <3>1. t2[m].parent = t[m].parent
      BY <2>3 DEF Joined
    <3>2. ASSUME IsPrefix(n, m) PROVE t[m].parent # NoNode /\ IsPrefix(n, t[m].parent)
      <4>1. c # NoNode /\ IsPrefix(c, m) /\ c \in D /\ IsPrefix(n, c)
        BY <1>c, <1>g, <3>2
      <4>2. t[m].parent # NoNode /\ t[m].parent \in D /\ IsPrefix(c, t[m].parent)
        BY <2>1, <2>3, <4>1 DEF ParentIs
      <4> QED BY <1>0, <4>1, <4>2, Prefixes
    <3> QED BY <1>0, <2>1, <3>1, <3>2 DEF ParentIs
  <2> QED BY <2>2, <2>3
<1>4. ParentIs(t2, n, t2[n].parent)
  <2>1. t2[n].parent = p
    BY DEF Joined
  <2> QED BY <1>0, <1>p, <1>g, <2>1 DEF ParentIs
<1>5. ASSUME NEW m \in D, NEW d \in Bit PROVE SideIs(t2, m, d, SideIn(t2, m, d))
  <2> DEFINE s == SideIn(t, m, d)
  <2>1. SideIs(t, m, d, s) /\ m \in Node
    BY <1>0 DEF Linked
  <2>2. CASE m = p /\ On(n, m, d)
    <3>1. s = c /\ SideIn(t2, m, d) = n
      BY <2>2 DEF Joined
    <3>2. ASSUME NEW k \in D, On(k, m, d) PROVE IsPrefix(n, k)
      <4>1. c # NoNode /\ IsPrefix(c, k)
        BY <2>1, <3>1, <3>2 DEF SideIs
      <4> QED BY <1>0, <1>c, <4>1, Prefixes
    <3>3. n # NoNode /\ n \in DOMAIN t2 /\ On(n, m, d) /\ IsPrefix(n, n)
      BY <1>0, <2>2, Prefixes
    <3> HIDE DEF s
    <3> QED BY <1>0, <3>1, <3>2, <3>3 DEF SideIs
  <2>3. CASE ~(m = p /\ On(n, m, d))
    <3>1. SideIn(t2, m, d) = s
      BY <2>3 DEF Joined
    <3> HIDE DEF s
    <3>2. ASSUME On(n, m, d) PROVE s # NoNode /\ IsPrefix(s, n)
      <4>1. IsPrefix(m, n) /\ m # n /\ m # p
        BY <2>3, <3>2, Sides
      <4>2. p # NoNode /\ IsPrefix(m, p) /\ p \in Node /\ p \in D
        BY <1>0, <1>g, <1>p, <4>1
      <4>3. On(p, m, d)
        BY <1>0, <1>p, <2>1, <3>2, <4>1, <4>2, Sides
      <4>4. s # NoNode /\ s \in D /\ IsPrefix(s, p)
        BY <2>1, <4>2, <4>3 DEF SideIs
      <4> QED BY <1>0, <1>p, <4>2, <4>4, Prefixes
    <3> QED BY <1>0, <2>1, <3>1, <3>2 DEF SideIs
  <2> QED BY <2>2, <2>3
<1>6. ASSUME NEW d \in Bit PROVE SideIs(t2, n, d, SideIn(t2, n, d))
  <2>1. SideIn(t2, n, d) = IF d = b THEN c ELSE NoNode
    BY DEF Joined
  <2>2. ~On(n, n, d)
    BY Sides
  <2>3. ASSUME NEW m \in D, On(m, n, d) PROVE c # NoNode /\ IsPrefix(c, m) /\ d = b
    <3>1. IsPrefix(n, m)
      BY <2>3, Sides
    <3>2. c # NoNode /\ IsPrefix(c, m)
      BY <1>g, <3>1
    <3>3. On(m, n, b)
      BY <1>0, <1>c, <3>2, Sides
    <3> QED BY <2>3, <3>2, <3>3, Sides
  <2> QED BY <1>0, <1>c, <2>1, <2>2, <2>3 DEF SideIs
<1>7. \A m \in DOMAIN t2 : ParentIs(t2, m, t2[m].parent)
  BY <1>0, <1>3, <1>4
<1>8. \A m \in DOMAIN t2 : \A d \in Bit : SideIs(t2, m, d, SideIn(t2, m, d))
  BY <1>0, <1>5, <1>6
<1> QED BY <1>1, <1>2, <1>7, <1>8 DEF Linked

LEMMA Cut ==
  ASSUME NEW t, NEW r, NEW t2, NEW r2, NEW n, NEW p, NEW c, NEW b, Joined(t, r, t2, r2, n, p, c, b), Linked(t2, r2)
  PROVE  Linked(t, r)
<1> DEFINE D == DOMAIN t
<1>0. n \in Node /\ n \notin D /\ DOMAIN t2 = D \cup {n} /\ D \subseteq Node /\ NoNode \notin Node /\ b \in Bit
  BY RadixAssumption DEF Joined, Linked
<1>p. p # NoNode => p \in D /\ IsPrefix(p, n) /\ p # n
  BY <1>0 DEF Joined
<1>c. c # NoNode => c \in D /\ On(c, n, b) /\ IsPrefix(n, c) /\ c # n
  BY <1>0, Sides DEF Joined
<1>g. /\ \A m \in D : IsPrefix(n, m) => c # NoNode /\ IsPrefix(c, m)
      /\ \A m \in D : IsPrefix(m, n) => p # NoNode /\ IsPrefix(m, p)
  BY <1>0, Gap
<1>1. RootIs(t, r)
  <2>1. RootIs(t2, r2)
    BY DEF Linked
  <2>2. CASE p = NoNode
    <3>1. r = c /\ r2 = n /\ n # NoNode
      BY <1>0, <2>2 DEF Joined
    <3> QED BY <1>0, <1>c, <1>g, <2>1, <3>1 DEF RootIs
  <2>3. CASE p # NoNode
    <3>1. r = r2 /\ r2 # NoNode /\ r2 \in DOMAIN t2 /\ \A m \in DOMAIN t2 : IsPrefix(r2, m)
      BY <1>0, <2>1, <2>3 DEF Joined, RootIs
    <3>2. r2 # n
      BY <1>0, <1>p, <2>3, <3>1, Prefixes
    <3> QED BY <1>0, <3>1, <3>2 DEF RootIs
  <2> QED BY <2>2, <2>3
<1>2. ASSUME NEW m \in D PROVE ParentIs(t, m, t[m].parent)
  <2>1. ParentIs(t2, m, t2[m].parent) /\ m \in Node
    BY <1>0 DEF Linked
  <2>2. CASE m = c
    <3>1. t[m].parent = p /\ t2[m].parent = n /\ IsPrefix(n, m) /\ n # m
      BY <1>0, <1>c, <2>2 DEF Joined
    <3>2. ASSUME NEW k \in D, IsPrefix(k, m), k # m PROVE p # NoNode /\ IsPrefix(k, p)
      <4>1. IsPrefix(k, n)
        BY <1>0, <2>1, <3>1, <3>2 DEF ParentIs
      <4> QED BY <1>g, <4>1
    <3>3. p # NoNode => IsPrefix(p, m) /\ p # m
      BY <1>0, <1>p, <2>1, <3>1, Prefixes
    <3> QED BY <1>p, <3>1, <3>2, <3>3 DEF ParentIs
  <2>3. CASE m # c
    <3> DEFINE q == t[m].parent
    <3>1. t2[m].parent = q
      BY <2>3 DEF Joined
    <3>2. ParentIs(t2, m, q)
      BY <2>1, <3>1
    <3> HIDE DEF q
    <3>3. q # n
      <4>1. SUFFICES ASSUME q = n PROVE FALSE
        OBVIOUS
      <4>2. IsPrefix(n, m) /\ \A k \in DOMAIN t2 : IsPrefix(k, m) /\ k # m => IsPrefix(k, n)
        BY <1>0, <3>2, <4>1 DEF ParentIs
      <4>3. c # NoNode /\ IsPrefix(c, m)
        BY <1>g, <4>2
      <4>4. IsPrefix(c, n) /\ IsPrefix(n, c) /\ n # c /\ c \in Node
        BY <1>0, <1>c, <2>3, <4>2, <4>3
      <4> QED BY <1>0, <4>4, Prefixes
    <3>4. ParentIs(t, m, q)
      BY <1>0, <3>2, <3>3 DEF ParentIs
    <3> QED BY <3>4 DEF q
  <2> QED BY <2>2, <2>3
<1>3. ASSUME NEW m \in D, NEW d \in Bit PROVE SideIs(t, m, d, SideIn(t, m, d))
  <2>1. SideIs(t2, m, d, SideIn(t2, m, d)) /\ m \in Node
    BY <1>0 DEF Linked
  <2>2. CASE m = p /\ On(n, m, d)
    <3>1. SideIn(t, m, d) = c /\ SideIn(t2, m, d) = n
      BY <2>2 DEF Joined
    <3>2. ASSUME NEW k \in D, On(k, m, d) PROVE c # NoNode /\ IsPrefix(c, k)
      <4>1. IsPrefix(n, k)
        BY <1>0, <2>1, <3>1, <3>2 DEF SideIs
      <4> QED BY <1>g, <4>1
    <3>3. c # NoNode => c \in D /\ On(c, m, d)
      BY <1>0, <1>c, <2>1, <2>2, Sides
    <3> QED BY <3>1, <3>2, <3>3 DEF SideIs
  <2>3. CASE ~(m = p /\ On(n, m, d))
    <3> DEFINE s == SideIn(t, m, d)
    <3>1. SideIs(t2, m, d, s)
      BY <2>1, <2>3 DEF Joined
    <3> HIDE DEF s
    <3>2. s # n
      <4>1. SUFFICES ASSUME s = n PROVE FALSE
        OBVIOUS
      <4>2. On(n, m, d) /\ \A k \in DOMAIN t2 : On(k, m, d) => IsPrefix(n, k)
        BY <1>0, <3>1, <4>1 DEF SideIs
      <4>3. p # NoNode /\ IsPrefix(m, p) /\ p # m /\ p \in D /\ p \in Node
        BY <1>0, <1>g, <1>p, <2>3, <4>2, Sides
      <4>4. On(p, m, d)
        BY <1>0, <1>p, <2>1, <4>2, <4>3, Sides
      <4>5. IsPrefix(n, p)
        BY <1>0, <4>2, <4>3, <4>4
      <4> QED BY <1>0, <1>p, <4>3, <4>5, Prefixes
    <3>3. SideIs(t, m, d, s)
      BY <1>0, <3>1, <3>2 DEF SideIs
    <3> QED BY <3>3 DEF s
  <2> QED BY <2>2, <2>3
<1> QED BY <1>0, <1>1, <1>2, <1>3 DEF Linked
----------------------------------------------------------------------------
(* What the operations do to the links.                                    *)

Typed(t) == DOMAIN t \subseteq Node /\ \A m \in DOMAIN t : t[m] \in RtNode

\* But for its links the node m is the same in t and u.
SameBody(t, u, m) ==
  u[m].rth = t[m].rth /\ u[m].dele = t[m].dele /\ u[m].lock = t[m].lock /\ u[m].version = t[m].version

\* Relink gives p another child on the side d, where old was.
LEMMA RelinkSides ==
  ASSUME NEW t, Typed(t), NEW p, NEW old, NEW new \in Node \cup {NoNode}, NEW d \in Bit, p = NoNode \/ p \in DOMAIN t,
         p # NoNode => (SideIn(t, p, 1) = old <=> d = 1)
  PROVE  /\ DOMAIN Relink(t, p, old, new) = DOMAIN t
         /\ Typed(Relink(t, p, old, new))
         /\ \A m \in DOMAIN t : /\ SameBody(t, Relink(t, p, old, new), m)
                                /\ Relink(t, p, old, new)[m].parent = t[m].parent
         /\ \A m \in DOMAIN t, e \in Bit :
              SideIn(Relink(t, p, old, new), m, e) = IF m = p /\ e = d THEN new ELSE SideIn(t, m, e)
<1>0. NoNode \notin DOMAIN t
  BY RadixAssumption DEF Typed
<1>1. CASE p = NoNode
  <2>1. Relink(t, p, old, new) = t
    BY <1>1 DEF Relink
  <2> QED BY <1>0, <1>1, <2>1 DEF SameBody
<1>2. CASE p # NoNode /\ d = 1
  <2>1. p \in DOMAIN t /\ t[p].right = old
    BY <1>2 DEF SideIn
  <2>2. Relink(t, p, old, new) = [t EXCEPT ![p].right = new]
    BY <1>2, <2>1 DEF Relink
  <2> DEFINE u == [t EXCEPT ![p].right = new]
  <2>3. DOMAIN u = DOMAIN t /\ \A m \in DOMAIN t : u[m] = IF m = p THEN [t[p] EXCEPT !.right = new] ELSE t[m]
    BY <2>1
  <2> HIDE DEF u
  <2>4. ASSUME NEW m \in DOMAIN t
        PROVE  u[m] \in RtNode /\ SameBody(t, u, m) /\ u[m].parent = t[m].parent /\ u[m].left = t[m].left
               /\ u[m].right = IF m = p THEN new ELSE t[m].right
    <3>1. t[m] \in RtNode
      BY DEF Typed
    <3> QED BY <2>3, <3>1 DEF RtNode, SameBody
  <2>5. Typed(u)
    BY <2>3, <2>4 DEF Typed
  <2>6. \A m \in DOMAIN t, e \in Bit : SideIn(u, m, e) = IF m = p /\ e = d THEN new ELSE SideIn(t, m, e)
    BY <1>2, <2>4 DEF SideIn, Bit
  <2>7. Relink(t, p, old, new) = u
    BY <2>2 DEF u
  <2> QED BY <2>3, <2>4, <2>5, <2>6, <2>7
<1>3. CASE p # NoNode /\ d # 1
  <2>1. p \in DOMAIN t /\ t[p].right # old /\ d = 0
    BY <1>3 DEF SideIn, Bit
  <2>2. Relink(t, p, old, new) = [t EXCEPT ![p].left = new]
    BY <1>3, <2>1 DEF Relink
  <2> DEFINE u == [t EXCEPT ![p].left = new]
  <2>3. DOMAIN u = DOMAIN t /\ \A m \in DOMAIN t : u[m] = IF m = p THEN [t[p] EXCEPT !.left = new] ELSE t[m]
    BY <2>1
  <2> HIDE DEF u
  <2>4. ASSUME NEW m \in DOMAIN t
        PROVE  u[m] \in RtNode /\ SameBody(t, u, m) /\ u[m].parent = t[m].parent /\ u[m].right = t[m].right
               /\ u[m].left = IF m = p THEN new ELSE t[m].left
    <3>1. t[m] \in RtNode
      BY DEF Typed
    <3> QED BY <2>3, <3>1 DEF RtNode, SameBody
  <2>5. Typed(u)
    BY <2>3, <2>4 DEF Typed
  <2>6. \A m \in DOMAIN t, e \in Bit : SideIn(u, m, e) = IF m = p /\ e = d THEN new ELSE SideIn(t, m, e)
    BY <2>1, <2>4 DEF SideIn, Bit
  <2>7. Relink(t, p, old, new) = u
    BY <2>2 DEF u
  <2> QED BY <2>3, <2>4, <2>5, <2>6, <2>7
<1> QED BY <1>1, <1>2, <1>3

\* A child has one side of its parent.
LEMMA OneSide ==
  ASSUME NEW t, NEW r, Linked(t, r), NEW n \in DOMAIN t, NEW d \in Bit, t[n].parent # NoNode, On(n, t[n].parent, d)
  PROVE  SideIn(t, t[n].parent, 1) = n <=> d = 1
<1>1. \A b \in Bit : On(n, t[n].parent, b) <=> SideIn(t, t[n].parent, b) = n
  BY Kin
<1>2. 1 \in Bit
  BY DEF Bit
<1> QED BY <1>1, <1>2, Sides

\* The parent of n is relinked.
LEMMA ParentRelinked ==
  ASSUME NEW t, NEW r, Linked(t, r), NEW u, Typed(u), DOMAIN u = DOMAIN t,
         \A m \in DOMAIN t : u[m].left = t[m].left /\ u[m].right = t[m].right,
         NEW n \in DOMAIN t, NEW new \in Node \cup {NoNode}, NEW d \in Bit,
         t[n].parent # NoNode => On(n, t[n].parent, d)
  PROVE  /\ DOMAIN Relink(u, t[n].parent, n, new) = DOMAIN t
         /\ Typed(Relink(u, t[n].parent, n, new))
         /\ \A m \in DOMAIN t : /\ SameBody(u, Relink(u, t[n].parent, n, new), m)
                                /\ Relink(u, t[n].parent, n, new)[m].parent = u[m].parent
         /\ \A m \in DOMAIN t, e \in Bit :
              SideIn(Relink(u, t[n].parent, n, new), m, e) =
                IF m = t[n].parent /\ e = d THEN new ELSE SideIn(t, m, e)
<1> DEFINE p == t[n].parent
<1>1. p = NoNode \/ p \in DOMAIN u
  BY Kin
<1>2. \A m \in DOMAIN t : \A e \in Bit : SideIn(u, m, e) = SideIn(t, m, e)
  BY DEF SideIn
<1>3. p # NoNode => (SideIn(u, p, 1) = n <=> d = 1)
  <2>1. 1 \in Bit
    BY DEF Bit
  <2> QED BY <1>1, <1>2, <2>1, OneSide
<1> HIDE DEF p
<1>4. /\ DOMAIN Relink(u, p, n, new) = DOMAIN u
      /\ Typed(Relink(u, p, n, new))
      /\ \A m \in DOMAIN u : /\ SameBody(u, Relink(u, p, n, new), m)
                             /\ Relink(u, p, n, new)[m].parent = u[m].parent
      /\ \A m \in DOMAIN u, e \in Bit :
           SideIn(Relink(u, p, n, new), m, e) = IF m = p /\ e = d THEN new ELSE SideIn(u, m, e)
  BY <1>1, <1>3, RelinkSides
<1>5. \A m \in DOMAIN t, e \in Bit : SideIn(Relink(u, p, n, new), m, e) = IF m = p /\ e = d THEN new ELSE SideIn(t, m, e)
  BY <1>2, <1>4
<1> QED BY <1>4, <1>5 DEF p

\* new has the child rtn on the side b, and no other.
OnlyChild(new, rtn, b) ==
  IF b = 1 THEN new.right = rtn /\ new.left = NoNode ELSE new.left = rtn /\ new.right = NoNode

LEMMA InPlace ==
  ASSUME Typed(node), Linked(node, root), NEW rtn \in Nodes, NEW n \in Node \ Nodes, NEW new \in RtNode,
         NEW b \in Bit, On(rtn, n, b),
         node[rtn].parent # NoNode => IsPrefix(node[rtn].parent, n),
         new.parent = node[rtn].parent
  PROVE  /\ DOMAIN InPlaceOf(rtn, n, new) = Nodes \cup {n}
         /\ Typed(InPlaceOf(rtn, n, new))
         /\ InPlaceOf(rtn, n, new)[n] = new
         /\ \A m \in Nodes : SameBody(node, InPlaceOf(rtn, n, new), m)
         /\ OnlyChild(new, rtn, b) =>
              Joined(node, root, InPlaceOf(rtn, n, new), RootWith(rtn, n), n, node[rtn].parent, rtn, b)
<1> USE DEF Nodes
<1> DEFINE p == node[rtn].parent
           t1 == [node EXCEPT ![rtn].parent = n]
           t2 == Relink(t1, p, rtn, n)
           u  == WithNode(t2, n, new)
<1>0. Nodes \subseteq Node /\ NoNode \notin Node /\ rtn # NoNode /\ n # NoNode /\ n # rtn
  BY RadixAssumption DEF Typed
<1>1. DOMAIN t1 = Nodes /\ \A m \in Nodes : t1[m] = IF m = rtn THEN [node[rtn] EXCEPT !.parent = n] ELSE node[m]
  OBVIOUS
<1> HIDE DEF t1
<1>2. ASSUME NEW m \in Nodes
      PROVE  /\ t1[m] \in RtNode /\ SameBody(node, t1, m) /\ t1[m].parent = IF m = rtn THEN n ELSE node[m].parent
             /\ t1[m].left = node[m].left /\ t1[m].right = node[m].right
  <2>1. node[m] \in RtNode
    BY DEF Typed
  <2> QED BY <1>0, <1>1, <2>1 DEF RtNode, SameBody
<1>3. Typed(t1)
  BY <1>0, <1>1, <1>2 DEF Typed
<1>4. PICK d \in Bit : p # NoNode => On(rtn, p, d) /\ On(n, p, d)
  <2>1. CASE p = NoNode
    <3>1. 0 \in Bit
      BY DEF Bit
    <3> QED BY <2>1, <3>1
  <2>2. CASE p # NoNode
    <3>1. p \in Nodes /\ IsPrefix(p, n) /\ p # n /\ IsPrefix(n, rtn)
      BY <2>2, Kin, Sides
    <3>2. PICK d \in Bit : On(n, p, d)
      BY <1>0, <3>1, Sides
    <3> QED BY <1>0, <3>1, <3>2, Sides
  <2> QED BY <2>1, <2>2
<1> HIDE DEF t2
<1>5. /\ DOMAIN t2 = Nodes /\ Typed(t2)
      /\ \A m \in Nodes : SameBody(t1, t2, m) /\ t2[m].parent = t1[m].parent
      /\ \A m \in Nodes, e \in Bit : SideIn(t2, m, e) = IF m = p /\ e = d THEN n ELSE SideIn(node, m, e)
  BY <1>1, <1>2, <1>3, <1>4, ParentRelinked DEF t2
<1> HIDE DEF u
<1>6. DOMAIN u = Nodes \cup {n} /\ \A m \in Nodes \cup {n} : u[m] = IF m = n THEN new ELSE t2[m]
  BY <1>5 DEF u, WithNode
<1>7. Typed(u)
  BY <1>0, <1>5, <1>6 DEF Typed
<1>8. u[n] = new /\ \A m \in Nodes : u[m] = t2[m]
  BY <1>6
<1>9. \A m \in Nodes : SameBody(node, u, m)
  BY <1>2, <1>5, <1>8 DEF SameBody
<1>10. ASSUME OnlyChild(new, rtn, b)
       PROVE  Joined(node, root, u, RootWith(rtn, n), n, p, rtn, b)
  <2>1. p # NoNode => p \in Nodes /\ IsPrefix(p, n)
    BY Kin
  <2>2. \A e \in Bit : SideIn(u, n, e) = IF e = b THEN rtn ELSE NoNode
    BY <1>8, <1>10 DEF OnlyChild, SideIn, Bit
  <2>3. \A m \in Nodes : IF m = rtn THEN node[m].parent = p /\ u[m].parent = n ELSE u[m].parent = node[m].parent
    BY <1>2, <1>5, <1>8
  <2>4. ASSUME NEW m \in Nodes, NEW e \in Bit
        PROVE  IF m = p /\ On(n, m, e) THEN SideIn(node, m, e) = rtn /\ SideIn(u, m, e) = n
                                       ELSE SideIn(u, m, e) = SideIn(node, m, e)
    <3>1. SideIn(u, m, e) = IF m = p /\ e = d THEN n ELSE SideIn(node, m, e)
      BY <1>5, <1>8 DEF SideIn
    <3>2. CASE m = p
      <4>1. p # NoNode /\ (On(n, p, e) <=> e = d)
        BY <1>0, <1>4, <3>2, Sides
      <4>2. e = d => SideIn(node, p, e) = rtn
        BY <1>4, <4>1, Kin
      <4> QED BY <3>1, <3>2, <4>1, <4>2
    <3> QED BY <3>1, <3>2
  <2>5. IF p = NoNode THEN root = rtn /\ RootWith(rtn, n) = n ELSE RootWith(rtn, n) = root
    BY Kin DEF RootWith
  <2>6. u[n].parent = p
    BY <1>8
  <2> QED BY <1>0, <1>6, <2>1, <2>2, <2>3, <2>4, <2>5, <2>6 DEF Joined
<1>11. InPlaceOf(rtn, n, new) = u
  BY DEF InPlaceOf, u, t2, t1
<1> QED BY <1>6, <1>7, <1>8, <1>9, <1>10, <1>11

\* n of t, which has nothing on its other side, is replaced by what is on its
\* side b; u is t with the parent of that.
ReplacedInto(t, r, n, b, u, after, r2) ==
  /\ n \in DOMAIN t /\ b \in Bit
  /\ \A e \in Bit : e # b => SideIn(t, n, e) = NoNode
  /\ Typed(u) /\ DOMAIN u = DOMAIN t
  /\ \A m \in DOMAIN t : /\ u[m].left = t[m].left /\ u[m].right = t[m].right /\ SameBody(t, u, m)
                         /\ u[m].parent = IF m = SideIn(t, n, b) THEN t[n].parent ELSE t[m].parent
  /\ after = Without(Relink(u, t[n].parent, n, SideIn(t, n, b)), n)
  /\ r2 = IF t[n].parent = NoNode THEN SideIn(t, n, b) ELSE r

LEMMA Replaced ==
  ASSUME NEW t, NEW r, Typed(t), Linked(t, r), NEW n, NEW b, NEW u, NEW after, NEW r2,
         ReplacedInto(t, r, n, b, u, after, r2)
  PROVE  /\ DOMAIN after = DOMAIN t \ {n}
         /\ Typed(after)
         /\ \A m \in DOMAIN after : SameBody(t, after, m)
         /\ Joined(after, r2, t, r, n, t[n].parent, SideIn(t, n, b), b)
         /\ Linked(after, r2)
<1> USE DEF ReplacedInto
<1> DEFINE p == t[n].parent
           c == SideIn(t, n, b)
           t2 == Relink(u, p, n, c)
<1>0. DOMAIN t \subseteq Node /\ NoNode \notin Node
  BY RadixAssumption DEF Typed
<1>c. c # NoNode => c \in DOMAIN t /\ On(c, n, b) /\ c # n /\ t[c].parent = n
  BY Kin, Sides
<1>p. p # NoNode => p \in DOMAIN t /\ IsPrefix(p, n) /\ p # n /\ \A e \in Bit : On(n, p, e) <=> SideIn(t, p, e) = n
  BY Kin
<1>1. PICK d \in Bit : p # NoNode => On(n, p, d)
  <2>1. CASE p = NoNode
    <3>1. 0 \in Bit
      BY DEF Bit
    <3> QED BY <2>1, <3>1
  <2>2. CASE p # NoNode
    BY <1>0, <1>p, <2>2, Sides
  <2> QED BY <2>1, <2>2
<1>2. c \in Node \cup {NoNode}
  BY <1>0, <1>c
<1>3. /\ DOMAIN t2 = DOMAIN t /\ Typed(t2)
      /\ \A m \in DOMAIN t : SameBody(u, t2, m) /\ t2[m].parent = u[m].parent
      /\ \A m \in DOMAIN t, e \in Bit : SideIn(t2, m, e) = IF m = p /\ e = d THEN c ELSE SideIn(t, m, e)
  <2> HIDE DEF c
  <2> QED BY <1>1, <1>2, ParentRelinked, SMTT(30)
<1>4. after = Without(t2, n)
  OBVIOUS
<1> HIDE DEF p, c, t2
<1>5. DOMAIN after = DOMAIN t \ {n} /\ \A m \in DOMAIN after : after[m] = t2[m]
  BY <1>3, <1>4 DEF Without
<1>6. Typed(after)
  BY <1>3, <1>5 DEF Typed
<1>7. \A m \in DOMAIN after : SameBody(t, after, m) /\ after[m].parent = IF m = c THEN p ELSE t[m].parent
  BY <1>3, <1>5 DEF SameBody, c, p
<1>8. Joined(after, r2, t, r, n, p, c, b)
  <2>1. n \in Node /\ n \notin DOMAIN after /\ DOMAIN t = DOMAIN after \cup {n}
    BY <1>0, <1>5
  <2>2. p # NoNode => p \in DOMAIN after /\ IsPrefix(p, n)
    BY <1>5, <1>p
  <2>3. c # NoNode => c \in DOMAIN after /\ On(c, n, b)
    BY <1>5, <1>c
  <2>4. \A e \in Bit : SideIn(t, n, e) = IF e = b THEN c ELSE NoNode
    BY DEF c
  <2>5. \A m \in DOMAIN after : IF m = c THEN after[m].parent = p /\ t[m].parent = n ELSE t[m].parent = after[m].parent
    BY <1>0, <1>5, <1>7, <1>c
  <2>6. ASSUME NEW m \in DOMAIN after, NEW e \in Bit
        PROVE  IF m = p /\ On(n, m, e) THEN SideIn(after, m, e) = c /\ SideIn(t, m, e) = n
                                       ELSE SideIn(t, m, e) = SideIn(after, m, e)
    <3>1. SideIn(after, m, e) = IF m = p /\ e = d THEN c ELSE SideIn(t, m, e)
      BY <1>3, <1>5 DEF SideIn
    <3>2. CASE m = p
      <4>1. p # NoNode
        BY <1>0, <1>5, <3>2
      <4>2. On(n, p, e) <=> e = d
        BY <1>1, <4>1, Sides
      <4> QED BY <1>p, <3>1, <3>2, <4>1, <4>2
    <3> QED BY <3>1, <3>2
  <2>7. IF p = NoNode THEN r2 = c /\ r = n ELSE r = r2
    BY Kin DEF p, c
  <2>8. t[n].parent = p
    BY DEF p
  <2> QED BY <2>1, <2>2, <2>3, <2>4, <2>5, <2>6, <2>7, <2>8 DEF Joined
<1>9. Linked(after, r2)
  BY <1>8, Cut
<1> QED BY <1>5, <1>6, <1>7, <1>8, <1>9 DEF p, c
----------------------------------------------------------------------------
(* The search.                                                             *)

\* A node without a head has two children.
Full == \A n \in Nodes : node[n].rth = NoHead => \A b \in Bit : SideIn(node, n, b) # NoNode

\* m and addr begin with the same d bits.
Shares(m, addr, d) == d <= Len(m) /\ \A i \in 1 .. d : m[i] = addr[i]

LEMMA Beginning ==
  ASSUME NEW addr \in Address, NEW d \in 0 .. Width
  PROVE  /\ SubSeq(addr, 1, d) \in Node /\ Len(SubSeq(addr, 1, d)) = d /\ d \in Nat
         /\ \A i \in 1 .. d : SubSeq(addr, 1, d)[i] = addr[i] /\ i \in 1 .. Width
<1>0. Width \in Nat /\ d \in Nat
  BY RadixAssumption
<1>1. addr \in Seq(Bit) /\ Len(addr) = Width
  <2>1. addr \in Node
    <3>1. Width \in 0 .. Width /\ addr \in [1 .. Width -> Bit]
      BY <1>0 DEF Address
    <3> QED BY <3>1 DEF Node
  <2>2. Len(addr) \in Nat /\ DOMAIN addr = 1 .. Len(addr) /\ DOMAIN addr = 1 .. Width /\ addr \in Seq(Bit)
    BY <2>1, NodeIsSeq, LenProperties DEF Address
  <2> DEFINE k == Len(addr)
  <2>3. k \in Nat /\ 1 .. k = 1 .. Width
    BY <2>2
  <2> HIDE DEF k
  <2>4. k = Width
    BY ONLY <1>0, <2>3
  <2> QED BY <2>2, <2>4 DEF k
<1>2. SubSeq(addr, 1, d) = [i \in 1 .. d |-> addr[i]]
  BY <1>0
<1>3. \A i \in 1 .. d : i \in 1 .. Width
  BY <1>0
<1>4. [i \in 1 .. d |-> addr[i]] \in [1 .. d -> Bit]
  BY <1>3 DEF Address
<1>5. SubSeq(addr, 1, d) \in Node
  BY <1>2, <1>4 DEF Node
<1>6. Len(SubSeq(addr, 1, d)) = d
  <2>1. SubSeq(addr, 1, d) \in Seq(Bit) /\ DOMAIN SubSeq(addr, 1, d) = 1 .. d
    BY <1>2, <1>5, NodeIsSeq
  <2> DEFINE k == Len(SubSeq(addr, 1, d))
  <2>2. k \in Nat /\ 1 .. k = 1 .. d
    BY <2>1, LenProperties
  <2> HIDE DEF k
  <2>3. k = d
    BY ONLY <1>0, <2>2
  <2> QED BY <2>3 DEF k
<1> QED BY <1>0, <1>2, <1>3, <1>5, <1>6

\* What FarthestHead and ClimbTo compute.
Downs(g, addr, len) ==
  g = [n \in Nodes |-> IF (Len(n) < len \/ node[n].rth = NoHead) /\ Child(n, addr) # NoNode
                         THEN g[Child(n, addr)] ELSE n]
DownFrom(addr, len) ==
  [n \in Nodes |-> IF (Len(n) < len \/ node[n].rth = NoHead) /\ Child(n, addr) # NoNode
                     THEN Child(n, addr) ELSE n]
Ups(g, d) ==
  g = [m \in Nodes |-> IF node[m].parent # NoNode /\ Len(node[m].parent) >= d THEN g[node[m].parent] ELSE m]
UpTo(d) == [m \in Nodes |-> IF node[m].parent # NoNode /\ Len(node[m].parent) >= d THEN node[m].parent ELSE m]

LEMMA ChildIsSide ==
  ASSUME Typed(node), Linked(node, root), NEW n \in Nodes, NEW addr \in Address
  PROVE  /\ Child(n, addr) # NoNode =>
              /\ Child(n, addr) \in Nodes /\ Child(n, addr) # n /\ Len(n) + 1 \in 1 .. Width
              /\ IsPrefix(n, Child(n, addr))
         /\ Len(n) + 1 \in 1 .. Width =>
              addr[Len(n) + 1] \in Bit /\ Child(n, addr) = SideIn(node, n, addr[Len(n) + 1])
         /\ \E b \in Bit : Child(n, addr) = SideIn(node, n, b)
<1> USE DEF Nodes
<1>1. PICK b \in Bit : Child(n, addr) = SideIn(node, n, b)
  <2>1. 0 \in Bit /\ 1 \in Bit /\ 0 # 1
    BY DEF Bit
  <2> QED BY <2>1 DEF Child, SideIn
<1>2. ASSUME Child(n, addr) # NoNode
      PROVE  /\ Child(n, addr) \in Nodes /\ Child(n, addr) # n /\ Len(n) + 1 \in 1 .. Width
             /\ IsPrefix(n, Child(n, addr))
  <2> DEFINE c == Child(n, addr)
  <2>1. c \in Nodes /\ On(c, n, b)
    BY <1>1, <1>2, Kin
  <2> HIDE DEF c
  <2>2. c \in Node /\ n \in Node /\ IsPrefix(n, c) /\ c # n
    BY <2>1, Sides DEF Typed
  <2>3. Len(n) \in Nat /\ Len(c) \in Nat /\ Len(n) < Len(c) /\ Len(c) <= Width /\ Width \in Nat
    BY <2>2, Prefixes, RadixAssumption
  <2> QED BY <2>1, <2>2, <2>3 DEF c
<1>3. ASSUME Len(n) + 1 \in 1 .. Width
      PROVE  addr[Len(n) + 1] \in Bit /\ Child(n, addr) = SideIn(node, n, addr[Len(n) + 1])
  BY <1>3 DEF Address, Child, SideIn
<1> QED BY <1>1, <1>2, <1>3

\* The search goes on in a set that it does not leave, as far as it can.
LEMMA FarthestStays ==
  ASSUME Typed(node), Linked(node, root), root # NoNode, NEW addr \in Address, NEW len \in 0 .. Width,
         NEW S \in SUBSET Nodes, root \in S,
         \A n \in S : (Len(n) < len \/ node[n].rth = NoHead) /\ Child(n, addr) # NoNode => Child(n, addr) \in S
  PROVE  /\ FarthestHead(addr, len) \in S
         /\ LET far == FarthestHead(addr, len)
            IN (Len(far) < len \/ node[far].rth = NoHead) => Child(far, addr) = NoNode
<1> USE DEF Nodes
<1> DEFINE nxt == DownFrom(addr, len)
           mu  == [n \in Nodes |-> Width - Len(n)]
<1>0. Nodes \subseteq Node /\ Width \in Nat /\ \A n \in Nodes : Len(n) \in Nat /\ Len(n) <= Width
  BY Prefixes, RadixAssumption DEF Typed
<1>1. /\ nxt \in [Nodes -> Nodes]
      /\ \A n \in Nodes : nxt[n] = IF (Len(n) < len \/ node[n].rth = NoHead) /\ Child(n, addr) # NoNode
                                     THEN Child(n, addr) ELSE n
  BY ChildIsSide DEF DownFrom
<1>2. mu \in [Nodes -> Nat] /\ \A n \in Nodes : mu[n] = Width - Len(n)
  BY <1>0
<1>3. ASSUME NEW n \in Nodes, nxt[n] # n PROVE mu[nxt[n]] < mu[n]
  <2>1. IsPrefix(n, nxt[n]) /\ nxt[n] \in Nodes
    BY <1>1, <1>3, ChildIsSide
  <2>2. Len(n) < Len(nxt[n])
    BY <1>0, <1>3, <2>1, Prefixes
  <2> HIDE DEF nxt, mu
  <2> QED BY <1>0, <1>2, <2>1, <2>2
<1> HIDE DEF nxt, mu
<1>4. PICK g : Downs(g, addr, len) /\ FarthestHead(addr, len) = g[root] /\ Follows(g, Nodes, nxt)
  <2>1. PICK f : Follows(f, Nodes, nxt)
    BY <1>1, FollowExists
  <2>2. \A e : Follows(e, Nodes, nxt) <=> Downs(e, addr, len)
    <3> SUFFICES ASSUME NEW e PROVE Follows(e, Nodes, nxt) <=> Downs(e, addr, len)
      OBVIOUS
    <3>1. ASSUME NEW n \in Nodes
          PROVE  (IF nxt[n] # n THEN e[nxt[n]] ELSE n) =
                 (IF (Len(n) < len \/ node[n].rth = NoHead) /\ Child(n, addr) # NoNode
                         THEN e[Child(n, addr)] ELSE n)
      BY <1>1, ChildIsSide
    <3> QED BY ONLY <3>1 DEF Follows, Downs
  <2>3. Downs(f, addr, len)
    BY <2>1, <2>2
  <2> DEFINE g == CHOOSE g : Downs(g, addr, len)
  <2>4. Downs(g, addr, len)
    BY <2>3
  <2>5. FarthestHead(addr, len) = g[root]
    BY DEF FarthestHead, Downs
  <2> HIDE DEF g
  <2> QED BY <2>2, <2>4, <2>5
<1>5. \A n \in S : nxt[n] \in S
  BY <1>1
<1> DEFINE far == FarthestHead(addr, len)
<1>6. far \in S /\ nxt[far] = far
  <2>1. Falls(mu, Nodes, nxt)
    BY <1>2, <1>3 DEF Falls
  <2>2. StaysIn(S, Nodes, nxt)
    BY <1>5 DEF StaysIn
  <2>3. g[root] \in S /\ nxt[g[root]] = g[root]
    BY <1>1, <1>4, <2>1, <2>2, FollowEnds
  <2> QED BY <1>4, <2>3
<1> HIDE DEF far
<1>7. (Len(far) < len \/ node[far].rth = NoHead) => Child(far, addr) = NoNode
  <2> SUFFICES ASSUME Len(far) < len \/ node[far].rth = NoHead, Child(far, addr) # NoNode PROVE FALSE
    OBVIOUS
  <2>1. far \in Nodes
    BY <1>6
  <2>2. nxt[far] = Child(far, addr)
    BY <1>1, <2>1
  <2> QED BY <1>6, <2>1, <2>2, ChildIsSide
<1> QED BY <1>6, <1>7 DEF far

\* The node the search for len bits of addr ends at has a head, and begins
\* with as many of them as any node.
LEMMA FarthestIsBest ==
  ASSUME Typed(node), Linked(node, root), Full, root # NoNode, NEW addr \in Address, NEW len \in 0 .. Width
  PROVE  /\ FarthestHead(addr, len) \in Nodes
         /\ node[FarthestHead(addr, len)].rth # NoHead
         /\ \A m \in Nodes, d \in 0 .. len : Shares(m, addr, d) => Shares(FarthestHead(addr, len), addr, d)
<1> USE DEF Nodes
<1> DEFINE Claim(n) == \A m \in Nodes : IsPrefix(n, m) \/ \A d \in Nat : Shares(m, addr, d) => Shares(n, addr, d)
           S   == {n \in Nodes : Claim(n)}
<1>0. Nodes \subseteq Node /\ Width \in Nat /\ \A n \in Nodes : Len(n) \in Nat /\ Len(n) <= Width
  BY Prefixes, RadixAssumption DEF Typed
<1>1. ASSUME NEW n \in S, Child(n, addr) # NoNode PROVE Child(n, addr) \in S
  <2> DEFINE c == Child(n, addr)
  <2>1. n \in Nodes /\ Claim(n)
    OBVIOUS
  <2>2. c # NoNode
    BY <1>1
  <2> DEFINE l == Len(n) + 1
  <2>3. c \in Nodes /\ c # n /\ l \in 1 .. Width /\ IsPrefix(n, c) /\ c = SideIn(node, n, addr[l]) /\ addr[l] \in Bit
    BY <2>1, <2>2, ChildIsSide
  <2>4. On(c, n, addr[l]) /\ \A m \in Nodes : On(m, n, addr[l]) => IsPrefix(c, m)
    BY <2>1, <2>2, <2>3 DEF Linked, SideIs
  <2> HIDE DEF c
  <2>5. Len(n) \in Nat /\ Len(c) \in Nat /\ Len(n) <= Len(c) /\ \A i \in 1 .. Len(n) : n[i] = c[i]
    BY <1>0, <2>1, <2>3 DEF IsPrefix
  <2>6. \A d \in Nat : Shares(n, addr, d) => Shares(c, addr, d)
    BY <2>5 DEF Shares
  <2>7. ASSUME NEW m \in Nodes, ~IsPrefix(c, m), NEW d \in Nat, Shares(m, addr, d) PROVE Shares(c, addr, d)
    <3>1. CASE ~IsPrefix(n, m)
      BY <2>1, <2>6, <2>7, <3>1
    <3>2. CASE IsPrefix(n, m)
      <4>1. Len(m) \in Nat /\ Len(n) <= Len(m) /\ \A i \in 1 .. Len(n) : n[i] = m[i]
        BY <1>0, <3>2 DEF IsPrefix
      <4>2. d <= Len(n)
        <5>1. CASE m = n
          BY <2>7, <5>1 DEF Shares
        <5>2. CASE m # n
          <6>1. m[l] # addr[l]
            BY <2>4, <2>7, <3>2, <5>2 DEF On
          <6>2. ~(l \in 1 .. d)
            BY <2>7, <6>1 DEF Shares
          <6> QED BY <2>5, <6>2
        <5> QED BY <5>1, <5>2
      <4>3. Shares(n, addr, d)
        BY <2>5, <2>7, <4>1, <4>2 DEF Shares
      <4> QED BY <2>6, <4>3
    <3> QED BY <3>1, <3>2
  <2>8. Claim(c)
    BY <2>7
  <2> QED BY <2>3, <2>8 DEF c
<1>2. root \in S
  BY DEF Linked, RootIs
<1> DEFINE far == FarthestHead(addr, len)
<1>3. far \in S /\ (Len(far) < len \/ node[far].rth = NoHead => Child(far, addr) = NoNode)
  <2>1. S \in SUBSET Nodes
    OBVIOUS
  <2> HIDE DEF S
  <2> QED BY <1>1, <1>2, <2>1, FarthestStays
<1> HIDE DEF far
<1>4. far \in Nodes /\ Claim(far)
  BY <1>3
<1>5. node[far].rth # NoHead
  <2>1. SUFFICES ASSUME node[far].rth = NoHead PROVE FALSE
    OBVIOUS
  <2>2. Child(far, addr) # NoNode
    BY <1>4, <2>1, ChildIsSide DEF Full
  <2> QED BY <1>3, <2>1, <2>2
<1>6. ASSUME NEW m \in Nodes, NEW d \in 0 .. len, Shares(m, addr, d) PROVE Shares(far, addr, d)
  <2>1. CASE ~IsPrefix(far, m)
    BY <1>4, <1>6, <2>1
  <2>2. CASE IsPrefix(far, m)
    <3>1. /\ Len(m) \in Nat /\ Len(far) \in Nat /\ Len(far) <= Len(m) /\ Len(far) <= Width
          /\ \A i \in 1 .. Len(far) : far[i] = m[i]
      BY <1>0, <1>4, <2>2 DEF IsPrefix
    <3>2. d <= Len(far)
      <4>1. CASE Child(far, addr) # NoNode
        <5>1. ~(Len(far) < len)
          BY <1>3, <4>1
        <5> QED BY <1>0, <3>1, <5>1
      <4>2. CASE Child(far, addr) = NoNode
        <5> DEFINE l == Len(far) + 1
        <5>1. SUFFICES ASSUME Len(far) < d PROVE FALSE
          BY <3>1
        <5>2. l \in 1 .. d /\ l \in 1 .. Width /\ l \in 1 .. Len(m) /\ m # far
          BY <1>0, <1>6, <3>1, <5>1 DEF Shares
        <5>3. m[l] = addr[l]
          BY <1>6, <5>2 DEF Shares
        <5>4. SideIn(node, far, addr[l]) = NoNode /\ addr[l] \in Bit
          BY <1>4, <4>2, <5>2, ChildIsSide
        <5>5. SideIs(node, far, addr[l], NoNode)
          BY <1>4, <5>4 DEF Linked
        <5> QED BY <2>2, <5>2, <5>3, <5>5 DEF SideIs, On
      <4> QED BY <4>1, <4>2
    <3> QED BY <1>6, <3>1, <3>2 DEF Shares
  <2> QED BY <2>1, <2>2
<1> QED BY <1>4, <1>5, <1>6 DEF far

LEMMA ClimbIsHighest ==
  ASSUME Typed(node), Linked(node, root), NEW n \in Nodes, NEW d \in Nat, Len(n) >= d
  PROVE  /\ ClimbTo(n, d) \in Nodes /\ IsPrefix(ClimbTo(n, d), n) /\ Len(ClimbTo(n, d)) >= d
         /\ node[ClimbTo(n, d)].parent = NoNode \/ Len(node[ClimbTo(n, d)].parent) < d
<1> USE DEF Nodes
<1> DEFINE nxt == UpTo(d)
           mu  == [m \in Nodes |-> Len(m)]
           S   == {m \in Nodes : IsPrefix(m, n) /\ Len(m) >= d}
<1>0. Nodes \subseteq Node /\ Width \in Nat /\ \A m \in Nodes : Len(m) \in Nat /\ Len(m) <= Width
  BY Prefixes, RadixAssumption DEF Typed
<1>1. /\ nxt \in [Nodes -> Nodes]
      /\ \A m \in Nodes : nxt[m] = IF node[m].parent # NoNode /\ Len(node[m].parent) >= d THEN node[m].parent ELSE m
  BY Kin DEF UpTo
<1>2. mu \in [Nodes -> Nat] /\ \A m \in Nodes : mu[m] = Len(m)
  BY <1>0
<1>3. ASSUME NEW m \in Nodes, nxt[m] # m
      PROVE  /\ mu[nxt[m]] < mu[m] /\ nxt[m] = node[m].parent /\ IsPrefix(nxt[m], m) /\ Len(nxt[m]) >= d
             /\ nxt[m] \in Nodes
  <2>1. nxt[m] = node[m].parent /\ node[m].parent # NoNode /\ Len(nxt[m]) >= d
    BY <1>1, <1>3
  <2>2. IsPrefix(nxt[m], m) /\ nxt[m] \in Nodes
    BY <2>1, Kin
  <2>3. Len(nxt[m]) < Len(m)
    BY <1>0, <1>3, <2>2, Prefixes
  <2> HIDE DEF nxt, mu
  <2> QED BY <1>2, <2>1, <2>2, <2>3
<1> HIDE DEF nxt, mu
<1>4. PICK g : Ups(g, d) /\ ClimbTo(n, d) = g[n] /\ Follows(g, Nodes, nxt)
  <2>1. PICK f : Follows(f, Nodes, nxt)
    BY <1>1, FollowExists
  <2>2. \A e : Follows(e, Nodes, nxt) <=> Ups(e, d)
    <3>1. ASSUME NEW e, NEW m \in Nodes
          PROVE  (IF nxt[m] # m THEN e[nxt[m]] ELSE m) =
                 (IF node[m].parent # NoNode /\ Len(node[m].parent) >= d THEN e[node[m].parent] ELSE m)
      BY <1>1, Kin
    <3>2. ASSUME NEW e
          PROVE  [m \in Nodes |-> IF nxt[m] # m THEN e[nxt[m]] ELSE m] =
                 [m \in Nodes |-> IF node[m].parent # NoNode /\ Len(node[m].parent) >= d
                                    THEN e[node[m].parent] ELSE m]
      BY <3>1
    <3> QED BY <3>2, Zenon DEF Follows, Ups
  <2>3. Ups(f, d)
    BY <2>1, <2>2
  <2> DEFINE g == CHOOSE g : Ups(g, d)
  <2>4. Ups(g, d)
    BY <2>3
  <2>5. ClimbTo(n, d) = g[n]
    BY DEF ClimbTo, Ups
  <2> HIDE DEF g
  <2> QED BY <2>2, <2>4, <2>5
<1>5. StaysIn(S, Nodes, nxt)
  <2>1. ASSUME NEW m \in S PROVE nxt[m] \in S
    <3>1. CASE nxt[m] = m
      BY <3>1
    <3>2. CASE nxt[m] # m
      <4>1. IsPrefix(nxt[m], m) /\ Len(nxt[m]) >= d /\ nxt[m] \in Nodes
        BY <1>3, <3>2
      <4>2. IsPrefix(nxt[m], n)
        BY <1>0, <4>1, Prefixes
      <4> QED BY <4>1, <4>2
    <3> QED BY <3>1, <3>2
  <2> QED BY <2>1 DEF StaysIn
<1>6. n \in S
  BY <1>0, Prefixes
<1> DEFINE up == ClimbTo(n, d)
<1>7. up \in S /\ nxt[up] = up
  <2> HIDE DEF S
  <2>1. Falls(mu, Nodes, nxt)
    BY <1>2, <1>3 DEF Falls
  <2>2. g[n] \in S /\ nxt[g[n]] = g[n]
    BY <1>1, <1>4, <1>5, <1>6, <2>1, FollowEnds
  <2> QED BY <1>4, <2>2
<1> HIDE DEF up
<1>8. node[up].parent = NoNode \/ Len(node[up].parent) < d
  <2>1. SUFFICES ASSUME node[up].parent # NoNode, ~(Len(node[up].parent) < d) PROVE FALSE
    OBVIOUS
  <2>2. up \in Nodes /\ node[up].parent \in Nodes /\ node[up].parent # up
    BY <1>7, <2>1, Kin
  <2>3. Len(node[up].parent) \in Nat
    BY <1>0, <2>2
  <2> QED BY <1>1, <1>7, <2>1, <2>2, <2>3
<1> QED BY <1>7, <1>8 DEF up

\* FirstDifference is what its name says, if a is the address and b is a node,
\* or has the same bits.
LEMMA FirstDifferenceIs ==
  ASSUME NEW a, NEW b, NEW max \in Nat
  PROVE  /\ FirstDifference(a, b, max) \in 0 .. max
         /\ \A i \in 1 .. FirstDifference(a, b, max) : a[i] = b[i]
         /\ FirstDifference(a, b, max) < max =>
              a[FirstDifference(a, b, max) + 1] # b[FirstDifference(a, b, max) + 1]
<1> DEFINE Is(d) == /\ \A i \in 1 .. d : a[i] = b[i]
                    /\ d < max => a[d + 1] # b[d + 1]
           D == {d \in 0 .. max : d < max => a[d + 1] # b[d + 1]}
<1>1. \E d \in 0 .. max : Is(d)
  <2>1. D \in SUBSET Nat /\ max \in D
    OBVIOUS
  <2>2. PICK d \in D : \A e \in D : d <= e
    <3> HIDE DEF D
    <3> QED BY <2>1, LeastNumber
  <2>3. ASSUME NEW i \in 1 .. d, a[i] # b[i] PROVE FALSE
    <3> DEFINE e == i - 1
    <3>1. e \in 0 .. max /\ e + 1 = i /\ ~(d <= e)
      BY <2>1, <2>2
    <3> HIDE DEF e
    <3>2. e \in D
      BY <2>3, <3>1
    <3> QED BY <2>2, <3>1, <3>2
  <2> QED BY <2>2, <2>3
<1>2. FirstDifference(a, b, max) = CHOOSE d \in 0 .. max : Is(d)
  BY DEF FirstDifference
<1> DEFINE d == FirstDifference(a, b, max)
<1>3. d \in 0 .. max /\ Is(d)
  <2> HIDE DEF Is
  <2> QED BY <1>1, <1>2
<1> QED BY <1>3

\* Every head that is in the tree is at the node of its prefix.
HeadsFit ==
  /\ \A h \in Rth : hnode[h] # NoNode => hnode[h] \in Nodes /\ node[hnode[h]].rth = h
  /\ \A n \in Nodes : node[n].rth # NoHead => n = KeyOf(node[n].rth) /\ hnode[node[n].rth] = n

LEMMA KeyIs ==
  ASSUME NEW h \in Rth
  PROVE  /\ h.addr \in Address /\ h.len \in 0 .. Width /\ h.len \in Nat
         /\ KeyOf(h) \in Node /\ Len(KeyOf(h)) = h.len
         /\ \A i \in 1 .. h.len : KeyOf(h)[i] = h.addr[i]
BY RadixAssumption, Beginning DEF KeyOf

\* Where a head belongs: rtn has its first dbit bits, the parent has less, and
\* no node has more of them.
LEMMA PositionIs ==
  ASSUME Typed(node), Linked(node, root), Full, HeadsFit, root # NoNode, NEW h \in Rth
  PROVE  /\ Position(h).rtn \in Nodes /\ Position(h).dbit \in 0 .. h.len
         /\ Shares(Position(h).rtn, h.addr, Position(h).dbit)
         /\ node[Position(h).rtn].parent = NoNode \/ Len(node[Position(h).rtn].parent) < Position(h).dbit
         /\ \A i \in 1 .. Len(Position(h).rtn) : Position(h).his[i] = Position(h).rtn[i]
         /\ \A m \in Nodes, d \in 0 .. h.len : Shares(m, h.addr, d) => d <= Position(h).dbit
<1> USE DEF Nodes
<1> DEFINE addr == h.addr
           len  == h.len
           far  == FarthestHead(addr, len)
           g    == node[far].rth
           max  == Least(Len(far), len)
           dbit == FirstDifference(addr, g.addr, max)
           rtn  == ClimbTo(far, dbit)
<1>0. /\ addr \in Address /\ len \in 0 .. Width /\ len \in Nat
      /\ Nodes \subseteq Node /\ Width \in Nat /\ \A m \in Nodes : Len(m) \in Nat /\ Len(m) <= Width
  BY Prefixes, RadixAssumption, KeyIs DEF Typed
<1>1. Position(h) = [rtn |-> rtn, dbit |-> dbit, his |-> g.addr]
  BY DEF Position
<1> HIDE DEF addr, len
<1>2. /\ far \in Nodes /\ g # NoHead
      /\ \A m \in Nodes, d \in 0 .. len : Shares(m, addr, d) => Shares(far, addr, d)
  BY <1>0, FarthestIsBest
<1> HIDE DEF far
<1>3. g \in Rth /\ far = KeyOf(g)
  BY <1>2 DEF Typed, RtNode, HeadsFit
<1> HIDE DEF g
<1>4. Len(far) \in Nat /\ Len(far) = g.len /\ \A i \in 1 .. Len(far) : far[i] = g.addr[i]
  BY <1>3, KeyIs
<1>5. max \in Nat /\ max <= Len(far) /\ max <= len /\ (max = Len(far) \/ max = len)
  BY <1>0, <1>4 DEF Least
<1> HIDE DEF max
<1>6. dbit \in 0 .. max /\ dbit \in Nat /\ (\A i \in 1 .. dbit : addr[i] = g.addr[i])
      /\ (dbit < max => addr[dbit + 1] # g.addr[dbit + 1])
  BY <1>5, FirstDifferenceIs
<1> HIDE DEF dbit
<1>7. dbit <= Len(far) /\ dbit \in 0 .. len
  BY <1>0, <1>4, <1>5, <1>6
<1>8. /\ rtn \in Nodes /\ IsPrefix(rtn, far) /\ Len(rtn) >= dbit
      /\ node[rtn].parent = NoNode \/ Len(node[rtn].parent) < dbit
  BY <1>2, <1>6, <1>7, ClimbIsHighest
<1> HIDE DEF rtn
<1>9. Len(rtn) \in Nat /\ Len(rtn) <= Len(far) /\ \A i \in 1 .. Len(rtn) : rtn[i] = far[i]
  BY <1>0, <1>8 DEF IsPrefix
<1>10. Shares(rtn, addr, dbit)
  <2>1. ASSUME NEW i \in 1 .. dbit PROVE rtn[i] = addr[i]
    <3>1. i \in 1 .. Len(rtn) /\ i \in 1 .. Len(far)
      BY <1>4, <1>6, <1>7, <1>8, <1>9
    <3> QED BY <1>4, <1>6, <1>9, <3>1
  <2> QED BY <1>8, <1>9, <2>1, <1>6 DEF Shares
<1>11. \A i \in 1 .. Len(rtn) : g.addr[i] = rtn[i]
  <2>1. ASSUME NEW i \in 1 .. Len(rtn) PROVE g.addr[i] = rtn[i]
    <3>1. i \in 1 .. Len(far)
      BY <1>4, <1>9
    <3> QED BY <1>4, <1>9, <3>1
  <2> QED BY <2>1
<1>12. ASSUME NEW m \in Nodes, NEW d \in 0 .. len, Shares(m, addr, d), ~(d <= dbit) PROVE FALSE
  <2>1. Shares(far, addr, d) /\ d \in Nat
    BY <1>0, <1>2, <1>12
  <2>2. dbit < max /\ dbit + 1 \in 1 .. d /\ dbit + 1 \in 1 .. Len(far)
    BY <1>0, <1>4, <1>5, <1>6, <1>12, <2>1 DEF Shares
  <2>3. far[dbit + 1] = addr[dbit + 1]
    BY <2>1, <2>2 DEF Shares
  <2> QED BY <1>4, <1>6, <2>2, <2>3
<1> DEFINE pos == Position(h)
<1>13. pos.rtn = rtn /\ pos.dbit = dbit /\ pos.his = g.addr
  BY <1>1
<1> HIDE DEF pos
<1>14. /\ pos.rtn \in Nodes /\ pos.dbit \in 0 .. len
       /\ Shares(pos.rtn, addr, pos.dbit)
       /\ node[pos.rtn].parent = NoNode \/ Len(node[pos.rtn].parent) < pos.dbit
       /\ \A i \in 1 .. Len(pos.rtn) : pos.his[i] = pos.rtn[i]
       /\ \A m \in Nodes, d \in 0 .. len : Shares(m, addr, d) => d <= pos.dbit
  <2>1. \A m \in Nodes, d \in 0 .. len : Shares(m, addr, d) => d <= dbit
    BY <1>12
  <2> QED BY <1>7, <1>8, <1>10, <1>11, <1>13, <2>1
<1> QED BY <1>14 DEF pos, addr, len
----------------------------------------------------------------------------
(* What an insertion and a removal leave.                                  *)

FullAt(t, n)  == t[n].rth = NoHead => \A b \in Bit : SideIn(t, n, b) # NoNode
FullIn(t)     == \A n \in DOMAIN t : FullAt(t, n)
\* A node is as new as those under it.
OlderAbove(t) == \A m, n \in DOMAIN t : IsPrefix(m, n) => t[n].version <= t[m].version

Sound(t, r) == Typed(t) /\ Linked(t, r) /\ FullIn(t) /\ OlderAbove(t)

LEMMA LinksKept ==
  ASSUME NEW t, NEW r, Linked(t, r), NEW u, DOMAIN u = DOMAIN t,
         \A m \in DOMAIN t : u[m].left = t[m].left /\ u[m].right = t[m].right /\ u[m].parent = t[m].parent
  PROVE  Linked(u, r) /\ \A m \in DOMAIN t, b \in Bit : SideIn(u, m, b) = SideIn(t, m, b)
<1>1. \A m \in DOMAIN t, b \in Bit : SideIn(u, m, b) = SideIn(t, m, b)
  BY DEF SideIn
<1>2. \A m \in DOMAIN t : ParentIs(u, m, u[m].parent)
  BY DEF Linked, ParentIs
<1>3. \A m \in DOMAIN t : \A b \in Bit : SideIs(u, m, b, SideIn(u, m, b))
  BY <1>1 DEF Linked, SideIs
<1>4. RootIs(u, r) /\ DOMAIN u \subseteq Node
  BY DEF Linked, RootIs
<1> QED BY <1>1, <1>2, <1>3, <1>4 DEF Linked

\* The nodes that were there before an insertion.
LEMMA JoinedBefore ==
  ASSUME NEW t, NEW r, NEW t2, NEW r2, NEW n, NEW p, NEW c, NEW b, Joined(t, r, t2, r2, n, p, c, b), Linked(t, r),
         Typed(t2), \A m \in DOMAIN t : SameBody(t, t2, m), Typed(t)
  PROVE  /\ \A m \in DOMAIN t : FullAt(t, m) => FullAt(t2, m)
         /\ c # NoNode => SideIn(t2, n, b) # NoNode
         /\ OlderAbove(t) /\ (IF c = NoNode THEN t2[n].version = 0 ELSE t2[n].version = t[c].version) => OlderAbove(t2)
<1> DEFINE D == DOMAIN t
<1>0. n \in Node /\ n \notin D /\ DOMAIN t2 = D \cup {n} /\ D \subseteq Node /\ NoNode \notin Node /\ b \in Bit /\ n # NoNode
  BY RadixAssumption DEF Joined, Linked
<1>1. ASSUME NEW m \in D, FullAt(t, m) PROVE FullAt(t2, m)
  <2>1. \A d \in Bit : SideIn(t, m, d) # NoNode => SideIn(t2, m, d) # NoNode
    BY <1>0 DEF Joined
  <2> QED BY <1>1, <2>1 DEF FullAt, SameBody
<1>2. c # NoNode => SideIn(t2, n, b) # NoNode
  BY DEF Joined
<1>3. ASSUME OlderAbove(t), IF c = NoNode THEN t2[n].version = 0 ELSE t2[n].version = t[c].version PROVE OlderAbove(t2)
  <2>0. \A m \in DOMAIN t2 : t2[m].version \in Nat
    BY RadixAssumption DEF Typed, RtNode
  <2>c. c # NoNode => c \in D /\ IsPrefix(n, c)
    BY <1>0, Sides DEF Joined
  <2>1. ASSUME NEW m \in D, NEW k \in D, IsPrefix(m, k) PROVE t2[k].version <= t2[m].version
    BY <1>3, <2>1 DEF OlderAbove, SameBody
  <2>2. ASSUME NEW m \in D, IsPrefix(m, n) PROVE t2[n].version <= t2[m].version
    <3>1. CASE c = NoNode
      BY <1>0, <1>3, <2>0, <3>1
    <3>2. CASE c # NoNode
      <4>1. IsPrefix(m, c)
        BY <1>0, <2>2, <2>c, <3>2, Prefixes
      <4> QED BY <1>3, <2>c, <3>2, <4>1 DEF OlderAbove, SameBody
    <3> QED BY <3>1, <3>2
  <2>3. ASSUME NEW m \in D, IsPrefix(n, m) PROVE t2[m].version <= t2[n].version
    <3>1. c # NoNode /\ IsPrefix(c, m)
      BY <1>0, <2>3, Gap
    <3> QED BY <1>3, <2>c, <3>1 DEF OlderAbove, SameBody
  <2>4. t2[n].version <= t2[n].version
    BY <1>0, <2>0
  <2> QED BY <1>0, <2>1, <2>2, <2>3, <2>4 DEF OlderAbove
<1> QED BY <1>1, <1>2, <1>3

LEMMA PromoteIs ==
  ASSUME NEW t, NEW r, Typed(t), Linked(t, r), NEW n \in DOMAIN t, NEW b \in Bit,
         SideIn(t, n, b) # NoNode, \A e \in Bit : e # b => SideIn(t, n, e) = NoNode
  PROVE  LET after == Promote(t, r, n) IN
         /\ DOMAIN after.node = DOMAIN t \ {n}
         /\ Typed(after.node) /\ Linked(after.node, after.root)
         /\ \A m \in DOMAIN after.node : /\ SameBody(t, after.node, m)
                                         /\ FullAt(t, m) => FullAt(after.node, m)
         /\ after.rtn \in DOMAIN after.node \cup {NoNode}
         /\ after.dir \in {"right", "down"}
<1> DEFINE prev  == t[n].parent
           child == IF t[n].left # NoNode THEN t[n].left ELSE t[n].right
           u     == [t EXCEPT ![child].parent = prev]
           t2    == Without(Relink(u, prev, n, child), n)
           r2    == IF prev = NoNode THEN child ELSE r
           go    == IF t[n].left # NoNode THEN prev ELSE child
           dir   == IF t[n].left # NoNode THEN "right" ELSE "down"
           after == Promote(t, r, n)
<1>1. after.node = t2 /\ after.root = r2 /\ after.rtn = go /\ after.dir = dir
  BY DEF Promote
<1>0. DOMAIN t \subseteq Node /\ NoNode \notin Node
  BY RadixAssumption DEF Typed
<1>2. child = SideIn(t, n, b)
  <2>1. 0 \in Bit /\ 1 \in Bit /\ 0 # 1 /\ (b = 0 \/ b = 1)
    BY DEF Bit
  <2> QED BY <2>1 DEF SideIn
<1>3. child # NoNode /\ child \in DOMAIN t /\ child # n
  BY <1>2, Kin, Sides
<1>4. prev = NoNode \/ (prev \in DOMAIN t /\ prev # n)
  BY Kin
<1>5. DOMAIN u = DOMAIN t /\ \A m \in DOMAIN t : u[m] = IF m = child THEN [t[m] EXCEPT !.parent = prev] ELSE t[m]
  BY <1>3
<1> HIDE DEF u
<1>6. ASSUME NEW m \in DOMAIN t
      PROVE  /\ u[m] \in RtNode /\ u[m].left = t[m].left /\ u[m].right = t[m].right /\ SameBody(t, u, m)
             /\ u[m].parent = IF m = child THEN prev ELSE t[m].parent
  <2>1. t[m] \in RtNode
    BY DEF Typed
  <2>2. prev \in Node \cup {NoNode}
    BY <1>0, <1>4
  <2> HIDE DEF prev, child
  <2> QED BY <1>5, <2>1, <2>2 DEF RtNode, SameBody
<1>7. Typed(u)
  BY <1>0, <1>5, <1>6 DEF Typed
<1> HIDE DEF child
<1>8. /\ DOMAIN t2 = DOMAIN t \ {n}
      /\ Typed(t2)
      /\ \A m \in DOMAIN t2 : SameBody(t, t2, m)
      /\ Joined(t2, r2, t, r, n, prev, child, b)
      /\ Linked(t2, r2)
  <2>1. t2 = Without(Relink(u, t[n].parent, n, SideIn(t, n, b)), n)
    BY <1>2
  <2>2. r2 = IF t[n].parent = NoNode THEN SideIn(t, n, b) ELSE r
    BY <1>2
  <2>3. \A m \in DOMAIN t : u[m].parent = IF m = SideIn(t, n, b) THEN t[n].parent ELSE t[m].parent
    BY <1>2, <1>6
  <2> HIDE DEF t2, r2
  <2>4. ReplacedInto(t, r, n, b, u, t2, r2)
    BY <1>5, <1>6, <1>7, <2>1, <2>2, <2>3 DEF ReplacedInto
  <2>5. /\ DOMAIN t2 = DOMAIN t \ {n}
        /\ Typed(t2)
        /\ \A m \in DOMAIN t2 : SameBody(t, t2, m)
        /\ Joined(t2, r2, t, r, n, t[n].parent, SideIn(t, n, b), b)
        /\ Linked(t2, r2)
    BY <2>4, Replaced
  <2> QED BY <1>2, <2>5
<1> HIDE DEF t2, r2, prev
<1>9. ASSUME NEW m \in DOMAIN t2, FullAt(t, m) PROVE FullAt(t2, m)
  <2>1. \A d \in Bit : SideIn(t, m, d) # NoNode => SideIn(t2, m, d) # NoNode
    BY <1>3, <1>8, <1>9 DEF Joined
  <2> QED BY <1>8, <1>9, <2>1 DEF FullAt, SameBody
<1>10. go \in DOMAIN t2 \cup {NoNode} /\ dir \in {"right", "down"}
  BY <1>3, <1>4, <1>8
<1> HIDE DEF go, dir, after
<1>11. /\ DOMAIN after.node = DOMAIN t \ {n}
       /\ Typed(after.node) /\ Linked(after.node, after.root)
       /\ \A m \in DOMAIN after.node : /\ SameBody(t, after.node, m)
                                       /\ FullAt(t, m) => FullAt(after.node, m)
       /\ after.rtn \in DOMAIN after.node \cup {NoNode}
       /\ after.dir \in {"right", "down"}
  BY <1>1, <1>8, <1>9, <1>10
<1> QED BY <1>11 DEF after

LEMMA LeafCut ==
  ASSUME NEW t, NEW r, Typed(t), Linked(t, r), NEW n \in DOMAIN t, \A b \in Bit : SideIn(t, n, b) = NoNode,
         NEW after, after = Without(Relink(t, t[n].parent, n, NoNode), n)
  PROVE  /\ DOMAIN after = DOMAIN t \ {n}
         /\ Typed(after) /\ Linked(after, IF t[n].parent = NoNode THEN NoNode ELSE r)
         /\ \A m \in DOMAIN after : /\ SameBody(t, after, m) /\ after[m].parent = t[m].parent
                                    /\ m # t[n].parent /\ FullAt(t, m) => FullAt(after, m)
         /\ t[n].parent # NoNode => t[n].parent \in DOMAIN after
         /\ t[n].parent # NoNode => \A d \in Bit :
              SideIn(after, t[n].parent, d) = IF On(n, t[n].parent, d) THEN NoNode ELSE SideIn(t, t[n].parent, d)
<1> DEFINE p  == t[n].parent
           r2 == IF p = NoNode THEN NoNode ELSE r
<1>0. NoNode \notin DOMAIN t
  BY RadixAssumption DEF Typed
<1>b. PICK b \in Bit : TRUE
  BY DEF Bit
<1>1. ReplacedInto(t, r, n, b, t, after, r2)
  BY <1>0 DEF ReplacedInto, SameBody
<1> HIDE DEF r2
<1>2. SideIn(t, n, b) = NoNode
  BY <1>0
<1>3. /\ DOMAIN after = DOMAIN t \ {n}
      /\ Typed(after)
      /\ \A m \in DOMAIN after : SameBody(t, after, m)
      /\ Joined(after, r2, t, r, n, t[n].parent, SideIn(t, n, b), b)
      /\ Linked(after, r2)
  BY ONLY Typed(t), Linked(t, r), <1>1, Replaced
<1>4. Joined(after, r2, t, r, n, p, NoNode, b)
  BY <1>2, <1>3
<1> HIDE DEF p
<1>5. ASSUME NEW m \in DOMAIN after
      PROVE  /\ after[m].parent = t[m].parent
             /\ \A d \in Bit : SideIn(after, m, d) = IF m = p /\ On(n, m, d) THEN NoNode ELSE SideIn(t, m, d)
  BY <1>0, <1>3, <1>4 DEF Joined
<1>6. ASSUME NEW m \in DOMAIN after, m # p, FullAt(t, m) PROVE FullAt(after, m)
  BY <1>3, <1>5, <1>6 DEF FullAt, SameBody
<1>7. p # NoNode => p \in DOMAIN after
  BY <1>4 DEF Joined
<1> QED BY <1>3, <1>5, <1>6, <1>7 DEF p, r2

\* The tree after the removal of n is sound, and has lost nothing but n, or
\* its head, and a node without a head.
Shrunk(n, after) ==
  /\ Typed(after.node) /\ Linked(after.node, after.root) /\ FullIn(after.node)
  /\ DOMAIN after.node \subseteq Nodes
  /\ \A m \in DOMAIN after.node :
       IF m = n THEN /\ after.node[n].rth = NoHead /\ after.node[n].dele = node[n].dele
                     /\ after.node[n].lock = node[n].lock /\ after.node[n].version = node[n].version
                ELSE SameBody(node, after.node, m)
  /\ \A m \in Nodes \ DOMAIN after.node : m = n \/ node[m].rth = NoHead
  /\ after.rtn \in DOMAIN after.node \cup {NoNode}

LEMMA RemovedShrinks ==
  ASSUME Typed(node), Linked(node, root), FullIn(node), NEW n \in Nodes, NEW dir \in {"down", "right", "up"}
  PROVE  Shrunk(n, Removed(n, dir)) /\ Removed(n, dir).dir \in {"down", "right", "up"}
<1> USE DEF Nodes
<1> DEFINE prev == node[n].parent
           t    == Without(Relink(node, prev, n, NoNode), n)
           left == prev # NoNode /\ node[prev].left = n
<1>0. Nodes \subseteq Node /\ NoNode \notin Node /\ NoNode \notin Nodes /\ n # NoNode
  BY RadixAssumption DEF Typed
<1>b. 0 \in Bit /\ 1 \in Bit /\ 0 # 1 /\ \A b \in Bit : b = 0 \/ b = 1
  BY DEF Bit
<1>s. SideIn(node, n, 0) = node[n].left /\ SideIn(node, n, 1) = node[n].right
  BY DEF SideIn
<1>p. prev = NoNode \/ (prev \in Nodes /\ prev # n)
  BY Kin
<1>1. CASE node[n].left # NoNode /\ node[n].right # NoNode
  <2> DEFINE u == [node EXCEPT ![n].rth = NoHead]
  <2>1. Removed(n, dir) = [node |-> u, root |-> root, rtn |-> prev, dir |-> "up"]
    BY <1>1 DEF Removed, KeepNode
  <2>2. DOMAIN u = Nodes /\ \A m \in Nodes : u[m] = IF m = n THEN [node[n] EXCEPT !.rth = NoHead] ELSE node[m]
    OBVIOUS
  <2> HIDE DEF u
  <2>3. ASSUME NEW m \in Nodes
        PROVE  /\ u[m] \in RtNode
               /\ u[m].left = node[m].left /\ u[m].right = node[m].right /\ u[m].parent = node[m].parent
               /\ IF m = n THEN /\ u[n].rth = NoHead /\ u[n].dele = node[n].dele
                                /\ u[n].lock = node[n].lock /\ u[n].version = node[n].version
                           ELSE SameBody(node, u, m)
    <3>1. node[m] \in RtNode
      BY DEF Typed
    <3> QED BY <2>2, <3>1 DEF RtNode, SameBody
  <2>4. Typed(u)
    BY <1>0, <2>2, <2>3 DEF Typed
  <2>5. Linked(u, root) /\ \A m \in Nodes, b \in Bit : SideIn(u, m, b) = SideIn(node, m, b)
    BY <2>2, <2>3, LinksKept
  <2>6. FullIn(u)
    <3>1. ASSUME NEW m \in Nodes PROVE FullAt(u, m)
      <4>1. CASE m = n
        BY <1>1, <1>b, <1>s, <2>5, <4>1 DEF FullAt
      <4>2. CASE m # n
        BY <2>3, <2>5, <4>2 DEF FullAt, FullIn, SameBody
      <4> QED BY <4>1, <4>2
    <3> QED BY <2>2, <3>1 DEF FullIn
  <2> DEFINE after == Removed(n, dir)
  <2>7. after.node = u /\ after.root = root /\ after.rtn = prev /\ after.dir = "up"
    BY <2>1
  <2> HIDE DEF after, prev
  <2>8. Shrunk(n, after) /\ after.dir \in {"down", "right", "up"}
    BY <1>p, <2>2, <2>3, <2>4, <2>5, <2>6, <2>7 DEF Shrunk
  <2> QED BY <2>8 DEF after
<1>2. CASE node[n].left = NoNode /\ node[n].right = NoNode
  <2>r. Removed(n, dir) = DropLeaf(n, dir)
    BY <1>2 DEF Removed
  <2>1. \A b \in Bit : SideIn(node, n, b) = NoNode
    BY <1>2, <1>b, <1>s
  <2>2. /\ DOMAIN t = Nodes \ {n}
        /\ Typed(t) /\ Linked(t, IF prev = NoNode THEN NoNode ELSE root)
        /\ \A m \in DOMAIN t : /\ SameBody(node, t, m) /\ t[m].parent = node[m].parent
                               /\ m # prev /\ FullAt(node, m) => FullAt(t, m)
        /\ prev # NoNode => prev \in DOMAIN t
        /\ prev # NoNode => \A d \in Bit :
             SideIn(t, prev, d) = IF On(n, prev, d) THEN NoNode ELSE SideIn(node, prev, d)
    <3>1. t = Without(Relink(node, node[n].parent, n, NoNode), n)
      OBVIOUS
    <3> HIDE DEF t
    <3> QED BY <2>1, <3>1, LeafCut
  <2> DEFINE after == Removed(n, dir)
  <2> HIDE DEF t
  <2>3. CASE prev = NoNode
    <3>1. after.node = t /\ after.root = NoNode /\ after.rtn = NoNode /\ after.dir = dir
      BY <2>r, <2>3 DEF DropLeaf, t
    <3>2. FullIn(t)
      BY <2>2, <1>0, <2>3 DEF FullIn
    <3> HIDE DEF after, prev
    <3>3. Shrunk(n, after) /\ after.dir \in {"down", "right", "up"}
      BY <2>2, <2>3, <3>1, <3>2 DEF Shrunk
    <3> QED BY <3>3 DEF after
  <2>4. CASE prev # NoNode /\ node[prev].rth # NoHead
    <3>1. after.node = t /\ after.root = root /\ after.rtn = prev /\ after.dir = IF left THEN "right" ELSE "up"
      BY <2>r, <2>4 DEF DropLeaf, t
    <3>2. FullIn(t)
      <4>1. FullAt(t, prev)
        BY <2>2, <2>4 DEF FullAt, SameBody
      <4> QED BY <2>2, <4>1 DEF FullIn
    <3>3. after.dir \in {"down", "right", "up"}
      BY <3>1
    <3> HIDE DEF after, prev
    <3>4. Shrunk(n, after)
      BY <2>2, <2>4, <3>1, <3>2 DEF Shrunk
    <3> QED BY <3>3, <3>4 DEF after
  <2>5. CASE prev # NoNode /\ node[prev].rth = NoHead
    <3>1. after = Promote(t, root, prev)
      BY <2>r, <2>5 DEF DropLeaf, t
    <3>2. prev \in Nodes /\ prev # n /\ prev \in DOMAIN t /\ Linked(t, root)
      BY <1>p, <2>2, <2>5
    <3>3. PICK d \in Bit : On(n, prev, d)
      <4>1. IsPrefix(prev, n) /\ prev # n /\ prev \in Node
        BY <1>0, <2>5, <3>2, Kin
      <4> QED BY <1>0, <4>1, Sides
    <3>4. PICK e \in Bit : e # d
      BY <1>b
    <3>5. \A x \in Bit : SideIn(node, prev, x) # NoNode
      BY <2>5, <3>2 DEF FullIn, FullAt
    <3>6. ~On(n, prev, e)
      BY <3>3, <3>4, Sides
    <3>7. SideIn(t, prev, e) # NoNode /\ \A x \in Bit : x # e => SideIn(t, prev, x) = NoNode
      <4>1. \A x \in Bit : x # e => x = d
        BY <1>b, <3>4
      <4> QED BY <2>2, <2>5, <3>3, <3>5, <3>6, <4>1
    <3> HIDE DEF after, prev
    <3>8. /\ DOMAIN after.node = DOMAIN t \ {prev}
          /\ Typed(after.node) /\ Linked(after.node, after.root)
          /\ \A m \in DOMAIN after.node : /\ SameBody(t, after.node, m)
                                          /\ FullAt(t, m) => FullAt(after.node, m)
          /\ after.rtn \in DOMAIN after.node \cup {NoNode}
          /\ after.dir \in {"right", "down"}
      BY <2>2, <3>1, <3>2, <3>4, <3>7, PromoteIs
    <3>9. ASSUME NEW m \in DOMAIN after.node
          PROVE  m \in Nodes /\ m # n /\ SameBody(node, after.node, m) /\ FullAt(after.node, m)
      <4>1. m \in DOMAIN t /\ m # prev /\ m \in Nodes /\ m # n
        BY <2>2, <3>8
      <4>2. FullAt(t, m)
        BY <2>2, <4>1 DEF FullIn
      <4> QED BY <2>2, <3>8, <4>1, <4>2 DEF SameBody
    <3>10. \A m \in Nodes \ DOMAIN after.node : m = n \/ node[m].rth = NoHead
      BY <2>2, <2>5, <3>8
    <3>11. Shrunk(n, after) /\ after.dir \in {"down", "right", "up"}
      BY <3>8, <3>9, <3>10 DEF Shrunk, FullIn
    <3> QED BY <3>11 DEF after
  <2> QED BY <2>3, <2>4, <2>5
<1>3. CASE ~(node[n].left # NoNode /\ node[n].right # NoNode) /\ ~(node[n].left = NoNode /\ node[n].right = NoNode)
  <2>r. Removed(n, dir) = Promote(node, root, n)
    BY <1>3 DEF Removed
  <2>1. PICK b \in Bit : SideIn(node, n, b) # NoNode /\ \A e \in Bit : e # b => SideIn(node, n, e) = NoNode
    BY <1>3, <1>b, <1>s
  <2> DEFINE after == Removed(n, dir)
  <2>2. /\ DOMAIN after.node = DOMAIN node \ {n}
        /\ Typed(after.node) /\ Linked(after.node, after.root)
        /\ \A m \in DOMAIN after.node : /\ SameBody(node, after.node, m)
                                        /\ FullAt(node, m) => FullAt(after.node, m)
        /\ after.rtn \in DOMAIN after.node \cup {NoNode}
        /\ after.dir \in {"right", "down"}
    BY <2>1, <2>r, PromoteIs
  <2> HIDE DEF after
  <2>3. FullIn(after.node)
    BY <2>2 DEF FullIn
  <2>4. Shrunk(n, after) /\ after.dir \in {"down", "right", "up"}
    BY <2>2, <2>3 DEF Shrunk
  <2> QED BY <2>4 DEF after
<1> QED BY <1>1, <1>2, <1>3

\* In u a leaf n has been put under p of t.
LeafUnder(t, p, n, d, u) ==
  /\ p \in DOMAIN t /\ n \in Node \ DOMAIN t /\ d \in Bit
  /\ On(n, p, d) /\ SideIn(t, p, d) = NoNode
  /\ DOMAIN u = DOMAIN t \cup {n}
  /\ u[n] \in RtNode /\ u[n].parent = p /\ u[n].left = NoNode /\ u[n].right = NoNode
  /\ \A m \in DOMAIN t :
       u[m] = IF m = p THEN IF d = 1 THEN [t[p] EXCEPT !.right = n] ELSE [t[p] EXCEPT !.left = n] ELSE t[m]

LEMMA LeafAdded ==
  ASSUME NEW t, NEW r, Typed(t), Linked(t, r), NEW p, NEW n, NEW d, NEW u, LeafUnder(t, p, n, d, u)
  PROVE  /\ Typed(u) /\ Linked(u, r) /\ Joined(t, r, u, r, n, p, NoNode, d)
         /\ \A m \in DOMAIN t : SameBody(t, u, m)
<1> USE DEF LeafUnder
<1>0. DOMAIN t \subseteq Node /\ NoNode \notin Node /\ p # NoNode /\ n # NoNode
  BY RadixAssumption DEF Typed
<1>b. d = 0 \/ d = 1
  BY DEF Bit
<1>1. ASSUME NEW m \in DOMAIN t
      PROVE  /\ u[m] \in RtNode /\ SameBody(t, u, m) /\ u[m].parent = t[m].parent
             /\ u[m].right = IF m = p /\ d = 1 THEN n ELSE t[m].right
             /\ u[m].left = IF m = p /\ d # 1 THEN n ELSE t[m].left
  <2>1. t[m] \in RtNode
    BY DEF Typed
  <2> QED BY <1>0, <1>b, <2>1 DEF RtNode, SameBody
<1>2. Typed(u)
  BY <1>0, <1>1 DEF Typed
<1>3. \A m \in DOMAIN t, e \in Bit : SideIn(u, m, e) = IF m = p /\ e = d THEN n ELSE SideIn(t, m, e)
  BY <1>1, <1>b DEF SideIn, Bit
<1>4. \A e \in Bit : SideIn(u, n, e) = NoNode
  BY DEF SideIn
<1>5. \A e \in Bit : On(n, p, e) <=> e = d
  BY Sides
<1>6. Joined(t, r, u, r, n, p, NoNode, d)
  <2>1. IsPrefix(p, n)
    BY Sides
  <2>2. \A m \in DOMAIN t : m # NoNode
    BY <1>0
  <2>3. \A m \in DOMAIN t, e \in Bit :
          IF m = p /\ On(n, m, e) THEN SideIn(t, m, e) = NoNode /\ SideIn(u, m, e) = n
                                  ELSE SideIn(u, m, e) = SideIn(t, m, e)
    BY <1>3, <1>5
  <2> QED BY <1>0, <1>1, <1>4, <2>1, <2>2, <2>3 DEF Joined
<1> QED BY <1>1, <1>2, <1>6, Added

\* The tree after the insertion of h is sound, and has the node for h, and
\* perhaps one without a head, in addition.
Grown(h, t, r) ==
  /\ Sound(t, r)
  /\ Nodes \subseteq DOMAIN t
  /\ \A m \in Nodes : SameBody(node, t, m)
  /\ KeyOf(h) \in DOMAIN t \ Nodes /\ t[KeyOf(h)].rth = h
  /\ \A m \in DOMAIN t \ Nodes :
       /\ t[m].lock = 0 /\ t[m].dele = FALSE
       /\ m # KeyOf(h) => t[m].rth = NoHead
       /\ t[m].version = 0 \/ \E k \in Nodes : t[m].version = node[k].version

\* h belongs below rtn.
LEMMA WhereBelow ==
  ASSUME Typed(node), Linked(node, root), Full, HeadsFit, root # NoNode, NEW h \in Rth,
         Len(Position(h).rtn) = Position(h).dbit, Position(h).dbit # h.len
  PROVE  LET rtn == Position(h).rtn
             d   == h.addr[Position(h).dbit + 1]
         IN /\ rtn \in Nodes /\ KeyOf(h) \in Node \ Nodes /\ d \in Bit
            /\ On(KeyOf(h), rtn, d) /\ SideIn(node, rtn, d) = NoNode
<1> USE DEF Nodes
<1> DEFINE pos == Position(h)
           rtn == pos.rtn
           l   == pos.dbit + 1
           n   == KeyOf(h)
<1>0. /\ h.addr \in Address /\ h.len \in Nat /\ Width \in Nat /\ h.len <= Width
      /\ n \in Node /\ Len(n) = h.len /\ (\A i \in 1 .. h.len : n[i] = h.addr[i])
      /\ Nodes \subseteq Node /\ (\A m \in Nodes : Len(m) \in Nat)
  BY KeyIs, RadixAssumption, Prefixes DEF Typed
<1>1. /\ rtn \in Nodes /\ pos.dbit \in 0 .. h.len
      /\ Shares(rtn, h.addr, pos.dbit)
      /\ \A m \in Nodes, d \in 0 .. h.len : Shares(m, h.addr, d) => d <= pos.dbit
  BY PositionIs
<1>2. Len(rtn) = pos.dbit /\ pos.dbit # h.len
  OBVIOUS
<1> HIDE DEF pos
<1>3. l \in 1 .. h.len /\ l \in 1 .. Width /\ l = Len(rtn) + 1 /\ pos.dbit \in Nat
  BY <1>0, <1>1, <1>2
<1>4. h.addr[l] \in Bit
  BY <1>0, <1>3 DEF Address
<1>5. n \notin Nodes
  <2>1. SUFFICES ASSUME n \in Nodes PROVE FALSE
    OBVIOUS
  <2>2. Shares(n, h.addr, h.len) /\ h.len \in 0 .. h.len
    BY <1>0 DEF Shares
  <2>3. h.len <= pos.dbit
    BY <1>1, <2>1, <2>2
  <2> QED BY <1>0, <1>1, <1>2, <2>3
<1>6. On(n, rtn, h.addr[l])
  <2>1. \A i \in 1 .. Len(rtn) : rtn[i] = n[i]
    BY <1>0, <1>1, <1>2, <1>3 DEF Shares
  <2>2. Len(rtn) <= Len(n) /\ rtn # n
    BY <1>0, <1>1, <1>2, <1>3, <1>5
  <2>3. n[Len(rtn) + 1] = h.addr[l]
    BY <1>0, <1>3
  <2> QED BY <2>1, <2>2, <2>3 DEF On, IsPrefix
<1>7. SideIn(node, rtn, h.addr[l]) = NoNode
  <2> DEFINE s == SideIn(node, rtn, h.addr[l])
  <2>1. SUFFICES ASSUME s # NoNode PROVE FALSE
    OBVIOUS
  <2>2. s \in Nodes /\ On(s, rtn, h.addr[l])
    BY <1>1, <1>4, <2>1, Kin
  <2> HIDE DEF s
  <2>3. /\ IsPrefix(rtn, s) /\ s # rtn /\ s[l] = h.addr[l] /\ Len(s) \in Nat /\ Len(rtn) < Len(s)
        /\ \A i \in 1 .. Len(rtn) : rtn[i] = s[i]
    BY <1>0, <1>1, <1>3, <2>2, Prefixes DEF On, IsPrefix
  <2>4. ASSUME NEW i \in 1 .. l PROVE s[i] = h.addr[i]
    <3>1. i = l \/ i \in 1 .. Len(rtn)
      BY <1>3
    <3> QED BY <1>1, <1>2, <2>3, <3>1 DEF Shares
  <2>5. l <= Len(s) /\ l \in 0 .. h.len
    BY <1>2, <1>3, <2>3
  <2>6. Shares(s, h.addr, l)
    BY <2>4, <2>5 DEF Shares
  <2>7. l <= pos.dbit
    BY <1>1, <2>2, <2>5, <2>6
  <2> QED BY <1>3, <2>7
<1> QED BY <1>0, <1>1, <1>4, <1>5, <1>6, <1>7 DEF pos

\* rtn belongs below the first dbit bits of h, which are no node.
LEMMA WhereAbove ==
  ASSUME Typed(node), Linked(node, root), Full, HeadsFit, root # NoNode, NEW h \in Rth,
         Len(Position(h).rtn) # Position(h).dbit
  PROVE  LET rtn  == Position(h).rtn
             l    == Position(h).dbit + 1
             glue == SubSeq(h.addr, 1, Position(h).dbit)
         IN /\ rtn \in Nodes /\ glue \in Node \ Nodes
            /\ node[rtn].parent # NoNode => IsPrefix(node[rtn].parent, glue)
            /\ rtn[l] \in Bit /\ On(rtn, glue, rtn[l]) /\ Position(h).his[l] = rtn[l]
            /\ Position(h).dbit = h.len => glue = KeyOf(h)
            /\ Position(h).dbit # h.len =>
                 /\ KeyOf(h) \in Node \ Nodes /\ KeyOf(h) # glue
                 /\ h.addr[l] \in Bit /\ h.addr[l] # rtn[l] /\ On(KeyOf(h), glue, h.addr[l])
<1> USE DEF Nodes
<1> DEFINE pos == Position(h)
           rtn == pos.rtn
           l   == pos.dbit + 1
           n   == KeyOf(h)
           glue == SubSeq(h.addr, 1, pos.dbit)
           p   == node[rtn].parent
<1>0. /\ h.addr \in Address /\ h.len \in Nat /\ Width \in Nat /\ h.len <= Width
      /\ n \in Node /\ Len(n) = h.len /\ (\A i \in 1 .. h.len : n[i] = h.addr[i])
      /\ Nodes \subseteq Node /\ (\A m \in Nodes : Len(m) \in Nat /\ Len(m) <= Width) /\ NoNode \notin Node
  BY KeyIs, RadixAssumption, Prefixes DEF Typed
<1>1. /\ rtn \in Nodes /\ pos.dbit \in 0 .. h.len
      /\ Shares(rtn, h.addr, pos.dbit)
      /\ p = NoNode \/ Len(p) < pos.dbit
      /\ \A i \in 1 .. Len(rtn) : pos.his[i] = rtn[i]
      /\ \A m \in Nodes, d \in 0 .. h.len : Shares(m, h.addr, d) => d <= pos.dbit
  BY PositionIs
<1>2. Len(rtn) # pos.dbit
  OBVIOUS
<1> HIDE DEF pos
<1>3. pos.dbit \in Nat /\ pos.dbit < Len(rtn) /\ pos.dbit \in 0 .. Width /\ l \in 1 .. Len(rtn)
  BY <1>0, <1>1, <1>2 DEF Shares
<1>4. /\ glue \in Node /\ Len(glue) = pos.dbit
      /\ \A i \in 1 .. pos.dbit : glue[i] = h.addr[i]
  BY <1>0, <1>3, Beginning
<1> HIDE DEF glue
<1>5. On(rtn, glue, rtn[l]) /\ rtn[l] \in Bit
  <2>1. \A i \in 1 .. Len(glue) : glue[i] = rtn[i]
    BY <1>1, <1>4 DEF Shares
  <2>2. rtn \in Seq(Bit)
    BY <1>0, <1>1, NodeIsSeq
  <2>3. rtn[l] \in Bit
    BY <1>3, <2>2, ElementOfSeq
  <2> QED BY <1>3, <1>4, <2>1, <2>3 DEF On, IsPrefix
<1>6. p # NoNode => p \in Nodes /\ IsPrefix(p, rtn) /\ IsPrefix(p, glue)
  <2> SUFFICES ASSUME p # NoNode PROVE p \in Nodes /\ IsPrefix(p, rtn) /\ IsPrefix(p, glue)
    OBVIOUS
  <2>1. p \in Nodes /\ IsPrefix(p, rtn)
    BY <1>1, Kin
  <2>2. Len(p) <= Len(glue) /\ IsPrefix(glue, rtn)
    BY <1>0, <1>1, <1>3, <1>4, <1>5, <2>1, Sides
  <2> HIDE DEF p, rtn
  <2>3. p \in Node /\ rtn \in Node
    BY <1>0, <1>1, <2>1
  <2> QED BY <1>4, <2>1, <2>2, <2>3, Prefixes
<1>7. glue \notin Nodes
  <2>1. SUFFICES ASSUME glue \in Nodes PROVE FALSE
    OBVIOUS
  <2>2. ParentIs(node, rtn, p) /\ IsPrefix(glue, rtn) /\ glue # rtn
    BY <1>1, <1>5, Sides DEF Linked
  <2> HIDE DEF p, rtn
  <2>3. p # NoNode /\ IsPrefix(glue, p) /\ p \in Node
    BY <1>0, <2>1, <2>2 DEF ParentIs
  <2>4. Len(glue) <= Len(p) /\ Len(p) \in Nat
    BY <1>4, <2>3, Prefixes
  <2> QED BY <1>1, <1>3, <1>4, <2>3, <2>4
<1>8. pos.dbit = h.len => glue = n
  BY DEF glue, KeyOf
<1>9. ASSUME pos.dbit # h.len
      PROVE  n \in Node \ Nodes /\ n # glue /\ h.addr[l] \in Bit /\ h.addr[l] # rtn[l] /\ On(n, glue, h.addr[l])
  <2>1. l \in 1 .. h.len /\ l \in 1 .. Width
    BY <1>0, <1>1, <1>3, <1>9
  <2>2. h.addr[l] \in Bit
    BY <1>0, <2>1 DEF Address
  <2>3. n # glue
    BY <1>0, <1>4, <1>9
  <2>4. On(n, glue, h.addr[l])
    <3>1. \A i \in 1 .. Len(glue) : glue[i] = n[i]
      BY <1>0, <1>1, <1>4
    <3>2. Len(glue) <= Len(n) /\ n[Len(glue) + 1] = h.addr[l]
      BY <1>0, <1>1, <1>4, <2>1
    <3> QED BY <2>3, <3>1, <3>2 DEF On, IsPrefix
  <2>5. ASSUME NEW m \in Nodes, Shares(m, h.addr, l) PROVE FALSE
    <3>1. l \in 0 .. h.len
      BY <2>1
    <3>2. l <= pos.dbit
      BY <1>1, <2>5, <3>1
    <3> QED BY <1>3, <3>2
  <2>6. h.addr[l] # rtn[l]
    <3>1. SUFFICES ASSUME h.addr[l] = rtn[l] PROVE FALSE
      OBVIOUS
    <3>2. ASSUME NEW i \in 1 .. l PROVE rtn[i] = h.addr[i]
      <4>1. i = l \/ i \in 1 .. pos.dbit
        BY <1>3
      <4> QED BY <1>1, <3>1, <4>1 DEF Shares
    <3>3. Shares(rtn, h.addr, l)
      BY <1>3, <3>2 DEF Shares
    <3> QED BY <1>1, <2>5, <3>3
  <2>7. n \notin Nodes
    <3>1. Shares(n, h.addr, l)
      BY <1>0, <2>1 DEF Shares
    <3> QED BY <2>5, <3>1
  <2> QED BY <1>0, <2>2, <2>3, <2>4, <2>6, <2>7
<1>10. pos.his[l] = rtn[l]
  BY <1>1, <1>3
<1> QED BY <1>1, <1>4, <1>5, <1>6, <1>7, <1>8, <1>9, <1>10 DEF pos, glue

\* One node of its own is enough.
LEMMA GrownByOne ==
  ASSUME Sound(node, root), NEW h \in Rth, NEW t, NEW r, NEW p, NEW c, NEW b,
         Joined(node, root, t, r, KeyOf(h), p, c, b), Typed(t), \A m \in Nodes : SameBody(node, t, m),
         t[KeyOf(h)].rth = h, t[KeyOf(h)].lock = 0, t[KeyOf(h)].dele = FALSE,
         IF c = NoNode THEN t[KeyOf(h)].version = 0 ELSE t[KeyOf(h)].version = node[c].version
  PROVE  Grown(h, t, r)
<1> USE DEF Nodes, Sound
<1> DEFINE n == KeyOf(h)
<1> HIDE DEF n
<1>0. Joined(node, root, t, r, n, p, c, b) /\ n = KeyOf(h)
  BY DEF n
<1>1. Linked(t, r)
  BY <1>0, Added
<1>2. /\ \A m \in Nodes : FullAt(node, m) => FullAt(t, m)
      /\ OlderAbove(t)
  BY <1>0, JoinedBefore
<1>3. DOMAIN t = Nodes \cup {n} /\ n \notin Nodes /\ (c # NoNode => c \in Nodes)
  BY <1>0 DEF Joined
<1>4. h # NoHead
  BY RadixAssumption
<1>5. FullAt(t, n)
  BY <1>0, <1>4 DEF FullAt
<1>6. FullIn(t)
  BY <1>2, <1>3, <1>5 DEF FullIn
<1> QED BY <1>0, <1>1, <1>2, <1>3, <1>6 DEF Grown

LEMMA GrowsFirst ==
  ASSUME Sound(node, root), NEW h \in Rth, InsertFirst(h)
  PROVE  Grown(h, node', root')
<1> USE DEF Nodes
<1> DEFINE n   == KeyOf(h)
           new == NewNode(h, NoNode, NoNode, NoNode, 0)
           t   == WithNode(node, n, new)
<1>0. n \in Node /\ n # NoNode /\ Nodes = {} /\ root = NoNode
  BY RadixAssumption, KeyIs DEF InsertFirst, Sound, Linked, RootIs
<1>1. node' = t /\ root' = n
  BY DEF InsertFirst
<1>2. DOMAIN t = {n} /\ t[n] = new
  BY <1>0 DEF WithNode
<1> HIDE DEF t
<1>3. /\ new \in RtNode /\ new.parent = NoNode /\ new.left = NoNode /\ new.right = NoNode
      /\ new.rth = h /\ new.lock = 0 /\ new.dele = FALSE /\ new.version = 0
  BY <1>0, RadixAssumption DEF NewNode, RtNode
<1> HIDE DEF new, n
<1>4. Typed(t)
  BY <1>0, <1>2, <1>3 DEF Typed
<1>b. PICK b \in Bit : TRUE
  BY DEF Bit
<1>5. Joined(node, root, t, n, n, NoNode, NoNode, b)
  BY <1>0, <1>2, <1>3 DEF Joined, SideIn
<1>6. Grown(h, t, n)
  <2>1. n = KeyOf(h)
    BY DEF n
  <2> QED BY <1>0, <1>2, <1>3, <1>4, <1>5, <2>1, GrownByOne
<1> QED BY <1>1, <1>6

LEMMA GrowsBelow ==
  ASSUME Sound(node, root), HeadsFit, root # NoNode, NEW h \in Rth, InsertBelow(h)
  PROVE  Grown(h, node', root')
<1> USE DEF Nodes
<1> DEFINE pos == Position(h)
           rtn == pos.rtn
           d   == h.addr[pos.dbit + 1]
           n   == KeyOf(h)
           new == NewNode(h, rtn, NoNode, NoNode, 0)
           t1  == [node EXCEPT ![rtn] = IF d = 1 THEN [@ EXCEPT !.right = n] ELSE [@ EXCEPT !.left = n]]
           t   == WithNode(t1, n, new)
<1>0. Typed(node) /\ Linked(node, root) /\ Full /\ FullIn(node) /\ OlderAbove(node) /\ Nodes \subseteq Node
  BY DEF Sound, Full, FullIn, FullAt, Typed
<1>1. node' = t /\ root' = root /\ Len(rtn) = pos.dbit /\ pos.dbit # h.len
  BY DEF InsertBelow
<1>2. rtn \in Nodes /\ n \in Node \ Nodes /\ d \in Bit /\ On(n, rtn, d) /\ SideIn(node, rtn, d) = NoNode
  BY <1>0, <1>1, WhereBelow
<1>3. /\ new \in RtNode /\ new.parent = rtn /\ new.left = NoNode /\ new.right = NoNode
      /\ new.rth = h /\ new.lock = 0 /\ new.dele = FALSE /\ new.version = 0
  <2>1. rtn \in Node
    BY <1>0, <1>2
  <2> HIDE DEF rtn
  <2> QED BY <2>1, RadixAssumption DEF NewNode, RtNode
<1> HIDE DEF pos, n, new, d
<1>4. /\ DOMAIN t1 = Nodes
      /\ \A m \in Nodes :
           t1[m] = IF m = rtn THEN IF d = 1 THEN [node[rtn] EXCEPT !.right = n] ELSE [node[rtn] EXCEPT !.left = n]
                              ELSE node[m]
  BY <1>2
<1> HIDE DEF t1
<1>5. /\ DOMAIN t = Nodes \cup {n} /\ t[n] = new
      /\ \A m \in Nodes :
           t[m] = IF m = rtn THEN IF d = 1 THEN [node[rtn] EXCEPT !.right = n] ELSE [node[rtn] EXCEPT !.left = n]
                             ELSE node[m]
  BY <1>2, <1>4 DEF WithNode
<1> HIDE DEF t, rtn
<1>6. /\ Typed(t) /\ Joined(node, root, t, root, n, rtn, NoNode, d)
      /\ \A m \in Nodes : SameBody(node, t, m)
  <2>1. LeafUnder(node, rtn, n, d, t)
    BY <1>2, <1>3, <1>5 DEF LeafUnder
  <2> QED BY <1>0, <2>1, LeafAdded
<1>7. Grown(h, t, root)
  <2>1. n = KeyOf(h)
    BY DEF n
  <2>2. t[n].rth = h /\ t[n].lock = 0 /\ t[n].dele = FALSE /\ t[n].version = 0
    BY <1>3, <1>5
  <2> QED BY ONLY Sound(node, root), h \in Rth, <1>6, <2>1, <2>2, GrownByOne
<1> QED BY <1>1, <1>7

LEMMA GrowsBetween ==
  ASSUME Sound(node, root), HeadsFit, root # NoNode, NEW h \in Rth, InsertBetween(h)
  PROVE  Grown(h, node', root')
<1> USE DEF Nodes
<1> DEFINE pos == Position(h)
           rtn == pos.rtn
           n   == KeyOf(h)
           p   == node[rtn].parent
           b   == rtn[pos.dbit + 1]
           right == pos.his[h.len + 1] = 1
           v   == node[rtn].version
           new == NewNode(h, p, IF right THEN NoNode ELSE rtn, IF right THEN rtn ELSE NoNode, v)
           t   == InPlaceOf(rtn, n, new)
           r   == RootWith(rtn, n)
<1>0. Typed(node) /\ Linked(node, root) /\ Full /\ FullIn(node) /\ OlderAbove(node) /\ Nodes \subseteq Node
  BY DEF Sound, Full, FullIn, FullAt, Typed
<1>1. node' = t /\ root' = r /\ Len(rtn) # pos.dbit /\ pos.dbit = h.len
  BY DEF InsertBetween
<1>2. /\ rtn \in Nodes /\ n \in Node \ Nodes /\ (p # NoNode => IsPrefix(p, n))
      /\ b \in Bit /\ On(rtn, n, b) /\ (right <=> b = 1)
  BY <1>0, <1>1, WhereAbove
<1>3. p \in Node \cup {NoNode} /\ v \in 0 .. MaxVersion /\ rtn \in Node
  BY <1>0, <1>2 DEF Typed, RtNode
<1>4. /\ new \in RtNode /\ new.parent = p /\ new.rth = h /\ new.lock = 0 /\ new.dele = FALSE /\ new.version = v
      /\ new.left = (IF right THEN NoNode ELSE rtn) /\ new.right = (IF right THEN rtn ELSE NoNode)
  <2> HIDE DEF p, v, rtn, right
  <2> QED BY <1>3, RadixAssumption DEF NewNode, RtNode
<1> HIDE DEF new, right, b, pos
<1>5. /\ Typed(t) /\ t[n] = new
      /\ \A m \in Nodes : SameBody(node, t, m)
      /\ Joined(node, root, t, r, n, p, rtn, b)
  <2>1. OnlyChild(new, rtn, b)
    BY <1>2, <1>4 DEF OnlyChild
  <2>2. new \in RtNode /\ new.parent = node[rtn].parent
    BY <1>4
  <2>3. n \in Node \ Nodes /\ b \in Bit /\ On(rtn, n, b) /\ (node[rtn].parent # NoNode => IsPrefix(node[rtn].parent, n))
    BY <1>2
  <2> HIDE DEF rtn, n, p
  <2>4. rtn \in Nodes
    BY <1>2
  <2>5. /\ Typed(InPlaceOf(rtn, n, new)) /\ InPlaceOf(rtn, n, new)[n] = new
        /\ \A m \in Nodes : SameBody(node, InPlaceOf(rtn, n, new), m)
        /\ Joined(node, root, InPlaceOf(rtn, n, new), RootWith(rtn, n), n, node[rtn].parent, rtn, b)
    <3>1. Typed(node) /\ Linked(node, root)
      BY <1>0
    <3> HIDE DEF new, b
    <3> QED BY ONLY <2>1, <2>2, <2>3, <2>4, <3>1, InPlace, ZenonT(40)
  <2> QED BY <2>5 DEF p
<1>6. rtn # NoNode
  BY <1>3, RadixAssumption
<1> HIDE DEF t, r
<1>7. Grown(h, t, r)
  BY <1>4, <1>5, <1>6, GrownByOne
<1> QED BY <1>1, <1>7

LEMMA GrowsSplit ==
  ASSUME Sound(node, root), HeadsFit, root # NoNode, NEW h \in Rth, InsertSplit(h)
  PROVE  Grown(h, node', root')
<1> USE DEF Nodes
<1> DEFINE pos == Position(h)
           rtn == pos.rtn
           n   == KeyOf(h)
           glue == SubSeq(h.addr, 1, pos.dbit)
           p   == node[rtn].parent
           b   == rtn[pos.dbit + 1]
           d   == h.addr[pos.dbit + 1]
           right == d = 1
           v   == node[rtn].version
           g2  == NewNode(NoHead, p, IF right THEN rtn ELSE n, IF right THEN n ELSE rtn, v)
           g1  == NewNode(NoHead, p, IF right THEN rtn ELSE NoNode, IF right THEN NoNode ELSE rtn, v)
           new == NewNode(h, glue, NoNode, NoNode, 0)
           t1  == InPlaceOf(rtn, glue, g1)
           u   == InPlaceOf(rtn, glue, g2)
           t   == WithNode(u, n, new)
           r   == RootWith(rtn, glue)
<1>0. Typed(node) /\ Linked(node, root) /\ Full /\ FullIn(node) /\ OlderAbove(node) /\ Nodes \subseteq Node
  BY DEF Sound, Full, FullIn, FullAt, Typed
<1>1. node' = t /\ root' = r /\ Len(rtn) # pos.dbit /\ pos.dbit # h.len
  BY DEF InsertSplit
<1>2. /\ rtn \in Nodes /\ glue \in Node \ Nodes /\ (p # NoNode => IsPrefix(p, glue))
      /\ b \in Bit /\ On(rtn, glue, b)
      /\ n \in Node \ Nodes /\ n # glue /\ d \in Bit /\ d # b /\ On(n, glue, d)
  BY <1>0, <1>1, WhereAbove
<1>3. p \in Node \cup {NoNode} /\ v \in 0 .. MaxVersion /\ rtn \in Node /\ 0 \in 0 .. MaxVersion /\ h # NoHead
  BY <1>0, <1>2, RadixAssumption DEF Typed, RtNode
<1>r. right <=> b # 1
  BY <1>2 DEF Bit
<1> HIDE DEF pos, p, v, n, glue
<1>4. /\ g1 \in RtNode /\ g1.parent = p /\ g1.rth = NoHead /\ g1.lock = 0 /\ g1.dele = FALSE /\ g1.version = v
      /\ g1.left = (IF right THEN rtn ELSE NoNode) /\ g1.right = (IF right THEN NoNode ELSE rtn)
  <2> HIDE DEF rtn, right
  <2> QED BY <1>3, RadixAssumption DEF NewNode, RtNode
<1>5. /\ g2 \in RtNode /\ g2.parent = p
      /\ g2 = IF d = 1 THEN [g1 EXCEPT !.right = n] ELSE [g1 EXCEPT !.left = n]
  <2>1. g2 \in RtNode /\ g2.parent = p
    <3> HIDE DEF rtn, right
    <3> QED BY <1>2, <1>3, RadixAssumption DEF NewNode, RtNode
  <2> QED BY <2>1 DEF NewNode
<1>6. /\ new \in RtNode /\ new.parent = glue /\ new.left = NoNode /\ new.right = NoNode
      /\ new.rth = h /\ new.lock = 0 /\ new.dele = FALSE /\ new.version = 0
  BY <1>2, <1>3, RadixAssumption DEF NewNode, RtNode
<1> HIDE DEF g1, g2, new
<1>7. /\ Typed(t1) /\ DOMAIN t1 = Nodes \cup {glue} /\ t1[glue] = g1
      /\ \A m \in Nodes : SameBody(node, t1, m)
      /\ Joined(node, root, t1, r, glue, p, rtn, b)
  <2>1. OnlyChild(g1, rtn, b)
    BY <1>4, <1>r DEF OnlyChild
  <2>2. g1 \in RtNode /\ g1.parent = node[rtn].parent
    BY <1>4 DEF p
  <2>3. /\ glue \in Node \ Nodes /\ b \in Bit /\ On(rtn, glue, b)
        /\ node[rtn].parent # NoNode => IsPrefix(node[rtn].parent, glue)
    BY <1>2 DEF p
  <2> HIDE DEF b, d, rtn, glue, p
  <2>4. rtn \in Nodes
    BY <1>2
  <2>5. /\ Typed(InPlaceOf(rtn, glue, g1)) /\ InPlaceOf(rtn, glue, g1)[glue] = g1
        /\ DOMAIN InPlaceOf(rtn, glue, g1) = Nodes \cup {glue}
        /\ \A m \in Nodes : SameBody(node, InPlaceOf(rtn, glue, g1), m)
        /\ Joined(node, root, InPlaceOf(rtn, glue, g1), RootWith(rtn, glue), glue, node[rtn].parent, rtn, b)
    <3>1. Typed(node) /\ Linked(node, root)
      BY <1>0
    <3> QED BY ONLY <2>1, <2>2, <2>3, <2>4, <3>1, InPlace
  <2> QED BY <2>5 DEF p
<1>8. DOMAIN u = Nodes \cup {glue} /\ u[glue] = g2 /\ \A m \in Nodes : u[m] = t1[m]
  <2> DEFINE t0 == Relink([node EXCEPT ![rtn].parent = glue], node[rtn].parent, rtn, glue)
  <2>2. t1 = WithNode(t0, glue, g1) /\ u = WithNode(t0, glue, g2)
    BY DEF InPlaceOf
  <2> HIDE DEF t0, t1, u
  <2>3. DOMAIN u = DOMAIN t0 \cup {glue} /\ DOMAIN t1 = DOMAIN t0 \cup {glue} /\ u[glue] = g2
    BY <2>2 DEF WithNode
  <2>4. \A m \in DOMAIN t0 : m # glue => u[m] = t0[m] /\ t1[m] = t0[m]
    BY <2>2 DEF WithNode
  <2>5. DOMAIN u = Nodes \cup {glue} /\ \A m \in Nodes : m # glue /\ m \in DOMAIN t0
    BY <1>2, <1>7, <2>3
  <2> QED BY <2>3, <2>4, <2>5
<1>9. /\ DOMAIN t = DOMAIN t1 \cup {n} /\ t[n] = new /\ n \in Node \ DOMAIN t1 /\ glue \in DOMAIN t1
      /\ \A m \in DOMAIN t1 :
           t[m] = IF m = glue THEN IF d = 1 THEN [t1[glue] EXCEPT !.right = n] ELSE [t1[glue] EXCEPT !.left = n]
                              ELSE t1[m]
  <2> HIDE DEF t1, u
  <2> QED BY <1>2, <1>5, <1>7, <1>8 DEF WithNode
<1> HIDE DEF t1, t, r, d, b, u
<1>10. Linked(t1, r)
  BY <1>0, <1>7, Added
<1>11. SideIn(t1, glue, d) = NoNode /\ SideIn(t1, glue, b) = rtn
  BY <1>2, <1>7 DEF Joined
<1>12. /\ Typed(t) /\ Linked(t, r) /\ Joined(t1, r, t, r, n, glue, NoNode, d)
       /\ \A m \in DOMAIN t1 : SameBody(t1, t, m)
  <2>1. LeafUnder(t1, glue, n, d, t)
    BY <1>2, <1>6, <1>7, <1>9, <1>11 DEF LeafUnder
  <2> QED BY <1>7, <1>10, <2>1, LeafAdded
<1>13. rtn # NoNode /\ n # NoNode /\ glue # NoNode
  BY <1>2, <1>3, RadixAssumption
<1>14. /\ \A m \in Nodes : FullAt(node, m) => FullAt(t1, m)
       /\ OlderAbove(t1)
  BY <1>0, <1>4, <1>7, <1>13, JoinedBefore DEF v
<1>15. /\ \A m \in DOMAIN t1 : FullAt(t1, m) => FullAt(t, m)
       /\ OlderAbove(t)
  BY <1>6, <1>7, <1>9, <1>10, <1>12, <1>14, JoinedBefore
<1>16. FullAt(t, glue)
  <2>1. SideIn(t, glue, d) = n
    BY <1>2, <1>9, <1>12 DEF Joined
  <2>2. SideIn(t, glue, b) = rtn
    <3>1. ~On(n, glue, b)
      BY <1>2, Sides
    <3> QED BY <1>2, <1>9, <1>11, <1>12, <3>1 DEF Joined
  <2>3. \A e \in Bit : e = d \/ e = b
    BY <1>2 DEF Bit
  <2> QED BY <1>13, <2>1, <2>2, <2>3 DEF FullAt
<1>17. FullAt(t, n)
  BY <1>3, <1>6, <1>9 DEF FullAt
<1>18. Sound(t, r)
  <2>1. \A m \in DOMAIN t : FullAt(t, m)
    BY <1>0, <1>7, <1>9, <1>14, <1>15, <1>16, <1>17 DEF FullIn
  <2> QED BY <1>12, <1>15, <2>1 DEF Sound, FullIn
<1>19. t[glue].rth = NoHead /\ t[glue].lock = 0 /\ t[glue].dele = FALSE /\ t[glue].version = node[rtn].version
  BY <1>4, <1>7, <1>9, <1>12 DEF SameBody, v
<1>20. \A m \in Nodes : SameBody(node, t, m)
  BY <1>7, <1>12 DEF SameBody
<1>21. Grown(h, t, r)
  <2>1. n = KeyOf(h)
    BY DEF n
  <2> HIDE DEF rtn
  <2>2. Nodes \subseteq DOMAIN t /\ DOMAIN t \ Nodes = {glue, n} /\ n \in DOMAIN t \ Nodes
    BY <1>2, <1>7, <1>9
  <2> QED BY <1>2, <1>6, <1>9, <1>18, <1>19, <1>20, <2>1, <2>2 DEF Grown
<1> QED BY <1>1, <1>21
----------------------------------------------------------------------------
(* The tree and its heads.                                                 *)

\* hver is 0 for a head that is with its user, and no head is newer than its
\* node.
VersionsFit ==
  /\ version \in 0 .. MaxVersion
  /\ hver \in [Rth -> 0 .. version]
  /\ \A n \in Nodes : node[n].version <= version
  /\ \A h \in Rth : IF hnode[h] = NoNode THEN hver[h] = 0 ELSE hver[h] <= node[hnode[h]].version

TreeInv ==
  /\ Sound(node, root)
  /\ hnode \in [Rth -> Node \cup {NoNode}]
  /\ HeadsFit
  /\ VersionsFit

\* A step that removes no node with a lock, and changes no lock.
LocksUntouched ==
  /\ \A m \in Nodes : node[m].lock # 0 => m \in Nodes'
  /\ \A m \in Nodes' : IF m \in Nodes
                         THEN /\ node'[m].lock = node[m].lock
                              /\ node[m].lock # 0 /\ node[m].rth # NoHead => node'[m].rth # NoHead
                         ELSE node'[m].lock = 0

LEMMA GrownKeeps ==
  ASSUME TreeInv, NEW h \in Rth, hnode[h] = NoNode, Grown(h, node', root'), Give(h, KeyOf(h))
  PROVE  TreeInv' /\ LocksUntouched
<1> USE DEF Nodes
<1> DEFINE n == KeyOf(h)
<1>1. /\ Sound(node', root') /\ Nodes \subseteq Nodes' /\ (\A m \in Nodes : SameBody(node, node', m))
      /\ n \in Nodes' \ Nodes /\ node'[n].rth = h
      /\ \A m \in Nodes' \ Nodes :
           /\ node'[m].lock = 0 /\ (m # n => node'[m].rth = NoHead)
           /\ node'[m].version = 0 \/ \E k \in Nodes : node'[m].version = node[k].version
  BY DEF Grown
<1>2. hnode' = [hnode EXCEPT ![h] = n] /\ UNCHANGED <<hver, version, walks>>
  BY DEF Give
<1>3. n \in Node
  BY KeyIs
<1>4. NoNode \notin Nodes /\ NoNode \notin Nodes' /\ NoHead \notin Rth /\ n # NoNode
  BY <1>1, <1>3, RadixAssumption DEF TreeInv, Sound, Typed
<1>5. \A m \in Nodes' : node'[m].version \in Nat /\ node'[m].rth \in Rth \cup {NoHead}
  BY <1>1, RadixAssumption DEF Sound, Typed, RtNode
<1> HIDE DEF n
<1>6. hnode' \in [Rth -> Node \cup {NoNode}] /\ \A g \in Rth : hnode'[g] = IF g = h THEN n ELSE hnode[g]
  BY <1>2, <1>3 DEF TreeInv
<1>7. HeadsFit'
  <2>1. ASSUME NEW g \in Rth, hnode'[g] # NoNode PROVE hnode'[g] \in Nodes' /\ node'[hnode'[g]].rth = g
    <3>1. CASE g = h
      BY <1>1, <1>6, <3>1
    <3>2. CASE g # h
      BY <1>1, <1>6, <2>1, <3>2 DEF TreeInv, HeadsFit, SameBody
    <3> QED BY <3>1, <3>2
  <2>2. ASSUME NEW m \in Nodes', node'[m].rth # NoHead PROVE m = KeyOf(node'[m].rth) /\ hnode'[node'[m].rth] = m
    <3>1. CASE m \in Nodes
      <4> DEFINE g == node[m].rth
      <4>1. node'[m].rth = g /\ g # NoHead /\ g \in Rth
        BY <1>1, <1>5, <2>2, <3>1 DEF SameBody
      <4>2. m = KeyOf(g) /\ hnode[g] = m
        BY <3>1, <4>1 DEF TreeInv, HeadsFit
      <4>3. g # h
        BY <1>4, <3>1, <4>2
      <4> HIDE DEF g
      <4> QED BY <1>6, <4>1, <4>2, <4>3
    <3>2. CASE m \notin Nodes
      <4>1. m = n /\ node'[m].rth = h
        BY <1>1, <2>2, <3>2
      <4> QED BY <1>6, <4>1 DEF n
    <3> QED BY <3>1, <3>2
  <2> QED BY <2>1, <2>2 DEF HeadsFit
<1>8. VersionsFit'
  <2>1. version' = version /\ hver' = hver /\ version \in Nat
    BY <1>2, RadixAssumption DEF TreeInv, VersionsFit
  <2>2. ASSUME NEW m \in Nodes' PROVE node'[m].version <= version
    <3>1. CASE m \in Nodes
      BY <1>1, <3>1 DEF TreeInv, VersionsFit, SameBody
    <3>2. CASE m \notin Nodes
      BY <1>1, <2>1, <3>2 DEF TreeInv, VersionsFit
    <3> QED BY <3>1, <3>2
  <2>3. ASSUME NEW g \in Rth PROVE IF hnode'[g] = NoNode THEN hver[g] = 0 ELSE hver[g] <= node'[hnode'[g]].version
    <3>1. CASE g = h
      <4>1. hver[g] = 0 /\ hnode'[g] = n
        BY <1>6, <3>1 DEF TreeInv, VersionsFit
      <4> QED BY <1>1, <1>4, <1>5, <4>1
    <3>2. CASE g # h
      <4>1. hnode'[g] = hnode[g]
        BY <1>6, <3>2
      <4>2. hnode[g] # NoNode => hnode[g] \in Nodes
        BY DEF TreeInv, HeadsFit
      <4> QED BY <1>1, <4>1, <4>2 DEF TreeInv, VersionsFit, SameBody
    <3> QED BY <3>1, <3>2
  <2> QED BY <2>1, <2>2, <2>3 DEF TreeInv, VersionsFit
<1>9. LocksUntouched
  BY <1>1 DEF LocksUntouched, SameBody
<1> QED BY <1>1, <1>6, <1>7, <1>8, <1>9 DEF TreeInv

LEMMA InsertAtNodeKeeps ==
  ASSUME TreeInv, root # NoNode, NEW h \in Rth, hnode[h] = NoNode, InsertAtNode(h)
  PROVE  TreeInv' /\ LocksUntouched
<1> USE DEF Nodes
<1> DEFINE rtn == Position(h).rtn
           old == node[rtn].rth
<1>0. Typed(node) /\ Linked(node, root) /\ Full /\ FullIn(node) /\ OlderAbove(node) /\ HeadsFit
  BY DEF TreeInv, Sound, Full, FullIn, FullAt
<1>1. rtn \in Nodes /\ Shares(rtn, h.addr, Position(h).dbit) /\ Len(rtn) = Position(h).dbit /\ Position(h).dbit = h.len
  BY <1>0, PositionIs DEF InsertAtNode
<1>2. /\ node' = [node EXCEPT ![rtn].rth = h, ![rtn].dele = FALSE]
      /\ hnode' = [g \in Rth |-> IF g = h THEN rtn ELSE IF g = old THEN NoNode ELSE hnode[g]]
      /\ hver' = [g \in Rth |-> IF g = old THEN 0 ELSE hver[g]]
      /\ UNCHANGED <<root, version, walks>>
  BY DEF InsertAtNode
<1> HIDE DEF rtn
<1>3. rtn = KeyOf(h)
  <2>1. rtn \in Seq(Bit) /\ KeyOf(h) \in Seq(Bit) /\ Len(KeyOf(h)) = Len(rtn)
        /\ \A i \in 1 .. Len(rtn) : rtn[i] = KeyOf(h)[i]
    BY <1>0, <1>1, KeyIs, NodeIsSeq DEF Typed, Shares
  <2> QED BY <2>1, SeqEqual
<1>4. Nodes' = Nodes /\ \A m \in Nodes : node'[m] = IF m = rtn THEN [node[rtn] EXCEPT !.rth = h, !.dele = FALSE] ELSE node[m]
  BY <1>1, <1>2
<1>5. ASSUME NEW m \in Nodes
      PROVE  /\ node'[m] \in RtNode /\ node[m] \in RtNode
             /\ node'[m].left = node[m].left /\ node'[m].right = node[m].right /\ node'[m].parent = node[m].parent
             /\ node'[m].lock = node[m].lock /\ node'[m].version = node[m].version
             /\ node'[m].rth = IF m = rtn THEN h ELSE node[m].rth
  <2>1. node[m] \in RtNode
    BY <1>0 DEF Typed
  <2>2. CASE m = rtn
    <3> DEFINE e == [node[rtn] EXCEPT !.rth = h, !.dele = FALSE]
    <3>1. node[rtn] \in RtNode /\ node'[m] = e
      BY <1>4, <2>1, <2>2
    <3>2. /\ e \in RtNode /\ e.left = node[rtn].left /\ e.right = node[rtn].right /\ e.parent = node[rtn].parent
          /\ e.lock = node[rtn].lock /\ e.version = node[rtn].version /\ e.rth = h
      BY <3>1 DEF RtNode
    <3> HIDE DEF e
    <3> QED BY <2>1, <2>2, <3>1, <3>2
  <2>3. CASE m # rtn
    BY <1>4, <2>1, <2>3
  <2> QED BY <2>2, <2>3
<1>6. Linked(node', root) /\ \A m \in Nodes, b \in Bit : SideIn(node', m, b) = SideIn(node, m, b)
  BY <1>0, <1>4, <1>5, LinksKept
<1>7. h # NoHead /\ NoHead \notin Rth /\ NoNode \notin Nodes
  BY <1>0, RadixAssumption DEF Typed
<1>8. Sound(node', root')
  <2>1. Typed(node')
    BY <1>0, <1>4, <1>5 DEF Typed
  <2>2. FullIn(node')
    BY <1>0, <1>4, <1>5, <1>6, <1>7 DEF FullIn, FullAt
  <2>3. OlderAbove(node')
    BY <1>0, <1>4, <1>5 DEF OlderAbove
  <2> QED BY <1>2, <1>6, <2>1, <2>2, <2>3 DEF Sound
<1>9. \A g \in Rth : hnode[g] = rtn <=> g = old
  <2>1. ASSUME NEW g \in Rth, hnode[g] = rtn PROVE g = old
    BY <1>0, <1>1, <1>7, <2>1 DEF HeadsFit
  <2>2. ASSUME NEW g \in Rth, g = old PROVE hnode[g] = rtn
    BY <1>0, <1>1, <1>7, <2>2 DEF HeadsFit
  <2> QED BY <2>1, <2>2
<1> HIDE DEF old
<1>10. \A g \in Rth : hnode'[g] = IF g = h THEN rtn ELSE IF hnode[g] = rtn THEN NoNode ELSE hnode[g]
  BY <1>2, <1>9
<1>11. hnode' \in [Rth -> Node \cup {NoNode}]
  BY <1>0, <1>1, <1>2 DEF TreeInv, Typed
<1>12. HeadsFit'
  <2>1. ASSUME NEW g \in Rth, hnode'[g] # NoNode PROVE hnode'[g] \in Nodes' /\ node'[hnode'[g]].rth = g
    <3>1. CASE g = h
      BY <1>1, <1>4, <1>5, <1>10, <3>1
    <3>2. CASE g # h
      <4>1. hnode'[g] = hnode[g] /\ hnode[g] # rtn /\ hnode[g] # NoNode
        BY <1>10, <2>1, <3>2
      <4>2. hnode[g] \in Nodes /\ node[hnode[g]].rth = g
        BY <1>0, <4>1 DEF HeadsFit
      <4> QED BY <1>4, <4>1, <4>2
    <3> QED BY <3>1, <3>2
  <2>2. ASSUME NEW m \in Nodes', node'[m].rth # NoHead PROVE m = KeyOf(node'[m].rth) /\ hnode'[node'[m].rth] = m
    <3>0. m \in Nodes
      BY <1>4
    <3>1. CASE m = rtn
      BY <1>3, <1>5, <1>10, <3>0, <3>1
    <3>2. CASE m # rtn
      <4> DEFINE g == node[m].rth
      <4>1. node'[m].rth = g /\ g # NoHead /\ g \in Rth
        BY <1>5, <2>2, <3>0, <3>2 DEF RtNode
      <4>2. m = KeyOf(g) /\ hnode[g] = m
        BY <1>0, <3>0, <4>1 DEF HeadsFit
      <4>3. g # h
        BY <1>7, <3>0, <4>2
      <4> HIDE DEF g
      <4> QED BY <1>10, <3>2, <4>1, <4>2, <4>3
    <3> QED BY <3>1, <3>2
  <2> QED BY <2>1, <2>2 DEF HeadsFit
<1>13. VersionsFit'
  <2>1. version' = version /\ version \in 0 .. MaxVersion /\ MaxVersion \in Nat
    BY <1>2, RadixAssumption DEF TreeInv, VersionsFit
  <2>2. hver' \in [Rth -> 0 .. version']
    BY <1>2, <2>1 DEF TreeInv, VersionsFit
  <2>3. \A m \in Nodes' : node'[m].version <= version'
    BY <1>4, <1>5, <2>1 DEF TreeInv, VersionsFit
  <2>4. ASSUME NEW g \in Rth PROVE IF hnode'[g] = NoNode THEN hver'[g] = 0 ELSE hver'[g] <= node'[hnode'[g]].version
    <3>0. hver'[g] = IF g = old THEN 0 ELSE hver[g]
      BY <1>2
    <3>v. \A m \in Nodes : node[m].version \in Nat
      BY <1>5, <2>1 DEF RtNode
    <3>1. CASE g = h
      <4>1. hver'[g] = 0 /\ hnode'[g] = rtn
        BY <1>10, <3>0, <3>1 DEF TreeInv, VersionsFit
      <4> QED BY <1>1, <1>5, <1>7, <3>v, <4>1
    <3>2. CASE g # h /\ g = old
      <4>1. hver'[g] = 0 /\ hnode'[g] = NoNode
        BY <1>9, <1>10, <3>0, <3>2
      <4> QED BY <4>1
    <3>3. CASE g # h /\ g # old
      <4>1. hnode'[g] = hnode[g] /\ hver'[g] = hver[g]
        BY <1>9, <1>10, <3>0, <3>3
      <4>2. hnode[g] # NoNode => hnode[g] \in Nodes
        BY <1>0 DEF HeadsFit
      <4> QED BY <1>5, <4>1, <4>2 DEF TreeInv, VersionsFit
    <3> QED BY <3>1, <3>2, <3>3
  <2> QED BY <2>1, <2>2, <2>3, <2>4 DEF VersionsFit
<1>14. LocksUntouched
  BY <1>4, <1>5, <1>7 DEF LocksUntouched
<1> QED BY <1>8, <1>11, <1>12, <1>13, <1>14 DEF TreeInv

LEMMA InsertKeeps ==
  ASSUME TreeInv, NEW h \in Rth, Insert(h)
  PROVE  TreeInv' /\ LocksUntouched /\ UNCHANGED walks
<1>0. Sound(node, root) /\ HeadsFit /\ hnode[h] = NoNode
  BY DEF TreeInv, Insert, WithUser
<1>1. CASE InsertFirst(h)
  BY <1>0, <1>1, GrowsFirst, GrownKeeps DEF InsertFirst, Give
<1>2. CASE root # NoNode /\ InsertAtNode(h)
  BY <1>0, <1>2, InsertAtNodeKeeps DEF InsertAtNode
<1>3. CASE root # NoNode /\ InsertBelow(h)
  BY <1>0, <1>3, GrowsBelow, GrownKeeps DEF InsertBelow, Give
<1>4. CASE root # NoNode /\ InsertBetween(h)
  BY <1>0, <1>4, GrowsBetween, GrownKeeps DEF InsertBetween, Give
<1>5. CASE root # NoNode /\ InsertSplit(h)
  BY <1>0, <1>5, GrowsSplit, GrownKeeps DEF InsertSplit, Give
<1> QED BY <1>1, <1>2, <1>3, <1>4, <1>5 DEF Insert

LEMMA RemovalKeeps ==
  ASSUME TreeInv, NEW n \in Nodes, node[n].lock = 0, \A m \in Nodes : node[m].lock # 0 => node[m].rth # NoHead,
         NEW after, Shrunk(n, after), Becomes(n, after)
  PROVE  TreeInv' /\ LocksUntouched /\ after.rtn \in Nodes' \cup {NoNode}
<1> USE DEF Nodes
<1> DEFINE g == node[n].rth
<1>0. Typed(node) /\ HeadsFit /\ OlderAbove(node) /\ NoNode \notin Nodes /\ NoHead \notin Rth
  BY RadixAssumption DEF TreeInv, Sound, Typed
<1>1. /\ node' = after.node /\ root' = after.root /\ UNCHANGED version
      /\ hnode' = [h \in Rth |-> IF h = g THEN NoNode ELSE hnode[h]]
      /\ hver' = [h \in Rth |-> IF h = g THEN 0 ELSE hver[h]]
  BY DEF Becomes
<1>2. /\ Typed(node') /\ Linked(node', root') /\ FullIn(node') /\ Nodes' \subseteq Nodes
      /\ \A m \in Nodes' :
           /\ node'[m].lock = node[m].lock /\ node'[m].version = node[m].version
           /\ node'[m].rth = IF m = n THEN NoHead ELSE node[m].rth
      /\ \A m \in Nodes \ Nodes' : m = n \/ node[m].rth = NoHead
      /\ after.rtn \in Nodes' \cup {NoNode}
  BY <1>1 DEF Shrunk, SameBody
<1>3. OlderAbove(node')
  BY <1>0, <1>2 DEF OlderAbove
<1>4. \A h \in Rth : h = g <=> hnode[h] = n
  <2>1. ASSUME NEW h \in Rth, h = g PROVE hnode[h] = n
    BY <1>0, <2>1 DEF HeadsFit
  <2>2. ASSUME NEW h \in Rth, hnode[h] = n PROVE h = g
    BY <1>0, <2>2 DEF HeadsFit
  <2> QED BY <2>1, <2>2
<1> HIDE DEF g
<1>5. \A h \in Rth : /\ hnode'[h] = IF hnode[h] = n THEN NoNode ELSE hnode[h]
                     /\ hver'[h] = IF hnode[h] = n THEN 0 ELSE hver[h]
  BY <1>1, <1>4
<1>6. hnode' \in [Rth -> Node \cup {NoNode}]
  BY <1>1 DEF TreeInv
<1>7. ASSUME NEW h \in Rth, hnode'[h] # NoNode
      PROVE  hnode'[h] = hnode[h] /\ hnode[h] \in Nodes' /\ hnode[h] # n /\ node'[hnode[h]].rth = h
  <2>1. hnode'[h] = hnode[h] /\ hnode[h] # n /\ hnode[h] # NoNode
    BY <1>5, <1>7
  <2>2. hnode[h] \in Nodes /\ node[hnode[h]].rth = h
    BY <1>0, <2>1 DEF HeadsFit
  <2>3. hnode[h] \in Nodes'
    BY <1>0, <1>2, <2>1, <2>2
  <2> QED BY <1>2, <2>1, <2>2, <2>3
<1>8. ASSUME NEW m \in Nodes', node'[m].rth # NoHead PROVE m = KeyOf(node'[m].rth) /\ hnode'[node'[m].rth] = m
  <2> DEFINE h == node[m].rth
  <2>1. m \in Nodes /\ m # n /\ node'[m].rth = h /\ h # NoHead
    BY <1>2, <1>8
  <2>2. h \in Rth /\ m = KeyOf(h) /\ hnode[h] = m
    BY <1>0, <2>1 DEF HeadsFit, Typed, RtNode
  <2> HIDE DEF h
  <2>3. hnode'[h] = m
    BY <1>5, <2>1, <2>2
  <2> QED BY <2>1, <2>2, <2>3
<1>9. HeadsFit'
  BY <1>7, <1>8 DEF HeadsFit
<1>10. VersionsFit'
  <2>1. version' = version /\ version \in 0 .. MaxVersion /\ MaxVersion \in Nat
    BY <1>1, RadixAssumption DEF TreeInv, VersionsFit
  <2>2. hver' \in [Rth -> 0 .. version']
    BY <1>1, <2>1 DEF TreeInv, VersionsFit
  <2>3. \A m \in Nodes' : node'[m].version <= version'
    BY <1>2, <2>1 DEF TreeInv, VersionsFit
  <2>4. ASSUME NEW h \in Rth PROVE IF hnode'[h] = NoNode THEN hver'[h] = 0 ELSE hver'[h] <= node'[hnode'[h]].version
    <3>1. CASE hnode'[h] # NoNode
      <4>1. hver'[h] = hver[h] /\ hnode'[h] = hnode[h] /\ node'[hnode[h]].version = node[hnode[h]].version
        BY <1>2, <1>5, <1>7, <3>1
      <4> QED BY <3>1, <4>1 DEF TreeInv, VersionsFit
    <3>2. CASE hnode'[h] = NoNode
      <4>1. hnode[h] = n \/ hnode[h] = NoNode
        BY <1>5, <3>2
      <4>2. hver'[h] = 0
        BY <1>5, <4>1 DEF TreeInv, VersionsFit
      <4> QED BY <3>2, <4>2
    <3> QED BY <3>1, <3>2
  <2> QED BY <2>1, <2>2, <2>3, <2>4 DEF VersionsFit
<1>11. LocksUntouched
  <2>1. ASSUME NEW m \in Nodes, node[m].lock # 0 PROVE m \in Nodes' /\ m # n
    BY <1>2, <2>1
  <2>2. \A m \in Nodes' : m \in Nodes /\ node'[m].lock = node[m].lock
    BY <1>2
  <2> QED BY <1>2, <2>1, <2>2 DEF LocksUntouched
<1> QED BY <1>2, <1>3, <1>6, <1>9, <1>10, <1>11 DEF TreeInv, Sound

\* A step that changes no link, head or version.
LEMMA BodiesKeep ==
  ASSUME TreeInv, UNCHANGED <<root, hnode, hver, version>>, Nodes' = Nodes,
         \A m \in Nodes : /\ node'[m] \in RtNode
                          /\ node'[m].left = node[m].left /\ node'[m].right = node[m].right
                          /\ node'[m].parent = node[m].parent /\ node'[m].rth = node[m].rth
                          /\ node'[m].version = node[m].version
  PROVE  TreeInv'
<1> USE DEF Nodes
<1>1. Typed(node') /\ OlderAbove(node')
  BY DEF TreeInv, Sound, Typed, OlderAbove
<1>2. Linked(node', root) /\ \A m \in Nodes, b \in Bit : SideIn(node', m, b) = SideIn(node, m, b)
  BY LinksKept DEF TreeInv, Sound
<1>3. FullIn(node')
  BY <1>2 DEF TreeInv, Sound, FullIn, FullAt
<1>4. HeadsFit'
  <2>1. \A h \in Rth : hnode[h] # NoNode => hnode[h] \in Nodes /\ node[hnode[h]].rth = h
    BY DEF TreeInv, HeadsFit
  <2>2. \A m \in Nodes : node[m].rth # NoHead => m = KeyOf(node[m].rth) /\ hnode[node[m].rth] = m
    BY DEF TreeInv, HeadsFit
  <2>3. \A h \in Rth : hnode'[h] # NoNode => hnode'[h] \in Nodes' /\ node'[hnode'[h]].rth = h
    BY <2>1
  <2>4. \A m \in Nodes' : node'[m].rth # NoHead => m = KeyOf(node'[m].rth) /\ hnode'[node'[m].rth] = m
    BY <2>2
  <2> QED BY <2>3, <2>4 DEF HeadsFit
<1>5. VersionsFit'
  <2>1. \A h \in Rth : hnode[h] # NoNode => hnode[h] \in Nodes
    BY DEF TreeInv, HeadsFit
  <2>2. \A m \in Nodes' : node'[m].version <= version'
    BY DEF TreeInv, VersionsFit
  <2>3. ASSUME NEW h \in Rth PROVE IF hnode'[h] = NoNode THEN hver'[h] = 0 ELSE hver'[h] <= node'[hnode'[h]].version
    BY <2>1 DEF TreeInv, VersionsFit
  <2> QED BY <2>2, <2>3 DEF TreeInv, VersionsFit
<1> QED BY <1>1, <1>2, <1>3, <1>4, <1>5 DEF TreeInv, Sound

\* The nodes UpFrom finds: those above n and n itself.
LEMMA UpFromIs ==
  ASSUME Typed(node), Linked(node, root), NEW n \in Nodes
  PROVE  UpFrom(n) = {m \in Nodes : IsPrefix(m, n)}
<1> USE DEF Nodes
<1> DEFINE Eq(up) == up = [m \in Nodes |-> {m} \cup IF node[m].parent = NoNode THEN {} ELSE up[node[m].parent]]
           f == [m \in Nodes |-> {k \in Nodes : IsPrefix(k, m)}]
<1>0. Nodes \subseteq Node /\ \A m \in Nodes : Len(m) \in Nat /\ IsPrefix(m, m)
  BY Prefixes DEF Typed
<1>1. ASSUME NEW m \in Nodes
      PROVE  f[m] = {m} \cup IF node[m].parent = NoNode THEN {} ELSE f[node[m].parent]
  <2> DEFINE p == node[m].parent
  <2>1. ParentIs(node, m, p)
    BY DEF Linked
  <2> HIDE DEF p
  <2>2. CASE p = NoNode
    BY <1>0, <2>1, <2>2 DEF ParentIs, p
  <2>3. CASE p # NoNode
    <3>1. p \in Nodes /\ IsPrefix(p, m) /\ \A k \in Nodes : IsPrefix(k, m) /\ k # m => IsPrefix(k, p)
      BY <2>1, <2>3 DEF ParentIs
    <3>2. \A k \in Nodes : IsPrefix(k, p) => IsPrefix(k, m)
      BY <1>0, <3>1, Prefixes
    <3>3. f[m] = {k \in Nodes : IsPrefix(k, m)} /\ f[p] = {k \in Nodes : IsPrefix(k, p)}
      BY <3>1
    <3> HIDE DEF f
    <3>4. f[m] = {m} \cup f[p]
      BY <1>0, <3>1, <3>2, <3>3
    <3> QED BY <2>3, <3>4 DEF p
  <2> QED BY <2>2, <2>3
<1>2. Eq(f)
  <2>1. f = [m \in Nodes |-> f[m]]
    OBVIOUS
  <2> HIDE DEF f
  <2> QED BY <1>1, <2>1
<1> DEFINE up == CHOOSE up : Eq(up)
<1>3. Eq(up)
  <2> HIDE DEF Eq, f
  <2> QED BY <1>2
<1>4. UpFrom(n) = up[n]
  BY DEF UpFrom
<1> HIDE DEF up
<1>5. \A m \in Nodes : up[m] = {m} \cup IF node[m].parent = NoNode THEN {} ELSE up[node[m].parent]
  BY <1>3
<1> HIDE DEF f
<1>6. \A m \in Nodes : up[m] = f[m]
  <2> DEFINE Bad == {m \in Nodes : up[m] # f[m]}
             L   == {Len(m) : m \in Bad}
  <2> SUFFICES ASSUME Bad # {} PROVE FALSE
    OBVIOUS
  <2>1. L \in SUBSET Nat /\ L # {}
    BY <1>0
  <2>2. PICK l \in L : \A k \in L : l <= k
    <3> HIDE DEF L
    <3> QED BY <2>1, LeastNumber
  <2>3. PICK m \in Bad : l = Len(m)
    OBVIOUS
  <2> DEFINE p == node[m].parent
  <2>4. m \in Nodes /\ up[m] # f[m]
    OBVIOUS
  <2>5. p # NoNode /\ p \in Nodes /\ IsPrefix(p, m) /\ p # m
    BY <1>1, <1>5, <2>4, Kin
  <2> HIDE DEF p
  <2>6. Len(p) < Len(m)
    BY <1>0, <2>4, <2>5, Prefixes
  <2>7. p \notin Bad
    BY <1>0, <2>2, <2>3, <2>4, <2>5, <2>6
  <2>8. up[p] = f[p]
    BY <2>5, <2>7
  <2>9. up[m] = {m} \cup up[p]
    BY <1>5, <2>4, <2>5 DEF p
  <2>10. f[m] = {m} \cup f[p]
    BY <1>1, <2>4, <2>5 DEF p
  <2> QED BY <2>4, <2>8, <2>9, <2>10
<1> QED BY <1>4, <1>6 DEF f

LEMMA SetVersionKeeps ==
  ASSUME TreeInv, NEW h \in Rth, SetVersion(h)
  PROVE  TreeInv' /\ LocksUntouched /\ UNCHANGED walks
<1> USE DEF Nodes
<1> DEFINE n  == hnode[h]
           up == UpFrom(n)
<1>0. Typed(node) /\ Linked(node, root) /\ FullIn(node) /\ OlderAbove(node) /\ HeadsFit /\ Nodes \subseteq Node
  BY DEF TreeInv, Sound, Typed
<1>1. n \in Nodes
  BY <1>0 DEF SetVersion, InTable, WithUser, HeadsFit
<1>2. up = {m \in Nodes : IsPrefix(m, n)}
  BY <1>0, <1>1, UpFromIs
<1>3. /\ version < MaxVersion /\ version' = version + 1 /\ hver' = [hver EXCEPT ![h] = version']
      /\ node' = [m \in Nodes |-> IF m \in up THEN [node[m] EXCEPT !.version = version'] ELSE node[m]]
      /\ UNCHANGED <<root, hnode, walks>>
  BY DEF SetVersion
<1> HIDE DEF n, up
<1>4. version \in Nat /\ version' \in Nat /\ version' \in 0 .. MaxVersion /\ version < version'
  BY <1>3, RadixAssumption DEF TreeInv, VersionsFit
<1>5. Nodes' = Nodes
  BY <1>3
<1>6. ASSUME NEW m \in Nodes
      PROVE  /\ node'[m] \in RtNode /\ node[m].version \in Nat /\ node[m].version <= version
             /\ node'[m].left = node[m].left /\ node'[m].right = node[m].right /\ node'[m].parent = node[m].parent
             /\ node'[m].rth = node[m].rth /\ node'[m].lock = node[m].lock
             /\ node'[m].version = IF m \in up THEN version' ELSE node[m].version
  <2>1. node[m] \in RtNode /\ node[m].version <= version
    BY <1>0 DEF Typed, TreeInv, VersionsFit
  <2>2. node'[m] = IF m \in up THEN [node[m] EXCEPT !.version = version'] ELSE node[m]
    BY <1>3
  <2> QED BY <1>4, <2>1, <2>2, RadixAssumption DEF RtNode
<1>7. Linked(node', root) /\ \A m \in Nodes, b \in Bit : SideIn(node', m, b) = SideIn(node, m, b)
  BY <1>0, <1>5, <1>6, LinksKept
<1>8. Sound(node', root')
  <2>1. Typed(node')
    BY <1>0, <1>5, <1>6 DEF Typed
  <2>2. FullIn(node')
    BY <1>0, <1>5, <1>6, <1>7 DEF FullIn, FullAt
  <2>3. OlderAbove(node')
    <3>1. ASSUME NEW m \in Nodes, NEW k \in Nodes, IsPrefix(m, k) PROVE node'[k].version <= node'[m].version
      <4>1. k \in up => m \in up
        BY <1>0, <1>1, <1>2, <3>1, Prefixes
      <4>2. node[k].version <= node[m].version
        BY <1>0, <3>1 DEF OlderAbove
      <4> QED BY <1>4, <1>6, <4>1, <4>2
    <3> QED BY <1>5, <3>1 DEF OlderAbove
  <2> QED BY <1>3, <1>7, <2>1, <2>2, <2>3 DEF Sound
<1>9. HeadsFit' /\ hnode' \in [Rth -> Node \cup {NoNode}]
  <2>1. \A g \in Rth : hnode'[g] # NoNode => hnode'[g] \in Nodes' /\ node'[hnode'[g]].rth = g
    BY <1>0, <1>3, <1>5, <1>6 DEF HeadsFit
  <2>2. \A m \in Nodes' : node'[m].rth # NoHead => m = KeyOf(node'[m].rth) /\ hnode'[node'[m].rth] = m
    BY <1>0, <1>3, <1>5, <1>6 DEF HeadsFit
  <2> QED BY <1>3, <2>1, <2>2 DEF HeadsFit, TreeInv
<1>10. VersionsFit'
  <2>0. hver \in [Rth -> 0 .. version]
    BY DEF TreeInv, VersionsFit
  <2>1. \A g \in Rth : hver'[g] = IF g = h THEN version' ELSE hver[g]
    BY <1>3, <2>0
  <2>2. hver' \in [Rth -> 0 .. version']
    <3>1. \A g \in Rth : hver'[g] \in 0 .. version'
      BY <1>4, <2>0, <2>1
    <3> QED BY <1>3, <2>0, <3>1
  <2>3. \A m \in Nodes' : node'[m].version <= version'
    BY <1>4, <1>5, <1>6
  <2>4. ASSUME NEW g \in Rth PROVE IF hnode'[g] = NoNode THEN hver'[g] = 0 ELSE hver'[g] <= node'[hnode'[g]].version
    <3>0. IF hnode[g] = NoNode THEN hver[g] = 0 ELSE hver[g] <= node[hnode[g]].version /\ hnode[g] \in Nodes
      BY <1>0 DEF TreeInv, VersionsFit, HeadsFit
    <3>1. CASE g = h
      <4>1. n \in up /\ n # NoNode /\ hnode'[g] = n
        BY <1>0, <1>1, <1>2, <1>3, <3>1, Prefixes, RadixAssumption DEF n
      <4> QED BY <1>1, <1>4, <1>6, <2>1, <3>1, <4>1
    <3>2. CASE g # h
      <4>1. hver'[g] = hver[g] /\ hnode'[g] = hnode[g] /\ hver[g] \in Nat /\ hver[g] <= version
        BY <1>3, <1>4, <2>0, <2>1, <3>2
      <4> QED BY <1>4, <1>6, <3>0, <4>1
    <3> QED BY <3>1, <3>2
  <2> QED BY <1>4, <2>2, <2>3, <2>4 DEF VersionsFit
<1>11. LocksUntouched
  BY <1>5, <1>6 DEF LocksUntouched
<1> QED BY <1>3, <1>8, <1>9, <1>10, <1>11 DEF TreeInv
----------------------------------------------------------------------------
(* The walks and their locks.                                              *)

CallsAt(w, n) == {i \in DOMAIN w : w[i].phase = "call" /\ w[i].rtn = n}

\* The lock of a node counts the callbacks that will come back to it.
LocksAre(t, w) ==
  /\ \A i \in DOMAIN w : w[i].phase = "call" => w[i].rtn \in DOMAIN t
  /\ \A n \in DOMAIN t : t[n].lock = Cardinality(CallsAt(w, n)) /\ (t[n].lock # 0 => t[n].rth # NoHead)

\* All walks but the last wait for their callback; where the last one is.
WalksFit(w, ns) ==
  /\ w \in Seq(Walk) /\ Len(w) <= MaxWalks
  /\ \A i \in 1 .. Len(w) : i # Len(w) => w[i].phase = "call"
  /\ w # <<>> => /\ w[Len(w)].phase = "run" => w[Len(w)].rtn \in ns \cup {NoNode}
                 /\ w[Len(w)].phase = "sweep" => w[Len(w)].at \in ns \cup {NoNode}

IInv ==
  /\ TreeInv
  /\ LocksAre(node, walks)
  /\ WalksFit(walks, Nodes)

LEMMA CallsFinite ==
  ASSUME NEW w \in Seq(Walk), NEW n
  PROVE  /\ IsFiniteSet(CallsAt(w, n)) /\ Cardinality(CallsAt(w, n)) \in Nat
         /\ Cardinality(CallsAt(w, n)) <= Len(w) /\ Len(w) \in Nat /\ DOMAIN w = 1 .. Len(w)
         /\ Cardinality(CallsAt(w, n)) = 0 <=> CallsAt(w, n) = {}
<1>1. Len(w) \in Nat /\ DOMAIN w = 1 .. Len(w)
  BY LenProperties
<1>2. IsFiniteSet(1 .. Len(w)) /\ Cardinality(1 .. Len(w)) = Len(w)
  BY <1>1, FS_Interval
<1>3. CallsAt(w, n) \subseteq 1 .. Len(w)
  BY <1>1 DEF CallsAt
<1>4. IsFiniteSet(CallsAt(w, n)) /\ Cardinality(CallsAt(w, n)) <= Len(w)
  BY <1>2, <1>3, FS_Subset
<1> QED BY <1>1, <1>4, FS_CardinalityType, FS_EmptySet

LEMMA LocksStay ==
  ASSUME NEW t, NEW u, NEW w \in Seq(Walk), NEW x, LocksAre(t, w),
         DOMAIN x = DOMAIN w \/ \A i \in DOMAIN x : x[i].phase = "call" => i \in DOMAIN w,
         \A n : CallsAt(x, n) = CallsAt(w, n),
         \A n \in DOMAIN t : t[n].lock # 0 => n \in DOMAIN u,
         \A n \in DOMAIN u : IF n \in DOMAIN t THEN u[n].lock = t[n].lock /\ (t[n].lock # 0 => u[n].rth # NoHead)
                                               ELSE u[n].lock = 0
  PROVE  LocksAre(u, x)
<1>1. ASSUME NEW i \in DOMAIN x, x[i].phase = "call" PROVE x[i].rtn \in DOMAIN u
  <2> DEFINE n == x[i].rtn
  <2>1. i \in CallsAt(x, n)
    BY <1>1 DEF CallsAt
  <2> HIDE DEF n
  <2>2. i \in CallsAt(w, n)
    BY <2>1
  <2>3. n \in DOMAIN t
    BY <2>2 DEF CallsAt, LocksAre
  <2>4. Cardinality(CallsAt(w, n)) # 0
    BY <2>2, CallsFinite
  <2> QED BY <2>3, <2>4 DEF LocksAre, n
<1>2. ASSUME NEW n \in DOMAIN u
      PROVE  u[n].lock = Cardinality(CallsAt(x, n)) /\ (u[n].lock # 0 => u[n].rth # NoHead)
  <2>0. CallsAt(x, n) = CallsAt(w, n)
    OBVIOUS
  <2>1. CASE n \in DOMAIN t
    BY <1>2, <2>0, <2>1 DEF LocksAre
  <2>2. CASE n \notin DOMAIN t
    <3>1. CallsAt(w, n) = {}
      BY <2>2 DEF LocksAre, CallsAt
    <3>2. Cardinality(CallsAt(x, n)) = 0
      BY <2>0, <3>1, CallsFinite
    <3> QED BY <1>2, <2>2, <3>2
  <2> QED BY <2>1, <2>2
<1> QED BY <1>1, <1>2 DEF LocksAre

\* The lock of n follows walk i into a callback for n, or out of it.
LockMoved(t, u, w, x, n, i) ==
  /\ DOMAIN x = DOMAIN w /\ \A j \in DOMAIN w : j # i => x[j] = w[j]
  /\ DOMAIN u = DOMAIN t /\ \A m \in DOMAIN t : u[m].rth = t[m].rth /\ (m # n => u[m].lock = t[m].lock)
  /\ t[n].rth # NoHead
  /\ \/ w[i].phase # "call" /\ x[i].phase = "call" /\ x[i].rtn = n /\ u[n].lock = t[n].lock + 1
     \/ w[i].phase = "call" /\ w[i].rtn = n /\ x[i].phase # "call" /\ u[n].lock = t[n].lock - 1

\* One more callback, or one less, for n.
LEMMA LocksMove ==
  ASSUME NEW t, NEW u, NEW w \in Seq(Walk), NEW x \in Seq(Walk), LocksAre(t, w), NEW n \in DOMAIN t, NEW i \in DOMAIN w,
         LockMoved(t, u, w, x, n, i)
  PROVE  LocksAre(u, x) /\ u[n].lock \in 0 .. Len(w)
<1> USE DEF LockMoved
<1>1. \A j \in DOMAIN x : x[j].phase = "call" => x[j].rtn \in DOMAIN u
  BY DEF LocksAre
<1>2. ASSUME NEW m \in DOMAIN t, m # n PROVE CallsAt(x, m) = CallsAt(w, m)
  BY <1>2 DEF CallsAt
<1>3. u[n].lock = Cardinality(CallsAt(x, n)) /\ Cardinality(CallsAt(x, n)) <= Len(w) /\ Cardinality(CallsAt(x, n)) \in Nat
  <2>0. /\ IsFiniteSet(CallsAt(w, n)) /\ IsFiniteSet(CallsAt(x, n)) /\ Cardinality(CallsAt(w, n)) \in Nat
        /\ Cardinality(CallsAt(x, n)) <= Len(x) /\ Cardinality(CallsAt(x, n)) \in Nat
        /\ Len(x) \in Nat /\ Len(w) \in Nat /\ 1 .. Len(x) = 1 .. Len(w)
    BY CallsFinite
  <2>1. Len(x) = Len(w)
    <3> DEFINE a == Len(x)
               b == Len(w)
    <3>1. a \in Nat /\ b \in Nat /\ 1 .. a = 1 .. b
      BY <2>0
    <3> HIDE DEF a, b
    <3>2. a = b
      BY ONLY <3>1
    <3> QED BY <3>2 DEF a, b
  <2>2. t[n].lock = Cardinality(CallsAt(w, n))
    BY DEF LocksAre
  <2>3. CASE w[i].phase # "call" /\ x[i].phase = "call" /\ x[i].rtn = n /\ u[n].lock = t[n].lock + 1
    <3>1. CallsAt(x, n) = CallsAt(w, n) \cup {i} /\ i \notin CallsAt(w, n)
      BY <2>3 DEF CallsAt
    <3>2. Cardinality(CallsAt(x, n)) = Cardinality(CallsAt(w, n)) + 1
      BY <2>0, <3>1, FS_AddElement
    <3> QED BY <2>0, <2>1, <2>2, <2>3, <3>2
  <2>4. CASE w[i].phase = "call" /\ w[i].rtn = n /\ x[i].phase # "call" /\ u[n].lock = t[n].lock - 1
    <3>1. CallsAt(x, n) = CallsAt(w, n) \ {i} /\ i \in CallsAt(w, n)
      BY <2>4 DEF CallsAt
    <3>2. Cardinality(CallsAt(x, n)) = Cardinality(CallsAt(w, n)) - 1
      BY <2>0, <3>1, FS_RemoveElement
    <3> QED BY <2>0, <2>1, <2>2, <2>4, <3>2
  <2> QED BY <2>3, <2>4
<1>4. \A m \in DOMAIN u : u[m].lock = Cardinality(CallsAt(x, m)) /\ (u[m].lock # 0 => u[m].rth # NoHead)
  BY <1>2, <1>3 DEF LocksAre
<1>5. u[n].lock \in 0 .. Len(w)
  <2>1. Len(w) \in Nat
    BY LenProperties
  <2> QED BY <1>3, <2>1
<1> QED BY <1>1, <1>4, <1>5 DEF LocksAre

\* The innermost walk becomes w.
LEMMA TopIs ==
  ASSUME WalksFit(walks, Nodes), walks # <<>>, NEW w \in Walk, Top(w)
  PROVE  /\ walks' \in Seq(Walk) /\ Len(walks') = Len(walks) /\ DOMAIN walks' = DOMAIN walks /\ walks' # <<>>
         /\ Len(walks) \in DOMAIN walks /\ DOMAIN walks = 1 .. Len(walks) /\ Len(walks) \in Nat
         /\ top \in Walk /\ walks'[Len(walks)] = w
         /\ \A i \in DOMAIN walks : i # Len(walks) => walks'[i] = walks[i]
<1>1. walks \in Seq(Walk)
  BY DEF WalksFit
<1>2. Len(walks) \in Nat /\ DOMAIN walks = 1 .. Len(walks) /\ Len(walks) # 0
  BY <1>1, LenProperties, EmptySeq
<1>3. Len(walks) \in DOMAIN walks
  BY <1>2
<1>4. walks' = [walks EXCEPT ![Len(walks)] = w]
  BY DEF Top
<1>5. walks' \in Seq(Walk) /\ Len(walks') = Len(walks)
  BY <1>1, <1>3, <1>4, ExceptSeq
<1>6. top \in Walk
  BY <1>1, <1>2, <1>3, ElementOfSeq DEF top
<1>7. /\ DOMAIN walks' = DOMAIN walks /\ walks'[Len(walks)] = w
      /\ \A i \in DOMAIN walks : i # Len(walks) => walks'[i] = walks[i]
  BY <1>3, <1>4
<1>8. walks' # <<>>
  BY <1>2, <1>5
<1> QED BY <1>2, <1>3, <1>5, <1>6, <1>7, <1>8

\* It moves, and is not in a callback before or after.
LEMMA TopMoves ==
  ASSUME LocksAre(node, walks), WalksFit(walks, Nodes), walks # <<>>, NEW w \in Walk, Top(w),
         top.phase # "call", w.phase # "call", LocksUntouched,
         w.phase = "run" => w.rtn \in Nodes' \cup {NoNode},
         w.phase = "sweep" => w.at \in Nodes' \cup {NoNode}
  PROVE  LocksAre(node', walks') /\ WalksFit(walks', Nodes')
<1>1. /\ walks' \in Seq(Walk) /\ Len(walks') = Len(walks) /\ DOMAIN walks' = DOMAIN walks /\ walks' # <<>>
      /\ Len(walks) \in DOMAIN walks /\ DOMAIN walks = 1 .. Len(walks) /\ Len(walks) \in Nat
      /\ walks'[Len(walks)] = w
      /\ \A i \in DOMAIN walks : i # Len(walks) => walks'[i] = walks[i]
  BY TopIs
<1>2. \A n : CallsAt(walks', n) = CallsAt(walks, n)
  BY <1>1 DEF CallsAt, top
<1>3. LocksAre(node', walks')
  <2>1. walks \in Seq(Walk)
    BY DEF WalksFit
  <2>2. \A n \in DOMAIN node : node[n].lock # 0 => n \in DOMAIN node'
    BY DEF LocksUntouched, Nodes
  <2>3. \A n \in DOMAIN node' :
          IF n \in DOMAIN node THEN node'[n].lock = node[n].lock /\ (node[n].lock # 0 => node'[n].rth # NoHead)
                               ELSE node'[n].lock = 0
    <3> SUFFICES ASSUME NEW n \in DOMAIN node'
                 PROVE  IF n \in DOMAIN node THEN node'[n].lock = node[n].lock /\ (node[n].lock # 0 => node'[n].rth # NoHead)
                                              ELSE node'[n].lock = 0
      OBVIOUS
    <3> QED BY DEF LocksUntouched, Nodes, LocksAre
  <2> QED BY <1>1, <1>2, <2>1, <2>2, <2>3, LocksStay
<1>4. WalksFit(walks', Nodes')
  BY <1>1 DEF WalksFit
<1> QED BY <1>3, <1>4

\* A step of the user changes the tree, and no walk.
LEMMA UserSteps ==
  ASSUME LocksAre(node, walks), WalksFit(walks, Nodes), LocksUntouched, UserRuns,
         walks' \in Seq(Walk), DOMAIN walks' = DOMAIN walks, Len(walks') = Len(walks),
         \A i \in DOMAIN walks : walks'[i].phase = walks[i].phase /\ walks'[i].rtn = walks[i].rtn
  PROVE  LocksAre(node', walks') /\ WalksFit(walks', Nodes')
<1>0. walks \in Seq(Walk) /\ DOMAIN walks = 1 .. Len(walks) /\ Len(walks) \in Nat
  BY LenProperties DEF WalksFit
<1>1. \A n : CallsAt(walks', n) = CallsAt(walks, n)
  BY DEF CallsAt
<1>2. LocksAre(node', walks')
  <2>2. \A n \in DOMAIN node : node[n].lock # 0 => n \in DOMAIN node'
    BY DEF LocksUntouched, Nodes
  <2>3. \A n \in DOMAIN node' :
          IF n \in DOMAIN node THEN node'[n].lock = node[n].lock /\ (node[n].lock # 0 => node'[n].rth # NoHead)
                               ELSE node'[n].lock = 0
    <3> SUFFICES ASSUME NEW n \in DOMAIN node'
                 PROVE  IF n \in DOMAIN node THEN node'[n].lock = node[n].lock /\ (node[n].lock # 0 => node'[n].rth # NoHead)
                                              ELSE node'[n].lock = 0
      OBVIOUS
    <3> QED BY DEF LocksUntouched, Nodes, LocksAre
  <2> HIDE DEF LocksAre
  <2>4. LocksAre(node, walks)
    OBVIOUS
  <2>5. walks' \in Seq(Walk) /\ DOMAIN walks' = DOMAIN walks
    OBVIOUS
  <2> QED BY ONLY <1>0, <1>1, <2>2, <2>3, <2>4, <2>5, LocksStay
<1>3. WalksFit(walks', Nodes')
  <2>1. walks' # <<>> => walks # <<>> /\ Len(walks) \in 1 .. Len(walks)
    <3>1. walks' # <<>> => Len(walks') # 0
      BY EmptySeq
    <3>2. walks = <<>> => Len(walks) = 0
      BY EmptySeq
    <3> QED BY <1>0, <3>1, <3>2
  <2> QED BY <1>0, <2>1 DEF WalksFit, UserRuns
<1> QED BY <1>2, <1>3
----------------------------------------------------------------------------
(* Every step keeps it.                                                    *)

LEMMA LocksUntouchedSame ==
  ASSUME UNCHANGED node
  PROVE  LocksUntouched
BY DEF LocksUntouched, Nodes

LEMMA TreeUnchanged ==
  ASSUME TreeInv, UNCHANGED <<node, root, hnode, hver, version>>
  PROVE  TreeInv'
BY DEF TreeInv, HeadsFit, VersionsFit, Nodes

LEMMA LocksHaveHeads ==
  ASSUME LocksAre(node, walks)
  PROVE  \A m \in Nodes : node[m].lock # 0 => node[m].rth # NoHead
BY DEF LocksAre, Nodes

LEMMA InitHolds ==
  ASSUME Init
  PROVE  IInv
<1>1. /\ node = [n \in {} |-> NoNode] /\ root = NoNode /\ hnode = [h \in Rth |-> NoNode]
      /\ hver = [h \in Rth |-> 0] /\ version = 0 /\ walks = <<>>
  BY DEF Init
<1>2. DOMAIN node = {}
  BY <1>1
<1>3. Sound(node, root)
  BY <1>1, <1>2 DEF Sound, Typed, Linked, RootIs, FullIn, OlderAbove
<1>4. HeadsFit /\ hnode \in [Rth -> Node \cup {NoNode}]
  BY <1>1, <1>2 DEF HeadsFit, Nodes
<1>5. VersionsFit
  BY <1>1, <1>2, RadixAssumption DEF VersionsFit, Nodes
<1>6. walks \in Seq(Walk) /\ Len(walks) = 0 /\ DOMAIN walks = {}
  BY <1>1
<1>7. LocksAre(node, walks)
  BY <1>2, <1>6 DEF LocksAre
<1>8. WalksFit(walks, Nodes)
  BY <1>1, <1>6, RadixAssumption DEF WalksFit
<1> QED BY <1>3, <1>4, <1>5, <1>7, <1>8 DEF IInv, TreeInv

LEMMA InsertIInv ==
  ASSUME IInv, NEW h \in Rth, Insert(h) \/ SetVersion(h)
  PROVE  IInv'
<1>1. TreeInv' /\ LocksUntouched /\ walks' = walks /\ UserRuns
  BY InsertKeeps, SetVersionKeeps DEF IInv, Insert, SetVersion
<1>2. walks \in Seq(Walk)
  BY DEF IInv, WalksFit
<1>3. LocksAre(node', walks') /\ WalksFit(walks', Nodes')
  BY <1>1, <1>2, UserSteps DEF IInv
<1> QED BY <1>1, <1>3 DEF IInv

LEMMA RemoveIInv ==
  ASSUME IInv, NEW h \in Rth, Remove(h)
  PROVE  IInv'
<1> DEFINE n == hnode[h]
<1>0. /\ UserRuns /\ n \in Nodes /\ walks \in Seq(Walk)
      /\ TreeInv /\ LocksAre(node, walks) /\ WalksFit(walks, Nodes)
  BY DEF IInv, Remove, InTable, WithUser, TreeInv, HeadsFit, WalksFit
<1>1. CASE node[n].lock > 0
  <2>1. /\ node' = [node EXCEPT ![n].dele = TRUE]
        /\ UNCHANGED <<root, hnode, hver, version, walks>>
    BY <1>1 DEF Remove
  <2> HIDE DEF n
  <2>2. Nodes' = Nodes /\ \A m \in Nodes : node'[m] = IF m = n THEN [node[n] EXCEPT !.dele = TRUE] ELSE node[m]
    BY <1>0, <2>1 DEF Nodes
  <2>3. ASSUME NEW m \in Nodes
        PROVE  /\ node'[m] \in RtNode /\ node'[m].lock = node[m].lock
               /\ node'[m].left = node[m].left /\ node'[m].right = node[m].right
               /\ node'[m].parent = node[m].parent /\ node'[m].rth = node[m].rth
               /\ node'[m].version = node[m].version
    <3>1. node[m] \in RtNode
      BY <1>0 DEF TreeInv, Sound, Typed, Nodes
    <3>2. CASE m = n
      <4> DEFINE e == [node[n] EXCEPT !.dele = TRUE]
      <4>1. node[n] \in RtNode /\ node'[m] = e
        BY <2>2, <3>1, <3>2
      <4>2. /\ e \in RtNode /\ e.left = node[n].left /\ e.right = node[n].right /\ e.parent = node[n].parent
            /\ e.lock = node[n].lock /\ e.version = node[n].version /\ e.rth = node[n].rth
        BY <4>1 DEF RtNode
      <4> HIDE DEF e
      <4> QED BY <3>2, <4>1, <4>2
    <3>3. CASE m # n
      BY <2>2, <3>1, <3>3
    <3> QED BY <3>2, <3>3
  <2>4. TreeInv'
    BY <1>0, <2>1, <2>2, <2>3, BodiesKeep
  <2>5. LocksUntouched
    BY <2>2, <2>3 DEF LocksUntouched
  <2>6. LocksAre(node', walks') /\ WalksFit(walks', Nodes')
    BY <1>0, <2>1, <2>5, UserSteps
  <2> QED BY <2>4, <2>6 DEF IInv
<1>2. CASE ~(node[n].lock > 0)
  <2> DEFINE after == Removed(n, "up")
  <2>1. Becomes(n, after) /\ walks' = walks
    BY <1>2 DEF Remove
  <2>2. node[n].lock = 0
    <3>1. node[n].lock \in 0 .. MaxWalks /\ MaxWalks \in Nat
      BY <1>0, RadixAssumption DEF TreeInv, Sound, Typed, RtNode, Nodes
    <3> QED BY <1>2, <3>1
  <2>3. Shrunk(n, after)
    BY <1>0, RemovedShrinks DEF TreeInv, Sound
  <2> HIDE DEF after, n
  <2>4. TreeInv' /\ LocksUntouched
    BY <1>0, <2>1, <2>2, <2>3, LocksHaveHeads, RemovalKeeps
  <2>5. LocksAre(node', walks') /\ WalksFit(walks', Nodes')
    BY <1>0, <2>1, <2>4, UserSteps
  <2> QED BY <2>4, <2>5 DEF IInv
<1> QED BY <1>1, <1>2

LEMMA ResetIInv ==
  ASSUME IInv, Reset
  PROVE  IInv'
<1>1. root = NoNode /\ version' = 0 /\ UNCHANGED <<node, root, hnode, hver, walks>>
  BY DEF Reset
<1>2. Nodes = {} /\ Nodes' = {}
  BY <1>1 DEF IInv, TreeInv, Sound, Linked, RootIs, Nodes
<1>3. \A h \in Rth : hnode[h] = NoNode /\ hver[h] = 0
  BY <1>2 DEF IInv, TreeInv, HeadsFit, VersionsFit
<1>4. VersionsFit'
  <2>1. hver \in [Rth -> 0 .. 0]
    BY <1>3 DEF IInv, TreeInv, VersionsFit
  <2> QED BY <1>1, <1>2, <1>3, <2>1, RadixAssumption DEF VersionsFit
<1>5. Sound(node', root') /\ HeadsFit' /\ hnode' \in [Rth -> Node \cup {NoNode}]
  BY <1>1 DEF IInv, TreeInv, HeadsFit, Nodes
<1>6. LocksAre(node', walks') /\ WalksFit(walks', Nodes')
  BY <1>1, <1>2 DEF IInv
<1> QED BY <1>4, <1>5, <1>6 DEF IInv, TreeInv

LEMMA BeginWalkIInv ==
  ASSUME IInv, NEW cnt \in Counts, NEW min \in 0 .. version, NEW max \in 0 .. version, BeginWalk(cnt, min, max)
  PROVE  IInv'
<1> DEFINE w == [phase |-> "run", rtn |-> root, at |-> NoNode, dir |-> "down", unlimited |-> cnt = 0, left |-> cnt,
                 min |-> min, max |-> max, last |-> NoNode, clean |-> TRUE]
<1>1. /\ UserRuns /\ Len(walks) < MaxWalks /\ walks' = Append(walks, w)
      /\ UNCHANGED <<node, root, hnode, hver, version>>
  BY DEF BeginWalk
<1>2. root \in Node \cup {NoNode} /\ root \in Nodes \cup {NoNode}
  BY DEF IInv, TreeInv, Sound, Typed, Linked, RootIs, Nodes
<1>3. w \in Walk
  <2>1. min \in 0 .. MaxVersion /\ max \in 0 .. MaxVersion /\ cnt \in Nat
    BY RadixAssumption DEF IInv, TreeInv, VersionsFit
  <2>2. (cnt = 0) \in BOOLEAN
    OBVIOUS
  <2> QED BY <1>2, <2>1, <2>2 DEF Walk
<1>4. w.phase = "run" /\ w.rtn = root
  OBVIOUS
<1> HIDE DEF w
<1>5. walks \in Seq(Walk)
  BY DEF IInv, WalksFit
<1>6. /\ walks' \in Seq(Walk) /\ Len(walks') = Len(walks) + 1 /\ walks'[Len(walks) + 1] = w
      /\ Len(walks) \in Nat /\ DOMAIN walks = 1 .. Len(walks) /\ DOMAIN walks' = 1 .. Len(walks')
      /\ \A i \in 1 .. Len(walks) : walks'[i] = walks[i]
  BY <1>1, <1>3, <1>5, AppendProperties, LenProperties
<1>7. \A i \in DOMAIN walks' : walks'[i].phase = "call" => i \in DOMAIN walks
  BY <1>4, <1>6
<1>8. \A n : CallsAt(walks', n) = CallsAt(walks, n)
  BY <1>4, <1>6, <1>7 DEF CallsAt
<1>9. LocksAre(node', walks')
  <2>1. LocksAre(node, walks) /\ \A n \in DOMAIN node : node[n].lock # 0 => node[n].rth # NoHead
    BY DEF IInv, LocksAre
  <2>2. LocksAre(node, walks')
    BY <1>5, <1>7, <1>8, <2>1, LocksStay
  <2> QED BY <1>1, <2>2
<1>10. WalksFit(walks', Nodes')
  <2>1. \A i \in 1 .. Len(walks') : i # Len(walks') => walks'[i].phase = "call"
    <3>1. \A i \in 1 .. Len(walks) : walks[i].phase = "call"
      <4>1. Len(walks) \in 1 .. Len(walks) => walks # <<>>
        BY <1>6
      <4> QED BY <1>1, <4>1 DEF IInv, WalksFit, UserRuns
    <3> QED BY <1>6, <3>1
  <2>2. Nodes' = Nodes /\ Len(walks') <= MaxWalks
    BY <1>1, <1>6, RadixAssumption DEF Nodes
  <2> QED BY <1>2, <1>4, <1>6, <2>1, <2>2 DEF WalksFit
<1> QED BY <1>1, <1>9, <1>10, TreeUnchanged DEF IInv

\* The innermost walk, when it runs.
LEMMA TopRuns ==
  ASSUME IInv, walks # <<>>
  PROVE  /\ top \in Walk /\ walks \in Seq(Walk) /\ Len(walks) \in DOMAIN walks /\ Len(walks) \in Nat
         /\ top.phase = "run" /\ top.rtn # NoNode => top.rtn \in Nodes
         /\ top.phase = "sweep" /\ top.at # NoNode => top.at \in Nodes
         /\ top.phase = "call" => top.rtn \in Nodes
<1>1. walks \in Seq(Walk)
  BY DEF IInv, WalksFit
<1>2. Len(walks) \in Nat /\ DOMAIN walks = 1 .. Len(walks) /\ Len(walks) # 0
  BY <1>1, LenProperties, EmptySeq
<1>3. Len(walks) \in DOMAIN walks
  BY <1>2
<1>4. top \in Walk
  BY <1>1, <1>2, <1>3, ElementOfSeq DEF top
<1> QED BY <1>1, <1>2, <1>3, <1>4 DEF IInv, WalksFit, LocksAre, top, Nodes

\* It moves, and the tree stays.
LEMMA MoveIInv ==
  ASSUME IInv, walks # <<>>, NEW w \in Walk, Top(w), top.phase # "call", w.phase # "call",
         UNCHANGED <<node, root, hnode, hver, version>>,
         w.phase = "run" => w.rtn \in Nodes \cup {NoNode},
         w.phase = "sweep" => w.at \in Nodes \cup {NoNode}
  PROVE  IInv'
<1>1. LocksUntouched /\ Nodes' = Nodes
  BY LocksUntouchedSame DEF Nodes
<1>2. LocksAre(node', walks') /\ WalksFit(walks', Nodes')
  BY <1>1, TopMoves DEF IInv
<1> QED BY <1>2, TreeUnchanged DEF IInv

\* It moves, and n is removed.
LEMMA SweepIInv ==
  ASSUME IInv, walks # <<>>, NEW w \in Walk, Top(w), top.phase # "call", w.phase # "call",
         NEW n \in Nodes, Sweepable(n), NEW after, Shrunk(n, after), Becomes(n, after),
         w.phase = "run" => w.rtn = after.rtn,
         w.phase = "sweep" => w.at = after.rtn
  PROVE  IInv'
<1>1. node[n].lock = 0
  BY DEF Sweepable
<1>2. TreeInv' /\ LocksUntouched /\ after.rtn \in Nodes' \cup {NoNode}
  BY <1>1, LocksHaveHeads, RemovalKeeps DEF IInv
<1>3. LocksAre(node', walks') /\ WalksFit(walks', Nodes')
  BY <1>2, TopMoves DEF IInv
<1> QED BY <1>2, <1>3 DEF IInv

LEMMA DescendIs ==
  ASSUME IInv, NEW w \in Walk, w.rtn \in Nodes
  PROVE  Descend(w) \in Walk /\ Descend(w).rtn \in Nodes /\ Descend(w).phase = w.phase
<1> DEFINE l == node[w.rtn].left
<1>1. l # NoNode => l \in Nodes /\ l \in Node
  <2>1. 0 \in Bit /\ SideIn(node, w.rtn, 0) = l
    BY DEF Bit, SideIn
  <2>2. Linked(node, root) /\ Nodes \subseteq Node
    BY DEF IInv, TreeInv, Sound, Typed, Nodes
  <2> QED BY <2>1, <2>2, Kin DEF Nodes
<1>2. CASE l # NoNode
  <2>1. Descend(w) = [w EXCEPT !.rtn = l]
    BY <1>2 DEF Descend
  <2> HIDE DEF l
  <2> QED BY <1>1, <1>2, <2>1 DEF Walk
<1>3. CASE l = NoNode
  <2>1. Descend(w) = [w EXCEPT !.dir = "right"]
    BY <1>3 DEF Descend
  <2> QED BY <2>1 DEF Walk
<1> QED BY <1>2, <1>3

\* It calls back for n, or the callback for n has returned.
LEMMA CallIInv ==
  ASSUME IInv, walks # <<>>, NEW w \in Walk, Top(w), NEW n \in Nodes, node[n].rth # NoHead, NEW l,
         node' = [node EXCEPT ![n].lock = l], UNCHANGED <<root, hnode, hver, version>>,
         \/ top.phase = "run" /\ w.phase = "call" /\ w.rtn = n /\ l = node[n].lock + 1
         \/ top.phase = "call" /\ top.rtn = n /\ w.phase = "run" /\ w.rtn \in Nodes /\ l = node[n].lock - 1
  PROVE  IInv'
<1>1. /\ walks' \in Seq(Walk) /\ Len(walks') = Len(walks) /\ DOMAIN walks' = DOMAIN walks /\ walks' # <<>>
      /\ Len(walks) \in DOMAIN walks /\ DOMAIN walks = 1 .. Len(walks) /\ Len(walks) \in Nat
      /\ walks'[Len(walks)] = w
      /\ \A i \in DOMAIN walks : i # Len(walks) => walks'[i] = walks[i]
  BY TopIs DEF IInv
<1>2. Nodes' = Nodes /\ \A m \in Nodes : node'[m] = IF m = n THEN [node[n] EXCEPT !.lock = l] ELSE node[m]
  BY DEF Nodes
<1>3. ASSUME NEW m \in Nodes
      PROVE  /\ node[m] \in RtNode
             /\ node'[m].left = node[m].left /\ node'[m].right = node[m].right /\ node'[m].dele = node[m].dele
             /\ node'[m].parent = node[m].parent /\ node'[m].rth = node[m].rth
             /\ node'[m].version = node[m].version /\ node'[m].lock = IF m = n THEN l ELSE node[m].lock
  <2>1. node[m] \in RtNode
    BY DEF IInv, TreeInv, Sound, Typed, Nodes
  <2> QED BY <1>2, <2>1 DEF RtNode
<1> DEFINE i == Len(walks)
<1>4. LocksAre(node', walks') /\ l \in 0 .. Len(walks)
  <2>1. walks \in Seq(Walk) /\ LocksAre(node, walks)
    BY DEF IInv, WalksFit
  <2>2. i \in DOMAIN walks /\ walks[i] = top /\ walks'[i] = w /\ \A j \in DOMAIN walks : j # i => walks'[j] = walks[j]
    BY <1>1 DEF top
  <2> HIDE DEF i
  <2>3. \/ walks[i].phase # "call" /\ walks'[i].phase = "call" /\ walks'[i].rtn = n /\ node'[n].lock = node[n].lock + 1
        \/ walks[i].phase = "call" /\ walks[i].rtn = n /\ walks'[i].phase # "call" /\ node'[n].lock = node[n].lock - 1
    BY <1>3, <2>2
  <2>4. /\ n \in DOMAIN node /\ DOMAIN node' = DOMAIN node
        /\ \A m \in DOMAIN node : node'[m].rth = node[m].rth /\ (m # n => node'[m].lock = node[m].lock)
    BY <1>2, <1>3 DEF Nodes
  <2>5. LockMoved(node, node', walks, walks', n, i)
    BY <1>1, <2>2, <2>3, <2>4 DEF LockMoved
  <2>6. LocksAre(node', walks') /\ node'[n].lock \in 0 .. Len(walks)
    BY <1>1, <2>1, <2>2, <2>4, <2>5, LocksMove
  <2>7. node'[n].lock = l
    BY <1>3
  <2> QED BY <2>6, <2>7
<1>5. l \in 0 .. MaxWalks
  BY <1>1, <1>4, RadixAssumption DEF IInv, WalksFit
<1>6. \A m \in Nodes : node'[m] \in RtNode
  BY <1>2, <1>3, <1>5 DEF RtNode
<1>7. TreeInv'
  BY <1>2, <1>3, <1>6, BodiesKeep DEF IInv
<1>8. WalksFit(walks', Nodes')
  BY <1>1, <1>2 DEF IInv, WalksFit
<1> QED BY <1>4, <1>7, <1>8 DEF IInv

LEMMA WalkDownIInv ==
  ASSUME IInv, WalkDown
  PROVE  IInv'
<1>0. /\ walks # <<>> /\ top.phase = "run" /\ top.rtn # NoNode /\ top.dir = "down"
      /\ UNCHANGED <<root, hnode, hver, version>>
  BY DEF WalkDown, Running
<1>1. top \in Walk /\ top.rtn \in Nodes
  BY <1>0, TopRuns
<1>2. CASE Top([top EXCEPT !.dir = "up"]) /\ UNCHANGED node
  <2> DEFINE w == [top EXCEPT !.dir = "up"]
  <2>1. w \in Walk /\ w.phase = "run" /\ w.rtn \in Nodes
    BY <1>0, <1>1 DEF Walk
  <2>2. Top(w)
    BY <1>2
  <2> HIDE DEF w
  <2> QED BY <1>0, <1>2, <2>1, <2>2, MoveIInv
<1>3. CASE Top(Descend(top)) /\ UNCHANGED node
  <2>1. Descend(top) \in Walk /\ Descend(top).phase = "run" /\ Descend(top).rtn \in Nodes
    BY <1>0, <1>1, DescendIs
  <2> QED BY <1>0, <1>3, <2>1, MoveIInv
<1>4. CASE /\ InRange(top.rtn, top)
           /\ Top([top EXCEPT !.phase = "call", !.left = IF @ > 0 THEN @ - 1 ELSE 0, !.last = top.rtn])
           /\ node' = [node EXCEPT ![top.rtn].lock = @ + 1]
  <2> DEFINE left == IF top.left > 0 THEN top.left - 1 ELSE 0
             w == [top EXCEPT !.phase = "call", !.left = left, !.last = top.rtn]
             n == top.rtn
             l == node[n].lock + 1
  <2>1. w \in Walk /\ w.phase = "call" /\ w.rtn = n
    <3>1. left \in Nat /\ top.rtn \in Node \cup {NoNode}
      BY <1>1 DEF Walk
    <3> HIDE DEF left
    <3> QED BY <1>1, <3>1 DEF Walk
  <2>2. Top(w) /\ node' = [node EXCEPT ![n].lock = l]
    BY <1>4
  <2>3. node[n].rth # NoHead
    BY <1>4 DEF InRange
  <2>4. l = node[n].lock + 1
    OBVIOUS
  <2> HIDE DEF w, n, l
  <2>5. n \in Nodes
    BY <1>1 DEF n
  <2> QED BY <1>0, <2>1, <2>2, <2>3, <2>4, <2>5, CallIInv
<1> QED BY <1>2, <1>3, <1>4 DEF WalkDown

LEMMA CallbackReturnsIInv ==
  ASSUME IInv, NEW stop \in BOOLEAN, CallbackReturns(stop)
  PROVE  IInv'
<1> DEFINE w0 == [top EXCEPT !.phase = "run"]
           w1 == Descend(w0)
           w  == IF stop THEN [w1 EXCEPT !.unlimited = FALSE, !.left = 0] ELSE w1
           n  == top.rtn
           l  == node[n].lock - 1
<1>0. /\ walks # <<>> /\ top.phase = "call" /\ Top(w) /\ node' = [node EXCEPT ![n].lock = l]
      /\ UNCHANGED <<root, hnode, hver, version>>
  BY DEF CallbackReturns
<1>1. top \in Walk /\ n \in Nodes /\ Len(walks) \in DOMAIN walks /\ walks \in Seq(Walk)
  BY <1>0, TopRuns
<1>2. w0 \in Walk /\ w0.phase = "run" /\ w0.rtn \in Nodes
  BY <1>1 DEF Walk
<1> HIDE DEF w0
<1>3. w1 \in Walk /\ w1.phase = "run" /\ w1.rtn \in Nodes
  BY <1>2, DescendIs
<1> HIDE DEF w1
<1>4. w \in Walk /\ w.phase = "run" /\ w.rtn \in Nodes
  <2>1. CASE stop
    <3> DEFINE e == [w1 EXCEPT !.unlimited = FALSE, !.left = 0]
    <3>1. e \in Walk /\ e.phase = "run" /\ e.rtn \in Nodes
      BY <1>3 DEF Walk
    <3> QED BY <2>1, <3>1
  <2>2. CASE ~stop
    BY <1>3, <2>2
  <2> QED BY <2>1, <2>2
<1>5. node[n].rth # NoHead
  <2>1. Len(walks) \in CallsAt(walks, n)
    BY <1>0, <1>1 DEF CallsAt, top
  <2>2. Cardinality(CallsAt(walks, n)) # 0
    BY <1>1, <2>1, CallsFinite
  <2> QED BY <1>1, <2>2 DEF IInv, LocksAre, Nodes
<1>6. l = node[n].lock - 1 /\ top.rtn = n
  OBVIOUS
<1> HIDE DEF w, n, l
<1> QED BY <1>0, <1>1, <1>4, <1>5, <1>6, CallIInv

LEMMA WalkRightIInv ==
  ASSUME IInv, WalkRight
  PROVE  IInv'
<1>0. /\ walks # <<>> /\ top.phase = "run" /\ top.rtn # NoNode
      /\ UNCHANGED <<node, root, hnode, hver, version>>
  BY DEF WalkRight, Running
<1>1. top \in Walk /\ top.rtn \in Nodes
  BY <1>0, TopRuns
<1> DEFINE r == node[top.rtn].right
<1>2. CASE r = NoNode
  <2> DEFINE w == [top EXCEPT !.dir = "up"]
  <2>1. w \in Walk /\ w.phase = "run" /\ w.rtn \in Nodes
    BY <1>0, <1>1 DEF Walk
  <2>2. Top(w)
    BY <1>2 DEF WalkRight
  <2> HIDE DEF w
  <2> QED BY <1>0, <2>1, <2>2, MoveIInv
<1>3. CASE r # NoNode
  <2> DEFINE w == [top EXCEPT !.dir = "down", !.rtn = r]
  <2>1. r \in Nodes /\ r \in Node
    <3>1. 1 \in Bit /\ SideIn(node, top.rtn, 1) = r
      BY DEF Bit, SideIn
    <3>2. Linked(node, root) /\ Nodes \subseteq Node
      BY DEF IInv, TreeInv, Sound, Typed, Nodes
    <3> QED BY <1>1, <1>3, <3>1, <3>2, Kin DEF Nodes
  <2>2. Top(w)
    BY <1>3 DEF WalkRight
  <2> HIDE DEF r
  <2>3. w \in Walk /\ w.phase = "run" /\ w.rtn \in Nodes
    BY <1>0, <1>1, <2>1 DEF Walk
  <2> HIDE DEF w
  <2> QED BY <1>0, <2>2, <2>3, MoveIInv
<1> QED BY <1>2, <1>3

LEMMA WalkUpIInv ==
  ASSUME IInv, WalkUp
  PROVE  IInv'
<1>0. walks # <<>> /\ top.phase = "run" /\ top.rtn # NoNode
  BY DEF WalkUp, Running
<1>1. top \in Walk /\ top.rtn \in Nodes
  BY <1>0, TopRuns
<1>2. CASE Sweepable(top.rtn)
  <2> DEFINE after == Removed(top.rtn, top.dir)
             w == [top EXCEPT !.rtn = after.rtn, !.dir = after.dir, !.clean = FALSE]
  <2>1. Becomes(top.rtn, after) /\ Top(w)
    BY <1>2 DEF WalkUp
  <2>2. Shrunk(top.rtn, after) /\ after.dir \in {"down", "right", "up"}
    BY <1>1, RemovedShrinks DEF IInv, TreeInv, Sound, Walk
  <2>3. after.rtn \in Node \cup {NoNode}
    BY <2>2 DEF Shrunk, Typed
  <2> HIDE DEF after
  <2>4. w \in Walk /\ w.phase = "run" /\ w.rtn = after.rtn
    BY <1>0, <1>1, <2>2, <2>3 DEF Walk
  <2> HIDE DEF w
  <2> QED BY <1>0, <1>1, <1>2, <2>1, <2>2, <2>4, SweepIInv
<1>3. CASE ~Sweepable(top.rtn)
  <2> DEFINE up == node[top.rtn].parent
             dir == IF up # NoNode /\ node[up].left = top.rtn THEN "right" ELSE "up"
             w == [top EXCEPT !.rtn = up, !.dir = dir]
  <2>1. Top(w) /\ UNCHANGED <<node, root, hnode, hver, version>>
    BY <1>3 DEF WalkUp
  <2>2. up \in Nodes \cup {NoNode} /\ up \in Node \cup {NoNode}
    <3>1. Linked(node, root) /\ Nodes \subseteq Node
      BY DEF IInv, TreeInv, Sound, Typed, Nodes
    <3> QED BY <1>1, <3>1, Kin DEF Nodes
  <2>3. dir \in {"down", "right", "up"}
    OBVIOUS
  <2> HIDE DEF up, dir
  <2>4. w \in Walk /\ w.phase = "run" /\ w.rtn = up
    BY <1>0, <1>1, <2>2, <2>3 DEF Walk
  <2> HIDE DEF w
  <2> QED BY <1>0, <2>1, <2>2, <2>4, MoveIInv
<1> QED BY <1>2, <1>3

LEMMA BeginSweepIInv ==
  ASSUME IInv, BeginSweep
  PROVE  IInv'
<1>0. /\ walks # <<>> /\ top.phase = "run" /\ top.rtn # NoNode
      /\ UNCHANGED <<node, root, hnode, hver, version>>
  BY DEF BeginSweep
<1>1. top \in Walk /\ top.rtn \in Nodes
  BY <1>0, TopRuns
<1> DEFINE w == [top EXCEPT !.phase = "sweep", !.at = top.rtn]
<1>2. w \in Walk /\ w.phase = "sweep" /\ w.at \in Nodes
  BY <1>1 DEF Walk
<1>3. Top(w)
  BY DEF BeginSweep
<1> HIDE DEF w
<1> QED BY <1>0, <1>2, <1>3, MoveIInv

LEMMA SweepStepIInv ==
  ASSUME IInv, Sweep
  PROVE  IInv'
<1>0. walks # <<>> /\ top.phase = "sweep" /\ top.at # NoNode
  BY DEF Sweep
<1>1. top \in Walk /\ top.at \in Nodes
  BY <1>0, TopRuns
<1>2. CASE Sweepable(top.at)
  <2> DEFINE after == Removed(top.at, top.dir)
             w == [top EXCEPT !.at = after.rtn, !.dir = after.dir, !.clean = FALSE]
  <2>1. Becomes(top.at, after) /\ Top(w)
    BY <1>2 DEF Sweep
  <2>2. Shrunk(top.at, after) /\ after.dir \in {"down", "right", "up"}
    BY <1>1, RemovedShrinks DEF IInv, TreeInv, Sound, Walk
  <2>3. after.rtn \in Node \cup {NoNode}
    BY <2>2 DEF Shrunk, Typed
  <2> HIDE DEF after
  <2>4. w \in Walk /\ w.phase = "sweep" /\ w.at = after.rtn
    BY <1>0, <1>1, <2>2, <2>3 DEF Walk
  <2> HIDE DEF w
  <2> QED BY <1>0, <1>1, <1>2, <2>1, <2>2, <2>4, SweepIInv
<1>3. CASE ~Sweepable(top.at)
  <2> DEFINE up == node[top.at].parent
             w == [top EXCEPT !.at = up]
  <2>1. Top(w) /\ UNCHANGED <<node, root, hnode, hver, version>>
    BY <1>3 DEF Sweep
  <2>2. up \in Nodes \cup {NoNode} /\ up \in Node \cup {NoNode}
    <3>1. Linked(node, root) /\ Nodes \subseteq Node
      BY DEF IInv, TreeInv, Sound, Typed, Nodes
    <3> QED BY <1>1, <3>1, Kin DEF Nodes
  <2> HIDE DEF up
  <2>3. w \in Walk /\ w.phase = "sweep" /\ w.at = up
    BY <1>0, <1>1, <2>2 DEF Walk
  <2> HIDE DEF w
  <2> QED BY <1>0, <2>1, <2>2, <2>3, MoveIInv
<1> QED BY <1>2, <1>3

LEMMA EndWalkIInv ==
  ASSUME IInv, EndWalk
  PROVE  IInv'
<1> DEFINE k == Len(walks) - 1
<1>1. /\ walks # <<>> /\ walks' = SubSeq(walks, 1, k) /\ top.phase # "call"
      /\ UNCHANGED <<node, root, hnode, hver, version>>
  BY DEF EndWalk, WalkIsOver
<1>2. walks \in Seq(Walk) /\ LocksAre(node, walks) /\ WalksFit(walks, Nodes)
  BY DEF IInv, WalksFit
<1>3. Len(walks) \in Nat /\ Len(walks) # 0 /\ DOMAIN walks = 1 .. Len(walks)
  BY <1>1, <1>2, LenProperties, EmptySeq
<1>4. k \in Nat /\ k + 1 = Len(walks)
  BY <1>3
<1>5. /\ walks' \in Seq(Walk) /\ Len(walks') = k /\ DOMAIN walks' = 1 .. k
      /\ \A i \in 1 .. k : walks'[i] = walks[i]
  <2>1. walks' = [i \in 1 .. k |-> walks[i]]
    BY <1>1, <1>4
  <2>2. \A i \in 1 .. k : walks[i] \in Walk
    BY <1>2, <1>3, <1>4, ElementOfSeq
  <2> HIDE DEF k
  <2>3. walks' \in [1 .. k -> Walk]
    BY <2>1, <2>2
  <2>4. walks' \in Seq(Walk)
    BY <1>4, <2>3, SeqDef
  <2>5. Len(walks') \in Nat /\ 1 .. Len(walks') = 1 .. k
    BY <2>1, <2>4, LenProperties
  <2> DEFINE a == Len(walks')
  <2>6. a \in Nat /\ 1 .. a = 1 .. k
    BY <2>5
  <2> HIDE DEF a
  <2>7. a = k
    BY ONLY <1>4, <2>6
  <2> QED BY <2>1, <2>4, <2>7 DEF a
<1> HIDE DEF k
<1> DEFINE len == Len(walks)
<1>6. \A i \in 1 .. k : i \in DOMAIN walks /\ i # Len(walks)
  <2>1. len \in Nat /\ DOMAIN walks = 1 .. len /\ k \in Nat /\ k + 1 = len
    BY <1>3, <1>4
  <2> HIDE DEF len
  <2>2. \A i \in 1 .. k : i \in 1 .. len /\ i # len
    BY ONLY <2>1
  <2>3. \A i \in 1 .. k : i \in DOMAIN walks /\ i # len
    BY <2>1, <2>2
  <2> QED BY <2>3 DEF len
<1>7. \A n : CallsAt(walks', n) = CallsAt(walks, n)
  <2>1. \A i \in DOMAIN walks : i \in 1 .. k \/ i = Len(walks)
    BY <1>3, <1>4
  <2>2. walks[Len(walks)].phase # "call"
    BY <1>1 DEF top
  <2> QED BY <1>5, <1>6, <2>1, <2>2 DEF CallsAt
<1>8. LocksAre(node', walks')
  <2>1. \A n \in DOMAIN node : node[n].lock # 0 => node[n].rth # NoHead
    BY <1>2 DEF LocksAre
  <2>2. LocksAre(node, walks')
    BY <1>2, <1>5, <1>6, <1>7, <2>1, LocksStay
  <2> QED BY <1>1, <2>2
<1>9. WalksFit(walks', Nodes')
  <2>1. Len(walks') <= MaxWalks
    <3>1. len \in Nat /\ len <= MaxWalks /\ MaxWalks \in Nat /\ k \in Nat /\ k + 1 = len
      BY <1>2, <1>3, <1>4, RadixAssumption DEF WalksFit
    <3> HIDE DEF len
    <3>2. k <= MaxWalks
      BY ONLY <3>1
    <3> QED BY ONLY <1>5, <3>2
  <2>2. \A i \in 1 .. k : walks'[i].phase = "call"
    BY <1>2, <1>3, <1>5, <1>6 DEF WalksFit
  <2>3. walks' # <<>> => Len(walks') \in 1 .. k
    <3>1. walks' # <<>> => Len(walks') # 0
      BY <1>5, EmptySeq
    <3> QED BY <1>4, <1>5, <3>1
  <2> QED BY <1>5, <2>1, <2>2, <2>3 DEF WalksFit
<1> QED BY <1>1, <1>8, <1>9, TreeUnchanged DEF IInv
LEMMA StepIInv ==
  ASSUME IInv, [Next]_vars
  PROVE  IInv'
<1>1. CASE UNCHANGED vars
  <2>1. UNCHANGED <<node, root, hnode, hver, version, walks>>
    BY <1>1 DEF vars
  <2> QED BY <2>1 DEF IInv, TreeInv, HeadsFit, VersionsFit, Nodes
<1>2. ASSUME NEW h \in Rth, Insert(h) PROVE IInv'
  BY <1>2, InsertIInv
<1>3. ASSUME NEW h \in Rth, SetVersion(h) PROVE IInv'
  BY <1>3, InsertIInv
<1>4. ASSUME NEW h \in Rth, Remove(h) PROVE IInv'
  BY <1>4, RemoveIInv
<1>5. CASE Reset
  BY <1>5, ResetIInv
<1>6. ASSUME NEW cnt \in Counts, NEW min \in 0 .. version, NEW max \in 0 .. version, BeginWalk(cnt, min, max) PROVE IInv'
  BY <1>6, BeginWalkIInv
<1>7. ASSUME NEW stop \in BOOLEAN, CallbackReturns(stop) PROVE IInv'
  BY <1>7, CallbackReturnsIInv
<1>8. CASE WalkDown
  BY <1>8, WalkDownIInv
<1>9. CASE WalkRight
  BY <1>9, WalkRightIInv
<1>10. CASE WalkUp
  BY <1>10, WalkUpIInv
<1>11. CASE BeginSweep
  BY <1>11, BeginSweepIInv
<1>12. CASE Sweep
  BY <1>12, SweepStepIInv
<1>13. CASE EndWalk
  BY <1>13, EndWalkIInv
<1> QED
  BY <1>1, <1>2, <1>3, <1>4, <1>5, <1>6, <1>7, <1>8, <1>9, <1>10, <1>11, <1>12, <1>13 DEF Next

\* The inductive invariant: the links lead to the nearest nodes there are, a
\* node without a head has two children, no node is older than one below it,
\* and the locks are the callbacks under way.
LEMMA IInvHolds == Spec => []IInv
<1>1. Init => IInv
  BY InitHolds
<1>2. IInv /\ [Next]_vars => IInv'
  BY StepIInv
<1> QED BY <1>1, <1>2, PTL DEF Spec
----------------------------------------------------------------------------
(* What follows from it.                                                   *)

LEMMA RootIsANode ==
  ASSUME IInv
  PROVE  root \in Nodes \cup {NoNode} /\ hnode \in [Rth -> Nodes \cup {NoNode}]
<1>1. root \in Nodes \cup {NoNode}
  BY DEF IInv, TreeInv, Sound, Linked, RootIs, Nodes
<1>2. \A h \in Rth : hnode[h] \in Nodes \cup {NoNode}
  BY DEF IInv, TreeInv, HeadsFit
<1>3. hnode \in [Rth -> Node \cup {NoNode}]
  BY DEF IInv, TreeInv
<1> QED BY <1>1, <1>2, <1>3

\* Whatever callbacks do, every link, head and walk of the tree of
\* std_radix.c refers to a node that is allocated or to none, no node counts
\* more callbacks than walks may be under way, and no version is above that
\* of the tree.
THEOREM RadixTypeCorrect == Spec => []TypeOK
<1>1. ASSUME IInv PROVE TypeOK
  <2>1. Nodes \subseteq Node /\ \A n \in Nodes : node[n] \in RtNode
    BY <1>1 DEF IInv, TreeInv, Sound, Typed, Nodes
  <2>2. hver \in [Rth -> 0 .. version] /\ version \in 0 .. MaxVersion
    BY <1>1 DEF IInv, TreeInv, VersionsFit
  <2>3. walks \in Seq(Walk) /\ Len(walks) <= MaxWalks
    BY <1>1 DEF IInv, WalksFit
  <2> QED BY <1>1, <2>1, <2>2, <2>3, RootIsANode DEF TypeOK
<1> QED BY <1>1, IInvHolds, PTL

\* std_radix_setversion climbs to the root once; nodes put in between, taken
\* out and swept since do not lose what it wrote: a walk by versions may turn
\* back at a node that is older than its range.
THEOREM VersionsAreAbove == Spec => []VersionsReachUp
<1>1. ASSUME IInv PROVE VersionsReachUp
  <2> SUFFICES ASSUME NEW h \in Rth, hnode[h] # NoNode, NEW n \in Above(hnode[h]) \cup {hnode[h]}
               PROVE  node[n].version >= hver[h]
    BY DEF VersionsReachUp, WithUser
  <2> DEFINE at == hnode[h]
  <2>1. at \in Nodes /\ hver[h] <= node[at].version /\ hver[h] \in Nat
    <3>1. hver[h] \in 0 .. version /\ version \in Nat
      BY <1>1, RadixAssumption DEF IInv, TreeInv, VersionsFit
    <3> QED BY <1>1, <3>1, RootIsANode DEF IInv, TreeInv, VersionsFit
  <2> HIDE DEF at
  <2>2. n \in Nodes /\ (n = at \/ IsPrefix(n, at))
    BY <2>1 DEF Above, at
  <2>3. node[n].version \in Nat /\ node[at].version \in Nat
    BY <1>1, <2>1, <2>2, RadixAssumption DEF IInv, TreeInv, Sound, Typed, Nodes, RtNode
  <2>4. node[at].version <= node[n].version
    BY <1>1, <2>1, <2>2, <2>3 DEF IInv, TreeInv, Sound, OlderAbove, Nodes
  <2> QED BY <2>1, <2>3, <2>4
<1> QED BY <1>1, IInvHolds, PTL

\* rtn_lock counts the callbacks that come back to a node, so that a node
\* std_radix_versionwalk stands on is there, with a head, when its callback
\* returns, though the callback and the walks within it remove and sweep.
THEOREM NodesAreKept == Spec => []WalksKeepTheirNodes
<1>1. ASSUME IInv PROVE WalksKeepTheirNodes
  <2>1. \A n \in Nodes : node[n].lock \in Nat
    BY <1>1, RadixAssumption DEF IInv, TreeInv, Sound, Typed, Nodes, RtNode
  <2>2. LocksAre(node, walks)
    BY <1>1 DEF IInv
  <2> QED BY <2>1, <2>2 DEF WalksKeepTheirNodes, LocksAre, CallsAt, Nodes
<1> QED BY <1>1, IInvHolds, PTL
----------------------------------------------------------------------------
(* The tree and its heads determine each other.                            *)

\* r is where p and q part, or one of them.
Parts(r, p, q) == /\ IsPrefix(r, p) /\ IsPrefix(r, q)
                  /\ r = p \/ r = q \/ \A b : ~(On(p, r, b) /\ On(q, r, b))

LEMMA PartsIsMeet ==
  ASSUME NEW p \in Node, NEW q \in Node, NEW r \in Node, Parts(r, p, q)
  PROVE  Meet(p, q) = r
<1> DEFINE Good(s) == /\ IsPrefix(s, p) /\ IsPrefix(s, q)
                      /\ \A i \in {Len(s) + 1} : i <= Len(p) /\ i <= Len(q) => p[i] # q[i]
<1>1. ASSUME NEW s \in Node PROVE Good(s) <=> Parts(s, p, q)
  <2> SUFFICES ASSUME IsPrefix(s, p), IsPrefix(s, q)
               PROVE  (Len(s) + 1 <= Len(p) /\ Len(s) + 1 <= Len(q) => p[Len(s) + 1] # q[Len(s) + 1])
                        <=> (s = p \/ s = q \/ \A b : ~(On(p, s, b) /\ On(q, s, b)))
    BY DEF Parts
  <2>1. /\ s = p <=> ~(Len(s) + 1 <= Len(p))
        /\ s = q <=> ~(Len(s) + 1 <= Len(q))
    BY Prefixes
  <2>2. s # p /\ s # q => ((p[Len(s) + 1] # q[Len(s) + 1]) <=> \A b : ~(On(p, s, b) /\ On(q, s, b)))
    BY DEF On
  <2> QED BY <2>1, <2>2
<1>2. ASSUME NEW s \in Node, NEW u \in Node, Parts(s, p, q), Parts(u, p, q), Len(s) <= Len(u), s # u PROVE FALSE
  <2>1. IsPrefix(s, u)
    BY <1>2, Prefixes DEF Parts
  <2>2. PICK b \in Bit : On(u, s, b)
    BY <1>2, <2>1, Sides
  <2>3. On(p, s, b) /\ On(q, s, b)
    BY <1>2, <2>2, Sides DEF Parts
  <2>4. s # p /\ s # q
    BY <2>3, Sides
  <2> QED BY <1>2, <2>3, <2>4 DEF Parts
<1>3. ASSUME NEW s \in Node, Parts(s, p, q) PROVE s = r
  <2>1. Len(s) \in Nat /\ Len(r) \in Nat
    BY Prefixes
  <2>2. Len(s) <= Len(r) \/ Len(r) <= Len(s)
    BY <2>1
  <2> QED BY <1>2, <1>3, <2>2
<1>4. Good(r) /\ \A s \in Node : Good(s) => s = r
  BY <1>1, <1>3
<1>5. Meet(p, q) = CHOOSE s \in Node : Good(s)
  BY DEF Meet
<1> HIDE DEF Good
<1> QED BY <1>4, <1>5

\* Of the nodes of a set there is one with the most bits.
LEMMA LongestExists ==
  ASSUME NEW S \in SUBSET Node, S # {}
  PROVE  \E n \in S : \A m \in S : Len(m) <= Len(n)
<1> DEFINE rest(n) == Width - Len(n)
           D == {rest(n) : n \in S}
<1>1. \A n \in S : Len(n) \in Nat /\ Len(n) <= Width /\ Width \in Nat
  BY Prefixes, RadixAssumption
<1>2. D \in SUBSET Nat /\ D # {}
  BY <1>1
<1>3. PICK d \in D : \A e \in D : d <= e
  <2> HIDE DEF D
  <2> QED BY <1>2, LeastNumber
<1>4. PICK n \in S : d = Width - Len(n)
  OBVIOUS
<1>5. ASSUME NEW m \in S PROVE Len(m) <= Len(n)
  <2>1. d <= rest(m)
    BY <1>3
  <2> QED BY <1>1, <1>4, <2>1
<1> QED BY <1>5

\* Under every node is a head.
LEMMA HeadUnder ==
  ASSUME IInv, NEW n \in Nodes
  PROVE  \E h \in Rth : hnode[h] # NoNode /\ IsPrefix(n, KeyOf(h))
<1> DEFINE S == {m \in Nodes : IsPrefix(n, m)}
<1>0. Linked(node, root) /\ Nodes \subseteq Node /\ FullIn(node) /\ HeadsFit /\ \A m \in Nodes : node[m] \in RtNode
  BY DEF IInv, TreeInv, Sound, Typed, Nodes
<1>1. S \in SUBSET Node /\ n \in S
  BY <1>0, Prefixes
<1>2. PICK m \in S : \A k \in S : Len(k) <= Len(m)
  <2> HIDE DEF S
  <2> QED BY <1>1, LongestExists
<1>3. m \in Nodes /\ m \in Node /\ IsPrefix(n, m)
  BY <1>0
<1>4. ASSUME node[m].rth = NoHead PROVE FALSE
  <2>1. 0 \in Bit
    BY DEF Bit
  <2>2. SideIn(node, m, 0) # NoNode
    BY <1>0, <1>3, <1>4, <2>1 DEF FullIn, FullAt, Nodes
  <2>3. PICK s : s = SideIn(node, m, 0)
    OBVIOUS
  <2>4. s \in Nodes /\ On(s, m, 0)
    BY <1>0, <1>3, <2>1, <2>2, <2>3, Kin DEF Nodes
  <2>5. IsPrefix(m, s) /\ m # s /\ s \in Node
    BY <1>0, <2>4, Sides
  <2>6. s \in S
    BY <1>0, <1>3, <2>4, <2>5, Prefixes
  <2>7. Len(s) <= Len(m) /\ Len(m) < Len(s) /\ Len(m) \in Nat /\ Len(s) \in Nat
    BY <1>2, <1>3, <2>5, <2>6, Prefixes
  <2> QED BY <2>7
<1>5. node[m].rth \in Rth /\ hnode[node[m].rth] = m /\ m = KeyOf(node[m].rth) /\ m # NoNode
  BY <1>0, <1>3, <1>4, RadixAssumption DEF HeadsFit, RtNode
<1> QED BY <1>3, <1>5

\* Where two nodes part is a node.
LEMMA PartingIsANode ==
  ASSUME IInv, NEW p \in Nodes, NEW q \in Nodes
  PROVE  \E r \in Nodes : Parts(r, p, q)
<1> DEFINE S == {m \in Nodes : IsPrefix(m, p) /\ IsPrefix(m, q)}
<1>0. Linked(node, root) /\ Nodes \subseteq Node /\ p \in Node /\ q \in Node
  BY DEF IInv, TreeInv, Sound, Typed, Nodes
<1>1. S \in SUBSET Node /\ S # {}
  <2>1. root \in S
    BY <1>0 DEF Linked, RootIs, Nodes
  <2> QED BY <1>0, <2>1
<1>2. PICK r \in S : \A k \in S : Len(k) <= Len(r)
  <2> HIDE DEF S
  <2> QED BY <1>1, LongestExists
<1>3. r \in Nodes /\ r \in Node /\ IsPrefix(r, p) /\ IsPrefix(r, q)
  BY <1>0
<1>4. ASSUME r # p, r # q, NEW b, On(p, r, b), On(q, r, b) PROVE FALSE
  <2>1. b \in Bit
    BY <1>0, <1>3, <1>4, Sides
  <2>2. PICK s : s = SideIn(node, r, b)
    OBVIOUS
  <2>3. SideIs(node, r, b, s)
    BY <1>0, <1>3, <2>1, <2>2 DEF Linked, Nodes
  <2>4. s \in Nodes /\ On(s, r, b) /\ IsPrefix(s, p) /\ IsPrefix(s, q)
    BY <1>4, <2>3 DEF SideIs, Nodes
  <2>5. s \in S /\ s \in Node /\ IsPrefix(r, s) /\ r # s
    BY <1>0, <2>4, Sides
  <2>6. Len(s) <= Len(r) /\ Len(r) < Len(s) /\ Len(r) \in Nat /\ Len(s) \in Nat
    BY <1>2, <1>3, <2>5, Prefixes
  <2> QED BY <2>6
<1> QED BY <1>3, <1>4 DEF Parts

LEMMA NodesAreMeets ==
  ASSUME IInv
  PROVE  LET keys == {KeyOf(h) : h \in Rth \ WithUser} IN Nodes = {Meet(p, q) : p, q \in keys}
<1> DEFINE keys == {KeyOf(h) : h \in Rth \ WithUser}
<1>0. Linked(node, root) /\ Nodes \subseteq Node /\ FullIn(node) /\ HeadsFit /\ \A m \in Nodes : node[m] \in RtNode
  BY DEF IInv, TreeInv, Sound, Typed, Nodes
<1>1. keys \subseteq Nodes
  <2> SUFFICES ASSUME NEW h \in Rth, hnode[h] # NoNode PROVE KeyOf(h) \in Nodes
    BY DEF WithUser
  <2> QED BY <1>0, RadixAssumption DEF HeadsFit
<1>2. ASSUME NEW p \in keys, NEW q \in keys PROVE Meet(p, q) \in Nodes
  <2>1. PICK r \in Nodes : Parts(r, p, q)
    BY <1>1, PartingIsANode
  <2>2. Meet(p, q) = r
    BY <1>0, <1>1, <2>1, PartsIsMeet
  <2> QED BY <2>2
<1>3. ASSUME NEW n \in Nodes PROVE \E p, q \in keys : n = Meet(p, q)
  <2>1. CASE node[n].rth # NoHead
    <3>1. node[n].rth \in Rth /\ hnode[node[n].rth] = n /\ n = KeyOf(node[n].rth) /\ n # NoNode
      BY <1>0, <2>1, RadixAssumption DEF HeadsFit, RtNode
    <3>2. n \in keys
      BY <3>1 DEF WithUser
    <3>3. Parts(n, n, n)
      BY <1>0, Prefixes DEF Parts
    <3> QED BY <1>0, <3>2, <3>3, PartsIsMeet
  <2>2. CASE node[n].rth = NoHead
    <3>1. ASSUME NEW b \in Bit PROVE \E k \in keys : On(k, n, b)
      <4>1. PICK s : s = SideIn(node, n, b)
        OBVIOUS
      <4>2. s \in Nodes /\ On(s, n, b)
        BY <1>0, <2>2, <4>1, Kin DEF FullIn, FullAt, Nodes
      <4>3. PICK h \in Rth : hnode[h] # NoNode /\ IsPrefix(s, KeyOf(h))
        BY <4>2, HeadUnder
      <4>4. KeyOf(h) \in keys
        BY <4>3 DEF WithUser
      <4>5. KeyOf(h) \in Node
        BY <1>0, <1>1, <4>4
      <4>6. On(KeyOf(h), n, b)
        BY <1>0, <4>2, <4>3, <4>5, Sides
      <4> QED BY <4>4, <4>6
    <3>2. PICK x, y : x \in Bit /\ y \in Bit /\ x # y
      <4>1. 0 \in Bit /\ 1 \in Bit /\ 0 # 1
        BY DEF Bit
      <4> QED BY <4>1
    <3>3. PICK p \in keys : On(p, n, x)
      BY <3>1, <3>2
    <3>4. PICK q \in keys : On(q, n, y)
      BY <3>1, <3>2
    <3>5. Parts(n, p, q)
      BY <3>2, <3>3, <3>4, Sides DEF Parts
    <3>6. Meet(p, q) = n
      BY <1>0, <1>1, <3>5, PartsIsMeet
    <3> QED BY <3>6
  <2> QED BY <2>1, <2>2
<1> HIDE DEF keys
<1>4. Nodes = {Meet(p, q) : p, q \in keys}
  BY <1>2, <1>3
<1> QED BY <1>4 DEF keys

\* Whatever std_radix_insert, std_radix_remove and the walks that sweep have
\* done, in any order, the tree is the only one its heads allow: a node for
\* the prefix of every head, one where two of them part, no other, and links
\* to the nearest above and below.
THEOREM TreeIsCanonical == Spec => []TreeIsTheHeads
<1>1. ASSUME IInv PROVE TreeIsTheHeads
  <2>0. Linked(node, root) /\ HeadsFit /\ Nodes = DOMAIN node /\ \A n \in Nodes : node[n].parent # NoNode => n # NoNode
    BY <1>1, Kin DEF IInv, TreeInv, Sound, Nodes
  <2>1. IF Nodes = {} THEN root = NoNode ELSE IsTop(root, Nodes)
    BY <2>0 DEF Linked, RootIs, IsTop
  <2>2. \A h \in Rth \ WithUser : node[hnode[h]].rth = h /\ hnode[h] = KeyOf(h)
    <3> SUFFICES ASSUME NEW h \in Rth, hnode[h] # NoNode PROVE node[hnode[h]].rth = h /\ hnode[h] = KeyOf(h)
      BY DEF WithUser
    <3>1. hnode[h] \in Nodes /\ node[hnode[h]].rth = h /\ h # NoHead
      BY <2>0, RadixAssumption DEF HeadsFit
    <3> QED BY <2>0, <3>1 DEF HeadsFit
  <2>3. ASSUME NEW n \in Nodes
        PROVE  IF Above(n) = {} THEN node[n].parent = NoNode
               ELSE node[n].parent \in Above(n) /\ \A m \in Above(n) : IsPrefix(m, node[n].parent)
    <3>1. ParentIs(node, n, node[n].parent)
      BY <2>0 DEF Linked
    <3> QED BY <2>0, <3>1 DEF ParentIs, Above
  <2>4. ASSUME NEW n \in Nodes, NEW b \in Bit
        PROVE  IF Under(n, b) = {} THEN SideIn(node, n, b) = NoNode ELSE IsTop(SideIn(node, n, b), Under(n, b))
    <3>1. SideIs(node, n, b, SideIn(node, n, b))
      BY <2>0 DEF Linked
    <3>2. Under(n, b) = {m \in Nodes : On(m, n, b)}
      BY DEF Under, On
    <3> QED BY <2>0, <3>1, <3>2 DEF SideIs, IsTop
  <2>5. ASSUME NEW n \in Nodes
        PROVE  /\ IF Under(n, 0) = {} THEN node[n].left = NoNode ELSE IsTop(node[n].left, Under(n, 0))
               /\ IF Under(n, 1) = {} THEN node[n].right = NoNode ELSE IsTop(node[n].right, Under(n, 1))
    <3>1. 0 \in Bit /\ 1 \in Bit /\ SideIn(node, n, 0) = node[n].left /\ SideIn(node, n, 1) = node[n].right
      BY DEF Bit, SideIn
    <3>2. PICK x, y : x = 0 /\ y = 1
      OBVIOUS
    <3>3. x \in Bit /\ y \in Bit /\ SideIn(node, n, x) = node[n].left /\ SideIn(node, n, y) = node[n].right
      BY <3>1, <3>2
    <3>4. IF Under(n, x) = {} THEN node[n].left = NoNode ELSE IsTop(node[n].left, Under(n, x))
      BY <2>4, <3>3
    <3>5. IF Under(n, y) = {} THEN node[n].right = NoNode ELSE IsTop(node[n].right, Under(n, y))
      BY <2>4, <3>3
    <3> QED BY <3>2, <3>4, <3>5
  <2>6. \A n \in Nodes : node[n].rth # NoHead => hnode[node[n].rth] = n
    BY <2>0 DEF HeadsFit
  <2> QED BY <1>1, <2>1, <2>2, <2>3, <2>5, <2>6, NodesAreMeets DEF TreeIsTheHeads
<1> QED BY <1>1, IInvHolds, PTL
----------------------------------------------------------------------------
(* The tree implements the table.                                          *)

\* The table holds each head that is in it at its prefix.
TableFacts ==
  /\ TableOf \in [Node -> Rth \cup {NoHead}]
  /\ \A p \in Node, h \in Rth : TableOf[p] = h <=> h \in InTable /\ p = KeyOf(h)

LEMMA TableFactsHold ==
  ASSUME IInv
  PROVE  TableFacts
<1>0. HeadsFit /\ Nodes \subseteq Node /\ NoHead \notin Rth /\ \A m \in Nodes : node[m] \in RtNode
  BY RadixAssumption DEF IInv, TreeInv, Sound, Typed, Nodes
<1>1. ASSUME NEW p \in Node
      PROVE  TableOf[p] \in Rth \cup {NoHead} /\ TableOf[p] = IF p \in Nodes /\ ~node[p].dele THEN node[p].rth ELSE NoHead
  BY <1>0 DEF TableOf, RtNode
<1>2. TableOf \in [Node -> Rth \cup {NoHead}]
  <2>1. TableOf = [p \in Node |-> TableOf[p]]
    BY DEF TableOf
  <2> QED BY <1>1, <2>1
<1>3. ASSUME NEW h \in Rth, h \in InTable
      PROVE  hnode[h] \in Nodes /\ hnode[h] = KeyOf(h) /\ node[hnode[h]].rth = h /\ ~node[hnode[h]].dele
  BY <1>0, <1>3 DEF InTable, WithUser, HeadsFit
<1>4. ASSUME NEW p \in Node, NEW h \in Rth, TableOf[p] = h PROVE h \in InTable /\ p = KeyOf(h)
  <2>1. p \in Nodes /\ ~node[p].dele /\ node[p].rth = h /\ h # NoHead
    BY <1>0, <1>1, <1>4
  <2>2. p = KeyOf(h) /\ hnode[h] = p /\ p # NoNode
    BY <1>0, <2>1, RadixAssumption DEF HeadsFit
  <2> QED BY <2>1, <2>2 DEF InTable, WithUser
<1>5. ASSUME NEW p \in Node, NEW h \in Rth, h \in InTable, p = KeyOf(h) PROVE TableOf[p] = h
  BY <1>1, <1>3, <1>5
<1> QED BY <1>2, <1>4, <1>5 DEF TableFacts

LEMMA TableStays ==
  ASSUME TableFacts, TableFacts', InTable' = InTable, \A h \in InTable : hver'[h] = hver[h]
  PROVE  TableOf' = TableOf /\ VersionOf' = VersionOf
<1>1. ASSUME NEW p \in Node PROVE TableOf'[p] = TableOf[p]
  BY RadixAssumption DEF TableFacts
<1>2. TableOf' = TableOf
  BY <1>1 DEF TableFacts
<1>3. VersionOf' = VersionOf
  BY DEF VersionOf
<1> QED BY <1>2, <1>3

LEMMA TableGains ==
  ASSUME TableFacts, TableFacts', NEW h \in Rth, h \notin InTable, InTable' = InTable \cup {h}, hver'[h] = 0,
         \A g \in InTable : hver'[g] = hver[g], UNCHANGED version
  PROVE  Table!Insert(h)
<1>0. KeyOf(h) \in Node /\ NoHead \notin Rth /\ InTable \subseteq Rth
  BY KeyIs, RadixAssumption DEF InTable
<1>1. TableOf'[KeyOf(h)] = h
  BY <1>0 DEF TableFacts
<1>2. TableOf[KeyOf(h)] = NoHead
  <2> SUFFICES ASSUME NEW g \in Rth, TableOf[KeyOf(h)] = g PROVE FALSE
    BY <1>0 DEF TableFacts
  <2>1. g \in InTable /\ KeyOf(h) = KeyOf(g) /\ g # h
    BY <1>0 DEF TableFacts
  <2>2. TableOf'[KeyOf(h)] = g
    BY <1>0, <2>1 DEF TableFacts
  <2> QED BY <1>1, <2>1, <2>2
<1>3. ASSUME NEW p \in Node, p # KeyOf(h) PROVE TableOf'[p] = TableOf[p]
  BY <1>0, <1>3 DEF TableFacts
<1>4. TableOf' = [TableOf EXCEPT ![KeyOf(h)] = h]
  BY <1>0, <1>1, <1>3 DEF TableFacts
<1>5. VersionOf' = [VersionOf EXCEPT ![h] = 0]
  BY <1>0 DEF VersionOf
<1> QED BY <1>2, <1>4, <1>5 DEF Table!Insert

LEMMA TableLoses ==
  ASSUME TableFacts, TableFacts', NEW h \in Rth, h \in InTable, InTable' = InTable \ {h},
         \A g \in InTable : g # h => hver'[g] = hver[g], UNCHANGED version
  PROVE  Table!Remove(h)
<1>0. KeyOf(h) \in Node /\ NoHead \notin Rth /\ InTable \subseteq Rth
  BY KeyIs, RadixAssumption DEF InTable
<1>1. TableOf[KeyOf(h)] = h
  BY <1>0 DEF TableFacts
<1>2. TableOf'[KeyOf(h)] = NoHead
  <2> SUFFICES ASSUME NEW g \in Rth, TableOf'[KeyOf(h)] = g PROVE FALSE
    BY <1>0 DEF TableFacts
  <2>1. g \in InTable /\ KeyOf(h) = KeyOf(g) /\ g # h
    BY <1>0 DEF TableFacts
  <2>2. TableOf[KeyOf(h)] = g
    BY <1>0, <2>1 DEF TableFacts
  <2> QED BY <1>1, <2>1, <2>2
<1>3. ASSUME NEW p \in Node, p # KeyOf(h) PROVE TableOf'[p] = TableOf[p]
  BY <1>0, <1>1, <1>3 DEF TableFacts
<1>4. TableOf' = [TableOf EXCEPT ![KeyOf(h)] = NoHead]
  BY <1>0, <1>2, <1>3 DEF TableFacts
<1>5. VersionOf' = [VersionOf EXCEPT ![h] = 0]
  BY <1>0 DEF VersionOf
<1> QED BY <1>1, <1>4, <1>5 DEF Table!Remove

\* Marks and places as before.
LEMMA SameTable ==
  ASSUME IInv, TableFacts, TableFacts', UNCHANGED <<hnode, hver, version>>,
         \A m \in Nodes : node'[m].dele = node[m].dele
  PROVE  UNCHANGED Table!vars
<1>1. \A h \in Rth : hnode[h] # NoNode => hnode[h] \in Nodes
  BY DEF IInv, TreeInv, HeadsFit
<1>2. InTable' = InTable
  BY <1>1 DEF InTable, WithUser
<1> QED BY <1>2, TableStays DEF Table!vars

LEMMA GrownGains ==
  ASSUME IInv, TableFacts, TableFacts', NEW h \in Rth, hnode[h] = NoNode, Grown(h, node', root'), Give(h, KeyOf(h))
  PROVE  Table!Insert(h)
<1>1. /\ hnode' = [hnode EXCEPT ![h] = KeyOf(h)] /\ UNCHANGED <<hver, version>>
      /\ node'[KeyOf(h)].dele = FALSE /\ \A m \in Nodes : node'[m].dele = node[m].dele
  BY DEF Give, Grown, SameBody, Nodes
<1>2. /\ \A g \in Rth : hnode[g] # NoNode => hnode[g] \in Nodes
      /\ hnode \in [Rth -> Node \cup {NoNode}] /\ hver[h] = 0
  BY DEF IInv, TreeInv, HeadsFit, VersionsFit
<1>3. KeyOf(h) # NoNode
  BY KeyIs, RadixAssumption
<1>4. h \notin InTable
  BY DEF InTable, WithUser
<1>5. \A g \in Rth : g \in InTable' <=> g \in InTable \/ g = h
  BY <1>1, <1>2, <1>3 DEF InTable, WithUser
<1>6. InTable' = InTable \cup {h}
  BY <1>5 DEF InTable
<1> QED BY <1>1, <1>2, <1>4, <1>6, TableGains

LEMMA AtNodeGains ==
  ASSUME IInv, TableFacts, TableFacts', NEW h \in Rth, hnode[h] = NoNode, root # NoNode, InsertAtNode(h)
  PROVE  Table!Insert(h)
<1> DEFINE rtn == Position(h).rtn
           old == node[rtn].rth
<1>0. /\ Typed(node) /\ HeadsFit /\ NoHead \notin Rth /\ NoNode \notin Nodes
      /\ hnode \in [Rth -> Node \cup {NoNode}] /\ hver \in [Rth -> 0 .. version] /\ hver[h] = 0
  BY RadixAssumption DEF IInv, TreeInv, Sound, Typed, Nodes, VersionsFit
<1>1. rtn \in Nodes
  BY PositionIs DEF IInv, TreeInv, Sound, Full, FullIn, FullAt, Nodes
<1>2. /\ node' = [node EXCEPT ![rtn].rth = h, ![rtn].dele = FALSE] /\ (old = NoHead \/ node[rtn].dele)
      /\ hnode' = [g \in Rth |-> IF g = h THEN rtn ELSE IF g = old THEN NoNode ELSE hnode[g]]
      /\ hver' = [g \in Rth |-> IF g = old THEN 0 ELSE hver[g]]
      /\ UNCHANGED version
  BY DEF InsertAtNode
<1> HIDE DEF rtn
<1>3. \A m \in Nodes : node'[m].dele = IF m = rtn THEN FALSE ELSE node[m].dele
  <2>1. node[rtn] \in RtNode
    BY <1>0, <1>1 DEF Typed, Nodes
  <2>2. [node[rtn] EXCEPT !.rth = h, !.dele = FALSE].dele = FALSE
    BY <2>1 DEF RtNode
  <2>3. \A m \in Nodes : node'[m] = IF m = rtn THEN [node[rtn] EXCEPT !.rth = h, !.dele = FALSE] ELSE node[m]
    BY <1>1, <1>2 DEF Nodes
  <2> QED BY <2>2, <2>3
<1>4. \A g \in Rth : hnode[g] = rtn <=> g = old
  <2>1. ASSUME NEW g \in Rth, hnode[g] = rtn PROVE g = old
    BY <1>0, <1>1, <2>1 DEF HeadsFit
  <2>2. ASSUME NEW g \in Rth, g = old PROVE hnode[g] = rtn
    BY <1>0, <1>1, <2>2 DEF HeadsFit
  <2> QED BY <2>1, <2>2
<1>5. \A g \in Rth : g = old => g \notin InTable /\ g # h
  <2> SUFFICES ASSUME NEW g \in Rth, g = old PROVE g \notin InTable /\ g # h
    OBVIOUS
  <2>1. hnode[g] = rtn /\ node[rtn].dele
    BY <1>0, <1>2, <1>4
  <2> QED BY <1>0, <1>1, <2>1 DEF InTable
<1> HIDE DEF old
<1>6. \A g \in Rth : hnode[g] # NoNode => hnode[g] \in Nodes
  BY <1>0 DEF HeadsFit
<1>7. \A g \in Rth : g \in InTable' <=> g \in InTable \/ g = h
  <2> SUFFICES ASSUME NEW g \in Rth PROVE g \in InTable' <=> g \in InTable \/ g = h
    OBVIOUS
  <2>1. CASE g = h
    BY <1>0, <1>1, <1>2, <1>3, <2>1 DEF InTable, WithUser
  <2>2. CASE g # h /\ g = old
    BY <1>2, <1>5, <2>2 DEF InTable, WithUser
  <2>3. CASE g # h /\ g # old
    <3>1. hnode'[g] = hnode[g] /\ hnode[g] # rtn
      BY <1>2, <1>4, <2>3
    <3> QED BY <1>3, <1>6, <2>3, <3>1 DEF InTable, WithUser
  <2> QED BY <2>1, <2>2, <2>3
<1>8. InTable' = InTable \cup {h} /\ h \notin InTable /\ InTable \subseteq Rth
  BY <1>7 DEF InTable, WithUser
<1>9. hver'[h] = 0 /\ \A g \in InTable : hver'[g] = hver[g]
  BY <1>0, <1>2, <1>5, <1>8
<1> QED BY <1>2, <1>8, <1>9, TableGains

LEMMA InsertGains ==
  ASSUME IInv, TableFacts, TableFacts', NEW h \in Rth, Insert(h)
  PROVE  Table!Insert(h)
<1>0. Sound(node, root) /\ HeadsFit /\ hnode[h] = NoNode
  BY DEF IInv, TreeInv, Insert, WithUser
<1>1. CASE InsertFirst(h)
  BY <1>0, <1>1, GrowsFirst, GrownGains DEF InsertFirst, Give
<1>2. CASE root # NoNode /\ InsertAtNode(h)
  BY <1>0, <1>2, AtNodeGains DEF InsertAtNode
<1>3. CASE root # NoNode /\ InsertBelow(h)
  BY <1>0, <1>3, GrowsBelow, GrownGains DEF InsertBelow, Give
<1>4. CASE root # NoNode /\ InsertBetween(h)
  BY <1>0, <1>4, GrowsBetween, GrownGains DEF InsertBetween, Give
<1>5. CASE root # NoNode /\ InsertSplit(h)
  BY <1>0, <1>5, GrowsSplit, GrownGains DEF InsertSplit, Give
<1> QED BY <1>1, <1>2, <1>3, <1>4, <1>5 DEF Insert

\* The removal of a node takes its head from the table, if it was there.
LEMMA ShrunkLoses ==
  ASSUME IInv, IInv', NEW n \in Nodes, NEW after, Shrunk(n, after), Becomes(n, after)
  PROVE  /\ \A g \in Rth : g \in InTable' <=> g \in InTable /\ g # node[n].rth
         /\ \A g \in InTable : g # node[n].rth => hver'[g] = hver[g]
<1> DEFINE x == node[n].rth
<1>0. HeadsFit /\ HeadsFit'
  BY DEF IInv, TreeInv
<1>1. /\ node' = after.node /\ hnode' = [h \in Rth |-> IF h = x THEN NoNode ELSE hnode[h]]
      /\ hver' = [h \in Rth |-> IF h = x THEN 0 ELSE hver[h]]
  BY DEF Becomes
<1>2. \A m \in Nodes' : m # n => node'[m].dele = node[m].dele
  BY <1>1 DEF Shrunk, SameBody, Nodes
<1>3. \A g \in Rth : hnode[g] = n => g = x
  BY <1>0, RadixAssumption DEF HeadsFit, IInv, TreeInv, Sound, Typed, Nodes
<1> HIDE DEF x
<1>4. ASSUME NEW g \in Rth, g # x PROVE g \in InTable' <=> g \in InTable
  <2>1. hnode'[g] = hnode[g] /\ hnode[g] # n
    BY <1>1, <1>3, <1>4
  <2>2. hnode[g] # NoNode => hnode[g] \in Nodes'
    BY <1>0, <2>1 DEF HeadsFit
  <2> QED BY <1>2, <2>1, <2>2 DEF InTable, WithUser
<1>5. ASSUME NEW g \in Rth, g = x PROVE g \notin InTable'
  BY <1>1, <1>5 DEF InTable, WithUser
<1>6. \A g \in InTable : g # x => hver'[g] = hver[g]
  BY <1>1 DEF InTable
<1> QED BY <1>4, <1>5, <1>6 DEF x

LEMMA RemoveLoses ==
  ASSUME IInv, IInv', TableFacts, TableFacts', NEW h \in Rth, Remove(h)
  PROVE  Table!Remove(h)
<1> DEFINE n == hnode[h]
<1>0. h \in InTable /\ n \in Nodes /\ node[n].rth = h /\ HeadsFit
  BY DEF Remove, InTable, WithUser, IInv, TreeInv, HeadsFit
<1>1. CASE node[n].lock > 0
  <2>1. node' = [node EXCEPT ![n].dele = TRUE] /\ UNCHANGED <<hnode, hver, version>>
    BY <1>1 DEF Remove
  <2>2. \A g \in Rth : hnode[g] = n => g = h
    BY <1>0, RadixAssumption DEF HeadsFit, IInv, TreeInv, Sound, Typed, Nodes
  <2> HIDE DEF n
  <2>3. \A m \in Nodes : node'[m].dele = IF m = n THEN TRUE ELSE node[m].dele
    <3>1. node[n] \in RtNode
      BY <1>0 DEF IInv, TreeInv, Sound, Typed, Nodes
    <3>2. [node[n] EXCEPT !.dele = TRUE].dele = TRUE
      BY <3>1 DEF RtNode
    <3>3. \A m \in Nodes : node'[m] = IF m = n THEN [node[n] EXCEPT !.dele = TRUE] ELSE node[m]
      BY <1>0, <2>1 DEF Nodes
    <3> QED BY <3>2, <3>3
  <2>4. \A g \in Rth : hnode[g] # NoNode => hnode[g] \in Nodes
    BY <1>0 DEF HeadsFit
  <2>5. \A g \in Rth : g \in InTable' <=> g \in InTable /\ g # h
    <3>1. hnode[h] = n
      BY DEF n
    <3>2. h \notin InTable'
      BY <1>0, <2>1, <2>3, <3>1 DEF InTable, WithUser
    <3>3. ASSUME NEW g \in Rth, g # h PROVE g \in InTable' <=> g \in InTable
      <4>1. hnode'[g] = hnode[g] /\ hnode[g] # n
        BY <2>1, <2>2, <3>3
      <4>2. hnode[g] # NoNode => node'[hnode[g]].dele = node[hnode[g]].dele
        BY <2>3, <2>4, <4>1
      <4> QED BY <4>1, <4>2 DEF InTable, WithUser
    <3> QED BY <3>2, <3>3
  <2>6. InTable' = InTable \ {h}
    BY <2>5 DEF InTable
  <2> QED BY <1>0, <2>1, <2>6, TableLoses
<1>2. CASE ~(node[n].lock > 0)
  <2>1. Becomes(n, Removed(n, "up"))
    BY <1>2 DEF Remove
  <2> HIDE DEF n
  <2>2. Shrunk(n, Removed(n, "up"))
    BY <1>0, RemovedShrinks DEF IInv, TreeInv, Sound
  <2>3. \A g \in Rth : g \in InTable' <=> g \in InTable /\ g # h
    BY <1>0, <2>1, <2>2, ShrunkLoses
  <2>4. \A g \in InTable : g # h => hver'[g] = hver[g]
    BY <1>0, <2>1, <2>2, ShrunkLoses
  <2>5. InTable' = InTable \ {h} /\ UNCHANGED version
    BY <2>1, <2>3 DEF InTable, Becomes
  <2> QED BY <1>0, <2>4, <2>5, TableLoses
<1> QED BY <1>1, <1>2

LEMMA SetVersionSets ==
  ASSUME IInv, TableFacts, TableFacts', NEW h \in Rth, SetVersion(h)
  PROVE  Table!SetVersion(h)
<1>1. /\ h \in InTable /\ version < MaxVersion /\ version' = version + 1 /\ hver' = [hver EXCEPT ![h] = version']
      /\ node' = [n \in Nodes |-> IF n \in UpFrom(hnode[h]) THEN [node[n] EXCEPT !.version = version'] ELSE node[n]]
      /\ UNCHANGED hnode
  BY DEF SetVersion
<1>2. \A m \in Nodes : node'[m].dele = node[m].dele
  <2> SUFFICES ASSUME NEW m \in Nodes PROVE node'[m].dele = node[m].dele
    OBVIOUS
  <2>1. node[m] \in RtNode
    BY DEF IInv, TreeInv, Sound, Typed, Nodes
  <2>2. [node[m] EXCEPT !.version = version'].dele = node[m].dele
    BY <2>1 DEF RtNode
  <2>3. node'[m] = IF m \in UpFrom(hnode[h]) THEN [node[m] EXCEPT !.version = version'] ELSE node[m]
    BY <1>1
  <2> QED BY <2>2, <2>3
<1>3. InTable' = InTable
  <2>1. \A g \in Rth : hnode[g] # NoNode => hnode[g] \in Nodes
    BY DEF IInv, TreeInv, HeadsFit
  <2> QED BY <1>1, <1>2, <2>1 DEF InTable, WithUser
<1>4. TableOf' = TableOf
  <2>1. ASSUME NEW p \in Node PROVE TableOf'[p] = TableOf[p]
    BY <1>3, RadixAssumption DEF TableFacts
  <2> QED BY <2>1 DEF TableFacts
<1>5. TableOf[KeyOf(h)] = h
  BY <1>1, KeyIs DEF TableFacts
<1>6. VersionOf' = [VersionOf EXCEPT ![h] = version']
  <2>1. hver \in [Rth -> 0 .. version]
    BY DEF IInv, TreeInv, VersionsFit
  <2>2. PICK v : v = version'
    OBVIOUS
  <2>3. \A g \in Rth : hver'[g] = IF g = h THEN v ELSE hver[g]
    BY <1>1, <2>1, <2>2
  <2>4. VersionOf' = [g \in Rth |-> IF g = h THEN v ELSE VersionOf[g]]
    BY <1>1, <1>3, <2>3 DEF VersionOf
  <2>5. DOMAIN VersionOf = Rth
    BY DEF VersionOf
  <2>6. [VersionOf EXCEPT ![h] = v] = [g \in Rth |-> IF g = h THEN v ELSE VersionOf[g]]
    BY <2>5
  <2> QED BY <2>2, <2>4, <2>6
<1> QED BY <1>1, <1>4, <1>5, <1>6 DEF Table!SetVersion

LEMMA ResetResets ==
  ASSUME IInv, TableFacts, TableFacts', Reset
  PROVE  Table!Reset
<1>1. root = NoNode /\ version' = 0 /\ UNCHANGED <<node, hnode, hver>>
  BY DEF Reset
<1>2. Nodes = {}
  BY <1>1 DEF IInv, TreeInv, Sound, Linked, RootIs, Nodes
<1>3. \A p \in Node : TableOf[p] = NoHead
  BY <1>2 DEF TableOf
<1>4. InTable' = InTable
  BY <1>1 DEF InTable, WithUser
<1>5. UNCHANGED <<TableOf, VersionOf>>
  BY <1>1, <1>4, TableStays
<1> QED BY <1>1, <1>3, <1>5 DEF Table!Reset

\* A marked node is swept: it was not in the table any more.
LEMMA SweptStays ==
  ASSUME IInv, IInv', TableFacts, TableFacts', NEW n \in Nodes, Sweepable(n), NEW dir \in {"down", "right", "up"},
         Becomes(n, Removed(n, dir))
  PROVE  UNCHANGED Table!vars
<1>1. Shrunk(n, Removed(n, dir)) /\ UNCHANGED version
  BY RemovedShrinks DEF IInv, TreeInv, Sound, Becomes
<1>2. /\ \A g \in Rth : g \in InTable' <=> g \in InTable /\ g # node[n].rth
      /\ \A g \in InTable : g # node[n].rth => hver'[g] = hver[g]
  BY <1>1, ShrunkLoses
<1>3. node[n].rth \notin InTable
  <2> SUFFICES ASSUME node[n].rth \in InTable PROVE FALSE
    OBVIOUS
  <2>1. hnode[node[n].rth] = n
    BY RadixAssumption DEF IInv, TreeInv, HeadsFit, InTable
  <2> QED BY <2>1 DEF InTable, Sweepable
<1>4. InTable' = InTable /\ \A g \in InTable : hver'[g] = hver[g]
  BY <1>2, <1>3 DEF InTable
<1> QED BY <1>1, <1>4, TableStays DEF Table!vars

\* One callback more or less at n.
LEMMA LockStays ==
  ASSUME IInv, TableFacts, TableFacts', NEW n \in Nodes, NEW l, node' = [node EXCEPT ![n].lock = l],
         UNCHANGED <<hnode, hver, version>>
  PROVE  UNCHANGED Table!vars
<1>1. \A m \in Nodes : node'[m] = IF m = n THEN [node[n] EXCEPT !.lock = l] ELSE node[m]
  BY DEF Nodes
<1>2. node[n] \in RtNode
  BY DEF IInv, TreeInv, Sound, Typed, Nodes
<1>3. [node[n] EXCEPT !.lock = l].dele = node[n].dele
  BY <1>2 DEF RtNode
<1>4. \A m \in Nodes : node'[m].dele = node[m].dele
  BY <1>1, <1>3
<1> QED BY <1>4, SameTable

LEMMA WalkStays ==
  ASSUME IInv, IInv', TableFacts, TableFacts',
         \/ WalkDown \/ WalkRight \/ WalkUp \/ BeginSweep \/ Sweep \/ EndWalk
         \/ \E stop \in BOOLEAN : CallbackReturns(stop)
         \/ \E cnt \in Counts, min \in 0 .. version, max \in 0 .. version : BeginWalk(cnt, min, max)
  PROVE  UNCHANGED Table!vars
<1>1. CASE UNCHANGED <<node, hnode, hver, version>>
  BY <1>1, SameTable
<1>2. CASE WalkRight \/ BeginSweep \/ EndWalk \/ \E cnt \in Counts, min \in 0 .. version, max \in 0 .. version : BeginWalk(cnt, min, max)
  BY <1>1, <1>2 DEF WalkRight, BeginSweep, EndWalk, BeginWalk
<1>3. CASE WalkDown
  <2>1. walks # <<>> /\ top.phase = "run" /\ top.rtn # NoNode /\ UNCHANGED <<hnode, hver, version>>
    BY <1>3 DEF WalkDown, Running
  <2>2. top.rtn \in Nodes
    BY <2>1, TopRuns
  <2>3. UNCHANGED node \/ node' = [node EXCEPT ![top.rtn].lock = @ + 1]
    BY <1>3 DEF WalkDown
  <2>4. CASE UNCHANGED node
    BY <1>1, <2>1, <2>4
  <2>5. CASE node' = [node EXCEPT ![top.rtn].lock = @ + 1]
    <3>1. PICK l : l = node[top.rtn].lock + 1
      OBVIOUS
    <3>2. node' = [node EXCEPT ![top.rtn].lock = l]
      BY <2>5, <3>1
    <3> QED BY <2>1, <2>2, <3>2, LockStays
  <2> QED BY <2>3, <2>4, <2>5
<1>4. CASE \E stop \in BOOLEAN : CallbackReturns(stop)
  <2>1. walks # <<>> /\ top.phase = "call" /\ node' = [node EXCEPT ![top.rtn].lock = @ - 1] /\ UNCHANGED <<hnode, hver, version>>
    BY <1>4 DEF CallbackReturns
  <2>2. top.rtn \in Nodes
    BY <2>1, TopRuns
  <2>3. PICK l : l = node[top.rtn].lock - 1
    OBVIOUS
  <2>4. node' = [node EXCEPT ![top.rtn].lock = l]
    BY <2>1, <2>3
  <2> QED BY <2>1, <2>2, <2>4, LockStays
<1>5. CASE WalkUp
  <2>1. walks # <<>> /\ top.phase = "run" /\ top.rtn # NoNode
    BY <1>5 DEF WalkUp, Running
  <2>2. top.rtn \in Nodes /\ top.dir \in {"down", "right", "up"}
    BY <2>1, TopRuns DEF Walk
  <2>3. CASE Sweepable(top.rtn)
    <3>1. Becomes(top.rtn, Removed(top.rtn, top.dir))
      BY <1>5, <2>3 DEF WalkUp
    <3> QED BY <2>2, <2>3, <3>1, SweptStays
  <2>4. CASE ~Sweepable(top.rtn)
    BY <1>1, <1>5, <2>4 DEF WalkUp
  <2> QED BY <2>3, <2>4
<1>6. CASE Sweep
  <2>1. walks # <<>> /\ top.phase = "sweep" /\ top.at # NoNode
    BY <1>6 DEF Sweep
  <2>2. top.at \in Nodes /\ top.dir \in {"down", "right", "up"}
    BY <2>1, TopRuns DEF Walk
  <2>3. CASE Sweepable(top.at)
    <3>1. Becomes(top.at, Removed(top.at, top.dir))
      BY <1>6, <2>3 DEF Sweep
    <3> QED BY <2>2, <2>3, <3>1, SweptStays
  <2>4. CASE ~Sweepable(top.at)
    BY <1>1, <1>6, <2>4 DEF Sweep
  <2> QED BY <2>3, <2>4
<1> QED BY <1>2, <1>3, <1>4, <1>5, <1>6

LEMMA TableSteps ==
  ASSUME IInv, IInv', TableFacts, TableFacts', [Next]_vars
  PROVE  [Table!Next]_(Table!vars)
<1>1. CASE UNCHANGED vars
  BY <1>1, SameTable DEF vars
<1>2. ASSUME NEW h \in Rth, Insert(h) PROVE Table!Next
  BY <1>2, InsertGains DEF Table!Next
<1>3. ASSUME NEW h \in Rth, Remove(h) PROVE Table!Next
  BY <1>3, RemoveLoses DEF Table!Next
<1>4. ASSUME NEW h \in Rth, SetVersion(h) PROVE Table!Next
  BY <1>4, SetVersionSets DEF Table!Next
<1>5. CASE Reset
  BY <1>5, ResetResets DEF Table!Next
<1>6. CASE \/ WalkDown \/ WalkRight \/ WalkUp \/ BeginSweep \/ Sweep \/ EndWalk
           \/ \E stop \in BOOLEAN : CallbackReturns(stop)
           \/ \E cnt \in Counts, min \in 0 .. version, max \in 0 .. version : BeginWalk(cnt, min, max)
  BY <1>6, WalkStays
<1> QED BY <1>1, <1>2, <1>3, <1>4, <1>5, <1>6 DEF Next

\* To its owner the tree of std_radix.c is a table with a head for a prefix at
\* most and versions that grow: a removal takes effect at once even when the
\* node stays, marked, for a walk, what walks sweep has left the table before,
\* and an insertion in place of a marked head is one into an empty place.
THEOREM RadixImplementsTable == Spec => ImplementsTable
<1>1. Init => Table!Init
  <2> SUFFICES ASSUME Init PROVE Table!Init
    OBVIOUS
  <2>1. node = [n \in {} |-> NoNode] /\ hnode = [h \in Rth |-> NoNode] /\ hver = [h \in Rth |-> 0] /\ version = 0
    BY DEF Init
  <2>2. Nodes = {} /\ InTable = {}
    BY <2>1 DEF Nodes, InTable, WithUser
  <2> QED BY <2>1, <2>2 DEF Table!Init, TableOf, VersionOf
<1>2. IInv => TableFacts
  BY TableFactsHold
<1>3. IInv /\ IInv' /\ TableFacts /\ TableFacts' /\ [Next]_vars => [Table!Next]_(Table!vars)
  BY TableSteps
<1> QED BY <1>1, <1>2, <1>3, IInvHolds, PTL DEF Spec, ImplementsTable, Table!Spec
----------------------------------------------------------------------------
(* A walk during which nothing is marked misses nothing.                   *)

\* m comes to the right of n.
ToRight(m, n) == \E r \in Node : \E b, c \in Bit : b < c /\ On(n, r, b) /\ On(m, r, c)

LEMMA BitsDiffer ==
  ASSUME NEW b \in Bit, NEW c \in Bit
  PROVE  /\ b = c \/ b < c \/ c < b
         /\ ~(b < c /\ c < b) /\ ~(b < c /\ b = c)
BY DEF Bit

LEMMA Cutting ==
  ASSUME NEW p \in Node, NEW d, d \in 0 .. Len(p)
  PROVE  \E s \in Node : Len(s) = d /\ IsPrefix(s, p)
<1>0. p \in Seq(Bit) /\ Len(p) \in Nat /\ Len(p) <= Width /\ Width \in Nat
  BY NodeIsSeq, LenProperties, RadixAssumption
<1>1. d \in Nat /\ d <= Len(p) /\ d \in 0 .. Width
  BY <1>0
<1> DEFINE s == [i \in 1 .. d |-> p[i]]
<1>2. \A i \in 1 .. d : p[i] \in Bit /\ i \in 1 .. Len(p)
  BY <1>0, <1>1, ElementOfSeq
<1>3. s \in [1 .. d -> Bit] /\ \A i \in 1 .. d : s[i] = p[i]
  BY <1>2
<1> HIDE DEF s
<1>4. s \in Node /\ DOMAIN s = 1 .. d
  BY <1>1, <1>3 DEF Node
<1>5. Len(s) \in Nat /\ 1 .. Len(s) = 1 .. d
  BY <1>4, NodeIsSeq, LenProperties
<1> DEFINE k == Len(s)
<1>6. k \in Nat /\ 1 .. k = 1 .. d
  BY <1>5
<1> HIDE DEF k
<1>7. k = d
  BY ONLY <1>1, <1>6
<1>8. Len(s) = d
  BY <1>7 DEF k
<1>9. IsPrefix(s, p)
  BY <1>0, <1>1, <1>3, <1>8 DEF IsPrefix
<1> QED BY <1>4, <1>8, <1>9

\* Any two names part somewhere.
LEMMA PartsExist ==
  ASSUME NEW p \in Node, NEW q \in Node
  PROVE  \E r \in Node : Parts(r, p, q)
<1> DEFINE S == {s \in Node : IsPrefix(s, p) /\ IsPrefix(s, q)}
<1>0. Len(p) \in Nat /\ Len(q) \in Nat
  BY Prefixes
<1>1. S \in SUBSET Node /\ S # {}
  <2>1. PICK d : d = 0
    OBVIOUS
  <2>2. d \in 0 .. Len(p)
    BY <1>0, <2>1
  <2>3. PICK s \in Node : Len(s) = d /\ IsPrefix(s, p)
    BY <2>2, Cutting
  <2>4. IsPrefix(s, q)
    BY <1>0, <2>1, <2>3 DEF IsPrefix
  <2> QED BY <2>3, <2>4
<1>2. PICK r \in S : \A s \in S : Len(s) <= Len(r)
  <2> HIDE DEF S
  <2> QED BY <1>1, LongestExists
<1>3. r \in Node /\ IsPrefix(r, p) /\ IsPrefix(r, q) /\ Len(r) \in Nat
  BY Prefixes
<1>4. ASSUME r # p, r # q, NEW b, On(p, r, b), On(q, r, b) PROVE FALSE
  <2>1. Len(r) < Len(p) /\ Len(r) < Len(q)
    BY <1>3, <1>4, Prefixes
  <2>2. PICK d : d = Len(r) + 1
    OBVIOUS
  <2>3. d \in 0 .. Len(p) /\ d \in Nat
    BY <1>0, <1>3, <2>1, <2>2
  <2>4. PICK s \in Node : Len(s) = d /\ IsPrefix(s, p)
    BY <2>3, Cutting
  <2>5. \A i \in 1 .. d : s[i] = p[i]
    BY <2>4 DEF IsPrefix
  <2>6. \A i \in 1 .. Len(r) : r[i] = p[i] /\ r[i] = q[i]
    BY <1>3 DEF IsPrefix
  <2>7. p[d] = b /\ q[d] = b
    BY <1>4, <2>2 DEF On
  <2>8. \A i \in 1 .. d : i = d \/ i \in 1 .. Len(r)
    BY <1>3, <2>2
  <2>9. \A i \in 1 .. d : s[i] = q[i]
    BY <2>5, <2>6, <2>7, <2>8
  <2>10. IsPrefix(s, q)
    BY <1>0, <1>3, <2>1, <2>2, <2>4, <2>9 DEF IsPrefix
  <2>11. s \in S /\ Len(s) <= Len(r)
    BY <1>2, <2>4, <2>10
  <2> QED BY <1>3, <2>2, <2>4, <2>11
<1> QED BY <1>3, <1>4 DEF Parts

LEMMA BeforeIs ==
  ASSUME NEW p \in Node, NEW q \in Node
  PROVE  Before(p, q) <=> (p # q /\ IsPrefix(p, q)) \/ ToRight(q, p)
<1>1. PICK r \in Node : Parts(r, p, q)
  BY PartsExist
<1>2. Meet(p, q) = r
  BY <1>1, PartsIsMeet
<1>3. Before(p, q) <=> ~IsPrefix(q, p) /\ (IsPrefix(p, q) \/ p[Len(r) + 1] < q[Len(r) + 1])
  BY <1>2 DEF Before
<1>4. IsPrefix(p, q) /\ IsPrefix(q, p) => p = q
  BY Prefixes
<1>5. ASSUME IsPrefix(p, q) \/ IsPrefix(q, p) PROVE ~ToRight(q, p)
  <2> SUFFICES ASSUME NEW s \in Node, NEW b \in Bit, NEW c \in Bit, b < c, On(p, s, b), On(q, s, c) PROVE FALSE
    BY DEF ToRight
  <2>1. On(q, s, b) \/ On(p, s, c)
    BY <1>5, Sides
  <2>2. b = c
    BY <2>1, Sides
  <2> QED BY <2>2, BitsDiffer
<1>6. CASE r = p \/ r = q
  <2>1. IsPrefix(p, q) \/ IsPrefix(q, p)
    BY <1>1, <1>6 DEF Parts
  <2> QED BY <1>3, <1>4, <1>5, <2>1, Prefixes
<1>7. CASE r # p /\ r # q
  <2>1. PICK b \in Bit : On(p, r, b)
    BY <1>1, <1>7, Sides DEF Parts
  <2>2. PICK c \in Bit : On(q, r, c)
    BY <1>1, <1>7, Sides DEF Parts
  <2>3. b # c
    BY <1>1, <1>7, <2>1, <2>2 DEF Parts
  <2>4. ~IsPrefix(p, q) /\ ~IsPrefix(q, p)
    BY <2>1, <2>2, <2>3, Sides
  <2>5. p[Len(r) + 1] = b /\ q[Len(r) + 1] = c
    BY <2>1, <2>2 DEF On
  <2>6. Before(p, q) <=> b < c
    BY <1>3, <2>4, <2>5
  <2>7. ASSUME b < c PROVE ToRight(q, p)
    BY <2>1, <2>2, <2>7 DEF ToRight
  <2>8. ASSUME ToRight(q, p) PROVE b < c
    <3>1. PICK s \in Node, x \in Bit, y \in Bit : x < y /\ On(p, s, x) /\ On(q, s, y)
      BY <2>8 DEF ToRight
    <3>2. x # y
      BY <3>1, BitsDiffer
    <3>3. Parts(s, p, q)
      BY <3>1, <3>2, Sides DEF Parts
    <3>4. s = r
      BY <1>2, <3>3, PartsIsMeet
    <3>5. x = b /\ y = c
      BY <2>1, <2>2, <3>1, <3>4, Sides
    <3> QED BY <3>1, <3>5
  <2> QED BY <2>4, <2>6, <2>7, <2>8
<1> QED BY <1>6, <1>7

\* What is to the right of a child, and of its parent.
LEMMA Turn ==
  ASSUME Linked(node, root), NEW n \in Nodes, NEW b \in Bit, NEW c, c = SideIn(node, n, b), c # NoNode, NEW m \in Nodes
  PROVE  ToRight(m, c) <=> ToRight(m, n) \/ \E d \in Bit : b < d /\ On(m, n, d)
<1>0. Nodes \subseteq Node /\ c \in Nodes /\ On(c, n, b) /\ \A k \in Nodes : On(k, n, b) => IsPrefix(c, k)
  <2>1. SideIs(node, n, b, c)
    BY DEF Linked, Nodes
  <2> QED BY <2>1 DEF Linked, SideIs, Nodes
<1>1. IsPrefix(n, c) /\ n # c /\ n \in Node /\ c \in Node /\ m \in Node
  BY <1>0, Sides
<1>2. ASSUME ToRight(m, c) PROVE ToRight(m, n) \/ \E d \in Bit : b < d /\ On(m, n, d)
  <2>1. PICK r \in Node, x \in Bit, y \in Bit : x < y /\ On(c, r, x) /\ On(m, r, y)
    BY <1>2 DEF ToRight
  <2>2. IsPrefix(r, c) /\ r # c
    BY <2>1, Sides
  <2>3. IsPrefix(r, n) \/ IsPrefix(n, r)
    BY <1>1, <2>2, Prefixes
  <2>4. CASE r = n
    <3>1. x = b
      BY <1>0, <2>1, <2>4, Sides
    <3> QED BY <2>1, <2>4, <3>1
  <2>5. CASE IsPrefix(r, n) /\ r # n
    <3>1. On(n, r, x)
      BY <1>1, <2>1, <2>5, Sides
    <3> QED BY <2>1, <3>1 DEF ToRight
  <2>6. CASE IsPrefix(n, r) /\ r # n
    <3>1. On(r, n, b)
      BY <1>0, <1>1, <2>2, <2>6, Sides
    <3>2. On(m, n, b)
      BY <1>1, <2>1, <3>1, Sides
    <3>3. On(m, r, x)
      BY <1>0, <1>1, <2>1, <3>2, Sides
    <3>4. x = y
      BY <2>1, <3>3, Sides
    <3> QED BY <2>1, <3>4, BitsDiffer
  <2> QED BY <2>3, <2>4, <2>5, <2>6
<1>3. ASSUME ToRight(m, n) PROVE ToRight(m, c)
  <2>1. PICK r \in Node, x \in Bit, y \in Bit : x < y /\ On(n, r, x) /\ On(m, r, y)
    BY <1>3 DEF ToRight
  <2>2. On(c, r, x)
    BY <1>1, <2>1, Sides
  <2> QED BY <2>1, <2>2 DEF ToRight
<1>4. ASSUME NEW d \in Bit, b < d, On(m, n, d) PROVE ToRight(m, c)
  BY <1>0, <1>1, <1>4 DEF ToRight
<1> QED BY <1>2, <1>3, <1>4

\* What a walk at n that goes on in the direction dir will still come to.
Ahead(m, n, dir) ==
  n # NoNode /\ (ToRight(m, n) \/ (dir = "down" /\ IsPrefix(n, m)) \/ (dir = "right" /\ On(m, n, 1)))

\* A child's subtree is a side of its parent.
LEMMA SideIsSubtree ==
  ASSUME Linked(node, root), NEW n \in Nodes, NEW b \in Bit, NEW c, c = SideIn(node, n, b), NEW m \in Nodes
  PROVE  IF c = NoNode THEN ~On(m, n, b) ELSE c \in Nodes /\ On(c, n, b) /\ (On(m, n, b) <=> IsPrefix(c, m))
<1>1. SideIs(node, n, b, c) /\ Nodes \subseteq Node
  BY DEF Linked, Nodes
<1>2. c # NoNode => c \in Nodes /\ On(c, n, b) /\ (On(m, n, b) => IsPrefix(c, m))
  BY <1>1 DEF SideIs, Nodes
<1>3. c # NoNode /\ IsPrefix(c, m) => On(m, n, b)
  BY <1>1, <1>2, Sides
<1> QED BY <1>1, <1>2, <1>3 DEF SideIs, Nodes

LEMMA DescendKeeps ==
  ASSUME NEW w \in Walk
  PROVE  /\ Descend(w).last = w.last /\ Descend(w).min = w.min /\ Descend(w).max = w.max
         /\ Descend(w).clean = w.clean /\ Descend(w).phase = w.phase
BY DEF Descend, Walk

\* From n it goes down to what comes behind n.
LEMMA DescendAhead ==
  ASSUME Linked(node, root), NEW w \in Walk, w.rtn \in Nodes, w.dir = "down", NEW m \in Nodes
  PROVE  Ahead(m, Descend(w).rtn, Descend(w).dir) <=> Before(w.rtn, m)
<1> DEFINE n == w.rtn
<1>0. n \in Nodes /\ n \in Node /\ m \in Node /\ NoNode \notin Nodes
  BY RadixAssumption DEF Linked, Nodes
<1>x. PICK x, y : x = 0 /\ y = 1
  OBVIOUS
<1>1. x \in Bit /\ y \in Bit /\ x < y /\ (\A d \in Bit : d = x \/ d = y) /\ (\A d \in Bit : x < d <=> d = y)
  BY <1>x DEF Bit
<1>2. Before(n, m) <=> On(m, n, x) \/ On(m, n, y) \/ ToRight(m, n)
  <2>1. n # m /\ IsPrefix(n, m) <=> On(m, n, x) \/ On(m, n, y)
    BY <1>0, <1>1, Sides
  <2> QED BY <1>0, <2>1, BeforeIs
<1> DEFINE l == node[n].left
<1>3. l = SideIn(node, n, x)
  BY <1>x DEF SideIn
<1>4. CASE l # NoNode
  <2>1. Descend(w) = [w EXCEPT !.rtn = l]
    BY <1>4 DEF Descend
  <2> HIDE DEF l, n
  <2>2. Descend(w).rtn = l /\ Descend(w).dir = "down"
    BY <2>1 DEF Walk
  <2>3. ToRight(m, l) <=> ToRight(m, n) \/ On(m, n, y)
    BY <1>0, <1>1, <1>3, <1>4, Turn
  <2>4. On(m, n, x) <=> IsPrefix(l, m)
    BY <1>0, <1>1, <1>3, <1>4, SideIsSubtree
  <2>5. Before(n, m) <=> Ahead(m, l, "down")
    BY <1>2, <1>4, <2>3, <2>4 DEF Ahead
  <2> QED BY <2>2, <2>5 DEF n
<1>5. CASE l = NoNode
  <2>1. Descend(w) = [w EXCEPT !.dir = "right"]
    BY <1>5 DEF Descend
  <2>2. Descend(w).rtn = n /\ Descend(w).dir = "right"
    BY <2>1 DEF Walk
  <2> HIDE DEF l, n
  <2>3. ~On(m, n, x)
    BY <1>0, <1>1, <1>3, <1>5, SideIsSubtree
  <2>4. Before(n, m) <=> Ahead(m, n, "right")
    BY <1>0, <1>2, <1>x, <2>3 DEF Ahead
  <2> QED BY <2>2, <2>4 DEF n
<1> QED BY <1>4, <1>5

LEMMA RightAhead ==
  ASSUME Linked(node, root), NEW n \in Nodes, NEW m \in Nodes
  PROVE  Ahead(m, n, "right") <=> IF node[n].right = NoNode THEN Ahead(m, n, "up") ELSE Ahead(m, node[n].right, "down")
<1> DEFINE r == node[n].right
<1>x. PICK y : y = 1
  OBVIOUS
<1>1. y \in Bit /\ (\A d \in Bit : ~(y < d)) /\ r = SideIn(node, n, y) /\ n # NoNode
  BY <1>x, RadixAssumption DEF Bit, SideIn, Linked, Nodes
<1> HIDE DEF r
<1>2. Ahead(m, n, "right") <=> ToRight(m, n) \/ On(m, n, y)
  BY <1>1, <1>x DEF Ahead
<1>3. Ahead(m, n, "up") <=> ToRight(m, n)
  BY <1>1 DEF Ahead
<1>4. CASE r = NoNode
  <2>1. ~On(m, n, y)
    BY <1>1, <1>4, SideIsSubtree
  <2> QED BY <1>2, <1>3, <1>4, <2>1 DEF r
<1>5. CASE r # NoNode
  <2>1. On(m, n, y) <=> IsPrefix(r, m)
    BY <1>1, <1>5, SideIsSubtree
  <2>2. ToRight(m, r) <=> ToRight(m, n)
    BY <1>1, <1>5, Turn
  <2>3. Ahead(m, r, "down") <=> ToRight(m, n) \/ On(m, n, y)
    BY <1>5, <2>1, <2>2 DEF Ahead
  <2> QED BY <1>2, <1>5, <2>3 DEF r
<1> QED BY <1>4, <1>5

LEMMA UpAhead ==
  ASSUME Linked(node, root), NEW n \in Nodes, NEW m \in Nodes, NEW up, up = node[n].parent
  PROVE  Ahead(m, n, "up") <=> Ahead(m, up, IF up # NoNode /\ node[up].left = n THEN "right" ELSE "up")
<1>0. n # NoNode /\ Nodes \subseteq Node
  BY RadixAssumption DEF Linked, Nodes
<1>1. Ahead(m, n, "up") <=> ToRight(m, n)
  BY <1>0 DEF Ahead
<1>x. PICK x, y : x = 0 /\ y = 1
  OBVIOUS
<1>2. /\ x \in Bit /\ y \in Bit /\ (\A d \in Bit : x < d <=> d = y) /\ (\A d \in Bit : ~(y < d))
      /\ \A d \in Bit : d = x \/ d = y
  BY <1>x DEF Bit
<1>3. CASE up = NoNode
  <2>0. root = n /\ RootIs(node, root)
    BY <1>3, Kin DEF Linked, Nodes
  <2>1. IsPrefix(n, m)
    BY <1>0, <2>0 DEF RootIs, Nodes
  <2>2. ASSUME ToRight(m, n) PROVE FALSE
    <3>1. PICK r \in Node, b \in Bit, c \in Bit : b < c /\ On(n, r, b) /\ On(m, r, c)
      BY <2>2 DEF ToRight
    <3>2. On(m, r, b)
      BY <1>0, <2>1, <3>1, Sides
    <3>3. b = c
      BY <3>1, <3>2, Sides
    <3> QED BY <3>1, <3>3, BitsDiffer
  <2> QED BY <1>1, <1>3, <2>2 DEF Ahead
<1>4. CASE up # NoNode
  <2>1. /\ up \in Nodes /\ IsPrefix(up, n) /\ up # n
        /\ \A b \in Bit : On(n, up, b) <=> SideIn(node, up, b) = n
    BY <1>4, Kin DEF Nodes
  <2>2. PICK b \in Bit : On(n, up, b)
    BY <1>0, <2>1, Sides
  <2>3. SideIn(node, up, b) = n
    BY <2>1, <2>2
  <2>4. ToRight(m, n) <=> ToRight(m, up) \/ \E d \in Bit : b < d /\ On(m, up, d)
    BY <1>0, <2>1, <2>3, Turn
  <2>5. node[up].left = SideIn(node, up, x)
    BY <1>x DEF SideIn
  <2>6. CASE b = x
    <3>1. node[up].left = n
      BY <2>3, <2>5, <2>6
    <3>2. ToRight(m, n) <=> ToRight(m, up) \/ On(m, up, y)
      BY <1>2, <2>4, <2>6
    <3> QED BY <1>1, <1>4, <1>x, <3>1, <3>2 DEF Ahead
  <2>7. CASE b # x
    <3>1. b = y /\ node[up].left # n
      <4>1. ~On(n, up, x)
        BY <2>2, <2>7, Sides
      <4> QED BY <1>2, <2>1, <2>5, <2>7, <4>1
    <3>2. ToRight(m, n) <=> ToRight(m, up)
      BY <1>2, <2>4, <3>1
    <3> QED BY <1>1, <1>4, <3>1, <3>2 DEF Ahead
  <2> QED BY <2>6, <2>7
<1> QED BY <1>3, <1>4

LEMMA RightIsOneWay ==
  ASSUME NEW m \in Node, NEW n \in Node, ToRight(m, n)
  PROVE  ~ToRight(n, m) /\ ~IsPrefix(m, n) /\ ~IsPrefix(n, m)
<1>1. PICK r \in Node, b \in Bit, c \in Bit : b < c /\ On(n, r, b) /\ On(m, r, c)
  BY DEF ToRight
<1>2. b # c
  BY <1>1, BitsDiffer
<1>3. ~IsPrefix(m, n) /\ ~IsPrefix(n, m)
  BY <1>1, <1>2, Sides
<1>4. ASSUME NEW s \in Node, NEW x \in Bit, NEW y \in Bit, x < y, On(m, s, x), On(n, s, y) PROVE FALSE
  <2>1. x # y
    BY <1>4, BitsDiffer
  <2>2. Parts(r, n, m)
    BY <1>1, <1>2, Sides DEF Parts
  <2>3. Parts(s, n, m)
    BY <1>4, <2>1, Sides DEF Parts
  <2>4. r = s
    BY <2>2, <2>3, PartsIsMeet
  <2>5. b = y /\ c = x
    BY <1>1, <1>4, <2>4, Sides
  <2> QED BY <1>1, <1>4, <2>5, BitsDiffer
<1> QED BY <1>3, <1>4 DEF ToRight

\* Of the heads hs, those in the range of w that are behind its last one are
\* the ones it will still come to.
Frontier(hs, ver, w) ==
  \A h \in hs : ver[h] \in w.min .. w.max =>
    ((w.last # NoNode => Before(w.last, KeyOf(h))) <=> Ahead(KeyOf(h), w.rtn, w.dir))

\* The heads in the tree, the marked ones too.
InTree == Rth \ WithUser

\* What a walk that has removed no node itself relies on.
CleanInv ==
  /\ \A i \in DOMAIN walks : walks[i].phase = "call" => walks[i].last = walks[i].rtn /\ walks[i].dir = "down"
  /\ walks # <<>> /\ top.phase = "run" /\ top.clean => Frontier(InTree, hver, top)

\* A step of the user: the innermost walk is in its callback, and where it
\* goes from there its last node says.
LEMMA UserKeepsClean ==
  ASSUME CleanInv, UserRuns, walks' = walks
  PROVE  CleanInv'
<1>1. \A i \in DOMAIN walks' : walks'[i].phase = "call" => walks'[i].last = walks'[i].rtn /\ walks'[i].dir = "down"
  BY DEF CleanInv
<1>2. walks' # <<>> => top'.phase = "call"
  BY DEF UserRuns, top
<1> QED BY <1>1, <1>2 DEF CleanInv

\* A step of the innermost walk, which becomes w.
LEMMA TopKeepsClean ==
  ASSUME IInv, CleanInv, walks # <<>>, NEW w \in Walk, Top(w),
         w.phase = "call" => w.last = w.rtn /\ w.dir = "down",
         w.phase = "run" /\ w.clean => Frontier(InTree', hver', w)
  PROVE  CleanInv'
<1>1. /\ Len(walks') = Len(walks) /\ DOMAIN walks' = DOMAIN walks /\ Len(walks) \in DOMAIN walks
      /\ walks'[Len(walks)] = w
      /\ \A i \in DOMAIN walks : i # Len(walks) => walks'[i] = walks[i]
  BY TopIs DEF IInv
<1>2. top' = w
  BY <1>1 DEF top
<1>3. ASSUME NEW i \in DOMAIN walks'
      PROVE  walks'[i].phase = "call" => walks'[i].last = walks'[i].rtn /\ walks'[i].dir = "down"
  <2>1. CASE i = Len(walks)
    BY <1>1, <2>1
  <2>2. CASE i # Len(walks)
    BY <1>1, <1>3, <2>2 DEF CleanInv
  <2> QED BY <2>1, <2>2
<1> QED BY <1>2, <1>3 DEF CleanInv

LEMMA UserStepsKeepClean ==
  ASSUME IInv, CleanInv, NEW h \in Rth, Insert(h) \/ Remove(h) \/ SetVersion(h)
  PROVE  CleanInv'
<1>1. CASE Insert(h)
  BY <1>1, InsertKeeps, UserKeepsClean DEF IInv, Insert
<1>2. CASE Remove(h)
  BY <1>2, UserKeepsClean DEF Remove
<1>3. CASE SetVersion(h)
  BY <1>3, UserKeepsClean DEF SetVersion
<1> QED BY <1>1, <1>2, <1>3

LEMMA ResetKeepsClean ==
  ASSUME IInv, CleanInv, Reset
  PROVE  CleanInv'
BY UserKeepsClean DEF Reset, UserRuns

\* A head in the tree, and its node.
LEMMA HeadIsAtNode ==
  ASSUME IInv, NEW h \in InTree
  PROVE  /\ h \in Rth /\ KeyOf(h) \in Nodes /\ KeyOf(h) \in Node
         /\ node[KeyOf(h)].rth = h /\ hver[h] <= node[KeyOf(h)].version /\ hver[h] \in Nat
         /\ node[KeyOf(h)].version \in Nat
<1>1. h \in Rth /\ hnode[h] # NoNode /\ h # NoHead
  BY RadixAssumption DEF InTree, WithUser
<1>2. hnode[h] \in Nodes /\ node[hnode[h]].rth = h
  BY <1>1 DEF IInv, TreeInv, HeadsFit
<1>3. hnode[h] = KeyOf(h)
  BY <1>1, <1>2 DEF IInv, TreeInv, HeadsFit
<1>4. hver[h] <= node[hnode[h]].version
  BY <1>1 DEF IInv, TreeInv, VersionsFit
<1>5. hver[h] \in 0 .. version /\ version \in Nat
  BY <1>1, RadixAssumption DEF IInv, TreeInv, VersionsFit
<1>6. hver[h] \in Nat
  BY <1>5
<1>7. Nodes \subseteq Node /\ node[hnode[h]] \in RtNode
  BY <1>2 DEF IInv, TreeInv, Sound, Typed, Nodes
<1>8. node[hnode[h]].version \in 0 .. MaxVersion /\ MaxVersion \in Nat
  BY <1>7, RadixAssumption DEF RtNode
<1>9. node[hnode[h]].version \in Nat
  BY <1>8
<1> QED BY <1>1, <1>2, <1>3, <1>4, <1>6, <1>7, <1>9

LEMMA BeginWalkKeepsClean ==
  ASSUME IInv, CleanInv, NEW cnt \in Counts, NEW min \in 0 .. version, NEW max \in 0 .. version, BeginWalk(cnt, min, max)
  PROVE  CleanInv'
<1> DEFINE w == [phase |-> "run", rtn |-> root, at |-> NoNode, dir |-> "down", unlimited |-> cnt = 0, left |-> cnt,
                 min |-> min, max |-> max, last |-> NoNode, clean |-> TRUE]
<1>1. walks' = Append(walks, w) /\ UNCHANGED <<node, root, hnode, hver, version>>
  BY DEF BeginWalk
<1>2. walks \in Seq(Walk) /\ Len(walks) \in Nat
  BY LenProperties DEF IInv, WalksFit
<1>3. IInv'
  BY BeginWalkIInv
<1>w. w \in Walk
  <2>1. min \in 0 .. MaxVersion /\ max \in 0 .. MaxVersion /\ cnt \in Nat
    BY RadixAssumption DEF IInv, TreeInv, VersionsFit
  <2>2. root \in Node \cup {NoNode} /\ (cnt = 0) \in BOOLEAN
    BY DEF IInv, TreeInv, Sound, Typed, Linked, RootIs, Nodes
  <2> QED BY <2>1, <2>2 DEF Walk
<1>4. w.phase = "run" /\ w.rtn = root /\ w.dir = "down" /\ w.last = NoNode
  OBVIOUS
<1> HIDE DEF w
<1>5. /\ Len(walks') = Len(walks) + 1 /\ walks'[Len(walks) + 1] = w
      /\ DOMAIN walks' = 1 .. Len(walks') /\ DOMAIN walks = 1 .. Len(walks)
      /\ \A i \in 1 .. Len(walks) : walks'[i] = walks[i]
  <2>1. walks' \in Seq(Walk)
    BY <1>3 DEF IInv, WalksFit
  <2> QED BY <1>1, <1>2, <1>w, <2>1, AppendProperties, LenProperties
<1>6. top' = w
  BY <1>5 DEF top
<1>7. InTree' = InTree /\ hver' = hver
  BY <1>1 DEF InTree, WithUser
<1>8. ASSUME NEW h \in InTree PROVE Ahead(KeyOf(h), root, "down")
  <2>1. KeyOf(h) \in Nodes
    BY HeadIsAtNode
  <2> QED BY <2>1 DEF Ahead, IInv, TreeInv, Sound, Linked, RootIs, Nodes
<1>9. Frontier(InTree', hver', w)
  BY <1>4, <1>7, <1>8 DEF Frontier
<1>10. \A i \in DOMAIN walks' : i = Len(walks) + 1 \/ i \in DOMAIN walks
  BY <1>2, <1>5
<1>11. \A i \in DOMAIN walks' : walks'[i].phase = "call" => walks'[i].last = walks'[i].rtn /\ walks'[i].dir = "down"
  BY <1>4, <1>5, <1>10 DEF CleanInv
<1> QED BY <1>6, <1>9, <1>11 DEF CleanInv

\* The walk moves, and the tree stays.
LEMMA MoveKeepsClean ==
  ASSUME IInv, CleanInv, walks # <<>>, NEW w \in Walk, Top(w), top.phase = "run", w.phase = "run",
         UNCHANGED <<node, root, hnode, hver, version>>,
         w.clean = top.clean, w.last = top.last, w.min = top.min, w.max = top.max,
         \A h \in InTree : hver[h] \in top.min .. top.max =>
           (Ahead(KeyOf(h), w.rtn, w.dir) <=> Ahead(KeyOf(h), top.rtn, top.dir))
  PROVE  CleanInv'
<1>1. InTree' = InTree /\ hver' = hver
  BY DEF InTree, WithUser
<1>2. w.clean => Frontier(InTree', hver', w)
  BY <1>1 DEF CleanInv, Frontier
<1> QED BY <1>1, <1>2, TopKeepsClean

LEMMA WalkDownKeepsClean ==
  ASSUME IInv, CleanInv, WalkDown
  PROVE  CleanInv'
<1>0. /\ walks # <<>> /\ top.phase = "run" /\ top.rtn # NoNode /\ top.dir = "down"
      /\ UNCHANGED <<root, hnode, hver, version>>
  BY DEF WalkDown, Running
<1>1. top \in Walk /\ top.rtn \in Nodes /\ Linked(node, root) /\ top.min \in Nat
  BY <1>0, TopRuns, RadixAssumption DEF IInv, TreeInv, Sound, Walk
<1>2. CASE node[top.rtn].version < top.min /\ Top([top EXCEPT !.dir = "up"]) /\ UNCHANGED node
  <2> DEFINE w == [top EXCEPT !.dir = "up"]
             n == top.rtn
  <2>1. /\ w \in Walk /\ w.phase = "run" /\ w.rtn = n /\ w.dir = "up" /\ w.clean = top.clean /\ w.last = top.last
        /\ w.min = top.min /\ w.max = top.max
    BY <1>0, <1>1 DEF Walk
  <2>2. Top(w)
    BY <1>2
  <2>3. n \in Nodes /\ node[n].version < top.min
    BY <1>1, <1>2
  <2> HIDE DEF w, n
  <2>4. ASSUME NEW h \in InTree, hver[h] \in top.min .. top.max
        PROVE  Ahead(KeyOf(h), n, "up") <=> Ahead(KeyOf(h), n, "down")
    <3> DEFINE m == KeyOf(h)
    <3>1. m \in Nodes /\ hver[h] <= node[m].version /\ hver[h] \in Nat /\ node[m].version \in Nat
      BY HeadIsAtNode
    <3> HIDE DEF m
    <3>2. IsPrefix(n, m) => node[m].version <= node[n].version
      BY <2>3, <3>1 DEF IInv, TreeInv, Sound, OlderAbove, Nodes
    <3>3. node[n].version \in 0 .. MaxVersion /\ MaxVersion \in Nat
      BY <2>3, RadixAssumption DEF IInv, TreeInv, Sound, Typed, Nodes, RtNode
    <3>4. ~IsPrefix(n, m)
      BY <1>1, <2>3, <2>4, <3>1, <3>2, <3>3
    <3> QED BY <3>4 DEF Ahead, m
  <2> QED BY <1>0, <1>2, <2>1, <2>2, <2>4, MoveKeepsClean DEF n
<1>3. CASE ~InRange(top.rtn, top) /\ Top(Descend(top)) /\ UNCHANGED node
  <2> DEFINE w == Descend(top)
             n == top.rtn
  <2>1. w \in Walk /\ w.phase = "run" /\ w.clean = top.clean /\ w.last = top.last /\ w.min = top.min /\ w.max = top.max
    BY <1>0, <1>1, DescendIs, DescendKeeps
  <2>2. ASSUME NEW h \in InTree, hver[h] \in top.min .. top.max
        PROVE  Ahead(KeyOf(h), w.rtn, w.dir) <=> Ahead(KeyOf(h), n, "down")
    <3> DEFINE m == KeyOf(h)
    <3>1. m \in Nodes /\ m \in Node /\ node[m].rth = h /\ h \in Rth /\ h # NoHead
      BY HeadIsAtNode, RadixAssumption
    <3>2. m # n
      BY <1>3, <2>2, <3>1 DEF InRange
    <3>3. n \in Node /\ n # NoNode
      BY <1>0, <1>1 DEF Linked, Nodes
    <3>4. Ahead(m, w.rtn, w.dir) <=> Before(n, m)
      BY <1>0, <1>1, <3>1, DescendAhead
    <3>5. Before(n, m) <=> IsPrefix(n, m) \/ ToRight(m, n)
      BY <3>1, <3>2, <3>3, BeforeIs
    <3> QED BY <3>3, <3>4, <3>5 DEF Ahead
  <2>3. Top(w)
    BY <1>3
  <2> HIDE DEF w
  <2> QED BY <1>0, <1>3, <2>1, <2>2, <2>3, MoveKeepsClean
<1>4. CASE /\ Top([top EXCEPT !.phase = "call", !.left = IF @ > 0 THEN @ - 1 ELSE 0, !.last = top.rtn])
           /\ node' = [node EXCEPT ![top.rtn].lock = @ + 1]
  <2> DEFINE left == IF top.left > 0 THEN top.left - 1 ELSE 0
             w == [top EXCEPT !.phase = "call", !.left = left, !.last = top.rtn]
             n == top.rtn
  <2>1. w \in Walk /\ w.phase = "call" /\ w.rtn = n /\ w.last = n /\ w.dir = "down"
    <3>1. left \in Nat /\ top.rtn \in Node \cup {NoNode}
      BY <1>1 DEF Walk
    <3> HIDE DEF left
    <3> QED BY <1>0, <1>1, <3>1 DEF Walk
  <2>2. Top(w)
    BY <1>4
  <2> HIDE DEF w, n
  <2> QED BY <1>0, <2>1, <2>2, TopKeepsClean
<1> QED BY <1>2, <1>3, <1>4 DEF WalkDown

LEMMA CallbackReturnsKeepsClean ==
  ASSUME IInv, CleanInv, NEW stop \in BOOLEAN, CallbackReturns(stop)
  PROVE  CleanInv'
<1> DEFINE w0 == [top EXCEPT !.phase = "run"]
           w1 == Descend(w0)
           w  == IF stop THEN [w1 EXCEPT !.unlimited = FALSE, !.left = 0] ELSE w1
           n  == top.rtn
<1>0. /\ walks # <<>> /\ top.phase = "call" /\ Top(w)
      /\ UNCHANGED <<root, hnode, hver, version>>
  BY DEF CallbackReturns
<1>1. top \in Walk /\ n \in Nodes /\ Len(walks) \in DOMAIN walks /\ Linked(node, root)
  BY <1>0, TopRuns DEF IInv, TreeInv, Sound
<1>2. top.last = n /\ top.dir = "down"
  BY <1>0, <1>1 DEF CleanInv, top
<1>3. /\ w0 \in Walk /\ w0.phase = "run" /\ w0.rtn = n /\ w0.rtn \in Nodes /\ w0.dir = "down" /\ w0.last = n
      /\ w0.clean = top.clean /\ w0.min = top.min /\ w0.max = top.max
  BY <1>1, <1>2 DEF Walk
<1>4. n # NoNode
  BY <1>1, RadixAssumption DEF Linked, Nodes
<1> HIDE DEF w0, n
<1>5. w1 \in Walk /\ w1.phase = "run" /\ w1.last = n /\ w1.clean = top.clean /\ w1.min = top.min /\ w1.max = top.max
  BY <1>3, DescendIs, DescendKeeps
<1>6. ASSUME NEW m \in Nodes PROVE Ahead(m, w1.rtn, w1.dir) <=> Before(n, m)
  BY <1>1, <1>3, <1>6, DescendAhead
<1> HIDE DEF w1
<1>7. /\ w \in Walk /\ w.phase = "run" /\ w.last = n /\ w.clean = top.clean
      /\ w.rtn = w1.rtn /\ w.dir = w1.dir
  <2>1. CASE stop
    <3> DEFINE e == [w1 EXCEPT !.unlimited = FALSE, !.left = 0]
    <3>1. /\ e \in Walk /\ e.phase = "run" /\ e.last = n /\ e.clean = top.clean
          /\ e.rtn = w1.rtn /\ e.dir = w1.dir
      BY <1>5 DEF Walk
    <3> QED BY <2>1, <3>1
  <2>2. CASE ~stop
    BY <1>5, <2>2
  <2> QED BY <2>1, <2>2
<1> HIDE DEF w
<1>8. InTree' = InTree
  BY <1>0 DEF InTree, WithUser
<1>9. Frontier(InTree', hver', w)
  <2>1. \A h \in InTree : KeyOf(h) \in Nodes
    BY HeadIsAtNode
  <2> QED BY <1>0, <1>4, <1>6, <1>7, <1>8, <2>1 DEF Frontier
<1> QED BY <1>0, <1>7, <1>8, <1>9, TopKeepsClean

LEMMA WalkRightKeepsClean ==
  ASSUME IInv, CleanInv, WalkRight
  PROVE  CleanInv'
<1>0. /\ walks # <<>> /\ top.phase = "run" /\ top.rtn # NoNode /\ top.dir = "right"
      /\ UNCHANGED <<node, root, hnode, hver, version>>
  BY DEF WalkRight, Running
<1>1. top \in Walk /\ top.rtn \in Nodes /\ Linked(node, root)
  BY <1>0, TopRuns DEF IInv, TreeInv, Sound
<1> DEFINE n == top.rtn
           r == node[n].right
<1>2. ASSUME NEW h \in InTree
      PROVE  Ahead(KeyOf(h), n, "right") <=> IF r = NoNode THEN Ahead(KeyOf(h), n, "up") ELSE Ahead(KeyOf(h), r, "down")
  <2>1. KeyOf(h) \in Nodes
    BY HeadIsAtNode
  <2> QED BY <1>1, <2>1, RightAhead
<1>3. CASE r = NoNode
  <2> DEFINE w == [top EXCEPT !.dir = "up"]
  <2>1. /\ w \in Walk /\ w.phase = "run" /\ w.rtn = n /\ w.dir = "up" /\ w.clean = top.clean /\ w.last = top.last
        /\ w.min = top.min /\ w.max = top.max
    BY <1>0, <1>1 DEF Walk
  <2>2. Top(w)
    BY <1>3 DEF WalkRight
  <2> HIDE DEF w
  <2> QED BY <1>0, <1>2, <1>3, <2>1, <2>2, MoveKeepsClean
<1>4. CASE r # NoNode
  <2> DEFINE w == [top EXCEPT !.dir = "down", !.rtn = r]
  <2>1. r \in Node
    BY <1>1, <1>4 DEF IInv, TreeInv, Sound, Typed, Nodes, RtNode
  <2>2. Top(w)
    BY <1>4 DEF WalkRight
  <2> HIDE DEF r
  <2>3. /\ w \in Walk /\ w.phase = "run" /\ w.rtn = r /\ w.dir = "down" /\ w.clean = top.clean /\ w.last = top.last
        /\ w.min = top.min /\ w.max = top.max
    BY <1>0, <1>1, <2>1 DEF Walk
  <2> HIDE DEF w
  <2> QED BY <1>0, <1>2, <1>4, <2>2, <2>3, MoveKeepsClean
<1> QED BY <1>3, <1>4

LEMMA WalkUpKeepsClean ==
  ASSUME IInv, CleanInv, WalkUp
  PROVE  CleanInv'
<1>0. walks # <<>> /\ top.phase = "run" /\ top.rtn # NoNode /\ top.dir = "up"
  BY DEF WalkUp, Running
<1>1. top \in Walk /\ top.rtn \in Nodes /\ Linked(node, root)
  BY <1>0, TopRuns DEF IInv, TreeInv, Sound
<1>2. CASE Sweepable(top.rtn)
  <2> DEFINE after == Removed(top.rtn, top.dir)
             w == [top EXCEPT !.rtn = after.rtn, !.dir = after.dir, !.clean = FALSE]
  <2>1. Top(w)
    BY <1>2 DEF WalkUp
  <2>2. after.rtn \in Node \cup {NoNode} /\ after.dir \in {"down", "right", "up"}
    <3>1. Shrunk(top.rtn, after) /\ after.dir \in {"down", "right", "up"}
      BY <1>1, RemovedShrinks DEF IInv, TreeInv, Sound, Walk
    <3> QED BY <3>1 DEF Shrunk, Typed
  <2> HIDE DEF after
  <2>3. w \in Walk /\ w.phase = "run" /\ ~w.clean
    BY <1>0, <1>1, <2>2 DEF Walk
  <2> HIDE DEF w
  <2> QED BY <1>0, <2>1, <2>3, TopKeepsClean
<1>3. CASE ~Sweepable(top.rtn)
  <2> DEFINE up == node[top.rtn].parent
             dir == IF up # NoNode /\ node[up].left = top.rtn THEN "right" ELSE "up"
             w == [top EXCEPT !.rtn = up, !.dir = dir]
  <2>1. Top(w) /\ UNCHANGED <<node, root, hnode, hver, version>>
    BY <1>3 DEF WalkUp
  <2>2. up \in Node \cup {NoNode}
    BY <1>1 DEF IInv, TreeInv, Sound, Typed, Nodes, RtNode
  <2>3. dir \in {"down", "right", "up"}
    OBVIOUS
  <2>4. ASSUME NEW h \in InTree PROVE Ahead(KeyOf(h), top.rtn, "up") <=> Ahead(KeyOf(h), up, dir)
    <3>1. KeyOf(h) \in Nodes
      BY HeadIsAtNode
    <3> QED BY <1>1, <3>1, UpAhead
  <2> HIDE DEF up, dir
  <2>5. /\ w \in Walk /\ w.phase = "run" /\ w.rtn = up /\ w.dir = dir /\ w.clean = top.clean /\ w.last = top.last
        /\ w.min = top.min /\ w.max = top.max
    BY <1>0, <1>1, <2>2, <2>3 DEF Walk
  <2> HIDE DEF w
  <2> QED BY <1>0, <2>1, <2>4, <2>5, MoveKeepsClean
<1> QED BY <1>2, <1>3

LEMMA SweepsKeepClean ==
  ASSUME IInv, CleanInv, BeginSweep \/ Sweep
  PROVE  CleanInv'
<1>0. walks # <<>> /\ top \in Walk
  BY TopRuns DEF BeginSweep, Sweep
<1>1. CASE BeginSweep
  <2> DEFINE w == [top EXCEPT !.phase = "sweep", !.at = top.rtn]
  <2>1. w \in Walk /\ w.phase = "sweep"
    BY <1>0 DEF Walk
  <2>2. Top(w)
    BY <1>1 DEF BeginSweep
  <2> HIDE DEF w
  <2> QED BY <1>0, <2>1, <2>2, TopKeepsClean
<1>2. CASE Sweep
  <2>0. top.phase = "sweep" /\ top.at \in Nodes
    BY <1>0, <1>2, TopRuns DEF Sweep
  <2>1. CASE Sweepable(top.at)
    <3> DEFINE after == Removed(top.at, top.dir)
               w == [top EXCEPT !.at = after.rtn, !.dir = after.dir, !.clean = FALSE]
    <3>1. Top(w)
      BY <1>2, <2>1 DEF Sweep
    <3>2. after.rtn \in Node \cup {NoNode} /\ after.dir \in {"down", "right", "up"}
      <4>1. Shrunk(top.at, after) /\ after.dir \in {"down", "right", "up"}
        BY <1>0, <2>0, RemovedShrinks DEF IInv, TreeInv, Sound, Walk
      <4> QED BY <4>1 DEF Shrunk, Typed
    <3> HIDE DEF after
    <3>3. w \in Walk /\ w.phase = "sweep"
      BY <1>0, <2>0, <3>2 DEF Walk
    <3> HIDE DEF w
    <3> QED BY <1>0, <3>1, <3>3, TopKeepsClean
  <2>2. CASE ~Sweepable(top.at)
    <3> DEFINE up == node[top.at].parent
               w == [top EXCEPT !.at = up]
    <3>1. Top(w)
      BY <1>2, <2>2 DEF Sweep
    <3>2. up \in Node \cup {NoNode}
      BY <2>0 DEF IInv, TreeInv, Sound, Typed, Nodes, RtNode
    <3> HIDE DEF up
    <3>3. w \in Walk /\ w.phase = "sweep"
      BY <1>0, <2>0, <3>2 DEF Walk
    <3> HIDE DEF w
    <3> QED BY <1>0, <3>1, <3>3, TopKeepsClean
  <2> QED BY <2>1, <2>2
<1> QED BY <1>1, <1>2

LEMMA EndWalkKeepsClean ==
  ASSUME IInv, CleanInv, EndWalk
  PROVE  CleanInv' /\ Len(walks') < Len(walks)
<1> DEFINE len == Len(walks)
           k == len - 1
<1>1. walks' = SubSeq(walks, 1, k) /\ UNCHANGED <<node, root, hnode, hver, version>>
  BY DEF EndWalk
<1>2. walks \in Seq(Walk) /\ len \in Nat /\ len # 0 /\ DOMAIN walks = 1 .. len
  BY LenProperties, EmptySeq DEF IInv, WalksFit, EndWalk
<1>3. k \in Nat /\ k < len /\ k + 1 = len
  BY <1>2
<1>4. \A i \in 1 .. k : i \in DOMAIN walks /\ i # len
  <2> HIDE DEF k, len
  <2>1. \A i \in 1 .. k : i \in 1 .. len /\ i # len
    BY <1>2, <1>3
  <2> QED BY <1>2, <2>1
<1>5. walks' = [i \in 1 .. k |-> walks[i]] /\ Len(walks') = k
  <2>1. walks' = [i \in 1 .. k |-> walks[i]]
    BY <1>1, <1>3
  <2> HIDE DEF k
  <2> QED BY <1>3, <2>1
<1>6. \A i \in 1 .. k : walks'[i] = walks[i] /\ walks[i].phase = "call"
  <2>1. \A i \in 1 .. Len(walks) : i # Len(walks) => walks[i].phase = "call"
    BY DEF IInv, WalksFit
  <2> QED BY <1>2, <1>4, <1>5, <2>1
<1> HIDE DEF k
<1>8. walks' # <<>> => k \in 1 .. k
  <2>1. k = 0 => walks' = <<>>
    BY <1>5
  <2> QED BY <1>3, <2>1
<1>9. walks' # <<>> => top'.phase = "call"
  BY <1>5, <1>6, <1>8 DEF top
<1>10. \A i \in DOMAIN walks' : walks'[i].phase = "call" => walks'[i].last = walks'[i].rtn /\ walks'[i].dir = "down"
  BY <1>4, <1>5, <1>6 DEF CleanInv
<1>11. CleanInv'
  BY <1>9, <1>10 DEF CleanInv
<1> QED BY <1>3, <1>5, <1>11

LEMMA CleanInvHolds == Spec => []CleanInv
<1>1. Init => CleanInv
  BY DEF Init, CleanInv
<1>2. ASSUME IInv, CleanInv, [Next]_vars PROVE CleanInv'
  <2>1. CASE UNCHANGED vars
    BY <1>2, <2>1 DEF vars, CleanInv, Frontier, InTree, WithUser, top
  <2>2. ASSUME NEW h \in Rth, Insert(h) \/ Remove(h) \/ SetVersion(h) PROVE CleanInv'
    BY <1>2, <2>2, UserStepsKeepClean
  <2>3. CASE Reset
    BY <1>2, <2>3, ResetKeepsClean
  <2>4. ASSUME NEW cnt \in Counts, NEW min \in 0 .. version, NEW max \in 0 .. version, BeginWalk(cnt, min, max)
        PROVE  CleanInv'
    BY <1>2, <2>4, BeginWalkKeepsClean
  <2>5. ASSUME NEW stop \in BOOLEAN, CallbackReturns(stop) PROVE CleanInv'
    BY <1>2, <2>5, CallbackReturnsKeepsClean
  <2>6. CASE WalkDown \/ WalkRight \/ WalkUp
    BY <1>2, <2>6, WalkDownKeepsClean, WalkRightKeepsClean, WalkUpKeepsClean
  <2>7. CASE BeginSweep \/ Sweep \/ EndWalk
    BY <1>2, <2>7, SweepsKeepClean, EndWalkKeepsClean
  <2> QED BY <1>2, <2>1, <2>2, <2>3, <2>4, <2>5, <2>6, <2>7 DEF Next
<1> QED BY <1>1, <1>2, IInvHolds, PTL DEF Spec

\* A step that neither calls back nor ends a walk.
LEMMA Quiet ==
  ASSUME IInv, IInv', walks # <<>>, NEW w, Top(w), w.phase # "call"
  PROVE  MissesNothing
<1>1. walks \in Seq(Walk) /\ walks' \in Seq(Walk)
  BY DEF IInv, WalksFit
<1>2. Len(walks) \in Nat /\ DOMAIN walks = 1 .. Len(walks) /\ Len(walks) # 0
  BY <1>1, LenProperties, EmptySeq
<1>3. Len(walks) \in DOMAIN walks
  BY <1>2
<1>4. DOMAIN walks' = DOMAIN walks /\ walks'[Len(walks)] = w
  BY <1>3 DEF Top
<1> DEFINE a == Len(walks)
           b == Len(walks')
<1>5. a \in Nat /\ b \in Nat /\ 1 .. a = 1 .. b
  BY <1>1, <1>2, <1>4, LenProperties
<1> HIDE DEF a, b
<1>6. a = b /\ ~(b < a)
  BY ONLY <1>5
<1> QED BY <1>4, <1>6 DEF a, b, MissesNothing

\* A walk calls for the first of the heads ahead of it.
LEMMA CallsForTheFirst ==
  ASSUME IInv, IInv', CleanInv, WalkDown, top.clean
  PROVE  MissesNothing
<1>0. walks # <<>> /\ top.phase = "run" /\ top.rtn # NoNode /\ top.dir = "down"
  BY DEF WalkDown, Running
<1>1. top \in Walk /\ top.rtn \in Nodes
  BY <1>0, TopRuns
<1>2. CASE Top([top EXCEPT !.dir = "up"])
  <2>1. [top EXCEPT !.dir = "up"].phase = "run"
    BY <1>0, <1>1 DEF Walk
  <2> QED BY <1>0, <1>2, <2>1, Quiet
<1>3. CASE Top(Descend(top))
  <2>1. Descend(top).phase = "run"
    BY <1>0, <1>1, DescendKeeps
  <2> QED BY <1>0, <1>3, <2>1, Quiet
<1>4. CASE /\ InRange(top.rtn, top)
           /\ Top([top EXCEPT !.phase = "call", !.left = IF @ > 0 THEN @ - 1 ELSE 0, !.last = top.rtn])
  <2> DEFINE left == IF top.left > 0 THEN top.left - 1 ELSE 0
             w == [top EXCEPT !.phase = "call", !.left = left, !.last = top.rtn]
             n == top.rtn
             g == node[n].rth
  <2>1. w \in Walk /\ w.last = n
    <3>1. left \in Nat /\ top.rtn \in Node \cup {NoNode}
      BY <1>1 DEF Walk
    <3> HIDE DEF left
    <3> QED BY <1>1, <3>1 DEF Walk
  <2>2. Top(w) /\ g # NoHead /\ hver[g] \in top.min .. top.max
    BY <1>4 DEF InRange
  <2>3. n \in Nodes
    BY <1>1
  <2> HIDE DEF w
  <2>4. Len(walks') = Len(walks) /\ Len(walks) \in Nat /\ walks'[Len(walks)] = w
    BY <1>0, <2>1, <2>2, TopIs DEF IInv
  <2>5. Frontier(InTree, hver, top)
    BY <1>0, TopRuns DEF CleanInv, top
  <2>6. g \in Rth /\ hnode[g] = n /\ KeyOf(g) = n /\ n # NoNode /\ n \in Node
    BY <2>2, <2>3, RadixAssumption DEF IInv, TreeInv, Sound, Typed, HeadsFit, RtNode, Nodes
  <2>7. g \in InTree
    BY <2>6, RadixAssumption DEF InTree, WithUser
  <2> HIDE DEF g, n
  <2>8. Ahead(n, n, "down")
    BY <2>6, Prefixes DEF Ahead
  <2>9. g \in HeadsAhead(top)
    BY <1>0, <2>2, <2>5, <2>6, <2>7, <2>8 DEF HeadsAhead, Frontier, InTree, n
  <2>10. ASSUME NEW h \in HeadsAhead(top) PROVE ~Before(KeyOf(h), n)
    <3>1. h \in InTree /\ hver[h] \in top.min .. top.max /\ (top.last # NoNode => Before(top.last, KeyOf(h)))
      BY DEF HeadsAhead, InTree
    <3> DEFINE m == KeyOf(h)
    <3>2. Ahead(m, n, "down")
      BY <1>0, <2>5, <3>1 DEF Frontier, n
    <3>3. m \in Node
      BY <3>1, HeadIsAtNode
    <3> HIDE DEF m
    <3>4. CASE IsPrefix(n, m)
      BY <3>4 DEF Before, m
    <3>5. CASE ToRight(m, n)
      BY <2>6, <3>3, <3>5, RightIsOneWay, BeforeIs DEF m
    <3> QED BY <3>2, <3>4, <3>5 DEF Ahead
  <2> QED BY <2>1, <2>4, <2>9, <2>10 DEF MissesNothing, n, g
<1> QED BY <1>2, <1>3, <1>4 DEF WalkDown

\* It ends by itself when there is none.
LEMMA EndsWithNone ==
  ASSUME IInv, CleanInv, EndWalk, top.clean
  PROVE  MissesNothing
<1>1. walks # <<>> /\ Len(walks') < Len(walks) /\ Len(walks) \in Nat
  BY EndWalkKeepsClean, TopRuns DEF EndWalk
<1>2. ASSUME top.phase = "run" PROVE HeadsAhead(top) = {}
  <2>1. top.rtn = NoNode
    BY <1>2 DEF EndWalk, WalkIsOver
  <2>2. Frontier(InTree, hver, top)
    BY <1>1, <1>2 DEF CleanInv
  <2> QED BY <2>1, <2>2 DEF HeadsAhead, Frontier, Ahead, InTree
<1>3. Len(walks') # Len(walks)
  <2> DEFINE a == Len(walks)
             b == Len(walks')
  <2>1. b < a /\ a \in Nat /\ b \in Nat
    <3>1. walks' = SubSeq(walks, 1, Len(walks) - 1)
      BY DEF EndWalk
    <3>2. Len(walks) - 1 \in Nat
      BY <1>1, EmptySeq, LenProperties DEF IInv, WalksFit
    <3> QED BY <1>1, <3>1, <3>2
  <2> HIDE DEF a, b
  <2>2. b # a
    BY <2>1
  <2> QED BY <2>2 DEF a, b
<1> QED BY <1>2, <1>3 DEF MissesNothing

LEMMA StepMissesNothing ==
  ASSUME IInv, IInv', CleanInv, [Next]_vars
  PROVE  [walks # <<>> /\ top.clean => MissesNothing]_vars
<1> SUFFICES ASSUME Next, walks # <<>>, top.clean PROVE MissesNothing
  OBVIOUS
<1>0. top \in Walk
  BY TopRuns
<1>1. CASE top.phase # "run"
  BY <1>1 DEF MissesNothing
<1>2. CASE top.phase = "run"
  <2>1. ~UserRuns
    BY <1>2 DEF UserRuns, top
  <2>2. CASE WalkDown
    BY <2>2, CallsForTheFirst
  <2>3. CASE EndWalk
    BY <2>3, EndsWithNone
  <2>4. CASE WalkRight
    <3>1. PICK r : Top([top EXCEPT !.dir = "up"]) \/ Top([top EXCEPT !.dir = "down", !.rtn = r])
      BY <2>4 DEF WalkRight
    <3>2. [top EXCEPT !.dir = "up"].phase = "run" /\ [top EXCEPT !.dir = "down", !.rtn = r].phase = "run"
      BY <1>0, <1>2 DEF Walk
    <3> QED BY <3>1, <3>2, Quiet
  <2>5. CASE WalkUp
    <3>1. PICK r, d : Top([top EXCEPT !.rtn = r, !.dir = d]) \/ Top([top EXCEPT !.rtn = r, !.dir = d, !.clean = FALSE])
      BY <2>5 DEF WalkUp
    <3>2. /\ [top EXCEPT !.rtn = r, !.dir = d].phase = "run"
          /\ [top EXCEPT !.rtn = r, !.dir = d, !.clean = FALSE].phase = "run"
      BY <1>0, <1>2 DEF Walk
    <3> QED BY <3>1, <3>2, Quiet
  <2>6. CASE BeginSweep
    <3>1. [top EXCEPT !.phase = "sweep", !.at = top.rtn].phase = "sweep"
      BY <1>0 DEF Walk
    <3> QED BY <2>6, <3>1, Quiet DEF BeginSweep
  <2> QED
    BY <1>2, <2>1, <2>2, <2>3, <2>4, <2>5, <2>6
    DEF Next, Insert, Remove, SetVersion, Reset, BeginWalk, CallbackReturns, Sweep
<1> QED BY <1>1, <1>2

\* std_radix_versionwalk visits what is in its range in order, once each, and
\* misses nothing, whatever its callbacks insert, give versions, walk, remove
\* at once or leave marked, and whatever marks other removals have left, up to
\* the moment when the walk itself takes a node out on its way up: where it
\* stands tells the heads behind its last one from those it has yet to come to.
THEOREM CleanWalksAreComplete == Spec => CleanWalksMissNothing
<1>1. IInv /\ IInv' /\ CleanInv /\ [Next]_vars => [walks # <<>> /\ top.clean => MissesNothing]_vars
  BY StepMissesNothing
<1> QED BY <1>1, IInvHolds, CleanInvHolds, PTL DEF Spec, CleanWalksMissNothing
----------------------------------------------------------------------------
(* The look-ups by prefix.                                                 *)

\* From a node up to the first of M.
UpUntil(M) == [n \in Nodes \cup {NoNode} |-> IF n = NoNode \/ n \in M THEN n ELSE node[n].parent]

\* r is the lowest of M at start or above, NoNode if there is none.
FirstAbove(M, start, r) ==
  IF r = NoNode THEN start # NoNode => \A k \in M : ~IsPrefix(k, start)
  ELSE start # NoNode /\ r \in M /\ IsPrefix(r, start) /\ \A k \in M : IsPrefix(k, start) => IsPrefix(k, r)

LEMMA ClimbsToFirst ==
  ASSUME Typed(node), Linked(node, root), NEW M \in SUBSET Nodes, NEW start \in Nodes \cup {NoNode},
         NEW end, NEW g, Leads(g, Nodes \cup {NoNode}, UpUntil(M), end)
  PROVE  \E r : g[start] = end[r] /\ FirstAbove(M, start, r)
<1> DEFINE D     == Nodes \cup {NoNode}
           nxt   == UpUntil(M)
           mu    == [n \in D |-> IF n = NoNode THEN 0 ELSE Len(n) + 1]
           To(m) == /\ m # NoNode => start # NoNode /\ IsPrefix(m, start)
                    /\ start # NoNode => \A k \in M : IsPrefix(k, start) => m # NoNode /\ IsPrefix(k, m)
           S     == {m \in D : To(m)}
<1>0. Nodes \subseteq Node /\ NoNode \notin Nodes /\ \A n \in Nodes : Len(n) \in Nat
  BY Prefixes, RadixAssumption DEF Typed, Nodes
<1>1. ASSUME NEW n \in Nodes
      PROVE  /\ node[n].parent \in D /\ node[n].parent # n
             /\ node[n].parent # NoNode => IsPrefix(node[n].parent, n)
             /\ \A m \in Nodes : IsPrefix(m, n) /\ m # n => node[n].parent # NoNode /\ IsPrefix(m, node[n].parent)
  <2>1. ParentIs(node, n, node[n].parent)
    BY DEF Linked, Nodes
  <2> QED BY <1>0, <2>1 DEF ParentIs, Nodes
<1>2. nxt \in [D -> D] /\ \A n \in D : nxt[n] = IF n = NoNode \/ n \in M THEN n ELSE node[n].parent
  BY <1>1 DEF UpUntil
<1>3. mu \in [D -> Nat] /\ \A n \in D : mu[n] = IF n = NoNode THEN 0 ELSE Len(n) + 1
  BY <1>0
<1>4. ASSUME NEW n \in D, nxt[n] # n PROVE mu[nxt[n]] < mu[n]
  <2> DEFINE p == node[n].parent
  <2>1. n \in Nodes /\ nxt[n] = p
    BY <1>2, <1>4
  <2>2. p \in D /\ (p # NoNode => p \in Nodes /\ p # n /\ IsPrefix(p, n))
    BY <1>1, <2>1
  <2> HIDE DEF p, nxt, mu
  <2>3. CASE p = NoNode
    BY <1>0, <1>3, <2>1, <2>3
  <2>4. CASE p # NoNode
    <3>1. Len(p) < Len(n)
      BY <1>0, <2>1, <2>2, <2>4, Prefixes
    <3> QED BY <1>0, <1>3, <2>1, <2>2, <2>4, <3>1
  <2> QED BY <2>3, <2>4
<1> HIDE DEF nxt, mu
<1>5. ASSUME NEW m \in S PROVE nxt[m] \in S
  <2>1. m \in D /\ To(m)
    OBVIOUS
  <2>2. CASE nxt[m] = m
    BY <2>2
  <2>3. CASE nxt[m] # m
    <3> DEFINE p == node[m].parent
    <3>1. m \in Nodes /\ m \notin M /\ nxt[m] = p
      BY <1>2, <2>1, <2>3
    <3>2. /\ p \in D /\ (p # NoNode => IsPrefix(p, m))
          /\ \A k \in Nodes : IsPrefix(k, m) /\ k # m => p # NoNode /\ IsPrefix(k, p)
      BY <1>1, <3>1
    <3> HIDE DEF p
    <3>3. m # NoNode /\ start # NoNode /\ IsPrefix(m, start) /\ start \in Nodes
      BY <1>0, <2>1, <3>1
    <3>4. p # NoNode => IsPrefix(p, start)
      BY <1>0, <3>1, <3>2, <3>3, Prefixes
    <3>5. \A k \in M : IsPrefix(k, start) => p # NoNode /\ IsPrefix(k, p)
      BY <2>1, <3>1, <3>2, <3>3
    <3> QED BY <3>1, <3>2, <3>3, <3>4, <3>5
  <2> QED BY <2>2, <2>3
<1>6. start \in S
  BY <1>0, Prefixes
<1>7. PICK r \in S : nxt[r] = r /\ g[start] = end[r]
  <2>1. S \in SUBSET D
    OBVIOUS
  <2> HIDE DEF S
  <2>2. Falls(mu, D, nxt)
    BY <1>3, <1>4 DEF Falls
  <2>3. StaysIn(S, D, nxt)
    BY <1>5, <2>1 DEF StaysIn
  <2>4. Leads(g, D, nxt, end)
    BY DEF nxt
  <2> HIDE DEF D
  <2> QED BY <1>2, <1>6, <2>2, <2>3, <2>4, LeadsEnds
<1>8. r \in D /\ To(r) /\ (r = NoNode \/ r \in M)
  BY <1>1, <1>2, <1>7
<1>9. FirstAbove(M, start, r)
  BY <1>8 DEF FirstAbove
<1> QED BY <1>7, <1>9

\* The nodes whose heads match len bits of addr.
Matches(addr, len) ==
  {n \in Nodes : Len(n) <= len /\ node[n].rth # NoHead /\ SameBits(addr, node[n].rth.addr, Len(n))}

\* What MatchUp computes.
MatchingUp(g, addr, len) ==
  g = [n \in Nodes \cup {NoNode} |->
        IF n = NoNode THEN NoNode
        ELSE IF Len(n) <= len /\ node[n].rth # NoHead /\ SameBits(addr, node[n].rth.addr, Len(n)) THEN n
        ELSE g[node[n].parent]]

LEMMA MatchUpIs ==
  ASSUME Typed(node), Linked(node, root), NEW addr, NEW len, NEW start \in Nodes \cup {NoNode}
  PROVE  FirstAbove(Matches(addr, len), start, MatchUp(start, addr, len))
<1> DEFINE D   == Nodes \cup {NoNode}
           M   == Matches(addr, len)
           end == [n \in D |-> n]
<1>1. \A n \in Nodes : node[n].parent \in D /\ node[n].parent # n /\ n # NoNode
  <2>1. \A n \in Nodes : ParentIs(node, n, node[n].parent)
    BY DEF Linked, Nodes
  <2> QED BY <2>1, RadixAssumption DEF ParentIs, Typed, Nodes
<1>2. UpUntil(M) \in [D -> D]
  BY <1>1 DEF UpUntil
<1>3. ASSUME NEW e PROVE Leads(e, D, UpUntil(M), end) <=> MatchingUp(e, addr, len)
  <2>1. ASSUME NEW n \in D
        PROVE  (IF UpUntil(M)[n] # n THEN e[UpUntil(M)[n]] ELSE end[n]) =
               (IF n = NoNode THEN NoNode
                ELSE IF Len(n) <= len /\ node[n].rth # NoHead /\ SameBits(addr, node[n].rth.addr, Len(n)) THEN n
                ELSE e[node[n].parent])
    BY <1>1 DEF UpUntil, Matches
  <2> QED BY <2>1 DEF Leads, MatchingUp
<1>4. PICK f : MatchingUp(f, addr, len)
  <2>1. PICK e : Leads(e, D, UpUntil(M), end)
    <3> HIDE DEF D, end, M
    <3> QED BY <1>2, LeadsExists
  <2> QED BY <1>3, <2>1
<1> DEFINE g == CHOOSE g : MatchingUp(g, addr, len)
<1>5. MatchingUp(g, addr, len)
  BY <1>4
<1>6. MatchUp(start, addr, len) = g[start]
  BY DEF MatchUp, MatchingUp
<1> HIDE DEF g
<1>7. Leads(g, D, UpUntil(M), end)
  BY <1>3, <1>5
<1>8. M \in SUBSET Nodes
  BY DEF Matches
<1> HIDE DEF M, end
<1>9. PICK r : g[start] = end[r] /\ FirstAbove(M, start, r)
  BY <1>7, <1>8, ClimbsToFirst
<1>10. r \in D /\ end[r] = r
  BY <1>8, <1>9 DEF FirstAbove, end
<1> QED BY <1>6, <1>9, <1>10 DEF M

\* What Nearest computes.
NearDown(g, addr, len) ==
  g = [n \in Nodes |-> IF Len(n) < len /\ Child(n, addr) # NoNode THEN g[Child(n, addr)] ELSE n]
NearNext(addr, len) ==
  [n \in Nodes |-> IF Len(n) < len /\ Child(n, addr) # NoNode THEN Child(n, addr) ELSE n]

\* The nodes that len bits of addr extend are above where the search ends, and
\* if there is one for these bits it ends there.
LEMMA NearestIs ==
  ASSUME Typed(node), Linked(node, root), root # NoNode, NEW addr \in Address, NEW len \in 0 .. Width,
         NEW p \in Node, Len(p) = len, \A i \in 1 .. len : p[i] = addr[i]
  PROVE  /\ Nearest(addr, len) \in Nodes
         /\ \A k \in Nodes : IsPrefix(k, p) => IsPrefix(k, Nearest(addr, len))
         /\ p \in Nodes => Nearest(addr, len) = p
<1> USE DEF Nodes
<1> DEFINE nxt   == NearNext(addr, len)
           mu    == [n \in Nodes |-> Width - Len(n)]
           To(n) == /\ \A k \in Nodes : IsPrefix(k, p) => IsPrefix(k, n) \/ IsPrefix(n, k)
                    /\ p \in Nodes => IsPrefix(n, p)
           S     == {n \in Nodes : To(n)}
<1>0. Nodes \subseteq Node /\ Width \in Nat /\ \A n \in Nodes : Len(n) \in Nat /\ Len(n) <= Width
  BY Prefixes, RadixAssumption DEF Typed
<1>1. /\ nxt \in [Nodes -> Nodes]
      /\ \A n \in Nodes : nxt[n] = IF Len(n) < len /\ Child(n, addr) # NoNode THEN Child(n, addr) ELSE n
  BY ChildIsSide DEF NearNext
<1>2. mu \in [Nodes -> Nat] /\ \A n \in Nodes : mu[n] = Width - Len(n)
  BY <1>0
<1>3. ASSUME NEW n \in Nodes, nxt[n] # n PROVE mu[nxt[n]] < mu[n]
  <2>1. IsPrefix(n, nxt[n]) /\ nxt[n] \in Nodes
    BY <1>1, <1>3, ChildIsSide
  <2>2. Len(n) < Len(nxt[n])
    BY <1>0, <1>3, <2>1, Prefixes
  <2> HIDE DEF nxt, mu
  <2> QED BY <1>0, <1>2, <2>1, <2>2
<1> HIDE DEF nxt, mu
<1>4. PICK g : Nearest(addr, len) = g[root] /\ Follows(g, Nodes, nxt)
  <2>1. PICK f : Follows(f, Nodes, nxt)
    BY <1>1, FollowExists
  <2>2. \A e : Follows(e, Nodes, nxt) <=> NearDown(e, addr, len)
    <3> SUFFICES ASSUME NEW e PROVE Follows(e, Nodes, nxt) <=> NearDown(e, addr, len)
      OBVIOUS
    <3>1. ASSUME NEW n \in Nodes
          PROVE  (IF nxt[n] # n THEN e[nxt[n]] ELSE n) =
                 (IF Len(n) < len /\ Child(n, addr) # NoNode THEN e[Child(n, addr)] ELSE n)
      BY <1>1, ChildIsSide
    <3> QED BY ONLY <3>1 DEF Follows, NearDown
  <2>3. NearDown(f, addr, len)
    BY <2>1, <2>2
  <2> DEFINE g == CHOOSE g : NearDown(g, addr, len)
  <2>4. NearDown(g, addr, len)
    BY <2>3
  <2>5. Nearest(addr, len) = g[root]
    BY DEF Nearest, NearDown
  <2> HIDE DEF g
  <2> QED BY <2>2, <2>4, <2>5
<1>5. len \in Nat /\ Len(p) = len /\ \A i \in 1 .. len : p[i] = addr[i]
  BY <1>0
<1>6. ASSUME NEW n \in Nodes, Len(n) < len, NEW k \in Node, IsPrefix(k, p), IsPrefix(n, k), k # n
      PROVE  On(k, n, addr[Len(n) + 1]) /\ Len(n) + 1 \in 1 .. Width
  <2>1. Len(n) < Len(k) /\ Len(k) \in Nat /\ \A i \in 1 .. Len(k) : k[i] = p[i]
    BY <1>0, <1>6, Prefixes DEF IsPrefix
  <2>2. Len(n) + 1 \in 1 .. Len(k) /\ Len(n) + 1 \in 1 .. len
    BY <1>0, <1>5, <1>6, <2>1
  <2>3. k[Len(n) + 1] = addr[Len(n) + 1]
    BY <1>5, <2>1, <2>2
  <2>4. Len(n) + 1 \in 1 .. Width
    BY <1>0, <1>5, <2>2
  <2> QED BY <1>6, <2>3, <2>4 DEF On
<1>7. ASSUME NEW n \in S PROVE nxt[n] \in S
  <2>1. CASE nxt[n] = n
    BY <2>1
  <2>2. CASE nxt[n] # n
    <3> DEFINE c == Child(n, addr)
    <3>1. n \in Nodes /\ To(n) /\ nxt[n] = c /\ c # NoNode /\ Len(n) < len
      BY <1>1, <2>2
    <3> DEFINE b == addr[Len(n) + 1]
    <3>2. c \in Nodes /\ IsPrefix(n, c) /\ b \in Bit /\ c = SideIn(node, n, b)
      BY <3>1, ChildIsSide
    <3> HIDE DEF b
    <3>3. \A m \in Nodes : On(m, n, b) => IsPrefix(c, m)
      BY <3>1, <3>2 DEF Linked, SideIs
    <3> HIDE DEF c
    <3>4. \A k \in Nodes : IsPrefix(k, p) => IsPrefix(k, c) \/ IsPrefix(c, k)
      <4>1. ASSUME NEW k \in Nodes, IsPrefix(k, p) PROVE IsPrefix(k, c) \/ IsPrefix(c, k)
        <5>1. CASE IsPrefix(k, n)
          BY <1>0, <3>1, <3>2, <4>1, <5>1, Prefixes
        <5>2. CASE IsPrefix(n, k) /\ k # n
          <6>1. On(k, n, b)
            BY <1>0, <1>6, <3>1, <4>1, <5>2 DEF b
          <6> QED BY <3>3, <6>1
        <5> QED BY <1>0, <3>1, <4>1, <5>1, <5>2, Prefixes
      <4> QED BY <4>1
    <3>5. p \in Nodes => IsPrefix(c, p)
      <4> SUFFICES ASSUME p \in Nodes PROVE IsPrefix(c, p)
        OBVIOUS
      <4>1. IsPrefix(n, p) /\ p # n /\ IsPrefix(p, p)
        BY <1>0, <1>5, <3>1, Prefixes
      <4>2. On(p, n, b)
        BY <1>6, <3>1, <4>1 DEF b
      <4> QED BY <3>3, <4>2
    <3> QED BY <3>1, <3>2, <3>4, <3>5
  <2> QED BY <2>1, <2>2
<1>8. root \in S
  BY <1>0 DEF Linked, RootIs
<1> DEFINE e == Nearest(addr, len)
<1>9. e \in S /\ nxt[e] = e
  <2>1. S \in SUBSET Nodes
    OBVIOUS
  <2> HIDE DEF S
  <2>2. Falls(mu, Nodes, nxt)
    BY <1>2, <1>3 DEF Falls
  <2>3. StaysIn(S, Nodes, nxt)
    BY <1>7, <2>1 DEF StaysIn
  <2>4. g[root] \in S /\ nxt[g[root]] = g[root]
    BY <1>1, <1>4, <1>8, <2>2, <2>3, FollowEnds
  <2> QED BY <1>4, <2>4
<1> HIDE DEF e
<1>10. e \in Nodes /\ To(e) /\ (Len(e) < len => Child(e, addr) = NoNode)
  BY <1>1, <1>9, ChildIsSide
<1>11. ASSUME NEW k \in Nodes, IsPrefix(k, p) PROVE IsPrefix(k, e)
  <2>1. CASE IsPrefix(e, k) /\ k # e
    <3>0. e \in Node /\ k \in Node /\ IsPrefix(k, p) /\ IsPrefix(e, k) /\ e # k
      BY <1>0, <1>10, <1>11, <2>1
    <3>1. Len(e) < Len(k) /\ Len(k) <= len
      BY <1>5, <3>0, Prefixes
    <3>2. Len(e) < len
      BY <1>0, <1>5, <1>10, <3>1
    <3> DEFINE b == addr[Len(e) + 1]
    <3>3. On(k, e, b) /\ Len(e) + 1 \in 1 .. Width
      BY <1>0, <1>6, <1>10, <1>11, <2>1, <3>2
    <3>4. b \in Bit /\ SideIn(node, e, b) = NoNode
      BY <1>10, <3>2, <3>3, ChildIsSide
    <3> HIDE DEF b
    <3>5. ~On(k, e, b)
      BY <1>10, <3>4 DEF Linked, SideIs
    <3> QED BY <3>3, <3>5
  <2> QED BY <1>0, <1>10, <1>11, <2>1, Prefixes
<1>12. ASSUME p \in Nodes PROVE e = p
  <2>0. IsPrefix(e, p) /\ IsPrefix(p, p) /\ e \in Node
    BY <1>0, <1>10, <1>12, Prefixes
  <2>1. IsPrefix(p, e)
    BY <1>11, <1>12, <2>0
  <2>2. ASSUME NEW q \in Node, IsPrefix(q, p), IsPrefix(p, q) PROVE q = p
    BY <2>2, Prefixes
  <2> QED BY <2>0, <2>1, <2>2
<1> QED BY <1>10, <1>11, <1>12 DEF e

LEMMA HeadsAreNodes ==
  ASSUME IInv
  PROVE  /\ \A h \in Heads : /\ h \in Rth /\ h # NoHead /\ KeyOf(h) \in Nodes /\ KeyOf(h) \in Node
                             /\ hnode[h] = KeyOf(h) /\ node[KeyOf(h)].rth = h
         /\ \A n \in Nodes : node[n].rth # NoHead => node[n].rth \in Heads /\ KeyOf(node[n].rth) = n
<1>1. ASSUME NEW h \in Heads
      PROVE  /\ h \in Rth /\ h # NoHead /\ KeyOf(h) \in Nodes /\ KeyOf(h) \in Node
             /\ hnode[h] = KeyOf(h) /\ node[KeyOf(h)].rth = h
  <2>1. h \in Rth /\ hnode[h] # NoNode /\ h # NoHead
    BY RadixAssumption DEF Heads, WithUser
  <2>2. hnode[h] \in Nodes /\ node[hnode[h]].rth = h
    BY <2>1 DEF IInv, TreeInv, HeadsFit
  <2>3. hnode[h] = KeyOf(h)
    BY <2>1, <2>2 DEF IInv, TreeInv, HeadsFit
  <2> QED BY <2>1, <2>2, <2>3 DEF IInv, TreeInv, Sound, Typed, Nodes
<1>2. ASSUME NEW n \in Nodes, node[n].rth # NoHead PROVE node[n].rth \in Heads /\ KeyOf(node[n].rth) = n
  <2>1. node[n].rth \in Rth /\ n # NoNode
    BY <1>2, RadixAssumption DEF IInv, TreeInv, Sound, Typed, RtNode, Nodes
  <2>2. KeyOf(node[n].rth) = n /\ hnode[node[n].rth] = n
    BY <1>2 DEF IInv, TreeInv, HeadsFit
  <2> QED BY <2>1, <2>2 DEF Heads, WithUser
<1> QED BY <1>1, <1>2

\* r is the longest node with one of the heads hs, of which each is a prefix
\* of it.
LowestOf(hs, r) ==
  IF r = NoNode THEN hs = {} ELSE r \in Nodes /\ node[r].rth \in hs /\ \A h \in hs : IsPrefix(KeyOf(h), r)
HeadAt(r) == IF r = NoNode THEN NoHead ELSE node[r].rth

LEMMA LongestIs ==
  ASSUME IInv, NEW hs \in SUBSET Heads, NEW r, LowestOf(hs, r)
  PROVE  Longest(hs) = HeadAt(r)
<1>1. CASE r = NoNode
  BY <1>1 DEF LowestOf, Longest, HeadAt
<1>2. CASE r # NoNode
  <2> DEFINE g == node[r].rth
             Best(h) == \A k \in hs : k.len <= h.len
  <2>1. g \in hs /\ KeyOf(g) = r /\ r \in Node /\ \A h \in hs : IsPrefix(KeyOf(h), r)
    BY <1>2, HeadsAreNodes DEF LowestOf
  <2> HIDE DEF g
  <2>2. \A h \in hs : Len(KeyOf(h)) = h.len /\ h.len \in Nat /\ KeyOf(h) \in Node /\ node[KeyOf(h)].rth = h
    BY HeadsAreNodes, KeyIs
  <2>3. Best(g)
    BY <2>1, <2>2, Prefixes
  <2>4. ASSUME NEW h \in hs, Best(h) PROVE h = g
    <3>1. h.len = g.len
      BY <2>1, <2>2, <2>3, <2>4
    <3>2. KeyOf(h) = r
      BY <2>1, <2>2, <3>1, Prefixes
    <3> QED BY <2>1, <2>2, <3>2
  <2>5. Longest(hs) = CHOOSE h \in hs : Best(h)
    BY <2>1 DEF Longest
  <2> HIDE DEF Best
  <2>6. Longest(hs) = g
    BY <2>1, <2>3, <2>4, <2>5
  <2> QED BY <1>2, <2>6 DEF HeadAt, g
<1> QED BY <1>1, <1>2

LEMMA KeyMatches ==
  ASSUME NEW addr, NEW len \in Nat, NEW p \in Node, Len(p) = len, \A i \in 1 .. len : p[i] = addr[i], NEW h \in Rth
  PROVE  IsPrefix(KeyOf(h), p) <=> h.len <= len /\ SameBits(addr, h.addr, h.len)
<1>1. h.len \in Nat /\ Len(KeyOf(h)) = h.len /\ \A i \in 1 .. h.len : KeyOf(h)[i] = h.addr[i]
  BY KeyIs
<1>2. h.len <= len => \A i \in 1 .. h.len : i \in 1 .. len
  BY <1>1
<1> QED BY <1>1, <1>2 DEF IsPrefix, SameBits

\* The nodes whose heads match are prefixes of what is looked for.
LEMMA MatchesAre ==
  ASSUME IInv, NEW addr, NEW len \in Nat, NEW p \in Node, Len(p) = len, \A i \in 1 .. len : p[i] = addr[i]
  PROVE  /\ Matches(addr, len) = {n \in Nodes : node[n].rth # NoHead /\ IsPrefix(n, p)}
         /\ Matching(addr, len) = {h \in Heads : IsPrefix(KeyOf(h), p)}
<1>1. ASSUME NEW n \in Nodes, node[n].rth # NoHead
      PROVE  Len(n) <= len /\ SameBits(addr, node[n].rth.addr, Len(n)) <=> IsPrefix(n, p)
  <2>1. PICK h \in Rth : h = node[n].rth /\ KeyOf(h) = n
    BY <1>1, HeadsAreNodes
  <2>2. Len(n) = h.len
    BY <2>1, KeyIs
  <2>3. IsPrefix(KeyOf(h), p) <=> h.len <= len /\ SameBits(addr, h.addr, h.len)
    BY KeyMatches
  <2> QED BY <2>1, <2>2, <2>3
<1>2. \A h \in Heads : IsPrefix(KeyOf(h), p) <=> h.len <= len /\ SameBits(addr, h.addr, h.len)
  BY KeyMatches, HeadsAreNodes
<1> QED BY <1>1, <1>2 DEF Matches, Matching

\* What a search finds in the nodes, as heads.
LEMMA UnmarkedIs ==
  ASSUME NoneMarked, NEW r \in Nodes \cup {NoNode}
  PROVE  HeadUnmarked(r) = HeadAt(r)
BY DEF NoneMarked, HeadUnmarked, HeadAt

LEMMA BestIs ==
  ASSUME IInv, NoneMarked, root # NoNode, NEW addr \in Address, NEW len \in 0 .. Width
  PROVE  /\ BestNode(addr, len) \in Nodes \cup {NoNode}
         /\ LowestOf(Matching(addr, len), BestNode(addr, len))
         /\ GetBest(addr, len) = HeadAt(BestNode(addr, len))
<1>1. PICK p \in Node : Len(p) = len /\ len \in Nat /\ \A i \in 1 .. len : p[i] = addr[i]
  BY Beginning
<1>2. Typed(node) /\ Linked(node, root) /\ Nodes \subseteq Node /\ NoNode \notin Nodes
  BY RadixAssumption DEF IInv, TreeInv, Sound, Typed, Nodes
<1> DEFINE M  == Matches(addr, len)
           hs == Matching(addr, len)
           e  == Nearest(addr, len)
           r  == BestNode(addr, len)
<1>3. M = {n \in Nodes : node[n].rth # NoHead /\ IsPrefix(n, p)} /\ hs = {h \in Heads : IsPrefix(KeyOf(h), p)}
  BY <1>1, MatchesAre
<1>4. e \in Nodes /\ \A k \in Nodes : IsPrefix(k, p) => IsPrefix(k, e)
  BY <1>1, <1>2, NearestIs
<1>5. FirstAbove(M, e, r)
  BY <1>2, <1>4, MatchUpIs DEF BestNode
<1> HIDE DEF M, hs, e
<1>6. r \in Nodes \cup {NoNode}
  BY <1>3, <1>5 DEF FirstAbove
<1>7. \A h \in hs : KeyOf(h) \in M
  BY <1>3, HeadsAreNodes
<1>8. \A k \in M : IsPrefix(k, e)
  BY <1>3, <1>4
<1>9. LowestOf(hs, r)
  <2> HIDE DEF r
  <2>1. CASE r = NoNode
    BY <1>2, <1>4, <1>5, <1>7, <1>8, <2>1 DEF FirstAbove, LowestOf
  <2>2. CASE r # NoNode
    <3>1. r \in M /\ \A k \in M : IsPrefix(k, e) => IsPrefix(k, r)
      BY <1>5, <2>2 DEF FirstAbove
    <3>2. r \in Nodes /\ node[r].rth \in hs
      BY <1>3, <3>1, HeadsAreNodes
    <3>3. \A h \in hs : IsPrefix(KeyOf(h), r)
      BY <1>7, <1>8, <3>1
    <3> QED BY <2>2, <3>2, <3>3 DEF LowestOf
  <2> QED BY <2>1, <2>2
<1>10. GetBest(addr, len) = HeadAt(r)
  BY <1>6, UnmarkedIs DEF GetBest
<1> QED BY <1>6, <1>9, <1>10 DEF hs

LEMMA NextBestIs ==
  ASSUME IInv, NoneMarked, root # NoNode, NEW addr \in Address, NEW len \in 0 .. Width
  PROVE  GetNextBest(addr, len) = Longest(Matching(addr, len) \ {GetBest(addr, len)})
<1>1. PICK p \in Node : Len(p) = len /\ len \in Nat /\ \A i \in 1 .. len : p[i] = addr[i]
  BY Beginning
<1>2. Typed(node) /\ Linked(node, root) /\ Nodes \subseteq Node /\ NoNode \notin Nodes
  BY RadixAssumption DEF IInv, TreeInv, Sound, Typed, Nodes
<1> DEFINE M  == Matches(addr, len)
           hs == Matching(addr, len)
           r  == BestNode(addr, len)
           g  == GetBest(addr, len)
<1>3. M = {n \in Nodes : node[n].rth # NoHead /\ IsPrefix(n, p)} /\ hs = {h \in Heads : IsPrefix(KeyOf(h), p)}
  BY <1>1, MatchesAre
<1>4. r \in Nodes \cup {NoNode} /\ LowestOf(hs, r) /\ g = HeadAt(r)
  BY BestIs
<1>5. CASE g = NoHead
  <2>1. hs = {}
    BY <1>3, <1>4, <1>5, HeadsAreNodes DEF LowestOf, HeadAt
  <2> QED BY <1>5, <2>1 DEF GetNextBest, Longest
<1>6. CASE g # NoHead
  <2> DEFINE up == node[r].parent
             s  == MatchUp(up, addr, len)
  <2>1. GetNextBest(addr, len) = HeadUnmarked(s)
    BY <1>6 DEF GetNextBest
  <2> HIDE DEF M, hs, r, g
  <2>2. r \in Nodes /\ g = node[r].rth /\ g \in hs /\ \A h \in hs : IsPrefix(KeyOf(h), r)
    BY <1>4, <1>6 DEF HeadAt, LowestOf
  <2>3. /\ up \in Nodes \cup {NoNode} /\ (up # NoNode => IsPrefix(up, r) /\ up # r)
        /\ \A k \in Nodes : IsPrefix(k, r) /\ k # r => up # NoNode /\ IsPrefix(k, up)
    <3>1. ParentIs(node, r, up)
      BY <1>2, <2>2 DEF Linked, Nodes
    <3> HIDE DEF up
    <3> QED BY <3>1 DEF ParentIs, Nodes
  <2>4. FirstAbove(M, up, s)
    BY <1>2, <2>3, MatchUpIs DEF M
  <2> HIDE DEF up, s
  <2>5. s \in Nodes \cup {NoNode}
    BY <1>3, <2>4 DEF FirstAbove
  <2>6. \A h \in hs \ {g} : KeyOf(h) \in M /\ up # NoNode /\ IsPrefix(KeyOf(h), up)
    <3> SUFFICES ASSUME NEW h \in hs, h # g PROVE KeyOf(h) \in M /\ up # NoNode /\ IsPrefix(KeyOf(h), up)
      OBVIOUS
    <3>1. KeyOf(h) \in M /\ KeyOf(h) \in Nodes /\ node[KeyOf(h)].rth = h
      BY <1>3, HeadsAreNodes
    <3>2. KeyOf(h) # r
      BY <2>2, <3>1
    <3> QED BY <2>2, <2>3, <3>1, <3>2
  <2>7. LowestOf(hs \ {g}, s)
    <3>1. CASE s = NoNode
      BY <2>4, <2>6, <3>1 DEF FirstAbove, LowestOf
    <3>2. CASE s # NoNode
      <4>1. up # NoNode /\ s \in M /\ IsPrefix(s, up) /\ \A k \in M : IsPrefix(k, up) => IsPrefix(k, s)
        BY <2>4, <3>2 DEF FirstAbove
      <4>2. s # r
        BY <1>2, <1>3, <2>2, <2>3, <4>1, Prefixes
      <4>3. s \in Nodes /\ node[s].rth \in hs /\ node[s].rth # g
        BY <1>3, <2>2, <4>1, <4>2, HeadsAreNodes
      <4> QED BY <2>6, <3>2, <4>1, <4>3 DEF LowestOf
    <3> QED BY <3>1, <3>2
  <2>8. hs \ {g} \in SUBSET Heads
    BY <1>3
  <2>9. Longest(hs \ {g}) = HeadAt(s)
    BY <2>7, <2>8, LongestIs
  <2> QED BY <2>1, <2>5, <2>9, UnmarkedIs DEF hs, g
<1> QED BY <1>5, <1>6

LEMMA ExactIs ==
  ASSUME IInv, NoneMarked, root # NoNode, NEW addr \in Address, NEW len \in 0 .. Width
  PROVE  GetExact(addr, len) = Longest({h \in Heads : KeyOf(h) = SubSeq(addr, 1, len)})
<1>1. PICK p : p = SubSeq(addr, 1, len)
  OBVIOUS
<1>2. p \in Node /\ Len(p) = len /\ len \in Nat /\ \A i \in 1 .. len : p[i] = addr[i]
  BY <1>1, Beginning
<1> DEFINE hs == {h \in Heads : KeyOf(h) = p}
           e  == Nearest(addr, len)
           r  == IF p \in Nodes /\ node[p].rth # NoHead THEN p ELSE NoNode
<1>3. Typed(node) /\ Linked(node, root) /\ Nodes \subseteq Node /\ NoNode \notin Nodes
  BY RadixAssumption DEF IInv, TreeInv, Sound, Typed, Nodes
<1>4. e \in Nodes /\ (p \in Nodes => e = p)
  BY <1>2, <1>3, NearestIs
<1>5. Len(e) = len /\ node[e].rth # NoHead /\ SameBits(addr, node[e].rth.addr, len) <=> r # NoNode
  <2>1. Len(e) = len /\ node[e].rth # NoHead => (SameBits(addr, node[e].rth.addr, Len(e)) <=> e \in Matches(addr, len))
    BY <1>2, <1>4 DEF Matches
  <2>2. e \in Matches(addr, len) <=> node[e].rth # NoHead /\ IsPrefix(e, p)
    BY <1>2, <1>4, MatchesAre
  <2> HIDE DEF e
  <2>3. IsPrefix(e, p) /\ Len(e) = len => e = p
    BY <1>2, <1>3, <1>4, Prefixes
  <2>4. IsPrefix(p, p)
    BY <1>2, Prefixes
  <2> QED BY <1>2, <1>3, <1>4, <2>1, <2>2, <2>3, <2>4
<1>6. GetExact(addr, len) = HeadAt(r)
  <2>1. GetExact(addr, len) = IF r # NoNode THEN HeadUnmarked(e) ELSE NoHead
    BY <1>5 DEF GetExact
  <2> HIDE DEF e
  <2> QED BY <1>4, <2>1, UnmarkedIs DEF HeadAt
<1>7. LowestOf(hs, r)
  <2>1. CASE r = NoNode
    <3>1. \A h \in Heads : KeyOf(h) \in Nodes /\ node[KeyOf(h)].rth = h /\ h # NoHead
      BY HeadsAreNodes
    <3>2. hs = {}
      BY <1>3, <2>1, <3>1
    <3> QED BY <2>1, <3>2 DEF LowestOf
  <2>2. CASE r # NoNode
    <3>1. r = p /\ p \in Nodes /\ node[p].rth # NoHead
      BY <2>2
    <3>2. node[p].rth \in hs
      BY <3>1, HeadsAreNodes
    <3>3. \A h \in hs : IsPrefix(KeyOf(h), p)
      BY <1>2, Prefixes
    <3> HIDE DEF hs, r
    <3> QED BY <2>2, <3>1, <3>2, <3>3 DEF LowestOf
  <2> QED BY <2>1, <2>2
<1> HIDE DEF r
<1>8. Longest(hs) = HeadAt(r)
  BY <1>7, LongestIs
<1> QED BY <1>1, <1>6, <1>8

\* What GetParent computes.
HeadUp(g) ==
  g = [n \in Nodes \cup {NoNode} |->
        IF n = NoNode THEN NoHead
        ELSE IF node[n].rth # NoHead THEN node[n].rth ELSE g[node[n].parent]]

LEMMA ParentHeadIs ==
  ASSUME IInv, NEW h \in Heads
  PROVE  GetParent(h) = Longest({g \in Heads : g # h /\ IsPrefix(KeyOf(g), KeyOf(h))})
<1> DEFINE D   == Nodes \cup {NoNode}
           M   == {n \in Nodes : node[n].rth # NoHead}
           end == [n \in D |-> HeadAt(n)]
           k   == KeyOf(h)
           up  == node[k].parent
           hs  == {g \in Heads : g # h /\ IsPrefix(KeyOf(g), k)}
<1>1. Typed(node) /\ Linked(node, root) /\ Nodes \subseteq Node /\ NoNode \notin Nodes
  BY RadixAssumption DEF IInv, TreeInv, Sound, Typed, Nodes
<1>2. h \in Rth /\ k \in Nodes /\ hnode[h] = k /\ node[k].rth = h
  BY HeadsAreNodes
<1>3. \A n \in Nodes : node[n].parent \in D /\ node[n].parent # n
  <2> SUFFICES ASSUME NEW n \in Nodes PROVE node[n].parent \in D /\ node[n].parent # n
    OBVIOUS
  <2>1. ParentIs(node, n, node[n].parent)
    BY <1>1 DEF Linked, Nodes
  <2>2. n # NoNode
    BY <1>1
  <2> QED BY ONLY <2>1, <2>2 DEF ParentIs, Nodes
<1>4. /\ up \in D /\ (up # NoNode => IsPrefix(up, k) /\ up # k)
      /\ \A m \in Nodes : IsPrefix(m, k) /\ m # k => up # NoNode /\ IsPrefix(m, up)
  <2>1. ParentIs(node, k, up)
    BY <1>1, <1>2 DEF Linked, Nodes
  <2> HIDE DEF up, k
  <2> QED BY <2>1 DEF ParentIs, Nodes
<1>5. UpUntil(M) \in [D -> D]
  BY <1>3 DEF UpUntil
<1>6. ASSUME NEW e PROVE Leads(e, D, UpUntil(M), end) <=> HeadUp(e)
  <2>1. ASSUME NEW n \in D
        PROVE  (IF UpUntil(M)[n] # n THEN e[UpUntil(M)[n]] ELSE end[n]) =
               (IF n = NoNode THEN NoHead
                ELSE IF node[n].rth # NoHead THEN node[n].rth ELSE e[node[n].parent])
    BY <1>1, <1>3 DEF UpUntil, HeadAt
  <2> QED BY <2>1 DEF Leads, HeadUp
<1>7. PICK f : HeadUp(f)
  <2>1. PICK e : Leads(e, D, UpUntil(M), end)
    <3> HIDE DEF D, end, M
    <3> QED BY <1>5, LeadsExists
  <2> QED BY <1>6, <2>1
<1> DEFINE g == CHOOSE g : HeadUp(g)
<1>8. HeadUp(g)
  BY <1>7
<1>9. GetParent(h) = g[up]
  BY <1>2 DEF GetParent, HeadUp
<1> HIDE DEF g
<1>10. Leads(g, D, UpUntil(M), end)
  BY <1>6, <1>8
<1>11. M \in SUBSET Nodes
  OBVIOUS
<1> HIDE DEF M, end, up, k, hs
<1>12. PICK r : g[up] = end[r] /\ FirstAbove(M, up, r)
  BY <1>1, <1>4, <1>10, <1>11, ClimbsToFirst
<1>13. GetParent(h) = HeadAt(r)
  BY <1>9, <1>11, <1>12 DEF FirstAbove, end
<1>14. \A q \in hs : KeyOf(q) \in M /\ up # NoNode /\ IsPrefix(KeyOf(q), up)
  <2> SUFFICES ASSUME NEW q \in hs PROVE KeyOf(q) \in M /\ up # NoNode /\ IsPrefix(KeyOf(q), up)
    OBVIOUS
  <2>1. q \in Heads /\ q # h /\ IsPrefix(KeyOf(q), k)
    BY DEF hs
  <2>2. KeyOf(q) \in Nodes /\ node[KeyOf(q)].rth = q /\ q # NoHead
    BY <2>1, HeadsAreNodes
  <2>3. KeyOf(q) # k
    BY <1>2, <2>1, <2>2
  <2> QED BY <1>4, <2>1, <2>2, <2>3 DEF M
<1>15. LowestOf(hs, r)
  <2>1. CASE r = NoNode
    BY <1>12, <1>14, <2>1 DEF FirstAbove, LowestOf
  <2>2. CASE r # NoNode
    <3>1. up # NoNode /\ r \in M /\ IsPrefix(r, up) /\ \A m \in M : IsPrefix(m, up) => IsPrefix(m, r)
      BY <1>12, <2>2 DEF FirstAbove
    <3>2. r \in Node /\ up \in Node /\ k \in Node /\ IsPrefix(up, k) /\ up # k
      BY <1>1, <1>2, <1>4, <1>11, <3>1
    <3>3. r # k /\ IsPrefix(r, k)
      BY <3>1, <3>2, Prefixes
    <3>4. r \in Nodes /\ node[r].rth \in Heads /\ KeyOf(node[r].rth) = r
      BY <3>1, HeadsAreNodes DEF M
    <3>5. node[r].rth # h
      BY <3>3, <3>4 DEF k
    <3>6. node[r].rth \in hs
      BY <3>3, <3>4, <3>5 DEF hs
    <3> QED BY <1>14, <2>2, <3>1, <3>4, <3>6 DEF LowestOf
  <2> QED BY <2>1, <2>2
<1>16. Longest(hs) = HeadAt(r)
  <2>1. hs \in SUBSET Heads
    BY DEF hs
  <2> QED BY <1>15, <2>1, LongestIs
<1> QED BY <1>13, <1>16 DEF hs, k

LEMMA LeafIs ==
  ASSUME IInv, NEW h \in Heads
  PROVE  NodeIsLeaf(h) <=> Extending(KeyOf(h)) = {h}
<1> DEFINE k == KeyOf(h)
<1>1. Linked(node, root) /\ Nodes \subseteq Node
  BY DEF IInv, TreeInv, Sound, Typed, Nodes
<1>2. k \in Nodes /\ hnode[h] = k /\ node[k].rth = h
  BY HeadsAreNodes
<1>x. PICK x, y : x = 0 /\ y = 1
  OBVIOUS
<1>3. x \in Bit /\ y \in Bit /\ \A b \in Bit : b = x \/ b = y
  BY <1>x DEF Bit
<1>4. NodeIsLeaf(h) <=> \A b \in Bit : SideIn(node, k, b) = NoNode
  <2>1. node[k].left = SideIn(node, k, x) /\ node[k].right = SideIn(node, k, y)
    BY <1>x DEF SideIn
  <2> QED BY <1>2, <1>3, <2>1 DEF NodeIsLeaf
<1> HIDE DEF k
<1>5. h \in Extending(k)
  BY <1>1, <1>2, Prefixes DEF Extending, k
<1>6. ASSUME \A b \in Bit : SideIn(node, k, b) = NoNode, NEW g \in Extending(k) PROVE g = h
  <2>1. g \in Heads /\ KeyOf(g) \in Nodes /\ node[KeyOf(g)].rth = g /\ IsPrefix(k, KeyOf(g))
    BY HeadsAreNodes DEF Extending
  <2>2. ASSUME KeyOf(g) # k PROVE FALSE
    <3>1. PICK b \in Bit : On(KeyOf(g), k, b)
      BY <1>1, <1>2, <2>1, <2>2, Sides
    <3>2. SideIn(node, k, b) = NoNode
      BY <1>6
    <3> QED BY <1>1, <1>2, <2>1, <3>1, <3>2, SideIsSubtree
  <2> QED BY <1>2, <2>1, <2>2
<1>7. ASSUME NEW b \in Bit, SideIn(node, k, b) # NoNode PROVE \E g \in Extending(k) : g # h
  <2>1. PICK c : c = SideIn(node, k, b)
    OBVIOUS
  <2>2. c \in Nodes /\ On(c, k, b)
    BY <1>1, <1>2, <1>7, <2>1, Kin DEF Nodes
  <2>3. PICK g \in Rth : hnode[g] # NoNode /\ IsPrefix(c, KeyOf(g))
    BY <2>2, HeadUnder
  <2>4. g \in Heads /\ KeyOf(g) \in Node
    BY <2>3, KeyIs DEF Heads, WithUser
  <2>5. On(KeyOf(g), k, b)
    BY <1>1, <1>2, <2>2, <2>3, <2>4, Sides
  <2>6. IsPrefix(k, KeyOf(g)) /\ KeyOf(g) # k
    BY <2>5, Sides
  <2> QED BY <2>4, <2>6 DEF Extending, k
<1> QED BY <1>4, <1>5, <1>6, <1>7 DEF k

\* While no removal is postponed the look-ups of std_radix.c by prefix return
\* what the prefixes of the heads say, whatever was inserted and removed
\* before and in callbacks too: they go down by single bits and up by links, and
\* look at the bits in between only at the heads.
THEOREM PrefixLookupsAreRight == Spec => []PrefixesAgree
<1>1. ASSUME IInv PROVE PrefixesAgree
  <2> SUFFICES ASSUME NoneMarked PROVE PrefixesAgree
    BY DEF PrefixesAgree
  <2>1. ASSUME NEW addr \in Address, NEW len \in 0 .. Width
        PROVE  /\ GetBest(addr, len) = Longest(Matching(addr, len))
               /\ GetNextBest(addr, len) = Longest(Matching(addr, len) \ {GetBest(addr, len)})
               /\ GetExact(addr, len) = Longest({h \in Heads : KeyOf(h) = SubSeq(addr, 1, len)})
    <3>1. CASE root = NoNode
      <4>1. Nodes = {}
        BY <1>1, <3>1 DEF IInv, TreeInv, Sound, Linked, RootIs, Nodes
      <4>2. Heads = {}
        BY <1>1, <4>1, HeadsAreNodes
      <4>3. \A hs \in SUBSET Heads : Longest(hs) = NoHead
        BY <4>2 DEF Longest
      <4>4. GetBest(addr, len) = NoHead /\ GetNextBest(addr, len) = NoHead /\ GetExact(addr, len) = NoHead
        BY <3>1 DEF GetBest, GetNextBest, GetExact
      <4>5. /\ Matching(addr, len) \in SUBSET Heads /\ Matching(addr, len) \ {GetBest(addr, len)} \in SUBSET Heads
            /\ {h \in Heads : KeyOf(h) = SubSeq(addr, 1, len)} \in SUBSET Heads
        BY DEF Matching
      <4> QED BY <4>3, <4>4, <4>5
    <3>2. CASE root # NoNode
      <4>1. GetBest(addr, len) = Longest(Matching(addr, len))
        <5>1. Matching(addr, len) \in SUBSET Heads
          BY DEF Matching
        <5> QED BY <1>1, <3>2, <5>1, BestIs, LongestIs
      <4> QED BY <1>1, <3>2, <4>1, NextBestIs, ExactIs
    <3> QED BY <3>1, <3>2
  <2>2. \A h \in Heads : /\ GetParent(h) = Longest({g \in Heads : g # h /\ IsPrefix(KeyOf(g), KeyOf(h))})
                         /\ NodeIsLeaf(h) <=> Extending(KeyOf(h)) = {h}
    BY <1>1, ParentHeadIs, LeafIs
  <2> QED BY <2>1, <2>2 DEF PrefixesAgree
<1> QED BY <1>1, IInvHolds, PTL

----------------------------------------------------------------------------
(* The order of the tree.                                                  *)

\* There are finitely many names.
LEMMA NodeFinite == IsFiniteSet(Node)
<1> DEFINE B(n) == [1 .. n -> Bit]
<1>1. IsFiniteSet(Bit)
  <2>1. Bit = {0} \cup {1}
    BY DEF Bit
  <2> QED BY <2>1, FS_Singleton, FS_Union
<1>2. ASSUME NEW n \in Nat PROVE IsFiniteSet(B(n))
  <2> DEFINE S == (1 .. n) \X Bit
  <2>1. IsFiniteSet(1 .. n)
    BY FS_Interval
  <2>2. IsFiniteSet(SUBSET S)
    BY <1>1, <2>1, FS_Product, FS_SUBSET
  <2> DEFINE G == [f \in B(n) |-> {<<i, f[i]>> : i \in 1 .. n}]
  <2>3. G \in [B(n) -> SUBSET S]
    OBVIOUS
  <2>4. ASSUME NEW f \in B(n), NEW g \in B(n), G[f] = G[g] PROVE f = g
    <3>1. {<<i, f[i]>> : i \in 1 .. n} = {<<i, g[i]>> : i \in 1 .. n}
      BY <2>4
    <3>2. ASSUME NEW i \in 1 .. n PROVE f[i] = g[i]
      <4>1. <<i, f[i]>> \in {<<j, g[j]>> : j \in 1 .. n}
        BY <3>1
      <4>2. PICK j \in 1 .. n : <<i, f[i]>> = <<j, g[j]>>
        BY <4>1
      <4> QED BY <4>2
    <3> QED BY <3>2
  <2> HIDE DEF G, S
  <2>5. G \in Injection(B(n), SUBSET S)
    BY <2>3, <2>4 DEF Injection, IsInjective
  <2> QED BY <2>2, <2>5, FS_Injection
<1> DEFINE Bs == {B(n) : n \in 0 .. Width}
           F == [n \in 0 .. Width |-> B(n)]
<1>3. IsFiniteSet(Bs)
  <2>1. IsFiniteSet(0 .. Width)
    BY RadixAssumption, FS_Interval
  <2> HIDE DEF B
  <2>2. F \in Surjection(0 .. Width, Bs)
    BY DEF Surjection
  <2> QED BY <2>1, <2>2, FS_Surjection
<1>4. \A T \in Bs : IsFiniteSet(T)
  BY <1>2
<1>5. Node = UNION Bs
  BY DEF Node
<1> HIDE DEF Bs
<1> QED BY <1>3, <1>4, <1>5, FS_UNION

\* Nothing is both before and behind a name, and nothing before itself.
LEMMA BeforeIsOneWay ==
  ASSUME NEW m \in Node, NEW n \in Node, Before(m, n)
  PROVE  ~Before(n, m) /\ m # n
<1>1. (m # n /\ IsPrefix(m, n)) \/ ToRight(n, m)
  BY BeforeIs
<1>2. CASE m # n /\ IsPrefix(m, n)
  <2>1. ~IsPrefix(n, m)
    BY <1>2, Prefixes
  <2>2. ~ToRight(m, n)
    BY <1>2, RightIsOneWay
  <2> QED BY <1>2, <2>1, <2>2, BeforeIs
<1>3. CASE ToRight(n, m)
  <2>1. ~ToRight(m, n) /\ ~IsPrefix(m, n) /\ ~IsPrefix(n, m)
    BY <1>3, RightIsOneWay
  <2> QED BY <2>1, BeforeIs, Prefixes
<1> QED BY <1>1, <1>2, <1>3

\* What is below a name to the right, or to the right of it, is to the right.
LEMMA RightGoesOn ==
  ASSUME NEW p \in Node, NEW y \in Node, NEW k \in Node, ToRight(y, p), IsPrefix(y, k) \/ ToRight(k, y)
  PROVE  ToRight(k, p)
<1>1. PICK r \in Node, b \in Bit, c \in Bit : b < c /\ On(p, r, b) /\ On(y, r, c)
  BY DEF ToRight
<1>2. CASE IsPrefix(y, k)
  <2>1. On(k, r, c)
    BY <1>1, <1>2, Sides
  <2> QED BY <1>1, <2>1 DEF ToRight
<1>3. CASE ToRight(k, y)
  <2>1. PICK s \in Node, d \in Bit, e \in Bit : d < e /\ On(y, s, d) /\ On(k, s, e)
    BY <1>3 DEF ToRight
  <2>2. IsPrefix(r, y) /\ IsPrefix(s, y) /\ r # y /\ s # y
    BY <1>1, <2>1, Sides
  <2>3. Len(r) \in Nat /\ Len(s) \in Nat
    BY Prefixes
  <2>4. IsPrefix(r, s) \/ IsPrefix(s, r)
    <3>1. Len(r) <= Len(s) \/ Len(s) <= Len(r)
      BY <2>3
    <3> QED BY <2>2, <3>1, Prefixes
  <2>5. CASE r = s
    <3>1. c = d
      BY <1>1, <2>1, <2>5, Sides
    <3>2. b < e
      BY <1>1, <2>1, <3>1 DEF Bit
    <3> QED BY <1>1, <2>1, <2>5, <3>2 DEF ToRight
  <2>6. CASE r # s /\ IsPrefix(r, s)
    <3>1. On(s, r, c)
      BY <1>1, <2>2, <2>6, Sides
    <3>2. On(k, r, c)
      BY <2>1, <3>1, Sides
    <3> QED BY <1>1, <3>2 DEF ToRight
  <2>7. CASE r # s /\ IsPrefix(s, r)
    <3>1. On(r, s, d)
      BY <2>1, <2>2, <2>7, Sides
    <3>2. On(p, s, d)
      BY <1>1, <3>1, Sides
    <3> QED BY <2>1, <3>2 DEF ToRight
  <2> QED BY <2>4, <2>5, <2>6, <2>7
<1> QED BY <1>2, <1>3

\* What the invariant says of the links.
LEMMA Standing ==
  ASSUME IInv
  PROVE  /\ Typed(node) /\ Linked(node, root) /\ Nodes \subseteq Node /\ NoNode \notin Nodes
         /\ root \in Nodes \cup {NoNode} /\ (root = NoNode => Nodes = {} /\ Heads = {})
         /\ \A n \in Nodes : node[n].left = SideIn(node, n, 0) /\ node[n].right = SideIn(node, n, 1)
         /\ \A n \in Nodes : /\ node[n].left \in Nodes \cup {NoNode} /\ node[n].right \in Nodes \cup {NoNode}
                             /\ node[n].parent \in Nodes \cup {NoNode}
<1>1. Typed(node) /\ Linked(node, root) /\ Nodes \subseteq Node /\ NoNode \notin Nodes
  BY RadixAssumption DEF IInv, TreeInv, Sound, Typed, Nodes
<1>2. root \in Nodes \cup {NoNode} /\ (root = NoNode => Nodes = {})
  BY <1>1 DEF Linked, RootIs, Nodes
<1>3. Nodes = {} => Heads = {}
  BY HeadsAreNodes
<1>4. \A n \in Nodes : node[n].left = SideIn(node, n, 0) /\ node[n].right = SideIn(node, n, 1)
  BY DEF SideIn
<1>x. PICK x, y : x = 0 /\ y = 1
  OBVIOUS
<1>5. x \in Bit /\ y \in Bit
  BY <1>x DEF Bit
<1>6. \A n \in Nodes : SideIn(node, n, x) \in Nodes \cup {NoNode} /\ SideIn(node, n, y) \in Nodes \cup {NoNode}
  BY <1>1, <1>5, Kin DEF Nodes
<1>7. \A n \in Nodes : node[n].left \in Nodes \cup {NoNode} /\ node[n].right \in Nodes \cup {NoNode}
  BY <1>x, <1>4, <1>6
<1>8. \A n \in Nodes : node[n].parent \in Nodes \cup {NoNode}
  BY <1>1, Kin DEF Nodes
<1> QED BY <1>1, <1>2, <1>3, <1>4, <1>7, <1>8

\* From a node a walk goes down to what comes behind it.
LEMMA DownAhead ==
  ASSUME IInv, NEW n \in Nodes, NEW m \in Nodes
  PROVE  /\ Before(n, m) <=> IF node[n].left # NoNode THEN Ahead(m, node[n].left, "down") ELSE Ahead(m, n, "right")
         /\ Ahead(m, n, "down") <=> m = n \/ Before(n, m)
<1>1. Linked(node, root) /\ Nodes \subseteq Node /\ NoNode \notin Nodes
  BY Standing
<1> DEFINE w == [phase |-> "run", rtn |-> n, at |-> NoNode, dir |-> "down", unlimited |-> TRUE, left |-> 0,
                 min |-> 0, max |-> 0, last |-> NoNode, clean |-> TRUE]
<1>2. w \in Walk /\ w.rtn = n /\ w.dir = "down"
  BY <1>1, RadixAssumption DEF Walk
<1>3. node[n].left # NoNode => Descend(w).rtn = node[n].left /\ Descend(w).dir = "down"
  BY DEF Descend
<1>4. node[n].left = NoNode => Descend(w).rtn = n /\ Descend(w).dir = "right"
  BY DEF Descend
<1> HIDE DEF w
<1>5. Ahead(m, Descend(w).rtn, Descend(w).dir) <=> Before(n, m)
  BY <1>1, <1>2, DescendAhead
<1>6. Ahead(m, n, "down") <=> m = n \/ Before(n, m)
  <2>1. Ahead(m, n, "down") <=> ToRight(m, n) \/ IsPrefix(n, m)
    BY <1>1 DEF Ahead
  <2>2. Before(n, m) <=> (n # m /\ IsPrefix(n, m)) \/ ToRight(m, n)
    BY <1>1, BeforeIs
  <2> QED BY <1>1, <2>1, <2>2, Prefixes
<1> QED BY <1>3, <1>4, <1>5, <1>6

----------------------------------------------------------------------------
(* The node to the right of a node, and the next of a head.                *)

\* Up from n, the right child of its parent is next, if there is one and it is
\* another.
LEMMA UpTurns ==
  ASSUME IInv, NEW n \in Nodes, NEW m \in Nodes, NEW p, p = node[n].parent
  PROVE  Ahead(m, n, "up") <=>
           IF p = NoNode THEN FALSE
           ELSE IF node[p].right # NoNode /\ node[p].right # n THEN Ahead(m, node[p].right, "down")
           ELSE Ahead(m, p, "up")
<1>0. Linked(node, root) /\ Nodes \subseteq Node /\ p \in Nodes \cup {NoNode}
  BY Standing
<1>1. Ahead(m, n, "up") <=> Ahead(m, p, IF p # NoNode /\ node[p].left = n THEN "right" ELSE "up")
  BY <1>0, UpAhead
<1>2. CASE p = NoNode
  BY <1>1, <1>2 DEF Ahead
<1>3. CASE p # NoNode
  <2>x. PICK x, y : x = 0 /\ y = 1
    OBVIOUS
  <2>1. x \in Bit /\ y \in Bit /\ x # y /\ \A b \in Bit : b = x \/ b = y
    BY <2>x DEF Bit
  <2>2. p \in Nodes /\ IsPrefix(p, n) /\ p # n /\ \A b \in Bit : On(n, p, b) <=> SideIn(node, p, b) = n
    BY <1>0, <1>3, Kin DEF Nodes
  <2>3. node[p].left = SideIn(node, p, x) /\ node[p].right = SideIn(node, p, y)
    BY <2>x, <2>2, Standing
  <2>4. PICK b \in Bit : On(n, p, b)
    BY <1>0, <2>2, Sides
  <2>5. CASE b = x
    <3>1. node[p].left = n
      BY <2>2, <2>3, <2>4, <2>5
    <3>2. node[p].right # n
      BY <2>1, <2>2, <2>3, <2>4, <2>5, Sides
    <3>3. Ahead(m, n, "up") <=> Ahead(m, p, "right")
      BY <1>1, <1>3, <3>1
    <3>4. Ahead(m, p, "right") <=> IF node[p].right = NoNode THEN Ahead(m, p, "up") ELSE Ahead(m, node[p].right, "down")
      BY <1>0, <2>2, RightAhead
    <3> QED BY <1>3, <3>2, <3>3, <3>4
  <2>6. CASE b = y
    <3>1. node[p].right = n
      BY <2>2, <2>3, <2>4, <2>6
    <3>2. node[p].left # n
      BY <2>1, <2>2, <2>3, <2>4, <2>6, Sides
    <3> QED BY <1>1, <1>3, <3>1, <3>2
  <2> QED BY <2>1, <2>5, <2>6
<1> QED BY <1>2, <1>3

\* What NextRight computes: up to a node whose parent has another to the right.
RightUps(g) ==
  g = [m \in Nodes |->
        LET p == node[m].parent
        IN IF p = NoNode THEN NoNode
           ELSE IF node[p].right # NoNode /\ node[p].right # m THEN node[p].right
           ELSE g[p]]
TurnsAt(m)  == node[m].parent = NoNode \/ (node[node[m].parent].right # NoNode /\ node[node[m].parent].right # m)
UpToTurn    == [m \in Nodes |-> IF TurnsAt(m) THEN m ELSE node[m].parent]
RightOfUp   == [m \in Nodes |-> IF node[m].parent = NoNode THEN NoNode ELSE node[node[m].parent].right]

\* A way that goes up as long as it goes on comes to an end.
LEMMA UpFalls ==
  ASSUME IInv, NEW nxt, nxt \in [Nodes -> Nodes], \A m \in Nodes : nxt[m] = m \/ nxt[m] = node[m].parent
  PROVE  Falls([m \in Nodes |-> Len(m)], Nodes, nxt)
<1> DEFINE mu == [m \in Nodes |-> Len(m)]
<1>1. \A m \in Nodes : m \in Node /\ m # NoNode /\ Len(m) \in Nat
  BY Standing, Prefixes
<1>2. mu \in [Nodes -> Nat] /\ \A m \in Nodes : mu[m] = Len(m)
  BY <1>1
<1> HIDE DEF mu
<1>3. ASSUME NEW m \in Nodes, nxt[m] # m PROVE mu[nxt[m]] < mu[m]
  <2>1. nxt[m] = node[m].parent /\ nxt[m] \in Nodes /\ nxt[m] # NoNode
    BY <1>1, <1>3
  <2>2. IsPrefix(nxt[m], m) /\ Linked(node, root)
    BY <2>1, Standing, Kin DEF Nodes
  <2>3. Len(nxt[m]) < Len(m)
    BY <1>1, <1>3, <2>1, <2>2, Prefixes
  <2> QED BY <1>2, <2>1, <2>3
<1>4. Falls(mu, Nodes, nxt)
  BY <1>2, <1>3 DEF Falls
<1> QED BY <1>4 DEF mu

\* What is to the right of n is what a walk down from NextRight(n) comes to.
LEMMA NextRightIs ==
  ASSUME IInv, NEW n \in Nodes
  PROVE  /\ NextRight(n) \in Nodes \cup {NoNode}
         /\ \A m \in Nodes : Ahead(m, n, "up") <=> Ahead(m, NextRight(n), "down")
<1> DEFINE nxt == UpToTurn
           end == RightOfUp
           To(k) == \A m \in Nodes : Ahead(m, n, "up") <=> Ahead(m, k, "up")
           S == {k \in Nodes : To(k)}
<1>1. \A m \in Nodes : /\ node[m].parent \in Nodes \cup {NoNode} /\ m # NoNode
                       /\ node[m].parent # NoNode =>
                            node[m].parent # m /\ node[node[m].parent].right \in Nodes \cup {NoNode}
  BY Standing, Kin DEF Nodes
<1>2. nxt \in [Nodes -> Nodes] /\ \A m \in Nodes : nxt[m] = IF TurnsAt(m) THEN m ELSE node[m].parent
  BY <1>1 DEF UpToTurn, TurnsAt
<1>3. \A m \in Nodes : end[m] = IF node[m].parent = NoNode THEN NoNode ELSE node[node[m].parent].right
  BY DEF RightOfUp
<1>4. \A m \in Nodes : (nxt[m] # m <=> ~TurnsAt(m)) /\ (~TurnsAt(m) => nxt[m] = node[m].parent)
  BY <1>1, <1>2 DEF TurnsAt
<1> HIDE DEF nxt, end
<1>5. ASSUME NEW e PROVE RightUps(e) <=> Leads(e, Nodes, nxt, end)
  <2>1. ASSUME NEW m \in Nodes
        PROVE  (IF nxt[m] # m THEN e[nxt[m]] ELSE end[m]) =
               (LET p == node[m].parent
                IN IF p = NoNode THEN NoNode
                   ELSE IF node[p].right # NoNode /\ node[p].right # m THEN node[p].right
                   ELSE e[p])
    BY <1>3, <1>4 DEF TurnsAt
  <2> QED BY <2>1 DEF RightUps, Leads
<1>6. PICK g : RightUps(g) /\ NextRight(n) = g[n]
  <2>1. \E f : RightUps(f)
    BY <1>2, <1>5, LeadsExists
  <2> DEFINE g == CHOOSE g : RightUps(g)
  <2>2. RightUps(g)
    BY <2>1
  <2>3. NextRight(n) = g[n]
    BY DEF NextRight, RightUps
  <2> QED BY <2>2, <2>3
<1>7. ASSUME NEW k \in S PROVE nxt[k] \in S
  <2>1. k \in Nodes /\ To(k)
    OBVIOUS
  <2>2. CASE TurnsAt(k)
    BY <1>4, <2>1, <2>2
  <2>3. CASE ~TurnsAt(k)
    <3>1. nxt[k] = node[k].parent /\ nxt[k] \in Nodes
      BY <1>2, <1>4, <2>1, <2>3
    <3>2. \A m \in Nodes : Ahead(m, k, "up") <=> Ahead(m, node[k].parent, "up")
      BY <2>1, <2>3, UpTurns DEF TurnsAt
    <3> QED BY <2>1, <3>1, <3>2
  <2> QED BY <2>2, <2>3
<1>8. PICK e \in S : nxt[e] = e /\ g[n] = end[e]
  <2>1. n \in S
    OBVIOUS
  <2>2. S \in SUBSET Nodes
    OBVIOUS
  <2> HIDE DEF S
  <2>3. StaysIn(S, Nodes, nxt)
    BY <1>7, <2>2 DEF StaysIn
  <2>4. \A m \in Nodes : nxt[m] = m \/ nxt[m] = node[m].parent
    BY <1>2
  <2>5. PICK mu : Falls(mu, Nodes, nxt)
    BY <1>2, <2>4, UpFalls
  <2>6. Leads(g, Nodes, nxt, end)
    BY <1>5, <1>6
  <2> QED BY <1>2, <2>1, <2>3, <2>5, <2>6, LeadsEnds
<1>9. e \in Nodes /\ To(e) /\ TurnsAt(e)
  BY <1>4, <1>8
<1>10. NextRight(n) = IF node[e].parent = NoNode THEN NoNode ELSE node[node[e].parent].right
  BY <1>3, <1>6, <1>8, <1>9
<1>11. \A m \in Nodes : Ahead(m, e, "up") <=> Ahead(m, NextRight(n), "down")
  <2> SUFFICES ASSUME NEW m \in Nodes PROVE Ahead(m, e, "up") <=> Ahead(m, NextRight(n), "down")
    OBVIOUS
  <2>1. CASE node[e].parent = NoNode
    <3>1. ~Ahead(m, e, "up")
      BY <1>9, <2>1, UpTurns
    <3> QED BY <1>10, <2>1, <3>1 DEF Ahead
  <2>2. CASE node[e].parent # NoNode
    <3>1. Ahead(m, e, "up") <=> Ahead(m, node[node[e].parent].right, "down")
      BY <1>9, <2>2, UpTurns DEF TurnsAt
    <3> QED BY <1>10, <2>2, <3>1
  <2> QED BY <2>1, <2>2
<1>12. NextRight(n) \in Nodes \cup {NoNode}
  BY <1>1, <1>9, <1>10
<1> QED BY <1>9, <1>11, <1>12

\* What is behind n in the order is the next node and what is behind that.
LEMMA NextNodeIs ==
  ASSUME IInv, NEW n \in Nodes
  PROVE  /\ NextNode(n) \in Nodes \cup {NoNode}
         /\ \A m \in Nodes : Before(n, m) <=> Ahead(m, NextNode(n), "down")
<1>1. /\ node[n].left \in Nodes \cup {NoNode} /\ node[n].right \in Nodes \cup {NoNode}
      /\ Linked(node, root)
  BY Standing
<1>2. ASSUME NEW m \in Nodes
      PROVE  Before(n, m) <=> IF node[n].left # NoNode THEN Ahead(m, node[n].left, "down")
                              ELSE IF node[n].right # NoNode THEN Ahead(m, node[n].right, "down")
                              ELSE Ahead(m, n, "up")
  BY <1>1, DownAhead, RightAhead
<1> QED BY <1>1, <1>2, NextRightIs DEF NextNode

\* The heads a walk down from n comes to.
Coming(n) == {h \in Heads : Ahead(KeyOf(h), n, "down")}

\* What FirstHead computes.
FirstOn(g) ==
  g = [n \in Nodes \cup {NoNode} |->
        IF n = NoNode THEN NoHead ELSE IF node[n].rth # NoHead THEN node[n].rth ELSE g[NextNode(n)]]
ToHead == [n \in Nodes \cup {NoNode} |-> IF n = NoNode \/ node[n].rth # NoHead THEN n ELSE NextNode(n)]

\* The nodes behind a node become fewer from one to the next.
LEMMA FewerComing ==
  ASSUME IInv, NEW n \in Nodes, NEW T, T \in SUBSET Nodes, n \in T, NEW S, S \subseteq T, \A m \in S : Before(n, m)
  PROVE  Cardinality(S) \in Nat /\ Cardinality(T) \in Nat /\ Cardinality(S) < Cardinality(T)
<1>1. IsFiniteSet(T)
  <2>1. T \subseteq Node
    BY Standing
  <2> QED BY <2>1, NodeFinite, FS_Subset
<1>2. n \notin S
  <2>1. n \in Node
    BY Standing
  <2> QED BY <2>1, BeforeIsOneWay
<1> QED BY <1>1, <1>2, Fewer

----------------------------------------------------------------------------
(* The first head, and the next of every head.                             *)

\* The first of a set of heads is the one before all the others.
LEMMA FirstIs ==
  ASSUME IInv, NEW hs \in SUBSET Heads, NEW h \in hs, \A g \in hs \ {h} : Before(KeyOf(h), KeyOf(g))
  PROVE  First(hs) = h
<1> DEFINE Is(k) == \A g \in hs \ {k} : Before(KeyOf(k), KeyOf(g))
<1>1. \A g \in hs : KeyOf(g) \in Node
  BY HeadsAreNodes
<1>2. ASSUME NEW k \in hs, Is(k) PROVE k = h
  <2> SUFFICES ASSUME k # h PROVE FALSE
    OBVIOUS
  <2>1. Before(KeyOf(k), KeyOf(h)) /\ Before(KeyOf(h), KeyOf(k))
    BY <1>2
  <2> QED BY <1>1, <2>1, BeforeIsOneWay
<1>3. First(hs) = CHOOSE k \in hs : Is(k)
  BY DEF First
<1> QED BY <1>2, <1>3

\* From start on the heads come in order.
LEMMA FirstHeadIs ==
  ASSUME IInv, NEW start \in Nodes \cup {NoNode}
  PROVE  /\ FirstHead(start) = First(Coming(start))
         /\ FirstHead(start) = NoHead \/ FirstHead(start) \in Coming(start)
         /\ start # NoNode /\ node[start].rth # NoHead => FirstHead(start) = node[start].rth
<1> DEFINE D     == Nodes \cup {NoNode}
           nxt   == ToHead
           end   == [n \in D |-> HeadAt(n)]
           Way(n) == {m \in Nodes : Ahead(m, n, "down")}
           mu    == [n \in D |-> Cardinality(Way(n))]
           S     == {n \in D : Coming(n) = Coming(start)}
<1>0. Nodes \subseteq Node /\ NoNode \notin Nodes
  BY Standing
<1>1. ASSUME NEW n \in Nodes
      PROVE  /\ NextNode(n) \in D /\ NextNode(n) # n
             /\ \A m \in Nodes : /\ Ahead(m, n, "down") <=> m = n \/ Before(n, m)
                                 /\ Ahead(m, NextNode(n), "down") <=> Before(n, m)
  <2>1. NextNode(n) \in D /\ \A m \in Nodes : Ahead(m, NextNode(n), "down") <=> Before(n, m)
    BY NextNodeIs
  <2>2. \A m \in Nodes : Ahead(m, n, "down") <=> m = n \/ Before(n, m)
    BY DownAhead
  <2>3. ~Before(n, n)
    BY <1>0, BeforeIsOneWay
  <2> QED BY <2>1, <2>2, <2>3
<1>2. nxt \in [D -> D] /\ \A n \in D : nxt[n] = IF n = NoNode \/ node[n].rth # NoHead THEN n ELSE NextNode(n)
  BY <1>1 DEF ToHead
<1> HIDE DEF nxt
<1>3. Falls(mu, D, nxt)
  <2>1. \A n \in D : Cardinality(Way(n)) \in Nat
    <3>1. \A n \in D : IsFiniteSet(Way(n))
      <4>1. \A n \in D : Way(n) \subseteq Node
        BY <1>0
      <4> QED BY <4>1, NodeFinite, FS_Subset
    <3> QED BY <3>1, FS_CardinalityType
  <2>2. mu \in [D -> Nat] /\ \A n \in D : mu[n] = Cardinality(Way(n))
    BY <2>1
  <2> HIDE DEF mu
  <2>3. ASSUME NEW n \in D, nxt[n] # n PROVE mu[nxt[n]] < mu[n]
    <3>1. n \in Nodes /\ nxt[n] = NextNode(n) /\ NextNode(n) \in D
      BY <1>1, <1>2, <2>3
    <3>2. n \in Way(n) /\ Way(NextNode(n)) \subseteq Way(n) /\ (\A m \in Way(NextNode(n)) : Before(n, m)) /\ Way(n) \in SUBSET Nodes
      BY <1>1, <3>1
    <3> HIDE DEF Way
    <3>3. Cardinality(Way(NextNode(n))) < Cardinality(Way(n))
      BY <3>1, <3>2, FewerComing
    <3> QED BY <2>2, <3>1, <3>3
  <2> QED BY <2>2, <2>3 DEF Falls
<1>4. ASSUME NEW e PROVE Leads(e, D, nxt, end) <=> FirstOn(e)
  <2>1. ASSUME NEW n \in D
        PROVE  (IF nxt[n] # n THEN e[nxt[n]] ELSE end[n]) =
               (IF n = NoNode THEN NoHead
                ELSE IF node[n].rth # NoHead THEN node[n].rth ELSE e[NextNode(n)])
    BY <1>1, <1>2 DEF HeadAt
  <2> HIDE DEF D, end
  <2>2. Leads(e, D, nxt, end) <=> e = [n \in D |-> IF n = NoNode THEN NoHead
                ELSE IF node[n].rth # NoHead THEN node[n].rth ELSE e[NextNode(n)]]
    BY <2>1 DEF Leads
  <2> QED BY <2>2 DEF FirstOn, D
<1>5. PICK g : FirstOn(g) /\ FirstHead(start) = g[start]
  <2>1. \E f : FirstOn(f)
    <3>1. PICK f : Leads(f, D, nxt, end)
      <4> HIDE DEF D, end
      <4> QED BY <1>2, LeadsExists
    <3> QED BY <1>4, <3>1
  <2> DEFINE g == CHOOSE g : FirstOn(g)
  <2>2. FirstOn(g)
    BY <2>1
  <2>3. FirstHead(start) = g[start]
    BY DEF FirstHead, FirstOn
  <2> QED BY <2>2, <2>3
<1>6. ASSUME NEW n \in S PROVE nxt[n] \in S
  <2>1. CASE nxt[n] = n
    BY <2>1
  <2>2. CASE nxt[n] # n
    <3>1. n \in Nodes /\ nxt[n] = NextNode(n) /\ nxt[n] \in D /\ node[n].rth = NoHead
      BY <1>2, <2>2
    <3>2. \A h \in Heads : KeyOf(h) \in Nodes /\ KeyOf(h) # n
      BY <3>1, HeadsAreNodes
    <3>3. Coming(NextNode(n)) = Coming(n)
      BY <1>1, <3>1, <3>2 DEF Coming
    <3> QED BY <3>1, <3>3
  <2> QED BY <2>1, <2>2
<1>7. PICK e \in S : nxt[e] = e /\ g[start] = end[e]
  <2>1. start \in S /\ S \in SUBSET D
    OBVIOUS
  <2> HIDE DEF S
  <2>2. StaysIn(S, D, nxt)
    BY <1>6, <2>1 DEF StaysIn
  <2>3. Leads(g, D, nxt, end)
    BY <1>4, <1>5
  <2> HIDE DEF mu, end, D
  <2> QED BY <1>2, <1>3, <2>1, <2>2, <2>3, LeadsEnds
<1>8. e \in D /\ Coming(e) = Coming(start) /\ FirstHead(start) = HeadAt(e)
  BY <1>5, <1>7
<1>11. start # NoNode /\ node[start].rth # NoHead => FirstHead(start) = node[start].rth
  BY <1>5 DEF FirstOn
<1> HIDE DEF S, end, mu
<1>9. CASE e = NoNode
  <2>1. Coming(e) = {}
    BY <1>9 DEF Coming, Ahead
  <2> QED BY <1>8, <1>9, <1>11, <2>1 DEF First, HeadAt
<1>10. CASE e # NoNode
  <2>1. e \in Nodes /\ node[e].rth # NoHead
    BY <1>1, <1>2, <1>7, <1>8, <1>10
  <2> DEFINE h == node[e].rth
  <2>2. h \in Heads /\ KeyOf(h) = e /\ HeadAt(e) = h
    BY <1>10, <2>1, HeadsAreNodes DEF HeadAt
  <2> HIDE DEF h
  <2>3. \A k \in Heads : KeyOf(k) \in Nodes /\ node[KeyOf(k)].rth = k
    BY HeadsAreNodes
  <2>4. h \in Coming(e) /\ Coming(e) \in SUBSET Heads
    BY <1>1, <2>1, <2>2 DEF Coming
  <2>5. \A k \in Coming(e) \ {h} : Before(KeyOf(h), KeyOf(k))
    BY <1>1, <2>1, <2>2, <2>3 DEF Coming, h
  <2>6. First(Coming(e)) = h
    BY <2>4, <2>5, FirstIs
  <2> QED BY <1>8, <1>11, <2>2, <2>4, <2>6
<1> QED BY <1>8, <1>9, <1>10

----------------------------------------------------------------------------
(* Where a search for a prefix comes to, and where the next one starts.    *)

\* A prefix with a head is where its search ends.
LEMMA FarthestIsExact ==
  ASSUME IInv, NEW addr \in Address, NEW len \in 0 .. Width,
         NEW p \in Nodes, Len(p) = len, \A i \in 1 .. len : p[i] = addr[i], node[p].rth # NoHead
  PROVE  FarthestHead(addr, len) = p
<1> DEFINE S == {n \in Nodes : IsPrefix(n, p)}
           far == FarthestHead(addr, len)
<1>0. /\ Typed(node) /\ Linked(node, root) /\ Nodes \subseteq Node /\ root # NoNode /\ len \in Nat
      /\ root \in S /\ S \in SUBSET Nodes /\ \A n \in Nodes : Len(n) \in Nat
  BY Standing, Prefixes, RadixAssumption DEF Linked, RootIs, Nodes
<1>1. ASSUME NEW n \in S, n # p
      PROVE  Len(n) < len /\ Child(n, addr) \in S /\ Child(n, addr) # NoNode
  <2>1. n \in Nodes /\ IsPrefix(n, p) /\ n \in Node /\ p \in Node
    BY <1>0
  <2>2. Len(n) < len
    BY <1>1, <2>1, Prefixes
  <2>3. Len(n) + 1 \in 1 .. len /\ Len(n) + 1 \in 1 .. Width
    BY <1>0, <2>1, <2>2, RadixAssumption
  <2> DEFINE b == addr[Len(n) + 1]
  <2>4. b \in Bit /\ Child(n, addr) = SideIn(node, n, b) /\ On(p, n, b)
    BY <1>0, <1>1, <2>1, <2>3, ChildIsSide DEF On
  <2> HIDE DEF b
  <2>5. PICK c : c = Child(n, addr)
    OBVIOUS
  <2>6. c # NoNode /\ c \in Nodes /\ IsPrefix(c, p)
    BY <1>0, <2>1, <2>4, <2>5, SideIsSubtree
  <2> QED BY <2>2, <2>5, <2>6
<1>2. ASSUME NEW n \in S, Len(n) < len \/ node[n].rth = NoHead, Child(n, addr) # NoNode PROVE Child(n, addr) \in S
  <2>1. n # p
    BY <1>0, <1>2
  <2> QED BY <1>1, <2>1
<1> HIDE DEF S
<1>3. far \in S /\ (Len(far) < len \/ node[far].rth = NoHead => Child(far, addr) = NoNode)
  BY <1>0, <1>2, FarthestStays
<1> QED BY <1>1, <1>3

\* Where the search for p starts: s is what p and the node far it comes to
\* have in common, and no node has more of p.
StartsAt(p, far, s, bit) ==
  /\ far \in Nodes /\ node[far].rth # NoHead /\ s \in Node /\ IsPrefix(s, p) /\ IsPrefix(s, far)
  /\ \A m \in Nodes, q \in Node : IsPrefix(q, m) /\ IsPrefix(q, p) => IsPrefix(q, s)
  /\ s # p /\ s # far => On(p, s, bit) /\ \E c \in Bit : c # bit /\ On(far, s, c)

\* What FirstFrom starts at is that place.
LEMMA SearchStarts ==
  ASSUME IInv, root # NoNode, NEW addr \in Address, NEW len \in 0 .. Width,
         NEW p \in Node, Len(p) = len, \A i \in 1 .. len : p[i] = addr[i],
         NEW far, far = FarthestHead(addr, len), NEW max, max = Least(Len(far), len),
         NEW dbit, dbit = FirstDifference(addr, node[far].rth.addr, max)
  PROVE  /\ dbit \in Nat /\ max \in Nat /\ dbit <= max /\ dbit + 1 \in Nat
         /\ \E s \in Node : /\ StartsAt(p, far, s, addr[dbit + 1]) /\ Len(s) = dbit
                            /\ dbit = max <=> s = p \/ s = far
                            /\ dbit < max => addr[dbit + 1] \in Bit
<1> DEFINE his == node[far].rth.addr
<1>0. /\ Typed(node) /\ Linked(node, root) /\ Full /\ Nodes \subseteq Node
      /\ len \in Nat /\ Width \in Nat /\ len <= Width /\ \A m \in Node : Len(m) \in Nat /\ Len(m) <= Width
  BY Standing, Prefixes, RadixAssumption DEF IInv, TreeInv, Sound, FullIn, FullAt, Full, Nodes
<1>1. /\ far \in Nodes /\ node[far].rth # NoHead
      /\ \A m \in Nodes, d \in 0 .. len : Shares(m, addr, d) => Shares(far, addr, d)
  BY <1>0, FarthestIsBest
<1>2. /\ far \in Node /\ Len(far) \in Nat /\ max \in Nat /\ max <= len /\ max <= Len(far) /\ (max = len \/ max = Len(far))
  BY <1>0, <1>1 DEF Least
<1>3. \A i \in 1 .. Len(far) : his[i] = far[i]
  <2>1. node[far].rth \in Rth /\ KeyOf(node[far].rth) = far
    BY <1>1, HeadsAreNodes
  <2> QED BY <2>1, KeyIs
<1>4. /\ dbit \in 0 .. max /\ \A i \in 1 .. dbit : addr[i] = his[i]
      /\ dbit < max => addr[dbit + 1] # his[dbit + 1]
  BY <1>2, FirstDifferenceIs
<1> HIDE DEF his
<1>5. dbit \in Nat /\ dbit <= max /\ dbit <= len /\ dbit <= Len(far) /\ dbit + 1 \in Nat
  BY <1>2, <1>4
<1>6. \A i \in 1 .. dbit : p[i] = far[i] /\ i \in 1 .. len /\ i \in 1 .. Len(far)
  BY <1>0, <1>2, <1>3, <1>4, <1>5
<1>7. PICK s \in Node : Len(s) = dbit /\ IsPrefix(s, p)
  <2>1. dbit \in 0 .. Len(p)
    BY <1>5
  <2> QED BY <2>1, Cutting
<1>8. \A i \in 1 .. dbit : s[i] = p[i] /\ s[i] = far[i]
  BY <1>6, <1>7 DEF IsPrefix
<1>9. IsPrefix(s, far)
  BY <1>5, <1>7, <1>8 DEF IsPrefix
<1>10. ASSUME NEW m \in Nodes, NEW q \in Node, IsPrefix(q, m), IsPrefix(q, p) PROVE IsPrefix(q, s)
  <2>1. Len(q) \in 0 .. len /\ Len(q) <= Len(m)
    BY <1>0, <1>10, Prefixes
  <2>2. \A i \in 1 .. Len(q) : q[i] = m[i] /\ q[i] = p[i] /\ i \in 1 .. len
    BY <1>0, <1>10, <2>1 DEF IsPrefix
  <2>3. Shares(m, addr, Len(q))
    BY <2>1, <2>2 DEF Shares
  <2>4. Len(q) <= Len(far) /\ \A i \in 1 .. Len(q) : far[i] = addr[i]
    BY <1>1, <2>1, <2>3 DEF Shares
  <2>5. Len(q) <= dbit
    <3> SUFFICES ASSUME ~(Len(q) <= dbit) PROVE FALSE
      OBVIOUS
    <3>1. Len(q) \in Nat /\ dbit < Len(q) /\ Len(q) <= max
      BY <1>0, <1>2, <1>5, <2>1, <2>4
    <3>2. dbit < max /\ dbit + 1 \in 1 .. Len(q) /\ dbit + 1 \in 1 .. Len(far)
      BY <1>2, <1>5, <3>1
    <3> QED BY <1>3, <1>4, <2>4, <3>2
  <2> QED BY <1>7, <1>10, <2>5, Prefixes
<1>11. dbit = max <=> s = p \/ s = far
  <2>1. s = p => dbit = max
    BY <1>0, <1>2, <1>5, <1>7
  <2>2. s = far => dbit = max
    BY <1>0, <1>2, <1>5, <1>7
  <2>3. dbit = len => s = p
    BY <1>7, Prefixes
  <2>4. dbit = Len(far) => s = far
    BY <1>2, <1>7, <1>9, Prefixes
  <2> QED BY <1>2, <2>1, <2>2, <2>3, <2>4
<1>12. ASSUME s # p, s # far
       PROVE  addr[dbit + 1] \in Bit /\ On(p, s, addr[dbit + 1]) /\ \E c \in Bit : c # addr[dbit + 1] /\ On(far, s, c)
  <2>1. dbit < max
    BY <1>2, <1>5, <1>11, <1>12
  <2>2. dbit + 1 \in 1 .. len /\ dbit + 1 \in 1 .. Len(far) /\ dbit + 1 \in 1 .. Width
    BY <1>0, <1>2, <1>5, <2>1
  <2>3. p[dbit + 1] = addr[dbit + 1] /\ far[dbit + 1] # addr[dbit + 1] /\ addr[dbit + 1] \in Bit
    BY <1>3, <1>4, <2>1, <2>2 DEF Address
  <2>4. On(p, s, addr[dbit + 1]) /\ On(far, s, far[dbit + 1])
    BY <1>7, <1>9, <1>12, <2>3 DEF On
  <2>5. PICK c \in Bit : On(far, s, c)
    BY <1>2, <1>9, <1>12, Sides
  <2>6. c = far[dbit + 1]
    BY <2>4, <2>5, Sides
  <2> QED BY <2>3, <2>4, <2>5, <2>6
<1>13. StartsAt(p, far, s, addr[dbit + 1])
  BY <1>1, <1>7, <1>9, <1>10, <1>12 DEF StartsAt
<1>14. dbit < max => addr[dbit + 1] \in Bit
  BY <1>2, <1>5, <1>11, <1>12
<1> QED BY <1>2, <1>5, <1>7, <1>11, <1>13, <1>14

----------------------------------------------------------------------------
(* The next of a prefix.                                                   *)

\* What RightOf computes.
RightsOf(g, dbit) ==
  g = [m \in Nodes |->
        LET p == node[m].parent
        IN IF p = NoNode THEN NoNode
           ELSE IF Len(p) <= dbit /\ node[p].right # NoNode /\ node[p].right # m THEN node[p].right
           ELSE g[p]]
TurnsBy(m, dbit) ==
  \/ node[m].parent = NoNode
  \/ /\ Len(node[m].parent) <= dbit
     /\ node[node[m].parent].right # NoNode
     /\ node[node[m].parent].right # m
UpToTurnBy(dbit) == [m \in Nodes |-> IF TurnsBy(m, dbit) THEN m ELSE node[m].parent]

\* It turns right above start, at dbit bits or fewer.
LEMMA RightOfIs ==
  ASSUME IInv, NEW start \in Nodes, NEW dbit
  PROVE  \/ RightOf(start, dbit) = NoNode
         \/ \E m \in Nodes : LET p == node[m].parent
                             IN /\ IsPrefix(m, start) /\ p \in Nodes /\ Len(p) <= dbit
                                /\ node[p].right = RightOf(start, dbit) /\ node[p].right # m
                                /\ node[p].right \in Nodes
<1> DEFINE nxt == UpToTurnBy(dbit)
           end == RightOfUp
           S == {k \in Nodes : IsPrefix(k, start)}
<1>0. Nodes \subseteq Node /\ Linked(node, root)
  BY Standing
<1>1. \A m \in Nodes : /\ node[m].parent \in Nodes \cup {NoNode} /\ m # NoNode
                       /\ node[m].parent # NoNode =>
                            /\ node[m].parent # m /\ node[node[m].parent].right \in Nodes \cup {NoNode}
                            /\ IsPrefix(node[m].parent, m)
  BY Standing, Kin DEF Nodes
<1>2. nxt \in [Nodes -> Nodes] /\ \A m \in Nodes : nxt[m] = IF TurnsBy(m, dbit) THEN m ELSE node[m].parent
  BY <1>1 DEF UpToTurnBy, TurnsBy
<1>3. \A m \in Nodes : end[m] = IF node[m].parent = NoNode THEN NoNode ELSE node[node[m].parent].right
  BY DEF RightOfUp
<1>4. \A m \in Nodes : (nxt[m] # m <=> ~TurnsBy(m, dbit)) /\ (~TurnsBy(m, dbit) => nxt[m] = node[m].parent)
  BY <1>1, <1>2 DEF TurnsBy
<1> HIDE DEF nxt, end
<1>5. ASSUME NEW e PROVE RightsOf(e, dbit) <=> Leads(e, Nodes, nxt, end)
  <2>1. ASSUME NEW m \in Nodes
        PROVE  (IF nxt[m] # m THEN e[nxt[m]] ELSE end[m]) =
               (LET p == node[m].parent
                IN IF p = NoNode THEN NoNode
                   ELSE IF Len(p) <= dbit /\ node[p].right # NoNode /\ node[p].right # m THEN node[p].right
                   ELSE e[p])
    BY <1>3, <1>4 DEF TurnsBy
  <2> QED BY <2>1 DEF RightsOf, Leads
<1>6. PICK g : RightsOf(g, dbit) /\ RightOf(start, dbit) = g[start]
  <2>1. \E f : RightsOf(f, dbit)
    BY <1>2, <1>5, LeadsExists
  <2> DEFINE g == CHOOSE g : RightsOf(g, dbit)
  <2>2. RightsOf(g, dbit)
    BY <2>1
  <2>3. RightOf(start, dbit) = g[start]
    BY DEF RightOf, RightsOf
  <2> QED BY <2>2, <2>3
<1>7. ASSUME NEW k \in S PROVE nxt[k] \in S
  <2>1. CASE TurnsBy(k, dbit)
    BY <1>4, <2>1
  <2>2. CASE ~TurnsBy(k, dbit)
    <3>1. nxt[k] = node[k].parent /\ nxt[k] \in Nodes
      BY <1>2, <1>4, <2>2
    <3>2. IsPrefix(nxt[k], k)
      BY <1>1, <3>1
    <3> QED BY <1>0, <3>1, <3>2, Prefixes
  <2> QED BY <2>1, <2>2
<1>8. PICK e \in S : nxt[e] = e /\ g[start] = end[e]
  <2>1. start \in S /\ S \in SUBSET Nodes
    BY <1>0, Prefixes
  <2> HIDE DEF S
  <2>2. StaysIn(S, Nodes, nxt)
    BY <1>7, <2>1 DEF StaysIn
  <2>3. \A m \in Nodes : nxt[m] = m \/ nxt[m] = node[m].parent
    BY <1>2
  <2>4. PICK mu : Falls(mu, Nodes, nxt)
    BY <1>2, <2>3, UpFalls
  <2>5. Leads(g, Nodes, nxt, end)
    BY <1>5, <1>6
  <2> QED BY <1>2, <2>1, <2>2, <2>4, <2>5, LeadsEnds
<1>9. e \in Nodes /\ IsPrefix(e, start) /\ TurnsBy(e, dbit)
  BY <1>4, <1>8
<1>10. RightOf(start, dbit) = IF node[e].parent = NoNode THEN NoNode ELSE node[node[e].parent].right
  BY <1>3, <1>6, <1>8, <1>9
<1>11. CASE node[e].parent = NoNode
  BY <1>10, <1>11
<1>12. CASE node[e].parent # NoNode
  <2>1. /\ Len(node[e].parent) <= dbit /\ node[node[e].parent].right # NoNode /\ node[node[e].parent].right # e
        /\ node[e].parent \in Nodes /\ node[node[e].parent].right \in Nodes
    BY <1>1, <1>9, <1>12 DEF TurnsBy
  <2> QED BY <1>9, <1>10, <1>12, <2>1
<1> QED BY <1>11, <1>12

\* The next of a prefix that is there.
LEMMA NextOfExact ==
  ASSUME IInv, NoneMarked, NEW addr \in Address, NEW len \in 0 .. Width, GetExact(addr, len) # NoHead
  PROVE  NextIs(addr, len)
<1>1. PICK p : p = SubSeq(addr, 1, len)
  OBVIOUS
<1>2. p \in Node /\ Len(p) = len /\ len \in Nat /\ \A i \in 1 .. len : p[i] = addr[i]
  BY <1>1, Beginning
<1>3. root # NoNode
  BY DEF GetExact
<1>4. p \in Nodes /\ node[p].rth # NoHead
  <2>1. GetExact(addr, len) = Longest({h \in Heads : KeyOf(h) = p})
    BY <1>1, <1>3, ExactIs
  <2>2. PICK h \in Heads : KeyOf(h) = p
    BY <2>1 DEF Longest
  <2> QED BY <2>2, HeadsAreNodes
<1>5. PICK far : far = FarthestHead(addr, len)
  OBVIOUS
<1>6. far = p
  BY <1>2, <1>4, <1>5, FarthestIsExact
<1>7. PICK max, dbit : max = Least(Len(far), len) /\ dbit = FirstDifference(addr, node[far].rth.addr, max)
  OBVIOUS
<1>8. dbit = max
  <2>1. PICK s \in Node : /\ StartsAt(p, far, s, addr[dbit + 1])
                          /\ dbit = max <=> s = p \/ s = far
    BY <1>2, <1>3, <1>5, <1>7, SearchStarts
  <2>2. IsPrefix(p, p) /\ IsPrefix(s, p)
    BY <1>2, <2>1, Prefixes DEF StartsAt
  <2>3. IsPrefix(p, s)
    BY <1>2, <1>4, <2>1, <2>2 DEF StartsAt
  <2>4. s = p
    <3>1. \A q \in Node : IsPrefix(q, p) /\ IsPrefix(p, q) => q = p
      BY <1>2, Prefixes
    <3> QED BY <2>1, <2>2, <2>3, <3>1
  <2> QED BY <2>1, <2>4
<1>9. GetNext(addr, len) = FirstHead(NextNode(p))
  <2>1. GetNext(addr, len) =
         FirstHead(CASE dbit = max /\ Len(far) <= len -> NextNode(far)
                     [] dbit = max /\ Len(far) > len  -> far
                     [] dbit < max /\ addr[dbit + 1] = 1 -> RightOf(far, dbit)
                     [] OTHER -> ClimbTo(far, dbit + 1))
    BY <1>3, <1>5, <1>7 DEF GetNext
  <2>2. Len(far) <= len /\ ~(Len(far) > len) /\ ~(dbit < max)
    <3>1. Len(far) = len /\ max = len /\ dbit = len
      BY <1>2, <1>6, <1>7, <1>8 DEF Least
    <3> QED BY <1>2, <3>1
  <2> QED BY <1>6, <1>8, <2>1, <2>2
<1>10. GetNext(addr, len) = First(Coming(NextNode(p)))
  BY <1>4, <1>9, NextNodeIs, FirstHeadIs
<1>11. Coming(NextNode(p)) = {h \in Heads : Before(p, KeyOf(h))}
  BY <1>4, NextNodeIs, HeadsAreNodes DEF Coming
<1> QED BY <1>1, <1>10, <1>11 DEF NextIs

\* The next of a prefix that is not there extends it if a head does, and
\* otherwise is no prefix of it.
LEMMA NextOfOther ==
  ASSUME IInv, NEW addr \in Address, NEW len \in 0 .. Width, root # NoNode,
         NEW p \in Node, Len(p) = len, \A i \in 1 .. len : p[i] = addr[i], \A h \in Heads : KeyOf(h) # p
  PROVE  /\ Extending(p) # {} => GetNext(addr, len) \in Extending(p)
         /\ Extending(p) = {} => GetNext(addr, len) = NoHead
                                 \/ (GetNext(addr, len) \in Heads /\ ~IsPrefix(KeyOf(GetNext(addr, len)), p))
<1>1. PICK far : far = FarthestHead(addr, len)
  OBVIOUS
<1>2. PICK max, dbit : max = Least(Len(far), len) /\ dbit = FirstDifference(addr, node[far].rth.addr, max)
  OBVIOUS
<1>3. dbit \in Nat /\ max \in Nat /\ dbit <= max /\ dbit + 1 \in Nat /\ len \in Nat
  BY <1>1, <1>2, SearchStarts
<1>4. PICK s \in Node : /\ StartsAt(p, far, s, addr[dbit + 1]) /\ Len(s) = dbit
                        /\ dbit = max <=> s = p \/ s = far
                        /\ dbit < max => addr[dbit + 1] \in Bit
  BY <1>1, <1>2, SearchStarts
<1>5. /\ far \in Nodes /\ node[far].rth # NoHead /\ IsPrefix(s, p) /\ IsPrefix(s, far) /\ far \in Node
      /\ \A m \in Nodes, q \in Node : IsPrefix(q, m) /\ IsPrefix(q, p) => IsPrefix(q, s)
      /\ Nodes \subseteq Node /\ Linked(node, root) /\ Typed(node) /\ Len(far) \in Nat
  BY <1>4, Standing, Prefixes DEF StartsAt
<1>6. node[far].rth \in Heads /\ KeyOf(node[far].rth) = far /\ far # p
  BY <1>5, HeadsAreNodes
<1>7. \A h \in Heads : KeyOf(h) \in Nodes /\ KeyOf(h) \in Node
  BY HeadsAreNodes
<1>8. \A q \in Node : IsPrefix(q, p) /\ IsPrefix(p, q) => q = p
  BY Prefixes
<1>9. \A h \in Extending(p) : s = p
  BY <1>4, <1>5, <1>7, <1>8, Prefixes DEF Extending
<1>10. s = p => dbit = max /\ Len(far) > len
  <2> SUFFICES ASSUME s = p PROVE dbit = max /\ Len(far) > len
    OBVIOUS
  <2>1. dbit = max
    BY <1>4
  <2>2. Len(p) < Len(far)
    BY <1>5, <1>6, Prefixes
  <2> QED BY <1>3, <1>5, <2>1, <2>2
<1>11. GetNext(addr, len) =
         FirstHead(CASE dbit = max /\ Len(far) <= len -> NextNode(far)
                     [] dbit = max /\ Len(far) > len  -> far
                     [] dbit < max /\ addr[dbit + 1] = 1 -> RightOf(far, dbit)
                     [] OTHER -> ClimbTo(far, dbit + 1))
  BY <1>1, <1>2 DEF GetNext
<1>12. CASE s = p
  <2>1. GetNext(addr, len) = FirstHead(far)
    BY <1>3, <1>5, <1>10, <1>11, <1>12
  <2>2. GetNext(addr, len) = node[far].rth
    <3>1. far # NoNode
      BY <1>5, Standing
    <3> QED BY <1>5, <2>1, <3>1, FirstHeadIs
  <2>3. GetNext(addr, len) \in Extending(p)
    BY <1>5, <1>6, <1>12, <2>2 DEF Extending
  <2> QED BY <2>3
<1>13. ASSUME s # p, NEW start, start \in Nodes \cup {NoNode}, GetNext(addr, len) = FirstHead(start),
              \A m \in Nodes : Ahead(m, start, "down") => ~IsPrefix(m, p)
       PROVE  GetNext(addr, len) = NoHead \/ (GetNext(addr, len) \in Heads /\ ~IsPrefix(KeyOf(GetNext(addr, len)), p))
  <2>1. GetNext(addr, len) = NoHead \/ GetNext(addr, len) \in Coming(start)
    BY <1>13, FirstHeadIs
  <2>2. PICK k : k = GetNext(addr, len)
    OBVIOUS
  <2>3. k \in Coming(start) => k \in Heads /\ KeyOf(k) \in Nodes /\ Ahead(KeyOf(k), start, "down")
    BY <1>7 DEF Coming
  <2>4. k \in Coming(start) => k \in Heads /\ ~IsPrefix(KeyOf(k), p)
    BY <1>13, <2>3
  <2> QED BY <2>1, <2>2, <2>4
<1>14. \A x \in Node, m \in Nodes : ToRight(x, p) /\ Ahead(m, x, "down") => ~IsPrefix(m, p)
  <2> SUFFICES ASSUME NEW x \in Node, NEW m \in Nodes, ToRight(x, p), Ahead(m, x, "down") PROVE ~IsPrefix(m, p)
    OBVIOUS
  <2>1. IsPrefix(x, m) \/ ToRight(m, x)
    BY DEF Ahead
  <2>2. m \in Node /\ ToRight(m, p)
    BY <1>5, <2>1, RightGoesOn
  <2> QED BY <2>2, RightIsOneWay
<1>15. CASE s # p /\ dbit = max
  <2>1. s = far /\ IsPrefix(far, p)
    BY <1>4, <1>5, <1>15
  <2>2. Len(far) <= len
    BY <1>5, <2>1, Prefixes
  <2>3. GetNext(addr, len) = FirstHead(NextNode(far))
    <3>1. ~(Len(far) > len) /\ ~(dbit < max)
      BY <1>3, <1>5, <1>15, <2>2
    <3> QED BY <1>11, <1>15, <2>2, <3>1
  <2>4. NextNode(far) \in Nodes \cup {NoNode} /\ \A m \in Nodes : Ahead(m, NextNode(far), "down") => Before(far, m)
    BY <1>5, NextNodeIs
  <2>5. \A m \in Nodes : Ahead(m, NextNode(far), "down") => ~IsPrefix(m, p)
    <3> SUFFICES ASSUME NEW m \in Nodes, Before(far, m), IsPrefix(m, p) PROVE FALSE
      BY <2>4
    <3>1. IsPrefix(m, m)
      BY <1>5, Prefixes
    <3>2. IsPrefix(m, far)
      BY <1>5, <2>1, <3>1
    <3> QED BY <3>2 DEF Before
  <2> QED BY <1>9, <1>13, <1>15, <2>3, <2>4, <2>5
<1>16. CASE s # p /\ dbit # max
  <2>1. dbit < max /\ s # far /\ addr[dbit + 1] \in Bit
    BY <1>3, <1>4, <1>16
  <2>2. On(p, s, addr[dbit + 1]) /\ \E c \in Bit : c # addr[dbit + 1] /\ On(far, s, c)
    BY <1>4, <1>16, <2>1 DEF StartsAt
  <2>x. PICK zero, one : zero = 0 /\ one = 1
    OBVIOUS
  <2>y. /\ zero \in Bit /\ one \in Bit /\ zero < one /\ (\A b \in Bit : b = zero \/ b = one)
        /\ (\A b \in Bit : b # one => b = zero) /\ (\A b \in Bit : b # zero => b = one)
    BY <2>x DEF Bit
  <2>3. CASE addr[dbit + 1] = 1
    <3>1. On(p, s, one) /\ On(far, s, zero)
      BY <2>2, <2>3, <2>x, <2>y
    <3> DEFINE y == RightOf(far, dbit)
    <3>2. GetNext(addr, len) = FirstHead(y)
      BY <1>3, <1>11, <1>16, <2>1, <2>3
    <3>3. y = NoNode \/ \E m \in Nodes : /\ IsPrefix(m, far) /\ node[m].parent \in Nodes
                                         /\ Len(node[m].parent) <= dbit
                                         /\ node[node[m].parent].right = y /\ y # m /\ y \in Nodes
      BY <1>5, RightOfIs
    <3> HIDE DEF y
    <3>4. CASE y = NoNode
      <4>1. \A m \in Nodes : ~Ahead(m, y, "down")
        BY <3>4 DEF Ahead
      <4> QED BY <1>9, <1>13, <1>16, <3>2, <3>4, <4>1
    <3>5. ASSUME NEW m \in Nodes, NEW q, q = node[m].parent, IsPrefix(m, far), q \in Nodes,
                 Len(q) <= dbit, node[q].right = y, y # m, y \in Nodes
          PROVE  ToRight(y, p)
      <4>1. /\ q \in Node /\ y \in Node /\ m \in Node /\ IsPrefix(q, m) /\ q # m
            /\ \A b \in Bit : On(m, q, b) <=> SideIn(node, q, b) = m
        <5>1. q # NoNode /\ m \in DOMAIN node
          BY <3>5, Standing DEF Nodes
        <5> QED BY <1>5, <3>5, <5>1, Kin
      <4>2. node[q].right = SideIn(node, q, one)
        BY <2>x, <3>5, Standing
      <4>3. On(m, q, zero)
        <5>1. PICK b \in Bit : On(m, q, b)
          BY <4>1, Sides
        <5>2. b # one
          BY <3>5, <4>1, <4>2, <5>1
        <5> QED BY <2>y, <5>1, <5>2
      <4>4. On(far, q, zero)
        BY <1>5, <3>5, <4>1, <4>3, Sides
      <4>5. On(y, q, one)
        <5>1. PICK c : c = SideIn(node, q, one)
          OBVIOUS
        <5>2. c = y /\ c # NoNode
          BY <3>5, <4>2, <5>1, Standing
        <5>3. SideIn(node, q, one) # NoNode /\ one \in Bit /\ q \in DOMAIN node
          BY <2>y, <3>5, <5>1, <5>2 DEF Nodes
        <5>4. On(SideIn(node, q, one), q, one)
          BY <1>5, <5>3, Kin
        <5> QED BY <5>1, <5>2, <5>4
      <4>6. IsPrefix(q, far) /\ IsPrefix(q, s)
        <5>1. IsPrefix(q, far)
          BY <4>4, Sides
        <5>2. Len(q) <= Len(s)
          BY <1>4, <3>5
        <5> QED BY <1>5, <4>1, <5>1, <5>2, Prefixes
      <4>7. CASE q # s
        <5>1. On(s, q, zero)
          BY <1>5, <4>1, <4>4, <4>6, <4>7, Sides
        <5>2. On(p, q, zero)
          BY <1>5, <4>1, <5>1, Sides
        <5> QED BY <2>y, <4>1, <4>5, <5>2 DEF ToRight
      <4>8. CASE q = s
        <5>1. PICK r \in Node : Parts(r, p, y)
          BY <4>1, PartsExist
        <5>2. IsPrefix(r, p) /\ IsPrefix(r, y)
          BY <5>1 DEF Parts
        <5>3. IsPrefix(r, s)
          BY <1>5, <3>5, <5>2
        <5>4. r # p /\ r # y
          <6>1. s # y /\ IsPrefix(s, y) /\ s # p
            BY <1>16, <4>5, <4>8, Sides
          <6>2. ASSUME NEW k \in Node, IsPrefix(s, k), IsPrefix(k, s) PROVE k = s
            BY <6>2, Prefixes
          <6> QED BY <1>5, <4>1, <5>3, <6>1, <6>2
        <5>5. CASE r = s
          BY <3>1, <4>5, <4>8, <5>1, <5>4, <5>5 DEF Parts
        <5>6. CASE r # s
          <6>1. PICK b \in Bit : On(s, r, b)
            BY <5>3, <5>6, Sides
          <6>2. On(p, r, b) /\ On(y, r, b)
            <7>1. IsPrefix(s, y)
              BY <4>5, <4>8, Sides
            <7> QED BY <1>5, <4>1, <6>1, <7>1, Sides
          <6> QED BY <5>1, <5>4, <6>2 DEF Parts
        <5> QED BY <5>5, <5>6
      <4> QED BY <4>7, <4>8
    <3>6. CASE y # NoNode
      <4>1. ToRight(y, p) /\ y \in Nodes /\ y \in Node
        BY <1>5, <3>3, <3>5, <3>6
      <4>2. \A m \in Nodes : Ahead(m, y, "down") => ~IsPrefix(m, p)
        BY <1>14, <4>1
      <4> QED BY <1>9, <1>13, <1>16, <3>2, <4>1, <4>2
    <3> QED BY <3>4, <3>6
  <2>4. CASE addr[dbit + 1] # 1
    <3>1. On(p, s, zero) /\ On(far, s, one)
      BY <2>1, <2>2, <2>4, <2>x, <2>y
    <3> DEFINE t == ClimbTo(far, dbit + 1)
    <3>2. GetNext(addr, len) = FirstHead(t)
      BY <1>3, <1>11, <1>16, <2>1, <2>4
    <3>3. Len(far) >= dbit + 1
      <4>1. Len(s) < Len(far)
        BY <1>5, <2>1, Prefixes
      <4> QED BY <1>3, <1>4, <1>5, <4>1
    <3>4. t \in Nodes /\ IsPrefix(t, far) /\ Len(t) >= dbit + 1 /\ t \in Node
      BY <1>3, <1>5, <3>3, ClimbIsHighest
    <3> HIDE DEF t
    <3>5. IsPrefix(s, t) /\ s # t
      <4>1. Len(t) \in Nat /\ Len(s) <= Len(t) /\ Len(s) # Len(t)
        BY <1>3, <1>4, <3>4, Prefixes
      <4> QED BY <1>5, <3>4, <4>1, Prefixes
    <3>6. On(t, s, one)
      BY <1>5, <3>1, <3>4, <3>5, Sides
    <3>7. ToRight(t, p)
      BY <2>y, <3>1, <3>6 DEF ToRight
    <3>8. \A m \in Nodes : Ahead(m, t, "down") => ~IsPrefix(m, p)
      BY <1>14, <3>4, <3>7
    <3> QED BY <1>9, <1>13, <1>16, <3>2, <3>4, <3>8
  <2> QED BY <2>3, <2>4
<1> QED BY <1>12, <1>15, <1>16

----------------------------------------------------------------------------
(* The heads in order, and the subtree of a prefix.                        *)

\* The order of the heads.
HeadOrder == {gh \in Rth \X Rth : Before(KeyOf(gh[1]), KeyOf(gh[2]))}

\* A list of heads in that order is what InOrder says.
LEMMA ListsInOrder ==
  ASSUME NEW s, NEW hs, Lists(s, hs, HeadOrder)
  PROVE  InOrder(s, hs)
<1>1. s \in Seq(hs) /\ DOMAIN s = 1 .. Len(s)
  BY LenProperties DEF Lists
<1>2. ASSUME NEW i \in 1 .. Len(s), NEW j \in 1 .. Len(s), i < j PROVE Before(KeyOf(s[i]), KeyOf(s[j]))
  <2>1. <<s[i], s[j]>> \in HeadOrder
    BY <1>2 DEF Lists
  <2> QED BY <2>1 DEF HeadOrder
<1>3. {s[i] : i \in 1 .. Len(s)} = hs
  BY DEF Lists
<1> QED BY <1>1, <1>2, <1>3 DEF InOrder

\* A node calls for its head.
LEMMA ListsHead ==
  ASSUME IInv, NEW n \in Nodes, NEW hs, hs = {h \in Heads : KeyOf(h) = n}
  PROVE  /\ Lists(IF node[n].rth = NoHead THEN << >> ELSE <<node[n].rth>>, hs, HeadOrder)
         /\ hs \subseteq Rth
<1>1. \A h \in Heads : node[KeyOf(h)].rth = h /\ h # NoHead /\ h \in Rth
  BY HeadsAreNodes
<1>2. CASE node[n].rth = NoHead
  <2>1. hs = {}
    BY <1>1, <1>2
  <2> QED BY <1>2, <2>1, ListsNone
<1>3. CASE node[n].rth # NoHead
  <2>1. PICK r : r = node[n].rth
    OBVIOUS
  <2>2. r \in hs
    BY <1>3, <2>1, HeadsAreNodes
  <2>3. \A h \in hs : h = r
    BY <1>1, <2>1
  <2>4. hs = {r}
    BY <2>2, <2>3
  <2>5. Lists(<<r>>, hs, HeadOrder)
    BY <2>4, ListsOne
  <2>6. hs \subseteq Rth
    BY <1>1
  <2> QED BY <1>3, <2>1, <2>5, <2>6
<1> QED BY <1>2, <1>3
----------------------------------------------------------------------------
\* The root of the subtree of a prefix.
LEMMA SubtreeIs ==
  ASSUME IInv, NoneMarked, NEW addr \in Address, NEW len \in 0 .. Width
  PROVE  /\ Extending(SubSeq(addr, 1, len)) = {} => GetSubtree(addr, len) = NoNode
         /\ Extending(SubSeq(addr, 1, len)) # {} =>
              /\ GetSubtree(addr, len) \in Nodes
              /\ \A h \in Heads : IsPrefix(SubSeq(addr, 1, len), KeyOf(h)) <=> IsPrefix(GetSubtree(addr, len), KeyOf(h))
<1>0. PICK p, t : p = SubSeq(addr, 1, len) /\ t = GetSubtree(addr, len)
  OBVIOUS
<1>s. SUFFICES /\ Extending(p) = {} => t = NoNode
               /\ Extending(p) # {} => t \in Nodes /\ \A h \in Heads : IsPrefix(p, KeyOf(h)) <=> IsPrefix(t, KeyOf(h))
  BY <1>0
<1>1. p \in Node /\ Len(p) = len /\ len \in Nat /\ \A i \in 1 .. len : p[i] = addr[i]
  BY <1>0, Beginning
<1>2. Nodes \subseteq Node /\ Linked(node, root) /\ Typed(node) /\ NoNode \notin Nodes
  BY Standing
<1>3. \A h \in Heads : /\ KeyOf(h) \in Nodes /\ KeyOf(h) \in Node /\ hnode[h] = KeyOf(h) /\ h # NoHead
                       /\ h \in Rth /\ node[KeyOf(h)].rth = h
  BY HeadsAreNodes
<1>4. CASE root = NoNode
  <2>1. Heads = {} /\ t = NoNode
    BY <1>0, <1>4, Standing DEF GetSubtree
  <2> QED BY <2>1 DEF Extending
<1>5. CASE root # NoNode /\ GetExact(addr, len) # NoHead
  <2>1. GetExact(addr, len) = Longest({h \in Heads : KeyOf(h) = p})
    BY <1>0, <1>5, ExactIs
  <2>2. PICK g \in Heads : KeyOf(g) = p
    BY <1>5, <2>1 DEF Longest
  <2>3. LowestOf({h \in Heads : KeyOf(h) = p}, p)
    <3>1. \A h \in Heads : KeyOf(h) = p => IsPrefix(KeyOf(h), p)
      BY <1>1, Prefixes
    <3> QED BY <1>2, <1>3, <2>2, <3>1 DEF LowestOf
  <2>4. GetExact(addr, len) = g
    <3>1. Longest({h \in Heads : KeyOf(h) = p}) = HeadAt(p)
      BY <2>3, LongestIs
    <3> QED BY <1>2, <1>3, <2>1, <2>2, <3>1 DEF HeadAt
  <2>5. t = p
    BY <1>0, <1>3, <1>5, <2>2, <2>4 DEF GetSubtree
  <2>6. g \in Extending(p)
    BY <1>1, <2>2, Prefixes DEF Extending
  <2> QED BY <1>3, <2>2, <2>5, <2>6
<1>6. CASE root # NoNode /\ GetExact(addr, len) = NoHead
  <2>1. \A h \in Heads : KeyOf(h) # p
    <3> SUFFICES ASSUME NEW g \in Heads, KeyOf(g) = p PROVE FALSE
      OBVIOUS
    <3>1. GetExact(addr, len) = Longest({h \in Heads : KeyOf(h) = p})
      BY <1>0, <1>6, ExactIs
    <3>2. LowestOf({h \in Heads : KeyOf(h) = p}, p)
      <4>1. \A h \in Heads : KeyOf(h) = p => IsPrefix(KeyOf(h), p)
        BY <1>1, Prefixes
      <4> QED BY <1>2, <1>3, <4>1 DEF LowestOf
    <3>3. Longest({h \in Heads : KeyOf(h) = p}) = HeadAt(p)
      BY <3>2, LongestIs
    <3> QED BY <1>2, <1>3, <1>6, <3>1, <3>3 DEF HeadAt
  <2> DEFINE next == GetNext(addr, len)
  <2>2. /\ Extending(p) # {} => next \in Extending(p)
        /\ Extending(p) = {} => next = NoHead \/ (next \in Heads /\ ~IsPrefix(KeyOf(next), p))
    BY <1>0, <1>1, <1>6, <2>1, NextOfOther
  <2>3. t = IF next = NoHead \/ ~SameBits(addr, next.addr, len) THEN NoNode ELSE ClimbTo(hnode[next], len)
    BY <1>0, <1>6 DEF GetSubtree
  <2> HIDE DEF next
  <2>4. \A h \in Heads : /\ h.len \in Nat /\ Len(KeyOf(h)) = h.len /\ \A i \in 1 .. h.len : KeyOf(h)[i] = h.addr[i]
    BY <1>3, KeyIs
  <2>5. CASE Extending(p) = {}
    <3>1. ASSUME next \in Heads, ~IsPrefix(KeyOf(next), p), SameBits(addr, next.addr, len) PROVE FALSE
      <4>1. PICK k : k = KeyOf(next)
        OBVIOUS
      <4>2. Len(k) = next.len /\ next.len \in Nat /\ \A i \in 1 .. next.len : k[i] = next.addr[i]
        BY <2>4, <3>1, <4>1
      <4>3. \A i \in 1 .. len : p[i] = next.addr[i]
        BY <1>1, <3>1 DEF SameBits
      <4>4. CASE next.len <= len
        <5>1. \A i \in 1 .. next.len : k[i] = p[i]
          BY <1>1, <4>2, <4>3, <4>4
        <5> QED BY <1>1, <3>1, <4>1, <4>2, <4>4, <5>1 DEF IsPrefix
      <4>5. CASE ~(next.len <= len)
        <5>1. \A i \in 1 .. len : k[i] = p[i]
          BY <1>1, <4>2, <4>3, <4>5
        <5>2. IsPrefix(p, k)
          BY <1>1, <4>2, <4>5, <5>1 DEF IsPrefix
        <5> QED BY <2>5, <3>1, <4>1, <5>2 DEF Extending
      <4> QED BY <4>4, <4>5
    <3> QED BY <2>2, <2>3, <2>5, <3>1
  <2>6. CASE Extending(p) # {}
    <3>1. PICK k : k = KeyOf(next)
      OBVIOUS
    <3>2. next \in Heads /\ IsPrefix(p, k) /\ k \in Nodes /\ k \in Node /\ hnode[next] = k /\ next # NoHead
      BY <1>3, <2>2, <2>6, <3>1 DEF Extending
    <3>3. SameBits(addr, next.addr, len)
      <4>1. len <= Len(k) /\ \A i \in 1 .. len : p[i] = k[i]
        BY <1>1, <3>2 DEF IsPrefix
      <4>2. \A i \in 1 .. len : i \in 1 .. next.len
        BY <1>1, <2>4, <3>1, <3>2, <4>1
      <4> QED BY <1>1, <2>4, <3>1, <3>2, <4>1, <4>2 DEF SameBits
    <3>4. t = ClimbTo(k, len)
      BY <2>3, <3>2, <3>3
    <3>5. Len(k) >= len
      <4>1. Len(p) <= Len(k) /\ Len(k) \in Nat
        BY <1>1, <3>2, Prefixes
      <4> QED BY <1>1, <4>1
    <3>6. /\ t \in Nodes /\ t \in Node /\ IsPrefix(t, k) /\ Len(t) >= len
          /\ node[t].parent = NoNode \/ Len(node[t].parent) < len
      BY <1>1, <1>2, <3>2, <3>4, <3>5, ClimbIsHighest
    <3>7. IsPrefix(p, t)
      <4>1. Len(p) <= Len(t)
        BY <1>1, <3>6, Prefixes
      <4> QED BY <1>1, <3>2, <3>6, <4>1, Prefixes
    <3>8. ASSUME NEW q \in Nodes, IsPrefix(p, q) PROVE IsPrefix(t, q)
      <4>1. PICK r \in Nodes : Parts(r, t, q)
        BY <3>6, PartingIsANode
      <4>2. CASE r = t
        BY <4>1, <4>2 DEF Parts
      <4>3. CASE r # t
        <5>1. IsPrefix(r, t) /\ IsPrefix(r, q) /\ r \in Node /\ q \in Node
          BY <1>2, <4>1 DEF Parts
        <5>2. PICK up : up = node[t].parent
          OBVIOUS
        <5>3. up # NoNode /\ IsPrefix(r, up) /\ up \in Node
          <6>1. ParentIs(node, t, up)
            BY <1>2, <3>6, <5>2 DEF Linked, Nodes
          <6> QED BY <1>2, <4>1, <4>3, <5>1, <6>1 DEF ParentIs, Nodes
        <5>4. Len(r) < len
          <6>1. Len(r) <= Len(up) /\ Len(r) \in Nat /\ Len(up) \in Nat
            BY <5>1, <5>3, Prefixes
          <6>2. Len(up) < len
            BY <3>6, <5>2, <5>3
          <6> QED BY <1>1, <6>1, <6>2
        <5>5. IsPrefix(r, p) /\ r # p
          <6>1. Len(r) <= Len(p)
            BY <1>1, <5>1, <5>4, Prefixes
          <6>2. IsPrefix(r, p)
            <7>1. \A x, y, z \in Node : IsPrefix(x, z) /\ IsPrefix(y, z) /\ Len(x) <= Len(y) => IsPrefix(x, y)
              BY Prefixes
            <7>2. p \in Node
              BY <1>1
            <7> QED BY ONLY <3>6, <3>7, <5>1, <6>1, <7>1, <7>2
          <6>3. Len(r) # Len(p)
            <7>1. Len(r) \in Nat
              BY <5>1, Prefixes
            <7> QED BY <1>1, <5>4, <7>1
          <6> QED BY <6>2, <6>3
        <5>6. PICK b \in Bit : On(p, r, b)
          BY <1>1, <5>1, <5>5, Sides
        <5>7. On(t, r, b) /\ On(q, r, b)
          BY <1>1, <3>6, <3>7, <3>8, <5>1, <5>6, Sides
        <5>8. r # q
          BY <5>7, Sides
        <5> QED BY <4>1, <4>3, <5>7, <5>8 DEF Parts
      <4> QED BY <4>2, <4>3
    <3>9. ASSUME NEW q \in Nodes, IsPrefix(t, q) PROVE IsPrefix(p, q)
      BY <1>1, <1>2, <3>6, <3>7, <3>9, Prefixes
    <3> QED BY <1>3, <2>6, <3>6, <3>8, <3>9
  <2> QED BY <2>5, <2>6
<1> QED BY <1>4, <1>5, <1>6

----------------------------------------------------------------------------
(* The walk of a subtree.                                                  *)

\* What NextWithin computes on its way up.
WithinUps(g, top0) ==
  g = [m \in Nodes |->
        IF m = top0 \/ node[m].parent = NoNode THEN m
        ELSE LET p == node[m].parent
             IN IF node[p].right = m \/ node[p].right = NoNode THEN g[p] ELSE node[p].right]
StopsAt(m, top0)  == m = top0 \/ node[m].parent = NoNode
UpWithin(top0)    == [m \in Nodes |-> IF StopsAt(m, top0) \/ TurnsAt(m) THEN m ELSE node[m].parent]
EndWithin(top0)   == [m \in Nodes |-> IF StopsAt(m, top0) THEN m ELSE node[node[m].parent].right]

\* Within a subtree it goes on to what is behind n, and back to the top.
LEMMA NextWithinIs ==
  ASSUME IInv, NEW t \in Nodes, NEW n \in Nodes, IsPrefix(t, n), NEW b, b = NextWithin(t, n)
  PROVE  /\ b \in Nodes /\ IsPrefix(t, b)
         /\ \A x \in Nodes : IsPrefix(t, x) => (Before(n, x) <=> b # t /\ Ahead(x, b, "down"))
<1>0. Nodes \subseteq Node /\ Linked(node, root) /\ NoNode \notin Nodes
  BY Standing
<1>1. \A m \in Nodes : /\ node[m].parent \in Nodes \cup {NoNode} /\ m # NoNode
                       /\ node[m].left \in Nodes \cup {NoNode} /\ node[m].right \in Nodes \cup {NoNode}
                       /\ node[m].parent # NoNode =>
                            /\ node[m].parent # m /\ node[node[m].parent].right \in Nodes \cup {NoNode}
                            /\ IsPrefix(node[m].parent, m)
  BY Standing, Kin DEF Nodes
<1>2. ASSUME NEW m \in Nodes, NEW c, c \in Nodes, c = node[m].left \/ c = node[m].right, IsPrefix(t, m)
      PROVE  IsPrefix(t, c) /\ c # t
  <2>1. PICK x, y : x = 0 /\ y = 1
    OBVIOUS
  <2>2. x \in Bit /\ y \in Bit
    BY <2>1 DEF Bit
  <2>3. PICK d \in Bit : c = SideIn(node, m, d)
    BY <1>2, <2>1, <2>2, Standing
  <2>4. IsPrefix(m, c) /\ m # c
    <3>1. SideIn(node, m, d) # NoNode /\ m \in DOMAIN node
      BY <1>0, <1>2, <2>3 DEF Nodes
    <3>2. On(SideIn(node, m, d), m, d)
      BY <1>0, <3>1, Kin
    <3> QED BY <2>3, <3>2, Sides
  <2>5. IsPrefix(t, c)
    BY <1>0, <1>2, <2>4, Prefixes
  <2>6. c # t
    <3>1. Len(t) <= Len(m) /\ Len(m) < Len(c) /\ Len(m) \in Nat /\ Len(c) \in Nat /\ Len(t) \in Nat
      BY <1>0, <1>2, <2>4, Prefixes
    <3> QED BY <3>1
  <2> QED BY <2>5, <2>6
<1>3. \A x \in Nodes : Before(n, x) <=> IF node[n].left # NoNode THEN Ahead(x, node[n].left, "down")
                                        ELSE IF node[n].right # NoNode THEN Ahead(x, node[n].right, "down")
                                        ELSE Ahead(x, n, "up")
  BY <1>0, DownAhead, RightAhead
<1>4. CASE node[n].left # NoNode
  <2>1. b = node[n].left /\ b \in Nodes
    BY <1>1, <1>4 DEF NextWithin
  <2>2. IsPrefix(t, b) /\ b # t
    BY <1>2, <2>1
  <2> QED BY <1>3, <1>4, <2>1, <2>2
<1>5. CASE node[n].left = NoNode /\ node[n].right # NoNode
  <2>1. b = node[n].right /\ b \in Nodes
    BY <1>1, <1>5 DEF NextWithin
  <2>2. IsPrefix(t, b) /\ b # t
    BY <1>2, <2>1
  <2> QED BY <1>3, <1>5, <2>1, <2>2
<1>6. CASE node[n].left = NoNode /\ node[n].right = NoNode
  <2> DEFINE nxt == UpWithin(t)
             end == EndWithin(t)
             To(k) == IsPrefix(t, k) /\ \A m \in Nodes : Ahead(m, n, "up") <=> Ahead(m, k, "up")
             S == {k \in Nodes : To(k)}
  <2>1. nxt \in [Nodes -> Nodes] /\ \A m \in Nodes : nxt[m] = IF StopsAt(m, t) \/ TurnsAt(m) THEN m ELSE node[m].parent
    BY <1>1 DEF UpWithin, TurnsAt, StopsAt
  <2>2. \A m \in Nodes : end[m] = IF StopsAt(m, t) THEN m ELSE node[node[m].parent].right
    BY DEF EndWithin
  <2>3. \A m \in Nodes : /\ nxt[m] # m <=> ~StopsAt(m, t) /\ ~TurnsAt(m)
                         /\ ~StopsAt(m, t) /\ ~TurnsAt(m) => nxt[m] = node[m].parent
    BY <1>1, <2>1 DEF StopsAt
  <2> HIDE DEF nxt, end
  <2>4. ASSUME NEW e PROVE WithinUps(e, t) <=> Leads(e, Nodes, nxt, end)
    <3>1. ASSUME NEW m \in Nodes
          PROVE  (IF nxt[m] # m THEN e[nxt[m]] ELSE end[m]) =
                 (IF m = t \/ node[m].parent = NoNode THEN m
                  ELSE LET p == node[m].parent
                       IN IF node[p].right = m \/ node[p].right = NoNode THEN e[p] ELSE node[p].right)
      BY <2>2, <2>3 DEF TurnsAt, StopsAt
    <3> QED BY <3>1 DEF WithinUps, Leads
  <2>5. PICK g : WithinUps(g, t) /\ b = g[n]
    <3>1. \E f : WithinUps(f, t)
      BY <2>1, <2>4, LeadsExists
    <3> DEFINE g == CHOOSE g : WithinUps(g, t)
    <3>2. WithinUps(g, t)
      BY <3>1
    <3>3. NextWithin(t, n) = g[n]
      BY <1>6 DEF NextWithin, WithinUps
    <3> QED BY <3>2, <3>3
  <2>6. ASSUME NEW k \in S PROVE nxt[k] \in S
    <3>1. k \in Nodes /\ To(k)
      OBVIOUS
    <3>2. CASE StopsAt(k, t) \/ TurnsAt(k)
      BY <2>3, <3>1, <3>2
    <3>3. CASE ~StopsAt(k, t) /\ ~TurnsAt(k)
      <4>1. PICK q : q = node[k].parent
        OBVIOUS
      <4>2. nxt[k] = q /\ q \in Nodes /\ k # t /\ q # NoNode
        BY <2>1, <2>3, <3>1, <3>3, <4>1 DEF StopsAt
      <4>3. \A m \in Nodes : Ahead(m, k, "up") <=> Ahead(m, q, "up")
        BY <3>1, <3>3, <4>1, <4>2, UpTurns DEF TurnsAt
      <4>4. IsPrefix(t, q)
        <5>1. ParentIs(node, k, q)
          BY <1>0, <3>1, <4>1 DEF Linked, Nodes
        <5> QED BY <3>1, <4>2, <5>1 DEF ParentIs, Nodes
      <4> QED BY <3>1, <4>2, <4>3, <4>4
    <3> QED BY <3>2, <3>3
  <2>7. PICK e \in S : nxt[e] = e /\ b = end[e]
    <3>1. n \in S /\ S \in SUBSET Nodes
      OBVIOUS
    <3> HIDE DEF S
    <3>2. StaysIn(S, Nodes, nxt)
      BY <2>6, <3>1 DEF StaysIn
    <3>3. \A m \in Nodes : nxt[m] = m \/ nxt[m] = node[m].parent
      BY <2>1
    <3>4. PICK mu : Falls(mu, Nodes, nxt)
      BY <2>1, <3>3, UpFalls
    <3>5. Leads(g, Nodes, nxt, end)
      BY <2>4, <2>5
    <3>6. \E e \in S : nxt[e] = e /\ g[n] = end[e]
      BY <2>1, <3>1, <3>2, <3>4, <3>5, LeadsEnds
    <3> QED BY <2>5, <3>6
  <2>8. e \in Nodes /\ e \in Node /\ To(e) /\ (StopsAt(e, t) \/ TurnsAt(e))
    BY <1>0, <2>3, <2>7
  <2>9. \A x \in Nodes : Before(n, x) <=> Ahead(x, e, "up")
    BY <1>3, <1>6, <2>8
  <2>10. CASE StopsAt(e, t)
    <3>1. b = e
      BY <2>2, <2>7, <2>8, <2>10
    <3>2. e = t
      <4>1. CASE node[e].parent = NoNode
        <5>1. ParentIs(node, e, node[e].parent) /\ t \in DOMAIN node
          BY <1>0, <2>8 DEF Linked, Nodes
        <5> QED BY <2>8, <4>1, <5>1 DEF ParentIs
      <4> QED BY <2>10, <4>1 DEF StopsAt
    <3>3. ASSUME NEW x \in Nodes, IsPrefix(t, x), Ahead(x, t, "up") PROVE FALSE
      <4>1. ToRight(x, t) /\ x \in Node /\ t \in Node
        BY <1>0, <3>3 DEF Ahead
      <4> QED BY <3>3, <4>1, RightIsOneWay
    <3> QED BY <2>8, <2>9, <3>1, <3>2, <3>3
  <2>11. CASE ~StopsAt(e, t)
    <3>1. PICK q : q = node[e].parent
      OBVIOUS
    <3>2. /\ b = node[q].right /\ q \in Nodes /\ q # NoNode /\ e # t
          /\ node[q].right # NoNode /\ node[q].right # e /\ b \in Nodes
      BY <1>1, <2>2, <2>7, <2>8, <2>11, <3>1 DEF StopsAt, TurnsAt
    <3>3. IsPrefix(t, q)
      <4>1. ParentIs(node, e, q)
        BY <1>0, <2>8, <3>1 DEF Linked, Nodes
      <4> QED BY <2>8, <3>2, <4>1 DEF ParentIs, Nodes
    <3>4. IsPrefix(t, b) /\ b # t
      BY <1>2, <3>2, <3>3
    <3>5. \A x \in Nodes : Ahead(x, e, "up") <=> Ahead(x, b, "down")
      BY <2>8, <3>1, <3>2, UpTurns
    <3> QED BY <2>9, <3>2, <3>4, <3>5
  <2> QED BY <2>10, <2>11
<1> QED BY <1>4, <1>5, <1>6

\* What PowerWalk puts together.
InSubtree(t)  == {n \in Nodes : IsPrefix(t, n)}
BehindIn(t)   == [n \in InSubtree(t) \cup {NoNode} |->
                   IF n = NoNode \/ NextWithin(t, n) = t THEN NoNode ELSE NextWithin(t, n)]
Calling(t)    == [n \in InSubtree(t) \cup {NoNode} |-> IF HeadUnmarked(n) = NoHead THEN << >> ELSE <<node[n].rth>>]
PowerOn(g, t) ==
  LET Subtree   == {n \in Nodes : IsPrefix(t, n)}
      Behind(n) == IF NextWithin(t, n) = t THEN NoNode ELSE NextWithin(t, n)
  IN g = [n \in Subtree \cup {NoNode} |->
           IF n = NoNode THEN << >>
           ELSE (IF HeadUnmarked(n) = NoHead THEN << >> ELSE <<node[n].rth>>) \o g[Behind(n)]]

\* A power walk lists the heads of its subtree.
LEMMA PowerWalkLists ==
  ASSUME IInv, NoneMarked, NEW t \in Nodes
  PROVE  Lists(PowerWalk(t), {h \in Heads : IsPrefix(t, KeyOf(h))}, HeadOrder)
<1> DEFINE T      == InSubtree(t)
           D      == T \cup {NoNode}
           nxt    == BehindIn(t)
           pre    == Calling(t)
           Way(n) == {m \in T : Ahead(m, n, "down")}
           mu     == [n \in D |-> Cardinality(Way(n))]
           Q      == [n \in D |-> {h \in Heads : KeyOf(h) \in T /\ Ahead(KeyOf(h), n, "down")}]
<1>0. Nodes \subseteq Node /\ NoNode \notin Nodes /\ t \in Node /\ t # NoNode
  BY Standing
<1>1. T \in SUBSET Nodes /\ t \in T /\ NoNode \notin T /\ \A n : n \in T <=> n \in Nodes /\ IsPrefix(t, n)
  BY <1>0, Prefixes DEF InSubtree
<1> HIDE DEF T
<1>2. ASSUME NEW n \in T
      PROVE  /\ nxt[n] \in D /\ nxt[n] # n
             /\ nxt[n] = IF NextWithin(t, n) = t THEN NoNode ELSE NextWithin(t, n)
             /\ \A m \in T : /\ Ahead(m, n, "down") <=> m = n \/ Before(n, m)
                             /\ Ahead(m, nxt[n], "down") <=> Before(n, m)
  <2>1. PICK b : b = NextWithin(t, n)
    OBVIOUS
  <2>2. n \in Nodes /\ IsPrefix(t, n) /\ n # NoNode
    BY <1>1
  <2>3. b \in Nodes /\ IsPrefix(t, b) /\ \A m \in T : Before(n, m) <=> b # t /\ Ahead(m, b, "down")
    BY <1>1, <2>1, <2>2, NextWithinIs
  <2>4. nxt[n] = IF b = t THEN NoNode ELSE b
    BY <1>1, <2>1, <2>2 DEF BehindIn, T
  <2> HIDE DEF nxt
  <2>5. nxt[n] \in D
    BY <1>1, <2>3, <2>4
  <2>6. \A m \in T : Ahead(m, nxt[n], "down") <=> Before(n, m)
    <3>1. CASE b = t
      BY <2>3, <2>4, <3>1 DEF Ahead
    <3>2. CASE b # t
      BY <2>3, <2>4, <3>2
    <3> QED BY <3>1, <3>2
  <2>7. \A m \in T : Ahead(m, n, "down") <=> m = n \/ Before(n, m)
    BY <1>1, <2>2, DownAhead
  <2>8. nxt[n] # n
    <3>1. ~Before(n, n)
      BY <1>0, <2>2, BeforeIsOneWay
    <3> QED BY <2>6, <2>7, <3>1
  <2> QED BY <2>1, <2>4, <2>5, <2>6, <2>7, <2>8
<1>3. nxt[NoNode] = NoNode /\ nxt \in [D -> D]
  <2>1. nxt = [n \in D |-> nxt[n]] /\ nxt[NoNode] = NoNode
    BY DEF BehindIn, T
  <2> HIDE DEF nxt
  <2>2. \A n \in D : nxt[n] \in D
    BY <1>2, <2>1
  <2> QED BY <2>1, <2>2
<1>4. ASSUME NEW n \in T
      PROVE  pre[n] = IF node[n].rth = NoHead THEN << >> ELSE <<node[n].rth>>
  <2>1. HeadUnmarked(n) = node[n].rth
    BY <1>1, UnmarkedIs DEF HeadAt
  <2> QED BY <2>1 DEF Calling, T
<1>5. \A e : PowerOn(e, t) <=> Gathers(e, D, nxt, pre)
  <2> SUFFICES ASSUME NEW e PROVE PowerOn(e, t) <=> Gathers(e, D, nxt, pre)
    OBVIOUS
  <2>0. \A n \in T : pre[n] = IF HeadUnmarked(n) = NoHead THEN << >> ELSE <<node[n].rth>>
    BY DEF Calling, T
  <2> HIDE DEF nxt, pre
  <2>1. ASSUME NEW n \in D
        PROVE  (IF n = NoNode THEN << >>
                ELSE (IF HeadUnmarked(n) = NoHead THEN << >> ELSE <<node[n].rth>>)
                       \o e[IF NextWithin(t, n) = t THEN NoNode ELSE NextWithin(t, n)]) =
               (IF nxt[n] # n THEN pre[n] \o e[nxt[n]] ELSE << >>)
    <3>1. CASE n = NoNode
      BY <1>3, <3>1
    <3>2. CASE n # NoNode
      <4>1. n \in T
        BY <3>2
      <4> QED BY <1>2, <2>0, <3>2, <4>1
    <3> QED BY <3>1, <3>2
  <2>2. Gathers(e, D, nxt, pre) <=>
          e = [n \in D |-> IF n = NoNode THEN << >>
                           ELSE (IF HeadUnmarked(n) = NoHead THEN << >> ELSE <<node[n].rth>>)
                                  \o e[IF NextWithin(t, n) = t THEN NoNode ELSE NextWithin(t, n)]]
    <3> HIDE DEF D
    <3> QED BY <2>1 DEF Gathers
  <2> QED BY <2>2 DEF PowerOn, T, InSubtree
<1> HIDE DEF nxt, pre
<1>6. Falls(mu, D, nxt) /\ \A n \in D : mu[n] <= Cardinality(T) /\ Cardinality(T) \in Nat
  <2>0. IsFiniteSet(T) /\ Cardinality(T) \in Nat
    <3>1. T \subseteq Node
      BY <1>0, <1>1
    <3> QED BY <3>1, NodeFinite, FS_Subset, FS_CardinalityType
  <2>1. \A n \in D : Cardinality(Way(n)) \in Nat /\ Cardinality(Way(n)) <= Cardinality(T)
    <3>1. \A n \in D : Way(n) \subseteq T
      OBVIOUS
    <3> HIDE DEF Way
    <3> QED BY <2>0, <3>1, FS_Subset, FS_CardinalityType
  <2>2. mu \in [D -> Nat] /\ \A n \in D : mu[n] = Cardinality(Way(n))
    BY <2>1
  <2> HIDE DEF mu
  <2>3. ASSUME NEW n \in D, nxt[n] # n PROVE mu[nxt[n]] < mu[n]
    <3>1. n \in T /\ n \in Nodes /\ nxt[n] \in D
      BY <1>1, <1>2, <1>3, <2>3
    <3>2. n \in Way(n) /\ Way(nxt[n]) \subseteq Way(n) /\ (\A m \in Way(nxt[n]) : Before(n, m)) /\ Way(n) \in SUBSET Nodes
      BY <1>1, <1>2, <3>1
    <3> HIDE DEF Way
    <3>3. Cardinality(Way(nxt[n])) < Cardinality(Way(n))
      BY <3>1, <3>2, FewerComing
    <3> QED BY <2>2, <3>1, <3>3
  <2> QED BY <2>0, <2>1, <2>2, <2>3 DEF Falls
<1> HIDE DEF mu
<1>7. PICK f : Gathers(f, D, nxt, pre) /\ PowerWalk(t) = f[t]
  <2>1. \E f : PowerOn(f, t)
    <3>1. \E f : Gathers(f, D, nxt, pre)
      <4> HIDE DEF D
      <4>1. PICK k : k = Cardinality(T)
        OBVIOUS
      <4>2. k \in Nat /\ \A n \in D : mu[n] <= k
        BY <1>3, <1>6, <4>1 DEF D
      <4> QED BY <1>3, <1>6, <4>2, GathersExists
    <3> QED BY <1>5, <3>1
  <2> DEFINE f == CHOOSE f : PowerOn(f, t)
  <2>2. PowerOn(f, t)
    BY <2>1
  <2>3. PowerWalk(t) = f[t]
    BY <1>0 DEF PowerWalk, PowerOn
  <2> QED BY <1>5, <2>2, <2>3
<1>8. \A n \in D : Q[n] = {h \in Heads : KeyOf(h) \in T /\ Ahead(KeyOf(h), n, "down")}
  OBVIOUS
<1> HIDE DEF Q
<1>9. Q[NoNode] = {}
  BY <1>8 DEF Ahead
<1>10. ASSUME NEW n \in T
       PROVE  \E A : /\ Lists(pre[n], A, HeadOrder) /\ Q[n] = A \cup Q[nxt[n]]
                     /\ \A a \in A, b \in Q[nxt[n]] : <<a, b>> \in HeadOrder
  <2> DEFINE A == {h \in Heads : KeyOf(h) = n}
  <2>0. n \in Nodes
    BY <1>1
  <2>1. Lists(pre[n], A, HeadOrder) /\ A \subseteq Rth
    BY <1>4, <2>0, ListsHead
  <2>2. Q[n] = A \cup Q[nxt[n]]
    BY <1>2, <1>8
  <2>3. ASSUME NEW a \in A, NEW b \in Q[nxt[n]] PROVE <<a, b>> \in HeadOrder
    <3>1. b \in Heads /\ KeyOf(b) \in T /\ Ahead(KeyOf(b), nxt[n], "down")
      BY <1>2, <1>8
    <3>2. Before(KeyOf(a), KeyOf(b)) /\ a \in Rth /\ b \in Rth
      BY <1>2, <3>1, HeadsAreNodes
    <3> QED BY <3>2 DEF HeadOrder
  <2> QED BY <2>1, <2>2, <2>3
<1>11. \A n \in D : Lists(f[n], Q[n], HeadOrder)
  <2>1. AddsUp(Q, D, nxt, pre, HeadOrder)
    <3> SUFFICES ASSUME NEW n \in D
                 PROVE  IF nxt[n] = n THEN Q[n] = {}
                        ELSE \E A : /\ Lists(pre[n], A, HeadOrder) /\ Q[n] = A \cup Q[nxt[n]]
                                   /\ \A a \in A, b \in Q[nxt[n]] : <<a, b>> \in HeadOrder
      BY DEF AddsUp
    <3> QED BY <1>2, <1>3, <1>9, <1>10
  <2> HIDE DEF D
  <2> QED BY <1>3, <1>6, <1>7, <2>1, GathersLists
<1>12. Q[t] = {h \in Heads : IsPrefix(t, KeyOf(h))}
  <2>1. \A h \in Heads : KeyOf(h) \in Nodes
    BY HeadsAreNodes
  <2> QED BY <1>0, <1>1, <1>8, <2>1 DEF Ahead
<1> QED BY <1>1, <1>7, <1>11, <1>12

----------------------------------------------------------------------------
(* The walks of std_radix_walk.                                            *)

\* One turn of a walk: what is ahead stays ahead, but for the node it calls
\* for.
LEMMA OnwardIs ==
  ASSUME IInv, NEW n \in Nodes, NEW dir \in Direction, NEW k, NEW e, Onward(n, dir) = <<k, e>>
  PROVE  /\ k \in Nodes \cup {NoNode} /\ e \in Direction
         /\ \A m \in Nodes : Ahead(m, k, e) <=> IF dir = "down" THEN Before(n, m) ELSE Ahead(m, n, dir)
         /\ dir = "right" => (k = n /\ e = "up") \/ e = "down"
         /\ dir = "up" => k = NoNode \/ (IsPrefix(k, n) /\ k # n /\ e # "down")
<1>0. Linked(node, root) /\ Nodes \subseteq Node
  BY Standing
<1>1. /\ node[n].left \in Nodes \cup {NoNode} /\ node[n].right \in Nodes \cup {NoNode}
      /\ node[n].parent \in Nodes \cup {NoNode}
      /\ node[n].parent # NoNode => IsPrefix(node[n].parent, n) /\ node[n].parent # n
  BY Standing, Kin DEF Nodes
<1>2. CASE dir = "down"
  <2>1. <<k, e>> = IF node[n].left # NoNode THEN <<node[n].left, "down">> ELSE <<n, "right">>
    BY <1>2 DEF Onward
  <2>2. k = (IF node[n].left # NoNode THEN node[n].left ELSE n) /\ e = (IF node[n].left # NoNode THEN "down" ELSE "right")
    BY <2>1
  <2>3. \A m \in Nodes : Before(n, m) <=> Ahead(m, k, e)
    BY <2>2, DownAhead
  <2> QED BY <1>1, <1>2, <2>2, <2>3 DEF Direction
<1>3. CASE dir = "right"
  <2>1. <<k, e>> = IF node[n].right # NoNode THEN <<node[n].right, "down">> ELSE <<n, "up">>
    BY <1>3 DEF Onward
  <2>2. k = (IF node[n].right # NoNode THEN node[n].right ELSE n) /\ e = (IF node[n].right # NoNode THEN "down" ELSE "up")
    BY <2>1
  <2>3. \A m \in Nodes : Ahead(m, n, "right") <=> Ahead(m, k, e)
    BY <1>0, <2>2, RightAhead
  <2> QED BY <1>1, <1>3, <2>2, <2>3 DEF Direction
<1>4. CASE dir = "up"
  <2>0. PICK p : p = node[n].parent
    OBVIOUS
  <2>1. <<k, e>> = <<p, IF p # NoNode /\ node[p].left = n THEN "right" ELSE "up">>
    BY <1>4, <2>0 DEF Onward
  <2>2. k = p /\ e = (IF p # NoNode /\ node[p].left = n THEN "right" ELSE "up")
    BY <2>1
  <2>3. \A m \in Nodes : Ahead(m, n, "up") <=> Ahead(m, k, e)
    BY <1>0, <2>0, <2>2, UpAhead
  <2> QED BY <1>1, <1>4, <2>0, <2>2, <2>3 DEF Direction
<1> QED BY <1>2, <1>3, <1>4 DEF Direction

\* Places of a walk, and how far it is from its end.
Place   == (Nodes \cup {NoNode}) \X Direction
NextAt  == [at \in Place |-> IF at[1] = NoNode THEN at ELSE Onward(at[1], at[2])]
CallsAtPlace == [at \in Place |-> CallsFor(at[1], at[2])]
WalkOn(g) == g = [at \in (Nodes \cup {NoNode}) \X Direction |->
                   IF at[1] = NoNode THEN << >> ELSE CallsFor(at[1], at[2]) \o g[Onward(at[1], at[2])]]
Way(n, dir) == {m \in Nodes : Ahead(m, n, dir)}
Turns(n, dir) == IF dir = "down" THEN 1 ELSE IF dir = "right" THEN 2 * Len(n) + 2 ELSE 2 * Len(n) + 1
Distance == [at \in Place |-> IF at[1] = NoNode THEN 0
                              ELSE Cardinality(Way(at[1], at[2])) * (2 * Width + 4) + Turns(at[1], at[2])]

\* Every turn brings a walk nearer to its end.
LEMMA WalkFalls ==
  ASSUME IInv
  PROVE  /\ NextAt \in [Place -> Place]
         /\ \A at \in Place : NextAt[at] # at <=> at[1] # NoNode
         /\ Falls(Distance, Place, NextAt)
         /\ \E far \in Nat : \A at \in Place : Distance[at] <= far
<1> DEFINE K == 2 * Width + 4
           C(n, dir) == Cardinality(Way(n, dir))
<1>0. Nodes \subseteq Node /\ NoNode \notin Nodes /\ Width \in Nat /\ K \in Nat /\ \A n \in Nodes : Len(n) \in Nat /\ Len(n) <= Width
  BY Standing, Prefixes, RadixAssumption
<1>1. IsFiniteSet(Nodes) /\ Cardinality(Nodes) \in Nat
  BY <1>0, NodeFinite, FS_Subset, FS_CardinalityType
<1>2. \A n, dir : Way(n, dir) \in SUBSET Nodes /\ C(n, dir) \in Nat /\ C(n, dir) <= Cardinality(Nodes)
  <2> SUFFICES ASSUME NEW n, NEW dir
               PROVE  Way(n, dir) \in SUBSET Nodes /\ C(n, dir) \in Nat /\ C(n, dir) <= Cardinality(Nodes)
    OBVIOUS
  <2>1. Way(n, dir) \subseteq Nodes
    BY DEF Way
  <2>2. IsFiniteSet(Way(n, dir)) /\ C(n, dir) <= Cardinality(Nodes)
    BY <1>1, <2>1, FS_Subset
  <2> QED BY <2>1, <2>2, FS_CardinalityType
<1>3. \A n \in Nodes, dir \in Direction : Turns(n, dir) \in Nat /\ Turns(n, dir) < K /\ Turns(n, dir) > 0
  BY <1>0 DEF Turns
<1>4. \A at \in Place : /\ at[1] \in Nodes \cup {NoNode} /\ at[2] \in Direction /\ at = <<at[1], at[2]>>
                        /\ Distance[at] = IF at[1] = NoNode THEN 0 ELSE C(at[1], at[2]) * K + Turns(at[1], at[2])
  BY DEF Place, Distance
<1> HIDE DEF K, C
<1>5. Distance \in [Place -> Nat]
  <2>1. \A n \in Nodes, dir \in Direction : C(n, dir) * K + Turns(n, dir) \in Nat
    BY <1>0, <1>2, <1>3
  <2>2. \A at \in Place : Distance[at] \in Nat
    BY <1>4, <2>1
  <2> QED BY <2>2 DEF Distance
<1>6. \A at \in Place : NextAt[at] = IF at[1] = NoNode THEN at ELSE Onward(at[1], at[2])
  BY DEF NextAt
<1>7. ASSUME NEW at \in Place, at[1] # NoNode
      PROVE  NextAt[at] \in Place /\ Distance[NextAt[at]] < Distance[at]
  <2>1. PICK n, dir : n = at[1] /\ dir = at[2]
    OBVIOUS
  <2>2. n \in Nodes /\ dir \in Direction /\ n \in Node /\ NextAt[at] = Onward(n, dir)
    BY <1>0, <1>4, <1>6, <1>7, <2>1
  <2>3. PICK k, e : Onward(n, dir) = <<k, e>>
    BY DEF Onward
  <2>4. /\ k \in Nodes \cup {NoNode} /\ e \in Direction
        /\ \A m \in Nodes : Ahead(m, k, e) <=> IF dir = "down" THEN Before(n, m) ELSE Ahead(m, n, dir)
        /\ dir = "right" => (k = n /\ e = "up") \/ e = "down"
        /\ dir = "up" => k = NoNode \/ (IsPrefix(k, n) /\ k # n /\ e # "down")
    BY <2>2, <2>3, OnwardIs
  <2>5. NextAt[at] \in Place /\ NextAt[at] = <<k, e>>
    BY <2>2, <2>3, <2>4 DEF Place
  <2>6. Distance[at] = C(n, dir) * K + Turns(n, dir) /\ C(n, dir) \in Nat /\ Turns(n, dir) \in Nat
    BY <1>2, <1>3, <1>4, <1>7, <2>1, <2>2
  <2>7. CASE k = NoNode
    <3>1. Distance[NextAt[at]] = 0
      BY <1>4, <2>5, <2>7
    <3>2. C(n, dir) * K \in Nat /\ Turns(n, dir) > 0
      BY <1>0, <1>3, <2>2, <2>6
    <3> QED BY <2>5, <2>6, <3>1, <3>2
  <2>8. CASE k # NoNode
    <3>1. k \in Nodes /\ Distance[NextAt[at]] = C(k, e) * K + Turns(k, e)
      BY <1>4, <2>4, <2>5, <2>8
    <3>2. C(k, e) \in Nat /\ Turns(k, e) \in Nat /\ Turns(k, e) < K
      BY <1>2, <1>3, <2>4, <3>1
    <3>3. CASE dir = "down"
      <4>1. n \in Way(n, dir) /\ Way(k, e) \subseteq Way(n, dir) /\ \A m \in Way(k, e) : Before(n, m)
        BY <2>2, <2>4, <3>3, DownAhead DEF Way
      <4>2. C(k, e) < C(n, dir)
        BY <1>2, <2>2, <4>1, FewerComing DEF C
      <4>3. C(k, e) * K + Turns(k, e) < C(n, dir) * K + Turns(n, dir)
        BY ONLY <1>0, <2>6, <3>2, <4>2, Lesser
      <4> QED BY <2>5, <2>6, <3>1, <4>3
    <3>4. CASE dir # "down"
      <4>1. Way(k, e) = Way(n, dir)
        BY <2>4, <3>4 DEF Way
      <4>2. Turns(k, e) < Turns(n, dir)
        <5>1. Len(n) \in Nat /\ Len(k) \in Nat
          BY <1>0, <2>2, <3>1
        <5>2. CASE dir = "right"
          BY <2>4, <5>1, <5>2 DEF Turns
        <5>3. CASE dir = "up"
          <6>1. Len(k) < Len(n)
            BY <1>0, <2>2, <2>4, <2>8, <3>1, <5>3, Prefixes
          <6> QED BY <2>4, <2>8, <5>1, <5>3, <6>1 DEF Turns
        <5> QED BY <2>2, <3>4, <5>2, <5>3 DEF Direction
      <4>3. C(k, e) = C(n, dir)
        BY <4>1 DEF C
      <4>4. C(n, dir) * K \in Nat
        BY <1>0, <2>6
      <4> QED BY <2>5, <2>6, <3>1, <3>2, <4>2, <4>3, <4>4
    <3> QED BY <3>3, <3>4
  <2> QED BY <2>5, <2>7, <2>8
<1>8. NextAt \in [Place -> Place]
  BY <1>6, <1>7 DEF NextAt
<1>9. \A at \in Place : NextAt[at] # at <=> at[1] # NoNode
  <2> SUFFICES ASSUME NEW at \in Place PROVE NextAt[at] # at <=> at[1] # NoNode
    OBVIOUS
  <2>1. CASE at[1] = NoNode
    BY <1>6, <2>1
  <2>2. CASE at[1] # NoNode
    <3>1. Distance[NextAt[at]] < Distance[at] /\ Distance[at] \in Nat
      BY <1>5, <1>7, <2>2
    <3> QED BY <2>2, <3>1
  <2> QED BY <2>1, <2>2
<1>10. Falls(Distance, Place, NextAt)
  BY <1>5, <1>7, <1>9 DEF Falls
<1>11. \E far \in Nat : \A at \in Place : Distance[at] <= far
  <2>1. PICK a : a = Cardinality(Nodes)
    OBVIOUS
  <2>2. a \in Nat /\ a + 1 \in Nat
    BY <1>1, <2>1
  <2>3. PICK far : far = (a + 1) * K + 0
    OBVIOUS
  <2>4. far \in Nat
    BY <1>0, <2>2, <2>3
  <2>5. ASSUME NEW at \in Place PROVE Distance[at] <= far
    <3>1. CASE at[1] = NoNode
      BY <1>4, <2>4, <3>1
    <3>2. CASE at[1] # NoNode
      <4>1. PICK c, i : c = C(at[1], at[2]) /\ i = Turns(at[1], at[2])
        OBVIOUS
      <4>2. c \in Nat /\ c < a + 1 /\ i \in Nat /\ i < K /\ Distance[at] = c * K + i
        BY <1>2, <1>3, <1>4, <2>1, <2>2, <3>2, <4>1
      <4>3. c * K + i < (a + 1) * K + 0
        <5>1. 0 \in Nat
          OBVIOUS
        <5> QED BY <1>0, <2>2, <4>2, <5>1, Lesser
      <4>4. c * K + i \in Nat
        BY <1>0, <4>2
      <4> QED BY <2>3, <2>4, <4>2, <4>3, <4>4
    <3> QED BY <3>1, <3>2
  <2> QED BY <2>4, <2>5
<1> QED BY <1>8, <1>9, <1>10, <1>11

\* A walk from n in the direction dir lists the heads that are ahead.
LEMMA WalkFromLists ==
  ASSUME IInv, NEW n \in Nodes \cup {NoNode}, NEW dir \in Direction
  PROVE  Lists(WalkFrom(n, dir), {h \in Heads : Ahead(KeyOf(h), n, dir)}, HeadOrder)
<1> DEFINE Q == [at \in Place |-> {h \in Heads : Ahead(KeyOf(h), at[1], at[2])}]
<1>0. Nodes \subseteq Node /\ NoNode \notin Nodes
  BY Standing
<1>1. /\ NextAt \in [Place -> Place] /\ Falls(Distance, Place, NextAt)
      /\ \A at \in Place : NextAt[at] # at <=> at[1] # NoNode
  BY WalkFalls
<1>2. PICK far \in Nat : \A at \in Place : Distance[at] <= far
  BY WalkFalls
<1>3. \A at \in Place : at[1] # NoNode => NextAt[at] = Onward(at[1], at[2])
  BY DEF NextAt
<1>4. \A at \in Place : /\ CallsAtPlace[at] = CallsFor(at[1], at[2]) /\ at[1] \in Nodes \cup {NoNode}
                        /\ at[2] \in Direction
  BY DEF CallsAtPlace, Place
<1>5. ASSUME NEW e PROVE WalkOn(e) <=> Gathers(e, Place, NextAt, CallsAtPlace)
  <2>1. ASSUME NEW at \in Place
        PROVE  (IF at[1] = NoNode THEN << >> ELSE CallsFor(at[1], at[2]) \o e[Onward(at[1], at[2])]) =
               (IF NextAt[at] # at THEN CallsAtPlace[at] \o e[NextAt[at]] ELSE << >>)
    BY <1>1, <1>3, <1>4
  <2>2. Gathers(e, Place, NextAt, CallsAtPlace) <=>
          e = [at \in Place |-> IF at[1] = NoNode THEN << >> ELSE CallsFor(at[1], at[2]) \o e[Onward(at[1], at[2])]]
    BY <2>1 DEF Gathers
  <2> QED BY <2>2 DEF WalkOn, Place
<1>6. PICK f : Gathers(f, Place, NextAt, CallsAtPlace) /\ WalkFrom(n, dir) = f[<<n, dir>>]
  <2>1. \E f : WalkOn(f)
    <3>1. \E f : Gathers(f, Place, NextAt, CallsAtPlace)
      BY <1>1, <1>2, GathersExists
    <3> QED BY <1>5, <3>1
  <2> DEFINE f == CHOOSE f : WalkOn(f)
  <2>2. WalkOn(f)
    BY <2>1
  <2>3. WalkFrom(n, dir) = f[<<n, dir>>]
    BY DEF WalkFrom, WalkOn
  <2> QED BY <1>5, <2>2, <2>3
<1>7. \A at \in Place : Q[at] = {h \in Heads : Ahead(KeyOf(h), at[1], at[2])}
  OBVIOUS
<1> HIDE DEF Q
<1>8. ASSUME NEW at \in Place
      PROVE  IF NextAt[at] = at THEN Q[at] = {}
             ELSE \E A : /\ Lists(CallsAtPlace[at], A, HeadOrder) /\ Q[at] = A \cup Q[NextAt[at]]
                         /\ \A a \in A, b \in Q[NextAt[at]] : <<a, b>> \in HeadOrder
  <2>1. CASE NextAt[at] = at
    <3>1. at[1] = NoNode
      BY <1>1, <2>1
    <3>2. Q[at] = {}
      BY <1>7, <3>1 DEF Ahead
    <3> QED BY <2>1, <3>2
  <2>2. CASE NextAt[at] # at
    <3>1. PICK m, d : m = at[1] /\ d = at[2]
      OBVIOUS
    <3>2. m \in Nodes /\ d \in Direction /\ NextAt[at] = Onward(m, d) /\ NextAt[at] \in Place
      BY <1>1, <1>3, <1>4, <2>2, <3>1
    <3>3. PICK k, e : Onward(m, d) = <<k, e>>
      BY DEF Onward
    <3>4. \A x \in Nodes : Ahead(x, k, e) <=> IF d = "down" THEN Before(m, x) ELSE Ahead(x, m, d)
      BY <3>2, <3>3, OnwardIs
    <3>5. Q[NextAt[at]] = {h \in Heads : Ahead(KeyOf(h), k, e)}
      <4>1. NextAt[at][1] = k /\ NextAt[at][2] = e
        BY <3>2, <3>3
      <4> QED BY <1>7, <3>2, <4>1
    <3>6. Q[at] = {h \in Heads : Ahead(KeyOf(h), m, d)}
      BY <1>7, <3>1
    <3>7. \A h \in Heads : KeyOf(h) \in Nodes /\ h \in Rth
      BY HeadsAreNodes
    <3>8. CASE d = "down"
      <4> DEFINE A == {h \in Heads : KeyOf(h) = m}
      <4>1. Lists(IF node[m].rth = NoHead THEN << >> ELSE <<node[m].rth>>, A, HeadOrder) /\ A \subseteq Rth
        BY <3>2, ListsHead
      <4>2. CallsAtPlace[at] = IF node[m].rth = NoHead THEN << >> ELSE <<node[m].rth>>
        BY <1>4, <3>1, <3>8 DEF CallsFor
      <4>3. \A x \in Nodes : (Ahead(x, m, "down") <=> x = m \/ Before(m, x)) /\ (Ahead(x, k, e) <=> Before(m, x))
        BY <3>2, <3>4, <3>8, DownAhead
      <4>4. Q[at] = A \cup Q[NextAt[at]]
        BY <3>5, <3>6, <3>7, <3>8, <4>3
      <4>5. ASSUME NEW a \in A, NEW b \in Q[NextAt[at]] PROVE <<a, b>> \in HeadOrder
        <5>1. b \in Heads /\ Ahead(KeyOf(b), k, e)
          BY <3>5
        <5>2. Before(KeyOf(a), KeyOf(b)) /\ a \in Rth /\ b \in Rth
          BY <3>7, <4>3, <5>1
        <5> QED BY <5>2 DEF HeadOrder
      <4> QED BY <2>2, <4>1, <4>2, <4>4, <4>5
    <3>9. CASE d # "down"
      <4>1. CallsAtPlace[at] = << >>
        BY <1>4, <3>1, <3>9 DEF CallsFor
      <4>2. Q[at] = {} \cup Q[NextAt[at]]
        BY <3>4, <3>5, <3>6, <3>7, <3>9
      <4>3. Lists(CallsAtPlace[at], {}, HeadOrder)
        BY <4>1, ListsNone
      <4> QED BY <2>2, <4>2, <4>3
    <3> QED BY <3>8, <3>9
  <2> QED BY <2>1, <2>2
<1>9. AddsUp(Q, Place, NextAt, CallsAtPlace, HeadOrder)
  BY <1>8 DEF AddsUp
<1>10. \A at \in Place : Lists(f[at], Q[at], HeadOrder)
  BY <1>1, <1>6, <1>9, GathersLists
<1>11. <<n, dir>> \in Place /\ Q[<<n, dir>>] = {h \in Heads : Ahead(KeyOf(h), n, dir)}
  BY <1>7 DEF Place
<1> QED BY <1>6, <1>10, <1>11

\* While no removal is postponed, in callbacks too, what follows the order of
\* the tree in std_radix.c follows that of the prefixes: the next head after a
\* prefix that is there, the heads of a subtree, in order, and std_radix_walk from
\* the first head.  (The next after a prefix that is not there and a walk from
\* another head are not what std_radix.h says of them.)
THEOREM OrderIsRight == Spec => [](NoneMarked => FollowsTheOrder)
<1>1. ASSUME IInv, NoneMarked PROVE FollowsTheOrder
  <2>0. /\ Nodes \subseteq Node /\ NoNode \notin Nodes /\ Linked(node, root)
        /\ root \in Nodes \cup {NoNode} /\ (root = NoNode => Heads = {})
        /\ "right" \in Direction /\ "down" \in Direction
    BY <1>1, Standing DEF Direction
  <2>h. \A h \in Heads : KeyOf(h) \in Nodes
    BY <1>1, HeadsAreNodes
  <2>1. ASSUME NEW addr \in Address, NEW len \in 0 .. Width
        PROVE  /\ GetExact(addr, len) # NoHead => NextIs(addr, len)
               /\ InOrder(PowerWalk(GetSubtree(addr, len)), Extending(SubSeq(addr, 1, len)))
    <3>1. GetExact(addr, len) # NoHead => NextIs(addr, len)
      BY <1>1, NextOfExact
    <3>2. PICK p, t : p = SubSeq(addr, 1, len) /\ t = GetSubtree(addr, len)
      OBVIOUS
    <3>3. /\ Extending(p) = {} => t = NoNode
          /\ Extending(p) # {} => t \in Nodes /\ \A h \in Heads : IsPrefix(p, KeyOf(h)) <=> IsPrefix(t, KeyOf(h))
      BY <1>1, <3>2, SubtreeIs
    <3>4. Lists(PowerWalk(t), Extending(p), HeadOrder)
      <4>1. CASE Extending(p) = {}
        <5>1. PowerWalk(t) = << >>
          BY <3>3, <4>1 DEF PowerWalk
        <5> QED BY <4>1, <5>1, ListsNone
      <4>2. CASE Extending(p) # {}
        <5>1. Extending(p) = {h \in Heads : IsPrefix(t, KeyOf(h))}
          BY <3>3, <4>2 DEF Extending
        <5>2. Lists(PowerWalk(t), {h \in Heads : IsPrefix(t, KeyOf(h))}, HeadOrder)
          BY <1>1, <3>3, <4>2, PowerWalkLists
        <5> QED BY <5>1, <5>2
      <4> QED BY <4>1, <4>2
    <3> QED BY <3>1, <3>2, <3>4, ListsInOrder
  <2>2. InOrder(WalkFrom(root, "down"), Heads)
    <3>1. Lists(WalkFrom(root, "down"), {h \in Heads : Ahead(KeyOf(h), root, "down")}, HeadOrder)
      BY <1>1, <2>0, WalkFromLists
    <3>2. \A h \in Heads : Ahead(KeyOf(h), root, "down")
      <4> SUFFICES ASSUME NEW h \in Heads PROVE Ahead(KeyOf(h), root, "down")
        OBVIOUS
      <4>1. root # NoNode /\ KeyOf(h) \in DOMAIN node
        BY <2>0, <2>h DEF Nodes
      <4>2. IsPrefix(root, KeyOf(h))
        BY <2>0, <4>1 DEF Linked, RootIs
      <4> QED BY <4>1, <4>2 DEF Ahead
    <3>3. {h \in Heads : Ahead(KeyOf(h), root, "down")} = Heads
      BY <3>2
    <3> QED BY <3>1, <3>3, ListsInOrder
  <2> QED BY <2>1, <2>2 DEF FollowsTheOrder
<1> QED BY <1>1, IInvHolds, PTL

\* So the look-ups of std_radix.c by prefix, and those that follow the order, with
\* the two exceptions of FollowsTheOrder, return what the set of its heads says.
THEOREM RadixLookupsAreRight == Spec => []LookupsAgree
<1>1. PrefixesAgree /\ (NoneMarked => FollowsTheOrder) => LookupsAgree
  BY DEF LookupsAgree, OrderAgrees
<1> QED BY <1>1, PrefixLookupsAreRight, OrderIsRight, PTL
=============================================================================
