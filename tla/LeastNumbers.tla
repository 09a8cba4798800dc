---------------------------- MODULE LeastNumbers ----------------------------
(***************************************************************************)
(* Numbers, induction over them, for sets of numbers, and lists of sets:   *)
(* what the proofs about recursive functions use.                          *)
(***************************************************************************)
EXTENDS WellFoundedInduction, Sequences, FiniteSetTheorems, TLAPS

\* A set of numbers that is not empty has a least one.
LEMMA LeastNumber ==
  ASSUME NEW S \in SUBSET Nat, S # {}
  PROVE  \E m \in S : \A n \in S : m <= n
<1> DEFINE R == OpToRel(<, Nat)
<1>1. IsWellFoundedOn(R, Nat)
  BY NatLessThanWellFounded
<1>2. \A x, y \in Nat : <<x, y>> \in R <=> x < y
  BY DEF OpToRel
<1> HIDE DEF R
<1>3. PICK x \in S : \A y \in S : ~ (<<y, x>> \in R)
  BY <1>1, WFMin
<1>4. \A n \in S : ~(n < x)
  BY <1>2, <1>3
<1>5. x \in Nat /\ S \subseteq Nat
  OBVIOUS
<1>6. ASSUME NEW n \in S PROVE x <= n
  <2>1. n \in Nat /\ x \in Nat /\ ~(n < x)
    BY <1>4, <1>5
  <2> QED BY ONLY <2>1
<1> QED BY <1>6

\* What holds for 0 and with each number for the next holds for all.
LEMMA Induction ==
  ASSUME NEW Good, 0 \in Good, \A n \in Nat : n \in Good => n + 1 \in Good
  PROVE  Nat \subseteq Good
<1> DEFINE Bad == Nat \ Good
<1> SUFFICES ASSUME Bad # {} PROVE FALSE
  OBVIOUS
<1>1. Bad \in SUBSET Nat
  OBVIOUS
<1>2. PICK m \in Bad : \A n \in Bad : m <= n
  <2> HIDE DEF Bad
  <2> QED BY <1>1, LeastNumber
<1>3. m \in Nat /\ m \notin Good /\ m # 0
  OBVIOUS
<1>4. m - 1 \in Nat /\ ~(m <= m - 1) /\ m - 1 + 1 = m
  BY ONLY <1>3
<1>5. m - 1 \in Good
  BY <1>2, <1>4
<1> QED BY <1>3, <1>4, <1>5

\* A set without one of the members of another has fewer.
LEMMA Fewer ==
  ASSUME NEW S, NEW T, IsFiniteSet(T), S \subseteq T, NEW x, x \in T, x \notin S
  PROVE  IsFiniteSet(S) /\ Cardinality(S) \in Nat /\ Cardinality(T) \in Nat /\ Cardinality(S) < Cardinality(T)
<1>1. IsFiniteSet(S) /\ Cardinality(S) \in Nat /\ Cardinality(T) \in Nat /\ Cardinality(S) <= Cardinality(T)
  BY FS_Subset, FS_CardinalityType
<1>2. Cardinality(S) # Cardinality(T)
  BY FS_Subset
<1> QED BY <1>1, <1>2

\* A number with a smaller part before it is smaller, whatever follows.
LEMMA Lesser ==
  ASSUME NEW K \in Nat, NEW a \in Nat, NEW b \in Nat, a < b, NEW i \in Nat, i < K, NEW j \in Nat
  PROVE  a * K + i < b * K + j
<1>1. PICK d \in Nat : b = a + 1 + d
  <2>1. b - a - 1 \in Nat /\ b = a + 1 + (b - a - 1)
    OBVIOUS
  <2> QED BY <2>1
<1>2. b * K = a * K + K + d * K
  BY <1>1
<1>3. a * K \in Nat /\ d * K \in Nat /\ b * K \in Nat
  OBVIOUS
<1> QED BY <1>2, <1>3

\* A function that follows nxt as far as it leads.
Follows(f, D, nxt) == f = [n \in D |-> IF nxt[n] # n THEN f[nxt[n]] ELSE n]
Falls(mu, D, nxt)  == mu \in [D -> Nat] /\ \A n \in D : nxt[n] # n => mu[nxt[n]] < mu[n]
StaysIn(S, D, nxt) == S \in SUBSET D /\ \A m \in S : nxt[m] \in S

LEMMA FollowExists ==
  ASSUME NEW D, NEW nxt \in [D -> D]
  PROVE  \E f : Follows(f, D, nxt)
<1> DEFINE Closed(S) == \A m \in S : nxt[m] \in S
           Ends(n, e) == nxt[e] = e /\ \A S \in SUBSET D : n \in S /\ Closed(S) => e \in S
           f == [n \in D |-> CHOOSE e \in D : Ends(n, e)]
<1>1. ASSUME NEW n \in D, nxt[n] # n PROVE \A e \in D : Ends(n, e) <=> Ends(nxt[n], e)
  <2>1. ASSUME NEW e \in D, Ends(nxt[n], e) PROVE Ends(n, e)
    BY <2>1
  <2>2. ASSUME NEW e \in D, Ends(n, e) PROVE Ends(nxt[n], e)
    <3>1. ASSUME NEW S \in SUBSET D, nxt[n] \in S, Closed(S) PROVE e \in S
      <4>1. S \cup {n} \in SUBSET D /\ n \in S \cup {n} /\ Closed(S \cup {n})
        BY <3>1
      <4>2. e \in S \cup {n}
        BY <2>2, <4>1
      <4> QED BY <1>1, <2>2, <4>2
    <3> QED BY <2>2, <3>1
  <2> QED BY <2>1, <2>2
<1>2. ASSUME NEW n \in D, nxt[n] # n PROVE f[n] = f[nxt[n]]
  <2>1. nxt[n] \in D /\ \A e \in D : Ends(n, e) <=> Ends(nxt[n], e)
    BY <1>1, <1>2
  <2> HIDE DEF Ends
  <2> QED BY <2>1
<1>3. ASSUME NEW n \in D, nxt[n] = n PROVE f[n] = n
  <2>1. Ends(n, n)
    BY <1>3
  <2>2. ASSUME NEW e \in D, Ends(n, e) PROVE e = n
    <3>1. {n} \in SUBSET D /\ n \in {n} /\ Closed({n})
      BY <1>3
    <3> QED BY <2>2, <3>1
  <2> HIDE DEF Ends
  <2> QED BY <2>1, <2>2
<1>4. f = [n \in D |-> IF nxt[n] # n THEN f[nxt[n]] ELSE n]
  <2>1. f = [n \in D |-> f[n]]
    OBVIOUS
  <2> HIDE DEF f
  <2>2. \A n \in D : f[n] = IF nxt[n] # n THEN f[nxt[n]] ELSE n
    BY <1>2, <1>3
  <2> QED BY <2>1, <2>2
<1> HIDE DEF f
<1> QED BY <1>4 DEF Follows

\* A function that follows nxt and returns what end says of where it leads.
Leads(g, D, nxt, end) == g = [n \in D |-> IF nxt[n] # n THEN g[nxt[n]] ELSE end[n]]

LEMMA LeadsExists ==
  ASSUME NEW D, NEW nxt \in [D -> D], NEW end
  PROVE  \E g : Leads(g, D, nxt, end)
<1>1. PICK f : Follows(f, D, nxt)
  BY FollowExists
<1> DEFINE g == [n \in D |-> end[f[n]]]
<1>2. \A n \in D : nxt[n] \in D /\ f[n] = IF nxt[n] # n THEN f[nxt[n]] ELSE n
  BY <1>1 DEF Follows
<1>3. \A n \in D : g[n] = IF nxt[n] # n THEN g[nxt[n]] ELSE end[n]
  BY <1>2
<1>4. g = [n \in D |-> g[n]]
  OBVIOUS
<1> HIDE DEF g
<1>5. g = [n \in D |-> IF nxt[n] # n THEN g[nxt[n]] ELSE end[n]]
  BY <1>3, <1>4
<1> QED BY <1>5 DEF Leads

LEMMA LeadsEnds ==
  ASSUME NEW D, NEW nxt, nxt \in [D -> D], NEW mu, Falls(mu, D, nxt), NEW end, NEW g, Leads(g, D, nxt, end),
         NEW S, StaysIn(S, D, nxt), NEW n, n \in S
  PROVE  \E e \in S : nxt[e] = e /\ g[n] = end[e]
<1> USE DEF Falls, StaysIn
<1> DEFINE Fine(m) == \E e \in S : nxt[e] = e /\ g[m] = end[e]
           Bad     == {m \in S : ~Fine(m)}
           B       == {mu[m] : m \in Bad}
<1> SUFFICES ASSUME Bad # {} PROVE FALSE
  OBVIOUS
<1>1. B \in SUBSET Nat /\ B # {}
  OBVIOUS
<1>2. PICK k \in B : \A j \in B : k <= j
  <2> HIDE DEF B
  <2> QED BY <1>1, LeastNumber
<1>3. PICK m \in Bad : k = mu[m]
  OBVIOUS
<1>4. m \in S /\ m \in D /\ nxt[m] \in S /\ ~Fine(m)
  OBVIOUS
<1>5. g[m] = IF nxt[m] # m THEN g[nxt[m]] ELSE end[m]
  BY <1>4 DEF Leads
<1>6. nxt[m] # m
  BY <1>4, <1>5
<1>7. mu[nxt[m]] < mu[m] /\ mu[m] \in Nat /\ mu[nxt[m]] \in Nat
  BY <1>4, <1>6
<1>8. Fine(nxt[m])
  <2>1. ASSUME ~Fine(nxt[m]) PROVE FALSE
    <3>1. mu[nxt[m]] \in B
      BY <1>4, <2>1
    <3>2. k <= mu[nxt[m]]
      BY <1>2, <3>1
    <3> QED BY ONLY <1>3, <1>7, <3>2
  <2> QED BY <2>1
<1>9. Fine(m)
  BY <1>5, <1>6, <1>8
<1> QED BY <1>4, <1>9

\* Where nxt falls, it leads to its end, and through no other members of
\* D than those of a set it does not leave.
LEMMA FollowEnds ==
  ASSUME NEW D, NEW nxt, nxt \in [D -> D], NEW mu, Falls(mu, D, nxt), NEW f, Follows(f, D, nxt),
         NEW S, StaysIn(S, D, nxt), NEW n, n \in S
  PROVE  f[n] \in S /\ nxt[f[n]] = f[n]
<1> DEFINE end == [m \in D |-> m]
<1>1. \A m \in D : nxt[m] = m => end[m] = m
  OBVIOUS
<1>2. Leads(f, D, nxt, end)
  <2>1. [m \in D |-> IF nxt[m] # m THEN f[nxt[m]] ELSE m] = [m \in D |-> IF nxt[m] # m THEN f[nxt[m]] ELSE end[m]]
    OBVIOUS
  <2> QED BY <2>1 DEF Follows, Leads
<1>3. S \subseteq D
  BY DEF StaysIn
<1> HIDE DEF end
<1>4. PICK e \in S : nxt[e] = e /\ f[n] = end[e]
  BY <1>2, LeadsEnds
<1> QED BY <1>1, <1>3, <1>4

\* What holds at the ends of nxt, and where it holds next, holds everywhere.
LEMMA FallsInduction ==
  ASSUME NEW D, NEW nxt, nxt \in [D -> D], NEW mu, Falls(mu, D, nxt), NEW Good,
         \A x \in D : (nxt[x] # x => nxt[x] \in Good) => x \in Good
  PROVE  D \subseteq Good
<1> DEFINE Bad == {x \in D : x \notin Good}
           B   == {mu[x] : x \in Bad}
<1> SUFFICES ASSUME Bad # {} PROVE FALSE
  OBVIOUS
<1>1. B \in SUBSET Nat /\ B # {}
  BY DEF Falls
<1>2. PICK k \in B : \A j \in B : k <= j
  <2> HIDE DEF B
  <2> QED BY <1>1, LeastNumber
<1>3. PICK x \in Bad : k = mu[x]
  OBVIOUS
<1>4. nxt[x] # x /\ nxt[x] \in D /\ nxt[x] \notin Good
  BY <1>3
<1>5. mu[nxt[x]] < mu[x] /\ mu[nxt[x]] \in Nat /\ mu[x] \in Nat
  BY <1>3, <1>4 DEF Falls
<1>6. k <= mu[nxt[x]]
  <2>1. mu[nxt[x]] \in B
    BY <1>4
  <2> HIDE DEF B
  <2> QED BY <1>2, <2>1
<1> QED BY ONLY <1>3, <1>5, <1>6

\* A function that puts together what pre says on the way that nxt leads.
Gathers(f, D, nxt, pre) == f = [x \in D |-> IF nxt[x] # x THEN pre[x] \o f[nxt[x]] ELSE << >>]

LEMMA GathersExists ==
  ASSUME NEW D, NEW nxt, nxt \in [D -> D], NEW mu, Falls(mu, D, nxt), NEW pre,
         NEW top \in Nat, \A x \in D : mu[x] <= top
  PROVE  \E f : Gathers(f, D, nxt, pre)
<1> DEFINE Low(k) == {x \in D : mu[x] < k}
           One(f, x) == IF nxt[x] # x THEN pre[x] \o f[nxt[x]] ELSE << >>
           Eq(f, k) == \A x \in Low(k) : f[x] = One(f, x)
           Good == {k \in Nat : \E f : Eq(f, k)}
<1>1. \A x \in D : mu[x] \in Nat /\ nxt[x] \in D
  BY DEF Falls
<1>2. 0 \in Good
  <2>1. Low(0) = {}
    BY <1>1
  <2> HIDE DEF Low
  <2> QED BY <2>1
<1>3. ASSUME NEW k \in Nat, k \in Good PROVE k + 1 \in Good
  <2>1. PICK f : Eq(f, k)
    BY <1>3
  <2> DEFINE g == [x \in D |-> One(f, x)]
  <2>2. \A x \in D : g[x] = One(f, x)
    OBVIOUS
  <2>3. \A x \in Low(k) : g[x] = f[x]
    BY <2>1
  <2> HIDE DEF g
  <2>4. ASSUME NEW x \in Low(k + 1) PROVE g[x] = One(g, x)
    <3>1. x \in D /\ mu[x] < k + 1 /\ g[x] = One(f, x)
      BY <2>2
    <3>2. CASE nxt[x] = x
      BY <3>1, <3>2
    <3>3. CASE nxt[x] # x
      <4>1. mu[nxt[x]] < mu[x]
        BY <3>1, <3>3 DEF Falls
      <4>2. nxt[x] \in Low(k)
        BY <1>1, <3>1, <4>1
      <4> QED BY <2>3, <3>1, <4>2
    <3> QED BY <3>2, <3>3
  <2> QED BY <2>4
<1>4. top + 1 \in Good
  <2>1. Nat \subseteq Good
    <3> HIDE DEF Good
    <3> QED BY <1>2, <1>3, Induction
  <2> HIDE DEF Good
  <2> QED BY <2>1
<1>5. PICK f : Eq(f, top + 1)
  BY <1>4
<1>6. \A x \in D : f[x] = One(f, x)
  <2>1. \A x \in D : mu[x] < top + 1
    BY <1>1
  <2> QED BY <1>5, <2>1
<1> DEFINE g == [x \in D |-> f[x]]
<1>7. g = [x \in D |-> One(g, x)]
  <2>1. \A x \in D : g[x] = f[x]
    OBVIOUS
  <2>2. \A x \in D : f[x] = One(g, x)
    BY <1>1, <1>6, <2>1
  <2> HIDE DEF One
  <2> QED BY <2>2
<1> QED BY <1>7 DEF Gathers

\* A function that puts a member of D between what it says of two lower ones.
Spreads(f, D, e, l, r) == f = [x \in D |-> IF x = e THEN << >> ELSE f[l[x]] \o <<x>> \o f[r[x]]]

LEMMA SpreadsExists ==
  ASSUME NEW D, NEW e, NEW l, l \in [D -> D], NEW r, r \in [D -> D], NEW mu, mu \in [D -> Nat],
         \A x \in D : x # e => mu[l[x]] < mu[x] /\ mu[r[x]] < mu[x],
         NEW top \in Nat, \A x \in D : mu[x] <= top
  PROVE  \E f : Spreads(f, D, e, l, r)
<1> DEFINE Low(k) == {x \in D : mu[x] < k}
           One(f, x) == IF x = e THEN << >> ELSE f[l[x]] \o <<x>> \o f[r[x]]
           Eq(f, k) == \A x \in Low(k) : f[x] = One(f, x)
           Good == {k \in Nat : \E f : Eq(f, k)}
<1>1. \A x \in D : mu[x] \in Nat /\ l[x] \in D /\ r[x] \in D
  OBVIOUS
<1>2. 0 \in Good
  <2>1. Low(0) = {}
    BY <1>1
  <2> HIDE DEF Low
  <2> QED BY <2>1
<1>3. ASSUME NEW k \in Nat, k \in Good PROVE k + 1 \in Good
  <2>1. PICK f : Eq(f, k)
    BY <1>3
  <2> DEFINE g == [x \in D |-> One(f, x)]
  <2>2. \A x \in D : g[x] = One(f, x)
    OBVIOUS
  <2>3. \A x \in Low(k) : g[x] = f[x]
    BY <2>1
  <2> HIDE DEF g
  <2>4. ASSUME NEW x \in Low(k + 1) PROVE g[x] = One(g, x)
    <3>1. x \in D /\ mu[x] < k + 1 /\ g[x] = One(f, x)
      BY <2>2
    <3>2. CASE x = e
      BY <3>1, <3>2
    <3>3. CASE x # e
      <4>1. mu[l[x]] < mu[x] /\ mu[r[x]] < mu[x]
        BY <3>1, <3>3
      <4>2. mu[x] \in Nat /\ mu[l[x]] \in Nat /\ mu[r[x]] \in Nat /\ l[x] \in D /\ r[x] \in D
        BY <1>1, <3>1
      <4>3. mu[l[x]] < k /\ mu[r[x]] < k
        BY <3>1, <4>1, <4>2
      <4>4. l[x] \in Low(k) /\ r[x] \in Low(k)
        BY <4>2, <4>3
      <4>5. g[l[x]] = f[l[x]] /\ g[r[x]] = f[r[x]]
        BY <2>3, <4>4
      <4> QED BY <3>1, <3>3, <4>5
    <3> QED BY <3>2, <3>3
  <2> QED BY <2>4
<1>4. top + 1 \in Good
  <2>1. Nat \subseteq Good
    <3> HIDE DEF Good
    <3> QED BY <1>2, <1>3, Induction
  <2> HIDE DEF Good
  <2> QED BY <2>1
<1>5. PICK f : Eq(f, top + 1)
  BY <1>4
<1>6. \A x \in D : f[x] = One(f, x)
  <2>1. \A x \in D : mu[x] < top + 1
    BY <1>1
  <2> QED BY <1>5, <2>1
<1> DEFINE g == [x \in D |-> f[x]]
<1>7. g = [x \in D |-> One(g, x)]
  <2>1. \A x \in D : g[x] = f[x]
    OBVIOUS
  <2>2. \A x \in D : f[x] = One(g, x)
    BY <1>1, <1>6, <2>1
  <2> HIDE DEF One
  <2> QED BY <2>2
<1> QED BY <1>7 DEF Spreads
----------------------------------------------------------------------------
(* Lists.                                                                  *)

\* s goes through Q once, and who is later in it is so in L.
Lists(s, Q, L) ==
  /\ s \in Seq(Q) /\ {s[i] : i \in 1 .. Len(s)} = Q
  /\ \A i, j \in 1 .. Len(s) : i < j => <<s[i], s[j]>> \in L

LEMMA ListsNone ==
  ASSUME NEW L
  PROVE  Lists(<< >>, {}, L)
BY DEF Lists

LEMMA ListsOne ==
  ASSUME NEW L, NEW n
  PROVE  Lists(<<n>>, {n}, L)
<1>1. <<n>> \in Seq({n}) /\ Len(<<n>>) = 1 /\ <<n>>[1] = n
  OBVIOUS
<1>2. \A i \in 1 .. 1 : i = 1
  OBVIOUS
<1> QED BY <1>1, <1>2 DEF Lists

LEMMA ListsJoin ==
  ASSUME NEW L, NEW Q, NEW R, NEW s, NEW t, Lists(s, Q, L), Lists(t, R, L),
         \A a \in Q, b \in R : <<a, b>> \in L
  PROVE  Lists(s \o t, Q \cup R, L)
<1> DEFINE u == s \o t
<1>1. s \in Seq(Q \cup R) /\ t \in Seq(Q \cup R) /\ Len(s) \in Nat /\ Len(t) \in Nat
  BY DEF Lists
<1>2. /\ u \in Seq(Q \cup R) /\ Len(u) = Len(s) + Len(t)
      /\ \A i \in 1 .. Len(u) : u[i] = IF i <= Len(s) THEN s[i] ELSE t[i - Len(s)]
  BY <1>1
<1> HIDE DEF u
<1>3. /\ \A i \in 1 .. Len(s) : i \in 1 .. Len(u) /\ u[i] = s[i]
      /\ \A i \in 1 .. Len(t) : i + Len(s) \in 1 .. Len(u) /\ u[i + Len(s)] = t[i]
      /\ \A i \in 1 .. Len(u) : i \in 1 .. Len(s) \/ i - Len(s) \in 1 .. Len(t)
  <2>1. ASSUME NEW i \in 1 .. Len(s) PROVE i \in 1 .. Len(u) /\ u[i] = s[i]
    BY <1>1, <1>2
  <2>2. ASSUME NEW i \in 1 .. Len(t) PROVE i + Len(s) \in 1 .. Len(u) /\ u[i + Len(s)] = t[i]
    <3>1. i + Len(s) \in 1 .. Len(u) /\ ~(i + Len(s) <= Len(s)) /\ i + Len(s) - Len(s) = i
      BY <1>1, <1>2
    <3> QED BY <1>2, <3>1
  <2>3. ASSUME NEW i \in 1 .. Len(u) PROVE i \in 1 .. Len(s) \/ i - Len(s) \in 1 .. Len(t)
    BY <1>1, <1>2
  <2> QED BY <2>1, <2>2, <2>3
<1>4. {u[i] : i \in 1 .. Len(u)} = Q \cup R
  <2>1. \A i \in 1 .. Len(u) : u[i] \in Q \cup R
    BY <1>2
  <2>2. ASSUME NEW a \in Q PROVE \E i \in 1 .. Len(u) : u[i] = a
    <3>1. PICK i \in 1 .. Len(s) : s[i] = a
      BY DEF Lists
    <3> QED BY <1>3, <3>1
  <2>3. ASSUME NEW a \in R PROVE \E i \in 1 .. Len(u) : u[i] = a
    <3>1. PICK i \in 1 .. Len(t) : t[i] = a
      BY DEF Lists
    <3> QED BY <1>3, <3>1
  <2> QED BY <2>1, <2>2, <2>3
<1>5. ASSUME NEW i \in 1 .. Len(u), NEW j \in 1 .. Len(u), i < j PROVE <<u[i], u[j]>> \in L
  <2>1. \A k \in 1 .. Len(s) : s[k] \in Q
    BY DEF Lists
  <2>2. \A k \in 1 .. Len(t) : t[k] \in R
    BY DEF Lists
  <2>3. CASE i <= Len(s) /\ j <= Len(s)
    <3>1. i \in 1 .. Len(s) /\ j \in 1 .. Len(s) /\ u[i] = s[i] /\ u[j] = s[j]
      BY <1>1, <1>2, <2>3
    <3> QED BY <1>5, <3>1 DEF Lists
  <2>4. CASE i <= Len(s) /\ j > Len(s)
    <3>1. i \in 1 .. Len(s) /\ j - Len(s) \in 1 .. Len(t) /\ u[i] = s[i] /\ u[j] = t[j - Len(s)]
      BY <1>1, <1>2, <2>4
    <3> QED BY <2>1, <2>2, <3>1
  <2>5. CASE i > Len(s)
    <3>1. /\ i - Len(s) \in 1 .. Len(t) /\ j - Len(s) \in 1 .. Len(t) /\ i - Len(s) < j - Len(s)
          /\ u[i] = t[i - Len(s)] /\ u[j] = t[j - Len(s)]
      BY <1>1, <1>2, <1>5, <2>5
    <3> QED BY <3>1 DEF Lists
  <2> QED BY <1>1, <2>3, <2>4, <2>5
<1>6. Lists(u, Q \cup R, L)
  BY <1>2, <1>4, <1>5 DEF Lists
<1> QED BY <1>6 DEF u

\* No two are each later than the other.
OneWay(L) == \A a, b : ~(<<a, b>> \in L /\ <<b, a>> \in L)

LEMMA ListsInject ==
  ASSUME NEW L, \A a : <<a, a>> \notin L, NEW Q, NEW s, Lists(s, Q, L)
  PROVE  \A i, j \in 1 .. Len(s) : s[i] = s[j] => i = j
<1> SUFFICES ASSUME NEW i \in 1 .. Len(s), NEW j \in 1 .. Len(s), s[i] = s[j], i # j PROVE FALSE
  OBVIOUS
<1>1. i < j \/ j < i
  OBVIOUS
<1>2. <<s[i], s[i]>> \in L
  BY <1>1 DEF Lists
<1> QED BY <1>2

LEMMA ListsAgree ==
  ASSUME NEW L, OneWay(L), NEW Q, NEW s, NEW t, Lists(s, Q, L), Lists(t, Q, L)
  PROVE  \A i \in 1 .. Len(s) : i \in 1 .. Len(t) /\ s[i] = t[i]
<1> DEFINE B == {i \in 1 .. Len(s) : ~(i \in 1 .. Len(t) /\ s[i] = t[i])}
<1> SUFFICES ASSUME B # {} PROVE FALSE
  OBVIOUS
<1>1. Len(s) \in Nat /\ Len(t) \in Nat
  <2>1. s \in Seq(Q) /\ t \in Seq(Q)
    BY DEF Lists
  <2> QED BY <2>1
<1>2. PICK m \in B : \A j \in B : m <= j
  <2>1. B \in SUBSET Nat
    OBVIOUS
  <2> HIDE DEF B
  <2> QED BY <2>1, LeastNumber
<1>3. m \in 1 .. Len(s) /\ ~(m \in 1 .. Len(t) /\ s[m] = t[m])
  BY <1>2
<1>4. \A i \in 1 .. Len(s) : i < m => i \in 1 .. Len(t) /\ s[i] = t[i]
  <2> SUFFICES ASSUME NEW i \in 1 .. Len(s), i < m, i \in B PROVE FALSE
    OBVIOUS
  <2>1. m <= i
    BY <1>2
  <2> QED BY <1>3, <2>1
<1>5. PICK j \in 1 .. Len(t) : t[j] = s[m]
  BY <1>3 DEF Lists
<1>6. ~(j < m)
  <2> SUFFICES ASSUME j < m PROVE FALSE
    OBVIOUS
  <2>1. j \in 1 .. Len(s)
    BY <1>1, <1>3
  <2>2. s[j] = s[m]
    BY <1>4, <1>5, <2>1
  <2> QED BY <1>3, <2>1, <2>2, ListsInject DEF OneWay
<1>7. m < j /\ m \in 1 .. Len(t)
  BY <1>1, <1>3, <1>5, <1>6
<1>8. PICK i \in 1 .. Len(s) : s[i] = t[m]
  BY <1>7 DEF Lists
<1>9. ~(i < m)
  <2> SUFFICES ASSUME i < m PROVE FALSE
    OBVIOUS
  <2>1. i \in 1 .. Len(t) /\ t[i] = t[m]
    BY <1>4, <1>8
  <2> QED BY <1>7, <2>1, ListsInject DEF OneWay
<1>10. m < i
  BY <1>3, <1>7, <1>8, <1>9
<1>11. <<s[m], s[i]>> \in L
  BY <1>3, <1>10 DEF Lists
<1>12. <<t[m], t[j]>> \in L
  BY <1>7 DEF Lists
<1> QED BY <1>5, <1>8, <1>11, <1>12 DEF OneWay

\* There is one way to list a set.
LEMMA ListsUnique ==
  ASSUME NEW L, OneWay(L), NEW Q, NEW s, NEW t, Lists(s, Q, L), Lists(t, Q, L)
  PROVE  s = t
<1>1. \A i \in 1 .. Len(s) : i \in 1 .. Len(t) /\ s[i] = t[i]
  BY ListsAgree
<1>2. \A i \in 1 .. Len(t) : i \in 1 .. Len(s) /\ t[i] = s[i]
  BY ListsAgree
<1>3. s \in Seq(Q) /\ t \in Seq(Q) /\ Len(s) \in Nat /\ Len(t) \in Nat
  BY DEF Lists
<1>4. Len(s) = Len(t)
  <2>1. Len(s) > 0 => Len(s) \in 1 .. Len(t)
    BY <1>1, <1>3
  <2>2. Len(t) > 0 => Len(t) \in 1 .. Len(s)
    BY <1>2, <1>3
  <2> QED BY <1>3, <2>1, <2>2
<1> QED BY <1>1, <1>3, <1>4

\* What is behind a place in a list is listed by the rest of it.
LEMMA ListsRest ==
  ASSUME NEW L, OneWay(L), NEW Q, NEW s, Lists(s, Q, L), NEW i \in 1 .. Len(s)
  PROVE  Lists(SubSeq(s, i + 1, Len(s)), {b \in Q : <<s[i], b>> \in L}, L)
<1> DEFINE u == SubSeq(s, i + 1, Len(s))
           R == {b \in Q : <<s[i], b>> \in L}
<1>1. s \in Seq(Q) /\ Len(s) \in Nat /\ i \in Nat
  BY DEF Lists
<1>2. Len(u) = Len(s) - i /\ \A k \in 1 .. Len(s) - i : u[k] = s[k + i]
  BY <1>1
<1>3. u \in Seq(Q) /\ Len(u) \in Nat
  BY <1>1
<1> HIDE DEF u
<1>4. \A k \in 1 .. Len(u) : k + i \in 1 .. Len(s) /\ i < k + i /\ u[k] = s[k + i]
  BY <1>1, <1>2
<1>5. \A k \in 1 .. Len(u) : u[k] \in R
  BY <1>3, <1>4 DEF Lists
<1>6. ASSUME NEW b \in R PROVE \E k \in 1 .. Len(u) : u[k] = b
  <2>1. PICK j \in 1 .. Len(s) : s[j] = b
    BY DEF Lists
  <2>2. i < j
    <3> SUFFICES ASSUME ~(i < j) PROVE FALSE
      OBVIOUS
    <3>1. i = j \/ j < i
      OBVIOUS
    <3>2. <<s[j], s[i]>> \in L
      BY <2>1, <3>1 DEF Lists
    <3> QED BY <2>1, <3>2 DEF OneWay
  <2>3. j - i \in 1 .. Len(u) /\ j - i + i = j
    BY <1>1, <1>2, <2>2
  <2>4. u[j - i] = s[j]
    BY <1>4, <2>3
  <2> QED BY <2>1, <2>3, <2>4
<1>7. \A k, j \in 1 .. Len(u) : k < j => <<u[k], u[j]>> \in L
  <2> SUFFICES ASSUME NEW k \in 1 .. Len(u), NEW j \in 1 .. Len(u), k < j PROVE <<u[k], u[j]>> \in L
    OBVIOUS
  <2>1. k + i \in 1 .. Len(s) /\ j + i \in 1 .. Len(s) /\ k + i < j + i /\ u[k] = s[k + i] /\ u[j] = s[j + i]
    BY <1>1, <1>4
  <2> QED BY <2>1 DEF Lists
<1>8. u \in Seq(R)
  <2>1. u = [k \in 1 .. Len(u) |-> u[k]]
    BY <1>3
  <2> HIDE DEF R
  <2> QED BY <1>3, <1>5, <2>1
<1>9. {u[k] : k \in 1 .. Len(u)} = R
  <2> HIDE DEF R
  <2> QED BY <1>5, <1>6
<1> QED BY <1>7, <1>8, <1>9 DEF Lists, u

\* Every place on the way that nxt leads adds a list of what is in its set
\* and not in that of the next.
AddsUp(Q, D, nxt, pre, L) ==
  \A x \in D : IF nxt[x] = x THEN Q[x] = {}
              ELSE \E A : /\ Lists(pre[x], A, L) /\ Q[x] = A \cup Q[nxt[x]]
                         /\ \A a \in A, b \in Q[nxt[x]] : <<a, b>> \in L

\* What is gathered on the way lists its set.
LEMMA GathersLists ==
  ASSUME NEW D, NEW nxt, nxt \in [D -> D], NEW mu, Falls(mu, D, nxt), NEW pre, NEW f, Gathers(f, D, nxt, pre),
         NEW L, NEW Q, AddsUp(Q, D, nxt, pre, L)
  PROVE  \A x \in D : Lists(f[x], Q[x], L)
<1> DEFINE Good == {x \in D : Lists(f[x], Q[x], L)}
<1>1. \A x \in D : nxt[x] \in D /\ f[x] = IF nxt[x] # x THEN pre[x] \o f[nxt[x]] ELSE << >>
  BY DEF Gathers
<1>2. ASSUME NEW x \in D, nxt[x] # x => nxt[x] \in Good PROVE x \in Good
  <2>1. CASE nxt[x] = x
    <3>1. f[x] = << >> /\ Q[x] = {}
      BY <1>1, <2>1 DEF AddsUp
    <3>2. Lists(f[x], Q[x], L)
      BY <3>1, ListsNone
    <3> QED BY <3>2
  <2>2. CASE nxt[x] # x
    <3>1. Lists(f[nxt[x]], Q[nxt[x]], L)
      BY <1>2, <2>2
    <3>2. PICK A : /\ Lists(pre[x], A, L) /\ Q[x] = A \cup Q[nxt[x]]
                   /\ \A a \in A, b \in Q[nxt[x]] : <<a, b>> \in L
      BY <2>2 DEF AddsUp
    <3>3. Lists(pre[x] \o f[nxt[x]], A \cup Q[nxt[x]], L)
      BY <3>1, <3>2, ListsJoin
    <3>4. f[x] = pre[x] \o f[nxt[x]]
      BY <1>1, <2>2
    <3> QED BY <3>2, <3>3, <3>4
  <2> QED BY <2>1, <2>2
<1>3. D \subseteq Good
  <2> HIDE DEF Good
  <2> QED BY <1>2, FallsInduction
<1> QED BY <1>3
=============================================================================
