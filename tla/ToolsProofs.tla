----------------------------- MODULE ToolsProofs -----------------------------
(***************************************************************************)
(* Theorems about the parts that MCTools runs together: the events on a    *)
(* socket (Frames), the command redirection (CmdRedir) and the linked list *)
(* (LinkedList).  Each is proved for every value of its own constants and  *)
(* knows nothing of the others.                                            *)
(***************************************************************************)
EXTENDS Frames, CmdRedir, LinkedList, LeastNumbers, SequenceTheorems, TLAPS

----------------------------------------------------------------------------
(* Events on a socket: any number of publishers, any events, any room in   *)
(* the socket and any buffer.                                              *)
----------------------------------------------------------------------------
(* FlattenSeq.                                                             *)

\* The function by which FlattenSeq is defined.
Piles(f, s, n) == f = [i \in 1 .. n |-> IF i = 1 THEN s[i] ELSE f[i - 1] \o s[i]]

\* Such a function has the values its definition says, and there is one.
LEMMA PilesAt ==
  ASSUME NEW f, NEW s, NEW n, Piles(f, s, n), NEW i \in 1 .. n
  PROVE  f[i] = IF i = 1 THEN s[i] ELSE f[i - 1] \o s[i]
<1> DEFINE h == [j \in 1 .. n |-> IF j = 1 THEN s[j] ELSE f[j - 1] \o s[j]]
<1>1. h[i] = IF i = 1 THEN s[i] ELSE f[i - 1] \o s[i]
  OBVIOUS
<1>2. f = h
  BY DEF Piles
<1> QED BY <1>1, <1>2

\* There is such a function for every sequence of sequences.
LEMMA PilesExist ==
  ASSUME NEW s, NEW n \in Nat \ {0}
  PROVE  \E f : Piles(f, s, n)
<1> DEFINE Good == {k \in Nat : k = 0 \/ \E f : Piles(f, s, k)}
<1>1. ASSUME NEW k \in Nat, k \in Good PROVE k + 1 \in Good
  <2>1. CASE k = 0
    <3> DEFINE f == [i \in 1 .. 1 |-> s[1]]
    <3>1. Piles(f, s, 1)
      BY DEF Piles
    <3> QED BY <2>1, <3>1
  <2>2. CASE k # 0
    <3>1. PICK g : Piles(g, s, k)
      BY <1>1, <2>2
    <3> DEFINE f == [i \in 1 .. k + 1 |-> IF i = k + 1 THEN g[k] \o s[i] ELSE g[i]]
    <3>2. ASSUME NEW i \in 1 .. k + 1
          PROVE  f[i] = IF i = 1 THEN s[i] ELSE f[i - 1] \o s[i]
      <4>1. CASE i = k + 1
        <5>1. i # 1 /\ i - 1 = k /\ k \in 1 .. k + 1 /\ k # k + 1
          BY <2>2, <4>1
        <5>2. f[i] = g[k] \o s[i] /\ f[i - 1] = g[k]
          BY <4>1, <5>1
        <5> QED BY <5>1, <5>2
      <4>2. CASE i # k + 1
        <5>1. i \in 1 .. k /\ (i # 1 => i - 1 \in 1 .. k)
          BY <4>2
        <5>2. f[i] = g[i] /\ (i # 1 => f[i - 1] = g[i - 1])
          BY <5>1
        <5>3. g[i] = IF i = 1 THEN s[i] ELSE g[i - 1] \o s[i]
          BY <3>1, <5>1, PilesAt
        <5> QED BY <5>2, <5>3
      <4> QED BY <4>1, <4>2
    <3>3. Piles(f, s, k + 1)
      <4>1. f = [i \in 1 .. k + 1 |-> f[i]]
        OBVIOUS
      <4> HIDE DEF f
      <4> QED BY <3>2, <4>1 DEF Piles
    <3> QED BY <3>3
  <2> QED BY <2>1, <2>2
<1>2. Nat \subseteq Good
  <2>1. 0 \in Good
    OBVIOUS
  <2> HIDE DEF Good
  <2> QED BY <1>1, <2>1, Induction
<1> QED BY <1>2

\* It depends on no more of the sequence than it has gone over.
LEMMA PilesAgree ==
  ASSUME NEW f, NEW s, NEW m \in Nat, Piles(f, s, m),
         NEW g, NEW t, NEW n \in Nat, Piles(g, t, n),
         NEW k \in Nat \ {0}, k <= m, k <= n, \A i \in 1 .. k : s[i] = t[i]
  PROVE  f[k] = g[k]
<1> DEFINE Good == {j \in Nat : j \in 1 .. k => f[j] = g[j]}
<1>1. ASSUME NEW j \in Nat, j \in Good PROVE j + 1 \in Good
  <2> SUFFICES ASSUME j + 1 \in 1 .. k PROVE f[j + 1] = g[j + 1]
    OBVIOUS
  <2>1. j + 1 \in 1 .. m /\ j + 1 \in 1 .. n /\ s[j + 1] = t[j + 1]
    OBVIOUS
  <2>2. /\ f[j + 1] = IF j + 1 = 1 THEN s[j + 1] ELSE f[j + 1 - 1] \o s[j + 1]
        /\ g[j + 1] = IF j + 1 = 1 THEN t[j + 1] ELSE g[j + 1 - 1] \o t[j + 1]
    BY <2>1, PilesAt
  <2>3. j # 0 => f[j] = g[j]
    BY <1>1
  <2>4. j + 1 - 1 = j /\ (j + 1 = 1 <=> j = 0)
    OBVIOUS
  <2> QED BY <2>1, <2>2, <2>3, <2>4
<1>2. Nat \subseteq Good
  <2>1. 0 \in Good
    OBVIOUS
  <2> HIDE DEF Good
  <2> QED BY <1>1, <2>1, Induction
<1> QED BY <1>2

\* FlattenSeq is such a function's last value.
LEMMA FlattenIsPile ==
  ASSUME NEW s, Len(s) \in Nat \ {0}
  PROVE  \E f : Piles(f, s, Len(s)) /\ FlattenSeq(s) = f[Len(s)]
<1> DEFINE f == CHOOSE f : Piles(f, s, Len(s))
<1>1. Piles(f, s, Len(s))
  BY PilesExist
<1>2. FlattenSeq(s) = f[Len(s)]
  BY DEF FlattenSeq, Piles
<1> QED BY <1>1, <1>2

\* To flatten one more is to append it to what is flattened.
LEMMA FlattenAppend ==
  ASSUME NEW T, NEW s \in Seq(T), NEW e \in T
  PROVE  FlattenSeq(Append(s, e)) = IF s = << >> THEN e ELSE FlattenSeq(s) \o e
<1> DEFINE t == Append(s, e)
           n == Len(s)
           m == n + 1
<1>1. /\ n \in Nat /\ Len(t) = m /\ t[m] = e
      /\ \A i \in 1 .. n : t[i] = s[i]
      /\ s = << >> <=> n = 0
  BY AppendProperties, LenProperties, EmptySeq
<1>2. m \in Nat \ {0} /\ m \in 1 .. m /\ m - 1 = n /\ n <= m /\ (m = 1 <=> n = 0)
  BY <1>1
<1> HIDE DEF t, n, m
<1>3. PICK g : Piles(g, t, m) /\ FlattenSeq(t) = g[m]
  BY <1>1, <1>2, FlattenIsPile
<1>4. g[m] = IF m = 1 THEN t[m] ELSE g[m - 1] \o t[m]
  BY <1>2, <1>3, PilesAt
<1>5. CASE n = 0
  BY <1>1, <1>2, <1>3, <1>4, <1>5 DEF t
<1>6. CASE n # 0
  <2>1. PICK f : Piles(f, s, n) /\ FlattenSeq(s) = f[n]
    BY <1>1, <1>6, FlattenIsPile DEF n
  <2>2. f[n] = g[n]
    BY <1>1, <1>2, <1>3, <1>6, <2>1, PilesAgree
  <2> QED BY <1>1, <1>2, <1>3, <1>4, <1>6, <2>1, <2>2 DEF t
<1> QED BY <1>5, <1>6

\* What is flattened is a sequence of the elements of its parts.
LEMMA FlattenType ==
  ASSUME NEW T, NEW s \in Seq(Seq(T))
  PROVE  FlattenSeq(s) \in Seq(T)
<1>1. CASE Len(s) = 0
  <2>1. s = << >>
    BY <1>1, EmptySeq
  <2> QED BY <1>1, <2>1 DEF FlattenSeq
<1>2. CASE Len(s) # 0
  <2> DEFINE n == Len(s)
  <2>0. n \in Nat \ {0} /\ \A i \in 1 .. n : s[i] \in Seq(T)
    BY <1>2, LenProperties, ElementOfSeq
  <2>1. PICK f : Piles(f, s, n) /\ FlattenSeq(s) = f[n]
    BY <1>2, <2>0, FlattenIsPile
  <2> HIDE DEF n
  <2> DEFINE Good == {k \in Nat : k \in 1 .. n => f[k] \in Seq(T)}
  <2>2. ASSUME NEW k \in Nat, k \in Good PROVE k + 1 \in Good
    <3> DEFINE m == k + 1
    <3> SUFFICES ASSUME m \in 1 .. n PROVE f[m] \in Seq(T)
      OBVIOUS
    <3>1. m - 1 = k /\ (m # 1 => k \in 1 .. n)
      BY <2>0
    <3>2. m # 1 => f[k] \in Seq(T)
      BY <2>2, <3>1
    <3> HIDE DEF m
    <3>3. f[m] = IF m = 1 THEN s[m] ELSE f[m - 1] \o s[m]
      BY <2>1, PilesAt
    <3>4. s[m] \in Seq(T)
      BY <2>0
    <3> QED BY <3>1, <3>2, <3>3, <3>4, ConcatProperties
  <2>3. Nat \subseteq Good
    <3>1. 0 \in Good
      OBVIOUS
    <3> HIDE DEF Good
    <3> QED BY <2>2, <3>1, Induction
  <2>4. f[n] \in Seq(T)
    BY <2>0, <2>3
  <2> QED BY <2>1, <2>4
<1> QED BY <1>1, <1>2
----------------------------------------------------------------------------
(* The frames, one after the other.                                        *)

\* A frame has a header, an operation, a message, and its data.
LEMMA FrameParts ==
  ASSUME NEW e \in Event
  PROVE  /\ Frame(e) \in Seq(Parts) /\ Len(Frame(e)) = 3 + e.data /\ Frame(e) # << >>
         /\ \A i \in 1 .. 3 + e.data : Frame(e)[i] = [of |-> e, part |-> i]
         /\ Size(e) = 2 + e.data /\ e.data \in Nat
<1>1. e.data \in Nat
  BY FramesAssumption
<1> DEFINE n == 3 + e.data
<1>2. n \in Nat \ {0}
  BY <1>1
<1> HIDE DEF n
<1>3. /\ DOMAIN Frame(e) = 1 .. n
      /\ \A i \in 1 .. n : Frame(e)[i] = [of |-> e, part |-> i]
      /\ Frame(e) = [i \in 1 .. n |-> Frame(e)[i]]
  BY DEF Frame, n
<1>4. ASSUME NEW i \in 1 .. n PROVE Frame(e)[i] \in Parts
  <2>1. Frame(e)[i] \in Range(Frame(e))
    BY <1>3 DEF Range
  <2> QED BY <2>1 DEF Parts
<1>5. Frame(e) \in [1 .. n -> Parts]
  <2> DEFINE F == Frame(e)
  <2>1. F = [i \in 1 .. n |-> F[i]] /\ \A i \in 1 .. n : F[i] \in Parts
    BY <1>3, <1>4
  <2> HIDE DEF F
  <2>2. F \in [1 .. n -> Parts]
    BY <2>1
  <2> QED BY <2>2 DEF F
<1>6. Frame(e) \in Seq(Parts)
  BY <1>2, <1>5, SeqDef
<1>7. Len(Frame(e)) = n
  <2>1. Len(Frame(e)) \in Nat /\ DOMAIN Frame(e) = 1 .. Len(Frame(e))
    BY <1>6, LenProperties
  <2> QED BY <1>2, <1>3, <2>1
<1>8. Frame(e) # << >>
  BY <1>2, <1>7, EmptySeq
<1>9. Size(e) = 2 + e.data
  BY <1>1, <1>7 DEF Size, n
<1> QED BY <1>1, <1>3, <1>6, <1>7, <1>8, <1>9 DEF n

Framed(es) == [i \in DOMAIN es |-> Frame(es[i])]

\* The sequence of the frames of some events.
LEMMA FramedProperties ==
  ASSUME NEW es \in Seq(Event)
  PROVE  /\ Framed(es) \in Seq(Seq(Parts))
         /\ Len(Framed(es)) = Len(es)
         /\ \A i \in 1 .. Len(es) : Framed(es)[i] = Frame(es[i])
<1> DEFINE n == Len(es)
<1>1. n \in Nat /\ DOMAIN es = 1 .. n /\ \A i \in 1 .. n : es[i] \in Event
  BY LenProperties, ElementOfSeq
<1> HIDE DEF n
<1>2. \A i \in 1 .. n : Frame(es[i]) \in Seq(Parts)
  BY <1>1, FrameParts
<1>3. Framed(es) \in [1 .. n -> Seq(Parts)]
  BY <1>1, <1>2 DEF Framed
<1>4. Framed(es) \in Seq(Seq(Parts))
  BY <1>1, <1>3, SeqDef
<1>5. Len(Framed(es)) = n
  <2> DEFINE m == Len(Framed(es))
  <2>1. m \in Nat /\ DOMAIN Framed(es) = 1 .. m
    BY <1>4, LenProperties
  <2>2. DOMAIN Framed(es) = 1 .. n
    BY <1>3
  <2> HIDE DEF m
  <2>3. 1 .. m = 1 .. n
    BY <2>1, <2>2
  <2>4. m = n
    BY ONLY <1>1, <2>1, <2>3
  <2> QED BY <2>4 DEF m
<1>6. \A i \in 1 .. n : Framed(es)[i] = Frame(es[i])
  BY <1>1 DEF Framed
<1> QED BY <1>4, <1>5, <1>6 DEF n

\* An event more is a frame more.
LEMMA FlatProperties ==
  /\ Flat(<< >>) = << >>
  /\ \A es \in Seq(Event) : Flat(es) \in Seq(Parts)
  /\ \A es \in Seq(Event), e \in Event : Flat(Append(es, e)) = Flat(es) \o Frame(e)
<1>0. \A es : Flat(es) = FlattenSeq(Framed(es))
  BY DEF Flat, Framed
<1>1. Flat(<< >>) = << >>
  <2>1. Framed(<< >>) \in Seq(Seq(Parts)) /\ Len(Framed(<< >>)) = 0
    BY FramedProperties, EmptySeq
  <2>2. Framed(<< >>) = << >>
    BY <2>1, EmptySeq
  <2> QED BY <1>0, <2>1, <2>2 DEF FlattenSeq
<1>2. \A es \in Seq(Event) : Flat(es) \in Seq(Parts)
  BY <1>0, FramedProperties, FlattenType
<1>3. ASSUME NEW es \in Seq(Event), NEW e \in Event
      PROVE  Flat(Append(es, e)) = Flat(es) \o Frame(e)
  <2> DEFINE s == Framed(es)
             n == Len(es)
             t == Append(es, e)
  <2>1. /\ t \in Seq(Event) /\ Len(t) = n + 1 /\ t[n + 1] = e /\ n \in Nat
        /\ \A i \in 1 .. n : t[i] = es[i]
    BY AppendProperties, LenProperties
  <2>2. s \in Seq(Seq(Parts)) /\ Len(s) = n /\ \A i \in 1 .. n : s[i] = Frame(es[i])
    BY FramedProperties
  <2>3. Frame(e) \in Seq(Parts)
    BY FrameParts
  <2> HIDE DEF s, n, t
  <2>4. Framed(t) = Append(s, Frame(e))
    <3> DEFINE u == Append(s, Frame(e))
    <3>1. /\ Framed(t) \in Seq(Seq(Parts)) /\ Len(Framed(t)) = n + 1
          /\ \A i \in 1 .. n + 1 : Framed(t)[i] = Frame(t[i])
      BY <2>1, FramedProperties
    <3>2. /\ u \in Seq(Seq(Parts)) /\ Len(u) = n + 1 /\ u[n + 1] = Frame(e)
          /\ \A i \in 1 .. n : u[i] = s[i]
      BY <2>2, <2>3, AppendProperties
    <3> HIDE DEF u
    <3>3. ASSUME NEW i \in 1 .. n + 1 PROVE Framed(t)[i] = u[i]
      <4>1. CASE i = n + 1
        BY <2>1, <3>1, <3>2, <4>1
      <4>2. CASE i # n + 1
        <5>1. i \in 1 .. n
          BY <2>1, <4>2
        <5> QED BY <2>1, <2>2, <3>1, <3>2, <5>1
      <4> QED BY <4>1, <4>2
    <3>4. Framed(t) = u
      BY <3>1, <3>2, <3>3, SeqEqual
    <3> QED BY <3>4 DEF u
  <2>5. Flat(t) = IF s = << >> THEN Frame(e) ELSE FlattenSeq(s) \o Frame(e)
    BY <1>0, <2>2, <2>3, <2>4, FlattenAppend
  <2>6. CASE s = << >>
    <3>1. Flat(es) = << >>
      BY <1>0, <2>6, EmptySeq DEF s, FlattenSeq
    <3> QED BY <2>3, <2>5, <2>6, <3>1, ConcatEmptySeq DEF t
  <2>7. CASE s # << >>
    BY <1>0, <2>5, <2>7 DEF s, t
  <2> QED BY <2>6, <2>7
<1> QED BY <1>1, <1>2, <1>3

\* A prefix that is longer by one.
LEMMA Longer ==
  ASSUME NEW T, NEW s \in Seq(T), NEW j \in Nat, j < Len(s)
  PROVE  /\ SubSeq(s, 1, j) \in Seq(T) /\ s[j + 1] \in T
         /\ SubSeq(s, 1, j + 1) = Append(SubSeq(s, 1, j), s[j + 1])
<1> DEFINE n == Len(s)
           m == j + 1
           l == SubSeq(s, 1, j)
<1>1. n \in Nat /\ \A i \in 1 .. n : s[i] \in T
  BY LenProperties, ElementOfSeq
<1>2. m \in 1 .. n /\ 1 \in 1 .. n /\ m - 1 = j /\ 1 \in 1 .. m /\ m \in 1 .. m
  BY <1>1
<1>3. s[m] \in T
  BY <1>1, <1>2
<1>4. \A i \in 1 .. j : s[i] \in T
  BY <1>1
<1>5. l \in Seq(T)
  BY <1>4, SubSeqProperties
<1>6. SubSeq(s, 1, m) = SubSeq(s, 1, m - 1) \o <<s[m]>>
  <2>1. 1 \in 1 .. Len(s) /\ m \in 1 .. Len(s)
    BY <1>2
  <2> HIDE DEF m
  <2> QED BY <2>1, SubSeqRecursiveSecond
<1>7. SubSeq(s, 1, m) = l \o <<s[m]>>
  BY <1>2, <1>6
<1> HIDE DEF l, m
<1>8. Append(l, s[m]) = l \o <<s[m]>>
  BY <1>3, <1>5, AppendIsConcat
<1> QED BY <1>3, <1>5, <1>7, <1>8 DEF l, m

\* Two sequences that are equal have equal beginnings and ends.
LEMMA SameStart ==
  ASSUME NEW T, NEW s \in Seq(T), NEW t \in Seq(T), NEW u \in Seq(T), NEW v \in Seq(T),
         s \o t = u \o v, Len(s) = Len(u)
  PROVE  s = u /\ t = v
<1> DEFINE n == Len(s)
<1>1. n \in Nat /\ Len(t) \in Nat /\ Len(v) \in Nat /\ Len(u) = n
  BY LenProperties
<1>2. /\ \A i \in 1 .. n + Len(t) : (s \o t)[i] = IF i <= n THEN s[i] ELSE t[i - n]
      /\ \A i \in 1 .. n + Len(v) : (u \o v)[i] = IF i <= n THEN u[i] ELSE v[i - n]
  <2>1. \A i \in 1 .. Len(s) + Len(t) : (s \o t)[i] = IF i <= Len(s) THEN s[i] ELSE t[i - Len(s)]
    BY ConcatProperties
  <2>2. \A i \in 1 .. Len(u) + Len(v) : (u \o v)[i] = IF i <= Len(u) THEN u[i] ELSE v[i - Len(u)]
    BY ConcatProperties
  <2> QED BY <2>1, <2>2
<1>3. ASSUME NEW i \in 1 .. n PROVE s[i] = u[i]
  <2>1. i \in 1 .. n + Len(t) /\ i \in 1 .. n + Len(v) /\ i <= n
    BY <1>1
  <2> QED BY <1>2, <2>1
<1>4. s = u
  BY <1>3, SeqEqual
<1>5. t = v
  BY <1>4, ConcatSimplifications
<1> QED BY <1>4, <1>5

\* The frame of each event has its place in the whole.
LEMMA FlatSplit ==
  ASSUME NEW es \in Seq(Event), NEW k \in Nat, k < Len(es)
  PROVE  /\ es[k + 1] \in Event /\ SubSeq(es, 1, k) \in Seq(Event)
         /\ SubSeq(es, 1, k + 1) = Append(SubSeq(es, 1, k), es[k + 1])
         /\ \E x \in Seq(Parts) :
              Flat(es) = (Flat(SubSeq(es, 1, k)) \o Frame(es[k + 1])) \o x
<1> DEFINE n == Len(es)
           F(j) == Flat(SubSeq(es, 1, j))
           e == es[k + 1]
           a == F(k) \o Frame(e)
           Good == {j \in Nat : k + 1 <= j /\ j <= n => \E x \in Seq(Parts) : F(j) = a \o x}
<1>0. n \in Nat /\ k + 1 \in Nat
  BY LenProperties
<1>1. e \in Event /\ SubSeq(es, 1, k) \in Seq(Event) /\ SubSeq(es, 1, k + 1) = Append(SubSeq(es, 1, k), e)
  BY Longer
<1>2. F(k + 1) = a /\ a \in Seq(Parts)
  <2>1. F(k + 1) = F(k) \o Frame(e)
    BY <1>1, FlatProperties
  <2>2. F(k) \in Seq(Parts) /\ Frame(e) \in Seq(Parts)
    BY <1>1, FlatProperties, FrameParts
  <2> QED BY <2>1, <2>2, ConcatProperties
<1> HIDE DEF a
<1>3. ASSUME NEW j \in Nat, j \in Good PROVE j + 1 \in Good
  <2> SUFFICES ASSUME k + 1 <= j + 1, j + 1 <= n
               PROVE  \E x \in Seq(Parts) : F(j + 1) = a \o x
    OBVIOUS
  <2>1. CASE j = k
    <3>1. a \o << >> = a /\ << >> \in Seq(Parts)
      BY <1>2, ConcatEmptySeq, EmptySeq
    <3> QED BY <1>2, <2>1, <3>1
  <2>2. CASE j # k
    <3>1. k + 1 <= j /\ j <= n /\ j < n
      BY <1>0, <2>2
    <3>2. PICK x \in Seq(Parts) : F(j) = a \o x
      BY <1>3, <3>1
    <3>3. /\ es[j + 1] \in Event /\ SubSeq(es, 1, j) \in Seq(Event)
          /\ SubSeq(es, 1, j + 1) = Append(SubSeq(es, 1, j), es[j + 1])
      BY <3>1, Longer
    <3>4. Frame(es[j + 1]) \in Seq(Parts)
      BY <3>3, FrameParts
    <3>5. F(j + 1) = F(j) \o Frame(es[j + 1])
      BY <3>3, FlatProperties
    <3>6. F(j + 1) = a \o (x \o Frame(es[j + 1]))
      <4>1. (a \o x) \o Frame(es[j + 1]) = a \o (x \o Frame(es[j + 1]))
        BY <1>2, <3>4, ConcatAssociative, SMTT(30)
      <4> QED BY <3>2, <3>5, <4>1
    <3>7. x \o Frame(es[j + 1]) \in Seq(Parts)
      BY <3>4, ConcatProperties
    <3> QED BY <3>6, <3>7
  <2> QED BY <2>1, <2>2
<1>4. Nat \subseteq Good
  <2>1. 0 \in Good
    OBVIOUS
  <2> HIDE DEF Good
  <2> QED BY <1>3, <2>1, Induction
<1>5. \E x \in Seq(Parts) : F(n) = a \o x
  <2>1. \A j \in Nat : k + 1 <= j /\ j <= n => \E x \in Seq(Parts) : F(j) = a \o x
    BY <1>4
  <2>2. n \in Nat /\ k + 1 <= n /\ n <= n
    BY <1>0
  <2> HIDE DEF F, n
  <2> QED BY <2>1, <2>2
<1>6. SubSeq(es, 1, n) = es
  BY SubSeqFull
<1> QED BY <1>1, <1>5, <1>6 DEF a

\* A sequence cut in two.
LEMMA Pieces ==
  ASSUME NEW T, NEW s \in Seq(T), NEW n \in Nat, n <= Len(s)
  PROVE  /\ SubSeq(s, 1, n) \in Seq(T) /\ Len(SubSeq(s, 1, n)) = n
         /\ SubSeq(s, n + 1, Len(s)) \in Seq(T) /\ Len(SubSeq(s, n + 1, Len(s))) = Len(s) - n
         /\ SubSeq(s, 1, n) \o SubSeq(s, n + 1, Len(s)) = s
<1> DEFINE l == Len(s)
           m == n + 1
<1>1. l \in Nat /\ \A i \in 1 .. l : s[i] \in T
  BY LenProperties, ElementOfSeq
<1>2. /\ \A i \in 1 .. n : s[i] \in T
      /\ \A i \in m .. l : s[i] \in T
      /\ m \in Int /\ l \in Int /\ 1 \in Int /\ n \in Int
      /\ (IF 1 <= n THEN n - 1 + 1 ELSE 0) = n
      /\ (IF m <= l THEN l - m + 1 ELSE 0) = l - n
  BY <1>1
<1>3. SubSeq(s, 1, n) \in Seq(T) /\ Len(SubSeq(s, 1, n)) = n
  BY <1>2, SubSeqProperties
<1>4. SubSeq(s, m, l) \in Seq(T) /\ Len(SubSeq(s, m, l)) = l - n
  <2> HIDE DEF m, l
  <2> QED BY <1>2, SubSeqProperties
<1>5. SubSeq(s, 1, n) \o SubSeq(s, m, l) = s
  <2>1. 1 \in 1 .. Len(s) + 1 /\ n \in 1 - 1 .. Len(s) /\ l \in n .. Len(s)
    BY <1>1
  <2>2. SubSeq(s, 1, n) \o SubSeq(s, n + 1, l) = SubSeq(s, 1, l)
    <3> HIDE DEF l
    <3> QED BY <2>1, ConcatAdjacentSubSeq
  <2> QED BY <2>2, SubSeqFull
<1> QED BY <1>3, <1>4, <1>5
----------------------------------------------------------------------------
(* Type correctness.                                                       *)

\* What a part says of the size of its frame.
LEMMA SizesAreNumbers ==
  /\ Sizes \subseteq Nat
  /\ \A x \in Parts : x.of \in Event /\ Size(x.of) \in Sizes
<1>1. \A e \in Event : Size(e) \in Nat
  BY FrameParts
<1>2. Sizes \subseteq Nat
  BY <1>1 DEF Sizes
<1>3. ASSUME NEW x \in Parts PROVE x.of \in Event
  <2>1. PICK e \in Event : x \in Range(Frame(e))
    BY DEF Parts
  <2>2. PICK i \in DOMAIN Frame(e) : x = Frame(e)[i]
    BY <2>1 DEF Range
  <2>3. x = [of |-> e, part |-> i]
    BY <2>2 DEF Frame
  <2> QED BY <2>3
<1> QED BY <1>2, <1>3 DEF Sizes

\* What a publisher has still to send, and any part of it.
LEMMA UnsentParts ==
  ASSUME FramesTypeOK, NEW p \in Publisher, Sending(p)
  PROVE  /\ sends[p] = [at |-> "send", event |-> sends[p].event, total |-> sends[p].total]
         /\ sends[p].event \in Event /\ sends[p].total \in Nat
         /\ Unsent(p) \in Seq(Parts) /\ Len(Unsent(p)) \in Nat
         /\ sends[p].total = 0 => Unsent(p) = Frame(sends[p].event)
<1>1. sends[p] \in [at : {"send"}, event : Event, total : Nat]
  BY DEF FramesTypeOK, Sending, IdleSend
<1>2. /\ sends[p] = [at |-> "send", event |-> sends[p].event, total |-> sends[p].total]
      /\ sends[p].event \in Event /\ sends[p].total \in Nat
  BY <1>1
<1> DEFINE e == sends[p].event
           F == Frame(e)
           m == sends[p].total + 1
           l == Len(F)
<1>3. F \in Seq(Parts) /\ l \in Nat /\ \A i \in 1 .. l : F[i] \in Parts
  BY <1>2, FrameParts, LenProperties, ElementOfSeq
<1>4. m \in Int /\ l \in Int /\ \A i \in m .. l : F[i] \in Parts
  BY <1>2, <1>3
<1>5. Unsent(p) = SubSeq(F, m, l)
  BY DEF Unsent
<1>6. m = 1 => SubSeq(F, m, l) = F
  BY <1>3, SubSeqFull
<1>7. sends[p].total = 0 => m = 1
  BY <1>2
<1> HIDE DEF F, m, l
<1>8. Unsent(p) \in Seq(Parts)
  BY <1>4, <1>5, SubSeqProperties
<1> QED BY <1>2, <1>5, <1>6, <1>7, <1>8, LenProperties DEF F

\* Every step keeps the types, and Init has them.
LEMMA TypeStep ==
  ASSUME FramesTypeOK, [FramesNext]_frameVars
  PROVE  FramesTypeOK'
<1>1. ASSUME NEW p \in Publisher, Send(p) PROVE FramesTypeOK'
  BY <1>1 DEF Send, FramesTypeOK
<1>2. ASSUME NEW p \in Publisher, Transfer(p) PROVE FramesTypeOK'
  <2>0. Sending(p)
    BY <1>2 DEF Transfer
  <2>1. PICK n \in 1 .. Len(Unsent(p)) :
          /\ Len(stream) + n <= Room
          /\ stream' = stream \o SubSeq(Unsent(p), 1, n)
          /\ sends' = IF n = Len(Unsent(p)) THEN [sends EXCEPT ![p] = IdleSend]
                      ELSE [sends EXCEPT ![p].total = @ + n]
    BY <1>2 DEF Transfer
  <2>2. /\ sends[p] = [at |-> "send", event |-> sends[p].event, total |-> sends[p].total]
        /\ sends[p].event \in Event /\ sends[p].total \in Nat
        /\ Unsent(p) \in Seq(Parts) /\ n \in Nat /\ n <= Len(Unsent(p))
    BY <2>0, <2>1, UnsentParts
  <2>3. stream' \in Seq(Parts) /\ Len(stream') <= Room
    <3>1. SubSeq(Unsent(p), 1, n) \in Seq(Parts) /\ Len(SubSeq(Unsent(p), 1, n)) = n
      BY <2>2, Pieces
    <3>2. stream \in Seq(Parts)
      BY DEF FramesTypeOK
    <3>3. stream' \in Seq(Parts) /\ Len(stream') = Len(stream) + n
      BY <2>1, <3>1, <3>2, ConcatProperties
    <3> QED BY <2>1, <3>3
  <2>4. sends' \in [Publisher -> {IdleSend} \cup [at : {"send"}, event : Event, total : Nat]]
    <3>1. CASE n = Len(Unsent(p))
      BY <2>1, <3>1 DEF FramesTypeOK
    <3>2. CASE n # Len(Unsent(p))
      <4>1. sends' = [sends EXCEPT ![p] = [at |-> "send", event |-> sends[p].event, total |-> sends[p].total + n]]
        <5>1. sends' = [sends EXCEPT ![p] = [sends[p] EXCEPT !.total = sends[p].total + n]]
          BY <2>1, <3>2
        <5>2. [sends[p] EXCEPT !.total = sends[p].total + n]
              = [at |-> "send", event |-> sends[p].event, total |-> sends[p].total + n]
          BY <2>2
        <5> QED BY <5>1, <5>2
      <4>2. sends[p].total + n \in Nat
        BY <2>2
      <4> QED BY <2>2, <4>1, <4>2 DEF FramesTypeOK
    <3> QED BY <3>1, <3>2
  <2>5. order' \in Seq(Event)
    BY <1>2, <2>2, AppendProperties DEF Transfer, FramesTypeOK
  <2>6. split' \in BOOLEAN
    BY <1>2 DEF Transfer, FramesTypeOK
  <2> QED BY <1>2, <2>3, <2>4, <2>5, <2>6 DEF Transfer, FramesTypeOK
<1>3. ASSUME NEW p \in Publisher, GiveUp(p) PROVE FramesTypeOK'
  BY <1>3 DEF GiveUp, FramesTypeOK, Begun, Sending
<1>4. ASSUME Close PROVE FramesTypeOK'
  BY <1>4 DEF Close, FramesTypeOK
<1>5. ASSUME NEW call \in {"event", "op"}, ReadHeader(call) PROVE FramesTypeOK'
  <2>1. /\ Head(stream) \in Parts /\ Tail(stream) \in Seq(Parts)
        /\ Len(Tail(stream)) = Len(stream) - 1 /\ Len(stream) \in Nat
    BY <1>5, HeadTailProperties, LenProperties DEF ReadHeader, FramesTypeOK
  <2>2. PICK size \in IF Head(stream).part = 1 THEN {Size(Head(stream).of)} ELSE Sizes :
          \/ /\ recv' = [at |-> call, size |-> size, got |-> <<Head(stream)>>]
             /\ UNCHANGED <<results, split>>
          \/ Refuse
    BY <1>5 DEF ReadHeader
  <2>3. size \in Sizes
    BY <2>1, <2>2, SizesAreNumbers
  <2>4. stream' \in Seq(Parts) /\ Len(stream') <= Room
    BY <1>5, <2>1, FramesAssumption DEF ReadHeader, FramesTypeOK
  <2>5. <<Head(stream)>> \in Seq(Parts)
    BY <2>1
  <2>6. CASE Refuse
    <3>1. results' \in Seq(SUBSET Event)
      BY <2>6, AppendProperties DEF Refuse, Return, FramesTypeOK
    <3> QED BY <1>5, <2>4, <2>6, <3>1 DEF ReadHeader, Refuse, Return, FramesTypeOK
  <2>7. CASE recv' = [at |-> call, size |-> size, got |-> <<Head(stream)>>] /\ UNCHANGED <<results, split>>
    <3>1. recv' \in [at : {"event", "op", "msg", "data"}, size : Sizes, got : Seq(Parts)]
      BY <2>3, <2>5, <2>7
    <3> QED BY <1>5, <2>4, <2>7, <3>1 DEF ReadHeader, FramesTypeOK
  <2> QED BY <2>2, <2>6, <2>7
<1>6. ASSUME Read PROVE FramesTypeOK'
  <2>1. /\ recv \in [at : {"event", "op", "msg", "data"}, size : Sizes, got : Seq(Parts)]
        /\ recv.got \in Seq(Parts) /\ stream \in Seq(Parts)
    BY <1>6 DEF Read, Reading, FramesTypeOK, Waiting, Ended
  <2>2. PICK n \in 1 .. Target - Len(recv.got) :
          /\ n <= Len(stream)
          /\ recv' = [recv EXCEPT !.got = @ \o SubSeq(stream, 1, n)]
          /\ stream' = SubSeq(stream, n + 1, Len(stream))
    BY <1>6 DEF Read
  <2>3. n \in Nat
    BY <2>2
  <2>4. /\ SubSeq(stream, 1, n) \in Seq(Parts)
        /\ stream' \in Seq(Parts) /\ Len(stream') = Len(stream) - n
    BY <2>1, <2>2, <2>3, Pieces
  <2>5. recv.got \o SubSeq(stream, 1, n) \in Seq(Parts)
    BY <2>1, <2>4, ConcatProperties
  <2>6. recv' \in [at : {"event", "op", "msg", "data"}, size : Sizes, got : Seq(Parts)]
    BY <2>1, <2>2, <2>5
  <2>7. Len(stream') <= Room
    <3>1. Len(stream) \in Nat /\ Len(stream) <= Room /\ Room \in Nat
      BY LenProperties, FramesAssumption DEF FramesTypeOK
    <3> QED BY <2>3, <2>4, <3>1
  <2> QED BY <1>6, <2>4, <2>6, <2>7 DEF Read, FramesTypeOK
<1>7. ASSUME ReadOp \/ ReadMsg PROVE FramesTypeOK'
  <2>1. recv \in [at : {"event", "op", "msg", "data"}, size : Sizes, got : Seq(Parts)]
    BY <1>7 DEF ReadOp, ReadMsg, FramesTypeOK, Waiting, Ended
  <2>2. CASE Refuse
    <3>1. results' \in Seq(SUBSET Event)
      BY <2>2, AppendProperties DEF Refuse, Return, FramesTypeOK
    <3> QED BY <1>7, <2>2, <3>1 DEF ReadOp, ReadMsg, Refuse, Return, FramesTypeOK
  <2>3. CASE \E at \in {"msg", "data"} : recv' = [recv EXCEPT !.at = at] /\ UNCHANGED <<results, split>>
    <3>1. recv' \in [at : {"event", "op", "msg", "data"}, size : Sizes, got : Seq(Parts)]
      BY <2>1, <2>3
    <3> QED BY <1>7, <2>3, <3>1 DEF ReadOp, ReadMsg, FramesTypeOK
  <2> QED BY <1>7, <2>2, <2>3 DEF ReadOp, ReadMsg
<1>8. ASSUME Received PROVE FramesTypeOK'
  <2>1. results' \in Seq(SUBSET Event)
    BY <1>8, AppendProperties DEF Received, Return, FramesTypeOK
  <2> QED BY <1>8, <2>1 DEF Received, Return, FramesTypeOK
<1>9. ASSUME EndOfFile PROVE FramesTypeOK'
  BY <1>9 DEF EndOfFile, FramesTypeOK
<1>10. CASE UNCHANGED frameVars
  BY <1>10 DEF frameVars, FramesTypeOK
<1> QED BY <1>1, <1>2, <1>3, <1>4, <1>5, <1>6, <1>7, <1>8, <1>9, <1>10 DEF FramesNext

\* The first state is typed.
LEMMA FramesTypeStart ==
  ASSUME FramesInit
  PROVE  FramesTypeOK
<1>1. stream \in Seq(Parts) /\ Len(stream) = 0 /\ 0 <= Room
  BY FramesAssumption, EmptySeq DEF FramesInit
<1>2. order \in Seq(Event) /\ results \in Seq(SUBSET Event)
  BY DEF FramesInit
<1> QED BY <1>1, <1>2 DEF FramesInit, FramesTypeOK

\* The socket, the publishers and the subscriber are always in states of the
\* program, and the socket never holds more than it has room for.
THEOREM FramesTypeCorrect == FramesSpec => []FramesTypeOK
<1>1. FramesInit => FramesTypeOK
  BY FramesTypeStart
<1>2. FramesTypeOK /\ [FramesNext]_frameVars => FramesTypeOK'
  BY TypeStep
<1> QED BY <1>1, <1>2, PTL DEF FramesSpec
----------------------------------------------------------------------------
(* The messages come whole.  What is between the results and the end of    *)
(* what was begun is what the subscriber has got of a frame, then what is  *)
(* in the socket, then what the one publisher has left that is in the      *)
(* middle of a frame.                                                      *)

Got == IF Reading THEN recv.got ELSE << >>

OneAtATime == \A p, q \in Publisher : Begun(p) /\ Begun(q) => p = q

Whole ==
  /\ Len(results) <= Len(order)
  /\ \A i \in 1 .. Len(results) : results[i] = {order[i]}
  /\ Flat(SubSeq(order, 1, Len(results))) \o Got \o stream \o Rest = Flat(order)
  /\ Reading => /\ Len(results) < Len(order)
                /\ recv.size = Size(order[Len(results) + 1])

FramesInv ==
  /\ FramesTypeOK
  /\ ~split => /\ OneAtATime
               /\ recv # Ended => Whole

\* The same of any sends, for those of the next state.
BegunIn(s, p) == s[p].at # "idle" /\ s[p].total > 0
LeftIn(s, p)  == SubSeq(Frame(s[p].event), s[p].total + 1, Len(Frame(s[p].event)))
RestIn(s)     == IF \E p \in Publisher : BegunIn(s, p)
                 THEN LeftIn(s, CHOOSE p \in Publisher : BegunIn(s, p)) ELSE << >>
OneIn(s)      == \A p, q \in Publisher : BegunIn(s, p) /\ BegunIn(s, q) => p = q

\* They are the same, now and next.
LEMMA InSends ==
  /\ \A p \in Publisher : (Begun(p) <=> BegunIn(sends, p)) /\ Unsent(p) = LeftIn(sends, p)
  /\ OneAtATime <=> OneIn(sends)
  /\ OneAtATime' <=> OneIn(sends')
  /\ Rest = RestIn(sends)
  /\ Rest' = RestIn(sends')
BY DEF Begun, Sending, BegunIn, Unsent, LeftIn, OneAtATime, OneIn, Rest, RestIn

\* The rest is that of the publisher that has begun.
LEMMA RestIs ==
  ASSUME NEW s, OneIn(s)
  PROVE  /\ \A p \in Publisher : BegunIn(s, p) => RestIn(s) = LeftIn(s, p)
         /\ (\A p \in Publisher : ~BegunIn(s, p)) => RestIn(s) = << >>
<1>1. ASSUME NEW p \in Publisher, BegunIn(s, p) PROVE RestIn(s) = LeftIn(s, p)
  <2> DEFINE c == CHOOSE q \in Publisher : BegunIn(s, q)
  <2>1. c \in Publisher /\ BegunIn(s, c)
    BY <1>1
  <2>2. c = p
    BY <1>1, <2>1 DEF OneIn
  <2>3. RestIn(s) = LeftIn(s, c)
    BY <1>1 DEF RestIn
  <2> QED BY <2>2, <2>3
<1> QED BY <1>1 DEF RestIn

\* What one publisher has left to send is a sequence of parts.
LEMMA RestType ==
  ASSUME FramesTypeOK, OneAtATime
  PROVE  Rest \in Seq(Parts)
<1>0. OneIn(sends) /\ Rest = RestIn(sends)
  BY InSends
<1>1. CASE \E p \in Publisher : Begun(p)
  <2>1. PICK p \in Publisher : Begun(p)
    BY <1>1
  <2>2. Rest = Unsent(p)
    BY <1>0, <2>1, InSends, RestIs
  <2> QED BY <2>1, <2>2, UnsentParts DEF Begun
<1>2. CASE \A p \in Publisher : ~Begun(p)
  <2>1. RestIn(sends) = << >>
    BY <1>0, <1>2, InSends, RestIs
  <2> QED BY <1>0, <2>1, EmptySeq
<1> QED BY <1>1, <1>2

\* It is what it was unless a frame that was begun has changed.
LEMMA RestStays ==
  ASSUME OneAtATime,
         \A p \in Publisher : (BegunIn(sends', p) <=> BegunIn(sends, p))
                              /\ (BegunIn(sends, p) => sends'[p] = sends[p])
  PROVE  OneAtATime' /\ Rest' = Rest
<1>1. OneIn(sends) /\ OneIn(sends')
  BY InSends DEF OneIn
<1>2. RestIn(sends') = RestIn(sends)
  <2>1. CASE \E p \in Publisher : BegunIn(sends, p)
    <3>1. PICK p \in Publisher : BegunIn(sends, p)
      BY <2>1
    <3>2. BegunIn(sends', p) /\ LeftIn(sends', p) = LeftIn(sends, p)
      BY <3>1 DEF LeftIn
    <3> QED BY <1>1, <3>1, <3>2, RestIs
  <2>2. CASE \A p \in Publisher : ~BegunIn(sends, p)
    BY <1>1, <2>2, RestIs
  <2> QED BY <2>1, <2>2
<1> QED BY <1>1, <1>2, InSends

\* A step that leaves all of it alone.
LEMMA WholeStays ==
  ASSUME Whole, Rest' = Rest, UNCHANGED <<stream, order, recv, results>>
  PROVE  Whole'
BY DEF Whole, Got, Reading

\* Send and GiveUp.
LEMMA SendStep ==
  ASSUME FramesInv, NEW p \in Publisher, Send(p) \/ GiveUp(p)
  PROVE  FramesInv'
<1>1. FramesTypeOK /\ FramesTypeOK'
  BY TypeStep DEF FramesInv, FramesNext
<1>2. UNCHANGED <<order, recv, results>> /\ stream' = stream
  BY DEF Send, GiveUp
<1> SUFFICES ASSUME ~split' PROVE OneAtATime' /\ (recv' # Ended => Whole')
  BY <1>1 DEF FramesInv
<1>3. ~split /\ ~Begun(p)
  BY <1>1 DEF Send, GiveUp, Begun, FramesTypeOK
<1>4. OneAtATime /\ (recv # Ended => Whole)
  BY <1>3 DEF FramesInv
<1>5. \A q \in Publisher : /\ BegunIn(sends', q) <=> BegunIn(sends, q)
                           /\ BegunIn(sends, q) => sends'[q] = sends[q]
  <2> SUFFICES ASSUME NEW q \in Publisher
               PROVE  /\ BegunIn(sends', q) <=> BegunIn(sends, q)
                      /\ BegunIn(sends, q) => sends'[q] = sends[q]
    OBVIOUS
  <2>1. PICK r : sends' = [sends EXCEPT ![p] = r] /\ ~(r.at # "idle" /\ r.total > 0)
    <3>1. CASE Send(p)
      <4>1. PICK e : sends' = [sends EXCEPT ![p] = [at |-> "send", event |-> e, total |-> 0]]
        BY <3>1 DEF Send
      <4> DEFINE r == [at |-> "send", event |-> e, total |-> 0]
      <4>2. ~(r.total > 0)
        OBVIOUS
      <4> HIDE DEF r
      <4> QED BY <4>1, <4>2 DEF r
    <3>2. CASE GiveUp(p)
      <4>1. ~(IdleSend.at # "idle")
        BY DEF IdleSend
      <4>2. sends' = [sends EXCEPT ![p] = IdleSend]
        BY <3>2 DEF GiveUp
      <4> QED BY <4>1, <4>2
    <3> QED BY <3>1, <3>2
  <2>2. sends'[p] = r /\ (q # p => sends'[q] = sends[q])
    BY <1>1, <2>1 DEF FramesTypeOK
  <2>3. ~BegunIn(sends, p)
    BY <1>3, InSends
  <2>4. CASE q = p
    BY <2>1, <2>2, <2>3, <2>4 DEF BegunIn
  <2>5. CASE q # p
    BY <2>2, <2>5 DEF BegunIn
  <2> QED BY <2>4, <2>5
<1>6. OneAtATime' /\ Rest' = Rest
  BY <1>4, <1>5, RestStays
<1> QED BY <1>2, <1>4, <1>6, WholeStays

\* To be instantiated without looking into it.
Regrouped(a, b, c) == (a \o b) \o c = a \o (b \o c)

\* What the subscriber has got is a sequence of parts.
LEMMA Regroup == \A a, b, c \in Seq(Parts) : Regrouped(a, b, c)
BY ConcatAssociative DEF Regrouped

\* What the subscriber has got are parts.
LEMMA GotType ==
  ASSUME FramesTypeOK
  PROVE  Got \in Seq(Parts)
BY EmptySeq DEF FramesTypeOK, Got, Reading, Waiting, Ended

\* What a transfer takes and what it leaves is what there was.
LEMMA TransferLeaves ==
  ASSUME FramesTypeOK, FramesTypeOK', NEW p \in Publisher, Sending(p), NEW n \in 1 .. Len(Unsent(p)),
         sends' = IF n = Len(Unsent(p)) THEN [sends EXCEPT ![p] = IdleSend]
                  ELSE [sends EXCEPT ![p].total = @ + n],
         \A q \in Publisher \ {p} : ~Begun(q)
  PROVE  /\ OneAtATime'
         /\ Rest' \in Seq(Parts)
         /\ SubSeq(Unsent(p), 1, n) \o Rest' = Unsent(p)
<1> DEFINE u == Unsent(p)
<1>1. /\ sends[p] = [at |-> "send", event |-> sends[p].event, total |-> sends[p].total]
      /\ sends[p].event \in Event /\ sends[p].total \in Nat
      /\ u \in Seq(Parts) /\ Len(u) \in Nat /\ n \in Nat /\ n <= Len(u) /\ n # 0
  BY UnsentParts
<1>2. \A q \in Publisher \ {p} : sends'[q] = sends[q] /\ ~BegunIn(sends', q)
  <2> SUFFICES ASSUME NEW q \in Publisher \ {p} PROVE sends'[q] = sends[q] /\ ~BegunIn(sends', q)
    OBVIOUS
  <2>1. sends'[q] = sends[q]
    BY DEF FramesTypeOK
  <2>2. ~BegunIn(sends, q)
    BY InSends
  <2> QED BY <2>1, <2>2 DEF BegunIn
<1>3. OneIn(sends')
  BY <1>2 DEF OneIn
<1>4. /\ SubSeq(u, 1, n) \in Seq(Parts) /\ SubSeq(u, n + 1, Len(u)) \in Seq(Parts)
      /\ SubSeq(u, 1, n) \o SubSeq(u, n + 1, Len(u)) = u
  BY <1>1, Pieces
<1>5. Rest' = SubSeq(u, n + 1, Len(u))
  <2>1. CASE n = Len(u)
    <3>1. sends'[p] = IdleSend
      BY <2>1 DEF FramesTypeOK
    <3>2. \A q \in Publisher : ~BegunIn(sends', q)
      BY <1>2, <3>1 DEF BegunIn, IdleSend
    <3>3. Rest' = << >>
      BY <1>3, <3>2, RestIs, InSends
    <3>4. SubSeq(u, n + 1, Len(u)) = << >>
      <4>1. Len(u) \in Int /\ n + 1 \in Int /\ Len(u) < n + 1
        BY <1>1, <2>1
      <4> QED BY <4>1, SubSeqEmpty
    <3> QED BY <3>3, <3>4
  <2>2. CASE n # Len(u)
    <3> DEFINE F == Frame(sends[p].event)
               t == sends[p].total
               l == Len(F)
               m == n + 1
               k == l - t
    <3>1. F \in Seq(Parts) /\ l \in Nat /\ t \in Nat
      BY <1>1, FrameParts, LenProperties
    <3>2. u = SubSeq(F, t + 1, l)
      BY DEF Unsent
    <3>3. Len(u) = k /\ t + 1 \in 1 .. l /\ l \in 1 .. l
      <4>1. \A i \in t + 1 .. l : F[i] \in Parts
        <5>1. \A i \in 1 .. l : F[i] \in Parts
          BY <3>1, ElementOfSeq
        <5> QED BY <3>1, <5>1
      <4>2. t + 1 \in Int /\ l \in Int
        BY <3>1
      <4> HIDE DEF F, t, l
      <4>3. Len(u) = IF t + 1 <= l THEN l - (t + 1) + 1 ELSE 0
        BY <3>2, <4>1, <4>2, SubSeqProperties
      <4>4. t + 1 <= l
        BY <1>1, <3>1, <4>3
      <4> QED BY <3>1, <4>3, <4>4 DEF k
    <3>4. m \in 1 .. l - (t + 1) + 1 /\ k \in 1 .. l - (t + 1) + 1 /\ t + 1 + m - 1 = t + n + 1 /\ t + 1 + k - 1 = l
      <4>1. n # k /\ n <= k /\ n # 0 /\ n \in Nat /\ l \in Nat /\ t \in Nat
        BY <1>1, <2>2, <3>1, <3>3
      <4>2. k = l - t
        OBVIOUS
      <4> HIDE DEF u, F, t, l, k
      <4> QED BY ONLY <4>1, <4>2
    <3>5. SubSeq(u, m, k) = SubSeq(F, t + n + 1, l)
      <4> DEFINE i == t + 1
      <4>1. i \in 1 .. Len(F) /\ l \in 1 .. Len(F) /\ m \in 1 .. l - i + 1 /\ k \in 1 .. l - i + 1
        BY <3>3, <3>4
      <4>2. SubSeq(SubSeq(F, i, l), m, k) = SubSeq(F, i + m - 1, i + k - 1)
        <5> HIDE DEF i, l, m, k, F
        <5> QED BY ONLY <3>1, <4>1, SubSeqOfSubSeq
      <4> QED BY <3>2, <3>4, <4>2
    <3>6. sends'[p] = [sends[p] EXCEPT !.total = t + n]
      BY <2>2 DEF FramesTypeOK
    <3>7. sends'[p].at = "send" /\ sends'[p].event = sends[p].event /\ sends'[p].total = t + n
      BY <1>1, <3>6
    <3>8. BegunIn(sends', p)
      BY <1>1, <3>7 DEF BegunIn
    <3>9. LeftIn(sends', p) = SubSeq(F, t + n + 1, l)
      BY <3>7 DEF LeftIn
    <3>10. Rest' = LeftIn(sends', p)
      BY <1>3, <3>8, RestIs, InSends
    <3> QED BY <3>3, <3>5, <3>9, <3>10
  <2> QED BY <2>1, <2>2
<1> QED BY <1>3, <1>4, <1>5, InSends

\* The frames that have been returned, in a type of their own.
LEMMA WholeTypes ==
  ASSUME FramesTypeOK, Whole
  PROVE  /\ Len(results) \in Nat /\ Len(order) \in Nat
         /\ order \in Seq(Event) /\ results \in Seq(SUBSET Event) /\ stream \in Seq(Parts)
         /\ SubSeq(order, 1, Len(results)) \in Seq(Event)
         /\ Flat(SubSeq(order, 1, Len(results))) \in Seq(Parts)
         /\ Flat(order) \in Seq(Parts)
         /\ Got \in Seq(Parts)
         /\ Flat(SubSeq(order, 1, Len(results))) \o Got \in Seq(Parts)
<1>1. order \in Seq(Event) /\ results \in Seq(SUBSET Event) /\ stream \in Seq(Parts)
  BY DEF FramesTypeOK
<1>2. Len(results) \in Nat /\ Len(order) \in Nat
  BY <1>1, LenProperties
<1>3. SubSeq(order, 1, Len(results)) \in Seq(Event)
  BY <1>1, <1>2, Pieces DEF Whole
<1>4. Flat(SubSeq(order, 1, Len(results))) \in Seq(Parts) /\ Flat(order) \in Seq(Parts)
  BY <1>1, <1>3, FlatProperties
<1> QED BY <1>1, <1>2, <1>3, <1>4, GotType, ConcatProperties

\* A transfer moves parts from the rest to the stream, or begins a frame that is
\* missing then from both sides of the equation.
LEMMA TransferStep ==
  ASSUME FramesInv, NEW p \in Publisher, Transfer(p)
  PROVE  FramesInv'
<1>1. FramesTypeOK /\ FramesTypeOK'
  BY TypeStep DEF FramesInv, FramesNext
<1> SUFFICES ASSUME ~split' PROVE OneAtATime' /\ (recv' # Ended => Whole')
  BY <1>1 DEF FramesInv
<1>2. Sending(p) /\ UNCHANGED <<recv, results>>
  BY DEF Transfer
<1>3. ~split /\ \A q \in Publisher \ {p} : ~Begun(q)
  BY <1>1 DEF Transfer, FramesTypeOK
<1>4. PICK n \in 1 .. Len(Unsent(p)) :
        /\ stream' = stream \o SubSeq(Unsent(p), 1, n)
        /\ sends' = IF n = Len(Unsent(p)) THEN [sends EXCEPT ![p] = IdleSend]
                    ELSE [sends EXCEPT ![p].total = @ + n]
  BY DEF Transfer
<1> DEFINE u == Unsent(p)
           x == SubSeq(u, 1, n)
           e == sends[p].event
<1>5. OneAtATime' /\ Rest' \in Seq(Parts) /\ x \o Rest' = u
  BY <1>1, <1>2, <1>3, <1>4, TransferLeaves
<1>6. /\ e \in Event /\ sends[p].total \in Nat /\ u \in Seq(Parts)
      /\ Len(u) \in Nat /\ n \in Nat /\ n <= Len(u)
      /\ sends[p].total = 0 => u = Frame(e)
  <2>1. /\ e \in Event /\ sends[p].total \in Nat /\ u \in Seq(Parts) /\ Len(u) \in Nat
        /\ sends[p].total = 0 => u = Frame(e)
    BY <1>1, <1>2, UnsentParts
  <2>2. n \in Nat /\ n <= Len(u)
    BY <2>1
  <2> QED BY <2>1, <2>2
<1>7. x \in Seq(Parts)
  BY <1>6, Pieces
<1> SUFFICES ASSUME recv # Ended PROVE Whole'
  BY <1>2, <1>5
<1>8. OneAtATime /\ Whole
  BY <1>3 DEF FramesInv
<1> DEFINE k == Len(results)
           a == Flat(SubSeq(order, 1, k)) \o Got
<1>9. /\ k \in Nat /\ k <= Len(order) /\ order \in Seq(Event) /\ stream \in Seq(Parts)
      /\ a \in Seq(Parts) /\ Flat(order) \in Seq(Parts)
      /\ (a \o stream) \o Rest = Flat(order)
  BY <1>1, <1>8, WholeTypes DEF Whole
<1>10. Got' = Got /\ (Reading' <=> Reading)
  BY <1>2 DEF Got, Reading
<1>11. (a \o stream') \o Rest' = (a \o stream) \o u
  <2>1. (a \o (stream \o x)) \o Rest' = (a \o stream) \o (x \o Rest')
    <3>1. a \in Seq(Parts) /\ stream \in Seq(Parts) /\ Rest' \in Seq(Parts)
      BY <1>5, <1>9
    <3> HIDE DEF a, x, u, k
    <3>2. Regrouped(a, stream, x)
      BY <1>7, <3>1, Regroup
    <3>3. a \o stream \in Seq(Parts)
      BY <3>1, ConcatProperties
    <3>4. Regrouped(a \o stream, x, Rest')
      BY <1>7, <3>1, <3>3, Regroup
    <3> QED BY <3>2, <3>4 DEF Regrouped
  <2> QED BY <1>4, <1>5, <2>1
<1>12. CASE Begun(p)
  <2>1. order' = order
    BY <1>12 DEF Transfer
  <2>2. Rest = u
    BY <1>8, <1>12, RestIs, InSends
  <2>3. (a \o stream') \o Rest' = Flat(order)
    BY <1>9, <1>11, <2>2
  <2> QED BY <1>2, <1>8, <1>10, <2>1, <2>3 DEF Whole
<1>13. CASE ~Begun(p)
  <2>1. order' = Append(order, e)
    BY <1>13 DEF Transfer
  <2>2. u = Frame(e)
    BY <1>2, <1>6, <1>13 DEF Begun
  <2>3. Rest = << >>
    BY <1>3, <1>8, <1>13, RestIs, InSends
  <2>4. a \o stream = Flat(order)
    <3>1. a \o stream \in Seq(Parts)
      BY <1>9, ConcatProperties
    <3>2. (a \o stream) \o << >> = a \o stream
      BY <3>1, ConcatEmptySeq
    <3> QED BY <1>9, <2>3, <3>2
  <2>5. Flat(order') = Flat(order) \o Frame(e)
    BY <1>6, <1>9, <2>1, FlatProperties
  <2>6. (a \o stream') \o Rest' = Flat(order')
    BY <1>11, <2>2, <2>4, <2>5
  <2>7. /\ Len(order') = Len(order) + 1 /\ Len(order) \in Nat
        /\ order' \in Seq(Event)
        /\ \A i \in 1 .. Len(order) : order'[i] = order[i]
    BY <1>6, <1>9, <2>1, AppendProperties, LenProperties
  <2>8. SubSeq(order', 1, k) = SubSeq(order, 1, k)
    <3>1. /\ SubSeq(order', 1, k) \in Seq(Event) /\ Len(SubSeq(order', 1, k)) = k
          /\ SubSeq(order, 1, k) \in Seq(Event) /\ Len(SubSeq(order, 1, k)) = k
      BY <1>9, <2>7, Pieces
    <3>2. ASSUME NEW i \in 1 .. k PROVE SubSeq(order', 1, k)[i] = SubSeq(order, 1, k)[i]
      BY <1>9, <2>7
    <3> HIDE DEF k
    <3> QED BY <3>1, <3>2, SeqEqual
  <2>9. Flat(SubSeq(order', 1, k)) \o Got = a
    BY <2>8
  <2>10. \A i \in 1 .. k : results'[i] = {order'[i]}
    <3> SUFFICES ASSUME NEW i \in 1 .. k PROVE results'[i] = {order'[i]}
      OBVIOUS
    <3>1. i \in 1 .. Len(order)
      BY <1>9, <2>7
    <3> QED BY <1>2, <1>8, <2>7, <3>1 DEF Whole
  <2>11. Reading => /\ k < Len(order') /\ recv.size = Size(order'[k + 1])
    <3> SUFFICES ASSUME Reading PROVE k < Len(order') /\ recv.size = Size(order'[k + 1])
      OBVIOUS
    <3>1. k < Len(order) /\ recv.size = Size(order[k + 1])
      BY <1>8 DEF Whole
    <3>2. k + 1 \in 1 .. Len(order)
      BY <1>9, <2>7, <3>1
    <3> QED BY <1>9, <2>7, <3>1, <3>2
  <2>12. Len(results') = k /\ k <= Len(order') /\ recv' = recv
    BY <1>2, <1>9, <2>7
  <2> HIDE DEF k
  <2> QED BY <1>2, <1>10, <2>6, <2>9, <2>10, <2>11, <2>12 DEF Whole
<1> QED BY <1>12, <1>13

\* While results are due, the frame of the next one comes first.
LEMMA NextFrame ==
  ASSUME FramesTypeOK, OneAtATime, Whole, Len(results) < Len(order)
  PROVE  /\ order[Len(results) + 1] \in Event
         /\ SubSeq(order, 1, Len(results) + 1)
            = Append(SubSeq(order, 1, Len(results)), order[Len(results) + 1])
         /\ \E x \in Seq(Parts) : Got \o (stream \o Rest) = Frame(order[Len(results) + 1]) \o x
<1> DEFINE k == Len(results)
           b == Flat(SubSeq(order, 1, k))
           e == order[k + 1]
<1>1. /\ k \in Nat /\ order \in Seq(Event) /\ stream \in Seq(Parts)
      /\ b \in Seq(Parts) /\ Got \in Seq(Parts) /\ Rest \in Seq(Parts)
  BY WholeTypes, RestType
<1>2. /\ e \in Event /\ SubSeq(order, 1, k + 1) = Append(SubSeq(order, 1, k), e)
      /\ \E x \in Seq(Parts) : Flat(order) = (b \o Frame(e)) \o x
  BY <1>1, FlatSplit
<1>3. PICK x \in Seq(Parts) : Flat(order) = (b \o Frame(e)) \o x
  BY <1>2
<1>4. Frame(e) \in Seq(Parts)
  BY <1>2, FrameParts
<1>5. ((b \o Got) \o stream) \o Rest = Flat(order)
  BY DEF Whole
<1> HIDE DEF b, e, k
<1>6. Regrouped(b, Frame(e), x)
  BY <1>1, <1>4, Regroup
<1>7. ((b \o Got) \o stream) \o Rest = b \o (Got \o (stream \o Rest))
  <2>1. b \o Got \in Seq(Parts) /\ stream \o Rest \in Seq(Parts)
    BY <1>1, ConcatProperties
  <2>2. Regrouped(b \o Got, stream, Rest)
    BY <1>1, <2>1, Regroup
  <2>3. Regrouped(b, Got, stream \o Rest)
    BY <1>1, <2>1, Regroup
  <2> QED BY <2>2, <2>3 DEF Regrouped
<1>8. Frame(e) \o x \in Seq(Parts) /\ Got \o (stream \o Rest) \in Seq(Parts)
  BY <1>1, <1>4, ConcatProperties
<1>9. b \o (Got \o (stream \o Rest)) = b \o (Frame(e) \o x)
  BY <1>3, <1>5, <1>6, <1>7 DEF Regrouped
<1>10. Got \o (stream \o Rest) = Frame(e) \o x
  BY <1>1, <1>8, <1>9, ConcatSimplifications
<1> QED BY <1>2, <1>10 DEF k, e

\* When the subscriber waits and there is something to read, a result is due,
\* and the first part is that of its frame.
LEMMA HeadIsNext ==
  ASSUME FramesTypeOK, OneAtATime, Whole, ~Reading, stream # << >>
  PROVE  /\ Len(results) < Len(order)
         /\ Head(stream) = [of |-> order[Len(results) + 1], part |-> 1]
<1> DEFINE k == Len(results)
           b == Flat(SubSeq(order, 1, k))
           e == order[k + 1]
<1>1. /\ k \in Nat /\ Len(order) \in Nat /\ k <= Len(order)
      /\ order \in Seq(Event) /\ stream \in Seq(Parts)
      /\ b \in Seq(Parts) /\ Rest \in Seq(Parts) /\ Got = << >>
  BY WholeTypes, RestType DEF Got, Whole
<1>2. /\ Len(stream) \in Nat \ {0} /\ Len(Rest) \in Nat /\ stream \o Rest \in Seq(Parts)
      /\ Len(stream \o Rest) = Len(stream) + Len(Rest)
      /\ \A i \in 1 .. Len(stream) + Len(Rest) :
           (stream \o Rest)[i] = IF i <= Len(stream) THEN stream[i] ELSE Rest[i - Len(stream)]
  BY <1>1, ConcatProperties, LenProperties, EmptySeq
<1>3. (stream \o Rest)[1] = Head(stream)
  <2>1. 1 \in 1 .. Len(stream) + Len(Rest) /\ 1 <= Len(stream)
    BY <1>2
  <2>2. Head(stream) = stream[1]
    BY <1>1
  <2> QED BY <1>2, <2>1, <2>2
<1>4. ASSUME k = Len(order) PROVE FALSE
  <2>1. b = Flat(order)
    BY <1>1, <1>4, SubSeqFull
  <2>2. ((b \o Got) \o stream) \o Rest = b
    BY <2>1 DEF Whole
  <2> HIDE DEF b, k
  <2>3. b \o Got = b
    BY <1>1, ConcatEmptySeq
  <2>4. b \o (stream \o Rest) = b
    <3>1. Regrouped(b, stream, Rest)
      BY <1>1, Regroup
    <3> QED BY <2>2, <2>3, <3>1 DEF Regrouped
  <2>5. stream \o Rest = << >>
    BY <1>1, <1>2, <2>4, ConcatSimplifications
  <2>6. Len(stream \o Rest) = 0
    BY <2>5
  <2> QED BY <1>2, <2>6
<1>5. k < Len(order)
  BY <1>1, <1>4
<1>6. e \in Event /\ \E x \in Seq(Parts) : Got \o (stream \o Rest) = Frame(e) \o x
  BY <1>5, NextFrame
<1>7. PICK x \in Seq(Parts) : Got \o (stream \o Rest) = Frame(e) \o x
  BY <1>6
<1>8. Got \o (stream \o Rest) = stream \o Rest
  BY <1>1, <1>2, ConcatEmptySeq
<1> HIDE DEF e
<1>9. /\ Frame(e) \in Seq(Parts) /\ Len(Frame(e)) = 3 + e.data /\ e.data \in Nat
      /\ \A i \in 1 .. 3 + e.data : Frame(e)[i] = [of |-> e, part |-> i]
  BY <1>6, FrameParts
<1>10. (Frame(e) \o x)[1] = [of |-> e, part |-> 1]
  <2>1. /\ \A i \in 1 .. Len(Frame(e)) + Len(x) :
             (Frame(e) \o x)[i] = IF i <= Len(Frame(e)) THEN Frame(e)[i] ELSE x[i - Len(Frame(e))]
        /\ Len(x) \in Nat
    BY <1>9, ConcatProperties, LenProperties, SMTT(30)
  <2>2. 1 \in 1 .. Len(Frame(e)) + Len(x) /\ 1 <= Len(Frame(e)) /\ 1 \in 1 .. 3 + e.data
    BY <1>9, <2>1
  <2> QED BY <1>9, <2>1, <2>2
<1> QED BY <1>3, <1>5, <1>7, <1>8, <1>10 DEF e

\* A sequence is its head and its tail.
LEMMA HeadAndTail ==
  ASSUME NEW T, NEW s \in Seq(T), s # << >>
  PROVE  /\ <<Head(s)>> \in Seq(T) /\ Tail(s) \in Seq(T)
         /\ <<Head(s)>> \o Tail(s) = s
<1> DEFINE h == <<Head(s)>>
           t == Tail(s)
<1>1. /\ Head(s) \in T /\ t \in Seq(T) /\ Len(s) \in Nat \ {0} /\ Len(t) = Len(s) - 1
      /\ \A i \in 1 .. Len(t) : t[i] = s[i + 1]
  BY HeadTailProperties, EmptySeq
<1>2. h \in Seq(T) /\ Len(h) = 1 /\ h[1] = s[1]
  BY <1>1
<1> HIDE DEF h, t
<1>3. /\ h \o t \in Seq(T) /\ Len(h \o t) = Len(s)
      /\ \A i \in 1 .. Len(s) : (h \o t)[i] = IF i <= 1 THEN h[i] ELSE t[i - 1]
  <2>1. /\ h \o t \in Seq(T) /\ Len(h \o t) = Len(h) + Len(t)
        /\ \A i \in 1 .. Len(h) + Len(t) :
             (h \o t)[i] = IF i <= Len(h) THEN h[i] ELSE t[i - Len(h)]
    BY <1>1, <1>2, ConcatProperties
  <2>2. Len(h) + Len(t) = Len(s)
    BY <1>1, <1>2
  <2> QED BY <1>2, <2>1, <2>2
<1>4. ASSUME NEW i \in 1 .. Len(s) PROVE (h \o t)[i] = s[i]
  <2>1. CASE i = 1
    BY <1>2, <1>3, <2>1
  <2>2. CASE i # 1
    <3>1. i - 1 \in 1 .. Len(t) /\ ~(i <= 1) /\ i - 1 + 1 = i
      BY <1>1, <2>2
    <3> QED BY <1>1, <1>3, <3>1
  <2> QED BY <2>1, <2>2
<1>5. h \o t = s
  BY <1>3, <1>4, SeqEqual
<1> QED BY <1>1, <1>2, <1>5 DEF h, t

\* The steps of the subscriber leave the publishers alone.
LEMMA RestSame ==
  ASSUME OneAtATime, UNCHANGED sends
  PROVE  OneAtATime' /\ Rest' = Rest
BY InSends

\* A header moves from the stream to the subscriber: it is the next frame's, unless
\* some frame has been left before its end.
LEMMA HeaderStep ==
  ASSUME FramesInv, NEW call \in {"event", "op"}, ReadHeader(call)
  PROVE  FramesInv'
<1>1. FramesTypeOK /\ FramesTypeOK'
  BY TypeStep DEF FramesInv, FramesNext
<1> SUFFICES ASSUME ~split' PROVE OneAtATime' /\ Whole'
  BY <1>1 DEF FramesInv
<1>2. recv = Waiting /\ stream # << >> /\ stream' = Tail(stream) /\ UNCHANGED <<sends, order>>
  BY DEF ReadHeader
<1>3. PICK size \in IF Head(stream).part = 1 THEN {Size(Head(stream).of)} ELSE Sizes :
        /\ recv' = [at |-> call, size |-> size, got |-> <<Head(stream)>>]
        /\ UNCHANGED <<results, split>>
  BY DEF ReadHeader, Refuse
<1>4. OneAtATime /\ Whole /\ ~Reading
  BY <1>2, <1>3 DEF FramesInv, Reading, Waiting, Ended
<1>5. OneAtATime' /\ Rest' = Rest
  BY <1>2, <1>4, RestSame
<1> DEFINE k == Len(results)
           b == Flat(SubSeq(order, 1, k))
           e == order[k + 1]
           h == <<Head(stream)>>
<1>6. k < Len(order) /\ Head(stream) = [of |-> e, part |-> 1]
  BY <1>1, <1>2, <1>4, HeadIsNext
<1>7. size = Size(e)
  BY <1>3, <1>6
<1>8. Reading' /\ Got' = h /\ recv'.size = size
  BY <1>3 DEF Reading, Got
<1>9. ((b \o h) \o Tail(stream)) \o Rest = Flat(order)
  <2>1. ((b \o Got) \o stream) \o Rest = Flat(order)
    BY <1>4 DEF Whole
  <2>2. Got = << >> /\ b \in Seq(Parts) /\ stream \in Seq(Parts)
    BY <1>1, <1>4, WholeTypes DEF Got
  <2> HIDE DEF b
  <2>3. b \o Got = b
    BY <2>2, ConcatEmptySeq
  <2>4. h \in Seq(Parts) /\ Tail(stream) \in Seq(Parts) /\ h \o Tail(stream) = stream
    BY <1>2, <2>2, HeadAndTail
  <2>5. Regrouped(b, h, Tail(stream))
    <3> HIDE DEF h
    <3> QED BY <2>2, <2>4, Regroup
  <2> HIDE DEF h
  <2> QED BY <2>1, <2>3, <2>4, <2>5 DEF Regrouped
<1>10. /\ Len(results) <= Len(order)
       /\ \A i \in 1 .. Len(results) : results[i] = {order[i]}
  BY <1>4 DEF Whole
<1>11. ((b \o Got') \o stream') \o Rest' = Flat(order)
  BY <1>2, <1>5, <1>8, <1>9
<1>12. order' = order /\ results' = results
  BY <1>2, <1>3
<1> QED BY <1>5, <1>6, <1>7, <1>8, <1>10, <1>11, <1>12 DEF Whole

\* A read moves parts from the stream to the subscriber.
LEMMA ReadStep ==
  ASSUME FramesInv, Read
  PROVE  FramesInv'
<1>1. FramesTypeOK /\ FramesTypeOK'
  BY TypeStep DEF FramesInv, FramesNext
<1> SUFFICES ASSUME ~split' PROVE OneAtATime' /\ Whole'
  BY <1>1 DEF FramesInv
<1>2. Reading /\ ~split /\ UNCHANGED <<sends, order, results>>
  BY DEF Read
<1>3. OneAtATime /\ Whole
  BY <1>2 DEF FramesInv, Reading, Ended
<1>4. OneAtATime' /\ Rest' = Rest
  BY <1>2, <1>3, RestSame
<1>5. PICK n \in 1 .. Target - Len(recv.got) :
        /\ n <= Len(stream)
        /\ recv' = [recv EXCEPT !.got = @ \o SubSeq(stream, 1, n)]
        /\ stream' = SubSeq(stream, n + 1, Len(stream))
  BY DEF Read
<1> DEFINE x == SubSeq(stream, 1, n)
           b == Flat(SubSeq(order, 1, Len(results)))
<1>6. recv \in [at : {"event", "op", "msg", "data"}, size : Sizes, got : Seq(Parts)]
  BY <1>1, <1>2 DEF Reading, FramesTypeOK, Waiting, Ended
<1>7. Reading' /\ Got = recv.got /\ Got' = Got \o x /\ recv'.size = recv.size
  BY <1>2, <1>5, <1>6 DEF Reading, Got
<1>8. b \in Seq(Parts) /\ Got \in Seq(Parts) /\ stream \in Seq(Parts)
  BY <1>1, <1>3, WholeTypes
<1>9. x \in Seq(Parts) /\ stream' \in Seq(Parts) /\ x \o stream' = stream
  <2>1. n \in Nat
    BY <1>5
  <2> QED BY <1>5, <1>8, <2>1, Pieces
<1>10. (b \o Got') \o stream' = (b \o Got) \o stream
  <2> HIDE DEF b, x
  <2>1. b \o Got \in Seq(Parts)
    BY <1>8, ConcatProperties
  <2>2. Regrouped(b, Got, x)
    BY <1>8, <1>9, Regroup
  <2>3. Regrouped(b \o Got, x, stream')
    BY <1>9, <2>1, Regroup
  <2> QED BY <1>7, <1>9, <2>2, <2>3 DEF Regrouped
<1>11. ((b \o Got') \o stream') \o Rest' = Flat(order)
  BY <1>3, <1>4, <1>10 DEF Whole
<1>12. /\ Len(results) < Len(order) /\ recv'.size = Size(order[Len(results) + 1])
       /\ Len(results) <= Len(order)
       /\ \A i \in 1 .. Len(results) : results[i] = {order[i]}
  BY <1>2, <1>3, <1>7 DEF Whole
<1> QED BY <1>2, <1>4, <1>7, <1>11, <1>12 DEF Whole

\* The checks in between move nothing.
LEMMA ReadMsgStep ==
  ASSUME FramesInv, ReadOp \/ ReadMsg
  PROVE  FramesInv'
<1>1. FramesTypeOK /\ FramesTypeOK'
  BY TypeStep DEF FramesInv, FramesNext
<1> SUFFICES ASSUME ~split' PROVE OneAtATime' /\ Whole'
  BY <1>1 DEF FramesInv
<1>2. /\ Reading /\ ~split /\ UNCHANGED <<sends, order, results>> /\ stream' = stream
      /\ \E at \in {"msg", "data"} : recv' = [recv EXCEPT !.at = at]
  BY DEF ReadOp, ReadMsg, Refuse, Reading
<1>3. OneAtATime /\ Whole
  BY <1>2 DEF FramesInv, Reading, Ended
<1>4. OneAtATime' /\ Rest' = Rest
  BY <1>2, <1>3, RestSame
<1>5. recv \in [at : {"event", "op", "msg", "data"}, size : Sizes, got : Seq(Parts)]
  BY <1>1, <1>2 DEF Reading, FramesTypeOK, Waiting, Ended
<1>6. Reading' /\ Got' = Got /\ recv'.size = recv.size
  BY <1>2, <1>5 DEF Reading, Got
<1> QED BY <1>2, <1>3, <1>4, <1>6 DEF Whole

\* What has the length of the next frame is the next frame.
LEMMA ReceivedStep ==
  ASSUME FramesInv, Received
  PROVE  FramesInv'
<1>1. FramesTypeOK /\ FramesTypeOK'
  BY TypeStep DEF FramesInv, FramesNext
<1> SUFFICES ASSUME ~split' PROVE OneAtATime' /\ Whole'
  BY <1>1 DEF FramesInv
<1>2. /\ recv.at \in {"event", "data"} /\ Len(recv.got) = Target /\ Reading
      /\ ~split /\ UNCHANGED <<sends, order>> /\ stream' = stream
      /\ results' = Append(results, {f \in Event : recv.got = Frame(f)})
      /\ recv' = Waiting
  BY DEF Received, Return, Reading
<1>3. OneAtATime /\ Whole
  BY <1>2 DEF FramesInv, Ended
<1>4. OneAtATime' /\ Rest' = Rest
  BY <1>2, <1>3, RestSame
<1> DEFINE k == Len(results)
           b == Flat(SubSeq(order, 1, k))
           e == order[k + 1]
           F == Frame(e)
<1>5. /\ k \in Nat /\ Len(order) \in Nat /\ k < Len(order) /\ recv.size = Size(e)
      /\ stream \in Seq(Parts) /\ b \in Seq(Parts) /\ Got \in Seq(Parts) /\ Rest \in Seq(Parts)
      /\ results \in Seq(SUBSET Event) /\ SubSeq(order, 1, k) \in Seq(Event)
  BY <1>1, <1>2, <1>3, WholeTypes, RestType DEF Whole
<1>6. /\ e \in Event /\ SubSeq(order, 1, k + 1) = Append(SubSeq(order, 1, k), e)
      /\ \E x \in Seq(Parts) : Got \o (stream \o Rest) = F \o x
  BY <1>1, <1>3, <1>5, NextFrame
<1>7. F \in Seq(Parts) /\ Len(F) = 3 + e.data /\ Size(e) = 2 + e.data /\ e.data \in Nat
  BY <1>6, FrameParts
<1>8. Got = recv.got /\ Len(Got) = Len(F)
  <2>1. Got = recv.got
    BY <1>2 DEF Got
  <2>2. Target = recv.size + 1
    BY <1>2 DEF Target
  <2> QED BY <1>2, <1>5, <1>7, <2>1, <2>2
<1>9. Got = F
  <2>1. PICK x \in Seq(Parts) : Got \o (stream \o Rest) = F \o x
    BY <1>6
  <2>2. stream \o Rest \in Seq(Parts)
    BY <1>5, ConcatProperties
  <2> HIDE DEF F
  <2> QED BY <1>5, <1>7, <1>8, <2>1, <2>2, SameStart
<1>10. {f \in Event : recv.got = Frame(f)} = {e}
  <2>1. ASSUME NEW f \in Event, F = Frame(f) PROVE f = e
    <3>1. 1 \in 1 .. 3 + f.data /\ 1 \in 1 .. 3 + e.data
      BY <1>7, <2>1, FramesAssumption
    <3>2. Frame(f)[1] = [of |-> f, part |-> 1] /\ F[1] = [of |-> e, part |-> 1]
      BY <1>6, <3>1, FrameParts
    <3> QED BY <2>1, <3>2
  <2> HIDE DEF e
  <2> QED BY <1>6, <1>8, <1>9, <2>1 DEF F
<1>11. Flat(SubSeq(order, 1, k + 1)) = b \o F /\ b \o F \in Seq(Parts)
  BY <1>5, <1>6, <1>7, FlatProperties, ConcatProperties
<1>12. ~Reading' /\ Got' = << >>
  BY <1>2 DEF Reading, Got, Waiting
<1>13. ((Flat(SubSeq(order, 1, k + 1)) \o Got') \o stream') \o Rest' = Flat(order)
  <2>1. (b \o F) \o << >> = b \o F
    BY <1>11, ConcatEmptySeq
  <2>2. ((b \o Got) \o stream) \o Rest = Flat(order)
    BY <1>3 DEF Whole
  <2> HIDE DEF b, F
  <2> QED BY <1>2, <1>4, <1>9, <1>11, <1>12, <2>1, <2>2
<1>14. /\ Len(results') = k + 1 /\ results'[k + 1] = {e}
       /\ \A i \in 1 .. k : results'[i] = results[i]
  <2>1. results' = Append(results, {e}) /\ {e} \in SUBSET Event
    BY <1>2, <1>6, <1>10
  <2> HIDE DEF e
  <2> QED BY <1>5, <2>1, AppendProperties
<1>15. \A i \in 1 .. k + 1 : results'[i] = {order[i]}
  <2> SUFFICES ASSUME NEW i \in 1 .. k + 1 PROVE results'[i] = {order[i]}
    OBVIOUS
  <2>1. CASE i = k + 1
    BY <1>14, <2>1
  <2>2. CASE i # k + 1
    <3>1. i \in 1 .. k
      BY <1>5, <2>2
    <3> QED BY <1>3, <1>14, <3>1 DEF Whole
  <2> QED BY <2>1, <2>2
<1>16. k + 1 <= Len(order)
  BY <1>5
<1> HIDE DEF k
<1> QED BY <1>2, <1>4, <1>12, <1>13, <1>14, <1>15, <1>16 DEF Whole

\* The types, and that nothing is missing, doubled or out of place.
LEMMA FramesInvariant == FramesSpec => []FramesInv
<1>1. FramesInit => FramesInv
  <2> SUFFICES ASSUME FramesInit PROVE FramesInv
    OBVIOUS
  <2>1. FramesTypeOK
    BY FramesTypeStart
  <2>2. \A p \in Publisher : ~Begun(p)
    BY DEF FramesInit, Begun, Sending, IdleSend
  <2>3. OneAtATime /\ Rest = << >>
    <3>1. OneAtATime
      BY <2>2 DEF OneAtATime
    <3> QED BY <2>2, <3>1, RestIs, InSends
  <2>4. ~Reading /\ Got = << >>
    BY DEF FramesInit, Reading, Got, Waiting
  <2>5. /\ stream = << >> /\ order = << >> /\ results = << >> /\ Len(<< >>) = 0
        /\ SubSeq(<< >>, 1, 0) = << >> /\ Flat(<< >>) = << >>
    BY FlatProperties, SubSeqEmpty DEF FramesInit
  <2>6. Whole
    <3>1. ((Flat(SubSeq(order, 1, Len(results))) \o Got) \o stream) \o Rest = Flat(order)
      <4>1. << >> \o << >> = << >>
        BY EmptySeq, ConcatEmptySeq
      <4> QED BY <2>3, <2>4, <2>5, <4>1
    <3> QED BY <2>4, <2>5, <3>1 DEF Whole
  <2> QED BY <2>1, <2>3, <2>6 DEF FramesInv
<1>2. ASSUME FramesInv, [FramesNext]_frameVars PROVE FramesInv'
  <2>1. FramesTypeOK'
    BY <1>2, TypeStep DEF FramesInv
  <2>2. CASE Close \/ UNCHANGED frameVars
    <3>1. UNCHANGED <<stream, sends, order, recv, results, split>>
      BY <2>2 DEF Close, frameVars
    <3>2. OneAtATime => OneAtATime' /\ Rest' = Rest
      BY <3>1, RestSame
    <3> QED BY <1>2, <2>1, <3>1, <3>2, WholeStays DEF FramesInv
  <2>3. CASE EndOfFile
    <3>1. UNCHANGED <<sends, split>> /\ recv' = Ended
      BY <2>3 DEF EndOfFile
    <3>2. OneAtATime => OneAtATime'
      BY <3>1, RestSame
    <3> QED BY <1>2, <2>1, <3>1, <3>2 DEF FramesInv
  <2> QED BY <1>2, <2>2, <2>3, SendStep, TransferStep, HeaderStep, ReadStep, ReadMsgStep,
             ReceivedStep DEF FramesNext
<1> QED BY <1>1, <1>2, PTL DEF FramesSpec

\* What the subscriber's calls return is what was published, whole and in order,
\* with nothing missing, doubled or out of place up to the end of what was
\* begun, however std_socket_op and std_read cut the frames up: unless a
\* publisher gives up within a frame, two write at once, or a frame is refused.
THEOREM MessagesAreWhole == FramesSpec => []MessagesComeWhole
<1>1. ASSUME FramesInv PROVE MessagesComeWhole
  <2> SUFFICES ASSUME ~split, recv # Ended
               PROVE  /\ \A i \in DOMAIN results : results[i] = {order[i]}
                      /\ Flat(SubSeq(order, 1, Len(results)))
                         \o (IF Reading THEN recv.got ELSE << >>) \o stream \o Rest = Flat(order)
    BY DEF MessagesComeWhole
  <2>1. Whole /\ results \in Seq(SUBSET Event)
    BY <1>1 DEF FramesInv, FramesTypeOK
  <2>2. DOMAIN results = 1 .. Len(results)
    BY <2>1, LenProperties
  <2> QED BY <2>1, <2>2 DEF Whole, Got
<1> QED BY <1>1, FramesInvariant, PTL

----------------------------------------------------------------------------
(* Command redirection: any number of clients and any size of the          *)
(* console's buffers.                                                      *)

\* The number of the output chunk that left the console last.
Taken == printed - Len(out)

\* A connection that is served is the reader's client, and nobody has seen
\* anything who has not been served yet.
ClientInv ==
  /\ Serving \/ phase = "accepted" => client \in Client /\ conn[client] = "served"
  /\ \A c \in Client : conn[c] \in {"new", "queued"} => seen[c] = << >>

\* The console holds the chunks after the last that left it, m_buff that one
\* unless a client's input is there.
ConsoleInv ==
  /\ Len(out) <= printed
  /\ \A i \in 1 .. Len(out) : out[i] = Taken + i
  /\ buff.by = NoClient => buff.n = Taken

\* What the client that is served has seen last left the console last.
LastSeen(c) == seen[c][Len(seen[c])]

LastInv ==
  (Serving \/ phase = "accepted") /\ seen[client] # << >> /\ LastSeen(client).by = NoClient
    => LastSeen(client).n = Taken

\* What select found in the console stays there: only the reader takes it.
ReadyInv == phase = "copy" /\ "console" \in ready => out # << >>

\* A request is for the client that is served.
FlagInv == Serving /\ flag => wanted = client

\* The chunk after one of the shell's is the shell's next.
NoGap(s) == \A i \in 2 .. Len(s) : s[i - 1].by = NoClient => s[i].n = s[i - 1].n + 1

RedirInv ==
  /\ RedirTypeOK /\ ClientInv /\ ConsoleInv /\ LastInv /\ ReadyInv /\ FlagInv
  /\ \A c \in Client : NoGap(seen[c])
----------------------------------------------------------------------------
\* Appending to a sequence without gap the chunk after its last leaves no gap.
LEMMA NoGapAppend ==
  ASSUME NEW s \in Seq(Chunk), NoGap(s), NEW e \in Chunk,
         s # << >> /\ s[Len(s)].by = NoClient => e.n = s[Len(s)].n + 1
  PROVE  NoGap(Append(s, e))
<1> DEFINE t == Append(s, e)
<1>1. /\ Len(s) \in Nat /\ Len(t) = Len(s) + 1
      /\ \A i \in 1 .. Len(s) : t[i] = s[i]
      /\ t[Len(s) + 1] = e
  BY AppendProperties, LenProperties
<1> HIDE DEF t
<1> SUFFICES ASSUME NEW i \in 2 .. Len(t), t[i - 1].by = NoClient
             PROVE  t[i].n = t[i - 1].n + 1
  BY DEF NoGap, t
<1>2. CASE i = Len(s) + 1
  <2>1. s # << >> /\ i - 1 = Len(s) /\ i - 1 \in 1 .. Len(s)
    BY <1>1, <1>2
  <2> QED BY <1>1, <1>2, <2>1
<1>3. CASE i \in 2 .. Len(s)
  BY <1>1, <1>3, SMTT(30) DEF NoGap
<1> QED BY <1>1, <1>2, <1>3

\* The console after one chunk has been taken.
LEMMA TakeOne ==
  ASSUME RedirTypeOK, ConsoleInv, out # << >>, out' = Tail(out), printed' = printed
  PROVE  /\ Taken' = Taken + 1 /\ Head(out) = Taken + 1
         /\ Len(out') <= printed' /\ Len(out') < Len(out)
         /\ \A i \in 1 .. Len(out') : out'[i] = Taken' + i
         /\ out' \in Seq(1 .. MaxOut) /\ Head(out) \in 1 .. MaxOut
<1> DEFINE S == 1 .. MaxOut
<1>0. out \in Seq(S)
  BY DEF RedirTypeOK
<1> HIDE DEF S
<1>1. /\ Len(out) \in Nat \ {0} /\ Len(out') = Len(out) - 1
      /\ \A i \in 1 .. Len(out') : out'[i] = out[i + 1]
      /\ Head(out) = out[1] /\ out' \in Seq(S) /\ Head(out) \in S
  BY <1>0, HeadTailProperties, LenProperties, EmptySeq
<1>2. printed \in Nat
  BY DEF RedirTypeOK
<1> QED BY <1>1, <1>2 DEF ConsoleInv, Taken, S

\* The chunk that is flushed left the console last, whatever there was to take.
LEMMA FlushEffect ==
  ASSUME RedirTypeOK, ConsoleInv, out' = Drained, buff' = Flushed, printed' = printed
  PROVE  /\ ConsoleInv' /\ Flushed \in Chunk
         /\ out' \in Seq(1 .. MaxOut) /\ Len(out') <= OutRoom
         /\ Flushed.by = NoClient => Flushed.n = Taken'
<1>1. CASE out = << >>
  BY <1>1 DEF Drained, Flushed, ConsoleInv, Taken, RedirTypeOK
<1>2. CASE out # << >>
  <2>1. out' = Tail(out) /\ Flushed = [by |-> NoClient, n |-> Head(out)]
    BY <1>2 DEF Drained, Flushed
  <2>2. /\ Taken' = Taken + 1 /\ Head(out) = Taken + 1
        /\ Len(out') <= printed' /\ Len(out') < Len(out)
        /\ \A i \in 1 .. Len(out') : out'[i] = Taken' + i
        /\ out' \in Seq(1 .. MaxOut) /\ Head(out) \in 1 .. MaxOut
    BY <1>2, <2>1, TakeOne
  <2>3. ConsoleInv' /\ Flushed.n = Taken'
    BY <2>1, <2>2 DEF ConsoleInv
  <2>4. Flushed \in Chunk
    BY <2>1, <2>2, RedirAssumption DEF Chunk
  <2>5. Len(out') <= OutRoom
    <3>1. Len(out) \in Nat /\ Len(out') \in Nat /\ Len(out) <= OutRoom /\ OutRoom \in Nat
      BY <2>2, LenProperties, RedirAssumption DEF RedirTypeOK
    <3> QED BY <2>2, <3>1
  <2> QED BY <2>2, <2>3, <2>4, <2>5
<1> QED BY <1>1, <1>2
----------------------------------------------------------------------------
\* The steps of the shell and of the clients, and std_cmd_redir_init.
OutsideStep ==
  \/ StdCmdRedirInit \/ StartShell \/ ShellPrints \/ ShellReads \/ TermConn
  \/ \E c \in Client : Connect(c) \/ Type(c) \/ HangUp(c)

\* They take nothing from the console and do not touch the reader's client: what
\* the shell prints comes after what the console holds, and std_cmd_redir_term_conn
\* asks for the end of the connection there is.
LEMMA OutsideKeeps ==
  ASSUME RedirInv, OutsideStep
  PROVE  RedirInv'
<1> USE DEF Started, Serving
<1>0. /\ RedirTypeOK /\ ClientInv /\ ConsoleInv /\ LastInv /\ ReadyInv /\ FlagInv
      /\ \A c \in Client : NoGap(seen[c])
  BY DEF RedirInv
<1>1. CASE ShellPrints
  <2>1. /\ Len(out) \in Nat /\ Len(out') = Len(out) + 1
        /\ \A i \in 1 .. Len(out) : out'[i] = out[i]
        /\ out'[Len(out) + 1] = printed + 1
        /\ out' \in Seq(1 .. MaxOut)
        /\ printed \in 0 .. MaxOut /\ printed' \in 0 .. MaxOut /\ printed' = printed + 1
    <3> DEFINE S == 1 .. MaxOut
    <3>1. out \in Seq(S) /\ printed + 1 \in S /\ printed' = printed + 1
          /\ printed \in 0 .. MaxOut /\ printed' \in 0 .. MaxOut
      BY <1>0, <1>1, RedirAssumption DEF ShellPrints, RedirTypeOK
    <3> HIDE DEF S
    <3>2. out' = Append(out, printed + 1)
      BY <1>1 DEF ShellPrints
    <3>3. /\ Len(out) \in Nat /\ Len(out') = Len(out) + 1
          /\ \A i \in 1 .. Len(out) : out'[i] = out[i]
          /\ out'[Len(out) + 1] = printed + 1
          /\ out' \in Seq(S)
      BY <3>1, <3>2, AppendProperties, LenProperties
    <3> QED BY <3>1, <3>3 DEF S
  <2>2. Taken' = Taken
    BY <2>1 DEF Taken
  <2>3. UNCHANGED <<phase, shell, client, flag, wanted, conn, hung, typed, terms, in, buff, ready, seen, stdio>>
    BY <1>1 DEF ShellPrints
  <2>4. Len(out') <= OutRoom
    BY <1>1, <2>1, RedirAssumption DEF ShellPrints
  <2>5. RedirTypeOK'
    BY <1>0, <2>1, <2>3, <2>4 DEF RedirTypeOK
  <2>6. ConsoleInv'
    BY <1>0, <2>1, <2>2, <2>3, SMTT(30) DEF ConsoleInv, Taken
  <2>7. out' # << >>
    BY <2>1, EmptySeq
  <2> QED BY <1>0, <2>2, <2>3, <2>5, <2>6, <2>7 DEF RedirInv, ClientInv, LastInv, ReadyInv, LastSeen, FlagInv
<1>2. CASE StdCmdRedirInit \/ StartShell \/ ShellReads \/ TermConn \/ \E c \in Client : Connect(c) \/ Type(c) \/ HangUp(c)
  <2>1. UNCHANGED <<client, out, printed, buff, seen, ready>>
    BY <1>2 DEF StdCmdRedirInit, StartShell, ShellReads, TermConn, Connect, Type, HangUp, outside
  <2>2. RedirTypeOK'
    <3>1. CASE StdCmdRedirInit
      BY <1>0, <3>1 DEF RedirTypeOK, StdCmdRedirInit, outside
    <3>7. CASE StartShell
      BY <1>0, <3>7 DEF RedirTypeOK, StartShell, outside
    <3>2. CASE ShellReads
      <4>1. in' \in 0 .. InRoom
        BY <1>0, <3>2, RedirAssumption DEF RedirTypeOK, ShellReads
      <4> QED BY <1>0, <3>2, <4>1 DEF RedirTypeOK, ShellReads, outside
    <3>3. CASE TermConn
      <4>1. terms' \in 0 .. MaxTerms
        BY <1>0, <3>3, RedirAssumption DEF RedirTypeOK, TermConn
      <4>2. UNCHANGED <<shell, conn, hung, typed, printed, phase, client, out, in, buff, ready, seen, stdio>>
        BY <3>3 DEF TermConn
      <4>3. flag' \in BOOLEAN /\ wanted' \in Client \cup {NoClient}
        BY <1>0, <3>3 DEF RedirTypeOK, TermConn
      <4> QED BY <1>0, <4>1, <4>2, <4>3 DEF RedirTypeOK
    <3>4. ASSUME NEW c \in Client, Connect(c) PROVE RedirTypeOK'
      BY <1>0, <3>4 DEF RedirTypeOK, Connect
    <3>5. ASSUME NEW c \in Client, Type(c) PROVE RedirTypeOK'
      <4>1. typed' \in [Client -> 0 .. MaxIn]
        BY <1>0, <3>5, RedirAssumption DEF RedirTypeOK, Type
      <4> QED BY <1>0, <3>5, <4>1 DEF RedirTypeOK, Type
    <3>6. ASSUME NEW c \in Client, HangUp(c) PROVE RedirTypeOK'
      BY <1>0, <3>6 DEF RedirTypeOK, HangUp
    <3> QED BY <1>2, <3>1, <3>2, <3>3, <3>4, <3>5, <3>6, <3>7
  <2>3. /\ Serving' \/ phase' = "accepted" => phase' = phase
        /\ \A c \in Client : conn'[c] \in {"new", "queued"} => conn[c] \in {"new", "queued"}
        /\ \A c \in Client : conn[c] = "served" => conn'[c] = "served"
    BY <1>0, <1>2 DEF RedirTypeOK, StdCmdRedirInit, StartShell, ShellReads, TermConn, Connect, Type, HangUp, outside
  <2>4. Serving' /\ flag' => wanted' = client'
    BY <1>0, <1>2, <2>3 DEF FlagInv, StdCmdRedirInit, StartShell, ShellReads, TermConn, Connect, Type, HangUp, outside
  <2>5. ConsoleInv' /\ \A c \in Client : NoGap(seen[c])'
    BY <1>0, <2>1 DEF ConsoleInv, Taken
  <2>6. FlagInv' /\ ReadyInv'
    BY <1>0, <2>1, <2>3, <2>4 DEF FlagInv, ReadyInv
  <2>7. ClientInv'
    <3>1. ASSUME Serving' \/ phase' = "accepted" PROVE client' \in Client /\ conn'[client'] = "served"
      <4>1. client \in Client /\ conn[client] = "served" /\ client' = client
        BY <1>0, <2>1, <2>3, <3>1 DEF ClientInv
      <4> QED BY <2>3, <4>1
    <3>2. ASSUME NEW c \in Client, conn'[c] \in {"new", "queued"} PROVE seen'[c] = << >>
      BY <1>0, <2>1, <2>3, <3>2 DEF ClientInv
    <3> QED BY <3>1, <3>2 DEF ClientInv
  <2>8. LastInv'
    BY <1>0, <2>1, <2>3 DEF LastInv, LastSeen, Taken
  <2> QED BY <2>2, <2>5, <2>6, <2>7, <2>8 DEF RedirInv
<1> QED BY <1>1, <1>2 DEF OutsideStep

\* wait_for_connection: a client begins with what was thrown away last, which is
\* still in m_buff, or with nothing.
LEMMA AcceptKeeps ==
  ASSUME RedirInv, NEW c \in Client, Accept(c)
  PROVE  RedirInv'
<1>0. /\ RedirTypeOK /\ ClientInv /\ ConsoleInv /\ LastInv /\ ReadyInv /\ FlagInv
      /\ \A d \in Client : NoGap(seen[d])
  BY DEF RedirInv
<1>1. /\ phase = "wait" /\ conn[c] = "queued" /\ seen[c] = << >>
      /\ out' = Drained /\ buff' = Flushed
      /\ UNCHANGED <<shell, hung, typed, printed, terms, flag, wanted, in, ready, stdio>>
  BY <1>0 DEF Accept, Queued, ClientInv
<1>2. /\ ConsoleInv' /\ Flushed \in Chunk
      /\ out' \in Seq(1 .. MaxOut) /\ Len(out') <= OutRoom
      /\ Flushed.by = NoClient => Flushed.n = Taken'
  BY <1>0, <1>1, FlushEffect
<1>3. CASE conn' = [conn EXCEPT ![c] = "closed"] /\ phase' = BackToWait /\ UNCHANGED <<client, seen>>
  <2>1. RedirTypeOK'
    BY <1>0, <1>1, <1>2, <1>3 DEF RedirTypeOK, BackToWait
  <2>2. ClientInv' /\ LastInv' /\ ReadyInv' /\ FlagInv'
    BY <1>0, <1>1, <1>3 DEF ClientInv, LastInv, ReadyInv, FlagInv, Serving, RedirTypeOK, BackToWait
  <2> QED BY <1>0, <1>2, <1>3, <2>1, <2>2 DEF RedirInv
<1>4. CASE /\ conn' = [conn EXCEPT ![c] = "served"]
           /\ seen' = [seen EXCEPT ![c] = IF Flushed = NoChunk THEN @ ELSE <<Flushed>>]
           /\ phase' = "accepted" /\ client' = c
  <2>1. /\ <<Flushed>> \in Seq(Chunk) /\ << >> \in Seq(Chunk)
        /\ Len(<<Flushed>>) = 1 /\ <<Flushed>>[1] = Flushed /\ Len(<< >>) = 0
    BY <1>2
  <2>2. /\ seen' \in [Client -> Seq(Chunk)]
        /\ seen'[c] = << >> \/ seen'[c] = <<Flushed>>
        /\ \A d \in Client : d # c => seen'[d] = seen[d]
    BY <1>0, <1>1, <1>4, <2>1 DEF RedirTypeOK
  <2>3. RedirTypeOK'
    BY <1>0, <1>1, <1>2, <1>4, <2>2 DEF RedirTypeOK
  <2>4. NoGap(seen'[c])
    BY <2>1, <2>2 DEF NoGap
  <2>5. LastInv'
    BY <1>2, <1>4, <2>1, <2>2 DEF LastInv, LastSeen
  <2>6. ClientInv' /\ ReadyInv' /\ FlagInv'
    BY <1>0, <1>4, <2>2 DEF ClientInv, ReadyInv, FlagInv, Serving, RedirTypeOK
  <2> QED BY <1>0, <1>2, <2>2, <2>3, <2>4, <2>5, <2>6 DEF RedirInv
<1> QED BY <1>3, <1>4 DEF Accept

\* console_reader copies the output in the order in which it was printed, and the
\* client that is served has seen what left the console before.
LEMMA CopyOutKeeps ==
  ASSUME RedirInv, CopyOut
  PROVE  RedirInv'
<1> DEFINE chunk == [by |-> NoClient, n |-> Head(out)]
<1>0. /\ RedirTypeOK /\ ClientInv /\ ConsoleInv /\ LastInv /\ ReadyInv /\ FlagInv
      /\ \A d \in Client : NoGap(seen[d])
  BY DEF RedirInv
<1>1. /\ phase = "copy" /\ out # << >> /\ client \in Client /\ out' = Tail(out) /\ buff' = chunk
      /\ UNCHANGED <<shell, hung, typed, printed, terms, flag, wanted, in, stdio>>
  BY <1>0 DEF CopyOut, ClientInv, ReadyInv, Serving
<1>2. /\ Taken' = Taken + 1 /\ Head(out) = Taken + 1
      /\ Len(out') <= printed' /\ Len(out') < Len(out)
      /\ \A i \in 1 .. Len(out') : out'[i] = Taken' + i
      /\ out' \in Seq(1 .. MaxOut) /\ Head(out) \in 1 .. MaxOut
  BY <1>0, <1>1, TakeOne
<1>3. chunk \in Chunk /\ chunk.by = NoClient /\ chunk.n = Taken + 1 /\ chunk.n = Taken'
  BY <1>2 DEF Chunk
<1>4. Len(out') <= OutRoom
  <2>1. Len(out) \in Nat /\ Len(out') \in Nat /\ Len(out) <= OutRoom /\ OutRoom \in Nat
    BY <1>0, <1>2, LenProperties, RedirAssumption DEF RedirTypeOK
  <2> QED BY <1>2, <2>1
<1>5. ConsoleInv'
  BY <1>1, <1>2, <1>3 DEF ConsoleInv
<1> HIDE DEF chunk
<1>6. CASE /\ seen' = [seen EXCEPT ![client] = Append(@, chunk)]
           /\ ready' = ready \ {"console"}
           /\ phase' = IF ready' = {} THEN "top" ELSE "copy"
           /\ UNCHANGED <<conn, client>>
  <2>1. seen[client] \in Seq(Chunk) /\ seen'[client] = Append(seen[client], chunk)
        /\ \A d \in Client : d # client => seen'[d] = seen[d]
    BY <1>0, <1>1, <1>6 DEF RedirTypeOK
  <2>2. /\ seen'[client] \in Seq(Chunk) /\ Len(seen'[client]) = Len(seen[client]) + 1
        /\ seen'[client][Len(seen[client]) + 1] = chunk
    BY <1>3, <2>1, AppendProperties
  <2>3. LastSeen(client)' = chunk
    BY <1>6, <2>2 DEF LastSeen
  <2>4. NoGap(seen'[client])
    <3>1. seen[client] # << >> /\ LastSeen(client).by = NoClient => chunk.n = LastSeen(client).n + 1
      BY <1>0, <1>1, <1>3 DEF LastInv, Serving
    <3> QED BY <1>0, <1>1, <1>3, <2>1, <3>1, NoGapAppend DEF LastSeen
  <2>5. seen' \in [Client -> Seq(Chunk)]
    BY <1>0, <1>1, <1>6, <2>1, <2>2 DEF RedirTypeOK
  <2>6. RedirTypeOK'
    BY <1>0, <1>1, <1>2, <1>3, <1>4, <1>6, <2>5 DEF RedirTypeOK
  <2>7. conn[client] \notin {"new", "queued"}
    BY <1>0, <1>1 DEF ClientInv, Serving
  <2>8. ClientInv' /\ ReadyInv' /\ FlagInv' /\ LastInv'
    BY <1>0, <1>1, <1>3, <1>6, <2>1, <2>3, <2>7 DEF ClientInv, ReadyInv, FlagInv, LastInv, Serving
  <2> QED BY <1>0, <1>1, <1>5, <1>6, <2>1, <2>4, <2>6, <2>8 DEF RedirInv
<1>7. CASE CloseSocket /\ ready' = {} /\ UNCHANGED seen
  <2>1. RedirTypeOK'
    BY <1>0, <1>1, <1>2, <1>3, <1>4, <1>7 DEF RedirTypeOK, CloseSocket, BackToWait
  <2>2. ClientInv' /\ ReadyInv' /\ FlagInv' /\ LastInv'
    BY <1>0, <1>1, <1>7 DEF ClientInv, ReadyInv, FlagInv, LastInv, Serving, CloseSocket, BackToWait, RedirTypeOK
  <2> QED BY <1>0, <1>5, <1>7, <2>1, <2>2 DEF RedirInv
<1> QED BY <1>1, <1>6, <1>7 DEF CopyOut, chunk

\* The reader's other steps: a chunk that is thrown away leaves no gap in what the
\* next client sees, a connection that begins drops the old request, and one that
\* ends, for whatever reason, leaves no client.
LEMMA ReaderKeeps ==
  ASSUME RedirInv, Flush \/ Die \/ Begin \/ LookAtFlag \/ Select \/ CopyIn
  PROVE  RedirInv'
<1> USE DEF Serving
<1>0. /\ RedirTypeOK /\ ClientInv /\ ConsoleInv /\ LastInv /\ ReadyInv /\ FlagInv
      /\ \A d \in Client : NoGap(seen[d])
  BY DEF RedirInv
<1>1. CASE Flush
  <2>1. /\ phase = "wait" /\ out' = Drained /\ buff' = Flushed
        /\ UNCHANGED <<shell, outside, phase, client, flag, wanted, in, ready, seen, stdio>>
    BY <1>1 DEF Flush
  <2>2. /\ ConsoleInv' /\ Flushed \in Chunk /\ out' \in Seq(1 .. MaxOut) /\ Len(out') <= OutRoom
    BY <1>0, <2>1, FlushEffect DEF outside
  <2>3. RedirTypeOK'
    BY <1>0, <2>1, <2>2 DEF RedirTypeOK, outside
  <2> QED BY <1>0, <2>1, <2>2, <2>3 DEF RedirInv, ClientInv, LastInv, ReadyInv, FlagInv, outside
<1>2. CASE Die \/ Begin
  <2>1. RedirTypeOK'
    BY <1>0, <1>2 DEF Die, Begin, RedirTypeOK, outside
  <2>2. /\ UNCHANGED <<shell, outside, client, wanted, out, in, buff, ready, seen, stdio>>
        /\ \/ phase' = "dead"
           \/ phase = "accepted" /\ phase' = "top" /\ flag' = FALSE
    BY <1>2 DEF Die, Begin
  <2>3. ClientInv' /\ LastInv' /\ ReadyInv' /\ FlagInv'
    BY <1>0, <2>2 DEF ClientInv, LastInv, LastSeen, Taken, ReadyInv, FlagInv, outside
  <2> QED BY <1>0, <2>1, <2>2, <2>3 DEF RedirInv, ConsoleInv, Taken, outside
<1>3. CASE LookAtFlag \/ Select
  <2>1. /\ UNCHANGED <<shell, hung, typed, printed, terms, flag, wanted, out, in, buff, seen, stdio>>
        /\ Serving
        /\ \/ CloseSocket /\ UNCHANGED ready
           \/ UNCHANGED <<conn, client, ready>> /\ phase' = "select"
           \/ UNCHANGED <<conn, client>> /\ phase' = "copy" /\ ready' = Readable
    BY <1>3 DEF LookAtFlag, Select
  <2>2. client \in Client
    BY <1>0, <2>1 DEF ClientInv
  <2>3. Readable \subseteq {"console", "client"} /\ ("console" \in Readable => out # << >>)
    BY DEF Readable
  <2>4. RedirTypeOK'
    BY <1>0, <2>1, <2>2, <2>3 DEF RedirTypeOK, CloseSocket, BackToWait
  <2>5. ClientInv' /\ LastInv' /\ ReadyInv' /\ FlagInv'
    BY <1>0, <2>1, <2>2, <2>3 DEF ClientInv, LastInv, LastSeen, Taken, ReadyInv, FlagInv, CloseSocket, BackToWait, RedirTypeOK
  <2> QED BY <1>0, <2>1, <2>4, <2>5 DEF RedirInv, ConsoleInv, Taken
<1>4. CASE CopyIn
  <2>1. /\ UNCHANGED <<shell, hung, printed, terms, flag, wanted, out, seen, stdio>>
        /\ phase = "copy" /\ ready' = {} /\ client \in Client /\ client # NoClient
    BY <1>0, <1>4, RedirAssumption DEF CopyIn, ClientInv
  <2>2. CASE /\ typed[client] > 0 /\ in < InRoom
             /\ typed' = [typed EXCEPT ![client] = @ - 1]
             /\ in' = in + 1
             /\ buff' = [by |-> client, n |-> 0]
             /\ phase' = "top"
             /\ UNCHANGED <<conn, client>>
    <3>1. /\ typed' \in [Client -> 0 .. MaxIn] /\ in' \in 0 .. InRoom
          /\ buff' \in Chunk /\ buff'.by # NoClient
      BY <1>0, <2>1, <2>2, RedirAssumption DEF RedirTypeOK, Chunk
    <3>2. RedirTypeOK'
      BY <1>0, <2>1, <2>2, <3>1 DEF RedirTypeOK
    <3>3. ClientInv' /\ LastInv' /\ ReadyInv' /\ FlagInv' /\ ConsoleInv'
      BY <1>0, <2>1, <2>2, <3>1 DEF ClientInv, LastInv, LastSeen, Taken, ReadyInv, FlagInv, ConsoleInv
    <3> QED BY <1>0, <2>1, <3>2, <3>3 DEF RedirInv
  <2>3. CASE /\ typed[client] > 0
             /\ typed' = [typed EXCEPT ![client] = @ - 1]
             /\ buff' = [by |-> client, n |-> 0]
             /\ CloseSocket
             /\ UNCHANGED in
    <3>1. typed' \in [Client -> 0 .. MaxIn] /\ buff' \in Chunk /\ buff'.by # NoClient
      BY <1>0, <2>1, <2>3, RedirAssumption DEF RedirTypeOK, Chunk
    <3>2. RedirTypeOK'
      BY <1>0, <2>1, <2>3, <3>1 DEF RedirTypeOK, CloseSocket, BackToWait
    <3>3. ClientInv' /\ LastInv' /\ ReadyInv' /\ FlagInv' /\ ConsoleInv'
      BY <1>0, <2>1, <2>3, <3>1 DEF ClientInv, LastInv, LastSeen, Taken, ReadyInv, FlagInv, ConsoleInv, CloseSocket, BackToWait, RedirTypeOK
    <3> QED BY <1>0, <2>1, <3>2, <3>3 DEF RedirInv
  <2>4. CASE CloseSocket /\ UNCHANGED <<typed, in, buff>>
    <3>1. RedirTypeOK'
      BY <1>0, <2>1, <2>4 DEF RedirTypeOK, CloseSocket, BackToWait
    <3>2. ClientInv' /\ LastInv' /\ ReadyInv' /\ FlagInv' /\ ConsoleInv'
      BY <1>0, <2>1, <2>4 DEF ClientInv, LastInv, LastSeen, Taken, ReadyInv, FlagInv, ConsoleInv, CloseSocket, BackToWait, RedirTypeOK
    <3> QED BY <1>0, <2>1, <3>1, <3>2 DEF RedirInv
  <2> QED BY <1>4, <2>2, <2>3, <2>4 DEF CopyIn
<1> QED BY <1>1, <1>2, <1>3, <1>4
----------------------------------------------------------------------------
\* The inductive invariant holds in every state that the shell, the clients and
\* console_reader can reach.
THEOREM RedirInvariant == RedirSpec => []RedirInv
<1>1. RedirInit => RedirInv
  <2> SUFFICES ASSUME RedirInit PROVE RedirInv
    OBVIOUS
  <2>1. << >> \in Seq(Chunk) /\ << >> \in Seq(1 .. MaxOut) /\ Len(<< >>) = 0
    OBVIOUS
  <2>2. /\ 0 \in 0 .. MaxOut /\ 0 \in 0 .. MaxIn /\ 0 \in 0 .. InRoom /\ MaxTerms \in 0 .. MaxTerms
        /\ 0 <= OutRoom /\ NoChunk \in Chunk
    BY RedirAssumption DEF NoChunk, Chunk
  <2>3. RedirTypeOK
    BY <2>1, <2>2 DEF RedirInit, RedirTypeOK
  <2>4. ClientInv /\ LastInv /\ ReadyInv /\ FlagInv
    BY DEF RedirInit, ClientInv, LastInv, ReadyInv, FlagInv, Serving
  <2>5. ConsoleInv
    <3>1. Len(out) = 0 /\ printed = 0
      BY <2>1 DEF RedirInit
    <3>2. Taken = 0 /\ Len(out) <= printed
      BY <3>1 DEF Taken
    <3>3. buff.n = 0
      BY DEF RedirInit, NoChunk
    <3> QED BY <3>1, <3>2, <3>3 DEF ConsoleInv
  <2>6. \A c \in Client : NoGap(seen[c])
    <3>1. ASSUME NEW c \in Client PROVE seen[c] = << >>
      BY DEF RedirInit
    <3>2. NoGap(<< >>)
      BY <2>1 DEF NoGap
    <3> QED BY <3>1, <3>2
  <2> QED BY <2>3, <2>4, <2>5, <2>6 DEF RedirInv
<1>2. RedirInv /\ [RedirNext]_redirVars => RedirInv'
  <2>1. ASSUME RedirInv, UNCHANGED redirVars PROVE RedirInv'
    BY <2>1 DEF redirVars, outside, RedirInv, RedirTypeOK, ClientInv, ConsoleInv, Taken, LastInv, LastSeen,
                ReadyInv, FlagInv, Serving
  <2>2. ASSUME RedirInv, RedirNext PROVE RedirInv'
    BY <2>2, OutsideKeeps, AcceptKeeps, CopyOutKeeps, ReaderKeeps DEF RedirNext, OutsideStep
  <2> QED BY <2>1, <2>2
<1> QED BY <1>1, <1>2, PTL DEF RedirSpec

\* Every variable keeps its type: the socket pair between console_reader and the shell
\* never holds more than it has room for.
THEOREM RedirTypeCorrect == RedirSpec => []RedirTypeOK
<1>1. RedirSpec => []RedirInv
  BY RedirInvariant
<1>2. RedirInv => RedirTypeOK
  BY DEF RedirInv
<1> QED BY <1>1, <1>2, PTL

\* A request to end a connection ends only the one it was made for, and the output
\* that a client sees goes on where what was seen or thrown away last has ended.
THEOREM SessionsAreKeptApart == RedirSpec => []SessionsAreSeparate
<1>1. RedirSpec => []RedirInv
  BY RedirInvariant
<1>2. RedirInv => SessionsAreSeparate
  BY DEF RedirInv, FlagInv, NoGap, SessionsAreSeparate
<1> QED BY <1>1, <1>2, PTL

----------------------------------------------------------------------------
(* Linked list: any number of structures and any keys.                     *)

\* The places of a list in order: its two ends and the items between them.
PlaceIn(s, i) == IF i = 0 THEN HeadEnd ELSE IF i = Len(s) + 1 THEN TailEnd ELSE s[i]

\* The links spell s.
Spelt(l, s) ==
  /\ \A i \in 0 .. Len(s) : l[PlaceIn(s, i)]["next"] = PlaceIn(s, i + 1)
  /\ \A i \in 1 .. Len(s) + 1 : l[PlaceIn(s, i)]["back"] = PlaceIn(s, i - 1)

Distinct(s) == \A i, j \in 1 .. Len(s) : s[i] = s[j] => i = j

\* Who is not in the list has no links.
OthersFree(l, s) == \A p \in Item : (\E i \in 1 .. Len(s) : s[i] = p) \/ l[p] = Unlinked

ListInv ==
  /\ ListTypeOK
  /\ compare # "raw" => Spelt(links, content)
  /\ Distinct(content)
  /\ OthersFree(links, content)
  /\ compare = "raw" => content = << >>
----------------------------------------------------------------------------
\* InsertAt puts an item at a place and leaves the others in order.
LEMMA InsertedAt ==
  ASSUME NEW S, NEW s \in Seq(S), NEW e \in S, NEW i \in 1 .. Len(s) + 1
  PROVE  /\ InsertAt(s, i, e) \in Seq(S) /\ Len(InsertAt(s, i, e)) = Len(s) + 1
         /\ \A j \in 1 .. Len(s) + 1 :
              InsertAt(s, i, e)[j] = IF j < i THEN s[j] ELSE IF j = i THEN e ELSE s[j - 1]
<1> DEFINE a == SubSeq(s, 1, i - 1)
           b == SubSeq(s, i, Len(s))
<1>1. Len(s) \in Nat /\ i \in Nat
  BY LenProperties
<1>2. /\ a \in Seq(S) /\ Len(a) = i - 1 /\ \A j \in 1 .. i - 1 : a[j] = s[j]
  BY <1>1
<1>3. /\ b \in Seq(S) /\ Len(b) = Len(s) - i + 1 /\ \A j \in 1 .. Len(s) - i + 1 : b[j] = s[i + j - 1]
  BY <1>1
<1> HIDE DEF a, b
<1>4. /\ a \o <<e>> \in Seq(S) /\ Len(a \o <<e>>) = i
      /\ \A j \in 1 .. i : (a \o <<e>>)[j] = IF j < i THEN s[j] ELSE e
  BY <1>1, <1>2
<1>5. /\ (a \o <<e>>) \o b \in Seq(S) /\ Len((a \o <<e>>) \o b) = Len(s) + 1
      /\ \A j \in 1 .. Len(s) + 1 : ((a \o <<e>>) \o b)[j] = IF j <= i THEN (a \o <<e>>)[j] ELSE b[j - i]
  BY <1>1, <1>3, <1>4
<1>6. ASSUME NEW j \in 1 .. Len(s) + 1
      PROVE  ((a \o <<e>>) \o b)[j] = IF j < i THEN s[j] ELSE IF j = i THEN e ELSE s[j - 1]
  <2> j \in Int /\ i \in Int
    BY <1>1
  <2>1. CASE j <= i
    BY <1>1, <1>4, <1>5, <2>1
  <2>2. CASE j > i
    <3>1. j - i \in 1 .. Len(s) - i + 1 /\ i + (j - i) - 1 = j - 1
      BY <1>1, <2>2
    <3> QED BY <1>1, <1>3, <1>5, <2>2, <3>1
  <2>3. j <= i \/ j > i
    OBVIOUS
  <2> QED BY ONLY <2>1, <2>2, <2>3
<1> QED BY <1>5, <1>6 DEF InsertAt, a, b

\* RemoveAt takes an item out and leaves the others in order.
LEMMA RemovedAt ==
  ASSUME NEW S, NEW s \in Seq(S), NEW i \in 1 .. Len(s)
  PROVE  /\ RemoveAt(s, i) \in Seq(S) /\ Len(RemoveAt(s, i)) = Len(s) - 1
         /\ \A j \in 1 .. Len(s) - 1 : RemoveAt(s, i)[j] = IF j < i THEN s[j] ELSE s[j + 1]
<1> DEFINE a == SubSeq(s, 1, i - 1)
           b == SubSeq(s, i + 1, Len(s))
<1>1. Len(s) \in Nat /\ i \in Nat
  BY LenProperties
<1>2. /\ a \in Seq(S) /\ Len(a) = i - 1 /\ \A j \in 1 .. i - 1 : a[j] = s[j]
  BY <1>1
<1>3. /\ b \in Seq(S) /\ Len(b) = Len(s) - i /\ \A j \in 1 .. Len(s) - i : b[j] = s[i + j]
  BY <1>1
<1> HIDE DEF a, b
<1>4. /\ a \o b \in Seq(S) /\ Len(a \o b) = Len(s) - 1
      /\ \A j \in 1 .. Len(s) - 1 : (a \o b)[j] = IF j < i THEN a[j] ELSE b[j - i + 1]
  <2>1. a \o b \in Seq(S) /\ Len(a \o b) = Len(s) - 1
    <3>1. a \in Seq(S) /\ b \in Seq(S)
      BY <1>2, <1>3
    <3>2. a \o b \in Seq(S) /\ Len(a \o b) = Len(a) + Len(b)
      BY ONLY <3>1, ConcatProperties
    <3> QED BY ONLY <1>1, <1>2, <1>3, <3>2
  <2> SUFFICES ASSUME NEW j \in 1 .. Len(s) - 1
               PROVE  (a \o b)[j] = IF j < i THEN a[j] ELSE b[j - i + 1]
    BY <2>1
  <2>2. j \in 1 .. Len(a) + Len(b) /\ (j <= Len(a) <=> j < i) /\ j - Len(a) = j - i + 1
    BY ONLY <1>1, <1>2, <1>3, j \in 1 .. Len(s) - 1
  <2>3. (a \o b)[j] = IF j <= Len(a) THEN a[j] ELSE b[j - Len(a)]
    BY ONLY <1>2, <1>3, <2>2, ConcatProperties
  <2> QED BY ONLY <2>2, <2>3
<1>5. ASSUME NEW j \in 1 .. Len(s) - 1 PROVE (a \o b)[j] = IF j < i THEN s[j] ELSE s[j + 1]
  <2> j \in Int /\ i \in Int
    BY <1>1
  <2>1. CASE j < i
    BY <1>1, <1>2, <1>4, <2>1
  <2>2. CASE j >= i
    <3>1. j - i + 1 \in 1 .. Len(s) - i /\ i + (j - i + 1) = j + 1
      BY <1>1, <2>2
    <3>2. ~(j < i) /\ (a \o b)[j] = b[j - i + 1]
      <4>1. ~(j < i)
        BY <1>1, <2>2
      <4> QED BY ONLY <1>4, <4>1, j \in 1 .. Len(s) - 1
    <3>3. b[j - i + 1] = s[j + 1]
      BY <1>3, <3>1
    <3> QED BY <3>2, <3>3
  <2>3. j < i \/ j >= i
    OBVIOUS
  <2> QED BY ONLY <2>1, <2>2, <2>3
<1> QED BY <1>4, <1>5 DEF RemoveAt, a, b
----------------------------------------------------------------------------
\* Between p and q the links l2 have new, and are else those of l.
Spliced(l, l2, p, new, q) ==
  /\ l2 \in [Place -> [Sides -> Link]]
  /\ l2[p]["next"] = new /\ l2[new]["next"] = q /\ l2[q]["back"] = new /\ l2[new]["back"] = p
  /\ \A m \in Place : /\ m # p /\ m # new => l2[m]["next"] = l[m]["next"]
                      /\ m # q /\ m # new => l2[m]["back"] = l[m]["back"]

\* t is s with new after its first i members.
Inserted(s, t, i, new) ==
  /\ t \in Seq(Item) /\ Len(t) = Len(s) + 1
  /\ \A j \in 1 .. i : t[j] = s[j]
  /\ t[i + 1] = new
  /\ \A j \in i + 1 .. Len(s) : t[j + 1] = s[j]

\* The writes of an insertion put new between p and the next.
LEMMA LinkAfterSplices ==
  ASSUME links \in [Place -> [Sides -> Link]], NEW p \in Place, NEW new \in Item, p # new,
         DllNext(p) \in Place, DllNext(p) # new
  PROVE  Spliced(links, LinkAfter(p, new), p, new, DllNext(p))
<1> DEFINE q == DllNext(p)
           r == [next |-> q, back |-> p]
           l1 == [links EXCEPT ![new] = r]
           l2 == [l1 EXCEPT ![q]["back"] = new]
           l3 == [l2 EXCEPT ![p]["next"] = new]
<1>1. new \in Place /\ p \in Link /\ q \in Place /\ q \in Link /\ new \in Link
  BY DEF Place, Link
<1>2. r \in [Sides -> Link] /\ r["next"] = q /\ r["back"] = p
  BY <1>1 DEF Sides
<1> HIDE DEF r
<1>3. /\ l1 \in [Place -> [Sides -> Link]] /\ l1[new] = r
      /\ \A m \in Place : m # new => l1[m] = links[m]
  BY <1>1, <1>2
<1> HIDE DEF l1
<1>4. /\ l2 \in [Place -> [Sides -> Link]] /\ l2[q]["back"] = new /\ l2[q]["next"] = l1[q]["next"]
      /\ \A m \in Place : m # q => l2[m] = l1[m]
  BY <1>1, <1>3 DEF Sides
<1> HIDE DEF l2
<1>5. /\ l3 \in [Place -> [Sides -> Link]] /\ l3[p]["next"] = new /\ l3[p]["back"] = l2[p]["back"]
      /\ \A m \in Place : m # p => l3[m] = l2[m]
  BY <1>1, <1>4 DEF Sides
<1>6. LinkAfter(p, new) = l3
  BY DEF LinkAfter, l1, l2, r
<1> HIDE DEF l3
<1>7. Spliced(links, l3, p, new, q)
  BY <1>1, <1>2, <1>3, <1>4, <1>5 DEF Spliced
<1> QED BY <1>6, <1>7

\* The places of a list without doubles are all different.
LEMMA PlacesDiffer ==
  ASSUME ListAssumption, NEW s \in Seq(Item), Distinct(s)
  PROVE  /\ \A i \in 0 .. Len(s) + 1 : PlaceIn(s, i) \in Place
         /\ \A i, j \in 0 .. Len(s) + 1 : PlaceIn(s, i) = PlaceIn(s, j) => i = j
         /\ \A i \in 1 .. Len(s) : PlaceIn(s, i) = s[i] /\ s[i] \in Item
         /\ PlaceIn(s, 0) = HeadEnd /\ PlaceIn(s, Len(s) + 1) = TailEnd /\ Len(s) \in Nat
<1>1. Len(s) \in Nat /\ \A i \in 1 .. Len(s) : s[i] \in Item
  OBVIOUS
<1>2. /\ \A i \in 1 .. Len(s) : PlaceIn(s, i) = s[i]
      /\ PlaceIn(s, 0) = HeadEnd /\ PlaceIn(s, Len(s) + 1) = TailEnd
  BY <1>1 DEF PlaceIn
<1>3. \A i \in 0 .. Len(s) + 1 : i = 0 \/ i = Len(s) + 1 \/ i \in 1 .. Len(s)
  BY <1>1
<1>4. \A i \in 0 .. Len(s) + 1 : PlaceIn(s, i) \in Place
  BY <1>1, <1>2, <1>3 DEF Place
<1>5. ASSUME NEW i \in 0 .. Len(s) + 1, NEW j \in 0 .. Len(s) + 1, PlaceIn(s, i) = PlaceIn(s, j)
      PROVE  i = j
  <2>1. i = 0 \/ i = Len(s) + 1 \/ i \in 1 .. Len(s)
    BY <1>3
  <2>2. j = 0 \/ j = Len(s) + 1 \/ j \in 1 .. Len(s)
    BY <1>3
  <2> QED BY <1>1, <1>2, <1>5, <2>1, <2>2 DEF Distinct, ListAssumption
<1> QED BY <1>1, <1>2, <1>4, <1>5

\* The places before the new item stay, those after it move up by one.
LEMMA InsertedPlaces ==
  ASSUME NEW s \in Seq(Item), NEW t, NEW i \in 0 .. Len(s), NEW new \in Item, Inserted(s, t, i, new)
  PROVE  /\ \A j \in 0 .. i : PlaceIn(t, j) = PlaceIn(s, j)
         /\ PlaceIn(t, i + 1) = new
         /\ \A j \in i + 1 .. Len(s) + 1 : PlaceIn(t, j + 1) = PlaceIn(s, j)
<1>1. Len(s) \in Nat /\ Len(t) = Len(s) + 1 /\ i \in Int /\ 0 <= i /\ i <= Len(s)
  BY DEF Inserted
<1>2. ASSUME NEW j \in 0 .. i PROVE PlaceIn(t, j) = PlaceIn(s, j)
  <2>1. j = 0 \/ (j \in 1 .. i /\ j # 0 /\ j # Len(t) + 1 /\ j # Len(s) + 1)
    BY <1>1
  <2> QED BY <2>1 DEF PlaceIn, Inserted
<1>3. PlaceIn(t, i + 1) = new
  <2>1. i + 1 # 0 /\ i + 1 # Len(t) + 1
    BY <1>1
  <2> QED BY <2>1 DEF PlaceIn, Inserted
<1>4. ASSUME NEW j \in i + 1 .. Len(s) + 1 PROVE PlaceIn(t, j + 1) = PlaceIn(s, j)
  <2>1. j # 0 /\ j + 1 # 0 /\ (j + 1 = Len(t) + 1 <=> j = Len(s) + 1)
        /\ (j # Len(s) + 1 => j \in i + 1 .. Len(s))
    BY <1>1
  <2> QED BY <2>1 DEF PlaceIn, Inserted
<1> QED BY <1>2, <1>3, <1>4

\* Links that spell s spell the longer list after the four writes.
LEMMA SplicedSpells ==
  ASSUME ListAssumption, NEW l, NEW l2, NEW s \in Seq(Item), NEW t, NEW i \in 0 .. Len(s), NEW new \in Item,
         Spelt(l, s), Distinct(s), OthersFree(l, s), \A j \in 1 .. Len(s) : s[j] # new,
         Inserted(s, t, i, new), Spliced(l, l2, PlaceIn(s, i), new, PlaceIn(s, i + 1))
  PROVE  Spelt(l2, t) /\ Distinct(t) /\ OthersFree(l2, t)
<1> DEFINE p == PlaceIn(s, i)
           q == PlaceIn(s, i + 1)
<1>1. /\ Len(s) \in Nat /\ i \in Int /\ 0 <= i /\ i <= Len(s) /\ Len(t) = Len(s) + 1 /\ t \in Seq(Item)
  BY DEF Inserted
<1>2. /\ \A j \in 0 .. i : PlaceIn(t, j) = PlaceIn(s, j)
      /\ PlaceIn(t, i + 1) = new
      /\ \A j \in i + 1 .. Len(s) + 1 : PlaceIn(t, j + 1) = PlaceIn(s, j)
  BY InsertedPlaces
<1>3. /\ \A j \in 0 .. Len(s) + 1 : PlaceIn(s, j) \in Place
      /\ \A j, k \in 0 .. Len(s) + 1 : PlaceIn(s, j) = PlaceIn(s, k) => j = k
      /\ \A j \in 1 .. Len(s) : PlaceIn(s, j) = s[j] /\ s[j] \in Item
      /\ PlaceIn(s, 0) = HeadEnd /\ PlaceIn(s, Len(s) + 1) = TailEnd
  BY PlacesDiffer
<1>4. \A j \in 0 .. Len(s) + 1 : PlaceIn(s, j) # new
  <2>1. \A j \in 0 .. Len(s) + 1 : j = 0 \/ j = Len(s) + 1 \/ j \in 1 .. Len(s)
    BY <1>1
  <2> QED BY <1>3, <2>1 DEF ListAssumption
<1>5. ASSUME NEW j \in 0 .. Len(t) PROVE l2[PlaceIn(t, j)]["next"] = PlaceIn(t, j + 1)
  <2>1. j \in Int /\ (j < i \/ j = i \/ j = i + 1 \/ j > i + 1)
    BY <1>1
  <2>2. CASE j < i
    <3>1. j \in 0 .. i /\ j + 1 \in 0 .. i /\ j \in 0 .. Len(s) /\ j \in 0 .. Len(s) + 1 /\ i \in 0 .. Len(s) + 1 /\ j # i
      BY <1>1, <2>1, <2>2
    <3>2. PlaceIn(s, j) # p /\ PlaceIn(s, j) # new /\ PlaceIn(s, j) \in Place
      BY <1>3, <1>4, <3>1
    <3>3. l2[PlaceIn(s, j)]["next"] = l[PlaceIn(s, j)]["next"]
      BY <3>2 DEF Spliced
    <3> QED BY <1>2, <3>1, <3>3 DEF Spelt
  <2>3. CASE j = i
    BY <1>1, <1>2, <2>3 DEF Spliced
  <2>4. CASE j = i + 1
    <3>1. i + 1 \in i + 1 .. Len(s) + 1
      BY <1>1
    <3> QED BY <1>2, <2>4, <3>1 DEF Spliced
  <2>5. CASE j > i + 1
    <3>1. PICK k \in i + 1 .. Len(s) : j = k + 1
      <4>1. j - 1 \in i + 1 .. Len(s) /\ j = (j - 1) + 1
        BY <1>1, <2>1, <2>5
      <4> QED BY <4>1
    <3>2. k \in i + 1 .. Len(s) + 1 /\ k + 1 \in i + 1 .. Len(s) + 1 /\ k \in 0 .. Len(s) /\ k \in 0 .. Len(s) + 1
          /\ i \in 0 .. Len(s) + 1 /\ k # i
      BY <1>1
    <3>3. PlaceIn(s, k) # p /\ PlaceIn(s, k) # new /\ PlaceIn(s, k) \in Place
      BY <1>3, <1>4, <3>2
    <3>4. l2[PlaceIn(s, k)]["next"] = l[PlaceIn(s, k)]["next"]
      BY <3>3 DEF Spliced
    <3> QED BY <1>2, <3>1, <3>2, <3>4 DEF Spelt
  <2> QED BY <2>1, <2>2, <2>3, <2>4, <2>5
<1>6. ASSUME NEW j \in 1 .. Len(t) + 1 PROVE l2[PlaceIn(t, j)]["back"] = PlaceIn(t, j - 1)
  <2>1. j \in Int /\ (j < i + 1 \/ j = i + 1 \/ j = i + 2 \/ j > i + 2)
    BY <1>1
  <2>2. CASE j < i + 1
    <3>1. j \in 0 .. i /\ j - 1 \in 0 .. i /\ j \in 1 .. Len(s) + 1 /\ j \in 0 .. Len(s) + 1 /\ i + 1 \in 0 .. Len(s) + 1
          /\ j # i + 1
      BY <1>1, <2>1, <2>2
    <3>2. PlaceIn(s, j) # q /\ PlaceIn(s, j) # new /\ PlaceIn(s, j) \in Place
      BY <1>3, <1>4, <3>1
    <3>3. l2[PlaceIn(s, j)]["back"] = l[PlaceIn(s, j)]["back"]
      BY <3>2 DEF Spliced
    <3> QED BY <1>2, <3>1, <3>3 DEF Spelt
  <2>3. CASE j = i + 1
    <3>1. j - 1 = i /\ i \in 0 .. i
      BY <1>1, <2>3
    <3> QED BY <1>2, <2>3, <3>1 DEF Spliced
  <2>4. CASE j = i + 2
    <3>1. i + 1 \in i + 1 .. Len(s) + 1 /\ j = (i + 1) + 1 /\ j - 1 = i + 1
      BY <1>1, <2>4
    <3> QED BY <1>2, <3>1 DEF Spliced
  <2>5. CASE j > i + 2
    <3>1. PICK k \in i + 2 .. Len(s) + 1 : j = k + 1
      <4>1. j - 1 \in i + 2 .. Len(s) + 1 /\ j = (j - 1) + 1
        BY <1>1, <2>1, <2>5
      <4> QED BY <4>1
    <3>2. k \in i + 1 .. Len(s) + 1 /\ k - 1 \in i + 1 .. Len(s) + 1 /\ k \in 1 .. Len(s) + 1 /\ k \in 0 .. Len(s) + 1
          /\ i + 1 \in 0 .. Len(s) + 1 /\ k # i + 1 /\ j - 1 = (k - 1) + 1
      BY <1>1, <3>1
    <3>3. PlaceIn(s, k) # q /\ PlaceIn(s, k) # new /\ PlaceIn(s, k) \in Place
      BY <1>3, <1>4, <3>2
    <3>4. l2[PlaceIn(s, k)]["back"] = l[PlaceIn(s, k)]["back"]
      BY <3>3 DEF Spliced
    <3>5. PlaceIn(t, j) = PlaceIn(s, k) /\ PlaceIn(t, j - 1) = PlaceIn(s, k - 1)
      BY <1>2, <3>1, <3>2
    <3> QED BY <3>2, <3>4, <3>5 DEF Spelt
  <2> QED BY <2>1, <2>2, <2>3, <2>4, <2>5
<1>7. Distinct(t)
  <2> SUFFICES ASSUME NEW j \in 1 .. Len(t), NEW k \in 1 .. Len(t), t[j] = t[k] PROVE j = k
    BY DEF Distinct
  <2>1. ASSUME NEW m \in 1 .. Len(t)
        PROVE  \/ m \in 1 .. i /\ t[m] = s[m]
               \/ m = i + 1 /\ t[m] = new
               \/ \E n \in i + 1 .. Len(s) : m = n + 1 /\ t[m] = s[n]
    <3>1. m \in 1 .. i \/ m = i + 1 \/ (m - 1 \in i + 1 .. Len(s) /\ m = (m - 1) + 1)
      BY <1>1
    <3> QED BY <3>1 DEF Inserted
  <2>2. \A m \in 1 .. i : m \in 1 .. Len(s)
    BY <1>1
  <2>3. \A m \in i + 1 .. Len(s) : m \in 1 .. Len(s) /\ ~(m \in 1 .. i)
    BY <1>1
  <2>4. /\ \A m, n \in 1 .. Len(s) : s[m] = s[n] => m = n
        /\ \A m \in 1 .. Len(s) : s[m] # new
    BY DEF Distinct
  <2>5. CASE j \in 1 .. i /\ t[j] = s[j]
    BY <2>1, <2>2, <2>3, <2>4, <2>5
  <2>6. CASE j = i + 1 /\ t[j] = new
    BY <2>1, <2>2, <2>3, <2>4, <2>6
  <2>7. ASSUME NEW n \in i + 1 .. Len(s), j = n + 1, t[j] = s[n] PROVE j = k
    BY <2>1, <2>2, <2>3, <2>4, <2>7
  <2> QED BY <2>1, <2>5, <2>6, <2>7
<1>8. OthersFree(l2, t)
  <2> SUFFICES ASSUME NEW o \in Item, \A j \in 1 .. Len(t) : t[j] # o PROVE l2[o] = Unlinked
    BY DEF OthersFree
  <2>1. o # new
    <3>1. i + 1 \in 1 .. Len(t)
      BY <1>1
    <3> QED BY <3>1 DEF Inserted
  <2>2. \A j \in 1 .. Len(s) : s[j] # o
    <3>1. \A j \in 1 .. Len(s) : \/ j \in 1 .. i /\ j \in 1 .. Len(t)
                                 \/ j \in i + 1 .. Len(s) /\ j + 1 \in 1 .. Len(t)
      BY <1>1
    <3> QED BY <3>1 DEF Inserted
  <2>3. l[o] = Unlinked
    BY <2>2 DEF OthersFree
  <2>4. o # p /\ o # q
    <3>1. \A j \in 0 .. Len(s) + 1 : j = 0 \/ j = Len(s) + 1 \/ j \in 1 .. Len(s)
      BY <1>1
    <3>2. i \in 0 .. Len(s) + 1 /\ i + 1 \in 0 .. Len(s) + 1
      BY <1>1
    <3>3. \A j \in 0 .. Len(s) + 1 : PlaceIn(s, j) # o
      BY <1>3, <2>2, <3>1 DEF ListAssumption
    <3> QED BY <3>2, <3>3
  <2>5. o \in Place /\ l2[o] \in [Sides -> Link]
    BY DEF Spliced, Place
  <2>6. l2[o]["next"] = l[o]["next"] /\ l2[o]["back"] = l[o]["back"]
    BY <2>1, <2>4, <2>5 DEF Spliced
  <2>7. l2[o] = [d \in Sides |-> l2[o][d]]
    BY <2>5
  <2>8. \A d \in Sides : l2[o][d] = Null
    BY <2>3, <2>6 DEF Unlinked, Sides
  <2> QED BY <2>7, <2>8 DEF Unlinked
<1> QED BY <1>5, <1>6, <1>7, <1>8 DEF Spelt
----------------------------------------------------------------------------
\* The links l2 lead past x, and are else those of l.
Bypassed(l, l2, p, x, q) ==
  /\ l2 \in [Place -> [Sides -> Link]]
  /\ l2[p]["next"] = q /\ l2[q]["back"] = p /\ l2[x] = Unlinked
  /\ \A m \in Place : /\ m # p /\ m # x => l2[m]["next"] = l[m]["next"]
                      /\ m # q /\ m # x => l2[m]["back"] = l[m]["back"]

\* t is s without its member i.
Removed(s, t, i) ==
  /\ t \in Seq(Item) /\ Len(t) = Len(s) - 1
  /\ \A j \in 1 .. i - 1 : t[j] = s[j]
  /\ \A j \in i + 1 .. Len(s) : t[j - 1] = s[j]

\* The writes of std_dll_remove lead past the item and clear its links.
LEMMA UnlinkBypasses ==
  ASSUME links \in [Place -> [Sides -> Link]], NEW x \in Item, NEW p \in Place, NEW q \in Place, p # x, q # x
  PROVE  Bypassed(links, [links EXCEPT ![p]["next"] = q, ![q]["back"] = p, ![x] = Unlinked], p, x, q)
<1> DEFINE l1 == [links EXCEPT ![p]["next"] = q]
           l2 == [l1 EXCEPT ![q]["back"] = p]
           l3 == [l2 EXCEPT ![x] = Unlinked]
<1>1. x \in Place /\ p \in Link /\ q \in Link /\ x \in Link
  BY DEF Place, Link
<1>2. Unlinked \in [Sides -> Link]
  BY DEF Unlinked, Link
<1>3. /\ l1 \in [Place -> [Sides -> Link]] /\ l1[p]["next"] = q /\ l1[p]["back"] = links[p]["back"]
      /\ \A m \in Place : m # p => l1[m] = links[m]
  BY <1>1 DEF Sides
<1> HIDE DEF l1
<1>4. /\ l2 \in [Place -> [Sides -> Link]] /\ l2[q]["back"] = p /\ l2[q]["next"] = l1[q]["next"]
      /\ \A m \in Place : m # q => l2[m] = l1[m]
  BY <1>1, <1>3 DEF Sides
<1> HIDE DEF l2
<1>5. /\ l3 \in [Place -> [Sides -> Link]] /\ l3[x] = Unlinked
      /\ \A m \in Place : m # x => l3[m] = l2[m]
  BY <1>1, <1>2, <1>4
<1>6. [links EXCEPT ![p]["next"] = q, ![q]["back"] = p, ![x] = Unlinked] = l3
  BY DEF l1, l2
<1> HIDE DEF l3
<1>7. Bypassed(links, l3, p, x, q)
  BY <1>1, <1>3, <1>4, <1>5 DEF Bypassed
<1> QED BY <1>6, <1>7

\* The places before the removed item stay, those after it move down by one.
LEMMA RemovedPlaces ==
  ASSUME NEW s \in Seq(Item), NEW t, NEW i \in 1 .. Len(s), Removed(s, t, i)
  PROVE  /\ \A j \in 0 .. i - 1 : PlaceIn(t, j) = PlaceIn(s, j)
         /\ \A j \in i + 1 .. Len(s) + 1 : PlaceIn(t, j - 1) = PlaceIn(s, j)
<1>1. Len(s) \in Nat /\ Len(t) = Len(s) - 1 /\ i \in Int /\ 1 <= i /\ i <= Len(s)
  BY DEF Removed
<1>2. ASSUME NEW j \in 0 .. i - 1 PROVE PlaceIn(t, j) = PlaceIn(s, j)
  <2>1. j = 0 \/ (j \in 1 .. i - 1 /\ j # 0 /\ j # Len(t) + 1 /\ j # Len(s) + 1)
    BY <1>1
  <2> QED BY <2>1 DEF PlaceIn, Removed
<1>3. ASSUME NEW j \in i + 1 .. Len(s) + 1 PROVE PlaceIn(t, j - 1) = PlaceIn(s, j)
  <2>1. j # 0 /\ j - 1 # 0 /\ (j - 1 = Len(t) + 1 <=> j = Len(s) + 1)
        /\ (j # Len(s) + 1 => j \in i + 1 .. Len(s))
    BY <1>1
  <2> QED BY <2>1 DEF PlaceIn, Removed
<1> QED BY <1>2, <1>3

\* Links that spell s spell the shorter list after the removal.
LEMMA BypassedSpells ==
  ASSUME ListAssumption, NEW l, NEW l2, NEW s \in Seq(Item), NEW t, NEW i \in 1 .. Len(s),
         Spelt(l, s), Distinct(s), OthersFree(l, s),
         Removed(s, t, i), Bypassed(l, l2, PlaceIn(s, i - 1), s[i], PlaceIn(s, i + 1))
  PROVE  Spelt(l2, t) /\ Distinct(t) /\ OthersFree(l2, t)
<1> DEFINE p == PlaceIn(s, i - 1)
           q == PlaceIn(s, i + 1)
<1>1. /\ Len(s) \in Nat /\ i \in Int /\ 1 <= i /\ i <= Len(s) /\ Len(t) = Len(s) - 1 /\ t \in Seq(Item)
  BY DEF Removed
<1>2. /\ \A j \in 0 .. i - 1 : PlaceIn(t, j) = PlaceIn(s, j)
      /\ \A j \in i + 1 .. Len(s) + 1 : PlaceIn(t, j - 1) = PlaceIn(s, j)
  BY RemovedPlaces
<1>3. /\ \A j \in 0 .. Len(s) + 1 : PlaceIn(s, j) \in Place
      /\ \A j, k \in 0 .. Len(s) + 1 : PlaceIn(s, j) = PlaceIn(s, k) => j = k
      /\ \A j \in 1 .. Len(s) : PlaceIn(s, j) = s[j] /\ s[j] \in Item
      /\ PlaceIn(s, 0) = HeadEnd /\ PlaceIn(s, Len(s) + 1) = TailEnd
  BY PlacesDiffer
<1>4. \A j \in 0 .. Len(s) + 1 : j # i => PlaceIn(s, j) # s[i]
  <2>1. i \in 0 .. Len(s) + 1 /\ PlaceIn(s, i) = s[i]
    BY <1>1, <1>3
  <2> QED BY <1>3, <2>1
<1>5. ASSUME NEW j \in 0 .. Len(t) PROVE l2[PlaceIn(t, j)]["next"] = PlaceIn(t, j + 1)
  <2>1. j \in Int /\ (j < i - 1 \/ j = i - 1 \/ j > i - 1)
    BY <1>1
  <2>2. CASE j < i - 1
    <3>1. j \in 0 .. i - 1 /\ j + 1 \in 0 .. i - 1 /\ j \in 0 .. Len(s) /\ j \in 0 .. Len(s) + 1 /\ i - 1 \in 0 .. Len(s) + 1
          /\ j # i - 1 /\ j # i
      BY <1>1, <2>1, <2>2
    <3>2. PlaceIn(s, j) # p /\ PlaceIn(s, j) # s[i] /\ PlaceIn(s, j) \in Place
      BY <1>3, <1>4, <3>1
    <3>3. l2[PlaceIn(s, j)]["next"] = l[PlaceIn(s, j)]["next"]
      BY <3>2 DEF Bypassed
    <3> QED BY <1>2, <3>1, <3>3 DEF Spelt
  <2>3. CASE j = i - 1
    <3>1. j \in 0 .. i - 1 /\ i + 1 \in i + 1 .. Len(s) + 1 /\ j + 1 = (i + 1) - 1
      BY <1>1, <2>3
    <3> QED BY <1>2, <2>3, <3>1 DEF Bypassed
  <2>4. CASE j > i - 1
    <3>1. PICK k \in i + 1 .. Len(s) : j = k - 1
      <4>1. j + 1 \in i + 1 .. Len(s) /\ j = (j + 1) - 1
        BY <1>1, <2>1, <2>4
      <4> QED BY <4>1
    <3>2. k \in i + 1 .. Len(s) + 1 /\ k + 1 \in i + 1 .. Len(s) + 1 /\ k \in 0 .. Len(s) /\ k \in 0 .. Len(s) + 1
          /\ i - 1 \in 0 .. Len(s) + 1 /\ k # i - 1 /\ k # i /\ j + 1 = (k + 1) - 1
      BY <1>1, <3>1
    <3>3. PlaceIn(s, k) # p /\ PlaceIn(s, k) # s[i] /\ PlaceIn(s, k) \in Place
      BY <1>3, <1>4, <3>2
    <3>4. l2[PlaceIn(s, k)]["next"] = l[PlaceIn(s, k)]["next"]
      BY <3>3 DEF Bypassed
    <3>5. PlaceIn(t, j) = PlaceIn(s, k) /\ PlaceIn(t, j + 1) = PlaceIn(s, k + 1)
      BY <1>2, <3>1, <3>2
    <3> QED BY <3>2, <3>4, <3>5 DEF Spelt
  <2> QED BY <2>1, <2>2, <2>3, <2>4
<1>6. ASSUME NEW j \in 1 .. Len(t) + 1 PROVE l2[PlaceIn(t, j)]["back"] = PlaceIn(t, j - 1)
  <2>1. j \in Int /\ (j < i \/ j = i \/ j > i)
    BY <1>1
  <2>2. CASE j < i
    <3>1. j \in 0 .. i - 1 /\ j - 1 \in 0 .. i - 1 /\ j \in 1 .. Len(s) + 1 /\ j \in 0 .. Len(s) + 1 /\ i + 1 \in 0 .. Len(s) + 1
          /\ j # i + 1 /\ j # i
      BY <1>1, <2>1, <2>2
    <3>2. PlaceIn(s, j) # q /\ PlaceIn(s, j) # s[i] /\ PlaceIn(s, j) \in Place
      BY <1>3, <1>4, <3>1
    <3>3. l2[PlaceIn(s, j)]["back"] = l[PlaceIn(s, j)]["back"]
      BY <3>2 DEF Bypassed
    <3> QED BY <1>2, <3>1, <3>3 DEF Spelt
  <2>3. CASE j = i
    <3>1. i - 1 \in 0 .. i - 1 /\ i + 1 \in i + 1 .. Len(s) + 1 /\ j = (i + 1) - 1
      BY <1>1, <2>3
    <3> QED BY <1>2, <2>3, <3>1 DEF Bypassed
  <2>4. CASE j > i
    <3>1. PICK k \in i + 2 .. Len(s) + 1 : j = k - 1
      <4>1. j + 1 \in i + 2 .. Len(s) + 1 /\ j = (j + 1) - 1
        BY <1>1, <2>1, <2>4
      <4> QED BY <4>1
    <3>2. k \in i + 1 .. Len(s) + 1 /\ k - 1 \in i + 1 .. Len(s) + 1 /\ k \in 1 .. Len(s) + 1 /\ k \in 0 .. Len(s) + 1
          /\ i + 1 \in 0 .. Len(s) + 1 /\ k # i + 1 /\ k # i /\ j - 1 = (k - 1) - 1
      BY <1>1, <3>1
    <3>3. PlaceIn(s, k) # q /\ PlaceIn(s, k) # s[i] /\ PlaceIn(s, k) \in Place
      BY <1>3, <1>4, <3>2
    <3>4. l2[PlaceIn(s, k)]["back"] = l[PlaceIn(s, k)]["back"]
      BY <3>3 DEF Bypassed
    <3>5. PlaceIn(t, j) = PlaceIn(s, k) /\ PlaceIn(t, j - 1) = PlaceIn(s, k - 1)
      BY <1>2, <3>1, <3>2
    <3> QED BY <3>2, <3>4, <3>5 DEF Spelt
  <2> QED BY <2>1, <2>2, <2>3, <2>4
<1>7. ASSUME NEW m \in 1 .. Len(t)
      PROVE  \/ m \in 1 .. i - 1 /\ t[m] = s[m]
             \/ \E n \in i + 1 .. Len(s) : m = n - 1 /\ t[m] = s[n]
  <2>1. m \in 1 .. i - 1 \/ (m + 1 \in i + 1 .. Len(s) /\ m = (m + 1) - 1)
    BY <1>1
  <2> QED BY <2>1 DEF Removed
<1>8. /\ \A m \in 1 .. i - 1 : m \in 1 .. Len(s)
      /\ \A m \in i + 1 .. Len(s) : m \in 1 .. Len(s) /\ ~(m \in 1 .. i - 1)
  BY <1>1
<1>9. Distinct(t)
  <2> SUFFICES ASSUME NEW j \in 1 .. Len(t), NEW k \in 1 .. Len(t), t[j] = t[k] PROVE j = k
    BY DEF Distinct
  <2>1. \A m, n \in 1 .. Len(s) : s[m] = s[n] => m = n
    BY DEF Distinct
  <2>2. CASE j \in 1 .. i - 1 /\ t[j] = s[j]
    BY <1>7, <1>8, <2>1, <2>2
  <2>3. ASSUME NEW n \in i + 1 .. Len(s), j = n - 1, t[j] = s[n] PROVE j = k
    BY <1>7, <1>8, <2>1, <2>3
  <2> QED BY <1>7, <2>2, <2>3
<1>10. OthersFree(l2, t)
  <2> SUFFICES ASSUME NEW o \in Item, \A j \in 1 .. Len(t) : t[j] # o PROVE l2[o] = Unlinked
    BY DEF OthersFree
  <2>1. CASE o = s[i]
    BY <2>1 DEF Bypassed
  <2>2. CASE o # s[i]
    <3>1. \A j \in 1 .. Len(s) : s[j] # o
      <4>1. \A j \in 1 .. Len(s) : \/ j \in 1 .. i - 1 /\ j \in 1 .. Len(t)
                                   \/ j = i
                                   \/ j \in i + 1 .. Len(s) /\ j - 1 \in 1 .. Len(t)
        BY <1>1
      <4> QED BY <2>2, <4>1 DEF Removed
    <3>2. l[o] = Unlinked
      BY <3>1 DEF OthersFree
    <3>3. \A j \in 0 .. Len(s) + 1 : PlaceIn(s, j) # o
      <4>1. \A j \in 0 .. Len(s) + 1 : j = 0 \/ j = Len(s) + 1 \/ j \in 1 .. Len(s)
        BY <1>1
      <4> QED BY <1>3, <3>1, <4>1 DEF ListAssumption
    <3>4. i - 1 \in 0 .. Len(s) + 1 /\ i + 1 \in 0 .. Len(s) + 1
      BY <1>1
    <3>5. o # p /\ o # q
      BY <3>3, <3>4
    <3>6. o \in Place /\ l2[o] \in [Sides -> Link]
      BY DEF Bypassed, Place
    <3>7. l2[o]["next"] = l[o]["next"] /\ l2[o]["back"] = l[o]["back"]
      BY <2>2, <3>5, <3>6 DEF Bypassed
    <3>8. l2[o] = [d \in Sides |-> l2[o][d]]
      BY <3>6
    <3>9. \A d \in Sides : l2[o][d] = Null
      BY <3>2, <3>7 DEF Unlinked, Sides
    <3> QED BY <3>8, <3>9 DEF Unlinked
  <2> QED BY <2>1, <2>2
<1> QED BY <1>5, <1>6, <1>9, <1>10 DEF Spelt
----------------------------------------------------------------------------
(* What the operations of the module say of a list that is spelt.          *)

ListOK == ListTypeOK /\ Spelt(links, content) /\ Distinct(content) /\ OthersFree(links, content)

\* In a list that is spelt, next and back go to the neighbours.
LEMMA NextInList ==
  ASSUME ListAssumption, ListOK
  PROVE  /\ Len(content) \in Nat
         /\ \A i \in 1 .. Len(content) :
              /\ content[i] \in Item
              /\ DllNext(content[i]) = PlaceIn(content, i + 1)
              /\ DllBack(content[i]) = PlaceIn(content, i - 1)
         /\ DllNext(HeadEnd) = PlaceIn(content, 1) /\ DllBack(TailEnd) = PlaceIn(content, Len(content))
         /\ \A i \in 1 .. Len(content) :
              /\ DllGetNext(content[i]) = ItemAt(i + 1)
              /\ DllGetPrev(content[i]) = ItemAt(i - 1)
         /\ DllGetFirst = ItemAt(1) /\ DllGetLast = ItemAt(Len(content))
         /\ \A p \in Item : IsLinked(p) <=> \E i \in 1 .. Len(content) : content[i] = p
<1> USE DEF ListOK, ListTypeOK
<1>1. /\ Len(content) \in Nat
      /\ \A i \in 0 .. Len(content) + 1 : PlaceIn(content, i) \in Place
      /\ \A i \in 1 .. Len(content) : PlaceIn(content, i) = content[i] /\ content[i] \in Item
      /\ PlaceIn(content, 0) = HeadEnd /\ PlaceIn(content, Len(content) + 1) = TailEnd
  BY PlacesDiffer
<1>2. ASSUME NEW i \in 1 .. Len(content)
      PROVE  DllNext(content[i]) = PlaceIn(content, i + 1) /\ DllBack(content[i]) = PlaceIn(content, i - 1)
  <2>1. i \in 0 .. Len(content) /\ i \in 1 .. Len(content) + 1
    BY <1>1
  <2> QED BY <1>1, <2>1 DEF Spelt, DllNext, DllBack
<1>3. DllNext(HeadEnd) = PlaceIn(content, 1) /\ DllBack(TailEnd) = PlaceIn(content, Len(content))
  <2>1. 0 \in 0 .. Len(content) /\ Len(content) + 1 \in 1 .. Len(content) + 1 /\ (Len(content) + 1) - 1 = Len(content)
    BY <1>1
  <2>2. links[PlaceIn(content, 0)]["next"] = PlaceIn(content, 0 + 1)
    BY <2>1 DEF Spelt
  <2>3. links[PlaceIn(content, Len(content) + 1)]["back"] = PlaceIn(content, Len(content) + 1 - 1)
    BY <2>1 DEF Spelt
  <2> QED BY <1>1, <2>1, <2>2, <2>3 DEF DllNext, DllBack
<1>4. \A i \in 1 .. Len(content) + 1 : IF PlaceIn(content, i) # TailEnd THEN ItemAt(i) = PlaceIn(content, i) ELSE ItemAt(i) = Null
  <2> SUFFICES ASSUME NEW i \in 1 .. Len(content) + 1
               PROVE  IF PlaceIn(content, i) # TailEnd THEN ItemAt(i) = PlaceIn(content, i) ELSE ItemAt(i) = Null
    OBVIOUS
  <2>1. DOMAIN content = 1 .. Len(content)
    OBVIOUS
  <2>2. i \in 1 .. Len(content) \/ (i = Len(content) + 1 /\ ~(i \in 1 .. Len(content)))
    BY <1>1
  <2> QED BY <1>1, <2>1, <2>2 DEF ItemAt, ListAssumption
<1>5. \A i \in 0 .. Len(content) : IF PlaceIn(content, i) # HeadEnd THEN ItemAt(i) = PlaceIn(content, i) ELSE ItemAt(i) = Null
  <2> SUFFICES ASSUME NEW i \in 0 .. Len(content)
               PROVE  IF PlaceIn(content, i) # HeadEnd THEN ItemAt(i) = PlaceIn(content, i) ELSE ItemAt(i) = Null
    OBVIOUS
  <2>1. DOMAIN content = 1 .. Len(content)
    OBVIOUS
  <2>2. i \in 1 .. Len(content) \/ (i = 0 /\ ~(i \in 1 .. Len(content)))
    BY <1>1
  <2> QED BY <1>1, <2>1, <2>2 DEF ItemAt, ListAssumption
<1>6. ASSUME NEW i \in 1 .. Len(content)
      PROVE  DllGetNext(content[i]) = ItemAt(i + 1) /\ DllGetPrev(content[i]) = ItemAt(i - 1)
  <2>1. i + 1 \in 1 .. Len(content) + 1 /\ i - 1 \in 0 .. Len(content)
    BY <1>1
  <2> QED BY <1>2, <1>4, <1>5, <2>1 DEF DllGetNext, DllGetPrev
<1>7. DllGetFirst = ItemAt(1) /\ DllGetLast = ItemAt(Len(content))
  <2>1. 1 \in 1 .. Len(content) + 1 /\ Len(content) \in 0 .. Len(content)
    BY <1>1
  <2> QED BY <1>3, <1>4, <1>5, <2>1 DEF DllGetFirst, DllGetLast, DllGetNext, DllGetPrev
<1>8. ASSUME NEW p \in Item PROVE IsLinked(p) <=> \E i \in 1 .. Len(content) : content[i] = p
  <2>1. ASSUME NEW i \in 1 .. Len(content), content[i] = p PROVE IsLinked(p)
    <3>1. i + 1 \in 0 .. Len(content) + 1 /\ i - 1 \in 0 .. Len(content) + 1
      BY <1>1
    <3>2. DllNext(p) \in Place /\ DllBack(p) \in Place
      BY <1>1, <1>2, <2>1, <3>1
    <3> QED BY <3>2 DEF IsLinked, Place, ListAssumption
  <2>2. ASSUME \A i \in 1 .. Len(content) : content[i] # p PROVE ~IsLinked(p)
    <3>1. links[p] = Unlinked
      BY <2>2 DEF OthersFree
    <3> QED BY <3>1 DEF IsLinked, DllNext, DllBack, Unlinked, Sides
  <2> QED BY <2>1, <2>2
<1> QED BY <1>1, <1>2, <1>3, <1>6, <1>7, <1>8

\* An item that is linked is at its position.
LEMMA PositionFound ==
  ASSUME ListAssumption, ListOK, NEW p \in Item, IsLinked(p)
  PROVE  Position(p) \in 1 .. Len(content) /\ content[Position(p)] = p
<1>1. PICK i \in 1 .. Len(content) : content[i] = p
  BY NextInList
<1>2. DOMAIN content = 1 .. Len(content)
  BY DEF ListOK, ListTypeOK
<1> QED BY <1>1, <1>2 DEF Position

\* Compare puts new before p just if the key of p is greater.
LEMMA CompareIs ==
  ASSUME ListAssumption, NEW a \in Item, NEW b \in Item
  PROVE  Compare(a, b) < 0 <=> b.key > a.key
BY DEF Compare, ListAssumption

\* The walk of std_dll_insert ends before the first greater key.
LEMMA PlaceAfterIs ==
  ASSUME ListAssumption, ListOK, NEW new \in Item, NEW k, k \in 1 .. Len(content),
         \A i \in 1 .. k : ~(content[i].key > new.key),
         k < Len(content) => content[k + 1].key > new.key
  PROVE  PlaceAfter(new) = content[k]
<1> DEFINE D == {p \in Item : IsLinked(p)}
           Stops(w) == DllNext(w) = TailEnd \/ Compare(new, DllNext(w)) < 0
           nxt == [w \in D |-> IF Stops(w) THEN w ELSE DllNext(w)]
           at(i) == content[i]
           mu == [w \in D |-> Len(content) - Position(w)]
           S == {content[i] : i \in 1 .. k}
<1>1. /\ Len(content) \in Nat
      /\ \A i \in 1 .. Len(content) :
           /\ content[i] \in Item /\ content[i] \in D
           /\ DllNext(content[i]) = PlaceIn(content, i + 1)
      /\ \A w \in D : \E i \in 1 .. Len(content) : content[i] = w
      /\ DllGetFirst = ItemAt(1)
  BY NextInList
<1>2. /\ \A i \in 1 .. Len(content) : PlaceIn(content, i) = content[i]
      /\ \A i \in 1 .. Len(content) : content[i] # TailEnd
      /\ PlaceIn(content, Len(content) + 1) = TailEnd
  BY <1>1, PlacesDiffer DEF ListOK, ListTypeOK, ListAssumption
<1>3. \A i \in 1 .. Len(content) : i = Len(content) \/ i + 1 \in 1 .. Len(content)
  BY <1>1
<1>4. \A i, j \in 1 .. Len(content) : content[i] = content[j] => i = j
  BY DEF ListOK, Distinct
<1>5. \A i \in 1 .. Len(content) : Position(content[i]) = i
  <2>1. \A p \in D : Position(p) \in 1 .. Len(content) /\ content[Position(p)] = p
    BY PositionFound
  <2> SUFFICES ASSUME NEW i \in 1 .. Len(content) PROVE Position(content[i]) = i
    OBVIOUS
  <2>2. content[i] \in D
    BY <1>1
  <2>3. Position(content[i]) \in 1 .. Len(content) /\ content[Position(content[i])] = content[i]
    BY ONLY <2>1, <2>2
  <2> QED BY ONLY <1>4, <2>3, i \in 1 .. Len(content)
<1>6. \A i \in 1 .. Len(content) :
        /\ i = Len(content) => Stops(content[i])
        /\ i # Len(content) => i + 1 \in 1 .. Len(content) /\ DllNext(content[i]) = content[i + 1]
                               /\ (Stops(content[i]) <=> content[i + 1].key > new.key)
  <2> SUFFICES ASSUME NEW i \in 1 .. Len(content)
               PROVE  /\ i = Len(content) => Stops(content[i])
                      /\ i # Len(content) => i + 1 \in 1 .. Len(content) /\ DllNext(content[i]) = content[i + 1]
                                             /\ (Stops(content[i]) <=> content[i + 1].key > new.key)
    OBVIOUS
  <2>1. CASE i = Len(content)
    BY <1>1, <1>2, <2>1
  <2>2. CASE i # Len(content)
    <3>1. i + 1 \in 1 .. Len(content)
      BY <1>3, <2>2
    <3>2. DllNext(content[i]) = content[i + 1] /\ content[i + 1] \in Item /\ content[i + 1] # TailEnd
      BY <1>1, <1>2, <3>1
    <3>3. Compare(new, content[i + 1]) < 0 <=> content[i + 1].key > new.key
      BY <3>2, CompareIs
    <3> QED BY <2>2, <3>1, <3>2, <3>3
  <2> QED BY <2>1, <2>2
<1> HIDE DEF D, Stops
<1>7. nxt \in [D -> D] /\ \A w \in D : nxt[w] = IF Stops(w) THEN w ELSE DllNext(w)
  <2>1. ASSUME NEW w \in D PROVE Stops(w) \/ DllNext(w) \in D
    <3>1. PICK i \in 1 .. Len(content) : content[i] = w
      BY <1>1
    <3>2. Stops(w) \/ (i + 1 \in 1 .. Len(content) /\ DllNext(w) = content[i + 1])
      BY ONLY <1>6, <3>1, i \in 1 .. Len(content)
    <3> QED BY ONLY <1>1, <3>2
  <2> QED BY <2>1
<1>8. \A i \in 1 .. Len(content) : nxt[content[i]] # content[i] =>
        i # Len(content) /\ ~Stops(content[i]) /\ nxt[content[i]] = content[i + 1]
  BY <1>1, <1>6, <1>7
<1> HIDE DEF nxt
<1>9. Falls(mu, D, nxt)
  <2>1. \A w \in D : \E i \in 1 .. Len(content) : w = content[i] /\ mu[w] = Len(content) - i
    BY <1>1, <1>5
  <2>2. \A i \in 1 .. Len(content) : mu[content[i]] = Len(content) - i
    BY <1>1, <1>5
  <2>3. mu \in [D -> Nat]
    <3>1. \A w \in D : mu[w] \in Nat
      BY <1>1, <2>1
    <3> QED BY <3>1
  <2> HIDE DEF mu
  <2>4. ASSUME NEW w \in D, nxt[w] # w PROVE mu[nxt[w]] < mu[w]
    <3>1. PICK i \in 1 .. Len(content) : w = content[i]
      BY <1>1
    <3>2. i # Len(content) /\ nxt[w] = content[i + 1] /\ i + 1 \in 1 .. Len(content)
      BY <1>6, <1>8, <2>4, <3>1
    <3>3. mu[w] = Len(content) - i /\ mu[nxt[w]] = Len(content) - (i + 1)
      BY <2>2, <3>1, <3>2
    <3> QED BY <1>1, <3>3
  <2> QED BY <2>3, <2>4 DEF Falls
<1>10. \A i \in 1 .. k : i \in 1 .. Len(content)
  BY <1>1
<1>11. StaysIn(S, D, nxt)
  <2>1. S \subseteq D
    BY <1>1, <1>10
  <2>2. ASSUME NEW i \in 1 .. k PROVE nxt[content[i]] \in S
    <3>1. CASE nxt[content[i]] = content[i]
      BY <3>1
    <3>2. CASE nxt[content[i]] # content[i]
      <4>1. i # Len(content) /\ ~Stops(content[i]) /\ nxt[content[i]] = content[i + 1] /\ i \in 1 .. Len(content)
        BY <1>8, <1>10, <3>2
      <4>2. ~(content[i + 1].key > new.key)
        BY <1>6, <4>1
      <4>3. i # k
        BY <1>1, <4>1, <4>2
      <4>4. i + 1 \in 1 .. k
        BY <1>1, <4>3
      <4> QED BY <4>1, <4>4
    <3> QED BY <3>1, <3>2
  <2> QED BY <2>1, <2>2 DEF StaysIn
<1>12. \A f : f = [w \in D |-> IF Stops(w) THEN w ELSE f[DllNext(w)]] <=> Follows(f, D, nxt)
  <2> SUFFICES ASSUME NEW f PROVE f = [w \in D |-> IF Stops(w) THEN w ELSE f[DllNext(w)]] <=> Follows(f, D, nxt)
    OBVIOUS
  <2>1. \A w \in D : ~Stops(w) => DllNext(w) # w
    <3>1. ASSUME NEW w \in D, ~Stops(w) PROVE DllNext(w) # w
      <4>1. PICK i \in 1 .. Len(content) : w = content[i]
        BY <1>1
      <4>2. i + 1 \in 1 .. Len(content) /\ DllNext(w) = content[i + 1]
        BY <1>6, <3>1, <4>1
      <4>3. i # i + 1
        OBVIOUS
      <4> QED BY <1>4, <4>1, <4>2, <4>3
    <3> QED BY <3>1
  <2>2. \A w \in D : (IF Stops(w) THEN w ELSE f[DllNext(w)]) = IF nxt[w] # w THEN f[nxt[w]] ELSE w
    BY <1>7, <2>1
  <2>3. [w \in D |-> IF Stops(w) THEN w ELSE f[DllNext(w)]] = [w \in D |-> IF nxt[w] # w THEN f[nxt[w]] ELSE w]
    BY <2>2
  <2> QED BY <2>3 DEF Follows
<1>13. PICK g : Follows(g, D, nxt)
  BY <1>7, FollowExists
<1> DEFINE after == CHOOSE f : f = [w \in D |-> IF Stops(w) THEN w ELSE f[DllNext(w)]]
<1>14. Follows(after, D, nxt)
  BY <1>12, <1>13
<1>15. DllGetFirst = content[1] /\ 1 \in 1 .. k
  <2>1. 1 \in 1 .. k /\ 1 \in 1 .. Len(content)
    BY <1>1
  <2>2. DOMAIN content = 1 .. Len(content)
    BY DEF ListOK, ListTypeOK
  <2> QED BY <1>1, <2>1, <2>2 DEF ItemAt
<1>16. PlaceAfter(new) = after[content[1]]
  BY <1>15 DEF PlaceAfter, D, Stops
<1> HIDE DEF after, mu, S
<1>17. content[1] \in S
  BY <1>15 DEF S
<1>18. after[content[1]] \in S /\ nxt[after[content[1]]] = after[content[1]]
  BY <1>7, <1>9, <1>11, <1>14, <1>17, FollowEnds
<1>19. PICK i \in 1 .. k : after[content[1]] = content[i]
  BY <1>18 DEF S
<1>20. i = k
  <2> SUFFICES ASSUME i # k PROVE FALSE
    OBVIOUS
  <2>1. i \in 1 .. Len(content) /\ i # Len(content) /\ i + 1 \in 1 .. k /\ i + 1 # i /\ i + 1 \in 1 .. Len(content)
    BY <1>1
  <2>2. ~Stops(content[i]) /\ DllNext(content[i]) = content[i + 1]
    BY <1>6, <2>1
  <2>3. nxt[content[i]] = content[i + 1]
    BY <1>1, <1>7, <2>1, <2>2
  <2> QED BY <1>4, <1>18, <1>19, <2>1, <2>3
<1> QED BY <1>16, <1>19, <1>20
----------------------------------------------------------------------------
(* The steps of the list.                                                  *)

\* An insertion behind any place of the list keeps the invariant.
LEMMA InsertStep ==
  ASSUME ListAssumption, ListInv, compare # "raw", NEW new \in Item, ~IsLinked(new),
         NEW i \in 0 .. Len(content), links' = LinkAfter(PlaceIn(content, i), new),
         Inserted(content, content', i, new), compare' = compare
  PROVE  ListInv'
<1>1. ListOK
  BY DEF ListInv, ListOK
<1>2. Len(content) \in Nat /\ content \in Seq(Item)
  BY <1>1 DEF ListOK, ListTypeOK
<1>3. \A j \in 1 .. Len(content) : content[j] # new
  BY <1>1, NextInList
<1>4. /\ \A j \in 0 .. Len(content) + 1 : PlaceIn(content, j) \in Place /\ PlaceIn(content, j) # new
  <2>1. \A j \in 0 .. Len(content) + 1 : j = 0 \/ j = Len(content) + 1 \/ j \in 1 .. Len(content)
    BY <1>2
  <2> QED BY <1>1, <1>2, <1>3, <2>1, PlacesDiffer DEF ListOK, ListAssumption
<1>5. DllNext(PlaceIn(content, i)) = PlaceIn(content, i + 1)
  BY <1>1 DEF ListOK, Spelt, DllNext
<1>6. i \in 0 .. Len(content) + 1 /\ i + 1 \in 0 .. Len(content) + 1
  BY <1>2
<1>7. Spliced(links, links', PlaceIn(content, i), new, PlaceIn(content, i + 1))
  BY <1>1, <1>4, <1>5, <1>6, LinkAfterSplices DEF ListOK, ListTypeOK
<1>8. Spelt(links', content') /\ Distinct(content') /\ OthersFree(links', content')
  BY <1>1, <1>2, <1>3, <1>7, SplicedSpells DEF ListOK
<1>9. ListTypeOK'
  BY <1>7 DEF ListInv, ListTypeOK, Spliced, Inserted
<1> QED BY <1>8, <1>9 DEF ListInv

\* Appending and prepending are insertions at the ends.
LEMMA AppendInserts ==
  ASSUME NEW s \in Seq(Item), NEW e \in Item
  PROVE  Inserted(s, Append(s, e), Len(s), e) /\ Inserted(s, <<e>> \o s, 0, e)
<1>1. Inserted(s, Append(s, e), Len(s), e)
  BY DEF Inserted
<1>2. <<e>> \in Seq(Item) /\ Len(<<e>>) = 1 /\ <<e>>[1] = e
  OBVIOUS
<1>3. /\ <<e>> \o s \in Seq(Item) /\ Len(<<e>> \o s) = Len(s) + 1
      /\ \A j \in 1 .. 1 + Len(s) : (<<e>> \o s)[j] = IF j <= 1 THEN <<e>>[j] ELSE s[j - 1]
  BY <1>2
<1>4. Inserted(s, <<e>> \o s, 0, e)
  <2>1. Len(s) \in Nat /\ 1 \in 1 .. 1 + Len(s)
    OBVIOUS
  <2>2. \A j \in 0 + 1 .. Len(s) : j + 1 \in 1 .. 1 + Len(s) /\ ~(j + 1 <= 1) /\ (j + 1) - 1 = j
    BY <2>1
  <2>3. ~(1 <= 0) /\ 0 + 1 = 1 /\ \A j \in 1 .. 0 : FALSE
    OBVIOUS
  <2>4. (<<e>> \o s)[0 + 1] = e
    BY <1>2, <1>3, <2>1
  <2>5. \A j \in 0 + 1 .. Len(s) : (<<e>> \o s)[j + 1] = s[j]
    BY <1>3, <2>2
  <2> HIDE DEF Inserted
  <2> QED BY <1>3, <2>3, <2>4, <2>5 DEF Inserted
<1> QED BY <1>1, <1>4

\* So is InsertAt, in the middle.
LEMMA InsertAtInserts ==
  ASSUME NEW s \in Seq(Item), NEW e \in Item, NEW i \in 0 .. Len(s)
  PROVE  Inserted(s, InsertAt(s, i + 1, e), i, e)
<1> DEFINE t == InsertAt(s, i + 1, e)
<1>1. Len(s) \in Nat /\ i \in Int /\ 0 <= i /\ i <= Len(s) /\ i + 1 \in 1 .. Len(s) + 1
  OBVIOUS
<1>2. /\ t \in Seq(Item) /\ Len(t) = Len(s) + 1
      /\ \A j \in 1 .. Len(s) + 1 : t[j] = IF j < i + 1 THEN s[j] ELSE IF j = i + 1 THEN e ELSE s[j - 1]
  <2> HIDE DEF t
  <2>1. PICK k \in 1 .. Len(s) + 1 : k = i + 1
    BY <1>1
  <2>2. /\ InsertAt(s, k, e) \in Seq(Item) /\ Len(InsertAt(s, k, e)) = Len(s) + 1
        /\ \A j \in 1 .. Len(s) + 1 :
             InsertAt(s, k, e)[j] = IF j < k THEN s[j] ELSE IF j = k THEN e ELSE s[j - 1]
    BY InsertedAt
  <2>3. t = InsertAt(s, k, e)
    BY <2>1 DEF t
  <2> QED BY ONLY <2>1, <2>2, <2>3
<1> HIDE DEF t
<1>3. \A j \in 1 .. i : j \in 1 .. Len(s) + 1 /\ j < i + 1
  BY <1>1
<1>4. ~(i + 1 < i + 1)
  BY <1>1
<1>5. \A j \in i + 1 .. Len(s) : j + 1 \in 1 .. Len(s) + 1 /\ ~(j + 1 < i + 1) /\ j + 1 # i + 1 /\ (j + 1) - 1 = j
  BY <1>1
<1>6. Inserted(s, t, i, e)
  BY <1>1, <1>2, <1>3, <1>4, <1>5 DEF Inserted
<1> QED BY <1>6 DEF t

\* RemoveAt is a removal.
LEMMA RemoveAtRemoves ==
  ASSUME NEW s \in Seq(Item), NEW i \in 1 .. Len(s)
  PROVE  Removed(s, RemoveAt(s, i), i)
<1> DEFINE t == RemoveAt(s, i)
<1>1. Len(s) \in Nat /\ i \in Int /\ 1 <= i /\ i <= Len(s)
  OBVIOUS
<1>2. /\ t \in Seq(Item) /\ Len(t) = Len(s) - 1
      /\ \A j \in 1 .. Len(s) - 1 : t[j] = IF j < i THEN s[j] ELSE s[j + 1]
  BY RemovedAt
<1> HIDE DEF t
<1>3. \A j \in 1 .. i - 1 : j \in 1 .. Len(s) - 1 /\ j < i
  BY <1>1
<1>4. \A j \in i + 1 .. Len(s) : j - 1 \in 1 .. Len(s) - 1 /\ ~(j - 1 < i) /\ (j - 1) + 1 = j
  BY <1>1
<1>5. Removed(s, t, i)
  BY <1>1, <1>2, <1>3, <1>4 DEF Removed
<1> QED BY <1>5 DEF t

\* The place that std_dll_insert finds is where the new item belongs in content.
LEMMA DllInsertPlace ==
  ASSUME ListAssumption, ListInv, NEW new \in Item, DllInsert(new)
  PROVE  \E i \in 0 .. Len(content) : /\ links' = LinkAfter(PlaceIn(content, i), new)
                                      /\ Inserted(content, content', i, new)
<1>1. ListOK /\ content \in Seq(Item) /\ Len(content) \in Nat /\ compare # "raw"
  BY DEF ListInv, ListOK, ListTypeOK, DllInsert, MayInsert
<1> DEFINE I == {j \in 1 .. Len(content) : content[j].key > new.key}
           greater == SelectInSeq(content, LAMBDA p : p.key > new.key)
<1>2. /\ I = {} => greater = 0
      /\ I # {} => greater \in I /\ greater # 0 /\ \A j \in I : greater <= j
  <2>1. I = {} => greater = 0
    BY DEF SelectInSeq
  <2>2. ASSUME I # {} PROVE greater \in I /\ greater # 0 /\ \A j \in I : greater <= j
    <3>1. greater = CHOOSE m \in I : \A j \in I : m <= j
      BY <2>2 DEF SelectInSeq, Min
    <3>2. I \in SUBSET Nat
      BY <1>1
    <3>3. \E m \in I : \A j \in I : m <= j
      <4> HIDE DEF I
      <4> QED BY <2>2, <3>2, LeastNumber
    <3>4. greater \in I /\ \A j \in I : greater <= j
      <4> HIDE DEF I
      <4> QED BY <3>1, <3>3
    <3>5. greater # 0
      <4> HIDE DEF greater
      <4>1. \A m \in I : m # 0
        BY <1>1
      <4> QED BY <3>4, <4>1
    <3> QED BY <3>4, <3>5
  <2> QED BY <2>1, <2>2
<1> HIDE DEF greater
<1>3. content' = IF compare = "none" \/ greater = 0 THEN Append(content, new) ELSE InsertAt(content, greater, new)
  BY DEF DllInsert, greater
<1>4. links' = LinkAfter(IF compare = "none" THEN DllBack(TailEnd)
                         ELSE IF DllGetFirst = Null \/ Compare(new, DllGetFirst) < 0 THEN HeadEnd
                         ELSE PlaceAfter(new), new)
  BY DEF DllInsert
<1>5. /\ \A i \in 1 .. Len(content) : PlaceIn(content, i) = content[i] /\ content[i] \in Item /\ content[i] # Null
      /\ PlaceIn(content, 0) = HeadEnd
      /\ DllBack(TailEnd) = PlaceIn(content, Len(content))
      /\ DllGetFirst = ItemAt(1) /\ DOMAIN content = 1 .. Len(content)
  BY <1>1, PlacesDiffer, NextInList DEF ListOK, ListAssumption
<1>6. CASE compare = "none"
  <2>1. Inserted(content, content', Len(content), new)
    BY <1>1, <1>3, <1>6, AppendInserts
  <2>2. links' = LinkAfter(PlaceIn(content, Len(content)), new) /\ Len(content) \in 0 .. Len(content)
    BY <1>1, <1>4, <1>5, <1>6
  <2> QED BY <2>1, <2>2
<1>7. CASE compare # "none" /\ Len(content) = 0
  <2>1. I = {}
    BY <1>7
  <2>2. DllGetFirst = Null
    BY <1>5, <1>7 DEF ItemAt
  <2>3. links' = LinkAfter(PlaceIn(content, 0), new)
    BY <1>4, <1>5, <1>7, <2>2
  <2>4. Inserted(content, content', Len(content), new)
    BY <1>1, <1>2, <1>3, <2>1, AppendInserts
  <2>5. 0 \in 0 .. Len(content)
    BY <1>1
  <2> QED BY <1>7, <2>3, <2>4, <2>5
<1>8. CASE compare # "none" /\ Len(content) # 0
  <2>1. 1 \in 1 .. Len(content) /\ DllGetFirst = content[1] /\ DllGetFirst # Null
    BY <1>1, <1>5, <1>8 DEF ItemAt
  <2>2. Compare(new, content[1]) < 0 <=> 1 \in I
    BY <1>5, <2>1, CompareIs
  <2>3. CASE I = {}
    <3> DEFINE k == Len(content)
    <3>1. PlaceAfter(new) = content[k]
      <4>1. k \in 1 .. Len(content) /\ \A i \in 1 .. k : ~(content[i].key > new.key)
        BY <1>1, <1>8, <2>3
      <4>2. ~(k < Len(content))
        BY <1>1
      <4> QED BY <1>1, <4>1, <4>2, PlaceAfterIs
    <3>2. Len(content) \in 0 .. Len(content) /\ Len(content) \in 1 .. Len(content)
      BY <1>1, <1>8
    <3>3. links' = LinkAfter(PlaceIn(content, k), new)
      BY <1>4, <1>5, <1>8, <2>1, <2>2, <2>3, <3>1, <3>2
    <3>4. Inserted(content, content', Len(content), new)
      BY <1>1, <1>2, <1>3, <2>3, AppendInserts
    <3> QED BY <3>2, <3>3, <3>4
  <2>4. CASE I # {}
    <3>1. /\ greater \in I /\ greater # 0 /\ \A j \in I : greater <= j
          /\ greater \in 1 .. Len(content) /\ content[greater].key > new.key
      BY <1>2, <2>4
    <3>2. content' = InsertAt(content, greater, new)
      BY <1>3, <1>8, <3>1
    <3>3. PICK k \in 0 .. Len(content) : greater = k + 1
      <4>1. greater - 1 \in 0 .. Len(content) /\ greater = (greater - 1) + 1
        BY <1>1, <3>1
      <4> QED BY <4>1
    <3>4. Inserted(content, content', k, new)
      BY <1>1, <3>2, <3>3, InsertAtInserts
    <3>5. CASE k = 0
      <4>1. 1 \in I
        BY <3>1, <3>3, <3>5
      <4>2. links' = LinkAfter(PlaceIn(content, 0), new)
        BY <1>4, <1>5, <1>8, <2>1, <2>2, <4>1
      <4> QED BY <3>4, <3>5, <4>2
    <3>6. CASE k # 0
      <4>1. k \in 1 .. Len(content) /\ \A i \in 1 .. k : i \in 1 .. Len(content) /\ ~(greater <= i)
        BY <1>1, <3>3, <3>6
      <4>2. \A i \in 1 .. k : ~(content[i].key > new.key)
        BY <3>1, <4>1
      <4>3. content[k + 1].key > new.key
        BY <3>1, <3>3
      <4>4. PlaceAfter(new) = content[k]
        BY <1>1, <4>1, <4>2, <4>3, PlaceAfterIs
      <4>5. ~(1 \in I)
        <5>1. 1 \in 1 .. k
          BY <4>1
        <5> QED BY <4>2, <5>1
      <4>6. links' = LinkAfter(PlaceIn(content, k), new)
        BY <1>4, <1>5, <1>8, <2>1, <2>2, <4>1, <4>4, <4>5
      <4> QED BY <3>4, <4>6
    <3> QED BY <3>5, <3>6
  <2> QED BY <2>3, <2>4
<1> QED BY <1>6, <1>7, <1>8

\* A removal keeps the invariant.
LEMMA UnlinkStep ==
  ASSUME ListAssumption, ListInv, NEW p \in Item, Unlink(p)
  PROVE  ListInv'
<1>1. ListOK /\ content \in Seq(Item) /\ Len(content) \in Nat /\ compare # "raw" /\ IsLinked(p)
  BY DEF ListInv, ListOK, ListTypeOK, Unlink
<1>2. PICK i : i = Position(p)
  OBVIOUS
<1>3. i \in 1 .. Len(content) /\ content[i] = p
  BY <1>1, <1>2, PositionFound
<1>4. i + 1 \in 0 .. Len(content) + 1 /\ i - 1 \in 0 .. Len(content) + 1 /\ i \in 0 .. Len(content) + 1
      /\ i - 1 # i /\ i + 1 # i
  BY <1>1, <1>3
<1>5. DllNext(p) = PlaceIn(content, i + 1) /\ DllBack(p) = PlaceIn(content, i - 1)
  BY <1>1, <1>3, NextInList
<1>6. /\ PlaceIn(content, i + 1) \in Place /\ PlaceIn(content, i - 1) \in Place
      /\ PlaceIn(content, i + 1) # p /\ PlaceIn(content, i - 1) # p
  BY <1>1, <1>3, <1>4, PlacesDiffer DEF ListOK
<1>7. Bypassed(links, links', PlaceIn(content, i - 1), content[i], PlaceIn(content, i + 1))
  BY <1>1, <1>3, <1>5, <1>6, UnlinkBypasses DEF ListOK, ListTypeOK, Unlink
<1>8. Removed(content, content', i)
  BY <1>1, <1>2, <1>3, RemoveAtRemoves DEF Unlink
<1>9. Spelt(links', content') /\ Distinct(content') /\ OthersFree(links', content')
  BY <1>1, <1>3, <1>7, <1>8, BypassedSpells DEF ListOK
<1>10. ListTypeOK' /\ compare' # "raw"
  BY <1>7, <1>8 DEF ListInv, ListTypeOK, Bypassed, Removed, Unlink
<1> QED BY <1>9, <1>10 DEF ListInv

\* Initialising the list keeps the invariant.
LEMMA DllInitStep ==
  ASSUME ListAssumption, ListInv, NEW c \in {"none", "key"}, DllInit(c)
  PROVE  ListInv'
<1>1. content = << >> /\ content' = << >> /\ Len(content) = 0 /\ compare' = c /\ links \in [Place -> [Sides -> Link]]
  BY DEF DllInit, ListInv, ListTypeOK
<1> DEFINE h == [next |-> TailEnd, back |-> Null]
           e == [next |-> Null, back |-> HeadEnd]
<1>2. HeadEnd \in Place /\ TailEnd \in Place /\ HeadEnd \in Link /\ TailEnd \in Link /\ Null \in Link /\ HeadEnd # TailEnd
  BY DEF Place, Link, ListAssumption
<1>3. h \in [Sides -> Link] /\ h["next"] = TailEnd /\ e \in [Sides -> Link] /\ e["back"] = HeadEnd
  BY <1>2 DEF Sides
<1>4. links' = [links EXCEPT ![HeadEnd] = h, ![TailEnd] = e]
  BY DEF DllInit
<1> HIDE DEF h, e
<1>5. /\ links' \in [Place -> [Sides -> Link]]
      /\ links'[HeadEnd] = h /\ links'[TailEnd] = e
      /\ \A p \in Item : links'[p] = links[p]
  BY <1>1, <1>2, <1>3, <1>4 DEF ListAssumption, Place
<1>6. Spelt(links', content')
  <2>1. PlaceIn(<< >>, 0) = HeadEnd /\ PlaceIn(<< >>, 1) = TailEnd /\ Len(<< >>) = 0
    BY DEF PlaceIn
  <2>2. \A i \in 0 .. 0 : i = 0 /\ i + 1 = 1
    OBVIOUS
  <2>3. \A i \in 1 .. 0 + 1 : i = 1 /\ i - 1 = 0
    OBVIOUS
  <2> QED BY <1>1, <1>3, <1>5, <2>1, <2>2, <2>3 DEF Spelt
<1>7. Distinct(content') /\ OthersFree(links', content')
  BY <1>1, <1>5 DEF ListInv, Distinct, OthersFree
<1>8. ListTypeOK' /\ compare' # "raw"
  BY <1>1, <1>5 DEF ListTypeOK
<1> QED BY <1>6, <1>7, <1>8 DEF ListInv

\* Every operation on the list keeps the invariant.
LEMMA ListInvHolds == ListSpec => []ListInv
<1>1. ListInit => ListInv
  <2> SUFFICES ASSUME ListInit PROVE ListInv
    OBVIOUS
  <2>1. Unlinked \in [Sides -> Link]
    BY DEF Unlinked, Link
  <2>2. links \in [Place -> [Sides -> Link]] /\ \A p \in Item : links[p] = Unlinked
    BY <2>1 DEF ListInit, Place
  <2>3. content = << >> /\ Len(content) = 0 /\ content \in Seq(Item) /\ compare = "raw"
    BY DEF ListInit
  <2> QED BY <2>2, <2>3 DEF ListInv, ListTypeOK, Distinct, OthersFree
<1>2. ListInv /\ [ListNext]_listVars => ListInv'
  <2> SUFFICES ASSUME ListInv, [ListNext]_listVars PROVE ListInv'
    OBVIOUS
  <2> USE ListAssumption
  <2>1. content \in Seq(Item) /\ Len(content) \in Nat
    BY DEF ListInv, ListTypeOK
  <2>2. ASSUME compare # "raw" PROVE ListOK
    BY <2>2 DEF ListInv, ListOK
  <2>3. ASSUME NEW c \in {"none", "key"}, DllInit(c) PROVE ListInv'
    BY <2>3, DllInitStep
  <2>4. ASSUME NEW new \in Item, InsertAtFront(new) PROVE ListInv'
    <3>1. Inserted(content, content', 0, new)
      BY <2>1, <2>4, AppendInserts DEF InsertAtFront
    <3>2. links' = LinkAfter(PlaceIn(content, 0), new)
      BY <2>4 DEF InsertAtFront, PlaceIn
    <3>3. PICK i : i = 0
      OBVIOUS
    <3>4. i \in 0 .. Len(content)
      BY <2>1, <3>3
    <3> QED BY <2>4, <3>1, <3>2, <3>3, <3>4, InsertStep DEF InsertAtFront, MayInsert
  <2>5. ASSUME NEW new \in Item, InsertAtBack(new) PROVE ListInv'
    <3>1. Inserted(content, content', Len(content), new)
      BY <2>1, <2>5, AppendInserts DEF InsertAtBack
    <3>2. links' = LinkAfter(PlaceIn(content, Len(content)), new)
      BY <2>2, <2>5, NextInList DEF InsertAtBack, MayInsert
    <3>3. PICK i : i = Len(content)
      OBVIOUS
    <3>4. i \in 0 .. Len(content)
      BY <2>1, <3>3
    <3> QED BY <2>5, <3>1, <3>2, <3>3, <3>4, InsertStep DEF InsertAtBack, MayInsert
  <2>6. ASSUME NEW new \in Item, DllInsert(new) PROVE ListInv'
    <3>1. PICK i \in 0 .. Len(content) : links' = LinkAfter(PlaceIn(content, i), new) /\ Inserted(content, content', i, new)
      BY <2>6, DllInsertPlace
    <3> QED BY <2>6, <3>1, InsertStep DEF DllInsert, MayInsert
  <2>7. ASSUME NEW new \in Item, NEW p \in Item, InsertAfter(p, new) PROVE ListInv'
    <3>1. ListOK /\ IsLinked(p) /\ compare # "raw" /\ ~IsLinked(new)
      BY <2>2, <2>7 DEF InsertAfter, MayInsert
    <3>2. PICK i : i = Position(p)
      OBVIOUS
    <3>3. i \in 1 .. Len(content) /\ content[i] = p /\ i \in 0 .. Len(content)
      BY <2>1, <3>1, <3>2, PositionFound
    <3>4. p = PlaceIn(content, i)
      BY <2>1, <3>1, <3>3, PlacesDiffer DEF ListOK
    <3>5. Inserted(content, content', i, new)
      BY <2>1, <2>7, <3>2, <3>3, InsertAtInserts DEF InsertAfter
    <3> QED BY <2>7, <3>1, <3>3, <3>4, <3>5, InsertStep DEF InsertAfter
  <2>8. ASSUME NEW new \in Item, NEW p \in Item, InsertBefore(p, new) PROVE ListInv'
    <3>1. ListOK /\ IsLinked(p) /\ compare # "raw" /\ ~IsLinked(new)
      BY <2>2, <2>8 DEF InsertBefore, MayInsert
    <3>2. Position(p) \in 1 .. Len(content) /\ content[Position(p)] = p
      BY <3>1, PositionFound
    <3>3. PICK i \in 0 .. Len(content) : Position(p) = i + 1
      <4>1. Position(p) - 1 \in 0 .. Len(content) /\ Position(p) = (Position(p) - 1) + 1
        BY <2>1, <3>2
      <4> QED BY <4>1
    <3>4. DllBack(p) = PlaceIn(content, i)
      <4>1. \A j \in 1 .. Len(content) : DllBack(content[j]) = PlaceIn(content, j - 1)
        BY <3>1, NextInList
      <4>2. DllBack(content[Position(p)]) = PlaceIn(content, Position(p) - 1)
        BY <3>2, <4>1
      <4>3. Position(p) - 1 = i
        BY <2>1, <3>3
      <4> QED BY <3>2, <4>2, <4>3
    <3>5. Inserted(content, content', i, new)
      BY <2>1, <2>8, <3>3, InsertAtInserts DEF InsertBefore
    <3> QED BY <2>8, <3>1, <3>4, <3>5, InsertStep DEF InsertBefore
  <2>9. ASSUME NEW p \in Item, Unlink(p) PROVE ListInv'
    BY <2>9, UnlinkStep
  <2>10. CASE UNCHANGED listVars
    BY <2>10 DEF listVars, ListInv, ListTypeOK, Spelt, Distinct, OthersFree
  <2> QED BY <2>3, <2>4, <2>5, <2>6, <2>7, <2>8, <2>9, <2>10 DEF ListNext
<1> QED BY <1>1, <1>2, PTL DEF ListSpec

\* The links and the sequence that the calls have made stay what they are
\* declared to be.
THEOREM ListTypeCorrect == ListSpec => []ListTypeOK
<1>1. ListInv => ListTypeOK
  BY DEF ListInv
<1> QED BY <1>1, ListInvHolds, PTL

\* Whatever the mixture of the calls of std_llist.c, the links spell in both
\* directions the sequence those calls make, and an item is linked just while
\* it is in: std_dll_insert goes on at the right place also in a list that was
\* not built by key.
THEOREM ListFollowsCalls == ListSpec => []ListIsItsContent
<1>1. ListInv => ListIsItsContent
  <2> SUFFICES ASSUME ListInv, compare # "raw"
               PROVE  /\ DllGetFirst = ItemAt(1) /\ DllGetLast = ItemAt(Len(content))
                      /\ \A i \in DOMAIN content :
                           DllGetNext(content[i]) = ItemAt(i + 1) /\ DllGetPrev(content[i]) = ItemAt(i - 1)
                      /\ \A p \in Item : IsLinked(p) <=> Contains(content, p)
    BY DEF ListIsItsContent
  <2>1. ListOK /\ DOMAIN content = 1 .. Len(content)
    BY DEF ListInv, ListOK, ListTypeOK
  <2> QED BY <2>1, ListAssumption, NextInList DEF Contains
<1> QED BY <1>1, ListInvHolds, PTL
============================================================================
