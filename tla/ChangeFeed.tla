----------------------------- MODULE ChangeFeed -----------------------------
(***************************************************************************)
(* What the change list of sonic/std_radical.h promises to those who walk  *)
(* it, said without a list and without markers: every walker has a set of  *)
(* nodes whose last change it has still to be told of, and is told of them *)
(* in the order of the changes.  Radical.tla is the implementation of it.  *)
(***************************************************************************)
EXTENDS Naturals

CONSTANTS
  Route,       \* what can change
  Walker,     \* who wants to know
  NoRoute

VARIABLES
  stamp,      \* the number of each node's last change, 0 if there is none
  last,       \* the number of the last change of all
  walkers,    \* the walkers that have begun
  todo,       \* the nodes each of them has still to be told of
  telling     \* the node each of them is being told of

feedVars == <<stamp, last, walkers, todo, telling>>

Changed == {n \in Route : stamp[n] # 0}

FeedInit ==
  /\ stamp = [n \in Route |-> 0]
  /\ last = 0
  /\ walkers = {}
  /\ todo = [w \in Walker |-> {}]
  /\ telling = [w \in Walker |-> NoRoute]

Change(n) ==
  /\ last' = last + 1
  /\ stamp' = [stamp EXCEPT ![n] = last']
  /\ todo' = [w \in Walker |-> IF w \in walkers THEN todo[w] \cup {n} ELSE todo[w]]
  /\ UNCHANGED <<walkers, telling>>

Forget(n) ==
  /\ stamp' = [stamp EXCEPT ![n] = 0]
  /\ todo' = [w \in Walker |-> todo[w] \ {n}]
  /\ UNCHANGED <<last, walkers, telling>>

\* A walker begins, or begins again, with every change or where another is.
Begin(w) ==
  /\ walkers' = walkers \cup {w}
  /\ todo' \in {[todo EXCEPT ![w] = nodes] :
                  nodes \in {Changed} \cup {todo[v] : v \in walkers \ {w}}}
  /\ UNCHANGED <<stamp, last, telling>>

End(w) ==
  /\ telling[w] = NoRoute
  /\ walkers' = walkers \ {w}
  /\ todo' = [todo EXCEPT ![w] = {}]
  /\ UNCHANGED <<stamp, last, telling>>

\* The walker is told of the earliest change it does not know, perhaps right
\* after another.
Tell(w, n) ==
  /\ n \in todo[w]
  /\ \A m \in todo[w] : stamp[n] <= stamp[m]
  /\ telling' = [telling EXCEPT ![w] = n]
  /\ todo' = [todo EXCEPT ![w] = @ \ {n}]
  /\ UNCHANGED <<stamp, last, walkers>>

\* The walker has taken note, or wants to be told again.
Told(w) ==
  /\ telling[w] # NoRoute
  /\ telling' = [telling EXCEPT ![w] = NoRoute]
  /\ \/ UNCHANGED todo
     \/ /\ telling[w] \in Changed
        /\ todo' = [todo EXCEPT ![w] = @ \cup {telling[w]}]
  /\ UNCHANGED <<stamp, last, walkers>>

\* The changes get new numbers in the same order.
Renumber ==
  /\ stamp' \in [Route -> 0 .. last]
  /\ \A m, n \in Route : /\ stamp[n] = 0 <=> stamp'[n] = 0
                        /\ stamp[m] < stamp[n] <=> stamp'[m] < stamp'[n]
  /\ UNCHANGED <<last, walkers, todo, telling>>

FeedNext ==
  \/ \E n \in Route : Change(n) \/ Forget(n)
  \/ \E w \in Walker : Begin(w) \/ End(w) \/ Told(w) \/ \E n \in Route : Tell(w, n)
  \/ Renumber

FeedSpec == FeedInit /\ [][FeedNext]_feedVars
============================================================================
