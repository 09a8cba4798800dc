----------------------------- MODULE RouteTable -----------------------------
(***************************************************************************)
(* What a radix tree promises its owner, whatever walks are under way: a   *)
(* table with at most one head for a prefix, and a version for every head  *)
(* that is greater than every version given before.                        *)
(***************************************************************************)
EXTENDS Naturals

CONSTANTS Rth, Prefix, KeyOf(_), NoHead, MaxVersion

VARIABLES
  table,     \* the head of every prefix, or NoHead
  hver,      \* the version of every head
  version    \* the last version given

vars == <<table, hver, version>>

Init ==
  /\ table = [p \in Prefix |-> NoHead]
  /\ hver = [h \in Rth |-> 0]
  /\ version = 0

\* The first head of a prefix stays until it is removed.
Insert(h) ==
  /\ table[KeyOf(h)] = NoHead
  /\ table' = [table EXCEPT ![KeyOf(h)] = h]
  /\ hver' = [hver EXCEPT ![h] = 0]
  /\ UNCHANGED version

Remove(h) ==
  /\ table[KeyOf(h)] = h
  /\ table' = [table EXCEPT ![KeyOf(h)] = NoHead]
  /\ hver' = [hver EXCEPT ![h] = 0]
  /\ UNCHANGED version

SetVersion(h) ==
  /\ table[KeyOf(h)] = h
  /\ version < MaxVersion
  /\ version' = version + 1
  /\ hver' = [hver EXCEPT ![h] = version']
  /\ UNCHANGED table

Reset ==
  /\ \A p \in Prefix : table[p] = NoHead
  /\ version' = 0
  /\ UNCHANGED <<table, hver>>

Next ==
  \/ \E h \in Rth : Insert(h) \/ Remove(h) \/ SetVersion(h)
  \/ Reset

Spec == Init /\ [][Next]_vars
=============================================================================
