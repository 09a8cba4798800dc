---------------------------- MODULE LinkedList -----------------------------
(***************************************************************************)
(* The doubly linked list of std_llist.c, whose head holds a sentinel at   *)
(* each end, and its sorted insertion.                                     *)
(***************************************************************************)
EXTENDS Integers, SequencesExt

CONSTANTS
  Item,         \* the user's structures, each with a key
  HeadEnd, TailEnd,  \* head and tail of the std_dll_head
  Null

ASSUME ListAssumption ==
  /\ HeadEnd \notin Item /\ TailEnd \notin Item /\ Null \notin Item
  /\ HeadEnd # TailEnd /\ HeadEnd # Null /\ TailEnd # Null
  /\ \A p \in Item : p.key \in Int

VARIABLES
  links,    \* dll_next and dll_back of each structure and of the sentinels
  compare,  \* what the head compares with: "none" is the null pointer
  content   \* history: the list as a sequence

listVars == <<links, compare, content>>

Place == Item \cup {HeadEnd, TailEnd}
Link  == Place \cup {Null}
Sides == {"next", "back"}
Unlinked == [s \in Sides |-> Null]

ListTypeOK ==
  /\ links \in [Place -> [Sides -> Link]]
  /\ compare \in {"raw", "none", "key"}
  /\ content \in Seq(Item)

ListInit ==
  /\ links = [p \in Place |-> Unlinked]
  /\ compare = "raw"
  /\ content = << >>

DllNext(p) == links[p]["next"]
DllBack(p) == links[p]["back"]

\* std_dll_getfirst, _getlast, _getnext and _getprev.
DllGetNext(p)  == IF DllNext(p) # TailEnd THEN DllNext(p) ELSE Null
DllGetPrev(p)  == IF DllBack(p) # HeadEnd THEN DllBack(p) ELSE Null
DllGetFirst    == DllGetNext(HeadEnd)
DllGetLast     == DllGetPrev(TailEnd)
IsLinked(p) == DllNext(p) # Null /\ DllBack(p) # Null

\* The sign of the three compare functions.
Compare(a, b) == IF a.key = b.key THEN 0 ELSE IF a.key < b.key THEN -1 ELSE 1
----------------------------------------------------------------------------
\* std_dll_init and std_dll_init_sort.
DllInit(c) ==
  /\ compare = "raw"
  /\ compare' = c
  /\ links' = [links EXCEPT ![HeadEnd] = [next |-> TailEnd, back |-> Null],
                            ![TailEnd]  = [next |-> Null, back |-> HeadEnd]]
  /\ UNCHANGED content

\* A mutant of LinkAfter: the one behind keeps its link back.
LinkAfterForgetting(p, new) ==
  [links EXCEPT ![new] = [next |-> DllNext(p), back |-> p],
                ![p]["next"] = new]

\* What the four insertions write.
LinkAfter(p, new) ==
  [links EXCEPT ![new] = [next |-> DllNext(p), back |-> p],
                ![DllNext(p)]["back"] = new,
                ![p]["next"] = new]

MayInsert(new) == compare # "raw" /\ ~IsLinked(new)

InsertAtFront(new) ==
  /\ MayInsert(new)
  /\ links' = LinkAfter(HeadEnd, new)
  /\ content' = <<new>> \o content
  /\ UNCHANGED compare

InsertAtBack(new) ==
  /\ MayInsert(new)
  /\ links' = LinkAfter(DllBack(TailEnd), new)
  /\ content' = Append(content, new)
  /\ UNCHANGED compare

Position(p) == CHOOSE i \in DOMAIN content : content[i] = p
InsertAfter(p, new) ==
  /\ MayInsert(new) /\ IsLinked(p)
  /\ links' = LinkAfter(p, new)
  /\ content' = InsertAt(content, Position(p) + 1, new)
  /\ UNCHANGED compare

InsertBefore(p, new) ==
  /\ MayInsert(new) /\ IsLinked(p)
  /\ links' = LinkAfter(DllBack(p), new)
  /\ content' = InsertAt(content, Position(p), new)
  /\ UNCHANGED compare

\* The walk of std_dll_insert, to the place before the first greater key.
PlaceAfter(new) ==
  LET after[walk \in {p \in Item : IsLinked(p)}] ==
        IF DllNext(walk) = TailEnd \/ Compare(new, DllNext(walk)) < 0 THEN walk ELSE after[DllNext(walk)]
  IN after[DllGetFirst]

\* std_dll_insert.  Where it belongs in content: after those that are not greater
\* than it.
DllInsert(new) ==
  /\ MayInsert(new)
  /\ links' = LinkAfter(IF compare = "none" THEN DllBack(TailEnd)
                        ELSE IF DllGetFirst = Null \/ Compare(new, DllGetFirst) < 0 THEN HeadEnd
                        ELSE PlaceAfter(new), new)
  /\ content' = LET greater == SelectInSeq(content, LAMBDA p : p.key > new.key)
                IN IF compare = "none" \/ greater = 0 THEN Append(content, new)
                   ELSE InsertAt(content, greater, new)
  /\ UNCHANGED compare

\* std_dll_remove.
Unlink(p) ==
  /\ compare # "raw" /\ IsLinked(p)
  /\ links' = [links EXCEPT ![DllBack(p)]["next"] = DllNext(p),
                            ![DllNext(p)]["back"] = DllBack(p),
                            ![p] = Unlinked]
  /\ content' = RemoveAt(content, Position(p))
  /\ UNCHANGED compare

ListNext ==
  \/ \E c \in {"none", "key"} : DllInit(c)
  \/ \E new \in Item :
       \/ InsertAtFront(new) \/ InsertAtBack(new) \/ DllInsert(new)
       \/ \E p \in Item : InsertAfter(p, new) \/ InsertBefore(p, new)
  \/ \E p \in Item : Unlink(p)

ListSpec == ListInit /\ [][ListNext]_listVars
----------------------------------------------------------------------------
\* The item at place i of the sequence, the null pointer beyond its ends.
ItemAt(i) == IF i \in DOMAIN content THEN content[i] ELSE Null

\* In either direction the links spell the sequence that the calls have made,
\* whatever their mixture: also in a list where items were put by hand before
\* std_dll_insert looked for a place by key.  An item is linked just while it is in.
ListIsItsContent ==
  compare # "raw" =>
    /\ DllGetFirst = ItemAt(1) /\ DllGetLast = ItemAt(Len(content))
    /\ \A i \in DOMAIN content :
         DllGetNext(content[i]) = ItemAt(i + 1) /\ DllGetPrev(content[i]) = ItemAt(i - 1)
    /\ \A p \in Item : IsLinked(p) <=> Contains(content, p)
=============================================================================
