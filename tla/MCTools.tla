------------------------------ MODULE MCTools ------------------------------
(***************************************************************************)
(* Small instances of the tools that use nothing of each other, in one     *)
(* state space: a behaviour is one of a single tool, the part.  The        *)
(* variables of the others stay as they begin.                             *)
(*                                                                         *)
(* Those about which there are theorems are extended, the others are       *)
(* instances.                                                              *)
(***************************************************************************)
EXTENDS Frames, CmdRedir, LinkedList, RBLookups, ThreadPool

CONSTANTS Nothing

SeqUpTo(S, n) == UNION {[1 .. k -> S] : k \in 0 .. n}

VARIABLES
  part,
  cfg, file, saved, lost,                                              \* ConfigFile
  call                                                                 \* Utilities
----------------------------------------------------------------------------
(* The parts.                                                              *)

\* Seven data, two of them with one key, come and go in any order.  Three more
\* come in order, when all before are there, and after them none: with ten a removal may
\* rebalance on two levels.
LowData  == {[key |-> k, copy |-> 1] : k \in 1 .. 6} \cup {[key |-> 3, copy |-> 2]}
HighData == {[key |-> k, copy |-> 1] : k \in 7 .. 9}
TreeData == LowData \cup HighData

\* Two publishers, a message with data and one without.
TwoEvents == {[id |-> 1, data |-> 0], [id |-> 2, data |-> 1]}
\* Names and values with the characters the format uses, and lines that are too long.
Cf == INSTANCE ConfigFile WITH
        Group <- {<< >>, <<"a", " ">>}, Name <- {<<"a">>, <<"[">>},
        Value <- {<< >>, <<"[", "=", " ", "]", "=">>}, BuffLen <- 9, MaxEntries <- 2

FiveItems == {[key |-> k, copy |-> c] : k \in 1 .. 2, c \in 1 .. 2} \cup {[key |-> 3, copy |-> 1]}

Keyed(keys) == [i \in DOMAIN keys |-> [key |-> keys[i], at |-> i]]
Inner       == SeqUpTo({[tag |-> t, n |-> n] : t \in 1 .. 2, n \in 0 .. 1}, 2)
Letters     == [who : {"a", "u", ""}, op : {"+", "-", "="}, what : {{"r"}, {"r", "w"}}]
                 \cup {[who |-> "g", op |-> "+", what |-> {}]}
Ut == INSTANCE Utilities WITH
        Byte <- 3, NBBY <- 3, AddrLen <- 3, Wrap <- 16,
        Elements <- {Keyed(keys) : keys \in SeqUpTo(1 .. 3, 6)},
        Lengths  <- 1 .. 8,
        Tlvs     <- SeqUpTo([tag : 1 .. 2, inner : Inner], 2),
        Sizes    <- {3, 12},
        Tags     <- {<<1>>, <<1, 2>>, <<2, 1>>},
        Behind   <- [tag : {2}, len : {0, 3, 15}],
        Strings  <- SeqUpTo({"ip", "/", " ", "#", "300"}, 4),
        Names    <- SeqUpTo({<<"a">>, <<"a", "b">>, <<"b", "b", "a">>, <<"b", "b">>}, 3),
        Clauses  <- SeqUpTo(Letters, 2)
----------------------------------------------------------------------------
fileVars == <<cfg, file, saved, lost>>
vars     == <<part, treeVars, frameVars, redirVars, fileVars, listVars, call, threadPoolVars>>

Init ==
  /\ part \in {"tree", "frames", "redir", "file", "list", "functions", "pool"}
  /\ TreeInit /\ FramesInit /\ RedirInit /\ Cf!Init /\ ListInit /\ Ut!Init /\ ThreadPoolInit

\* The bound on insertions.
TreeGrowsInOrder(d) ==
  Present \cap HighData # {} \/ d \in HighData =>
    d \in HighData /\ \A e \in LowData \cup HighData : e.key < d.key => e \in Present

GrowingTreeNext ==
  /\ TreeNext
  /\ \A d \in LowData \cup HighData :
       op = Idle /\ op' = [do |-> "insert", x |-> d] => TreeGrowsInOrder(d)

\* Steps of one part.
OfTree(A)   == part = "tree" /\ A
                 /\ UNCHANGED <<part, frameVars, redirVars, fileVars, listVars, call, threadPoolVars>>
OfFrames(A) == part = "frames" /\ A
                 /\ UNCHANGED <<part, treeVars, redirVars, fileVars, listVars, call, threadPoolVars>>
OfRedir(A)  == part = "redir" /\ A
                 /\ UNCHANGED <<part, treeVars, frameVars, fileVars, listVars, call, threadPoolVars>>
OfFile(A)   == part = "file" /\ A
                 /\ UNCHANGED <<part, treeVars, frameVars, redirVars, listVars, call, threadPoolVars>>
OfList(A)   == part = "list" /\ A
                 /\ UNCHANGED <<part, treeVars, frameVars, redirVars, fileVars, call, threadPoolVars>>
OfCalls(A)  == part = "functions" /\ A
                 /\ UNCHANGED <<part, treeVars, frameVars, redirVars, fileVars, listVars, threadPoolVars>>
OfPool(A)   == part = "pool" /\ A
                 /\ UNCHANGED <<part, treeVars, frameVars, redirVars, fileVars, listVars, call>>

Next ==
  \/ OfTree(GrowingTreeNext)
  \/ OfFrames(FramesNext)
  \/ OfRedir(RedirNext)
  \/ OfFile(Cf!Next)
  \/ OfList(ListNext)
  \/ OfCalls(Ut!Next)
  \/ OfPool(ThreadPoolNext)

\* The fairness of RBTree and of ThreadPool.
Fairness ==
  /\ WF_vars(OfTree(Rebalance))
  /\ \A w \in Worker : WF_vars(OfPool(WorkerStep(w)))
  /\ WF_vars(OfPool(ShutdownStep))

Spec == Init /\ [][Next]_vars /\ Fairness
----------------------------------------------------------------------------
\* What each part promises is stated in its module: MessagesComeWhole in Frames,
\* SessionsAreSeparate in CmdRedir, ListIsItsContent in LinkedList and what is
\* said of the red-black tree in RBTree and RBLookups, what is said of the pool in
\* ThreadPool; the others there as here.

\* Every variable of every part has its type.
TypeOK == TreeTypeOK /\ FramesTypeOK /\ RedirTypeOK /\ Cf!TypeOK /\ ListTypeOK /\ ThreadPoolTypeOK

\* std_config_file.cpp reads what it has written.
ReadsBack == Cf!ReadsBack

\* The functions of Arrays.tla and Texts.tla against what they are for.
FunctionsAgree == Ut!FunctionsAgree

\* What std_bit_masks.h says of the searches in bit arrays, and the code does not keep.
BitsAreInRange == Ut!BitsAreInRange
=============================================================================
