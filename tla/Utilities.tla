----------------------------- MODULE Utilities -----------------------------
(***************************************************************************)
(* Calls of the functions of Arrays.tla and Texts.tla, one at a time, with *)
(* every argument from small sets.                                         *)
(***************************************************************************)
EXTENDS Arrays, Texts

CONSTANTS
  Elements,     \* arrays to sort
  Lengths,      \* the lengths in bits of bit arrays
  Tlvs, Sizes,  \* what is put into a TLV buffer, and its size
  Tags,         \* sequences of tags to look for
  Behind,       \* what may lie behind the buffer
  Strings,
  Names,        \* tables of names
  Clauses       \* permission strings

VARIABLE call   \* the function and its arguments, or Null

Init == call = Null
vars == call

MayCall == call = Null

Sort ==
  /\ MayCall
  /\ \E array \in Elements : call' = [do |-> "sort", array |-> array]
UseBits ==
  /\ MayCall
  /\ \E len \in Lengths : \E from \in 0 .. len - 1, array \in [0 .. BytesFor(len) - 1 -> SUBSET Bit] :
       call' = [do |-> "bits", array |-> array, len |-> len, from |-> from]
UseTlvs ==
  /\ MayCall
  /\ \E tlvs \in Tlvs, size \in Sizes, behind \in Behind, tags \in Tags :
       call' = [do |-> "tlvs", tlvs |-> tlvs, size |-> size, behind |-> behind, tags |-> tags]
UseMasks ==
  /\ MayCall
  /\ \E af \in {"v4", "v6"}, p, q \in 0 .. Width : call' = [do |-> "masks", af |-> af, p |-> p, q |-> q]
UseStrings ==
  /\ MayCall
  /\ \E data \in Strings, delim \in {<<"/">>, <<"/", "/">>} : call' = [do |-> "strings", data |-> data, delim |-> delim]
UseNames ==
  /\ MayCall
  /\ \E keys \in Names, n \in 0 .. 2 : call' = [do |-> "names", keys |-> keys, n |-> n]
ChangeMode ==
  /\ MayCall
  /\ \E old \in SUBSET ({"u", "g"} \X {"r", "w"}), clauses \in Clauses :
       call' = [do |-> "chmod", old |-> old, clauses |-> clauses]

Next == Sort \/ UseBits \/ UseTlvs \/ UseMasks \/ UseStrings \/ UseNames \/ ChangeMode
----------------------------------------------------------------------------
\* What the functions return is what the definitions beside them say, which know
\* nothing of bytes, halves, places in a buffer or the order of a loop.  Where the
\* headers ask for more than the code does the definitions say so and ask for less.
FunctionsAgree ==
  call # Null =>
    CASE call.do = "sort"    -> MergeSort(call.array) = Sorted(call.array)
      [] call.do = "bits"    -> BitsAgree(call.array, call.len, call.from)
      [] call.do = "tlvs"    -> TlvsAgree(call.tlvs, call.size, call.behind, call.tags)
      [] call.do = "masks"   -> MasksAgree(call.af, call.p, call.q)
      [] call.do = "strings" -> StringsAgree(call.data, call.delim) /\ PrefixesAgree(call.data)
      [] call.do = "names"   -> NamesAgree(call.keys, call.n)
      [] call.do = "chmod"   -> PermissionsAgree(call.old, call.clauses)

\* No search of a bit array returns what its header excludes: see Arrays.tla.
BitsAreInRange == call # Null /\ call.do = "bits" => SearchesKeepToTheRange(call.array, call.len, call.from)
=============================================================================
