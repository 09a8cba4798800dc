------------------------------- MODULE Arrays -------------------------------
(***************************************************************************)
(* Functions on the caller's memory: the merge sort of std_mergesort.c,    *)
(* the bit arrays of std_bit_masks.c and the TLV buffers of std_tlv.h.     *)
(* With each goes what its results are compared with.                      *)
(***************************************************************************)
EXTENDS Integers, FiniteSets, SequencesExt

CONSTANTS
  Byte,    \* BITS_PER_BYTE
  Wrap,    \* a std_tlv_len_t is less than this: 2^64
  Null
----------------------------------------------------------------------------
(* Merge sort, with cmp_func on keys.                                      *)

\* A mutant of Merged: of two equal elements the right one goes first.
RECURSIVE MergedRightFirst(_, _)
MergedRightFirst(s, t) ==
  CASE s = << >> -> t
    [] t = << >> -> s
    [] OTHER -> IF Head(s).key < Head(t).key THEN <<Head(s)>> \o MergedRightFirst(Tail(s), t)
                ELSE <<Head(t)>> \o MergedRightFirst(s, Tail(t))

RECURSIVE Merged(_, _)
Merged(s, t) ==
  CASE s = << >> -> t
    [] t = << >> -> s
    [] OTHER -> IF Head(s).key <= Head(t).key THEN <<Head(s)>> \o Merged(Tail(s), t)
                ELSE <<Head(t)>> \o Merged(s, Tail(t))

\* std_merge_sort_merge_arrays: by way of the work array, into the array.
MergeArrays(array, left, mid, right) ==
  SubSeq(array, 1, left - 1)
    \o Merged(SubSeq(array, left, mid - 1), SubSeq(array, mid, right))
    \o SubSeq(array, right + 1, Len(array))

RECURSIVE DivideAndSort(_, _, _)
\* std_merge_sort_divide_n_sort, with indices that begin at 1.
DivideAndSort(array, left, right) ==
  IF left >= right THEN array
  ELSE LET mid == (right + left - 2) \div 2 + 1
       IN MergeArrays(DivideAndSort(DivideAndSort(array, left, mid), mid + 1, right), left, mid + 1, right)
MergeSort(array) == DivideAndSort(array, 1, Len(array))

\* The array that has the elements in the order of their keys, and where keys
\* are equal in the order they had.
Before(array, i, j) == array[i].key < array[j].key \/ (array[i].key = array[j].key /\ i < j)
Sorted(array) ==
  LET place(i) == 1 + Cardinality({j \in DOMAIN array : Before(array, j, i)})
  IN [p \in DOMAIN array |-> array[CHOOSE i \in DOMAIN array : place(i) = p]]
----------------------------------------------------------------------------
(* Bit arrays: from byte numbers to the bits that are set in the byte.     *)

Bit == 0 .. Byte - 1
BytesFor(bits) == bits \div Byte + (IF bits % Byte = 0 THEN 0 ELSE 1)
CreateArray(bits, pattern) == [ix \in 0 .. BytesFor(bits) - 1 |-> pattern]

\* STD_BIT_ARRAY_SET, _CLR and _TEST, and std_complement_bitmaparray.
SetBit(array, b)        == [array EXCEPT ![b \div Byte] = @ \cup {b % Byte}]
ClearBit(array, b)      == [array EXCEPT ![b \div Byte] = @ \ {b % Byte}]
TestBit(array, b)       == b % Byte \in array[b \div Byte]
Complement(array, bits) == [ix \in DOMAIN array |-> IF ix < BytesFor(bits) THEN Bit \ array[ix] ELSE array[ix]]

\* highest_bit and lowest_bit: from 1 on, and 0 if there is none.  The mask of
\* std_find_last_bit8 has the width of an unsigned int, shifted to the right: it
\* takes nothing from a byte.
HighestBit(byte) == IF byte = {} THEN 0 ELSE 1 + Max(byte)
LowestBit(byte)  == IF byte = {} THEN 0 ELSE 1 + Min(byte)
FindLastBit8(byte, from)  == HighestBit(byte \cap 0 .. 4 * Byte - 1 - from)
FindFirstBit8(byte, from) == LowestBit(byte \cap from .. 4 * Byte - 1)

\* std_find_first_bit: the rest of the first byte, then whole bytes.
FindFirstBit(array, len, from) ==
  LET ix     == from \div Byte
      part   == IF from % Byte = 0 THEN 0 ELSE FindFirstBit8(array[ix], from % Byte)
      first  == IF from % Byte = 0 THEN ix ELSE ix + 1
      nonzero == {i \in first .. BytesFor(len) - 1 : array[i] # {}}
  IN CASE from >= len -> -1
       [] from < len /\ part # 0 -> part - 1 + ix * Byte
       [] OTHER -> IF nonzero = {} THEN -1
                   ELSE FindFirstBit8(array[Min(nonzero)], 0) - 1 + Min(nonzero) * Byte

\* std_find_last_bit: from is counted from the end of the array.
FindLastBit(array, len, from) ==
  LET upto    == len - from
      mx      == BytesFor(upto) - 1
      part    == IF upto % Byte = 0 THEN 0 ELSE FindLastBit8(array[mx], upto % Byte)
      last    == IF upto % Byte = 0 THEN mx ELSE mx - 1
      nonzero == {i \in 0 .. last : array[i] # {}}
  IN CASE from >= len -> -1
       [] from < len /\ part # 0 -> part - 1 + mx * Byte
       [] OTHER -> IF nonzero = {} THEN -1
                   ELSE FindLastBit8(array[Max(nonzero)], 0) - 1 + Max(nonzero) * Byte

\* The array as a set of bits, and what the functions do to the set.  What is set
\* beyond the length, or beyond the place where a search for the last bit begins, is
\* in nobody's way: a bit in the range is found in spite of the first, none is found
\* if nothing else is set.  For the rest see SearchesKeepToTheRange.
Bits(array) == {b \in 0 .. Byte * Cardinality(DOMAIN array) - 1 : TestBit(array, b)}
BitsAgree(array, len, from) ==
  LET whole == 0 .. Byte * BytesFor(len) - 1
      above == {b \in Bits(array) : b >= from /\ b < len}
      below == {b \in Bits(array) : b < len - from}
      clean == \A b \in Bits(array) : b < len
  IN /\ Bits(SetBit(array, from)) = Bits(array) \cup {from}
     /\ Bits(ClearBit(array, from)) = Bits(array) \ {from}
     /\ Bits(Complement(array, len)) = whole \ Bits(array)
     /\ Bits(CreateArray(len, {})) = {} /\ Bits(CreateArray(len, Bit)) = whole
     /\ above # {} => FindFirstBit(array, len, from) = Min(above)
     /\ above = {} /\ clean => FindFirstBit(array, len, from) = -1
     /\ below = Bits(array) => FindLastBit(array, len, from) = IF below = {} THEN -1 ELSE Max(below)

\* What std_bit_masks.h:139-153 says of the searches: a bit of the array, which has
\* the length len, or -1, and no bit that is passed over by beginning at from.  The
\* code also returns set bits of the last byte that are beyond the length, as
\* std_bitmap_create_array leaves them, and of the byte where it begins.
SearchesKeepToTheRange(array, len, from) ==
  /\ FindFirstBit(array, len, from) < len
  /\ FindLastBit(array, len, from) < len - from
----------------------------------------------------------------------------
(* TLV buffers: a cell is a header, the tag and the length, or a byte of   *)
(* data.  A place in the buffer is an index; Null is the null pointer.     *)

HdrLen == 1
Stuck == 0    \* no place: what a call returns that never does

\* Behind the memory there is more like its last cell.
CellAt(mem, at)   == mem[Min({at, Len(mem)})]
TotalLen(mem, at) == (CellAt(mem, at).len + HdrLen) % Wrap
DataOf(at)        == at + HdrLen

\* std_tlv_add: the memory after it, the place behind and the room left.
Add(buffer, tag, content) ==
  LET len == Len(content)
  IN IF buffer = Null \/ buffer.size < (len + HdrLen) % Wrap THEN Null
     ELSE [mem  |-> SubSeq(buffer.mem, 1, buffer.at - 1) \o <<[tag |-> tag, len |-> len]>> \o content
                      \o SubSeq(buffer.mem, buffer.at + HdrLen + len, Len(buffer.mem)),
           at   |-> buffer.at + HdrLen + len,
           size |-> buffer.size - (len + HdrLen)]

Valid(mem, at, size) == size >= TotalLen(mem, at)

RECURSIVE FindNext(_, _, _, _)
\* std_tlv_find_next and std_tlv_next.  They go on at the end of the buffer, with
\* what lies there as a header; a length of 2^64 less than the header's is a total
\* of 0, for which there is always room and which leads nowhere.
FindNext(mem, at, size, tag) ==
  CASE ~Valid(mem, at, size) -> Null
    [] Valid(mem, at, size) /\ CellAt(mem, at).tag = tag -> at
    [] Valid(mem, at, size) /\ CellAt(mem, at).tag # tag /\ TotalLen(mem, at) = 0 -> Stuck
    [] OTHER -> FindNext(mem, at + TotalLen(mem, at), size - TotalLen(mem, at), tag)

RECURSIVE EFind(_, _, _, _)
\* std_tlv_efind.
EFind(mem, at, size, tags) ==
  LET found == FindNext(mem, at, size, Head(tags))
  IN IF found \in {Null, Stuck} \/ Len(tags) = 1 THEN found
     ELSE EFind(mem, DataOf(found), CellAt(mem, found).len, Tail(tags))

\* A buffer of this size, and one cell behind it with anything in it.
Fresh(size, behind) == [mem |-> [i \in 1 .. size |-> behind] \o <<behind>>, at |-> 1, size |-> size]

RECURSIVE AddAll(_, _)
AddAll(buffer, tlvs) ==
  IF tlvs = << >> THEN buffer ELSE AddAll(Add(buffer, Head(tlvs).tag, Head(tlvs).content), Tail(tlvs))

\* What was added is found by its tag, the first of them, and what is within it by
\* the next tag: there, not in another one of the first tag.  What is not there is
\* not found, whatever lies behind, unless its total length is 0.  tlvs are pairs of
\* a tag and a sequence of inner ones, whose content is plain data.
InnerCells(inner) == FlattenSeq([i \in DOMAIN inner |-> <<[tag |-> inner[i].tag, len |-> inner[i].n]>>
                                                          \o [j \in 1 .. inner[i].n |-> "data"]])
Outer(tlvs) == [i \in DOMAIN tlvs |-> [tag |-> tlvs[i].tag, content |-> InnerCells(tlvs[i].inner)]]
PlaceOf(sizes, i) == 1 + FoldLeft(+, 0, SubSeq(sizes, 1, i - 1))
TlvsAgree(tlvs, size, behind, tags) ==
  LET buffer == AddAll(Fresh(size, behind), Outer(tlvs))
      sizes  == [i \in DOMAIN tlvs |-> HdrLen + Len(Outer(tlvs)[i].content)]
      used   == FoldLeft(+, 0, sizes)
      first  == SelectInSeq(tlvs, LAMBDA t : t.tag = tags[1])
      inner  == tlvs[first].inner
      second == SelectInSeq(inner, LAMBDA t : t.tag = tags[2])
      widths == [i \in DOMAIN inner |-> HdrLen + inner[i].n]
      place  == IF first = 0 THEN Null
                ELSE IF Len(tags) = 1 THEN PlaceOf(sizes, first)
                ELSE IF second = 0 THEN Null
                ELSE PlaceOf(sizes, first) + HdrLen - 1 + PlaceOf(widths, second)
  IN IF used > size THEN buffer = Null
     ELSE /\ buffer.size = size - used
          /\ place # Null \/ (behind.len + HdrLen) % Wrap # 0 =>
               EFind(buffer.mem, 1, used, tags) = place
=============================================================================
