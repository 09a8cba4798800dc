----------------------------- MODULE ConfigFile -----------------------------
(***************************************************************************)
(* The configuration file of std_config_file.cpp: values by group and key, *)
(* in memory and in a text file.  Strings are sequences of characters.     *)
(***************************************************************************)
EXTENDS Naturals, Sequences, FiniteSets, SequencesExt

CONSTANTS
  Group, Name, Value,   \* strings the program sets
  BuffLen,              \* BUFF_LEN
  MaxEntries            \* bound: entries set in memory

VARIABLES  \* sets of one element, or none
  cfg,     \* the entries by group and key, if the handle is open
  file,    \* the characters of the file, if there is one
  saved,   \* history: the entries of the last write that has reported no error
  lost     \* history: some of that was lost when the file was closed

vars == <<cfg, file, saved, lost>>

Chars == UNION {Range(s) : s \in Group \cup Name \cup Value} \cup {"[", "]", "=", "newline"}
None  == {}
Entry == [group : Seq(Chars), key : Seq(Chars), value : Seq(Chars)]

TypeOK ==
  /\ \A m \in cfg \cup saved : m \subseteq Entry
  /\ \A text \in file : text \in Seq(Chars)
  /\ lost \in BOOLEAN
  /\ Cardinality(cfg) <= 1 /\ Cardinality(file) <= 1 /\ Cardinality(saved) <= 1

Init == cfg = None /\ file = None /\ saved = None /\ lost = FALSE

Entries == CHOOSE c \in cfg : TRUE
Text    == CHOOSE t \in file : TRUE
First(c, s) == SelectInSeq(s, LAMBDA x : x = c)
Put(m, g, k, v) ==
  {e \in m : e.group # g \/ e.key # k} \cup {[group |-> g, key |-> k, value |-> v]}

\* std_config_file_get_keys, _get_num_keys and _get; no value is the null pointer.
GetKeys(m, g)    == {e.key : e \in {f \in m : f.group = g}}
GetNumKeys(m, g) == Cardinality({e \in m : e.group = g})
Get(m, g, k)     == {e.value : e \in {f \in m : f.group = g /\ f.key = k}}

\* ltrim and rtrim.
Trim(s) ==
  LET solid == {i \in DOMAIN s : s[i] \notin {" ", "newline"}}
  IN IF solid = {} THEN << >> ELSE SubSeq(s, Min(solid), Max(solid))
----------------------------------------------------------------------------
(* Reading.                                                                *)

\* What one fgets returns: up to a newline, or as much as the buffer holds.
Gets(text) ==
  LET n == First("newline", text)
  IN SubSeq(text, 1, Min({Len(text), BuffLen - 1} \cup ({n} \ {0})))

\* A mutant of HandleKeyfield: the key ends at the last equals sign.
HandleKeyfieldLast(m, line, section) ==
  LET n == Len(line) + 1 - First("=", Reverse(line))
  IN Put(m, section, Trim(SubSeq(line, 1, n - 1)), Trim(SubSeq(line, n + 1, Len(line))))

\* handle_section and handle_keyfield.
HandleSection(line) == SubSeq(line, 2, First("]", line) - 1)
HandleKeyfield(m, line, section) ==
  LET n == First("=", line)
  IN Put(m, section, Trim(SubSeq(line, 1, n - 1)), Trim(SubSeq(line, n + 1, Len(line))))

\* load_file.
RECURSIVE Load(_, _, _)
Load(text, section, m) ==
  LET line == Gets(text)
      rest == SubSeq(text, Len(line) + 1, Len(text))
  IN CASE text = << >> -> m
       [] text # << >> /\ line[1] = "[" /\ "]" \in Range(line) -> Load(rest, HandleSection(line), m)
       [] text # << >> /\ ~(line[1] = "[" /\ "]" \in Range(line)) ->
            Load(rest, section, IF "=" \in Range(line) THEN HandleKeyfield(m, line, section) ELSE m)
----------------------------------------------------------------------------
Create ==
  /\ cfg = None
  /\ cfg' = {{}}
  /\ UNCHANGED <<file, saved, lost>>

\* std_config_file_open: without a file it fails, and the handle is closed.
Open ==
  /\ cfg = None /\ file # None
  /\ cfg' = {Load(Text, << >>, {})}
  /\ UNCHANGED <<file, saved, lost>>

SetEntry(g, k, v) ==
  /\ cfg # None
  /\ Cardinality(Put(Entries, g, k, v)) <= MaxEntries
  /\ cfg' = {Put(Entries, g, k, v)}
  /\ UNCHANGED <<file, saved, lost>>

\* The lines of a group: its name, and what is in it.
GroupsOf(m) == SetToSeq({e.group : e \in m})
Lines(m, g) ==
  LET entries == SetToSeq({e \in m : e.group = g})
  IN << <<"[">> \o g \o <<"]", "newline">> >>
       \o [i \in DOMAIN entries |-> entries[i].key \o <<"=">> \o entries[i].value \o <<"newline">>]
TextOf(m) == FlattenSeq([i \in DOMAIN GroupsOf(m) |-> FlattenSeq(Lines(m, GroupsOf(m)[i]))])

\* std_config_file_write: all is written, ...
Write ==
  /\ cfg # None
  /\ file' = {TextOf(Entries)} /\ saved' = cfg /\ lost' = FALSE
  /\ UNCHANGED cfg

\* Bound: what is written in part is the first file.  (What was there before is gone
\* with fopen.)
MayFail == cfg # None /\ file = None

\* ... or the end of it is lost when fclose writes what is in the buffer, which is
\* not reported, ...
WriteLosesEnd ==
  /\ MayFail
  /\ \E n \in 0 .. Len(TextOf(Entries)) - 1 : file' = {SubSeq(TextOf(Entries), 1, n)}
  /\ saved' = cfg /\ lost' = TRUE
  /\ UNCHANGED cfg

\* ... or a line is written in part or not at all, which is reported: if it is a
\* group's name or memory is short that is the end, if it is an entry the next
\* group is tried.
WriteFails ==
  /\ MayFail
  /\ LET groups   == GroupsOf(Entries)
         Whole(i) == FlattenSeq(Lines(Entries, groups[i]))
     IN \E n \in DOMAIN groups : \E l \in DOMAIN Lines(Entries, groups[n]) :
          LET lines == Lines(Entries, groups[n])
              later == FlattenSeq([i \in 1 .. Len(groups) - n |-> Whole(n + i)])
          IN \E part \in 0 .. Len(lines[l]) - 1, rest \in {<< >>} \cup (IF l = 1 THEN {} ELSE {later}) :
               file' = {FlattenSeq([i \in 1 .. n - 1 |-> Whole(i)])
                          \o FlattenSeq(SubSeq(lines, 1, l - 1)) \o SubSeq(lines[l], 1, part) \o rest}
  /\ saved' = None /\ lost' = FALSE
  /\ UNCHANGED cfg

\* ... or fopen fails, and the file is as it was.
WriteNotOpened ==
  /\ cfg # None
  /\ UNCHANGED vars

Close ==
  /\ cfg # None
  /\ cfg' = None
  /\ UNCHANGED <<file, saved, lost>>

Next ==
  \/ Create \/ Open \/ Write \/ WriteLosesEnd \/ WriteFails \/ WriteNotOpened \/ Close
  \/ \E g \in Group, k \in Name, v \in Value : SetEntry(g, k, v)
----------------------------------------------------------------------------
\* Entries that a text file of this form can hold.
Plain(e) ==
  /\ "]" \notin Range(e.group)
  /\ "=" \notin Range(e.key)
  /\ Trim(e.key) = e.key /\ Trim(e.value) = e.value
  /\ ~(First("[", e.key) = 1 /\ "]" \in Range(e.key \o e.value))
  /\ Len(e.group) + 3 < BuffLen /\ Len(e.key) + Len(e.value) + 2 < BuffLen

\* What a write that reported no error has written the next open makes available
\* again, whatever was there before: brackets, equals signs and blanks within a
\* value, and empty names, are no hindrance.  What fclose loses is not reported
\* and is missing, but of what is read then no more than the last entry is other
\* than was written.
ReadsBack ==
  \A m \in saved : (\A e \in m : Plain(e)) =>
    LET read == Load(Text, << >>, {})
    IN IF lost THEN Cardinality(read \ m) <= 1
       ELSE \A g \in Group :
              /\ GetKeys(read, g) = GetKeys(m, g) /\ GetNumKeys(read, g) = GetNumKeys(m, g)
              /\ \A k \in GetKeys(m, g) : Get(read, g, k) = Get(m, g, k)
=============================================================================
