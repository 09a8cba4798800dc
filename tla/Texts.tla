------------------------------- MODULE Texts -------------------------------
(***************************************************************************)
(* Functions on addresses (std_ip_utils.c), strings (std_string_utils.cpp) *)
(* and permission strings (std_user_perm.cpp), each with what its results  *)
(* are compared with.  A string is a sequence of characters; an address    *)
(* or a mask is a sequence of bytes.                                       *)
(***************************************************************************)
EXTENDS Integers, FiniteSets, SequencesExt

CONSTANTS
  NBBY,       \* the bits of a byte
  AddrLen,    \* the bytes of an address
  Nothing
----------------------------------------------------------------------------
(* Masks and prefix lengths.                                               *)

Width == NBBY * AddrLen
Full  == 2^NBBY - 1

\* The values of mask_val, and the table bit_pos.
MaskByte(ones) == 2^NBBY - 2^(NBBY - ones)
BitPos(byte)   == LET ones == {n \in 0 .. NBBY : MaskByte(n) = byte}
                  IN IF ones = {} THEN 0 ELSE CHOOSE n \in ones : TRUE

\* std_ip_v4_prefix_len_to_mask, a number.
V4Mask(prefix) ==
  IF prefix > Width THEN 0
  ELSE (2^Width - 1) - (IF prefix = 0 THEN 2^Width - 1 ELSE 2^(Width - prefix) - 1)

\* The bytes of a number as htonl lays them out, and as they lie in the memory of a
\* host that has the lowest first.
HtoNL(n) == [i \in 1 .. AddrLen |-> (n \div 2^(NBBY * (AddrLen - i))) % 2^NBBY]
InMemory(n) == Reverse(HtoNL(n))

\* std_ip_v6_prefix_len_to_mask, which leaves the memory alone if the length is 0.
V6Mask(memory, prefix) ==
  LET nbytes == prefix \div NBBY
  IN IF prefix = 0 THEN memory
     ELSE [i \in 1 .. AddrLen |-> CASE i <= nbytes     -> Full
                                    [] i = nbytes + 1 -> MaskByte(prefix % NBBY)
                                    [] i > nbytes + 1 -> 0]

\* std_ip_get_mask_from_prefix_len, which keeps the number as it is.
GetMask(af, prefix) ==
  IF af = "v4" THEN InMemory(V4Mask(prefix)) ELSE V6Mask([i \in 1 .. AddrLen |-> 0], prefix)

\* std_ip_v6_mask_to_prefix_len and std_ip_v4_mask_to_prefix_len.
V6MaskToPrefixLen(mask) == FoldLeft(LAMBDA n, byte : n + BitPos(byte), 0, mask)
V4MaskToPrefixLen(mask) == V6MaskToPrefixLen(HtoNL(mask))

\* std_ip_cmp_ip_addr on two addresses of a family: the sign of memcmp.
CompareAddr(a, b) ==
  LET differ == {i \in 1 .. AddrLen : a[i] # b[i]}
  IN IF differ = {} THEN 0 ELSE IF a[Min(differ)] < b[Min(differ)] THEN -1 ELSE 1

\* A mask has its first bits set, in the number or in the bytes; the length comes
\* back; the comparison tells masks of different lengths apart and takes them the
\* other way round when its arguments are.  Which way is left open: std_ip_utils.h:110
\* says "<0 if address 1 is higher", the code returns the opposite, and what it
\* says of numbers as they lie in memory is no order of theirs.
BitOf(mask, i) == (mask[(i - 1) \div NBBY + 1] \div 2^(NBBY - 1 - ((i - 1) % NBBY))) % 2
MasksAgree(af, p, q) ==
  LET mask    == GetMask(af, p)
      other   == GetMask(af, q)
      ordered == IF af = "v4" THEN HtoNL(V4Mask(p)) ELSE mask
  IN /\ \A i \in 1 .. Width : BitOf(ordered, i) = IF i <= p THEN 1 ELSE 0
     /\ p = IF af = "v4" THEN V4MaskToPrefixLen(V4Mask(p)) ELSE V6MaskToPrefixLen(mask)
     /\ CompareAddr(mask, other) = 0 <=> p = q
     /\ CompareAddr(mask, other) = -CompareAddr(other, mask)
----------------------------------------------------------------------------
(* Strings.                                                                *)

\* The places from which on delim is in data.
Found(data, delim, from) ==
  {i \in from .. Len(data) - Len(delim) + 1 : SubSeq(data, i, i + Len(delim) - 1) = delim}

RECURSIVE ParseFrom(_, _, _)
\* std_parse_string: no token behind a delimiter that ends the string.
ParseFrom(data, delim, ix) ==
  LET e == IF Found(data, delim, ix) = {} THEN Len(data) + 1 ELSE Min(Found(data, delim, ix))
  IN IF ix > Len(data) THEN << >>
     ELSE <<SubSeq(data, ix, e - 1)>> \o ParseFrom(data, delim, e + Len(delim))
ParseString(data, delim) == ParseFrom(data, delim, 1)

\* std_parse_string_next with the index of a token.
NextToken(tokens, index) == IF index < Len(tokens) THEN <<tokens[index + 1], index + 1>> ELSE <<Nothing, index>>

\* std_str_to_ip_prefix: the length is cut to eight bits.
Number(token) == IF token = <<"300">> THEN 300 ELSE IF token = <<"24">> THEN 24 ELSE 0
StrToIpPrefix(data) ==
  LET tokens == ParseString(data, <<"/">>)
  IN IF Len(tokens) # 2 \/ tokens[1] # <<"ip">> THEN Nothing ELSE [mask_len |-> Number(tokens[2]) % 256]

\* ltrim and rtrim; rtrim does not look at the first character, and when it comes
\* to it cuts nothing.
Solid(data) == {i \in DOMAIN data : data[i] # " "}
LTrim(data) == IF Solid(data) = {} THEN << >> ELSE SubSeq(data, Min(Solid(data)), Len(data))
RTrim(data) == IF Solid(data) \ {1} = {} THEN data ELSE SubSeq(data, 1, Max(Solid(data)))
RemoveComment(data) ==
  LET hash == SelectInSeq(data, LAMBDA c : c = "#")
  IN RTrim(IF hash = 0 THEN data ELSE SubSeq(data, 1, hash - 1))

\* The tokens are the string without its delimiters, and none holds one; an address
\* with a length is accepted also when a delimiter follows; trimming takes blanks
\* only, and all of them unless the string is no longer than one character before them.
Join(tokens, delim) ==
  FlattenSeq([i \in DOMAIN tokens |-> IF i = Len(tokens) THEN tokens[i] ELSE tokens[i] \o delim])
Blanks(n) == [i \in 1 .. n |-> " "]
StringsAgree(data, delim) ==
  LET tokens == ParseString(data, delim)
  IN /\ data \in {Join(tokens, delim), Join(tokens, delim) \o delim}
     /\ \A i \in DOMAIN tokens : /\ Found(tokens[i], delim, 1) = {}
                                 /\ NextToken(tokens, i - 1) = <<tokens[i], i>>
     /\ NextToken(tokens, Len(tokens)) = <<Nothing, Len(tokens)>>
     /\ data = Blanks(Len(data) - Len(LTrim(data))) \o LTrim(data)
     /\ data = RTrim(data) \o Blanks(Len(data) - Len(RTrim(data)))
     /\ LTrim(data) # << >> => Head(LTrim(data)) # " "
     /\ Len(RTrim(data)) > 1 /\ Solid(Tail(data)) # {} => Last(RTrim(data)) # " "
     /\ RemoveComment(data) = IF "#" \in ToSet(data) THEN RTrim(ParseString(data, <<"#">>)[1]) ELSE RTrim(data)
PrefixesAgree(data) ==
  LET rest == SubSeq(data, 3, Len(data))
  IN StrToIpPrefix(data) # Nothing <=>
       /\ Len(data) > 2 /\ data[1] = "ip" /\ data[2] = "/"
       /\ \A i \in 1 .. Len(rest) - 1 : rest[i] # "/"
----------------------------------------------------------------------------
(* Tables of names.                                                        *)

FirstPlace(n, Is(_)) == LET ok == {i \in 0 .. n - 1 : Is(i)} IN IF ok = {} THEN -1 ELSE Min(ok)

\* dn_std_string_to_enum, dn_std_enum_to_string, std_text_to_code (with a limit on
\* the characters compared, or 0) and std_code_to_text.
StringToEnum(keys, text) == FirstPlace(Len(keys), LAMBDA i : keys[i + 1] = text)
EnumToString(keys, n)    == IF n < Len(keys) THEN keys[n + 1] ELSE Nothing
Cut(text, n)             == IF n = 0 THEN text ELSE SubSeq(text, 1, Min({n, Len(text)}))
TextToCode(text, n, table) ==
  LET i == FirstPlace(Len(table), LAMBDA j : Cut(table[j + 1].text, n) = Cut(text, n))
  IN IF i = -1 THEN -1 ELSE table[i + 1].code
CodeToText(code, table) ==
  LET i == FirstPlace(Len(table), LAMBDA j : table[j + 1].code = code)
  IN IF i = -1 THEN Nothing ELSE table[i + 1].text

\* The names of a table are told apart, and come back; compared by their first n
\* characters, so do those that differ there.
NamesAgree(keys, n) ==
  LET table == [i \in DOMAIN keys |-> [text |-> keys[i], code |-> 10 * i]]
      same(i, j) == Cut(keys[i], n) = Cut(keys[j], n)
  IN \A i \in DOMAIN keys :
       /\ IsInjective(keys) => /\ StringToEnum(keys, EnumToString(keys, i - 1)) = i - 1
                               /\ CodeToText(TextToCode(keys[i], 0, table), table) = keys[i]
       /\ (\A j \in DOMAIN keys \ {i} : ~same(i, j)) => TextToCode(keys[i], n, table) = 10 * i
----------------------------------------------------------------------------
(* Permissions: who may do what.  A permission string is a sequence of     *)
(* clauses, of which the first without letters is an error.                *)

\* What a clause names: whose permissions are not said are the user's.
Named(c) == (IF c.who = "a" THEN {"u", "g", "o"} ELSE IF c.who = "" THEN {"u"} ELSE {c.who}) \X c.what

RECURSIVE Chmod(_, _, _)
\* std_user_chmod on a file with mode old; mod is 0 at first.  A clause that is
\* set with "=" replaces all; a mode that has become 0 is read anew.
Chmod(old, mod, clauses) ==
  IF clauses = << >> THEN mod
  ELSE LET c    == Head(clauses)
           base == IF mod = {} THEN old ELSE mod
       IN IF c.what = {} THEN Nothing
          ELSE Chmod(old, CASE c.op = "=" -> Named(c)
                            [] c.op = "+" -> base \cup Named(c)
                            [] c.op = "-" -> base \ Named(c), Tail(clauses))

\* From the last "=" on, the last clause that names a permission decides; unless
\* all permissions have been taken on the way.
PermissionsAgree(old, clauses) ==
  LET equal    == {i \in DOMAIN clauses : clauses[i].op = "="}
      start    == IF equal = {} THEN 0 ELSE Max(equal)
      given    == IF start = 0 THEN old ELSE Named(clauses[start])
      after(k) == Chmod(old, {}, SubSeq(clauses, 1, k))
      naming(b) == {i \in start + 1 .. Len(clauses) : b \in Named(clauses[i])}
  IN CASE \E i \in DOMAIN clauses : clauses[i].what = {} -> Chmod(old, {}, clauses) = Nothing
       [] OTHER ->
            (clauses # << >> /\ \A k \in start + 1 .. Len(clauses) - 1 : after(k) # {}) =>
              \A b \in {"u", "g", "o"} \X {"r", "w", "x"} :
                b \in Chmod(old, {}, clauses) <=>
                  IF naming(b) = {} THEN b \in given ELSE clauses[Max(naming(b))].op = "+"
=============================================================================
