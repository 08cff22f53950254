----------------------------- MODULE StringManip -----------------------------
(***************************************************************************)
(* Gears::Ascii and Gears::StringManip: sets of characters and the         *)
(* searches for them, comparison without case, numbers and bytes as text,  *)
(* and bounded copies.  A character is its code, from 0 to 255, and a text *)
(* a sequence of them; a C string ends at NUL, which is not written.       *)
(* The state machine writes texts, one character at a time, over an        *)
(* alphabet for each use.                                                  *)
(***************************************************************************)
EXTENDS Integers, Sequences, FiniteSets, FiniteSetsExt, SequencesExt

CONSTANTS
  Alphabets,    \* for each use of a text, the characters it is written with
  TextBound,    \* bound of the model: the longest text of each use
  IntegerMax,   \* numeric_limits<Integer>::max() of the signed type
  Sizes         \* sizes of buffers that are tried

VARIABLES use, text

textVars == <<use, text>>

NUL == 0
Space == 32
Plus == 43
Dash == 45
Zero == 48

-----------------------------------------------------------------------------
(* Ascii: CharTable, Category.                                             *)

CharRange(first, till) == {(first + k) % 256 : k \in 0 .. (till - first) % 256}

TableStepExclusive(str, s, i) ==
  IF s.range THEN [table |-> s.table \cup (CharRange(s.last, str[i]) \ {str[i]}),
                   last |-> str[i], range |-> FALSE]
  ELSE IF str[i] = Dash /\ s.last # NUL /\ i < Len(str) THEN [s EXCEPT !.range = TRUE]
  ELSE [table |-> s.table \cup {str[i]}, last |-> str[i], range |-> FALSE]

\* A table is the set of the characters in it. A dash makes a range of the
\* characters around it unless it is the first or the last.
TableStep(str, s, i) ==
  IF s.range THEN [table |-> s.table \cup CharRange(s.last, str[i]), last |-> str[i],
                   range |-> FALSE]
  ELSE IF str[i] = Dash /\ s.last # NUL /\ i < Len(str) THEN [s EXCEPT !.range = TRUE]
  ELSE [table |-> s.table \cup {str[i]}, last |-> str[i], range |-> FALSE]

CharTable(str) ==
  LET Step(s, i) == TableStep(str, s, i)
  IN FoldLeft(Step, [table |-> {}, last |-> NUL, range |-> FALSE],
              [i \in 1 .. Len(str) |-> i]).table

SPACE == {9, 10, 11, 12, 13, Space}

\* Positions are counted from 0; last and pos are where the search stops and
\* what it returns if it finds nothing.
find_owned(str, set, first, last) ==
  Min({last} \cup {i \in first .. last - 1 : str[i + 1] \in set})

find_nonowned(str, set, first, last) ==
  Min({last} \cup {i \in first .. last - 1 : str[i + 1] \notin set})

rfind_owned(str, set, pos, start) ==
  LET found == {i \in start .. pos - 1 : str[i + 1] \in set}
  IN IF found = {} THEN pos ELSE Max(found)

rfind_nonowned(str, set, pos, start) ==
  LET found == {i \in start .. pos - 1 : str[i + 1] \notin set}
  IN IF found = {} THEN pos ELSE Max(found)

\* Every run of characters to replace becomes one replacement.
FlattenOnce(str, replacement, set) ==
  LET Out[first \in 0 .. Len(str)] ==
        IF first = Len(str) THEN <<>>
        ELSE LET current == find_owned(str, set, first, Len(str))
             IN SubSeq(str, first + 1, current) \o
                (IF current = Len(str) THEN <<>> ELSE replacement \o Out[current + 1])
  IN Out[0]

flatten(str, replacement, set) ==
  LET Out[first \in 0 .. Len(str)] ==
        IF first = Len(str) THEN <<>>
        ELSE LET current == find_owned(str, set, first, Len(str))
             IN SubSeq(str, first + 1, current) \o
                (IF current = Len(str) THEN <<>>
                 ELSE replacement \o Out[find_nonowned(str, set, current, Len(str))])
  IN Out[0]

trim(str, set) ==
  LET begin == find_nonowned(str, set, 0, Len(str))
  IN IF begin = Len(str) THEN <<>>
     ELSE SubSeq(str, begin + 1, rfind_nonowned(str, set, Len(str), begin) + 1)

to_lower(ch) == IF ch \in 65 .. 90 THEN ch + 32 ELSE ch
to_upper(ch) == IF ch \in 97 .. 122 THEN ch - 32 ELSE ch

\* char is signed.
Signed(ch) == IF ch < 128 THEN ch ELSE ch - 256

CompareCaselessPrefix(str1, str2) ==
  LET differ == {i \in 1 .. Min({Len(str1), Len(str2)}) : to_lower(str1[i]) # to_lower(str2[i])}
  IN IF differ # {}
     THEN Signed(to_lower(str1[Min(differ)])) - Signed(to_lower(str2[Min(differ)]))
     ELSE 0

compare_caseless(str1, str2) ==
  LET differ == {i \in 1 .. Min({Len(str1), Len(str2)}) : to_lower(str1[i]) # to_lower(str2[i])}
  IN IF differ # {}
     THEN Signed(to_lower(str1[Min(differ)])) - Signed(to_lower(str2[Min(differ)]))
     ELSE IF Len(str1) = Len(str2) THEN 0 ELSE IF Len(str1) < Len(str2) THEN -1 ELSE 1

equal_caseless(str1, str2) ==
  Len(str1) = Len(str2) /\ \A i \in DOMAIN str1 : to_lower(str1[i]) = to_lower(str2[i])

\* equal_caseless with a C string: up to the NUL of the second.
EqualCaselessCString(str1, str2) ==
  /\ \A i \in DOMAIN str1 : i <= Len(str2) /\ to_lower(str2[i]) = to_lower(str1[i])
  /\ Len(str2) <= Len(str1)

\* The class Caseless: compare, equal (and its operators) and start.
CaselessCompare(cl, str) == compare_caseless(cl, str)
CaselessEqual(cl, str) == equal_caseless(str, cl)
CaselessStart(prefix, str) ==
  CaselessEqual(prefix, SubSeq(str, 1, Min({Len(prefix), Len(str)})))

-----------------------------------------------------------------------------
(* Numbers.                                                                *)

IntegerTypeMax(signed) == IF signed THEN IntegerMax ELSE 2 * IntegerMax + 1
IntegerTypeMin(signed) == IF signed THEN -IntegerMax - 1 ELSE 0

\* Digits that every number of the type may have: numeric_limits::digits10.
digits10(signed) ==
  CHOOSE n \in 0 .. 10 : 10 ^ n - 1 <= IntegerTypeMax(signed) /\ 10 ^ (n + 1) - 1 > IntegerTypeMax(signed)

\* A value as the type keeps it.
Kept(n, signed) ==
  ((n - IntegerTypeMin(signed)) % (2 * IntegerMax + 2)) + IntegerTypeMin(signed)

DigitAllowedByTens(value, ch, negative, signed) ==
  LET LIMIT == IntegerTypeMax(signed) \div 10
  IN IF negative THEN value >= -LIMIT ELSE value <= LIMIT

DigitAllowed(value, ch, negative, signed) ==
  LET LIMIT == IntegerTypeMax(signed) \div 10
  IN IF negative
     THEN ~(value < -LIMIT \/ (value = -LIMIT /\ ch > -(IntegerTypeMin(signed) + LIMIT * 10)))
     ELSE ~(value > LIMIT \/ (value = LIMIT /\ ch > IntegerTypeMax(signed) - LIMIT * 10))

ParseDigit(s, ch, negative, signed) ==
  IF s.ok /\ ch - Zero \in 0 .. 9 /\ DigitAllowed(s.value, ch - Zero, negative, signed)
  THEN [s EXCEPT !.value = Kept(@ * 10 + (IF negative THEN Zero - ch ELSE ch - Zero), signed)]
  ELSE [s EXCEPT !.ok = FALSE]

str_to_int(str, signed) ==
  LET negative == str # <<>> /\ Head(str) = Dash
      digits == IF str # <<>> /\ Head(str) \in {Plus, Dash} THEN Tail(str) ELSE str
      Step(s, ch) == ParseDigit(s, ch, negative, signed)
  IN IF digits = <<>> \/ (negative /\ ~signed) THEN [ok |-> FALSE, value |-> 0]
     ELSE FoldLeft(Step, [ok |-> TRUE, value |-> 0], digits)

IntToStrUnsigned(value) ==
  LET size == CHOOSE k \in 1 .. 10 : value < 10 ^ k /\ (k > 1 => value >= 10 ^ (k - 1))
  IN [i \in 1 .. size |-> Zero + ((value \div 10 ^ (size - i)) % 10)]

\* The empty text is the failure: the least number of the type has no opposite.
IntToStrSign(value, signed) ==
  IF value < -IntegerTypeMax(signed) THEN <<>>
  ELSE IF value < 0 THEN <<Dash>> \o IntToStrUnsigned(-value) ELSE IntToStrUnsigned(value)

int_to_str(value, size, signed) ==
  IF size < digits10(signed) + 3 THEN <<>> ELSE IntToStrSign(value, signed)

-----------------------------------------------------------------------------
(* Bytes.                                                                  *)

HexDigit(n, low) == IF n < 10 THEN Zero + n ELSE n - 10 + (IF low THEN 97 ELSE 65)

HexPair(byte, low) == <<HexDigit(byte \div 16, low), HexDigit(byte % 16, low)>>

hex_encode(data, skip, low) ==
  LET zeros == Min({Len(data)} \cup {i \in 0 .. Len(data) - 1 : data[i + 1] # 0})
      rest == IF skip THEN SubSeq(data, zeros + 1, Len(data)) ELSE data
      Pairs(bytes) == FlattenSeq([i \in 1 .. Len(bytes) |-> HexPair(bytes[i], low)])
  IN IF data = <<>> THEN <<>>
     ELSE IF rest = <<>> THEN <<Zero>>
     ELSE IF skip /\ Head(rest) < 16 THEN <<HexDigit(Head(rest), low)>> \o Pairs(Tail(rest))
     ELSE Pairs(rest)

HexToIntUpper(ch) == IF ch <= Zero + 9 THEN ch - Zero ELSE ch - 65 + 10

hex_to_int(ch) == IF ch <= Zero + 9 THEN ch - Zero ELSE (ch % 16) + 9

hex_decode(src, allow_odd_string) ==
  LET odd == Len(src) % 2
      Byte(i) == hex_to_int(src[2 * i + odd - 1]) * 16 + hex_to_int(src[2 * i + odd])
  IN IF odd = 1 /\ ~allow_odd_string THEN [ok |-> FALSE, dst |-> <<>>]
     ELSE [ok |-> TRUE, dst |-> (IF odd = 1 THEN <<hex_to_int(src[1])>> ELSE <<>>)
                                  \o [i \in 1 .. Len(src) \div 2 |-> Byte(i)]]

-----------------------------------------------------------------------------
(* Buffers: sequences of cells.                                            *)

Copy(buffer, dst, chars) ==
  [i \in DOMAIN buffer |-> IF i \in dst + 1 .. dst + Len(chars) THEN chars[i - dst] ELSE buffer[i]]

\* Bounded copy of a C string to dst, and the length it would have.
strlcpy(buffer, dst, src, size) ==
  [buffer |-> IF size = 0 THEN buffer
              ELSE Copy(buffer, dst, SubSeq(src, 1, Min({Len(src), size - 1})) \o <<NUL>>),
   result |-> Len(src)]

strlcat(buffer, src, size) ==
  LET dst_len == Min({size} \cup {i \in 0 .. size - 1 : buffer[i + 1] = NUL})
  IN [strlcpy(buffer, dst_len, src, size - dst_len) EXCEPT !.result = @ + dst_len]

AppendCString(buffer, dst, str, size) ==
  [buffer |-> strlcpy(buffer, dst, str, size).buffer, length |-> Min({Len(str), size})]

AppendSubStringWhole(buffer, dst, str, size) ==
  IF Len(str) > size
  THEN [buffer |-> Copy(buffer, dst, SubSeq(str, 1, size - 1) \o <<NUL>>), length |-> size]
  ELSE [buffer |-> Copy(buffer, dst, str), length |-> Len(str)]

AppendSubString(buffer, dst, str, size) ==
  IF Len(str) >= size
  THEN [buffer |-> Copy(buffer, dst, SubSeq(str, 1, size - 1) \o <<NUL>>), length |-> size]
  ELSE [buffer |-> Copy(buffer, dst, str), length |-> Len(str)]

\* The number is followed by a NUL, and one less than its length is returned.
AppendInteger(buffer, dst, value, size) ==
  LET res == int_to_str(value, size, TRUE)
  IN IF res = <<>> THEN [buffer |-> Copy(buffer, dst, <<NUL>>), length |-> size]
     ELSE [buffer |-> Copy(buffer, dst, res \o <<NUL>>), length |-> Len(res) - 1]

append(buffer, dst, arg, size) ==
  CASE arg.type = "c_string" -> AppendCString(buffer, dst, arg.value, size)
    [] arg.type = "sub_string" -> AppendSubString(buffer, dst, arg.value, size)
    [] arg.type = "integer" -> AppendInteger(buffer, dst, arg.value, size)

concat(buffer, size, args) ==
  LET Step(s, arg) ==
        IF s.full THEN s
        ELSE LET r == append(s.buffer, s.dst, arg, size - s.dst)
             IN [buffer |-> r.buffer, dst |-> s.dst + r.length, full |-> r.length = size - s.dst]
      end == FoldLeft(Step, [buffer |-> buffer, dst |-> 0, full |-> FALSE], args)
  IN IF end.full THEN end.buffer ELSE Copy(end.buffer, end.dst, <<NUL>>)

-----------------------------------------------------------------------------
TextInit == use \in DOMAIN Alphabets /\ text = <<>>

Write ==
  /\ Len(text) < TextBound[use]
  /\ \E ch \in Alphabets[use] : text' = Append(text, ch)
  /\ UNCHANGED use

TextSpec == TextInit /\ [][Write]_textVars

-----------------------------------------------------------------------------
Truncated(str, n) == SubSeq(str, 1, Min({Len(str), n}))

\* "'-' may be used for ranges. To specify dash character it should be the
\* first or the last in the passed string or within a range"
\* (AsciiStringManip.hpp:187): what is written is in the set, both ends of a
\* range and what is between them too, and nothing else is.
TableAsWritten ==
  use = "set" =>
    LET set == CharTable(text)
        inner == {i \in 2 .. Len(text) - 1 : text[i] = Dash}
    IN /\ \A i \in DOMAIN text \ inner : text[i] \in set
       /\ inner = {} => set = {text[i] : i \in DOMAIN text}
       /\ \A i \in inner : inner = {i} /\ text[i - 1] <= text[i + 1] =>
            set = {text[k] : k \in DOMAIN text \ {i}} \cup (text[i - 1] .. text[i + 1])

\* trim takes spaces away at both ends only, flatten makes one replacement of
\* every run of them, the two may come in either order, and the room that
\* flatten reserves (AsciiStringManip.hpp:521) is enough.
TrimAndFlatten ==
  use = "spaced" =>
    LET t == trim(text, SPACE)
        f == flatten(text, <<Space>>, SPACE)
        Words(str) == SelectSeq(str, LAMBDA ch : ch \notin SPACE)
    IN /\ \E i \in 0 .. Len(text) - Len(t) :
            /\ t = SubSeq(text, i + 1, i + Len(t))
            /\ \A k \in DOMAIN text \ (i + 1 .. i + Len(t)) : text[k] \in SPACE
       /\ t # <<>> => Head(t) \notin SPACE /\ Last(t) \notin SPACE
       /\ Words(f) = Words(text)
       /\ \A i \in 2 .. Len(f) : f[i - 1] \notin SPACE \/ f[i] \notin SPACE
       /\ trim(f, SPACE) = flatten(t, <<Space>>, SPACE)
       /\ \A R \in 0 .. 3 : Len(flatten(text, [i \in 1 .. R |-> Dash], SPACE))
                              <= Len(text) * Max({1, R})

\* Comparison without case is an order, the one of the words in either case
\* compared, and equality is its own.
CaselessIsOrder ==
  use = "words" =>
    \A i \in 0 .. Len(text) : \A j \in i .. Len(text) :
      LET u == SubSeq(text, 1, i)
          v == SubSeq(text, i + 1, j)
          w == SubSeq(text, j + 1, Len(text))
          Upper(str) == [k \in DOMAIN str |-> to_upper(str[k])]
      IN /\ (compare_caseless(u, v) = 0) = (Upper(u) = Upper(v))
         /\ (compare_caseless(u, v) < 0) = (compare_caseless(v, u) > 0)
         /\ compare_caseless(u, v) <= 0 /\ compare_caseless(v, w) <= 0
              => compare_caseless(u, w) <= 0
         /\ equal_caseless(u, v) = (CaselessCompare(u, v) = 0)
         /\ EqualCaselessCString(u, v) = CaselessEqual(v, u)
         /\ CaselessStart(u, v) = IsPrefix(Upper(u), Upper(v))

Decimal(digits) == FoldLeft(LAMBDA n, ch : n * 10 + ch - Zero, 0, digits)

\* A text is read as a number exactly if it is one of the type's, and every
\* number but the least one is written so that it is read back.
NumbersReadBack ==
  use = "number" => \A signed \in BOOLEAN :
    LET sign == IF text # <<>> /\ Head(text) = Dash THEN -1 ELSE 1
        digits == IF text # <<>> /\ Head(text) \in {Plus, Dash} THEN Tail(text) ELSE text
        number == sign * Decimal(digits)
        r == str_to_int(text, signed)
        written == int_to_str(r.value, digits10(signed) + 3, signed)
    IN /\ r.ok = (/\ digits # <<>> /\ \A i \in DOMAIN digits : digits[i] \in Zero .. Zero + 9
                  /\ sign = -1 => signed
                  /\ number \in IntegerTypeMin(signed) .. IntegerTypeMax(signed))
       /\ r.ok => r.value = number
       /\ r.ok => written = <<>> \/ /\ str_to_int(written, signed) = r
                                    /\ Len(written) + 1 <= digits10(signed) + 3
       /\ r.ok /\ written = <<>> => signed /\ r.value = IntegerTypeMin(signed)

\* Bytes written in hexadecimal, in either case, are decoded to themselves,
\* or to themselves without the zeros they begin with if those are skipped.
HexReadsBack ==
  use = "bytes" => \A low \in BOOLEAN :
    LET zeros == Min({Len(text)} \cup {i \in 0 .. Len(text) - 1 : text[i + 1] # 0})
        stripped == SubSeq(text, zeros + 1, Len(text))
    IN /\ hex_decode(hex_encode(text, FALSE, low), FALSE) = [ok |-> TRUE, dst |-> text]
       /\ hex_decode(hex_encode(text, TRUE, low), TRUE).dst
            = (IF text # <<>> /\ stripped = <<>> THEN <<0>> ELSE stripped)

Cells(size) == [i \in 1 .. size + 2 |-> 255]

CString(buffer) ==
  LET ends == {i \in DOMAIN buffer : buffer[i] = NUL}
  IN IF ends = {} THEN <<255>> ELSE SubSeq(buffer, 1, Min(ends) - 1)

Arg(type, value) == [type |-> type, value |-> value]

\* "Safely concatenates several strings to the string buffer"
\* (StringManip.hpp:88): the buffer holds what fits of them with its NUL, is
\* not written beyond its size, whichever way the strings are given, and the
\* bounded copies agree with it. Numbers are as safe; see AppendInteger.
BuffersHold ==
  use = "copied" =>
    \A k \in 0 .. Len(text) : \A size \in Sizes :
      LET u == SubSeq(text, 1, k)
          v == SubSeq(text, k + 1, Len(text))
          Safe(buffer) == buffer[size + 1] = 255 /\ buffer[size + 2] = 255
          first == strlcpy(Cells(size), 0, u, size)
          both == strlcat(first.buffer, v, size)
      IN /\ Safe(both.buffer) /\ CString(both.buffer) = Truncated(text, size - 1)
         /\ first.result = Len(u)
         /\ both.result = Min({Len(u), size - 1}) + Len(v)
         /\ \A s, t \in {"c_string", "sub_string"} :
              LET buffer == concat(Cells(size), size, <<Arg(s, u), Arg(t, v)>>)
              IN Safe(buffer) /\ CString(buffer) = Truncated(text, size - 1)
         /\ \A n \in {-IntegerMax - 1, 7, IntegerMax} :
              LET buffer == concat(Cells(size), size, <<Arg("c_string", u), Arg("integer", n),
                                                        Arg("sub_string", v)>>)
              IN Safe(buffer) /\ Len(CString(buffer)) < size
=============================================================================
