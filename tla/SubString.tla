------------------------------ MODULE SubString ------------------------------
(***************************************************************************)
(* Gears::SubString (gears/SubString.hpp, gears/SubString.tpp): a pointer  *)
(* and a length into memory that somebody else owns.  Two substrings of    *)
(* one memory, self and other, go through the calls that change them; what *)
(* the calls that only read them return is in the operators.               *)
(* SubString is BasicSubString with CheckerNone: a position beyond the     *)
(* length is the caller's fault and undefined, so callers keep within it.  *)
(***************************************************************************)
EXTENDS Integers, Sequences, FiniteSetsExt

CONSTANTS
  Memories,     \* sequences of characters, the last of them NUL
  SIZES         \* number of values of SizeType (2^64 in the code)

VARIABLES memory, self, other

subStringVars == <<memory, self, other>>

NUL == 0
NPOS == SIZES - 1
Null == -1      \* the null pointer; other pointers are positions, from 0

Character(ptr) == IF ptr \in 0 .. Len(memory) - 1 THEN memory[ptr + 1] ELSE NUL

BasicSubString(ptr, count) == [begin_ |-> ptr, length_ |-> count]

Empty == BasicSubString(Null, 0)

begin_plus_position_(s, pos) == s.begin_ + pos

get_available_length_(s, pos, count) == Min({count, (s.length_ - pos) % SIZES})

substr(s, pos, count) ==
  BasicSubString(begin_plus_position_(s, pos), get_available_length_(s, pos, count))

at(s, pos) == Character(begin_plus_position_(s, pos))

\* CharTraits::compare: the first character that differs decides.
TraitsCompare(str1, str2, size) ==
  LET differ == {i \in 0 .. size - 1 : Character(str1 + i) # Character(str2 + i)}
  IN IF differ = {} THEN 0
     ELSE IF Character(str1 + Min(differ)) < Character(str2 + Min(differ)) THEN -1 ELSE 1

CompareWithoutLength(s, str) ==
  TraitsCompare(s.begin_, str.begin_, Min({s.length_, str.length_}))

compare(s, str) ==
  LET RESULT == TraitsCompare(s.begin_, str.begin_, Min({s.length_, str.length_}))
  IN IF RESULT # 0 THEN RESULT
     ELSE IF s.length_ = str.length_ THEN 0 ELSE IF s.length_ < str.length_ THEN -1 ELSE 1

ComparePart(s, pos1, count1, str, pos2, count2) ==
  compare(substr(s, pos1, count1), substr(str, pos2, count2))

\* compare with a C string, which ends at its NUL: the first character that
\* differs or ends it.
CompareCString(s, str) ==
  LET stops == {i \in 0 .. s.length_ - 1 : \/ Character(str + i) = NUL
                                           \/ Character(str + i) # Character(s.begin_ + i)}
  IN IF stops = {} THEN IF Character(str + s.length_) = NUL THEN 0 ELSE -1
     ELSE LET i == Min(stops)
          IN IF \/ Character(str + i) = NUL
                \/ Character(s.begin_ + i) < Character(str + i) THEN -1 ELSE 1

EqualCStringPrefix(s, str) ==
  \A i \in 0 .. s.length_ - 1 :
    Character(str + i) # NUL /\ Character(str + i) = Character(s.begin_ + i)

EqualCString(s, str) ==
  /\ \A i \in 0 .. s.length_ - 1 :
       Character(str + i) # NUL /\ Character(str + i) = Character(s.begin_ + i)
  /\ Character(str + s.length_) = NUL

equal(s, str) ==
  str.length_ = s.length_ /\ TraitsCompare(s.begin_, str.begin_, s.length_) = 0

\* The operators, for substrings and the strings that are converted to them,
\* and for C strings on either side.
EqualTo(s, str) == equal(s, str)
DiffersFrom(s, str) == ~equal(s, str)
LessThan(s, str) == compare(s, str) < 0
LessThanCString(s, str) == CompareCString(s, str) < 0
CStringLessThan(str, s) == ~LessThanCString(s, str)

copy(s, count, pos) ==
  [i \in 1 .. get_available_length_(s, pos, count) |-> Character(s.begin_ + pos + i - 1)]

FindCharacter(s, ch, pos) ==
  LET found == {i \in pos .. s.length_ - 1 : Character(s.begin_ + i) = ch}
  IN IF found = {} THEN NPOS ELSE Min(found)

\* std::search: the first place from first on, or last.
Search(first, last, str) ==
  Min({last} \cup {p \in first .. last - str.length_ :
                     TraitsCompare(p, str.begin_, str.length_) = 0})

FindStrictly(s, str, pos) ==
  LET END == s.begin_ + s.length_
      FOUND == Search(s.begin_ + pos, END, str)
  IN IF str.length_ = 0 THEN IF pos >= s.length_ THEN NPOS ELSE 0
     ELSE IF str.length_ >= get_available_length_(s, pos, s.length_) THEN NPOS
     ELSE IF FOUND # END THEN FOUND - s.begin_ ELSE NPOS

find(s, str, pos) ==
  LET END == s.begin_ + s.length_
      FOUND == Search(s.begin_ + pos, END, str)
  IN IF str.length_ = 0 THEN IF pos >= s.length_ THEN NPOS ELSE 0
     ELSE IF str.length_ > get_available_length_(s, pos, s.length_) THEN NPOS
     ELSE IF FOUND # END THEN FOUND - s.begin_ ELSE NPOS

RfindCharacter(s, ch, pos) ==
  LET found == {i \in 0 .. Min({s.length_ - 1, pos}) : Character(s.begin_ + i) = ch}
  IN IF s.length_ = 0 \/ found = {} THEN NPOS ELSE Max(found)

rfind(s, str, pos) ==
  LET from == Min({pos, s.length_})
      found == {i \in 0 .. Min({from, s.length_ - str.length_}) :
                  TraitsCompare(s.begin_ + i, str.begin_, str.length_) = 0}
  IN IF str.length_ > s.length_ THEN NPOS
     ELSE IF str.length_ = 0 THEN from
     ELSE IF found = {} THEN NPOS ELSE Max(found)

-----------------------------------------------------------------------------
SubStringInit ==
  /\ memory \in Memories
  /\ self = Empty /\ other = Empty

\* assign(ptr, count), assign(begin, end) and assign(std::string): a range of memory.
Assign ==
  /\ \E ptr \in 0 .. Len(memory) - 1 : \E count \in 0 .. Len(memory) - 1 - ptr :
       self' = BasicSubString(ptr, count)
  /\ UNCHANGED <<memory, other>>

AssignPart ==
  /\ \E pos \in 0 .. other.length_ : \E count \in 0 .. NPOS :
       self' = substr(other, pos, count)
  /\ UNCHANGED <<memory, other>>

AssignCopy == self' = other /\ UNCHANGED <<memory, other>>

clear == self' = Empty /\ UNCHANGED <<memory, other>>

EraseFrontUnbounded ==
  /\ \E count \in 0 .. NPOS :
       self' = IF self.begin_ = Null THEN self
               ELSE BasicSubString(self.begin_ + count, (self.length_ - count) % SIZES)
  /\ UNCHANGED <<memory, other>>

erase_front ==
  /\ \E count \in 0 .. NPOS :
       self' = IF self.begin_ = Null THEN self
               ELSE LET n == Min({count, self.length_})
                    IN BasicSubString(self.begin_ + n, self.length_ - n)
  /\ UNCHANGED <<memory, other>>

erase_back ==
  /\ \E count \in 0 .. NPOS :
       self' = IF self.begin_ = Null THEN self
               ELSE [self EXCEPT !.length_ = @ - Min({count, @})]
  /\ UNCHANGED <<memory, other>>

swap == self' = other /\ other' = self /\ UNCHANGED memory

SubStringNext == \/ Assign \/ AssignPart \/ AssignCopy \/ clear
                 \/ erase_front \/ erase_back \/ swap

SubStringSpec == SubStringInit /\ [][SubStringNext]_subStringVars

-----------------------------------------------------------------------------
\* A substring never refers to memory beyond its owner's, whatever counts its
\* calls are given: the arithmetic of lengths is modulo 2^64.
InMemory ==
  \A s \in {self, other} :
    IF s.begin_ = Null THEN s.length_ = 0
    ELSE s.begin_ \in 0 .. Len(memory) - 1 /\ s.begin_ + s.length_ \in 0 .. Len(memory) - 1

\* "less than, to match, or be greater" (SubString.hpp:337): compare is the
\* order of dictionaries, in which a beginning of a text comes before it, and
\* equal and the comparison of all parts agree with it.
CompareIsOrder ==
  LET u == copy(self, NPOS, 0)
      v == copy(other, NPOS, 0)
      Before(x, y) == \E k \in 0 .. Len(x) :
        /\ k <= Len(y) /\ SubSeq(x, 1, k) = SubSeq(y, 1, k)
        /\ k < Len(y) /\ (k < Len(x) => x[k + 1] < y[k + 1])
  IN /\ LessThan(self, other) = Before(u, v)
     /\ (compare(self, other) > 0) = Before(v, u)
     /\ EqualTo(self, other) = (u = v) /\ DiffersFrom(self, other) = (u # v)
     /\ \A k \in 0 .. Min({Len(u), Len(v)}) :
          (ComparePart(self, 0, k, other, 0, k) = 0) = (SubSeq(u, 1, k) = SubSeq(v, 1, k))

\* equal() and compare() of a C string answer as for the substring of its
\* characters.  Two cases are left out, in which the code contradicts its comments:
\* compare(ConstPointer) calls a substring less than a proper beginning of it
\* ("or be greater", SubString.hpp:337), and of equal texts the operator < with the
\* C string on its left is true.
CStringAgrees ==
  \A str \in 0 .. Len(memory) - 1 :
    LET length == Min({i \in 0 .. Len(memory) : Character(str + i) = NUL})
        s == BasicSubString(str, length)
        beginning == length < self.length_ /\ equal(substr(self, 0, length), s)
    IN self.begin_ # Null =>
         /\ EqualCString(self, str) = equal(self, s)
         /\ (CompareCString(self, str) = 0) = EqualCString(self, str)
         /\ ~beginning => CompareCString(self, str) = compare(self, s)
         /\ ~(beginning \/ EqualTo(s, self)) => CStringLessThan(str, self) = LessThan(s, self)

\* find gives the first occurrence from a position on and rfind the last one up
\* to it (SubString.hpp:486, 671), for a character as for a text of it alone.  A
\* text is to be found from no position beyond the length: find subtracts there
\* below zero, and its search begins behind its end, which is undefined.
FindersAgree ==
  LET occurrences == {i \in 0 .. self.length_ - other.length_ :
                        equal(substr(self, i, other.length_), other)}
      Least(S) == IF S = {} THEN NPOS ELSE Min(S)
      Greatest(S) == IF S = {} THEN NPOS ELSE Max(S)
  IN (self.begin_ # Null /\ other.length_ > 0) =>
       \A pos \in 0 .. self.length_ :
         /\ find(self, other, pos) = Least({i \in occurrences : i >= pos})
         /\ rfind(self, other, pos) = Greatest({i \in occurrences : i <= pos})
         /\ rfind(self, other, NPOS) = Greatest(occurrences)
         /\ other.length_ = 1 =>
              /\ FindCharacter(self, at(other, 0), pos) = find(self, other, pos)
              /\ RfindCharacter(self, at(other, 0), pos) = rfind(self, other, pos)
=============================================================================
