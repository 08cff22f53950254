------------------------------ MODULE TextProofs ------------------------------
(***************************************************************************)
(* Theorems on texts, for any memory, characters and sizes: the substrings,*)
(* the streams and the texts of StringManip.                               *)
(*                                                                         *)
(* The arguments.  Substrings: the comparisons are determined by the first *)
(* place where two texts differ, which exists because natural numbers have *)
(* a least one, and each search by the least or the greatest position of   *)
(* the set it looks for.  Streams: what was filled ends at the greatest    *)
(* position left by a seek or the present one, the memory agrees with the  *)
(* file up to there, and all of the room but the last cell of a fixed      *)
(* buffer can be filled.                                                   *)
(* Texts: a fold exists, and what a loop has done is known, up to every    *)
(* character, because there would be a first one up to which it does not   *)
(* (UpTo); each loop has an invariant over the characters it has passed.   *)
(***************************************************************************)
EXTENDS MCParts, FiniteSetTheorems, FunctionTheorems, SequenceTheorems, WellFoundedInduction, TLAPS

\* A set of natural numbers has a least one.
LEMMA LeastNatural ==
  ASSUME NEW T \in SUBSET Nat, T # {}
  PROVE  \E m \in T : \A n \in T : m <= n
<1> DEFINE R == OpToRel(<, Nat)
<1>1. IsWellFoundedOn(R, Nat)
  BY NatLessThanWellFounded
<1>2. \A m, n \in Nat : <<n, m>> \in R <=> n < m
  BY DEF OpToRel
<1>3. \E Q : IsWellFoundedOn(Q, Nat) /\ \A m, n \in Nat : <<n, m>> \in Q <=> n < m
  <2> HIDE DEF R
  <2> QED
    BY <1>1, <1>2
<1>4. PICK Q : IsWellFoundedOn(Q, Nat) /\ \A m, n \in Nat : <<n, m>> \in Q <=> n < m
  BY <1>3
<1>5. PICK m \in T : \A n \in T : <<n, m>> \notin Q
  BY <1>4, WFMin
<1>6. \A n \in T : m <= n
  <2> SUFFICES ASSUME NEW n \in T PROVE m <= n
    OBVIOUS
  <2>1. n \in Nat /\ m \in Nat
    OBVIOUS
  <2>2. ~(n < m)
    BY <1>4, <1>5, <2>1
  <2> QED
    BY <2>1, <2>2
<1> QED
  BY <1>6

-----------------------------------------------------------------------------
(* Substrings.                                                             *)

\* Null, or a piece of the memory that ends before its last character.
SubStrings ==
  {s \in [begin_ : Int, length_ : Nat] :
     IF s.begin_ = Sub!Null THEN s.length_ = 0
     ELSE s.begin_ \in 0 .. Len(memory) - 1 /\ s.begin_ + s.length_ \in 0 .. Len(memory) - 1}

SubInv == memory \in Memories /\ self \in SubStrings /\ other \in SubStrings

LEMMA SubConstants ==
  /\ SIZES \in Nat
  /\ \A m \in Memories : m \in Seq(Nat) /\ Len(m) \in 1 .. SIZES /\ m[Len(m)] = 0
BY PartsAssumption

LEMMA SubMinIs ==
  ASSUME NEW T \in SUBSET Int, NEW m \in T, \A n \in T : m <= n
  PROVE  Sub!Min(T) = m
<1>1. \A n \in T : (\A k \in T : n <= k) => n = m
  OBVIOUS
<1> QED
  BY <1>1 DEF Sub!Min

LEMMA SubMaxIs ==
  ASSUME NEW T \in SUBSET Int, NEW m \in T, \A n \in T : m >= n
  PROVE  Sub!Max(T) = m
<1>1. \A n \in T : (\A k \in T : n >= k) => n = m
  OBVIOUS
<1> QED
  BY <1>1 DEF Sub!Max

LEMMA SubMinOfTwo ==
  ASSUME NEW a \in Int, NEW b \in Int
  PROVE  Sub!Min({a, b}) = IF a <= b THEN a ELSE b
BY DEF Sub!Min

\* The least and the greatest of the numbers of a range that have a property.
LEMMA SubMinOfSome ==
  ASSUME NEW T \in SUBSET Nat, T # {}
  PROVE  Sub!Min(T) \in T /\ \A n \in T : Sub!Min(T) <= n
<1>1. PICK m \in T : \A n \in T : m <= n
  BY LeastNatural
<1> QED
  BY <1>1, SubMinIs

LEMMA SubMaxOfSome ==
  ASSUME NEW b \in Nat, NEW T \in SUBSET (0 .. b), T # {}
  PROVE  Sub!Max(T) \in T /\ \A n \in T : Sub!Max(T) >= n
<1> DEFINE Below == {b - n : n \in T}
<1>1. Below \in SUBSET Nat /\ Below # {}
  <2>1. \A n \in T : b - n \in Nat
    OBVIOUS
  <2>2. PICK n \in T : TRUE
    OBVIOUS
  <2> QED
    BY <2>1, <2>2
<1>2. PICK k \in Below : \A n \in Below : k <= n
  BY <1>1, LeastNatural
<1>3. PICK m \in T : k = b - m
  BY <1>2
<1>4. \A n \in T : m >= n
  <2>1. \A n \in T : k <= b - n /\ n \in Int
    BY <1>2
  <2> QED
    BY <1>3, <2>1
<1> QED
  BY <1>4, SubMaxIs

LEMMA CharacterIsNat ==
  ASSUME memory \in Memories, NEW ptr \in Int
  PROVE  Sub!Character(ptr) \in Nat
<1>1. memory \in Seq(Nat) /\ Len(memory) \in Nat
  BY SubConstants
<1>2. ptr \in 0 .. Len(memory) - 1 => ptr + 1 \in 1 .. Len(memory)
  BY <1>1
<1> QED
  BY <1>1, <1>2 DEF Sub!Character, Sub!NUL

\* A piece of a substring, however large the count.
LEMMA AvailableIs ==
  ASSUME memory \in Memories, NEW s \in SubStrings, NEW pos \in 0 .. s.length_, NEW count \in Nat
  PROVE  Sub!get_available_length_(s, pos, count)
           = IF count <= s.length_ - pos THEN count ELSE s.length_ - pos
<1>1. s.length_ \in Nat /\ s.length_ < SIZES /\ SIZES \in Nat
  BY SubConstants DEF SubStrings
<1>2. (s.length_ - pos) % SIZES = s.length_ - pos
  BY <1>1
<1> QED
  BY <1>1, <1>2, SubMinOfTwo DEF Sub!get_available_length_

LEMMA PieceOf ==
  ASSUME memory \in Memories, NEW s \in SubStrings, NEW pos \in 0 .. s.length_, NEW count \in Nat
  PROVE  /\ Sub!substr(s, pos, count) \in SubStrings
         /\ Sub!substr(s, pos, count).begin_ = s.begin_ + pos
         /\ Sub!substr(s, pos, count).length_
              = IF count <= s.length_ - pos THEN count ELSE s.length_ - pos
<1> DEFINE n == IF count <= s.length_ - pos THEN count ELSE s.length_ - pos
<1>1. s.begin_ \in Int /\ s.length_ \in Nat /\ Len(memory) \in Nat
  BY SubConstants DEF SubStrings
<1>2. n \in Nat /\ n <= s.length_ - pos
  BY <1>1
<1>3. Sub!get_available_length_(s, pos, count) = n
  BY AvailableIs
<1>4. Sub!substr(s, pos, count) = [begin_ |-> s.begin_ + pos, length_ |-> n]
  BY <1>3 DEF Sub!substr, Sub!BasicSubString, Sub!begin_plus_position_
<1> HIDE DEF n
<1>5. [begin_ |-> s.begin_ + pos, length_ |-> n] \in SubStrings
  BY <1>1, <1>2 DEF SubStrings, Sub!Null
<1> QED
  BY <1>4, <1>5 DEF n

LEMMA SubInvInit == ASSUME Sub!SubStringInit PROVE SubInv
<1>1. Sub!Empty \in SubStrings
  BY DEF SubStrings, Sub!Empty, Sub!BasicSubString, Sub!Null
<1> QED
  BY <1>1 DEF Sub!SubStringInit, SubInv

LEMMA SubInvStep == ASSUME SubInv, Sub!SubStringNext PROVE SubInv'
<1>1. memory \in Memories /\ self \in SubStrings /\ other \in SubStrings
  BY DEF SubInv
<1>2. Len(memory) \in Nat /\ Sub!NPOS \in Int /\ memory' = memory
  BY <1>1, SubConstants DEF Sub!NPOS, Sub!SubStringNext, Sub!Assign, Sub!AssignPart,
     Sub!AssignCopy, Sub!clear, Sub!erase_front, Sub!erase_back, Sub!swap
<1>3. SubStrings' = SubStrings
  BY <1>2 DEF SubStrings
<1>4. self.begin_ \in Int /\ self.length_ \in Nat
  BY <1>1 DEF SubStrings
<1>5. Sub!Empty \in SubStrings
  BY DEF SubStrings, Sub!Empty, Sub!BasicSubString, Sub!Null
<1>6. CASE Sub!Assign
  <2>1. PICK ptr \in 0 .. Len(memory) - 1 : \E count \in 0 .. Len(memory) - 1 - ptr :
          self' = [begin_ |-> ptr, length_ |-> count]
    BY <1>6 DEF Sub!Assign, Sub!BasicSubString
  <2>2. PICK count \in 0 .. Len(memory) - 1 - ptr : self' = [begin_ |-> ptr, length_ |-> count]
    BY <2>1
  <2>3. [begin_ |-> ptr, length_ |-> count] \in SubStrings
    BY <1>2 DEF SubStrings, Sub!Null
  <2> QED
    BY <1>1, <1>2, <1>3, <1>6, <2>2, <2>3 DEF SubInv, Sub!Assign
<1>7. CASE Sub!AssignPart
  <2>1. self' \in SubStrings
    BY <1>1, <1>2, <1>7, PieceOf DEF Sub!AssignPart
  <2> QED
    BY <1>1, <1>2, <1>3, <1>7, <2>1 DEF SubInv, Sub!AssignPart
<1>8. CASE Sub!erase_front
  <2>1. PICK count \in 0 .. Sub!NPOS :
          self' = IF self.begin_ = Sub!Null THEN self
                  ELSE LET n == Sub!Min({count, self.length_})
                       IN [begin_ |-> self.begin_ + n, length_ |-> self.length_ - n]
    BY <1>8 DEF Sub!erase_front, Sub!BasicSubString
  <2>2. Sub!Min({count, self.length_}) \in 0 .. self.length_
    BY <1>2, <1>4, SubMinOfTwo
  <2>3. ASSUME self.begin_ # Sub!Null, NEW n \in 0 .. self.length_
        PROVE  [begin_ |-> self.begin_ + n, length_ |-> self.length_ - n] \in SubStrings
    BY <1>1, <1>2, <1>4, <2>3 DEF SubStrings, Sub!Null
  <2>4. self' \in SubStrings
    BY <1>1, <2>1, <2>2, <2>3
  <2> QED
    BY <1>1, <1>2, <1>3, <1>8, <2>4 DEF SubInv, Sub!erase_front
<1>9. CASE Sub!erase_back
  <2>1. PICK count \in 0 .. Sub!NPOS :
          self' = IF self.begin_ = Sub!Null THEN self
                  ELSE [self EXCEPT !.length_ = @ - Sub!Min({count, @})]
    BY <1>9 DEF Sub!erase_back
  <2>2. Sub!Min({count, self.length_}) \in 0 .. self.length_
    BY <1>2, <1>4, SubMinOfTwo
  <2>3. ASSUME self.begin_ # Sub!Null, NEW n \in 0 .. self.length_
        PROVE  [self EXCEPT !.length_ = @ - n] \in SubStrings
    <3>1. self = [begin_ |-> self.begin_, length_ |-> self.length_] /\ self.begin_ # -1
      BY <1>1, <2>3 DEF SubStrings, Sub!Null
    <3>2. [self EXCEPT !.length_ = @ - n] = [begin_ |-> self.begin_, length_ |-> self.length_ - n]
      BY <3>1
    <3>3. self.begin_ \in 0 .. Len(memory) - 1 /\ self.begin_ + self.length_ \in 0 .. Len(memory) - 1
      BY <1>1, <2>3 DEF SubStrings
    <3> QED
      BY <1>2, <1>4, <2>3, <3>1, <3>2, <3>3 DEF SubStrings, Sub!Null
  <2>4. self' \in SubStrings
    BY <1>1, <2>1, <2>2, <2>3
  <2> QED
    BY <1>1, <1>2, <1>3, <1>9, <2>4 DEF SubInv, Sub!erase_back
<1>10. CASE Sub!AssignCopy \/ Sub!clear \/ Sub!swap
  BY <1>1, <1>2, <1>3, <1>5, <1>10 DEF SubInv, Sub!AssignCopy, Sub!clear, Sub!swap
<1> QED
  BY <1>6, <1>7, <1>8, <1>9, <1>10 DEF Sub!SubStringNext

LEMMA StaysInMemory == ASSUME SubInv PROVE Sub!InMemory
BY DEF SubInv, SubStrings, Sub!InMemory

\* Two places of the memory with the same k characters.
Common(a, b, k) == \A i \in 0 .. k - 1 : Sub!Character(a + i) = Sub!Character(b + i)

LEMMA FirstDifference ==
  ASSUME NEW a \in Int, NEW b \in Int, NEW n \in Nat, ~Common(a, b, n)
  PROVE  \E k \in 0 .. n - 1 : Common(a, b, k) /\ Sub!Character(a + k) # Sub!Character(b + k)
<1> DEFINE T == {i \in 0 .. n - 1 : Sub!Character(a + i) # Sub!Character(b + i)}
<1>1. T \in SUBSET Nat /\ T # {}
  <2>1. PICK i \in 0 .. n - 1 : Sub!Character(a + i) # Sub!Character(b + i)
    BY DEF Common
  <2>2. i \in T
    BY <2>1
  <2>3. T \in SUBSET Nat
    OBVIOUS
  <2> HIDE DEF T
  <2> QED
    BY <2>2, <2>3
<1>2. PICK k \in T : \A i \in T : k <= i
  BY <1>1, LeastNatural
<1>3. \A i \in 0 .. k - 1 : i \notin T /\ i \in 0 .. n - 1
  BY <1>1, <1>2
<1> QED
  BY <1>3 DEF Common

\* The first character that differs decides.
LEMMA TraitsCompareIs ==
  ASSUME memory \in Memories, NEW a \in Int, NEW b \in Int, NEW n \in Nat
  PROVE  /\ Common(a, b, n) => Sub!TraitsCompare(a, b, n) = 0
         /\ \A k \in 0 .. n - 1 :
              Common(a, b, k) /\ Sub!Character(a + k) # Sub!Character(b + k) =>
                Sub!TraitsCompare(a, b, n)
                  = IF Sub!Character(a + k) < Sub!Character(b + k) THEN -1 ELSE 1
<1> DEFINE T == {i \in 0 .. n - 1 : Sub!Character(a + i) # Sub!Character(b + i)}
<1>1. Sub!TraitsCompare(a, b, n)
        = IF T = {} THEN 0
          ELSE IF Sub!Character(a + Sub!Min(T)) < Sub!Character(b + Sub!Min(T)) THEN -1 ELSE 1
  BY DEF Sub!TraitsCompare
<1>2. Common(a, b, n) => T = {}
  BY DEF Common
<1>3. ASSUME NEW k \in 0 .. n - 1, Common(a, b, k),
             Sub!Character(a + k) # Sub!Character(b + k)
      PROVE  T # {} /\ Sub!Min(T) = k
  <2>1. k \in T /\ T \in SUBSET Int
    BY <1>3
  <2>2. \A i \in T : k <= i
    BY <1>3 DEF Common
  <2> HIDE DEF T
  <2> QED
    BY <2>1, <2>2, SubMinIs
<1> HIDE DEF T
<1> QED
  BY <1>1, <1>2, <1>3

\* The order of dictionaries: t continues s, or has the greater character where they differ.
BeforeText(s, t) ==
  \E k \in 0 .. s.length_ :
    /\ k < t.length_ /\ Common(s.begin_, t.begin_, k)
    /\ k < s.length_ => Sub!Character(s.begin_ + k) < Sub!Character(t.begin_ + k)

SameText(s, t) == s.length_ = t.length_ /\ Common(s.begin_, t.begin_, s.length_)

LEMMA CompareIs ==
  ASSUME memory \in Memories, NEW s \in SubStrings, NEW t \in SubStrings
  PROVE  /\ SameText(s, t) => Sub!compare(s, t) = 0
         /\ BeforeText(s, t) => Sub!compare(s, t) = -1
         /\ BeforeText(t, s) => Sub!compare(s, t) = 1
         /\ SameText(s, t) \/ BeforeText(s, t) \/ BeforeText(t, s)
<1> DEFINE a == s.begin_
<1> DEFINE b == t.begin_
<1> DEFINE m == s.length_
<1> DEFINE n == t.length_
<1> DEFINE l == IF m <= n THEN m ELSE n
<1> DEFINE R == Sub!TraitsCompare(a, b, l)
<1>1. a \in Int /\ b \in Int /\ m \in Nat /\ n \in Nat /\ l \in Nat
  BY DEF SubStrings
<1>2. Sub!compare(s, t) = IF R # 0 THEN R ELSE IF m = n THEN 0 ELSE IF m < n THEN -1 ELSE 1
  <2>1. Sub!Min({m, n}) = l
    BY <1>1, SubMinOfTwo
  <2> QED
    BY <2>1 DEF Sub!compare
<1>3. \A i \in Int : Sub!Character(a + i) \in Nat /\ Sub!Character(b + i) \in Nat
  BY <1>1, CharacterIsNat
<1>4. Common(a, b, l) => R = 0
  BY <1>1, TraitsCompareIs
<1>5. \A k \in 0 .. l - 1 :
        Common(a, b, k) /\ Sub!Character(a + k) # Sub!Character(b + k) =>
          R = IF Sub!Character(a + k) < Sub!Character(b + k) THEN -1 ELSE 1
  BY <1>1, TraitsCompareIs
<1>6. SameText(s, t) <=> m = n /\ Common(a, b, m)
  BY DEF SameText
<1>7. BeforeText(s, t) <=>
        \E k \in 0 .. m : /\ k < n /\ Common(a, b, k)
                          /\ k < m => Sub!Character(a + k) < Sub!Character(b + k)
  BY DEF BeforeText
<1>8. BeforeText(t, s) <=>
        \E k \in 0 .. n : /\ k < m /\ Common(a, b, k)
                          /\ k < n => Sub!Character(b + k) < Sub!Character(a + k)
  BY DEF BeforeText, Common
<1>9. ~Common(a, b, l) =>
        \E k \in 0 .. l - 1 : Common(a, b, k) /\ Sub!Character(a + k) # Sub!Character(b + k)
  BY <1>1, FirstDifference
<1> HIDE DEF R
<1> DEFINE C(k) == Common(a, b, k)
<1> HIDE DEF a, b, m, n
<1>10. SameText(s, t) => Sub!compare(s, t) = 0
  BY <1>1, <1>2, <1>4, <1>6
<1>11. BeforeText(s, t) => Sub!compare(s, t) = -1
  <2> SUFFICES ASSUME NEW k \in 0 .. m, k < n, Common(a, b, k),
                      k < m => Sub!Character(a + k) < Sub!Character(b + k)
               PROVE  Sub!compare(s, t) = -1
    BY <1>7
  <2>1. CASE k < m
    <3>1. k \in 0 .. l - 1 /\ k \in Int
      BY <1>1, <2>1
    <3>2. R = -1
      BY <1>3, <1>5, <2>1, <3>1
    <3> QED
      BY <1>2, <3>2
  <2>2. CASE k = m
    BY <1>1, <1>2, <1>4, <2>2
  <2> QED
    BY <1>1, <2>1, <2>2
<1>12. BeforeText(t, s) => Sub!compare(s, t) = 1
  <2> SUFFICES ASSUME NEW k \in 0 .. n, k < m, Common(a, b, k),
                      k < n => Sub!Character(b + k) < Sub!Character(a + k)
               PROVE  Sub!compare(s, t) = 1
    BY <1>8
  <2>1. CASE k < n
    <3>1. k \in 0 .. l - 1 /\ k \in Int
      BY <1>1, <2>1
    <3>2. R = 1
      BY <1>3, <1>5, <2>1, <3>1
    <3> QED
      BY <1>2, <3>2
  <2>2. CASE k = n
    BY <1>1, <1>2, <1>4, <2>2
  <2> QED
    BY <1>1, <2>1, <2>2
<1>13. SameText(s, t) \/ BeforeText(s, t) \/ BeforeText(t, s)
  <2>1. CASE Common(a, b, l)
    <3>1. CASE m = n
      BY <1>1, <1>6, <2>1, <3>1
    <3>2. CASE m < n
      BY <1>1, <1>7, <2>1, <3>2
    <3>3. CASE m > n
      BY <1>1, <1>8, <2>1, <3>3
    <3> QED
      BY <1>1, <3>1, <3>2, <3>3
  <2>2. CASE ~Common(a, b, l)
    <3>1. PICK k \in 0 .. l - 1 : Common(a, b, k) /\ Sub!Character(a + k) # Sub!Character(b + k)
      BY <1>9, <2>2
    <3>2. k \in 0 .. m /\ k \in 0 .. n /\ k < m /\ k < n /\ k \in Int
      BY <1>1
    <3>3. CASE Sub!Character(a + k) < Sub!Character(b + k)
      BY <1>7, <3>1, <3>2, <3>3
    <3>4. CASE Sub!Character(b + k) < Sub!Character(a + k)
      BY <1>8, <3>1, <3>2, <3>4
    <3> QED
      BY <1>3, <3>1, <3>2, <3>3, <3>4
  <2> QED
    BY <2>1, <2>2
<1> QED
  BY <1>10, <1>11, <1>12, <1>13

LEMMA EqualIs ==
  ASSUME memory \in Memories, NEW s \in SubStrings, NEW t \in SubStrings
  PROVE  Sub!equal(s, t) = SameText(s, t)
<1>1. s.begin_ \in Int /\ t.begin_ \in Int /\ s.length_ \in Nat
  BY DEF SubStrings
<1>2. ASSUME ~Common(s.begin_, t.begin_, s.length_)
      PROVE  Sub!TraitsCompare(s.begin_, t.begin_, s.length_) # 0
  <2>1. PICK k \in 0 .. s.length_ - 1 :
          Common(s.begin_, t.begin_, k)
          /\ Sub!Character(s.begin_ + k) # Sub!Character(t.begin_ + k)
    BY <1>1, <1>2, FirstDifference
  <2>2. Sub!TraitsCompare(s.begin_, t.begin_, s.length_) \in {-1, 1}
    BY <1>1, <2>1, TraitsCompareIs
  <2> QED
    BY <2>2
<1>3. Common(s.begin_, t.begin_, s.length_) =>
        Sub!TraitsCompare(s.begin_, t.begin_, s.length_) = 0
  BY <1>1, TraitsCompareIs
<1> QED
  BY <1>2, <1>3 DEF Sub!equal, SameText

\* The characters of a substring, as copy() gives them.
Copied(s) == Sub!copy(s, Sub!NPOS, 0)

LEMMA CopyIs ==
  ASSUME memory \in Memories, NEW s \in SubStrings
  PROVE  /\ Copied(s) \in Seq(Nat) /\ Len(Copied(s)) = s.length_
         /\ \A i \in 1 .. s.length_ : Copied(s)[i] = Sub!Character(s.begin_ + i - 1)
<1>1. s.begin_ \in Int /\ s.length_ \in Nat /\ s.length_ < SIZES /\ SIZES \in Nat
  BY SubConstants DEF SubStrings
<1>2. Sub!NPOS \in Nat /\ s.length_ <= Sub!NPOS
  BY <1>1 DEF Sub!NPOS
<1>3. Sub!get_available_length_(s, 0, Sub!NPOS) = s.length_
  BY <1>1, <1>2, AvailableIs
<1>4. Copied(s) = [i \in 1 .. s.length_ |-> Sub!Character(s.begin_ + 0 + i - 1)]
  BY <1>3 DEF Copied, Sub!copy
<1>5. \A i \in 1 .. s.length_ : s.begin_ + 0 + i - 1 = s.begin_ + i - 1 /\ s.begin_ + i - 1 \in Int
  BY <1>1
<1>6. \A i \in 1 .. s.length_ : Sub!Character(s.begin_ + i - 1) \in Nat
  BY <1>5, CharacterIsNat
<1>7. Copied(s) = [i \in 1 .. s.length_ |-> Sub!Character(s.begin_ + i - 1)]
  BY <1>4, <1>5
<1>8. Copied(s) \in [1 .. s.length_ -> Nat]
  BY <1>6, <1>7
<1>9. Copied(s) \in Seq(Nat) /\ Len(Copied(s)) = s.length_
  BY <1>1, <1>8
<1> QED
  BY <1>7, <1>9

LEMMA CopiedPrefix ==
  ASSUME memory \in Memories, NEW s \in SubStrings, NEW t \in SubStrings,
         NEW k \in Nat, k <= s.length_, k <= t.length_
  PROVE  SubSeq(Copied(s), 1, k) = SubSeq(Copied(t), 1, k) <=> Common(s.begin_, t.begin_, k)
<1>1. s.begin_ \in Int /\ t.begin_ \in Int /\ s.length_ \in Nat /\ t.length_ \in Nat
  BY DEF SubStrings
<1>2. /\ Copied(s) \in Seq(Nat) /\ Len(Copied(s)) = s.length_
      /\ \A i \in 1 .. s.length_ : Copied(s)[i] = Sub!Character(s.begin_ + i - 1)
  BY CopyIs
<1>3. /\ Copied(t) \in Seq(Nat) /\ Len(Copied(t)) = t.length_
      /\ \A i \in 1 .. t.length_ : Copied(t)[i] = Sub!Character(t.begin_ + i - 1)
  BY CopyIs
<1>4. SubSeq(Copied(s), 1, k) = SubSeq(Copied(t), 1, k)
        <=> \A i \in 1 .. k : Copied(s)[i] = Copied(t)[i]
  <2> DEFINE x == Copied(s)
  <2> DEFINE y == Copied(t)
  <2> HIDE DEF x, y
  <2>1. x \in Seq(Nat) /\ y \in Seq(Nat) /\ k <= Len(x) /\ k <= Len(y)
    BY <1>2, <1>3 DEF x, y
  <2>2. /\ SubSeq(x, 1, k) = [i \in 1 .. k |-> x[i]]
        /\ SubSeq(y, 1, k) = [i \in 1 .. k |-> y[i]]
    BY <2>1
  <2>3. SubSeq(x, 1, k) = SubSeq(y, 1, k) <=> \A i \in 1 .. k : x[i] = y[i]
    BY <2>2
  <2> QED
    BY <2>3 DEF x, y
<1>5. (\A i \in 1 .. k : Copied(s)[i] = Copied(t)[i]) <=>
        \A i \in 1 .. k : Sub!Character(s.begin_ + i - 1) = Sub!Character(t.begin_ + i - 1)
  <2>1. \A i \in 1 .. k : i \in 1 .. s.length_ /\ i \in 1 .. t.length_
    BY <1>1
  <2> QED
    BY <1>2, <1>3, <2>1
<1>6. (\A i \in 1 .. k : Sub!Character(s.begin_ + i - 1) = Sub!Character(t.begin_ + i - 1))
        <=> Common(s.begin_, t.begin_, k)
  <2>1. ASSUME \A i \in 1 .. k : Sub!Character(s.begin_ + i - 1) = Sub!Character(t.begin_ + i - 1),
               NEW i \in 0 .. k - 1
        PROVE  Sub!Character(s.begin_ + i) = Sub!Character(t.begin_ + i)
    <3>1. i + 1 \in 1 .. k /\ s.begin_ + (i + 1) - 1 = s.begin_ + i
          /\ t.begin_ + (i + 1) - 1 = t.begin_ + i
      BY <1>1
    <3> QED
      BY <2>1, <3>1
  <2>2. ASSUME Common(s.begin_, t.begin_, k), NEW i \in 1 .. k
        PROVE  Sub!Character(s.begin_ + i - 1) = Sub!Character(t.begin_ + i - 1)
    <3>1. i - 1 \in 0 .. k - 1 /\ s.begin_ + i - 1 = s.begin_ + (i - 1)
          /\ t.begin_ + i - 1 = t.begin_ + (i - 1)
      BY <1>1
    <3> QED
      BY <2>2, <3>1 DEF Common
  <2> QED
    BY <2>1, <2>2 DEF Common
<1> QED
  BY <1>4, <1>5, <1>6

Before(x, y) ==
  \E k \in 0 .. Len(x) :
    /\ k <= Len(y) /\ SubSeq(x, 1, k) = SubSeq(y, 1, k)
    /\ k < Len(y) /\ (k < Len(x) => x[k + 1] < y[k + 1])

LEMMA BeforeIs ==
  ASSUME memory \in Memories, NEW s \in SubStrings, NEW t \in SubStrings
  PROVE  Before(Copied(s), Copied(t)) <=> BeforeText(s, t)
<1>1. s.begin_ \in Int /\ t.begin_ \in Int /\ s.length_ \in Nat /\ t.length_ \in Nat
  BY DEF SubStrings
<1>2. /\ Len(Copied(s)) = s.length_ /\ Len(Copied(t)) = t.length_
      /\ \A i \in 1 .. s.length_ : Copied(s)[i] = Sub!Character(s.begin_ + i - 1)
      /\ \A i \in 1 .. t.length_ : Copied(t)[i] = Sub!Character(t.begin_ + i - 1)
  BY CopyIs
<1>3. ASSUME NEW k \in 0 .. s.length_, k < t.length_
      PROVE  /\ SubSeq(Copied(s), 1, k) = SubSeq(Copied(t), 1, k)
                  <=> Common(s.begin_, t.begin_, k)
             /\ k < s.length_ => Copied(s)[k + 1] = Sub!Character(s.begin_ + k)
             /\ Copied(t)[k + 1] = Sub!Character(t.begin_ + k)
  <2>1. k \in Nat /\ k <= s.length_ /\ k <= t.length_
    BY <1>1, <1>3
  <2>2. SubSeq(Copied(s), 1, k) = SubSeq(Copied(t), 1, k) <=> Common(s.begin_, t.begin_, k)
    BY <2>1, CopiedPrefix
  <2>3. /\ k + 1 \in 1 .. t.length_ /\ t.begin_ + (k + 1) - 1 = t.begin_ + k
        /\ s.begin_ + (k + 1) - 1 = s.begin_ + k
        /\ k < s.length_ => k + 1 \in 1 .. s.length_
    BY <1>1, <1>3
  <2> QED
    BY <1>2, <2>2, <2>3
<1>4. \A k \in 0 .. s.length_ : k < t.length_ => k <= t.length_
  BY <1>1
<1> QED
  BY <1>2, <1>3, <1>4 DEF Before, BeforeText

LEMMA SameIs ==
  ASSUME memory \in Memories, NEW s \in SubStrings, NEW t \in SubStrings
  PROVE  Copied(s) = Copied(t) <=> SameText(s, t)
<1>1. s.length_ \in Nat /\ t.length_ \in Nat
  BY DEF SubStrings
<1>2. /\ Copied(s) \in Seq(Nat) /\ Len(Copied(s)) = s.length_
      /\ Copied(t) \in Seq(Nat) /\ Len(Copied(t)) = t.length_
  BY CopyIs
<1>3. SubSeq(Copied(s), 1, s.length_) = Copied(s) /\ SubSeq(Copied(t), 1, t.length_) = Copied(t)
  BY <1>1, <1>2
<1>4. ASSUME s.length_ = t.length_
      PROVE  SubSeq(Copied(s), 1, s.length_) = SubSeq(Copied(t), 1, s.length_)
               <=> Common(s.begin_, t.begin_, s.length_)
  BY <1>1, <1>4, CopiedPrefix
<1> QED
  BY <1>2, <1>3, <1>4 DEF SameText

LEMMA ComparesInOrder == ASSUME SubInv PROVE Sub!CompareIsOrder
<1> DEFINE u == Copied(self)
<1> DEFINE v == Copied(other)
<1>1. memory \in Memories /\ self \in SubStrings /\ other \in SubStrings
  BY DEF SubInv
<1>2. self.length_ \in Nat /\ other.length_ \in Nat /\ self.begin_ \in Int /\ other.begin_ \in Int
  BY <1>1 DEF SubStrings
<1>3. /\ Before(u, v) <=> BeforeText(self, other)
      /\ Before(v, u) <=> BeforeText(other, self)
      /\ u = v <=> SameText(self, other)
  BY <1>1, BeforeIs, SameIs
<1>4. /\ SameText(self, other) => Sub!compare(self, other) = 0
      /\ BeforeText(self, other) => Sub!compare(self, other) = -1
      /\ BeforeText(other, self) => Sub!compare(self, other) = 1
      /\ SameText(self, other) \/ BeforeText(self, other) \/ BeforeText(other, self)
  BY <1>1, CompareIs
<1>5. Sub!LessThan(self, other) = Before(u, v)
  <2>1. Sub!compare(self, other) < 0 <=> BeforeText(self, other)
    BY <1>4
  <2>2. Before(u, v) \in BOOLEAN /\ (Sub!compare(self, other) < 0) \in BOOLEAN
    BY DEF Before
  <2> QED
    BY <1>3, <2>1, <2>2 DEF Sub!LessThan
<1>6. (Sub!compare(self, other) > 0) = Before(v, u)
  <2>1. Sub!compare(self, other) > 0 <=> BeforeText(other, self)
    BY <1>4
  <2>2. Before(v, u) \in BOOLEAN
    BY DEF Before
  <2> QED
    BY <1>3, <2>1, <2>2
<1>7. Sub!EqualTo(self, other) = (u = v) /\ Sub!DiffersFrom(self, other) = (u # v)
  <2>1. Sub!equal(self, other) = SameText(self, other)
    BY <1>1, EqualIs
  <2>2. Sub!equal(self, other) \in BOOLEAN /\ SameText(self, other) \in BOOLEAN
    BY DEF Sub!equal, SameText
  <2> QED
    BY <1>3, <2>1, <2>2 DEF Sub!EqualTo, Sub!DiffersFrom
<1>8. ASSUME NEW k \in 0 .. Sub!Min({Len(u), Len(v)})
      PROVE  (Sub!ComparePart(self, 0, k, other, 0, k) = 0) = (SubSeq(u, 1, k) = SubSeq(v, 1, k))
  <2>1. Len(u) = self.length_ /\ Len(v) = other.length_
    BY <1>1, CopyIs
  <2>2. k \in Nat /\ k <= self.length_ /\ k <= other.length_
    BY <1>2, <2>1, SubMinOfTwo
  <2> DEFINE s == Sub!substr(self, 0, k)
  <2> DEFINE t == Sub!substr(other, 0, k)
  <2>3. /\ s \in SubStrings /\ s.length_ = k /\ s.begin_ = self.begin_ + 0
        /\ t \in SubStrings /\ t.length_ = k /\ t.begin_ = other.begin_ + 0
    BY <1>1, <1>2, <2>2, PieceOf
  <2>4. Sub!ComparePart(self, 0, k, other, 0, k) = Sub!compare(s, t)
    BY DEF Sub!ComparePart
  <2> HIDE DEF s, t
  <2>5. s.begin_ = self.begin_ /\ t.begin_ = other.begin_
    BY <1>2, <2>3
  <2>6. SameText(s, t) <=> Common(self.begin_, other.begin_, k)
    BY <2>3, <2>5 DEF SameText
  <2>7. Sub!compare(s, t) = 0 <=> SameText(s, t)
    BY <1>1, <2>3, CompareIs
  <2>8. SubSeq(u, 1, k) = SubSeq(v, 1, k) <=> Common(self.begin_, other.begin_, k)
    BY <1>1, <2>2, CopiedPrefix
  <2> QED
    BY <2>4, <2>6, <2>7, <2>8
<1> QED
  BY <1>5, <1>6, <1>7, <1>8 DEF Sub!CompareIsOrder, Copied, Before

\* A C string of the memory as a substring: up to its first NUL.
CString(str) ==
  [begin_ |-> str,
   length_ |-> Sub!Min({i \in 0 .. Len(memory) : Sub!Character(str + i) = Sub!NUL})]

LEMMA CStringIs ==
  ASSUME memory \in Memories, NEW str \in 0 .. Len(memory) - 1
  PROVE  /\ CString(str) \in SubStrings /\ CString(str).begin_ = str
         /\ Sub!Character(str + CString(str).length_) = Sub!NUL
         /\ \A i \in 0 .. CString(str).length_ - 1 : Sub!Character(str + i) # Sub!NUL
<1> DEFINE T == {i \in 0 .. Len(memory) : Sub!Character(str + i) = Sub!NUL}
<1> DEFINE n == Sub!Min(T)
<1>1. memory \in Seq(Nat) /\ Len(memory) \in Nat /\ Len(memory) > 0 /\ memory[Len(memory)] = 0
      /\ str \in Int
  BY SubConstants
<1>2. Len(memory) - 1 - str \in T
  <2>1. Sub!Character(Len(memory) - 1) = Sub!NUL
    BY <1>1 DEF Sub!Character, Sub!NUL
  <2>2. str + (Len(memory) - 1 - str) = Len(memory) - 1 /\ Len(memory) - 1 - str \in 0 .. Len(memory)
    BY <1>1
  <2> QED
    BY <2>1, <2>2
<1>3. T \in SUBSET Nat
  OBVIOUS
<1>4. n \in T /\ \A i \in T : n <= i
  <2> HIDE DEF T
  <2> QED
    BY <1>2, <1>3, SubMinOfSome
<1>5. n \in Nat /\ n <= Len(memory) - 1 - str /\ Sub!Character(str + n) = Sub!NUL
  BY <1>2, <1>4
<1>6. \A i \in 0 .. n - 1 : Sub!Character(str + i) # Sub!NUL
  <2> SUFFICES ASSUME NEW i \in 0 .. n - 1, Sub!Character(str + i) = Sub!NUL
               PROVE  FALSE
    OBVIOUS
  <2>1. i \in 0 .. Len(memory)
    BY <1>1, <1>5
  <2>2. i \in T
    BY <2>1
  <2> HIDE DEF T, n
  <2> QED
    BY <1>4, <1>5, <2>2
<1>7. CString(str) = [begin_ |-> str, length_ |-> n]
  BY DEF CString
<1> HIDE DEF T, n
<1>8. [begin_ |-> str, length_ |-> n] \in SubStrings
  BY <1>1, <1>5 DEF SubStrings, Sub!Null
<1> QED
  BY <1>5, <1>6, <1>7, <1>8

\* The C string is a proper beginning of the substring.
Begins(str, s) == CString(str).length_ < s.length_ /\ Common(s.begin_, str, CString(str).length_)

LEMMA CompareCStringIs ==
  ASSUME memory \in Memories, NEW s \in SubStrings, NEW str \in 0 .. Len(memory) - 1
  PROVE  Sub!CompareCString(s, str) = IF Begins(str, s) THEN -1 ELSE Sub!compare(s, CString(str))
<1> DEFINE a == s.begin_
<1> DEFINE m == s.length_
<1> DEFINE t == CString(str)
<1> DEFINE n == t.length_
<1> DEFINE T == {i \in 0 .. m - 1 : \/ Sub!Character(str + i) = Sub!NUL
                                    \/ Sub!Character(str + i) # Sub!Character(a + i)}
<1>1. /\ t \in SubStrings /\ t.begin_ = str
      /\ Sub!Character(str + n) = Sub!NUL
      /\ \A i \in 0 .. n - 1 : Sub!Character(str + i) # Sub!NUL
  BY CStringIs
<1>2. a \in Int /\ m \in Nat /\ n \in Nat /\ str \in Int
  BY <1>1, SubConstants DEF SubStrings
<1>3. Sub!CompareCString(s, str)
        = IF T = {} THEN IF Sub!Character(str + m) = Sub!NUL THEN 0 ELSE -1
          ELSE IF \/ Sub!Character(str + Sub!Min(T)) = Sub!NUL
                  \/ Sub!Character(a + Sub!Min(T)) < Sub!Character(str + Sub!Min(T))
               THEN -1 ELSE 1
  BY DEF Sub!CompareCString
<1>4. /\ SameText(s, t) => Sub!compare(s, t) = 0
      /\ BeforeText(s, t) => Sub!compare(s, t) = -1
      /\ BeforeText(t, s) => Sub!compare(s, t) = 1
  BY <1>1, CompareIs
<1>5. Begins(str, s) <=> n < m /\ Common(a, str, n)
  BY DEF Begins
<1>6. \A i \in Int : Sub!Character(a + i) \in Nat /\ Sub!Character(str + i) \in Nat
  <2> HIDE DEF a
  <2>1. \A i \in Int : a + i \in Int /\ str + i \in Int
    BY <1>2
  <2> QED
    BY <2>1, CharacterIsNat
<1>7. ASSUME NEW k \in 0 .. m - 1, k <= n, Common(a, str, k),
             \/ Sub!Character(str + k) = Sub!NUL
             \/ Sub!Character(str + k) # Sub!Character(a + k)
      PROVE  T # {} /\ Sub!Min(T) = k
  <2>1. k \in T
    BY <1>7
  <2>2. \A i \in T : k <= i
    <3> SUFFICES ASSUME NEW i \in T, i < k PROVE FALSE
      BY <1>2
    <3>1. i \in 0 .. k - 1 /\ i \in 0 .. n - 1
      BY <1>2, <1>7
    <3> QED
      BY <1>1, <1>7, <3>1 DEF Common
  <2>3. T \in SUBSET Int
    OBVIOUS
  <2> HIDE DEF T
  <2> QED
    BY <2>1, <2>2, <2>3, SubMinIs
<1>8. CASE m <= n /\ Common(a, str, m)
  <2>1. T = {}
    <3>1. \A i \in 0 .. m - 1 : i \in 0 .. n - 1
      BY <1>2, <1>8
    <3> QED
      BY <1>1, <1>8, <3>1 DEF Common
  <2>2. ~Begins(str, s)
    BY <1>2, <1>5, <1>8
  <2>3. CASE m = n
    <3>1. SameText(s, t)
      BY <1>1, <1>8, <2>3 DEF SameText
    <3> QED
      BY <1>1, <1>3, <1>4, <2>1, <2>2, <2>3, <3>1
  <2>4. CASE m < n
    <3>1. m \in 0 .. m /\ ~(m < m)
      BY <1>2
    <3>2. BeforeText(s, t)
      BY <1>1, <1>8, <2>4, <3>1 DEF BeforeText
    <3>3. Sub!Character(str + m) # Sub!NUL
      BY <1>1, <1>2, <2>4
    <3> QED
      BY <1>3, <1>4, <2>1, <2>2, <3>2, <3>3
  <2> QED
    BY <1>2, <1>8, <2>3, <2>4
<1>9. CASE n < m /\ Common(a, str, n)
  <2>1. T # {} /\ Sub!Min(T) = n
    BY <1>1, <1>2, <1>7, <1>9
  <2> HIDE DEF T
  <2> QED
    BY <1>1, <1>3, <1>5, <1>9, <2>1
<1>10. CASE ~Common(a, str, IF m <= n THEN m ELSE n)
  <2> DEFINE l == IF m <= n THEN m ELSE n
  <2>1. l \in Nat /\ l <= m /\ l <= n
    BY <1>2
  <2>2. PICK k \in 0 .. l - 1 : Common(a, str, k) /\ Sub!Character(a + k) # Sub!Character(str + k)
    <3> HIDE DEF a
    <3> QED
      BY <1>2, <1>10, <2>1, FirstDifference
  <2>3. k \in 0 .. m - 1 /\ k \in 0 .. n - 1 /\ k \in 0 .. m /\ k \in 0 .. n /\ k < n /\ k < m
        /\ k <= n /\ k \in Int
    BY <1>2, <2>1
  <2>4. T # {} /\ Sub!Min(T) = k
    BY <1>7, <2>2, <2>3
  <2>5. ~Begins(str, s)
    <3>1. CASE n < m
      BY <1>5, <2>2, <2>3 DEF Common
    <3> QED
      BY <1>5, <3>1
  <2>6. Sub!CompareCString(s, str) = IF Sub!Character(a + k) < Sub!Character(str + k) THEN -1 ELSE 1
    <3> HIDE DEF T
    <3> QED
      BY <1>1, <1>3, <2>3, <2>4
  <2>7. Sub!Character(a + k) \in Nat /\ Sub!Character(str + k) \in Nat
    BY <1>6, <2>3
  <2>8. CASE Sub!Character(a + k) < Sub!Character(str + k)
    <3>1. BeforeText(s, t)
      BY <1>1, <2>2, <2>3, <2>8 DEF BeforeText
    <3> QED
      BY <1>4, <2>5, <2>6, <2>8, <3>1
  <2>9. CASE Sub!Character(str + k) < Sub!Character(a + k)
    <3>1. BeforeText(t, s)
      BY <1>1, <2>2, <2>3, <2>9 DEF BeforeText, Common
    <3>2. ~(Sub!Character(a + k) < Sub!Character(str + k))
      BY <2>7, <2>9
    <3> QED
      BY <1>4, <2>5, <2>6, <3>1, <3>2
  <2> QED
    BY <2>2, <2>7, <2>8, <2>9
<1> QED
  BY <1>2, <1>8, <1>9, <1>10

LEMMA EqualCStringIs ==
  ASSUME memory \in Memories, NEW s \in SubStrings, NEW str \in 0 .. Len(memory) - 1
  PROVE  Sub!EqualCString(s, str) = SameText(s, CString(str))
<1> DEFINE t == CString(str)
<1>1. /\ t \in SubStrings /\ t.begin_ = str
      /\ Sub!Character(str + t.length_) = Sub!NUL
      /\ \A i \in 0 .. t.length_ - 1 : Sub!Character(str + i) # Sub!NUL
  BY CStringIs
<1> HIDE DEF t
<1>2. s.length_ \in Nat /\ t.length_ \in Nat
  BY <1>1 DEF SubStrings
<1>3. Sub!EqualCString(s, str) => s.length_ = t.length_
  <2> SUFFICES ASSUME Sub!EqualCString(s, str) PROVE s.length_ = t.length_
    OBVIOUS
  <2>1. ~(t.length_ < s.length_)
    BY <1>1, <1>2 DEF Sub!EqualCString
  <2>2. ~(s.length_ < t.length_)
    BY <1>1, <1>2 DEF Sub!EqualCString
  <2> QED
    BY <1>2, <2>1, <2>2
<1>4. s.length_ = t.length_ =>
        (Sub!EqualCString(s, str) <=> Common(s.begin_, str, s.length_))
  BY <1>1 DEF Sub!EqualCString, Common
<1>5. Sub!EqualCString(s, str) \in BOOLEAN
  BY DEF Sub!EqualCString
<1>6. SameText(s, t) <=> s.length_ = t.length_ /\ Common(s.begin_, str, s.length_)
  BY <1>1 DEF SameText
<1>7. SameText(s, t) \in BOOLEAN
  BY DEF SameText
<1> QED
  BY <1>3, <1>4, <1>5, <1>6, <1>7 DEF t

LEMMA CStringsAgree == ASSUME SubInv PROVE Sub!CStringAgrees
<1>1. memory \in Memories /\ self \in SubStrings
  BY DEF SubInv
<1> SUFFICES ASSUME NEW str \in 0 .. Len(memory) - 1
             PROVE  LET s == CString(str)
                        beginning == s.length_ < self.length_
                                     /\ Sub!equal(Sub!substr(self, 0, s.length_), s)
                    IN /\ Sub!EqualCString(self, str) = Sub!equal(self, s)
                       /\ (Sub!CompareCString(self, str) = 0) = Sub!EqualCString(self, str)
                       /\ ~beginning => Sub!CompareCString(self, str) = Sub!compare(self, s)
                       /\ ~(beginning \/ Sub!EqualTo(s, self)) =>
                            Sub!CStringLessThan(str, self) = Sub!LessThan(s, self)
  BY DEF Sub!CStringAgrees, CString, Sub!BasicSubString
<1> DEFINE s == CString(str)
<1> DEFINE beginning == s.length_ < self.length_ /\ Sub!equal(Sub!substr(self, 0, s.length_), s)
<1>2. s \in SubStrings /\ s.begin_ = str
  BY <1>1, CStringIs
<1>3. s.length_ \in Nat /\ self.length_ \in Nat /\ self.begin_ \in Int
  BY <1>1, <1>2 DEF SubStrings
<1>4. beginning <=> Begins(str, self)
  <2>1. ASSUME s.length_ < self.length_
        PROVE  Sub!equal(Sub!substr(self, 0, s.length_), s)
                 <=> Common(self.begin_, str, s.length_)
    <3> DEFINE p == Sub!substr(self, 0, s.length_)
    <3>1. p \in SubStrings /\ p.length_ = s.length_ /\ p.begin_ = self.begin_ + 0
      BY <1>1, <1>3, <2>1, PieceOf
    <3> HIDE DEF p
    <3>2. p.begin_ = self.begin_
      BY <1>3, <3>1
    <3>3. Sub!equal(p, s) = SameText(p, s)
      BY <1>1, <1>2, <3>1, EqualIs
    <3>4. SameText(p, s) <=> Common(self.begin_, str, s.length_)
      BY <1>2, <3>1, <3>2 DEF SameText
    <3> QED
      BY <3>3, <3>4 DEF p
  <2> QED
    BY <2>1 DEF Begins
<1>5. Sub!equal(self, s) = SameText(self, s) /\ Sub!equal(s, self) = SameText(s, self)
  BY <1>1, <1>2, EqualIs
<1>6. Sub!EqualCString(self, str) = SameText(self, s)
  BY <1>1, EqualCStringIs
<1>7. Sub!CompareCString(self, str) = IF Begins(str, self) THEN -1 ELSE Sub!compare(self, s)
  BY <1>1, CompareCStringIs
<1>8. Begins(str, self) => ~SameText(self, s)
  BY <1>3 DEF Begins, SameText
<1>9. /\ SameText(self, s) => Sub!compare(self, s) = 0
      /\ BeforeText(self, s) => Sub!compare(self, s) = -1
      /\ BeforeText(s, self) => Sub!compare(self, s) = 1
      /\ SameText(self, s) \/ BeforeText(self, s) \/ BeforeText(s, self)
  BY <1>1, <1>2, CompareIs
<1>10. /\ SameText(s, self) => Sub!compare(s, self) = 0
       /\ BeforeText(s, self) => Sub!compare(s, self) = -1
       /\ BeforeText(self, s) => Sub!compare(s, self) = 1
       /\ SameText(s, self) \/ BeforeText(s, self) \/ BeforeText(self, s)
  BY <1>1, <1>2, CompareIs
<1>11. SameText(self, s) <=> SameText(s, self)
  BY DEF SameText, Common
<1>12. SameText(self, s) \in BOOLEAN /\ SameText(s, self) \in BOOLEAN
  BY DEF SameText
<1> HIDE DEF s, beginning
<1>13. (Sub!CompareCString(self, str) = 0) = Sub!EqualCString(self, str)
  BY <1>6, <1>7, <1>8, <1>9, <1>12
<1>14. ~(beginning \/ Sub!EqualTo(s, self)) =>
         Sub!CStringLessThan(str, self) = Sub!LessThan(s, self)
  <2> SUFFICES ASSUME ~beginning, ~SameText(s, self)
               PROVE  (~(Sub!compare(self, s) < 0)) = (Sub!compare(s, self) < 0)
    BY <1>4, <1>5, <1>7
       DEF Sub!CStringLessThan, Sub!LessThanCString, Sub!LessThan, Sub!EqualTo
  <2> QED
    BY <1>9, <1>10, <1>11, <1>12
<1> QED
  BY <1>4, <1>5, <1>6, <1>7, <1>11, <1>13, <1>14 DEF s, beginning

\* Where the text of t occurs in s.
Occurrences(s, t) == {i \in 0 .. s.length_ - t.length_ : Common(s.begin_ + i, t.begin_, t.length_)}

Least(S) == IF S = {} THEN Sub!NPOS ELSE Sub!Min(S)

Greatest(S) == IF S = {} THEN Sub!NPOS ELSE Sub!Max(S)

LEMMA TraitsEqual ==
  ASSUME memory \in Memories, NEW a \in Int, NEW b \in Int, NEW n \in Nat
  PROVE  Sub!TraitsCompare(a, b, n) = 0 <=> Common(a, b, n)
<1>1. ASSUME ~Common(a, b, n) PROVE Sub!TraitsCompare(a, b, n) # 0
  <2>1. PICK k \in 0 .. n - 1 : Common(a, b, k) /\ Sub!Character(a + k) # Sub!Character(b + k)
    BY <1>1, FirstDifference
  <2>2. Sub!TraitsCompare(a, b, n) \in {-1, 1}
    BY <2>1, TraitsCompareIs
  <2> QED
    BY <2>2
<1> QED
  BY <1>1, TraitsCompareIs

LEMMA FindIs ==
  ASSUME memory \in Memories, NEW s \in SubStrings, NEW t \in SubStrings, t.length_ > 0,
         NEW pos \in 0 .. s.length_
  PROVE  Sub!find(s, t, pos) = Least({i \in Occurrences(s, t) : i >= pos})
<1> DEFINE a == s.begin_
<1> DEFINE b == t.begin_
<1> DEFINE m == s.length_
<1> DEFINE n == t.length_
<1> DEFINE S == {i \in Occurrences(s, t) : i >= pos}
<1> DEFINE P == {p \in a + pos .. (a + m) - n : Sub!TraitsCompare(p, b, n) = 0}
<1>1. a \in Int /\ b \in Int /\ m \in Nat /\ n \in Nat /\ n > 0
  BY DEF SubStrings
<1>2. Sub!find(s, t, pos) = IF n > m - pos THEN Sub!NPOS
                            ELSE IF Sub!Min({a + m} \cup P) # a + m
                                 THEN Sub!Min({a + m} \cup P) - a ELSE Sub!NPOS
  <2>1. Sub!get_available_length_(s, pos, s.length_) = m - pos
    BY <1>1, AvailableIs
  <2>2. Sub!Search(a + pos, a + m, t) = Sub!Min({a + m} \cup P)
    BY DEF Sub!Search
  <2>3. t.length_ # 0
    BY <1>1
  <2> HIDE DEF P
  <2> QED
    BY <2>1, <2>2, <2>3 DEF Sub!find
<1>3. S = {i \in pos .. m - n : Common(a + i, b, n)}
  BY <1>1 DEF Occurrences
<1>4. \A p \in Int : p \in P <=> p - a \in S
  <2> SUFFICES ASSUME NEW p \in Int PROVE p \in P <=> p - a \in S
    OBVIOUS
  <2>1. Sub!TraitsCompare(p, b, n) = 0 <=> Common(p, b, n)
    BY <1>1, TraitsEqual
  <2>2. a + (p - a) = p /\ (p \in a + pos .. (a + m) - n <=> p - a \in pos .. m - n)
    BY <1>1
  <2> HIDE DEF a, b, m, n, S
  <2> QED
    BY <1>3, <2>1, <2>2
<1>5. P \in SUBSET Int /\ S \in SUBSET Nat /\ \A i \in S : i >= pos /\ i <= m - n
  BY <1>1, <1>3
<1> HIDE DEF a, b, m, n, S, P
<1>6. CASE n > m - pos
  <2>1. S = {}
    BY <1>1, <1>5, <1>6
  <2> QED
    BY <1>2, <1>6, <2>1 DEF Least, S
<1>7. CASE n <= m - pos /\ S = {}
  <2>1. P = {}
    <3>1. \A p \in P : p - a \in S
      BY <1>4, <1>5
    <3> QED
      BY <1>7, <3>1
  <2>2. Sub!Min({a + m} \cup P) = a + m
    <3>1. a + m \in {a + m} \cup P /\ {a + m} \cup P \in SUBSET Int
      BY <1>1, <1>5
    <3>2. \A p \in {a + m} \cup P : a + m <= p
      BY <1>1, <2>1
    <3> QED
      BY <3>1, <3>2, SubMinIs
  <2>3. Sub!find(s, t, pos) = Sub!NPOS
    BY <1>1, <1>2, <1>7, <2>2
  <2> QED
    BY <1>7, <2>3 DEF Least, S
<1>8. CASE n <= m - pos /\ S # {}
  <2>1. Sub!Min(S) \in S /\ \A i \in S : Sub!Min(S) <= i
    BY <1>5, <1>8, SubMinOfSome
  <2> DEFINE k == Sub!Min(S)
  <2>2. k \in Int /\ k <= m - n /\ a + k \in Int /\ (a + k) - a = k
    <3>1. k \in S
      BY <2>1
    <3> HIDE DEF k
    <3>2. k \in Int /\ k <= m - n
      BY <1>5, <3>1
    <3> QED
      BY <1>1, <3>2
  <2>3. a + k \in P
    BY <1>4, <2>1, <2>2
  <2>4. \A p \in P : a + k <= p
    <3> SUFFICES ASSUME NEW p \in P PROVE a + k <= p
      OBVIOUS
    <3>1. p \in Int /\ p - a \in S
      BY <1>4, <1>5
    <3>2. k <= p - a
      BY <2>1, <3>1
    <3> HIDE DEF k
    <3> QED
      BY <1>1, <2>2, <3>1, <3>2
  <2>5. Sub!Min({a + m} \cup P) = a + k /\ a + k # a + m
    <3> HIDE DEF k
    <3>1. a + k \in {a + m} \cup P /\ {a + m} \cup P \in SUBSET Int
      BY <1>1, <1>5, <2>3
    <3>2. a + k < a + m
      BY <1>1, <2>2
    <3>3. \A p \in {a + m} \cup P : a + k <= p
      BY <2>4, <3>2, <1>1, <2>2
    <3> QED
      BY <3>1, <3>2, <3>3, SubMinIs, <1>1, <2>2
  <2>6. Sub!find(s, t, pos) = k
    <3> HIDE DEF k
    <3> QED
      BY <1>1, <1>2, <1>8, <2>2, <2>5
  <2> QED
    BY <1>8, <2>6 DEF Least, S
<1> QED
  BY <1>1, <1>6, <1>7, <1>8

LEMMA RfindIs ==
  ASSUME memory \in Memories, NEW s \in SubStrings, NEW t \in SubStrings, t.length_ > 0,
         NEW pos \in Nat
  PROVE  Sub!rfind(s, t, pos) = Greatest({i \in Occurrences(s, t) : i <= pos})
<1> DEFINE a == s.begin_
<1> DEFINE b == t.begin_
<1> DEFINE m == s.length_
<1> DEFINE n == t.length_
<1> DEFINE from == IF pos <= m THEN pos ELSE m
<1> DEFINE S == {i \in Occurrences(s, t) : i <= pos}
<1>1. a \in Int /\ b \in Int /\ m \in Nat /\ n \in Nat /\ n > 0 /\ from \in Nat
  BY DEF SubStrings
<1>2. Sub!Min({pos, m}) = from
  BY <1>1, SubMinOfTwo
<1> DEFINE T == {i \in 0 .. Sub!Min({from, m - n}) : Sub!TraitsCompare(a + i, b, n) = 0}
<1>3. Sub!rfind(s, t, pos) = IF n > m THEN Sub!NPOS
                             ELSE IF T = {} THEN Sub!NPOS ELSE Sub!Max(T)
  <2>1. n # 0
    BY <1>1
  <2> HIDE DEF from
  <2> QED
    BY <1>2, <2>1 DEF Sub!rfind
<1>4. S = {i \in 0 .. m - n : i <= pos /\ Common(a + i, b, n)}
  BY <1>1 DEF Occurrences
<1>5. CASE n > m
  <2>1. S = {}
    BY <1>1, <1>4, <1>5
  <2> QED
    BY <1>3, <1>5, <2>1 DEF Greatest
<1>6. CASE n <= m
  <2>1. Sub!Min({from, m - n}) = IF pos <= m - n THEN pos ELSE m - n
    <3>1. Sub!Min({from, m - n}) = IF from <= m - n THEN from ELSE m - n
      BY <1>1, <1>6, SubMinOfTwo
    <3> QED
      BY <1>1, <1>6, <3>1
  <2>2. \A i \in 0 .. m - n : Sub!TraitsCompare(a + i, b, n) = 0 <=> Common(a + i, b, n)
    <3> HIDE DEF a, b, n
    <3>1. \A i \in 0 .. m - n : a + i \in Int
      BY <1>1
    <3> QED
      BY <1>1, <3>1, TraitsEqual
  <2>3. T = S
    <3> HIDE DEF a, b, m, n, from, S
    <3>1. \A i : i \in 0 .. (IF pos <= m - n THEN pos ELSE m - n)
                   <=> i \in 0 .. m - n /\ i <= pos
      BY <1>1, <1>6
    <3> QED
      BY <1>4, <2>1, <2>2, <3>1
  <2> HIDE DEF S, T
  <2>4. Sub!rfind(s, t, pos) = IF S = {} THEN Sub!NPOS ELSE Sub!Max(S)
    BY <1>1, <1>3, <1>6, <2>3
  <2> QED
    BY <2>4 DEF Greatest, S
<1> QED
  BY <1>1, <1>5, <1>6

LEMMA SingleOccurrence ==
  ASSUME NEW s \in SubStrings, NEW t \in SubStrings, t.length_ = 1, NEW i \in Int
  PROVE  i \in Occurrences(s, t)
           <=> i \in 0 .. s.length_ - 1
               /\ Sub!Character(s.begin_ + i) = Sub!Character(t.begin_)
<1>1. s.begin_ \in Int /\ t.begin_ \in Int /\ s.length_ \in Nat
  BY DEF SubStrings
<1>2. Common(s.begin_ + i, t.begin_, 1)
        <=> Sub!Character(s.begin_ + i) = Sub!Character(t.begin_)
  <2>1. (s.begin_ + i) + 0 = s.begin_ + i /\ t.begin_ + 0 = t.begin_
    BY <1>1
  <2>2. \A k : k \in 0 .. 1 - 1 <=> k = 0
    OBVIOUS
  <2> QED
    BY <2>1, <2>2 DEF Common
<1> QED
  BY <1>2 DEF Occurrences

LEMMA FindsAgree == ASSUME SubInv PROVE Sub!FindersAgree
<1> DEFINE n == other.length_
<1> DEFINE m == self.length_
<1> DEFINE Occ == {i \in 0 .. m - n : Sub!equal(Sub!substr(self, i, n), other)}
<1>1. memory \in Memories /\ self \in SubStrings /\ other \in SubStrings
  BY DEF SubInv
<1>2. m \in Nat /\ n \in Nat /\ self.begin_ \in Int /\ other.begin_ \in Int
  BY <1>1 DEF SubStrings
<1>3. Sub!NPOS \in Nat /\ m <= Sub!NPOS
  <2>1. SIZES \in Nat /\ m < SIZES
    BY <1>1, SubConstants DEF SubStrings
  <2> QED
    BY <1>2, <2>1 DEF Sub!NPOS
<1>4. Occ = Occurrences(self, other)
  <2>1. ASSUME NEW i \in 0 .. m - n
        PROVE  Sub!equal(Sub!substr(self, i, n), other)
                 <=> Common(self.begin_ + i, other.begin_, n)
    <3> DEFINE p == Sub!substr(self, i, n)
    <3>1. i \in 0 .. self.length_ /\ n <= self.length_ - i
      BY <1>2
    <3>2. p \in SubStrings /\ p.begin_ = self.begin_ + i /\ p.length_ = n
      BY <1>1, <1>2, <3>1, PieceOf
    <3> HIDE DEF p
    <3>3. Sub!equal(p, other) = SameText(p, other)
      BY <1>1, <3>2, EqualIs
    <3> QED
      BY <3>2, <3>3 DEF SameText, p
  <2> QED
    BY <2>1 DEF Occurrences
<1> SUFFICES ASSUME n > 0, NEW pos \in 0 .. m
             PROVE  /\ Sub!find(self, other, pos) = Least({i \in Occ : i >= pos})
                    /\ Sub!rfind(self, other, pos) = Greatest({i \in Occ : i <= pos})
                    /\ Sub!rfind(self, other, Sub!NPOS) = Greatest(Occ)
                    /\ n = 1 =>
                         /\ Sub!FindCharacter(self, Sub!at(other, 0), pos) = Sub!find(self, other, pos)
                         /\ Sub!RfindCharacter(self, Sub!at(other, 0), pos)
                              = Sub!rfind(self, other, pos)
  BY DEF Sub!FindersAgree, Least, Greatest
<1> HIDE DEF Occ
<1>5. Sub!find(self, other, pos) = Least({i \in Occ : i >= pos})
  BY <1>1, <1>4, FindIs
<1>6. Sub!rfind(self, other, pos) = Greatest({i \in Occ : i <= pos})
  BY <1>1, <1>2, <1>4, RfindIs
<1>7. Sub!rfind(self, other, Sub!NPOS) = Greatest(Occ)
  <2>1. Sub!rfind(self, other, Sub!NPOS) = Greatest({i \in Occ : i <= Sub!NPOS})
    BY <1>1, <1>3, <1>4, RfindIs
  <2>2. \A i \in Occ : i <= Sub!NPOS
    BY <1>2, <1>3, <1>4 DEF Occurrences
  <2>3. {i \in Occ : i <= Sub!NPOS} = Occ
    BY <2>2
  <2> QED
    BY <2>1, <2>3
<1>8. ASSUME n = 1
      PROVE  /\ Sub!FindCharacter(self, Sub!at(other, 0), pos) = Sub!find(self, other, pos)
             /\ Sub!RfindCharacter(self, Sub!at(other, 0), pos) = Sub!rfind(self, other, pos)
  <2> DEFINE c == Sub!Character(other.begin_)
  <2>1. Sub!at(other, 0) = c
    BY <1>2 DEF Sub!at, Sub!begin_plus_position_
  <2>2. \A i \in Int : i \in Occ <=> i \in 0 .. m - 1 /\ Sub!Character(self.begin_ + i) = c
    BY <1>1, <1>4, <1>8, SingleOccurrence
  <2>3. Occ \in SUBSET Int
    BY <1>4 DEF Occurrences
  <2> HIDE DEF c
  <2>4. {i \in pos .. m - 1 : Sub!Character(self.begin_ + i) = c} = {i \in Occ : i >= pos}
    <3>1. \A i \in Int : i \in pos .. m - 1 <=> i \in 0 .. m - 1 /\ i >= pos
      BY <1>2
    <3>2. \A i \in pos .. m - 1 : i \in Int
      BY <1>2
    <3> HIDE DEF m
    <3> QED
      BY <2>2, <2>3, <3>1, <3>2
  <2>5. Sub!FindCharacter(self, Sub!at(other, 0), pos) = Least({i \in Occ : i >= pos})
    BY <2>1, <2>4 DEF Sub!FindCharacter, Least
  <2>6. Sub!Min({m - 1, pos}) = IF m - 1 <= pos THEN m - 1 ELSE pos
    BY <1>2, SubMinOfTwo
  <2>7. {i \in 0 .. Sub!Min({m - 1, pos}) : Sub!Character(self.begin_ + i) = c}
          = {i \in Occ : i <= pos}
    <3>1. \A i \in Int : i \in 0 .. (IF m - 1 <= pos THEN m - 1 ELSE pos)
                           <=> i \in 0 .. m - 1 /\ i <= pos
      BY <1>2
    <3>2. \A i \in 0 .. (IF m - 1 <= pos THEN m - 1 ELSE pos) : i \in Int
      BY <1>2
    <3> HIDE DEF m
    <3> QED
      BY <2>2, <2>3, <2>6, <3>1, <3>2
  <2>8. m = 0 => {i \in Occ : i <= pos} = {}
    <3>1. m = 0 => \A i \in Int : ~(i \in 0 .. m - 1)
      OBVIOUS
    <3> HIDE DEF m
    <3> QED
      BY <2>2, <2>3, <3>1
  <2>9. Sub!RfindCharacter(self, Sub!at(other, 0), pos) = Greatest({i \in Occ : i <= pos})
    BY <2>1, <2>7, <2>8 DEF Sub!RfindCharacter, Greatest
  <2> QED
    BY <1>5, <1>6, <2>5, <2>9
<1> QED
  BY <1>5, <1>6, <1>7, <1>8

\* For any memory that ends with a NUL and any 2^64 for which it is not too large: a
\* substring (SubString.hpp) stays within the memory it was taken from; compare() of
\* substrings is the order of dictionaries, with which the comparisons with a C string
\* agree unless that is a proper beginning of the substring (< on its right unless
\* they are equal, too); find(), from a position within the length, and rfind() give
\* the first and the last occurrence.
THEOREM SubStringsAreRight == PartsSpec => []SubStringRight
<1>1. PartsInit => SubInv
  BY SubInvInit DEF PartsInit
<1>2. SubInv /\ [PartsNext]_<<part, aloneVars, sharedVars, pollerVars>> => SubInv'
  <2>1. [PartsNext]_<<part, aloneVars, sharedVars, pollerVars>> =>
          Sub!SubStringNext \/ UNCHANGED subVars
    BY DEF PartsNext, AloneNext, aloneVars
  <2>2. SubInv /\ UNCHANGED subVars => SubInv'
    BY DEF subVars, SubInv, SubStrings
  <2> QED
    BY <2>1, <2>2, SubInvStep
<1>3. SubInv => SubStringRight
  BY StaysInMemory, ComparesInOrder, CStringsAgree, FindsAgree DEF SubStringRight
<1> QED
  BY <1>1, <1>2, <1>3, PTL DEF PartsSpec

-----------------------------------------------------------------------------
(* The memory streams.                                                     *)

Cells == Chars \cup {Stream!NUL, Stream!Garbage}

StreamTypeOK ==
  /\ kind \in {"heap", "fixed"} /\ bad \in BOOLEAN /\ open \in BOOLEAN
  /\ epptr \in Nat /\ pptr \in Nat /\ max_offset_ \in Nat /\ position \in Nat
  /\ cells \in Seq(Cells) /\ file \in Seq(Chars)

\* The memory: all of it is room for characters, but for the last cell of a fixed buffer.
RoomInv ==
  /\ kind = "heap" => Len(cells) = epptr
  /\ kind = "fixed" => epptr = SIZE - 1 /\ Len(cells) = SIZE /\ cells[SIZE] = Stream!NUL
  /\ position <= Len(file) /\ Len(file) <= epptr /\ position = pptr

\* What was filled is the greatest position that was left by a seek, or the present one.
FilledInv ==
  open => /\ Len(file) = IF pptr >= max_offset_ THEN pptr ELSE max_offset_
          /\ \A i \in 1 .. Len(file) : cells[i] = file[i]
          /\ gptr = 0 /\ got = <<>>

ClosedInv ==
  ~open => /\ gptr \in 0 .. Len(file) /\ got \in Seq(Chars) /\ Len(got) = gptr
           /\ \A i \in 1 .. gptr : got[i] = file[i]
           /\ kind = "fixed" =>
                /\ cells[position + 1] = Stream!NUL \/ Stream!SeekRefused
                /\ \A i \in 1 .. position : cells[i] = file[i]

StreamInv == StreamTypeOK /\ RoomInv /\ FilledInv /\ ClosedInv

LEMMA StreamConstants ==
  /\ 0 \notin Chars /\ SIZE \in Nat \ {0} /\ TextLimit \in Nat /\ FirstSize \in Nat
  /\ \E k \in 0 .. 10 : FirstSize * 2 ^ k > TextLimit
BY PartsAssumption

LEMMA MaxOfTwo ==
  ASSUME NEW a \in Nat, NEW b \in Nat
  PROVE  Stream!Max({a, b}) = IF a >= b THEN a ELSE b
BY DEF Stream!Max

\* Every growth within the bound of the model is one: the room gets larger.
LEMMA RoomGrows ==
  ASSUME NEW size \in Nat, size < TextLimit
  PROVE  Stream!NewSize(size) \in Nat /\ Stream!NewSize(size) > size
<1> DEFINE S == {2 ^ k : k \in {k \in 0 .. 10 : FirstSize * 2 ^ k > size}}
<1>1. \A x \in S : x \in Int /\ FirstSize * x > size
  BY StreamConstants
<1>2. S # {}
  <2>1. PICK k \in 0 .. 10 : FirstSize * 2 ^ k > TextLimit
    BY StreamConstants
  <2>2. 2 ^ k \in Int /\ FirstSize * 2 ^ k \in Int
    BY StreamConstants
  <2> QED
    BY <2>1, <2>2, StreamConstants
<1>3. Stream!NewSize(size) = FirstSize * Stream!Min(S)
  BY DEF Stream!NewSize
<1> HIDE DEF S
<1>4. S \subseteq Nat
  <2> SUFFICES ASSUME NEW x \in S, x \notin Nat PROVE FALSE
    OBVIOUS
  <2>1. x \in Int /\ x < 0 /\ FirstSize * x > size
    BY <1>1
  <2>2. FirstSize * x <= 0
    BY <2>1, StreamConstants
  <2> QED
    BY <2>1, <2>2, StreamConstants
<1>5. Stream!Min(S) \in S
  <2>1. \E m \in S : \A n \in S : m <= n
    BY <1>2, <1>4, LeastNatural
  <2> QED
    BY <2>1 DEF Stream!Min
<1>6. FirstSize * Stream!Min(S) \in Nat
  <2>1. FirstSize \in Nat
    BY StreamConstants
  <2>2. PICK m \in Nat : m = Stream!Min(S)
    BY <1>4, <1>5
  <2>3. FirstSize * m \in Nat
    BY <2>1, <2>2
  <2> QED
    BY <2>2, <2>3
<1> QED
  BY <1>1, <1>3, <1>5, <1>6

LEMMA StreamInvInit == Stream!MemoryStreamInit => StreamInv
<1> SUFFICES ASSUME Stream!MemoryStreamInit PROVE StreamInv
  OBVIOUS
<1>1. /\ pptr = 0 /\ max_offset_ = 0 /\ bad = FALSE /\ open = TRUE
      /\ file = <<>> /\ position = 0 /\ gptr = 0 /\ got = <<>>
  BY DEF Stream!MemoryStreamInit
<1>2. file \in Seq(Chars) /\ Len(file) = 0
  BY <1>1
<1>3. /\ kind \in {"heap", "fixed"} /\ cells \in Seq(Cells) /\ epptr \in Nat
      /\ kind = "heap" => Len(cells) = epptr
      /\ kind = "fixed" => epptr = SIZE - 1 /\ Len(cells) = SIZE /\ cells[SIZE] = Stream!NUL
  <2>1. CASE Stream!HeapInit
    <3>1. PICK size \in {0, 1} : epptr = size /\ cells = [i \in 1 .. size |-> Stream!Garbage]
      BY <2>1 DEF Stream!HeapInit, Stream!Fresh
    <3>2. cells \in Seq(Cells) /\ Len(cells) = epptr /\ epptr \in Nat
      BY <3>1 DEF Cells
    <3> QED
      BY <2>1, <3>2 DEF Stream!HeapInit
  <2>2. CASE Stream!FixedInit
    <3>1. /\ kind = "fixed" /\ epptr = SIZE - 1
          /\ cells = [[i \in 1 .. SIZE |-> Stream!Garbage] EXCEPT ![SIZE] = Stream!NUL]
      BY <2>2 DEF Stream!FixedInit, Stream!Fresh
    <3>2. SIZE \in Nat /\ SIZE \in 1 .. SIZE /\ epptr \in Nat
      BY <3>1, StreamConstants
    <3>3. cells \in [1 .. SIZE -> Cells] /\ cells[SIZE] = Stream!NUL
      BY <3>1, <3>2 DEF Cells
    <3>4. cells \in Seq(Cells) /\ Len(cells) = SIZE
      BY <3>2, <3>3
    <3> QED
      BY <3>1, <3>2, <3>3, <3>4
  <2> QED
    BY <2>1, <2>2 DEF Stream!MemoryStreamInit
<1>4. StreamTypeOK
  BY <1>1, <1>2, <1>3 DEF StreamTypeOK
<1>5. RoomInv
  BY <1>1, <1>2, <1>3 DEF RoomInv
<1>6. FilledInv /\ ClosedInv
  BY <1>1, <1>2 DEF FilledInv, ClosedInv
<1> QED
  BY <1>4, <1>5, <1>6 DEF StreamInv

\* A character put at the position.
LEMMA FilePutIs ==
  ASSUME StreamTypeOK, position <= Len(file), NEW c \in Chars
  PROVE  /\ Stream!FilePut(c) \in Seq(Chars)
         /\ Len(Stream!FilePut(c)) = IF Len(file) >= position + 1 THEN Len(file) ELSE position + 1
         /\ \A i \in 1 .. Len(Stream!FilePut(c)) :
              Stream!FilePut(c)[i] = IF i = position + 1 THEN c ELSE file[i]
<1> DEFINE n == IF Len(file) >= position + 1 THEN Len(file) ELSE position + 1
<1>1. position \in Nat /\ Len(file) \in Nat /\ file \in Seq(Chars)
  BY DEF StreamTypeOK
<1>2. n \in Nat /\ Stream!Max({Len(file), position + 1}) = n
  BY <1>1, MaxOfTwo
<1>3. Stream!FilePut(c) = [i \in 1 .. n |-> IF i = position + 1 THEN c ELSE file[i]]
  BY <1>2 DEF Stream!FilePut
<1>4. \A i \in 1 .. n : i # position + 1 => i \in 1 .. Len(file)
  BY <1>1
<1> HIDE DEF n
<1>5. \A i \in 1 .. n : (IF i = position + 1 THEN c ELSE file[i]) \in Chars
  BY <1>1, <1>4
<1>6. Stream!FilePut(c) \in [1 .. n -> Chars]
  BY <1>3, <1>5
<1>7. Stream!FilePut(c) \in Seq(Chars) /\ Len(Stream!FilePut(c)) = n
  BY <1>2, <1>6
<1> QED
  BY <1>3, <1>7 DEF n

\* The character is in the file and in the memory, where nothing else changed.
LEMMA PutKeeps ==
  ASSUME StreamInv, NEW c \in Chars, file' = Stream!FilePut(c), pptr' = pptr + 1,
         position' = position + 1, open, ~bad, position < epptr',
         UNCHANGED <<kind, max_offset_, bad, open, gptr, got>>,
         cells' \in Seq(Cells), epptr' \in Nat, epptr' >= epptr,
         cells'[pptr + 1] = c,
         \A i \in 1 .. Len(file) : i # pptr + 1 => cells'[i] = cells[i],
         kind = "heap" => Len(cells') = epptr',
         kind = "fixed" => epptr' = epptr /\ Len(cells') = Len(cells) /\ cells'[SIZE] = cells[SIZE]
  PROVE  StreamInv'
<1>1. /\ StreamTypeOK /\ position = pptr /\ position <= Len(file) /\ Len(file) <= epptr
      /\ pptr \in Nat /\ max_offset_ \in Nat /\ epptr \in Nat /\ Len(file) \in Nat
  BY DEF StreamInv, RoomInv, StreamTypeOK
<1>2. /\ file' \in Seq(Chars)
      /\ Len(file') = IF Len(file) >= pptr + 1 THEN Len(file) ELSE pptr + 1
      /\ \A i \in 1 .. Len(file') : file'[i] = IF i = pptr + 1 THEN c ELSE file[i]
  BY <1>1, FilePutIs
<1>3. StreamTypeOK'
  BY <1>1, <1>2 DEF StreamTypeOK
<1>4. RoomInv'
  BY <1>1, <1>2 DEF StreamInv, RoomInv
<1>5. FilledInv'
  <2>1. /\ Len(file) = IF pptr >= max_offset_ THEN pptr ELSE max_offset_
        /\ \A i \in 1 .. Len(file) : cells[i] = file[i]
        /\ gptr = 0 /\ got = <<>>
    BY DEF StreamInv, FilledInv
  <2>2. Len(file') = IF pptr' >= max_offset_' THEN pptr' ELSE max_offset_'
    BY <1>1, <1>2, <2>1
  <2>3. \A i \in 1 .. Len(file') : cells'[i] = file'[i]
    <3>1. \A i \in 1 .. Len(file') : i # pptr + 1 => i \in 1 .. Len(file)
      BY <1>1, <1>2
    <3> QED
      BY <1>2, <2>1, <3>1
  <2> QED
    BY <2>1, <2>2, <2>3 DEF FilledInv
<1>6. ClosedInv'
  BY DEF ClosedInv
<1> QED
  BY <1>3, <1>4, <1>5, <1>6 DEF StreamInv

LEMMA StreamPutKeeps == ASSUME StreamInv, Stream!Put PROVE StreamInv'
<1>1. PICK c \in Chars : cells' = [cells EXCEPT ![pptr + 1] = c] /\ file' = Stream!FilePut(c)
  BY DEF Stream!Put
<1>2. /\ open /\ ~bad /\ pptr < epptr /\ pptr' = pptr + 1 /\ position' = position + 1
      /\ UNCHANGED <<kind, epptr, max_offset_, bad, open, gptr, got>>
  BY DEF Stream!Put
<1>3. /\ pptr \in Nat /\ epptr \in Nat /\ position = pptr /\ cells \in Seq(Cells) /\ Len(cells) \in Nat
      /\ Len(file) <= epptr /\ epptr <= Len(cells) /\ Len(file) \in Nat /\ c \in Cells
      /\ kind = "heap" => Len(cells) = epptr
      /\ kind = "fixed" => SIZE = epptr + 1
  BY StreamConstants DEF StreamInv, StreamTypeOK, RoomInv, Cells
<1>4. pptr + 1 \in 1 .. Len(cells) /\ cells \in [1 .. Len(cells) -> Cells]
  BY <1>2, <1>3
<1>5. cells' \in [1 .. Len(cells) -> Cells] /\ cells'[pptr + 1] = c
      /\ \A i \in 1 .. Len(cells) : i # pptr + 1 => cells'[i] = cells[i]
  BY <1>1, <1>3, <1>4
<1>6. cells' \in Seq(Cells) /\ Len(cells') = Len(cells)
  BY <1>3, <1>5
<1>7. kind = "fixed" => cells'[SIZE] = cells[SIZE]
  <2>1. kind = "fixed" => SIZE \in 1 .. Len(cells) /\ SIZE # pptr + 1
    BY <1>2, <1>3, StreamConstants DEF StreamInv, RoomInv
  <2> QED
    BY <1>5, <2>1
<1>8. \A i \in 1 .. Len(file) : i # pptr + 1 => cells'[i] = cells[i]
  BY <1>3, <1>5
<1>9. /\ position < epptr' /\ epptr' \in Nat /\ epptr' >= epptr
      /\ kind = "heap" => Len(cells') = epptr'
  BY <1>2, <1>3, <1>6
<1> QED
  <2>1. file' = Stream!FilePut(c) /\ pptr' = pptr + 1 /\ position' = position + 1 /\ open /\ ~bad
    BY <1>1, <1>2
  <2>2. UNCHANGED <<kind, max_offset_, bad, open, gptr, got>> /\ epptr' = epptr
    BY <1>2
  <2>3. cells'[pptr + 1] = c
    BY <1>5
  <2> QED
    BY <1>6, <1>7, <1>8, <1>9, <2>1, <2>2, <2>3, PutKeeps

LEMMA StreamOverflowKeeps == ASSUME StreamInv, Stream!overflow PROVE StreamInv'
<1> DEFINE size == Stream!NewSize(epptr)
<1>1. PICK c \in Chars :
        /\ cells' = [Stream!Extended(size) EXCEPT ![pptr + 1] = c]
        /\ file' = Stream!FilePut(c)
  BY DEF Stream!overflow
<1>2. /\ open /\ ~bad /\ pptr = epptr /\ kind = "heap" /\ position < TextLimit /\ epptr' = size
      /\ pptr' = pptr + 1 /\ position' = position + 1
      /\ UNCHANGED <<kind, max_offset_, bad, open, gptr, got>>
  BY DEF Stream!overflow
<1>3. /\ pptr \in Nat /\ epptr \in Nat /\ position = pptr /\ cells \in Seq(Cells)
      /\ Len(cells) = epptr /\ Len(file) <= epptr /\ Len(file) \in Nat /\ c \in Cells
  BY <1>2 DEF StreamInv, StreamTypeOK, RoomInv, Cells
<1>4. size \in Nat /\ size > epptr
  BY <1>2, <1>3, RoomGrows
<1>5. Stream!Extended(size) = [i \in 1 .. size |-> IF i <= epptr THEN cells[i] ELSE Stream!Garbage]
  BY DEF Stream!Extended
<1> HIDE DEF size
<1>6. \A i \in 1 .. size : i <= epptr => cells[i] \in Cells
  BY <1>3, <1>4
<1>7. Stream!Extended(size) \in [1 .. size -> Cells]
  BY <1>5, <1>6 DEF Cells
<1>8. pptr + 1 \in 1 .. size
  BY <1>2, <1>3, <1>4
<1>9. /\ cells' \in [1 .. size -> Cells] /\ cells'[pptr + 1] = c
      /\ \A i \in 1 .. size : i # pptr + 1 => cells'[i] = Stream!Extended(size)[i]
  BY <1>1, <1>3, <1>7, <1>8
<1>10. cells' \in Seq(Cells) /\ Len(cells') = size
  BY <1>4, <1>9
<1>11. \A i \in 1 .. Len(file) : i # pptr + 1 => cells'[i] = cells[i]
  <2>1. \A i \in 1 .. Len(file) : i \in 1 .. size /\ i <= epptr
    BY <1>3, <1>4
  <2> QED
    BY <1>5, <1>9, <2>1
<1>12. position < epptr' /\ epptr' >= epptr /\ epptr' \in Nat /\ kind # "fixed"
  BY <1>2, <1>3, <1>4
<1> QED
  BY <1>1, <1>2, <1>9, <1>10, <1>11, <1>12, PutKeeps

LEMMA SeekKeeps == ASSUME StreamInv, Stream!Seek PROVE StreamInv'
<1>1. /\ pptr \in Nat /\ max_offset_ \in Nat /\ position = pptr /\ Len(file) \in Nat
      /\ epptr \in Nat /\ position \in Nat
  BY DEF StreamInv, StreamTypeOK, RoomInv
<1>2. /\ open /\ ~bad
      /\ UNCHANGED <<kind, cells, epptr, allocated_, open, file, gptr, got>>
  BY DEF Stream!Seek
<1>3. Len(file) = IF pptr >= max_offset_ THEN pptr ELSE max_offset_
  BY <1>2 DEF StreamInv, FilledInv
<1>4. max_offset_' = Len(file)
  <2>1. Stream!Max({pptr, max_offset_}) = Len(file)
    BY <1>1, <1>3, MaxOfTwo
  <2> QED
    BY <2>1 DEF Stream!Seek
<1>5. pptr' \in 0 .. Len(file) /\ position' = pptr'
  <2>1. Stream!Max({pptr, max_offset_}) = Len(file)
    BY <1>1, <1>3, MaxOfTwo
  <2>2. (\E n \in 0 .. Len(file) : pptr' = n /\ position' = n) \/ UNCHANGED <<pptr, position>>
    BY <2>1 DEF Stream!Seek
  <2> QED
    BY <1>1, <1>3, <2>2
<1>6. StreamTypeOK'
  <2>1. bad' \in BOOLEAN
    BY DEF Stream!Seek, StreamInv, StreamTypeOK
  <2> QED
    BY <1>1, <1>2, <1>4, <1>5, <2>1 DEF StreamInv, StreamTypeOK
<1>7. RoomInv' /\ FilledInv' /\ ClosedInv'
  BY <1>1, <1>2, <1>3, <1>4, <1>5 DEF StreamInv, RoomInv, FilledInv, ClosedInv
<1> QED
  BY <1>6, <1>7 DEF StreamInv

LEMMA CloseKeeps == ASSUME StreamInv, Stream!Close PROVE StreamInv'
<1>1. /\ open /\ ~open'
      /\ UNCHANGED <<kind, epptr, pptr, max_offset_, bad, file, position, gptr, got>>
      /\ kind = "heap" => UNCHANGED cells
      /\ kind = "fixed" =>
           cells' = IF ~bad /\ pptr < epptr THEN [cells EXCEPT ![pptr + 1] = Stream!NUL] ELSE cells
  BY DEF Stream!Close, Stream!Terminated, StreamInv, StreamTypeOK
<1>2. /\ pptr \in Nat /\ epptr \in Nat /\ position = pptr /\ cells \in Seq(Cells) /\ Len(cells) \in Nat
      /\ Len(file) \in Nat /\ position <= Len(file) /\ Len(file) <= epptr
      /\ kind \in {"heap", "fixed"} /\ open' \in BOOLEAN /\ file \in Seq(Chars)
      /\ \A i \in 1 .. Len(file) : cells[i] = file[i]
      /\ gptr = 0 /\ got = <<>>
  <2>1. open' \in BOOLEAN
    BY DEF Stream!Close
  <2>2. Len(cells) \in Nat /\ Len(file) \in Nat
    BY DEF StreamInv, StreamTypeOK
  <2>3. (\A i \in 1 .. Len(file) : cells[i] = file[i]) /\ gptr = 0 /\ got = <<>>
    BY <1>1 DEF StreamInv, FilledInv
  <2> QED
    BY <2>1, <2>2, <2>3 DEF StreamInv, StreamTypeOK, RoomInv
<1>3. CASE kind = "heap"
  <2>1. StreamTypeOK' /\ RoomInv'
    BY <1>1, <1>2, <1>3 DEF StreamInv, StreamTypeOK, RoomInv
  <2>2. FilledInv' /\ ClosedInv'
    BY <1>1, <1>2, <1>3 DEF FilledInv, ClosedInv
  <2> QED
    BY <2>1, <2>2 DEF StreamInv
<1>4. CASE kind = "fixed"
  <2>1. epptr + 1 = SIZE /\ Len(cells) = SIZE /\ cells[SIZE] = Stream!NUL /\ SIZE \in Nat
    BY <1>4, StreamConstants DEF StreamInv, RoomInv
  <2>2. pptr + 1 \in 1 .. Len(cells) /\ cells \in [1 .. Len(cells) -> Cells] /\ Stream!NUL \in Cells
    BY <1>2, <2>1 DEF Cells
  <2>3. /\ cells' \in [1 .. Len(cells) -> Cells]
        /\ \A i \in 1 .. Len(cells) : i # pptr + 1 => cells'[i] = cells[i]
        /\ pptr < epptr /\ ~bad => cells'[pptr + 1] = Stream!NUL
        /\ pptr = epptr => cells' = cells
    <3>1. CASE ~bad /\ pptr < epptr
      <4>1. cells' = [cells EXCEPT ![pptr + 1] = Stream!NUL]
        BY <1>1, <1>4, <3>1
      <4>2. /\ cells' \in [1 .. Len(cells) -> Cells] /\ cells'[pptr + 1] = Stream!NUL
            /\ \A i \in 1 .. Len(cells) : i # pptr + 1 => cells'[i] = cells[i]
        BY <2>2, <4>1
      <4> QED
        BY <1>2, <3>1, <4>2
    <3>2. CASE ~(~bad /\ pptr < epptr)
      <4>1. cells' = cells
        BY <1>1, <1>4, <3>2
      <4> QED
        BY <2>2, <3>2, <4>1
    <3> QED
      BY <3>1, <3>2
  <2>4. cells' \in Seq(Cells) /\ Len(cells') = Len(cells)
    BY <1>2, <2>3
  <2>5. cells'[SIZE] = Stream!NUL
    <3>1. pptr <= epptr /\ SIZE \in 1 .. Len(cells)
      BY <1>2, <2>1, StreamConstants
    <3>2. CASE pptr = epptr
      BY <2>1, <2>3, <3>2
    <3>3. CASE pptr < epptr
      <4>1. SIZE # pptr + 1
        BY <1>2, <2>1, <3>3
      <4> QED
        BY <2>1, <2>3, <3>1, <4>1
    <3> QED
      BY <1>2, <3>1, <3>2, <3>3
  <2>6. cells'[position + 1] = Stream!NUL \/ (bad /\ pptr < epptr)
    <3>1. CASE pptr = epptr
      <4>1. position + 1 = SIZE
        BY <1>2, <2>1, <3>1
      <4> QED
        BY <1>2, <2>5, <4>1
    <3>2. CASE pptr < epptr
      BY <1>2, <2>3, <3>2
    <3> QED
      BY <1>2, <3>1, <3>2
  <2>7. \A i \in 1 .. position : cells'[i] = file[i]
    <3>1. \A i \in 1 .. position : i \in 1 .. Len(cells) /\ i # pptr + 1 /\ i \in 1 .. Len(file)
      BY <1>2, <2>1
    <3> QED
      BY <1>2, <2>3, <3>1
  <2>8. StreamTypeOK' /\ RoomInv'
    BY <1>1, <1>2, <1>4, <2>1, <2>4, <2>5 DEF StreamInv, StreamTypeOK, RoomInv
  <2>9. FilledInv' /\ ClosedInv'
    BY <1>1, <1>2, <2>6, <2>7 DEF FilledInv, ClosedInv, Stream!SeekRefused
  <2> QED
    BY <2>8, <2>9 DEF StreamInv
<1> QED
  BY <1>2, <1>3, <1>4

LEMMA GetKeeps == ASSUME StreamInv, Stream!Get PROVE StreamInv'
<1>1. /\ ~open /\ gptr < Len(file) /\ got' = Append(got, file[gptr + 1]) /\ gptr' = gptr + 1
      /\ UNCHANGED <<kind, cells, epptr, pptr, max_offset_, bad, open, file, position>>
  BY DEF Stream!Get, Stream!GetNext
<1>2. /\ gptr \in 0 .. Len(file) /\ got \in Seq(Chars) /\ Len(got) = gptr
      /\ \A i \in 1 .. gptr : got[i] = file[i]
      /\ file \in Seq(Chars) /\ Len(file) \in Nat
  BY <1>1 DEF StreamInv, StreamTypeOK, ClosedInv
<1>3. file[gptr + 1] \in Chars
  BY <1>1, <1>2
<1>4. /\ got' \in Seq(Chars) /\ Len(got') = gptr + 1 /\ got'[gptr + 1] = file[gptr + 1]
      /\ \A i \in 1 .. gptr : got'[i] = got[i]
  BY <1>1, <1>2, <1>3
<1>5. \A i \in 1 .. gptr' : got'[i] = file[i]
  BY <1>1, <1>2, <1>4
<1>6. ClosedInv'
  BY <1>1, <1>2, <1>4, <1>5 DEF StreamInv, ClosedInv, Stream!SeekRefused
<1>7. StreamTypeOK' /\ RoomInv' /\ FilledInv'
  BY <1>1 DEF StreamInv, StreamTypeOK, RoomInv, FilledInv
<1> QED
  BY <1>6, <1>7 DEF StreamInv


LEMMA StreamStepKeeps == ASSUME StreamInv, Stream!MemoryStreamNext PROVE StreamInv'
<1>1. CASE Stream!OverflowFails
  <2>1. /\ open /\ pptr = epptr /\ bad' = TRUE
        /\ UNCHANGED <<kind, cells, epptr, pptr, max_offset_, open, file, position, gptr, got>>
    BY <1>1 DEF Stream!OverflowFails
  <2>2. StreamTypeOK' /\ RoomInv'
    BY <2>1 DEF StreamInv, StreamTypeOK, RoomInv
  <2>3. FilledInv' /\ ClosedInv'
    BY <2>1 DEF StreamInv, FilledInv, ClosedInv
  <2> QED
    BY <2>2, <2>3 DEF StreamInv
<1> QED
  BY <1>1, StreamPutKeeps, StreamOverflowKeeps, SeekKeeps, CloseKeeps, GetKeeps
     DEF Stream!MemoryStreamNext

LEMMA FileInMemory == ASSUME StreamInv PROVE Stream!StreamIsFile
<1> SUFFICES ASSUME open
             PROVE  /\ pptr = position /\ pptr <= epptr /\ max_offset_ <= epptr
                    /\ epptr <= Len(cells) /\ Len(file) = Stream!Max({pptr, max_offset_})
                    /\ SubSeq(cells, 1, Len(file)) = file
  BY DEF Stream!StreamIsFile
<1>1. /\ pptr \in Nat /\ max_offset_ \in Nat /\ epptr \in Nat /\ Len(file) \in Nat
      /\ cells \in Seq(Cells) /\ Len(cells) \in Nat /\ file \in Seq(Chars)
      /\ kind \in {"heap", "fixed"}
  BY DEF StreamInv, StreamTypeOK
<1>2. pptr = position /\ position <= Len(file) /\ Len(file) <= epptr
  BY DEF StreamInv, RoomInv
<1>3. epptr <= Len(cells)
  BY <1>1, StreamConstants DEF StreamInv, RoomInv
<1>4. /\ Len(file) = IF pptr >= max_offset_ THEN pptr ELSE max_offset_
      /\ \A i \in 1 .. Len(file) : cells[i] = file[i]
  BY DEF StreamInv, FilledInv
<1>5. Len(file) = Stream!Max({pptr, max_offset_})
  BY <1>1, <1>4, MaxOfTwo
<1>6. SubSeq(cells, 1, Len(file)) = file
  BY <1>1, <1>2, <1>3, <1>4
<1>7. pptr <= epptr /\ max_offset_ <= epptr
  BY <1>1, <1>2, <1>4
<1> QED
  BY <1>2, <1>3, <1>5, <1>6, <1>7

LEMMA FixedEndsWithNul == ASSUME StreamInv PROVE Stream!FixedTerminated
<1> SUFFICES ASSUME kind = "fixed"
             PROVE  /\ cells[SIZE] = Stream!NUL
                    /\ ~open => /\ cells[position + 1] = Stream!NUL \/ Stream!SeekRefused
                                /\ SubSeq(cells, 1, position) = SubSeq(file, 1, position)
                                /\ \A i \in 1 .. position : cells[i] # Stream!NUL
  BY DEF Stream!FixedTerminated
<1>1. /\ position \in Nat /\ Len(file) \in Nat /\ epptr \in Nat /\ cells \in Seq(Cells)
      /\ file \in Seq(Chars) /\ Len(cells) \in Nat
  BY DEF StreamInv, StreamTypeOK
<1>2. /\ cells[SIZE] = Stream!NUL /\ position <= Len(file) /\ Len(file) <= epptr
      /\ epptr <= Len(cells)
  BY <1>1, StreamConstants DEF StreamInv, RoomInv
<1>3. ASSUME ~open
      PROVE  /\ cells[position + 1] = Stream!NUL \/ Stream!SeekRefused
             /\ SubSeq(cells, 1, position) = SubSeq(file, 1, position)
             /\ \A i \in 1 .. position : cells[i] # Stream!NUL
  <2>1. /\ cells[position + 1] = Stream!NUL \/ Stream!SeekRefused
        /\ \A i \in 1 .. position : cells[i] = file[i]
    BY <1>3 DEF StreamInv, ClosedInv
  <2>2. SubSeq(cells, 1, position) = SubSeq(file, 1, position)
    BY <1>1, <1>2, <2>1
  <2>3. \A i \in 1 .. position : file[i] \in Chars
    BY <1>1, <1>2
  <2> QED
    BY <2>1, <2>2, <2>3, StreamConstants DEF Stream!NUL
<1> QED
  BY <1>2, <1>3

LEMMA ReadInOrder == ASSUME StreamInv PROVE Stream!InputInOrder
<1> SUFFICES ASSUME ~open
             PROVE  /\ got \o SubSeq(file, gptr + 1, Len(file)) = file
                    /\ Stream!InputSeekOff(0, "cur") = Len(got)
                    /\ Stream!InputSeekOff(-Len(SubSeq(file, gptr + 1, Len(file))), "end") = Len(got)
  BY DEF Stream!InputInOrder, Stream!InputData
<1>1. /\ gptr \in 0 .. Len(file) /\ got \in Seq(Chars) /\ Len(got) = gptr
      /\ \A i \in 1 .. gptr : got[i] = file[i]
      /\ file \in Seq(Chars) /\ Len(file) \in Nat
  BY DEF StreamInv, StreamTypeOK, ClosedInv
<1> DEFINE rest == SubSeq(file, gptr + 1, Len(file))
<1>2. /\ rest \in Seq(Chars) /\ Len(rest) = Len(file) - gptr
      /\ \A i \in 1 .. Len(rest) : rest[i] = file[gptr + i]
  BY <1>1
<1> HIDE DEF rest
<1>3. got \o rest = file
  <2>1. /\ got \o rest \in Seq(Chars) /\ Len(got \o rest) = Len(got) + Len(rest)
        /\ \A i \in 1 .. Len(got) + Len(rest) :
             (got \o rest)[i] = IF i <= Len(got) THEN got[i] ELSE rest[i - Len(got)]
    BY <1>1, <1>2, ConcatProperties
  <2>2. Len(got \o rest) = Len(file) /\ Len(got) + Len(rest) = Len(file)
    BY <1>1, <1>2, <2>1
  <2>3. ASSUME NEW i \in 1 .. Len(file), i <= gptr PROVE (got \o rest)[i] = file[i]
    BY <1>1, <2>1, <2>2, <2>3
  <2>4. ASSUME NEW i \in 1 .. Len(file), i > gptr PROVE (got \o rest)[i] = file[i]
    <3>1. i - gptr \in 1 .. Len(rest) /\ gptr + (i - gptr) = i
      BY <1>1, <1>2, <2>4
    <3>2. rest[i - gptr] = file[i]
      BY <1>2, <3>1
    <3> QED
      BY <1>1, <2>1, <2>2, <2>4, <3>2
  <2>5. \A i \in 1 .. Len(file) : (got \o rest)[i] = file[i]
    <3> TAKE i \in 1 .. Len(file)
    <3>1. i <= gptr \/ i > gptr
      BY <1>1
    <3> QED
      BY <2>3, <2>4, <3>1
  <2> QED
    BY <1>1, <2>1, <2>2, <2>5, SeqEqual
<1>4. Stream!InputSeekOff(0, "cur") = gptr
  BY <1>1 DEF Stream!InputSeekOff
<1>5. Stream!InputSeekOff(-Len(rest), "end") = gptr
  <2>1. -Len(rest) + Len(file) = gptr /\ gptr \in 0 .. Len(file)
    BY <1>1, <1>2
  <2> QED
    BY <2>1 DEF Stream!InputSeekOff
<1> QED
  BY <1>1, <1>3, <1>4, <1>5 DEF rest

\* For any characters, any first size of the heap that ten doublings bring beyond the
\* text and a fixed buffer of any size: through growth and seeks (of OutputMemoryStream)
\* the memory holds what a file would; a fixed buffer, once closed, has a NUL at the
\* position, unless a seek was refused, and one at its end in any case; and the input
\* stream gives the text in its order, telling where it is.
THEOREM TextIsAFile == PartsSpec => []StreamIsFile
<1>1. PartsInit => StreamInv
  BY StreamInvInit DEF PartsInit
<1>2. StreamInv /\ [PartsNext]_<<part, aloneVars, sharedVars, pollerVars>> => StreamInv'
  <2>1. [PartsNext]_<<part, aloneVars, sharedVars, pollerVars>> =>
          Stream!MemoryStreamNext \/ UNCHANGED streamVars
    BY DEF PartsNext, AloneNext, aloneVars
  <2>2. StreamInv /\ UNCHANGED streamVars => StreamInv'
    BY DEF streamVars, StreamInv, StreamTypeOK, RoomInv, FilledInv, ClosedInv,
       Stream!SeekRefused
  <2> QED
    BY <2>1, <2>2, StreamStepKeeps
<1>3. StreamInv => StreamIsFile
  BY FileInMemory, FixedEndsWithNul, ReadInOrder DEF StreamIsFile
<1> QED
  BY <1>1, <1>2, <1>3, PTL DEF PartsSpec

-----------------------------------------------------------------------------
(* The texts of StringManip.                                               *)

Codes == 0 .. 255

Texts == Seq(Codes)

TextInv == use \in DOMAIN Alphabets /\ text \in Texts

LEMMA TextMinIs ==
  ASSUME NEW T \in SUBSET Int, NEW m \in T, \A n \in T : m <= n
  PROVE  Text!Min(T) = m
<1>1. \A n \in T : (\A k \in T : n <= k) => n = m
  OBVIOUS
<1> QED
  BY <1>1 DEF Text!Min

LEMMA TextMinOfTwo ==
  ASSUME NEW a \in Int, NEW b \in Int
  PROVE  Text!Min({a, b}) = IF a <= b THEN a ELSE b
BY DEF Text!Min

LEMMA TextMinOfSome ==
  ASSUME NEW T \in SUBSET Nat, T # {}
  PROVE  Text!Min(T) \in T /\ \A n \in T : Text!Min(T) <= n
<1>1. PICK m \in T : \A n \in T : m <= n
  BY LeastNatural
<1> QED
  BY <1>1, TextMinIs

LEMMA PieceOfText ==
  ASSUME NEW str \in Texts, NEW m \in 1 .. Len(str) + 1, NEW n \in 0 .. Len(str), m <= n + 1
  PROVE  /\ SubSeq(str, m, n) \in Texts /\ Len(SubSeq(str, m, n)) = n - m + 1
         /\ \A i \in 1 .. n - m + 1 : SubSeq(str, m, n)[i] = str[m + i - 1]
<1>1. \A i \in m .. n : str[i] \in Codes
  BY DEF Texts
<1>2. m \in Int /\ n \in Int
  BY DEF Texts
<1> QED
  BY <1>1, <1>2, SubSeqProperties DEF Texts

-----------------------------------------------------------------------------
(* Comparison without case.                                                *)

\* What a character counts for.
Key(ch) == Text!Signed(Text!to_lower(ch))

LEMMA KeyIs ==
  ASSUME NEW a \in Codes, NEW b \in Codes
  PROVE  /\ Key(a) \in Int
         /\ Key(a) = Key(b) <=> Text!to_lower(a) = Text!to_lower(b)
         /\ Key(a) = Key(b) <=> Text!to_upper(a) = Text!to_upper(b)
BY DEF Key, Codes, Text!Signed, Text!to_lower, Text!to_upper

\* Texts with the same first characters, but for their case.
Alike(u, v, n) == n <= Len(u) /\ n <= Len(v) /\ \A i \in 1 .. n : Key(u[i]) = Key(v[i])

AllAlike(u, v) == Len(u) = Len(v) /\ Alike(u, v, Len(u))

Earlier(u, v) ==
  \E n \in Nat : /\ Alike(u, v, n) /\ n < Len(v)
                 /\ n < Len(u) => Key(u[n + 1]) < Key(v[n + 1])

LEMMA CaselessIs ==
  ASSUME NEW u \in Texts, NEW v \in Texts
  PROVE  /\ AllAlike(u, v) => Text!compare_caseless(u, v) = 0
         /\ Earlier(u, v) => Text!compare_caseless(u, v) < 0
         /\ Earlier(v, u) => Text!compare_caseless(u, v) > 0
         /\ Text!compare_caseless(u, v) \in Int
         /\ AllAlike(u, v) \/ Earlier(u, v) \/ Earlier(v, u)
<1> DEFINE n == Text!Min({Len(u), Len(v)})
<1> DEFINE differ == {i \in 1 .. n : Text!to_lower(u[i]) # Text!to_lower(v[i])}
<1>1. /\ Len(u) \in Nat /\ Len(v) \in Nat
      /\ n = IF Len(u) <= Len(v) THEN Len(u) ELSE Len(v)
  BY TextMinOfTwo DEF Texts
<1>2. Text!compare_caseless(u, v)
        = IF differ # {} THEN Key(u[Text!Min(differ)]) - Key(v[Text!Min(differ)])
          ELSE IF Len(u) = Len(v) THEN 0 ELSE IF Len(u) < Len(v) THEN -1 ELSE 1
  BY DEF Text!compare_caseless, Key
<1> HIDE DEF n
<1>3. \A i \in 1 .. n : u[i] \in Codes /\ v[i] \in Codes
  BY <1>1 DEF Texts
<1>4. differ = {i \in 1 .. n : Key(u[i]) # Key(v[i])}
  BY <1>3, KeyIs
<1>5. n \in Nat
  BY <1>1
<1> HIDE DEF differ
<1>6. CASE differ = {}
  <2>1. Alike(u, v, n) /\ Alike(v, u, n)
    BY <1>1, <1>4, <1>6 DEF Alike
  <2>2. Len(u) = Len(v) => AllAlike(u, v)
    BY <1>1, <2>1 DEF AllAlike
  <2>3. Len(u) < Len(v) => Earlier(u, v)
    BY <1>1, <2>1 DEF Earlier
  <2>4. Len(v) < Len(u) => Earlier(v, u)
    BY <1>1, <2>1 DEF Earlier
  <2>5. ASSUME Earlier(u, v) PROVE Len(u) < Len(v)
    <3>1. PICK k \in Nat : /\ Alike(u, v, k) /\ k < Len(v)
                           /\ k < Len(u) => Key(u[k + 1]) < Key(v[k + 1])
      BY <2>5 DEF Earlier
    <3>2. k < Len(u) => k + 1 \in 1 .. n
      BY <1>1, <3>1
    <3>3. ~(k < Len(u))
      BY <1>3, <1>4, <1>6, <3>1, <3>2, KeyIs
    <3> QED
      BY <1>1, <3>1, <3>3 DEF Alike
  <2>6. ASSUME Earlier(v, u) PROVE Len(v) < Len(u)
    <3>1. PICK k \in Nat : /\ Alike(v, u, k) /\ k < Len(u)
                           /\ k < Len(v) => Key(v[k + 1]) < Key(u[k + 1])
      BY <2>6 DEF Earlier
    <3>2. k < Len(v) => k + 1 \in 1 .. n
      BY <1>1, <3>1
    <3>3. ~(k < Len(v))
      BY <1>3, <1>4, <1>6, <3>1, <3>2, KeyIs
    <3> QED
      BY <1>1, <3>1, <3>3 DEF Alike
  <2>7. Text!compare_caseless(u, v)
          = IF Len(u) = Len(v) THEN 0 ELSE IF Len(u) < Len(v) THEN -1 ELSE 1
    BY <1>2, <1>6
  <2> QED
    BY <1>1, <2>2, <2>3, <2>4, <2>5, <2>6, <2>7 DEF AllAlike
<1>7. CASE differ # {}
  <2>1. PICK m \in differ : m = Text!Min(differ) /\ \A i \in differ : m <= i
    <3>1. differ \in SUBSET Nat
      BY <1>4, <1>5
    <3> QED
      BY <1>7, <3>1, TextMinOfSome
  <2>2. m \in 1 .. n /\ Key(u[m]) # Key(v[m]) /\ Key(u[m]) \in Int /\ Key(v[m]) \in Int
    BY <1>3, <1>4, KeyIs
  <2>3. \A i \in 1 .. m - 1 : Key(u[i]) = Key(v[i])
    <3>1. \A i \in 1 .. m - 1 : i \in 1 .. n /\ i \notin differ
      BY <1>5, <2>1, <2>2
    <3> QED
      BY <1>4, <3>1
  <2>4. m - 1 \in Nat /\ m - 1 < Len(u) /\ m - 1 < Len(v) /\ (m - 1) + 1 = m
    BY <1>1, <2>2
  <2>5. Alike(u, v, m - 1) /\ Alike(v, u, m - 1)
    BY <1>1, <2>3, <2>4 DEF Alike
  <2>6. Text!compare_caseless(u, v) = Key(u[m]) - Key(v[m])
    BY <1>2, <1>7, <2>1
  <2>7. Key(u[m]) < Key(v[m]) => Earlier(u, v)
    BY <2>4, <2>5 DEF Earlier
  <2>8. Key(v[m]) < Key(u[m]) => Earlier(v, u)
    BY <2>4, <2>5 DEF Earlier
  <2>9. ~AllAlike(u, v)
    BY <1>1, <2>2 DEF AllAlike, Alike
  <2>10. ASSUME NEW k \in Nat, \A i \in 1 .. k : Key(u[i]) = Key(v[i]), k < Len(u) \/ k < Len(v),
                k <= Len(u), k <= Len(v),
                k < Len(u) /\ k < Len(v) => Key(u[k + 1]) # Key(v[k + 1])
         PROVE  k = m - 1
    <3>1. ~(m \in 1 .. k)
      BY <2>2, <2>10
    <3>2. k < m
      BY <2>2, <3>1
    <3>3. k < Len(u) /\ k < Len(v)
      BY <1>1, <2>4, <3>2
    <3>4. ~(k + 1 \in 1 .. m - 1)
      BY <2>3, <2>10, <3>3
    <3> QED
      BY <2>2, <3>2, <3>4
  <2>11. ASSUME Earlier(u, v) PROVE Key(u[m]) < Key(v[m])
    <3>1. PICK k \in Nat : /\ Alike(u, v, k) /\ k < Len(v)
                           /\ k < Len(u) => Key(u[k + 1]) < Key(v[k + 1])
      BY <2>11 DEF Earlier
    <3>2. k < Len(u) /\ k < Len(v) => k + 1 \in 1 .. n
      BY <1>1, <3>1
    <3>3. k < Len(u) /\ k < Len(v) => Key(u[k + 1]) # Key(v[k + 1])
      BY <1>3, <3>1, <3>2, KeyIs
    <3>4. k = m - 1
      BY <2>10, <3>1, <3>3 DEF Alike
    <3> QED
      BY <2>4, <3>1, <3>4
  <2>12. ASSUME Earlier(v, u) PROVE Key(v[m]) < Key(u[m])
    <3>1. PICK k \in Nat : /\ Alike(v, u, k) /\ k < Len(u)
                           /\ k < Len(v) => Key(v[k + 1]) < Key(u[k + 1])
      BY <2>12 DEF Earlier
    <3>2. k < Len(u) /\ k < Len(v) => k + 1 \in 1 .. n
      BY <1>1, <3>1
    <3>3. k < Len(u) /\ k < Len(v) => Key(u[k + 1]) # Key(v[k + 1])
      BY <1>3, <3>1, <3>2, KeyIs
    <3>4. k = m - 1
      BY <2>10, <3>1, <3>3 DEF Alike
    <3> QED
      BY <2>4, <3>1, <3>4
  <2> QED
    BY <2>2, <2>6, <2>7, <2>8, <2>9, <2>11, <2>12
<1> QED
  BY <1>6, <1>7

LEMMA EarlierIsTransitive ==
  ASSUME NEW u \in Texts, NEW v \in Texts, NEW w \in Texts,
         AllAlike(u, v) \/ Earlier(u, v), AllAlike(v, w) \/ Earlier(v, w)
  PROVE  AllAlike(u, w) \/ Earlier(u, w)
<1>1. /\ Len(u) \in Nat /\ Len(v) \in Nat /\ Len(w) \in Nat
      /\ \A i \in 1 .. Len(u) : Key(u[i]) \in Int
      /\ \A i \in 1 .. Len(v) : Key(v[i]) \in Int
      /\ \A i \in 1 .. Len(w) : Key(w[i]) \in Int
  <2>1. ASSUME NEW str \in Texts PROVE \A i \in 1 .. Len(str) : str[i] \in Codes
    BY DEF Texts
  <2> QED
    BY <2>1, KeyIs DEF Texts
<1>2. CASE AllAlike(u, v) /\ AllAlike(v, w)
  BY <1>1, <1>2 DEF AllAlike, Alike
<1>3. CASE AllAlike(u, v) /\ Earlier(v, w)
  <2>1. PICK k \in Nat : /\ Alike(v, w, k) /\ k < Len(w)
                         /\ k < Len(v) => Key(v[k + 1]) < Key(w[k + 1])
    BY <1>3 DEF Earlier
  <2>2. Alike(u, w, k)
    BY <1>1, <1>3, <2>1 DEF AllAlike, Alike
  <2>3. k < Len(u) => Key(u[k + 1]) < Key(w[k + 1])
    BY <1>1, <1>3, <2>1 DEF AllAlike, Alike
  <2> QED
    BY <2>1, <2>2, <2>3 DEF Earlier
<1>4. CASE Earlier(u, v) /\ AllAlike(v, w)
  <2>1. PICK k \in Nat : /\ Alike(u, v, k) /\ k < Len(v)
                         /\ k < Len(u) => Key(u[k + 1]) < Key(v[k + 1])
    BY <1>4 DEF Earlier
  <2>2. Alike(u, w, k)
    BY <1>1, <1>4, <2>1 DEF AllAlike, Alike
  <2>3. k < Len(w) /\ (k < Len(u) => Key(u[k + 1]) < Key(w[k + 1]))
    BY <1>1, <1>4, <2>1 DEF AllAlike, Alike
  <2> QED
    BY <2>1, <2>2, <2>3 DEF Earlier
<1>5. CASE Earlier(u, v) /\ Earlier(v, w)
  <2>1. PICK k \in Nat : /\ Alike(u, v, k) /\ k < Len(v)
                         /\ k < Len(u) => Key(u[k + 1]) < Key(v[k + 1])
    BY <1>5 DEF Earlier
  <2>2. PICK m \in Nat : /\ Alike(v, w, m) /\ m < Len(w)
                         /\ m < Len(v) => Key(v[m + 1]) < Key(w[m + 1])
    BY <1>5 DEF Earlier
  <2>3. CASE k <= m
    <3>1. Alike(u, w, k)
      BY <1>1, <2>1, <2>2, <2>3 DEF Alike
    <3>2. k < Len(u) => Key(u[k + 1]) < Key(w[k + 1])
      <4>1. k + 1 \in 1 .. Len(v) /\ k + 1 \in 1 .. Len(w)
        BY <1>1, <2>1, <2>2, <2>3
      <4>2. Key(v[k + 1]) <= Key(w[k + 1])
        BY <1>1, <2>1, <2>2, <2>3, <4>1 DEF Alike
      <4> QED
        BY <1>1, <2>1, <4>1, <4>2
    <3> QED
      BY <1>1, <2>1, <2>2, <2>3, <3>1, <3>2 DEF Earlier
  <2>4. CASE m < k
    <3>1. Alike(u, w, m)
      BY <1>1, <2>1, <2>2, <2>4 DEF Alike
    <3>2. m + 1 \in 1 .. Len(u) /\ m + 1 \in 1 .. Len(v) /\ m + 1 \in 1 .. k
      BY <1>1, <2>1, <2>4 DEF Alike
    <3>3. Key(u[m + 1]) < Key(w[m + 1])
      BY <2>1, <2>2, <3>2, <2>4 DEF Alike
    <3> QED
      BY <2>2, <3>1, <3>3 DEF Earlier
  <2> QED
    BY <2>3, <2>4
<1> QED
  BY <1>2, <1>3, <1>4, <1>5

Uppered(str) == [k \in DOMAIN str |-> Text!to_upper(str[k])]

LEMMA UpperedSame ==
  ASSUME NEW u \in Texts, NEW v \in Texts
  PROVE  Uppered(u) = Uppered(v) <=> AllAlike(u, v)
<1>1. /\ Len(u) \in Nat /\ Len(v) \in Nat /\ DOMAIN u = 1 .. Len(u) /\ DOMAIN v = 1 .. Len(v)
      /\ \A i \in 1 .. Len(u) : u[i] \in Codes
      /\ \A i \in 1 .. Len(v) : v[i] \in Codes
  BY DEF Texts
<1>2. ASSUME AllAlike(u, v) PROVE Uppered(u) = Uppered(v)
  <2>1. DOMAIN u = DOMAIN v
    BY <1>1, <1>2 DEF AllAlike
  <2>2. \A i \in DOMAIN u : Text!to_upper(u[i]) = Text!to_upper(v[i])
    BY <1>1, <1>2, <2>1, KeyIs DEF AllAlike, Alike
  <2> QED
    BY <2>1, <2>2 DEF Uppered
<1>3. ASSUME Uppered(u) = Uppered(v) PROVE AllAlike(u, v)
  <2>1. DOMAIN u = DOMAIN v
    BY <1>3 DEF Uppered
  <2>2. Len(u) = Len(v)
    <3>1. Len(u) \in 1 .. Len(u) => Len(u) \in 1 .. Len(v)
      BY <1>1, <2>1
    <3>2. Len(v) \in 1 .. Len(v) => Len(v) \in 1 .. Len(u)
      BY <1>1, <2>1
    <3>3. Len(u) >= 1 => Len(u) <= Len(v)
      BY <1>1, <3>1
    <3>4. Len(v) >= 1 => Len(v) <= Len(u)
      BY <1>1, <3>2
    <3>5. \A a, b \in Nat : (a >= 1 => a <= b) /\ (b >= 1 => b <= a) => a = b
      OBVIOUS
    <3> QED
      BY <1>1, <3>3, <3>4, <3>5
  <2>3. \A i \in DOMAIN u : Uppered(u)[i] = Text!to_upper(u[i])
    BY DEF Uppered
  <2>4. \A i \in DOMAIN v : Uppered(v)[i] = Text!to_upper(v[i])
    BY DEF Uppered
  <2>5. \A i \in 1 .. Len(u) : Key(u[i]) = Key(v[i])
    BY <1>1, <1>3, <2>1, <2>3, <2>4, KeyIs
  <2> QED
    BY <1>1, <2>2, <2>5 DEF AllAlike, Alike
<1> QED
  BY <1>2, <1>3

LEMMA EqualCaselessIs ==
  ASSUME NEW u \in Texts, NEW v \in Texts
  PROVE  /\ Text!equal_caseless(u, v) = AllAlike(u, v)
         /\ Text!EqualCaselessCString(u, v) = AllAlike(u, v)
<1>1. /\ Len(u) \in Nat /\ Len(v) \in Nat /\ DOMAIN u = 1 .. Len(u) /\ DOMAIN v = 1 .. Len(v)
      /\ \A i \in 1 .. Len(u) : u[i] \in Codes
      /\ \A i \in 1 .. Len(v) : v[i] \in Codes
  BY DEF Texts
<1>2. Text!equal_caseless(u, v) \in BOOLEAN /\ Text!EqualCaselessCString(u, v) \in BOOLEAN
        /\ AllAlike(u, v) \in BOOLEAN
  BY DEF Text!equal_caseless, Text!EqualCaselessCString, AllAlike
<1>3. Text!equal_caseless(u, v) <=> AllAlike(u, v)
  <2>1. Len(u) = Len(v) => \A i \in DOMAIN u :
          Key(u[i]) = Key(v[i]) <=> Text!to_lower(u[i]) = Text!to_lower(v[i])
    BY <1>1, KeyIs
  <2>2. AllAlike(u, v) <=> Len(u) = Len(v) /\ \A i \in DOMAIN u : Key(u[i]) = Key(v[i])
    <3>1. Len(u) = Len(v) => Len(u) <= Len(u) /\ Len(u) <= Len(v)
      BY <1>1
    <3>2. DOMAIN u = 1 .. Len(u)
      BY <1>1
    <3> QED
      BY <3>1, <3>2 DEF AllAlike, Alike
  <2> QED
    BY <2>1, <2>2 DEF Text!equal_caseless
<1>4. Text!EqualCaselessCString(u, v) <=> Text!equal_caseless(u, v)
  <2>1. ASSUME Text!EqualCaselessCString(u, v) PROVE Len(u) = Len(v)
    <3>1. Len(u) \in DOMAIN u => Len(u) <= Len(v)
      BY <2>1 DEF Text!EqualCaselessCString
    <3>2. Len(v) <= Len(u)
      BY <2>1 DEF Text!EqualCaselessCString
    <3>3. Len(u) >= 1 => Len(u) <= Len(v)
      BY <1>1, <3>1
    <3>4. \A a, b \in Nat : (a >= 1 => a <= b) /\ b <= a => a = b
      OBVIOUS
    <3> QED
      BY <1>1, <3>2, <3>3, <3>4
  <2>2. ASSUME Len(u) = Len(v)
        PROVE  Text!EqualCaselessCString(u, v) <=> Text!equal_caseless(u, v)
    <3>1. \A i \in DOMAIN u : i <= Len(v)
      BY <1>1, <2>2
    <3>2. \A i \in DOMAIN u : Text!to_lower(v[i]) = Text!to_lower(u[i])
                                <=> Text!to_lower(u[i]) = Text!to_lower(v[i])
      OBVIOUS
    <3>3. Len(v) <= Len(u)
      BY <1>1, <2>2
    <3> QED
      BY <2>2, <3>1, <3>2, <3>3 DEF Text!EqualCaselessCString, Text!equal_caseless
  <2> QED
    BY <2>1, <2>2 DEF Text!equal_caseless
<1> QED
  BY <1>2, <1>3, <1>4

LEMMA CaselessStarts ==
  ASSUME NEW u \in Texts, NEW v \in Texts
  PROVE  Text!CaselessStart(u, v) = Text!IsPrefix(Uppered(u), Uppered(v))
<1> DEFINE n == Text!Min({Len(u), Len(v)})
<1> DEFINE piece == SubSeq(v, 1, n)
<1>1. /\ Len(u) \in Nat /\ Len(v) \in Nat
      /\ n = IF Len(u) <= Len(v) THEN Len(u) ELSE Len(v)
  BY TextMinOfTwo DEF Texts
<1>2. Text!CaselessStart(u, v) = Text!equal_caseless(piece, u)
  BY DEF Text!CaselessStart, Text!CaselessEqual
<1> HIDE DEF n
<1>3. /\ piece \in Texts /\ Len(piece) = n
      /\ \A i \in 1 .. n : piece[i] = v[i]
  <2>1. 1 \in 1 .. Len(v) + 1 /\ n \in 0 .. Len(v) /\ 1 <= n + 1
    BY <1>1
  <2>2. /\ piece \in Texts /\ Len(piece) = n - 1 + 1
        /\ \A i \in 1 .. n - 1 + 1 : piece[i] = v[1 + i - 1]
    BY <2>1, PieceOfText
  <2>3. n - 1 + 1 = n /\ \A i \in 1 .. n : 1 + i - 1 = i
    BY <1>1
  <2> QED
    BY <2>2, <2>3
<1>4. Text!equal_caseless(piece, u) = AllAlike(piece, u)
  BY <1>3, EqualCaselessIs
<1> DEFINE U == Uppered(u)
<1> DEFINE V == Uppered(v)
<1>5. ASSUME NEW str \in Texts
      PROVE  /\ Uppered(str) \in Seq(Int) /\ Len(Uppered(str)) = Len(str)
             /\ \A i \in 1 .. Len(str) : Uppered(str)[i] = Text!to_upper(str[i])
  <2>1. DOMAIN str = 1 .. Len(str) /\ Len(str) \in Nat /\ \A i \in 1 .. Len(str) : str[i] \in Int
    <3>1. \A i \in 1 .. Len(str) : str[i] \in Codes
      BY DEF Texts
    <3>2. Codes \subseteq Int
      BY DEF Codes
    <3>3. DOMAIN str = 1 .. Len(str) /\ Len(str) \in Nat
      BY DEF Texts
    <3> QED
      BY <3>1, <3>2, <3>3
  <2>2. \A i \in 1 .. Len(str) : Text!to_upper(str[i]) \in Int
    BY <2>1 DEF Text!to_upper
  <2> QED
    BY <2>1, <2>2 DEF Uppered
<1>6. /\ U \in Seq(Int) /\ Len(U) = Len(u) /\ \A i \in 1 .. Len(u) : U[i] = Text!to_upper(u[i])
      /\ V \in Seq(Int) /\ Len(V) = Len(v) /\ \A i \in 1 .. Len(v) : V[i] = Text!to_upper(v[i])
  BY <1>5
<1>7. Text!IsPrefix(U, V) <=>
        Len(u) <= Len(v) /\ \A i \in 1 .. Len(u) : Text!to_upper(u[i]) = Text!to_upper(v[i])
  <2> HIDE DEF U, V
  <2>1. Text!IsPrefix(U, V) <=> Len(u) <= Len(v) /\ SubSeq(U, 1, Len(u)) = SubSeq(V, 1, Len(u))
    BY <1>6 DEF Text!IsPrefix
  <2>2. ASSUME Len(u) <= Len(v)
        PROVE  SubSeq(U, 1, Len(u)) = SubSeq(V, 1, Len(u)) <=> \A i \in 1 .. Len(u) : U[i] = V[i]
    <3>1. \A i \in 1 .. Len(u) : U[i] \in Int /\ V[i] \in Int
      BY <1>1, <1>6, <2>2
    <3>2. \A i \in 1 .. Len(u) - 1 + 1 : 1 + i - 1 = i
      BY <1>1
    <3>3. /\ SubSeq(U, 1, Len(u)) \in Seq(Int) /\ Len(SubSeq(U, 1, Len(u))) = Len(u)
          /\ \A i \in 1 .. Len(u) : SubSeq(U, 1, Len(u))[i] = U[i]
      BY <1>1, <3>1, <3>2, SubSeqProperties
    <3>4. /\ SubSeq(V, 1, Len(u)) \in Seq(Int) /\ Len(SubSeq(V, 1, Len(u))) = Len(u)
          /\ \A i \in 1 .. Len(u) : SubSeq(V, 1, Len(u))[i] = V[i]
      BY <1>1, <3>1, <3>2, SubSeqProperties
    <3>5. ASSUME NEW s \in Seq(Int), NEW t \in Seq(Int), Len(s) = Len(t)
          PROVE  s = t <=> \A i \in 1 .. Len(s) : s[i] = t[i]
      BY <3>5
    <3> QED
      BY <3>3, <3>4, <3>5
  <2>3. Len(u) <= Len(v) => \A i \in 1 .. Len(u) : i \in 1 .. Len(v)
    BY <1>1
  <2> QED
    BY <1>6, <2>1, <2>2, <2>3
<1>8. AllAlike(piece, u) <=>
        Len(u) <= Len(v) /\ \A i \in 1 .. Len(u) : Text!to_upper(u[i]) = Text!to_upper(v[i])
  <2>1. /\ \A i \in 1 .. Len(u) : u[i] \in Codes
        /\ \A i \in 1 .. Len(v) : v[i] \in Codes
    BY DEF Texts
  <2>2. AllAlike(piece, u) <=> n = Len(u) /\ \A i \in 1 .. Len(u) : Key(piece[i]) = Key(u[i])
    BY <1>1, <1>3 DEF AllAlike, Alike
  <2>3. n = Len(u) <=> Len(u) <= Len(v)
    BY <1>1
  <2>4. ASSUME n = Len(u), NEW i \in 1 .. Len(u)
        PROVE  Key(piece[i]) = Key(u[i]) <=> Text!to_upper(u[i]) = Text!to_upper(v[i])
    <3>1. i \in 1 .. Len(v)
      BY <1>1, <2>3, <2>4
    <3> QED
      BY <1>3, <2>1, <2>4, <3>1, KeyIs
  <2> QED
    BY <2>2, <2>3, <2>4
<1>9. Text!IsPrefix(U, V) \in BOOLEAN /\ AllAlike(piece, u) \in BOOLEAN
  BY DEF Text!IsPrefix, AllAlike
<1> QED
  BY <1>2, <1>4, <1>7, <1>8, <1>9

LEMMA CaselessLaws ==
  ASSUME NEW u \in Texts, NEW v \in Texts, NEW w \in Texts
  PROVE  /\ (Text!compare_caseless(u, v) = 0) = (Uppered(u) = Uppered(v))
         /\ (Text!compare_caseless(u, v) < 0) = (Text!compare_caseless(v, u) > 0)
         /\ Text!compare_caseless(u, v) <= 0 /\ Text!compare_caseless(v, w) <= 0
              => Text!compare_caseless(u, w) <= 0
         /\ Text!equal_caseless(u, v) = (Text!CaselessCompare(u, v) = 0)
         /\ Text!EqualCaselessCString(u, v) = Text!CaselessEqual(v, u)
         /\ Text!CaselessStart(u, v) = Text!IsPrefix(Uppered(u), Uppered(v))
<1>1. ASSUME NEW s \in Texts, NEW t \in Texts
      PROVE  /\ Text!compare_caseless(s, t) = 0 <=> AllAlike(s, t)
             /\ Text!compare_caseless(s, t) < 0 <=> Earlier(s, t)
             /\ Text!compare_caseless(s, t) > 0 <=> Earlier(t, s)
             /\ Text!compare_caseless(s, t) <= 0 <=> AllAlike(s, t) \/ Earlier(s, t)
  BY CaselessIs
<1>2. Text!compare_caseless(u, v) = 0 <=> Uppered(u) = Uppered(v)
  BY <1>1, UpperedSame
<1>3. Text!compare_caseless(u, v) < 0 <=> Text!compare_caseless(v, u) > 0
  BY <1>1
<1>4. Text!compare_caseless(u, v) <= 0 /\ Text!compare_caseless(v, w) <= 0
        => Text!compare_caseless(u, w) <= 0
  BY <1>1, EarlierIsTransitive
<1>5. Text!equal_caseless(u, v) = (Text!CaselessCompare(u, v) = 0)
  <2>1. AllAlike(u, v) \in BOOLEAN
    BY DEF AllAlike
  <2> QED
    BY <1>1, <2>1, EqualCaselessIs DEF Text!CaselessCompare
<1>6. Text!EqualCaselessCString(u, v) = Text!CaselessEqual(v, u)
  BY EqualCaselessIs DEF Text!CaselessEqual
<1> QED
  BY <1>2, <1>3, <1>4, <1>5, <1>6, CaselessStarts

LEMMA CaselessOrders == ASSUME TextInv PROVE Text!CaselessIsOrder
<1>1. text \in Texts /\ Len(text) \in Nat
  BY DEF TextInv, Texts
<1>2. ASSUME NEW i \in 0 .. Len(text), NEW j \in i .. Len(text)
      PROVE  /\ SubSeq(text, 1, i) \in Texts
             /\ SubSeq(text, i + 1, j) \in Texts
             /\ SubSeq(text, j + 1, Len(text)) \in Texts
  <2>1. /\ 1 \in 1 .. Len(text) + 1 /\ i \in 0 .. Len(text) /\ 1 <= i + 1
        /\ i + 1 \in 1 .. Len(text) + 1 /\ j \in 0 .. Len(text) /\ i + 1 <= j + 1
        /\ j + 1 \in 1 .. Len(text) + 1 /\ Len(text) \in 0 .. Len(text)
        /\ j + 1 <= Len(text) + 1
    BY <1>1
  <2> QED
    BY <1>1, <2>1, PieceOfText
<1>3. ASSUME NEW u \in Texts, NEW v \in Texts, NEW w \in Texts
      PROVE  /\ (Text!compare_caseless(u, v) = 0)
                  = ([k \in DOMAIN u |-> Text!to_upper(u[k])]
                       = [k \in DOMAIN v |-> Text!to_upper(v[k])])
             /\ (Text!compare_caseless(u, v) < 0) = (Text!compare_caseless(v, u) > 0)
             /\ Text!compare_caseless(u, v) <= 0 /\ Text!compare_caseless(v, w) <= 0
                  => Text!compare_caseless(u, w) <= 0
             /\ Text!equal_caseless(u, v) = (Text!CaselessCompare(u, v) = 0)
             /\ Text!EqualCaselessCString(u, v) = Text!CaselessEqual(v, u)
             /\ Text!CaselessStart(u, v)
                  = Text!IsPrefix([k \in DOMAIN u |-> Text!to_upper(u[k])],
                                  [k \in DOMAIN v |-> Text!to_upper(v[k])])
  BY CaselessLaws DEF Uppered
<1> QED
  BY <1>2, <1>3 DEF Text!CaselessIsOrder

-----------------------------------------------------------------------------
(* Loops over a text.                                                      *)

\* Induction over the positions of a text.
LEMMA UpTo ==
  ASSUME NEW n \in Nat, NEW G \in SUBSET Nat, 0 \in G,
         \A k \in Nat : k < n /\ k \in G => k + 1 \in G
  PROVE  \A k \in 0 .. n : k \in G
<1> DEFINE Bad == {k \in 0 .. n : k \notin G}
<1>1. ASSUME Bad # {} PROVE FALSE
  <2>1. Bad \in SUBSET Nat
    OBVIOUS
  <2>2. PICK m \in Bad : \A k \in Bad : m <= k
    BY <1>1, <2>1, LeastNatural
  <2>3. m \in Nat /\ m <= n /\ m \notin G /\ m # 0
    OBVIOUS
  <2>4. m - 1 \in Nat /\ m - 1 < n /\ m - 1 + 1 = m /\ m - 1 \in 0 .. n
    BY <2>3
  <2>5. m - 1 \notin Bad
    BY <2>2, <2>3, <2>4
  <2>6. m - 1 \in G
    BY <2>4, <2>5
  <2> QED
    BY <2>3, <2>4, <2>6
<1> QED
  BY <1>1

LEMMA TextMaxIs ==
  ASSUME NEW T \in SUBSET Int, NEW m \in T, \A n \in T : m >= n
  PROVE  Text!Max(T) = m
<1>1. \A n \in T : (\A k \in T : n >= k) => n = m
  OBVIOUS
<1> QED
  BY <1>1 DEF Text!Max

LEMMA TextMaxOfSome ==
  ASSUME NEW b \in Nat, NEW T \in SUBSET (0 .. b), T # {}
  PROVE  Text!Max(T) \in T /\ \A n \in T : Text!Max(T) >= n
<1> DEFINE Below == {b - n : n \in T}
<1>1. Below \in SUBSET Nat /\ Below # {}
  <2>1. \A n \in T : b - n \in Nat
    OBVIOUS
  <2>2. PICK n \in T : TRUE
    OBVIOUS
  <2> QED
    BY <2>1, <2>2
<1>2. PICK k \in Below : \A n \in Below : k <= n
  BY <1>1, LeastNatural
<1>3. PICK m \in T : k = b - m
  BY <1>2
<1>4. \A n \in T : m >= n
  <2>1. \A n \in T : k <= b - n /\ n \in Int
    BY <1>2
  <2> QED
    BY <1>3, <2>1
<1> QED
  BY <1>4, TextMaxIs

\* A fold over positions, whose steps are a function, computes something.
IsFold(g, n, b, h) ==
  \A s \in SUBSET (1 .. n) :
    g[s] = IF s = {} THEN b ELSE h[<<Text!Max(s), g[s \ {Text!Max(s)}]>>]

LEMMA FoldExists ==
  ASSUME NEW V, NEW b \in V, NEW n \in Nat, NEW h \in [(1 .. n) \X V -> V]
  PROVE  \E g \in [SUBSET (1 .. n) -> V] : IsFold(g, n, b, h)
<1> DEFINE G == {k \in Nat : k <= n => \E g \in [SUBSET (1 .. k) -> V] : IsFold(g, k, b, h)}
<1>1. 0 \in G
  <2>1. SUBSET (1 .. 0) = {{}}
    OBVIOUS
  <2>2. [s \in SUBSET (1 .. 0) |-> b] \in [SUBSET (1 .. 0) -> V]
    OBVIOUS
  <2>3. IsFold([s \in SUBSET (1 .. 0) |-> b], 0, b, h)
    BY <2>1 DEF IsFold
  <2> QED
    BY <2>2, <2>3
<1>2. ASSUME NEW k \in Nat, k < n, k \in G PROVE k + 1 \in G
  <2>1. PICK g \in [SUBSET (1 .. k) -> V] : IsFold(g, k, b, h)
    <3>1. k <= n
      BY <1>2
    <3> QED
      BY <1>2, <3>1
  <2> DEFINE f == [s \in SUBSET (1 .. k + 1) |->
                     IF k + 1 \in s THEN h[<<k + 1, g[s \ {k + 1}]>>] ELSE g[s]]
  <2>2. ASSUME NEW s \in SUBSET (1 .. k + 1)
        PROVE  /\ s \ {k + 1} \in SUBSET (1 .. k)
               /\ k + 1 \notin s => s \in SUBSET (1 .. k)
    OBVIOUS
  <2>3. \A s \in SUBSET (1 .. k + 1) : f[s] \in V
    <3>1. ASSUME NEW s \in SUBSET (1 .. k + 1) PROVE f[s] \in V
      <4>1. g[s \ {k + 1}] \in V
        BY <2>2
      <4>2. k + 1 \in 1 .. n
        BY <1>2
      <4>3. h[<<k + 1, g[s \ {k + 1}]>>] \in V
        BY <4>1, <4>2
      <4> QED
        BY <2>2, <4>3
    <3> QED
      BY <3>1
  <2>4. f \in [SUBSET (1 .. k + 1) -> V]
    BY <2>3
  <2>5. ASSUME NEW s \in SUBSET (1 .. k + 1)
        PROVE  f[s] = IF s = {} THEN b ELSE h[<<Text!Max(s), f[s \ {Text!Max(s)}]>>]
    <3>1. CASE k + 1 \in s
      <4>1. Text!Max(s) = k + 1
        <5>1. s \in SUBSET Int /\ \A i \in s : k + 1 >= i
          OBVIOUS
        <5> QED
          BY <3>1, <5>1, TextMaxIs
      <4>2. s \ {k + 1} \in SUBSET (1 .. k + 1) /\ k + 1 \notin s \ {k + 1}
        OBVIOUS
      <4>3. f[s \ {k + 1}] = g[s \ {k + 1}]
        BY <4>2
      <4>4. f[s] = h[<<k + 1, g[s \ {k + 1}]>>]
        BY <3>1
      <4> HIDE DEF f
      <4> QED
        BY <3>1, <4>1, <4>3, <4>4
    <3>2. CASE k + 1 \notin s
      <4>1. s \in SUBSET (1 .. k) /\ f[s] = g[s]
        BY <2>2, <3>2
      <4>2. \A t \in SUBSET s : f[t] = g[t]
        <5>1. ASSUME NEW t \in SUBSET s PROVE f[t] = g[t]
          <6>1. t \in SUBSET (1 .. k + 1) /\ k + 1 \notin t
            BY <3>2
          <6> QED
            BY <6>1
        <5> QED
          BY <5>1
      <4>3. s \ {Text!Max(s)} \in SUBSET s
        OBVIOUS
      <4>4. g[s] = IF s = {} THEN b ELSE h[<<Text!Max(s), g[s \ {Text!Max(s)}]>>]
        BY <2>1, <4>1 DEF IsFold
      <4> HIDE DEF f
      <4> QED
        BY <4>1, <4>2, <4>3, <4>4
    <3> QED
      BY <3>1, <3>2
  <2>6. IsFold(f, k + 1, b, h)
    <3> HIDE DEF f
    <3> QED
      BY <2>5 DEF IsFold
  <2> HIDE DEF f
  <2> QED
    BY <2>4, <2>6
<1>3. \A k \in 0 .. n : k \in G
  <2> HIDE DEF G
  <2>1. G \in SUBSET Nat
    BY DEF G
  <2> QED
    BY <1>1, <1>2, <2>1, UpTo
<1>4. n \in G /\ n <= n
  <2> HIDE DEF G
  <2>1. n \in 0 .. n /\ n <= n
    OBVIOUS
  <2> QED
    BY <1>3, <2>1
<1> QED
  BY <1>4

-----------------------------------------------------------------------------
(* The sets of characters.                                                 *)

TableStates == [table : SUBSET Codes, last : Codes, range : BOOLEAN]

EmptyTable == [table |-> {}, last |-> 0, range |-> FALSE]

NotNul == 1 .. 255

CStrings == Seq(NotNul)

LEMMA RangeIs ==
  ASSUME NEW a \in Codes, NEW b \in Codes
  PROVE  /\ Text!CharRange(a, b) \in SUBSET Codes /\ b \in Text!CharRange(a, b)
         /\ a <= b => Text!CharRange(a, b) = a .. b
<1>1. Text!CharRange(a, b) \in SUBSET Codes
  BY DEF Text!CharRange, Codes
<1>2. b \in Text!CharRange(a, b)
  <2>1. (b - a) % 256 \in 0 .. (b - a) % 256 /\ (a + ((b - a) % 256)) % 256 = b
    BY DEF Codes
  <2> QED
    BY <2>1 DEF Text!CharRange
<1>3. a <= b => Text!CharRange(a, b) = a .. b
  <2> SUFFICES ASSUME a <= b PROVE Text!CharRange(a, b) = a .. b
    OBVIOUS
  <2>1. (b - a) % 256 = b - a
    BY DEF Codes
  <2>2. \A k \in 0 .. b - a : (a + k) % 256 = a + k
    BY DEF Codes
  <2>3. \A c \in a .. b : c - a \in 0 .. b - a /\ a + (c - a) = c
    BY DEF Codes
  <2>4. \A k \in 0 .. b - a : a + k \in a .. b
    BY DEF Codes
  <2> QED
    BY <2>1, <2>2, <2>3, <2>4 DEF Text!CharRange
<1> QED
  BY <1>1, <1>2, <1>3

LEMMA TableStepIs ==
  ASSUME NEW str \in CStrings, NEW s \in TableStates, NEW i \in 1 .. Len(str)
  PROVE  Text!TableStep(str, s, i) \in TableStates
<1>1. str[i] \in Codes
  <2>1. str[i] \in NotNul
    BY DEF CStrings
  <2> QED
    BY <2>1 DEF Codes, NotNul
<1>2. Text!CharRange(s.last, str[i]) \in SUBSET Codes
  BY <1>1, RangeIs DEF TableStates
<1> QED
  BY <1>1, <1>2 DEF TableStates, Text!TableStep

LEMMA CharTableIs ==
  ASSUME NEW str \in CStrings
  PROVE  \E S \in [0 .. Len(str) -> TableStates] :
           /\ S[0] = EmptyTable
           /\ \A k \in 1 .. Len(str) : S[k] = Text!TableStep(str, S[k - 1], k)
           /\ Text!CharTable(str) = S[Len(str)].table
<1> DEFINE n == Len(str)
<1> DEFINE Iter == CHOOSE iter : iter =
      [s \in SUBSET (DOMAIN [i \in 1 .. Len(str) |-> i]) |->
         IF s = {} THEN [table |-> {}, last |-> Text!NUL, range |-> FALSE]
         ELSE Text!TableStep(str, iter[s \ {Text!Max(s)}],
                             [i \in 1 .. Len(str) |-> i][Text!Max(s)])]
<1>1. Text!CharTable(str) = Iter[DOMAIN [i \in 1 .. Len(str) |-> i]].table
  BY DEF Text!CharTable, Text!FoldLeft, Text!MapThenFoldSet
<1>2. n \in Nat /\ DOMAIN [i \in 1 .. Len(str) |-> i] = 1 .. n
  BY DEF CStrings
<1> DEFINE h == [x \in (1 .. n) \X TableStates |-> Text!TableStep(str, x[2], x[1])]
<1>3. h \in [(1 .. n) \X TableStates -> TableStates]
  <2>1. \A x \in (1 .. n) \X TableStates : x[1] \in 1 .. n /\ x[2] \in TableStates
    OBVIOUS
  <2>2. \A x \in (1 .. n) \X TableStates : Text!TableStep(str, x[2], x[1]) \in TableStates
    BY <2>1, TableStepIs
  <2> QED
    BY <2>2
<1>4. EmptyTable \in TableStates
  BY DEF EmptyTable, TableStates, Codes
<1>5. PICK g \in [SUBSET (1 .. n) -> TableStates] : IsFold(g, n, EmptyTable, h)
  <2> HIDE DEF h, n
  <2> QED
    BY <1>2, <1>3, <1>4, FoldExists
<1>6. ASSUME NEW s \in SUBSET (1 .. n), s # {}
      PROVE  Text!Max(s) \in s /\ s \ {Text!Max(s)} \in SUBSET (1 .. n)
  <2>1. s \in SUBSET (0 .. n)
    BY <1>2
  <2> QED
    BY <1>2, <1>6, <2>1, TextMaxOfSome
<1>7. g = [s \in SUBSET (DOMAIN [i \in 1 .. Len(str) |-> i]) |->
             IF s = {} THEN [table |-> {}, last |-> Text!NUL, range |-> FALSE]
             ELSE Text!TableStep(str, g[s \ {Text!Max(s)}],
                                 [i \in 1 .. Len(str) |-> i][Text!Max(s)])]
  <2>1. ASSUME NEW s \in SUBSET (1 .. n)
        PROVE  g[s] = IF s = {} THEN [table |-> {}, last |-> Text!NUL, range |-> FALSE]
                      ELSE Text!TableStep(str, g[s \ {Text!Max(s)}],
                                          [i \in 1 .. Len(str) |-> i][Text!Max(s)])
    <3>1. g[s] = IF s = {} THEN EmptyTable ELSE h[<<Text!Max(s), g[s \ {Text!Max(s)}]>>]
      BY <1>5 DEF IsFold
    <3>2. EmptyTable = [table |-> {}, last |-> Text!NUL, range |-> FALSE]
      BY DEF EmptyTable, Text!NUL
    <3>3. CASE s = {}
      BY <3>1, <3>2, <3>3
    <3>4. CASE s # {}
      <4> DEFINE m == Text!Max(s)
      <4> DEFINE r == g[s \ {Text!Max(s)}]
      <4>1. m \in 1 .. n /\ r \in TableStates
        BY <1>6, <3>4
      <4>2. [i \in 1 .. Len(str) |-> i][m] = m
        BY <4>1
      <4>3. h[<<m, r>>] = Text!TableStep(str, r, m)
        <5> HIDE DEF m, r
        <5> QED
          BY <4>1
      <4>4. g[s] = h[<<m, r>>]
        BY <3>1, <3>4
      <4> QED
        BY <3>4, <4>2, <4>3, <4>4
    <3> QED
      BY <3>3, <3>4
  <2> QED
    BY <1>2, <2>1
<1>8. Iter = [s \in SUBSET (DOMAIN [i \in 1 .. Len(str) |-> i]) |->
             IF s = {} THEN [table |-> {}, last |-> Text!NUL, range |-> FALSE]
             ELSE Text!TableStep(str, Iter[s \ {Text!Max(s)}],
                                 [i \in 1 .. Len(str) |-> i][Text!Max(s)])]
  BY <1>7
<1> DEFINE S == [k \in 0 .. n |-> Iter[1 .. k]]
<1> HIDE DEF Iter, h
<1>9. Iter[{}] = EmptyTable /\ 1 .. 0 = {}
  <2>1. {} \in SUBSET (DOMAIN [i \in 1 .. Len(str) |-> i])
    OBVIOUS
  <2> QED
    BY <1>8, <2>1 DEF EmptyTable, Text!NUL
<1>10. ASSUME NEW k \in 1 .. n
       PROVE  Iter[1 .. k] = Text!TableStep(str, Iter[1 .. k - 1], k)
  <2>1. 1 .. k \in SUBSET (DOMAIN [i \in 1 .. Len(str) |-> i]) /\ 1 .. k # {}
    <3>1. k \in 1 .. k /\ \A i \in 1 .. k : i \in 1 .. n
      BY <1>2
    <3>2. 1 .. k \subseteq 1 .. n
      BY <3>1
    <3> QED
      BY <1>2, <3>1, <3>2
  <2>2. Text!Max(1 .. k) = k
    <3>1. 1 .. k \in SUBSET Int /\ k \in 1 .. k /\ \A i \in 1 .. k : k >= i
      BY <1>2
    <3> QED
      BY <3>1, TextMaxIs
  <2>3. (1 .. k) \ {k} = 1 .. k - 1
    BY <1>2
  <2>4. [i \in 1 .. Len(str) |-> i][k] = k
    BY <1>2
  <2>5. Iter[1 .. k] = Text!TableStep(str, Iter[(1 .. k) \ {Text!Max(1 .. k)}],
                                      [i \in 1 .. Len(str) |-> i][Text!Max(1 .. k)])
    BY <1>8, <2>1
  <2> QED
    BY <2>2, <2>3, <2>4, <2>5
<1>11. \A k \in 0 .. n : Iter[1 .. k] \in TableStates
  <2> DEFINE G == {k \in Nat : k <= n => Iter[1 .. k] \in TableStates}
  <2>1. 0 \in G
    BY <1>4, <1>9
  <2>2. ASSUME NEW k \in Nat, k < n, k \in G PROVE k + 1 \in G
    <3>1. k <= n /\ k + 1 \in 1 .. n /\ k + 1 - 1 = k
      BY <1>2, <2>2
    <3>2. Iter[1 .. k + 1] = Text!TableStep(str, Iter[1 .. k], k + 1)
      BY <1>10, <3>1
    <3>3. Iter[1 .. k] \in TableStates
      BY <2>2, <3>1
    <3> QED
      BY <3>1, <3>2, <3>3, TableStepIs
  <2>3. \A k \in 0 .. n : k \in G
    <3>1. G \in SUBSET Nat
      OBVIOUS
    <3> HIDE DEF G
    <3> QED
      BY <1>2, <2>1, <2>2, <3>1, UpTo
  <2> QED
    BY <1>2, <2>3
<1>12. /\ S \in [0 .. n -> TableStates] /\ S[0] = EmptyTable
       /\ \A k \in 1 .. n : S[k] = Text!TableStep(str, S[k - 1], k)
       /\ S[n] = Iter[1 .. n]
  <2>1. \A k \in 1 .. n : k \in 0 .. n /\ k - 1 \in 0 .. n
    BY <1>2
  <2>2. 0 \in 0 .. n /\ n \in 0 .. n
    BY <1>2
  <2> HIDE DEF n
  <2> QED
    BY <1>9, <1>10, <1>11, <2>1, <2>2
<1>13. Text!CharTable(str) = Iter[1 .. n].table
  BY <1>1, <1>2
<1> QED
  <2> HIDE DEF S
  <2> QED
    BY <1>12, <1>13

\* The dashes that are neither first nor last.
Inner(str) == {i \in 2 .. Len(str) - 1 : str[i] = Text!Dash}

\* What the loop of CharTable has after k characters.
Scanned(str, s, k) ==
  /\ s \in TableStates
  /\ s.last = IF s.range THEN str[k - 1] ELSE IF k = 0 THEN 0 ELSE str[k]
  /\ s.range => k \in Inner(str)
  /\ k \in Inner(str) /\ k - 1 \notin Inner(str) => s.range
  /\ \A j \in 1 .. k : j \notin Inner(str) => str[j] \in s.table
  /\ Inner(str) = {} => s.table = {str[j] : j \in 1 .. k}
  /\ \A i \in Inner(str) : Inner(str) = {i} =>
       s.table = {str[j] : j \in 1 .. k \ {i}}
                   \cup (IF k <= i THEN {} ELSE Text!CharRange(str[i - 1], str[i + 1]))

LEMMA ScanStep ==
  ASSUME NEW str \in CStrings, NEW k \in 1 .. Len(str), NEW s,
         Scanned(str, s, k - 1)
  PROVE  Scanned(str, Text!TableStep(str, s, k), k)
<1> DEFINE t == Text!TableStep(str, s, k)
<1> DEFINE n == Len(str)
<1>1. n \in Nat /\ k \in Nat /\ k >= 1 /\ k <= n /\ Len(str) = n
  BY DEF CStrings
<1>2. \A i \in 1 .. n : str[i] \in NotNul
  BY DEF CStrings
<1>3. s \in TableStates /\ t \in TableStates
  BY TableStepIs DEF Scanned
<1>4. \A i \in 1 .. n : str[i] \in Codes /\ str[i] # 0
  <2>1. \A c \in NotNul : c \in Codes /\ c # 0
    BY DEF NotNul, Codes
  <2> QED
    BY <1>2, <2>1
<1>5. \A i \in Int : i \in Inner(str) <=> i >= 2 /\ i <= n - 1 /\ str[i] = Text!Dash
  BY <1>1 DEF Inner
<1>6. \A j \in 1 .. k : j = k \/ j \in 1 .. k - 1
  BY <1>1
<1> HIDE DEF n
<1>7. CASE s.range
  <2>1. /\ t.table = s.table \cup Text!CharRange(s.last, str[k])
        /\ t.last = str[k] /\ t.range = FALSE
    BY <1>7 DEF Text!TableStep
  <2>2. k - 1 \in Inner(str) /\ s.last = str[k - 1 - 1] /\ k - 1 \in Int /\ k \in Int
    BY <1>1, <1>7 DEF Scanned
  <2>3. k >= 3 /\ k - 1 - 1 \in 1 .. n /\ k \in 1 .. n
    BY <1>1, <1>5, <2>2
  <2>4. str[k] \in Text!CharRange(s.last, str[k])
    BY <1>4, <2>2, <2>3, RangeIs
  <2>5. \A j \in 1 .. k : j \notin Inner(str) => str[j] \in t.table
    BY <1>6, <2>1, <2>4 DEF Scanned
  <2>6. ASSUME NEW i \in Inner(str), Inner(str) = {i}
        PROVE  t.table = {str[j] : j \in 1 .. k \ {i}} \cup Text!CharRange(str[i - 1], str[i + 1])
    <3>1. i = k - 1
      BY <2>2, <2>6
    <3>2. k - 1 <= i /\ i - 1 = k - 1 - 1 /\ i + 1 = k
      BY <1>1, <3>1
    <3>3. s.table = {str[j] : j \in 1 .. (k - 1) \ {i}}
      BY <2>6, <3>2 DEF Scanned
    <3>4. t.table = {str[j] : j \in 1 .. (k - 1) \ {i}} \cup Text!CharRange(str[i - 1], str[i + 1])
      BY <2>1, <2>2, <3>2, <3>3
    <3>5. str[k] \in Text!CharRange(str[i - 1], str[i + 1])
      BY <2>2, <2>4, <3>2
    <3>6. \A j \in 1 .. k \ {i} : j = k \/ j \in 1 .. (k - 1) \ {i}
      BY <1>6
    <3>7. \A j \in 1 .. (k - 1) \ {i} : j \in 1 .. k \ {i}
      BY <1>1
    <3> QED
      BY <3>4, <3>5, <3>6, <3>7
  <2>7. \A i \in Inner(str) : Inner(str) = {i} => ~(k <= i)
    <3>1. ~(k <= k - 1)
      BY <1>1
    <3> QED
      BY <2>2, <3>1
  <2>8. /\ k \in Inner(str) /\ k - 1 \notin Inner(str) => t.range
        /\ Inner(str) # {} /\ k # 0 /\ t.range = FALSE
    BY <1>1, <2>1, <2>2
  <2> HIDE DEF t
  <2>9. t.last = IF t.range THEN str[k - 1] ELSE IF k = 0 THEN 0 ELSE str[k]
    BY <2>1, <2>8
  <2>10. t.range => k \in Inner(str)
    BY <2>1
  <2>11. Inner(str) = {} => t.table = {str[j] : j \in 1 .. k}
    BY <2>8
  <2>12. \A i \in Inner(str) : Inner(str) = {i} =>
            t.table = {str[j] : j \in 1 .. k \ {i}}
                        \cup (IF k <= i THEN {} ELSE Text!CharRange(str[i - 1], str[i + 1]))
    BY <2>6, <2>7
  <2>13. t \in TableStates
    BY <1>3
  <2>14. Scanned(str, t, k)
    BY ONLY <2>5, <2>8, <2>9, <2>10, <2>11, <2>12, <2>13 DEF Scanned
  <2> QED
    BY <2>14 DEF t
<1>8. CASE ~s.range /\ str[k] = Text!Dash /\ s.last # Text!NUL /\ k < Len(str)
  <2>1. t = [s EXCEPT !.range = TRUE]
    BY <1>8 DEF Text!TableStep
  <2>2. t.table = s.table /\ t.last = s.last /\ t.range = TRUE
    BY <1>3, <2>1 DEF TableStates
  <2>3. k # 1
    <3>1. k = 1 => k - 1 = 0
      OBVIOUS
    <3>2. k - 1 = 0 => s.last = 0
      BY <1>8 DEF Scanned
    <3> QED
      BY <1>8, <3>1, <3>2 DEF Text!NUL
  <2>4. k \in Inner(str) /\ k \in Int /\ k - 1 # 0
    BY <1>1, <1>5, <1>8, <2>3
  <2>5. t.last = str[k - 1]
    BY <1>8, <2>2, <2>4 DEF Scanned
  <2>6. \A j \in 1 .. k : j \notin Inner(str) => str[j] \in t.table
    BY <1>6, <2>2, <2>4 DEF Scanned
  <2>7. ASSUME NEW i \in Inner(str), Inner(str) = {i}
        PROVE  t.table = {str[j] : j \in 1 .. k \ {i}} /\ k <= i
    <3>1. i = k
      BY <2>4, <2>7
    <3>2. k - 1 <= i /\ k <= i
      BY <1>1, <3>1
    <3>3. s.table = {str[j] : j \in 1 .. (k - 1) \ {i}}
      BY <2>7, <3>2 DEF Scanned
    <3>4. 1 .. (k - 1) \ {i} = 1 .. k \ {i}
      BY <1>1, <3>1
    <3> QED
      BY <2>2, <3>2, <3>3, <3>4
  <2>8. Inner(str) # {}
    BY <2>4
  <2> HIDE DEF t
  <2>9. t.last = IF t.range THEN str[k - 1] ELSE IF k = 0 THEN 0 ELSE str[k]
    BY <2>2, <2>5
  <2>10. t.range => k \in Inner(str)
    BY <2>4
  <2>11. Inner(str) = {} => t.table = {str[j] : j \in 1 .. k}
    BY <2>8
  <2>12. \A i \in Inner(str) : Inner(str) = {i} =>
            t.table = {str[j] : j \in 1 .. k \ {i}}
                        \cup (IF k <= i THEN {} ELSE Text!CharRange(str[i - 1], str[i + 1]))
    BY <2>7
  <2>13. t \in TableStates
    BY <1>3
  <2>14. Scanned(str, t, k)
    BY ONLY <2>2, <2>6, <2>9, <2>10, <2>11, <2>12, <2>13 DEF Scanned
  <2> QED
    BY <2>14 DEF t
<1>9. CASE ~s.range /\ ~(str[k] = Text!Dash /\ s.last # Text!NUL /\ k < Len(str))
  <2>1. t.table = s.table \cup {str[k]} /\ t.last = str[k] /\ t.range = FALSE
    BY <1>9 DEF Text!TableStep
  <2>2. k \in Int /\ k # 0 /\ k \in 1 .. n
    BY <1>1
  <2>3. \A j \in 1 .. k : j \notin Inner(str) => str[j] \in t.table
    BY <1>6, <2>1 DEF Scanned
  <2>4. k \notin Inner(str)
    <3>1. ASSUME k \in Inner(str) PROVE FALSE
      <4>1. k >= 2 /\ k <= n - 1 /\ str[k] = Text!Dash
        BY <1>5, <2>2, <3>1
      <4>2. k < Len(str) /\ k - 1 \in 1 .. n /\ k - 1 # 0
        BY <1>1, <4>1
      <4>3. s.last = str[k - 1]
        BY <1>9, <4>2 DEF Scanned
      <4>4. s.last # Text!NUL
        BY <1>4, <4>2, <4>3 DEF Text!NUL
      <4> QED
        BY <1>9, <4>1, <4>2, <4>4
    <3> QED
      BY <3>1
  <2>5. Inner(str) = {} => t.table = {str[j] : j \in 1 .. k}
    <3>1. Inner(str) = {} => s.table = {str[j] : j \in 1 .. k - 1}
      BY DEF Scanned
    <3>2. {str[j] : j \in 1 .. k} = {str[j] : j \in 1 .. k - 1} \cup {str[k]}
      <4>1. \A j \in 1 .. k - 1 : j \in 1 .. k
        BY <1>1
      <4>2. k \in 1 .. k
        BY <1>1
      <4> QED
        BY <1>6, <4>1, <4>2
    <3> QED
      BY <2>1, <3>1, <3>2
  <2>6. ASSUME NEW i \in Inner(str), Inner(str) = {i}
        PROVE  t.table = {str[j] : j \in 1 .. k \ {i}}
                   \cup (IF k <= i THEN {} ELSE Text!CharRange(str[i - 1], str[i + 1]))
    <3>1. i \in Int /\ i # k
      BY <2>4 DEF Inner
    <3>2. s.table = {str[j] : j \in 1 .. (k - 1) \ {i}}
                   \cup (IF k - 1 <= i THEN {} ELSE Text!CharRange(str[i - 1], str[i + 1]))
      BY <2>6 DEF Scanned
    <3>3. {str[j] : j \in 1 .. k \ {i}} = {str[j] : j \in 1 .. (k - 1) \ {i}} \cup {str[k]}
      <4>1. \A j \in 1 .. (k - 1) \ {i} : j \in 1 .. k \ {i}
        BY <1>1
      <4>2. k \in 1 .. k \ {i}
        BY <1>1, <3>1
      <4>3. \A j \in 1 .. k \ {i} : j = k \/ j \in 1 .. (k - 1) \ {i}
        BY <1>6
      <4> QED
        BY <4>1, <4>2, <4>3
    <3>4. CASE k <= i
      <4>1. k - 1 <= i
        BY <1>1, <3>1, <3>4
      <4> QED
        BY <2>1, <3>2, <3>3, <3>4, <4>1
    <3>5. CASE ~(k <= i) /\ ~(k - 1 <= i)
      BY <2>1, <3>2, <3>3, <3>5
    <3>6. CASE ~(k <= i) /\ k - 1 <= i
      <4>1. k - 1 = i /\ i # k - 1 - 1
        BY <1>1, <3>1, <3>6
      <4>2. k - 1 - 1 \notin Inner(str)
        BY <2>6, <4>1
      <4> QED
        BY <1>9, <2>6, <4>1, <4>2 DEF Scanned
    <3> QED
      BY <3>4, <3>5, <3>6
  <2> HIDE DEF t
  <2>7. t.last = IF t.range THEN str[k - 1] ELSE IF k = 0 THEN 0 ELSE str[k]
    BY <2>1, <2>2
  <2>8. t.range => k \in Inner(str)
    BY <2>1
  <2>9. Inner(str) = {} => t.table = {str[j] : j \in 1 .. k}
    BY <2>5
  <2>10. \A i \in Inner(str) : Inner(str) = {i} =>
            t.table = {str[j] : j \in 1 .. k \ {i}}
                        \cup (IF k <= i THEN {} ELSE Text!CharRange(str[i - 1], str[i + 1]))
    BY <2>6
  <2>11. t \in TableStates
    BY <1>3
  <2>14. Scanned(str, t, k)
    BY ONLY <2>3, <2>4, <2>7, <2>8, <2>9, <2>10, <2>11 DEF Scanned
  <2> QED
    BY <2>14 DEF t
<1> QED
  BY <1>7, <1>8, <1>9

LEMMA CharTableScans ==
  ASSUME NEW str \in CStrings
  PROVE  \E s : Scanned(str, s, Len(str)) /\ Text!CharTable(str) = s.table
<1>1. PICK S \in [0 .. Len(str) -> TableStates] :
        /\ S[0] = EmptyTable
        /\ \A k \in 1 .. Len(str) : S[k] = Text!TableStep(str, S[k - 1], k)
        /\ Text!CharTable(str) = S[Len(str)].table
  BY CharTableIs
<1>2. Len(str) \in Nat
  BY DEF CStrings
<1> DEFINE G == {k \in Nat : k <= Len(str) => Scanned(str, S[k], k)}
<1>3. 0 \in G
  <2>1. S[0] = EmptyTable /\ EmptyTable \in TableStates
    BY <1>1 DEF EmptyTable, TableStates, Codes
  <2>2. \A i \in Inner(str) : 0 <= i /\ i # 0
    BY <1>2 DEF Inner
  <2>3. 1 .. 0 = {}
    OBVIOUS
  <2>4. EmptyTable.last = 0 /\ EmptyTable.range = FALSE /\ EmptyTable.table = {}
    BY DEF EmptyTable
  <2>5. Scanned(str, EmptyTable, 0)
    BY <2>1, <2>2, <2>3, <2>4 DEF Scanned
  <2> QED
    BY <2>1, <2>5
<1>4. ASSUME NEW k \in Nat, k < Len(str), k \in G PROVE k + 1 \in G
  <2>1. k <= Len(str) /\ k + 1 \in 1 .. Len(str) /\ k + 1 - 1 = k
    BY <1>2, <1>4
  <2>2. Scanned(str, S[k + 1 - 1], k + 1 - 1)
    BY <1>4, <2>1
  <2>3. Scanned(str, Text!TableStep(str, S[k + 1 - 1], k + 1), k + 1)
    BY <2>1, <2>2, ScanStep
  <2>4. S[k + 1] = Text!TableStep(str, S[k + 1 - 1], k + 1)
    BY <1>1, <2>1
  <2>5. Scanned(str, S[k + 1], k + 1)
    BY <2>3, <2>4
  <2> QED
    BY <2>5
<1>5. \A k \in 0 .. Len(str) : k \in G
  <2>1. G \in SUBSET Nat
    OBVIOUS
  <2> HIDE DEF G
  <2> QED
    BY <1>2, <1>3, <1>4, <2>1, UpTo
<1>6. Scanned(str, S[Len(str)], Len(str))
  BY <1>2, <1>5
<1> QED
  BY <1>1, <1>6

LEMMA TablesAreAsWritten ==
  ASSUME use = "set" => text \in CStrings
  PROVE  Text!TableAsWritten
<1> SUFFICES ASSUME use = "set", text \in CStrings PROVE Text!TableAsWritten
  BY DEF Text!TableAsWritten
<1>1. PICK s : Scanned(text, s, Len(text)) /\ Text!CharTable(text) = s.table
  BY CharTableScans
<1> DEFINE set == Text!CharTable(text)
<1>2. DOMAIN text = 1 .. Len(text) /\ Len(text) \in Nat
  BY DEF CStrings
<1>3. \A i \in DOMAIN text \ Inner(text) : text[i] \in set
  BY <1>1, <1>2 DEF Scanned
<1>4. Inner(text) = {} => set = {text[i] : i \in DOMAIN text}
  BY <1>1, <1>2 DEF Scanned
<1>5. ASSUME NEW i \in Inner(text), Inner(text) = {i}, text[i - 1] <= text[i + 1]
      PROVE  set = {text[k] : k \in DOMAIN text \ {i}} \cup (text[i - 1] .. text[i + 1])
  <2>1. i - 1 \in 1 .. Len(text) /\ i + 1 \in 1 .. Len(text) /\ ~(Len(text) <= i)
    BY <1>2 DEF Inner
  <2>2. text[i - 1] \in Codes /\ text[i + 1] \in Codes
    <3>1. \A j \in 1 .. Len(text) : text[j] \in NotNul
      BY DEF CStrings
    <3>2. NotNul \subseteq Codes
      BY DEF NotNul, Codes
    <3> QED
      BY <2>1, <3>1, <3>2
  <2>3. Text!CharRange(text[i - 1], text[i + 1]) = text[i - 1] .. text[i + 1]
    BY <1>5, <2>2, RangeIs
  <2>4. s.table = {text[j] : j \in 1 .. Len(text) \ {i}}
                    \cup Text!CharRange(text[i - 1], text[i + 1])
    BY <1>1, <1>5, <2>1 DEF Scanned
  <2> QED
    BY <1>1, <1>2, <2>3, <2>4
<1> HIDE DEF set
<1>6. /\ \A i \in DOMAIN text \ Inner(text) : text[i] \in set
      /\ Inner(text) = {} => set = {text[i] : i \in DOMAIN text}
      /\ \A i \in Inner(text) : Inner(text) = {i} /\ text[i - 1] <= text[i + 1] =>
           set = {text[k] : k \in DOMAIN text \ {i}} \cup (text[i - 1] .. text[i + 1])
  BY <1>3, <1>4, <1>5
<1> QED
  BY <1>6 DEF Text!TableAsWritten, Inner, set

-----------------------------------------------------------------------------
(* Bytes in hexadecimal.                                                   *)

LEMMA HexDigitIs ==
  ASSUME NEW n \in 0 .. 15, NEW low \in BOOLEAN
  PROVE  Text!HexDigit(n, low) \in Int /\ Text!hex_to_int(Text!HexDigit(n, low)) = n
<1>1. CASE n < 10
  <2>1. Text!HexDigit(n, low) = 48 + n
    BY <1>1 DEF Text!HexDigit, Text!Zero
  <2> QED
    BY <1>1, <2>1 DEF Text!hex_to_int, Text!Zero
<1>2. CASE n >= 10
  <2>1. Text!HexDigit(n, low) = n - 10 + (IF low THEN 97 ELSE 65)
    BY <1>2 DEF Text!HexDigit
  <2>2. (n - 10 + (IF low THEN 97 ELSE 65)) % 16 = n - 9
    BY <1>2
  <2>3. n - 10 + (IF low THEN 97 ELSE 65) > 57
    BY <1>2
  <2> QED
    BY <2>1, <2>2, <2>3 DEF Text!hex_to_int, Text!Zero
<1> QED
  BY <1>1, <1>2

\* The digit at a place of the text of some bytes.
HexDigitAt(bytes, low, j) ==
  IF j % 2 = 1 THEN Text!HexDigit(bytes[(j + 1) \div 2] \div 16, low)
               ELSE Text!HexDigit(bytes[j \div 2] % 16, low)

HexText(bytes, low, n) == [j \in 1 .. 2 * n |-> HexDigitAt(bytes, low, j)]

LEMMA HexTextIs ==
  ASSUME NEW bytes \in Texts, NEW low \in BOOLEAN, NEW n \in 0 .. Len(bytes)
  PROVE  /\ HexText(bytes, low, n) \in Seq(Int) /\ Len(HexText(bytes, low, n)) = 2 * n
         /\ \A i \in 1 .. n :
              /\ HexText(bytes, low, n)[2 * i - 1] = Text!HexDigit(bytes[i] \div 16, low)
              /\ HexText(bytes, low, n)[2 * i] = Text!HexDigit(bytes[i] % 16, low)
              /\ Text!hex_to_int(HexText(bytes, low, n)[2 * i - 1]) * 16
                   + Text!hex_to_int(HexText(bytes, low, n)[2 * i]) = bytes[i]
<1>1. n \in Nat /\ Len(bytes) \in Nat /\ n <= Len(bytes)
  BY DEF Texts
<1>2. \A i \in 1 .. n : bytes[i] \in Codes
  BY <1>1 DEF Texts
<1>3. \A c \in Codes : /\ c \div 16 \in 0 .. 15 /\ c % 16 \in 0 .. 15
                       /\ (c \div 16) * 16 + (c % 16) = c
  BY DEF Codes
<1>4. ASSUME NEW j \in 1 .. 2 * n PROVE HexDigitAt(bytes, low, j) \in Int
  <2>1. CASE j % 2 = 1
    <3>1. (j + 1) \div 2 \in 1 .. n
      BY <1>1, <2>1
    <3>2. bytes[(j + 1) \div 2] \div 16 \in 0 .. 15
      BY <1>2, <1>3, <3>1
    <3> QED
      BY <2>1, <3>2, HexDigitIs DEF HexDigitAt
  <2>2. CASE j % 2 # 1
    <3>1. j \div 2 \in 1 .. n
      BY <1>1, <2>2
    <3>2. bytes[j \div 2] % 16 \in 0 .. 15
      BY <1>2, <1>3, <3>1
    <3> QED
      BY <2>2, <3>2, HexDigitIs DEF HexDigitAt
  <2> QED
    BY <2>1, <2>2
<1>5. HexText(bytes, low, n) \in Seq(Int) /\ Len(HexText(bytes, low, n)) = 2 * n
  BY <1>1, <1>4 DEF HexText
<1>6. ASSUME NEW i \in 1 .. n
      PROVE  /\ HexText(bytes, low, n)[2 * i - 1] = Text!HexDigit(bytes[i] \div 16, low)
             /\ HexText(bytes, low, n)[2 * i] = Text!HexDigit(bytes[i] % 16, low)
  <2>1. /\ 2 * i - 1 \in 1 .. 2 * n /\ (2 * i - 1) % 2 = 1 /\ (2 * i - 1 + 1) \div 2 = i
        /\ 2 * i \in 1 .. 2 * n /\ (2 * i) % 2 = 0 /\ (2 * i) \div 2 = i
    BY <1>1
  <2> QED
    BY <2>1 DEF HexText, HexDigitAt
<1>7. ASSUME NEW i \in 1 .. n
      PROVE  Text!hex_to_int(HexText(bytes, low, n)[2 * i - 1]) * 16
                   + Text!hex_to_int(HexText(bytes, low, n)[2 * i]) = bytes[i]
  <2>1. bytes[i] \in Codes
    BY <1>2
  <2>2. /\ Text!hex_to_int(HexText(bytes, low, n)[2 * i - 1]) = bytes[i] \div 16
        /\ Text!hex_to_int(HexText(bytes, low, n)[2 * i]) = bytes[i] % 16
    BY <1>3, <1>6, <2>1, HexDigitIs
  <2> QED
    BY <1>3, <2>1, <2>2
<1> QED
  BY <1>5, <1>6, <1>7

LEMMA PairsAre ==
  ASSUME NEW bytes \in Texts, NEW low \in BOOLEAN
  PROVE  Text!FlattenSeq([i \in 1 .. Len(bytes) |-> Text!HexPair(bytes[i], low)])
           = HexText(bytes, low, Len(bytes))
<1> DEFINE n == Len(bytes)
<1> DEFINE pairs == [i \in 1 .. Len(bytes) |-> Text!HexPair(bytes[i], low)]
<1>1. n \in Nat
  BY DEF Texts
<1>2. pairs \in Seq(Seq(Int)) /\ Len(pairs) = n
  <2>1. \A i \in 1 .. n : bytes[i] \in Codes
    BY DEF Texts
  <2>2. \A c \in Codes : c \div 16 \in 0 .. 15 /\ c % 16 \in 0 .. 15
    BY DEF Codes
  <2>3. ASSUME NEW i \in 1 .. n PROVE Text!HexPair(bytes[i], low) \in Seq(Int)
    <3>1. bytes[i] \div 16 \in 0 .. 15 /\ bytes[i] % 16 \in 0 .. 15
      BY <2>1, <2>2
    <3>2. /\ Text!HexDigit(bytes[i] \div 16, low) \in Int
          /\ Text!HexDigit(bytes[i] % 16, low) \in Int
      BY <3>1, HexDigitIs
    <3>3. \A a, b \in Int : <<a, b>> \in Seq(Int)
      OBVIOUS
    <3> QED
      BY <3>2, <3>3 DEF Text!HexPair
  <2> QED
    BY <1>1, <2>3
<1>3. \A i \in 1 .. n : pairs[i] = <<Text!HexDigit(bytes[i] \div 16, low),
                                    Text!HexDigit(bytes[i] % 16, low)>>
  BY DEF Text!HexPair
<1> HIDE DEF pairs
<1>4. CASE n = 0
  <2>1. Text!FlattenSeq(pairs) = pairs
    BY <1>2, <1>4 DEF Text!FlattenSeq
  <2>2. HexText(bytes, low, Len(bytes)) \in Seq(Int) /\ Len(HexText(bytes, low, Len(bytes))) = 0
    BY <1>1, <1>4, HexTextIs
  <2>3. \A s \in Seq(Int), t \in Seq(Seq(Int)) : Len(s) = 0 /\ Len(t) = 0 => s = t
    OBVIOUS
  <2> QED
    BY <1>2, <1>4, <2>1, <2>2, <2>3 DEF pairs
<1>5. CASE n # 0
  <2> DEFINE Flat == CHOOSE flatten : flatten =
        [i \in 1 .. Len(pairs) |-> IF i = 1 THEN pairs[i] ELSE flatten[i - 1] \o pairs[i]]
  <2>1. Text!FlattenSeq(pairs) = Flat[Len(pairs)]
    BY <1>2, <1>5 DEF Text!FlattenSeq
  <2> DEFINE f == [i \in 1 .. n |-> HexText(bytes, low, i)]
  <2>2. ASSUME NEW i \in 1 .. n
        PROVE  HexText(bytes, low, i)
                 = IF i = 1 THEN pairs[i] ELSE HexText(bytes, low, i - 1) \o pairs[i]
    <3> DEFINE before == HexText(bytes, low, i - 1)
    <3> DEFINE all == HexText(bytes, low, i)
    <3>1. /\ before \in Seq(Int) /\ Len(before) = 2 * (i - 1)
          /\ all \in Seq(Int) /\ Len(all) = 2 * i
          /\ all[2 * i - 1] = Text!HexDigit(bytes[i] \div 16, low)
          /\ all[2 * i] = Text!HexDigit(bytes[i] % 16, low)
      <4>1. i \in 0 .. Len(bytes) /\ i - 1 \in 0 .. Len(bytes) /\ i \in 1 .. i
        BY <1>1
      <4> QED
        BY <4>1, HexTextIs
    <3>2. \A j \in 1 .. 2 * (i - 1) : all[j] = before[j]
      <4>1. \A j \in 1 .. 2 * (i - 1) : j \in 1 .. 2 * i
        BY <1>1
      <4> QED
        BY <4>1 DEF HexText
    <3>3. pairs[i] = <<all[2 * i - 1], all[2 * i]>>
      BY <1>3, <3>1
    <3> HIDE DEF before, all
    <3>4. pairs[i] \in Seq(Int) /\ Len(pairs[i]) = 2
          /\ pairs[i][1] = all[2 * i - 1] /\ pairs[i][2] = all[2 * i]
      <4>1. all[2 * i - 1] \in Int /\ all[2 * i] \in Int
        <5>1. 2 * i - 1 \in 1 .. 2 * i /\ 2 * i \in 1 .. 2 * i
          BY <1>1
        <5> QED
          BY <3>1, <5>1
      <4> QED
        BY <3>3, <4>1
    <3>5. all = before \o pairs[i]
      <4> DEFINE t == before \o pairs[i]
      <4>4. ASSUME NEW s \in Seq(Int), NEW u \in Seq(Int)
            PROVE  /\ s \o u \in Seq(Int) /\ Len(s \o u) = Len(s) + Len(u)
                   /\ \A j \in 1 .. Len(s) + Len(u) :
                        (s \o u)[j] = IF j <= Len(s) THEN s[j] ELSE u[j - Len(s)]
        OBVIOUS
      <4>5. i \in Nat /\ i >= 1 /\ 2 * (i - 1) + 2 = 2 * i
        BY <1>1
      <4>7. /\ t \in Seq(Int) /\ Len(t) = Len(before) + Len(pairs[i])
            /\ \A j \in 1 .. Len(before) + Len(pairs[i]) :
                 t[j] = IF j <= Len(before) THEN before[j] ELSE pairs[i][j - Len(before)]
        <5>1. before \in Seq(Int) /\ pairs[i] \in Seq(Int)
          BY <3>1, <3>4
        <5>2. PICK p : p = pairs[i]
          OBVIOUS
        <5>3. p \in Seq(Int)
          BY <5>1, <5>2
        <5>4. /\ before \o p \in Seq(Int) /\ Len(before \o p) = Len(before) + Len(p)
              /\ \A j \in 1 .. Len(before) + Len(p) :
                   (before \o p)[j] = IF j <= Len(before) THEN before[j] ELSE p[j - Len(before)]
          BY <4>4, <5>1, <5>3
        <5> QED
          BY <5>2, <5>4
      <4>8. Len(before) + Len(pairs[i]) = 2 * i
        BY <3>1, <3>4, <4>5
      <4> HIDE DEF t
      <4>1. t \in Seq(Int) /\ Len(t) = 2 * i
        BY <4>7, <4>8
      <4>2. ASSUME NEW j \in 1 .. 2 * i PROVE t[j] = all[j]
        <5>1. t[j] = IF j <= Len(before) THEN before[j] ELSE pairs[i][j - Len(before)]
          BY <4>7, <4>8
        <5>2. CASE j \in 1 .. 2 * (i - 1)
          <6>1. j <= Len(before)
            BY <3>1, <4>5, <5>2
          <6> QED
            BY <3>2, <5>1, <5>2, <6>1
        <5>3. CASE j = 2 * i - 1
          <6>1. ~(j <= 2 * (i - 1)) /\ j - 2 * (i - 1) = 1
            BY <1>1, <5>3
          <6> QED
            BY <3>1, <3>4, <5>1, <5>3, <6>1
        <5>4. CASE j = 2 * i
          <6>1. ~(j <= 2 * (i - 1)) /\ j - 2 * (i - 1) = 2
            BY <1>1, <5>4
          <6> QED
            BY <3>1, <3>4, <5>1, <5>4, <6>1
        <5>5. j \in 1 .. 2 * (i - 1) \/ j = 2 * i - 1 \/ j = 2 * i
          BY <4>5
        <5> QED
          BY <5>2, <5>3, <5>4, <5>5
      <4> HIDE DEF t
      <4>3. \A s, u \in Seq(Int) : Len(s) = Len(u) /\ (\A j \in 1 .. Len(s) : s[j] = u[j])
              => s = u
        OBVIOUS
      <4>6. t = all
        BY <3>1, <4>1, <4>2, <4>3
      <4> QED
        BY <4>6 DEF t
    <3>6. i = 1 => before \o pairs[i] = pairs[i]
      <4>1. i = 1 => before = <<>>
        BY <3>1
      <4> QED
        BY <3>4, <4>1
    <3> QED
      BY <3>5, <3>6 DEF before, all
  <2>3. f = [i \in 1 .. Len(pairs) |-> IF i = 1 THEN pairs[i] ELSE f[i - 1] \o pairs[i]]
    <3>1. \A i \in 1 .. n : f[i] = IF i = 1 THEN pairs[i] ELSE f[i - 1] \o pairs[i]
      <4>1. \A i \in 1 .. n : i # 1 => i - 1 \in 1 .. n
        BY <1>1
      <4> QED
        BY <2>2, <4>1
    <3> HIDE DEF n
    <3> QED
      BY <1>2, <3>1
  <2>4. Flat = [i \in 1 .. Len(pairs) |-> IF i = 1 THEN pairs[i] ELSE Flat[i - 1] \o pairs[i]]
    BY <2>3
  <2> HIDE DEF Flat
  <2>5. \A i \in 1 .. n : Flat[i] = IF i = 1 THEN pairs[i] ELSE Flat[i - 1] \o pairs[i]
    BY <1>2, <2>4
  <2> DEFINE G == {k \in Nat : k >= 1 /\ k <= n => Flat[k] = HexText(bytes, low, k)}
  <2>6. 0 \in G
    OBVIOUS
  <2>7. ASSUME NEW k \in Nat, k < n, k \in G PROVE k + 1 \in G
    <3>1. k + 1 \in 1 .. n /\ k + 1 - 1 = k
      BY <1>1, <2>7
    <3>2. k # 0 => Flat[k] = HexText(bytes, low, k)
      BY <1>1, <2>7
    <3>3. k + 1 = 1 <=> k = 0
      OBVIOUS
    <3>5. HexText(bytes, low, k + 1)
            = IF k + 1 = 1 THEN pairs[k + 1] ELSE HexText(bytes, low, k) \o pairs[k + 1]
      <4>1. PICK i \in 1 .. n : i = k + 1
        BY <3>1
      <4>2. i - 1 = k
        BY <3>1, <4>1
      <4>3. HexText(bytes, low, i)
              = IF i = 1 THEN pairs[i] ELSE HexText(bytes, low, i - 1) \o pairs[i]
        BY <2>2
      <4> QED
        BY <4>1, <4>2, <4>3
    <3>6. Flat[k + 1] = IF k + 1 = 1 THEN pairs[k + 1] ELSE Flat[k] \o pairs[k + 1]
      BY <2>5, <3>1
    <3>4. Flat[k + 1] = HexText(bytes, low, k + 1)
      BY <3>2, <3>3, <3>5, <3>6
    <3> QED
      BY <3>4
  <2>8. n \in G
    <3>1. G \in SUBSET Nat /\ n \in 0 .. n
      BY <1>1
    <3> HIDE DEF G
    <3> QED
      BY <1>1, <2>6, <2>7, <3>1, UpTo
  <2>9. Flat[n] = HexText(bytes, low, n)
    BY <1>1, <1>5, <2>8
  <2> QED
    BY <1>2, <2>1, <2>9 DEF pairs
<1> QED
  BY <1>4, <1>5

LEMMA SameSeq ==
  ASSUME NEW s \in Seq(Int), NEW t \in Seq(Int), Len(s) = Len(t),
         \A i \in 1 .. Len(s) : s[i] = t[i]
  PROVE  s = t
OBVIOUS

LEMMA TextIsSeq ==
  ASSUME NEW str \in Texts
  PROVE  /\ str \in Seq(Int) /\ Len(str) \in Nat /\ DOMAIN str = 1 .. Len(str)
         /\ \A i \in 1 .. Len(str) : str[i] \in Codes
<1>1. \A i \in 1 .. Len(str) : str[i] \in Codes
  BY DEF Texts
<1>2. Codes \subseteq Int
  BY DEF Codes
<1>3. DOMAIN str = 1 .. Len(str) /\ Len(str) \in Nat /\ str = [i \in 1 .. Len(str) |-> str[i]]
  BY DEF Texts
<1>4. \A i \in 1 .. Len(str) : str[i] \in Int
  BY <1>1, <1>2
<1>5. [i \in 1 .. Len(str) |-> str[i]] \in Seq(Int)
  BY <1>3, <1>4
<1> QED
  BY <1>1, <1>3, <1>5

LEMMA ConcatIs ==
  ASSUME NEW s \in Seq(Int), NEW t \in Seq(Int)
  PROVE  /\ s \o t \in Seq(Int) /\ Len(s \o t) = Len(s) + Len(t)
         /\ \A i \in 1 .. Len(s) : (s \o t)[i] = s[i]
         /\ \A i \in 1 .. Len(t) : (s \o t)[Len(s) + i] = t[i]
OBVIOUS

\* An even number of digits, and one with a single digit before the pairs.
LEMMA DecodesPairs ==
  ASSUME NEW bytes \in Texts, NEW low \in BOOLEAN, NEW allow \in BOOLEAN
  PROVE  Text!hex_decode(HexText(bytes, low, Len(bytes)), allow) = [ok |-> TRUE, dst |-> bytes]
<1> DEFINE n == Len(bytes)
<1> DEFINE src == HexText(bytes, low, Len(bytes))
<1>1. n \in Nat /\ n \in 0 .. Len(bytes) /\ bytes \in Seq(Int) /\ DOMAIN bytes = 1 .. n
  BY TextIsSeq
<1>2. /\ src \in Seq(Int) /\ Len(src) = 2 * n
      /\ \A i \in 1 .. n :
           Text!hex_to_int(src[2 * i - 1]) * 16 + Text!hex_to_int(src[2 * i]) = bytes[i]
  BY <1>1, HexTextIs
<1> HIDE DEF src
<1>3. Len(src) % 2 = 0 /\ Len(src) \div 2 = n
  <2>1. \A m \in Nat : (2 * m) % 2 = 0 /\ (2 * m) \div 2 = m
    OBVIOUS
  <2> QED
    BY <1>1, <1>2, <2>1
<1>4. Text!hex_decode(src, allow) =
        [ok |-> TRUE, dst |-> <<>> \o [i \in 1 .. Len(src) \div 2 |->
           Text!hex_to_int(src[2 * i + (Len(src) % 2) - 1]) * 16
             + Text!hex_to_int(src[2 * i + (Len(src) % 2)])]]
  <2>1. Len(src) % 2 # 1
    BY <1>3
  <2> QED
    BY <2>1 DEF Text!hex_decode
<1>5. [i \in 1 .. Len(src) \div 2 |->
           Text!hex_to_int(src[2 * i + (Len(src) % 2) - 1]) * 16
             + Text!hex_to_int(src[2 * i + (Len(src) % 2)])] = bytes
  <2>1. \A i \in 1 .. n : 2 * i + 0 - 1 = 2 * i - 1 /\ 2 * i + 0 = 2 * i
    BY <1>1
  <2>2. \A i \in 1 .. n : Text!hex_to_int(src[2 * i + 0 - 1]) * 16
                            + Text!hex_to_int(src[2 * i + 0]) = bytes[i]
    BY <1>2, <2>1
  <2>3. [i \in 1 .. n |-> Text!hex_to_int(src[2 * i + 0 - 1]) * 16
                            + Text!hex_to_int(src[2 * i + 0])] = [i \in 1 .. n |-> bytes[i]]
    BY <2>2
  <2>4. bytes = [i \in 1 .. n |-> bytes[i]]
    BY <1>1
  <2> QED
    BY <1>3, <2>3, <2>4
<1>6. <<>> \o bytes = bytes
  BY <1>1
<1> QED
  BY <1>4, <1>5, <1>6 DEF src

LEMMA DecodesOdd ==
  ASSUME NEW c \in 0 .. 15, NEW bytes \in Texts, NEW low \in BOOLEAN
  PROVE  Text!hex_decode(<<Text!HexDigit(c, low)>> \o HexText(bytes, low, Len(bytes)), TRUE).dst
           = <<c>> \o bytes
<1> DEFINE n == Len(bytes)
<1> DEFINE rest == HexText(bytes, low, Len(bytes))
<1> DEFINE d == Text!HexDigit(c, low)
<1> DEFINE src == <<d>> \o rest
<1>1. n \in Nat /\ n \in 0 .. Len(bytes) /\ bytes \in Seq(Int) /\ DOMAIN bytes = 1 .. n
  BY TextIsSeq
<1>2. /\ rest \in Seq(Int) /\ Len(rest) = 2 * n
      /\ \A i \in 1 .. n :
           Text!hex_to_int(rest[2 * i - 1]) * 16 + Text!hex_to_int(rest[2 * i]) = bytes[i]
  BY <1>1, HexTextIs
<1>3. d \in Int /\ Text!hex_to_int(d) = c
  BY HexDigitIs
<1> HIDE DEF rest, d
<1>4. /\ src \in Seq(Int) /\ Len(src) = 2 * n + 1 /\ src[1] = d
      /\ \A i \in 1 .. 2 * n : src[i + 1] = rest[i]
  <2>1. /\ <<d>> \in Seq(Int) /\ Len(<<d>>) = 1 /\ <<d>>[1] = d
    BY <1>3
  <2>2. PICK s \in Seq(Int) : s = <<d>>
    BY <2>1
  <2>3. /\ s \o rest \in Seq(Int) /\ Len(s \o rest) = Len(s) + Len(rest)
        /\ (s \o rest)[1] = s[1]
        /\ \A i \in 1 .. Len(rest) : (s \o rest)[Len(s) + i] = rest[i]
    <3>1. Len(s) = 1 /\ Len(rest) \in Nat
      BY <1>2, <2>1, <2>2
    <3>2. /\ s \o rest \in Seq(Int) /\ Len(s \o rest) = Len(s) + Len(rest)
          /\ \A i \in 1 .. Len(s) : (s \o rest)[i] = s[i]
          /\ \A i \in 1 .. Len(rest) : (s \o rest)[Len(s) + i] = rest[i]
      BY <1>2, ConcatIs
    <3>3. 1 \in 1 .. Len(s)
      BY <3>1
    <3> QED
      BY <3>2, <3>3
  <2>4. Len(s) = 1 /\ s[1] = d /\ src = s \o rest
    BY <2>1, <2>2
  <2>5. \A i \in 1 .. 2 * n : 1 + i = i + 1
    BY <1>1
  <2>6. 1 + 2 * n = 2 * n + 1
    BY <1>1
  <2> HIDE DEF src
  <2> QED
    BY <1>2, <2>3, <2>4, <2>5, <2>6
<1> HIDE DEF src
<1>5. Len(src) % 2 = 1 /\ Len(src) \div 2 = n
  <2>1. \A m \in Nat : (2 * m + 1) % 2 = 1 /\ (2 * m + 1) \div 2 = m
    OBVIOUS
  <2> QED
    BY <1>1, <1>4, <2>1
<1>6. Text!hex_decode(src, TRUE) =
        [ok |-> TRUE, dst |-> <<Text!hex_to_int(src[1])>> \o [i \in 1 .. Len(src) \div 2 |->
           Text!hex_to_int(src[2 * i + (Len(src) % 2) - 1]) * 16
             + Text!hex_to_int(src[2 * i + (Len(src) % 2)])]]
  BY <1>5 DEF Text!hex_decode
<1>7. [i \in 1 .. Len(src) \div 2 |->
           Text!hex_to_int(src[2 * i + (Len(src) % 2) - 1]) * 16
             + Text!hex_to_int(src[2 * i + (Len(src) % 2)])] = bytes
  <2>1. \A i \in 1 .. n : /\ 2 * i + 1 - 1 = (2 * i - 1) + 1
                          /\ 2 * i - 1 \in 1 .. 2 * n /\ 2 * i \in 1 .. 2 * n
    BY <1>1
  <2>2. \A i \in 1 .. n : Text!hex_to_int(src[2 * i + 1 - 1]) * 16
                            + Text!hex_to_int(src[2 * i + 1]) = bytes[i]
    BY <1>2, <1>4, <2>1
  <2>3. [i \in 1 .. n |-> Text!hex_to_int(src[2 * i + 1 - 1]) * 16
                            + Text!hex_to_int(src[2 * i + 1])] = [i \in 1 .. n |-> bytes[i]]
    BY <2>2
  <2>4. bytes = [i \in 1 .. n |-> bytes[i]]
    BY <1>1
  <2> QED
    BY <1>5, <2>3, <2>4
<1>8. Text!hex_decode(src, TRUE).dst = <<Text!hex_to_int(src[1])>> \o bytes
  <2>1. \A a, b : [ok |-> a, dst |-> b].dst = b
    OBVIOUS
  <2> QED
    BY <1>6, <1>7, <2>1, Zenon
<1>9. <<Text!hex_to_int(src[1])>> = <<c>>
  BY <1>3, <1>4
<1> QED
  BY <1>8, <1>9 DEF src, d, rest

LEMMA HexIsReadBack ==
  ASSUME NEW str \in Texts, NEW low \in BOOLEAN, NEW stripped,
         stripped = SubSeq(str, Text!Min({Len(str)} \cup {i \in 0 .. Len(str) - 1 : str[i + 1] # 0}) + 1,
                           Len(str))
  PROVE  /\ Text!hex_decode(Text!hex_encode(str, FALSE, low), FALSE) = [ok |-> TRUE, dst |-> str]
         /\ Text!hex_decode(Text!hex_encode(str, TRUE, low), TRUE).dst
              = (IF str # <<>> /\ stripped = <<>> THEN <<0>> ELSE stripped)
<1> DEFINE Pairs(bytes) == Text!FlattenSeq([i \in 1 .. Len(bytes) |-> Text!HexPair(bytes[i], low)])
<1>1. \A bytes \in Texts : Pairs(bytes) = HexText(bytes, low, Len(bytes))
  BY PairsAre
<1>2. \A allow \in BOOLEAN, bytes \in Texts :
        Text!hex_decode(HexText(bytes, low, Len(bytes)), allow) = [ok |-> TRUE, dst |-> bytes]
  BY DecodesPairs
<1>3. <<>> \in Texts /\ Len(<<>>) = 0
  BY DEF Texts
<1>4. HexText(<<>>, low, 0) = <<>>
  <2>1. 0 \in 0 .. Len(<<>>)
    BY <1>3
  <2>2. HexText(<<>>, low, 0) \in Seq(Int) /\ Len(HexText(<<>>, low, 0)) = 0
    BY <1>3, <2>1, HexTextIs
  <2> QED
    BY <2>2
<1>5. \A allow \in BOOLEAN : Text!hex_decode(<<>>, allow) = [ok |-> TRUE, dst |-> <<>>]
  BY <1>2, <1>3, <1>4
<1> HIDE DEF Pairs
<1>6. Text!hex_encode(str, FALSE, low) = IF str = <<>> THEN <<>> ELSE Pairs(str)
  BY DEF Text!hex_encode, Pairs
<1>7. Text!hex_encode(str, TRUE, low)
        = IF str = <<>> THEN <<>>
          ELSE IF stripped = <<>> THEN <<Text!Zero>>
          ELSE IF Head(stripped) < 16 THEN <<Text!HexDigit(Head(stripped), low)>> \o Pairs(Tail(stripped))
          ELSE Pairs(stripped)
  BY DEF Text!hex_encode, Pairs
<1>8. stripped \in Texts /\ (str = <<>> => stripped = <<>>)
  <2> DEFINE T == {Len(str)} \cup {i \in 0 .. Len(str) - 1 : str[i + 1] # 0}
  <2>1. Len(str) \in Nat
    BY DEF Texts
  <2>2. T \in SUBSET Nat /\ T # {} /\ Len(str) \in T
    BY <2>1
  <2>3. Text!Min(T) \in Nat /\ Text!Min(T) <= Len(str)
    <3> HIDE DEF T
    <3> QED
      BY <2>2, TextMinOfSome
  <2>4. stripped = SubSeq(str, Text!Min(T) + 1, Len(str))
    OBVIOUS
  <2> HIDE DEF T
  <2>5. /\ Text!Min(T) + 1 \in 1 .. Len(str) + 1 /\ Len(str) \in 0 .. Len(str)
        /\ Text!Min(T) + 1 <= Len(str) + 1
    BY <2>1, <2>3
  <2>6. stripped \in Texts /\ Len(stripped) = Len(str) - (Text!Min(T) + 1) + 1
    BY <2>4, <2>5, PieceOfText
  <2>7. ASSUME str = <<>> PROVE stripped = <<>>
    <3>1. Len(str) = 0
      BY <2>7
    <3>2. \A m \in Nat : m <= 0 => 0 - (m + 1) + 1 = 0
      OBVIOUS
    <3>3. Len(stripped) = 0
      BY <2>3, <2>6, <3>1, <3>2
    <3>4. stripped \in Seq(Int)
      BY <2>6, TextIsSeq
    <3>5. \A t \in Seq(Int) : Len(t) = 0 => t = <<>>
      OBVIOUS
    <3> QED
      BY <3>3, <3>4, <3>5
  <2> QED
    BY <2>6, <2>7
<1>9. Text!hex_decode(Text!hex_encode(str, FALSE, low), FALSE) = [ok |-> TRUE, dst |-> str]
  <2>1. CASE str = <<>>
    BY <1>5, <1>6, <2>1
  <2>2. CASE str # <<>>
    BY <1>1, <1>2, <1>6, <2>2
  <2> QED
    BY <2>1, <2>2
<1>11. \A t : [ok |-> TRUE, dst |-> t].dst = t
  OBVIOUS
<1>10. Text!hex_decode(Text!hex_encode(str, TRUE, low), TRUE).dst
         = (IF str # <<>> /\ stripped = <<>> THEN <<0>> ELSE stripped)
  <2>1. CASE str = <<>>
    <3>1. Text!hex_encode(str, TRUE, low) = <<>> /\ stripped = <<>>
      BY <1>7, <1>8, <2>1
    <3>2. Text!hex_decode(<<>>, TRUE).dst = <<>>
      BY <1>5, <1>11
    <3> QED
      BY <2>1, <3>1, <3>2
  <2>2. CASE str # <<>> /\ stripped = <<>>
    <3>1. Text!HexDigit(0, low) = Text!Zero
      BY DEF Text!HexDigit, Text!Zero
    <3>2. Text!hex_decode(<<Text!HexDigit(0, low)>> \o HexText(<<>>, low, 0), TRUE).dst = <<0>> \o <<>>
      <4>1. 0 \in 0 .. 15
        OBVIOUS
      <4>2. Text!hex_decode(<<Text!HexDigit(0, low)>> \o HexText(<<>>, low, Len(<<>>)), TRUE).dst
              = <<0>> \o <<>>
        BY <1>3, <4>1, DecodesOdd
      <4> QED
        BY <1>3, <4>2
    <3>3. \A a \in Int : <<a>> \o <<>> = <<a>>
      OBVIOUS
    <3>4. Text!Zero \in Int
      BY DEF Text!Zero
    <3> QED
      <4>1. Text!hex_encode(str, TRUE, low) = <<Text!Zero>>
        BY <1>7, <2>2
      <4>2. <<Text!Zero>> \o <<>> = <<Text!Zero>> /\ <<0>> \o <<>> = <<0>>
        BY <3>3, <3>4
      <4>3. Text!hex_decode(<<Text!Zero>> \o <<>>, TRUE).dst = <<0>> \o <<>>
        BY <1>4, <3>1, <3>2
      <4> QED
        BY <2>2, <4>1, <4>2, <4>3
  <2>3. CASE stripped # <<>>
    <3>1. /\ Head(stripped) \in Codes /\ Tail(stripped) \in Texts
          /\ stripped = <<Head(stripped)>> \o Tail(stripped)
      <4>1. stripped \in Seq(Codes)
        BY <1>8 DEF Texts
      <4>2. /\ Head(stripped) \in Codes /\ Tail(stripped) \in Seq(Codes)
            /\ Len(Tail(stripped)) = Len(stripped) - 1
            /\ \A i \in 1 .. Len(Tail(stripped)) : Tail(stripped)[i] = stripped[i + 1]
        BY <2>3, <4>1, HeadTailProperties
      <4>3. stripped = <<Head(stripped)>> \o Tail(stripped)
        <5>1. /\ 1 \in 1 .. Len(stripped) /\ Len(stripped) \in 1 .. Len(stripped)
              /\ Head(stripped) = stripped[1]
          BY <2>3, <4>1
        <5>2. SubSeq(stripped, 1, Len(stripped))
                = <<stripped[1]>> \o SubSeq(stripped, 1 + 1, Len(stripped))
          BY <4>1, <5>1, SubSeqRecursiveFirst
        <5>3. SubSeq(stripped, 1, Len(stripped)) = stripped
          BY <4>1, SubSeqFull
        <5>4. Tail(stripped) = SubSeq(stripped, 2, Len(stripped))
          BY <2>3, <4>1, TailIsSubSeq
        <5> QED
          BY <5>1, <5>2, <5>3, <5>4, 1 + 1 = 2
      <4> QED
        BY <4>2, <4>3 DEF Texts
    <3>2. CASE Head(stripped) < 16
      <4>1. Head(stripped) \in 0 .. 15
        <5>1. \A c \in Codes : c < 16 => c \in 0 .. 15
          BY DEF Codes
        <5> QED
          BY <3>1, <3>2, <5>1
      <4>2. Text!hex_encode(str, TRUE, low)
              = <<Text!HexDigit(Head(stripped), low)>>
                  \o HexText(Tail(stripped), low, Len(Tail(stripped)))
        BY <1>1, <1>7, <1>8, <2>3, <3>1, <3>2
      <4>3. Text!hex_decode(<<Text!HexDigit(Head(stripped), low)>>
                             \o HexText(Tail(stripped), low, Len(Tail(stripped))), TRUE).dst
              = <<Head(stripped)>> \o Tail(stripped)
        BY <3>1, <4>1, DecodesOdd
      <4> QED
        BY <2>3, <3>1, <4>2, <4>3
    <3>3. CASE ~(Head(stripped) < 16)
      <4>1. Text!hex_encode(str, TRUE, low) = HexText(stripped, low, Len(stripped))
        BY <1>1, <1>7, <1>8, <2>3, <3>3
      <4>2. Text!hex_decode(HexText(stripped, low, Len(stripped)), TRUE).dst = stripped
        BY <1>2, <1>8, <1>11
      <4> QED
        BY <2>3, <4>1, <4>2
    <3> QED
      BY <3>2, <3>3
  <2> QED
    BY <2>1, <2>2, <2>3
<1> QED
  BY <1>9, <1>10

LEMMA HexesAreReadBack == ASSUME TextInv PROVE Text!HexReadsBack
BY HexIsReadBack DEF Text!HexReadsBack, TextInv

-----------------------------------------------------------------------------
(* Bounded copies.                                                         *)

LEMMA CStringIsText ==
  ASSUME NEW str \in CStrings
  PROVE  str \in Texts /\ \A i \in 1 .. Len(str) : str[i] \in NotNul /\ str[i] # 0
<1>1. \A i \in 1 .. Len(str) : str[i] \in NotNul
  BY DEF CStrings
<1>2. \A c \in NotNul : c \in Codes /\ c # 0
  BY DEF NotNul, Codes
<1>3. str = [i \in 1 .. Len(str) |-> str[i]] /\ Len(str) \in Nat
  BY DEF CStrings
<1>4. [i \in 1 .. Len(str) |-> str[i]] \in Seq(Codes)
  BY <1>1, <1>2, <1>3
<1> QED
  BY <1>1, <1>2, <1>3, <1>4 DEF Texts

LEMMA PieceOfCString ==
  ASSUME NEW str \in CStrings, NEW m \in 1 .. Len(str) + 1, NEW n \in 0 .. Len(str), m <= n + 1
  PROVE  /\ SubSeq(str, m, n) \in CStrings /\ Len(SubSeq(str, m, n)) = n - m + 1
         /\ \A i \in 1 .. n - m + 1 : SubSeq(str, m, n)[i] = str[m + i - 1]
<1>1. \A i \in m .. n : str[i] \in NotNul
  BY DEF CStrings
<1>2. m \in Int /\ n \in Int
  BY DEF CStrings
<1> QED
  BY <1>1, <1>2, SubSeqProperties DEF CStrings

LEMMA ConcatCStrings ==
  ASSUME NEW s \in CStrings, NEW t \in CStrings
  PROVE  /\ s \o t \in CStrings /\ Len(s \o t) = Len(s) + Len(t)
         /\ \A i \in 1 .. Len(s) : (s \o t)[i] = s[i]
         /\ \A i \in 1 .. Len(t) : (s \o t)[Len(s) + i] = t[i]
BY DEF CStrings

LEMMA SameCString ==
  ASSUME NEW s \in CStrings, NEW t \in CStrings, Len(s) = Len(t),
         \A i \in 1 .. Len(s) : s[i] = t[i]
  PROVE  s = t
BY DEF CStrings

\* The cells behind the buffer are as they were, and it begins with a text.
HoldsFirst(buffer, size, t) ==
  /\ buffer \in [1 .. size + 2 -> Int] /\ buffer[size + 1] = 255 /\ buffer[size + 2] = 255
  /\ t \in CStrings /\ Len(t) <= size - 1
  /\ \A i \in 1 .. Len(t) : buffer[i] = t[i]

FilledWith(buffer, size, t) == HoldsFirst(buffer, size, t) /\ buffer[Len(t) + 1] = 0

\* Copied behind the text that a buffer begins with, with or without a NUL.
LEMMA CopyBehind ==
  ASSUME NEW size \in Nat, NEW buffer, NEW t, HoldsFirst(buffer, size, t), NEW p \in CStrings,
         Len(t) + Len(p) <= size - 1
  PROVE  /\ HoldsFirst(Text!Copy(buffer, Len(t), p), size, t \o p)
         /\ FilledWith(Text!Copy(buffer, Len(t), p \o <<Text!NUL>>), size, t \o p)
<1>1. /\ t \in CStrings /\ Len(t) \in Nat /\ Len(p) \in Nat
      /\ t \o p \in CStrings /\ Len(t \o p) = Len(t) + Len(p)
      /\ \A i \in 1 .. Len(t) : (t \o p)[i] = t[i]
      /\ \A i \in 1 .. Len(p) : (t \o p)[Len(t) + i] = p[i]
  BY ConcatCStrings DEF HoldsFirst, CStrings
<1>2. p \in Seq(Int) /\ \A i \in 1 .. Len(p) : p[i] \in Int
  BY CStringIsText, TextIsSeq
<1> DEFINE chars == p \o <<Text!NUL>>
<1>3. /\ Len(chars) = Len(p) + 1 /\ chars \in Seq(Int)
      /\ \A i \in 1 .. Len(p) : chars[i] = p[i]
      /\ chars[Len(p) + 1] = 0
  <2>1. <<0>> \in Seq(Int) /\ Len(<<0>>) = 1 /\ <<0>>[1] = 0 /\ 1 \in 1 .. 1
    OBVIOUS
  <2>2. /\ p \o <<0>> \in Seq(Int) /\ Len(p \o <<0>>) = Len(p) + Len(<<0>>)
        /\ \A i \in 1 .. Len(p) : (p \o <<0>>)[i] = p[i]
        /\ \A i \in 1 .. Len(<<0>>) : (p \o <<0>>)[Len(p) + i] = <<0>>[i]
    BY <1>2, <2>1, ConcatIs
  <2> QED
    BY <2>1, <2>2 DEF Text!NUL
<1>4. \A i \in 1 .. Len(chars) : chars[i] \in Int
  BY <1>3
<1>5. ASSUME NEW c \in Seq(Int), Len(c) \in Nat, Len(t) + Len(c) <= size,
             \A i \in 1 .. Len(p) : c[i] = p[i], Len(p) <= Len(c), \A i \in 1 .. Len(c) : c[i] \in Int
      PROVE  /\ HoldsFirst(Text!Copy(buffer, Len(t), c), size, t \o p)
             /\ \A i \in 1 .. Len(c) : Text!Copy(buffer, Len(t), c)[Len(t) + i] = c[i]
  <2> DEFINE b == Text!Copy(buffer, Len(t), c)
  <2>1. DOMAIN buffer = 1 .. size + 2 /\ \A i \in 1 .. size + 2 : buffer[i] \in Int
    BY DEF HoldsFirst
  <2>2. b = [i \in 1 .. size + 2 |->
               IF i \in Len(t) + 1 .. Len(t) + Len(c) THEN c[i - Len(t)] ELSE buffer[i]]
    BY <2>1 DEF Text!Copy
  <2>3. \A i \in Len(t) + 1 .. Len(t) + Len(c) : i - Len(t) \in 1 .. Len(c)
    BY <1>1, <1>5
  <2>4. b \in [1 .. size + 2 -> Int]
    BY <1>5, <2>1, <2>2, <2>3
  <2>5. /\ size + 1 \in 1 .. size + 2 /\ size + 1 \notin Len(t) + 1 .. Len(t) + Len(c)
        /\ size + 2 \in 1 .. size + 2 /\ size + 2 \notin Len(t) + 1 .. Len(t) + Len(c)
    BY <1>1, <1>5
  <2>6. b[size + 1] = 255 /\ b[size + 2] = 255
    BY <2>2, <2>5 DEF HoldsFirst
  <2>7. ASSUME NEW i \in 1 .. Len(c) PROVE b[Len(t) + i] = c[i]
    <3>1. /\ Len(t) + i \in 1 .. size + 2 /\ Len(t) + i \in Len(t) + 1 .. Len(t) + Len(c)
          /\ Len(t) + i - Len(t) = i
      BY <1>1, <1>5
    <3> QED
      BY <2>2, <3>1
  <2>8. ASSUME NEW i \in 1 .. Len(t) PROVE b[i] = t[i]
    <3>1. i \in 1 .. size + 2 /\ i \notin Len(t) + 1 .. Len(t) + Len(c)
      BY <1>1, <1>5
    <3> QED
      BY <2>2, <3>1 DEF HoldsFirst
  <2> HIDE DEF b
  <2>9. ASSUME NEW i \in 1 .. Len(t \o p) PROVE b[i] = (t \o p)[i]
    <3>1. CASE i <= Len(t)
      <4>1. i \in 1 .. Len(t)
        BY <1>1, <3>1
      <4> QED
        BY <1>1, <2>8, <4>1
    <3>2. CASE ~(i <= Len(t))
      <4>1. PICK k \in 1 .. Len(p) : i = Len(t) + k
        <5>1. i - Len(t) \in 1 .. Len(p) /\ i = Len(t) + (i - Len(t))
          BY <1>1, <3>2
        <5> QED
          BY <5>1
      <4>2. k \in 1 .. Len(c)
        BY <1>1, <1>5
      <4> QED
        BY <1>1, <1>5, <2>7, <4>1, <4>2
    <3> QED
      BY <3>1, <3>2
  <2>10. HoldsFirst(b, size, t \o p)
    BY <1>1, <2>4, <2>6, <2>9 DEF HoldsFirst
  <2> QED
    BY <2>7, <2>10 DEF b
<1>6. HoldsFirst(Text!Copy(buffer, Len(t), p), size, t \o p)
  <2>1. Len(t) + Len(p) <= size /\ Len(p) <= Len(p)
    BY <1>1
  <2> QED
    BY <1>1, <1>2, <1>5, <2>1
<1> HIDE DEF chars
<1>7. /\ HoldsFirst(Text!Copy(buffer, Len(t), chars), size, t \o p)
      /\ \A i \in 1 .. Len(chars) : Text!Copy(buffer, Len(t), chars)[Len(t) + i] = chars[i]
  <2>1. Len(t) + Len(chars) <= size /\ Len(p) <= Len(chars) /\ Len(chars) \in Nat
    BY <1>1, <1>3
  <2> QED
    BY <1>3, <1>4, <1>5, <2>1
<1>8. Text!Copy(buffer, Len(t), chars)[Len(t \o p) + 1] = 0
  <2>1. Len(p) + 1 \in 1 .. Len(chars) /\ Len(t \o p) + 1 = Len(t) + (Len(p) + 1)
    BY <1>1, <1>3
  <2> QED
    BY <1>3, <1>7, <2>1
<1> QED
  BY <1>6, <1>7, <1>8 DEF FilledWith, chars

Cut(str, n) == SubSeq(str, 1, IF Len(str) <= n THEN Len(str) ELSE n)

LEMMA CutIs ==
  ASSUME NEW str \in CStrings, NEW n \in Nat
  PROVE  /\ Cut(str, n) \in CStrings
         /\ Len(Cut(str, n)) = IF Len(str) <= n THEN Len(str) ELSE n
         /\ \A i \in 1 .. Len(Cut(str, n)) : Cut(str, n)[i] = str[i]
         /\ Len(str) <= n => Cut(str, n) = str
         /\ Text!Truncated(str, n) = Cut(str, n)
<1>1. Len(str) \in Nat
  BY DEF CStrings
<1>2. PICK m : m = IF Len(str) <= n THEN Len(str) ELSE n
  OBVIOUS
<1>3. /\ m \in 0 .. Len(str) /\ 1 \in 1 .. Len(str) + 1 /\ 1 <= m + 1
      /\ m - 1 + 1 = m /\ \A i \in 1 .. m : 1 + i - 1 = i
  BY <1>1, <1>2
<1>4. /\ SubSeq(str, 1, m) \in CStrings /\ Len(SubSeq(str, 1, m)) = m - 1 + 1
      /\ \A i \in 1 .. m - 1 + 1 : SubSeq(str, 1, m)[i] = str[1 + i - 1]
  BY <1>3, PieceOfCString
<1>5. Len(str) <= n => SubSeq(str, 1, m) = str
  <2>1. Len(str) <= n => m = Len(str)
    BY <1>2
  <2> QED
    BY <2>1, SubSeqFull DEF CStrings
<1>6. Text!Min({Len(str), n}) = m
  BY <1>1, <1>2, TextMinOfTwo
<1>7. Cut(str, n) = SubSeq(str, 1, m)
  BY <1>2 DEF Cut
<1>8. Text!Truncated(str, n) = SubSeq(str, 1, m)
  BY <1>6 DEF Text!Truncated
<1>9. Len(SubSeq(str, 1, m)) = m /\ \A i \in 1 .. m : SubSeq(str, 1, m)[i] = str[i]
  BY <1>3, <1>4
<1> QED
  BY <1>2, <1>4, <1>5, <1>7, <1>8, <1>9

LEMMA StrlcpyIs ==
  ASSUME NEW size \in Nat, NEW buffer, NEW t, HoldsFirst(buffer, size, t), NEW src \in CStrings
  PROVE  /\ FilledWith(Text!strlcpy(buffer, Len(t), src, size - Len(t)).buffer, size,
                     t \o Cut(src, size - Len(t) - 1))
         /\ Text!strlcpy(buffer, Len(t), src, size - Len(t)).result = Len(src)
<1>1. Len(t) \in Nat /\ Len(t) <= size - 1 /\ size - Len(t) - 1 \in Nat /\ size - Len(t) # 0
  BY DEF HoldsFirst, CStrings
<1>2. /\ Cut(src, size - Len(t) - 1) \in CStrings
      /\ Len(Cut(src, size - Len(t) - 1)) <= size - Len(t) - 1
      /\ Len(Cut(src, size - Len(t) - 1)) \in Nat
      /\ Text!Truncated(src, size - Len(t) - 1) = Cut(src, size - Len(t) - 1)
  <2>1. PICK n \in Nat : n = size - Len(t) - 1
    BY <1>1
  <2>2. Len(src) \in Nat
    BY DEF CStrings
  <2>3. Cut(src, n) \in CStrings /\ Len(Cut(src, n)) <= n /\ Text!Truncated(src, n) = Cut(src, n)
    BY <2>1, <2>2, CutIs
  <2> QED
    BY <2>1, <2>3 DEF CStrings
<1>3. Text!strlcpy(buffer, Len(t), src, size - Len(t)) =
        [buffer |-> Text!Copy(buffer, Len(t), Cut(src, size - Len(t) - 1) \o <<Text!NUL>>),
         result |-> Len(src)]
  BY <1>1, <1>2 DEF Text!strlcpy, Text!Truncated
<1>4. Len(t) + Len(Cut(src, size - Len(t) - 1)) <= size - 1
  BY <1>1, <1>2
<1>5. FilledWith(Text!Copy(buffer, Len(t), Cut(src, size - Len(t) - 1) \o <<Text!NUL>>), size,
               t \o Cut(src, size - Len(t) - 1))
  BY <1>2, <1>4, CopyBehind
<1> QED
  BY <1>3, <1>5

\* What fits of two texts is what fits of the first and of the second behind it.
LEMMA CutOfConcat ==
  ASSUME NEW s \in CStrings, NEW t \in CStrings, NEW n \in Nat
  PROVE  Cut(s, n) \o Cut(t, n - Len(Cut(s, n))) = Cut(s \o t, n)
<1>1. Len(s) \in Nat /\ Len(t) \in Nat
  BY DEF CStrings
<1>2. PICK a \in CStrings : a = Cut(s, n)
  BY CutIs
<1>3. /\ Len(a) = IF Len(s) <= n THEN Len(s) ELSE n
      /\ \A i \in 1 .. Len(a) : a[i] = s[i]
  BY <1>2, CutIs
<1>4. Len(a) \in Nat /\ Len(a) <= n /\ n - Len(a) \in Nat /\ Len(a) <= Len(s)
  BY <1>1, <1>3
<1>5. PICK b \in CStrings : b = Cut(t, n - Len(a))
  BY <1>4, CutIs
<1>6. /\ Len(b) = IF Len(t) <= n - Len(a) THEN Len(t) ELSE n - Len(a)
      /\ \A i \in 1 .. Len(b) : b[i] = t[i]
  BY <1>4, <1>5, CutIs
<1>7. PICK all \in CStrings : all = s \o t
  BY ConcatCStrings
<1>8. /\ Len(all) = Len(s) + Len(t)
      /\ \A i \in 1 .. Len(s) : all[i] = s[i]
      /\ \A i \in 1 .. Len(t) : all[Len(s) + i] = t[i]
  BY <1>7, ConcatCStrings
<1>9. PICK c \in CStrings : c = Cut(all, n)
  BY CutIs
<1>10. /\ Len(c) = IF Len(all) <= n THEN Len(all) ELSE n
       /\ \A i \in 1 .. Len(c) : c[i] = all[i]
  BY <1>9, CutIs
<1>11. PICK d \in CStrings : d = a \o b
  BY ConcatCStrings
<1>12. /\ Len(d) = Len(a) + Len(b)
       /\ \A i \in 1 .. Len(a) : d[i] = a[i]
       /\ \A i \in 1 .. Len(b) : d[Len(a) + i] = b[i]
  BY <1>11, ConcatCStrings
<1>13. Len(b) \in Nat /\ Len(d) = Len(c)
  <2>1. Len(b) \in Nat
    BY DEF CStrings
  <2>2. Len(d) = Len(a) + Len(b) /\ Len(all) = Len(s) + Len(t)
    BY <1>8, <1>12
  <2>3. \A x, y \in Nat : \A i, j \in Nat :
          /\ i = IF x <= n THEN x ELSE n
          /\ j = IF y <= n - i THEN y ELSE n - i
          => i + j = IF x + y <= n THEN x + y ELSE n
    OBVIOUS
  <2>4. Len(a) + Len(b) = IF Len(s) + Len(t) <= n THEN Len(s) + Len(t) ELSE n
    <3>1. PICK x \in Nat, y \in Nat, i \in Nat, j \in Nat :
            x = Len(s) /\ y = Len(t) /\ i = Len(a) /\ j = Len(b)
      BY <1>1, <1>4, <2>1
    <3>2. i = IF x <= n THEN x ELSE n
      BY <1>3, <3>1
    <3>3. j = IF y <= n - i THEN y ELSE n - i
      BY <1>6, <3>1
    <3>4. i + j = IF x + y <= n THEN x + y ELSE n
      BY <2>3, <3>2, <3>3
    <3> QED
      BY <3>1, <3>4
  <2>5. Len(c) = IF Len(s) + Len(t) <= n THEN Len(s) + Len(t) ELSE n
    BY <1>10, <2>2
  <2> QED
    BY <2>1, <2>2, <2>4, <2>5
<1>14. ASSUME NEW i \in 1 .. Len(d) PROVE d[i] = c[i]
  <2>1. c[i] = all[i]
    BY <1>10, <1>13
  <2>2. CASE i <= Len(a)
    <3>1. i \in 1 .. Len(a) /\ i \in 1 .. Len(s)
      BY <1>1, <1>4, <2>2
    <3> QED
      BY <1>3, <1>8, <1>12, <2>1, <3>1
  <2>3. CASE ~(i <= Len(a))
    <3>1. PICK k \in 1 .. Len(b) : i = Len(a) + k
      <4>1. i - Len(a) \in 1 .. Len(b) /\ i = Len(a) + (i - Len(a))
        BY <1>4, <1>12, <1>13, <2>3
      <4> QED
        BY <4>1
    <3>2. Len(a) = Len(s) /\ k \in 1 .. Len(t)
      BY <1>1, <1>3, <1>6, <1>13, <3>1
    <3> QED
      BY <1>6, <1>8, <1>12, <2>1, <3>1, <3>2
  <2> QED
    BY <2>2, <2>3
<1>15. d = c
  BY <1>13, <1>14, SameCString
<1> QED
  BY <1>2, <1>5, <1>7, <1>9, <1>11, <1>15

\* The text of a buffer ends at its NUL.
LEMMA CStringOf ==
  ASSUME NEW size \in Nat, NEW buffer, NEW t, FilledWith(buffer, size, t)
  PROVE  Text!CString(buffer) = t
<1> DEFINE ends == {i \in DOMAIN buffer : buffer[i] = Text!NUL}
<1>1. /\ DOMAIN buffer = 1 .. size + 2 /\ t \in CStrings /\ Len(t) \in Nat /\ Len(t) <= size - 1
      /\ \A i \in 1 .. Len(t) : buffer[i] = t[i]
      /\ buffer[Len(t) + 1] = Text!NUL
  BY DEF FilledWith, HoldsFirst, CStrings, Text!NUL
<1>2. Len(t) + 1 \in ends /\ ends \in SUBSET Int
  BY <1>1
<1>3. \A i \in ends : Len(t) + 1 <= i
  <2>1. \A i \in 1 .. Len(t) : buffer[i] # Text!NUL
    BY <1>1, CStringIsText DEF Text!NUL
  <2>2. \A i \in ends : i \in 1 .. size + 2 /\ i \notin 1 .. Len(t)
    BY <1>1, <2>1
  <2> HIDE DEF ends
  <2> QED
    BY <1>1, <2>2
<1>4. Text!Min(ends) = Len(t) + 1 /\ ends # {}
  <2> HIDE DEF ends
  <2> QED
    BY <1>2, <1>3, TextMinIs
<1>5. Text!CString(buffer) = SubSeq(buffer, 1, Len(t) + 1 - 1)
  <2>1. Text!CString(buffer) = SubSeq(buffer, 1, Text!Min(ends) - 1)
    BY <1>4 DEF Text!CString
  <2> HIDE DEF ends
  <2> QED
    BY <1>4, <2>1
<1>6. Len(t) + 1 - 1 = Len(t)
  BY <1>1
<1>7. SubSeq(buffer, 1, Len(t)) = t
  <2>1. buffer \in Seq(Int) /\ Len(buffer) = size + 2
    BY DEF FilledWith, HoldsFirst
  <2>2. 1 \in Int /\ Len(t) \in Int /\ 1 \in 1 .. Len(buffer) + 1 /\ Len(t) \in 0 .. Len(buffer)
    BY <1>1, <2>1
  <2>3. \A i \in 1 .. Len(t) : buffer[i] \in Int
    BY <1>1, <2>1
  <2>4. /\ SubSeq(buffer, 1, Len(t)) \in Seq(Int)
        /\ Len(SubSeq(buffer, 1, Len(t))) = Len(t)
        /\ \A i \in 1 .. Len(t) : SubSeq(buffer, 1, Len(t))[i] = buffer[i]
    BY <1>1, <2>1, <2>2, <2>3
  <2>5. t \in Seq(Int)
    BY <1>1, CStringIsText, TextIsSeq
  <2> QED
    BY <1>1, <2>4, <2>5, SameSeq
<1> QED
  BY <1>5, <1>6, <1>7

LEMMA EmptyCells ==
  ASSUME NEW size \in Nat, size >= 1
  PROVE  HoldsFirst(Text!Cells(size), size, <<>>) /\ Len(<<>>) = 0 /\ <<>> \in CStrings
<1>1. <<>> \in CStrings /\ Len(<<>>) = 0 /\ 1 .. 0 = {}
  BY DEF CStrings
<1>2. size + 1 \in 1 .. size + 2 /\ size + 2 \in 1 .. size + 2
  OBVIOUS
<1> QED
  BY <1>1, <1>2 DEF HoldsFirst, Text!Cells

LEMMA StrlcatIs ==
  ASSUME NEW size \in Nat, NEW buffer, NEW t, FilledWith(buffer, size, t), NEW src \in CStrings
  PROVE  /\ FilledWith(Text!strlcat(buffer, src, size).buffer, size,
                     t \o Cut(src, size - Len(t) - 1))
         /\ Text!strlcat(buffer, src, size).result = Len(t) + Len(src)
<1> DEFINE T == {size} \cup {i \in 0 .. size - 1 : buffer[i + 1] = Text!NUL}
<1>1. /\ t \in CStrings /\ Len(t) \in Nat /\ Len(t) <= size - 1 /\ Len(src) \in Nat
      /\ \A i \in 1 .. Len(t) : buffer[i] = t[i]
      /\ buffer[Len(t) + 1] = Text!NUL
  BY DEF FilledWith, HoldsFirst, CStrings, Text!NUL
<1>2. Len(t) \in T /\ T \in SUBSET Int
  BY <1>1
<1>3. \A i \in T : Len(t) <= i
  <2>1. \A i \in 1 .. Len(t) : buffer[i] # Text!NUL
    BY <1>1, CStringIsText DEF Text!NUL
  <2>2. ASSUME NEW i \in T PROVE Len(t) <= i
    <3>1. i = size \/ (i \in 0 .. size - 1 /\ i + 1 \notin 1 .. Len(t))
      BY <2>1
    <3> QED
      BY <1>1, <3>1
  <2> QED
    BY <2>2
<1>4. Text!Min(T) = Len(t)
  <2> HIDE DEF T
  <2> QED
    BY <1>2, <1>3, TextMinIs
<1>5. PICK r : r = Text!strlcpy(buffer, Len(t), src, size - Len(t))
  OBVIOUS
<1>6. Text!strlcat(buffer, src, size) = [r EXCEPT !.result = @ + Len(t)]
  BY <1>4, <1>5 DEF Text!strlcat
<1>7. \E b : r = [buffer |-> b, result |-> Len(src)]
  BY <1>5 DEF Text!strlcpy
<1>8. PICK b : r = [buffer |-> b, result |-> Len(src)]
  BY <1>7
<1>9. /\ Text!strlcat(buffer, src, size).buffer = r.buffer
      /\ Text!strlcat(buffer, src, size).result = Len(src) + Len(t)
  BY <1>6, <1>8
<1>10. FilledWith(r.buffer, size, t \o Cut(src, size - Len(t) - 1))
  BY <1>5, StrlcpyIs DEF FilledWith
<1> QED
  BY <1>1, <1>9, <1>10

ConcatStart(buffer) == [buffer |-> buffer, dst |-> 0, full |-> FALSE]

ConcatStep(s, arg, size) ==
  IF s.full THEN s
  ELSE LET r == Text!append(s.buffer, s.dst, arg, size - s.dst)
       IN [buffer |-> r.buffer, dst |-> s.dst + r.length, full |-> r.length = size - s.dst]

LEMMA ConcatOfTwo ==
  ASSUME NEW buffer, NEW size, NEW a1, NEW a2, NEW end,
         end = ConcatStep(ConcatStep(ConcatStart(buffer), a1, size), a2, size)
  PROVE  Text!concat(buffer, size, <<a1, a2>>)
           = IF end.full THEN end.buffer ELSE Text!Copy(end.buffer, end.dst, <<Text!NUL>>)
<1> DEFINE B == ConcatStart(buffer)
<1> DEFINE args == <<a1, a2>>
<1> DEFINE Iter == CHOOSE iter : iter =
      [s \in SUBSET (DOMAIN args) |->
         IF s = {} THEN B ELSE ConcatStep(iter[s \ {Text!Max(s)}], args[Text!Max(s)], size)]
<1>1. Text!concat(buffer, size, args)
        = IF Iter[DOMAIN args].full THEN Iter[DOMAIN args].buffer
          ELSE Text!Copy(Iter[DOMAIN args].buffer, Iter[DOMAIN args].dst, <<Text!NUL>>)
  BY DEF Text!concat, Text!FoldLeft, Text!MapThenFoldSet, ConcatStart, ConcatStep
<1>2. DOMAIN args = 1 .. 2
  OBVIOUS
<1> DEFINE V1(s) == IF 1 \in s THEN ConcatStep(B, a1, size) ELSE B
<1> DEFINE V2(s) == IF 2 \in s THEN ConcatStep(V1(s), a2, size) ELSE V1(s)
<1> DEFINE g == [s \in SUBSET (1 .. 2) |-> V2(s)]
<1> HIDE DEF B
<1>3. \A s \in SUBSET (1 .. 2) : g[s] = V2(s)
  OBVIOUS
<1>4. ASSUME NEW s \in SUBSET (1 .. 2)
      PROVE  g[s] = IF s = {} THEN B ELSE ConcatStep(g[s \ {Text!Max(s)}], args[Text!Max(s)], size)
  <2> HIDE DEF g
  <2>1. CASE 2 \in s
    <3>1. Text!Max(s) = 2
      <4>1. s \in SUBSET Int /\ \A i \in s : 2 >= i
        BY <2>1
      <4> QED
        BY <2>1, <4>1, TextMaxIs
    <3>2. g[s] = ConcatStep(V1(s), a2, size)
      BY <1>3, <2>1
    <3>3. g[s \ {2}] = V1(s)
      BY <1>3, <2>1
    <3>4. args[2] = a2
      OBVIOUS
    <3> QED
      BY <2>1, <3>1, <3>2, <3>3, <3>4
  <2>2. CASE 1 \in s /\ 2 \notin s
    <3>1. Text!Max(s) = 1
      <4>1. s \in SUBSET Int /\ \A i \in s : 1 >= i
        BY <2>2
      <4> QED
        BY <2>2, <4>1, TextMaxIs
    <3>2. g[s] = ConcatStep(B, a1, size)
      BY <1>3, <2>2
    <3>3. g[s \ {1}] = B
      BY <1>3, <2>2
    <3>4. args[1] = a1
      OBVIOUS
    <3> QED
      BY <2>2, <3>1, <3>2, <3>3, <3>4
  <2>3. CASE 1 \notin s /\ 2 \notin s
    <3>1. s = {}
      BY <2>3
    <3> QED
      BY <1>3, <2>3, <3>1
  <2> QED
    BY <2>1, <2>2, <2>3
<1>5. g = [s \in SUBSET (DOMAIN args) |->
             IF s = {} THEN B ELSE ConcatStep(g[s \ {Text!Max(s)}], args[Text!Max(s)], size)]
  <2>1. g = [s \in SUBSET (1 .. 2) |-> g[s]]
    OBVIOUS
  <2> HIDE DEF g, args
  <2> QED
    BY <1>2, <1>4, <2>1
<1>6. Iter = [s \in SUBSET (DOMAIN args) |->
                IF s = {} THEN B ELSE ConcatStep(Iter[s \ {Text!Max(s)}], args[Text!Max(s)], size)]
  <2> HIDE DEF g, args
  <2> QED
    BY <1>5
<1> HIDE DEF Iter
<1>7. Iter[1 .. 0] = B
  <2>1. 1 .. 0 = {} /\ {} \in SUBSET (DOMAIN args)
    OBVIOUS
  <2> HIDE DEF args
  <2> QED
    BY <1>6, <2>1
<1>8. Iter[1 .. 1] = ConcatStep(B, a1, size)
  <2>1. 1 .. 1 \in SUBSET (DOMAIN args) /\ 1 .. 1 # {} /\ (1 .. 1) \ {1} = 1 .. 0
          /\ args[1] = a1
    OBVIOUS
  <2>2. Text!Max(1 .. 1) = 1
    <3>1. 1 .. 1 \in SUBSET Int /\ 1 \in 1 .. 1 /\ \A i \in 1 .. 1 : 1 >= i
      OBVIOUS
    <3> QED
      BY <3>1, TextMaxIs
  <2> HIDE DEF args
  <2>3. Iter[1 .. 1] = ConcatStep(Iter[(1 .. 1) \ {1}], args[1], size)
    BY <1>6, <2>1, <2>2
  <2> QED
    BY <1>7, <2>1, <2>3
<1>9. Iter[1 .. 2] = ConcatStep(ConcatStep(B, a1, size), a2, size)
  <2>1. 1 .. 2 \in SUBSET (DOMAIN args) /\ 1 .. 2 # {} /\ (1 .. 2) \ {2} = 1 .. 1
          /\ args[2] = a2
    OBVIOUS
  <2>2. Text!Max(1 .. 2) = 2
    <3>1. 1 .. 2 \in SUBSET Int /\ 2 \in 1 .. 2 /\ \A i \in 1 .. 2 : 2 >= i
      OBVIOUS
    <3> QED
      BY <3>1, TextMaxIs
  <2> HIDE DEF args
  <2>3. Iter[1 .. 2] = ConcatStep(Iter[(1 .. 2) \ {2}], args[2], size)
    BY <1>6, <2>1, <2>2
  <2> QED
    BY <1>8, <2>1, <2>3
<1> QED
  <2>1. Iter[DOMAIN args] = end
    BY <1>2, <1>9 DEF B
  <2> QED
    BY <1>1, <2>1

LEMMA ConcatOfThree ==
  ASSUME NEW buffer, NEW size, NEW a1, NEW a2, NEW a3, NEW end,
         end = ConcatStep(ConcatStep(ConcatStep(ConcatStart(buffer), a1, size), a2, size), a3, size)
  PROVE  Text!concat(buffer, size, <<a1, a2, a3>>)
           = IF end.full THEN end.buffer ELSE Text!Copy(end.buffer, end.dst, <<Text!NUL>>)
<1> DEFINE B == ConcatStart(buffer)
<1> DEFINE args == <<a1, a2, a3>>
<1> DEFINE Iter == CHOOSE iter : iter =
      [s \in SUBSET (DOMAIN args) |->
         IF s = {} THEN B ELSE ConcatStep(iter[s \ {Text!Max(s)}], args[Text!Max(s)], size)]
<1>1. Text!concat(buffer, size, args)
        = IF Iter[DOMAIN args].full THEN Iter[DOMAIN args].buffer
          ELSE Text!Copy(Iter[DOMAIN args].buffer, Iter[DOMAIN args].dst, <<Text!NUL>>)
  BY DEF Text!concat, Text!FoldLeft, Text!MapThenFoldSet, ConcatStart, ConcatStep
<1>2. DOMAIN args = 1 .. 3
  OBVIOUS
<1> DEFINE V1(s) == IF 1 \in s THEN ConcatStep(B, a1, size) ELSE B
<1> DEFINE V2(s) == IF 2 \in s THEN ConcatStep(V1(s), a2, size) ELSE V1(s)
<1> DEFINE V3(s) == IF 3 \in s THEN ConcatStep(V2(s), a3, size) ELSE V2(s)
<1> DEFINE g == [s \in SUBSET (1 .. 3) |-> V3(s)]
<1> HIDE DEF B
<1>3. \A s \in SUBSET (1 .. 3) : g[s] = V3(s)
  OBVIOUS
<1>4. ASSUME NEW s \in SUBSET (1 .. 3)
      PROVE  g[s] = IF s = {} THEN B ELSE ConcatStep(g[s \ {Text!Max(s)}], args[Text!Max(s)], size)
  <2> HIDE DEF g
  <2>1. CASE 3 \in s
    <3>1. Text!Max(s) = 3
      <4>1. s \in SUBSET Int /\ \A i \in s : 3 >= i
        BY <2>1
      <4> QED
        BY <2>1, <4>1, TextMaxIs
    <3>2. g[s] = ConcatStep(V2(s), a3, size)
      BY <1>3, <2>1
    <3>3. g[s \ {3}] = V2(s)
      BY <1>3, <2>1
    <3>4. args[3] = a3
      OBVIOUS
    <3> QED
      BY <2>1, <3>1, <3>2, <3>3, <3>4
  <2>2. CASE 2 \in s /\ 3 \notin s
    <3>1. Text!Max(s) = 2
      <4>1. s \in SUBSET Int /\ \A i \in s : 2 >= i
        BY <2>2
      <4> QED
        BY <2>2, <4>1, TextMaxIs
    <3>2. g[s] = ConcatStep(V1(s), a2, size)
      BY <1>3, <2>2
    <3>3. g[s \ {2}] = V1(s)
      BY <1>3, <2>2
    <3>4. args[2] = a2
      OBVIOUS
    <3> QED
      BY <2>2, <3>1, <3>2, <3>3, <3>4
  <2>3. CASE 1 \in s /\ 2 \notin s /\ 3 \notin s
    <3>1. Text!Max(s) = 1
      <4>1. s \in SUBSET Int /\ \A i \in s : 1 >= i
        BY <2>3
      <4> QED
        BY <2>3, <4>1, TextMaxIs
    <3>2. g[s] = ConcatStep(B, a1, size)
      BY <1>3, <2>3
    <3>3. g[s \ {1}] = B
      BY <1>3, <2>3
    <3>4. args[1] = a1
      OBVIOUS
    <3> QED
      BY <2>3, <3>1, <3>2, <3>3, <3>4
  <2>4. CASE 1 \notin s /\ 2 \notin s /\ 3 \notin s
    <3>1. s = {}
      BY <2>4
    <3> QED
      BY <1>3, <2>4, <3>1
  <2> QED
    BY <2>1, <2>2, <2>3, <2>4
<1>5. g = [s \in SUBSET (DOMAIN args) |->
             IF s = {} THEN B ELSE ConcatStep(g[s \ {Text!Max(s)}], args[Text!Max(s)], size)]
  <2>1. g = [s \in SUBSET (1 .. 3) |-> g[s]]
    OBVIOUS
  <2> HIDE DEF g, args
  <2> QED
    BY <1>2, <1>4, <2>1
<1>6. Iter = [s \in SUBSET (DOMAIN args) |->
                IF s = {} THEN B ELSE ConcatStep(Iter[s \ {Text!Max(s)}], args[Text!Max(s)], size)]
  <2> HIDE DEF g, args
  <2> QED
    BY <1>5
<1> HIDE DEF Iter
<1>7. Iter[1 .. 0] = B
  <2>1. 1 .. 0 = {} /\ {} \in SUBSET (DOMAIN args)
    OBVIOUS
  <2> HIDE DEF args
  <2> QED
    BY <1>6, <2>1
<1>8. Iter[1 .. 1] = ConcatStep(B, a1, size)
  <2>1. 1 .. 1 \in SUBSET (DOMAIN args) /\ 1 .. 1 # {} /\ (1 .. 1) \ {1} = 1 .. 0
          /\ args[1] = a1
    OBVIOUS
  <2>2. Text!Max(1 .. 1) = 1
    <3>1. 1 .. 1 \in SUBSET Int /\ 1 \in 1 .. 1 /\ \A i \in 1 .. 1 : 1 >= i
      OBVIOUS
    <3> QED
      BY <3>1, TextMaxIs
  <2> HIDE DEF args
  <2>3. Iter[1 .. 1] = ConcatStep(Iter[(1 .. 1) \ {1}], args[1], size)
    BY <1>6, <2>1, <2>2
  <2> QED
    BY <1>7, <2>1, <2>3
<1>9. Iter[1 .. 2] = ConcatStep(ConcatStep(B, a1, size), a2, size)
  <2>1. 1 .. 2 \in SUBSET (DOMAIN args) /\ 1 .. 2 # {} /\ (1 .. 2) \ {2} = 1 .. 1
          /\ args[2] = a2
    OBVIOUS
  <2>2. Text!Max(1 .. 2) = 2
    <3>1. 1 .. 2 \in SUBSET Int /\ 2 \in 1 .. 2 /\ \A i \in 1 .. 2 : 2 >= i
      OBVIOUS
    <3> QED
      BY <3>1, TextMaxIs
  <2> HIDE DEF args
  <2>3. Iter[1 .. 2] = ConcatStep(Iter[(1 .. 2) \ {2}], args[2], size)
    BY <1>6, <2>1, <2>2
  <2> QED
    BY <1>8, <2>1, <2>3
<1>10. Iter[1 .. 3] = ConcatStep(ConcatStep(ConcatStep(B, a1, size), a2, size), a3, size)
  <2>1. 1 .. 3 \in SUBSET (DOMAIN args) /\ 1 .. 3 # {} /\ (1 .. 3) \ {3} = 1 .. 2
          /\ args[3] = a3
    OBVIOUS
  <2>2. Text!Max(1 .. 3) = 3
    <3>1. 1 .. 3 \in SUBSET Int /\ 3 \in 1 .. 3 /\ \A i \in 1 .. 3 : 3 >= i
      OBVIOUS
    <3> QED
      BY <3>1, TextMaxIs
  <2> HIDE DEF args
  <2>3. Iter[1 .. 3] = ConcatStep(Iter[(1 .. 3) \ {3}], args[3], size)
    BY <1>6, <2>1, <2>2
  <2> QED
    BY <1>9, <2>1, <2>3
<1> QED
  <2>1. Iter[DOMAIN args] = end
    BY <1>2, <1>10 DEF B
  <2> QED
    BY <1>1, <2>1

-----------------------------------------------------------------------------
(* Numbers as text.                                                        *)

LEMMA PowersOfTen ==
  /\ 10 ^ 0 = 1 /\ 10 ^ 1 = 10 /\ 10 ^ 2 = 100 /\ 10 ^ 3 = 1000 /\ 10 ^ 4 = 10000
  /\ 10 ^ 5 = 100000 /\ 10 ^ 6 = 1000000
  /\ 10 ^ 7 = 10000000 /\ 10 ^ 8 = 100000000 /\ 10 ^ 9 = 1000000000
  /\ 10 ^ 10 = 10000000000
OBVIOUS

NumberStates == [ok : BOOLEAN, value : Int]

LEMMA CodesAreInt == \A c \in Codes : c \in Int
BY DEF Codes

\* The number that digits are, digit by digit.
LEMMA DecimalIs ==
  ASSUME NEW digits \in Texts
  PROVE  \E S \in [0 .. Len(digits) -> Int] :
           /\ S[0] = 0
           /\ \A k \in 1 .. Len(digits) : S[k] = S[k - 1] * 10 + digits[k] - Text!Zero
           /\ Text!Decimal(digits) = S[Len(digits)]
<1> DEFINE n == Len(digits)
<1> DEFINE b == 0
<1> DEFINE Iter == CHOOSE iter : iter =
      [s \in SUBSET (DOMAIN digits) |->
         IF s = {} THEN 0 ELSE iter[s \ {Text!Max(s)}] * 10 + digits[Text!Max(s)] - Text!Zero]
<1>1. Text!Decimal(digits) = Iter[DOMAIN digits]
  BY DEF Text!Decimal, Text!FoldLeft, Text!MapThenFoldSet
<1>2. n \in Nat /\ DOMAIN digits = 1 .. n /\ \A i \in 1 .. n : digits[i] \in Codes
  BY DEF Texts
<1>3. b \in Int
  BY <1>2
<1>4. ASSUME NEW v \in Int, NEW i \in 1 .. n PROVE v * 10 + digits[i] - Text!Zero \in Int
  BY <1>2, CodesAreInt DEF Text!Zero
<1> DEFINE h == [x \in (1 .. n) \X Int |-> x[2] * 10 + digits[x[1]] - Text!Zero]
<1>5. h \in [(1 .. n) \X Int -> Int]
  <2>1. \A x \in (1 .. n) \X Int : x[1] \in 1 .. n /\ x[2] \in Int
    OBVIOUS
  <2>2. \A x \in (1 .. n) \X Int : x[2] * 10 + digits[x[1]] - Text!Zero \in Int
    BY <1>4, <2>1
  <2> QED
    BY <2>2
<1> HIDE DEF b
<1>6. PICK g \in [SUBSET (1 .. n) -> Int] : IsFold(g, n, b, h)
  <2> HIDE DEF h, n
  <2> QED
    BY <1>2, <1>3, <1>5, FoldExists
<1>7. ASSUME NEW s \in SUBSET (1 .. n), s # {}
      PROVE  Text!Max(s) \in s /\ s \ {Text!Max(s)} \in SUBSET (1 .. n)
  <2>1. s \in SUBSET (0 .. n)
    BY <1>2
  <2> QED
    BY <1>2, <1>7, <2>1, TextMaxOfSome
<1>8. ASSUME NEW s \in SUBSET (1 .. n)
      PROVE  g[s] = IF s = {} THEN b ELSE g[s \ {Text!Max(s)}] * 10 + digits[Text!Max(s)] - Text!Zero
  <2>1. g[s] = IF s = {} THEN b ELSE h[<<Text!Max(s), g[s \ {Text!Max(s)}]>>]
    BY <1>6 DEF IsFold
  <2>2. CASE s = {}
    BY <2>1, <2>2
  <2>3. CASE s # {}
    <3> DEFINE m == Text!Max(s)
    <3> DEFINE r == g[s \ {Text!Max(s)}]
    <3>1. m \in 1 .. n /\ r \in Int
      BY <1>7, <2>3
    <3>2. h[<<m, r>>] = r * 10 + digits[m] - Text!Zero
      <4> HIDE DEF m, r
      <4> QED
        BY <3>1
    <3>3. g[s] = h[<<m, r>>]
      BY <2>1, <2>3
    <3> QED
      BY <2>3, <3>2, <3>3
  <2> QED
    BY <2>2, <2>3
<1>9. g = [s \in SUBSET (DOMAIN digits) |->
            IF s = {} THEN b ELSE g[s \ {Text!Max(s)}] * 10 + digits[Text!Max(s)] - Text!Zero]
  BY <1>2, <1>8
<1>10. Iter = [s \in SUBSET (DOMAIN digits) |->
                 IF s = {} THEN b ELSE Iter[s \ {Text!Max(s)}] * 10 + digits[Text!Max(s)] - Text!Zero]
  <2>1. g = [s \in SUBSET (DOMAIN digits) |->
            IF s = {} THEN 0 ELSE g[s \ {Text!Max(s)}] * 10 + digits[Text!Max(s)] - Text!Zero]
    BY <1>9 DEF b
  <2>2. Iter = [s \in SUBSET (DOMAIN digits) |->
            IF s = {} THEN 0 ELSE Iter[s \ {Text!Max(s)}] * 10 + digits[Text!Max(s)] - Text!Zero]
    BY <2>1
  <2> HIDE DEF Iter
  <2> QED
    BY <2>2 DEF b
<1> DEFINE S == [k \in 0 .. n |-> Iter[1 .. k]]
<1> HIDE DEF Iter, h
<1>11. Iter[{}] = b /\ 1 .. 0 = {}
  <2>1. {} \in SUBSET (DOMAIN digits)
    OBVIOUS
  <2> QED
    BY <1>10, <2>1
<1>12. ASSUME NEW k \in 1 .. n PROVE Iter[1 .. k] = Iter[1 .. k - 1] * 10 + digits[k] - Text!Zero
  <2>1. 1 .. k \in SUBSET (DOMAIN digits) /\ 1 .. k # {}
    <3>1. k \in 1 .. k /\ \A i \in 1 .. k : i \in 1 .. n
      BY <1>2
    <3>2. 1 .. k \subseteq 1 .. n
      BY <3>1
    <3> QED
      BY <1>2, <3>1, <3>2
  <2>2. Text!Max(1 .. k) = k
    <3>1. 1 .. k \in SUBSET Int /\ k \in 1 .. k /\ \A i \in 1 .. k : k >= i
      BY <1>2
    <3> QED
      BY <3>1, TextMaxIs
  <2>3. (1 .. k) \ {k} = 1 .. k - 1
    BY <1>2
  <2>4. Iter[1 .. k] = Iter[(1 .. k) \ {Text!Max(1 .. k)}] * 10 + digits[Text!Max(1 .. k)] - Text!Zero
    BY <1>10, <2>1
  <2> QED
    BY <2>2, <2>3, <2>4
<1>13. \A k \in 0 .. n : Iter[1 .. k] \in Int
  <2> DEFINE G == {k \in Nat : k <= n => Iter[1 .. k] \in Int}
  <2>1. 0 \in G
    BY <1>3, <1>11
  <2>2. ASSUME NEW k \in Nat, k < n, k \in G PROVE k + 1 \in G
    <3>1. k <= n /\ k + 1 \in 1 .. n /\ k + 1 - 1 = k
      BY <1>2, <2>2
    <3>2. Iter[1 .. k + 1] = Iter[1 .. k] * 10 + digits[k + 1] - Text!Zero
      BY <1>12, <3>1
    <3>3. Iter[1 .. k] \in Int
      BY <2>2, <3>1
    <3> QED
      BY <1>4, <3>1, <3>2, <3>3
  <2>3. G \in SUBSET Nat
    OBVIOUS
  <2>4. \A k \in 0 .. n : k \in G
    <3> HIDE DEF G
    <3> QED
      BY <1>2, <2>1, <2>2, <2>3, UpTo
  <2> QED
    BY <1>2, <2>4
<1>14. /\ S \in [0 .. n -> Int] /\ S[0] = b
       /\ \A k \in 1 .. n : S[k] = S[k - 1] * 10 + digits[k] - Text!Zero
       /\ S[n] = Iter[1 .. n]
  <2>1. \A k \in 1 .. n : k \in 0 .. n /\ k - 1 \in 0 .. n
    BY <1>2
  <2>2. 0 \in 0 .. n /\ n \in 0 .. n
    BY <1>2
  <2> HIDE DEF n
  <2> QED
    BY <1>11, <1>12, <1>13, <2>1, <2>2
<1>15. Text!Decimal(digits) = Iter[1 .. n]
  BY <1>1, <1>2
<1> HIDE DEF S
<1>16. /\ S \in [0 .. n -> Int] /\ S[0] = 0
       /\ \A k \in 1 .. n : S[k] = S[k - 1] * 10 + digits[k] - Text!Zero
       /\ Text!Decimal(digits) = S[n]
  BY <1>14, <1>15 DEF b
<1> QED
  BY <1>16

Parsed(digits, negative, signed) ==
  LET Step(s, ch) == Text!ParseDigit(s, ch, negative, signed)
  IN Text!FoldLeft(Step, [ok |-> TRUE, value |-> 0], digits)

LEMMA ParseDigitIs ==
  ASSUME NEW s \in NumberStates, NEW ch \in Int, NEW negative \in BOOLEAN, NEW signed \in BOOLEAN
  PROVE  Text!ParseDigit(s, ch, negative, signed) \in NumberStates
<1>1. PICK least \in Int : least = Text!IntegerTypeMin(signed)
  BY DEF Text!IntegerTypeMin
<1>2. \A n \in Int : Text!Kept(n, signed) \in Int
  <2>1. \A n \in Int : Text!Kept(n, signed) = ((n - least) % (2 * 127 + 2)) + least
    BY <1>1 DEF Text!Kept
  <2>2. \A n \in Int : ((n - least) % (2 * 127 + 2)) + least \in Int
    OBVIOUS
  <2> QED
    BY <2>1, <2>2
<1>3. s.value * 10 + (IF negative THEN Text!Zero - ch ELSE ch - Text!Zero) \in Int
  BY DEF NumberStates, Text!Zero
<1> QED
  BY <1>2, <1>3 DEF NumberStates, Text!ParseDigit

\* The digits as they are read.
LEMMA ParsedIs ==
  ASSUME NEW digits \in Texts, NEW negative \in BOOLEAN, NEW signed \in BOOLEAN
  PROVE  \E S \in [0 .. Len(digits) -> NumberStates] :
           /\ S[0] = [ok |-> TRUE, value |-> 0]
           /\ \A k \in 1 .. Len(digits) : S[k] = Text!ParseDigit(S[k - 1], digits[k], negative, signed)
           /\ Parsed(digits, negative, signed) = S[Len(digits)]
<1> DEFINE n == Len(digits)
<1> DEFINE b == [ok |-> TRUE, value |-> 0]
<1> DEFINE Iter == CHOOSE iter : iter =
      [s \in SUBSET (DOMAIN digits) |->
         IF s = {} THEN [ok |-> TRUE, value |-> 0] ELSE Text!ParseDigit(iter[s \ {Text!Max(s)}], digits[Text!Max(s)], negative, signed)]
<1>1. Parsed(digits, negative, signed) = Iter[DOMAIN digits]
  BY DEF Parsed, Text!FoldLeft, Text!MapThenFoldSet
<1>2. n \in Nat /\ DOMAIN digits = 1 .. n /\ \A i \in 1 .. n : digits[i] \in Codes
  BY DEF Texts
<1>3. b \in NumberStates
  BY DEF NumberStates
<1>4. ASSUME NEW v \in NumberStates, NEW i \in 1 .. n PROVE Text!ParseDigit(v, digits[i], negative, signed) \in NumberStates
  BY <1>2, CodesAreInt, ParseDigitIs
<1> DEFINE h == [x \in (1 .. n) \X NumberStates |-> Text!ParseDigit(x[2], digits[x[1]], negative, signed)]
<1>5. h \in [(1 .. n) \X NumberStates -> NumberStates]
  <2>1. \A x \in (1 .. n) \X NumberStates : x[1] \in 1 .. n /\ x[2] \in NumberStates
    OBVIOUS
  <2>2. \A x \in (1 .. n) \X NumberStates : Text!ParseDigit(x[2], digits[x[1]], negative, signed) \in NumberStates
    BY <1>4, <2>1
  <2> QED
    BY <2>2
<1> HIDE DEF b
<1>6. PICK g \in [SUBSET (1 .. n) -> NumberStates] : IsFold(g, n, b, h)
  <2> HIDE DEF h, n
  <2> QED
    BY <1>2, <1>3, <1>5, FoldExists
<1>7. ASSUME NEW s \in SUBSET (1 .. n), s # {}
      PROVE  Text!Max(s) \in s /\ s \ {Text!Max(s)} \in SUBSET (1 .. n)
  <2>1. s \in SUBSET (0 .. n)
    BY <1>2
  <2> QED
    BY <1>2, <1>7, <2>1, TextMaxOfSome
<1>8. ASSUME NEW s \in SUBSET (1 .. n)
      PROVE  g[s] = IF s = {} THEN b ELSE Text!ParseDigit(g[s \ {Text!Max(s)}], digits[Text!Max(s)], negative, signed)
  <2>1. g[s] = IF s = {} THEN b ELSE h[<<Text!Max(s), g[s \ {Text!Max(s)}]>>]
    BY <1>6 DEF IsFold
  <2>2. CASE s = {}
    BY <2>1, <2>2
  <2>3. CASE s # {}
    <3> DEFINE m == Text!Max(s)
    <3> DEFINE r == g[s \ {Text!Max(s)}]
    <3>1. m \in 1 .. n /\ r \in NumberStates
      BY <1>7, <2>3
    <3>2. h[<<m, r>>] = Text!ParseDigit(r, digits[m], negative, signed)
      <4> HIDE DEF m, r
      <4> QED
        BY <3>1
    <3>3. g[s] = h[<<m, r>>]
      BY <2>1, <2>3
    <3> QED
      BY <2>3, <3>2, <3>3
  <2> QED
    BY <2>2, <2>3
<1>9. g = [s \in SUBSET (DOMAIN digits) |->
            IF s = {} THEN b ELSE Text!ParseDigit(g[s \ {Text!Max(s)}], digits[Text!Max(s)], negative, signed)]
  BY <1>2, <1>8
<1>10. Iter = [s \in SUBSET (DOMAIN digits) |->
                 IF s = {} THEN b ELSE Text!ParseDigit(Iter[s \ {Text!Max(s)}], digits[Text!Max(s)], negative, signed)]
  <2>1. g = [s \in SUBSET (DOMAIN digits) |->
            IF s = {} THEN [ok |-> TRUE, value |-> 0] ELSE Text!ParseDigit(g[s \ {Text!Max(s)}], digits[Text!Max(s)], negative, signed)]
    BY <1>9 DEF b
  <2>2. Iter = [s \in SUBSET (DOMAIN digits) |->
            IF s = {} THEN [ok |-> TRUE, value |-> 0] ELSE Text!ParseDigit(Iter[s \ {Text!Max(s)}], digits[Text!Max(s)], negative, signed)]
    BY <2>1
  <2> HIDE DEF Iter
  <2> QED
    BY <2>2 DEF b
<1> DEFINE S == [k \in 0 .. n |-> Iter[1 .. k]]
<1> HIDE DEF Iter, h
<1>11. Iter[{}] = b /\ 1 .. 0 = {}
  <2>1. {} \in SUBSET (DOMAIN digits)
    OBVIOUS
  <2> QED
    BY <1>10, <2>1
<1>12. ASSUME NEW k \in 1 .. n PROVE Iter[1 .. k] = Text!ParseDigit(Iter[1 .. k - 1], digits[k], negative, signed)
  <2>1. 1 .. k \in SUBSET (DOMAIN digits) /\ 1 .. k # {}
    <3>1. k \in 1 .. k /\ \A i \in 1 .. k : i \in 1 .. n
      BY <1>2
    <3>2. 1 .. k \subseteq 1 .. n
      BY <3>1
    <3> QED
      BY <1>2, <3>1, <3>2
  <2>2. Text!Max(1 .. k) = k
    <3>1. 1 .. k \in SUBSET Int /\ k \in 1 .. k /\ \A i \in 1 .. k : k >= i
      BY <1>2
    <3> QED
      BY <3>1, TextMaxIs
  <2>3. (1 .. k) \ {k} = 1 .. k - 1
    BY <1>2
  <2>4. Iter[1 .. k] = Text!ParseDigit(Iter[(1 .. k) \ {Text!Max(1 .. k)}], digits[Text!Max(1 .. k)], negative, signed)
    BY <1>10, <2>1
  <2> QED
    BY <2>2, <2>3, <2>4
<1>13. \A k \in 0 .. n : Iter[1 .. k] \in NumberStates
  <2> DEFINE G == {k \in Nat : k <= n => Iter[1 .. k] \in NumberStates}
  <2>1. 0 \in G
    BY <1>3, <1>11
  <2>2. ASSUME NEW k \in Nat, k < n, k \in G PROVE k + 1 \in G
    <3>1. k <= n /\ k + 1 \in 1 .. n /\ k + 1 - 1 = k
      BY <1>2, <2>2
    <3>2. Iter[1 .. k + 1] = Text!ParseDigit(Iter[1 .. k], digits[k + 1], negative, signed)
      BY <1>12, <3>1
    <3>3. Iter[1 .. k] \in NumberStates
      BY <2>2, <3>1
    <3> QED
      BY <1>4, <3>1, <3>2, <3>3
  <2>3. G \in SUBSET Nat
    OBVIOUS
  <2>4. \A k \in 0 .. n : k \in G
    <3> HIDE DEF G
    <3> QED
      BY <1>2, <2>1, <2>2, <2>3, UpTo
  <2> QED
    BY <1>2, <2>4
<1>14. /\ S \in [0 .. n -> NumberStates] /\ S[0] = b
       /\ \A k \in 1 .. n : S[k] = Text!ParseDigit(S[k - 1], digits[k], negative, signed)
       /\ S[n] = Iter[1 .. n]
  <2>1. \A k \in 1 .. n : k \in 0 .. n /\ k - 1 \in 0 .. n
    BY <1>2
  <2>2. 0 \in 0 .. n /\ n \in 0 .. n
    BY <1>2
  <2> HIDE DEF n
  <2> QED
    BY <1>11, <1>12, <1>13, <2>1, <2>2
<1>15. Parsed(digits, negative, signed) = Iter[1 .. n]
  BY <1>1, <1>2
<1> HIDE DEF S
<1>16. /\ S \in [0 .. n -> NumberStates] /\ S[0] = [ok |-> TRUE, value |-> 0]
       /\ \A k \in 1 .. n : S[k] = Text!ParseDigit(S[k - 1], digits[k], negative, signed)
       /\ Parsed(digits, negative, signed) = S[n]
  BY <1>14, <1>15 DEF b
<1> QED
  BY <1>16


\* The limits of the type, and one digit more within them.
LEMMA DigitFits ==
  ASSUME NEW negative \in BOOLEAN, NEW signed \in BOOLEAN, negative => signed,
         NEW least, least = Text!IntegerTypeMin(signed), NEW most, most = Text!IntegerTypeMax(signed),
         NEW v \in Int, v >= least, v <= most, negative => v <= 0, ~negative => v >= 0,
         NEW c \in 0 .. 9, NEW w \in Int, negative => w = v * 10 - c, ~negative => w = v * 10 + c
  PROVE  /\ Text!DigitAllowed(v, c, negative, signed) <=> w >= least /\ w <= most
         /\ w >= least /\ w <= most => Text!Kept(w, signed) = w
<1>1. \/ signed /\ least = -128 /\ most = 127
      \/ ~signed /\ least = 0 /\ most = 255
  BY DEF Text!IntegerTypeMin, Text!IntegerTypeMax
<1>2. w \in Int
  OBVIOUS
<1>3. Text!Kept(w, signed) = ((w - least) % (2 * 127 + 2)) + least
  BY DEF Text!Kept
<1>4. \A x \in Int : x >= 0 /\ x < 256 => x % (2 * 127 + 2) = x
  OBVIOUS
<1>5. w >= least /\ w <= most => Text!Kept(w, signed) = w
  <2>1. w >= least /\ w <= most => w - least \in Int /\ w - least >= 0 /\ w - least < 256
    BY <1>1, <1>2
  <2>2. w >= least /\ w <= most => (w - least) % (2 * 127 + 2) = w - least
    BY <1>4, <2>1
  <2>3. (w - least) + least = w
    BY <1>1, <1>2
  <2> QED
    BY <1>3, <2>2, <2>3
<1>6. negative => (Text!DigitAllowed(v, c, negative, signed) <=>
        ~(v < -(most \div 10) \/ (v = -(most \div 10) /\ c > -(least + (most \div 10) * 10))))
  BY DEF Text!DigitAllowed
<1>7. ~negative => (Text!DigitAllowed(v, c, negative, signed) <=>
        ~(v > most \div 10 \/ (v = most \div 10 /\ c > most - (most \div 10) * 10)))
  BY DEF Text!DigitAllowed
<1>8. 127 \div 10 = 12 /\ 255 \div 10 = 25
  OBVIOUS
<1>9. ASSUME negative PROVE Text!DigitAllowed(v, c, negative, signed) <=> w >= least /\ w <= most
  <2>1. signed /\ least = -128 /\ most = 127 /\ w = v * 10 - c /\ v <= 0
    BY <1>1, <1>9
  <2>2. Text!DigitAllowed(v, c, negative, signed) <=>
          ~(v < -12 \/ (v = -12 /\ c > -(-128 + 12 * 10)))
    BY <1>6, <1>8, <1>9, <2>1
  <2>3. ~(v < -12 \/ (v = -12 /\ c > -(-128 + 12 * 10))) <=> w >= -128 /\ w <= 127
    BY <2>1
  <2>4. (w >= least /\ w <= most) <=> (w >= -128 /\ w <= 127)
    BY <2>1
  <2> QED
    BY <2>2, <2>3, <2>4
<1>10. ASSUME ~negative, signed
       PROVE  Text!DigitAllowed(v, c, negative, signed) <=> w >= least /\ w <= most
  <2>1. least = -128 /\ most = 127 /\ w = v * 10 + c /\ v >= 0
    BY <1>1, <1>10
  <2>2. Text!DigitAllowed(v, c, negative, signed) <=> ~(v > 12 \/ (v = 12 /\ c > 127 - 12 * 10))
    BY <1>7, <1>8, <1>10, <2>1
  <2>3. ~(v > 12 \/ (v = 12 /\ c > 127 - 12 * 10)) <=> v * 10 + c >= -128 /\ v * 10 + c <= 127
    BY <2>1
  <2> QED
    BY <2>1, <2>2, <2>3
<1>11. ASSUME ~negative, ~signed
       PROVE  Text!DigitAllowed(v, c, negative, signed) <=> w >= least /\ w <= most
  <2>1. least = 0 /\ most = 255 /\ w = v * 10 + c /\ v >= 0
    BY <1>1, <1>11
  <2>2. Text!DigitAllowed(v, c, negative, signed) <=> ~(v > 25 \/ (v = 25 /\ c > 255 - 25 * 10))
    BY <1>7, <1>8, <1>11, <2>1
  <2>3. ~(v > 25 \/ (v = 25 /\ c > 255 - 25 * 10)) <=> v * 10 + c >= 0 /\ v * 10 + c <= 255
    BY <2>1
  <2> QED
    BY <2>1, <2>2, <2>3
<1> QED
  BY <1>5, <1>9, <1>10, <1>11

Signs(negative) == IF negative THEN -1 ELSE 1

AreDigits(digits, k) == \A i \in 1 .. k : digits[i] \in 48 .. 57

\* Digits are read while they are digits and the number is one of the type's.
LEMMA ReadsNumber ==
  ASSUME NEW digits \in Texts, NEW negative \in BOOLEAN, NEW signed \in BOOLEAN, negative => signed,
         NEW least, least = Text!IntegerTypeMin(signed), NEW most, most = Text!IntegerTypeMax(signed),
         NEW number, number = Signs(negative) * Text!Decimal(digits)
  PROVE  /\ Parsed(digits, negative, signed) \in NumberStates
         /\ Parsed(digits, negative, signed).ok
              <=> AreDigits(digits, Len(digits)) /\ number >= least /\ number <= most
         /\ Parsed(digits, negative, signed).ok => Parsed(digits, negative, signed).value = number
         /\ number \in Int
<1> DEFINE n == Len(digits)
<1>1. n \in Nat /\ \A i \in 1 .. n : digits[i] \in Codes
  BY DEF Texts
<1>2. PICK S \in [0 .. n -> Int] :
        /\ S[0] = 0
        /\ \A k \in 1 .. n : S[k] = S[k - 1] * 10 + digits[k] - Text!Zero
        /\ Text!Decimal(digits) = S[n]
  BY DecimalIs
<1>3. PICK P \in [0 .. n -> NumberStates] :
        /\ P[0] = [ok |-> TRUE, value |-> 0]
        /\ \A k \in 1 .. n : P[k] = Text!ParseDigit(P[k - 1], digits[k], negative, signed)
        /\ Parsed(digits, negative, signed) = P[n]
  BY ParsedIs
<1>4. \/ signed /\ least = -128 /\ most = 127
      \/ ~signed /\ ~negative /\ least = 0 /\ most = 255
  BY DEF Text!IntegerTypeMin, Text!IntegerTypeMax
<1> DEFINE Signed(k) == IF negative THEN -S[k] ELSE S[k]
<1> DEFINE Right(k) ==
      /\ AreDigits(digits, k) => S[k] >= 0
      /\ P[k].ok <=> AreDigits(digits, k) /\ Signed(k) >= least /\ Signed(k) <= most
      /\ P[k].ok => P[k].value = Signed(k)
<1> HIDE DEF n
<1>5. Right(0)
  <2>1. P[0].ok = TRUE /\ P[0].value = 0 /\ AreDigits(digits, 0)
    BY <1>3 DEF AreDigits
  <2>2. S[0] = 0 /\ Signed(0) = 0
    <3>1. PICK x \in Int : x = S[0] /\ x = 0
      BY <1>2
    <3>2. -x = 0
      <4>1. \A y \in Int : y >= 0 /\ y <= 0 => -y = 0
        OBVIOUS
      <4>2. x >= 0 /\ x <= 0
        BY <3>1
      <4> QED
        BY <4>1, <4>2, Zenon
    <3> QED
      BY <3>1, <3>2
  <2>3. 0 >= least /\ 0 <= most
    BY <1>4
  <2> QED
    BY <2>1, <2>2, <2>3
<1>6. ASSUME NEW k \in 0 .. n, k < n, Right(k) PROVE Right(k + 1)
  <2>1. PICK i \in 1 .. n : i = k + 1 /\ i - 1 = k
    BY <1>1, <1>6
  <2>2. PICK ch \in Int : ch = digits[i]
    BY <1>1, CodesAreInt
  <2>3. PICK a \in Int : a = S[k]
    BY <1>2
  <2>4. S[i] = a * 10 + ch - 48 /\ S[i] \in Int
    BY <1>1, <1>2, <2>1, <2>2, <2>3 DEF Text!Zero
  <2>5. PICK s \in NumberStates : s = P[k]
    BY <1>3
  <2>6. P[i] = Text!ParseDigit(s, ch, negative, signed)
    BY <1>1, <1>3, <2>1, <2>2, <2>5
  <2>7. AreDigits(digits, i) <=> AreDigits(digits, k) /\ ch \in 48 .. 57
    <3>1. i \in 1 .. i /\ \A j \in 1 .. k : j \in 1 .. i
      BY <1>1, <2>1
    <3>2. \A j \in 1 .. i : j = i \/ j \in 1 .. k
      BY <1>1, <2>1
    <3> QED
      BY <2>2, <3>1, <3>2 DEF AreDigits
  <2>8. PICK v \in Int : v = IF negative THEN -a ELSE a
    BY <2>3
  <2>9. PICK w \in Int : w = IF negative THEN -S[i] ELSE S[i]
    BY <2>4
  <2>10. w = v * 10 + (IF negative THEN -(ch - 48) ELSE ch - 48)
    <3>1. CASE negative
      <4>1. v = -a /\ w = -(a * 10 + ch - 48)
        BY <2>4, <2>8, <2>9, <3>1
      <4>2. -(a * 10 + ch - 48) = (-a) * 10 + (-(ch - 48))
        BY <2>2, <2>3
      <4> QED
        BY <3>1, <4>1, <4>2
    <3>2. CASE ~negative
      <4>1. v = a /\ w = a * 10 + ch - 48
        BY <2>4, <2>8, <2>9, <3>2
      <4>2. a * 10 + ch - 48 = a * 10 + (ch - 48)
        BY <2>2, <2>3
      <4> QED
        BY <3>2, <4>1, <4>2
    <3> QED
      BY <3>1, <3>2
  <2>11. /\ AreDigits(digits, k) => a >= 0
         /\ s.ok <=> AreDigits(digits, k) /\ v >= least /\ v <= most
         /\ s.ok => s.value = v
    BY <1>6, <2>3, <2>5, <2>8
  <2>12. CASE ~(s.ok /\ ch \in 48 .. 57)
    <3>1. P[i].ok = FALSE
      <4>1. ~(s.ok /\ ch - Text!Zero \in 0 .. 9)
        BY <2>2, <2>12 DEF Text!Zero
      <4>2. P[i] = [s EXCEPT !.ok = FALSE]
        BY <2>6, <4>1 DEF Text!ParseDigit
      <4> QED
        BY <4>2 DEF NumberStates
    <3>2. ~(AreDigits(digits, i) /\ w >= least /\ w <= most)
      <4>1. ASSUME AreDigits(digits, k), ch \in 48 .. 57, ~s.ok, w >= least, w <= most PROVE FALSE
        <5>1. ~(v >= least /\ v <= most) /\ a >= 0
          BY <2>11, <4>1
        <5>2. PICK c \in 0 .. 9 : c = ch - 48
          BY <2>2, <4>1
        <5>3. CASE negative
          <6>1. v = -a /\ w = v * 10 - c /\ least = -128 /\ most = 127
            BY <1>4, <2>2, <2>3, <2>8, <2>10, <5>2, <5>3
          <6> QED
            BY <4>1, <5>1, <6>1
        <5>4. CASE ~negative
          <6>1. v = a /\ w = v * 10 + c
            BY <2>8, <2>10, <5>2, <5>4
          <6>2. least <= 0 /\ most \in Int
            BY <1>4
          <6> QED
            BY <1>4, <4>1, <5>1, <6>1, <6>2
        <5> QED
          BY <5>3, <5>4
      <4> QED
        BY <2>7, <2>12, <4>1
    <3>3. AreDigits(digits, i) => S[i] >= 0
      BY <2>3, <2>4, <2>7, <2>11
    <3> QED
      BY <2>1, <2>9, <3>1, <3>2, <3>3
  <2>13. CASE s.ok /\ ch \in 48 .. 57
    <3>1. AreDigits(digits, k) /\ AreDigits(digits, i) /\ v >= least /\ v <= most /\ s.value = v /\ a >= 0
      BY <2>7, <2>11, <2>13
    <3>2. PICK c \in 0 .. 9 : c = ch - 48
      BY <2>2, <2>13
    <3>3. (negative => w = v * 10 - c) /\ (~negative => w = v * 10 + c)
      BY <2>10, <3>2
    <3>4. (negative => v <= 0) /\ (~negative => v >= 0)
      BY <2>3, <2>8, <3>1
    <3>5. /\ Text!DigitAllowed(v, c, negative, signed) <=> w >= least /\ w <= most
          /\ w >= least /\ w <= most => Text!Kept(w, signed) = w
      <4>1. Text!DigitAllowed(v, c, negative, signed) <=> w >= least /\ w <= most
        BY <3>1, <3>3, <3>4, DigitFits
      <4>2. w >= least /\ w <= most => Text!Kept(w, signed) = w
        BY <3>1, <3>3, <3>4, DigitFits
      <4> QED
        BY <4>1, <4>2
    <3>6. P[i] = IF Text!DigitAllowed(v, c, negative, signed)
                 THEN [s EXCEPT !.value = Text!Kept(w, signed)] ELSE [s EXCEPT !.ok = FALSE]
      <4>1. s.ok /\ ch - Text!Zero \in 0 .. 9 /\ ch - Text!Zero = c
        BY <2>13, <3>2 DEF Text!Zero
      <4>2. s.value * 10 + (IF negative THEN Text!Zero - ch ELSE ch - Text!Zero) = w
        BY <2>2, <2>10, <3>1 DEF Text!Zero
      <4> QED
        BY <2>6, <3>1, <4>1, <4>2 DEF Text!ParseDigit
    <3>7. S[i] >= 0
      BY <2>3, <2>4, <2>13, <3>1
    <3>8. P[i].ok <=> w >= least /\ w <= most
      BY <2>13, <3>5, <3>6 DEF NumberStates
    <3>9. P[i].ok => P[i].value = w
      BY <2>13, <3>5, <3>6, <3>8 DEF NumberStates
    <3> QED
      BY <2>1, <2>9, <3>1, <3>7, <3>8, <3>9
  <2> QED
    BY <2>12, <2>13
<1>7. Right(n)
  <2> DEFINE G == {k \in Nat : k <= n => Right(k)}
  <2>1. 0 \in G
    BY <1>5
  <2>2. ASSUME NEW k \in Nat, k < n, k \in G PROVE k + 1 \in G
    <3>1. k \in 0 .. n /\ k <= n
      BY <1>1, <2>2
    <3>2. Right(k)
      BY <2>2, <3>1
    <3> HIDE DEF Right
    <3>3. Right(k + 1)
      BY <1>6, <2>2, <3>1, <3>2
    <3> QED
      BY <3>3
  <2>3. G \in SUBSET Nat
    OBVIOUS
  <2>4. \A k \in 0 .. n : k \in G
    <3> HIDE DEF G
    <3> QED
      BY <1>1, <2>1, <2>2, <2>3, UpTo
  <2>5. n \in 0 .. n /\ n <= n
    BY <1>1
  <2> HIDE DEF Right
  <2> QED
    BY <2>4, <2>5
<1>8. number = Signed(n) /\ Signed(n) \in Int
  <2>1. PICK a \in Int : a = S[n]
    BY <1>1, <1>2
  <2>2. Signs(negative) * a = IF negative THEN -a ELSE a
    BY DEF Signs
  <2> QED
    BY <1>2, <2>1, <2>2
<1> QED
  <2>1. P[n] \in NumberStates
    BY <1>1, <1>3
  <2> QED
    BY <1>3, <1>7, <1>8, <2>1 DEF n

DigitsOf(str) == IF str # <<>> /\ Head(str) \in {Text!Plus, Text!Dash} THEN Tail(str) ELSE str

Negative(str) == str # <<>> /\ Head(str) = Text!Dash

\* A text is read as a number exactly if it is one of the type's.
LEMMA ReadsText ==
  ASSUME NEW str \in Texts, NEW signed \in BOOLEAN,
         NEW least, least = Text!IntegerTypeMin(signed), NEW most, most = Text!IntegerTypeMax(signed),
         NEW number, number = Signs(Negative(str)) * Text!Decimal(DigitsOf(str)),
         NEW r, r = Text!str_to_int(str, signed)
  PROVE  /\ r \in NumberStates /\ DigitsOf(str) \in Texts /\ number \in Int
         /\ r.ok <=> /\ DigitsOf(str) # <<>> /\ AreDigits(DigitsOf(str), Len(DigitsOf(str)))
                     /\ Negative(str) => signed
                     /\ number >= least /\ number <= most
         /\ r.ok => r.value = number
<1>1. PICK digits : digits = DigitsOf(str)
  OBVIOUS
<1>2. PICK negative \in BOOLEAN : negative <=> Negative(str)
  BY DEF Negative
<1>3. digits \in Texts
  BY <1>1 DEF DigitsOf, Texts
<1>4. number = Signs(negative) * Text!Decimal(digits)
  BY <1>1, <1>2 DEF Signs
<1>5. r = IF digits = <<>> \/ (negative /\ ~signed) THEN [ok |-> FALSE, value |-> 0]
          ELSE Parsed(digits, negative, signed)
  <2>1. Text!str_to_int(str, signed) =
          IF DigitsOf(str) = <<>> \/ (Negative(str) /\ ~signed) THEN [ok |-> FALSE, value |-> 0]
          ELSE Parsed(DigitsOf(str), Negative(str), signed)
    BY DEF Text!str_to_int, DigitsOf, Negative, Parsed
  <2>2. Negative(str) = negative
    BY <1>2 DEF Negative
  <2> QED
    BY <1>1, <2>1, <2>2
<1>6. number \in Int
  <2>1. PICK S \in [0 .. Len(digits) -> Int] : Text!Decimal(digits) = S[Len(digits)]
    BY <1>3, DecimalIs
  <2>2. Len(digits) \in 0 .. Len(digits)
    BY <1>3 DEF Texts
  <2>3. PICK a \in Int : a = Text!Decimal(digits)
    BY <2>1, <2>2
  <2>4. Signs(negative) * a \in Int
    BY DEF Signs
  <2> QED
    BY <1>4, <2>3, <2>4
<1>7. CASE digits = <<>> \/ (negative /\ ~signed)
  <2>1. r = [ok |-> FALSE, value |-> 0]
    BY <1>5, <1>7
  <2>2. r \in NumberStates /\ r.ok = FALSE
    BY <2>1 DEF NumberStates
  <2>3. digits = <<>> \/ ~(negative => signed)
    BY <1>7
  <2> QED
    BY <1>1, <1>2, <1>3, <1>6, <2>2, <2>3
<1>8. CASE digits # <<>> /\ (negative => signed)
  <2>1. r = Parsed(digits, negative, signed)
    BY <1>5, <1>8
  <2>2. Parsed(digits, negative, signed) \in NumberStates
    BY <1>3, <1>4, <1>8, ReadsNumber
  <2>3. Parsed(digits, negative, signed).ok
              <=> AreDigits(digits, Len(digits)) /\ number >= least /\ number <= most
    BY <1>3, <1>4, <1>8, ReadsNumber
  <2>4. Parsed(digits, negative, signed).ok => Parsed(digits, negative, signed).value = number
    BY <1>3, <1>4, <1>8, ReadsNumber
  <2> QED
    BY <1>1, <1>2, <1>3, <1>6, <1>8, <2>1, <2>2, <2>3, <2>4
<1> QED
  BY <1>7, <1>8

\* A number is written with its digits.
LEMMA WritesNumber ==
  ASSUME NEW v \in 0 .. 255, NEW str, str = Text!IntToStrUnsigned(v)
  PROVE  /\ str \in CStrings /\ Len(str) \in 1 .. 3 /\ AreDigits(str, Len(str))
         /\ Text!Decimal(str) = v
<1> DEFINE P(k) == v < 10 ^ k /\ (k > 1 => v >= 10 ^ (k - 1))
<1> DEFINE size == CHOOSE k \in 1 .. 10 : P(k)
<1> DEFINE right == IF v < 10 THEN 1 ELSE IF v < 100 THEN 2 ELSE 3
<1>1. P(right)
  <2>1. v < 10 => P(1)
    BY PowersOfTen
  <2>2. v >= 10 /\ v < 100 => P(2)
    BY PowersOfTen
  <2>3. v >= 100 => P(3)
    BY PowersOfTen
  <2> HIDE DEF P
  <2> QED
    BY <2>1, <2>2, <2>3
<1>2. \A k \in 1 .. 10 : P(k) => k = right
  <2>1. ASSUME NEW k \in 1 .. 10, P(k) PROVE k = 1 \/ k = 2 \/ k = 3
    <3>1. k = 1 \/ k = 2 \/ k = 3 \/ k = 4 \/ k = 5 \/ k = 6 \/ k = 7 \/ k = 8 \/ k = 9 \/ k = 10
      OBVIOUS
    <3>2. ~P(4)
      BY ONLY PowersOfTen, v \in 0 .. 255
    <3>3. ~P(5)
      BY ONLY PowersOfTen, v \in 0 .. 255
    <3>4. ~P(6)
      BY ONLY PowersOfTen, v \in 0 .. 255
    <3>5. ~P(7)
      BY ONLY PowersOfTen, v \in 0 .. 255
    <3>6. ~P(8)
      BY ONLY PowersOfTen, v \in 0 .. 255
    <3>7. ~P(9)
      BY ONLY PowersOfTen, v \in 0 .. 255
    <3>8. ~P(10)
      BY ONLY PowersOfTen, v \in 0 .. 255
    <3> HIDE DEF P
    <3> QED
      <4>1. P(k)
        BY <2>1
      <4>2. k # 4 /\ k # 5 /\ k # 6 /\ k # 7 /\ k # 8 /\ k # 9 /\ k # 10
        BY <3>2, <3>3, <3>4, <3>5, <3>6, <3>7, <3>8, <4>1
      <4> QED
        BY <3>1, <4>2
  <2>2. P(1) => v < 10
    BY PowersOfTen
  <2>3. P(2) => v >= 10 /\ v < 100
    BY PowersOfTen
  <2>4. P(3) => v >= 100
    BY PowersOfTen
  <2> HIDE DEF P
  <2> QED
    BY <2>1, <2>2, <2>3, <2>4
<1>3. size = right /\ size \in 1 .. 3
  <2> HIDE DEF P
  <2>1. right \in 1 .. 10 /\ right \in 1 .. 3
    OBVIOUS
  <2> QED
    BY <1>1, <1>2, <2>1
<1>4. str = [i \in 1 .. size |-> Text!Zero + ((v \div 10 ^ (size - i)) % 10)]
  BY DEF Text!IntToStrUnsigned
<1> HIDE DEF size
<1>5. ASSUME NEW i \in 1 .. size
      PROVE  str[i] \in 48 .. 57
  <2>1. PICK e \in {0, 1, 2} : e = size - i
    BY <1>3
  <2>2. \A p \in {1, 10, 100} : 48 + ((v \div p) % 10) \in 48 .. 57
    OBVIOUS
  <2>3. e = 0 \/ e = 1 \/ e = 2
    OBVIOUS
  <2>4. 10 ^ e \in {1, 10, 100}
    <3>1. e = 0 => 10 ^ e = 1
      BY PowersOfTen
    <3>2. e = 1 => 10 ^ e = 10
      BY PowersOfTen
    <3>3. e = 2 => 10 ^ e = 100
      BY PowersOfTen
    <3> QED
      BY <2>3, <3>1, <3>2, <3>3
  <2>5. str[i] = 48 + ((v \div 10 ^ e) % 10)
    BY <1>4, <2>1 DEF Text!Zero
  <2> QED
    BY <2>2, <2>4, <2>5
<1>6. str \in CStrings /\ str \in Texts /\ Len(str) = size
  <2>1. \A i \in 1 .. size : str[i] \in NotNul
    <3>1. \A c \in 48 .. 57 : c \in NotNul
      BY DEF NotNul
    <3> QED
      BY <1>5, <3>1
  <2>2. str = [i \in 1 .. size |-> str[i]] /\ size \in Nat
    BY <1>3, <1>4
  <2>3. [i \in 1 .. size |-> str[i]] \in Seq(NotNul) /\ Len([i \in 1 .. size |-> str[i]]) = size
    BY <2>1, <2>2
  <2>4. str \in CStrings /\ Len(str) = size
    BY <2>2, <2>3 DEF CStrings
  <2> QED
    BY <2>4, CStringIsText
<1>7. PICK S \in [0 .. Len(str) -> Int] :
        /\ S[0] = 0
        /\ \A k \in 1 .. Len(str) : S[k] = S[k - 1] * 10 + str[k] - Text!Zero
        /\ Text!Decimal(str) = S[Len(str)]
  BY <1>6, DecimalIs
<1>8. S[0] = 0 /\ \A k \in 1 .. size : S[k] = S[k - 1] * 10 + str[k] - 48
  BY <1>6, <1>7 DEF Text!Zero
<1>9. S[size] = v
  <2>1. CASE size = 1
    <3>1. v < 10
      BY <1>3, <2>1
    <3>2. str[1] = 48 + ((v \div 1) % 10)
      BY <1>4, <2>1, PowersOfTen DEF Text!Zero
    <3>3. S[1] = 0 * 10 + str[1] - 48
      BY <1>8, <2>1
    <3> QED
      BY <2>1, <3>1, <3>2, <3>3
  <2>2. CASE size = 2
    <3>1. v < 100
      BY <1>3, <2>2
    <3>2. str[1] = 48 + ((v \div 10) % 10)
      BY <1>4, <2>2, PowersOfTen DEF Text!Zero
    <3>3. str[2] = 48 + ((v \div 1) % 10)
      BY <1>4, <2>2, PowersOfTen DEF Text!Zero
    <3>4. S[1] = 0 * 10 + str[1] - 48
      BY <1>8, <2>2
    <3>5. S[2] = S[1] * 10 + str[2] - 48
      BY <1>8, <2>2
    <3> QED
      BY <2>2, <3>1, <3>2, <3>3, <3>4, <3>5
  <2>3. CASE size = 3
    <3>1. v < 1000
      OBVIOUS
    <3>2. str[1] = 48 + ((v \div 100) % 10)
      BY <1>4, <2>3, PowersOfTen DEF Text!Zero
    <3>3. str[2] = 48 + ((v \div 10) % 10)
      BY <1>4, <2>3, PowersOfTen DEF Text!Zero
    <3>4. str[3] = 48 + ((v \div 1) % 10)
      BY <1>4, <2>3, PowersOfTen DEF Text!Zero
    <3>5. S[1] = 0 * 10 + str[1] - 48
      BY <1>8, <2>3
    <3>6. S[2] = S[1] * 10 + str[2] - 48
      BY <1>8, <2>3
    <3>7. S[3] = S[2] * 10 + str[3] - 48
      BY <1>8, <2>3
    <3>8. /\ v \div 1 = v /\ (v \div 100) % 10 = v \div 100
          /\ v \div 10 = 10 * (v \div 100) + ((v \div 10) % 10)
          /\ v = 10 * (v \div 10) + (v % 10)
      BY <3>1
    <3>9. PICK x \in Int, y \in Int, z \in Int, q \in Int :
            x = v \div 100 /\ y = (v \div 10) % 10 /\ z = v % 10 /\ q = v \div 10
      OBVIOUS
    <3>10. str[1] = 48 + x /\ str[2] = 48 + y /\ str[3] = 48 + z
      BY <3>2, <3>3, <3>4, <3>8, <3>9
    <3>11. S[1] = x /\ q = 10 * x + y /\ v = 10 * q + z
      BY <3>5, <3>8, <3>9, <3>10
    <3>12. S[2] = q
      BY <3>6, <3>10, <3>11
    <3>13. S[3] = v
      BY <3>7, <3>10, <3>11, <3>12
    <3> QED
      BY <2>3, <3>13
  <2> QED
    BY <1>3, <2>1, <2>2, <2>3
<1> QED
  BY <1>3, <1>5, <1>6, <1>7, <1>9 DEF AreDigits

LEMMA DigitsOfType ==
  ASSUME NEW signed \in BOOLEAN
  PROVE  Text!digits10(signed) \in 2 .. 10
<1>1. PICK most \in {127, 255} : most = Text!IntegerTypeMax(signed)
  BY DEF Text!IntegerTypeMax
<1> DEFINE P(n) == 10 ^ n - 1 <= most /\ 10 ^ (n + 1) - 1 > most
<1> DEFINE digits == CHOOSE n \in 0 .. 10 : P(n)
<1>2. Text!digits10(signed) = digits
  BY <1>1 DEF Text!digits10
<1>3. digits \in 2 .. 10
  <2>1. P(2) /\ ~P(0) /\ ~P(1) /\ 2 \in 0 .. 10
    BY PowersOfTen
  <2> HIDE DEF P
  <2>2. digits \in 0 .. 10 /\ P(digits)
    BY <2>1
  <2>3. \A n \in 0 .. 10 : n = 0 \/ n = 1 \/ n \in 2 .. 10
    OBVIOUS
  <2> HIDE DEF digits
  <2> QED
    BY <2>1, <2>2, <2>3
<1> QED
  BY <1>2, <1>3

\* What the text of a number is: nothing for the least of the type, else one that
\* has the digits and the sign of the number.
Wrote(signed, v, str) ==
  \/ str = <<>> /\ signed /\ v = Text!IntegerTypeMin(signed)
  \/ /\ str \in CStrings /\ Len(str) \in 1 .. 4
     /\ DigitsOf(str) # <<>> /\ AreDigits(DigitsOf(str), Len(DigitsOf(str)))
     /\ Negative(str) => signed
     /\ Signs(Negative(str)) * Text!Decimal(DigitsOf(str)) = v

\* A number of the type is written so.
LEMMA WritesSigned ==
  ASSUME NEW signed \in BOOLEAN, NEW v \in -128 .. 255,
         v >= Text!IntegerTypeMin(signed), v <= Text!IntegerTypeMax(signed)
  PROVE  Wrote(signed, v, Text!int_to_str(v, Text!digits10(signed) + 3, signed))
<1> DEFINE written == Text!int_to_str(v, Text!digits10(signed) + 3, signed)
<1>1. written = Text!IntToStrSign(v, signed)
  <2>1. PICK d \in 2 .. 10 : d = Text!digits10(signed)
    BY DigitsOfType
  <2>2. ~(d + 3 < d + 3)
    BY <2>1
  <2> QED
    BY <2>1, <2>2 DEF Text!int_to_str
<1> SUFFICES Wrote(signed, v, written)
  OBVIOUS
<1> HIDE DEF written
<1>2. /\ signed => Text!IntegerTypeMax(signed) = 127 /\ Text!IntegerTypeMin(signed) = -128
      /\ ~signed => Text!IntegerTypeMax(signed) = 255 /\ Text!IntegerTypeMin(signed) = 0
  BY DEF Text!IntegerTypeMax, Text!IntegerTypeMin
<1>3. PICK most \in {127, 255} :
        /\ most = Text!IntegerTypeMax(signed) /\ v <= most /\ signed => v >= -128
        /\ signed => most = 127
        /\ ~signed => v >= 0
  BY <1>2
<1>8. PICK few : few = -Text!IntegerTypeMax(signed)
  OBVIOUS
<1>9. (signed => few = -127) /\ (~signed => few = -255)
  BY <1>2, <1>8
<1>7. written = IF v < few THEN <<>>
                ELSE IF v < 0 THEN <<45>> \o Text!IntToStrUnsigned(-v) ELSE Text!IntToStrUnsigned(v)
  <2>1. Text!IntToStrSign(v, signed) =
          IF v < -Text!IntegerTypeMax(signed) THEN <<>>
          ELSE IF v < 0 THEN <<Text!Dash>> \o Text!IntToStrUnsigned(-v)
               ELSE Text!IntToStrUnsigned(v)
    BY DEF Text!IntToStrSign
  <2>2. Text!IntToStrSign(v, signed) =
          IF v < few THEN <<>>
          ELSE IF v < 0 THEN <<Text!Dash>> \o Text!IntToStrUnsigned(-v)
               ELSE Text!IntToStrUnsigned(v)
    BY <1>8, <2>1, Zenon
  <2> QED
    BY <1>1, <2>2, Zenon DEF Text!Dash
<1>4. CASE v < few
  <2>1. written = <<>>
    BY <1>4, <1>7
  <2>2. signed /\ v = -128
    BY <1>3, <1>4, <1>9
  <2> QED
    BY <1>2, <2>1, <2>2 DEF Wrote
<1>5. CASE ~(v < few) /\ v < 0
  <2>1. PICK u \in 1 .. 127 : u = -v
    BY <1>3, <1>5, <1>9
  <2>2. PICK str : str = Text!IntToStrUnsigned(u)
    OBVIOUS
  <2>3. written = <<45>> \o str
    BY <1>5, <1>7, <2>1, <2>2
  <2>4. /\ str \in CStrings /\ str \in Texts /\ Len(str) \in 1 .. 3 /\ AreDigits(str, Len(str))
        /\ Text!Decimal(str) = u
    <3>1. u \in 0 .. 255
      BY <2>1
    <3> QED
      <4>1. /\ str \in CStrings /\ Len(str) \in 1 .. 3 /\ AreDigits(str, Len(str))
            /\ Text!Decimal(str) = u
        BY <2>2, <3>1, WritesNumber
      <4> QED
        BY <4>1, CStringIsText
  <2>5. 45 \in NotNul
    BY DEF NotNul
  <2>6. /\ written \in CStrings /\ Len(written) \in 1 .. 4 /\ written # <<>>
        /\ Head(written) = 45 /\ Tail(written) = str
    <3>1. <<45>> \in Seq(NotNul) /\ Len(<<45>>) = 1 /\ <<45>>[1] = 45 /\ str \in Seq(NotNul)
      BY <2>4, <2>5 DEF CStrings
    <3>2. /\ written \in Seq(NotNul) /\ Len(written) = 1 + Len(str)
          /\ written[1] = 45 /\ \A i \in 1 .. Len(str) : written[1 + i] = str[i]
      BY <2>3, <3>1
    <3>3. written # <<>> /\ Len(written) \in 1 .. 4
      BY <2>4, <3>2
    <3>4. Head(written) = 45
      BY <3>2, <3>3
    <3>5. Tail(written) \in Seq(NotNul) /\ Len(Tail(written)) = Len(str)
      BY <3>2, <3>3
    <3>6. \A i \in 1 .. Len(str) : Tail(written)[i] = str[i]
      BY <3>2, <3>3
    <3>7. Tail(written) = str
      BY <2>4, <3>5, <3>6, SameCString DEF CStrings
    <3> QED
      BY <3>2, <3>3, <3>4, <3>7 DEF CStrings
  <2>7. DigitsOf(written) = str /\ Negative(written)
    BY <2>6 DEF DigitsOf, Negative, Text!Dash, Text!Plus
  <2>8. signed
    BY <1>3, <1>5
  <2>9. Signs(Negative(written)) * Text!Decimal(str) = v
    <3>1. Signs(Negative(written)) = -1
      BY <2>7 DEF Signs
    <3>2. -1 * u = v
      BY <1>3, <1>5, <2>1
    <3> QED
      BY <2>4, <3>1, <3>2
  <2>10. str # <<>>
    <3>1. \A n \in 1 .. 3 : n # 0
      OBVIOUS
    <3>2. Len(<<>>) = 0
      OBVIOUS
    <3> QED
      BY <2>4, <3>1, <3>2, Zenon
  <2> QED
    BY <2>4, <2>6, <2>7, <2>8, <2>9, <2>10 DEF Wrote
<1>6. CASE v >= 0
  <2>1. v \in 0 .. 255 /\ ~(v < few) /\ ~(v < 0)
    BY <1>3, <1>6, <1>9
  <2>2. written = Text!IntToStrUnsigned(v)
    BY <1>7, <2>1
  <2>3. /\ written \in CStrings /\ Len(written) \in 1 .. 3 /\ AreDigits(written, Len(written))
        /\ Text!Decimal(written) = v
    BY <2>1, <2>2, WritesNumber
  <2>4. Head(written) \in 48 .. 57 /\ written # <<>>
    <3>1. written[1] \in 48 .. 57
      BY <2>3 DEF AreDigits
    <3> QED
      BY <2>3, <3>1 DEF CStrings
  <2>5. DigitsOf(written) = written /\ ~Negative(written)
    BY <2>4 DEF DigitsOf, Negative, Text!Dash, Text!Plus
  <2>6. Signs(Negative(written)) * Text!Decimal(written) = v
    <3>1. Signs(Negative(written)) = 1
      BY <2>5 DEF Signs
    <3>2. 1 * v = v
      OBVIOUS
    <3> QED
      BY <2>3, <3>1, <3>2
  <2> QED
    BY <2>3, <2>4, <2>5, <2>6 DEF Wrote
<1> QED
  BY <1>3, <1>4, <1>5, <1>6

LEMMA NumbersAreReadBack == ASSUME TextInv PROVE Text!NumbersReadBack
<1>1. SUFFICES ASSUME use = "number", NEW signed \in BOOLEAN
      PROVE  LET sign == IF text # <<>> /\ Head(text) = Text!Dash THEN -1 ELSE 1
                 digits == IF text # <<>> /\ Head(text) \in {Text!Plus, Text!Dash}
                           THEN Tail(text) ELSE text
                 number == sign * Text!Decimal(digits)
                 r == Text!str_to_int(text, signed)
                 written == Text!int_to_str(r.value, Text!digits10(signed) + 3, signed)
             IN /\ r.ok = (/\ digits # <<>>
                           /\ \A i \in DOMAIN digits : digits[i] \in Text!Zero .. Text!Zero + 9
                           /\ sign = -1 => signed
                           /\ number \in Text!IntegerTypeMin(signed) .. Text!IntegerTypeMax(signed))
                /\ r.ok => r.value = number
                /\ r.ok => written = <<>> \/ /\ Text!str_to_int(written, signed) = r
                                             /\ Len(written) + 1 <= Text!digits10(signed) + 3
                /\ r.ok /\ written = <<>> => signed /\ r.value = Text!IntegerTypeMin(signed)
  BY DEF Text!NumbersReadBack
<1> DEFINE sign == IF text # <<>> /\ Head(text) = Text!Dash THEN -1 ELSE 1
<1> DEFINE digits == IF text # <<>> /\ Head(text) \in {Text!Plus, Text!Dash}
                     THEN Tail(text) ELSE text
<1> DEFINE number == sign * Text!Decimal(digits)
<1> DEFINE r == Text!str_to_int(text, signed)
<1> DEFINE written == Text!int_to_str(r.value, Text!digits10(signed) + 3, signed)
<1>2. text \in Texts
  BY DEF TextInv
<1>3. PICK least \in Int, most \in Int :
        /\ least = Text!IntegerTypeMin(signed) /\ most = Text!IntegerTypeMax(signed)
        /\ least >= -128 /\ most <= 255
  BY DEF Text!IntegerTypeMin, Text!IntegerTypeMax
<1>7. sign = Signs(Negative(text)) /\ digits = DigitsOf(text)
  BY DEF Signs, Negative, DigitsOf
<1>4. /\ r \in NumberStates /\ digits \in Texts /\ number \in Int
      /\ r.ok <=> /\ digits # <<>> /\ AreDigits(digits, Len(digits))
                  /\ Negative(text) => signed
                  /\ number >= least /\ number <= most
      /\ r.ok => r.value = number
  <2>1. number = Signs(Negative(text)) * Text!Decimal(DigitsOf(text))
    <3> HIDE DEF sign, digits
    <3> QED
      BY <1>7
  <2>2. /\ r \in NumberStates /\ DigitsOf(text) \in Texts /\ number \in Int
        /\ r.ok <=> /\ DigitsOf(text) # <<>> /\ AreDigits(DigitsOf(text), Len(DigitsOf(text)))
                    /\ Negative(text) => signed
                    /\ number >= least /\ number <= most
        /\ r.ok => r.value = number
    <3> HIDE DEF number
    <3> QED
      BY <1>2, <1>3, <2>1, ReadsText
  <2> HIDE DEF number, digits, r
  <2> QED
    BY <1>7, <2>2
<1>5. r.ok = (/\ digits # <<>>
              /\ \A i \in DOMAIN digits : digits[i] \in Text!Zero .. Text!Zero + 9
              /\ sign = -1 => signed
              /\ number \in Text!IntegerTypeMin(signed) .. Text!IntegerTypeMax(signed))
  <2>1. DOMAIN digits = 1 .. Len(digits)
    BY <1>4 DEF Texts
  <2>2. AreDigits(digits, Len(digits))
          <=> \A i \in DOMAIN digits : digits[i] \in Text!Zero .. Text!Zero + 9
    <3>1. Text!Zero .. Text!Zero + 9 = 48 .. 57
      BY DEF Text!Zero
    <3> HIDE DEF digits
    <3> QED
      BY <2>1, <3>1 DEF AreDigits
  <2>3. sign = -1 <=> Negative(text)
    BY DEF Negative
  <2>4. number \in least .. most <=> number >= least /\ number <= most
    <3> HIDE DEF number
    <3> QED
      BY <1>3, <1>4
  <2>5. r.ok \in BOOLEAN
    BY <1>4 DEF NumberStates
  <2> HIDE DEF r, number, digits, sign
  <2> QED
    BY <1>3, <1>4, <2>2, <2>3, <2>4, <2>5
<1>6. ASSUME r.ok
      PROVE  /\ written = <<>> \/ /\ Text!str_to_int(written, signed) = r
                                  /\ Len(written) + 1 <= Text!digits10(signed) + 3
             /\ written = <<>> => signed /\ r.value = Text!IntegerTypeMin(signed)
  <2>1. PICK v \in -128 .. 255 : v = r.value /\ v >= least /\ v <= most
    <3>1. r.ok => number >= least /\ number <= most
      BY <1>4
    <3> HIDE DEF r, number
    <3>2. number >= least /\ number <= most /\ r.value = number /\ number \in Int
      BY <1>4, <1>6, <3>1
    <3>3. number \in -128 .. 255
      BY <1>3, <3>2
    <3> QED
      BY <3>2, <3>3
  <2>2. \/ written = <<>> /\ signed /\ v = least
        \/ /\ written \in CStrings /\ Len(written) \in 1 .. 4
           /\ DigitsOf(written) # <<>> /\ AreDigits(DigitsOf(written), Len(DigitsOf(written)))
           /\ Negative(written) => signed
           /\ Signs(Negative(written)) * Text!Decimal(DigitsOf(written)) = v
    <3>1. written = Text!int_to_str(v, Text!digits10(signed) + 3, signed)
      BY <2>1
    <3>2. v >= Text!IntegerTypeMin(signed) /\ v <= Text!IntegerTypeMax(signed)
      BY <1>3, <2>1
    <3> HIDE DEF written, number, digits, sign, r
    <3>3. Wrote(signed, v, Text!int_to_str(v, Text!digits10(signed) + 3, signed))
      BY <3>2, WritesSigned
    <3>4. Wrote(signed, v, written)
      BY <3>1, <3>3
    <3> QED
      BY <1>3, <3>4 DEF Wrote
  <2>3. PICK w : w = written
    OBVIOUS
  <2> HIDE DEF written
  <2>4. CASE w = <<>> /\ signed /\ v = least
    BY <1>3, <2>1, <2>3, <2>4
  <2>5. CASE /\ w \in CStrings /\ Len(w) \in 1 .. 4
             /\ DigitsOf(w) # <<>> /\ AreDigits(DigitsOf(w), Len(DigitsOf(w)))
             /\ Negative(w) => signed
             /\ Signs(Negative(w)) * Text!Decimal(DigitsOf(w)) = v
    <3>1. PICK q : q = Text!str_to_int(w, signed)
      OBVIOUS
    <3>2. /\ q \in NumberStates
          /\ q.ok <=> /\ DigitsOf(w) # <<>> /\ AreDigits(DigitsOf(w), Len(DigitsOf(w)))
                      /\ Negative(w) => signed
                      /\ v >= least /\ v <= most
          /\ q.ok => q.value = v
      BY <1>3, <2>5, <3>1, CStringIsText, ReadsText
    <3>3. q.ok /\ q.value = v
      BY <2>1, <2>5, <3>2
    <3>4. q = r
      <4>1. q.ok = TRUE /\ r.ok = TRUE /\ q.value = r.value
        BY <1>4, <1>6, <2>1, <3>2, <3>3 DEF NumberStates
      <4>2. \A a \in NumberStates : a = [ok |-> a.ok, value |-> a.value]
        BY DEF NumberStates
      <4> HIDE DEF r
      <4> QED
        BY <1>4, <3>2, <4>1, <4>2
    <3>5. Len(w) + 1 <= Text!digits10(signed) + 3
      <4>1. Len(w) \in 1 .. 4 /\ Text!digits10(signed) \in 2 .. 10
        BY <2>5, DigitsOfType
      <4>2. \A a \in 1 .. 4, b \in 2 .. 10 : a + 1 <= b + 3
        OBVIOUS
      <4> QED
        BY <4>1, <4>2, Zenon
    <3>6. w # <<>>
      <4>1. Len(<<>>) = 0 /\ \A n \in 1 .. 4 : n # 0
        OBVIOUS
      <4> QED
        BY <2>5, <4>1, Zenon
    <3> HIDE DEF r
    <3> QED
      BY <2>3, <3>1, <3>4, <3>5, <3>6
  <2> QED
    BY <2>2, <2>3, <2>4, <2>5
<1>8. r.ok => r.value = number
  BY <1>4
<1>9. r.ok => written = <<>> \/ /\ Text!str_to_int(written, signed) = r
                                /\ Len(written) + 1 <= Text!digits10(signed) + 3
  BY <1>6
<1>10. r.ok /\ written = <<>> => signed /\ r.value = Text!IntegerTypeMin(signed)
  BY <1>6
<1> QED
  BY <1>5, <1>8, <1>9, <1>10, Zenon

\* The numbers that are tried.
Tried == {-128, 7, 127}

LEMMA NumberIs ==
  ASSUME NEW number \in Tried, NEW size \in Nat, NEW res,
         res = Text!int_to_str(number, size, TRUE)
  PROVE  res = <<>> \/ (res \in CStrings /\ Len(res) \in 1 .. size - 1)
<1>1. PICK digits \in 2 .. 10 : digits = Text!digits10(TRUE)
  BY DigitsOfType
<1> DEFINE written == Text!int_to_str(number, Text!digits10(TRUE) + 3, TRUE)
<1>3. written = <<>> \/ (written \in CStrings /\ Len(written) \in 1 .. 4)
  <2>1. /\ number \in -128 .. 255 /\ TRUE \in BOOLEAN
        /\ number >= Text!IntegerTypeMin(TRUE) /\ number <= Text!IntegerTypeMax(TRUE)
    BY DEF Tried, Text!IntegerTypeMin, Text!IntegerTypeMax
  <2>2. Wrote(TRUE, number, written)
    BY <2>1, WritesSigned, Zenon
  <2> QED
    BY <2>2 DEF Wrote
<1>4. CASE size < digits + 3
  BY <1>1, <1>4 DEF Text!int_to_str
<1>5. CASE ~(size < digits + 3)
  <2>1. res = Text!IntToStrSign(number, TRUE)
    BY <1>1, <1>5 DEF Text!int_to_str
  <2>2. written = Text!IntToStrSign(number, TRUE)
    <3>1. \A d \in 2 .. 10 : ~(d + 3 < d + 3)
      OBVIOUS
    <3> QED
      BY <1>1, <3>1 DEF Text!int_to_str
  <2>3. \A k \in 1 .. 4 : k \in 1 .. size - 1
    <3>1. \A d \in 2 .. 10 : ~(size < d + 3) => size >= 5
      OBVIOUS
    <3>2. size >= 5
      BY <1>1, <1>5, <3>1
    <3> QED
      BY <3>2
  <2> QED
    BY <1>3, <2>1, <2>2, <2>3
<1> QED
  BY <1>4, <1>5

\* A text appended: all of it, or what fits of it with a NUL.
LEMMA AppendIs ==
  ASSUME NEW size \in Nat, NEW buffer, NEW t, HoldsFirst(buffer, size, t), NEW str \in CStrings,
         NEW type \in {"c_string", "sub_string"}, NEW r,
         r = Text!append(buffer, Len(t), Text!Arg(type, str), size - Len(t))
  PROVE  IF Len(str) >= size - Len(t)
         THEN /\ FilledWith(r.buffer, size, t \o Cut(str, size - Len(t) - 1))
              /\ r.length = size - Len(t)
         ELSE HoldsFirst(r.buffer, size, t \o str) /\ r.length = Len(str)
<1>1. t \in CStrings /\ Len(t) \in Nat /\ Len(t) <= size - 1 /\ Len(str) \in Nat
  BY DEF HoldsFirst, CStrings
<1>2. PICK room \in Nat : room = size - Len(t) /\ room >= 1 /\ room - 1 \in Nat
  BY <1>1
<1>3. /\ FilledWith(Text!strlcpy(buffer, Len(t), str, room).buffer, size, t \o Cut(str, room - 1))
  BY <1>2, StrlcpyIs
<1>4. CASE type = "c_string"
  <2>1. r = Text!AppendCString(buffer, Len(t), str, room)
    <3>1. Text!Arg(type, str).type = "c_string" /\ Text!Arg(type, str).value = str
      BY <1>4 DEF Text!Arg
    <3> QED
      BY <1>2, <3>1 DEF Text!append
  <2>2. r = [buffer |-> Text!strlcpy(buffer, Len(t), str, room).buffer,
             length |-> IF Len(str) <= room THEN Len(str) ELSE room]
    <3>1. Text!Min({Len(str), room}) = IF Len(str) <= room THEN Len(str) ELSE room
      BY <1>1, TextMinOfTwo
    <3> QED
      BY <2>1, <3>1 DEF Text!AppendCString
  <2>3. FilledWith(r.buffer, size, t \o Cut(str, room - 1))
    BY <1>3, <2>2
  <2>4. CASE Len(str) >= room
    <3>1. r.length = room
      BY <1>1, <2>2, <2>4
    <3> QED
      BY <1>2, <2>3, <2>4, <3>1
  <2>5. CASE ~(Len(str) >= room)
    <3>1. r.length = Len(str)
      BY <1>1, <2>2, <2>5
    <3>2. Len(str) <= room - 1
      BY <1>1, <2>5
    <3>3. Cut(str, room - 1) = str
      BY <1>2, <3>2, CutIs
    <3> QED
      BY <1>2, <2>3, <2>5, <3>1, <3>3 DEF FilledWith
  <2> QED
    BY <2>4, <2>5
<1>5. CASE type = "sub_string"
  <2>1. r = Text!AppendSubString(buffer, Len(t), str, room)
    <3>1. Text!Arg(type, str).type = "sub_string" /\ Text!Arg(type, str).value = str
      BY <1>5 DEF Text!Arg
    <3> QED
      BY <1>2, <3>1 DEF Text!append
  <2>2. CASE Len(str) >= room
    <3>1. r = [buffer |-> Text!Copy(buffer, Len(t), SubSeq(str, 1, room - 1) \o <<Text!NUL>>),
               length |-> room]
      BY <2>1, <2>2 DEF Text!AppendSubString
    <3>2. SubSeq(str, 1, room - 1) = Cut(str, room - 1)
      <4>1. CASE Len(str) <= room - 1
        BY <1>1, <2>2, <4>1
      <4>2. CASE ~(Len(str) <= room - 1)
        BY <4>2 DEF Cut
      <4> QED
        BY <4>1, <4>2
    <3>3. Text!strlcpy(buffer, Len(t), str, room).buffer
            = Text!Copy(buffer, Len(t), Cut(str, room - 1) \o <<Text!NUL>>)
      <4>1. room # 0 /\ Text!Truncated(str, room - 1) = Cut(str, room - 1)
        BY <1>2, CutIs
      <4> QED
        BY <4>1 DEF Text!strlcpy, Text!Truncated
    <3>4. r.length = room /\ r.buffer = Text!strlcpy(buffer, Len(t), str, room).buffer
      <4>1. \A a, b : [buffer |-> a, length |-> b].buffer = a /\ [buffer |-> a, length |-> b].length = b
        OBVIOUS
      <4>2. r.length = room /\ r.buffer = Text!Copy(buffer, Len(t), SubSeq(str, 1, room - 1) \o <<Text!NUL>>)
        BY <3>1, <4>1, Zenon
      <4> QED
        BY <3>2, <3>3, <4>2, Zenon
    <3> QED
      BY <1>2, <1>3, <2>2, <3>4
  <2>3. CASE ~(Len(str) >= room)
    <3>1. r = [buffer |-> Text!Copy(buffer, Len(t), str), length |-> Len(str)]
      BY <2>1, <2>3 DEF Text!AppendSubString
    <3>2. Len(t) + Len(str) <= size - 1
      BY <1>1, <1>2, <2>3
    <3>3. HoldsFirst(Text!Copy(buffer, Len(t), str), size, t \o str)
      BY <3>2, CopyBehind
    <3> QED
      BY <1>2, <2>3, <3>1, <3>3
  <2> QED
    BY <2>2, <2>3
<1> QED
  BY <1>4, <1>5

\* What a buffer holds of a text, and what it holds of some text.
Holds(s, size, t) ==
  IF s.full THEN t \in CStrings /\ Len(t) >= size /\ FilledWith(s.buffer, size, Cut(t, size - 1))
  ELSE HoldsFirst(s.buffer, size, t) /\ s.dst = Len(t)

HoldsSome(s, size) ==
  \E t \in CStrings : IF s.full THEN FilledWith(s.buffer, size, t)
                      ELSE HoldsFirst(s.buffer, size, t) /\ s.dst = Len(t)

\* What is done with the text behind the last.
LEMMA StepHolds ==
  ASSUME NEW size \in Nat, size >= 1, NEW s, NEW t, Holds(s, size, t), NEW str \in CStrings,
         NEW type \in {"c_string", "sub_string"}
  PROVE  Holds(ConcatStep(s, Text!Arg(type, str), size), size, t \o str)
<1>1. PICK n \in Nat : n = size - 1
  OBVIOUS
<1>2. t \in CStrings /\ Len(t) \in Nat /\ Len(str) \in Nat
  BY DEF Holds, HoldsFirst, CStrings
<1>3. PICK all \in CStrings : all = t \o str
  BY <1>2, ConcatCStrings
<1>4. Len(all) = Len(t) + Len(str)
  BY <1>2, <1>3, ConcatCStrings
<1>5. Cut(t, n) \o Cut(str, n - Len(Cut(t, n))) = Cut(all, n)
  BY <1>2, <1>3, CutOfConcat
<1>6. CASE s.full
  <2>1. ConcatStep(s, Text!Arg(type, str), size) = s
    BY <1>6 DEF ConcatStep
  <2>2. Len(t) >= size
    BY <1>6 DEF Holds
  <2>3. Len(Cut(t, n)) = n
    BY <1>1, <1>2, <2>2, CutIs
  <2>4. Cut(all, n) = Cut(t, n)
    <3>1. PICK a \in CStrings : a = Cut(all, n)
      BY CutIs
    <3>2. PICK b \in CStrings : b = Cut(t, n)
      BY <1>2, CutIs
    <3>3. Len(a) = n /\ \A i \in 1 .. n : a[i] = all[i]
      BY <1>1, <1>2, <1>4, <2>2, <3>1, CutIs
    <3>4. Len(b) = n /\ \A i \in 1 .. n : b[i] = t[i]
      BY <1>2, <2>3, <3>2, CutIs
    <3>5. \A i \in 1 .. n : i \in 1 .. Len(t)
      BY <1>1, <1>2, <2>2
    <3>6. \A i \in 1 .. n : all[i] = t[i]
      BY <1>2, <1>3, <3>5, ConcatCStrings
    <3>7. a = b
      BY <3>3, <3>4, <3>6, SameCString
    <3> QED
      BY <3>1, <3>2, <3>7
  <2>5. FilledWith(s.buffer, size, Cut(all, size - 1)) /\ Len(all) >= size
    BY <1>1, <1>2, <1>4, <1>6, <2>2, <2>4 DEF Holds
  <2> QED
    BY <1>3, <1>6, <2>1, <2>5 DEF Holds
<1>7. CASE ~s.full
  <2>1. HoldsFirst(s.buffer, size, t) /\ s.dst = Len(t) /\ Len(t) <= size - 1
    BY <1>7 DEF Holds, HoldsFirst
  <2>2. PICK r : r = Text!append(s.buffer, Len(t), Text!Arg(type, str), size - Len(t))
    OBVIOUS
  <2>3. PICK u : u = ConcatStep(s, Text!Arg(type, str), size)
    OBVIOUS
  <2>4. u = [buffer |-> r.buffer, dst |-> Len(t) + r.length, full |-> r.length = size - Len(t)]
    BY <1>7, <2>1, <2>2, <2>3 DEF ConcatStep
  <2>5. u.buffer = r.buffer /\ u.dst = Len(t) + r.length /\ u.full = (r.length = size - Len(t))
    BY <2>4
  <2>6. IF Len(str) >= size - Len(t)
        THEN /\ FilledWith(r.buffer, size, t \o Cut(str, size - Len(t) - 1))
             /\ r.length = size - Len(t)
        ELSE HoldsFirst(r.buffer, size, t \o str) /\ r.length = Len(str)
    BY <2>1, <2>2, AppendIs
  <2>7. CASE Len(str) >= size - Len(t)
    <3>1. u.full /\ FilledWith(u.buffer, size, t \o Cut(str, size - Len(t) - 1))
      BY <2>5, <2>6, <2>7
    <3>2. Len(all) >= size
      BY <1>2, <1>4, <2>7
    <3>3. Cut(t, n) = t /\ n - Len(t) = size - Len(t) - 1
      BY <1>1, <1>2, <2>1, CutIs
    <3>4. t \o Cut(str, size - Len(t) - 1) = Cut(all, size - 1)
      BY <1>1, <1>5, <3>3
    <3> QED
      BY <1>3, <2>3, <3>1, <3>2, <3>4 DEF Holds
  <2>8. CASE ~(Len(str) >= size - Len(t))
    <3>1. r.length # size - Len(t)
      BY <1>2, <2>6, <2>8
    <3>2. ~u.full /\ HoldsFirst(u.buffer, size, t \o str) /\ u.dst = Len(t) + Len(str)
      BY <2>5, <2>6, <2>8, <3>1
    <3> QED
      BY <1>3, <1>4, <2>3, <3>2 DEF Holds
  <2> QED
    BY <2>7, <2>8
<1> QED
  BY <1>6, <1>7

LEMMA HeldIsSome ==
  ASSUME NEW size \in Nat, size >= 1, NEW s, NEW t, Holds(s, size, t)
  PROVE  HoldsSome(s, size)
<1>1. CASE s.full
  <2>1. Cut(t, size - 1) \in CStrings
    BY <1>1, CutIs DEF Holds
  <2> QED
    BY <1>1, <2>1 DEF Holds, HoldsSome
<1>2. CASE ~s.full
  BY <1>2 DEF Holds, HoldsSome, HoldsFirst
<1> QED
  BY <1>1, <1>2

LEMMA StepHoldsSome ==
  ASSUME NEW size \in Nat, size >= 1, NEW s, HoldsSome(s, size), NEW str \in CStrings,
         NEW type \in {"c_string", "sub_string"}
  PROVE  HoldsSome(ConcatStep(s, Text!Arg(type, str), size), size)
<1>1. PICK t \in CStrings : IF s.full THEN FilledWith(s.buffer, size, t)
                            ELSE HoldsFirst(s.buffer, size, t) /\ s.dst = Len(t)
  BY DEF HoldsSome
<1>2. CASE s.full
  <2>1. ConcatStep(s, Text!Arg(type, str), size) = s
    BY <1>2 DEF ConcatStep
  <2> QED
    BY <2>1
<1>3. CASE ~s.full
  <2>1. Holds(s, size, t)
    BY <1>1, <1>3 DEF Holds
  <2>2. Holds(ConcatStep(s, Text!Arg(type, str), size), size, t \o str)
    BY <2>1, StepHolds
  <2> QED
    BY <2>2, HeldIsSome
<1> QED
  BY <1>2, <1>3

\* A number is appended but for its last digit, or nothing is and the buffer is full.
LEMMA NumberHolds ==
  ASSUME NEW size \in Nat, size >= 1, NEW s, HoldsSome(s, size), NEW number \in Tried
  PROVE  HoldsSome(ConcatStep(s, Text!Arg("integer", number), size), size)
<1>1. PICK t \in CStrings : IF s.full THEN FilledWith(s.buffer, size, t)
                            ELSE HoldsFirst(s.buffer, size, t) /\ s.dst = Len(t)
  BY DEF HoldsSome
<1>2. CASE s.full
  <2>1. ConcatStep(s, Text!Arg("integer", number), size) = s
    BY <1>2 DEF ConcatStep
  <2> QED
    BY <2>1
<1>3. CASE ~s.full
  <2>1. HoldsFirst(s.buffer, size, t) /\ s.dst = Len(t) /\ Len(t) <= size - 1 /\ Len(t) \in Nat
    BY <1>1, <1>3 DEF HoldsFirst, CStrings
  <2>2. PICK room \in Nat : room = size - Len(t)
    BY <2>1
  <2>3. PICK res : res = Text!int_to_str(number, room, TRUE)
    OBVIOUS
  <2>4. PICK r : r = Text!append(s.buffer, Len(t), Text!Arg("integer", number), room)
    OBVIOUS
  <2>5. r = IF res = <<>>
            THEN [buffer |-> Text!Copy(s.buffer, Len(t), <<Text!NUL>>), length |-> room]
            ELSE [buffer |-> Text!Copy(s.buffer, Len(t), res \o <<Text!NUL>>), length |-> Len(res) - 1]
    <3>1. /\ Text!Arg("integer", number).type = "integer"
          /\ Text!Arg("integer", number).value = number
      BY DEF Text!Arg
    <3>2. r = Text!AppendInteger(s.buffer, Len(t), number, room)
      BY <2>4, <3>1 DEF Text!append
    <3> QED
      BY <2>3, <3>2 DEF Text!AppendInteger
  <2>6. PICK u : u = ConcatStep(s, Text!Arg("integer", number), size)
    OBVIOUS
  <2>7. u = [buffer |-> r.buffer, dst |-> Len(t) + r.length, full |-> r.length = room]
    BY <1>3, <2>1, <2>2, <2>4, <2>6 DEF ConcatStep
  <2>8. u.buffer = r.buffer /\ u.dst = Len(t) + r.length /\ u.full = (r.length = room)
    BY <2>7
  <2>9. res = <<>> \/ (res \in CStrings /\ Len(res) \in 1 .. room - 1)
    BY <2>3, NumberIs
  <2>10. CASE res = <<>>
    <3>1. <<>> \in CStrings /\ Len(<<>>) = 0 /\ t \o <<>> = t
      BY DEF CStrings
    <3>2. <<>> \o <<Text!NUL>> = <<Text!NUL>>
      BY DEF Text!NUL
    <3>3. Len(t) + Len(<<>>) <= size - 1
      BY <2>1, <3>1
    <3>4. FilledWith(Text!Copy(s.buffer, Len(t), <<>> \o <<Text!NUL>>), size, t \o <<>>)
      <4>1. PICK none \in CStrings : none = <<>>
        BY <3>1
      <4>2. Len(t) + Len(none) <= size - 1
        BY <3>3, <4>1
      <4>3. FilledWith(Text!Copy(s.buffer, Len(t), none \o <<Text!NUL>>), size, t \o none)
        BY <2>1, <4>2, CopyBehind
      <4> QED
        BY <4>1, <4>3
    <3>5. u.full /\ FilledWith(u.buffer, size, t)
      BY <2>5, <2>8, <2>10, <3>1, <3>2, <3>4
    <3> QED
      BY <2>6, <3>5 DEF HoldsSome
  <2>11. CASE res \in CStrings /\ Len(res) \in 1 .. room - 1 /\ res # <<>>
    <3>1. Len(res) - 1 # room /\ Len(t) + Len(res) <= size - 1 /\ Len(res) \in Nat
          /\ Len(res) - 1 \in Nat
      BY <2>1, <2>2, <2>11
    <3>2. HoldsFirst(Text!Copy(s.buffer, Len(t), res \o <<Text!NUL>>), size, t \o res)
      BY <2>1, <2>11, <3>1, CopyBehind DEF FilledWith
    <3>3. ~u.full /\ HoldsFirst(u.buffer, size, t \o res) /\ u.dst = Len(t) + (Len(res) - 1)
      BY <2>5, <2>8, <2>11, <3>1, <3>2
    <3>4. PICK all \in CStrings : all = t \o res /\ Len(all) = Len(t) + Len(res)
      BY <2>11, ConcatCStrings
    <3>5. PICK b \in CStrings : b = SubSeq(all, 1, Len(t) + (Len(res) - 1))
            /\ Len(b) = Len(t) + (Len(res) - 1) /\ \A i \in 1 .. Len(b) : b[i] = all[i]
      <4>1. PICK m : m = Len(t) + (Len(res) - 1)
        OBVIOUS
      <4>2. /\ 1 \in 1 .. Len(all) + 1 /\ m \in 0 .. Len(all) /\ 1 <= m + 1 /\ m - 1 + 1 = m
            /\ \A i \in 1 .. m : 1 + i - 1 = i
        BY <2>1, <3>1, <3>4, <4>1
      <4>3. /\ SubSeq(all, 1, m) \in CStrings /\ Len(SubSeq(all, 1, m)) = m - 1 + 1
            /\ \A i \in 1 .. m - 1 + 1 : SubSeq(all, 1, m)[i] = all[1 + i - 1]
        BY <4>2, PieceOfCString
      <4>4. PICK b \in CStrings : b = SubSeq(all, 1, m)
        BY <4>3
      <4>5. Len(b) = m /\ \A i \in 1 .. m : b[i] = all[i]
        BY <4>2, <4>3, <4>4
      <4>6. b = SubSeq(all, 1, Len(t) + (Len(res) - 1))
        BY <4>1, <4>4
      <4>7. Len(b) = Len(t) + (Len(res) - 1) /\ \A i \in 1 .. Len(b) : b[i] = all[i]
        BY <4>1, <4>5
      <4> QED
        BY <4>6, <4>7
    <3>6. Len(b) <= size - 1 /\ \A i \in 1 .. Len(b) : i \in 1 .. Len(all)
      BY <2>1, <3>1, <3>4, <3>5
    <3>7. HoldsFirst(u.buffer, size, b)
      <4>1. /\ u.buffer \in [1 .. size + 2 -> Int]
            /\ u.buffer[size + 1] = 255 /\ u.buffer[size + 2] = 255
            /\ \A i \in 1 .. Len(all) : u.buffer[i] = all[i]
        BY <3>3, <3>4 DEF HoldsFirst
      <4>2. ASSUME NEW i \in 1 .. Len(b) PROVE u.buffer[i] = b[i]
        BY <3>5, <3>6, <4>1
      <4> QED
        BY <3>5, <3>6, <4>1, <4>2 DEF HoldsFirst
    <3> QED
      BY <2>6, <3>3, <3>5, <3>7 DEF HoldsSome
  <2> QED
    BY <2>9, <2>10, <2>11
<1> QED
  BY <1>2, <1>3

LEMMA NoText ==
  ASSUME NEW none, none = <<>>
  PROVE  /\ none \in CStrings /\ Len(none) = 0
         /\ \A u \in CStrings : none \o u = u /\ u \o none = u
BY DEF CStrings

\* At the end there is room for a NUL, or there is one.
LEMMA EndHolds ==
  ASSUME NEW size \in Nat, size >= 1, NEW s, NEW buffer,
         buffer = IF s.full THEN s.buffer ELSE Text!Copy(s.buffer, s.dst, <<Text!NUL>>)
  PROVE  /\ \A t : Holds(s, size, t) => FilledWith(buffer, size, Cut(t, size - 1))
         /\ HoldsSome(s, size) => \E t : FilledWith(buffer, size, t)
<1>1. ASSUME NEW t, HoldsFirst(s.buffer, size, t), s.dst = Len(t), ~s.full
      PROVE  FilledWith(buffer, size, t) /\ Cut(t, size - 1) = t
  <2>1. t \in CStrings /\ Len(t) \in Nat /\ Len(t) <= size - 1 /\ t \o <<>> = t
    BY <1>1 DEF HoldsFirst, CStrings
  <2>7. PICK none : none = <<>>
    OBVIOUS
  <2>2. none \in CStrings /\ none = <<>> /\ Len(none) = 0
    BY <2>7, NoText
  <2>3. Len(t) + Len(none) <= size - 1
    BY <2>1, <2>2
  <2>4. FilledWith(Text!Copy(s.buffer, Len(t), none \o <<Text!NUL>>), size, t \o none)
    BY <1>1, <2>2, <2>3, CopyBehind
  <2>5. none \o <<Text!NUL>> = <<Text!NUL>>
    BY <2>2 DEF Text!NUL
  <2>6. Cut(t, size - 1) = t
    BY <2>1, CutIs
  <2> QED
    BY <1>1, <2>1, <2>2, <2>4, <2>5, <2>6
<1>2. ASSUME NEW t, Holds(s, size, t) PROVE FilledWith(buffer, size, Cut(t, size - 1))
  <2>1. CASE s.full
    BY <1>2, <2>1 DEF Holds
  <2>2. CASE ~s.full
    BY <1>1, <1>2, <2>2 DEF Holds
  <2> QED
    BY <2>1, <2>2
<1>3. ASSUME HoldsSome(s, size) PROVE \E t : FilledWith(buffer, size, t)
  <2>1. PICK t \in CStrings : IF s.full THEN FilledWith(s.buffer, size, t)
                              ELSE HoldsFirst(s.buffer, size, t) /\ s.dst = Len(t)
    BY <1>3 DEF HoldsSome
  <2>2. CASE s.full
    BY <2>1, <2>2
  <2>3. CASE ~s.full
    BY <1>1, <2>1, <2>3
  <2> QED
    BY <2>2, <2>3
<1> QED
  BY <1>2, <1>3

LEMMA StartHolds ==
  ASSUME NEW size \in Nat, size >= 1
  PROVE  Holds(ConcatStart(Text!Cells(size)), size, <<>>)
<1>1. HoldsFirst(Text!Cells(size), size, <<>>) /\ Len(<<>>) = 0
  BY EmptyCells
<1>2. PICK s : s = ConcatStart(Text!Cells(size))
  OBVIOUS
<1>3. s.buffer = Text!Cells(size) /\ s.dst = 0 /\ s.full = FALSE
  BY <1>2 DEF ConcatStart
<1> QED
  BY <1>1, <1>2, <1>3 DEF Holds

\* Bounded copies of two texts, and either way to concatenate them.
LEMMA CopiesFit ==
  ASSUME NEW size \in Nat, size >= 1, NEW u \in CStrings, NEW v \in CStrings
  PROVE  LET first == Text!strlcpy(Text!Cells(size), 0, u, size)
             both == Text!strlcat(first.buffer, v, size)
         IN /\ FilledWith(both.buffer, size, Cut(u \o v, size - 1))
            /\ first.result = Len(u)
            /\ both.result = Text!Min({Len(u), size - 1}) + Len(v)
<1> DEFINE first == Text!strlcpy(Text!Cells(size), 0, u, size)
<1> DEFINE both == Text!strlcat(first.buffer, v, size)
<1>1. PICK n \in Nat : n = size - 1
  OBVIOUS
<1>2. Len(u) \in Nat /\ Len(v) \in Nat
  BY DEF CStrings
<1>13. PICK none : none = <<>>
  OBVIOUS
<1>3. none \in CStrings /\ none = <<>> /\ Len(none) = 0
  BY <1>13, NoText
<1>4. HoldsFirst(Text!Cells(size), size, none)
  BY <1>3, EmptyCells
<1>5. PICK a \in CStrings : a = Cut(u, n)
  BY CutIs
<1>6. /\ FilledWith(Text!strlcpy(Text!Cells(size), Len(none), u, size - Len(none)).buffer, size,
                  none \o Cut(u, size - Len(none) - 1))
      /\ Text!strlcpy(Text!Cells(size), Len(none), u, size - Len(none)).result = Len(u)
  BY <1>4, StrlcpyIs
<1>7. size - Len(none) = size /\ size - Len(none) - 1 = n /\ none \o a = a
  BY <1>1, <1>3 DEF CStrings
<1>8. FilledWith(first.buffer, size, a) /\ first.result = Len(u)
  BY <1>3, <1>5, <1>6, <1>7
<1> HIDE DEF first
<1>9. /\ FilledWith(both.buffer, size, a \o Cut(v, size - Len(a) - 1))
      /\ both.result = Len(a) + Len(v)
  <2>1. PICK b : b = first.buffer
    OBVIOUS
  <2>2. FilledWith(b, size, a)
    BY <1>8, <2>1
  <2>3. FilledWith(Text!strlcat(b, v, size).buffer, size, a \o Cut(v, size - Len(a) - 1))
    BY <2>2, StrlcatIs
  <2>4. Text!strlcat(b, v, size).result = Len(a) + Len(v)
    BY <2>2, StrlcatIs
  <2> QED
    BY <2>1, <2>3, <2>4
<1> HIDE DEF both
<1>10. Len(a) \in Nat /\ size - Len(a) - 1 = n - Len(a)
  BY <1>1 DEF CStrings
<1>11. a \o Cut(v, n - Len(a)) = Cut(u \o v, n)
  BY <1>5, CutOfConcat
<1>12. Len(a) = Text!Min({Len(u), n})
  BY <1>2, <1>5, CutIs, TextMinOfTwo
<1>14. /\ FilledWith(both.buffer, size, Cut(u \o v, size - 1))
       /\ first.result = Len(u)
       /\ both.result = Text!Min({Len(u), size - 1}) + Len(v)
  BY <1>1, <1>8, <1>9, <1>10, <1>11, <1>12
<1> QED
  BY <1>14 DEF first, both

LEMMA ConcatFits ==
  ASSUME NEW size \in Nat, size >= 1, NEW u \in CStrings, NEW v \in CStrings,
         NEW c \in {"c_string", "sub_string"}, NEW d \in {"c_string", "sub_string"}
  PROVE  FilledWith(Text!concat(Text!Cells(size), size, <<Text!Arg(c, u), Text!Arg(d, v)>>), size,
                  Cut(u \o v, size - 1))
<1>1. PICK s0 : s0 = ConcatStart(Text!Cells(size))
  OBVIOUS
<1>2. PICK s1 : s1 = ConcatStep(s0, Text!Arg(c, u), size)
  OBVIOUS
<1>3. PICK s2 : s2 = ConcatStep(s1, Text!Arg(d, v), size)
  OBVIOUS
<1>9. PICK none : none = <<>>
  OBVIOUS
<1>4. none \in CStrings /\ none = <<>> /\ none \o u = u
  BY <1>9, NoText
<1>5. Holds(s0, size, none)
  BY <1>1, <1>4, StartHolds
<1>6. Holds(s1, size, u)
  BY <1>2, <1>4, <1>5, StepHolds
<1>7. Holds(s2, size, u \o v)
  BY <1>3, <1>6, StepHolds
<1>8. Text!concat(Text!Cells(size), size, <<Text!Arg(c, u), Text!Arg(d, v)>>)
        = IF s2.full THEN s2.buffer ELSE Text!Copy(s2.buffer, s2.dst, <<Text!NUL>>)
  BY <1>1, <1>2, <1>3, ConcatOfTwo
<1> QED
  BY <1>7, <1>8, EndHolds

LEMMA NumbersFit ==
  ASSUME NEW size \in Nat, size >= 1, NEW u \in CStrings, NEW v \in CStrings, NEW number \in Tried
  PROVE  \E t : FilledWith(Text!concat(Text!Cells(size), size,
                           <<Text!Arg("c_string", u), Text!Arg("integer", number),
                             Text!Arg("sub_string", v)>>), size, t)
<1>1. PICK s0 : s0 = ConcatStart(Text!Cells(size))
  OBVIOUS
<1>2. PICK s1 : s1 = ConcatStep(s0, Text!Arg("c_string", u), size)
  OBVIOUS
<1>3. PICK s2 : s2 = ConcatStep(s1, Text!Arg("integer", number), size)
  OBVIOUS
<1>4. PICK s3 : s3 = ConcatStep(s2, Text!Arg("sub_string", v), size)
  OBVIOUS
<1>5. Holds(s0, size, <<>>)
  BY <1>1, StartHolds
<1>6. HoldsSome(s1, size)
  BY <1>2, <1>5, HeldIsSome, StepHoldsSome
<1>7. HoldsSome(s2, size)
  BY <1>3, <1>6, NumberHolds
<1>8. HoldsSome(s3, size)
  BY <1>4, <1>7, StepHoldsSome
<1>9. Text!concat(Text!Cells(size), size, <<Text!Arg("c_string", u), Text!Arg("integer", number),
                                            Text!Arg("sub_string", v)>>)
        = IF s3.full THEN s3.buffer ELSE Text!Copy(s3.buffer, s3.dst, <<Text!NUL>>)
  BY <1>1, <1>2, <1>3, <1>4, ConcatOfThree
<1> QED
  BY <1>8, <1>9, EndHolds

LEMMA BuffersAreHeld ==
  ASSUME use = "copied" => text \in CStrings
  PROVE  Text!BuffersHold
<1> DEFINE P(k, size) ==
      LET u == SubSeq(text, 1, k)
          v == SubSeq(text, k + 1, Len(text))
          Safe(buffer) == buffer[size + 1] = 255 /\ buffer[size + 2] = 255
          first == Text!strlcpy(Text!Cells(size), 0, u, size)
          both == Text!strlcat(first.buffer, v, size)
      IN /\ Safe(both.buffer) /\ Text!CString(both.buffer) = Text!Truncated(text, size - 1)
         /\ first.result = Len(u)
         /\ both.result = Text!Min({Len(u), size - 1}) + Len(v)
         /\ \A s, t \in {"c_string", "sub_string"} :
              LET buffer == Text!concat(Text!Cells(size), size, <<Text!Arg(s, u), Text!Arg(t, v)>>)
              IN Safe(buffer) /\ Text!CString(buffer) = Text!Truncated(text, size - 1)
         /\ \A n \in {-127 - 1, 7, 127} :
              LET buffer == Text!concat(Text!Cells(size), size,
                              <<Text!Arg("c_string", u), Text!Arg("integer", n),
                                Text!Arg("sub_string", v)>>)
              IN Safe(buffer) /\ Len(Text!CString(buffer)) < size
<1> SUFFICES ASSUME text \in CStrings, NEW k \in 0 .. Len(text), NEW size \in 1 .. 9
             PROVE  P(k, size)
  BY DEF Text!BuffersHold
<1> DEFINE u == SubSeq(text, 1, k)
<1> DEFINE v == SubSeq(text, k + 1, Len(text))
<1> DEFINE first == Text!strlcpy(Text!Cells(size), 0, u, size)
<1> DEFINE both == Text!strlcat(first.buffer, v, size)
<1>1. size \in Nat /\ size >= 1 /\ size - 1 \in Nat /\ Len(text) \in Nat
  BY DEF CStrings
<1>2. /\ u \in CStrings /\ v \in CStrings /\ u \o v = text
  <2>1. /\ 1 \in 1 .. Len(text) + 1 /\ k \in 0 .. Len(text) /\ 1 <= k + 1 /\ k - 1 + 1 = k
        /\ \A i \in 1 .. k : 1 + i - 1 = i
    BY <1>1
  <2>2. u \in CStrings /\ Len(u) = k /\ \A i \in 1 .. k : u[i] = text[i]
    BY <2>1, PieceOfCString
  <2>3. /\ k + 1 \in 1 .. Len(text) + 1 /\ Len(text) \in 0 .. Len(text) /\ k + 1 <= Len(text) + 1
        /\ Len(text) - (k + 1) + 1 = Len(text) - k
        /\ \A i \in 1 .. Len(text) - k : k + 1 + i - 1 = k + i
    BY <1>1
  <2>4. v \in CStrings /\ Len(v) = Len(text) - k /\ \A i \in 1 .. Len(text) - k : v[i] = text[k + i]
    <3>1. PICK m \in 1 .. Len(text) + 1, n \in 0 .. Len(text) : m = k + 1 /\ n = Len(text)
      BY <2>3
    <3>2. m <= n + 1 /\ n - m + 1 = Len(text) - k /\ \A i \in 1 .. n - m + 1 : m + i - 1 = k + i
      BY <2>3, <3>1
    <3>3. /\ SubSeq(text, m, n) \in CStrings /\ Len(SubSeq(text, m, n)) = n - m + 1
          /\ \A i \in 1 .. n - m + 1 : SubSeq(text, m, n)[i] = text[m + i - 1]
      BY <3>2, PieceOfCString
    <3> QED
      BY <3>1, <3>2, <3>3
  <2> HIDE DEF u, v
  <2>5. PICK w \in CStrings : w = u \o v
    BY <2>2, <2>4, ConcatCStrings
  <2>6. /\ Len(w) = Len(u) + Len(v)
        /\ \A i \in 1 .. Len(u) : w[i] = u[i]
        /\ \A i \in 1 .. Len(v) : w[Len(u) + i] = v[i]
    BY <2>2, <2>4, <2>5, ConcatCStrings
  <2>7. Len(w) = Len(text)
    BY <1>1, <2>2, <2>4, <2>6
  <2>8. ASSUME NEW i \in 1 .. Len(w) PROVE w[i] = text[i]
    <3>1. CASE i <= k
      <4>1. i \in 1 .. k
        BY <1>1, <3>1
      <4> QED
        BY <2>2, <2>6, <4>1
    <3>2. CASE ~(i <= k)
      <4>1. PICK j \in 1 .. Len(text) - k : i = k + j
        <5>1. i - k \in 1 .. Len(text) - k /\ i = k + (i - k)
          BY <1>1, <2>7, <3>2
        <5> QED
          BY <5>1
      <4> QED
        BY <2>2, <2>4, <2>6, <4>1
    <3> QED
      BY <3>1, <3>2
  <2>9. w = text
    BY <2>7, <2>8, SameCString
  <2> QED
    BY <2>2, <2>4, <2>5, <2>9
<1>3. Text!Truncated(text, size - 1) = Cut(text, size - 1)
  BY <1>1, CutIs
<1> HIDE DEF u, v, first, both
<1>4. ASSUME NEW buffer, NEW t, FilledWith(buffer, size, t)
      PROVE  /\ buffer[size + 1] = 255 /\ buffer[size + 2] = 255
             /\ Text!CString(buffer) = t /\ Len(t) < size
  <2>1. buffer[size + 1] = 255 /\ buffer[size + 2] = 255 /\ t \in CStrings /\ Len(t) <= size - 1
    BY <1>4 DEF FilledWith, HoldsFirst
  <2>2. Len(t) < size
    BY <1>1, <2>1 DEF CStrings
  <2>3. Text!CString(buffer) = t
    BY <1>1, <1>4, CStringOf
  <2> QED
    BY <2>1, <2>2, <2>3
<1>5. /\ FilledWith(both.buffer, size, Cut(text, size - 1))
      /\ first.result = Len(u)
      /\ both.result = Text!Min({Len(u), size - 1}) + Len(v)
  <2>1. /\ FilledWith(both.buffer, size, Cut(u \o v, size - 1))
        /\ first.result = Len(u)
        /\ both.result = Text!Min({Len(u), size - 1}) + Len(v)
    BY <1>1, <1>2, CopiesFit, Zenon DEF first, both
  <2> QED
    BY <1>2, <2>1
<1>6. ASSUME NEW s \in {"c_string", "sub_string"}, NEW t \in {"c_string", "sub_string"}
      PROVE  FilledWith(Text!concat(Text!Cells(size), size, <<Text!Arg(s, u), Text!Arg(t, v)>>), size,
                      Cut(text, size - 1))
  BY <1>1, <1>2, ConcatFits
<1>7. ASSUME NEW n \in {-127 - 1, 7, 127}
      PROVE  \E t : FilledWith(Text!concat(Text!Cells(size), size,
                               <<Text!Arg("c_string", u), Text!Arg("integer", n),
                                 Text!Arg("sub_string", v)>>), size, t)
  <2>1. n \in Tried
    BY DEF Tried
  <2> QED
    BY <1>1, <1>2, <2>1, NumbersFit
<1>8. /\ both.buffer[size + 1] = 255 /\ both.buffer[size + 2] = 255
      /\ Text!CString(both.buffer) = Text!Truncated(text, size - 1)
  BY <1>3, <1>4, <1>5
<1>9. ASSUME NEW s \in {"c_string", "sub_string"}, NEW t \in {"c_string", "sub_string"}, NEW buffer,
             buffer = Text!concat(Text!Cells(size), size, <<Text!Arg(s, u), Text!Arg(t, v)>>)
      PROVE  /\ buffer[size + 1] = 255 /\ buffer[size + 2] = 255
             /\ Text!CString(buffer) = Text!Truncated(text, size - 1)
  BY <1>3, <1>4, <1>6, <1>9
<1>10. ASSUME NEW n \in {-127 - 1, 7, 127}, NEW buffer,
              buffer = Text!concat(Text!Cells(size), size,
                         <<Text!Arg("c_string", u), Text!Arg("integer", n), Text!Arg("sub_string", v)>>)
       PROVE  /\ buffer[size + 1] = 255 /\ buffer[size + 2] = 255
              /\ Len(Text!CString(buffer)) < size
  <2>1. PICK t : FilledWith(buffer, size, t)
    BY <1>7, <1>10
  <2> QED
    BY <1>4, <2>1
<1> QED
  BY <1>5, <1>8, <1>9, <1>10, Zenon DEF u, v, first, both

-----------------------------------------------------------------------------
(* The texts that are written.                                             *)

\* Sets of characters and what is copied are C strings: no character is NUL.
WrittenInv == TextInv /\ (use \in {"set", "copied"} => text \in CStrings)

LEMMA AlphabetsAre ==
  /\ \A u \in DOMAIN Alphabets : Alphabets[u] \subseteq Codes
  /\ \A u \in {"set", "copied"} : Alphabets[u] \subseteq NotNul
<1>1. \A u \in DOMAIN Alphabets : Alphabets[u] \subseteq Codes
  BY TextAssumption DEF Codes
<1>2. \A u \in {"set", "copied"} : u \in DOMAIN Alphabets /\ 0 \notin Alphabets[u]
  BY TextAssumption
<1>3. \A u \in {"set", "copied"} : Alphabets[u] \subseteq NotNul
  BY <1>1, <1>2 DEF Codes, NotNul
<1> QED
  BY <1>1, <1>3

LEMMA WrittenInvStep == ASSUME WrittenInv, Text!Write PROVE WrittenInv'
<1>1. PICK ch \in Alphabets[use] : text' = Append(text, ch) /\ use' = use
  BY DEF Text!Write
<1>2. use \in DOMAIN Alphabets /\ text \in Seq(Codes)
  BY DEF WrittenInv, TextInv, Texts
<1>3. ch \in Codes
  BY <1>1, <1>2, AlphabetsAre
<1>4. text' \in Texts
  BY <1>1, <1>2, <1>3 DEF Texts
<1>5. ASSUME use \in {"set", "copied"} PROVE text' \in CStrings
  <2>1. ch \in NotNul
    BY <1>1, <1>5, AlphabetsAre
  <2>2. text \in Seq(NotNul)
    BY <1>5 DEF WrittenInv, CStrings
  <2> QED
    BY <1>1, <2>1, <2>2 DEF CStrings
<1> QED
  BY <1>1, <1>2, <1>4, <1>5 DEF WrittenInv, TextInv

\* For any alphabets of bytes and any bound of the texts, with types of 8 bits and
\* buffers of 1 to 9 characters: the set of a text is the characters and the ranges that
\* are written in it (AsciiStringManip.hpp:187); comparison without case is an order, on
\* bytes beyond ASCII as well; a text is a number exactly if it is one of the type's, and
\* every number but the least one is written so that it is read back
\* (StringManip.hpp:178); bytes written in hexadecimal are decoded to themselves; and
\* what is copied or appended stays within its buffer, with the NUL that ends it
\* (StringManip.hpp:88).
THEOREM TextsAreRight == PartsSpec => []TextRight
<1>1. PartsInit => WrittenInv
  <2>1. <<>> \in Texts /\ <<>> \in CStrings
    BY DEF Texts, CStrings
  <2> QED
    BY <2>1 DEF PartsInit, Text!TextInit, WrittenInv, TextInv
<1>2. WrittenInv /\ [PartsNext]_<<part, aloneVars, sharedVars, pollerVars>> => WrittenInv'
  <2>1. [PartsNext]_<<part, aloneVars, sharedVars, pollerVars>> =>
          Text!Write \/ UNCHANGED <<use, text>>
    BY DEF PartsNext, AloneNext, aloneVars
  <2>2. WrittenInv /\ UNCHANGED <<use, text>> => WrittenInv'
    BY DEF WrittenInv, TextInv
  <2> QED
    BY <2>1, <2>2, WrittenInvStep
<1>3. ASSUME WrittenInv PROVE TextRight
  <2>1. TextInv /\ (use = "set" => text \in CStrings) /\ (use = "copied" => text \in CStrings)
    BY <1>3 DEF WrittenInv
  <2>2. Text!TableAsWritten
    BY <2>1, TablesAreAsWritten
  <2>3. Text!CaselessIsOrder
    BY <2>1, CaselessOrders
  <2>4. Text!NumbersReadBack
    BY <2>1, NumbersAreReadBack
  <2>5. Text!HexReadsBack
    BY <2>1, HexesAreReadBack
  <2>6. Text!BuffersHold
    BY <2>1, BuffersAreHeld
  <2> QED
    BY <2>2, <2>3, <2>4, <2>5, <2>6 DEF TextRight
<1> QED
  BY <1>1, <1>2, <1>3, PTL DEF PartsSpec
=============================================================================
