------------------------------ MODULE TimeProofs ------------------------------
(***************************************************************************)
(* For any USEC_MAX: the operators of Gears::Time give normal times, and   *)
(* are the arithmetic of integers on microseconds.                         *)
(* For any dates and times of the day: the conversions of the calendar     *)
(* agree with the Gregorian rule until 2100, are inverse to each other,    *)
(* and keep the order.  The argument is that every number of days is one   *)
(* day of a month of a year of a cycle of four years (Days, InMonth), and  *)
(* that the code computes these parts.                                     *)
(***************************************************************************)
EXTENDS MCParts, TLAPS

Times == [tv_sec : Int, tv_usec : 0 .. USEC_MAX - 1]

\* Quotient and remainder of natural numbers.
LEMMA DivMod ==
  ASSUME NEW a \in Nat, NEW b \in Nat \ {0}
  PROVE  /\ a \div b \in Nat
         /\ a % b \in 0 .. b - 1
         /\ a = (a \div b) * b + (a % b)
BY SMT

\* The quotient is the one number whose multiple leaves less than the divisor.
LEMMA DivUnique ==
  ASSUME NEW a \in Nat, NEW b \in Nat \ {0}, NEW q \in Int, NEW r \in 0 .. b - 1,
         a = q * b + r
  PROVE  q = a \div b
<1>1. /\ a \div b \in Nat
      /\ a % b \in 0 .. b - 1
      /\ a = (a \div b) * b + (a % b)
  BY DivMod
<1> DEFINE d == q - a \div b
<1>2. d \in Int /\ d * b = (a % b) - r
  BY <1>1, SMT
<1>3. (a % b) - r < b /\ r - (a % b) < b
  BY <1>1, SMT
<1>4. d = 0
  <2> HIDE DEF d
  <2>1. CASE d >= 1
    <3>1. d * b >= b
      BY <1>2, <2>1, SMT
    <3> QED BY <1>1, <1>2, <1>3, <3>1, SMT
  <2>2. CASE d <= -1
    <3>1. d * b <= -b
      BY <1>2, <2>2, SMT
    <3> QED BY <1>1, <1>2, <1>3, <3>1, SMT
  <2> QED BY <1>2, <2>1, <2>2, SMT
<1> QED BY <1>1, <1>4, SMT

\* Negation is normal and exact.
LEMMA NegateExact ==
  ASSUME NEW t \in Times
  PROVE  Negate(t) \in Times /\ microseconds(Negate(t)) = -microseconds(t)
<1>1. CASE t.tv_usec = 0
  BY <1>1, TimeAssumption, SMT DEF Times, Negate, Time, microseconds
<1>2. CASE t.tv_usec # 0
  <2>1. /\ Negate(t).tv_sec = -t.tv_sec - 1
        /\ Negate(t).tv_usec = USEC_MAX - t.tv_usec
        /\ Negate(t) \in Times
    BY <1>2, TimeAssumption, SMT DEF Times, Negate, Time
  <2>2. microseconds(Negate(t)) = (-t.tv_sec - 1) * USEC_MAX + (USEC_MAX - t.tv_usec)
    BY <2>1 DEF microseconds
  <2>3. t.tv_sec \in Int /\ t.tv_usec \in Int /\ USEC_MAX \in Int
    BY TimeAssumption, SMT DEF Times
  <2> QED BY <2>1, <2>2, <2>3, SMT DEF microseconds
<1> QED BY <1>1, <1>2

\* The sign of the seconds is the sign of the time.
LEMMA SignOfSeconds ==
  ASSUME NEW t \in Times
  PROVE  /\ t.tv_sec < 0 <=> microseconds(t) < 0
         /\ AbsTime(t) \in Times
         /\ AbsTime(t).tv_sec \in Nat
         /\ microseconds(AbsTime(t)) = AbsInt(microseconds(t))
<1> DEFINE s == t.tv_sec  u == t.tv_usec
<1>1. s \in Int /\ u \in 0 .. USEC_MAX - 1 /\ USEC_MAX \in Nat \ {0}
  BY TimeAssumption DEF Times
<1>2. microseconds(t) = s * USEC_MAX + u
  BY DEF microseconds
<1> HIDE DEF s, u
<1>3. s < 0 => s * USEC_MAX <= -USEC_MAX
  BY <1>1, SMT
<1>4. s >= 0 => s * USEC_MAX >= 0
  BY <1>1, SMT
<1>5. s < 0 <=> microseconds(t) < 0
  BY <1>1, <1>2, <1>3, <1>4, SMT
<1>6. microseconds(t) \in Int
  BY <1>1, <1>2, SMT
<1>7. Negate(t) \in Times /\ microseconds(Negate(t)) = -microseconds(t)
  BY NegateExact
<1>8. s < 0 => Negate(t).tv_sec \in Nat
  BY <1>1, SMT DEF Negate, Time, s
<1> QED
  BY <1>1, <1>5, <1>6, <1>7, <1>8, SMT DEF AbsTime, AbsInt, s

\* Sums and differences are normal and exact: carry and borrow.
LEMMA PlusExact ==
  ASSUME NEW t \in Times, NEW u \in Times
  PROVE  Plus(t, u) \in Times /\ microseconds(Plus(t, u)) = microseconds(t) + microseconds(u)
BY TimeAssumption, SMTT(30) DEF Times, Plus, Time, microseconds

LEMMA MinusExact ==
  ASSUME NEW t \in Times, NEW u \in Times
  PROVE  Minus(t, u) \in Times /\ microseconds(Minus(t, u)) = microseconds(t) - microseconds(u)
BY TimeAssumption, SMTT(30) DEF Times, Minus, Time, microseconds

LEMMA SecondsExact ==
  ASSUME NEW t \in Times, NEW s \in Int
  PROVE  /\ PlusSec(t, s) \in Times
         /\ microseconds(PlusSec(t, s)) = microseconds(t) + s * USEC_MAX
         /\ MinusSec(t, s) \in Times
         /\ microseconds(MinusSec(t, s)) = microseconds(t) - s * USEC_MAX
BY TimeAssumption, SMTT(30) DEF Times, PlusSec, MinusSec, Time, microseconds

\* Helper::mul carries the microseconds into the seconds.
LEMMA MulExact ==
  ASSUME NEW t \in Times, t.tv_sec \in Nat, NEW n \in Nat
  PROVE  Mul(t, n) \in Times /\ microseconds(Mul(t, n)) = microseconds(t) * n
<1> DEFINE s == t.tv_sec  u == t.tv_usec  x == u * n
           q == x \div USEC_MAX  r == x % USEC_MAX
<1>1. s \in Nat /\ u \in 0 .. USEC_MAX - 1 /\ USEC_MAX \in Nat \ {0} /\ n \in Nat
  BY TimeAssumption DEF Times
<1>2. x \in Nat
  BY <1>1, SMT
<1>3. q \in Nat /\ r \in 0 .. USEC_MAX - 1 /\ x = q * USEC_MAX + r
  <2> HIDE DEF x
  <2> QED BY <1>1, <1>2, DivMod
<1>4. Mul(t, n) = [tv_sec |-> s * n + q, tv_usec |-> r]
  BY DEF Mul, Time
<1>5. microseconds(Mul(t, n)) = (s * n + q) * USEC_MAX + r
  BY <1>4 DEF microseconds
<1>6. x = u * n
  OBVIOUS
<1>7. microseconds(t) * n = (s * USEC_MAX + u) * n
  BY DEF microseconds
<1> HIDE DEF s, u, x, q, r
<1>8. s * n \in Nat
  BY <1>1, SMT
<1>9. Mul(t, n) \in Times
  BY <1>1, <1>3, <1>4, <1>8, SMT DEF Times
<1>10. (s * n + q) * USEC_MAX + r = (s * USEC_MAX + u) * n
  BY <1>1, <1>3, <1>6, SMT
<1> QED BY <1>5, <1>7, <1>9, <1>10

\* Helper::div hands the remaining seconds down to the microseconds.
LEMMA DivExact ==
  ASSUME NEW t \in Times, t.tv_sec \in Nat, NEW n \in Nat \ {0}
  PROVE  /\ Div(t, n) \in Times
         /\ microseconds(Div(t, n)) = microseconds(t) \div n
<1> DEFINE s == t.tv_sec  u == t.tv_usec  q == s \div n  m == s - q * n
           y == m * USEC_MAX + u  z == y \div n  r == y % n
<1>1. s \in Nat /\ u \in 0 .. USEC_MAX - 1 /\ USEC_MAX \in Nat \ {0}
  BY TimeAssumption DEF Times
<1>2. Div(t, n) = [tv_sec |-> q, tv_usec |-> z] /\ microseconds(t) = s * USEC_MAX + u
  BY DEF Div, Time, microseconds
<1>3. microseconds(Div(t, n)) = q * USEC_MAX + z
  BY <1>2 DEF microseconds
<1>4. q \in Nat /\ m \in 0 .. n - 1 /\ s = q * n + m
  <2> HIDE DEF s
  <2>1. s \div n \in Nat /\ s % n \in 0 .. n - 1 /\ s = (s \div n) * n + (s % n)
    BY <1>1, DivMod
  <2> QED BY <1>1, <2>1, SMT
<1>5. y = m * USEC_MAX + u
  OBVIOUS
<1> HIDE DEF s, u, q, m
<1>6. y \in Nat
  BY <1>1, <1>4, SMT
<1>7. z \in Nat /\ r \in 0 .. n - 1 /\ y = z * n + r
  <2> HIDE DEF y
  <2> QED BY <1>6, DivMod
<1> HIDE DEF y, z, r
<1>8. y < n * USEC_MAX
  <2>1. (m + 1) * USEC_MAX <= n * USEC_MAX
    BY <1>1, <1>4, SMT
  <2>2. (m + 1) * USEC_MAX = m * USEC_MAX + USEC_MAX
    BY <1>1, <1>4, SMT
  <2>3. m * USEC_MAX \in Int /\ n * USEC_MAX \in Int /\ (m + 1) * USEC_MAX \in Int
    BY <1>1, <1>4, SMT
  <2> QED BY <1>1, <1>5, <2>1, <2>2, <2>3, SMT
<1>9. z < USEC_MAX
  <2>1. CASE z >= USEC_MAX
    <3>1. z * n >= USEC_MAX * n
      BY <1>1, <1>7, <2>1, SMT
    <3>2. USEC_MAX * n = n * USEC_MAX /\ n * USEC_MAX \in Int /\ z * n \in Int
      BY <1>1, <1>7, SMT
    <3> QED BY <1>6, <1>7, <1>8, <3>1, <3>2, SMT
  <2> QED BY <1>1, <1>7, <2>1, SMT
<1>10. Div(t, n) \in Times
  BY <1>1, <1>2, <1>4, <1>7, <1>9, SMT DEF Times
<1>11. s * USEC_MAX + u = (q * USEC_MAX + z) * n + r
  BY <1>1, <1>4, <1>5, <1>7, SMT
<1>12. s * USEC_MAX + u \in Nat /\ q * USEC_MAX + z \in Int
  BY <1>1, <1>4, <1>7, SMT
<1>13. q * USEC_MAX + z = (s * USEC_MAX + u) \div n
  BY <1>7, <1>11, <1>12, DivUnique
<1> QED BY <1>2, <1>3, <1>10, <1>13

\* Products of any signs.
LEMMA MultipliedExact ==
  ASSUME NEW t \in Times, NEW n \in Int
  PROVE  /\ Multiplied(t, n) \in Times
         /\ microseconds(Multiplied(t, n)) = microseconds(t) * n
<1> DEFINE e == microseconds(t)  a == AbsTime(t)  k == AbsInt(n)  p == Mul(a, k)
<1>1. e \in Int
  BY TimeAssumption, SMT DEF Times, microseconds
<1>2. (t.tv_sec < 0 <=> e < 0) /\ a \in Times /\ a.tv_sec \in Nat
      /\ microseconds(a) = AbsInt(e)
  BY SignOfSeconds
<1>3. k \in Nat
  BY SMT DEF AbsInt
<1> HIDE DEF e, a, k
<1>4. p \in Times /\ microseconds(p) = AbsInt(e) * k
  BY <1>2, <1>3, MulExact
<1>5. Negate(p) \in Times /\ microseconds(Negate(p)) = -(AbsInt(e) * k)
  BY <1>4, NegateExact
<1>6. AbsInt(e) * k = IF (e < 0) <=> (n < 0) THEN e * n ELSE -(e * n)
  BY <1>1, SMT DEF AbsInt, k
<1>7. Multiplied(t, n) = IF (e < 0) <=> (n < 0) THEN p ELSE Negate(p)
  BY <1>2 DEF Multiplied, a, k
<1>8. e * n \in Int
  BY <1>1, SMT
<1> HIDE DEF p
<1>9. CASE (e < 0) <=> (n < 0)
  BY <1>4, <1>6, <1>7, <1>9 DEF e
<1>10. CASE ~((e < 0) <=> (n < 0))
  <2>1. -(-(e * n)) = e * n
    BY <1>8, SMT
  <2> QED BY <1>5, <1>6, <1>7, <1>10, <2>1 DEF e
<1> QED BY <1>9, <1>10

\* Quotients of any signs.
LEMMA DividedExact ==
  ASSUME NEW t \in Times, NEW n \in Int \ {0}
  PROVE  /\ Divided(t, n) \in Times
         /\ microseconds(Divided(t, n)) = Quotient(microseconds(t), n)
<1> DEFINE e == microseconds(t)  a == AbsTime(t)  k == AbsInt(n)  p == Div(a, k)
<1>1. (t.tv_sec < 0 <=> e < 0) /\ a \in Times /\ a.tv_sec \in Nat
      /\ microseconds(a) = AbsInt(e)
  BY SignOfSeconds
<1>2. k \in Nat \ {0}
  BY SMT DEF AbsInt
<1> HIDE DEF e, a, k
<1>3. p \in Times /\ microseconds(p) = AbsInt(e) \div k
  BY <1>1, <1>2, DivExact
<1>4. Negate(p) \in Times /\ microseconds(Negate(p)) = -(AbsInt(e) \div k)
  BY <1>3, NegateExact
<1>5. Divided(t, n) = IF (e < 0) <=> (n < 0) THEN p ELSE Negate(p)
  BY <1>1 DEF Divided, a, k
<1> HIDE DEF p
<1> QED BY <1>3, <1>4, <1>5 DEF Quotient, e, k

-----------------------------------------------------------------------------
\* The invariant: the time is normal and exact.
TimeInv == Normal /\ Exact

LEMMA TimeInvInductive == TimeInv /\ [TimeNext]_timeVars => TimeInv'
<1> SUFFICES ASSUME TimeInv, [TimeNext]_timeVars PROVE TimeInv'
  OBVIOUS
<1>1. /\ time \in Times /\ exact \in Int /\ microseconds(time) = exact
      /\ USEC_MAX \in Nat \ {0} /\ Operands \subseteq Times /\ Numbers \subseteq Int
  BY TimeAssumption DEF TimeInv, Normal, Exact, Times
<1> SUFFICES /\ time' \in Times /\ exact' \in Int
             /\ microseconds(time') = exact'
  BY DEF TimeInv, Normal, Exact, Times, microseconds
<1>2. \A t \in Times : microseconds(t) \in Int
  BY <1>1, SMT DEF Times, microseconds
<1>3. CASE InvertSign
  BY <1>1, <1>2, <1>3, NegateExact, SMT DEF InvertSign
<1>4. CASE AddAssign
  BY <1>1, <1>2, <1>4, PlusExact, SMT DEF AddAssign
<1>5. CASE SubAssign
  BY <1>1, <1>2, <1>5, MinusExact, SMT DEF SubAssign
<1>6. CASE AddSecAssign
  BY <1>1, <1>2, <1>6, SecondsExact, SMT DEF AddSecAssign
<1>7. CASE SubSecAssign
  BY <1>1, <1>2, <1>7, SecondsExact, SMT DEF SubSecAssign
<1>8. CASE MulAssign
  <2>1. PICK n \in Numbers : time' = Multiplied(time, n) /\ exact' = exact * n
    BY <1>8 DEF MulAssign
  <2>2. n \in Int /\ exact * n \in Int
    BY <1>1, SMT
  <2> QED BY <1>1, <2>1, <2>2, MultipliedExact
<1>9. CASE DivAssign
  <2>1. PICK n \in Numbers \ {0} : time' = Divided(time, n) /\ exact' = Quotient(exact, n)
    BY <1>9 DEF DivAssign
  <2>2. n \in Int \ {0}
    BY <1>1
  <2>3. time' \in Times /\ microseconds(time') = exact'
    BY <1>1, <2>1, <2>2, DividedExact
  <2> QED BY <1>2, <2>3
<1>10. CASE UNCHANGED timeVars
  BY <1>1, <1>10 DEF timeVars
<1> QED BY <1>3, <1>4, <1>5, <1>6, <1>7, <1>8, <1>9, <1>10 DEF TimeNext

\* Every operator gives a normal time, and the time that arithmetic gives.
THEOREM TimeIsExact == TimeSpec => [](Normal /\ Exact)
<1>1. TimeInit => TimeInv
  BY TimeAssumption, SMT DEF TimeInit, TimeInv, Normal, Exact, Time, microseconds
<1>2. TimeInv => Normal /\ Exact
  BY DEF TimeInv
<1> QED BY <1>1, <1>2, TimeInvInductive, PTL DEF TimeSpec

\* The order of the fields is the order of the times.
LEMMA LessExact ==
  ASSUME NEW t \in Times, NEW u \in Times
  PROVE  /\ Less(t, u) <=> microseconds(t) < microseconds(u)
         /\ Equal(t, u) <=> microseconds(t) = microseconds(u)
<1> DEFINE a == t.tv_sec  b == t.tv_usec  c == u.tv_sec  d == u.tv_usec
<1>1. /\ a \in Int /\ c \in Int /\ b \in 0 .. USEC_MAX - 1 /\ d \in 0 .. USEC_MAX - 1
      /\ USEC_MAX \in Nat \ {0}
  BY TimeAssumption DEF Times
<1>2. /\ microseconds(t) = a * USEC_MAX + b /\ microseconds(u) = c * USEC_MAX + d
      /\ Less(t, u) <=> a < c \/ (a = c /\ b < d)
      /\ Equal(t, u) <=> a = c /\ b = d
  BY DEF microseconds, Less, Equal
<1> HIDE DEF a, b, c, d
<1>3. a * USEC_MAX \in Int /\ c * USEC_MAX \in Int
  BY <1>1, SMT
<1>4. CASE a < c
  <2>1. c * USEC_MAX >= a * USEC_MAX + USEC_MAX
    BY <1>1, <1>4, SMT
  <2> QED BY <1>1, <1>2, <1>3, <1>4, <2>1, SMT
<1>5. CASE a = c
  BY <1>1, <1>2, <1>3, <1>5, SMT
<1>6. CASE a > c
  <2>1. a * USEC_MAX >= c * USEC_MAX + USEC_MAX
    BY <1>1, <1>6, SMT
  <2> QED BY <1>1, <1>2, <1>3, <1>6, <2>1, SMT
<1> QED BY <1>1, <1>4, <1>5, <1>6, SMT

\* Comparisons agree with arithmetic.
THEOREM OrderIsExact == TimeSpec => []OrderExact
<1>1. TimeInit => TimeInv
  BY TimeAssumption, SMT DEF TimeInit, TimeInv, Normal, Exact, Time, microseconds
<1>2. TimeInv => OrderExact
  BY TimeAssumption, LessExact DEF TimeInv, Normal, Exact, OrderExact, Times
<1> QED BY <1>1, <1>2, TimeInvInductive, PTL DEF TimeSpec

LEMMA UsecMax == USEC_MAX \in Nat \ {0} /\ INT32 \in Nat \ {0} /\ USEC_MAX <= INT32
BY TimeAssumption

\* The sign and the two parts that are printed give the time.
LEMMA PrintedParts ==
  ASSUME NEW t \in Times
  PROVE  LET p == print(t)
             e == microseconds(t)
         IN  /\ p.integer_part \in Nat /\ p.fractional_part \in 0 .. USEC_MAX - 1
             /\ p.sign * (p.integer_part * USEC_MAX + p.fractional_part) = e
             /\ p.sign = (IF e > 0 THEN 1 ELSE IF e < 0 THEN -1 ELSE 0)
<1> DEFINE a == t.tv_sec
           b == t.tv_usec
           e == microseconds(t)
           x == a * USEC_MAX
           p == print(t)
<1>1. a \in Int /\ b \in 0 .. USEC_MAX - 1 /\ USEC_MAX \in Nat \ {0}
  BY UsecMax DEF Times
<1>2. e = x + b /\ x \in Int
  BY <1>1 DEF microseconds
<1>3. CASE a > 0
  <2>1. p = PrintOf(1, a, b)
    BY <1>3 DEF print
  <2>2. x > 0
    BY <1>1, <1>3
  <2>3. p.sign = 1 /\ p.integer_part = a /\ p.fractional_part = b
    BY <2>1 DEF PrintOf
  <2>4. p.integer_part * USEC_MAX = x
    BY <2>3
  <2> HIDE DEF a, b, e, x, p
  <2> QED
    BY <1>1, <1>2, <1>3, <2>2, <2>3, <2>4 DEF p, e
<1>4. CASE a < 0 /\ b # 0
  <2>1. p = PrintOf(-1, -a - 1, USEC_MAX - b)
    BY <1>1, <1>4 DEF print
  <2>2. x <= -USEC_MAX
    BY <1>1, <1>4
  <2>3. p.sign = -1 /\ p.integer_part = -a - 1 /\ p.fractional_part = USEC_MAX - b
    BY <2>1 DEF PrintOf
  <2>4. p.integer_part * USEC_MAX = -x - USEC_MAX
    <3>1. (-a - 1) * USEC_MAX = -x - USEC_MAX
      BY <1>1
    <3> QED
      BY <2>3, <3>1
  <2> HIDE DEF a, b, e, x, p
  <2> QED
    BY <1>1, <1>2, <1>4, <2>2, <2>3, <2>4 DEF p, e
<1>5. CASE a < 0 /\ b = 0
  <2>1. p = PrintOf(-1, -a, 0)
    BY <1>1, <1>5 DEF print
  <2>2. x <= -USEC_MAX
    BY <1>1, <1>5
  <2>3. p.sign = -1 /\ p.integer_part = -a /\ p.fractional_part = 0
    BY <2>1 DEF PrintOf
  <2>4. p.integer_part * USEC_MAX = -x
    <3>1. (-a) * USEC_MAX = -x
      BY <1>1
    <3> QED
      BY <2>3, <3>1
  <2> HIDE DEF a, b, e, x, p
  <2> QED
    BY <1>1, <1>2, <1>5, <2>2, <2>3, <2>4 DEF p, e
<1>6. CASE a = 0
  <2>1. p = PrintOf(IF b # 0 THEN 1 ELSE 0, 0, b)
    BY <1>6 DEF print
  <2>2. x = 0
    BY <1>1, <1>6
  <2>3. p.sign = (IF b # 0 THEN 1 ELSE 0) /\ p.integer_part = 0 /\ p.fractional_part = b
    BY <2>1 DEF PrintOf
  <2>4. p.integer_part * USEC_MAX = 0
    BY <1>1, <2>3
  <2> HIDE DEF a, b, e, x, p
  <2> QED
    BY <1>1, <1>2, <1>6, <2>2, <2>3, <2>4 DEF p, e
<1> QED
  BY <1>1, <1>3, <1>4, <1>5, <1>6

\* int32_t keeps the numbers that fit into it.
LEMMA Int32Keeps ==
  ASSUME NEW n \in Int, -INT32 <= n, n < INT32
  PROVE  Int32(n) = n
<1> DEFINE a == n + INT32
           m == 2 * INT32
<1>1. a \in Nat /\ m \in Nat \ {0} /\ a < m
  BY UsecMax
<1>2. a % m = a
  <2> HIDE DEF a, m
  <2>1. a \div m \in Nat /\ a % m \in 0 .. m - 1 /\ a = (a \div m) * m + (a % m)
    BY <1>1, DivMod
  <2>2. 0 = a \div m
    <3>1. a \in 0 .. m - 1 /\ a = 0 * m + a
      BY <1>1
    <3> QED
      BY <1>1, <3>1, DivUnique
  <2> QED
    BY <1>1, <2>1, <2>2
<1> QED
  BY <1>2, UsecMax DEF Int32

\* A time of seconds that int32_t holds is packed without loss.
LEMMA Unpacked ==
  ASSUME NEW t \in Times, t.tv_sec \in -INT32 .. INT32 - 1
  PROVE  unpack(pack(t)) = t
<1>1. t.tv_sec \in Int /\ -INT32 <= t.tv_sec /\ t.tv_sec < INT32
  BY UsecMax
<1>2. t.tv_usec \in Int /\ -INT32 <= t.tv_usec /\ t.tv_usec < INT32
  BY UsecMax DEF Times
<1>3. Int32(t.tv_sec) = t.tv_sec /\ Int32(t.tv_usec) = t.tv_usec
  BY <1>1, <1>2, Int32Keeps
<1>4. unpack(pack(t)) = [tv_sec |-> t.tv_sec, tv_usec |-> t.tv_usec]
  BY <1>3 DEF unpack, pack, Time
<1> QED
  BY <1>4 DEF Times

\* Times are what arithmetic gives, compare, print ("-1, 0 or 1" and two parts that are
\* not negative) and survive pack() and unpack() as the numbers of microseconds they
\* stand for.
THEOREM TimeReadsAsNumber == TimeSpec => []ReadsAsNumber
<1>1. TimeInit => TimeInv
  BY TimeAssumption, SMT DEF TimeInit, TimeInv, Normal, Exact, Time, microseconds
<1>2. ASSUME TimeInv PROVE ReadsAsNumber
  <2>1. Normal /\ Exact /\ time \in Times /\ exact = microseconds(time)
    BY <1>2 DEF TimeInv, Normal, Exact, Times
  <2>2. OrderExact
    BY <2>1, TimeAssumption, LessExact DEF OrderExact, Times
  <2>3. PrintExact
    BY <2>1, PrintedParts DEF PrintExact
  <2>4. PackExact
    BY <2>1, Unpacked DEF PackExact
  <2> QED
    BY <2>1, <2>2, <2>3, <2>4 DEF ReadsAsNumber
<1> QED
  BY <1>1, <1>2, TimeInvInductive, PTL DEF TimeSpec

-----------------------------------------------------------------------------
(* The calendar.                                                           *)

\* Days of a year before a month, and the end of the year after the last.
Before(leap, mon) ==
  CASE mon = 1 -> 0
    [] mon = 2 -> 31
    [] mon = 3 -> 58 + leap
    [] mon = 4 -> 89 + leap
    [] mon = 5 -> 119 + leap
    [] mon = 6 -> 150 + leap
    [] mon = 7 -> 180 + leap
    [] mon = 8 -> 211 + leap
    [] mon = 9 -> 242 + leap
    [] mon = 10 -> 272 + leap
    [] mon = 11 -> 303 + leap
    [] mon = 12 -> 333 + leap
    [] mon = 13 -> 364 + leap

LEMMA DaysIs ==
  ASSUME NEW leap \in {1, 2}, NEW mon \in 1 .. 12
  PROVE  Calendar!DAYS[leap][mon] = Before(leap, mon)
<1>1. mon = 1 \/ mon = 2 \/ mon = 3 \/ mon = 4 \/ mon = 5 \/ mon = 6 \/ mon = 7 \/ mon = 8
        \/ mon = 9 \/ mon = 10 \/ mon = 11 \/ mon = 12
  OBVIOUS
<1>2. CASE leap = 1
  BY <1>1, <1>2 DEF Calendar!DAYS, Before
<1>3. CASE leap = 2
  BY <1>1, <1>3 DEF Calendar!DAYS, Before
<1> QED
  BY <1>2, <1>3

LEMMA MonthsInOrder ==
  ASSUME NEW leap \in {1, 2}, NEW mon \in 1 .. 13
  PROVE  /\ Before(leap, mon) \in Nat
         /\ mon # 13 => Before(leap, mon + 1) - Before(leap, mon) \in 28 .. 31
         /\ \A m \in 1 .. 13 : m < mon => Before(leap, m + 1) <= Before(leap, mon)
<1>1. mon = 1 \/ mon = 2 \/ mon = 3 \/ mon = 4 \/ mon = 5 \/ mon = 6 \/ mon = 7 \/ mon = 8
        \/ mon = 9 \/ mon = 10 \/ mon = 11 \/ mon = 12 \/ mon = 13
  OBVIOUS
<1>2. Before(leap, mon) \in Nat /\ (mon # 13 => Before(leap, mon + 1) - Before(leap, mon) \in 28 .. 31)
  BY <1>1 DEF Before
<1>3. ASSUME NEW m \in 1 .. 13, m < mon
      PROVE  Before(leap, m + 1) <= Before(leap, mon)
  BY <1>1, <1>3 DEF Before
<1> QED
  BY <1>2, <1>3

\* Day yd of a year is in month mon.
InMonth(leap, mon, yd) == Before(leap, mon) <= yd /\ yd < Before(leap, mon + 1)

LEMMA MonthOfIs ==
  ASSUME NEW leap \in {1, 2}, NEW mon \in 1 .. 12, NEW yd \in Nat, InMonth(leap, mon, yd)
  PROVE  Calendar!MonthOf(leap, yd) = mon
<1> DEFINE Is(m) == /\ Calendar!DAYS[leap][m] < yd + 1
                    /\ m < 12 => Calendar!DAYS[leap][m + 1] >= yd + 1
<1>1. \A m \in 1 .. 12 : Is(m) <=> Before(leap, m) <= yd /\ (m < 12 => Before(leap, m + 1) > yd)
  <2> SUFFICES ASSUME NEW m \in 1 .. 12
               PROVE  Is(m) <=> Before(leap, m) <= yd /\ (m < 12 => Before(leap, m + 1) > yd)
    OBVIOUS
  <2>1. Calendar!DAYS[leap][m] = Before(leap, m) /\ Before(leap, m) \in Nat
    BY DaysIs, MonthsInOrder
  <2>2. ASSUME m < 12
        PROVE  Calendar!DAYS[leap][m + 1] = Before(leap, m + 1) /\ Before(leap, m + 1) \in Nat
    <3>1. m + 1 \in 1 .. 12
      BY <2>2
    <3> QED
      BY <3>1, DaysIs, MonthsInOrder
  <2> QED
    BY <2>1, <2>2
<1>2. Is(mon)
  BY <1>1 DEF InMonth
<1>3. \A m \in 1 .. 12 : Is(m) => m = mon
  <2> SUFFICES ASSUME NEW m \in 1 .. 12, Is(m) PROVE m = mon
    OBVIOUS
  <2>1. Before(leap, m) <= yd /\ (m < 12 => Before(leap, m + 1) > yd)
    BY <1>1
  <2>2. Before(leap, m) \in Nat /\ Before(leap, mon) \in Nat /\ Before(leap, mon + 1) \in Nat
    <3>1. mon + 1 \in 1 .. 13
      OBVIOUS
    <3> QED
      BY <3>1, MonthsInOrder
  <2>3. ~(m < mon)
    <3> SUFFICES ASSUME m < mon PROVE FALSE
      OBVIOUS
    <3>1. m < 12 /\ m + 1 \in 1 .. 13 /\ Before(leap, m + 1) <= Before(leap, mon)
      BY MonthsInOrder
    <3>2. Before(leap, m + 1) \in Nat
      BY <3>1, MonthsInOrder
    <3> QED
      BY <2>1, <2>2, <3>1, <3>2 DEF InMonth
  <2>4. ~(mon < m)
    <3> SUFFICES ASSUME mon < m PROVE FALSE
      OBVIOUS
    <3>1. Before(leap, mon + 1) <= Before(leap, m)
      BY MonthsInOrder
    <3> QED
      BY <2>1, <2>2, <3>1 DEF InMonth
  <2> QED
    BY <2>3, <2>4
<1> HIDE DEF Is
<1>4. Calendar!MonthOf(leap, yd) = CHOOSE m \in 1 .. 12 : Is(m)
  BY DEF Calendar!MonthOf, Is
<1> QED
  BY <1>2, <1>3, <1>4

\* The parts of a day number: cycles of four years, a year of the cycle, a day of the year.
LeapOf(r) == IF r = 2 THEN 2 ELSE 1

Days(q, r, yd) == 1461 * q + 365 * r + (IF r = 3 THEN 1 ELSE 0) + yd

InYear(r, yd) == yd <= 363 + LeapOf(r)

LEMMA SomeMonth ==
  ASSUME NEW r \in 0 .. 3, NEW yd \in Nat, InYear(r, yd)
  PROVE  \E mon \in 1 .. 12 : InMonth(LeapOf(r), mon, yd)
<1>0. PICK leap \in {1, 2} : leap = LeapOf(r) /\ yd <= 363 + leap
  BY DEF LeapOf, InYear
<1> SUFFICES ASSUME \A mon \in 1 .. 12 : ~InMonth(leap, mon, yd) PROVE FALSE
  BY <1>0
<1>1. \A mon \in 1 .. 12 : Before(leap, mon) <= yd => Before(leap, mon + 1) <= yd
  <2>1. \A mon \in 1 .. 12 : Before(leap, mon + 1) \in Nat
    <3>1. \A mon \in 1 .. 12 : mon + 1 \in 1 .. 13
      OBVIOUS
    <3> QED
      BY <3>1, MonthsInOrder
  <2> QED
    BY <2>1 DEF InMonth
<1>2. Before(leap, 1) = 0 /\ Before(leap, 13) = 364 + leap
  BY DEF Before
<1>3. Before(leap, 5) <= yd
  BY <1>1, <1>2
<1>4. Before(leap, 9) <= yd
  BY <1>1, <1>3
<1>5. Before(leap, 13) <= yd
  BY <1>1, <1>4
<1> QED
  BY <1>0, <1>2, <1>5

\* Day d is day yd of year r of cycle q for the code.
Splits(d, q, r, yd) ==
  /\ d \in Nat
  /\ d \div (4 * 365 + 1) = q
  /\ Calendar!YearOfCycle(d % (4 * 365 + 1)) = <<r, yd>>

LEMMA YearOfCycleIs ==
  ASSUME NEW q \in Nat, NEW r \in 0 .. 3, NEW yd \in Nat,
         InYear(r, yd)
  PROVE  Splits(Days(q, r, yd), q, r, yd)
<1> DEFINE R == 365 * r + (IF r = 3 THEN 1 ELSE 0) + yd
<1>1. R \in 0 .. 1460 /\ Days(q, r, yd) = 1461 * q + R
  BY DEF Days, LeapOf, InYear
<1>2. Calendar!YearOfCycle(R) = <<r, yd>>
  <2>1. r = 0 \/ r = 1 \/ r = 2 \/ r = 3
    OBVIOUS
  <2> QED
    BY <2>1 DEF Calendar!YearOfCycle, LeapOf, InYear
<1> HIDE DEF R
<1>3. (1461 * q + R) \div 1461 = q /\ (1461 * q + R) % 1461 = R /\ 4 * 365 + 1 = 1461
  BY <1>1
<1> QED
  BY <1>1, <1>2, <1>3 DEF Splits

LEMMA SomeDays ==
  ASSUME NEW d \in Nat
  PROVE  \E q \in Nat, r \in 0 .. 3 : \E yd \in 0 .. 363 + LeapOf(r) : d = Days(q, r, yd)
<1> DEFINE q == d \div 1461
<1> DEFINE R == d % 1461
<1>1. q \in Nat /\ R \in 0 .. 1460 /\ d = 1461 * q + R
  OBVIOUS
<1> HIDE DEF q, R
<1>2. \E r \in 0 .. 3 : R - 365 * r - (IF r = 3 THEN 1 ELSE 0) \in 0 .. 363 + LeapOf(r)
  <2>1. CASE R < 365
    BY <1>1, <2>1 DEF LeapOf
  <2>2. CASE R >= 365 /\ R < 730
    <3>1. R - 365 * 1 - (IF 1 = 3 THEN 1 ELSE 0) \in 0 .. 363 + LeapOf(1) /\ 1 \in 0 .. 3
      BY <1>1, <2>2 DEF LeapOf
    <3> QED
      BY <3>1
  <2>3. CASE R >= 730 /\ R < 1096
    <3>1. R - 365 * 2 - (IF 2 = 3 THEN 1 ELSE 0) \in 0 .. 363 + LeapOf(2) /\ 2 \in 0 .. 3
      BY <1>1, <2>3 DEF LeapOf
    <3> QED
      BY <3>1
  <2>4. CASE R >= 1096
    <3>1. R - 365 * 3 - (IF 3 = 3 THEN 1 ELSE 0) \in 0 .. 363 + LeapOf(3) /\ 3 \in 0 .. 3
      BY <1>1, <2>4 DEF LeapOf
    <3> QED
      BY <3>1
  <2> QED
    BY <1>1, <2>1, <2>2, <2>3, <2>4
<1>3. PICK r \in 0 .. 3 : R - 365 * r - (IF r = 3 THEN 1 ELSE 0) \in 0 .. 363 + LeapOf(r)
  BY <1>2
<1> DEFINE yd == R - 365 * r - (IF r = 3 THEN 1 ELSE 0)
<1>4. d = Days(q, r, yd)
  BY <1>1 DEF Days
<1> QED
  BY <1>1, <1>3, <1>4

YearNo(q, r) == q * 4 + r + 70

\* The fields of second s of day yd, in month mon, of year r of cycle q.
GmOf(q, r, yd, mon, s) ==
  [tm_sec |-> s % 60, tm_min |-> (s \div 60) % 60, tm_hour |-> s \div 3600,
   tm_wday |-> (Days(q, r, yd) + 4) % 7, tm_year |-> q * 4 + r + 70,
   tm_yday |-> yd, tm_mon |-> mon - 1, tm_mday |-> yd + 1 - Before(LeapOf(r), mon),
   tm_usec |-> 0]

DaySeconds == 86400

\* Second s of a day.
Second(d, s) == d * 86400 + s

LEMMA SecondsIs ==
  ASSUME NEW d \in Nat, NEW s \in Nat, s < DaySeconds
  PROVE  LET t == d * 86400 + s IN
         /\ t \in Nat /\ t \div 86400 = d
         /\ t % 60 = s % 60 /\ (t \div 60) % 60 = (s \div 60) % 60
         /\ (t \div 3600) % 24 = s \div 3600
<1> DEFINE t == d * 86400 + s
<1>1. t \in Nat /\ t \div 86400 = d
  BY DEF DaySeconds
<1>2. t % 60 = s % 60
  BY DEF DaySeconds
<1>3. t \div 60 = 1440 * d + s \div 60
  BY DEF DaySeconds
<1>4. (t \div 60) % 60 = (s \div 60) % 60
  BY <1>3
<1>5. t \div 3600 = 24 * d + s \div 3600 /\ s \div 3600 \in 0 .. 23
  BY DEF DaySeconds
<1>6. (t \div 3600) % 24 = s \div 3600
  BY <1>5
<1> QED
  BY <1>1, <1>2, <1>4, <1>6

LEMMA TimeToGm ==
  ASSUME NEW q \in Nat, NEW r \in 0 .. 3, NEW yd \in Nat, InYear(r, yd),
         NEW mon \in 1 .. 12,
         InMonth(LeapOf(r), mon, yd), NEW s \in Nat, s < DaySeconds
  PROVE  Calendar!time_to_gm(Second(Days(q, r, yd), s)) = GmOf(q, r, yd, mon, s)
<1>1. PICK d : d = Days(q, r, yd)
  OBVIOUS
<1>2. Splits(d, q, r, yd)
  BY <1>1, YearOfCycleIs
<1>3. d \in Nat /\ d \div (4 * 365 + 1) = q /\ Calendar!YearOfCycle(d % (4 * 365 + 1)) = <<r, yd>>
  BY <1>2 DEF Splits
<1>4. PICK t : t = d * 86400 + s
  OBVIOUS
<1>5. /\ t \div 86400 = d
      /\ t % 60 = s % 60 /\ (t \div 60) % 60 = (s \div 60) % 60
      /\ (t \div 3600) % 24 = s \div 3600
  <2>1. LET u == d * 86400 + s IN
        /\ u \in Nat /\ u \div 86400 = d
        /\ u % 60 = s % 60 /\ (u \div 60) % 60 = (s \div 60) % 60
        /\ (u \div 3600) % 24 = s \div 3600
    BY <1>3, SecondsIs
  <2> QED
    BY <2>1, <1>4
<1>6. LeapOf(r) \in {1, 2} /\ yd \in Nat
  BY DEF LeapOf
<1>7. Calendar!MonthOf(LeapOf(r), yd) = mon
  BY <1>6, MonthOfIs
<1>8. Calendar!DAYS[LeapOf(r)][mon] = Before(LeapOf(r), mon)
  BY <1>6, DaysIs
<1>9. (IF r = 2 THEN 2 ELSE 1) = LeapOf(r)
  BY DEF LeapOf
<1> DEFINE y == <<r, yd>>
<1>10. y = <<r, yd>> /\ y[1] = r /\ y[2] = yd
  OBVIOUS
<1> HIDE DEF y
<1>11. Calendar!YearOfCycle(d % (4 * 365 + 1)) = y
  BY <1>3, <1>10
<1>12. Calendar!time_to_gm(t)
        = [tm_sec |-> t % 60, tm_min |-> (t \div 60) % 60, tm_hour |-> (t \div 3600) % 24,
           tm_wday |-> (d + 4) % 7, tm_year |-> (d \div (4 * 365 + 1)) * 4 + y[1] + 70,
           tm_yday |-> y[2], tm_mon |-> Calendar!MonthOf(LeapOf(r), y[2]) - 1,
           tm_mday |-> y[2] + 1 - Calendar!DAYS[LeapOf(r)][Calendar!MonthOf(LeapOf(r), y[2])],
           tm_usec |-> 0]
  <2>1. (IF y[1] = 2 THEN 2 ELSE 1) = LeapOf(r)
    BY <1>9, <1>10
  <2>2. t \div 86400 = d
    BY <1>5
  <2> QED
    BY <1>11, <2>1, <2>2 DEF Calendar!time_to_gm
<1>13. Calendar!time_to_gm(t)
        = [tm_sec |-> s % 60, tm_min |-> (s \div 60) % 60, tm_hour |-> s \div 3600,
           tm_wday |-> (d + 4) % 7, tm_year |-> q * 4 + r + 70,
           tm_yday |-> yd, tm_mon |-> mon - 1, tm_mday |-> yd + 1 - Before(LeapOf(r), mon),
           tm_usec |-> 0]
  BY <1>3, <1>5, <1>7, <1>8, <1>10, <1>12
<1> QED
  BY <1>1, <1>4, <1>13 DEF GmOf, Second

\* The second of a day that a time of the calendar is, and whether its fields
\* but for the year and the month are integers.
OfDay(et) == et.tm_hour * 3600 + et.tm_min * 60 + et.tm_sec

IntTime(et) == et.tm_hour \in Int /\ et.tm_min \in Int /\ et.tm_sec \in Int

LEMMA GmToTime ==
  ASSUME NEW q \in Nat, NEW r \in 0 .. 3, NEW mon \in 1 .. 12, NEW et,
         et.tm_year = YearNo(q, r), et.tm_mon = mon - 1,
         et.tm_mday \in Int, IntTime(et)
  PROVE  Calendar!gm_to_time(et)
           = Second(Days(q, r, Before(LeapOf(r), mon) + et.tm_mday - 1), OfDay(et))
<1> DEFINE YEARS == et.tm_year - 70
<1>0. et.tm_hour \in Int /\ et.tm_min \in Int /\ et.tm_sec \in Int
  BY DEF IntTime
<1>1. YEARS = q * 4 + r
  BY DEF YearNo
<1>2. /\ (IF YEARS % 4 = 2 THEN 2 ELSE 1) = LeapOf(r)
      /\ (YEARS + 1) \div 4 = q + (IF r = 3 THEN 1 ELSE 0)
  BY <1>1 DEF LeapOf
<1>3. LeapOf(r) \in {1, 2} /\ et.tm_mon + 1 = mon
  BY DEF LeapOf
<1>4. /\ Calendar!DAYS[LeapOf(r)][et.tm_mon + 1] = Before(LeapOf(r), mon)
      /\ Before(LeapOf(r), mon) \in Nat
  BY <1>3, DaysIs, MonthsInOrder
<1>5. YEARS * 365 + (YEARS + 1) \div 4 + Before(LeapOf(r), mon) + et.tm_mday - 1
        = Days(q, r, Before(LeapOf(r), mon) + et.tm_mday - 1)
  <2> HIDE DEF YEARS
  <2> QED
    BY <1>1, <1>2, <1>4 DEF Days
<1>6. Calendar!gm_to_time(et)
        = (YEARS * 365 + (YEARS + 1) \div 4 + Calendar!DAYS[LeapOf(r)][et.tm_mon + 1] + et.tm_mday - 1)
            * 86400 + et.tm_hour * 3600 + et.tm_min * 60 + et.tm_sec
  BY <1>2 DEF Calendar!gm_to_time
<1>7. Days(q, r, Before(LeapOf(r), mon) + et.tm_mday - 1) \in Int
  BY <1>4 DEF Days
<1>8. Calendar!gm_to_time(et)
        = Days(q, r, Before(LeapOf(r), mon) + et.tm_mday - 1) * 86400
            + et.tm_hour * 3600 + et.tm_min * 60 + et.tm_sec
  BY <1>0, <1>4, <1>5, <1>6
<1> QED
  BY <1>0, <1>7, <1>8 DEF Second, OfDay

\* The seconds of a day are its hours, minutes and seconds.
LEMMA DayTime ==
  ASSUME NEW s \in Nat, s < DaySeconds
  PROVE  /\ s \div 3600 \in 0 .. 23 /\ (s \div 60) % 60 \in 0 .. 59 /\ s % 60 \in 0 .. 59
         /\ (s \div 3600) * 3600 + ((s \div 60) % 60) * 60 + (s % 60) = s
<1>1. s % 60 \in 0 .. 59 /\ s = 60 * (s \div 60) + (s % 60)
  OBVIOUS
<1>2. PICK m \in Int : m = s \div 60
  OBVIOUS
<1>3. m \in 0 .. 1439
  BY <1>1, <1>2 DEF DaySeconds
<1>4. m \div 60 \in 0 .. 23 /\ m % 60 \in 0 .. 59 /\ m = 60 * (m \div 60) + (m % 60)
  BY <1>3
<1>5. s \div 3600 = m \div 60
  BY <1>2
<1> QED
  BY <1>1, <1>2, <1>4, <1>5

\* The times of the calendar, and the second from the epoch they are.
Moment(r, yd, mon, s) == InYear(r, yd) /\ InMonth(LeapOf(r), mon, yd) /\ s < DaySeconds

IsGm(et, t) ==
  \E q \in Nat, r \in 0 .. 3, yd \in Nat, mon \in 1 .. 12, s \in Nat :
    Moment(r, yd, mon, s) /\ t = Second(Days(q, r, yd), s) /\ et = GmOf(q, r, yd, mon, s)

\* Any number of seconds has its time, which is the one of time_to_gm, and
\* which gm_to_time converts back.
LEMMA GmOfSeconds ==
  ASSUME NEW d \in Nat, NEW s \in Nat, s < DaySeconds
  PROVE  IsGm(Calendar!time_to_gm(Second(d, s)), Second(d, s))
<1>1. PICK q \in Nat, r \in 0 .. 3 : \E yd \in 0 .. 363 + LeapOf(r) : d = Days(q, r, yd)
  BY SomeDays
<1>2. LeapOf(r) \in {1, 2}
  BY DEF LeapOf
<1>3. PICK yd \in Nat : yd <= 363 + LeapOf(r) /\ d = Days(q, r, yd)
  BY <1>1, <1>2
<1>5. InYear(r, yd)
  BY <1>3 DEF InYear
<1>4. PICK mon \in 1 .. 12 : InMonth(LeapOf(r), mon, yd)
  BY <1>5, SomeMonth
<1>6. Calendar!time_to_gm(Second(Days(q, r, yd), s)) = GmOf(q, r, yd, mon, s)
  BY <1>4, <1>5, TimeToGm
<1>7. Moment(r, yd, mon, s)
  BY <1>4, <1>5 DEF Moment
<1>8. \E q1 \in Nat, r1 \in 0 .. 3, yd1 \in Nat, mon1 \in 1 .. 12, s1 \in Nat :
        /\ Moment(r1, yd1, mon1, s1) /\ Second(Days(q, r, yd), s) = Second(Days(q1, r1, yd1), s1)
        /\ GmOf(q, r, yd, mon, s) = GmOf(q1, r1, yd1, mon1, s1)
  BY <1>7, Zenon
<1>9. IsGm(GmOf(q, r, yd, mon, s), Second(Days(q, r, yd), s))
  BY <1>8 DEF IsGm
<1> QED
  BY <1>3, <1>6, <1>9

\* The date of day d.
OnDay(et, d) ==
  \E q \in Nat, r \in 0 .. 3, yd \in Nat, mon \in 1 .. 12 :
    /\ d = Days(q, r, yd)
    /\ et.tm_year = YearNo(q, r) /\ et.tm_mon = mon - 1
    /\ et.tm_mday = yd + 1 - Before(LeapOf(r), mon)

\* A time of the calendar is on its day, and has a time of that day.
LEMMA GmFields ==
  ASSUME NEW et, NEW d \in Nat, NEW s \in Nat, s < DaySeconds, IsGm(et, Second(d, s))
  PROVE  OnDay(et, d) /\ IntTime(et) /\ OfDay(et) = s
<1>1. PICK q \in Nat, r \in 0 .. 3, yd \in Nat, mon \in 1 .. 12, z \in Nat :
         Moment(r, yd, mon, z) /\ Second(d, s) = Second(Days(q, r, yd), z) /\ et = GmOf(q, r, yd, mon, z)
  BY DEF IsGm
<1>2. z < DaySeconds /\ Days(q, r, yd) \in Nat
  BY <1>1 DEF Moment, Days
<1>3. z = s /\ d = Days(q, r, yd)
  <2>1. PICK e \in Nat : e = Days(q, r, yd)
    BY <1>2
  <2>2. Second(d, s) = Second(e, z)
    BY <1>1, <2>1
  <2>3. z = s /\ d = e
    BY <1>2, <2>2 DEF DaySeconds, Second
  <2> QED
    BY <2>1, <2>3
<1>4. /\ s \div 3600 \in 0 .. 23 /\ (s \div 60) % 60 \in 0 .. 59 /\ s % 60 \in 0 .. 59
      /\ (s \div 3600) * 3600 + ((s \div 60) % 60) * 60 + (s % 60) = s
  BY DayTime
<1>5. et.tm_hour = s \div 3600 /\ et.tm_min = (s \div 60) % 60 /\ et.tm_sec = s % 60
  BY <1>1, <1>3 DEF GmOf
<1>6. OfDay(et) = s /\ IntTime(et)
  BY <1>4, <1>5 DEF OfDay, IntTime
<1>7. /\ et.tm_year = YearNo(q, r) /\ et.tm_mon = mon - 1
      /\ et.tm_mday = yd + 1 - Before(LeapOf(r), mon)
  BY <1>1 DEF GmOf, YearNo
<1>8. OnDay(et, d)
  BY <1>3, <1>7 DEF OnDay
<1> QED
  BY <1>6, <1>8

\* gm_to_time converts what has the date of a day back to that day.
LEMMA DayWithTime ==
  ASSUME NEW et, NEW d \in Nat, OnDay(et, d), IntTime(et)
  PROVE  Calendar!gm_to_time(et) = Second(d, OfDay(et))
<1>1. PICK q \in Nat, r \in 0 .. 3, yd \in Nat, mon \in 1 .. 12 :
        /\ d = Days(q, r, yd)
        /\ et.tm_year = YearNo(q, r) /\ et.tm_mon = mon - 1
        /\ et.tm_mday = yd + 1 - Before(LeapOf(r), mon)
  BY DEF OnDay
<1>2. LeapOf(r) \in {1, 2} /\ mon \in 1 .. 13
  BY DEF LeapOf
<1>3. Before(LeapOf(r), mon) \in Nat
  BY <1>2, MonthsInOrder
<1>4. et.tm_mday \in Int
  BY <1>1, <1>3
<1>5. Calendar!gm_to_time(et) = Second(Days(q, r, Before(LeapOf(r), mon) + et.tm_mday - 1), OfDay(et))
  <2>1. et.tm_year = YearNo(q, r) /\ et.tm_mon = mon - 1
    BY <1>1
  <2> QED
    BY <2>1, <1>4, GmToTime
<1>6. Before(LeapOf(r), mon) + et.tm_mday - 1 = yd
  BY <1>1, <1>3
<1> QED
  BY <1>1, <1>5, <1>6

IsDay(q, r, yd) == q \in Nat /\ r \in 0 .. 3 /\ yd \in Nat /\ InYear(r, yd)

LEMMA EarlierYear ==
  ASSUME NEW q, NEW r, NEW yd, IsDay(q, r, yd), NEW p, NEW o, NEW zd, IsDay(p, o, zd)
  PROVE  /\ Days(q, r, yd) \in Nat /\ Days(p, o, zd) \in Nat
         /\ YearNo(q, r) < YearNo(p, o) => Days(q, r, yd) < Days(p, o, zd)
         /\ YearNo(q, r) = YearNo(p, o) => q = p /\ r = o
<1> USE DEF IsDay
<1>1. Days(q, r, yd) \in Nat /\ Days(p, o, zd) \in Nat
  BY DEF Days
<1>2. q * 4 + r + 70 = p * 4 + o + 70 => q = p /\ r = o
  OBVIOUS
<1>3. ASSUME q * 4 + r + 70 < p * 4 + o + 70
      PROVE  Days(q, r, yd) < Days(p, o, zd)
  <2>1. 1461 * q + 365 * r + (IF r = 3 THEN 1 ELSE 0) + 364 + LeapOf(r)
          <= 1461 * p + 365 * o + (IF o = 3 THEN 1 ELSE 0)
    <3>1. CASE q = p
      BY <1>3, <3>1 DEF LeapOf
    <3>2. CASE q < p
      BY <3>2 DEF LeapOf
    <3> QED
      BY <1>3, <3>1, <3>2
  <2>2. LeapOf(r) \in Int
    BY DEF LeapOf
  <2> QED
    BY <2>1, <2>2 DEF Days, InYear
<1> QED
  BY <1>1, <1>2, <1>3 DEF YearNo

Clock(a, b, c) == a * 3600 + b * 60 + c

IsClock(a, b, c) == a \in 0 .. 23 /\ b \in 0 .. 59 /\ c \in 0 .. 59

LEMMA ClockOrder ==
  ASSUME NEW a, NEW b, NEW c, IsClock(a, b, c), NEW e, NEW f, NEW g, IsClock(e, f, g)
  PROVE  /\ a < e => Clock(a, b, c) < Clock(e, f, g)
         /\ a = e =>
              /\ b < f => Clock(a, b, c) < Clock(e, f, g)
              /\ b = f =>
                   /\ c < g => Clock(a, b, c) < Clock(e, f, g)
                   /\ c = g => Clock(a, b, c) = Clock(e, f, g)
<1>1. a < e => Clock(a, b, c) < Clock(e, f, g)
  BY DEF Clock, IsClock
<1>2. a = e /\ b < f => Clock(a, b, c) < Clock(e, f, g)
  BY DEF Clock, IsClock
<1>3. a = e /\ b = f /\ c < g => Clock(a, b, c) < Clock(e, f, g)
  BY DEF Clock, IsClock
<1>4. a = e /\ b = f /\ c = g => Clock(a, b, c) = Clock(e, f, g)
  OBVIOUS
<1> QED
  BY <1>1, <1>2, <1>3, <1>4

LEMMA EarlierMonth ==
  ASSUME NEW leap \in {1, 2}, NEW m \in 1 .. 12, NEW n \in 1 .. 12, NEW yd \in Nat, NEW zd \in Nat,
         InMonth(leap, m, yd), InMonth(leap, n, zd), m < n
  PROVE  yd < zd
<1>1. m + 1 \in 1 .. 13
  OBVIOUS
<1>2. Before(leap, m + 1) \in Nat /\ Before(leap, n) \in Nat /\ Before(leap, m + 1) <= Before(leap, n)
  BY <1>1, MonthsInOrder
<1> QED
  BY <1>2 DEF InMonth

\* The first field that differs decides which of two times is the earlier.
LEMMA FieldsDecide ==
  ASSUME NEW u, NEW v, NEW t \in Int, NEW w \in Int, IsGm(u, t), IsGm(v, w)
  PROVE  /\ u.tm_year \in Int /\ u.tm_mon \in Int /\ u.tm_mday \in Int
         /\ u.tm_hour \in Int /\ u.tm_min \in Int /\ u.tm_sec \in Int
         /\ u.tm_year < v.tm_year => t < w
         /\ u.tm_year = v.tm_year =>
              /\ u.tm_mon < v.tm_mon => t < w
              /\ u.tm_mon = v.tm_mon =>
                   /\ u.tm_mday < v.tm_mday => t < w
                   /\ u.tm_mday = v.tm_mday =>
                        /\ u.tm_hour < v.tm_hour => t < w
                        /\ u.tm_hour = v.tm_hour =>
                             /\ u.tm_min < v.tm_min => t < w
                             /\ u.tm_min = v.tm_min =>
                                  /\ u.tm_sec < v.tm_sec => t < w
                                  /\ u.tm_sec = v.tm_sec => t = w
<1>1. PICK q \in Nat, r \in 0 .. 3, yd \in Nat, mon \in 1 .. 12, s \in Nat :
         Moment(r, yd, mon, s) /\ t = Second(Days(q, r, yd), s) /\ u = GmOf(q, r, yd, mon, s)
  BY DEF IsGm
<1>2. PICK p \in Nat, o \in 0 .. 3, zd \in Nat, n \in 1 .. 12, z \in Nat :
         Moment(o, zd, n, z) /\ w = Second(Days(p, o, zd), z) /\ v = GmOf(p, o, zd, n, z)
  BY DEF IsGm
<1>0. /\ InYear(r, yd) /\ InMonth(LeapOf(r), mon, yd) /\ s < DaySeconds
      /\ InYear(o, zd) /\ InMonth(LeapOf(o), n, zd) /\ z < DaySeconds
      /\ t = Days(q, r, yd) * 86400 + s /\ w = Days(p, o, zd) * 86400 + z
  BY <1>1, <1>2 DEF Moment, Second
<1>3. LeapOf(r) \in {1, 2} /\ LeapOf(o) \in {1, 2}
  BY DEF LeapOf
<1>4. Before(LeapOf(r), mon) \in Nat /\ Before(LeapOf(o), n) \in Nat
  BY <1>3, MonthsInOrder
<1>5. /\ u.tm_year = q * 4 + r + 70 /\ u.tm_mon = mon - 1
      /\ u.tm_mday = yd + 1 - Before(LeapOf(r), mon)
      /\ u.tm_hour = s \div 3600 /\ u.tm_min = (s \div 60) % 60 /\ u.tm_sec = s % 60
  BY <1>1 DEF GmOf
<1>6. /\ v.tm_year = p * 4 + o + 70 /\ v.tm_mon = n - 1
      /\ v.tm_mday = zd + 1 - Before(LeapOf(o), n)
      /\ v.tm_hour = z \div 3600 /\ v.tm_min = (z \div 60) % 60 /\ v.tm_sec = z % 60
  BY <1>2 DEF GmOf
<1>7. /\ s \div 3600 \in 0 .. 23 /\ (s \div 60) % 60 \in 0 .. 59 /\ s % 60 \in 0 .. 59
      /\ (s \div 3600) * 3600 + ((s \div 60) % 60) * 60 + (s % 60) = s
  BY <1>0, DayTime
<1>8. /\ z \div 3600 \in 0 .. 23 /\ (z \div 60) % 60 \in 0 .. 59 /\ z % 60 \in 0 .. 59
      /\ (z \div 3600) * 3600 + ((z \div 60) % 60) * 60 + (z % 60) = z
  BY <1>0, DayTime
<1>9. /\ Days(q, r, yd) \in Nat /\ Days(p, o, zd) \in Nat
      /\ YearNo(q, r) < YearNo(p, o) => Days(q, r, yd) < Days(p, o, zd)
      /\ YearNo(q, r) = YearNo(p, o) => q = p /\ r = o
  <2>1. IsDay(q, r, yd) /\ IsDay(p, o, zd)
    BY <1>1, <1>2 DEF Moment, IsDay
  <2> QED
    BY <2>1, EarlierYear
<1>10. Days(q, r, yd) < Days(p, o, zd) => t < w
  BY <1>0, <1>9 DEF DaySeconds
<1>11. u.tm_year < v.tm_year => t < w
  BY <1>5, <1>6, <1>9, <1>10 DEF YearNo
<1>12. q = p /\ r = o /\ yd < zd => t < w
  BY <1>10 DEF Days
<1>13. ASSUME u.tm_year = v.tm_year, u.tm_mon < v.tm_mon
       PROVE  t < w
  <2>1. q = p /\ r = o /\ mon < n
    BY <1>5, <1>6, <1>9, <1>13 DEF YearNo
  <2>2. yd < zd
    <3>1. PICK leap \in {1, 2} : leap = LeapOf(r) /\ leap = LeapOf(o)
      BY <1>3, <2>1
    <3>2. InMonth(leap, mon, yd) /\ InMonth(leap, n, zd)
      BY <1>0, <3>1
    <3> QED
      BY <2>1, <3>2, EarlierMonth
  <2> QED
    BY <1>12, <2>1, <2>2
<1>14. ASSUME u.tm_year = v.tm_year, u.tm_mon = v.tm_mon
       PROVE  /\ u.tm_mday < v.tm_mday => t < w
              /\ u.tm_mday = v.tm_mday => Days(q, r, yd) = Days(p, o, zd)
  <2>1. q = p /\ r = o /\ mon = n
    BY <1>5, <1>6, <1>9, <1>14 DEF YearNo
  <2>2. Before(LeapOf(r), mon) = Before(LeapOf(o), n)
    BY <2>1
  <2>3. /\ u.tm_mday < v.tm_mday => yd < zd
        /\ u.tm_mday = v.tm_mday => yd = zd
    BY <1>4, <1>5, <1>6, <2>2
  <2> QED
    BY <1>12, <2>1, <2>3
<1>15. ASSUME Days(q, r, yd) = Days(p, o, zd)
       PROVE  (s < z => t < w) /\ (s = z => t = w)
  BY <1>0, <1>9, <1>15
<1>16. /\ u.tm_hour < v.tm_hour => s < z
       /\ u.tm_hour = v.tm_hour =>
            /\ u.tm_min < v.tm_min => s < z
            /\ u.tm_min = v.tm_min =>
                 /\ u.tm_sec < v.tm_sec => s < z
                 /\ u.tm_sec = v.tm_sec => s = z
  <2>1. IsClock(u.tm_hour, u.tm_min, u.tm_sec) /\ Clock(u.tm_hour, u.tm_min, u.tm_sec) = s
    BY <1>5, <1>7 DEF Clock, IsClock
  <2>2. IsClock(v.tm_hour, v.tm_min, v.tm_sec) /\ Clock(v.tm_hour, v.tm_min, v.tm_sec) = z
    BY <1>6, <1>8 DEF Clock, IsClock
  <2> QED
    BY <2>1, <2>2, ClockOrder
<1>17. /\ u.tm_year \in Int /\ u.tm_mon \in Int /\ u.tm_mday \in Int
       /\ u.tm_hour \in Int /\ u.tm_min \in Int /\ u.tm_sec \in Int
  BY <1>4, <1>5, <1>7
<1>18. u.tm_year = v.tm_year /\ u.tm_mon = v.tm_mon /\ u.tm_mday = v.tm_mday =>
         /\ u.tm_hour < v.tm_hour => t < w
         /\ u.tm_hour = v.tm_hour =>
              /\ u.tm_min < v.tm_min => t < w
              /\ u.tm_min = v.tm_min =>
                   /\ u.tm_sec < v.tm_sec => t < w
                   /\ u.tm_sec = v.tm_sec => t = w
  BY <1>14, <1>15, <1>16
<1> QED
  BY <1>11, <1>13, <1>14, <1>17, <1>18

\* compare() gives the order of the seconds.
LEMMA CompareOrders ==
  ASSUME NEW u, NEW v, NEW t \in Int, NEW w \in Int, IsGm(u, t), IsGm(v, w)
  PROVE  /\ Calendar!compare(u, v) < 0 <=> t < w
         /\ Calendar!compare(u, v) > 0 <=> t > w
<1> DEFINE diff(i) == u[Calendar!CompareFields[i]] - v[Calendar!CompareFields[i]]
<1> DEFINE First(i) == diff(i) # 0 /\ \A j \in 1 .. i - 1 : diff(j) = 0
<1>1. /\ diff(1) = u.tm_year - v.tm_year /\ diff(2) = u.tm_mon - v.tm_mon
      /\ diff(3) = u.tm_mday - v.tm_mday /\ diff(4) = u.tm_hour - v.tm_hour
      /\ diff(5) = u.tm_min - v.tm_min /\ diff(6) = u.tm_sec - v.tm_sec
  BY DEF Calendar!CompareFields
<1>2. Calendar!compare(u, v)
        = IF \E i \in 1 .. 6 : First(i) THEN diff(CHOOSE i \in 1 .. 6 : First(i)) ELSE 0
  BY DEF Calendar!compare
<1>3. /\ u.tm_year \in Int /\ u.tm_mon \in Int /\ u.tm_mday \in Int
      /\ u.tm_hour \in Int /\ u.tm_min \in Int /\ u.tm_sec \in Int
      /\ v.tm_year \in Int /\ v.tm_mon \in Int /\ v.tm_mday \in Int
      /\ v.tm_hour \in Int /\ v.tm_min \in Int /\ v.tm_sec \in Int
  BY FieldsDecide
<1>4. \A i \in 1 .. 6 : diff(i) \in Int
  <2>1. \A i \in 1 .. 6 : i = 1 \/ i = 2 \/ i = 3 \/ i = 4 \/ i = 5 \/ i = 6
    OBVIOUS
  <2> HIDE DEF diff
  <2> QED
    BY <1>1, <1>3, <2>1
<1>5. /\ u.tm_year < v.tm_year => t < w
      /\ u.tm_year = v.tm_year =>
           /\ u.tm_mon < v.tm_mon => t < w
           /\ u.tm_mon = v.tm_mon =>
                /\ u.tm_mday < v.tm_mday => t < w
                /\ u.tm_mday = v.tm_mday =>
                     /\ u.tm_hour < v.tm_hour => t < w
                     /\ u.tm_hour = v.tm_hour =>
                          /\ u.tm_min < v.tm_min => t < w
                          /\ u.tm_min = v.tm_min =>
                               /\ u.tm_sec < v.tm_sec => t < w
                               /\ u.tm_sec = v.tm_sec => t = w
  BY FieldsDecide
<1>6. /\ v.tm_year < u.tm_year => w < t
      /\ v.tm_year = u.tm_year =>
           /\ v.tm_mon < u.tm_mon => w < t
           /\ v.tm_mon = u.tm_mon =>
                /\ v.tm_mday < u.tm_mday => w < t
                /\ v.tm_mday = u.tm_mday =>
                     /\ v.tm_hour < u.tm_hour => w < t
                     /\ v.tm_hour = u.tm_hour =>
                          /\ v.tm_min < u.tm_min => w < t
                          /\ v.tm_min = u.tm_min =>
                               /\ v.tm_sec < u.tm_sec => w < t
                               /\ v.tm_sec = u.tm_sec => w = t
  BY FieldsDecide
<1> HIDE DEF diff
\* The first of the fields that differ.
<1>7. \A i \in 1 .. 6 : First(i) => /\ diff(i) # 0
                                    /\ diff(i) < 0 => t < w
                                    /\ diff(i) > 0 => w < t
  <2> SUFFICES ASSUME NEW i \in 1 .. 6, First(i)
               PROVE  diff(i) # 0 /\ (diff(i) < 0 => t < w) /\ (diff(i) > 0 => w < t)
    OBVIOUS
  <2>1. diff(i) # 0 /\ \A j \in 1 .. i - 1 : diff(j) = 0
    OBVIOUS
  <2>2. CASE i = 1
    <3>3. diff(i) = u.tm_year - v.tm_year
      BY <1>1, <2>2
    <3>4. (u.tm_year < v.tm_year => t < w) /\ (v.tm_year < u.tm_year => w < t)
      BY <1>5, <1>6
    <3> QED
      BY <1>3, <2>1, <3>3, <3>4
  <2>3. CASE i = 2
    <3>1. diff(1) = 0
      BY <2>1, <2>3
    <3>2. u.tm_year = v.tm_year
      BY <1>1, <1>3, <3>1
    <3>3. diff(i) = u.tm_mon - v.tm_mon
      BY <1>1, <2>3
    <3>4. (u.tm_mon < v.tm_mon => t < w) /\ (v.tm_mon < u.tm_mon => w < t)
      BY <1>5, <1>6, <3>2
    <3> QED
      BY <1>3, <2>1, <3>3, <3>4
  <2>4. CASE i = 3
    <3>1. diff(1) = 0 /\ diff(2) = 0
      BY <2>1, <2>4
    <3>2. u.tm_year = v.tm_year /\ u.tm_mon = v.tm_mon
      BY <1>1, <1>3, <3>1
    <3>3. diff(i) = u.tm_mday - v.tm_mday
      BY <1>1, <2>4
    <3>4. (u.tm_mday < v.tm_mday => t < w) /\ (v.tm_mday < u.tm_mday => w < t)
      BY <1>5, <1>6, <3>2
    <3> QED
      BY <1>3, <2>1, <3>3, <3>4
  <2>5. CASE i = 4
    <3>1. diff(1) = 0 /\ diff(2) = 0 /\ diff(3) = 0
      BY <2>1, <2>5
    <3>2. u.tm_year = v.tm_year /\ u.tm_mon = v.tm_mon /\ u.tm_mday = v.tm_mday
      BY <1>1, <1>3, <3>1
    <3>3. diff(i) = u.tm_hour - v.tm_hour
      BY <1>1, <2>5
    <3>4. (u.tm_hour < v.tm_hour => t < w) /\ (v.tm_hour < u.tm_hour => w < t)
      BY <1>5, <1>6, <3>2
    <3> QED
      BY <1>3, <2>1, <3>3, <3>4
  <2>6. CASE i = 5
    <3>1. diff(1) = 0 /\ diff(2) = 0 /\ diff(3) = 0 /\ diff(4) = 0
      BY <2>1, <2>6
    <3>2. u.tm_year = v.tm_year /\ u.tm_mon = v.tm_mon /\ u.tm_mday = v.tm_mday
          /\ u.tm_hour = v.tm_hour
      BY <1>1, <1>3, <3>1
    <3>3. diff(i) = u.tm_min - v.tm_min
      BY <1>1, <2>6
    <3>4. (u.tm_min < v.tm_min => t < w) /\ (v.tm_min < u.tm_min => w < t)
      BY <1>5, <1>6, <3>2
    <3> QED
      BY <1>3, <2>1, <3>3, <3>4
  <2>7. CASE i = 6
    <3>1. diff(1) = 0 /\ diff(2) = 0 /\ diff(3) = 0 /\ diff(4) = 0 /\ diff(5) = 0
      BY <2>1, <2>7
    <3>2. u.tm_year = v.tm_year /\ u.tm_mon = v.tm_mon /\ u.tm_mday = v.tm_mday
          /\ u.tm_hour = v.tm_hour /\ u.tm_min = v.tm_min
      BY <1>1, <1>3, <3>1
    <3>3. diff(i) = u.tm_sec - v.tm_sec
      BY <1>1, <2>7
    <3>4. (u.tm_sec < v.tm_sec => t < w) /\ (v.tm_sec < u.tm_sec => w < t)
      BY <1>5, <1>6, <3>2
    <3> QED
      BY <1>3, <2>1, <3>3, <3>4
  <2> QED
    BY <2>2, <2>3, <2>4, <2>5, <2>6, <2>7
\* None differs.
<1>8. (\A i \in 1 .. 6 : ~First(i)) => t = w
  <2> SUFFICES ASSUME \A i \in 1 .. 6 : ~First(i) PROVE t = w
    OBVIOUS
  <2>1. diff(1) = 0
    OBVIOUS
  <2>2. diff(2) = 0
    BY <2>1
  <2>3. diff(3) = 0
    BY <2>1, <2>2
  <2>4. diff(4) = 0
    BY <2>1, <2>2, <2>3
  <2>5. diff(5) = 0
    BY <2>1, <2>2, <2>3, <2>4
  <2>6. diff(6) = 0
    BY <2>1, <2>2, <2>3, <2>4, <2>5
  <2>7. /\ u.tm_year = v.tm_year /\ u.tm_mon = v.tm_mon /\ u.tm_mday = v.tm_mday
        /\ u.tm_hour = v.tm_hour /\ u.tm_min = v.tm_min /\ u.tm_sec = v.tm_sec
    BY <1>1, <1>3, <2>1, <2>2, <2>3, <2>4, <2>5, <2>6
  <2> QED
    BY <1>5, <2>7
<1> HIDE DEF First
<1>9. CASE \E i \in 1 .. 6 : First(i)
  <2>1. PICK k \in 1 .. 6 : First(k) /\ k = CHOOSE i \in 1 .. 6 : First(i)
    BY <1>9
  <2>2. Calendar!compare(u, v) = diff(k)
    BY <1>2, <1>9, <2>1
  <2>3. diff(k) \in Int /\ diff(k) # 0 /\ (diff(k) < 0 => t < w) /\ (diff(k) > 0 => w < t)
    BY <1>4, <1>7, <2>1
  <2> QED
    BY <2>2, <2>3
<1>10. CASE \A i \in 1 .. 6 : ~First(i)
  <2>1. Calendar!compare(u, v) = 0
    BY <1>2, <1>10
  <2> QED
    BY <1>8, <1>10, <2>1
<1> QED
  BY <1>9, <1>10

\* A date of the years in which each fourth is leap, and its day.
IsDate(c) ==
  /\ c \in [year : 1970 .. 2099, month : 1 .. 12, mday : 1 .. 31]
  /\ c.mday <= Calendar!MonthLength(c.year, c.month)

\* Its year is r of cycle q, and its day is yd of the year.
DateOf(c, q, r, yd) ==
  /\ c.year = 1970 + q * 4 + r
  /\ yd = Before(LeapOf(r), c.month) + c.mday - 1
  /\ InYear(r, yd) /\ InMonth(LeapOf(r), c.month, yd)
  /\ Calendar!MonthLength(c.year, c.month)
       = Before(LeapOf(r), c.month + 1) - Before(LeapOf(r), c.month)
  /\ DayOf(c) = Days(q, r, yd)

LEMMA DateIs ==
  ASSUME NEW c, IsDate(c)
  PROVE  \E q \in Nat, r \in 0 .. 3, yd \in Nat : DateOf(c, q, r, yd)
<1> DEFINE y == c.year - 1970
<1> DEFINE q == y \div 4
<1> DEFINE r == y % 4
<1> DEFINE yd == Before(LeapOf(r), c.month) + c.mday - 1
<1>1. y \in 0 .. 129 /\ c.year = 1970 + y /\ c.month \in 1 .. 12 /\ c.mday \in 1 .. 31
  BY DEF IsDate
<1>2. q \in Nat /\ r \in 0 .. 3 /\ y = q * 4 + r
  <2> HIDE DEF y
  <2> QED
    BY <1>1
<1>3. LeapOf(r) \in {1, 2}
  BY DEF LeapOf
<1> HIDE DEF q, r
<1>4. /\ Before(LeapOf(r), c.month) \in Nat
      /\ Before(LeapOf(r), c.month + 1) \in Nat
      /\ Before(LeapOf(r), c.month + 1) <= 364 + LeapOf(r)
  <2>1. c.month + 1 \in 1 .. 13 /\ 13 \in 1 .. 13
    BY <1>1
  <2>2. Before(LeapOf(r), 13) = 364 + LeapOf(r) /\ Before(LeapOf(r), 14 - 1) = Before(LeapOf(r), 13)
    BY DEF Before
  <2>3. c.month + 1 < 13 => Before(LeapOf(r), c.month + 1) <= Before(LeapOf(r), 13)
    <3>1. ASSUME c.month + 1 < 13
          PROVE  Before(LeapOf(r), c.month + 1 + 1) <= Before(LeapOf(r), 13)
      BY <1>1, <1>3, <2>1, <3>1, MonthsInOrder
    <3>2. ASSUME c.month + 1 < 13
          PROVE  Before(LeapOf(r), c.month + 1) <= Before(LeapOf(r), c.month + 1 + 1)
      <4>1. Before(LeapOf(r), c.month + 1 + 1) - Before(LeapOf(r), c.month + 1) \in 28 .. 31
        BY <1>3, <2>1, <3>2, MonthsInOrder
      <4>2. c.month + 1 + 1 \in 1 .. 13
        BY <1>1, <3>2
      <4>3. Before(LeapOf(r), c.month + 1 + 1) \in Nat /\ Before(LeapOf(r), c.month + 1) \in Nat
        BY <1>3, <2>1, <4>2, MonthsInOrder
      <4> QED
        BY <4>1, <4>3
    <3>3. c.month + 1 < 13 => c.month + 1 + 1 \in 1 .. 13
      BY <1>1
    <3>4. /\ Before(LeapOf(r), c.month + 1) \in Nat /\ Before(LeapOf(r), 13) \in Nat
          /\ c.month + 1 < 13 => Before(LeapOf(r), c.month + 1 + 1) \in Nat
      BY <1>3, <2>1, <3>3, MonthsInOrder
    <3> QED
      BY <3>1, <3>2, <3>4
  <2>4. Before(LeapOf(r), c.month) \in Nat /\ Before(LeapOf(r), c.month + 1) \in Nat
    <3>1. c.month \in 1 .. 13
      BY <1>1
    <3> QED
      BY <1>3, <2>1, <3>1, MonthsInOrder
  <2>5. c.month + 1 < 13 \/ c.month + 1 = 13
    BY <2>1
  <2> QED
    BY <1>3, <2>2, <2>3, <2>4, <2>5
<1>5. c.year % 4 = 0 <=> r = 2
  <2>1. c.year % 4 = (2 + r) % 4
    BY <1>1, <1>2
  <2> QED
    BY <1>2, <2>1
<1>6. Calendar!Leap(c.year) <=> r = 2
  <2>1. c.year % 100 = 0 => c.year = 2000
    BY <1>1
  <2>2. 2000 % 400 = 0
    OBVIOUS
  <2> QED
    BY <1>5, <2>1, <2>2 DEF Calendar!Leap
<1>7. Calendar!MonthLength(c.year, c.month)
        = Before(LeapOf(r), c.month + 1) - Before(LeapOf(r), c.month)
  <2>1. \/ c.month = 1 \/ c.month = 2 \/ c.month = 3 \/ c.month = 4 \/ c.month = 5 \/ c.month = 6
        \/ c.month = 7 \/ c.month = 8 \/ c.month = 9 \/ c.month = 10 \/ c.month = 11 \/ c.month = 12
    BY <1>1
  <2>2. CASE r = 2
    <3>1. LeapOf(r) = 2 /\ Calendar!Leap(c.year)
      BY <1>6, <2>2 DEF LeapOf
    <3> QED
      BY <2>1, <3>1 DEF Calendar!MonthLength, Before
  <2>3. CASE r # 2
    <3>1. LeapOf(r) = 1 /\ ~Calendar!Leap(c.year)
      BY <1>6, <2>3 DEF LeapOf
    <3> QED
      BY <2>1, <3>1 DEF Calendar!MonthLength, Before
  <2> QED
    BY <2>2, <2>3
<1>8. c.mday <= Calendar!MonthLength(c.year, c.month)
  BY DEF IsDate
<1>9. yd \in Nat /\ InMonth(LeapOf(r), c.month, yd) /\ InYear(r, yd)
  BY <1>1, <1>3, <1>4, <1>7, <1>8 DEF InMonth, InYear
<1>10. DayOf(c) = Days(q, r, yd)
  <2>1. (IF c.year % 4 = 0 THEN 2 ELSE 1) = LeapOf(r)
    BY <1>5 DEF LeapOf
  <2>2. Calendar!DAYS[LeapOf(r)][c.month] = Before(LeapOf(r), c.month)
    BY <1>1, <1>3, DaysIs
  <2>3. DayOf(c) = (c.year - 1970) * 365 + (c.year - 1969) \div 4
                     + Before(LeapOf(r), c.month) + c.mday - 1
    BY <2>1, <2>2 DEF DayOf
  <2>4. (c.year - 1969) \div 4 = q + (IF r = 3 THEN 1 ELSE 0)
    <3>1. c.year - 1969 = q * 4 + r + 1
      BY <1>1, <1>2
    <3> QED
      BY <1>2, <3>1
  <2>5. c.year - 1970 = q * 4 + r
    BY <1>1, <1>2
  <2> QED
    BY <1>1, <1>2, <1>4, <2>3, <2>4, <2>5 DEF Days
<1>11. c.year = 1970 + q * 4 + r
  BY <1>1, <1>2
<1> HIDE DEF y, yd
<1>12. yd = Before(LeapOf(r), c.month) + c.mday - 1
  BY DEF yd
<1>13. DateOf(c, q, r, yd)
  BY <1>7, <1>9, <1>10, <1>11, <1>12 DEF DateOf
<1> QED
  BY <1>2, <1>9, <1>13

DayAgrees == IsDate(civil) /\ day = DayOf(civil)

LEMMA DayIsNat ==
  ASSUME DayAgrees
  PROVE  day \in Nat
<1>0. PICK q \in Nat, r \in 0 .. 3, yd \in Nat : DateOf(civil, q, r, yd)
  BY DateIs DEF DayAgrees
<1>1. DayOf(civil) = Days(q, r, yd) /\ InYear(r, yd)
  BY <1>0 DEF DateOf
<1> QED
  BY <1>1, YearOfCycleIs DEF DayAgrees, Splits

LEMMA TimesAre ==
  ASSUME NEW s \in TimesOfDay
  PROVE  s \in Nat /\ s < DaySeconds
BY CalendarAssumption DEF DaySeconds

LEMMA AtIs ==
  ASSUME DayAgrees, NEW s \in TimesOfDay
  PROVE  /\ Calendar!At(s) = Calendar!time_to_gm(Second(day, s))
         /\ IsGm(Calendar!At(s), Second(day, s))
<1>1. day \in Nat /\ s \in Nat /\ s < DaySeconds
  BY DayIsNat, TimesAre
<1>2. Calendar!At(s) = Calendar!time_to_gm(Second(day, s))
  BY DEF Calendar!At, Second
<1> QED
  BY <1>1, <1>2, GmOfSeconds

LEMMA CivilRight ==
  ASSUME DayAgrees
  PROVE  Calendar!CivilAgrees
<1> SUFFICES ASSUME NEW s \in TimesOfDay
             PROVE  LET et == Calendar!At(s) IN
                    /\ <<et.tm_year + 1900, et.tm_mon + 1, et.tm_mday>>
                         = <<civil.year, civil.month, civil.mday>>
                    /\ et.tm_hour * 3600 + et.tm_min * 60 + et.tm_sec = s
                    /\ et.tm_sec \in 0 .. 59 /\ et.tm_min \in 0 .. 59 /\ et.tm_hour \in 0 .. 23
  BY DEF Calendar!CivilAgrees
<1>1. s \in Nat /\ s < DaySeconds /\ civil.month \in 1 .. 12 /\ civil.mday \in 1 .. 31
  BY TimesAre DEF DayAgrees, IsDate
<1>0. PICK q \in Nat, r \in 0 .. 3, yd \in Nat : DateOf(civil, q, r, yd)
  BY DateIs DEF DayAgrees
<1>2. /\ civil.year = 1970 + q * 4 + r
      /\ yd = Before(LeapOf(r), civil.month) + civil.mday - 1
      /\ InYear(r, yd) /\ InMonth(LeapOf(r), civil.month, yd)
      /\ DayOf(civil) = Days(q, r, yd)
  BY <1>0 DEF DateOf
<1>3. Calendar!time_to_gm(Second(Days(q, r, yd), s)) = GmOf(q, r, yd, civil.month, s)
  <2>1. PICK mon \in 1 .. 12 : mon = civil.month
    BY <1>1
  <2>2. InYear(r, yd) /\ InMonth(LeapOf(r), mon, yd) /\ s \in Nat /\ s < DaySeconds
    BY <1>1, <1>2, <2>1
  <2>3. Calendar!time_to_gm(Second(Days(q, r, yd), s)) = GmOf(q, r, yd, mon, s)
    BY <2>2, TimeToGm
  <2> QED
    BY <2>1, <2>3
<1>4. Calendar!At(s) = GmOf(q, r, yd, civil.month, s)
  BY <1>2, <1>3 DEF Calendar!At, DayAgrees, Second
<1>5. LeapOf(r) \in {1, 2} /\ civil.month \in 1 .. 13
  BY <1>1 DEF LeapOf
<1>6. Before(LeapOf(r), civil.month) \in Nat
  BY <1>5, MonthsInOrder
<1>7. /\ s \div 3600 \in 0 .. 23 /\ (s \div 60) % 60 \in 0 .. 59 /\ s % 60 \in 0 .. 59
      /\ (s \div 3600) * 3600 + ((s \div 60) % 60) * 60 + (s % 60) = s
  BY <1>1, DayTime
<1>8. PICK et : et = Calendar!At(s)
  OBVIOUS
<1>9. /\ et.tm_year = q * 4 + r + 70 /\ et.tm_mon = civil.month - 1
      /\ et.tm_mday = yd + 1 - Before(LeapOf(r), civil.month)
      /\ et.tm_hour = s \div 3600 /\ et.tm_min = (s \div 60) % 60 /\ et.tm_sec = s % 60
  BY <1>4, <1>8 DEF GmOf
<1>10. /\ et.tm_year + 1900 = civil.year /\ et.tm_mon + 1 = civil.month /\ et.tm_mday = civil.mday
       /\ et.tm_hour * 3600 + et.tm_min * 60 + et.tm_sec = s
       /\ et.tm_sec \in 0 .. 59 /\ et.tm_min \in 0 .. 59 /\ et.tm_hour \in 0 .. 23
  <2>1. et.tm_year + 1900 = civil.year /\ et.tm_mon + 1 = civil.month
    BY <1>1, <1>2, <1>9
  <2>2. et.tm_mday = civil.mday
    BY <1>1, <1>2, <1>6, <1>9
  <2>3. /\ et.tm_hour * 3600 + et.tm_min * 60 + et.tm_sec = s
        /\ et.tm_sec \in 0 .. 59 /\ et.tm_min \in 0 .. 59 /\ et.tm_hour \in 0 .. 23
    BY <1>7, <1>9
  <2> QED
    BY <2>1, <2>2, <2>3
<1> QED
  BY <1>8, <1>10

LEMMA BackAgainRight ==
  ASSUME DayAgrees
  PROVE  Calendar!BackAgain
<1>1. ASSUME NEW s \in TimesOfDay
      PROVE  Calendar!gm_to_time(Calendar!At(s)) = day * 86400 + s
  <2>1. PICK et : et = Calendar!At(s)
    OBVIOUS
  <2>2. IsGm(et, Second(day, s)) /\ day \in Nat /\ s \in Nat /\ s < DaySeconds
    BY <2>1, AtIs, DayIsNat, TimesAre
  <2>3. Calendar!gm_to_time(et) = Second(day, s)
    BY <2>2, GmFields, DayWithTime
  <2> QED
    BY <2>1, <2>3 DEF Second
<1> QED
  BY <1>1 DEF Calendar!BackAgain

LEMMA NormalizesRight ==
  ASSUME DayAgrees
  PROVE  Calendar!Normalizes
<1> SUFFICES ASSUME NEW k \in Overflows, NEW s \in TimesOfDay
             PROVE  Calendar!FromDate(civil.year, civil.month, civil.mday + k, 0, 0, s, 7)
                      = [Calendar!time_to_gm((day + k) * 86400 + s) EXCEPT !.tm_usec = 7]
  BY DEF Calendar!Normalizes
<1>1. s \in Nat /\ civil.month \in 1 .. 12 /\ civil.mday \in 1 .. 31 /\ k \in Nat
  BY TimesAre, CalendarAssumption DEF DayAgrees, IsDate
<1>0. PICK q \in Nat, r \in 0 .. 3, yd \in Nat : DateOf(civil, q, r, yd)
  BY DateIs DEF DayAgrees
<1>2. /\ civil.year = 1970 + q * 4 + r
      /\ yd = Before(LeapOf(r), civil.month) + civil.mday - 1
      /\ DayOf(civil) = Days(q, r, yd)
  BY <1>0 DEF DateOf
<1>3. LeapOf(r) \in {1, 2} /\ civil.month \in 1 .. 13
  BY <1>1 DEF LeapOf
<1>4. Before(LeapOf(r), civil.month) \in Nat
  BY <1>3, MonthsInOrder
<1> DEFINE et == [tm_year |-> civil.year - 1900, tm_mon |-> civil.month - 1,
                  tm_mday |-> civil.mday + k, tm_hour |-> 0, tm_min |-> 0, tm_sec |-> s,
                  tm_usec |-> 7]
<1>5. /\ et.tm_year = YearNo(q, r) /\ et.tm_mon = civil.month - 1
      /\ et.tm_mday = civil.mday + k /\ et.tm_hour = 0 /\ et.tm_min = 0 /\ et.tm_sec = s
      /\ et.tm_usec = 7
  BY <1>2 DEF YearNo
<1>6. Calendar!FromDate(civil.year, civil.month, civil.mday + k, 0, 0, s, 7)
        = [Calendar!time_to_gm(Calendar!gm_to_time(et)) EXCEPT !.tm_usec = et.tm_usec]
  BY DEF Calendar!FromDate, Calendar!normalize
<1> HIDE DEF et
<1>7. et.tm_mday \in Int /\ IntTime(et)
  BY <1>1, <1>5 DEF IntTime
<1>8. Calendar!gm_to_time(et)
        = Second(Days(q, r, Before(LeapOf(r), civil.month) + et.tm_mday - 1), OfDay(et))
  <2>1. PICK u : u = et
    OBVIOUS
  <2>2. PICK m \in 1 .. 12 : m = civil.month
    BY <1>1
  <2>3. u.tm_year = YearNo(q, r) /\ u.tm_mon = m - 1 /\ u.tm_mday \in Int /\ IntTime(u)
    BY <1>5, <1>7, <2>1, <2>2
  <2>4. Calendar!gm_to_time(u) = Second(Days(q, r, Before(LeapOf(r), m) + u.tm_mday - 1), OfDay(u))
    BY <2>3, GmToTime
  <2> QED
    BY <2>1, <2>2, <2>4
<1>9. OfDay(et) = s
  BY <1>1, <1>5 DEF OfDay
<1>10. Before(LeapOf(r), civil.month) + et.tm_mday - 1 = yd + k
  BY <1>1, <1>2, <1>4, <1>5
<1>11. Days(q, r, yd + k) = day + k
  BY <1>1, <1>2 DEF Days, DayAgrees
<1>12. Calendar!gm_to_time(et) = (day + k) * 86400 + s
  BY <1>8, <1>9, <1>10, <1>11 DEF Second
<1> QED
  BY <1>5, <1>6, <1>12

LEMMA FieldsOrderedRight ==
  ASSUME DayAgrees
  PROVE  Calendar!FieldsOrdered
<1> SUFFICES ASSUME NEW k \in Overflows, NEW s \in TimesOfDay, NEW r \in TimesOfDay
             PROVE  LET t1 == Calendar!At(s)
                        t2 == Calendar!time_to_gm((day + k) * 86400 + r)
                    IN /\ Calendar!compare(t1, t2) < 0 <=> s < k * 86400 + r
                       /\ Calendar!compare(t1, t2) > 0 <=> s > k * 86400 + r
                       /\ Calendar!gm_to_time(Calendar!set_time(t1, t2)) = day * 86400 + r
                       /\ Calendar!gm_to_time(Calendar!set_date(Calendar!get_time(t2), t1)) = day * 86400 + r
                       /\ Calendar!gm_to_time(Calendar!get_date(t1)) = day * 86400
  BY DEF Calendar!FieldsOrdered
<1>1. /\ day \in Nat /\ k \in Nat /\ s \in Nat /\ s < DaySeconds /\ r \in Nat /\ r < DaySeconds
  BY DayIsNat, TimesAre, CalendarAssumption
<1>2. PICK t1 : t1 = Calendar!At(s)
  OBVIOUS
<1>3. PICK e \in Nat : e = day + k
  BY <1>1
<1>4. PICK t2 : t2 = Calendar!time_to_gm(Second(e, r))
  OBVIOUS
<1>5. IsGm(t1, Second(day, s)) /\ IsGm(t2, Second(e, r))
  BY <1>1, <1>2, <1>4, AtIs, GmOfSeconds
<1>6. /\ Calendar!compare(t1, t2) < 0 <=> s < k * 86400 + r
      /\ Calendar!compare(t1, t2) > 0 <=> s > k * 86400 + r
  <2>1. PICK t \in Int : t = Second(day, s)
    BY <1>1 DEF Second
  <2>2. PICK w \in Int : w = Second(e, r)
    BY <1>1 DEF Second
  <2>3. /\ Calendar!compare(t1, t2) < 0 <=> t < w
        /\ Calendar!compare(t1, t2) > 0 <=> t > w
    BY <1>5, <2>1, <2>2, CompareOrders
  <2>4. (t < w <=> s < k * 86400 + r) /\ (t > w <=> s > k * 86400 + r)
    BY <1>1, <1>3, <2>1, <2>2 DEF Second
  <2> QED
    BY <2>3, <2>4
<1>7. OnDay(t1, day) /\ IntTime(t1)
  BY <1>1, <1>5, GmFields
<1>8. OfDay(t2) = r /\ IntTime(t2)
  BY <1>1, <1>5, GmFields
<1>9. /\ DOMAIN t1 = {"tm_sec", "tm_min", "tm_hour", "tm_wday", "tm_year", "tm_yday", "tm_mon",
                      "tm_mday", "tm_usec"}
      /\ DOMAIN t2 = {"tm_sec", "tm_min", "tm_hour", "tm_wday", "tm_year", "tm_yday", "tm_mon",
                      "tm_mday", "tm_usec"}
  BY <1>5 DEF IsGm, GmOf
<1>10. ASSUME NEW et, et.tm_year = t1.tm_year, et.tm_mon = t1.tm_mon, et.tm_mday = t1.tm_mday,
              IntTime(et)
       PROVE  Calendar!gm_to_time(et) = day * 86400 + OfDay(et)
  <2>1. OnDay(et, day)
    BY <1>7, <1>10 DEF OnDay
  <2> QED
    BY <1>1, <1>10, <2>1, DayWithTime DEF Second
<1>11. Calendar!gm_to_time(Calendar!set_time(t1, t2)) = day * 86400 + r
  <2>1. PICK et : et = Calendar!set_time(t1, t2)
    OBVIOUS
  <2>2. /\ et.tm_year = t1.tm_year /\ et.tm_mon = t1.tm_mon /\ et.tm_mday = t1.tm_mday
        /\ et.tm_hour = t2.tm_hour /\ et.tm_min = t2.tm_min /\ et.tm_sec = t2.tm_sec
    BY <1>9, <2>1 DEF Calendar!set_time
  <2>3. OfDay(et) = r /\ IntTime(et)
    BY <1>8, <2>2 DEF OfDay, IntTime
  <2> QED
    BY <1>10, <2>1, <2>2, <2>3
<1>12. Calendar!gm_to_time(Calendar!set_date(Calendar!get_time(t2), t1)) = day * 86400 + r
  <2>1. PICK et : et = Calendar!set_date(Calendar!get_time(t2), t1)
    OBVIOUS
  <2>2. /\ et.tm_year = t1.tm_year /\ et.tm_mon = t1.tm_mon /\ et.tm_mday = t1.tm_mday
        /\ et.tm_hour = t2.tm_hour /\ et.tm_min = t2.tm_min /\ et.tm_sec = t2.tm_sec
    BY <1>9, <2>1 DEF Calendar!set_date, Calendar!get_time
  <2>3. OfDay(et) = r /\ IntTime(et)
    BY <1>8, <2>2 DEF OfDay, IntTime
  <2> QED
    BY <1>10, <2>1, <2>2, <2>3
<1>13. Calendar!gm_to_time(Calendar!get_date(t1)) = day * 86400
  <2>1. PICK et : et = Calendar!get_date(t1)
    OBVIOUS
  <2>2. /\ et.tm_year = t1.tm_year /\ et.tm_mon = t1.tm_mon /\ et.tm_mday = t1.tm_mday
        /\ et.tm_hour = 0 /\ et.tm_min = 0 /\ et.tm_sec = 0
    BY <1>9, <2>1 DEF Calendar!get_date
  <2>3. OfDay(et) = 0 /\ IntTime(et)
    BY <2>2 DEF OfDay, IntTime
  <2>4. Calendar!gm_to_time(et) = day * 86400 + 0
    BY <1>10, <2>2, <2>3
  <2> QED
    BY <1>1, <2>1, <2>4
<1>14. t2 = Calendar!time_to_gm((day + k) * 86400 + r)
  BY <1>3, <1>4 DEF Second
<1> QED
  BY <1>2, <1>6, <1>11, <1>12, <1>13, <1>14

\* The date that NextDay goes to.
NextOf(c) ==
  IF c.mday < Calendar!MonthLength(c.year, c.month) THEN [c EXCEPT !.mday = @ + 1]
  ELSE IF c.month < 12 THEN [c EXCEPT !.month = @ + 1, !.mday = 1]
  ELSE [year |-> c.year + 1, month |-> 1, mday |-> 1]

\* The date after a date has the next number, unless it is beyond the years in question.
LEMMA NextDate ==
  ASSUME NEW c, IsDate(c), NEW n,
         n = NextOf(c)
  PROVE  \/ IsDate(n) /\ DayOf(n) = DayOf(c) + 1
         \/ c.year = 2099 /\ c.month = 12 /\ c.mday = 31
<1>1. /\ c.year \in 1970 .. 2099 /\ c.month \in 1 .. 12 /\ c.mday \in 1 .. 31
      /\ c.mday <= Calendar!MonthLength(c.year, c.month)
      /\ c = [year |-> c.year, month |-> c.month, mday |-> c.mday]
  BY DEF IsDate
<1>0. PICK q \in Nat, r \in 0 .. 3, yd \in Nat : DateOf(c, q, r, yd)
  BY DateIs
<1>2. /\ c.year = 1970 + q * 4 + r
      /\ yd = Before(LeapOf(r), c.month) + c.mday - 1
      /\ Calendar!MonthLength(c.year, c.month)
           = Before(LeapOf(r), c.month + 1) - Before(LeapOf(r), c.month)
      /\ DayOf(c) = Days(q, r, yd)
  BY <1>0 DEF DateOf
<1>3. LeapOf(r) \in {1, 2} /\ c.month \in 1 .. 13 /\ c.month + 1 \in 1 .. 13 /\ c.month # 13
  BY <1>1 DEF LeapOf
<1>4. /\ Before(LeapOf(r), c.month) \in Nat /\ Before(LeapOf(r), c.month + 1) \in Nat
      /\ Before(LeapOf(r), c.month + 1) - Before(LeapOf(r), c.month) \in 28 .. 31
  BY <1>3, MonthsInOrder
<1>5. CASE c.mday < Calendar!MonthLength(c.year, c.month)
  <2>10. n = [year |-> c.year, month |-> c.month, mday |-> c.mday + 1]
    <3>1. n = [c EXCEPT !.mday = @ + 1]
      BY <1>5 DEF NextOf
    <3> QED
      BY <1>1, <3>1
  <2>1. n.year = c.year /\ n.month = c.month /\ n.mday = c.mday + 1
    BY <2>10
  <2>2. n \in [year : 1970 .. 2099, month : 1 .. 12, mday : 1 .. 31]
    <3>1. n = [year |-> c.year, month |-> c.month, mday |-> c.mday + 1]
      BY <2>10
    <3>2. c.mday + 1 \in 1 .. 31
      BY <1>1, <1>2, <1>4, <1>5
    <3> QED
      BY <1>1, <3>1, <3>2
  <2>3. IsDate(n)
    BY <1>1, <1>2, <1>4, <1>5, <2>1, <2>2 DEF IsDate
  <2>0. PICK p \in Nat, o \in 0 .. 3, zd \in Nat : DateOf(n, p, o, zd)
    BY <2>3, DateIs
  <2>4. /\ n.year = 1970 + p * 4 + o
        /\ zd = Before(LeapOf(o), n.month) + n.mday - 1
        /\ DayOf(n) = Days(p, o, zd)
    BY <2>0 DEF DateOf
  <2>5. p = q /\ o = r
    BY <1>2, <2>1, <2>4
  <2>6. zd = yd + 1
    BY <1>1, <1>2, <1>4, <2>1, <2>4, <2>5
  <2> QED
    BY <1>2, <2>3, <2>4, <2>5, <2>6 DEF Days
<1>6. CASE c.mday = Calendar!MonthLength(c.year, c.month) /\ c.month < 12
  <2>10. n = [year |-> c.year, month |-> c.month + 1, mday |-> 1]
    <3>1. ~(c.mday < Calendar!MonthLength(c.year, c.month)) /\ c.month < 12
      BY <1>1, <1>6
    <3>2. n = [c EXCEPT !.month = @ + 1, !.mday = 1]
      BY <3>1 DEF NextOf
    <3>3. PICK u : u = [c EXCEPT !.month = @ + 1]
      OBVIOUS
    <3>4. u = [year |-> c.year, month |-> c.month + 1, mday |-> c.mday]
      BY <1>1, <3>3
    <3>5. n = [u EXCEPT !.mday = 1]
      BY <3>2, <3>3
    <3> QED
      BY <3>4, <3>5
  <2>1. n.year = c.year /\ n.month = c.month + 1 /\ n.mday = 1
    BY <2>10
  <2>2. n \in [year : 1970 .. 2099, month : 1 .. 12, mday : 1 .. 31]
    <3>1. n = [year |-> c.year, month |-> c.month + 1, mday |-> 1]
      BY <2>10
    <3>2. c.month + 1 \in 1 .. 12
      BY <1>1, <1>6
    <3> QED
      BY <1>1, <3>1, <3>2
  <2>3. IsDate(n)
    <3>1. Calendar!MonthLength(n.year, n.month) >= 1
      BY <2>2 DEF Calendar!MonthLength
    <3> QED
      BY <2>1, <2>2, <3>1 DEF IsDate
  <2>0. PICK p \in Nat, o \in 0 .. 3, zd \in Nat : DateOf(n, p, o, zd)
    BY <2>3, DateIs
  <2>4. /\ n.year = 1970 + p * 4 + o
        /\ zd = Before(LeapOf(o), n.month) + n.mday - 1
        /\ DayOf(n) = Days(p, o, zd)
    BY <2>0 DEF DateOf
  <2>5. p = q /\ o = r
    BY <1>2, <2>1, <2>4
  <2>6. zd = yd + 1
    BY <1>1, <1>2, <1>4, <1>6, <2>1, <2>4, <2>5
  <2> QED
    BY <1>2, <2>3, <2>4, <2>5, <2>6 DEF Days
<1>7. CASE c.mday = Calendar!MonthLength(c.year, c.month) /\ c.month = 12
  <2>1. Before(LeapOf(r), 12) = 333 + LeapOf(r) /\ Before(LeapOf(r), 13) = 364 + LeapOf(r)
        /\ Before(LeapOf(r), 12 + 1) = Before(LeapOf(r), 13)
    BY DEF Before
  <2>2. c.mday = 31 /\ yd = 363 + LeapOf(r)
    BY <1>1, <1>2, <1>3, <1>7, <2>1
  <2>3. ASSUME c.year # 2099
        PROVE  IsDate(n) /\ DayOf(n) = DayOf(c) + 1
    <3>1. n = [year |-> c.year + 1, month |-> 1, mday |-> 1]
      <4>1. ~(c.mday < Calendar!MonthLength(c.year, c.month)) /\ ~(c.month < 12)
        BY <1>1, <1>7
      <4> QED
        BY <4>1 DEF NextOf
    <3>2. c.year + 1 \in 1970 .. 2099
      BY <1>1, <2>3
    <3>3. n.year = c.year + 1 /\ n.month = 1 /\ n.mday = 1
      BY <3>1
    <3>4. n \in [year : 1970 .. 2099, month : 1 .. 12, mday : 1 .. 31]
      BY <3>1, <3>2
    <3>5. IsDate(n)
      <4>1. Calendar!MonthLength(n.year, n.month) >= 1
        BY <3>3 DEF Calendar!MonthLength
      <4> QED
        BY <3>3, <3>4, <4>1 DEF IsDate
    <3>0. PICK p \in Nat, o \in 0 .. 3, zd \in Nat : DateOf(n, p, o, zd)
      BY <3>5, DateIs
    <3>6. /\ n.year = 1970 + p * 4 + o
          /\ zd = Before(LeapOf(o), n.month) + n.mday - 1
          /\ DayOf(n) = Days(p, o, zd)
      BY <3>0 DEF DateOf
    <3>7. zd = 0
      <4>1. Before(LeapOf(o), 1) = 0
        BY DEF Before
      <4> QED
        BY <3>3, <3>6, <4>1
    <3>8. 1970 + p * 4 + o = 1970 + q * 4 + r + 1
      BY <1>2, <3>3, <3>6
    <3>9. CASE r = 3
      <4>1. p = q + 1 /\ o = 0
        BY <3>8, <3>9
      <4> QED
        BY <1>2, <2>2, <3>5, <3>6, <3>7, <3>9, <4>1 DEF Days, LeapOf
    <3>10. CASE r # 3
      <4>1. p = q /\ o = r + 1
        BY <3>8, <3>10
      <4> QED
        BY <1>2, <2>2, <3>5, <3>6, <3>7, <3>10, <4>1 DEF Days, LeapOf
    <3> QED
      BY <3>9, <3>10
  <2> QED
    BY <1>7, <2>2, <2>3
<1>8. Calendar!MonthLength(c.year, c.month) \in Int
  BY <1>2, <1>4
<1> QED
  BY <1>1, <1>5, <1>6, <1>7, <1>8

\* A date stays one of the calendar's, its number is the day, and a day to
\* stop at, before 2100, is not behind it.
CalendarInv == DayAgrees /\ \E stop \in Stops : stop \in day .. LastDay

LEMMA LastDayIs ==
  ASSUME NEW c, c.year = 2099, c.month = 12, c.mday = 31
  PROVE  DayOf(c) = LastDay
BY DEF LastDay, DayOf

LEMMA CalendarStarts == PartsInit => CalendarInv
<1> SUFFICES ASSUME PartsInit PROVE CalendarInv
  OBVIOUS
<1>1. PICK s \in Starts : day = s.day /\ civil = s.civil
  BY DEF PartsInit, Calendar!CalendarInit
<1>2. /\ s.civil \in [year : 1970 .. 2099, month : 1 .. 12, mday : 1 .. 31]
      /\ s.civil.mday <= Calendar!MonthLength(s.civil.year, s.civil.month)
      /\ s.day = DayOf(s.civil)
      /\ \E stop \in Stops : stop \in s.day .. LastDay
  BY CalendarAssumption
<1>3. DayAgrees
  BY <1>1, <1>2 DEF DayAgrees, IsDate
<1> QED
  BY <1>1, <1>2, <1>3 DEF CalendarInv

LEMMA NextDayIs ==
  ASSUME CalendarInv, Calendar!NextDay
  PROVE  CalendarInv'
<1>1. /\ day \notin Stops /\ day' = day + 1
      /\ civil' = IF civil.mday < Calendar!MonthLength(civil.year, civil.month)
                  THEN [civil EXCEPT !.mday = @ + 1]
                  ELSE IF civil.month < 12 THEN [civil EXCEPT !.month = @ + 1, !.mday = 1]
                  ELSE [year |-> civil.year + 1, month |-> 1, mday |-> 1]
  BY DEF Calendar!NextDay
<1>2. PICK stop \in Stops : stop \in day .. LastDay
  BY DEF CalendarInv
<1>3. day \in Nat /\ IsDate(civil) /\ day = DayOf(civil)
  BY DayIsNat DEF CalendarInv, DayAgrees
<1>4. stop \in Int /\ LastDay \in Int /\ day < stop /\ stop <= LastDay
  <2>1. LastDay \in Int
    BY DEF LastDay, DayOf, Calendar!DAYS
  <2> QED
    BY <1>1, <1>2, <1>3, <2>1
<1>5. PICK c : c = civil
  OBVIOUS
<1>6. PICK n : n = civil'
  OBVIOUS
<1>7. IsDate(c) /\ day = DayOf(c)
  BY <1>3, <1>5
<1>8. n = NextOf(c)
  BY <1>1, <1>5, <1>6 DEF NextOf
<1>9. \/ IsDate(n) /\ DayOf(n) = DayOf(c) + 1
      \/ c.year = 2099 /\ c.month = 12 /\ c.mday = 31
  BY <1>7, <1>8, NextDate
<1>10. ~(c.year = 2099 /\ c.month = 12 /\ c.mday = 31)
  BY <1>4, <1>7, LastDayIs
<1>11. IsDate(n) /\ DayOf(n) = day'
  BY <1>1, <1>7, <1>9, <1>10
<1>12. stop \in day' .. LastDay
  BY <1>1, <1>3, <1>4
<1>13. LastDay' = LastDay /\ Stops' = Stops
  BY DEF LastDay, DayOf, Calendar!DAYS
<1> QED
  BY <1>6, <1>11, <1>12, <1>13 DEF CalendarInv, DayAgrees

LEMMA CalendarStep ==
  CalendarInv /\ [PartsNext]_<<part, aloneVars, sharedVars, pollerVars>> => CalendarInv'
<1> SUFFICES ASSUME CalendarInv, [PartsNext]_<<part, aloneVars, sharedVars, pollerVars>>
             PROVE  CalendarInv'
  OBVIOUS
<1>1. Calendar!NextDay \/ UNCHANGED <<day, civil>>
  BY DEF PartsNext, AloneNext, aloneVars
<1>2. CASE Calendar!NextDay
  BY <1>2, NextDayIs
<1>3. CASE UNCHANGED <<day, civil>>
  BY <1>3 DEF CalendarInv, DayAgrees, IsDate, DayOf, LastDay, Calendar!DAYS, Calendar!MonthLength,
              Calendar!Leap
<1> QED
  BY <1>1, <1>2, <1>3

LEMMA CalendarImplies == CalendarInv => CalendarRight
BY CivilRight, BackAgainRight, NormalizesRight, FieldsOrderedRight DEF CalendarInv, CalendarRight

\* For any dates to start from in the years 1970 to 2099, days to stop at and
\* times of the day: the fields of a time are its date and its time of day,
\* gm_to_time is the inverse of time_to_gm, normalize() carries too many days
\* into the date, and times compare as their fields do.
THEOREM CalendarIsRight == PartsSpec => []CalendarRight
<1>1. PartsInit => CalendarInv
  BY CalendarStarts
<1>2. CalendarInv /\ [PartsNext]_<<part, aloneVars, sharedVars, pollerVars>> => CalendarInv'
  BY CalendarStep
<1>3. CalendarInv => CalendarRight
  BY CalendarImplies
<1> QED
  BY <1>1, <1>2, <1>3, PTL DEF PartsSpec
=============================================================================
