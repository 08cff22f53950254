------------------------------ MODULE TimeArith ------------------------------
(***************************************************************************)
(* Gears::Time (gears/Time.hpp): a signed number of microseconds, kept as  *)
(* seconds of either sign and microseconds from 0 to USEC_MAX - 1.  The    *)
(* state machine is one Time object under the operators of its class;      *)
(* exact is the number of microseconds that mathematics gives for the same *)
(* operations.                                                             *)
(***************************************************************************)
EXTENDS Integers

CONSTANTS
  USEC_MAX,     \* microseconds of a second (10^6 in the code)
  Operands,     \* times that are added and subtracted
  Numbers,      \* seconds, multipliers and divisors
  TimeBound,    \* bound of the model: |exact| for which operations go on
  INT32         \* 2^31 in the code: pack() keeps this many seconds each way

ASSUME TimeAssumption ==
  /\ USEC_MAX \in Nat \ {0}
  /\ Operands \subseteq [tv_sec : Int, tv_usec : 0 .. USEC_MAX - 1]
  /\ Numbers \subseteq Int
  /\ TimeBound \in Nat
  /\ INT32 \in Nat \ {0} /\ USEC_MAX <= INT32

VARIABLES time, exact

timeVars == <<time, exact>>

Time(sec, usec) == [tv_sec |-> sec, tv_usec |-> usec]

microseconds(t) == t.tv_sec * USEC_MAX + t.tv_usec

NegateMicros(t) == Time(-t.tv_sec, t.tv_usec)

Negate(t) == IF t.tv_usec # 0 THEN Time(-t.tv_sec - 1, USEC_MAX - t.tv_usec)
             ELSE Time(-t.tv_sec, 0)

AbsTime(t) == IF t.tv_sec < 0 THEN Negate(t) ELSE t

PlusLate(t, u) ==
  IF t.tv_usec + u.tv_usec > USEC_MAX
  THEN Time(t.tv_sec + u.tv_sec + 1, t.tv_usec + u.tv_usec - USEC_MAX)
  ELSE Time(t.tv_sec + u.tv_sec, t.tv_usec + u.tv_usec)

Plus(t, u) ==
  IF t.tv_usec + u.tv_usec >= USEC_MAX
  THEN Time(t.tv_sec + u.tv_sec + 1, t.tv_usec + u.tv_usec - USEC_MAX)
  ELSE Time(t.tv_sec + u.tv_sec, t.tv_usec + u.tv_usec)

PlusSec(t, s) == Time(t.tv_sec + s, t.tv_usec)

Minus(t, u) ==
  IF t.tv_usec < u.tv_usec
  THEN Time(t.tv_sec - u.tv_sec - 1, USEC_MAX + t.tv_usec - u.tv_usec)
  ELSE Time(t.tv_sec - u.tv_sec, t.tv_usec - u.tv_usec)

MinusSec(t, s) == Time(t.tv_sec - s, t.tv_usec)

AbsInt(n) == IF n < 0 THEN -n ELSE n

\* Helper::mul and Helper::div, for times and numbers that are not negative.
Mul(t, n) == Time(t.tv_sec * n + (t.tv_usec * n) \div USEC_MAX,
                  (t.tv_usec * n) % USEC_MAX)

Div(t, n) == Time(t.tv_sec \div n,
                  ((t.tv_sec - (t.tv_sec \div n) * n) * USEC_MAX + t.tv_usec) \div n)

Multiplied(t, n) ==
  IF (t.tv_sec < 0) <=> (n < 0) THEN Mul(AbsTime(t), AbsInt(n))
  ELSE Negate(Mul(AbsTime(t), AbsInt(n)))

DividedBySign(t, n) ==
  IF t.tv_sec < 0 THEN Negate(Div(AbsTime(t), AbsInt(n)))
  ELSE Div(t, AbsInt(n))

Divided(t, n) ==
  IF (t.tv_sec < 0) <=> (n < 0) THEN Div(AbsTime(t), AbsInt(n))
  ELSE Negate(Div(AbsTime(t), AbsInt(n)))

LessByParts(t, u) == t.tv_sec < u.tv_sec \/ t.tv_usec < u.tv_usec

Less(t, u) == \/ t.tv_sec < u.tv_sec
              \/ t.tv_sec = u.tv_sec /\ t.tv_usec < u.tv_usec

Equal(t, u) == t.tv_sec = u.tv_sec /\ t.tv_usec = u.tv_usec

PrintOf(s, i, f) == [sign |-> s, integer_part |-> i, fractional_part |-> f]

PrintParts(t) ==
  PrintOf(IF t.tv_sec < 0 THEN -1 ELSE 1, AbsInt(t.tv_sec), t.tv_usec)

print(t) ==
  IF t.tv_sec > 0 THEN PrintOf(1, t.tv_sec, t.tv_usec)
  ELSE IF t.tv_sec < 0
       THEN IF t.tv_usec # 0
            THEN PrintOf(-1, -t.tv_sec - 1, USEC_MAX - t.tv_usec)
            ELSE PrintOf(-1, -t.tv_sec, 0)
       ELSE PrintOf(IF t.tv_usec # 0 THEN 1 ELSE 0, 0, t.tv_usec)

\* static_cast<int32_t>
Int32(n) == ((n + INT32) % (2 * INT32)) - INT32

packUnsigned(t) == <<t.tv_sec % (2 * INT32), Int32(t.tv_usec)>>

pack(t) == <<Int32(t.tv_sec), Int32(t.tv_usec)>>

unpack(buf) == Time(buf[1], buf[2])

-----------------------------------------------------------------------------
TimeInit == time = Time(0, 0) /\ exact = 0

Bounded == AbsInt(exact) <= TimeBound

InvertSign == /\ Bounded
              /\ time' = Negate(time) /\ exact' = -exact

AddAssign == \E u \in Operands :
               /\ Bounded
               /\ time' = Plus(time, u) /\ exact' = exact + microseconds(u)

SubAssign == \E u \in Operands :
               /\ Bounded
               /\ time' = Minus(time, u) /\ exact' = exact - microseconds(u)

AddSecAssign == \E s \in Numbers :
                  /\ Bounded
                  /\ time' = PlusSec(time, s) /\ exact' = exact + s * USEC_MAX

SubSecAssign == \E s \in Numbers :
                  /\ Bounded
                  /\ time' = MinusSec(time, s) /\ exact' = exact - s * USEC_MAX

MulAssign == \E n \in Numbers :
               /\ Bounded
               /\ time' = Multiplied(time, n) /\ exact' = exact * n

\* The quotient, cut towards zero.
Quotient(e, n) == IF (e < 0) <=> (n < 0) THEN AbsInt(e) \div AbsInt(n)
                  ELSE -(AbsInt(e) \div AbsInt(n))

DivAssign == \E n \in Numbers \ {0} :
               /\ Bounded
               /\ time' = Divided(time, n) /\ exact' = Quotient(exact, n)

TimeNext == \/ InvertSign
            \/ AddAssign
            \/ SubAssign
            \/ AddSecAssign
            \/ SubSecAssign
            \/ MulAssign
            \/ DivAssign

TimeSpec == TimeInit /\ [][TimeNext]_timeVars

-----------------------------------------------------------------------------
\* "tv_usec is between 0 and 1000000 (USEC_MAX) always" (Time.hpp:23), the
\* second excluded: every operator gives a normal time.
Normal == time \in [tv_sec : Int, tv_usec : 0 .. USEC_MAX - 1] /\ exact \in Int

\* "Total time in microseconds is (tv_sec * USEC_MAX + tv_usec)": carries,
\* borrows and signs of sums, products and quotients agree with arithmetic.
Exact == microseconds(time) = exact

\* Comparison of the two fields is the order of the times.
OrderExact == \A u \in Operands : /\ Less(time, u) <=> exact < microseconds(u)
                                  /\ Equal(time, u) <=> exact = microseconds(u)

\* print(): "-1, 0 or 1" and two parts that are not negative give the time.
PrintExact ==
  LET p == print(time) IN
  /\ p.integer_part \in Nat /\ p.fractional_part \in 0 .. USEC_MAX - 1
  /\ p.sign * (p.integer_part * USEC_MAX + p.fractional_part) = exact
  /\ p.sign = (IF exact > 0 THEN 1 ELSE IF exact < 0 THEN -1 ELSE 0)

\* unpack() gives back what pack() took, for seconds that int32_t can hold.
PackExact == time.tv_sec \in -INT32 .. INT32 - 1 => unpack(pack(time)) = time

\* Times are the numbers that arithmetic gives, and compare, print and pack as
\* those numbers.
ReadsAsNumber == Normal /\ Exact /\ OrderExact /\ PrintExact /\ PackExact
=============================================================================
