----------------------------- MODULE ExtendedTime -----------------------------
(***************************************************************************)
(* Gears::ExtendedTime (gears/Time.hpp, gears/Time.cpp): the calendar that *)
(* gm_to_time and time_to_gm compute, and the formatter and parser of it.  *)
(* The state machine is the calendar itself, day by day by the Gregorian   *)
(* rule; the definitions of the code are compared with it.                 *)
(* A text is a sequence of characters, except that the short name of a     *)
(* month or day is one character, and so is what the full name adds to it; *)
(* names are compared regardless of case, which is left out.               *)
(***************************************************************************)
EXTENDS Integers, Sequences, FiniteSets, SequencesExt

CONSTANTS
  Starts,       \* days from which the calendar is followed, with their dates
  Stops,        \* bound of the model: days at which it is left
  TimesOfDay,   \* seconds within a day that are tried
  Formats,      \* formats that are printed and parsed
  Overflows     \* numbers of days added to a date before normalize()

VARIABLES day, civil

calendarVars == <<day, civil>>

DAYS == << <<0, 31, 59, 90, 120, 151, 181, 212, 243, 273, 304, 334>>,
           <<0, 31, 60, 91, 121, 152, 182, 213, 244, 274, 305, 335>> >>

gm_to_time_late(et) ==
  LET YEARS == et.tm_year - 70
      leap == IF YEARS % 4 = 2 THEN 2 ELSE 1
  IN (YEARS * 365 + YEARS \div 4 + DAYS[leap][et.tm_mon + 1] + et.tm_mday - 1) * 86400
       + et.tm_hour * 3600 + et.tm_min * 60 + et.tm_sec

gm_to_time(et) ==
  LET YEARS == et.tm_year - 70
      leap == IF YEARS % 4 = 2 THEN 2 ELSE 1
  IN (YEARS * 365 + (YEARS + 1) \div 4 + DAYS[leap][et.tm_mon + 1] + et.tm_mday - 1) * 86400
       + et.tm_hour * 3600 + et.tm_min * 60 + et.tm_sec

YearOfCycleShort(d) == IF d >= 365 * 3 THEN <<3, d - 365 * 3>>
                       ELSE IF d >= 365 * 2 THEN <<2, d - 365 * 2>>
                       ELSE IF d >= 365 THEN <<1, d - 365>> ELSE <<0, d>>

\* The year of a cycle of four, and the day in it: the third one is leap.
YearOfCycle(d) == IF d >= 365 * 3 + 1 THEN <<3, d - (365 * 3 + 1)>>
                  ELSE IF d >= 365 * 2 THEN <<2, d - 365 * 2>>
                  ELSE IF d >= 365 THEN <<1, d - 365>> ELSE <<0, d>>

\* std::lower_bound over the first days of the months, less one.
MonthOf(leap, yday) ==
  CHOOSE m \in 1 .. 12 : /\ DAYS[leap][m] < yday + 1
                         /\ m < 12 => DAYS[leap][m + 1] >= yday + 1

time_to_gm(t) ==
  LET d == t \div 86400
      y == YearOfCycle(d % (4 * 365 + 1))
      leap == IF y[1] = 2 THEN 2 ELSE 1
      m == MonthOf(leap, y[2])
  IN [tm_sec |-> t % 60, tm_min |-> (t \div 60) % 60, tm_hour |-> (t \div 3600) % 24,
      tm_wday |-> (d + 4) % 7, tm_year |-> (d \div (4 * 365 + 1)) * 4 + y[1] + 70,
      tm_yday |-> y[2], tm_mon |-> m - 1, tm_mday |-> y[2] + 1 - DAYS[leap][m], tm_usec |-> 0]

normalize(et) == [time_to_gm(gm_to_time(et)) EXCEPT !.tm_usec = et.tm_usec]

FromDate(year, mon, mday, hour, min, sec, usec) ==
  normalize([tm_year |-> year - 1900, tm_mon |-> mon - 1, tm_mday |-> mday,
             tm_hour |-> hour, tm_min |-> min, tm_sec |-> sec, tm_usec |-> usec])

set_time_coarse(et, u) == [et EXCEPT !.tm_hour = u.tm_hour, !.tm_min = u.tm_min]

set_time(et, u) == [et EXCEPT !.tm_hour = u.tm_hour, !.tm_min = u.tm_min,
                              !.tm_sec = u.tm_sec, !.tm_usec = u.tm_usec]

set_date(et, u) == [et EXCEPT !.tm_mday = u.tm_mday, !.tm_mon = u.tm_mon,
                              !.tm_year = u.tm_year]

\* The time of day alone, whose date is none, and the date alone.
get_time(et) == [et EXCEPT !.tm_mday = 0, !.tm_mon = 0, !.tm_wday = 0, !.tm_yday = 0,
                           !.tm_year = 0]

get_date(et) == [et EXCEPT !.tm_hour = 0, !.tm_min = 0, !.tm_sec = 0, !.tm_usec = 0]

\* Time::compare: the first field that differs.
CompareFields == <<"tm_year", "tm_mon", "tm_mday", "tm_hour", "tm_min", "tm_sec">>

compare(t1, t2) ==
  LET diff(i) == t1[CompareFields[i]] - t2[CompareFields[i]]
      First(i) == diff(i) # 0 /\ \A j \in 1 .. i - 1 : diff(j) = 0
  IN IF \E i \in 1 .. 6 : First(i) THEN diff(CHOOSE i \in 1 .. 6 : First(i)) ELSE 0

-----------------------------------------------------------------------------
(* Text.                                                                   *)

Digits == <<"0", "1", "2", "3", "4", "5", "6", "7", "8", "9">>
IsDigit(c) == \E i \in 1 .. 10 : Digits[i] = c
DigitValue(c) == (CHOOSE i \in 1 .. 10 : Digits[i] = c) - 1

DAYS_ == << <<"Sun">>, <<"Mon">>, <<"Tue">>, <<"Wed">>, <<"Thu">>, <<"Fri">>, <<"Sat">> >>
DAYS_FULL_ == << <<"Sun", "day">>, <<"Mon", "day">>, <<"Tue", "sday">>, <<"Wed", "nesday">>,
                 <<"Thu", "rsday">>, <<"Fri", "day">>, <<"Sat", "urday">> >>
MONTHS_ == << <<"Jan">>, <<"Feb">>, <<"Mar">>, <<"Apr">>, <<"May">>, <<"Jun">>, <<"Jul">>,
              <<"Aug">>, <<"Sep">>, <<"Oct">>, <<"Nov">>, <<"Dec">> >>
MONTHS_FULL_ == << <<"Jan", "uary">>, <<"Feb", "ruary">>, <<"Mar", "ch">>, <<"Apr", "il">>,
                   <<"May">>, <<"Jun", "e">>, <<"Jul", "y">>, <<"Aug", "ust">>,
                   <<"Sep", "tember">>, <<"Oct", "ober">>, <<"Nov", "ember">>, <<"Dec", "ember">> >>

\* add_num<SIZE>: the last SIZE digits.
add_num(n, SIZE) == [i \in 1 .. SIZE |-> Digits[((n \div (10 ^ (SIZE - i))) % 10) + 1]]

\* add_num: as many digits as the number has.
add_plain(n) ==
  add_num(n, CHOOSE k \in 1 .. 10 : (k < 10 => n < 10 ^ k) /\ (k > 1 => n >= 10 ^ (k - 1)))

Image(et, f) ==
  CASE f = "%%" -> <<"%">>
    [] f = "%a" -> DAYS_[et.tm_wday + 1]
    [] f = "%A" -> DAYS_FULL_[et.tm_wday + 1]
    [] f \in {"%b", "%h"} -> MONTHS_[et.tm_mon + 1]
    [] f = "%B" -> MONTHS_FULL_[et.tm_mon + 1]
    [] f = "%d" -> add_num(et.tm_mday, 2)
    [] f = "%e" -> <<IF et.tm_mday < 10 THEN " " ELSE Digits[et.tm_mday \div 10 + 1],
                     Digits[(et.tm_mday % 10) + 1]>>
    [] f = "%F" -> add_num(et.tm_year + 1900, 4) \o <<"-">> \o add_num(et.tm_mon + 1, 2)
                     \o <<"-">> \o add_num(et.tm_mday, 2)
    [] f = "%H" -> add_num(et.tm_hour, 2)
    [] f = "%k" -> add_plain(et.tm_hour)
    [] f = "%m" -> add_num(et.tm_mon + 1, 2)
    [] f = "%M" -> add_num(et.tm_min, 2)
    [] f = "%q" -> add_num(et.tm_usec, 6)
    [] f = "%s" -> add_plain(gm_to_time(et))
    [] f = "%S" -> add_num(et.tm_sec, 2)
    [] f = "%T" -> add_num(et.tm_hour, 2) \o <<":">> \o add_num(et.tm_min, 2)
                     \o <<":">> \o add_num(et.tm_sec, 2)
    [] f = "%Y" -> add_num(et.tm_year + 1900, 4)
    [] f = "%z" -> <<"+", "0", "0", "0", "0">>
    [] OTHER -> <<f>>

\* The empty text is the failure: the buffer of length is too short.
to_str_(et, length, format) ==
  LET out == FlattenSeq([i \in 1 .. Len(format) |-> Image(et, format[i])])
  IN IF Len(out) > length THEN <<>> ELSE out

\* read_number<SIZE>: at most SIZE digits, and all of them if strict.
Digits1(src, SIZE) ==
  CHOOSE k \in 0 .. SIZE :
    /\ k <= Len(src) /\ \A i \in 1 .. k : IsDigit(src[i])
    /\ k < SIZE /\ k < Len(src) => ~IsDigit(src[k + 1])

read_number(src, SIZE, strict) ==
  LET k == Digits1(src, SIZE)
  IN [ok |-> k > 0 /\ (strict => k = SIZE),
      number |-> FoldLeft(LAMBDA n, c : n * 10 + DigitValue(c), 0, SubSeq(src, 1, k)),
      rest |-> SubSeq(src, k + 1, Len(src))]

\* The field a directive reads, its digits, its least and greatest value, and
\* what is taken off before the value is kept.
Numeric == [f \in {"%d", "%e", "%H", "%m", "%M", "%q", "%S", "%Y"} |->
  CASE f \in {"%d", "%e"} -> <<"tm_mday", 2, 1, 31, 0>>
    [] f = "%H" -> <<"tm_hour", 2, 0, 23, 0>>
    [] f = "%m" -> <<"tm_mon", 2, 1, 12, 1>>
    [] f = "%M" -> <<"tm_min", 2, 0, 59, 0>>
    [] f = "%q" -> <<"tm_usec", 6, 0, 999999, 0>>
    [] f = "%S" -> <<"tm_sec", 2, 0, 59, 0>>
    [] f = "%Y" -> <<"tm_year", 4, 1970, 9999, 1900>>]

check_names_short(src, full, short) ==
  IF IsPrefix(short, src) THEN SubSeq(src, Len(short) + 1, Len(src))
  ELSE <<"none">>

\* check_names: the full name first, because the short one begins it.
check_names(src, full, short) ==
  IF IsPrefix(full, src) THEN SubSeq(src, Len(full) + 1, Len(src))
  ELSE IF IsPrefix(short, src) THEN SubSeq(src, Len(short) + 1, Len(src))
  ELSE <<"none">>

Matching(src, full, short) ==
  {i \in DOMAIN full : check_names(src, full[i], short[i]) # <<"none">>}

Failed(s) == [s EXCEPT !.ok = FALSE]

ParseName(s, f) ==
  LET full == IF f \in {"%a", "%A"} THEN DAYS_FULL_ ELSE MONTHS_FULL_
      short == IF f \in {"%a", "%A"} THEN DAYS_ ELSE MONTHS_
      found == Matching(s.rest, full, short)
  IN IF found = {} THEN Failed(s)
     ELSE LET i == CHOOSE i \in found : \A j \in found : i <= j
              t == [s EXCEPT !.rest = check_names(s.rest, full[i], short[i])]
          IN IF f \in {"%a", "%A"} THEN t ELSE [t EXCEPT !.et.tm_mon = i - 1]

ParseNumber(s, f, strict) ==
  LET r == read_number(s.rest, Numeric[f][2], strict)
  IN IF r.ok /\ r.number \in Numeric[f][3] .. Numeric[f][4]
     THEN [s EXCEPT !.et = [@ EXCEPT ![Numeric[f][1]] = r.number - Numeric[f][5]],
                    !.rest = r.rest]
     ELSE Failed(s)

ParseChar(s, c, strict) ==
  IF ~strict /\ c = " "
  THEN [s EXCEPT !.rest = LET k == CHOOSE k \in 0 .. Len(s.rest) :
                                /\ \A i \in 1 .. k : s.rest[i] = " "
                                /\ k < Len(s.rest) => s.rest[k + 1] # " "
                          IN SubSeq(s.rest, k + 1, Len(s.rest))]
  ELSE IF s.rest # <<>> /\ Head(s.rest) = c THEN [s EXCEPT !.rest = Tail(@)] ELSE Failed(s)

ParseDirective(s, f, strict) ==
  IF ~s.ok THEN s
  ELSE IF f \in {"%a", "%A", "%b", "%B", "%h"} THEN ParseName(s, f)
  ELSE IF f \in DOMAIN Numeric THEN ParseNumber(s, f, strict)
  ELSE IF f \in {"%F", "%k", "%T", "%s", "%z"} THEN Failed(s)
  ELSE ParseChar(s, IF f = "%%" THEN "%" ELSE f, strict)

from_str_(et, value, format, strict) ==
  FoldLeft(LAMBDA s, f : ParseDirective(s, f, strict),
           [et |-> et, rest |-> value, ok |-> TRUE], format)

\* Time::set: the epoch with the fields that the format reads.
set(value, format, strict) ==
  LET s == from_str_(time_to_gm(0), value, format, strict)
  IN [ok |-> s.ok, sec |-> gm_to_time(s.et), usec |-> s.et.tm_usec]

\* Time::month knows the short names of months, Time::week_day both names of days.
month(mon) == (CHOOSE i \in 1 .. 12 : mon = MONTHS_[i]) - 1
week_day(name) == (CHOOSE i \in 1 .. 7 : name = DAYS_[i] \/ name = DAYS_FULL_[i]) - 1

-----------------------------------------------------------------------------
Leap(year) == year % 4 = 0 /\ (year % 100 = 0 => year % 400 = 0)

MonthLength(year, mon) ==
  CASE mon = 2 -> IF Leap(year) THEN 29 ELSE 28
    [] mon \in {4, 6, 9, 11} -> 30
    [] OTHER -> 31

CalendarInit == \E s \in Starts : day = s.day /\ civil = s.civil

NextDay ==
  /\ day \notin Stops
  /\ day' = day + 1
  /\ civil' = IF civil.mday < MonthLength(civil.year, civil.month)
              THEN [civil EXCEPT !.mday = @ + 1]
              ELSE IF civil.month < 12 THEN [civil EXCEPT !.month = @ + 1, !.mday = 1]
              ELSE [year |-> civil.year + 1, month |-> 1, mday |-> 1]

CalendarSpec == CalendarInit /\ [][NextDay]_calendarVars

-----------------------------------------------------------------------------
At(s) == time_to_gm(day * 86400 + s)

\* "gmtime_r(3) analogue" (Time.hpp:473): the date of each second is that of
\* the calendar, within the years the model visits (see Stops).
CivilAgrees ==
  \A s \in TimesOfDay :
    LET et == At(s) IN
    /\ <<et.tm_year + 1900, et.tm_mon + 1, et.tm_mday>>
         = <<civil.year, civil.month, civil.mday>>
    /\ et.tm_hour * 3600 + et.tm_min * 60 + et.tm_sec = s
    /\ et.tm_sec \in 0 .. 59 /\ et.tm_min \in 0 .. 59 /\ et.tm_hour \in 0 .. 23

\* "timegm(3) analogue" (Time.hpp:465): the conversion back.
BackAgain == \A s \in TimesOfDay : gm_to_time(At(s)) = day * 86400 + s

\* "32nd of October becomes 1st of November" (Time.hpp:414): a day beyond the
\* end of its month is normalised to the day it stands for.
Normalizes ==
  \A k \in Overflows : \A s \in TimesOfDay :
    LET u == FromDate(civil.year, civil.month, civil.mday + k, 0, 0, s, 7)
    IN u = [time_to_gm((day + k) * 86400 + s) EXCEPT !.tm_usec = 7]

\* Times compare as their fields do, and the date of one with the time of day
\* of another is the time of that day.
FieldsOrdered ==
  \A k \in Overflows : \A s, r \in TimesOfDay :
    LET t1 == At(s)
        t2 == time_to_gm((day + k) * 86400 + r)
    IN /\ compare(t1, t2) < 0 <=> s < k * 86400 + r
       /\ compare(t1, t2) > 0 <=> s > k * 86400 + r
       /\ gm_to_time(set_time(t1, t2)) = day * 86400 + r
       /\ gm_to_time(set_date(get_time(t2), t1)) = day * 86400 + r
       /\ gm_to_time(get_date(t1)) = day * 86400

\* A time printed in a format is parsed back from it, strictly or not: exactly
\* for what the format holds.
FormatParses ==
  \A s \in TimesOfDay : \A f \in Formats : \A strict \in BOOLEAN :
    LET et == [At(s) EXCEPT !.tm_usec = s]
        got == set(to_str_(et, 256, f.format), f.format, strict)
    IN /\ got.ok
       /\ got.sec = (IF f.date THEN day * 86400 ELSE 0) + (IF f.time THEN s ELSE 0)
       /\ got.usec = (IF f.usec THEN s ELSE 0)
       /\ month(to_str_(et, 256, <<"%b">>)) = et.tm_mon
       /\ week_day(to_str_(et, 256, <<"%a">>)) = et.tm_wday
       /\ week_day(to_str_(et, 256, <<"%A">>)) = et.tm_wday
=============================================================================
