-------------------------------- MODULE Date --------------------------------
(***************************************************************************)
(* leanet::Date (src/leanet/date.cc, date.h): a day as its Julian day      *)
(* number, converted to and from the Gregorian calendar by divisions of    *)
(* integers alone.  Beside it walks the calendar that everybody knows, the *)
(* one of isLeapYear and daysOfMonth in test/date_unittest.cc: a behaviour *)
(* takes the days of one year in turn, up to the first of the next.        *)
(*                                                                         *)
(* For the dates from 1900 on, which date.h allows, every dividend is      *)
(* positive, so that \div is C's division.                                 *)
(***************************************************************************)
EXTENDS Integers

CONSTANT Years        \* bound: the years that are walked

kDaysPerWeek == 7

(* Mutation: years begin in February.                                      *)
getJulianDayNumberLate(year, month, day) ==
    LET a == (13 - month) \div 12
        y == year + 4800 - a
        m == month + 12 * a - 3
    IN  day + (153 * m + 2) \div 5 + y * 365
            + y \div 4 - y \div 100 + y \div 400 - 32045

(* Years begin in March, so that the leap day is a year's last.            *)
getJulianDayNumber(year, month, day) ==
    LET a == (14 - month) \div 12
        y == year + 4800 - a
        m == month + 12 * a - 3
    IN  day + (153 * m + 2) \div 5 + y * 365
            + y \div 4 - y \div 100 + y \div 400 - 32045

getYearMonthDay(julianDayNumber) ==
    LET a == julianDayNumber + 32044
        b == (4 * a + 3) \div 146097
        c == a - (b * 146097) \div 4
        d == (4 * c + 3) \div 1461
        e == c - (1461 * d) \div 4
        m == (5 * e + 2) \div 153
    IN  [year |-> b * 100 + d - 4800 + m \div 10,
         month |-> m + 3 - 12 * (m \div 10),
         day |-> e - (153 * m + 2) \div 5 + 1]

weekDay(julianDayNumber) == (julianDayNumber + 1) % kDaysPerWeek

kJulianDayOf1970_01_01 == getJulianDayNumber(1970, 1, 1)

-----------------------------------------------------------------------------
isLeapYear(year) == year % 400 = 0 \/ (year % 4 = 0 /\ year % 100 # 0)

daysOfMonth(year, month) ==
    IF month = 2 THEN IF isLeapYear(year) THEN 29 ELSE 28
    ELSE IF month \in {4, 6, 9, 11} THEN 30 ELSE 31

TheDay(year, month, day) == [year |-> year, month |-> month, day |-> day]

DayAfter(d) ==
    IF d.day < daysOfMonth(d.year, d.month) THEN [d EXCEPT !.day = @ + 1]
    ELSE IF d.month < 12 THEN TheDay(d.year, d.month + 1, 1)
    ELSE TheDay(d.year + 1, 1, 1)

VARIABLES julianDateNumber,   \* Date::julianDateNumber_
          today,              \* the calendar's date
          weekday             \* the calendar's day of the week, 0 for Sunday

vars == <<julianDateNumber, today, weekday>>

Init ==
    \E year \in Years :
        /\ today = TheDay(year, 1, 1)
        /\ julianDateNumber = getJulianDayNumber(year, 1, 1)
        /\ weekday = weekDay(getJulianDayNumber(year, 1, 1))

NextDay ==
    /\ today.year \in Years
    /\ today' = DayAfter(today)
    /\ julianDateNumber' = julianDateNumber + 1
    /\ weekday' = (weekday + 1) % 7

Spec == Init /\ [][NextDay]_vars

-----------------------------------------------------------------------------
(* Day numbers and dates are each other's inverses on every day, the day   *)
(* after a date has the next number over the ends of months, years and     *)
(* centuries, leap or not, and the week goes on through them all; it began *)
(* where the test says, on Thursday 2018-05-17.                            *)
CalendarAgrees ==
    /\ getJulianDayNumber(today.year, today.month, today.day) = julianDateNumber
    /\ getYearMonthDay(julianDateNumber) = today
    /\ weekDay(julianDateNumber) = weekday
    /\ today = TheDay(2018, 5, 17) => weekday = 4
=============================================================================
