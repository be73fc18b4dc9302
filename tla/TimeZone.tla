------------------------------ MODULE TimeZone ------------------------------
(***************************************************************************)
(* leanet::TimeZone (src/leanet/timezone.cc): UTC times computed from the  *)
(* Julian days of Date, and local times found in the transitions of a      *)
(* zone.  A struct tm of a local time is the number that its fields spell  *)
(* as if they were UTC, with tm_isdst.                                     *)
(*                                                                         *)
(* A behaviour looks at one zone at the instants around its transitions.   *)
(* Bound: the transitions lie in 1970~2037, where a time_t fits the 32     *)
(* bits of TLC's integers.                                                 *)
(***************************************************************************)
EXTENDS Date, CArithmetic, Sequences

CONSTANTS
    ZoneFiles,    \* the zones: trans, types and, for each of trans, its type
    Around,       \* bound: seconds before and after a transition
    Step          \* bound: seconds between two instants

kSecondsPerDay == 86400

-----------------------------------------------------------------------------
Localtime(gmtOffset, isDst) == [gmtOffset |-> gmtOffset, isDst |-> isDst]

(* Each transition keeps its instant, the local time that it sets, and the *)
(* index of its Localtime.                                                 *)
parseTimeZoneFile(file) ==
    [localtimes |-> file.types,
     transitions |->
        [i \in DOMAIN file.trans |->
            [gmtime |-> file.trans[i],
             localtime |-> file.trans[i] + file.types[file.idx[i]].gmtOffset,
             localtimeIdx |-> file.idx[i]]]]

(* TimeZone(eastOfUTC, name).                                              *)
FixedZone(eastOfUTC) ==
    [localtimes |-> <<Localtime(eastOfUTC, FALSE)>>, transitions |-> <<>>]

(* The two ways in which Comp reads a transition.                          *)
Key(compareGmt, transition) ==
    IF compareGmt THEN transition.gmtime ELSE transition.localtime

(* std::lower_bound halves a range of count transitions from low on, until *)
(* low is the first that is not before the time, or one past the last.     *)
lowerBound(transitions, time, compareGmt) ==
    LET last == Len(transitions)
        search[count \in 0..last] ==
            [low \in 1..(last + 1 - count) |->
                LET half == count \div 2 IN
                IF count = 0 THEN low
                ELSE IF Key(compareGmt, transitions[low + half]) < time
                THEN search[count - half - 1][low + half + 1]
                ELSE search[half][low]]
    IN  search[last][1]

findLocaltime(data, time, compareGmt) ==
    LET transitions == data.transitions
        at == lowerBound(transitions, time, compareGmt)
    IN  IF transitions = <<>> \/ time < Key(compareGmt, transitions[1])
        THEN data.localtimes[1]
        ELSE IF at <= Len(transitions) /\ Key(compareGmt, transitions[at]) = time
        THEN data.localtimes[transitions[at].localtimeIdx]
        ELSE data.localtimes[transitions[at - 1].localtimeIdx]

toLocalTime(data, seconds) ==
    LET local == findLocaltime(data, seconds, TRUE)
    IN  [time |-> seconds + local.gmtOffset, isdst |-> local.isDst]

(* The process's own zone, which mktime reads, is taken to be UTC.         *)
mktime(tm) == tm.time

hourAndMinute(tm) == (tm.time \div 60) % (24 * 60)

(* An hour is repeated when daylight saving ends: the transitions, by      *)
(* their local times, then give its second pass, and tm_isdst the first.   *)
fromLocalTime(data, tm) ==
    LET seconds == mktime(tm)
        offset == findLocaltime(data, seconds, FALSE).gmtOffset
        try == toLocalTime(data, seconds - offset)
    IN  IF tm.isdst /\ ~try.isdst /\ hourAndMinute(try) = hourAndMinute(tm)
        THEN seconds - 3600 - offset
        ELSE seconds - offset

(* The hours, minutes and seconds of a number of seconds.                  *)
fillHMS(seconds) ==
    LET minutes == seconds \div 60
    IN  [sec |-> seconds % 60, min |-> minutes % 60, hour |-> minutes \div 60]

(* Mutation: days before the epoch are cut off towards zero.               *)
SplitTruncated(secondsSinceEpoch) ==
    [days |-> Quotient(secondsSinceEpoch, kSecondsPerDay),
     seconds |-> Remainder(secondsSinceEpoch, kSecondsPerDay)]

(* The day and the seconds in it, also before the epoch.                   *)
Split(secondsSinceEpoch) ==
    LET seconds == Remainder(secondsSinceEpoch, kSecondsPerDay)
        days == Quotient(secondsSinceEpoch, kSecondsPerDay)
    IN  IF seconds < 0 THEN [days |-> days - 1, seconds |-> seconds + kSecondsPerDay]
        ELSE [days |-> days, seconds |-> seconds]

toUtcTime(secondsSinceEpoch) ==
    LET split == Split(secondsSinceEpoch)
        julian == split.days + kJulianDayOf1970_01_01
        ymd == getYearMonthDay(julian)
    IN  [date |-> ymd, hms |-> fillHMS(split.seconds), wday |-> weekDay(julian),
         yday |-> julian - getJulianDayNumber(ymd.year, 1, 1)]

fromUtcTime(tm) ==
    LET julian == getJulianDayNumber(tm.date.year, tm.date.month, tm.date.day)
        secondsInDay == tm.hms.hour * 3600 + tm.hms.min * 60 + tm.hms.sec
    IN  (julian - kJulianDayOf1970_01_01) * kSecondsPerDay + secondsInDay

-----------------------------------------------------------------------------
VARIABLES data,      \* TimeZone::data_
          now        \* secondsSinceEpoch

zoneVars == <<data, now>>

ZoneInit ==
    \/ \E file \in ZoneFiles :
          /\ data = parseTimeZoneFile(file)
          /\ \E i \in DOMAIN file.trans : now = file.trans[i] - Around
    \/ \E hours \in {-5, 0, 8} :
          /\ data = FixedZone(hours * 3600)
          /\ now = -Around

(* Time passes, up to Around behind the transition (or the epoch).         *)
Tick ==
    /\ \E t \in {0} \union {data.transitions[i].gmtime : i \in DOMAIN data.transitions} :
          now >= t - Around /\ now + Step <= t + Around
    /\ now' = now + Step
    /\ UNCHANGED data

ZoneSpec == ZoneInit /\ [][Tick]_zoneVars

-----------------------------------------------------------------------------
(* UTC times and their fields are each other's inverses, before the epoch  *)
(* too, and the fields are those of a clock: they are in range, and the    *)
(* time of day is what the whole days leave.                               *)
UtcAgrees ==
    LET utc == toUtcTime(now) IN
    /\ fromUtcTime(utc) = now
    /\ utc.hms.hour \in 0..23 /\ utc.hms.min \in 0..59 /\ utc.hms.sec \in 0..59
    /\ utc.yday \in 0..365 /\ utc.wday = (4 + Split(now).days) % 7

(* The zone's rule in force: that of its last transition so far, or its    *)
(* first rule before them all.                                             *)
InForce ==
    LET past == {i \in DOMAIN data.transitions : data.transitions[i].gmtime <= now}
    IN  IF past = {} THEN data.localtimes[1]
        ELSE data.localtimes[data.transitions[
                CHOOSE i \in past : \A j \in past : j <= i].localtimeIdx]

(* The binary search finds the rule in force, on the very second of a      *)
(* transition, before the first and after the last.                        *)
LocalTimeFollowsRules ==
    toLocalTime(data, now)
        = [time |-> now + InForce.gmtOffset, isdst |-> InForce.isDst]

(* A local time of a zone that puts its clock back only by one hour and    *)
(* from daylight saving time leads back to its instant, through the hour   *)
(* that is repeated and the one that is skipped.                           *)
PutBackOneHour(i) ==
    LET this == data.localtimes[data.transitions[i].localtimeIdx]
        last == IF i = 1 THEN data.localtimes[1]
                ELSE data.localtimes[data.transitions[i - 1].localtimeIdx]
    IN  this.gmtOffset < last.gmtOffset
            => /\ last.isDst /\ ~this.isDst
               /\ last.gmtOffset - this.gmtOffset = 3600

LocalTimesReadBack ==
    (\A i \in DOMAIN data.transitions : PutBackOneHour(i))
        => fromLocalTime(data, toLocalTime(data, now)) = now
=============================================================================
