---------------------------- MODULE MCSequential ----------------------------
(***************************************************************************)
(* The classes that one thread uses alone, side by side for TLC: the two   *)
(* buffers, the calendar, the time zones and the writing of integers.      *)
(* They share nothing: a behaviour is one of the class that which names,   *)
(* and the variables of the others stay as they are.                       *)
(***************************************************************************)
EXTENDS Buffer

CONSTANTS Uninitialized, MaxRingLen, MaxRingSize, FirstYear, LastYear, Around, Step,
          Greatest

ASSUME SequentialAssumption ==
    /\ MaxRingLen \in Nat /\ Uninitialized \notin Bytes
    /\ FirstYear \in Nat /\ LastYear \in Nat /\ Greatest \in Nat

VARIABLES which, ring, ringCall, ringReturned,
          julianDateNumber, today, weekday, data, now, val

ringVars == <<ring, ringCall, ringReturned>>
dateVars == <<julianDateNumber, today, weekday>>
zoneVars == <<data, now>>

Ring == INSTANCE CircularBuffer WITH
            buf <- ring, call <- ringCall, returned <- ringReturned,
            MaxLen <- MaxRingLen, MaxSize <- MaxRingSize

(* Three zones of the tz database: the north and the south, where daylight *)
(* saving begins first and ends first, and one that changed its standard   *)
(* time forth and back.                                                    *)
Standard(hours) == [gmtOffset |-> hours * 3600, isDst |-> FALSE]
Summer(hours) == [gmtOffset |-> hours * 3600, isDst |-> TRUE]

NewYork ==
    [types |-> <<Standard(-5), Summer(-4)>>, idx |-> <<2, 1, 2, 1>>,
     trans |-> <<1710054000, 1730613600, 1741503600, 1762063200>>]
Sydney ==
    [types |-> <<Standard(10), Summer(11)>>, idx |-> <<1, 2>>,
     trans |-> <<1712419200, 1728144000>>]
Moscow ==
    [types |-> <<Standard(3), Standard(4)>>, idx |-> <<2, 1>>,
     trans |-> <<1301180400, 1414274400>>]

Cal == INSTANCE TimeZone WITH
            Years <- FirstYear..LastYear, ZoneFiles <- {NewYork, Sydney, Moscow}

(* The first instant, before the epoch, is not before the year 0: the dates *)
(* of the day numbers from there on are those that Date computes.           *)
ASSUME ZonesAssumption ==
    /\ Around \in Nat /\ Step \in Nat
    /\ Around \div Cal!kSecondsPerDay
          < Cal!kJulianDayOf1970_01_01 - Cal!getJulianDayNumber(0, 1, 1)

Digits == INSTANCE LogStream

MCInit ==
    /\ which \in {"linear", "ring", "date", "zone", "integer"}
    /\ Init
    /\ Ring!Init
    /\ IF which = "date" THEN Cal!Init
       ELSE julianDateNumber = 0 /\ today = 0 /\ weekday = 0
    /\ IF which = "zone" THEN Cal!ZoneInit ELSE data = 0 /\ now = 0
    /\ Digits!Init

MCNext ==
    /\ \/ which = "linear" /\ Next /\ UNCHANGED <<ringVars, dateVars, zoneVars, val>>
       \/ which = "ring" /\ Ring!Next /\ UNCHANGED <<vars, dateVars, zoneVars, val>>
       \/ which = "date" /\ Cal!NextDay /\ UNCHANGED <<vars, ringVars, zoneVars, val>>
       \/ which = "zone" /\ Cal!Tick /\ UNCHANGED <<vars, ringVars, dateVars, val>>
       \/ which = "integer" /\ Digits!NextValue
             /\ UNCHANGED <<vars, ringVars, dateVars, zoneVars>>
    /\ UNCHANGED which

mcVars == <<which, vars, ringVars, dateVars, zoneVars, val>>

MCSpec == MCInit /\ [][MCNext]_mcVars

-----------------------------------------------------------------------------
(* circularbuffer.h: wrapping around, growing and copying lose, repeat or  *)
(* reorder no byte, and what retrieveAsString returns begins with what it  *)
(* consumes, however the bytes lie.                                        *)
RingImplementsByteQueue == Ring!ImplementsByteQueue /\ Ring!ReturnedStartsWithRead

(* date.cc: Julian day numbers and dates are each other's inverses, and    *)
(* successive, on every day from 1900 to 2500.                             *)
CalendarAgrees == which = "date" => Cal!CalendarAgrees

(* timezone.cc: UTC fields lead back to the instant, also before the       *)
(* epoch; local fields follow the rule in force, and lead back to the      *)
(* instant also from a repeated hour.                                      *)
TimesReadBack ==
    which = "zone" =>
        Cal!UtcAgrees /\ Cal!LocalTimeFollowsRules /\ Cal!LocalTimesReadBack

(* logstream.cc: an integer that was written reads back, the least one too. *)
IntegersReadBack == which = "integer" => Digits!IntegersReadBack
=============================================================================
