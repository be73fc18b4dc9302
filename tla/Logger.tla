------------------------------- MODULE Logger -------------------------------
(***************************************************************************)
(* The time stamp of leanet::Logger (src/leanet/logger.cc): each thread    *)
(* keeps the second that it formatted last and its text, and writes the    *)
(* text again while the second lasts.  The zone, g_timezone, belongs to    *)
(* them all and has no lock: a message tests it, converts with it and      *)
(* tests it again, and setTimeZone may assign it between any two of these. *)
(*                                                                         *)
(* A text is the local time that it shows, and the clock goes forward.  An *)
(* assignment that a conversion overlaps is undefined: the conversion may  *)
(* use the old zone or the new one, memory that the old one has freed, or  *)
(* a null pointer.                                                         *)
(***************************************************************************)
EXTENDS Naturals

CONSTANTS
    Threads,      \* those that log
    Offsets,      \* the zones: their offset from UTC, in seconds
    NoZone,       \* g_timezone is not valid()
    Garbage,      \* a text that shows no time
    MaxSecond     \* bound: seconds from the epoch

VARIABLES
    now,             \* the clock, in seconds
    g_timezone,
    t_lastSecond, t_time,
    stage,           \* of each thread: where in formatTime it is
    second,          \* time_ of the message that it formats
    crashed,         \* a null or a freed zone was dereferenced
    zones,           \* history: the zones since each thread made its text
    raced            \* history: its conversion overlapped an assignment

vars == <<now, g_timezone, t_lastSecond, t_time, stage, second, crashed, zones,
          raced>>
cache == <<t_lastSecond, t_time>>

Offset(zone) == IF zone = NoZone THEN 0 ELSE zone

(* Static storage is zero; no message is written in the first second.      *)
Init ==
    /\ now = 1
    /\ g_timezone = NoZone
    /\ t_lastSecond = [t \in Threads |-> 0]
    /\ t_time = [t \in Threads |-> 0]
    /\ stage = [t \in Threads |-> "idle"]
    /\ second = [t \in Threads |-> 0]
    /\ crashed = FALSE
    /\ zones = [t \in Threads |-> {}]
    /\ raced = [t \in Threads |-> FALSE]

Goto(t, place) == stage' = [stage EXCEPT ![t] = place]

(* Mutation: the second is every thread's, the text is still its own.      *)
MustFormatShared(t) == \A u \in Threads : now # t_lastSecond[u]

MustFormat(t) == now # t_lastSecond[t]

(* The constructor takes the time, and formatTime compares its second with *)
(* that of the thread's text.                                              *)
Begin(t) ==
    /\ stage[t] = "idle"
    /\ second' = [second EXCEPT ![t] = now]
    /\ t_lastSecond' = [t_lastSecond EXCEPT ![t] = now]
    /\ Goto(t, IF MustFormat(t) THEN "test" ELSE "mark")
    /\ UNCHANGED <<now, g_timezone, t_time, crashed, zones, raced>>

(* The first g_timezone.valid().                                           *)
TestZone(t) ==
    /\ stage[t] = "test"
    /\ Goto(t, IF g_timezone = NoZone THEN "gmtime" ELSE "convert")
    /\ zones' = [zones EXCEPT ![t] = {g_timezone}]
    /\ raced' = [raced EXCEPT ![t] = FALSE]
    /\ UNCHANGED <<now, g_timezone, cache, second, crashed>>

MakeText(t, text) ==
    /\ t_time' = [t_time EXCEPT ![t] = text]
    /\ Goto(t, "mark")
    /\ UNCHANGED <<now, g_timezone, t_lastSecond, second, crashed, zones, raced>>

gmtime(t) == stage[t] = "gmtime" /\ MakeText(t, second[t])

(* g_timezone.toLocalTime, undefined if the zone was assigned since the    *)
(* test.                                                                   *)
toLocalTime(t) ==
    /\ stage[t] = "convert"
    /\ \/ \E zone \in (IF raced[t] THEN zones[t] ELSE {g_timezone}) \ {NoZone} :
             MakeText(t, second[t] + Offset(zone))
       \/ raced[t] /\ MakeText(t, Garbage)

Crash(t) ==
    /\ stage[t] = "convert" /\ raced[t]
    /\ crashed' = TRUE
    /\ UNCHANGED <<now, g_timezone, cache, stage, second, zones, raced>>

(* What the end of formatTime writes: the text, which may be an old one,   *)
(* and a "Z" by the second g_timezone.valid().                             *)
Stamp(t) == [text |-> t_time[t], Z |-> g_timezone = NoZone]

Write(t) ==
    /\ stage[t] = "mark"
    /\ Goto(t, "idle")
    /\ second' = [second EXCEPT ![t] = 0]
    /\ UNCHANGED <<now, g_timezone, cache, crashed, zones, raced>>

formatTime(t) ==
    Begin(t) \/ TestZone(t) \/ gmtime(t) \/ toLocalTime(t) \/ Crash(t) \/ Write(t)

setTimeZone(zone) ==
    /\ g_timezone' = zone
    /\ zones' = [t \in Threads |-> zones[t] \union {zone}]
    /\ raced' = [t \in Threads |-> raced[t] \/ stage[t] = "convert"]
    /\ UNCHANGED <<now, cache, stage, second, crashed>>

Tick ==
    /\ \E later \in (now + 1)..MaxSecond : now' = later
    /\ UNCHANGED <<g_timezone, cache, stage, second, crashed, zones, raced>>

Next ==
    /\ ~crashed
    /\ \/ \E t \in Threads : formatTime(t)
       \/ \E zone \in Offsets \union {NoZone} : setTimeZone(zone)
       \/ Tick

Spec == Init /\ [][Next]_vars

-----------------------------------------------------------------------------
(* A message shows the time of its own second, whichever of its thread's   *)
(* messages made the text, in a zone that has been in force since the text *)
(* was begun, and its "Z", or the lack of it, speaks of that zone unless   *)
(* another was set since.  It takes a conversion that no assignment of     *)
(* g_timezone overlapped: what one that was overlapped leaves in t_time is *)
(* undefined, for the rest of the second.                                  *)
StampIsCurrent ==
    \A t \in Threads :
        stage[t] = "mark" /\ ~raced[t] =>
            \E zone \in zones[t] :
                /\ Stamp(t).text = second[t] + Offset(zone)
                /\ zones[t] = {zone} => (Stamp(t).Z <=> zone = NoZone)
=============================================================================
