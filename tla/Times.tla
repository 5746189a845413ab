------------------------------- MODULE Times -------------------------------
(***************************************************************************)
(* The times of a tick history: quotes() of activetick.js cuts a day into  *)
(* intervals of milliseconds, ticks() of the module makes local times of   *)
(* both ends of an interval, and the message of a tick makes milliseconds  *)
(* of a local time again (message.h).                                      *)
(*                                                                         *)
(* The fields of an ATTIME from year to second are one number of seconds   *)
(* on the wall clock, which changes its distance to UTC once, to the start *)
(* or to the end of daylight saving time.  It is the clock of the machine; *)
(* the server (not part of the repository) is taken to use the same one    *)
(* and to answer with the ticks from begin to end, both included.          *)
(***************************************************************************)
EXTENDS Integers, Sequences

CONSTANTS
    Days,         \* times at which the day of a call may start
    DayLength,    \* 7.5 hours in the code ...
    Interval,     \* ... and 5 minutes, in milliseconds
    Ticks,        \* times at which the tick may be that the call is to find
    Before, After,\* seconds by which the wall clock is ahead of UTC ...
    Change        \* ... before and after this second

ASSUME TimeAssumption ==
    /\ Days \subseteq Nat /\ Ticks \subseteq Nat
    /\ DayLength \in Nat /\ Interval \in Nat \ {0}
    /\ {Before, After} \subseteq Int /\ Change \in Nat

VARIABLES
    startOfDay,   \* quotes()'s variable
    begin,        \* where the next interval begins
    tick,         \* the time of a tick
    received      \* the times of it that the listener was told

vars == <<startOfDay, begin, tick, received>>

endOfDay == startOfDay + DayLength

-----------------------------------------------------------------------------
Offset(seconds) == IF seconds < Change THEN Before ELSE After

(* convert() of a number of milliseconds; localtime() gives the wall clock.*)
ToATTIME(time) ==
    LET seconds == time \div 1000
    IN  [wall |-> seconds + Offset(seconds), milliseconds |-> time % 1000]

(* convert() of an ATTIME, with what mktime() may return: either of two    *)
(* instants when the wall clock shows the time twice.                      *)
Instants(wall) == {s \in {wall - Before, wall - After} : s + Offset(s) = wall}
FromATTIME(t) == {s * 1000 + t.milliseconds : s \in Instants(t.wall)}

NotLater(t, u) ==
    t.wall < u.wall \/ (t.wall = u.wall /\ t.milliseconds <= u.milliseconds)

(* ticks(): the last millisecond of an interval is the one before its end. *)
EndItself(end) == ToATTIME(end)
LastOf(end) == ToATTIME(end - 1)

Init ==
    /\ startOfDay \in Days
    /\ begin = startOfDay
    /\ tick \in Ticks
    /\ received = <<>>

Found ==
    /\ NotLater(ToATTIME(begin), ToATTIME(tick))
    /\ NotLater(ToATTIME(tick), LastOf(begin + Interval))

(* requestTicks() and the answer to the request.                           *)
RequestTicks ==
    /\ begin < endOfDay
    /\ begin' = begin + Interval
    /\ \/ Found /\ \E time \in FromATTIME(ToATTIME(tick)) : received' = Append(received, time)
       \/ ~Found /\ UNCHANGED received
    /\ UNCHANGED <<startOfDay, tick>>

Next == RequestTicks

Spec == Init /\ [][Next]_vars

-----------------------------------------------------------------------------
TypeOK ==
    /\ startOfDay \in Days /\ tick \in Ticks
    /\ begin \in startOfDay .. endOfDay + Interval - 1
    /\ received \in Seq(Int)

(* The day and the tick keep clear of the change of the clock, by as much  *)
(* as it shifts: the change is at night, and the day is from 9:00 to 16:30.*)
Clear(time) ==
    LET shift == IF Before < After THEN After - Before ELSE Before - After
    IN  \/ time \div 1000 < Change - shift
        \/ time \div 1000 >= Change + shift
SameSide(time, other) == time \div 1000 < Change <=> other \div 1000 < Change
Quiet ==
    /\ Clear(startOfDay) /\ Clear(endOfDay + Interval) /\ Clear(tick)
    /\ SameSide(startOfDay, endOfDay + Interval)

(* A tick of the day is told once, whether it lies in the middle of an     *)
(* interval or on the border of two, by the time it is of: what begins     *)
(* with two conversions to local time and ends with one from it.           *)
InDay == startOfDay <= tick /\ tick < endOfDay
EveryTickOnce ==
    Quiet =>
        /\ received \in {<<>>, <<tick>>}
        /\ begin >= endOfDay /\ InDay => received = <<tick>>
=============================================================================
