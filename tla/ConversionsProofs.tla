-------------------------- MODULE ConversionsProofs --------------------------
(***************************************************************************)
(* Proofs about Times, for every day, every length of an interval, every   *)
(* time of a tick and every change of the clock; about ItemLoops, for      *)
(* integers of every width and every number of items; and about Messages,  *)
(* for every set of conditions and of flags.                               *)
(***************************************************************************)
EXTENDS Conversions, TLAPS

(* Milliseconds are ordered as their seconds and the rest.                 *)
LEMMA Division ==
    ASSUME NEW t \in Nat
    PROVE  /\ t \div 1000 \in Nat /\ t % 1000 \in 0 .. 999
           /\ t = (t \div 1000) * 1000 + (t % 1000)
BY SMT

(* The wall clock of an instant, field by field.                           *)
LEMMA WallClock ==
    ASSUME NEW t \in Nat
    PROVE  /\ ToATTIME(t).wall = t \div 1000 + Offset(t \div 1000)
           /\ ToATTIME(t).milliseconds = t % 1000
           /\ Offset(t \div 1000) \in Int
BY TimeAssumption, Division DEF ToATTIME, Offset

(* Clear of the change, the wall clock orders times as they are.           *)
LEMMA WallOrder ==
    ASSUME NEW t \in Nat, NEW u \in Nat, Clear(t), Clear(u)
    PROVE  NotLater(ToATTIME(t), ToATTIME(u)) <=> t <= u
<1> DEFINE a == t \div 1000
           b == u \div 1000
           c == t % 1000
           d == u % 1000
<1>1. a \in Nat /\ b \in Nat /\ c \in 0 .. 999 /\ d \in 0 .. 999
  BY Division
<1>2. t = a * 1000 + c /\ u = b * 1000 + d
  BY Division
<1>3. NotLater(ToATTIME(t), ToATTIME(u)) <=>
        \/ a + Offset(a) < b + Offset(b)
        \/ a + Offset(a) = b + Offset(b) /\ c <= d
  <2>1. ToATTIME(t).wall = a + Offset(a) /\ ToATTIME(t).milliseconds = c
    BY WallClock
  <2>2. ToATTIME(u).wall = b + Offset(b) /\ ToATTIME(u).milliseconds = d
    BY WallClock
  <2> HIDE DEF a, b, c, d
  <2>3. QED BY <2>1, <2>2 DEF NotLater
<1>4. a + Offset(a) < b + Offset(b) <=> a < b
  BY <1>1, TimeAssumption DEF Clear, Offset
<1>5. a + Offset(a) = b + Offset(b) <=> a = b
  BY <1>1, TimeAssumption DEF Clear, Offset
<1> HIDE DEF a, b, c, d
<1>6. t <= u <=> a < b \/ (a = b /\ c <= d)
  BY <1>1, <1>2
<1>7. QED BY <1>3, <1>4, <1>5, <1>6

(* Clear of the change, a time comes back from the wall clock as it was.   *)
LEMMA RoundTrip ==
    ASSUME NEW t \in Nat, Clear(t)
    PROVE  FromATTIME(ToATTIME(t)) = {t}
<1> DEFINE a == t \div 1000
           c == t % 1000
<1>1. a \in Nat /\ c \in 0 .. 999 /\ t = a * 1000 + c
  BY Division
<1>2. Instants(a + Offset(a)) = {a}
  BY <1>1, TimeAssumption DEF Instants, Offset, Clear
<1>3. FromATTIME(ToATTIME(t)) = {s * 1000 + c : s \in {a}}
  <2>1. ToATTIME(t).wall = a + Offset(a) /\ ToATTIME(t).milliseconds = c
    BY WallClock
  <2> HIDE DEF a, c
  <2>2. QED BY <1>2, <2>1 DEF FromATTIME
<1> HIDE DEF a, c
<1>4. {s * 1000 + c : s \in {a}} = {a * 1000 + c}
  OBVIOUS
<1>5. QED BY <1>1, <1>3, <1>4

(* So does every time of a day that keeps clear of it.                     *)
LEMMA Between ==
    ASSUME NEW t \in Nat, NEW u \in Nat, NEW v \in Nat,
           Clear(t), Clear(v), SameSide(t, v), t <= u, u <= v
    PROVE  Clear(u)
<1> DEFINE a == t \div 1000
           b == u \div 1000
           c == v \div 1000
<1>1. a \in Nat /\ b \in Nat /\ c \in Nat
  BY Division
<1>2. a <= b /\ b <= c
  BY SMT
<1>3. QED BY <1>1, <1>2, TimeAssumption DEF Clear, SameSide

-----------------------------------------------------------------------------
(* The tick was told if it lies in the intervals requested so far, and     *)
(* only then; what EveryTickOnce says of a day holds of every part of it.  *)
Requested == IF startOfDay <= tick /\ tick < begin THEN <<tick>> ELSE <<>>
Inv ==
    /\ TypeOK
    /\ Quiet => received = Requested

LEMMA InitInv == Init => Inv
BY TimeAssumption DEF Init, Inv, TypeOK, Requested, endOfDay

LEMMA FoundIt ==
    ASSUME Inv, Quiet, begin < endOfDay
    PROVE  Found <=> begin <= tick /\ tick < begin + Interval
<1>1. /\ startOfDay \in Nat /\ begin \in Nat /\ tick \in Nat
      /\ DayLength \in Nat /\ Interval \in Nat \ {0}
  BY TimeAssumption DEF Inv, TypeOK, endOfDay
<1> DEFINE end == endOfDay + Interval
           lastOne == begin + Interval - 1
<1>2. end \in Nat /\ lastOne \in Nat /\ startOfDay <= begin /\ begin <= lastOne /\ lastOne <= end
  BY <1>1 DEF Inv, TypeOK, endOfDay
<1>3. Clear(startOfDay) /\ Clear(end) /\ SameSide(startOfDay, end) /\ Clear(tick)
  BY DEF Quiet
<1> HIDE DEF end, lastOne
<1>4. begin <= end /\ startOfDay <= lastOne
  BY <1>1, <1>2
<1>5. Clear(begin)
  BY <1>1, <1>2, <1>3, <1>4, Between
<1>6. Clear(lastOne)
  BY <1>1, <1>2, <1>3, <1>4, Between
<1>7. NotLater(ToATTIME(begin), ToATTIME(tick)) <=> begin <= tick
  BY <1>1, <1>3, <1>5, WallOrder
<1>8. NotLater(ToATTIME(tick), ToATTIME(lastOne)) <=> tick <= lastOne
  BY <1>1, <1>2, <1>3, <1>6, WallOrder
<1>9. LastOf(begin + Interval) = ToATTIME(lastOne)
  BY <1>1, <1>2 DEF LastOf, lastOne
<1>10. tick <= lastOne <=> tick < begin + Interval
  BY <1>1 DEF lastOne
<1>11. QED BY <1>7, <1>8, <1>9, <1>10 DEF Found

LEMMA NextInv == Inv /\ [Next]_vars => Inv'
<1> SUFFICES ASSUME Inv, [Next]_vars PROVE Inv'
  OBVIOUS
<1>1. CASE UNCHANGED vars
  BY <1>1 DEF Inv, TypeOK, vars, Quiet, Requested, endOfDay
<1>2. CASE RequestTicks
  <2>1. /\ startOfDay \in Nat /\ begin \in Nat /\ tick \in Nat
        /\ DayLength \in Nat /\ Interval \in Nat \ {0}
    BY TimeAssumption DEF Inv, TypeOK, endOfDay
  <2>2. begin' \in (startOfDay .. endOfDay + Interval - 1)'
    BY <1>2, <2>1 DEF Inv, TypeOK, RequestTicks, endOfDay
  <2>3. received' \in Seq(Int)
    <3>1. CASE Found
      <4>1. PICK time \in FromATTIME(ToATTIME(tick)) : received' = Append(received, time)
        BY <1>2, <3>1 DEF RequestTicks
      <4>2. time \in Int
        BY <2>1, WallClock, Division, TimeAssumption DEF FromATTIME, Instants
      <4>3. QED BY <4>1, <4>2 DEF Inv, TypeOK
    <3>2. CASE ~Found
      BY <1>2, <3>2 DEF RequestTicks, Inv, TypeOK
    <3>3. QED BY <3>1, <3>2
  <2>4. ASSUME Quiet PROVE received' = Requested'
    <3>1. Found <=> begin <= tick /\ tick < begin + Interval
      BY <1>2, <2>4, FoundIt DEF RequestTicks
    <3>2. FromATTIME(ToATTIME(tick)) = {tick}
      BY <2>1, <2>4, RoundTrip DEF Quiet
    <3>3. received = Requested /\ startOfDay <= begin
      BY <2>1, <2>4 DEF Inv, TypeOK, endOfDay
    <3>4. CASE Found
      BY <1>2, <2>1, <3>1, <3>2, <3>3, <3>4 DEF RequestTicks, Requested
    <3>5. CASE ~Found
      BY <1>2, <2>1, <3>1, <3>3, <3>5 DEF RequestTicks, Requested
    <3>6. QED BY <3>4, <3>5
  <2>5. Quiet' = Quiet
    BY <1>2 DEF RequestTicks, Quiet, endOfDay
  <2>6. QED BY <1>2, <2>2, <2>3, <2>4, <2>5 DEF Inv, TypeOK, RequestTicks
<1>3. QED BY <1>1, <1>2 DEF Next

LEMMA AlwaysInv == Spec => []Inv
BY InitInv, NextInv, PTL DEF Spec

-----------------------------------------------------------------------------
(* Each tick of a day is told once, by the time it is of: the intervals    *)
(* that quotes() requests as local times have neither a gap nor a common   *)
(* millisecond, and the time of a tick survives the conversions.           *)
THEOREM TickToldOnce == Spec => []EveryTickOnce
<1>1. Inv => EveryTickOnce
  <2> SUFFICES ASSUME Inv, Quiet
               PROVE  /\ received \in {<<>>, <<tick>>}
                      /\ begin >= endOfDay /\ InDay => received = <<tick>>
    BY DEF EveryTickOnce
  <2>1. startOfDay \in Nat /\ begin \in Nat /\ tick \in Nat /\ endOfDay \in Nat
    BY TimeAssumption DEF Inv, TypeOK, endOfDay
  <2>2. received = Requested
    BY DEF Inv
  <2>3. QED BY <2>1, <2>2 DEF Requested, InDay
<1>2. QED BY <1>1, AlwaysInv, PTL
-----------------------------------------------------------------------------
(* The loops that count as the code means them to: so far each of them has *)
(* posted the items before its index.                                      *)
Ends == IF loop = "bars" THEN pc = "done" ELSE index = count
Counts ==
    /\ index \in 0 .. count /\ posted = index /\ strange = FALSE
    /\ ended = IF Ends THEN 1 ELSE 0
    /\ pc = "done" => index = count

(* And the others never end: every index is one to go on at.               *)
GoesOn ==
    /\ pc = "loop" /\ loop \in {"wide", "holidays", "ticks"}
    /\ index \in 0 .. Max32 - 1
    /\ loop = "wide" => index < Max16 /\ (count = 0 \/ count >= Max16)
    /\ loop # "wide" => count = 0

LoopInv ==
    /\ loop \in L!Loops /\ count \in 0 .. MaxCount /\ pc \in {"loop", "done"}
    /\ loop = "stream" => count < Max16
    /\ IF L!Handled THEN Counts ELSE GoesOn

(* What is assumed of the widths, and arithmetic of unsigned integers.     *)
LEMMA Widths ==
    /\ Max16 \in Nat /\ Max32 \in Nat /\ MaxCount \in Nat
    /\ 0 < Max16 /\ Max16 < Max32 /\ MaxCount < Max32
BY LoopAssumption DEF L!WidthAssumption

LEMMA Wrapping ==
    ASSUME NEW k \in Nat, k < Max32
    PROVE  /\ k % Max32 = k
           /\ k < Max16 => k % Max16 = k
           /\ k % Max16 \in 0 .. Max16 - 1
           /\ (0 - 1) % Max32 = Max32 - 1
           /\ (k + 1) % Max32 \in 0 .. Max32 - 1 /\ (k + 1) % Max16 \in 0 .. Max16 - 1
BY Widths, SMT

(* Which loops are those.                                                  *)
LEMMA HandledLoops ==
    ASSUME loop \in L!Loops, count \in 0 .. MaxCount, loop = "stream" => count < Max16
    PROVE  /\ L!Handled =>
                /\ loop \in {"holidays", "ticks"} => count > 0
                /\ loop = "wide" => count > 0 /\ count < Max16
           /\ ~L!Handled =>
                /\ loop \in {"wide", "holidays", "ticks"}
                /\ loop = "wide" => count = 0 \/ count >= Max16
                /\ loop # "wide" => count = 0
<1>1. L!Handled <=> /\ loop \in {"holidays", "ticks"} => count > 0
                    /\ loop = "wide" => count \in 1 .. Max16 - 1
  BY DEF L!Handled
<1>2. count \in Nat
  BY Widths
<1>3. QED
  BY <1>1, <1>2, Widths DEF L!Loops

(* The last index of the loops that count to one.                          *)
LEMMA LastItem ==
    ASSUME LoopInv
    PROVE  /\ L!Handled /\ loop # "bars" => L!last = count - 1
           /\ ~L!Handled => L!More
<1>1. count \in Nat /\ count < Max32
  BY Widths DEF LoopInv
<1>2. (count - 1) % Max32 = IF count = 0 THEN Max32 - 1 ELSE count - 1
  <2>1. CASE count = 0
    BY <1>1, <2>1, Wrapping
  <2>2. CASE count # 0
    <3>1. count - 1 \in Nat /\ count - 1 < Max32
      BY <1>1, <2>2, Widths
    <3>2. QED
      BY <2>2, <3>1, Wrapping
  <2>3. QED
    BY <2>1, <2>2
<1>3. L!last = IF loop = "stream" THEN count - 1 ELSE (count - 1) % Max32
  BY DEF L!last, L!LastOf
<1>4. L!Handled /\ loop # "bars" => L!last = count - 1
  <2> SUFFICES ASSUME L!Handled, loop # "bars" PROVE L!last = count - 1
    OBVIOUS
  <2>1. CASE loop = "stream"
    BY <1>3, <2>1
  <2>2. CASE loop # "stream"
    <3>1. count > 0
      BY <2>2, HandledLoops DEF LoopInv, L!Loops
    <3>2. QED
      BY <1>1, <1>2, <1>3, <2>2, <3>1
  <2>3. QED
    BY <2>1, <2>2
<1>5. ~L!Handled => L!More
  <2> SUFFICES ASSUME ~L!Handled PROVE L!More
    OBVIOUS
  <2>1. GoesOn
    BY DEF LoopInv
  <2>2. L!last = IF count = 0 THEN Max32 - 1 ELSE count - 1
    BY <1>2, <1>3, <2>1 DEF GoesOn
  <2>3. index <= L!last
    BY <1>1, <2>1, <2>2, Widths DEF GoesOn
  <2>4. QED
    BY <2>1, <2>3 DEF GoesOn, L!More, L!UpToLast
<1>6. QED
  BY <1>4, <1>5

LEMMA LoopInit == L!Init => LoopInv
<1> SUFFICES ASSUME L!Init PROVE LoopInv
  OBVIOUS
<1>1. /\ loop \in L!Loops /\ count \in 0 .. MaxCount /\ (loop = "stream" => count < Max16)
      /\ index = 0 /\ pc = "loop" /\ posted = 0 /\ strange = FALSE
      /\ ended = IF loop \in {"stream", "wide"} /\ count = 0 THEN 1 ELSE 0
  BY DEF L!Init
<1>2. count \in Nat
  BY <1>1, Widths
<1>3. CASE L!Handled
  <2>1. ended = IF Ends THEN 1 ELSE 0
    BY <1>1, <1>2, <1>3, HandledLoops DEF Ends, L!Loops
  <2>2. index \in 0 .. count
    BY <1>1, <1>2
  <2>3. QED
    BY <1>1, <1>3, <2>1, <2>2 DEF LoopInv, Counts
<1>4. CASE ~L!Handled
  <2>1. index < Max16 /\ index \in 0 .. Max32 - 1
    BY <1>1, Widths
  <2>2. /\ loop \in {"wide", "holidays", "ticks"}
        /\ loop = "wide" => count = 0 \/ count >= Max16
        /\ loop # "wide" => count = 0
    <3>1. loop \in L!Loops /\ count \in 0 .. MaxCount /\ (loop = "stream" => count < Max16)
      BY <1>1
    <3>2. QED
      BY <1>4, <3>1, HandledLoops
  <2>3. GoesOn
    BY <1>1, <2>1, <2>2 DEF GoesOn
  <2>4. QED
    BY <1>1, <1>4, <2>3 DEF LoopInv
<1>5. QED
  BY <1>3, <1>4

(* Each step preserves it, and goes on when the response is one of those.  *)
LEMMA LoopSteps ==
    ASSUME LoopInv, [L!Next]_L!vars
    PROVE  LoopInv' /\ (L!Handled /\ L!Next => index' > index \/ pc' = "done")
<1>1. loop' = loop /\ count' = count
  BY DEF L!Next, L!Step, L!Finish, L!vars
<1>2. L!Handled' = L!Handled
  BY <1>1 DEF L!Handled
<1>3. /\ loop \in L!Loops /\ count \in 0 .. MaxCount /\ count \in Nat /\ count < Max32
      /\ loop = "stream" => count < Max16
  BY Widths DEF LoopInv
<1>4. CASE ~L!Next
  <2>1. UNCHANGED L!vars
    BY <1>4
  <2>2. LoopInv'
    BY <2>1 DEF LoopInv, Counts, GoesOn, Ends, L!vars, L!Handled, L!Loops
  <2>3. QED
    BY <1>4, <2>2
<1>5. CASE ~L!Handled /\ L!Next
  <2>1. GoesOn /\ L!More
    BY <1>5, LastItem DEF LoopInv
  <2>2. L!Step /\ pc' = "loop" /\ index' = L!NextIndex(loop, index)
    BY <1>5, <2>1 DEF L!Next, L!Finish, L!Step
  <2>3. index' = IF loop = "wide" THEN (index + 1) % Max16 ELSE (index + 1) % Max32
    BY <2>1, <2>2 DEF L!NextIndex, GoesOn
  <2>4. index \in Nat /\ index < Max32
    BY <2>1, Widths DEF GoesOn
  <2>5. (index + 1) % Max32 \in 0 .. Max32 - 1 /\ (index + 1) % Max16 \in 0 .. Max16 - 1
    BY <2>4, Wrapping
  <2>6. index' \in 0 .. Max32 - 1 /\ (loop = "wide" => index' < Max16)
    <3>1. CASE loop = "wide"
      BY <2>3, <2>5, <3>1, Widths
    <3>2. CASE loop # "wide"
      BY <2>3, <2>5, <3>2
    <3>3. QED
      BY <3>1, <3>2
  <2>7. GoesOn'
    BY <1>1, <2>1, <2>2, <2>6 DEF GoesOn
  <2>8. LoopInv'
    BY <1>1, <1>2, <1>3, <1>5, <2>2, <2>7 DEF LoopInv
  <2>9. QED
    BY <1>5, <2>8
<1>6. CASE L!Handled /\ L!Next
  <2>1. Counts /\ index \in 0 .. count /\ posted = index /\ ~strange
    BY <1>6 DEF LoopInv, Counts
  <2>2. L!More <=> index < count
    <3>1. CASE loop = "bars"
      BY <3>1 DEF L!More
    <3>2. CASE loop # "bars"
      BY <1>3, <1>6, <2>1, <3>2, LastItem DEF L!More, L!UpToLast
    <3>3. QED
      BY <3>1, <3>2
  <2>3. CASE L!Step
    <3>1. index < count /\ pc = "loop" /\ pc' = "loop" /\ index' = L!NextIndex(loop, index)
      BY <2>2, <2>3 DEF L!Step
    <3>2. index' = index + 1
      <4>1. loop \in {"stream", "wide"} => count < Max16
        BY <1>3, <1>6, HandledLoops
      <4>2. index + 1 \in Nat /\ index + 1 < Max32 /\ (count < Max16 => index + 1 < Max16)
        BY <1>3, <2>1, <3>1, Widths
      <4>3. (index + 1) % Max32 = index + 1 /\ (count < Max16 => (index + 1) % Max16 = index + 1)
        BY <4>2, Wrapping
      <4>4. QED
        BY <3>1, <4>1, <4>3 DEF L!NextIndex
    <3>3. posted' = index' /\ strange' = FALSE
      <4>1. posted' = posted + 1
        BY <2>1, <2>3, <3>1 DEF L!Step
      <4>2. strange' = (strange \/ index >= count)
        BY <2>3 DEF L!Step
      <4>3. ~(index >= count)
        BY <1>3, <2>1, <3>1
      <4>4. QED
        BY <2>1, <3>2, <4>1, <4>2, <4>3
    <3>4. ended' = IF Ends' THEN 1 ELSE 0
      <4>1. ended = 0
        BY <2>1, <3>1, <1>3 DEF Counts, Ends
      <4>2. ended' = IF loop # "bars" /\ index = L!last THEN 1 ELSE 0
        BY <2>3, <4>1 DEF L!Step
      <4>3. CASE loop = "bars"
        BY <1>1, <3>1, <4>2, <4>3 DEF Ends
      <4>4. CASE loop # "bars"
        <5>1. L!last = count - 1
          BY <1>6, <4>4, LastItem
        <5>2. index = L!last <=> index' = count'
          BY <1>1, <1>3, <2>1, <3>2, <5>1
        <5>3. QED
          BY <1>1, <4>2, <4>4, <5>2 DEF Ends
      <4>5. QED
        BY <4>3, <4>4
    <3>5. index' \in 0 .. count' /\ index' > index
      BY <1>1, <1>3, <2>1, <3>1, <3>2
    <3>6. Counts'
      BY <3>1, <3>3, <3>4, <3>5 DEF Counts
    <3>7. QED
      BY <1>1, <1>2, <1>3, <1>6, <3>1, <3>5, <3>6 DEF LoopInv
  <2>4. CASE L!Finish
    <3>1. /\ index = count /\ pc = "loop" /\ pc' = "done" /\ UNCHANGED <<index, posted, strange>>
          /\ ended' = IF loop = "bars" THEN ended + 1 ELSE ended
      BY <1>3, <2>1, <2>2, <2>4 DEF L!Finish
    <3>2. ended' = IF Ends' THEN 1 ELSE 0
      BY <1>1, <2>1, <3>1 DEF Counts, Ends
    <3>3. Counts'
      BY <1>1, <2>1, <3>1, <3>2 DEF Counts
    <3>4. QED
      BY <1>1, <1>2, <1>3, <1>6, <3>1, <3>3 DEF LoopInv
  <2>5. QED
    BY <1>6, <2>3, <2>4 DEF L!Next
<1>7. QED
  BY <1>4, <1>5, <1>6

(* The loops over the items of a response post every item once, mark one   *)
(* message as the last of the response and read nothing behind it, unless  *)
(* the response is one that they were not made for: an empty list of       *)
(* holidays or ticks, or more stream items than a uint16_t counts, if the  *)
(* count is wider.                                                         *)
THEOREM ItemsPostedOnce == L!Spec => []EveryItemOnce
<1>1. LoopInv => EveryItemOnce
  <2> SUFFICES ASSUME LoopInv PROVE EveryItemOnce
    OBVIOUS
  <2>1. CASE L!Handled
    BY <2>1 DEF LoopInv, Counts, Ends, EveryItemOnce, L!EveryItemOnce
  <2>2. CASE ~L!Handled
    BY <2>2 DEF LoopInv, GoesOn, EveryItemOnce, L!EveryItemOnce
  <2>3. QED
    BY <2>1, <2>2
<1>2. QED
  BY <1>1, LoopInit, LoopSteps, PTL DEF L!Spec

(* And with such a response their index only grows, or they are done.      *)
THEOREM LoopsGoForward == L!Spec => OnlyForward
<1>1. LoopInv /\ [L!Next]_L!vars =>
        LoopInv' /\ [L!Handled => index' > index \/ pc' = "done"]_L!vars
  BY LoopSteps
<1>2. QED
  BY <1>1, LoopInit, PTL DEF L!Spec, OnlyForward, L!OnlyForward

-----------------------------------------------------------------------------
(* The names of fields that receivers look for, and names that value()     *)
(* gives to fields of several classes.                                     *)
KeyFields == {"error", "success", "begins", "loginResponse", "lastPrice", "bidPrice", "end", "request",
              "preMarketVolume", "afterMarketVolume"}
Common == {"message", "request", "session", "end", "symbol", "symbolStatus"}

(* The classes of message.h, and which of them has a field that receivers  *)
(* look for.                                                               *)
LEMMA Classes ==
    DOMAIN Populated =
        {"error", "success", "session_status_change", "response_complete", "login_response",
         "stream_subscribe_response", "stream_unsubscribe_response", "stream_update_trade",
         "stream_update_quote", "stream_update_refresh", "holiday", "server_time_update",
         "tick_history_trade", "tick_history_quote", "bar_history_response", "bar_history"}
BY DEF Populated

LEMMA KeysOf ==
    ASSUME NEW class \in DOMAIN Populated
    PROVE  /\ "error" \in Populated[class] <=> class = "error"
           /\ "success" \in Populated[class] <=> class = "success"
           /\ "begins" \in Populated[class] <=> class = "holiday"
           /\ "loginResponse" \in Populated[class] <=> class = "login_response"
           /\ "lastPrice" \in Populated[class] <=> class \in HasTradeConditions
           /\ "bidPrice" \in Populated[class] <=> class \in HasQuoteCondition
           /\ {"end", "request", "preMarketVolume", "afterMarketVolume"} \cap Populated[class] = {}
BY Classes DEF Populated, LastTrade, BestQuote, HasTradeConditions, HasQuoteCondition

(* No condition has the name of a field that value() sets otherwise, and   *)
(* no flag that of a field of a stream update.                             *)
LEMMA OwnNames ==
    ASSUME NEW c \in TradeConditions \cup QuoteConditions
    PROVE  /\ c \notin KeyFields \cup Common \cup TradeFlags
           /\ \A class \in DOMAIN Populated : c \notin Populated[class]
BY Classes
   DEF Populated, LastTrade, BestQuote, TradeConditions, QuoteConditions, TradeFlags, KeyFields,
       Common

LEMMA FlagNames ==
    ASSUME NEW f \in TradeFlags
    PROVE  /\ f \notin Common
           /\ f \in KeyFields => f \in {"preMarketVolume", "afterMarketVolume"}
           /\ f \notin Populated["stream_update_trade"]
BY DEF Populated, LastTrade, TradeFlags, KeyFields, Common


(* A message as the constructors make it.                                  *)
Made(m) ==
    /\ m.class \in DOMAIN Populated /\ {m.item, m.request, m.end} \subseteq BOOLEAN
    /\ m.class \notin Requestless \cup {"error"} => m.request
    /\ m.class = "success" => ~m.end
    /\ m.type = TypeOf(m.class, m.item)
    /\ m.zero \subseteq Populated[m.class] \cap {"lastPrice", "bidPrice"}
    /\ m.trade \subseteq TradeConditions
    /\ m.class \notin HasTradeConditions => m.trade = {}
    /\ m.quote \subseteq QuoteConditions
    /\ m.class \notin HasQuoteCondition => m.quote = {}
    /\ m.flags \subseteq TradeFlags
    /\ m.class # "stream_update_trade" => m.flags = {}

FieldsIn(m) ==
    FieldsOf(m) \cup ConditionFields(m) \cup m.quote \cup m.flags \cup Envelope(m)

ObjectOf(m) == [type |-> m.type, text |-> m.text, zero |-> m.zero, fields |-> FieldsIn(m)]

ReadingOf(o) ==
    [type |-> "reading", handler |-> HandlerOf(o), quotes |-> ReadByQuotes(o),
     daily |-> ReadByDaily(o), holidays |-> ReadByHolidays(o), login |-> ReadAsLogin(o),
     extended |-> IsExtended(o)]

(* An object is the one of the message, and a reading the one of that.     *)
MessageInv ==
    /\ message = Nothing => object = Nothing
    /\ message # Nothing => Made(message)
    /\ object # Nothing => object = ObjectOf(message)
    /\ reading # Nothing => object # Nothing /\ reading = ReadingOf(object)

(* The fields that receivers look for are those of populate(), of value()  *)
(* and the flags: a condition is never one of them.                        *)
LEMMA FieldsFound ==
    ASSUME NEW m, Made(m)
    PROVE  LET o == ObjectOf(m)
           IN  /\ Has(o, "error") <=> m.class = "error"
               /\ Has(o, "success") <=> m.class = "success"
               /\ Has(o, "begins") <=> m.class = "holiday"
               /\ Has(o, "loginResponse") <=> m.class = "login_response"
               /\ Has(o, "lastPrice") <=> m.class \in HasTradeConditions /\ "lastPrice" \notin m.zero
               /\ Has(o, "bidPrice") <=> m.class \in HasQuoteCondition /\ "bidPrice" \notin m.zero
               /\ Has(o, "end") <=> m.end
               /\ Has(o, "request") <=> m.request
               /\ Has(o, "preMarketVolume") <=> "preMarketVolume" \in m.flags
               /\ Has(o, "afterMarketVolume") <=> "afterMarketVolume" \in m.flags
<1> DEFINE o == ObjectOf(m)
<1>1. m.class \in DOMAIN Populated /\ m.end \in BOOLEAN /\ m.request \in BOOLEAN
  BY DEF Made
<1>2. ASSUME NEW f \in KeyFields
      PROVE  f \in o.fields <=> \/ f \in Populated[m.class] \/ f \in m.flags
                                \/ f = "request" /\ m.request
                                \/ f = "end" /\ m.end
  <2>1. f \notin m.trade /\ f \notin m.quote
    BY OwnNames DEF Made
  <2>2. o.fields = FieldsOf(m) \cup m.trade \cup m.quote \cup m.flags \cup Envelope(m)
    BY DEF ObjectOf, FieldsIn, ConditionFields
  <2>3. f \in FieldsOf(m) <=> f \in Populated[m.class]
    BY DEF FieldsOf, ItemFields, KeyFields
  <2>4. f \in Envelope(m) <=> (f = "request" /\ m.request) \/ (f = "end" /\ m.end)
    BY <1>1 DEF Envelope, KeyFields
  <2>5. QED
    BY <2>1, <2>2, <2>3, <2>4
<1>3. ASSUME NEW f \in KeyFields, f \notin {"preMarketVolume", "afterMarketVolume"}
      PROVE  f \notin m.flags
  BY <1>3, FlagNames DEF Made
<1>4. o.zero = m.zero /\ m.zero \subseteq {"lastPrice", "bidPrice"}
  BY DEF ObjectOf, Made
<1>5. \A f : Has(o, f) <=> f \in o.fields /\ f \notin m.zero
  BY <1>4 DEF Has
<1> HIDE DEF o
<1>6. /\ Has(o, "error") <=> m.class = "error"
      /\ Has(o, "success") <=> m.class = "success"
      /\ Has(o, "begins") <=> m.class = "holiday"
      /\ Has(o, "loginResponse") <=> m.class = "login_response"
  BY <1>1, <1>2, <1>3, <1>4, <1>5, KeysOf DEF KeyFields
<1>7. /\ Has(o, "lastPrice") <=> m.class \in HasTradeConditions /\ "lastPrice" \notin m.zero
      /\ Has(o, "bidPrice") <=> m.class \in HasQuoteCondition /\ "bidPrice" \notin m.zero
  BY <1>1, <1>2, <1>3, <1>5, KeysOf DEF KeyFields
<1>8. Has(o, "end") <=> m.end
  BY <1>1, <1>2, <1>3, <1>4, <1>5, KeysOf DEF KeyFields
<1>9. Has(o, "request") <=> m.request
  BY <1>1, <1>2, <1>3, <1>4, <1>5, KeysOf DEF KeyFields
<1>10. /\ Has(o, "preMarketVolume") <=> "preMarketVolume" \in m.flags
       /\ Has(o, "afterMarketVolume") <=> "afterMarketVolume" \in m.flags
  BY <1>1, <1>2, <1>4, <1>5, KeysOf DEF KeyFields
<1>11. QED
  BY <1>6, <1>7, <1>8, <1>9, <1>10 DEF o

(* The invariant holds at first, and each step preserves it.               *)
LEMMA MessageSteps ==
    /\ NoMessage => MessageInv
    /\ MessageInv /\ [MessageNext]_messageVars => MessageInv'
<1>1. NoMessage => MessageInv
  BY DEF NoMessage, MessageInv
<1> SUFFICES ASSUME MessageInv, [MessageNext]_messageVars PROVE MessageInv'
  BY <1>1
<1>3. CASE Construct
  <2>1. message = Nothing /\ object = Nothing /\ reading = Nothing /\ UNCHANGED <<object, reading>>
    BY <1>3 DEF MessageInv, Construct
  <2>2. Made(message')
    <3>1. PICK class \in DOMAIN Populated, item, request \in BOOLEAN :
             /\ class \in Requestless => ~request
             /\ class \notin Requestless \cup {"error"} => request
             /\ Make(class, item, request)
      BY <1>3 DEF Construct
    <3>2. PICK text \in Texts(class), end \in MayEnd(class, request),
               zero \in SUBSET (Populated[class] \cap {"lastPrice", "bidPrice"}),
               trade \in IF class \in HasTradeConditions THEN TradeChoices ELSE {{}},
               quote \in IF class \in HasQuoteCondition THEN AtMostOne(QuoteConditions) ELSE {{}},
               flags \in IF class \in HasFlags THEN FlagChoices ELSE {{}} :
             message' = [type |-> TypeOf(class, item), class |-> class, item |-> item,
                         request |-> request, text |-> text, end |-> end, zero |-> zero,
                         trade |-> trade, quote |-> quote, flags |-> flags]
      BY <3>1 DEF Make
    <3>3. end \in BOOLEAN /\ (class = "success" => ~end)
      BY DEF MayEnd
    <3>4. trade \subseteq TradeConditions /\ (class \notin HasTradeConditions => trade = {})
      BY ChoiceAssumption
    <3>5. quote \subseteq QuoteConditions /\ (class \notin HasQuoteCondition => quote = {})
      BY DEF AtMostOne
    <3>6. flags \subseteq TradeFlags /\ (class # "stream_update_trade" => flags = {})
      BY ChoiceAssumption DEF HasFlags
    <3>7. /\ message'.class = class /\ message'.item = item /\ message'.request = request
          /\ message'.end = end /\ message'.type = TypeOf(class, item) /\ message'.zero = zero
          /\ message'.trade = trade /\ message'.quote = quote /\ message'.flags = flags
      BY <3>2
    <3>8. QED
      BY <3>1, <3>3, <3>4, <3>5, <3>6, <3>7 DEF Made
  <2>3. QED
    BY <2>1, <2>2 DEF MessageInv
<1>4. CASE Value
  <2>1. message # Nothing /\ Made(message) /\ reading = Nothing
    BY <1>4 DEF Value, MessageInv
  <2>2. object' = ObjectOf(message) /\ UNCHANGED <<message, reading>>
    BY <1>4 DEF Value, ObjectOf, FieldsIn
  <2>3. QED
    BY <2>1, <2>2 DEF MessageInv
<1>5. CASE Receive
  <2>1. object # Nothing /\ UNCHANGED <<message, object>>
    BY <1>5 DEF Receive
  <2>2. reading' = ReadingOf(object)
    BY <1>5 DEF Receive, ReadingOf
  <2>3. QED
    BY <2>1, <2>2 DEF MessageInv
<1>6. CASE UNCHANGED messageVars
  BY <1>6 DEF MessageInv, messageVars
<1>7. QED
  BY <1>3, <1>4, <1>5, <1>6 DEF MessageNext

(* What value() makes of a message.                                        *)
LEMMA ObjectsAreReadable ==
    ASSUME MessageInv, object # Nothing
    PROVE  ConditionsAreReadable
<1> DEFINE flags == message.flags \cup message.trade \cup message.quote
           shared == TradeConditions \cap QuoteConditions
           hidden == IF message.class = "stream_update_refresh" THEN shared ELSE {}
<1>1. Made(message) /\ object.fields = FieldsIn(message)
  BY DEF MessageInv, ObjectOf
<1>2. ASSUME NEW c \in TradeConditions \cup QuoteConditions
      PROVE  c \notin FieldsOf(message) \cup Envelope(message) \cup message.flags
  BY <1>1, OwnNames DEF Made, FieldsOf, ItemFields, Envelope, Common
<1>3. ASSUME NEW c \in TradeConditions \cup QuoteConditions
      PROVE  c \notin {"message", "request", "session", "end"}
  BY OwnNames DEF Common
<1>4. ASSUME NEW f \in message.flags
      PROVE  f \notin FieldsOf(message) \cup {"message", "request", "session", "end"}
  <2>1. message.class = "stream_update_trade" /\ f \in TradeFlags
    BY <1>1 DEF Made
  <2>2. QED
    BY <2>1, FlagNames DEF FieldsOf, ItemFields, Common
<1>5. flags \cap (FieldsOf(message) \cup {"message", "request", "session", "end"}) = {}
  BY <1>1, <1>2, <1>3, <1>4 DEF Made
<1>6. /\ message.trade \subseteq TradeConditions /\ message.quote \subseteq QuoteConditions
      /\ message.class \notin HasTradeConditions => message.trade = {}
      /\ message.class \notin HasQuoteCondition => message.quote = {}
  BY <1>1 DEF Made
<1>7. FieldsIn(message) = FieldsOf(message) \cup message.trade \cup message.quote \cup message.flags
                          \cup Envelope(message)
  BY DEF FieldsIn, ConditionFields
<1>8. /\ message.class \in HasTradeConditions /\ message.class \in HasQuoteCondition
         => message.class = "stream_update_refresh"
  BY DEF HasTradeConditions, HasQuoteCondition
<1>9. message.class \in HasTradeConditions =>
         object.fields \cap (TradeConditions \ hidden) = message.trade \ hidden
  BY <1>1, <1>2, <1>6, <1>7, <1>8
<1>10. message.class \in HasQuoteCondition =>
         object.fields \cap (QuoteConditions \ hidden) = message.quote \ hidden
  BY <1>1, <1>2, <1>6, <1>7, <1>8
<1>11. QED
  BY <1>5, <1>9, <1>10 DEF ConditionsAreReadable

(* The conditions of a message, which value() sets as fields, can be read  *)
(* from its object, but for the names that trades and quotes share in a    *)
(* refresh, and no condition or flag hides another field.                  *)
THEOREM MessagesTellConditions == MessageSpec => []ConditionsAreReadable
<1>1. MessageInv => ConditionsAreReadable
  BY ObjectsAreReadable DEF ConditionsAreReadable
<1>2. QED
  BY <1>1, MessageSteps, PTL DEF MessageSpec

(* What the receivers take an object for.                                  *)
LEMMA ReadingsAreMeant ==
    ASSUME MessageInv, reading # Nothing
    PROVE  ReadAsMeant
<1> DEFINE m == message
           o == ObjectOf(m)
           end == IF m.end THEN {"ends"} ELSE {}
<1>1. Made(m) /\ object = o /\ reading = ReadingOf(o)
  BY DEF MessageInv
<1>2. /\ reading.handler = HandlerOf(o) /\ reading.quotes = ReadByQuotes(o)
      /\ reading.daily = ReadByDaily(o) /\ reading.holidays = ReadByHolidays(o)
      /\ reading.login = ReadAsLogin(o) /\ reading.extended = IsExtended(o)
  BY <1>1 DEF ReadingOf
<1>3. o.type = m.type /\ o.text = m.text
  BY DEF ObjectOf
<1>4. m.class \notin {"stream_subscribe_response", "stream_unsubscribe_response"} => m.type = m.class
  BY <1>1 DEF Made, TypeOf
<1>5. /\ m.class \notin HasTradeConditions \cup HasQuoteCondition => m.zero = {}
      /\ m.class \in HasTradeConditions \ HasQuoteCondition =>
            (m.zero = {} <=> "lastPrice" \notin m.zero)
      /\ m.class \in HasQuoteCondition \ HasTradeConditions =>
            (m.zero = {} <=> "bidPrice" \notin m.zero)
  BY <1>1, KeysOf DEF Made
<1>6. /\ Has(o, "error") <=> m.class = "error"
      /\ Has(o, "success") <=> m.class = "success"
      /\ Has(o, "begins") <=> m.class = "holiday"
      /\ Has(o, "loginResponse") <=> m.class = "login_response"
      /\ Has(o, "lastPrice") <=> m.class \in HasTradeConditions /\ "lastPrice" \notin m.zero
      /\ Has(o, "bidPrice") <=> m.class \in HasQuoteCondition /\ "bidPrice" \notin m.zero
      /\ Has(o, "end") <=> m.end
      /\ Has(o, "request") <=> m.request
      /\ Has(o, "preMarketVolume") <=> "preMarketVolume" \in m.flags
      /\ Has(o, "afterMarketVolume") <=> "afterMarketVolume" \in m.flags
  BY <1>1, FieldsFound
<1>7. m.end \in BOOLEAN /\ (m.class = "success" => ~m.end)
  BY <1>1 DEF Made
<1> HIDE DEF o, m
<1>8. m.class = "error" =>
        /\ reading.quotes = IF m.text = Invalid THEN {"continues"} \cup end ELSE {"fails"}
        /\ reading.daily = {"fails"} /\ reading.holidays = {"fails"}
  <2> SUFFICES ASSUME m.class = "error"
               PROVE  /\ reading.quotes = IF m.text = Invalid THEN {"continues"} \cup end ELSE {"fails"}
                      /\ reading.daily = {"fails"} /\ reading.holidays = {"fails"}
    OBVIOUS
  <2>1. ~Has(o, "lastPrice") /\ ~Has(o, "bidPrice") /\ Has(o, "error")
    BY <1>6 DEF HasTradeConditions, HasQuoteCondition
  <2>2. o.type = "error"
    BY <1>3, <1>4
  <2>3. reading.quotes = IF m.text = Invalid THEN {"continues"} \cup end ELSE {"fails"}
    BY <1>2, <1>3, <1>6, <2>1 DEF ReadByQuotes
  <2>4. reading.daily = {"fails"}
    BY <1>2, <2>2 DEF ReadByDaily
  <2>5. reading.holidays = {"fails"}
    BY <1>2, <2>1 DEF ReadByHolidays
  <2>6. QED
    BY <2>3, <2>4, <2>5
<1>9. m.class = "success" => reading.quotes = {"continues"} /\ reading.holidays = {}
  BY <1>2, <1>6, <1>7 DEF ReadByQuotes, ReadByHolidays, HasTradeConditions, HasQuoteCondition
<1>10. m.class = "tick_history_trade" =>
         reading.quotes = end \cup (IF m.zero = {} THEN {"trade"} ELSE {})
  BY <1>2, <1>5, <1>6 DEF ReadByQuotes, HasTradeConditions, HasQuoteCondition
<1>11. m.class = "tick_history_quote" =>
         reading.quotes = end \cup (IF m.zero = {} THEN {"quote"} ELSE {})
  BY <1>2, <1>5, <1>6 DEF ReadByQuotes, HasTradeConditions, HasQuoteCondition
<1>12. m.class = "holiday" => reading.holidays = {"holiday"} \cup end
  BY <1>2, <1>6 DEF ReadByHolidays
<1>13. /\ m.class = "bar_history" => reading.daily = {"bar"}
       /\ m.class = "response_complete" => reading.daily = {"ends"}
  BY <1>2, <1>3, <1>4 DEF ReadByDaily
<1>14. m.request <=> reading.handler = "dispatcher"
  BY <1>2, <1>6 DEF HandlerOf
<1>15. reading.extended <=> m.flags \cap {"preMarketVolume", "afterMarketVolume"} # {}
  BY <1>2, <1>6 DEF IsExtended
<1>16. m.class = "bar_history_response" =>
         reading.daily = IF m.text = "success" THEN {} ELSE {"fails"}
  BY <1>2, <1>3, <1>4 DEF ReadByDaily
<1>17. reading.login = IF m.class = "login_response" /\ m.text = "success"
                       THEN {"logged in"} ELSE {}
  BY <1>2, <1>3, <1>6 DEF ReadAsLogin
<1>18. QED
  BY <1>8, <1>9, <1>10, <1>11, <1>12, <1>13, <1>14, <1>15, <1>16, <1>17
     DEF ReadAsMeant, MeantAs, m

(* receive() and each dispatcher take an object for what the thread of the *)
(* API that made the message meant, whatever conditions and flags it has.  *)
THEOREM MessagesReadAsMeant == MessageSpec => []ReadAsMeant
<1>1. MessageInv => ReadAsMeant
  BY ReadingsAreMeant DEF ReadAsMeant
<1>2. QED
  BY <1>1, MessageSteps, PTL DEF MessageSpec
=============================================================================
