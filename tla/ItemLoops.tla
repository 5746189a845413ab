----------------------------- MODULE ItemLoops -----------------------------
(***************************************************************************)
(* The loops of the handlers over the items of a response, with integers   *)
(* of their width: Max16 values of a uint16_t and Max32 of a uint32_t.     *)
(* Three of them count to last = count - 1, inclusively, and unsigned.     *)
(* The loop over stream items counts with a uint16_t; how wide its count   *)
(* is says the header of the SDK, which the repository does not have, so   *)
(* both widths are modelled ("stream" and "wide").                         *)
(***************************************************************************)
EXTENDS Integers

CONSTANTS
    Max16, Max32, \* 2^16 and 2^32 in the code
    MaxCount      \* bound: items in a response

(* What the module that instantiates this one must give it.                *)
WidthAssumption ==
    /\ {Max16, Max32, MaxCount} \subseteq Nat
    /\ 0 < Max16 /\ Max16 < Max32
    /\ MaxCount < Max32

VARIABLES
    loop,         \* "stream", "wide", "holidays", "ticks" or "bars"
    count,        \* items in the response
    i,            \* the index
    pc,           \* "loop" or "done"
    posted,       \* items posted, each once
    ended,        \* how many of them were posted as the last one
    strange       \* has memory behind the response been posted as an item?

vars == <<loop, count, i, pc, posted, ended, strange>>

Loops == {"stream", "wide", "holidays", "ticks", "bars"}

(* A 16-bit count is promoted to int before 1 is taken from it.            *)
LastOf(l, n) == IF l = "stream" THEN n - 1 ELSE (n - 1) % Max32
NarrowIndex(l, n) == (n + 1) % Max16
NextIndex(l, n) == IF l \in {"stream", "wide"} THEN (n + 1) % Max16 ELSE (n + 1) % Max32

last == LastOf(loop, count)
BelowLast == i < last
UpToLast == i <= last
More == IF loop = "bars" THEN i < count ELSE UpToLast

Init ==
    /\ loop \in Loops
    /\ count \in 0 .. MaxCount
    /\ loop = "stream" => count < Max16
    /\ i = 0 /\ pc = "loop"
    /\ posted = 0
    \* a stream response without items is posted as a message that ends it
    /\ ended = IF loop \in {"stream", "wide"} /\ count = 0 THEN 1 ELSE 0
    /\ strange = FALSE

(* After count items the loop reads on behind the response.                *)
Step ==
    /\ pc = "loop" /\ More
    /\ i' = NextIndex(loop, i)
    /\ posted' = IF i = posted /\ i < count THEN posted + 1 ELSE posted
    /\ ended' = IF loop # "bars" /\ i = last /\ ended < 2 THEN ended + 1 ELSE ended
    /\ strange' = (strange \/ i >= count)
    /\ UNCHANGED <<loop, count, pc>>

(* The trailer of a bar history.                                           *)
Finish ==
    /\ pc = "loop" /\ ~More
    /\ pc' = "done"
    /\ ended' = IF loop = "bars" THEN ended + 1 ELSE ended
    /\ UNCHANGED <<loop, count, i, posted, strange>>

Next == Step \/ Finish
Spec == Init /\ [][Next]_vars

-----------------------------------------------------------------------------
(* The responses the loops are made for: an empty list of holidays or      *)
(* ticks is not among them, nor more stream items than a uint16_t counts.  *)
Handled ==
    /\ loop \in {"holidays", "ticks"} => count > 0
    /\ loop = "wide" => count \in 1 .. Max16 - 1

(* Every item is posted once, exactly one message ends the response, and   *)
(* nothing is read that is not part of it.                                 *)
EveryItemOnce ==
    /\ Handled => ~strange
    /\ pc = "done" => posted = count /\ ended = 1

(* A handler returns from its loop: the index only grows, and by           *)
(* EveryItemOnce not beyond the count.  With an empty list of holidays or  *)
(* ticks (node.cpp:180, 198) it does not return, and reads behind the      *)
(* response.                                                               *)
OnlyForward == [][Handled => i' > i \/ pc' = "done"]_vars
=============================================================================
