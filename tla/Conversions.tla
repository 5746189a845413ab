---------------------------- MODULE Conversions ----------------------------
(***************************************************************************)
(* The three modules about conversions: the times of a tick history        *)
(* (Times), messages on their way to JavaScript (Messages) and the loops   *)
(* over the items of a response (ItemLoops).  They have no state in common.*)
(***************************************************************************)
EXTENDS Times, Messages

CONSTANTS Max16, Max32, MaxCount

VARIABLES loop, count, index, pc, posted, ended, strange

loops == <<loop, count, index, pc, posted, ended, strange>>

L == INSTANCE ItemLoops WITH i <- index

ASSUME LoopAssumption == L!WidthAssumption

-----------------------------------------------------------------------------
(* What ItemLoops says of the loops over the items of a response.          *)
EveryItemOnce == L!EveryItemOnce
OnlyForward == L!OnlyForward
=============================================================================
