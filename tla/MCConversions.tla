--------------------------- MODULE MCConversions ---------------------------
(***************************************************************************)
(* Conversions for TLC: a behaviour is one of Times, of Messages or of     *)
(* ItemLoops.                                                              *)
(***************************************************************************)
EXTENDS Conversions

VARIABLE part     \* the module whose behaviour it is

(* Days before, at and after the change of the clock, and a tick at every  *)
(* quarter of a second and next to it.                                     *)
MCDays == {0, 2000, 7500, 8500, 10000, 13200}
MCTicks == {250 * k + d : k \in 0 .. 80, d \in {0, 1, 249}}

(* A trade with at most two conditions, a stream update with one flag.     *)
MCTradeChoices == AtMostOne(TradeConditions) \cup {{c, d} : c, d \in TradeConditions}
MCFlagChoices == AtMostOne(TradeFlags)

NoTick == startOfDay = 0 /\ begin = 0 /\ tick = 0 /\ received = <<>>
NoLoop ==
    /\ loop = "bars" /\ count = 0 /\ index = 0 /\ pc = "done"
    /\ posted = 0 /\ ended = 1 /\ strange = FALSE

MCInit ==
    /\ NoMessage
    /\ \/ part = "times" /\ Init /\ NoLoop
       \/ part = "messages" /\ NoTick /\ NoLoop
       \/ part = "loops" /\ NoTick /\ L!Init

MCNext ==
    /\ UNCHANGED part
    /\ \/ part = "times" /\ Next /\ UNCHANGED <<messageVars, loops>>
       \/ part = "messages" /\ MessageNext /\ UNCHANGED <<vars, loops>>
       \/ part = "loops" /\ L!Next /\ UNCHANGED <<vars, messageVars>>

MCSpec == MCInit /\ [][MCNext]_<<part, vars, messageVars, loops>>
=============================================================================
