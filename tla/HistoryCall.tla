---------------------------- MODULE HistoryCall ----------------------------
(***************************************************************************)
(* What the listener of a history call that makes one request may rely on  *)
(* (daily() and holidays() of activetick.js): it is told the records of    *)
(* the answer in order, then one outcome and nothing after it; "completed" *)
(* only when it was told them all, unless some were lost on their way.  A  *)
(* cancellation ends the call as well, but not when the request is still   *)
(* to be made, and it is told always.                                      *)
(***************************************************************************)
EXTENDS Naturals, Sequences

VARIABLES
    open,         \* may the listener still be told records and an outcome?
    asked,        \* has the request been made?
    answer,       \* the records the listener should be told
    passed,       \* how many of them have been told, ignored or lost
    told,         \* the records it has been told
    lost,         \* has anything been lost?
    outcomes,     \* and the outcomes, "completed" or "error"
    cancels       \* how often it has been told "cancelled"

vars == <<open, asked, answer, passed, told, lost, outcomes, cancels>>

Init ==
    /\ open = FALSE /\ asked = FALSE
    /\ answer = <<>> /\ passed = 0 /\ told = <<>> /\ lost = FALSE
    /\ outcomes = <<>> /\ cancels = 0

Call ==
    /\ ~open /\ ~asked
    /\ open' = TRUE
    /\ asked' \in BOOLEAN
    /\ UNCHANGED <<answer, passed, told, lost, outcomes, cancels>>

Ask ==
    /\ open /\ ~asked
    /\ asked' = TRUE
    /\ UNCHANGED <<open, answer, passed, told, lost, outcomes, cancels>>

Answer ==
    /\ asked /\ answer = <<>> /\ told = <<>>
    /\ answer' # <<>>
    /\ UNCHANGED <<open, asked, passed, told, lost, outcomes, cancels>>

(* The next record of the answer.                                          *)
Tell ==
    /\ open /\ asked
    /\ passed < Len(answer)
    /\ passed' = passed + 1
    /\ told' = Append(told, answer[passed'])
    /\ UNCHANGED <<open, asked, answer, lost, outcomes, cancels>>

(* Records that come when the call is over.                                *)
Ignore ==
    /\ ~open
    /\ passed' \in passed .. Len(answer)
    /\ UNCHANGED <<open, asked, answer, told, lost, outcomes, cancels>>

(* Records, the outcome or both are lost.                                  *)
Lose ==
    /\ lost' = TRUE
    /\ passed' \in passed .. Len(answer)
    /\ UNCHANGED <<open, asked, answer, told, outcomes, cancels>>

Complete ==
    /\ open /\ asked
    /\ passed = Len(answer)
    /\ lost \/ told = answer
    /\ open' = FALSE
    /\ outcomes' = Append(outcomes, "completed")
    /\ UNCHANGED <<asked, answer, passed, told, lost, cancels>>

(* A record that is flagged as the last one is told, and the call ends.    *)
TellLast ==
    /\ open /\ asked
    /\ passed + 1 = Len(answer)
    /\ passed' = passed + 1
    /\ told' = Append(told, answer[passed'])
    /\ lost \/ told' = answer
    /\ open' = FALSE
    /\ outcomes' = Append(outcomes, "completed")
    /\ UNCHANGED <<asked, answer, lost, cancels>>

Fail ==
    /\ open /\ asked
    /\ open' = FALSE
    /\ outcomes' = Append(outcomes, "error")
    /\ UNCHANGED <<asked, answer, passed, told, lost, cancels>>

Cancel ==
    /\ cancels' = cancels + 1
    /\ open' = (open /\ ~asked)
    /\ UNCHANGED <<asked, answer, passed, told, lost, outcomes>>

Next ==
    \/ Call \/ Ask \/ Answer
    \/ Tell \/ Ignore \/ Lose
    \/ Complete \/ TellLast \/ Fail \/ Cancel

Spec == Init /\ [][Next]_vars
=============================================================================
