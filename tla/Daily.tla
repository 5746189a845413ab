------------------------------- MODULE Daily -------------------------------
(***************************************************************************)
(* One call of daily(symbol, beginDate, endDate, listener) in              *)
(* activetick.js: one request, answered by a header, bars and a trailer    *)
(* (onBarHistoryResponse).  The concluded request stays in the client's    *)
(* table for ten seconds with a handler that ignores what still comes.     *)
(*                                                                         *)
(* A key of the table is what send() returned, turned into a string: the   *)
(* request, the error object of a request that was not sent, or undefined  *)
(* while there is none.                                                    *)
(*                                                                         *)
(* Errors that concern no request matter here by the exception that takes  *)
(* the rest of a batch of messages with it.                                *)
(***************************************************************************)
EXTENDS Integers, Sequences, FiniteSets

CONSTANTS
    MaxBars,      \* bound: bars in an answer
    MaxCancels,   \* bound: calls of the function that daily() returned
    MaxLogouts,   \* bound: times the session is lost
    MayRace,      \* may the request time out although it is being answered?
    SendMayFail   \* may ATSendRequest fail?

ASSUME NumberAssumption ==
    /\ {MaxBars, MaxCancels, MaxLogouts} \subseteq Nat
    /\ MayRace \in BOOLEAN /\ SendMayFail \in BOOLEAN

VARIABLES
    loggedIn,     \* the client's variable
    waiting,      \* does requestBars wait in the client's queue?
    request,      \* daily()'s variable
    requests,     \* the client's table, as far as this call uses it
    timers,       \* for each key, timers that will delete it
    server,       \* how far the answer has got
    bars,         \* the bars of the answer
    posted,       \* how many of them are posted
    timedOut,     \* has a timeout raced the answer?
    urgent, ordinary,     \* messages on their way to the client, see Delivery
    told,         \* bars the listener has been told
    outcomes,     \* and outcomes, "completed" or "error"
    lost,         \* have messages to the client been lost?
    cancels,      \* how often it has been told "cancelled"
    called, logouts

client == <<loggedIn, waiting, request, requests, timers>>
api == <<server, bars, posted, timedOut>>
channel == <<urgent, ordinary>>
listener == <<told, outcomes>>
counters == <<called, cancels, logouts>>
vars == <<client, api, channel, listener, lost, counters>>

Keys == {"undefined", "unsent", "sent"}

Init ==
    /\ loggedIn \in BOOLEAN
    /\ waiting = FALSE
    /\ request = "undefined"
    /\ requests = [k \in Keys |-> "nothing"]
    /\ timers = [k \in Keys |-> 0]
    /\ server = "idle" /\ bars = <<>> /\ posted = 0 /\ timedOut = FALSE
    /\ urgent = <<>> /\ ordinary = <<>>
    /\ told = <<>> /\ outcomes = <<>> /\ lost = FALSE
    /\ called = FALSE /\ cancels = 0 /\ logouts = 0

-----------------------------------------------------------------------------
requestBars ==
    \E key \in IF SendMayFail THEN {"sent", "unsent"} ELSE {"sent"} :
        /\ request' = key
        /\ requests' = [requests EXCEPT ![key] = "dispatch"]
        /\ server' = IF key = "sent" THEN "open" ELSE server

Call ==
    /\ ~called
    /\ called' = TRUE
    /\ \/ loggedIn /\ requestBars /\ UNCHANGED waiting
       \/ ~loggedIn /\ waiting' = TRUE /\ UNCHANGED <<request, requests, server>>
    /\ UNCHANGED <<loggedIn, timers, bars, posted, timedOut, channel, listener, lost,
                   cancels, logouts>>

LogIn ==
    /\ ~loggedIn
    /\ loggedIn' = TRUE
    /\ waiting' = FALSE
    /\ \/ waiting /\ requestBars
       \/ ~waiting /\ UNCHANGED <<request, requests, server>>
    /\ UNCHANGED <<timers, bars, posted, timedOut, channel, listener, lost, counters>>

LogOut ==
    /\ loggedIn
    /\ logouts < MaxLogouts
    /\ logouts' = logouts + 1
    /\ loggedIn' = FALSE
    /\ UNCHANGED <<waiting, request, requests, timers, api, channel, listener, lost,
                   called, cancels>>

(* cancel(), under the key there is at the time.                           *)
ForgetLater == UNCHANGED requests /\ timers' = [timers EXCEPT ![request] = @ + 1]
IgnoreForEver == requests' = [requests EXCEPT ![request] = "noop"] /\ UNCHANGED timers
cancel ==
    /\ requests' = [requests EXCEPT ![request] = "noop"]
    /\ timers' = [timers EXCEPT ![request] = @ + 1]

(* The function that daily() returns.                                      *)
Cancel ==
    /\ called
    /\ cancels < MaxCancels
    /\ cancels' = cancels + 1
    /\ cancel
    /\ UNCHANGED <<loggedIn, waiting, request, api, channel, listener, lost, called, logouts>>

(* clear(), ten seconds after cancel().                                    *)
Clear ==
    /\ \E key \in Keys :
          /\ timers[key] > 0
          /\ timers' = [timers EXCEPT ![key] = @ - 1]
          /\ requests' = [requests EXCEPT ![key] = "nothing"]
    /\ UNCHANGED <<loggedIn, waiting, request, api, channel, listener, lost, counters>>

-----------------------------------------------------------------------------
(* dispatch() and its handlers; all messages are for the key "sent".       *)
OnResponse(m) ==
    /\ m.message = "bar-history-response"
    /\ \/ m.success /\ UNCHANGED <<requests, timers, listener>>
       \/ ~m.success /\ cancel /\ outcomes' = Append(outcomes, "error") /\ UNCHANGED told

OnBar(m) ==
    /\ m.message = "bar-history"
    /\ told' = Append(told, m.bar)
    /\ UNCHANGED <<requests, timers, outcomes>>

CompleteQuietly(m) ==
    /\ m.message = "response-complete"
    /\ cancel
    /\ UNCHANGED listener

OnComplete(m) ==
    /\ m.message = "response-complete"
    /\ cancel
    /\ outcomes' = Append(outcomes, "completed")
    /\ UNCHANGED told

OnError(m) ==
    /\ m.message = "error"
    /\ cancel
    /\ outcomes' = Append(outcomes, "error")
    /\ UNCHANGED told

dispatch(m) == OnResponse(m) \/ OnBar(m) \/ OnComplete(m) \/ OnError(m)

Receive(m) ==
    /\ \/ requests["sent"] = "dispatch" /\ dispatch(m)
       \/ requests["sent"] # "dispatch" /\ UNCHANGED <<requests, timers, listener>>
    /\ UNCHANGED <<loggedIn, waiting, request, api, lost, counters>>

ReceiveUrgent ==
    /\ urgent # <<>>
    /\ Receive(Head(urgent))
    /\ urgent' = Tail(urgent)
    /\ UNCHANGED ordinary

ReceiveOrdinary ==
    /\ ordinary # <<>>
    /\ Receive(Head(ordinary))
    /\ ordinary' = Tail(ordinary)
    /\ UNCHANGED urgent

(* The client's onError, on an error without a request, throws out of      *)
(* receiveMessages(); whatever follows it in the same batch is lost.       *)
RestOfTheCall == (0 .. Len(urgent)) \X (0 .. Len(ordinary))

LoseTheRest ==
    /\ \E rest \in RestOfTheCall \ {<<0, 0>>} :
          /\ urgent' = SubSeq(urgent, rest[1] + 1, Len(urgent))
          /\ ordinary' = SubSeq(ordinary, rest[2] + 1, Len(ordinary))
    /\ lost' = TRUE
    /\ UNCHANGED <<client, api, listener, counters>>

-----------------------------------------------------------------------------
(* onBarHistoryResponse, message by message; whatever fails in it, or the  *)
(* timeout of a request without answer, is an error.                       *)
Message(name, success, bar) == [message |-> name, success |-> success, bar |-> bar]

Post(m) == ordinary' = Append(ordinary, m) /\ UNCHANGED urgent
PostError == urgent' = Append(urgent, Message("error", FALSE, 0)) /\ UNCHANGED ordinary

PostResponse ==
    /\ server = "open"
    /\ server' = "bars"
    /\ \E n \in 0 .. MaxBars : bars' = [i \in 1 .. n |-> i]
    /\ \E success \in BOOLEAN : Post(Message("bar-history-response", success, 0))
    /\ UNCHANGED <<posted, timedOut>>

PostBar ==
    /\ server = "bars" /\ posted < Len(bars)
    /\ posted' = posted + 1
    /\ Post(Message("bar-history", TRUE, bars[posted']))
    /\ UNCHANGED <<server, bars, timedOut>>

AllPosted == posted = Len(bars)

PostComplete ==
    /\ server = "bars" /\ AllPosted
    /\ server' = "done"
    /\ Post(Message("response-complete", TRUE, 0))
    /\ UNCHANGED <<bars, posted, timedOut>>

PostFailure ==
    /\ server \in {"open", "bars"}
    /\ server' = "done"
    /\ PostError
    /\ UNCHANGED <<bars, posted, timedOut>>

RacingTimeout ==
    /\ MayRace /\ server # "idle" /\ ~timedOut
    /\ timedOut' = TRUE
    /\ PostError
    /\ UNCHANGED <<server, bars, posted>>

Respond ==
    /\ PostResponse \/ PostBar \/ PostComplete \/ PostFailure
    /\ UNCHANGED <<client, listener, lost, counters>>

(* pushError finds priority full as well and throws out of the handler: no *)
(* error is posted.                                                        *)
Escape ==
    /\ server \in {"open", "bars"}
    /\ server' = "done"
    /\ lost' = TRUE
    /\ UNCHANGED <<client, bars, posted, timedOut, channel, listener, counters>>

Race == RacingTimeout /\ UNCHANGED <<client, listener, lost, counters>>

Next ==
    \/ Call \/ Cancel \/ Clear \/ LogIn \/ LogOut
    \/ ReceiveUrgent \/ ReceiveOrdinary \/ LoseTheRest
    \/ Respond \/ Race \/ Escape

Spec == Init /\ [][Next]_vars

(* The API answers, the loop delivers and runs timers, and the client is   *)
(* logged in again.                                                        *)
FairSpec ==
    /\ Spec
    /\ WF_vars(Respond) /\ WF_vars(ReceiveUrgent) /\ WF_vars(ReceiveOrdinary)
    /\ WF_vars(Clear) /\ WF_vars(LogIn)

-----------------------------------------------------------------------------
Messages ==
    [message : {"bar-history-response", "bar-history", "response-complete", "error"},
     success : BOOLEAN, bar : Nat]

TypeOK ==
    /\ loggedIn \in BOOLEAN /\ waiting \in BOOLEAN
    /\ request \in Keys
    /\ requests \in [Keys -> {"nothing", "noop", "dispatch"}]
    /\ timers \in [Keys -> Nat]
    /\ server \in {"idle", "open", "bars", "done"}
    /\ bars \in Seq(Nat) /\ posted \in 0 .. Len(bars)
    /\ timedOut \in BOOLEAN
    /\ urgent \in Seq(Messages) /\ ordinary \in Seq(Messages)
    /\ told \in Seq(Nat)
    /\ outcomes \in Seq({"completed", "error"})
    /\ lost \in BOOLEAN
    /\ called \in BOOLEAN
    /\ cancels \in 0 .. MaxCancels /\ logouts \in 0 .. MaxLogouts

(* The call as its listener sees it.  It is open until the first outcome,  *)
(* unless that was a cancellation before there was a request.              *)
Listening == waiting \/ "dispatch" \in {requests[k] : k \in Keys}

Coming == {i \in DOMAIN ordinary : ordinary[i].message = "bar-history"}
Passed == posted - Cardinality(Coming)

Abstract == INSTANCE HistoryCall WITH
    open <- Listening,
    asked <- request # "undefined",
    answer <- bars,
    passed <- Passed

(* daily() keeps what HistoryCall promises: the listener is told the bars  *)
(* in order, all of them before complete unless some were lost, at most one*)
(* of error and complete, nothing after either, and nothing after a        *)
(* cancellation unless requestBars was waiting - for failed headers,       *)
(* timeouts racing the answer, exceptions in the middle of it or of a batch*)
(* and messages that come before or after the request is cleared.          *)
ImplementsHistoryCall == Abstract!Spec

(* Every call comes to an outcome, unless its request was not sent or      *)
(* messages are lost, and when it has come to one its request leaves the   *)
(* table.  If it was cancelled before its request was made, the request is *)
(* made all the same and stays, if its answer is lost.                     *)
Concluded == outcomes # <<>> \/ cancels > 0
NotSent == requests["unsent"] = "dispatch"
Concludes == called ~> (Concluded \/ NotSent \/ lost)
AnswerLost == lost /\ outcomes = <<>>
Forgotten ==
    Concluded ~> (\A k \in Keys : requests[k] = "nothing") \/ NotSent \/ AnswerLost
=============================================================================
