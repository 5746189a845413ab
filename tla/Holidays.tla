------------------------------ MODULE Holidays ------------------------------
(***************************************************************************)
(* One call of holidays(year, listener) in activetick.js: one request for  *)
(* the years between the current one and year, answered with the holidays  *)
(* of all exchanges in all of them (onHolidaysResponse), of which the      *)
(* client tells the listener those of the year and of US stocks.           *)
(*                                                                         *)
(* The years are relative: the client counts them from its clock when it   *)
(* makes the request, the server from its own when it answers, and in      *)
(* between they are cut to the bits of a uint8_t.                          *)
(*                                                                         *)
(* Errors that concern no request matter here by the exception that takes  *)
(* the rest of a batch of messages with it.                                *)
(***************************************************************************)
EXTENDS Integers, Sequences, FiniteSets

CONSTANTS
    Years,        \* years an application may ask for
    FirstYear, LastYear,  \* bounds: the clock at first and at last
    Width,        \* values of a uint8_t; 256 in the code
    USStocks,     \* the exchange "S U" ...
    Elsewhere,    \* ... and another one
    Order,        \* the exchanges of a year's holidays, in the order of the answer
    MaxCancels,   \* bound: calls of the function that holidays() returned
    MaxLogouts,   \* bound: times the session is lost
    MayRace,      \* may the request time out although it is being answered?
    SendMayFail   \* may ATSendRequest fail?

ASSUME NumberAssumption ==
    /\ Years \subseteq Int /\ {FirstYear, LastYear} \subseteq Int
    /\ Width \in Nat \ {0}
    /\ {MaxCancels, MaxLogouts} \subseteq Nat
    /\ USStocks # Elsewhere
    /\ Order \in Seq({USStocks, Elsewhere}) /\ Order # <<>>
    /\ MayRace \in BOOLEAN /\ SendMayFail \in BOOLEAN

VARIABLES
    now,          \* the year it is, at the client and at the server
    year,         \* the argument
    loggedIn,     \* the client's variable
    waiting,      \* does requestHolidays wait in the client's queue?
    request,      \* holidays()'s variable
    handled,      \* keys in the client's table that have dispatch
    asked,        \* the years requested, and when
    server,       \* how far the answer has got
    items,        \* the holidays of the answer
    answered,     \* the year it is answered in
    posted,       \* how many of them are posted
    timedOut,     \* has a timeout raced the answer?
    urgent, ordinary,     \* messages on their way to the client, see Delivery
    told,         \* holidays the listener has been told
    outcomes,     \* and outcomes, "completed" or "error"
    lost,         \* have messages to the client been lost?
    cancels,      \* how often it has been told "cancelled"
    called, logouts

client == <<year, loggedIn, waiting, request, handled, asked>>
api == <<server, items, answered, posted, timedOut>>
channel == <<urgent, ordinary>>
listener == <<told, outcomes>>
counters == <<called, cancels, logouts>>
vars == <<now, client, api, channel, listener, lost, counters>>

Holiday == [year : Int, exchange : {USStocks, Elsewhere}, day : Nat]

-----------------------------------------------------------------------------
(* holidays() of ActiveTickServerAPI.node.cpp.                             *)
GoingBack(yearIndex) == IF yearIndex < 0 THEN (-yearIndex) % Width ELSE 0
GoingForward(yearIndex) == IF yearIndex < 0 THEN 0 ELSE yearIndex % Width

NotAsked == [back |-> 0, forward |-> 0, at |-> 0]

Init ==
    /\ now = FirstYear
    /\ year \in Years
    /\ loggedIn \in BOOLEAN
    /\ waiting = FALSE
    /\ request = "undefined" /\ handled = {}
    /\ asked = NotAsked
    /\ server = "idle" /\ items = <<>> /\ answered = FirstYear
    /\ posted = 0 /\ timedOut = FALSE
    /\ urgent = <<>> /\ ordinary = <<>>
    /\ told = <<>> /\ outcomes = <<>> /\ lost = FALSE
    /\ called = FALSE /\ cancels = 0 /\ logouts = 0

NewYear ==
    /\ now < LastYear
    /\ now' = now + 1
    /\ UNCHANGED <<client, api, channel, listener, lost, counters>>

WhenLoaded == FirstYear
thisYear == now

requestHolidays ==
    LET relativeYear == year - thisYear
    IN  \E key \in IF SendMayFail THEN {"sent", "unsent"} ELSE {"sent"} :
            /\ request' = key
            /\ handled' = handled \cup {key}
            /\ asked' = [back |-> GoingBack(relativeYear),
                         forward |-> GoingForward(relativeYear), at |-> now]
            /\ server' = IF key = "sent" THEN "open" ELSE server

Call ==
    /\ ~called
    /\ called' = TRUE
    /\ \/ loggedIn /\ requestHolidays /\ UNCHANGED waiting
       \/ ~loggedIn /\ waiting' = TRUE /\ UNCHANGED <<request, handled, asked, server>>
    /\ UNCHANGED <<now, year, loggedIn, items, answered, posted, timedOut, channel, listener,
                   lost, cancels, logouts>>

LogIn ==
    /\ ~loggedIn
    /\ loggedIn' = TRUE
    /\ waiting' = FALSE
    /\ \/ waiting /\ requestHolidays
       \/ ~waiting /\ UNCHANGED <<request, handled, asked, server>>
    /\ UNCHANGED <<now, year, items, answered, posted, timedOut, channel, listener, lost, counters>>

LogOut ==
    /\ loggedIn
    /\ logouts < MaxLogouts
    /\ logouts' = logouts + 1
    /\ loggedIn' = FALSE
    /\ UNCHANGED <<now, year, waiting, request, handled, asked, api, channel, listener,
                   lost, called, cancels>>

(* The function that holidays() returns.                                   *)
Remaining == handled
Forgotten == handled \ {request}

Cancel ==
    /\ called
    /\ cancels < MaxCancels
    /\ cancels' = cancels + 1
    /\ handled' = Forgotten
    /\ UNCHANGED <<now, year, loggedIn, waiting, request, asked, api, channel, listener,
                   lost, called, logouts>>

-----------------------------------------------------------------------------
(* dispatch(), for the key "sent".                                         *)
IsTold(h) == h.year = year /\ h.exchange = USStocks

Conclude(outcome) ==
    /\ handled' = handled \ {"sent"}
    /\ outcomes' = Append(outcomes, outcome)

dispatch(m) ==
    \/ /\ m.message = "error"
       /\ Conclude("error")
       /\ UNCHANGED told
    \/ /\ m.message = "holiday"
       /\ told' = IF IsTold(items[m.item]) THEN Append(told, items[m.item]) ELSE told
       /\ IF m.end THEN Conclude("completed") ELSE UNCHANGED <<handled, outcomes>>
    \/ /\ m.message = "success"
       /\ UNCHANGED <<handled, listener>>

Receive(m) ==
    /\ \/ "sent" \in handled /\ dispatch(m)
       \/ "sent" \notin handled /\ UNCHANGED <<handled, listener>>
    /\ UNCHANGED <<now, year, loggedIn, waiting, request, asked, api, lost, counters>>

ReceiveUrgent ==
    /\ urgent # <<>>
    /\ Receive(Head(urgent))
    /\ urgent' = Tail(urgent)
    /\ UNCHANGED ordinary

ReceiveOrdinary ==
    /\ ordinary # <<>>
    /\ Receive(Head(ordinary))
    /\ ordinary' = Tail(ordinary)
    /\ UNCHANGED urgent

(* The client's onError, on an error without a request, throws out of      *)
(* receiveMessages(); whatever follows it in the same batch is lost.       *)
RestOfTheCall == (0 .. Len(urgent)) \X (0 .. Len(ordinary))

LoseTheRest ==
    /\ \E rest \in RestOfTheCall \ {<<0, 0>>} :
          /\ urgent' = SubSeq(urgent, rest[1] + 1, Len(urgent))
          /\ ordinary' = SubSeq(ordinary, rest[2] + 1, Len(ordinary))
    /\ lost' = TRUE
    /\ UNCHANGED <<now, client, api, listener, counters>>

-----------------------------------------------------------------------------
(* The server answers: the holidays of all exchanges, year by year.        *)
PerYear == Len(Order)
HolidayOf(y, d) == [year |-> y, exchange |-> Order[d], day |-> d]
Calendar(from, to) ==
    [i \in 1 .. PerYear * (to - from + 1) |->
        HolidayOf(from + ((i - 1) \div PerYear), ((i - 1) % PerYear) + 1)]

Answer ==
    /\ server = "open"
    /\ server' = "items"
    /\ items' = Calendar(now - asked.back, now + asked.forward)
    /\ answered' = now
    /\ UNCHANGED <<posted, timedOut, channel>>

(* onHolidaysResponse, message by message.                                 *)
Message(name, item, end) == [message |-> name, item |-> item, end |-> end]
PostUrgent(name) == urgent' = Append(urgent, Message(name, 0, name = "error")) /\ UNCHANGED ordinary

NoneIsLast == posted = Len(items)
IsLast == posted + 1 = Len(items)

PostHoliday ==
    /\ server = "items" /\ posted < Len(items)
    /\ posted' = posted + 1
    /\ ordinary' = Append(ordinary, Message("holiday", posted', IsLast))
    /\ UNCHANGED <<server, items, answered, timedOut, urgent>>

PostSuccess ==
    /\ server = "items" /\ posted = Len(items)
    /\ server' = "done"
    /\ PostUrgent("success")
    /\ UNCHANGED <<items, answered, posted, timedOut>>

PostFailure ==
    /\ server \in {"open", "items"}
    /\ server' = "done"
    /\ PostUrgent("error")
    /\ UNCHANGED <<items, answered, posted, timedOut>>

RacingTimeout ==
    /\ MayRace /\ server # "idle" /\ ~timedOut
    /\ timedOut' = TRUE
    /\ PostUrgent("error")
    /\ UNCHANGED <<server, items, answered, posted>>

Respond ==
    /\ Answer \/ PostHoliday \/ PostSuccess \/ PostFailure
    /\ UNCHANGED <<now, client, listener, lost, counters>>

(* pushError finds priority full as well and throws out of the handler: no *)
(* verdict is posted.                                                      *)
Escape ==
    /\ server \in {"open", "items"}
    /\ server' = "done"
    /\ lost' = TRUE
    /\ UNCHANGED <<now, client, items, answered, posted, timedOut, channel, listener, counters>>

Race == RacingTimeout /\ UNCHANGED <<now, client, listener, lost, counters>>

Next ==
    \/ NewYear
    \/ Call \/ Cancel \/ LogIn \/ LogOut
    \/ ReceiveUrgent \/ ReceiveOrdinary \/ LoseTheRest
    \/ Respond \/ Race \/ Escape

Spec == Init /\ [][Next]_vars

(* The API answers, the loop delivers, and the client is logged in again.  *)
FairSpec ==
    /\ Spec
    /\ WF_vars(Respond) /\ WF_vars(ReceiveUrgent) /\ WF_vars(ReceiveOrdinary)
    /\ WF_vars(LogIn)

-----------------------------------------------------------------------------
Messages ==
    [message : {"error", "success", "holiday"}, item : Nat, end : BOOLEAN]

TypeOK ==
    /\ now \in Int /\ answered \in Int /\ year \in Years
    /\ loggedIn \in BOOLEAN /\ waiting \in BOOLEAN
    /\ request \in {"undefined", "unsent", "sent"}
    /\ handled \subseteq {"unsent", "sent"}
    /\ asked \in [back : Nat, forward : Nat, at : Int]
    /\ server \in {"idle", "open", "items", "done"}
    /\ items \in Seq(Holiday) /\ posted \in 0 .. Len(items)
    /\ timedOut \in BOOLEAN
    /\ urgent \in Seq(Messages) /\ ordinary \in Seq(Messages)
    /\ told \in Seq(Holiday)
    /\ outcomes \in Seq({"completed", "error"})
    /\ lost \in BOOLEAN
    /\ called \in BOOLEAN
    /\ cancels \in 0 .. MaxCancels /\ logouts \in 0 .. MaxLogouts

(* What the listener is to be told of a list of holidays: the k-th holiday *)
(* that it is told is the one up to which there are k.                     *)
Rank(s, i) == Cardinality({j \in 1 .. i : IsTold(s[j])})
Picked(s) ==
    [k \in 1 .. Rank(s, Len(s)) |->
        s[CHOOSE i \in 1 .. Len(s) : IsTold(s[i]) /\ Rank(s, i) = k]]

(* "completed" means that the listener was told all holidays of the year,  *)
(* on condition that no message was lost, that the year is within reach of *)
(* a uint8_t and that no New Year came between the request and its answer. *)
(* It may come before: a call that waits for the login over New Year counts*)
(* from the new year.                                                      *)
Distance == IF year < asked.at THEN asked.at - year ELSE year - asked.at
WholeYear ==
    /\ "completed" \in {outcomes[i] : i \in DOMAIN outcomes}
    /\ ~lost
    /\ Distance < Width
    /\ asked.at = answered
    => told = Picked(Calendar(year, year))

(* The call as its listener sees it.                                       *)
Listening == waiting \/ handled # {}
Passed == Rank(items, posted - Len(ordinary))
Abstract == INSTANCE HistoryCall WITH
    open <- Listening,
    asked <- request # "undefined",
    answer <- Picked(items),
    passed <- Passed

(* holidays() keeps what HistoryCall promises although success and errors  *)
(* overtake the records: all holidays of the answer before completed unless*)
(* some were lost, at most one of error and completed, nothing after       *)
(* either, and nothing after a cancellation unless it came before the      *)
(* request was made.                                                       *)
ImplementsHistoryCall == Abstract!Spec

(* Every call comes to an outcome, unless its request was not sent or      *)
(* messages are lost.                                                      *)
Concludes == called ~> (outcomes # <<>> \/ cancels > 0 \/ request = "unsent" \/ lost)
=============================================================================
