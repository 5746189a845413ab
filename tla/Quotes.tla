------------------------------- MODULE Quotes -------------------------------
(***************************************************************************)
(* One call of quotes(symbol, date, listener) in activetick.js: the ticks  *)
(* of a day, asked for interval by interval, each when the one before is   *)
(* answered.  The records of an answer come through q, its success or its  *)
(* error as an urgent message that may overtake them (Delivery).  The rest *)
(* of the client matters by logging in and out, see Client, and by an      *)
(* exception that takes the rest of a batch of messages with it.           *)
(*                                                                         *)
(* Times are counted in intervals from the beginning of the day.           *)
(***************************************************************************)
EXTENDS Integers, Sequences, FiniteSets

CONSTANTS
    Intervals,    \* intervals of a day; 90 in the code
    MaxRecords,   \* bound: records in an answer
    MaxLogouts,   \* bound: times the session is lost
    MaxRaces,     \* bound: requests that time out although they are being answered
    SendMayFail   \* may ATSendRequest fail?

ASSUME NumberAssumption ==
    /\ Intervals \in Nat \ {0}
    /\ MaxRecords \in Nat \ {0}
    /\ MaxLogouts \in Nat /\ MaxRaces \in Nat
    /\ SendMayFail \in BOOLEAN

VARIABLES
    loggedIn,     \* the client's variable
    queue,        \* begins of intervals that wait for the login
    asked,        \* the requests made so far, with the locals of their dispatcher
    handled,      \* requests that have their dispatcher in the client's table
    request,      \* quotes()'s variable: the latest request, or 0
    open,         \* requests the API will still answer
    timedOut,     \* requests whose timeout raced their answer
    urgent, ordinary,   \* messages on their way to the client
    events,       \* what the listener has been told
    lost,         \* have messages to the client been lost?
    called, cancelled, logouts

channel == <<urgent, ordinary>>
vars == <<loggedIn, queue, asked, handled, request, open, timedOut, channel, events,
          lost, called, cancelled, logouts>>

Record(r, n, end) == [type |-> "record", request |-> r, number |-> n, end |-> end]
Success(r) == [type |-> "success", request |-> r, number |-> 0, end |-> FALSE]
Error(r, type) == [type |-> type, request |-> r, number |-> 0, end |-> TRUE]

(* begin, ended and last are dispatcher's, the others the answer's.        *)
Dispatcher(begin) ==
    [begin |-> begin, ended |-> FALSE, last |-> FALSE, total |-> 0, posted |-> 0]

Init ==
    /\ loggedIn \in BOOLEAN
    /\ queue = <<>>
    /\ asked = <<>>
    /\ handled = {} /\ open = {} /\ timedOut = {}
    /\ request = 0
    /\ urgent = <<>> /\ ordinary = <<>>
    /\ events = <<>>
    /\ lost = FALSE
    /\ called = FALSE /\ cancelled = "no"
    /\ logouts = 0

-----------------------------------------------------------------------------
(* The actions that requestTicks hands to whenLoggedIn: a request that is  *)
(* not sent gets a dispatcher as well, under a key that no answer has.     *)
AskFor(begins, dispatchers, handlers) ==
    LET new == Len(asked) + 1 .. Len(asked) + Len(begins)
    IN  /\ asked' = dispatchers \o [i \in DOMAIN begins |-> Dispatcher(begins[i])]
        /\ handled' = handlers \cup new
        /\ request' = IF begins = <<>> THEN request ELSE Len(asked) + Len(begins)
        /\ \E sent \in IF SendMayFail THEN SUBSET new ELSE {new} : open' = open \cup sent

StopsEarly(begin) == begin + 1 >= Intervals
AfterTheDay(begin) == begin >= Intervals

(* requestTicks(begin), with what becomes of the dispatchers besides.      *)
requestTicks(begin, dispatchers, handlers) ==
    IF AfterTheDay(begin)
    THEN AskFor(<<>>, dispatchers, handlers) /\ UNCHANGED queue
    ELSE IF loggedIn
    THEN AskFor(<<begin>>, dispatchers, handlers) /\ UNCHANGED queue
    ELSE AskFor(<<>>, dispatchers, handlers) /\ queue' = Append(queue, begin)

Call ==
    /\ ~called
    /\ called' = TRUE
    /\ requestTicks(0, asked, handled)
    /\ UNCHANGED <<loggedIn, timedOut, channel, events, lost, cancelled, logouts>>

LogIn ==
    /\ ~loggedIn
    /\ loggedIn' = TRUE
    /\ queue' = <<>>
    /\ AskFor(queue, asked, handled)
    /\ UNCHANGED <<timedOut, channel, events, lost, called, cancelled, logouts>>

LogOut ==
    /\ loggedIn
    /\ logouts < MaxLogouts
    /\ logouts' = logouts + 1
    /\ loggedIn' = FALSE
    /\ UNCHANGED <<queue, asked, handled, request, open, timedOut, channel, events,
                   lost, called, cancelled>>

(* The function that quotes() returns.  It forgets the latest request only *)
(* and leaves an interval that waits for the login where it is.            *)
ForgetsNothing == handled
WithoutLatest == handled \ {request}

Cancel ==
    /\ called /\ cancelled = "no"
    /\ cancelled' = IF queue = <<>> THEN "idle queue" ELSE "waiting"
    /\ handled' = WithoutLatest
    /\ events' = Append(events, [type |-> "cancelled"])
    /\ UNCHANGED <<loggedIn, queue, asked, request, open, timedOut, channel, lost, called, logouts>>

-----------------------------------------------------------------------------
(* The dispatcher of request m.request on message m.                       *)
ContinuesOnEnd(m) == m.end \/ m.type = "success"
ContinuesAtOnce(m) == m.type # "error"
Continues(m) == m.type \in {"success", "invalid"}
EndsWithRecord(d, m) == m.end
EndsOnce(d, m) == d.ended \/ m.end

DispatchFatal(m) ==
    /\ m.type = "error"
    /\ handled' = handled \ {m.request}
    /\ events' = Append(events, [type |-> "error"])
    /\ UNCHANGED <<queue, asked, request, open>>

Dispatch(m) ==
    LET d == asked[m.request]
        next == d.begin + 1
        ended == EndsOnce(d, m)
        last == IF Continues(m) THEN AfterTheDay(next) ELSE d.last
        dispatchers == [asked EXCEPT ![m.request].ended = ended, ![m.request].last = last]
        record == IF m.type = "record"
                  THEN <<[type |-> "record", request |-> m.request, number |-> m.number]>>
                  ELSE <<>>
        completed == IF ended /\ last THEN <<[type |-> "completed"]>> ELSE <<>>
        handlers == IF ended /\ last THEN handled \ {m.request} ELSE handled
    IN  /\ m.type # "error"
        /\ events' = events \o record \o completed
        /\ IF Continues(m)
           THEN requestTicks(next, dispatchers, handlers)
           ELSE AskFor(<<>>, dispatchers, handlers) /\ UNCHANGED queue

Receive(m) ==
    \/ m.request \in handled /\ (DispatchFatal(m) \/ Dispatch(m))
    \/ m.request \notin handled /\ UNCHANGED <<queue, asked, handled, request, open, events>>

ReceiveUrgent ==
    /\ urgent # <<>>
    /\ Receive(Head(urgent))
    /\ urgent' = Tail(urgent)
    /\ UNCHANGED <<loggedIn, timedOut, ordinary, lost, called, cancelled, logouts>>

ReceiveOrdinary ==
    /\ ordinary # <<>>
    /\ Receive(Head(ordinary))
    /\ ordinary' = Tail(ordinary)
    /\ UNCHANGED <<loggedIn, timedOut, urgent, lost, called, cancelled, logouts>>

(* An error without a request, which is no message of this call, makes     *)
(* onError throw out of receiveMessages(); whatever follows it in the same *)
(* batch is lost.                                                          *)
RestOfTheCall == (0 .. Len(urgent)) \X (0 .. Len(ordinary))

LoseTheRest ==
    /\ \E rest \in RestOfTheCall \ {<<0, 0>>} :
          /\ urgent' = SubSeq(urgent, rest[1] + 1, Len(urgent))
          /\ ordinary' = SubSeq(ordinary, rest[2] + 1, Len(ordinary))
    /\ lost' = TRUE
    /\ UNCHANGED <<loggedIn, queue, asked, handled, request, open, timedOut, events,
                   called, cancelled, logouts>>

-----------------------------------------------------------------------------
(* onTickHistoryResponse for request r, message by message.                *)
Answer(r) ==
    /\ r \in open /\ asked[r].total = 0
    /\ \E n \in 1 .. MaxRecords : asked' = [asked EXCEPT ![r].total = n]
    /\ UNCHANGED <<open, timedOut, channel>>

PostRecord(r) ==
    /\ r \in open /\ asked[r].posted < asked[r].total
    /\ asked' = [asked EXCEPT ![r].posted = @ + 1]
    /\ ordinary' = Append(ordinary, Record(r, asked'[r].posted, asked'[r].posted = asked[r].total))
    /\ UNCHANGED <<open, timedOut, urgent>>

PostSuccess(r) ==
    /\ r \in open /\ asked[r].total > 0 /\ asked[r].posted = asked[r].total
    /\ open' = open \ {r}
    /\ urgent' = Append(urgent, Success(r))
    /\ UNCHANGED <<asked, timedOut, ordinary>>

(* throw failure(response->status), before there is a record.              *)
PostInvalid(r) ==
    /\ r \in open /\ asked[r].total = 0
    /\ open' = open \ {r}
    /\ urgent' = Append(urgent, Error(r, "invalid"))
    /\ UNCHANGED <<asked, timedOut, ordinary>>

(* Any other failure or exception, at any point; or the request times out. *)
PostError(r) ==
    /\ r \in open
    /\ open' = open \ {r}
    /\ urgent' = Append(urgent, Error(r, "error"))
    /\ UNCHANGED <<asked, timedOut, ordinary>>

(* onRequestTimeout, and the answer comes all the same.                    *)
RacingTimeout(r) ==
    /\ r \notin timedOut /\ Cardinality(timedOut) < MaxRaces
    /\ timedOut' = timedOut \cup {r}
    /\ urgent' = Append(urgent, Error(r, "error"))
    /\ UNCHANGED <<asked, open, ordinary>>

Respond ==
    /\ \E r \in open : Answer(r) \/ PostRecord(r) \/ PostSuccess(r) \/ PostInvalid(r) \/ PostError(r)
    /\ UNCHANGED <<loggedIn, queue, handled, request, events, lost, called, cancelled, logouts>>

(* pushError finds priority full as well and throws out of the handler: no *)
(* verdict of the answer is posted.                                        *)
Escape ==
    /\ \E r \in open : open' = open \ {r}
    /\ lost' = TRUE
    /\ UNCHANGED <<loggedIn, queue, asked, handled, request, timedOut, channel, events,
                   called, cancelled, logouts>>

Race ==
    /\ \E r \in DOMAIN asked : RacingTimeout(r)
    /\ UNCHANGED <<loggedIn, queue, handled, request, events, lost, called, cancelled, logouts>>

Next ==
    \/ Call \/ Cancel \/ LogIn \/ LogOut
    \/ ReceiveUrgent \/ ReceiveOrdinary \/ LoseTheRest
    \/ Respond \/ Race \/ Escape

Spec == Init /\ [][Next]_vars

(* The API answers what is sent, the loop delivers it, and the client gets *)
(* logged in again.                                                        *)
FairSpec ==
    /\ Spec
    /\ WF_vars(Respond) /\ WF_vars(ReceiveUrgent) /\ WF_vars(ReceiveOrdinary)
    /\ WF_vars(LogIn)

-----------------------------------------------------------------------------
Requests == 1 .. Len(asked)
MessageTypes == {"record", "success", "error", "invalid"}
Messages == [type : MessageTypes, request : Requests, number : 0 .. MaxRecords, end : BOOLEAN]

Verdicts == {m \in Messages : m.type # "record"}
Records == {m \in Messages : m.type = "record" /\ m.number > 0}
Dispatchers ==
    [begin : 0 .. Intervals - 1, ended : BOOLEAN, last : BOOLEAN,
     total : 0 .. MaxRecords, posted : 0 .. MaxRecords]
Events ==
    [type : {"record"}, request : Requests, number : 1 .. MaxRecords]
    \cup [type : {"error", "completed", "cancelled"}]

TypeOK ==
    /\ loggedIn \in BOOLEAN
    /\ queue \in Seq(0 .. Intervals - 1)
    /\ asked \in Seq(Dispatchers) /\ Len(asked) <= Intervals
    /\ \A r \in Requests : asked[r].posted <= asked[r].total
    /\ handled \subseteq Requests /\ open \subseteq Requests /\ timedOut \subseteq Requests
    /\ request \in 0 .. Len(asked)
    /\ urgent \in Seq(Verdicts) /\ ordinary \in Seq(Records)
    /\ events \in Seq(Events)
    /\ lost \in BOOLEAN
    /\ called \in BOOLEAN /\ cancelled \in {"no", "idle queue", "waiting"}
    /\ logouts \in 0 .. MaxLogouts

Told(type) == {i \in DOMAIN events : events[i].type = type}

(* The intervals of the day are asked for one after the other, each once,  *)
(* although the next request may wait for a login and answers are read out *)
(* of order.                                                               *)
IntervalsInOrder ==
    /\ \A r \in Requests : asked[r].begin = r - 1
    /\ \A i \in DOMAIN queue : queue[i] = Len(asked) + i - 1

(* The listener gets the records in the order of time.                     *)
Earlier(e, f) == e.request < f.request \/ (e.request = f.request /\ e.number < f.number)
RecordsInOrder ==
    \A i, j \in Told("record") : i < j => Earlier(events[i], events[j])

(* "completed" means that the whole day was asked for, every interval was  *)
(* answered and every record told, unless an error or the cancellation was *)
(* told before, messages were lost, or the last interval had no valid      *)
(* answer (then "completed" overtakes records of earlier intervals that are*)
(* still in q).                                                            *)
LastIsInvalid == asked[Len(asked)].total = 0
CompletedMeansAll ==
    \A k \in Told("completed") :
        ~lost /\ ~LastIsInvalid /\ (\A i \in Told("error") \cup Told("cancelled") : k < i) =>
            /\ Len(asked) = Intervals /\ open = {} /\ queue = <<>>
            /\ \A r \in Requests :
                  Cardinality({i \in Told("record") : i < k /\ events[i].request = r})
                      = asked[r].posted

(* The listener is told the outcome once: completed or an error, and never *)
(* both, unless a timeout races the answer.                                *)
OneConclusion == timedOut = {} => Cardinality(Told("completed") \cup Told("error")) <= 1

(* A cancelled call asks for no further interval and does not complete,    *)
(* unless an interval was waiting for the login when it was cancelled.     *)
CancelStops ==
    [][cancelled = "idle queue" =>
          Len(asked') = Len(asked) /\ queue' = <<>> /\ Told("completed")' = Told("completed")]_vars

(* Every call comes to a conclusion that the listener is told, unless      *)
(* messages are lost.                                                      *)
Concluded == Told("completed") \cup Told("error") \cup Told("cancelled") # {}
Concludes == called ~> (Concluded \/ lost)
=============================================================================
