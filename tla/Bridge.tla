------------------------------- MODULE Bridge -------------------------------
(***************************************************************************)
(* The native module ActiveTickServerAPI.node.cpp between the threads of   *)
(* the ActiveTick API and the thread of the node.js event loop.            *)
(*                                                                         *)
(* The API calls a handler (onStreamUpdate ... onBarHistoryResponse) on    *)
(* one of its threads.  The handler posts messages into q, its success or  *)
(* error into priority, and wakes the loop with triggerCallback().  The    *)
(* loop runs executeCallback(), which empties the queues into the          *)
(* arguments of one call of the JavaScript callback.                       *)
(*                                                                         *)
(* Both queues are queue.h, used through what MessageQueue promises of it. *)
(***************************************************************************)
EXTENDS Integers, Sequences, FiniteSets

CONSTANTS
    Threads,      \* threads of the API
    Updates,      \* calls of onStreamUpdate
    Notices,      \* of onServerTimeUpdate, onSessionStatusChange, onLoginResponse
    Streams,      \* of onQuoteStreamResponse
    Holidays,     \* of onHolidaysResponse
    Ticks,        \* of onTickHistoryResponse
    Bars,         \* of onBarHistoryResponse
    Timeouts,     \* of onRequestTimeout
    MaxRecords,   \* bound: records in one response
    Batch,        \* pushes that wake the loop unasked; 1024 in the code
    ArgvLength,   \* messages in a call of the callback; 1025 in the code
    QCapacity,    \* messages that fit in q
    PCapacity     \* messages that fit in priority

Calls == UNION {Updates, Notices, Streams, Holidays, Ticks, Bars, Timeouts}

ASSUME NumberAssumption ==
    /\ MaxRecords \in Nat
    /\ Batch \in Nat \ {0}
    /\ ArgvLength \in Nat \ {0}
    /\ QCapacity \in Nat
    /\ PCapacity \in Nat \ {0}

VARIABLES
    todo,         \* calls the API is still to make
    pc,           \* where each thread stands
    script,       \* what each thread has still to do in its call
    escaped,      \* calls that an exception has left
    qSent, qFilling, qReady, qUsing,    \* q: messages by ticket, and MessageQueue's state
    pSent, pFilling, pReady, pUsing,    \* priority, in the same way
    pushes,       \* messages pushed since the loop was last triggered
    async,        \* is callbackHandle signalled?
    loop,         \* where the loop thread stands
    argv,         \* the arguments collected by popQueues
    delivered     \* the arguments of all calls of the callback so far

qVars == <<qSent, qFilling, qReady, qUsing>>
pVars == <<pSent, pFilling, pReady, pUsing>>
apiVars == <<todo, pc, script, escaped>>
loopVars == <<loop, argv, delivered>>
vars == <<apiVars, qVars, pVars, pushes, async, loopVars>>

-----------------------------------------------------------------------------
(* The two queues.  Tickets are given out one by one.                      *)
Loop == "loop"
None == -1

Q == INSTANCE MessageQueue WITH
    Producers <- Threads, Consumers <- {Loop}, next <- Len(qSent),
    filling <- qFilling, ready <- qReady, using <- qUsing

P == INSTANCE MessageQueue WITH
    Producers <- Threads, Consumers <- {Loop}, next <- Len(pSent),
    filling <- pFilling, ready <- pReady, using <- pUsing

(* A message takes up memory until it is released.                         *)
QRoom == Cardinality(Q!Queued \cup ({qUsing[Loop]} \ {None})) < QCapacity
PRoom == Cardinality(P!Queued \cup ({pUsing[Loop]} \ {None})) < PCapacity

-----------------------------------------------------------------------------
(* What the handlers do, as the sequence of their calls of pushMessage,    *)
(* pushSuccess, pushError and triggerCallback.                             *)
Message(c, type, number, end) ==
    [call |-> c, type |-> type, number |-> number, end |-> end]

pushMessage(m, trigger) == [queue |-> "q", message |-> m, trigger |-> trigger]
pushSuccess(c, n) ==
    [queue |-> "priority", message |-> Message(c, "success", n, FALSE), trigger |-> TRUE]
pushError(c) ==
    [queue |-> "priority", message |-> Message(c, "error", 0, TRUE), trigger |-> TRUE]
triggerCallback(c) ==
    [queue |-> "none", message |-> Message(c, "none", 0, FALSE), trigger |-> TRUE]

IsLast(i, n) == i = n

Items(c, n) ==
    [i \in 1 .. n |-> pushMessage(Message(c, "item", i, IsLast(i, n)), FALSE)]

(* onStreamUpdate, onServerTimeUpdate, onSessionStatusChange and           *)
(* onLoginResponse post one message and wake the loop.                     *)
Notice(c) == <<pushMessage(Message(c, "notice", 1, TRUE), TRUE)>>

(* A subscription is answered item by item, or by one message without one. *)
onQuoteStreamResponse(c, n) ==
    IF n = 0 THEN <<pushMessage(Message(c, "item", 0, TRUE), FALSE), triggerCallback(c)>>
             ELSE Append(Items(c, n), triggerCallback(c))

(* These two count on at least one record: the code computes the index of  *)
(* the last one as an unsigned number.                                     *)
onHolidaysResponse(c, n) == Append(Items(c, n), pushSuccess(c, n))
onTickHistoryResponse(c, n) == Append(Items(c, n), pushSuccess(c, n))

(* Bars come between a header and a trailer, which alone is marked as end. *)
barsEndTwice(c, n) ==
    [i \in 1 .. n + 2 |->
        pushMessage(Message(c, IF i = n + 2 THEN "complete" ELSE "item", i, i > n), FALSE)]
barMessages(c, n) ==
    [i \in 1 .. n + 2 |->
        pushMessage(Message(c, IF i = n + 2 THEN "complete" ELSE "item", i, i = n + 2), FALSE)]
barsUntriggered(c, n) == barMessages(c, n)
onBarHistoryResponse(c, n) == Append(barMessages(c, n), triggerCallback(c))

Handler(c) ==
    CASE c \in Updates \cup Notices -> {Notice(c)}
      [] c \in Streams -> {onQuoteStreamResponse(c, n) : n \in 0 .. MaxRecords}
      [] c \in Holidays -> {onHolidaysResponse(c, n) : n \in 1 .. MaxRecords}
      [] c \in Ticks -> {onTickHistoryResponse(c, n) : n \in 1 .. MaxRecords} \cup {<<pushError(c)>>}
      [] c \in Bars -> {onBarHistoryResponse(c, n) : n \in 0 .. MaxRecords}
      [] c \in Timeouts -> {<<pushError(c)>>}

-----------------------------------------------------------------------------
Init ==
    /\ todo = Calls
    /\ pc = [t \in Threads |-> "idle"]
    /\ script = [t \in Threads |-> <<>>]
    /\ escaped = {}
    /\ qSent = <<>> /\ Q!Init
    /\ pSent = <<>> /\ P!Init
    /\ pushes = 0
    /\ async = FALSE
    /\ loop = "idle"
    /\ argv = <<>>
    /\ delivered = <<>>

Step(t) == Head(script[t])
Goto(t, label) == pc' = [pc EXCEPT ![t] = label] /\ UNCHANGED script

(* Thread t goes on with script s.                                         *)
Proceed(t, s) ==
    /\ script' = [script EXCEPT ![t] = s]
    /\ pc' = [pc EXCEPT ![t] = IF s = <<>> THEN "idle"
                               ELSE IF Head(s).queue = "none" THEN "reset" ELSE "post"]

(* The API calls a handler.  A call is made once; which thread makes it    *)
(* and how many records it brings is up to the API.                        *)
Begin(t, c) ==
    /\ pc[t] = "idle"
    /\ c \in todo
    /\ todo' = todo \ {c}
    /\ \E s \in Handler(c) : Proceed(t, s)
    /\ UNCHANGED <<escaped, qVars, pVars, pushes, async, loopVars>>

(* new(q)M(...) and new(priority)M(...)                                    *)
AllocateMessage(t) ==
    /\ pc[t] = "post"
    /\ Step(t).queue = "q"
    /\ QRoom
    /\ qSent' = Append(qSent, Step(t).message)
    /\ Q!Allocate(t)
    /\ Goto(t, "push")
    /\ UNCHANGED <<todo, escaped, pVars, pushes, async, loopVars>>

AllocateUrgent(t) ==
    /\ pc[t] = "post"
    /\ Step(t).queue = "priority"
    /\ PRoom
    /\ pSent' = Append(pSent, Step(t).message)
    /\ P!Allocate(t)
    /\ Goto(t, "push")
    /\ UNCHANGED <<todo, escaped, qVars, pushes, async, loopVars>>

(* An exception: the handler reports it by pushError and is done.  One     *)
(* thrown by that pushError leaves the handler; here the API survives it.  *)
ErrorAndOn(t) == <<pushError(Step(t).message.call)>> \o Tail(script[t])
ErrorOnly(t) == <<pushError(Step(t).message.call)>>

Throw(t) ==
    IF Step(t).message.type = "error"
    THEN /\ Proceed(t, <<>>)
         /\ escaped' = escaped \cup {Step(t).message.call}
    ELSE /\ Proceed(t, ErrorOnly(t))
         /\ UNCHANGED escaped

(* claim() has found no room for a hundred milliseconds.                   *)
QueueOverflow(t) ==
    /\ pc[t] = "post"
    /\ \/ Step(t).queue = "q" /\ ~QRoom
       \/ Step(t).queue = "priority" /\ ~PRoom
    /\ Throw(t)
    /\ UNCHANGED <<todo, qVars, pVars, pushes, async, loopVars>>

(* An update or a tick is of no known type.                                *)
BadData(t) ==
    /\ pc[t] = "post"
    /\ Step(t).queue = "q"
    /\ Step(t).message.call \in Updates \cup Ticks
    /\ Throw(t)
    /\ UNCHANGED <<todo, qVars, pVars, pushes, async, loopVars>>

(* q.push(m): pushMessage goes on to count it.                             *)
PushMessage(t) ==
    /\ pc[t] = "push"
    /\ Step(t).queue = "q"
    /\ UNCHANGED qSent
    /\ Q!Push(t)
    /\ Goto(t, "count")
    /\ UNCHANGED <<todo, escaped, pVars, pushes, async, loopVars>>

(* priority.push(m): pushSuccess and pushError trigger at once.            *)
PushUrgent(t) ==
    /\ pc[t] = "push"
    /\ Step(t).queue = "priority"
    /\ UNCHANGED pSent
    /\ P!Push(t)
    /\ Goto(t, "reset")
    /\ UNCHANGED <<todo, escaped, qVars, pushes, async, loopVars>>

(* if (++pushes == 1024 || trigger)                                        *)
OneTooLate(n) == n = Batch + 1
Due(n) == n = Batch

Count(t) ==
    /\ pc[t] = "count"
    /\ pushes' = pushes + 1
    /\ IF Due(pushes + 1) \/ Step(t).trigger
       THEN Goto(t, "reset")
       ELSE Proceed(t, Tail(script[t]))
    /\ UNCHANGED <<todo, escaped, qVars, pVars, async, loopVars>>

(* triggerCallback(): pushes = 0, then uv_async_send.                      *)
Reset(t) ==
    /\ pc[t] = "reset"
    /\ pushes' = 0
    /\ Goto(t, "send")
    /\ UNCHANGED <<todo, escaped, qVars, pVars, async, loopVars>>

Send(t) ==
    /\ pc[t] = "send"
    /\ async' = TRUE
    /\ Proceed(t, Tail(script[t]))
    /\ UNCHANGED <<todo, escaped, qVars, pVars, pushes, loopVars>>

-----------------------------------------------------------------------------
(* The event loop finds callbackHandle signalled, clears the signal and    *)
(* runs executeCallback().                                                 *)
Wake ==
    /\ loop = "idle"
    /\ async
    /\ async' = FALSE
    /\ loop' = "priority"
    /\ UNCHANGED <<apiVars, qVars, pVars, pushes, argv, delivered>>

(* popQueues: the two while loops.                                         *)
OneTooMany == Len(argv) <= ArgvLength
RoomInArgv == Len(argv) < ArgvLength

PopUrgent ==
    /\ loop = "priority"
    /\ RoomInArgv
    /\ UNCHANGED pSent
    /\ P!Pop(Loop)
    /\ argv' = Append(argv, pSent[pUsing'[Loop] + 1])
    /\ UNCHANGED <<apiVars, qVars, pushes, async, loop, delivered>>

ReleaseUrgent ==
    /\ UNCHANGED pSent
    /\ P!Release(Loop)
    /\ UNCHANGED <<apiVars, qVars, pushes, async, loopVars>>

NoMoreUrgent ==
    /\ loop = "priority"
    /\ pUsing[Loop] = None
    /\ ~RoomInArgv \/ P!NothingToPop
    /\ loop' = "q"
    /\ UNCHANGED <<apiVars, qVars, pVars, pushes, async, argv, delivered>>

PopMessage ==
    /\ loop = "q"
    /\ RoomInArgv
    /\ UNCHANGED qSent
    /\ Q!Pop(Loop)
    /\ argv' = Append(argv, qSent[qUsing'[Loop] + 1])
    /\ UNCHANGED <<apiVars, pVars, pushes, async, loop, delivered>>

ReleaseMessage ==
    /\ UNCHANGED qSent
    /\ Q!Release(Loop)
    /\ UNCHANGED <<apiVars, pVars, pushes, async, loopVars>>

(* popQueues returns; executeCallback does nothing if it popped nothing.   *)
AlwaysCalls == "call"
AfterPops == IF argv = <<>> THEN "idle" ELSE "call"

NoMoreMessages ==
    /\ loop = "q"
    /\ qUsing[Loop] = None
    /\ ~RoomInArgv \/ Q!NothingToPop
    /\ loop' = AfterPops
    /\ UNCHANGED <<apiVars, qVars, pVars, pushes, async, argv, delivered>>

(* callback->Call(...), after which executeCallback triggers itself: the   *)
(* queues may hold more than one call takes.                               *)
GoesIdle == "idle"
TriggersItself == "reset"

CallBack ==
    /\ loop = "call"
    /\ delivered' = delivered \o argv
    /\ argv' = <<>>
    /\ loop' = TriggersItself
    /\ UNCHANGED <<apiVars, qVars, pVars, pushes, async>>

ResetAgain ==
    /\ loop = "reset"
    /\ pushes' = 0
    /\ loop' = "send"
    /\ UNCHANGED <<apiVars, qVars, pVars, async, argv, delivered>>

SendAgain ==
    /\ loop = "send"
    /\ async' = TRUE
    /\ loop' = "idle"
    /\ UNCHANGED <<apiVars, qVars, pVars, pushes, argv, delivered>>

-----------------------------------------------------------------------------
Handle(t) ==
    \/ AllocateMessage(t) \/ AllocateUrgent(t) \/ QueueOverflow(t) \/ BadData(t)
    \/ PushMessage(t) \/ PushUrgent(t) \/ Count(t) \/ Reset(t) \/ Send(t)

executeCallback ==
    \/ Wake
    \/ PopUrgent \/ ReleaseUrgent \/ NoMoreUrgent
    \/ PopMessage \/ ReleaseMessage \/ NoMoreMessages
    \/ CallBack \/ ResetAgain \/ SendAgain

(* The API has made all its calls, and everything is delivered.            *)
AllDelivered ==
    /\ \A t \in Threads : pc[t] = "idle"
    /\ loop = "idle" /\ ~async
    /\ Len(delivered) = Len(qSent) + Len(pSent)

Done == todo = {} /\ AllDelivered /\ UNCHANGED vars

Next ==
    \/ \E t \in Threads : Handle(t) \/ \E c \in Calls : Begin(t, c)
    \/ executeCallback
    \/ Done

Spec == Init /\ [][Next]_vars

(* Handlers run to their end and the event loop keeps turning: neither     *)
(* waits for anything but the scheduler.  The API need not make a call.    *)
FairSpec ==
    /\ Spec
    /\ \A t \in Threads : WF_vars(Handle(t))
    /\ WF_vars(executeCallback)

-----------------------------------------------------------------------------
Messages ==
    [call : Calls, type : {"notice", "item", "complete", "success", "error"},
     number : 0 .. MaxRecords + 2, end : BOOLEAN]
UrgentSet == {m \in Messages : m.type \in {"success", "error"}}
Steps ==
    [queue : {"q", "priority"}, message : Messages, trigger : BOOLEAN]
        \cup {triggerCallback(c) : c \in Calls}

TypeOK ==
    /\ todo \subseteq Calls
    /\ pc \in [Threads -> {"idle", "post", "push", "count", "reset", "send"}]
    /\ \A t \in Threads : script[t] \in Seq(Steps) /\ (script[t] = <<>> <=> pc[t] = "idle")
    /\ escaped \subseteq Calls \ todo
    /\ qSent \in Seq(Messages \ UrgentSet) /\ Q!TypeOK
    /\ pSent \in Seq(UrgentSet) /\ P!TypeOK
    /\ pushes \in Nat
    /\ async \in BOOLEAN
    /\ loop \in {"idle", "priority", "q", "call", "reset", "send"}
    /\ argv \in Seq(Messages)
    /\ delivered \in Seq(Messages)

(* A message that is pushed is never left behind by a sleeping loop: while *)
(* the loop is neither running nor signalled, a message lies in a queue    *)
(* only if some handler is still under way, which will trigger.  So the    *)
(* messages pushed without a trigger (node.cpp:88-92), those behind an     *)
(* entry that is not pushed yet, and those beyond the 1025 of one call     *)
(* all get their turn.                                                     *)
NoLostWakeup ==
    loop = "idle" /\ ~async /\ qReady \cup pReady # {} =>
        \E t \in Threads : pc[t] # "idle"

(* node.cpp:90 compares the counter with == after an atomic increment,     *)
(* while any other thread and the loop may set it back: it never passes    *)
(* 1024 unnoticed, for whoever brought it there has still to reset it.     *)
CountNeverRunsAway ==
    pushes >= Batch => \E t \in Threads : pc[t] = "reset"

(* The records of a response reach JavaScript once, in their order, and    *)
(* none after the one that is flagged as the end, although the handlers of *)
(* several responses fill q at the same time.  (The success or the error   *)
(* of the response goes through priority and may come before any of them.) *)
EndIsLast ==
    \A i, j \in 1 .. Len(delivered) :
        /\ i < j
        /\ delivered[i].call = delivered[j].call
        /\ {delivered[i], delivered[j]} \cap UrgentSet = {}
        => /\ delivered[i].number < delivered[j].number
           /\ ~delivered[i].end

Verdicts(c) ==
    {i \in 1 .. Len(pSent) : pSent[i].call = c}
        \cup {-i : i \in {k \in 1 .. Len(qSent) : qSent[k].call = c /\ qSent[k].type = "complete"}}

(* A response has one verdict, whatever fails in its handler: not a        *)
(* success or a completion and an error as well, and success is reported   *)
(* only after all the records it counts were queued.                       *)
OneTrueVerdict ==
    /\ \A c \in Calls : Cardinality(Verdicts(c)) <= 1
    /\ \A i \in 1 .. Len(pSent) : pSent[i].type = "success" =>
          pSent[i].number = Cardinality({k \in 1 .. Len(qSent) : qSent[k].call = pSent[i].call})

Concludes(m) == m.type \in {"success", "error"} \/ m.end

(* Whoever waits for a response gets its end, a success or an error sooner *)
(* or later, unless even the error found no room.                          *)
Answered ==
    \A c \in Calls :
        c \notin todo ~>
            \/ c \in escaped
            \/ \E i \in 1 .. Len(delivered) : delivered[i].call = c /\ Concludes(delivered[i])

(* The loop does not keep itself busy for ever: executeCallback triggers   *)
(* itself after every call of the callback, and stops when all is          *)
(* delivered.                                                              *)
Settles == <>[]AllDelivered

(* What is delivered, seen by queue.                                       *)
UrgentIn(s) == Cardinality({i \in DOMAIN s : s[i].type \in {"success", "error"}})
Rest(s, n) == SubSeq(s, n + 1, Len(s))

D == INSTANCE Delivery WITH
    Messages <- Messages,
    Urgent <- UrgentSet,
    BatchLimit <- ArgvLength,
    urgent <- Rest(pSent, UrgentIn(delivered)),
    ordinary <- Rest(qSent, Len(delivered) - UrgentIn(delivered)),
    delivered <- delivered

(* The bridge is the channel that activetick.js takes it for: no message   *)
(* is lost, repeated or changed, each queue keeps the order in which its   *)
(* messages were allocated, and a call gets 1 to 1025 of them.             *)
ImplementsDelivery == D!Spec
=============================================================================
