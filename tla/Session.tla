------------------------------ MODULE Session ------------------------------
(***************************************************************************)
(* Sessions of ActiveTickServerAPI.node.cpp that follow one another, the   *)
(* connection objects of activetick.js that outlive theirs, and the        *)
(* handlers that run on threads of the API while the event loop connects   *)
(* and disconnects.  A request is known to JavaScript by the session and   *)
(* the number that send() and Message::value() put together.               *)
(*                                                                         *)
(* Of the API, whose source is not part of the repository, it is assumed   *)
(* that ATDestroySession returns when none of the session's handlers runs  *)
(* and that none is called later, and that ATCreateSession never gives a   *)
(* session the number of an earlier one.  Nothing is assumed of the numbers*)
(* of requests but that they differ within a session: here each session    *)
(* counts them from 1.                                                     *)
(***************************************************************************)
EXTENDS Integers, FiniteSets

CONSTANTS
    Threads,      \* threads of the API
    MaxSessions,  \* bound: calls of connect() that get past its first check
    MaxRequests,  \* bound: requests in a session
    Capacity,     \* messages for which q has room ...
    PCapacity,    \* ... and priority
    Tries         \* retries of an allocation without room; 100 in the code

ASSUME NumberAssumption ==
    {MaxSessions, MaxRequests, Capacity, PCapacity, Tries} \subseteq Nat

VARIABLES
    connection,   \* the connection variable: an object, or 0 for null
    objects,      \* the connection objects that the application has got
    callback,     \* the object whose receiveMessages() the module calls
    requests,     \* each object's table, the requests only
    connects,     \* calls of connect() so far
    theSession,   \* a session, or 0
    alive,        \* sessions created and not destroyed
    referenced,   \* does callbackHandle keep the process alive?
    loop,         \* "free", or "destroying" while it stands in ATDestroySession
    made,         \* for each session the number of its latest request
    pending,      \* requests the API has still to answer
    handler,      \* the handler that each thread runs
    channel,      \* messages pushed and not received
    lost          \* requests whose answers have been lost

javascript == <<connection, objects, callback, requests, connects>>
session == <<theSession, alive, referenced, loop>>
api == <<made, pending>>
vars == <<javascript, session, api, handler, channel, lost>>

Ids == 1 .. MaxSessions
Request == [session : 0 .. MaxSessions, number : 0 .. MaxRequests]

(* v8string(theSession, request): the key of a request in JavaScript.      *)
NumberOnly(s, n) == [session |-> 0, number |-> n]
Key(s, n) == [session |-> s, number |-> n]

Idle == [pc |-> "idle", request |-> Key(0, 0), tries |-> 0]

Init ==
    /\ connection = 0 /\ objects = {} /\ callback = 0 /\ connects = 0
    /\ requests = [o \in Ids |-> {}]
    /\ theSession = 0 /\ alive = {} /\ referenced = FALSE /\ loop = "free"
    /\ made = [s \in Ids |-> 0] /\ pending = {}
    /\ handler = [t \in Threads |-> Idle]
    /\ channel = {} /\ lost = {}

-----------------------------------------------------------------------------
(* exports.connect sets connection before it calls api.connect, whose      *)
(* checks may throw before a session is created or after it.               *)
Connecting ==
    /\ loop = "free"
    /\ connection = 0
    /\ connects < MaxSessions
    /\ connects' = connects + 1
    /\ connection' = connects'
    /\ UNCHANGED <<requests, loop, api, handler, channel, lost>>

KeepsCallback(o) == IF callback = 0 THEN o ELSE callback
NewCallback(o) == o

Connect ==
    /\ Connecting
    /\ theSession = 0
    /\ theSession' = connects' /\ alive' = alive \cup {connects'}
    /\ callback' = NewCallback(connects')
    /\ referenced' = TRUE
    /\ objects' = objects \cup {connects'}

ConnectThrows ==
    /\ Connecting
    /\ \/ UNCHANGED <<theSession, alive>>
       \/ theSession = 0 /\ theSession' = connects' /\ alive' = alive \cup {connects'}
    /\ UNCHANGED <<callback, referenced, objects>>

(* disconnect() of any connection object enters ATDestroySession ...       *)
Disconnect ==
    /\ loop = "free"
    /\ objects # {}
    /\ loop' = "destroying"
    /\ UNCHANGED <<javascript, theSession, alive, referenced, api, handler, channel, lost>>

(* ... and goes on when the handlers have returned.  The requests of the   *)
(* session are not answered any more.                                      *)
HandlersOf(s) == {t \in Threads : handler[t].pc # "idle" /\ handler[t].request.session = s}

Unreferenced == FALSE
StaleSession == theSession
NoSession == 0

Disconnected ==
    /\ loop = "destroying"
    /\ HandlersOf(theSession) = {}
    /\ loop' = "free"
    /\ alive' = alive \ {theSession}
    /\ pending' = {r \in pending : r.session # theSession}
    /\ theSession' = NoSession
    /\ referenced' = Unreferenced
    /\ connection' = 0
    /\ UNCHANGED <<objects, callback, requests, connects, made, handler, channel, lost>>

(* A function of any object sends a request: always on theSession.         *)
Send(o) ==
    /\ loop = "free"
    /\ theSession # 0 /\ theSession \in alive
    /\ made[theSession] < MaxRequests
    /\ made' = [made EXCEPT ![theSession] = @ + 1]
    /\ pending' = pending \cup {[session |-> theSession, number |-> made'[theSession]]}
    /\ requests' = [requests EXCEPT ![o] = @ \cup {Key(theSession, made'[theSession])}]
    /\ UNCHANGED <<connection, objects, callback, connects, session, handler, channel, lost>>

(* receiveMessages() of the latest connection; a message whose request it  *)
(* does not know is ignored.                                               *)
Receive ==
    /\ loop = "free"
    /\ \E m \in channel :
          /\ channel' = channel \ {m}
          /\ requests' = [requests EXCEPT ![callback] = @ \ {m.key}]
    /\ UNCHANGED <<connection, objects, callback, connects, session, api, handler, lost>>

(* onError, on an error without a request, throws out of receiveMessages():*)
(* whatever follows it in the same batch is lost.                          *)
LoseTheRest ==
    /\ loop = "free"
    /\ \E rest \in SUBSET channel \ {{}} :
          /\ channel' = channel \ rest
          /\ lost' = lost \cup {m.request : m \in rest}
    /\ UNCHANGED <<javascript, session, api, handler>>

-----------------------------------------------------------------------------
(* A handler with a response, from its call to its return.                 *)
Enter(t) ==
    /\ handler[t].pc = "idle"
    /\ \E r \in pending :
          /\ pending' = pending \ {r}
          /\ handler' = [handler EXCEPT ![t] = [pc |-> "allocate", request |-> r, tries |-> Tries]]
    /\ UNCHANGED <<javascript, session, made, channel, lost>>

(* "allocate" in q, or "report" what failed in priority.                   *)
Allocates(t) == handler[t].pc \in {"allocate", "report"}
HasRoom(t) ==
    IF handler[t].pc = "report"
    THEN Cardinality({m \in channel : m.urgent}) < PCapacity
    ELSE Cardinality({m \in channel : ~m.urgent}) < Capacity

(* The message says whose it is by theSession as it is when it is built.   *)
Post(t, urgent) ==
    /\ channel' = channel \cup {[key |-> Key(theSession, handler[t].request.number),
                                 request |-> handler[t].request, urgent |-> urgent]}
    /\ handler' = [handler EXCEPT ![t].pc = "close"]
    /\ UNCHANGED <<javascript, session, api, lost>>

PushMessage(t) ==
    /\ handler[t].pc = "allocate"
    /\ HasRoom(t)
    /\ Post(t, FALSE)

AlwaysRetries(t) == TRUE
HasTries(t) == handler[t].tries > 0

Retry(t) ==
    /\ Allocates(t)
    /\ ~HasRoom(t) /\ HasTries(t)
    /\ handler' = [handler EXCEPT ![t].tries = IF @ > 0 THEN @ - 1 ELSE 0]
    /\ UNCHANGED <<javascript, session, api, channel, lost>>

(* queue_overflow, out of the allocation in q ...                          *)
Overflow(t) ==
    /\ handler[t].pc = "allocate"
    /\ ~HasRoom(t) /\ ~HasTries(t)
    /\ handler' = [handler EXCEPT
                      ![t] = [pc |-> "report", request |-> @.request, tries |-> Tries]]
    /\ UNCHANGED <<javascript, session, api, channel, lost>>

(* ... becomes an urgent message ...                                       *)
PushError(t) ==
    /\ handler[t].pc = "report"
    /\ HasRoom(t)
    /\ Post(t, TRUE)

(* ... or, out of that allocation, leaves the handler at once.             *)
Escape(t) ==
    /\ handler[t].pc = "report"
    /\ ~HasRoom(t) /\ ~HasTries(t)
    /\ handler' = [handler EXCEPT ![t] = Idle]
    /\ lost' = lost \cup {handler[t].request}
    /\ UNCHANGED <<javascript, session, api, channel>>

(* ATCloseRequest(theSession, request).                                    *)
CloseRequest(t) ==
    /\ handler[t].pc = "close"
    /\ pending' = pending \ {[session |-> theSession, number |-> handler[t].request.number]}
    /\ handler' = [handler EXCEPT ![t] = Idle]
    /\ UNCHANGED <<javascript, session, made, channel, lost>>

Handle(t) ==
    \/ Enter(t) \/ PushMessage(t) \/ Retry(t) \/ Overflow(t)
    \/ PushError(t) \/ Escape(t) \/ CloseRequest(t)

Next ==
    \/ Connect \/ ConnectThrows \/ Disconnect \/ Disconnected
    \/ \E o \in objects : Send(o)
    \/ Receive \/ LoseTheRest
    \/ \E t \in Threads : Handle(t)

Spec == Init /\ [][Next]_vars

(* The API answers, its threads run, the loop delivers and ATDestroySession*)
(* returns when it may.                                                    *)
FairSpec ==
    /\ Spec
    /\ \A t \in Threads : WF_vars(Handle(t))
    /\ WF_vars(Receive) /\ WF_vars(Disconnected)

-----------------------------------------------------------------------------
Messages == [key : Request, request : Request, urgent : BOOLEAN]

TypeOK ==
    /\ connection \in 0 .. MaxSessions /\ connects \in 0 .. MaxSessions
    /\ objects \subseteq 1 .. connects
    /\ callback \in objects \cup {0}
    /\ requests \in [Ids -> SUBSET Request]
    /\ theSession \in 0 .. connects /\ alive \subseteq 1 .. connects
    /\ referenced \in BOOLEAN
    /\ loop \in {"free", "destroying"}
    /\ made \in [Ids -> 0 .. MaxRequests]
    /\ pending \subseteq Request
    /\ handler \in [Threads -> [pc : {"idle", "allocate", "report", "close"},
                                request : Request, tries : 0 .. Tries]]
    /\ channel \subseteq Messages /\ lost \subseteq Request

(* A message is handled as the answer of the request it answers or not at  *)
(* all, although numbers of requests recur in later sessions, messages of  *)
(* an earlier session are received by later connections and theSession is  *)
(* read by handlers while disconnect() changes it.                         *)
NoMisdelivery ==
    \A m \in channel : m.key \in requests[callback] => m.key = m.request

(* The two guards against a second session agree: when connection is null  *)
(* there is no session in progress, and no session is forgotten without    *)
(* being destroyed, whatever connect() fails in and whichever object's     *)
(* disconnect() is called how often; and the handle keeps the process alive*)
(* only as long as there is a session.                                     *)
OneSession ==
    /\ connection = 0 => theSession = 0
    /\ alive = {theSession} \ {0}
    /\ referenced => theSession # 0

(* disconnect() returns, although it keeps the loop from making room for   *)
(* the handlers that it waits for.                                         *)
DisconnectReturns == loop = "destroying" ~> loop = "free"

(* What the latest connection has requested in its session is answered,    *)
(* unless some object's disconnect() ends the session or the answer is     *)
(* lost.                                                                   *)
Waits(s, n) == theSession = s /\ connection = s /\ Key(s, n) \in requests[s]
Answered ==
    \A s \in Ids, n \in 1 .. MaxRequests :
        Waits(s, n) ~> (~Waits(s, n) \/ loop = "destroying" \/ Key(s, n) \in lost)
=============================================================================
