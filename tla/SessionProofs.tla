--------------------------- MODULE SessionProofs ---------------------------
(* What holds of Session for every number of threads, sessions and         *)
(* requests, every capacity of q and every number of retries.              *)
EXTENDS Session, TLAPS

(* Every variable keeps its type: sessions are numbered by the calls of    *)
(* connect(), and the module calls back an object that was returned.       *)
THEOREM TypeCorrect == Spec => []TypeOK
<1>1. Init => TypeOK
  <2> SUFFICES ASSUME Init
               PROVE  TypeOK
    OBVIOUS
  <2>1. Idle \in [pc : {"idle", "allocate", "report", "close"}, request : Request,
                 tries : 0 .. Tries]
    BY NumberAssumption DEF Idle, Key, Request
  <2>2. /\ handler \in [Threads -> [pc : {"idle", "allocate", "report", "close"},
                                    request : Request, tries : 0 .. Tries]]
        /\ requests \in [Ids -> SUBSET Request]
        /\ made \in [Ids -> 0 .. MaxRequests]
    BY <2>1, NumberAssumption DEF Init
  <2>3. /\ connection \in 0 .. MaxSessions /\ connects \in 0 .. MaxSessions
        /\ theSession \in 0 .. connects
    BY NumberAssumption DEF Init
  <2>4. QED
    BY <2>2, <2>3 DEF Init, TypeOK
<1>2. TypeOK /\ [Next]_vars => TypeOK'
  <2> SUFFICES ASSUME TypeOK, [Next]_vars
               PROVE  TypeOK'
    OBVIOUS
  <2> USE NumberAssumption DEF TypeOK, Ids
  <2>1. CASE Connect
    <3>1. /\ connects' = connects + 1 /\ connects' \in 1 .. MaxSessions
          /\ connection' = connects' /\ theSession' = connects' /\ callback' = connects'
          /\ objects' = objects \cup {connects'} /\ alive' = alive \cup {connects'}
      BY <2>1 DEF Connect, Connecting, NewCallback
    <3>2. objects' \subseteq 1 .. connects' /\ alive' \subseteq 1 .. connects'
      BY <3>1
    <3>3. /\ connection' \in 0 .. MaxSessions /\ connects' \in 0 .. MaxSessions
          /\ theSession' \in 0 .. connects' /\ callback' \in objects' \cup {0}
      BY <3>1
    <3>4. /\ referenced' = TRUE
          /\ UNCHANGED <<requests, loop, made, pending, handler, channel, lost>>
      BY <2>1 DEF Connect, Connecting, api
    <3>5. QED
      BY <3>2, <3>3, <3>4
  <2>2. CASE ConnectThrows
    <3>1. /\ connects' = connects + 1 /\ connects' \in 1 .. MaxSessions
          /\ connection' = connects'
          /\ UNCHANGED <<callback, referenced, objects, requests, loop, made, pending,
                         handler, channel, lost>>
      BY <2>2 DEF ConnectThrows, Connecting, api
    <3>2. objects' \subseteq 1 .. connects' /\ callback' \in objects' \cup {0}
      BY <3>1
    <3>3. theSession' \in 0 .. connects' /\ alive' \subseteq 1 .. connects'
      BY <2>2, <3>1 DEF ConnectThrows
    <3>4. QED
      BY <3>1, <3>2, <3>3
  <2>3. CASE Disconnect
    <3>1. loop' = "destroying"
      BY <2>3 DEF Disconnect
    <3>2. QED
      BY <2>3, <3>1 DEF Disconnect, javascript, api
  <2>4. CASE Disconnected
    <3>1. theSession' \in 0 .. connects' /\ connection' \in 0 .. MaxSessions
      BY <2>4 DEF Disconnected, NoSession
    <3>2. alive' \subseteq 1 .. connects' /\ pending' \subseteq Request
      BY <2>4 DEF Disconnected
    <3>3. referenced' = FALSE /\ loop' = "free"
      BY <2>4 DEF Disconnected, Unreferenced
    <3>4. UNCHANGED <<objects, callback, requests, connects, made, handler, channel, lost>>
      BY <2>4 DEF Disconnected
    <3>5. QED
      BY <3>1, <3>2, <3>3, <3>4
  <2>5. ASSUME NEW o \in objects, Send(o)
        PROVE  TypeOK'
    <3>1. made' \in [Ids -> 0 .. MaxRequests]
      BY <2>5 DEF Send
    <3>2. /\ Key(theSession, made'[theSession]) \in Request
          /\ [session |-> theSession, number |-> made'[theSession]] \in Request
      BY <2>5, <3>1 DEF Send, Key, Request
    <3>3. pending' \subseteq Request /\ requests' \in [Ids -> SUBSET Request]
      BY <2>5, <3>2 DEF Send
    <3>4. QED
      BY <2>5, <3>1, <3>3 DEF Send, session
  <2>6. CASE Receive \/ LoseTheRest
    <3>1. CASE Receive
      BY <3>1 DEF Receive, session, api
    <3>2. CASE LoseTheRest
      <4>1. channel' \subseteq Messages /\ lost' \subseteq Request
        BY <3>2 DEF LoseTheRest, Messages
      <4>2. QED
        BY <3>2, <4>1 DEF LoseTheRest, javascript, session, api
    <3>3. QED
      BY <2>6, <3>1, <3>2
  <2>7. ASSUME NEW t \in Threads, Enter(t)
        PROVE  TypeOK'
    BY <2>7 DEF Enter, javascript, session
  <2>8. ASSUME NEW t \in Threads, NEW urgent \in BOOLEAN, Post(t, urgent)
        PROVE  TypeOK'
    <3>1. /\ handler[t].request \in Request
          /\ Key(theSession, handler[t].request.number) \in Request
      BY DEF Key, Request
    <3>2. channel' \subseteq Messages
      BY <2>8, <3>1 DEF Post, Messages
    <3>3. QED
      BY <2>8, <3>2 DEF Post, javascript, session, api
  <2>9. ASSUME NEW t \in Threads, Retry(t)
        PROVE  TypeOK'
    <3> DEFINE n == IF handler[t].tries > 0 THEN handler[t].tries - 1 ELSE 0
    <3>1. handler' = [handler EXCEPT ![t].tries = n]
      BY <2>9, Zenon DEF Retry
    <3>2. n \in 0 .. Tries
      OBVIOUS
    <3> HIDE DEF n
    <3>3. handler' \in [Threads -> [pc : {"idle", "allocate", "report", "close"},
                                   request : Request, tries : 0 .. Tries]]
      BY <3>1, <3>2
    <3>4. QED
      BY <2>9, <3>3 DEF Retry, javascript, session, api
  <2>10. ASSUME NEW t \in Threads, CloseRequest(t) \/ Escape(t)
         PROVE  TypeOK'
    <3>1. Idle \in [pc : {"idle", "allocate", "report", "close"}, request : Request,
                   tries : 0 .. Tries]
      BY DEF Idle, Key, Request
    <3>2. CASE CloseRequest(t)
      BY <3>1, <3>2 DEF CloseRequest, javascript, session
    <3>3. CASE Escape(t)
      BY <3>1, <3>3 DEF Escape, javascript, session, api
    <3>4. QED
      BY <2>10, <3>2, <3>3
  <2>11. ASSUME NEW t \in Threads, Overflow(t)
         PROVE  TypeOK'
    <3>1. [pc |-> "report", request |-> handler[t].request, tries |-> Tries]
            \in [pc : {"idle", "allocate", "report", "close"}, request : Request,
                 tries : 0 .. Tries]
      OBVIOUS
    <3>2. QED
      BY <2>11, <3>1 DEF Overflow, javascript, session, api
  <2>12. CASE UNCHANGED vars
    BY <2>12 DEF vars, javascript, session, api
  <2>13. QED
    BY <2>1, <2>2, <2>3, <2>4, <2>5, <2>6, <2>7, <2>8, <2>9, <2>10, <2>11, <2>12
       DEF Next, Handle, PushMessage, PushError
<1>3. QED
  BY <1>1, <1>2, PTL DEF Spec

(* However connect() fails, and whichever object's disconnect() is called  *)
(* how often: there is never a second session, none is forgotten, and no   *)
(* handle keeps the process alive without a session.                       *)
THEOREM NeverTwoSessions == Spec => []OneSession
<1>1. Init => OneSession
  BY DEF Init, OneSession
<1>2. TypeOK /\ OneSession /\ [Next]_vars => OneSession'
  <2> SUFFICES ASSUME TypeOK, OneSession, [Next]_vars
               PROVE  OneSession'
    OBVIOUS
  <2> USE DEF OneSession
  <2>1. CASE Connect
    <3>1. connects' \in Nat \ {0}
      BY <2>1, NumberAssumption DEF Connect, Connecting, TypeOK
    <3>2. alive = {}
      BY <2>1 DEF Connect
    <3>3. QED
      BY <2>1, <3>1, <3>2 DEF Connect, Connecting
  <2>2. CASE ConnectThrows
    <3>1. connects' \in Nat \ {0} /\ connection' = connects'
      BY <2>2, NumberAssumption DEF ConnectThrows, Connecting, TypeOK
    <3>2. CASE UNCHANGED <<theSession, alive>>
      BY <2>2, <3>1, <3>2 DEF ConnectThrows
    <3>3. CASE theSession = 0 /\ theSession' = connects' /\ alive' = alive \cup {connects'}
      <4>1. alive = {}
        BY <3>3
      <4>2. QED
        BY <2>2, <3>1, <3>3, <4>1 DEF ConnectThrows
    <3>4. QED
      BY <2>2, <3>2, <3>3 DEF ConnectThrows
  <2>3. CASE Disconnect
    BY <2>3 DEF Disconnect, javascript
  <2>4. CASE Disconnected
    <3>1. alive' = {}
      BY <2>4 DEF Disconnected
    <3>2. QED
      BY <2>4, <3>1 DEF Disconnected, NoSession, Unreferenced
  <2>5. ASSUME NEW o \in objects, Send(o)
        PROVE  OneSession'
    BY <2>5 DEF Send, session
  <2>6. CASE Receive \/ LoseTheRest
    BY <2>6 DEF Receive, LoseTheRest, javascript, session
  <2>7. ASSUME NEW t \in Threads, Handle(t)
        PROVE  OneSession'
    BY <2>7 DEF Handle, Enter, PushMessage, Retry, Overflow, PushError, Escape, Post,
                CloseRequest, javascript, session
  <2>8. CASE UNCHANGED vars
    BY <2>8 DEF vars, javascript, session
  <2>9. QED
    BY <2>1, <2>2, <2>3, <2>4, <2>5, <2>6, <2>7, <2>8 DEF Next
<1>3. QED
  BY <1>1, <1>2, TypeCorrect, PTL DEF Spec

-----------------------------------------------------------------------------
(* Why a handler may read theSession late: while it runs, and while there  *)
(* is anything for one to answer, theSession is the session of its request,*)
(* because ATDestroySession waits for it.  So what it posts is addressed   *)
(* to the request that it answers.                                         *)
Working(t) == handler[t].pc # "idle"

OwnSession ==
    /\ \A r \in pending : r.session = theSession /\ theSession # 0
    /\ \A t \in Threads : Working(t) =>
          handler[t].request.session = theSession /\ theSession # 0
    /\ \A m \in channel : m.key = m.request

LEMMA OwnSessionAlways == Spec => []OwnSession
<1>1. Init => OwnSession
  BY DEF Init, OwnSession, Working, Idle
<1>2. TypeOK /\ OwnSession /\ [Next]_vars => OwnSession'
  <2> SUFFICES ASSUME TypeOK, OwnSession, [Next]_vars
               PROVE  OwnSession'
    OBVIOUS
  <2> USE DEF OwnSession, Working
  <2>1. CASE Connect
    BY <2>1 DEF Connect, Connecting, api
  <2>2. CASE ConnectThrows
    BY <2>2 DEF ConnectThrows, Connecting, api
  <2>3. CASE Disconnect
    BY <2>3 DEF Disconnect, javascript, api
  <2>4. CASE Disconnected
    <3>1. \A t \in Threads : ~Working(t)
      BY <2>4 DEF Disconnected, HandlersOf
    <3>2. pending' = {}
      BY <2>4 DEF Disconnected
    <3>3. handler' = handler /\ channel' = channel
      BY <2>4 DEF Disconnected
    <3>4. QED
      BY <3>1, <3>2, <3>3
  <2>5. ASSUME NEW o \in objects, Send(o)
        PROVE  OwnSession'
    BY <2>5 DEF Send, session
  <2>6. CASE Receive \/ LoseTheRest
    BY <2>6 DEF Receive, LoseTheRest, javascript, session, api
  <2>7. ASSUME NEW t \in Threads, Enter(t)
        PROVE  OwnSession'
    BY <2>7 DEF Enter, javascript, session, TypeOK
  <2>8. ASSUME NEW t \in Threads, NEW urgent \in BOOLEAN, Working(t), Post(t, urgent)
        PROVE  OwnSession'
    <3>1. Key(theSession, handler[t].request.number) = handler[t].request
      BY <2>8 DEF Key, TypeOK, Request
    <3>2. channel' = channel \cup {[key |-> handler[t].request,
                                    request |-> handler[t].request, urgent |-> urgent]}
      BY <2>8, <3>1 DEF Post
    <3>3. \A m \in channel' : m.key = m.request
      BY <3>2
    <3>4. QED
      BY <2>8, <3>3 DEF Post, javascript, session, api, TypeOK
  <2>9. ASSUME NEW t \in Threads, Retry(t) \/ Overflow(t)
        PROVE  OwnSession'
    BY <2>9 DEF Retry, Overflow, javascript, session, api, TypeOK
  <2>10. ASSUME NEW t \in Threads, CloseRequest(t) \/ Escape(t)
         PROVE  OwnSession'
    BY <2>10 DEF CloseRequest, Escape, Idle, javascript, session, api, TypeOK
  <2>11. CASE UNCHANGED vars
    BY <2>11 DEF vars, javascript, session, api
  <2>12. QED
    BY <2>1, <2>2, <2>3, <2>4, <2>5, <2>6, <2>7, <2>8, <2>9, <2>10, <2>11
       DEF Next, Handle, PushMessage, PushError
<1>3. QED
  BY <1>1, <1>2, TypeCorrect, PTL DEF Spec

(* No message is taken for the answer of a request that it does not answer,*)
(* in however many sessions the numbers of requests recur.                 *)
THEOREM NeverMisdelivered == Spec => []NoMisdelivery
<1>1. OwnSession => NoMisdelivery
  BY DEF OwnSession, NoMisdelivery
<1>2. QED
  BY <1>1, OwnSessionAlways, PTL
=============================================================================
