------------------------------- MODULE Client -------------------------------
(***************************************************************************)
(* The connection of activetick.js and the session beneath it: connect,    *)
(* login, subscriptions, the queue of actions that wait for the login, and *)
(* disconnect, with the session functions of ActiveTickServerAPI.node.cpp. *)
(*                                                                         *)
(* JavaScript sees the native module as Delivery does: urgent messages     *)
(* (errors) and ordinary ones keep their order among themselves.  A call   *)
(* of receiveMessages() gets several at a time; here they come one by one, *)
(* which allows every order that batches do.                               *)
(*                                                                         *)
(* Stream updates, and the responses to (un)subscribe requests, for which  *)
(* the client has no handler, change nothing here and are left out.  What  *)
(* becomes of the requests of quotes(), daily() and holidays() is another  *)
(* module's matter; here each is one action that waits for the login.      *)
(***************************************************************************)
EXTENDS Integers, Sequences, FiniteSets, SequencesExt

CONSTANTS
    Symbols,      \* symbols the application subscribes to
    Fetches,      \* calls of quotes(), daily() and holidays()
    MaxSessions,  \* bound: calls of connect()
    MaxLinks,     \* bound: times the API reports "connected"
    MaxChanges,   \* bound: calls of subscribe() and unsubscribe()
    MaxAccidents  \* bound: accidents, see below

ASSUME BoundAssumption ==
    /\ {MaxSessions, MaxLinks, MaxChanges, MaxAccidents} \subseteq Nat
    /\ Symbols \cap Fetches = {}
    /\ Symbols \cap Nat = {}
    /\ "subscribeAll" \notin Fetches

VARIABLES
    session,      \* theSession: a number, or 0 for none
    link,         \* is the session connected to the server?
    authorised,   \* has the server accepted a login on this link?
    feed,         \* symbols the server streams on this link
    sent,         \* requests on their way to the server, in order
    answers,      \* logins that are answered, not yet reported by the API
    overdue,      \* logins that will never be answered
    urgent, ordinary,   \* messages to receiveMessages(), as in Delivery
    connection,   \* is there a connection object?
    loggedIn, subscriptions, requests, queue,     \* the connection's variables
    issued,       \* how often each fetch of this connection was requested
    called,       \* fetches called on this connection
    sessions, links, logins, changes,   \* calls so far
    accidents     \* errors without a request, lost requests, refused logins

serverVars == <<link, authorised, feed, sent, answers, overdue>>
channel == <<urgent, ordinary>>
closure == <<loggedIn, subscriptions, requests, queue, issued, called>>
counters == <<sessions, links, logins, changes, accidents>>
vars == <<session, connection, serverVars, channel, closure, counters>>

NoRequest == 0

Request(kind, what) == [kind |-> kind, what |-> what]
Status(value) == [type |-> "session-status-change", value |-> value, request |-> NoRequest]
LoginResponse(n, value) == [type |-> "login-response", value |-> value, request |-> n]
Error(n) == [type |-> "error", value |-> "error", request |-> n]

-----------------------------------------------------------------------------
NewClosure ==
    /\ loggedIn' = FALSE
    /\ subscriptions' = {}
    /\ requests' = {}
    /\ queue' = <<"subscribeAll">>
    /\ issued' = [f \in Fetches |-> 0]
    /\ called' = {}

NoServer ==
    /\ link' = "down"
    /\ authorised' = FALSE
    /\ feed' = {}
    /\ sent' = <<>>
    /\ answers' = {}
    /\ overdue' = {}

Init ==
    /\ session = 0
    /\ link = "down" /\ authorised = FALSE /\ feed = {}
    /\ sent = <<>> /\ answers = {} /\ overdue = {}
    /\ urgent = <<>> /\ ordinary = <<>>
    /\ connection = FALSE
    /\ loggedIn = FALSE /\ subscriptions = {} /\ requests = {}
    /\ queue = <<"subscribeAll">>
    /\ issued = [f \in Fetches |-> 0] /\ called = {}
    /\ sessions = 0 /\ links = 0 /\ logins = 0 /\ changes = 0 /\ accidents = 0

(* exports.connect: refused while there is a connection.  Messages of an   *)
(* earlier session that are still queued now reach the new connection.     *)
Connect ==
    /\ ~connection
    /\ session = 0
    /\ sessions < MaxSessions
    /\ sessions' = sessions + 1
    /\ session' = sessions + 1
    /\ connection' = TRUE
    /\ NewClosure
    /\ UNCHANGED <<serverVars, channel, links, logins, changes, accidents>>

(* api.connect throws: the module keeps its connection variable, so that   *)
(* connect() is refused from now on, but the caller has got no connection. *)
ConnectFails ==
    /\ ~connection
    /\ session = 0
    /\ sessions < MaxSessions
    /\ sessions' = sessions + 1
    /\ connection' = TRUE
    /\ UNCHANGED <<session, serverVars, channel, closure, links, logins, changes, accidents>>

(* disconnect(): the unsubscribe requests go down with the session.        *)
Disconnect ==
    /\ connection
    /\ session # 0
    /\ session' = 0
    /\ connection' = FALSE
    /\ subscriptions' = {}
    /\ NoServer
    /\ UNCHANGED <<channel, loggedIn, requests, queue, issued, called, counters>>

-----------------------------------------------------------------------------
(* send(): what is sent on a link that is down does not arrive.            *)
Send(rs) == sent' = IF link = "up" THEN sent \o rs ELSE sent

SubscribeLater(s) == UNCHANGED sent
SubscribeNow(s) == IF loggedIn THEN Send(<<Request("subscribe", s)>>) ELSE UNCHANGED sent

(* subscribe() throws for a symbol that is subscribed.                     *)
Subscribe(s) ==
    /\ connection /\ session # 0
    /\ s \notin subscriptions
    /\ changes < MaxChanges
    /\ changes' = changes + 1
    /\ subscriptions' = subscriptions \cup {s}
    /\ SubscribeNow(s)
    /\ UNCHANGED <<session, connection, link, authorised, feed, answers, overdue, channel,
                   loggedIn, requests, queue, issued, called,
                   sessions, links, logins, accidents>>

(* The function that subscribe() returned, or an older one for the same    *)
(* symbol: either acts on whatever subscription there is.                  *)
Unsubscribe(s) ==
    /\ connection /\ session # 0
    /\ s \in subscriptions
    /\ changes < MaxChanges
    /\ changes' = changes + 1
    /\ subscriptions' = subscriptions \ {s}
    /\ Send(<<Request("unsubscribe", s)>>)
    /\ UNCHANGED <<session, connection, link, authorised, feed, answers, overdue, channel,
                   loggedIn, requests, queue, issued, called,
                   sessions, links, logins, accidents>>

(* quotes(), daily() and holidays(): whenLoggedIn(action).                 *)
Fetch(f) ==
    /\ connection /\ session # 0
    /\ f \notin called
    /\ called' = called \cup {f}
    /\ IF loggedIn
       THEN /\ issued' = [issued EXCEPT ![f] = @ + 1]
            /\ UNCHANGED queue
       ELSE /\ queue' = Append(queue, f)
            /\ UNCHANGED issued
    /\ UNCHANGED <<session, connection, serverVars, channel, loggedIn, subscriptions, requests,
                   counters>>

-----------------------------------------------------------------------------
(* receive(), on the message at the head of either channel.                *)

(* onStatusChange.  A login on a link that is down again is refused by     *)
(* ATSendRequest or is never answered.                                     *)
OnConnected(m) ==
    /\ m = Status("connected")
    /\ logins' = logins + 1
    /\ \/ /\ link = "up"
          /\ Send(<<Request("login", logins')>>)
          /\ requests' = requests \cup {logins'}
          /\ UNCHANGED overdue
       \/ /\ link = "down"
          /\ requests' = requests \cup {logins'}
          /\ overdue' = overdue \cup {logins'}
          /\ UNCHANGED sent
       \/ /\ link = "down"
          /\ UNCHANGED <<requests, overdue, sent>>
    /\ UNCHANGED <<link, authorised, feed, answers, loggedIn, subscriptions, queue, issued, called>>

OnDisconnected(m) ==
    /\ m = Status("disconnected")
    /\ loggedIn' = FALSE
    /\ UNCHANGED <<logins, serverVars, subscriptions, requests, queue, issued, called>>

(* onLogin.  queue.forEach(invoke) carries out what has waited.            *)
subscribeAll ==
    LET symbols == SetToSeq(subscriptions)
    IN  [i \in DOMAIN symbols |-> Request("subscribe", symbols[i])]

Waiting(f) == Cardinality({i \in DOMAIN queue : queue[i] = f})

NothingToDo == <<>>
WholeQueue == queue
QueueAfterLogin == <<"subscribeAll">>

OnLogin(m) ==
    /\ m.type = "login-response" /\ m.request \in requests
    /\ requests' = requests \ {m.request}
    /\ IF m.value = "success"
       THEN /\ loggedIn' = TRUE
            /\ Send(IF Contains(queue, "subscribeAll") THEN subscribeAll ELSE <<>>)
            /\ issued' = [f \in Fetches |-> issued[f] + Waiting(f)]
            /\ queue' = QueueAfterLogin
       ELSE UNCHANGED <<loggedIn, sent, issued, queue>>
    /\ UNCHANGED <<logins, link, authorised, feed, answers, overdue, subscriptions, called>>

(* onLogin as well, for a login that timed out; "error" is no response.    *)
OnLoginError(m) ==
    /\ m.type = "error" /\ m.request \in requests
    /\ requests' = requests \ {m.request}
    /\ UNCHANGED <<logins, serverVars, loggedIn, subscriptions, queue, issued, called>>

(* Nobody waits for it: the handler is noop.                               *)
OnStale(m) ==
    /\ m.request \notin requests \cup {NoRequest}
    /\ UNCHANGED <<logins, serverVars, closure>>

Receive(m) ==
    OnConnected(m) \/ OnDisconnected(m) \/ OnLogin(m) \/ OnLoginError(m) \/ OnStale(m)

ReceiveUrgent ==
    /\ urgent # <<>>
    /\ Receive(Head(urgent))
    /\ urgent' = Tail(urgent)
    /\ UNCHANGED <<session, connection, ordinary, sessions, links, changes, accidents>>

ReceiveOrdinary ==
    /\ ordinary # <<>>
    /\ Receive(Head(ordinary))
    /\ ordinary' = Tail(ordinary)
    /\ UNCHANGED <<session, connection, urgent, sessions, links, changes, accidents>>

(* An error without a request: onError throws out of receiveMessages() and *)
(* whatever follows in the same call is lost.                              *)
RestOfTheCall == (0 .. Len(urgent) - 1) \X (0 .. Len(ordinary))

OnError ==
    /\ urgent # <<>>
    /\ Head(urgent) = Error(NoRequest)
    /\ \E lost \in RestOfTheCall :
          /\ urgent' = SubSeq(urgent, lost[1] + 2, Len(urgent))
          /\ ordinary' = SubSeq(ordinary, lost[2] + 1, Len(ordinary))
    /\ UNCHANGED <<session, connection, serverVars, closure, counters>>

-----------------------------------------------------------------------------
(* The API and the server.                                                 *)
Accident == accidents < MaxAccidents /\ accidents' = accidents + 1
LoginsIn(rs) == {rs[i].what : i \in {k \in DOMAIN rs : rs[k].kind = "login"}}

(* A handler posts its message, or an error if that fails, or nothing if   *)
(* pushError throws out of the handler.                                    *)
Posts(m, error) ==
    \/ /\ ordinary' = Append(ordinary, m)
       /\ UNCHANGED <<urgent, accidents>>
    \/ /\ Accident
       /\ urgent' \in {Append(urgent, error), urgent}
       /\ UNCHANGED ordinary

(* onSessionStatusChange.                                                  *)
Report(value) == Posts(Status(value), Error(NoRequest))

LinkUp ==
    /\ session # 0 /\ link = "down"
    /\ links < MaxLinks
    /\ links' = links + 1
    /\ link' = "up"
    /\ Report("connected")
    /\ UNCHANGED <<session, connection, authorised, feed, sent, answers, overdue, closure,
                   sessions, logins, changes>>

LinkDown ==
    /\ link = "up"
    /\ link' = "down"
    /\ authorised' = FALSE /\ feed' = {} /\ sent' = <<>>
    /\ overdue' = overdue \cup LoginsIn(sent)
    /\ Report("disconnected")
    /\ UNCHANGED <<session, connection, answers, closure, sessions, links, logins, changes>>

ServeLogin ==
    /\ sent # <<>> /\ Head(sent).kind = "login"
    /\ sent' = Tail(sent)
    /\ \/ /\ authorised' = TRUE
          /\ answers' = answers \cup {LoginResponse(Head(sent).what, "success")}
          /\ UNCHANGED accidents
       \/ /\ Accident
          /\ answers' = answers \cup {LoginResponse(Head(sent).what, "denied")}
          /\ UNCHANGED authorised
    /\ UNCHANGED <<session, connection, link, feed, overdue, channel, closure,
                   sessions, links, logins, changes>>

ServeSubscription ==
    /\ sent # <<>> /\ Head(sent).kind # "login"
    /\ sent' = Tail(sent)
    /\ feed' = IF Head(sent).kind = "subscribe" /\ authorised
               THEN feed \cup {Head(sent).what}
               ELSE feed \ {Head(sent).what}
    /\ UNCHANGED <<session, connection, link, authorised, answers, overdue, channel, closure,
                   counters>>

LoseRequest ==
    /\ sent # <<>> /\ Accident
    /\ sent' = Tail(sent)
    /\ overdue' = overdue \cup LoginsIn(<<Head(sent)>>)
    /\ UNCHANGED <<session, connection, link, authorised, feed, answers, channel, closure,
                   sessions, links, logins, changes>>

(* Another thread of the API may have reported a later change of the link  *)
(* before.                                                                 *)
onLoginResponse ==
    /\ \E a \in answers : answers' = answers \ {a} /\ Posts(a, Error(a.request))
    /\ UNCHANGED <<session, connection, link, authorised, feed, sent, overdue, closure,
                   sessions, links, logins, changes>>

onRequestTimeout ==
    /\ \E n \in overdue :
          /\ overdue' = overdue \ {n}
          /\ \/ urgent' = Append(urgent, Error(n)) /\ UNCHANGED accidents
             \/ Accident /\ UNCHANGED urgent
    /\ UNCHANGED <<session, connection, link, authorised, feed, sent, answers, ordinary, closure,
                   sessions, links, logins, changes>>

(* A stream or server-time update that cannot be queued.                   *)
UpdateFails ==
    /\ link = "up" /\ Accident
    /\ urgent' = Append(urgent, Error(NoRequest))
    /\ UNCHANGED <<session, connection, serverVars, ordinary, closure,
                   sessions, links, logins, changes>>

-----------------------------------------------------------------------------
Application ==
    \/ Connect \/ ConnectFails \/ Disconnect
    \/ \E s \in Symbols : Subscribe(s) \/ Unsubscribe(s)
    \/ \E f \in Fetches : Fetch(f)

Receiving == ReceiveUrgent \/ ReceiveOrdinary \/ OnError
Serving == ServeLogin \/ ServeSubscription
Reporting == onLoginResponse \/ onRequestTimeout

Next == Application \/ Receiving \/ Serving \/ Reporting \/ LinkUp \/ LinkDown
            \/ LoseRequest \/ UpdateFails

Spec == Init /\ [][Next]_vars

(* The loop delivers (see Bridge), the server works off what arrives, and  *)
(* the API reports answers.  Nobody need call, connect or lose anything.   *)
FairSpec ==
    /\ Spec
    /\ WF_vars(ReceiveUrgent \/ OnError) /\ WF_vars(ReceiveOrdinary)
    /\ WF_vars(Serving) /\ WF_vars(onLoginResponse)

-----------------------------------------------------------------------------
Messages ==
    {Status(v) : v \in {"connected", "disconnected"}}
        \cup {LoginResponse(n, v) : n \in 1 .. logins, v \in {"success", "denied"}}
        \cup {Error(n) : n \in 0 .. logins}

TypeOK ==
    /\ session \in 0 .. MaxSessions /\ sessions \in 0 .. MaxSessions
    /\ link \in {"up", "down"} /\ authorised \in BOOLEAN
    /\ link = "down" => ~authorised /\ feed = {} /\ sent = <<>>
    /\ session = 0 => link = "down"
    /\ feed \subseteq Symbols
    /\ sent \in Seq([kind : {"login"}, what : 1 .. logins]
                        \cup [kind : {"subscribe", "unsubscribe"}, what : Symbols])
    /\ answers \subseteq Messages
    /\ overdue \subseteq 1 .. logins
    /\ urgent \in Seq(Messages) /\ ordinary \in Seq(Messages)
    /\ connection \in BOOLEAN /\ (session # 0 => connection)
    /\ loggedIn \in BOOLEAN
    /\ subscriptions \subseteq Symbols
    /\ requests \subseteq 1 .. logins
    /\ queue \in Seq({"subscribeAll"} \cup Fetches)
    /\ Len(SelectSeq(queue, LAMBDA a : a = "subscribeAll")) = 1
    /\ called \subseteq Fetches
    /\ issued \in [Fetches -> Nat]
    /\ links \in 0 .. MaxLinks /\ logins \in Nat
    /\ changes \in 0 .. MaxChanges /\ accidents \in 0 .. MaxAccidents

(* Nothing that would change the login is under way.                       *)
LoginIsSettled ==
    /\ \A i \in DOMAIN ordinary : ordinary[i].type # "session-status-change"
    /\ LoginsIn(sent) = {}
    /\ \A n \in requests :
          /\ \A a \in answers : a.request # n
          /\ \A i \in DOMAIN ordinary : ordinary[i].request # n

(* Will the server stream s when it has worked off what is sent?           *)
WillStream(s) ==
    LET about == {i \in DOMAIN sent : sent[i].what = s}
    IN  IF about = {} THEN s \in feed
        ELSE sent[CHOOSE i \in about : \A k \in about : k <= i].kind = "subscribe"

(* What the application has subscribed to is what the server streams, or   *)
(* will when it has worked off the requests on their way: across losses of *)
(* the link, changes made while it was down or while the login was under   *)
(* way, stale answers and earlier sessions.                                *)
StreamsWhatIsSubscribed ==
    loggedIn /\ authorised /\ LoginIsSettled /\ accidents = 0 =>
        \A s \in Symbols : s \in subscriptions <=> WillStream(s)

(* Every action handed to whenLoggedIn is carried out once: it waits in    *)
(* the queue or was carried out, never both and never twice, however often *)
(* the session is lost and logged in again; and it does not wait when the  *)
(* connection is logged in.                                                *)
EachActionOnce ==
    \A f \in Fetches :
        /\ issued[f] + Waiting(f) = IF f \in called THEN 1 ELSE 0
        /\ loggedIn => Waiting(f) = 0

(* While the link is up, a subscription is streamed and a fetch requested  *)
(* sooner or later, unless an accident happens or the application gives    *)
(* the subscription up: every loss of the link is repaired by the next     *)
(* login.                                                                  *)
WantsStream(s) == connection /\ s \in subscriptions /\ link = "up"
WantsFetch(f) == connection /\ f \in called /\ link = "up"
EventuallyServed ==
    /\ \A s \in Symbols : WantsStream(s) ~> (s \in feed \/ ~WantsStream(s) \/ accidents > 0)
    /\ \A f \in Fetches : WantsFetch(f) ~> (issued[f] = 1 \/ ~WantsFetch(f) \/ accidents > 0)
=============================================================================
