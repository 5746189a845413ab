----------------------------- MODULE DailyProofs -----------------------------
(***************************************************************************)
(* daily() implements HistoryCall, for answers of any length, any number   *)
(* of cancellations and logouts, with timeouts that race the answer,       *)
(* requests that are not sent and messages that are lost.                  *)
(***************************************************************************)
EXTENDS Daily, SequenceTheorems, FiniteSetTheorems, TLAPS

LEMMA HeadAndTail ==
    ASSUME NEW S, NEW s \in Seq(S), s # <<>>
    PROVE  /\ Head(s) \in S /\ Tail(s) \in Seq(S)
           /\ Len(s) \in Nat /\ Len(s) > 0 /\ Len(Tail(s)) = Len(s) - 1
           /\ Head(s) = s[1]
           /\ \A i \in 1 .. Len(Tail(s)) : i + 1 \in 1 .. Len(s) /\ Tail(s)[i] = s[i + 1]
<1>1. Len(s) \in Nat /\ Len(s) # 0
  BY LenProperties, EmptySeq
<1>2. Tail(s) \in Seq(S) /\ Len(Tail(s)) = Len(s) - 1
      /\ \A i \in 1 .. Len(Tail(s)) : Tail(s)[i] = s[i + 1]
  BY HeadTailProperties
<1>3. Head(s) = s[1] /\ Head(s) \in S
  BY HeadTailProperties
<1>4. QED
  BY <1>1, <1>2, <1>3

LEMMA Appended ==
    ASSUME NEW S, NEW s \in Seq(S), NEW e \in S
    PROVE  /\ Append(s, e) \in Seq(S)
           /\ Len(s) \in Nat /\ Len(Append(s, e)) = Len(s) + 1
           /\ \A i \in 1 .. Len(s) : Append(s, e)[i] = s[i]
           /\ Append(s, e)[Len(s) + 1] = e
BY AppendProperties, LenProperties

(* What is left of a sequence without its first k elements.                *)
LEMMA Dropped ==
    ASSUME NEW S, NEW s \in Seq(S), NEW k \in 0 .. Len(s)
    PROVE  LET t == SubSeq(s, k + 1, Len(s))
           IN  /\ t \in Seq(S) /\ Len(s) \in Nat /\ Len(t) = Len(s) - k
               /\ \A i \in 1 .. Len(t) : k + i \in 1 .. Len(s) /\ t[i] = s[k + i]
<1> DEFINE n == Len(s)
           t == SubSeq(s, k + 1, n)
<1>1. n \in Nat /\ k \in Nat /\ k <= n
  BY LenProperties
<1>2. \A i \in k + 1 .. n : s[i] \in S
  BY <1>1, ElementOfSeq
<1> HIDE DEF n
<1>3. /\ t \in Seq(S)
      /\ Len(t) = IF k + 1 <= n THEN n - (k + 1) + 1 ELSE 0
      /\ \A i \in 1 .. n - (k + 1) + 1 : t[i] = s[k + 1 + i - 1]
  <2>1. k + 1 \in Int /\ n \in Int
    BY <1>1
  <2>2. QED
    BY <1>2, <2>1, SubSeqProperties
<1> HIDE DEF t
<1>4. Len(t) = n - k
  BY <1>1, <1>3
<1>5. \A i \in 1 .. Len(t) : k + i \in 1 .. n /\ t[i] = s[k + i]
  <2> SUFFICES ASSUME NEW i \in 1 .. Len(t)
               PROVE  k + i \in 1 .. n /\ t[i] = s[k + i]
    OBVIOUS
  <2>1. i \in 1 .. n - (k + 1) + 1 /\ k + 1 + i - 1 = k + i /\ k + i \in 1 .. n
    BY <1>1, <1>4
  <2>2. QED
    BY <1>3, <2>1
<1>6. QED
  BY <1>1, <1>3, <1>4, <1>5 DEF n, t

-----------------------------------------------------------------------------
(* Where the call stands.                                                  *)
Requested ==
    /\ ~called => ~waiting /\ request = "undefined"
    /\ waiting => request = "undefined"
    /\ server # "idle" => request = "sent"
    /\ \A k \in Keys : requests[k] = "dispatch" => k = request /\ k # "undefined" /\ timers[k] = 0
    /\ \A k \in Keys : timers[k] # 0 => k = request \/ k = "undefined"

(* Before the answer begins there is nothing of it.                        *)
Fresh ==
    server \in {"idle", "open"} =>
        bars = <<>> /\ told = <<>> /\ ordinary = <<>> /\ posted = 0

(* Only errors overtake.                                                   *)
Errors == {m \in Messages : m.message = "error"}

State == TypeOK /\ Requested /\ Fresh /\ urgent \in Seq(Errors)

LEMMA PostType ==
    ASSUME TypeOK, NEW m \in Messages, Post(m) \/ PostError
    PROVE  urgent' \in Seq(Messages) /\ ordinary' \in Seq(Messages)
<1>1. Message("error", FALSE, 0) \in Messages
  BY DEF Message, Messages
<1>2. /\ urgent \in Seq(Messages) /\ ordinary \in Seq(Messages)
      /\ Append(ordinary, m) \in Seq(Messages)
      /\ Append(urgent, Message("error", FALSE, 0)) \in Seq(Messages)
  BY <1>1, AppendProperties DEF TypeOK
<1>3. QED
  BY <1>2 DEF Post, PostError

LEMMA AskType ==
    ASSUME TypeOK, requestBars
    PROVE  /\ request' \in Keys /\ requests' \in [Keys -> {"nothing", "noop", "dispatch"}]
           /\ server' \in {"idle", "open", "bars", "done"}
BY DEF TypeOK, requestBars, Keys

LEMMA CancelType ==
    ASSUME TypeOK, cancel
    PROVE  requests' \in [Keys -> {"nothing", "noop", "dispatch"}] /\ timers' \in [Keys -> Nat]
BY DEF TypeOK, cancel

(* What a message does to the table and to the listener.                   *)
Receives(m) ==
    /\ requests' \in [Keys -> {"nothing", "noop", "dispatch"}] /\ timers' \in [Keys -> Nat]
    /\ told' \in Seq(Nat) /\ outcomes' \in Seq({"completed", "error"})
    /\ UNCHANGED <<loggedIn, waiting, request, api, lost, counters>>
    /\ cancel \/ UNCHANGED <<requests, timers>>

LEMMA ReceiveType ==
    ASSUME TypeOK, NEW m \in Messages, Receive(m)
    PROVE  Receives(m)
<1>1. m.bar \in Nat
  BY DEF Messages
<1>2. Append(told, m.bar) \in Seq(Nat)
  BY <1>1, Appended DEF TypeOK
<1>3. /\ Append(outcomes, "error") \in Seq({"completed", "error"})
      /\ Append(outcomes, "completed") \in Seq({"completed", "error"})
  BY Appended DEF TypeOK
<1>4. told' \in Seq(Nat) /\ outcomes' \in Seq({"completed", "error"})
  BY <1>2, <1>3
     DEF TypeOK, Receive, dispatch, OnResponse, OnBar, OnComplete, OnError, listener
<1>5. cancel \/ UNCHANGED <<requests, timers>>
  BY DEF Receive, dispatch, OnResponse, OnBar, OnComplete, OnError
<1>6. requests' \in [Keys -> {"nothing", "noop", "dispatch"}] /\ timers' \in [Keys -> Nat]
  BY <1>5, CancelType DEF TypeOK
<1>7. QED
  BY <1>4, <1>5, <1>6 DEF Receive, Receives

LEMMA ClientType ==
    ASSUME TypeOK, Call \/ LogIn \/ LogOut \/ Cancel \/ Clear
    PROVE  TypeOK'
<1>1. CASE Call
  BY <1>1, AskType DEF Call, TypeOK, channel, listener
<1>2. CASE LogIn
  BY <1>2, AskType DEF LogIn, TypeOK, channel, listener, counters
<1>3. CASE LogOut
  <2>1. logouts' \in 0 .. MaxLogouts
    BY <1>3, NumberAssumption DEF LogOut, TypeOK
  <2>2. QED
    BY <1>3, <2>1 DEF LogOut, TypeOK, api, channel, listener
<1>4. CASE Cancel
  <2>1. requests' \in [Keys -> {"nothing", "noop", "dispatch"}] /\ timers' \in [Keys -> Nat]
    BY <1>4, CancelType DEF Cancel
  <2>2. cancels' \in 0 .. MaxCancels
    BY <1>4, NumberAssumption DEF Cancel, TypeOK
  <2>3. UNCHANGED <<loggedIn, waiting, request, api, channel, listener, lost, called, logouts>>
    BY <1>4 DEF Cancel
  <2>4. QED
    BY <2>1, <2>2, <2>3 DEF TypeOK, api, channel, listener
<1>5. CASE Clear
  <2>1. requests' \in [Keys -> {"nothing", "noop", "dispatch"}] /\ timers' \in [Keys -> Nat]
    BY <1>5 DEF Clear, TypeOK
  <2>2. QED
    BY <1>5, <2>1 DEF Clear, TypeOK, api, channel, listener, counters
<1>6. QED
  BY <1>1, <1>2, <1>3, <1>4, <1>5

LEMMA AnswerType ==
    ASSUME TypeOK, Fresh, Respond \/ Race
    PROVE  TypeOK'
<1>0. UNCHANGED <<client, listener, lost, counters>>
  BY DEF Respond, Race
<1>1. \A n \in {"bar-history-response", "bar-history", "response-complete"}, b \in BOOLEAN,
         k \in Nat : Message(n, b, k) \in Messages
  BY DEF Message, Messages
<1> USE DEF TypeOK, client, listener, counters
<1>2. CASE PostResponse
  <2>1. PICK n \in 0 .. MaxBars : bars' = [i \in 1 .. n |-> i]
    BY <1>2 DEF PostResponse
  <2>2. bars' \in Seq(Nat) /\ Len(bars') = n
    BY <2>1, NumberAssumption
  <2>3. posted = 0 /\ posted' = posted /\ timedOut' = timedOut /\ server' = "bars"
    BY <1>2 DEF PostResponse, Fresh
  <2>4. PICK success \in BOOLEAN : Post(Message("bar-history-response", success, 0))
    BY <1>2 DEF PostResponse
  <2>5. urgent' \in Seq(Messages) /\ ordinary' \in Seq(Messages)
    BY <1>1, <2>4, PostType
  <2>6. n \in Nat
    BY NumberAssumption
  <2>7. QED
    BY <1>0, <2>2, <2>3, <2>5, <2>6
<1>3. CASE PostBar
  <2>1. /\ posted' = posted + 1 /\ bars' = bars /\ server' = server /\ timedOut' = timedOut
        /\ posted < Len(bars) /\ Post(Message("bar-history", TRUE, bars[posted']))
    BY <1>3 DEF PostBar
  <2>2. bars \in Seq(Nat) /\ Len(bars) \in Nat /\ posted' \in 1 .. Len(bars)
    BY <2>1, LenProperties
  <2>3. bars[posted'] \in Nat
    BY <2>2, ElementOfSeq
  <2>4. urgent' \in Seq(Messages) /\ ordinary' \in Seq(Messages)
    BY <1>1, <2>1, <2>3, PostType
  <2>5. QED
    BY <1>0, <2>1, <2>2, <2>4
<1>4. CASE PostComplete \/ PostFailure \/ RacingTimeout
  <2>1. /\ bars' = bars /\ posted' = posted /\ server' \in {server, "done"}
        /\ timedOut' \in {timedOut, TRUE}
        /\ Post(Message("response-complete", TRUE, 0)) \/ PostError
    BY <1>4 DEF PostComplete, PostFailure, RacingTimeout
  <2>2. urgent' \in Seq(Messages) /\ ordinary' \in Seq(Messages)
    BY <1>1, <2>1, PostType
  <2>3. QED
    BY <1>0, <2>1, <2>2
<1>5. QED
  BY <1>2, <1>3, <1>4 DEF Respond, Race

LEMMA DeliveryType ==
    ASSUME TypeOK, ReceiveUrgent \/ ReceiveOrdinary
    PROVE  TypeOK'
<1>1. CASE ReceiveUrgent
  <2>1. Head(urgent) \in Messages /\ Tail(urgent) \in Seq(Messages)
    BY <1>1, HeadAndTail DEF ReceiveUrgent, TypeOK
  <2>2. Receive(Head(urgent)) /\ urgent' = Tail(urgent) /\ ordinary' = ordinary
    BY <1>1 DEF ReceiveUrgent
  <2>3. QED
    BY <2>1, <2>2, ReceiveType DEF Receives, TypeOK, api, counters
<1>2. CASE ReceiveOrdinary
  <2>1. Head(ordinary) \in Messages /\ Tail(ordinary) \in Seq(Messages)
    BY <1>2, HeadAndTail DEF ReceiveOrdinary, TypeOK
  <2>2. Receive(Head(ordinary)) /\ ordinary' = Tail(ordinary) /\ urgent' = urgent
    BY <1>2 DEF ReceiveOrdinary
  <2>3. QED
    BY <2>1, <2>2, ReceiveType DEF Receives, TypeOK, api, counters
<1>3. QED
  BY <1>1, <1>2

(* What is lost is a beginning of either queue.                            *)
LEMMA LossType ==
    ASSUME TypeOK, LoseTheRest
    PROVE  /\ \E j \in 0 .. Len(urgent) : urgent' = SubSeq(urgent, j + 1, Len(urgent))
           /\ \E k \in 0 .. Len(ordinary) : ordinary' = SubSeq(ordinary, k + 1, Len(ordinary))
           /\ TypeOK'
<1>1. PICK rest \in RestOfTheCall :
         /\ urgent' = SubSeq(urgent, rest[1] + 1, Len(urgent))
         /\ ordinary' = SubSeq(ordinary, rest[2] + 1, Len(ordinary))
  BY DEF LoseTheRest
<1>2. rest[1] \in 0 .. Len(urgent) /\ rest[2] \in 0 .. Len(ordinary)
  BY DEF RestOfTheCall
<1>3. urgent' \in Seq(Messages) /\ ordinary' \in Seq(Messages)
  BY <1>1, <1>2, Dropped DEF TypeOK
<1>4. lost' = TRUE /\ UNCHANGED <<client, api, listener, counters>>
  BY DEF LoseTheRest
<1>5. TypeOK'
  BY <1>3, <1>4 DEF TypeOK, client, api, listener, counters
<1>6. QED
  BY <1>1, <1>2, <1>5

-----------------------------------------------------------------------------
LEMMA AskState ==
    ASSUME State, request = "undefined", requestBars, UNCHANGED timers
    PROVE  /\ request' \in {"sent", "unsent"} /\ server = "idle"
           /\ server' = IF request' = "sent" THEN "open" ELSE "idle"
           /\ \A k \in Keys : requests'[k] = "dispatch" <=> k = request'
           /\ timers[request'] = 0
           /\ requests' = [requests EXCEPT ![request'] = "dispatch"]
BY DEF State, TypeOK, Requested, requestBars, Keys

LEMMA CancelState ==
    ASSUME State, cancel
    PROVE  /\ \A k \in Keys : requests'[k] # "dispatch"
           /\ \A k \in Keys : timers'[k] # 0 => k = request \/ timers[k] # 0
BY DEF State, TypeOK, Requested, cancel

LEMMA ErrorsKept ==
    ASSUME TypeOK, urgent \in Seq(Errors), [Next]_vars
    PROVE  urgent' \in Seq(Errors)
<1>1. Message("error", FALSE, 0) \in Errors
  BY DEF Message, Messages, Errors
<1>2. Append(urgent, Message("error", FALSE, 0)) \in Seq(Errors)
  BY <1>1, AppendProperties
<1>3. urgent # <<>> => Tail(urgent) \in Seq(Errors)
  BY HeadAndTail
<1>4. \/ urgent' = urgent
      \/ urgent' = Append(urgent, Message("error", FALSE, 0))
      \/ urgent # <<>> /\ urgent' = Tail(urgent)
      \/ LoseTheRest
  BY DEF Next, vars, Call, LogIn, LogOut, Cancel, Clear, ReceiveUrgent, ReceiveOrdinary, channel,
         Respond, Race, PostResponse, PostBar, PostComplete, PostFailure, RacingTimeout,
         Post, PostError, Escape
<1>5. CASE LoseTheRest
  <2>1. PICK j \in 0 .. Len(urgent) : urgent' = SubSeq(urgent, j + 1, Len(urgent))
    BY <1>5, LossType
  <2>2. QED
    BY <2>1, Dropped
<1>6. QED
  BY <1>2, <1>3, <1>4, <1>5

LEMMA StateKept == State /\ [Next]_vars => State'
<1> SUFFICES ASSUME State, [Next]_vars PROVE State'
  OBVIOUS
<1>0. urgent' \in Seq(Errors)
  BY ErrorsKept DEF State
<1>1. TypeOK'
  <2>1. CASE UNCHANGED vars
    BY <2>1 DEF State, TypeOK, vars, client, api, channel, listener, counters
  <2>2. CASE Escape
    BY <2>2 DEF State, TypeOK, Escape, client, channel, listener, counters
  <2>3. QED
    BY <2>1, <2>2, ClientType, AnswerType, DeliveryType, LossType DEF State, Next
<1>2. CASE Call
  BY <1>0, <1>1, <1>2, AskState DEF State, Requested, Fresh, Call, channel, listener, TypeOK
<1>3. CASE LogIn
  BY <1>0, <1>1, <1>3, AskState DEF State, Requested, Fresh, LogIn, channel, listener, counters, TypeOK
<1>4. CASE LogOut
  BY <1>0, <1>1, <1>4 DEF State, Requested, Fresh, LogOut, api, channel, listener
<1>5. CASE Cancel
  BY <1>0, <1>1, <1>5, CancelState DEF State, Requested, Fresh, Cancel, api, channel, listener
<1>6. CASE Clear
  BY <1>0, <1>1, <1>6 DEF State, Requested, Fresh, Clear, api, channel, listener, counters, TypeOK
<1>7. CASE ReceiveUrgent
  <2>1. Head(urgent) \in Errors /\ Receive(Head(urgent)) /\ UNCHANGED ordinary
    BY <1>7, HeadAndTail DEF ReceiveUrgent, State
  <2> DEFINE m == Head(urgent)
  <2> HIDE DEF m
  <2>2. Receives(m) /\ Receive(m)
    BY <2>1, ReceiveType DEF m, State, Errors
  <2>3. Requested'
    BY <2>2, CancelState DEF Receives, State, Requested, api, counters
  <2>4. told' = told
    BY <2>1, <2>2 DEF m, Errors, Receive, dispatch, OnResponse, OnBar, OnComplete, OnError, listener
  <2>5. Fresh'
    BY <2>1, <2>2, <2>4 DEF Receives, State, Fresh, api
  <2>6. QED
    BY <1>0, <1>1, <2>3, <2>5 DEF State
<1>8. CASE ReceiveOrdinary
  <2>1. Head(ordinary) \in Messages /\ Receive(Head(ordinary)) /\ ordinary # <<>>
    BY <1>8, HeadAndTail DEF ReceiveOrdinary, State, TypeOK
  <2> DEFINE m == Head(ordinary)
  <2> HIDE DEF m
  <2>2. Receives(m)
    BY <2>1, ReceiveType DEF m, State
  <2>3. Requested'
    BY <2>2, CancelState DEF Receives, State, Requested, api, counters
  <2>4. server' = server /\ server \notin {"idle", "open"}
    BY <2>1, <2>2 DEF Receives, State, Fresh, api
  <2>5. QED
    BY <1>0, <1>1, <2>3, <2>4 DEF State, Fresh
<1>9. CASE Respond \/ Race
  <2>1. Requested'
    <3>1. UNCHANGED <<called, waiting, request, requests, timers>>
      BY <1>9 DEF Respond, Race, client, counters
    <3>2. server' # "idle" => server # "idle"
      BY <1>9 DEF Respond, Race, PostResponse, PostBar, PostComplete, PostFailure, RacingTimeout
    <3>3. QED
      BY <3>1, <3>2 DEF State, Requested
  <2>2. Fresh'
    BY <1>9 DEF State, Fresh, Respond, Race, PostResponse, PostBar, PostComplete, PostFailure,
                RacingTimeout, PostError, listener
  <2>3. QED
    BY <1>0, <1>1, <2>1, <2>2 DEF State
<1>10. CASE LoseTheRest
  <2>1. PICK k \in 0 .. Len(ordinary) : ordinary' = SubSeq(ordinary, k + 1, Len(ordinary))
    BY <1>10, LossType DEF State
  <2>2. ordinary = <<>> => ordinary' = <<>>
    <3>1. Len(ordinary') = Len(ordinary) - k /\ ordinary' \in Seq(Messages) /\ Len(ordinary) \in Nat
      BY <2>1, Dropped DEF State, TypeOK
    <3>2. QED
      BY <3>1, EmptySeq
  <2>3. QED
    BY <1>0, <1>1, <1>10, <2>2
       DEF State, Requested, Fresh, LoseTheRest, client, api, listener, counters
<1>11. CASE Escape
  BY <1>0, <1>1, <1>11 DEF State, Requested, Fresh, Escape, client, channel, listener, counters
<1>12. CASE UNCHANGED vars
  BY <1>0, <1>1, <1>12 DEF State, Requested, Fresh, vars, client, api, channel, listener, counters
<1>13. QED
  BY <1>2, <1>3, <1>4, <1>5, <1>6, <1>7, <1>8, <1>9, <1>10, <1>11, <1>12 DEF Next

-----------------------------------------------------------------------------
(* The answer is a header, the bars and the trailer; ordinary messages are *)
(* a section of it, behind the first n.  While nothing is lost, a call that*)
(* listens has been told what comes before that section.                   *)
Nth(m, n) ==
    \/ n = 1 /\ m.message = "bar-history-response"
    \/ n \in 2 .. posted + 1 /\ m.message = "bar-history" /\ m.bar = bars[n - 1]
    \/ n = posted + 2 /\ m.message = "response-complete" /\ posted = Len(bars) /\ server = "done"

NthNext(m, n) ==
    \/ n = 1 /\ m.message = "bar-history-response"
    \/ n \in 2 .. posted' + 1 /\ m.message = "bar-history" /\ m.bar = bars'[n - 1]
    \/ n = posted' + 2 /\ m.message = "response-complete" /\ posted' = Len(bars') /\ server' = "done"

Section(n) ==
    /\ \A i \in 1 .. Len(ordinary) : Nth(ordinary[i], n + i)
    /\ server \in {"idle", "open"} => n = 0
    /\ server = "bars" => n + Len(ordinary) = posted + 1
    /\ posted > 0 => n + Len(ordinary) >= posted + 1

ToldUpTo(n) ==
    ~lost =>
        /\ requests["sent"] = "dispatch" => Len(told) = IF n = 0 THEN 0 ELSE n - 1
        /\ \A i \in 1 .. Len(told) : i \in 1 .. Len(bars) /\ told[i] = bars[i]

Telling == \E n \in Nat : Section(n) /\ ToldUpTo(n)

LEMMA Lengths ==
    ASSUME TypeOK
    PROVE  /\ Len(ordinary) \in Nat /\ Len(told) \in Nat /\ Len(bars) \in Nat
           /\ posted \in Nat /\ posted <= Len(bars)
<1>1. Len(ordinary) \in Nat /\ Len(told) \in Nat /\ Len(bars) \in Nat
  BY LenProperties DEF TypeOK
<1>2. QED
  BY <1>1 DEF TypeOK

(* How many of p bars are among the first n messages of the answer, and so *)
(* neither to be posted nor to come.                                       *)
PassedOf(n, p) == IF n = 0 THEN 0 ELSE IF n <= p THEN n - 1 ELSE p

LEMMA CountOfBars ==
    ASSUME NEW s, NEW len \in Nat, DOMAIN s = 1 .. len,
           NEW n \in Nat, NEW p \in Nat, p > 0 => n + len >= p + 1,
           \A i \in 1 .. len : s[i].message = "bar-history" <=> n + i \in 2 .. p + 1
    PROVE  /\ p - Cardinality({i \in DOMAIN s : s[i].message = "bar-history"}) = PassedOf(n, p)
           /\ PassedOf(n, p) \in 0 .. p
<1> DEFINE coming == {i \in DOMAIN s : s[i].message = "bar-history"}
           first == IF n = 0 THEN 2 ELSE 1
<1>1. coming = {i \in 1 .. len : n + i \in 2 .. p + 1}
  OBVIOUS
<1> HIDE DEF coming
<1>2. coming = first .. p + 1 - n
  BY <1>1
<1>3. first \in Int /\ p + 1 - n \in Int
  OBVIOUS
<1> HIDE DEF first
<1>4. Cardinality(coming) = IF first > p + 1 - n THEN 0 ELSE p + 1 - n - first + 1
  BY <1>2, <1>3, FS_Interval
<1>5. p - Cardinality(coming) = PassedOf(n, p)
  BY <1>4 DEF PassedOf, first
<1>6. PassedOf(n, p) \in 0 .. p
  BY DEF PassedOf
<1>7. QED
  BY <1>5, <1>6 DEF coming

Kind(m, n, p) ==
    \/ n = 1 /\ m.message = "bar-history-response"
    \/ n \in 2 .. p + 1 /\ m.message = "bar-history"
    \/ n = p + 2 /\ m.message = "response-complete"

LEMMA BarsInSection ==
    ASSUME NEW p \in Nat, NEW n \in Nat, NEW m, Kind(m, n, p)
    PROVE  m.message = "bar-history" <=> n \in 2 .. p + 1
BY DEF Kind

LEMMA PassedNow ==
    ASSUME TypeOK, NEW n \in Nat, Section(n)
    PROVE  Passed = PassedOf(n, posted) /\ PassedOf(n, posted) \in 0 .. posted
<1>1. posted \in Nat /\ Len(ordinary) \in Nat /\ DOMAIN ordinary = 1 .. Len(ordinary)
  BY Lengths, LenProperties DEF TypeOK
<1>2. \A i \in 1 .. Len(ordinary) :
         ordinary[i].message = "bar-history" <=> n + i \in 2 .. posted + 1
  <2> SUFFICES ASSUME NEW i \in 1 .. Len(ordinary)
               PROVE  ordinary[i].message = "bar-history" <=> n + i \in 2 .. posted + 1
    OBVIOUS
  <2>1. n + i \in Nat /\ Kind(ordinary[i], n + i, posted)
    BY <1>1 DEF Section, Nth, Kind
  <2>2. QED
    BY <1>1, <2>1, BarsInSection
<1>3. posted > 0 => n + Len(ordinary) >= posted + 1
  BY DEF Section
<1>4. QED
  BY <1>1, <1>2, <1>3, CountOfBars DEF Passed, Coming

LEMMA PassedNext ==
    ASSUME TypeOK', NEW n \in Nat, Section(n)'
    PROVE  Passed' = PassedOf(n, posted') /\ PassedOf(n, posted') \in 0 .. posted'
<1>1. posted' \in Nat /\ Len(ordinary') \in Nat /\ DOMAIN ordinary' = 1 .. Len(ordinary')
  <2>1. Len(ordinary') \in Nat /\ DOMAIN ordinary' = 1 .. Len(ordinary') /\ Len(bars') \in Nat
    BY LenProperties DEF TypeOK
  <2>2. QED
    BY <2>1 DEF TypeOK
<1>2. \A i \in 1 .. Len(ordinary') :
         ordinary'[i].message = "bar-history" <=> n + i \in 2 .. posted' + 1
  <2> SUFFICES ASSUME NEW i \in 1 .. Len(ordinary')
               PROVE  ordinary'[i].message = "bar-history" <=> n + i \in 2 .. posted' + 1
    OBVIOUS
  <2>1. n + i \in Nat
    BY <1>1
  <2>2. Nth(ordinary[i], n + i)'
    BY DEF Section
  <2>3. Kind(ordinary'[i], n + i, posted')
    BY <2>2 DEF Nth, Kind
  <2>4. QED
    BY <1>1, <2>1, <2>3, BarsInSection
<1>3. posted' > 0 => n + Len(ordinary') >= posted' + 1
  BY DEF Section
<1>4. QED
  BY <1>1, <1>2, <1>3, CountOfBars DEF Passed, Coming

-----------------------------------------------------------------------------
LEMMA TellingKept ==
    ASSUME Telling, UNCHANGED <<ordinary, told, bars, posted>>,
           lost' = lost \/ lost' = TRUE,
           server' = server \/ (server' = "done" /\ server \in {"open", "bars"}),
           requests'["sent"] = "dispatch" => requests["sent"] = "dispatch"
    PROVE  Telling'
<1>1. PICK n \in Nat : Section(n) /\ ToldUpTo(n)
  BY DEF Telling
<1>2. \A m, k : Nth(m, k) => Nth(m, k)'
  BY DEF Nth
<1>3. Section(n)'
  BY <1>1, <1>2 DEF Section
<1>4. ToldUpTo(n)'
  BY <1>1 DEF ToldUpTo
<1>5. QED
  BY <1>3, <1>4 DEF Telling

LEMMA PassedKept ==
    ASSUME UNCHANGED <<ordinary, posted>>
    PROVE  Passed' = Passed
BY DEF Passed, Coming

(* The request is made before there is an answer.                          *)
LEMMA AskTells ==
    ASSUME State, Telling, request = "undefined", requestBars,
           UNCHANGED <<timers, ordinary, told, bars, posted>>
    PROVE  Telling'
<1>1. server = "idle" /\ server' \in {"idle", "open"}
  BY AskState
<1>2. /\ ordinary' = <<>> /\ told' = <<>> /\ Len(ordinary') = 0 /\ Len(told') = 0
      /\ posted' = 0
  BY <1>1, EmptySeq DEF State, Fresh
<1>3. Section(0)' /\ ToldUpTo(0)'
  BY <1>1, <1>2 DEF Section, ToldUpTo
<1>4. QED
  BY <1>3 DEF Telling

(* The next message of the answer is posted.                               *)
LEMMA PostTells ==
    ASSUME State, NEW m \in Messages, Post(m),
           UNCHANGED <<requests, told, lost>>,
           NEW n \in Nat, Section(n), ToldUpTo(n), n + Len(ordinary) \in Nat,
           posted' \in Nat, n + Len(ordinary) + 1 >= posted' + 1,
           \A k \in Nat : \A e : Nth(e, k) => NthNext(e, k),
           NthNext(m, n + Len(ordinary) + 1),
           server' \in {"bars", "done"},
           server' = "bars" => n + Len(ordinary) + 1 = posted' + 1,
           \A i \in 1 .. Len(told) : i \in 1 .. Len(bars) => i \in 1 .. Len(bars') /\ bars'[i] = bars[i]
    PROVE  Section(n)' /\ ToldUpTo(n)'
<1>1. /\ ordinary' = Append(ordinary, m) /\ Len(ordinary) \in Nat
      /\ Len(ordinary') = Len(ordinary) + 1
      /\ \A i \in 1 .. Len(ordinary) : ordinary'[i] = ordinary[i]
      /\ ordinary'[Len(ordinary) + 1] = m
  BY Appended DEF Post, State, TypeOK
<1>2. \A i \in 1 .. Len(ordinary') : NthNext(ordinary'[i], n + i)
  <2> SUFFICES ASSUME NEW i \in 1 .. Len(ordinary')
               PROVE  NthNext(ordinary'[i], n + i)
    OBVIOUS
  <2>1. CASE i \in 1 .. Len(ordinary)
    <3>1. n + i \in Nat /\ Nth(ordinary[i], n + i)
      BY <2>1 DEF Section
    <3>2. QED
      BY <1>1, <2>1, <3>1
  <2>2. CASE i = Len(ordinary) + 1
    <3>1. n + i = n + Len(ordinary) + 1 /\ ordinary'[i] = m
      BY <1>1, <2>2
    <3>2. QED
      BY <3>1
  <2>3. i \in 1 .. Len(ordinary) \/ i = Len(ordinary) + 1
    BY ONLY <1>1, i \in 1 .. Len(ordinary')
  <2>4. QED
    BY <2>1, <2>2, <2>3
<1>3. Section(n)'
  <2>1. \A i \in 1 .. Len(ordinary') : Nth(ordinary[i], n + i)'
    BY <1>2 DEF Nth, NthNext
  <2>2. server' \notin {"idle", "open"}
    OBVIOUS
  <2>3. server' = "bars" => n + Len(ordinary') = posted' + 1
    BY <1>1
  <2>4. posted' > 0 => n + Len(ordinary') >= posted' + 1
    BY <1>1
  <2>5. QED
    BY <2>1, <2>2, <2>3, <2>4 DEF Section
<1>4. ToldUpTo(n)'
  BY DEF ToldUpTo
<1>5. QED
  BY <1>3, <1>4

LEMMA AnswerTells ==
    ASSUME State, State', Telling, Respond \/ Race
    PROVE  Telling' /\ Passed' = Passed
<1>0. /\ UNCHANGED <<requests, told, lost>>
      /\ posted \in Nat /\ Len(bars) \in Nat /\ posted <= Len(bars) /\ Len(ordinary) \in Nat
  BY Lengths DEF State, Respond, Race, client, listener
<1>1. PICK n \in Nat : Section(n) /\ ToldUpTo(n)
  BY DEF Telling
<1>2. Passed = PassedOf(n, posted)
  BY <1>1, PassedNow DEF State
<1>3. ASSUME Section(n)', ToldUpTo(n)', PassedOf(n, posted') = PassedOf(n, posted)
      PROVE  Telling' /\ Passed' = Passed
  <2>1. Passed' = PassedOf(n, posted')
    BY <1>3, PassedNext DEF State
  <2>2. QED
    BY <1>2, <1>3, <2>1 DEF Telling
<1>4. CASE PostResponse
  <2>1. PICK success \in BOOLEAN : Post(Message("bar-history-response", success, 0))
    BY <1>4 DEF PostResponse
  <2> DEFINE m == Message("bar-history-response", success, 0)
  <2>2. m \in Messages /\ m.message = "bar-history-response"
    BY DEF Message, Messages
  <2>3. Post(m)
    BY <2>1
  <2> HIDE DEF m
  <2>4. /\ posted' = posted /\ posted = 0 /\ server' = "bars" /\ n = 0
        /\ ordinary = <<>> /\ told = <<>> /\ Len(ordinary) = 0 /\ Len(told) = 0
    BY <1>1, <1>4, EmptySeq DEF PostResponse, State, Fresh, Section
  <2>5. Len(ordinary') = 1 /\ ordinary'[1] = m
    BY <2>2, <2>3, <2>4, Appended DEF Post, State, TypeOK
  <2>6. Section(0)' /\ ToldUpTo(0)'
    <3>1. \A i \in 1 .. Len(ordinary') : i = 1 /\ 0 + i = 1 /\ ordinary'[i] = m
      BY <2>5
    <3>2. \A i \in 1 .. Len(ordinary') : Nth(ordinary[i], 0 + i)'
      BY <2>2, <3>1 DEF Nth
    <3>3. QED
      BY <1>0, <2>4, <2>5, <3>2 DEF Section, ToldUpTo
  <2>7. QED
    BY <1>3, <2>4, <2>6
<1>5. CASE PostBar
  <2> DEFINE m == Message("bar-history", TRUE, bars[posted'])
  <2>1. /\ posted' = posted + 1 /\ bars' = bars /\ server' = "bars" /\ server = "bars"
        /\ posted < Len(bars) /\ Post(m)
    BY <1>5 DEF PostBar
  <2>2. m \in Messages /\ m.message = "bar-history" /\ m.bar = bars[posted']
    <3>1. posted' \in 1 .. Len(bars) /\ bars \in Seq(Nat)
      BY <1>0, <2>1 DEF State, TypeOK
    <3>2. bars[posted'] \in Nat
      BY <3>1, ElementOfSeq
    <3>3. QED
      BY <3>2 DEF Message, Messages
  <2> HIDE DEF m
  <2>3. n + Len(ordinary) = posted + 1
    BY <1>1, <2>1 DEF Section
  <2>4. \A k \in Nat : \A e : Nth(e, k) => NthNext(e, k)
    BY <1>0, <2>1 DEF Nth, NthNext
  <2>5. NthNext(m, n + Len(ordinary) + 1)
    BY <1>0, <2>1, <2>2, <2>3 DEF NthNext
  <2>6. Section(n)' /\ ToldUpTo(n)'
    BY <1>0, <1>1, <2>1, <2>2, <2>3, <2>4, <2>5, PostTells
  <2>7. PassedOf(n, posted') = PassedOf(n, posted)
    BY <1>0, <2>1, <2>3 DEF PassedOf
  <2>8. QED
    BY <1>3, <2>6, <2>7
<1>6. CASE PostComplete
  <2> DEFINE m == Message("response-complete", TRUE, 0)
  <2>1. /\ posted' = posted /\ bars' = bars /\ server' = "done" /\ server = "bars"
        /\ posted = Len(bars) /\ Post(m)
    BY <1>6 DEF PostComplete, AllPosted
  <2>2. m \in Messages /\ m.message = "response-complete"
    BY DEF Message, Messages
  <2> HIDE DEF m
  <2>3. n + Len(ordinary) = posted + 1
    BY <1>1, <2>1 DEF Section
  <2>4. \A k \in Nat : \A e : Nth(e, k) => NthNext(e, k)
    BY <2>1 DEF Nth, NthNext
  <2>5. NthNext(m, n + Len(ordinary) + 1)
    BY <1>0, <2>1, <2>2, <2>3 DEF NthNext
  <2>6. Section(n)' /\ ToldUpTo(n)'
    BY <1>0, <1>1, <2>1, <2>2, <2>3, <2>4, <2>5, PostTells
  <2>7. QED
    BY <1>3, <2>1, <2>6
<1>7. CASE PostFailure \/ RacingTimeout
  <2>1. Telling'
    BY <1>0, <1>7, TellingKept DEF PostFailure, RacingTimeout, PostError
  <2>2. QED
    BY <1>7, <2>1, PassedKept DEF PostFailure, RacingTimeout, PostError
<1>8. QED
  BY <1>4, <1>5, <1>6, <1>7 DEF Respond, Race

(* A beginning of the section is lost.                                     *)
LEMMA LossTells ==
    ASSUME State, State', Telling, LoseTheRest
    PROVE  Telling' /\ Passed' \in Passed .. Len(bars)
<1>1. PICK n \in Nat : Section(n) /\ ToldUpTo(n)
  BY DEF Telling
<1>2. PICK k \in 0 .. Len(ordinary) : ordinary' = SubSeq(ordinary, k + 1, Len(ordinary))
  BY LossType DEF State
<1>3. /\ UNCHANGED <<server, bars, posted>> /\ lost' = TRUE
      /\ posted \in Nat /\ Len(bars) \in Nat /\ posted <= Len(bars) /\ Len(ordinary) \in Nat
  BY Lengths DEF LoseTheRest, api, State
<1>4. /\ Len(ordinary') = Len(ordinary) - k
      /\ \A i \in 1 .. Len(ordinary') : k + i \in 1 .. Len(ordinary) /\ ordinary'[i] = ordinary[k + i]
  BY <1>2, Dropped DEF State, TypeOK
<1>5. n + k \in Nat /\ n + k >= n
  BY <1>3
<1>6. \A i \in 1 .. Len(ordinary') : Nth(ordinary[i], (n + k) + i)'
  <2> SUFFICES ASSUME NEW i \in 1 .. Len(ordinary')
               PROVE  Nth(ordinary[i], (n + k) + i)'
    OBVIOUS
  <2>1. n + (k + i) = (n + k) + i
    BY <1>3, <1>4
  <2>2. Nth(ordinary[k + i], n + (k + i))
    BY <1>1, <1>4 DEF Section
  <2>3. QED
    BY <1>3, <1>4, <2>1, <2>2 DEF Nth
<1>7. server \in {"idle", "open"} => k = 0
  BY <1>3, EmptySeq DEF State, Fresh
<1>8. Section(n + k)' /\ ToldUpTo(n + k)'
  BY <1>1, <1>3, <1>4, <1>5, <1>6, <1>7 DEF Section, ToldUpTo
<1>9. Passed' = PassedOf(n + k, posted) /\ PassedOf(n + k, posted) \in 0 .. posted
  BY <1>3, <1>5, <1>8, PassedNext DEF State
<1>10. Passed = PassedOf(n, posted) /\ PassedOf(n, posted) \in 0 .. posted
  BY <1>1, PassedNow DEF State
<1>11. PassedOf(n + k, posted) >= PassedOf(n, posted)
  BY <1>3 DEF PassedOf
<1>12. QED
  BY <1>3, <1>5, <1>8, <1>9, <1>10, <1>11 DEF Telling

-----------------------------------------------------------------------------
(* What the message at the head of either queue may do.                    *)
Listens == requests["sent"] = "dispatch"
Ignored ==
    /\ UNCHANGED <<requests, timers, told, outcomes>>
    /\ Passed' = Passed \/ (~Listening /\ Passed' \in Passed .. Len(bars))
Failed ==
    /\ Listens /\ cancel /\ told' = told /\ outcomes' = Append(outcomes, "error")
    /\ Passed' = Passed
Told ==
    /\ Listens /\ Passed < Len(bars)
    /\ Passed' = Passed + 1
    /\ told' = Append(told, bars[Passed'])
    /\ UNCHANGED <<requests, timers, outcomes>>
Completed ==
    /\ Listens /\ cancel /\ (lost \/ told = bars)
    /\ Passed = Len(bars) /\ Passed' = Passed
    /\ told' = told /\ outcomes' = Append(outcomes, "completed")

LEMMA UrgentDoes ==
    ASSUME State, ReceiveUrgent
    PROVE  Ignored \/ Failed
<1> DEFINE m == Head(urgent)
<1>1. m \in Errors /\ Receive(m)
  BY HeadAndTail DEF ReceiveUrgent, State
<1> HIDE DEF m
<1>2. Passed' = Passed
  BY PassedKept DEF ReceiveUrgent, Receive, api
<1>3. CASE ~Listens
  BY <1>1, <1>2, <1>3 DEF Receive, Ignored, Listens, listener
<1>4. CASE Listens
  <2>1. OnError(m)
    BY <1>1, <1>4 DEF Receive, Listens, Errors, dispatch, OnResponse, OnBar, OnComplete
  <2>2. QED
    BY <1>2, <1>4, <2>1 DEF OnError, Failed
<1>5. QED
  BY <1>3, <1>4

LEMMA OrdinaryDoes ==
    ASSUME State, State', Telling, ReceiveOrdinary
    PROVE  /\ Ignored \/ Failed \/ Told \/ Completed
           /\ Telling'
<1> DEFINE m == Head(ordinary)
<1>1. PICK n \in Nat : Section(n) /\ ToldUpTo(n)
  BY DEF Telling
<1>2. /\ m = ordinary[1] /\ Receive(m) /\ ordinary # <<>> /\ ordinary' = Tail(ordinary)
      /\ Len(ordinary) \in Nat /\ Len(ordinary) > 0 /\ Len(ordinary') = Len(ordinary) - 1
      /\ \A i \in 1 .. Len(ordinary') : i + 1 \in 1 .. Len(ordinary) /\ ordinary'[i] = ordinary[i + 1]
  BY HeadAndTail DEF ReceiveOrdinary, State, TypeOK
<1>3. Nth(m, n + 1)
  BY <1>1, <1>2 DEF Section
<1> HIDE DEF m
<1>4. /\ UNCHANGED <<bars, posted, server, lost>>
      /\ told \in Seq(Nat) /\ bars \in Seq(Nat)
      /\ Len(told) \in Nat /\ Len(bars) \in Nat /\ posted \in Nat /\ posted <= Len(bars)
      /\ server \notin {"idle", "open"}
  BY <1>2, Lengths DEF Receive, api, State, TypeOK, Fresh
<1>5. Section(n + 1)'
  <2>1. \A i \in 1 .. Len(ordinary') : NthNext(ordinary'[i], n + 1 + i)
    <3> SUFFICES ASSUME NEW i \in 1 .. Len(ordinary')
                 PROVE  NthNext(ordinary'[i], n + 1 + i)
      OBVIOUS
    <3>1. Nth(ordinary[i + 1], n + (i + 1)) /\ n + (i + 1) = n + 1 + i
      BY <1>1, <1>2 DEF Section
    <3>2. QED
      BY <1>2, <1>4, <3>1 DEF Nth, NthNext
  <2>2. \A i \in 1 .. Len(ordinary') : Nth(ordinary[i], (n + 1) + i)'
    BY <2>1 DEF Nth, NthNext
  <2>3. server' = "bars" => (n + 1) + Len(ordinary') = posted' + 1
    BY <1>1, <1>2, <1>4 DEF Section
  <2>4. posted' > 0 => (n + 1) + Len(ordinary') >= posted' + 1
    BY <1>1, <1>2, <1>4 DEF Section
  <2>5. QED
    BY <1>4, <2>2, <2>3, <2>4 DEF Section
<1>6. /\ Passed = PassedOf(n, posted) /\ PassedOf(n, posted) \in 0 .. posted
      /\ Passed' = PassedOf(n + 1, posted) /\ PassedOf(n + 1, posted) \in 0 .. posted
  <2>1. n + 1 \in Nat
    OBVIOUS
  <2>2. QED
    BY <1>1, <1>4, <1>5, <2>1, PassedNow, PassedNext DEF State
<1>7. ASSUME ~lost => /\ requests'["sent"] = "dispatch" => Len(told') = n
                      /\ \A i \in 1 .. Len(told') : i \in 1 .. Len(bars) /\ told'[i] = bars[i]
      PROVE  Telling'
  <2>1. n + 1 \in Nat /\ n + 1 # 0 /\ (n + 1) - 1 = n
    OBVIOUS
  <2>2. ToldUpTo(n + 1)'
    BY <1>4, <1>7, <2>1 DEF ToldUpTo
  <2>3. QED
    BY <1>5, <2>1, <2>2 DEF Telling
<1>8. CASE ~Listens
  <2>1. ~Listening
    BY <1>4, <1>8 DEF Listening, Listens, State, Requested, TypeOK, Keys
  <2>2. Passed' \in Passed .. Len(bars)
    BY <1>4, <1>6 DEF PassedOf
  <2>3. Ignored
    BY <1>2, <1>8, <2>1, <2>2 DEF Receive, Listens, Ignored, listener
  <2>4. QED
    BY <1>1, <1>7, <1>8, <2>3 DEF Ignored, Listens, ToldUpTo
<1>9. CASE Listens
  <2>0. (~lost => Len(told) = IF n = 0 THEN 0 ELSE n - 1) /\ dispatch(m)
    BY <1>1, <1>2, <1>9 DEF Listens, ToldUpTo, Receive
  <2>1. CASE m.message = "bar-history-response"
    <3>1. n = 0
      BY <1>3, <1>4, <2>1 DEF Nth
    <3>2. Passed' = Passed
      BY <1>4, <1>6, <3>1 DEF PassedOf
    <3>3. Ignored \/ Failed
      <4>1. OnResponse(m)
        BY <2>0, <2>1 DEF dispatch, OnBar, OnComplete, OnError
      <4>2. QED
        BY <1>9, <3>2, <4>1 DEF OnResponse, Ignored, Failed, listener
    <3>4. told' = told
      BY <3>3 DEF Ignored, Failed
    <3>5. QED
      BY <1>1, <1>7, <2>0, <3>1, <3>3, <3>4 DEF ToldUpTo
  <2>2. CASE m.message = "bar-history"
    <3>1. n + 1 \in 2 .. posted + 1 /\ m.bar = bars[n]
      BY <1>3, <2>2 DEF Nth
    <3>2. n \in 1 .. Len(bars) /\ Passed = n - 1 /\ Passed' = n
      BY <1>4, <1>6, <3>1 DEF PassedOf
    <3>3. Told
      <4>1. OnBar(m)
        BY <2>0, <2>2 DEF dispatch, OnResponse, OnComplete, OnError
      <4>2. told' = Append(told, bars[Passed']) /\ UNCHANGED <<requests, timers, outcomes>>
        BY <3>1, <3>2, <4>1 DEF OnBar
      <4>3. Passed < Len(bars) /\ Passed' = Passed + 1
        BY <1>4, <3>2
      <4>4. QED
        BY <1>9, <4>2, <4>3 DEF Told
    <3>4. ASSUME ~lost
          PROVE  /\ Len(told') = n
                 /\ \A i \in 1 .. Len(told') : i \in 1 .. Len(bars) /\ told'[i] = bars[i]
      <4>0. Len(told) + 1 = n
        BY <2>0, <3>2, <3>4
      <4>1. bars[n] \in Nat
        BY <1>4, <3>2, ElementOfSeq
      <4>2. told' = Append(told, bars[n])
        BY <3>2, <3>3 DEF Told
      <4>3. /\ Len(told') = n /\ told'[n] = bars[n]
            /\ \A i \in 1 .. Len(told) : told'[i] = told[i]
        BY <1>4, <4>0, <4>1, <4>2, Appended
      <4>4. \A i \in 1 .. Len(told') : i \in 1 .. Len(told) \/ i = n
        BY ONLY <1>4, <4>0, <4>3
      <4>5. QED
        BY <1>1, <3>2, <3>4, <4>3, <4>4 DEF ToldUpTo
    <3>5. QED
      BY <1>7, <3>3, <3>4
  <2>3. CASE m.message = "response-complete"
    <3>1. n + 1 = posted + 2 /\ posted = Len(bars)
      BY <1>3, <1>4, <2>3 DEF Nth
    <3>2. Passed = Len(bars) /\ Passed' = Passed
      BY <1>4, <1>6, <3>1 DEF PassedOf
    <3>3. lost \/ told = bars
      <4>1. ASSUME ~lost
            PROVE  told = bars
        <5>1. Len(told) = Len(bars)
          BY <1>4, <2>0, <3>1, <4>1
        <5>2. QED
          BY <1>1, <1>4, <4>1, <5>1, SeqEqual DEF ToldUpTo
      <4>2. QED
        BY <4>1
    <3>4. Completed
      <4>1. OnComplete(m)
        BY <2>0, <2>3 DEF dispatch, OnResponse, OnBar, OnError
      <4>2. QED
        BY <1>9, <3>2, <3>3, <4>1 DEF OnComplete, Completed
    <3>5. requests'["sent"] # "dispatch"
      BY <3>4, CancelState DEF Completed, Keys
    <3>6. QED
      BY <1>1, <1>7, <3>4, <3>5 DEF Completed, ToldUpTo
  <2>4. QED
    BY <1>3, <2>1, <2>2, <2>3 DEF Nth
<1>10. QED
  BY <1>8, <1>9

-----------------------------------------------------------------------------
LEMMA TellingAlways ==
    ASSUME State, State', Telling, [Next]_vars
    PROVE  Telling'
<1>0. requests \in [Keys -> {"nothing", "noop", "dispatch"}]
  BY DEF State, TypeOK
<1>1. CASE Call
  <2>1. CASE requestBars
    BY <1>1, <2>1, AskTells DEF Call, State, Requested, channel, listener
  <2>2. CASE ~requestBars
    BY <1>1, <2>2, TellingKept DEF Call, channel, listener
  <2>3. QED
    BY <2>1, <2>2
<1>2. CASE LogIn
  <2>1. CASE waiting /\ requestBars
    BY <1>2, <2>1, AskTells DEF LogIn, State, Requested, channel, listener
  <2>2. CASE ~(waiting /\ requestBars)
    BY <1>2, <2>2, TellingKept DEF LogIn, channel, listener
  <2>3. QED
    BY <2>1, <2>2
<1>3. CASE LogOut \/ UNCHANGED vars
  BY <1>3, TellingKept DEF LogOut, vars, client, api, channel, listener
<1>4. CASE Cancel
  BY <1>4, CancelState, TellingKept DEF Cancel, Keys, api, channel, listener
<1>5. CASE Clear
  BY <1>0, <1>5, TellingKept DEF Clear, Keys, api, channel, listener
<1>6. CASE ReceiveUrgent
  <2>1. Ignored \/ Failed
    BY <1>6, UrgentDoes
  <2>2. /\ UNCHANGED <<ordinary, told, lost, bars, posted, server>>
        /\ requests'["sent"] = "dispatch" => requests["sent"] = "dispatch"
    BY <1>6, <2>1 DEF Ignored, Failed, Listens, ReceiveUrgent, Receive, api
  <2>3. QED
    BY <2>2, TellingKept
<1>7. CASE Escape
  BY <1>7, TellingKept DEF Escape, client, channel, listener
<1>8. QED
  BY <1>1, <1>2, <1>3, <1>4, <1>5, <1>6, <1>7, AnswerTells, OrdinaryDoes, LossTells DEF Next

-----------------------------------------------------------------------------
(* Every step is one of HistoryCall or changes nothing that it sees.       *)
LEMMA ListeningMeans ==
    /\ Listening <=> (waiting \/ \E k \in Keys : requests[k] = "dispatch")
    /\ Listening' <=> (waiting' \/ \E k \in Keys : requests'[k] = "dispatch")
    /\ Listening \in BOOLEAN /\ Listening' \in BOOLEAN
BY DEF Listening

LEMMA AskIsAbstract ==
    ASSUME State, Call \/ LogIn
    PROVE  [Abstract!Next]_Abstract!vars
<1>1. UNCHANGED <<bars, told, lost, outcomes, cancels>> /\ Passed' = Passed
  BY PassedKept DEF Call, LogIn, counters, channel, listener
<1>2. CASE requestBars /\ (Call \/ waiting)
  <2>1. request = "undefined" /\ UNCHANGED timers
    BY <1>2 DEF State, Requested, Call, LogIn
  <2>2. request' \in {"sent", "unsent"} /\ \A k \in Keys : requests'[k] = "dispatch" <=> k = request'
    BY <1>2, <2>1, AskState
  <2>3. Listening' = TRUE /\ request' # "undefined"
    BY <2>2, ListeningMeans DEF Keys
  <2>4. CASE Call
    <3>1. ~Listening
      BY <2>4, ListeningMeans DEF Call, State, Requested
    <3>2. Abstract!Call
      BY <1>1, <2>1, <2>3, <3>1 DEF Abstract!Call
    <3>3. QED
      BY <3>2 DEF Abstract!Next
  <2>5. CASE waiting /\ LogIn
    <3>1. Listening = TRUE
      BY <2>5, ListeningMeans DEF Listening
    <3>2. Abstract!Ask
      BY <1>1, <2>1, <2>3, <3>1 DEF Abstract!Ask
    <3>3. QED
      BY <3>2 DEF Abstract!Next
  <2>6. QED
    BY <1>2, <2>4, <2>5
<1>3. CASE Call /\ ~requestBars
  <2>1. ~Listening /\ request = "undefined"
    BY <1>3, ListeningMeans DEF Call, State, Requested
  <2>2. Listening' = TRUE /\ request' = request
    BY <1>3 DEF Call, Listening
  <2>3. Abstract!Call
    BY <1>1, <2>1, <2>2 DEF Abstract!Call
  <2>4. QED
    BY <2>3 DEF Abstract!Next
<1>4. CASE LogIn /\ ~(waiting /\ requestBars)
  <2>1. UNCHANGED <<waiting, request, requests>>
    BY <1>4 DEF LogIn, State, TypeOK
  <2>2. Listening' = Listening
    BY <2>1 DEF Listening
  <2>3. QED
    BY <1>1, <2>1, <2>2 DEF Abstract!vars
<1>5. QED
  BY <1>2, <1>3, <1>4

LEMMA CancelIsAbstract ==
    ASSUME State, Cancel
    PROVE  [Abstract!Next]_Abstract!vars
<1>1. /\ cancels' = cancels + 1 /\ UNCHANGED <<waiting, request, bars, told, lost, outcomes>>
      /\ cancel /\ Passed' = Passed
  BY PassedKept DEF Cancel, api, channel, listener
<1>2. \A k \in Keys : requests'[k] # "dispatch"
  BY <1>1, CancelState
<1>3. Listening' = (Listening /\ ~(request # "undefined"))
  <2>1. Listening' <=> waiting
    BY <1>1, <1>2, ListeningMeans
  <2>2. request = "undefined" => (Listening <=> waiting)
    BY ListeningMeans DEF State, Requested
  <2>3. request # "undefined" => ~waiting
    BY DEF State, Requested
  <2>4. Listening' <=> Listening /\ ~(request # "undefined")
    BY <2>1, <2>2, <2>3
  <2>5. QED
    BY <2>4, ListeningMeans, Zenon
<1>4. Abstract!Cancel
  BY <1>1, <1>3 DEF Abstract!Cancel
<1>5. QED
  BY <1>4 DEF Abstract!Next

LEMMA ReceiveIsAbstract ==
    ASSUME State, UNCHANGED <<waiting, request, bars, lost, cancels>>,
           Ignored \/ Failed \/ Told \/ Completed
    PROVE  [Abstract!Next]_Abstract!vars
<1>1. CASE Ignored
  <2>1. Listening' = Listening
    BY <1>1 DEF Ignored, Listening
  <2>2. CASE Passed' = Passed
    BY <1>1, <2>1, <2>2 DEF Ignored, Abstract!vars
  <2>3. CASE ~Listening /\ Passed' \in Passed .. Len(bars)
    <3>1. Abstract!Ignore
      BY <1>1, <2>1, <2>3 DEF Ignored, Abstract!Ignore
    <3>2. QED
      BY <3>1 DEF Abstract!Next
  <2>4. QED
    BY <1>1, <2>2, <2>3 DEF Ignored
<1>2. CASE Listens /\ ~Ignored
  <2>1. request = "sent" /\ ~waiting /\ Listening = TRUE
    BY <1>2 DEF Listens, State, Requested, Listening, Keys
  <2>2. CASE Failed
    <3>1. Listening' = FALSE
      BY <2>1, <2>2, CancelState, ListeningMeans DEF Failed
    <3>2. Abstract!Fail
      BY <2>1, <2>2, <3>1 DEF Failed, Abstract!Fail
    <3>3. QED
      BY <3>2 DEF Abstract!Next
  <2>3. CASE Told
    <3>1. Listening' = Listening
      BY <2>3 DEF Told, Listening
    <3>2. Abstract!Tell
      BY <2>1, <2>3, <3>1 DEF Told, Abstract!Tell
    <3>3. QED
      BY <3>2 DEF Abstract!Next
  <2>4. CASE Completed
    <3>1. Listening' = FALSE
      BY <2>1, <2>4, CancelState, ListeningMeans DEF Completed
    <3>2. Abstract!Complete
      BY <2>1, <2>4, <3>1 DEF Completed, Abstract!Complete
    <3>3. QED
      BY <3>2 DEF Abstract!Next
  <2>5. QED
    BY <1>2, <2>2, <2>3, <2>4
<1>3. QED
  BY <1>1, <1>2 DEF Failed, Told, Completed

LEMMA AnswerIsAbstract ==
    ASSUME State, State', Telling, Respond \/ Race
    PROVE  [Abstract!Next]_Abstract!vars
<1>1. UNCHANGED <<waiting, request, requests, told, lost, outcomes, cancels>> /\ Passed' = Passed
  BY AnswerTells DEF Respond, Race, client, listener, counters
<1>2. Listening' = Listening
  BY <1>1 DEF Listening
<1>3. CASE PostResponse
  <2>1. bars = <<>> /\ told = <<>> /\ request # "undefined"
    BY <1>3 DEF PostResponse, State, Requested, Fresh
  <2>2. CASE bars' = <<>>
    BY <1>1, <1>2, <2>1, <2>2 DEF Abstract!vars
  <2>3. CASE bars' # <<>>
    <3>1. Abstract!Answer
      BY <1>1, <1>2, <2>1, <2>3 DEF Abstract!Answer
    <3>2. QED
      BY <3>1 DEF Abstract!Next
  <2>4. QED
    BY <2>2, <2>3
<1>4. CASE ~PostResponse
  <2>1. bars' = bars
    BY <1>4 DEF Respond, Race, PostBar, PostComplete, PostFailure, RacingTimeout
  <2>2. QED
    BY <1>1, <1>2, <2>1 DEF Abstract!vars
<1>5. QED
  BY <1>3, <1>4

LEMMA LossIsAbstract ==
    ASSUME State, State', Telling, LoseTheRest \/ Escape
    PROVE  [Abstract!Next]_Abstract!vars
<1>1. UNCHANGED <<waiting, request, requests, bars, told, outcomes, cancels>> /\ lost' = TRUE
  BY DEF LoseTheRest, Escape, client, api, listener, counters
<1>2. Listening' = Listening
  BY <1>1 DEF Listening
<1>3. Passed' \in Passed .. Len(bars)
  <2>1. CASE LoseTheRest
    BY <2>1, LossTells
  <2>2. CASE Escape
    <3>1. Passed' = Passed
      BY <2>2, PassedKept DEF Escape, channel
    <3>2. PICK n \in Nat : Section(n)
      BY DEF Telling
    <3>3. Passed \in 0 .. posted
      BY <3>2, PassedNow DEF State
    <3>4. QED
      BY <3>1, <3>3, Lengths DEF State
  <2>3. QED
    BY <2>1, <2>2
<1>4. Abstract!Lose
  BY <1>1, <1>2, <1>3 DEF Abstract!Lose
<1>5. QED
  BY <1>4 DEF Abstract!Next

(* The listener of daily() may rely on HistoryCall: it is told the bars in *)
(* order and then one outcome, "completed" only after all of them unless   *)
(* some were lost on their way, and nothing after an outcome or after the  *)
(* cancellation of a request made.                                         *)
THEOREM KeepsItsPromise == Spec => ImplementsHistoryCall
<1>1. Init => State /\ Telling /\ Abstract!Init
  <2> SUFFICES ASSUME Init PROVE State /\ Telling /\ Abstract!Init
    OBVIOUS
  <2>1. TypeOK
    <3>1. /\ request \in Keys /\ requests \in [Keys -> {"nothing", "noop", "dispatch"}]
          /\ timers \in [Keys -> Nat]
      BY DEF Init, Keys
    <3>2. /\ bars \in Seq(Nat) /\ posted \in 0 .. Len(bars) /\ told \in Seq(Nat)
          /\ urgent \in Seq(Messages) /\ ordinary \in Seq(Messages)
          /\ outcomes \in Seq({"completed", "error"})
      BY EmptySeq DEF Init
    <3>3. cancels \in 0 .. MaxCancels /\ logouts \in 0 .. MaxLogouts
      BY NumberAssumption DEF Init
    <3>4. QED
      BY <3>1, <3>2, <3>3 DEF Init, TypeOK
  <2>2. Requested /\ Fresh /\ urgent \in Seq(Errors)
    BY EmptySeq DEF Init, Requested, Fresh, Keys
  <2>3. Section(0) /\ ToldUpTo(0)
    BY EmptySeq DEF Init, Section, ToldUpTo, Keys
  <2>4. Telling /\ Passed = 0
    <3>1. Passed \in 0 .. posted
      BY <2>1, <2>3, PassedNow
    <3>2. QED
      BY <2>3, <3>1 DEF Init, Telling
  <2>5. Listening = FALSE
    BY ListeningMeans DEF Init
  <2>6. Abstract!Init
    BY <2>4, <2>5 DEF Init, Abstract!Init
  <2>7. QED
    BY <2>1, <2>2, <2>4, <2>6 DEF State
<1>2. State /\ Telling /\ [Next]_vars => State' /\ Telling'
  BY StateKept, TellingAlways
<1>3. State /\ State' /\ Telling /\ [Next]_vars => [Abstract!Next]_Abstract!vars
  <2> SUFFICES ASSUME State, State', Telling, [Next]_vars
               PROVE  [Abstract!Next]_Abstract!vars
    OBVIOUS
  <2>1. CASE Call \/ LogIn
    BY <2>1, AskIsAbstract
  <2>2. CASE Cancel
    BY <2>2, CancelIsAbstract
  <2>3. CASE Clear
    <3>1. \A k \in Keys : requests'[k] = "dispatch" <=> requests[k] = "dispatch"
      BY <2>3 DEF Clear, State, TypeOK, Requested
    <3>2. UNCHANGED <<waiting, request, bars, told, lost, outcomes, cancels>> /\ Passed' = Passed
      BY <2>3, PassedKept DEF Clear, api, channel, listener, counters
    <3>3. Listening' <=> Listening
      BY <3>1, <3>2, ListeningMeans
    <3>4. Listening' = Listening
      BY <3>3, ListeningMeans, Zenon
    <3>5. QED
      BY <3>2, <3>4 DEF Abstract!vars
  <2>4. CASE LogOut \/ UNCHANGED vars
    <3>1. /\ UNCHANGED <<waiting, request, requests, bars, told, lost, outcomes, cancels>>
          /\ Passed' = Passed
      BY <2>4, PassedKept DEF LogOut, vars, client, api, channel, listener, counters
    <3>2. QED
      BY <3>1 DEF Abstract!vars, Listening
  <2>5. CASE ReceiveUrgent
    <3>1. UNCHANGED <<waiting, request, bars, lost, cancels>>
      BY <2>5 DEF ReceiveUrgent, Receive, api, counters
    <3>2. QED
      BY <2>5, <3>1, UrgentDoes, ReceiveIsAbstract
  <2>6. CASE ReceiveOrdinary
    <3>1. UNCHANGED <<waiting, request, bars, lost, cancels>>
      BY <2>6 DEF ReceiveOrdinary, Receive, api, counters
    <3>2. QED
      BY <2>6, <3>1, OrdinaryDoes, ReceiveIsAbstract
  <2>7. CASE Respond \/ Race
    BY <2>7, AnswerIsAbstract
  <2>8. CASE LoseTheRest \/ Escape
    BY <2>8, LossIsAbstract
  <2>9. QED
    BY <2>1, <2>2, <2>3, <2>4, <2>5, <2>6, <2>7, <2>8 DEF Next
<1>4. QED
  BY <1>1, <1>2, <1>3, PTL DEF Spec, ImplementsHistoryCall, Abstract!Spec
=============================================================================
