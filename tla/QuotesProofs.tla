---------------------------- MODULE QuotesProofs ----------------------------
(* What holds of Quotes for every number of intervals, every bound on the  *)
(* records of an answer and on logouts, with and without timeouts that     *)
(* race an answer, requests that fail to be sent and messages that are     *)
(* lost.                                                                   *)
EXTENDS Quotes, SequenceTheorems, FunctionTheorems, FiniteSetTheorems, TLAPS

(* The head of a sequence and what comes after it, element by element.     *)
LEMMA HeadAndTail ==
    ASSUME NEW S, NEW s \in Seq(S), s # <<>>
    PROVE  /\ Len(s) \in Nat /\ DOMAIN s = 1 .. Len(s)
           /\ 1 \in DOMAIN s /\ Head(s) = s[1] /\ Head(s) \in S
           /\ Tail(s) \in Seq(S) /\ DOMAIN Tail(s) = 1 .. Len(s) - 1
           /\ \A i \in DOMAIN Tail(s) : i + 1 \in DOMAIN s /\ i + 1 # 1 /\ Tail(s)[i] = s[i + 1]
<1>1. Len(s) \in Nat \ {0} /\ DOMAIN s = 1 .. Len(s)
  BY EmptySeq, LenProperties
<1>2. /\ Head(s) \in S /\ Tail(s) \in Seq(S) /\ Len(Tail(s)) = Len(s) - 1
      /\ \A i \in 1 .. Len(Tail(s)) : Tail(s)[i] = s[i + 1]
  BY HeadTailProperties
<1>3. DOMAIN Tail(s) = 1 .. Len(s) - 1
  BY <1>2, LenProperties
<1>4. Head(s) = s[1]
  BY <1>1
<1>5. QED
  BY <1>1, <1>2, <1>3, <1>4

(* What is left of a sequence without its first k elements.                *)
LEMMA Dropped ==
    ASSUME NEW S, NEW s \in Seq(S), NEW k \in 0 .. Len(s)
    PROVE  LET t == SubSeq(s, k + 1, Len(s))
           IN  /\ t \in Seq(S) /\ Len(s) \in Nat /\ Len(t) = Len(s) - k
               /\ \A i \in 1 .. Len(t) : k + i \in 1 .. Len(s) /\ t[i] = s[k + i]
<1> DEFINE n == Len(s)
           t == SubSeq(s, k + 1, n)
<1>1. n \in Nat /\ k \in Nat /\ k <= n
  BY LenProperties
<1>2. \A i \in k + 1 .. n : s[i] \in S
  BY <1>1, ElementOfSeq
<1> HIDE DEF n
<1>3. /\ t \in Seq(S)
      /\ Len(t) = IF k + 1 <= n THEN n - (k + 1) + 1 ELSE 0
      /\ \A i \in 1 .. n - (k + 1) + 1 : t[i] = s[k + 1 + i - 1]
  <2>1. k + 1 \in Int /\ n \in Int
    BY <1>1
  <2>2. QED
    BY <1>2, <2>1, SubSeqProperties
<1> HIDE DEF t
<1>4. Len(t) = n - k
  BY <1>1, <1>3
<1>5. \A i \in 1 .. Len(t) : k + i \in 1 .. n /\ t[i] = s[k + i]
  <2> SUFFICES ASSUME NEW i \in 1 .. Len(t)
               PROVE  k + i \in 1 .. n /\ t[i] = s[k + i]
    OBVIOUS
  <2>1. i \in 1 .. n - (k + 1) + 1 /\ k + 1 + i - 1 = k + i /\ k + i \in 1 .. n
    BY <1>1, <1>4
  <2>2. QED
    BY <1>3, <2>1
<1>6. QED
  BY <1>1, <1>3, <1>4, <1>5 DEF n, t

(* What AskFor does when there is nothing to ask for, and when there is    *)
(* one interval.                                                           *)
LEMMA AskForNothing ==
    ASSUME asked \in Seq(Dispatchers),
           NEW ds \in Seq(Dispatchers), Len(ds) = Len(asked), NEW hs,
           AskFor(<<>>, ds, hs)
    PROVE  asked' = ds /\ handled' = hs /\ request' = request /\ open' = open
<1>1. Len(asked) + 1 .. Len(asked) + Len(<<>>) = {}
  OBVIOUS
<1>2. handled' = hs \cup {} /\ request' = request
  BY <1>1 DEF AskFor
<1>3. open' = open
  BY <1>1 DEF AskFor
<1>4. [i \in DOMAIN <<>> |-> Dispatcher(<<>>[i])] = <<>>
  OBVIOUS
<1>5. asked' = ds \o <<>>
  BY <1>4, Zenon DEF AskFor
<1>6. QED
  BY <1>2, <1>3, <1>5, ConcatEmptySeq

LEMMA DispatcherType ==
    ASSUME NEW b \in 0 .. Intervals - 1
    PROVE  /\ Dispatcher(b) \in Dispatchers
           /\ Dispatcher(b).begin = b /\ Dispatcher(b).last = FALSE
BY NumberAssumption DEF Dispatcher, Dispatchers

LEMMA AskForOne ==
    ASSUME asked \in Seq(Dispatchers), NEW b \in 0 .. Intervals - 1,
           NEW ds \in Seq(Dispatchers), Len(ds) = Len(asked), NEW hs,
           AskFor(<<b>>, ds, hs)
    PROVE  /\ asked' = Append(ds, Dispatcher(b))
           /\ handled' = hs \cup {Len(asked) + 1}
           /\ request' = Len(asked) + 1
           /\ open' \subseteq open \cup {Len(asked) + 1}
<1>1. Len(asked) + 1 .. Len(asked) + Len(<<b>>) = {Len(asked) + 1}
  OBVIOUS
<1>2. handled' = hs \cup {Len(asked) + 1} /\ request' = Len(asked) + 1
  BY <1>1 DEF AskFor
<1>3. open' \subseteq open \cup {Len(asked) + 1}
  <2>1. PICK sent \in SUBSET {Len(asked) + 1} : open' = open \cup sent
    BY <1>1 DEF AskFor
  <2>2. QED
    BY <2>1
<1>4. Dispatcher(b) \in Dispatchers
  BY DispatcherType
<1>5. [i \in DOMAIN <<b>> |-> Dispatcher(<<b>>[i])] = <<Dispatcher(b)>>
  OBVIOUS
<1>6. asked' = ds \o <<Dispatcher(b)>>
  BY <1>5, Zenon DEF AskFor
<1>7. QED
  BY <1>2, <1>3, <1>4, <1>6, AppendIsConcat

-----------------------------------------------------------------------------
(* How a step disturbs what has been asked for: the next interval is asked *)
(* for, is put on the queue, or neither.                                   *)
Asks(ds, hs) ==
    /\ Len(asked) < Intervals
    /\ asked' = Append(ds, Dispatcher(Len(asked)))
    /\ handled' = hs \cup {Len(asked) + 1}
    /\ request' = Len(asked) + 1
    /\ open' \subseteq open \cup {Len(asked) + 1}
    /\ queue' = <<>>
Keeps(ds, hs) ==
    /\ asked' = ds
    /\ handled' = hs
    /\ request' = request /\ open' = open
Queues(ds, hs) ==
    /\ Len(asked) < Intervals
    /\ queue' = <<Len(asked)>>
    /\ Keeps(ds, hs)

LEMMA NextTicks ==
    ASSUME asked \in Seq(Dispatchers), queue = <<>>,
           NEW ds \in Seq(Dispatchers), Len(ds) = Len(asked), NEW hs,
           requestTicks(Len(asked), ds, hs)
    PROVE  \/ Asks(ds, hs)
           \/ Queues(ds, hs)
           \/ Keeps(ds, hs) /\ queue' = queue /\ Len(asked) >= Intervals
<1>1. CASE AfterTheDay(Len(asked))
  <2>1. AskFor(<<>>, ds, hs) /\ queue' = queue /\ Len(asked) >= Intervals
    BY <1>1 DEF requestTicks, AfterTheDay
  <2>2. QED
    BY <2>1, AskForNothing DEF Keeps
<1>2. CASE ~AfterTheDay(Len(asked)) /\ loggedIn
  <2>1. AskFor(<<Len(asked)>>, ds, hs) /\ queue' = queue /\ Len(asked) < Intervals
    BY <1>2, NumberAssumption DEF requestTicks, AfterTheDay
  <2>2. Len(asked) \in 0 .. Intervals - 1
    BY <2>1, NumberAssumption
  <2>3. QED
    BY <2>1, <2>2, AskForOne DEF Asks
<1>3. CASE ~AfterTheDay(Len(asked)) /\ ~loggedIn
  <2>1. AskFor(<<>>, ds, hs) /\ queue' = Append(queue, Len(asked)) /\ Len(asked) < Intervals
    BY <1>3, NumberAssumption DEF requestTicks, AfterTheDay
  <2>2. Append(queue, Len(asked)) = <<Len(asked)>>
    OBVIOUS
  <2>3. QED
    BY <2>1, <2>2, AskForNothing DEF Queues, Keeps
<1>4. QED
  BY <1>1, <1>2, <1>3

-----------------------------------------------------------------------------
(* Why the intervals come in order: only the latest request can make the   *)
(* client go on.  Either it is still open, or one message that continues   *)
(* is on its way, or the next interval waits for the login, or none.  And  *)
(* cancel() forgets the latest request, so that nothing goes on then.      *)
Chain ==
    /\ \A r \in Requests : asked[r].begin = r - 1 /\ (asked[r].last => r = Intervals)
    /\ queue = <<>> \/ (queue = <<Len(asked)>> /\ Len(asked) < Intervals)
    /\ request = Len(asked)
    /\ \A r \in open : r = Len(asked) /\ queue = <<>>
    /\ ~called => asked = <<>> /\ queue = <<>> /\ cancelled = "no"
    /\ cancelled = "idle queue" => queue = <<>> /\ Len(asked) \notin handled

Single ==
    /\ \A i \in DOMAIN urgent : Continues(urgent[i]) =>
          urgent[i].request = Len(asked) /\ queue = <<>> /\ open = {}
    /\ \A i, j \in DOMAIN urgent : Continues(urgent[i]) /\ Continues(urgent[j]) => i = j

Order == TypeOK /\ Chain /\ Single

(* Dispatchers that stand for the same intervals as those there are.       *)
Shape(ds) ==
    /\ ds \in Seq(Dispatchers) /\ Len(ds) = Len(asked)
    /\ \A r \in Requests : /\ ds[r].begin = asked[r].begin
                           /\ ds[r].last => r = Intervals
                           /\ ds[r].posted <= ds[r].total

LEMMA SameShape == ASSUME TypeOK, Chain PROVE Shape(asked)
BY DEF TypeOK, Chain, Shape, Requests

LEMMA ChainKept ==
    ASSUME TypeOK, Chain, NEW ds, Shape(ds),
           asked' = ds, queue' = queue, request' = request,
           open' \subseteq open, handled' \subseteq handled,
           called' = called, cancelled' = cancelled
    PROVE  Chain'
<1>1. Len(asked') = Len(asked) /\ Requests' = Requests
  BY DEF Shape, Requests
<1>2. \A r \in Requests' : asked'[r].begin = r - 1 /\ (asked'[r].last => r = Intervals)
  BY <1>1 DEF Shape, Chain
<1>3. ~called' => asked' = <<>>
  <2>1. ~called => asked = <<>> /\ Len(asked) = 0
    BY DEF Chain
  <2>2. Len(ds) = 0 => ds = <<>>
    BY EmptySeq DEF Shape
  <2>3. QED
    BY <2>1, <2>2 DEF Shape
<1>4. QED
  BY <1>1, <1>2, <1>3 DEF Chain

LEMMA ChainGrows ==
    ASSUME TypeOK, Chain, NEW ds, Shape(ds), NEW hs, Asks(ds, hs) \/ Queues(ds, hs),
           open = {}, called' = TRUE, cancelled' # "idle queue"
    PROVE  Chain'
<1>1. CASE Asks(ds, hs)
  <2>0. Len(asked) \in Nat /\ Len(asked) < Intervals
    BY <1>1, LenProperties DEF Asks, TypeOK
  <2>1. /\ Dispatcher(Len(asked)) \in Dispatchers
        /\ Dispatcher(Len(asked)).begin = Len(asked) /\ Dispatcher(Len(asked)).last = FALSE
    <3>1. Len(asked) \in 0 .. Intervals - 1
      BY ONLY <2>0, NumberAssumption
    <3>2. QED
      BY <3>1, DispatcherType
  <2>2. /\ asked' \in Seq(Dispatchers) /\ Len(asked') = Len(asked) + 1
        /\ \A r \in 1 .. Len(asked) : asked'[r] = ds[r]
        /\ asked'[Len(asked) + 1] = Dispatcher(Len(asked))
    <3>1. /\ asked' = Append(ds, Dispatcher(Len(asked)))
          /\ ds \in Seq(Dispatchers) /\ Len(ds) = Len(asked)
      BY <1>1 DEF Asks, Shape
    <3>2. QED
      BY ONLY <2>1, <3>1, AppendProperties
  <2>3. \A r \in Requests' : asked'[r].begin = r - 1 /\ (asked'[r].last => r = Intervals)
    <3> SUFFICES ASSUME NEW r \in 1 .. Len(asked) + 1
                 PROVE  asked'[r].begin = r - 1 /\ (asked'[r].last => r = Intervals)
      BY <2>2 DEF Requests
    <3>1. CASE r \in 1 .. Len(asked)
      <4>1. /\ asked[r].begin = r - 1 /\ ds[r].begin = asked[r].begin
            /\ ds[r].last => r = Intervals
        BY <3>1 DEF Shape, Chain, Requests
      <4>2. QED
        BY ONLY <3>1, <4>1, <2>2
    <3>2. CASE r = Len(asked) + 1
      <4>1. asked'[r] = Dispatcher(Len(asked)) /\ r - 1 = Len(asked)
        BY ONLY <3>2, <2>0, <2>2
      <4>2. QED
        BY ONLY <4>1, <2>1
    <3>3. QED
      BY ONLY <3>1, <3>2, <2>0
  <2>4. QED
    BY <1>1, <2>0, <2>2, <2>3 DEF Asks, Chain
<1>2. CASE Queues(ds, hs)
  <2>1. Len(asked') = Len(asked) /\ Requests' = Requests
    BY <1>2 DEF Queues, Keeps, Shape, Requests
  <2>2. QED
    BY <1>2, <2>1 DEF Queues, Keeps, Shape, Chain
<1>3. QED
  BY <1>1, <1>2

LEMMA SingleKept ==
    ASSUME TypeOK, Single, Len(asked') = Len(asked), queue' = queue, open' \subseteq open,
           urgent' = urgent \/ (urgent # <<>> /\ urgent' = Tail(urgent))
    PROVE  Single'
<1>1. CASE urgent' = urgent
  BY <1>1 DEF Single, Continues
<1>2. CASE urgent # <<>> /\ urgent' = Tail(urgent)
  <2>1. /\ DOMAIN urgent = 1 .. Len(urgent)
        /\ DOMAIN urgent' = 1 .. Len(urgent) - 1 /\ Len(urgent) \in Nat
        /\ \A i \in DOMAIN urgent' : i + 1 \in DOMAIN urgent /\ urgent'[i] = urgent[i + 1]
    BY <1>2, HeadAndTail DEF TypeOK
  <2>2. QED
    BY <2>1 DEF Single, Continues
<1>3. QED
  BY <1>1, <1>2

LEMMA HeadIsSingle ==
    ASSUME TypeOK, Single, urgent # <<>>, Continues(Head(urgent)), urgent' = Tail(urgent)
    PROVE  /\ Head(urgent).request = Len(asked) /\ queue = <<>> /\ open = {}
           /\ \A i \in DOMAIN urgent' : ~Continues(urgent'[i])
<1>1. /\ DOMAIN urgent = 1 .. Len(urgent) /\ 1 \in DOMAIN urgent /\ Head(urgent) = urgent[1]
      /\ DOMAIN urgent' = 1 .. Len(urgent) - 1 /\ Len(urgent) \in Nat
      /\ \A i \in DOMAIN urgent' : i + 1 \in DOMAIN urgent /\ urgent'[i] = urgent[i + 1]
                                   /\ i + 1 # 1
  BY HeadAndTail DEF TypeOK
<1>2. QED
  BY <1>1 DEF Single, Continues

(* TypeOK by parts: what is asked for, and the rest, whose types depend on *)
(* the number of requests only.                                            *)
AskedOK ==
    /\ queue \in Seq(0 .. Intervals - 1)
    /\ asked \in Seq(Dispatchers) /\ Len(asked) <= Intervals
    /\ \A r \in Requests : asked[r].posted <= asked[r].total
    /\ handled \subseteq Requests /\ open \subseteq Requests
    /\ request \in 0 .. Len(asked)

Undisturbed(ds) ==
    /\ Shape(ds) /\ asked' = ds
    /\ queue' = queue /\ request' = request
    /\ open' \subseteq open /\ handled' \subseteq handled

LEMMA AskedKept ==
    ASSUME TypeOK, NEW ds, Undisturbed(ds)
    PROVE  AskedOK' /\ Len(asked') = Len(asked)
<1>1. Len(asked') = Len(asked) /\ Requests' = Requests
  BY DEF Undisturbed, Shape, Requests
<1>2. QED
  BY <1>1 DEF Undisturbed, Shape, AskedOK, TypeOK

LEMMA AskedGrows ==
    ASSUME TypeOK, NEW ds, Shape(ds), NEW hs, hs \subseteq handled, Asks(ds, hs) \/ Queues(ds, hs)
    PROVE  AskedOK' /\ Len(asked') \in Len(asked) .. Len(asked) + 1
<1>0. Len(asked) \in Nat
  BY LenProperties DEF TypeOK
<1>1. CASE Asks(ds, hs)
  <2>1. Len(asked) \in 0 .. Intervals - 1
    BY <1>0, <1>1, NumberAssumption DEF Asks
  <2>2. /\ Dispatcher(Len(asked)) \in Dispatchers
        /\ Dispatcher(Len(asked)).posted = 0 /\ Dispatcher(Len(asked)).total = 0
    BY <2>1, DispatcherType DEF Dispatcher
  <2>3. /\ asked' = Append(ds, Dispatcher(Len(asked)))
        /\ ds \in Seq(Dispatchers) /\ Len(ds) = Len(asked)
    BY <1>1 DEF Asks, Shape
  <2>4. /\ asked' \in Seq(Dispatchers) /\ Len(asked') = Len(asked) + 1
        /\ \A r \in 1 .. Len(asked) : asked'[r] = ds[r]
        /\ asked'[Len(asked) + 1] = Dispatcher(Len(asked))
    BY ONLY <2>2, <2>3, AppendProperties
  <2>5. \A r \in 1 .. Len(asked) : ds[r].posted <= ds[r].total
    BY DEF Shape, Requests
  <2>6. \A r \in Requests' : asked'[r].posted <= asked'[r].total
    BY ONLY <1>0, <2>2, <2>4, <2>5 DEF Requests
  <2>7. Requests' = 1 .. Len(asked) + 1
    BY ONLY <2>4 DEF Requests
  <2>8. handled' \subseteq Requests' /\ open' \subseteq Requests'
    <3>1. hs \subseteq 1 .. Len(asked) /\ open \subseteq 1 .. Len(asked)
      BY DEF TypeOK, Requests
    <3>2. handled' = hs \cup {Len(asked) + 1} /\ open' \subseteq open \cup {Len(asked) + 1}
      BY <1>1 DEF Asks
    <3>3. Requests' = 1 .. Len(asked) \cup {Len(asked) + 1}
      BY ONLY <1>0, <2>7
    <3>4. QED
      BY ONLY <3>1, <3>2, <3>3
  <2>9. request' = Len(asked) + 1 /\ queue' = <<>>
    BY <1>1 DEF Asks
  <2>10. queue' \in Seq(0 .. Intervals - 1) /\ Len(asked') <= Intervals
    BY ONLY <1>0, <2>1, <2>4, <2>9, NumberAssumption, EmptySeq
  <2>11. request' \in 0 .. Len(asked')
    BY ONLY <1>0, <2>4, <2>9
  <2>12. QED
    BY ONLY <1>0, <2>4, <2>6, <2>8, <2>10, <2>11 DEF AskedOK
<1>2. CASE Queues(ds, hs)
  <2>1. Len(asked') = Len(asked) /\ Requests' = Requests
    BY <1>2 DEF Queues, Keeps, Shape, Requests
  <2>2. Len(asked) \in 0 .. Intervals - 1
    BY <1>0, <1>2, NumberAssumption DEF Queues
  <2>3. queue' \in Seq(0 .. Intervals - 1)
    BY <1>2, <2>2 DEF Queues
  <2>4. /\ asked' \in Seq(Dispatchers) /\ Len(asked') <= Intervals
        /\ \A r \in Requests' : asked'[r].posted <= asked'[r].total
    BY <1>2, <2>1 DEF Queues, Keeps, Shape, TypeOK
  <2>5. /\ handled' \subseteq Requests' /\ open' \subseteq Requests'
        /\ request' \in 0 .. Len(asked')
    BY <1>2, <2>1 DEF Queues, Keeps, TypeOK
  <2>6. Len(asked') \in Len(asked) .. Len(asked) + 1
    BY ONLY <1>0, <2>1
  <2>7. QED
    BY <2>3, <2>4, <2>5, <2>6 DEF AskedOK
<1>3. QED
  BY <1>1, <1>2

LEMMA Wider ==
    ASSUME TypeOK, Len(asked') \in Nat, Len(asked') >= Len(asked)
    PROVE  /\ Requests \subseteq Requests' /\ timedOut \subseteq Requests'
           /\ Verdicts \subseteq Verdicts' /\ Records \subseteq Records' /\ Events \subseteq Events'
           /\ urgent \in Seq(Verdicts') /\ ordinary \in Seq(Records') /\ events \in Seq(Events')
<1>1. Requests \subseteq Requests'
  <2>1. Len(asked) \in Nat
    BY LenProperties DEF TypeOK
  <2>2. QED
    BY <2>1 DEF Requests
<1>2. Messages \subseteq Messages'
  BY <1>1 DEF Messages
<1>3. Verdicts \subseteq Verdicts' /\ Records \subseteq Records'
  BY <1>2 DEF Verdicts, Records
<1>4. Events \subseteq Events'
  BY <1>1 DEF Events
<1>5. QED
  BY <1>1, <1>3, <1>4, SeqMonotonic DEF TypeOK

-----------------------------------------------------------------------------
(* What a dispatcher does with a message that is not fatal: the listener is*)
(* told a record, or "completed", or both; and the client may go on to the *)
(* next interval, but not when it has completed.                           *)
TellsRecord(m) ==
    IF m.type = "record"
    THEN <<[type |-> "record", request |-> m.request, number |-> m.number]>>
    ELSE <<>>
TellsCompleted(completes) == IF completes THEN <<[type |-> "completed"]>> ELSE <<>>
Tells(m, completes) == events' = events \o TellsRecord(m) \o TellsCompleted(completes)
Handlers(m, completes) == IF completes THEN handled \ {m.request} ELSE handled

Reachable(m) ==
    /\ m \in Verdicts \cup Records
    /\ Continues(m) => m.request = Len(asked) /\ queue = <<>> /\ open = {}

Dispatched(m, ds, completes) ==
    /\ Shape(ds)
    /\ \A r \in Requests : ds[r].total = asked[r].total /\ ds[r].posted = asked[r].posted
    /\ \A r \in Requests : ds[r].ended => asked[r].ended \/ (r = m.request /\ m.end)
    /\ completes => ds[m.request].last = TRUE /\ ds[m.request].ended
    /\ m.type # "error" /\ Tells(m, completes)
    /\ ~Continues(m) => \A r \in Requests : ds[r].last = asked[r].last
    /\ \/ Keeps(ds, Handlers(m, completes)) /\ queue' = queue
       \/ ~completes /\ Continues(m) /\ (Asks(ds, handled) \/ Queues(ds, handled))

LEMMA DispatchDoes ==
    ASSUME Order, NEW m, Reachable(m), m.request \in handled, Dispatch(m)
    PROVE  \E ds, completes : completes \in BOOLEAN /\ Dispatched(m, ds, completes)
<1> DEFINE d == asked[m.request]
           next == d.begin + 1
           ended == EndsOnce(d, m)
           last == IF Continues(m) THEN AfterTheDay(next) ELSE d.last
           ds == [asked EXCEPT ![m.request].ended = ended, ![m.request].last = last]
           completes == ended /\ last
           hs == IF ended /\ last THEN handled \ {m.request} ELSE handled
           es == events \o (IF m.type = "record"
                            THEN <<[type |-> "record", request |-> m.request, number |-> m.number]>>
                            ELSE <<>>)
                 \o (IF ended /\ last THEN <<[type |-> "completed"]>> ELSE <<>>)
<1>1. /\ events' = es /\ m.type # "error"
      /\ IF Continues(m) THEN requestTicks(next, ds, hs)
         ELSE AskFor(<<>>, ds, hs) /\ UNCHANGED queue
  BY Zenon DEF Dispatch
<1>2. /\ asked \in Seq(Dispatchers) /\ m.request \in Requests /\ d \in Dispatchers
      /\ Len(asked) \in Nat /\ m.request = d.begin + 1 /\ m.end \in BOOLEAN
      /\ d.posted <= d.total /\ Len(asked) <= Intervals
  <2>1. asked \in Seq(Dispatchers) /\ m.request \in Requests
    BY DEF Order, TypeOK
  <2>2. d \in Dispatchers /\ Len(asked) \in Nat
    BY <2>1, ElementOfSeq, LenProperties DEF Requests
  <2>3. d.begin = m.request - 1 /\ d.posted <= d.total /\ Len(asked) <= Intervals
    BY <2>1 DEF Order, Chain, TypeOK
  <2>4. m.end \in BOOLEAN
    BY DEF Reachable, Verdicts, Records, Messages
  <2>5. d.begin \in Int /\ m.request \in Int
    BY <2>1, <2>2 DEF Dispatchers, Requests
  <2>6. QED
    BY ONLY <2>1, <2>2, <2>3, <2>4, <2>5
<1>3. ended \in BOOLEAN /\ last \in BOOLEAN
  <2>1. ended \in BOOLEAN
    BY <1>2 DEF EndsOnce, Dispatchers
  <2>2. AfterTheDay(next) \in BOOLEAN /\ d.last \in BOOLEAN
    BY <1>2 DEF AfterTheDay, Dispatchers
  <2>3. QED
    BY <2>1, <2>2, Zenon
<1>4. Continues(m) => next = Len(asked)
  BY <1>2 DEF Reachable
<1>5. last = TRUE => m.request = Intervals
  <2>1. d.last => m.request = Intervals
    BY <1>2 DEF Order, Chain
  <2>2. CASE Continues(m)
    BY <2>2, <1>2, <1>4, NumberAssumption DEF AfterTheDay
  <2>3. QED
    BY <2>1, <2>2
<1> HIDE DEF ended, last
<1>6. /\ ds \in Seq(Dispatchers) /\ Len(ds) = Len(asked)
      /\ \A r \in 1 .. Len(asked) : r # m.request => ds[r] = asked[r]
      /\ ds[m.request] = [d EXCEPT !.ended = ended, !.last = last]
  <2>1. ds = [asked EXCEPT ![m.request] = [d EXCEPT !.ended = ended, !.last = last]]
    OBVIOUS
  <2>2. [d EXCEPT !.ended = ended, !.last = last] \in Dispatchers
    BY <1>2, <1>3 DEF Dispatchers
  <2>3. QED
    <3> DEFINE e == [d EXCEPT !.ended = ended, !.last = last]
    <3> HIDE DEF e
    <3>1. ds = [asked EXCEPT ![m.request] = e] /\ e \in Dispatchers
      BY <2>1, <2>2 DEF e
    <3>2. asked \in Seq(Dispatchers) /\ m.request \in 1 .. Len(asked)
      BY <1>2 DEF Requests
    <3>3. /\ ds \in Seq(Dispatchers) /\ Len(ds) = Len(asked)
          /\ \A r \in 1 .. Len(asked) : ds[r] = IF r = m.request THEN e ELSE asked[r]
      <4> HIDE DEF ds
      <4>1. QED
        BY ONLY <3>1, <3>2, ExceptSeq
    <3>4. QED
      BY <3>2, <3>3 DEF e
<1>7. /\ ds[m.request].begin = d.begin /\ ds[m.request].last = last
      /\ ds[m.request].total = d.total /\ ds[m.request].posted = d.posted
      /\ ds[m.request].ended = ended
  BY <1>2, <1>6 DEF Dispatchers
<1> HIDE DEF ds
<1>8. Shape(ds)
  BY <1>2, <1>5, <1>6, <1>7 DEF Shape, Order, Chain, TypeOK, Requests
<1>9. \A r \in Requests : ds[r].total = asked[r].total /\ ds[r].posted = asked[r].posted
  BY <1>2, <1>6, <1>7 DEF Requests
<1>10. /\ completes \in BOOLEAN
       /\ completes => ds[m.request].last = TRUE /\ ds[m.request].ended
       /\ \A r \in Requests : ds[r].ended => asked[r].ended \/ (r = m.request /\ m.end)
  <2>1. completes \in BOOLEAN /\ (completes => ds[m.request].last = TRUE /\ ds[m.request].ended)
    BY <1>3, <1>7
  <2>2. ended => d.ended \/ m.end
    BY DEF ended, EndsOnce
  <2>3. QED
    BY <1>2, <1>6, <1>7, <2>1, <2>2 DEF Requests
<1>11. Tells(m, completes) /\ hs = Handlers(m, completes)
  BY <1>1 DEF Tells, TellsRecord, TellsCompleted, Handlers
<1>12. CASE ~Continues(m)
  <2>1. Keeps(ds, hs) /\ queue' = queue
    BY <1>1, <1>2, <1>6, <1>12, AskForNothing DEF Keeps
  <2>2. last = d.last
    BY <1>12 DEF last
  <2>3. \A r \in Requests : ds[r].last = asked[r].last
    BY <1>2, <1>6, <1>7, <2>2 DEF Requests
  <2>4. QED
    BY <1>1, <1>8, <1>9, <1>10, <1>11, <2>1, <2>3 DEF Dispatched
<1>13. CASE Continues(m)
  <2>1. requestTicks(Len(asked), ds, hs) /\ queue = <<>>
    BY <1>1, <1>4, <1>13 DEF Reachable
  <2>2. \/ Asks(ds, hs)
        \/ Queues(ds, hs)
        \/ Keeps(ds, hs) /\ queue' = queue /\ Len(asked) >= Intervals
    BY <1>2, <1>6, <2>1, NextTicks
  <2>3. Len(asked) < Intervals => ~completes
    BY <1>2, <1>4, <1>13, NumberAssumption DEF AfterTheDay, last
  <2>4. Asks(ds, hs) \/ Queues(ds, hs) => ~completes /\ hs = handled
    BY <2>3 DEF Asks, Queues
  <2>5. QED
    BY <1>1, <1>8, <1>9, <1>10, <1>11, <1>13, <2>2, <2>4 DEF Dispatched
<1>14. QED
  BY <1>12, <1>13

(* So a message that is received keeps the order, and goes on to the next  *)
(* interval only if it is the one that continues.                          *)
LEMMA ReceiveKeeps ==
    ASSUME Order, NEW m, Reachable(m), Receive(m), called' = called, cancelled' = cancelled
    PROVE  /\ AskedOK' /\ Chain'
           /\ Len(asked') \in Nat /\ Len(asked') >= Len(asked)
           /\ events' \in Seq(Events')
           /\ \/ Len(asked') = Len(asked) /\ queue' = queue /\ open' = open
              \/ Continues(m)
<1> USE DEF Order
<1>0. Shape(asked) /\ Len(asked) \in Nat
  BY SameShape, LenProperties DEF TypeOK
<1>1. CASE m.request \notin handled /\ UNCHANGED <<queue, asked, handled, request, open, events>>
  <2>1. Undisturbed(asked)
    BY <1>0, <1>1 DEF Undisturbed
  <2>2. AskedOK' /\ Chain' /\ Len(asked') = Len(asked)
    BY <1>1, <2>1, AskedKept, ChainKept DEF Undisturbed
  <2>3. QED
    BY <1>0, <1>1, <2>2, Wider
<1>2. CASE m.request \in handled /\ DispatchFatal(m)
  <2>1. Undisturbed(asked)
    BY <1>0, <1>2 DEF Undisturbed, DispatchFatal
  <2>2. AskedOK' /\ Chain' /\ Len(asked') = Len(asked)
    BY <2>1, AskedKept, ChainKept DEF Undisturbed
  <2>3. [type |-> "error"] \in Events'
    BY DEF Events
  <2>4. events \in Seq(Events')
    BY <1>0, <2>2, Wider
  <2>5. events' \in Seq(Events')
    BY <1>2, <2>3, <2>4, AppendProperties DEF DispatchFatal
  <2>6. QED
    BY <1>0, <1>2, <2>2, <2>5 DEF DispatchFatal
<1>3. CASE m.request \in handled /\ Dispatch(m)
  <2>1. PICK ds, completes : completes \in BOOLEAN /\ Dispatched(m, ds, completes)
    BY <1>3, DispatchDoes
  <2>2. m.request \in Requests /\ m.request \in 1 .. Len(asked) /\ called
    <3>1. m.request \in Requests /\ m.request \in 1 .. Len(asked)
      BY <1>3 DEF TypeOK, Requests
    <3>2. asked # <<>>
      BY <3>1
    <3>3. QED
      BY <3>1, <3>2 DEF Chain
  <2>3. /\ AskedOK' /\ Chain' /\ Len(asked') \in Len(asked) .. Len(asked) + 1
        /\ ((Len(asked') = Len(asked) /\ queue' = queue /\ open' = open) \/ Continues(m))
    <3>1. CASE Keeps(ds, Handlers(m, completes)) /\ queue' = queue
      <4>1. Undisturbed(ds)
        BY <2>1, <3>1 DEF Dispatched, Undisturbed, Keeps, Handlers
      <4>2. AskedOK' /\ Chain' /\ Len(asked') = Len(asked)
        BY <4>1, AskedKept, ChainKept DEF Undisturbed
      <4>3. QED
        BY <1>0, <3>1, <4>2 DEF Keeps
    <3>2. CASE Continues(m) /\ (Asks(ds, handled) \/ Queues(ds, handled))
      <4>1. Shape(ds)
        BY <2>1 DEF Dispatched
      <4>2. open = {} /\ m.request = Len(asked) /\ cancelled # "idle queue"
        BY <1>3, <3>2 DEF Reachable, Chain
      <4>3. Chain'
        BY <2>2, <3>2, <4>1, <4>2, ChainGrows DEF TypeOK
      <4>4. AskedOK' /\ Len(asked') \in Len(asked) .. Len(asked) + 1
        BY <3>2, <4>1, AskedGrows
      <4>5. QED
        BY <3>2, <4>3, <4>4
    <3>3. QED
      BY <2>1, <3>1, <3>2 DEF Dispatched
  <2>4. Len(asked') \in Nat /\ Len(asked') >= Len(asked)
    BY ONLY <1>0, <2>3
  <2>5. events \in Seq(Events') /\ Requests \subseteq Requests'
    BY <2>4, Wider
  <2>6. TellsRecord(m) \in Seq(Events')
    <3>1. CASE m.type = "record"
      <4>1. m.request \in Requests' /\ m.number \in 1 .. MaxRecords
        BY <2>2, <2>5, <3>1, NumberAssumption DEF Reachable, Verdicts, Records, Messages
      <4>2. [type |-> "record", request |-> m.request, number |-> m.number] \in Events'
        BY <4>1 DEF Events
      <4>3. QED
        BY <3>1, <4>2 DEF TellsRecord
    <3>2. QED
      BY <3>1, EmptySeq DEF TellsRecord
  <2>7. TellsCompleted(completes) \in Seq(Events')
    <3>1. [type |-> "completed"] \in Events'
      BY DEF Events
    <3>2. QED
      BY <2>1, <3>1, EmptySeq DEF TellsCompleted
  <2>8. events' \in Seq(Events')
    BY <2>1, <2>5, <2>6, <2>7, ConcatProperties DEF Dispatched, Tells
  <2>9. QED
    BY <2>3, <2>4, <2>8
<1>4. QED
  BY <1>1, <1>2, <1>3 DEF Receive

-----------------------------------------------------------------------------
(* Order is inductive: one lemma for the steps of the client, one for those*)
(* of the API.                                                             *)
LEMMA InitOrder == Init => Order
<1> SUFFICES ASSUME Init
             PROVE  Order
  OBVIOUS
<1>1. Len(asked) = 0 /\ Requests = {}
  BY DEF Init, Requests
<1>2. TypeOK
  <2>1. /\ <<>> \in Seq(Dispatchers) /\ <<>> \in Seq(0 .. Intervals - 1)
        /\ <<>> \in Seq(Verdicts) /\ <<>> \in Seq(Records) /\ <<>> \in Seq(Events)
    BY EmptySeq
  <2>2. /\ Len(asked) <= Intervals /\ request \in 0 .. Len(asked)
        /\ logouts \in 0 .. MaxLogouts
    BY <1>1, NumberAssumption DEF Init
  <2>3. QED
    BY <1>1, <2>1, <2>2 DEF Init, TypeOK
<1>3. Chain
  BY <1>1, <1>2 DEF Init, Chain
<1>4. Single
  BY DEF Init, Single
<1>5. QED
  BY <1>2, <1>3, <1>4 DEF Order

LEMMA CallKeepsOrder == ASSUME Order, Call PROVE Order'
<1> USE DEF Order
<1>1. /\ asked = <<>> /\ queue = <<>> /\ cancelled = "no" /\ Len(asked) = 0
      /\ Requests = {} /\ open = {} /\ called' = TRUE /\ requestTicks(Len(asked), asked, handled)
      /\ UNCHANGED <<loggedIn, timedOut, urgent, ordinary, events, lost, cancelled, logouts>>
  BY DEF Call, Chain, TypeOK, Requests, channel
<1>2. Shape(asked) /\ asked \in Seq(Dispatchers)
  BY SameShape DEF TypeOK
<1>3. Asks(asked, handled) \/ Queues(asked, handled)
  <2>1. ~(Len(asked) >= Intervals)
    BY ONLY <1>1, NumberAssumption
  <2>2. QED
    BY <1>1, <1>2, <2>1, NextTicks
<1>4. Chain'
  BY <1>1, <1>2, <1>3, ChainGrows
<1>5. AskedOK' /\ Len(asked') \in 0 .. 1
  <2>1. AskedOK' /\ Len(asked') \in Len(asked) .. Len(asked) + 1
    BY <1>2, <1>3, AskedGrows
  <2>2. QED
    BY ONLY <1>1, <2>1
<1>6. TypeOK'
  BY <1>1, <1>5, Wider DEF TypeOK, AskedOK
<1>7. Single'
  <2>1. \A i \in DOMAIN urgent : urgent[i] \in Verdicts
    BY LenProperties, ElementOfSeq DEF TypeOK
  <2>2. Verdicts = {}
    BY <1>1 DEF Verdicts, Messages
  <2>3. QED
    BY <1>1, <2>1, <2>2 DEF Single
<1>8. QED
  BY <1>4, <1>6, <1>7

LEMMA LogInKeepsOrder == ASSUME Order, LogIn PROVE Order'
<1> USE DEF Order
<1>0. /\ loggedIn' = TRUE /\ queue' = <<>> /\ AskFor(queue, asked, handled)
      /\ UNCHANGED <<timedOut, urgent, ordinary, events, lost, called, cancelled, logouts>>
  BY DEF LogIn, channel
<1>1. Shape(asked) /\ asked \in Seq(Dispatchers) /\ Len(asked) \in Nat
  BY SameShape, LenProperties DEF TypeOK
<1>2. CASE queue = <<>>
  <2>1. Undisturbed(asked) /\ open' = open
    BY <1>0, <1>1, <1>2, AskForNothing DEF Undisturbed
  <2>2. AskedOK' /\ Chain' /\ Len(asked') = Len(asked)
    BY <1>0, <2>1, AskedKept, ChainKept DEF Undisturbed
  <2>3. TypeOK'
    <3>1. /\ timedOut' \subseteq Requests' /\ urgent' \in Seq(Verdicts')
          /\ ordinary' \in Seq(Records') /\ events' \in Seq(Events')
      BY <1>0, <1>1, <2>2, Wider
    <3>2. QED
      BY <1>0, <2>2, <3>1 DEF TypeOK, AskedOK
  <2>4. Single'
    BY <1>0, <1>2, <2>1, <2>2, SingleKept
  <2>5. QED
    BY <2>2, <2>3, <2>4
<1>3. CASE queue = <<Len(asked)>> /\ Len(asked) < Intervals
  <2>1. Len(asked) \in 0 .. Intervals - 1
    BY ONLY <1>1, <1>3, NumberAssumption
  <2>2. Asks(asked, handled)
    BY <1>0, <1>1, <1>3, <2>1, AskForOne DEF Asks
  <2>3. open = {} /\ called /\ cancelled # "idle queue"
    BY <1>3 DEF Chain
  <2>4. Chain'
    BY <1>0, <1>1, <2>2, <2>3, ChainGrows DEF TypeOK
  <2>5. AskedOK' /\ Len(asked') \in Len(asked) .. Len(asked) + 1
    BY <1>1, <2>2, AskedGrows
  <2>6. Len(asked') \in Nat /\ Len(asked') >= Len(asked)
    BY ONLY <1>1, <2>5
  <2>7. TypeOK'
    BY <1>0, <2>5, <2>6, Wider DEF TypeOK, AskedOK
  <2>8. Single'
    BY <1>0, <1>3 DEF Single, Continues
  <2>9. QED
    BY <2>4, <2>7, <2>8
<1>4. QED
  BY <1>2, <1>3 DEF Chain

LEMMA LogOutKeepsOrder == ASSUME Order, LogOut PROVE Order'
<1> USE DEF Order
<1>1. Undisturbed(asked) /\ UNCHANGED <<asked, queue, open, urgent, called, cancelled>>
  BY SameShape DEF LogOut, Undisturbed, channel
<1>2. Chain' /\ Single'
  BY <1>1, ChainKept, SingleKept DEF Undisturbed
<1>3. logouts' \in 0 .. MaxLogouts
  <2>1. logouts \in 0 .. MaxLogouts /\ logouts < MaxLogouts /\ logouts' = logouts + 1
    BY DEF LogOut, TypeOK
  <2>2. QED
    BY ONLY <2>1, NumberAssumption
<1>4. TypeOK'
  BY <1>3 DEF LogOut, TypeOK, channel, Requests, Verdicts, Records, Messages, Events
<1>5. QED
  BY <1>2, <1>4

LEMMA CancelKeepsOrder == ASSUME Order, Cancel PROVE Order'
<1> USE DEF Order
<1>1. /\ Undisturbed(asked) /\ UNCHANGED <<asked, queue, open, urgent, called>>
      /\ handled' = handled \ {Len(asked)} /\ called
      /\ cancelled' = IF queue = <<>> THEN "idle queue" ELSE "waiting"
  BY SameShape DEF Cancel, WithoutLatest, Undisturbed, channel, Chain
<1>2. Chain'
  <2>1. Requests' = Requests
    BY <1>1 DEF Requests
  <2>2. request' = Len(asked') /\ cancelled' # "no"
    BY <1>1 DEF Chain, Undisturbed
  <2>3. cancelled' = "idle queue" => queue' = <<>> /\ Len(asked') \notin handled'
    BY <1>1
  <2>4. QED
    BY <1>1, <2>1, <2>2, <2>3 DEF Chain
<1>3. Single'
  BY <1>1, SingleKept
<1>4. TypeOK'
  <2>1. AskedOK'
    BY <1>1, AskedKept
  <2>2. [type |-> "cancelled"] \in Events /\ Events' = Events
    BY <1>1 DEF Events, Requests
  <2>3. events' \in Seq(Events')
    BY <2>2, AppendProperties DEF Cancel, TypeOK
  <2>4. QED
    BY <1>1, <2>1, <2>3 DEF Cancel, TypeOK, AskedOK, channel, Requests, Verdicts, Records, Messages
<1>5. QED
  BY <1>2, <1>3, <1>4

LEMMA UrgentKeepsOrder == ASSUME Order, ReceiveUrgent PROVE Order'
<1> USE DEF Order
<1> DEFINE m == Head(urgent)
<1>1. /\ urgent # <<>> /\ Receive(m) /\ urgent' = Tail(urgent)
      /\ UNCHANGED <<loggedIn, timedOut, ordinary, lost, called, cancelled, logouts>>
  BY DEF ReceiveUrgent
<1>2. m \in Verdicts /\ Tail(urgent) \in Seq(Verdicts)
  BY <1>1, HeadTailProperties DEF TypeOK
<1>3. Continues(m) =>
          /\ m.request = Len(asked) /\ queue = <<>> /\ open = {}
          /\ \A i \in DOMAIN urgent' : ~Continues(urgent'[i])
  BY <1>1, HeadIsSingle
<1> HIDE DEF m
<1>4. Reachable(m)
  BY <1>2, <1>3 DEF Reachable
<1>5. /\ AskedOK' /\ Chain'
      /\ Len(asked') \in Nat /\ Len(asked') >= Len(asked)
      /\ events' \in Seq(Events')
      /\ \/ Len(asked') = Len(asked) /\ queue' = queue /\ open' = open
         \/ Continues(m)
  BY <1>1, <1>4, ReceiveKeeps
<1>6. TypeOK'
  <2>1. /\ timedOut' \subseteq Requests' /\ Verdicts \subseteq Verdicts'
        /\ ordinary' \in Seq(Records')
    BY <1>1, <1>5, Wider
  <2>2. urgent' \in Seq(Verdicts')
    BY <1>1, <1>2, <2>1, SeqMonotonic
  <2>3. QED
    BY <1>1, <1>5, <2>1, <2>2 DEF TypeOK, AskedOK
<1>7. Single'
  <2>1. CASE Continues(m)
    BY <1>3, <2>1 DEF Single, Continues
  <2>2. CASE Len(asked') = Len(asked) /\ queue' = queue /\ open' = open
    BY <1>1, <2>2, SingleKept
  <2>3. QED
    BY <1>5, <2>1, <2>2
<1>8. QED
  BY <1>5, <1>6, <1>7

LEMMA OrdinaryKeepsOrder == ASSUME Order, ReceiveOrdinary PROVE Order'
<1> USE DEF Order
<1> DEFINE m == Head(ordinary)
<1>1. /\ ordinary # <<>> /\ Receive(m) /\ ordinary' = Tail(ordinary)
      /\ UNCHANGED <<loggedIn, timedOut, urgent, lost, called, cancelled, logouts>>
  BY DEF ReceiveOrdinary
<1>2. m \in Records /\ Tail(ordinary) \in Seq(Records)
  BY <1>1, HeadTailProperties DEF TypeOK
<1> HIDE DEF m
<1>3. Reachable(m) /\ ~Continues(m)
  BY <1>2 DEF Reachable, Records, Continues
<1>4. /\ AskedOK' /\ Chain'
      /\ Len(asked') = Len(asked) /\ Len(asked') \in Nat
      /\ events' \in Seq(Events')
      /\ queue' = queue /\ open' = open
  BY <1>1, <1>3, ReceiveKeeps
<1>5. TypeOK'
  <2>0. Len(asked') >= Len(asked)
    BY ONLY <1>4
  <2>1. /\ timedOut' \subseteq Requests' /\ Records \subseteq Records'
        /\ urgent' \in Seq(Verdicts')
    BY <1>1, <1>4, <2>0, Wider
  <2>2. ordinary' \in Seq(Records')
    BY <1>1, <1>2, <2>1, SeqMonotonic
  <2>3. QED
    BY <1>1, <1>4, <2>1, <2>2 DEF TypeOK, AskedOK
<1>6. Single'
  BY <1>1, <1>4, SingleKept
<1>7. QED
  BY <1>4, <1>5, <1>6

-----------------------------------------------------------------------------
(* The API closes a request when it posts the message that continues.      *)
RespondKeeps(ds) ==
    /\ Undisturbed(ds)
    /\ UNCHANGED <<loggedIn, timedOut, events, lost, called, cancelled, logouts>>

LEMMA RespondType ==
    ASSUME Order, NEW ds, RespondKeeps(ds),
           urgent' \in Seq(Verdicts), ordinary' \in Seq(Records)
    PROVE  TypeOK' /\ Chain' /\ Len(asked') = Len(asked)
<1> USE DEF Order
<1>1. AskedOK' /\ Chain' /\ Len(asked') = Len(asked)
  BY AskedKept, ChainKept DEF RespondKeeps, Undisturbed
<1>2. /\ Requests' = Requests /\ Verdicts' = Verdicts /\ Records' = Records
      /\ Events' = Events
  BY <1>1 DEF Requests, Messages, Verdicts, Records, Events
<1>3. QED
  BY <1>1, <1>2 DEF RespondKeeps, TypeOK, AskedOK

LEMMA CountedShape ==
    ASSUME Order, NEW r \in Requests, NEW e \in Dispatchers,
           e.begin = asked[r].begin, e.last = asked[r].last, e.posted <= e.total
    PROVE  Shape([asked EXCEPT ![r] = e])
<1> DEFINE ds == [asked EXCEPT ![r] = e]
<1>1. asked \in Seq(Dispatchers) /\ r \in 1 .. Len(asked)
  BY DEF Order, TypeOK, Requests
<1>2. /\ ds \in Seq(Dispatchers) /\ Len(ds) = Len(asked)
      /\ \A q \in 1 .. Len(asked) : ds[q] = IF q = r THEN e ELSE asked[q]
  <2>1. e \in Dispatchers
    OBVIOUS
  <2> HIDE DEF ds
  <2>2. ds = [asked EXCEPT ![r] = e]
    BY DEF ds
  <2>3. QED
    BY ONLY <1>1, <2>1, <2>2, ExceptSeq
<1>3. QED
  BY <1>2 DEF Shape, Order, Chain, TypeOK, Requests

LEMMA PostedSingle ==
    ASSUME Order, NEW v \in Verdicts, urgent' = Append(urgent, v),
           Len(asked') = Len(asked), queue' = queue, open' \subseteq open,
           Continues(v) => v.request = Len(asked) /\ open # {} /\ open' = {}
    PROVE  Single'
<1>1. /\ DOMAIN urgent = 1 .. Len(urgent) /\ Len(urgent) \in Nat
      /\ DOMAIN urgent' = 1 .. Len(urgent) + 1
      /\ \A i \in 1 .. Len(urgent) : urgent'[i] = urgent[i]
      /\ urgent'[Len(urgent) + 1] = v
  <2>1. urgent \in Seq(Verdicts)
    BY DEF Order, TypeOK
  <2>2. /\ urgent' \in Seq(Verdicts) /\ Len(urgent') = Len(urgent) + 1
        /\ \A i \in 1 .. Len(urgent) : urgent'[i] = urgent[i]
        /\ urgent'[Len(urgent) + 1] = v
    BY <2>1, AppendProperties
  <2>3. QED
    BY <2>1, <2>2, LenProperties
<1>2. CASE Continues(v)
  <2>1. \A i \in DOMAIN urgent : ~Continues(urgent[i])
    BY <1>2 DEF Order, Single
  <2>2. v.request = Len(asked') /\ open' = {} /\ queue' = <<>>
    BY <1>2 DEF Order, Chain
  <2>3. \A i \in DOMAIN urgent' : Continues(urgent'[i]) => i = Len(urgent) + 1
    BY <1>1, <2>1 DEF Continues
  <2>4. QED
    BY <1>1, <2>2, <2>3 DEF Single, Continues
<1>3. CASE ~Continues(v)
  <2>1. \A i \in DOMAIN urgent' : Continues(urgent'[i]) => i \in DOMAIN urgent /\ urgent'[i] = urgent[i]
    BY <1>1, <1>3
  <2>2. QED
    BY <2>1 DEF Order, Single, Continues
<1>4. QED
  BY <1>2, <1>3

LEMMA RespondKeepsOrder == ASSUME Order, Respond PROVE Order'
<1> USE DEF Order
<1>1. PICK r \in open :
          Answer(r) \/ PostRecord(r) \/ PostSuccess(r) \/ PostInvalid(r) \/ PostError(r)
  BY DEF Respond
<1>2. UNCHANGED <<loggedIn, queue, handled, request, events, lost, called, cancelled, logouts>>
  BY DEF Respond
<1>3. /\ r \in Requests /\ r = Len(asked) /\ queue = <<>>
      /\ asked[r] \in Dispatchers /\ asked[r].posted <= asked[r].total
      /\ MaxRecords \in Nat
  BY ElementOfSeq, NumberAssumption DEF TypeOK, Chain, Requests
<1>4. CASE Answer(r)
  <2>1. PICK n \in 1 .. MaxRecords : asked' = [asked EXCEPT ![r].total = n]
    BY <1>4 DEF Answer
  <2> DEFINE e == [asked[r] EXCEPT !.total = n]
  <2>2. /\ e \in Dispatchers /\ e.begin = asked[r].begin /\ e.last = asked[r].last
        /\ e.posted <= e.total
    BY <1>3, <1>4, <2>1 DEF Answer, Dispatchers
  <2>3. asked' = [asked EXCEPT ![r] = e]
    BY <2>1
  <2> HIDE DEF e
  <2>4. RespondKeeps([asked EXCEPT ![r] = e])
    BY <1>2, <1>3, <1>4, <2>2, <2>3, CountedShape DEF Answer, RespondKeeps, Undisturbed
  <2>5. urgent' = urgent /\ ordinary' = ordinary /\ open' = open
    BY <1>4 DEF Answer, channel
  <2>6. TypeOK' /\ Chain' /\ Len(asked') = Len(asked)
    BY <2>4, <2>5, RespondType DEF TypeOK
  <2>7. Single'
    BY <1>2, <2>5, <2>6, SingleKept
  <2>8. QED
    BY <2>6, <2>7
<1>5. CASE PostRecord(r)
  <2> DEFINE e == [asked[r] EXCEPT !.posted = asked[r].posted + 1]
             m == Record(r, e.posted, e.posted = asked[r].total)
  <2>1. /\ e \in Dispatchers /\ e.begin = asked[r].begin /\ e.last = asked[r].last
        /\ e.posted <= e.total /\ e.posted \in 1 .. MaxRecords
    <3>1. /\ asked[r].posted \in 0 .. MaxRecords /\ asked[r].total \in 0 .. MaxRecords
          /\ asked[r].posted < asked[r].total
      BY <1>3, <1>5 DEF PostRecord, Dispatchers
    <3>2. asked[r].posted + 1 \in 1 .. MaxRecords /\ asked[r].posted + 1 <= asked[r].total
      BY ONLY <1>3, <3>1
    <3>3. QED
      BY <1>3, <3>2, NumberAssumption DEF Dispatchers
  <2>2. asked' = [asked EXCEPT ![r] = e] /\ asked'[r].posted = e.posted
    <3>1. asked' = [asked EXCEPT ![r] = e]
      BY <1>5 DEF PostRecord
    <3>2. asked \in Seq(Dispatchers) /\ r \in 1 .. Len(asked)
      BY <1>3 DEF TypeOK, Requests
    <3> HIDE DEF e
    <3>3. asked'[r] = e
      BY <2>1, <3>1, <3>2, ExceptSeq
    <3>4. QED
      BY <3>1, <3>3
  <2>3. m \in Records
    BY <1>3, <2>1 DEF Record, Records, Messages, MessageTypes
  <2>4. ordinary' = Append(ordinary, m)
    BY <1>5, <2>2 DEF PostRecord
  <2> HIDE DEF e, m
  <2>5. RespondKeeps([asked EXCEPT ![r] = e])
    BY <1>2, <1>3, <1>5, <2>1, <2>2, CountedShape DEF PostRecord, RespondKeeps, Undisturbed
  <2>6. urgent' = urgent /\ open' = open /\ ordinary' \in Seq(Records)
    <3>1. ordinary \in Seq(Records)
      BY DEF TypeOK
    <3>2. ordinary' \in Seq(Records)
      BY <2>3, <2>4, <3>1, AppendProperties
    <3>3. QED
      BY <1>5, <3>2 DEF PostRecord
  <2>7. TypeOK' /\ Chain' /\ Len(asked') = Len(asked)
    BY <2>5, <2>6, RespondType DEF TypeOK
  <2>8. Single'
    BY <1>2, <2>6, <2>7, SingleKept
  <2>9. QED
    BY <2>7, <2>8
<1>6. CASE PostSuccess(r) \/ PostInvalid(r) \/ PostError(r)
  <2>1. /\ open' = open \ {r}
        /\ \E v \in {Success(r), Error(r, "invalid"), Error(r, "error")} : urgent' = Append(urgent, v)
        /\ UNCHANGED <<asked, timedOut, ordinary>>
    BY <1>6 DEF PostSuccess, PostInvalid, PostError
  <2>2. PICK v \in {Success(r), Error(r, "invalid"), Error(r, "error")} : urgent' = Append(urgent, v)
    BY <2>1
  <2>3. v \in Verdicts /\ v.request = r
    <3>1. Success(r) \in Verdicts /\ Success(r).request = r
      BY <1>3 DEF Success, Verdicts, Messages, MessageTypes
    <3>2. \A type \in {"invalid", "error"} :
              Error(r, type) \in Verdicts /\ Error(r, type).request = r
      BY <1>3 DEF Error, Verdicts, Messages, MessageTypes
    <3>3. QED
      BY <2>2, <3>1, <3>2
  <2>4. RespondKeeps(asked)
    BY <1>2, <2>1, SameShape DEF RespondKeeps, Undisturbed
  <2>5. urgent' \in Seq(Verdicts)
    BY <2>2, <2>3, AppendProperties DEF TypeOK
  <2>6. TypeOK' /\ Chain' /\ Len(asked') = Len(asked)
    BY <2>1, <2>4, <2>5, RespondType DEF TypeOK
  <2>7. open # {} /\ open' = {}
    BY <1>3, <2>1 DEF Chain
  <2>8. Single'
    BY <1>2, <1>3, <2>2, <2>3, <2>6, <2>7, PostedSingle
  <2>9. QED
    BY <2>6, <2>8
<1>7. QED
  BY <1>1, <1>4, <1>5, <1>6

LEMMA RaceKeepsOrder == ASSUME Order, Race PROVE Order'
<1> USE DEF Order
<1>1. PICK r \in DOMAIN asked : RacingTimeout(r)
  BY DEF Race
<1>2. /\ timedOut' = timedOut \cup {r} /\ urgent' = Append(urgent, Error(r, "error"))
      /\ UNCHANGED <<loggedIn, queue, asked, handled, request, open, ordinary, events, lost,
                     called, cancelled, logouts>>
  BY <1>1 DEF Race, RacingTimeout
<1>3. r \in Requests
  BY LenProperties DEF TypeOK, Requests
<1>4. Error(r, "error") \in Verdicts /\ ~Continues(Error(r, "error"))
  BY <1>3, NumberAssumption DEF Error, Verdicts, Messages, MessageTypes, Continues
<1>5. urgent' \in Seq(Verdicts)
  BY <1>2, <1>4, AppendProperties DEF TypeOK
<1>6. Undisturbed(asked)
  BY <1>2, SameShape DEF Undisturbed
<1>7. AskedOK' /\ Chain' /\ Len(asked') = Len(asked)
  BY <1>2, <1>6, AskedKept, ChainKept DEF Undisturbed
<1>8. TypeOK'
  <2>1. /\ Requests' = Requests /\ Verdicts' = Verdicts /\ Records' = Records
        /\ Events' = Events
    BY <1>7 DEF Requests, Messages, Verdicts, Records, Events
  <2>2. QED
    BY <1>2, <1>3, <1>5, <1>7, <2>1 DEF TypeOK, AskedOK
<1>9. Single'
  BY <1>2, <1>4, PostedSingle
<1>10. QED
  BY <1>7, <1>8, <1>9

(* What is left on the way after messages are lost is the end of what was. *)
Rest(r, k) == SubSeq(r, k + 1, Len(r))

LEMMA LossDoes ==
    ASSUME TypeOK, LoseTheRest
    PROVE  /\ \E k \in 0 .. Len(urgent) : urgent' = Rest(urgent, k)
           /\ \E k \in 0 .. Len(ordinary) : ordinary' = Rest(ordinary, k)
           /\ lost' = TRUE
           /\ UNCHANGED <<loggedIn, queue, asked, handled, request, open, timedOut, events,
                          called, cancelled, logouts>>
BY DEF LoseTheRest, RestOfTheCall, Rest

LEMMA RestOf ==
    ASSUME NEW S, NEW s \in Seq(S), NEW k \in 0 .. Len(s)
    PROVE  /\ Rest(s, k) \in Seq(S) /\ k \in Nat
           /\ DOMAIN Rest(s, k) = 1 .. Len(s) - k /\ Len(s) \in Nat
           /\ \A i \in DOMAIN Rest(s, k) : k + i \in DOMAIN s /\ Rest(s, k)[i] = s[k + i]
<1>1. /\ Rest(s, k) \in Seq(S) /\ Len(s) \in Nat /\ Len(Rest(s, k)) = Len(s) - k
      /\ \A i \in 1 .. Len(Rest(s, k)) : k + i \in 1 .. Len(s) /\ Rest(s, k)[i] = s[k + i]
  BY Dropped DEF Rest
<1>2. DOMAIN s = 1 .. Len(s) /\ DOMAIN Rest(s, k) = 1 .. Len(Rest(s, k))
  BY <1>1, LenProperties
<1>3. QED
  BY <1>1, <1>2

LEMMA LossKeepsOrder == ASSUME Order, LoseTheRest PROVE Order'
<1> USE DEF Order
<1>1. PICK k \in 0 .. Len(urgent) : urgent' = Rest(urgent, k)
  BY LossDoes
<1>2. PICK l \in 0 .. Len(ordinary) : ordinary' = Rest(ordinary, l)
  BY LossDoes
<1>3. /\ lost' = TRUE
      /\ UNCHANGED <<loggedIn, queue, asked, handled, request, open, timedOut, events,
                     called, cancelled, logouts>>
  BY LossDoes
<1>4. Undisturbed(asked)
  BY <1>3, SameShape DEF Undisturbed
<1>5. AskedOK' /\ Chain' /\ Len(asked') = Len(asked)
  BY <1>3, <1>4, AskedKept, ChainKept DEF Undisturbed
<1>6. urgent \in Seq(Verdicts) /\ ordinary \in Seq(Records)
  BY DEF TypeOK
<1>7. /\ urgent' \in Seq(Verdicts) /\ k \in Nat /\ DOMAIN urgent' \subseteq Int
      /\ \A i \in DOMAIN urgent' : k + i \in DOMAIN urgent /\ urgent'[i] = urgent[k + i]
  BY <1>1, <1>6, RestOf
<1>8. ordinary' \in Seq(Records)
  BY <1>2, <1>6, RestOf
<1>9. TypeOK'
  <2>1. /\ Requests' = Requests /\ Verdicts' = Verdicts /\ Records' = Records
        /\ Events' = Events
    BY <1>5 DEF Requests, Messages, Verdicts, Records, Events
  <2>2. QED
    BY <1>3, <1>5, <1>7, <1>8, <2>1 DEF TypeOK, AskedOK
<1>10. Single'
  BY <1>3, <1>7 DEF Single, Continues
<1>11. QED
  BY <1>5, <1>9, <1>10

LEMMA EscapeKeepsOrder == ASSUME Order, Escape PROVE Order'
<1> USE DEF Order
<1>1. /\ open' \subseteq open /\ lost' = TRUE
      /\ UNCHANGED <<loggedIn, queue, asked, handled, request, timedOut, urgent, ordinary,
                     events, called, cancelled, logouts>>
  BY DEF Escape, channel
<1>2. Undisturbed(asked)
  BY <1>1, SameShape DEF Undisturbed
<1>3. AskedOK' /\ Chain' /\ Len(asked') = Len(asked)
  BY <1>1, <1>2, AskedKept, ChainKept DEF Undisturbed
<1>4. /\ Requests' = Requests /\ Verdicts' = Verdicts /\ Records' = Records
      /\ Events' = Events
  BY <1>3 DEF Requests, Messages, Verdicts, Records, Events
<1>5. TypeOK'
  BY <1>1, <1>3, <1>4 DEF TypeOK, AskedOK
<1>6. Single'
  BY <1>1, <1>3, SingleKept
<1>7. QED
  BY <1>3, <1>5, <1>6

LEMMA OrderAlways == Spec => []Order
<1>1. Order /\ [Next]_vars => Order'
  <2>1. Order /\ UNCHANGED vars => Order'
    <3> SUFFICES ASSUME Order, UNCHANGED vars
                 PROVE  Order'
      OBVIOUS
    <3>1. UNCHANGED <<loggedIn, queue, asked, handled, request, open, timedOut, urgent, ordinary,
                      events, lost, called, cancelled, logouts>>
      BY DEF vars, channel
    <3>2. Requests' = Requests
      BY <3>1 DEF Requests
    <3>3. Verdicts' = Verdicts /\ Records' = Records /\ Events' = Events
      BY <3>2 DEF Messages, Verdicts, Records, Events
    <3>4. TypeOK'
      BY <3>1, <3>2, <3>3 DEF Order, TypeOK
    <3>5. Chain' /\ Single'
      BY <3>1, <3>2 DEF Order, Chain, Single, Continues
    <3>6. QED
      BY <3>4, <3>5 DEF Order
  <2>2. QED
    BY <2>1, CallKeepsOrder, LogInKeepsOrder, LogOutKeepsOrder, CancelKeepsOrder,
       UrgentKeepsOrder, OrdinaryKeepsOrder, RespondKeepsOrder, RaceKeepsOrder,
       LossKeepsOrder, EscapeKeepsOrder DEF Next
<1>2. QED
  BY <1>1, InitOrder, PTL DEF Spec

(* The intervals are asked for one after the other, each once, whatever the*)
(* order of messages, logouts, timeouts and requests that fail.            *)
THEOREM AskedInOrder == Spec => []IntervalsInOrder
<1>1. Order => IntervalsInOrder
  <2> SUFFICES ASSUME Order
               PROVE  IntervalsInOrder
    OBVIOUS
  <2>1. \A r \in Requests : asked[r].begin = r - 1
    BY DEF Order, Chain
  <2>2. Len(asked) \in Nat
    BY LenProperties DEF Order, TypeOK
  <2>3. queue = <<>> \/ queue = <<Len(asked)>>
    BY DEF Order, Chain
  <2>4. \A i \in DOMAIN queue : queue[i] = Len(asked) + i - 1
    BY ONLY <2>2, <2>3
  <2>5. QED
    BY <2>1, <2>4 DEF IntervalsInOrder
<1>2. QED
  BY <1>1, OrderAlways, PTL

-----------------------------------------------------------------------------
(* What is told is told at the end, and stays.                             *)
LEMMA ToldGrows ==
    ASSUME NEW S, events \in Seq(S), NEW es \in Seq(S), events' = events \o es, NEW type
    PROVE  /\ Told(type) \subseteq Told(type)'
           /\ \A i \in Told(type) : events'[i] = events[i] /\ i \in 1 .. Len(events)
           /\ \A i \in Told(type)' \ Told(type) :
                 /\ i - Len(events) \in 1 .. Len(es) /\ events'[i] = es[i - Len(events)]
                 /\ es[i - Len(events)].type = type
           /\ Len(events) \in Nat
<1>1. /\ Len(events) \in Nat /\ Len(es) \in Nat /\ events' \in Seq(S)
      /\ Len(events') = Len(events) + Len(es)
      /\ \A i \in 1 .. Len(events) : events'[i] = events[i]
      /\ \A i \in Len(events) + 1 .. Len(events) + Len(es) : events'[i] = es[i - Len(events)]
  BY ConcatProperties, LenProperties
<1>2. DOMAIN events = 1 .. Len(events) /\ DOMAIN events' = 1 .. Len(events) + Len(es)
  BY <1>1, LenProperties
<1>3. ASSUME NEW i \in Told(type)
      PROVE  i \in 1 .. Len(events) /\ events'[i] = events[i] /\ i \in Told(type)'
  BY <1>1, <1>2, <1>3 DEF Told
<1>4. ASSUME NEW i \in Told(type)', i \notin Told(type)
      PROVE  /\ i - Len(events) \in 1 .. Len(es) /\ events'[i] = es[i - Len(events)]
             /\ es[i - Len(events)].type = type
  <2>1. i \in 1 .. Len(events) + Len(es) /\ events'[i].type = type
    BY <1>2, <1>4 DEF Told
  <2>2. i \notin 1 .. Len(events)
    BY <1>1, <1>2, <1>4, <2>1 DEF Told
  <2>3. i \in Len(events) + 1 .. Len(events) + Len(es) /\ i - Len(events) \in 1 .. Len(es)
    BY <1>1, <2>1, <2>2
  <2>4. QED
    BY <1>1, <2>1, <2>3
<1>5. QED
  BY <1>1, <1>3, <1>4

LEMMA ToldKept ==
    ASSUME NEW S, events \in Seq(S), NEW es \in Seq(S), events' = events \o es, NEW type,
           \A i \in 1 .. Len(es) : es[i].type # type
    PROVE  Told(type)' = Told(type)
<1>1. /\ Told(type) \subseteq Told(type)'
      /\ \A i \in Told(type)' \ Told(type) :
            i - Len(events) \in 1 .. Len(es) /\ es[i - Len(events)].type = type
  BY ToldGrows
<1>2. QED
  BY <1>1, Zenon

(* What a message makes the client tell.                                   *)
Outcome(type) == [type |-> type]
TellsError(m) == events' = Append(events, Outcome("error"))

LEMMA ReceiveTells ==
    ASSUME Order, NEW m, Reachable(m), Receive(m)
    PROVE  \/ m.request \notin handled /\ UNCHANGED <<queue, asked, handled, request, open, events>>
           \/ m.request \in handled /\ m.type = "error" /\ TellsError(m)
              /\ handled' = handled \ {m.request} /\ UNCHANGED <<queue, asked, request, open>>
           \/ m.request \in handled /\ \E ds, completes :
                 completes \in BOOLEAN /\ Dispatched(m, ds, completes)
BY DispatchDoes DEF Receive, DispatchFatal, TellsError, Outcome

(* Only the latest request can complete, and only if it is the last one.   *)
LEMMA CompletesLatest ==
    ASSUME Order, NEW m, m.request \in handled, NEW ds, Dispatched(m, ds, TRUE)
    PROVE  m.request = Len(asked) /\ Len(asked) = Intervals /\ Len(asked) \in Nat
<1>1. m.request \in 1 .. Len(asked) /\ Len(asked) <= Intervals /\ Len(asked) \in Nat
  BY LenProperties DEF Order, TypeOK, Requests
<1>2. m.request = Intervals
  BY <1>1 DEF Dispatched, Shape, Requests
<1>3. QED
  BY <1>1, <1>2, NumberAssumption

(* A call that is cancelled stops: no interval is asked for or put on the  *)
(* queue any more, and "completed" is not told, unless an interval was     *)
(* waiting for the login when it was cancelled.                            *)
THEOREM CancelledStops == Spec => CancelStops
<1> DEFINE A == cancelled = "idle queue" =>
                    /\ Len(asked') = Len(asked) /\ queue' = <<>>
                    /\ Told("completed")' = Told("completed")
<1>1. ASSUME Order, cancelled = "idle queue", NEW m, Reachable(m), Receive(m),
             called' = called, cancelled' = cancelled
      PROVE  A
  <2>1. queue = <<>> /\ Len(asked) \notin handled /\ events \in Seq(Events)
    BY <1>1 DEF Order, Chain, TypeOK
  <2>2. CASE m.request \notin handled /\ UNCHANGED <<queue, asked, handled, request, open, events>>
    BY <2>1, <2>2 DEF Told
  <2>3. CASE m.request \in handled /\ m.type = "error" /\ TellsError(m)
             /\ handled' = handled \ {m.request} /\ UNCHANGED <<queue, asked, request, open>>
    <3> DEFINE es == <<Outcome("error")>>
    <3>1. es \in Seq(Events) /\ Outcome("error") \in Events
      BY DEF Events, Outcome
    <3>2. events' = events \o es
      BY <2>1, <2>3, <3>1, AppendIsConcat DEF TellsError
    <3>3. \A i \in 1 .. Len(es) : es[i].type # "completed"
      BY DEF Outcome
    <3> HIDE DEF es
    <3>4. Told("completed")' = Told("completed")
      BY <2>1, <3>1, <3>2, <3>3, ToldKept
    <3>5. QED
      BY <2>1, <2>3, <3>4
  <2>4. CASE m.request \in handled /\ \E ds, completes :
                 completes \in BOOLEAN /\ Dispatched(m, ds, completes)
    <3>1. PICK ds, completes : completes \in BOOLEAN /\ Dispatched(m, ds, completes)
      BY <2>4
    <3>2. completes = FALSE
      BY <1>1, <2>1, <2>4, <3>1, CompletesLatest
    <3>3. Keeps(ds, Handlers(m, completes)) /\ queue' = queue
      BY <1>1, <2>1, <2>4, <3>1 DEF Dispatched, Reachable
    <3>4. Len(asked') = Len(asked)
      BY <3>1, <3>3 DEF Dispatched, Keeps, Shape
    <3>5. TellsRecord(m) \in Seq(Events) /\ \A i \in 1 .. Len(TellsRecord(m)) :
              TellsRecord(m)[i].type # "completed"
      <4>1. CASE m.type = "record"
        <5>1. m.request \in Requests /\ m.number \in 1 .. MaxRecords
          <6>1. m \in Records /\ MaxRecords \in Nat
            BY <1>1, <4>1, NumberAssumption DEF Reachable, Verdicts
          <6>2. m.request \in Requests /\ m.number \in 0 .. MaxRecords /\ m.number > 0
            BY <6>1 DEF Records, Messages
          <6>3. QED
            BY ONLY <6>1, <6>2
        <5>2. [type |-> "record", request |-> m.request, number |-> m.number] \in Events
          BY <5>1 DEF Events
        <5>3. QED
          BY <4>1, <5>2 DEF TellsRecord
      <4>2. CASE m.type # "record"
        BY <4>2, EmptySeq DEF TellsRecord
      <4>3. QED
        BY <4>1, <4>2
    <3>6. events' = events \o TellsRecord(m)
      <4>1. events \o TellsRecord(m) \in Seq(Events)
        BY <2>1, <3>5, ConcatProperties
      <4>2. events' = (events \o TellsRecord(m)) \o <<>>
        BY <3>1, <3>2 DEF Dispatched, Tells, TellsCompleted
      <4>3. QED
        BY <4>1, <4>2, ConcatEmptySeq
    <3>7. Told("completed")' = Told("completed")
      BY <2>1, <3>5, <3>6, ToldKept
    <3>8. QED
      BY <2>1, <3>3, <3>4, <3>7
  <2>5. QED
    BY <1>1, <2>2, <2>3, <2>4, ReceiveTells
<1>2. ASSUME Order, Next, cancelled = "idle queue"
      PROVE  A
  <2>1. /\ queue = <<>> /\ Len(asked) \notin handled /\ called /\ asked \in Seq(Dispatchers)
        /\ Shape(asked) /\ events \in Seq(Events) /\ Len(asked) \in Nat
    BY <1>2, SameShape, LenProperties DEF Order, Chain, TypeOK
  <2>2. CASE Call \/ Cancel
    BY <1>2, <2>1, <2>2 DEF Call, Cancel
  <2>3. CASE LogIn
    <3>1. asked' = asked /\ queue' = <<>> /\ events' = events
      BY <2>1, <2>3, AskForNothing DEF LogIn
    <3>2. QED
      BY <3>1 DEF Told
  <2>4. CASE LogOut
    BY <2>1, <2>4 DEF LogOut, Told
  <2>5. CASE ReceiveUrgent
    <3> DEFINE m == Head(urgent)
    <3>1. /\ urgent # <<>> /\ Receive(m) /\ urgent' = Tail(urgent)
          /\ called' = called /\ cancelled' = cancelled
      BY <2>5 DEF ReceiveUrgent
    <3>2. m \in Verdicts
      BY <1>2, <3>1, HeadTailProperties DEF Order, TypeOK
    <3>3. Continues(m) => m.request = Len(asked) /\ queue = <<>> /\ open = {}
      BY <1>2, <3>1, HeadIsSingle DEF Order
    <3> HIDE DEF m
    <3>4. Reachable(m)
      BY <3>2, <3>3 DEF Reachable
    <3>5. QED
      BY <1>1, <1>2, <3>1, <3>4
  <2>6. CASE ReceiveOrdinary
    <3> DEFINE m == Head(ordinary)
    <3>1. ordinary # <<>> /\ Receive(m) /\ called' = called /\ cancelled' = cancelled
      BY <2>6 DEF ReceiveOrdinary
    <3>2. m \in Records
      BY <1>2, <3>1, HeadTailProperties DEF Order, TypeOK
    <3> HIDE DEF m
    <3>3. Reachable(m)
      BY <3>2 DEF Reachable, Records, Continues
    <3>4. QED
      BY <1>1, <1>2, <3>1, <3>3
  <2>7. CASE Respond
    <3>1. queue' = queue /\ events' = events
      BY <2>7 DEF Respond
    <3>2. Len(asked') = Len(asked)
      <4>1. PICK r \in open :
               \/ asked' = asked
               \/ \E n \in 1 .. MaxRecords : asked' = [asked EXCEPT ![r].total = n]
               \/ asked' = [asked EXCEPT ![r].posted = @ + 1]
        BY <2>7 DEF Respond, Answer, PostRecord, PostSuccess, PostInvalid, PostError
      <4>2. QED
        BY <2>1, <4>1
    <3>3. QED
      BY <2>1, <3>1, <3>2 DEF Told
  <2>8. CASE Race
    BY <2>1, <2>8 DEF Race, RacingTimeout, Told
  <2>9. CASE LoseTheRest \/ Escape
    BY <2>1, <2>9 DEF LoseTheRest, Escape, Told
  <2>10. QED
    BY <1>2, <2>2, <2>3, <2>4, <2>5, <2>6, <2>7, <2>8, <2>9 DEF Next
<1>3. Order /\ [Next]_vars => [A]_vars
  BY <1>2
<1>4. QED
  BY <1>3, OrderAlways, PTL DEF Spec, CancelStops

-----------------------------------------------------------------------------
(* Why there is one conclusion: as long as no timeout races an answer, at  *)
(* most one message is on its way that is not a record, it concerns the    *)
(* latest request, and then nothing is open or waits.  When it is an error *)
(* or the last interval's success, nothing comes after it.                 *)
Conclusions == Told("completed") \cup Told("error")

Quiet == urgent = <<>> /\ open = {} /\ queue = <<>>

Alone ==
    /\ urgent # <<>> => Len(urgent) = 1 /\ Head(urgent).request = Len(asked)
                       /\ open = {} /\ queue = <<>>
    /\ Conclusions # {} => Quiet /\ Len(asked) \notin handled /\ called
    /\ \A r \in Requests : asked[r].last = TRUE => Quiet
    /\ \A i, j \in Conclusions : i = j

LEMMA GrowsLast ==
    ASSUME TypeOK, NEW ds, Shape(ds), NEW hs, Asks(ds, hs) \/ Queues(ds, hs)
    PROVE  \A r \in Requests' : asked'[r].last # TRUE
<1>1. /\ Len(asked) \in Nat /\ Len(asked) < Intervals
      /\ ds \in Seq(Dispatchers) /\ Len(ds) = Len(asked)
  BY LenProperties DEF TypeOK, Asks, Queues, Shape
<1>2. \A r \in 1 .. Len(asked) : ds[r].last # TRUE
  <2>1. \A r \in 1 .. Len(asked) : ds[r].last => r = Intervals
    BY DEF Shape, Requests
  <2>2. \A r \in 1 .. Len(asked) : r # Intervals
    BY ONLY <1>1, NumberAssumption
  <2>3. QED
    BY <2>1, <2>2
<1>3. CASE Asks(ds, hs)
  <2>1. asked' = Append(ds, Dispatcher(Len(asked)))
    BY <1>3 DEF Asks
  <2>2. Len(asked) \in 0 .. Intervals - 1
    BY ONLY <1>1, NumberAssumption
  <2>3. Dispatcher(Len(asked)) \in Dispatchers /\ Dispatcher(Len(asked)).last = FALSE
    BY <2>2, DispatcherType
  <2>4. /\ Len(asked') = Len(asked) + 1
        /\ \A r \in 1 .. Len(asked) : asked'[r] = ds[r]
        /\ asked'[Len(asked) + 1] = Dispatcher(Len(asked))
    BY ONLY <1>1, <2>1, <2>3, AppendProperties
  <2>5. \A r \in 1 .. Len(asked') : r \in 1 .. Len(asked) \/ r = Len(asked) + 1
    BY ONLY <1>1, <2>4
  <2>6. QED
    BY <1>2, <2>3, <2>4, <2>5 DEF Requests
<1>4. CASE Queues(ds, hs)
  BY <1>1, <1>2, <1>4 DEF Queues, Keeps, Requests
<1>5. QED
  BY <1>3, <1>4

LEMMA SameConclusions ==
    ASSUME NEW S, events \in Seq(S), NEW es \in Seq(S), events' = events \o es,
           \A i \in 1 .. Len(es) : es[i].type \notin {"completed", "error"}
    PROVE  Conclusions' = Conclusions
<1>1. Told("completed")' = Told("completed") /\ Told("error")' = Told("error")
  BY ToldKept
<1>2. QED
  BY <1>1 DEF Conclusions

LEMMA OneMoreConclusion ==
    ASSUME NEW S, events \in Seq(S), NEW es \in Seq(S), events' = events \o es,
           Conclusions = {},
           \A i \in 1 .. Len(es) : es[i].type \in {"completed", "error"} => i = Len(es)
    PROVE  \A i, j \in Conclusions' : i = j
<1>1. Len(events) \in Nat /\ Len(es) \in Nat
  BY LenProperties
<1>2. ASSUME NEW type \in {"completed", "error"}, NEW i \in Told(type)'
      PROVE  i = Len(events) + Len(es)
  <2>1. i \notin Told(type)
    BY DEF Conclusions
  <2>2. i - Len(events) \in 1 .. Len(es) /\ es[i - Len(events)].type = type
    BY <1>2, <2>1, ToldGrows
  <2>3. i \in Nat
    <3>1. events' \in Seq(S)
      BY ConcatProperties
    <3>2. QED
      BY <1>2, <3>1, LenProperties DEF Told
  <2>4. i - Len(events) = Len(es)
    BY <2>2
  <2>5. QED
    BY ONLY <1>1, <2>3, <2>4
<1>3. QED
  BY <1>2 DEF Conclusions

(* What is told on a record and on completion, as events.                  *)
LEMMA TellsTypes ==
    ASSUME Order, NEW m, Reachable(m), m.request \in handled, NEW completes \in BOOLEAN,
           Tells(m, completes)
    PROVE  LET es == TellsRecord(m) \o TellsCompleted(completes)
           IN  /\ events' = events \o es /\ es \in Seq(Events)
               /\ \A i \in 1 .. Len(es) :
                     /\ es[i].type \in {"completed", "error"} => completes /\ i = Len(es)
                     /\ es[i].type = "record" => m.type = "record" /\
                           i = 1 /\ es[i].request = m.request /\ es[i].number = m.number
<1>1. events \in Seq(Events)
  BY DEF Order, TypeOK
<1> DEFINE rs == TellsRecord(m)
           cs == TellsCompleted(completes)
<1>2. /\ rs \in Seq(Events) /\ Len(rs) \in Nat
      /\ \A i \in 1 .. Len(rs) :
            /\ m.type = "record" /\ i = 1
            /\ rs[i].type = "record" /\ rs[i].request = m.request /\ rs[i].number = m.number
  <2>1. CASE m.type = "record"
    <3>1. m \in Records /\ MaxRecords \in Nat /\ m.request \in Requests
      BY <2>1, NumberAssumption DEF Reachable, Verdicts, Order, TypeOK
    <3>2. m.number \in 0 .. MaxRecords /\ m.number > 0
      BY <3>1 DEF Records, Messages
    <3>3. m.number \in 1 .. MaxRecords
      BY ONLY <3>1, <3>2
    <3>4. [type |-> "record", request |-> m.request, number |-> m.number] \in Events
      BY <3>1, <3>3 DEF Events
    <3>5. QED
      BY <2>1, <3>4 DEF TellsRecord
  <2>2. CASE m.type # "record"
    BY <2>2, EmptySeq DEF TellsRecord
  <2>3. QED
    BY <2>1, <2>2
<1>3. /\ cs \in Seq(Events) /\ Len(cs) = IF completes THEN 1 ELSE 0
      /\ \A i \in 1 .. Len(cs) : cs[i].type = "completed"
  <2>1. [type |-> "completed"] \in Events
    BY DEF Events
  <2>2. QED
    BY <2>1, EmptySeq DEF TellsCompleted
<1>4. events' = (events \o rs) \o cs
  BY DEF Tells
<1> HIDE DEF rs, cs
<1>5. events' = events \o (rs \o cs)
  <2>1. rs \in Seq(Events) /\ cs \in Seq(Events) /\ events \in Seq(Events)
    BY <1>1, <1>2, <1>3
  <2>2. (events \o rs) \o cs = events \o (rs \o cs)
    BY ONLY <2>1, ConcatAssociative
  <2>3. QED
    BY ONLY <1>4, <2>2
<1>6. /\ rs \o cs \in Seq(Events) /\ Len(rs \o cs) = Len(rs) + Len(cs)
      /\ \A i \in 1 .. Len(rs) : (rs \o cs)[i] = rs[i]
      /\ \A i \in 1 .. Len(rs \o cs) : i \in 1 .. Len(rs) \/ (rs \o cs)[i].type = "completed"
  <2>1. /\ rs \o cs \in Seq(Events) /\ Len(rs \o cs) = Len(rs) + Len(cs)
        /\ \A i \in 1 .. Len(rs) + Len(cs) :
              (rs \o cs)[i] = IF i <= Len(rs) THEN rs[i] ELSE cs[i - Len(rs)]
    BY <1>2, <1>3, ConcatProperties
  <2>2. \A i \in 1 .. Len(rs) : i \in 1 .. Len(rs) + Len(cs) /\ i <= Len(rs)
    BY ONLY <1>2, <1>3
  <2>3. \A i \in 1 .. Len(rs) + Len(cs) : i \in 1 .. Len(rs) \/ (~(i <= Len(rs)) /\ i - Len(rs) \in 1 .. Len(cs))
    BY ONLY <1>2, <1>3
  <2>4. QED
    BY <1>3, <2>1, <2>2, <2>3
<1>7. \A i \in 1 .. Len(rs \o cs) : i \in 1 .. Len(rs) \/ (completes /\ i = Len(rs \o cs))
  BY ONLY <1>2, <1>3, <1>6
<1>8. \A i \in 1 .. Len(rs \o cs) :
          /\ (rs \o cs)[i].type \in {"completed", "error"} => completes /\ i = Len(rs \o cs)
          /\ (rs \o cs)[i].type = "record" => m.type = "record" /\
                i = 1 /\ (rs \o cs)[i].request = m.request /\ (rs \o cs)[i].number = m.number
  BY <1>2, <1>6, <1>7
<1>9. QED
  BY <1>5, <1>6, <1>8 DEF rs, cs

(* A message keeps Alone, whether it is the one urgent message that there  *)
(* is or a record.                                                         *)
LEMMA ReceiveAlone ==
    ASSUME Order, Alone, NEW m, Reachable(m), Receive(m), called' = called,
           \/ /\ urgent' = <<>> /\ m.request = Len(asked) /\ open = {} /\ queue = <<>>
              /\ Conclusions = {} /\ \A r \in Requests : asked[r].last # TRUE
           \/ urgent' = urgent /\ m \in Records
    PROVE  Alone'
<1>0. m.request \in handled => called
  <2> SUFFICES ASSUME m.request \in handled
               PROVE  called
    OBVIOUS
  <2>1. m.request \in 1 .. Len(asked)
    BY DEF Order, TypeOK, Requests
  <2>2. asked # <<>>
    BY <2>1
  <2>3. QED
    BY <2>2 DEF Order, Chain
<1>1. CASE m.request \notin handled /\ UNCHANGED <<queue, asked, handled, request, open, events>>
  <2>1. Conclusions' = Conclusions /\ Requests' = Requests
    BY <1>1 DEF Conclusions, Told, Requests
  <2>2. CASE urgent' = <<>>
    BY <1>1, <2>1, <2>2 DEF Alone, Quiet
  <2>3. CASE urgent' = urgent
    BY <1>1, <2>1, <2>3 DEF Alone, Quiet
  <2>4. QED
    BY <2>2, <2>3
<1>2. CASE m.request \in handled /\ m.type = "error" /\ TellsError(m)
           /\ handled' = handled \ {m.request} /\ UNCHANGED <<queue, asked, request, open>>
  <2>1. /\ urgent' = <<>> /\ m.request = Len(asked) /\ open = {} /\ queue = <<>>
        /\ Conclusions = {} /\ \A r \in Requests : asked[r].last # TRUE
    BY <1>2 DEF Records
  <2> DEFINE es == <<Outcome("error")>>
  <2>2. es \in Seq(Events) /\ Outcome("error") \in Events /\ events \in Seq(Events) /\ Len(es) = 1
    <3>1. Outcome("error") \in Events
      BY DEF Events, Outcome
    <3>2. events \in Seq(Events)
      BY DEF Order, TypeOK
    <3>3. QED
      BY <3>1, <3>2
  <2>3. events' = events \o es
    BY <1>2, <2>2, AppendIsConcat DEF TellsError
  <2> HIDE DEF es
  <2>4. \A i, j \in Conclusions' : i = j
    <3>1. \A i \in 1 .. Len(es) : i = Len(es)
      BY ONLY <2>2
    <3>2. QED
      BY <2>1, <2>2, <2>3, <3>1, OneMoreConclusion
  <2>5. Quiet' /\ Len(asked') \notin handled'
    BY <1>2, <2>1 DEF Quiet
  <2>6. called'
    BY <1>0, <1>2
  <2>7. QED
    BY <1>2, <2>1, <2>4, <2>5, <2>6 DEF Alone, Quiet
<1>3. CASE m.request \in handled /\ \E ds, completes :
               completes \in BOOLEAN /\ Dispatched(m, ds, completes)
  <2>1. PICK ds, completes : completes \in BOOLEAN /\ Dispatched(m, ds, completes)
    BY <1>3
  <2> DEFINE es == TellsRecord(m) \o TellsCompleted(completes)
  <2>2. /\ events' = events \o es /\ es \in Seq(Events) /\ events \in Seq(Events)
        /\ \A i \in 1 .. Len(es) :
              es[i].type \in {"completed", "error"} => completes /\ i = Len(es)
    <3>1. Tells(m, completes) /\ events \in Seq(Events)
      BY <2>1 DEF Dispatched, Order, TypeOK
    <3>2. QED
      BY <1>3, <2>1, <3>1, TellsTypes
  <2> HIDE DEF es
  <2>3. called
    BY <1>0, <1>3
  <2>4. CASE completes = TRUE
    <3>1. m.request = Len(asked) /\ m.request \in Requests /\ ds[m.request].last = TRUE
      BY <1>3, <2>1, <2>4, CompletesLatest DEF Dispatched, Order, TypeOK
    <3>2. Keeps(ds, handled \ {Len(asked)}) /\ queue' = queue /\ Len(asked') = Len(asked)
      BY <2>1, <2>4, <3>1 DEF Dispatched, Handlers, Keeps, Shape
    <3>3. Conclusions = {}
      BY <1>3, <3>1 DEF Alone
    <3>4. Quiet'
      <4>1. CASE urgent' = <<>> /\ open = {} /\ queue = <<>>
        BY <3>2, <4>1 DEF Quiet, Keeps
      <4>2. CASE urgent' = urgent /\ m \in Records
        <5>1. ~Continues(m)
          BY <4>2 DEF Records, Continues
        <5>2. asked[m.request].last = TRUE
          BY <2>1, <3>1, <5>1 DEF Dispatched
        <5>3. Quiet
          BY <3>1, <5>2 DEF Alone
        <5>4. QED
          BY <3>2, <4>2, <5>3 DEF Quiet, Keeps
      <4>3. QED
        BY <4>1, <4>2
    <3>5. \A i, j \in Conclusions' : i = j
      BY <2>2, <3>3, OneMoreConclusion
    <3>6. Len(asked') \notin handled' /\ called'
      BY <2>3, <3>2 DEF Keeps
    <3>7. QED
      BY <3>4, <3>5, <3>6 DEF Alone, Quiet
  <2>5. CASE completes = FALSE
    <3>1. Conclusions' = Conclusions
      BY <2>2, <2>5, SameConclusions
    <3>2. CASE Keeps(ds, Handlers(m, completes)) /\ queue' = queue
      <4>1. /\ handled' = handled /\ open' = open /\ queue' = queue /\ asked' = ds
            /\ Len(asked') = Len(asked) /\ Requests' = Requests
        BY <2>1, <2>5, <3>2 DEF Keeps, Handlers, Dispatched, Shape, Requests
      <4>2. CASE urgent' = <<>> /\ open = {} /\ queue = <<>> /\ Conclusions = {}
        BY <3>1, <4>1, <4>2 DEF Alone, Quiet
      <4>3. CASE urgent' = urgent /\ m \in Records
        <5>1. ~Continues(m)
          BY <4>3 DEF Records, Continues
        <5>2. \A r \in Requests : asked'[r].last = asked[r].last
          BY <2>1, <4>1, <5>1 DEF Dispatched
        <5>3. QED
          BY <3>1, <4>1, <4>3, <5>2 DEF Alone, Quiet
      <4>4. QED
        BY <4>2, <4>3
    <3>3. CASE Continues(m) /\ (Asks(ds, handled) \/ Queues(ds, handled))
      <4>1. urgent' = <<>> /\ Conclusions = {}
        BY <3>3 DEF Records, Continues
      <4>2. \A r \in Requests' : asked'[r].last # TRUE
        BY <2>1, <3>3, GrowsLast DEF Dispatched, Order
      <4>3. QED
        BY <3>1, <4>1, <4>2 DEF Alone
    <3>4. QED
      BY <2>1, <3>2, <3>3 DEF Dispatched
  <2>6. QED
    BY <2>1, <2>4, <2>5
<1>4. QED
  BY <1>1, <1>2, <1>3, ReceiveTells

LEMMA UrgentAlone ==
    ASSUME Order, Alone, ReceiveUrgent
    PROVE  Alone'
<1> DEFINE m == Head(urgent)
<1>1. urgent # <<>> /\ Receive(m) /\ urgent' = Tail(urgent) /\ called' = called
  BY DEF ReceiveUrgent
<1>2. m \in Verdicts /\ Len(Tail(urgent)) = Len(urgent) - 1 /\ Tail(urgent) \in Seq(Verdicts)
  BY <1>1, HeadTailProperties DEF Order, TypeOK
<1>3. Len(urgent) = 1 /\ m.request = Len(asked) /\ open = {} /\ queue = <<>>
  BY <1>1 DEF Alone
<1>4. urgent' = <<>>
  <2>1. Len(Tail(urgent)) = 0
    BY ONLY <1>2, <1>3
  <2>2. QED
    BY <1>1, <1>2, <2>1, EmptySeq
<1>5. Conclusions = {} /\ \A r \in Requests : asked[r].last # TRUE
  BY <1>1 DEF Alone, Quiet
<1>6. Reachable(m)
  BY <1>2, <1>3 DEF Reachable
<1> HIDE DEF m
<1>7. QED
  BY <1>1, <1>3, <1>4, <1>5, <1>6, ReceiveAlone

LEMMA OrdinaryAlone ==
    ASSUME Order, Alone, ReceiveOrdinary
    PROVE  Alone'
<1> DEFINE m == Head(ordinary)
<1>1. ordinary # <<>> /\ Receive(m) /\ urgent' = urgent /\ called' = called
  BY DEF ReceiveOrdinary
<1>2. m \in Records
  BY <1>1, HeadTailProperties DEF Order, TypeOK
<1> HIDE DEF m
<1>3. Reachable(m)
  BY <1>2 DEF Reachable, Records, Continues
<1>4. QED
  BY <1>1, <1>2, <1>3, ReceiveAlone

(* The other steps of the client ask for an interval when all is quiet, or *)
(* change nothing that Alone is about.                                     *)
LEMMA AskAlone ==
    ASSUME Order, Alone, urgent' = <<>>, events' = events,
           Conclusions = {}, \A r \in Requests : asked[r].last # TRUE,
           NEW hs, Asks(asked, hs) \/ Queues(asked, hs)
    PROVE  Alone'
<1>1. \A r \in Requests' : asked'[r].last # TRUE
  BY SameShape, GrowsLast DEF Order
<1>2. Conclusions' = {}
  BY DEF Conclusions, Told
<1>3. QED
  BY <1>1, <1>2 DEF Alone

LEMMA CallAlone ==
    ASSUME Order, Alone, Call
    PROVE  Alone'
<1>1. /\ asked = <<>> /\ queue = <<>> /\ Len(asked) = 0 /\ Requests = {}
      /\ requestTicks(Len(asked), asked, handled) /\ ~called
      /\ urgent' = urgent /\ events' = events
  BY DEF Call, Order, Chain, Requests, channel
<1>2. ~(Len(asked) >= Intervals)
  BY ONLY <1>1, NumberAssumption
<1>3. Asks(asked, handled) \/ Queues(asked, handled)
  BY <1>1, <1>2, SameShape, NextTicks DEF Order, TypeOK, Shape
<1>4. urgent = <<>>
  <2>1. Verdicts = {}
    BY <1>1 DEF Verdicts, Messages
  <2>2. urgent # <<>> => Head(urgent) \in Verdicts
    BY HeadTailProperties DEF Order, TypeOK
  <2>3. QED
    BY <2>1, <2>2
<1>5. Conclusions = {}
  BY <1>1 DEF Alone
<1>6. QED
  BY <1>1, <1>3, <1>4, <1>5, AskAlone

LEMMA LogInAlone ==
    ASSUME Order, Alone, LogIn
    PROVE  Alone'
<1>1. /\ queue' = <<>> /\ AskFor(queue, asked, handled) /\ called' = called
      /\ urgent' = urgent /\ events' = events
  BY DEF LogIn, channel
<1>2. asked \in Seq(Dispatchers) /\ Len(asked) \in Nat
  BY LenProperties DEF Order, TypeOK
<1>3. CASE queue = <<>>
  <2>1. asked' = asked /\ handled' = handled /\ open' = open
    BY <1>1, <1>2, <1>3, AskForNothing
  <2>2. Conclusions' = Conclusions /\ Requests' = Requests
    BY <1>1, <2>1 DEF Conclusions, Told, Requests
  <2>3. QED
    BY <1>1, <1>3, <2>1, <2>2 DEF Alone, Quiet
<1>4. CASE queue = <<Len(asked)>> /\ Len(asked) < Intervals
  <2>1. Len(asked) \in 0 .. Intervals - 1
    BY ONLY <1>2, <1>4, NumberAssumption
  <2>2. Asks(asked, handled)
    BY <1>1, <1>2, <1>4, <2>1, AskForOne DEF Asks
  <2>3. urgent = <<>> /\ Conclusions = {} /\ \A r \in Requests : asked[r].last # TRUE
    BY <1>4 DEF Alone, Quiet
  <2>4. QED
    BY <1>1, <2>2, <2>3, AskAlone
<1>5. QED
  BY <1>3, <1>4 DEF Order, Chain

LEMMA QuietClientAlone ==
    ASSUME Order, Alone, LogOut \/ Cancel
    PROVE  Alone'
<1>1. /\ UNCHANGED <<queue, asked, open, urgent, called>>
      /\ handled' \subseteq handled
      /\ events' = events \/ events' = Append(events, Outcome("cancelled"))
  BY DEF LogOut, Cancel, WithoutLatest, channel, Outcome
<1>2. Conclusions' = Conclusions
  <2>1. CASE events' = events
    BY <2>1 DEF Conclusions, Told
  <2>2. CASE events' = Append(events, Outcome("cancelled"))
    <3> DEFINE es == <<Outcome("cancelled")>>
    <3>1. Outcome("cancelled") \in Events /\ events \in Seq(Events)
      BY DEF Outcome, Events, Order, TypeOK
    <3>2. es \in Seq(Events) /\ events' = events \o es
      BY <2>2, <3>1, AppendIsConcat
    <3>3. \A i \in 1 .. Len(es) : es[i].type \notin {"completed", "error"}
      BY DEF Outcome
    <3> HIDE DEF es
    <3>4. QED
      BY <3>1, <3>2, <3>3, SameConclusions
  <2>3. QED
    BY <1>1, <2>1, <2>2
<1>3. Requests' = Requests
  BY <1>1 DEF Requests
<1>4. QED
  BY <1>1, <1>2, <1>3 DEF Alone, Quiet

LEMMA RespondAlone ==
    ASSUME Order, Alone, Respond
    PROVE  Alone'
<1>1. PICK r \in open :
          Answer(r) \/ PostRecord(r) \/ PostSuccess(r) \/ PostInvalid(r) \/ PostError(r)
  BY DEF Respond
<1>2. queue' = queue /\ handled' = handled /\ events' = events /\ called' = called
  BY DEF Respond
<1>3. /\ r \in Requests /\ r = Len(asked) /\ queue = <<>> /\ open = {r}
      /\ urgent = <<>> /\ asked \in Seq(Dispatchers) /\ asked[r] \in Dispatchers
  BY ElementOfSeq DEF Order, TypeOK, Chain, Alone, Requests
<1>4. Conclusions' = {}
  BY <1>2, <1>3 DEF Alone, Quiet, Conclusions, Told
<1>5. \A q \in Requests : asked[q].last # TRUE
  BY <1>3 DEF Alone, Quiet
<1>6. CASE Answer(r) \/ PostRecord(r)
  <2>1. PICK e \in {[asked[r] EXCEPT !.total = n] : n \in 1 .. MaxRecords}
                   \cup {[asked[r] EXCEPT !.posted = asked[r].posted + 1]} :
            asked' = [asked EXCEPT ![r] = e]
    BY <1>6 DEF Answer, PostRecord
  <2>2. e.last = asked[r].last
    BY <1>3, <2>1 DEF Dispatchers
  <2>3. Len(asked') = Len(asked) /\ \A q \in Requests : asked'[q].last = asked[q].last
    BY <1>3, <2>1, <2>2 DEF Requests
  <2>4. urgent' = urgent
    BY <1>6 DEF Answer, PostRecord, channel
  <2>5. QED
    BY <1>3, <1>4, <1>5, <2>3, <2>4 DEF Alone, Requests
<1>7. CASE PostSuccess(r) \/ PostInvalid(r) \/ PostError(r)
  <2>1. /\ open' = {} /\ asked' = asked
        /\ \E v \in {Success(r), Error(r, "invalid"), Error(r, "error")} : urgent' = Append(urgent, v)
    BY <1>3, <1>7 DEF PostSuccess, PostInvalid, PostError
  <2>2. PICK v \in {Success(r), Error(r, "invalid"), Error(r, "error")} : urgent' = Append(urgent, v)
    BY <2>1
  <2>3. v.request = r
    BY <2>2 DEF Success, Error
  <2>4. urgent' = <<v>>
    BY <1>3, <2>2
  <2>5. Len(urgent') = 1 /\ Head(urgent').request = Len(asked')
    BY <1>3, <2>1, <2>3, <2>4
  <2>6. QED
    BY <1>2, <1>3, <1>4, <1>5, <2>1, <2>5 DEF Alone, Requests
<1>8. QED
  BY <1>1, <1>6, <1>7

LEMMA LossAlone ==
    ASSUME Order, Alone, LoseTheRest \/ Escape
    PROVE  Alone'
<1>1. /\ UNCHANGED <<queue, asked, handled, called, events>> /\ open' \subseteq open
      /\ \E k \in 0 .. Len(urgent) : urgent' = Rest(urgent, k)
  <2>1. CASE LoseTheRest
    BY <2>1, LossDoes DEF Order
  <2>2. CASE Escape
    <3>1. urgent \in Seq(Verdicts)
      BY DEF Order, TypeOK
    <3>2. Len(urgent) \in Nat /\ urgent = SubSeq(urgent, 0 + 1, Len(urgent))
      BY <3>1
    <3>3. 0 \in 0 .. Len(urgent) /\ urgent = Rest(urgent, 0)
      BY <3>2 DEF Rest
    <3>4. QED
      BY <2>2, <3>3 DEF Escape, channel
  <2>3. QED
    BY <2>1, <2>2
<1>2. PICK k \in 0 .. Len(urgent) : urgent' = Rest(urgent, k)
  BY <1>1
<1>3. urgent' = urgent \/ urgent' = <<>>
  <2>1. urgent \in Seq(Verdicts) /\ Len(urgent) \in {0, 1}
    BY DEF Order, TypeOK, Alone
  <2>2. /\ Len(urgent') = Len(urgent) - k /\ urgent' \in Seq(Verdicts)
        /\ \A i \in 1 .. Len(urgent') : urgent'[i] = urgent[k + i]
    BY <1>2, <2>1, Dropped DEF Rest
  <2>3. CASE k = 0
    BY <2>1, <2>2, <2>3, SeqEqual
  <2>4. CASE k # 0
    BY <2>1, <2>2, <2>4, EmptySeq
  <2>5. QED
    BY <2>3, <2>4
<1>4. Conclusions' = Conclusions /\ Requests' = Requests
  BY <1>1 DEF Conclusions, Told, Requests
<1>5. QED
  BY <1>1, <1>3, <1>4 DEF Alone, Quiet

(* The listener is told one conclusion at most, whatever the API answers,  *)
(* whenever the client is logged out and whenever the call is cancelled,   *)
(* unless a timeout races an answer.                                       *)
THEOREM ConcludesOnce == Spec => []OneConclusion
<1> DEFINE I == timedOut = {} => Alone
<1>1. Init => I
  BY DEF Init, Alone, Quiet, Conclusions, Told, Requests
<1>2. Order /\ I /\ [Next]_vars => I'
  <2> SUFFICES ASSUME Order, I, [Next]_vars, timedOut' = {}
               PROVE  Alone'
    OBVIOUS
  <2>1. timedOut = {}
    BY DEF Next, Call, Cancel, LogIn, LogOut, ReceiveUrgent, ReceiveOrdinary, Respond, Race,
           Answer, PostRecord, PostSuccess, PostInvalid, PostError, RacingTimeout,
           LoseTheRest, Escape, vars
  <2>2. Alone
    BY <2>1
  <2>3. ~Race
    BY DEF Race, RacingTimeout
  <2>4. CASE UNCHANGED vars
    BY <2>2, <2>4 DEF vars, channel, Alone, Quiet, Conclusions, Told, Requests
  <2>5. QED
    BY <2>2, <2>3, <2>4, CallAlone, LogInAlone, QuietClientAlone, UrgentAlone, OrdinaryAlone,
       RespondAlone, LossAlone DEF Next
<1>3. I => OneConclusion
  <2> SUFFICES ASSUME Alone
               PROVE  Cardinality(Conclusions) <= 1
    BY DEF OneConclusion, Conclusions
  <2>1. CASE Conclusions = {}
    BY <2>1, FS_EmptySet
  <2>2. CASE Conclusions # {}
    <3>1. PICK i \in Conclusions : TRUE
      BY <2>2
    <3>2. Conclusions = {i}
      BY <3>1 DEF Alone
    <3>3. QED
      BY <3>2, FS_Singleton
  <2>3. QED
    BY <2>1, <2>2
<1>4. QED
  BY <1>1, <1>2, <1>3, OrderAlways, PTL DEF Spec

-----------------------------------------------------------------------------
(* Why records are told in order: q keeps the order in which they are      *)
(* posted, the latest request is the only one whose records are still to be*)
(* posted, and a dispatcher tells a record at once.                        *)
Posted(e) == e.request \in Requests /\ e.number \in Nat /\ e.number <= asked[e.request].posted

InTime ==
    /\ \A i \in DOMAIN ordinary : Posted(ordinary[i])
    /\ \A i \in Told("record") : Posted(events[i])
    /\ \A i, j \in DOMAIN ordinary : i < j => Earlier(ordinary[i], ordinary[j])
    /\ \A i \in Told("record"), j \in DOMAIN ordinary : Earlier(events[i], ordinary[j])
    /\ RecordsInOrder

(* The counts of the requests made so far stay or grow.                    *)
CountsGrow == \A r \in Requests : r \in Requests' /\ asked[r].posted <= asked'[r].posted

LEMMA CountType ==
    ASSUME TypeOK
    PROVE  \A r \in Requests : asked[r].posted \in Nat
<1>1. asked \in Seq(Dispatchers)
  BY DEF TypeOK
<1>2. \A r \in Requests : asked[r] \in Dispatchers
  BY <1>1, ElementOfSeq DEF Requests
<1>3. \A d \in Dispatchers : d.posted \in Nat
  BY NumberAssumption DEF Dispatchers
<1>4. QED
  BY <1>2, <1>3

LEMMA CountsKept ==
    ASSUME TypeOK, Len(asked') = Len(asked), \A r \in Requests : asked'[r].posted = asked[r].posted
    PROVE  CountsGrow
<1>1. \A r \in Requests : asked[r].posted \in Nat
  BY CountType
<1>2. Requests' = Requests
  BY DEF Requests
<1>3. QED
  BY <1>1, <1>2 DEF CountsGrow

LEMMA CountsOfNext ==
    ASSUME TypeOK, NEW ds, Shape(ds), \A r \in Requests : ds[r].posted = asked[r].posted,
           NEW hs, Asks(ds, hs) \/ Queues(ds, hs)
    PROVE  CountsGrow
<1>0. /\ Len(asked) \in Nat /\ Len(asked) < Intervals
      /\ ds \in Seq(Dispatchers) /\ Len(ds) = Len(asked)
  BY LenProperties DEF TypeOK, Asks, Queues, Shape
<1>1. CASE Asks(ds, hs)
  <2>1. asked' = Append(ds, Dispatcher(Len(asked)))
    BY <1>1 DEF Asks
  <2>2. Len(asked) \in 0 .. Intervals - 1
    BY ONLY <1>0, NumberAssumption
  <2>3. Dispatcher(Len(asked)) \in Dispatchers
    BY <2>2, DispatcherType
  <2>4. Len(asked') = Len(asked) + 1 /\ \A r \in 1 .. Len(asked) : asked'[r] = ds[r]
    BY ONLY <1>0, <2>1, <2>3, AppendProperties
  <2>5. \A r \in 1 .. Len(asked) : r \in 1 .. Len(asked')
    BY ONLY <1>0, <2>4
  <2>6. \A r \in Requests : asked[r].posted \in Nat
    BY CountType
  <2>7. QED
    BY <2>4, <2>5, <2>6 DEF CountsGrow, Requests
<1>2. CASE Queues(ds, hs)
  BY <1>0, <1>2, CountsKept DEF Queues, Keeps, Shape
<1>3. QED
  BY <1>1, <1>2

PostedNext(e) ==
    e.request \in Requests' /\ e.number \in Nat /\ e.number <= asked'[e.request].posted

LEMMA PostedStays ==
    ASSUME TypeOK, TypeOK', CountsGrow, NEW e, Posted(e)
    PROVE  PostedNext(e)
<1>1. /\ e.request \in Requests /\ e.request \in Requests'
      /\ asked[e.request].posted <= asked'[e.request].posted
  BY DEF CountsGrow, Posted
<1>2. \A r \in Requests' : asked'[r].posted \in Nat
  <2>1. asked' \in Seq(Dispatchers)
    BY DEF TypeOK, Dispatchers
  <2>2. \A r \in Requests' : asked'[r] \in Dispatchers
    BY <2>1, ElementOfSeq DEF Requests
  <2>3. \A d \in Dispatchers : d.posted \in Nat
    BY NumberAssumption DEF Dispatchers
  <2>4. QED
    BY <2>2, <2>3
<1>3. asked[e.request].posted \in Nat /\ asked'[e.request].posted \in Nat
  BY <1>1, <1>2, CountType
<1>4. QED
  BY <1>1, <1>3 DEF Posted, PostedNext

(* A step that tells no record and posts none.                             *)
LEMMA InTimeKept ==
    ASSUME TypeOK, TypeOK', InTime, CountsGrow,
           \/ ordinary' = ordinary
           \/ ordinary # <<>> /\ ordinary' = Tail(ordinary)
           \/ \E k \in 0 .. Len(ordinary) : ordinary' = Rest(ordinary, k),
           Told("record")' = Told("record"), \A i \in Told("record") : events'[i] = events[i]
    PROVE  InTime'
<1>1. \A i \in Told("record")' : PostedNext(events'[i])
  <2>1. \A i \in Told("record")' : Posted(events[i]) /\ events'[i] = events[i]
    BY DEF InTime
  <2>2. QED
    BY <2>1, PostedStays
<1>2. RecordsInOrder'
  BY DEF InTime, RecordsInOrder, Earlier
<1>3. CASE ordinary' = ordinary
  <2>1. \A i \in DOMAIN ordinary' : PostedNext(ordinary'[i])
    BY <1>3, PostedStays DEF InTime
  <2>2. QED
    BY <1>1, <1>2, <1>3, <2>1 DEF InTime, Posted, PostedNext, Earlier
<1>4. ASSUME NEW n \in Nat, DOMAIN ordinary' \subseteq Int,
             \A i \in DOMAIN ordinary' : n + i \in DOMAIN ordinary /\ ordinary'[i] = ordinary[n + i]
      PROVE  InTime'
  <2>2. \A i, j \in DOMAIN ordinary' : i < j => n + i < n + j
    BY ONLY <1>4
  <2>3. \A i \in DOMAIN ordinary' : Posted(ordinary'[i])
    BY <1>4 DEF InTime
  <2>4. \A i \in DOMAIN ordinary' : PostedNext(ordinary'[i])
    BY <2>3, PostedStays
  <2>5. \A i, j \in DOMAIN ordinary' : i < j => Earlier(ordinary'[i], ordinary'[j])
    BY <1>4, <2>2 DEF InTime
  <2>6. \A i \in Told("record")', j \in DOMAIN ordinary' : Earlier(events'[i], ordinary'[j])
    BY <1>4 DEF InTime
  <2>7. QED
    BY <1>1, <1>2, <2>4, <2>5, <2>6 DEF InTime, Posted, PostedNext, Earlier
<1>5. CASE ordinary # <<>> /\ ordinary' = Tail(ordinary)
  <2>1. /\ DOMAIN ordinary' \subseteq Int
        /\ \A i \in DOMAIN ordinary' : i + 1 \in DOMAIN ordinary /\ ordinary'[i] = ordinary[i + 1]
    <3>1. ordinary \in Seq(Records)
      BY DEF TypeOK
    <3>2. QED
      BY <1>5, <3>1, HeadAndTail
  <2>2. \A i \in DOMAIN ordinary' : i + 1 = 1 + i
    BY ONLY <2>1
  <2>3. QED
    BY <1>4, <2>1, <2>2
<1>6. CASE \E k \in 0 .. Len(ordinary) : ordinary' = Rest(ordinary, k)
  <2>1. PICK k \in 0 .. Len(ordinary) : ordinary' = Rest(ordinary, k)
    BY <1>6
  <2>2. ordinary \in Seq(Records)
    BY DEF TypeOK
  <2>3. /\ k \in Nat /\ DOMAIN ordinary' \subseteq Int
        /\ \A i \in DOMAIN ordinary' : k + i \in DOMAIN ordinary /\ ordinary'[i] = ordinary[k + i]
    BY <2>1, <2>2, RestOf
  <2>4. QED
    BY <1>4, <2>3
<1>7. QED
  BY <1>3, <1>5, <1>6

LEMMA ReceiveInTime ==
    ASSUME Order, TypeOK', InTime, NEW m, Reachable(m), Receive(m),
           \/ ordinary' = ordinary /\ m.type # "record"
           \/ ordinary # <<>> /\ m = Head(ordinary) /\ ordinary' = Tail(ordinary)
    PROVE  InTime'
<1>0. TypeOK /\ events \in Seq(Events)
  BY DEF Order, TypeOK
<1>1. CASE m.request \notin handled /\ UNCHANGED <<queue, asked, handled, request, open, events>>
  BY <1>0, <1>1, CountsKept, InTimeKept DEF Told
<1>2. CASE m.request \in handled /\ m.type = "error" /\ TellsError(m)
           /\ handled' = handled \ {m.request} /\ UNCHANGED <<queue, asked, request, open>>
  <2> DEFINE es == <<Outcome("error")>>
  <2>1. Outcome("error") \in Events
    BY DEF Events, Outcome
  <2>2. es \in Seq(Events) /\ events' = events \o es
    BY <1>0, <1>2, <2>1, AppendIsConcat DEF TellsError
  <2>3. \A i \in 1 .. Len(es) : es[i].type # "record"
    BY DEF Outcome
  <2> HIDE DEF es
  <2>4. /\ Told("record")' = Told("record")
        /\ \A i \in Told("record") : events'[i] = events[i]
    BY <1>0, <2>2, <2>3, ToldKept, ToldGrows
  <2>5. CountsGrow
    BY <1>0, <1>2, CountsKept
  <2>6. QED
    BY <1>0, <2>4, <2>5, InTimeKept
<1>3. CASE m.request \in handled /\ \E ds, completes :
               completes \in BOOLEAN /\ Dispatched(m, ds, completes)
  <2>1. PICK ds, completes : completes \in BOOLEAN /\ Dispatched(m, ds, completes)
    BY <1>3
  <2> DEFINE es == TellsRecord(m) \o TellsCompleted(completes)
  <2>2. /\ events' = events \o es /\ es \in Seq(Events)
        /\ \A i \in 1 .. Len(es) : es[i].type = "record" => m.type = "record" /\
              i = 1 /\ es[i].request = m.request /\ es[i].number = m.number
    <3>1. Tells(m, completes)
      BY <2>1 DEF Dispatched
    <3>2. QED
      BY <1>3, <2>1, <3>1, TellsTypes
  <2> HIDE DEF es
  <2>3. CountsGrow
    <3>1. Shape(ds) /\ \A r \in Requests : ds[r].posted = asked[r].posted
      BY <2>1 DEF Dispatched
    <3>2. CASE Keeps(ds, Handlers(m, completes))
      BY <1>0, <3>1, <3>2, CountsKept DEF Keeps, Shape
    <3>3. CASE Asks(ds, handled) \/ Queues(ds, handled)
      BY <1>0, <3>1, <3>3, CountsOfNext
    <3>4. QED
      BY <2>1, <3>2, <3>3 DEF Dispatched
  <2>4. \A i \in Told("record") : events'[i] = events[i] /\ i \in 1 .. Len(events)
    BY <1>0, <2>2, ToldGrows
  <2>5. CASE m.type # "record"
    <3>1. Told("record")' = Told("record")
      BY <1>0, <2>2, <2>5, ToldKept
    <3>2. QED
      BY <1>0, <2>3, <2>4, <3>1, InTimeKept
  <2>6. CASE m.type = "record"
    <3>1. ordinary # <<>> /\ m = Head(ordinary) /\ ordinary' = Tail(ordinary)
      BY <2>6
    <3>2. /\ 1 \in DOMAIN ordinary /\ m = ordinary[1]
          /\ DOMAIN ordinary' \subseteq Int
          /\ \A i \in DOMAIN ordinary' : i + 1 \in DOMAIN ordinary /\ 1 < i + 1
                                        /\ ordinary'[i] = ordinary[i + 1]
      <4>1. ordinary \in Seq(Records)
        BY <1>0 DEF TypeOK
      <4>2. /\ Len(ordinary) \in Nat /\ 1 \in DOMAIN ordinary /\ m = ordinary[1]
            /\ DOMAIN ordinary' = 1 .. Len(ordinary) - 1
            /\ \A i \in DOMAIN ordinary' : i + 1 \in DOMAIN ordinary /\ ordinary'[i] = ordinary[i + 1]
        BY <3>1, <4>1, HeadAndTail
      <4>3. QED
        BY <4>2
    <3>3. Posted(m) /\ \A i \in DOMAIN ordinary' : Posted(ordinary'[i])
      BY <3>2 DEF InTime
    <3>4. /\ \A i \in Told("record") : Earlier(events[i], m)
          /\ \A i \in DOMAIN ordinary' : Earlier(m, ordinary'[i])
      BY <3>2 DEF InTime
    <3>5. Told("record")' \subseteq Int
      <4>1. events' \in Seq(Events')
        BY DEF TypeOK
      <4>2. QED
        BY <4>1, LenProperties DEF Told
    <3>6. /\ Told("record") \subseteq Told("record")' /\ Len(events) \in Nat
          /\ \A i \in Told("record")' \ Told("record") :
                i - Len(events) \in 1 .. Len(es) /\ events'[i] = es[i - Len(events)]
                /\ es[i - Len(events)].type = "record"
      <4>1. events' = events \o es /\ es \in Seq(Events)
        BY <2>2
      <4>2. Told("record") \subseteq Told("record")' /\ Len(events) \in Nat
        BY ONLY <1>0, <4>1, ToldGrows
      <4>3. \A i \in Told("record")' \ Told("record") : i - Len(events) \in 1 .. Len(es)
        BY ONLY <1>0, <4>1, ToldGrows
      <4>4. ASSUME NEW i \in Told("record")' \ Told("record")
            PROVE  events'[i] = es[i - Len(events)]
        <5>1. /\ Len(events) \in Nat /\ Len(es) \in Nat
              /\ \A k \in Len(events) + 1 .. Len(events) + Len(es) :
                    events'[k] = es[k - Len(events)]
          BY ONLY <1>0, <4>1, ConcatProperties, LenProperties
        <5>2. i \in Int /\ i - Len(events) \in 1 .. Len(es)
          BY ONLY <3>5, <4>3, <4>4
        <5>3. i \in Len(events) + 1 .. Len(events) + Len(es)
          BY ONLY <5>1, <5>2
        <5>4. QED
          BY ONLY <5>1, <5>3
      <4>5. \A i \in Told("record")' \ Told("record") : es[i - Len(events)].type = "record"
        BY ONLY <1>0, <4>1, ToldGrows
      <4>6. QED
        BY ONLY <4>2, <4>3, <4>4, <4>5
    <3>7. \A i \in Told("record")' \ Told("record") :
              /\ i = Len(events) + 1
              /\ events'[i].request = m.request /\ events'[i].number = m.number
      <4> SUFFICES ASSUME NEW i \in Told("record")' \ Told("record")
                   PROVE  /\ i = Len(events) + 1
                          /\ events'[i].request = m.request /\ events'[i].number = m.number
        OBVIOUS
      <4>1. i - Len(events) = 1 /\ events'[i] = es[i - Len(events)]
        BY <2>2, <3>6
      <4>2. i = Len(events) + 1
        BY <3>6, <3>5, <4>1
      <4>3. QED
        BY <2>2, <3>6, <4>1, <4>2
    <3>8. \A i \in Told("record")' : PostedNext(events'[i])
      <4>1. PostedNext(m)
        BY <1>0, <2>3, <3>3, PostedStays
      <4>2. \A i \in Told("record") : PostedNext(events[i])
        BY <1>0, <2>3, PostedStays DEF InTime
      <4>3. QED
        BY <2>4, <3>7, <4>1, <4>2 DEF PostedNext
    <3>9. \A i \in DOMAIN ordinary' : PostedNext(ordinary'[i])
      BY <1>0, <2>3, <3>3, PostedStays
    <3>10. \A i, j \in DOMAIN ordinary' : i < j => Earlier(ordinary'[i], ordinary'[j])
      <4>1. \A i, j \in DOMAIN ordinary' : i < j => i + 1 < j + 1
        BY ONLY <3>2
      <4>2. QED
        BY <3>2, <4>1 DEF InTime
    <3>11. \A i \in Told("record")', j \in DOMAIN ordinary' : Earlier(events'[i], ordinary'[j])
      <4>1. \A i \in Told("record"), j \in DOMAIN ordinary' : Earlier(events[i], ordinary'[j])
        BY <3>2 DEF InTime
      <4>2. \A i \in Told("record")' \ Told("record"), j \in DOMAIN ordinary' :
                Earlier(events'[i], ordinary'[j])
        BY <3>4, <3>7 DEF Earlier
      <4>3. QED
        BY <2>4, <4>1, <4>2
    <3>12. \A i, j \in Told("record")' : i < j => Earlier(events'[i], events'[j])
      <4> SUFFICES ASSUME NEW i \in Told("record")', NEW j \in Told("record")', i < j
                   PROVE  Earlier(events'[i], events'[j])
        OBVIOUS
      <4>1. CASE i \in Told("record") /\ j \in Told("record")
        BY <2>4, <4>1 DEF InTime, RecordsInOrder
      <4>2. CASE i \in Told("record") /\ j \notin Told("record")
        BY <2>4, <3>4, <3>7, <4>2 DEF Earlier
      <4>3. CASE i \notin Told("record")
        <5>1. i = Len(events) + 1 /\ j \in 1 .. Len(events) + 1
          BY <2>4, <3>6, <3>7, <4>3
        <5>2. QED
          BY ONLY <3>6, <5>1, i < j
      <4>4. QED
        BY <4>1, <4>2, <4>3
    <3>13. QED
      BY <3>8, <3>9, <3>10, <3>11, <3>12
         DEF InTime, RecordsInOrder, Posted, PostedNext, Earlier
  <2>7. QED
    BY <2>5, <2>6
<1>4. QED
  BY <1>1, <1>2, <1>3, ReceiveTells

LEMMA PostInTime ==
    ASSUME Order, TypeOK', InTime, Respond
    PROVE  InTime'
<1>1. PICK r \in open :
          Answer(r) \/ PostRecord(r) \/ PostSuccess(r) \/ PostInvalid(r) \/ PostError(r)
  BY DEF Respond
<1>2. /\ TypeOK /\ events' = events /\ Told("record")' = Told("record")
      /\ r \in Requests /\ r = Len(asked)
      /\ asked \in Seq(Dispatchers) /\ asked[r] \in Dispatchers
  BY ElementOfSeq DEF Respond, Told, Order, TypeOK, Chain, Requests
<1>3. CASE Answer(r) \/ PostSuccess(r) \/ PostInvalid(r) \/ PostError(r)
  <2>1. /\ ordinary' = ordinary
        /\ asked' = asked \/ \E n \in 1 .. MaxRecords : asked' = [asked EXCEPT ![r].total = n]
    BY <1>3 DEF Answer, PostSuccess, PostInvalid, PostError, channel
  <2>2. Len(asked') = Len(asked) /\ \A q \in Requests : asked'[q].posted = asked[q].posted
    <3>1. CASE asked' = asked
      BY ONLY <3>1
    <3>2. CASE \E n \in 1 .. MaxRecords : asked' = [asked EXCEPT ![r].total = n]
      <4>1. PICK n \in 1 .. MaxRecords : asked' = [asked EXCEPT ![r].total = n]
        BY <3>2
      <4>2. DOMAIN asked = Requests /\ Len(asked) \in Nat /\ Len(asked') = Len(asked)
        BY ONLY <1>2, <4>1, LenProperties, ExceptSeq DEF Requests
      <4>3. \A q \in Requests : q # r => asked'[q] = asked[q]
        BY ONLY <4>1, <4>2
      <4>4. asked'[r] = [asked[r] EXCEPT !.total = n]
        BY ONLY <1>2, <4>1, <4>2
      <4>5. asked'[r].posted = asked[r].posted
        BY ONLY <1>2, <4>4 DEF Dispatchers
      <4>6. QED
        BY ONLY <4>2, <4>3, <4>5
    <3>3. QED
      BY <2>1, <3>1, <3>2
  <2>3. QED
    BY <1>2, <2>1, <2>2, CountsKept, InTimeKept
<1>4. CASE PostRecord(r)
  <2> DEFINE k == asked[r].posted + 1
             m == Record(r, k, k = asked[r].total)
  <2>1. k \in Nat /\ asked[r].posted \in Nat /\ asked[r].posted < k /\ Len(asked) \in Nat
    <3>1. asked[r].posted \in Nat
      BY <1>2, CountType
    <3>2. QED
      BY <1>2, <3>1, LenProperties
  <2>2. /\ asked' = [asked EXCEPT ![r].posted = k] /\ Len(asked') = Len(asked)
        /\ asked'[r].posted = k
        /\ \A q \in Requests : q # r => asked'[q].posted = asked[q].posted
    BY <1>2, <1>4 DEF PostRecord, Requests, Dispatchers
  <2>3. ordinary' = Append(ordinary, m)
    BY <1>4, <2>2 DEF PostRecord
  <2>4. m.request = r /\ m.number = k /\ m.type = "record"
    BY DEF Record
  <2> HIDE DEF k, m
  <2>5. CountsGrow
    BY <1>2, <2>1, <2>2, CountType DEF CountsGrow, Requests
  <2>6. PostedNext(m)
    BY <1>2, <2>1, <2>2, <2>4 DEF PostedNext, Requests
  <2>7. \A e : Posted(e) => Earlier(e, m)
    <3> SUFFICES ASSUME NEW e, Posted(e)
                 PROVE  Earlier(e, m)
      OBVIOUS
    <3>1. e.request \in 1 .. Len(asked) /\ e.number \in Nat /\ e.number <= asked[e.request].posted
      BY DEF Posted, Requests
    <3>2. CASE e.request = r
      BY <2>1, <2>4, <3>1, <3>2 DEF Earlier
    <3>3. CASE e.request # r
      BY <1>2, <2>1, <2>4, <3>1, <3>3 DEF Earlier
    <3>4. QED
      BY <3>2, <3>3
  <2>8. /\ Len(ordinary) \in Nat /\ DOMAIN ordinary = 1 .. Len(ordinary)
        /\ DOMAIN ordinary' = 1 .. Len(ordinary) + 1
        /\ \A i \in 1 .. Len(ordinary) : ordinary'[i] = ordinary[i]
        /\ ordinary'[Len(ordinary) + 1] = m
    <3>1. ordinary \in Seq(Records) /\ ordinary' \in Seq(Records')
      BY <1>2 DEF TypeOK
    <3>2. QED
      BY <2>3, <3>1, LenProperties
  <2>9. \A i \in DOMAIN ordinary' : i \in DOMAIN ordinary \/ i = Len(ordinary) + 1
    BY ONLY <2>8
  <2>10. \A i \in DOMAIN ordinary' : PostedNext(ordinary'[i])
    <3>1. \A i \in DOMAIN ordinary : PostedNext(ordinary[i])
      BY <1>2, <2>5, PostedStays DEF InTime
    <3>2. QED
      BY <2>6, <2>8, <2>9, <3>1
  <2>11. \A i \in Told("record")' : PostedNext(events'[i])
    BY <1>2, <2>5, PostedStays DEF InTime
  <2>12. \A i, j \in DOMAIN ordinary' : i < j => Earlier(ordinary'[i], ordinary'[j])
    <3> SUFFICES ASSUME NEW i \in DOMAIN ordinary', NEW j \in DOMAIN ordinary', i < j
                 PROVE  Earlier(ordinary'[i], ordinary'[j])
      OBVIOUS
    <3>1. i \in DOMAIN ordinary
      BY ONLY <2>8, i \in DOMAIN ordinary', j \in DOMAIN ordinary', i < j
    <3>2. CASE j \in DOMAIN ordinary
      BY <2>8, <3>1, <3>2 DEF InTime
    <3>3. CASE j = Len(ordinary) + 1
      BY <2>7, <2>8, <3>1, <3>3 DEF InTime
    <3>4. QED
      BY <2>9, <3>2, <3>3
  <2>13. \A i \in Told("record")', j \in DOMAIN ordinary' : Earlier(events'[i], ordinary'[j])
    <3> SUFFICES ASSUME NEW i \in Told("record"), NEW j \in DOMAIN ordinary'
                 PROVE  Earlier(events[i], ordinary'[j])
      BY <1>2
    <3>1. CASE j \in DOMAIN ordinary
      BY <2>8, <3>1 DEF InTime
    <3>2. CASE j = Len(ordinary) + 1
      BY <2>7, <2>8, <3>2 DEF InTime
    <3>3. QED
      BY <2>9, <3>1, <3>2
  <2>14. RecordsInOrder'
    BY <1>2 DEF InTime, RecordsInOrder, Earlier
  <2>15. QED
    BY <2>10, <2>11, <2>12, <2>13, <2>14 DEF InTime, Posted, PostedNext, Earlier
<1>5. QED
  BY <1>1, <1>3, <1>4

LEMMA ClientInTime ==
    ASSUME Order, TypeOK', InTime, Call \/ LogIn \/ LogOut \/ Cancel \/ Race
    PROVE  InTime'
<1>0. /\ TypeOK /\ events \in Seq(Events) /\ Shape(asked)
      /\ asked \in Seq(Dispatchers) /\ Len(asked) \in Nat
  BY SameShape, LenProperties DEF Order, TypeOK
<1>1. ordinary' = ordinary
  BY DEF Call, LogIn, LogOut, Cancel, Race, RacingTimeout, channel
<1>2. /\ Told("record")' = Told("record")
      /\ \A i \in Told("record") : events'[i] = events[i]
  <2>1. CASE events' = events
    BY <2>1 DEF Told
  <2>2. CASE events' = Append(events, Outcome("cancelled"))
    <3> DEFINE es == <<Outcome("cancelled")>>
    <3>1. Outcome("cancelled") \in Events
      BY DEF Events, Outcome
    <3>2. es \in Seq(Events) /\ events' = events \o es
      BY <1>0, <2>2, <3>1, AppendIsConcat
    <3>3. \A i \in 1 .. Len(es) : es[i].type # "record"
      BY DEF Outcome
    <3> HIDE DEF es
    <3>4. Told("record")' = Told("record")
      BY ONLY <1>0, <3>2, <3>3, ToldKept
    <3>5. \A i \in Told("record") : events'[i] = events[i]
      BY ONLY <1>0, <3>2, ToldGrows
    <3>6. QED
      BY <3>4, <3>5
  <2>3. QED
    BY <2>1, <2>2 DEF Call, LogIn, LogOut, Cancel, Race, Outcome
<1>3. CountsGrow
  <2>1. CASE asked' = asked
    BY <1>0, <2>1, CountsKept
  <2>2. CASE Call
    <3>1. queue = <<>> /\ Len(asked) = 0 /\ requestTicks(Len(asked), asked, handled)
      BY <2>2 DEF Call, Order, Chain
    <3>2. \/ Asks(asked, handled) \/ Queues(asked, handled)
          \/ Keeps(asked, handled)
      BY <1>0, <3>1, NextTicks
    <3>3. QED
      BY <1>0, <2>1, <3>2, CountsOfNext DEF Keeps
  <2>3. CASE LogIn
    <3>1. CASE queue = <<>>
      BY <1>0, <2>1, <2>3, <3>1, AskForNothing DEF LogIn
    <3>2. CASE queue = <<Len(asked)>> /\ Len(asked) < Intervals
      <4>1. Len(asked) \in 0 .. Intervals - 1
        BY ONLY <1>0, <3>2, NumberAssumption
      <4>2. Asks(asked, handled)
        BY <1>0, <2>3, <3>2, <4>1, AskForOne DEF Asks, LogIn
      <4>3. QED
        BY <1>0, <4>2, CountsOfNext
    <3>3. QED
      BY <3>1, <3>2 DEF Order, Chain
  <2>4. QED
    BY <2>1, <2>2, <2>3 DEF LogOut, Cancel, Race, RacingTimeout
<1>4. QED
  BY <1>0, <1>1, <1>2, <1>3, InTimeKept

LEMMA LossInTime ==
    ASSUME Order, TypeOK', InTime, LoseTheRest \/ Escape
    PROVE  InTime'
<1>1. TypeOK
  BY DEF Order
<1>2. /\ asked' = asked /\ events' = events
      /\ ordinary' = ordinary \/ \E k \in 0 .. Len(ordinary) : ordinary' = Rest(ordinary, k)
  <2>1. CASE LoseTheRest
    BY <1>1, <2>1, LossDoes
  <2>2. CASE Escape
    BY <2>2 DEF Escape, channel
  <2>3. QED
    BY <2>1, <2>2
<1>3. Told("record")' = Told("record") /\ CountsGrow
  BY <1>1, <1>2, CountsKept DEF Told
<1>4. QED
  BY <1>1, <1>2, <1>3, InTimeKept

LEMMA InTimeAlways == Spec => []InTime
<1>1. Init => InTime
  BY DEF Init, InTime, Told, RecordsInOrder
<1>2. Order /\ TypeOK' /\ InTime /\ [Next]_vars => InTime'
  <2> SUFFICES ASSUME Order, TypeOK', InTime, [Next]_vars
               PROVE  InTime'
    OBVIOUS
  <2>1. CASE ReceiveUrgent
    <3> DEFINE m == Head(urgent)
    <3>1. urgent # <<>> /\ Receive(m) /\ ordinary' = ordinary
      BY <2>1 DEF ReceiveUrgent
    <3>2. m \in Verdicts
      BY <3>1, HeadTailProperties DEF Order, TypeOK
    <3>3. Continues(m) => m.request = Len(asked) /\ queue = <<>> /\ open = {}
      BY <2>1, <3>1, HeadIsSingle DEF Order, ReceiveUrgent
    <3> HIDE DEF m
    <3>4. Reachable(m) /\ m.type # "record"
      BY <3>2, <3>3 DEF Reachable, Verdicts
    <3>5. QED
      BY <3>1, <3>4, ReceiveInTime
  <2>2. CASE ReceiveOrdinary
    <3>1. ordinary # <<>> /\ Receive(Head(ordinary)) /\ ordinary' = Tail(ordinary)
      BY <2>2 DEF ReceiveOrdinary
    <3>2. Head(ordinary) \in Records
      BY <3>1, HeadTailProperties DEF Order, TypeOK
    <3>3. Reachable(Head(ordinary))
      BY <3>2 DEF Reachable, Records, Continues
    <3>4. QED
      BY <3>1, <3>3, ReceiveInTime
  <2>3. CASE UNCHANGED vars
    <3>1. /\ ordinary' = ordinary /\ events' = events /\ asked' = asked
          /\ Told("record")' = Told("record") /\ TypeOK
      BY <2>3 DEF vars, channel, Told, Order
    <3>2. QED
      BY <3>1, CountsKept, InTimeKept
  <2>4. QED
    BY <2>1, <2>2, <2>3, PostInTime, ClientInTime, LossInTime DEF Next
<1>3. Order => TypeOK
  BY DEF Order
<1>4. QED
  BY <1>1, <1>2, <1>3, OrderAlways, PTL DEF Spec

(* The listener gets the records in the order of time, whatever overtakes  *)
(* them.                                                                   *)
THEOREM ToldInOrder == Spec => []RecordsInOrder
<1>1. InTime => RecordsInOrder
  BY DEF InTime
<1>2. QED
  BY <1>1, InTimeAlways, PTL

-----------------------------------------------------------------------------
(* Why "completed" means all.  The last interval is known to be the last   *)
(* only when its request is answered, and its dispatcher has ended only    *)
(* with the last of its records, behind which q holds no other.            *)
LastTold(r) ==
    \E i \in Told("record") : events[i].request = r /\ events[i].number = asked[r].total

Ends ==
    /\ \A r \in Requests : asked[r].last => open = {}
    /\ \A r \in Requests : asked[r].ended => (asked[r].total = 0 /\ r \notin open) \/ LastTold(r)
    /\ \A j \in DOMAIN ordinary :
          ordinary[j].end => ordinary[j].number = asked[ordinary[j].request].total
    /\ \A i \in DOMAIN urgent :
          /\ urgent[i].type = "success" => ~urgent[i].end
          /\ urgent[i].type = "invalid" =>
                asked[urgent[i].request].total = 0 /\ urgent[i].request \notin open
    /\ Told("completed") # {} => Len(asked) = Intervals /\ open = {}

(* As long as neither an error nor the cancellation is told, no record is  *)
(* lost: what was posted has been told or is still in q, and a request     *)
(* whose dispatcher is gone has completed and has no record left.          *)
Calm == Told("error") = {} /\ Told("cancelled") = {}
Waits(r, n) == \E j \in DOMAIN ordinary : ordinary[j].request = r /\ ordinary[j].number = n
ToldAlready(r, n) == \E i \in Told("record") : events[i].request = r /\ events[i].number = n

Whole ==
    /\ \A r \in Requests : \A n \in 1 .. asked[r].posted : Waits(r, n) \/ ToldAlready(r, n)
    /\ \A r \in Requests : r \notin handled =>
          Told("completed") # {} /\ \A j \in DOMAIN ordinary : ordinary[j].request # r

(* CompletedMeansAll, record by record.                                    *)
CalmBefore(k) == \A i \in Told("error") \cup Told("cancelled") : k < i
ToldBefore(k, r, n) ==
    \E i \in Told("record") : i < k /\ events[i].request = r /\ events[i].number = n
AllTold ==
    \A k \in Told("completed") : ~LastIsInvalid /\ CalmBefore(k) =>
        \A r \in Requests : \A n \in 1 .. asked[r].posted : ToldBefore(k, r, n)

Full == Ends /\ (Calm => Whole) /\ AllTold

(* How a step of the client disturbs the dispatchers there are, ds being   *)
(* what it does to them besides.                                           *)
Grown(ds, hs) ==
    /\ Requests \subseteq Requests' /\ Len(asked') \in Nat
    /\ \A r \in Requests : asked'[r] = ds[r]
    /\ \A r \in Requests' : r \notin Requests =>
          /\ r \in handled' /\ ~asked'[r].ended /\ ~asked'[r].last
          /\ asked'[r].total = 0 /\ asked'[r].posted = 0
    /\ hs \subseteq handled'
    /\ \A r \in Requests : r \in open' => r \in open
    /\ Len(asked) = Intervals => Len(asked') = Len(asked) /\ Requests' = Requests /\ open' = open

LEMMA StepGrows ==
    ASSUME TypeOK, NEW ds, Shape(ds), NEW hs, Asks(ds, hs) \/ Queues(ds, hs) \/ Keeps(ds, hs)
    PROVE  Grown(ds, hs)
<1>0. /\ Len(asked) \in Nat /\ ds \in Seq(Dispatchers) /\ Len(ds) = Len(asked)
      /\ Requests = 1 .. Len(asked)
  BY LenProperties DEF TypeOK, Shape, Requests
<1>1. CASE Asks(ds, hs)
  <2>1. /\ asked' = Append(ds, Dispatcher(Len(asked))) /\ Len(asked) < Intervals
        /\ handled' = hs \cup {Len(asked) + 1} /\ open' \subseteq open \cup {Len(asked) + 1}
    BY <1>1 DEF Asks
  <2>2. Dispatcher(Len(asked)) \in Dispatchers
    <3>1. Len(asked) \in 0 .. Intervals - 1
      BY ONLY <1>0, <2>1, NumberAssumption
    <3>2. QED
      BY <3>1, DispatcherType
  <2>3. /\ Len(asked') = Len(asked) + 1 /\ \A r \in 1 .. Len(asked) : asked'[r] = ds[r]
        /\ asked'[Len(asked) + 1] = Dispatcher(Len(asked))
    BY ONLY <1>0, <2>1, <2>2, AppendProperties
  <2>4. Requests' = 1 .. Len(asked) + 1
    BY <2>3 DEF Requests
  <2>5. /\ Requests \subseteq Requests' /\ Len(asked') \in Nat
        /\ \A r \in Requests' : r \notin Requests => r = Len(asked) + 1
        /\ \A r \in Requests : r # Len(asked) + 1
        /\ Len(asked) # Intervals
    BY ONLY <1>0, <2>1, <2>3, <2>4, NumberAssumption
  <2>6. LET d == Dispatcher(Len(asked))
        IN  ~d.ended /\ ~d.last /\ d.total = 0 /\ d.posted = 0
    BY DEF Dispatcher
  <2>7. QED
    BY <1>0, <2>1, <2>3, <2>5, <2>6 DEF Grown
<1>2. CASE Queues(ds, hs) \/ Keeps(ds, hs)
  <2>1. asked' = ds /\ handled' = hs /\ open' = open
    BY <1>2 DEF Queues, Keeps
  <2>2. Requests' = Requests /\ Len(asked') = Len(asked)
    BY <1>0, <2>1 DEF Requests
  <2>3. QED
    BY <1>0, <2>1, <2>2 DEF Grown
<1>3. QED
  BY <1>1, <1>2

(* The messages on their way are those there were, or an error more.       *)
NoNewMessage ==
    /\ \A j \in DOMAIN ordinary' : \E i \in DOMAIN ordinary : ordinary'[j] = ordinary[i]
    /\ \A j \in DOMAIN urgent' :
          urgent'[j].type = "error" \/ \E i \in DOMAIN urgent : urgent'[j] = urgent[i]

LEMMA EndsKept ==
    ASSUME Order, Ends, NEW ds, Shape(ds), NEW hs, Grown(ds, hs), NoNewMessage,
           \A r \in Requests : ds[r].total = asked[r].total /\ (ds[r].last => open = {}),
           \A r \in Requests : ds[r].ended =>
              \/ asked[r].total = 0 /\ r \notin open
              \/ \E i \in Told("record")' :
                    events'[i].request = r /\ events'[i].number = asked[r].total,
           Told("completed")' # {} => Len(asked) = Intervals /\ open = {}
    PROVE  Ends'
<1>0. /\ Len(asked) \in Nat /\ Len(asked) <= Intervals /\ Requests = 1 .. Len(asked)
      /\ \A r \in Requests : asked'[r].total = asked[r].total
  BY LenProperties DEF Order, TypeOK, Requests, Grown
<1>1. \A r \in Requests' : asked'[r].last => open' = {}
  <2> SUFFICES ASSUME NEW r \in Requests', asked'[r].last
               PROVE  open' = {}
    OBVIOUS
  <2>1. r \in Requests /\ ds[r].last /\ open = {}
    BY DEF Grown
  <2>2. r = Intervals
    BY <2>1 DEF Shape
  <2>3. Len(asked) = Intervals
    BY ONLY <1>0, <2>1, <2>2, NumberAssumption
  <2>4. QED
    BY <2>1, <2>3 DEF Grown
<1>2. \A r \in Requests' : asked'[r].ended =>
          (asked'[r].total = 0 /\ r \notin open') \/ LastTold(r)'
  <2> SUFFICES ASSUME NEW r \in Requests', asked'[r].ended
               PROVE  (asked'[r].total = 0 /\ r \notin open') \/ LastTold(r)'
    OBVIOUS
  <2>1. r \in Requests /\ ds[r].ended /\ asked'[r].total = asked[r].total
    BY <1>0 DEF Grown
  <2>2. QED
    BY <2>1 DEF Grown, LastTold
<1>3. \A j \in DOMAIN ordinary' :
          ordinary'[j].end => ordinary'[j].number = asked'[ordinary'[j].request].total
  <2> SUFFICES ASSUME NEW j \in DOMAIN ordinary', ordinary'[j].end
               PROVE  ordinary'[j].number = asked'[ordinary'[j].request].total
    OBVIOUS
  <2>1. PICK i \in DOMAIN ordinary : ordinary'[j] = ordinary[i]
    BY DEF NoNewMessage
  <2>2. ordinary[i] \in Records
    <3>1. ordinary \in Seq(Records) /\ DOMAIN ordinary = 1 .. Len(ordinary)
      BY LenProperties DEF Order, TypeOK
    <3>2. QED
      BY <3>1, ElementOfSeq
  <2>3. ordinary[i].request \in Requests
    BY <2>2 DEF Records, Messages
  <2>4. QED
    BY <1>0, <2>1, <2>3 DEF Ends
<1>4. \A j \in DOMAIN urgent' :
          /\ urgent'[j].type = "success" => ~urgent'[j].end
          /\ urgent'[j].type = "invalid" =>
                asked'[urgent'[j].request].total = 0 /\ urgent'[j].request \notin open'
  <2> SUFFICES ASSUME NEW j \in DOMAIN urgent', urgent'[j].type # "error"
               PROVE  /\ urgent'[j].type = "success" => ~urgent'[j].end
                      /\ urgent'[j].type = "invalid" =>
                            /\ asked'[urgent'[j].request].total = 0
                            /\ urgent'[j].request \notin open'
    OBVIOUS
  <2>1. PICK i \in DOMAIN urgent : urgent'[j] = urgent[i]
    BY DEF NoNewMessage
  <2>2. urgent[i] \in Verdicts
    <3>1. urgent \in Seq(Verdicts) /\ DOMAIN urgent = 1 .. Len(urgent)
      BY LenProperties DEF Order, TypeOK
    <3>2. QED
      BY <3>1, ElementOfSeq
  <2>3. urgent[i].request \in Requests
    BY <2>2 DEF Verdicts, Messages
  <2>4. QED
    BY <1>0, <2>1, <2>3 DEF Ends, Grown
<1>5. Told("completed")' # {} => Len(asked') = Intervals /\ open' = {}
  BY DEF Grown
<1>6. QED
  BY <1>1, <1>2, <1>3, <1>4, <1>5 DEF Ends

LEMMA WholeKept ==
    ASSUME Order, Whole, NEW ds, NEW hs, Grown(ds, hs), NoNewMessage,
           \A r \in Requests : ds[r].posted = asked[r].posted,
           \A j \in DOMAIN ordinary :
              \/ \E i \in DOMAIN ordinary' : ordinary'[i] = ordinary[j]
              \/ \E i \in Told("record")' : events'[i].request = ordinary[j].request
                                            /\ events'[i].number = ordinary[j].number,
           \A i \in Told("record") : i \in Told("record")' /\ events'[i] = events[i],
           Told("completed") \subseteq Told("completed")',
           \A r \in Requests : r \notin handled' => r \notin handled \/
              (Told("completed")' # {} /\ \A j \in DOMAIN ordinary' : ordinary'[j].request # r)
    PROVE  Whole'
<1>1. ASSUME NEW r \in Requests', NEW n \in 1 .. asked'[r].posted
      PROVE  Waits(r, n)' \/ ToldAlready(r, n)'
  <2>1. r \in Requests /\ n \in 1 .. asked[r].posted
    <3>1. r \notin Requests => asked'[r].posted = 0
      BY DEF Grown
    <3>2. r \in Requests
      BY <3>1
    <3>3. QED
      BY <3>2 DEF Grown
  <2>2. CASE Waits(r, n)
    <3>1. PICK j \in DOMAIN ordinary : ordinary[j].request = r /\ ordinary[j].number = n
      BY <2>2 DEF Waits
    <3>2. CASE \E i \in DOMAIN ordinary' : ordinary'[i] = ordinary[j]
      BY <3>1, <3>2 DEF Waits
    <3>3. CASE \E i \in Told("record")' : events'[i].request = ordinary[j].request
                                          /\ events'[i].number = ordinary[j].number
      BY <3>1, <3>3 DEF ToldAlready
    <3>4. QED
      BY <3>2, <3>3
  <2>3. CASE ToldAlready(r, n)
    <3>1. PICK i \in Told("record") : events[i].request = r /\ events[i].number = n
      BY <2>3 DEF ToldAlready
    <3>2. i \in Told("record")' /\ events'[i] = events[i]
      BY <3>1
    <3>3. QED
      BY <3>1, <3>2 DEF ToldAlready
  <2>4. QED
    BY <2>1, <2>2, <2>3 DEF Whole
<1>2. ASSUME NEW r \in Requests', r \notin handled'
      PROVE  Told("completed")' # {} /\ \A j \in DOMAIN ordinary' : ordinary'[j].request # r
  <2>1. r \in Requests
    BY <1>2 DEF Grown
  <2>2. CASE r \notin handled
    BY <2>1, <2>2 DEF Whole, NoNewMessage
  <2>3. QED
    BY <1>2, <2>1, <2>2
<1>3. QED
  BY <1>1, <1>2 DEF Whole

LEMMA AllToldKept ==
    ASSUME TypeOK, Ends, AllTold, NEW ds, NEW hs, Grown(ds, hs),
           \A r \in Requests : ds[r].total = asked[r].total /\ ds[r].posted = asked[r].posted,
           NEW S, events \in Seq(S), NEW es \in Seq(S), events' = events \o es,
           \A k \in Told("completed")' : k \in Told("completed") \/
              (~LastIsInvalid' /\ CalmBefore(k)' =>
                 \A r \in Requests' : \A n \in 1 .. asked'[r].posted : ToldBefore(k, r, n)')
    PROVE  AllTold'
<1> SUFFICES ASSUME NEW k \in Told("completed")', ~LastIsInvalid', CalmBefore(k)',
                    NEW r \in Requests', NEW n \in 1 .. asked'[r].posted, k \in Told("completed")
             PROVE  ToldBefore(k, r, n)'
  BY DEF AllTold
<1>1. \A i \in Told("error") \cup Told("cancelled") : i \in (Told("error") \cup Told("cancelled"))'
  BY ToldGrows
<1>2. CalmBefore(k)
  BY <1>1 DEF CalmBefore
<1>3. Len(asked) = Intervals /\ Len(asked') = Len(asked) /\ Requests' = Requests
  BY DEF Ends, Grown
<1>4. Len(asked) \in Requests
  BY <1>3, NumberAssumption DEF Requests
<1>5. ~LastIsInvalid
  BY <1>3, <1>4 DEF LastIsInvalid, Grown
<1>6. n \in 1 .. asked[r].posted /\ r \in Requests
  BY <1>3 DEF Grown
<1>7. PICK i \in Told("record") : i < k /\ events[i].request = r /\ events[i].number = n
  BY <1>2, <1>5, <1>6 DEF AllTold, ToldBefore
<1>8. i \in Told("record")' /\ events'[i] = events[i]
  BY <1>7, ToldGrows
<1>9. QED
  BY <1>7, <1>8 DEF ToldBefore

(* A step that tells no record and no completion: unless an error or the   *)
(* cancellation is told, it takes no dispatcher and no record away.        *)
LEMMA QuietStep ==
    ASSUME Order, Full, NEW hs,
           Asks(asked, hs) \/ Queues(asked, hs) \/ Keeps(asked, hs), NoNewMessage,
           \/ /\ events' = events
              /\ Calm => handled \subseteq hs /\ ordinary' = ordinary
           \/ events' = Append(events, Outcome("error"))
           \/ events' = Append(events, Outcome("cancelled"))
    PROVE  Full'
<1>0. TypeOK /\ Shape(asked) /\ Grown(asked, hs) /\ events \in Seq(Events)
  BY SameShape, StepGrows DEF Order, TypeOK
<1>1. PICK es \in Seq(Events) :
          /\ events' = events \o es
          /\ \A i \in 1 .. Len(es) : es[i].type \in {"error", "cancelled"}
          /\ Calm' => events' = events
  <2>1. CASE events' = events
    <3> DEFINE es == <<>>
    <3>1. es \in Seq(Events) /\ events' = events \o es /\ Len(es) = 0
      BY <1>0, <2>1, ConcatEmptySeq, EmptySeq
    <3> HIDE DEF es
    <3>2. \A i \in 1 .. Len(es) : es[i].type \in {"error", "cancelled"}
      BY <3>1
    <3>3. QED
      BY <2>1, <3>1, <3>2
  <2>2. ASSUME NEW type \in {"error", "cancelled"}, events' = Append(events, Outcome(type))
        PROVE  \E es \in Seq(Events) :
                  /\ events' = events \o es
                  /\ \A i \in 1 .. Len(es) : es[i].type \in {"error", "cancelled"}
                  /\ Calm' => events' = events
    <3> DEFINE es == <<Outcome(type)>>
    <3>1. Outcome(type) \in Events /\ Outcome(type).type = type
      BY DEF Events, Outcome
    <3>2. es \in Seq(Events) /\ Len(es) = 1 /\ es[1] = Outcome(type) /\ events' = events \o es
      BY <1>0, <2>2, <3>1, AppendIsConcat
    <3>3. /\ Len(events) \in Nat /\ events' \in Seq(Events) /\ Len(events') = Len(events) + 1
          /\ events'[Len(events) + 1] = Outcome(type)
      BY <1>0, <2>2, <3>1, AppendProperties, LenProperties
    <3>4. Len(events) + 1 \in DOMAIN events'
      BY <3>3, LenProperties
    <3>5. Len(events) + 1 \in Told(type)'
      BY <3>1, <3>3, <3>4 DEF Told
    <3>6. ~Calm'
      BY <3>5 DEF Calm
    <3> HIDE DEF es
    <3>7. \A i \in 1 .. Len(es) : es[i].type \in {"error", "cancelled"}
      BY <3>1, <3>2
    <3>8. QED
      BY <3>2, <3>6, <3>7
  <2>3. QED
    BY <2>1, <2>2
<1>2. /\ Told("completed")' = Told("completed") /\ Told("record")' = Told("record")
      /\ \A i \in Told("record") : events'[i] = events[i]
  <2>1. \A i \in 1 .. Len(es) : es[i].type # "completed" /\ es[i].type # "record"
    BY <1>1
  <2>2. events' = events \o es /\ es \in Seq(Events)
    BY <1>1
  <2>3. Told("completed")' = Told("completed")
    BY ONLY <1>0, <2>1, <2>2, ToldKept
  <2>4. Told("record")' = Told("record")
    BY ONLY <1>0, <2>1, <2>2, ToldKept
  <2>5. \A i \in Told("record") : events'[i] = events[i]
    BY ONLY <1>0, <2>2, ToldGrows
  <2>6. QED
    BY <2>3, <2>4, <2>5
<1>3. Ends'
  <2>1. \A r \in Requests : asked[r].last => open = {}
    BY DEF Full, Ends
  <2>2. \A r \in Requests : asked[r].ended =>
           \/ asked[r].total = 0 /\ r \notin open
           \/ \E i \in Told("record")' :
                 events'[i].request = r /\ events'[i].number = asked[r].total
    BY <1>2 DEF Full, Ends, LastTold
  <2>3. Told("completed")' # {} => Len(asked) = Intervals /\ open = {}
    BY <1>2 DEF Full, Ends
  <2>4. QED
    BY <1>0, <2>1, <2>2, <2>3, EndsKept DEF Full
<1>4. AllTold'
  BY <1>0, <1>1, <1>2, AllToldKept DEF Full
<1>5. Calm' => Whole'
  <2> SUFFICES ASSUME Calm'
               PROVE  Whole'
    OBVIOUS
  <2>1. events' = events
    BY <1>1
  <2>2. Calm
    BY <2>1 DEF Calm, Told
  <2>3. handled \subseteq hs /\ ordinary' = ordinary
    <3>1. \A type : events' # Append(events, Outcome(type))
      <4> SUFFICES ASSUME NEW type, events' = Append(events, Outcome(type))
                   PROVE  FALSE
        OBVIOUS
      <4>1. Len(events) \in Nat /\ Len(Append(events, Outcome(type))) = Len(events) + 1
        BY <1>0, LenProperties
      <4>2. QED
        BY <2>1, <4>1
    <3>2. QED
      BY <2>2, <3>1
  <2>4. handled \subseteq handled'
    BY <1>0, <2>3 DEF Grown
  <2>5. \A j \in DOMAIN ordinary : \E i \in DOMAIN ordinary' : ordinary'[i] = ordinary[j]
    BY <2>3
  <2>6. QED
    BY <1>0, <1>2, <2>2, <2>4, <2>5, WholeKept DEF Full
<1>6. QED
  BY <1>3, <1>4, <1>5 DEF Full

LEMMA ClientFull ==
    ASSUME Order, Full, Call \/ LogIn \/ LogOut \/ Cancel \/ Race
    PROVE  Full'
<1>0. TypeOK /\ Shape(asked) /\ asked \in Seq(Dispatchers) /\ Len(asked) \in Nat
  BY SameShape, LenProperties DEF Order, TypeOK
<1>1. NoNewMessage
  <2>1. CASE urgent' = urgent
    BY <2>1 DEF NoNewMessage, Call, LogIn, LogOut, Cancel, Race, RacingTimeout, channel
  <2>2. CASE Race
    <3>1. PICK r \in DOMAIN asked :
              urgent' = Append(urgent, Error(r, "error")) /\ ordinary' = ordinary
      BY <2>2 DEF Race, RacingTimeout
    <3> DEFINE Any == Verdicts \cup {Error(r, "error")}
    <3>0. urgent \in Seq(Any) /\ Error(r, "error") \in Any
      BY <1>0, SeqMonotonic DEF TypeOK
    <3> HIDE DEF Any
    <3>2. /\ Len(urgent) \in Nat /\ DOMAIN urgent = 1 .. Len(urgent)
          /\ DOMAIN urgent' = 1 .. Len(urgent) + 1
          /\ \A i \in 1 .. Len(urgent) : urgent'[i] = urgent[i]
          /\ urgent'[Len(urgent) + 1] = Error(r, "error")
      <4>1. /\ urgent' \in Seq(Any) /\ Len(urgent') = Len(urgent) + 1
            /\ \A i \in 1 .. Len(urgent) : urgent'[i] = urgent[i]
            /\ urgent'[Len(urgent) + 1] = Error(r, "error")
        BY ONLY <3>0, <3>1, AppendProperties
      <4>2. QED
        BY ONLY <3>0, <4>1, LenProperties
    <3>3. \A j \in DOMAIN urgent' : j \in DOMAIN urgent \/ j = Len(urgent) + 1
      BY ONLY <3>2
    <3>4. Error(r, "error").type = "error"
      BY DEF Error
    <3>5. QED
      BY <3>1, <3>2, <3>3, <3>4 DEF NoNewMessage
  <2>3. QED
    BY <2>1, <2>2 DEF Call, LogIn, LogOut, Cancel, channel
<1>2. CASE Call
  <2>1. queue = <<>> /\ Len(asked) = 0 /\ requestTicks(Len(asked), asked, handled)
    BY <1>2 DEF Call, Order, Chain
  <2>2. Asks(asked, handled) \/ Queues(asked, handled) \/ Keeps(asked, handled)
    BY <1>0, <2>1, NextTicks
  <2>3. events' = events /\ ordinary' = ordinary
    BY <1>2 DEF Call, channel
  <2>4. QED
    BY <1>1, <2>2, <2>3, QuietStep
<1>3. CASE LogIn
  <2>1. events' = events /\ ordinary' = ordinary
    BY <1>3 DEF LogIn, channel
  <2>2. Asks(asked, handled) \/ Keeps(asked, handled)
    <3>1. CASE queue = <<>>
      BY <1>0, <1>3, <3>1, AskForNothing DEF LogIn, Keeps
    <3>2. CASE queue = <<Len(asked)>> /\ Len(asked) < Intervals
      <4>1. Len(asked) \in 0 .. Intervals - 1
        BY ONLY <1>0, <3>2, NumberAssumption
      <4>2. QED
        BY <1>0, <1>3, <3>2, <4>1, AskForOne DEF Asks, LogIn
    <3>3. QED
      BY <3>1, <3>2 DEF Order, Chain
  <2>3. QED
    BY <1>1, <2>1, <2>2, QuietStep
<1>4. CASE LogOut \/ Race
  <2>1. Keeps(asked, handled) /\ events' = events
    BY <1>4 DEF LogOut, Race, RacingTimeout, Keeps
  <2>2. ordinary' = ordinary
    BY <1>4 DEF LogOut, Race, RacingTimeout, channel
  <2>3. QED
    BY <1>1, <2>1, <2>2, QuietStep
<1>5. CASE Cancel
  <2>1. Keeps(asked, handled') /\ events' = Append(events, Outcome("cancelled"))
    BY <1>5 DEF Cancel, Keeps, Outcome
  <2>2. QED
    BY <1>1, <2>1, QuietStep
<1>6. QED
  BY <1>2, <1>3, <1>4, <1>5

(* What a step of the API does to the dispatcher of the request it answers *)
(* and to the messages on their way.                                       *)
Answers(r) ==
    /\ Len(asked') = Len(asked) /\ open' \subseteq open
    /\ \A q \in Requests : q # r => asked'[q] = asked[q]
    /\ asked'[r].ended = asked[r].ended /\ asked'[r].last = asked[r].last
    /\ asked'[r].total = asked[r].total \/ asked[r].total = 0

PostsRecord(r) ==
    /\ asked'[r].total = asked[r].total
    /\ ordinary' = Append(ordinary, Record(r, asked'[r].posted, asked'[r].posted = asked[r].total))
    /\ asked[r].posted \in Nat /\ asked'[r].posted = asked[r].posted + 1

PostsVerdict(r, v) ==
    /\ urgent' = Append(urgent, v) /\ v.request = r
    /\ asked' = asked /\ r \notin open'
    /\ v.type = "success" => ~v.end
    /\ v.type = "invalid" => asked[r].total = 0

LEMMA RespondDoes ==
    ASSUME Order, Respond
    PROVE  \E r \in open :
              /\ r \in Requests /\ Answers(r)
              /\ (ordinary' = ordinary /\ asked'[r].posted = asked[r].posted) \/ PostsRecord(r)
              /\ urgent' = urgent \/ \E v : PostsVerdict(r, v)
              /\ events' = events /\ handled' = handled
<1>1. PICK r \in open :
          Answer(r) \/ PostRecord(r) \/ PostSuccess(r) \/ PostInvalid(r) \/ PostError(r)
  BY DEF Respond
<1>2. /\ events' = events /\ handled' = handled
      /\ asked \in Seq(Dispatchers) /\ r \in Requests /\ r \in 1 .. Len(asked)
      /\ Len(asked) \in Nat /\ DOMAIN asked = 1 .. Len(asked)
  BY LenProperties DEF Respond, Order, TypeOK, Requests
<1>3. asked[r] \in Dispatchers
  BY <1>2, ElementOfSeq
<1>4. CASE Answer(r)
  <2>1. PICK n \in 1 .. MaxRecords : asked' = [asked EXCEPT ![r].total = n]
    BY <1>4 DEF Answer
  <2>2. /\ asked[r].total = 0 /\ open' = open /\ urgent' = urgent /\ ordinary' = ordinary
    BY <1>4 DEF Answer, channel
  <2>3. /\ Len(asked') = Len(asked) /\ \A q \in Requests : q # r => asked'[q] = asked[q]
        /\ asked'[r] = [asked[r] EXCEPT !.total = n]
    BY ONLY <1>2, <2>1 DEF Requests
  <2>4. /\ asked'[r].ended = asked[r].ended /\ asked'[r].last = asked[r].last
        /\ asked'[r].posted = asked[r].posted
    BY ONLY <1>3, <2>3 DEF Dispatchers
  <2>5. QED
    BY <1>2, <2>2, <2>3, <2>4 DEF Answers
<1>5. CASE PostRecord(r)
  <2>1. /\ asked' = [asked EXCEPT ![r].posted = asked[r].posted + 1]
        /\ open' = open /\ urgent' = urgent
        /\ ordinary' = Append(ordinary,
                              Record(r, asked'[r].posted, asked'[r].posted = asked[r].total))
    BY <1>5 DEF PostRecord
  <2>2. asked[r].posted \in Nat
    BY <1>2, CountType DEF Order
  <2>3. /\ Len(asked') = Len(asked) /\ \A q \in Requests : q # r => asked'[q] = asked[q]
        /\ asked'[r] = [asked[r] EXCEPT !.posted = asked[r].posted + 1]
    BY ONLY <1>2, <2>1 DEF Requests
  <2>4. /\ asked'[r].ended = asked[r].ended /\ asked'[r].last = asked[r].last
        /\ asked'[r].total = asked[r].total /\ asked'[r].posted = asked[r].posted + 1
    BY ONLY <1>3, <2>3 DEF Dispatchers
  <2>5. QED
    BY <1>2, <2>1, <2>2, <2>3, <2>4 DEF Answers, PostsRecord
<1>6. CASE PostSuccess(r) \/ PostInvalid(r) \/ PostError(r)
  <2>1. asked' = asked /\ ordinary' = ordinary /\ open' = open \ {r}
    BY <1>6 DEF PostSuccess, PostInvalid, PostError
  <2>2. \E v : PostsVerdict(r, v)
    <3>1. CASE PostSuccess(r)
      <4>1. PostsVerdict(r, Success(r))
        BY <2>1, <3>1 DEF PostSuccess, PostsVerdict, Success
      <4>2. QED
        BY <4>1
    <3>2. CASE PostInvalid(r)
      <4>1. PostsVerdict(r, Error(r, "invalid"))
        BY <2>1, <3>2 DEF PostInvalid, PostsVerdict, Error
      <4>2. QED
        BY <4>1
    <3>3. CASE PostError(r)
      <4>1. PostsVerdict(r, Error(r, "error"))
        BY <2>1, <3>3 DEF PostError, PostsVerdict, Error
      <4>2. QED
        BY <4>1
    <3>4. QED
      BY <1>6, <3>1, <3>2, <3>3
  <2>3. QED
    BY <1>2, <2>1, <2>2 DEF Answers
<1>7. QED
  BY <1>1, <1>4, <1>5, <1>6

(* Appending to a queue of messages leaves those there are where they are. *)
LEMMA OneMore ==
    ASSUME NEW S, NEW s \in Seq(S), NEW v
    PROVE  /\ \A i \in DOMAIN s : i \in DOMAIN Append(s, v) /\ Append(s, v)[i] = s[i]
           /\ \E i \in DOMAIN Append(s, v) : Append(s, v)[i] = v
           /\ \A i \in DOMAIN Append(s, v) :
                 \/ Append(s, v)[i] = v
                 \/ i \in DOMAIN s /\ Append(s, v)[i] = s[i]
<1> DEFINE T == S \cup {v}
           a == Append(s, v)
<1>1. s \in Seq(T) /\ v \in T
  BY SeqMonotonic
<1> HIDE DEF T
<1>2. /\ a \in Seq(T) /\ Len(a) = Len(s) + 1 /\ Len(s) \in Nat
      /\ \A i \in 1 .. Len(s) : a[i] = s[i]
      /\ a[Len(s) + 1] = v
  BY ONLY <1>1, AppendProperties, LenProperties
<1>3. DOMAIN s = 1 .. Len(s) /\ DOMAIN a = 1 .. Len(a)
  BY ONLY <1>1, <1>2, LenProperties
<1> HIDE DEF a
<1>4. QED
  <2>1. \A i \in DOMAIN s : i \in DOMAIN a /\ a[i] = s[i]
    BY <1>2, <1>3
  <2>2. Len(s) + 1 \in DOMAIN a
    BY <1>2, <1>3
  <2>3. \A i \in DOMAIN a : i \in DOMAIN s \/ i = Len(s) + 1
    BY <1>2, <1>3
  <2>4. QED
    BY <1>2, <2>1, <2>2, <2>3 DEF a

LEMMA RespondFull == ASSUME Order, InTime, Full, Respond PROVE Full'
<1>1. PICK r \in open :
          /\ r \in Requests /\ Answers(r)
          /\ (ordinary' = ordinary /\ asked'[r].posted = asked[r].posted) \/ PostsRecord(r)
          /\ urgent' = urgent \/ \E v : PostsVerdict(r, v)
          /\ events' = events /\ handled' = handled
  BY RespondDoes
<1>2. /\ TypeOK /\ Requests' = Requests /\ \A type : Told(type)' = Told(type)
      /\ Told("completed") = {}
  BY <1>1 DEF Answers, Requests, Told, Order, Full, Ends
<1>3. \A q \in Requests : asked'[q].ended = asked[q].ended /\ asked'[q].last = asked[q].last
  BY <1>1 DEF Answers
<1>4. \A q \in Requests : asked[q].total # 0 \/ q \notin open => asked'[q].total = asked[q].total
  BY <1>1 DEF Answers
<1>5. \A i \in Told("record") : events[i].number # 0
  <2>1. events \in Seq(Events) /\ DOMAIN events = 1 .. Len(events)
    BY <1>2, LenProperties DEF TypeOK
  <2>2. \A i \in DOMAIN events : events[i] \in Events
    BY <2>1, ElementOfSeq
  <2>3. \A e \in Events : e.type = "record" => e.number \in 1 .. MaxRecords
    BY DEF Events
  <2>4. QED
    BY <2>2, <2>3, NumberAssumption DEF Told
<1>6. \A q \in Requests' : asked'[q].ended =>
          (asked'[q].total = 0 /\ q \notin open') \/ LastTold(q)'
  <2> SUFFICES ASSUME NEW q \in Requests, asked[q].ended
               PROVE  (asked'[q].total = 0 /\ q \notin open') \/ LastTold(q)'
    BY <1>2, <1>3
  <2>1. CASE asked[q].total = 0 /\ q \notin open
    BY <1>1, <1>4, <2>1 DEF Answers
  <2>2. CASE LastTold(q)
    <3>1. PICK i \in Told("record") : events[i].request = q /\ events[i].number = asked[q].total
      BY <2>2 DEF LastTold
    <3>2. asked'[q].total = asked[q].total
      BY <1>4, <1>5, <3>1
    <3>3. QED
      BY <1>1, <1>2, <3>1, <3>2 DEF LastTold
  <2>3. QED
    BY <2>1, <2>2 DEF Full, Ends
<1>7. /\ ordinary \in Seq(Records) /\ urgent \in Seq(Verdicts)
      /\ \A i \in DOMAIN ordinary : ordinary[i].number # 0 /\ ordinary[i].request \in Requests
      /\ \A i \in DOMAIN urgent : urgent[i].request \in Requests
  <2>1. /\ ordinary \in Seq(Records) /\ urgent \in Seq(Verdicts)
        /\ DOMAIN ordinary = 1 .. Len(ordinary) /\ DOMAIN urgent = 1 .. Len(urgent)
    BY <1>2, LenProperties DEF TypeOK
  <2>2. \A i \in DOMAIN ordinary : ordinary[i] \in Records
    BY <2>1, ElementOfSeq
  <2>3. \A i \in DOMAIN urgent : urgent[i] \in Verdicts
    BY <2>1, ElementOfSeq
  <2>4. \A m \in Records : m.number # 0 /\ m.request \in Requests
    BY NumberAssumption DEF Records, Messages
  <2>5. \A m \in Verdicts : m.request \in Requests
    BY DEF Verdicts, Messages
  <2>6. QED
    BY <2>1, <2>2, <2>3, <2>4, <2>5
<1>8. \A j \in DOMAIN ordinary' :
          ordinary'[j].end => ordinary'[j].number = asked'[ordinary'[j].request].total
  <2>1. \A j \in DOMAIN ordinary :
            ordinary[j].end => ordinary[j].number = asked'[ordinary[j].request].total
    <3> SUFFICES ASSUME NEW j \in DOMAIN ordinary, ordinary[j].end
                 PROVE  ordinary[j].number = asked'[ordinary[j].request].total
      OBVIOUS
    <3>1. ordinary[j].number = asked[ordinary[j].request].total
      BY DEF Full, Ends
    <3>2. QED
      BY <1>4, <1>7, <3>1
  <2>2. CASE ordinary' = ordinary
    BY <2>1, <2>2
  <2>3. CASE PostsRecord(r)
    <3> DEFINE k == asked'[r].posted
               m == Record(r, k, k = asked[r].total)
    <3>1. ordinary' = Append(ordinary, m) /\ asked'[r].total = asked[r].total
      BY <2>3 DEF PostsRecord
    <3>2. m.request = r /\ (m.end => m.number = asked[r].total)
      BY DEF Record
    <3> HIDE DEF m
    <3>3. \A j \in DOMAIN ordinary' :
              ordinary'[j] = m \/ (j \in DOMAIN ordinary /\ ordinary'[j] = ordinary[j])
      BY <1>7, <3>1, OneMore
    <3>4. QED
      BY <2>1, <3>1, <3>2, <3>3
  <2>4. QED
    BY <1>1, <2>2, <2>3
<1>9. \A i \in DOMAIN urgent' :
          /\ urgent'[i].type = "success" => ~urgent'[i].end
          /\ urgent'[i].type = "invalid" =>
                asked'[urgent'[i].request].total = 0 /\ urgent'[i].request \notin open'
  <2>1. \A i \in DOMAIN urgent :
            /\ urgent[i].type = "success" => ~urgent[i].end
            /\ urgent[i].type = "invalid" =>
                  asked'[urgent[i].request].total = 0 /\ urgent[i].request \notin open'
    BY <1>1, <1>4, <1>7 DEF Full, Ends, Answers
  <2>2. CASE urgent' = urgent
    BY <2>1, <2>2
  <2>3. ASSUME NEW v, PostsVerdict(r, v)
        PROVE  \A i \in DOMAIN urgent' :
                  /\ urgent'[i].type = "success" => ~urgent'[i].end
                  /\ urgent'[i].type = "invalid" =>
                        asked'[urgent'[i].request].total = 0 /\ urgent'[i].request \notin open'
    <3>1. \A i \in DOMAIN urgent' :
              urgent'[i] = v \/ (i \in DOMAIN urgent /\ urgent'[i] = urgent[i])
      BY <1>7, <2>3, OneMore DEF PostsVerdict
    <3>2. QED
      BY <2>1, <2>3, <3>1 DEF PostsVerdict
  <2>4. QED
    BY <1>1, <2>2, <2>3
<1>10. Ends'
  <2>1. \A q \in Requests' : asked'[q].last => open' = {}
    BY <1>1, <1>2, <1>3 DEF Full, Ends
  <2>2. QED
    BY <1>2, <1>6, <1>8, <1>9, <2>1 DEF Ends
<1>11. AllTold'
  BY <1>2 DEF AllTold
<1>12. Calm' => Whole'
  <2> SUFFICES ASSUME Calm'
               PROVE  Whole'
    OBVIOUS
  <2>1. Calm /\ Whole
    BY <1>2 DEF Calm, Full
  <2>2. \A j \in DOMAIN ordinary : j \in DOMAIN ordinary' /\ ordinary'[j] = ordinary[j]
    BY <1>1, <1>7, OneMore DEF PostsRecord
  <2>3. ASSUME NEW q \in Requests', NEW n \in 1 .. asked'[q].posted
        PROVE  Waits(q, n)' \/ ToldAlready(q, n)'
    <3>1. CASE n \in 1 .. asked[q].posted
      <4>1. Waits(q, n) \/ ToldAlready(q, n)
        BY <1>2, <2>1, <3>1 DEF Whole
      <4>2. QED
        BY <1>1, <1>2, <2>2, <4>1 DEF Waits, ToldAlready
    <3>2. CASE n \notin 1 .. asked[q].posted
      <4>1. q = r /\ PostsRecord(r)
        BY <1>1, <1>2, <2>3, <3>2 DEF Answers
      <4>2. n = asked'[r].posted
        BY <2>3, <3>2, <4>1 DEF PostsRecord
      <4>3. PICK j \in DOMAIN ordinary' :
                ordinary'[j] = Record(r, asked'[r].posted, asked'[r].posted = asked[r].total)
        BY <1>7, <4>1, OneMore DEF PostsRecord
      <4>4. QED
        BY <4>1, <4>2, <4>3 DEF Waits, Record
    <3>3. QED
      BY <3>1, <3>2
  <2>4. \A q \in Requests' : q \in handled'
    BY <1>1, <1>2, <2>1 DEF Whole
  <2>5. QED
    BY <2>3, <2>4 DEF Whole
<1>13. QED
  BY <1>10, <1>11, <1>12 DEF Full

(* What a dispatcher tells: the record that it gets, and after it, and     *)
(* after all that was told before, that the call is completed.             *)
ToldBy(m, completes) ==
    /\ \E es \in Seq(Events) : events' = events \o es
    /\ Told("error")' = Told("error") /\ Told("cancelled")' = Told("cancelled")
    /\ \A i \in Told("record") : i \in Told("record")' /\ events'[i] = events[i]
    /\ Told("completed") \subseteq Told("completed")'
    /\ m.type = "record" =>
          \E i \in Told("record")' :
              events'[i].request = m.request /\ events'[i].number = m.number
    /\ completes => Told("completed")' # {}
    /\ \A k \in Told("completed")' : k \notin Told("completed") =>
          completes /\ \A type \in {"record", "error", "cancelled"} : \A i \in Told(type)' : i < k

LEMMA TellsAll ==
    ASSUME Order, NEW m, Reachable(m), m.request \in handled, NEW completes \in BOOLEAN,
           Tells(m, completes)
    PROVE  ToldBy(m, completes)
<1> DEFINE x == [type |-> "record", request |-> m.request, number |-> m.number]
           c == Outcome("completed")
           mid == events \o TellsRecord(m)
<1>0. /\ events \in Seq(Events) /\ Len(events) \in Nat /\ DOMAIN events = 1 .. Len(events)
      /\ c \in Events /\ c.type = "completed"
      /\ x.type = "record" /\ x.request = m.request /\ x.number = m.number
  BY LenProperties DEF Order, TypeOK, Events, Outcome
<1>1. m.type = "record" => x \in Events
  <2> SUFFICES ASSUME m.type = "record"
               PROVE  x \in Events
    OBVIOUS
  <2>1. m \in Records /\ MaxRecords \in Nat /\ m.request \in Requests
    BY NumberAssumption DEF Reachable, Verdicts, Order, TypeOK
  <2>2. m.number \in 0 .. MaxRecords /\ m.number > 0
    BY <2>1 DEF Records, Messages
  <2>3. m.number \in 1 .. MaxRecords
    BY ONLY <2>1, <2>2
  <2>4. QED
    BY <2>1, <2>3 DEF Events
<1>2. events' = mid \o TellsCompleted(completes)
  BY DEF Tells
<1>3. /\ m.type = "record" => TellsRecord(m) = <<x>>
      /\ m.type # "record" => TellsRecord(m) = <<>>
      /\ completes => TellsCompleted(completes) = <<c>>
      /\ ~completes => TellsCompleted(completes) = <<>>
  BY DEF TellsRecord, TellsCompleted, Outcome
<1> HIDE DEF x, c
<1>4. /\ mid \in Seq(Events) /\ Len(mid) \in Nat /\ TellsRecord(m) \in Seq(Events)
      /\ \A i \in 1 .. Len(events) : i \in 1 .. Len(mid) /\ mid[i] = events[i]
      /\ \A i \in 1 .. Len(mid) : i \in 1 .. Len(events) \/ mid[i] = x
      /\ m.type = "record" => \E i \in 1 .. Len(mid) : mid[i] = x
  <2>1. CASE m.type = "record"
    <3>0. x \in Events /\ TellsRecord(m) = <<x>>
      BY <1>1, <1>3, <2>1
    <3>1. mid = Append(events, x) /\ <<x>> \in Seq(Events)
      <4>1. Append(events, x) = events \o <<x>>
        BY ONLY <1>0, <3>0, AppendIsConcat
      <4>2. <<x>> \in Seq(Events)
        BY ONLY <3>0
      <4>3. QED
        BY <3>0, <4>1, <4>2
    <3> HIDE DEF mid
    <3>2. /\ mid \in Seq(Events) /\ Len(mid) = Len(events) + 1
          /\ \A i \in 1 .. Len(events) : mid[i] = events[i]
          /\ mid[Len(events) + 1] = x
      BY ONLY <1>0, <1>1, <2>1, <3>1, AppendProperties
    <3>3. /\ \A i \in 1 .. Len(mid) : i \in 1 .. Len(events) \/ i = Len(events) + 1
          /\ Len(events) + 1 \in 1 .. Len(mid) /\ Len(mid) \in Nat
          /\ \A i \in 1 .. Len(events) : i \in 1 .. Len(mid)
      BY ONLY <1>0, <3>2
    <3>4. QED
      BY <2>1, <3>0, <3>1, <3>2, <3>3
  <2>2. CASE m.type # "record"
    <3>1. mid = events /\ TellsRecord(m) \in Seq(Events)
      BY <1>0, <1>3, <2>2, ConcatEmptySeq, EmptySeq
    <3> HIDE DEF mid
    <3>2. QED
      BY <1>0, <2>2, <3>1
  <2>3. QED
    BY <2>1, <2>2
<1>5. \E es \in Seq(Events) : events' = events \o es
  <2>1. TellsCompleted(completes) \in Seq(Events)
    <3>1. <<c>> \in Seq(Events) /\ <<>> \in Seq(Events)
      BY ONLY <1>0, EmptySeq
    <3>2. QED
      BY <1>3, <3>1
  <2>2. events' = events \o (TellsRecord(m) \o TellsCompleted(completes))
    <3> DEFINE rs == TellsRecord(m)
               cs == TellsCompleted(completes)
    <3>0. events' = (events \o rs) \o cs
      BY <1>2
    <3>1. rs \in Seq(Events) /\ cs \in Seq(Events) /\ events \in Seq(Events)
      BY <1>0, <1>4, <2>1
    <3> HIDE DEF rs, cs
    <3>2. (events \o rs) \o cs = events \o (rs \o cs)
      BY ONLY <3>1, ConcatAssociative
    <3>3. events' = events \o (rs \o cs)
      BY ONLY <3>0, <3>2
    <3>4. QED
      BY <3>3 DEF rs, cs
  <2>3. TellsRecord(m) \o TellsCompleted(completes) \in Seq(Events)
    BY <1>4, <2>1, ConcatProperties
  <2>4. QED
    BY <2>2, <2>3
<1> HIDE DEF mid
<1>6. /\ events' \in Seq(Events) /\ Len(events') \in Nat
      /\ \A i \in 1 .. Len(mid) : i \in 1 .. Len(events') /\ events'[i] = mid[i]
      /\ \A i \in 1 .. Len(events') :
            i \in 1 .. Len(mid) \/ (completes /\ i = Len(mid) + 1 /\ events'[i] = c)
      /\ completes => \E i \in 1 .. Len(events') : events'[i] = c
  <2>1. CASE completes
    <3>1. events' = Append(mid, c)
      BY <1>0, <1>2, <1>3, <1>4, <2>1, AppendIsConcat
    <3>2. /\ events' \in Seq(Events) /\ Len(events') = Len(mid) + 1
          /\ \A i \in 1 .. Len(mid) : events'[i] = mid[i]
          /\ events'[Len(mid) + 1] = c
      BY ONLY <1>0, <1>4, <3>1, AppendProperties
    <3>3. /\ \A i \in 1 .. Len(events') : i \in 1 .. Len(mid) \/ i = Len(mid) + 1
          /\ Len(mid) + 1 \in 1 .. Len(events') /\ Len(events') \in Nat
          /\ \A i \in 1 .. Len(mid) : i \in 1 .. Len(events')
      BY ONLY <1>4, <3>2
    <3>4. QED
      BY <2>1, <3>2, <3>3
  <2>2. CASE ~completes
    <3>1. events' = mid
      BY <1>2, <1>3, <1>4, <2>2, ConcatEmptySeq
    <3>2. QED
      BY <1>4, <2>2, <3>1
  <2>3. QED
    BY <2>1, <2>2
<1>7. /\ DOMAIN events' = 1 .. Len(events')
      /\ \A i \in DOMAIN events : i \in DOMAIN events' /\ events'[i] = events[i]
  BY <1>0, <1>4, <1>6, LenProperties
<1>8. \A i \in DOMAIN events' :
          \/ i \in DOMAIN events /\ i \in 1 .. Len(mid)
          \/ events'[i] = x /\ i \in 1 .. Len(mid)
          \/ completes /\ i = Len(mid) + 1 /\ events'[i] = c
  BY <1>0, <1>4, <1>6, <1>7
<1>9. \A type \in {"error", "cancelled"} : Told(type)' = Told(type)
  BY <1>0, <1>7, <1>8 DEF Told
<1>10. /\ \A i \in Told("record") : i \in Told("record")' /\ events'[i] = events[i]
       /\ Told("completed") \subseteq Told("completed")'
  BY <1>7 DEF Told
<1>11. m.type = "record" =>
           \E i \in Told("record")' :
               events'[i].request = m.request /\ events'[i].number = m.number
  <2> SUFFICES ASSUME m.type = "record"
               PROVE  \E i \in Told("record")' :
                          events'[i].request = m.request /\ events'[i].number = m.number
    OBVIOUS
  <2>1. PICK i \in 1 .. Len(mid) : mid[i] = x
    BY <1>4
  <2>2. i \in DOMAIN events' /\ events'[i] = x
    BY <1>6, <1>7, <2>1
  <2>3. QED
    BY <1>0, <2>2 DEF Told
<1>12. completes => Told("completed")' # {}
  BY <1>0, <1>6, <1>7 DEF Told
<1>13. \A k \in Told("completed")' : k \notin Told("completed") =>
           completes /\ \A type \in {"record", "error", "cancelled"} : \A i \in Told(type)' : i < k
  <2> SUFFICES ASSUME NEW k \in Told("completed")', k \notin Told("completed"),
                      NEW type \in {"record", "error", "cancelled"}
               PROVE  completes /\ \A i \in Told(type)' : i < k
    BY DEF Told
  <2>1. completes /\ k = Len(mid) + 1
    BY <1>0, <1>7, <1>8 DEF Told
  <2>2. \A i \in Told(type)' : i \in 1 .. Len(mid)
    BY <1>0, <1>8 DEF Told
  <2>3. QED
    BY <1>4, <2>1, <2>2
<1>14. QED
  BY <1>5, <1>9, <1>10, <1>11, <1>12, <1>13 DEF ToldBy

LEMMA DispatchFull ==
    ASSUME Order, TypeOK', InTime', Full, NEW m, Reachable(m), m.request \in handled,
           NEW completes \in BOOLEAN, NEW ds, Dispatched(m, ds, completes), NoNewMessage,
           \A j \in DOMAIN ordinary :
              \/ \E i \in DOMAIN ordinary' : ordinary'[i] = ordinary[j]
              \/ m.type = "record" /\ ordinary[j] = m,
           m.end => \/ m.type = "record" /\ m.number = asked[m.request].total
                    \/ asked[m.request].total = 0 /\ m.request \notin open
    PROVE  Full'
<1>0. TypeOK /\ Shape(ds) /\ m.request \in Requests /\ events \in Seq(Events)
  BY DEF Dispatched, Order, TypeOK
<1>1. PICK hs : Grown(ds, hs) /\ (hs = handled \/ (completes /\ hs = handled \ {m.request}))
  <2>1. \/ Keeps(ds, Handlers(m, completes))
        \/ Asks(ds, handled) \/ Queues(ds, handled)
    BY DEF Dispatched
  <2>2. Handlers(m, completes) = IF completes THEN handled \ {m.request} ELSE handled
    BY DEF Handlers
  <2>3. QED
    BY <1>0, <2>1, <2>2, StepGrows
<1>2. ToldBy(m, completes)
  BY TellsAll DEF Dispatched
<1>3. \A r \in Requests : ds[r].last => open = {}
  <2>1. CASE Continues(m)
    BY <2>1 DEF Reachable
  <2>2. CASE ~Continues(m)
    BY <2>2 DEF Dispatched, Full, Ends
  <2>3. QED
    BY <2>1, <2>2
<1>4. \A r \in Requests : ds[r].ended =>
          \/ asked[r].total = 0 /\ r \notin open
          \/ \E i \in Told("record")' :
                events'[i].request = r /\ events'[i].number = asked[r].total
  <2> SUFFICES ASSUME NEW r \in Requests, ds[r].ended
               PROVE  \/ asked[r].total = 0 /\ r \notin open
                      \/ \E i \in Told("record")' :
                            events'[i].request = r /\ events'[i].number = asked[r].total
    OBVIOUS
  <2>1. CASE asked[r].ended
    <3>1. (asked[r].total = 0 /\ r \notin open) \/ LastTold(r)
      BY <2>1 DEF Full, Ends
    <3>2. QED
      BY <1>2, <3>1 DEF LastTold, ToldBy
  <2>2. CASE r = m.request /\ m.end
    BY <1>2, <2>2 DEF ToldBy
  <2>3. QED
    BY <2>1, <2>2 DEF Dispatched
<1>5. completes => m.request = Len(asked) /\ Len(asked) = Intervals /\ open = {}
  <2> SUFFICES ASSUME completes
               PROVE  m.request = Len(asked) /\ Len(asked) = Intervals /\ open = {}
    OBVIOUS
  <2>1. Dispatched(m, ds, TRUE)
    <3>1. completes = TRUE
      OBVIOUS
    <3>2. QED
      BY <3>1
  <2>2. ds[m.request].last
    BY <2>1 DEF Dispatched
  <2>3. QED
    BY <1>0, <1>3, <2>1, <2>2, CompletesLatest
<1>6. Told("completed")' # {} => Len(asked) = Intervals /\ open = {}
  <2>1. Told("completed") # {} => Len(asked) = Intervals /\ open = {}
    BY DEF Full, Ends
  <2>2. Told("completed")' # {} => Told("completed") # {} \/ completes
    BY <1>2 DEF ToldBy
  <2>3. QED
    BY <1>5, <2>1, <2>2
<1>7. Ends'
  <2>1. \A r \in Requests : ds[r].total = asked[r].total
    BY DEF Dispatched
  <2>2. QED
    BY <1>0, <1>1, <1>3, <1>4, <1>6, <2>1, EndsKept DEF Full
<1>8. completes => \A j \in DOMAIN ordinary' : LastIsInvalid' /\ ordinary'[j].request # m.request
  <2> SUFFICES ASSUME completes, NEW j \in DOMAIN ordinary'
               PROVE  LastIsInvalid' /\ ordinary'[j].request # m.request
    OBVIOUS
  <2> DEFINE r == m.request
             e == ordinary'[j]
  <2>1. r \in Requests' /\ Len(asked') = r /\ r \in Nat /\ asked'[r].ended
    <3>1. asked'[r] = ds[r] /\ Len(asked') = Len(asked) /\ r \in Requests' /\ Len(asked') \in Nat
      BY <1>0, <1>1, <1>5 DEF Grown
    <3>2. QED
      BY <1>5, <3>1 DEF Dispatched
  <2>2. /\ e.request \in 1 .. r /\ e.number \in Nat /\ e.number # 0
        /\ e.number <= asked'[e.request].posted
    <3>1. e.request \in Requests' /\ e.number \in Nat /\ e.number <= asked'[e.request].posted
      BY DEF InTime, Posted
    <3>2. ordinary' \in Seq(Records') /\ DOMAIN ordinary' = 1 .. Len(ordinary')
      BY LenProperties DEF TypeOK
    <3>3. e \in Records'
      BY <3>2, ElementOfSeq
    <3>4. e.number # 0
      BY <3>1, <3>3 DEF Records
    <3>5. QED
      BY <2>1, <3>1, <3>4 DEF Requests
  <2>3. asked'[r].posted \in Nat /\ asked'[r].total \in Nat /\ asked'[r].posted <= asked'[r].total
    <3>1. asked' \in Seq(Dispatchers) /\ asked'[r].posted <= asked'[r].total
      BY <2>1 DEF TypeOK, Dispatchers
    <3>2. asked'[r] \in Dispatchers
      BY <2>1, <3>1, ElementOfSeq DEF Requests
    <3>3. QED
      BY <3>1, <3>2, NumberAssumption DEF Dispatchers
  <2> HIDE DEF e, r
  <2>4. CASE asked'[r].total = 0
    <3>1. LastIsInvalid'
      BY <2>1, <2>4 DEF LastIsInvalid
    <3>2. e.request # r
      BY <2>2, <2>3, <2>4
    <3>3. QED
      BY <3>1, <3>2 DEF e, r
  <2>5. CASE LastTold(r)'
    <3>1. PICK i \in Told("record")' :
              events'[i].request = r /\ events'[i].number = asked'[r].total
      BY <2>5 DEF LastTold
    <3>2. r < e.request \/ (r = e.request /\ asked'[r].total < e.number)
      BY <3>1 DEF InTime, Earlier, e
    <3>3. QED
      BY <2>1, <2>2, <2>3, <3>2
  <2>6. QED
    BY <1>7, <2>1, <2>4, <2>5 DEF Ends
<1>9. Calm' => Whole'
  <2> SUFFICES ASSUME Calm'
               PROVE  Whole'
    OBVIOUS
  <2>1. Calm /\ Whole
    BY <1>2 DEF Calm, ToldBy, Full
  <2>2. \A r \in Requests : ds[r].posted = asked[r].posted
    BY DEF Dispatched
  <2>3. \A j \in DOMAIN ordinary :
            \/ \E i \in DOMAIN ordinary' : ordinary'[i] = ordinary[j]
            \/ \E i \in Told("record")' : events'[i].request = ordinary[j].request
                                          /\ events'[i].number = ordinary[j].number
    BY <1>2 DEF ToldBy
  <2>4. \A r \in Requests : r \notin handled' => r \notin handled \/
            (Told("completed")' # {} /\ \A j \in DOMAIN ordinary' : ordinary'[j].request # r)
    <3> SUFFICES ASSUME NEW r \in handled, r \notin handled'
                 PROVE  /\ Told("completed")' # {}
                        /\ \A j \in DOMAIN ordinary' : ordinary'[j].request # r
      OBVIOUS
    <3>1. completes /\ r = m.request
      BY <1>1 DEF Grown
    <3>2. QED
      BY <1>2, <1>8, <3>1 DEF ToldBy
  <2>5. /\ \A i \in Told("record") : i \in Told("record")' /\ events'[i] = events[i]
        /\ Told("completed") \subseteq Told("completed")'
    BY <1>2 DEF ToldBy
  <2>6. QED
    BY <1>1, <2>1, <2>2, <2>3, <2>4, <2>5, WholeKept
<1>10. ASSUME NEW k \in Told("completed")', k \notin Told("completed"), ~LastIsInvalid',
              CalmBefore(k)', NEW r \in Requests', NEW n \in 1 .. asked'[r].posted
       PROVE  ToldBefore(k, r, n)'
  <2>1. /\ completes
        /\ \A type \in {"record", "error", "cancelled"} : \A i \in Told(type)' : i < k
    BY <1>2, <1>10 DEF ToldBy
  <2>2. \A type : Told(type)' \subseteq Int
    <3>1. events' \in Seq(Events')
      BY DEF TypeOK
    <3>2. DOMAIN events' = 1 .. Len(events')
      BY <3>1, LenProperties
    <3>3. QED
      BY <3>2 DEF Told
  <2>3. Calm'
    <3>1. ASSUME NEW type \in {"error", "cancelled"}, NEW i \in Told(type)'
          PROVE  FALSE
      <4>1. i < k /\ k < i
        BY <1>10, <2>1, <3>1 DEF CalmBefore
      <4>2. i \in Int /\ k \in Int
        BY <1>10, <2>2, <3>1
      <4>3. QED
        BY ONLY <4>1, <4>2
    <3>2. QED
      BY <3>1 DEF Calm
  <2>4. Waits(r, n)' \/ ToldAlready(r, n)'
    BY <1>9, <1>10, <2>3 DEF Whole
  <2>5. ~Waits(r, n)'
    BY <1>8, <1>10, <2>1 DEF Waits
  <2>6. QED
    BY <2>1, <2>4, <2>5 DEF ToldAlready, ToldBefore
<1>11. AllTold'
  <2>1. PICK es \in Seq(Events) : events' = events \o es
    BY <1>2 DEF ToldBy
  <2>2. \A r \in Requests : ds[r].total = asked[r].total /\ ds[r].posted = asked[r].posted
    BY DEF Dispatched
  <2>3. QED
    BY <1>0, <1>1, <1>10, <2>1, <2>2, AllToldKept DEF Full
<1>12. QED
  BY <1>7, <1>9, <1>11 DEF Full

LEMMA ReceiveFull ==
    ASSUME Order, TypeOK', InTime', Full, NEW m, Reachable(m), Receive(m),
           \/ ordinary' = ordinary /\ urgent # <<>> /\ m = Head(urgent) /\ urgent' = Tail(urgent)
           \/ ordinary # <<>> /\ m = Head(ordinary) /\ ordinary' = Tail(ordinary) /\ urgent' = urgent
    PROVE  Full'
<1>0. urgent \in Seq(Verdicts) /\ ordinary \in Seq(Records) /\ TypeOK
  BY DEF Order, TypeOK
<1>1. CASE ordinary' = ordinary /\ urgent # <<>> /\ m = Head(urgent) /\ urgent' = Tail(urgent)
  <2>1. /\ 1 \in DOMAIN urgent /\ m = urgent[1] /\ m \in Verdicts
        /\ \A i \in DOMAIN urgent' : i + 1 \in DOMAIN urgent /\ urgent'[i] = urgent[i + 1]
    BY <1>0, <1>1, HeadAndTail
  <2>2. NoNewMessage
    BY <1>1, <2>1 DEF NoNewMessage
  <2>3. \A j \in DOMAIN ordinary : \E i \in DOMAIN ordinary' : ordinary'[i] = ordinary[j]
    BY <1>1
  <2>4. /\ m.type \in {"success", "error", "invalid"}
        /\ m.type = "success" => ~m.end
        /\ m.type = "invalid" => asked[m.request].total = 0 /\ m.request \notin open
    BY <2>1 DEF Full, Ends, Verdicts, Messages, MessageTypes
  <2>5. CASE m.request \notin handled
             /\ UNCHANGED <<queue, asked, handled, request, open, events>>
    <3>1. Keeps(asked, handled)
      BY <2>5 DEF Keeps
    <3>2. QED
      BY <1>1, <2>2, <2>5, <3>1, QuietStep
  <2>6. CASE m.request \in handled /\ m.type = "error" /\ TellsError(m)
             /\ handled' = handled \ {m.request} /\ UNCHANGED <<queue, asked, request, open>>
    <3>1. Keeps(asked, handled')
      BY <2>6 DEF Keeps
    <3>2. QED
      BY <2>2, <2>6, <3>1, QuietStep DEF TellsError
  <2>7. ASSUME m.request \in handled, NEW ds, NEW completes \in BOOLEAN,
               Dispatched(m, ds, completes)
        PROVE  Full'
    <3>1. m.type # "error"
      BY <2>7 DEF Dispatched
    <3>2. m.end => asked[m.request].total = 0 /\ m.request \notin open
      BY <2>4, <3>1
    <3>3. QED
      BY <2>2, <2>3, <2>7, <3>2, DispatchFull
  <2>8. QED
    BY <2>5, <2>6, <2>7, ReceiveTells
<1>2. CASE ordinary # <<>> /\ m = Head(ordinary) /\ ordinary' = Tail(ordinary) /\ urgent' = urgent
  <2>1. /\ 1 \in DOMAIN ordinary /\ m = ordinary[1] /\ m \in Records
        /\ \A i \in DOMAIN ordinary' : i + 1 \in DOMAIN ordinary /\ ordinary'[i] = ordinary[i + 1]
        /\ DOMAIN ordinary = 1 .. Len(ordinary) /\ Len(ordinary) \in Nat
        /\ DOMAIN ordinary' = 1 .. Len(ordinary) - 1
    BY <1>0, <1>2, HeadAndTail
  <2>2. NoNewMessage
    BY <1>2, <2>1 DEF NoNewMessage
  <2>3. m.type = "record" /\ (m.end => m.number = asked[m.request].total)
    BY <2>1 DEF Full, Ends, Records
  <2>4. \A j \in DOMAIN ordinary :
            (\E i \in DOMAIN ordinary' : ordinary'[i] = ordinary[j]) \/ ordinary[j] = m
    <3> SUFFICES ASSUME NEW j \in DOMAIN ordinary, j # 1
                 PROVE  \E i \in DOMAIN ordinary' : ordinary'[i] = ordinary[j]
      BY <2>1
    <3>1. j - 1 \in DOMAIN ordinary' /\ (j - 1) + 1 = j
      BY ONLY <2>1, j \in DOMAIN ordinary, j # 1
    <3>2. ordinary'[j - 1] = ordinary[(j - 1) + 1]
      BY <2>1, <3>1
    <3>3. QED
      BY <3>1, <3>2
  <2>5. CASE m.request \notin handled
             /\ UNCHANGED <<queue, asked, handled, request, open, events>>
    <3>1. Keeps(asked, handled)
      BY <2>5 DEF Keeps
    <3>2. m.request \in Requests
      BY <2>1 DEF Records, Messages
    <3>3. ~Calm
      BY <2>1, <2>5, <3>2 DEF Full, Whole
    <3>4. QED
      BY <2>2, <2>5, <3>1, <3>3, QuietStep
  <2>6. CASE \E ds, completes : completes \in BOOLEAN /\ Dispatched(m, ds, completes)
    <3>1. PICK ds, completes : completes \in BOOLEAN /\ Dispatched(m, ds, completes)
      BY <2>6
    <3>2. CASE m.request \in handled
      BY <2>2, <2>3, <2>4, <3>1, <3>2, DispatchFull
    <3>3. CASE m.request \notin handled
      BY <2>3, <2>5, <3>3, ReceiveTells
    <3>4. QED
      BY <3>2, <3>3
  <2>7. QED
    BY <2>3, <2>5, <2>6, ReceiveTells
<1>3. QED
  BY <1>1, <1>2

(* The records of a request are told in the order of their numbers, so that*)
(* there are as many as there are numbers if every number is told.         *)
LEMMA EachOnce ==
    ASSUME TypeOK, InTime, NEW k, NEW r \in Requests,
           \A n \in 1 .. asked[r].posted : ToldBefore(k, r, n)
    PROVE  Cardinality({i \in Told("record") : i < k /\ events[i].request = r}) = asked[r].posted
<1> DEFINE N == asked[r].posted
           A == {i \in Told("record") : i < k /\ events[i].request = r}
           f == [i \in A |-> events[i].number]
<1>1. N \in Nat
  BY CountType
<1>2. /\ Told("record") \subseteq Int
      /\ \A i \in Told("record") : events[i].number \in 1 .. MaxRecords
  <2>1. events \in Seq(Events) /\ DOMAIN events = 1 .. Len(events)
    BY LenProperties DEF TypeOK
  <2>2. \A i \in DOMAIN events : events[i] \in Events
    BY <2>1, ElementOfSeq
  <2>3. \A e \in Events : e.type = "record" => e.number \in 1 .. MaxRecords
    BY DEF Events
  <2>4. QED
    BY <2>1, <2>2, <2>3 DEF Told
<1>3. \A i \in A : events[i].number \in 1 .. N
  <2> SUFFICES ASSUME NEW i \in A
               PROVE  events[i].number \in 1 .. N
    OBVIOUS
  <2>1. events[i].number \in Nat /\ events[i].number <= N
    BY DEF InTime, Posted
  <2>2. events[i].number \in 1 .. MaxRecords
    BY <1>2
  <2>3. QED
    BY ONLY <1>1, <2>1, <2>2, NumberAssumption
<1>4. \A i, j \in A : events[i].number = events[j].number => i = j
  <2> SUFFICES ASSUME NEW i \in A, NEW j \in A, i < j
               PROVE  events[i].number # events[j].number
    BY <1>2
  <2>1. Earlier(events[i], events[j])
    BY DEF InTime, RecordsInOrder
  <2>2. r \in Int /\ events[i].number \in Int /\ events[j].number \in Int
    BY <1>2 DEF Requests
  <2>3. events[i].request = r /\ events[j].request = r
    OBVIOUS
  <2>4. QED
    BY <2>1, <2>2, <2>3 DEF Earlier
<1>5. \A n \in 1 .. N : \E i \in A : events[i].number = n
  BY DEF ToldBefore
<1> HIDE DEF A, N
<1>6. f \in Bijection(A, 1 .. N)
  <2>1. f \in [A -> 1 .. N] /\ \A i, j \in A : f[i] = f[j] => i = j
    BY <1>3, <1>4
  <2>2. \A n \in 1 .. N : \E i \in A : f[i] = n
    BY <1>5
  <2> HIDE DEF f
  <2>3. QED
    BY <2>1, <2>2, Fun_IsBij
<1>7. IsFiniteSet(1 .. N) /\ Cardinality(1 .. N) = N
  <2>1. /\ IsFiniteSet(1 .. N)
        /\ Cardinality(1 .. N) = IF 1 > N THEN 0 ELSE N - 1 + 1
    BY <1>1, FS_Interval
  <2>2. QED
    BY <1>1, <2>1
<1>8. ExistsBijection(1 .. N, A)
  <2>1. ExistsBijection(A, 1 .. N)
    BY <1>6, Fun_ExistsBij
  <2>2. QED
    BY <2>1, Fun_ExistsBijSymmetric
<1>9. Cardinality(A) = N
  BY <1>7, <1>8, FS_Bijection
<1>10. QED
  BY <1>9 DEF A, N

(* "completed" means that the whole day was asked for, every interval      *)
(* answered and every record told, unless the listener knows better by an  *)
(* error or the cancellation, messages were lost, or the last interval had *)
(* no valid answer.                                                        *)
THEOREM CompletedIsTrue == Spec => []CompletedMeansAll
<1> DEFINE I == ~lost => Full
<1>1. Init => I
  BY DEF Init, InTime, Full, Ends, Whole, AllTold, Told, RecordsInOrder, Requests
<1>2. Order /\ TypeOK' /\ InTime /\ InTime' /\ I /\ [Next]_vars => I'
  <2> SUFFICES ASSUME Order, TypeOK', InTime, InTime', I, [Next]_vars, ~lost'
               PROVE  Full'
    OBVIOUS
  <2>0. ~lost /\ ~LoseTheRest /\ ~Escape
    <3>1. LoseTheRest \/ Escape => lost' = TRUE
      BY DEF LoseTheRest, Escape
    <3>2. LoseTheRest \/ Escape \/ lost' = lost
      BY DEF Next, Call, Cancel, LogIn, LogOut, ReceiveUrgent, ReceiveOrdinary, Respond, Race, vars
    <3>3. lost \in BOOLEAN /\ lost' \in BOOLEAN
      BY DEF Order, TypeOK
    <3>4. QED
      BY <3>1, <3>2, <3>3
  <2> Full
    BY <2>0
  <2>1. CASE ReceiveUrgent
    <3> DEFINE m == Head(urgent)
    <3>1. urgent # <<>> /\ Receive(m) /\ ordinary' = ordinary /\ urgent' = Tail(urgent)
      BY <2>1 DEF ReceiveUrgent
    <3>2. m \in Verdicts
      BY <3>1, HeadTailProperties DEF Order, TypeOK
    <3>3. Continues(m) => m.request = Len(asked) /\ queue = <<>> /\ open = {}
      BY <3>1, HeadIsSingle DEF Order
    <3>4. Reachable(m)
      BY <3>2, <3>3 DEF Reachable
    <3>5. QED
      BY <3>1, <3>4, ReceiveFull
  <2>2. CASE ReceiveOrdinary
    <3>1. /\ ordinary # <<>> /\ Receive(Head(ordinary)) /\ ordinary' = Tail(ordinary)
          /\ urgent' = urgent
      BY <2>2 DEF ReceiveOrdinary
    <3>2. Head(ordinary) \in Records
      BY <3>1, HeadTailProperties DEF Order, TypeOK
    <3>3. Reachable(Head(ordinary))
      BY <3>2 DEF Reachable, Records, Continues
    <3>4. QED
      BY <3>1, <3>3, ReceiveFull
  <2>3. CASE UNCHANGED vars
    <3>1. /\ Keeps(asked, handled) /\ ordinary' = ordinary /\ urgent' = urgent
          /\ events' = events
      BY <2>3 DEF vars, channel, Keeps
    <3>2. NoNewMessage
      BY <3>1 DEF NoNewMessage
    <3>3. QED
      BY <3>1, <3>2, QuietStep
  <2>4. QED
    BY <2>0, <2>1, <2>2, <2>3, ClientFull, RespondFull DEF Next
<1>3. Order /\ InTime /\ I => CompletedMeansAll
  <2> SUFFICES ASSUME Order, InTime, I, ~lost, NEW k \in Told("completed"), ~LastIsInvalid,
                      \A i \in Told("error") \cup Told("cancelled") : k < i
               PROVE  /\ Len(asked) = Intervals /\ open = {} /\ queue = <<>>
                      /\ \A r \in Requests :
                            Cardinality({i \in Told("record") : i < k /\ events[i].request = r})
                                = asked[r].posted
    BY DEF CompletedMeansAll
  <2> Full
    OBVIOUS
  <2>1. Len(asked) = Intervals /\ open = {}
    BY DEF Full, Ends
  <2>2. queue = <<>>
    <3>1. ~(Len(asked) < Intervals)
      BY ONLY <2>1, NumberAssumption
    <3>2. QED
      BY <3>1, Zenon DEF Order, Chain
  <2>3. \A r \in Requests : \A n \in 1 .. asked[r].posted : ToldBefore(k, r, n)
    BY DEF Full, AllTold, CalmBefore
  <2>4. QED
    BY <2>1, <2>2, <2>3, EachOnce DEF Order
<1>4. Order => TypeOK
  BY DEF Order
<1>5. QED
  BY <1>1, <1>2, <1>3, <1>4, OrderAlways, InTimeAlways, PTL DEF Spec
=============================================================================
