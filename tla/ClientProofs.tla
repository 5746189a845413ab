---------------------------- MODULE ClientProofs ----------------------------
(***************************************************************************)
(* An action that waits for the login is carried out once, and what is     *)
(* subscribed is streamed, for any number of symbols, fetches, sessions,   *)
(* links, changes and accidents.                                           *)
(***************************************************************************)
EXTENDS Client, FiniteSetTheorems, FunctionTheorems, SequenceTheorems, TLAPS

Places(q, f) == {i \in DOMAIN q : q[i] = f}
Actions == {"subscribeAll"} \cup Fetches

LEMMA PlacesAreFinite ==
    ASSUME NEW S, NEW q \in Seq(S), NEW f
    PROVE  IsFiniteSet(Places(q, f)) /\ Cardinality(Places(q, f)) \in Nat
<1>1. Len(q) \in Nat /\ Places(q, f) \subseteq 1 .. Len(q)
  BY LenProperties DEF Places
<1>2. IsFiniteSet(1 .. Len(q))
  BY <1>1, FS_Interval
<1>3. IsFiniteSet(Places(q, f))
  BY <1>1, <1>2, FS_Subset
<1>4. QED
  BY <1>3, FS_CardinalityType

(* An action that is put behind the others waits once more.                *)
LEMMA OneMorePlace ==
    ASSUME NEW S, NEW q \in Seq(S), NEW e \in S, NEW f
    PROVE  Cardinality(Places(Append(q, e), f)) =
               IF e = f THEN Cardinality(Places(q, f)) + 1 ELSE Cardinality(Places(q, f))
<1> DEFINE r == Append(q, e)
<1>1. /\ Len(q) \in Nat /\ DOMAIN q = 1 .. Len(q) /\ DOMAIN r = 1 .. Len(q) + 1
      /\ \A i \in 1 .. Len(q) : r[i] = q[i]
      /\ r[Len(q) + 1] = e
  BY LenProperties, AppendProperties
<1> HIDE DEF r
<1>2. \A i \in DOMAIN r : i \in DOMAIN q \/ i = Len(q) + 1
  BY ONLY <1>1
<1>3. Len(q) + 1 \notin DOMAIN q /\ DOMAIN q \subseteq DOMAIN r /\ Len(q) + 1 \in DOMAIN r
  BY ONLY <1>1
<1>4. CASE e = f
  <2>1. Places(r, f) = Places(q, f) \cup {Len(q) + 1}
    BY <1>1, <1>2, <1>3, <1>4 DEF Places
  <2>2. Len(q) + 1 \notin Places(q, f)
    BY <1>3 DEF Places
  <2>3. QED
    BY <1>4, <2>1, <2>2, PlacesAreFinite, FS_AddElement DEF r
<1>5. CASE e # f
  <2>1. Places(r, f) = Places(q, f)
    BY <1>1, <1>2, <1>3, <1>5 DEF Places
  <2>2. QED
    BY <1>5, <2>1 DEF r
<1>6. QED
  BY <1>4, <1>5

(* Nothing but subscribeAll waits after a login and on a new connection.   *)
LEMMA NobodyWaits ==
    ASSUME NEW f \in Fetches
    PROVE  Cardinality(Places(<<"subscribeAll">>, f)) = 0
<1>1. Places(<<"subscribeAll">>, f) = {}
  BY BoundAssumption DEF Places
<1>2. QED
  BY <1>1, FS_EmptySet

-----------------------------------------------------------------------------
(* EachActionOnce with the types it depends on is inductive.               *)
Once ==
    /\ queue \in Seq(Actions)
    /\ issued \in [Fetches -> Nat]
    /\ EachActionOnce

LEMMA WaitingIsNat ==
    ASSUME Once, NEW f \in Fetches
    PROVE  Waiting(f) \in Nat /\ Waiting(f) = Cardinality(Places(queue, f))
BY PlacesAreFinite DEF Once, Waiting, Places

LEMMA FrameKeepsOnce ==
    ASSUME Once, UNCHANGED <<queue, issued, called>>, loggedIn' => loggedIn
    PROVE  Once'
<1>1. \A f \in Fetches : Waiting(f)' = Waiting(f)
  BY DEF Waiting
<1>2. EachActionOnce'
  BY <1>1 DEF Once, EachActionOnce
<1>3. QED
  BY <1>2 DEF Once

LEMMA NewClosureIsOnce ==
    ASSUME NewClosure
    PROVE  Once'
<1>1. \A f \in Fetches : Waiting(f)' = 0
  BY NobodyWaits DEF NewClosure, Waiting, Places
<1>2. queue' \in Seq(Actions)
  BY DEF NewClosure, Actions
<1>3. /\ issued' \in [Fetches -> Nat] /\ called' = {} /\ loggedIn' = FALSE
      /\ \A f \in Fetches : issued'[f] = 0
  BY DEF NewClosure
<1>4. EachActionOnce'
  BY ONLY <1>1, <1>3 DEF EachActionOnce
<1>5. QED
  BY <1>2, <1>3, <1>4 DEF Once

LEMMA FetchKeepsOnce ==
    ASSUME Once, NEW f \in Fetches, Fetch(f)
    PROVE  Once'
<1>1. f \notin called /\ called' = called \cup {f} /\ loggedIn' = loggedIn
  BY DEF Fetch
<1>2. issued[f] \in Nat /\ issued[f] + Waiting(f) = 0 /\ Waiting(f) \in Nat
  BY <1>1, WaitingIsNat DEF Once, EachActionOnce
<1>3. issued[f] = 0 /\ Waiting(f) = 0
  BY ONLY <1>2
<1>4. CASE loggedIn
  <2>1. issued' = [issued EXCEPT ![f] = @ + 1] /\ queue' = queue
    BY <1>4 DEF Fetch
  <2>2. \A g \in Fetches : Waiting(g)' = Waiting(g)
    BY <2>1 DEF Waiting
  <2>3. issued' \in [Fetches -> Nat] /\ issued'[f] = 1
        /\ \A g \in Fetches : g # f => issued'[g] = issued[g]
    BY <1>2, <1>3, <2>1 DEF Once
  <2>4. EachActionOnce'
    <3> SUFFICES ASSUME NEW g \in Fetches
                 PROVE  /\ issued'[g] + Waiting(g)' = IF g \in called' THEN 1 ELSE 0
                        /\ loggedIn' => Waiting(g)' = 0
      BY DEF EachActionOnce
    <3>1. issued[g] + Waiting(g) = (IF g \in called THEN 1 ELSE 0) /\ Waiting(g) = 0
      BY <1>4 DEF Once, EachActionOnce
    <3>2. CASE g = f
      BY ONLY <1>1, <1>3, <2>2, <2>3, <3>2
    <3>3. CASE g # f
      BY ONLY <1>1, <2>2, <2>3, <3>1, <3>3
    <3>4. QED
      BY <3>2, <3>3
  <2>5. QED
    BY <2>1, <2>3, <2>4 DEF Once
<1>5. CASE ~loggedIn
  <2>1. queue' = Append(queue, f) /\ issued' = issued
    BY <1>5 DEF Fetch
  <2>2. f \in Actions /\ queue \in Seq(Actions)
    BY DEF Actions, Once
  <2>3. queue' \in Seq(Actions)
    BY <2>1, <2>2, AppendProperties
  <2>4. ASSUME NEW g \in Fetches
        PROVE  Waiting(g)' = IF f = g THEN Waiting(g) + 1 ELSE Waiting(g)
    <3>1. Waiting(g)' = Cardinality(Places(Append(queue, f), g))
      BY ONLY <2>1 DEF Waiting, Places
    <3>2. Waiting(g) = Cardinality(Places(queue, g))
      BY DEF Waiting, Places
    <3>3. QED
      BY ONLY <2>2, <3>1, <3>2, OneMorePlace
  <2>5. EachActionOnce'
    <3> SUFFICES ASSUME NEW g \in Fetches
                 PROVE  /\ issued'[g] + Waiting(g)' = IF g \in called' THEN 1 ELSE 0
                        /\ loggedIn' => Waiting(g)' = 0
      BY DEF EachActionOnce
    <3>1. issued[g] + Waiting(g) = IF g \in called THEN 1 ELSE 0
      BY DEF Once, EachActionOnce
    <3>2. CASE g = f
      BY ONLY <1>1, <1>3, <1>5, <2>1, <2>4, <3>2
    <3>3. CASE g # f
      BY ONLY <1>1, <1>5, <2>1, <2>4, <3>1, <3>3
    <3>4. QED
      BY <3>2, <3>3
  <2>6. QED
    BY <2>1, <2>3, <2>5 DEF Once
<1>6. QED
  BY <1>4, <1>5

(* A login carries out what waits: issued grows by as much.                *)
LEMMA LoginKeepsOnce ==
    ASSUME Once, NEW m, OnLogin(m)
    PROVE  Once'
<1>1. called' = called
  BY DEF OnLogin
<1>2. CASE m.value = "success"
  <2>1. /\ loggedIn' = TRUE /\ queue' = <<"subscribeAll">>
        /\ issued' = [f \in Fetches |-> issued[f] + Waiting(f)]
    BY <1>2 DEF OnLogin, QueueAfterLogin
  <2>2. \A f \in Fetches : Waiting(f)' = 0
    BY <2>1, NobodyWaits DEF Waiting, Places
  <2>3. queue' \in Seq(Actions)
    BY <2>1 DEF Actions
  <2>4. \A f \in Fetches : issued[f] \in Nat /\ Waiting(f) \in Nat
    BY WaitingIsNat DEF Once
  <2>5. issued' \in [Fetches -> Nat]
    BY <2>1, <2>4
  <2>6. QED
    BY <1>1, <2>1, <2>2, <2>3, <2>4, <2>5 DEF Once, EachActionOnce
<1>3. CASE m.value # "success"
  BY <1>1, <1>3, FrameKeepsOnce DEF OnLogin
<1>4. QED
  BY <1>2, <1>3

LEMMA ReceiveKeepsOnce ==
    ASSUME Once, NEW m, Receive(m)
    PROVE  Once'
<1>1. CASE OnLogin(m)
  BY <1>1, LoginKeepsOnce
<1>2. CASE OnConnected(m) \/ OnDisconnected(m) \/ OnLoginError(m) \/ OnStale(m)
  BY <1>2, FrameKeepsOnce DEF OnConnected, OnDisconnected, OnLoginError, OnStale, closure
<1>3. QED
  BY <1>1, <1>2 DEF Receive

(* quotes(), daily() and holidays() hand their request to whenLoggedIn():  *)
(* it is made once, now or by a later login, however often the session is  *)
(* lost and logged in again, and it does not wait while logged in.         *)
THEOREM ActionsOnce == Spec => []EachActionOnce
<1>1. Init => Once
  <2> SUFFICES ASSUME Init PROVE Once
    OBVIOUS
  <2>1. \A f \in Fetches : Waiting(f) = 0
    BY NobodyWaits DEF Init, Waiting, Places
  <2>2. queue \in Seq(Actions)
    BY DEF Init, Actions
  <2>3. QED
    BY <2>1, <2>2 DEF Init, Once, EachActionOnce
<1>2. Once /\ [Next]_vars => Once'
  <2> SUFFICES ASSUME Once, [Next]_vars PROVE Once'
    OBVIOUS
  <2>1. CASE Application
    <3>1. CASE Connect
      BY <3>1, NewClosureIsOnce DEF Connect
    <3>2. CASE ConnectFails \/ Disconnect
      BY <3>2, FrameKeepsOnce DEF ConnectFails, Disconnect, closure
    <3>3. CASE \E s \in Symbols : Subscribe(s) \/ Unsubscribe(s)
      BY <3>3, FrameKeepsOnce DEF Subscribe, Unsubscribe
    <3>4. CASE \E f \in Fetches : Fetch(f)
      BY <3>4, FetchKeepsOnce
    <3>5. QED
      BY <2>1, <3>1, <3>2, <3>3, <3>4 DEF Application
  <2>2. CASE Receiving
    <3>1. CASE ReceiveUrgent \/ ReceiveOrdinary
      BY <3>1, ReceiveKeepsOnce DEF ReceiveUrgent, ReceiveOrdinary
    <3>2. CASE OnError
      BY <3>2, FrameKeepsOnce DEF OnError, closure
    <3>3. QED
      BY <2>2, <3>1, <3>2 DEF Receiving
  <2>3. CASE Serving \/ Reporting
    BY <2>3, FrameKeepsOnce
       DEF Serving, Reporting, ServeLogin, ServeSubscription, onLoginResponse,
           onRequestTimeout, closure
  <2>4. CASE LinkUp \/ LinkDown \/ LoseRequest \/ UpdateFails \/ UNCHANGED vars
    BY <2>4, FrameKeepsOnce DEF LinkUp, LinkDown, LoseRequest, UpdateFails, vars, closure
  <2>5. QED
    BY <2>1, <2>2, <2>3, <2>4 DEF Next
<1>3. Once => EachActionOnce
  BY DEF Once
<1>4. QED
  BY <1>1, <1>2, <1>3, PTL DEF Spec
-----------------------------------------------------------------------------
(* Why what is subscribed is streamed.  With the requests q on their way   *)
(* and the feed f, the server will stream s or not: as the last request    *)
(* about s says, or as it does now if there is none.                       *)
AboutIn(q, s) == {i \in DOMAIN q : q[i].what = s}
IsLast(q, s, i) == i \in AboutIn(q, s) /\ \A k \in AboutIn(q, s) : k <= i
Turns(q, f, s, on) ==
    \/ AboutIn(q, s) = {} /\ (s \in f <=> on)
    \/ \E i \in DOMAIN q : IsLast(q, s, i) /\ (q[i].kind = "subscribe" <=> on)

Numbers == Nat \ {0}
RequestSet ==
    [kind : {"login"}, what : Numbers] \cup [kind : {"subscribe", "unsubscribe"}, what : Symbols]

LEMMA RequestKinds ==
    /\ \A n \in Numbers : Request("login", n) \in RequestSet
    /\ \A s \in Symbols : /\ Request("subscribe", s) \in RequestSet
                          /\ Request("unsubscribe", s) \in RequestSet
    /\ \A k, w : Request(k, w).kind = k /\ Request(k, w).what = w
    /\ \A r \in RequestSet : r.kind = "login" =>
          r = Request("login", r.what) /\ r.what \in Numbers /\ r.what \notin Symbols
    /\ \A r \in RequestSet : r.kind # "login" => r.what \in Symbols
BY BoundAssumption DEF Request, RequestSet, Numbers

LEMMA TurnsWill ==
    ASSUME NEW s, NEW on \in BOOLEAN, Turns(sent, feed, s, on), sent \in Seq(RequestSet)
    PROVE  WillStream(s) <=> on
<1> DEFINE about == {i \in DOMAIN sent : sent[i].what = s}
<1>1. CASE AboutIn(sent, s) = {} /\ (s \in feed <=> on)
  BY <1>1 DEF WillStream, AboutIn
<1>2. ASSUME NEW i \in DOMAIN sent, IsLast(sent, s, i), sent[i].kind = "subscribe" <=> on
      PROVE  WillStream(s) <=> on
  <2>1. i \in about /\ \A k \in about : k <= i
    BY <1>2 DEF IsLast, AboutIn
  <2>2. about \subseteq Int
    BY LenProperties
  <2>3. (CHOOSE j \in about : \A k \in about : k <= j) = i
    <3> DEFINE j == CHOOSE j \in about : \A k \in about : k <= j
    <3>1. j \in about /\ \A k \in about : k <= j
      BY <2>1
    <3> HIDE DEF j
    <3>2. j <= i /\ i <= j
      BY <2>1, <3>1
    <3>3. j = i
      BY <2>1, <2>2, <3>1, <3>2
    <3>4. QED
      BY <3>3 DEF j
  <2>4. about # {}
    BY <2>1
  <2>5. QED
    BY <1>2, <2>3, <2>4 DEF WillStream
<1>3. QED
  BY <1>1, <1>2 DEF Turns

(* A sequence and one element more.                                        *)
LEMMA Behind ==
    ASSUME NEW S, NEW q \in Seq(S), NEW r \in S
    PROVE  /\ Append(q, r) \in Seq(S) /\ Len(q) \in Nat /\ Len(Append(q, r)) = Len(q) + 1
           /\ DOMAIN q = 1 .. Len(q) /\ DOMAIN Append(q, r) = 1 .. Len(q) + 1
           /\ \A i \in DOMAIN q : i \in DOMAIN Append(q, r) /\ Append(q, r)[i] = q[i] /\ i <= Len(q)
           /\ Append(q, r)[Len(q) + 1] = r
           /\ \A i \in DOMAIN Append(q, r) : i \in DOMAIN q \/ i = Len(q) + 1
<1> DEFINE a == Append(q, r)
<1>1. /\ a \in Seq(S) /\ Len(a) = Len(q) + 1 /\ Len(q) \in Nat
      /\ \A i \in 1 .. Len(q) : a[i] = q[i]
      /\ a[Len(q) + 1] = r
  BY AppendProperties, LenProperties
<1>2. DOMAIN q = 1 .. Len(q) /\ DOMAIN a = 1 .. Len(a)
  BY <1>1, LenProperties
<1> HIDE DEF a
<1>3. /\ \A i \in DOMAIN q : i \in DOMAIN a /\ a[i] = q[i] /\ i <= Len(q)
      /\ \A i \in DOMAIN a : i \in DOMAIN q \/ i = Len(q) + 1
  BY ONLY <1>1, <1>2
<1>4. QED
  BY <1>1, <1>2, <1>3 DEF a

(* A sequence without its first element.                                   *)
LEMMA InFront ==
    ASSUME NEW S, NEW q \in Seq(S), q # <<>>
    PROVE  /\ Head(q) \in S /\ Head(q) = q[1] /\ 1 \in DOMAIN q
           /\ Tail(q) \in Seq(S) /\ DOMAIN q \subseteq Int /\ DOMAIN Tail(q) \subseteq Int
           /\ \A i \in DOMAIN q : 1 <= i
           /\ \A i \in DOMAIN Tail(q) : i + 1 \in DOMAIN q /\ 1 < i + 1 /\ Tail(q)[i] = q[i + 1]
           /\ \A i \in DOMAIN q : i = 1 \/ (i - 1 \in DOMAIN Tail(q) /\ Tail(q)[i - 1] = q[i])
<1> DEFINE t == Tail(q)
<1>1. /\ Head(q) \in S /\ t \in Seq(S) /\ Len(t) = Len(q) - 1
      /\ \A i \in 1 .. Len(t) : t[i] = q[i + 1]
  BY HeadTailProperties
<1>2. DOMAIN q = 1 .. Len(q) /\ DOMAIN t = 1 .. Len(t) /\ Len(q) \in Nat \ {0}
  BY <1>1, LenProperties, EmptySeq
<1>3. Head(q) = q[1]
  BY <1>2
<1> HIDE DEF t
<1>4. \A i \in DOMAIN t : i + 1 \in DOMAIN q /\ 1 < i + 1 /\ t[i] = q[i + 1]
  BY ONLY <1>1, <1>2
<1>5. \A i \in DOMAIN q : i = 1 \/ (i - 1 \in DOMAIN t /\ t[i - 1] = q[i])
  <2> SUFFICES ASSUME NEW i \in DOMAIN q, i # 1
               PROVE  i - 1 \in DOMAIN t /\ t[i - 1] = q[i]
    OBVIOUS
  <2>1. i - 1 \in DOMAIN t /\ (i - 1) + 1 = i
    BY <1>1, <1>2
  <2>2. QED
    BY <1>4, <2>1
<1>6. /\ DOMAIN q \subseteq Int /\ DOMAIN t \subseteq Int
      /\ 1 \in DOMAIN q /\ \A i \in DOMAIN q : 1 <= i
  BY ONLY <1>1, <1>2
<1>7. QED
  BY <1>1, <1>3, <1>4, <1>5, <1>6 DEF t

(* What one request more does, about s or not.                             *)
LEMMA TurnsAside ==
    ASSUME NEW q \in Seq(RequestSet), NEW r \in RequestSet, NEW f, NEW s, NEW on, r.what # s,
           Turns(q, f, s, on)
    PROVE  Turns(Append(q, r), f, s, on)
<1>1. AboutIn(Append(q, r), s) = AboutIn(q, s)
  BY Behind DEF AboutIn
<1>2. \A i \in DOMAIN q : i \in DOMAIN Append(q, r) /\ Append(q, r)[i] = q[i]
  BY Behind
<1>3. QED
  BY <1>1, <1>2 DEF Turns, IsLast

LEMMA TurnsNow ==
    ASSUME NEW q \in Seq(RequestSet), NEW r \in RequestSet, NEW f
    PROVE  \A on : (r.kind = "subscribe" <=> on) => Turns(Append(q, r), f, r.what, on)
<1> DEFINE a == Append(q, r)
           i == Len(q) + 1
<1>1. i \in DOMAIN a /\ a[i] = r /\ \A k \in DOMAIN a : k <= i
  BY Behind
<1>2. IsLast(a, r.what, i)
  BY <1>1 DEF IsLast, AboutIn
<1>3. QED
  BY <1>1, <1>2 DEF Turns

(* What it does to s that the server works off a request.                  *)
LEMMA TurnsServed ==
    ASSUME NEW q \in Seq(RequestSet), q # <<>>, NEW f, NEW g, NEW s, NEW on \in BOOLEAN,
           Turns(q, f, s, on),
           Head(q).what # s => (s \in g <=> s \in f),
           Head(q).what = s => ((s \in g <=> Head(q).kind = "subscribe") \/ (~on /\ s \notin g))
    PROVE  Turns(Tail(q), g, s, on)
<1> DEFINE t == Tail(q)
<1>0. /\ Head(q) = q[1] /\ 1 \in DOMAIN q
      /\ DOMAIN q \subseteq Int /\ DOMAIN t \subseteq Int
      /\ \A i \in DOMAIN q : 1 <= i
      /\ \A i \in DOMAIN t : i + 1 \in DOMAIN q /\ 1 < i + 1 /\ t[i] = q[i + 1]
      /\ \A i \in DOMAIN q : i = 1 \/ (i - 1 \in DOMAIN t /\ t[i - 1] = q[i])
  BY InFront
<1> HIDE DEF t
<1>1. CASE AboutIn(q, s) = {} /\ (s \in f <=> on)
  <2>1. q[1].what # s
    BY <1>0, <1>1 DEF AboutIn
  <2>2. AboutIn(t, s) = {}
    BY <1>0, <1>1 DEF AboutIn
  <2>3. QED
    BY <1>0, <1>1, <2>1, <2>2 DEF Turns, t
<1>2. ASSUME NEW i \in DOMAIN q, IsLast(q, s, i), q[i].kind = "subscribe" <=> on
      PROVE  Turns(t, g, s, on)
  <2>1. q[i].what = s /\ \A k \in DOMAIN q : q[k].what = s => k <= i
    BY <1>2 DEF IsLast, AboutIn
  <2>2. CASE i = 1
    <3>1. AboutIn(t, s) = {}
      <4> SUFFICES ASSUME NEW k \in DOMAIN t, t[k].what = s
                   PROVE  FALSE
        BY DEF AboutIn
      <4>1. k + 1 <= 1 /\ 1 < k + 1 /\ k \in Int
        BY <1>0, <2>1, <2>2
      <4>2. QED
        BY ONLY <4>1
    <3>2. s \in g <=> on
      BY <1>0, <1>2, <2>1, <2>2
    <3>3. QED
      BY <3>1, <3>2 DEF Turns
  <2>3. CASE i # 1
    <3>1. i - 1 \in DOMAIN t /\ t[i - 1] = q[i]
      BY <1>0, <2>3
    <3>2. \A k \in DOMAIN t : t[k].what = s => k <= i - 1
      <4> SUFFICES ASSUME NEW k \in DOMAIN t, t[k].what = s
                   PROVE  k <= i - 1
        OBVIOUS
      <4>1. k + 1 <= i /\ k \in Int /\ i \in Int
        BY <1>0, <2>1
      <4>2. QED
        BY ONLY <4>1
    <3>3. IsLast(t, s, i - 1)
      BY <2>1, <3>1, <3>2 DEF IsLast, AboutIn
    <3>4. QED
      BY <1>2, <3>1, <3>3 DEF Turns
  <2>4. QED
    BY <2>2, <2>3
<1>3. QED
  BY <1>1, <1>2 DEF Turns, t

(* What a login sends for all subscriptions.                               *)
LEMMA EverySubscription ==
    ASSUME IsFiniteSet(subscriptions), subscriptions \subseteq Symbols
    PROVE  /\ subscribeAll \in Seq(RequestSet)
           /\ \A i \in DOMAIN subscribeAll :
                 subscribeAll[i].kind = "subscribe" /\ subscribeAll[i].what \in subscriptions
           /\ \A i, j \in DOMAIN subscribeAll :
                 subscribeAll[i].what = subscribeAll[j].what => i = j
           /\ \A s \in subscriptions : \E i \in DOMAIN subscribeAll : subscribeAll[i].what = s
<1> DEFINE N == Cardinality(subscriptions)
           symbols == SetToSeq(subscriptions)
<1>1. N \in Nat
  BY FS_CardinalityType
<1>2. ExistsBijection(1 .. N, subscriptions)
  BY FS_CardinalityType
<1>3. PICK b : b \in Bijection(1 .. N, subscriptions)
  BY <1>2, Fun_ExistsBij
<1>4. b \in [1 .. N -> subscriptions] /\ \A i, j \in 1 .. N : b[i] = b[j] => i = j
  BY <1>3 DEF Bijection, Injection, IsInjective
<1>5. symbols \in [1 .. N -> subscriptions] /\ IsInjective(symbols)
  <2>1. IsInjective(b)
    BY <1>4 DEF IsInjective
  <2>2. QED
    BY <1>4, <2>1 DEF SetToSeq
<1> HIDE DEF symbols, N
<1>6. symbols \in Injection(1 .. N, subscriptions)
  BY <1>5 DEF Injection
<1>7. symbols \in Surjection(1 .. N, subscriptions)
  <2>1. Cardinality(1 .. N) = N /\ IsFiniteSet(1 .. N)
    <3>1. /\ IsFiniteSet(1 .. N)
          /\ Cardinality(1 .. N) = IF 1 > N THEN 0 ELSE N - 1 + 1
      BY <1>1, FS_Interval
    <3>2. QED
      BY <1>1, <3>1
  <2>2. QED
    BY <1>6, <2>1, FS_Injection DEF N
<1>8. \A s \in subscriptions : \E i \in 1 .. N : symbols[i] = s
  BY <1>7 DEF Surjection
<1>9. subscribeAll = [i \in 1 .. N |-> Request("subscribe", symbols[i])]
  BY <1>5 DEF subscribeAll, symbols
<1>10. subscribeAll \in [1 .. N -> RequestSet]
  BY <1>5, <1>9, RequestKinds
<1>11. subscribeAll \in Seq(RequestSet)
  BY <1>1, <1>10
<1>12. /\ DOMAIN subscribeAll = 1 .. N
       /\ \A i \in 1 .. N : subscribeAll[i] = Request("subscribe", symbols[i])
  BY <1>9
<1>13. \A i \in 1 .. N : subscribeAll[i].kind = "subscribe" /\ subscribeAll[i].what = symbols[i]
  BY <1>12, RequestKinds
<1>14. \A i \in 1 .. N : symbols[i] \in subscriptions
  BY <1>5
<1>15. \A i, j \in 1 .. N : symbols[i] = symbols[j] => i = j
  BY <1>5 DEF IsInjective
<1>16. \A s \in subscriptions : \E i \in 1 .. N : subscribeAll[i].what = s
  <2> SUFFICES ASSUME NEW s \in subscriptions
               PROVE  \E i \in 1 .. N : subscribeAll[i].what = s
    OBVIOUS
  <2>1. PICK i \in 1 .. N : symbols[i] = s
    BY <1>8
  <2>2. QED
    BY <1>13, <2>1
<1>17. \A i, j \in 1 .. N : subscribeAll[i].what = subscribeAll[j].what => i = j
  BY <1>13, <1>15
<1>18. QED
  BY ONLY <1>11, <1>12, <1>13, <1>14, <1>16, <1>17

(* Sent together, one for each symbol, they turn all of these on.          *)
LEMMA TurnsOn ==
    ASSUME NEW q \in Seq(RequestSet), NEW rs \in Seq(RequestSet),
           \A i \in DOMAIN rs : rs[i].kind = "subscribe",
           \A i, j \in DOMAIN rs : rs[i].what = rs[j].what => i = j,
           NEW f, NEW s
    PROVE  /\ (\E i \in DOMAIN rs : rs[i].what = s) => Turns(q \o rs, f, s, TRUE)
           /\ (\A i \in DOMAIN rs : rs[i].what # s) =>
                 \A on : Turns(q, f, s, on) => Turns(q \o rs, f, s, on)
<1> DEFINE a == q \o rs
<1>0. /\ Len(q) \in Nat /\ Len(rs) \in Nat
      /\ DOMAIN q = 1 .. Len(q) /\ DOMAIN rs = 1 .. Len(rs)
      /\ DOMAIN a = 1 .. Len(q) + Len(rs)
      /\ \A i \in 1 .. Len(q) : a[i] = q[i]
      /\ \A i \in Len(q) + 1 .. Len(q) + Len(rs) : a[i] = rs[i - Len(q)]
  BY ConcatProperties, LenProperties
<1> HIDE DEF a
<1>1. /\ DOMAIN q \subseteq DOMAIN a
      /\ \A i \in DOMAIN a : i \in DOMAIN q \/ (i - Len(q) \in DOMAIN rs /\ a[i] = rs[i - Len(q)])
      /\ \A i \in DOMAIN rs : Len(q) + i \in DOMAIN a /\ a[Len(q) + i] = rs[i]
      /\ \A i \in DOMAIN q : i <= Len(q)
  BY <1>0
<1>2. ASSUME NEW i \in DOMAIN rs, rs[i].what = s
      PROVE  Turns(a, f, s, TRUE)
  <2>1. \A k \in DOMAIN a : a[k].what = s => k <= Len(q) + i
    <3> SUFFICES ASSUME NEW k \in DOMAIN a, a[k].what = s
                 PROVE  k <= Len(q) + i
      OBVIOUS
    <3>1. CASE k \in DOMAIN q
      BY <1>0, <1>1, <3>1
    <3>2. CASE k - Len(q) \in DOMAIN rs /\ a[k] = rs[k - Len(q)]
      <4>1. k - Len(q) = i
        BY <1>2, <3>2
      <4>2. QED
        BY <1>0, <4>1
    <3>3. QED
      BY <1>1, <3>1, <3>2
  <2>2. IsLast(a, s, Len(q) + i)
    BY <1>1, <1>2, <2>1 DEF IsLast, AboutIn
  <2>3. QED
    BY <1>1, <2>2 DEF Turns
<1>3. ASSUME \A i \in DOMAIN rs : rs[i].what # s, NEW on, Turns(q, f, s, on)
      PROVE  Turns(a, f, s, on)
  <2>1. AboutIn(a, s) = AboutIn(q, s)
    BY <1>0, <1>1, <1>3 DEF AboutIn
  <2>2. \A i \in DOMAIN q : i \in DOMAIN a /\ a[i] = q[i]
    BY <1>0, <1>1
  <2>3. QED
    BY <1>3, <2>1, <2>2 DEF Turns, IsLast
<1>4. QED
  BY <1>2, <1>3 DEF a

-----------------------------------------------------------------------------
(* What a queue has, and what comes in it after the last e.                *)
Has(q, e) == \E i \in DOMAIN q : q[i] = e
Down == Status("disconnected")
Lasts(q, e) == \A i, j \in DOMAIN q : i < j /\ q[i] = e => q[j] # Down
OneEach(q) == \A i, j \in DOMAIN q : q[i].kind = "login" /\ q[i] = q[j] => i = j

LEMMA HasNothing == \A e : ~Has(<<>>, e)
BY DEF Has

LEMMA HasMore ==
    ASSUME NEW S, NEW q \in Seq(S), NEW r \in S
    PROVE  /\ \A e : Has(Append(q, r), e) <=> Has(q, e) \/ e = r
           /\ \A e : Lasts(q, e) /\ r # Down => Lasts(Append(q, r), e)
           /\ OneEach(q) /\ (r.kind = "login" => ~Has(q, r)) => OneEach(Append(q, r))
<1> DEFINE a == Append(q, r)
<1>1. /\ Len(q) \in Nat /\ DOMAIN q = 1 .. Len(q) /\ Len(q) + 1 \in DOMAIN a
      /\ \A i \in DOMAIN q : i \in DOMAIN a /\ a[i] = q[i] /\ i <= Len(q)
      /\ a[Len(q) + 1] = r
      /\ \A i \in DOMAIN a : i \in DOMAIN q \/ i = Len(q) + 1
  BY Behind
<1> HIDE DEF a
<1>2. \A e : Has(a, e) <=> Has(q, e) \/ e = r
  BY ONLY <1>1 DEF Has
<1>3. \A e : Lasts(q, e) /\ r # Down => Lasts(a, e)
  <2> SUFFICES ASSUME NEW e, Lasts(q, e), r # Down, NEW i \in DOMAIN a, NEW j \in DOMAIN a,
                      i < j, a[i] = e
               PROVE  a[j] # Down
    BY DEF Lasts
  <2>1. CASE j = Len(q) + 1
    BY <1>1, <2>1
  <2>2. CASE j \in DOMAIN q
    <3>1. i \in DOMAIN q
      BY <1>1, <2>2
    <3>2. QED
      BY <1>1, <2>2, <3>1 DEF Lasts
  <2>3. QED
    BY <1>1, <2>1, <2>2
<1>4. OneEach(q) /\ (r.kind = "login" => ~Has(q, r)) => OneEach(a)
  BY ONLY <1>1 DEF OneEach, Has
<1>5. QED
  BY <1>2, <1>3, <1>4 DEF a

LEMMA HasLess ==
    ASSUME NEW S, NEW q \in Seq(S), q # <<>>
    PROVE  /\ Head(q) \in S /\ Tail(q) \in Seq(S) /\ Has(q, Head(q))
           /\ \A e : Has(Tail(q), e) => Has(q, e)
           /\ \A e : Has(q, e) => e = Head(q) \/ Has(Tail(q), e)
           /\ \A e : Lasts(q, e) => Lasts(Tail(q), e)
           /\ Lasts(q, Head(q)) => ~Has(Tail(q), Down)
           /\ OneEach(q) => OneEach(Tail(q))
           /\ OneEach(q) /\ Head(q).kind = "login" => ~Has(Tail(q), Head(q))
<1> DEFINE t == Tail(q)
           h == Head(q)
<1>1. /\ h \in S /\ h = q[1] /\ 1 \in DOMAIN q
      /\ t \in Seq(S) /\ DOMAIN q \subseteq Int /\ DOMAIN t \subseteq Int
      /\ \A i \in DOMAIN t : i + 1 \in DOMAIN q /\ 1 < i + 1 /\ t[i] = q[i + 1]
      /\ \A i \in DOMAIN q : i = 1 \/ (i - 1 \in DOMAIN t /\ t[i - 1] = q[i])
  BY InFront
<1> HIDE DEF t, h
<1>2. Has(q, h) /\ \A e : Has(t, e) => Has(q, e)
  BY ONLY <1>1 DEF Has
<1>3. \A e : Has(q, e) => e = h \/ Has(t, e)
  <2> SUFFICES ASSUME NEW e, NEW i \in DOMAIN q, q[i] = e, e # h
               PROVE  Has(t, e)
    BY DEF Has
  <2>1. i - 1 \in DOMAIN t /\ t[i - 1] = e
    BY <1>1
  <2>2. QED
    BY <2>1 DEF Has
<1>4. \A i, j \in DOMAIN t : i < j => i + 1 < j + 1
  BY <1>1
<1>5. \A e : Lasts(q, e) => Lasts(t, e)
  BY ONLY <1>1, <1>4 DEF Lasts
<1>6. Lasts(q, h) => ~Has(t, Down)
  BY ONLY <1>1 DEF Lasts, Has
<1>7. \A i, j \in DOMAIN t : i + 1 = j + 1 => i = j
  BY <1>1
<1>8. OneEach(q) => OneEach(t)
  BY ONLY <1>1, <1>7 DEF OneEach
<1>9. OneEach(q) /\ h.kind = "login" => ~Has(t, h)
  <2> SUFFICES ASSUME OneEach(q), h.kind = "login", NEW i \in DOMAIN t, t[i] = h
               PROVE  FALSE
    BY DEF Has
  <2>1. i + 1 = 1
    BY <1>1 DEF OneEach
  <2>2. QED
    BY <1>1, <2>1
<1>10. QED
  BY <1>1, <1>2, <1>3, <1>5, <1>6, <1>8, <1>9 DEF t, h

(* Subscriptions sent behind q.                                            *)
LEMMA HasSubscriptions ==
    ASSUME NEW S, NEW q \in Seq(S), NEW rs \in Seq(S), OneEach(q),
           \A i \in DOMAIN rs : rs[i].kind # "login"
    PROVE  /\ q \o rs \in Seq(S) /\ OneEach(q \o rs)
           /\ \A e : e.kind = "login" => (Has(q \o rs, e) => Has(q, e))
<1> DEFINE a == q \o rs
<1>1. /\ a \in Seq(S) /\ Len(q) \in Nat /\ Len(rs) \in Nat
      /\ DOMAIN q = 1 .. Len(q) /\ DOMAIN rs = 1 .. Len(rs)
      /\ DOMAIN a = 1 .. Len(q) + Len(rs)
      /\ \A i \in 1 .. Len(q) : a[i] = q[i]
      /\ \A i \in Len(q) + 1 .. Len(q) + Len(rs) : a[i] = rs[i - Len(q)]
  BY ConcatProperties, LenProperties
<1> HIDE DEF a
<1>2. \A i \in DOMAIN a : a[i].kind = "login" => i \in DOMAIN q /\ a[i] = q[i]
  <2> SUFFICES ASSUME NEW i \in DOMAIN a, a[i].kind = "login"
               PROVE  i \in DOMAIN q /\ a[i] = q[i]
    OBVIOUS
  <2>1. i \in DOMAIN q \/ (i - Len(q) \in DOMAIN rs /\ a[i] = rs[i - Len(q)])
    BY <1>1
  <2>2. QED
    BY <1>1, <2>1
<1>3. OneEach(a) /\ \A e : e.kind = "login" => (Has(a, e) => Has(q, e))
  BY ONLY <1>2, OneEach(q) DEF OneEach, Has
<1>4. QED
  BY <1>1, <1>3 DEF a

-----------------------------------------------------------------------------
(* Without accidents a login has one fate: it is on its way, or granted, or*)
(* it fails; and the client waits for what is on its way.                  *)
Granted(n) == LoginResponse(n, "success")
Told == {Status("connected"), Down} \cup {Granted(n) : n \in Numbers}

IsSent(n) == Has(sent, Request("login", n))
IsGranted(n) == Granted(n) \in answers \/ Has(ordinary, Granted(n))
Fails(n) == n \in overdue \/ Has(urgent, Error(n))

OneFate ==
    /\ OneEach(sent)
    /\ \A n \in Numbers :
          /\ IsSent(n) => n \in requests /\ ~IsGranted(n) /\ ~Fails(n)
          /\ ~(IsGranted(n) /\ Fails(n))
          /\ IsSent(n) \/ IsGranted(n) \/ Fails(n) => n <= logins

Shape ==
    /\ sent \in Seq(RequestSet)
    /\ answers \subseteq {Granted(n) : n \in Numbers}
    /\ overdue \subseteq Numbers
    /\ urgent \in Seq({Error(n) : n \in Numbers}) /\ ordinary \in Seq(Told)
    /\ link = "up" \/ (link = "down" /\ authorised = FALSE /\ feed = {} /\ sent = <<>>)
    /\ session = 0 => link = "down"
    /\ subscriptions \subseteq Symbols /\ IsFiniteSet(subscriptions)
    /\ queue \in Seq(Actions) /\ Has(queue, "subscribeAll")
    /\ logins \in Nat

(* What is not subscribed will not be streamed.  On an authorised link the *)
(* client will be told so, or it knows and has asked for what is.          *)
NothingElse == \A s \in Symbols \ subscriptions : Turns(sent, feed, s, FALSE)
WillKnow ==
    \E n \in Numbers : n \in requests /\ IsGranted(n) /\ Lasts(ordinary, Granted(n))
HasAsked ==
    /\ loggedIn
    /\ ~Has(ordinary, Down)
    /\ \A s \in subscriptions : Turns(sent, feed, s, TRUE)
Informed == authorised => WillKnow \/ HasAsked

Tidy == Shape /\ OneFate /\ NothingElse /\ Informed

LEMMA MessageKinds ==
    /\ \A n : Granted(n).type = "login-response" /\ Granted(n).value = "success"
              /\ Granted(n).request = n
    /\ \A n : Error(n).type = "error" /\ Error(n).request = n
    /\ Down.type = "session-status-change" /\ Down = Status("disconnected")
    /\ Down.request = NoRequest
    /\ Status("connected").type = "session-status-change"
    /\ Status("connected").request = NoRequest
    /\ Status("connected") # Down
    /\ Down \in Told /\ Status("connected") \in Told
    /\ \A n \in Numbers : Granted(n) \in Told /\ n # NoRequest
    /\ \A m \in Told : m = Down \/ m = Status("connected") \/ \E n \in Numbers : m = Granted(n)
BY DEF Granted, LoginResponse, Error, Status, Down, Told, NoRequest, Numbers

LEMMA TurnsNothing == \A s : Turns(<<>>, {}, s, FALSE)
BY DEF Turns, AboutIn

(* Steps that move a login on from where it is keep its fate.              *)
LEMMA FateIsKept ==
    ASSUME OneFate, OneEach(sent)', logins' = logins,
           \A n \in Numbers : IsSent(n)' => IsSent(n) /\ n \in requests',
           \A n \in Numbers : IsGranted(n)' => IsGranted(n) \/ (IsSent(n) /\ ~IsSent(n)'),
           \A n \in Numbers :
              Fails(n)' => Fails(n) \/ (IsSent(n) /\ ~IsSent(n)' /\ ~IsGranted(n)')
    PROVE  OneFate'
BY DEF OneFate

(* Steps after which no link is authorised and nothing is on its way.      *)
LEMMA NoLinkIsTidy ==
    ASSUME Tidy, sent' = <<>>, feed' = {}, authorised' = FALSE, Shape', logins' = logins,
           \A n \in Numbers : IsGranted(n)' => IsGranted(n),
           \A n \in Numbers : Fails(n)' => Fails(n) \/ (IsSent(n) /\ ~IsGranted(n)')
    PROVE  Tidy'
<1>1. \A n \in Numbers : ~IsSent(n)'
  BY HasNothing DEF IsSent
<1>2. OneEach(sent)'
  BY DEF OneEach
<1>3. OneFate'
  BY <1>1, <1>2, FateIsKept DEF Tidy
<1>4. NothingElse' /\ Informed'
  BY TurnsNothing DEF NothingElse, Informed
<1>5. QED
  BY <1>3, <1>4 DEF Tidy

(* Steps that leave the requests and the feed alone.                       *)
LEMMA SentIsTidy ==
    ASSUME Tidy, Shape', UNCHANGED <<sent, feed, subscriptions, logins>>,
           Informed',
           \A n \in Numbers : IsSent(n) => n \in requests',
           \A n \in Numbers : IsGranted(n)' => IsGranted(n),
           \A n \in Numbers : Fails(n)' => Fails(n)
    PROVE  Tidy'
<1>1. \A n \in Numbers : IsSent(n)' <=> IsSent(n)
  BY DEF IsSent
<1>2. OneEach(sent)'
  BY DEF OneEach, OneFate, Tidy
<1>3. OneFate'
  BY <1>1, <1>2, FateIsKept DEF Tidy
<1>4. NothingElse'
  BY DEF NothingElse, Tidy
<1>5. QED
  BY <1>3, <1>4 DEF Tidy

-----------------------------------------------------------------------------
(* The calls of the application.                                           *)
LEMMA ConnectIsTidy ==
    ASSUME Tidy, Connect
    PROVE  Tidy'
<1>1. /\ UNCHANGED <<link, authorised, feed, sent, answers, overdue, urgent, ordinary, logins>>
      /\ subscriptions' = {} /\ queue' = <<"subscribeAll">>
      /\ link = "down" /\ sent = <<>> /\ feed = {} /\ authorised = FALSE
  BY DEF Connect, NewClosure, serverVars, channel, Tidy, Shape
<1>2. \A n \in Numbers : (IsGranted(n)' <=> IsGranted(n)) /\ (Fails(n)' <=> Fails(n))
  BY <1>1 DEF IsGranted, Fails
<1>3. queue' \in Seq(Actions) /\ Has(queue', "subscribeAll") /\ IsFiniteSet(subscriptions')
  BY <1>1, FS_EmptySet DEF Has, Actions
<1>4. Shape'
  BY <1>1, <1>3 DEF Tidy, Shape
<1>5. QED
  BY <1>1, <1>2, <1>4, NoLinkIsTidy

LEMMA DisconnectIsTidy ==
    ASSUME Tidy, Disconnect
    PROVE  Tidy'
<1>1. /\ UNCHANGED <<urgent, ordinary, queue, logins>>
      /\ subscriptions' = {} /\ link' = "down" /\ sent' = <<>> /\ feed' = {}
      /\ authorised' = FALSE /\ answers' = {} /\ overdue' = {}
  BY DEF Disconnect, NoServer, channel, counters
<1>2. \A n \in Numbers : (IsGranted(n)' => IsGranted(n)) /\ (Fails(n)' => Fails(n))
  BY <1>1 DEF IsGranted, Fails
<1>3. Shape'
  BY <1>1, FS_EmptySet, EmptySeq DEF Tidy, Shape
<1>4. QED
  BY <1>1, <1>2, <1>3, NoLinkIsTidy

(* ConnectFails and Fetch.                                                 *)
LEMMA OtherCallsAreTidy ==
    ASSUME Tidy, ConnectFails \/ \E f \in Fetches : Fetch(f)
    PROVE  Tidy'
<1>1. UNCHANGED <<session, link, authorised, feed, sent, answers, overdue, urgent, ordinary,
                  loggedIn, subscriptions, requests, logins>>
  BY DEF ConnectFails, Fetch, serverVars, channel, closure, counters
<1>2. queue' = queue \/ \E f \in Fetches : queue' = Append(queue, f)
  BY DEF ConnectFails, Fetch, closure
<1>3. queue' \in Seq(Actions) /\ Has(queue', "subscribeAll")
  <2>1. queue \in Seq(Actions) /\ Has(queue, "subscribeAll")
    BY DEF Tidy, Shape
  <2>2. ASSUME NEW f \in Fetches
        PROVE  Append(queue, f) \in Seq(Actions) /\ Has(Append(queue, f), "subscribeAll")
    <3>1. f \in Actions
      BY DEF Actions
    <3>2. QED
      BY <2>1, <3>1, AppendProperties, HasMore
  <2>3. QED
    BY <1>2, <2>1, <2>2
<1>4. Shape'
  BY <1>1, <1>3 DEF Tidy, Shape
<1>5. \A n \in Numbers : /\ IsSent(n)' <=> IsSent(n)
                         /\ IsGranted(n)' <=> IsGranted(n)
                         /\ Fails(n)' <=> Fails(n)
  BY <1>1 DEF IsSent, IsGranted, Fails
<1>6. Informed'
  BY <1>1, <1>5 DEF Tidy, Informed, WillKnow, HasAsked
<1>7. \A n \in Numbers : IsSent(n) => n \in requests'
  BY <1>1 DEF Tidy, OneFate
<1>8. QED
  BY <1>1, <1>4, <1>5, <1>6, <1>7, SentIsTidy

(* subscribe() and unsubscribe(): the last request about s, if there is a  *)
(* link for it, agrees with what is subscribed then.                       *)
LEMMA ChangeIsTidy ==
    ASSUME Tidy, NEW s \in Symbols, NEW on \in BOOLEAN,
           UNCHANGED <<session, link, authorised, feed, answers, overdue, urgent, ordinary,
                       loggedIn, requests, queue, logins>>,
           subscriptions' = IF on THEN subscriptions \cup {s} ELSE subscriptions \ {s},
           \/ /\ link = "up"
              /\ sent' = sent \o <<Request(IF on THEN "subscribe" ELSE "unsubscribe", s)>>
           \/ sent' = sent /\ (link = "down" \/ (on /\ ~loggedIn))
    PROVE  Tidy'
<1> DEFINE r == Request(IF on THEN "subscribe" ELSE "unsubscribe", s)
<1>1. r \in RequestSet /\ r.what = s /\ (r.kind = "subscribe" <=> on) /\ r.kind # "login"
  BY RequestKinds
<1> HIDE DEF r
<1>2. sent \in Seq(RequestSet) /\ OneEach(sent)
  BY DEF Tidy, Shape, OneFate
<1>3. \/ link = "up" /\ sent' = Append(sent, r)
      \/ sent' = sent /\ (link = "down" \/ (on /\ ~loggedIn))
  BY <1>1, <1>2, AppendIsConcat DEF r
<1>4. sent' \in Seq(RequestSet) /\ OneEach(sent)' /\ \A n \in Numbers : IsSent(n)' <=> IsSent(n)
  <2>1. CASE sent' = sent
    BY <1>2, <2>1 DEF OneEach, IsSent
  <2>2. CASE sent' = Append(sent, r)
    <3>1. sent' \in Seq(RequestSet) /\ OneEach(sent')
      BY <1>1, <1>2, <2>2, AppendProperties, HasMore
    <3>2. \A n \in Numbers : Request("login", n) # r
      BY <1>1, RequestKinds
    <3>3. \A n \in Numbers : Has(sent', Request("login", n)) <=> Has(sent, Request("login", n))
      BY <1>1, <1>2, <2>2, <3>2, HasMore
    <3>4. QED
      BY <3>1, <3>3 DEF IsSent, OneEach
  <2>3. QED
    BY <1>3, <2>1, <2>2
<1>5. \A n \in Numbers : /\ IsGranted(n)' <=> IsGranted(n)
                         /\ Fails(n)' <=> Fails(n)
  BY DEF IsGranted, Fails
<1>6. OneFate'
  <2>1. \A n \in Numbers : IsSent(n)' => n \in requests'
    BY <1>4 DEF Tidy, OneFate
  <2>2. QED
    BY <1>4, <1>5, <2>1, FateIsKept DEF Tidy
<1>7. Shape'
  <2>1. subscriptions' \subseteq Symbols /\ IsFiniteSet(subscriptions')
    BY FS_AddElement, FS_RemoveElement DEF Tidy, Shape
  <2>2. link = "down" => sent' = <<>>
    BY <1>3 DEF Tidy, Shape
  <2>3. QED
    BY <1>4, <2>1, <2>2 DEF Tidy, Shape
<1>8. CASE sent' = Append(sent, r)
  <2>1. Turns(sent', feed', s, on)
    BY <1>1, <1>2, <1>8, TurnsNow
  <2>2. \A t, b : t # s /\ Turns(sent, feed, t, b) => Turns(sent', feed', t, b)
    BY <1>1, <1>2, <1>8, TurnsAside
  <2>3. NothingElse'
    BY <2>1, <2>2 DEF Tidy, NothingElse
  <2>4. HasAsked => HasAsked'
    BY <2>1, <2>2 DEF HasAsked
  <2>5. WillKnow => WillKnow'
    BY <1>5 DEF WillKnow
  <2>6. QED
    BY <1>6, <1>7, <2>3, <2>4, <2>5 DEF Tidy, Informed
<1>9. CASE sent' = sent /\ link = "down"
  <2>1. sent' = <<>> /\ feed' = {} /\ authorised' = FALSE
    BY <1>9 DEF Tidy, Shape
  <2>2. QED
    BY <1>5, <1>7, <2>1, NoLinkIsTidy
<1>10. CASE sent' = sent /\ on /\ ~loggedIn
  <2>1. NothingElse'
    BY <1>10 DEF Tidy, NothingElse
  <2>2. WillKnow => WillKnow'
    BY <1>5 DEF WillKnow
  <2>3. Informed'
    BY <1>10, <2>2 DEF Tidy, Informed, HasAsked
  <2>4. QED
    BY <1>6, <1>7, <2>1, <2>3 DEF Tidy
<1>11. QED
  BY <1>3, <1>8, <1>9, <1>10

LEMMA SubscribeIsTidy ==
    ASSUME Tidy, NEW s \in Symbols, Subscribe(s) \/ Unsubscribe(s)
    PROVE  Tidy'
<1>1. UNCHANGED <<session, link, authorised, feed, answers, overdue, urgent, ordinary,
                  loggedIn, requests, queue, logins>>
  BY DEF Subscribe, Unsubscribe, channel
<1>2. link = "up" \/ link = "down"
  BY DEF Tidy, Shape
<1>3. CASE Subscribe(s)
  <2>1. subscriptions' = subscriptions \cup {s}
    BY <1>3 DEF Subscribe
  <2>2. \/ link = "up" /\ sent' = sent \o <<Request("subscribe", s)>>
        \/ sent' = sent /\ (link = "down" \/ ~loggedIn)
    BY <1>2, <1>3 DEF Subscribe, SubscribeNow, Send
  <2>3. QED
    BY <1>1, <2>1, <2>2, ChangeIsTidy, Zenon
<1>4. CASE Unsubscribe(s)
  <2>1. subscriptions' = subscriptions \ {s}
    BY <1>4 DEF Unsubscribe
  <2>2. \/ link = "up" /\ sent' = sent \o <<Request("unsubscribe", s)>>
        \/ sent' = sent /\ link = "down"
    BY <1>2, <1>4 DEF Unsubscribe, Send
  <2>3. QED
    BY <1>1, <2>1, <2>2, ChangeIsTidy, Zenon
<1>5. QED
  BY <1>3, <1>4

-----------------------------------------------------------------------------
(* What the client receives.                                               *)
LEMMA KeepsKnowing ==
    ASSUME NEW n \in Numbers, n \in requests', answers' = answers,
           IsGranted(n), Lasts(ordinary, Granted(n)),
           Has(ordinary, Granted(n)) => Has(ordinary', Granted(n)),
           Lasts(ordinary', Granted(n))
    PROVE  WillKnow'
BY DEF WillKnow, IsGranted

(* What is so behind the head of the ordinary channel.                     *)
LEMMA FromTheFront ==
    ASSUME Tidy, ordinary # <<>>, ordinary' = Tail(ordinary)
    PROVE  /\ Head(ordinary) \in Told /\ Has(ordinary, Head(ordinary))
           /\ ordinary' \in Seq(Told)
           /\ \A e : Has(ordinary', e) => Has(ordinary, e)
           /\ \A e : Has(ordinary, e) => e = Head(ordinary) \/ Has(ordinary', e)
           /\ \A e : Lasts(ordinary, e) => Lasts(ordinary', e)
           /\ Lasts(ordinary, Head(ordinary)) => ~Has(ordinary', Down)
<1>1. ordinary \in Seq(Told)
  BY DEF Tidy, Shape
<1>2. QED
  BY <1>1, HasLess

LEMMA ConnectedIsTidy ==
    ASSUME Tidy, ordinary # <<>>, ordinary' = Tail(ordinary), OnConnected(Head(ordinary)),
           UNCHANGED <<session, urgent>>
    PROVE  Tidy'
<1> DEFINE n == logins'
           r == Request("login", n)
<1>1. /\ Head(ordinary) = Status("connected") /\ n = logins + 1
      /\ UNCHANGED <<link, authorised, feed, answers, loggedIn, subscriptions, queue>>
  BY DEF OnConnected
<1>2. \/ /\ link = "up" /\ sent' = sent \o <<r>> /\ requests' = requests \cup {n}
         /\ overdue' = overdue
      \/ /\ link = "down" /\ requests' = requests \cup {n} /\ overdue' = overdue \cup {n}
         /\ sent' = sent
      \/ link = "down" /\ requests' = requests /\ overdue' = overdue /\ sent' = sent
  BY DEF OnConnected, Send
<1>3. logins \in Nat /\ n \in Numbers /\ n > logins /\ n <= logins' /\ logins' \in Nat
      /\ \A k \in Numbers : k <= logins => k <= logins'
  BY <1>1 DEF Tidy, Shape, Numbers
<1>4. /\ sent \in Seq(RequestSet) /\ OneEach(sent) /\ r \in RequestSet /\ r.kind = "login"
      /\ r.what = n /\ n \notin Symbols
      /\ \A k \in Numbers : Request("login", k) = r => k = n
  BY <1>3, RequestKinds, BoundAssumption DEF Tidy, Shape, OneFate, Numbers
<1> HIDE DEF n, r
<1>5. ~IsSent(n) /\ ~IsGranted(n) /\ ~Fails(n)
  BY <1>3 DEF Tidy, OneFate, Numbers
<1>6. /\ ordinary' \in Seq(Told)
      /\ \A k \in Numbers : IsGranted(k)' <=> IsGranted(k)
  <2>1. \A k : Has(ordinary', Granted(k)) <=> Has(ordinary, Granted(k))
    BY <1>1, FromTheFront, MessageKinds
  <2>2. QED
    BY <1>1, <2>1, FromTheFront DEF IsGranted
<1>7. Shape' /\ OneFate' /\ \A s \in Symbols : \A b :
                               Turns(sent, feed, s, b) => Turns(sent', feed', s, b)
  <2>1. CASE link = "up" /\ sent' = sent \o <<r>> /\ requests' = requests \cup {n}
             /\ overdue' = overdue
    <3>1. sent' = Append(sent, r)
      BY <1>4, <2>1, AppendIsConcat
    <3>2. sent' \in Seq(RequestSet) /\ \A k \in Numbers : IsSent(k)' <=> IsSent(k) \/ k = n
      BY <1>4, <3>1, AppendProperties, HasMore DEF IsSent, r
    <3>3. OneEach(sent)'
      <4>1. ~Has(sent, r)
        BY <1>5 DEF IsSent, r
      <4>2. OneEach(sent')
        BY <1>4, <3>1, <4>1, HasMore
      <4>3. QED
        BY <4>2 DEF OneEach
    <3>4. \A k \in Numbers : Fails(k)' <=> Fails(k)
      BY <2>1 DEF Fails
    <3>5. OneFate'
      BY <1>3, <1>5, <1>6, <2>1, <3>2, <3>3, <3>4 DEF Tidy, OneFate
    <3>6. Shape'
      BY <1>1, <1>3, <1>6, <2>1, <3>2 DEF Tidy, Shape
    <3>7. QED
      BY <1>1, <1>4, <3>1, <3>5, <3>6, TurnsAside
  <2>2. CASE link = "down" /\ requests' = requests \cup {n} /\ overdue' = overdue \cup {n}
             /\ sent' = sent
    <3>1. \A k \in Numbers : (IsSent(k)' <=> IsSent(k)) /\ (Fails(k)' <=> Fails(k) \/ k = n)
      BY <2>2 DEF IsSent, Fails
    <3>2. OneEach(sent)'
      BY <1>4, <2>2 DEF OneEach
    <3>3. OneFate'
      BY <1>3, <1>5, <1>6, <2>2, <3>1, <3>2 DEF Tidy, OneFate
    <3>4. Shape'
      BY <1>1, <1>3, <1>6, <2>2 DEF Tidy, Shape
    <3>5. QED
      BY <1>1, <2>2, <3>3, <3>4
  <2>3. CASE link = "down" /\ requests' = requests /\ overdue' = overdue /\ sent' = sent
    <3>1. \A k \in Numbers : (IsSent(k)' <=> IsSent(k)) /\ (Fails(k)' <=> Fails(k))
      BY <2>3 DEF IsSent, Fails
    <3>2. OneEach(sent)'
      BY <1>4, <2>3 DEF OneEach
    <3>3. OneFate'
      BY <1>3, <1>6, <2>3, <3>1, <3>2 DEF Tidy, OneFate
    <3>4. Shape'
      BY <1>1, <1>3, <1>6, <2>3 DEF Tidy, Shape
    <3>5. QED
      BY <1>1, <2>3, <3>3, <3>4
  <2>4. QED
    BY <1>2, <2>1, <2>2, <2>3
<1>8. NothingElse'
  BY <1>1, <1>7 DEF Tidy, NothingElse
<1>9. HasAsked => HasAsked'
  BY <1>1, <1>7, FromTheFront DEF HasAsked, Tidy, Shape
<1>10. WillKnow => WillKnow'
  <2> SUFFICES ASSUME NEW k \in Numbers, k \in requests, IsGranted(k), Lasts(ordinary, Granted(k))
               PROVE  WillKnow'
    BY DEF WillKnow
  <2>1. k \in requests' /\ Granted(k) # Head(ordinary)
    BY <1>1, <1>2, MessageKinds
  <2>2. QED
    BY <1>1, <2>1, FromTheFront, KeepsKnowing
<1>11. QED
  BY <1>1, <1>7, <1>8, <1>9, <1>10 DEF Tidy, Informed

LEMMA DisconnectedIsTidy ==
    ASSUME Tidy, ordinary # <<>>, ordinary' = Tail(ordinary), OnDisconnected(Head(ordinary)),
           UNCHANGED <<session, urgent>>
    PROVE  Tidy'
<1>1. /\ Head(ordinary) = Down
      /\ UNCHANGED <<link, authorised, feed, sent, answers, overdue, subscriptions, requests,
                     queue, logins>>
  BY DEF OnDisconnected, serverVars, Down
<1>2. \A n \in Numbers : Granted(n) # Head(ordinary)
  BY <1>1, MessageKinds
<1>3. \A n \in Numbers : (IsGranted(n)' => IsGranted(n)) /\ (Fails(n)' => Fails(n))
  BY <1>1, FromTheFront DEF IsGranted, Fails
<1>4. Shape'
  BY <1>1, FromTheFront DEF Tidy, Shape
<1>5. ~HasAsked
  BY <1>1, FromTheFront DEF HasAsked
<1>6. WillKnow => WillKnow'
  BY <1>1, <1>2, FromTheFront, KeepsKnowing DEF WillKnow
<1>7. Informed'
  BY <1>1, <1>5, <1>6 DEF Tidy, Informed
<1>8. \A n \in Numbers : IsSent(n) => n \in requests'
  BY <1>1 DEF Tidy, OneFate
<1>9. QED
  BY <1>1, <1>3, <1>4, <1>7, <1>8, SentIsTidy

(* The login is granted: whatever is subscribed is asked for.              *)
LEMMA LoginIsTidy ==
    ASSUME Tidy, ordinary # <<>>, ordinary' = Tail(ordinary), OnLogin(Head(ordinary)),
           UNCHANGED <<session, urgent>>
    PROVE  Tidy'
<1>1. PICK n \in Numbers : Head(ordinary) = Granted(n)
  BY FromTheFront, MessageKinds DEF OnLogin
<1>2. /\ n \in requests /\ requests' = requests \ {n} /\ loggedIn' = TRUE
      /\ UNCHANGED <<link, authorised, feed, answers, overdue, subscriptions, logins>>
      /\ Send(IF Contains(queue, "subscribeAll") THEN subscribeAll ELSE <<>>)
      /\ queue' = QueueAfterLogin
  BY <1>1, MessageKinds DEF OnLogin
<1>3. Contains(queue, "subscribeAll")
  <2>1. queue \in Seq(Actions) /\ Has(queue, "subscribeAll")
    BY DEF Tidy, Shape
  <2>2. DOMAIN queue = 1 .. Len(queue)
    BY <2>1, LenProperties
  <2>3. QED
    BY <2>1, <2>2 DEF Has, Contains
<1>4. sent' = IF link = "up" THEN sent \o subscribeAll ELSE sent
  BY <1>2, <1>3 DEF Send
<1>5. /\ subscribeAll \in Seq(RequestSet)
      /\ \A i \in DOMAIN subscribeAll :
            subscribeAll[i].kind = "subscribe" /\ subscribeAll[i].what \in subscriptions
      /\ \A i, j \in DOMAIN subscribeAll :
            subscribeAll[i].what = subscribeAll[j].what => i = j
      /\ \A s \in subscriptions : \E i \in DOMAIN subscribeAll : subscribeAll[i].what = s
  BY EverySubscription DEF Tidy, Shape
<1>6. sent \in Seq(RequestSet) /\ OneEach(sent)
  BY DEF Tidy, Shape, OneFate
<1>7. /\ sent' \in Seq(RequestSet) /\ OneEach(sent)'
      /\ \A k \in Numbers : IsSent(k)' => IsSent(k)
  <2>1. CASE link = "up"
    <3>1. \A i \in DOMAIN subscribeAll : subscribeAll[i].kind # "login"
      BY <1>5
    <3>2. sent' \in Seq(RequestSet) /\ OneEach(sent')
      BY <1>4, <1>5, <1>6, <2>1, <3>1, HasSubscriptions
    <3>3. \A k \in Numbers : Request("login", k).kind = "login"
      BY RequestKinds
    <3>4. \A k \in Numbers : Has(sent', Request("login", k)) => Has(sent, Request("login", k))
      BY <1>4, <1>5, <1>6, <2>1, <3>1, <3>3, HasSubscriptions
    <3>5. QED
      BY <3>2, <3>4 DEF IsSent, OneEach
  <2>2. CASE link # "up"
    BY <1>4, <1>6, <2>2 DEF IsSent, OneEach
  <2>3. QED
    BY <2>1, <2>2
<1>8. \A k \in Numbers : (IsGranted(k)' => IsGranted(k)) /\ (Fails(k)' <=> Fails(k))
  BY <1>2, FromTheFront DEF IsGranted, Fails
<1>9. OneFate'
  <2>1. ~IsSent(n)
    BY <1>1, FromTheFront DEF Tidy, OneFate, IsGranted
  <2>2. \A k \in Numbers : IsSent(k)' => IsSent(k) /\ k \in requests'
    BY <1>2, <1>7, <2>1 DEF Tidy, OneFate
  <2>3. QED
    BY <1>2, <1>7, <1>8, <2>2, FateIsKept DEF Tidy
<1>10. Shape'
  <2>1. queue' \in Seq(Actions) /\ Has(queue', "subscribeAll")
    BY <1>2 DEF QueueAfterLogin, Actions, Has
  <2>2. link = "up" \/ sent' = sent
    BY <1>4
  <2>3. QED
    BY <1>2, <1>7, <2>1, <2>2, FromTheFront DEF Tidy, Shape
<1>11. CASE link = "up"
  <2>1. /\ \A s : (\E i \in DOMAIN subscribeAll : subscribeAll[i].what = s) =>
                     Turns(sent', feed, s, TRUE)
        /\ \A s, on : (\A i \in DOMAIN subscribeAll : subscribeAll[i].what # s) =>
                     (Turns(sent, feed, s, on) => Turns(sent', feed, s, on))
    BY <1>4, <1>5, <1>6, <1>11, TurnsOn
  <2>2. NothingElse'
    <3> SUFFICES ASSUME NEW s \in Symbols \ subscriptions
                 PROVE  Turns(sent', feed, s, FALSE)
      BY <1>2 DEF NothingElse
    <3>1. \A i \in DOMAIN subscribeAll : subscribeAll[i].what # s
      BY <1>5
    <3>2. Turns(sent, feed, s, FALSE)
      BY DEF Tidy, NothingElse
    <3>3. QED
      BY <2>1, <3>1, <3>2
  <2>3. \A s \in subscriptions : Turns(sent', feed', s, TRUE)
    BY <1>2, <1>5, <2>1
  <2>4. Informed'
    <3>1. CASE HasAsked
      BY <1>2, <2>3, <3>1, FromTheFront DEF HasAsked, Informed
    <3>2. ASSUME NEW k \in Numbers, k \in requests, IsGranted(k), Lasts(ordinary, Granted(k))
          PROVE  Informed'
      <4>1. CASE k = n
        BY <1>1, <1>2, <2>3, <3>2, <4>1, FromTheFront DEF HasAsked, Informed
      <4>2. CASE k # n
        <5>1. k \in requests' /\ Granted(k) # Head(ordinary)
          BY <1>1, <1>2, <3>2, <4>2, MessageKinds
        <5>2. WillKnow'
          BY <1>2, <3>2, <5>1, FromTheFront, KeepsKnowing
        <5>3. QED
          BY <5>2 DEF Informed
      <4>3. QED
        BY <4>1, <4>2
    <3>3. QED
      BY <1>2, <3>1, <3>2 DEF Tidy, Informed, WillKnow
  <2>5. QED
    BY <1>9, <1>10, <2>2, <2>4 DEF Tidy
<1>12. CASE link # "up"
  <2>1. sent' = <<>> /\ feed' = {} /\ authorised' = FALSE
    BY <1>2, <1>4, <1>12 DEF Tidy, Shape
  <2>2. QED
    BY <1>2, <1>8, <1>10, <2>1, NoLinkIsTidy
<1>13. QED
  BY <1>11, <1>12

(* An error or an answer that comes too late.                              *)
LEMMA StaleIsTidy ==
    ASSUME Tidy, ordinary # <<>>, ordinary' = Tail(ordinary), OnStale(Head(ordinary)),
           UNCHANGED <<session, urgent>>
    PROVE  Tidy'
<1>1. /\ UNCHANGED <<link, authorised, feed, sent, answers, overdue, loggedIn, subscriptions,
                     requests, queue, logins>>
      /\ Head(ordinary).request \notin requests
  BY DEF OnStale, serverVars, closure
<1>2. \A n \in Numbers : n \in requests => Granted(n) # Head(ordinary)
  BY <1>1, MessageKinds
<1>3. \A n \in Numbers : (IsGranted(n)' => IsGranted(n)) /\ (Fails(n)' => Fails(n))
  BY <1>1, FromTheFront DEF IsGranted, Fails
<1>4. Shape'
  BY <1>1, FromTheFront DEF Tidy, Shape
<1>5. WillKnow => WillKnow'
  BY <1>1, <1>2, FromTheFront, KeepsKnowing DEF WillKnow
<1>6. HasAsked => HasAsked'
  BY <1>1, FromTheFront DEF HasAsked
<1>7. \A n \in Numbers : IsSent(n) => n \in requests'
  BY <1>1 DEF Tidy, OneFate
<1>8. Informed'
  BY <1>1, <1>5, <1>6 DEF Tidy, Informed
<1>9. QED
  BY <1>1, <1>3, <1>4, <1>7, <1>8, SentIsTidy

LEMMA OrdinaryIsTidy ==
    ASSUME Tidy, ReceiveOrdinary
    PROVE  Tidy'
<1>1. /\ ordinary # <<>> /\ ordinary' = Tail(ordinary) /\ UNCHANGED <<session, urgent>>
      /\ Receive(Head(ordinary))
  BY DEF ReceiveOrdinary
<1>2. Head(ordinary).type # "error"
  BY <1>1, FromTheFront, MessageKinds
<1>3. ~OnLoginError(Head(ordinary))
  BY <1>2 DEF OnLoginError
<1>4. QED
  BY <1>1, <1>3, ConnectedIsTidy, DisconnectedIsTidy, LoginIsTidy, StaleIsTidy DEF Receive

LEMMA UrgentIsTidy ==
    ASSUME Tidy, ReceiveUrgent
    PROVE  Tidy'
<1>1. /\ urgent # <<>> /\ urgent' = Tail(urgent) /\ UNCHANGED <<session, ordinary>>
      /\ Receive(Head(urgent))
  BY DEF ReceiveUrgent
<1>2. /\ Head(urgent) \in {Error(n) : n \in Numbers} /\ Has(urgent, Head(urgent))
      /\ urgent' \in Seq({Error(n) : n \in Numbers})
      /\ \A e : Has(urgent', e) => Has(urgent, e)
  BY <1>1, HasLess DEF Tidy, Shape
<1>3. PICK k \in Numbers : Head(urgent) = Error(k)
  BY <1>2
<1>4. Head(urgent).type = "error" /\ Head(urgent).request = k
  BY <1>3, MessageKinds
<1>5. OnLoginError(Head(urgent)) \/ OnStale(Head(urgent))
  BY <1>1, <1>4, MessageKinds DEF Receive, OnConnected, OnDisconnected, OnLogin
<1>6. /\ UNCHANGED <<link, authorised, feed, sent, answers, overdue, loggedIn, subscriptions,
                     queue, logins>>
      /\ requests' = requests \ {k} \/ requests' = requests
  BY <1>4, <1>5 DEF OnLoginError, OnStale, serverVars, closure
<1>7. ~IsSent(k) /\ ~IsGranted(k)
  BY <1>2, <1>3 DEF Tidy, OneFate, Fails
<1>8. \A n \in Numbers : (IsGranted(n)' <=> IsGranted(n)) /\ (Fails(n)' => Fails(n))
  BY <1>1, <1>2, <1>6 DEF IsGranted, Fails
<1>9. Shape'
  BY <1>1, <1>2, <1>6 DEF Tidy, Shape
<1>10. \A n \in Numbers : IsSent(n) => n \in requests'
  BY <1>6, <1>7 DEF Tidy, OneFate
<1>11. WillKnow => WillKnow'
  BY <1>1, <1>6, <1>7, <1>8 DEF WillKnow
<1>12. HasAsked => HasAsked'
  BY <1>1, <1>6 DEF HasAsked
<1>13. Informed'
  BY <1>6, <1>11, <1>12 DEF Tidy, Informed
<1>14. QED
  BY <1>6, <1>8, <1>9, <1>10, <1>13, SentIsTidy

(* Every error has a request.                                              *)
LEMMA NoErrorIsThrown ==
    ASSUME Tidy, OnError
    PROVE  FALSE
<1>1. urgent # <<>> /\ Head(urgent) = Error(NoRequest)
  BY DEF OnError
<1>2. Head(urgent) \in {Error(n) : n \in Numbers}
  BY <1>1, HasLess DEF Tidy, Shape
<1>3. QED
  BY <1>1, <1>2, MessageKinds DEF Numbers, NoRequest

-----------------------------------------------------------------------------
(* The API and the server, without accidents.                              *)
LEMMA LinkUpIsTidy ==
    ASSUME Tidy, LinkUp, ordinary' = Append(ordinary, Status("connected")), urgent' = urgent
    PROVE  Tidy'
<1>1. /\ UNCHANGED <<session, authorised, feed, sent, answers, overdue, subscriptions, queue,
                     logins>>
      /\ session # 0 /\ link = "down" /\ link' = "up"
  BY DEF LinkUp, closure
<1>2. sent = <<>> /\ feed = {} /\ authorised = FALSE /\ ordinary \in Seq(Told)
  BY <1>1 DEF Tidy, Shape
<1>3. ordinary' \in Seq(Told)
  BY <1>2, MessageKinds, AppendProperties
<1>4. \A n : Granted(n) # Status("connected")
  BY MessageKinds
<1>5. \A n : Has(ordinary', Granted(n)) => Has(ordinary, Granted(n))
  BY <1>2, <1>4, MessageKinds, HasMore
<1>6. \A n \in Numbers : (IsGranted(n)' => IsGranted(n)) /\ (Fails(n)' => Fails(n))
  BY <1>1, <1>5 DEF IsGranted, Fails
<1>7. Shape'
  BY <1>1, <1>3 DEF Tidy, Shape
<1>8. QED
  BY <1>1, <1>2, <1>6, <1>7, NoLinkIsTidy

LEMMA LinkDownIsTidy ==
    ASSUME Tidy, LinkDown, ordinary' = Append(ordinary, Status("disconnected")),
           urgent' = urgent
    PROVE  Tidy'
<1>1. /\ UNCHANGED <<session, answers, subscriptions, queue, logins>>
      /\ link' = "down" /\ authorised' = FALSE /\ feed' = {} /\ sent' = <<>>
      /\ overdue' = overdue \cup LoginsIn(sent)
  BY DEF LinkDown, closure
<1>2. /\ ordinary \in Seq(Told) /\ sent \in Seq(RequestSet)
      /\ Down \in Told /\ Down = Status("disconnected")
  BY MessageKinds DEF Tidy, Shape
<1>3. ordinary' \in Seq(Told)
  BY <1>2, AppendProperties
<1>4. \A n : Granted(n) # Down
  BY MessageKinds
<1>5. \A n : Has(ordinary', Granted(n)) => Has(ordinary, Granted(n))
  BY <1>2, <1>4, HasMore
<1>6. \A n \in LoginsIn(sent) : n \in Numbers /\ IsSent(n)
  <2> SUFFICES ASSUME NEW i \in DOMAIN sent, sent[i].kind = "login"
               PROVE  sent[i].what \in Numbers /\ IsSent(sent[i].what)
    BY DEF LoginsIn
  <2>1. sent[i] \in RequestSet
    BY <1>2, ElementOfSeq, LenProperties
  <2>2. sent[i] = Request("login", sent[i].what) /\ sent[i].what \in Numbers
    BY <2>1, RequestKinds
  <2>3. QED
    BY <2>2 DEF IsSent, Has
<1>7. \A n \in Numbers : IsGranted(n)' => IsGranted(n)
  BY <1>1, <1>5 DEF IsGranted
<1>8. \A n \in Numbers : Fails(n)' => Fails(n) \/ (IsSent(n) /\ ~IsGranted(n)')
  <2>1. \A n \in Numbers : Fails(n)' => Fails(n) \/ IsSent(n)
    BY <1>1, <1>6 DEF Fails
  <2>2. QED
    BY <1>7, <2>1 DEF Tidy, OneFate
<1>9. Shape'
  BY <1>1, <1>3, <1>6, EmptySeq DEF Tidy, Shape
<1>10. QED
  BY <1>1, <1>7, <1>8, <1>9, NoLinkIsTidy

LEMMA ServeLoginIsTidy ==
    ASSUME Tidy, ServeLogin, accidents' = accidents, accidents \in Nat
    PROVE  Tidy'
<1>1. /\ UNCHANGED <<session, link, feed, overdue, urgent, ordinary, loggedIn, subscriptions,
                     requests, queue, logins>>
      /\ sent # <<>> /\ Head(sent).kind = "login" /\ sent' = Tail(sent)
  BY DEF ServeLogin, channel, closure
<1>2. authorised' = TRUE /\ answers' = answers \cup {Granted(Head(sent).what)}
  BY DEF ServeLogin, Accident, Granted
<1>3. sent \in Seq(RequestSet) /\ OneEach(sent)
  BY DEF Tidy, Shape, OneFate
<1>4. /\ Head(sent) \in RequestSet /\ Has(sent, Head(sent))
      /\ sent' \in Seq(RequestSet) /\ OneEach(sent') /\ ~Has(sent', Head(sent))
      /\ \A e : Has(sent', e) => Has(sent, e)
  BY <1>1, <1>3, HasLess
<1>5. PICK k \in Numbers : Head(sent) = Request("login", k) /\ Head(sent).what = k
                           /\ k \notin Symbols
  BY <1>1, <1>4, RequestKinds
<1>6. /\ IsSent(k) /\ ~IsSent(k)' /\ OneEach(sent)'
      /\ \A n \in Numbers : IsSent(n)' => IsSent(n)
  BY <1>4, <1>5 DEF IsSent, OneEach
<1>7. /\ \A n \in Numbers : IsGranted(n)' <=> IsGranted(n) \/ n = k
      /\ \A n \in Numbers : Fails(n)' <=> Fails(n)
  <2>1. \A n \in Numbers : Granted(n) = Granted(k) => n = k
    BY MessageKinds
  <2>2. QED
    BY <1>1, <1>2, <1>5, <2>1 DEF IsGranted, Fails
<1>8. OneFate'
  <2>1. \A n \in Numbers : IsSent(n)' => n \in requests'
    BY <1>1, <1>6 DEF Tidy, OneFate
  <2>2. QED
    BY <1>1, <1>6, <1>7, <2>1, FateIsKept DEF Tidy
<1>9. Shape'
  <2>1. link = "up"
    BY <1>1 DEF Tidy, Shape
  <2>2. QED
    BY <1>1, <1>2, <1>4, <1>5, <2>1 DEF Tidy, Shape
<1>10. NothingElse'
  <2>1. \A s \in Symbols : Turns(sent, feed, s, FALSE) => Turns(sent', feed', s, FALSE)
    BY <1>1, <1>3, <1>5, TurnsServed
  <2>2. QED
    BY <1>1, <2>1 DEF Tidy, NothingElse
<1>11. WillKnow'
  <2>1. k \in requests /\ ~IsGranted(k)
    BY <1>6 DEF Tidy, OneFate
  <2>2. Lasts(ordinary, Granted(k))
    BY <2>1 DEF IsGranted, Lasts, Has
  <2>3. QED
    BY <1>1, <1>7, <2>1, <2>2 DEF WillKnow
<1>12. QED
  BY <1>8, <1>9, <1>10, <1>11 DEF Tidy, Informed

LEMMA ServeSubscriptionIsTidy ==
    ASSUME Tidy, ServeSubscription
    PROVE  Tidy'
<1>1. /\ UNCHANGED <<session, link, authorised, answers, overdue, urgent, ordinary, loggedIn,
                     subscriptions, requests, queue, logins>>
      /\ sent # <<>> /\ Head(sent).kind # "login" /\ sent' = Tail(sent)
      /\ feed' = IF Head(sent).kind = "subscribe" /\ authorised
                 THEN feed \cup {Head(sent).what}
                 ELSE feed \ {Head(sent).what}
  BY DEF ServeSubscription, channel, closure, counters
<1>2. sent \in Seq(RequestSet) /\ OneEach(sent)
  BY DEF Tidy, Shape, OneFate
<1>3. /\ sent' \in Seq(RequestSet) /\ OneEach(sent')
      /\ \A e : Has(sent', e) => Has(sent, e)
  BY <1>1, <1>2, HasLess
<1>4. /\ OneEach(sent)' /\ \A n \in Numbers : IsSent(n)' => IsSent(n)
      /\ \A n \in Numbers : (IsGranted(n)' <=> IsGranted(n)) /\ (Fails(n)' <=> Fails(n))
  BY <1>1, <1>3 DEF OneEach, IsSent, IsGranted, Fails
<1>5. OneFate'
  <2>1. \A n \in Numbers : IsSent(n)' => n \in requests'
    BY <1>1, <1>4 DEF Tidy, OneFate
  <2>2. QED
    BY <1>1, <1>4, <2>1, FateIsKept DEF Tidy
<1>6. link = "up" /\ Shape'
  BY <1>1, <1>3 DEF Tidy, Shape
<1>7. ASSUME NEW s, NEW on \in BOOLEAN, authorised \/ ~on, Turns(sent, feed, s, on)
      PROVE  Turns(sent', feed', s, on)
  <2>1. Head(sent).what # s => (s \in feed' <=> s \in feed)
    BY <1>1
  <2>2. Head(sent).what = s =>
           ((s \in feed' <=> Head(sent).kind = "subscribe") \/ (~on /\ s \notin feed'))
    BY <1>1, <1>7
  <2>3. QED
    BY <1>1, <1>2, <1>7, <2>1, <2>2, TurnsServed
<1>8. NothingElse'
  BY <1>1, <1>7 DEF Tidy, NothingElse
<1>9. WillKnow => WillKnow'
  BY <1>1, <1>4 DEF WillKnow
<1>10. HasAsked /\ authorised => HasAsked'
  BY <1>1, <1>7 DEF HasAsked
<1>11. QED
  BY <1>1, <1>5, <1>6, <1>8, <1>9, <1>10 DEF Tidy, Informed

LEMMA AnswerIsTidy ==
    ASSUME Tidy, NEW a \in answers, answers' = answers \ {a}, ordinary' = Append(ordinary, a),
           UNCHANGED <<session, link, authorised, feed, sent, overdue, urgent, loggedIn,
                       subscriptions, requests, queue, logins>>
    PROVE  Tidy'
<1>1. PICK k \in Numbers : a = Granted(k)
  BY DEF Tidy, Shape
<1>2. ordinary \in Seq(Told) /\ a \in Told /\ a # Down
  BY <1>1, MessageKinds DEF Tidy, Shape
<1>3. /\ ordinary' \in Seq(Told)
      /\ \A e : Has(ordinary', e) <=> Has(ordinary, e) \/ e = a
      /\ \A e : Lasts(ordinary, e) => Lasts(ordinary', e)
  BY <1>2, AppendProperties, HasMore
<1>4. \A n \in Numbers : (IsGranted(n)' <=> IsGranted(n)) /\ (Fails(n)' <=> Fails(n))
  BY <1>3 DEF IsGranted, Fails
<1>5. Shape'
  BY <1>3 DEF Tidy, Shape
<1>6. WillKnow => WillKnow'
  BY <1>3, <1>4 DEF WillKnow
<1>7. HasAsked => HasAsked'
  BY <1>2, <1>3 DEF HasAsked
<1>8. Informed'
  BY <1>6, <1>7 DEF Tidy, Informed
<1>9. \A n \in Numbers : IsSent(n) => n \in requests'
  BY DEF Tidy, OneFate
<1>10. QED
  BY <1>4, <1>5, <1>8, <1>9, SentIsTidy

LEMMA TimeoutIsTidy ==
    ASSUME Tidy, ~Accident, onRequestTimeout
    PROVE  Tidy'
<1>1. PICK k \in overdue : overdue' = overdue \ {k} /\ urgent' = Append(urgent, Error(k))
  BY DEF onRequestTimeout
<1>2. UNCHANGED <<session, link, authorised, feed, sent, answers, ordinary, loggedIn,
                  subscriptions, requests, queue, logins>>
  BY DEF onRequestTimeout, closure
<1>3. /\ urgent \in Seq({Error(n) : n \in Numbers}) /\ overdue \subseteq Numbers
      /\ Error(k) \in {Error(n) : n \in Numbers}
  BY DEF Tidy, Shape
<1>4. /\ urgent' \in Seq({Error(n) : n \in Numbers})
      /\ \A e : Has(urgent', e) <=> Has(urgent, e) \/ e = Error(k)
  BY <1>1, <1>3, AppendProperties, HasMore
<1>5. \A n : Error(n) = Error(k) => n = k
  BY MessageKinds
<1>6. \A n \in Numbers : (IsGranted(n)' <=> IsGranted(n)) /\ (Fails(n)' => Fails(n))
  BY <1>1, <1>2, <1>4, <1>5 DEF IsGranted, Fails
<1>7. Shape'
  BY <1>1, <1>2, <1>4 DEF Tidy, Shape
<1>8. Informed'
  BY <1>2, <1>6 DEF Tidy, Informed, WillKnow, HasAsked
<1>9. \A n \in Numbers : IsSent(n) => n \in requests'
  BY <1>2 DEF Tidy, OneFate
<1>10. QED
  BY <1>2, <1>6, <1>7, <1>8, <1>9, SentIsTidy

LEMMA StutterIsTidy ==
    ASSUME Tidy, UNCHANGED vars
    PROVE  Tidy'
<1>1. UNCHANGED <<session, link, authorised, feed, sent, answers, overdue, urgent, ordinary,
                  loggedIn, subscriptions, requests, queue, logins>>
  BY DEF vars, serverVars, channel, closure, counters
<1>2. \A n \in Numbers : (IsGranted(n)' <=> IsGranted(n)) /\ (Fails(n)' => Fails(n))
  BY <1>1 DEF IsGranted, Fails
<1>3. Shape' /\ Informed' /\ \A n \in Numbers : IsSent(n) => n \in requests'
  BY <1>1, <1>2 DEF Tidy, Shape, OneFate, Informed, WillKnow, HasAsked
<1>4. QED
  BY <1>1, <1>2, <1>3, SentIsTidy

-----------------------------------------------------------------------------
LEMMA CalmIsTidy ==
    ASSUME Tidy, accidents = 0, accidents' = 0, [Next]_vars
    PROVE  Tidy'
<1>1. ~Accident
  BY DEF Accident
<1>2. CASE Application
  BY <1>2, ConnectIsTidy, DisconnectIsTidy, SubscribeIsTidy, OtherCallsAreTidy DEF Application
<1>3. CASE Receiving
  BY <1>3, UrgentIsTidy, OrdinaryIsTidy, NoErrorIsThrown DEF Receiving
<1>4. CASE Serving
  BY <1>4, ServeLoginIsTidy, ServeSubscriptionIsTidy DEF Serving
<1>5. CASE onLoginResponse
  <2>1. PICK a \in answers : answers' = answers \ {a} /\ ordinary' = Append(ordinary, a)
                             /\ urgent' = urgent
    BY <1>1, <1>5 DEF onLoginResponse, Posts
  <2>2. UNCHANGED <<session, link, authorised, feed, sent, overdue, loggedIn, subscriptions,
                    requests, queue, logins>>
    BY <1>5 DEF onLoginResponse, closure
  <2>3. QED
    BY <2>1, <2>2, AnswerIsTidy
<1>6. CASE onRequestTimeout
  BY <1>1, <1>6, TimeoutIsTidy
<1>7. CASE LinkUp
  <2>1. ordinary' = Append(ordinary, Status("connected")) /\ urgent' = urgent
    BY <1>1, <1>7 DEF LinkUp, Report, Posts
  <2>2. QED
    BY <1>7, <2>1, LinkUpIsTidy
<1>8. CASE LinkDown
  <2>1. ordinary' = Append(ordinary, Status("disconnected")) /\ urgent' = urgent
    BY <1>1, <1>8 DEF LinkDown, Report, Posts
  <2>2. QED
    BY <1>8, <2>1, LinkDownIsTidy
<1>9. CASE LoseRequest \/ UpdateFails
  BY <1>1, <1>9 DEF LoseRequest, UpdateFails
<1>10. CASE UNCHANGED vars
  BY <1>10, StutterIsTidy
<1>11. QED
  BY <1>2, <1>3, <1>4, <1>5, <1>6, <1>7, <1>8, <1>9, <1>10 DEF Next, Reporting

(* Accidents are counted and never forgotten.                              *)
LEMMA AccidentsAreCounted ==
    ASSUME accidents \in Nat, [Next]_vars
    PROVE  accidents' \in Nat /\ accidents <= accidents'
<1>1. accidents' = accidents \/ accidents' = accidents + 1
  BY DEF Next, Application, Connect, ConnectFails, Disconnect, Subscribe, Unsubscribe, Fetch,
         Receiving, ReceiveUrgent, ReceiveOrdinary, OnError, Serving, ServeLogin,
         ServeSubscription, Reporting, onLoginResponse, onRequestTimeout, LinkUp, LinkDown,
         Report, Posts, LoseRequest, UpdateFails, Accident, counters, vars
<1>2. QED
  BY <1>1

LEMMA InitIsTidy == Init => Tidy
<1> SUFFICES ASSUME Init
             PROVE  Tidy
  OBVIOUS
<1>1. /\ sent = <<>> /\ feed = {} /\ answers = {} /\ overdue = {} /\ urgent = <<>>
      /\ ordinary = <<>> /\ link = "down" /\ authorised = FALSE /\ subscriptions = {}
      /\ queue = <<"subscribeAll">> /\ logins = 0
  BY DEF Init
<1>2. \A n \in Numbers : ~IsSent(n) /\ ~IsGranted(n) /\ ~Fails(n)
  BY <1>1, HasNothing DEF IsSent, IsGranted, Fails
<1>3. OneFate
  BY <1>1, <1>2 DEF OneFate, OneEach
<1>4. queue \in Seq(Actions) /\ Has(queue, "subscribeAll")
  BY <1>1 DEF Actions, Has
<1>5. Shape
  BY <1>1, <1>4, EmptySeq, FS_EmptySet DEF Shape
<1>6. NothingElse /\ Informed
  BY <1>1, TurnsNothing DEF NothingElse, Informed
<1>7. QED
  BY <1>3, <1>5, <1>6 DEF Tidy

LEMMA TidyStreams ==
    ASSUME Tidy, loggedIn, authorised, LoginIsSettled
    PROVE  \A s \in Symbols : s \in subscriptions <=> WillStream(s)
<1>1. \A n \in requests : (\A a \in answers : a.request # n)
                          /\ (\A i \in DOMAIN ordinary : ordinary[i].request # n)
  BY DEF LoginIsSettled
<1>2. ~WillKnow
  BY <1>1, MessageKinds DEF WillKnow, IsGranted, Has
<1>3. HasAsked /\ NothingElse /\ sent \in Seq(RequestSet)
  BY <1>2 DEF Tidy, Informed, Shape
<1>4. \A s \in subscriptions : WillStream(s)
  BY <1>3, TurnsWill DEF HasAsked
<1>5. \A s \in Symbols \ subscriptions : ~WillStream(s)
  BY <1>3, TurnsWill DEF NothingElse
<1>6. QED
  BY <1>4, <1>5

(* Across losses of the link, changes made while it was down or the login  *)
(* under way, late answers and earlier sessions: once a login is settled   *)
(* the server streams what is subscribed, or will when it has worked off   *)
(* what is on its way.                                                     *)
THEOREM SubscribedIsStreamed == Spec => []StreamsWhatIsSubscribed
<1> DEFINE Inv == accidents \in Nat /\ (accidents = 0 => Tidy)
<1>1. Init => Inv
  BY InitIsTidy DEF Init
<1>2. Inv /\ [Next]_vars => Inv'
  <2> SUFFICES ASSUME Inv, [Next]_vars
               PROVE  Inv'
    OBVIOUS
  <2>1. accidents' \in Nat /\ accidents <= accidents'
    BY AccidentsAreCounted
  <2>2. accidents' = 0 => accidents = 0
    BY <2>1
  <2>3. QED
    BY <2>1, <2>2, CalmIsTidy
<1>3. Inv => StreamsWhatIsSubscribed
  BY TidyStreams DEF StreamsWhatIsSubscribed
<1>4. QED
  BY <1>1, <1>2, <1>3, PTL DEF Spec
=============================================================================
