# Specifications of activetick

`activetick` exposes the ActiveTick market data feed to node.js: a native
module (`ActiveTickServerAPI-node/`, C++, Win32) over the closed-source
ActiveTick SDK, and a client (`activetick.js`) on top of it.  This directory
holds TLA+ modules of its control: the lock-free queue, the bridge between the
threads of the SDK and the event loop, and the client; the TLC runs that check
them on small instances; and proofs, checked by TLAPS, of what holds for every
instance.

All paths below are relative to the repository; `node.cpp` stands for
`ActiveTickServerAPI-node/ActiveTickServerAPI.node.cpp`.

## 1. The system

    application  --calls-->  activetick.js  --api.*-->  node.cpp  --AT*-->  ActiveTick SDK
        ^                        |                                              |
        |  listeners,            |  receiveMessages(m1, m2, ...)                |  on*() handlers
        |  callback              |                                              |  on the SDK's threads
        +------------------------+--- executeCallback <-- q, priority <---------+
                                      (event loop)        (queue.h)

| component | state | operations |
|---|---|---|
| message queue, `queue.h` | a buffer of 8-byte blocks; `_head`, `_tail`, `_trailing` as atomic places in it; an indicator (size and two tag bits) in front of every entry | `allocate`, `push` on threads of the SDK; `pop`, `release` on the loop |
| bridge, `node.cpp:15-236` | `q` (16 MB) and `priority` (1 MB), the counter `pushes`, the handle `callbackHandle`, the argument array | ten handlers `onStreamUpdate` ... `onBarHistoryResponse`, `pushMessage`, `pushSuccess`, `pushError`, `triggerCallback`; `executeCallback`, `popQueues` |
| session, `node.cpp:238-321` | `theSession`, the JavaScript callback | `connect`, `disconnect`, `logIn`, `subscribe`, `unsubscribe`, `send` |
| conversion of requests, `node.cpp:292-392` | none | times of ticks into local time, years into 8 bits |
| messages, `message.h`, `exception.h`, `helpers.h` | one C++ object per message | `value()` on the loop makes a JavaScript object of it |
| client, `activetick.js` | `connection`; and in each connection `loggedIn`, `subscriptions`, `requests`, `queue` | `connect`, `disconnect`, `subscribe` and what it returns, `quotes`, `daily`, `holidays` and what they return; `receive` with a handler for each kind of message |
| SDK | sessions, requests, its threads | external |

How they interact.  Several SDK threads run handlers at the same time.  A
handler allocates its messages inside a queue, constructs them in place, pushes
them and now and then signals the event loop.  The loop is the only consumer.  It
empties `priority` (success and error messages), then `q`, into the arguments of
one call of `receiveMessages`.  Everything in `activetick.js` runs on that one
thread, so the client has no data races; it has messages that come late, in
another order than they were posted in, or for something it has given up.

What is hard here, and what makes it correct:

* **Queue.** Four steps of each thread touch shared memory without a lock, the
  buffer wraps without splitting an entry, entries are released out of order.
  Correct if no block is ever owned by two threads, no address lies behind the
  end, a message is read whole, in order, once, and everything claimed is
  released.
* **Bridge.** Many messages are pushed without a signal, a call takes at most
  1025 of them, an entry that is not pushed yet hides those behind it.  Correct if
  no message is left in a queue by a sleeping loop, a response has one verdict,
  its records stay in order, and the loop comes to rest.
* **Session and login.** The link to the server comes and goes, each time with
  another login; calls come before, during and after it; messages of an earlier
  link or session come late.  Correct if the server streams what the application
  subscribed to, and every action that waits for the login runs once.
* **Histories.** A day of ticks is a chain of requests; the verdict of each
  overtakes its records.  Bars come between a header and a trailer, and errors
  and timeouts overtake both.  The last of the holidays is told by a flag.  An
  error of something else may take the rest of a batch with it.  Correct if the
  listener may believe "completed" when nothing was lost, gets records in order
  and one outcome, and gets it at all; and if the request leaves the client's table.
* **Sessions.** `theSession` is an unsynchronised variable that threads read while
  `disconnect()` changes it; requests of different sessions have the same numbers;
  old connection objects go on working.  Correct if an answer never reaches a
  request that it does not answer, no session is forgotten, and `disconnect()`
  returns although it waits for handlers that wait for the loop.
* **Conversions.** Intervals of a day become local times and back; years become a
  byte; loops over items count in unsigned integers of several widths; a
  receiver knows a message by the fields that happen to be set.  Correct if each
  tick and each item is told once, and each message is read as what it is.

`PROJECT.json` lists every component with its status, and under `hazards` each
of these difficulties at the line where it bites, with the properties that
cover it or the reason why none does.

## 2. The modules

| module | models | of |
|---|---|---|
| `RingQueue` | one action per access to shared memory | `queue.h` |
| `MessageQueue` | what users of the queue rely on | abstract; implemented by `RingQueue`, used by `Bridge` |
| `Bridge` | one action per step of a handler and of `executeCallback` | `node.cpp:15-236` |
| `Delivery` | what `activetick.js` relies on: two ordered channels, delivered in batches | abstract; implemented by `Bridge` |
| `Client` | connection, session, login, subscriptions, waiting actions | `activetick.js:8-142, 306-321`, `node.cpp:238-321` |
| `Quotes` | one call of `quotes()` | `activetick.js:144-194`, `node.cpp:191-221` |
| `HistoryCall` | what the listener of a call with one request may rely on | abstract; implemented by `Daily` and `Holidays` |
| `Daily` | one call of `daily()` | `activetick.js:196-261`, `node.cpp:223-236` |
| `Holidays` | one call of `holidays()` | `activetick.js:263-304`, `node.cpp:178-189, 321-327` |
| `Session` | sessions, connection objects, handlers during `disconnect()` | `node.cpp:238-290`, `activetick.js:8-14, 306-321` |
| `Times` | the day of `quotes()` in local time and back | `activetick.js:144-186`, `node.cpp:330-355`, `message.h:186-199` |
| `Messages` | messages from construction to the reader of their fields | `message.h`, `exception.h`, dispatchers of `activetick.js` |
| `ItemLoops` | the loops over the items of a response, with widths | `node.cpp:160-236` |
| `Conversions` | the last three side by side, for one run and one module of proofs | |
| `MC...` | each module for TLC, with symmetry or sets of inputs | |
| `RingQueueProofs`, `BridgeProofs`, `ClientProofs`, `QuotesProofs`, `DailyProofs`, `HolidaysProofs`, `SessionProofs`, `ConversionsProofs` | theorems and proofs | |

The modules are stacked.  `RingQueue` is shown to implement `MessageQueue`;
`Bridge` contains two instances of `MessageQueue`, one for each queue, and is
shown to implement `Delivery`; `Client`, `Quotes`, `Daily` and `Holidays` receive
from two channels that behave as `Delivery` says.  They take one message at a time
from either channel: every order that batches of any size produce is one of these.
`Daily` and `Holidays` are shown to implement `HistoryCall`.

Two things go wrong in the same way in all of the client's modules.

* *A lost batch.*  `receiveMessages` hands its arguments on one by one, and `onError`
  throws on an error without a request (`activetick.js:32-35, 115-119`).  Handlers of
  what answers no request - stream updates, server times, changes of the link - post
  one when they find `q` full (`node.cpp:116, 125, 134`).  What follows it in the
  batch, of whatever call, is never received.
  `LoseTheRest` takes any number of messages from the front of both
  channels, at any time; in `Client` it is part of receiving such an error
  (`RestOfTheCall`), in the modules of one call that error is not a message of theirs.
* *An escaped exception.*  `pushError` (`node.cpp:83-86`) finds `priority` full and
  throws out of the handler: nothing is posted.  This is `Escape`; in `Client` it is
  an outcome of `Posts`.

Both set `lost` (an accident in `Client`).  A property that a loss makes false says so
and excepts it; the others hold in spite of one.  The models assume that the process survives both: that the
application has a handler for uncaught exceptions, and the SDK lets one of C++ pass
through it.  Where the process ends instead, nothing more is told.  They
also assume that the application's own listeners do not throw.

**RingQueue.**  Sizes are counted in blocks.  `_head`, `_tail` and `_trailing`
are kept as distances travelled and compared modulo the size of the buffer, as
the code compares them, so the model can tell a pointer that went round from one
that stayed, and the code cannot.  The buffer's cells hold indicators or payload;
payload names its message, so an overwritten, cleared, lost or repeated message
shows.  `Allocate`, `Reload`, `CheckRoom`, `Retry`, `Overflow`, `AdvanceHead`,
`MissHead`, `MarkSkipped`, `StampSize` are `claim`, `_claim` and `allocate`;
`WriteMessage` is the constructor behind `new(q)`; `LoadTail` ... `MissTail` are
`pop`; `Release`, `ZeroBlock`, `ZeroDone`, `AdvanceTrailing` are `release`, and
what `pop` does to a failed entry.  The code sleeps between tries; the model's
producer just tries again, `Tries` times.  The build is Win32: a locked
compare-exchange does not fail spuriously, and stores are not reordered, so
interleaving is all the nondeterminism there is.

**Bridge.**  A handler is the sequence of its posts (`Handler`), executed step by
step by a thread: allocate, push, count, reset the counter, signal.  Each step can
be interleaved with those of other handlers and of the loop.  Capacities are
counted in messages.  An exception (a full queue, bad data) turns the rest of a
handler into one `pushError`; an exception out of that `pushError` ends the
handler, which is recorded in `escaped` - in the program it leaves through the
SDK, and the model assumes that the process survives it.  Responses to
`onHolidaysResponse` and `onTickHistoryResponse` have at least one record: what
the loops of the code do with none is in `ItemLoops`.  The code has one event
loop; `Wake` clears the signal before `executeCallback` runs, as `uv_async_send`
coalesces signals until the callback starts.

**Client.**  One connection object and one session at a time.  `Connect`,
`ConnectFails`, `Disconnect`, `Subscribe`, `Unsubscribe`, `Fetch` are calls of the
application; the `On...` actions are the client's handlers; the rest is the SDK
and the server: the link goes up and down (`Report` posts the status), requests
are worked off in order, logins answered.  The answer to a login is posted at any
time after it is given, also after a later change of the link was posted.  After
`Disconnect` the old closure goes on receiving until the next `Connect`, and what
is still queued then reaches the new one.  An *accident* is an error without a
request, with which the rest of its batch is lost, an answer or a status that an
escaped `pushError` never posts, a lost request or a refused login; the properties
about streams except them.  The
variable `connected` of the code is never read and left out.  Stream updates and
the responses to subscribe requests (for which the client has no handler) change
no state and are left out.

**Quotes.**  Times are counted in intervals from 0 to `Intervals`.  Each request
has the record of its dispatcher (`begin`, `ended`, `last`) and of its answer.
`requestTicks`, `Dispatch`, `DispatchFatal` and `Cancel` are the functions of the
source; `Respond` is `onTickHistoryResponse`, message by message, so that the
dispatcher runs between any two of them.  `LogIn` and `LogOut` stand for `Client`,
`LoseTheRest` for the errors of anything else in the same batch.
A record whose price is 0 is not told to the listener by the code; the model's
records have prices (`Messages` has those without).

**Daily.**  The client's table of requests has three keys for this call: what
`send()` returned for a request that was made (`sent`), what it returned when
`ATSendRequest` failed (`unsent`: an error object, turned into text), and
`undefined`, which `cancel()` uses when the request still waits for the login.
`timers` counts the running calls of `setTimeout(clear, 10000)` for each key; that
ten seconds pass is `Clear`, at any time.  `Respond` is `onBarHistoryResponse`,
message by message; `Race` is a timeout of a request that is being answered all
the same.

`HistoryCall` counts with `passed` how much of the answer is behind, told or not:
`Tell` is the next record, `Ignore` what comes after the call is over, `Lose` what is
lost.  It lets "completed" be told only when all is behind, and only when all was told
or something was lost.  So a loss can leave a gap in what is told, or take the
outcome; it can neither reorder nor repeat records, nor add an outcome.

**Holidays.**  Years are relative to the one in which the model starts.  `now`
is the clock of the client, which makes the year relative when the request is
made (`thisYear`), and of the server, which makes it absolute when it answers;
`NewYear` may come between any two steps.  `GoingBack` and `GoingForward` are cut
to a number below `Width`, 256 in the code.  An answer holds, for each year it is
about, holidays of US stocks and of another exchange (`Order`); the listener is to
be told only the former, and only of its year, so a record of `holidays()` may be
received and not told, the flagged last one among them.  That is why
`HistoryCall` can end with a record (`TellLast`) or without one (`Complete`).

**Session.**  `connect()` of both layers is one step, as it runs on the loop
without a callback; what may throw in it, before or after the session is created,
is `ConnectThrows`.  `disconnect()` is two steps, since handlers run while
`ATDestroySession` waits for them.  Two things are assumed of the SDK that nothing in
the repository says.  `ATDestroySession` waits for the handlers of its session:
`NoMisdelivery` and `Answered` fail without that, because a handler would then tag its
message with 0 or with the session that came next.  And `ATCreateSession`
(`node.cpp:262`) never gives a session the number of an earlier one: keys of requests
would recur if it did, and a late message of the old session could be taken for
an answer in the new one.  A handler reads `theSession` when it builds its message
and again when it closes its request, as the code does.  One that finds no room in
`q` after its tries (`Overflow`) reports that through `priority` (`PushError`), which
has room for `PCapacity` messages; finding none there either, it leaves without
having posted or closed anything (`Escape`).  `channel` is a set, since nothing here
depends on the order of messages, so `LoseTheRest` takes any part of it.

**Times.**  The fields of an `ATTIME` are one number of seconds on the wall
clock, whose distance to UTC changes once.  `mktime` may return either instant
when the clock shows a time twice.  The loop of `requestTicks` and its
answers are taken one after the other (their order is `Quotes`).

**Messages.**  `Construct` chooses any message a handler builds, `Value` makes
an object of it as `value()` does, `Receive` applies to it the conditions of each
of the receivers in `activetick.js`.  A number is 0 or not, since 0 is what a
receiver takes for "not set"; a text is what a receiver compares.

**ItemLoops.**  One loop at a time with its counter, its bound `count - 1` and
the comparison, in integers of `Max16` and `Max32` values.  `posted` and `ended` say
whether what the other modules assume - every record once, one end - is so.

## 3. The runs

| run | instance | checks |
|---|---|---|
| `ring_safety` | 2 producers, 2 consumers, 8 blocks, sizes 2 and 3, `MaxPos` 10 | `TypeOK`, `InsideBuffer`, `MessageIntact`, `NeverLapped`, `UnclaimedIsZero`, `ExclusiveAccess`, `CurrentIndicator`, `ImplementsMessageQueue` |
| `ring_live` | the same with size 3, `MaxPos` 6, fair | `ClaimsAreReleased` |
| `ring_lap` | 1 consumer, `MaxPos` 18, without the assumption on the scheduler | `ExclusiveAccess`, violated |
| `bridge_safety` | an update, a tick and a bar history on 2 threads, up to 1 record, batch 2, 2 arguments, room for 3 and 1 messages | `NoLostWakeup`, `CountNeverRunsAway`, `OneTrueVerdict`, `EndIsLast` |
| `bridge_live` | a subscription, a holidays response and a timeout, room for 2 and 1, fair | `ImplementsDelivery`, `Answered`, `Settles` |
| `client` | 2 sessions, 3 links, 1 symbol, 1 fetch, 3 changes, 1 accident, a lost batch among them, fair | `StreamsWhatIsSubscribed`, `EachActionOnce`, `EventuallyServed` |
| `quotes_safety` | 3 intervals, up to 2 records, 1 lost session, 2 racing timeouts, failing requests, lost batches | `IntervalsInOrder`, `RecordsInOrder`, `CompletedMeansAll`, `OneConclusion`, `CancelStops` |
| `quotes_live` | 3 intervals, up to 2 records, 2 lost sessions, lost batches, no racing timeouts, fair | `Concludes` |
| `daily` | up to 2 bars, 2 cancellations, 1 lost session, a racing timeout, failing requests, lost batches, fair | `ImplementsHistoryCall`, `Concludes`, `Forgotten` |
| `holidays` | the 8 years from -4 to 3, of a clock that starts at 0 and may go on to 1, distances modulo 3, 3 holidays a year; 2 cancellations, 1 lost session, a racing timeout, failing requests, lost batches, fair | `WholeYear`, `ImplementsHistoryCall`, `Concludes` |
| `session` | 2 threads, 2 sessions, 2 requests in each, room for 1 message in each queue, 1 retry, lost batches, fair | `NoMisdelivery`, `OneSession`, `DisconnectReturns`, `Answered` |
| `conversions` | days of three intervals at six distances from a change of the clock, ticks next to each border; every class of message with every text, flag and condition; loops of up to 12 items in integers of 3 and 4 bits | `EveryTickOnce`, `ConditionsAreReadable`, `ReadAsMeant`, `EveryItemOnce`, `OnlyForward` |

Why the bounds are enough.

* *Ring*: 8 blocks and sizes 2 and 3 make an entry end exactly at the end of the
  buffer, wrap with one and with two blocks skipped, fill the buffer to the last
  block but one, and be refused.  `MaxPos` 10 takes `_head` past the end with
  memory of the first lap still in use.  `Sizes` starts at 2 because a message
  never is smaller than a header and a block.  Two consumers are more than the
  program has; `queue.h` is written for several.
* *Bridge*: a batch of 2, 2 arguments and queues of 1 to 3 messages stand for
  1024, 1025 and megabytes.  With them a response overflows each queue, needs several
  calls, and brings the counter to its limit in the middle of a handler while the
  loop and another handler reset it.  The theorems of section 4 hold for all sizes.
* *Client*: two sessions and three links give a stale status, a stale answer and a
  second and third login; an accident can take either of two messages with it.
  One accident is enough for what is claimed after it: that actions run once.
* *Quotes*: three intervals are a first, a middle and a last one; two records let
  the verdict overtake some of them and not others, and a lost batch take one, both,
  or both with the verdict.  Batches may be lost any number of times.
* *Daily*: two bars let a failure come before, between and after them; two
  cancellations, one before the login and one after, use two keys and two timers.
* *Holidays*: modulo 3 the years from -2 to 2 are within reach, so -4 to 3 holds
  years beyond both ends, and New Year moves one of them in or out.  The year ends
  with a holiday that is told, and one that is not lies between two that are.
* *Session*: two requests give the sessions two numbers in common; with two
  threads one handler keeps `q` or `priority` full while another waits.
* *Conversions*: the days start before, on and after the change; 12 items are more
  than 3 bits count and fewer than 4 do.  A trade has up to two conditions and a
  stream update up to one flag, so any two names can meet; the theorems hold for
  all sets of them.

Deadlock is checked in `ring_*` and `bridge_*`.  `Bridge` has an explicit `Done`
for the state in which the SDK has made its calls and all is delivered.  In the
other modules an application may stop calling, or a message is read and that is
all, so nothing need happen any more and the check is off.

Fairness.  Threads of the SDK are threads of the operating system, and a handler
waits for nothing but the scheduler, so each of its steps is taken eventually:
weak fairness per thread.  The event loop keeps turning: weak fairness of
`executeCallback`, of the consumers of the ring, of receiving, and of timers
(`Clear`, in `Daily`).  The server and the SDK answer what reaches them, or report
a timeout (`DEFAULT_REQUEST_TIMEOUT`): weak fairness of `Serving`,
`onLoginResponse`, `Respond`.  `ATDestroySession` returns when no handler of the
session runs: weak fairness of `Disconnected`.  Nothing makes the application call
or the link come up; in `Quotes`, `Daily` and `Holidays` alone a lost session is
restored (`WF_vars(LogIn)`), since a call made without a session waits for it by
design.  Nothing is fair about what goes wrong: timeouts that race an answer, lost
batches and escaped exceptions may happen and never have to.

### What the runs show

* `RingQueue` keeps its promises under one assumption (`MayLap = FALSE`): while a
  thread stands between loading a pointer and its compare-exchange, the others do
  not move that pointer once round the whole buffer, 16 MB for `q`.
* **Finding** (`ring_lap`).  Without it the comment "we now have exclusive
  write-access to our memory" (`queue.h:211`) is false.  `_claim` loads `_head` and
  `_trailing`, checks the room and then compares `_head` modulo the size of the
  buffer.  When `_head` has gone round exactly once meanwhile, the
  compare-exchange succeeds although the room it was granted is in use.
* `Bridge` loses no wake-up, in spite of messages pushed without one, of the
  counter that all threads reset and of entries that hide others.  The reasons are
  that every handler ends with a trigger and that `executeCallback` triggers
  itself after every call.  The one way not to be answered is an error that finds
  `priority` full (`escaped`).
* `Client`: subscriptions survive every loss of the link, including changes made
  while it is down, and waiting actions run once.  This is so only as long as
  nothing throws out of `receiveMessages`: an error without a request does, and
  may take a "connected" with it.
* `Quotes`: "completed" can be believed unless an error was told before, the last
  interval was invalid, or messages were lost.  After a loss it can be told though
  ticks are missing, with no error to say so; but still once, and with its records
  in order.  A cancelled call makes no further request and tells
  no "completed", unless an interval was waiting for the login; records and errors
  of the interval under way may still be told.
* `Daily` tells one outcome whatever overtakes what, and its request leaves the
  table, whatever order cancellations, answers and timers come in - except that of a
  call cancelled before the request was made, if its answer is lost.  A call that is
  cancelled before the login is told "cancelled", and its bars later all the
  same; `HistoryCall` says so.
* `Holidays`: "completed" means the whole year on condition that it is within
  reach of a byte (255 years), that no New Year comes between the request and
  its answer, and that no batch was lost.
* In both a request that could not be sent hangs its call, and in all three a call
  whose verdict is lost waits for ever: `Concludes` excepts these.
* `Session`: an answer is never misdelivered although numbers recur, since the
  key of a request carries the session and `ATDestroySession` waits.
  `disconnect()` gets past a full queue because handlers give up after 100 tries
  and tell an error through `priority`, or give up altogether when that is full too.
  Every request is answered unless its session ends or its answer is lost.
* `Times`: a tick on the border of two intervals is told once - the interval ends
  a millisecond before the next begins, in local time as well - on days that keep
  clear of a change of the clock by as much as it shifts, as 9:00 to 16:30 does.
* `Messages`: no condition or flag is taken for a field of another kind, and each
  dispatcher reads each answer as what it was posted as.  Two names are both a
  condition of trades and of quotes, so a refresh, which has both, does not tell
  which.  A tick with price 0 is not told.
* `ItemLoops`: every item is posted once, in responses that have any.  With no
  holidays or ticks, `count - 1` is the largest unsigned number and the loop
  reads on behind the response; whether the SDK ever calls with such a response
  is not said anywhere in the repository, and the properties except it.

These exceptions are the code's behaviour and are written into the properties;
`hazards` in `PROJECT.json` names them at their lines.

Every property has a mutant in `PROJECT.json`: a plausible bug in a mapped
definition under which TLC finds the property violated.

## 4. The theorems

All are proved for every value of the constants that the named assumptions
(`SizeAssumption`, `ThreadAssumption`, `NumberAssumption`, `BoundAssumption`,
`TimeAssumption`, `LoopAssumption`, `ChoiceAssumption`) allow.  TLC evaluates these
assumptions in each run.

* `RingQueueProofs!TypeCorrect`: `Spec => []TypeOK`.  The invariant is inductive
  as it stands; the lemmas say where a place lies and how large a claim is.
* `RingQueueProofs`: `PointersInOrder` (`NeverLapped`), `UnclaimedIsClear`
  (`UnclaimedIsZero`), `AccessIsExclusive` (`ExclusiveAccess`), `NeverOutside`
  (`InsideBuffer`), `MessagesIntact` (`MessageIntact`), `IndicatorIsCurrent`
  (`CurrentIndicator`), and the refinement `IsMessageQueue`
  (`ImplementsMessageQueue`), each for every number of producers and consumers,
  every size of the buffer and every set of sizes, if `~MayLap`.  None of them is
  inductive, since no variable says where entries begin.  `SafeInv` says that there
  is a set `S` of positions and a length `n[s]` for each of them such that
  - `Tiling`: the entries `s .. s + n[s] - 1` cover what has been claimed, without
    overlap, none over the end of the buffer; `_tail` is at the start of one;
  - `FillingOK`, `HoldingOK`: what a producer fills is an entry behind `_tail` with
    a header that reads as free; what a consumer holds lies between `_trailing` and
    `_tail`, with its message in place or as far cleared as `zero()` has come; no two
    threads have the same one (`Apart`);
  - `WaitingOK`, `Inner`: a header that pop() would take holds the length of its
    entry, and a block in the middle of an entry cannot be taken for a message;
  - `ProducerLoaded`, `ConsumerLoaded`: a pointer that has not moved since it was
    loaded still has behind it what was checked then.  One that has moved shows
    another place; this is where `~MayLap` is needed, and the only place.

  A claim adds one or two entries to `S`; every other step keeps it.  Two positions
  of the window between `_trailing` and one round further have the same place only
  if they are the same (`InWindow`, from the arithmetic of quotients in `OnePlace`),
  so a store to one entry leaves the others alone.  For the refinement `SafeMaps`
  shows that the messages ready in the abstract queue are the positions of the
  committed headers behind `_tail`, and each step then allocates, pushes, pops,
  releases, or changes nothing.
* `BridgeProofs!CountIsKept`: `Spec => []CountNeverRunsAway`.  The counter is
  compared with `==` after an increment, so passing 1024 would switch the
  wake-ups by count off.  `CountInv` says that whoever brought it there is about
  to reset it; a thread that increments it beyond leaves that one where it is.
* `BridgeProofs!NoWakeupIsLost`: `Spec => []NoLostWakeup`.  `NoLostWakeup` is not
  inductive: that some handler is under way does not say that it will still
  trigger, nor that the loop, about to sleep, has seen everything.  The
  strengthening is the conjunction of
  - `ScriptInv`: what a thread has still to do ends with a step that triggers
    (lemma `HandlerTriggers` for the ten handlers);
  - `FillInv`: tickets are below the next one, and a thread holds one exactly
    while it stands between allocate and push.  Hence a loop that finds nothing
    to pop in a queue that is not empty is blocked by a handler under way
    (`BlockedByFilling`, by well-foundedness of the tickets);
  - `LoopInv`: the types of the loop's variables, and that it releases what it
    popped from `priority` before it goes on;
  - `WakeInv`: for `q`, the loop is awake or a handler is under way; for
    `priority`, the loop will look there again or a handler is past allocating.
    The two differ because a `pushError` that finds `priority` full leaves its
    handler without a trigger.  That is harmless, since what fills `priority` has
    a trigger of its own - and the reason why the proof needs
    `PCapacity \in Nat \ {0}`.
* `BridgeProofs!VerdictIsTrue`: `Spec => []OneTrueVerdict`.  What was sent for a
  call says nothing of what its handler will still send, so the strengthening,
  `PlanInv`, speaks of both: each handler under way goes by a plan about its own
  call (`Planned`: the records first and in order, at most one verdict, after it
  at most a trigger); a thread whose verdict is still ahead has sent none; and the
  number its success will give is that of the records sent plus those still ahead
  of it (`PlanOf`).  An exception replaces the rest of the plan by an error, which
  is true because no verdict had been sent (`ThrowPlan`).
* `BridgeProofs!EndComesLast`: `Spec => []EndIsLast`.  `OrderInv` adds that what
  the loop took from `q` stands in `qSent` at increasing places, before all that is
  still queued; with the plans, which put the last record behind the others, no
  record of a call is taken after its end.
* `BridgeProofs!BridgeDelivers`: `Spec => ImplementsDelivery`, the refinement: the
  allocation of a message is a `Post` or a `PostUrgent`, a call of the callback a
  `Deliver`, everything else a stutter.  What is posted and not delivered is, for
  each queue, what is left of all its messages behind those told, so the invariant
  counts.  `FlowInv`: the argv of the loop is the next `a` urgent messages and
  behind them the next `b` others (`Taken`), and each queue holds exactly the tickets
  from there to the last one given out, each once, pushed or being filled (`Holds`,
  `Queues`).  The front of a queue is then the next to take.  `PlainInv` says that a
  handler posts into `q` only what is not urgent, so the urgent messages in argv can
  be told from the others (`ArgvInTwo`).
* `ClientProofs!ActionsOnce`: `Spec => []EachActionOnce`.  The property counts
  the places of an action in the client's queue; the lemmas say what appending to
  the queue and running it do to the places, by the library's theorems about
  cardinalities.
* `ClientProofs!SubscribedIsStreamed`: `Spec => []StreamsWhatIsSubscribed`.  The
  property speaks of the last request about a symbol; `Turns(sent, feed, s, on)` says
  the same without CHOOSE, for "will be streamed" and "will not".  The invariant
  `Tidy`, which holds until the first accident, has three parts.  `OneFate`: a login
  the server has yet to see is awaited by the client, and none both is granted and
  fails.  `NothingElse`: what is not subscribed will not be streamed.  `Informed`: on
  an authorised link either the answer is on its way to a client that waits for it,
  with no later "disconnected" behind it (`WillKnow`), or the client is logged in, no
  "disconnected" is on its way, and it has asked for all that is subscribed
  (`HasAsked`).  The last part is why the order of status changes and answers in the
  ordinary channel matters.  It needs that no symbol is a number (`BoundAssumption`),
  since a login is told from a subscription by what it is about.
* `QuotesProofs`: `AskedInOrder` (`IntervalsInOrder`), `CancelledStops`
  (`CancelStops`), `ConcludesOnce` (`OneConclusion`), `ToldInOrder`
  (`RecordsInOrder`), all of them in spite of lost messages.  `CancelledStops` is about
  what a cancelled call does of its own - it requests no interval and tells no
  "completed" - and not about records and errors that still arrive.  The argument of
  the first two is that only the latest
  request can make the client go on: either it is still open, or one message that
  continues is on its way, or the next interval waits for the login, or none
  (`Chain`, `Single`); `cancel()` forgets the latest request, so nothing goes on
  then.  For one conclusion, `Alone` adds that at most one message is on its way in
  `priority`, and none is once the call is concluded, as long as no timeout races an
  answer.  For the order of records, `InTime` adds that `q` holds records in the
  order in which they were posted, and that what was told was posted before them.
  A loss shortens both channels from the front, which keeps `Single`, `Alone` and
  `InTime` (`LossKeepsOrder`, `LossAlone`, `LossInTime`); an escaped verdict closes a
  request without a message (`EscapeKeepsOrder`).
  `CompletedIsTrue` (`CompletedMeansAll`) rests on all of it, and on `Full`, which holds until
  something is lost: `~lost => Full` is the invariant.  It has three parts.  `Ends`: a dispatcher
  knows that its interval is the last only when no request is open, and it has
  ended only with the last record of its answer, behind which `q` is empty, or
  without records.  `Whole`: while neither an error nor the cancellation is told, every
  record that was posted is told or still in `q`, and a request whose dispatcher is
  gone has completed and has no record left.  `EachOnce` turns "every number is
  told" into the count of the property, by the bijection between the records
  and their numbers.
* `DailyProofs!KeepsItsPromise`: `Spec => ImplementsHistoryCall`, the refinement
  itself: the initial state maps to the abstract one, and each action to an
  action of `HistoryCall` or a stutter.  The inductive invariant has three parts
  besides the types: a request under the key `sent` has been made and no other
  one has (`Requested`), nothing is posted before it is made (`Fresh`), and
  `Telling`, which relates the two sides: the messages on their way through `q` are
  a section of header, bars, trailer, and what the listener has been told is what
  comes before that section, but for what was lost.  Hence the next bar received is
  the next one to tell, and the trailer finds all told or `lost` set.  Dropping a
  prefix leaves a section (`Dropped`, `LossTells`) and maps to `Lose`.
* `SessionProofs!TypeCorrect`, `NeverTwoSessions`, `NeverMisdelivered`:
  `OneSession` is inductive with the types; `NoMisdelivery` needs `OwnSession`,
  which says that a handler is of the current session as long as it runs - this is
  what the assumption about `ATDestroySession` gives - and that each message
  carries the key of the request that it answers.
* `HolidaysProofs!YearIsWhole` (`Spec => []WholeYear`) and `KeepsItsPromise`
  (`Spec => ImplementsHistoryCall`), for every `Width`, set of years, number of New
  Years and list of exchanges.  What is told of an answer is stated without
  recursion: `Rank` counts the holidays to be told up to a place, and the k-th told
  is the one at which the count comes to k (`Picked`).  The invariant holds what
  `success` and errors that overtake the records cannot disturb: `Section`, the
  messages in the ordinary channel are a section of the answer and only the last
  holiday is flagged; `Telling`, unless something was lost, while the call listens it
  has been told exactly what is picked from before that section, and from all of the
  answer once "completed";
  `Counting`, the request counts from the year it was made in, the answer from its
  own.  The rest is arithmetic: cut to less than `Width` a distance within reach is
  itself, and what is picked from the calendar of several years is what is picked
  from that of the year asked for (`AllOfTheYear`, a bijection by `Shifted`).  A loss
  takes messages from the front of the section; in the abstract call `passed` moves on
  by the number of those that would have been told.
* `ConversionsProofs!TickToldOnce`: `Times`, `Spec => []EveryTickOnce`.  Clear of the
  change, conversion to the wall clock keeps the order of times (`WallOrder`) and
  conversion back is exact; the invariant `Requested` says that a tick has been told
  exactly when the intervals requested so far reach beyond it.
* `ConversionsProofs!ItemsPostedOnce` (`EveryItemOnce`) and `LoopsGoForward`
  (`OnlyForward`): `ItemLoops`, for all widths with `0 < Max16 < Max32` and all
  counts below `Max32`.  The invariant has two halves.  A loop with a response it is
  made for (`Handled`) has posted exactly the items before its index and ends them
  once (`Counts`).  One with a response that it is not made for never comes to
  `done`: its comparison is true at every value of its index (`GoesOn`), so the two
  claims about what is posted at the end hold of it because there is none.
* `ConversionsProofs!MessagesTellConditions` (`ConditionsAreReadable`) and
  `MessagesReadAsMeant` (`ReadAsMeant`, which has a part for each class of message,
  login responses and the header of a bar history among them): `Messages`, for every
  set of conditions and of flags that a message may have, where TLC takes at most two and one.  The
  invariant says that an object is the one value() makes of the message (`ObjectOf`)
  and the reading that of the object.  The content is in the names: which classes
  have a field that a receiver looks for (`KeysOf`), that no condition has the name
  of a field set otherwise (`OwnNames`) and no flag one of a stream update
  (`FlagNames`); hence a receiver finds a field exactly if the class, the envelope
  or the flags put it there (`FieldsFound`).

Only model-checked: liveness (`ClaimsAreReleased`, `Answered`, `Settles`,
`EventuallyServed`, `Concludes`, `Forgotten`, `DisconnectReturns`), which is out of
the prover's reach as all that needs ENABLED is.  Every safety invariant, action
property and refinement that a passing run checks has a theorem.

## 5. Not modelled

* Names of symbols, users and exchanges, the values of prices and sizes, and the
  layout of the JavaScript objects beyond the fields that are read (`helpers.h`
  and the rest of `message.h`): data that is passed on and that no control
  depends on.
* Loading of the module (`node.cpp:62-76, 394-433`): sequential, run once, and
  no later step races with it.
* `connect()` called from inside a callback of `receiveMessages`.
* The SDK, node, V8, libuv: third-party code, external actions where the models
  need them.  Their headers (`.node-gyp`) are by far the larger part of the lines
  of the repository.

## 6. Plan

Done: everything in the tables above.  The lemmas about sequences, picking and
counting in `HolidaysProofs` are the ones to build on for a second request kind with
one answer.  Left: `Client` and the history modules in one composition, in which
`LogIn` and `LogOut` of the latter are those of the former, as their own models now
assume.
