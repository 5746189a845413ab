---------------------------- MODULE BridgeProofs ----------------------------
(* What holds of Bridge for every number of threads, calls and records,    *)
(* every batch size and every capacity of the queues.                      *)
EXTENDS Bridge, SequenceTheorems, WellFoundedInduction, FiniteSetTheorems, TLAPS

-----------------------------------------------------------------------------
(* Scripts: every handler ends with a trigger, and only pushError posts an *)
(* error.                                                                  *)
Types == {"notice", "item", "complete", "success", "error", "none"}
AnyMessage == [call : Calls, type : Types, number : Int, end : BOOLEAN]
AnyStep == [queue : {"q", "priority", "none"}, message : AnyMessage, trigger : BOOLEAN]
Step_s == {s \in AnyStep : s.message.type = "error" => s.queue = "priority"}

Triggers(s) == s \in Seq(Step_s) /\ s # <<>> /\ s[Len(s)].trigger = TRUE

PCs == {"idle", "post", "push", "count", "reset", "send"}

ScriptInv ==
    /\ pc \in [Threads -> PCs]
    /\ script \in [Threads -> Seq(Step_s)]
    /\ \A t \in Threads : pc[t] # "idle" => Triggers(script[t])

LEMMA StepType ==
    ASSUME NEW q \in {"q", "priority", "none"}, NEW c \in Calls, NEW type \in Types,
           NEW i \in Int, NEW e \in BOOLEAN, NEW b \in BOOLEAN,
           type = "error" => q = "priority"
    PROVE  /\ [queue |-> q, message |-> Message(c, type, i, e), trigger |-> b] \in Step_s
           /\ [queue |-> q, message |-> Message(c, type, i, e), trigger |-> b].trigger = b
BY DEF Message, Step_s, AnyStep, AnyMessage

LEMMA PostIsStep ==
    ASSUME NEW c \in Calls, NEW type \in {"notice", "item", "complete"}, NEW i \in Int,
           NEW e \in BOOLEAN, NEW b \in BOOLEAN
    PROVE  /\ pushMessage(Message(c, type, i, e), b) \in Step_s
           /\ pushMessage(Message(c, type, i, e), b).trigger = b
<1>1. type \in Types /\ type # "error"
  BY DEF Types
<1>2. "q" \in {"q", "priority", "none"}
  OBVIOUS
<1>3. QED
  BY <1>1, <1>2, StepType, Zenon DEF pushMessage

LEMMA FinalIsStep ==
    ASSUME NEW c \in Calls, NEW n \in Int
    PROVE  /\ pushSuccess(c, n) \in Step_s /\ pushSuccess(c, n).trigger = TRUE
           /\ pushError(c) \in Step_s /\ pushError(c).trigger = TRUE
           /\ triggerCallback(c) \in Step_s /\ triggerCallback(c).trigger = TRUE
<1>1. TRUE \in BOOLEAN /\ FALSE \in BOOLEAN /\ 0 \in Int
  OBVIOUS
<1>2. "success" \in Types /\ "error" \in Types /\ "none" \in Types
  BY DEF Types
<1>3. "success" # "error" /\ "none" # "error"
  OBVIOUS
<1>4. "priority" \in {"q", "priority", "none"} /\ "none" \in {"q", "priority", "none"}
  OBVIOUS
<1>5. pushSuccess(c, n) \in Step_s /\ pushSuccess(c, n).trigger = TRUE
  BY <1>1, <1>2, <1>3, <1>4, StepType, Zenon DEF pushSuccess
<1>6. pushError(c) \in Step_s /\ pushError(c).trigger = TRUE
  BY <1>1, <1>2, <1>4, StepType, Zenon DEF pushError
<1>7. triggerCallback(c) \in Step_s /\ triggerCallback(c).trigger = TRUE
  BY <1>1, <1>2, <1>3, <1>4, StepType, Zenon DEF triggerCallback
<1>8. QED
  BY <1>5, <1>6, <1>7

LEMMA AppendTriggers ==
    ASSUME NEW s \in Seq(Step_s), NEW f \in Step_s, f.trigger = TRUE
    PROVE  Triggers(Append(s, f))
BY DEF Triggers

LEMMA OneTriggers ==
    ASSUME NEW f \in Step_s, f.trigger = TRUE
    PROVE  Triggers(<<f>>)
BY DEF Triggers

LEMMA ItemsType ==
    ASSUME NEW c \in Calls, NEW n \in Nat
    PROVE  /\ Items(c, n) \in Seq(Step_s)
           /\ barMessages(c, n) \in Seq(Step_s)
<1>1. ASSUME NEW i \in 1 .. n
      PROVE  pushMessage(Message(c, "item", i, IsLast(i, n)), FALSE) \in Step_s
  <2>1. /\ "item" \in {"notice", "item", "complete"}
        /\ IsLast(i, n) \in BOOLEAN
        /\ i \in Int
        /\ FALSE \in BOOLEAN
    BY DEF IsLast
  <2>2. QED
    BY <2>1, PostIsStep, Zenon
<1>2. ASSUME NEW i \in 1 .. n + 2
      PROVE  pushMessage(Message(c, IF i = n + 2 THEN "complete" ELSE "item", i, i = n + 2), FALSE)
                \in Step_s
  <2>1. /\ (IF i = n + 2 THEN "complete" ELSE "item") \in {"notice", "item", "complete"}
        /\ (i = n + 2) \in BOOLEAN
        /\ i \in Int
        /\ FALSE \in BOOLEAN
    OBVIOUS
  <2>2. QED
    BY <2>1, PostIsStep, Zenon
<1>3. Items(c, n) \in Seq(Step_s)
  <2> DEFINE f(i) == pushMessage(Message(c, "item", i, IsLast(i, n)), FALSE)
  <2>1. \A i \in 1 .. n : f(i) \in Step_s
    BY <1>1
  <2>2. Items(c, n) = [i \in 1 .. n |-> f(i)]
    BY Zenon DEF Items
  <2> HIDE DEF f
  <2>3. [i \in 1 .. n |-> f(i)] \in Seq(Step_s)
    BY <2>1
  <2>4. QED
    BY <2>2, <2>3
<1>4. barMessages(c, n) \in Seq(Step_s)
  <2> DEFINE f(i) == pushMessage(Message(c, IF i = n + 2 THEN "complete" ELSE "item", i, i = n + 2), FALSE)
  <2>1. \A i \in 1 .. n + 2 : f(i) \in Step_s
    BY <1>2
  <2>2. n + 2 \in Nat
    OBVIOUS
  <2>3. barMessages(c, n) = [i \in 1 .. n + 2 |-> f(i)]
    BY Zenon DEF barMessages
  <2> HIDE DEF f
  <2>4. [i \in 1 .. n + 2 |-> f(i)] \in Seq(Step_s)
    BY <2>1, <2>2
  <2>5. QED
    BY <2>3, <2>4
<1>5. QED
  BY <1>3, <1>4

(* Every handler's script ends with a step that triggers.                  *)
LEMMA HandlerTriggers ==
    ASSUME NEW c \in Calls, NEW s \in Handler(c)
    PROVE  Triggers(s)
<1>1. Triggers(Notice(c))
  <2>1. "notice" \in {"notice", "item", "complete"} /\ TRUE \in BOOLEAN /\ 1 \in Int
    OBVIOUS
  <2>2. /\ pushMessage(Message(c, "notice", 1, TRUE), TRUE) \in Step_s
        /\ pushMessage(Message(c, "notice", 1, TRUE), TRUE).trigger = TRUE
    BY <2>1, PostIsStep, Zenon
  <2>3. QED
    BY <2>2, OneTriggers, Zenon DEF Notice
<1>2. ASSUME NEW n \in Nat
      PROVE  /\ Triggers(onQuoteStreamResponse(c, n))
             /\ Triggers(onHolidaysResponse(c, n))
             /\ Triggers(onTickHistoryResponse(c, n))
             /\ Triggers(onBarHistoryResponse(c, n))
  <2> DEFINE m == pushMessage(Message(c, "item", 0, TRUE), FALSE)
             f == triggerCallback(c)
  <2>1. "item" \in {"notice", "item", "complete"} /\ TRUE \in BOOLEAN /\ FALSE \in BOOLEAN
    OBVIOUS
  <2>2. 0 \in Int /\ n \in Int
    OBVIOUS
  <2>3. m \in Step_s
    BY <2>1, <2>2, PostIsStep, Zenon
  <2>4. f \in Step_s /\ f.trigger = TRUE
    BY <2>2, FinalIsStep
  <2>5. Triggers(<<m, f>>)
    <3> HIDE DEF m, f
    <3>1. <<m>> \in Seq(Step_s) /\ <<m, f>> = Append(<<m>>, f)
      BY <2>3, <2>4
    <3>2. QED
      BY <2>4, <3>1, AppendTriggers
  <2>6. Triggers(Append(Items(c, n), f))
    BY <2>4, ItemsType, AppendTriggers, Zenon
  <2>7. Triggers(Append(Items(c, n), pushSuccess(c, n)))
    BY <2>2, FinalIsStep, ItemsType, AppendTriggers, Zenon
  <2>8. Triggers(Append(barMessages(c, n), f))
    BY <2>4, ItemsType, AppendTriggers, Zenon
  <2>9. QED
    BY <2>5, <2>6, <2>7, <2>8, Zenon
       DEF onQuoteStreamResponse, onHolidaysResponse, onTickHistoryResponse, onBarHistoryResponse
<1>3. Triggers(<<pushError(c)>>)
  <2>1. 0 \in Int
    OBVIOUS
  <2>2. QED
    BY <2>1, FinalIsStep, OneTriggers, Zenon
<1>4. 0 .. MaxRecords \subseteq Nat /\ 1 .. MaxRecords \subseteq Nat
  BY NumberAssumption
<1>5. QED
  BY <1>1, <1>2, <1>3, <1>4 DEF Handler, Calls

-----------------------------------------------------------------------------
LEMMA StepOf ==
    ASSUME NEW t \in Threads, ScriptInv, pc[t] # "idle"
    PROVE  Step(t) \in Step_s /\ Step(t).message \in AnyMessage
<1>1. Step(t) \in Step_s
  BY DEF ScriptInv, Triggers, Step
<1>2. QED
  BY <1>1 DEF Step_s, AnyStep

(* What Proceed and Goto do to the threads.                                *)
Others(t) ==
    /\ DOMAIN pc' = Threads /\ DOMAIN script' = Threads
    /\ \A u \in Threads \ {t} : pc'[u] = pc[u] /\ script'[u] = script[u]

LEMMA ProceedWith ==
    ASSUME NEW t \in Threads, ScriptInv, NEW s, Triggers(s), Proceed(t, s)
    PROVE  ScriptInv' /\ Others(t) /\ pc'[t] \in {"reset", "post"}
<1>1. s \in Seq(Step_s) /\ s # <<>>
  BY DEF Triggers
<1>2. script' = [script EXCEPT ![t] = s] /\ script'[t] = s
  BY DEF Proceed, ScriptInv
<1>3. pc' \in [Threads -> PCs] /\ pc'[t] \in {"reset", "post"}
  BY <1>1 DEF Proceed, ScriptInv, PCs
<1>4. \A u \in Threads \ {t} : pc'[u] = pc[u] /\ script'[u] = script[u]
  BY DEF Proceed, ScriptInv
<1>5. script' \in [Threads -> Seq(Step_s)]
  BY <1>1, <1>2 DEF ScriptInv
<1>6. \A u \in Threads : pc'[u] # "idle" => Triggers(script'[u])
  BY <1>2, <1>4 DEF ScriptInv
<1>7. QED
  BY <1>3, <1>4, <1>5, <1>6 DEF ScriptInv, Others

LEMMA ProceedOut ==
    ASSUME NEW t \in Threads, ScriptInv, Proceed(t, <<>>)
    PROVE  ScriptInv' /\ Others(t) /\ pc'[t] = "idle"
<1>1. script' \in [Threads -> Seq(Step_s)]
  BY DEF Proceed, ScriptInv
<1>2. pc' \in [Threads -> PCs] /\ pc'[t] = "idle"
  BY DEF Proceed, ScriptInv, PCs
<1>3. \A u \in Threads \ {t} : pc'[u] = pc[u] /\ script'[u] = script[u]
  BY DEF Proceed, ScriptInv
<1>4. QED
  BY <1>1, <1>2, <1>3 DEF ScriptInv, Others

(* A thread that goes on to its next step either has one or has just done  *)
(* a step that triggers.                                                   *)
LEMMA ProceedOn ==
    ASSUME NEW t \in Threads, ScriptInv, pc[t] # "idle", Proceed(t, Tail(script[t]))
    PROVE  /\ ScriptInv' /\ Others(t)
           /\ pc'[t] \in {"idle", "reset", "post"}
           /\ pc'[t] = "idle" => Step(t).trigger = TRUE
<1>1. Triggers(script[t])
  BY DEF ScriptInv
<1>2. CASE Tail(script[t]) = <<>>
  <2>1. Len(script[t]) = 1
    <3> DEFINE s == script[t]
    <3>1. s \in Seq(Step_s) /\ s # <<>> /\ Tail(s) = <<>>
      BY <1>1, <1>2 DEF Triggers
    <3> HIDE DEF s
    <3>2. Len(s) \in Nat /\ Len(s) # 0
      BY <3>1
    <3>3. Len(Tail(s)) = Len(s) - 1
      BY <3>1
    <3>4. Len(<<>>) = 0
      OBVIOUS
    <3>5. Len(s) - 1 = 0
      BY <3>1, <3>3, <3>4
    <3>6. Len(s) = 1
      BY ONLY <3>2, <3>5
    <3>7. QED
      BY <3>6 DEF s
  <2>2. Step(t).trigger = TRUE
    BY <1>1, <2>1 DEF Triggers, Step
  <2>3. QED
    BY <1>2, <2>2, ProceedOut
<1>3. CASE Tail(script[t]) # <<>>
  <2>1. Triggers(Tail(script[t]))
    <3>1. /\ script[t] \in Seq(Step_s) /\ script[t] # <<>>
          /\ script[t][Len(script[t])].trigger = TRUE
      BY <1>1 DEF Triggers
    <3> DEFINE s == script[t]
    <3> HIDE DEF s
    <3>2. s \in Seq(Step_s) /\ s # <<>> /\ Tail(s) # <<>>
      BY <3>1, <1>3 DEF s
    <3>3. Tail(s) \in Seq(Step_s) /\ Tail(s)[Len(Tail(s))] = s[Len(s)]
      BY <3>2
    <3>4. QED
      BY <3>1, <3>2, <3>3 DEF s, Triggers
  <2>2. QED
    BY <2>1, ProceedWith
<1>4. QED
  BY <1>2, <1>3

LEMMA GotoOn ==
    ASSUME NEW t \in Threads, ScriptInv, pc[t] # "idle",
           NEW label \in PCs \ {"idle"}, Goto(t, label)
    PROVE  ScriptInv' /\ Others(t) /\ pc'[t] = label /\ script' = script
<1>1. pc' \in [Threads -> PCs] /\ pc'[t] = label /\ script' = script
  BY DEF Goto, ScriptInv, PCs
<1>2. \A u \in Threads \ {t} : pc'[u] = pc[u]
  BY DEF Goto, ScriptInv
<1>3. QED
  BY <1>1, <1>2 DEF ScriptInv, Others

(* What Throw does: it ends the call of a thread whose error finds no room *)
(* and makes any other report an error.                                    *)
LEMMA ThrowOn ==
    ASSUME NEW t \in Threads, ScriptInv, pc[t] # "idle", Throw(t)
    PROVE  /\ ScriptInv' /\ Others(t)
           /\ \/ pc'[t] \in {"reset", "post"}
              \/ pc'[t] = "idle" /\ Step(t).queue = "priority"
<1>1. Step(t) \in Step_s
  BY StepOf
<1>2. CASE Step(t).message.type = "error"
  <2>1. Step(t).queue = "priority"
    BY <1>1, <1>2 DEF Step_s
  <2>2. QED
    BY <1>2, <2>1, ProceedOut DEF Throw
<1>3. CASE Step(t).message.type # "error"
  <2>1. Step(t).message.call \in Calls
    BY <1>1 DEF Step_s, AnyStep, AnyMessage
  <2>2. Triggers(ErrorOnly(t))
    <3>1. 0 \in Int
      OBVIOUS
    <3>2. QED
      BY <2>1, <3>1, FinalIsStep, OneTriggers, Zenon DEF ErrorOnly
  <2>3. QED
    BY <1>3, <2>2, ProceedWith DEF Throw
<1>4. QED
  BY <1>2, <1>3

-----------------------------------------------------------------------------
(* Every handler that is under way has a trigger ahead of it.              *)
LEMMA ScriptStep == ScriptInv /\ [Next]_vars => ScriptInv'
<1> SUFFICES ASSUME ScriptInv, [Next]_vars
             PROVE  ScriptInv'
  OBVIOUS
<1>1. ASSUME NEW t \in Threads, NEW c \in Calls, Begin(t, c)
      PROVE  ScriptInv'
  BY <1>1, HandlerTriggers, ProceedWith DEF Begin
<1>2. ASSUME NEW t \in Threads, AllocateMessage(t) \/ AllocateUrgent(t)
      PROVE  ScriptInv'
  BY <1>2, GotoOn DEF AllocateMessage, AllocateUrgent, PCs
<1>3. ASSUME NEW t \in Threads, QueueOverflow(t) \/ BadData(t)
      PROVE  ScriptInv'
  BY <1>3, ThrowOn DEF QueueOverflow, BadData
<1>4. ASSUME NEW t \in Threads, PushMessage(t) \/ PushUrgent(t)
      PROVE  ScriptInv'
  BY <1>4, GotoOn DEF PushMessage, PushUrgent, PCs
<1>5. ASSUME NEW t \in Threads, Count(t)
      PROVE  ScriptInv'
  BY <1>5, GotoOn, ProceedOn DEF Count, PCs
<1>6. ASSUME NEW t \in Threads, Reset(t) \/ Send(t)
      PROVE  ScriptInv'
  BY <1>6, GotoOn, ProceedOn DEF Reset, Send, PCs
<1>7. CASE executeCallback \/ Done \/ UNCHANGED vars
  <2>1. UNCHANGED <<pc, script>>
    BY <1>7 DEF executeCallback, Wake, PopUrgent, ReleaseUrgent, NoMoreUrgent, PopMessage,
       ReleaseMessage, NoMoreMessages, CallBack, ResetAgain, SendAgain, Done, vars, apiVars
  <2>2. QED
    BY <2>1 DEF ScriptInv
<1>8. QED
  BY <1>1, <1>2, <1>3, <1>4, <1>5, <1>6, <1>7 DEF Next, Handle

-----------------------------------------------------------------------------
(* A place in a queue that is taken and not pushed belongs to a handler    *)
(* that is about to push; the tickets in use are those given out.          *)
Tickets(s) == 0 .. Len(s) - 1

FillInv ==
    /\ qSent \in Seq(AnyMessage) /\ pSent \in Seq(AnyMessage)
    /\ qFilling \in [Threads -> Tickets(qSent) \cup {None}]
    /\ pFilling \in [Threads -> Tickets(pSent) \cup {None}]
    /\ qReady \subseteq Tickets(qSent) /\ pReady \subseteq Tickets(pSent)
    /\ \A t \in Threads : qFilling[t] # None => pc[t] = "push" /\ Step(t).queue = "q"
    /\ \A t \in Threads : pFilling[t] # None => pc[t] = "push" /\ Step(t).queue = "priority"

(* A queue that has a message to pop and refuses to pop one waits for a    *)
(* handler.                                                                *)
LEMMA LessIsInOrder ==
    ASSUME NEW x \in Nat, NEW y \in Nat, x < y
    PROVE  <<x, y>> \in OpToRel(<, Nat)
<1> SUFFICES <<x, y>> \in {ss \in Nat \X Nat : ss[1] < ss[2]}
  BY Zenon DEF OpToRel
<1> QED
  OBVIOUS

LEMMA LeastTicket ==
    ASSUME NEW S, S \subseteq Nat, S # {}
    PROVE  \E m \in S : \A n \in S : m <= n
<1>1. PICK m \in S : \A n \in S : ~(<<n, m>> \in OpToRel(<, Nat))
  BY NatLessThanWellFounded, WFMin, Zenon
<1>2. \A n \in S : ~(n < m)
  BY <1>1, LessIsInOrder, Zenon
<1>3. QED
  BY <1>2

LEMMA BlockedByFilling ==
    ASSUME FillInv
    PROVE  /\ qReady # {} /\ Q!NothingToPop => \E t \in Threads : qFilling[t] # None
           /\ pReady # {} /\ P!NothingToPop => \E t \in Threads : pFilling[t] # None
<1>1. ASSUME qReady # {}, Q!NothingToPop
      PROVE  \E t \in Threads : qFilling[t] # None
  <2>1. qReady \subseteq Nat
    BY DEF FillInv, Tickets
  <2>2. PICK m \in qReady : \A n \in qReady : m <= n
    BY <1>1, <2>1, LeastTicket
  <2>3. PICK n \in Q!Queued : ~(m <= n)
    BY <1>1 DEF Q!NothingToPop, Q!Front
  <2>4. QED
    BY <2>2, <2>3 DEF Q!Queued
<1>2. ASSUME pReady # {}, P!NothingToPop
      PROVE  \E t \in Threads : pFilling[t] # None
  <2>1. pReady \subseteq Nat
    BY DEF FillInv, Tickets
  <2>2. PICK m \in pReady : \A n \in pReady : m <= n
    BY <1>2, <2>1, LeastTicket
  <2>3. PICK n \in P!Queued : ~(m <= n)
    BY <1>2 DEF P!NothingToPop, P!Front
  <2>4. QED
    BY <2>2, <2>3 DEF P!Queued
<1>3. QED
  BY <1>1, <1>2

LEMMA FillStep == ScriptInv /\ FillInv /\ [Next]_vars => FillInv'
<1> SUFFICES ASSUME ScriptInv, FillInv, [Next]_vars
             PROVE  FillInv'
  OBVIOUS
<1>a. ASSUME NEW t \in Threads, pc[t] # "push", Others(t), UNCHANGED <<qVars, pVars>>
      PROVE  FillInv'
  <2>1. qFilling[t] = None /\ pFilling[t] = None
    BY <1>a DEF FillInv
  <2>2. \A u \in Threads \ {t} : pc'[u] = pc[u] /\ Step(u)' = Step(u)
    BY <1>a DEF Others, Step
  <2>3. QED
    BY <1>a, <2>1, <2>2 DEF FillInv, qVars, pVars, Tickets
<1>1. ASSUME NEW t \in Threads, NEW c \in Calls, Begin(t, c)
      PROVE  FillInv'
  BY <1>1, <1>a, HandlerTriggers, ProceedWith DEF Begin
<1>2. ASSUME NEW t \in Threads, AllocateMessage(t)
      PROVE  FillInv'
  <2>1. Others(t) /\ pc'[t] = "push" /\ script' = script
    BY <1>2, GotoOn DEF AllocateMessage, PCs
  <2>2. Step(t).message \in AnyMessage
    BY <1>2, StepOf DEF AllocateMessage
  <2>3. /\ qSent' \in Seq(AnyMessage) /\ Len(qSent') = Len(qSent) + 1
        /\ Len(qSent) \in Nat
    BY <1>2, <2>2 DEF AllocateMessage, FillInv
  <2>4. Tickets(qSent) \subseteq Tickets(qSent')
    BY <2>3 DEF Tickets
  <2>5. PICK k \in Len(qSent) .. (Len(qSent') - 1) : qFilling' = [qFilling EXCEPT ![t] = k]
    BY <1>2 DEF AllocateMessage, Q!Allocate
  <2>6. k \in Tickets(qSent')
    BY <2>3, <2>5 DEF Tickets
  <2>7. qReady' = qReady /\ pSent' = pSent /\ pFilling' = pFilling /\ pReady' = pReady
    BY <1>2 DEF AllocateMessage, Q!Allocate, pVars
  <2>8. qFilling' \in [Threads -> Tickets(qSent') \cup {None}]
    BY <2>4, <2>5, <2>6 DEF FillInv
  <2>9. Step(t).queue = "q" /\ pFilling[t] = None
    BY <1>2 DEF AllocateMessage, FillInv
  <2>10. \A u \in Threads \ {t} : pc'[u] = pc[u] /\ Step(u)' = Step(u) /\ qFilling'[u] = qFilling[u]
    BY <2>1, <2>5 DEF Others, Step, FillInv
  <2>11. Step(t)' = Step(t)
    BY <2>1 DEF Step
  <2>12. \A u \in Threads : qFilling'[u] # None => pc'[u] = "push" /\ Step(u)'.queue = "q"
    BY <2>1, <2>9, <2>10, <2>11 DEF FillInv
  <2>13. \A u \in Threads : pFilling'[u] # None => pc'[u] = "push" /\ Step(u)'.queue = "priority"
    BY <2>7, <2>9, <2>10 DEF FillInv
  <2>14. qReady' \subseteq Tickets(qSent')
    BY <2>4, <2>7 DEF FillInv
  <2>15. QED
    BY <2>3, <2>7, <2>8, <2>12, <2>13, <2>14 DEF FillInv, Tickets
<1>3. ASSUME NEW t \in Threads, AllocateUrgent(t)
      PROVE  FillInv'
  <2>1. Others(t) /\ pc'[t] = "push" /\ script' = script
    BY <1>3, GotoOn DEF AllocateUrgent, PCs
  <2>2. Step(t).message \in AnyMessage
    BY <1>3, StepOf DEF AllocateUrgent
  <2>3. /\ pSent' \in Seq(AnyMessage) /\ Len(pSent') = Len(pSent) + 1
        /\ Len(pSent) \in Nat
    BY <1>3, <2>2 DEF AllocateUrgent, FillInv
  <2>4. Tickets(pSent) \subseteq Tickets(pSent')
    BY <2>3 DEF Tickets
  <2>5. PICK k \in Len(pSent) .. (Len(pSent') - 1) : pFilling' = [pFilling EXCEPT ![t] = k]
    BY <1>3 DEF AllocateUrgent, P!Allocate
  <2>6. k \in Tickets(pSent')
    BY <2>3, <2>5 DEF Tickets
  <2>7. pReady' = pReady /\ qSent' = qSent /\ qFilling' = qFilling /\ qReady' = qReady
    BY <1>3 DEF AllocateUrgent, P!Allocate, qVars
  <2>8. pFilling' \in [Threads -> Tickets(pSent') \cup {None}]
    BY <2>4, <2>5, <2>6 DEF FillInv
  <2>9. Step(t).queue = "priority" /\ qFilling[t] = None
    BY <1>3 DEF AllocateUrgent, FillInv
  <2>10. \A u \in Threads \ {t} : pc'[u] = pc[u] /\ Step(u)' = Step(u) /\ pFilling'[u] = pFilling[u]
    BY <2>1, <2>5 DEF Others, Step, FillInv
  <2>11. Step(t)' = Step(t)
    BY <2>1 DEF Step
  <2>12. \A u \in Threads : pFilling'[u] # None => pc'[u] = "push" /\ Step(u)'.queue = "priority"
    BY <2>1, <2>9, <2>10, <2>11 DEF FillInv
  <2>13. \A u \in Threads : qFilling'[u] # None => pc'[u] = "push" /\ Step(u)'.queue = "q"
    BY <2>7, <2>9, <2>10 DEF FillInv
  <2>14. pReady' \subseteq Tickets(pSent')
    BY <2>4, <2>7 DEF FillInv
  <2>15. QED
    BY <2>3, <2>7, <2>8, <2>12, <2>13, <2>14 DEF FillInv, Tickets
<1>4. ASSUME NEW t \in Threads, QueueOverflow(t) \/ BadData(t)
      PROVE  FillInv'
  BY <1>4, <1>a, ThrowOn DEF QueueOverflow, BadData
<1>5. ASSUME NEW t \in Threads, PushMessage(t)
      PROVE  FillInv'
  <2>1. Others(t) /\ pc'[t] = "count"
    BY <1>5, GotoOn DEF PushMessage, PCs
  <2>2. /\ qFilling[t] # None /\ qFilling' = [qFilling EXCEPT ![t] = None]
        /\ qReady' = qReady \cup {qFilling[t]}
    BY <1>5 DEF PushMessage, Q!Push
  <2>3. qReady' \subseteq Tickets(qSent)
    BY <2>2 DEF FillInv
  <2>4. UNCHANGED <<qSent, pSent, pFilling, pReady>>
    BY <1>5 DEF PushMessage, pVars
  <2>5. pFilling[t] = None /\ qFilling'[t] = None
    BY <1>5, <2>2 DEF PushMessage, FillInv
  <2>6. \A u \in Threads \ {t} : pc'[u] = pc[u] /\ Step(u)' = Step(u) /\ qFilling'[u] = qFilling[u]
    BY <2>1, <2>2 DEF Others, Step, FillInv
  <2>7. qFilling' \in [Threads -> Tickets(qSent) \cup {None}]
    BY <2>2 DEF FillInv
  <2>8. QED
    BY <2>3, <2>4, <2>5, <2>6, <2>7 DEF FillInv, Tickets
<1>6. ASSUME NEW t \in Threads, PushUrgent(t)
      PROVE  FillInv'
  <2>1. Others(t) /\ pc'[t] = "reset"
    BY <1>6, GotoOn DEF PushUrgent, PCs
  <2>2. /\ pFilling[t] # None /\ pFilling' = [pFilling EXCEPT ![t] = None]
        /\ pReady' = pReady \cup {pFilling[t]}
    BY <1>6 DEF PushUrgent, P!Push
  <2>3. pReady' \subseteq Tickets(pSent)
    BY <2>2 DEF FillInv
  <2>4. UNCHANGED <<qSent, pSent, qFilling, qReady>>
    BY <1>6 DEF PushUrgent, qVars
  <2>5. qFilling[t] = None /\ pFilling'[t] = None
    BY <1>6, <2>2 DEF PushUrgent, FillInv
  <2>6. \A u \in Threads \ {t} : pc'[u] = pc[u] /\ Step(u)' = Step(u) /\ pFilling'[u] = pFilling[u]
    BY <2>1, <2>2 DEF Others, Step, FillInv
  <2>7. pFilling' \in [Threads -> Tickets(pSent) \cup {None}]
    BY <2>2 DEF FillInv
  <2>8. QED
    BY <2>3, <2>4, <2>5, <2>6, <2>7 DEF FillInv, Tickets
<1>7. ASSUME NEW t \in Threads, Count(t)
      PROVE  FillInv'
  <2>1. Others(t) /\ pc[t] # "push" /\ UNCHANGED <<qVars, pVars>>
    BY <1>7, GotoOn, ProceedOn DEF Count, PCs
  <2>2. QED
    BY <2>1, <1>a
<1>8. ASSUME NEW t \in Threads, Reset(t) \/ Send(t)
      PROVE  FillInv'
  <2>1. Others(t) /\ pc[t] # "push" /\ UNCHANGED <<qVars, pVars>>
    BY <1>8, GotoOn, ProceedOn DEF Reset, Send, PCs
  <2>2. QED
    BY <2>1, <1>a
<1>9. CASE executeCallback \/ Done \/ UNCHANGED vars
  <2>1. /\ UNCHANGED <<pc, script, qSent, qFilling, pSent, pFilling>>
        /\ qReady' \subseteq qReady /\ pReady' \subseteq pReady
    BY <1>9 DEF executeCallback, Wake, PopUrgent, ReleaseUrgent, NoMoreUrgent, PopMessage,
       ReleaseMessage, NoMoreMessages, CallBack, ResetAgain, SendAgain, Done, vars, apiVars,
       qVars, pVars, Q!Pop, P!Pop, Q!Release, P!Release
  <2>2. \A t \in Threads : Step(t)' = Step(t)
    BY <2>1 DEF Step
  <2>3. QED
    BY <2>1, <2>2 DEF FillInv, Tickets
<1>10. QED
  BY <1>1, <1>2, <1>3, <1>4, <1>5, <1>6, <1>7, <1>8, <1>9 DEF Next, Handle

-----------------------------------------------------------------------------
(* The loop thread's own state.                                            *)
LoopInv ==
    /\ async \in BOOLEAN
    /\ loop \in {"idle", "priority", "q", "call", "reset", "send"}
    /\ argv \in Seq(AnyMessage)
    /\ pUsing \in [{Loop} -> Tickets(pSent) \cup {None}]
    /\ pUsing[Loop] # None => loop = "priority"
    /\ qUsing \in [{Loop} -> Int]

LEMMA LoopStep == ScriptInv /\ FillInv /\ LoopInv /\ [Next]_vars => LoopInv'
<1> SUFFICES ASSUME ScriptInv, FillInv, LoopInv, [Next]_vars
             PROVE  LoopInv'
  OBVIOUS
<1>1. ASSUME NEW t \in Threads,
             (\E c \in Calls : Begin(t, c)) \/ AllocateMessage(t) \/ QueueOverflow(t) \/ BadData(t)
                \/ PushMessage(t) \/ PushUrgent(t) \/ Count(t) \/ Reset(t)
      PROVE  LoopInv'
  <2>1. UNCHANGED <<async, loopVars, pSent, pUsing, qUsing>>
    BY <1>1 DEF Begin, AllocateMessage, QueueOverflow, BadData, PushMessage, PushUrgent,
       Count, Reset, pVars, qVars, P!Push, Q!Allocate, Q!Push
  <2>2. QED
    BY <2>1 DEF LoopInv, loopVars, Tickets
<1>2. ASSUME NEW t \in Threads, AllocateUrgent(t)
      PROVE  LoopInv'
  <2>1. Step(t).message \in AnyMessage
    BY <1>2, StepOf DEF AllocateUrgent
  <2>2. Len(pSent') = Len(pSent) + 1 /\ Len(pSent) \in Nat
    BY <1>2, <2>1 DEF AllocateUrgent, FillInv
  <2>3. Tickets(pSent) \subseteq Tickets(pSent')
    BY <2>2 DEF Tickets
  <2>4. UNCHANGED <<async, loopVars, pUsing, qUsing>>
    BY <1>2 DEF AllocateUrgent, P!Allocate, qVars
  <2>5. QED
    BY <2>3, <2>4 DEF LoopInv, loopVars
<1>3. ASSUME NEW t \in Threads, Send(t)
      PROVE  LoopInv'
  BY <1>3 DEF Send, LoopInv, loopVars, pVars, qVars, Tickets
<1>4. CASE Wake \/ NoMoreUrgent \/ NoMoreMessages \/ ResetAgain \/ SendAgain
  <2>1. UNCHANGED <<pSent, pUsing, qUsing, argv>>
    BY <1>4 DEF Wake, NoMoreUrgent, NoMoreMessages, ResetAgain, SendAgain, pVars, qVars
  <2>2. async' \in BOOLEAN
    BY <1>4 DEF Wake, NoMoreUrgent, NoMoreMessages, ResetAgain, SendAgain, LoopInv
  <2>3. /\ loop' \in {"idle", "priority", "q", "call", "reset", "send"}
        /\ pUsing'[Loop] # None => loop' = "priority"
    BY <1>4, <2>1 DEF Wake, NoMoreUrgent, NoMoreMessages, ResetAgain, SendAgain, LoopInv, AfterPops
  <2>4. QED
    BY <2>1, <2>2, <2>3 DEF LoopInv, Tickets
<1>5. CASE PopUrgent
  <2>1. PICK m \in pReady : pUsing' = [pUsing EXCEPT ![Loop] = m]
    BY <1>5 DEF PopUrgent, P!Pop
  <2>2. m \in Tickets(pSent)
    BY <2>1 DEF FillInv
  <2>3. pUsing'[Loop] = m /\ pUsing' \in [{Loop} -> Tickets(pSent) \cup {None}]
    BY <2>1, <2>2 DEF LoopInv
  <2>4. pSent[m + 1] \in AnyMessage
    BY <2>2 DEF FillInv, Tickets
  <2>5. argv' \in Seq(AnyMessage)
    BY <1>5, <2>3, <2>4 DEF PopUrgent, LoopInv
  <2>6. UNCHANGED <<async, loop, pSent, qUsing>> /\ loop = "priority"
    BY <1>5 DEF PopUrgent, qVars
  <2>7. QED
    BY <2>3, <2>5, <2>6 DEF LoopInv, Tickets
<1>6. CASE ReleaseUrgent
  <2>1. pUsing' = [pUsing EXCEPT ![Loop] = None] /\ UNCHANGED <<async, loop, argv, pSent, qUsing>>
    BY <1>6 DEF ReleaseUrgent, P!Release, loopVars, qVars
  <2>2. QED
    BY <2>1 DEF LoopInv, Tickets
<1>7. CASE PopMessage
  <2>1. PICK m \in qReady : qUsing' = [qUsing EXCEPT ![Loop] = m]
    BY <1>7 DEF PopMessage, Q!Pop
  <2>2. m \in Tickets(qSent)
    BY <2>1 DEF FillInv
  <2>3. m \in Int
    BY <2>2 DEF Tickets
  <2>4. qUsing'[Loop] = m /\ qUsing' \in [{Loop} -> Int]
    BY <2>1, <2>3 DEF LoopInv
  <2>5. qSent[m + 1] \in AnyMessage
    BY <2>2 DEF FillInv, Tickets
  <2>6. argv' \in Seq(AnyMessage)
    BY <1>7, <2>4, <2>5 DEF PopMessage, LoopInv
  <2>7. UNCHANGED <<async, loop, pSent, pUsing>>
    BY <1>7 DEF PopMessage, pVars
  <2>8. QED
    BY <2>4, <2>6, <2>7 DEF LoopInv, Tickets
<1>8. CASE ReleaseMessage
  <2>1. qUsing' = [qUsing EXCEPT ![Loop] = None] /\ UNCHANGED <<async, loop, argv, pSent, pUsing>>
    BY <1>8 DEF ReleaseMessage, Q!Release, loopVars, pVars
  <2>2. QED
    BY <2>1 DEF LoopInv, Tickets, None
<1>9. CASE CallBack
  BY <1>9 DEF CallBack, LoopInv, pVars, qVars, Tickets, TriggersItself
<1>10. CASE Done \/ UNCHANGED vars
  BY <1>10 DEF Done, vars, LoopInv, loopVars, pVars, qVars, Tickets
<1>11. QED
  BY <1>1, <1>2, <1>3, <1>4, <1>5, <1>6, <1>7, <1>8, <1>9, <1>10 DEF Next, Handle, executeCallback

-----------------------------------------------------------------------------
(* The counter of pushes.  Whoever brings it to Batch resets it next; it   *)
(* cannot pass Batch before that, because another thread's increment that  *)
(* would do so finds the first one still there.                            *)
CountInv == pushes \in Nat /\ CountNeverRunsAway

LEMMA CountStep == ScriptInv /\ CountInv /\ [Next]_vars => CountInv'
<1> SUFFICES ASSUME ScriptInv, CountInv, [Next]_vars
             PROVE  CountInv'
  OBVIOUS
<1>a. ASSUME NEW t \in Threads, pc[t] # "reset", Others(t), UNCHANGED pushes
      PROVE  CountInv'
  BY <1>a DEF CountInv, CountNeverRunsAway, Others
<1>1. ASSUME NEW t \in Threads, NEW c \in Calls, Begin(t, c)
      PROVE  CountInv'
  BY <1>1, <1>a, HandlerTriggers, ProceedWith DEF Begin
<1>2. ASSUME NEW t \in Threads,
             AllocateMessage(t) \/ AllocateUrgent(t) \/ PushMessage(t) \/ PushUrgent(t)
      PROVE  CountInv'
  <2>1. Others(t) /\ pc[t] # "reset" /\ UNCHANGED pushes
    BY <1>2, GotoOn DEF AllocateMessage, AllocateUrgent, PushMessage, PushUrgent, PCs
  <2>2. QED
    BY <2>1, <1>a
<1>3. ASSUME NEW t \in Threads, QueueOverflow(t) \/ BadData(t)
      PROVE  CountInv'
  BY <1>3, <1>a, ThrowOn DEF QueueOverflow, BadData
<1>4. ASSUME NEW t \in Threads, Count(t)
      PROVE  CountInv'
  <2>1. Others(t) /\ pc[t] = "count" /\ pushes' = pushes + 1
    BY <1>4, GotoOn, ProceedOn DEF Count, PCs
  <2>2. CASE pushes >= Batch
    BY <2>1, <2>2 DEF CountInv, CountNeverRunsAway, Others
  <2>3. CASE pushes + 1 = Batch
    <3>1. pc'[t] = "reset"
      BY <1>4, <2>3, GotoOn DEF Count, Due, PCs
    <3>2. QED
      BY <2>1, <3>1 DEF CountInv, CountNeverRunsAway
  <2>4. CASE pushes + 1 < Batch
    BY <2>1, <2>4, NumberAssumption DEF CountInv, CountNeverRunsAway
  <2>5. QED
    BY <2>2, <2>3, <2>4, NumberAssumption DEF CountInv
<1>5. ASSUME NEW t \in Threads, Reset(t)
      PROVE  CountInv'
  BY <1>5, NumberAssumption DEF Reset, CountInv, CountNeverRunsAway
<1>6. ASSUME NEW t \in Threads, Send(t)
      PROVE  CountInv'
  BY <1>6, <1>a, ProceedOn DEF Send
<1>7. CASE ResetAgain
  BY <1>7, NumberAssumption DEF ResetAgain, CountInv, CountNeverRunsAway
<1>8. CASE (executeCallback /\ ~ResetAgain) \/ Done \/ UNCHANGED vars
  <2>1. UNCHANGED <<pc, pushes>>
    BY <1>8 DEF executeCallback, Wake, PopUrgent, ReleaseUrgent, NoMoreUrgent, PopMessage,
       ReleaseMessage, NoMoreMessages, CallBack, SendAgain, Done, vars, apiVars
  <2>2. QED
    BY <2>1 DEF CountInv, CountNeverRunsAway
<1>9. QED
  BY <1>1, <1>2, <1>3, <1>4, <1>5, <1>6, <1>7, <1>8 DEF Next, Handle

-----------------------------------------------------------------------------
(* Wake-ups.  A pushed message keeps the loop awake or has somebody who    *)
(* will wake it.  For q that may be any handler under way.  For priority   *)
(* it must be one that is past allocating, for pushError may find priority *)
(* full and leave the handler without a trigger; that is harmless because  *)
(* what fills priority has a trigger of its own.                           *)
Awake ==
    \/ async
    \/ loop \in {"priority", "call", "reset", "send"}
    \/ loop = "q" /\ argv # <<>>

Waking(t) == pc[t] \in {"reset", "send"} \/ pFilling[t] # None

WakeInv ==
    /\ qReady # {} => async \/ loop # "idle" \/ \E t \in Threads : pc[t] # "idle"
    /\ pReady # {} => Awake \/ \E t \in Threads : Waking(t)

LEMMA WakingIsUnderWay ==
    ASSUME FillInv, NEW t \in Threads, Waking(t)
    PROVE  pc[t] # "idle" /\ pc[t] # "post" /\ pc[t] # "count"
BY DEF FillInv, Waking

LEMMA WakeImplies == FillInv /\ WakeInv => NoLostWakeup
<1> SUFFICES ASSUME FillInv, WakeInv, loop = "idle", ~async, qReady # {} \/ pReady # {}
             PROVE  \E t \in Threads : pc[t] # "idle"
  BY DEF NoLostWakeup
<1>1. CASE qReady # {}
  BY <1>1 DEF WakeInv
<1>2. CASE pReady # {}
  <2>1. ~Awake
    BY DEF Awake
  <2>2. PICK t \in Threads : Waking(t)
    BY <1>2, <2>1 DEF WakeInv
  <2>3. QED
    BY <2>2, WakingIsUnderWay
<1>3. QED
  BY <1>1, <1>2

(* If priority is full, something is in it.                                *)
LEMMA FullIsNotEmpty ==
    ASSUME ~PRoom
    PROVE  \/ pReady # {}
           \/ \E t \in Threads : pFilling[t] # None
           \/ pUsing[Loop] # None
<1> SUFFICES ASSUME pReady = {}, \A t \in Threads : pFilling[t] = None, pUsing[Loop] = None
             PROVE  FALSE
  OBVIOUS
<1>1. P!Queued = {}
  BY DEF P!Queued
<1>2. P!Queued \cup ({pUsing[Loop]} \ {None}) = {}
  BY <1>1
<1>3. Cardinality(P!Queued \cup ({pUsing[Loop]} \ {None})) = 0
  BY <1>2, FS_EmptySet
<1>4. QED
  BY <1>3, NumberAssumption DEF PRoom

LEMMA WakeStep == ScriptInv /\ FillInv /\ LoopInv /\ WakeInv /\ [Next]_vars => WakeInv'
<1> SUFFICES ASSUME ScriptInv, FillInv, LoopInv, WakeInv, [Next]_vars
             PROVE  WakeInv'
  OBVIOUS
<1>a. ASSUME NEW t \in Threads, Others(t), pc[t] \notin {"reset", "send"}, pFilling[t] = None,
             pc'[t] # "idle", UNCHANGED <<qReady, pReady, pFilling, async, loop, argv>>
      PROVE  WakeInv'
  <2>1. (\E u \in Threads : Waking(u)) => \E u \in Threads : Waking(u)'
    BY <1>a DEF Waking, Others
  <2>2. Awake => Awake'
    BY <1>a DEF Awake
  <2>3. QED
    BY <1>a, <2>1, <2>2 DEF WakeInv
<1>1. ASSUME NEW t \in Threads, NEW c \in Calls, Begin(t, c)
      PROVE  WakeInv'
  <2>1. Others(t) /\ pc'[t] # "idle"
    BY <1>1, HandlerTriggers, ProceedWith DEF Begin
  <2>2. pc[t] = "idle" /\ pFilling[t] = None
    BY <1>1 DEF Begin, FillInv
  <2>3. UNCHANGED <<qReady, pReady, pFilling, async, loop, argv>>
    BY <1>1 DEF Begin, qVars, pVars, loopVars
  <2>4. QED
    BY <2>1, <2>2, <2>3, <1>a
<1>2. ASSUME NEW t \in Threads, AllocateMessage(t)
      PROVE  WakeInv'
  <2>1. Others(t) /\ pc'[t] # "idle"
    BY <1>2, GotoOn DEF AllocateMessage, PCs
  <2>2. pc[t] = "post" /\ pFilling[t] = None
    BY <1>2 DEF AllocateMessage, FillInv
  <2>3. UNCHANGED <<qReady, pReady, pFilling, async, loop, argv>>
    BY <1>2 DEF AllocateMessage, Q!Allocate, pVars, loopVars
  <2>4. QED
    BY <2>1, <2>2, <2>3, <1>a
<1>3. ASSUME NEW t \in Threads, AllocateUrgent(t) \/ PushUrgent(t)
      PROVE  WakeInv'
  <2>1. Others(t) /\ pc'[t] # "idle"
    BY <1>3, GotoOn DEF AllocateUrgent, PushUrgent, PCs
  <2>2. UNCHANGED <<qReady, async, loop, argv>>
    BY <1>3 DEF AllocateUrgent, PushUrgent, qVars, loopVars
  <2>3. Waking(t)'
    <3>1. CASE AllocateUrgent(t)
      <4>1. PICK k \in Len(pSent) .. (Len(pSent') - 1) : pFilling' = [pFilling EXCEPT ![t] = k]
        BY <3>1 DEF AllocateUrgent, P!Allocate
      <4>2. k # None
        BY <4>1 DEF FillInv, None
      <4>3. QED
        BY <4>1, <4>2 DEF Waking, FillInv
    <3>2. CASE PushUrgent(t)
      BY <3>2, GotoOn DEF PushUrgent, Waking, PCs
    <3>3. QED
      BY <1>3, <3>1, <3>2
  <2>4. QED
    BY <2>1, <2>2, <2>3 DEF WakeInv
<1>4. ASSUME NEW t \in Threads, QueueOverflow(t) \/ BadData(t)
      PROVE  WakeInv'
  <2>1. Others(t) /\ (pc'[t] # "idle" \/ Step(t).queue = "priority")
    BY <1>4, ThrowOn DEF QueueOverflow, BadData
  <2>2. pc[t] = "post" /\ pFilling[t] = None
    BY <1>4 DEF QueueOverflow, BadData, FillInv
  <2>3. UNCHANGED <<qReady, pReady, pFilling, async, loop, argv>>
    BY <1>4 DEF QueueOverflow, BadData, qVars, pVars, loopVars
  <2>4. CASE pc'[t] # "idle"
    BY <2>1, <2>2, <2>3, <2>4, <1>a
  <2>5. CASE Step(t).queue = "priority"
    <3>1. ~PRoom
      BY <1>4, <2>5 DEF QueueOverflow, BadData
    <3>2. \A u \in Threads : Waking(u) => u # t /\ pc[u] # "idle"
      BY <2>2, WakingIsUnderWay
    <3>3. \A u \in Threads : Waking(u) => Waking(u)' /\ pc'[u] # "idle"
      BY <2>1, <2>3, <3>2 DEF Others, Waking
    <3>4. Awake => async' \/ loop' # "idle"
      BY <2>3 DEF Awake
    <3>5. pUsing[Loop] # None => loop' # "idle"
      BY <2>3 DEF LoopInv
    <3>6. async' \/ loop' # "idle" \/ \E u \in Threads : pc'[u] # "idle"
      BY <3>1, <3>3, <3>4, <3>5, FullIsNotEmpty DEF WakeInv, Waking
    <3>7. pReady' # {} => Awake' \/ \E u \in Threads : Waking(u)'
      BY <2>3, <3>3 DEF WakeInv, Awake
    <3>8. QED
      BY <3>6, <3>7 DEF WakeInv
  <2>6. QED
    BY <2>1, <2>4, <2>5
<1>5. ASSUME NEW t \in Threads, PushMessage(t)
      PROVE  WakeInv'
  <2>1. Others(t) /\ pc'[t] = "count"
    BY <1>5, GotoOn DEF PushMessage, PCs
  <2>2. pc[t] = "push" /\ pFilling[t] = None
    BY <1>5 DEF PushMessage, FillInv
  <2>3. UNCHANGED <<pReady, pFilling, async, loop, argv>>
    BY <1>5 DEF PushMessage, pVars, loopVars
  <2>4. (\E u \in Threads : Waking(u)) => \E u \in Threads : Waking(u)'
    BY <2>1, <2>2, <2>3 DEF Waking, Others
  <2>5. Awake => Awake'
    BY <2>3 DEF Awake
  <2>6. \E u \in Threads : pc'[u] # "idle"
    BY <2>1
  <2>7. QED
    BY <2>3, <2>4, <2>5, <2>6 DEF WakeInv
<1>6. ASSUME NEW t \in Threads, Count(t)
      PROVE  WakeInv'
  <2>1. pc[t] = "count" /\ pFilling[t] = None
    BY <1>6 DEF Count, FillInv
  <2>2. Others(t) /\ pc'[t] # "idle"
    <3>1. CASE Due(pushes + 1) \/ Step(t).trigger
      <4>1. Goto(t, "reset") /\ pc[t] # "idle" /\ "reset" \in PCs \ {"idle"}
        BY <1>6, <2>1, <3>1 DEF Count, PCs
      <4>2. QED
        BY <4>1, GotoOn, Zenon
    <3>2. CASE ~(Due(pushes + 1) \/ Step(t).trigger)
      <4>1. Proceed(t, Tail(script[t])) /\ pc[t] # "idle"
        BY <1>6, <2>1, <3>2 DEF Count
      <4>2. Others(t) /\ (pc'[t] = "idle" => Step(t).trigger = TRUE)
        BY <4>1, ProceedOn, Zenon
      <4>3. Step(t).trigger # TRUE
        BY <3>2, Zenon
      <4>4. QED
        BY <4>2, <4>3, Zenon
    <3>3. QED
      BY <3>1, <3>2
  <2>3. UNCHANGED <<qReady, pReady, pFilling, async, loop, argv>>
    BY <1>6 DEF Count, qVars, pVars, loopVars
  <2>4. QED
    BY <2>1, <2>2, <2>3, <1>a
<1>7. ASSUME NEW t \in Threads, Reset(t)
      PROVE  WakeInv'
  <2>1. Others(t) /\ pc'[t] = "send"
    BY <1>7, GotoOn DEF Reset, PCs
  <2>2. UNCHANGED <<qReady, pReady, pFilling, async, loop, argv>>
    BY <1>7 DEF Reset, qVars, pVars, loopVars
  <2>3. \E u \in Threads : Waking(u)' /\ pc'[u] # "idle"
    BY <2>1 DEF Waking
  <2>4. QED
    BY <2>2, <2>3 DEF WakeInv
<1>8. ASSUME NEW t \in Threads, Send(t)
      PROVE  WakeInv'
  BY <1>8 DEF Send, WakeInv, Awake
<1>9. CASE Wake \/ CallBack \/ ResetAgain \/ SendAgain
  <2>1. Awake' /\ (async' \/ loop' # "idle")
    BY <1>9 DEF Wake, CallBack, ResetAgain, SendAgain, Awake, TriggersItself
  <2>2. QED
    BY <2>1 DEF WakeInv
<1>10. CASE PopUrgent
  BY <1>10 DEF PopUrgent, WakeInv, Awake
<1>11. CASE NoMoreUrgent
  <2>1. /\ UNCHANGED <<pc, pReady, pFilling, argv, async>>
        /\ loop' = "q"
    BY <1>11 DEF NoMoreUrgent, apiVars, pVars
  <2>2. CASE argv # <<>>
    BY <2>1, <2>2 DEF WakeInv, Awake
  <2>3. CASE argv = <<>>
    <3>1. Len(<<>>) = 0
      OBVIOUS
    <3>2. RoomInArgv
      BY <2>3, <3>1, NumberAssumption DEF RoomInArgv
    <3>3. pReady # {} => \E t \in Threads : pFilling[t] # None
      BY <1>11, <3>2, BlockedByFilling DEF NoMoreUrgent
    <3>4. QED
      BY <2>1, <3>3 DEF WakeInv, Waking
  <2>4. QED
    BY <2>2, <2>3
<1>12. CASE PopMessage
  <2>1. PICK m \in qReady : qUsing' = [qUsing EXCEPT ![Loop] = m]
    BY <1>12 DEF PopMessage, Q!Pop
  <2>2. m \in Tickets(qSent)
    BY <2>1 DEF FillInv
  <2>3. qUsing'[Loop] = m
    BY <2>1 DEF LoopInv
  <2>4. qSent[m + 1] \in AnyMessage
    BY <2>2 DEF FillInv, Tickets
  <2>5. argv' # <<>>
    BY <1>12, <2>3, <2>4 DEF PopMessage, LoopInv
  <2>6. loop' = "q"
    BY <1>12 DEF PopMessage
  <2>7. QED
    BY <2>5, <2>6 DEF WakeInv, Awake
<1>13. CASE NoMoreMessages
  <2>1. UNCHANGED <<pc, qReady, pReady, pFilling, argv, async>> /\ loop = "q"
    BY <1>13 DEF NoMoreMessages, apiVars, qVars, pVars
  <2>2. CASE argv # <<>>
    <3>1. loop' = "call"
      BY <1>13, <2>2 DEF NoMoreMessages, AfterPops
    <3>2. QED
      BY <3>1 DEF WakeInv, Awake
  <2>3. CASE argv = <<>>
    <3>1. Len(<<>>) = 0
      OBVIOUS
    <3>2. RoomInArgv
      BY <2>3, <3>1, NumberAssumption DEF RoomInArgv
    <3>3. qReady # {} => \E t \in Threads : qFilling[t] # None
      BY <1>13, <3>2, BlockedByFilling DEF NoMoreMessages
    <3>4. qReady' # {} => \E t \in Threads : pc'[t] # "idle"
      BY <2>1, <3>3 DEF FillInv
    <3>5. pReady' # {} => async' \/ \E t \in Threads : Waking(t)'
      BY <2>1, <2>3 DEF WakeInv, Awake, Waking
    <3>6. QED
      BY <3>4, <3>5 DEF WakeInv, Awake
  <2>4. QED
    BY <2>2, <2>3
<1>14. CASE ReleaseUrgent \/ ReleaseMessage \/ Done \/ UNCHANGED vars
  <2>1. UNCHANGED <<pc, qReady, pReady, pFilling, async, loop, argv>>
    BY <1>14 DEF ReleaseUrgent, ReleaseMessage, P!Release, Q!Release, Done, vars, apiVars,
       qVars, pVars, loopVars
  <2>2. QED
    BY <2>1 DEF WakeInv, Awake, Waking
<1>15. QED
  BY <1>1, <1>2, <1>3, <1>4, <1>5, <1>6, <1>7, <1>8, <1>9, <1>10, <1>11, <1>12, <1>13, <1>14
     DEF Next, Handle, executeCallback

-----------------------------------------------------------------------------
LEMMA Initially == Init => ScriptInv /\ FillInv /\ LoopInv /\ CountInv /\ WakeInv
<1> SUFFICES ASSUME Init
             PROVE  ScriptInv /\ FillInv /\ LoopInv /\ CountInv /\ WakeInv
  OBVIOUS
<1>1. ScriptInv
  BY DEF Init, ScriptInv, PCs
<1>2. FillInv
  BY DEF Init, FillInv, Q!Init, P!Init
<1>3. LoopInv
  <2>1. async \in BOOLEAN /\ loop = "idle" /\ argv = <<>>
    BY DEF Init
  <2>2. pUsing = [c \in {Loop} |-> None] /\ qUsing = [c \in {Loop} |-> None]
    BY DEF Init, Q!Init, P!Init
  <2>3. None \in Int
    BY DEF None
  <2>4. pUsing[Loop] = None /\ pUsing \in [{Loop} -> Tickets(pSent) \cup {None}]
    BY <2>2
  <2>5. qUsing \in [{Loop} -> Int]
    BY <2>2, <2>3
  <2>6. QED
    BY <2>1, <2>4, <2>5 DEF LoopInv
<1>4. CountInv
  BY NumberAssumption DEF Init, CountInv, CountNeverRunsAway
<1>5. WakeInv
  BY DEF Init, WakeInv, Q!Init, P!Init
<1>6. QED
  BY <1>1, <1>2, <1>3, <1>4, <1>5

(* The counter of pushMessage never passes 1024 unnoticed, although it is  *)
(* compared for equality and reset from every side.                        *)
THEOREM CountIsKept == Spec => []CountNeverRunsAway
<1>1. CountInv => CountNeverRunsAway
  BY DEF CountInv
<1>2. QED
  BY Initially, ScriptStep, CountStep, <1>1, PTL DEF Spec

(* No wake-up is lost: triggering at the end of a handler, by count and    *)
(* after every call of the callback is enough, however few messages a call *)
(* takes and however small the queues are.                                 *)
THEOREM NoWakeupIsLost == Spec => []NoLostWakeup
BY Initially, ScriptStep, FillStep, LoopStep, WakeStep, WakeImplies, PTL DEF Spec

-----------------------------------------------------------------------------
(* Plans: what a handler posts is about its call, the records first and in *)
(* order, at most one verdict after them, and after that a trigger at most.*)
Deciding(m) == m.type \in {"success", "error", "complete"}
Final(s) == s.queue = "none" \/ Deciding(s.message)

Planned(s, c) ==
    /\ \A i \in 1 .. Len(s) :
          /\ s[i].message.call = c
          /\ s[i].queue = "none" => s[i].message.type = "none"
          /\ s[i].queue = "priority" => s[i].message \in UrgentSet
          /\ s[i].queue = "q" => s[i].message.type \notin {"success", "error"}
          /\ s[i].message.type = "success" => i = Len(s)
          /\ Final(s[i]) /\ i # Len(s) => s[i].queue # "none" /\ s[i + 1].queue = "none"
    /\ \A i, j \in 1 .. Len(s) : i < j /\ s[i].queue = "q" /\ s[j].queue = "q" =>
          s[i].message.number < s[j].message.number /\ ~s[i].message.end

CallOf(t) == Step(t).message.call
First(t) == IF pc[t] = "post" THEN 1 ELSE 2
Ahead(t) == First(t) .. Len(script[t])
Undecided(t) == pc[t] = "post" \/ ~Final(Step(t))
SentOf(c) == {k \in 1 .. Len(qSent) : qSent[k].call = c}

PlanOf(t) ==
    /\ CallOf(t) \notin todo
    /\ Planned(script[t], CallOf(t))
    /\ Undecided(t) => Verdicts(CallOf(t)) = {}
    /\ \A i \in Ahead(t) : script[t][i].message.type = "success" =>
          script[t][i].message.number = Cardinality(SentOf(CallOf(t))) + i - First(t)
    /\ \A k \in SentOf(CallOf(t)), i \in Ahead(t) : script[t][i].queue = "q" =>
          qSent[k].number < script[t][i].message.number /\ ~qSent[k].end

PlanInv ==
    /\ pSent \in Seq(UrgentSet)
    /\ \A k \in 1 .. Len(qSent) : qSent[k].type \notin {"success", "error"}
    /\ \A c \in todo : SentOf(c) = {} /\ Verdicts(c) = {}
    /\ \A t \in Threads : pc[t] # "idle" => PlanOf(t)
    /\ \A t, u \in Threads : pc[t] # "idle" /\ pc[u] # "idle" /\ CallOf(t) = CallOf(u) => t = u
    /\ \A j, k \in 1 .. Len(qSent) : j < k /\ qSent[j].call = qSent[k].call =>
          qSent[j].number < qSent[k].number /\ ~qSent[j].end
    /\ OneTrueVerdict

-----------------------------------------------------------------------------
(* A plan whose success counts the records before it.                      *)
Counts(s) == \A i \in 1 .. Len(s) : s[i].message.type = "success" => s[i].message.number = i - 1

RecordsFor(c, n, r, f) ==
    /\ \A i \in 1 .. n :
          /\ r[i].queue = "q" /\ r[i].message.call = c
          /\ r[i].message.type \in {"notice", "item", "complete"}
          /\ r[i].message.type = "complete" => i = n /\ f.queue = "none"
    /\ \A i, j \in 1 .. n : i < j => r[i].message.number < r[j].message.number /\ ~r[i].message.end

Finishes(c, n, f) ==
    /\ f.message.call = c
    /\ \/ f.queue = "none" /\ f.message.type = "none"
       \/ /\ f.queue = "priority" /\ f.message \in UrgentSet
          /\ f.message.type = "success" => f.message.number = n

LEMMA RecordsAndFinal ==
    ASSUME NEW c, NEW n \in Nat, NEW r \in Seq(Step_s), Len(r) = n, NEW f \in Step_s,
           RecordsFor(c, n, r, f), Finishes(c, n, f)
    PROVE  Planned(Append(r, f), c) /\ Counts(Append(r, f))
<1> DEFINE s == Append(r, f)
<1>1. /\ Len(s) = n + 1 /\ s[n + 1] = f
      /\ \A i \in 1 .. n : s[i] = r[i]
  OBVIOUS
<1> HIDE DEF s
<1>2. \A i \in 1 .. Len(s) : i \in 1 .. n \/ i = n + 1
  BY ONLY <1>1, n \in Nat
<1>3. ASSUME NEW i \in 1 .. Len(s)
      PROVE  /\ s[i].message.call = c
             /\ s[i].queue = "none" => s[i].message.type = "none"
             /\ s[i].queue = "priority" => s[i].message \in UrgentSet
             /\ s[i].queue = "q" => s[i].message.type \notin {"success", "error"}
             /\ s[i].message.type = "success" => i = Len(s)
             /\ Final(s[i]) /\ i # Len(s) => s[i].queue # "none" /\ s[i + 1].queue = "none"
             /\ s[i].message.type = "success" => s[i].message.number = i - 1
  <2>1. CASE i \in 1 .. n
    <3>1. /\ s[i].queue = "q" /\ s[i].message.call = c
          /\ s[i].message.type \in {"notice", "item", "complete"}
          /\ s[i].message.type = "complete" => i = n /\ f.queue = "none"
      BY <1>1, <2>1 DEF RecordsFor
    <3>2. s[i].message.type = "complete" => s[i + 1] = f
      BY <1>1, <3>1
    <3>3. QED
      BY <3>1, <3>2 DEF Final, Deciding
  <2>2. CASE i = n + 1
    BY <1>1, <2>2 DEF Finishes
  <2>3. QED
    BY <1>2, <2>1, <2>2
<1>4. ASSUME NEW i \in 1 .. Len(s), NEW j \in 1 .. Len(s), i < j, s[i].queue = "q", s[j].queue = "q"
      PROVE  s[i].message.number < s[j].message.number /\ ~s[i].message.end
  <2>1. i \in 1 .. n /\ j \in 1 .. n
    BY <1>1, <1>2, <1>4 DEF Finishes
  <2>2. QED
    BY <1>1, <1>4, <2>1 DEF RecordsFor
<1>5. Planned(s, c) /\ Counts(s)
  BY <1>3, <1>4 DEF Planned, Counts
<1>6. QED
  BY <1>5 DEF s

LEMMA OneStepPlan ==
    ASSUME NEW f \in Step_s,
           \/ f.queue = "q" /\ f.message.type = "notice"
           \/ f.queue = "priority" /\ f.message \in UrgentSet /\ f.message.type = "error"
    PROVE  Planned(<<f>>, f.message.call) /\ Counts(<<f>>)
BY DEF Planned, Counts, Final, Deciding

LEMMA ErrorPlan ==
    ASSUME NEW c \in Calls
    PROVE  Planned(<<pushError(c)>>, c) /\ Counts(<<pushError(c)>>)
<1>1. pushError(c) \in Step_s
  <2>1. 0 \in Int
    OBVIOUS
  <2>2. QED
    BY <2>1, FinalIsStep
<1>2. pushError(c).message = [call |-> c, type |-> "error", number |-> 0, end |-> TRUE]
      /\ pushError(c).queue = "priority"
  BY DEF pushError, Message
<1>3. 0 \in 0 .. MaxRecords + 2
  BY NumberAssumption
<1>4. pushError(c).message \in UrgentSet
  BY <1>2, <1>3 DEF UrgentSet, Messages
<1>5. pushError(c).message.call = c /\ pushError(c).message.type = "error"
  BY <1>2
<1>6. QED
  BY <1>1, <1>2, <1>4, <1>5, OneStepPlan

LEMMA HandlerPlans ==
    ASSUME NEW c \in Calls, NEW s \in Handler(c)
    PROVE  Planned(s, c) /\ Counts(s)
<1>1. Planned(Notice(c), c) /\ Counts(Notice(c))
  <2> DEFINE f == pushMessage(Message(c, "notice", 1, TRUE), TRUE)
  <2>1. "notice" \in {"notice", "item", "complete"} /\ TRUE \in BOOLEAN /\ 1 \in Int
    OBVIOUS
  <2>2. f \in Step_s
    BY <2>1, PostIsStep, Zenon
  <2>3. f.queue = "q" /\ f.message.type = "notice" /\ f.message.call = c
    BY DEF pushMessage, Message
  <2> HIDE DEF f
  <2>4. Planned(<<f>>, c) /\ Counts(<<f>>)
    BY <2>2, <2>3, OneStepPlan
  <2>5. QED
    BY <2>4 DEF f, Notice
<1>2. ASSUME NEW n \in 0 .. MaxRecords
      PROVE  /\ Planned(onHolidaysResponse(c, n), c) /\ Counts(onHolidaysResponse(c, n))
             /\ n > 0 => /\ Planned(onQuoteStreamResponse(c, n), c)
                         /\ Counts(onQuoteStreamResponse(c, n))
  <2> DEFINE r == Items(c, n)
  <2>0. n \in Nat /\ n \in Int /\ n \in 0 .. MaxRecords + 2
    BY NumberAssumption
  <2>1. r \in Seq(Step_s)
    BY <2>0, ItemsType
  <2>2. Len(r) = n
    BY <2>0 DEF Items
  <2>3. \A i \in 1 .. n :
           /\ r[i].queue = "q" /\ r[i].message.call = c /\ r[i].message.type = "item"
           /\ r[i].message.number = i /\ r[i].message.end = (i = n)
    BY DEF Items, pushMessage, Message, IsLast
  <2> HIDE DEF r
  <2>4. \A i, j \in 1 .. n : i < j => r[i].message.number < r[j].message.number /\ ~r[i].message.end
    <3> SUFFICES ASSUME NEW i \in 1 .. n, NEW j \in 1 .. n, i < j
                 PROVE  r[i].message.number < r[j].message.number /\ ~r[i].message.end
      OBVIOUS
    <3>1. i # n
      BY ONLY <2>0, i < j, i \in 1 .. n, j \in 1 .. n
    <3>2. QED
      BY <2>3, <3>1
  <2>5. ASSUME NEW f \in Step_s, Finishes(c, n, f)
        PROVE  Planned(Append(r, f), c) /\ Counts(Append(r, f))
    <3>1. RecordsFor(c, n, r, f)
      BY <2>3, <2>4 DEF RecordsFor
    <3>2. QED
      BY <2>0, <2>1, <2>2, <2>5, <3>1, RecordsAndFinal
  <2>6. Planned(Append(r, pushSuccess(c, n)), c) /\ Counts(Append(r, pushSuccess(c, n)))
    <3> DEFINE f == pushSuccess(c, n)
    <3>1. f \in Step_s
      BY <2>0, FinalIsStep
    <3>2. /\ f.queue = "priority"
          /\ f.message = [call |-> c, type |-> "success", number |-> n, end |-> FALSE]
      BY DEF pushSuccess, Message
    <3>3. f.message \in UrgentSet
      BY <2>0, <3>2 DEF UrgentSet, Messages
    <3>4. f.message.call = c /\ f.message.number = n
      BY <3>2
    <3> HIDE DEF f
    <3>5. Finishes(c, n, f)
      BY <3>2, <3>3, <3>4 DEF Finishes
    <3>6. Planned(Append(r, f), c) /\ Counts(Append(r, f))
      BY <2>5, <3>1, <3>5
    <3>7. QED
      BY <3>6 DEF f
  <2>7. Planned(Append(r, triggerCallback(c)), c) /\ Counts(Append(r, triggerCallback(c)))
    <3> DEFINE f == triggerCallback(c)
    <3>1. f \in Step_s
      BY <2>0, FinalIsStep
    <3>2. f.queue = "none" /\ f.message.type = "none" /\ f.message.call = c
      BY DEF triggerCallback, Message
    <3> HIDE DEF f
    <3>3. Finishes(c, n, f)
      BY <3>2 DEF Finishes
    <3>4. Planned(Append(r, f), c) /\ Counts(Append(r, f))
      BY <2>5, <3>1, <3>3
    <3>5. QED
      BY <3>4 DEF f
  <2>8. onHolidaysResponse(c, n) = Append(r, pushSuccess(c, n))
    BY Zenon DEF onHolidaysResponse, r
  <2>9. n > 0 => onQuoteStreamResponse(c, n) = Append(r, triggerCallback(c))
    BY <2>0 DEF onQuoteStreamResponse, r
  <2>10. QED
    BY <2>6, <2>7, <2>8, <2>9
<1>3. Planned(onQuoteStreamResponse(c, 0), c) /\ Counts(onQuoteStreamResponse(c, 0))
  <2> DEFINE m == pushMessage(Message(c, "item", 0, TRUE), FALSE)
             f == triggerCallback(c)
  <2>1. "item" \in {"notice", "item", "complete"} /\ TRUE \in BOOLEAN /\ FALSE \in BOOLEAN /\ 0 \in Int
    OBVIOUS
  <2>2. m \in Step_s /\ f \in Step_s
    <3>1. m \in Step_s
      BY <2>1, PostIsStep, Zenon
    <3>2. f \in Step_s
      BY <2>1, FinalIsStep
    <3>3. QED
      BY <3>1, <3>2
  <2>3. m.queue = "q" /\ m.message.type = "item" /\ m.message.call = c
    BY DEF pushMessage, Message
  <2>4. f.queue = "none" /\ f.message.type = "none" /\ f.message.call = c
    BY DEF triggerCallback, Message
  <2>5. onQuoteStreamResponse(c, 0) = <<m, f>>
    BY DEF onQuoteStreamResponse
  <2> HIDE DEF m, f
  <2>6. <<m>> \in Seq(Step_s) /\ Len(<<m>>) = 1 /\ <<m>>[1] = m /\ <<m, f>> = Append(<<m>>, f)
    BY <2>2
  <2>7. Planned(Append(<<m>>, f), c) /\ Counts(Append(<<m>>, f))
    <3> DEFINE r == <<m>>
    <3>1. r \in Seq(Step_s) /\ Len(r) = 1 /\ 1 \in Nat
      BY <2>6
    <3>2. \A i \in 1 .. 1 : r[i] = m /\ i = 1
      BY <2>6
    <3> HIDE DEF r
    <3>3. RecordsFor(c, 1, r, f)
      BY <2>3, <3>2 DEF RecordsFor
    <3>4. Finishes(c, 1, f)
      BY <2>4 DEF Finishes
    <3>5. Planned(Append(r, f), c) /\ Counts(Append(r, f))
      BY <2>2, <3>1, <3>3, <3>4, RecordsAndFinal
    <3>6. QED
      BY <3>5 DEF r
  <2>8. QED
    BY <2>5, <2>6, <2>7
<1>4. ASSUME NEW n \in 0 .. MaxRecords
      PROVE  Planned(onBarHistoryResponse(c, n), c) /\ Counts(onBarHistoryResponse(c, n))
  <2> DEFINE r == barMessages(c, n)
             f == triggerCallback(c)
             last == n + 2
  <2>0. n \in Nat /\ n \in Int /\ last \in Nat
    BY NumberAssumption
  <2>1. r \in Seq(Step_s)
    BY <2>0, ItemsType
  <2>2. Len(r) = last
    BY <2>0 DEF barMessages
  <2>3. \A i \in 1 .. last :
           /\ r[i].queue = "q" /\ r[i].message.call = c
           /\ r[i].message.type = IF i = last THEN "complete" ELSE "item"
           /\ r[i].message.number = i /\ r[i].message.end = (i = last)
    BY DEF barMessages, pushMessage, Message
  <2>4. f \in Step_s
    BY <2>0, FinalIsStep
  <2>5. f.queue = "none" /\ f.message.type = "none" /\ f.message.call = c
    BY DEF triggerCallback, Message
  <2>6. onBarHistoryResponse(c, n) = Append(r, f)
    BY Zenon DEF onBarHistoryResponse
  <2> HIDE DEF r, f, last
  <2>7. \A i, j \in 1 .. last : i < j => r[i].message.number < r[j].message.number /\ ~r[i].message.end
    <3> SUFFICES ASSUME NEW i \in 1 .. last, NEW j \in 1 .. last, i < j
                 PROVE  r[i].message.number < r[j].message.number /\ ~r[i].message.end
      OBVIOUS
    <3>1. i # last
      BY ONLY <2>0, i < j, i \in 1 .. last, j \in 1 .. last
    <3>2. QED
      BY <2>3, <3>1
  <2>8. RecordsFor(c, last, r, f) /\ Finishes(c, last, f)
    BY <2>3, <2>5, <2>7 DEF RecordsFor, Finishes
  <2>9. Planned(Append(r, f), c) /\ Counts(Append(r, f))
    BY <2>0, <2>1, <2>2, <2>4, <2>8, RecordsAndFinal
  <2>10. QED
    BY <2>6, <2>9
<1>5. Planned(<<pushError(c)>>, c) /\ Counts(<<pushError(c)>>)
  BY ErrorPlan
<1>6. onTickHistoryResponse(c, 0) = onHolidaysResponse(c, 0)
      /\ \A n \in 0 .. MaxRecords : onTickHistoryResponse(c, n) = onHolidaysResponse(c, n)
  BY DEF onTickHistoryResponse, onHolidaysResponse
<1>7. 1 .. MaxRecords \subseteq 0 .. MaxRecords
  BY NumberAssumption
<1>8. \A n \in 0 .. MaxRecords : Planned(onQuoteStreamResponse(c, n), c) /\ Counts(onQuoteStreamResponse(c, n))
  <2> TAKE n \in 0 .. MaxRecords
  <2>1. n = 0 \/ n > 0
    BY NumberAssumption
  <2>2. QED
    BY <1>2, <1>3, <2>1
<1>9. QED
  BY <1>1, <1>2, <1>4, <1>5, <1>6, <1>7, <1>8 DEF Handler, Calls

-----------------------------------------------------------------------------
(* What has been sent about a call, and what a step leaves of it.          *)
LEMMA SentIsFinite ==
    ASSUME FillInv, NEW c
    PROVE  IsFiniteSet(SentOf(c)) /\ Cardinality(SentOf(c)) \in Nat /\ Len(qSent) \in Nat
<1>1. Len(qSent) \in Nat
  BY DEF FillInv
<1>2. IsFiniteSet(1 .. Len(qSent))
  BY <1>1, FS_Interval
<1>3. SentOf(c) \subseteq 1 .. Len(qSent)
  BY DEF SentOf
<1>4. IsFiniteSet(SentOf(c))
  BY <1>2, <1>3, FS_Subset
<1>5. QED
  BY <1>1, <1>4, FS_CardinalityType

LEMMA SameSent ==
    ASSUME UNCHANGED <<qSent, pSent>>, NEW c
    PROVE  SentOf(c)' = SentOf(c) /\ Verdicts(c)' = Verdicts(c)
BY DEF SentOf, Verdicts

LEMMA NoVerdicts ==
    ASSUME NEW c
    PROVE  Verdicts(c) = {} <=>
              /\ \A i \in 1 .. Len(pSent) : pSent[i].call # c
              /\ \A k \in SentOf(c) : qSent[k].type # "complete"
BY DEF Verdicts, SentOf

(* A thread that does not take the step goes by its plan still.            *)
LEMMA PlanOfOther ==
    ASSUME NEW u \in Threads, PlanOf(u), pc'[u] = pc[u], script'[u] = script[u], todo' \subseteq todo,
           SentOf(CallOf(u)) = SentOf(CallOf(u))', Verdicts(CallOf(u)) = Verdicts(CallOf(u))',
           \A k \in SentOf(CallOf(u)) : qSent'[k] = qSent[k]
    PROVE  PlanOf(u)'
<1>1. /\ CallOf(u)' = CallOf(u) /\ Ahead(u)' = Ahead(u) /\ First(u)' = First(u)
      /\ Undecided(u)' = Undecided(u) /\ script'[u] = script[u]
  BY DEF CallOf, Ahead, First, Undecided, Step
<1>2. Planned(script[u], CallOf(u))' = Planned(script[u], CallOf(u))
  BY <1>1
<1>3. QED
  BY <1>1, <1>2 DEF PlanOf

LEMMA SamePlanInv ==
    ASSUME PlanInv, UNCHANGED <<qSent, pSent>>, todo' \subseteq todo,
           NEW t \in Threads, Others(t),
           pc'[t] # "idle" =>
              /\ PlanOf(t)'
              /\ \A u \in Threads \ {t} : pc[u] # "idle" => CallOf(u) # CallOf(t)'
    PROVE  PlanInv'
<1>1. \A c : SentOf(c)' = SentOf(c) /\ Verdicts(c)' = Verdicts(c)
  BY SameSent
<1>2. \A u \in Threads \ {t} : pc'[u] = pc[u] /\ script'[u] = script[u] /\ CallOf(u)' = CallOf(u)
  BY DEF Others, CallOf, Step
<1>3. \A u \in Threads : pc'[u] # "idle" => PlanOf(u)'
  <2> SUFFICES ASSUME NEW u \in Threads, u # t, pc'[u] # "idle"
               PROVE  PlanOf(u)'
    OBVIOUS
  <2>1. PlanOf(u)
    BY <1>2 DEF PlanInv
  <2>2. SentOf(CallOf(u)) = SentOf(CallOf(u))' /\ Verdicts(CallOf(u)) = Verdicts(CallOf(u))'
    BY <1>1, <1>2
  <2>3. QED
    BY <1>2, <2>1, <2>2, PlanOfOther
<1>4. \A u, v \in Threads : pc'[u] # "idle" /\ pc'[v] # "idle" /\ CallOf(u)' = CallOf(v)' => u = v
  BY <1>2 DEF PlanInv
<1>5. OneTrueVerdict'
  BY <1>1 DEF PlanInv, OneTrueVerdict
<1>6. \A c \in todo' : SentOf(c)' = {} /\ Verdicts(c)' = {}
  BY <1>1 DEF PlanInv
<1>7. /\ pSent' \in Seq(UrgentSet)'
      /\ \A k \in 1 .. Len(qSent') : qSent'[k].type \notin {"success", "error"}
      /\ \A j, k \in 1 .. Len(qSent') : j < k /\ qSent'[j].call = qSent'[k].call =>
            qSent'[j].number < qSent'[k].number /\ ~qSent'[j].end
  BY DEF PlanInv
<1>8. QED
  BY <1>3, <1>4, <1>5, <1>6, <1>7 DEF PlanInv

(* A thread at a step of its plan, and its steps that send nothing.        *)
LEMMA AtStep ==
    ASSUME NEW t \in Threads, ScriptInv, pc[t] # "idle"
    PROVE  /\ script[t] \in Seq(Step_s) /\ Len(script[t]) \in Nat \ {0}
           /\ Step(t) = script[t][1] /\ Step(t) \in Step_s
           /\ Step(t).message \in AnyMessage /\ CallOf(t) \in Calls
<1>1. script[t] \in Seq(Step_s) /\ script[t] # <<>>
  BY DEF ScriptInv, Triggers
<1>2. Len(script[t]) \in Nat \ {0} /\ Head(script[t]) = script[t][1]
  BY <1>1
<1>3. Step(t) \in Step_s /\ Step(t).message \in AnyMessage
  BY StepOf
<1>4. CallOf(t) \in Calls
  BY <1>3 DEF CallOf, AnyMessage
<1>5. QED
  BY <1>1, <1>2, <1>3, <1>4 DEF Step

LEMMA TailPlanned ==
    ASSUME NEW c, NEW s \in Seq(Step_s), Len(s) > 1, Planned(s, c)
    PROVE  /\ Planned(Tail(s), c) /\ Len(Tail(s)) = Len(s) - 1
           /\ \A i \in 1 .. Len(s) - 1 : Tail(s)[i] = s[i + 1] /\ i + 1 \in 1 .. Len(s)
<1> DEFINE r == Tail(s)
<1>1. Len(r) = Len(s) - 1 /\ Len(s) \in Nat /\ \A i \in 1 .. Len(r) : r[i] = s[i + 1]
  BY HeadTailProperties, LenProperties
<1> HIDE DEF r
<1>2. \A i \in 1 .. Len(r) : i + 1 \in 1 .. Len(s) /\ r[i] = s[i + 1]
  BY ONLY <1>1
<1>3. \A i \in 1 .. Len(r) : i # Len(r) => i + 1 \in 1 .. Len(r) /\ i + 1 # Len(s) /\ r[i + 1] = s[i + 1 + 1]
  BY ONLY <1>1
<1>4. \A i \in 1 .. Len(r) :
          /\ r[i].message.call = c
          /\ r[i].queue = "none" => r[i].message.type = "none"
          /\ r[i].queue = "priority" => r[i].message \in UrgentSet
          /\ r[i].queue = "q" => r[i].message.type \notin {"success", "error"}
  BY <1>2 DEF Planned
<1>5. \A i \in 1 .. Len(r) : r[i].message.type = "success" => i = Len(r)
  BY <1>1, <1>2 DEF Planned
<1>6. \A i \in 1 .. Len(r) : Final(r[i]) /\ i # Len(r) => r[i].queue # "none" /\ r[i + 1].queue = "none"
  BY <1>2, <1>3 DEF Planned
<1>7. \A i, j \in 1 .. Len(r) : i < j /\ r[i].queue = "q" /\ r[j].queue = "q" =>
          r[i].message.number < r[j].message.number /\ ~r[i].message.end
  <2> SUFFICES ASSUME NEW i \in 1 .. Len(r), NEW j \in 1 .. Len(r), i < j
               PROVE  r[i].queue = "q" /\ r[j].queue = "q" =>
                          r[i].message.number < r[j].message.number /\ ~r[i].message.end
    OBVIOUS
  <2>1. i + 1 < j + 1
    BY ONLY <1>1, i < j, i \in 1 .. Len(r), j \in 1 .. Len(r)
  <2>2. QED
    BY <1>2, <2>1 DEF Planned
<1>8. Planned(r, c)
  BY <1>4, <1>5, <1>6, <1>7 DEF Planned
<1>9. QED
  BY <1>1, <1>2, <1>8 DEF r

LEMMA GotoPlan ==
    ASSUME PlanInv, NEW t \in Threads, UNCHANGED <<qSent, pSent, todo>>, Others(t), script' = script,
           pc[t] # "idle", pc[t] # "post", pc'[t] # "idle", pc'[t] # "post"
    PROVE  PlanInv'
<1>1. \A c : SentOf(c)' = SentOf(c) /\ Verdicts(c)' = Verdicts(c)
  BY SameSent
<1>2. /\ CallOf(t)' = CallOf(t) /\ Ahead(t)' = Ahead(t) /\ First(t)' = First(t)
      /\ Undecided(t)' = Undecided(t) /\ script'[t] = script[t]
  BY DEF CallOf, Ahead, First, Undecided, Step
<1>3. Planned(script[t], CallOf(t))' = Planned(script[t], CallOf(t))
  BY <1>2
<1>4. PlanOf(t)
  BY DEF PlanInv
<1>5. PlanOf(t)'
  BY <1>1, <1>2, <1>3, <1>4 DEF PlanOf
<1>6. \A u \in Threads \ {t} : pc[u] # "idle" => CallOf(u) # CallOf(t)'
  BY <1>2 DEF PlanInv
<1>7. QED
  BY <1>5, <1>6, SamePlanInv

LEMMA ProceedPlan ==
    ASSUME PlanInv, ScriptInv, NEW t \in Threads, UNCHANGED <<qSent, pSent, todo>>,
           pc[t] # "idle", pc[t] # "post", Proceed(t, Tail(script[t]))
    PROVE  PlanInv'
<1> DEFINE s == script[t]
           c == CallOf(t)
<1>0. /\ s \in Seq(Step_s) /\ Len(s) \in Nat \ {0} /\ Step(t) = s[1]
  BY AtStep
<1>1. Others(t) /\ script'[t] = Tail(s)
      /\ pc'[t] = IF Tail(s) = <<>> THEN "idle" ELSE IF Head(Tail(s)).queue = "none" THEN "reset" ELSE "post"
  BY ProceedOn DEF Proceed, ScriptInv
<1>2. PlanOf(t) /\ Planned(s, c)
  BY DEF PlanInv, PlanOf
<1>3. CASE Tail(s) = <<>>
  BY <1>1, <1>3, SamePlanInv
<1>4. CASE Tail(s) # <<>>
  <2>1. Len(s) > 1
    BY <1>0, <1>4
  <2>2. /\ Planned(Tail(s), c) /\ Len(Tail(s)) = Len(s) - 1
        /\ \A i \in 1 .. Len(s) - 1 : Tail(s)[i] = s[i + 1] /\ i + 1 \in 1 .. Len(s)
    BY <1>0, <1>2, <2>1, TailPlanned
  <2>3. Head(Tail(s)) = s[2] /\ 2 \in 1 .. Len(s) /\ 1 \in 1 .. Len(s) - 1
    BY <1>0, <1>4, <2>1
  <2> HIDE DEF s, c
  <2>4. Step(t)' = s[2]
    BY <1>1, <2>3 DEF Step
  <2>5. CallOf(t)' = c
    BY <1>2, <2>3, <2>4 DEF CallOf, Planned
  <2>6. \A d : SentOf(d)' = SentOf(d) /\ Verdicts(d)' = Verdicts(d)
    BY SameSent
  <2>7. s[2].queue = "none" => Len(s) = 2
    BY <1>0, <1>2, <2>3 DEF Planned, Final
  <2>8. First(t) = 2 /\ Ahead(t) = 2 .. Len(s)
    BY DEF First, Ahead, s
  <2>9. PlanOf(t)'
    <3>1. CallOf(t)' \notin todo'
      BY <1>2, <2>5 DEF PlanOf, c
    <3>2. Planned(script[t], CallOf(t))'
      <4>1. Planned(script'[t], CallOf(t)')
        BY <1>1, <2>2, <2>5
      <4>2. QED
        BY <4>1
    <3>3. Undecided(t)' => Verdicts(CallOf(t))' = {}
      <4>1. CASE s[2].queue = "none"
        BY <1>1, <1>4, <2>3, <2>4, <4>1 DEF Undecided, Final
      <4>2. CASE s[2].queue # "none"
        <5>1. ~Final(s[1])
          BY <1>0, <1>2, <2>1, <2>3, <4>2 DEF Planned
        <5>2. Verdicts(c) = {}
          BY <1>0, <1>2, <5>1 DEF Undecided, PlanOf, c
        <5>3. QED
          BY <2>5, <2>6, <5>2
      <4>3. QED
        BY <4>1, <4>2
    <3>4. ASSUME NEW i \in Ahead(t)'
          PROVE  i + 1 \in Ahead(t) /\ script'[t][i] = s[i + 1] /\ First(t)' = 1
                 /\ i + 1 - First(t) = i - First(t)'
      <4>1. pc'[t] # "post" => Ahead(t)' = {}
        <5> SUFFICES ASSUME pc'[t] # "post"
                     PROVE  Ahead(t)' = {}
          OBVIOUS
        <5>1. Len(s) = 2
          BY <1>1, <1>4, <2>3, <2>7
        <5>2. Len(script'[t]) = 1 /\ First(t)' = 2
          BY <1>1, <2>2, <5>1 DEF First
        <5>3. QED
          BY ONLY <5>2 DEF Ahead
      <4>2. pc'[t] = "post" /\ First(t)' = 1 /\ i \in 1 .. Len(s) - 1
        BY <1>1, <2>2, <3>4, <4>1 DEF Ahead, First
      <4>3. QED
        BY <1>0, <1>1, <2>2, <2>8, <4>2
    <3>5. \A i \in Ahead(t)' : script'[t][i].message.type = "success" =>
             script'[t][i].message.number = Cardinality(SentOf(CallOf(t)))' + i - First(t)'
      <4> SUFFICES ASSUME NEW i \in Ahead(t)', script'[t][i].message.type = "success"
                   PROVE  script'[t][i].message.number = Cardinality(SentOf(CallOf(t)))' + i - First(t)'
        OBVIOUS
      <4>1. i + 1 \in Ahead(t) /\ script'[t][i] = s[i + 1] /\ First(t)' = 1
        BY <3>4
      <4>2. s[i + 1].message.number = Cardinality(SentOf(c)) + (i + 1) - First(t)
        BY <1>2, <4>1 DEF PlanOf, s, c
      <4>3. SentOf(CallOf(t))' = SentOf(c)
        BY <2>5, <2>6
      <4>4. i \in Int
        BY <1>1, <2>2 DEF Ahead, First
      <4>5. QED
        BY <2>8, <4>1, <4>2, <4>3, <4>4
    <3>6. \A k \in SentOf(CallOf(t))', i \in Ahead(t)' : script'[t][i].queue = "q" =>
             qSent'[k].number < script'[t][i].message.number /\ ~qSent'[k].end
      <4> SUFFICES ASSUME NEW k \in SentOf(c), NEW i \in Ahead(t)', script'[t][i].queue = "q"
                   PROVE  qSent[k].number < script'[t][i].message.number /\ ~qSent[k].end
        BY <2>5, <2>6
      <4>1. QED
        BY <1>2, <3>4 DEF PlanOf, s, c
    <3>7. QED
      BY <3>1, <3>2, <3>3, <3>5, <3>6 DEF PlanOf
  <2>10. \A u \in Threads \ {t} : pc[u] # "idle" => CallOf(u) # CallOf(t)'
    BY <2>5 DEF PlanInv, c
  <2>11. QED
    BY <1>1, <2>9, <2>10, SamePlanInv
<1>5. QED
  BY <1>3, <1>4

LEMMA ThrowPlan ==
    ASSUME PlanInv, ScriptInv, NEW t \in Threads, UNCHANGED <<qSent, pSent, todo>>,
           pc[t] = "post", Throw(t)
    PROVE  PlanInv'
<1>1. Others(t)
  BY ThrowOn
<1>2. CallOf(t) \in Calls
  BY AtStep
<1>3. CASE Step(t).message.type = "error"
  <2>1. pc'[t] = "idle"
    BY <1>3, ProceedOut DEF Throw
  <2>2. QED
    BY <1>1, <2>1, SamePlanInv
<1>4. CASE Step(t).message.type # "error"
  <2> DEFINE s == <<pushError(CallOf(t))>>
  <2>1. Proceed(t, s)
    BY <1>4 DEF Throw, ErrorOnly, CallOf
  <2>2. s # <<>> /\ Head(s) = pushError(CallOf(t)) /\ Len(s) = 1 /\ s[1] = pushError(CallOf(t))
    OBVIOUS
  <2>3. /\ pushError(CallOf(t)).queue = "priority"
        /\ pushError(CallOf(t)).message.call = CallOf(t)
        /\ pushError(CallOf(t)).message.type = "error"
    BY DEF pushError, Message
  <2>4. Planned(s, CallOf(t))
    BY <1>2, ErrorPlan
  <2> HIDE DEF s
  <2>5. script'[t] = s /\ pc'[t] = "post"
    BY <2>1, <2>2, <2>3 DEF Proceed, ScriptInv
  <2>6. CallOf(t)' = CallOf(t)
    BY <2>2, <2>3, <2>5 DEF CallOf, Step
  <2>7. \A d : SentOf(d)' = SentOf(d) /\ Verdicts(d)' = Verdicts(d)
    BY SameSent
  <2>8. PlanOf(t)
    BY DEF PlanInv
  <2>9. Ahead(t)' = {1}
    <3>1. First(t)' = 1 /\ Len(script'[t]) = 1
      BY <2>2, <2>5 DEF First
    <3>2. QED
      BY ONLY <3>1 DEF Ahead
  <2>10. PlanOf(t)'
    <3>1. CallOf(t)' \notin todo'
      BY <2>6, <2>8 DEF PlanOf
    <3>2. Planned(script[t], CallOf(t))'
      <4>1. Planned(script'[t], CallOf(t)')
        BY <2>4, <2>5, <2>6
      <4>2. QED
        BY <4>1
    <3>3. Verdicts(CallOf(t))' = {}
      BY <2>6, <2>7, <2>8 DEF PlanOf, Undecided
    <3>4. \A i \in Ahead(t)' : script'[t][i].message.type # "success" /\ script'[t][i].queue # "q"
      BY <2>2, <2>3, <2>5, <2>9
    <3>5. QED
      BY <3>1, <3>2, <3>3, <3>4 DEF PlanOf
  <2>11. \A u \in Threads \ {t} : pc[u] # "idle" => CallOf(u) # CallOf(t)'
    BY <2>6 DEF PlanInv
  <2>12. QED
    BY <1>1, <2>10, <2>11, SamePlanInv
<1>5. QED
  BY <1>3, <1>4

LEMMA BeginPlan ==
    ASSUME PlanInv, ScriptInv, NEW t \in Threads, NEW c \in Calls, Begin(t, c)
    PROVE  PlanInv'
<1>1. PICK s \in Handler(c) : Proceed(t, s)
  BY DEF Begin
<1>2. Triggers(s) /\ Planned(s, c) /\ Counts(s)
  BY HandlerTriggers, HandlerPlans
<1>3. Others(t)
  BY <1>1, <1>2, ProceedWith
<1>4. s \in Seq(Step_s) /\ Len(s) \in Nat \ {0} /\ Head(s) = s[1] /\ s # <<>>
  BY <1>2 DEF Triggers
<1>5. script'[t] = s /\ pc'[t] = IF s[1].queue = "none" THEN "reset" ELSE "post"
  BY <1>1, <1>4 DEF Proceed, ScriptInv
<1>6. UNCHANGED <<qSent, pSent>> /\ c \in todo /\ todo' = todo \ {c}
  BY DEF Begin, qVars, pVars
<1>7. CallOf(t)' = c
  BY <1>2, <1>4, <1>5 DEF CallOf, Step, Planned
<1>8. \A d : SentOf(d)' = SentOf(d) /\ Verdicts(d)' = Verdicts(d)
  BY <1>6, SameSent
<1>9. SentOf(c) = {} /\ Verdicts(c) = {}
  BY <1>6 DEF PlanInv
<1>10. Cardinality(SentOf(c)) = 0
  BY <1>9, FS_EmptySet
<1>11. PlanOf(t)'
  <2>1. Planned(script[t], CallOf(t))'
    <3>1. Planned(script'[t], CallOf(t)')
      BY <1>2, <1>5, <1>7
    <3>2. QED
      BY <3>1
  <2>2. ASSUME NEW i \in Ahead(t)'
        PROVE  i \in 1 .. Len(s) /\ First(t)' = 1
    <3>1. pc'[t] # "post" => Len(s) = 1
      <4>1. 1 \in 1 .. Len(s)
        BY <1>4
      <4>2. s[1].queue = "none" => 1 = Len(s)
        BY <1>2, <4>1 DEF Planned, Final
      <4>3. QED
        BY <1>5, <4>2
    <3>2. pc'[t] # "post" => Ahead(t)' = {}
      <4> SUFFICES ASSUME pc'[t] # "post"
                   PROVE  Ahead(t)' = {}
        OBVIOUS
      <4>1. Len(script'[t]) = 1 /\ First(t)' = 2
        BY <1>5, <3>1 DEF First
      <4>2. QED
        BY ONLY <4>1 DEF Ahead
    <3>3. QED
      BY <1>5, <2>2, <3>2 DEF Ahead, First
  <2>3. \A i \in Ahead(t)' : script'[t][i].message.type = "success" =>
           script'[t][i].message.number = Cardinality(SentOf(CallOf(t)))' + i - First(t)'
    <3> SUFFICES ASSUME NEW i \in Ahead(t)', script'[t][i].message.type = "success"
                 PROVE  script'[t][i].message.number = Cardinality(SentOf(CallOf(t)))' + i - First(t)'
      OBVIOUS
    <3>1. i \in 1 .. Len(s) /\ First(t)' = 1
      BY <2>2
    <3>2. script'[t][i].message.number = i - 1
      BY <1>2, <1>5, <3>1 DEF Counts
    <3>3. Cardinality(SentOf(CallOf(t)))' = 0
      BY <1>7, <1>8, <1>10
    <3>4. QED
      BY ONLY <3>1, <3>2, <3>3
  <2>4. SentOf(CallOf(t))' = {} /\ Verdicts(CallOf(t))' = {} /\ CallOf(t)' \notin todo'
    BY <1>6, <1>7, <1>8, <1>9
  <2>5. QED
    BY <2>1, <2>3, <2>4 DEF PlanOf
<1>12. \A u \in Threads \ {t} : pc[u] # "idle" => CallOf(u) # CallOf(t)'
  BY <1>6, <1>7 DEF PlanInv, PlanOf
<1>13. QED
  BY <1>3, <1>6, <1>11, <1>12, SamePlanInv

-----------------------------------------------------------------------------
(* What a message that is sent does to what has been sent of its call.     *)
LEMMA SendMessage ==
    ASSUME FillInv, NEW m \in AnyMessage, qSent' = Append(qSent, m), pSent' = pSent,
           NEW n, n = Len(qSent) + 1
    PROVE  /\ Len(qSent) \in Nat /\ Len(qSent') = n
           /\ \A k \in 1 .. Len(qSent) : qSent'[k] = qSent[k]
           /\ qSent'[n] = m /\ 1 .. n = 1 .. Len(qSent) \cup {n}
           /\ \A d : d # m.call => SentOf(d)' = SentOf(d) /\ Verdicts(d)' = Verdicts(d)
           /\ SentOf(m.call)' = SentOf(m.call) \cup {n}
           /\ Cardinality(SentOf(m.call))' = Cardinality(SentOf(m.call)) + 1
           /\ Verdicts(m.call)' = Verdicts(m.call) \cup (IF m.type = "complete" THEN {-n} ELSE {})
<1>1. /\ Len(qSent) \in Nat /\ Len(qSent') = n
      /\ \A k \in 1 .. Len(qSent) : qSent'[k] = qSent[k]
      /\ qSent'[n] = m
  BY DEF FillInv
<1>2. 1 .. n = 1 .. Len(qSent) \cup {n} /\ n \notin 1 .. Len(qSent)
  BY ONLY <1>1, n = Len(qSent) + 1
<1>3. \A d : SentOf(d)' = SentOf(d) \cup (IF d = m.call THEN {n} ELSE {})
  BY <1>1, <1>2 DEF SentOf
<1>4. SentOf(m.call)' = SentOf(m.call) \cup {n} /\ n \notin SentOf(m.call)
  BY <1>2, <1>3 DEF SentOf
<1>5. Cardinality(SentOf(m.call))' = Cardinality(SentOf(m.call)) + 1
  BY <1>4, SentIsFinite, FS_AddElement
<1>6. ASSUME NEW d
      PROVE  Verdicts(d)' = Verdicts(d) \cup (IF d = m.call /\ m.type = "complete" THEN {-n} ELSE {})
  <2> DEFINE Completed == {k \in 1 .. Len(qSent) : qSent[k].call = d /\ qSent[k].type = "complete"}
  <2>1. Completed' = Completed \cup (IF d = m.call /\ m.type = "complete" THEN {n} ELSE {})
    BY <1>1, <1>2
  <2>2. {-i : i \in Completed'}
          = {-i : i \in Completed} \cup (IF d = m.call /\ m.type = "complete" THEN {-n} ELSE {})
    BY <2>1
  <2>3. QED
    BY <2>2 DEF Verdicts
<1>7. QED
  BY <1>1, <1>2, <1>3, <1>4, <1>5, <1>6

LEMMA SendUrgent ==
    ASSUME PlanInv, NEW m \in UrgentSet, pSent' = Append(pSent, m), qSent' = qSent,
           NEW n, n = Len(pSent) + 1
    PROVE  /\ pSent' \in Seq(UrgentSet) /\ Len(pSent) \in Nat /\ Len(pSent') = n
           /\ \A k \in 1 .. Len(pSent) : pSent'[k] = pSent[k]
           /\ pSent'[n] = m /\ 1 .. n = 1 .. Len(pSent) \cup {n}
           /\ \A d : SentOf(d)' = SentOf(d)
           /\ \A d : d # m.call => Verdicts(d)' = Verdicts(d)
           /\ Verdicts(m.call)' = Verdicts(m.call) \cup {n}
<1>1. /\ pSent' \in Seq(UrgentSet) /\ Len(pSent) \in Nat /\ Len(pSent') = n
      /\ \A k \in 1 .. Len(pSent) : pSent'[k] = pSent[k]
      /\ pSent'[n] = m
  BY DEF PlanInv
<1>2. 1 .. n = 1 .. Len(pSent) \cup {n} /\ n \notin 1 .. Len(pSent)
  BY ONLY <1>1, n = Len(pSent) + 1
<1>3. \A d : SentOf(d)' = SentOf(d)
  BY DEF SentOf
<1>4. ASSUME NEW d
      PROVE  Verdicts(d)' = Verdicts(d) \cup (IF d = m.call THEN {n} ELSE {})
  <2>1. {i \in 1 .. Len(pSent') : pSent'[i].call = d}
          = {i \in 1 .. Len(pSent) : pSent[i].call = d} \cup (IF d = m.call THEN {n} ELSE {})
    BY <1>1, <1>2
  <2>2. QED
    BY <2>1 DEF Verdicts
<1>5. QED
  BY <1>1, <1>2, <1>3, <1>4

LEMMA AllocateMessagePlan ==
    ASSUME PlanInv, FillInv, ScriptInv, NEW t \in Threads, AllocateMessage(t)
    PROVE  PlanInv'
<1>0. PICK c, m, s, n : c = CallOf(t) /\ m = Step(t).message /\ s = script[t] /\ n = Len(qSent) + 1
  OBVIOUS
<1>1. /\ pc[t] = "post" /\ Step(t).queue = "q" /\ qSent' = Append(qSent, m) /\ pSent' = pSent
      /\ Goto(t, "push") /\ todo' = todo
  BY <1>0 DEF AllocateMessage, pVars
<1>2. Others(t) /\ pc'[t] = "push" /\ script' = script
  BY <1>1, GotoOn DEF PCs
<1>3. /\ s \in Seq(Step_s) /\ Len(s) \in Nat \ {0} /\ Step(t) = s[1] /\ m \in AnyMessage
      /\ c \in Calls /\ m.call = c
  BY <1>0, <1>1, AtStep DEF CallOf
<1>4. PlanOf(t) /\ Planned(s, c) /\ Verdicts(c) = {} /\ First(t) = 1 /\ Ahead(t) = 1 .. Len(s)
      /\ c \notin todo
  BY <1>0, <1>1 DEF PlanInv, PlanOf, Undecided, First, Ahead
<1>5. 1 \in 1 .. Len(s) /\ m = s[1].message /\ s[1].queue = "q"
  BY <1>0, <1>1, <1>3
<1>6. /\ Len(qSent) \in Nat /\ Len(qSent') = n
      /\ \A k \in 1 .. Len(qSent) : qSent'[k] = qSent[k]
      /\ qSent'[n] = m /\ 1 .. n = 1 .. Len(qSent) \cup {n}
      /\ \A d : d # c => SentOf(d)' = SentOf(d) /\ Verdicts(d)' = Verdicts(d)
      /\ SentOf(c)' = SentOf(c) \cup {n}
      /\ Cardinality(SentOf(c))' = Cardinality(SentOf(c)) + 1
      /\ Verdicts(c)' = IF m.type = "complete" THEN {-n} ELSE {}
  <2>1. /\ Len(qSent) \in Nat /\ Len(qSent') = n
        /\ \A k \in 1 .. Len(qSent) : qSent'[k] = qSent[k]
        /\ qSent'[n] = m /\ 1 .. n = 1 .. Len(qSent) \cup {n}
        /\ \A d : d # m.call => SentOf(d)' = SentOf(d) /\ Verdicts(d)' = Verdicts(d)
        /\ SentOf(m.call)' = SentOf(m.call) \cup {n}
        /\ Cardinality(SentOf(m.call))' = Cardinality(SentOf(m.call)) + 1
        /\ Verdicts(m.call)' = Verdicts(m.call) \cup (IF m.type = "complete" THEN {-n} ELSE {})
    <3>1. n = Len(qSent) + 1
      BY <1>0
    <3>2. m \in AnyMessage /\ qSent' = Append(qSent, m) /\ pSent' = pSent
      BY <1>1, <1>3
    <3>3. QED
      BY ONLY FillInv, <3>1, <3>2, SendMessage
  <2>2. m.call = c /\ Verdicts(c) = {}
    BY <1>3, <1>4
  <2>3. Verdicts(c)' = Verdicts(c) \cup (IF m.type = "complete" THEN {-n} ELSE {})
    BY <2>1, <2>2
  <2>4. QED
    BY <2>1, <2>2, <2>3
<1>7. \A u \in Threads \ {t} : pc'[u] = pc[u] /\ script'[u] = script[u] /\ CallOf(u)' = CallOf(u)
  BY <1>2 DEF Others, CallOf, Step
<1>8. CallOf(t)' = c /\ Step(t)' = s[1] /\ script'[t] = s
  BY <1>0, <1>2, <1>3 DEF CallOf, Step
<1>9. First(t)' = 2 /\ Ahead(t)' = 2 .. Len(s)
  BY <1>2, <1>8 DEF First, Ahead
<1>10. \A k \in SentOf(c) : k \in 1 .. Len(qSent) /\ qSent'[k] = qSent[k] /\ qSent[k].call = c
  BY <1>6 DEF SentOf
<1>11. PlanOf(t)'
  <2>1. Planned(script[t], CallOf(t))'
    <3>1. Planned(script'[t], CallOf(t)')
      BY <1>4, <1>8
    <3>2. QED
      BY <3>1
  <2>2. Undecided(t)' => Verdicts(CallOf(t))' = {}
    <3>1. Undecided(t)' => m.type # "complete"
      BY <1>2, <1>5, <1>8 DEF Undecided, Final, Deciding
    <3>2. QED
      BY <1>6, <1>8, <3>1
  <2>3. \A i \in Ahead(t)' : script'[t][i].message.type = "success" =>
           script'[t][i].message.number = Cardinality(SentOf(CallOf(t)))' + i - First(t)'
    <3> SUFFICES ASSUME NEW i \in 2 .. Len(s), s[i].message.type = "success"
                 PROVE  s[i].message.number = Cardinality(SentOf(c))' + i - 2
      BY <1>8, <1>9
    <3>1. i \in 1 .. Len(s) /\ i \in Int
      BY <1>3
    <3>2. s[i].message.number = Cardinality(SentOf(c)) + i - 1
      BY <1>0, <1>4, <3>1 DEF PlanOf
    <3>3. Cardinality(SentOf(c)) \in Nat
      BY SentIsFinite
    <3>4. QED
      BY ONLY <1>6, <3>1, <3>2, <3>3
  <2>4. \A k \in SentOf(CallOf(t))', i \in Ahead(t)' : script'[t][i].queue = "q" =>
           qSent'[k].number < script'[t][i].message.number /\ ~qSent'[k].end
    <3> SUFFICES ASSUME NEW k \in SentOf(c) \cup {n}, NEW i \in 2 .. Len(s), s[i].queue = "q"
                 PROVE  qSent'[k].number < s[i].message.number /\ ~qSent'[k].end
      BY <1>6, <1>8, <1>9
    <3>1. i \in 1 .. Len(s) /\ 1 < i
      BY <1>3
    <3>2. CASE k \in SentOf(c)
      BY <1>0, <1>4, <1>10, <3>1, <3>2 DEF PlanOf
    <3>3. CASE k = n
      BY <1>4, <1>5, <1>6, <3>1, <3>3 DEF Planned
    <3>4. QED
      BY <3>2, <3>3
  <2>5. CallOf(t)' \notin todo'
    BY <1>1, <1>4, <1>8
  <2>6. QED
    BY <2>1, <2>2, <2>3, <2>4, <2>5 DEF PlanOf
<1>12. \A u \in Threads : pc'[u] # "idle" => PlanOf(u)'
  <2> SUFFICES ASSUME NEW u \in Threads, u # t, pc'[u] # "idle"
               PROVE  PlanOf(u)'
    BY <1>11
  <2>1. PlanOf(u) /\ CallOf(u) # c
    BY <1>0, <1>1, <1>7 DEF PlanInv
  <2>2. SentOf(CallOf(u)) = SentOf(CallOf(u))' /\ Verdicts(CallOf(u)) = Verdicts(CallOf(u))'
    BY <1>6, <1>7, <2>1
  <2>3. \A k \in SentOf(CallOf(u)) : qSent'[k] = qSent[k]
    BY <1>6 DEF SentOf
  <2>4. QED
    BY <1>1, <1>7, <2>1, <2>2, <2>3, PlanOfOther
<1>13. \A u, v \in Threads : pc'[u] # "idle" /\ pc'[v] # "idle" /\ CallOf(u)' = CallOf(v)' => u = v
  <2>1. \A u \in Threads : pc'[u] # "idle" => pc[u] # "idle" /\ CallOf(u)' = CallOf(u)
    BY <1>0, <1>1, <1>7, <1>8
  <2>2. QED
    BY <2>1 DEF PlanInv
<1>14. \A j, k \in 1 .. Len(qSent') : j < k /\ qSent'[j].call = qSent'[k].call =>
          qSent'[j].number < qSent'[k].number /\ ~qSent'[j].end
  <2> SUFFICES ASSUME NEW j \in 1 .. n, NEW k \in 1 .. n, j < k, qSent'[j].call = qSent'[k].call
               PROVE  qSent'[j].number < qSent'[k].number /\ ~qSent'[j].end
    BY <1>6
  <2>0. n = Len(qSent) + 1
    BY <1>0
  <2>1. j \in 1 .. Len(qSent)
    BY ONLY <1>6, <2>0, j < k, j \in 1 .. n, k \in 1 .. n
  <2>2. CASE k \in 1 .. Len(qSent)
    BY <1>6, <2>1, <2>2 DEF PlanInv
  <2>3. CASE k = n
    <3>1. j \in SentOf(c) /\ qSent'[j] = qSent[j]
      BY <1>3, <1>6, <2>1, <2>3 DEF SentOf
    <3>2. qSent[j].number < s[1].message.number /\ ~qSent[j].end
      BY <1>0, <1>4, <1>5, <3>1 DEF PlanOf
    <3>3. QED
      BY <1>5, <1>6, <2>3, <3>1, <3>2
  <2>4. QED
    BY <1>6, <2>2, <2>3
<1>15. OneTrueVerdict'
  <2>1. \A d \in Calls : Cardinality(Verdicts(d))' <= 1
    <3>1. \A d \in Calls : d # c => Cardinality(Verdicts(d))' <= 1
      BY <1>6 DEF PlanInv, OneTrueVerdict
    <3>2. Verdicts(c)' = {-n} \/ Verdicts(c)' = {}
      BY <1>6
    <3>3. Cardinality(Verdicts(c)') <= 1
      <4>1. Cardinality({}) = 0 /\ Cardinality({-n}) = 1
        BY FS_EmptySet, FS_Singleton
      <4>2. QED
        BY <3>2, <4>1
    <3>4. QED
      BY <3>1, <3>3
  <2>2. ASSUME NEW i \in 1 .. Len(pSent), pSent[i].type = "success"
        PROVE  pSent[i].number = Cardinality(SentOf(pSent[i].call))'
    <3>1. PICK d : d = pSent[i].call
      OBVIOUS
    <3>2. SentOf(d)' = SentOf(d) /\ pSent'[i].call = d
      BY <1>1, <1>4, <1>6, <3>1, NoVerdicts
    <3>3. pSent[i].number = Cardinality(SentOf(pSent[i].call))
      BY <2>2 DEF PlanInv, OneTrueVerdict, SentOf
    <3>4. QED
      BY <1>1, <3>2, <3>3
  <2>3. QED
    BY <1>1, <2>1, <2>2 DEF OneTrueVerdict, SentOf
<1>16. \A d \in todo' : SentOf(d)' = {} /\ Verdicts(d)' = {}
  BY <1>1, <1>4, <1>6 DEF PlanInv
<1>17. \A k \in 1 .. Len(qSent') : qSent'[k].type \notin {"success", "error"}
  <2>1. m.type \notin {"success", "error"}
    BY <1>4, <1>5 DEF Planned
  <2>2. QED
    BY <1>6, <2>1 DEF PlanInv
<1>18. pSent' \in Seq(UrgentSet)'
  BY <1>1 DEF PlanInv
<1>19. QED
  BY <1>12, <1>13, <1>14, <1>15, <1>16, <1>17, <1>18 DEF PlanInv

LEMMA AllocateUrgentPlan ==
    ASSUME PlanInv, FillInv, ScriptInv, NEW t \in Threads, AllocateUrgent(t)
    PROVE  PlanInv'
<1>0. PICK c, m, s, n : c = CallOf(t) /\ m = Step(t).message /\ s = script[t] /\ n = Len(pSent) + 1
  OBVIOUS
<1>1. /\ pc[t] = "post" /\ Step(t).queue = "priority" /\ pSent' = Append(pSent, m) /\ qSent' = qSent
      /\ Goto(t, "push") /\ todo' = todo
  BY <1>0 DEF AllocateUrgent, qVars
<1>2. Others(t) /\ pc'[t] = "push" /\ script' = script
  BY <1>1, GotoOn DEF PCs
<1>3. /\ s \in Seq(Step_s) /\ Len(s) \in Nat \ {0} /\ Step(t) = s[1]
      /\ c \in Calls /\ m.call = c
  BY <1>0, <1>1, AtStep DEF CallOf
<1>4. PlanOf(t) /\ Planned(s, c) /\ Verdicts(c) = {} /\ First(t) = 1 /\ Ahead(t) = 1 .. Len(s)
      /\ c \notin todo
  BY <1>0, <1>1 DEF PlanInv, PlanOf, Undecided, First, Ahead
<1>5. 1 \in 1 .. Len(s) /\ m = s[1].message /\ s[1].queue = "priority" /\ m \in UrgentSet
  BY <1>0, <1>1, <1>3, <1>4 DEF Planned
<1>6. m.type \in {"success", "error"}
  BY <1>5 DEF UrgentSet
<1>7. /\ pSent' \in Seq(UrgentSet) /\ Len(pSent) \in Nat /\ Len(pSent') = n
      /\ \A k \in 1 .. Len(pSent) : pSent'[k] = pSent[k]
      /\ pSent'[n] = m /\ 1 .. n = 1 .. Len(pSent) \cup {n}
      /\ \A d : SentOf(d)' = SentOf(d)
      /\ \A d : d # c => Verdicts(d)' = Verdicts(d)
      /\ Verdicts(c)' = {n}
  <2>1. /\ pSent' \in Seq(UrgentSet) /\ Len(pSent) \in Nat /\ Len(pSent') = n
        /\ \A k \in 1 .. Len(pSent) : pSent'[k] = pSent[k]
        /\ pSent'[n] = m /\ 1 .. n = 1 .. Len(pSent) \cup {n}
        /\ \A d : SentOf(d)' = SentOf(d)
        /\ \A d : d # m.call => Verdicts(d)' = Verdicts(d)
        /\ Verdicts(m.call)' = Verdicts(m.call) \cup {n}
    <3>1. n = Len(pSent) + 1
      BY <1>0
    <3>2. m \in UrgentSet /\ pSent' = Append(pSent, m) /\ qSent' = qSent
      BY <1>1, <1>5
    <3>3. QED
      BY ONLY PlanInv, <3>1, <3>2, SendUrgent
  <2>2. m.call = c /\ Verdicts(c) = {}
    BY <1>3, <1>4
  <2>3. Verdicts(c)' = Verdicts(c) \cup {n}
    BY <2>1, <2>2
  <2>4. QED
    BY <2>1, <2>2, <2>3
<1>8. \A u \in Threads \ {t} : pc'[u] = pc[u] /\ script'[u] = script[u] /\ CallOf(u)' = CallOf(u)
  BY <1>2 DEF Others, CallOf, Step
<1>9. CallOf(t)' = c /\ Step(t)' = s[1] /\ script'[t] = s
  BY <1>0, <1>2, <1>3 DEF CallOf, Step
<1>10. First(t)' = 2 /\ Ahead(t)' = 2 .. Len(s)
  BY <1>2, <1>9 DEF First, Ahead
<1>11. Final(s[1])
  BY <1>5, <1>6 DEF Final, Deciding
<1>12. \A i \in 2 .. Len(s) : s[i].queue = "none" /\ s[i].message.type = "none"
  <2> SUFFICES ASSUME NEW i \in 2 .. Len(s)
               PROVE  s[i].queue = "none" /\ s[i].message.type = "none"
    OBVIOUS
  <2>1. 1 # Len(s) /\ 2 \in 1 .. Len(s) /\ i \in 1 .. Len(s)
    <3>1. Len(s) \in Nat /\ i \in 2 .. Len(s)
      BY <1>3
    <3>2. QED
      BY ONLY <3>1
  <2>2. s[2].queue = "none"
    BY <1>4, <1>5, <1>11, <2>1 DEF Planned
  <2>3. 2 = Len(s)
    BY <1>4, <2>1, <2>2 DEF Planned, Final
  <2>4. i \in 2 .. 2
    BY <2>3
  <2>5. QED
    BY <1>4, <2>1, <2>2, <2>4 DEF Planned
<1>13. PlanOf(t)'
  <2>1. Planned(script[t], CallOf(t))'
    <3>1. Planned(script'[t], CallOf(t)')
      BY <1>4, <1>9
    <3>2. QED
      BY <3>1
  <2>2. ~Undecided(t)'
    BY <1>2, <1>9, <1>11 DEF Undecided, Final, Deciding
  <2>3. \A i \in Ahead(t)' : script'[t][i].message.type # "success" /\ script'[t][i].queue # "q"
    BY <1>9, <1>10, <1>12
  <2>4. CallOf(t)' \notin todo'
    BY <1>1, <1>4, <1>9
  <2>5. QED
    BY <2>1, <2>2, <2>3, <2>4 DEF PlanOf
<1>14. \A u \in Threads : pc'[u] # "idle" => PlanOf(u)'
  <2> SUFFICES ASSUME NEW u \in Threads, u # t, pc'[u] # "idle"
               PROVE  PlanOf(u)'
    BY <1>13
  <2>1. PlanOf(u) /\ CallOf(u) # c
    BY <1>0, <1>1, <1>8 DEF PlanInv
  <2>2. SentOf(CallOf(u)) = SentOf(CallOf(u))' /\ Verdicts(CallOf(u)) = Verdicts(CallOf(u))'
    BY <1>7, <1>8, <2>1
  <2>3. \A k \in SentOf(CallOf(u)) : qSent'[k] = qSent[k]
    BY <1>1
  <2>4. QED
    BY <1>1, <1>8, <2>1, <2>2, <2>3, PlanOfOther
<1>15. \A u, v \in Threads : pc'[u] # "idle" /\ pc'[v] # "idle" /\ CallOf(u)' = CallOf(v)' => u = v
  <2>1. \A u \in Threads : pc'[u] # "idle" => pc[u] # "idle" /\ CallOf(u)' = CallOf(u)
    BY <1>0, <1>1, <1>8, <1>9
  <2>2. QED
    BY <2>1 DEF PlanInv
<1>16. OneTrueVerdict'
  <2>1. \A d \in Calls : Cardinality(Verdicts(d))' <= 1
    <3>1. \A d \in Calls : d # c => Cardinality(Verdicts(d))' <= 1
      BY <1>7 DEF PlanInv, OneTrueVerdict
    <3>2. Cardinality(Verdicts(c)') <= 1
      <4>1. Cardinality({n}) = 1
        BY FS_Singleton
      <4>2. QED
        BY <1>7, <4>1
    <3>3. QED
      BY <3>1, <3>2
  <2>2. ASSUME NEW i \in 1 .. Len(pSent'), pSent'[i].type = "success"
        PROVE  pSent'[i].number = Cardinality(SentOf(pSent'[i].call))
    <3>1. CASE i \in 1 .. Len(pSent)
      BY <1>7, <2>2, <3>1 DEF PlanInv, OneTrueVerdict, SentOf
    <3>2. CASE i = n
      <4>1. m.type = "success" /\ pSent'[i] = m
        BY <1>7, <2>2, <3>2
      <4>2. m.number = Cardinality(SentOf(c)) + 1 - 1
        BY <1>0, <1>4, <1>5, <4>1 DEF PlanOf
      <4>3. Cardinality(SentOf(c)) \in Nat
        BY SentIsFinite
      <4>4. QED
        BY <1>3, <4>1, <4>2, <4>3
    <3>3. QED
      BY <1>7, <3>1, <3>2
  <2>3. QED
    BY <1>1, <2>1, <2>2 DEF OneTrueVerdict, SentOf
<1>17. \A d \in todo' : SentOf(d)' = {} /\ Verdicts(d)' = {}
  BY <1>1, <1>4, <1>7 DEF PlanInv
<1>18. \A k \in 1 .. Len(qSent') : qSent'[k].type \notin {"success", "error"}
  BY <1>1 DEF PlanInv
<1>19. \A j, k \in 1 .. Len(qSent') : j < k /\ qSent'[j].call = qSent'[k].call =>
          qSent'[j].number < qSent'[k].number /\ ~qSent'[j].end
  BY <1>1 DEF PlanInv
<1>20. pSent' \in Seq(UrgentSet)'
  BY <1>7
<1>21. QED
  BY <1>14, <1>15, <1>16, <1>17, <1>18, <1>19, <1>20 DEF PlanInv

-----------------------------------------------------------------------------
LEMMA PlanStep == ScriptInv /\ FillInv /\ PlanInv /\ [Next]_vars => PlanInv'
<1> SUFFICES ASSUME ScriptInv, FillInv, PlanInv, [Next]_vars
             PROVE  PlanInv'
  OBVIOUS
<1>1. ASSUME NEW t \in Threads, NEW c \in Calls, Begin(t, c)
      PROVE  PlanInv'
  BY <1>1, BeginPlan
<1>2. ASSUME NEW t \in Threads, AllocateMessage(t) \/ AllocateUrgent(t)
      PROVE  PlanInv'
  BY <1>2, AllocateMessagePlan, AllocateUrgentPlan
<1>3. ASSUME NEW t \in Threads, QueueOverflow(t) \/ BadData(t)
      PROVE  PlanInv'
  <2>1. UNCHANGED <<qSent, pSent, todo>> /\ pc[t] = "post" /\ Throw(t)
    BY <1>3 DEF QueueOverflow, BadData, qVars, pVars
  <2>2. QED
    BY <2>1, ThrowPlan
<1>4. ASSUME NEW t \in Threads, NEW label \in PCs \ {"idle", "post"}, Goto(t, label),
             pc[t] # "idle", pc[t] # "post", UNCHANGED <<qSent, pSent, todo>>
      PROVE  PlanInv'
  <2>1. Others(t) /\ pc'[t] = label /\ script' = script
    BY <1>4, GotoOn
  <2>2. QED
    BY <1>4, <2>1, GotoPlan
<1>5. ASSUME NEW t \in Threads, PushMessage(t) \/ PushUrgent(t) \/ Reset(t)
      PROVE  PlanInv'
  <2>1. UNCHANGED <<qSent, pSent, todo>> /\ pc[t] # "idle" /\ pc[t] # "post"
    BY <1>5 DEF PushMessage, PushUrgent, Reset, qVars, pVars
  <2>2. Goto(t, "count") \/ Goto(t, "reset") \/ Goto(t, "send")
    BY <1>5 DEF PushMessage, PushUrgent, Reset
  <2>3. {"count", "reset", "send"} \subseteq PCs \ {"idle", "post"}
    BY DEF PCs
  <2>4. QED
    BY <2>1, <2>2, <2>3, <1>4
<1>6. ASSUME NEW t \in Threads, Count(t) \/ Send(t)
      PROVE  PlanInv'
  <2>1. UNCHANGED <<qSent, pSent, todo>> /\ pc[t] # "idle" /\ pc[t] # "post"
    BY <1>6 DEF Count, Send, qVars, pVars
  <2>2. Goto(t, "reset") \/ Proceed(t, Tail(script[t]))
    BY <1>6 DEF Count, Send
  <2>3. "reset" \in PCs \ {"idle", "post"}
    BY DEF PCs
  <2>4. QED
    BY <2>1, <2>2, <2>3, <1>4, ProceedPlan
<1>7. CASE executeCallback \/ Done \/ UNCHANGED vars
  <2>1. UNCHANGED <<pc, script, todo, qSent, pSent>>
    BY <1>7 DEF executeCallback, Wake, PopUrgent, ReleaseUrgent, NoMoreUrgent, PopMessage,
       ReleaseMessage, NoMoreMessages, CallBack, ResetAgain, SendAgain, Done, vars, apiVars,
       qVars, pVars
  <2>2. \A c : SentOf(c)' = SentOf(c) /\ Verdicts(c)' = Verdicts(c)
    BY <2>1, SameSent
  <2>3. \A t \in Threads : CallOf(t)' = CallOf(t)
    BY <2>1 DEF CallOf, Step
  <2>4. \A t \in Threads : pc[t] # "idle" => PlanOf(t)'
    <3> SUFFICES ASSUME NEW t \in Threads, pc[t] # "idle"
                 PROVE  PlanOf(t)'
      OBVIOUS
    <3>1. PlanOf(t)
      BY DEF PlanInv
    <3>2. SentOf(CallOf(t)) = SentOf(CallOf(t))' /\ Verdicts(CallOf(t)) = Verdicts(CallOf(t))'
      BY <2>2, <2>3
    <3>3. QED
      BY <2>1, <3>1, <3>2, PlanOfOther
  <2>5. OneTrueVerdict'
    BY <2>1, <2>2 DEF PlanInv, OneTrueVerdict
  <2>6. QED
    BY <2>1, <2>2, <2>3, <2>4, <2>5 DEF PlanInv
<1>8. QED
  BY <1>1, <1>2, <1>3, <1>5, <1>6, <1>7 DEF Next, Handle

LEMMA PlanAtFirst == Init => PlanInv
<1> SUFFICES ASSUME Init
             PROVE  PlanInv
  OBVIOUS
<1>1. /\ qSent = <<>> /\ pSent = <<>> /\ Len(qSent) = 0 /\ Len(pSent) = 0
      /\ \A t \in Threads : pc[t] = "idle"
  BY DEF Init
<1>2. \A c : SentOf(c) = {} /\ Verdicts(c) = {}
  BY <1>1 DEF SentOf, Verdicts
<1>3. Cardinality({}) = 0
  BY FS_EmptySet
<1>4. OneTrueVerdict
  <2>1. \A c \in Calls : Cardinality(Verdicts(c)) <= 1
    BY <1>2, <1>3
  <2>2. 1 .. Len(pSent) = {}
    BY <1>1
  <2>3. QED
    BY <2>1, <2>2 DEF OneTrueVerdict
<1>5. pSent \in Seq(UrgentSet)
  BY <1>1
<1>6. QED
  BY <1>1, <1>2, <1>4, <1>5 DEF PlanInv

(* A response has one verdict, and a success counts its records: a handler *)
(* goes by a plan in which nothing is posted after the verdict, and an     *)
(* exception replaces what is left of the plan by an error.                *)
THEOREM VerdictIsTrue == Spec => []OneTrueVerdict
<1>1. PlanInv => OneTrueVerdict
  BY DEF PlanInv
<1>2. QED
  BY Initially, ScriptStep, FillStep, PlanAtFirst, PlanStep, <1>1, PTL DEF Spec

-----------------------------------------------------------------------------
(* Why the records come in order.  What the loop has taken from q stands   *)
(* in qSent at greater and greater places, all of them before the places   *)
(* that are still in the queue; f names these places.                      *)
All == delivered \o argv
Ordinarily(i) == i \in 1 .. Len(All) /\ All[i] \notin UrgentSet
Comes(f) ==
    /\ \A i \in 1 .. Len(All) : Ordinarily(i) =>
          /\ f[i] \in 1 .. Len(qSent) /\ All[i] = qSent[f[i]]
          /\ \A n \in Q!Queued : f[i] - 1 < n
    /\ \A i, j \in 1 .. Len(All) : Ordinarily(i) /\ Ordinarily(j) /\ i < j => f[i] < f[j]

OrderInv ==
    /\ delivered \in Seq(AnyMessage)
    /\ \A t \in Threads : qFilling[t] # None => qFilling[t] \notin qReady
    /\ \A t, u \in Threads : qFilling[t] # None /\ qFilling[t] = qFilling[u] => t = u
    /\ \E f \in [1 .. Len(All) -> Int] : Comes(f)

LEMMA AllIsSeq ==
    ASSUME LoopInv, delivered \in Seq(AnyMessage)
    PROVE  /\ All \in Seq(AnyMessage) /\ Len(All) = Len(delivered) + Len(argv)
           /\ Len(delivered) \in Nat /\ Len(argv) \in Nat /\ Len(All) \in Nat
           /\ \A i \in 1 .. Len(delivered) : All[i] = delivered[i]
<1>1. argv \in Seq(AnyMessage)
  BY DEF LoopInv
<1>2. QED
  BY <1>1, ConcatProperties, LenProperties DEF All

(* The order stays when nothing is popped and what is added to the queue   *)
(* is added behind all that was sent.                                      *)
LEMMA ComesKept ==
    ASSUME NEW f, Comes(f), FillInv, All' = All, Len(qSent') \in Nat, Len(qSent') >= Len(qSent),
           \A k \in 1 .. Len(qSent) : qSent'[k] = qSent[k],
           \A n \in Q!Queued' : n \in Q!Queued \/ (n \in Int /\ n >= Len(qSent))
    PROVE  Comes(f)'
<1>1. Len(qSent) \in Nat /\ 1 .. Len(qSent) \subseteq 1 .. Len(qSent')
  <2>1. Len(qSent) \in Nat
    BY DEF FillInv
  <2>2. QED
    BY <2>1
<1>2. \A i : Ordinarily(i)' <=> Ordinarily(i)
  BY DEF Ordinarily
<1>3. ASSUME NEW i \in 1 .. Len(All), Ordinarily(i)
      PROVE  /\ f[i] \in 1 .. Len(qSent') /\ All[i] = qSent'[f[i]]
             /\ \A n \in Q!Queued' : f[i] - 1 < n
  <2>1. /\ f[i] \in 1 .. Len(qSent) /\ All[i] = qSent[f[i]]
        /\ \A n \in Q!Queued : f[i] - 1 < n
    BY <1>3 DEF Comes
  <2>2. \A n \in Int : n >= Len(qSent) => f[i] - 1 < n
    BY <1>1, <2>1
  <2>3. QED
    BY <1>1, <2>1, <2>2
<1>4. QED
  BY <1>2, <1>3 DEF Comes

LEMMA OrderKept ==
    ASSUME OrderInv, FillInv, UNCHANGED <<qSent, qFilling, qReady>>, All' = All,
           delivered' \in Seq(AnyMessage)
    PROVE  OrderInv'
<1>1. PICK f \in [1 .. Len(All) -> Int] : Comes(f)
  BY DEF OrderInv
<1>2. Q!Queued' = Q!Queued
  BY DEF Q!Queued
<1>3. Len(qSent) \in Nat
  BY DEF FillInv
<1>4. Comes(f)'
  <2>1. /\ qSent' = qSent /\ Len(qSent') \in Nat /\ Len(qSent') >= Len(qSent)
        /\ \A n \in Q!Queued' : n \in Q!Queued
    BY <1>2, <1>3
  <2>2. QED
    BY <1>1, <2>1, ComesKept
<1>5. f \in [1 .. Len(All') -> Int]
  BY <1>1
<1>6. QED
  BY <1>4, <1>5 DEF OrderInv

(* A message is added to what the loop has taken.                          *)
LEMMA AllGrows ==
    ASSUME LoopInv, delivered \in Seq(AnyMessage), delivered' = delivered,
           NEW m \in AnyMessage, argv' = Append(argv, m)
    PROVE  /\ Len(All') = Len(All) + 1 /\ Len(All) \in Nat
           /\ \A i \in 1 .. Len(All) : All'[i] = All[i]
           /\ All'[Len(All) + 1] = m
<1>1. argv \in Seq(AnyMessage)
  BY DEF LoopInv
<1>2. All \in Seq(AnyMessage)
  BY AllIsSeq
<1>3. All' = Append(All, m)
  BY <1>1 DEF All
<1>4. QED
  BY <1>2, <1>3

LEMMA OrderOfUrgent ==
    ASSUME OrderInv, FillInv, LoopInv, PlanInv, PopUrgent
    PROVE  OrderInv'
<1>1. PICK m \in pReady : pUsing' = [pUsing EXCEPT ![Loop] = m]
  BY DEF PopUrgent, P!Pop
<1>2. m \in Tickets(pSent) /\ pUsing'[Loop] = m
  BY <1>1 DEF FillInv, LoopInv
<1>3. pSent[m + 1] \in UrgentSet /\ pSent[m + 1] \in AnyMessage
  BY <1>2 DEF FillInv, PlanInv, Tickets
<1>4. PICK x : x = pSent[m + 1]
  OBVIOUS
<1>5. /\ argv' = Append(argv, x) /\ delivered' = delivered
      /\ UNCHANGED <<qSent, qFilling, qReady>>
  BY <1>2, <1>4 DEF PopUrgent, qVars
<1>6. /\ Len(All') = Len(All) + 1 /\ Len(All) \in Nat
      /\ \A i \in 1 .. Len(All) : All'[i] = All[i]
      /\ All'[Len(All) + 1] = x
  BY <1>3, <1>4, <1>5, AllGrows DEF OrderInv
<1>7. PICK f \in [1 .. Len(All) -> Int] : Comes(f)
  BY DEF OrderInv
<1>8. PICK g : g = [i \in 1 .. Len(All') |-> IF i \in 1 .. Len(All) THEN f[i] ELSE 0]
  OBVIOUS
<1>9. g \in [1 .. Len(All') -> Int] /\ \A i \in 1 .. Len(All) : g[i] = f[i]
  BY <1>6, <1>7, <1>8
<1>10. \A i \in 1 .. Len(All') : Ordinarily(i)' => i \in 1 .. Len(All) /\ Ordinarily(i)
  BY <1>3, <1>4, <1>6 DEF Ordinarily
<1>11. Q!Queued' = Q!Queued
  BY <1>5 DEF Q!Queued
<1>12. Comes(g)'
  <2>1. \A i \in 1 .. Len(All') : Ordinarily(i)' =>
           /\ g[i] \in 1 .. Len(qSent) /\ All'[i] = qSent[g[i]]
           /\ \A n \in Q!Queued : g[i] - 1 < n
    BY <1>6, <1>7, <1>9, <1>10 DEF Comes
  <2>2. \A i, j \in 1 .. Len(All') : Ordinarily(i)' /\ Ordinarily(j)' /\ i < j => g[i] < g[j]
    BY <1>7, <1>9, <1>10 DEF Comes
  <2>3. QED
    BY <1>5, <1>11, <2>1, <2>2 DEF Comes
<1>13. QED
  BY <1>5, <1>9, <1>12 DEF OrderInv

LEMMA OrderOfMessages ==
    ASSUME OrderInv, FillInv, LoopInv, PopMessage
    PROVE  OrderInv'
<1>1. PICK m \in qReady : /\ Q!Front(m) /\ qReady' = qReady \ {m}
                          /\ qUsing' = [qUsing EXCEPT ![Loop] = m]
  BY DEF PopMessage, Q!Pop
<1>2. m \in Tickets(qSent) /\ m \in Nat /\ Len(qSent) \in Nat /\ m + 1 \in 1 .. Len(qSent)
  BY <1>1 DEF FillInv, Tickets
<1>3. qUsing'[Loop] = m
  BY <1>1 DEF LoopInv
<1>4. PICK x : x = qSent[m + 1]
  OBVIOUS
<1>5. x \in AnyMessage
  BY <1>2, <1>4 DEF FillInv
<1>6. argv' = Append(argv, x) /\ delivered' = delivered /\ UNCHANGED <<qSent, qFilling>>
  BY <1>3, <1>4 DEF PopMessage, Q!Pop
<1>7. /\ Len(All') = Len(All) + 1 /\ Len(All) \in Nat
      /\ \A i \in 1 .. Len(All) : All'[i] = All[i]
      /\ All'[Len(All) + 1] = x
  BY <1>5, <1>6, AllGrows DEF OrderInv
<1>8. PICK f \in [1 .. Len(All) -> Int] : Comes(f)
  BY DEF OrderInv
<1>9. PICK g : g = [i \in 1 .. Len(All') |-> IF i \in 1 .. Len(All) THEN f[i] ELSE m + 1]
  OBVIOUS
<1>10. /\ g \in [1 .. Len(All') -> Int] /\ \A i \in 1 .. Len(All) : g[i] = f[i]
       /\ g[Len(All) + 1] = m + 1
       /\ \A i \in 1 .. Len(All') : i \in 1 .. Len(All) \/ i = Len(All) + 1
  BY <1>2, <1>7, <1>8, <1>9
<1>11. \A i \in 1 .. Len(All) : Ordinarily(i)' => Ordinarily(i)
  BY <1>7 DEF Ordinarily
<1>12. m \in Q!Queued
  BY <1>1 DEF Q!Queued
<1>13. ASSUME NEW n \in Q!Queued'
       PROVE  n \in Q!Queued /\ m < n /\ n \in Int
  <2>1. n \in Q!Queued
    BY <1>1, <1>6 DEF Q!Queued
  <2>2. n # m
    <3>1. CASE n \in qReady'
      BY <1>1, <3>1
    <3>2. CASE n \notin qReady'
      <4>1. PICK t \in Threads : n = qFilling[t] /\ n # None
        BY <1>6, <3>2 DEF Q!Queued
      <4>2. QED
        BY <1>1, <4>1 DEF OrderInv
    <3>3. QED
      BY <3>1, <3>2
  <2>3. n \in Nat
    <3>1. qReady \subseteq Nat /\ \A t \in Threads : qFilling[t] # None => qFilling[t] \in Nat
      BY DEF FillInv, Tickets
    <3>2. QED
      BY <2>1, <3>1 DEF Q!Queued
  <2>4. m <= n
    BY <1>1, <2>1 DEF Q!Front
  <2>5. QED
    BY <1>2, <2>1, <2>2, <2>3, <2>4
<1>14. Comes(g)'
  <2>1. ASSUME NEW i \in 1 .. Len(All'), Ordinarily(i)'
        PROVE  /\ g[i] \in 1 .. Len(qSent) /\ All'[i] = qSent[g[i]]
               /\ \A n \in Q!Queued' : g[i] - 1 < n
    <3>1. CASE i \in 1 .. Len(All)
      <4>1. /\ f[i] \in 1 .. Len(qSent) /\ All[i] = qSent[f[i]]
            /\ \A n \in Q!Queued : f[i] - 1 < n
        BY <1>8, <1>11, <2>1, <3>1 DEF Comes
      <4>2. QED
        BY <1>7, <1>10, <1>13, <3>1, <4>1
    <3>2. CASE i = Len(All) + 1
      BY <1>2, <1>4, <1>7, <1>10, <1>13, <3>2
    <3>3. QED
      BY <1>10, <3>1, <3>2
  <2>2. ASSUME NEW i \in 1 .. Len(All'), NEW j \in 1 .. Len(All'), i < j,
               Ordinarily(i)', Ordinarily(j)'
        PROVE  g[i] < g[j]
    <3>1. i \in 1 .. Len(All)
      BY ONLY <1>7, <2>2
    <3>2. f[i] \in Int /\ g[i] = f[i] /\ f[i] - 1 < m
      BY <1>8, <1>10, <1>11, <1>12, <2>2, <3>1 DEF Comes
    <3>3. CASE j \in 1 .. Len(All)
      BY <1>8, <1>10, <1>11, <2>2, <3>1, <3>3 DEF Comes
    <3>4. CASE j = Len(All) + 1
      BY <1>2, <1>10, <3>2, <3>4
    <3>5. QED
      BY <1>10, <3>3, <3>4
  <2>3. QED
    BY <1>6, <2>1, <2>2 DEF Comes
<1>15. QED
  BY <1>1, <1>6, <1>10, <1>14 DEF OrderInv

LEMMA OrderOfPlaces ==
    ASSUME OrderInv, FillInv, ScriptInv, NEW t \in Threads, AllocateMessage(t) \/ PushMessage(t)
    PROVE  OrderInv'
<1>1. delivered' = delivered /\ All' = All
  BY DEF AllocateMessage, PushMessage, loopVars, All
<1>2. PICK f \in [1 .. Len(All) -> Int] : Comes(f)
  BY DEF OrderInv
<1>3. f \in [1 .. Len(All') -> Int] /\ delivered' \in Seq(AnyMessage)
  BY <1>1, <1>2 DEF OrderInv
<1>4. Len(qSent) \in Nat
  BY DEF FillInv
<1>5. CASE AllocateMessage(t)
  <2>1. Step(t).message \in AnyMessage
    BY <1>5, StepOf DEF AllocateMessage
  <2>2. /\ Len(qSent') = Len(qSent) + 1
        /\ \A k \in 1 .. Len(qSent) : qSent'[k] = qSent[k]
    BY <1>5, <2>1 DEF AllocateMessage, FillInv
  <2>3. PICK k \in Len(qSent) .. (Len(qSent') - 1) :
           qFilling' = [qFilling EXCEPT ![t] = k] /\ qReady' = qReady
    BY <1>5 DEF AllocateMessage, Q!Allocate
  <2>4. k = Len(qSent) /\ k # None
    BY <1>4, <2>2, <2>3 DEF None
  <2>5. /\ qFilling'[t] = k
        /\ \A u \in Threads \ {t} : qFilling'[u] = qFilling[u]
        /\ \A u \in Threads : qFilling[u] # k
        /\ k \notin qReady
    BY <1>4, <2>3, <2>4 DEF FillInv, Tickets
  <2>6. \A n \in Q!Queued' : n \in Q!Queued \/ (n \in Int /\ n >= Len(qSent))
    BY <1>4, <2>3, <2>4, <2>5 DEF Q!Queued
  <2>7. Comes(f)'
    BY <1>1, <1>2, <1>4, <2>2, <2>6, ComesKept
  <2>8. \A u \in Threads : qFilling'[u] # None => qFilling'[u] \notin qReady'
    BY <2>3, <2>5 DEF OrderInv
  <2>9. \A u, v \in Threads : qFilling'[u] # None /\ qFilling'[u] = qFilling'[v] => u = v
    BY <2>5 DEF OrderInv
  <2>10. QED
    BY <1>3, <2>7, <2>8, <2>9 DEF OrderInv
<1>6. CASE PushMessage(t)
  <2>1. /\ qSent' = qSent /\ qFilling[t] # None
        /\ qReady' = qReady \cup {qFilling[t]}
        /\ qFilling' = [qFilling EXCEPT ![t] = None]
    BY <1>6 DEF PushMessage, Q!Push
  <2>2. qFilling'[t] = None /\ \A u \in Threads \ {t} : qFilling'[u] = qFilling[u]
    BY <2>1 DEF FillInv
  <2>3. \A n \in Q!Queued' : n \in Q!Queued
    BY <2>1, <2>2 DEF Q!Queued
  <2>4. Comes(f)'
    BY <1>1, <1>2, <1>4, <2>1, <2>3, ComesKept
  <2>5. \A u \in Threads : qFilling'[u] # None => qFilling'[u] \notin qReady'
    BY <2>1, <2>2 DEF OrderInv
  <2>6. \A u, v \in Threads : qFilling'[u] # None /\ qFilling'[u] = qFilling'[v] => u = v
    BY <2>2 DEF OrderInv
  <2>7. QED
    BY <1>3, <2>4, <2>5, <2>6 DEF OrderInv
<1>7. QED
  BY <1>5, <1>6

LEMMA OrderStep ==
    ScriptInv /\ FillInv /\ LoopInv /\ PlanInv /\ OrderInv /\ [Next]_vars => OrderInv'
<1> SUFFICES ASSUME ScriptInv, FillInv, LoopInv, PlanInv, OrderInv, [Next]_vars
             PROVE  OrderInv'
  OBVIOUS
<1>1. delivered \in Seq(AnyMessage) /\ argv \in Seq(AnyMessage)
  BY DEF OrderInv, LoopInv
<1>2. ASSUME NEW t \in Threads, AllocateMessage(t) \/ PushMessage(t)
      PROVE  OrderInv'
  BY <1>2, OrderOfPlaces
<1>3. ASSUME NEW t \in Threads,
             (\E c \in Calls : Begin(t, c)) \/ AllocateUrgent(t) \/ QueueOverflow(t) \/ BadData(t)
                \/ PushUrgent(t) \/ Count(t) \/ Reset(t) \/ Send(t)
      PROVE  OrderInv'
  <2>1. UNCHANGED <<qSent, qFilling, qReady, delivered, argv>>
    BY <1>3 DEF Begin, AllocateUrgent, QueueOverflow, BadData, PushUrgent, Count, Reset, Send,
       qVars, loopVars
  <2>2. QED
    BY <1>1, <2>1, OrderKept DEF All
<1>4. CASE PopUrgent
  BY <1>4, OrderOfUrgent
<1>5. CASE PopMessage
  BY <1>5, OrderOfMessages
<1>6. CASE CallBack
  <2>1. UNCHANGED <<qSent, qFilling, qReady>> /\ delivered' = All /\ argv' = <<>>
    BY <1>6 DEF CallBack, qVars, All
  <2>2. All \in Seq(AnyMessage)
    BY <1>1, AllIsSeq
  <2>3. All' = All \o <<>>
    BY <2>1 DEF All
  <2>4. All' = All
    BY <2>2, <2>3, ConcatEmptySeq
  <2>5. QED
    BY <2>1, <2>2, <2>4, OrderKept
<1>7. CASE \/ Wake \/ ReleaseUrgent \/ NoMoreUrgent \/ ReleaseMessage \/ NoMoreMessages
           \/ ResetAgain \/ SendAgain \/ Done \/ UNCHANGED vars
  <2>1. UNCHANGED <<qSent, qFilling, qReady, delivered, argv>>
    BY <1>7 DEF Wake, ReleaseUrgent, NoMoreUrgent, ReleaseMessage, NoMoreMessages, ResetAgain,
       SendAgain, Done, vars, qVars, loopVars, Q!Release
  <2>2. QED
    BY <1>1, <2>1, OrderKept DEF All
<1>8. QED
  BY <1>2, <1>3, <1>4, <1>5, <1>6, <1>7 DEF Next, Handle, executeCallback

LEMMA OrderAtFirst == Init => OrderInv
<1> SUFFICES ASSUME Init
             PROVE  OrderInv
  OBVIOUS
<1>1. delivered = <<>> /\ argv = <<>> /\ qFilling = [t \in Threads |-> None]
  BY DEF Init, Q!Init
<1>2. All = <<>> /\ Len(All) = 0
  BY <1>1 DEF All
<1>3. \A f : Comes(f)
  BY <1>2 DEF Comes
<1>4. \E f \in [1 .. Len(All) -> Int] : Comes(f)
  <2>1. [i \in 1 .. Len(All) |-> 0] \in [1 .. Len(All) -> Int]
    OBVIOUS
  <2>2. QED
    BY <1>3, <2>1
<1>5. delivered \in Seq(AnyMessage)
  BY <1>1
<1>6. \A t \in Threads : qFilling[t] = None
  BY <1>1
<1>7. \A t, u \in Threads : qFilling[t] # None /\ qFilling[t] = qFilling[u] => t = u
  BY <1>6
<1>8. QED
  BY <1>4, <1>5, <1>6, <1>7 DEF OrderInv

LEMMA OrderImplies == LoopInv /\ PlanInv /\ OrderInv => EndIsLast
<1> SUFFICES ASSUME LoopInv, PlanInv, OrderInv,
                    NEW i \in 1 .. Len(delivered), NEW j \in 1 .. Len(delivered), i < j,
                    delivered[i].call = delivered[j].call,
                    {delivered[i], delivered[j]} \cap UrgentSet = {}
             PROVE  delivered[i].number < delivered[j].number /\ ~delivered[i].end
  BY DEF EndIsLast
<1>1. PICK f \in [1 .. Len(All) -> Int] : Comes(f)
  BY DEF OrderInv
<1>2. /\ i \in 1 .. Len(All) /\ All[i] = delivered[i]
      /\ j \in 1 .. Len(All) /\ All[j] = delivered[j]
  <2>1. /\ Len(All) = Len(delivered) + Len(argv)
        /\ Len(delivered) \in Nat /\ Len(argv) \in Nat
        /\ \A k \in 1 .. Len(delivered) : All[k] = delivered[k]
    BY AllIsSeq DEF OrderInv
  <2>2. 1 .. Len(delivered) \subseteq 1 .. Len(All)
    BY ONLY <2>1
  <2>3. QED
    BY <2>1, <2>2
<1>3. Ordinarily(i) /\ Ordinarily(j)
  BY <1>2 DEF Ordinarily
<1>4. /\ f[i] \in 1 .. Len(qSent) /\ delivered[i] = qSent[f[i]]
      /\ f[j] \in 1 .. Len(qSent) /\ delivered[j] = qSent[f[j]]
      /\ f[i] < f[j]
  BY <1>1, <1>2, <1>3 DEF Comes
<1>5. QED
  BY <1>4 DEF PlanInv

(* The records of a response reach the callback once and in order, and the *)
(* end comes last, however the handlers of several responses fill q.       *)
THEOREM EndComesLast == Spec => []EndIsLast
BY Initially, ScriptStep, FillStep, LoopStep, PlanAtFirst, PlanStep, OrderAtFirst, OrderStep,
   OrderImplies, PTL DEF Spec

-----------------------------------------------------------------------------
(* What Rest and SubSeq leave of a sequence.                               *)
LEMMA PartOf ==
    ASSUME NEW S, NEW s \in Seq(S), NEW k \in Nat, NEW n \in Nat, k <= n, n <= Len(s)
    PROVE  /\ SubSeq(s, k + 1, n) \in Seq(S) /\ Len(SubSeq(s, k + 1, n)) = n - k
           /\ \A i \in 1 .. n - k : SubSeq(s, k + 1, n)[i] = s[k + i]
<1> DEFINE m == k + 1
<1>1. m \in Int /\ n \in Int /\ \A i \in m .. n : s[i] \in S
  <2>1. Len(s) \in Nat /\ \A i \in 1 .. Len(s) : s[i] \in S
    BY ElementOfSeq, LenProperties
  <2>2. QED
    BY <2>1
<1>2. /\ SubSeq(s, m, n) \in Seq(S)
      /\ Len(SubSeq(s, m, n)) = IF m <= n THEN n - m + 1 ELSE 0
      /\ \A i \in 1 .. n - m + 1 : SubSeq(s, m, n)[i] = s[m + i - 1]
  <2> HIDE DEF m
  <2>1. QED
    BY <1>1, SubSeqProperties
<1>3. n - m + 1 = n - k /\ \A i \in 1 .. n - k : m + i - 1 = k + i
  OBVIOUS
<1>4. (IF m <= n THEN n - m + 1 ELSE 0) = n - k
  OBVIOUS
<1>5. QED
  BY <1>2, <1>3, <1>4

LEMMA RestOf ==
    ASSUME NEW S, NEW s \in Seq(S), NEW k \in Nat, k <= Len(s)
    PROVE  /\ Rest(s, k) \in Seq(S) /\ Len(Rest(s, k)) = Len(s) - k
           /\ \A i \in 1 .. Len(s) - k : Rest(s, k)[i] = s[k + i]
BY PartOf, LenProperties DEF Rest

LEMMA RestGrows ==
    ASSUME NEW S, NEW s \in Seq(S), NEW m \in S, NEW k \in Nat, k <= Len(s)
    PROVE  Rest(Append(s, m), k) = Append(Rest(s, k), m)
<1> DEFINE e == Append(s, m)
           l == Rest(e, k)
           r == Append(Rest(s, k), m)
<1>1. /\ e \in Seq(S) /\ Len(e) = Len(s) + 1 /\ Len(s) \in Nat
      /\ \A i \in 1 .. Len(s) : e[i] = s[i]
      /\ e[Len(s) + 1] = m
  BY AppendProperties, LenProperties
<1> HIDE DEF e
<1>2. /\ l \in Seq(S) /\ Len(l) = Len(s) + 1 - k
      /\ \A i \in 1 .. Len(s) + 1 - k : l[i] = e[k + i]
  <2>1. e \in Seq(S) /\ k <= Len(e)
    BY <1>1
  <2>2. /\ l \in Seq(S) /\ Len(l) = Len(e) - k
        /\ \A i \in 1 .. Len(e) - k : l[i] = e[k + i]
    BY <2>1, RestOf
  <2>3. QED
    BY <1>1, <2>2
<1>3. /\ Rest(s, k) \in Seq(S) /\ Len(Rest(s, k)) = Len(s) - k
      /\ \A i \in 1 .. Len(s) - k : Rest(s, k)[i] = s[k + i]
  BY RestOf
<1>4. /\ r \in Seq(S) /\ Len(r) = Len(s) - k + 1
      /\ \A i \in 1 .. Len(s) - k : r[i] = s[k + i]
      /\ r[Len(s) - k + 1] = m
  BY <1>3, AppendProperties
<1> HIDE DEF l, r
<1>5. ASSUME NEW i \in 1 .. Len(l)
      PROVE  l[i] = r[i]
  <2>1. CASE i \in 1 .. Len(s) - k
    <3>1. k + i \in 1 .. Len(s) /\ i \in 1 .. Len(s) + 1 - k
      BY <1>1, <2>1
    <3>2. QED
      BY <1>1, <1>2, <1>4, <2>1, <3>1
  <2>2. CASE i = Len(s) - k + 1
    <3>1. k + i = Len(s) + 1 /\ i \in 1 .. Len(s) + 1 - k
      BY <1>1, <2>2
    <3>2. QED
      BY <1>1, <1>2, <1>4, <2>2, <3>1
  <2>3. QED
    BY <1>1, <1>2, <2>1, <2>2
<1>6. Len(l) = Len(r)
  BY <1>1, <1>2, <1>4
<1>7. QED
  BY <1>2, <1>4, <1>5, <1>6, SeqEqual DEF e, l, r

(* A part of what is left, and what is left after that.                    *)
LEMMA RestOfRest ==
    ASSUME NEW S, NEW s \in Seq(S), NEW k \in Nat, NEW a \in Nat, k + a <= Len(s)
    PROVE  /\ Rest(s, k + a) = SubSeq(Rest(s, k), a + 1, Len(Rest(s, k)))
           /\ SubSeq(Rest(s, k), 1, a) \in Seq(S) /\ Len(SubSeq(Rest(s, k), 1, a)) = a
           /\ \A i \in 1 .. a : SubSeq(Rest(s, k), 1, a)[i] = s[k + i]
<1> DEFINE r == Rest(s, k)
           n == Len(s) - k
           l == Rest(s, k + a)
           t == SubSeq(r, a + 1, n)
<1>1. Len(s) \in Nat /\ n \in Nat /\ a <= n /\ k + a \in Nat /\ k <= Len(s)
      /\ Len(s) - (k + a) = n - a
  BY LenProperties
<1>2. r \in Seq(S) /\ Len(r) = n /\ \A i \in 1 .. n : r[i] = s[k + i]
  BY <1>1, RestOf
<1>3. /\ l \in Seq(S) /\ Len(l) = n - a
      /\ \A i \in 1 .. n - a : l[i] = s[k + a + i]
  <2> DEFINE c == k + a
  <2>1. c \in Nat /\ c <= Len(s)
    BY <1>1
  <2> HIDE DEF c
  <2>2. /\ Rest(s, c) \in Seq(S) /\ Len(Rest(s, c)) = Len(s) - c
        /\ \A i \in 1 .. Len(s) - c : Rest(s, c)[i] = s[c + i]
    BY <2>1, RestOf
  <2>3. QED
    BY <1>1, <2>2 DEF c
<1> HIDE DEF r, n, l
<1>4. /\ t \in Seq(S) /\ Len(t) = n - a
      /\ \A i \in 1 .. n - a : t[i] = r[a + i]
  BY <1>1, <1>2, PartOf
<1>5. \A i \in 1 .. n - a : a + i \in 1 .. n /\ k + a + i = k + (a + i)
  BY <1>1
<1>6. \A i \in 1 .. Len(l) : l[i] = t[i]
  <2> SUFFICES ASSUME NEW i \in 1 .. n - a
               PROVE  l[i] = t[i]
    BY <1>3
  <2>1. l[i] = s[k + a + i] /\ t[i] = r[a + i]
    BY <1>3, <1>4
  <2>2. r[a + i] = s[k + (a + i)]
    BY <1>2, <1>5
  <2>3. QED
    BY <1>5, <2>1, <2>2
<1>7. l = t
  BY <1>3, <1>4, <1>6, SeqEqual
<1>8. /\ SubSeq(r, 0 + 1, a) \in Seq(S) /\ Len(SubSeq(r, 0 + 1, a)) = a - 0
      /\ \A i \in 1 .. a - 0 : SubSeq(r, 0 + 1, a)[i] = r[0 + i]
  <2>1. 0 \in Nat /\ 0 <= a /\ a <= Len(r)
    BY <1>1, <1>2
  <2>2. QED
    BY <1>2, <2>1, PartOf
<1>9. 0 + 1 = 1 /\ a - 0 = a /\ \A i \in 1 .. a : 0 + i = i /\ i \in 1 .. n
  BY <1>1
<1>10. QED
  BY <1>2, <1>7, <1>8, <1>9 DEF r, n, l

(* The urgent messages among those that are delivered.                     *)
LEMMA UrgentCounted ==
    ASSUME NEW d \in Seq(AnyMessage)
    PROVE  IsFiniteSet({i \in DOMAIN d : d[i].type \in {"success", "error"}}) /\ UrgentIn(d) \in Nat
<1>1. DOMAIN d = 1 .. Len(d) /\ Len(d) \in Nat
  BY LenProperties
<1>2. IsFiniteSet(1 .. Len(d))
  BY <1>1, FS_Interval
<1>3. IsFiniteSet({i \in DOMAIN d : d[i].type \in {"success", "error"}})
  BY <1>1, <1>2, FS_Subset
<1>4. QED
  BY <1>3, FS_CardinalityType DEF UrgentIn

LEMMA UrgentFirst ==
    ASSUME NEW d \in Seq(AnyMessage), NEW g \in Seq(AnyMessage), NEW a \in Nat, a <= Len(g),
           \A i \in 1 .. Len(g) : g[i].type \in {"success", "error"} <=> i <= a
    PROVE  UrgentIn(d \o g) = UrgentIn(d) + a
<1> DEFINE n == Len(d)
           e == d \o g
           D1 == {i \in DOMAIN d : d[i].type \in {"success", "error"}}
           E1 == {i \in DOMAIN e : e[i].type \in {"success", "error"}}
           G1 == n + 1 .. n + a
<1>1. /\ n \in Nat /\ Len(g) \in Nat /\ DOMAIN d = 1 .. n /\ DOMAIN e = 1 .. n + Len(g)
      /\ \A i \in 1 .. n : e[i] = d[i]
      /\ \A i \in n + 1 .. n + Len(g) : e[i] = g[i - n]
  BY ConcatProperties, LenProperties
<1> HIDE DEF n, e
<1>2. E1 = D1 \cup G1
  <2>1. ASSUME NEW i \in 1 .. n
        PROVE  i \in E1 <=> i \in D1 \cup G1
    <3>1. i \in DOMAIN d /\ i \in DOMAIN e /\ i \notin G1
      BY <1>1
    <3>2. QED
      BY <1>1, <3>1
  <2>2. ASSUME NEW i \in n + 1 .. n + Len(g)
        PROVE  i \in E1 <=> i \in D1 \cup G1
    <3>1. i \notin DOMAIN d /\ i \in DOMAIN e /\ i - n \in 1 .. Len(g)
          /\ (i - n <= a <=> i \in G1)
      BY <1>1
    <3>2. QED
      BY <1>1, <3>1
  <2>3. \A i \in E1 \cup D1 \cup G1 : i \in 1 .. n \/ i \in n + 1 .. n + Len(g)
    BY <1>1
  <2>4. QED
    BY <2>1, <2>2, <2>3
<1>3. D1 \cap G1 = {}
  BY <1>1
<1>4. IsFiniteSet(D1) /\ UrgentIn(d) \in Nat
  BY UrgentCounted
<1>5. IsFiniteSet(G1) /\ Cardinality(G1) = a
  <2> DEFINE lo == n + 1
             hi == n + a
  <2>1. lo \in Int /\ hi \in Int /\ G1 = lo .. hi
    BY <1>1
  <2>2. (IF lo > hi THEN 0 ELSE hi - lo + 1) = a
    BY <1>1
  <2> HIDE DEF lo, hi, G1
  <2>3. IsFiniteSet(lo .. hi) /\ Cardinality(lo .. hi) = IF lo > hi THEN 0 ELSE hi - lo + 1
    BY <2>1, FS_Interval
  <2>4. QED
    BY <2>1, <2>2, <2>3
<1>6. Cardinality(D1 \cap G1) = 0
  BY <1>3, FS_EmptySet
<1> HIDE DEF D1, E1, G1
<1>7. Cardinality(E1) = Cardinality(D1) + Cardinality(G1) - Cardinality(D1 \cap G1)
  BY <1>2, <1>4, <1>5, FS_Union
<1>8. UrgentIn(d) = Cardinality(D1) /\ UrgentIn(e) = Cardinality(E1)
  BY DEF UrgentIn, D1, E1
<1>9. UrgentIn(e) = UrgentIn(d) + a
  BY <1>4, <1>5, <1>6, <1>7, <1>8
<1>10. QED
  BY <1>9 DEF e

-----------------------------------------------------------------------------
(* A queue holds the tickets from the next to pop to the next to give out, *)
(* each once.                                                              *)
InQueue(filling, ready) == ready \cup ({filling[t] : t \in Threads} \ {None})
Holds(filling, ready, first, next) ==
    /\ filling \in [Threads -> Int]
    /\ \A k \in InQueue(filling, ready) : k \in Int /\ first <= k /\ k < next
    /\ \A k \in first .. next - 1 : k \in InQueue(filling, ready)
    /\ \A t \in Threads : filling[t] # None => filling[t] \notin ready
    /\ \A t, u \in Threads : filling[t] # None /\ filling[t] = filling[u] => t = u

LEMMA HoldsOneMore ==
    ASSUME NEW f, NEW r, NEW a \in Nat, NEW n \in Nat, a <= n, Holds(f, r, a, n),
           NEW t \in Threads, f[t] = None
    PROVE  Holds([f EXCEPT ![t] = n], r, a, n + 1)
<1> DEFINE g == [f EXCEPT ![t] = n]
<1>1. /\ g \in [Threads -> Int] /\ g[t] = n /\ \A u \in Threads \ {t} : g[u] = f[u]
      /\ n # None /\ n - 1 + 1 = n
  BY DEF Holds, None
<1> HIDE DEF g
<1>2. InQueue(g, r) = InQueue(f, r) \cup {n}
  BY <1>1 DEF InQueue
<1>3. n \notin InQueue(f, r)
  BY DEF Holds
<1>4. \A u \in Threads : f[u] # n
  BY <1>1, <1>3 DEF InQueue
<1>5. n \notin r
  BY <1>3 DEF InQueue
<1>6. \A k \in InQueue(g, r) : k \in Int /\ a <= k /\ k < n + 1
  BY <1>2 DEF Holds
<1>7. \A k \in a .. n : k \in InQueue(g, r)
  BY <1>2 DEF Holds
<1>8. \A k \in a .. n + 1 - 1 : k \in InQueue(g, r)
  BY <1>7
<1>9. \A u \in Threads : g[u] # None => g[u] \notin r
  BY <1>1, <1>5 DEF Holds
<1>10. \A u, v \in Threads : g[u] # None /\ g[u] = g[v] => u = v
  BY <1>1, <1>4 DEF Holds
<1>11. Holds(g, r, a, n + 1)
  BY <1>1, <1>6, <1>8, <1>9, <1>10 DEF Holds
<1>12. QED
  BY <1>11 DEF g

LEMMA HoldsPushed ==
    ASSUME NEW f, NEW r, NEW a \in Nat, NEW n \in Nat, Holds(f, r, a, n),
           NEW t \in Threads, f[t] # None
    PROVE  Holds([f EXCEPT ![t] = None], r \cup {f[t]}, a, n)
<1> DEFINE g == [f EXCEPT ![t] = None]
           q == r \cup {f[t]}
<1>1. /\ g \in [Threads -> Int] /\ g[t] = None /\ \A u \in Threads \ {t} : g[u] = f[u]
  BY DEF Holds, None
<1> HIDE DEF g
<1>2. InQueue(g, q) = InQueue(f, r)
  BY <1>1 DEF InQueue
<1>3. \A u \in Threads : g[u] # None => g[u] \notin q
  BY <1>1 DEF Holds
<1>4. \A u, v \in Threads : g[u] # None /\ g[u] = g[v] => u = v
  BY <1>1 DEF Holds
<1>5. QED
  BY <1>1, <1>2, <1>3, <1>4 DEF Holds, g

LEMMA HoldsPopped ==
    ASSUME NEW f, NEW r, NEW a \in Nat, NEW n \in Nat, a <= n, Holds(f, r, a, n),
           NEW m \in r, \A k \in InQueue(f, r) : m <= k
    PROVE  m = a /\ a < n /\ Holds(f, r \ {m}, a + 1, n)
<1>1. m \in InQueue(f, r) /\ m \in Int /\ a <= m /\ m < n
  BY DEF Holds, InQueue
<1>2. a \in a .. n - 1
  BY <1>1
<1>3. m <= a
  BY <1>2 DEF Holds
<1>4. m = a
  BY <1>1, <1>3
<1>5. \A t \in Threads : f[t] # None => f[t] # m
  BY DEF Holds
<1>6. InQueue(f, r \ {m}) = InQueue(f, r) \ {m}
  BY <1>5 DEF InQueue
<1>7. \A k \in InQueue(f, r \ {m}) : k \in Int /\ a + 1 <= k /\ k < n
  BY <1>4, <1>6 DEF Holds
<1>8. \A k \in a + 1 .. n - 1 : k \in InQueue(f, r \ {m})
  BY <1>4, <1>6 DEF Holds
<1>9. QED
  BY <1>1, <1>4, <1>7, <1>8 DEF Holds

-----------------------------------------------------------------------------
(* What handlers post into q are messages, none of them urgent.            *)
Plain(s) == \A i \in 1 .. Len(s) : s[i].queue = "q" => s[i].message \in Messages \ UrgentSet
PlainInv == \A t \in Threads : pc[t] # "idle" => Plain(script[t])

LEMMA PlainMessage ==
    ASSUME NEW c \in Calls, NEW type \in {"notice", "item", "complete"},
           NEW i \in 0 .. MaxRecords + 2, NEW e \in BOOLEAN, NEW b \in BOOLEAN
    PROVE  pushMessage(Message(c, type, i, e), b).message \in Messages \ UrgentSet
BY DEF pushMessage, Message, Messages, UrgentSet

LEMMA PlainOne ==
    ASSUME NEW f, f.queue = "q" => f.message \in Messages \ UrgentSet
    PROVE  Plain(<<f>>)
BY DEF Plain

LEMMA PlainAppend ==
    ASSUME NEW S, NEW s \in Seq(S), Plain(s), NEW f \in S,
           f.queue = "q" => f.message \in Messages \ UrgentSet
    PROVE  Plain(Append(s, f))
<1> DEFINE a == Append(s, f)
<1>1. /\ Len(a) = Len(s) + 1 /\ Len(s) \in Nat /\ a[Len(s) + 1] = f
      /\ \A i \in 1 .. Len(s) : a[i] = s[i]
  BY AppendProperties, LenProperties
<1> HIDE DEF a
<1>2. \A i \in 1 .. Len(a) : i \in 1 .. Len(s) \/ i = Len(s) + 1
  BY <1>1
<1>3. Plain(a)
  BY <1>1, <1>2 DEF Plain
<1>4. QED
  BY <1>3 DEF a

LEMMA PlainTail ==
    ASSUME NEW S, NEW s \in Seq(S), s # <<>>, Plain(s)
    PROVE  Plain(Tail(s))
<1> DEFINE r == Tail(s)
<1>1. /\ Len(r) = Len(s) - 1 /\ Len(s) \in Nat
      /\ \A i \in 1 .. Len(r) : r[i] = s[i + 1]
  BY HeadTailProperties, LenProperties
<1> HIDE DEF r
<1>2. \A i \in 1 .. Len(r) : i + 1 \in 1 .. Len(s)
  BY <1>1
<1>3. Plain(r)
  BY <1>1, <1>2 DEF Plain
<1>4. QED
  BY <1>3 DEF r

LEMMA HandlerIsPlain ==
    ASSUME NEW c \in Calls, NEW s \in Handler(c)
    PROVE  Plain(s)
<1> DEFINE Number == 0 .. MaxRecords + 2
<1>1. Plain(Notice(c))
  <2> DEFINE f == pushMessage(Message(c, "notice", 1, TRUE), TRUE)
  <2>1. 1 \in Number /\ "notice" \in {"notice", "item", "complete"} /\ TRUE \in BOOLEAN
    BY NumberAssumption
  <2>2. f.message \in Messages \ UrgentSet
    BY <2>1, PlainMessage, Zenon
  <2> HIDE DEF f
  <2>3. QED
    BY <2>2, PlainOne DEF Notice, f
<1>2. /\ Plain(<<pushError(c)>>) /\ triggerCallback(c).queue # "q"
      /\ \A n : pushSuccess(c, n).queue # "q"
  BY PlainOne DEF pushError, triggerCallback, pushSuccess
<1>3. ASSUME NEW n \in 0 .. MaxRecords
      PROVE  Items(c, n) \in Seq(Step_s) /\ Plain(Items(c, n))
  <2>1. n \in Nat
    BY NumberAssumption
  <2>2. Items(c, n) \in Seq(Step_s)
    BY <2>1, ItemsType
  <2>3. Len(Items(c, n)) = n
    BY <2>1 DEF Items
  <2>4. ASSUME NEW i \in 1 .. n
        PROVE  Items(c, n)[i].message \in Messages \ UrgentSet
    <3>1. /\ i \in Number /\ "item" \in {"notice", "item", "complete"}
          /\ IsLast(i, n) \in BOOLEAN /\ FALSE \in BOOLEAN
      BY NumberAssumption DEF IsLast
    <3>2. pushMessage(Message(c, "item", i, IsLast(i, n)), FALSE).message \in Messages \ UrgentSet
      BY <3>1, PlainMessage, Zenon
    <3>3. Items(c, n)[i] = pushMessage(Message(c, "item", i, IsLast(i, n)), FALSE)
      BY DEF Items
    <3>4. QED
      BY <3>2, <3>3
  <2>5. QED
    BY <2>2, <2>3, <2>4 DEF Plain
<1>4. ASSUME NEW n \in 0 .. MaxRecords
      PROVE  barMessages(c, n) \in Seq(Step_s) /\ Plain(barMessages(c, n))
  <2>1. n \in Nat /\ n + 2 \in Nat
    BY NumberAssumption
  <2>2. barMessages(c, n) \in Seq(Step_s)
    BY <2>1, ItemsType
  <2>3. Len(barMessages(c, n)) = n + 2
    BY <2>1 DEF barMessages
  <2>4. ASSUME NEW i \in 1 .. n + 2
        PROVE  barMessages(c, n)[i].message \in Messages \ UrgentSet
    <3> DEFINE type == IF i = n + 2 THEN "complete" ELSE "item"
               last == (i = n + 2)
    <3>1. /\ i \in Number /\ type \in {"notice", "item", "complete"}
          /\ last \in BOOLEAN /\ FALSE \in BOOLEAN
      BY NumberAssumption
    <3>2. barMessages(c, n)[i] = pushMessage(Message(c, type, i, last), FALSE)
      BY DEF barMessages
    <3> HIDE DEF type, last
    <3>3. pushMessage(Message(c, type, i, last), FALSE).message \in Messages \ UrgentSet
      BY <3>1, PlainMessage, Zenon
    <3>4. QED
      BY <3>2, <3>3
  <2>5. QED
    BY <2>2, <2>3, <2>4 DEF Plain
<1>5. /\ triggerCallback(c) \in Step_s
      /\ \A n \in 0 .. MaxRecords : pushSuccess(c, n) \in Step_s
  <2>1. 0 \in Int /\ \A n \in 0 .. MaxRecords : n \in Int
    OBVIOUS
  <2>2. QED
    BY <2>1, FinalIsStep
<1>6. Plain(<<pushMessage(Message(c, "item", 0, TRUE), FALSE), triggerCallback(c)>>)
  <2> DEFINE f == pushMessage(Message(c, "item", 0, TRUE), FALSE)
             g == triggerCallback(c)
  <2>1. /\ 0 \in Number /\ 0 \in Int /\ "item" \in {"notice", "item", "complete"}
        /\ TRUE \in BOOLEAN /\ FALSE \in BOOLEAN
    BY NumberAssumption
  <2>2. f.message \in Messages \ UrgentSet
    BY <2>1, PlainMessage, Zenon
  <2>3. f \in Step_s
    BY <2>1, PostIsStep, Zenon
  <2> HIDE DEF f
  <2>4. Plain(<<f>>) /\ <<f>> \in Seq(Step_s)
    BY <2>2, <2>3, PlainOne
  <2>5. Plain(Append(<<f>>, g))
    BY <1>2, <1>5, <2>4, PlainAppend
  <2>6. g \in Step_s
    BY <1>5
  <2> HIDE DEF g
  <2>7. <<f>> \in Seq(Step_s) /\ <<f, g>> = Append(<<f>>, g)
    BY <2>3, <2>6
  <2>8. QED
    BY <2>5, <2>7 DEF f, g
<1>7. ASSUME NEW n \in 0 .. MaxRecords
      PROVE  /\ Plain(onQuoteStreamResponse(c, n)) /\ Plain(onBarHistoryResponse(c, n))
             /\ Plain(onHolidaysResponse(c, n)) /\ Plain(onTickHistoryResponse(c, n))
  <2>1. Plain(Append(Items(c, n), triggerCallback(c)))
    BY <1>2, <1>3, <1>5, PlainAppend
  <2>2. Plain(Append(Items(c, n), pushSuccess(c, n)))
    BY <1>2, <1>3, <1>5, PlainAppend
  <2>3. Plain(Append(barMessages(c, n), triggerCallback(c)))
    BY <1>2, <1>4, <1>5, PlainAppend
  <2>4. QED
    BY <1>6, <2>1, <2>2, <2>3, Zenon
       DEF onQuoteStreamResponse, onBarHistoryResponse, onHolidaysResponse, onTickHistoryResponse
<1>8. 1 .. MaxRecords \subseteq 0 .. MaxRecords
  BY NumberAssumption
<1>9. QED
  BY <1>1, <1>2, <1>7, <1>8 DEF Handler, Calls

LEMMA PlainProceed ==
    ASSUME ScriptInv, PlainInv, NEW t \in Threads, NEW s, Proceed(t, s), Plain(s)
    PROVE  PlainInv'
<1>1. /\ script'[t] = s
      /\ \A u \in Threads \ {t} : script'[u] = script[u] /\ pc'[u] = pc[u]
  BY DEF Proceed, ScriptInv
<1>2. QED
  BY <1>1 DEF PlainInv

LEMMA PlainStep == ScriptInv /\ PlainInv /\ [Next]_vars => PlainInv'
<1> SUFFICES ASSUME ScriptInv, PlainInv, [Next]_vars
             PROVE  PlainInv'
  OBVIOUS
<1>1. ASSUME NEW t \in Threads, NEW c \in Calls, Begin(t, c)
      PROVE  PlainInv'
  BY <1>1, HandlerIsPlain, PlainProceed DEF Begin
<1>2. ASSUME NEW t \in Threads, pc[t] # "idle", NEW label, Goto(t, label)
      PROVE  PlainInv'
  <2>1. script' = script /\ \A u \in Threads \ {t} : pc'[u] = pc[u]
    BY <1>2 DEF Goto, ScriptInv
  <2>2. QED
    BY <1>2, <2>1 DEF PlainInv
<1>3. ASSUME NEW t \in Threads, pc[t] # "idle", Proceed(t, Tail(script[t]))
      PROVE  PlainInv'
  <2>1. script[t] \in Seq(Step_s) /\ script[t] # <<>> /\ Plain(script[t])
    BY <1>3 DEF ScriptInv, Triggers, PlainInv
  <2>2. Plain(Tail(script[t]))
    BY <2>1, PlainTail
  <2>3. QED
    BY <1>3, <2>2, PlainProceed
<1>4. ASSUME NEW t \in Threads, Throw(t)
      PROVE  PlainInv'
  <2>1. Plain(<<>>) /\ Plain(ErrorOnly(t))
    BY PlainOne DEF ErrorOnly, pushError, Plain
  <2>2. QED
    BY <1>4, <2>1, PlainProceed DEF Throw
<1>5. ASSUME NEW t \in Threads, Handle(t)
      PROVE  PlainInv'
  <2>1. CASE QueueOverflow(t) \/ BadData(t)
    BY <1>4, <2>1 DEF QueueOverflow, BadData
  <2>2. CASE AllocateMessage(t) \/ AllocateUrgent(t) \/ PushMessage(t) \/ PushUrgent(t) \/ Reset(t)
    BY <1>2, <2>2 DEF AllocateMessage, AllocateUrgent, PushMessage, PushUrgent, Reset
  <2>3. CASE Count(t) \/ Send(t)
    BY <1>2, <1>3, <2>3 DEF Count, Send
  <2>4. QED
    BY <1>5, <2>1, <2>2, <2>3 DEF Handle
<1>6. CASE executeCallback \/ Done \/ UNCHANGED vars
  <2>1. UNCHANGED <<pc, script>>
    BY <1>6 DEF executeCallback, Wake, PopUrgent, ReleaseUrgent, NoMoreUrgent, PopMessage,
       ReleaseMessage, NoMoreMessages, CallBack, ResetAgain, SendAgain, Done, vars, apiVars
  <2>2. QED
    BY <2>1 DEF PlainInv
<1>7. QED
  BY <1>1, <1>5, <1>6 DEF Next

-----------------------------------------------------------------------------
(* What the loop has taken: the first a of argv are the urgent messages    *)
(* that follow the delivered ones, the other b are the ordinary ones.      *)
toldUrgent == UrgentIn(delivered)
toldOthers == Len(delivered) - UrgentIn(delivered)

Taken(a, b) ==
    /\ toldUrgent \in Nat /\ toldOthers \in Nat
    /\ Len(argv) = a + b /\ a + b <= ArgvLength
    /\ toldUrgent + a <= Len(pSent) /\ toldOthers + b <= Len(qSent)
    /\ \A i \in 1 .. a : argv[i] = pSent[toldUrgent + i]
    /\ \A i \in 1 .. b : argv[a + i] = qSent[toldOthers + i]
    /\ loop = "priority" => b = 0

Queues(a, b) ==
    /\ Holds(pFilling, pReady, toldUrgent + a, Len(pSent))
    /\ Holds(qFilling, qReady, toldOthers + b, Len(qSent))

FlowInv ==
    /\ delivered \in Seq(AnyMessage)
    /\ \E a, b \in Nat : Taken(a, b) /\ Queues(a, b)
    /\ loop \in {"idle", "reset", "send"} => argv = <<>>
    /\ loop = "call" => argv # <<>>

(* Steps that touch neither the queues nor what is taken from them.        *)
LEMMA FlowKept ==
    ASSUME FlowInv, UNCHANGED <<qSent, qFilling, qReady, pSent, pFilling, pReady, argv, delivered>>,
           loop' = "priority" => loop = "priority" \/ argv = <<>>,
           loop' \in {"idle", "reset", "send"} => argv = <<>>,
           loop' = "call" => argv # <<>>
    PROVE  FlowInv'
<1>1. PICK a \in Nat, b \in Nat : Taken(a, b) /\ Queues(a, b)
  BY DEF FlowInv
<1>2. UNCHANGED <<toldUrgent, toldOthers>>
  BY DEF toldUrgent, toldOthers
<1>3. Queues(a, b)'
  BY <1>1, <1>2 DEF Queues
<1>4. loop' = "priority" => b = 0
  <2>1. argv = <<>> => a + b = 0
    BY <1>1 DEF Taken
  <2>2. QED
    BY <1>1, <2>1 DEF Taken
<1>5. Taken(a, b)'
  BY <1>1, <1>2, <1>4 DEF Taken
<1>6. QED
  BY <1>3, <1>5 DEF FlowInv

LEMMA FlowAllocate ==
    ASSUME FlowInv, ScriptInv, FillInv, NEW t \in Threads, AllocateMessage(t) \/ AllocateUrgent(t)
    PROVE  FlowInv'
<1>1. PICK a \in Nat, b \in Nat : Taken(a, b) /\ Queues(a, b)
  BY DEF FlowInv
<1>2. UNCHANGED <<argv, delivered, loop, toldUrgent, toldOthers>>
  BY DEF AllocateMessage, AllocateUrgent, loopVars, toldUrgent, toldOthers
<1>3. Step(t).message \in AnyMessage
  BY StepOf DEF AllocateMessage, AllocateUrgent
<1>4. CASE AllocateMessage(t)
  <2>1. /\ qSent' = Append(qSent, Step(t).message) /\ qFilling[t] = None
        /\ UNCHANGED <<pSent, pFilling, pReady, qReady>>
    BY <1>4 DEF AllocateMessage, Q!Allocate, pVars
  <2>2. /\ Len(qSent) \in Nat /\ Len(qSent') = Len(qSent) + 1
        /\ \A i \in 1 .. Len(qSent) : qSent'[i] = qSent[i]
    BY <1>3, <2>1, AppendProperties, LenProperties DEF FillInv
  <2>3. PICK k \in Len(qSent) .. (Len(qSent') - 1) : qFilling' = [qFilling EXCEPT ![t] = k]
    BY <1>4 DEF AllocateMessage, Q!Allocate
  <2>4. k = Len(qSent)
    BY <2>2, <2>3
  <2>5. /\ toldOthers + b \in Nat /\ toldOthers + b <= Len(qSent)
        /\ Holds(qFilling, qReady, toldOthers + b, Len(qSent))
    BY <1>1 DEF Taken, Queues
  <2>6. Holds([qFilling EXCEPT ![t] = Len(qSent)], qReady, toldOthers + b, Len(qSent) + 1)
    BY <2>1, <2>2, <2>5, HoldsOneMore
  <2>7. Queues(a, b)'
    BY <1>1, <1>2, <2>1, <2>2, <2>3, <2>4, <2>6 DEF Queues
  <2>8. \A i \in 1 .. b : toldOthers + i \in 1 .. Len(qSent)
    BY <1>1, <2>2 DEF Taken
  <2>9. toldOthers + b <= Len(qSent')
    BY <2>2, <2>5
  <2>10. Taken(a, b)'
    BY <1>1, <1>2, <2>1, <2>2, <2>8, <2>9 DEF Taken
  <2>11. QED
    BY <1>2, <2>7, <2>10 DEF FlowInv
<1>5. CASE AllocateUrgent(t)
  <2>1. /\ pSent' = Append(pSent, Step(t).message) /\ pFilling[t] = None
        /\ UNCHANGED <<qSent, qFilling, qReady, pReady>>
    BY <1>5 DEF AllocateUrgent, P!Allocate, qVars
  <2>2. /\ Len(pSent) \in Nat /\ Len(pSent') = Len(pSent) + 1
        /\ \A i \in 1 .. Len(pSent) : pSent'[i] = pSent[i]
    BY <1>3, <2>1, AppendProperties, LenProperties DEF FillInv
  <2>3. PICK k \in Len(pSent) .. (Len(pSent') - 1) : pFilling' = [pFilling EXCEPT ![t] = k]
    BY <1>5 DEF AllocateUrgent, P!Allocate
  <2>4. k = Len(pSent)
    BY <2>2, <2>3
  <2>5. /\ toldUrgent + a \in Nat /\ toldUrgent + a <= Len(pSent)
        /\ Holds(pFilling, pReady, toldUrgent + a, Len(pSent))
    BY <1>1 DEF Taken, Queues
  <2>6. Holds([pFilling EXCEPT ![t] = Len(pSent)], pReady, toldUrgent + a, Len(pSent) + 1)
    BY <2>1, <2>2, <2>5, HoldsOneMore
  <2>7. Queues(a, b)'
    BY <1>1, <1>2, <2>1, <2>2, <2>3, <2>4, <2>6 DEF Queues
  <2>8. \A i \in 1 .. a : toldUrgent + i \in 1 .. Len(pSent)
    BY <1>1, <2>2 DEF Taken
  <2>9. toldUrgent + a <= Len(pSent')
    BY <2>2, <2>5
  <2>10. Taken(a, b)'
    BY <1>1, <1>2, <2>1, <2>2, <2>8, <2>9 DEF Taken
  <2>11. QED
    BY <1>2, <2>7, <2>10 DEF FlowInv
<1>6. QED
  BY <1>4, <1>5

LEMMA FlowPush ==
    ASSUME FlowInv, FillInv, NEW t \in Threads, PushMessage(t) \/ PushUrgent(t)
    PROVE  FlowInv'
<1>1. PICK a \in Nat, b \in Nat : Taken(a, b) /\ Queues(a, b)
  BY DEF FlowInv
<1>2. UNCHANGED <<argv, delivered, loop, toldUrgent, toldOthers, pSent, qSent>>
  BY DEF PushMessage, PushUrgent, loopVars, toldUrgent, toldOthers, pVars, qVars
<1>3. Taken(a, b)'
  BY <1>1, <1>2 DEF Taken
<1>4. Len(pSent) \in Nat /\ Len(qSent) \in Nat /\ toldUrgent + a \in Nat /\ toldOthers + b \in Nat
  BY <1>1, LenProperties DEF FillInv, Taken
<1>5. CASE PushMessage(t)
  <2>1. /\ qFilling[t] # None /\ qReady' = qReady \cup {qFilling[t]}
        /\ qFilling' = [qFilling EXCEPT ![t] = None] /\ UNCHANGED <<pFilling, pReady>>
    BY <1>5 DEF PushMessage, Q!Push, pVars
  <2>2. Holds(qFilling', qReady', toldOthers + b, Len(qSent))
    BY <1>1, <1>4, <2>1, HoldsPushed DEF Queues
  <2>3. Queues(a, b)'
    BY <1>1, <1>2, <2>1, <2>2 DEF Queues
  <2>4. QED
    BY <1>2, <1>3, <2>3 DEF FlowInv
<1>6. CASE PushUrgent(t)
  <2>1. /\ pFilling[t] # None /\ pReady' = pReady \cup {pFilling[t]}
        /\ pFilling' = [pFilling EXCEPT ![t] = None] /\ UNCHANGED <<qFilling, qReady>>
    BY <1>6 DEF PushUrgent, P!Push, qVars
  <2>2. Holds(pFilling', pReady', toldUrgent + a, Len(pSent))
    BY <1>1, <1>4, <2>1, HoldsPushed DEF Queues
  <2>3. Queues(a, b)'
    BY <1>1, <1>2, <2>1, <2>2 DEF Queues
  <2>4. QED
    BY <1>2, <1>3, <2>3 DEF FlowInv
<1>7. QED
  BY <1>5, <1>6

LEMMA FlowPopUrgent ==
    ASSUME FlowInv, FillInv, LoopInv, PopUrgent
    PROVE  FlowInv'
<1>1. PICK a \in Nat, b \in Nat : Taken(a, b) /\ Queues(a, b)
  BY DEF FlowInv
<1>2. /\ UNCHANGED <<delivered, loop, toldUrgent, toldOthers, pSent, pFilling, qSent, qFilling, qReady>>
      /\ loop = "priority" /\ Len(argv) < ArgvLength
  BY DEF PopUrgent, RoomInArgv, P!Pop, qVars, toldUrgent, toldOthers
<1>3. PICK m \in pReady : /\ P!Front(m) /\ pReady' = pReady \ {m}
                          /\ pUsing' = [pUsing EXCEPT ![Loop] = m]
  BY DEF PopUrgent, P!Pop
<1>4. pUsing'[Loop] = m
  BY <1>3 DEF LoopInv
<1>5. Len(pSent) \in Nat /\ toldUrgent + a \in Nat /\ toldUrgent \in Nat /\ b = 0
      /\ toldUrgent + a <= Len(pSent)
  BY <1>1, <1>2, LenProperties DEF FillInv, Taken
<1>6. \A k \in InQueue(pFilling, pReady) : m <= k
  BY <1>3 DEF P!Front, P!Queued, InQueue
<1>7. /\ m = toldUrgent + a /\ toldUrgent + a < Len(pSent)
      /\ Holds(pFilling, pReady', toldUrgent + a + 1, Len(pSent))
  <2> DEFINE first == toldUrgent + a
             n == Len(pSent)
  <2>1. first \in Nat /\ n \in Nat /\ first <= n /\ Holds(pFilling, pReady, first, n)
    BY <1>1, <1>5 DEF Queues
  <2> HIDE DEF first, n
  <2>2. m = first /\ first < n /\ Holds(pFilling, pReady \ {m}, first + 1, n)
    BY <1>6, <2>1, HoldsPopped
  <2>3. QED
    BY <1>3, <2>2 DEF first, n
<1>8. toldUrgent + a + 1 = toldUrgent + (a + 1) /\ a + 1 \in Nat /\ toldUrgent + a + 1 \in 1 .. Len(pSent)
  BY <1>5, <1>7
<1>9. pSent[m + 1] \in AnyMessage /\ argv' = Append(argv, pSent[m + 1])
  BY <1>2, <1>4, <1>7, <1>8, ElementOfSeq DEF FillInv, PopUrgent
<1>10. argv \in Seq(AnyMessage) /\ Len(argv) = a
  BY <1>1, <1>5 DEF Taken, LoopInv
<1>11. /\ Len(argv') = a + 1 /\ argv'[a + 1] = pSent[toldUrgent + (a + 1)]
       /\ \A i \in 1 .. a : argv'[i] = argv[i]
  <2> DEFINE x == pSent[m + 1]
  <2>1. x \in AnyMessage /\ argv' = Append(argv, x) /\ x = pSent[toldUrgent + (a + 1)]
    BY <1>7, <1>8, <1>9
  <2> HIDE DEF x
  <2>2. QED
    BY <1>10, <2>1, AppendProperties
<1>12. Taken(a + 1, b)'
  <2>1. \A i \in 1 .. a + 1 : argv'[i] = pSent[toldUrgent + i]
    <3>1. \A i \in 1 .. a + 1 : i \in 1 .. a \/ i = a + 1
      OBVIOUS
    <3>2. QED
      BY <1>1, <1>11, <3>1 DEF Taken
  <2>2. a + 1 + b = a + 1 /\ a + 1 <= ArgvLength /\ toldUrgent + (a + 1) <= Len(pSent)
    BY <1>2, <1>5, <1>7, <1>10, NumberAssumption
  <2>3. QED
    BY <1>1, <1>2, <1>5, <1>11, <2>1, <2>2 DEF Taken
<1>13. Queues(a + 1, b)'
  BY <1>1, <1>2, <1>7, <1>8 DEF Queues
<1>14. QED
  BY <1>2, <1>8, <1>12, <1>13 DEF FlowInv

LEMMA FlowPopMessage ==
    ASSUME FlowInv, FillInv, LoopInv, PopMessage
    PROVE  FlowInv'
<1>1. PICK a \in Nat, b \in Nat : Taken(a, b) /\ Queues(a, b)
  BY DEF FlowInv
<1>2. /\ UNCHANGED <<delivered, loop, toldUrgent, toldOthers, pSent, pFilling, pReady, qSent, qFilling>>
      /\ loop = "q" /\ Len(argv) < ArgvLength
  BY DEF PopMessage, RoomInArgv, Q!Pop, pVars, toldUrgent, toldOthers
<1>3. PICK m \in qReady : /\ Q!Front(m) /\ qReady' = qReady \ {m}
                          /\ qUsing' = [qUsing EXCEPT ![Loop] = m]
  BY DEF PopMessage, Q!Pop
<1>4. qUsing'[Loop] = m
  BY <1>3 DEF LoopInv
<1>5. Len(qSent) \in Nat /\ toldOthers + b \in Nat /\ toldOthers \in Nat
      /\ toldOthers + b <= Len(qSent)
  BY <1>1, LenProperties DEF FillInv, Taken
<1>6. \A k \in InQueue(qFilling, qReady) : m <= k
  BY <1>3 DEF Q!Front, Q!Queued, InQueue
<1>7. /\ m = toldOthers + b /\ toldOthers + b < Len(qSent)
      /\ Holds(qFilling, qReady', toldOthers + b + 1, Len(qSent))
  <2> DEFINE first == toldOthers + b
             n == Len(qSent)
  <2>1. first \in Nat /\ n \in Nat /\ first <= n /\ Holds(qFilling, qReady, first, n)
    BY <1>1, <1>5 DEF Queues
  <2> HIDE DEF first, n
  <2>2. m = first /\ first < n /\ Holds(qFilling, qReady \ {m}, first + 1, n)
    BY <1>6, <2>1, HoldsPopped
  <2>3. QED
    BY <1>3, <2>2 DEF first, n
<1>8. toldOthers + b + 1 = toldOthers + (b + 1) /\ b + 1 \in Nat /\ toldOthers + b + 1 \in 1 .. Len(qSent)
  BY <1>5, <1>7
<1>9. qSent[m + 1] \in AnyMessage /\ argv' = Append(argv, qSent[m + 1])
  BY <1>2, <1>4, <1>7, <1>8, ElementOfSeq DEF FillInv, PopMessage
<1>10. argv \in Seq(AnyMessage) /\ Len(argv) = a + b
  BY <1>1 DEF Taken, LoopInv
<1>11. /\ Len(argv') = a + b + 1 /\ argv'[a + b + 1] = qSent[toldOthers + (b + 1)]
       /\ \A i \in 1 .. a + b : argv'[i] = argv[i]
  <2> DEFINE x == qSent[m + 1]
  <2>1. x \in AnyMessage /\ argv' = Append(argv, x) /\ x = qSent[toldOthers + (b + 1)]
    BY <1>7, <1>8, <1>9
  <2> HIDE DEF x
  <2>2. QED
    BY <1>10, <2>1, AppendProperties
<1>12. Taken(a, b + 1)'
  <2>1. \A i \in 1 .. b + 1 : argv'[a + i] = qSent[toldOthers + i]
    <3>1. \A i \in 1 .. b + 1 : (i \in 1 .. b /\ a + i \in 1 .. a + b) \/ i = b + 1
      OBVIOUS
    <3>2. a + (b + 1) = a + b + 1
      OBVIOUS
    <3>3. QED
      BY <1>1, <1>11, <3>1, <3>2 DEF Taken
  <2>2. /\ a + (b + 1) = a + b + 1 /\ a + b + 1 <= ArgvLength /\ toldOthers + (b + 1) <= Len(qSent)
        /\ \A i \in 1 .. a : i \in 1 .. a + b
    BY <1>2, <1>5, <1>7, <1>10, NumberAssumption
  <2>3. QED
    BY <1>1, <1>2, <1>5, <1>11, <2>1, <2>2 DEF Taken
<1>13. Queues(a, b + 1)'
  BY <1>1, <1>2, <1>7, <1>8 DEF Queues
<1>14. QED
  BY <1>2, <1>8, <1>12, <1>13 DEF FlowInv

(* What a call of the callback is given: urgent messages, then others.     *)
LEMMA ArgvInTwo ==
    ASSUME FillInv, PlanInv, LoopInv, NEW a \in Nat, NEW b \in Nat, Taken(a, b)
    PROVE  \A i \in 1 .. Len(argv) : argv[i].type \in {"success", "error"} <=> i <= a
<1> SUFFICES ASSUME NEW i \in 1 .. Len(argv)
             PROVE  argv[i].type \in {"success", "error"} <=> i <= a
  OBVIOUS
<1>1. Len(argv) = a + b /\ Len(pSent) \in Nat /\ Len(qSent) \in Nat
  BY LenProperties DEF Taken, FillInv
<1>2. CASE i <= a
  <2>1. i \in 1 .. a
    BY <1>1, <1>2
  <2>2. argv[i] = pSent[toldUrgent + i]
    BY <2>1 DEF Taken
  <2>3. toldUrgent + i \in 1 .. Len(pSent)
    BY <1>1, <2>1 DEF Taken
  <2>4. pSent[toldUrgent + i] \in UrgentSet
    BY <2>3, ElementOfSeq DEF PlanInv
  <2>5. QED
    BY <1>2, <2>2, <2>4 DEF UrgentSet
<1>3. CASE ~(i <= a)
  <2> DEFINE j == i - a
  <2>1. j \in 1 .. b /\ a + j = i
    BY <1>1, <1>3
  <2> HIDE DEF j
  <2>2. argv[i] = qSent[toldOthers + j]
    BY <2>1 DEF Taken
  <2>3. toldOthers + j \in 1 .. Len(qSent)
    BY <1>1, <2>1 DEF Taken
  <2>4. qSent[toldOthers + j].type \notin {"success", "error"}
    BY <2>3 DEF PlanInv
  <2>5. QED
    BY <1>3, <2>2, <2>4
<1>4. QED
  BY <1>2, <1>3

LEMMA ToldByCallBack ==
    ASSUME FlowInv, FillInv, PlanInv, LoopInv, CallBack, NEW a \in Nat, NEW b \in Nat, Taken(a, b)
    PROVE  /\ toldUrgent' = toldUrgent + a /\ toldOthers' = toldOthers + b
           /\ delivered' \in Seq(AnyMessage)
<1>1. /\ delivered \in Seq(AnyMessage) /\ argv \in Seq(AnyMessage) /\ delivered' = delivered \o argv
      /\ Len(argv) = a + b
  BY DEF FlowInv, LoopInv, CallBack, Taken
<1>2. a <= Len(argv)
  BY <1>1
<1>3. UrgentIn(delivered \o argv) = UrgentIn(delivered) + a
  BY <1>1, <1>2, ArgvInTwo, UrgentFirst
<1>4. /\ delivered' \in Seq(AnyMessage) /\ Len(delivered') = Len(delivered) + (a + b)
      /\ Len(delivered) \in Nat
  BY <1>1, ConcatProperties, LenProperties
<1>5. UrgentIn(delivered) \in Nat
  BY <1>1, UrgentCounted
<1>6. toldUrgent' = toldUrgent + a
  BY <1>1, <1>3 DEF toldUrgent
<1>7. toldOthers' = Len(delivered') - toldUrgent' /\ toldOthers = Len(delivered) - toldUrgent
  BY DEF toldUrgent, toldOthers
<1>8. toldUrgent \in Nat
  BY <1>5 DEF toldUrgent
<1>9. toldOthers' = toldOthers + b
  BY <1>4, <1>6, <1>7, <1>8
<1>10. QED
  BY <1>4, <1>6, <1>9

LEMMA FlowCallBack ==
    ASSUME FlowInv, FillInv, PlanInv, LoopInv, CallBack
    PROVE  FlowInv'
<1>1. PICK a \in Nat, b \in Nat : Taken(a, b) /\ Queues(a, b)
  BY DEF FlowInv
<1>2. /\ toldUrgent' = toldUrgent + a /\ toldOthers' = toldOthers + b
      /\ delivered' \in Seq(AnyMessage)
  BY <1>1, ToldByCallBack
<1>3. /\ argv' = <<>> /\ loop' = "reset" /\ UNCHANGED <<qSent, qFilling, qReady, pSent, pFilling, pReady>>
  BY DEF CallBack, TriggersItself, qVars, pVars
<1>4. /\ toldUrgent + a \in Nat /\ toldOthers + b \in Nat
      /\ toldUrgent' + 0 = toldUrgent + a /\ toldOthers' + 0 = toldOthers + b
  BY <1>1, <1>2 DEF Taken
<1>5. Queues(0, 0)'
  BY <1>1, <1>3, <1>4 DEF Queues
<1>6. Taken(0, 0)'
  <2>1. Len(<<>>) = 0 /\ 0 + 0 = 0 /\ 0 <= ArgvLength /\ 1 .. 0 = {}
    BY NumberAssumption
  <2>2. toldUrgent' + 0 <= Len(pSent) /\ toldOthers' + 0 <= Len(qSent)
    BY <1>1, <1>4 DEF Taken
  <2>3. toldUrgent' \in Nat /\ toldOthers' \in Nat
    BY <1>2, <1>4
  <2>4. QED
    BY <1>3, <2>1, <2>2, <2>3 DEF Taken
<1>7. QED
  BY <1>2, <1>3, <1>5, <1>6 DEF FlowInv

LEMMA FlowStep ==
    ScriptInv /\ FillInv /\ LoopInv /\ PlanInv /\ FlowInv /\ [Next]_vars => FlowInv'
<1> SUFFICES ASSUME ScriptInv, FillInv, LoopInv, PlanInv, FlowInv, [Next]_vars
             PROVE  FlowInv'
  OBVIOUS
<1>1. /\ loop \in {"idle", "reset", "send"} => argv = <<>>
      /\ loop = "call" => argv # <<>>
  BY DEF FlowInv
<1>2. ASSUME NEW t \in Threads, AllocateMessage(t) \/ AllocateUrgent(t)
      PROVE  FlowInv'
  BY <1>2, FlowAllocate
<1>3. ASSUME NEW t \in Threads, PushMessage(t) \/ PushUrgent(t)
      PROVE  FlowInv'
  BY <1>3, FlowPush
<1>4. ASSUME UNCHANGED <<qSent, qFilling, qReady, pSent, pFilling, pReady, argv, delivered, loop>>
      PROVE  FlowInv'
  BY <1>1, <1>4, FlowKept
<1>5. ASSUME NEW t \in Threads,
             (\E c \in Calls : Begin(t, c)) \/ QueueOverflow(t) \/ BadData(t)
                \/ Count(t) \/ Reset(t) \/ Send(t)
      PROVE  FlowInv'
  <2>1. UNCHANGED <<qSent, qFilling, qReady, pSent, pFilling, pReady, argv, delivered, loop>>
    BY <1>5 DEF Begin, QueueOverflow, BadData, Count, Reset, Send, qVars, pVars, loopVars
  <2>2. QED
    BY <1>4, <2>1
<1>6. CASE PopUrgent
  BY <1>6, FlowPopUrgent
<1>7. CASE PopMessage
  BY <1>7, FlowPopMessage
<1>8. CASE ReleaseUrgent \/ ReleaseMessage \/ Done \/ UNCHANGED vars
  <2>1. UNCHANGED <<qSent, qFilling, qReady, pSent, pFilling, pReady, argv, delivered, loop>>
    BY <1>8 DEF ReleaseUrgent, ReleaseMessage, Done, vars, qVars, pVars, loopVars,
       Q!Release, P!Release
  <2>2. QED
    BY <1>4, <2>1
<1>9. CASE Wake \/ NoMoreUrgent \/ NoMoreMessages \/ ResetAgain \/ SendAgain
  <2>1. UNCHANGED <<qSent, qFilling, qReady, pSent, pFilling, pReady, argv, delivered>>
    BY <1>9 DEF Wake, NoMoreUrgent, NoMoreMessages, ResetAgain, SendAgain, qVars, pVars
  <2>2. /\ loop' = "priority" => argv = <<>>
        /\ loop' \in {"idle", "reset", "send"} => argv = <<>>
        /\ loop' = "call" => argv # <<>>
    BY <1>1, <1>9 DEF Wake, NoMoreUrgent, NoMoreMessages, AfterPops, ResetAgain, SendAgain
  <2>3. QED
    BY <2>1, <2>2, FlowKept
<1>10. CASE CallBack
  BY <1>10, FlowCallBack
<1>11. QED
  BY <1>2, <1>3, <1>5, <1>6, <1>7, <1>8, <1>9, <1>10 DEF Next, Handle, executeCallback

LEMMA FlowAtFirst == Init => FlowInv /\ PlainInv /\ toldUrgent = 0 /\ toldOthers = 0
<1> SUFFICES ASSUME Init
             PROVE  FlowInv /\ PlainInv /\ toldUrgent = 0 /\ toldOthers = 0
  OBVIOUS
<1>1. /\ delivered = <<>> /\ argv = <<>> /\ qSent = <<>> /\ pSent = <<>> /\ loop = "idle"
      /\ qFilling = [t \in Threads |-> None] /\ pFilling = [t \in Threads |-> None]
      /\ qReady = {} /\ pReady = {} /\ \A t \in Threads : pc[t] = "idle"
  BY DEF Init, Q!Init, P!Init
<1>2. toldUrgent = 0 /\ toldOthers = 0
  <2>1. DOMAIN delivered = {} /\ Len(delivered) = 0
    BY <1>1
  <2>2. {i \in DOMAIN delivered : delivered[i].type \in {"success", "error"}} = {}
    BY <2>1
  <2>3. UrgentIn(delivered) = 0
    BY <2>2, FS_EmptySet DEF UrgentIn
  <2>4. QED
    BY <2>1, <2>3 DEF toldUrgent, toldOthers
<1>3. Holds(qFilling, qReady, 0, 0) /\ Holds(pFilling, pReady, 0, 0)
  <2>1. InQueue(qFilling, qReady) = {} /\ InQueue(pFilling, pReady) = {}
    BY <1>1 DEF InQueue
  <2>2. 0 .. 0 - 1 = {} /\ None \in Int
    BY DEF None
  <2>3. QED
    BY <1>1, <2>1, <2>2 DEF Holds
<1>4. Len(qSent) = 0 /\ Len(pSent) = 0 /\ Len(argv) = 0 /\ 0 + 0 = 0 /\ 0 <= ArgvLength
  BY <1>1, NumberAssumption
<1>5. Taken(0, 0) /\ Queues(0, 0)
  BY <1>1, <1>2, <1>3, <1>4 DEF Taken, Queues
<1>6. delivered \in Seq(AnyMessage)
  BY <1>1
<1>7. FlowInv
  BY <1>1, <1>5, <1>6 DEF FlowInv
<1>8. QED
  BY <1>1, <1>2, <1>7 DEF PlainInv

-----------------------------------------------------------------------------
(* The steps of the bridge, seen as steps of Delivery.                     *)
LEMMA AllocateIsPost ==
    ASSUME FlowInv, FillInv, ScriptInv, PlainInv, NEW t \in Threads, AllocateMessage(t)
    PROVE  D!Post
<1>1. PICK a \in Nat, b \in Nat : Taken(a, b)
  BY DEF FlowInv
<1>2. /\ pc[t] = "post" /\ Step(t).queue = "q" /\ qSent' = Append(qSent, Step(t).message)
      /\ UNCHANGED <<pSent, delivered>>
  BY DEF AllocateMessage, pVars, loopVars
<1>3. Step(t).message \in AnyMessage /\ Step(t).message \in Messages \ UrgentSet
  <2>1. script[t] \in Seq(Step_s) /\ Len(script[t]) \in Nat \ {0} /\ Step(t) = script[t][1]
        /\ Step(t).message \in AnyMessage
    BY <1>2, AtStep
  <2>2. 1 \in 1 .. Len(script[t])
    BY <2>1
  <2>3. QED
    BY <1>2, <2>1, <2>2 DEF PlainInv, Plain
<1>4. toldOthers \in Nat /\ toldOthers <= Len(qSent) /\ qSent \in Seq(AnyMessage)
  BY <1>1, LenProperties DEF Taken, FillInv
<1>5. Rest(qSent', toldOthers) = Append(Rest(qSent, toldOthers), Step(t).message)
  BY <1>2, <1>3, <1>4, RestGrows
<1>6. UNCHANGED <<toldUrgent, toldOthers>>
  BY <1>2 DEF toldUrgent, toldOthers
<1>7. /\ Rest(qSent, toldOthers)' = Append(Rest(qSent, toldOthers), Step(t).message)
      /\ Rest(pSent, toldUrgent)' = Rest(pSent, toldUrgent)
  BY <1>2, <1>5, <1>6
<1>8. QED
  BY <1>2, <1>3, <1>7 DEF D!Post, toldUrgent, toldOthers

LEMMA AllocateIsPostUrgent ==
    ASSUME FlowInv, FillInv, ScriptInv, PlanInv, NEW t \in Threads, AllocateUrgent(t)
    PROVE  D!PostUrgent
<1>1. PICK a \in Nat, b \in Nat : Taken(a, b)
  BY DEF FlowInv
<1>2. /\ pc[t] = "post" /\ Step(t).queue = "priority" /\ pSent' = Append(pSent, Step(t).message)
      /\ UNCHANGED <<qSent, delivered>>
  BY DEF AllocateUrgent, qVars, loopVars
<1>3. Step(t).message \in AnyMessage /\ Step(t).message \in UrgentSet
  <2>1. script[t] \in Seq(Step_s) /\ Len(script[t]) \in Nat \ {0} /\ Step(t) = script[t][1]
        /\ Step(t).message \in AnyMessage
    BY <1>2, AtStep
  <2>2. 1 \in 1 .. Len(script[t])
    BY <2>1
  <2>3. Planned(script[t], CallOf(t))
    BY <1>2 DEF PlanInv, PlanOf
  <2>4. QED
    BY <1>2, <2>1, <2>2, <2>3 DEF Planned
<1>4. toldUrgent \in Nat /\ toldUrgent <= Len(pSent) /\ pSent \in Seq(AnyMessage)
  BY <1>1, LenProperties DEF Taken, FillInv
<1>5. Rest(pSent', toldUrgent) = Append(Rest(pSent, toldUrgent), Step(t).message)
  BY <1>2, <1>3, <1>4, RestGrows
<1>6. UNCHANGED <<toldUrgent, toldOthers>>
  BY <1>2 DEF toldUrgent, toldOthers
<1>7. /\ Rest(pSent, toldUrgent)' = Append(Rest(pSent, toldUrgent), Step(t).message)
      /\ Rest(qSent, toldOthers)' = Rest(qSent, toldOthers)
  BY <1>2, <1>5, <1>6
<1>8. QED
  BY <1>2, <1>3, <1>7 DEF D!PostUrgent, toldUrgent, toldOthers

(* argv is the beginning of both queues, the urgent one first.             *)
LEMMA ArgvIsTaken ==
    ASSUME FillInv, LoopInv, NEW a \in Nat, NEW b \in Nat, Taken(a, b)
    PROVE  /\ argv = SubSeq(Rest(pSent, toldUrgent), 1, a) \o SubSeq(Rest(qSent, toldOthers), 1, b)
           /\ SubSeq(Rest(pSent, toldUrgent), 1, a) \in Seq(AnyMessage)
           /\ SubSeq(Rest(qSent, toldOthers), 1, b) \in Seq(AnyMessage)
           /\ a <= Len(Rest(pSent, toldUrgent)) /\ b <= Len(Rest(qSent, toldOthers))
           /\ Rest(pSent, toldUrgent + a)
                 = SubSeq(Rest(pSent, toldUrgent), a + 1, Len(Rest(pSent, toldUrgent)))
           /\ Rest(qSent, toldOthers + b)
                 = SubSeq(Rest(qSent, toldOthers), b + 1, Len(Rest(qSent, toldOthers)))
<1> DEFINE u == SubSeq(Rest(pSent, toldUrgent), 1, a)
           o == SubSeq(Rest(qSent, toldOthers), 1, b)
           g == u \o o
<1>1. /\ pSent \in Seq(AnyMessage) /\ qSent \in Seq(AnyMessage) /\ argv \in Seq(AnyMessage)
      /\ toldUrgent \in Nat /\ toldOthers \in Nat
      /\ toldUrgent + a <= Len(pSent) /\ toldOthers + b <= Len(qSent)
      /\ Len(argv) = a + b
  BY DEF FillInv, LoopInv, Taken
<1>2. /\ Rest(pSent, toldUrgent + a)
            = SubSeq(Rest(pSent, toldUrgent), a + 1, Len(Rest(pSent, toldUrgent)))
      /\ u \in Seq(AnyMessage) /\ Len(u) = a
      /\ \A i \in 1 .. a : u[i] = pSent[toldUrgent + i]
  BY <1>1, RestOfRest
<1>3. /\ Rest(qSent, toldOthers + b)
            = SubSeq(Rest(qSent, toldOthers), b + 1, Len(Rest(qSent, toldOthers)))
      /\ o \in Seq(AnyMessage) /\ Len(o) = b
      /\ \A i \in 1 .. b : o[i] = qSent[toldOthers + i]
  <2>1. qSent \in Seq(AnyMessage) /\ toldOthers \in Nat /\ b \in Nat /\ toldOthers + b <= Len(qSent)
    BY <1>1
  <2>2. QED
    BY ONLY <2>1, RestOfRest
<1>4. a <= Len(Rest(pSent, toldUrgent)) /\ b <= Len(Rest(qSent, toldOthers))
  <2>1. Len(pSent) \in Nat /\ Len(qSent) \in Nat
        /\ toldUrgent <= Len(pSent) /\ toldOthers <= Len(qSent)
    BY <1>1, LenProperties
  <2>2. /\ Len(Rest(pSent, toldUrgent)) = Len(pSent) - toldUrgent
        /\ Len(Rest(qSent, toldOthers)) = Len(qSent) - toldOthers
    BY <1>1, <2>1, RestOf
  <2>3. QED
    BY <1>1, <2>1, <2>2
<1> HIDE DEF u, o
<1>5. /\ g \in Seq(AnyMessage) /\ Len(g) = a + b
      /\ \A i \in 1 .. a : g[i] = u[i]
      /\ \A i \in a + 1 .. a + b : g[i] = o[i - a]
  <2>1. u \in Seq(AnyMessage) /\ o \in Seq(AnyMessage) /\ Len(u) = a /\ Len(o) = b
    BY <1>2, <1>3
  <2>2. /\ g \in Seq(AnyMessage) /\ Len(g) = a + b
        /\ \A i \in 1 .. a + b : g[i] = IF i <= a THEN u[i] ELSE o[i - a]
    BY <2>1, ConcatProperties
  <2>3. /\ \A i \in 1 .. a : i \in 1 .. a + b /\ i <= a
        /\ \A i \in a + 1 .. a + b : i \in 1 .. a + b /\ ~(i <= a)
    OBVIOUS
  <2> HIDE DEF g
  <2>4. QED
    BY <2>2, <2>3
<1> HIDE DEF g
<1>6. ASSUME NEW i \in 1 .. Len(argv)
      PROVE  argv[i] = g[i]
  <2>1. CASE i \in 1 .. a
    BY <1>2, <1>5, <2>1 DEF Taken
  <2>2. CASE i \in a + 1 .. a + b
    <3> DEFINE j == i - a
    <3>1. j \in 1 .. b /\ a + j = i
      BY <2>2
    <3> HIDE DEF j
    <3>2. argv[i] = qSent[toldOthers + j] /\ o[j] = qSent[toldOthers + j]
      BY <1>3, <3>1 DEF Taken
    <3>3. QED
      BY <1>5, <2>2, <3>2 DEF j
  <2>3. QED
    BY <1>1, <2>1, <2>2
<1>7. argv = g
  BY <1>1, <1>5, <1>6, SeqEqual
<1>8. QED
  BY <1>2, <1>3, <1>4, <1>7 DEF u, o, g

LEMMA CallBackIsDeliver ==
    ASSUME FlowInv, FillInv, PlanInv, LoopInv, CallBack
    PROVE  D!Deliver
<1>1. PICK a \in Nat, b \in Nat : Taken(a, b)
  BY DEF FlowInv
<1> DEFINE u == Rest(pSent, toldUrgent)
           o == Rest(qSent, toldOthers)
<1>2. /\ argv = SubSeq(u, 1, a) \o SubSeq(o, 1, b)
      /\ SubSeq(u, 1, a) \in Seq(AnyMessage) /\ SubSeq(o, 1, b) \in Seq(AnyMessage)
      /\ a <= Len(u) /\ b <= Len(o)
      /\ Rest(pSent, toldUrgent + a) = SubSeq(u, a + 1, Len(u))
      /\ Rest(qSent, toldOthers + b) = SubSeq(o, b + 1, Len(o))
  BY <1>1, ArgvIsTaken
<1>3. toldUrgent' = toldUrgent + a /\ toldOthers' = toldOthers + b
  BY <1>1, ToldByCallBack
<1>4. u' = Rest(pSent, toldUrgent + a) /\ o' = Rest(qSent, toldOthers + b)
  <2>1. UNCHANGED <<pSent, qSent>>
    BY DEF CallBack, pVars, qVars
  <2>2. QED
    BY <1>3, <2>1
<1>5. delivered' = delivered \o SubSeq(u, 1, a) \o SubSeq(o, 1, b)
  <2>1. delivered' = delivered \o argv /\ delivered \in Seq(AnyMessage)
    BY DEF CallBack, FlowInv
  <2>2. PICK x, y : x = SubSeq(u, 1, a) /\ y = SubSeq(o, 1, b)
    OBVIOUS
  <2> HIDE DEF u, o
  <2>3. x \in Seq(AnyMessage) /\ y \in Seq(AnyMessage) /\ delivered' = delivered \o (x \o y)
    BY <1>2, <2>1, <2>2
  <2>4. (delivered \o x) \o y = delivered \o (x \o y)
    BY <2>1, <2>3, ConcatAssociative
  <2>5. QED
    BY <2>2, <2>3, <2>4
<1>6. a + b \in 1 .. ArgvLength
  <2>1. argv # <<>> /\ argv \in Seq(AnyMessage) /\ Len(argv) = a + b /\ a + b <= ArgvLength
    BY <1>1 DEF CallBack, FlowInv, LoopInv, Taken
  <2>2. Len(argv) # 0
    BY <2>1, EmptySeq
  <2>3. QED
    BY <2>1, <2>2, NumberAssumption
<1>7. Len(u) \in Nat /\ Len(o) \in Nat
  <2>1. /\ toldUrgent \in Nat /\ toldUrgent <= Len(pSent) /\ pSent \in Seq(AnyMessage)
        /\ toldOthers \in Nat /\ toldOthers <= Len(qSent) /\ qSent \in Seq(AnyMessage)
    BY <1>1, LenProperties DEF Taken, FillInv
  <2>2. u \in Seq(AnyMessage) /\ o \in Seq(AnyMessage)
    BY <2>1, RestOf
  <2>3. QED
    BY <2>2, LenProperties
<1>8. a \in 0 .. Len(u) /\ b \in 0 .. Len(o)
  BY <1>2, <1>7
<1>9. /\ u' = SubSeq(u, a + 1, Len(u))
      /\ o' = SubSeq(o, b + 1, Len(o))
  BY <1>2, <1>4
<1>10. QED
  BY <1>5, <1>6, <1>8, <1>9 DEF D!Deliver, toldUrgent, toldOthers

LEMMA StepIsDelivery ==
    ScriptInv /\ FillInv /\ LoopInv /\ PlanInv /\ FlowInv /\ PlainInv /\ [Next]_vars
        => [D!Next]_<<Rest(pSent, toldUrgent), Rest(qSent, toldOthers), delivered>>
<1> SUFFICES ASSUME ScriptInv, FillInv, LoopInv, PlanInv, FlowInv, PlainInv, [Next]_vars
             PROVE  [D!Next]_<<Rest(pSent, toldUrgent), Rest(qSent, toldOthers), delivered>>
  OBVIOUS
<1>1. ASSUME NEW t \in Threads, AllocateMessage(t) \/ AllocateUrgent(t)
      PROVE  D!Next
  BY <1>1, AllocateIsPost, AllocateIsPostUrgent DEF D!Next
<1>2. CASE CallBack
  BY <1>2, CallBackIsDeliver DEF D!Next
<1>3. ASSUME UNCHANGED <<qSent, pSent, delivered>>
      PROVE  UNCHANGED <<Rest(pSent, toldUrgent), Rest(qSent, toldOthers), delivered>>
  BY <1>3 DEF toldUrgent, toldOthers
<1>4. ASSUME NEW t \in Threads,
             (\E c \in Calls : Begin(t, c)) \/ QueueOverflow(t) \/ BadData(t)
                \/ PushMessage(t) \/ PushUrgent(t) \/ Count(t) \/ Reset(t) \/ Send(t)
      PROVE  UNCHANGED <<qSent, pSent, delivered>>
  BY <1>4 DEF Begin, QueueOverflow, BadData, PushMessage, PushUrgent, Count, Reset, Send,
     qVars, pVars, loopVars
<1>5. CASE \/ Wake \/ PopUrgent \/ ReleaseUrgent \/ NoMoreUrgent
           \/ PopMessage \/ ReleaseMessage \/ NoMoreMessages \/ ResetAgain \/ SendAgain
           \/ Done \/ UNCHANGED vars
  <2>1. UNCHANGED <<qSent, pSent, delivered>>
    BY <1>5 DEF Wake, PopUrgent, ReleaseUrgent, NoMoreUrgent, PopMessage, ReleaseMessage,
       NoMoreMessages, ResetAgain, SendAgain, Done, vars, qVars, pVars, loopVars
  <2>2. QED
    BY <1>3, <2>1
<1>6. QED
  BY <1>1, <1>2, <1>3, <1>4, <1>5 DEF Next, Handle, executeCallback

LEMMA FirstIsDelivery == Init => D!Init
<1> SUFFICES ASSUME Init
             PROVE  D!Init
  OBVIOUS
<1>1. delivered = <<>> /\ qSent = <<>> /\ pSent = <<>> /\ toldUrgent = 0 /\ toldOthers = 0
  BY FlowAtFirst DEF Init
<1>2. Rest(<<>>, 0) = <<>>
  <2>1. PICK s : s = <<>>
    OBVIOUS
  <2>2. s \in Seq(AnyMessage) /\ Len(s) = 0 /\ 0 \in Nat /\ 0 <= Len(s) /\ Len(s) - 0 = 0
    BY <2>1
  <2>3. Rest(s, 0) \in Seq(AnyMessage) /\ Len(Rest(s, 0)) = 0
    BY ONLY <2>2, RestOf
  <2>4. QED
    BY <2>1, <2>3, EmptySeq
<1>3. QED
  BY <1>1, <1>2 DEF D!Init, toldUrgent, toldOthers

(* activetick.js may take the native module for the channel of Delivery:   *)
(* messages are delivered as they were posted, none twice and none skipped *)
(* by a later one of its queue, 1 to 1025 of them in a call, for any       *)
(* number of threads and however small the queues are.                     *)
THEOREM BridgeDelivers == Spec => ImplementsDelivery
<1>1. /\ Init => FlowInv /\ PlainInv
  BY FlowAtFirst
<1>2. ScriptInv /\ FillInv /\ LoopInv /\ PlanInv /\ FlowInv /\ PlainInv /\ [Next]_vars
        => [D!Next]_<<Rest(pSent, UrgentIn(delivered)),
                      Rest(qSent, Len(delivered) - UrgentIn(delivered)), delivered>>
  BY StepIsDelivery DEF toldUrgent, toldOthers
<1>3. QED
  BY <1>1, <1>2, Initially, ScriptStep, FillStep, LoopStep, PlanAtFirst, PlanStep, PlainStep,
     FlowStep, FirstIsDelivery, PTL DEF Spec, ImplementsDelivery, D!Spec
=============================================================================
