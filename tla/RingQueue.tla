----------------------------- MODULE RingQueue -----------------------------
(***************************************************************************)
(* The lock-free ring buffer of ActiveTickServerAPI-node/queue.h: API      *)
(* threads allocate() a message inside the buffer, construct it in place   *)
(* and push() it; the loop thread pop()s it, reads it and release()s it.   *)
(*                                                                         *)
(* One action is one access to memory that threads share.  Sizes and       *)
(* places are counted in blocks: a block is BlockSize bytes and a header   *)
(* takes exactly one.  The code keeps _head, _tail and _trailing modulo    *)
(* BufferSize; the model keeps the whole distance travelled and compares   *)
(* the places, so that a pointer that has gone once round the buffer is    *)
(* told from one that has not moved although the code cannot tell them.    *)
(*                                                                         *)
(* The build is Win32 (ActiveTickServerAPI.vcxproj): a locked              *)
(* compare-exchange never fails spuriously and a store is never passed by  *)
(* a later one, so interleaving the accesses covers what the build can do. *)
(***************************************************************************)
EXTENDS Integers, FiniteSets

CONSTANTS
    Producers,    \* threads that allocate and push
    Consumers,    \* threads that pop and release
    BufferSize,   \* blocks in the buffer
    Sizes,        \* sizes of allocations in blocks, the header included
    Tries,        \* retries of a refused claim; 100 in the code
    MayLap,       \* may a pointer go round the buffer under a stalled thread?
    MaxPos        \* bound: no allocation starts once head has reached MaxPos

ASSUME ThreadAssumption == Producers \cap Consumers = {}
ASSUME SizeAssumption ==
    /\ BufferSize \in Nat \ {0}
    /\ Sizes \subseteq 2..BufferSize
    /\ Tries \in Nat
    /\ MayLap \in BOOLEAN
    /\ MaxPos \in Nat

Threads == Producers \cup Consumers

VARIABLES
    mem,          \* the buffer, one cell for a block
    head,         \* everything before it is claimed
    tail,         \* everything before it is popped
    trailing,     \* everything before it is released
    pc,           \* where each thread stands
    size,         \* local: blocks of the allocation in hand
    seen,         \* local: the pointer as last loaded
    at,           \* local: position of the header in hand
    tries,        \* local to a producer: retries left
    ind,          \* local to a consumer: the indicator as loaded by pop
    left          \* local to a consumer: blocks zero() has still to clear

vars == <<mem, head, tail, trailing, pc, size, seen, at, tries, ind, left>>
locals == <<size, seen, at, tries, ind, left>>

-----------------------------------------------------------------------------
(* A block read as a header is an indicator: two tag bits and a size.  The *)
(* same block may hold payload, here the position of its message's header, *)
(* which names the message.                                                *)
Tags == {"free", "committed", "failed", "payload"}
Cell == [tag : Tags, val : Nat]
Zero == [tag |-> "free", val |-> 0]
Payload(m) == [tag |-> "payload", val |-> m]

Blocks == 0..(BufferSize - 1)
Place(pos) == pos % BufferSize
BytesBetween(start, end) == BufferSize - Place(start - end)
BytesToEnd(pos) == BytesBetween(pos, 0)

(* _claim never splits an allocation over the end of the buffer: when it   *)
(* does not fit, the claim takes the rest of the buffer as well.           *)
WrapsLate(n, pos) == n > BytesToEnd(pos) + 1
Wraps(n, pos) == n > BytesToEnd(pos)
ClaimOf(n, pos) == IF Wraps(n, pos) THEN n + BytesToEnd(pos) ELSE n

(* zero() and the constructor address the blocks behind a header without   *)
(* reducing modulo BufferSize.                                             *)
BlocksOf(pos, n) == Place(pos) .. (Place(pos) + n - 1)

-----------------------------------------------------------------------------
ProducerPCs == {"idle", "load", "check", "advance", "mark", "stamp", "write", "push"}
ConsumerPCs == {"idle", "peek", "take", "use", "zero", "trail", "again"}

Init ==
    /\ mem = [b \in Blocks |-> Zero]
    /\ head = 0
    /\ tail = 0
    /\ trailing = 0
    /\ pc = [t \in Threads |-> "idle"]
    /\ size = [t \in Threads |-> 0]
    /\ seen = [t \in Threads |-> 0]
    /\ at = [t \in Threads |-> 0]
    /\ tries = [p \in Producers |-> 0]
    /\ ind = [c \in Consumers |-> Zero]
    /\ left = [c \in Consumers |-> 0]

Goto(t, label) == pc' = [pc EXCEPT ![t] = label]

(* The call of thread t is over, and its locals with it.                   *)
Return(t, label) ==
    /\ Goto(t, label)
    /\ size' = [size EXCEPT ![t] = 0]
    /\ seen' = [seen EXCEPT ![t] = 0]
    /\ at' = [at EXCEPT ![t] = 0]

(* The assumption that MayLap = FALSE makes about the scheduler: while a   *)
(* thread stands between loading a pointer and its compare-exchange, the   *)
(* others do not move that pointer once round the whole buffer.            *)
Unlapped(t, others, labels, pos) ==
    MayLap \/ \A u \in others \ {t} : pc[u] \in labels => pos < seen[u] + BufferSize

-----------------------------------------------------------------------------
(* Producers: allocate() and push().                                       *)

(* allocate(n) enters claim() and its first _claim() loads _head.          *)
Allocate(p, n) ==
    /\ pc[p] = "idle"
    /\ head < MaxPos
    /\ size' = [size EXCEPT ![p] = n]
    /\ tries' = [tries EXCEPT ![p] = Tries]
    /\ seen' = [seen EXCEPT ![p] = head]
    /\ Goto(p, "check")
    /\ UNCHANGED <<mem, head, tail, trailing, at, ind, left>>

(* claim() has slept and calls _claim() again, which loads _head.          *)
Reload(p) ==
    /\ pc[p] = "load"
    /\ seen' = [seen EXCEPT ![p] = head]
    /\ Goto(p, "check")
    /\ UNCHANGED <<mem, head, tail, trailing, size, at, tries, ind, left>>

(* _claim() loads _trailing and finds the claim short of lapping it.       *)
RoomToTheBrim(p) == ClaimOf(size[p], seen[p]) <= BytesBetween(seen[p], trailing)
RoomFor(p) == ClaimOf(size[p], seen[p]) < BytesBetween(seen[p], trailing)

CheckRoom(p) ==
    /\ pc[p] = "check"
    /\ RoomFor(p)
    /\ Goto(p, "advance")
    /\ UNCHANGED <<mem, head, tail, trailing, locals>>

(* _claim() returns NULL; claim() sleeps for another try ...               *)
HasTries(p) == tries[p] >= 0
MayRetry(p) == tries[p] > 0

Retry(p) ==
    /\ pc[p] = "check"
    /\ ~RoomFor(p)
    /\ MayRetry(p)
    /\ tries' = [tries EXCEPT ![p] = @ - 1]
    /\ Goto(p, "load")
    /\ UNCHANGED <<mem, head, tail, trailing, size, seen, at, ind, left>>

(* ... or has none left and throws queue_overflow.                         *)
Overflow(p) ==
    /\ pc[p] = "check"
    /\ ~RoomFor(p)
    /\ ~MayRetry(p)
    /\ Return(p, "idle")
    /\ UNCHANGED <<mem, head, tail, trailing, tries, ind, left>>

(* _head.try_advance() succeeds: _head holds the place that was loaded.    *)
HeadOnceSeen(p) == Place(head) >= Place(seen[p])
HeadUnmoved(p) == Place(head) = Place(seen[p])

AdvanceHead(p) ==
    LET claim == ClaimOf(size[p], seen[p])
        skip == claim - size[p]
    IN  /\ pc[p] = "advance"
        /\ HeadUnmoved(p)
        /\ Unlapped(p, Producers, {"check", "advance"}, head + claim)
        /\ head' = head + claim
        /\ at' = [at EXCEPT ![p] = head + skip]
        /\ Goto(p, IF skip > 0 THEN "mark" ELSE "stamp")
        /\ UNCHANGED <<mem, tail, trailing, size, seen, tries, ind, left>>

(* It fails: the current place is loaded and _claim() goes round again.    *)
MissHead(p) ==
    /\ pc[p] = "advance"
    /\ ~HeadUnmoved(p)
    /\ seen' = [seen EXCEPT ![p] = head]
    /\ Goto(p, "check")
    /\ UNCHANGED <<mem, head, tail, trailing, size, at, tries, ind, left>>

Store(b, cell) == mem' = [mem EXCEPT ![b] = cell]

(* The end of the buffer that was skipped is released as a failed entry.   *)
SkippedFree(n) == [tag |-> "free", val |-> n]
SkippedCommitted(n) == [tag |-> "committed", val |-> n]
Skipped(n) == [tag |-> "failed", val |-> n]

MarkSkipped(p) ==
    /\ pc[p] = "mark"
    /\ Store(Place(seen[p]), Skipped(BytesToEnd(seen[p])))
    /\ Goto(p, "stamp")
    /\ UNCHANGED <<head, tail, trailing, locals>>

(* allocate() stores the size in the header and returns the payload.       *)
StampSize(p) ==
    /\ pc[p] = "stamp"
    /\ Store(Place(at[p]), [tag |-> "free", val |-> size[p]])
    /\ Goto(p, "write")
    /\ UNCHANGED <<head, tail, trailing, locals>>

(* The caller constructs its message in place, behind the header.          *)
BlocksOneShort(pos, n) == BlocksOf(pos, n - 1) \ {Place(pos)}
PayloadOf(pos, n) == BlocksOf(pos, n) \ {Place(pos)}

WriteMessage(p) ==
    /\ pc[p] = "write"
    /\ mem' = [b \in Blocks |->
                 IF b \in PayloadOf(at[p], size[p]) THEN Payload(at[p]) ELSE mem[b]]
    /\ Goto(p, "push")
    /\ UNCHANGED <<head, tail, trailing, locals>>

(* push() commits whatever indicator the header holds.                     *)
Push(p) ==
    /\ pc[p] = "push"
    /\ Store(Place(at[p]), [tag |-> "committed", val |-> mem[Place(at[p])].val])
    /\ Return(p, "idle")
    /\ tries' = [tries EXCEPT ![p] = 0]
    /\ UNCHANGED <<head, tail, trailing, ind, left>>

-----------------------------------------------------------------------------
(* Consumers: pop() and release().                                         *)

(* pop() loads _tail, at first or after it has skipped a failed entry.     *)
LoadTail(c) ==
    /\ pc[c] \in {"idle", "again"}
    /\ seen' = [seen EXCEPT ![c] = tail]
    /\ Goto(c, "peek")
    /\ UNCHANGED <<mem, head, tail, trailing, size, at, tries, ind, left>>

(* It acquires the indicator there: a free one means nothing to pop.  If   *)
(* the entry was popped meanwhile by another consumer and its memory used  *)
(* again, the word is payload, which may look like any indicator.          *)
PeekFree(c) ==
    /\ pc[c] = "peek"
    /\ mem[Place(seen[c])].tag \in {"free", "payload"}
    /\ Return(c, "idle")
    /\ UNCHANGED <<mem, head, tail, trailing, tries, ind, left>>

PeekEntry(c) ==
    /\ pc[c] = "peek"
    /\ mem[Place(seen[c])].tag # "free"
    /\ ind' = [ind EXCEPT ![c] = mem[Place(seen[c])]]
    /\ Goto(c, "take")
    /\ UNCHANGED <<mem, head, tail, trailing, size, seen, at, tries, left>>

(* _tail.try_advance() succeeds.  A committed entry is returned to the     *)
(* caller, a failed one is cleared and skipped.  Payload taken for a       *)
(* header would be an arbitrary indicator: CurrentIndicator excludes that  *)
(* it is taken, and the model does not go on from there.                   *)
TailOnceSeen(c) == Place(tail) >= Place(seen[c])
TailUnmoved(c) == Place(tail) = Place(seen[c])

AdvanceTail(c) ==
    /\ pc[c] = "take"
    /\ TailUnmoved(c)
    /\ Unlapped(c, Consumers, {"peek", "take"}, tail + ind[c].val)
    /\ tail' = tail + ind[c].val
    /\ at' = [at EXCEPT ![c] = tail]
    /\ \/ /\ ind[c].tag = "committed"
          /\ Goto(c, "use")
          /\ UNCHANGED <<size, left>>
       \/ /\ ind[c].tag = "failed"
          /\ size' = [size EXCEPT ![c] = ind[c].val]
          /\ left' = [left EXCEPT ![c] = ind[c].val]
          /\ Goto(c, "zero")
    /\ UNCHANGED <<mem, head, trailing, seen, tries, ind>>

MissTail(c) ==
    /\ pc[c] = "take"
    /\ ~TailUnmoved(c)
    /\ seen' = [seen EXCEPT ![c] = tail]
    /\ ind' = [ind EXCEPT ![c] = Zero]
    /\ Goto(c, "peek")
    /\ UNCHANGED <<mem, head, tail, trailing, size, at, tries, left>>

(* The caller is done with the message: release() reads the header again.  *)
Release(c) ==
    /\ pc[c] = "use"
    /\ size' = [size EXCEPT ![c] = mem[Place(at[c])].val]
    /\ left' = [left EXCEPT ![c] = mem[Place(at[c])].val]
    /\ Goto(c, "zero")
    /\ UNCHANGED <<mem, head, tail, trailing, seen, at, tries, ind>>

(* zero() clears the entry block by block from its end to its header.      *)
HeaderLeft(c) == left[c] <= 1
Cleared(c) == left[c] = 0

ZeroBlock(c) ==
    /\ pc[c] = "zero"
    /\ ~Cleared(c)
    /\ Store(Place(at[c]) + left[c] - 1, Zero)
    /\ left' = [left EXCEPT ![c] = @ - 1]
    /\ UNCHANGED <<head, tail, trailing, pc, size, seen, at, tries, ind>>

ZeroDone(c) ==
    /\ pc[c] = "zero"
    /\ Cleared(c)
    /\ Goto(c, "trail")
    /\ UNCHANGED <<mem, head, tail, trailing, locals>>

(* _trailing.spin_advance() waits for its turn.  After a failed entry      *)
(* pop() goes round again, after release() the call is over.               *)
MyTurn(c) == Place(trailing) = Place(at[c])

AdvanceTrailing(c) ==
    /\ pc[c] = "trail"
    /\ MyTurn(c)
    /\ trailing' = trailing + size[c]
    /\ Return(c, IF ind[c].tag = "failed" THEN "again" ELSE "idle")
    /\ ind' = [ind EXCEPT ![c] = Zero]
    /\ UNCHANGED <<mem, head, tail, tries, left>>

-----------------------------------------------------------------------------
Produce(p) ==
    \/ \E n \in Sizes : Allocate(p, n)
    \/ Reload(p) \/ CheckRoom(p) \/ Retry(p) \/ Overflow(p)
    \/ AdvanceHead(p) \/ MissHead(p)
    \/ MarkSkipped(p) \/ StampSize(p) \/ WriteMessage(p) \/ Push(p)

Consume(c) ==
    \/ LoadTail(c) \/ PeekFree(c) \/ PeekEntry(c)
    \/ AdvanceTail(c) \/ MissTail(c)
    \/ Release(c) \/ ZeroBlock(c) \/ ZeroDone(c) \/ AdvanceTrailing(c)

Next ==
    \/ \E p \in Producers : Produce(p)
    \/ \E c \in Consumers : Consume(c)

Spec == Init /\ [][Next]_vars

(* The operating system schedules every thread, a producer finishes the    *)
(* call it has begun, and the loop thread keeps popping (Bridge shows that *)
(* it is woken as long as there is something to pop).                      *)
Fairness ==
    /\ \A p \in Producers : WF_vars(Produce(p) /\ pc[p] # "idle")
    /\ \A c \in Consumers : WF_vars(Consume(c))
FairSpec == Spec /\ Fairness

-----------------------------------------------------------------------------
TypeOK ==
    /\ mem \in [Blocks -> Cell]
    /\ head \in Nat
    /\ tail \in Nat
    /\ trailing \in Nat
    /\ pc \in [Threads -> ProducerPCs \cup ConsumerPCs]
    /\ \A p \in Producers : pc[p] \in ProducerPCs
    /\ \A c \in Consumers : pc[c] \in ConsumerPCs
    /\ size \in [Threads -> Nat]
    /\ seen \in [Threads -> Nat]
    /\ at \in [Threads -> Nat]
    /\ tries \in [Producers -> 0..Tries]
    /\ ind \in [Consumers -> Cell]
    /\ left \in [Consumers -> Nat]

(* The blocks a thread believes are its own: what a producer has claimed   *)
(* and not yet pushed, what a consumer has popped and not yet released.    *)
OwnedBlocks(t) ==
    CASE pc[t] = "mark" -> BlocksOf(seen[t], BytesToEnd(seen[t])) \cup BlocksOf(at[t], size[t])
      [] pc[t] \in {"stamp", "write", "push", "zero", "trail"} -> BlocksOf(at[t], size[t])
      [] pc[t] = "use" -> BlocksOf(at[t], mem[Place(at[t])].val)
      [] OTHER -> {}

(* "we now have exclusive write-access to our memory" (queue.h:211, 221,   *)
(* 242, 253): no two threads ever own the same block, whatever the         *)
(* interleaving of claims, pops and releases.                              *)
ExclusiveAccess ==
    \A t, u \in Threads : t # u => OwnedBlocks(t) \cap OwnedBlocks(u) = {}

(* No thread addresses memory behind the end of the buffer, although the   *)
(* constructor and zero() never reduce an address modulo BufferSize.       *)
InsideBuffer == \A t \in Threads : OwnedBlocks(t) \subseteq Blocks

(* What a consumer reads is the whole of the message that was constructed  *)
(* behind the header it popped: no block of it is overwritten or cleared.  *)
MessageIntact ==
    \A c \in Consumers : pc[c] = "use" =>
        \A b \in OwnedBlocks(c) \ {Place(at[c])} : mem[b] = Payload(at[c])

(* The indicator that pop() loaded before its compare-exchange (queue.h:   *)
(* 236) may be stale or even payload, but if the compare-exchange of _tail *)
(* can succeed it is the indicator of the entry at the tail.               *)
CurrentIndicator ==
    \A c \in Consumers : pc[c] = "take" /\ Place(tail) = Place(seen[c]) =>
        /\ ind[c] = mem[Place(tail)]
        /\ ind[c].tag \in {"committed", "failed"}

(* The three pointers keep their order and head never laps trailing: the   *)
(* comment "check for lapping" (queue.h:167).                              *)
NeverLapped ==
    /\ trailing <= tail
    /\ tail <= head
    /\ head < trailing + BufferSize

(* Memory that nobody has claimed is clear, so that a claimed header reads *)
(* as free until its producer stamps it.                                   *)
UnclaimedIsZero ==
    \A pos \in head .. (trailing + BufferSize - 1) : mem[Place(pos)] = Zero

(* Whatever is claimed is in the end released: no entry is lost to a wrap, *)
(* no producer stays in claim() and no consumer spins on _trailing for     *)
(* ever, however the claims, pops and releases interleave.                 *)
ClaimsAreReleased ==
    \A pos \in 0 .. MaxPos : (head > pos) ~> (trailing > pos)

-----------------------------------------------------------------------------
(* The queue as its users see it.  A message is taken from the memory it   *)
(* lies in, so that a lost, repeated or overwritten one shows.             *)
MessageAt(pos) == mem[Place(pos + 1)].val

CommittedHeaders == {pos \in tail .. (head - 1) : mem[Place(pos)].tag = "committed"}

Abstract == INSTANCE MessageQueue WITH
    None <- -1,
    next <- head,
    filling <- [p \in Producers |->
                  IF pc[p] \in {"mark", "stamp", "write", "push"} THEN at[p] ELSE -1],
    ready <- {MessageAt(pos) : pos \in CommittedHeaders},
    using <- [c \in Consumers |-> IF pc[c] = "use" THEN MessageAt(at[c]) ELSE -1]

(* queue.h implements the queue that its users rely on: messages are       *)
(* popped in the order they were allocated in, each by one consumer, whole *)
(* and not before they are pushed; skipping the end of the buffer, lost    *)
(* races and releases out of order are all invisible.                      *)
ImplementsMessageQueue == Abstract!Spec
=============================================================================
