-------------------------- MODULE RingQueueProofs ---------------------------
(***************************************************************************)
(* The queue is safe for every number of producers and consumers, every    *)
(* size of the buffer and every set of allocation sizes, as long as no     *)
(* pointer goes round the buffer under a stalled thread (MayLap = FALSE).  *)
(***************************************************************************)
EXTENDS RingQueue, TLAPS

(* A place lies in the buffer.                                             *)
LEMMA PlaceType ==
    ASSUME NEW pos \in Int
    PROVE  /\ Place(pos) \in Blocks
           /\ Place(pos) \in Nat
           /\ Place(pos) < BufferSize
BY SizeAssumption DEF Place, Blocks

(* There is at least one block up to the end of the buffer and at most     *)
(* the whole of it.                                                        *)
LEMMA BytesToEndType ==
    ASSUME NEW pos \in Nat
    PROVE  /\ BytesToEnd(pos) \in 1 .. BufferSize
           /\ BytesToEnd(pos) = BufferSize - Place(pos)
BY PlaceType, SizeAssumption DEF BytesToEnd, BytesBetween

LEMMA ClaimType ==
    ASSUME NEW n \in Nat, NEW pos \in Nat
    PROVE  ClaimOf(n, pos) \in Nat /\ ClaimOf(n, pos) >= n
BY BytesToEndType, SizeAssumption DEF ClaimOf, Wraps

(* Every variable keeps its type: pointers never go negative, a producer   *)
(* never holds a consumer's label, retries never run below zero.           *)
THEOREM TypeCorrect == Spec => []TypeOK
<1>1. Init => TypeOK
  BY SizeAssumption DEF Init, TypeOK, Cell, Tags, Zero, Threads, ProducerPCs, ConsumerPCs
<1>2. TypeOK /\ [Next]_vars => TypeOK'
  <2> SUFFICES ASSUME TypeOK, [Next]_vars
               PROVE  TypeOK'
    OBVIOUS
  <2> USE DEF TypeOK, Threads, Goto, Return, locals, ProducerPCs
  <2>1. ASSUME NEW p \in Producers, NEW n \in Sizes, Allocate(p, n)
        PROVE  TypeOK'
    BY <2>1, SizeAssumption, ThreadAssumption DEF Allocate
  <2>2. ASSUME NEW p \in Producers, Reload(p)
        PROVE  TypeOK'
    BY <2>2, ThreadAssumption DEF Reload
  <2>3. ASSUME NEW p \in Producers, CheckRoom(p)
        PROVE  TypeOK'
    BY <2>3, ThreadAssumption DEF CheckRoom
  <2>4. ASSUME NEW p \in Producers, Retry(p)
        PROVE  TypeOK'
    BY <2>4, ThreadAssumption, SizeAssumption DEF Retry, MayRetry
  <2>5. ASSUME NEW p \in Producers, Overflow(p)
        PROVE  TypeOK'
    BY <2>5, ThreadAssumption DEF Overflow
  <2>6. ASSUME NEW p \in Producers, AdvanceHead(p)
        PROVE  TypeOK'
    <3>1. size[p] \in Nat /\ seen[p] \in Nat
      OBVIOUS
    <3>2. /\ ClaimOf(size[p], seen[p]) \in Nat
          /\ ClaimOf(size[p], seen[p]) >= size[p]
      BY ONLY <3>1, ClaimType
    <3>3. ClaimOf(size[p], seen[p]) - size[p] \in Nat
      BY ONLY <3>1, <3>2
    <3>4. QED
      BY <2>6, <3>2, <3>3, ThreadAssumption DEF AdvanceHead
  <2>7. ASSUME NEW p \in Producers, MissHead(p)
        PROVE  TypeOK'
    BY <2>7, ThreadAssumption DEF MissHead
  <2>8. ASSUME NEW p \in Producers, MarkSkipped(p)
        PROVE  TypeOK'
    <3>1. BytesToEnd(seen[p]) \in Nat
      BY BytesToEndType, SizeAssumption
    <3>2. QED
      BY <2>8, <3>1, ThreadAssumption DEF MarkSkipped, Skipped, Store, Cell, Tags
  <2>9. ASSUME NEW p \in Producers, StampSize(p)
        PROVE  TypeOK'
    BY <2>9, ThreadAssumption DEF StampSize, Store, Cell, Tags
  <2>10. ASSUME NEW p \in Producers, WriteMessage(p)
         PROVE  TypeOK'
    BY <2>10, ThreadAssumption DEF WriteMessage, Payload, Cell, Tags
  <2>11. ASSUME NEW p \in Producers, Push(p)
         PROVE  TypeOK'
    <3>1. mem[Place(at[p])].val \in Nat
      BY PlaceType DEF Cell
    <3>2. [tag |-> "committed", val |-> mem[Place(at[p])].val] \in Cell
      BY <3>1 DEF Cell, Tags
    <3>3. mem' \in [Blocks -> Cell]
      BY <2>11, <3>2 DEF Push, Store
    <3>4. tries' \in [Producers -> 0..Tries]
      BY <2>11, SizeAssumption DEF Push
    <3>5. QED
      BY <2>11, <3>3, <3>4, ThreadAssumption DEF Push
  <2>12. ASSUME NEW c \in Consumers, LoadTail(c)
         PROVE  TypeOK'
    BY <2>12, ThreadAssumption DEF LoadTail, ConsumerPCs
  <2>13. ASSUME NEW c \in Consumers, PeekFree(c)
         PROVE  TypeOK'
    BY <2>13, ThreadAssumption DEF PeekFree, ConsumerPCs
  <2>14. ASSUME NEW c \in Consumers, PeekEntry(c)
         PROVE  TypeOK'
    <3>1. mem[Place(seen[c])] \in Cell
      BY PlaceType
    <3>2. QED
      BY <2>14, <3>1, ThreadAssumption DEF PeekEntry, ConsumerPCs
  <2>15. ASSUME NEW c \in Consumers, AdvanceTail(c)
         PROVE  TypeOK'
    <3>1. ind[c].val \in Nat
      BY DEF Cell
    <3>2. pc' \in [Threads -> ProducerPCs \cup ConsumerPCs] /\ pc'[c] \in ConsumerPCs
      BY <2>15 DEF AdvanceTail, ConsumerPCs
    <3>3. size' \in [Threads -> Nat] /\ left' \in [Consumers -> Nat]
      BY <2>15, <3>1 DEF AdvanceTail
    <3>4. \A t \in Threads \ {c} : pc'[t] = pc[t]
      BY <2>15 DEF AdvanceTail
    <3>5. QED
      BY <2>15, <3>1, <3>2, <3>3, <3>4, ThreadAssumption DEF AdvanceTail
  <2>16. ASSUME NEW c \in Consumers, MissTail(c)
         PROVE  TypeOK'
    BY <2>16, ThreadAssumption DEF MissTail, ConsumerPCs, Zero, Cell, Tags
  <2>17. ASSUME NEW c \in Consumers, Release(c)
         PROVE  TypeOK'
    <3>1. mem[Place(at[c])].val \in Nat
      BY PlaceType DEF Cell
    <3>2. QED
      BY <2>17, <3>1, ThreadAssumption DEF Release, ConsumerPCs
  <2>18. ASSUME NEW c \in Consumers, ZeroBlock(c)
         PROVE  TypeOK'
    <3>1. Zero \in Cell
      BY DEF Zero, Cell, Tags
    <3>2. mem' \in [Blocks -> Cell]
      BY <2>18, <3>1 DEF ZeroBlock, Store
    <3>3. left' \in [Consumers -> Nat]
      BY <2>18 DEF ZeroBlock, Cleared
    <3>4. QED
      BY <2>18, <3>2, <3>3, ThreadAssumption DEF ZeroBlock
  <2>19. ASSUME NEW c \in Consumers, ZeroDone(c)
         PROVE  TypeOK'
    BY <2>19, ThreadAssumption DEF ZeroDone, ConsumerPCs
  <2>20. ASSUME NEW c \in Consumers, AdvanceTrailing(c)
         PROVE  TypeOK'
    BY <2>20, ThreadAssumption DEF AdvanceTrailing, ConsumerPCs, Zero, Cell, Tags
  <2>21. CASE UNCHANGED vars
    BY <2>21 DEF vars
  <2>22. QED
    BY <2>1, <2>2, <2>3, <2>4, <2>5, <2>6, <2>7, <2>8, <2>9, <2>10, <2>11, <2>12,
       <2>13, <2>14, <2>15, <2>16, <2>17, <2>18, <2>19, <2>20, <2>21
       DEF Next, Produce, Consume
<1>3. QED
  BY <1>1, <1>2, PTL DEF Spec

-----------------------------------------------------------------------------
(* Places: where a distance ends up in the buffer.                         *)
LEMMA Quotient ==
    ASSUME NEW pos \in Nat
    PROVE  \E q \in Nat : pos = BufferSize * q + Place(pos)
<1>1. BufferSize \in Nat \ {0}
  BY SizeAssumption
<1>2. pos = BufferSize * (pos \div BufferSize) + (pos % BufferSize) /\ pos \div BufferSize \in Nat
  BY <1>1, SMT
<1>3. QED
  BY <1>2 DEF Place

LEMMA NotBefore ==
    ASSUME NEW a \in Nat, NEW b \in Nat, NEW r \in 0 .. BufferSize - 1,
           NEW s \in 0 .. BufferSize - 1, BufferSize * a + r = BufferSize * b + s
    PROVE  ~(a < b)
<1>1. BufferSize \in Nat \ {0}
  BY SizeAssumption
<1>2. ASSUME a < b
      PROVE  FALSE
  <2>1. PICK d \in Nat : b = a + 1 + d
    BY <1>2
  <2>2. /\ BufferSize * b = BufferSize * a + BufferSize + BufferSize * d
        /\ BufferSize * d \in Nat /\ BufferSize * a \in Nat
    BY ONLY <2>1, <1>1, a \in Nat, SMT
  <2>3. QED
    BY <2>2, <1>1
<1>3. QED
  BY <1>2

LEMMA OneQuotient ==
    ASSUME NEW a \in Nat, NEW b \in Nat, NEW r \in 0 .. BufferSize - 1,
           NEW s \in 0 .. BufferSize - 1, BufferSize * a + r = BufferSize * b + s
    PROVE  r = s
<1>1. BufferSize \in Nat \ {0}
  BY SizeAssumption
<1>2. a = b
  BY NotBefore
<1>3. BufferSize * a \in Nat
  BY <1>1
<1>4. QED
  BY <1>2, <1>3

(* Two distances that differ by less than the buffer have different places.*)
LEMMA OnePlace ==
    ASSUME NEW a \in Nat, NEW b \in Nat, a <= b, b < a + BufferSize, Place(a) = Place(b)
    PROVE  a = b
<1>1. BufferSize \in Nat \ {0} /\ Place(a) \in 0 .. BufferSize - 1
  BY SizeAssumption, PlaceType DEF Blocks
<1>2. PICK q \in Nat : a = BufferSize * q + Place(a)
  BY Quotient
<1>3. PICK r \in Nat : b = BufferSize * r + Place(b)
  BY Quotient
<1>4. BufferSize * q \in Nat /\ BufferSize * r \in Nat
  BY <1>1
<1>5. BufferSize * q <= BufferSize * r /\ BufferSize * r < BufferSize * q + BufferSize
  BY <1>1, <1>2, <1>3, <1>4
<1>6. PICK d \in 0 .. BufferSize - 1 : BufferSize * r = BufferSize * q + d
  BY <1>1, <1>4, <1>5
<1>7. BufferSize * r + 0 = BufferSize * q + d /\ 0 \in 0 .. BufferSize - 1
  BY <1>1, <1>4, <1>6
<1>8. d = 0
  BY <1>7, OneQuotient
<1>9. QED
  BY <1>1, <1>2, <1>3, <1>4, <1>6, <1>8

(* An entry that does not go over the end lies in one piece.               *)
LEMMA Along ==
    ASSUME NEW pos \in Nat, NEW i \in Nat, Place(pos) + i < BufferSize
    PROVE  Place(pos + i) = Place(pos) + i
<1>1. BufferSize \in Nat \ {0} /\ Place(pos) \in 0 .. BufferSize - 1
  BY SizeAssumption, PlaceType DEF Blocks
<1>2. Place(pos + i) \in 0 .. BufferSize - 1 /\ pos + i \in Nat
  BY PlaceType DEF Blocks
<1>3. PICK q \in Nat : pos = BufferSize * q + Place(pos)
  BY Quotient
<1>4. PICK r \in Nat : pos + i = BufferSize * r + Place(pos + i)
  BY <1>2, Quotient
<1>5. BufferSize * q \in Nat /\ BufferSize * r \in Nat
  BY <1>1
<1>6. Place(pos) + i \in 0 .. BufferSize - 1
  BY <1>1
<1>7. BufferSize * r + Place(pos + i) = BufferSize * q + (Place(pos) + i)
  <2>1. PICK k \in Nat : k = BufferSize * q
    BY <1>5
  <2>2. pos + i = k + (Place(pos) + i)
    BY <1>1, <1>3, <2>1
  <2>3. QED
    BY <1>4, <2>1, <2>2
<1>8. QED
  BY <1>2, <1>6, <1>7, OneQuotient

LEMMA Pieces ==
    ASSUME NEW pos \in Nat, NEW n \in Nat, Place(pos) + n <= BufferSize
    PROVE  /\ BlocksOf(pos, n) = {Place(x) : x \in pos .. pos + n - 1}
           /\ BlocksOf(pos, n) \subseteq Blocks
           /\ PayloadOf(pos, n) = {Place(x) : x \in pos + 1 .. pos + n - 1}
           /\ \A i \in 0 .. n - 1 : Place(pos + i) = Place(pos) + i
<1>1. BufferSize \in Nat \ {0} /\ Place(pos) \in 0 .. BufferSize - 1
  BY SizeAssumption, PlaceType DEF Blocks
<1>2. \A i \in 0 .. n - 1 : Place(pos + i) = Place(pos) + i
  BY <1>1, Along
<1>3. \A x \in pos .. pos + n - 1 : x - pos \in 0 .. n - 1 /\ pos + (x - pos) = x
  OBVIOUS
<1>4. \A x \in pos .. pos + n - 1 : Place(x) = Place(pos) + (x - pos)
  BY <1>2, <1>3
<1>5. ASSUME NEW b \in BlocksOf(pos, n)
      PROVE  /\ pos + (b - Place(pos)) \in pos .. pos + n - 1
             /\ Place(pos + (b - Place(pos))) = b
  <2>1. b - Place(pos) \in 0 .. n - 1 /\ b \in Int
    BY <1>1, <1>5 DEF BlocksOf
  <2>2. QED
    BY <1>1, <1>2, <2>1
<1>6. ASSUME NEW x \in pos .. pos + n - 1
      PROVE  Place(x) \in BlocksOf(pos, n)
  BY <1>1, <1>4 DEF BlocksOf
<1>7. BlocksOf(pos, n) = {Place(x) : x \in pos .. pos + n - 1}
  BY <1>5, <1>6
<1>8. BlocksOf(pos, n) \subseteq Blocks
  BY <1>1 DEF BlocksOf, Blocks
<1>9. PayloadOf(pos, n) = {Place(x) : x \in pos + 1 .. pos + n - 1}
  <2>1. ASSUME NEW b \in PayloadOf(pos, n)
        PROVE  b \in {Place(x) : x \in pos + 1 .. pos + n - 1}
    <3>1. b \in BlocksOf(pos, n) /\ b # Place(pos)
      BY DEF PayloadOf
    <3>2. PICK x \in pos .. pos + n - 1 : b = Place(x)
      BY <1>7, <3>1
    <3>3. x \in pos + 1 .. pos + n - 1
      BY <3>1, <3>2
    <3>4. QED
      BY <3>2, <3>3
  <2>2. ASSUME NEW x \in pos + 1 .. pos + n - 1
        PROVE  Place(x) \in PayloadOf(pos, n)
    <3>1. x \in pos .. pos + n - 1 /\ x - pos # 0
      OBVIOUS
    <3>2. Place(x) # Place(pos)
      BY <1>1, <1>4, <3>1
    <3>3. QED
      BY <1>6, <3>1, <3>2 DEF PayloadOf
  <2>3. QED
    BY <2>1, <2>2
<1>10. QED
  BY <1>2, <1>7, <1>8, <1>9

(* The rest of the buffer leads to its start.                              *)
LEMMA ToTheStart ==
    ASSUME NEW pos \in Nat
    PROVE  /\ BytesToEnd(pos) \in 1 .. BufferSize
           /\ Place(pos) + BytesToEnd(pos) = BufferSize
           /\ Place(pos + BytesToEnd(pos)) = 0
<1>1. BufferSize \in Nat \ {0} /\ Place(pos) \in 0 .. BufferSize - 1
  BY SizeAssumption, PlaceType DEF Blocks
<1>2. BytesToEnd(pos) \in 1 .. BufferSize /\ BytesToEnd(pos) = BufferSize - Place(pos)
  BY BytesToEndType
<1>3. PICK q \in Nat : pos = BufferSize * q + Place(pos)
  BY Quotient
<1>4. pos + BytesToEnd(pos) \in Nat
  BY <1>2
<1>5. PICK r \in Nat : pos + BytesToEnd(pos) = BufferSize * r + Place(pos + BytesToEnd(pos))
  BY <1>4, Quotient
<1>6. Place(pos + BytesToEnd(pos)) \in 0 .. BufferSize - 1
  BY <1>4, PlaceType DEF Blocks
<1>7. BufferSize * (q + 1) = BufferSize * q + BufferSize /\ BufferSize * q \in Nat
  BY <1>1
<1>8. BufferSize * r + Place(pos + BytesToEnd(pos)) = BufferSize * (q + 1) + 0
  BY <1>1, <1>2, <1>3, <1>5, <1>7
<1>9. Place(pos + BytesToEnd(pos)) = 0
  <2>1. q + 1 \in Nat /\ 0 \in 0 .. BufferSize - 1
    BY <1>1
  <2>2. QED
    BY <1>6, <1>8, <2>1, OneQuotient
<1>10. QED
  BY <1>1, <1>2, <1>9

(* What _claim() computes when _head has not moved: the distance that may  *)
(* be claimed before _trailing is reached.                                 *)
LEMMA DistanceLeft ==
    ASSUME NEW h \in Nat, NEW t \in Nat, t <= h, h < t + BufferSize
    PROVE  BytesBetween(h, t) = t + BufferSize - h
<1>1. BufferSize \in Nat \ {0} /\ h - t \in 0 .. BufferSize - 1 /\ h - t \in Nat
  BY SizeAssumption
<1>2. Place(h - t) \in 0 .. BufferSize - 1
  BY <1>1, PlaceType DEF Blocks
<1>3. PICK q \in Nat : h - t = BufferSize * q + Place(h - t)
  <2> DEFINE d == h - t
  <2>1. d \in Nat
    BY <1>1
  <2> HIDE DEF d
  <2>2. \E q \in Nat : d = BufferSize * q + Place(d)
    BY <2>1, Quotient
  <2>3. QED
    BY <2>2 DEF d
<1>4. BufferSize * 0 + (h - t) = BufferSize * q + Place(h - t)
  BY <1>1, <1>3
<1>5. h - t = Place(h - t)
  BY <1>1, <1>2, <1>4, OneQuotient
<1>6. QED
  BY <1>1, <1>5 DEF BytesBetween

-----------------------------------------------------------------------------
(* The inductive invariant.  S is the set of the positions at which an     *)
(* entry starts or started, skipped ends of the buffer among them, and     *)
(* n[s] the blocks of the entry at s.  The entries cover what was claimed, *)
(* without overlap and none over the end of the buffer.                    *)
Tiling(S, n) ==
    /\ S \subseteq Nat /\ n \in [Nat -> Nat]
    /\ \A s \in S : n[s] > 0 /\ s + n[s] <= head /\ Place(s) + n[s] <= BufferSize
    /\ \A s, u \in S : s < u => s + n[s] <= u
    /\ \A pos \in 0 .. head - 1 : \E s \in S : s <= pos /\ pos < s + n[s]

Pointers(S) == NeverLapped /\ (tail = head \/ tail \in S)

Word(pos) == mem[Place(pos)]
Written(s, k) == \A x \in s + 1 .. s + k - 1 : Word(x) = Payload(s)

(* What a producer has claimed is an entry behind _tail, with a header that*)
(* reads as free until it pushes.                                          *)
Fills(p) == pc[p] \in {"mark", "stamp", "write", "push"}
FillingOK(p, S, n) ==
    /\ Fills(p) => at[p] \in S /\ tail <= at[p] /\ size[p] = n[at[p]] /\ size[p] > 1
    /\ pc[p] = "mark" =>
          /\ seen[p] \in S /\ tail <= seen[p] /\ seen[p] < at[p]
          /\ n[seen[p]] = BytesToEnd(seen[p])
          /\ Word(seen[p]) = Zero
    /\ pc[p] \in {"mark", "stamp"} => Word(at[p]) = Zero
    /\ pc[p] \in {"write", "push"} => Word(at[p]) = [tag |-> "free", val |-> size[p]]
    /\ pc[p] = "push" => Written(at[p], size[p])

(* What a consumer has popped is an entry between _trailing and _tail.     *)
Holds(c) == pc[c] \in {"use", "zero", "trail"}
HoldingOK(c, S, n) ==
    /\ Holds(c) => at[c] \in S /\ trailing <= at[c] /\ at[c] < tail
    /\ pc[c] = "use" =>
          /\ Word(at[c]) = [tag |-> "committed", val |-> n[at[c]]]
          /\ n[at[c]] > 1 /\ Written(at[c], n[at[c]])
    /\ pc[c] \in {"zero", "trail"} =>
          /\ size[c] = n[at[c]] /\ left[c] \in 0 .. size[c]
          /\ \A x \in at[c] + left[c] .. at[c] + size[c] - 1 : Word(x) = Zero
    /\ pc[c] = "trail" => left[c] = 0

(* No two threads have the same entry.                                     *)
Apart ==
    /\ \A p, q \in Producers : p # q /\ Fills(p) /\ Fills(q) =>
          /\ at[p] # at[q]
          /\ pc[p] = "mark" => seen[p] # at[q]
          /\ pc[p] = "mark" /\ pc[q] = "mark" => seen[p] # seen[q]
    /\ \A c, d \in Consumers : c # d /\ Holds(c) /\ Holds(d) => at[c] # at[d]

(* An entry that pop() may take has its size in its header, and behind it  *)
(* the message.                                                            *)
WaitingOK(s, n) ==
    tail <= s =>
        /\ Word(s).tag # "payload"
        /\ Word(s).tag \in {"committed", "failed"} => Word(s).val = n[s]
        /\ Word(s).tag = "committed" => n[s] > 1 /\ Written(s, n[s])

(* Behind the first block of an entry there is nothing that could be taken *)
(* for a message that is ready.                                            *)
Window == trailing .. trailing + BufferSize - 1
Inner(S) == \A pos \in Window : pos \notin S => Word(pos).tag \in {"free", "payload"}

(* What a thread has loaded and will compare: either the pointer has not   *)
(* moved since, and the rest of what was loaded is true still, or it has,  *)
(* and shows another place.                                                *)
ProducerLoaded(p) ==
    /\ pc[p] \in {"load", "check", "advance"} => size[p] \in Sizes
    /\ pc[p] \in {"check", "advance"} => seen[p] <= head /\ head < seen[p] + BufferSize
    /\ pc[p] = "advance" /\ seen[p] = head =>
          head + ClaimOf(size[p], head) < trailing + BufferSize
ConsumerLoaded(c) ==
    /\ pc[c] \in {"peek", "take"} => seen[c] <= tail /\ tail < seen[c] + BufferSize
    /\ pc[c] = "take" /\ seen[c] = tail =>
          /\ tail < head
          /\ ind[c] = Word(tail) /\ ind[c].tag \in {"committed", "failed"}

Layout(S, n) ==
    /\ Tiling(S, n)
    /\ Pointers(S)
    /\ \A p \in Producers : FillingOK(p, S, n) /\ ProducerLoaded(p)
    /\ \A c \in Consumers : HoldingOK(c, S, n) /\ ConsumerLoaded(c)
    /\ Apart
    /\ \A s \in S : WaitingOK(s, n)
    /\ Inner(S)
    /\ UnclaimedIsZero

SafeInv == TypeOK /\ \E S, n : Layout(S, n)

-----------------------------------------------------------------------------
(* What the types say of one thread.                                       *)
LEMMA ThreadTypes ==
    ASSUME TypeOK
    PROVE  /\ head \in Nat /\ tail \in Nat /\ trailing \in Nat
           /\ mem \in [Blocks -> Cell]
           /\ \A t \in Threads : size[t] \in Nat /\ seen[t] \in Nat /\ at[t] \in Nat
           /\ \A p \in Producers : p \in Threads /\ p \notin Consumers /\ pc[p] \in ProducerPCs
           /\ \A c \in Consumers : /\ c \in Threads /\ c \notin Producers /\ pc[c] \in ConsumerPCs
                                   /\ ind[c] \in Cell /\ left[c] \in Nat
           /\ BufferSize \in Nat \ {0}
           /\ \A pos \in Nat : Place(pos) \in Blocks /\ Word(pos) \in Cell
           /\ \A k \in Sizes : k \in 2 .. BufferSize
BY ThreadAssumption, SizeAssumption, PlaceType DEF TypeOK, Threads, Word

(* The blocks of an entry, by their positions.                             *)
LEMMA EntryBlocks ==
    ASSUME TypeOK, NEW S, NEW n, Tiling(S, n), NEW s \in S
    PROVE  /\ s \in Nat /\ n[s] \in Nat /\ n[s] > 0 /\ s + n[s] <= head
           /\ Place(s) + n[s] <= BufferSize
           /\ BlocksOf(s, n[s]) = {Place(x) : x \in s .. s + n[s] - 1}
           /\ BlocksOf(s, n[s]) \subseteq Blocks
           /\ PayloadOf(s, n[s]) = {Place(x) : x \in s + 1 .. s + n[s] - 1}
           /\ \A i \in 0 .. n[s] - 1 : Place(s + i) = Place(s) + i
<1>1. /\ s \in Nat /\ n[s] \in Nat /\ n[s] > 0 /\ s + n[s] <= head
      /\ Place(s) + n[s] <= BufferSize
  BY DEF Tiling
<1>2. QED
  BY <1>1, Pieces

(* Behind an entry comes another one, or what is not claimed.              *)
LEMMA NextEntry ==
    ASSUME TypeOK, NEW S, NEW n, Tiling(S, n), NEW s \in S
    PROVE  s + n[s] = head \/ s + n[s] \in S
<1>1. s \in Nat /\ n[s] \in Nat /\ n[s] > 0 /\ s + n[s] <= head /\ head \in Nat
  BY EntryBlocks, ThreadTypes
<1>2. SUFFICES ASSUME s + n[s] # head
               PROVE  s + n[s] \in S
  OBVIOUS
<1>3. s + n[s] \in 0 .. head - 1
  BY <1>1, <1>2
<1>4. PICK u \in S : u <= s + n[s] /\ s + n[s] < u + n[u]
  BY <1>3 DEF Tiling
<1>5. u \in Nat /\ n[u] \in Nat
  BY EntryBlocks
<1>6. u < s => u + n[u] <= s
  BY DEF Tiling
<1>7. s < u => s + n[s] <= u
  BY DEF Tiling
<1>8. u = s + n[s]
  BY <1>1, <1>4, <1>5, <1>6, <1>7
<1>9. QED
  BY <1>8

(* Positions within the buffer of each other: the same only with the same  *)
(* place.                                                                  *)
LEMMA InWindow ==
    ASSUME TypeOK, NEW x \in Window, NEW y \in Window, Place(x) = Place(y)
    PROVE  x = y
<1>1. /\ x \in Nat /\ y \in Nat /\ trailing \in Nat /\ BufferSize \in Nat
      /\ x < y + BufferSize /\ y < x + BufferSize
  BY ThreadTypes DEF Window
<1>2. x <= y \/ y <= x
  BY <1>1
<1>3. QED
  BY <1>1, <1>2, OnePlace

LEMMA EntryInWindow ==
    ASSUME TypeOK, NEW S, NEW n, Tiling(S, n), Pointers(S), NEW s \in S, trailing <= s
    PROVE  /\ \A x \in s .. s + n[s] - 1 : x \in Window
           /\ s \in s .. s + n[s] - 1
BY EntryBlocks, ThreadTypes DEF Window, Pointers, NeverLapped

(* A store to one position leaves the others alone.                        *)
LEMMA StoreElsewhere ==
    ASSUME TypeOK, NEW x \in Window, NEW cell, Store(Place(x), cell)
    PROVE  /\ mem'[Place(x)] = cell
           /\ \A y \in Window : y # x => mem'[Place(y)] = mem[Place(y)]
<1>1. x \in Nat /\ Place(x) \in Blocks /\ mem \in [Blocks -> Cell]
  BY ThreadTypes DEF Window
<1>2. mem'[Place(x)] = cell
  BY <1>1 DEF Store
<1>3. ASSUME NEW y \in Window, y # x
      PROVE  mem'[Place(y)] = mem[Place(y)]
  <2>1. Place(y) # Place(x)
    BY <1>3, InWindow
  <2>2. Place(y) \in Blocks
    BY ThreadTypes DEF Window
  <2>3. QED
    BY <1>1, <2>1, <2>2 DEF Store
<1>4. QED
  BY <1>2, <1>3

-----------------------------------------------------------------------------
(* What a step leaves alone when it does not write to an entry.            *)
SameWords(S, n, s) == \A x \in s .. s + n[s] - 1 : mem'[Place(x)] = mem[Place(x)]

LEMMA SameFilling ==
    ASSUME TypeOK, NEW S, NEW n, Tiling(S, n), NEW p \in Producers, FillingOK(p, S, n),
           pc'[p] = pc[p], size'[p] = size[p], seen'[p] = seen[p], at'[p] = at[p],
           Fills(p) => tail' <= at[p] /\ SameWords(S, n, at[p]),
           pc[p] = "mark" => tail' <= seen[p] /\ SameWords(S, n, seen[p])
    PROVE  FillingOK(p, S, n)'
<1>1. CASE ~Fills(p)
  BY <1>1 DEF FillingOK, Fills
<1>2. CASE Fills(p)
  <2>1. /\ at[p] \in S /\ size[p] = n[at[p]] /\ size[p] \in Nat /\ at[p] \in Nat
        /\ size[p] > 0 /\ at[p] \in at[p] .. at[p] + size[p] - 1
    BY <1>2, EntryBlocks, ThreadTypes DEF FillingOK
  <2>2. \A x \in at[p] .. at[p] + size[p] - 1 : mem'[Place(x)] = mem[Place(x)]
    BY <1>2, <2>1 DEF SameWords
  <2>3. \A x \in at[p] + 1 .. at[p] + size[p] - 1 : mem'[Place(x)] = mem[Place(x)]
    BY <2>1, <2>2
  <2>4. pc[p] = "push" => \A x \in at[p] + 1 .. at[p] + size[p] - 1 : mem'[Place(x)] = Payload(at[p])
    BY <2>3 DEF FillingOK, Written, Word
  <2>5. pc[p] = "mark" => mem'[Place(seen[p])] = Zero
    <3>1. SUFFICES ASSUME pc[p] = "mark"
                   PROVE  mem'[Place(seen[p])] = Zero
      OBVIOUS
    <3>2. seen[p] \in S /\ Word(seen[p]) = Zero
      BY <3>1 DEF FillingOK
    <3>3. seen[p] \in seen[p] .. seen[p] + n[seen[p]] - 1
      BY <3>2, EntryBlocks
    <3>4. QED
      BY <3>1, <3>2, <3>3 DEF SameWords, Word
  <2>6. mem'[Place(at[p])] = mem[Place(at[p])]
    BY <2>1, <2>2
  <2>7. (pc[p] = "push" => Written(at[p], size[p]))'
    BY <2>4 DEF Written, Word
  <2>8. QED
    BY <1>2, <2>1, <2>5, <2>6, <2>7 DEF FillingOK, Fills, Word
<1>3. QED
  BY <1>1, <1>2

LEMMA SameHolding ==
    ASSUME TypeOK, NEW S, NEW n, Tiling(S, n), NEW c \in Consumers, HoldingOK(c, S, n),
           pc'[c] = pc[c], size'[c] = size[c], at'[c] = at[c], left'[c] = left[c],
           tail <= tail', tail' \in Nat,
           Holds(c) => trailing' <= at[c] /\ SameWords(S, n, at[c])
    PROVE  HoldingOK(c, S, n)'
<1>1. CASE ~Holds(c)
  BY <1>1 DEF HoldingOK, Holds
<1>2. CASE Holds(c)
  <2>1. /\ at[c] \in S /\ n[at[c]] \in Nat /\ at[c] \in Nat /\ n[at[c]] > 0
        /\ at[c] \in at[c] .. at[c] + n[at[c]] - 1
        /\ left[c] \in Nat /\ size[c] \in Nat /\ at[c] < tail /\ tail \in Nat
    BY <1>2, EntryBlocks, ThreadTypes DEF HoldingOK
  <2>2. \A x \in at[c] .. at[c] + n[at[c]] - 1 : mem'[Place(x)] = mem[Place(x)]
    BY <1>2, <2>1 DEF SameWords
  <2>3. \A x \in at[c] + 1 .. at[c] + n[at[c]] - 1 : mem'[Place(x)] = mem[Place(x)]
    BY <2>1, <2>2
  <2>4. pc[c] = "use" => (Written(at[c], n[at[c]]))'
    BY <2>3 DEF HoldingOK, Written, Word
  <2>5. pc[c] \in {"zero", "trail"} =>
            \A x \in at[c] + left[c] .. at[c] + size[c] - 1 : mem'[Place(x)] = Zero
    <3>1. SUFFICES ASSUME pc[c] \in {"zero", "trail"},
                          NEW x \in at[c] + left[c] .. at[c] + size[c] - 1
                   PROVE  mem'[Place(x)] = Zero
      OBVIOUS
    <3>2. size[c] = n[at[c]] /\ Word(x) = Zero
      BY <3>1 DEF HoldingOK
    <3>3. x \in at[c] .. at[c] + n[at[c]] - 1
      BY <2>1, <3>2
    <3>4. QED
      BY <2>2, <3>2, <3>3 DEF Word
  <2>6. mem'[Place(at[c])] = mem[Place(at[c])]
    BY <2>1, <2>2
  <2>7. at[c] < tail'
    BY <2>1
  <2>8. QED
    BY <1>2, <2>1, <2>4, <2>5, <2>6, <2>7 DEF HoldingOK, Holds, Word
<1>3. QED
  BY <1>1, <1>2

LEMMA SameWaiting ==
    ASSUME TypeOK, NEW S, NEW n, Tiling(S, n), NEW s \in S, WaitingOK(s, n),
           tail' \in Nat, tail <= tail', tail' <= s => SameWords(S, n, s)
    PROVE  WaitingOK(s, n)'
<1>1. SUFFICES ASSUME tail' <= s
               PROVE  /\ (Word(s).tag # "payload")'
                      /\ (Word(s).tag \in {"committed", "failed"} => Word(s).val = n[s])'
                      /\ (Word(s).tag = "committed" => n[s] > 1 /\ Written(s, n[s]))'
  BY DEF WaitingOK
<1>2. s \in Nat /\ n[s] \in Nat /\ n[s] > 0 /\ tail \in Nat /\ tail <= s
  BY <1>1, EntryBlocks, ThreadTypes
<1>3. \A x \in s .. s + n[s] - 1 : mem'[Place(x)] = mem[Place(x)]
  BY <1>1 DEF SameWords
<1>4. \A x \in s + 1 .. s + n[s] - 1 : mem'[Place(x)] = mem[Place(x)]
  BY <1>2, <1>3
<1>5. mem'[Place(s)] = mem[Place(s)]
  BY <1>2, <1>3
<1>6. Written(s, n[s]) => Written(s, n[s])'
  BY <1>4 DEF Written, Word
<1>7. QED
  BY <1>2, <1>5, <1>6 DEF WaitingOK, Word

LEMMA SameProducerLoaded ==
    ASSUME TypeOK, NEW p \in Producers, ProducerLoaded(p),
           pc'[p] = pc[p], size'[p] = size[p], seen'[p] = seen[p],
           head' = head, trailing' \in Nat, trailing <= trailing'
    PROVE  ProducerLoaded(p)'
<1>1. /\ head \in Nat /\ trailing \in Nat /\ size[p] \in Nat /\ BufferSize \in Nat
  BY ThreadTypes
<1>2. ClaimOf(size[p], head) \in Nat
  BY <1>1, ClaimType
<1>3. ClaimOf(size'[p], head') = ClaimOf(size[p], head)
  OBVIOUS
<1>4. QED
  BY <1>1, <1>2, <1>3 DEF ProducerLoaded

LEMMA SameConsumerLoaded ==
    ASSUME TypeOK, NEW c \in Consumers, ConsumerLoaded(c),
           pc'[c] = pc[c], seen'[c] = seen[c], ind'[c] = ind[c],
           tail' = tail, head' \in Nat, head <= head',
           pc[c] = "take" /\ seen[c] = tail => mem'[Place(tail)] = mem[Place(tail)]
    PROVE  ConsumerLoaded(c)'
<1>1. /\ head \in Nat /\ tail \in Nat
  BY ThreadTypes
<1>2. QED
  BY <1>1 DEF ConsumerLoaded, Word

LEMMA SameInner ==
    ASSUME NEW S, Inner(S), NEW R, S \subseteq R, trailing' = trailing,
           \A y \in Window : y \notin R =>
              mem'[Place(y)] = mem[Place(y)] \/ mem'[Place(y)].tag \in {"free", "payload"}
    PROVE  Inner(R)'
BY DEF Inner, Window, Word

(* A step of thread t that moves no pointer and writes to entry e at most. *)
Foreign(e, t) ==
    /\ \A p \in Producers \ {t} : Fills(p) => at[p] # e /\ (pc[p] = "mark" => seen[p] # e)
    /\ \A c \in Consumers \ {t} : Holds(c) => at[c] # e
    /\ e = tail => Word(tail).tag = "free"

Around(S, n, e) ==
    /\ \A s \in S \ {e} : trailing <= s => SameWords(S, n, s)
    /\ \A pos \in head .. trailing + BufferSize - 1 : mem'[Place(pos)] = mem[Place(pos)]

LEMMA OtherThreads ==
    ASSUME TypeOK, NEW S, NEW n, Layout(S, n), NEW t, NEW e,
           head' = head, tail' = tail, trailing' = trailing,
           \A u \in Threads \ {t} : /\ pc'[u] = pc[u] /\ size'[u] = size[u]
                                    /\ seen'[u] = seen[u] /\ at'[u] = at[u],
           \A c \in Consumers \ {t} : ind'[c] = ind[c] /\ left'[c] = left[c],
           Foreign(e, t), Around(S, n, e)
    PROVE  /\ Tiling(S, n)' /\ Pointers(S)' /\ UnclaimedIsZero'
           /\ \A p \in Producers \ {t} : FillingOK(p, S, n)' /\ ProducerLoaded(p)'
           /\ \A c \in Consumers \ {t} : HoldingOK(c, S, n)' /\ ConsumerLoaded(c)'
           /\ \A s \in S \ {e} : WaitingOK(s, n)'
<1>1. /\ head \in Nat /\ tail \in Nat /\ trailing \in Nat /\ trailing <= tail
  BY ThreadTypes DEF Layout, Pointers, NeverLapped
<1>2. Tiling(S, n)
  BY DEF Layout
<1>3. Tiling(S, n)' /\ Pointers(S)' /\ UnclaimedIsZero'
  <2>1. Tiling(S, n)'
    BY <1>2 DEF Tiling
  <2>2. Pointers(S)'
    BY DEF Layout, Pointers, NeverLapped
  <2>3. UnclaimedIsZero'
    BY DEF Layout, UnclaimedIsZero, Around
  <2>4. QED
    BY <2>1, <2>2, <2>3
<1>4. ASSUME NEW p \in Producers \ {t}
      PROVE  FillingOK(p, S, n)' /\ ProducerLoaded(p)'
  <2>1. FillingOK(p, S, n) /\ ProducerLoaded(p) /\ p \in Threads \ {t}
    BY ThreadTypes DEF Layout
  <2>2. Fills(p) => /\ at[p] \in S \ {e} /\ trailing <= at[p] /\ tail' <= at[p]
    BY <1>1, <2>1, ThreadTypes DEF FillingOK, Foreign
  <2>3. pc[p] = "mark" => seen[p] \in S \ {e} /\ trailing <= seen[p] /\ tail' <= seen[p]
    BY <1>1, <2>1, ThreadTypes DEF FillingOK, Foreign, Fills
  <2>4. FillingOK(p, S, n)'
    BY <1>2, <2>1, <2>2, <2>3, SameFilling DEF Around
  <2>5. ProducerLoaded(p)'
    BY <1>1, <2>1, SameProducerLoaded
  <2>6. QED
    BY <2>4, <2>5
<1>5. ASSUME NEW c \in Consumers \ {t}
      PROVE  HoldingOK(c, S, n)' /\ ConsumerLoaded(c)'
  <2>1. HoldingOK(c, S, n) /\ ConsumerLoaded(c) /\ c \in Threads \ {t}
    BY ThreadTypes DEF Layout
  <2>2. Holds(c) => at[c] \in S \ {e} /\ trailing' <= at[c]
    BY <2>1 DEF HoldingOK, Foreign
  <2>3. HoldingOK(c, S, n)'
    BY <1>1, <1>2, <2>1, <2>2, SameHolding DEF Around
  <2>4. pc[c] = "take" /\ seen[c] = tail => mem'[Place(tail)] = mem[Place(tail)]
    <3>1. SUFFICES ASSUME pc[c] = "take", seen[c] = tail
                   PROVE  mem'[Place(tail)] = mem[Place(tail)]
      OBVIOUS
    <3>2. tail < head /\ Word(tail).tag \in {"committed", "failed"}
      BY <2>1, <3>1 DEF ConsumerLoaded
    <3>3. tail \in S \ {e}
      BY <1>1, <3>2 DEF Foreign, Layout, Pointers
    <3>4. tail \in tail .. tail + n[tail] - 1
      BY <1>2, <3>3, EntryBlocks
    <3>5. QED
      BY <1>1, <3>3, <3>4 DEF Around, SameWords
  <2>5. ConsumerLoaded(c)'
    BY <1>1, <2>1, <2>4, SameConsumerLoaded
  <2>6. QED
    BY <2>3, <2>5
<1>6. ASSUME NEW s \in S \ {e}
      PROVE  WaitingOK(s, n)'
  <2>1. s \in S /\ WaitingOK(s, n) /\ s \in Nat
    BY <1>2, EntryBlocks DEF Layout
  <2>2. tail' <= s => SameWords(S, n, s)
    BY <1>1, <2>1 DEF Around
  <2>3. QED
    BY <1>1, <1>2, <2>1, <2>2, SameWaiting
<1>7. QED
  BY <1>3, <1>4, <1>5, <1>6

LEMMA StillApart ==
    ASSUME Apart,
           \A p \in Producers : /\ Fills(p)' => Fills(p) /\ at'[p] = at[p]
                                /\ pc'[p] = "mark" => pc[p] = "mark" /\ seen'[p] = seen[p],
           \A c \in Consumers : Holds(c)' => Holds(c) /\ at'[c] = at[c]
    PROVE  Apart'
<1>1. ASSUME NEW p \in Producers, NEW q \in Producers, p # q, Fills(p)', Fills(q)'
      PROVE  /\ at'[p] # at'[q]
             /\ pc'[p] = "mark" => seen'[p] # at'[q]
             /\ pc'[p] = "mark" /\ pc'[q] = "mark" => seen'[p] # seen'[q]
  <2>1. /\ Fills(p) /\ Fills(q) /\ at'[p] = at[p] /\ at'[q] = at[q]
        /\ pc'[p] = "mark" => pc[p] = "mark" /\ seen'[p] = seen[p]
        /\ pc'[q] = "mark" => pc[q] = "mark" /\ seen'[q] = seen[q]
    BY <1>1 DEF Fills
  <2>2. /\ at[p] # at[q]
        /\ pc[p] = "mark" => seen[p] # at[q]
        /\ pc[p] = "mark" /\ pc[q] = "mark" => seen[p] # seen[q]
    BY <1>1, <2>1 DEF Apart
  <2>3. QED
    BY <2>1, <2>2
<1>2. ASSUME NEW c \in Consumers, NEW d \in Consumers, c # d, Holds(c)', Holds(d)'
      PROVE  at'[c] # at'[d]
  BY <1>2 DEF Apart
<1>3. QED
  BY <1>1, <1>2 DEF Apart

(* The entry a producer fills, or the end of the buffer it skips, is its   *)
(* own, and so is what a consumer holds.                                   *)
LEMMA OwnToFill ==
    ASSUME TypeOK, NEW S, NEW n, Layout(S, n), NEW p \in Producers, Fills(p),
           NEW e, e = at[p] \/ (pc[p] = "mark" /\ e = seen[p])
    PROVE  /\ e \in S /\ tail <= e /\ trailing <= e /\ Word(e).tag = "free"
           /\ Foreign(e, p)
<1>1. FillingOK(p, S, n) /\ Apart /\ Tiling(S, n)
  BY DEF Layout
<1>2. /\ tail \in Nat /\ trailing \in Nat /\ trailing <= tail /\ p \in Threads
      /\ at[p] \in Nat /\ seen[p] \in Nat
  BY ThreadTypes DEF Layout, Pointers, NeverLapped
<1>3. e \in S /\ tail <= e /\ trailing <= e
  BY <1>1, <1>2 DEF FillingOK
<1>4. Word(e).tag = "free"
  BY <1>1 DEF FillingOK, Fills, Zero
<1>5. ASSUME NEW q \in Producers \ {p}, Fills(q)
      PROVE  at[q] # e /\ (pc[q] = "mark" => seen[q] # e)
  BY <1>1, <1>5 DEF Apart
<1>6. ASSUME NEW c \in Consumers \ {p}, Holds(c)
      PROVE  at[c] # e
  <2>1. HoldingOK(c, S, n) /\ at[c] \in Nat
    BY <1>6, ThreadTypes DEF Layout
  <2>2. at[c] < tail
    BY <1>6, <2>1 DEF HoldingOK
  <2>3. e \in Nat
    BY <1>1, <1>3 DEF Tiling
  <2>4. QED
    BY <1>2, <1>3, <2>1, <2>2, <2>3
<1>7. QED
  BY <1>3, <1>4, <1>5, <1>6 DEF Foreign

LEMMA OwnToRelease ==
    ASSUME TypeOK, NEW S, NEW n, Layout(S, n), NEW c \in Consumers, Holds(c)
    PROVE  /\ at[c] \in S /\ at[c] < tail /\ trailing <= at[c]
           /\ at[c] + n[at[c]] <= tail
           /\ Foreign(at[c], c)
<1>1. HoldingOK(c, S, n) /\ Apart /\ Tiling(S, n) /\ Pointers(S)
  BY DEF Layout
<1>2. tail \in Nat /\ trailing \in Nat /\ at[c] \in Nat /\ head \in Nat
  BY ThreadTypes
<1>3. at[c] \in S /\ at[c] < tail /\ trailing <= at[c]
  BY <1>1 DEF HoldingOK
<1>4. at[c] + n[at[c]] <= tail
  BY <1>1, <1>3 DEF Tiling, Pointers
<1>5. ASSUME NEW p \in Producers, Fills(p)
      PROVE  at[p] # at[c] /\ (pc[p] = "mark" => seen[p] # at[c])
  <2>1. FillingOK(p, S, n) /\ at[p] \in Nat /\ seen[p] \in Nat
    BY <1>5, ThreadTypes DEF Layout
  <2>2. tail <= at[p] /\ (pc[p] = "mark" => tail <= seen[p])
    BY <1>5, <2>1 DEF FillingOK
  <2>3. QED
    BY <1>2, <1>3, <2>1, <2>2
<1>6. ASSUME NEW d \in Consumers \ {c}, Holds(d)
      PROVE  at[d] # at[c]
  BY <1>1, <1>6 DEF Apart
<1>7. QED
  BY <1>2, <1>3, <1>4, <1>5, <1>6 DEF Foreign

LEMMA AroundEntry ==
    ASSUME TypeOK, NEW S, NEW n, Layout(S, n), NEW e \in S, trailing <= e,
           \A y \in Window : y \notin e .. e + n[e] - 1 => mem'[Place(y)] = mem[Place(y)]
    PROVE  Around(S, n, e)
<1>1. Tiling(S, n) /\ Pointers(S)
  BY DEF Layout
<1>2. /\ e \in Nat /\ n[e] \in Nat /\ e + n[e] <= head /\ head \in Nat /\ trailing \in Nat
      /\ BufferSize \in Nat /\ head < trailing + BufferSize /\ trailing <= head
  BY <1>1, EntryBlocks, ThreadTypes DEF Pointers, NeverLapped
<1>3. ASSUME NEW s \in S \ {e}, trailing <= s, NEW x \in s .. s + n[s] - 1
      PROVE  mem'[Place(x)] = mem[Place(x)]
  <2>1. s \in Nat /\ n[s] \in Nat /\ x \in Window
    BY <1>1, <1>3, EntryBlocks, EntryInWindow
  <2>2. (s < e => s + n[s] <= e) /\ (e < s => e + n[e] <= s)
    BY <1>1, <1>3 DEF Tiling
  <2>3. x \notin e .. e + n[e] - 1
    BY <1>2, <1>3, <2>1, <2>2
  <2>4. QED
    BY <2>1, <2>3
<1>4. ASSUME NEW pos \in head .. trailing + BufferSize - 1
      PROVE  mem'[Place(pos)] = mem[Place(pos)]
  <2>1. pos \in Window /\ pos \notin e .. e + n[e] - 1
    BY <1>2 DEF Window
  <2>2. QED
    BY <2>1
<1>5. QED
  BY <1>3, <1>4 DEF Around, SameWords

(* A step that changes a thread's locals only.                             *)
LEMMA LocalStep ==
    ASSUME TypeOK, NEW S, NEW n, Layout(S, n), NEW t \in Threads,
           UNCHANGED <<mem, head, tail, trailing>>,
           \A u \in Threads \ {t} : /\ pc'[u] = pc[u] /\ size'[u] = size[u]
                                    /\ seen'[u] = seen[u] /\ at'[u] = at[u],
           \A c \in Consumers \ {t} : ind'[c] = ind[c] /\ left'[c] = left[c],
           t \in Producers =>
              /\ FillingOK(t, S, n)' /\ ProducerLoaded(t)'
              /\ Fills(t)' => Fills(t) /\ at'[t] = at[t]
              /\ pc'[t] = "mark" => pc[t] = "mark" /\ seen'[t] = seen[t],
           t \in Consumers =>
              /\ HoldingOK(t, S, n)' /\ ConsumerLoaded(t)'
              /\ Holds(t)' => Holds(t) /\ at'[t] = at[t]
    PROVE  Layout(S, n)'
<1>1. Foreign(-1, t)
  BY ThreadTypes DEF Foreign
<1>2. Around(S, n, -1)
  BY DEF Around, SameWords
<1>3. /\ Tiling(S, n)' /\ Pointers(S)' /\ UnclaimedIsZero'
      /\ \A p \in Producers \ {t} : FillingOK(p, S, n)' /\ ProducerLoaded(p)'
      /\ \A c \in Consumers \ {t} : HoldingOK(c, S, n)' /\ ConsumerLoaded(c)'
      /\ \A s \in S \ {-1} : WaitingOK(s, n)'
  BY <1>1, <1>2, OtherThreads
<1>4. -1 \notin S
  BY DEF Layout, Tiling
<1>5. Apart'
  <2>1. Apart
    BY DEF Layout
  <2>2. \A u \in Threads \ {t} : (Fills(u)' <=> Fills(u)) /\ (Holds(u)' <=> Holds(u))
    BY DEF Fills, Holds
  <2>3. \A p \in Producers : /\ Fills(p)' => Fills(p) /\ at'[p] = at[p]
                             /\ pc'[p] = "mark" => pc[p] = "mark" /\ seen'[p] = seen[p]
    BY <2>2, ThreadTypes
  <2>4. \A c \in Consumers : Holds(c)' => Holds(c) /\ at'[c] = at[c]
    BY <2>2, ThreadTypes
  <2>5. QED
    BY <2>1, <2>3, <2>4, StillApart
<1>6. \A p \in Producers : FillingOK(p, S, n)' /\ ProducerLoaded(p)'
  BY <1>3
<1>7. \A c \in Consumers : HoldingOK(c, S, n)' /\ ConsumerLoaded(c)'
  BY <1>3
<1>8. Inner(S)'
  BY SameInner DEF Layout
<1>9. QED
  BY <1>3, <1>4, <1>5, <1>6, <1>7, <1>8 DEF Layout

-----------------------------------------------------------------------------
(* Producers up to the compare-exchange of _head.                          *)
LEMMA Claiming ==
    ASSUME TypeOK, NEW S, NEW n, Layout(S, n), NEW p \in Producers,
           UNCHANGED <<mem, head, tail, trailing, ind, left>>,
           \A u \in Threads \ {p} : /\ pc'[u] = pc[u] /\ size'[u] = size[u]
                                    /\ seen'[u] = seen[u] /\ at'[u] = at[u],
           pc'[p] \in {"idle", "load", "check", "advance"},
           pc'[p] # "idle" => size'[p] \in Sizes,
           pc'[p] \in {"check", "advance"} => seen'[p] <= head /\ head < seen'[p] + BufferSize,
           pc'[p] = "advance" /\ seen'[p] = head =>
              head + ClaimOf(size'[p], head) < trailing + BufferSize
    PROVE  Layout(S, n)'
<1>1. p \in Threads /\ p \notin Consumers
  BY ThreadTypes
<1>2. FillingOK(p, S, n)' /\ ~Fills(p)' /\ pc'[p] # "mark"
  BY DEF FillingOK, Fills
<1>3. ProducerLoaded(p)'
  BY DEF ProducerLoaded
<1>4. QED
  BY <1>1, <1>2, <1>3, LocalStep

LEMMA ClaimingSteps ==
    ASSUME TypeOK, NEW S, NEW n, Layout(S, n), NEW p \in Producers,
           \/ \E k \in Sizes : Allocate(p, k)
           \/ Reload(p) \/ CheckRoom(p) \/ Retry(p) \/ Overflow(p) \/ MissHead(p)
    PROVE  Layout(S, n)'
<1>1. /\ p \in Threads /\ head \in Nat /\ trailing \in Nat /\ BufferSize \in Nat \ {0}
      /\ pc \in [Threads -> ProducerPCs \cup ConsumerPCs]
      /\ size \in [Threads -> Nat] /\ seen \in [Threads -> Nat] /\ at \in [Threads -> Nat]
  BY ThreadTypes DEF TypeOK
<1>2. ProducerLoaded(p) /\ trailing <= head /\ head < trailing + BufferSize
  BY ThreadTypes DEF Layout, Pointers, NeverLapped
<1>3. head <= head /\ head < head + BufferSize
  BY <1>1
<1>4. ASSUME NEW k \in Sizes, Allocate(p, k)
      PROVE  Layout(S, n)'
  <2>1. pc'[p] = "check" /\ size'[p] = k /\ seen'[p] = head
    BY <1>1, <1>4 DEF Allocate, Goto
  <2>2. /\ UNCHANGED <<mem, head, tail, trailing, ind, left>>
        /\ \A u \in Threads \ {p} : /\ pc'[u] = pc[u] /\ size'[u] = size[u]
                                    /\ seen'[u] = seen[u] /\ at'[u] = at[u]
    BY <1>1, <1>4 DEF Allocate, Goto
  <2>3. QED
    BY <1>3, <2>1, <2>2, Claiming
<1>5. ASSUME Reload(p) \/ MissHead(p)
      PROVE  Layout(S, n)'
  <2>1. pc'[p] = "check" /\ size'[p] = size[p] /\ seen'[p] = head /\ size[p] \in Sizes
    BY <1>1, <1>2, <1>5 DEF Reload, MissHead, Goto, ProducerLoaded
  <2>2. /\ UNCHANGED <<mem, head, tail, trailing, ind, left>>
        /\ \A u \in Threads \ {p} : /\ pc'[u] = pc[u] /\ size'[u] = size[u]
                                    /\ seen'[u] = seen[u] /\ at'[u] = at[u]
    BY <1>1, <1>5 DEF Reload, MissHead, Goto
  <2>3. QED
    BY <1>3, <2>1, <2>2, Claiming
<1>6. ASSUME CheckRoom(p)
      PROVE  Layout(S, n)'
  <2>1. /\ pc'[p] = "advance" /\ size'[p] = size[p] /\ seen'[p] = seen[p]
        /\ size[p] \in Sizes /\ seen[p] <= head /\ head < seen[p] + BufferSize
    BY <1>1, <1>2, <1>6 DEF CheckRoom, Goto, ProducerLoaded, locals
  <2>2. /\ UNCHANGED <<mem, head, tail, trailing, ind, left>>
        /\ \A u \in Threads \ {p} : /\ pc'[u] = pc[u] /\ size'[u] = size[u]
                                    /\ seen'[u] = seen[u] /\ at'[u] = at[u]
    BY <1>1, <1>6 DEF CheckRoom, Goto, locals
  <2>3. ASSUME seen[p] = head
        PROVE  head + ClaimOf(size[p], head) < trailing + BufferSize
    <3>1. ClaimOf(size[p], head) < BytesBetween(head, trailing)
      BY <1>6, <2>3 DEF CheckRoom, RoomFor
    <3>2. BytesBetween(head, trailing) = trailing + BufferSize - head
      BY <1>1, <1>2, DistanceLeft
    <3>3. ClaimOf(size[p], head) \in Nat
      BY <1>1, ClaimType
    <3>4. QED
      BY <1>1, <3>1, <3>2, <3>3
  <2>4. QED
    BY <2>1, <2>2, <2>3, Claiming
<1>7. ASSUME Retry(p) \/ Overflow(p)
      PROVE  Layout(S, n)'
  <2>1. \/ pc'[p] = "load" /\ size'[p] = size[p] /\ size[p] \in Sizes
        \/ pc'[p] = "idle"
    BY <1>1, <1>2, <1>7 DEF Retry, Overflow, Return, Goto, ProducerLoaded
  <2>2. /\ UNCHANGED <<mem, head, tail, trailing, ind, left>>
        /\ \A u \in Threads \ {p} : /\ pc'[u] = pc[u] /\ size'[u] = size[u]
                                    /\ seen'[u] = seen[u] /\ at'[u] = at[u]
    BY <1>1, <1>7 DEF Retry, Overflow, Return, Goto
  <2>3. QED
    BY <2>1, <2>2, Claiming
<1>8. QED
  BY <1>4, <1>5, <1>6, <1>7

(* Consumers but for what they store and for the pointers.                 *)
LEMMA PoppingSteps ==
    ASSUME TypeOK, NEW S, NEW n, Layout(S, n), NEW c \in Consumers,
           LoadTail(c) \/ PeekFree(c) \/ PeekEntry(c) \/ MissTail(c) \/ Release(c) \/ ZeroDone(c)
    PROVE  Layout(S, n)'
<1>1. /\ c \in Threads /\ c \notin Producers
      /\ head \in Nat /\ tail \in Nat /\ trailing \in Nat /\ BufferSize \in Nat \ {0}
      /\ pc \in [Threads -> ProducerPCs \cup ConsumerPCs]
      /\ size \in [Threads -> Nat] /\ seen \in [Threads -> Nat] /\ at \in [Threads -> Nat]
      /\ ind \in [Consumers -> Cell] /\ left \in [Consumers -> Nat]
  BY ThreadTypes DEF TypeOK
<1>2. /\ Tiling(S, n) /\ Pointers(S) /\ HoldingOK(c, S, n) /\ ConsumerLoaded(c)
      /\ trailing <= tail /\ tail <= head /\ head < trailing + BufferSize
  BY DEF Layout, Pointers, NeverLapped
<1>3. tail <= tail /\ tail < tail + BufferSize
  BY <1>1
<1>4. /\ UNCHANGED <<mem, head, tail, trailing>>
      /\ \A u \in Threads \ {c} : /\ pc'[u] = pc[u] /\ size'[u] = size[u]
                                  /\ seen'[u] = seen[u] /\ at'[u] = at[u]
      /\ \A d \in Consumers \ {c} : ind'[d] = ind[d] /\ left'[d] = left[d]
  BY <1>1 DEF LoadTail, PeekFree, PeekEntry, MissTail, Release, ZeroDone, Return, Goto, locals
<1>5. CASE LoadTail(c) \/ MissTail(c) \/ PeekFree(c)
  <2>1. \/ pc'[c] = "peek" /\ seen'[c] = tail
        \/ pc'[c] = "idle"
    BY <1>1, <1>5 DEF LoadTail, MissTail, PeekFree, Return, Goto
  <2>2. HoldingOK(c, S, n)' /\ ~Holds(c)'
    BY <2>1 DEF HoldingOK, Holds
  <2>3. ConsumerLoaded(c)'
    BY <1>3, <1>4, <2>1 DEF ConsumerLoaded
  <2>4. QED
    BY <1>1, <1>4, <2>2, <2>3, LocalStep
<1>6. CASE PeekEntry(c)
  <2>1. /\ pc[c] = "peek" /\ pc'[c] = "take" /\ seen'[c] = seen[c]
        /\ ind'[c] = Word(seen[c]) /\ Word(seen[c]).tag # "free"
    BY <1>1, <1>6 DEF PeekEntry, Goto, Word
  <2>2. seen[c] <= tail /\ tail < seen[c] + BufferSize
    BY <1>2, <2>1 DEF ConsumerLoaded
  <2>3. ASSUME seen[c] = tail
        PROVE  tail < head /\ Word(tail).tag \in {"committed", "failed"}
    <3>1. tail # head
      <4>1. SUFFICES ASSUME tail = head
                     PROVE  FALSE
        OBVIOUS
      <4>2. head \in head .. trailing + BufferSize - 1
        BY <1>1, <1>2
      <4>3. Word(tail) = Zero
        BY <4>1, <4>2 DEF Layout, UnclaimedIsZero, Word
      <4>4. QED
        BY <2>1, <2>3, <4>3 DEF Zero
    <3>2. tail \in S
      BY <1>2, <3>1 DEF Pointers
    <3>3. Word(tail).tag # "payload"
      BY <1>3, <3>2 DEF Layout, WaitingOK
    <3>4. Word(tail).tag \in Tags
      BY <1>1, ThreadTypes DEF Cell
    <3>5. QED
      BY <1>1, <1>2, <2>1, <2>3, <3>1, <3>3, <3>4 DEF Tags
  <2>4. HoldingOK(c, S, n)' /\ ~Holds(c)'
    BY <2>1 DEF HoldingOK, Holds
  <2>5. ConsumerLoaded(c)'
    BY <1>4, <2>1, <2>2, <2>3 DEF ConsumerLoaded, Word
  <2>6. QED
    BY <1>1, <1>4, <2>4, <2>5, LocalStep
<1>7. CASE Release(c)
  <2>1. /\ pc[c] = "use" /\ pc'[c] = "zero" /\ at'[c] = at[c]
        /\ size'[c] = Word(at[c]).val /\ left'[c] = Word(at[c]).val
    BY <1>1, <1>7 DEF Release, Goto, Word
  <2>2. /\ at[c] \in S /\ trailing <= at[c] /\ at[c] < tail
        /\ Word(at[c]).val = n[at[c]]
    BY <1>2, <2>1 DEF HoldingOK, Holds
  <2>3. n[at[c]] \in Nat /\ at[c] \in Nat
    BY <1>1, <1>2, <2>2, EntryBlocks
  <2>4. HoldingOK(c, S, n)'
    <3>1. size'[c] = n[at'[c]] /\ left'[c] \in 0 .. size'[c]
      BY <2>1, <2>2, <2>3
    <3>2. \A x \in at'[c] + left'[c] .. at'[c] + size'[c] - 1 : FALSE
      BY <2>1, <2>2, <2>3
    <3>3. QED
      BY <1>4, <2>1, <2>2, <3>1, <3>2 DEF HoldingOK, Holds
  <2>5. ConsumerLoaded(c)' /\ Holds(c)
    BY <2>1 DEF ConsumerLoaded, Holds
  <2>6. QED
    BY <1>1, <1>4, <2>1, <2>4, <2>5, LocalStep
<1>8. CASE ZeroDone(c)
  <2>1. /\ pc[c] = "zero" /\ pc'[c] = "trail" /\ left[c] = 0
        /\ UNCHANGED <<at, size, left>>
    BY <1>1, <1>8 DEF ZeroDone, Cleared, Goto, locals
  <2>2. HoldingOK(c, S, n)'
    BY <1>2, <1>4, <2>1 DEF HoldingOK, Holds, Word
  <2>3. ConsumerLoaded(c)' /\ Holds(c)
    BY <2>1 DEF ConsumerLoaded, Holds
  <2>4. QED
    BY <1>1, <1>4, <2>1, <2>2, <2>3, LocalStep
<1>9. QED
  BY <1>5, <1>6, <1>7, <1>8

-----------------------------------------------------------------------------
(* A producer writes to the entry e that it has claimed.                   *)
LEMMA WritingStep ==
    ASSUME TypeOK, NEW S, NEW n, Layout(S, n), NEW p \in Producers, Fills(p),
           NEW e, e = at[p] \/ (pc[p] = "mark" /\ e = seen[p]),
           UNCHANGED <<head, tail, trailing, ind, left>>,
           \A u \in Threads \ {p} : /\ pc'[u] = pc[u] /\ size'[u] = size[u]
                                    /\ seen'[u] = seen[u] /\ at'[u] = at[u],
           \A y \in Window : y \notin e .. e + n[e] - 1 => mem'[Place(y)] = mem[Place(y)],
           pc'[p] \in {"stamp", "write", "push", "idle"}, pc'[p] # "idle" => at'[p] = at[p],
           FillingOK(p, S, n)', WaitingOK(e, n)', Inner(S)'
    PROVE  Layout(S, n)'
<1>1. p \in Threads /\ p \notin Consumers /\ Tiling(S, n) /\ Pointers(S)
  BY ThreadTypes DEF Layout
<1>2. e \in S /\ trailing <= e /\ Foreign(e, p)
  BY OwnToFill
<1>3. Around(S, n, e)
  BY <1>2, AroundEntry
<1>4. /\ Tiling(S, n)' /\ Pointers(S)' /\ UnclaimedIsZero'
      /\ \A q \in Producers \ {p} : FillingOK(q, S, n)' /\ ProducerLoaded(q)'
      /\ \A c \in Consumers \ {p} : HoldingOK(c, S, n)' /\ ConsumerLoaded(c)'
      /\ \A s \in S \ {e} : WaitingOK(s, n)'
  BY <1>2, <1>3, OtherThreads
<1>5. ProducerLoaded(p)'
  BY DEF ProducerLoaded
<1>6. Apart'
  <2>1. Apart
    BY DEF Layout
  <2>2. \A q \in Producers : /\ Fills(q)' => Fills(q) /\ at'[q] = at[q]
                             /\ pc'[q] = "mark" => pc[q] = "mark" /\ seen'[q] = seen[q]
    BY ThreadTypes DEF Fills
  <2>3. \A c \in Consumers : Holds(c)' => Holds(c) /\ at'[c] = at[c]
    BY <1>1, ThreadTypes DEF Holds
  <2>4. QED
    BY <2>1, <2>2, <2>3, StillApart
<1>7. \A q \in Producers : FillingOK(q, S, n)' /\ ProducerLoaded(q)'
  BY <1>4, <1>5
<1>8. \A c \in Consumers : HoldingOK(c, S, n)' /\ ConsumerLoaded(c)'
  BY <1>1, <1>4
<1>9. \A s \in S : WaitingOK(s, n)'
  BY <1>4
<1>10. QED
  BY <1>4, <1>6, <1>7, <1>8, <1>9 DEF Layout

LEMMA WritingSteps ==
    ASSUME TypeOK, NEW S, NEW n, Layout(S, n), NEW p \in Producers,
           MarkSkipped(p) \/ StampSize(p) \/ WriteMessage(p) \/ Push(p)
    PROVE  Layout(S, n)'
<1>1. /\ p \in Threads /\ at[p] \in Nat /\ seen[p] \in Nat /\ size[p] \in Nat /\ tail \in Nat
      /\ pc \in [Threads -> ProducerPCs \cup ConsumerPCs]
      /\ size \in [Threads -> Nat] /\ seen \in [Threads -> Nat] /\ at \in [Threads -> Nat]
  BY ThreadTypes DEF TypeOK
<1>2. Fills(p) /\ FillingOK(p, S, n) /\ Tiling(S, n) /\ Pointers(S) /\ Inner(S)
  BY DEF Layout, Fills, MarkSkipped, StampSize, WriteMessage, Push
<1>3. /\ UNCHANGED <<head, tail, trailing, ind, left>>
      /\ \A u \in Threads \ {p} : /\ pc'[u] = pc[u] /\ size'[u] = size[u]
                                  /\ seen'[u] = seen[u] /\ at'[u] = at[u]
  BY <1>1 DEF MarkSkipped, StampSize, WriteMessage, Push, Return, Goto, locals
<1>4. /\ at[p] \in S /\ tail <= at[p] /\ trailing <= at[p] /\ size[p] = n[at[p]]
      /\ size[p] > 1
  BY <1>2, OwnToFill DEF FillingOK
<1>5. /\ \A x \in at[p] .. at[p] + n[at[p]] - 1 : x \in Window
      /\ at[p] \in at[p] .. at[p] + n[at[p]] - 1 /\ at[p] \in Window
  BY <1>2, <1>4, EntryInWindow
<1>6. CASE MarkSkipped(p)
  <2>1. /\ pc[p] = "mark" /\ pc'[p] = "stamp"
        /\ at'[p] = at[p] /\ size'[p] = size[p]
        /\ Store(Place(seen[p]), Skipped(BytesToEnd(seen[p])))
    BY <1>1, <1>6 DEF MarkSkipped, Goto, locals
  <2>2. /\ seen[p] \in S /\ seen[p] < at[p] /\ n[seen[p]] = BytesToEnd(seen[p])
        /\ trailing <= seen[p] /\ Word(at[p]) = Zero
    BY <1>2, <2>1, OwnToFill DEF FillingOK
  <2>3. seen[p] \in seen[p] .. seen[p] + n[seen[p]] - 1 /\ seen[p] \in Window
    BY <1>2, <2>2, EntryInWindow
  <2>4. /\ mem'[Place(seen[p])] = Skipped(BytesToEnd(seen[p]))
        /\ \A y \in Window : y # seen[p] => mem'[Place(y)] = mem[Place(y)]
    BY <2>1, <2>3, StoreElsewhere
  <2>5. mem'[Place(at[p])] = Zero
    BY <1>1, <1>5, <2>2, <2>4 DEF Word
  <2>6. FillingOK(p, S, n)'
    BY <1>3, <1>4, <2>1, <2>5 DEF FillingOK, Fills, Word
  <2>7. PICK e : e = seen[p]
    OBVIOUS
  <2>8. WaitingOK(e, n)'
    BY <2>2, <2>4, <2>7 DEF WaitingOK, Word, Skipped
  <2>9. /\ e = at[p] \/ (pc[p] = "mark" /\ e = seen[p])
        /\ \A y \in Window : y \notin e .. e + n[e] - 1 => mem'[Place(y)] = mem[Place(y)]
    BY <2>1, <2>3, <2>4, <2>7
  <2>10. Inner(S)'
    BY <1>2, <1>3, <2>2, <2>4, SameInner
  <2>11. QED
    BY <1>2, <1>3, <2>1, <2>6, <2>8, <2>9, <2>10, WritingStep
<1>7. PICK e : e = at[p]
  OBVIOUS
<1>8. e = at[p] \/ (pc[p] = "mark" /\ e = seen[p])
  BY <1>7
<1>9. e \in Nat /\ n[e] \in Nat /\ n[e] > 0 /\ Place(e) + n[e] <= BufferSize
  BY <1>2, <1>4, <1>7, EntryBlocks
<1>10. CASE StampSize(p)
  <2>1. /\ pc[p] = "stamp" /\ pc'[p] = "write"
        /\ at'[p] = at[p] /\ size'[p] = size[p]
        /\ Store(Place(e), [tag |-> "free", val |-> size[p]])
    BY <1>1, <1>7, <1>10 DEF StampSize, Goto, locals
  <2>2. /\ mem'[Place(e)] = [tag |-> "free", val |-> size[p]]
        /\ \A y \in Window : y # e => mem'[Place(y)] = mem[Place(y)]
    BY <1>5, <1>7, <2>1, StoreElsewhere
  <2>3. FillingOK(p, S, n)'
    BY <1>3, <1>4, <1>7, <2>1, <2>2 DEF FillingOK, Fills, Word
  <2>4. WaitingOK(e, n)'
    BY <2>2 DEF WaitingOK, Word
  <2>5. \A y \in Window : y \notin e .. e + n[e] - 1 => mem'[Place(y)] = mem[Place(y)]
    BY <1>5, <1>7, <2>2
  <2>6. Inner(S)'
    BY <1>2, <1>3, <1>4, <1>7, <2>2, SameInner
  <2>7. QED
    BY <1>2, <1>3, <1>8, <2>1, <2>3, <2>4, <2>5, <2>6, WritingStep
<1>11. CASE WriteMessage(p)
  <2>1. /\ pc[p] = "write" /\ pc'[p] = "push"
        /\ at'[p] = at[p] /\ size'[p] = size[p]
        /\ mem' = [b \in Blocks |-> IF b \in PayloadOf(e, n[e]) THEN Payload(e) ELSE mem[b]]
    BY <1>1, <1>4, <1>7, <1>11 DEF WriteMessage, Goto, locals
  <2>2. PayloadOf(e, n[e]) = {Place(x) : x \in e + 1 .. e + n[e] - 1}
    BY <1>9, Pieces
  <2>3. \A x \in e + 1 .. e + n[e] - 1 : mem'[Place(x)] = Payload(e)
    <3>1. \A x \in e + 1 .. e + n[e] - 1 : Place(x) \in Blocks
      BY <1>9, PlaceType
    <3>2. QED
      BY <2>1, <2>2, <3>1
  <2>4. ASSUME NEW y \in Window, y \notin e + 1 .. e + n[e] - 1
        PROVE  mem'[Place(y)] = mem[Place(y)]
    <3>1. Place(y) \in Blocks
      BY ThreadTypes DEF Window
    <3>2. Place(y) \notin PayloadOf(e, n[e])
      <4>1. SUFFICES ASSUME Place(y) \in PayloadOf(e, n[e])
                     PROVE  FALSE
        OBVIOUS
      <4>2. PICK x \in e + 1 .. e + n[e] - 1 : Place(y) = Place(x)
        BY <2>2, <4>1
      <4>3. x \in Window
        BY <1>5, <1>7, <1>9
      <4>4. y = x
        BY <4>2, <4>3, InWindow
      <4>5. QED
        BY <2>4, <4>4
    <3>3. QED
      BY <2>1, <3>1, <3>2
  <2>5. mem'[Place(e)] = mem[Place(e)]
    BY <1>5, <1>7, <1>9, <2>4
  <2>6. \A y \in Window : y \notin e .. e + n[e] - 1 => mem'[Place(y)] = mem[Place(y)]
    BY <1>9, <2>4
  <2>7. FillingOK(p, S, n)'
    <3>1. Word(e) = [tag |-> "free", val |-> size[p]]
      BY <1>2, <1>7, <2>1 DEF FillingOK
    <3>2. (pc[p] = "push" => Written(at[p], size[p]))'
      BY <1>4, <1>7, <2>1, <2>3 DEF Written, Word
    <3>3. QED
      BY <1>3, <1>4, <1>7, <2>1, <2>5, <3>1, <3>2 DEF FillingOK, Fills, Word
  <2>8. WaitingOK(e, n)'
    BY <1>2, <1>7, <2>1, <2>5 DEF WaitingOK, FillingOK, Word
  <2>9. Inner(S)'
    <3>1. \A y \in Window :
             mem'[Place(y)] = mem[Place(y)] \/ mem'[Place(y)].tag \in {"free", "payload"}
      BY <2>3, <2>4 DEF Payload
    <3>2. QED
      BY <1>2, <1>3, <3>1, SameInner
  <2>10. QED
    BY <1>2, <1>3, <1>8, <2>1, <2>6, <2>7, <2>8, <2>9, WritingStep
<1>12. CASE Push(p)
  <2>1. /\ pc[p] = "push" /\ pc'[p] = "idle"
        /\ Store(Place(e), [tag |-> "committed", val |-> Word(e).val])
    BY <1>1, <1>7, <1>12 DEF Push, Return, Goto, Word
  <2>2. Word(e).val = n[e] /\ n[e] > 1 /\ Written(e, n[e])
    BY <1>2, <1>4, <1>7, <2>1 DEF FillingOK, Fills
  <2>3. /\ mem'[Place(e)] = [tag |-> "committed", val |-> n[e]]
        /\ \A y \in Window : y # e => mem'[Place(y)] = mem[Place(y)]
    BY <1>5, <1>7, <2>1, <2>2, StoreElsewhere
  <2>4. FillingOK(p, S, n)'
    BY <2>1 DEF FillingOK, Fills
  <2>5. Written(e, n[e])'
    <3>1. ASSUME NEW x \in e + 1 .. e + n[e] - 1
          PROVE  mem'[Place(x)] = Payload(e)
      <4>1. x \in Window /\ x # e
        BY <1>5, <1>7, <1>9
      <4>2. QED
        BY <2>2, <2>3, <4>1 DEF Written, Word
    <3>2. QED
      BY <3>1 DEF Written, Word
  <2>6. WaitingOK(e, n)'
    BY <2>2, <2>3, <2>5 DEF WaitingOK, Word
  <2>7. \A y \in Window : y \notin e .. e + n[e] - 1 => mem'[Place(y)] = mem[Place(y)]
    BY <1>5, <1>7, <2>3
  <2>8. Inner(S)'
    BY <1>2, <1>3, <1>4, <1>7, <2>3, SameInner
  <2>9. QED
    BY <1>2, <1>3, <1>8, <2>1, <2>4, <2>6, <2>7, <2>8, WritingStep
<1>13. QED
  BY <1>6, <1>10, <1>11, <1>12

(* A consumer clears a block of the entry that it holds.                   *)
LEMMA ClearingStep ==
    ASSUME TypeOK, NEW S, NEW n, Layout(S, n), NEW c \in Consumers, ZeroBlock(c)
    PROVE  Layout(S, n)'
<1>1. /\ c \in Threads /\ c \notin Producers /\ at[c] \in Nat /\ left[c] \in Nat
      /\ left \in [Consumers -> Nat]
      /\ Tiling(S, n) /\ Pointers(S) /\ HoldingOK(c, S, n)
  BY ThreadTypes DEF Layout, TypeOK
<1>2. /\ pc[c] = "zero" /\ left[c] # 0 /\ left'[c] = left[c] - 1
      /\ Store(Place(at[c]) + left[c] - 1, Zero)
      /\ UNCHANGED <<head, tail, trailing, pc, size, seen, at, ind>>
      /\ \A d \in Consumers \ {c} : left'[d] = left[d]
  BY <1>1 DEF ZeroBlock, Cleared
<1>3. PICK e : e = at[c]
  OBVIOUS
<1>4. /\ e \in S /\ e < tail /\ trailing <= e /\ Foreign(e, c)
      /\ size[c] = n[e] /\ left[c] \in 0 .. n[e]
      /\ \A x \in e + left[c] .. e + n[e] - 1 : Word(x) = Zero
  BY <1>1, <1>2, <1>3, OwnToRelease DEF HoldingOK, Holds
<1>5. /\ e \in Nat /\ n[e] \in Nat
      /\ \A i \in 0 .. n[e] - 1 : Place(e + i) = Place(e) + i
      /\ \A x \in e .. e + n[e] - 1 : x \in Window
  BY <1>1, <1>4, EntryBlocks, EntryInWindow
<1>6. PICK y : y = e + left[c] - 1
  OBVIOUS
<1>7. /\ y \in e .. e + n[e] - 1 /\ y \in Window
      /\ Place(y) = Place(at[c]) + left[c] - 1
  <2>1. left[c] - 1 \in 0 .. n[e] - 1 /\ y = e + (left[c] - 1)
    BY <1>1, <1>2, <1>4, <1>5, <1>6
  <2>2. Place(y) = Place(e) + (left[c] - 1) /\ Place(e) \in Nat
    BY <1>5, <2>1, PlaceType
  <2>3. Place(y) = Place(at[c]) + left[c] - 1
    BY <1>1, <1>3, <2>2
  <2>4. QED
    BY <1>5, <2>1, <2>3
<1>8. /\ mem'[Place(y)] = Zero
      /\ \A x \in Window : x # y => mem'[Place(x)] = mem[Place(x)]
  BY <1>2, <1>7, StoreElsewhere
<1>9. Around(S, n, e)
  BY <1>4, <1>7, <1>8, AroundEntry
<1>10. /\ Tiling(S, n)' /\ Pointers(S)' /\ UnclaimedIsZero'
       /\ \A p \in Producers \ {c} : FillingOK(p, S, n)' /\ ProducerLoaded(p)'
       /\ \A d \in Consumers \ {c} : HoldingOK(d, S, n)' /\ ConsumerLoaded(d)'
       /\ \A s \in S \ {e} : WaitingOK(s, n)'
  BY <1>2, <1>4, <1>9, OtherThreads
<1>11. HoldingOK(c, S, n)'
  <2>1. left'[c] \in 0 .. n[e]
    BY <1>1, <1>2, <1>4, <1>5
  <2>2. ASSUME NEW x \in e + left'[c] .. e + n[e] - 1
        PROVE  mem'[Place(x)] = Zero
    <3>1. CASE x = y
      BY <1>8, <3>1
    <3>2. CASE x # y
      <4>1. x \in e + left[c] .. e + n[e] - 1 /\ x \in e .. e + n[e] - 1
        BY <1>1, <1>2, <1>4, <1>5, <1>6, <3>2
      <4>2. QED
        BY <1>4, <1>5, <1>8, <3>2, <4>1 DEF Word
    <3>3. QED
      BY <3>1, <3>2
  <2>3. QED
    BY <1>2, <1>3, <1>4, <2>1, <2>2 DEF HoldingOK, Holds, Word
<1>12. ConsumerLoaded(c)'
  BY <1>2 DEF ConsumerLoaded
<1>13. Apart'
  BY <1>2 DEF Layout, Apart, Fills, Holds
<1>14. WaitingOK(e, n)'
  BY <1>2, <1>4, <1>5, ThreadTypes DEF WaitingOK
<1>15. \A p \in Producers : FillingOK(p, S, n)' /\ ProducerLoaded(p)'
  BY <1>1, <1>10
<1>16. \A d \in Consumers : HoldingOK(d, S, n)' /\ ConsumerLoaded(d)'
  BY <1>10, <1>11, <1>12
<1>17. \A s \in S : WaitingOK(s, n)'
  BY <1>10, <1>14
<1>18. Inner(S)'
  <2>1. Zero.tag = "free" /\ Inner(S)
    BY DEF Zero, Layout
  <2>2. QED
    BY <1>2, <1>8, <2>1, SameInner
<1>19. QED
  BY <1>10, <1>13, <1>15, <1>16, <1>17, <1>18 DEF Layout

-----------------------------------------------------------------------------
(* Once round the buffer a place comes back.                               *)
LEMMA OnceRound ==
    ASSUME NEW pos \in Nat
    PROVE  Place(pos + BufferSize) = Place(pos)
<1>1. BufferSize \in Nat \ {0} /\ pos + BufferSize \in Nat
  BY SizeAssumption
<1>2. /\ Place(pos) \in 0 .. BufferSize - 1
      /\ Place(pos + BufferSize) \in 0 .. BufferSize - 1
  BY <1>1, PlaceType DEF Blocks
<1>3. PICK q \in Nat : pos = BufferSize * q + Place(pos)
  BY Quotient
<1>4. PICK r \in Nat : pos + BufferSize = BufferSize * r + Place(pos + BufferSize)
  BY <1>1, Quotient
<1>5. BufferSize * (q + 1) = BufferSize * q + BufferSize /\ BufferSize * q \in Nat
  BY <1>1
<1>6. BufferSize * r + Place(pos + BufferSize) = BufferSize * (q + 1) + Place(pos)
  BY <1>1, <1>2, <1>3, <1>4, <1>5
<1>7. q + 1 \in Nat
  OBVIOUS
<1>8. QED
  BY <1>2, <1>6, <1>7, OneQuotient

(* A consumer gives the entry that it holds back: it is the one at         *)
(* _trailing, and all zero.                                                *)
LEMMA ReleasingStep ==
    ASSUME TypeOK, NEW S, NEW n, Layout(S, n), NEW c \in Consumers, AdvanceTrailing(c)
    PROVE  Layout(S, n)'
<1>1. /\ c \in Threads /\ c \notin Producers
      /\ head \in Nat /\ tail \in Nat /\ trailing \in Nat /\ BufferSize \in Nat \ {0}
      /\ pc \in [Threads -> ProducerPCs \cup ConsumerPCs]
      /\ size \in [Threads -> Nat] /\ seen \in [Threads -> Nat] /\ at \in [Threads -> Nat]
      /\ ind \in [Consumers -> Cell]
  BY ThreadTypes DEF TypeOK
<1>2. /\ Tiling(S, n) /\ Pointers(S) /\ HoldingOK(c, S, n)
      /\ trailing <= tail /\ tail <= head /\ head < trailing + BufferSize
  BY DEF Layout, Pointers, NeverLapped
<1>3. /\ pc[c] = "trail" /\ Place(trailing) = Place(at[c]) /\ trailing' = trailing + size[c]
      /\ UNCHANGED <<mem, head, tail, left>>
      /\ pc'[c] \in {"idle", "again"}
      /\ \A u \in Threads \ {c} : /\ pc'[u] = pc[u] /\ size'[u] = size[u]
                                  /\ seen'[u] = seen[u] /\ at'[u] = at[u]
      /\ \A d \in Consumers \ {c} : ind'[d] = ind[d]
  BY <1>1 DEF AdvanceTrailing, MyTurn, Return, Goto
<1>4. PICK e : e = at[c]
  OBVIOUS
<1>5. /\ e \in S /\ e < tail /\ trailing <= e /\ e + n[e] <= tail /\ Foreign(e, c)
      /\ size[c] = n[e] /\ left[c] = 0
      /\ \A x \in e + left[c] .. e + n[e] - 1 : Word(x) = Zero
  BY <1>2, <1>3, <1>4, OwnToRelease DEF HoldingOK, Holds
<1>6. e \in Nat /\ n[e] \in Nat
  BY <1>2, <1>5, EntryBlocks
<1>7. \A x \in e .. e + n[e] - 1 : Word(x) = Zero
  BY <1>5, <1>6
<1>8. trailing = e
  <2>1. e \in Window /\ trailing \in Window
    BY <1>1, <1>2, <1>5, <1>6 DEF Window
  <2>2. QED
    BY <1>3, <1>4, <2>1, InWindow
<1>9. /\ trailing' = e + n[e] /\ trailing' \in Nat
      /\ trailing <= trailing' /\ trailing' <= tail
  BY <1>3, <1>5, <1>6, <1>8
<1>10. Tiling(S, n)' /\ Pointers(S)'
  <2>1. Tiling(S, n)'
    BY <1>2, <1>3 DEF Tiling
  <2>2. Pointers(S)'
    BY <1>1, <1>2, <1>3, <1>9 DEF Pointers, NeverLapped
  <2>3. QED
    BY <2>1, <2>2
<1>11. UnclaimedIsZero'
  <2>1. ASSUME NEW pos \in head .. trailing' + BufferSize - 1
        PROVE  mem[Place(pos)] = Zero
    <3>1. CASE pos \in head .. trailing + BufferSize - 1
      BY <3>1 DEF Layout, UnclaimedIsZero
    <3>2. CASE pos \notin head .. trailing + BufferSize - 1
      <4>1. PICK x \in e .. e + n[e] - 1 : pos = x + BufferSize
        <5>1. pos - BufferSize \in e .. e + n[e] - 1
          BY <1>1, <1>6, <1>8, <1>9, <3>2
        <5>2. pos = (pos - BufferSize) + BufferSize
          BY <1>1
        <5>3. QED
          BY <5>1, <5>2
      <4>2. x \in Nat
        BY <1>6
      <4>3. Place(pos) = Place(x)
        BY <4>1, <4>2, OnceRound
      <4>4. QED
        BY <1>7, <4>3 DEF Word
    <3>3. QED
      BY <3>1, <3>2
  <2>2. QED
    BY <1>3, <2>1 DEF UnclaimedIsZero
<1>12. \A s : SameWords(S, n, s)
  BY <1>3 DEF SameWords
<1>13. ASSUME NEW p \in Producers
       PROVE  FillingOK(p, S, n)' /\ ProducerLoaded(p)'
  <2>1. FillingOK(p, S, n) /\ ProducerLoaded(p) /\ p \in Threads \ {c}
    BY <1>1, ThreadTypes DEF Layout
  <2>2. FillingOK(p, S, n)'
    <3>1. Fills(p) => tail' <= at[p]
      BY <1>3, <2>1 DEF FillingOK
    <3>2. pc[p] = "mark" => tail' <= seen[p]
      BY <1>3, <2>1 DEF FillingOK
    <3>3. QED
      BY <1>2, <1>3, <1>12, <2>1, <3>1, <3>2, SameFilling
  <2>3. ProducerLoaded(p)'
    BY <1>3, <1>9, <2>1, SameProducerLoaded
  <2>4. QED
    BY <2>2, <2>3
<1>14. ASSUME NEW d \in Consumers \ {c}
       PROVE  HoldingOK(d, S, n)' /\ ConsumerLoaded(d)'
  <2>1. HoldingOK(d, S, n) /\ ConsumerLoaded(d) /\ d \in Threads \ {c}
    BY ThreadTypes DEF Layout
  <2>2. Holds(d) => trailing' <= at[d]
    <3>1. SUFFICES ASSUME Holds(d)
                   PROVE  trailing' <= at[d]
      OBVIOUS
    <3>2. at[d] \in S /\ trailing <= at[d] /\ at[d] # e /\ at[d] \in Nat
      BY <1>5, <2>1, <3>1, ThreadTypes DEF HoldingOK, Foreign
    <3>3. e < at[d]
      BY <1>6, <1>8, <3>2
    <3>4. QED
      BY <1>2, <1>5, <1>9, <3>2, <3>3 DEF Tiling
  <2>3. tail <= tail' /\ tail' \in Nat /\ head <= head' /\ head' \in Nat
    BY <1>1, <1>3
  <2>4. HoldingOK(d, S, n)'
    BY <1>2, <1>3, <1>12, <2>1, <2>2, <2>3, SameHolding
  <2>5. ConsumerLoaded(d)'
    BY <1>3, <2>1, <2>3, SameConsumerLoaded
  <2>6. QED
    BY <2>4, <2>5
<1>15. HoldingOK(c, S, n)' /\ ConsumerLoaded(c)' /\ ~Holds(c)'
  BY <1>3 DEF HoldingOK, ConsumerLoaded, Holds
<1>16. Apart'
  <2>1. Apart
    BY DEF Layout
  <2>2. \A p \in Producers : /\ Fills(p)' => Fills(p) /\ at'[p] = at[p]
                             /\ pc'[p] = "mark" => pc[p] = "mark" /\ seen'[p] = seen[p]
    BY <1>1, <1>3, ThreadTypes DEF Fills
  <2>3. \A d \in Consumers : Holds(d)' => Holds(d) /\ at'[d] = at[d]
    BY <1>3, <1>15, ThreadTypes DEF Holds
  <2>4. QED
    BY <2>1, <2>2, <2>3, StillApart
<1>17. ASSUME NEW s \in S
       PROVE  WaitingOK(s, n)'
  <2>1. WaitingOK(s, n) /\ tail' \in Nat /\ tail <= tail'
    BY <1>1, <1>3 DEF Layout
  <2>2. QED
    BY <1>2, <1>12, <2>1, SameWaiting
<1>18. \A d \in Consumers : HoldingOK(d, S, n)' /\ ConsumerLoaded(d)'
  BY <1>14, <1>15
<1>19. Inner(S)'
  <2>1. ASSUME NEW y \in Window', y \notin S
        PROVE  mem'[Place(y)].tag \in {"free", "payload"}
    <3>1. CASE y \in Window
      BY <1>3, <2>1, <3>1 DEF Layout, Inner, Word
    <3>2. CASE y \notin Window
      <4>1. y \in head' .. trailing' + BufferSize - 1
        BY <1>1, <1>2, <1>3, <1>9, <2>1, <3>2 DEF Window
      <4>2. QED
        BY <1>11, <4>1 DEF UnclaimedIsZero, Zero
    <3>3. QED
      BY <3>1, <3>2
  <2>2. QED
    BY <2>1 DEF Inner, Word
<1>20. QED
  BY <1>10, <1>11, <1>13, <1>16, <1>17, <1>18, <1>19 DEF Layout

(* If _tail has not moved, what a consumer has loaded is the header of the *)
(* entry there.                                                            *)
LEMMA TakenEntry ==
    ASSUME TypeOK, NEW S, NEW n, Layout(S, n), NEW c \in Consumers,
           pc[c] = "take", Place(tail) = Place(seen[c])
    PROVE  /\ seen[c] = tail /\ tail \in S /\ tail < head /\ ind[c] = Word(tail)
           /\ ind[c].tag \in {"committed", "failed"} /\ ind[c].val = n[tail]
           /\ ind[c].tag = "committed" => n[tail] > 1 /\ Written(tail, n[tail])
<1>1. tail \in Nat /\ head \in Nat /\ seen[c] \in Nat /\ ind[c] \in Cell
  BY ThreadTypes
<1>2. ConsumerLoaded(c) /\ Pointers(S)
  BY DEF Layout
<1>3. seen[c] = tail
  BY <1>1, <1>2, OnePlace DEF ConsumerLoaded
<1>4. tail < head /\ ind[c] = Word(tail) /\ ind[c].tag \in {"committed", "failed"}
  BY <1>2, <1>3 DEF ConsumerLoaded
<1>5. tail \in S
  BY <1>1, <1>2, <1>4 DEF Pointers
<1>6. WaitingOK(tail, n)
  BY <1>5 DEF Layout
<1>7. ind[c].val = n[tail] /\ (ind[c].tag = "committed" => n[tail] > 1 /\ Written(tail, n[tail]))
  BY <1>1, <1>4, <1>6 DEF WaitingOK
<1>8. QED
  BY <1>3, <1>4, <1>5, <1>7

(* A consumer takes the entry at _tail: what it loaded is there still, for *)
(* _tail has not moved, and from now on it is the consumer's.              *)
LEMMA TakingStep ==
    ASSUME ~MayLap, TypeOK, NEW S, NEW n, Layout(S, n), NEW c \in Consumers, AdvanceTail(c)
    PROVE  Layout(S, n)'
<1>1. /\ c \in Threads /\ c \notin Producers
      /\ head \in Nat /\ tail \in Nat /\ trailing \in Nat /\ BufferSize \in Nat \ {0}
      /\ pc \in [Threads -> ProducerPCs \cup ConsumerPCs]
      /\ size \in [Threads -> Nat] /\ seen \in [Threads -> Nat] /\ at \in [Threads -> Nat]
      /\ left \in [Consumers -> Nat] /\ ind[c] \in Cell
  BY ThreadTypes DEF TypeOK
<1>2. /\ Tiling(S, n) /\ Pointers(S) /\ ConsumerLoaded(c)
      /\ trailing <= tail /\ tail <= head /\ head < trailing + BufferSize
  BY DEF Layout, Pointers, NeverLapped
<1>3. /\ pc[c] = "take" /\ Place(tail) = Place(seen[c]) /\ tail' = tail + ind[c].val
      /\ at'[c] = tail
      /\ UNCHANGED <<mem, head, trailing, seen, ind>>
      /\ \A u \in Threads \ {c} : pc'[u] = pc[u] /\ size'[u] = size[u] /\ at'[u] = at[u]
      /\ \A d \in Consumers \ {c} : left'[d] = left[d]
      /\ \/ ind[c].tag = "committed" /\ pc'[c] = "use"
         \/ /\ ind[c].tag = "failed" /\ pc'[c] = "zero"
            /\ size'[c] = ind[c].val /\ left'[c] = ind[c].val
  BY <1>1 DEF AdvanceTail, TailUnmoved, Goto
<1>4. \A d \in Consumers \ {c} : pc[d] \in {"peek", "take"} => tail' < seen[d] + BufferSize
  BY <1>3 DEF AdvanceTail, Unlapped
<1>5. PICK e : e = tail
  OBVIOUS
<1>6. /\ e \in S /\ e < head /\ ind[c] = Word(e)
      /\ ind[c].tag \in {"committed", "failed"} /\ ind[c].val = n[e]
      /\ ind[c].tag = "committed" => n[e] > 1 /\ Written(e, n[e])
  BY <1>3, <1>5, TakenEntry
<1>7. e \in Nat /\ n[e] \in Nat /\ n[e] > 0 /\ e + n[e] <= head
  BY <1>2, <1>6, EntryBlocks
<1>8. /\ tail' = e + n[e] /\ tail' \in Nat /\ e < tail' /\ tail <= tail'
       /\ tail' <= head /\ (tail' = head \/ tail' \in S)
  BY <1>2, <1>3, <1>5, <1>6, <1>7, NextEntry
<1>9. Tiling(S, n)' /\ Pointers(S)' /\ UnclaimedIsZero'
  <2>1. Tiling(S, n)'
    BY <1>2, <1>3 DEF Tiling
  <2>2. Pointers(S)'
    BY <1>1, <1>2, <1>3, <1>8 DEF Pointers, NeverLapped
  <2>3. UnclaimedIsZero'
    BY <1>3 DEF Layout, UnclaimedIsZero
  <2>4. QED
    BY <2>1, <2>2, <2>3
<1>10. \A s : SameWords(S, n, s)
  BY <1>3 DEF SameWords
<1>11. \A s \in S : tail <= s /\ s # e => tail' <= s
  <2>1. ASSUME NEW s \in S, tail <= s, s # e
        PROVE  tail' <= s
    <3>1. e < s
      BY <1>2, <1>5, <1>7, <2>1 DEF Tiling
    <3>2. QED
      BY <1>2, <1>6, <1>8, <3>1 DEF Tiling
  <2>2. QED
    BY <2>1
<1>12. ASSUME NEW p \in Producers
       PROVE  FillingOK(p, S, n)' /\ ProducerLoaded(p)'
  <2>1. FillingOK(p, S, n) /\ ProducerLoaded(p) /\ p \in Threads \ {c}
    BY <1>1, ThreadTypes DEF Layout
  <2>2. Fills(p) => tail' <= at[p]
    <3>1. SUFFICES ASSUME Fills(p)
                   PROVE  tail' <= at[p]
      OBVIOUS
    <3>2. at[p] \in S /\ tail <= at[p] /\ Word(at[p]).tag = "free"
      BY <3>1, OwnToFill
    <3>3. QED
      BY <1>6, <1>11, <3>2
  <2>3. pc[p] = "mark" => tail' <= seen[p]
    <3>1. SUFFICES ASSUME pc[p] = "mark"
                   PROVE  tail' <= seen[p]
      OBVIOUS
    <3>2. seen[p] \in S /\ tail <= seen[p] /\ Word(seen[p]).tag = "free"
      BY <3>1, OwnToFill DEF Fills
    <3>3. QED
      BY <1>6, <1>11, <3>2
  <2>4. FillingOK(p, S, n)'
    BY <1>2, <1>3, <1>10, <2>1, <2>2, <2>3, SameFilling
  <2>5. ProducerLoaded(p)'
    <3>1. trailing' \in Nat /\ trailing <= trailing'
      BY <1>1, <1>3
    <3>2. QED
      BY <1>3, <2>1, <3>1, SameProducerLoaded
  <2>6. QED
    BY <2>4, <2>5
<1>13. ASSUME NEW d \in Consumers \ {c}
       PROVE  HoldingOK(d, S, n)' /\ ConsumerLoaded(d)'
  <2>1. HoldingOK(d, S, n) /\ ConsumerLoaded(d) /\ d \in Threads \ {c} /\ seen[d] \in Nat
    BY ThreadTypes DEF Layout
  <2>2. HoldingOK(d, S, n)'
    <3>1. Holds(d) => trailing' <= at[d]
      BY <1>3, <2>1 DEF HoldingOK
    <3>2. QED
      BY <1>2, <1>3, <1>8, <1>10, <2>1, <3>1, SameHolding
  <2>3. pc[d] \in {"peek", "take"} => seen[d] < tail' /\ tail' < seen[d] + BufferSize
    BY <1>1, <1>4, <1>5, <1>8, <2>1 DEF ConsumerLoaded
  <2>4. ConsumerLoaded(d)'
    BY <1>3, <1>8, <2>1, <2>3 DEF ConsumerLoaded
  <2>5. QED
    BY <2>2, <2>4
<1>14. HoldingOK(c, S, n)'
  <2>1. at'[c] \in S /\ trailing' <= at'[c] /\ at'[c] < tail'
    BY <1>2, <1>3, <1>5, <1>6, <1>8
  <2>2. CASE ind[c].tag = "committed" /\ pc'[c] = "use"
    <3>1. ind[c] = [tag |-> "committed", val |-> n[e]]
      BY <1>1, <1>6, <2>2 DEF Cell
    <3>2. n[e] > 1 /\ (Written(at[c], n[at[c]]))'
      BY <1>3, <1>5, <1>6, <2>2 DEF Written, Word
    <3>3. (Word(at[c]))' = [tag |-> "committed", val |-> n[e]]
      BY <1>3, <1>5, <1>6, <3>1 DEF Word
    <3>4. QED
      BY <1>3, <1>5, <2>1, <2>2, <3>2, <3>3 DEF HoldingOK, Holds
  <2>3. CASE /\ ind[c].tag = "failed" /\ pc'[c] = "zero"
             /\ size'[c] = ind[c].val /\ left'[c] = ind[c].val
    <3>1. size'[c] = n[at'[c]] /\ left'[c] = size'[c] /\ size'[c] \in Nat
      BY <1>3, <1>5, <1>7, <1>6, <2>3
    <3>2. \A x \in at'[c] + left'[c] .. at'[c] + size'[c] - 1 : FALSE
      BY <1>3, <1>5, <1>7, <3>1
    <3>3. QED
      BY <2>1, <2>3, <3>1, <3>2 DEF HoldingOK, Holds
  <2>4. QED
    BY <1>3, <2>2, <2>3
<1>15. ConsumerLoaded(c)' /\ pc'[c] \in ConsumerPCs /\ ~Holds(c)
  BY <1>3 DEF ConsumerLoaded, ConsumerPCs, Holds
<1>16. Apart'
  <2>1. Apart
    BY DEF Layout
  <2>2. ASSUME NEW p \in Producers, NEW q \in Producers, p # q, Fills(p)', Fills(q)'
        PROVE  /\ at'[p] # at'[q]
               /\ pc'[p] = "mark" => seen'[p] # at'[q]
               /\ pc'[p] = "mark" /\ pc'[q] = "mark" => seen'[p] # seen'[q]
    <3>1. /\ pc'[p] = pc[p] /\ pc'[q] = pc[q] /\ at'[p] = at[p] /\ at'[q] = at[q]
          /\ seen' = seen
      BY <1>1, <1>3, ThreadTypes
    <3>2. QED
      BY <2>1, <2>2, <3>1 DEF Apart, Fills
  <2>3. \A d \in Consumers \ {c} : Holds(d)' => at'[d] = at[d] /\ at[d] < tail /\ at[d] \in Nat
    <3>1. ASSUME NEW d \in Consumers \ {c}, Holds(d)'
          PROVE  at'[d] = at[d] /\ at[d] < tail /\ at[d] \in Nat
      <4>1. pc'[d] = pc[d] /\ at'[d] = at[d] /\ at[d] \in Nat /\ HoldingOK(d, S, n)
        BY <1>3, ThreadTypes DEF Layout
      <4>2. Holds(d)
        BY <3>1, <4>1 DEF Holds
      <4>3. QED
        BY <4>1, <4>2 DEF HoldingOK
    <3>2. QED
      BY <3>1
  <2>4. ASSUME NEW d \in Consumers, NEW f \in Consumers, d # f, Holds(d)', Holds(f)'
        PROVE  at'[d] # at'[f]
    <3>1. CASE d = c
      BY <1>1, <1>3, <2>3, <2>4, <3>1
    <3>2. CASE f = c
      BY <1>1, <1>3, <2>3, <2>4, <3>2
    <3>3. CASE d # c /\ f # c
      <4>1. Holds(d) /\ Holds(f) /\ at'[d] = at[d] /\ at'[f] = at[f]
        BY <1>3, <2>4, <3>3, ThreadTypes DEF Holds
      <4>2. QED
        BY <2>1, <2>4, <4>1 DEF Apart
    <3>4. QED
      BY <3>1, <3>2, <3>3
  <2>5. QED
    BY <2>2, <2>4 DEF Apart
<1>17. ASSUME NEW s \in S
       PROVE  WaitingOK(s, n)'
  <2>1. WaitingOK(s, n)
    BY DEF Layout
  <2>2. QED
    BY <1>2, <1>8, <1>10, <2>1, SameWaiting
<1>18. \A d \in Consumers : HoldingOK(d, S, n)' /\ ConsumerLoaded(d)'
  BY <1>13, <1>14, <1>15
<1>19. Inner(S)'
  BY <1>3, SameInner DEF Layout
<1>20. QED
  BY <1>9, <1>12, <1>16, <1>17, <1>18, <1>19 DEF Layout

-----------------------------------------------------------------------------
(* A claim of k blocks at h: the entry is at z, behind the end of the      *)
(* buffer if it does not fit before it.                                    *)
LEMMA ClaimedEntry ==
    ASSUME TypeOK, NEW h \in Nat, NEW k \in Sizes, NEW z, z = h + (ClaimOf(k, h) - k)
    PROVE  /\ z \in Nat /\ h <= z /\ k \in Nat /\ k > 1 /\ Place(z) + k <= BufferSize
           /\ h + ClaimOf(k, h) = z + k
           /\ z # h => /\ z = h + BytesToEnd(h) /\ BytesToEnd(h) \in Nat
                       /\ BytesToEnd(h) > 0 /\ Place(h) + BytesToEnd(h) <= BufferSize
<1>1. k \in 2 .. BufferSize /\ BufferSize \in Nat \ {0}
  BY ThreadTypes
<1>2. /\ BytesToEnd(h) \in 1 .. BufferSize
      /\ Place(h) + BytesToEnd(h) = BufferSize
      /\ Place(h + BytesToEnd(h)) = 0
  BY ToTheStart
<1>3. Place(h) \in Nat
  BY PlaceType
<1>4. CASE Wraps(k, h)
  <2>1. ClaimOf(k, h) = k + BytesToEnd(h)
    BY <1>4 DEF ClaimOf
  <2>2. z = h + BytesToEnd(h)
    BY <1>1, <1>2, <2>1
  <2>3. QED
    BY <1>1, <1>2, <1>3, <2>1, <2>2
<1>5. CASE ~Wraps(k, h)
  <2>1. ClaimOf(k, h) = k /\ k <= BytesToEnd(h)
    BY <1>1, <1>2, <1>5 DEF ClaimOf, Wraps
  <2>2. z = h
    BY <1>1, <2>1
  <2>3. QED
    BY <1>1, <1>2, <1>3, <2>1, <2>2
<1>6. QED
  BY <1>4, <1>5

(* A producer claims: its entry, and the end of the buffer if that has to  *)
(* be skipped, join the others.                                            *)
LEMMA ClaimingStep ==
    ASSUME ~MayLap, TypeOK, NEW S, NEW n, Layout(S, n), NEW p \in Producers, AdvanceHead(p)
    PROVE  \E R, m : Layout(R, m)'
<1>1. /\ p \in Threads /\ p \notin Consumers
      /\ head \in Nat /\ tail \in Nat /\ trailing \in Nat /\ BufferSize \in Nat \ {0}
      /\ pc \in [Threads -> ProducerPCs \cup ConsumerPCs] /\ at \in [Threads -> Nat]
      /\ size[p] \in Nat /\ seen[p] \in Nat
  BY ThreadTypes DEF TypeOK
<1>2. /\ Tiling(S, n) /\ Pointers(S) /\ ProducerLoaded(p) /\ Apart
      /\ trailing <= tail /\ tail <= head /\ head < trailing + BufferSize
  BY DEF Layout, Pointers, NeverLapped
<1>3. PICK h : h = head
  OBVIOUS
<1>4. PICK k : k = size[p]
  OBVIOUS
<1>5. seen[p] = h /\ k \in Sizes /\ h + ClaimOf(k, h) < trailing + BufferSize
  <2>1. /\ pc[p] = "advance" /\ Place(head) = Place(seen[p])
    BY DEF AdvanceHead, HeadUnmoved
  <2>2. seen[p] <= head /\ head < seen[p] + BufferSize
    BY <1>2, <2>1 DEF ProducerLoaded
  <2>3. seen[p] = head
    BY <1>1, <2>1, <2>2, OnePlace
  <2>4. QED
    BY <1>2, <1>3, <1>4, <2>1, <2>3 DEF ProducerLoaded
<1>6. PICK z : z = h + (ClaimOf(k, h) - k)
  OBVIOUS
<1>7. /\ h \in Nat /\ z \in Nat /\ h <= z /\ k \in Nat /\ k > 1 /\ Place(z) + k <= BufferSize
      /\ h + ClaimOf(k, h) = z + k
      /\ z # h => /\ z = h + BytesToEnd(h) /\ BytesToEnd(h) \in Nat
                  /\ BytesToEnd(h) > 0 /\ Place(h) + BytesToEnd(h) <= BufferSize
  BY <1>1, <1>3, <1>5, <1>6, ClaimedEntry
<1>8. /\ head' = z + k /\ at'[p] = z
      /\ pc'[p] = IF z # h THEN "mark" ELSE "stamp"
      /\ UNCHANGED <<mem, tail, trailing, size, seen, ind, left>>
      /\ \A u \in Threads \ {p} : pc'[u] = pc[u] /\ at'[u] = at[u]
      /\ \A q \in Producers \ {p} : pc[q] \in {"check", "advance"} => head' < seen[q] + BufferSize
  <2>1. ClaimOf(k, h) \in Nat /\ ClaimOf(k, h) >= k
    BY <1>7, ClaimType
  <2>2. (ClaimOf(k, h) - k > 0) <=> z # h
    BY <1>6, <1>7, <2>1
  <2>3. /\ head' = h + ClaimOf(k, h) /\ at'[p] = h + (ClaimOf(k, h) - k)
        /\ pc'[p] = IF ClaimOf(k, h) - k > 0 THEN "mark" ELSE "stamp"
    BY <1>1, <1>3, <1>4, <1>5 DEF AdvanceHead, Goto
  <2>4. /\ UNCHANGED <<mem, tail, trailing, size, seen, ind, left>>
        /\ \A u \in Threads \ {p} : pc'[u] = pc[u] /\ at'[u] = at[u]
    BY <1>1 DEF AdvanceHead, Goto
  <2>5. \A q \in Producers \ {p} :
            pc[q] \in {"check", "advance"} => h + ClaimOf(k, h) < seen[q] + BufferSize
    BY <1>3, <1>4, <1>5 DEF AdvanceHead, Unlapped
  <2>6. QED
    BY <1>6, <1>7, <2>2, <2>3, <2>4, <2>5
<1>9. head' \in Nat /\ h <= head' /\ h < head' /\ z + k < trailing + BufferSize
  BY <1>5, <1>7, <1>8
<1>10. PICK R : R = S \cup {h, z}
  OBVIOUS
<1>11. PICK m : m = [x \in Nat |-> IF x = z THEN k ELSE IF x = h THEN BytesToEnd(h) ELSE n[x]]
  OBVIOUS
<1>12. \A s \in S : s \in R /\ m[s] = n[s] /\ s \in Nat /\ s < h /\ s + n[s] <= h /\ n[s] \in Nat
  <2>1. ASSUME NEW s \in S
        PROVE  s \in R /\ m[s] = n[s] /\ s \in Nat /\ s < h /\ s + n[s] <= h /\ n[s] \in Nat
    <3>1. s \in Nat /\ n[s] \in Nat /\ n[s] > 0 /\ s + n[s] <= h
      BY <1>2, <1>3, EntryBlocks
    <3>2. s < h /\ s # h /\ s # z
      BY <1>7, <3>1
    <3>3. QED
      BY <1>10, <1>11, <3>1, <3>2
  <2>2. QED
    BY <2>1
<1>13. /\ h \in R /\ z \in R /\ m[z] = k
       /\ z # h => m[h] = BytesToEnd(h)
       /\ \A s \in R : s \in S \/ s = z \/ (s = h /\ z # h)
  BY <1>7, <1>10, <1>11
<1>14. \A x \in h .. z + k - 1 : Word(x) = Zero
  <2>1. \A x \in h .. z + k - 1 : x \in head .. trailing + BufferSize - 1
    BY <1>1, <1>3, <1>7, <1>9
  <2>2. QED
    BY <2>1 DEF Layout, UnclaimedIsZero, Word
<1>15. Word(h) = Zero /\ Word(z) = Zero
  BY <1>7, <1>14
<1>16. Tiling(R, m)'
  <2>1. R \subseteq Nat /\ m \in [Nat -> Nat]
    <3>1. R \subseteq Nat
      BY <1>7, <1>12, <1>13
    <3>2. n \in [Nat -> Nat]
      BY <1>2 DEF Tiling
    <3>3. BytesToEnd(h) \in Nat
      BY <1>1, <1>7, BytesToEndType
    <3>4. QED
      BY <1>7, <1>11, <3>1, <3>2, <3>3
  <2>2. ASSUME NEW s \in R
        PROVE  m[s] > 0 /\ s + m[s] <= head' /\ Place(s) + m[s] <= BufferSize
    <3>1. CASE s \in S
      <4>1. n[s] > 0 /\ Place(s) + n[s] <= BufferSize
        BY <1>2, <3>1 DEF Tiling
      <4>2. QED
        BY <1>7, <1>9, <1>12, <3>1, <4>1
    <3>2. CASE s = z
      BY <1>7, <1>8, <1>13, <3>2
    <3>3. CASE s = h /\ z # h
      BY <1>7, <1>8, <1>13, <3>3
    <3>4. QED
      BY <1>13, <3>1, <3>2, <3>3
  <2>3. ASSUME NEW s \in R, NEW u \in R, s < u
        PROVE  s + m[s] <= u
    <3>1. CASE s \in S /\ u \in S
      BY <1>2, <1>12, <2>3, <3>1 DEF Tiling
    <3>2. CASE s \in S /\ u \in {h, z}
      BY <1>7, <1>12, <3>2
    <3>3. CASE s \in {h, z} /\ u \in S
      BY <1>7, <1>12, <2>3, <3>3
    <3>4. CASE s \in {h, z} /\ u \in {h, z}
      BY <1>7, <1>13, <2>3, <3>4
    <3>5. QED
      BY <1>13, <3>1, <3>2, <3>3, <3>4
  <2>4. ASSUME NEW pos \in 0 .. head' - 1
        PROVE  \E s \in R : s <= pos /\ pos < s + m[s]
    <3>1. CASE pos < h
      <4>1. PICK s \in S : s <= pos /\ pos < s + n[s]
        BY <1>2, <1>3, <1>7, <1>9, <3>1 DEF Tiling
      <4>2. QED
        BY <1>12, <4>1
    <3>2. CASE h <= pos /\ pos < z
      BY <1>7, <1>13, <3>2
    <3>3. CASE z <= pos
      BY <1>7, <1>8, <1>13, <3>3
    <3>4. QED
      BY <1>7, <1>9, <3>1, <3>2, <3>3
  <2>5. QED
    BY <2>1, <2>2, <2>3, <2>4 DEF Tiling
<1>17. Pointers(R)'
  <2>1. tail' = head' \/ tail' \in R
    BY <1>2, <1>3, <1>8, <1>12, <1>13 DEF Pointers
  <2>2. NeverLapped'
    BY <1>1, <1>2, <1>3, <1>8, <1>9 DEF NeverLapped
  <2>3. QED
    BY <2>1, <2>2 DEF Pointers
<1>18. UnclaimedIsZero'
  <2>1. \A pos \in head' .. trailing + BufferSize - 1 : mem[Place(pos)] = Zero
    <3>1. \A pos \in head' .. trailing + BufferSize - 1 : pos \in head .. trailing + BufferSize - 1
      BY <1>1, <1>3, <1>9
    <3>2. QED
      BY <3>1 DEF Layout, UnclaimedIsZero
  <2>2. QED
    BY <1>8, <2>1 DEF UnclaimedIsZero
<1>19. ASSUME NEW q \in Producers \ {p}
       PROVE  /\ FillingOK(q, R, m)' /\ ProducerLoaded(q)'
              /\ Fills(q)' => Fills(q) /\ at'[q] = at[q] /\ at[q] \in S
              /\ pc'[q] = "mark" => pc[q] = "mark" /\ seen[q] \in S
  <2>1. /\ FillingOK(q, S, n) /\ ProducerLoaded(q) /\ q \in Threads \ {p}
        /\ seen[q] \in Nat /\ size[q] \in Nat
    BY ThreadTypes DEF Layout
  <2>2. pc'[q] = pc[q] /\ at'[q] = at[q] /\ size'[q] = size[q] /\ seen'[q] = seen[q]
    BY <1>8, <2>1
  <2>3. /\ Fills(q) => at[q] \in S /\ at[q] \in R /\ m[at[q]] = n[at[q]]
        /\ pc[q] = "mark" => seen[q] \in S /\ seen[q] \in R /\ m[seen[q]] = n[seen[q]]
    BY <1>12, <2>1 DEF FillingOK
  <2>4. FillingOK(q, R, m)'
    <3>1. (pc[q] = "push" => Written(at[q], size[q]))'
      BY <1>8, <2>1, <2>2 DEF FillingOK, Written, Word
    <3>2. QED
      BY <1>8, <2>1, <2>2, <2>3, <3>1 DEF FillingOK, Fills, Word
  <2>5. ProducerLoaded(q)'
    <3>1. pc[q] \in {"check", "advance"} => seen[q] < head' /\ head' < seen[q] + BufferSize
      BY <1>3, <1>7, <1>8, <1>9, <2>1 DEF ProducerLoaded
    <3>2. QED
      BY <1>9, <2>1, <2>2, <3>1 DEF ProducerLoaded
  <2>6. QED
    BY <2>2, <2>3, <2>4, <2>5 DEF Fills
<1>20. FillingOK(p, R, m)' /\ ProducerLoaded(p)'
  <2>1. tail <= h /\ tail <= z
    BY <1>1, <1>2, <1>3, <1>7
  <2>2. pc'[p] = "mark" => h < z /\ m[h] = BytesToEnd(h)
    BY <1>7, <1>8, <1>13
  <2>3. pc'[p] \in {"mark", "stamp"} /\ seen'[p] = h /\ size'[p] = k
    BY <1>4, <1>5, <1>8
  <2>4. mem'[Place(h)] = Zero /\ mem'[Place(z)] = Zero
    BY <1>8, <1>15 DEF Word
  <2>5. FillingOK(p, R, m)'
    BY <1>7, <1>8, <1>13, <2>1, <2>2, <2>3, <2>4 DEF FillingOK, Word
  <2>6. ProducerLoaded(p)'
    BY <2>3 DEF ProducerLoaded
  <2>7. QED
    BY <2>5, <2>6
<1>21. ASSUME NEW c \in Consumers
       PROVE  HoldingOK(c, R, m)' /\ ConsumerLoaded(c)' /\ pc'[c] = pc[c] /\ at'[c] = at[c]
  <2>1. HoldingOK(c, S, n) /\ ConsumerLoaded(c) /\ c \in Threads \ {p}
    BY <1>1, ThreadTypes DEF Layout
  <2>2. pc'[c] = pc[c] /\ at'[c] = at[c] /\ size'[c] = size[c]
    BY <1>8, <2>1
  <2>3. Holds(c) => at[c] \in R /\ m[at[c]] = n[at[c]]
    BY <1>12, <2>1 DEF HoldingOK
  <2>4. HoldingOK(c, R, m)'
    <3>1. pc[c] = "use" => (Written(at[c], m[at[c]]))'
      BY <1>8, <2>1, <2>2, <2>3 DEF HoldingOK, Holds, Written, Word
    <3>2. QED
      BY <1>8, <2>1, <2>2, <2>3, <3>1 DEF HoldingOK, Holds, Word
  <2>5. ConsumerLoaded(c)'
    BY <1>3, <1>8, <1>9, <2>1, <2>2, SameConsumerLoaded
  <2>6. QED
    BY <2>2, <2>4, <2>5
<1>22. Apart'
  <2>1. ASSUME NEW q \in Producers, NEW r \in Producers, q # r, Fills(q)', Fills(r)'
        PROVE  /\ at'[q] # at'[r]
               /\ pc'[q] = "mark" => seen'[q] # at'[r]
               /\ pc'[q] = "mark" /\ pc'[r] = "mark" => seen'[q] # seen'[r]
    <3>1. seen' = seen
      BY <1>8
    <3>2. CASE q = p
      <4>1. /\ at'[r] \in S
            /\ pc'[r] = "mark" => seen'[r] \in S
        BY <1>19, <2>1, <3>1, <3>2
      <4>2. at'[q] = z /\ seen'[q] = h
        BY <1>5, <1>8, <3>2
      <4>3. QED
        BY <1>7, <1>12, <4>1, <4>2
    <3>3. CASE r = p
      <4>1. /\ at'[q] \in S
            /\ pc'[q] = "mark" => seen'[q] \in S
        BY <1>19, <2>1, <3>1, <3>3
      <4>2. at'[r] = z /\ seen'[r] = h
        BY <1>5, <1>8, <3>3
      <4>3. QED
        BY <1>7, <1>12, <4>1, <4>2
    <3>4. CASE q # p /\ r # p
      BY <1>2, <1>19, <2>1, <3>1, <3>4 DEF Apart
    <3>5. QED
      BY <3>2, <3>3, <3>4
  <2>2. ASSUME NEW c \in Consumers, NEW d \in Consumers, c # d, Holds(c)', Holds(d)'
        PROVE  at'[c] # at'[d]
    BY <1>2, <1>21, <2>2 DEF Apart, Holds
  <2>3. QED
    BY <2>1, <2>2 DEF Apart
<1>23. ASSUME NEW s \in R
       PROVE  WaitingOK(s, m)'
  <2>1. CASE s \in S
    <3>1. WaitingOK(s, n) /\ m[s] = n[s]
      BY <1>12, <2>1 DEF Layout
    <3>2. Written(s, n[s]) => Written(s, m[s])'
      BY <1>8, <3>1 DEF Written, Word
    <3>3. QED
      BY <1>8, <3>1, <3>2 DEF WaitingOK, Word
  <2>2. CASE s \in {h, z}
    BY <1>8, <1>15, <2>2 DEF WaitingOK, Word, Zero
  <2>3. QED
    BY <1>13, <2>1, <2>2
<1>24. \A q \in Producers : FillingOK(q, R, m)' /\ ProducerLoaded(q)'
  BY <1>19, <1>20
<1>25. \A c \in Consumers : HoldingOK(c, R, m)' /\ ConsumerLoaded(c)'
  BY <1>21
<1>26. Inner(R)'
  BY <1>8, <1>12, SameInner DEF Layout
<1>27. Layout(R, m)'
  BY <1>16, <1>17, <1>18, <1>22, <1>23, <1>24, <1>25, <1>26 DEF Layout
<1>28. QED
  BY <1>27

-----------------------------------------------------------------------------
LEMMA SafeInit == Init => SafeInv
<1>1. SUFFICES ASSUME Init
               PROVE  SafeInv
  OBVIOUS
<1>2. TypeOK
  BY <1>1, SizeAssumption DEF Init, TypeOK, Cell, Tags, Zero, Threads, ProducerPCs, ConsumerPCs
<1>3. /\ \A p \in Producers : pc[p] = "idle"
      /\ \A c \in Consumers : pc[c] = "idle"
      /\ BufferSize \in Nat \ {0}
      /\ head = 0 /\ tail = 0 /\ trailing = 0
  BY <1>1, <1>2, ThreadTypes DEF Init, Threads
<1>4. PICK n : n = [x \in Nat |-> 0]
  OBVIOUS
<1>5. Tiling({}, n)
  BY <1>3, <1>4 DEF Tiling
<1>6. Pointers({})
  BY <1>3 DEF Pointers, NeverLapped
<1>7. \A p \in Producers : FillingOK(p, {}, n) /\ ProducerLoaded(p) /\ ~Fills(p)
  BY <1>3 DEF FillingOK, ProducerLoaded, Fills
<1>8. \A c \in Consumers : HoldingOK(c, {}, n) /\ ConsumerLoaded(c) /\ ~Holds(c)
  BY <1>3 DEF HoldingOK, ConsumerLoaded, Holds
<1>9. UnclaimedIsZero
  <2>1. \A pos \in head .. trailing + BufferSize - 1 : Place(pos) \in Blocks
    BY <1>3, PlaceType
  <2>2. QED
    BY <1>1, <2>1 DEF UnclaimedIsZero, Init
<1>10. Inner({})
  <2>1. \A pos \in Window : Place(pos) \in Blocks
    BY <1>3, PlaceType DEF Window
  <2>2. QED
    BY <1>1, <2>1 DEF Inner, Word, Init, Zero
<1>11. QED
  BY <1>2, <1>5, <1>6, <1>7, <1>8, <1>9, <1>10 DEF SafeInv, Layout, Apart

LEMMA SafeNext ==
    ASSUME ~MayLap, SafeInv, TypeOK', [Next]_vars
    PROVE  SafeInv'
<1>1. TypeOK
  BY DEF SafeInv
<1>2. PICK S, n : Layout(S, n)
  BY DEF SafeInv
<1>3. ASSUME NEW p \in Producers, Produce(p)
      PROVE  \E R, m : Layout(R, m)'
  <2>1. CASE AdvanceHead(p)
    BY <1>1, <1>2, <2>1, ClaimingStep
  <2>2. CASE MarkSkipped(p) \/ StampSize(p) \/ WriteMessage(p) \/ Push(p)
    <3>1. Layout(S, n)'
      BY <1>1, <1>2, <2>2, WritingSteps
    <3>2. QED
      BY <3>1
  <2>3. CASE \/ \E k \in Sizes : Allocate(p, k)
             \/ Reload(p) \/ CheckRoom(p) \/ Retry(p) \/ Overflow(p) \/ MissHead(p)
    <3>1. Layout(S, n)'
      BY <1>1, <1>2, <2>3, ClaimingSteps
    <3>2. QED
      BY <3>1
  <2>4. QED
    BY <1>3, <2>1, <2>2, <2>3 DEF Produce
<1>4. ASSUME NEW c \in Consumers, Consume(c)
      PROVE  Layout(S, n)'
  <2>1. CASE LoadTail(c) \/ PeekFree(c) \/ PeekEntry(c) \/ MissTail(c) \/ Release(c) \/ ZeroDone(c)
    BY <1>1, <1>2, <2>1, PoppingSteps
  <2>2. CASE AdvanceTail(c)
    BY <1>1, <1>2, <2>2, TakingStep
  <2>3. CASE ZeroBlock(c)
    BY <1>1, <1>2, <2>3, ClearingStep
  <2>4. CASE AdvanceTrailing(c)
    BY <1>1, <1>2, <2>4, ReleasingStep
  <2>5. QED
    BY <1>4, <2>1, <2>2, <2>3, <2>4 DEF Consume
<1>5. ASSUME UNCHANGED vars
      PROVE  Layout(S, n)'
  <2>1. UNCHANGED <<mem, head, tail, trailing, pc, size, seen, at, tries, ind, left>>
    BY <1>5 DEF vars
  <2>2. QED
    BY <1>2, <2>1 DEF Layout, Tiling, Pointers, NeverLapped, FillingOK, Fills, ProducerLoaded,
       HoldingOK, Holds, ConsumerLoaded, Apart, WaitingOK, Written, Word, UnclaimedIsZero,
       Inner, Window
<1>6. \E R, m : Layout(R, m)'
  BY <1>3, <1>4, <1>5 DEF Next
<1>7. QED
  BY <1>6 DEF SafeInv

THEOREM SafeCorrect == ~MayLap => (Spec => []SafeInv)
<1>1. SUFFICES ASSUME ~MayLap
               PROVE  Spec => []SafeInv
  OBVIOUS
<1>2. Spec => []TypeOK
  BY TypeCorrect
<1>3. Init => SafeInv
  BY SafeInit
<1>4. SafeInv /\ TypeOK' /\ [Next]_vars => SafeInv'
  BY <1>1, SafeNext
<1>5. QED
  BY <1>2, <1>3, <1>4, PTL DEF Spec

-----------------------------------------------------------------------------
(* What a thread owns is one or two entries of the window.                 *)
LEMMA OwnedByProducer ==
    ASSUME TypeOK, NEW S, NEW n, Layout(S, n), NEW p \in Producers, NEW b \in OwnedBlocks(p)
    PROVE  \E e \in S, x \in Window :
              /\ Fills(p) /\ (e = at[p] \/ (pc[p] = "mark" /\ e = seen[p]))
              /\ x \in e .. e + n[e] - 1 /\ b = Place(x) /\ b \in Blocks
<1>1. /\ Tiling(S, n) /\ Pointers(S) /\ FillingOK(p, S, n) /\ pc[p] \in ProducerPCs
  BY ThreadTypes DEF Layout
<1>2. /\ Fills(p)
      /\ \/ b \in BlocksOf(at[p], size[p])
         \/ pc[p] = "mark" /\ b \in BlocksOf(seen[p], BytesToEnd(seen[p]))
  BY <1>1 DEF OwnedBlocks, ProducerPCs, Fills
<1>3. PICK e \in S : /\ e = at[p] \/ (pc[p] = "mark" /\ e = seen[p])
                     /\ b \in BlocksOf(e, n[e])
  BY <1>1, <1>2 DEF FillingOK
<1>4. trailing <= e
  BY <1>2, <1>3, OwnToFill
<1>5. PICK x \in e .. e + n[e] - 1 : b = Place(x)
  BY <1>1, <1>3, EntryBlocks
<1>6. x \in Window /\ b \in Blocks
  BY <1>1, <1>3, <1>4, <1>5, EntryInWindow, EntryBlocks
<1>7. QED
  BY <1>2, <1>3, <1>5, <1>6

LEMMA OwnedByConsumer ==
    ASSUME TypeOK, NEW S, NEW n, Layout(S, n), NEW c \in Consumers, NEW b \in OwnedBlocks(c)
    PROVE  \E x \in Window :
              /\ Holds(c) /\ at[c] \in S
              /\ x \in at[c] .. at[c] + n[at[c]] - 1 /\ b = Place(x) /\ b \in Blocks
<1>1. /\ Tiling(S, n) /\ Pointers(S) /\ HoldingOK(c, S, n) /\ pc[c] \in ConsumerPCs
  BY ThreadTypes DEF Layout
<1>2. /\ Holds(c) /\ b \in BlocksOf(at[c], n[at[c]])
  <2>1. pc[c] \in {"use", "zero", "trail"}
    BY <1>1 DEF OwnedBlocks, ConsumerPCs
  <2>2. CASE pc[c] = "use"
    BY <1>1, <2>2 DEF OwnedBlocks, HoldingOK, Holds, Word
  <2>3. CASE pc[c] \in {"zero", "trail"}
    BY <1>1, <2>3 DEF OwnedBlocks, HoldingOK, Holds
  <2>4. QED
    BY <2>1, <2>2, <2>3
<1>3. at[c] \in S /\ trailing <= at[c]
  BY <1>2, OwnToRelease
<1>4. PICK x \in at[c] .. at[c] + n[at[c]] - 1 : b = Place(x)
  BY <1>1, <1>2, <1>3, EntryBlocks
<1>5. x \in Window /\ b \in Blocks
  BY <1>1, <1>2, <1>3, <1>4, EntryInWindow, EntryBlocks
<1>6. QED
  BY <1>2, <1>3, <1>4, <1>5

(* Two entries that share a block are one.                                 *)
LEMMA OneEntry ==
    ASSUME TypeOK, NEW S, NEW n, Tiling(S, n), NEW e \in S, NEW f \in S,
           NEW x \in Window, NEW y \in Window,
           x \in e .. e + n[e] - 1, y \in f .. f + n[f] - 1, Place(x) = Place(y)
    PROVE  e = f
<1>1. x = y
  BY InWindow
<1>2. e \in Nat /\ f \in Nat /\ n[e] \in Nat /\ n[f] \in Nat
  BY EntryBlocks
<1>3. (e < f => e + n[e] <= f) /\ (f < e => f + n[f] <= e)
  BY DEF Tiling
<1>4. QED
  BY <1>1, <1>2, <1>3

LEMMA SafeExclusive == SafeInv => ExclusiveAccess
<1>1. SUFFICES ASSUME SafeInv
               PROVE  ExclusiveAccess
  OBVIOUS
<1>2. TypeOK
  BY <1>1 DEF SafeInv
<1>3. PICK S, n : Layout(S, n)
  BY <1>1 DEF SafeInv
<1>4. Tiling(S, n)
  BY <1>3 DEF Layout
<1>5. ASSUME NEW p \in Producers, NEW q \in Producers, p # q,
             NEW b \in OwnedBlocks(p), b \in OwnedBlocks(q)
      PROVE  FALSE
  <2>1. PICK e \in S, x \in Window :
              /\ Fills(p) /\ (e = at[p] \/ (pc[p] = "mark" /\ e = seen[p]))
              /\ x \in e .. e + n[e] - 1 /\ b = Place(x)
    BY <1>2, <1>3, OwnedByProducer
  <2>2. PICK f \in S, y \in Window :
              /\ Fills(q) /\ (f = at[q] \/ (pc[q] = "mark" /\ f = seen[q]))
              /\ y \in f .. f + n[f] - 1 /\ b = Place(y)
    BY <1>2, <1>3, <1>5, OwnedByProducer
  <2>3. e = f
    BY <1>2, <1>4, <2>1, <2>2, OneEntry
  <2>4. Foreign(e, p)
    BY <1>2, <1>3, <2>1, OwnToFill
  <2>5. QED
    BY <1>5, <2>2, <2>3, <2>4 DEF Foreign
<1>6. ASSUME NEW p \in Producers, NEW c \in Consumers,
             NEW b \in OwnedBlocks(p), b \in OwnedBlocks(c)
      PROVE  FALSE
  <2>1. PICK e \in S, x \in Window :
              /\ Fills(p) /\ (e = at[p] \/ (pc[p] = "mark" /\ e = seen[p]))
              /\ x \in e .. e + n[e] - 1 /\ b = Place(x)
    BY <1>2, <1>3, OwnedByProducer
  <2>2. PICK y \in Window :
              /\ Holds(c) /\ at[c] \in S
              /\ y \in at[c] .. at[c] + n[at[c]] - 1 /\ b = Place(y)
    BY <1>2, <1>3, <1>6, OwnedByConsumer
  <2>3. e = at[c]
    BY <1>2, <1>4, <2>1, <2>2, OneEntry
  <2>4. Foreign(e, p) /\ c # p
    BY <1>2, <1>3, <2>1, OwnToFill, ThreadTypes
  <2>5. QED
    BY <2>2, <2>3, <2>4 DEF Foreign
<1>7. ASSUME NEW c \in Consumers, NEW d \in Consumers, c # d,
             NEW b \in OwnedBlocks(c), b \in OwnedBlocks(d)
      PROVE  FALSE
  <2>1. PICK x \in Window :
              /\ Holds(c) /\ at[c] \in S
              /\ x \in at[c] .. at[c] + n[at[c]] - 1 /\ b = Place(x)
    BY <1>2, <1>3, OwnedByConsumer
  <2>2. PICK y \in Window :
              /\ Holds(d) /\ at[d] \in S
              /\ y \in at[d] .. at[d] + n[at[d]] - 1 /\ b = Place(y)
    BY <1>2, <1>3, <1>7, OwnedByConsumer
  <2>3. at[c] = at[d]
    BY <1>2, <1>4, <2>1, <2>2, OneEntry
  <2>4. Foreign(at[c], c)
    BY <1>2, <1>3, <2>1, OwnToRelease
  <2>5. QED
    BY <1>7, <2>2, <2>3, <2>4 DEF Foreign
<1>8. QED
  BY <1>5, <1>6, <1>7 DEF ExclusiveAccess, Threads

LEMMA SafeInside == SafeInv => InsideBuffer
<1>1. SUFFICES ASSUME SafeInv, NEW t \in Threads, NEW b \in OwnedBlocks(t)
               PROVE  b \in Blocks
  BY DEF InsideBuffer
<1>2. TypeOK
  BY <1>1 DEF SafeInv
<1>3. PICK S, n : Layout(S, n)
  BY <1>1 DEF SafeInv
<1>4. CASE t \in Producers
  BY <1>1, <1>2, <1>3, <1>4, OwnedByProducer
<1>5. CASE t \in Consumers
  BY <1>1, <1>2, <1>3, <1>5, OwnedByConsumer
<1>6. QED
  BY <1>4, <1>5 DEF Threads

LEMMA SafeMessage == SafeInv => MessageIntact
<1>1. SUFFICES ASSUME SafeInv, NEW c \in Consumers, pc[c] = "use",
                      NEW b \in OwnedBlocks(c) \ {Place(at[c])}
               PROVE  mem[b] = Payload(at[c])
  BY DEF MessageIntact
<1>2. TypeOK
  BY <1>1 DEF SafeInv
<1>3. PICK S, n : Layout(S, n)
  BY <1>1 DEF SafeInv
<1>4. PICK x \in Window : x \in at[c] .. at[c] + n[at[c]] - 1 /\ b = Place(x) /\ at[c] \in S
  BY <1>1, <1>2, <1>3, OwnedByConsumer
<1>5. x # at[c]
  BY <1>1, <1>4
<1>6. x \in at[c] + 1 .. at[c] + n[at[c]] - 1
  BY <1>2, <1>4, <1>5, ThreadTypes
<1>7. Written(at[c], n[at[c]])
  BY <1>1, <1>3 DEF Layout, HoldingOK
<1>8. QED
  BY <1>4, <1>6, <1>7 DEF Written, Word

LEMMA SafeIndicator == SafeInv => CurrentIndicator
<1>1. SUFFICES ASSUME SafeInv, NEW c \in Consumers, pc[c] = "take", Place(tail) = Place(seen[c])
               PROVE  ind[c] = mem[Place(tail)] /\ ind[c].tag \in {"committed", "failed"}
  BY DEF CurrentIndicator
<1>2. TypeOK
  BY <1>1 DEF SafeInv
<1>3. ConsumerLoaded(c)
  BY <1>1 DEF SafeInv, Layout
<1>4. tail \in Nat /\ seen[c] \in Nat /\ seen[c] <= tail /\ tail < seen[c] + BufferSize
  BY <1>1, <1>2, <1>3, ThreadTypes DEF ConsumerLoaded
<1>5. seen[c] = tail
  BY <1>1, <1>4, OnePlace
<1>6. QED
  BY <1>1, <1>3, <1>5 DEF ConsumerLoaded, Word

-----------------------------------------------------------------------------
(* _trailing, _tail and _head keep their order, and _head never reaches    *)
(* _trailing from behind: "check for lapping" (queue.h:167) checks enough, *)
(* for any number of threads.                                              *)
THEOREM PointersInOrder == ~MayLap => (Spec => []NeverLapped)
<1>1. SafeInv => NeverLapped
  BY DEF SafeInv, Layout, Pointers
<1>2. QED
  BY <1>1, SafeCorrect, PTL

(* Claimed memory is clear until its producer writes to it: release() has  *)
(* cleared whatever _trailing has passed.                                  *)
THEOREM UnclaimedIsClear == ~MayLap => (Spec => []UnclaimedIsZero)
<1>1. SafeInv => UnclaimedIsZero
  BY DEF SafeInv, Layout
<1>2. QED
  BY <1>1, SafeCorrect, PTL

(* No two threads ever write to, read or clear the same block.             *)
THEOREM AccessIsExclusive == ~MayLap => (Spec => []ExclusiveAccess)
BY SafeExclusive, SafeCorrect, PTL

(* Neither a constructor nor zero() leaves the buffer.                     *)
THEOREM NeverOutside == ~MayLap => (Spec => []InsideBuffer)
BY SafeInside, SafeCorrect, PTL

(* What the loop thread reads is what the API's thread constructed.        *)
THEOREM MessagesIntact == ~MayLap => (Spec => []MessageIntact)
BY SafeMessage, SafeCorrect, PTL

(* The indicator that pop() takes is the one that is in the buffer.        *)
THEOREM IndicatorIsCurrent == ~MayLap => (Spec => []CurrentIndicator)
BY SafeIndicator, SafeCorrect, PTL

-----------------------------------------------------------------------------
(* The queue as its users see it, from the state of the ring.              *)
Filling == [p \in Producers |-> IF Fills(p) THEN at[p] ELSE -1]
Ready == {MessageAt(pos) : pos \in CommittedHeaders}
Using == [c \in Consumers |-> IF pc[c] = "use" THEN MessageAt(at[c]) ELSE -1]
Taken == [c \in Consumers |-> IF pc[c] = "use" THEN at[c] ELSE -1]

(* The message behind a header is the one that was allocated there.        *)
Maps == Ready = CommittedHeaders /\ Using = Taken

LEMMA SafeMaps == SafeInv => Maps
<1>1. SUFFICES ASSUME SafeInv
               PROVE  Maps
  OBVIOUS
<1>2. TypeOK
  BY <1>1 DEF SafeInv
<1>3. PICK S, n : Layout(S, n)
  BY <1>1 DEF SafeInv
<1>4. /\ Tiling(S, n) /\ Inner(S) /\ trailing <= tail /\ head < trailing + BufferSize
      /\ head \in Nat /\ tail \in Nat /\ trailing \in Nat /\ BufferSize \in Nat
  BY <1>2, <1>3, ThreadTypes DEF Layout, Pointers, NeverLapped
<1>5. ASSUME NEW s \in S, n[s] > 1, Written(s, n[s])
      PROVE  MessageAt(s) = s
  <2>1. s \in Nat /\ n[s] \in Nat
    BY <1>2, <1>4, EntryBlocks
  <2>2. s + 1 \in s + 1 .. s + n[s] - 1
    BY <1>5, <2>1
  <2>3. mem[Place(s + 1)] = Payload(s)
    BY <1>5, <2>2 DEF Written, Word
  <2>4. QED
    BY <2>3 DEF MessageAt, Payload
<1>6. \A s \in CommittedHeaders : MessageAt(s) = s
  <2>1. ASSUME NEW s \in CommittedHeaders
        PROVE  MessageAt(s) = s
    <3>1. s \in tail .. head - 1 /\ Word(s).tag = "committed"
      BY DEF CommittedHeaders, Word
    <3>2. s \in Window
      BY <1>4, <3>1 DEF Window
    <3>3. s \in S
      BY <1>4, <3>1, <3>2 DEF Inner
    <3>4. WaitingOK(s, n) /\ tail <= s
      BY <1>3, <3>1, <3>3 DEF Layout
    <3>5. QED
      BY <1>5, <3>1, <3>3, <3>4 DEF WaitingOK
  <2>2. QED
    BY <2>1
<1>7. \A c \in Consumers : pc[c] = "use" => MessageAt(at[c]) = at[c]
  <2>1. ASSUME NEW c \in Consumers, pc[c] = "use"
        PROVE  MessageAt(at[c]) = at[c]
    <3>1. HoldingOK(c, S, n)
      BY <1>3 DEF Layout
    <3>2. at[c] \in S /\ n[at[c]] > 1 /\ Written(at[c], n[at[c]])
      BY <2>1, <3>1 DEF HoldingOK, Holds
    <3>3. QED
      BY <1>5, <3>2
  <2>2. QED
    BY <2>1
<1>8. Ready = CommittedHeaders
  BY <1>6 DEF Ready
<1>9. Using = Taken
  BY <1>7 DEF Using, Taken
<1>10. QED
  BY <1>8, <1>9 DEF Maps

(* What each operation of the queue is in terms of the ring.               *)
LEMMA AbstractVars ==
    /\ Abstract!vars = <<head, Filling, Ready, Using>>
    /\ Abstract!vars' = <<head', Filling', Ready', Using'>>
BY DEF Abstract!vars, Filling, Fills, Ready, Using

LEMMA SameQueue ==
    ASSUME Maps, Maps', head' = head, Filling' = Filling,
           CommittedHeaders' = CommittedHeaders, Taken' = Taken
    PROVE  UNCHANGED Abstract!vars
<1>1. Ready' = Ready /\ Using' = Using
  BY DEF Maps
<1>2. QED
  BY <1>1, AbstractVars

LEMMA IsAllocate ==
    ASSUME Maps, Maps', NEW p \in Producers, Filling[p] = -1, head' \in Nat,
           NEW t \in head .. head' - 1, Filling' = [Filling EXCEPT ![p] = t],
           CommittedHeaders' = CommittedHeaders, Taken' = Taken
    PROVE  Abstract!Allocate(p)
<1>1. Ready' = Ready /\ Using' = Using
  BY DEF Maps
<1>2. QED
  BY <1>1 DEF Abstract!Allocate, Abstract!Tickets, Filling, Fills, Ready, Using

LEMMA IsPush ==
    ASSUME Maps, Maps', NEW p \in Producers, Filling[p] # -1, head' = head,
           Filling' = [Filling EXCEPT ![p] = -1],
           CommittedHeaders' = CommittedHeaders \cup {Filling[p]}, Taken' = Taken
    PROVE  Abstract!Push(p)
<1>1. Ready' = Ready \cup {Filling[p]} /\ Using' = Using
  BY DEF Maps
<1>2. QED
  BY <1>1 DEF Abstract!Push, Filling, Fills, Ready, Using

LEMMA IsPop ==
    ASSUME Maps, Maps', NEW c \in Consumers, Taken[c] = -1, NEW t \in CommittedHeaders,
           \A s \in CommittedHeaders : t <= s,
           \A p \in Producers : Filling[p] # -1 => t <= Filling[p],
           head' = head, Filling' = Filling,
           CommittedHeaders' = CommittedHeaders \ {t}, Taken' = [Taken EXCEPT ![c] = t]
    PROVE  Abstract!Pop(c)
<1>1. /\ Ready' = Ready \ {t} /\ Using' = [Using EXCEPT ![c] = t] /\ Using[c] = -1
      /\ t \in Ready /\ \A s \in Ready : t <= s
  BY DEF Maps
<1>2. Abstract!Queued = Ready \cup ({Filling[p] : p \in Producers} \ {-1})
  BY DEF Abstract!Queued, Filling, Fills, Ready
<1>3. Abstract!Front(t)
  <2>1. \A s \in Abstract!Queued : t <= s
    BY <1>1, <1>2
  <2>2. QED
    BY <1>1, <2>1 DEF Abstract!Front, Ready
<1>4. QED
  BY <1>1, <1>3 DEF Abstract!Pop, Filling, Fills, Ready, Using

LEMMA IsRelease ==
    ASSUME Maps, Maps', NEW c \in Consumers, Taken[c] # -1, head' = head, Filling' = Filling,
           CommittedHeaders' = CommittedHeaders, Taken' = [Taken EXCEPT ![c] = -1]
    PROVE  Abstract!Release(c)
<1>1. Ready' = Ready /\ Using' = [Using EXCEPT ![c] = -1] /\ Using[c] # -1
  BY DEF Maps
<1>2. QED
  BY <1>1 DEF Abstract!Release, Filling, Fills, Ready, Using

LEMMA SameFillings ==
    ASSUME \A p \in Producers : (Fills(p)' <=> Fills(p)) /\ (Fills(p) => at'[p] = at[p])
    PROVE  Filling' = Filling
BY DEF Filling

LEMMA SameTaken ==
    ASSUME \A c \in Consumers : /\ pc'[c] = "use" <=> pc[c] = "use"
                                /\ pc[c] = "use" => at'[c] = at[c]
    PROVE  Taken' = Taken
BY DEF Taken

LEMMA SameHeaders ==
    ASSUME head' = head, tail' = tail,
           \A y \in tail .. head - 1 :
              mem'[Place(y)].tag = "committed" <=> mem[Place(y)].tag = "committed"
    PROVE  CommittedHeaders' = CommittedHeaders
BY DEF CommittedHeaders

(* What is queued lies in the window, and a message that is ready is an    *)
(* entry.                                                                  *)
LEMMA QueuedInWindow ==
    ASSUME TypeOK, NEW S, NEW n, Layout(S, n)
    PROVE  /\ \A y \in tail .. head - 1 : y \in Window
           /\ CommittedHeaders \subseteq S
           /\ \A y \in CommittedHeaders : y \in tail .. head - 1 /\ Word(y).tag = "committed"
<1>1. /\ trailing <= tail /\ head < trailing + BufferSize /\ Inner(S)
      /\ head \in Nat /\ tail \in Nat /\ trailing \in Nat /\ BufferSize \in Nat
  BY ThreadTypes DEF Layout, Pointers, NeverLapped
<1>2. \A y \in tail .. head - 1 : y \in Window
  BY <1>1 DEF Window
<1>3. \A y \in CommittedHeaders : y \in tail .. head - 1 /\ Word(y).tag = "committed"
  BY DEF CommittedHeaders, Word
<1>4. CommittedHeaders \subseteq S
  BY <1>1, <1>2, <1>3 DEF Inner
<1>5. QED
  BY <1>2, <1>3, <1>4

(* A producer's step is no step of the queue's, or allocates, or pushes.   *)
LEMMA ProduceMaps ==
    ASSUME SafeInv, SafeInv', NEW p \in Producers, Produce(p)
    PROVE  Abstract!Allocate(p) \/ Abstract!Push(p) \/ UNCHANGED Abstract!vars
<1>1. Maps
  BY SafeMaps
<1>2. Maps'
  BY SafeMaps, PTL
<1>3. TypeOK
  BY DEF SafeInv
<1>4. PICK S, n : Layout(S, n)
  BY DEF SafeInv
<1>5. /\ p \in Threads /\ p \notin Consumers /\ size[p] \in Nat /\ at[p] \in Nat
      /\ head \in Nat /\ tail \in Nat /\ trailing \in Nat /\ BufferSize \in Nat
      /\ pc \in [Threads -> ProducerPCs \cup ConsumerPCs] /\ at \in [Threads -> Nat]
  BY <1>3, ThreadTypes DEF TypeOK
<1>6. /\ Tiling(S, n) /\ Inner(S) /\ FillingOK(p, S, n) /\ ProducerLoaded(p)
      /\ trailing <= tail /\ tail <= head /\ head < trailing + BufferSize
  BY <1>4 DEF Layout, Pointers, NeverLapped
<1>7. /\ tail' = tail /\ trailing' = trailing
      /\ \A u \in Threads \ {p} : pc'[u] = pc[u] /\ at'[u] = at[u]
  BY <1>5 DEF Produce, Allocate, Reload, CheckRoom, Retry, Overflow, AdvanceHead, MissHead,
              MarkSkipped, StampSize, WriteMessage, Push, Return, Goto, locals
<1>8. Taken' = Taken
  BY <1>3, <1>5, <1>7, SameTaken, ThreadTypes
<1>9. /\ \A y \in tail .. head - 1 : y \in Window
      /\ \A s \in S : tail <= s => s \in tail .. head - 1
  BY <1>3, <1>4, <1>5, <1>6, QueuedInWindow, EntryBlocks
<1>10. ASSUME Fills(p)' <=> Fills(p), Fills(p) => at'[p] = at[p]
       PROVE  Filling' = Filling
  <2>1. \A q \in Producers \ {p} : (Fills(q)' <=> Fills(q)) /\ at'[q] = at[q]
    BY <1>3, <1>7, ThreadTypes DEF Fills
  <2>2. QED
    BY <1>10, <2>1, SameFillings
<1>11. CASE \/ \E k \in Sizes : Allocate(p, k)
            \/ Reload(p) \/ CheckRoom(p) \/ Retry(p) \/ Overflow(p) \/ MissHead(p)
  <2>1. /\ head' = head /\ mem' = mem
        /\ pc[p] \in {"idle", "load", "check", "advance"}
        /\ pc'[p] \in {"idle", "load", "check", "advance"}
    BY <1>5, <1>11 DEF Allocate, Reload, CheckRoom, Retry, Overflow, MissHead, Return, Goto
  <2>2. ~Fills(p) /\ ~Fills(p)'
    BY <2>1 DEF Fills
  <2>3. Filling' = Filling
    BY <1>10, <2>2
  <2>4. CommittedHeaders' = CommittedHeaders
    BY <1>7, <2>1, SameHeaders
  <2>5. QED
    BY <1>1, <1>2, <1>8, <2>1, <2>3, <2>4, SameQueue
<1>12. CASE AdvanceHead(p)
  <2>1. PICK claim, at1 : /\ claim = ClaimOf(size[p], seen[p])
                          /\ at1 = head + (claim - size[p])
    OBVIOUS
  <2>2. /\ pc[p] = "advance" /\ pc'[p] \in {"mark", "stamp"} /\ mem' = mem
        /\ head' = head + claim /\ at'[p] = at1
    BY <1>5, <1>12, <2>1 DEF AdvanceHead, Goto
  <2>3. size[p] \in 2 .. BufferSize /\ claim \in Nat /\ claim >= size[p]
    BY <1>3, <1>5, <1>6, <2>1, <2>2, ThreadTypes, ClaimType DEF ProducerLoaded
  <2>4. head' \in Nat /\ head <= head' /\ at1 \in head .. head' - 1
    BY <1>5, <2>1, <2>2, <2>3
  <2>5. Filling[p] = -1 /\ Filling' = [Filling EXCEPT ![p] = at1]
    <3>1. ~Fills(p) /\ Fills(p)'
      BY <2>2 DEF Fills
    <3>2. \A q \in Producers \ {p} : (Fills(q)' <=> Fills(q)) /\ at'[q] = at[q]
      BY <1>3, <1>7, ThreadTypes DEF Fills
    <3>3. QED
      BY <2>2, <3>1, <3>2 DEF Filling
  <2>6. CommittedHeaders' = CommittedHeaders
    <3>1. PICK h : h = head'
      OBVIOUS
    <3>2. h \in Nat /\ head <= h /\ h < trailing + BufferSize
      BY <1>7, <2>4, <3>1 DEF SafeInv, Layout, Pointers, NeverLapped
    <3>3. ASSUME NEW y \in head .. h - 1
          PROVE  mem[Place(y)].tag # "committed"
      <4>1. y \in head .. trailing + BufferSize - 1
        BY <1>5, <3>2
      <4>2. mem[Place(y)] = Zero
        BY <1>4, <4>1 DEF Layout, UnclaimedIsZero
      <4>3. QED
        BY <4>2 DEF Zero
    <3>4. /\ \A y \in tail .. h - 1 : y \in tail .. head - 1 \/ y \in head .. h - 1
          /\ \A y \in tail .. head - 1 : y \in tail .. h - 1
      BY <1>5, <3>2
    <3>5. CommittedHeaders' = {pos \in tail .. h - 1 : mem[Place(pos)].tag = "committed"}
      BY <1>7, <2>2, <3>1 DEF CommittedHeaders
    <3>6. QED
      BY <3>3, <3>4, <3>5 DEF CommittedHeaders
  <2>7. Abstract!Allocate(p)
    BY <1>1, <1>2, <1>8, <2>4, <2>5, <2>6, IsAllocate
  <2>8. QED
    BY <2>7
<1>13. ASSUME NEW x, NEW cell, Fills(p), x = at[p] \/ (pc[p] = "mark" /\ x = seen[p]),
              Store(Place(x), cell)
       PROVE  /\ x \in tail .. head - 1 /\ mem[Place(x)].tag = "free"
              /\ mem'[Place(x)] = cell
              /\ \A y \in tail .. head - 1 : y # x => mem'[Place(y)] = mem[Place(y)]
  <2>1. x \in S /\ tail <= x /\ Word(x).tag = "free"
    BY <1>3, <1>4, <1>13, OwnToFill
  <2>2. x \in tail .. head - 1 /\ x \in Window
    BY <1>9, <2>1
  <2>3. QED
    BY <1>3, <1>9, <1>13, <2>1, <2>2, StoreElsewhere DEF Word
<1>14. CASE MarkSkipped(p) \/ StampSize(p)
  <2>1. /\ head' = head /\ at' = at /\ Fills(p) /\ Fills(p)'
    BY <1>5, <1>14 DEF MarkSkipped, StampSize, Goto, Fills, locals
  <2>2. PICK x, cell : /\ x = at[p] \/ (pc[p] = "mark" /\ x = seen[p])
                       /\ Store(Place(x), cell) /\ cell.tag \in {"free", "failed"}
    <3>1. CASE MarkSkipped(p)
      BY <3>1 DEF MarkSkipped, Skipped
    <3>2. CASE StampSize(p)
      BY <3>2 DEF StampSize
    <3>3. QED
      BY <1>14, <3>1, <3>2
  <2>3. \A y \in tail .. head - 1 :
           mem'[Place(y)].tag = "committed" <=> mem[Place(y)].tag = "committed"
    BY <1>13, <2>1, <2>2
  <2>4. Filling' = Filling
    BY <1>10, <2>1
  <2>5. CommittedHeaders' = CommittedHeaders
    BY <1>7, <2>1, <2>3, SameHeaders
  <2>6. QED
    BY <1>1, <1>2, <1>8, <2>1, <2>4, <2>5, SameQueue
<1>15. CASE WriteMessage(p)
  <2>1. /\ head' = head /\ at' = at /\ Fills(p) /\ Fills(p)'
        /\ mem' = [b \in Blocks |->
                     IF b \in PayloadOf(at[p], size[p]) THEN Payload(at[p]) ELSE mem[b]]
    BY <1>5, <1>15 DEF WriteMessage, Goto, Fills, locals
  <2>2. PICK e : e = at[p]
    OBVIOUS
  <2>3. e \in S /\ tail <= e /\ size[p] = n[e]
    BY <1>6, <2>1, <2>2 DEF FillingOK
  <2>4. /\ e \in Nat /\ n[e] \in Nat /\ e + n[e] <= head
        /\ PayloadOf(e, n[e]) = {Place(x) : x \in e + 1 .. e + n[e] - 1}
    <3>1. e \in Nat /\ n[e] \in Nat /\ e + n[e] <= head /\ Place(e) + n[e] <= BufferSize
      BY <1>3, <1>6, <2>3, EntryBlocks
    <3>2. QED
      BY <3>1, Pieces
  <2>5. ASSUME NEW y \in tail .. head - 1
        PROVE  mem'[Place(y)].tag = "committed" <=> mem[Place(y)].tag = "committed"
    <3>1. y \in Window /\ Place(y) \in Blocks
      BY <1>3, <1>5, <1>9, ThreadTypes
    <3>2. CASE Place(y) \notin PayloadOf(e, n[e])
      BY <2>1, <2>2, <2>3, <3>1, <3>2
    <3>3. CASE Place(y) \in PayloadOf(e, n[e])
      <4>1. PICK x \in e + 1 .. e + n[e] - 1 : Place(y) = Place(x)
        BY <2>4, <3>3
      <4>2. x \in Window
        BY <1>5, <1>9, <2>3, <2>4
      <4>3. y = x
        BY <1>3, <3>1, <4>1, <4>2, InWindow
      <4>4. y \notin S
        BY <1>6, <2>3, <2>4, <4>1, <4>3 DEF Tiling
      <4>5. mem[Place(y)].tag # "committed"
        BY <1>6, <3>1, <4>4 DEF Inner, Word
      <4>6. mem'[Place(y)] = Payload(e)
        BY <2>1, <2>2, <2>3, <3>1, <3>3
      <4>7. QED
        BY <4>5, <4>6 DEF Payload
    <3>4. QED
      BY <3>2, <3>3
  <2>6. Filling' = Filling
    BY <1>10, <2>1
  <2>7. CommittedHeaders' = CommittedHeaders
    BY <1>7, <2>1, <2>5, SameHeaders
  <2>8. QED
    BY <1>1, <1>2, <1>8, <2>1, <2>6, <2>7, SameQueue
<1>16. CASE Push(p)
  <2>1. PICK e, cell : /\ e = at[p] /\ cell.tag = "committed" /\ Store(Place(e), cell)
    <3>1. Store(Place(at[p]), [tag |-> "committed", val |-> mem[Place(at[p])].val])
      BY <1>16 DEF Push
    <3>2. QED
      BY <3>1
  <2>2. /\ head' = head /\ Fills(p) /\ ~Fills(p)'
    BY <1>5, <1>16 DEF Push, Return, Goto, Fills
  <2>3. /\ e \in tail .. head - 1 /\ mem'[Place(e)] = cell
        /\ \A y \in tail .. head - 1 : y # e => mem'[Place(y)] = mem[Place(y)]
    BY <1>13, <2>1, <2>2
  <2>4. Filling[p] = e /\ Filling' = [Filling EXCEPT ![p] = -1]
    <3>1. \A q \in Producers \ {p} : (Fills(q)' <=> Fills(q)) /\ at'[q] = at[q]
      BY <1>3, <1>7, ThreadTypes DEF Fills
    <3>2. QED
      BY <2>1, <2>2, <3>1 DEF Filling
  <2>5. CommittedHeaders' = CommittedHeaders \cup {Filling[p]}
    <3>1. CommittedHeaders' = {pos \in tail .. head - 1 : mem'[Place(pos)].tag = "committed"}
      BY <1>7, <2>2 DEF CommittedHeaders
    <3>2. QED
      BY <2>1, <2>3, <2>4, <3>1 DEF CommittedHeaders
  <2>6. Abstract!Push(p)
    <3>1. Filling[p] # -1
      BY <1>5, <2>1, <2>4
    <3>2. QED
      BY <1>1, <1>2, <1>8, <2>2, <2>4, <2>5, <3>1, IsPush
  <2>7. QED
    BY <2>6
<1>17. QED
  BY <1>11, <1>12, <1>14, <1>15, <1>16 DEF Produce

(* A consumer's step is no step of the queue's, or pops, or releases.      *)
LEMMA ConsumeMaps ==
    ASSUME SafeInv, SafeInv', NEW c \in Consumers, Consume(c)
    PROVE  Abstract!Pop(c) \/ Abstract!Release(c) \/ UNCHANGED Abstract!vars
<1>1. Maps
  BY SafeMaps
<1>2. Maps'
  BY SafeMaps, PTL
<1>3. TypeOK
  BY DEF SafeInv
<1>4. PICK S, n : Layout(S, n)
  BY DEF SafeInv
<1>5. /\ c \in Threads /\ c \notin Producers /\ at[c] \in Nat /\ left[c] \in Nat
      /\ head \in Nat /\ tail \in Nat /\ trailing \in Nat /\ BufferSize \in Nat
      /\ pc \in [Threads -> ProducerPCs \cup ConsumerPCs] /\ at \in [Threads -> Nat]
  BY <1>3, ThreadTypes DEF TypeOK
<1>6. /\ Tiling(S, n) /\ Inner(S) /\ HoldingOK(c, S, n)
      /\ trailing <= tail /\ tail <= head /\ head < trailing + BufferSize
  BY <1>4 DEF Layout, Pointers, NeverLapped
<1>7. /\ head' = head
      /\ \A u \in Threads \ {c} : pc'[u] = pc[u] /\ at'[u] = at[u]
  BY <1>5 DEF Consume, LoadTail, PeekFree, PeekEntry, AdvanceTail, MissTail, Release,
              ZeroBlock, ZeroDone, AdvanceTrailing, Return, Goto, locals
<1>8. Filling' = Filling
  <2>1. \A p \in Producers : (Fills(p)' <=> Fills(p)) /\ at'[p] = at[p]
    BY <1>3, <1>5, <1>7, ThreadTypes DEF Fills
  <2>2. QED
    BY <2>1, SameFillings
<1>9. \A d \in Consumers \ {c} : pc'[d] = pc[d] /\ at'[d] = at[d]
  BY <1>3, <1>7, ThreadTypes
<1>10. CASE \/ LoadTail(c) \/ PeekFree(c) \/ PeekEntry(c) \/ MissTail(c)
            \/ ZeroDone(c) \/ AdvanceTrailing(c)
  <2>1. mem' = mem /\ tail' = tail /\ pc[c] # "use" /\ pc'[c] # "use"
    BY <1>5, <1>10 DEF LoadTail, PeekFree, PeekEntry, MissTail, ZeroDone, AdvanceTrailing,
                      Return, Goto
  <2>2. Taken' = Taken
    BY <1>9, <2>1, SameTaken
  <2>3. CommittedHeaders' = CommittedHeaders
    BY <1>7, <2>1, SameHeaders
  <2>4. QED
    BY <1>1, <1>2, <1>7, <1>8, <2>2, <2>3, SameQueue
<1>11. CASE AdvanceTail(c)
  <2>1. /\ pc[c] = "take" /\ Place(tail) = Place(seen[c]) /\ tail' = tail + ind[c].val
        /\ mem' = mem /\ at'[c] = tail
        /\ \/ ind[c].tag = "committed" /\ pc'[c] = "use"
           \/ ind[c].tag = "failed" /\ pc'[c] = "zero"
    BY <1>5, <1>11 DEF AdvanceTail, TailUnmoved, Goto
  <2>2. PICK e : e = tail
    OBVIOUS
  <2>3. /\ e \in S /\ e < head /\ ind[c] = Word(e) /\ ind[c].val = n[e]
    BY <1>3, <1>4, <2>1, <2>2, TakenEntry
  <2>4. e \in Nat /\ n[e] \in Nat /\ n[e] > 0 /\ e + n[e] <= head
    BY <1>3, <1>6, <2>3, EntryBlocks
  <2>5. PICK t : t = e + n[e]
    OBVIOUS
  <2>6. tail' = t /\ t \in Nat /\ e < t /\ t <= head
    BY <2>1, <2>2, <2>3, <2>4, <2>5
  <2>7. \A y \in e + 1 .. t - 1 : mem[Place(y)].tag # "committed"
    <3>1. ASSUME NEW y \in e + 1 .. t - 1
          PROVE  mem[Place(y)].tag # "committed"
      <4>1. y \in Window
        BY <1>5, <1>6, <2>2, <2>4, <2>6 DEF Window
      <4>2. y \notin S
        BY <1>6, <2>3, <2>4, <2>5 DEF Tiling
      <4>3. QED
        BY <1>6, <4>1, <4>2 DEF Inner, Word
    <3>2. QED
      BY <3>1
  <2>8. CommittedHeaders' = CommittedHeaders \ {e}
    <3>1. CommittedHeaders' = {pos \in t .. head - 1 : mem[Place(pos)].tag = "committed"}
      BY <1>7, <2>1, <2>6 DEF CommittedHeaders
    <3>2. CommittedHeaders = {pos \in e .. head - 1 : mem[Place(pos)].tag = "committed"}
      BY <2>2 DEF CommittedHeaders
    <3>3. /\ \A y \in e .. head - 1 : y = e \/ y \in e + 1 .. t - 1 \/ y \in t .. head - 1
          /\ \A y \in t .. head - 1 : y \in e .. head - 1 /\ y # e
      BY <1>5, <2>4, <2>6
    <3>4. QED
      BY <2>7, <3>1, <3>2, <3>3
  <2>9. CASE ind[c].tag = "committed" /\ pc'[c] = "use"
    <3>1. e \in CommittedHeaders /\ \A s \in CommittedHeaders : e <= s
      BY <1>5, <2>2, <2>3, <2>4, <2>9 DEF CommittedHeaders, Word
    <3>2. ASSUME NEW p \in Producers, Filling[p] # -1
          PROVE  e <= Filling[p]
      <4>1. Fills(p) /\ Filling[p] = at[p]
        BY <3>2 DEF Filling
      <4>2. QED
        BY <1>4, <2>2, <4>1 DEF Layout, FillingOK
    <3>3. Taken[c] = -1 /\ Taken' = [Taken EXCEPT ![c] = e]
      <4>1. pc[c] # "use"
        BY <2>1
      <4>2. QED
        BY <1>9, <2>1, <2>2, <2>9, <4>1 DEF Taken
    <3>4. Abstract!Pop(c)
      BY <1>1, <1>2, <1>7, <1>8, <2>8, <3>1, <3>2, <3>3, IsPop
    <3>5. QED
      BY <3>4
  <2>10. CASE ind[c].tag = "failed" /\ pc'[c] = "zero"
    <3>1. e \notin CommittedHeaders
      BY <2>3, <2>10 DEF CommittedHeaders, Word
    <3>2. CommittedHeaders' = CommittedHeaders
      BY <2>8, <3>1
    <3>3. pc[c] # "use" /\ pc'[c] # "use"
      BY <2>1, <2>10
    <3>4. Taken' = Taken
      BY <1>9, <3>3, SameTaken
    <3>5. QED
      BY <1>1, <1>2, <1>7, <1>8, <3>2, <3>4, SameQueue
  <2>11. QED
    BY <2>1, <2>9, <2>10
<1>12. CASE Release(c)
  <2>1. mem' = mem /\ tail' = tail /\ pc[c] = "use" /\ pc'[c] = "zero"
    BY <1>5, <1>12 DEF Release, Goto
  <2>2. CommittedHeaders' = CommittedHeaders
    BY <1>7, <2>1, SameHeaders
  <2>3. Taken[c] = at[c] /\ Taken' = [Taken EXCEPT ![c] = -1]
    <3>1. Taken[c] = at[c]
      BY <2>1 DEF Taken
    <3>2. pc'[c] # "use"
      BY <2>1
    <3>3. QED
      BY <1>9, <3>1, <3>2 DEF Taken
  <2>4. Taken[c] # -1
    BY <1>5, <2>3
  <2>5. Abstract!Release(c)
    BY <1>1, <1>2, <1>7, <1>8, <2>2, <2>3, <2>4, IsRelease
  <2>6. QED
    BY <2>5
<1>13. CASE ZeroBlock(c)
  <2>1. /\ tail' = tail /\ pc' = pc /\ pc[c] = "zero" /\ left[c] # 0
        /\ Store(Place(at[c]) + left[c] - 1, Zero)
    BY <1>13 DEF ZeroBlock, Cleared
  <2>2. PICK e : e = at[c]
    OBVIOUS
  <2>3. /\ e \in S /\ trailing <= e /\ e + n[e] <= tail /\ left[c] \in 0 .. n[e]
    BY <1>3, <1>4, <1>6, <2>1, <2>2, OwnToRelease DEF HoldingOK, Holds
  <2>4. /\ e \in Nat /\ n[e] \in Nat
        /\ \A i \in 0 .. n[e] - 1 : Place(e + i) = Place(e) + i
    BY <1>3, <1>6, <2>3, EntryBlocks
  <2>5. PICK i : i = left[c] - 1
    OBVIOUS
  <2>6. i \in 0 .. n[e] - 1 /\ Place(e + i) = Place(e) + i /\ Place(e) \in Nat
    BY <1>5, <2>1, <2>3, <2>4, <2>5, PlaceType
  <2>7. Place(at[c]) + left[c] - 1 = Place(e + i)
    BY <1>5, <2>2, <2>5, <2>6
  <2>8. e + i \in Window /\ e + i < tail /\ e + i \in Nat
    BY <1>5, <1>6, <2>3, <2>4, <2>6 DEF Window
  <2>9. \A y \in Window : y # e + i => mem'[Place(y)] = mem[Place(y)]
    BY <1>3, <2>1, <2>7, <2>8, StoreElsewhere
  <2>10. \A y \in tail .. head - 1 : mem'[Place(y)] = mem[Place(y)]
    <3>1. \A y \in tail .. head - 1 : y \in Window /\ y # e + i
      BY <1>3, <1>4, <1>5, <2>8, QueuedInWindow
    <3>2. QED
      BY <2>9, <3>1
  <2>11. CommittedHeaders' = CommittedHeaders
    BY <1>7, <2>1, <2>10, SameHeaders
  <2>12. Taken' = Taken
    <3>1. pc[c] # "use" /\ pc'[c] # "use"
      BY <2>1
    <3>2. QED
      BY <1>9, <3>1, SameTaken
  <2>13. QED
    BY <1>1, <1>2, <1>7, <1>8, <2>11, <2>12, SameQueue
<1>14. QED
  BY <1>10, <1>11, <1>12, <1>13 DEF Consume

LEMMA QueueInit == Init => Abstract!Init
<1>1. SUFFICES ASSUME Init
               PROVE  Abstract!Init
  OBVIOUS
<1>2. \A t \in Threads : pc[t] = "idle"
  BY <1>1 DEF Init
<1>3. \A p \in Producers : ~Fills(p)
  BY <1>2 DEF Threads, Fills
<1>4. Filling = [p \in Producers |-> -1]
  BY <1>3 DEF Filling
<1>5. \A c \in Consumers : pc[c] # "use"
  BY <1>2 DEF Threads
<1>6. Using = [c \in Consumers |-> -1]
  BY <1>5 DEF Using
<1>7. head = 0 /\ tail = 0
  BY <1>1 DEF Init
<1>8. CommittedHeaders = {}
  BY <1>7 DEF CommittedHeaders
<1>9. Ready = {}
  BY <1>8 DEF Ready
<1>10. QED
  BY <1>4, <1>6, <1>7, <1>9 DEF Abstract!Init, Filling, Fills, Using, Ready

(* queue.h implements the queue that its users rely on, for any number of  *)
(* threads, size of the buffer and sizes of messages.                      *)
THEOREM IsMessageQueue == ~MayLap => (Spec => ImplementsMessageQueue)
<1>1. SUFFICES ASSUME ~MayLap
               PROVE  Spec => ImplementsMessageQueue
  OBVIOUS
<1>2. Spec => []SafeInv
  BY <1>1, SafeCorrect
<1>3. Init => Abstract!Init
  BY QueueInit
<1>4. SafeInv /\ SafeInv' /\ [Next]_vars => [Abstract!Next]_Abstract!vars
  <2>1. SUFFICES ASSUME SafeInv, SafeInv', [Next]_vars
                 PROVE  Abstract!Next \/ UNCHANGED Abstract!vars
    OBVIOUS
  <2>2. ASSUME NEW p \in Producers, Produce(p)
        PROVE  Abstract!Next \/ UNCHANGED Abstract!vars
    BY <2>1, <2>2, ProduceMaps DEF Abstract!Next
  <2>3. ASSUME NEW c \in Consumers, Consume(c)
        PROVE  Abstract!Next \/ UNCHANGED Abstract!vars
    BY <2>1, <2>3, ConsumeMaps DEF Abstract!Next
  <2>4. ASSUME UNCHANGED vars
        PROVE  UNCHANGED Abstract!vars
    BY <2>4 DEF vars, Abstract!vars, MessageAt, CommittedHeaders
  <2>5. QED
    BY <2>1, <2>2, <2>3, <2>4 DEF Next
<1>5. QED
  BY <1>2, <1>3, <1>4, PTL DEF Spec, ImplementsMessageQueue, Abstract!Spec
=============================================================================
