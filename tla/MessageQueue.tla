---------------------------- MODULE MessageQueue ----------------------------
(***************************************************************************)
(* What the users of queue.h rely on: a queue in which a message takes its *)
(* place when its memory is allocated, can be popped once it is pushed and *)
(* everything before it has been popped, and is popped by one consumer.    *)
(*                                                                         *)
(* A place in the queue is a ticket; later places have greater tickets.    *)
(* A message is named by its ticket.                                       *)
(***************************************************************************)
EXTENDS Naturals

CONSTANTS
    Producers, Consumers,
    None          \* not a ticket

VARIABLES
    next,         \* every ticket from here on is still to be given out
    filling,      \* the ticket each producer has allocated and not pushed
    ready,        \* the messages that are pushed and not popped
    using         \* the message each consumer has popped and not released

vars == <<next, filling, ready, using>>

Tickets == Nat

TypeOK ==
    /\ next \in Tickets
    /\ filling \in [Producers -> Tickets \cup {None}]
    /\ ready \subseteq Tickets
    /\ using \in [Consumers -> Tickets \cup {None}]

Init ==
    /\ next = 0
    /\ filling = [p \in Producers |-> None]
    /\ ready = {}
    /\ using = [c \in Consumers |-> None]

(* The messages in the queue, pushed or not.                               *)
Queued == ready \cup ({filling[p] : p \in Producers} \ {None})

(* allocate(): the new message goes behind all others.                     *)
Allocate(p) ==
    /\ filling[p] = None
    /\ next' \in Tickets
    /\ \E t \in next .. (next' - 1) : filling' = [filling EXCEPT ![p] = t]
    /\ UNCHANGED <<ready, using>>

(* push(): the message can be popped from now on.                          *)
Push(p) ==
    /\ filling[p] # None
    /\ ready' = ready \cup {filling[p]}
    /\ filling' = [filling EXCEPT ![p] = None]
    /\ UNCHANGED <<next, using>>

(* pop(): the oldest message, if it is pushed; one that is not blocks the  *)
(* queue.                                                                  *)
Front(m) == m \in ready /\ \A n \in Queued : m <= n

Pop(c) ==
    /\ using[c] = None
    /\ \E m \in ready :
          /\ Front(m)
          /\ ready' = ready \ {m}
          /\ using' = [using EXCEPT ![c] = m]
    /\ UNCHANGED <<next, filling>>

(* pop() returns NULL.                                                     *)
NothingToPop == \A m \in ready : ~Front(m)

Release(c) ==
    /\ using[c] # None
    /\ using' = [using EXCEPT ![c] = None]
    /\ UNCHANGED <<next, filling, ready>>

Next ==
    \/ \E p \in Producers : Allocate(p) \/ Push(p)
    \/ \E c \in Consumers : Pop(c) \/ Release(c)

Spec == Init /\ [][Next]_vars
=============================================================================
