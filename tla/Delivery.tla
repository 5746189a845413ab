------------------------------ MODULE Delivery ------------------------------
(***************************************************************************)
(* What activetick.js sees of the native module: messages are posted, some *)
(* of them (success and error) as urgent, and reach receiveMessages() in   *)
(* batches.  Urgent and ordinary messages each keep their order; an urgent *)
(* one may overtake ordinary ones and comes before them in its batch.      *)
(***************************************************************************)
EXTENDS Naturals, Sequences

CONSTANTS
    Messages,     \* what may be posted
    Urgent,       \* the messages among them that are urgent
    BatchLimit    \* messages in a call of receiveMessages() at most

VARIABLES
    urgent,       \* urgent messages posted and not delivered
    ordinary,     \* other messages posted and not delivered
    delivered     \* the arguments of all calls of receiveMessages() so far

Init ==
    /\ urgent = <<>>
    /\ ordinary = <<>>
    /\ delivered = <<>>

PostUrgent ==
    /\ \E m \in Urgent : urgent' = Append(urgent, m)
    /\ UNCHANGED <<ordinary, delivered>>

Post ==
    /\ \E m \in Messages \ Urgent : ordinary' = Append(ordinary, m)
    /\ UNCHANGED <<urgent, delivered>>

(* One call of receiveMessages().                                          *)
Deliver ==
    \E i \in 0 .. Len(urgent), j \in 0 .. Len(ordinary) :
        /\ i + j \in 1 .. BatchLimit
        /\ delivered' = delivered \o SubSeq(urgent, 1, i) \o SubSeq(ordinary, 1, j)
        /\ urgent' = SubSeq(urgent, i + 1, Len(urgent))
        /\ ordinary' = SubSeq(ordinary, j + 1, Len(ordinary))

Next == PostUrgent \/ Post \/ Deliver

Spec == Init /\ [][Next]_<<urgent, ordinary, delivered>>
=============================================================================
