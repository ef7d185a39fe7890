----------------------------- MODULE Deliveries -----------------------------
(***************************************************************************)
(* What a QAmqpQueue promises of the messages it is sent: those that were  *)
(* under way are received whole, in order and once each, and only the end  *)
(* of a connection loses any.  The abstract specification of Consumer.     *)
(***************************************************************************)
EXTENDS Integers, Sequences

VARIABLES
    connected,  \* whether there is a connection
    underWay,   \* the messages the broker has sent, not yet received
    received    \* the messages received, over all connections

vars == <<connected, underWay, received>>

Init ==
    /\ ~connected
    /\ underWay = <<>>
    /\ received = <<>>

Connect ==
    /\ ~connected
    /\ connected' = TRUE
    /\ UNCHANGED <<underWay, received>>

Send ==
    /\ connected
    /\ underWay' # <<>>
    /\ underWay = SubSeq(underWay', 1, Len(underWay') - 1)
    /\ UNCHANGED <<connected, received>>

Receive ==
    /\ connected
    /\ underWay # <<>>
    /\ underWay' = Tail(underWay)
    /\ received' = Append(received, Head(underWay))
    /\ UNCHANGED connected

Lose ==
    /\ connected' = FALSE
    /\ underWay' = <<>>
    /\ UNCHANGED received

Next == Connect \/ Send \/ Receive \/ Lose

Spec == Init /\ [][Next]_vars

=============================================================================
