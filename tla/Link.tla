-------------------------------- MODULE Link --------------------------------
(***************************************************************************)
(* What a connection is to the exchanges and queues that live on it: the   *)
(* signals connected() and disconnected(), and the reset of all of them    *)
(* when the socket is closed.  The abstract specification of Connection,   *)
(* and what Channels, Confirms, Consumer and Registry take for granted.    *)
(***************************************************************************)

VARIABLES
    link,      \* "up" while isConnected(), "closing" after that until the reset
    announced  \* the last of connected() and disconnected() emitted

vars == <<link, announced>>

Init == link = "down" /\ announced = "disconnected"

\* Only after the reset is there another connection.
Up ==
    /\ link = "down"
    /\ link' = "up"
    /\ announced' = "connected"

\* Closed by the client, which says so in the end, or by the broker, where
\* disconnected() is emitted at once, and again in the end.
Closes ==
    /\ link = "up"
    /\ link' = "closing"
    /\ announced' \in {announced, "disconnected"}

\* The reset, and disconnected() after it; an attempt that fails has it too.
Down ==
    /\ link' = "down"
    /\ announced' = "disconnected"

Next == Up \/ Closes \/ Down

Spec == Init /\ [][Next]_vars

=============================================================================
