------------------------------ MODULE Channels ------------------------------
(***************************************************************************)
(* The channels of a QAmqpClient: the exchanges and queues the user        *)
(* creates, the channel number each is given or asks for, which of them    *)
(* may share, the channel.open and channel.close handshakes, what is kept  *)
(* to be declared and bound once the channel is open, and the prefetch     *)
(* agreed with qos().                                                      *)
(*                                                                         *)
(* `link` stands for the connection (see Connection): "up" while the       *)
(* client is connected, "closing" from the moment frames are dropped until *)
(* the socket is closed, "down" after that and during the handshake.       *)
(***************************************************************************)
EXTENDS Integers, Sequences, SequencesExt

CONSTANTS
    Exchanges,  \* the exchanges a user may create
    Queues,     \* the queues a user may create
    Prefetches, \* what a user passes to qos()
    MaxNumber,  \* bound on the channel numbers
    MaxLosses,  \* bound on the connections that end
    MaxCalls,   \* bound on the user's calls
    Events      \* which of the events below may happen

\* "shared": an object asks for the number of another; "gap": it asks for one
\* below the highest given that no other has; "late": it is created when
\* others have seen a connection end, if only to be deleted; "early": reopen()
\* while an open is pending; "reset": reset() of an open channel; "delete": an
\* object is deleted; "again": something is asked of an open channel whose
\* close is not answered yet; "unopened": qos() or resume() of a channel that
\* is not open; "slot": a slot on closed() calls reopen(); "outlived": a
\* channel or the connection ends after qos(); "dropped": reset() of an object
\* that has a declare() kept.
ASSUME ChannelsAssumption ==
    /\ Exchanges \cap Queues = {}
    /\ Prefetches \subseteq Nat \ {0}
    /\ MaxNumber \in Nat
    /\ MaxLosses \in Nat
    /\ MaxCalls \in Nat
    /\ Events \subseteq {"shared", "gap", "late", "early", "reset", "delete",
                          "again", "unopened", "slot", "outlived", "dropped"}

Objects == Exchanges \cup Queues
Numbers == 1..MaxNumber

VARIABLES
    link,     \* the connection
    object,   \* the fields of each QAmqpChannelPrivate
    order,    \* the objects that exist, in the order of their creation
    next,     \* QAmqpChannelPrivate::nextChannelNumber, a static
    out,      \* frames sent, not yet read by the broker
    in,       \* frames the broker sent, not yet read
    broker,   \* the broker's end of each channel
    limit,    \* the prefetch the broker keeps to on each channel
    happened, \* history: the events that have happened
    calls, losses  \* counters for the bounds

vars == <<link, object, order, next, out, in, broker, limit, happened, calls, losses>>

Object ==
    [number         : Numbers \cup {0},   \* 0 while it does not exist
     opened         : BOOLEAN,
     needOpen       : BOOLEAN,
     delayedDeclare : BOOLEAN,
     bindings       : 0..MaxCalls,        \* how many delayedBindings
     requested      : Prefetches \cup {0}, \* requestedPrefetchCount
     prefetch       : Prefetches \cup {0}, \* prefetchCount
     asked          : BOOLEAN]            \* history: declare() called, not sent

Absent ==
    [number |-> 0, opened |-> FALSE, needOpen |-> TRUE, delayedDeclare |-> FALSE,
     bindings |-> 0, requested |-> 0, prefetch |-> 0, asked |-> FALSE]

OutFrames ==
    [type : {"Open", "Close", "CloseOk", "Declare", "Bind", "Flow"}, channel : Numbers]
        \cup [type : {"Qos"}, channel : Numbers, count : Prefetches]
InFrames ==
    [type : {"OpenOk", "Close", "CloseOk", "QosOk", "FlowOk"}, channel : Numbers]

TypeOK ==
    /\ link \in {"up", "closing", "down"}
    /\ object \in [Objects -> Object]
    /\ order \in Seq(Objects)
    /\ next \in 0..MaxNumber
    /\ out \in Seq(OutFrames)
    /\ in \in Seq(InFrames)
    /\ broker \in [Numbers -> {"closed", "open", "closing"}]
    /\ limit \in [Numbers -> Prefetches \cup {0}]
    /\ happened \subseteq Events
    /\ calls \in 0..MaxCalls
    /\ losses \in 0..MaxLosses

AllClosed == [n \in Numbers |-> "closed"]
NoLimits == [n \in Numbers |-> 0]

Init ==
    /\ link = "down"
    /\ object = [o \in Objects |-> Absent]
    /\ order = <<>>
    /\ next = 0
    /\ out = <<>>
    /\ in = <<>>
    /\ broker = AllClosed
    /\ limit = NoLimits
    /\ happened = {}
    /\ calls = 0
    /\ losses = 0

Exists(o) == object[o].number # 0

Frame(o, type) == [type |-> type, channel |-> object[o].number]

\* What the client sends in one step; dropped without a connection.
Send(frames) == out' = IF link = "up" THEN out \o frames ELSE out

\* What the objects of a channel send, in the order a frame is handed to them.
SentOn(n, frames) ==
    FlattenSeq([i \in DOMAIN order |->
        IF object[order[i]].number = n THEN frames[order[i]] ELSE <<>>])

\* A channel.open that has not been answered yet.
OpenPending(n) ==
    \/ Contains(out, [type |-> "Open", channel |-> n])
    \/ Contains(in, [type |-> "OpenOk", channel |-> n])

\* A channel.close of the client that has not been answered yet.
ClosePending(n) ==
    \/ Contains(out, [type |-> "Close", channel |-> n])
    \/ Contains(in, [type |-> "CloseOk", channel |-> n])

-----------------------------------------------------------------------------
(* Calls of the user.                                                      *)

Call == calls < MaxCalls /\ calls' = calls + 1

Happens(events) == events \subseteq Events /\ happened' = happened \cup events

\* What is special about sending something on the channel of an object.
SendEvents(o) ==
    IF object[o].opened /\ ClosePending(object[o].number) THEN {"again"} ELSE {}

\* What is special about creating an object that asks for this number.
CreateEvents(channel) ==
    LET taken == \E o \in Objects : object[o].number = channel
    IN  (IF channel # -1 /\ channel <= next /\ taken THEN {"shared"} ELSE {})
            \cup (IF channel # -1 /\ channel <= next /\ ~taken THEN {"gap"} ELSE {})
            \cup (IF (losses > 0 \/ link = "closing") /\ (order # <<>> \/ "delete" \in happened)
                  THEN {"late"} ELSE {})

\* Mutant: the number asked for is not noted as taken.
CreateForgetsNumber ==
    \E o \in Objects, channel \in Numbers \cup {-1} :
        LET number == IF channel = -1 THEN next + 1 ELSE channel
            need == channel = -1 \/ channel > next
        IN  /\ Call
            /\ ~Exists(o)
            /\ number <= MaxNumber
            /\ Happens(CreateEvents(channel))
            /\ object' = [object EXCEPT ![o] =
                            [Absent EXCEPT !.number = number, !.needOpen = need]]
            /\ order' = Append(order, o)
            /\ next' = IF channel = -1 THEN number ELSE next
            /\ Send(IF need THEN <<[type |-> "Open", channel |-> number]>> ELSE <<>>)
            /\ UNCHANGED <<link, in, broker, limit, losses>>

\* Mutant: only a number that is asked for is opened.
CreateAutoNotOpened ==
    \E o \in Objects, channel \in Numbers \cup {-1} :
        LET number == IF channel = -1 THEN next + 1 ELSE channel
            need == channel > next
        IN  /\ Call
            /\ ~Exists(o)
            /\ number <= MaxNumber
            /\ Happens(CreateEvents(channel))
            /\ object' = [object EXCEPT ![o] =
                            [Absent EXCEPT !.number = number, !.needOpen = need]]
            /\ order' = Append(order, o)
            /\ next' = IF number > next THEN number ELSE next
            /\ Send(IF need THEN <<[type |-> "Open", channel |-> number]>> ELSE <<>>)
            /\ UNCHANGED <<link, in, broker, limit, losses>>

\* createExchange, createQueue: channel = -1 asks for the next free number, a
\* number that was given before is taken for a channel that is open already.
Create ==
    \E o \in Objects, channel \in Numbers \cup {-1} :
        LET number == IF channel = -1 THEN next + 1 ELSE channel
            need == channel = -1 \/ channel > next
        IN  /\ Call
            /\ ~Exists(o)
            /\ number <= MaxNumber
            /\ Happens(CreateEvents(channel))
            /\ object' = [object EXCEPT ![o] =
                            [Absent EXCEPT !.number = number, !.needOpen = need]]
            /\ order' = Append(order, o)
            /\ next' = IF number > next THEN number ELSE next
            /\ Send(IF need THEN <<[type |-> "Open", channel |-> number]>> ELSE <<>>)
            /\ UNCHANGED <<link, in, broker, limit, losses>>

\* The destructors take the object off the lists of handlers, no more.
Delete(o) ==
    /\ Call
    /\ Happens({"delete"})
    /\ Exists(o)
    /\ object' = [object EXCEPT ![o] = Absent]
    /\ \E i \in DOMAIN order : order[i] = o /\ order' = RemoveAt(order, i)
    /\ UNCHANGED <<link, next, out, in, broker, limit, losses>>

Close(o) ==
    /\ Call
    /\ Exists(o)
    /\ Happens(SendEvents(o))
    /\ object' = [object EXCEPT ![o].needOpen = TRUE]
    /\ Send(IF object[o].opened THEN <<Frame(o, "Close")>> ELSE <<>>)
    /\ UNCHANGED <<link, order, next, in, broker, limit, losses>>

\* An open channel is only closed: it is still `opened` when open() looks.
Reopen(o) ==
    /\ Call
    /\ Exists(o)
    /\ Happens(SendEvents(o) \cup IF OpenPending(object[o].number) THEN {"early"} ELSE {})
    /\ IF object[o].opened
       THEN /\ object' = [object EXCEPT ![o].needOpen = TRUE]
            /\ Send(<<Frame(o, "Close")>>)
       ELSE /\ Send(IF object[o].needOpen THEN <<Frame(o, "Open")>> ELSE <<>>)
            /\ UNCHANGED object
    /\ UNCHANGED <<link, order, next, in, broker, limit, losses>>

\* resetInternalState of the channel, then of the exchange or queue.
Cleared(c) ==
    [c EXCEPT !.opened = FALSE, !.needOpen = @ \/ c.opened, !.delayedDeclare = FALSE]

Reset(o) ==
    /\ Call
    /\ Exists(o)
    /\ Happens((IF object[o].opened THEN {"reset"} ELSE {})
                  \cup IF object[o].delayedDeclare THEN {"dropped"} ELSE {})
    /\ object' = [object EXCEPT ![o] = Cleared(@)]
    /\ UNCHANGED <<link, order, next, out, in, broker, limit, losses>>

Declare(o) ==
    /\ Call
    /\ Exists(o)
    /\ Happens(SendEvents(o))
    /\ object' = [object EXCEPT ![o].delayedDeclare = ~object[o].opened,
                                ![o].asked = ~object[o].opened]
    /\ Send(IF object[o].opened THEN <<Frame(o, "Declare")>> ELSE <<>>)
    /\ UNCHANGED <<link, order, next, in, broker, limit, losses>>

Bind(q) ==
    /\ Call
    /\ Exists(q)
    /\ Happens(SendEvents(q))
    /\ object' = [object EXCEPT ![q].bindings = IF object[q].opened THEN @ ELSE @ + 1]
    /\ Send(IF object[q].opened THEN <<Frame(q, "Bind")>> ELSE <<>>)
    /\ UNCHANGED <<link, order, next, in, broker, limit, losses>>

\* What is special about a call that does not ask whether the channel is open.
UnopenedEvents(o) ==
    IF link = "up" /\ ~object[o].opened /\ ~OpenPending(object[o].number)
    THEN {"unopened"} ELSE {}

\* Mutant: what is asked for is taken for agreed.
QosAtOnce(o) ==
    /\ Call
    /\ Exists(o)
    /\ Happens(SendEvents(o) \cup UnopenedEvents(o))
    /\ \E count \in Prefetches :
          /\ object' = [object EXCEPT ![o].requested = count, ![o].prefetch = count]
          /\ Send(<<[type |-> "Qos", channel |-> object[o].number, count |-> count]>>)
    /\ UNCHANGED <<link, order, next, in, broker, limit, losses>>

Qos(o) ==
    /\ Call
    /\ Exists(o)
    /\ Happens(SendEvents(o) \cup UnopenedEvents(o))
    /\ \E count \in Prefetches :
          /\ object' = [object EXCEPT ![o].requested = count]
          /\ Send(<<[type |-> "Qos", channel |-> object[o].number, count |-> count]>>)
    /\ UNCHANGED <<link, order, next, in, broker, limit, losses>>

\* resume(), which is flow(true).
Resume(o) ==
    /\ Call
    /\ Exists(o)
    /\ Happens(SendEvents(o) \cup UnopenedEvents(o))
    /\ Send(<<Frame(o, "Flow")>>)
    /\ UNCHANGED <<link, object, order, next, in, broker, limit, losses>>

-----------------------------------------------------------------------------
(* The connection.                                                         *)

\* connected(): _q_open of every object.
LinkUp ==
    /\ link = "down"
    /\ losses < MaxLosses
    /\ link' = "up"
    /\ out' = FlattenSeq([i \in DOMAIN order |->
                LET c == object[order[i]]
                IN  IF c.needOpen /\ ~c.opened THEN <<Frame(order[i], "Open")>> ELSE <<>>])
    /\ UNCHANGED <<object, order, next, in, broker, limit, calls, losses, happened>>

\* _q_disconnected, the slot on disconnected(); an exchange's forgets more.
Disconnected(o, c) ==
    [c EXCEPT !.opened = FALSE,
              !.delayedDeclare = IF o \in Exchanges THEN FALSE ELSE @]

\* What is special about the end of the channels of these objects.
EndEvents(objects) == IF \E o \in objects : object[o].requested # 0 THEN {"outlived"} ELSE {}

\* nextChannelNumber is reset by the objects there are.
NextAfterDisconnect == IF order = <<>> THEN next ELSE 0

\* resetChannelState, and disconnected() after it.
SocketClosed ==
    /\ link' = "down"
    /\ object' = [o \in Objects |-> IF Exists(o) THEN Disconnected(o, Cleared(object[o]))
                                    ELSE object[o]]
    /\ next' = NextAfterDisconnect
    /\ out' = <<>>
    /\ in' = <<>>
    /\ broker' = AllClosed
    /\ limit' = NoLimits
    /\ losses' = losses + 1
    /\ Happens(EndEvents(Objects))
    /\ UNCHANGED <<order, calls>>

\* The connection is lost, or the attempt to make it fails in the handshake.
LinkLost == losses < MaxLosses /\ SocketClosed

CloseFinishes == link = "closing" /\ LinkLost

\* The socket takes its time to close: after a connection.close of the broker
\* disconnected() has been emitted already, after the client's own it has not.
LinkCloses ==
    /\ link = "up"
    /\ link' = "closing"
    /\ \/ /\ object' = [o \in Objects |-> IF Exists(o) THEN Disconnected(o, object[o])
                                          ELSE object[o]]
          /\ next' = NextAfterDisconnect
       \/ UNCHANGED <<object, next>>
    /\ out' = <<>>
    /\ in' = <<>>
    /\ broker' = AllClosed
    /\ limit' = NoLimits
    /\ Happens(EndEvents(Objects))
    /\ UNCHANGED <<order, calls, losses>>

-----------------------------------------------------------------------------
(* Frames received: each is handed to every object of its channel.         *)

Receive(type, n) ==
    /\ link = "up"
    /\ in # <<>>
    /\ Head(in) = [type |-> type, channel |-> n]
    /\ in' = Tail(in)
    /\ UNCHANGED <<link, order, next, broker, limit, losses>>

\* Mutant: what was to be declared and bound is left for later.
ReceiveOpenOkSilent(n) ==
    /\ Receive("OpenOk", n)
    /\ object' = [o \in Objects |->
          IF object[o].number = n THEN [object[o] EXCEPT !.opened = TRUE] ELSE object[o]]
    /\ UNCHANGED <<out, calls, happened>>

\* Mutant: what was kept is forgotten, not sent.
ReceiveOpenOkForgets(n) ==
    /\ Receive("OpenOk", n)
    /\ object' = [o \in Objects |->
          IF object[o].number = n
          THEN [object[o] EXCEPT !.opened = TRUE, !.delayedDeclare = FALSE,
                                 !.bindings = 0, !.asked = FALSE]
          ELSE object[o]]
    /\ UNCHANGED <<out, calls, happened>>

\* openOk, and channelOpened after it.
ReceiveOpenOk(n) ==
    LET Delayed(o) ==
            (IF object[o].delayedDeclare THEN <<Frame(o, "Declare")>> ELSE <<>>)
                \o [i \in 1..object[o].bindings |-> Frame(o, "Bind")]
        sent(c) == [c EXCEPT !.opened = TRUE, !.delayedDeclare = FALSE, !.bindings = 0,
                             !.asked = c.asked /\ ~c.delayedDeclare]
    IN  /\ Receive("OpenOk", n)
        /\ object' = [o \in Objects |->
              IF object[o].number = n THEN sent(object[o]) ELSE object[o]]
        /\ Send(SentOn(n, [o \in Objects |-> Delayed(o)]))
        /\ UNCHANGED <<calls, happened>>

\* The objects whose slot on closed() calls reopen().
SlotCalls(slots) ==
    IF slots = {} THEN UNCHANGED calls ELSE Call

CloseEvents(n, slots) ==
    EndEvents({o \in Objects : object[o].number = n})
        \cup IF slots = {} THEN {} ELSE {"slot"}

\* What reopen() sends from such a slot, where `opened` is as it was before.
SlotSends(o, slots) ==
    CASE o \notin slots                        -> <<>>
      [] o \in slots /\ object[o].opened       -> <<Frame(o, "Close")>>
      [] o \in slots /\ ~object[o].opened      ->
            IF object[o].needOpen THEN <<Frame(o, "Open")>> ELSE <<>>

\* notifyClosed of every object: closed() and its slot, then `opened`.
Closed(n, slots) ==
    object' = [o \in Objects |->
        IF object[o].number = n
        THEN [object[o] EXCEPT !.opened = FALSE,
                               !.needOpen = @ \/ (o \in slots /\ object[o].opened)]
        ELSE object[o]]

\* Mutant: closeOk is not sent back.
ReceiveCloseUnanswered(n) ==
    /\ Receive("Close", n)
    /\ Closed(n, {})
    /\ Happens(CloseEvents(n, {}))
    /\ UNCHANGED <<out, calls>>

\* Every object of the channel answers.
ReceiveClose(n) ==
    \E slots \in SUBSET {o \in Objects : object[o].number = n} :
        /\ Receive("Close", n)
        /\ SlotCalls(slots)
        /\ Happens(CloseEvents(n, slots))
        /\ Closed(n, slots)
        /\ Send(SentOn(n, [o \in Objects |-> <<Frame(o, "CloseOk")>> \o SlotSends(o, slots)]))

\* Mutant: closed() is emitted, the channel stays marked as opened.
ReceiveCloseOkKeepsOpened(n) ==
    /\ Receive("CloseOk", n)
    /\ UNCHANGED <<object, out, calls, happened>>

ReceiveCloseOk(n) ==
    \E slots \in SUBSET {o \in Objects : object[o].number = n} :
        /\ Receive("CloseOk", n)
        /\ SlotCalls(slots)
        /\ Happens(CloseEvents(n, slots))
        /\ Closed(n, slots)
        /\ Send(SentOn(n, [o \in Objects |-> SlotSends(o, slots)]))

\* Every object of the channel takes what it has asked for itself.
ReceiveQosOk(n) ==
    /\ Receive("QosOk", n)
    /\ object' = [o \in Objects |->
          IF object[o].number = n THEN [object[o] EXCEPT !.prefetch = object[o].requested]
          ELSE object[o]]
    /\ UNCHANGED <<out, calls, happened>>

\* Only resumed() is emitted.
ReceiveFlowOk(n) ==
    /\ Receive("FlowOk", n)
    /\ UNCHANGED <<object, out, calls, happened>>

-----------------------------------------------------------------------------
(* The broker (external).                                                  *)

\* The broker reads a frame of this type and answers with these frames.
BrokerTakes(type, n, state, answer) ==
    /\ link = "up"
    /\ out # <<>>
    /\ Head(out).type = type
    /\ Head(out).channel = n
    /\ out' = Tail(out)
    /\ broker' = [broker EXCEPT ![n] = state]
    /\ limit' = [limit EXCEPT ![n] = CASE type = "Open" /\ state = "open" -> 0
                                       [] type = "Qos" /\ state = "open"  -> Head(out).count
                                       [] OTHER                           -> @]
    /\ in' = in \o [i \in DOMAIN answer |-> [type |-> answer[i], channel |-> n]]
    /\ UNCHANGED <<link, object, order, next, calls, losses, happened>>

BrokerOpens(n) ==
    broker[n] = "closed" /\ BrokerTakes("Open", n, "open", <<"OpenOk">>)

BrokerAnswersClose(n) ==
    \/ broker[n] = "open" /\ BrokerTakes("Close", n, "closed", <<"CloseOk">>)
    \/ broker[n] = "closing" /\ BrokerTakes("Close", n, "closing", <<"CloseOk">>)

BrokerServes(n) ==
    /\ broker[n] = "open"
    /\ \/ \E type \in {"Declare", "Bind"} : BrokerTakes(type, n, "open", <<>>)
       \/ BrokerTakes("Qos", n, "open", <<"QosOk">>)
       \/ BrokerTakes("Flow", n, "open", <<"FlowOk">>)

\* While it waits for closeOk the broker drops every other frame; a closeOk
\* too many is ignored.
BrokerWaitsForCloseOk(n) ==
    \/ BrokerTakes("CloseOk", n, IF broker[n] = "closing" THEN "closed" ELSE broker[n], <<>>)
    \/ /\ broker[n] = "closing"
       /\ \E type \in {"Open", "Declare", "Bind", "Qos", "Flow"} :
             BrokerTakes(type, n, "closing", <<>>)

\* A frame on a channel that is not open, but a closeOk, or a second open.
Refuses(frame) ==
    CASE frame.type = "Open"    -> broker[frame.channel] = "open"
      [] frame.type = "CloseOk" -> FALSE
      [] OTHER                  -> broker[frame.channel] = "closed"

\* It ends the connection.
BrokerRefuses ==
    /\ link = "up"
    /\ out # <<>>
    /\ Refuses(Head(out))
    /\ LinkLost

BrokerCloses(n) ==
    /\ link = "up"
    /\ Call
    /\ broker[n] = "open"
    /\ broker' = [broker EXCEPT ![n] = "closing"]
    /\ in' = Append(in, [type |-> "Close", channel |-> n])
    /\ UNCHANGED <<link, object, order, next, out, limit, losses, happened>>

-----------------------------------------------------------------------------
User ==
    \/ Create
    \/ \E o \in Objects :
          \/ Delete(o) \/ Close(o) \/ Reopen(o) \/ Reset(o) \/ Declare(o)
          \/ Qos(o) \/ Resume(o)
    \/ \E q \in Queues : Bind(q)

Link == LinkUp \/ LinkLost \/ LinkCloses

Reading ==
    \E n \in Numbers :
        \/ ReceiveOpenOk(n) \/ ReceiveClose(n) \/ ReceiveCloseOk(n)
        \/ ReceiveQosOk(n) \/ ReceiveFlowOk(n)

BrokerReads ==
    \/ BrokerRefuses
    \/ \E n \in Numbers :
          \/ BrokerOpens(n) \/ BrokerAnswersClose(n) \/ BrokerServes(n)
          \/ BrokerWaitsForCloseOk(n)

Next == User \/ Link \/ Reading \/ BrokerReads \/ \E n \in Numbers : BrokerCloses(n)

Spec == Init /\ [][Next]_vars

\* What was received is read, the broker reads what it is sent, and a socket
\* that is closing gets closed.  Nothing is assumed of the user or of faults.
Fairness == WF_vars(Reading) /\ WF_vars(BrokerReads) /\ WF_vars(CloseFinishes)

FairSpec == Spec /\ Fairness

-----------------------------------------------------------------------------
(* Properties.                                                             *)

\* isOpen() is not stale: a channel the client takes for open is open at the
\* broker, or the close of it is on its way to the client.
OpenedIsOpen ==
    link = "up" =>
        \A o \in Objects : object[o].opened =>
            LET n == object[o].number
            IN  \/ broker[n] = "open"
                \/ Contains(in, [type |-> "Close", channel |-> n])
                \/ Contains(in, [type |-> "CloseOk", channel |-> n])

\* The events that leave the agreement of client and broker on what is open,
\* and what is sent on it, as it is.
Harmless == {"outlived", "dropped"}

\* The broker never reads a frame that it refuses, which would end the
\* connection with all the channels of it: each channel is opened once, by one
\* object, and nothing else is sent before that or after the close, as long as
\* none of the events comes in between.  A deleted object leaves its channel
\* open, which is in the way only of one that takes the number for unused.
FramesAccepted ==
    out # <<>> /\ Refuses(Head(out)) =>
        ~(happened \subseteq {"gap"} \cup Harmless \/ happened \subseteq {"delete"} \cup Harmless)

\* The same for the objects that share a channel, as in the test sharedChannel
\* (tst_qamqpchannel.cpp:74-86).
SharedOpenedOnce ==
    out # <<>> /\ Head(out).type = "Open" /\ broker[Head(out).channel] = "open"
        => ~(happened \subseteq {"shared"})

\* What prefetchCount() says of an open channel is what the broker keeps to,
\* once every qos() is answered, whatever answers were lost or dropped: unless
\* the object shares its channel, or the channel is not the one it was for.
PrefetchAsAgreed ==
    happened \cap {"shared", "late", "delete", "outlived"} = {} =>
        \A o \in Objects :
            LET n == object[o].number
            IN  (/\ object[o].opened
                 /\ broker[n] = "open"
                 /\ \A i \in DOMAIN out : out[i].type # "Qos" \/ out[i].channel # n
                 /\ ~Contains(in, [type |-> "QosOk", channel |-> n]))
                => object[o].prefetch = limit[n]

\* A channel the broker closes is not left half closed: closeOk is on its way
\* while the broker waits for it, or the close is not read yet.
CloseIsAnswered ==
    \A n \in Numbers : broker[n] = "closing" /\ "delete" \notin happened =>
        \/ Contains(in, [type |-> "Close", channel |-> n])
        \/ Contains(out, [type |-> "CloseOk", channel |-> n])

\* Every object there is gets its channel opened when the connection is made,
\* by itself or by one that shares it.
OpensWithLink ==
    [][link = "down" /\ link' = "up" /\ happened \cap {"gap", "delete"} = {} =>
        \A o \in Objects : Exists(o) => OpenPending(object[o].number)']_vars

\* A bind kept until the channel opens goes out after the declare that was
\* kept with it, as in the test delayedBind (tst_qamqpqueue.cpp:291-302).
DelayedBindIsDeclared ==
    \A q \in Queues :
        object[q].bindings > 0 /\ object[q].asked => object[q].delayedDeclare

\* Every object has a channel of its own and drops nothing itself.
Undropped == happened \subseteq {"delete", "outlived"}

\* A declare() that was kept is on its way to the broker, and not just
\* forgotten, once the channel is open there: unless the channel or the
\* connection is closed first, or the object deleted.
DelayedDeclareCompletes ==
    \A o \in Objects, n \in Numbers :
        (/\ object[o].number = n /\ object[o].delayedDeclare /\ broker[n] = "open"
         /\ Undropped)
            ~> (\/ Contains(out, [type |-> "Declare", channel |-> n])
                \/ broker[n] # "open" \/ object[o].number # n \/ ~Undropped)

=============================================================================
