------------------------------ MODULE Consumer ------------------------------
(***************************************************************************)
(* A QAmqpQueue on a channel of its own: consuming and cancelling, getting *)
(* single messages, joining a message from its method, header and body     *)
(* frames, and acknowledging or rejecting it.                              *)
(*                                                                         *)
(* `link` stands for the connection (see Connection): "up" while the       *)
(* client is connected, "closing" from the moment frames are dropped until *)
(* the socket is closed, "down" after that.  The channel is as in Channels,*)
(* for an object that no other shares it with.                             *)
(***************************************************************************)
EXTENDS Integers, Sequences, FiniteSets, SequencesExt

CONSTANTS
    ConsumerTags,  \* the consumer tags a user or a broker may choose
    MaxMessages,   \* bound on the messages in the queue at the broker
    Sizes,         \* the body sizes of messages, in body frames
    MaxLosses,     \* bound on the connections that end
    MaxCalls,      \* bound on the user's calls
    Events         \* which of the events below may happen

\* "noWait": the user cancels without waiting for an answer; "recancel": cancels
\* while a cancel is unanswered; "retag": sets another consumer tag while
\* consuming; "reset": resets an open or consuming queue; "reopen": opens the
\* channel again that was closed while consuming; "stale": acknowledges or
\* rejects a message that came on another channel.
ASSUME ConsumerAssumption ==
    /\ ConsumerTags \subseteq STRING \ {""}
    /\ MaxMessages \in Nat
    /\ Sizes \subseteq Nat
    /\ MaxLosses \in Nat
    /\ MaxCalls \in Nat
    /\ Events \subseteq {"noWait", "recancel", "retag", "reset", "reopen", "stale"}

Messages == 1..MaxMessages

VARIABLES
    link,      \* the connection
    queue,     \* the fields of QAmqpQueuePrivate
    received,  \* the messages enqueued, in order, over all connections
    held,      \* those of them the user has not acknowledged or rejected
    out,       \* frames sent, not yet read by the broker
    in,        \* frames the broker sent, not yet read
    broker,    \* the broker's end of the channel
    ready,     \* the messages in the queue at the broker
    acked,     \* history: messages the broker takes as acknowledged
    userAcked, \* history: messages the user has acknowledged
    happened,  \* history: the events that have happened
    losses, calls  \* counters for the bounds

vars == <<link, queue, received, held, out, in, broker, ready, acked, userAcked,
          happened, losses, calls>>

-----------------------------------------------------------------------------
(* The parts of the state.                                                 *)

NoTag == ""

\* A message as it is delivered; `channel` counts the channels opened, and is
\* history, as is `message`, which stands for its exchange and routing key.
Delivery ==
    [tag : Nat, channel : Nat, message : Messages, payload : Seq(Messages)]

\* currentMessage, no message when its tag is 0; `left` is leftSize.
NoMessage == [tag |-> 0, channel |-> 0, message |-> 1, payload |-> <<>>, left |-> 0]

Queue ==
    [opened           : BOOLEAN,
     consumerTag      : ConsumerTags \cup {NoTag},
     consuming        : BOOLEAN,
     consumeRequested : BOOLEAN,
     current          : [tag : Nat, channel : Nat, message : Messages \cup {1},
                         payload : Seq(Messages), left : Nat]]

OutFrames ==
    [type : {"Open", "Close", "CloseOk", "Get"}]
        \cup [type : {"Consume"}, consumer : ConsumerTags \cup {NoTag}]
        \cup [type : {"Cancel"}, consumer : ConsumerTags, noWait : BOOLEAN]
        \cup [type : {"Ack"}, tag : Nat]
        \cup [type : {"Reject"}, tag : Nat, requeue : BOOLEAN]

InFrames ==
    [type : {"OpenOk", "Close", "CloseOk", "GetEmpty"}]
        \cup [type : {"ConsumeOk", "CancelOk"}, consumer : ConsumerTags]
        \cup [type : {"Deliver"}, consumer : ConsumerTags, tag : Nat, channel : Nat,
              message : Messages]
        \cup [type : {"GetOk"}, tag : Nat, channel : Nat, message : Messages]
        \cup [type : {"Header"}, size : Sizes]
        \cup [type : {"Body"}, message : Messages]

Broker ==
    [channel   : {"closed", "open", "closing"},
     number    : Nat,                \* how many times the channel was opened
     consumers : SUBSET ConsumerTags,
     count     : Nat,                \* the last delivery tag of this channel
     unacked   : SUBSET [tag : Nat, message : Messages]]

TypeOK ==
    /\ link \in {"up", "closing", "down"}
    /\ queue \in Queue
    /\ received \in Seq(Delivery)
    /\ held \in SUBSET Delivery
    /\ out \in Seq(OutFrames)
    /\ in \in Seq(InFrames)
    /\ broker \in Broker
    /\ ready \subseteq Messages
    /\ acked \subseteq Messages
    /\ userAcked \subseteq Messages
    /\ happened \subseteq Events
    /\ losses \in 0..MaxLosses
    /\ calls \in 0..MaxCalls

Init ==
    /\ link = "down"
    /\ queue = [opened |-> FALSE, consumerTag |-> NoTag, consuming |-> FALSE,
                consumeRequested |-> FALSE, current |-> NoMessage]
    /\ received = <<>>
    /\ held = {}
    /\ out = <<>>
    /\ in = <<>>
    /\ broker = [channel |-> "closed", number |-> 0, consumers |-> {}, count |-> 0,
                 unacked |-> {}]
    /\ ready = Messages
    /\ acked = {}
    /\ userAcked = {}
    /\ happened = {}
    /\ losses = 0
    /\ calls = 0

Contents == <<broker, ready, acked>>

\* sendFrame drops what is sent without a connection.
Send(frame) == out' = IF link = "up" THEN Append(out, frame) ELSE out

Call == calls < MaxCalls /\ calls' = calls + 1

Happens(events) == events \subseteq Events /\ happened' = happened \cup events

-----------------------------------------------------------------------------
(* Calls of the user.                                                      *)

\* Mutant: a consume that is not answered yet does not count.
ConsumeAgain ==
    /\ Call
    /\ queue.opened
    /\ ~queue.consuming
    /\ Send([type |-> "Consume", consumer |-> queue.consumerTag])
    /\ queue' = [queue EXCEPT !.consumeRequested = TRUE]
    /\ UNCHANGED <<link, received, held, in, Contents, userAcked, happened, losses>>

\* The tag of an earlier consumer is asked for again.
Consume ==
    /\ Call
    /\ queue.opened
    /\ ~queue.consumeRequested
    /\ ~queue.consuming
    /\ Send([type |-> "Consume", consumer |-> queue.consumerTag])
    /\ queue' = [queue EXCEPT !.consumeRequested = TRUE]
    /\ UNCHANGED <<link, received, held, in, Contents, userAcked, happened, losses>>

\* A cancel that has not been answered.
CancelPending ==
    \/ \E i \in DOMAIN out : out[i].type = "Cancel"
    \/ \E i \in DOMAIN in : in[i].type = "CancelOk"

Cancel ==
    /\ Call
    /\ queue.consuming
    /\ queue.consumerTag # NoTag
    /\ \E noWait \in BOOLEAN :
          /\ Happens((IF noWait THEN {"noWait"} ELSE {})
                        \cup (IF CancelPending THEN {"recancel"} ELSE {}))
          /\ Send([type |-> "Cancel", consumer |-> queue.consumerTag, noWait |-> noWait])
    /\ UNCHANGED <<link, queue, received, held, in, Contents, userAcked, losses>>

SetConsumerTag ==
    /\ Call
    /\ Happens(IF queue.consuming \/ "reset" \in happened THEN {"retag"} ELSE {})
    /\ \E tag \in ConsumerTags \cup {NoTag} : queue' = [queue EXCEPT !.consumerTag = tag]
    /\ UNCHANGED <<link, received, held, out, in, Contents, userAcked, losses>>

Get ==
    /\ Call
    /\ queue.opened
    /\ Send([type |-> "Get"])
    /\ UNCHANGED <<link, queue, received, held, in, Contents, userAcked, happened, losses>>

\* The user settles a message with this frame, each message once.
Settle(delivery, frame) ==
    /\ Call
    /\ delivery \in held
    /\ queue.opened
    /\ Happens(IF delivery.channel # broker.number THEN {"stale"} ELSE {})
    /\ held' = held \ {delivery}
    /\ Send(frame)
    /\ UNCHANGED <<link, queue, received, in, Contents, losses>>

Ack(delivery) ==
    /\ Settle(delivery, [type |-> "Ack", tag |-> delivery.tag])
    /\ userAcked' = userAcked \cup {delivery.message}

Reject(delivery) ==
    \E requeue \in BOOLEAN :
        /\ Settle(delivery, [type |-> "Reject", tag |-> delivery.tag, requeue |-> requeue])
        /\ UNCHANGED userAcked

CloseChannel ==
    /\ Call
    /\ queue.opened
    /\ Send([type |-> "Close"])
    /\ UNCHANGED <<link, queue, received, held, in, Contents, userAcked, happened, losses>>

\* An open channel is only closed: it is still marked as opened when open()
\* looks.
Reopen ==
    /\ Call
    /\ queue.opened \/ link = "up"
    /\ Happens(IF ~queue.opened /\ (queue.consuming \/ queue.consumeRequested)
               THEN {"reopen"} ELSE {})
    /\ Send([type |-> IF queue.opened THEN "Close" ELSE "Open"])
    /\ UNCHANGED <<link, queue, received, held, in, Contents, userAcked, losses>>

\* resetInternalState of the channel and the queue; the consumer tag and the
\* message being received are kept.
Cleared(q) ==
    [q EXCEPT !.opened = FALSE, !.consuming = FALSE, !.consumeRequested = FALSE]

Reset ==
    /\ Call
    /\ Happens(IF Cleared(queue) # queue THEN {"reset"} ELSE {})
    /\ queue' = Cleared(queue)
    /\ UNCHANGED <<link, received, held, out, in, Contents, userAcked, losses>>

-----------------------------------------------------------------------------
(* The connection.                                                         *)

\* What the broker keeps of a channel that ends: its messages are ready again.
BrokerCloses(state) ==
    /\ broker' = [broker EXCEPT !.channel = state, !.consumers = {}, !.count = 0,
                                !.unacked = {}]
    /\ ready' = ready \cup {u.message : u \in broker.unacked}
    /\ UNCHANGED acked

\* connected(): _q_open sends channel.open.
LinkUp ==
    /\ link = "down"
    /\ losses < MaxLosses
    /\ link' = "up"
    /\ out' = <<[type |-> "Open"]>>
    /\ UNCHANGED <<queue, received, held, in, Contents, userAcked, happened, losses, calls>>

\* resetChannelState, and disconnected() after it.
SocketClosed ==
    /\ link' = "down"
    /\ queue' = Cleared(queue)
    /\ out' = <<>>
    /\ in' = <<>>
    /\ BrokerCloses("closed")
    /\ losses' = losses + 1
    /\ UNCHANGED <<received, held, userAcked, happened, calls>>

\* The connection is lost, or the attempt to make it fails in the handshake.
LinkLost == losses < MaxLosses /\ SocketClosed

CloseFinishes == link = "closing" /\ LinkLost

\* The socket takes its time to close: after a connection.close of the broker
\* disconnected() has been emitted already, after the client's own it has not.
LinkCloses ==
    /\ link = "up"
    /\ link' = "closing"
    /\ \E opened \in {FALSE, queue.opened} : queue' = [queue EXCEPT !.opened = opened]
    /\ out' = <<>>
    /\ in' = <<>>
    /\ BrokerCloses("closed")
    /\ UNCHANGED <<received, held, userAcked, happened, losses, calls>>

-----------------------------------------------------------------------------
(* Frames the queue receives.                                              *)

Receive(type) ==
    /\ link = "up"
    /\ in # <<>>
    /\ Head(in).type = type
    /\ in' = Tail(in)
    /\ UNCHANGED <<link, Contents, userAcked, happened, losses, calls>>

ReceiveOpenOk ==
    /\ Receive("OpenOk")
    /\ queue' = [queue EXCEPT !.opened = TRUE]
    /\ UNCHANGED <<received, held, out>>

ReceiveClose ==
    /\ Receive("Close")
    /\ Send([type |-> "CloseOk"])
    /\ queue' = [queue EXCEPT !.opened = FALSE]
    /\ UNCHANGED <<received, held>>

ReceiveCloseOk ==
    /\ Receive("CloseOk")
    /\ queue' = [queue EXCEPT !.opened = FALSE]
    /\ UNCHANGED <<received, held, out>>

\* Mutant: the request counts as pending although it has been answered.
ReceiveConsumeOkKeepsRequested ==
    /\ Receive("ConsumeOk")
    /\ queue' = [queue EXCEPT !.consumerTag = Head(in).consumer, !.consuming = TRUE]
    /\ UNCHANGED <<received, held, out>>

ReceiveConsumeOk ==
    /\ Receive("ConsumeOk")
    /\ queue' = [queue EXCEPT !.consumerTag = Head(in).consumer, !.consuming = TRUE,
                              !.consumeRequested = FALSE]
    /\ UNCHANGED <<received, held, out>>

\* Mutant: the consumer tag is forgotten, the queue is still consuming.
ReceiveCancelOkKeepsConsuming ==
    /\ Receive("CancelOk")
    /\ queue' = IF queue.consumerTag = Head(in).consumer
                THEN [queue EXCEPT !.consumerTag = NoTag]
                ELSE queue
    /\ UNCHANGED <<received, held, out>>

\* An answer for another consumer tag is ignored.
ReceiveCancelOk ==
    /\ Receive("CancelOk")
    /\ queue' = IF queue.consumerTag = Head(in).consumer
                THEN [queue EXCEPT !.consumerTag = NoTag, !.consuming = FALSE,
                                   !.consumeRequested = FALSE]
                ELSE queue
    /\ UNCHANGED <<received, held, out>>

\* The message a deliver or getOk announces.
Announced(frame) ==
    [tag |-> frame.tag, channel |-> frame.channel, message |-> frame.message,
     payload |-> <<>>, left |-> 0]

\* Mutant: the delivery tag of the message before is kept.
ReceiveDeliverKeepsTag ==
    /\ Receive("Deliver")
    /\ queue' = IF queue.consumerTag = Head(in).consumer
                THEN [queue EXCEPT !.current =
                        [Announced(Head(in)) EXCEPT
                            !.tag = IF queue.current.tag # 0 THEN queue.current.tag ELSE @]]
                ELSE queue
    /\ UNCHANGED <<received, held, out>>

\* A message for another consumer tag is ignored, its header and body are not.
ReceiveDeliver ==
    /\ Receive("Deliver")
    /\ queue' = IF queue.consumerTag = Head(in).consumer
                THEN [queue EXCEPT !.current = Announced(Head(in))]
                ELSE queue
    /\ UNCHANGED <<received, held, out>>

ReceiveGetOk ==
    /\ Receive("GetOk")
    /\ queue' = [queue EXCEPT !.current = Announced(Head(in))]
    /\ UNCHANGED <<received, held, out>>

ReceiveGetEmpty ==
    /\ Receive("GetEmpty")
    /\ UNCHANGED <<queue, received, held, out>>

\* The message is kept as c, and enqueued when nothing of it is left to come.
Becomes(c) ==
    LET delivery == [tag |-> c.tag, channel |-> c.channel, message |-> c.message,
                     payload |-> c.payload]
    IN  /\ queue' = [queue EXCEPT !.current = c]
        /\ IF c.left = 0
           THEN received' = Append(received, delivery) /\ held' = held \cup {delivery}
           ELSE UNCHANGED <<received, held>>

\* Mutant: the size of the body is not taken from the header.
ReceiveHeaderWithoutSize ==
    /\ Receive("Header")
    /\ IF queue.current.tag # 0
       THEN Becomes(queue.current)
       ELSE UNCHANGED <<queue, received, held>>
    /\ UNCHANGED out

\* Content that no deliver or getOk came before is dropped.
ReceiveHeader ==
    /\ Receive("Header")
    /\ IF queue.current.tag # 0
       THEN Becomes([queue.current EXCEPT !.left = Head(in).size])
       ELSE UNCHANGED <<queue, received, held>>
    /\ UNCHANGED out

\* Mutant: the last body frame but one ends the message.
ReceiveBodyTooEarly ==
    /\ Receive("Body")
    /\ IF queue.current.tag # 0
       THEN Becomes([queue.current EXCEPT
                        !.payload = Append(@, Head(in).message),
                        !.left = IF @ = 2 THEN 0 ELSE @ - 1])
       ELSE UNCHANGED <<queue, received, held>>
    /\ UNCHANGED out

ReceiveBody ==
    /\ Receive("Body")
    /\ IF queue.current.tag # 0
       THEN Becomes([queue.current EXCEPT
                        !.payload = Append(@, Head(in).message),
                        !.left = @ - 1])
       ELSE UNCHANGED <<queue, received, held>>
    /\ UNCHANGED out

-----------------------------------------------------------------------------
(* The broker (external).                                                  *)

BrokerUnchanged ==
    UNCHANGED <<link, queue, received, held, userAcked, happened, losses, calls>>

BrokerTakes(type) ==
    link = "up" /\ out # <<>> /\ Head(out).type = type /\ out' = Tail(out) /\ BrokerUnchanged

BrokerOpens ==
    /\ BrokerTakes("Open")
    /\ broker.channel = "closed"
    /\ broker' = [broker EXCEPT !.channel = "open", !.number = @ + 1]
    /\ in' = Append(in, [type |-> "OpenOk"])
    /\ UNCHANGED <<ready, acked>>

\* Without a tag asked for, the broker chooses one.
BrokerConsumes ==
    /\ BrokerTakes("Consume")
    /\ broker.channel = "open"
    /\ \E tag \in ConsumerTags \ broker.consumers :
          /\ Head(out).consumer \in {tag, NoTag}
          /\ broker' = [broker EXCEPT !.consumers = @ \cup {tag}]
          /\ in' = Append(in, [type |-> "ConsumeOk", consumer |-> tag])
    /\ UNCHANGED <<ready, acked>>

\* A cancel is answered whether or not there is such a consumer.
BrokerCancels ==
    /\ BrokerTakes("Cancel")
    /\ broker.channel = "open"
    /\ broker' = [broker EXCEPT !.consumers = @ \ {Head(out).consumer}]
    /\ in' = IF Head(out).noWait THEN in
             ELSE Append(in, [type |-> "CancelOk", consumer |-> Head(out).consumer])
    /\ UNCHANGED <<ready, acked>>

\* A message is sent in one go: its method, its header, its body.
Sends(method, message) ==
    \E size \in Sizes :
        /\ in' = in \o <<method, [type |-> "Header", size |-> size]>>
                    \o [i \in 1..size |-> [type |-> "Body", message |-> message]]
        /\ broker' = [broker EXCEPT !.count = @ + 1,
                        !.unacked = @ \cup {[tag |-> broker.count + 1, message |-> message]}]
        /\ ready' = ready \ {message}
        /\ UNCHANGED acked

BrokerDelivers ==
    /\ broker.channel = "open"
    /\ \E message \in ready, tag \in broker.consumers :
          Sends([type |-> "Deliver", consumer |-> tag, tag |-> broker.count + 1,
                 channel |-> broker.number, message |-> message], message)
    /\ UNCHANGED out
    /\ BrokerUnchanged

BrokerGets ==
    /\ BrokerTakes("Get")
    /\ broker.channel = "open"
    /\ \/ \E message \in ready :
             Sends([type |-> "GetOk", tag |-> broker.count + 1,
                    channel |-> broker.number, message |-> message], message)
       \/ /\ ready = {}
          /\ in' = Append(in, [type |-> "GetEmpty"])
          /\ UNCHANGED Contents

\* A tag the broker does not know closes the channel.
BrokerSettles ==
    /\ broker.channel = "open"
    /\ \E type \in {"Ack", "Reject"} : BrokerTakes(type)
    /\ LET settled == {u \in broker.unacked : u.tag = Head(out).tag}
           messages == {u.message : u \in settled}
       IN  IF settled = {}
           THEN BrokerCloses("closing") /\ in' = Append(in, [type |-> "Close"])
           ELSE /\ broker' = [broker EXCEPT !.unacked = @ \ settled]
                /\ acked' = IF Head(out).type = "Ack" THEN acked \cup messages ELSE acked
                /\ ready' = IF Head(out).type = "Reject" /\ Head(out).requeue
                            THEN ready \cup messages ELSE ready
                /\ UNCHANGED in

BrokerAnswersClose ==
    /\ BrokerTakes("Close")
    /\ \/ broker.channel = "open" /\ BrokerCloses("closed")
       \/ broker.channel = "closing" /\ UNCHANGED Contents
    /\ in' = Append(in, [type |-> "CloseOk"])

\* While it waits for closeOk the broker drops every other frame.
BrokerWaitsForCloseOk ==
    /\ broker.channel = "closing"
    /\ \E type \in {"Open", "Consume", "Cancel", "Get", "Ack", "Reject", "CloseOk"} :
          /\ BrokerTakes(type)
          /\ broker' = IF type = "CloseOk" THEN [broker EXCEPT !.channel = "closed"]
                       ELSE broker
    /\ UNCHANGED <<in, ready, acked>>

\* A frame on a channel that is not open, a second open and a consumer tag that
\* is in use end the connection.
BrokerRefuses ==
    /\ link = "up"
    /\ out # <<>>
    /\ CASE Head(out).type = "Open" -> broker.channel = "open"
         [] Head(out).type = "Consume" /\ broker.channel = "open" ->
                Head(out).consumer \in broker.consumers
         [] Head(out).type = "CloseOk" -> FALSE
         [] OTHER -> broker.channel = "closed"
    /\ LinkLost

BrokerClosesChannel ==
    /\ Call
    /\ broker.channel = "open"
    /\ BrokerCloses("closing")
    /\ in' = Append(in, [type |-> "Close"])
    /\ UNCHANGED <<link, queue, received, held, out, userAcked, happened, losses>>

-----------------------------------------------------------------------------
User ==
    \/ Consume \/ Cancel \/ SetConsumerTag \/ Get
    \/ \E delivery \in held : Ack(delivery) \/ Reject(delivery)
    \/ CloseChannel \/ Reopen \/ Reset

Link == LinkUp \/ LinkLost \/ LinkCloses

Reading ==
    \/ ReceiveOpenOk \/ ReceiveClose \/ ReceiveCloseOk
    \/ ReceiveConsumeOk \/ ReceiveCancelOk
    \/ ReceiveDeliver \/ ReceiveGetOk \/ ReceiveGetEmpty
    \/ ReceiveHeader \/ ReceiveBody

BrokerReads ==
    \/ BrokerOpens \/ BrokerConsumes \/ BrokerCancels \/ BrokerGets \/ BrokerSettles
    \/ BrokerAnswersClose \/ BrokerWaitsForCloseOk \/ BrokerRefuses

Next == User \/ Link \/ Reading \/ BrokerReads \/ BrokerDelivers \/ BrokerClosesChannel

Spec == Init /\ [][Next]_vars

\* What was received is read, the broker reads what it is sent, and a socket
\* that is closing gets closed.  Nothing is assumed of the user or of faults.
Fairness == WF_vars(Reading) /\ WF_vars(BrokerReads) /\ WF_vars(CloseFinishes)

FairSpec == Spec /\ Fairness

-----------------------------------------------------------------------------
(* The refinement of Deliveries.                                           *)

Copies(message, size) == [i \in 1..size |-> message]

\* What is left of the message whose frames are being read, if there is one.
Partial ==
    LET c == queue.current
        size == IF Head(in).type = "Header" THEN Head(in).size ELSE c.left
    IN  IF in # <<>> /\ Head(in).type \in {"Header", "Body"}
        THEN <<[tag |-> c.tag, channel |-> c.channel, message |-> c.message,
                payload |-> c.payload \o Copies(c.message, size)]>>
        ELSE <<>>

\* The message frame i announces, as it was sent.
Sent(i) ==
    [tag |-> in[i].tag, channel |-> in[i].channel, message |-> in[i].message,
     payload |-> Copies(in[i].message, in[i + 1].size)]

\* The message being read and those announced by frames that are not read yet.
UnderWay ==
    Partial \o FlattenSeq([i \in DOMAIN in |->
                    IF in[i].type \in {"Deliver", "GetOk"} THEN <<Sent(i)>> ELSE <<>>])

D == INSTANCE Deliveries WITH connected <- link = "up", underWay <- UnderWay

-----------------------------------------------------------------------------
(* Properties.                                                             *)

\* The messages a queue hands to the user are the ones the broker has sent to
\* it, whole, in order and once each; only the end of a connection loses one.
DeliversWhole == D!Spec

\* The broker never reads a basic.consume while it has a consumer for this
\* queue, as in the tests canOnlyStartConsumingOnce and
\* ensureConsumeOnlySentOnce (tst_qamqpqueue.cpp:348, 356): as long as the user
\* neither cancels twice, nor changes the tag of a consumer, nor resets.
ConsumeSentOnce ==
    out # <<>> /\ Head(out).type = "Consume" /\ broker.consumers # {}
        => happened \cap {"recancel", "retag", "reset"} # {}

\* A queue that is consuming has a consumer at the broker, or the news that it
\* is gone are under way.
Served ==
    link = "up" /\ queue.opened /\ queue.consuming
        => \/ queue.consumerTag \in broker.consumers
           \/ \E i \in DOMAIN in : in[i].type \in {"CancelOk", "Close", "CloseOk"}

\* isConsuming() is not stale, over cancels, closes from both sides and lost
\* connections, unless the user has cancelled without waiting, changed the tag,
\* reset the queue, or reopened a channel that was closed while consuming.
ConsumingIsServed == happened \cap {"noWait", "retag", "reset", "reopen"} = {} => Served

\* The same on a channel that is reopened: consume() refuses to consume again
\* because it is "already consuming with tag" (qamqpqueue.cpp:508).
ReopenedIsServed == happened \subseteq {"reopen"} => Served

\* The broker forgets only messages the user has acknowledged, not others that
\* were given the same tag: as long as no message of another channel is
\* acknowledged.
AckedWereReceived == "stale" \notin happened => acked \subseteq userAcked

\* A consume() that was sent is answered, and another can be made after it is
\* over, unless the channel or the connection is closed.
ConsumeCompletes ==
    (link = "up" /\ queue.opened /\ queue.consumeRequested /\ "reopen" \notin happened)
        ~> (link # "up" \/ ~queue.opened \/ ~queue.consumeRequested \/ "reopen" \in happened)

=============================================================================
