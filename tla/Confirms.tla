------------------------------ MODULE Confirms ------------------------------
(***************************************************************************)
(* Publisher confirms: a QAmqpExchange on a channel of its own, the tags   *)
(* it counts for what it publishes, and the acks and nacks that come back. *)
(* The client and the broker each number the messages of a channel by      *)
(* themselves; nothing on the wire says which message a tag stands for.    *)
(*                                                                         *)
(* `link` stands for the connection (see Connection): "up" while the       *)
(* client is connected, "closing" from the moment frames are dropped until *)
(* the socket is closed, "down" after that.  Messages are numbered in the  *)
(* order they are published, over all connections.  A call is one step     *)
(* here: what runs in the wait after each of its frames is in Publishing.  *)
(***************************************************************************)
EXTENDS Integers, Sequences, SequencesExt

CONSTANTS
    MaxMessages,  \* bound on the messages published
    MaxLosses,    \* bound on the connections that end
    MaxCalls,     \* bound on the user's calls other than publish
    Events        \* which of the events below may happen

\* "nack": the broker refuses a message; "zero": it acks with tag 0 for all
\* that is outstanding; "reopen": the user opens a channel again whose tags
\* are counted; "offline": confirms are enabled without a connection.
ASSUME ConfirmsAssumption ==
    /\ MaxMessages \in Nat
    /\ MaxLosses \in Nat
    /\ MaxCalls \in Nat
    /\ Events \subseteq {"nack", "zero", "reopen", "offline"}

Messages == 1..MaxMessages
Tags == 1..MaxMessages

VARIABLES
    link,             \* the connection
    opened,           \* QAmqpChannelPrivate::opened
    nextDeliveryTag,  \* 0 while confirms are not enabled
    unconfirmed,      \* unconfirmedDeliveryTags
    out,              \* frames sent, not yet read by the broker
    in,               \* frames the broker sent, not yet read
    broker,           \* the broker's end of the channel
    wait,             \* waitForConfirms: not called, in its loop, its result
    messageOf,        \* history: the message each tag was given to
    tracked,          \* history: all messages that were given a tag
    published,        \* history: the number of messages published
    accepted,         \* history: messages the broker has acked
    delivered,        \* history: messages whose tag an ack has removed
    happened,         \* history: the events that have happened
    losses, calls     \* counters for the bounds

client == <<opened, nextDeliveryTag, unconfirmed>>
history == <<messageOf, tracked, published>>
vars == <<link, client, out, in, broker, wait, history, accepted, delivered,
          happened, losses, calls>>

NoMessage == 0

OutFrames ==
    [type : {"Open", "Close", "CloseOk", "Select"}]
        \cup [type : {"Publish"}, message : Messages]

InFrames ==
    [type : {"OpenOk", "Close", "CloseOk", "SelectOk"}]
        \cup [type : {"Ack", "Nack"}, tag : Tags \cup {0}, multiple : BOOLEAN]

Broker ==
    [channel     : {"closed", "open", "closing"},
     confirming  : BOOLEAN,
     count       : 0..MaxMessages,          \* tags given since confirm.select
     outstanding : SUBSET [tag : Tags, message : Messages]]

ClosedChannel(state) ==
    [channel |-> state, confirming |-> FALSE, count |-> 0, outstanding |-> {}]

TypeOK ==
    /\ link \in {"up", "closing", "down"}
    /\ opened \in BOOLEAN
    /\ nextDeliveryTag \in 0..(MaxMessages + 1)
    /\ unconfirmed \in Seq(Tags)
    /\ out \in Seq(OutFrames)
    /\ in \in Seq(InFrames)
    /\ broker \in Broker
    /\ wait \in {"idle", "waiting", "quitting", "true", "false"}
    /\ messageOf \in [Tags -> Messages \cup {NoMessage}]
    /\ tracked \subseteq Messages
    /\ published \in 0..MaxMessages
    /\ accepted \subseteq Messages
    /\ delivered \subseteq Messages
    /\ happened \subseteq Events
    /\ losses \in 0..MaxLosses
    /\ calls \in 0..MaxCalls

Init ==
    /\ link = "down"
    /\ opened = FALSE
    /\ nextDeliveryTag = 0
    /\ unconfirmed = <<>>
    /\ out = <<>>
    /\ in = <<>>
    /\ broker = ClosedChannel("closed")
    /\ wait = "idle"
    /\ messageOf = [t \in Tags |-> NoMessage]
    /\ tracked = {}
    /\ published = 0
    /\ accepted = {}
    /\ delivered = {}
    /\ happened = {}
    /\ losses = 0
    /\ calls = 0

\* sendFrame drops what is sent without a connection.
Send(frame) == out' = IF link = "up" THEN Append(out, frame) ELSE out

-----------------------------------------------------------------------------
(* Calls of the user.                                                      *)

Call == calls < MaxCalls /\ calls' = calls + 1

Happens(events) == events \subseteq Events /\ happened' = happened \cup events

\* The tags are counted from here on, whether or not the frame was sent.
EnableConfirms ==
    /\ Call
    /\ Happens(IF link = "down" THEN {"offline"} ELSE {})
    /\ Send([type |-> "Select"])
    /\ nextDeliveryTag' = IF nextDeliveryTag = 0 THEN 1 ELSE nextDeliveryTag
    /\ UNCHANGED <<link, opened, unconfirmed, in, broker, wait, history, accepted,
                   delivered, losses>>

\* Mutant: the tag given is the next one.
PublishLate ==
    /\ published < MaxMessages
    /\ published' = published + 1
    /\ IF nextDeliveryTag \in Tags
       THEN /\ unconfirmed' = Append(unconfirmed, nextDeliveryTag)
            /\ nextDeliveryTag' = nextDeliveryTag
            /\ messageOf' = [messageOf EXCEPT ![nextDeliveryTag] = published + 1]
            /\ tracked' = tracked \cup {published + 1}
       ELSE UNCHANGED <<unconfirmed, nextDeliveryTag, messageOf, tracked>>
    /\ Send([type |-> "Publish", message |-> published + 1])
    /\ UNCHANGED <<link, opened, in, broker, wait, accepted, delivered, losses, calls, happened>>

\* Mutant: a message is given a tag without confirms being enabled.
PublishAlwaysTracks ==
    /\ published < MaxMessages
    /\ published' = published + 1
    /\ unconfirmed' = Append(unconfirmed, nextDeliveryTag)
    /\ nextDeliveryTag' = nextDeliveryTag + 1
    /\ messageOf' = [messageOf EXCEPT ![nextDeliveryTag] = published + 1]
    /\ tracked' = tracked \cup {published + 1}
    /\ Send([type |-> "Publish", message |-> published + 1])
    /\ UNCHANGED <<link, opened, in, broker, wait, accepted, delivered, losses, calls, happened>>

\* The method, header and body frames of one message count as one.
Publish ==
    /\ published < MaxMessages
    /\ published' = published + 1
    /\ IF nextDeliveryTag > 0
       THEN /\ unconfirmed' = Append(unconfirmed, nextDeliveryTag)
            /\ nextDeliveryTag' = nextDeliveryTag + 1
            /\ messageOf' = [messageOf EXCEPT ![nextDeliveryTag] = published + 1]
            /\ tracked' = tracked \cup {published + 1}
       ELSE UNCHANGED <<unconfirmed, nextDeliveryTag, messageOf, tracked>>
    /\ Send([type |-> "Publish", message |-> published + 1])
    /\ UNCHANGED <<link, opened, in, broker, wait, accepted, delivered, losses, calls, happened>>

\* waitForConfirms enters its loop, whatever is unconfirmed.
StartWaiting ==
    /\ Call
    /\ wait \notin {"waiting", "quitting"}
    /\ wait' = "waiting"
    /\ UNCHANGED <<link, client, out, in, broker, history, accepted, delivered, losses, happened>>

\* Its loop ends by the timeout, or after the event that made it quit.
StopWaiting ==
    /\ wait \in {"waiting", "quitting"}
    /\ wait' = IF unconfirmed = <<>> THEN "true" ELSE "false"
    /\ UNCHANGED <<link, client, out, in, broker, history, accepted, delivered,
                   losses, calls, happened>>

CloseChannel ==
    /\ Call
    /\ opened
    /\ Send([type |-> "Close"])
    /\ UNCHANGED <<link, client, in, broker, wait, history, accepted, delivered, losses, happened>>

\* reopen() of an open channel only closes it: it is still marked as opened
\* when open() looks.
Reopen ==
    /\ Call
    /\ Happens(IF nextDeliveryTag > 0 THEN {"reopen"} ELSE {})
    /\ opened \/ link = "up"
    /\ Send([type |-> IF opened THEN "Close" ELSE "Open"])
    /\ UNCHANGED <<link, client, in, broker, wait, history, accepted, delivered, losses>>

-----------------------------------------------------------------------------
(* The connection.                                                         *)

\* connected(): _q_open sends channel.open.
LinkUp ==
    /\ link = "down"
    /\ losses < MaxLosses
    /\ link' = "up"
    /\ out' = <<[type |-> "Open"]>>
    /\ in' = <<>>
    /\ broker' = ClosedChannel("closed")
    /\ UNCHANGED <<client, wait, history, accepted, delivered, losses, calls, happened>>

\* _q_disconnected: the slot on disconnected().
Disconnected ==
    /\ opened' = FALSE
    /\ unconfirmed' = <<>>

\* resetInternalState of the exchange, and disconnected() after it.
SocketClosed ==
    /\ link' = "down"
    /\ Disconnected
    /\ nextDeliveryTag' = 0
    /\ messageOf' = [t \in Tags |-> NoMessage]
    /\ out' = <<>>
    /\ in' = <<>>
    /\ broker' = ClosedChannel("closed")
    /\ losses' = losses + 1
    /\ UNCHANGED <<wait, tracked, published, accepted, delivered, calls, happened>>

\* The connection is lost, or the attempt to make it fails in the handshake.
LinkLost == losses < MaxLosses /\ SocketClosed

CloseFinishes == link = "closing" /\ LinkLost

\* The socket takes its time to close: after a connection.close of the broker
\* disconnected() has been emitted already, after the client's own it has not.
LinkCloses ==
    /\ link = "up"
    /\ link' = "closing"
    /\ \/ Disconnected
       \/ UNCHANGED <<opened, unconfirmed>>
    /\ out' = <<>>
    /\ in' = <<>>
    /\ broker' = ClosedChannel("closed")
    /\ UNCHANGED <<nextDeliveryTag, wait, history, accepted, delivered, losses, calls, happened>>

-----------------------------------------------------------------------------
(* Frames the channel receives.                                            *)

Receive(type) ==
    /\ link = "up"
    /\ in # <<>>
    /\ Head(in).type = type
    /\ in' = Tail(in)

ReceiveOpenOk ==
    /\ Receive("OpenOk")
    /\ opened' = TRUE
    /\ UNCHANGED <<link, nextDeliveryTag, unconfirmed, out, broker, wait, history,
                   accepted, delivered, losses, calls, happened>>

ReceiveSelectOk ==
    /\ Receive("SelectOk")
    /\ UNCHANGED <<link, client, out, broker, wait, history, accepted, delivered,
                   losses, calls, happened>>

ReceiveClose ==
    /\ Receive("Close")
    /\ Send([type |-> "CloseOk"])
    /\ opened' = FALSE
    /\ UNCHANGED <<link, nextDeliveryTag, unconfirmed, broker, wait, history,
                   accepted, delivered, losses, calls, happened>>

ReceiveCloseOk ==
    /\ Receive("CloseOk")
    /\ opened' = FALSE
    /\ UNCHANGED <<link, nextDeliveryTag, unconfirmed, out, broker, wait, history,
                   accepted, delivered, losses, calls, happened>>

Position(tag) == CHOOSE i \in DOMAIN unconfirmed : unconfirmed[i] = tag

\* Mutant: an ack of several tags takes one tag too many.
RemainingTooFew(tag, multiple) ==
    CASE tag = 0 -> <<>>
      [] tag # 0 /\ ~Contains(unconfirmed, tag) -> unconfirmed
      [] tag # 0 /\ Contains(unconfirmed, tag) /\ multiple ->
            SelectSeq(unconfirmed, LAMBDA t : t > tag + 1)
      [] OTHER -> RemoveAt(unconfirmed, Position(tag))

\* Mutant: an ack of several tags leaves the tag it names.
RemainingTooMany(tag, multiple) ==
    CASE tag = 0 -> <<>>
      [] tag # 0 /\ ~Contains(unconfirmed, tag) -> unconfirmed
      [] tag # 0 /\ Contains(unconfirmed, tag) /\ multiple ->
            SubSeq(unconfirmed, Position(tag), Len(unconfirmed))
      [] OTHER -> RemoveAt(unconfirmed, Position(tag))

\* What handleAckOrNack leaves of the tags after an ack.
Remaining(tag, multiple) ==
    CASE tag = 0 -> <<>>
      [] tag # 0 /\ ~Contains(unconfirmed, tag) -> unconfirmed
      [] tag # 0 /\ Contains(unconfirmed, tag) /\ multiple ->
            SubSeq(unconfirmed, Position(tag) + 1, Len(unconfirmed))
      [] OTHER -> RemoveAt(unconfirmed, Position(tag))

\* allMessagesDelivered() is emitted when no tag is left, but not for a tag
\* that is not known; it ends the loop of waitForConfirms.
ReceiveAck ==
    /\ Receive("Ack")
    /\ LET tag == Head(in).tag
           left == Remaining(tag, Head(in).multiple)
           settled == {unconfirmed[i] : i \in DOMAIN unconfirmed} \ {left[i] : i \in DOMAIN left}
       IN  /\ unconfirmed' = left
           /\ delivered' = delivered \cup {messageOf[t] : t \in settled}
           /\ wait' = IF wait = "waiting" /\ left = <<>>
                            /\ (tag = 0 \/ Contains(unconfirmed, tag))
                      THEN "quitting" ELSE wait
    /\ UNCHANGED <<link, opened, nextDeliveryTag, out, broker, history, accepted,
                   losses, calls, happened>>

\* A nack is only logged.
ReceiveNack ==
    /\ Receive("Nack")
    /\ UNCHANGED <<link, client, out, broker, wait, history, accepted, delivered,
                   losses, calls, happened>>

-----------------------------------------------------------------------------
(* The broker (external).                                                  *)

BrokerUnchanged ==
    UNCHANGED <<link, client, wait, history, delivered, losses, calls, happened>>

BrokerTakes(type) == link = "up" /\ out # <<>> /\ Head(out).type = type /\ out' = Tail(out)

BrokerOpens ==
    /\ BrokerTakes("Open")
    /\ broker.channel = "closed"
    /\ broker' = ClosedChannel("open")
    /\ in' = Append(in, [type |-> "OpenOk"])
    /\ UNCHANGED accepted
    /\ BrokerUnchanged

BrokerConfirms ==
    /\ BrokerTakes("Select")
    /\ broker.channel = "open"
    /\ broker' = [broker EXCEPT !.confirming = TRUE]
    /\ in' = Append(in, [type |-> "SelectOk"])
    /\ UNCHANGED accepted
    /\ BrokerUnchanged

BrokerStores ==
    /\ BrokerTakes("Publish")
    /\ broker.channel = "open"
    /\ broker' = IF broker.confirming
                 THEN [broker EXCEPT !.count = @ + 1,
                        !.outstanding = @ \cup {[tag |-> broker.count + 1,
                                                 message |-> Head(out).message]}]
                 ELSE broker
    /\ UNCHANGED <<in, accepted>>
    /\ BrokerUnchanged

BrokerAnswersClose ==
    /\ BrokerTakes("Close")
    /\ broker.channel \in {"open", "closing"}
    /\ broker' = IF broker.channel = "open" THEN ClosedChannel("closed") ELSE broker
    /\ in' = Append(in, [type |-> "CloseOk"])
    /\ UNCHANGED accepted
    /\ BrokerUnchanged

\* While it waits for closeOk the broker drops every other frame.
BrokerWaitsForCloseOk ==
    /\ broker.channel = "closing"
    /\ \E type \in {"Open", "Select", "Publish", "CloseOk"} :
          /\ BrokerTakes(type)
          /\ broker' = IF type = "CloseOk" THEN ClosedChannel("closed") ELSE broker
    /\ UNCHANGED <<in, accepted>>
    /\ BrokerUnchanged

\* A frame on a channel that is not open, or a second open, is an error of
\* the connection.
BrokerRefuses ==
    /\ link = "up"
    /\ out # <<>>
    /\ losses < MaxLosses
    /\ IF Head(out).type = "Open" THEN broker.channel = "open"
       ELSE broker.channel = "closed" /\ Head(out).type # "CloseOk"
    /\ SocketClosed

BrokerClosesChannel ==
    /\ Call
    /\ broker.channel = "open"
    /\ broker' = ClosedChannel("closing")
    /\ in' = Append(in, [type |-> "Close"])
    /\ UNCHANGED <<link, client, out, wait, history, accepted, delivered, losses, happened>>

\* The outstanding messages that an answer with this tag is about.
Covered(tag, multiple) ==
    {o \in broker.outstanding : tag = 0 \/ o.tag = tag \/ (multiple /\ o.tag < tag)}

BrokerAnswers(type) ==
    /\ broker.outstanding # {}
    /\ \E tag \in {0} \cup {o.tag : o \in broker.outstanding}, multiple \in BOOLEAN :
          /\ tag = 0 => multiple
          /\ Happens((IF type = "Nack" THEN {"nack"} ELSE {})
                        \cup (IF tag = 0 THEN {"zero"} ELSE {}))
          /\ broker' = [broker EXCEPT !.outstanding = @ \ Covered(tag, multiple)]
          /\ in' = Append(in, [type |-> type, tag |-> tag, multiple |-> multiple])
          /\ accepted' = IF type = "Ack"
                THEN accepted \cup {o.message : o \in Covered(tag, multiple)}
                ELSE accepted
    /\ UNCHANGED <<link, client, out, wait, history, delivered, losses, calls>>

BrokerAcks == BrokerAnswers("Ack")

BrokerNacks == BrokerAnswers("Nack")

-----------------------------------------------------------------------------
User ==
    \/ EnableConfirms \/ Publish \/ StartWaiting \/ StopWaiting
    \/ CloseChannel \/ Reopen

Link == LinkUp \/ LinkLost \/ LinkCloses

Reading ==
    \/ ReceiveOpenOk \/ ReceiveSelectOk \/ ReceiveClose \/ ReceiveCloseOk
    \/ ReceiveAck \/ ReceiveNack

BrokerReads ==
    \/ BrokerOpens \/ BrokerConfirms \/ BrokerStores \/ BrokerAnswersClose
    \/ BrokerWaitsForCloseOk \/ BrokerRefuses

Next ==
    \/ User \/ Link \/ Reading \/ BrokerReads \/ BrokerClosesChannel
    \/ BrokerAcks \/ BrokerNacks

Spec == Init /\ [][Next]_vars

\* What was received is read, the broker reads what it is sent and answers
\* every message in the end, and a socket that is closing gets closed.
Fairness ==
    /\ WF_vars(Reading)
    /\ WF_vars(BrokerReads)
    /\ WF_vars(BrokerAcks)
    /\ WF_vars(CloseFinishes)

FairSpec == Spec /\ Fairness

-----------------------------------------------------------------------------
(* Properties.                                                             *)

\* The tags that wait for a confirm are in increasing order, each once, and
\* all were given: what handleAckOrNack relies on when it takes the tags up
\* to the one acked as the ones that are acked.
TagsInOrder ==
    /\ \A i, j \in DOMAIN unconfirmed : i < j => unconfirmed[i] < unconfirmed[j]
    /\ \A i \in DOMAIN unconfirmed : unconfirmed[i] < nextDeliveryTag

\* A message whose tag an ack removes is one that the broker has acked: the
\* tags counted here and by the broker stay in step over losses of the
\* connection, as long as nothing is nacked, no ack has tag 0 and no channel is
\* reopened, and confirms are enabled on a connection.
DeliveredAreAccepted == happened = {} => delivered \subseteq accepted

\* Every message published on an open channel is confirmed in the end, by a
\* broker that acks them.
ConfirmsArrive ==
    (opened /\ unconfirmed # <<>> /\ happened = {})
        ~> (~opened \/ unconfirmed = <<>> \/ happened # {})

\* waitForConfirms returns true only if no message was lost, as the test
\* confirmDontLoseMessages has it (tst_qamqpexchange.cpp:188, 199).
WaitMeansNoneLost ==
    [][wait # "true" /\ wait' = "true" => tracked \subseteq accepted]_vars

=============================================================================
