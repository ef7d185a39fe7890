------------------------------ MODULE Publishing ------------------------------
(***************************************************************************)
(* QAmqpExchange::publish, frame by frame.  A call sends a method, a       *)
(* header and as many body frames as frameMax asks for, and after each of  *)
(* them operator<< waits for the bytes to be written.  In that wait the    *)
(* socket is served: it may report data, whose handlers and the user's     *)
(* slots then run in the middle of the call, or the end of the connection. *)
(* The frames of one channel must nevertheless reach the broker message by *)
(* message, and each body in parts that add up to the size announced.      *)
(*                                                                         *)
(* `stack` is what runs: calls of publish, calls of enableConfirms (which  *)
(* counts only when the wait after confirm.select is over), and "reading"  *)
(* while _q_readyRead is at work.  Qt emits readyRead() once at a time, so *)
(* at most one "reading" is in it.  The broker acts on a frame when it is  *)
(* sent: what it does depends on the order of the frames alone.            *)
(***************************************************************************)
EXTENDS Integers, Sequences, SequencesExt

CONSTANTS
    NumExchanges,  \* the exchange objects, in the order they are created
    Shares,        \* whether two of them may have one channel
    FrameMin,      \* AMQP_FRAME_MIN_SIZE, scaled
    FrameDefault,  \* AMQP_FRAME_MAX, scaled
    FrameMaxes,    \* what a user passes to setFrameMax, and a broker offers
    Tolerance,     \* bytes that a broker lets a frame be too long
    BodySizes,     \* the sizes of the messages published
    MaxMessages,   \* bound on the messages published
    MaxLosses,     \* bound on the connections that end
    MaxCalls       \* bound on the user's other calls and closes by the broker

ASSUME PublishingAssumption ==
    /\ NumExchanges \in Nat
    /\ Shares \in BOOLEAN
    /\ FrameMin \in Nat /\ FrameMin > 7
    /\ FrameDefault \in Nat /\ FrameDefault >= FrameMin
    /\ FrameMaxes \subseteq Nat
    /\ Tolerance \in Nat /\ Tolerance >= 1
    /\ BodySizes \subseteq Nat
    /\ MaxMessages \in Nat
    /\ MaxLosses \in Nat
    /\ MaxCalls \in Nat

Exchanges == 1..NumExchanges
Channels == 1..NumExchanges
Messages == 1..MaxMessages

\* "shared": two exchanges have one channel; "nested": a slot sends a frame on
\* the channel of a publish in whose wait it runs; "closed": a frame is sent on
\* a channel that is not open; "retuned": setFrameMax between tuneOk and
\* connected(); "offline": confirms are enabled without a connection;
\* "enabling": in the wait of enableConfirms a slot publishes before the tags
\* are counted, or the connection is lost.
FrameEvents == {"shared", "nested", "closed", "retuned"}

Events == FrameEvents \cup {"offline", "enabling"}

VARIABLES
    link,       \* "opening" from tuneOk to openOk
    frameMax,   \* QAmqpClientPrivate::frameMax
    agreed,     \* the limit that tuneOk announced to this broker
    channelOf,  \* the channel number of each exchange
    exchange,   \* the fields of each QAmqpExchangePrivate that count here
    stack,      \* the calls that run, the innermost last
    in,         \* the frames the broker sent, not yet read
    broker,     \* the broker's end of the connection
    stored,     \* history: what the broker has stored
    published,  \* history: the number of messages published
    happened,   \* history: the events that have happened
    losses, calls

vars == <<link, frameMax, agreed, channelOf, exchange, stack, in, broker,
          stored, published, happened, losses, calls>>

Exchange == [opened : BOOLEAN, needOpen : BOOLEAN, nextDeliveryTag : 0..(MaxMessages + 1)]

\* A call of publish: the frame it sends next, the bytes of the body that are
\* sent, the tag it took and the connection (by its number) it began on.
PublishCall ==
    [exchange : Exchanges, message : Messages, size : BodySizes, tag : 0..MaxMessages,
     next : {"Method", "Header", "Body", "done"}, sent : Nat, session : 0..MaxLosses]

\* A call of enableConfirms whose confirm.select is sent.
EnableCall == [exchange : Exchanges, next : {"Tag"}]

\* _q_readyRead at work.
ReadyRead == [next |-> "reading"]

\* The content that is being put together on a channel of the broker: what it
\* waits for, of which message, and how much of the body is missing.
Idle == [awaits |-> "Method", message |-> 0, tag |-> 0, missing |-> 0]

BrokerChannel ==
    [state : {"closed", "open", "closing"}, confirming : BOOLEAN, count : 0..MaxMessages,
     content : [awaits : {"Method", "Header", "Body"}, message : 0..MaxMessages,
                tag : 0..MaxMessages, missing : Nat]]

Shut(state) ==
    [state |-> state, confirming |-> FALSE, count |-> 0, content |-> Idle]

NoBroker == [refused |-> FALSE, channel |-> [n \in Channels |-> Shut("closed")]]

TypeOK ==
    /\ link \in {"down", "opening", "up"}
    /\ frameMax \in {FrameDefault} \cup {f \in FrameMaxes \cup {FrameMin} : f >= FrameMin}
    /\ agreed \in Nat
    /\ channelOf \in [Exchanges -> Channels]
    /\ exchange \in [Exchanges -> Exchange]
    /\ stack \in Seq(PublishCall \cup EnableCall \cup {ReadyRead})
    /\ in \in Seq([type : {"OpenOk", "Close"}, channel : Channels])
    /\ broker \in [refused : BOOLEAN, channel : [Channels -> BrokerChannel]]
    /\ stored \subseteq [message : Messages, tag : 0..MaxMessages, number : 0..MaxMessages]
    /\ published \in 0..MaxMessages
    /\ happened \subseteq Events
    /\ losses \in 0..MaxLosses
    /\ calls \in 0..MaxCalls

\* init(): of two objects with one number only the first needs to open it.
Init ==
    /\ link = "down"
    /\ frameMax = FrameDefault
    /\ agreed = 0
    /\ channelOf \in {f \in [Exchanges -> Channels] :
                         \A x \in Exchanges : f[x] = x \/ (Shares /\ f[x] < x)}
    /\ exchange = [x \in Exchanges |->
          [opened |-> FALSE, nextDeliveryTag |-> 0,
           needOpen |-> \A y \in 1..(x - 1) : channelOf[y] # channelOf[x]]]
    /\ stack = <<>>
    /\ in = <<>>
    /\ broker = NoBroker
    /\ stored = {}
    /\ published = 0
    /\ happened = IF \E x, y \in Exchanges : x # y /\ channelOf[x] = channelOf[y]
                  THEN {"shared"} ELSE {}
    /\ losses = 0
    /\ calls = 0

-----------------------------------------------------------------------------
(* Who may run.                                                            *)

\* A call of publish.
IsCall(element) == element.next \notin {"reading", "Tag"}

\* Of the calls in `outer`, enableConfirms of this exchange is in its wait.
Enabling(x, outer) == \E i \in DOMAIN outer : outer[i].next = "Tag" /\ outer[i].exchange = x

\* What runs innermost; "loop" is the event loop.
Top == IF stack = <<>> THEN [next |-> "loop"] ELSE Last(stack)

\* The wait after a frame that has been sent, or the event loop.
SocketRuns == Top.next \in {"loop", "Tag", "Header", "Body", "done"}

CanRead == SocketRuns /\ ~Contains(stack, ReadyRead)

\* The user's code runs in the event loop or in a slot of what is read.
UserRuns == Top.next \in {"loop", "reading"}

Call == calls < MaxCalls /\ calls' = calls + 1

OnChannel(n) == {x \in Exchanges : channelOf[x] = n}

\* The events that sending a frame on this exchange's channel is, when the
\* calls in `outer` wait for it.
SendEvents(x, outer) ==
    (IF link # "down" /\ ~exchange[x].opened THEN {"closed"} ELSE {})
        \cup (IF \E i \in DOMAIN outer :
                    /\ IsCall(outer[i])
                    /\ channelOf[outer[i].exchange] = channelOf[x]
                    /\ outer[i].next # "done"
              THEN {"nested"} ELSE {})

-----------------------------------------------------------------------------
(* The broker (external) and the frames it gets.                           *)

\* The content once it awaits no more than `missing` bytes.
Joined(content, missing) ==
    IF missing = 0 THEN Idle
    ELSE [content EXCEPT !.awaits = "Body", !.missing = missing]

\* What frame the broker's channel accepts: the next of the content, in parts
\* that fit in the frame agreed and in the body announced.
Expected(c, frame) ==
    CASE frame.type = "Select" -> c.content.awaits = "Method"
      [] frame.type = "Body"   -> /\ c.content.awaits = "Body"
                                  /\ frame.size <= c.content.missing
                                  /\ frame.size + 8 <= agreed + Tolerance
      [] OTHER                 -> c.content.awaits = frame.type

Accepted(c, frame) ==
    CASE frame.type = "Select" -> [c EXCEPT !.confirming = TRUE]
      [] frame.type = "Method" ->
            [c EXCEPT !.content = [awaits |-> "Header", message |-> frame.message,
                                   tag |-> frame.tag, missing |-> 0]]
      [] frame.type = "Header" -> [c EXCEPT !.content = Joined(@, frame.size)]
      [] frame.type = "Body"   -> [c EXCEPT !.content = Joined(@, @.missing - frame.size)]

\* Whether this frame completes a message.
Completes(c, frame) ==
    /\ frame.type \in {"Header", "Body"}
    /\ Accepted(c, frame).content = Idle

\* The broker takes a frame of channel n: one it does not expect ends the
\* connection, one on a channel that it is closing is dropped.
BrokerTakes(n, frame) ==
    LET c == broker.channel[n]
        number == IF c.confirming THEN c.count + 1 ELSE 0
        new == IF Completes(c, frame)
               THEN [Accepted(c, frame) EXCEPT !.count = number]
               ELSE Accepted(c, frame)
    IN  CASE broker.refused \/ c.state = "closing" -> UNCHANGED <<broker, stored>>
          [] ~broker.refused /\ c.state = "open" /\ Expected(c, frame) ->
                /\ broker' = [broker EXCEPT !.channel[n] = new]
                /\ stored' = IF Completes(c, frame)
                             THEN stored \cup {[message |-> c.content.message,
                                                tag |-> c.content.tag, number |-> number]}
                             ELSE stored
          [] OTHER -> broker' = [broker EXCEPT !.refused = TRUE] /\ UNCHANGED stored

\* sendFrame drops what is sent while the socket is not connected.
Send(n, frame) ==
    IF link = "down" THEN UNCHANGED <<broker, stored>> ELSE BrokerTakes(n, frame)

BrokerCloses ==
    /\ Call
    /\ ~broker.refused
    /\ \E n \in Channels :
          /\ broker.channel[n].state = "open"
          /\ broker' = [broker EXCEPT !.channel[n] = Shut("closing")]
          /\ in' = Append(in, [type |-> "Close", channel |-> n])
    /\ UNCHANGED <<link, frameMax, agreed, channelOf, exchange, stack, stored,
                   published, happened, losses>>

-----------------------------------------------------------------------------
(* Calls of the user.                                                      *)

\* Mutant: a size below the least one is taken.
SetFrameMaxUnbounded ==
    /\ Call
    /\ UserRuns
    /\ link # "up"
    /\ \E size \in FrameMaxes :
          /\ frameMax' = size
          /\ happened' = IF link = "opening" /\ frameMax' # agreed
                         THEN happened \cup {"retuned"} ELSE happened
    /\ UNCHANGED <<link, agreed, channelOf, exchange, stack, in, broker, stored,
                   published, losses>>

\* Mutant: the size may be changed while connected.
SetFrameMaxAnytime ==
    /\ Call
    /\ UserRuns
    /\ \E size \in FrameMaxes :
          /\ frameMax' = Max({size, FrameMin})
          /\ happened' = IF link = "opening" /\ frameMax' # agreed
                         THEN happened \cup {"retuned"} ELSE happened
    /\ UNCHANGED <<link, agreed, channelOf, exchange, stack, in, broker, stored,
                   published, losses>>

\* setFrameMax is refused while connected; tuneOk may have been sent by then.
SetFrameMax ==
    /\ Call
    /\ UserRuns
    /\ link # "up"
    /\ \E size \in FrameMaxes :
          /\ frameMax' = Max({size, FrameMin})
          /\ happened' = IF link = "opening" /\ frameMax' # agreed
                         THEN happened \cup {"retuned"} ELSE happened
    /\ UNCHANGED <<link, agreed, channelOf, exchange, stack, in, broker, stored,
                   published, losses>>

EnableConfirms ==
    /\ Call
    /\ UserRuns
    /\ \E x \in Exchanges :
          /\ Send(channelOf[x], [type |-> "Select"])
          /\ stack' = Append(stack, [exchange |-> x, next |-> "Tag"])
          /\ happened' = happened \cup SendEvents(x, stack)
                            \cup (IF link = "down" THEN {"offline"} ELSE {})
    /\ UNCHANGED <<link, frameMax, agreed, channelOf, exchange, in, published, losses>>

\* enableConfirms returns, the wait after its frame is over.
StartCounting ==
    /\ Top.next = "Tag"
    /\ exchange' = [exchange EXCEPT ![Top.exchange].nextDeliveryTag = IF @ = 0 THEN 1 ELSE @]
    /\ stack' = Front(stack)
    /\ UNCHANGED <<link, frameMax, agreed, channelOf, in, broker, stored, published,
                   happened, losses, calls>>

\* The event that taking this tag is.
TagEvents(x, tag) == IF tag = 0 /\ Enabling(x, stack) THEN {"enabling"} ELSE {}

\* Mutant: the tag taken is not counted.
PublishSameTag ==
    /\ UserRuns
    /\ published < MaxMessages
    /\ published' = published + 1
    /\ \E x \in Exchanges, size \in BodySizes :
          LET tag == exchange[x].nextDeliveryTag
          IN  /\ stack' = Append(stack,
                    [exchange |-> x, message |-> published + 1, size |-> size, tag |-> tag,
                     next |-> "Method", sent |-> 0, session |-> losses])
              /\ happened' = happened \cup TagEvents(x, tag)
    /\ UNCHANGED <<link, frameMax, agreed, channelOf, exchange, in, broker, stored,
                   losses, calls>>

\* publish begins: the tag is taken before a frame is sent.
Publish ==
    /\ UserRuns
    /\ published < MaxMessages
    /\ published' = published + 1
    /\ \E x \in Exchanges, size \in BodySizes :
          LET tag == exchange[x].nextDeliveryTag
          IN  /\ exchange' = [exchange EXCEPT ![x].nextDeliveryTag =
                                  IF tag > 0 THEN tag + 1 ELSE 0]
              /\ stack' = Append(stack,
                    [exchange |-> x, message |-> published + 1, size |-> size, tag |-> tag,
                     next |-> "Method", sent |-> 0, session |-> losses])
              /\ happened' = happened \cup TagEvents(x, tag)
    /\ UNCHANGED <<link, frameMax, agreed, channelOf, in, broker, stored, losses, calls>>

\* The bytes of a body that go in one frame.
Part == frameMax - 7

\* The loop over the body goes on while something is left.
After(call, sent) == IF sent < call.size THEN "Body" ELSE "done"

\* Mutant: one byte more than the part is taken as sent.
SkippedFrame(call) ==
    CASE call.next = "Method" ->
            [frame |-> [type |-> "Method", message |-> call.message, tag |-> call.tag],
             call  |-> [call EXCEPT !.next = "Header"]]
      [] call.next = "Header" ->
            [frame |-> [type |-> "Header", size |-> call.size],
             call  |-> [call EXCEPT !.next = After(call, 0)]]
      [] call.next = "Body" ->
            [frame |-> [type |-> "Body", size |-> Min({Part, call.size - call.sent})],
             call  |-> [call EXCEPT !.sent = @ + Part + 1,
                                    !.next = After(call, call.sent + Part + 1)]]

\* The frame that a call sends next, and the call when it has sent it: the
\* part is what mid(sent, frameMax - 7) is of the body.  `sent` grows only after
\* the wait, by the limit of then; that is another one only if the connection
\* was lost, and what is left to send is dropped.
NextFrame(call) ==
    CASE call.next = "Method" ->
            [frame |-> [type |-> "Method", message |-> call.message, tag |-> call.tag],
             call  |-> [call EXCEPT !.next = "Header"]]
      [] call.next = "Header" ->
            [frame |-> [type |-> "Header", size |-> call.size],
             call  |-> [call EXCEPT !.next = After(call, 0)]]
      [] call.next = "Body" ->
            [frame |-> [type |-> "Body", size |-> Min({Part, call.size - call.sent})],
             call  |-> [call EXCEPT !.sent = @ + Part,
                                    !.next = After(call, call.sent + Part)]]

SendNext ==
    /\ Top.next \in {"Method", "Header", "Body"}
    /\ LET step == NextFrame(Top)
       IN  /\ Send(channelOf[Top.exchange], step.frame)
           /\ stack' = Append(Front(stack), step.call)
    /\ happened' = happened \cup SendEvents(Top.exchange, Front(stack))
    /\ UNCHANGED <<link, frameMax, agreed, channelOf, exchange, in, published,
                   losses, calls>>

\* publish returns.
Return ==
    /\ Top.next = "done"
    /\ stack' = Front(stack)
    /\ UNCHANGED <<link, frameMax, agreed, channelOf, exchange, in, broker, stored,
                   published, happened, losses, calls>>

-----------------------------------------------------------------------------
(* Reading.                                                                *)

\* readyRead(): for a frame of these channels, or of any other.
StartReading ==
    /\ link = "up"
    /\ CanRead
    /\ stack' = Append(stack, ReadyRead)
    /\ UNCHANGED <<link, frameMax, agreed, channelOf, exchange, in, broker, stored,
                   published, happened, losses, calls>>

StopReading ==
    /\ Top.next = "reading"
    /\ stack' = Front(stack)
    /\ UNCHANGED <<link, frameMax, agreed, channelOf, exchange, in, broker, stored,
                   published, happened, losses, calls>>

Receive(type) ==
    /\ Top.next = "reading"
    /\ in # <<>>
    /\ Head(in).type = type
    /\ in' = Tail(in)

ReceiveOpenOk ==
    /\ Receive("OpenOk")
    /\ exchange' = [x \in Exchanges |->
          IF channelOf[x] = Head(in).channel THEN [exchange[x] EXCEPT !.opened = TRUE]
          ELSE exchange[x]]
    /\ UNCHANGED <<link, frameMax, agreed, channelOf, stack, broker, stored, published,
                   happened, losses, calls>>

\* closeOk is sent by each object of the channel, the first one ends it.
ReceiveClose ==
    /\ Receive("Close")
    /\ LET n == Head(in).channel
       IN  /\ exchange' = [x \in Exchanges |->
                 IF channelOf[x] = n THEN [exchange[x] EXCEPT !.opened = FALSE]
                 ELSE exchange[x]]
           /\ broker' = IF broker.refused THEN broker
                        ELSE [broker EXCEPT !.channel[n] = Shut("closed")]
    /\ UNCHANGED <<link, frameMax, agreed, channelOf, stack, stored, published,
                   happened, losses, calls>>

-----------------------------------------------------------------------------
(* The connection.                                                         *)

\* tune: the broker's limit counts only where the client has none.
Negotiated(offer) == IF frameMax = 0 THEN offer ELSE frameMax

\* The handshake up to tuneOk; a broker does not go on above its limit.
Tuned ==
    /\ link = "down"
    /\ stack = <<>>
    /\ \E offer \in FrameMaxes :
          /\ Negotiated(offer) <= offer
          /\ frameMax' = Negotiated(offer)
          /\ agreed' = Negotiated(offer)
    /\ link' = "opening"
    /\ broker' = NoBroker
    /\ UNCHANGED <<channelOf, exchange, stack, in, stored, published, happened,
                   losses, calls>>

\* openOk, and connected(): the channels are opened, one of two objects that
\* both open theirs too often.
LinkUp ==
    /\ link = "opening"
    /\ ~broker.refused
    /\ CanRead
    /\ LET opening(n) == {x \in OnChannel(n) : exchange[x].needOpen /\ ~exchange[x].opened}
           opened == {n \in Channels : opening(n) # {}}
       IN  /\ broker' =
                 [refused |-> \E n \in Channels, x, y \in Exchanges :
                                  x # y /\ {x, y} \subseteq opening(n),
                  channel |-> [n \in Channels |-> Shut(IF n \in opened THEN "open" ELSE "closed")]]
           /\ in' = SetToSeq([type : {"OpenOk"}, channel : opened])
    /\ link' = "up"
    /\ UNCHANGED <<frameMax, agreed, channelOf, exchange, stack, stored, published,
                   happened, losses, calls>>

\* resetInternalState and _q_disconnected of every exchange.
LinkLost ==
    /\ link # "down"
    /\ losses < MaxLosses
    /\ SocketRuns
    /\ link' = "down"
    /\ exchange' = [x \in Exchanges |->
          [opened |-> FALSE, nextDeliveryTag |-> 0,
           needOpen |-> exchange[x].opened \/ exchange[x].needOpen]]
    /\ agreed' = 0
    /\ in' = <<>>
    /\ broker' = NoBroker
    /\ losses' = losses + 1
    /\ happened' = IF \E x \in Exchanges : Enabling(x, stack)
                   THEN happened \cup {"enabling"} ELSE happened
    /\ UNCHANGED <<frameMax, channelOf, stack, stored, published, calls>>

-----------------------------------------------------------------------------
User == SetFrameMax \/ EnableConfirms \/ Publish

Reading == StartReading \/ ReceiveOpenOk \/ ReceiveClose \/ StopReading

Next ==
    \/ User \/ SendNext \/ Return \/ StartCounting \/ Reading \/ BrokerCloses
    \/ Tuned \/ LinkUp \/ LinkLost

Spec == Init /\ [][Next]_vars

\* A slot returns, and so does the wait after a frame, by its timeout at the
\* latest, however often it is served by a reading.
Fairness ==
    /\ SF_vars(SendNext \/ Return \/ StartCounting)
    /\ WF_vars(StopReading)

FairSpec == Spec /\ Fairness

-----------------------------------------------------------------------------
(* Properties.                                                             *)

\* The frames sent were those of open channels, one call at a time on each,
\* and none was cut for another limit than the one agreed.
Framed == happened \cap FrameEvents = {}

\* The broker never gets a frame that it does not expect, whatever runs in the
\* waits between the frames of a call: no part is longer than the frame agreed
\* and none is one too many, also when calls on other channels, a loss or
\* another frameMax come between two parts.  Each of the frame events, such as
\* a publish in the wait of another on its own channel, may break that.
NeverRefused == Framed => ~broker.refused

\* When publish is done, on a connection and a channel that lasted, the broker
\* has the whole message.
ReturnedIsStored ==
    \A i \in DOMAIN stack :
        (/\ IsCall(stack[i])
         /\ stack[i].next = "done"
         /\ stack[i].session = losses
         /\ broker.channel[channelOf[stack[i].exchange]].state = "open"
         /\ Framed)
        => stack[i].message \in {s.message : s \in stored}

\* The tag that publish took is the number the broker gave the message, also
\* when calls are nested, confirms are enabled in a slot and the connection is
\* lost between two of them.  Not when it is lost in the wait of enableConfirms,
\* or a slot publishes in that wait: the tag is still 0, the broker counts.
TagsAgree == happened = {} => \A s \in stored : s.tag = s.number

\* Every call comes to its end, on a connection that is lost in the middle
\* too: the loop over the body always gets on.
CallsReturn == (stack # <<>>) ~> (stack = <<>>)

=============================================================================
