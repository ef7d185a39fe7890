# QAMQP in TLA+

QAMQP is a Qt client for AMQP 0.9.1. This directory holds TLA+ models of its
protocol logic, translated from `src/src/*.cpp`, the TLC configurations that
check them, and TLAPS proofs of what holds for every value of the constants.
Paths below are relative to the repository root in the form `src/...`; the
library itself is `src/src/`.

* [The system](#the-system) – parts, state, operations, what is hard
* [The modules](#the-modules) – which models what, and how to read them
* [What is checked](#what-is-checked) – runs, bounds, fairness
* [What is proved](#what-is-proved)
* [Disagreements found](#disagreements-found)
* [Not modelled](#not-modelled)
* [Plan](#plan)

## The system

The library is single-threaded: everything happens in a slot or public function
called from Qt's event loop, and runs to completion. Concurrency is that of the
client with the broker, the network, timers and the calls of the user, which
come between any two handlers, and, in some handlers, within them: `emit` runs
the user's slots on the spot, and two loops (`waitForConfirms`, the flush in
`operator<<` of a frame) run the event loop.

| Component | Source | State | Operations |
|---|---|---|---|
| Connection | `qamqpclient.cpp` | socket, `connected`, reconnect timer, `timeout`, `reconnectFixedTimeout`, `autoReconnect`, heartbeat timer and delay, agreed limits | `connectToHost`, `disconnectFromHost`, `abort`, setters; slots of the socket and timers; methods start, tune, openOk, close, closeOk |
| Channels | `qamqpchannel.cpp` | `channelNumber`, the static `nextChannelNumber`, `opened`, `needOpen` | `init`, `open`, `close`, `reopen`, `reset`, `qos`, `flow`; methods openOk, close, closeOk, flow, qosOk |
| Exchanges | `qamqpexchange.cpp` | `declared`, `delayedDeclare`, `nextDeliveryTag`, `unconfirmedDeliveryTags` | `declare`, `remove`, `publish`, `enableConfirms`, `waitForConfirms`; declareOk, deleteOk, ack, nack, return |
| Queues | `qamqpqueue.cpp` | `declared`, `delayedDeclare`, `delayedBindings`, consumer tag, `consuming`, `consumeRequested`, the message being received | `declare`, `bind`, `unbind`, `purge`, `remove`, `consume`, `cancel`, `get`, `ack`, `reject`; their answers; deliver, getOk, content header and body |
| Frames | `qamqpframe.cpp` | none | reading and writing of frames, field values |
| Tables | `qamqptable.cpp` | a hash | reading and writing of field tables |
| Registry | `qamqpchannelhash.cpp` | exchanges and queues by name | `get`, `put`, `channelDestroyed`, `queueDeclared` |
| Authentication | `qamqpauthenticator.cpp` | login, password | `write` |

How they interact. The client owns the socket. `_q_readyRead` cuts the input
into frames and hands each to all handlers registered for its channel; an
exchange and a queue register themselves when created, and may share a channel.
`sendFrame` drops a frame when the client is not connected. A channel object
listens to `connected()` (it opens its channel, `_q_open`) and `disconnected()`
(`_q_disconnected`). When the socket closes, the client also resets every
registered object (`resetChannelState`, `resetInternalState`). What is asked of
an object before its channel is open, is remembered (`delayedDeclare`,
`delayedBindings`) and sent from `channelOpened()`.

What is hard, and what makes each part correct:

* **Connection.** Four sources of shutdown (the user, closeOk, a close by the
  broker, a socket error) and four of a connect (the user, the reconnect timer, a
  one-shot after a forced close, a slot on `disconnected()`), each of which
  touches a different subset of the timers and flags. Correct: `isConnected()`,
  the signals and the socket agree; a retry is never pending beside an attempt
  or a connection, waits for a delay the user chose or a step of the backoff
  (after a forced close: the user's delay, or none) and leads to a connection; a
  close ends the connection; the heartbeat timer follows what was agreed with *this*
  broker; exchanges and queues are reset between two connections.
* **Channels.** Numbers come from a static counter and from the user; open and
  close handshakes cross each other, the broker's close and lost connections.
  Correct: `isOpen()` is not stale, each channel is opened on every connection
  and opened once, closes are answered, delayed calls are sent in full.
* **Confirms.** Client and broker number the messages independently and must
  start together after every loss; acks come in any order, single or multiple.
  Correct: a tag that is taken off stands for a message the broker has acked,
  all are taken off in the end, `waitForConfirms` is true only then.
* **Consumers and messages.** A message arrives as method, header and body
  frames that must be joined; consume and cancel are asynchronous, and cross
  closes from both sides. Correct: a message is handed over whole, in order and
  once; a consume is not sent while there is a consumer; `isConsuming()` is not
  stale; what the broker forgets, the user has acknowledged.
* **Publishing.** One call writes one or several frames and waits after each, and
  anything may run in the wait: a slot that publishes, a setter, the close of the
  channel or of the connection. `enableConfirms` counts only after such a wait.
  Correct: the frames of two messages are not mixed,
  no part is longer than agreed, tags and the broker's count agree, the call
  returns.
* **Frames and tables.** Lengths, widths, and input in parts of any size.
  Correct: what is written is read back, frame by frame, and one odd value does
  not shift the reading of the others.
* **Registry.** Names come from the user and from the broker, and change.
  Correct: no pointer to a destroyed object is kept, a lookup gives what has the
  name, the objects are all told of a lost connection, `isDeclared()` is not stale.

`PROJECT.json` lists these hazards one by one, at their lines.

## The modules

| Module | About |
|---|---|
| `Connection` | the connection: `client` (a record of the fields of `QAmqpClientPrivate`, the socket, the timers) and `peer` (the broker's end of the TCP connection) |
| `Link` | the abstract specification `Connection` implements: what exchanges and queues see of a connection |
| `ConnectionProofs` | theorems about `Connection`, and that it implements `Link` |
| `Channels` | several exchanges and queues, their numbers and channels, prefetch, delayed declares and binds; the broker's end of each channel |
| `Confirms` | one exchange on its own channel, its tags, and the broker that acks and nacks them |
| `Publishing` | the frames of `publish` and `enableConfirms`, and what runs in the waits after them |
| `Registry` | the exchanges and queues by name; declare, remove, purge, bind and their answers |
| `ChannelsProofs`, `ConfirmsProofs`, `PublishingProofs`, `RegistryProofs` | theorems about these modules |
| `SequenceFacts` | what the proofs use of `Append`, `Tail`, `RemoveAt`, `SetToSeq` and `FlattenSeq` |
| `Handshakes` | one end of a channel and the frames on their way that open and close it, for the proofs of `Channels` and `Consumer` |
| `Consumer` | one queue on its own channel: consume, cancel, get, ack, reject, and the messages joined from their frames; the broker's queue, consumers and unacknowledged messages |
| `ConsumerProofs` | theorems about `Consumer` |
| `Deliveries` | the abstract specification `Consumer` implements: whole messages under way, received in order |
| `Fields` | numbers, strings and tables written to bytes and read back |
| `Frames` | frames and content headers written to bytes, and cut out of a stream of bytes again; extends `Fields` |
| `MC*` | instances for TLC |

How they fit together. `Channels`, `Confirms`, `Consumer`, `Publishing` and
`Registry` each have a variable `link` in place of the connection, whose steps
are those of `Link`: up only from down, a close or a loss, and the reset of the
objects at the end of every connection. That `Connection` has no other steps is
its property `ResetBetweenConnections`, checked and proved. `Publishing` opens
steps of `Confirms` up, where a publish and an `enableConfirms` are one each; `Frames` one of
`Publishing`, where the bytes of a frame are.

### Connection

A function of the code that others call is an operator from the record it finds
to the record it leaves (`SendFrame`, `closeConnection`, `_q_connect`,
`_q_disconnect`, `_q_socketError`, ...), and a handler is an action composed of
the calls it makes, in their order:

| Action | Code (`qamqpclient.cpp`) |
|---|---|
| `ConnectToHost`, `DisconnectFromHost`, `AbortConnection` | 927–957, with `_q_connect` 145–161, `_q_disconnect` 163–174, `closeConnection` 355–365 |
| `SetAutoReconnect`, `SetHeartbeatDelay` | 786–801, 843–852 |
| `SocketConnected`, `CloseFinished` | `_q_socketConnected` 177–185, `_q_socketDisconnected` 187–195 |
| `ConnectRefused`, `ConnectionLost`, `CloseFailed` | `_q_socketError` 203–243 |
| `ReconnectTimeout`, `SingleShotTimeout`, `HeartbeatTimeout` | 48–50, 510–513, 197–201 |
| `ReceiveStart`, `ReceiveTune`, `ReceiveOpenOk`, `ReceiveCloseOk`, `ReceiveCloseForced`, `ReceiveCloseError` | 405–527 |
| `ReceiveMalformed` | the refusals of `_q_readyRead`, 262–339 |
| `Broker...` | external: a broker that follows the connection class |

Two things happen *during* a handler, and are the parameter `e` (a member of
`Environment`): whether Qt could flush what was written when
`disconnectFromHost()` of the socket is called (closed at once, or later), and
whether the user's slot on `disconnected()` calls `connectToHost` there
(`SlotConnects`). What is used of Qt: `connectToHost` is ignored unless the
socket is unconnected; `disconnectFromHost` of a connecting socket closes it as
soon as it is connected; `disconnected()` is emitted only if a connection had
been made; `abort` is immediate. `"Connecting"` includes the host lookup.

The broker's end disappears with the TCP connection, and so does what either
side had not read. Frames of other channels, heartbeats of the broker (no
handler does anything with them) and the content of methods are left out. A
reconnect uses the interval `timeout` has when it is scheduled, whose steps are
kept exactly, 1000 to 125000 ms: a socket error starts `reconnectTimer`, after it
has set `timeout`; a forced close starts a one-shot with `timeout` as it is, which
is 0 unless the user gave a delay. Any number of one-shots may be pending:
`singleShots[t]` of them with the interval `t`.

Two fields of `client` are history: `announced`, the last of `connected()` and
`disconnected()` that was emitted, and `reset`, whether exchanges and queues have
been reset since `connected()`. `LinkState` makes the `link` of `Link` of them:
up while `connected`, closing until the reset, down after it.

### Channels

`object[o]` is the record of the fields of one exchange or queue; `order` the
order in which objects were created, which is the order in which handlers and
slots run; `next` is `nextChannelNumber`; `broker` and `limit` are the broker's
end of each channel and the prefetch it keeps to. `link` is up, closing (a
socket that is not closed yet; frames are dropped) or down.

| Action | Code (`qamqpchannel.cpp` unless named) |
|---|---|
| `Create`, `Delete` | `init` 31–37, `open` 107–118, `qamqpclient.cpp` 717–766; destructor 23–29 |
| `Close`, `Reopen`, `Reset` | 269–283, 344–348 |
| `Qos`, `Resume` | `qos` 309–330, `resume`, `flow` 120–131 |
| `Declare`, `Bind` | `qamqpqueue.cpp` 357–369, 428–456; `qamqpexchange.cpp` `declare` |
| `LinkUp` | `_q_open` 78–81 of each object |
| `LinkLost`, `CloseFinishes`, `BrokerRefuses` | `resetInternalState` 93–98, `resetChannelState` (`qamqpclient.cpp` 90–103), `_q_disconnected` 240–244 and `qamqpexchange.cpp` 136–143 |
| `LinkCloses` | `closeConnection`, and after a close by the broker also `disconnected()` |
| `ReceiveOpenOk`, `ReceiveClose`, `ReceiveCloseOk` | 185–238, `channelOpened` of exchange and queue |
| `ReceiveQosOk`, `ReceiveFlowOk` | 246–255, 146–158 |
| `Broker...` | external: a broker that keeps the channel rules; it ends the connection on an open of an open channel and on a frame of a closed one |

`closed()` is emitted before `opened` is cleared, so a slot on it runs in the
middle of the handler: `slots`, in `ReceiveClose` and `ReceiveCloseOk`, is the set
of objects whose slot calls `reopen()`. Objects have names (they are in the
registry, so that `resetChannelState` reaches them); each call of the user, also
one made in a slot on another signal, is a step of its own. The answers to
declare and bind change none of this state (they are in `Registry`). A failed
handshake is `LinkLost` from `"down"`.

### Confirms

`unconfirmed` is `unconfirmedDeliveryTags`, `nextDeliveryTag` is 0 while
confirms are off. A call is one step, however many frames it sends; the waits after
them are in `Publishing`. History variables
say which message each tag stands for, which messages the broker has acked and
which the client has taken as delivered.

| Action | Code (`qamqpexchange.cpp` unless named) |
|---|---|
| `EnableConfirms`, `Publish` | 342–357, 291–340 |
| `StartWaiting`, `StopWaiting` | `waitForConfirms` 359–369; `wait` is `"quitting"` once `allMessagesDelivered()` has stopped its loop and the loop has not returned |
| `ReceiveAck`, `ReceiveNack` | `handleAckOrNack` 168–200 |
| `LinkLost` ..., `Disconnected` | 32–38, 136–143 |
| `CloseChannel`, `Reopen`, `ReceiveClose` ... | `qamqpchannel.cpp` |
| `Broker...` | external: numbers what it stores since confirm.select, answers in any order |

### Consumer and Deliveries

`queue` is the record of the fields of `QAmqpQueuePrivate` that count here;
`current` is `currentMessage`, with `left` its `leftSize` in body frames. A
message stands for its exchange, routing key and body; `payload` is the
sequence of the messages its body frames belong to, so that a body glued
together from two messages is seen. `received` is what was enqueued and `held`
what the user may still acknowledge.

| Action | Code (`qamqpqueue.cpp` unless named) |
|---|---|
| `Consume`, `Cancel`, `SetConsumerTag`, `Get` | 494–534, 640–667, 536–540, 560–582 |
| `Ack`, `Reject` | 584–638 |
| `CloseChannel`, `Reopen`, `Reset` | `qamqpchannel.cpp` 269–283, 344–348, with `resetInternalState` 37–45 |
| `LinkUp`, `LinkLost`, `CloseFinishes`, `LinkCloses` | as in `Channels` |
| `ReceiveConsumeOk`, `ReceiveCancelOk` | 230–242, 288–306 |
| `ReceiveDeliver`, `ReceiveGetOk`, `ReceiveGetEmpty` | 244–261, 215–228, 88–90 |
| `ReceiveHeader`, `ReceiveBody` | `_q_content` 100–127, `_q_body` 129–147 |
| `Broker...` | external: a broker with one queue, that sends the frames of a message in one go, chooses a tag if none is asked for, closes the channel on a delivery tag it does not know and the connection on a consumer tag in use |

`Deliveries` has three variables: whether there is a connection, the messages
under way, the messages received. `Consumer` maps its frames to it: `UnderWay`
is the message whose header or body is next in `in`, as far as it is joined
plus what is to come, followed by one message for every deliver or getOk not
yet read. Reading a method, a header or a body but the last is then a stutter,
reading the last is `Receive`, and a frame that is dropped, repeated or glued to
the wrong message is neither.

### Publishing

`stack` is the call stack: calls of `publish`, each with what it sends next, calls of
`enableConfirms` whose confirm.select is sent and whose tags are not counted yet, and
`_q_readyRead` at work. `operator<<` of a frame waits until its bytes are written
(`qamqpframe.cpp:78`), and in that wait the socket may report data or its end. What
is read runs handlers and slots, which may call anything. Qt emits `readyRead()`
once at a time, so that a wait within a reading does not read. The broker is
told of a frame when it is sent: it checks that the content of a channel is a
method, a header and a body of the announced size, in parts that fit in the
frame agreed.

| Action | Code (`qamqpexchange.cpp` unless named) |
|---|---|
| `Publish`, `SendNext`, `Return` | 291–340 |
| `EnableConfirms`, `StartCounting` | 342–353, 355–357 |
| `SetFrameMax` | `qamqpclient.cpp` 826–835 |
| `Tuned`, `LinkUp` | tune 438–469 and openOk of `qamqpclient.cpp`, with `_q_open` |
| `LinkLost` | 32–38, 136–143 |
| `StartReading`, `StopReading` | `_q_readyRead`, `qamqpclient.cpp` 245–342 |
| `ReceiveOpenOk`, `ReceiveClose` | `qamqpchannel.cpp` 185–238 |
| `BrokerCloses` and the operators above it | external |

A body is cut by `frameMax - 7` although a frame has 8 bytes besides it, so a part
may be one byte too long. `Tolerance` is how much of that a broker lets pass; the
assumption `Tolerance >= 1` says that it grants the one byte. A broker closes
the connection in tune if the client's limit is above its own (the client takes
the broker's only if its own is 0).

### Registry

`exchanges` and `queues` are the two hashes of the client; `object[o]` has what an
exchange or queue says of itself, and `hooked`, whether its `declared()` is
connected to `queueDeclared()`. An object may be made, named, declared, removed
and destroyed in any order. The broker has the queues and exchanges that are
declared, gives unnamed queues a name, and remembers for each channel the queue
declared last, which an empty name stands for. `remove()` sends its options as they
are: with `roNoWait`, the default, the delete of a queue is not answered. That of an
exchange is, because the bit of `roNoWait` (0x04, `qamqpexchange.h:56`) is not the
one that means no-wait in exchange.delete; a test relies on it
(`tst_qamqpexchange.cpp:139`, `remove()` and a wait for `removed()`). A delete that the
broker refuses, of what is used or not empty, is the close of a channel by the broker
(`BrokerCloses`) and a delete of a closed channel, or the close alone.

| Action | Code |
|---|---|
| `CreateQueue`, `CreateExchange` | `qamqpclient.cpp` 717–766, `qamqpchannelhash.cpp` `put`, `get`, `contains` |
| `Delete` | destructors, `channelDestroyed` (`qamqpchannelhash.cpp` 81–89) |
| `SetName` | `qamqpchannel.cpp` 297–301 |
| `Declare`, `RemoveObject`, `Ask` | `qamqpqueue.cpp` 263–286, 357–492 (purge, bind, unbind are `Ask`), `qamqpexchange.cpp` 40–73 and `remove` |
| `ReceiveOpenOk` | `channelOpened` of exchange and queue |
| `ReceiveDeclareOk` | `qamqpqueue.cpp` 149–165, then `queueDeclared` (`qamqpchannelhash.cpp`) |
| `ReceiveDeleteOk`, `ReceiveServed`, `ReceiveClose` | `qamqpqueue.cpp` 167–213; `qamqpchannel.cpp` 185–229 |
| `LinkUp`, `LinkCloses`, `SocketClosed` | as in `Channels`, with what of it goes through the registry |
| `OthersDelete`, `BrokerCloses` | external; `OthersDelete` is also an AutoDelete queue that goes with its last consumer; on a lost connection any of the queues may go (exclusive ones) |

### Fields and Frames

Bytes have `Byte` values and all widths are scaled (16 values; qint16, qint32 and
qint64 of 2, 3 and 4 bytes), so that both sides of every limit are small numbers;
only the 16 property flags are not. A float is an integer of which half the
digits are kept; strings are sequences of Latin-1 characters. `CharSigned` is
whether the build's `char` is signed: where it is not, a small negative integer
reads back positive (`qamqptable.cpp:255`). The run has it signed, as on x86.

`Frames` makes a message (`GiveHeader`, `GiveProperty`), sends it as `publish` does,
with heartbeats after it, and lets the bytes arrive in parts (`Arrive`), each of
which is a run of `_q_readyRead` over all that has arrived.

| Operator | Code |
|---|---|
| `FieldType`, `IntType`, `UIntType` | `QAmqpTable::writeFieldValue`, `qamqptable.cpp` 80–155 |
| `WriteField`, `WriteArray`, `WriteEntry`, `WriteTable` | 152–237, 338–356 |
| `ReadField`, `ReadItems`, `ReadTable` | 239–336, 358–371 |
| `WriteAmqpField`, `ReadAmqpField` | `qamqpframe.cpp` 155–285 |
| `WriteContent`, `ReadContent`, `WriteProperties`, `ReadProperties` | 305–358, 388–435 |
| `WriteFrame`, `Payload`, `Size`, `ReadFrame` | 66–94, 122–151, 455–486 |
| `ReadyRead`, `Whole`, `ReadSize`, `Refused` | `_q_readyRead`, `qamqpclient.cpp` 245–342 |

### Events

Some calls are legal and lead to states about which the code promises nothing.
They are in the models, and each module names them: a history variable
`happened` records that one has happened, and a property that does not survive
it says so in its premise. `Events`, where it is a constant, is the set a run
allows; the passing runs of `Channels` and `Confirms` allow all, so that the
properties without a premise (`OpenedIsOpen`, `TagsInOrder`, ...) are checked
with all of them; the passing run of `Consumer` allows noWait, reopen and stale.
`Publishing` and `Registry` always allow all of theirs.

* `Channels`: **shared** – an object asks for the number of another; **gap** – for a
  number below the highest given that no object has (`init` takes it for open, it is
  never opened); **late** – created after a connection ended while older objects
  keep their numbers (`nextChannelNumber` starts from 0 again); **early** –
  `reopen()` while an open is pending; **reset** – `reset()` of an open channel;
  **delete** – an object is deleted (its channel stays open); **dropped** –
  `reset()` of an object with a delayed declare, which forgets it; **again** –
  something is asked of an open channel whose close is not answered (`opened` stays
  true until closeOk); **unopened** – `qos()` or `resume()`, which do not look at
  `opened`, of a channel that is not open; **slot** – `reopen()` in a slot on
  `closed()`; **outlived** – a channel ends after `qos()` (`prefetchCount()` keeps
  its value, the next channel has no limit).
* `Confirms`: **nack**; **zero** – an ack or nack with tag 0 (the code clears all
  tags, also of messages on their way); **reopen** – the channel is reopened while
  tags are counted (the broker starts from 1, the code does not); **offline** –
  `enableConfirms()` while there is no connection (confirm.select is dropped, the
  count starts).
* `Publishing`: **shared** – two exchanges on one channel, if `Shares` lets them;
  **nested** – a frame is sent on the channel of a publish that is not done, from a
  slot that runs in its wait; **closed** – a frame is sent on a channel that is not
  open (`publish` does not look at `opened`); **retuned** – `setFrameMax()` between
  tuneOk and openOk; **offline**, as above; **enabling** – a slot publishes, or the
  connection is lost, in the wait of `enableConfirms`. `NeverRefused` and
  `ReturnedIsStored` are stated without the first four (`Framed`), `TagsAgree`
  without all six.
* `Registry`: **renamed** – `setName()` of a registered object (it stays registered
  under the old name); **displaced** – two queues of one name, of which the second
  had none when it was created and takes the place of the first; **twice** – a queue
  is declared again while the broker's name for it is on its way (the broker makes a
  second queue); **others** – another client or the broker deletes a queue or
  exchange, or one of two queues of a name is removed while the other is declared or
  about to be; **unanswered** – a queue is removed with `roNoWait` (its `declared`
  stays true); **closed** – `remove()`, which does not look at `opened`, on a
  channel the broker has closed.
* `Consumer`: **noWait** – a cancel without an answer (`consuming` stays true until
  the connection is lost); **recancel** – a cancel before the last is answered (the
  second answer may come when another consumer has been asked for, and two consumers
  are left); **retag** – `setConsumerTag()` while consuming (deliveries under the
  old tag are ignored, their header and body are not: they are dropped, or appended
  to the message before, which is enqueued again); **reset** – of an open or
  consuming queue (the broker keeps its consumer); **reopen** – of a channel closed
  while consuming; **stale** – a message is settled on another channel than it came
  on, where its tag may be another's.

## What is checked

All runs say `CHECK_DEADLOCK FALSE`: calls and faults are bounded, and a client
without a connection, with autoReconnect off, really stops.

| Run | Shows |
|---|---|
| `connection` | Safety, no reconnecting slot, 4 calls and 5 faults: `SignalsMatchState`, `RetryOnlyWhileDown`, `RetryWaits`, `HeartbeatAsAgreed`; `Connection` implements `Link` (`ResetBetweenConnections`) |
| `connection_live` | With a reconnecting slot: a pending retry ends in a connection (`RecoveryCompletes`), a close that was sent ends the connection (`CloseCompletes`) |
| `channels` | `isOpen()` not stale, every frame accepted by the broker (`FramesAccepted`: opened once, nothing sent before or after), `prefetchCount()` as agreed, broker's close always answered, each channel opened, a delayed declare sent (`DelayedDeclareCompletes`) unless the connection or the channel ends |
| `channels_shared` | violation: `SharedOpenedOnce` |
| `channels_bind` | violation: `DelayedBindIsDeclared` |
| `confirms` | tags in order; what is taken as delivered was acked; confirms arrive |
| `confirms_lost` | violation: `WaitMeansNoneLost` |
| `publishing` | messages are not mixed and parts not too long (`NeverRefused`); what `publish` returned from is whole at the broker (`ReturnedIsStored`); tags are the broker's numbers (`TagsAgree`); every call of `publish` and `enableConfirms` returns (`CallsReturn`) |
| `registry` | no pointer to a destroyed object (`RegisteredAreAlive`); lookup by name; nothing declared or open without a connection (`NoneStale`); `isDeclared()` is true (`DeclaredExists`); of declare, bind, unbind, purge and remove only `remove()` may end the connection (`OnlyRemoveIsRefused`) |
| `consumer` | `DeliversWhole` (`Consumer` implements `Deliveries`); no second consume (`ConsumeSentOnce`); `isConsuming()` not stale (`ConsumingIsServed`); `AckedWereReceived`; a consume is answered and can be repeated later (`ConsumeCompletes`) |
| `consumer_reopen` | violation: `ReopenedIsServed` |
| `frames` | frames are read one by one as they were sent, in whatever parts they arrive (`FramesInStep`); none within the limit is refused (`WithinIsAccepted`); properties and headers come back as they were, where the wire has room and no two keys become one (`RoundTrip`) |

Every property of a passing run has a mutant: a version of a definition with a
plausible bug, kept next to it in the module (`Mutant:` in its comment), with
which TLC finds the property violated under the run's own configuration (two for
`RetryWaits`, which speaks of two kinds of timers, and for
`DelayedDeclareCompletes`, which a declare may fail in two ways). The type
invariants of `Connection`, `Channels` and `Publishing` are in their modules and in
no run; they are proved.

**Bounds.**

* `connection`: the backoff needs four errors in a row to reach its last step
  and a fifth to stay there, hence `MaxFaults = 5`; four calls give
  setAutoReconnect, connectToHost and two that interfere. One fixed timeout is all
  that guards tell apart, besides the backoff; of heartbeat delays there are 0 and two
  others, so that one may be left from an earlier connection; `MaxOut = 1`
  lets a heartbeat be sent when the queue is empty, more would only repeat it.
  `connection_live` has smaller ones (3 calls, 2 faults): enough for an error, the
  retry, a forced close and its one-shot.
* `channels`: two objects and two numbers are the least with a shared, a skipped
  and a reused number; two connections; two prefetch counts, to have one asked
  for and another agreed; four calls (a create, and three among close, reopen,
  reset, declare, bind, qos, delete, a slot on `closed()` and a close by the broker,
  or two creates and two of them).
* `confirms`: two messages tell a single from a multiple ack, two connections the
  two counts; three calls.
* `publishing`: two exchanges and two messages, one published in the wait of the
  other; bodies of none and of two bytes with frames that hold one (the least,
  `FrameMin = 8`) or two; a loss, and two other calls or closes (enableConfirms and
  one that interferes). `FrameMaxes` has a value below the least one, for what
  `setFrameMax` does with it. `Shares` is FALSE: with a shared channel the safety
  properties say nothing (event shared), and for `CallsReturn` numbers do not matter.
* `registry`: two queues and an exchange, one name given by the user and two by the
  broker; six calls: create and declare two queues of one name, and two more.
* `consumer`: two messages, to have one while another is joined; bodies of no
  frame and of two, the least with a first and a last; two consumer tags, two
  connections, and three calls: a consume, a cancel or a close by either side, and
  a consume or settling after it. The events recancel, retag and reset are off
  there, since `DeliversWhole` does not hold after them.
* `frames`: two headers or properties, so that the second is read right only if the
  first was left at its end; values on both sides of every limit, keys of the
  greatest length, two keys that are one when cut to their bytes, arrays and tables
  nested twice; parts that cut each frame
  somewhere, and all at once; a body that holds bytes like the frame end and a frame
  header; a limit (48) that frames keep to, reach and exceed.

The counterexamples of the violation runs are shorter than their bounds.

**Fairness.** Weak fairness of what Qt's event loop and the other side do by
themselves: received data is read, running timers fire, a closing socket gets
closed, the broker reads what it is sent and, in `Confirms`, acks what it has
stored. Nothing is assumed of the user or of faults; liveness properties are
about a stretch in which neither interferes (`calls` and `faults` unchanged) or
end when the channel is closed. An attempt to connect either is refused, which is
a fault, or made. Weak fairness is enough there: none of these actions is disabled
again and again, except by what ends the premise. In `Publishing` it is not: a
publish goes on when its wait ends, and a reading that begins in the wait takes
the turn from it. The wait has a timeout (`waitForBytesWritten`), so it ends however
often it is interrupted, which is strong fairness of `SendNext`, `Return` and
`StartCounting`; that a slot returns is weak fairness of `StopReading`.

## What is proved

For every value of the constants – any set of timeouts and heartbeat delays, any
exchanges, queues and names, any sizes of bodies and frames, any number of
messages, calls, faults and losses:

| Theorem | Module | States |
|---|---|---|
| `TypeCorrect` | `ConnectionProofs` | `Spec => []TypeOK` |
| `SignalsMatchStateHolds` | `ConnectionProofs` | `Spec => []SignalsMatchState` |
| `RetryWaitsHolds` | `ConnectionProofs` | `Spec => []RetryWaits` |
| `HeartbeatAsAgreedHolds` | `ConnectionProofs` | `Spec => []HeartbeatAsAgreed` |
| `RetryOnlyWhileDownHolds` | `ConnectionProofs` | `~SlotConnects` implies `Spec => []RetryOnlyWhileDown` |
| `ResetBetweenConnectionsHolds` | `ConnectionProofs` | `Spec => L!Spec`: `Connection` implements `Link` |
| `TypeCorrect` | `RegistryProofs` | `Spec => []TypeOK` |
| `RegisteredAreAliveHolds` | `RegistryProofs` | `Spec => []RegisteredAreAlive` |
| `NoneStaleHolds` | `RegistryProofs` | `Spec => []NoneStale` |
| `LookupByNameHolds` | `RegistryProofs` | `Spec => []LookupByName` |
| `OnlyRemoveIsRefusedHolds` | `RegistryProofs` | `Spec => []OnlyRemoveIsRefused` |
| `DeclaredExistsHolds` | `RegistryProofs` | `Spec => []DeclaredExists` |
| `TypeCorrect` | `ConfirmsProofs` | `Spec => []TypeOK` |
| `TagsInOrderHolds` | `ConfirmsProofs` | `Spec => []TagsInOrder` |
| `DeliveredAreAcceptedHolds` | `ConfirmsProofs` | `Spec => []DeliveredAreAccepted` |
| `TypeCorrect` | `ChannelsProofs` | `Spec => []TypeOK` |
| `OpenedIsOpenHolds` | `ChannelsProofs` | `Spec => []OpenedIsOpen` |
| `CloseIsAnsweredHolds` | `ChannelsProofs` | `Spec => []CloseIsAnswered` |
| `OpensWithLinkHolds` | `ChannelsProofs` | `Spec => OpensWithLink` |
| `FramesAcceptedHolds` | `ChannelsProofs` | `Spec => []FramesAccepted` |
| `PrefetchAsAgreedHolds` | `ChannelsProofs` | `Spec => []PrefetchAsAgreed` |
| `TypeCorrect` | `PublishingProofs` | `Spec => []TypeOK` |
| `NeverRefusedHolds` | `PublishingProofs` | `Spec => []NeverRefused` |
| `ReturnedIsStoredHolds` | `PublishingProofs` | `Spec => []ReturnedIsStored` |
| `TagsAgreeHolds` | `PublishingProofs` | `Spec => []TagsAgree` |
| `TypeCorrect` | `ConsumerProofs` | `Spec => []TypeOK` |
| `AckedWereReceivedHolds` | `ConsumerProofs` | `Spec => []AckedWereReceived` |
| `ConsumeSentOnceHolds` | `ConsumerProofs` | `Spec => []ConsumeSentOnce` |
| `ConsumingIsServedHolds` | `ConsumerProofs` | `Spec => []ConsumingIsServed` |
| `DeliversWholeHolds` | `ConsumerProofs` | `Spec /\ []Calm => D!Spec`: `Consumer` implements `Deliveries` |

The argument of `ConnectionProofs`. None of these is inductive. `Inv` is `TypeOK`,
`Sound(client)` and `HandshakeOrder`. `Sound` is what every function of the client
may assume and leaves behind: the agreement of signals and socket, an empty output
when the socket is not connected, and `Delays`, which ties the timeout to the kind
it is (the user's if it is fixed, else 0 or a step of the backoff): `RetryWaits`
needs it because the interval is taken from `timeout` at the error or the forced
close, long after it was set. A connected socket leaves no step of the backoff in
`timeout`, so that a one-shot has the user's interval or 0. `HandshakeOrder` says
which frames may be under way in which phase of the handshake; without it an openOk
could come before tune, and a connected client have a heartbeat timer of an earlier
connection. One lemma per function shows that it leads from `Sound` (or `Closable`,
half way through a close) to `Sound`, one per group of actions that `Inv` is kept.
`HeartbeatAsAgreed` and `RetryOnlyWhileDown` are proved on top of it. The latter
assumes that no slot on `disconnected()` reconnects: with one, `_q_socketError`
starts the timer after the slot has started an attempt, and the run with
`SlotConnects = TRUE` does not check it.

That `Connection` implements `Link`. A handler calls several functions, each of which may
move the connection as `Link` sees it, and together they must make one step of
`Link` or none. `Follows(c, d)` is what a function may do to it: leave it, reset
it, or begin to close it; it is transitive, so that a handler composed of such
functions does one of the three. Between handlers the client is `Settled`: what has
been connected and is not reset has a socket that is being closed, so that openOk,
which needs a connected socket, finds it reset and is an `Up`. Within a handler it
may be `Settling`, with the close of the socket still to come. Each function is
shown to follow and to settle, each group of actions to keep `Settled` and to make
a step of `Link`. It holds with a reconnecting slot too.

The argument of `RegistryProofs`. `Inv` is the types, a little narrower than
`TypeOK` (a declareOk always has a name; an exchange only ever has a name of the
user's and is never connected to `queueDeclared()`), and `Alive` of both
registries. `Alive` is kept because every handler but the destructors leaves the
living alive, what is put is alive, and `Removed` takes out every entry of an
object, under whatever name. The frames the broker answers with are typed by one
lemma per answer, and `Takes` by these. `NoneStale` is not inductive: that the
reset at the end of a connection reaches a queue must have been true long before.
`Reached` says so: unless a queue was displaced, one that lives and is declared, or
had a name when it was made, is in the registry. A queue without one is stored
before `declared` can be seen to be set, since `queueDeclared()` is the first slot on
`declared()`; the only step that may take another's entry is that store, and then it
is `"displaced"`. `NoStaler` covers the steps that change nothing of this.

The other three build on each other. `WireInv` adds what is open at the broker
and on its way for each object (`Wire`: an openOk comes once, before a close, and
an object that says it is open has an open channel or its close coming), hence
`OnlyRemoveIsRefused`. `NamesInv` adds that the declareOks on their way to an object
agree on the name it is going to have, that a queue is stored under the name it
has, and that a live exchange is stored at all. `Told` says of every object what
the answers on their way will make of `declared`: the last of them agrees with the
broker. A queue that is deleted has its deleteOk on its way behind all that, unless
it was removed without one (`unanswered`). Without the answers `DeclaredExists`
cannot be carried over a step, as it speaks only of a moment in which none is left.
The attempt at this proof failed in one case, and rightly: of two queues of one name
one can be removed while the declareOk of the other is on its way, which is then
declared and does not exist. It takes seven calls, more than the run makes; the
event `others` now includes it.

The argument of `ConfirmsProofs`. `IInv` is `Numbered`, which always holds, and
`InStep`, which holds until one of the events. In `Numbered` the messages are
numbered as they were published; `Base` is the number of those that were given no
tag, so that tag `t` stands for message `Base + t`, and the frames on their way have
greater numbers than what the broker has counted. `InStep` ties the two counts
together where they are apart: the confirm.select is before the first message
with a tag (`SelectInPlace`), and what the broker has not counted is on its way
behind it (`NoneMissing`), as long as the channel lives. Each message is then
counted under its tag (`Agreed`), and an ack, of one tag or of several, is about
messages that were accepted (`Truthful`). A lost connection clears both counts, but
not at once: in between nothing is on its way.

The argument of `ChannelsProofs`. `Kept` holds whatever happens. `OpenedIsOpen`
needs what an openOk on its way may say (`OpenOksInTime`: the channel is open, or
the openOk is followed by the end of the channel) and that nothing outlives the
connection (`NothingLeft`). `CloseIsAnswered` needs that a channel in use has an
object whose handler answers (`UsedAreOwned`), and that a number above the counter
is not in use (`UnusedAbove`). `Follows` is what the handlers may do to an object's
record; each frame a handler takes and sends is reasoned about by channel.
`FramesAccepted` needs the whole protocol of a channel: `Protocol` says which
frames may be on their way in each direction, and in which order, for each state
of the broker's end, `Agrees` what `opened` adds to it, and `Distinct` that no two
objects have one number. A step sends or takes at most a frame of a few kinds
for each channel, and `View`, `Adds` and `Drops` reduce what it does to the
sequences to their first and last frames of the kinds that matter, so that
each step comes down to a case of the protocol.

`PrefetchAsAgreed` needs a third invariant, since most of the events that
`FramesAccepted` leaves out may happen: a qos() on a channel that is not open, calls
after a close, an open too many, slots that reopen. What holds then is weaker than
`Protocol` but says more of the prefetch. `Orderly` speaks of one object, its channel
at the broker, and the frames under way of which those of the other channels are
made `Other` (`Of`), so that the frames of one channel can be taken for the whole
sequence. It is a conjunction of four. `Handshake` (module `Handshakes`) says what the
frames that open and close a channel may tell: an end that is open knows of every
open that was answered, a close of the broker is read once and answered once,
behind an open nothing is sent that needs the channel. An end that is open has no
closeOk coming while the broker has the channel open. As long as qos() was not
called nothing of it is anywhere (`Unasked`). And if it was, and the channel is not
about to end (`Ending`), then the last request under way is the last one made
(`LastAsks`), what the broker keeps to is what the answer will make of
`prefetchCount()` or has made of it, and while the broker waits for closeOk it reads
that before any request (`BehindCloseOk`), as it drops those it reads earlier. The
last is what the property alone does not say: a request dropped there would leave
the object with a count it asked for and the broker without. One lemma per kind of
frame and direction shows that `Orderly` is kept; `StepOrderly` that a step on one
channel leaves that of the others alone; `AllOrderly` adds that an object has its
channel to itself and that a channel without object has no limit. A channel that
ends after a qos() (`outlived`) stays outside: `prefetchCount()` is then the old one.

The argument of `PublishingProofs`. `Typed` bounds what the types alone do not: the
tag of an exchange and the count of a channel with the content it puts together,
by the messages of which something was sent. `OpenInv` says when an exchange
takes its channel for open. `Orderly` holds until one of the events. It looks at
the calls of one exchange in the stack: at most the innermost has not begun
(`Alone`), and the first that is not done is the one whose content the broker puts
together, with as many bytes missing as are left to send (`InOrder`). That much
holds under `Framed`. As long as no event has happened (`Calm`) the tags are
`counted` too: the content has the tag the message is going to be counted under, and
what the exchange takes next, `NextTag`, is the broker's next number, where an
`enableConfirms` in its wait stands for the 1 it is going to set. A publish in the
wait of another is on another channel, or begins only when the other one is done:
all else is the event `nested`. While the connection is being made nothing has sent
a frame (`AllMethods`), so that when the channels are opened no call is half way.
The lemmas `PushOwn`, `ReplaceOwn`, `PopOrder` and so on say what a step on the
stack does to this, `OwnFrame` that the next frame is the one expected.

The argument of `ConsumerProofs`. `ConsumerInv` has five parts, of which each of the
others uses the first. `Ordered` is the types with the order of the frames. The type
of the message being read is not inductive by itself, as `leftSize` could go below
0: `Whole` says that on the way the frames of a message follow each other, as many
as the header says, and `Rest` that the ones at the front are those the queue still
expects. `Handshake`, the same as in `ChannelsProofs`, says which frames that open
or close the channel are on their way in each direction. `AcksTraced` follows the
delivery tags: what is held or on its way was numbered by the present channel or an
earlier one (`Fine`), and an ack on its way names, at the broker, a message that the
user has acknowledged (`Owned`); `Later` says how the broker's numbers may move on.
`Phased` says of a queue that has not asked, has asked or consumes which of consume,
consumeOk, deliver, cancel and cancelOk are on their way and which consumers the
broker may have: at most one, and none while a consume is. `AllKept` says what keeps
`isConsuming()` true to the broker: a channel that is open there is open for the
queue, now or soon (`OpenIsKnown`); consumeOk is read before the end of its channel
(`AnswersInTime`); and once it was closed while consuming it stays closed
(`NotReopened`). Each of them is an operator of the values it is about, so that one
lemma says what sending, reading or answering a frame does to it, and the action is
then a case of the lemma.

The fifth, `Intact`, is what the refinement of `Deliveries` needs beyond the others.
`UnderWay`, to which the messages under way are mapped, is the message that is being
joined, completed by the bodies on their way (`Partial`), and then every message
announced on its way with the bodies behind it. `Joined` says that the bodies there
are of the message they follow, `Addressed` that a deliver is for the consumer that
the queue has, or will have when it reads its consumeOk; otherwise the queue drops
a message that `Deliveries` expects it to receive. Then each step is one of
`Deliveries` or a stutter. A body or header that leaves some of the body to come
moves from the frames to the queue what the mapping puts together again, and is a
stutter; the one that completes the message is a `Receive`; a deliver or getOk that
is read moves the message from the second part of the mapping to the first; what
the broker sends is a `Send`; what ends the connection is a `Lose`, also when nothing
was under way. The hypothesis `[]Calm` leaves out the three events after which a
message is dropped: a cancel that is repeated, a tag that is changed while
consuming, and a reset. The run has them off for the same reason.

The assumptions on the constants are those of `ConnectionAssumption` (timeouts are
positive, 0 is one of the heartbeat delays), `RegistryAssumption` (exchanges and
queues are finitely many and different, and the user's names are not those the
broker gives), `ChannelsAssumption` (exchanges and queues are different, prefetch counts
are positive), `ConfirmsAssumption` (the bounds are numbers), `ConsumerAssumption` (no
consumer tag is empty, sizes and bounds are numbers) and
`PublishingAssumption` (also: a frame holds more than its overhead of seven bytes,
and the broker grants the one byte by which `publish` is too long).

Only model-checked: all liveness (the prover has no rules for fairness and
ENABLED here), and what `Fields` and `Frames` say (`FramesInStep`,
`WithinIsAccepted`, `RoundTrip`), which is by recursion over data, for which the
prover has no usable induction. Where the proofs need induction over the length of
a sequence they use that the naturals are well-founded (`LeastElement` in
`SequenceFacts`).

## Disagreements found

Each is a run that fails, and an entry under `findings` in `PROJECT.json`, which
quotes the comment or test.

* `channels_shared`: after a lost connection both objects of a shared channel
  open it, which ends the new connection.
* `channels_bind`: when an attempt fails in the handshake the delayed declare is
  forgotten, the delayed bind is not.
* `confirms_lost`: a lost connection empties the list of tags, which
  `waitForConfirms` takes for success.
* `consumer_reopen`: a close leaves `consuming` set; after `reopen()` consume() is
  refused for a consumer that is gone.

Behaviour met while modelling about which no document speaks, so that there is
no property to hold it against, besides the events above:

* Connection: with `setAutoReconnect(true)` each forced close is followed by an
  attempt at once (`qamqpclient.cpp:512` with the `timeout = 0` of line 182), so
  that a broker that goes on forcing closes is tried without a backoff; a
  `connectToHost()` on a socket that is connecting or still closing is ignored by
  Qt, and nothing connects afterwards; the one-shot reconnect after a forced close
  is not cancelled by `disconnectFromHost()`; `disconnectFromHost()` while
  connecting does nothing; a network error while closeOk is awaited starts the
  reconnect timer; the broker's frame limit counts only where the client has none.
* Channels: objects that share a channel each take, on any qosOk, the count they
  asked for themselves; after a reconnect `prefetchCount()` is that of before.
  `reopen()` in a slot on `closed()`, or any call between `close()` and closeOk,
  sends a frame on a closed channel, which ends the connection.
* Confirms: a nack is logged and leaves its tag in the list; an ack of several tags
  then counts it as delivered, and `waitForConfirms` waits for its whole timeout
  without one.
* Publishing: a body frame may be one byte longer than the limit agreed; the header
  is not held against the limit. `enableConfirms` counts after the wait of its frame
  (`qamqpexchange.cpp:353`–`356`): what a slot publishes in it has no tag, and if
  the connection is lost in it, the tags are counted on a connection without
  confirms.
* Registry: after `remove()` of a queue with its default options, which have
  `roNoWait`, no deleteOk comes: `isDeclared()` stays true and `removed()` is not
  emitted, until the connection ends. Of two queues of one name, one goes on being
  declared when the other is removed; a displaced queue is not reset and goes on
  being declared; a queue that was never named keeps its delayed declare over a lost
  connection.
* Frames: a content header within the limit is refused when the receiver would write
  it longer than it was sent (`qamqpclient.cpp:293`). Two keys of which the same
  bytes are left when they are cut (`qamqpframe.cpp:259`) become one field. Void is
  written with four bytes and read with none; a QVariant of type float (what reading
  a float gives) is written as a key without a field; a key of more than 127 bytes
  reads as empty. After each of these the rest of the table is read out of step.
  Unsigned numbers above the signed limit, the least int, text that is not ASCII and
  doubles that are no floats come back as other values, and the rest in step.

## Not modelled

* Time: a timer that runs may fire at any moment; intervals matter only as values.
* TLS: handshake errors behave as other socket errors. Credentials and connection
  strings, which only change what is sent.
* Slots of the user inside handlers, other than a connectToHost on
  `disconnected()`, a reopen on `closed()`, and those that run in the wait of a
  publish; `waitForConfirms` in a slot.
* Calls of the user during the handshake, in `Channels`, `Confirms`, `Consumer` and
  `Registry`.
* In `Consumer`: consume with noAck or noWait, ack of several tags, several queues
  on a channel (each of them takes every answer and every message of it), a message
  settled twice, and frames that do not add up to the announced size.
* In `Publishing`: a connection that the client closes (a lost one is modelled), and
  the heartbeat timer, which does not run in `waitForBytesWritten`.
* Decimals and timestamps in tables; methods other than their arguments as bytes.
* A declare with NoWait, which is not answered (`declared` stays false and `declared()`
  is not emitted), in `Channels` and `Registry`.
* `reset()` of an exchange in `Confirms`; exchanges without a name in `Channels`; a
  channel that several objects share in `Registry`.
* basic.return, which is only reported; channel.flow of the broker, whose handler
  does nothing; the agreed channelMax, which nothing reads, and `nextChannelNumber`
  beyond 65535.

## Plan

Done: all modules, and proofs of every safety property and refinement that the runs
check but those of `Frames`. What is left:

1. `FramesInStep` of `Frames`. `_q_readyRead` is `ReadyRead`, a recursive function on
   the bytes, and so are the numbers in a frame; that such a function satisfies its
   equation would have to be shown first, from the lengths being well-founded.
2. More of the system under the models that exist: ack of several tags, noAck and
   several queues on a channel in `Consumer`; a setter of the connection, such as
   `setChannelMax`, when the code reads it.
