----------------------------- MODULE Connection -----------------------------
(***************************************************************************)
(* The connection of a QAmqpClient: the socket, the handshake of AMQP      *)
(* 0.9.1, the shutdown from either side, the reconnect timer with its      *)
(* backoff, the one-shot reconnect after a forced close, and the heartbeat *)
(* timer.                                                                  *)
(*                                                                         *)
(* The client is single-threaded: every slot and every public function     *)
(* runs to completion, so each is one action.  The state it works on is    *)
(* the record `client`; a function of the code that others call is an      *)
(* operator from a client record to the record it leaves, so that a        *)
(* handler is the composition of the calls it makes.  `peer` is the        *)
(* broker's end of the current TCP connection (external), and exists only  *)
(* while the socket is connected.                                          *)
(***************************************************************************)
EXTENDS Integers, Sequences, Functions

CONSTANTS
    FixedTimeouts,  \* the timeouts (ms) a user passes to setAutoReconnect
    Heartbeats,     \* the heartbeat delays (s) a user or a broker asks for
    SlotConnects,   \* whether a slot on disconnected() calls connectToHost
    MaxCalls,       \* bound on the user's calls
    MaxFaults,      \* bound on faults, refusals and closes by the broker
    MaxOut          \* bound on the frames a heartbeat may queue behind

ASSUME ConnectionAssumption ==
    /\ FixedTimeouts \subseteq Nat \ {0}
    /\ Heartbeats \subseteq Nat
    /\ 0 \in Heartbeats
    /\ SlotConnects \in BOOLEAN
    /\ MaxCalls \in Nat
    /\ MaxFaults \in Nat
    /\ MaxOut \in Nat

VARIABLES
    client,  \* the fields of QAmqpClientPrivate, its socket and its timers
    peer,    \* the broker's end of the current TCP connection
    calls,   \* number of calls the user has made
    faults   \* number of faults, refusals and closes so far

vars == <<client, peer, calls, faults>>

-----------------------------------------------------------------------------
(* The parts of the state.                                                 *)

\* A timer that is not running; a running one is its interval.
Off == -1

\* QAbstractSocket::state(), the host lookup counted as connecting.
SocketStates == {"Unconnected", "Connecting", "Connected", "Closing"}

\* The values of `timeout` while the user has not fixed it (203-213, 182).
Backoffs == {1000, 5000, 25000, 125000}
Timeouts == {0} \cup Backoffs \cup FixedTimeouts

ClientFrames ==
    {"Header", "StartOk", "TuneOk", "Open", "Close", "CloseOk", "Heartbeat"}

\* No QTimer::singleShot is pending.
NoShots == [t \in Timeouts |-> 0]

\* "StartOther" offers no mechanism the authenticator has, "CloseForced" is
\* connection.close with reply code 320, "CloseError" with any other code,
\* "Malformed" a frame that _q_readyRead refuses.
CloseFrames == {"CloseForced", "CloseError"}
BrokerFrames ==
    {"Start", "StartOther", "Tune", "OpenOk", "CloseOk", "Malformed"}
        \cup CloseFrames

Client ==
    [socket         : SocketStates,
     pendingClose   : BOOLEAN,            \* Qt: close as soon as connected
     connected      : BOOLEAN,
     autoReconnect  : BOOLEAN,
     fixedTimeout   : BOOLEAN,            \* reconnectFixedTimeout
     timeout        : Timeouts,
     reconnectTimer : Timeouts \cup {Off},
     singleShots    : [Timeouts -> Nat],  \* pending QTimer::singleShot, by interval
     heartbeatDelay : Heartbeats,
     heartbeatTimer : Heartbeats,         \* its interval, 0 when it is stopped
     out            : Seq(ClientFrames),  \* written, not yet read by the peer
     \* history: the delay the last tuneOk announced, the last of connected()
     \* and disconnected() emitted, and whether resetChannelState has run
     \* since connected() was
     agreed         : Heartbeats,
     announced      : {"disconnected", "connected"},
     reset          : BOOLEAN]

Phases ==
    {"gone", "header", "startOk", "tuneOk", "open", "running",
     "refused", "closing", "closed"}

Peer == [phase : Phases, offer : Heartbeats, in : Seq(BrokerFrames)]

Gone == [phase |-> "gone", offer |-> 0, in |-> <<>>]

TypeOK ==
    /\ client \in Client
    /\ peer \in Peer
    /\ calls \in 0..MaxCalls
    /\ faults \in 0..MaxFaults

Init ==
    /\ client =
        [socket |-> "Unconnected", pendingClose |-> FALSE, connected |-> FALSE,
         autoReconnect |-> FALSE, fixedTimeout |-> FALSE, timeout |-> 0,
         reconnectTimer |-> Off, singleShots |-> NoShots,
         heartbeatDelay |-> 0, heartbeatTimer |-> 0, out |-> <<>>,
         agreed |-> 0, announced |-> "disconnected", reset |-> TRUE]
    /\ peer = Gone
    /\ calls = 0
    /\ faults = 0

-----------------------------------------------------------------------------
(* The functions the handlers call.  `e` is what the environment decides   *)
(* during a handler: whether Qt could flush what was written when the      *)
(* socket is closed, and whether the user's slot reconnects.               *)

Environment ==
    [flushed : BOOLEAN, slot : IF SlotConnects THEN BOOLEAN ELSE {FALSE}]

SendFrame(c, frame) ==
    IF c.socket = "Connected" THEN [c EXCEPT !.out = Append(@, frame)] ELSE c

\* QAbstractSocket::connectToHost: ignored, with a warning, unless the socket is
\* unconnected.
QtConnectToHost(c) ==
    IF c.socket = "Unconnected"
    THEN [c EXCEPT !.socket = "Connecting", !.pendingClose = FALSE]
    ELSE c

\* Mutant: the exchanges and queues are reset only if isConnected().
SocketDisconnectedResetsConnected(c, slot) ==
    LET d == [c EXCEPT !.connected = FALSE, !.announced = "disconnected",
                       !.reset = @ \/ c.connected]
    IN  IF slot THEN QtConnectToHost([d EXCEPT !.reconnectTimer = Off]) ELSE d

\* _q_socketDisconnected, run by the signal disconnected() of a socket that
\* is already unconnected, and then the user's slot.
SocketDisconnected(c, slot) ==
    LET d == [c EXCEPT !.connected = FALSE, !.announced = "disconnected", !.reset = TRUE]
    IN  IF slot THEN QtConnectToHost([d EXCEPT !.reconnectTimer = Off]) ELSE d

\* QAbstractSocket::disconnectFromHost: at once when all is written, later
\* when it is not, and after the connection is made when it is being made.
QtDisconnectFromHost(c, e) ==
    CASE c.socket = "Connecting" -> [c EXCEPT !.pendingClose = TRUE]
      [] c.socket = "Connected" /\ e.flushed ->
            SocketDisconnected(
                [c EXCEPT !.socket = "Unconnected", !.out = <<>>], e.slot)
      [] c.socket = "Connected" /\ ~e.flushed ->
            [c EXCEPT !.socket = "Closing", !.out = <<>>]
      [] OTHER -> c

\* Mutant: isConnected() is left to the slot of the socket.
closeConnectionKeepsConnected(c, e) ==
    QtDisconnectFromHost(
        [c EXCEPT !.reconnectTimer = Off, !.heartbeatTimer = 0], e)

closeConnection(c, e) ==
    QtDisconnectFromHost(
        [c EXCEPT !.connected = FALSE, !.reconnectTimer = Off,
                  !.heartbeatTimer = 0], e)

_q_disconnect(c) ==
    LET d == [c EXCEPT !.reconnectTimer = Off]
    IN  IF c.socket = "Unconnected" THEN d ELSE SendFrame(d, "Close")

\* Mutant: the timer is stopped only when there is something to close.
_q_connectKeepsTimer(c, e) ==
    QtConnectToHost(IF c.socket = "Unconnected" THEN c
                    ELSE closeConnection(_q_disconnect(c), e))

_q_connect(c, e) ==
    LET d == [c EXCEPT !.reconnectTimer = Off]
    IN  QtConnectToHost(IF c.socket = "Unconnected" THEN d
                        ELSE closeConnection(_q_disconnect(d), e))

\* The backoff of _q_socketError: 1000, then times 5 while below 120000.
Backoff(c) ==
    CASE ~c.fixedTimeout /\ c.timeout <= 0 -> 1000
      [] ~c.fixedTimeout /\ 0 < c.timeout /\ c.timeout < 120000 -> c.timeout * 5
      [] OTHER -> c.timeout

\* QAbstractSocket::abort of a connected or connecting socket; disconnected()
\* is emitted only if the connection was made.
QtAbort(c, slot) ==
    LET d == [c EXCEPT !.socket = "Unconnected", !.out = <<>>]
    IN  CASE c.socket = "Connected"  -> SocketDisconnected(d, slot)
          [] c.socket = "Connecting" -> d
          [] OTHER                   -> c

_q_socketError(c, e) ==
    LET d == QtAbort([c EXCEPT !.timeout = Backoff(c)], e.slot)
    IN  IF d.autoReconnect THEN [d EXCEPT !.reconnectTimer = d.timeout] ELSE d

-----------------------------------------------------------------------------
(* Calls of the user.                                                      *)

\* The handler has left the client as c: a TCP connection that is no longer
\* connected takes the broker's end, and what it had sent, with it.
Become(c) ==
    /\ client' = c
    /\ peer' = IF c.socket = "Connected" THEN peer ELSE Gone

UserCall == calls < MaxCalls /\ calls' = calls + 1 /\ UNCHANGED faults

ConnectToHost ==
    /\ UserCall
    /\ \E e \in Environment : Become(_q_connect(client, e))

DisconnectFromHost ==
    /\ UserCall
    /\ Become(_q_disconnect(client))

AbortConnection ==
    /\ UserCall
    /\ \E e \in Environment : Become(closeConnection(client, e))

\* Mutant: any timeout given is taken as fixed, zero too.
SetAutoReconnectZero ==
    /\ UserCall
    /\ \E value \in BOOLEAN, timeout \in FixedTimeouts \cup {0} :
          Become([client EXCEPT !.autoReconnect = value,
                                !.fixedTimeout = value,
                                !.timeout = IF value THEN timeout ELSE 0])

\* timeout = 0 stands for the calls that do not fix the timeout.
SetAutoReconnect ==
    /\ UserCall
    /\ \E value \in BOOLEAN, timeout \in FixedTimeouts \cup {0} :
          LET fixed == value /\ timeout > 0
          IN  Become([client EXCEPT !.autoReconnect = value,
                                    !.fixedTimeout = fixed,
                                    !.timeout = IF fixed THEN timeout ELSE 0])

SetHeartbeatDelay ==
    /\ UserCall
    /\ ~client.connected
    /\ \E delay \in Heartbeats :
          Become([client EXCEPT !.heartbeatDelay = delay])

-----------------------------------------------------------------------------
(* Signals of the socket and of the timers.                                *)

Fault == faults < MaxFaults /\ faults' = faults + 1 /\ UNCHANGED calls
NoFault == UNCHANGED <<calls, faults>>

\* Mutant: the backoff of earlier attempts is kept.
SocketConnectedKeepsTimeout ==
    /\ client.socket = "Connecting"
    /\ \E e \in Environment, offer \in Heartbeats :
          LET c == [client EXCEPT !.socket = "Connected", !.reconnectTimer = Off,
                        !.out = <<"Header">>]
              d == IF client.pendingClose
                   THEN QtDisconnectFromHost([c EXCEPT !.pendingClose = FALSE], e)
                   ELSE c
          IN  /\ client' = d
              /\ peer' = IF d.socket = "Connected"
                         THEN [phase |-> "header", offer |-> offer, in |-> <<>>]
                         ELSE Gone
    /\ NoFault

\* _q_socketConnected; Qt then closes a connection whose close is pending.
SocketConnected ==
    /\ client.socket = "Connecting"
    /\ \E e \in Environment, offer \in Heartbeats :
          LET c == [client EXCEPT !.socket = "Connected", !.reconnectTimer = Off,
                        !.timeout = IF client.fixedTimeout THEN @ ELSE 0,
                        !.out = <<"Header">>]
              d == IF client.pendingClose
                   THEN QtDisconnectFromHost([c EXCEPT !.pendingClose = FALSE], e)
                   ELSE c
          IN  /\ client' = d
              /\ peer' = IF d.socket = "Connected"
                         THEN [phase |-> "header", offer |-> offer, in |-> <<>>]
                         ELSE Gone
    /\ NoFault

\* The connection cannot be made: Qt reports it with the socket unconnected.
ConnectRefused ==
    /\ client.socket = "Connecting"
    /\ \E e \in Environment :
          Become(_q_socketError([client EXCEPT !.socket = "Unconnected"], e))
    /\ Fault

\* The remote host closes the connection, or the network fails.
ConnectionLost ==
    /\ client.socket = "Connected"
    /\ \E e \in Environment : Become(_q_socketError(client, e))
    /\ Fault

\* What was pending is written and the socket is closed.
CloseFinished ==
    /\ client.socket = "Closing"
    /\ \E e \in Environment :
          Become(SocketDisconnected([client EXCEPT !.socket = "Unconnected"], e.slot))
    /\ NoFault

\* Writing what was pending fails: Qt reports the error, then aborts.
CloseFailed ==
    /\ client.socket = "Closing"
    /\ \E e \in Environment :
          Become(SocketDisconnected(
              [_q_socketError(client, e) EXCEPT !.socket = "Unconnected"], e.slot))
    /\ Fault

ReconnectTimeout ==
    /\ client.reconnectTimer # Off
    /\ \E e \in Environment :
          Become(_q_connect([client EXCEPT !.reconnectTimer = Off], e))
    /\ NoFault

SingleShotTimeout ==
    /\ \E t \in Timeouts, e \in Environment :
          /\ client.singleShots[t] > 0
          /\ Become(_q_connect([client EXCEPT !.singleShots[t] = @ - 1], e))
    /\ NoFault

HeartbeatTimeout ==
    /\ client.heartbeatTimer # 0
    /\ client.socket = "Connected"
    /\ Len(client.out) < MaxOut
    /\ Become(SendFrame(client, "Heartbeat"))
    /\ NoFault

-----------------------------------------------------------------------------
(* _q_readyRead and the methods of the class connection.                   *)

\* Reading is off once the socket is closing.
Receive(frame, c) ==
    /\ client.socket = "Connected"
    /\ peer.in # <<>>
    /\ Head(peer.in) = frame
    /\ client' = c
    /\ peer' = IF c.socket = "Connected" THEN [peer EXCEPT !.in = Tail(@)] ELSE Gone
    /\ NoFault

ReceiveStart == Receive("Start", SendFrame(client, "StartOk"))

ReceiveStartOther ==
    \E e \in Environment : Receive("StartOther", QtDisconnectFromHost(client, e))

\* Mutant: a timer that an earlier connection left running is not stopped.
ReceiveTuneNeverStops ==
    LET delay == IF client.heartbeatDelay = 0 THEN peer.offer
                 ELSE client.heartbeatDelay
        c == [client EXCEPT !.heartbeatDelay = delay,
                            !.heartbeatTimer = IF delay # 0 THEN delay ELSE @,
                            !.agreed = delay]
    IN  Receive("Tune", SendFrame(SendFrame(c, "TuneOk"), "Open"))

\* Mutant: open() is forgotten once the connection is tuned.
ReceiveTuneWithoutOpen ==
    LET delay == IF client.heartbeatDelay = 0 THEN peer.offer
                 ELSE client.heartbeatDelay
        c == [client EXCEPT !.heartbeatDelay = delay,
                            !.heartbeatTimer = delay,
                            !.agreed = delay]
    IN  Receive("Tune", SendFrame(c, "TuneOk"))

\* The delay of the client, or the broker's when the client has none.
ReceiveTune ==
    LET delay == IF client.heartbeatDelay = 0 THEN peer.offer
                 ELSE client.heartbeatDelay
        c == [client EXCEPT !.heartbeatDelay = delay,
                            !.heartbeatTimer = delay,
                            !.agreed = delay]
    IN  Receive("Tune", SendFrame(SendFrame(c, "TuneOk"), "Open"))

ReceiveOpenOk ==
    Receive("OpenOk", [client EXCEPT !.connected = TRUE, !.announced = "connected",
                                     !.reset = FALSE])

\* Mutant: closeOk only marks the connection as closed.
ReceiveCloseOkKeepsSocket ==
    Receive("CloseOk", [client EXCEPT !.connected = FALSE])

ReceiveCloseOk ==
    \E e \in Environment : Receive("CloseOk", closeConnection(client, e))

\* Reply code 320: as if closeOk had come, and a reconnect of its own after
\* `timeout`, which is 0 unless the user has fixed it.
ReceiveCloseForced ==
    \E e \in Environment :
        LET c == closeConnection(client, e)
        IN  Receive("CloseForced",
                    IF c.autoReconnect THEN [c EXCEPT !.singleShots[c.timeout] = @ + 1]
                    ELSE c)

\* Any other code: disconnected() is emitted, and its slot runs, before
\* closeOk is sent and the connection closed.
ReceiveCloseError ==
    \E e \in Environment :
        LET quiet == [e EXCEPT !.slot = FALSE]
            c == [client EXCEPT !.connected = FALSE, !.announced = "disconnected"]
            d == IF e.slot THEN _q_connect(c, quiet) ELSE c
        IN  Receive("CloseError", closeConnection(SendFrame(d, "CloseOk"), quiet))

\* A frame that is refused: close is sent and reading goes on.
ReceiveMalformed == Receive("Malformed", SendFrame(client, "Close"))

-----------------------------------------------------------------------------
(* The broker (external).                                                  *)

Says(frames, phase) == [peer EXCEPT !.in = @ \o frames, !.phase = phase]

\* What the broker does with a frame; one it does not expect is ignored.
Answer(frame) ==
    CASE frame = "Header"  /\ peer.phase = "header"  -> Says(<<"Start">>, "startOk")
      [] frame = "StartOk" /\ peer.phase = "startOk" -> Says(<<"Tune">>, "tuneOk")
      [] frame = "TuneOk"  /\ peer.phase = "tuneOk"  -> Says(<<>>, "open")
      [] frame = "Open"    /\ peer.phase = "open"    -> Says(<<"OpenOk">>, "running")
      [] frame = "Close"   /\ peer.phase # "closed"  -> Says(<<"CloseOk">>, "closed")
      [] frame = "CloseOk" /\ peer.phase = "closing" -> Says(<<>>, "closed")
      [] OTHER -> peer

BrokerReads ==
    /\ client.socket = "Connected"
    /\ client.out # <<>>
    /\ client' = [client EXCEPT !.out = Tail(@)]
    /\ peer' = Answer(Head(client.out))
    /\ NoFault

\* The broker offers only mechanisms the client has no authenticator for.
BrokerOffersOther ==
    /\ client.socket = "Connected"
    /\ peer.phase = "header"
    /\ client.out # <<>>
    /\ client' = [client EXCEPT !.out = Tail(@)]
    /\ peer' = Says(<<"StartOther">>, "refused")
    /\ Fault

BrokerCloses ==
    /\ peer.phase \in {"startOk", "tuneOk", "open", "running"}
    /\ \E frame \in CloseFrames : peer' = Says(<<frame>>, "closing")
    /\ Fault
    /\ UNCHANGED client

BrokerSendsMalformed ==
    /\ peer.phase \in {"startOk", "tuneOk", "open", "running"}
    /\ peer' = Says(<<"Malformed">>, peer.phase)
    /\ Fault
    /\ UNCHANGED client

-----------------------------------------------------------------------------
User ==
    \/ ConnectToHost \/ DisconnectFromHost \/ AbortConnection
    \/ SetAutoReconnect \/ SetHeartbeatDelay

Reading ==
    \/ ReceiveStart \/ ReceiveStartOther \/ ReceiveTune \/ ReceiveOpenOk
    \/ ReceiveCloseOk \/ ReceiveCloseForced \/ ReceiveCloseError
    \/ ReceiveMalformed

Timers == ReconnectTimeout \/ SingleShotTimeout \/ HeartbeatTimeout

Network == SocketConnected \/ ConnectRefused \/ ConnectionLost
           \/ CloseFinished \/ CloseFailed

Broker == BrokerReads \/ BrokerOffersOther \/ BrokerCloses \/ BrokerSendsMalformed

Next == User \/ Reading \/ Timers \/ Network \/ Broker

Spec == Init /\ [][Next]_vars

\* Qt's event loop delivers what is pending, a running timer fires, the
\* network carries on and the broker reads what it is sent.  Nothing is
\* assumed of the user, of faults or of heartbeats.
Fairness ==
    /\ WF_vars(Reading)
    /\ WF_vars(ReconnectTimeout)
    /\ WF_vars(SingleShotTimeout)
    /\ WF_vars(SocketConnected)
    /\ WF_vars(CloseFinished)
    /\ WF_vars(BrokerReads)

FairSpec == Spec /\ Fairness

-----------------------------------------------------------------------------
(* What the exchanges and queues see of the connection.                    *)

LinkState ==
    IF client.connected THEN "up" ELSE IF client.reset THEN "down" ELSE "closing"

L == INSTANCE Link WITH link <- LinkState, announced <- client.announced

-----------------------------------------------------------------------------
(* Properties.                                                             *)

\* What isConnected() says, what the user was last told and the socket agree:
\* a client that says it is connected has a live socket and has announced it,
\* and a connection that was announced is never lost without disconnected()
\* being emitted, at the latest when the closing socket is closed.
SignalsMatchState ==
    /\ client.connected => client.socket = "Connected" /\ client.announced = "connected"
    /\ client.announced = "connected" /\ ~client.connected => client.socket = "Closing"

\* Whatever the user, the broker and the network do, the exchanges and queues
\* are reset between one connected() and the next, and are told of a loss at
\* the latest with the reset: no path of the four that end a connection skips
\* it, and no connection is made on one that is not closed yet.
ResetBetweenConnections == L!Spec

\* The reconnect timer never runs beside a connection attempt or a connection,
\* which it would tear down when it fires (_q_connect closes what is open).
RetryOnlyWhileDown ==
    client.reconnectTimer # Off => client.socket = "Unconnected"

\* After an error the reconnect waits for the user's timeout or for one of the
\* four steps of the backoff: never zero, which would be a busy loop of
\* attempts.  The one after a forced close waits for the user's timeout or not
\* at all: never for a step of the backoff that an earlier failure left.
RetryWaits ==
    /\ client.reconnectTimer # Off => client.reconnectTimer \in FixedTimeouts \cup Backoffs
    /\ \A t \in Timeouts : client.singleShots[t] > 0 => t \in FixedTimeouts \cup {0}

\* While connected, the heartbeat timer runs with the delay that tuneOk
\* announced to this broker, and not at all if that is zero, whatever an
\* earlier connection left running.
HeartbeatAsAgreed == client.connected => client.heartbeatTimer = client.agreed

\* A client waiting to reconnect gets a connection, unless the user calls
\* again or another fault, refusal or close comes in between.
RecoveryCompletes ==
    \A n \in 0..MaxCalls, m \in 0..MaxFaults :
        (/\ client.socket = "Unconnected"
         /\ \/ client.reconnectTimer # Off /\ client.singleShots = NoShots
            \/ /\ client.reconnectTimer = Off
               /\ \E t \in Timeouts : client.singleShots = [NoShots EXCEPT ![t] = 1]
         /\ calls = n /\ faults = m)
        ~> (client.connected \/ calls # n \/ faults # m)

\* A close that was sent, by disconnectFromHost or for a malformed frame, ends
\* the connection, whatever frames of the handshake cross it.
CloseCompletes ==
    \A n \in 0..MaxCalls, m \in 0..MaxFaults :
        (client.socket = "Connected" /\ "Close" \in Range(client.out)
            /\ calls = n /\ faults = m)
        ~> (client.socket # "Connected" \/ calls # n \/ faults # m)

=============================================================================
