-------------------------- MODULE ConnectionProofs --------------------------
(***************************************************************************)
(* Theorems about Connection, for every value of its constants, and that   *)
(* it implements Link.                                                     *)
(***************************************************************************)
EXTENDS Connection, SequenceTheorems, TLAPS

\* What the timeout and the pending reconnects are: the user's timeout when it
\* is fixed, a step of the backoff or 0 when it is not.  An error, which starts
\* the timer, leaves no 0 in the timeout.
Delays(c) ==
    /\ IF c.fixedTimeout THEN c.timeout \in FixedTimeouts
                         ELSE c.timeout \in {0} \cup Backoffs
    /\ c.reconnectTimer # Off => c.reconnectTimer \in FixedTimeouts \cup Backoffs
    /\ \A t \in Timeouts : c.singleShots[t] > 0 => t \in {0} \cup FixedTimeouts

\* What a handler may assume of a client record and must leave behind.  A
\* connection that is made leaves no step of the backoff in the timeout, and so
\* starts no shot with one.
Sound(c) ==
    /\ c \in Client
    /\ c.connected => c.socket = "Connected" /\ c.announced = "connected"
    /\ c.announced = "connected" /\ ~c.connected => c.socket = "Closing"
    /\ c.socket # "Connected" => c.out = <<>>
    /\ c.socket = "Connected" => c.timeout \in {0} \cup FixedTimeouts
    /\ Delays(c)

\* A client about to close its socket: isConnected() is already false.
Closable(c) ==
    /\ c \in Client
    /\ ~c.connected
    /\ c.announced = "connected" => c.socket \in {"Connected", "Closing"}
    /\ c.socket # "Connected" => c.out = <<>>
    /\ Delays(c)

\* A socket just closed: nothing is assumed of what was announced before.
Reportable(c) ==
    /\ c \in Client
    /\ c.socket = "Unconnected"
    /\ c.out = <<>>
    /\ Delays(c)

-----------------------------------------------------------------------------
(* Lemmas on the functions the handlers call.                              *)

LEMMA NoFrames == <<>> \in Seq(ClientFrames)
  OBVIOUS

LEMMA SendFrameSound ==
    ASSUME NEW c, Sound(c), NEW frame \in ClientFrames
    PROVE  /\ Sound(SendFrame(c, frame))
           /\ SendFrame(c, frame).socket = c.socket
           /\ SendFrame(c, frame).reconnectTimer = c.reconnectTimer
<1>1. CASE c.socket = "Connected"
  <2> DEFINE d == [c EXCEPT !.out = Append(c.out, frame)]
  <2>1. Append(c.out, frame) \in Seq(ClientFrames)
    BY DEF Sound, Client
  <2>2. d \in Client
    BY <2>1 DEF Sound, Client
  <2>3. Sound(d) /\ d.socket = c.socket /\ d.reconnectTimer = c.reconnectTimer
    BY <1>1, <2>2 DEF Sound, Delays, Client
  <2>4. SendFrame(c, frame) = d
    BY <1>1 DEF SendFrame
  <2> HIDE DEF d
  <2>5. QED
    BY <2>3, <2>4
<1>2. CASE c.socket # "Connected"
  BY <1>2 DEF SendFrame
<1>3. QED
  BY <1>1, <1>2

LEMMA QtConnectToHostSound ==
    ASSUME NEW c, Sound(c)
    PROVE  /\ Sound(QtConnectToHost(c))
           /\ QtConnectToHost(c).reconnectTimer = c.reconnectTimer
           /\ c.socket # "Connected" => QtConnectToHost(c).socket # "Connected"
  BY DEF Sound, Delays, QtConnectToHost, Client, SocketStates

LEMMA SocketDisconnectedSound ==
    ASSUME NEW c, Reportable(c), NEW slot \in BOOLEAN
    PROVE  /\ Sound(SocketDisconnected(c, slot))
           /\ SocketDisconnected(c, slot).socket # "Connected"
           /\ slot => SocketDisconnected(c, slot).reconnectTimer = Off
           /\ ~slot => /\ SocketDisconnected(c, slot).socket = "Unconnected"
                       /\ SocketDisconnected(c, slot).reconnectTimer = c.reconnectTimer
                       /\ SocketDisconnected(c, slot).autoReconnect = c.autoReconnect
           /\ SocketDisconnected(c, slot).timeout = c.timeout
           /\ SocketDisconnected(c, slot).fixedTimeout = c.fixedTimeout
<1> DEFINE d == [c EXCEPT !.connected = FALSE, !.announced = "disconnected", !.reset = TRUE]
           q == [d EXCEPT !.reconnectTimer = Off]
<1>1. /\ Sound(d)
      /\ d.socket = "Unconnected"
      /\ d.reconnectTimer = c.reconnectTimer
      /\ d.autoReconnect = c.autoReconnect
      /\ d.timeout = c.timeout
      /\ d.fixedTimeout = c.fixedTimeout
  BY DEF Reportable, Sound, Delays, Client
<1>2. /\ Sound(q)
      /\ q.reconnectTimer = Off
      /\ q.socket = "Unconnected"
      /\ q.timeout = c.timeout
      /\ q.fixedTimeout = c.fixedTimeout
  BY <1>1 DEF Sound, Delays, Client, Off
<1>3. Sound(QtConnectToHost(q)) /\ QtConnectToHost(q).reconnectTimer = Off
  BY <1>2, QtConnectToHostSound
<1>4. /\ QtConnectToHost(q).socket = "Connecting"
      /\ QtConnectToHost(q).timeout = c.timeout
      /\ QtConnectToHost(q).fixedTimeout = c.fixedTimeout
  BY <1>2 DEF QtConnectToHost, Sound, Client
<1>5. SocketDisconnected(c, slot) = IF slot THEN QtConnectToHost(q) ELSE d
  BY DEF SocketDisconnected
<1> HIDE DEF d, q
<1>6. QED
  BY <1>1, <1>3, <1>4, <1>5

LEMMA EnvironmentSlot ==
    ASSUME NEW e \in Environment
    PROVE  e.flushed \in BOOLEAN /\ e.slot \in BOOLEAN /\ (~SlotConnects => ~e.slot)
  BY ConnectionAssumption DEF Environment, ConnectionAssumption

LEMMA QtDisconnectFromHostSound ==
    ASSUME NEW c, Closable(c), NEW e \in Environment
    PROVE  /\ Sound(QtDisconnectFromHost(c, e))
           /\ QtDisconnectFromHost(c, e).socket # "Connected"
           /\ c.reconnectTimer = Off => QtDisconnectFromHost(c, e).reconnectTimer = Off
           /\ QtDisconnectFromHost(c, e).timeout = c.timeout
<1> DEFINE d == [c EXCEPT !.socket = "Unconnected", !.out = <<>>]
<1>1. e.flushed \in BOOLEAN /\ e.slot \in BOOLEAN
  BY EnvironmentSlot
<1>2. CASE c.socket = "Connected" /\ e.flushed
  <2>1. Reportable(d) /\ d.reconnectTimer = c.reconnectTimer /\ d.timeout = c.timeout
    BY <1>2, NoFrames DEF Closable, Reportable, Delays, Client, SocketStates
  <2>2. QtDisconnectFromHost(c, e) = SocketDisconnected(d, e.slot)
    BY <1>2 DEF QtDisconnectFromHost
  <2> HIDE DEF d
  <2>3. QED
    BY <1>1, <2>1, <2>2, SocketDisconnectedSound
<1>3. CASE ~(c.socket = "Connected" /\ e.flushed)
  BY <1>1, <1>3, NoFrames DEF Closable, Sound, Delays, QtDisconnectFromHost, Client, SocketStates
<1>4. QED
  BY <1>2, <1>3

LEMMA AboutToClose ==
    ASSUME NEW c, Sound(c), NEW d,
           d = [c EXCEPT !.connected = FALSE, !.reconnectTimer = Off,
                         !.heartbeatTimer = 0]
    PROVE  Closable(d) /\ d.reconnectTimer = Off /\ d.timeout = c.timeout
<1>1. d \in Client /\ c \in Client
  BY ConnectionAssumption DEF ConnectionAssumption, Sound, Client
<1>2. /\ d.fixedTimeout = c.fixedTimeout /\ d.timeout = c.timeout
      /\ d.singleShots = c.singleShots /\ d.socket = c.socket /\ d.out = c.out
      /\ d.announced = c.announced /\ ~d.connected /\ d.reconnectTimer = Off
  BY <1>1 DEF Client
<1>3. QED
  BY <1>1, <1>2 DEF Sound, Closable, Delays, Client

LEMMA closeConnectionSound ==
    ASSUME NEW c, Sound(c), NEW e \in Environment
    PROVE  /\ Sound(closeConnection(c, e))
           /\ closeConnection(c, e).socket # "Connected"
           /\ closeConnection(c, e).reconnectTimer = Off
           /\ closeConnection(c, e).timeout = c.timeout
<1> DEFINE d == [c EXCEPT !.connected = FALSE, !.reconnectTimer = Off,
                          !.heartbeatTimer = 0]
<1>1. Closable(d) /\ d.reconnectTimer = Off /\ d.timeout = c.timeout
  BY AboutToClose
<1>2. closeConnection(c, e) = QtDisconnectFromHost(d, e)
  BY DEF closeConnection
<1> HIDE DEF d
<1>3. QED
  BY <1>1, <1>2, QtDisconnectFromHostSound

LEMMA DisconnectSound ==
    ASSUME NEW c, Sound(c)
    PROVE  /\ Sound(_q_disconnect(c))
           /\ _q_disconnect(c).socket = c.socket
           /\ _q_disconnect(c).reconnectTimer = Off
<1> DEFINE d == [c EXCEPT !.reconnectTimer = Off]
<1>1. Sound(d) /\ d.reconnectTimer = Off /\ d.socket = c.socket
  BY DEF Sound, Delays, Client, Off
<1>2. _q_disconnect(c) = IF c.socket = "Unconnected" THEN d ELSE SendFrame(d, "Close")
  BY DEF _q_disconnect
<1>3. "Close" \in ClientFrames
  BY DEF ClientFrames
<1> HIDE DEF d
<1>4. QED
  BY <1>1, <1>2, <1>3, SendFrameSound

LEMMA ConnectSound ==
    ASSUME NEW c, Sound(c), NEW e \in Environment
    PROVE  /\ Sound(_q_connect(c, e))
           /\ _q_connect(c, e).socket # "Connected"
           /\ _q_connect(c, e).reconnectTimer = Off
<1> DEFINE d == [c EXCEPT !.reconnectTimer = Off]
           q == IF c.socket = "Unconnected" THEN d
                ELSE closeConnection(_q_disconnect(d), e)
<1>1. Sound(d) /\ d.reconnectTimer = Off /\ d.socket = c.socket
  BY DEF Sound, Delays, Client, Off
<1>2. Sound(_q_disconnect(d))
  BY <1>1, DisconnectSound
<1>3. Sound(q) /\ q.socket # "Connected" /\ q.reconnectTimer = Off
  BY <1>1, <1>2, closeConnectionSound
<1>4. _q_connect(c, e) = QtConnectToHost(q)
  BY DEF _q_connect
<1> HIDE DEF q
<1>5. QED
  BY <1>3, <1>4, QtConnectToHostSound

\* The backoff stays among its steps: 1000, 5000, 25000, and 125000 for ever.
LEMMA BackoffSteps ==
    ASSUME NEW c \in Client, Delays(c)
    PROVE  /\ c.fixedTimeout => Backoff(c) \in FixedTimeouts
           /\ ~c.fixedTimeout => Backoff(c) \in Backoffs
  BY DEF Backoff, Backoffs, Delays, Client

\* A shot fires, or is started by a forced close: no shot waits for a step of
\* the backoff, and nothing else changes.
LEMMA ShotFired ==
    ASSUME NEW c, Sound(c), NEW t \in Timeouts, c.singleShots[t] > 0,
           NEW d, d = [c EXCEPT !.singleShots[t] = @ - 1]
    PROVE  /\ Sound(d)
           /\ d.connected = c.connected /\ d.announced = c.announced
           /\ d.reset = c.reset /\ d.socket = c.socket
<1>1. c.singleShots \in [Timeouts -> Nat] /\ c \in Client
  BY DEF Sound, Client
<1> DEFINE shots == [c.singleShots EXCEPT ![t] = @ - 1]
<1>2. shots \in [Timeouts -> Nat]
  BY <1>1
<1>3. \A u \in Timeouts : shots[u] > 0 => c.singleShots[u] > 0
  BY <1>1
<1>4. d = [c EXCEPT !.singleShots = shots]
  OBVIOUS
<1> HIDE DEF shots
<1>5. d \in Client
  BY <1>1, <1>2, <1>4 DEF Client
<1>6. d.singleShots = shots
  BY <1>1, <1>4 DEF Client
<1>7. QED
  BY <1>1, <1>3, <1>4, <1>5, <1>6 DEF Sound, Delays, Client

LEMMA ShotStarted ==
    ASSUME NEW c, Sound(c), c.timeout \in {0} \cup FixedTimeouts,
           NEW d, d = [c EXCEPT !.singleShots[c.timeout] = @ + 1]
    PROVE  /\ Sound(d)
           /\ d.connected = c.connected /\ d.announced = c.announced
           /\ d.reset = c.reset /\ d.socket = c.socket
           /\ d.reconnectTimer = c.reconnectTimer
<1>1. /\ c.singleShots \in [Timeouts -> Nat] /\ c \in Client
      /\ c.timeout \in Timeouts
  BY DEF Sound, Client
<1> DEFINE shots == [c.singleShots EXCEPT ![c.timeout] = @ + 1]
<1>2. shots \in [Timeouts -> Nat]
  BY <1>1
<1>3. \A u \in Timeouts : shots[u] > 0 => c.singleShots[u] > 0 \/ u = c.timeout
  BY <1>1
<1>4. d = [c EXCEPT !.singleShots = shots]
  OBVIOUS
<1> HIDE DEF shots
<1>5. d \in Client
  BY <1>1, <1>2, <1>4 DEF Client
<1>6. d.singleShots = shots
  BY <1>1, <1>4 DEF Client
<1>7. QED
  BY <1>1, <1>3, <1>4, <1>5, <1>6 DEF Sound, Delays, Client

LEMMA SocketErrorSound ==
    ASSUME NEW c, Sound(c), NEW e \in Environment
    PROVE  /\ Sound(_q_socketError(c, e))
           /\ _q_socketError(c, e).socket # "Connected"
           /\ ~e.slot /\ c.socket # "Closing" => _q_socketError(c, e).socket = "Unconnected"
<1> DEFINE b == [c EXCEPT !.timeout = Backoff(c)]
           a == [b EXCEPT !.socket = "Unconnected", !.out = <<>>]
           d == QtAbort(b, e.slot)
<1>1. e.slot \in BOOLEAN
  BY EnvironmentSlot
<1>2. /\ b.socket # "Connected" => Sound(b)
      /\ b \in Client /\ Delays(b)
      /\ b.timeout \in FixedTimeouts \cup Backoffs
      /\ b.socket = c.socket
  <2>1. /\ c.fixedTimeout => Backoff(c) \in FixedTimeouts
        /\ ~c.fixedTimeout => Backoff(c) \in Backoffs
    BY BackoffSteps DEF Sound
  <2>2. QED
    BY <2>1 DEF Sound, Delays, Client, Timeouts
<1>3. /\ Sound(d)
      /\ d.timeout = b.timeout
      /\ d.socket # "Connected"
      /\ ~e.slot /\ c.socket # "Closing" => d.socket = "Unconnected"
  <2>1. CASE b.socket = "Connected"
    <3>1. d = SocketDisconnected(a, e.slot)
      BY <2>1 DEF QtAbort
    <3> HIDE DEF b, d
    <3>2. Reportable(a) /\ a.timeout = b.timeout
      BY <1>2, NoFrames DEF Sound, Reportable, Delays, Client, SocketStates
    <3> HIDE DEF a
    <3>3. QED
      BY <1>1, <3>1, <3>2, SocketDisconnectedSound
  <2>2. CASE b.socket = "Connecting"
    <3>1. d = a
      BY <2>2 DEF QtAbort
    <3> HIDE DEF b, d
    <3>2. QED
      BY <1>2, <2>2, <3>1 DEF Sound, Delays, Client, SocketStates
  <2>3. CASE b.socket \in {"Unconnected", "Closing"}
    <3>1. d = b
      BY <2>3 DEF QtAbort
    <3> HIDE DEF b, d
    <3>2. QED
      BY <1>2, <2>3, <3>1
  <2>4. QED
    BY <1>2, <2>1, <2>2, <2>3 DEF Sound, Client, SocketStates
<1>4. _q_socketError(c, e) =
        IF d.autoReconnect THEN [d EXCEPT !.reconnectTimer = d.timeout] ELSE d
  BY DEF _q_socketError
<1> HIDE DEF b, d
<1>5. CASE d.autoReconnect
  <2>1. d.timeout \in FixedTimeouts \cup Backoffs
    BY <1>2, <1>3
  <2>2. /\ Sound([d EXCEPT !.reconnectTimer = d.timeout])
        /\ [d EXCEPT !.reconnectTimer = d.timeout].socket = d.socket
    BY <1>3, <2>1 DEF Sound, Delays, Client, Timeouts
  <2>3. QED
    BY <1>3, <1>4, <1>5, <2>2
<1>6. CASE ~d.autoReconnect
  BY <1>3, <1>4, <1>6
<1>7. QED
  BY <1>5, <1>6

-----------------------------------------------------------------------------
(* Lemmas on the frames in transit.                                        *)

LEMMA RangeEmpty == Range(<<>>) = {}
  BY DEF Range

LEMMA RangeTail ==
    ASSUME NEW S, NEW s \in Seq(S), s # <<>>
    PROVE  /\ Tail(s) \in Seq(S)
           /\ Range(Tail(s)) \subseteq Range(s)
           /\ Head(s) \in Range(s)
<1>1. /\ Tail(s) \in Seq(S)
      /\ Len(Tail(s)) = Len(s) - 1
      /\ \A i \in 1..Len(Tail(s)) : Tail(s)[i] = s[i + 1]
      /\ Len(s) \in Nat \ {0}
      /\ DOMAIN s = 1..Len(s)
      /\ DOMAIN Tail(s) = 1..Len(Tail(s))
      /\ Head(s) = s[1]
  OBVIOUS
<1>2. ASSUME NEW x \in Range(Tail(s)) PROVE x \in Range(s)
  <2>1. PICK i \in 1..Len(Tail(s)) : x = Tail(s)[i]
    BY <1>1 DEF Range
  <2>2. i + 1 \in DOMAIN s /\ x = s[i + 1]
    BY <1>1, <2>1
  <2>3. QED
    BY <2>2 DEF Range
<1>3. QED
  BY <1>1, <1>2 DEF Range

LEMMA RangeAppend ==
    ASSUME NEW S, NEW s \in Seq(S), NEW x \in S
    PROVE  Append(s, x) \in Seq(S) /\ Range(Append(s, x)) = Range(s) \cup {x}
<1> DEFINE t == Append(s, x)
<1>1. /\ t \in Seq(S)
      /\ DOMAIN t = 1..(Len(s) + 1)
      /\ DOMAIN s = 1..Len(s)
      /\ Len(s) \in Nat
      /\ \A i \in 1..Len(s) : t[i] = s[i]
      /\ t[Len(s) + 1] = x
  OBVIOUS
<1> HIDE DEF t
<1>2. \A i \in DOMAIN t : i \in DOMAIN s \/ i = Len(s) + 1
  BY <1>1
<1>3. Range(t) \subseteq Range(s) \cup {x}
  BY <1>1, <1>2 DEF Range
<1>4. Range(s) \subseteq Range(t)
  <2>1. \A i \in DOMAIN s : i \in DOMAIN t /\ t[i] = s[i]
    BY <1>1
  <2>2. QED
    BY <2>1 DEF Range
<1>5. x \in Range(t)
  BY <1>1 DEF Range
<1>6. QED
  BY <1>1, <1>3, <1>4, <1>5 DEF t

LEMMA RangeConcat ==
    ASSUME NEW S, NEW s \in Seq(S), NEW x \in S
    PROVE  s \o <<x>> \in Seq(S) /\ Range(s \o <<x>>) = Range(s) \cup {x}
<1>1. s \o <<x>> = Append(s, x)
  OBVIOUS
<1>2. Append(s, x) \in Seq(S) /\ Range(Append(s, x)) = Range(s) \cup {x}
  BY RangeAppend
<1>3. QED
  BY <1>1, <1>2

-----------------------------------------------------------------------------
(* The inductive invariant.                                                *)

\* The broker's side: it exists only while the socket is connected, a broker
\* that refused the mechanisms never opens the connection, and nothing is
\* pending before the header is read.
HandshakeOrder ==
    /\ client.socket # "Connected" => peer = Gone
    /\ peer.phase = "header" => peer.in = <<>> /\ ~client.connected
    /\ "StartOther" \in Range(peer.in) => peer.phase \in {"refused", "closed"}
    /\ peer.phase = "refused" \/ "StartOther" \in Range(peer.in)
          => ~client.connected /\ "OpenOk" \notin Range(peer.in)

Inv == TypeOK /\ Sound(client) /\ HandshakeOrder

LEMMA InitInv == Init => Inv
<1>1. NoShots \in [Timeouts -> Nat] /\ \A t \in Timeouts : NoShots[t] = 0
  BY DEF NoShots
<1>2. QED
  BY <1>1, ConnectionAssumption, EmptySeq
  DEF ConnectionAssumption, Init, Inv, TypeOK, Sound, Delays, HandshakeOrder,
      Client, SocketStates, Peer, Phases, Gone, Timeouts, Off, Range

LEMMA GonePeer ==
    Gone \in Peer /\ Gone.phase = "gone" /\ Gone.in = <<>> /\ Range(Gone.in) = {}
  BY ConnectionAssumption, EmptySeq DEF ConnectionAssumption, Gone, Peer, Phases, Range

\* A handler that leaves a sound client, and a connection only if there was
\* one whose isConnected() it did not touch, keeps the invariant.
LEMMA BecomeInv ==
    ASSUME Inv, NEW c, Sound(c), Become(c),
           c.socket = "Connected" =>
               client.socket = "Connected" /\ c.connected = client.connected,
           calls' \in 0..MaxCalls, faults' \in 0..MaxFaults
    PROVE  Inv'
<1>1. client' = c /\ peer' = IF c.socket = "Connected" THEN peer ELSE Gone
  BY DEF Become
<1>2. TypeOK'
  BY <1>1, GonePeer DEF Inv, TypeOK, Sound
<1>3. HandshakeOrder'
  <2>1. CASE c.socket = "Connected"
    BY <1>1, <2>1 DEF Inv, HandshakeOrder
  <2>2. CASE c.socket # "Connected"
    BY <1>1, <2>2, GonePeer DEF HandshakeOrder
  <2>3. QED
    BY <2>1, <2>2
<1>4. QED
  BY <1>1, <1>2, <1>3 DEF Inv, Sound, Delays

\* The same of a handler of _q_readyRead, which also takes its frame.
LEMMA ReceiveInv ==
    ASSUME Inv, NEW c, NEW frame, Receive(frame, c),
           Sound(c),
           c.socket = "Connected" => c.connected = client.connected \/ frame = "OpenOk"
    PROVE  Inv'
<1>1. /\ client.socket = "Connected" /\ peer.in # <<>> /\ Head(peer.in) = frame
      /\ client' = c
      /\ peer' = IF c.socket = "Connected" THEN [peer EXCEPT !.in = Tail(@)] ELSE Gone
      /\ calls' = calls /\ faults' = faults
  BY DEF Receive, NoFault
<1> DEFINE p == [peer EXCEPT !.in = Tail(@)]
<1>2. /\ p \in Peer
      /\ p.phase = peer.phase
      /\ Range(p.in) \subseteq Range(peer.in)
      /\ frame \in Range(peer.in)
  <2>1. peer.in \in Seq(BrokerFrames)
    BY DEF Inv, TypeOK, Peer
  <2>2. QED
    BY <1>1, <2>1, RangeTail DEF Inv, TypeOK, Peer
<1>3. TypeOK'
  BY <1>1, <1>2, GonePeer DEF Inv, TypeOK, Sound
<1>4. HandshakeOrder'
  <2>1. CASE c.socket = "Connected"
    BY <1>1, <1>2, <2>1 DEF Inv, HandshakeOrder, TypeOK, Peer
  <2>2. CASE c.socket # "Connected"
    BY <1>1, <2>2, GonePeer DEF HandshakeOrder
  <2>3. QED
    BY <2>1, <2>2
<1>5. QED
  BY <1>1, <1>3, <1>4 DEF Inv, Sound, Delays

LEMMA UserInv == ASSUME Inv, User PROVE Inv'
<1>1. Sound(client) /\ client \in Client
  BY DEF Inv, Sound
<1>2. calls' \in 0..MaxCalls /\ faults' \in 0..MaxFaults
  <2>1. UserCall
    BY DEF User, ConnectToHost, DisconnectFromHost, AbortConnection,
           SetAutoReconnect, SetHeartbeatDelay
  <2>2. QED
    BY <2>1, ConnectionAssumption DEF ConnectionAssumption, Inv, TypeOK, UserCall
<1>3. CASE ConnectToHost
  BY <1>1, <1>2, <1>3, ConnectSound, BecomeInv DEF ConnectToHost
<1>4. CASE DisconnectFromHost
  <2>1. _q_disconnect(client).connected = client.connected
    BY <1>1 DEF _q_disconnect, SendFrame, Client
  <2>2. QED
    BY <1>1, <1>2, <1>4, <2>1, DisconnectSound, BecomeInv DEF DisconnectFromHost
<1>5. CASE AbortConnection
  BY <1>1, <1>2, <1>5, closeConnectionSound, BecomeInv DEF AbortConnection
<1>6. CASE SetAutoReconnect
  <2>1. PICK value \in BOOLEAN, timeout \in FixedTimeouts \cup {0} :
          Become([client EXCEPT !.autoReconnect = value,
                                !.fixedTimeout = (value /\ timeout > 0),
                                !.timeout = IF value /\ timeout > 0 THEN timeout ELSE 0])
    BY <1>6 DEF SetAutoReconnect
  <2> DEFINE c == [client EXCEPT !.autoReconnect = value,
                                 !.fixedTimeout = (value /\ timeout > 0),
                                 !.timeout = IF value /\ timeout > 0 THEN timeout ELSE 0]
  <2>2. c.socket = client.socket /\ c.connected = client.connected
    BY <1>1 DEF Client
  <2>3. CASE value /\ timeout > 0
    <3>1. c = [client EXCEPT !.autoReconnect = TRUE, !.fixedTimeout = TRUE,
                             !.timeout = timeout]
      BY <2>3
    <3>2. timeout \in FixedTimeouts
      BY <2>3
    <3> HIDE DEF c
    <3>3. Sound(c)
      BY <1>1, <3>1, <3>2 DEF Sound, Delays, Client, Timeouts
    <3>4. QED
      BY <1>2, <2>1, <2>2, <3>3, BecomeInv DEF c
  <2>4. CASE ~(value /\ timeout > 0)
    <3>1. c = [client EXCEPT !.autoReconnect = value, !.fixedTimeout = FALSE,
                             !.timeout = 0]
      BY <2>4
    <3> HIDE DEF c
    <3>2. Sound(c)
      BY <1>1, <3>1 DEF Sound, Delays, Client, Timeouts
    <3>3. QED
      BY <1>2, <2>1, <2>2, <3>2, BecomeInv DEF c
  <2>5. QED
    BY <2>3, <2>4
<1>7. CASE SetHeartbeatDelay
  <2>1. PICK delay \in Heartbeats : Become([client EXCEPT !.heartbeatDelay = delay])
    BY <1>7 DEF SetHeartbeatDelay
  <2> DEFINE c == [client EXCEPT !.heartbeatDelay = delay]
  <2>2. Sound(c) /\ c.socket = client.socket /\ c.connected = client.connected
    BY <1>1 DEF Sound, Delays, Client
  <2> HIDE DEF c
  <2>3. QED
    BY <1>2, <2>1, <2>2, BecomeInv DEF c
<1>8. QED
  BY <1>3, <1>4, <1>5, <1>6, <1>7 DEF User

LEMMA NetworkInv == ASSUME Inv, Network PROVE Inv'
<1>1. Sound(client) /\ client \in Client
  BY DEF Inv, Sound
<1>2. calls' \in 0..MaxCalls /\ faults' \in 0..MaxFaults
  <2>1. Fault \/ NoFault
    BY DEF Network, SocketConnected, ConnectRefused, ConnectionLost,
           CloseFinished, CloseFailed
  <2>2. QED
    BY <2>1, ConnectionAssumption
    DEF ConnectionAssumption, Inv, TypeOK, Fault, NoFault
<1>3. CASE SocketConnected
  <2>1. PICK e \in Environment, offer \in Heartbeats :
          LET c == [client EXCEPT !.socket = "Connected", !.reconnectTimer = Off,
                        !.timeout = IF client.fixedTimeout THEN @ ELSE 0,
                        !.out = <<"Header">>]
              d == IF client.pendingClose
                   THEN QtDisconnectFromHost([c EXCEPT !.pendingClose = FALSE], e)
                   ELSE c
          IN  /\ client' = d
              /\ peer' = IF d.socket = "Connected"
                         THEN [phase |-> "header", offer |-> offer, in |-> <<>>]
                         ELSE Gone
    BY <1>3 DEF SocketConnected
  <2> DEFINE c == [client EXCEPT !.socket = "Connected", !.reconnectTimer = Off,
                        !.timeout = IF client.fixedTimeout THEN @ ELSE 0,
                        !.out = <<"Header">>]
             q == [c EXCEPT !.pendingClose = FALSE]
             d == IF client.pendingClose THEN QtDisconnectFromHost(q, e) ELSE c
             p == [phase |-> "header", offer |-> offer, in |-> <<>>]
  <2>2. client.socket = "Connecting"
    BY <1>3 DEF SocketConnected
  <2>3. <<"Header">> \in Seq(ClientFrames)
    BY DEF ClientFrames
  <2>4. Sound(c) /\ ~c.connected /\ c.announced = "disconnected"
    BY <1>1, <2>2, <2>3 DEF Sound, Delays, Client, SocketStates, Off, Timeouts
  <2>5. Closable(q)
    <3> HIDE DEF c
    <3>1. QED
      BY <2>4 DEF Sound, Closable, Delays, Client
  <2>6. Sound(d) /\ (d.socket = "Connected" => ~d.connected)
    <3> HIDE DEF c, q
    <3>1. QED
      BY <2>4, <2>5, QtDisconnectFromHostSound
  <2>7. client' = d /\ peer' = IF d.socket = "Connected" THEN p ELSE Gone
    BY <2>1
  <2>8. p \in Peer /\ p.in = <<>> /\ p.phase = "header" /\ Range(p.in) = {}
    BY EmptySeq DEF Peer, Phases, Range
  <2> HIDE DEF d, p
  <2>9. TypeOK'
    BY <1>2, <2>6, <2>7, <2>8, GonePeer DEF TypeOK, Sound
  <2>10. HandshakeOrder'
    BY <2>6, <2>7, <2>8, GonePeer DEF HandshakeOrder
  <2>11. QED
    BY <2>6, <2>7, <2>9, <2>10 DEF Inv, Sound, Delays
<1>4. CASE ConnectRefused
  <2> DEFINE c == [client EXCEPT !.socket = "Unconnected"]
  <2>1. Sound(c)
    BY <1>1, <1>4 DEF ConnectRefused, Sound, Delays, Client, SocketStates
  <2>2. PICK e \in Environment : Become(_q_socketError(c, e))
    BY <1>4 DEF ConnectRefused
  <2> HIDE DEF c
  <2>3. QED
    BY <1>2, <2>1, <2>2, SocketErrorSound, BecomeInv
<1>5. CASE ConnectionLost
  BY <1>1, <1>2, <1>5, SocketErrorSound, BecomeInv DEF ConnectionLost
<1>6. CASE CloseFinished
  <2> DEFINE c == [client EXCEPT !.socket = "Unconnected"]
  <2>1. Reportable(c)
    BY <1>1, <1>6 DEF CloseFinished, Sound, Reportable, Delays, Client, SocketStates
  <2>2. PICK e \in Environment : Become(SocketDisconnected(c, e.slot))
    BY <1>6 DEF CloseFinished
  <2> HIDE DEF c
  <2>3. QED
    BY <1>2, <2>1, <2>2, EnvironmentSlot, SocketDisconnectedSound, BecomeInv
<1>7. CASE CloseFailed
  <2>1. PICK e \in Environment :
          Become(SocketDisconnected(
              [_q_socketError(client, e) EXCEPT !.socket = "Unconnected"], e.slot))
    BY <1>7 DEF CloseFailed
  <2> DEFINE d == _q_socketError(client, e)
             c == [d EXCEPT !.socket = "Unconnected"]
  <2>2. Sound(d) /\ d.socket # "Connected"
    BY <1>1, SocketErrorSound
  <2>3. Reportable(c)
    <3> HIDE DEF d
    <3>1. QED
      BY <2>2 DEF Sound, Reportable, Delays, Client, SocketStates
  <2> HIDE DEF c
  <2>4. QED
    BY <1>2, <2>1, <2>3, EnvironmentSlot, SocketDisconnectedSound, BecomeInv DEF c
<1>8. QED
  BY <1>3, <1>4, <1>5, <1>6, <1>7 DEF Network

LEMMA TimersInv == ASSUME Inv, Timers PROVE Inv'
<1>1. Sound(client) /\ client \in Client
  BY DEF Inv, Sound
<1>2. calls' \in 0..MaxCalls /\ faults' \in 0..MaxFaults
  BY DEF Inv, TypeOK, Timers, ReconnectTimeout, SingleShotTimeout,
         HeartbeatTimeout, NoFault
<1>3. CASE ReconnectTimeout
  <2> DEFINE c == [client EXCEPT !.reconnectTimer = Off]
  <2>1. Sound(c)
    BY <1>1 DEF Sound, Delays, Client, Off
  <2>2. PICK e \in Environment : Become(_q_connect(c, e))
    BY <1>3 DEF ReconnectTimeout
  <2> HIDE DEF c
  <2>3. QED
    BY <1>2, <2>1, <2>2, ConnectSound, BecomeInv
<1>4. CASE SingleShotTimeout
  <2>1. PICK t \in Timeouts, e \in Environment :
          /\ client.singleShots[t] > 0
          /\ Become(_q_connect([client EXCEPT !.singleShots[t] = @ - 1], e))
    BY <1>4 DEF SingleShotTimeout
  <2> DEFINE c == [client EXCEPT !.singleShots[t] = @ - 1]
  <2>2. Sound(c)
    BY <1>1, <2>1, ShotFired
  <2> HIDE DEF c
  <2>3. QED
    BY <1>2, <2>1, <2>2, ConnectSound, BecomeInv DEF c
<1>5. CASE HeartbeatTimeout
  <2>1. "Heartbeat" \in ClientFrames
    BY DEF ClientFrames
  <2>2. SendFrame(client, "Heartbeat").connected = client.connected
    BY <1>1 DEF SendFrame, Client
  <2>3. QED
    BY <1>1, <1>2, <1>5, <2>1, <2>2, SendFrameSound, BecomeInv DEF HeartbeatTimeout
<1>6. QED
  BY <1>3, <1>4, <1>5 DEF Timers

LEMMA ReadingInv == ASSUME Inv, Reading PROVE Inv'
<1>1. Sound(client) /\ client \in Client /\ client.heartbeatDelay \in Heartbeats
  BY DEF Inv, Sound, Client
<1>2. {"StartOk", "TuneOk", "Open", "Close", "CloseOk"} \subseteq ClientFrames
  BY DEF ClientFrames
<1>3. ASSUME NEW c, Sound(c), NEW frame \in ClientFrames
      PROVE  SendFrame(c, frame).connected = c.connected
  BY <1>3 DEF SendFrame, Sound, Client
<1>4. CASE ReceiveStart
  BY <1>1, <1>2, <1>3, <1>4, SendFrameSound, ReceiveInv DEF ReceiveStart
<1>5. CASE ReceiveStartOther
  <2>1. PICK e \in Environment : Receive("StartOther", QtDisconnectFromHost(client, e))
    BY <1>5 DEF ReceiveStartOther
  <2>2. "StartOther" \in Range(peer.in)
    BY <2>1, RangeTail DEF Receive, Inv, TypeOK, Peer
  <2>3. Closable(client)
    BY <1>1, <2>2 DEF Inv, HandshakeOrder, Sound, Closable
  <2>4. QED
    BY <2>1, <2>3, QtDisconnectFromHostSound, ReceiveInv
<1>6. CASE ReceiveTune
  <2> DEFINE delay == IF client.heartbeatDelay = 0 THEN peer.offer
                      ELSE client.heartbeatDelay
             c == [client EXCEPT !.heartbeatDelay = delay,
                                 !.heartbeatTimer = delay,
                                 !.agreed = delay]
             t == SendFrame(c, "TuneOk")
  <2>1. delay \in Heartbeats
    BY <1>1 DEF Inv, TypeOK, Peer
  <2> HIDE DEF delay
  <2>2. Sound(c) /\ c.connected = client.connected
    BY <1>1, <2>1 DEF Sound, Delays, Client
  <2>3. Receive("Tune", SendFrame(t, "Open"))
    BY <1>6 DEF ReceiveTune, delay
  <2> HIDE DEF c
  <2>4. Sound(t) /\ t.connected = client.connected
    BY <1>2, <1>3, <2>2, SendFrameSound
  <2> HIDE DEF t
  <2>5. QED
    BY <1>2, <1>3, <2>3, <2>4, SendFrameSound, ReceiveInv
<1>7. CASE ReceiveOpenOk
  <2> DEFINE c == [client EXCEPT !.connected = TRUE, !.announced = "connected", !.reset = FALSE]
  <2>1. Receive("OpenOk", c)
    BY <1>7 DEF ReceiveOpenOk
  <2>2. Sound(c)
    BY <1>1, <2>1 DEF Receive, Sound, Delays, Client
  <2> HIDE DEF c
  <2>3. QED
    BY <2>1, <2>2, ReceiveInv
<1>8. CASE ReceiveCloseOk
  BY <1>1, <1>8, closeConnectionSound, ReceiveInv DEF ReceiveCloseOk
<1>9. CASE ReceiveCloseForced
  <2>1. PICK e \in Environment :
          Receive("CloseForced",
              IF closeConnection(client, e).autoReconnect
              THEN [closeConnection(client, e) EXCEPT
                       !.singleShots[closeConnection(client, e).timeout] = @ + 1]
              ELSE closeConnection(client, e))
    BY <1>9 DEF ReceiveCloseForced
  <2> DEFINE c == closeConnection(client, e)
             d == [c EXCEPT !.singleShots[c.timeout] = @ + 1]
  <2>2. Sound(c) /\ c.socket # "Connected" /\ c.timeout \in {0} \cup FixedTimeouts
    BY <1>1, <2>1, closeConnectionSound DEF Receive, Sound
  <2>3. Sound(d) /\ d.socket # "Connected"
    <3> HIDE DEF c
    <3>1. QED
      BY <2>2, ShotStarted
  <2> HIDE DEF d
  <2>4. QED
    BY <2>1, <2>2, <2>3, ReceiveInv DEF d
<1>10. CASE ReceiveCloseError
  <2>1. PICK e \in Environment :
          LET quiet == [e EXCEPT !.slot = FALSE]
              c == [client EXCEPT !.connected = FALSE, !.announced = "disconnected"]
              d == IF e.slot THEN _q_connect(c, quiet) ELSE c
          IN  Receive("CloseError", closeConnection(SendFrame(d, "CloseOk"), quiet))
    BY <1>10 DEF ReceiveCloseError
  <2> DEFINE quiet == [e EXCEPT !.slot = FALSE]
             c == [client EXCEPT !.connected = FALSE, !.announced = "disconnected"]
             d == IF e.slot THEN _q_connect(c, quiet) ELSE c
             s == SendFrame(d, "CloseOk")
  <2>2. quiet \in Environment
    BY ConnectionAssumption DEF ConnectionAssumption, Environment
  <2>3. Sound(c)
    BY <1>1 DEF Sound, Delays, Client
  <2> HIDE DEF quiet, c
  <2>4. Sound(d)
    BY <2>2, <2>3, ConnectSound
  <2> HIDE DEF d
  <2>5. Sound(s)
    BY <1>2, <2>4, SendFrameSound
  <2>6. Receive("CloseError", closeConnection(s, quiet))
    BY <2>1 DEF quiet, c, d
  <2> HIDE DEF s
  <2>7. QED
    BY <2>2, <2>5, <2>6, closeConnectionSound, ReceiveInv
<1>11. CASE ReceiveMalformed
  BY <1>1, <1>2, <1>3, <1>11, SendFrameSound, ReceiveInv DEF ReceiveMalformed
<1>12. QED
  BY <1>4, <1>5, <1>6, <1>7, <1>8, <1>9, <1>10, <1>11 DEF Reading

\* What the broker says is a frame added at the end, or nothing.
LEMMA SaysFrame ==
    ASSUME Inv, NEW frame \in BrokerFrames, NEW phase \in Phases
    PROVE  /\ Says(<<frame>>, phase) \in Peer
           /\ Says(<<frame>>, phase).phase = phase
           /\ Range(Says(<<frame>>, phase).in) = Range(peer.in) \cup {frame}
           /\ Says(<<frame>>, phase).in # <<>>
<1> DEFINE in == peer.in \o <<frame>>
<1>1. peer.in \in Seq(BrokerFrames)
  BY DEF Inv, TypeOK, Peer
<1>2. in \in Seq(BrokerFrames) /\ Range(in) = Range(peer.in) \cup {frame} /\ in # <<>>
  BY <1>1, RangeConcat
<1>3. Says(<<frame>>, phase) = [peer EXCEPT !.in = in, !.phase = phase]
  BY DEF Says
<1> HIDE DEF in
<1>4. QED
  BY <1>2, <1>3 DEF Inv, TypeOK, Peer

LEMMA SaysNothing ==
    ASSUME Inv, NEW phase \in Phases
    PROVE  /\ Says(<<>>, phase) \in Peer
           /\ Says(<<>>, phase).phase = phase
           /\ Says(<<>>, phase).in = peer.in
<1>1. peer.in \o <<>> = peer.in
  BY ConcatEmptySeq DEF Inv, TypeOK, Peer
<1>2. Says(<<>>, phase) = [peer EXCEPT !.in = peer.in, !.phase = phase]
  BY <1>1 DEF Says
<1>3. QED
  BY <1>2 DEF Inv, TypeOK, Peer

LEMMA BrokerInv == ASSUME Inv, Broker PROVE Inv'
<1> DEFINE c == [client EXCEPT !.out = Tail(@)]
<1>1. Sound(client)
  BY DEF Inv
<1>2. calls' \in 0..MaxCalls /\ faults' \in 0..MaxFaults
  <2>1. Fault \/ NoFault
    BY DEF Broker, BrokerReads, BrokerOffersOther, BrokerCloses, BrokerSendsMalformed
  <2>2. QED
    BY <2>1, ConnectionAssumption
    DEF ConnectionAssumption, Inv, TypeOK, Fault, NoFault
<1>3. ASSUME client.out # <<>>, client.socket = "Connected"
      PROVE  Sound(c) /\ c.socket = "Connected" /\ c.connected = client.connected
  <2>1. Tail(client.out) \in Seq(ClientFrames)
    BY <1>1, <1>3, RangeTail DEF Sound, Client
  <2>2. QED
    BY <1>1, <1>3, <2>1 DEF Sound, Delays, Client
<1>4. ASSUME NEW d, Sound(d), client' = d, peer' \in Peer,
             d.socket = client.socket, HandshakeOrder'
      PROVE  Inv'
  BY <1>2, <1>4 DEF Inv, TypeOK, Sound, Delays
<1>5. {"Start", "StartOther", "Tune", "OpenOk", "CloseOk", "Malformed",
       "CloseForced", "CloseError"} = BrokerFrames
  BY DEF BrokerFrames, CloseFrames
<1>6. {"startOk", "tuneOk", "open", "running", "refused", "closing", "closed"}
        \subseteq Phases
  BY DEF Phases
<1>7. HandshakeOrder /\ client.socket \in SocketStates
  BY DEF Inv, Sound, Client
<1> HIDE DEF c
<1>8. CASE BrokerReads
  <2>1. /\ client.socket = "Connected" /\ client.out # <<>> /\ client' = c
        /\ peer' = Answer(Head(client.out))
    BY <1>8 DEF BrokerReads, c
  <2> DEFINE frame == Head(client.out)
  <2>2. CASE frame = "Header" /\ peer.phase = "header"
    <3>1. peer' = Says(<<"Start">>, "startOk")
      BY <2>1, <2>2 DEF Answer
    <3>2. HandshakeOrder' /\ peer' \in Peer
      BY <1>3, <1>5, <1>6, <1>7, <2>1, <2>2, <3>1, SaysFrame, RangeEmpty DEF HandshakeOrder
    <3>3. QED
      BY <1>3, <1>4, <2>1, <3>2
  <2>3. CASE frame = "StartOk" /\ peer.phase = "startOk"
    <3>1. peer' = Says(<<"Tune">>, "tuneOk")
      BY <2>1, <2>3 DEF Answer
    <3>2. HandshakeOrder' /\ peer' \in Peer
      BY <1>3, <1>5, <1>6, <1>7, <2>1, <2>3, <3>1, SaysFrame DEF HandshakeOrder
    <3>3. QED
      BY <1>3, <1>4, <2>1, <3>2
  <2>4. CASE frame = "TuneOk" /\ peer.phase = "tuneOk"
    <3>1. peer' = Says(<<>>, "open")
      BY <2>1, <2>4 DEF Answer
    <3>2. HandshakeOrder' /\ peer' \in Peer
      BY <1>3, <1>5, <1>6, <1>7, <2>1, <2>4, <3>1, SaysNothing DEF HandshakeOrder
    <3>3. QED
      BY <1>3, <1>4, <2>1, <3>2
  <2>5. CASE frame = "Open" /\ peer.phase = "open"
    <3>1. peer' = Says(<<"OpenOk">>, "running")
      BY <2>1, <2>5 DEF Answer
    <3>2. HandshakeOrder' /\ peer' \in Peer
      BY <1>3, <1>5, <1>6, <1>7, <2>1, <2>5, <3>1, SaysFrame DEF HandshakeOrder
    <3>3. QED
      BY <1>3, <1>4, <2>1, <3>2
  <2>6. CASE frame = "Close" /\ peer.phase # "closed"
    <3>1. peer' = Says(<<"CloseOk">>, "closed")
      BY <2>1, <2>6 DEF Answer
    <3>2. HandshakeOrder' /\ peer' \in Peer
      BY <1>3, <1>5, <1>6, <1>7, <2>1, <2>6, <3>1, SaysFrame DEF HandshakeOrder
    <3>3. QED
      BY <1>3, <1>4, <2>1, <3>2
  <2>7. CASE frame = "CloseOk" /\ peer.phase = "closing"
    <3>1. peer' = Says(<<>>, "closed")
      BY <2>1, <2>7 DEF Answer
    <3>2. HandshakeOrder' /\ peer' \in Peer
      BY <1>3, <1>5, <1>6, <1>7, <2>1, <2>7, <3>1, SaysNothing DEF HandshakeOrder
    <3>3. QED
      BY <1>3, <1>4, <2>1, <3>2
  <2>8. CASE peer' = peer
    <3>1. HandshakeOrder' /\ peer' \in Peer
      BY <1>3, <1>7, <2>1, <2>8 DEF HandshakeOrder, Inv, TypeOK
    <3>2. QED
      BY <1>3, <1>4, <2>1, <3>1
  <2>9. QED
    BY <2>1, <2>2, <2>3, <2>4, <2>5, <2>6, <2>7, <2>8 DEF Answer
<1>9. CASE BrokerOffersOther
  <2>1. /\ client.socket = "Connected" /\ client.out # <<>> /\ client' = c
        /\ peer.phase = "header" /\ peer' = Says(<<"StartOther">>, "refused")
    BY <1>9 DEF BrokerOffersOther, c
  <2>2. /\ peer' \in Peer /\ peer'.phase = "refused"
        /\ Range(peer'.in) = Range(peer.in) \cup {"StartOther"}
    BY <1>5, <1>6, <2>1, SaysFrame
  <2>3. Range(peer.in) = {} /\ ~client.connected
    BY <1>7, <2>1, RangeEmpty DEF HandshakeOrder
  <2>4. HandshakeOrder'
    BY <1>3, <2>1, <2>2, <2>3 DEF HandshakeOrder
  <2>5. QED
    BY <1>3, <1>4, <2>1, <2>2, <2>4
<1>10. CASE BrokerCloses
  <2>1. PICK frame \in CloseFrames : peer' = Says(<<frame>>, "closing")
    BY <1>10 DEF BrokerCloses
  <2>2. /\ client' = client /\ frame \in BrokerFrames /\ frame \in {"CloseForced", "CloseError"}
        /\ peer.phase \in {"startOk", "tuneOk", "open", "running"}
    BY <1>10 DEF BrokerCloses, BrokerFrames, CloseFrames
  <2>3. client.socket = "Connected"
    BY <1>7, <2>2, GonePeer DEF HandshakeOrder
  <2>4. HandshakeOrder' /\ peer' \in Peer
    BY <1>6, <1>7, <2>1, <2>2, <2>3, SaysFrame DEF HandshakeOrder
  <2>5. QED
    BY <1>1, <1>4, <2>2, <2>4
<1>11. CASE BrokerSendsMalformed
  <2>1. /\ client' = client /\ peer' = Says(<<"Malformed">>, peer.phase)
        /\ peer.phase \in {"startOk", "tuneOk", "open", "running"}
    BY <1>11 DEF BrokerSendsMalformed
  <2>2. client.socket = "Connected"
    BY <1>7, <2>1, GonePeer DEF HandshakeOrder
  <2>3. HandshakeOrder' /\ peer' \in Peer
    BY <1>5, <1>6, <1>7, <2>1, <2>2, SaysFrame DEF HandshakeOrder
  <2>4. QED
    BY <1>1, <1>4, <2>1, <2>3
<1>12. QED
  BY <1>8, <1>9, <1>10, <1>11 DEF Broker

LEMMA NextInv == Inv /\ [Next]_vars => Inv'
<1> SUFFICES ASSUME Inv, [Next]_vars PROVE Inv'
  OBVIOUS
<1>1. CASE User
  BY <1>1, UserInv
<1>2. CASE Reading
  BY <1>2, ReadingInv
<1>3. CASE Timers
  BY <1>3, TimersInv
<1>4. CASE Network
  BY <1>4, NetworkInv
<1>5. CASE Broker
  BY <1>5, BrokerInv
<1>6. CASE UNCHANGED vars
  BY <1>6 DEF vars, Inv, TypeOK, Sound, Delays, HandshakeOrder
<1>7. QED
  BY <1>1, <1>2, <1>3, <1>4, <1>5, <1>6 DEF Next

LEMMA InvHolds == Spec => []Inv
<1>1. QED
  BY InitInv, NextInv, PTL DEF Spec

-----------------------------------------------------------------------------
(* The theorems.                                                           *)

\* The client, the broker's end and the two counters keep their types: every
\* handler of qamqpclient.cpp leaves a well-formed client, and the timeout
\* stays among the user's timeouts and the steps of the backoff.
THEOREM TypeCorrect == Spec => []TypeOK
<1>1. Inv => TypeOK
  BY DEF Inv
<1>2. QED
  BY <1>1, InvHolds, PTL

\* isConnected(), the signals connected() and disconnected(), and the socket
\* agree, for any number of calls and faults, and even with a slot on
\* disconnected() that reconnects in the middle of a handler.
THEOREM SignalsMatchStateHolds == Spec => []SignalsMatchState
<1>1. Inv => SignalsMatchState
  BY DEF Inv, Sound, SignalsMatchState
<1>2. QED
  BY <1>1, InvHolds, PTL

\* The reconnect timer never has an empty delay: it is the user's timeout or one
\* of the four steps of the backoff of _q_socketError.  The shot after a forced
\* close waits for the user's timeout or not at all, never for a step of the
\* backoff: _q_socketConnected has set the timeout back.
THEOREM RetryWaitsHolds == Spec => []RetryWaits
<1>1. Inv => RetryWaits
  BY DEF Inv, Sound, Delays, RetryWaits
<1>2. QED
  BY <1>1, InvHolds, PTL

-----------------------------------------------------------------------------
(* The heartbeat timer.                                                    *)

\* The client has sent tuneOk on this connection, and all that follows from it.
Tuned ==
    \/ client.connected
    \/ "OpenOk" \in Range(peer.in)
    \/ peer.phase \in {"open", "running"}
    \/ "TuneOk" \in Range(client.out)

HeartbeatInv == Tuned => client.heartbeatTimer = client.agreed

\* Without a connection nothing of the handshake is left, in the next state.
LEMMA NotTunedAfterwards ==
    ASSUME Inv', client'.socket # "Connected" PROVE HeartbeatInv'
  BY GonePeer, RangeEmpty DEF Inv, Sound, HandshakeOrder, Tuned, HeartbeatInv

\* A frame other than tuneOk, and nothing else, leaves the invariant alone.
LEMMA SendFrameTuned ==
    ASSUME Inv, HeartbeatInv, NEW frame \in ClientFrames \ {"TuneOk"},
           client' = SendFrame(client, frame),
           peer'.phase = peer.phase, Range(peer'.in) \subseteq Range(peer.in)
    PROVE  HeartbeatInv'
<1>1. client \in Client /\ client.out \in Seq(ClientFrames)
  BY DEF Inv, Sound, Client
<1>2. Range(Append(client.out, frame)) = Range(client.out) \cup {frame}
  BY <1>1, RangeAppend
<1>3. /\ client'.connected = client.connected
      /\ client'.heartbeatTimer = client.heartbeatTimer
      /\ client'.agreed = client.agreed
      /\ Range(client'.out) \subseteq Range(client.out) \cup {frame}
  BY <1>1, <1>2 DEF SendFrame, Client
<1>4. QED
  BY <1>3 DEF HeartbeatInv, Tuned

LEMMA UserHeartbeat ==
    ASSUME Inv, HeartbeatInv, Inv', User PROVE HeartbeatInv'
<1>1. Sound(client) /\ client \in Client
  BY DEF Inv, Sound
<1>2. CASE ConnectToHost
  BY <1>1, <1>2, ConnectSound, NotTunedAfterwards DEF ConnectToHost, Become
<1>3. CASE DisconnectFromHost
  <2>1. CASE client.socket = "Connected"
    <3> DEFINE d == [client EXCEPT !.reconnectTimer = Off]
    <3>1. client' = SendFrame(d, "Close") /\ peer' = peer
      BY <1>1, <1>3, <2>1, DisconnectSound
      DEF DisconnectFromHost, Become, _q_disconnect
    <3>2. "Close" \in ClientFrames /\ client.out \in Seq(ClientFrames)
      BY <1>1 DEF ClientFrames, Client
    <3>3. Range(Append(client.out, "Close")) = Range(client.out) \cup {"Close"}
      BY <3>2, RangeAppend
    <3>4. /\ client'.connected = client.connected
          /\ client'.heartbeatTimer = client.heartbeatTimer
          /\ client'.agreed = client.agreed
          /\ client'.out = Append(client.out, "Close")
      BY <1>1, <2>1, <3>1 DEF SendFrame, Client
    <3>5. "TuneOk" \in Range(client'.out) => "TuneOk" \in Range(client.out)
      BY <3>3, <3>4
    <3>6. QED
      BY <3>1, <3>4, <3>5 DEF HeartbeatInv, Tuned
  <2>2. CASE client.socket # "Connected"
    BY <1>1, <1>3, <2>2, DisconnectSound, NotTunedAfterwards
    DEF DisconnectFromHost, Become
  <2>3. QED
    BY <2>1, <2>2
<1>4. CASE AbortConnection
  BY <1>1, <1>4, closeConnectionSound, NotTunedAfterwards DEF AbortConnection, Become
<1>5. CASE SetAutoReconnect \/ SetHeartbeatDelay
  <2>1. /\ client'.connected = client.connected
        /\ client'.socket = client.socket
        /\ client'.heartbeatTimer = client.heartbeatTimer
        /\ client'.agreed = client.agreed
        /\ client'.out = client.out
        /\ peer' = IF client.socket = "Connected" THEN peer ELSE Gone
    BY <1>1, <1>5 DEF SetAutoReconnect, SetHeartbeatDelay, Become, Client
  <2>2. peer' = peer
    BY <2>1 DEF Inv, HandshakeOrder
  <2>3. QED
    BY <2>1, <2>2 DEF HeartbeatInv, Tuned
<1>6. QED
  BY <1>2, <1>3, <1>4, <1>5 DEF User

LEMMA NetworkHeartbeat ==
    ASSUME Inv, HeartbeatInv, Inv', Network PROVE HeartbeatInv'
<1>1. CASE client'.socket = "Connected"
  <2>1. Sound(client) /\ client \in Client /\ Sound(client')
    BY DEF Inv, Sound, Delays
  <2>2. ~ConnectRefused /\ ~ConnectionLost /\ ~CloseFinished /\ ~CloseFailed
    <3> DEFINE c == [client EXCEPT !.socket = "Unconnected"]
    <3>1. ASSUME ConnectRefused PROVE Sound(c)
      BY <2>1, <3>1 DEF ConnectRefused, Sound, Delays, Client, SocketStates
    <3>2. ASSUME CloseFinished PROVE Reportable(c)
      BY <2>1, <3>2 DEF CloseFinished, Sound, Reportable, Delays, Client, SocketStates
    <3>3. ASSUME CloseFailed, NEW e \in Environment
          PROVE  Reportable([_q_socketError(client, e) EXCEPT !.socket = "Unconnected"])
      <4> DEFINE d == _q_socketError(client, e)
      <4>1. Sound(d) /\ d.socket # "Connected"
        BY <2>1, SocketErrorSound
      <4> HIDE DEF d
      <4>2. Reportable([d EXCEPT !.socket = "Unconnected"])
        BY <4>1 DEF Sound, Reportable, Delays, Client, SocketStates
      <4>3. QED
        BY <4>2 DEF d
    <3> HIDE DEF c
    <3>4. ~ConnectRefused
      BY <1>1, <3>1, SocketErrorSound DEF ConnectRefused, Become, c
    <3>5. ~ConnectionLost
      BY <1>1, <2>1, SocketErrorSound DEF ConnectionLost, Become
    <3>6. ~CloseFinished
      BY <1>1, <3>2, EnvironmentSlot, SocketDisconnectedSound DEF CloseFinished, Become, c
    <3>7. ~CloseFailed
      BY <1>1, <3>3, EnvironmentSlot, SocketDisconnectedSound DEF CloseFailed, Become
    <3>8. QED
      BY <3>4, <3>5, <3>6, <3>7
  <2>3. SocketConnected
    BY <2>2 DEF Network
  <2>4. PICK e \in Environment, offer \in Heartbeats :
          LET c == [client EXCEPT !.socket = "Connected", !.reconnectTimer = Off,
                        !.timeout = IF client.fixedTimeout THEN @ ELSE 0,
                        !.out = <<"Header">>]
              d == IF client.pendingClose
                   THEN QtDisconnectFromHost([c EXCEPT !.pendingClose = FALSE], e)
                   ELSE c
          IN  /\ client' = d
              /\ peer' = IF d.socket = "Connected"
                         THEN [phase |-> "header", offer |-> offer, in |-> <<>>]
                         ELSE Gone
    BY <2>3 DEF SocketConnected
  <2> DEFINE c == [client EXCEPT !.socket = "Connected", !.reconnectTimer = Off,
                        !.timeout = IF client.fixedTimeout THEN @ ELSE 0,
                        !.out = <<"Header">>]
             q == [c EXCEPT !.pendingClose = FALSE]
  <2>5. client.socket = "Connecting"
    BY <2>3 DEF SocketConnected
  <2>6. Closable(q)
    <3>1. <<"Header">> \in Seq(ClientFrames)
      BY DEF ClientFrames
    <3>2. Sound(c) /\ ~c.connected /\ c.announced = "disconnected"
      BY <2>1, <2>5, <3>1 DEF Sound, Delays, Client, SocketStates, Off, Timeouts
    <3> HIDE DEF c
    <3>3. QED
      BY <3>2 DEF Sound, Closable, Delays, Client
  <2>7. ~client.pendingClose
    <3> HIDE DEF q
    <3>1. QED
      BY <1>1, <2>4, <2>6, QtDisconnectFromHostSound DEF q
  <2>8. client'.out = <<"Header">> /\ ~client'.connected
        /\ peer'.phase = "header" /\ peer'.in = <<>>
    BY <1>1, <2>1, <2>4, <2>5, <2>7 DEF Sound, Client
  <2>9. Range(<<"Header">>) = {"Header"}
    BY DEF Range
  <2>10. QED
    BY <2>8, <2>9, RangeEmpty DEF HeartbeatInv, Tuned
<1>2. CASE client'.socket # "Connected"
  BY <1>2, NotTunedAfterwards
<1>3. QED
  BY <1>1, <1>2

LEMMA TimersHeartbeat ==
    ASSUME Inv, HeartbeatInv, Inv', Timers PROVE HeartbeatInv'
<1>1. Sound(client) /\ client \in Client
  BY DEF Inv, Sound
<1>2. CASE ReconnectTimeout
  <2> DEFINE c == [client EXCEPT !.reconnectTimer = Off]
  <2>1. Sound(c)
    BY <1>1 DEF Sound, Delays, Client, Off
  <2>2. PICK e \in Environment : client' = _q_connect(c, e)
    BY <1>2 DEF ReconnectTimeout, Become
  <2> HIDE DEF c
  <2>3. QED
    BY <2>1, <2>2, ConnectSound, NotTunedAfterwards
<1>3. CASE SingleShotTimeout
  <2>1. PICK t \in Timeouts, e \in Environment :
          /\ client.singleShots[t] > 0
          /\ client' = _q_connect([client EXCEPT !.singleShots[t] = @ - 1], e)
    BY <1>3 DEF SingleShotTimeout, Become
  <2> DEFINE c == [client EXCEPT !.singleShots[t] = @ - 1]
  <2>2. Sound(c)
    BY <1>1, <2>1, ShotFired
  <2> HIDE DEF c
  <2>3. QED
    BY <2>1, <2>2, ConnectSound, NotTunedAfterwards DEF c
<1>4. CASE HeartbeatTimeout
  <2>1. "Heartbeat" \in ClientFrames \ {"TuneOk"}
    BY DEF ClientFrames
  <2>2. client' = SendFrame(client, "Heartbeat") /\ peer' = peer
    BY <1>1, <1>4, <2>1, SendFrameSound DEF HeartbeatTimeout, Become
  <2>3. QED
    BY <2>1, <2>2, SendFrameTuned
<1>5. QED
  BY <1>2, <1>3, <1>4 DEF Timers

LEMMA ReadingHeartbeat ==
    ASSUME Inv, HeartbeatInv, Inv', Reading PROVE HeartbeatInv'
<1>1. CASE client'.socket = "Connected"
  <2>1. Sound(client) /\ client \in Client /\ client.out \in Seq(ClientFrames)
    BY DEF Inv, Sound, Client
  <2>2. /\ client.socket = "Connected"
        /\ peer' = [peer EXCEPT !.in = Tail(@)]
        /\ Range(peer'.in) \subseteq Range(peer.in)
        /\ peer'.phase = peer.phase
        /\ Head(peer.in) \in Range(peer.in)
    <3>1. /\ client.socket = "Connected"
          /\ peer.in # <<>>
          /\ peer' = [peer EXCEPT !.in = Tail(@)]
      BY <1>1 DEF Reading, Receive, ReceiveStart, ReceiveStartOther, ReceiveTune,
        ReceiveOpenOk, ReceiveCloseOk, ReceiveCloseForced, ReceiveCloseError,
        ReceiveMalformed
    <3>2. QED
      BY <3>1, RangeTail DEF Inv, TypeOK, Peer
  <2>3. CASE ReceiveStart
    <3>1. "StartOk" \in ClientFrames \ {"TuneOk"}
      BY DEF ClientFrames
    <3>2. QED
      BY <2>2, <2>3, <3>1, SendFrameTuned DEF ReceiveStart, Receive
  <2>4. CASE ReceiveMalformed
    <3>1. "Close" \in ClientFrames \ {"TuneOk"}
      BY DEF ClientFrames
    <3>2. QED
      BY <2>2, <2>4, <3>1, SendFrameTuned DEF ReceiveMalformed, Receive
  <2>5. CASE ReceiveTune
    <3> DEFINE delay == IF client.heartbeatDelay = 0 THEN peer.offer
                        ELSE client.heartbeatDelay
    <3>1. /\ client'.heartbeatTimer = delay
          /\ client'.agreed = delay
      BY <2>1, <2>5 DEF ReceiveTune, Receive, SendFrame, Client
    <3>2. QED
      BY <3>1 DEF HeartbeatInv
  <2>6. CASE ReceiveOpenOk
    <3>1. /\ "OpenOk" \in Range(peer.in)
          /\ client'.heartbeatTimer = client.heartbeatTimer
          /\ client'.agreed = client.agreed
      BY <2>1, <2>2, <2>6 DEF ReceiveOpenOk, Receive, Client
    <3>2. QED
      BY <3>1 DEF HeartbeatInv, Tuned
  <2>7. ~ReceiveStartOther
    <3>1. ASSUME ReceiveStartOther PROVE Closable(client)
      <4>1. "StartOther" \in Range(peer.in)
        BY <2>2, <3>1 DEF ReceiveStartOther, Receive
      <4>2. QED
        BY <2>1, <4>1 DEF Inv, HandshakeOrder, Sound, Closable
    <3>2. QED
      BY <1>1, <3>1, QtDisconnectFromHostSound DEF ReceiveStartOther, Receive
  <2>8. ~ReceiveCloseOk
    BY <1>1, <2>1, closeConnectionSound DEF ReceiveCloseOk, Receive
  <2>9. ~ReceiveCloseForced
    <3>1. ASSUME NEW e \in Environment
          PROVE  /\ closeConnection(client, e).socket # "Connected"
                 /\ [closeConnection(client, e) EXCEPT
                       !.singleShots[closeConnection(client, e).timeout] = @ + 1].socket
                     # "Connected"
      <4> DEFINE c == closeConnection(client, e)
      <4>1. c \in Client /\ c.socket # "Connected"
        BY <2>1, closeConnectionSound DEF Sound
      <4> HIDE DEF c
      <4>2. [c EXCEPT !.singleShots[c.timeout] = @ + 1].socket = c.socket
        BY <4>1 DEF Client
      <4>3. QED
        BY <4>1, <4>2 DEF c
    <3>2. QED
      BY <1>1, <3>1 DEF ReceiveCloseForced, Receive
  <2>10. ~ReceiveCloseError
    <3>1. SUFFICES ASSUME ReceiveCloseError PROVE FALSE
      OBVIOUS
    <3>2. PICK e \in Environment :
            LET quiet == [e EXCEPT !.slot = FALSE]
                c == [client EXCEPT !.connected = FALSE, !.announced = "disconnected"]
                d == IF e.slot THEN _q_connect(c, quiet) ELSE c
            IN  Receive("CloseError", closeConnection(SendFrame(d, "CloseOk"), quiet))
      BY <3>1 DEF ReceiveCloseError
    <3> DEFINE quiet == [e EXCEPT !.slot = FALSE]
               c == [client EXCEPT !.connected = FALSE, !.announced = "disconnected"]
               d == IF e.slot THEN _q_connect(c, quiet) ELSE c
               s == SendFrame(d, "CloseOk")
    <3>3. quiet \in Environment
      BY ConnectionAssumption DEF ConnectionAssumption, Environment
    <3>4. Sound(c)
      BY <2>1 DEF Sound, Delays, Client
    <3>5. "CloseOk" \in ClientFrames
      BY DEF ClientFrames
    <3> HIDE DEF quiet, c
    <3>6. Sound(d)
      BY <3>3, <3>4, ConnectSound
    <3> HIDE DEF d
    <3>7. Sound(s)
      BY <3>5, <3>6, SendFrameSound
    <3>8. client' = closeConnection(s, quiet)
      BY <3>2 DEF quiet, c, d, Receive
    <3> HIDE DEF s
    <3>9. QED
      BY <1>1, <3>3, <3>7, <3>8, closeConnectionSound
  <2>11. QED
    BY <2>3, <2>4, <2>5, <2>6, <2>7, <2>8, <2>9, <2>10 DEF Reading
<1>2. CASE client'.socket # "Connected"
  BY <1>2, NotTunedAfterwards
<1>3. QED
  BY <1>1, <1>2

LEMMA BrokerHeartbeat ==
    ASSUME Inv, HeartbeatInv, Inv', Broker PROVE HeartbeatInv'
<1>1. client \in Client /\ client.out \in Seq(ClientFrames)
  BY DEF Inv, Sound, Client
<1>2. {"Start", "StartOther", "Tune", "OpenOk", "CloseOk", "Malformed",
       "CloseForced", "CloseError"} = BrokerFrames
  BY DEF BrokerFrames, CloseFrames
<1>3. {"startOk", "tuneOk", "open", "running", "refused", "closing", "closed"}
        \subseteq Phases
  BY DEF Phases
<1>4. CASE BrokerReads \/ BrokerOffersOther
  <2>1. /\ client.out # <<>>
        /\ client' = [client EXCEPT !.out = Tail(@)]
        /\ peer' = Answer(Head(client.out)) \/ peer' = Says(<<"StartOther">>, "refused")
    BY <1>4 DEF BrokerReads, BrokerOffersOther
  <2>2. /\ client'.connected = client.connected
        /\ client'.heartbeatTimer = client.heartbeatTimer
        /\ client'.agreed = client.agreed
        /\ Range(client'.out) \subseteq Range(client.out)
        /\ Head(client.out) \in Range(client.out)
    BY <1>1, <2>1, RangeTail DEF Client
  <2>3. peer'.phase \in {"open", "running"} \/ "OpenOk" \in Range(peer'.in) => Tuned
    <3>1. CASE Head(client.out) = "TuneOk" \/ peer.phase = "open"
      BY <2>2, <3>1 DEF Tuned
    <3>2. CASE ~(Head(client.out) = "TuneOk" \/ peer.phase = "open")
      <4>1. \/ peer' = peer
            \/ peer' = Says(<<"Start">>, "startOk")
            \/ peer' = Says(<<"Tune">>, "tuneOk")
            \/ peer' = Says(<<"CloseOk">>, "closed")
            \/ peer' = Says(<<>>, "closed")
            \/ peer' = Says(<<"StartOther">>, "refused")
        BY <2>1, <3>2 DEF Answer
      <4>2. CASE peer' = peer
        BY <4>2 DEF Tuned
      <4>3. CASE peer' = Says(<<>>, "closed")
        BY <1>3, <4>3, SaysNothing DEF Tuned
      <4>4. CASE \E frame \in {"Start", "Tune", "CloseOk", "StartOther"},
                    phase \in {"startOk", "tuneOk", "closed", "refused"} :
                     peer' = Says(<<frame>>, phase)
        BY <1>2, <1>3, <4>4, SaysFrame DEF Tuned
      <4>5. QED
        BY <4>1, <4>2, <4>3, <4>4
    <3>3. QED
      BY <3>1, <3>2
  <2>4. QED
    BY <2>2, <2>3 DEF HeartbeatInv, Tuned
<1>5. CASE BrokerCloses
  <2>1. PICK frame \in CloseFrames : peer' = Says(<<frame>>, "closing")
    BY <1>5 DEF BrokerCloses
  <2>2. client' = client /\ frame \in BrokerFrames /\ frame # "OpenOk"
    BY <1>5 DEF BrokerCloses, BrokerFrames, CloseFrames
  <2>3. QED
    BY <1>3, <2>1, <2>2, SaysFrame DEF HeartbeatInv, Tuned
<1>6. CASE BrokerSendsMalformed
  <2>1. client' = client /\ peer' = Says(<<"Malformed">>, peer.phase) /\ peer.phase \in Phases
    BY <1>6 DEF BrokerSendsMalformed, Inv, TypeOK, Peer
  <2>2. QED
    BY <1>2, <2>1, SaysFrame DEF HeartbeatInv, Tuned
<1>7. QED
  BY <1>4, <1>5, <1>6 DEF Broker

\* A client that is connected sends heartbeats exactly if it told this broker
\* in tuneOk that it would, although the timer outlives the connections it was
\* started for (_q_socketError and _q_socketDisconnected leave it running).
THEOREM HeartbeatAsAgreedHolds == Spec => []HeartbeatAsAgreed
<1>1. Init => HeartbeatInv
  BY RangeEmpty DEF Init, HeartbeatInv, Tuned, Gone
<1>2. Inv /\ Inv' /\ HeartbeatInv /\ [Next]_vars => HeartbeatInv'
  <2> SUFFICES ASSUME Inv, Inv', HeartbeatInv, [Next]_vars PROVE HeartbeatInv'
    OBVIOUS
  <2>1. CASE UNCHANGED vars
    BY <2>1 DEF vars, HeartbeatInv, Tuned
  <2>2. CASE Next
    BY <2>2, UserHeartbeat, ReadingHeartbeat, TimersHeartbeat, NetworkHeartbeat,
       BrokerHeartbeat DEF Next
  <2>3. QED
    BY <2>1, <2>2
<1>3. HeartbeatInv => HeartbeatAsAgreed
  BY DEF HeartbeatInv, Tuned, HeartbeatAsAgreed
<1>4. QED
  BY <1>1, <1>2, <1>3, InvHolds, PTL DEF Spec

-----------------------------------------------------------------------------
(* The reconnect timer.                                                    *)

LEMMA RetryStep ==
    ASSUME ~SlotConnects, Inv, Inv', RetryOnlyWhileDown, [Next]_vars
    PROVE  RetryOnlyWhileDown'
<1>1. Sound(client) /\ client \in Client
  BY DEF Inv, Sound
<1>2. \A e \in Environment : ~e.slot
  BY EnvironmentSlot
<1>3. ASSUME client'.reconnectTimer = Off \/ client'.socket = "Unconnected"
      PROVE  RetryOnlyWhileDown'
  BY <1>3 DEF RetryOnlyWhileDown
<1>4. CASE User
  <2>1. CASE ConnectToHost
    BY <1>1, <1>3, <2>1, ConnectSound DEF ConnectToHost, Become
  <2>2. CASE DisconnectFromHost
    BY <1>1, <1>3, <2>2, DisconnectSound DEF DisconnectFromHost, Become
  <2>3. CASE AbortConnection
    BY <1>1, <1>3, <2>3, closeConnectionSound DEF AbortConnection, Become
  <2>4. CASE SetAutoReconnect \/ SetHeartbeatDelay
    <3>1. /\ client'.reconnectTimer = client.reconnectTimer
          /\ client'.socket = client.socket
      BY <1>1, <2>4 DEF SetAutoReconnect, SetHeartbeatDelay, Become, Client
    <3>2. QED
      BY <3>1 DEF RetryOnlyWhileDown
  <2>5. QED
    BY <1>4, <2>1, <2>2, <2>3, <2>4 DEF User
<1>5. CASE Reading
  <2>1. client.reconnectTimer = Off
    BY <1>5 DEF Reading, Receive, ReceiveStart, ReceiveStartOther, ReceiveTune,
      ReceiveOpenOk, ReceiveCloseOk, ReceiveCloseForced, ReceiveCloseError,
      ReceiveMalformed, RetryOnlyWhileDown
  <2>2. CASE ReceiveStart \/ ReceiveTune \/ ReceiveOpenOk \/ ReceiveMalformed
    <3>1. client'.reconnectTimer = client.reconnectTimer
      BY <1>1, <2>2 DEF Receive, ReceiveStart, ReceiveTune, ReceiveOpenOk,
        ReceiveMalformed, SendFrame, Client
    <3>2. QED
      BY <1>3, <2>1, <3>1
  <2>3. CASE ReceiveStartOther
    <3>1. "StartOther" \in Range(peer.in)
      BY <2>3, RangeTail DEF ReceiveStartOther, Receive, Inv, TypeOK, Peer
    <3>2. Closable(client)
      BY <1>1, <3>1 DEF Inv, HandshakeOrder, Sound, Closable
    <3>3. QED
      BY <1>3, <2>1, <2>3, <3>2, QtDisconnectFromHostSound DEF ReceiveStartOther, Receive
  <2>4. CASE ReceiveCloseOk
    BY <1>1, <1>3, <2>4, closeConnectionSound DEF ReceiveCloseOk, Receive
  <2>5. CASE ReceiveCloseForced
    <3>1. ASSUME NEW e \in Environment
          PROVE  /\ closeConnection(client, e).reconnectTimer = Off
                 /\ [closeConnection(client, e)
                        EXCEPT !.singleShots[closeConnection(client, e).timeout] = @ + 1
                    ].reconnectTimer = Off
      <4> DEFINE c == closeConnection(client, e)
      <4>1. c \in Client /\ c.reconnectTimer = Off
        BY <1>1, closeConnectionSound DEF Sound
      <4> HIDE DEF c
      <4>2. [c EXCEPT !.singleShots[c.timeout] = @ + 1].reconnectTimer = c.reconnectTimer
        BY <4>1 DEF Client
      <4>3. QED
        BY <4>1, <4>2 DEF c
    <3>2. client'.reconnectTimer = Off
      BY <2>5, <3>1 DEF ReceiveCloseForced, Receive
    <3>3. QED
      BY <1>3, <3>2
  <2>6. CASE ReceiveCloseError
    <3>1. PICK e \in Environment :
            LET quiet == [e EXCEPT !.slot = FALSE]
                c == [client EXCEPT !.connected = FALSE, !.announced = "disconnected"]
                d == IF e.slot THEN _q_connect(c, quiet) ELSE c
            IN  Receive("CloseError", closeConnection(SendFrame(d, "CloseOk"), quiet))
      BY <2>6 DEF ReceiveCloseError
    <3> DEFINE quiet == [e EXCEPT !.slot = FALSE]
               c == [client EXCEPT !.connected = FALSE, !.announced = "disconnected"]
               s == SendFrame(c, "CloseOk")
    <3>2. quiet \in Environment
      BY ConnectionAssumption DEF ConnectionAssumption, Environment
    <3>3. Sound(c) /\ "CloseOk" \in ClientFrames
      BY <1>1 DEF Sound, Delays, Client, ClientFrames
    <3>4. client' = closeConnection(s, quiet)
      BY <1>2, <3>1 DEF Receive
    <3> HIDE DEF quiet, c
    <3>5. Sound(s)
      BY <3>3, SendFrameSound
    <3> HIDE DEF s
    <3>6. QED
      BY <1>3, <3>2, <3>4, <3>5, closeConnectionSound
  <2>7. QED
    BY <1>5, <2>2, <2>3, <2>4, <2>5, <2>6 DEF Reading
<1>6. CASE Timers
  <2>1. CASE ReconnectTimeout
    <3> DEFINE c == [client EXCEPT !.reconnectTimer = Off]
    <3>1. Sound(c)
      BY <1>1 DEF Sound, Delays, Client, Off
    <3>2. PICK e \in Environment : client' = _q_connect(c, e)
      BY <2>1 DEF ReconnectTimeout, Become
    <3> HIDE DEF c
    <3>3. QED
      BY <1>3, <3>1, <3>2, ConnectSound
  <2>2. CASE SingleShotTimeout
    <3>1. PICK t \in Timeouts, e \in Environment :
            /\ client.singleShots[t] > 0
            /\ client' = _q_connect([client EXCEPT !.singleShots[t] = @ - 1], e)
      BY <2>2 DEF SingleShotTimeout, Become
    <3> DEFINE c == [client EXCEPT !.singleShots[t] = @ - 1]
    <3>2. Sound(c)
      BY <1>1, <3>1, ShotFired
    <3> HIDE DEF c
    <3>3. QED
      BY <1>3, <3>1, <3>2, ConnectSound DEF c
  <2>3. CASE HeartbeatTimeout
    <3>1. client'.reconnectTimer = client.reconnectTimer /\ client'.socket = client.socket
      BY <1>1, <2>3 DEF HeartbeatTimeout, Become, SendFrame, Client
    <3>2. QED
      BY <3>1 DEF RetryOnlyWhileDown
  <2>4. QED
    BY <1>6, <2>1, <2>2, <2>3 DEF Timers
<1>7. CASE Network
  <2>1. CASE SocketConnected
    <3>1. PICK e \in Environment :
            LET c == [client EXCEPT !.socket = "Connected", !.reconnectTimer = Off,
                        !.timeout = IF client.fixedTimeout THEN @ ELSE 0,
                        !.out = <<"Header">>]
            IN  client' = IF client.pendingClose
                          THEN QtDisconnectFromHost([c EXCEPT !.pendingClose = FALSE], e)
                          ELSE c
      BY <2>1 DEF SocketConnected
    <3> DEFINE c == [client EXCEPT !.socket = "Connected", !.reconnectTimer = Off,
                        !.timeout = IF client.fixedTimeout THEN @ ELSE 0,
                        !.out = <<"Header">>]
               q == [c EXCEPT !.pendingClose = FALSE]
    <3>2. <<"Header">> \in Seq(ClientFrames) /\ client.socket = "Connecting"
      BY <2>1 DEF ClientFrames, SocketConnected
    <3>3. Closable(q) /\ q.reconnectTimer = Off /\ c.reconnectTimer = Off
      BY <1>1, <3>2 DEF Sound, Closable, Delays, Client, SocketStates, Off, Timeouts
    <3>4. client' = IF client.pendingClose THEN QtDisconnectFromHost(q, e) ELSE c
      BY <3>1
    <3> HIDE DEF c, q
    <3>5. QED
      BY <1>3, <3>3, <3>4, QtDisconnectFromHostSound
  <2>2. CASE ConnectRefused
    <3> DEFINE c == [client EXCEPT !.socket = "Unconnected"]
    <3>1. Sound(c) /\ c.socket = "Unconnected"
      BY <1>1, <2>2 DEF ConnectRefused, Sound, Delays, Client, SocketStates
    <3>2. PICK e \in Environment : client' = _q_socketError(c, e)
      BY <2>2 DEF ConnectRefused, Become
    <3> HIDE DEF c
    <3>3. QED
      BY <1>2, <1>3, <3>1, <3>2, SocketErrorSound
  <2>3. CASE ConnectionLost
    BY <1>1, <1>2, <1>3, <2>3, SocketErrorSound DEF ConnectionLost, Become
  <2>4. CASE CloseFinished
    <3> DEFINE c == [client EXCEPT !.socket = "Unconnected"]
    <3>1. Reportable(c)
      BY <1>1, <2>4 DEF CloseFinished, Sound, Reportable, Delays, Client, SocketStates
    <3>2. PICK e \in Environment : client' = SocketDisconnected(c, e.slot)
      BY <2>4 DEF CloseFinished, Become
    <3> HIDE DEF c
    <3>3. QED
      BY <1>2, <1>3, <3>1, <3>2, EnvironmentSlot, SocketDisconnectedSound
  <2>5. CASE CloseFailed
    <3>1. PICK e \in Environment :
            client' = SocketDisconnected(
                [_q_socketError(client, e) EXCEPT !.socket = "Unconnected"], e.slot)
      BY <2>5 DEF CloseFailed, Become
    <3> DEFINE d == _q_socketError(client, e)
               c == [d EXCEPT !.socket = "Unconnected"]
    <3>2. Sound(d) /\ d.socket # "Connected"
      BY <1>1, SocketErrorSound
    <3>3. Reportable(c)
      <4> HIDE DEF d
      <4>1. QED
        BY <3>2 DEF Sound, Reportable, Delays, Client, SocketStates
    <3> HIDE DEF c
    <3>4. QED
      BY <1>2, <1>3, <3>1, <3>3, EnvironmentSlot, SocketDisconnectedSound DEF c
  <2>6. QED
    BY <1>7, <2>1, <2>2, <2>3, <2>4, <2>5 DEF Network
<1>8. CASE Broker
  <2>1. client'.reconnectTimer = client.reconnectTimer /\ client'.socket = client.socket
    BY <1>1, <1>8 DEF Broker, BrokerReads, BrokerOffersOther, BrokerCloses,
      BrokerSendsMalformed, Client
  <2>2. QED
    BY <2>1 DEF RetryOnlyWhileDown
<1>9. CASE UNCHANGED vars
  BY <1>9 DEF vars, RetryOnlyWhileDown
<1>10. QED
  BY <1>4, <1>5, <1>6, <1>7, <1>8, <1>9 DEF Next

\* If no slot on disconnected() connects again, the reconnect timer never runs
\* beside a connection attempt or a connection, for any number of calls,
\* faults and forced closes: every path that reaches the socket stops it
\* first, and _q_socketError starts it only behind abort().
THEOREM RetryOnlyWhileDownHolds ==
    ASSUME ~SlotConnects PROVE Spec => []RetryOnlyWhileDown
<1>1. Init => RetryOnlyWhileDown
  BY DEF Init, RetryOnlyWhileDown
<1>2. Inv /\ Inv' /\ RetryOnlyWhileDown /\ [Next]_vars => RetryOnlyWhileDown'
  BY RetryStep
<1>3. QED
  BY <1>1, <1>2, InvHolds, PTL DEF Spec

-----------------------------------------------------------------------------
(* Connection implements Link.                                            *)

\* The connection as Link sees it is the same in both client records.
Same(c, d) ==
    d.connected = c.connected /\ d.reset = c.reset /\ d.announced = c.announced

\* What the functions of the client may make of the connection, one by one
\* and one after the other: leave it, reset it, or begin to close it.
Follows(c, d) ==
    \/ Same(c, d)
    \/ ~d.connected /\ d.reset /\ d.announced = "disconnected"
    \/ /\ c.connected /\ ~d.connected /\ ~d.reset
       /\ d.announced \in {c.announced, "disconnected"}

\* Between two handlers only a socket that is being closed is still to be reset.
Settled(c) ==
    /\ c.connected => ~c.reset
    /\ ~c.connected /\ ~c.reset => c.socket = "Closing"

\* Within a handler it may also be one that is going to be closed.
Settling(c) ==
    /\ c.connected => ~c.reset
    /\ ~c.connected /\ ~c.reset => c.socket \in {"Connected", "Closing"}

LEMMA FollowsTransitive ==
    ASSUME NEW c, NEW d, NEW e, Follows(c, d), Follows(d, e)
    PROVE  Follows(c, e)
  BY DEF Follows, Same

-----------------------------------------------------------------------------
(* Lemmas on the functions the handlers call.                              *)

LEMMA SendFrameSame ==
    ASSUME NEW c, Sound(c), NEW frame
    PROVE  Same(c, SendFrame(c, frame)) /\ SendFrame(c, frame).socket = c.socket
  BY DEF SendFrame, Same, Sound, Client

LEMMA QtConnectToHostSame ==
    ASSUME NEW c, Sound(c)
    PROVE  /\ Same(c, QtConnectToHost(c))
           /\ Settled(c) => Settled(QtConnectToHost(c))
  BY DEF QtConnectToHost, Same, Settled, Sound, Client

LEMMA SocketDisconnectedResets ==
    ASSUME NEW c, Reportable(c), NEW d, NEW slot \in BOOLEAN
    PROVE  /\ Follows(d, SocketDisconnected(c, slot))
           /\ Settled(SocketDisconnected(c, slot))
<1> DEFINE r == [c EXCEPT !.connected = FALSE, !.announced = "disconnected",
                          !.reset = TRUE]
           q == [r EXCEPT !.reconnectTimer = Off]
<1>1. ~r.connected /\ r.reset /\ r.announced = "disconnected"
  BY DEF Reportable, Client
<1>2. ~q.connected /\ q.reset /\ q.announced = "disconnected"
  BY DEF Reportable, Client
<1>3. Sound(q)
  BY DEF Reportable, Sound, Delays, Client, Off
<1>4. SocketDisconnected(c, slot) = IF slot THEN QtConnectToHost(q) ELSE r
  BY DEF SocketDisconnected
<1> HIDE DEF r, q
<1>5. Same(q, QtConnectToHost(q))
  BY <1>3, QtConnectToHostSame
<1>6. QED
  BY <1>1, <1>2, <1>4, <1>5 DEF Follows, Same, Settled

LEMMA QtDisconnectFromHostFollows ==
    ASSUME NEW c, Closable(c), Settling(c), NEW e \in Environment
    PROVE  /\ Follows(c, QtDisconnectFromHost(c, e))
           /\ Settled(QtDisconnectFromHost(c, e))
<1> DEFINE d == [c EXCEPT !.socket = "Unconnected", !.out = <<>>]
<1>1. e.flushed \in BOOLEAN /\ e.slot \in BOOLEAN
  BY EnvironmentSlot
<1>2. CASE c.socket = "Connected" /\ e.flushed
  <2>1. Reportable(d)
    BY <1>2, NoFrames DEF Closable, Reportable, Delays, Client, SocketStates
  <2>2. QtDisconnectFromHost(c, e) = SocketDisconnected(d, e.slot)
    BY <1>2 DEF QtDisconnectFromHost
  <2> HIDE DEF d
  <2>3. QED
    BY <1>1, <2>1, <2>2, SocketDisconnectedResets
<1>3. CASE ~(c.socket = "Connected" /\ e.flushed)
  <2>1. Same(c, QtDisconnectFromHost(c, e))
    BY <1>1, <1>3 DEF Closable, QtDisconnectFromHost, Same, Client
  <2>2. QtDisconnectFromHost(c, e).socket =
            IF c.socket = "Connected" THEN "Closing" ELSE c.socket
    BY <1>1, <1>3 DEF Closable, QtDisconnectFromHost, Client
  <2>3. QED
    BY <2>1, <2>2 DEF Closable, Settling, Settled, Follows, Same
<1>4. QED
  BY <1>2, <1>3

LEMMA closeConnectionFollows ==
    ASSUME NEW c, Sound(c), Settling(c), NEW e \in Environment
    PROVE  Follows(c, closeConnection(c, e)) /\ Settled(closeConnection(c, e))
<1> DEFINE d == [c EXCEPT !.connected = FALSE, !.reconnectTimer = Off,
                          !.heartbeatTimer = 0]
<1>1. Closable(d)
  BY AboutToClose
<1>2. Follows(c, d) /\ Settling(d)
  BY DEF Sound, Settling, Follows, Same, Client
<1>3. closeConnection(c, e) = QtDisconnectFromHost(d, e)
  BY DEF closeConnection
<1> HIDE DEF d
<1>4. QED
  BY <1>1, <1>2, <1>3, QtDisconnectFromHostFollows, FollowsTransitive

LEMMA DisconnectSame ==
    ASSUME NEW c, Sound(c)
    PROVE  Same(c, _q_disconnect(c)) /\ _q_disconnect(c).socket = c.socket
  BY DEF _q_disconnect, SendFrame, Same, Sound, Client

LEMMA ConnectFollows ==
    ASSUME NEW c, Sound(c), Settling(c), NEW e \in Environment
    PROVE  Follows(c, _q_connect(c, e)) /\ Settled(_q_connect(c, e))
<1> DEFINE d == [c EXCEPT !.reconnectTimer = Off]
           p == _q_disconnect(d)
           q == IF c.socket = "Unconnected" THEN d ELSE closeConnection(p, e)
<1>1. Sound(d) /\ Same(c, d) /\ d.socket = c.socket
  BY DEF Sound, Delays, Same, Client, Off
<1>2. _q_connect(c, e) = QtConnectToHost(q)
  BY DEF _q_connect
<1> HIDE DEF d
<1>3. Sound(p) /\ Same(c, p) /\ p.socket = c.socket
  BY <1>1, DisconnectSound, DisconnectSame DEF Same
<1> HIDE DEF p
<1>4. Settling(p) /\ Follows(c, p)
  BY <1>3 DEF Settling, Same, Follows
<1>5. Sound(q) /\ Settled(q) /\ Follows(c, q)
  <2>1. CASE c.socket = "Unconnected"
    BY <1>1, <2>1 DEF Settling, Settled, Same, Follows
  <2>2. CASE c.socket # "Unconnected"
    BY <1>3, <1>4, <2>2, closeConnectionSound, closeConnectionFollows, FollowsTransitive
  <2>3. QED
    BY <2>1, <2>2
<1> HIDE DEF q
<1>6. QED
  BY <1>2, <1>5, QtConnectToHostSame, FollowsTransitive DEF Follows

LEMMA SocketErrorFollows ==
    ASSUME NEW c, Sound(c), Settled(c), NEW e \in Environment
    PROVE  Follows(c, _q_socketError(c, e)) /\ Settled(_q_socketError(c, e))
<1> DEFINE b == [c EXCEPT !.timeout = Backoff(c)]
           a == [b EXCEPT !.socket = "Unconnected", !.out = <<>>]
           d == QtAbort(b, e.slot)
<1>1. e.slot \in BOOLEAN
  BY EnvironmentSlot
<1>2. /\ b \in Client /\ Delays(b)
      /\ b.socket # "Connected" => Sound(b)
      /\ Same(c, b) /\ b.socket = c.socket
  <2>1. /\ c.fixedTimeout => Backoff(c) \in FixedTimeouts
        /\ ~c.fixedTimeout => Backoff(c) \in Backoffs
    BY BackoffSteps DEF Sound
  <2>2. QED
    BY <2>1 DEF Sound, Delays, Same, Client, Timeouts
<1>3. d \in Client /\ Follows(c, d) /\ Settled(d)
  <2>1. CASE b.socket = "Connected"
    <3>1. d = SocketDisconnected(a, e.slot)
      BY <2>1 DEF QtAbort
    <3> HIDE DEF b, d
    <3>2. Reportable(a)
      BY <1>2, NoFrames DEF Sound, Reportable, Delays, Client, SocketStates
    <3> HIDE DEF a
    <3>3. QED
      BY <1>1, <3>1, <3>2, SocketDisconnectedSound, SocketDisconnectedResets DEF Sound
  <2>2. CASE b.socket = "Connecting"
    <3>1. d = a
      BY <2>2 DEF QtAbort
    <3> HIDE DEF b, d
    <3>2. a \in Client /\ Same(b, a)
      BY <1>2, NoFrames DEF Sound, Client, SocketStates, Same
    <3> HIDE DEF a
    <3>3. QED
      BY <1>2, <2>2, <3>1, <3>2 DEF Same, Follows, Settled
  <2>3. CASE b.socket \in {"Unconnected", "Closing"}
    <3>1. d = b
      BY <2>3 DEF QtAbort
    <3> HIDE DEF b, d
    <3>2. QED
      BY <1>2, <3>1 DEF Sound, Same, Follows, Settled
  <2>4. QED
    BY <1>2, <2>1, <2>2, <2>3 DEF Sound, Client, SocketStates
<1>4. _q_socketError(c, e) =
        IF d.autoReconnect THEN [d EXCEPT !.reconnectTimer = d.timeout] ELSE d
  BY DEF _q_socketError
<1> HIDE DEF b, d
<1>5. Same(d, _q_socketError(c, e)) /\ _q_socketError(c, e).socket = d.socket
  BY <1>3, <1>4 DEF Same, Client
<1>6. QED
  BY <1>3, <1>5 DEF Same, Settled, Follows

-----------------------------------------------------------------------------
(* The steps.                                                              *)

\* Where a handler leaves the connection.
Kept(c) == Settled(c) /\ Follows(client, c)

LEMMA UserKept == ASSUME Inv, Settled(client), User PROVE Kept(client')
<1>1. Sound(client) /\ client \in Client /\ Settling(client)
  BY DEF Inv, Sound, Settled, Settling
<1>2. CASE ConnectToHost
  BY <1>1, <1>2, ConnectFollows DEF ConnectToHost, Become, Kept
<1>3. CASE DisconnectFromHost
  BY <1>1, <1>3, DisconnectSame DEF DisconnectFromHost, Become, Kept, Settled, Follows, Same
<1>4. CASE AbortConnection
  BY <1>1, <1>4, closeConnectionFollows DEF AbortConnection, Become, Kept
<1>5. CASE SetAutoReconnect
  <2>1. Same(client, client') /\ client'.socket = client.socket
    BY <1>1, <1>5 DEF SetAutoReconnect, Become, Same, Client
  <2>2. QED
    BY <2>1 DEF Kept, Settled, Follows, Same
<1>6. CASE SetHeartbeatDelay
  <2>1. Same(client, client') /\ client'.socket = client.socket
    BY <1>1, <1>6 DEF SetHeartbeatDelay, Become, Same, Client
  <2>2. QED
    BY <2>1 DEF Kept, Settled, Follows, Same
<1>7. QED
  BY <1>2, <1>3, <1>4, <1>5, <1>6 DEF User

LEMMA TimersKept == ASSUME Inv, Settled(client), Timers PROVE Kept(client')
<1>1. Sound(client) /\ client \in Client
  BY DEF Inv, Sound
<1>2. CASE ReconnectTimeout
  <2> DEFINE c == [client EXCEPT !.reconnectTimer = Off]
  <2>1. Sound(c) /\ Same(client, c) /\ c.socket = client.socket
    BY <1>1 DEF Sound, Delays, Same, Client, Off
  <2>2. PICK e \in Environment : Become(_q_connect(c, e))
    BY <1>2 DEF ReconnectTimeout
  <2> HIDE DEF c
  <2>3. Settling(c)
    BY <2>1 DEF Settled, Settling, Same
  <2>4. QED
    BY <2>1, <2>2, <2>3, ConnectFollows DEF Become, Kept, Follows, Same
<1>3. CASE SingleShotTimeout
  <2>1. PICK t \in Timeouts, e \in Environment :
          /\ client.singleShots[t] > 0
          /\ client' = _q_connect([client EXCEPT !.singleShots[t] = @ - 1], e)
    BY <1>3 DEF SingleShotTimeout, Become
  <2> DEFINE c == [client EXCEPT !.singleShots[t] = @ - 1]
  <2>2. Sound(c) /\ Same(client, c) /\ c.socket = client.socket
    BY <1>1, <2>1, ShotFired DEF Same
  <2>3. client' = _q_connect(c, e)
    BY <2>1
  <2> HIDE DEF c
  <2>4. Settling(c)
    BY <2>2 DEF Settled, Settling, Same
  <2>5. QED
    BY <2>2, <2>3, <2>4, ConnectFollows DEF Kept, Follows, Same
<1>4. CASE HeartbeatTimeout
  BY <1>1, <1>4, SendFrameSame DEF HeartbeatTimeout, Become, Kept, Settled, Follows, Same
<1>5. QED
  BY <1>2, <1>3, <1>4 DEF Timers

LEMMA NetworkKept == ASSUME Inv, Settled(client), Network PROVE Kept(client')
<1>1. Sound(client) /\ client \in Client
  BY DEF Inv, Sound
<1>2. CASE SocketConnected
  <2>1. PICK e \in Environment :
          LET c == [client EXCEPT !.socket = "Connected", !.reconnectTimer = Off,
                        !.timeout = IF client.fixedTimeout THEN @ ELSE 0,
                        !.out = <<"Header">>]
          IN  client' = IF client.pendingClose
                        THEN QtDisconnectFromHost([c EXCEPT !.pendingClose = FALSE], e)
                        ELSE c
    BY <1>2 DEF SocketConnected
  <2> DEFINE c == [client EXCEPT !.socket = "Connected", !.reconnectTimer = Off,
                        !.timeout = IF client.fixedTimeout THEN @ ELSE 0,
                        !.out = <<"Header">>]
             q == [c EXCEPT !.pendingClose = FALSE]
  <2>2. client.socket = "Connecting" /\ <<"Header">> \in Seq(ClientFrames)
    BY <1>2 DEF SocketConnected, ClientFrames
  <2>3. Sound(c) /\ Same(client, c) /\ ~c.connected /\ c.announced = "disconnected"
    BY <1>1, <2>2 DEF Sound, Delays, Same, Client, SocketStates, Off, Timeouts
  <2>4. c.reset
    BY <2>2, <2>3 DEF Settled, Same
  <2> HIDE DEF c
  <2>5. Closable(q) /\ Same(client, q)
    BY <2>3 DEF Sound, Closable, Delays, Same, Client
  <2>6. client' = IF client.pendingClose THEN QtDisconnectFromHost(q, e) ELSE c
    BY <2>1 DEF c
  <2> HIDE DEF q
  <2>7. Settling(q)
    BY <2>3, <2>4, <2>5 DEF Settling, Same
  <2>8. CASE client.pendingClose
    <3>1. Settled(client') /\ Follows(q, client')
      BY <2>5, <2>6, <2>7, <2>8, QtDisconnectFromHostFollows
    <3>2. QED
      BY <2>5, <3>1 DEF Kept, Follows, Same
  <2>9. CASE ~client.pendingClose
    BY <2>3, <2>4, <2>6, <2>9 DEF Kept, Settled, Follows
  <2>10. QED
    BY <2>8, <2>9
<1>3. CASE ConnectRefused
  <2> DEFINE c == [client EXCEPT !.socket = "Unconnected"]
  <2>1. Sound(c) /\ Same(client, c)
    BY <1>1, <1>3 DEF ConnectRefused, Sound, Delays, Same, Client, SocketStates
  <2>2. PICK e \in Environment : Become(_q_socketError(c, e))
    BY <1>3 DEF ConnectRefused
  <2> HIDE DEF c
  <2>3. Settled(c)
    BY <1>3, <2>1 DEF ConnectRefused, Settled, Same
  <2>4. QED
    BY <2>1, <2>2, <2>3, SocketErrorFollows DEF Become, Kept, Follows, Same
<1>4. CASE ConnectionLost
  BY <1>1, <1>4, SocketErrorFollows DEF ConnectionLost, Become, Kept
<1>5. CASE CloseFinished
  <2> DEFINE c == [client EXCEPT !.socket = "Unconnected"]
  <2>1. Reportable(c)
    BY <1>1, <1>5 DEF CloseFinished, Sound, Reportable, Delays, Client, SocketStates
  <2>2. PICK e \in Environment : Become(SocketDisconnected(c, e.slot))
    BY <1>5 DEF CloseFinished
  <2> HIDE DEF c
  <2>3. QED
    BY <2>1, <2>2, EnvironmentSlot, SocketDisconnectedResets DEF Become, Kept
<1>6. CASE CloseFailed
  <2>1. PICK e \in Environment :
          Become(SocketDisconnected(
              [_q_socketError(client, e) EXCEPT !.socket = "Unconnected"], e.slot))
    BY <1>6 DEF CloseFailed
  <2> DEFINE d == _q_socketError(client, e)
             c == [d EXCEPT !.socket = "Unconnected"]
  <2>2. Sound(d) /\ d.socket # "Connected"
    BY <1>1, SocketErrorSound
  <2>3. Reportable(c)
    <3> HIDE DEF d
    <3>1. QED
      BY <2>2 DEF Sound, Reportable, Delays, Client, SocketStates
  <2> HIDE DEF c
  <2>4. QED
    BY <2>1, <2>3, EnvironmentSlot, SocketDisconnectedResets DEF Become, Kept, c
<1>7. QED
  BY <1>2, <1>3, <1>4, <1>5, <1>6 DEF Network

LEMMA ReadingKept ==
    ASSUME Inv, Settled(client), Reading, ~ReceiveOpenOk
    PROVE  Kept(client')
<1>1. Sound(client) /\ client \in Client /\ Settling(client)
  BY DEF Inv, Sound, Settled, Settling
<1>2. CASE ReceiveStart
  BY <1>1, <1>2, SendFrameSame DEF ReceiveStart, Receive, Kept, Settled, Follows, Same
<1>3. CASE ReceiveStartOther
  <2>1. PICK e \in Environment : Receive("StartOther", QtDisconnectFromHost(client, e))
    BY <1>3 DEF ReceiveStartOther
  <2>2. "StartOther" \in Range(peer.in)
    BY <2>1, RangeTail DEF Receive, Inv, TypeOK, Peer
  <2>3. Closable(client)
    BY <1>1, <2>2 DEF Inv, HandshakeOrder, Sound, Closable
  <2>4. QED
    BY <1>1, <2>1, <2>3, QtDisconnectFromHostFollows DEF Receive, Kept
<1>4. CASE ReceiveTune
  <2> DEFINE delay == IF client.heartbeatDelay = 0 THEN peer.offer
                      ELSE client.heartbeatDelay
             c == [client EXCEPT !.heartbeatDelay = delay,
                                 !.heartbeatTimer = delay,
                                 !.agreed = delay]
             t == SendFrame(c, "TuneOk")
  <2>1. delay \in Heartbeats /\ {"TuneOk", "Open"} \subseteq ClientFrames
    BY <1>1 DEF Inv, TypeOK, Peer, Client, ClientFrames
  <2> HIDE DEF delay
  <2>2. Sound(c) /\ Same(client, c) /\ c.socket = client.socket
    BY <1>1, <2>1 DEF Sound, Delays, Same, Client
  <2>3. client' = SendFrame(t, "Open")
    BY <1>4 DEF ReceiveTune, Receive, delay
  <2> HIDE DEF c
  <2>4. Sound(t) /\ Same(c, t) /\ t.socket = c.socket
    BY <2>1, <2>2, SendFrameSound, SendFrameSame
  <2> HIDE DEF t
  <2>5. QED
    BY <2>2, <2>3, <2>4, SendFrameSame DEF Kept, Settled, Follows, Same
<1>5. CASE ReceiveCloseOk
  BY <1>1, <1>5, closeConnectionFollows DEF ReceiveCloseOk, Receive, Kept
<1>6. CASE ReceiveCloseForced
  <2>1. PICK e \in Environment :
          Receive("CloseForced",
              IF closeConnection(client, e).autoReconnect
              THEN [closeConnection(client, e) EXCEPT
                       !.singleShots[closeConnection(client, e).timeout] = @ + 1]
              ELSE closeConnection(client, e))
    BY <1>6 DEF ReceiveCloseForced
  <2> DEFINE c == closeConnection(client, e)
             d == [c EXCEPT !.singleShots[c.timeout] = @ + 1]
  <2>2. /\ Sound(c) /\ Settled(c) /\ Follows(client, c)
        /\ c.timeout \in {0} \cup FixedTimeouts
    BY <1>1, <2>1, closeConnectionSound, closeConnectionFollows DEF Receive, Sound
  <2>3. Same(c, d) /\ d.socket = c.socket
    <3> HIDE DEF c
    <3>1. QED
      BY <2>2, ShotStarted DEF Same
  <2>4. client' = IF c.autoReconnect THEN d ELSE c
    BY <2>1 DEF Receive
  <2> HIDE DEF c, d
  <2>5. QED
    BY <2>2, <2>3, <2>4 DEF Kept, Settled, Follows, Same
<1>7. CASE ReceiveCloseError
  <2>1. PICK e \in Environment :
          LET quiet == [e EXCEPT !.slot = FALSE]
              c == [client EXCEPT !.connected = FALSE, !.announced = "disconnected"]
              d == IF e.slot THEN _q_connect(c, quiet) ELSE c
          IN  Receive("CloseError", closeConnection(SendFrame(d, "CloseOk"), quiet))
    BY <1>7 DEF ReceiveCloseError
  <2> DEFINE quiet == [e EXCEPT !.slot = FALSE]
             c == [client EXCEPT !.connected = FALSE, !.announced = "disconnected"]
             d == IF e.slot THEN _q_connect(c, quiet) ELSE c
             s == SendFrame(d, "CloseOk")
  <2>2. quiet \in Environment
    BY ConnectionAssumption DEF ConnectionAssumption, Environment
  <2>3. Sound(c) /\ Settling(c) /\ Follows(client, c)
    BY <1>1, <2>1 DEF Receive, Sound, Delays, Settling, Follows, Same, Client
  <2>4. client' = closeConnection(s, quiet)
    BY <2>1 DEF Receive, quiet, c, d, s
  <2> HIDE DEF quiet, c
  <2>5. Sound(d) /\ Settling(d) /\ Follows(client, d)
    BY <2>2, <2>3, ConnectSound, ConnectFollows, FollowsTransitive DEF Settled, Settling
  <2> HIDE DEF d
  <2>6. Sound(s) /\ Same(d, s) /\ s.socket = d.socket
    BY <2>5, SendFrameSound, SendFrameSame DEF ClientFrames
  <2> HIDE DEF s
  <2>7. Settling(s) /\ Follows(client, s)
    BY <2>5, <2>6 DEF Settling, Follows, Same
  <2>8. QED
    BY <2>2, <2>4, <2>6, <2>7, closeConnectionFollows, FollowsTransitive DEF Kept
<1>8. CASE ReceiveMalformed
  BY <1>1, <1>8, SendFrameSame DEF ReceiveMalformed, Receive, Kept, Settled, Follows, Same
<1>9. QED
  BY <1>2, <1>3, <1>4, <1>5, <1>6, <1>7, <1>8 DEF Reading

LEMMA BrokerKept == ASSUME Inv, Settled(client), Broker PROVE Kept(client')
<1>1. client \in Client
  BY DEF Inv, Sound
<1>2. Same(client, client') /\ client'.socket = client.socket
  BY <1>1 DEF Broker, BrokerReads, BrokerOffersOther, BrokerCloses,
              BrokerSendsMalformed, Same, Client
<1>3. QED
  BY <1>2 DEF Kept, Settled, Follows, Same

\* Read on a socket that is not closing: the connection is up or was reset.
LEMMA OpenOkOpens ==
    ASSUME Inv, Settled(client), ReceiveOpenOk
    PROVE  Settled(client') /\ (Same(client, client') \/ L!Up)
<1>1. client \in Client /\ client.socket = "Connected" /\ Sound(client)
  BY DEF Inv, Sound, ReceiveOpenOk, Receive
<1>2. client' = [client EXCEPT !.connected = TRUE, !.announced = "connected",
                               !.reset = FALSE]
  BY DEF ReceiveOpenOk, Receive
<1>3. client'.connected = TRUE /\ client'.reset = FALSE /\ client'.announced = "connected"
  BY <1>1, <1>2 DEF Client
<1>4. CASE client.connected
  BY <1>1, <1>3, <1>4 DEF Settled, Same, Sound, Client
<1>5. CASE ~client.connected
  BY <1>1, <1>3, <1>5 DEF Settled, L!Up, LinkState
<1>6. QED
  BY <1>4, <1>5

LEMMA FollowsIsStep ==
    ASSUME Follows(client, client'), client \in Client, client' \in Client,
           Settled(client)
    PROVE  [L!Next]_(L!vars)
<1>1. CASE Same(client, client')
  BY <1>1 DEF Same, L!vars, LinkState
<1>2. CASE ~client'.connected /\ client'.reset /\ client'.announced = "disconnected"
  BY <1>2 DEF L!Next, L!Down, LinkState
<1>3. CASE /\ client.connected /\ ~client'.connected /\ ~client'.reset
           /\ client'.announced \in {client.announced, "disconnected"}
  BY <1>3 DEF L!Next, L!Closes, LinkState
<1>4. QED
  BY <1>1, <1>2, <1>3 DEF Follows

LEMMA LinkStep ==
    ASSUME Inv, Inv', Settled(client), [Next]_vars
    PROVE  Settled(client)' /\ [L!Next]_(L!vars)
<1>1. client \in Client /\ client' \in Client
  BY DEF Inv, Sound
<1>2. CASE ReceiveOpenOk
  BY <1>2, OpenOkOpens DEF Settled, Same, L!Next, L!vars, LinkState
<1>3. CASE Next /\ ~ReceiveOpenOk
  <2>1. Kept(client')
    BY <1>3, UserKept, TimersKept, NetworkKept, ReadingKept, BrokerKept DEF Next
  <2>2. QED
    BY <1>1, <2>1, FollowsIsStep DEF Kept, Settled
<1>4. CASE UNCHANGED vars
  BY <1>4 DEF vars, Settled, L!vars, LinkState
<1>5. QED
  BY <1>2, <1>3, <1>4

\* For every value of the constants, with or without a slot that reconnects:
\* the exchanges and queues are reset between one connected() and the next.
THEOREM ResetBetweenConnectionsHolds == Spec => ResetBetweenConnections
<1>1. Init => L!Init /\ Settled(client)
  BY DEF Init, L!Init, LinkState, Settled
<1>2. Inv /\ Inv' /\ Settled(client) /\ [Next]_vars => Settled(client)' /\ [L!Next]_(L!vars)
  BY LinkStep
<1>3. QED
  BY <1>1, <1>2, InvHolds, PTL DEF Spec, ResetBetweenConnections, L!Spec

=============================================================================
