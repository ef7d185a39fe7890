------------------------------- MODULE Registry -------------------------------
(***************************************************************************)
(* The registry of a QAmqpClient: two QAmqpChannelHash, which find the     *)
(* exchanges and the queues by name for createExchange and createQueue,    *)
(* and by which resetChannelState reaches them when the connection ends.   *)
(* With it, what names and unnames an object and what it says of itself:   *)
(* setName, declare, declareOk with the broker's name for an unnamed       *)
(* queue, remove, destruction, and isDeclared().                           *)
(*                                                                         *)
(* Each object has a channel of its own here; opening and closing channels *)
(* is the subject of Channels.  The broker acts on a frame when it is sent:*)
(* what it does depends on the order of the frames alone.                  *)
(***************************************************************************)
EXTENDS Integers, Sequences, SequencesExt

CONSTANTS
    Exchanges,   \* the exchanges a user may create
    Queues,      \* the queues a user may create
    UserNames,   \* the names a user gives
    NumServer,   \* bound on the names the broker gives
    MaxCalls,    \* bound on the user's calls and what the broker does by itself
    MaxLosses    \* bound on the connections that end

\* What a registry has under a name that nothing is registered under.
None == "none"

ASSUME RegistryAssumption ==
    /\ Exchanges \cap Queues = {}
    /\ None \notin Exchanges \cup Queues
    /\ IsFiniteSet(Exchanges) /\ IsFiniteSet(Queues)
    /\ NumServer \in Nat
    /\ UserNames \cap (0..NumServer) = {}
    /\ MaxCalls \in Nat
    /\ MaxLosses \in Nat

Objects == Exchanges \cup Queues
NoName == 0
ServerNames == 1..NumServer
Names == UserNames \cup ServerNames \cup {NoName}

\* "renamed": setName of an object that is registered; "displaced": a queue
\* that had no name is registered under the name of another; "twice": a queue
\* is declared again while the answer with another name for it is on its way;
\* "others": another client or the broker deletes a queue or an exchange, or a
\* queue is removed while another is declared, or about to be, under its name;
\* "closed": remove() on a channel that the broker has closed; "unanswered":
\* a queue is removed with roNoWait, as remove() does by default.
Events == {"renamed", "displaced", "twice", "others", "closed", "unanswered"}

VARIABLES
    link,       \* the connection, as in Channels
    object,     \* the fields of each exchange and queue
    exchanges,  \* QAmqpClientPrivate::exchanges
    queues,     \* QAmqpClientPrivate::queues
    in,         \* the frames the broker sent, not yet read
    broker,     \* the broker: what is declared, its channels, the names it gave
    happened,   \* history: the events that have happened
    calls, losses

vars == <<link, object, exchanges, queues, in, broker, happened, calls, losses>>

\* `hooked`: declared() is connected to queueDeclared().
Object ==
    [life : {"new", "live", "dead"}, name : Names, opened : BOOLEAN,
     delayedDeclare : BOOLEAN, declared : BOOLEAN, hooked : BOOLEAN]

New == [life |-> "new", name |-> NoName, opened |-> FALSE,
        delayedDeclare |-> FALSE, declared |-> FALSE, hooked |-> FALSE]

Frames ==
    [type : {"OpenOk", "DeleteOk", "PurgeOk", "BindOk", "UnbindOk", "Close"}, object : Objects]
        \cup [type : {"DeclareOk"}, object : Objects, name : Names]

\* `last` is the queue that a channel has declared last, which the empty name
\* stands for.
Broker ==
    [exchanges : SUBSET UserNames, queues : SUBSET (UserNames \cup ServerNames),
     given : 0..NumServer,
     channel : [Objects -> {"closed", "open", "closing"}],
     last : [Objects -> Names], refused : BOOLEAN]

TypeOK ==
    /\ link \in {"down", "up", "closing"}
    /\ object \in [Objects -> Object]
    /\ exchanges \in [UserNames \cup {NoName} -> Exchanges \cup {None}]
    /\ queues \in [UserNames \cup ServerNames -> Queues \cup {None}]
    /\ in \in Seq(Frames)
    /\ broker \in Broker
    /\ happened \subseteq Events
    /\ calls \in 0..MaxCalls
    /\ losses \in 0..MaxLosses

Init ==
    /\ link = "down"
    /\ object = [o \in Objects |-> New]
    /\ exchanges = [n \in UserNames \cup {NoName} |-> None]
    /\ queues = [n \in UserNames \cup ServerNames |-> None]
    /\ in = <<>>
    /\ broker = [exchanges |-> {}, queues |-> {}, given |-> 0, refused |-> FALSE,
                 channel |-> [o \in Objects |-> "closed"],
                 last |-> [o \in Objects |-> NoName]]
    /\ happened = {}
    /\ calls = 0
    /\ losses = 0

Live(o) == object[o].life = "live"

\* What is registered, under any name.
Registered(hash) == {hash[n] : n \in DOMAIN hash} \ {None}

Call == calls < MaxCalls /\ calls' = calls + 1

Happens(events) == happened' = happened \cup events

-----------------------------------------------------------------------------
(* The broker's side of a frame (external): what it answers, and what it   *)
(* is after it.  A frame on a channel that it has closed is dropped while  *)
(* it waits for closeOk, and ends the connection after that.               *)

Answered(b, answer) == [broker |-> b, answer |-> answer]

DeclaresQueue(b, o, name) ==
    LET n == IF name = NoName THEN b.given + 1 ELSE name
    IN  Answered([b EXCEPT !.queues = @ \cup {n}, !.last[o] = n,
                           !.given = IF name = NoName THEN @ + 1 ELSE @],
                 <<[type |-> "DeclareOk", object |-> o, name |-> n]>>)

DeclaresExchange(b, o, name) ==
    Answered([b EXCEPT !.exchanges = @ \cup {name}],
             <<[type |-> "DeclareOk", object |-> o, name |-> name]>>)

ClosesChannel(b, o) ==
    Answered([b EXCEPT !.channel[o] = "closing"], <<[type |-> "Close", object |-> o]>>)

\* roNoWait is the no-wait bit of queue.delete, but not a bit of exchange.delete.
Deletes(b, o, name, noWait) ==
    IF name = NoName THEN ClosesChannel(b, o)
    ELSE Answered(IF o \in Queues THEN [b EXCEPT !.queues = @ \ {name}]
                  ELSE [b EXCEPT !.exchanges = @ \ {name}],
                  IF o \in Queues /\ noWait THEN <<>>
                  ELSE <<[type |-> "DeleteOk", object |-> o]>>)

\* Purge, bind and unbind need the queue; the empty name is the one declared last.
Serves(b, o, name, type) ==
    IF (IF name = NoName THEN b.last[o] ELSE name) \in b.queues
    THEN Answered(b, <<[type |-> type, object |-> o]>>)
    ELSE ClosesChannel(b, o)

Takes(b, o, frame) ==
    CASE b.refused \/ b.channel[o] = "closing" -> Answered(b, <<>>)
      [] ~b.refused /\ b.channel[o] = "closed" ->
            Answered([b EXCEPT !.refused = TRUE], <<>>)
      [] ~b.refused /\ b.channel[o] = "open" ->
            CASE frame.type = "Declare" /\ o \in Queues    -> DeclaresQueue(b, o, frame.name)
              [] frame.type = "Declare" /\ o \in Exchanges -> DeclaresExchange(b, o, frame.name)
              [] frame.type = "Delete"                     -> Deletes(b, o, frame.name, frame.noWait)
              [] OTHER -> Serves(b, o, frame.name, frame.type)

\* sendFrame drops what is sent without a connection.
Send(o, frame) ==
    LET taken == Takes(broker, o, frame)
    IN  IF link = "up" THEN broker' = taken.broker /\ in' = in \o taken.answer
        ELSE UNCHANGED <<broker, in>>

\* Opening the channel of a new object, or the channels of all.
Opens(b, os) ==
    [b EXCEPT !.channel = [o \in Objects |-> IF o \in os THEN "open" ELSE b.channel[o]]]

BrokerCloses ==
    /\ Call
    /\ link = "up"
    /\ ~broker.refused
    /\ \E o \in Objects :
          LET closed == ClosesChannel(broker, o)
          IN  /\ broker.channel[o] = "open"
              /\ broker' = closed.broker
              /\ in' = in \o closed.answer
    /\ UNCHANGED <<link, object, exchanges, queues, happened, losses>>

\* Another client deletes it, or the broker by itself: an AutoDelete queue when
\* its last consumer is gone.
OthersDelete ==
    /\ Call
    /\ Happens({"others"})
    /\ \E n \in Names :
          \/ n \in broker.queues /\ broker' = [broker EXCEPT !.queues = @ \ {n}]
          \/ n \in broker.exchanges /\ broker' = [broker EXCEPT !.exchanges = @ \ {n}]
    /\ UNCHANGED <<link, object, exchanges, queues, in, losses>>

-----------------------------------------------------------------------------
(* The registry.                                                           *)

Put(hash, name, o) == [hash EXCEPT ![name] = o]

\* Mutant: only the entry under the object's name is removed.
RemovedByName(hash, o) ==
    [n \in DOMAIN hash |-> IF hash[n] = o /\ object[o].name = n THEN None ELSE hash[n]]

\* channelDestroyed: every entry of the object is removed.
Removed(hash, o) == [n \in DOMAIN hash |-> IF hash[n] = o THEN None ELSE hash[n]]

\* What createQueue and createExchange do to an object they make: its channel
\* is opened if there is a connection.
Created(o, name, hooked) ==
    /\ object' = [object EXCEPT ![o] =
                    [New EXCEPT !.life = "live", !.name = name, !.hooked = hooked]]
    /\ IF link = "up"
       THEN /\ broker' = IF broker.refused THEN broker ELSE Opens(broker, {o})
            /\ in' = IF broker.refused THEN in
                     ELSE Append(in, [type |-> "OpenOk", object |-> o])
       ELSE UNCHANGED <<broker, in>>

\* Mutant: a queue without a name is looked up, and registered, as it is.
CreateQueueUnhooked ==
    \E q \in Queues, name \in UserNames \cup {NoName} :
        /\ Call
        /\ object[q].life = "new"
        /\ name # NoName => queues[name] = None
        /\ Created(q, name, FALSE)
        /\ queues' = IF name = NoName THEN queues ELSE Put(queues, name, q)
        /\ UNCHANGED <<link, exchanges, happened, losses>>

\* A queue that is registered under the name is returned as it is.
CreateQueue ==
    \E q \in Queues, name \in UserNames \cup {NoName} :
        /\ Call
        /\ object[q].life = "new"
        /\ name # NoName => queues[name] = None
        /\ Created(q, name, name = NoName)
        /\ queues' = IF name = NoName THEN queues ELSE Put(queues, name, q)
        /\ UNCHANGED <<link, exchanges, happened, losses>>

\* The exchange without a name is registered too.
CreateExchange ==
    \E x \in Exchanges, name \in UserNames \cup {NoName} :
        /\ Call
        /\ object[x].life = "new"
        /\ exchanges[name] = None
        /\ Created(x, name, FALSE)
        /\ exchanges' = Put(exchanges, name, x)
        /\ UNCHANGED <<link, queues, happened, losses>>

\* The destructors, and destroyed() after them; the channel stays open.
Delete(o) ==
    /\ Call
    /\ Live(o)
    /\ object' = [object EXCEPT ![o].life = "dead"]
    /\ exchanges' = Removed(exchanges, o)
    /\ queues' = Removed(queues, o)
    /\ UNCHANGED <<link, in, broker, happened, losses>>

SetName(o) ==
    /\ Call
    /\ Live(o)
    /\ \E name \in UserNames : object' = [object EXCEPT ![o].name = name]
    /\ Happens(IF o \in Registered(exchanges) \cup Registered(queues)
               THEN {"renamed"} ELSE {})
    /\ UNCHANGED <<link, exchanges, queues, in, broker, losses>>

-----------------------------------------------------------------------------
(* Declaring, removing, purging, binding and unbinding.                    *)

DeclareEvents(o) ==
    IF o \in Queues /\ \E i \in DOMAIN in : /\ in[i].type = "DeclareOk"
                                            /\ in[i].object = o
                                            /\ in[i].name # object[o].name
    THEN {"twice"} ELSE {}

\* Mutant: an exchange without a name is declared too.
DeclareNowUnnamed(o) == Send(o, [type |-> "Declare", name |-> object[o].name])

\* declare() of the private classes, on an open channel: an exchange without
\* a name is not declared.
DeclareNow(o) ==
    IF o \in Exchanges /\ object[o].name = NoName
    THEN UNCHANGED <<broker, in>>
    ELSE Send(o, [type |-> "Declare", name |-> object[o].name])

\* The bound on the names that the broker gives.
CanDeclare(o) ==
    o \in Queues /\ object[o].name = NoName => broker.given < NumServer

DeclareClears(o) == o \in Queues \/ object[o].name # NoName

Declare(o) ==
    /\ Call
    /\ Live(o)
    /\ IF object[o].opened
       THEN /\ CanDeclare(o)
            /\ DeclareNow(o)
            /\ Happens(DeclareEvents(o))
            /\ object' = [object EXCEPT ![o].delayedDeclare = @ /\ ~DeclareClears(o)]
       ELSE /\ object' = [object EXCEPT ![o].delayedDeclare = TRUE]
            /\ UNCHANGED <<broker, in, happened>>
    /\ UNCHANGED <<link, exchanges, queues, losses>>

\* A queue is declared under the name, or the answer that says so is on its way.
DeclaredAs(q, name) ==
    \/ Live(q) /\ object[q].declared /\ object[q].name = name
    \/ Contains(in, [type |-> "DeclareOk", object |-> q, name |-> name])

\* What is special about removing an object.
RemoveEvents(o, noWait) ==
    IF link # "up" THEN {}
    ELSE (IF broker.channel[o] = "closed" THEN {"closed"} ELSE {})
            \cup (IF o \in Queues /\ noWait THEN {"unanswered"} ELSE {})
            \cup (IF o \in Queues /\ \E q \in Queues \ {o} : DeclaredAs(q, object[o].name)
                  THEN {"others"} ELSE {})

\* A queue is removed only if it is declared, an exchange always; whether the
\* channel is open is not asked.  A remove() that the broker refuses, for what
\* is used or not empty, is a BrokerCloses before it.
RemoveObject(o) ==
    /\ Call
    /\ Live(o)
    /\ o \in Queues => object[o].declared
    /\ \E noWait \in BOOLEAN :
          /\ Send(o, [type |-> "Delete", name |-> object[o].name, noWait |-> noWait])
          /\ Happens(RemoveEvents(o, noWait))
    /\ UNCHANGED <<link, object, exchanges, queues, losses>>

\* Mutant: purge is sent before openOk too.
AskAnytime(q) ==
    /\ Call
    /\ Live(q)
    /\ \E type \in {"PurgeOk", "BindOk", "UnbindOk"} :
          Send(q, [type |-> type, name |-> object[q].name])
    /\ UNCHANGED <<link, object, exchanges, queues, happened, losses>>

\* purge, bind and unbind; a bind before openOk is delayed (see Channels).
Ask(q) ==
    /\ Call
    /\ Live(q)
    /\ object[q].opened
    /\ \E type \in {"PurgeOk", "BindOk", "UnbindOk"} :
          Send(q, [type |-> type, name |-> object[q].name])
    /\ UNCHANGED <<link, object, exchanges, queues, happened, losses>>

-----------------------------------------------------------------------------
(* Frames received.                                                        *)

Receive(type) ==
    /\ link = "up"
    /\ in # <<>>
    /\ Head(in).type = type

Source == Head(in).object

\* What is left to read when the handler sends a frame itself.
SendAfter(o, frame) ==
    LET taken == Takes(broker, o, frame)
    IN  broker' = taken.broker /\ in' = Tail(in) \o taken.answer

\* openOk, and channelOpened after it.
ReceiveOpenOk ==
    /\ Receive("OpenOk")
    /\ LET o == Source
           declares == Live(o) /\ object[o].delayedDeclare /\ DeclareClears(o)
       IN  /\ IF declares
              THEN CanDeclare(o) /\ SendAfter(o, [type |-> "Declare", name |-> object[o].name])
              ELSE in' = Tail(in) /\ UNCHANGED broker
           /\ object' = IF Live(o)
                        THEN [object EXCEPT ![o].opened = TRUE,
                                            ![o].delayedDeclare = @ /\ ~declares]
                        ELSE object
    /\ UNCHANGED <<link, exchanges, queues, happened, calls, losses>>

\* Mutant: declared() is emitted before the name is read.
ReceiveDeclareOkEarly ==
    /\ Receive("DeclareOk")
    /\ LET o == Source
           name == Head(in).name
           stored == Live(o) /\ object[o].hooked /\ object[o].name # NoName
       IN  /\ object' = IF Live(o)
                        THEN [object EXCEPT ![o].declared = TRUE,
                                            ![o].name = IF o \in Queues THEN name ELSE @]
                        ELSE object
           /\ queues' = IF stored THEN Put(queues, object[o].name, o) ELSE queues
           /\ Happens(IF stored /\ queues[object[o].name] \notin {None, o}
                      THEN {"displaced"} ELSE {})
    /\ in' = Tail(in)
    /\ UNCHANGED <<link, exchanges, broker, calls, losses>>

\* The name is the broker's; queueDeclared() runs first among the slots on
\* declared(), and stores the queue if it had no name when it was created.
ReceiveDeclareOk ==
    /\ Receive("DeclareOk")
    /\ LET o == Source
           name == Head(in).name
           stored == Live(o) /\ object[o].hooked
       IN  /\ object' = IF Live(o)
                        THEN [object EXCEPT ![o].declared = TRUE,
                                            ![o].name = IF o \in Queues THEN name ELSE @]
                        ELSE object
           /\ queues' = IF stored THEN Put(queues, name, o) ELSE queues
           /\ Happens(IF stored /\ queues[name] \notin {None, o} THEN {"displaced"} ELSE {})
    /\ in' = Tail(in)
    /\ UNCHANGED <<link, exchanges, broker, calls, losses>>

\* Mutant: removed() is emitted, isDeclared() left as it is.
ReceiveDeleteOkKeepsDeclared ==
    /\ Receive("DeleteOk")
    /\ in' = Tail(in)
    /\ UNCHANGED <<link, object, exchanges, queues, broker, happened, calls, losses>>

ReceiveDeleteOk ==
    /\ Receive("DeleteOk")
    /\ object' = IF Live(Source) THEN [object EXCEPT ![Source].declared = FALSE] ELSE object
    /\ in' = Tail(in)
    /\ UNCHANGED <<link, exchanges, queues, broker, happened, calls, losses>>

\* purgeOk, bindOk and unbindOk are only reported.
ReceiveServed ==
    /\ \E type \in {"PurgeOk", "BindOk", "UnbindOk"} : Receive(type)
    /\ in' = Tail(in)
    /\ UNCHANGED <<link, object, exchanges, queues, broker, happened, calls, losses>>

\* closeOk is sent; declared is left as it is.  The broker waits for a closeOk
\* that an object deleted meanwhile never sends.
ReceiveClose ==
    /\ Receive("Close")
    /\ object' = IF Live(Source) THEN [object EXCEPT ![Source].opened = FALSE] ELSE object
    /\ broker' = IF Live(Source) /\ ~broker.refused
                 THEN [broker EXCEPT !.channel[Source] = "closed"] ELSE broker
    /\ in' = Tail(in)
    /\ UNCHANGED <<link, exchanges, queues, happened, calls, losses>>

-----------------------------------------------------------------------------
(* The connection.                                                         *)

\* connected(): _q_open of every object there is, which has a channel of its
\* own to open.
LinkUp ==
    /\ link = "down"
    /\ link' = "up"
    /\ LET opening == {o \in Objects : Live(o) /\ ~object[o].opened}
       IN  /\ broker' = Opens(broker, opening)
           /\ in' = SetToSeq([type : {"OpenOk"}, object : opening])
    /\ UNCHANGED <<object, exchanges, queues, happened, calls, losses>>

\* resetInternalState of what is registered.
Reset(o, c) ==
    IF o \in Registered(exchanges) \cup Registered(queues)
    THEN [c EXCEPT !.opened = FALSE, !.delayedDeclare = FALSE, !.declared = FALSE]
    ELSE c

\* _q_disconnected of what there is; a queue's is the one of its channel.
Disconnected(o, c) ==
    CASE o \in Exchanges -> [c EXCEPT !.opened = FALSE, !.delayedDeclare = FALSE,
                                      !.declared = FALSE]
      [] o \in Queues    -> [c EXCEPT !.opened = FALSE]

\* With the connection go the channels, and the queues that are exclusive.
ConnectionGone ==
    \E kept \in SUBSET broker.queues :
        broker' = [broker EXCEPT !.queues = kept, !.refused = FALSE,
                                 !.channel = [o \in Objects |-> "closed"],
                                 !.last = [o \in Objects |-> NoName]]

SocketClosed ==
    /\ link # "down"
    /\ losses < MaxLosses
    /\ losses' = losses + 1
    /\ link' = "down"
    /\ object' = [o \in Objects |-> IF Live(o) THEN Disconnected(o, Reset(o, object[o]))
                                    ELSE object[o]]
    /\ in' = <<>>
    /\ ConnectionGone
    /\ UNCHANGED <<exchanges, queues, happened, calls>>

\* The socket takes its time to close: after a connection.close of the broker
\* disconnected() has been emitted already, after the client's own it has not.
LinkCloses ==
    /\ link = "up"
    /\ link' = "closing"
    /\ \/ object' = [o \in Objects |-> IF Live(o) THEN Disconnected(o, object[o])
                                       ELSE object[o]]
       \/ UNCHANGED object
    /\ in' = <<>>
    /\ ConnectionGone
    /\ UNCHANGED <<exchanges, queues, happened, calls, losses>>

-----------------------------------------------------------------------------
User ==
    \/ CreateQueue \/ CreateExchange
    \/ \E o \in Objects : Delete(o) \/ SetName(o) \/ Declare(o) \/ RemoveObject(o)
    \/ \E q \in Queues : Ask(q)

Reading ==
    \/ ReceiveOpenOk \/ ReceiveDeclareOk \/ ReceiveDeleteOk \/ ReceiveServed
    \/ ReceiveClose

Next ==
    \/ User \/ Reading \/ BrokerCloses \/ OthersDelete
    \/ LinkUp \/ SocketClosed \/ LinkCloses

Spec == Init /\ [][Next]_vars

-----------------------------------------------------------------------------
(* Properties.                                                             *)

\* The registry holds no pointer to a destroyed object, under whatever names
\* it was registered: resetChannelState and createQueue would use it.
RegisteredAreAlive ==
    \A o \in Registered(exchanges) \cup Registered(queues) : Live(o)

\* createQueue and createExchange return what has the name asked for: the
\* name an object is registered under is still its own, unless it is renamed
\* or gets two names from the broker.
LookupByName ==
    happened \cap {"renamed", "twice"} = {} =>
        /\ \A n \in DOMAIN queues : queues[n] # None => object[queues[n]].name = n
        /\ \A n \in DOMAIN exchanges : exchanges[n] # None => object[exchanges[n]].name = n

\* Without a connection nothing says that it is declared or open, although a
\* queue is reset only through the registry, unless it was displaced there.
NoneStale ==
    link = "down" /\ "displaced" \notin happened =>
        \A o \in Objects : Live(o) => ~object[o].declared /\ ~object[o].opened

\* A frame on a channel that is not open ends the connection: of declare,
\* purge, bind, unbind and remove, the calls of this module, only remove() may
\* send one, on a channel that the broker has closed.  Calls of other modules
\* that do not ask are the events "closed" of Publishing, for publish and
\* enableConfirms, and "unopened" of Channels, for qos and resume.
OnlyRemoveIsRefused == "closed" \notin happened => ~broker.refused

\* isDeclared() is true only of what the broker has, once all its answers are
\* read, as long as one object goes by a name, nobody else deletes it, and no
\* queue is removed with roNoWait: no answer clears isDeclared() then.
DeclaredExists ==
    (/\ link = "up"
     /\ happened \cap {"renamed", "displaced", "others", "unanswered"} = {})
    => \A o \in Objects :
           (/\ Live(o) /\ object[o].declared
            /\ \A i \in DOMAIN in : in[i].object # o)
           => object[o].name \in (IF o \in Queues THEN broker.queues ELSE broker.exchanges)

=============================================================================
