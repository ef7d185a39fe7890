--------------------------- MODULE RegistryProofs ---------------------------
(***************************************************************************)
(* For any exchanges and queues, any names, and any number of calls and    *)
(* losses: the registry keeps no pointer to a destroyed object, it reaches *)
(* everything that has to be reset when the connection ends and finds each *)
(* object by its name, and what says that it is declared exists.           *)
(***************************************************************************)
EXTENDS Registry, SequenceFacts

GivenNames == UserNames \cup ServerNames

\* The frames as they really are: a declareOk always has a name.
NamedFrames ==
    [type : {"OpenOk", "DeleteOk", "PurgeOk", "BindOk", "UnbindOk", "Close"}, object : Objects]
        \cup [type : {"DeclareOk"}, object : Objects, name : GivenNames]

\* Only a queue has a name of the broker or waits for one.
WellNamed(objects) ==
    \A x \in Exchanges : objects[x].name \in UserNames \cup {NoName} /\ ~objects[x].hooked

\* The entries of a registry live.
Alive(hash, objects) ==
    \A n \in DOMAIN hash : hash[n] # None => objects[hash[n]].life = "live"

WireTyped == broker \in Broker /\ in \in Seq(NamedFrames)

ObjectsTyped == object \in [Objects -> Object] /\ WellNamed(object)

HashesTyped ==
    /\ exchanges \in [UserNames \cup {NoName} -> Exchanges \cup {None}]
    /\ queues \in [GivenNames -> Queues \cup {None}]

BoundsTyped ==
    /\ link \in {"down", "up", "closing"}
    /\ happened \subseteq Events
    /\ calls \in 0..MaxCalls
    /\ losses \in 0..MaxLosses

Inv ==
    /\ WireTyped
    /\ ObjectsTyped
    /\ HashesTyped
    /\ BoundsTyped
    /\ Alive(exchanges, object)
    /\ Alive(queues, object)

LEMMA NamedAreFrames == NamedFrames \subseteq Frames
  BY DEF NamedFrames, Frames, GivenNames, Names

LEMMA InvIsEnough == Inv => TypeOK /\ RegisteredAreAlive
<1> SUFFICES ASSUME Inv PROVE TypeOK /\ RegisteredAreAlive
  OBVIOUS
<1>1. in \in Seq(Frames)
  BY NamedAreFrames DEF Inv, WireTyped
<1>2. TypeOK
  BY <1>1 DEF Inv, WireTyped, ObjectsTyped, HashesTyped, BoundsTyped, TypeOK, GivenNames
<1>3. RegisteredAreAlive
  BY DEF Inv, Alive, RegisteredAreAlive, Registered, Live
<1>4. QED
  BY <1>2, <1>3

-----------------------------------------------------------------------------
(* Lemmas on the operators.                                                *)

\* The frames that a call or a handler sends.
OutFrames ==
    [type : {"Declare", "PurgeOk", "BindOk", "UnbindOk"}, name : Names]
        \cup [type : {"Delete"}, name : Names, noWait : BOOLEAN]

\* A declare is sent of an exchange with a name, and of a queue without one
\* only while there are names left.
Sendable(b, o, frame) ==
    frame.type = "Declare" =>
        /\ o \in Exchanges => frame.name \in UserNames
        /\ o \in Queues /\ frame.name = NoName => b.given < NumServer

WellAnswered(taken) == taken.broker \in Broker /\ taken.answer \in Seq(NamedFrames)

LEMMA NothingAnswered ==
    ASSUME NEW b \in Broker PROVE WellAnswered(Answered(b, <<>>))
  BY DEF WellAnswered, Answered

LEMMA OneAnswered ==
    ASSUME NEW b \in Broker, NEW frame \in NamedFrames
    PROVE  WellAnswered(Answered(b, <<frame>>))
  BY DEF WellAnswered, Answered

LEMMA ClosesChannelTyped ==
    ASSUME NEW b \in Broker, NEW o \in Objects
    PROVE  WellAnswered(ClosesChannel(b, o))
<1>1. [b EXCEPT !.channel[o] = "closing"] \in Broker
  BY DEF Broker
<1>2. [type |-> "Close", object |-> o] \in NamedFrames
  BY DEF NamedFrames
<1>3. QED
  BY <1>1, <1>2, OneAnswered DEF ClosesChannel

LEMMA DeclaresQueueTyped ==
    ASSUME NEW b \in Broker, NEW o \in Objects, NEW name \in Names,
           name = NoName => b.given < NumServer
    PROVE  WellAnswered(DeclaresQueue(b, o, name))
<1> DEFINE n == IF name = NoName THEN b.given + 1 ELSE name
           c == [b EXCEPT !.queues = @ \cup {n}, !.last[o] = n,
                          !.given = IF name = NoName THEN @ + 1 ELSE @]
<1>1. n \in GivenNames
  BY RegistryAssumption DEF Broker, Names, GivenNames, ServerNames, NoName
<1>2. (IF name = NoName THEN b.given + 1 ELSE b.given) \in 0..NumServer
  BY RegistryAssumption DEF Broker
<1>3. c \in Broker
  BY <1>1, <1>2 DEF Broker, GivenNames, Names
<1>4. [type |-> "DeclareOk", object |-> o, name |-> n] \in NamedFrames
  BY <1>1 DEF NamedFrames
<1>5. QED
  BY <1>3, <1>4, OneAnswered DEF DeclaresQueue

LEMMA DeclaresExchangeTyped ==
    ASSUME NEW b \in Broker, NEW o \in Objects, NEW name \in UserNames
    PROVE  WellAnswered(DeclaresExchange(b, o, name))
<1>1. [b EXCEPT !.exchanges = @ \cup {name}] \in Broker
  BY DEF Broker
<1>2. [type |-> "DeclareOk", object |-> o, name |-> name] \in NamedFrames
  BY DEF NamedFrames, GivenNames
<1>3. QED
  BY <1>1, <1>2, OneAnswered DEF DeclaresExchange

LEMMA DeletesTyped ==
    ASSUME NEW b \in Broker, NEW o \in Objects, NEW name \in Names, NEW noWait
    PROVE  WellAnswered(Deletes(b, o, name, noWait))
<1>1. [b EXCEPT !.queues = @ \ {name}] \in Broker
  BY DEF Broker
<1>2. [b EXCEPT !.exchanges = @ \ {name}] \in Broker
  BY DEF Broker
<1>3. [type |-> "DeleteOk", object |-> o] \in NamedFrames
  BY DEF NamedFrames
<1>4. QED
  BY <1>1, <1>2, <1>3, OneAnswered, NothingAnswered, ClosesChannelTyped DEF Deletes

LEMMA ServesTyped ==
    ASSUME NEW b \in Broker, NEW o \in Objects, NEW name \in Names,
           NEW type \in {"PurgeOk", "BindOk", "UnbindOk"}
    PROVE  WellAnswered(Serves(b, o, name, type))
<1>1. [type |-> type, object |-> o] \in NamedFrames
  BY DEF NamedFrames
<1>2. QED
  BY <1>1, OneAnswered, ClosesChannelTyped DEF Serves

LEMMA TakesTyped ==
    ASSUME NEW b \in Broker, NEW o \in Objects, NEW frame \in OutFrames,
           Sendable(b, o, frame)
    PROVE  WellAnswered(Takes(b, o, frame))
<1>1. CASE b.refused \/ b.channel[o] = "closing"
  BY <1>1, NothingAnswered DEF Takes
<1>2. CASE ~b.refused /\ b.channel[o] = "closed"
  <2>1. [b EXCEPT !.refused = TRUE] \in Broker
    BY DEF Broker
  <2>2. QED
    BY <1>2, <2>1, NothingAnswered DEF Takes
<1>3. CASE ~b.refused /\ b.channel[o] = "open"
  <2>1. CASE frame.type = "Declare" /\ o \in Queues
    <3>1. frame.name \in Names
      BY DEF OutFrames
    <3>2. WellAnswered(DeclaresQueue(b, o, frame.name))
      BY <2>1, <3>1, DeclaresQueueTyped DEF Sendable
    <3>3. o \notin Exchanges
      BY <2>1, RegistryAssumption
    <3>4. QED
      BY <1>3, <2>1, <3>2, <3>3 DEF Takes
  <2>2. CASE frame.type = "Declare" /\ o \notin Queues
    <3>1. o \in Exchanges
      BY <2>2 DEF Objects
    <3>2. frame.name \in UserNames
      BY <2>2, <3>1 DEF Sendable
    <3>3. QED
      BY <1>3, <2>2, <3>1, <3>2, DeclaresExchangeTyped DEF Takes, OutFrames
  <2>3. CASE frame.type = "Delete"
    BY <1>3, <2>3, DeletesTyped DEF Takes, OutFrames
  <2>4. CASE frame.type \in {"PurgeOk", "BindOk", "UnbindOk"}
    BY <1>3, <2>4, ServesTyped DEF Takes, OutFrames
  <2>5. QED
    BY <2>1, <2>2, <2>3, <2>4 DEF OutFrames
<1>4. QED
  BY <1>1, <1>2, <1>3 DEF Broker

-----------------------------------------------------------------------------
(* Lemmas on what the actions have in common.                              *)

LEMMA SendTyped ==
    ASSUME Inv, NEW o \in Objects, NEW frame \in OutFrames,
           Sendable(broker, o, frame), Send(o, frame)
    PROVE  WireTyped'
<1>1. WellAnswered(Takes(broker, o, frame))
  BY TakesTyped DEF Inv, WireTyped
<1>2. CASE link = "up"
  <2>1. /\ broker' = Takes(broker, o, frame).broker
        /\ in' = in \o Takes(broker, o, frame).answer
    BY <1>2 DEF Send
  <2>2. QED
    BY <1>1, <2>1 DEF WellAnswered, Inv, WireTyped
<1>3. CASE link # "up"
  BY <1>3 DEF Send, Inv, WireTyped
<1>4. QED
  BY <1>2, <1>3

LEMMA SendAfterTyped ==
    ASSUME Inv, NEW o \in Objects, NEW frame \in OutFrames, in # <<>>,
           Sendable(broker, o, frame), SendAfter(o, frame)
    PROVE  WireTyped'
<1>1. WellAnswered(Takes(broker, o, frame))
  BY TakesTyped DEF Inv, WireTyped
<1>2. QED
  BY <1>1 DEF SendAfter, WellAnswered, Inv, WireTyped

LEMMA ReceiveTyped ==
    ASSUME Inv, NEW type, Receive(type)
    PROVE  /\ in # <<>> /\ Head(in) \in NamedFrames /\ Source \in Objects
           /\ Tail(in) \in Seq(NamedFrames)
  BY DEF Inv, WireTyped, Receive, Source, NamedFrames

LEMMA CallBounded == ASSUME Inv, Call PROVE calls' \in 0..MaxCalls
  BY RegistryAssumption DEF Inv, BoundsTyped, Call

LEMMA HappensTyped ==
    ASSUME Inv, NEW events \in SUBSET Events, Happens(events)
    PROVE  happened' \subseteq Events
  BY DEF Inv, BoundsTyped, Happens

\* A handler that ends no object's life.
KeepsAlive == \A o \in Objects : Live(o) => Live(o)'

LEMMA AliveKept ==
    ASSUME NEW hash, \A n \in DOMAIN hash : hash[n] \in Objects \cup {None},
           Alive(hash, object), KeepsAlive
    PROVE  Alive(hash, object')
  BY DEF Alive, KeepsAlive, Live

LEMMA HashesAliveKept ==
    ASSUME Inv, KeepsAlive
    PROVE  Alive(exchanges, object') /\ Alive(queues, object')
<1>1. \A n \in DOMAIN exchanges : exchanges[n] \in Objects \cup {None}
  BY DEF Inv, HashesTyped, Objects
<1>2. \A n \in DOMAIN queues : queues[n] \in Objects \cup {None}
  BY DEF Inv, HashesTyped, Objects
<1>3. QED
  BY <1>1, <1>2, AliveKept DEF Inv

\* A handler that leaves the registry as it is, and no object dead.
LEMMA InvKept ==
    ASSUME Inv, WireTyped', ObjectsTyped', BoundsTyped', KeepsAlive,
           UNCHANGED <<exchanges, queues>>
    PROVE  Inv'
<1>1. Alive(exchanges, object') /\ Alive(queues, object')
  BY HashesAliveKept
<1>2. Alive(exchanges, object)' /\ Alive(queues, object)'
  BY <1>1 DEF Alive
<1>3. HashesTyped'
  BY DEF Inv, HashesTyped
<1>4. QED
  BY <1>2, <1>3 DEF Inv

LEMMA ObjectUnchanged == ASSUME Inv, UNCHANGED object PROVE ObjectsTyped' /\ KeepsAlive
  BY DEF Inv, ObjectsTyped, WellNamed, KeepsAlive, Live

LEMMA WireUnchanged == ASSUME Inv, UNCHANGED <<broker, in>> PROVE WireTyped'
  BY DEF Inv, WireTyped

\* One object changes, and lives if it lived.
LEMMA OneSet ==
    ASSUME Inv, NEW o \in Objects, NEW c \in Object,
           object' = [object EXCEPT ![o] = c],
           o \in Exchanges => c.name \in UserNames \cup {NoName} /\ ~c.hooked,
           object[o].life = "live" => c.life = "live"
    PROVE  ObjectsTyped' /\ KeepsAlive
<1>1. object' \in [Objects -> Object]
  BY DEF Inv, ObjectsTyped
<1>2. \A p \in Objects : object'[p] = IF p = o THEN c ELSE object[p]
  BY DEF Inv, ObjectsTyped
<1>3. WellNamed(object)'
  BY <1>2 DEF Inv, ObjectsTyped, WellNamed, Objects
<1>4. KeepsAlive
  BY <1>2 DEF KeepsAlive, Live
<1>5. QED
  BY <1>1, <1>3, <1>4 DEF ObjectsTyped

\* Its fields other than its life and name are set.
LEMMA FieldsSet ==
    ASSUME Inv, NEW o \in Objects, NEW x \in BOOLEAN, NEW y \in BOOLEAN,
           NEW z \in BOOLEAN,
           object' = [object EXCEPT ![o] =
               [object[o] EXCEPT !.opened = x, !.delayedDeclare = y, !.declared = z]]
    PROVE  ObjectsTyped' /\ KeepsAlive
<1> DEFINE c == [object[o] EXCEPT !.opened = x, !.delayedDeclare = y, !.declared = z]
<1>1. object[o] \in Object
  BY DEF Inv, ObjectsTyped
<1>2. /\ c \in Object /\ c.life = object[o].life
      /\ c.name = object[o].name /\ c.hooked = object[o].hooked
  BY <1>1 DEF Object
<1>3. o \in Exchanges => c.name \in UserNames \cup {NoName} /\ ~c.hooked
  BY <1>2 DEF Inv, ObjectsTyped, WellNamed
<1> HIDE DEF c
<1>4. object' = [object EXCEPT ![o] = c]
  BY DEF c
<1>5. QED
  BY <1>2, <1>3, <1>4, OneSet

LEMMA FlagSet ==
    ASSUME Inv, NEW o \in Objects, NEW x \in BOOLEAN,
           \/ object' = [object EXCEPT ![o].delayedDeclare = x]
           \/ object' = [object EXCEPT ![o].opened = x]
           \/ object' = [object EXCEPT ![o].declared = x]
    PROVE  ObjectsTyped' /\ KeepsAlive
<1> DEFINE c == object[o]
<1>1. c \in Object
  BY DEF Inv, ObjectsTyped
<1>2. c.opened \in BOOLEAN /\ c.delayedDeclare \in BOOLEAN /\ c.declared \in BOOLEAN
  BY <1>1 DEF Object
<1>3. CASE object' = [object EXCEPT ![o].delayedDeclare = x]
  <2>1. object' = [object EXCEPT ![o] = [object[o] EXCEPT !.opened = c.opened,
                     !.delayedDeclare = x, !.declared = c.declared]]
    BY <1>1, <1>3 DEF Object, Inv, ObjectsTyped
  <2>2. QED
    BY <1>2, <2>1, FieldsSet
<1>4. CASE object' = [object EXCEPT ![o].opened = x]
  <2>1. object' = [object EXCEPT ![o] = [object[o] EXCEPT !.opened = x,
                     !.delayedDeclare = c.delayedDeclare, !.declared = c.declared]]
    BY <1>1, <1>4 DEF Object, Inv, ObjectsTyped
  <2>2. QED
    BY <1>2, <2>1, FieldsSet
<1>5. CASE object' = [object EXCEPT ![o].declared = x]
  <2>1. object' = [object EXCEPT ![o] = [object[o] EXCEPT !.opened = c.opened,
                     !.delayedDeclare = c.delayedDeclare, !.declared = x]]
    BY <1>1, <1>5 DEF Object, Inv, ObjectsTyped
  <2>2. QED
    BY <1>2, <2>1, FieldsSet
<1>6. QED
  BY <1>3, <1>4, <1>5

LEMMA OpenedSet ==
    ASSUME Inv, NEW o \in Objects, NEW x \in BOOLEAN, NEW y \in BOOLEAN,
           object' = [object EXCEPT ![o].opened = x, ![o].delayedDeclare = y]
    PROVE  ObjectsTyped' /\ KeepsAlive
<1>1. object[o] \in Object
  BY DEF Inv, ObjectsTyped
<1>2. object' = [object EXCEPT ![o] = [object[o] EXCEPT !.opened = x,
                   !.delayedDeclare = y, !.declared = object[o].declared]]
  BY <1>1 DEF Object, Inv, ObjectsTyped
<1>3. QED
  BY <1>1, <1>2, FieldsSet DEF Object

-----------------------------------------------------------------------------
(* Lemmas on the actions.                                                  *)

\* What createQueue and createExchange share.
LEMMA CreatedKept ==
    ASSUME Inv, NEW o \in Objects, object[o].life = "new", NEW hooked \in BOOLEAN,
           NEW name \in UserNames \cup {NoName}, o \in Exchanges => ~hooked,
           Created(o, name, hooked)
    PROVE  WireTyped' /\ ObjectsTyped' /\ KeepsAlive /\ Live(o)'
<1> DEFINE c == [New EXCEPT !.life = "live", !.name = name, !.hooked = hooked]
<1>1. /\ c \in Object /\ c.life = "live" /\ c.name = name /\ c.hooked = hooked
  BY DEF New, Object, Names
<1>2. object' = [object EXCEPT ![o] = c]
  BY DEF Created
<1> HIDE DEF c
<1>3. ObjectsTyped' /\ KeepsAlive
  BY <1>1, <1>2, OneSet
<1>4. Live(o)'
  BY <1>1, <1>2 DEF Live, Inv, ObjectsTyped
<1>5. Opens(broker, {o}) \in Broker
  BY DEF Opens, Broker, Inv, WireTyped
<1>6. [type |-> "OpenOk", object |-> o] \in NamedFrames
  BY DEF NamedFrames
<1>7. Append(in, [type |-> "OpenOk", object |-> o]) \in Seq(NamedFrames)
  BY <1>6 DEF Inv, WireTyped
<1>8. WireTyped'
  BY <1>5, <1>7 DEF Created, Inv, WireTyped
<1>9. QED
  BY <1>3, <1>4, <1>8

LEMMA CreateQueueKept == ASSUME Inv, CreateQueue PROVE Inv'
<1>1. PICK q \in Queues, name \in UserNames \cup {NoName} :
        /\ Call
        /\ object[q].life = "new"
        /\ Created(q, name, name = NoName)
        /\ queues' = IF name = NoName THEN queues ELSE Put(queues, name, q)
        /\ UNCHANGED <<link, exchanges, happened, losses>>
  BY DEF CreateQueue
<1>2. q \in Objects /\ q \notin Exchanges
  BY RegistryAssumption DEF Objects
<1>3. WireTyped' /\ ObjectsTyped' /\ KeepsAlive /\ Live(q)'
  BY <1>1, <1>2, CreatedKept
<1>4. Alive(exchanges, object') /\ Alive(queues, object')
  BY <1>3, HashesAliveKept
<1>5. Alive(exchanges, object)' /\ Alive(queues, object)'
  BY <1>1, <1>3, <1>4 DEF Alive, Put, Live, Inv, HashesTyped
<1>6. HashesTyped'
  BY <1>1 DEF Inv, HashesTyped, Put, GivenNames
<1>7. BoundsTyped'
  BY <1>1, CallBounded DEF Inv, BoundsTyped
<1>8. QED
  BY <1>3, <1>5, <1>6, <1>7 DEF Inv

LEMMA CreateExchangeKept == ASSUME Inv, CreateExchange PROVE Inv'
<1>1. PICK x \in Exchanges, name \in UserNames \cup {NoName} :
        /\ Call
        /\ object[x].life = "new"
        /\ Created(x, name, FALSE)
        /\ exchanges' = Put(exchanges, name, x)
        /\ UNCHANGED <<link, queues, happened, losses>>
  BY DEF CreateExchange
<1>2. x \in Objects
  BY DEF Objects
<1>3. WireTyped' /\ ObjectsTyped' /\ KeepsAlive /\ Live(x)'
  BY <1>1, <1>2, CreatedKept
<1>4. Alive(exchanges, object') /\ Alive(queues, object')
  BY <1>3, HashesAliveKept
<1>5. Alive(exchanges, object)' /\ Alive(queues, object)'
  BY <1>1, <1>3, <1>4 DEF Alive, Put, Live, Inv, HashesTyped
<1>6. HashesTyped'
  BY <1>1 DEF Inv, HashesTyped, Put
<1>7. BoundsTyped'
  BY <1>1, CallBounded DEF Inv, BoundsTyped
<1>8. QED
  BY <1>3, <1>5, <1>6, <1>7 DEF Inv

\* channelDestroyed removes every entry of the object, under whatever name.
LEMMA RemovedAlive ==
    ASSUME Inv, NEW o \in Objects, NEW hash, Alive(hash, object),
           object' = [object EXCEPT ![o].life = "dead"],
           \A n \in DOMAIN hash : hash[n] \in Objects \cup {None}
    PROVE  Alive(Removed(hash, o), object')
  BY DEF Inv, ObjectsTyped, Object, Alive, Removed

LEMMA DeleteKept == ASSUME Inv, NEW o \in Objects, Delete(o) PROVE Inv'
<1>1. /\ \A n \in DOMAIN exchanges : exchanges[n] \in Objects \cup {None}
      /\ \A n \in DOMAIN queues : queues[n] \in Objects \cup {None}
  BY DEF Inv, HashesTyped, Objects
<1>2. Alive(Removed(exchanges, o), object') /\ Alive(Removed(queues, o), object')
  BY <1>1, RemovedAlive DEF Inv, Delete
<1>3. Alive(exchanges, object)' /\ Alive(queues, object)'
  BY <1>2 DEF Delete, Alive
<1>4. HashesTyped'
  BY DEF Delete, Removed, Inv, HashesTyped
<1>5. ObjectsTyped'
  BY DEF Delete, Inv, ObjectsTyped, WellNamed, Object, Objects
<1>6. WireTyped'
  BY WireUnchanged DEF Delete
<1>7. BoundsTyped'
  BY CallBounded DEF Delete, Inv, BoundsTyped
<1>8. QED
  BY <1>3, <1>4, <1>5, <1>6, <1>7 DEF Inv

LEMMA SetNameKept == ASSUME Inv, NEW o \in Objects, SetName(o) PROVE Inv'
<1>1. PICK name \in UserNames : object' = [object EXCEPT ![o].name = name]
  BY DEF SetName
<1> DEFINE c == [object[o] EXCEPT !.name = name]
<1>2. object[o] \in Object
  BY DEF Inv, ObjectsTyped
<1>3. /\ c \in Object /\ c.life = object[o].life /\ c.name = name
      /\ c.hooked = object[o].hooked
  BY <1>2 DEF Object, Names
<1>4. object' = [object EXCEPT ![o] = c]
  BY <1>1
<1> HIDE DEF c
<1>5. o \in Exchanges => ~c.hooked
  BY <1>3 DEF Inv, ObjectsTyped, WellNamed
<1>6. ObjectsTyped' /\ KeepsAlive
  BY <1>3, <1>4, <1>5, OneSet
<1>7. (IF o \in Registered(exchanges) \cup Registered(queues) THEN {"renamed"} ELSE {})
        \in SUBSET Events
  BY DEF Events
<1>8. BoundsTyped'
  BY <1>7, CallBounded, HappensTyped DEF SetName, Inv, BoundsTyped
<1>9. QED
  BY <1>6, <1>8, WireUnchanged, InvKept DEF SetName

LEMMA NameTyped ==
    ASSUME Inv, NEW o \in Objects
    PROVE  /\ object[o] \in Object /\ object[o].name \in Names
           /\ o \in Exchanges => object[o].name \in UserNames \cup {NoName}
  BY DEF Inv, ObjectsTyped, WellNamed, Object

\* The declare that is sent, if one is.
LEMMA DeclareSendable ==
    ASSUME Inv, NEW o \in Objects, DeclareClears(o), CanDeclare(o),
           NEW frame, frame = [type |-> "Declare", name |-> object[o].name]
    PROVE  frame \in OutFrames /\ Sendable(broker, o, frame)
  BY NameTyped, RegistryAssumption
     DEF OutFrames, Sendable, DeclareClears, CanDeclare, Objects

LEMMA DeclareEventsTyped == ASSUME NEW o PROVE DeclareEvents(o) \in SUBSET Events
  BY DEF DeclareEvents, Events

LEMMA DeclareKept == ASSUME Inv, NEW o \in Objects, Declare(o) PROVE Inv'
<1>1. object[o] \in Object
  BY NameTyped
<1>2. PICK x \in BOOLEAN : object' = [object EXCEPT ![o].delayedDeclare = x]
  <2>1. CASE object[o].opened
    <3>1. (object[o].delayedDeclare /\ ~DeclareClears(o)) \in BOOLEAN
      OBVIOUS
    <3>2. object' = [object EXCEPT ![o].delayedDeclare =
                        object[o].delayedDeclare /\ ~DeclareClears(o)]
      BY <2>1 DEF Declare
    <3>3. QED
      BY <3>1, <3>2
  <2>2. CASE ~object[o].opened
    BY <2>2 DEF Declare
  <2>3. QED
    BY <2>1, <2>2
<1>3. ObjectsTyped' /\ KeepsAlive
  BY <1>2, FlagSet
<1>4. WireTyped'
  <2>1. CASE object[o].opened /\ DeclareClears(o)
    <3>1. ~(o \in Exchanges /\ object[o].name = NoName)
      BY <2>1, RegistryAssumption DEF DeclareClears
    <3>2. Send(o, [type |-> "Declare", name |-> object[o].name])
      BY <2>1, <3>1 DEF Declare, DeclareNow
    <3>3. CanDeclare(o)
      BY <2>1 DEF Declare
    <3>4. QED
      BY <2>1, <3>2, <3>3, DeclareSendable, SendTyped
  <2>2. CASE object[o].opened /\ ~DeclareClears(o)
    <3>1. o \in Exchanges /\ object[o].name = NoName
      BY <2>2 DEF DeclareClears, Objects
    <3>2. QED
      BY <2>2, <3>1, WireUnchanged DEF Declare, DeclareNow
  <2>3. CASE ~object[o].opened
    BY <2>3, WireUnchanged DEF Declare
  <2>4. QED
    BY <2>1, <2>2, <2>3
<1>5. BoundsTyped'
  <2>1. calls' \in 0..MaxCalls
    BY CallBounded DEF Declare
  <2>2. happened' \subseteq Events
    BY DeclareEventsTyped, HappensTyped DEF Declare, Inv, BoundsTyped
  <2>3. QED
    BY <2>1, <2>2 DEF Declare, Inv, BoundsTyped
<1>6. QED
  BY <1>3, <1>4, <1>5, InvKept DEF Declare

LEMMA RemoveObjectKept == ASSUME Inv, NEW o \in Objects, RemoveObject(o) PROVE Inv'
<1> PICK noWait \in BOOLEAN :
       /\ Send(o, [type |-> "Delete", name |-> object[o].name, noWait |-> noWait])
       /\ Happens(RemoveEvents(o, noWait))
  BY DEF RemoveObject
<1>1. [type |-> "Delete", name |-> object[o].name, noWait |-> noWait] \in OutFrames
  BY NameTyped DEF OutFrames
<1>2. WireTyped'
  BY <1>1, SendTyped DEF Sendable
<1>3. RemoveEvents(o, noWait) \in SUBSET Events
  BY DEF RemoveEvents, Events
<1>4. BoundsTyped'
  BY <1>3, CallBounded, HappensTyped DEF RemoveObject, Inv, BoundsTyped
<1>5. QED
  BY <1>2, <1>4, ObjectUnchanged, InvKept DEF RemoveObject

LEMMA AskKept == ASSUME Inv, NEW q \in Queues, Ask(q) PROVE Inv'
<1>1. PICK type \in {"PurgeOk", "BindOk", "UnbindOk"} :
        Send(q, [type |-> type, name |-> object[q].name])
  BY DEF Ask
<1>2. q \in Objects
  BY DEF Objects
<1>3. [type |-> type, name |-> object[q].name] \in OutFrames
  BY <1>2, NameTyped DEF OutFrames
<1>4. WireTyped'
  BY <1>1, <1>2, <1>3, SendTyped DEF Sendable
<1>5. BoundsTyped'
  BY CallBounded DEF Ask, Inv, BoundsTyped
<1>6. QED
  BY <1>4, <1>5, ObjectUnchanged, InvKept DEF Ask

LEMMA UserKept == ASSUME Inv, User PROVE Inv'
  BY CreateQueueKept, CreateExchangeKept, DeleteKept, SetNameKept, DeclareKept,
     RemoveObjectKept, AskKept DEF User

-----------------------------------------------------------------------------

LEMMA ReceiveOpenOkKept == ASSUME Inv, ReceiveOpenOk PROVE Inv'
<1> DEFINE o == Source
           declares == Live(o) /\ object[o].delayedDeclare /\ DeclareClears(o)
<1>1. /\ in # <<>> /\ o \in Objects /\ Tail(in) \in Seq(NamedFrames)
  BY ReceiveTyped DEF ReceiveOpenOk
<1>2. object[o] \in Object
  BY <1>1, NameTyped
<1>3. WireTyped'
  <2>1. CASE declares
    BY <1>1, <2>1, DeclareSendable, SendAfterTyped DEF ReceiveOpenOk
  <2>2. CASE ~declares
    BY <1>1, <2>2 DEF ReceiveOpenOk, Inv, WireTyped
  <2>3. QED
    BY <2>1, <2>2
<1>4. ObjectsTyped' /\ KeepsAlive
  <2>1. CASE Live(o)
    <3>1. (object[o].delayedDeclare /\ ~declares) \in BOOLEAN
      OBVIOUS
    <3>2. object' = [object EXCEPT ![o].opened = TRUE,
                        ![o].delayedDeclare = object[o].delayedDeclare /\ ~declares]
      BY <2>1 DEF ReceiveOpenOk
    <3>3. QED
      BY <1>1, <3>1, <3>2, OpenedSet
  <2>2. CASE ~Live(o)
    BY <2>2, ObjectUnchanged DEF ReceiveOpenOk
  <2>3. QED
    BY <2>1, <2>2
<1>5. QED
  BY <1>3, <1>4, InvKept DEF ReceiveOpenOk, Inv, BoundsTyped

LEMMA ReceiveDeclareOkKept == ASSUME Inv, ReceiveDeclareOk PROVE Inv'
<1> DEFINE o == Source
           name == Head(in).name
           stored == Live(o) /\ object[o].hooked
           c == [object[o] EXCEPT !.declared = TRUE,
                                  !.name = IF o \in Queues THEN name
                                           ELSE object[o].name]
<1>1. /\ o \in Objects /\ Tail(in) \in Seq(NamedFrames) /\ name \in GivenNames
  BY ReceiveTyped DEF ReceiveDeclareOk, Receive, NamedFrames
<1>2. object[o] \in Object /\ object[o].name \in Names
  BY <1>1, NameTyped
<1>3. ObjectsTyped' /\ KeepsAlive /\ (stored => object'[o].life = "live")
  <2>1. CASE Live(o)
    <3>1. object' = [object EXCEPT ![o] = c]
      <4>1. CASE o \in Queues
        BY <1>1, <1>2, <2>1, <4>1 DEF ReceiveDeclareOk, Inv, ObjectsTyped, Object
      <4>2. CASE o \notin Queues
        BY <1>1, <1>2, <2>1, <4>2 DEF ReceiveDeclareOk, Inv, ObjectsTyped, Object
      <4>3. QED
        BY <4>1, <4>2
    <3>2. /\ c \in Object /\ c.life = object[o].life /\ c.hooked = object[o].hooked
          /\ c.name = IF o \in Queues THEN name ELSE object[o].name
      BY <1>1, <1>2 DEF Object, GivenNames, Names
    <3> HIDE DEF c
    <3>3. o \in Exchanges => c.name \in UserNames \cup {NoName} /\ ~c.hooked
      BY <1>1, <3>2, NameTyped, RegistryAssumption DEF Inv, ObjectsTyped, WellNamed
    <3>4. ObjectsTyped' /\ KeepsAlive
      BY <1>1, <3>1, <3>2, <3>3, OneSet
    <3>5. QED
      BY <1>1, <2>1, <3>4 DEF KeepsAlive, Live
  <2>2. CASE ~Live(o)
    BY <2>2, ObjectUnchanged DEF ReceiveDeclareOk
  <2>3. QED
    BY <2>1, <2>2
<1>4. Alive(exchanges, object') /\ Alive(queues, object')
  BY <1>3, HashesAliveKept
<1>5. queues' = IF stored THEN Put(queues, name, o) ELSE queues
  BY DEF ReceiveDeclareOk
<1>6. exchanges' = exchanges
  BY DEF ReceiveDeclareOk
<1>7. Alive(exchanges, object)' /\ Alive(queues, object)'
  <2>1. CASE stored
    <3> HIDE DEF stored, o, name
    <3>1. queues' = [queues EXCEPT ![name] = o] /\ object'[o].life = "live"
      BY <1>3, <1>5, <2>1 DEF Put
    <3>2. QED
      BY <1>4, <1>6, <3>1 DEF Alive, Inv, HashesTyped
  <2>2. CASE ~stored
    BY <1>4, <1>5, <1>6, <2>2 DEF Alive
  <2>3. QED
    BY <2>1, <2>2
<1>8. HashesTyped'
  <2>1. stored => o \in Queues
    BY <1>1 DEF Inv, ObjectsTyped, WellNamed, Objects
  <2>2. QED
    BY <1>5, <1>6, <2>1 DEF Inv, HashesTyped, Put
<1>9. BoundsTyped'
  <2>1. (IF stored /\ queues[name] \notin {None, o} THEN {"displaced"} ELSE {})
          \in SUBSET Events
    BY DEF Events
  <2>2. QED
    BY <2>1, HappensTyped DEF ReceiveDeclareOk, Inv, BoundsTyped
<1>10. WireTyped'
  BY <1>1 DEF ReceiveDeclareOk, Inv, WireTyped
<1>11. QED
  BY <1>3, <1>7, <1>8, <1>9, <1>10 DEF Inv

LEMMA ReceiveDeleteOkKept == ASSUME Inv, ReceiveDeleteOk PROVE Inv'
<1> DEFINE o == Source
<1>1. o \in Objects /\ Tail(in) \in Seq(NamedFrames)
  BY ReceiveTyped DEF ReceiveDeleteOk
<1>2. ObjectsTyped' /\ KeepsAlive
  <2>1. object' = [object EXCEPT ![o].declared = FALSE] \/ object' = object
    BY DEF ReceiveDeleteOk
  <2>2. QED
    BY <1>1, <2>1, FlagSet, ObjectUnchanged
<1>3. QED
  BY <1>1, <1>2, InvKept DEF ReceiveDeleteOk, Inv, WireTyped, BoundsTyped

LEMMA ReceiveServedKept == ASSUME Inv, ReceiveServed PROVE Inv'
<1>1. Tail(in) \in Seq(NamedFrames)
  BY ReceiveTyped DEF ReceiveServed
<1>2. QED
  BY <1>1, ObjectUnchanged, InvKept DEF ReceiveServed, Inv, WireTyped, BoundsTyped

LEMMA ReceiveCloseKept == ASSUME Inv, ReceiveClose PROVE Inv'
<1> DEFINE o == Source
<1>1. o \in Objects /\ Tail(in) \in Seq(NamedFrames)
  BY ReceiveTyped DEF ReceiveClose
<1>2. ObjectsTyped' /\ KeepsAlive
  <2>1. object' = [object EXCEPT ![o].opened = FALSE] \/ object' = object
    BY DEF ReceiveClose
  <2>2. QED
    BY <1>1, <2>1, FlagSet, ObjectUnchanged
<1>3. broker' \in Broker
  <2>1. [broker EXCEPT !.channel[o] = "closed"] \in Broker
    BY <1>1 DEF Inv, WireTyped, Broker
  <2>2. QED
    BY <2>1 DEF ReceiveClose, Inv, WireTyped
<1>4. QED
  BY <1>1, <1>2, <1>3, InvKept DEF ReceiveClose, Inv, WireTyped, BoundsTyped

LEMMA ReadingKept == ASSUME Inv, Reading PROVE Inv'
  BY ReceiveOpenOkKept, ReceiveDeclareOkKept, ReceiveDeleteOkKept, ReceiveServedKept,
     ReceiveCloseKept DEF Reading

-----------------------------------------------------------------------------

LEMMA BrokerClosesKept == ASSUME Inv, BrokerCloses PROVE Inv'
<1>1. PICK o \in Objects : /\ broker' = ClosesChannel(broker, o).broker
                           /\ in' = in \o ClosesChannel(broker, o).answer
  BY DEF BrokerCloses
<1>2. WellAnswered(ClosesChannel(broker, o))
  BY ClosesChannelTyped DEF Inv, WireTyped
<1>3. WireTyped'
  BY <1>1, <1>2 DEF WellAnswered, Inv, WireTyped
<1>4. BoundsTyped'
  BY CallBounded DEF BrokerCloses, Inv, BoundsTyped
<1>5. QED
  BY <1>3, <1>4, ObjectUnchanged, InvKept DEF BrokerCloses

LEMMA OthersDeleteKept == ASSUME Inv, OthersDelete PROVE Inv'
<1>1. broker' \in Broker
  BY DEF OthersDelete, Inv, WireTyped, Broker
<1>2. happened' \subseteq Events
  BY HappensTyped DEF OthersDelete, Events
<1>3. BoundsTyped'
  BY <1>2, CallBounded DEF OthersDelete, Inv, BoundsTyped
<1>4. QED
  BY <1>1, <1>3, ObjectUnchanged, InvKept DEF OthersDelete, Inv, WireTyped

\* The channels that are opened when the connection is made.
LEMMA OpenOksTyped ==
    ASSUME NEW opening \in SUBSET Objects
    PROVE  SetToSeq([type : {"OpenOk"}, object : opening]) \in Seq(NamedFrames)
<1> DEFINE F == [type : {"OpenOk"}, object : opening]
           g == [o \in opening |-> [type |-> "OpenOk", object |-> o]]
<1>1. IsFiniteSet(opening)
  <2>1. IsFiniteSet(Exchanges \cup Queues)
    BY FS_Union, RegistryAssumption
  <2>2. QED
    BY <2>1, FS_Subset DEF Objects
<1>2. ExistsBijection(opening, F)
  <2>1. g \in [opening -> F]
    OBVIOUS
  <2>2. \A a, b \in opening : g[a] = g[b] => a = b
    OBVIOUS
  <2>3. \A f \in F : \E o \in opening : g[o] = f
    OBVIOUS
  <2> HIDE DEF g
  <2>4. g \in Bijection(opening, F)
    BY <2>1, <2>2, <2>3 DEF Bijection, Injection, Surjection, IsInjective
  <2>5. QED
    BY <2>4 DEF ExistsBijection
<1>3. IsFiniteSet(F)
  BY <1>1, <1>2, FS_Bijection
<1> HIDE DEF F
<1>4. Cardinality(F) \in Nat /\ ExistsBijection(1..Cardinality(F), F)
  BY <1>3, FS_CardinalityType
<1>5. \E f \in [1..Cardinality(F) -> F] : IsInjective(f)
  BY <1>4 DEF ExistsBijection, Bijection, Injection
<1>6. SetToSeq(F) \in [1..Cardinality(F) -> F]
  BY <1>5 DEF SetToSeq
<1>7. SetToSeq(F) \in Seq(F)
  BY <1>4, <1>6
<1>8. F \subseteq NamedFrames
  BY DEF F, NamedFrames
<1>9. SetToSeq(F) \in Seq(NamedFrames)
  BY <1>7, <1>8
<1>10. QED
  BY <1>9 DEF F

LEMMA LinkUpKept == ASSUME Inv, LinkUp PROVE Inv'
<1> DEFINE opening == {o \in Objects : Live(o) /\ ~object[o].opened}
<1>1. in' \in Seq(NamedFrames)
  BY OpenOksTyped DEF LinkUp
<1>2. broker' \in Broker
  BY DEF LinkUp, Opens, Inv, WireTyped, Broker
<1>3. BoundsTyped'
  BY DEF LinkUp, Inv, BoundsTyped
<1>4. QED
  BY <1>1, <1>2, <1>3, ObjectUnchanged, InvKept DEF LinkUp, WireTyped

LEMMA ConnectionGoneTyped == ASSUME Inv, ConnectionGone PROVE broker' \in Broker
<1> DEFINE channels == [o \in Objects |-> "closed"]
           lasts == [o \in Objects |-> NoName]
<1>1. PICK kept \in SUBSET broker.queues :
        broker' = [broker EXCEPT !.queues = kept, !.refused = FALSE,
                                 !.channel = channels, !.last = lasts]
  BY DEF ConnectionGone
<1>2. channels \in [Objects -> {"closed", "open", "closing"}]
  OBVIOUS
<1>3. lasts \in [Objects -> Names]
  BY DEF Names
<1> HIDE DEF channels, lasts
<1>4. broker \in Broker
  BY DEF Inv, WireTyped
<1>5. QED
  BY <1>1, <1>2, <1>3, <1>4 DEF Broker

\* What the end of a connection makes of an object.
LEMMA DisconnectedTyped ==
    ASSUME NEW o \in Objects, NEW c \in Object
    PROVE  /\ Disconnected(o, c) \in Object /\ Disconnected(o, c).life = c.life
           /\ Disconnected(o, c).name = c.name /\ Disconnected(o, c).hooked = c.hooked
<1>1. CASE o \in Exchanges
  <2>1. o \notin Queues
    BY <1>1, RegistryAssumption
  <2>2. Disconnected(o, c) = [c EXCEPT !.opened = FALSE, !.delayedDeclare = FALSE,
                                       !.declared = FALSE]
    BY <1>1, <2>1 DEF Disconnected
  <2>3. QED
    BY <2>2 DEF Object
<1>2. CASE o \in Queues
  <2>1. o \notin Exchanges
    BY <1>2, RegistryAssumption
  <2>2. Disconnected(o, c) = [c EXCEPT !.opened = FALSE]
    BY <1>2, <2>1 DEF Disconnected
  <2>3. QED
    BY <2>2 DEF Object
<1>3. QED
  BY <1>1, <1>2 DEF Objects

LEMMA ResetTyped ==
    ASSUME NEW o, NEW c \in Object
    PROVE  /\ Reset(o, c) \in Object /\ Reset(o, c).life = c.life
           /\ Reset(o, c).name = c.name /\ Reset(o, c).hooked = c.hooked
  BY DEF Reset, Object

LEMMA AllDisconnected ==
    ASSUME Inv,
           object' \in [Objects -> Object],
           \A o \in Objects : /\ object'[o].life = object[o].life
                              /\ object'[o].name = object[o].name
                              /\ object'[o].hooked = object[o].hooked
    PROVE  ObjectsTyped' /\ KeepsAlive
  BY DEF Inv, ObjectsTyped, WellNamed, KeepsAlive, Live, Objects

LEMMA SocketClosedKept == ASSUME Inv, SocketClosed PROVE Inv'
<1>1. \A o \in Objects : object[o] \in Object
  BY DEF Inv, ObjectsTyped
<1>2. object' = [o \in Objects |-> IF Live(o) THEN Disconnected(o, Reset(o, object[o]))
                                  ELSE object[o]]
  BY DEF SocketClosed
<1>3. ObjectsTyped' /\ KeepsAlive
  BY <1>1, <1>2, ResetTyped, DisconnectedTyped, AllDisconnected
<1>4. WireTyped'
  BY ConnectionGoneTyped DEF SocketClosed, WireTyped
<1>5. BoundsTyped'
  BY RegistryAssumption DEF SocketClosed, Inv, BoundsTyped
<1>6. QED
  BY <1>3, <1>4, <1>5, InvKept DEF SocketClosed

LEMMA LinkClosesKept == ASSUME Inv, LinkCloses PROVE Inv'
<1>1. \A o \in Objects : object[o] \in Object
  BY DEF Inv, ObjectsTyped
<1>2. ObjectsTyped' /\ KeepsAlive
  <2>1. CASE object' = [o \in Objects |-> IF Live(o) THEN Disconnected(o, object[o])
                                         ELSE object[o]]
    BY <1>1, <2>1, DisconnectedTyped, AllDisconnected
  <2>2. CASE UNCHANGED object
    BY <2>2, ObjectUnchanged
  <2>3. QED
    BY <2>1, <2>2 DEF LinkCloses
<1>3. WireTyped'
  BY ConnectionGoneTyped DEF LinkCloses, WireTyped
<1>4. BoundsTyped'
  BY DEF LinkCloses, Inv, BoundsTyped
<1>5. QED
  BY <1>2, <1>3, <1>4, InvKept DEF LinkCloses

-----------------------------------------------------------------------------
(* The invariant.                                                          *)

LEMMA InitInv == Init => Inv
<1> SUFFICES ASSUME Init PROVE Inv
  OBVIOUS
<1>1. WireTyped
  BY RegistryAssumption DEF Init, WireTyped, Broker, Names
<1>2. ObjectsTyped
  BY DEF Init, ObjectsTyped, WellNamed, New, Object, Names, Objects
<1>3. HashesTyped
  BY DEF Init, HashesTyped, GivenNames
<1>4. BoundsTyped
  BY RegistryAssumption DEF Init, BoundsTyped
<1>5. Alive(exchanges, object) /\ Alive(queues, object)
  BY DEF Init, Alive
<1>6. QED
  BY <1>1, <1>2, <1>3, <1>4, <1>5 DEF Inv

LEMMA NextInv == Inv /\ [Next]_vars => Inv'
<1> SUFFICES ASSUME Inv, [Next]_vars PROVE Inv'
  OBVIOUS
<1>1. CASE Next
  BY <1>1, UserKept, ReadingKept, BrokerClosesKept, OthersDeleteKept, LinkUpKept,
     SocketClosedKept, LinkClosesKept DEF Next
<1>2. CASE UNCHANGED vars
  BY <1>2, ObjectUnchanged, WireUnchanged, InvKept DEF vars, Inv, BoundsTyped
<1>3. QED
  BY <1>1, <1>2

LEMMA Invariance == Spec => []Inv
  BY InitInv, NextInv, PTL DEF Spec

-----------------------------------------------------------------------------
(* What is declared is reached by the reset.                               *)

\* A queue that says that it is declared, or was registered when it was made,
\* is in the registry, unless another of its name took the place.
Reached ==
    "displaced" \notin happened =>
        \A q \in Queues :
            Live(q) /\ (object[q].declared \/ ~object[q].hooked) => q \in Registered(queues)

StaleInv == Inv /\ Reached /\ NoneStale

\* One object of a step that changes nothing of what the invariant is about,
\* or only for the better.
NoStaler(o) ==
    /\ Live(o)' => Live(o)
    /\ Live(o)' /\ object'[o].declared => object[o].declared
    /\ Live(o)' /\ object'[o].opened /\ link' = "down" => object[o].opened
    /\ Live(o)' /\ ~object'[o].hooked => ~object[o].hooked

LEMMA StaleKept ==
    ASSUME StaleInv, Inv', happened \subseteq happened', UNCHANGED queues,
           link' = "down" => link = "down",
           \A o \in Objects : NoStaler(o)
    PROVE  StaleInv'
<1>1. Reached'
  BY DEF StaleInv, Reached, Registered, Live, NoStaler, Objects
<1>2. NoneStale'
  BY DEF StaleInv, NoneStale, Live, NoStaler
<1>3. QED
  BY <1>1, <1>2 DEF StaleInv

LEMMA UnchangedNoStaler ==
    ASSUME UNCHANGED object PROVE \A o \in Objects : NoStaler(o)
  BY DEF NoStaler, Live

\* A step that sets one field of one object, other than to declare it.
LEMMA FieldNoStaler ==
    ASSUME Inv, NEW o \in Objects, NEW x,
           \/ object' = [object EXCEPT ![o].delayedDeclare = x]
           \/ object' = [object EXCEPT ![o].name = x]
           \/ object' = [object EXCEPT ![o].opened = x] /\ ~x
           \/ object' = [object EXCEPT ![o].declared = x] /\ ~x
    PROVE  \A p \in Objects : NoStaler(p)
<1>1. object \in [Objects -> Object]
  BY DEF Inv, ObjectsTyped
<1>2. SUFFICES ASSUME NEW p \in Objects PROVE NoStaler(p)
  OBVIOUS
<1>3. CASE p # o
  BY <1>1, <1>3 DEF NoStaler, Live
<1>4. CASE p = o
  <2>1. CASE object' = [object EXCEPT ![o].delayedDeclare = x]
    BY <1>1, <1>4, <2>1 DEF NoStaler, Live, Object
  <2>2. CASE object' = [object EXCEPT ![o].name = x]
    BY <1>1, <1>4, <2>2 DEF NoStaler, Live, Object
  <2>3. CASE object' = [object EXCEPT ![o].opened = x] /\ ~x
    BY <1>1, <1>4, <2>3 DEF NoStaler, Live, Object
  <2>4. CASE object' = [object EXCEPT ![o].declared = x] /\ ~x
    BY <1>1, <1>4, <2>4 DEF NoStaler, Live, Object
  <2>5. QED
    BY <2>1, <2>2, <2>3, <2>4
<1>5. QED
  BY <1>3, <1>4

LEMMA CreatedFresh ==
    ASSUME Inv, NEW o \in Objects, NEW name, NEW hooked \in BOOLEAN,
           Created(o, name, hooked)
    PROVE  /\ ~object'[o].declared /\ ~object'[o].opened /\ object'[o].hooked = hooked
           /\ \A p \in Objects : p # o => object'[p] = object[p]
  BY DEF Inv, ObjectsTyped, Created, New

LEMMA CreateQueueStale == ASSUME StaleInv, Inv', CreateQueue PROVE StaleInv'
<1>1. PICK q \in Queues, name \in UserNames \cup {NoName} :
        /\ name # NoName => queues[name] = None
        /\ Created(q, name, name = NoName)
        /\ queues' = IF name = NoName THEN queues ELSE Put(queues, name, q)
        /\ UNCHANGED <<link, happened>>
  BY DEF CreateQueue
<1>2. q \in Objects
  BY DEF Objects
<1>3. /\ ~object'[q].declared /\ ~object'[q].opened /\ object'[q].hooked = (name = NoName)
      /\ \A p \in Objects : p # q => object'[p] = object[p]
  BY <1>1, <1>2, CreatedFresh DEF StaleInv
<1>4. queues \in [GivenNames -> Queues \cup {None}] /\ q # None
  BY RegistryAssumption DEF StaleInv, Inv, HashesTyped
<1>5. Registered(queues) \subseteq Registered(queues)'
  <2>1. CASE name = NoName
    BY <1>1, <2>1 DEF Registered
  <2>2. CASE name # NoName
    BY <1>1, <1>4, <2>2 DEF Registered, Put, GivenNames
  <2>3. QED
    BY <2>1, <2>2
<1>6. name # NoName => q \in Registered(queues)'
  BY <1>1, <1>4 DEF Registered, Put, GivenNames
<1>7. Reached'
  BY <1>1, <1>3, <1>5, <1>6 DEF StaleInv, Reached, Live, Objects
<1>8. NoneStale'
  BY <1>1, <1>3 DEF StaleInv, NoneStale, Live
<1>9. QED
  BY <1>7, <1>8 DEF StaleInv

LEMMA CreateExchangeStale == ASSUME StaleInv, Inv', CreateExchange PROVE StaleInv'
<1>1. PICK x \in Exchanges, name \in UserNames \cup {NoName} :
        Created(x, name, FALSE) /\ UNCHANGED <<link, queues, happened>>
  BY DEF CreateExchange
<1>2. x \in Objects /\ x \notin Queues
  BY RegistryAssumption DEF Objects
<1>3. /\ ~object'[x].declared /\ ~object'[x].opened
      /\ \A p \in Objects : p # x => object'[p] = object[p]
  BY <1>1, <1>2, CreatedFresh DEF StaleInv
<1>4. Reached'
  BY <1>1, <1>2, <1>3 DEF StaleInv, Reached, Registered, Live, Objects
<1>5. NoneStale'
  BY <1>1, <1>3 DEF StaleInv, NoneStale, Live
<1>6. QED
  BY <1>4, <1>5 DEF StaleInv

LEMMA DeleteStale == ASSUME StaleInv, Inv', NEW o \in Objects, Delete(o) PROVE StaleInv'
<1>1. /\ object'[o].life = "dead"
      /\ \A p \in Objects : p # o => object'[p] = object[p]
  BY DEF Delete, StaleInv, Inv, ObjectsTyped, Object
<1>2. Registered(queues) \ {o} \subseteq Registered(queues)'
  BY DEF Delete, Removed, Registered
<1>3. Reached'
  BY <1>1, <1>2 DEF Delete, StaleInv, Reached, Live, Objects
<1>4. NoneStale'
  BY <1>1 DEF Delete, StaleInv, NoneStale, Live
<1>5. QED
  BY <1>3, <1>4 DEF StaleInv

LEMMA SetNameStale == ASSUME StaleInv, Inv', NEW o \in Objects, SetName(o) PROVE StaleInv'
<1>1. PICK name \in UserNames : object' = [object EXCEPT ![o].name = name]
  BY DEF SetName
<1>2. \A p \in Objects : NoStaler(p)
  BY <1>1, FieldNoStaler DEF StaleInv
<1>3. happened \subseteq happened'
  BY DEF SetName, Happens
<1>4. QED
  BY <1>2, <1>3, StaleKept DEF SetName

LEMMA DeclareStale == ASSUME StaleInv, Inv', NEW o \in Objects, Declare(o) PROVE StaleInv'
<1>1. PICK x : object' = [object EXCEPT ![o].delayedDeclare = x]
  BY DEF Declare
<1>2. \A p \in Objects : NoStaler(p)
  BY <1>1, FieldNoStaler DEF StaleInv
<1>3. happened \subseteq happened'
  BY DEF Declare, Happens
<1>4. QED
  BY <1>2, <1>3, StaleKept DEF Declare

\* The calls and handlers that leave the objects as they are.
LEMMA NoObjectStale ==
    ASSUME StaleInv, Inv',
           \/ \E o \in Objects : RemoveObject(o)
           \/ \E q \in Queues : Ask(q)
           \/ ReceiveServed \/ BrokerCloses \/ OthersDelete
    PROVE  StaleInv'
<1>1. UNCHANGED <<object, queues, link>> /\ happened \subseteq happened'
  BY DEF RemoveObject, Ask, ReceiveServed, BrokerCloses, OthersDelete, Happens
<1>2. QED
  BY <1>1, UnchangedNoStaler, StaleKept

LEMMA UserStale == ASSUME StaleInv, Inv', User PROVE StaleInv'
  BY CreateQueueStale, CreateExchangeStale, DeleteStale, SetNameStale, DeclareStale,
     NoObjectStale DEF User

-----------------------------------------------------------------------------

LEMMA ReceiveOpenOkStale == ASSUME StaleInv, Inv', ReceiveOpenOk PROVE StaleInv'
<1> DEFINE o == Source
           declares == Live(o) /\ object[o].delayedDeclare /\ DeclareClears(o)
           y == object[o].delayedDeclare /\ ~declares
<1>1. o \in Objects /\ link' = "up"
  BY ReceiveTyped DEF ReceiveOpenOk, Receive, StaleInv
<1>2. \/ object' = [object EXCEPT ![o].opened = TRUE, ![o].delayedDeclare = y]
      \/ object' = object
  BY DEF ReceiveOpenOk
<1> HIDE DEF o, y
<1>3. \A p \in Objects : NoStaler(p)
  <2>1. CASE object' = object
    BY <2>1, UnchangedNoStaler
  <2>2. CASE object' = [object EXCEPT ![o].opened = TRUE, ![o].delayedDeclare = y]
    BY <1>1, <2>2 DEF NoStaler, Live, StaleInv, Inv, ObjectsTyped, Object
  <2>3. QED
    BY <1>2, <2>1, <2>2
<1>4. QED
  BY <1>1, <1>3, StaleKept DEF ReceiveOpenOk

LEMMA ReceiveDeclareOkStale == ASSUME StaleInv, Inv', ReceiveDeclareOk PROVE StaleInv'
<1> DEFINE o == Source
           name == Head(in).name
           stored == Live(o) /\ object[o].hooked
           other == IF o \in Queues THEN name ELSE object[o].name
<1>1. o \in Objects /\ name \in GivenNames /\ link' = "up"
  BY ReceiveTyped DEF ReceiveDeclareOk, Receive, NamedFrames, StaleInv
<1>2. object' = IF Live(o) THEN [object EXCEPT ![o].declared = TRUE, ![o].name = other]
                ELSE object
  BY DEF ReceiveDeclareOk
<1>3. /\ queues' = IF stored THEN Put(queues, name, o) ELSE queues
      /\ happened' = happened \cup
             (IF stored /\ queues[name] \notin {None, o} THEN {"displaced"} ELSE {})
  BY DEF ReceiveDeclareOk, Happens
<1>4. stored => o \in Queues /\ o # None
  BY <1>1, RegistryAssumption DEF StaleInv, Inv, ObjectsTyped, WellNamed, Objects
<1>5. queues \in [GivenNames -> Queues \cup {None}]
  BY DEF StaleInv, Inv, HashesTyped
<1> HIDE DEF o, name, other
<1>6. \A p \in Objects :
        /\ object'[p].life = object[p].life /\ object'[p].hooked = object[p].hooked
        /\ p # o => object'[p].declared = object[p].declared
  <2>1. object \in [Objects -> Object]
    BY DEF StaleInv, Inv, ObjectsTyped
  <2>2. CASE object' = object
    BY <2>2
  <2>3. CASE object' = [object EXCEPT ![o].declared = TRUE, ![o].name = other]
    <3>1. \A p \in Objects : p # o => object'[p] = object[p]
      BY <2>1, <2>3
    <3>2. object'[o] = [object[o] EXCEPT !.declared = TRUE, !.name = other]
      BY <1>1, <2>1, <2>3
    <3>3. object'[o].life = object[o].life /\ object'[o].hooked = object[o].hooked
      BY <1>1, <2>1, <3>2 DEF Object
    <3>4. QED
      BY <3>1, <3>3
  <2>4. QED
    BY <1>2, <2>2, <2>3
<1>7. ASSUME "displaced" \notin happened'
      PROVE  Registered(queues) \subseteq Registered(queues)'
  BY <1>3, <1>5, <1>7 DEF Registered, Put
<1>8. stored => o \in Registered(queues)'
  BY <1>1, <1>3, <1>4, <1>5 DEF Registered, Put
<1>9. Reached'
  <2>1. SUFFICES ASSUME "displaced" \notin happened', NEW q \in Queues,
                        object'[q].life = "live",
                        object'[q].declared \/ ~object'[q].hooked
                 PROVE  q \in Registered(queues)'
    BY DEF Reached, Live
  <2>2. "displaced" \notin happened /\ q \in Objects /\ Live(q)
    BY <1>3, <1>6, <2>1 DEF Live, Objects
  <2>3. CASE q = o /\ stored
    BY <1>8, <2>3
  <2>4. CASE ~(q = o /\ stored)
    <3>1. object[q].declared \/ ~object[q].hooked
      BY <1>6, <2>1, <2>2, <2>4
    <3>2. q \in Registered(queues)
      BY <2>2, <3>1 DEF StaleInv, Reached
    <3>3. QED
      BY <1>7, <2>1, <3>2
  <2>5. QED
    BY <2>3, <2>4
<1>10. NoneStale'
  BY <1>1 DEF NoneStale
<1>11. QED
  BY <1>9, <1>10 DEF StaleInv

LEMMA ReceiveDeleteOkStale == ASSUME StaleInv, Inv', ReceiveDeleteOk PROVE StaleInv'
<1>1. Source \in Objects
  BY ReceiveTyped DEF ReceiveDeleteOk, StaleInv
<1>2. object' = [object EXCEPT ![Source].declared = FALSE] \/ object' = object
  BY DEF ReceiveDeleteOk
<1>3. \A p \in Objects : NoStaler(p)
  BY <1>1, <1>2, FieldNoStaler, UnchangedNoStaler DEF StaleInv
<1>4. QED
  BY <1>3, StaleKept DEF ReceiveDeleteOk

LEMMA ReceiveCloseStale == ASSUME StaleInv, Inv', ReceiveClose PROVE StaleInv'
<1>1. Source \in Objects
  BY ReceiveTyped DEF ReceiveClose, StaleInv
<1>2. object' = [object EXCEPT ![Source].opened = FALSE] \/ object' = object
  BY DEF ReceiveClose
<1>3. \A p \in Objects : NoStaler(p)
  BY <1>1, <1>2, FieldNoStaler, UnchangedNoStaler DEF StaleInv
<1>4. QED
  BY <1>3, StaleKept DEF ReceiveClose

LEMMA ReadingStale == ASSUME StaleInv, Inv', Reading PROVE StaleInv'
  BY ReceiveOpenOkStale, ReceiveDeclareOkStale, ReceiveDeleteOkStale, NoObjectStale,
     ReceiveCloseStale DEF Reading

-----------------------------------------------------------------------------

\* What the end of a connection clears.
LEMMA DisconnectedClears ==
    ASSUME NEW o \in Objects, NEW c \in Object
    PROVE  /\ ~Disconnected(o, c).opened
           /\ Disconnected(o, c).declared => c.declared
           /\ o \in Exchanges => ~Disconnected(o, c).declared
<1>1. CASE o \in Exchanges
  <2>1. o \notin Queues
    BY <1>1, RegistryAssumption
  <2>2. QED
    BY <1>1, <2>1 DEF Disconnected, Object
<1>2. CASE o \in Queues
  <2>1. o \notin Exchanges
    BY <1>2, RegistryAssumption
  <2>2. QED
    BY <1>2, <2>1 DEF Disconnected, Object
<1>3. QED
  BY <1>1, <1>2 DEF Objects

LEMMA ResetClears ==
    ASSUME NEW o, NEW c \in Object
    PROVE  /\ Reset(o, c).declared => c.declared
           /\ o \in Registered(queues) => ~Reset(o, c).declared
  BY DEF Reset, Object

LEMMA LinkUpStale == ASSUME StaleInv, Inv', LinkUp PROVE StaleInv'
  BY UnchangedNoStaler, StaleKept DEF LinkUp

LEMMA SocketClosedStale == ASSUME StaleInv, Inv', SocketClosed PROVE StaleInv'
<1>1. \A o \in Objects : object[o] \in Object
  BY DEF StaleInv, Inv, ObjectsTyped
<1>2. object' = [o \in Objects |-> IF Live(o) THEN Disconnected(o, Reset(o, object[o]))
                                  ELSE object[o]]
  BY DEF SocketClosed
<1>3. ASSUME NEW o \in Objects
      PROVE  /\ object'[o].life = object[o].life /\ object'[o].hooked = object[o].hooked
             /\ Live(o) /\ object'[o].declared => object[o].declared
             /\ Live(o) => ~object'[o].opened
             /\ Live(o) /\ (o \in Exchanges \/ o \in Registered(queues))
                    => ~object'[o].declared
  <2>1. Reset(o, object[o]) \in Object
    BY <1>1, ResetTyped
  <2>2. object'[o] = IF Live(o) THEN Disconnected(o, Reset(o, object[o])) ELSE object[o]
    BY <1>2
  <2>3. QED
    BY <1>1, <2>1, <2>2, ResetTyped, DisconnectedTyped, ResetClears, DisconnectedClears
<1>4. Reached'
  <2>1. SUFFICES ASSUME "displaced" \notin happened, NEW q \in Queues,
                        object'[q].life = "live",
                        object'[q].declared \/ ~object'[q].hooked
                 PROVE  q \in Registered(queues)
    BY DEF SocketClosed, Reached, Registered, Live
  <2>2. Live(q) /\ (object[q].declared \/ ~object[q].hooked)
    BY <1>3, <2>1 DEF Live, Objects
  <2>3. QED
    BY <2>1, <2>2 DEF StaleInv, Reached
<1>5. NoneStale'
  <2>1. SUFFICES ASSUME "displaced" \notin happened, NEW o \in Objects,
                        object'[o].life = "live"
                 PROVE  ~object'[o].declared /\ ~object'[o].opened
    BY DEF SocketClosed, NoneStale, Live
  <2>2. Live(o)
    BY <1>3, <2>1 DEF Live
  <2>3. CASE o \in Exchanges \/ o \in Registered(queues)
    BY <1>3, <2>2, <2>3
  <2>4. CASE o \in Queues /\ o \notin Registered(queues)
    BY <1>3, <2>1, <2>2, <2>4 DEF StaleInv, Reached
  <2>5. QED
    BY <2>3, <2>4 DEF Objects
<1>6. QED
  BY <1>4, <1>5 DEF StaleInv

LEMMA LinkClosesStale == ASSUME StaleInv, Inv', LinkCloses PROVE StaleInv'
<1>1. \A o \in Objects : object[o] \in Object
  BY DEF StaleInv, Inv, ObjectsTyped
<1>2. \A o \in Objects : NoStaler(o)
  <2>1. CASE object' = [o \in Objects |-> IF Live(o) THEN Disconnected(o, object[o])
                                         ELSE object[o]]
    BY <1>1, <2>1, DisconnectedTyped, DisconnectedClears DEF NoStaler, Live
  <2>2. CASE UNCHANGED object
    BY <2>2, UnchangedNoStaler
  <2>3. QED
    BY <2>1, <2>2 DEF LinkCloses
<1>3. QED
  BY <1>2, StaleKept DEF LinkCloses

-----------------------------------------------------------------------------

LEMMA InitStale == Init => StaleInv
<1> SUFFICES ASSUME Init PROVE StaleInv
  OBVIOUS
<1>1. Reached /\ NoneStale
  BY DEF Init, Reached, NoneStale, Live, New, Objects
<1>2. QED
  BY <1>1, InitInv DEF StaleInv

LEMMA NextStale == StaleInv /\ [Next]_vars => StaleInv'
<1> SUFFICES ASSUME StaleInv, [Next]_vars PROVE StaleInv'
  OBVIOUS
<1>1. Inv'
  BY NextInv DEF StaleInv
<1>2. CASE Next
  BY <1>1, <1>2, UserStale, ReadingStale, NoObjectStale, LinkUpStale, SocketClosedStale,
     LinkClosesStale DEF Next
<1>3. CASE UNCHANGED vars
  BY <1>1, <1>3, UnchangedNoStaler, StaleKept DEF vars
<1>4. QED
  BY <1>2, <1>3

-----------------------------------------------------------------------------
(* The frames on their way before a step and after it.                     *)

\* The first k are read, and `new`, if there is one, is added.
Moves(s, r, k, new) ==
    /\ \A j \in DOMAIN r :
          \/ j + k \in DOMAIN s /\ r[j] = s[j + k]
          \/ r[j] \in new /\ \A i \in DOMAIN r : i <= j
    /\ \A j \in DOMAIN s : j > k => j - k \in DOMAIN r /\ r[j - k] = s[j]
    /\ \A f \in new : \E j \in DOMAIN r :
          r[j] = f /\ j + k \notin DOMAIN s /\ \A i \in DOMAIN r : i <= j
    /\ \A f, g \in new : f = g
    /\ DOMAIN s \subseteq Int /\ DOMAIN r \subseteq Int
    /\ k \in {0, 1} /\ \A j \in DOMAIN s : j >= 1
    /\ \A j \in DOMAIN r : j >= 1

LEMMA MovesNone ==
    ASSUME NEW F, NEW s \in Seq(F)
    PROVE  Moves(s, s, 0, {})
<1>1. DOMAIN s \subseteq Int /\ \A j \in DOMAIN s : j >= 1 /\ j + 0 = j /\ j - 0 = j
  OBVIOUS
<1>2. QED
  BY <1>1 DEF Moves

LEMMA MovesTail ==
    ASSUME NEW F, NEW s \in Seq(F), s # <<>>
    PROVE  Moves(s, Tail(s), 1, {})
<1> DEFINE r == Tail(s)
<1>1. /\ \A j \in DOMAIN r : j + 1 \in DOMAIN s /\ r[j] = s[j + 1]
      /\ \A j \in DOMAIN s : j > 1 => j - 1 \in DOMAIN r /\ r[j - 1] = s[j]
      /\ DOMAIN s \subseteq Int /\ DOMAIN r \subseteq Int
      /\ \A j \in DOMAIN s : j >= 1
      /\ \A j \in DOMAIN r : j >= 1
  BY TailEntries
<1> HIDE DEF r
<1>2. Moves(s, r, 1, {})
  BY <1>1 DEF Moves
<1>3. QED
  BY <1>2 DEF r

\* After what is read there is the frame that is added.
LEMMA MovesAdds ==
    ASSUME NEW F, NEW s \in Seq(F), NEW t \in Seq(F), NEW k, Moves(s, t, k, {}), NEW f \in F
    PROVE  Moves(s, t \o <<f>>, k, {f})
<1> DEFINE r == t \o <<f>>
           L == Len(t)
<1>1. /\ DOMAIN t = 1..L /\ L \in Nat /\ DOMAIN r = 1..(L + 1)
      /\ \A j \in 1..L : r[j] = t[j]
      /\ r[L + 1] = f
  OBVIOUS
<1> HIDE DEF r, L
<1>2. /\ \A j \in DOMAIN t : j + k \in DOMAIN s /\ t[j] = s[j + k]
      /\ \A j \in DOMAIN s : j > k => j - k \in DOMAIN t /\ t[j - k] = s[j]
      /\ DOMAIN s \subseteq Int /\ k \in {0, 1} /\ \A j \in DOMAIN s : j >= 1
  BY DEF Moves
<1>3. L + 1 + k \notin DOMAIN s
  <2> SUFFICES ASSUME L + 1 + k \in DOMAIN s
               PROVE  FALSE
    OBVIOUS
  <2>1. L + 1 + k > k /\ (L + 1 + k) - k = L + 1
    BY <1>1, <1>2
  <2>2. L + 1 \in DOMAIN t
    BY <1>2, <2>1
  <2>3. QED
    BY <1>1, <2>2
<1>4. \A j \in DOMAIN r : \/ j + k \in DOMAIN s /\ r[j] = s[j + k]
                          \/ r[j] \in {f} /\ \A i \in DOMAIN r : i <= j
  BY <1>1, <1>2
<1>5. \A j \in DOMAIN s : j > k => j - k \in DOMAIN r /\ r[j - k] = s[j]
  <2> SUFFICES ASSUME NEW j \in DOMAIN s, j > k
               PROVE  j - k \in DOMAIN r /\ r[j - k] = s[j]
    OBVIOUS
  <2>1. j - k \in 1..L /\ t[j - k] = s[j]
    BY <1>1, <1>2
  <2> DEFINE i == j - k
  <2>2. i \in 1..L /\ t[i] = s[j]
    BY <2>1
  <2> HIDE DEF i
  <2>3. i \in DOMAIN r /\ r[i] = s[j]
    BY <1>1, <2>2
  <2>4. QED
    BY <2>3 DEF i
<1>6. \E j \in DOMAIN r : r[j] = f /\ j + k \notin DOMAIN s /\ \A i \in DOMAIN r : i <= j
  <2>1. L + 1 \in DOMAIN r /\ \A i \in DOMAIN r : i <= L + 1
    BY <1>1
  <2>2. QED
    BY <1>1, <1>3, <2>1
<1>7. DOMAIN r \subseteq Int /\ \A j \in DOMAIN r : j >= 1
  BY <1>1
<1>8. Moves(s, r, k, {f})
  BY <1>2, <1>4, <1>5, <1>6, <1>7 DEF Moves
<1>9. QED
  BY <1>8 DEF r

\* What a frame that is sent does, if the connection still is.
LEMMA TakesSays ==
    ASSUME NEW b \in Broker, NEW o \in Objects, NEW frame \in OutFrames,
           Sendable(b, o, frame), NEW taken, taken = Takes(b, o, frame)
    PROVE  /\ \/ taken.answer = <<>>
              \/ \E f \in NamedFrames :
                    /\ taken.answer = <<f>> /\ f.object = o /\ f.type # "OpenOk"
                    /\ f.type = "DeclareOk" =>
                          /\ frame.type = "Declare"
                          /\ f.name = frame.name \/ (o \in Queues /\ frame.name = NoName)
                          /\ f.name \in IF o \in Queues THEN taken.broker.queues
                                        ELSE taken.broker.exchanges
           /\ \A p \in Objects :
                 /\ taken.broker.channel[p] = "closed" => b.channel[p] = "closed"
                 /\ p # o => taken.broker.channel[p] = b.channel[p]
           /\ taken.broker.refused => b.refused \/ b.channel[o] = "closed"
           /\ \A n : n \in b.queues /\ n \notin taken.broker.queues =>
                 /\ o \in Queues /\ frame.type = "Delete" /\ n = frame.name
                 /\ frame.noWait \/ taken.answer = <<[type |-> "DeleteOk", object |-> o]>>
           /\ \A n : n \in b.exchanges /\ n \notin taken.broker.exchanges =>
                 /\ o \in Exchanges /\ frame.type = "Delete" /\ n = frame.name
                 /\ taken.answer = <<[type |-> "DeleteOk", object |-> o]>>
<1> DEFINE Says(t) ==
              /\ \/ t.answer = <<>>
                 \/ \E f \in NamedFrames :
                       /\ t.answer = <<f>> /\ f.object = o /\ f.type # "OpenOk"
                       /\ f.type = "DeclareOk" =>
                             /\ frame.type = "Declare"
                             /\ f.name = frame.name \/ (o \in Queues /\ frame.name = NoName)
                             /\ f.name \in IF o \in Queues THEN t.broker.queues
                                           ELSE t.broker.exchanges
              /\ \A p \in Objects :
                    /\ t.broker.channel[p] = "closed" => b.channel[p] = "closed"
                    /\ p # o => t.broker.channel[p] = b.channel[p]
              /\ t.broker.refused => b.refused \/ b.channel[o] = "closed"
              /\ \A n : n \in b.queues /\ n \notin t.broker.queues =>
                    /\ o \in Queues /\ frame.type = "Delete" /\ n = frame.name
                    /\ frame.noWait \/ t.answer = <<[type |-> "DeleteOk", object |-> o]>>
              /\ \A n : n \in b.exchanges /\ n \notin t.broker.exchanges =>
                    /\ o \in Exchanges /\ frame.type = "Delete" /\ n = frame.name
                    /\ t.answer = <<[type |-> "DeleteOk", object |-> o]>>
<1>1. /\ b.channel \in [Objects -> {"closed", "open", "closing"}]
      /\ b.queues \subseteq GivenNames /\ b.exchanges \subseteq UserNames /\ b.given \in 0..NumServer
      /\ frame.name \in Names
  BY DEF Broker, GivenNames, OutFrames
<1>2. Says(Answered(b, <<>>))
  BY DEF Answered
<1>3. b.channel[o] = "closed" => Says(Answered([b EXCEPT !.refused = TRUE], <<>>))
  BY DEF Answered, Broker
<1>4. Says(ClosesChannel(b, o))
  <2> DEFINE f == [type |-> "Close", object |-> o]
             c == [b EXCEPT !.channel[o] = "closing"]
  <2>1. f \in NamedFrames /\ f.object = o /\ f.type = "Close"
    BY DEF NamedFrames
  <2>2. /\ c.queues = b.queues /\ c.exchanges = b.exchanges /\ c.refused = b.refused
        /\ \A p \in Objects : c.channel[p] = IF p = o THEN "closing" ELSE b.channel[p]
    BY <1>1 DEF Broker
  <2>3. ClosesChannel(b, o).answer = <<f>> /\ ClosesChannel(b, o).broker = c
    BY DEF ClosesChannel, Answered
  <2> HIDE DEF f, c
  <2>4. QED
    BY <2>1, <2>2, <2>3
<1>5. ASSUME frame.type = "Declare", o \in Queues
      PROVE  Says(DeclaresQueue(b, o, frame.name))
  <2> DEFINE n == IF frame.name = NoName THEN b.given + 1 ELSE frame.name
             f == [type |-> "DeclareOk", object |-> o, name |-> n]
             c == [b EXCEPT !.queues = @ \cup {n}, !.last[o] = n,
                            !.given = IF frame.name = NoName THEN @ + 1 ELSE @]
  <2>1. n \in GivenNames
    BY <1>1, <1>5, RegistryAssumption DEF Sendable, Names, GivenNames, ServerNames, NoName
  <2>2. n = frame.name \/ frame.name = NoName
    OBVIOUS
  <2>3. /\ c.queues = b.queues \cup {n} /\ c.exchanges = b.exchanges /\ c.refused = b.refused
        /\ c.channel = b.channel
    BY DEF Broker
  <2>4. DeclaresQueue(b, o, frame.name).answer = <<f>> /\ DeclaresQueue(b, o, frame.name).broker = c
    BY DEF DeclaresQueue, Answered
  <2> HIDE DEF n
  <2>5. f \in NamedFrames /\ f.object = o /\ f.type = "DeclareOk" /\ f.name = n
    BY <2>1 DEF NamedFrames
  <2> HIDE DEF f, c
  <2>6. QED
    BY <1>5, <2>2, <2>3, <2>4, <2>5
<1>6. ASSUME frame.type = "Declare", o \notin Queues
      PROVE  Says(DeclaresExchange(b, o, frame.name))
  <2> DEFINE f == [type |-> "DeclareOk", object |-> o, name |-> frame.name]
             c == [b EXCEPT !.exchanges = @ \cup {frame.name}]
  <2>1. frame.name \in UserNames
    BY <1>6 DEF Sendable, Objects
  <2>2. f \in NamedFrames /\ f.object = o /\ f.type = "DeclareOk" /\ f.name = frame.name
    BY <2>1 DEF NamedFrames, GivenNames
  <2>3. /\ c.exchanges = b.exchanges \cup {frame.name} /\ c.queues = b.queues
        /\ c.refused = b.refused /\ c.channel = b.channel
    BY DEF Broker
  <2>4. DeclaresExchange(b, o, frame.name).answer = <<f>> /\ DeclaresExchange(b, o, frame.name).broker = c
    BY DEF DeclaresExchange, Answered
  <2> HIDE DEF f, c
  <2>5. QED
    BY <1>6, <2>2, <2>3, <2>4
<1>7. ASSUME frame.type = "Delete"
      PROVE  Says(Deletes(b, o, frame.name, frame.noWait))
  <2> DEFINE f == [type |-> "DeleteOk", object |-> o]
             c == [b EXCEPT !.queues = @ \ {frame.name}]
             d == [b EXCEPT !.exchanges = @ \ {frame.name}]
             t == Deletes(b, o, frame.name, frame.noWait)
  <2>1. f \in NamedFrames /\ f.object = o /\ f.type = "DeleteOk"
    BY DEF NamedFrames
  <2>2. /\ c.queues = b.queues \ {frame.name} /\ c.exchanges = b.exchanges
        /\ c.refused = b.refused /\ c.channel = b.channel
        /\ d.exchanges = b.exchanges \ {frame.name} /\ d.queues = b.queues
        /\ d.refused = b.refused /\ d.channel = b.channel
    BY DEF Broker
  <2>3. CASE frame.name = NoName
    BY <1>4, <2>3 DEF Deletes
  <2>4. CASE frame.name # NoName
    <3>1. /\ t.answer = IF o \in Queues /\ frame.noWait THEN <<>> ELSE <<f>>
          /\ t.broker = IF o \in Queues THEN c ELSE d
      BY <2>4 DEF Deletes, Answered
    <3>2. o \notin Queues => o \in Exchanges
      BY DEF Objects
    <3> HIDE DEF c, d, t
    <3>3. /\ t.answer = <<>> \/ t.answer = <<f>>
          /\ \/ o \in Queues /\ frame.noWait
             \/ t.answer = <<[type |-> "DeleteOk", object |-> o]>>
      BY <3>1
    <3> HIDE DEF f
    <3>4. Says(t)
      BY <1>7, <2>1, <2>2, <3>1, <3>2, <3>3
    <3>5. QED
      BY <3>4 DEF t
  <2>5. QED
    BY <2>3, <2>4
<1>8. ASSUME frame.type \in {"PurgeOk", "BindOk", "UnbindOk"}
      PROVE  Says(Serves(b, o, frame.name, frame.type))
  <2> DEFINE f == [type |-> frame.type, object |-> o]
             t == Serves(b, o, frame.name, frame.type)
  <2>1. f \in NamedFrames /\ f.object = o /\ f.type \notin {"OpenOk", "DeclareOk"}
    BY <1>8 DEF NamedFrames
  <2>2. t = Answered(b, <<f>>) \/ t = ClosesChannel(b, o)
    BY DEF Serves
  <2>3. Says(Answered(b, <<f>>))
    BY <2>1 DEF Answered
  <2> HIDE DEF t
  <2>4. Says(t)
    BY <1>4, <2>2, <2>3
  <2>5. QED
    BY <2>4 DEF t
<1> HIDE DEF Says
<1>9. Says(Takes(b, o, frame))
  <2>1. CASE b.refused \/ b.channel[o] = "closing"
    BY <1>2, <2>1 DEF Takes
  <2>2. CASE ~b.refused /\ b.channel[o] = "closed"
    BY <1>3, <2>2 DEF Takes
  <2>3. CASE ~b.refused /\ b.channel[o] = "open"
    <3>1. CASE frame.type = "Declare" /\ o \in Queues
      <4>1. o \notin Exchanges
        BY <3>1, RegistryAssumption
      <4>2. QED
        BY <1>5, <2>3, <3>1, <4>1 DEF Takes
    <3>2. CASE frame.type = "Declare" /\ o \notin Queues
      <4>1. o \in Exchanges
        BY <3>2 DEF Objects
      <4>2. QED
        BY <1>6, <2>3, <3>2, <4>1 DEF Takes
    <3>3. CASE frame.type = "Delete"
      BY <1>7, <2>3, <3>3 DEF Takes
    <3>4. CASE frame.type \in {"PurgeOk", "BindOk", "UnbindOk"}
      BY <1>8, <2>3, <3>4 DEF Takes
    <3>5. QED
      BY <3>1, <3>2, <3>3, <3>4 DEF OutFrames
  <2>4. QED
    BY <1>1, <2>1, <2>2, <2>3
<1>10. QED
  BY <1>9 DEF Says

-----------------------------------------------------------------------------
(* What a frame that is sent leaves.                                       *)

\* The names that are declared of what is of the kind of an object.
Had(b, o) == IF o \in Queues THEN b.queues ELSE b.exchanges

\* After k frames are read, what the broker answers to a frame.
Sent(o, frame, k, new) ==
    /\ Moves(in, in', k, new)
    /\ \A f \in new :
          /\ f \in NamedFrames /\ f.object = o /\ f.type # "OpenOk"
          /\ f.type = "DeclareOk" =>
                /\ frame.type = "Declare"
                /\ f.name = frame.name \/ (o \in Queues /\ frame.name = NoName)
                /\ f.name \in Had(broker', o)
    /\ \A p \in Objects :
          /\ broker'.channel[p] = "closed" => broker.channel[p] = "closed"
          /\ p # o => broker'.channel[p] = broker.channel[p]
    /\ broker'.refused => broker.refused \/ (link = "up" /\ broker.channel[o] = "closed")
    /\ \A n : n \in broker.queues /\ n \notin broker'.queues =>
          /\ o \in Queues /\ frame.type = "Delete" /\ n = frame.name /\ link = "up"
          /\ frame.noWait \/ [type |-> "DeleteOk", object |-> o] \in new
    /\ \A n : n \in broker.exchanges /\ n \notin broker'.exchanges =>
          /\ o \in Exchanges /\ frame.type = "Delete" /\ n = frame.name /\ link = "up"
          /\ [type |-> "DeleteOk", object |-> o] \in new

\* What is left to read, and the answer after it.
LEMMA AnswerMoves ==
    ASSUME Inv, NEW o \in Objects, NEW frame \in OutFrames, Sendable(broker, o, frame),
           link = "up", NEW t \in Seq(NamedFrames), NEW k \in {0, 1}, Moves(in, t, k, {}),
           NEW taken, taken = Takes(broker, o, frame),
           broker' = taken.broker, in' = t \o taken.answer
    PROVE  \E new : Sent(o, frame, k, new)
<1>1. broker \in Broker
  BY DEF Inv, WireTyped
<1> DEFINE Answers(f) ==
              /\ taken.answer = <<f>> /\ f.object = o /\ f.type # "OpenOk"
              /\ f.type = "DeclareOk" =>
                    /\ frame.type = "Declare"
                    /\ f.name = frame.name \/ (o \in Queues /\ frame.name = NoName)
                    /\ f.name \in IF o \in Queues THEN taken.broker.queues
                                  ELSE taken.broker.exchanges
<1>2. /\ taken.answer = <<>> \/ \E f \in NamedFrames : Answers(f)
      /\ \A p \in Objects :
            /\ taken.broker.channel[p] = "closed" => broker.channel[p] = "closed"
            /\ p # o => taken.broker.channel[p] = broker.channel[p]
      /\ taken.broker.refused => broker.refused \/ broker.channel[o] = "closed"
      /\ \A n : n \in broker.queues /\ n \notin taken.broker.queues =>
            /\ o \in Queues /\ frame.type = "Delete" /\ n = frame.name
            /\ frame.noWait \/ taken.answer = <<[type |-> "DeleteOk", object |-> o]>>
      /\ \A n : n \in broker.exchanges /\ n \notin taken.broker.exchanges =>
            /\ o \in Exchanges /\ frame.type = "Delete" /\ n = frame.name
            /\ taken.answer = <<[type |-> "DeleteOk", object |-> o]>>
  BY <1>1, TakesSays
<1>3. CASE taken.answer = <<>>
  <2>1. in' = t
    BY <1>3
  <2>2. Sent(o, frame, k, {})
    BY <1>2, <1>3, <2>1 DEF Sent
  <2>3. QED
    BY <2>2
<1>4. ASSUME NEW f \in NamedFrames, Answers(f)
      PROVE  Sent(o, frame, k, {f})
  <2>1. in \in Seq(NamedFrames)
    BY DEF Inv, WireTyped
  <2>2. Moves(in, t \o <<f>>, k, {f})
    BY <2>1, MovesAdds
  <2>3. in' = t \o <<f>>
    BY <1>4
  <2>4. Moves(in, in', k, {f})
    BY <2>2, <2>3
  <2>5. taken.answer = <<[type |-> "DeleteOk", object |-> o]>>
           => [type |-> "DeleteOk", object |-> o] \in {f}
    BY <1>4
  <2>6. \A g \in {f} :
          /\ g \in NamedFrames /\ g.object = o /\ g.type # "OpenOk"
          /\ g.type = "DeclareOk" =>
                /\ frame.type = "Declare"
                /\ g.name = frame.name \/ (o \in Queues /\ frame.name = NoName)
                /\ g.name \in Had(broker', o)
    BY <1>4 DEF Had
  <2>7. QED
    BY <1>2, <2>4, <2>5, <2>6 DEF Sent
<1>5. QED
  <2> HIDE DEF Answers
  <2>1. QED
    BY <1>2, <1>3, <1>4

LEMMA SendSays ==
    ASSUME Inv, NEW o \in Objects, NEW frame \in OutFrames, Sendable(broker, o, frame),
           Send(o, frame)
    PROVE  \E new : Sent(o, frame, 0, new)
<1>1. in \in Seq(NamedFrames)
  BY DEF Inv, WireTyped
<1>2. Moves(in, in, 0, {})
  BY <1>1, MovesNone
<1>3. CASE link = "up"
  <2> DEFINE taken == Takes(broker, o, frame)
  <2>1. broker' = taken.broker /\ in' = in \o taken.answer
    BY <1>3 DEF Send
  <2> HIDE DEF taken
  <2>2. taken = Takes(broker, o, frame)
    BY DEF taken
  <2>3. QED
    BY <1>1, <1>2, <1>3, <2>1, <2>2, AnswerMoves
<1>4. CASE link # "up"
  <2>1. UNCHANGED <<broker, in>>
    BY <1>4 DEF Send
  <2>2. Sent(o, frame, 0, {})
    BY <1>2, <2>1 DEF Sent
  <2>3. QED
    BY <2>2
<1>5. QED
  BY <1>3, <1>4

LEMMA SendAfterSays ==
    ASSUME Inv, NEW o \in Objects, NEW frame \in OutFrames, Sendable(broker, o, frame),
           SendAfter(o, frame), in # <<>>, link = "up"
    PROVE  \E new : Sent(o, frame, 1, new)
<1>1. in \in Seq(NamedFrames) /\ Tail(in) \in Seq(NamedFrames)
  BY DEF Inv, WireTyped
<1>2. Moves(in, Tail(in), 1, {})
  BY <1>1, MovesTail
<1> DEFINE taken == Takes(broker, o, frame)
<1>3. broker' = taken.broker /\ in' = Tail(in) \o taken.answer
  BY DEF SendAfter
<1> HIDE DEF taken
<1>4. taken = Takes(broker, o, frame)
  BY DEF taken
<1>5. QED
  BY <1>1, <1>2, <1>3, <1>4, AnswerMoves

-----------------------------------------------------------------------------
(* What is sent on a channel that is not open is remove() on one that the  *)
(* broker has closed.                                                      *)

IsOpenOk(f, o) == f.object = o /\ f.type = "OpenOk"

\* An object that is new or open or neither, its channel at the broker and the
\* frames on their way: nothing is on its way to an object that is not created;
\* there is one openOk, before any close and without a declareOk beside it; an
\* object that waits for openOk is not open; and what is open, or waits for
\* openOk, has a channel.
WireOf(o, s, ch, new, open, up, down) ==
    /\ new => ch = "closed" /\ \A i \in DOMAIN s : s[i].object # o
    /\ \A i, j \in DOMAIN s : IsOpenOk(s[i], o) /\ s[j].object = o =>
          /\ s[j].type = "OpenOk" => i = j
          /\ s[j].type = "Close" => i < j
          /\ s[j].type # "DeclareOk"
    /\ open => ~down /\ \A i \in DOMAIN s : ~IsOpenOk(s[i], o)
    /\ up /\ ch = "closed" => ~open /\ \A i \in DOMAIN s : ~IsOpenOk(s[i], o)

IsOpen(c) == c.life = "live" /\ c.opened

Wire(o) == WireOf(o, in, broker.channel[o], object[o].life = "new", IsOpen(object[o]),
                  link = "up", link = "down")

WireInv == StaleInv /\ OnlyRemoveIsRefused /\ \A o \in Objects : Wire(o)

\* A step that reads k frames and adds some, for one object: what may be added,
\* and why an object opens or a channel closes.
WireMoves(o, s, r, k, add, ch, dh, wasNew, isNew, wasOpen, isOpen, up) ==
    /\ Moves(s, r, k, add)
    /\ \A f \in add : IsOpenOk(f, o) => wasNew /\ dh # "closed" /\ ~isOpen
    /\ \A f \in add : f.object = o =>
          /\ ~isNew
          /\ f.type = "DeclareOk" => \A j \in DOMAIN r : ~IsOpenOk(r[j], o)
    /\ isNew => wasNew /\ dh = ch
    /\ isOpen => \/ wasOpen
                 \/ k = 1 /\ 1 \in DOMAIN s /\ IsOpenOk(s[1], o) /\ up
    /\ dh = "closed" =>
          \/ ch = "closed"
          \/ /\ k = 1 /\ 1 \in DOMAIN s /\ s[1].object = o /\ s[1].type = "Close"
             /\ ~isOpen /\ add = {}

LEMMA WireStep ==
    ASSUME NEW o, NEW s, NEW r, NEW k, NEW add, NEW ch, NEW dh,
           NEW wasNew \in BOOLEAN, NEW isNew \in BOOLEAN,
           NEW wasOpen \in BOOLEAN, NEW isOpen \in BOOLEAN,
           NEW up \in BOOLEAN, NEW down \in BOOLEAN, NEW up2 \in BOOLEAN, NEW down2 \in BOOLEAN,
           ~(up /\ down), up2 => up, down2 => down,
           WireOf(o, s, ch, wasNew, wasOpen, up, down),
           WireMoves(o, s, r, k, add, ch, dh, wasNew, isNew, wasOpen, isOpen, up)
    PROVE  WireOf(o, r, dh, isNew, isOpen, up2, down2)
<1>1. /\ wasNew => ch = "closed" /\ \A i \in DOMAIN s : s[i].object # o
      /\ \A i, j \in DOMAIN s : IsOpenOk(s[i], o) /\ s[j].object = o =>
            /\ s[j].type = "OpenOk" => i = j
            /\ s[j].type = "Close" => i < j
            /\ s[j].type # "DeclareOk"
      /\ wasOpen => ~down /\ \A i \in DOMAIN s : ~IsOpenOk(s[i], o)
      /\ up /\ ch = "closed" => ~wasOpen /\ \A i \in DOMAIN s : ~IsOpenOk(s[i], o)
  BY DEF WireOf
<1>2. /\ \A j \in DOMAIN r : \/ j + k \in DOMAIN s /\ r[j] = s[j + k]
                             \/ r[j] \in add /\ \A i \in DOMAIN r : i <= j
      /\ DOMAIN s \subseteq Int /\ DOMAIN r \subseteq Int /\ k \in {0, 1}
      /\ \A j \in DOMAIN s : j >= 1
      /\ \A j \in DOMAIN r : j >= 1
      /\ \A f, g \in add : f = g
  BY DEF Moves, WireMoves
<1>3. /\ \A f \in add : IsOpenOk(f, o) => wasNew /\ dh # "closed" /\ ~isOpen
      /\ \A f \in add : f.object = o =>
            /\ ~isNew
            /\ f.type = "DeclareOk" => \A j \in DOMAIN r : ~IsOpenOk(r[j], o)
      /\ isNew => wasNew /\ dh = ch
      /\ isOpen => \/ wasOpen
                   \/ k = 1 /\ 1 \in DOMAIN s /\ IsOpenOk(s[1], o) /\ up
      /\ dh = "closed" =>
            \/ ch = "closed"
            \/ /\ k = 1 /\ 1 \in DOMAIN s /\ s[1].object = o /\ s[1].type = "Close"
               /\ ~isOpen /\ add = {}
  BY DEF WireMoves
<1>4. isNew => dh = "closed" /\ \A i \in DOMAIN r : r[i].object # o
  BY <1>1, <1>2, <1>3
\* An openOk that is there was there, or is all there is.
<1>5. ASSUME NEW j \in DOMAIN r, IsOpenOk(r[j], o)
      PROVE  \/ j + k \in DOMAIN s /\ r[j] = s[j + k] /\ ~wasNew
             \/ r[j] \in add /\ wasNew /\ \A i \in DOMAIN s : s[i].object # o
  <2>1. ~wasNew => j + k \in DOMAIN s /\ r[j] = s[j + k]
    BY <1>2, <1>3, <1>5
  <2>2. wasNew => r[j] \in add /\ \A i \in DOMAIN s : s[i].object # o
    BY <1>1, <1>2, <1>5 DEF IsOpenOk
  <2>3. QED
    BY <2>1, <2>2
<1>6. ASSUME NEW i \in DOMAIN r, NEW j \in DOMAIN r, IsOpenOk(r[i], o), r[j].object = o
      PROVE  /\ r[j].type = "OpenOk" => i = j
             /\ r[j].type = "Close" => i < j
             /\ r[j].type # "DeclareOk"
  <2>1. CASE wasNew
    <3>1. r[i] \in add /\ \A x \in DOMAIN s : s[x].object # o
      BY <1>5, <1>6, <2>1
    <3>2. /\ r[j] \in add /\ \A x \in DOMAIN r : x <= j
          /\ \A x \in DOMAIN r : x <= i
      BY <1>2, <1>6, <3>1 DEF IsOpenOk
    <3>3. i <= j /\ j <= i /\ i \in Int /\ j \in Int
      BY <1>2, <3>2
    <3>4. r[i] = r[j]
      BY <1>2, <3>1, <3>2
    <3>5. QED
      BY <1>6, <3>3, <3>4 DEF IsOpenOk
  <2>2. CASE ~wasNew
    <3>1. i + k \in DOMAIN s /\ r[i] = s[i + k]
      BY <1>5, <1>6, <2>2
    <3>2. CASE j + k \in DOMAIN s /\ r[j] = s[j + k]
      <4>1. /\ s[j + k].type = "OpenOk" => i + k = j + k
            /\ s[j + k].type = "Close" => i + k < j + k
            /\ s[j + k].type # "DeclareOk"
        BY <1>1, <1>6, <3>1, <3>2
      <4>2. i \in Int /\ j \in Int /\ k \in Int
        BY <1>2
      <4>3. QED
        BY <3>2, <4>1, <4>2
    <3>3. CASE r[j] \in add /\ \A x \in DOMAIN r : x <= j
      <4>1. r[j].type # "OpenOk" /\ i # j
        BY <1>3, <1>6, <2>2, <3>3 DEF IsOpenOk
      <4>2. i <= j /\ i \in Int /\ j \in Int
        BY <1>2, <3>3
      <4>3. r[j].type # "DeclareOk"
        BY <1>3, <1>6, <3>3
      <4>4. QED
        BY <4>1, <4>2, <4>3
    <3>4. QED
      BY <1>2, <3>2, <3>3
  <2>3. QED
    BY <2>1, <2>2
<1>7. ASSUME isOpen
      PROVE  ~down2 /\ \A j \in DOMAIN r : ~IsOpenOk(r[j], o)
  <2>1. CASE wasOpen
    BY <1>1, <1>3, <1>5, <1>7, <2>1
  <2>2. CASE k = 1 /\ 1 \in DOMAIN s /\ IsOpenOk(s[1], o) /\ up
    <3>1. SUFFICES ASSUME NEW j \in DOMAIN r, IsOpenOk(r[j], o)
                   PROVE  FALSE
      BY <2>2
    <3>2. s[1].object = o
      BY <2>2 DEF IsOpenOk
    <3>3. j + 1 \in DOMAIN s /\ IsOpenOk(s[j + 1], o) /\ j \in Int /\ j >= 1
      BY <1>2, <1>5, <2>2, <3>1, <3>2
    <3>4. 1 = j + 1
      BY <1>1, <2>2, <3>3 DEF IsOpenOk
    <3>5. QED
      BY <3>3, <3>4
  <2>3. QED
    BY <1>3, <1>7, <2>1, <2>2
<1>8. ASSUME up2, dh = "closed"
      PROVE  ~isOpen /\ \A j \in DOMAIN r : ~IsOpenOk(r[j], o)
  <2>1. CASE ch = "closed"
    <3>1. ~wasOpen /\ \A i \in DOMAIN s : ~IsOpenOk(s[i], o)
      BY <1>1, <1>8, <2>1
    <3>2. QED
      BY <1>3, <1>5, <1>8, <3>1
  <2>2. CASE /\ k = 1 /\ 1 \in DOMAIN s /\ s[1].object = o /\ s[1].type = "Close"
             /\ ~isOpen /\ add = {}
    <3>1. SUFFICES ASSUME NEW j \in DOMAIN r, IsOpenOk(r[j], o)
                   PROVE  FALSE
      BY <2>2
    <3>2. j + 1 \in DOMAIN s /\ IsOpenOk(s[j + 1], o) /\ j \in Int /\ j >= 1
      BY <1>2, <1>5, <2>2, <3>1
    <3>3. j + 1 < 1
      BY <1>1, <2>2, <3>2
    <3>4. QED
      BY <3>2, <3>3
  <2>3. QED
    BY <1>3, <1>8, <2>1, <2>2
<1>9. QED
  BY <1>4, <1>6, <1>7, <1>8 DEF WireOf

-----------------------------------------------------------------------------

IsNew(c) == c.life = "new"

WireMovesFor(o, k, add) ==
    WireMoves(o, in, in', k, add, broker.channel[o], broker'.channel[o],
              IsNew(object[o]), IsNew(object'[o]), IsOpen(object[o]), IsOpen(object'[o]),
              link = "up")

LEMMA WireKept ==
    ASSUME WireInv, StaleInv', OnlyRemoveIsRefused', NEW k, NEW add,
           \A o \in Objects : WireMovesFor(o, k, add),
           link' = "up" => link = "up", link' = "down" => link = "down"
    PROVE  WireInv'
<1>1. SUFFICES ASSUME NEW o \in Objects
               PROVE  Wire(o)'
  BY DEF WireInv
<1> DEFINE wasNew == IsNew(object[o])
           isNew == IsNew(object'[o])
           wasOpen == IsOpen(object[o])
           isOpen == IsOpen(object'[o])
           up == link = "up"
           down == link = "down"
           up2 == link' = "up"
           down2 == link' = "down"
<1>2. /\ object[o] \in Object /\ object'[o] \in Object
  BY DEF WireInv, StaleInv, Inv, ObjectsTyped
<1>3. wasNew \in BOOLEAN /\ isNew \in BOOLEAN /\ wasOpen \in BOOLEAN /\ isOpen \in BOOLEAN
  BY <1>2 DEF IsNew, IsOpen, Object
<1>4. up \in BOOLEAN /\ down \in BOOLEAN /\ up2 \in BOOLEAN /\ down2 \in BOOLEAN
      /\ ~(up /\ down) /\ (up2 => up) /\ (down2 => down)
  OBVIOUS
<1>5. WireOf(o, in, broker.channel[o], wasNew, wasOpen, up, down)
  BY DEF WireInv, Wire, IsNew
<1>6. WireMoves(o, in, in', k, add, broker.channel[o], broker'.channel[o],
                wasNew, isNew, wasOpen, isOpen, up)
  BY DEF WireMovesFor
<1> HIDE DEF wasNew, isNew, wasOpen, isOpen, up, down, up2, down2
<1>7. WireOf(o, in', broker'.channel[o], isNew, isOpen, up2, down2)
  BY <1>3, <1>4, <1>5, <1>6, WireStep
<1>8. QED
  BY <1>7 DEF Wire, IsNew, isNew, isOpen, up2, down2

\* What opens an object: openOk read.
Opens1(o, k) == k = 1 /\ 1 \in DOMAIN in /\ IsOpenOk(in[1], o) /\ link = "up"

\* A step that adds no frame.
LEMMA QuietWire ==
    ASSUME WireInv, StaleInv', OnlyRemoveIsRefused', NEW k, Moves(in, in', k, {}),
           \A o \in Objects : /\ IsNew(object'[o]) => IsNew(object[o])
                              /\ IsOpen(object'[o]) => IsOpen(object[o]) \/ Opens1(o, k),
           UNCHANGED link, broker'.channel = broker.channel
    PROVE  WireInv'
<1>1. \A o \in Objects : WireMovesFor(o, k, {})
  BY DEF WireMovesFor, WireMoves, Opens1
<1>2. QED
  BY <1>1, WireKept

\* A step in which an object that is not new sends a frame.
LEMMA SentWire ==
    ASSUME WireInv, StaleInv', NEW o \in Objects, NEW frame, NEW k, NEW add,
           Sent(o, frame, k, add), ~IsNew(object[o]),
           \A p \in Objects : /\ IsNew(object'[p]) <=> IsNew(object[p])
                              /\ IsOpen(object'[p]) => IsOpen(object[p]) \/ Opens1(p, k),
           frame.type = "Declare" => \A j \in DOMAIN in' : ~IsOpenOk(in'[j], o),
           link = "up" /\ broker.channel[o] = "closed" => "closed" \in happened',
           UNCHANGED link, happened \subseteq happened'
    PROVE  WireInv'
<1>1. /\ Moves(in, in', k, add)
      /\ \A f \in add :
            /\ f.object = o /\ f.type # "OpenOk"
            /\ f.type = "DeclareOk" => frame.type = "Declare"
      /\ \A p \in Objects :
            /\ broker'.channel[p] = "closed" => broker.channel[p] = "closed"
            /\ p # o => broker'.channel[p] = broker.channel[p]
      /\ broker'.refused => broker.refused \/ (link = "up" /\ broker.channel[o] = "closed")
  BY DEF Sent
<1>2. OnlyRemoveIsRefused'
  BY <1>1 DEF OnlyRemoveIsRefused, WireInv
<1>3. ASSUME NEW p \in Objects
      PROVE  WireMovesFor(p, k, add)
  <2>1. \A f \in add : IsOpenOk(f, p) => FALSE
    BY <1>1 DEF IsOpenOk
  <2>2. \A f \in add : f.object = p =>
          /\ ~IsNew(object'[p])
          /\ f.type = "DeclareOk" => \A j \in DOMAIN in' : ~IsOpenOk(in'[j], p)
    BY <1>1
  <2>3. IsNew(object'[p]) => IsNew(object[p]) /\ broker'.channel[p] = broker.channel[p]
    BY <1>1
  <2>4. IsOpen(object'[p]) => \/ IsOpen(object[p])
                              \/ k = 1 /\ 1 \in DOMAIN in /\ IsOpenOk(in[1], p) /\ link = "up"
    BY DEF Opens1
  <2>5. QED
    BY <1>1, <2>1, <2>2, <2>3, <2>4 DEF WireMovesFor, WireMoves
<1>4. QED
  BY <1>2, <1>3, WireKept

LEMMA OpenHasChannel ==
    ASSUME WireInv, NEW o \in Objects
    PROVE  /\ Live(o) /\ object[o].opened =>
                /\ \A j \in DOMAIN in : ~IsOpenOk(in[j], o)
                /\ link = "up" => broker.channel[o] # "closed"
           /\ broker.channel[o] # "closed" => ~IsNew(object[o])
  BY DEF WireInv, Wire, WireOf, IsOpen, Live, IsNew

LEMMA CreatedWire ==
    ASSUME WireInv, StaleInv', NEW o \in Objects, object[o].life = "new", NEW name,
           NEW hooked \in BOOLEAN, Created(o, name, hooked), UNCHANGED <<link, happened>>
    PROVE  WireInv'
<1>1. /\ object'[o].life = "live" /\ ~object'[o].opened
      /\ \A p \in Objects : p # o => object'[p] = object[p]
  BY DEF Created, New, WireInv, StaleInv, Inv, ObjectsTyped
<1>2. \A p \in Objects : /\ IsNew(object'[p]) => IsNew(object[p])
                         /\ IsOpen(object'[p]) => IsOpen(object[p])
  BY <1>1 DEF IsNew, IsOpen
<1>3. in \in Seq(NamedFrames) /\ broker \in Broker
  BY DEF WireInv, StaleInv, Inv, WireTyped
<1>4. Moves(in, in, 0, {})
  BY <1>3, MovesNone
<1>5. CASE link # "up" \/ broker.refused
  <2>1. in' = in /\ broker' = broker
    BY <1>5 DEF Created
  <2>2. OnlyRemoveIsRefused'
    BY <2>1 DEF OnlyRemoveIsRefused, WireInv
  <2>3. Moves(in, in', 0, {})
    BY <1>4, <2>1
  <2>4. QED
    BY <1>2, <2>1, <2>2, <2>3, QuietWire
<1>6. CASE link = "up" /\ ~broker.refused
  <2> DEFINE f == [type |-> "OpenOk", object |-> o]
  <2>1. broker' = Opens(broker, {o}) /\ in' = Append(in, f)
    BY <1>6 DEF Created
  <2>2. \A p \in Objects : broker'.channel[p] = IF p = o THEN "open" ELSE broker.channel[p]
    BY <1>3, <2>1 DEF Opens, Broker
  <2>3. broker'.refused = broker.refused
    BY <1>3, <2>1 DEF Opens, Broker
  <2>4. OnlyRemoveIsRefused'
    BY <2>3 DEF OnlyRemoveIsRefused, WireInv
  <2>5. f \in NamedFrames
    BY DEF NamedFrames
  <2>6. in' = in \o <<f>>
    BY <1>3, <2>1, <2>5
  <2>7. f.object = o /\ f.type = "OpenOk"
    OBVIOUS
  <2> HIDE DEF f
  <2>8. Moves(in, in', 0, {f})
    BY <1>3, <1>4, <2>5, <2>6, MovesAdds
  <2>9. ASSUME NEW p \in Objects
        PROVE  WireMovesFor(p, 0, {f})
    <3>1. IsNew(object'[p]) => IsNew(object[p]) /\ broker'.channel[p] = broker.channel[p]
      BY <1>1, <2>2 DEF IsNew
    <3>2. \A g \in {f} : IsOpenOk(g, p) => IsNew(object[p]) /\ broker'.channel[p] # "closed"
                                             /\ ~IsOpen(object'[p])
      BY <1>1, <2>2, <2>7 DEF IsOpenOk, IsNew, IsOpen
    <3>3. \A g \in {f} : g.object = p =>
            /\ ~IsNew(object'[p])
            /\ g.type = "DeclareOk" => \A j \in DOMAIN in' : ~IsOpenOk(in'[j], p)
      BY <1>1, <2>7 DEF IsNew
    <3>4. broker'.channel[p] = "closed" => broker.channel[p] = "closed"
      BY <2>2
    <3>5. IsOpen(object'[p]) => IsOpen(object[p])
      BY <1>2
    <3>6. QED
      BY <2>8, <3>1, <3>2, <3>3, <3>4, <3>5 DEF WireMovesFor, WireMoves
  <2>10. QED
    BY <2>4, <2>9, WireKept
<1>7. QED
  BY <1>5, <1>6

\* The steps in which no frame is sent and no object opens.
LEMMA CalmWire ==
    ASSUME WireInv, StaleInv',
           \/ \E o \in Objects : Delete(o) \/ SetName(o)
           \/ OthersDelete \/ ReceiveDeclareOk \/ ReceiveDeleteOk \/ ReceiveServed
           \/ UNCHANGED vars
    PROVE  WireInv'
<1> DEFINE Same == \A o \in Objects :
                       /\ IsNew(object'[o]) => IsNew(object[o])
                       /\ IsOpen(object'[o]) => IsOpen(object[o])
<1>1. object \in [Objects -> Object] /\ broker \in Broker /\ in \in Seq(NamedFrames)
  BY DEF WireInv, StaleInv, Inv, ObjectsTyped, WireTyped
<1>2. CASE UNCHANGED <<in, link>> /\ happened \subseteq happened'
           /\ broker'.channel = broker.channel /\ broker'.refused = broker.refused /\ Same
  <2>1. OnlyRemoveIsRefused'
    BY <1>2 DEF OnlyRemoveIsRefused, WireInv
  <2>2. Moves(in, in', 0, {})
    BY <1>1, <1>2, MovesNone
  <2>3. QED
    BY <1>2, <2>1, <2>2, QuietWire
<1>3. CASE in # <<>> /\ in' = Tail(in) /\ UNCHANGED <<link, broker>>
           /\ happened \subseteq happened' /\ Same
  <2>1. OnlyRemoveIsRefused'
    BY <1>3 DEF OnlyRemoveIsRefused, WireInv
  <2>2. Moves(in, in', 1, {})
    BY <1>1, <1>3, MovesTail
  <2>3. QED
    BY <1>3, <2>1, <2>2, QuietWire
<1>4. ASSUME NEW o \in Objects, Delete(o)
      PROVE  WireInv'
  <2>1. Same
    BY <1>1, <1>4 DEF Delete, IsNew, IsOpen, Object
  <2>2. QED
    BY <1>2, <1>4, <2>1 DEF Delete
<1>5. ASSUME NEW o \in Objects, SetName(o)
      PROVE  WireInv'
  <2>1. Same
    BY <1>1, <1>5 DEF SetName, IsNew, IsOpen, Object
  <2>2. QED
    BY <1>2, <1>5, <2>1 DEF SetName, Happens
<1>6. CASE OthersDelete
  <2>1. broker'.channel = broker.channel /\ broker'.refused = broker.refused
    BY <1>1, <1>6 DEF OthersDelete, Broker
  <2>2. Same
    BY <1>6 DEF OthersDelete
  <2>3. QED
    BY <1>2, <1>6, <2>1, <2>2 DEF OthersDelete, Happens
<1>7. CASE ReceiveDeclareOk
  <2>1. Same
    <3> DEFINE n == IF Source \in Queues THEN Head(in).name ELSE object[Source].name
    <3>1. \/ object' = object
          \/ object' = [object EXCEPT ![Source].declared = TRUE, ![Source].name = n]
      BY <1>7 DEF ReceiveDeclareOk
    <3>2. ASSUME NEW p \in Objects
          PROVE  object'[p].life = object[p].life /\ object'[p].opened = object[p].opened
      <4> HIDE DEF n
      <4>1. CASE p # Source
        BY <1>1, <3>1, <4>1
      <4>2. CASE p = Source
        BY <1>1, <3>1, <4>2 DEF Object
      <4>3. QED
        BY <4>1, <4>2
    <3>3. QED
      BY <3>2 DEF IsNew, IsOpen
  <2>2. QED
    BY <1>3, <1>7, <2>1 DEF ReceiveDeclareOk, Happens, Receive
<1>8. CASE ReceiveDeleteOk
  <2>1. Same
    BY <1>1, <1>8 DEF ReceiveDeleteOk, IsNew, IsOpen, Object
  <2>2. QED
    BY <1>3, <1>8, <2>1 DEF ReceiveDeleteOk, Receive
<1>9. CASE ReceiveServed
  BY <1>3, <1>9 DEF ReceiveServed, Receive
<1>10. CASE UNCHANGED vars
  BY <1>2, <1>10 DEF vars
<1>11. QED
  BY <1>4, <1>5, <1>6, <1>7, <1>8, <1>9, <1>10

LEMMA DeclareWire ==
    ASSUME WireInv, StaleInv', NEW o \in Objects, Declare(o)
    PROVE  WireInv'
<1>1. object \in [Objects -> Object] /\ in \in Seq(NamedFrames)
  BY DEF WireInv, StaleInv, Inv, ObjectsTyped, WireTyped
<1>2. \A p \in Objects : IsNew(object'[p]) = IsNew(object[p]) /\ IsOpen(object'[p]) = IsOpen(object[p])
  BY <1>1 DEF Declare, IsNew, IsOpen, Object
<1>3. UNCHANGED link /\ happened \subseteq happened' /\ Live(o)
  BY DEF Declare, Happens
<1>4. CASE UNCHANGED <<broker, in>>
  <2>1. Moves(in, in', 0, {})
    BY <1>1, <1>4, MovesNone
  <2>2. OnlyRemoveIsRefused'
    BY <1>3, <1>4 DEF OnlyRemoveIsRefused, WireInv
  <2>3. QED
    BY <1>2, <1>3, <1>4, <2>1, <2>2, QuietWire
<1>5. CASE object[o].opened /\ DeclareClears(o)
  <2> DEFINE frame == [type |-> "Declare", name |-> object[o].name]
  <2>1. ~(o \in Exchanges /\ object[o].name = NoName)
    BY <1>5, RegistryAssumption DEF DeclareClears
  <2>2. Send(o, frame) /\ CanDeclare(o)
    BY <1>5, <2>1 DEF Declare, DeclareNow
  <2>3. Inv
    BY DEF WireInv, StaleInv
  <2>4. frame \in OutFrames /\ Sendable(broker, o, frame)
    BY <1>5, <2>2, <2>3, DeclareSendable
  <2> HIDE DEF frame
  <2>5. PICK add : Sent(o, frame, 0, add)
    BY <2>2, <2>3, <2>4, SendSays
  <2>6. /\ \A j \in DOMAIN in : ~IsOpenOk(in[j], o)
        /\ link = "up" => broker.channel[o] # "closed"
    BY <1>3, <1>5, OpenHasChannel
  <2>7. \A j \in DOMAIN in' : ~IsOpenOk(in'[j], o)
    <3>1. /\ \A j \in DOMAIN in' : \/ j + 0 \in DOMAIN in /\ in'[j] = in[j + 0]
                                   \/ in'[j] \in add
          /\ \A f \in add : f.type # "OpenOk"
      BY <2>5 DEF Sent, Moves
    <3>2. QED
      BY <2>6, <3>1 DEF IsOpenOk
  <2>8. ~IsNew(object[o])
    BY <1>3 DEF Live, IsNew
  <2>9. QED
    BY <1>2, <1>3, <2>5, <2>6, <2>7, <2>8, SentWire
<1>6. CASE ~(object[o].opened /\ DeclareClears(o))
  BY <1>4, <1>6 DEF Declare, DeclareNow, DeclareClears, Objects
<1>7. QED
  BY <1>5, <1>6

LEMMA RemoveObjectWire ==
    ASSUME WireInv, StaleInv', NEW o \in Objects, RemoveObject(o)
    PROVE  WireInv'
<1> PICK noWait \in BOOLEAN :
       /\ Send(o, [type |-> "Delete", name |-> object[o].name, noWait |-> noWait])
       /\ Happens(RemoveEvents(o, noWait))
  BY DEF RemoveObject
<1> DEFINE frame == [type |-> "Delete", name |-> object[o].name, noWait |-> noWait]
<1>1. Inv
  BY DEF WireInv, StaleInv
<1>2. frame \in OutFrames /\ Sendable(broker, o, frame) /\ frame.type = "Delete"
  BY <1>1, NameTyped DEF OutFrames, Sendable
<1>3. Send(o, frame)
  OBVIOUS
<1> HIDE DEF frame
<1>4. PICK add : Sent(o, frame, 0, add)
  BY <1>1, <1>2, <1>3, SendSays
<1>5. UNCHANGED <<link, object>> /\ happened' = happened \cup RemoveEvents(o, noWait) /\ Live(o)
  BY DEF RemoveObject, Happens
<1>6. link = "up" /\ broker.channel[o] = "closed" => "closed" \in happened'
  BY <1>5 DEF RemoveEvents
<1>7. ~IsNew(object[o])
  BY <1>5 DEF Live, IsNew
<1>8. QED
  BY <1>2, <1>4, <1>5, <1>6, <1>7, SentWire

LEMMA AskWire ==
    ASSUME WireInv, StaleInv', NEW q \in Queues, Ask(q)
    PROVE  WireInv'
<1>1. PICK type \in {"PurgeOk", "BindOk", "UnbindOk"} :
        Send(q, [type |-> type, name |-> object[q].name])
  BY DEF Ask
<1> DEFINE frame == [type |-> type, name |-> object[q].name]
<1>2. Inv /\ q \in Objects
  BY DEF WireInv, StaleInv, Objects
<1>3. frame \in OutFrames /\ Sendable(broker, q, frame) /\ frame.type # "Declare"
  BY <1>2, NameTyped DEF OutFrames, Sendable
<1>4. Send(q, frame)
  BY <1>1
<1> HIDE DEF frame
<1>5. PICK add : Sent(q, frame, 0, add)
  BY <1>2, <1>3, <1>4, SendSays
<1>6. UNCHANGED <<link, object, happened>> /\ Live(q) /\ object[q].opened
  BY DEF Ask
<1>7. ~(link = "up" /\ broker.channel[q] = "closed") /\ ~IsNew(object[q])
  BY <1>2, <1>6, OpenHasChannel DEF Live, IsNew
<1>8. QED
  BY <1>2, <1>3, <1>5, <1>6, <1>7, SentWire

LEMMA BrokerClosesWire == ASSUME WireInv, StaleInv', BrokerCloses PROVE WireInv'
<1>1. PICK o \in Objects : /\ broker.channel[o] = "open"
                           /\ broker' = ClosesChannel(broker, o).broker
                           /\ in' = in \o ClosesChannel(broker, o).answer
  BY DEF BrokerCloses
<1>2. UNCHANGED <<link, object, happened>>
  BY DEF BrokerCloses
<1>3. in \in Seq(NamedFrames) /\ broker \in Broker
  BY DEF WireInv, StaleInv, Inv, WireTyped
<1> DEFINE f == [type |-> "Close", object |-> o]
<1>4. f \in NamedFrames /\ f.object = o /\ f.type = "Close"
  BY DEF NamedFrames
<1>5. /\ in' = in \o <<f>> /\ broker'.refused = broker.refused
      /\ \A p \in Objects : broker'.channel[p] = IF p = o THEN "closing" ELSE broker.channel[p]
  BY <1>1, <1>3 DEF ClosesChannel, Answered, Broker
<1> HIDE DEF f
<1>6. Moves(in, in', 0, {f})
  <2>1. Moves(in, in, 0, {})
    BY <1>3, MovesNone
  <2>2. QED
    BY <1>3, <1>4, <1>5, <2>1, MovesAdds
<1>7. ~IsNew(object[o])
  BY <1>1, OpenHasChannel
<1>8. OnlyRemoveIsRefused'
  BY <1>2, <1>5 DEF OnlyRemoveIsRefused, WireInv
<1>9. ASSUME NEW p \in Objects
      PROVE  WireMovesFor(p, 0, {f})
  BY <1>2, <1>4, <1>5, <1>6, <1>7 DEF WireMovesFor, WireMoves, IsOpenOk
<1>10. QED
  BY <1>2, <1>8, <1>9, WireKept

LEMMA ReceiveOpenOkWire == ASSUME WireInv, StaleInv', ReceiveOpenOk PROVE WireInv'
<1> DEFINE o == Source
           declares == Live(o) /\ object[o].delayedDeclare /\ DeclareClears(o)
           y == object[o].delayedDeclare /\ ~declares
           frame == [type |-> "Declare", name |-> object[o].name]
<1>1. Inv
  BY DEF WireInv, StaleInv
<1>2. in # <<>> /\ o \in Objects /\ link = "up" /\ in \in Seq(NamedFrames)
  BY <1>1, ReceiveTyped DEF ReceiveOpenOk, Receive, Inv, WireTyped
<1>3. 1 \in DOMAIN in /\ IsOpenOk(in[1], o)
  BY <1>2 DEF ReceiveOpenOk, Receive, IsOpenOk, Source
<1>4. object' = IF Live(o) THEN [object EXCEPT ![o].opened = TRUE, ![o].delayedDeclare = y]
                ELSE object
  BY DEF ReceiveOpenOk
<1>5. IF declares THEN CanDeclare(o) /\ SendAfter(o, frame)
      ELSE in' = Tail(in) /\ UNCHANGED broker
  BY DEF ReceiveOpenOk
<1>6. UNCHANGED <<link, happened>>
  BY DEF ReceiveOpenOk
<1>7. object \in [Objects -> Object]
  BY <1>1 DEF Inv, ObjectsTyped
<1>8. ASSUME declares, CanDeclare(o)
      PROVE  frame \in OutFrames /\ Sendable(broker, o, frame)
  BY <1>1, <1>2, <1>8, DeclareSendable
<1>9. frame.type = "Declare"
  OBVIOUS
<1>10. declares => Live(o)
  OBVIOUS
<1> HIDE DEF o, y, frame, declares
<1>11. ASSUME NEW p \in Objects
       PROVE  /\ IsNew(object'[p]) <=> IsNew(object[p])
              /\ IsOpen(object'[p]) => IsOpen(object[p]) \/ Opens1(p, 1)
  <2>1. p # o => object'[p] = object[p]
    BY <1>4, <1>7
  <2>2. object'[p].life = object[p].life
    BY <1>4, <1>7 DEF Object
  <2>3. p = o => Opens1(p, 1)
    BY <1>2, <1>3 DEF Opens1
  <2>4. QED
    BY <2>1, <2>2, <2>3 DEF IsNew
<1>12. broker.channel[o] # "closed" /\ ~IsNew(object[o])
       /\ \A j \in DOMAIN in : IsOpenOk(in[j], o) => j = 1
  <2>1. WireOf(o, in, broker.channel[o], IsNew(object[o]), IsOpen(object[o]), TRUE, link = "down")
    BY <1>2 DEF WireInv, Wire, IsNew
  <2>2. \A i, j \in DOMAIN in : IsOpenOk(in[i], o) /\ IsOpenOk(in[j], o) => i = j
    BY <2>1 DEF WireOf, IsOpenOk
  <2>3. QED
    BY <1>3, <2>1, <2>2 DEF WireOf, IsOpenOk
<1>13. CASE declares
  <2>1. PICK add : Sent(o, frame, 1, add)
    BY <1>1, <1>2, <1>5, <1>8, <1>13, SendAfterSays
  <2>2. \A j \in DOMAIN in' : ~IsOpenOk(in'[j], o)
    <3>1. /\ \A j \in DOMAIN in' : \/ j + 1 \in DOMAIN in /\ in'[j] = in[j + 1]
                                   \/ in'[j] \in add
          /\ \A f \in add : f.type # "OpenOk"
          /\ \A j \in DOMAIN in' : j \in Int /\ j >= 1
      BY <2>1 DEF Sent, Moves
    <3> SUFFICES ASSUME NEW j \in DOMAIN in', IsOpenOk(in'[j], o)
                 PROVE  FALSE
      OBVIOUS
    <3>2. j + 1 \in DOMAIN in /\ in'[j] = in[j + 1]
      BY <3>1 DEF IsOpenOk
    <3>3. j + 1 = 1
      BY <1>12, <3>2
    <3>4. QED
      BY <3>1, <3>3
  <2>3. QED
    BY <1>2, <1>6, <1>9, <1>11, <1>12, <2>1, <2>2, SentWire
<1>14. CASE ~declares
  <2>1. in' = Tail(in) /\ broker' = broker
    BY <1>5, <1>14
  <2>2. Moves(in, in', 1, {})
    BY <1>2, <2>1, MovesTail
  <2>3. OnlyRemoveIsRefused'
    BY <1>6, <2>1 DEF OnlyRemoveIsRefused, WireInv
  <2>4. QED
    BY <1>6, <1>11, <2>1, <2>2, <2>3, QuietWire
<1>15. QED
  BY <1>13, <1>14

LEMMA ReceiveCloseWire == ASSUME WireInv, StaleInv', ReceiveClose PROVE WireInv'
<1> DEFINE o == Source
<1>1. Inv
  BY DEF WireInv, StaleInv
<1>2. in # <<>> /\ o \in Objects /\ link = "up" /\ in \in Seq(NamedFrames) /\ broker \in Broker
  BY <1>1, ReceiveTyped DEF ReceiveClose, Receive, Inv, WireTyped
<1>3. 1 \in DOMAIN in /\ in[1].object = o /\ in[1].type = "Close"
  BY <1>2 DEF ReceiveClose, Receive, Source
<1>4. /\ object' = IF Live(o) THEN [object EXCEPT ![o].opened = FALSE] ELSE object
      /\ broker' = IF Live(o) /\ ~broker.refused
                   THEN [broker EXCEPT !.channel[o] = "closed"] ELSE broker
      /\ in' = Tail(in) /\ UNCHANGED <<link, happened>>
  BY DEF ReceiveClose
<1>5. object \in [Objects -> Object]
  BY <1>1 DEF Inv, ObjectsTyped
<1> HIDE DEF o
<1>6. Moves(in, in', 1, {})
  BY <1>2, <1>4, MovesTail
<1>7. broker'.refused = broker.refused
      /\ \A p \in Objects : broker'.channel[p] # broker.channel[p] => p = o /\ Live(o)
  BY <1>2, <1>4 DEF Broker
<1>8. OnlyRemoveIsRefused'
  BY <1>4, <1>7 DEF OnlyRemoveIsRefused, WireInv
<1>9. ASSUME NEW p \in Objects
      PROVE  WireMovesFor(p, 1, {})
  <2>1. object'[p].life = object[p].life
    BY <1>4, <1>5 DEF Object
  <2>2. IsOpen(object'[p]) => IsOpen(object[p]) /\ ~(p = o /\ Live(o))
    BY <1>2, <1>4, <1>5 DEF Object, IsOpen, Live
  <2>3. IsNew(object'[p]) => IsNew(object[p]) /\ broker'.channel[p] = broker.channel[p]
    BY <1>7, <2>1 DEF IsNew, Live
  <2>4. QED
    BY <1>3, <1>6, <1>7, <2>2, <2>3 DEF WireMovesFor, WireMoves
<1>10. QED
  BY <1>4, <1>8, <1>9, WireKept

\* The openOks that come when the connection is made: one for each object.
LEMMA OpenOksAre ==
    ASSUME NEW opening \in SUBSET Objects, NEW s, s = SetToSeq([type : {"OpenOk"}, object : opening])
    PROVE  /\ \A i \in DOMAIN s : s[i].type = "OpenOk" /\ s[i].object \in opening
           /\ \A i, j \in DOMAIN s : s[i].object = s[j].object => i = j
<1> DEFINE F == [type : {"OpenOk"}, object : opening]
<1>1. IsFiniteSet(F)
  <2> DEFINE g == [o \in opening |-> [type |-> "OpenOk", object |-> o]]
  <2>1. IsFiniteSet(opening)
    <3>1. IsFiniteSet(Exchanges \cup Queues)
      BY FS_Union, RegistryAssumption
    <3>2. QED
      BY <3>1, FS_Subset DEF Objects
  <2>2. g \in [opening -> F]
    OBVIOUS
  <2>3. \A a, b \in opening : g[a] = g[b] => a = b
    OBVIOUS
  <2>4. \A f \in F : \E o \in opening : g[o] = f
    OBVIOUS
  <2> HIDE DEF g, F
  <2>5. g \in Bijection(opening, F)
    BY <2>2, <2>3, <2>4 DEF Bijection, Injection, Surjection, IsInjective
  <2>6. QED
    BY <2>1, <2>5, FS_Bijection DEF ExistsBijection
<1>2. \A f \in F : f.type = "OpenOk" /\ f.object \in opening
  OBVIOUS
<1>3. \A f, g \in F : f.object = g.object => f = g
  OBVIOUS
<1> HIDE DEF F
<1>4. Cardinality(F) \in Nat /\ ExistsBijection(1..Cardinality(F), F)
  BY <1>1, FS_CardinalityType
<1>5. \E f \in [1..Cardinality(F) -> F] : IsInjective(f)
  BY <1>4 DEF ExistsBijection, Bijection, Injection
<1>6. SetToSeq(F) \in [1..Cardinality(F) -> F] /\ IsInjective(SetToSeq(F))
  BY <1>5 DEF SetToSeq
<1>7. s = SetToSeq(F)
  BY DEF F
<1>8. s \in [1..Cardinality(F) -> F] /\ IsInjective(s)
  BY <1>6, <1>7
<1>9. \A i \in DOMAIN s : s[i] \in F
  BY <1>8
<1>10. \A i, j \in DOMAIN s : s[i] = s[j] => i = j
  BY <1>8 DEF IsInjective
<1>11. \A i \in DOMAIN s : s[i].type = "OpenOk" /\ s[i].object \in opening
  BY <1>2, <1>9
<1>12. ASSUME NEW i \in DOMAIN s, NEW j \in DOMAIN s, s[i].object = s[j].object
       PROVE  i = j
  <2>1. s[i] \in F /\ s[j] \in F
    BY <1>9
  <2>2. s[i] = s[j]
    BY <1>3, <1>12, <2>1
  <2>3. QED
    BY <1>10, <2>2
<1>13. QED
  BY <1>11, <1>12

LEMMA LinkUpWire == ASSUME WireInv, StaleInv', LinkUp PROVE WireInv'
<1> DEFINE opening == {o \in Objects : Live(o) /\ ~object[o].opened}
           s == SetToSeq([type : {"OpenOk"}, object : opening])
<1>1. broker' = Opens(broker, opening) /\ in' = s /\ link = "down" /\ link' = "up"
      /\ UNCHANGED <<object, happened>>
  BY DEF LinkUp
<1>2. opening \in SUBSET Objects /\ \A o \in opening : Live(o) /\ ~object[o].opened
  OBVIOUS
<1>3. broker \in Broker
  BY DEF WireInv, StaleInv, Inv, WireTyped
<1>4. /\ broker'.refused = broker.refused
      /\ \A o \in Objects : broker'.channel[o] = IF o \in opening THEN "open" ELSE broker.channel[o]
  BY <1>1, <1>3 DEF Opens, Broker
<1> HIDE DEF opening
<1>5. /\ \A i \in DOMAIN s : s[i].type = "OpenOk" /\ s[i].object \in opening
      /\ \A i, j \in DOMAIN s : s[i].object = s[j].object => i = j
  BY <1>2, OpenOksAre
<1> HIDE DEF s
<1>6. ASSUME NEW o \in Objects
      PROVE  Wire(o)'
  <2>1. ~IsOpen(object[o])
    BY <1>1 DEF WireInv, Wire, WireOf
  <2>2. IsNew(object[o]) => o \notin opening /\ broker.channel[o] = "closed"
    BY <1>2 DEF WireInv, Wire, WireOf, IsNew, Live
  <2>3. \A i \in DOMAIN s : s[i].object = o => o \in opening
    BY <1>5
  <2>4. WireOf(o, s, broker'.channel[o], IsNew(object[o]), IsOpen(object[o]), TRUE, FALSE)
    BY <1>4, <1>5, <2>1, <2>2, <2>3 DEF WireOf, IsOpenOk
  <2>5. QED
    BY <1>1, <2>4 DEF Wire, WireOf, IsNew
<1>7. OnlyRemoveIsRefused'
  BY <1>1, <1>4 DEF OnlyRemoveIsRefused, WireInv
<1>8. QED
  BY <1>6, <1>7 DEF WireInv

LEMMA GoneWire ==
    ASSUME WireInv, StaleInv', ConnectionGone, in' = <<>>, link' # "up",
           link' = "down" => \A o \in Objects : ~IsOpen(object'[o])
    PROVE  WireInv'
<1>1. broker \in Broker
  BY DEF WireInv, StaleInv, Inv, WireTyped
<1>2. ~broker'.refused /\ \A o \in Objects : broker'.channel[o] = "closed"
  <2> DEFINE channels == [o \in Objects |-> "closed"]
             lasts == [o \in Objects |-> NoName]
  <2>1. PICK kept \in SUBSET broker.queues :
          broker' = [broker EXCEPT !.queues = kept, !.refused = FALSE,
                                   !.channel = channels, !.last = lasts]
    BY DEF ConnectionGone
  <2>2. broker'.channel = channels /\ broker'.refused = FALSE
    BY <1>1, <2>1 DEF Broker
  <2>3. QED
    BY <2>2
<1>3. OnlyRemoveIsRefused'
  BY <1>2 DEF OnlyRemoveIsRefused
<1>4. ASSUME NEW o \in Objects
      PROVE  Wire(o)'
  BY <1>2 DEF Wire, WireOf
<1>5. QED
  BY <1>3, <1>4 DEF WireInv

LEMMA SocketClosedWire == ASSUME WireInv, StaleInv', SocketClosed PROVE WireInv'
<1>1. \A o \in Objects : object[o] \in Object
  BY DEF WireInv, StaleInv, Inv, ObjectsTyped
<1>2. object' = [o \in Objects |-> IF Live(o) THEN Disconnected(o, Reset(o, object[o]))
                                  ELSE object[o]]
  BY DEF SocketClosed
<1>3. ASSUME NEW o \in Objects
      PROVE  ~IsOpen(object'[o])
  <2>1. CASE Live(o)
    <3>1. Reset(o, object[o]) \in Object
      BY <1>1, ResetTyped
    <3>2. object'[o] = Disconnected(o, Reset(o, object[o]))
      BY <1>2, <2>1
    <3>3. QED
      BY <3>1, <3>2, DisconnectedClears DEF IsOpen
  <2>2. CASE ~Live(o)
    BY <1>2, <2>2 DEF IsOpen, Live
  <2>3. QED
    BY <2>1, <2>2
<1>4. QED
  BY <1>3, GoneWire DEF SocketClosed

LEMMA InitWire == Init => WireInv
<1> SUFFICES ASSUME Init PROVE WireInv
  OBVIOUS
<1>1. StaleInv
  BY InitStale
<1>2. OnlyRemoveIsRefused
  BY DEF Init, OnlyRemoveIsRefused
<1>3. ASSUME NEW o \in Objects
      PROVE  Wire(o)
  BY DEF Init, New, Wire, WireOf, IsOpen
<1>4. QED
  BY <1>1, <1>2, <1>3 DEF WireInv

LEMMA NextWire == WireInv /\ [Next]_vars => WireInv'
<1> SUFFICES ASSUME WireInv, [Next]_vars PROVE WireInv'
  OBVIOUS
<1>1. StaleInv'
  BY NextStale DEF WireInv
<1>2. ASSUME User
      PROVE  WireInv'
  <2>1. ASSUME CreateQueue
        PROVE  WireInv'
    <3>1. PICK q \in Queues, name \in UserNames \cup {NoName} :
            /\ object[q].life = "new" /\ Created(q, name, name = NoName)
            /\ UNCHANGED <<link, happened>>
      BY <2>1 DEF CreateQueue
    <3>2. q \in Objects /\ (name = NoName) \in BOOLEAN
      BY DEF Objects
    <3>3. QED
      BY <1>1, <3>1, <3>2, CreatedWire
  <2>2. ASSUME CreateExchange
        PROVE  WireInv'
    <3>1. PICK x \in Exchanges, name \in UserNames \cup {NoName} :
            /\ object[x].life = "new" /\ Created(x, name, FALSE)
            /\ UNCHANGED <<link, happened>>
      BY <2>2 DEF CreateExchange
    <3>2. x \in Objects
      BY DEF Objects
    <3>3. QED
      BY <1>1, <3>1, <3>2, CreatedWire
  <2>3. QED
    BY <1>1, <1>2, <2>1, <2>2, CalmWire, DeclareWire, RemoveObjectWire, AskWire DEF User
<1>3. ASSUME Reading
      PROVE  WireInv'
  BY <1>1, <1>3, CalmWire, ReceiveOpenOkWire, ReceiveCloseWire DEF Reading
<1>4. ASSUME LinkCloses
      PROVE  WireInv'
  BY <1>1, <1>4, GoneWire DEF LinkCloses
<1>5. QED
  BY <1>1, <1>2, <1>3, <1>4, CalmWire, BrokerClosesWire, LinkUpWire, SocketClosedWire DEF Next

-----------------------------------------------------------------------------
(* What is registered under a name has it.                                 *)

IsDeclareOk(f, o) == f.object = o /\ f.type = "DeclareOk"

\* An object has the name, and will when its answers are read.
NamedSo(o, n, c, s) == c.name = n /\ \A i \in DOMAIN s : IsDeclareOk(s[i], o) => s[i].name = n

\* The answers to a queue that is declared again are of the same name.
OneName ==
    "twice" \notin happened =>
        \A q \in Queues : \A i, j \in DOMAIN in :
            IsDeclareOk(in[i], q) /\ IsDeclareOk(in[j], q) => in[i].name = in[j].name

QueuesNamed ==
    "renamed" \notin happened /\ "twice" \notin happened =>
        \A n \in GivenNames : queues[n] # None => NamedSo(queues[n], n, object[queues[n]], in)

ExchangesNamed ==
    "renamed" \notin happened =>
        \A n \in UserNames \cup {NoName} :
            exchanges[n] # None => NamedSo(exchanges[n], n, object[exchanges[n]], in)

\* An exchange is registered as long as it lives.
ExchangesReached == \A x \in Exchanges : Live(x) => x \in Registered(exchanges)

NamesInv == WireInv /\ OneName /\ QueuesNamed /\ ExchangesNamed /\ ExchangesReached

LEMMA NamesAreEnough == NamesInv => LookupByName
<1> SUFFICES ASSUME NamesInv PROVE LookupByName
  OBVIOUS
<1>1. /\ queues \in [GivenNames -> Queues \cup {None}]
      /\ exchanges \in [UserNames \cup {NoName} -> Exchanges \cup {None}]
  BY DEF NamesInv, WireInv, StaleInv, Inv, HashesTyped
<1>2. QED
  BY <1>1 DEF NamesInv, QueuesNamed, ExchangesNamed, NamedSo, LookupByName

\* A declareOk that is there was there, or has the name of its object, and so
\* have all that were there; or its object had none, nor was any there.
Declaring(o) ==
    \A j \in DOMAIN in' : IsDeclareOk(in'[j], o) =>
        \/ \E i \in DOMAIN in : in[i] = in'[j]
        \/ /\ in'[j].name = object[o].name \/ (o \in Queues /\ object[o].name = NoName)
           /\ o \in Queues /\ "twice" \notin happened' =>
                /\ \A i \in DOMAIN in : IsDeclareOk(in[i], o) => in[i].name = in'[j].name
                /\ \A i \in DOMAIN in' : IsDeclareOk(in'[i], o) =>
                       (\E h \in DOMAIN in : in[h] = in'[i]) \/ in'[i] = in'[j]

LEMMA OneNameKept ==
    ASSUME OneName, happened \subseteq happened', \A q \in Queues : Declaring(q)
    PROVE  OneName'
<1> SUFFICES ASSUME "twice" \notin happened', NEW q \in Queues, NEW i \in DOMAIN in',
                    NEW j \in DOMAIN in', IsDeclareOk(in'[i], q), IsDeclareOk(in'[j], q)
             PROVE  in'[i].name = in'[j].name
  BY DEF OneName
<1>1. Declaring(q) /\ "twice" \notin happened
  OBVIOUS
<1>2. \A x, y \in DOMAIN in : IsDeclareOk(in[x], q) /\ IsDeclareOk(in[y], q) => in[x].name = in[y].name
  BY <1>1 DEF OneName
<1> DEFINE Old(x) == \E h \in DOMAIN in : in[h] = in'[x]
           Fresh(x) == /\ \A h \in DOMAIN in : IsDeclareOk(in[h], q) => in[h].name = in'[x].name
                       /\ \A y \in DOMAIN in' : IsDeclareOk(in'[y], q) => Old(y) \/ in'[y] = in'[x]
<1>3. \A x \in DOMAIN in' : IsDeclareOk(in'[x], q) => Old(x) \/ Fresh(x)
  BY <1>1 DEF Declaring
<1>4. CASE Old(i) /\ Old(j)
  BY <1>2, <1>4
<1>5. ASSUME NEW x \in DOMAIN in', NEW y \in DOMAIN in', Old(x), Fresh(y), IsDeclareOk(in'[x], q)
      PROVE  in'[x].name = in'[y].name
  BY <1>5
<1>6. CASE Fresh(i) /\ ~Old(j)
  BY <1>6
<1>7. QED
  <2>1. (Old(i) \/ Fresh(i)) /\ (Old(j) \/ Fresh(j))
    BY <1>3
  <2> HIDE DEF Old, Fresh
  <2>2. QED
    BY <1>4, <1>5, <1>6, <2>1

LEMMA NamedSoKept ==
    ASSUME NEW o \in Objects, NEW n \in GivenNames \cup {NoName}, n = NoName => o \notin Queues,
           NamedSo(o, n, object[o], in), object'[o].name = n, Declaring(o)
    PROVE  NamedSo(o, n, object'[o], in')
<1>1. n \in GivenNames => n # NoName
  BY RegistryAssumption DEF GivenNames, ServerNames, NoName
<1>2. QED
  BY <1>1 DEF NamedSo, Declaring

\* What is registered after a step was, and has kept its name, or is named so.
LEMMA NamesStep ==
    ASSUME NamesInv, WireInv', happened \subseteq happened', \A o \in Objects : Declaring(o),
           \A n \in GivenNames :
              "renamed" \notin happened' /\ "twice" \notin happened' /\ queues'[n] # None =>
                 \/ queues'[n] = queues[n] /\ object'[queues[n]].name = object[queues[n]].name
                 \/ NamedSo(queues'[n], n, object'[queues'[n]], in'),
           \A n \in UserNames \cup {NoName} :
              "renamed" \notin happened' /\ exchanges'[n] # None =>
                 \/ /\ exchanges'[n] = exchanges[n]
                    /\ object'[exchanges[n]].name = object[exchanges[n]].name
                 \/ NamedSo(exchanges'[n], n, object'[exchanges'[n]], in'),
           ExchangesReached'
    PROVE  NamesInv'
<1>1. /\ queues \in [GivenNames -> Queues \cup {None}]
      /\ exchanges \in [UserNames \cup {NoName} -> Exchanges \cup {None}]
      /\ Exchanges \cap Queues = {} /\ Objects = Exchanges \cup Queues
  BY RegistryAssumption DEF NamesInv, WireInv, StaleInv, Inv, HashesTyped, Objects
<1>2. OneName'
  BY <1>1, OneNameKept DEF NamesInv
<1>3. ASSUME "renamed" \notin happened', "twice" \notin happened', NEW n \in GivenNames,
             queues[n] # None, object'[queues[n]].name = object[queues[n]].name
      PROVE  NamedSo(queues[n], n, object'[queues[n]], in')
  <2> DEFINE o == queues[n]
  <2>1. NamedSo(o, n, object[o], in) /\ o \in Objects /\ object'[o].name = object[o].name
    BY <1>1, <1>3 DEF NamesInv, QueuesNamed
  <2>2. n # NoName
    BY RegistryAssumption DEF GivenNames, ServerNames, NoName
  <2> HIDE DEF o
  <2>3. object'[o].name = n
    BY <2>1 DEF NamedSo
  <2>4. NamedSo(o, n, object'[o], in')
    BY <2>1, <2>2, <2>3, NamedSoKept
  <2>5. QED
    BY <2>4 DEF o
<1>4. ASSUME "renamed" \notin happened', NEW n \in UserNames \cup {NoName}, exchanges[n] # None,
             object'[exchanges[n]].name = object[exchanges[n]].name
      PROVE  NamedSo(exchanges[n], n, object'[exchanges[n]], in')
  <2> DEFINE o == exchanges[n]
  <2>1. NamedSo(o, n, object[o], in) /\ o \in Objects /\ o \notin Queues
        /\ object'[o].name = object[o].name
    BY <1>1, <1>4 DEF NamesInv, ExchangesNamed
  <2> HIDE DEF o
  <2>2. object'[o].name = n
    BY <2>1 DEF NamedSo
  <2>3. NamedSo(o, n, object'[o], in')
    BY <2>1, <2>2, NamedSoKept DEF GivenNames
  <2>4. QED
    BY <2>3 DEF o
<1>5. QueuesNamed'
  <2> SUFFICES ASSUME "renamed" \notin happened', "twice" \notin happened',
                      NEW n \in GivenNames, queues'[n] # None
               PROVE  NamedSo(queues'[n], n, object'[queues'[n]], in')
    BY DEF QueuesNamed
  <2>1. CASE queues'[n] = queues[n] /\ object'[queues[n]].name = object[queues[n]].name
    <3>1. NamedSo(queues[n], n, object'[queues[n]], in')
      BY <1>3, <2>1
    <3>2. QED
      BY <2>1, <3>1
  <2>2. QED
    BY <2>1
<1>6. ExchangesNamed'
  <2> SUFFICES ASSUME "renamed" \notin happened', NEW n \in UserNames \cup {NoName},
                      exchanges'[n] # None
               PROVE  NamedSo(exchanges'[n], n, object'[exchanges'[n]], in')
    BY DEF ExchangesNamed
  <2>1. CASE exchanges'[n] = exchanges[n] /\ object'[exchanges[n]].name = object[exchanges[n]].name
    <3>1. NamedSo(exchanges[n], n, object'[exchanges[n]], in')
      BY <1>4, <2>1
    <3>2. QED
      BY <2>1, <3>1
  <2>2. QED
    BY <2>1
<1>7. QED
  BY <1>2, <1>5, <1>6 DEF NamesInv

\* A step that leaves the registry and the names as they are.
LEMMA NamesKept ==
    ASSUME NamesInv, WireInv', happened \subseteq happened', UNCHANGED <<exchanges, queues>>,
           \A o \in Objects : object'[o].name = object[o].name /\ (Live(o)' => Live(o)),
           \A o \in Objects : Declaring(o)
    PROVE  NamesInv'
<1>1. /\ queues \in [GivenNames -> Queues \cup {None}]
      /\ exchanges \in [UserNames \cup {NoName} -> Exchanges \cup {None}]
      /\ Objects = Exchanges \cup Queues
  BY DEF NamesInv, WireInv, StaleInv, Inv, HashesTyped, Objects
<1>2. \A n \in GivenNames : queues[n] # None =>
         object'[queues[n]].name = object[queues[n]].name
  BY <1>1
<1>3. \A n \in UserNames \cup {NoName} : exchanges[n] # None =>
         object'[exchanges[n]].name = object[exchanges[n]].name
  BY <1>1
<1>4. ExchangesReached'
  BY <1>1 DEF NamesInv, ExchangesReached, Registered, Live
<1>5. QED
  BY <1>2, <1>3, <1>4, NamesStep

\* A step that adds no declareOk.
LEMMA NoneDeclaring ==
    ASSUME NEW k, NEW add, Moves(in, in', k, add), \A f \in add : f.type # "DeclareOk"
    PROVE  \A o \in Objects : Declaring(o)
<1>1. \A j \in DOMAIN in' : \/ j + k \in DOMAIN in /\ in'[j] = in[j + k]
                            \/ in'[j] \in add
  BY DEF Moves
<1>2. QED
  BY <1>1 DEF Declaring, IsDeclareOk

\* A frame that is sent.
LEMMA SentDeclaring ==
    ASSUME NEW o \in Objects, NEW frame, NEW k, NEW add, Sent(o, frame, k, add),
           frame.type = "Declare" =>
              /\ frame.name = object[o].name
              /\ o \in Queues /\ "twice" \notin happened' => \A i \in DOMAIN in :
                    IsDeclareOk(in[i], o) => in[i].name = object[o].name /\ object[o].name # NoName
    PROVE  \A p \in Objects : Declaring(p)
<1>1. /\ \A j \in DOMAIN in' : \/ j + k \in DOMAIN in /\ in'[j] = in[j + k]
                               \/ in'[j] \in add
      /\ \A f, g \in add : f = g
  BY DEF Moves, Sent
<1>2. \A f \in add :
         /\ f.object = o
         /\ f.type = "DeclareOk" => frame.type = "Declare"
                                 /\ (f.name = frame.name \/ (o \in Queues /\ frame.name = NoName))
  BY DEF Sent
<1> SUFFICES ASSUME NEW p \in Objects, NEW j \in DOMAIN in', IsDeclareOk(in'[j], p), in'[j] \in add
             PROVE  /\ in'[j].name = object[p].name \/ (p \in Queues /\ object[p].name = NoName)
                    /\ p \in Queues /\ "twice" \notin happened' =>
                         /\ \A i \in DOMAIN in : IsDeclareOk(in[i], p) => in[i].name = in'[j].name
                         /\ \A i \in DOMAIN in' : IsDeclareOk(in'[i], p) =>
                              (\E h \in DOMAIN in : in[h] = in'[i]) \/ in'[i] = in'[j]
  BY <1>1 DEF Declaring
<1>3. p = o /\ frame.type = "Declare"
      /\ (in'[j].name = frame.name \/ (o \in Queues /\ frame.name = NoName))
  BY <1>2 DEF IsDeclareOk
<1>4. \A i \in DOMAIN in' : (\E h \in DOMAIN in : in[h] = in'[i]) \/ in'[i] = in'[j]
  BY <1>1
<1>5. QED
  BY <1>3, <1>4

-----------------------------------------------------------------------------

\* What a new object is, and what is on its way to it.
LEMMA CreatedSays ==
    ASSUME WireInv, NEW o \in Objects, object[o].life = "new", NEW name,
           NEW hooked \in BOOLEAN, Created(o, name, hooked)
    PROVE  /\ \E add : /\ Moves(in, in', 0, add)
                       /\ \A f \in add : f.object = o /\ f.type = "OpenOk"
           /\ \A i \in DOMAIN in' : ~IsDeclareOk(in'[i], o)
           /\ Live(o)' /\ object'[o].name = name /\ ~object'[o].declared
           /\ \A p \in Objects : p # o => object'[p] = object[p]
           /\ broker'.queues = broker.queues /\ broker'.exchanges = broker.exchanges
<1>1. in \in Seq(NamedFrames) /\ broker \in Broker /\ object \in [Objects -> Object]
  BY DEF WireInv, StaleInv, Inv, WireTyped, ObjectsTyped
<1>2. /\ Live(o)' /\ object'[o].name = name /\ ~object'[o].declared
      /\ \A p \in Objects : p # o => object'[p] = object[p]
  BY <1>1 DEF Created, New, Live
<1>3. Moves(in, in, 0, {})
  BY <1>1, MovesNone
<1>4. \A i \in DOMAIN in : in[i].object # o
  BY DEF WireInv, Wire, WireOf
<1>5. CASE link # "up" \/ broker.refused
  <2>1. in' = in /\ broker' = broker
    BY <1>5 DEF Created
  <2>2. Moves(in, in', 0, {})
    BY <1>3, <2>1
  <2>3. QED
    BY <1>2, <1>4, <2>1, <2>2 DEF IsDeclareOk
<1>6. CASE link = "up" /\ ~broker.refused
  <2> DEFINE f == [type |-> "OpenOk", object |-> o]
  <2>1. broker' = Opens(broker, {o}) /\ in' = Append(in, f)
    BY <1>6 DEF Created
  <2>2. f \in NamedFrames
    BY DEF NamedFrames
  <2>3. in' = in \o <<f>>
    BY <1>1, <2>1, <2>2
  <2>4. f.object = o /\ f.type = "OpenOk"
    OBVIOUS
  <2> HIDE DEF f
  <2>5. Moves(in, in', 0, {f})
    BY <1>1, <1>3, <2>2, <2>3, MovesAdds
  <2>6. broker'.queues = broker.queues /\ broker'.exchanges = broker.exchanges
    BY <1>1, <2>1 DEF Opens, Broker
  <2>7. \A i \in DOMAIN in' : (i + 0 \in DOMAIN in /\ in'[i] = in[i + 0]) \/ in'[i] \in {f}
    BY <2>5 DEF Moves
  <2>8. \A i \in DOMAIN in' : ~IsDeclareOk(in'[i], o)
    BY <1>4, <2>4, <2>7 DEF IsDeclareOk
  <2>9. \A g \in {f} : g.object = o /\ g.type = "OpenOk"
    BY <2>4
  <2>10. QED
    BY <1>2, <2>5, <2>6, <2>8, <2>9
<1>7. QED
  BY <1>5, <1>6

LEMMA NewNotRegistered ==
    ASSUME Inv, NEW o \in Objects, object[o].life = "new"
    PROVE  o \notin Registered(queues) \cup Registered(exchanges)
  BY DEF Inv, Alive, Registered

LEMMA CreateQueueNames == ASSUME NamesInv, WireInv', CreateQueue PROVE NamesInv'
<1>1. PICK q \in Queues, name \in UserNames \cup {NoName} :
        /\ object[q].life = "new"
        /\ name # NoName => queues[name] = None
        /\ Created(q, name, name = NoName)
        /\ queues' = IF name = NoName THEN queues ELSE Put(queues, name, q)
        /\ UNCHANGED <<exchanges, happened>>
  BY DEF CreateQueue
<1>2. /\ queues \in [GivenNames -> Queues \cup {None}]
      /\ exchanges \in [UserNames \cup {NoName} -> Exchanges \cup {None}]
      /\ Objects = Exchanges \cup Queues /\ Exchanges \cap Queues = {}
      /\ q \in Objects /\ WireInv /\ Inv /\ (name = NoName) \in BOOLEAN
  BY RegistryAssumption DEF NamesInv, WireInv, StaleInv, Inv, HashesTyped, Objects
<1>3. /\ \E add : /\ Moves(in, in', 0, add)
                  /\ \A f \in add : f.object = q /\ f.type = "OpenOk"
      /\ \A i \in DOMAIN in' : ~IsDeclareOk(in'[i], q)
      /\ object'[q].name = name
      /\ \A p \in Objects : p # q => object'[p] = object[p]
  BY <1>1, <1>2, CreatedSays
<1>4. \A p \in Objects : Declaring(p)
  BY <1>3, NoneDeclaring
<1>5. q \notin Registered(queues)
  BY <1>1, <1>2, NewNotRegistered
<1>6. ASSUME NEW n \in GivenNames, queues'[n] # None
      PROVE  \/ queues'[n] = queues[n] /\ object'[queues[n]].name = object[queues[n]].name
             \/ NamedSo(queues'[n], n, object'[queues'[n]], in')
  <2>1. CASE queues'[n] = queues[n]
    BY <1>2, <1>3, <1>5, <1>6, <2>1 DEF Registered
  <2>2. CASE queues'[n] # queues[n]
    <3>1. n = name /\ queues'[n] = q
      BY <1>1, <1>2, <2>2 DEF Put
    <3>2. NamedSo(q, n, object'[q], in')
      BY <1>3, <3>1 DEF NamedSo
    <3>3. QED
      BY <3>1, <3>2
  <2>3. QED
    BY <2>1, <2>2
<1>7. \A n \in UserNames \cup {NoName} : exchanges[n] # None =>
         object'[exchanges[n]].name = object[exchanges[n]].name
  BY <1>2, <1>3
<1>8. ExchangesReached'
  BY <1>1, <1>2, <1>3 DEF NamesInv, ExchangesReached, Registered, Live
<1>9. QED
  BY <1>1, <1>4, <1>6, <1>7, <1>8, NamesStep

LEMMA CreateExchangeNames == ASSUME NamesInv, WireInv', CreateExchange PROVE NamesInv'
<1>1. PICK x \in Exchanges, name \in UserNames \cup {NoName} :
        /\ object[x].life = "new"
        /\ exchanges[name] = None
        /\ Created(x, name, FALSE)
        /\ exchanges' = Put(exchanges, name, x)
        /\ UNCHANGED <<queues, happened>>
  BY DEF CreateExchange
<1>2. /\ queues \in [GivenNames -> Queues \cup {None}]
      /\ exchanges \in [UserNames \cup {NoName} -> Exchanges \cup {None}]
      /\ Objects = Exchanges \cup Queues /\ Exchanges \cap Queues = {}
      /\ x \in Objects /\ WireInv /\ Inv /\ x # None
  BY RegistryAssumption DEF NamesInv, WireInv, StaleInv, Inv, HashesTyped, Objects
<1>3. /\ \E add : /\ Moves(in, in', 0, add)
                  /\ \A f \in add : f.object = x /\ f.type = "OpenOk"
      /\ \A i \in DOMAIN in' : ~IsDeclareOk(in'[i], x)
      /\ object'[x].name = name
      /\ \A p \in Objects : p # x => object'[p] = object[p]
  BY <1>1, <1>2, CreatedSays
<1>4. \A p \in Objects : Declaring(p)
  BY <1>3, NoneDeclaring
<1>5. x \notin Registered(exchanges)
  BY <1>1, <1>2, NewNotRegistered
<1>6. ASSUME NEW n \in UserNames \cup {NoName}, exchanges'[n] # None
      PROVE  \/ /\ exchanges'[n] = exchanges[n]
                /\ object'[exchanges[n]].name = object[exchanges[n]].name
             \/ NamedSo(exchanges'[n], n, object'[exchanges'[n]], in')
  <2>1. CASE exchanges'[n] = exchanges[n]
    BY <1>2, <1>3, <1>5, <1>6, <2>1 DEF Registered
  <2>2. CASE exchanges'[n] # exchanges[n]
    <3>1. n = name /\ exchanges'[n] = x
      BY <1>1, <1>2, <2>2 DEF Put
    <3>2. NamedSo(x, n, object'[x], in')
      BY <1>3, <3>1 DEF NamedSo
    <3>3. QED
      BY <3>1, <3>2
  <2>3. QED
    BY <2>1, <2>2
<1>7. \A n \in GivenNames : queues[n] # None =>
         object'[queues[n]].name = object[queues[n]].name
  BY <1>2, <1>3
<1>8. ExchangesReached'
  <2>1. Registered(exchanges) \cup {x} \subseteq Registered(exchanges)'
    BY <1>1, <1>2 DEF Registered, Put
  <2>2. QED
    BY <1>2, <1>3, <2>1 DEF NamesInv, ExchangesReached, Live
<1>9. QED
  BY <1>1, <1>4, <1>6, <1>7, <1>8, NamesStep

\* Nothing is read or sent.
LEMMA NothingDeclaring ==
    ASSUME Inv, UNCHANGED in PROVE \A o \in Objects : Declaring(o)
  BY DEF Declaring

LEMMA DeleteNames == ASSUME NamesInv, WireInv', NEW o \in Objects, Delete(o) PROVE NamesInv'
<1>1. /\ queues \in [GivenNames -> Queues \cup {None}]
      /\ exchanges \in [UserNames \cup {NoName} -> Exchanges \cup {None}]
      /\ Objects = Exchanges \cup Queues /\ object \in [Objects -> Object]
      /\ Inv
  BY DEF NamesInv, WireInv, StaleInv, Inv, HashesTyped, Objects, ObjectsTyped
<1>2. /\ UNCHANGED <<in, happened>> /\ exchanges' = Removed(exchanges, o)
      /\ queues' = Removed(queues, o) /\ object' = [object EXCEPT ![o].life = "dead"]
  BY DEF Delete
<1>3. \A p \in Objects : Declaring(p)
  BY <1>1, <1>2, NothingDeclaring
<1>4. \A p \in Objects : object'[p].name = object[p].name
  BY <1>1, <1>2 DEF Object
<1>5. object'[o].life = "dead" /\ \A p \in Objects : p # o => object'[p] = object[p]
  BY <1>1, <1>2 DEF Object
<1>6. /\ \A n \in GivenNames : queues'[n] # None => queues'[n] = queues[n]
      /\ \A n \in UserNames \cup {NoName} : exchanges'[n] # None => exchanges'[n] = exchanges[n]
  BY <1>1, <1>2 DEF Removed
<1>7. /\ \A n \in GivenNames : queues[n] # None => queues[n] \in Objects
      /\ \A n \in UserNames \cup {NoName} : exchanges[n] # None => exchanges[n] \in Objects
  BY <1>1
<1>8. ExchangesReached'
  <2>1. Registered(exchanges) \ {o} \subseteq Registered(exchanges)'
    BY <1>1, <1>2 DEF Registered, Removed
  <2>2. QED
    BY <1>1, <1>5, <2>1 DEF NamesInv, ExchangesReached, Live
<1>9. QED
  BY <1>2, <1>3, <1>4, <1>6, <1>7, <1>8, NamesStep

LEMMA SetNameNames == ASSUME NamesInv, WireInv', NEW o \in Objects, SetName(o) PROVE NamesInv'
<1>1. /\ queues \in [GivenNames -> Queues \cup {None}]
      /\ exchanges \in [UserNames \cup {NoName} -> Exchanges \cup {None}]
      /\ Objects = Exchanges \cup Queues /\ object \in [Objects -> Object]
      /\ Inv
  BY DEF NamesInv, WireInv, StaleInv, Inv, HashesTyped, Objects, ObjectsTyped
<1>2. UNCHANGED <<in, exchanges, queues>> /\ happened \subseteq happened'
  BY DEF SetName, Happens
<1>3. PICK name \in UserNames : object' = [object EXCEPT ![o].name = name]
  BY DEF SetName
<1>4. /\ \A p \in Objects : p # o => object'[p] = object[p]
      /\ \A p \in Objects : object'[p].life = object[p].life
  BY <1>1, <1>3 DEF Object
<1>5. \A p \in Objects : Declaring(p)
  BY <1>1, <1>2, NothingDeclaring
<1>6. "renamed" \notin happened' => o \notin Registered(exchanges) \cup Registered(queues)
  BY DEF SetName, Happens
<1>7. /\ \A n \in GivenNames : "renamed" \notin happened' /\ queues[n] # None =>
             object'[queues[n]].name = object[queues[n]].name
      /\ \A n \in UserNames \cup {NoName} : "renamed" \notin happened' /\ exchanges[n] # None =>
             object'[exchanges[n]].name = object[exchanges[n]].name
  BY <1>1, <1>4, <1>6 DEF Registered
<1>8. ExchangesReached'
  BY <1>1, <1>2, <1>4 DEF NamesInv, ExchangesReached, Registered, Live
<1>9. QED
  BY <1>2, <1>5, <1>7, <1>8, NamesStep

LEMMA DeclareNames == ASSUME NamesInv, WireInv', NEW o \in Objects, Declare(o) PROVE NamesInv'
<1>1. Objects = Exchanges \cup Queues /\ object \in [Objects -> Object] /\ Inv
  BY DEF NamesInv, WireInv, StaleInv, Inv, Objects, ObjectsTyped
<1>2. UNCHANGED <<exchanges, queues>> /\ happened \subseteq happened'
  BY DEF Declare, Happens
<1>3. \A p \in Objects : object'[p].name = object[p].name /\ object'[p].life = object[p].life
  BY <1>1 DEF Declare, Object
<1>4. CASE object[o].opened /\ DeclareClears(o)
  <2> DEFINE frame == [type |-> "Declare", name |-> object[o].name]
  <2>1. ~(o \in Exchanges /\ object[o].name = NoName)
    BY <1>4, RegistryAssumption DEF DeclareClears
  <2>2. Send(o, frame) /\ CanDeclare(o) /\ happened' = happened \cup DeclareEvents(o)
    BY <1>4, <2>1 DEF Declare, DeclareNow, Happens
  <2>3. frame \in OutFrames /\ Sendable(broker, o, frame)
    BY <1>1, <1>4, <2>2, DeclareSendable
  <2>4. frame.name = object[o].name
    OBVIOUS
  <2> HIDE DEF frame
  <2>5. PICK add : Sent(o, frame, 0, add)
    BY <1>1, <2>2, <2>3, SendSays
  <2>6. in \in Seq(NamedFrames)
    BY <1>1 DEF Inv, WireTyped
  <2>7. ASSUME NEW i \in DOMAIN in, IsDeclareOk(in[i], o), o \in Queues, "twice" \notin happened'
        PROVE  in[i].name = object[o].name /\ object[o].name # NoName
    <3>1. in[i].name = object[o].name
      BY <2>2, <2>7 DEF DeclareEvents, IsDeclareOk
    <3>2. in[i] \in NamedFrames
      BY <2>6
    <3>3. in[i].name \in GivenNames
      BY <2>7, <3>2 DEF NamedFrames, IsDeclareOk
    <3>4. QED
      BY <3>1, <3>3, RegistryAssumption DEF GivenNames, ServerNames, NoName
  <2>8. \A p \in Objects : Declaring(p)
    BY <2>4, <2>5, <2>7, SentDeclaring
  <2>9. QED
    BY <1>2, <1>3, <2>8, NamesKept DEF Live
<1>5. CASE ~(object[o].opened /\ DeclareClears(o))
  <2>1. UNCHANGED in
    BY <1>5 DEF Declare, DeclareNow, DeclareClears, Objects
  <2>2. QED
    BY <1>1, <1>2, <1>3, <2>1, NothingDeclaring, NamesKept DEF Live
<1>6. QED
  BY <1>4, <1>5

LEMMA RemoveObjectNames ==
    ASSUME NamesInv, WireInv', NEW o \in Objects, RemoveObject(o)
    PROVE  NamesInv'
<1> PICK noWait \in BOOLEAN :
       /\ Send(o, [type |-> "Delete", name |-> object[o].name, noWait |-> noWait])
       /\ Happens(RemoveEvents(o, noWait))
  BY DEF RemoveObject
<1> DEFINE frame == [type |-> "Delete", name |-> object[o].name, noWait |-> noWait]
<1>1. Inv
  BY DEF NamesInv, WireInv, StaleInv
<1>2. frame \in OutFrames /\ Sendable(broker, o, frame) /\ frame.type = "Delete"
  BY <1>1, NameTyped DEF OutFrames, Sendable
<1>3. Send(o, frame)
  OBVIOUS
<1> HIDE DEF frame
<1>4. PICK add : Sent(o, frame, 0, add)
  BY <1>1, <1>2, <1>3, SendSays
<1>5. \A p \in Objects : Declaring(p)
  BY <1>2, <1>4, SentDeclaring
<1>6. UNCHANGED <<exchanges, queues, object>> /\ happened \subseteq happened'
  BY DEF RemoveObject, Happens
<1>7. QED
  BY <1>5, <1>6, NamesKept DEF Live

LEMMA AskNames == ASSUME NamesInv, WireInv', NEW q \in Queues, Ask(q) PROVE NamesInv'
<1>1. PICK type \in {"PurgeOk", "BindOk", "UnbindOk"} :
        Send(q, [type |-> type, name |-> object[q].name])
  BY DEF Ask
<1> DEFINE frame == [type |-> type, name |-> object[q].name]
<1>2. Inv /\ q \in Objects
  BY DEF NamesInv, WireInv, StaleInv, Objects
<1>3. frame \in OutFrames /\ Sendable(broker, q, frame) /\ frame.type # "Declare"
  BY <1>2, NameTyped DEF OutFrames, Sendable
<1>4. Send(q, frame)
  BY <1>1
<1> HIDE DEF frame
<1>5. PICK add : Sent(q, frame, 0, add)
  BY <1>2, <1>3, <1>4, SendSays
<1>6. \A p \in Objects : Declaring(p)
  BY <1>2, <1>3, <1>5, SentDeclaring
<1>7. QED
  BY <1>6, NamesKept DEF Live, Ask

LEMMA BrokerClosesNames == ASSUME NamesInv, WireInv', BrokerCloses PROVE NamesInv'
<1>1. PICK o \in Objects : in' = in \o ClosesChannel(broker, o).answer
  BY DEF BrokerCloses
<1> DEFINE f == [type |-> "Close", object |-> o]
<1>2. in \in Seq(NamedFrames)
  BY DEF NamesInv, WireInv, StaleInv, Inv, WireTyped
<1>3. f \in NamedFrames /\ f.type = "Close"
  BY DEF NamedFrames
<1>4. in' = in \o <<f>>
  BY <1>1 DEF ClosesChannel, Answered
<1> HIDE DEF f
<1>5. Moves(in, in', 0, {f})
  <2>1. Moves(in, in, 0, {})
    BY <1>2, MovesNone
  <2>2. QED
    BY <1>2, <1>3, <1>4, <2>1, MovesAdds
<1>6. \A g \in {f} : g.type # "DeclareOk"
  BY <1>3
<1>7. \A p \in Objects : Declaring(p)
  BY <1>5, <1>6, NoneDeclaring
<1>8. QED
  BY <1>7, NamesKept DEF BrokerCloses, Live

-----------------------------------------------------------------------------

\* A handler that reads one frame and sends none.
LEMMA ReadDeclaring ==
    ASSUME Inv, in # <<>>, in' = Tail(in)
    PROVE  Moves(in, in', 1, {}) /\ \A o \in Objects : Declaring(o)
<1>1. Moves(in, Tail(in), 1, {})
  BY MovesTail DEF Inv, WireTyped
<1>2. Moves(in, in', 1, {})
  BY <1>1
<1>3. QED
  BY <1>2, NoneDeclaring

LEMMA ReceiveOpenOkNames == ASSUME NamesInv, WireInv', ReceiveOpenOk PROVE NamesInv'
<1> DEFINE o == Source
           declares == Live(o) /\ object[o].delayedDeclare /\ DeclareClears(o)
           y == object[o].delayedDeclare /\ ~declares
           frame == [type |-> "Declare", name |-> object[o].name]
<1>1. Inv
  BY DEF NamesInv, WireInv, StaleInv
<1>2. in # <<>> /\ o \in Objects /\ link = "up" /\ in \in Seq(NamedFrames)
  BY <1>1, ReceiveTyped DEF ReceiveOpenOk, Receive, Inv, WireTyped
<1>3. 1 \in DOMAIN in /\ IsOpenOk(in[1], o)
  BY <1>2 DEF ReceiveOpenOk, Receive, IsOpenOk, Source
<1>4. object' = IF Live(o) THEN [object EXCEPT ![o].opened = TRUE, ![o].delayedDeclare = y]
                ELSE object
  BY DEF ReceiveOpenOk
<1>5. IF declares THEN CanDeclare(o) /\ SendAfter(o, frame)
      ELSE in' = Tail(in) /\ UNCHANGED broker
  BY DEF ReceiveOpenOk
<1>6. object \in [Objects -> Object]
  BY <1>1 DEF Inv, ObjectsTyped
<1>7. ASSUME declares, CanDeclare(o)
      PROVE  frame \in OutFrames /\ Sendable(broker, o, frame)
  BY <1>1, <1>2, <1>7, DeclareSendable
<1>8. frame.name = object[o].name
  OBVIOUS
<1> HIDE DEF o, y, frame, declares
<1>9. \A p \in Objects : object'[p].name = object[p].name /\ object'[p].life = object[p].life
  BY <1>4, <1>6 DEF Object
<1>10. \A i \in DOMAIN in : ~IsDeclareOk(in[i], o)
  BY <1>2, <1>3 DEF NamesInv, WireInv, Wire, WireOf, IsDeclareOk
<1>11. \A p \in Objects : Declaring(p)
  <2>1. CASE declares
    <3>1. PICK add : Sent(o, frame, 1, add)
      BY <1>1, <1>2, <1>5, <1>7, <2>1, SendAfterSays
    <3>2. QED
      BY <1>2, <1>8, <1>10, <3>1, SentDeclaring
  <2>2. CASE ~declares
    BY <1>1, <1>2, <1>5, <2>2, ReadDeclaring
  <2>3. QED
    BY <2>1, <2>2
<1>12. QED
  BY <1>9, <1>11, NamesKept DEF ReceiveOpenOk, Live

\* What a declareOk does to its object.
LEMMA ReceiveDeclareOkSays ==
    ASSUME Inv, ReceiveDeclareOk, NEW o, o = Source, NEW name, name = Head(in).name
    PROVE  /\ in # <<>> /\ o \in Objects /\ name \in GivenNames /\ link = "up"
           /\ 1 \in DOMAIN in /\ IsDeclareOk(in[1], o) /\ in[1].name = name
           /\ \A p \in Objects : /\ object'[p].life = object[p].life
                                 /\ p # o => object'[p] = object[p]
           /\ Live(o) => /\ object'[o].name = IF o \in Queues THEN name ELSE object[o].name
                         /\ object'[o].declared
           /\ ~Live(o) => object'[o] = object[o]
<1>1. in # <<>> /\ o \in Objects /\ name \in GivenNames /\ link = "up"
  BY ReceiveTyped DEF ReceiveDeclareOk, Receive, NamedFrames
<1>2. 1 \in DOMAIN in /\ IsDeclareOk(in[1], o) /\ in[1].name = name
  BY <1>1 DEF ReceiveDeclareOk, Receive, IsDeclareOk, Source, Inv, WireTyped
<1> DEFINE other == IF o \in Queues THEN name ELSE object[o].name
<1>3. object' = IF Live(o) THEN [object EXCEPT ![o].declared = TRUE, ![o].name = other]
                ELSE object
  BY DEF ReceiveDeclareOk
<1>4. object \in [Objects -> Object]
  BY DEF Inv, ObjectsTyped
<1>5. CASE ~Live(o)
  BY <1>1, <1>2, <1>3, <1>5
<1>6. CASE Live(o)
  <2> HIDE DEF other
  <2>1. \A p \in Objects : p # o => object'[p] = object[p]
    BY <1>3, <1>4, <1>6
  <2>2. object'[o] = [object[o] EXCEPT !.declared = TRUE, !.name = other]
    BY <1>1, <1>3, <1>4, <1>6
  <2>3. object'[o].life = object[o].life /\ object'[o].name = other /\ object'[o].declared
    BY <1>1, <1>4, <2>2 DEF Object
  <2>4. QED
    BY <1>1, <1>2, <1>6, <2>1, <2>3 DEF other
<1>7. QED
  BY <1>5, <1>6

LEMMA ReceiveDeclareOkNames == ASSUME NamesInv, WireInv', ReceiveDeclareOk PROVE NamesInv'
<1> DEFINE o == Source
           name == Head(in).name
           stored == Live(o) /\ object[o].hooked
<1>1. /\ Inv /\ queues \in [GivenNames -> Queues \cup {None}]
      /\ exchanges \in [UserNames \cup {NoName} -> Exchanges \cup {None}]
      /\ Objects = Exchanges \cup Queues /\ Exchanges \cap Queues = {}
      /\ in \in Seq(NamedFrames)
  BY RegistryAssumption DEF NamesInv, WireInv, StaleInv, Inv, HashesTyped, WireTyped, Objects
<1>2. /\ queues' = IF stored THEN Put(queues, name, o) ELSE queues
      /\ happened \subseteq happened' /\ exchanges' = exchanges /\ in' = Tail(in)
  BY DEF ReceiveDeclareOk, Happens
<1>3. stored => Live(o)
  OBVIOUS
<1> HIDE DEF o, name, stored
<1>4. /\ in # <<>> /\ o \in Objects /\ name \in GivenNames
      /\ 1 \in DOMAIN in /\ IsDeclareOk(in[1], o) /\ in[1].name = name
      /\ \A p \in Objects : object'[p].life = object[p].life /\ (p # o => object'[p] = object[p])
      /\ Live(o) => object'[o].name = IF o \in Queues THEN name ELSE object[o].name
      /\ ~Live(o) => object'[o] = object[o]
  BY <1>1, ReceiveDeclareOkSays DEF o, name
<1>5. stored => o \in Queues
  BY <1>1, <1>4 DEF Inv, ObjectsTyped, WellNamed, stored
<1>6. \A p \in Objects : Declaring(p)
  BY <1>1, <1>2, <1>4, ReadDeclaring
<1>7. ASSUME "renamed" \notin happened', "twice" \notin happened', NEW n \in GivenNames, queues'[n] # None
      PROVE  \/ queues'[n] = queues[n] /\ object'[queues[n]].name = object[queues[n]].name
             \/ NamedSo(queues'[n], n, object'[queues'[n]], in')
  <2>1. CASE stored /\ n = name
    <3>1. queues'[n] = o /\ object'[o].name = name
      BY <1>1, <1>2, <1>3, <1>4, <1>5, <2>1 DEF Put
    <3>2. \A i \in DOMAIN in : IsDeclareOk(in[i], o) => in[i].name = name
      BY <1>2, <1>4, <1>5, <1>7, <2>1 DEF NamesInv, OneName
    <3>3. \A j \in DOMAIN in' : j + 1 \in DOMAIN in /\ in'[j] = in[j + 1]
      BY <1>1, <1>2, <1>4, TailEntries
    <3>4. NamedSo(o, name, object'[o], in')
      BY <3>1, <3>2, <3>3 DEF NamedSo
    <3>5. QED
      BY <2>1, <3>1, <3>4
  <2>2. CASE ~(stored /\ n = name)
    <3> DEFINE p == queues[n]
    <3>1. queues'[n] = p
      BY <1>1, <1>2, <2>2 DEF Put
    <3>2. p \in Objects /\ NamedSo(p, n, object[p], in)
      BY <1>1, <1>2, <1>7, <3>1 DEF NamesInv, QueuesNamed
    <3> HIDE DEF p
    <3>3. p = o => object[p].name = n /\ name = n
      BY <1>4, <3>2 DEF NamedSo
    <3>4. object'[p].name = object[p].name
      BY <1>4, <3>2, <3>3
    <3>5. QED
      BY <3>1, <3>4 DEF p
  <2>3. QED
    BY <2>1, <2>2
<1>8. \A n \in UserNames \cup {NoName} : exchanges[n] # None =>
         object'[exchanges[n]].name = object[exchanges[n]].name
  <2> SUFFICES ASSUME NEW n \in UserNames \cup {NoName}, exchanges[n] # None
               PROVE  object'[exchanges[n]].name = object[exchanges[n]].name
    OBVIOUS
  <2> DEFINE p == exchanges[n]
  <2>1. p \in Objects /\ p \notin Queues
    BY <1>1
  <2> HIDE DEF p
  <2>2. object'[p].name = object[p].name
    BY <1>4, <2>1
  <2>3. QED
    BY <2>2 DEF p
<1>9. ExchangesReached'
  BY <1>1, <1>2, <1>4 DEF NamesInv, ExchangesReached, Registered, Live
<1>10. QED
  BY <1>2, <1>6, <1>7, <1>8, <1>9, NamesStep

LEMMA ReceiveRestNames ==
    ASSUME NamesInv, WireInv', ReceiveDeleteOk \/ ReceiveServed \/ ReceiveClose
    PROVE  NamesInv'
<1>1. Inv /\ object \in [Objects -> Object]
  BY DEF NamesInv, WireInv, StaleInv, Inv, ObjectsTyped
<1>2. in # <<>> /\ in' = Tail(in) /\ UNCHANGED <<exchanges, queues, happened>>
  BY DEF ReceiveDeleteOk, ReceiveServed, ReceiveClose, Receive
<1>3. \A p \in Objects : object'[p].name = object[p].name /\ object'[p].life = object[p].life
  BY <1>1 DEF ReceiveDeleteOk, ReceiveServed, ReceiveClose, Object
<1>4. QED
  BY <1>1, <1>2, <1>3, ReadDeclaring, NamesKept DEF Live

\* A step after which only openOks, or nothing, are on their way.
LEMMA LinkNames ==
    ASSUME NamesInv, WireInv', LinkUp \/ SocketClosed \/ LinkCloses
    PROVE  NamesInv'
<1>1. \A o \in Objects : object[o] \in Object
  BY DEF NamesInv, WireInv, StaleInv, Inv, ObjectsTyped
<1>2. UNCHANGED <<exchanges, queues, happened>>
  BY DEF LinkUp, SocketClosed, LinkCloses
<1>3. \A j \in DOMAIN in' : in'[j].type = "OpenOk"
  <2>1. CASE LinkUp
    <3> DEFINE opening == {o \in Objects : Live(o) /\ ~object[o].opened}
    <3>1. in' = SetToSeq([type : {"OpenOk"}, object : opening]) /\ opening \in SUBSET Objects
      BY <2>1 DEF LinkUp
    <3> HIDE DEF opening
    <3>2. QED
      BY <3>1, OpenOksAre
  <2>2. CASE SocketClosed \/ LinkCloses
    BY <2>2 DEF SocketClosed, LinkCloses
  <2>3. QED
    BY <2>1, <2>2
<1>4. \A p \in Objects : Declaring(p)
  BY <1>3 DEF Declaring, IsDeclareOk
<1>5. ASSUME NEW o \in Objects
      PROVE  object'[o].name = object[o].name /\ object'[o].life = object[o].life
  <2>1. CASE SocketClosed
    <3>1. object'[o] = IF Live(o) THEN Disconnected(o, Reset(o, object[o])) ELSE object[o]
      BY <2>1 DEF SocketClosed
    <3>2. Reset(o, object[o]) \in Object
      BY <1>1, ResetTyped
    <3>3. QED
      BY <1>1, <3>1, <3>2, ResetTyped, DisconnectedTyped
  <2>2. CASE LinkCloses
    <3>1. \/ object'[o] = IF Live(o) THEN Disconnected(o, object[o]) ELSE object[o]
          \/ object' = object
      BY <2>2 DEF LinkCloses
    <3>2. QED
      BY <1>1, <3>1, DisconnectedTyped
  <2>3. QED
    BY <2>1, <2>2 DEF LinkUp
<1>6. QED
  BY <1>2, <1>4, <1>5, NamesKept DEF Live

LEMMA InitNames == Init => NamesInv
<1> SUFFICES ASSUME Init PROVE NamesInv
  OBVIOUS
<1>1. OneName
  BY DEF Init, OneName
<1>2. QueuesNamed /\ ExchangesNamed
  BY DEF Init, QueuesNamed, ExchangesNamed, GivenNames
<1>3. ExchangesReached
  BY DEF Init, ExchangesReached, Live, New, Objects
<1>4. QED
  BY <1>1, <1>2, <1>3, InitWire DEF NamesInv

LEMMA NextNames == NamesInv /\ [Next]_vars => NamesInv'
<1> SUFFICES ASSUME NamesInv, [Next]_vars PROVE NamesInv'
  OBVIOUS
<1>1. WireInv'
  BY NextWire DEF NamesInv
<1>2. CASE User
  BY <1>1, <1>2, CreateQueueNames, CreateExchangeNames, DeleteNames, SetNameNames, DeclareNames,
     RemoveObjectNames, AskNames DEF User
<1>3. CASE Reading
  BY <1>1, <1>3, ReceiveOpenOkNames, ReceiveDeclareOkNames, ReceiveRestNames DEF Reading
<1>4. Inv
  BY DEF NamesInv, WireInv, StaleInv
<1>5. CASE OthersDelete
  <2>1. UNCHANGED <<in, exchanges, queues, object>> /\ happened \subseteq happened'
    BY <1>5 DEF OthersDelete, Happens
  <2>2. QED
    BY <1>1, <1>4, <2>1, NothingDeclaring, NamesKept DEF Live
<1>6. CASE UNCHANGED vars
  BY <1>1, <1>4, <1>6, NothingDeclaring, NamesKept DEF vars, Live
<1>7. QED
  BY <1>1, <1>2, <1>3, <1>5, <1>6, BrokerClosesNames, LinkNames DEF Next

-----------------------------------------------------------------------------
(* What is declared is there.                                              *)

Tells(f, o) == f.object = o /\ f.type \in {"DeclareOk", "DeleteOk"}

\* What the broker has, it says last; what it has said last, when it is read,
\* is what the object says.
ToldOf(o, s, had, declared, name) ==
    /\ \A i \in DOMAIN s :
          IsDeclareOk(s[i], o) /\ (\A j \in DOMAIN s : j > i => ~Tells(s[j], o))
             => s[i].name \in had
    /\ declared /\ (\A i \in DOMAIN s : ~Tells(s[i], o)) => name \in had

Quiet ==
    /\ "renamed" \notin happened /\ "displaced" \notin happened
    /\ "others" \notin happened /\ "unanswered" \notin happened

Told ==
    link = "up" /\ Quiet =>
        \A o \in Objects : Live(o) =>
            ToldOf(o, in, Had(broker, o), object[o].declared, object[o].name)

FullInv == NamesInv /\ Told

LEMMA ToldIsEnough == FullInv => DeclaredExists
  BY DEF FullInv, Told, ToldOf, Tells, Quiet, DeclaredExists, Had

LEMMA ToldStep ==
    ASSUME NEW o, NEW s, NEW r, NEW k, NEW add, NEW had, NEW had2,
           NEW declared, NEW declared2 \in BOOLEAN, NEW name, NEW name2,
           Moves(s, r, k, add), ToldOf(o, s, had, declared, name),
           \A f \in add : IsDeclareOk(f, o) => f.name \in had2,
           \A n \in had : \/ n \in had2
                          \/ \E f \in add : f.object = o /\ f.type = "DeleteOk"
                          \/ /\ declared => n # name
                             /\ \A i \in DOMAIN s : IsDeclareOk(s[i], o) => s[i].name # n,
           declared2 =>
              \/ declared /\ name2 = name /\ ~(k = 1 /\ 1 \in DOMAIN s /\ Tells(s[1], o))
              \/ k = 1 /\ 1 \in DOMAIN s /\ IsDeclareOk(s[1], o) /\ s[1].name = name2
    PROVE  ToldOf(o, r, had2, declared2, name2)
<1>1. /\ \A j \in DOMAIN r : \/ j + k \in DOMAIN s /\ r[j] = s[j + k]
                             \/ r[j] \in add /\ \A i \in DOMAIN r : i <= j
      /\ \A j \in DOMAIN s : j > k => j - k \in DOMAIN r /\ r[j - k] = s[j]
      /\ \A f \in add : \E j \in DOMAIN r :
            r[j] = f /\ j + k \notin DOMAIN s /\ \A i \in DOMAIN r : i <= j
      /\ DOMAIN s \subseteq Int /\ DOMAIN r \subseteq Int
      /\ k \in {0, 1} /\ \A j \in DOMAIN s : j >= 1
      /\ \A j \in DOMAIN r : j >= 1
  BY DEF Moves
<1>2. /\ \A i \in DOMAIN s :
            IsDeclareOk(s[i], o) /\ (\A j \in DOMAIN s : j > i => ~Tells(s[j], o))
               => s[i].name \in had
      /\ declared /\ (\A i \in DOMAIN s : ~Tells(s[i], o)) => name \in had
  BY DEF ToldOf
<1>3. \A f : IsDeclareOk(f, o) => Tells(f, o)
  BY DEF IsDeclareOk, Tells
<1>4. ASSUME NEW j \in DOMAIN r, IsDeclareOk(r[j], o), \A i \in DOMAIN r : i > j => ~Tells(r[i], o)
      PROVE  r[j].name \in had2
  <2>1. CASE r[j] \in add
    BY <1>4, <2>1
  <2>2. CASE j + k \in DOMAIN s /\ r[j] = s[j + k]
    <3>1. ASSUME NEW i \in DOMAIN s, i > j + k
          PROVE  ~Tells(s[i], o)
      <4>1. i \in Int /\ j \in Int /\ k \in Int /\ j >= 1
        BY <1>1
      <4>2. i > k /\ i - k > j
        BY <3>1, <4>1
      <4>3. i - k \in DOMAIN r /\ r[i - k] = s[i]
        BY <1>1, <4>2
      <4>4. ~Tells(r[i - k], o)
        BY <1>4, <4>2, <4>3
      <4>5. QED
        BY <4>3, <4>4
    <3>2. s[j + k].name \in had
      BY <1>2, <1>4, <2>2, <3>1
    <3>3. ~\E f \in add : f.object = o /\ f.type = "DeleteOk"
      <4> SUFFICES ASSUME NEW f \in add, f.object = o, f.type = "DeleteOk"
                   PROVE  FALSE
        OBVIOUS
      <4>1. PICK x \in DOMAIN r : r[x] = f /\ \A i \in DOMAIN r : i <= x
        BY <1>1
      <4>2. Tells(r[x], o) /\ x # j
        BY <1>4, <4>1 DEF Tells, IsDeclareOk
      <4>3. x > j
        BY <1>1, <4>1, <4>2
      <4>4. QED
        BY <1>4, <4>2, <4>3
    <3>4. QED
      BY <1>4, <2>2, <3>2, <3>3
  <2>3. QED
    BY <1>1, <2>1, <2>2
<1>5. ASSUME declared2, \A i \in DOMAIN r : ~Tells(r[i], o)
      PROVE  name2 \in had2
  <2>1. ASSUME NEW i \in DOMAIN s, i > k
        PROVE  ~Tells(s[i], o)
    BY <1>1, <1>5, <2>1
  <2>2. ~\E f \in add : f.object = o /\ f.type = "DeleteOk"
    <3> SUFFICES ASSUME NEW f \in add, f.object = o, f.type = "DeleteOk"
                 PROVE  FALSE
      OBVIOUS
    <3>1. PICK x \in DOMAIN r : r[x] = f
      BY <1>1
    <3>2. QED
      BY <1>5, <3>1 DEF Tells
  <2>3. CASE k = 1 /\ 1 \in DOMAIN s /\ IsDeclareOk(s[1], o) /\ s[1].name = name2
    <3>1. s[1].name \in had
      BY <1>2, <2>1, <2>3
    <3>2. QED
      BY <2>2, <2>3, <3>1
  <2>4. CASE declared /\ name2 = name /\ ~(k = 1 /\ 1 \in DOMAIN s /\ Tells(s[1], o))
    <3>1. ASSUME NEW i \in DOMAIN s
          PROVE  ~Tells(s[i], o)
      <4>1. CASE i > k
        BY <2>1, <4>1
      <4>2. CASE ~(i > k)
        <5>1. i = 1 /\ k = 1
          BY <1>1, <4>2
        <5>2. QED
          BY <2>4, <5>1
      <4>3. QED
        BY <4>1, <4>2
    <3>2. name \in had
      BY <1>2, <2>4, <3>1
    <3>3. QED
      BY <2>2, <2>4, <3>2
  <2>5. QED
    BY <1>5, <2>3, <2>4
<1>6. QED
  BY <1>4, <1>5 DEF ToldOf

\* The same, of the program's state.
LEMMA ToldOne ==
    ASSUME FullInv, Inv', NEW o \in Objects, Live(o), link = "up", Quiet, NEW k, NEW add,
           Moves(in, in', k, add),
           \A f \in add : IsDeclareOk(f, o) => f.name \in Had(broker', o),
           \A n \in Had(broker, o) :
              \/ n \in Had(broker', o)
              \/ \E f \in add : f.object = o /\ f.type = "DeleteOk"
              \/ /\ object[o].declared => n # object[o].name
                 /\ \A i \in DOMAIN in : IsDeclareOk(in[i], o) => in[i].name # n,
           object'[o].declared =>
              \/ /\ object[o].declared /\ object'[o].name = object[o].name
                 /\ ~(k = 1 /\ 1 \in DOMAIN in /\ Tells(in[1], o))
              \/ k = 1 /\ 1 \in DOMAIN in /\ IsDeclareOk(in[1], o) /\ in[1].name = object'[o].name
    PROVE  ToldOf(o, in', Had(broker', o), object'[o].declared, object'[o].name)
<1> DEFINE had == Had(broker, o)
           had2 == Had(broker', o)
           declared == object[o].declared
           declared2 == object'[o].declared
           name == object[o].name
           name2 == object'[o].name
<1>1. declared2 \in BOOLEAN
  BY DEF Inv, ObjectsTyped, Object
<1>2. ToldOf(o, in, had, declared, name)
  BY DEF FullInv, Told
<1>3. \A f \in add : IsDeclareOk(f, o) => f.name \in had2
  OBVIOUS
<1>4. \A n \in had : \/ n \in had2
                     \/ \E f \in add : f.object = o /\ f.type = "DeleteOk"
                     \/ /\ declared => n # name
                        /\ \A i \in DOMAIN in : IsDeclareOk(in[i], o) => in[i].name # n
  OBVIOUS
<1>5. declared2 =>
         \/ declared /\ name2 = name /\ ~(k = 1 /\ 1 \in DOMAIN in /\ Tells(in[1], o))
         \/ k = 1 /\ 1 \in DOMAIN in /\ IsDeclareOk(in[1], o) /\ in[1].name = name2
  OBVIOUS
<1> HIDE DEF had, had2, declared, declared2, name, name2
<1>6. ToldOf(o, in', had2, declared2, name2)
  BY <1>1, <1>2, <1>3, <1>4, <1>5, ToldStep
<1>7. QED
  BY <1>6 DEF had2, declared2, name2

\* A step that removes nothing, and after which what is said is the same.
LEMMA ToldKept ==
    ASSUME FullInv, NamesInv', NEW k, NEW add, Moves(in, in', k, add),
           happened \subseteq happened', link' = "up" => link = "up",
           \A o \in Objects :
              /\ \A f \in add : IsDeclareOk(f, o) => f.name \in Had(broker', o)
              /\ Had(broker, o) \subseteq Had(broker', o)
              /\ Live(o)' => /\ Live(o) /\ object'[o].name = object[o].name
                             /\ object'[o].declared = object[o].declared
              /\ ~(k = 1 /\ 1 \in DOMAIN in /\ Tells(in[1], o))
    PROVE  FullInv'
<1>1. Inv'
  BY DEF NamesInv, WireInv, StaleInv
<1>2. ASSUME link' = "up", Quiet', NEW o \in Objects, Live(o)'
      PROVE  ToldOf(o, in', Had(broker', o), object'[o].declared, object'[o].name)
  <2>1. Live(o) /\ link = "up" /\ Quiet
    BY <1>2 DEF Quiet
  <2>2. object'[o].declared => object[o].declared /\ object'[o].name = object[o].name
    BY <1>2
  <2>3. QED
    BY <1>1, <2>1, <2>2, ToldOne
<1>3. Told'
  BY <1>2 DEF Told
<1>4. QED
  BY <1>3 DEF FullInv

LEMMA SentHad ==
    ASSUME NEW o \in Objects, NEW frame, NEW k, NEW add, Sent(o, frame, k, add),
           frame.type # "Delete"
    PROVE  \A p \in Objects :
              /\ \A f \in add : IsDeclareOk(f, p) => f.name \in Had(broker', p)
              /\ Had(broker, p) \subseteq Had(broker', p)
  BY DEF Sent, Had, IsDeclareOk

\* Nothing is read, sent or removed.
LEMMA ToldStays ==
    ASSUME FullInv, NamesInv', UNCHANGED <<in, link>>, happened \subseteq happened',
           \A o \in Objects :
              /\ Had(broker, o) \subseteq Had(broker', o)
              /\ Live(o)' => /\ Live(o) /\ object'[o].name = object[o].name
                             /\ object'[o].declared = object[o].declared
    PROVE  FullInv'
<1>1. Moves(in, in, 0, {})
  BY MovesNone DEF FullInv, NamesInv, WireInv, StaleInv, Inv, WireTyped
<1>2. Moves(in, in', 0, {})
  BY <1>1
<1>3. QED
  BY <1>2, ToldKept

LEMMA CreatedTold ==
    ASSUME FullInv, NamesInv', NEW o \in Objects, object[o].life = "new", NEW name,
           NEW hooked \in BOOLEAN, Created(o, name, hooked), UNCHANGED <<link, happened>>
    PROVE  FullInv'
<1>1. /\ \E add : /\ Moves(in, in', 0, add)
                  /\ \A f \in add : f.object = o /\ f.type = "OpenOk"
      /\ \A i \in DOMAIN in' : ~IsDeclareOk(in'[i], o)
      /\ ~object'[o].declared
      /\ \A p \in Objects : p # o => object'[p] = object[p]
      /\ broker'.queues = broker.queues /\ broker'.exchanges = broker.exchanges
  BY CreatedSays DEF FullInv, NamesInv
<1>2. PICK add : Moves(in, in', 0, add) /\ \A f \in add : f.object = o /\ f.type = "OpenOk"
  BY <1>1
<1>3. ASSUME link' = "up", Quiet', NEW p \in Objects, Live(p)'
      PROVE  ToldOf(p, in', Had(broker', p), object'[p].declared, object'[p].name)
  <2>1. CASE p = o
    BY <1>1, <2>1 DEF ToldOf
  <2>2. CASE p # o
    <3>1. Live(p) /\ link = "up" /\ Quiet /\ Inv' /\ object'[p] = object[p]
      BY <1>1, <1>3, <2>2 DEF Quiet, Live, NamesInv, WireInv, StaleInv
    <3>2. \A f \in add : ~IsDeclareOk(f, p)
      BY <1>2 DEF IsDeclareOk
    <3>3. Had(broker, p) = Had(broker', p)
      BY <1>1 DEF Had
    <3>4. QED
      BY <1>2, <3>1, <3>2, <3>3, ToldOne
  <2>3. QED
    BY <2>1, <2>2
<1>4. QED
  BY <1>3 DEF Told, FullInv

LEMMA SetNameTold == ASSUME FullInv, NamesInv', NEW o \in Objects, SetName(o) PROVE FullInv'
<1>1. Inv /\ object \in [Objects -> Object] /\ in \in Seq(NamedFrames) /\ Inv'
  BY DEF FullInv, NamesInv, WireInv, StaleInv, Inv, ObjectsTyped, WireTyped
<1>2. UNCHANGED <<link, in, broker>> /\ happened \subseteq happened' /\ Live(o)
  BY DEF SetName, Happens
<1>3. PICK name \in UserNames : object' = [object EXCEPT ![o].name = name]
  BY DEF SetName
<1>4. \A p \in Objects : /\ object'[p].life = object[p].life
                         /\ object'[p].declared = object[p].declared
                         /\ p # o => object'[p].name = object[p].name
  BY <1>1, <1>3 DEF Object
<1>5. "renamed" \notin happened' => o \notin Registered(exchanges) \cup Registered(queues)
  BY DEF SetName, Happens
<1>6. Moves(in, in', 0, {})
  BY <1>1, <1>2, MovesNone
<1>7. ASSUME link' = "up", Quiet', NEW p \in Objects, Live(p)'
      PROVE  ToldOf(p, in', Had(broker', p), object'[p].declared, object'[p].name)
  <2>1. Live(p) /\ link = "up" /\ Quiet
    BY <1>2, <1>4, <1>7 DEF Quiet, Live
  <2>2. ASSUME object[p].declared
        PROVE  p # o
    <3>1. o \notin Registered(exchanges) /\ o \notin Registered(queues)
      BY <1>5, <1>7 DEF Quiet
    <3>2. o \in Queues
      BY <1>2, <3>1 DEF FullInv, NamesInv, ExchangesReached, Objects
    <3>3. Reached /\ "displaced" \notin happened
      BY <2>1 DEF FullInv, NamesInv, WireInv, StaleInv, Quiet
    <3>4. ~object[o].declared
      BY <1>2, <3>1, <3>2, <3>3 DEF Reached
    <3>5. QED
      BY <2>2, <3>4
  <2>3. object'[p].declared => /\ object[p].declared /\ object'[p].name = object[p].name
                               /\ ~(0 = 1 /\ 1 \in DOMAIN in /\ Tells(in[1], p))
    BY <1>4, <2>2
  <2>4. Had(broker', p) = Had(broker, p)
    BY <1>2
  <2>5. QED
    BY <1>1, <1>6, <2>1, <2>3, <2>4, ToldOne
<1>8. QED
  BY <1>7 DEF Told, FullInv

LEMMA DeclareTold == ASSUME FullInv, NamesInv', NEW o \in Objects, Declare(o) PROVE FullInv'
<1>1. Objects = Exchanges \cup Queues /\ object \in [Objects -> Object] /\ Inv
  BY DEF FullInv, NamesInv, WireInv, StaleInv, Inv, Objects, ObjectsTyped
<1>2. UNCHANGED link /\ happened \subseteq happened'
  BY DEF Declare, Happens
<1>3. \A p \in Objects : /\ object'[p].name = object[p].name
                         /\ object'[p].life = object[p].life
                         /\ object'[p].declared = object[p].declared
  BY <1>1 DEF Declare, Object
<1>4. CASE object[o].opened /\ DeclareClears(o)
  <2> DEFINE frame == [type |-> "Declare", name |-> object[o].name]
  <2>1. ~(o \in Exchanges /\ object[o].name = NoName)
    BY <1>4, RegistryAssumption DEF DeclareClears
  <2>2. Send(o, frame) /\ CanDeclare(o)
    BY <1>4, <2>1 DEF Declare, DeclareNow
  <2>3. frame \in OutFrames /\ Sendable(broker, o, frame)
    BY <1>1, <1>4, <2>2, DeclareSendable
  <2>4. frame.type = "Declare"
    OBVIOUS
  <2> HIDE DEF frame
  <2>5. PICK add : Sent(o, frame, 0, add)
    BY <1>1, <2>2, <2>3, SendSays
  <2>6. Moves(in, in', 0, add)
    BY <2>5 DEF Sent
  <2>7. \A p \in Objects :
           /\ \A f \in add : IsDeclareOk(f, p) => f.name \in Had(broker', p)
           /\ Had(broker, p) \subseteq Had(broker', p)
    BY <2>4, <2>5, SentHad
  <2>8. QED
    BY <1>2, <1>3, <2>6, <2>7, ToldKept DEF Live
<1>5. CASE ~(object[o].opened /\ DeclareClears(o))
  <2>1. UNCHANGED <<in, broker>>
    BY <1>5 DEF Declare, DeclareNow, DeclareClears, Objects
  <2>2. QED
    BY <1>2, <1>3, <2>1, ToldStays DEF Live
<1>6. QED
  BY <1>4, <1>5

\* What two exchanges are called differs, and what is on its way to them.
LEMMA ExchangeNames ==
    ASSUME NamesInv, "renamed" \notin happened, NEW x \in Exchanges, Live(x),
           NEW y \in Exchanges, Live(y), x # y
    PROVE  /\ object[x].name # object[y].name
           /\ \A i \in DOMAIN in : IsDeclareOk(in[i], x) => in[i].name # object[y].name
<1>1. /\ exchanges \in [UserNames \cup {NoName} -> Exchanges \cup {None}]
      /\ Exchanges \cap {None} = {}
  BY RegistryAssumption DEF NamesInv, WireInv, StaleInv, Inv, HashesTyped
<1>2. PICK m \in UserNames \cup {NoName} : exchanges[m] = x
  BY <1>1 DEF NamesInv, ExchangesReached, Registered
<1>3. PICK n \in UserNames \cup {NoName} : exchanges[n] = y
  BY <1>1 DEF NamesInv, ExchangesReached, Registered
<1>4. NamedSo(x, m, object[x], in) /\ NamedSo(y, n, object[y], in) /\ m # n
  BY <1>1, <1>2, <1>3 DEF NamesInv, ExchangesNamed
<1>5. QED
  BY <1>4 DEF NamedSo

LEMMA RemoveObjectTold ==
    ASSUME FullInv, NamesInv', NEW o \in Objects, RemoveObject(o)
    PROVE  FullInv'
<1> PICK noWait \in BOOLEAN :
       /\ Send(o, [type |-> "Delete", name |-> object[o].name, noWait |-> noWait])
       /\ Happens(RemoveEvents(o, noWait))
  BY DEF RemoveObject
<1> DEFINE frame == [type |-> "Delete", name |-> object[o].name, noWait |-> noWait]
<1>1. Inv /\ Inv' /\ in \in Seq(NamedFrames)
  BY DEF FullInv, NamesInv, WireInv, StaleInv, Inv, WireTyped
<1>2. frame \in OutFrames /\ Sendable(broker, o, frame) /\ frame.type = "Delete"
      /\ frame.name = object[o].name /\ frame.noWait = noWait
  BY <1>1, NameTyped DEF OutFrames, Sendable
<1>3. Send(o, frame) /\ UNCHANGED <<link, object>> /\ Live(o)
      /\ happened' = happened \cup RemoveEvents(o, noWait)
  BY DEF RemoveObject, Happens
<1> HIDE DEF frame
<1>4. PICK add : Sent(o, frame, 0, add)
  BY <1>1, <1>2, <1>3, SendSays
<1>5. /\ Moves(in, in', 0, add)
      /\ \A f \in add : f.object = o /\ f.type # "DeclareOk"
      /\ \A n : n \in broker.queues /\ n \notin broker'.queues =>
            /\ o \in Queues /\ n = object[o].name /\ link = "up"
            /\ noWait \/ [type |-> "DeleteOk", object |-> o] \in add
      /\ \A n : n \in broker.exchanges /\ n \notin broker'.exchanges =>
            o \in Exchanges /\ n = object[o].name /\ [type |-> "DeleteOk", object |-> o] \in add
  BY <1>2, <1>4 DEF Sent
<1>6. ASSUME link' = "up", Quiet', NEW p \in Objects, Live(p)'
      PROVE  ToldOf(p, in', Had(broker', p), object'[p].declared, object'[p].name)
  <2>1. Live(p) /\ link = "up" /\ Quiet
    BY <1>3, <1>6 DEF Quiet, Live
  <2>2. ASSUME NEW n \in Had(broker, p), n \notin Had(broker', p)
        PROVE  \/ \E f \in add : f.object = p /\ f.type = "DeleteOk"
               \/ /\ object[p].declared => n # object[p].name
                  /\ \A i \in DOMAIN in : IsDeclareOk(in[i], p) => in[i].name # n
    <3>1. /\ n = object[o].name /\ [type |-> "DeleteOk", object |-> o] \in add
          /\ p \in Queues => o \in Queues
          /\ p \notin Queues => o \in Exchanges
      BY <1>3, <1>5, <1>6, <2>2 DEF Had, Quiet, RemoveEvents
    <3>2. CASE p = o
      BY <3>1, <3>2
    <3>3. CASE p # o /\ p \in Queues
      <4>1. ~DeclaredAs(p, n)
        BY <1>3, <1>6, <2>1, <3>1, <3>3 DEF RemoveEvents, Quiet
      <4>2. object[p].declared => n # object[p].name
        BY <2>1, <4>1 DEF DeclaredAs
      <4>3. ASSUME NEW i \in DOMAIN in, IsDeclareOk(in[i], p), in[i].name = n
            PROVE  FALSE
        <5>1. in[i] \in NamedFrames /\ i \in 1..Len(in)
          BY <1>1
        <5>2. in[i] = [type |-> "DeclareOk", object |-> p, name |-> n]
          BY <4>3, <5>1 DEF NamedFrames, IsDeclareOk
        <5>3. QED
          BY <4>1, <5>1, <5>2 DEF DeclaredAs, Contains
      <4>4. QED
        BY <4>2, <4>3
    <3>4. CASE p # o /\ p \notin Queues
      <4>1. p \in Exchanges /\ o \in Exchanges
        BY <3>1, <3>4 DEF Objects
      <4>2. QED
        BY <1>3, <2>1, <3>1, <3>4, <4>1, ExchangeNames DEF FullInv, Quiet
    <3>5. QED
      BY <3>2, <3>3, <3>4
  <2>3. \A f \in add : ~IsDeclareOk(f, p)
    BY <1>5 DEF IsDeclareOk
  <2>4. object'[p].declared => /\ object[p].declared /\ object'[p].name = object[p].name
                               /\ ~(0 = 1 /\ 1 \in DOMAIN in /\ Tells(in[1], p))
    BY <1>3
  <2>5. QED
    BY <1>1, <1>5, <2>1, <2>2, <2>3, <2>4, ToldOne
<1>7. QED
  BY <1>6 DEF Told, FullInv

LEMMA AskTold == ASSUME FullInv, NamesInv', NEW q \in Queues, Ask(q) PROVE FullInv'
<1>1. PICK type \in {"PurgeOk", "BindOk", "UnbindOk"} :
        Send(q, [type |-> type, name |-> object[q].name])
  BY DEF Ask
<1> DEFINE frame == [type |-> type, name |-> object[q].name]
<1>2. Inv /\ q \in Objects
  BY DEF FullInv, NamesInv, WireInv, StaleInv, Objects
<1>3. frame \in OutFrames /\ Sendable(broker, q, frame) /\ frame.type # "Delete"
  BY <1>2, NameTyped DEF OutFrames, Sendable
<1>4. Send(q, frame)
  BY <1>1
<1> HIDE DEF frame
<1>5. PICK add : Sent(q, frame, 0, add)
  BY <1>2, <1>3, <1>4, SendSays
<1>6. Moves(in, in', 0, add)
  BY <1>5 DEF Sent
<1>7. \A p \in Objects :
         /\ \A f \in add : IsDeclareOk(f, p) => f.name \in Had(broker', p)
         /\ Had(broker, p) \subseteq Had(broker', p)
  BY <1>2, <1>3, <1>5, SentHad
<1>8. QED
  BY <1>6, <1>7, ToldKept DEF Ask, Live

LEMMA BrokerClosesTold == ASSUME FullInv, NamesInv', BrokerCloses PROVE FullInv'
<1>1. PICK o \in Objects : /\ broker' = ClosesChannel(broker, o).broker
                           /\ in' = in \o ClosesChannel(broker, o).answer
  BY DEF BrokerCloses
<1> DEFINE f == [type |-> "Close", object |-> o]
<1>2. in \in Seq(NamedFrames) /\ broker \in Broker
  BY DEF FullInv, NamesInv, WireInv, StaleInv, Inv, WireTyped
<1>3. f \in NamedFrames /\ f.type = "Close"
  BY DEF NamedFrames
<1>4. /\ in' = in \o <<f>> /\ broker'.queues = broker.queues
      /\ broker'.exchanges = broker.exchanges
  BY <1>1, <1>2 DEF ClosesChannel, Answered, Broker
<1> HIDE DEF f
<1>5. Moves(in, in', 0, {f})
  <2>1. Moves(in, in, 0, {})
    BY <1>2, MovesNone
  <2>2. QED
    BY <1>2, <1>3, <1>4, <2>1, MovesAdds
<1>6. \A p \in Objects : ~IsDeclareOk(f, p) /\ Had(broker, p) = Had(broker', p)
  BY <1>3, <1>4 DEF IsDeclareOk, Had
<1>7. QED
  BY <1>5, <1>6, ToldKept DEF BrokerCloses, Live

LEMMA ReceiveOpenOkTold == ASSUME FullInv, NamesInv', ReceiveOpenOk PROVE FullInv'
<1> DEFINE o == Source
           declares == Live(o) /\ object[o].delayedDeclare /\ DeclareClears(o)
           y == object[o].delayedDeclare /\ ~declares
           frame == [type |-> "Declare", name |-> object[o].name]
<1>1. Inv
  BY DEF FullInv, NamesInv, WireInv, StaleInv
<1>2. in # <<>> /\ o \in Objects /\ link = "up"
  BY <1>1, ReceiveTyped DEF ReceiveOpenOk, Receive
<1>3. \A p \in Objects : ~Tells(in[1], p)
  BY <1>1, <1>2 DEF ReceiveOpenOk, Receive, Tells, Inv, WireTyped
<1>4. object' = IF Live(o) THEN [object EXCEPT ![o].opened = TRUE, ![o].delayedDeclare = y]
                ELSE object
  BY DEF ReceiveOpenOk
<1>5. IF declares THEN CanDeclare(o) /\ SendAfter(o, frame)
      ELSE in' = Tail(in) /\ UNCHANGED broker
  BY DEF ReceiveOpenOk
<1>6. object \in [Objects -> Object]
  BY <1>1 DEF Inv, ObjectsTyped
<1>7. ASSUME declares, CanDeclare(o)
      PROVE  frame \in OutFrames /\ Sendable(broker, o, frame)
  BY <1>1, <1>2, <1>7, DeclareSendable
<1>8. frame.type = "Declare"
  OBVIOUS
<1> HIDE DEF o, y, frame, declares
<1>9. \A p \in Objects : /\ object'[p].name = object[p].name
                         /\ object'[p].life = object[p].life
                         /\ object'[p].declared = object[p].declared
  BY <1>4, <1>6 DEF Object
<1>10. UNCHANGED <<link, happened>> /\ \A p \in Objects : Live(p)' => Live(p)
  BY <1>9 DEF ReceiveOpenOk, Live
<1>11. CASE declares
  <2>1. PICK add : Sent(o, frame, 1, add)
    BY <1>1, <1>2, <1>5, <1>7, <1>11, SendAfterSays
  <2>2. \A p \in Objects :
           /\ \A f \in add : IsDeclareOk(f, p) => f.name \in Had(broker', p)
           /\ Had(broker, p) \subseteq Had(broker', p)
    BY <1>2, <1>8, <2>1, SentHad
  <2>3. Moves(in, in', 1, add)
    BY <2>1 DEF Sent
  <2>4. QED
    BY <1>3, <1>9, <1>10, <2>2, <2>3, ToldKept
<1>12. CASE ~declares
  <2>1. Moves(in, in', 1, {}) /\ broker' = broker
    BY <1>1, <1>2, <1>5, <1>12, ReadDeclaring
  <2>2. \A p \in Objects : Had(broker', p) = Had(broker, p)
    BY <2>1
  <2>3. QED
    BY <1>3, <1>9, <1>10, <2>1, <2>2, ToldKept
<1>13. QED
  BY <1>11, <1>12

\* A frame is read that tells of one object, or of none.
LEMMA ReadTold ==
    ASSUME FullInv, NamesInv', in # <<>>, in' = Tail(in), UNCHANGED link,
           happened \subseteq happened', NEW o,
           \A p \in Objects :
              /\ Had(broker, p) = Had(broker', p)
              /\ object'[p].life = object[p].life
              /\ p # o \/ ~Tells(in[1], o) => /\ object'[p].name = object[p].name
                                              /\ object'[p].declared = object[p].declared
              /\ p # o => ~Tells(in[1], p),
           Quiet' /\ Live(o) /\ Tells(in[1], o) /\ object'[o].declared =>
              IsDeclareOk(in[1], o) /\ in[1].name = object'[o].name
    PROVE  FullInv'
<1>1. Inv /\ Inv' /\ 1 \in DOMAIN in
  BY DEF FullInv, NamesInv, WireInv, StaleInv, Inv, WireTyped
<1>2. Moves(in, in', 1, {})
  BY <1>1, ReadDeclaring
<1>3. ASSUME link' = "up", Quiet', NEW p \in Objects, Live(p)'
      PROVE  ToldOf(p, in', Had(broker', p), object'[p].declared, object'[p].name)
  <2>1. Live(p) /\ link = "up" /\ Quiet
    BY <1>3 DEF Quiet, Live
  <2>2. object'[p].declared =>
           \/ /\ object[p].declared /\ object'[p].name = object[p].name
              /\ ~(1 = 1 /\ 1 \in DOMAIN in /\ Tells(in[1], p))
           \/ 1 = 1 /\ 1 \in DOMAIN in /\ IsDeclareOk(in[1], p) /\ in[1].name = object'[p].name
    BY <1>1, <1>3, <2>1
  <2>3. QED
    BY <1>1, <1>2, <2>1, <2>2, ToldOne
<1>4. QED
  BY <1>3 DEF Told, FullInv

LEMMA ReceiveDeclareOkTold == ASSUME FullInv, NamesInv', ReceiveDeclareOk PROVE FullInv'
<1> DEFINE o == Source
           name == Head(in).name
<1>1. Inv /\ Objects = Exchanges \cup Queues
  BY DEF FullInv, NamesInv, WireInv, StaleInv, Objects
<1>2. UNCHANGED <<link, broker>> /\ in' = Tail(in) /\ happened \subseteq happened'
  BY DEF ReceiveDeclareOk, Happens
<1>3. /\ in # <<>> /\ o \in Objects
      /\ 1 \in DOMAIN in /\ IsDeclareOk(in[1], o) /\ in[1].name = name
      /\ \A p \in Objects : /\ object'[p].life = object[p].life
                            /\ p # o => object'[p] = object[p]
      /\ Live(o) => object'[o].name = IF o \in Queues THEN name ELSE object[o].name
  BY <1>1, ReceiveDeclareOkSays
<1> HIDE DEF o, name
<1>4. ASSUME Quiet', Live(o)
      PROVE  in[1].name = object'[o].name
  <2>1. CASE o \in Queues
    BY <1>3, <1>4, <2>1
  <2>2. CASE o \notin Queues
    <3>1. o \in Exchanges /\ "renamed" \notin happened
      BY <1>1, <1>2, <1>3, <1>4, <2>2 DEF Quiet
    <3>2. /\ exchanges \in [UserNames \cup {NoName} -> Exchanges \cup {None}]
          /\ o # None
      BY <3>1, RegistryAssumption DEF Inv, FullInv, NamesInv, WireInv, StaleInv, HashesTyped
    <3>3. PICK m \in UserNames \cup {NoName} : exchanges[m] = o
      BY <1>4, <3>1, <3>2 DEF FullInv, NamesInv, ExchangesReached, Registered
    <3>4. NamedSo(o, m, object[o], in)
      BY <3>1, <3>2, <3>3 DEF FullInv, NamesInv, ExchangesNamed
    <3>5. in[1].name = m /\ object[o].name = m
      BY <1>3, <3>4 DEF NamedSo
    <3>6. QED
      BY <1>3, <1>4, <2>2, <3>5
  <2>3. QED
    BY <2>1, <2>2
<1>5. Tells(in[1], o) /\ \A p \in Objects : p # o => ~Tells(in[1], p)
  BY <1>3 DEF Tells, IsDeclareOk
<1>6. QED
  BY <1>2, <1>3, <1>4, <1>5, ReadTold

LEMMA ReceiveDeleteOkTold == ASSUME FullInv, NamesInv', ReceiveDeleteOk PROVE FullInv'
<1> DEFINE o == Source
<1>1. Inv /\ object \in [Objects -> Object]
  BY DEF FullInv, NamesInv, WireInv, StaleInv, Inv, ObjectsTyped
<1>2. UNCHANGED <<link, broker, happened>> /\ in' = Tail(in) /\ in # <<>> /\ o \in Objects
  BY <1>1, ReceiveTyped DEF ReceiveDeleteOk
<1>3. in[1].object = o /\ in[1].type = "DeleteOk"
  BY <1>1, <1>2 DEF ReceiveDeleteOk, Receive, Source, Inv, WireTyped
<1>4. object' = IF Live(o) THEN [object EXCEPT ![o].declared = FALSE] ELSE object
  BY DEF ReceiveDeleteOk
<1> HIDE DEF o
<1>5. /\ \A p \in Objects : /\ object'[p].life = object[p].life
                            /\ p # o => object'[p] = object[p]
      /\ Live(o) => ~object'[o].declared
  BY <1>1, <1>2, <1>4 DEF Object
<1>6. Tells(in[1], o) /\ \A p \in Objects : p # o => ~Tells(in[1], p)
  BY <1>3 DEF Tells
<1>7. QED
  BY <1>2, <1>5, <1>6, ReadTold

LEMMA ReceiveRestTold ==
    ASSUME FullInv, NamesInv', ReceiveServed \/ ReceiveClose
    PROVE  FullInv'
<1> DEFINE o == Source
<1>1. Inv /\ object \in [Objects -> Object] /\ broker \in Broker
  BY DEF FullInv, NamesInv, WireInv, StaleInv, Inv, ObjectsTyped, WireTyped
<1>2. UNCHANGED <<link, happened>> /\ in' = Tail(in) /\ in # <<>>
  BY DEF ReceiveServed, ReceiveClose, Receive
<1>3. \A p : ~Tells(in[1], p)
  BY <1>1, <1>2 DEF ReceiveServed, ReceiveClose, Receive, Tells, Inv, WireTyped
<1>4. \A p \in Objects : Had(broker, p) = Had(broker', p)
  BY <1>1 DEF ReceiveServed, ReceiveClose, Had, Broker
<1>5. \A p \in Objects : /\ object'[p].life = object[p].life
                         /\ object'[p].name = object[p].name
                         /\ object'[p].declared = object[p].declared
  BY <1>1 DEF ReceiveServed, ReceiveClose, Object
<1>6. QED
  BY <1>2, <1>3, <1>4, <1>5, ReadTold

LEMMA LinkUpTold == ASSUME FullInv, NamesInv', LinkUp PROVE FullInv'
<1> DEFINE opening == {o \in Objects : Live(o) /\ ~object[o].opened}
<1>1. in' = SetToSeq([type : {"OpenOk"}, object : opening]) /\ opening \in SUBSET Objects
  BY DEF LinkUp
<1> HIDE DEF opening
<1>2. \A i \in DOMAIN in' : in'[i].type = "OpenOk"
  BY <1>1, OpenOksAre
<1>3. UNCHANGED <<object, happened>> /\ link = "down"
  BY DEF LinkUp
<1>4. ASSUME Quiet', NEW o \in Objects, Live(o)'
      PROVE  ToldOf(o, in', Had(broker', o), object'[o].declared, object'[o].name)
  <2>1. ~object[o].declared
    BY <1>3, <1>4 DEF FullInv, NamesInv, WireInv, StaleInv, NoneStale, Quiet, Live
  <2>2. QED
    BY <1>2, <1>3, <2>1 DEF ToldOf, IsDeclareOk
<1>5. QED
  BY <1>4 DEF Told, FullInv

LEMMA UserTold == ASSUME FullInv, NamesInv', User PROVE FullInv'
<1>1. ASSUME CreateQueue
      PROVE  FullInv'
  <2>1. PICK q \in Queues, name \in UserNames \cup {NoName} :
          /\ object[q].life = "new" /\ Created(q, name, name = NoName)
          /\ UNCHANGED <<link, happened>>
    BY <1>1 DEF CreateQueue
  <2>2. q \in Objects /\ (name = NoName) \in BOOLEAN
    BY DEF Objects
  <2>3. QED
    BY <2>1, <2>2, CreatedTold
<1>2. ASSUME CreateExchange
      PROVE  FullInv'
  <2>1. PICK x \in Exchanges, name \in UserNames \cup {NoName} :
          /\ object[x].life = "new" /\ Created(x, name, FALSE)
          /\ UNCHANGED <<link, happened>>
    BY <1>2 DEF CreateExchange
  <2>2. x \in Objects
    BY DEF Objects
  <2>3. QED
    BY <2>1, <2>2, CreatedTold
<1>3. ASSUME NEW o \in Objects, Delete(o)
      PROVE  FullInv'
  <2>1. object \in [Objects -> Object]
    BY DEF FullInv, NamesInv, WireInv, StaleInv, Inv, ObjectsTyped
  <2>2. object'[o].life = "dead" /\ \A p \in Objects : p # o => object'[p] = object[p]
    BY <1>3, <2>1 DEF Delete, Object
  <2>3. UNCHANGED <<in, link, broker, happened>>
    BY <1>3 DEF Delete
  <2>4. QED
    BY <2>2, <2>3, ToldStays DEF Live
<1>4. QED
  BY <1>1, <1>2, <1>3, SetNameTold, DeclareTold, RemoveObjectTold, AskTold DEF User

LEMMA NextFull == FullInv /\ [Next]_vars => FullInv'
<1> SUFFICES ASSUME FullInv, [Next]_vars PROVE FullInv'
  OBVIOUS
<1>1. NamesInv'
  BY NextNames DEF FullInv
<1>2. CASE User
  BY <1>1, <1>2, UserTold
<1>3. CASE Reading
  BY <1>1, <1>3, ReceiveOpenOkTold, ReceiveDeclareOkTold, ReceiveDeleteOkTold, ReceiveRestTold
     DEF Reading
<1>4. CASE OthersDelete
  <2>1. "others" \in happened'
    BY <1>4 DEF OthersDelete, Happens
  <2>2. QED
    BY <1>1, <2>1 DEF FullInv, Told, Quiet
<1>5. CASE SocketClosed \/ LinkCloses
  <2>1. link' # "up"
    BY <1>5 DEF SocketClosed, LinkCloses
  <2>2. QED
    BY <1>1, <2>1 DEF FullInv, Told
<1>6. CASE UNCHANGED vars
  BY <1>1, <1>6, ToldStays DEF vars, Live
<1>7. QED
  BY <1>1, <1>2, <1>3, <1>4, <1>5, <1>6, BrokerClosesTold, LinkUpTold DEF Next

LEMMA InitFull == Init => FullInv
  BY InitNames DEF Init, FullInv, Told

-----------------------------------------------------------------------------
(* The theorems.                                                           *)

\* Every call and handler leaves well-formed objects and registries.
THEOREM TypeCorrect == Spec => []TypeOK
  BY Invariance, InvIsEnough, PTL

\* The registry holds no pointer to a destroyed object: whatever an object was
\* called when it was registered, renamed to, or declared as, and however often
\* it was registered, channelDestroyed finds all its entries.
THEOREM RegisteredAreAliveHolds == Spec => []RegisteredAreAlive
  BY Invariance, InvIsEnough, PTL

\* Without a connection no object says that it is declared or open: what is
\* declared is in the registry, unless a queue of its name displaced it, and
\* the reset reaches what is there.
THEOREM NoneStaleHolds == Spec => []NoneStale
<1>1. StaleInv => NoneStale
  BY DEF StaleInv
<1>2. QED
  BY <1>1, InitStale, NextStale, PTL DEF Spec

LEMMA FullInvariance == Spec => []FullInv
  BY InitFull, NextFull, PTL DEF Spec

\* The registry answers for every name with the object that has the name now,
\* if one has registered or been declared under it: setting a name, the answers
\* to a declaration and the removals keep the keys and the names together.
THEOREM LookupByNameHolds == Spec => []LookupByName
<1>1. FullInv => LookupByName
  BY NamesAreEnough DEF FullInv
<1>2. QED
  BY <1>1, FullInvariance, PTL

\* Only remove(), which does not ask whether the channel is open, can be sent
\* on one that is not: every other call is made on an open channel, and what
\* is open for the client is open at the broker or its close is on its way.
THEOREM OnlyRemoveIsRefusedHolds == Spec => []OnlyRemoveIsRefused
<1>1. FullInv => OnlyRemoveIsRefused
  BY DEF FullInv, NamesInv, WireInv
<1>2. QED
  BY <1>1, FullInvariance, PTL

\* What an object says of itself is what the broker has: an object is declared
\* only while the broker keeps something under its name, unless somebody else
\* deleted it there.
THEOREM DeclaredExistsHolds == Spec => []DeclaredExists
<1>1. FullInv => DeclaredExists
  BY ToldIsEnough
<1>2. QED
  BY <1>1, FullInvariance, PTL

=============================================================================
