------------------------------- MODULE Frames -------------------------------
(***************************************************************************)
(* Frames on the wire: a message as QAmqpExchange::publish sends it, a     *)
(* method, a header with the properties, a body, and heartbeats between;   *)
(* and _q_readyRead, which cuts what arrives into frames again.  A sender  *)
(* and a receiver that both are this library; TCP keeps the bytes in order *)
(* and hands them over in parts of any size.                               *)
(***************************************************************************)
EXTENDS Fields

CONSTANTS
    FrameMax,   \* QAmqpClientPrivate::frameMax of the receiver
    Channel,    \* the number of the channel
    Keys,       \* the keys of the headers
    Given,      \* the properties that a user gives: names and values
    Arguments,  \* the arguments of the method, as bytes
    Bodies,     \* the bodies of the messages
    Parts,      \* how many bytes arrive at once, at most
    MaxFields   \* bound on the headers and properties given

ASSUME FramesAssumption ==
    /\ FrameMax \in Nat
    /\ Channel \in 1..(Byte ^ ShortSize - 1)
    /\ Parts \subseteq Nat \ {0}
    /\ MaxFields \in Nat

VARIABLES
    content,    \* the properties of the message that is made
    sent,       \* the frames that were sent
    wire,       \* the bytes that were sent and have not arrived
    available,  \* the bytes that have arrived and were not read
    read        \* the frames that were read

vars == <<content, sent, wire, available, read>>

-----------------------------------------------------------------------------
(* The content header.                                                     *)

\* The properties by their flags, from the highest bit down, each with the
\* type of its field: size() and readPayload have them in this order.
Order ==
    <<[name |-> "ContentType",     type |-> "ShortString"],
      [name |-> "ContentEncoding", type |-> "ShortString"],
      [name |-> "Headers",         type |-> "Hash"],
      [name |-> "DeliveryMode",    type |-> "ShortShortUint"],
      [name |-> "Priority",        type |-> "ShortShortUint"],
      [name |-> "CorrelationId",   type |-> "ShortString"],
      [name |-> "ReplyTo",         type |-> "ShortString"],
      [name |-> "Expiration",      type |-> "ShortString"],
      [name |-> "MessageId",       type |-> "ShortString"],
      [name |-> "Timestamp",       type |-> "Timestamp"],
      [name |-> "Type",            type |-> "ShortString"],
      [name |-> "UserId",          type |-> "ShortString"],
      [name |-> "AppId",           type |-> "ShortString"],
      [name |-> "ClusterID",       type |-> "ShortString"]>>

\* The flags are not scaled: a property has one of sixteen bits.
FlagsSize == 4

Flag(i) == 2 ^ (16 - i)

Flags(names) ==
    LET Upto[i \in 0..Len(Order)] ==
            IF i = 0 THEN 0
            ELSE Upto[i - 1] + (IF Order[i].name \in names THEN Flag(i) ELSE 0)
    IN  Upto[Len(Order)]

HasFlag(flags, i) == (flags \div Flag(i)) % 2 = 1

BasicClass == 60
PublishId == 40

WriteProperties(properties) ==
    FlattenSeq([i \in DOMAIN Order |->
        IF Order[i].name \in DOMAIN properties
        THEN WriteAmqpField(Order[i].type, properties[Order[i].name]) ELSE <<>>])

\* What size() makes of the header, which is what writePayload writes.
WriteContent(frame) ==
    Bytes(BasicClass, ShortSize) \o Bytes(0, ShortSize) \o Bytes(frame.bodySize, LongLongSize)
        \o Bytes(Flags(DOMAIN frame.properties), FlagsSize)
        \o WriteProperties(frame.properties)

\* The properties that the flags tell of, each after the one before it.
ReadProperties(flags, bytes) ==
    LET Upto[i \in 0..Len(Order)] ==
            LET before == Upto[i - 1]
                field == ReadAmqpField(Order[i].type, before.rest)
            IN  IF i = 0 THEN Result(<<>>, bytes)
                ELSE IF HasFlag(flags, i)
                THEN Result((Order[i].name :> field.value) @@ before.value, field.rest)
                ELSE before
    IN  Upto[Len(Order)].value

ReadContent(bytes) ==
    LET size == ReadUnsigned(Drop(bytes, 2 * ShortSize), LongLongSize)
        flags == ReadUnsigned(size.rest, FlagsSize)
    IN  [type |-> "Header", bodySize |-> size.value,
         properties |-> ReadProperties(flags.value, flags.rest)]

-----------------------------------------------------------------------------
(* Frames.                                                                 *)

FrameTypes == [Method |-> 1, Header |-> 2, Body |-> 3, Heartbeat |-> 8]

FrameEnd == (206 * Byte) \div 256
HeaderSize == 1 + ShortSize + LongSize
FrameEndSize == 1

\* writePayload of each class of frames.
Payload(frame) ==
    CASE frame.type = "Method"    -> Bytes(BasicClass, ShortSize) \o Bytes(frame.id, ShortSize)
                                         \o frame.arguments
      [] frame.type = "Header"    -> WriteContent(frame)
      [] frame.type = "Body"      -> frame.body
      [] frame.type = "Heartbeat" -> <<>>

\* size() of each class of frames: it speaks of the frame as it would be
\* written, also where the frame was read.
Size(frame) == Len(Payload(frame))

WriteFrame(frame) ==
    <<FrameTypes[frame.type]>>
        \o Bytes(IF frame.type = "Heartbeat" THEN 0 ELSE Channel, ShortSize)
        \o Bytes(Size(frame), LongSize) \o Payload(frame) \o <<FrameEnd>>

ReadMethod(payload) ==
    [type |-> "Method", id |-> ReadSigned(Drop(payload, ShortSize), ShortSize).value,
     arguments |-> Drop(payload, 2 * ShortSize)]

\* The frame that these bytes are, without the end.
ReadFrame(bytes) ==
    LET payload == Drop(bytes, HeaderSize)
    IN  CASE bytes[1] = FrameTypes.Method    -> ReadMethod(payload)
          [] bytes[1] = FrameTypes.Header    -> ReadContent(payload)
          [] bytes[1] = FrameTypes.Body      -> [type |-> "Body", body |-> payload]
          [] bytes[1] = FrameTypes.Heartbeat -> [type |-> "Heartbeat"]
          [] OTHER                           -> [type |-> "Unknown"]

ChannelOf(bytes) == Unsigned[SubSeq(bytes, 2, 1 + ShortSize)]

\* Mutant: a frame of just the size agreed is refused.
RefusedAtLimit(bytes) ==
    LET frame == ReadFrame(Front(bytes))
    IN  \/ bytes[Len(bytes)] # FrameEnd
        \/ frame.type = "Unknown"
        \/ frame.type \in {"Method", "Header", "Body"} /\ Size(frame) >= FrameMax
        \/ frame.type \in {"Header", "Body"} /\ ChannelOf(bytes) = 0
        \/ frame.type = "Heartbeat" /\ ChannelOf(bytes) # 0

\* What _q_readyRead closes the connection for.
Refused(bytes) ==
    LET frame == ReadFrame(Front(bytes))
    IN  \/ bytes[Len(bytes)] # FrameEnd
        \/ frame.type = "Unknown"
        \/ frame.type \in {"Method", "Header", "Body"} /\ Size(frame) > FrameMax
        \/ frame.type \in {"Header", "Body"} /\ ChannelOf(bytes) = 0
        \/ frame.type = "Heartbeat" /\ ChannelOf(bytes) # 0

\* Mutant: the end of the frame is not counted.
ReadSizeWithoutEnd(bytes) ==
    HeaderSize + Unsigned[SubSeq(bytes, 2 + ShortSize, HeaderSize)]

\* The bytes up to the end of the frame that begins here.
ReadSize(bytes) ==
    HeaderSize + Unsigned[SubSeq(bytes, 2 + ShortSize, HeaderSize)] + FrameEndSize

Whole(bytes) == Len(bytes) >= HeaderSize /\ Len(bytes) >= ReadSize(bytes)

\* The loop of _q_readyRead: it goes on while there is a whole frame, and
\* returns after one that it refuses.
ReadyRead[bytes \in Seq(0..Byte - 1)] ==
    LET frame == SubSeq(bytes, 1, ReadSize(bytes))
        rest == Drop(bytes, ReadSize(bytes))
        after == ReadyRead[rest]
    IN  IF ~Whole(bytes) THEN Result(<<>>, bytes)
        ELSE IF Refused(frame) THEN Result(<<[type |-> "Refused"]>>, rest)
        ELSE Result(<<ReadFrame(Front(frame))>> \o after.value, after.rest)

-----------------------------------------------------------------------------
(* A message is made and sent.                                             *)

Utf8 == <<1, 2>>
TextPlain == <<3>>

Init ==
    /\ content = [properties |-> <<>>, headers |-> <<>>]
    /\ sent = <<>>
    /\ wire = <<>>
    /\ available = <<>>
    /\ read = <<>>

Making ==
    /\ sent = <<>>
    /\ Cardinality(DOMAIN content.properties) + Len(content.headers) < MaxFields

\* A header is put into the table that publish is called with.
GiveHeader ==
    /\ Making
    /\ \E key \in Keys, value \in Values :
          /\ \A i \in DOMAIN content.headers : content.headers[i].key # key
          /\ content' = [content EXCEPT !.headers = Append(@, Entry(key, value))]
    /\ UNCHANGED <<sent, wire, available, read>>

GiveProperty ==
    /\ Making
    /\ \E property \in Given :
          /\ property.name \notin DOMAIN content.properties
          /\ content' = [content EXCEPT !.properties = (property.name :> property.value) @@ @]
    /\ UNCHANGED <<sent, wire, available, read>>

SendFrames(frames) ==
    /\ sent' = sent \o frames
    /\ wire' = wire \o FlattenSeq([i \in DOMAIN frames |-> WriteFrame(frames[i])])

\* What the user gives goes before what publish sets.
Publish ==
    /\ sent = <<>>
    /\ \E arguments \in Arguments, body \in Bodies :
          SendFrames(<<[type |-> "Method", id |-> PublishId, arguments |-> arguments],
                       [type |-> "Header", bodySize |-> Len(body),
                        properties |-> content.properties
                            @@ [ContentType |-> TextPlain, ContentEncoding |-> Utf8,
                                Headers |-> content.headers]]>>
                     \o IF body = <<>> THEN <<>> ELSE <<[type |-> "Body", body |-> body]>>)
    /\ UNCHANGED <<content, available, read>>

Heartbeat ==
    /\ sent # <<>>
    /\ Last(sent).type # "Heartbeat"
    /\ SendFrames(<<[type |-> "Heartbeat"]>>)
    /\ UNCHANGED <<content, available, read>>

\* Bytes arrive, and readyRead() is emitted.
Arrive ==
    /\ wire # <<>>
    /\ \E part \in Parts :
          LET n == Min({part, Len(wire)})
              result == ReadyRead[available \o SubSeq(wire, 1, n)]
          IN  /\ wire' = Drop(wire, n)
              /\ available' = result.rest
              /\ read' = read \o result.value
    /\ UNCHANGED <<content, sent>>

Next == GiveHeader \/ GiveProperty \/ Publish \/ Heartbeat \/ Arrive

Spec == Init /\ [][Next]_vars

-----------------------------------------------------------------------------
(* Properties.                                                             *)

\* Whether a frame was read as the frame that was sent, but for the values of
\* its properties.
Alike(frame, original) ==
    /\ frame.type = original.type
    /\ frame.type \in {"Method", "Body"} => frame = original
    /\ frame.type = "Header" =>
          /\ frame.bodySize = original.bodySize
          /\ DOMAIN frame.properties = DOMAIN original.properties

\* However the bytes arrive, the frames are read one by one as they were sent,
\* and once all have arrived all are read, unless one is refused.
FramesInStep ==
    (\A i \in DOMAIN read : read[i].type # "Refused") =>
        /\ \A i \in DOMAIN read : i \in DOMAIN sent /\ Alike(read[i], sent[i])
        /\ wire = <<>> => Len(read) = Len(sent) /\ available = <<>>

\* Whether every short string of the message can be told its length, and every
\* value of its headers is one that is read as far as it is written.
Readable(properties) ==
    /\ \A i \in DOMAIN Order :
          Order[i].name \in DOMAIN properties /\ Order[i].type = "ShortString"
             => IsShort(properties[Order[i].name])
    /\ \A i \in DOMAIN properties.Headers : EntryReadable(properties.Headers[i])

\* A frame within the size agreed is not refused, although what is held
\* against that size is not what arrived but what the receiver would write of
\* it: as long as the header is readable and its numbers fit.
WithinIsAccepted ==
    \A i \in DOMAIN read :
        read[i].type = "Refused" =>
            \/ Size(sent[i]) > FrameMax
            \/ /\ sent[i].type = "Header"
               /\ \/ ~Readable(sent[i].properties)
                  \/ \E j \in DOMAIN sent[i].properties.Headers :
                        ~Fits[sent[i].properties.Headers[j].value]

EntryReturns(entry, original) ==
    /\ AllAscii(original.key) => entry.key = original.key
    /\ Fits[original.value] => entry.value = Same[original.value]

\* No two keys are the same once they are cut to as many bytes as characters.
KeysApart(entries) ==
    \A i, j \in DOMAIN entries :
        WriteShortString(entries[i].key) = WriteShortString(entries[j].key) => i = j

PropertyReturns(name, x, original) ==
    IF name = "Headers"
    THEN KeysApart(original) =>
            /\ Len(x) = Len(original)
            /\ \A i \in DOMAIN original : EntryReturns(x[i], original[i])
    ELSE (name \in {"DeliveryMode", "Priority", "Timestamp"} \/ AllAscii(original))
            => x = original

\* The receiver has the properties and headers that the sender gave, as far
\* as the wire has room for them, as the tests tableFieldDataTypes and
\* messageProperties expect of what they chose (tst_qamqpqueue.cpp:546, 628).
RoundTrip ==
    \A i \in DOMAIN read :
        read[i].type = "Header" /\ Readable(sent[i].properties) =>
            \A name \in DOMAIN sent[i].properties :
                PropertyReturns(name, read[i].properties[name], sent[i].properties[name])

=============================================================================
