--------------------------- MODULE ConfirmsProofs ---------------------------
(***************************************************************************)
(* Theorems about Confirms for every value of the constants: the types of  *)
(* the variables, the order of the tags that wait for a confirm, and that  *)
(* what an ack removes is what the broker has acked.                       *)
(***************************************************************************)
EXTENDS Confirms, SequenceFacts

-----------------------------------------------------------------------------
(* The inductive invariant.                                                *)

Published(frame) == frame.type = "Publish"

\* The messages on their way come after those the broker has counted and are
\* in the order they were published.
InOrder(frames, count, last) ==
    /\ count <= last
    /\ \A i \in DOMAIN frames : Published(frames[i]) =>
          count < frames[i].message /\ frames[i].message <= last
    /\ \A i, j \in DOMAIN frames :
          i < j /\ Published(frames[i]) /\ Published(frames[j]) =>
             frames[i].message < frames[j].message

\* The number of messages published before the first that was given a tag.
Base == published + 1 - nextDeliveryTag

\* Once confirms are enabled every message is given the next tag.
TagsGiven ==
    nextDeliveryTag > 0 =>
        /\ Base >= 0
        /\ \A t \in 1..(nextDeliveryTag - 1) : messageOf[t] = Base + t

\* What the broker counts, it counts on an open channel that confirms.
Counts(b) ==
    /\ b.channel # "open" => ~b.confirming
    /\ ~b.confirming => b.count = 0 /\ b.outstanding = {}
    /\ \A o \in b.outstanding : o.tag \in 1..b.count

\* The part of the invariant that holds whatever happens.
Numbered ==
    /\ TypeOK
    /\ InOrder(out, broker.count, published)
    /\ TagsGiven
    /\ Counts(broker)
    /\ TagsInOrder

\* The channel is open, or is going to be.
Alive(frames, b) ==
    b.channel = "open" \/ \E i \in DOMAIN frames : frames[i].type = "Open"

\* The confirm.select comes after the last channel.open and before the first
\* message that was given a tag.
SelectInPlace(frames, b, base) ==
    /\ \A i, j \in DOMAIN frames : i < j /\ frames[i].type = "Select" =>
          /\ frames[j].type # "Open"
          /\ Published(frames[j]) => frames[j].message > base
    /\ b.confirming => \A i \in DOMAIN frames :
          /\ frames[i].type # "Open"
          /\ Published(frames[i]) => frames[i].message > base + b.count

\* Every message that was given a tag, and that the broker has not counted,
\* is on its way, behind the confirm.select if that is on its way too.
NoneMissing(frames, b, base, last) ==
    /\ \A m \in (base + b.count + 1)..last :
          \E i \in DOMAIN frames : Published(frames[i]) /\ frames[i].message = m
    /\ ~b.confirming =>
          /\ \E i \in DOMAIN frames : frames[i].type = "Select"
          /\ \A j \in DOMAIN frames : Published(frames[j]) /\ frames[j].message > base =>
                \E i \in DOMAIN frames : i < j /\ frames[i].type = "Select"

\* What is on its way and the broker agree with the tags of the exchange.
SelectFollows(frames, b, base, last, up) ==
    /\ SelectInPlace(frames, b, base)
    /\ up /\ Alive(frames, b) => NoneMissing(frames, b, base, last)

NotEnabled ==
    nextDeliveryTag = 0 =>
        ~broker.confirming /\ \A i \in DOMAIN out : out[i].type # "Select"

\* The messages the broker counted are those that were given the same tags,
\* each of them accepted or still to be answered.
Agreed(b, of, next, done) ==
    /\ \A o \in b.outstanding : o.message = of[o.tag]
    /\ \A t \in 1..b.count :
          of[t] \in done \/ [tag |-> t, message |-> of[t]] \in b.outstanding
    /\ b.count > 0 => b.count < next

\* An ack that was sent is about messages that were accepted.
Truthful(frame, of, next, done) ==
    frame.type \in {"Ack", "Nack"} =>
        /\ frame.type = "Ack"
        /\ frame.tag \in 1..(next - 1)
        /\ of[frame.tag] \in done
        /\ frame.multiple => \A t \in 1..frame.tag : of[t] \in done

\* The part of the invariant that holds while nothing has happened.
InStep ==
    /\ NotEnabled
    /\ link = "down" => nextDeliveryTag = 0
    /\ nextDeliveryTag > 0 => SelectFollows(out, broker, Base, published, link = "up")
    /\ Agreed(broker, messageOf, nextDeliveryTag, accepted)
    /\ \A i \in DOMAIN in : Truthful(in[i], messageOf, nextDeliveryTag, accepted)
    /\ delivered \subseteq accepted

IInv == Numbered /\ (happened = {} => InStep)

-----------------------------------------------------------------------------
(* Lemmas on the frames on their way to the broker.                        *)

LEMMA FrameTyped ==
    /\ \A type \in {"Open", "Close", "CloseOk", "Select"} : [type |-> type] \in OutFrames
    /\ \A m \in Messages : [type |-> "Publish", message |-> m] \in OutFrames
    /\ \A f \in OutFrames : Published(f) => f.message \in Messages
  BY DEF OutFrames, Published

LEMMA ClosedTyped ==
    ASSUME NEW state \in {"closed", "open", "closing"}, ConfirmsAssumption
    PROVE  /\ ClosedChannel(state) \in Broker
           /\ Counts(ClosedChannel(state))
           /\ ClosedChannel(state).channel = state
           /\ ClosedChannel(state).confirming = FALSE
           /\ ClosedChannel(state).count = 0
           /\ ClosedChannel(state).outstanding = {}
  BY DEF ClosedChannel, Broker, Counts, ConfirmsAssumption

\* No frame, or the channel.open alone, that a new connection starts with.
LEMMA InOrderNone ==
    ASSUME NEW last \in Nat
    PROVE  /\ InOrder(<<>>, 0, last)
           /\ InOrder(<<[type |-> "Open"]>>, 0, last)
  BY DEF InOrder, Published

LEMMA InOrderOther ==
    ASSUME NEW frames \in Seq(OutFrames), NEW count \in Nat, NEW last \in Nat,
           NEW frame \in OutFrames, ~Published(frame), InOrder(frames, count, last)
    PROVE  InOrder(Append(frames, frame), count, last)
<1> DEFINE more == Append(frames, frame)
<1>1. /\ DOMAIN more = 1..(Len(frames) + 1) /\ DOMAIN frames = 1..Len(frames) /\ Len(frames) \in Nat
      /\ \A i \in DOMAIN frames : more[i] = frames[i]
      /\ more[Len(frames) + 1] = frame
  BY AppendEntries
<1> HIDE DEF more
<1>2. \A i \in DOMAIN more : Published(more[i]) => i \in DOMAIN frames /\ more[i] = frames[i]
  BY <1>1
<1>3. InOrder(more, count, last)
  BY <1>2 DEF InOrder
<1>4. QED
  BY <1>3 DEF more

LEMMA InOrderPublish ==
    ASSUME NEW frames \in Seq(OutFrames), NEW count \in Nat, NEW last \in Nat,
           last + 1 \in Messages, InOrder(frames, count, last)
    PROVE  /\ InOrder(frames, count, last + 1)
           /\ InOrder(Append(frames, [type |-> "Publish", message |-> last + 1]), count, last + 1)
<1> DEFINE frame == [type |-> "Publish", message |-> last + 1]
           more == Append(frames, frame)
<1>1. frame \in OutFrames /\ frame.message = last + 1
  BY FrameTyped
<1> HIDE DEF frame
<1>2. /\ DOMAIN more = 1..(Len(frames) + 1) /\ DOMAIN frames = 1..Len(frames) /\ Len(frames) \in Nat
      /\ \A i \in DOMAIN frames : more[i] = frames[i]
      /\ more[Len(frames) + 1] = frame
  BY <1>1, AppendEntries
<1> HIDE DEF more
<1>3. \A i \in DOMAIN frames : frames[i] \in OutFrames
  OBVIOUS
<1>4. \A i \in DOMAIN frames : Published(frames[i]) => frames[i].message \in Int
  BY <1>3, FrameTyped DEF Messages
<1>5. InOrder(frames, count, last + 1)
  BY <1>4 DEF InOrder
<1>6. count <= last + 1
  BY DEF InOrder
<1>7. ASSUME NEW i \in DOMAIN more, Published(more[i])
      PROVE  count < more[i].message /\ more[i].message <= last + 1
  <2>1. CASE i \in DOMAIN frames
    BY <1>2, <1>5, <1>7, <2>1 DEF InOrder
  <2>2. CASE i \notin DOMAIN frames
    BY <1>1, <1>2, <2>2 DEF InOrder
  <2>3. QED
    BY <2>1, <2>2
<1>8. ASSUME NEW i \in DOMAIN more, NEW j \in DOMAIN more, i < j,
             Published(more[i]), Published(more[j])
      PROVE  more[i].message < more[j].message
  <2>1. i \in DOMAIN frames /\ more[i] = frames[i]
    BY <1>2, <1>8
  <2>2. more[i].message <= last /\ more[i].message \in Int
    BY <1>4, <1>8, <2>1 DEF InOrder
  <2>3. CASE j \in DOMAIN frames
    BY <1>2, <1>8, <2>1, <2>3 DEF InOrder
  <2>4. CASE j \notin DOMAIN frames
    BY <1>1, <1>2, <2>2, <2>4
  <2>5. QED
    BY <2>3, <2>4
<1>9. InOrder(more, count, last + 1)
  BY <1>6, <1>7, <1>8 DEF InOrder
<1>10. QED
  BY <1>5, <1>9 DEF more, frame

LEMMA InOrderTail ==
    ASSUME NEW frames \in Seq(OutFrames), frames # <<>>, NEW count \in Nat, NEW last \in Nat,
           InOrder(frames, count, last)
    PROVE  /\ InOrder(Tail(frames), count, last)
           /\ InOrder(Tail(frames), 0, last)
           /\ Published(Head(frames)) =>
                 /\ Head(frames).message \in Messages
                 /\ count + 1 <= last
                 /\ InOrder(Tail(frames), count + 1, last)
<1> DEFINE rest == Tail(frames)
<1>1. /\ Head(frames) = frames[1] /\ 1 \in DOMAIN frames /\ frames[1] \in OutFrames
      /\ \A i \in DOMAIN rest : i \in Int /\ i >= 1 /\ i + 1 \in DOMAIN frames /\ rest[i] = frames[i + 1]
  BY TailEntries
<1> HIDE DEF rest
<1>2. \A i \in DOMAIN frames : frames[i] \in OutFrames
  OBVIOUS
<1>3. \A i \in DOMAIN frames : Published(frames[i]) => frames[i].message \in Int /\ frames[i].message \in Messages
  BY <1>2, FrameTyped DEF Messages
<1>4. \A i, j \in DOMAIN rest : i < j => i + 1 < j + 1
  BY <1>1
<1>5. InOrder(rest, count, last)
  BY <1>1, <1>4 DEF InOrder
<1>6. InOrder(rest, 0, last)
  <2>1. \A i \in DOMAIN rest : Published(rest[i]) => 0 < rest[i].message
    BY <1>1, <1>3 DEF InOrder
  <2>2. QED
    BY <1>5, <2>1 DEF InOrder
<1>7. ASSUME Published(Head(frames))
      PROVE  /\ Head(frames).message \in Messages
             /\ count + 1 <= last
             /\ InOrder(rest, count + 1, last)
  <2>1. /\ frames[1].message \in Messages /\ frames[1].message \in Int
        /\ count < frames[1].message /\ frames[1].message <= last
    BY <1>1, <1>3, <1>7 DEF InOrder
  <2>2. \A i \in DOMAIN rest : Published(rest[i]) => frames[1].message < rest[i].message
    BY <1>1, <1>7 DEF InOrder
  <2>3. \A i \in DOMAIN rest : Published(rest[i]) => rest[i].message \in Int
    BY <1>1, <1>3
  <2>4. \A i \in DOMAIN rest : Published(rest[i]) => count + 1 < rest[i].message
    BY <2>1, <2>2, <2>3
  <2>5. InOrder(rest, count + 1, last)
    BY <1>5, <2>1, <2>4 DEF InOrder
  <2>6. QED
    BY <1>1, <2>1, <2>5
<1>8. QED
  BY <1>5, <1>6, <1>7 DEF rest

-----------------------------------------------------------------------------
(* What acks leave of the tags that wait.                                  *)

LEMMA PositionIsThere ==
    ASSUME NEW tag, unconfirmed \in Seq(Tags), Contains(unconfirmed, tag)
    PROVE  Position(tag) \in DOMAIN unconfirmed /\ unconfirmed[Position(tag)] = tag
<1>1. \E i \in DOMAIN unconfirmed : unconfirmed[i] = tag
  BY DEF Contains
<1>2. QED
  BY <1>1 DEF Position

\* What is left are tags that waited, in the same order; what is not left is
\* the tag that is acked, or comes before it if the ack is of several.
LEMMA RemainingIsRest ==
    ASSUME unconfirmed \in Seq(Tags), TagsInOrder,
           NEW tag \in Tags \cup {0}, NEW multiple \in BOOLEAN
    PROVE  LET left == Remaining(tag, multiple)
           IN  /\ left \in Seq(Tags)
               /\ \A i, j \in DOMAIN left : i < j => left[i] < left[j]
               /\ \A i \in DOMAIN left : \E k \in DOMAIN unconfirmed : left[i] = unconfirmed[k]
               /\ tag # 0 => \A k \in DOMAIN unconfirmed :
                     \/ \E i \in DOMAIN left : left[i] = unconfirmed[k]
                     \/ unconfirmed[k] = tag
                     \/ multiple /\ unconfirmed[k] <= tag
<1> DEFINE left == Remaining(tag, multiple)
           p == Position(tag)
           Order(l) == \A i, j \in DOMAIN l : i < j => l[i] < l[j]
           Part(l) == \A i \in DOMAIN l : \E k \in DOMAIN unconfirmed : l[i] = unconfirmed[k]
           Gone(l) == \A k \in DOMAIN unconfirmed :
                         \/ \E i \in DOMAIN l : l[i] = unconfirmed[k]
                         \/ unconfirmed[k] = tag
                         \/ multiple /\ unconfirmed[k] <= tag
<1>1. Order(unconfirmed) /\ Part(unconfirmed) /\ Gone(unconfirmed)
  <2>1. Order(unconfirmed)
    BY DEF TagsInOrder
  <2>2. Part(unconfirmed)
    OBVIOUS
  <2>3. Gone(unconfirmed)
    OBVIOUS
  <2>4. QED
    BY <2>1, <2>2, <2>3
<1>2. \A k \in DOMAIN unconfirmed : unconfirmed[k] \in Tags /\ unconfirmed[k] \in Int /\ k \in Int
  <2>1. \A k \in DOMAIN unconfirmed : unconfirmed[k] \in Tags /\ k \in Int
    OBVIOUS
  <2>2. Tags \subseteq Int
    BY DEF Tags
  <2>3. QED
    BY <2>1, <2>2
<1>3. CASE tag = 0
  <2>1. left = <<>>
    BY <1>3 DEF Remaining
  <2> HIDE DEF left
  <2>2. DOMAIN left = {} /\ left \in Seq(Tags)
    BY <2>1
  <2>3. QED
    BY <1>3, <2>2 DEF left
<1>4. CASE tag # 0 /\ ~Contains(unconfirmed, tag)
  <2>1. left = unconfirmed
    BY <1>4 DEF Remaining
  <2> HIDE DEF left
  <2>2. QED
    BY <1>1, <2>1 DEF left
<1>5. CASE tag # 0 /\ Contains(unconfirmed, tag) /\ multiple
  <2> DEFINE rest == SubSeq(unconfirmed, p + 1, Len(unconfirmed))
  <2>1. p \in DOMAIN unconfirmed /\ unconfirmed[p] = tag
    BY <1>5, PositionIsThere
  <2>2. left = rest
    BY <1>5 DEF Remaining
  <2> HIDE DEF p
  <2>3. /\ rest \in Seq(Tags)
        /\ \A i \in DOMAIN rest : i + p \in DOMAIN unconfirmed /\ rest[i] = unconfirmed[i + p] /\ i \in Int
        /\ \A i \in DOMAIN unconfirmed : i > p => i - p \in DOMAIN rest /\ rest[i - p] = unconfirmed[i]
    BY <2>1, RestEntries
  <2> HIDE DEF rest
  <2>4. Order(rest)
    <3> SUFFICES ASSUME NEW i \in DOMAIN rest, NEW j \in DOMAIN rest, i < j
                 PROVE  rest[i] < rest[j]
      OBVIOUS
    <3>1. i + p < j + p
      BY <1>2, <2>1, <2>3
    <3>2. QED
      BY <1>1, <2>3, <3>1
  <2>5. Part(rest)
    BY <2>3
  <2>6. Gone(rest)
    <3> SUFFICES ASSUME NEW k \in DOMAIN unconfirmed
                 PROVE  (\E i \in DOMAIN rest : rest[i] = unconfirmed[k]) \/ unconfirmed[k] <= tag
      BY <1>5
    <3>1. CASE k > p
      BY <2>3, <3>1
    <3>2. CASE k = p
      BY <1>2, <2>1, <3>2
    <3>3. CASE k < p
      BY <1>1, <1>2, <2>1, <3>3
    <3>4. QED
      BY <1>2, <2>1, <3>1, <3>2, <3>3
  <2> HIDE DEF left, Order, Part, Gone
  <2>7. QED
    BY <2>2, <2>3, <2>4, <2>5, <2>6 DEF left, Order, Part, Gone
<1>6. CASE tag # 0 /\ Contains(unconfirmed, tag) /\ ~multiple
  <2> DEFINE rest == RemoveAt(unconfirmed, p)
  <2>1. p \in DOMAIN unconfirmed /\ unconfirmed[p] = tag
    BY <1>6, PositionIsThere
  <2>2. left = rest
    BY <1>6 DEF Remaining
  <2> HIDE DEF p
  <2>3. /\ rest \in Seq(Tags) /\ Len(rest) = Len(unconfirmed) - 1
        /\ \A i \in DOMAIN rest : rest[i] = IF i < p THEN unconfirmed[i] ELSE unconfirmed[i + 1]
    BY <2>1, RemoveAtEntries
  <2> HIDE DEF rest
  <2>4. DOMAIN rest = 1..(Len(unconfirmed) - 1) /\ DOMAIN unconfirmed = 1..Len(unconfirmed)
        /\ Len(unconfirmed) \in Nat
    BY <2>3
  <2>5. Order(rest)
    <3> SUFFICES ASSUME NEW i \in DOMAIN rest, NEW j \in DOMAIN rest, i < j
                 PROVE  rest[i] < rest[j]
      OBVIOUS
    <3> DEFINE f(n) == IF n < p THEN n ELSE n + 1
    <3>1. f(i) \in DOMAIN unconfirmed /\ f(j) \in DOMAIN unconfirmed /\ f(i) < f(j)
      BY <2>1, <2>4
    <3>2. rest[i] = unconfirmed[f(i)] /\ rest[j] = unconfirmed[f(j)]
      BY <2>3
    <3> HIDE DEF f
    <3>3. QED
      BY <1>1, <3>1, <3>2
  <2>6. Part(rest)
    <3> SUFFICES ASSUME NEW i \in DOMAIN rest
                 PROVE  \E k \in DOMAIN unconfirmed : rest[i] = unconfirmed[k]
      OBVIOUS
    <3>1. i \in DOMAIN unconfirmed /\ i + 1 \in DOMAIN unconfirmed
      BY <2>4
    <3>2. QED
      BY <2>3, <3>1
  <2>7. Gone(rest)
    <3> SUFFICES ASSUME NEW k \in DOMAIN unconfirmed, k # p
                 PROVE  \E i \in DOMAIN rest : rest[i] = unconfirmed[k]
      BY <2>1
    <3>1. CASE k < p
      <4>1. k \in DOMAIN rest
        BY <2>1, <2>4, <3>1
      <4>2. QED
        BY <2>3, <3>1, <4>1
    <3>2. CASE k > p
      <4>1. k - 1 \in DOMAIN rest /\ ~(k - 1 < p) /\ (k - 1) + 1 = k
        BY <2>1, <2>4, <3>2
      <4>2. rest[k - 1] = unconfirmed[k]
        BY <2>3, <4>1
      <4>3. QED
        BY <4>1, <4>2
    <3>3. QED
      BY <1>2, <2>1, <3>1, <3>2
  <2> HIDE DEF left, Order, Part, Gone
  <2>8. QED
    BY <2>2, <2>3, <2>5, <2>6, <2>7 DEF left, Order, Part, Gone
<1>7. QED
  BY <1>3, <1>4, <1>5, <1>6

-----------------------------------------------------------------------------
(* The steps keep the part of the invariant that holds whatever happens.   *)

LEMMA SendKeeps ==
    ASSUME TypeOK, InOrder(out, broker.count, published),
           NEW frame \in OutFrames, ~Published(frame), Send(frame)
    PROVE  out' \in Seq(OutFrames) /\ InOrder(out', broker.count, published)
<1>1. out \in Seq(OutFrames) /\ broker.count \in Nat /\ published \in Nat
  BY DEF TypeOK, Broker
<1>2. Append(out, frame) \in Seq(OutFrames)
  BY <1>1, AppendEntries
<1>3. InOrder(Append(out, frame), broker.count, published)
  BY <1>1, InOrderOther
<1>4. QED
  BY <1>1, <1>2, <1>3 DEF Send

LEMMA TagsSame ==
    ASSUME TagsGiven, TagsInOrder,
           UNCHANGED <<nextDeliveryTag, published, messageOf, unconfirmed>>
    PROVE  TagsGiven' /\ TagsInOrder'
  BY DEF TagsGiven, Base, TagsInOrder

LEMMA TagsForgotten ==
    ASSUME TagsGiven, unconfirmed' = <<>>,
           UNCHANGED <<nextDeliveryTag, published, messageOf>>
    PROVE  TagsGiven' /\ TagsInOrder'
  BY DEF TagsGiven, Base, TagsInOrder

LEMMA SocketClosedNumbered ==
    ASSUME Numbered, losses < MaxLosses, SocketClosed, ConfirmsAssumption
    PROVE  Numbered'
<1> USE DEF Numbered
<1>1. broker' = ClosedChannel("closed") /\ published' = published /\ out' = <<>>
  BY DEF SocketClosed
<1>2. Counts(broker') /\ broker' \in Broker /\ broker'.count = 0
  BY <1>1, ClosedTyped
<1>3. losses' \in 0..MaxLosses
  BY DEF SocketClosed, TypeOK, ConfirmsAssumption
<1>4. nextDeliveryTag' \in 0..(MaxMessages + 1)
  BY DEF SocketClosed, ConfirmsAssumption
<1>5. TypeOK'
  <2>1. messageOf' \in [Tags -> Messages \cup {NoMessage}]
    BY DEF SocketClosed
  <2>2. unconfirmed' \in Seq(Tags) /\ out' \in Seq(OutFrames) /\ in' \in Seq(InFrames)
    BY DEF SocketClosed, Disconnected
  <2>3. QED
    BY <1>2, <1>3, <1>4, <2>1, <2>2 DEF SocketClosed, Disconnected, TypeOK
<1>6. InOrder(out, broker.count, published)'
  BY <1>1, <1>2, InOrderNone DEF TypeOK
<1>7. TagsGiven' /\ TagsInOrder'
  BY DEF SocketClosed, Disconnected, TagsGiven, TagsInOrder
<1>8. QED
  BY <1>2, <1>5, <1>6, <1>7

LEMMA PublishNumbered ==
    ASSUME Numbered, Publish, ConfirmsAssumption
    PROVE  Numbered'
<1> USE DEF Numbered
<1> DEFINE last == published
           frame == [type |-> "Publish", message |-> last + 1]
<1>1. /\ last \in Nat /\ published' = last + 1 /\ last + 1 \in Messages
      /\ nextDeliveryTag \in Nat /\ last + 1 \in 0..MaxMessages
      /\ broker' = broker /\ broker.count \in Nat /\ out \in Seq(OutFrames)
  BY DEF Publish, TypeOK, Messages, Broker, ConfirmsAssumption
<1>2. out' \in {out, Append(out, frame)}
  BY DEF Publish, Send
<1>3. frame \in OutFrames
  BY <1>1, FrameTyped
<1>4. InOrder(out', broker'.count, published')
  BY <1>1, <1>2, InOrderPublish
<1>5. out' \in Seq(OutFrames)
  BY <1>1, <1>2, <1>3, AppendEntries
<1>6. CASE nextDeliveryTag > 0
  <2>1. /\ unconfirmed' = Append(unconfirmed, nextDeliveryTag)
        /\ nextDeliveryTag' = nextDeliveryTag + 1
        /\ messageOf' = [messageOf EXCEPT ![nextDeliveryTag] = last + 1]
        /\ tracked' = tracked \cup {last + 1}
    BY <1>6 DEF Publish
  <2>2. nextDeliveryTag <= last + 1 /\ nextDeliveryTag \in Tags
    BY <1>1, <1>6 DEF TagsGiven, Base, Tags, Messages
  <2>3. nextDeliveryTag' \in 0..(MaxMessages + 1)
    BY <1>1, <2>1, <2>2 DEF ConfirmsAssumption
  <2>4. unconfirmed' \in Seq(Tags)
    BY <2>1, <2>2, AppendEntries DEF TypeOK
  <2>5. messageOf' \in [Tags -> Messages \cup {NoMessage}]
    BY <1>1, <2>1 DEF TypeOK
  <2>6. tracked' \subseteq Messages
    BY <1>1, <2>1 DEF TypeOK
  <2>7. TypeOK'
    BY <1>1, <1>5, <2>3, <2>4, <2>5, <2>6 DEF Publish, TypeOK
  <2>8. TagsGiven'
    <3>1. Base' = Base
      BY <1>1, <2>1 DEF Base
    <3>2. Base \in Int /\ Base + nextDeliveryTag = last + 1 /\ Base >= 0
      BY <1>1, <1>6 DEF Base, TagsGiven
    <3>3. \A t \in 1..nextDeliveryTag : messageOf'[t] = Base + t
      <4> SUFFICES ASSUME NEW t \in 1..nextDeliveryTag
                   PROVE  messageOf'[t] = Base + t
        OBVIOUS
      <4>1. t \in Tags
        BY <1>1, <2>2 DEF Tags, ConfirmsAssumption
      <4>2. messageOf'[t] = IF t = nextDeliveryTag THEN last + 1 ELSE messageOf[t]
        BY <2>1, <4>1 DEF TypeOK
      <4>3. CASE t = nextDeliveryTag
        BY <3>2, <4>2, <4>3
      <4>4. CASE t # nextDeliveryTag
        BY <1>1, <1>6, <4>2, <4>4 DEF TagsGiven
      <4>5. QED
        BY <4>3, <4>4
    <3>4. QED
      BY <1>1, <2>1, <3>1, <3>2, <3>3 DEF TagsGiven
  <2>9. TagsInOrder'
    <3>1. /\ DOMAIN unconfirmed' = 1..(Len(unconfirmed) + 1)
          /\ \A i \in DOMAIN unconfirmed : unconfirmed'[i] = unconfirmed[i]
          /\ unconfirmed'[Len(unconfirmed) + 1] = nextDeliveryTag
          /\ DOMAIN unconfirmed = 1..Len(unconfirmed) /\ Len(unconfirmed) \in Nat
      BY <2>1, <2>2, AppendEntries DEF TypeOK
    <3>2. \A i \in DOMAIN unconfirmed : unconfirmed[i] \in Int /\ unconfirmed[i] < nextDeliveryTag
      BY DEF TypeOK, TagsInOrder, Tags
    <3>3. QED
      BY <1>1, <2>1, <3>1, <3>2 DEF TagsInOrder
  <2>10. QED
    BY <1>1, <1>4, <2>7, <2>8, <2>9
<1>7. CASE ~(nextDeliveryTag > 0)
  <2>1. UNCHANGED <<unconfirmed, nextDeliveryTag, messageOf, tracked>>
    BY <1>7 DEF Publish
  <2>2. TypeOK'
    BY <1>1, <1>5, <2>1 DEF Publish, TypeOK
  <2>3. TagsGiven' /\ TagsInOrder'
    BY <1>7, <2>1 DEF TagsGiven, TagsInOrder
  <2>4. QED
    BY <1>1, <1>4, <2>2, <2>3
<1>8. QED
  BY <1>6, <1>7

\* The steps that send nothing the broker has to count, and change nothing
\* of what it counts.
LEMMA CallsNumbered ==
    ASSUME Numbered, ConfirmsAssumption,
           EnableConfirms \/ StartWaiting \/ StopWaiting \/ CloseChannel \/ Reopen
    PROVE  Numbered'
<1> USE DEF Numbered
<1>1. ASSUME NEW frame \in {[type |-> "Select"], [type |-> "Close"], [type |-> "Open"]}
      PROVE  frame \in OutFrames /\ ~Published(frame)
  BY FrameTyped DEF Published
<1>2. ASSUME calls < MaxCalls, calls' = calls + 1
      PROVE  calls' \in 0..MaxCalls
  BY <1>2 DEF TypeOK, ConfirmsAssumption
<1>3. ASSUME NEW events, Happens(events)
      PROVE  happened' \subseteq Events
  BY <1>3 DEF TypeOK, Happens
<1>4. CASE EnableConfirms
  <2>1. out' \in Seq(OutFrames) /\ InOrder(out', broker.count, published)
    BY <1>1, <1>4, SendKeeps DEF EnableConfirms
  <2>2. /\ nextDeliveryTag' = IF nextDeliveryTag = 0 THEN 1 ELSE nextDeliveryTag
        /\ published' = published /\ messageOf' = messageOf
        /\ unconfirmed' = unconfirmed /\ broker' = broker
    BY <1>4 DEF EnableConfirms, history
  <2>3. nextDeliveryTag' \in 0..(MaxMessages + 1)
    BY <2>2 DEF TypeOK, ConfirmsAssumption
  <2>4. calls' \in 0..MaxCalls /\ happened' \subseteq Events
    BY <1>2, <1>3, <1>4 DEF EnableConfirms, Call
  <2>5. TypeOK'
    BY <1>4, <2>1, <2>3, <2>4 DEF EnableConfirms, history, TypeOK
  <2>6. TagsGiven'
    <3>1. CASE nextDeliveryTag = 0
      <4>1. nextDeliveryTag' = 1 /\ published \in Nat
        BY <2>2, <3>1 DEF TypeOK
      <4>2. Base' = published /\ 1..(nextDeliveryTag' - 1) = {}
        BY <2>2, <4>1 DEF Base
      <4>3. QED
        BY <4>1, <4>2 DEF TagsGiven
    <3>2. CASE nextDeliveryTag # 0
      <4>1. nextDeliveryTag' = nextDeliveryTag /\ Base' = Base
        BY <2>2, <3>2 DEF Base
      <4>2. QED
        BY <2>2, <4>1 DEF TagsGiven
    <3>3. QED
      BY <3>1, <3>2
  <2>7. TagsInOrder'
    BY <2>2 DEF TagsInOrder, TypeOK, Tags
  <2>8. QED
    BY <2>1, <2>2, <2>5, <2>6, <2>7
<1>5. CASE StartWaiting
  <2>1. TypeOK'
    BY <1>2, <1>5 DEF StartWaiting, Call, client, history, TypeOK
  <2>2. TagsGiven' /\ TagsInOrder'
    BY <1>5, TagsSame DEF StartWaiting, client, history
  <2>3. QED
    BY <1>5, <2>1, <2>2 DEF StartWaiting, history
<1>6. CASE StopWaiting
  <2>1. TypeOK'
    BY <1>6 DEF StopWaiting, client, history, TypeOK
  <2>2. TagsGiven' /\ TagsInOrder'
    BY <1>6, TagsSame DEF StopWaiting, client, history
  <2>3. QED
    BY <1>6, <2>1, <2>2 DEF StopWaiting, history
<1>7. CASE CloseChannel
  <2>1. out' \in Seq(OutFrames) /\ InOrder(out', broker.count, published)
    BY <1>1, <1>7, SendKeeps DEF CloseChannel
  <2>2. TypeOK'
    BY <1>2, <1>7, <2>1 DEF CloseChannel, Call, client, history, TypeOK
  <2>3. TagsGiven' /\ TagsInOrder'
    BY <1>7, TagsSame DEF CloseChannel, client, history
  <2>4. QED
    BY <1>7, <2>1, <2>2, <2>3 DEF CloseChannel, history
<1>8. CASE Reopen
  <2>1. out' \in Seq(OutFrames) /\ InOrder(out', broker.count, published)
    <3>1. PICK frame \in {[type |-> "Close"], [type |-> "Open"]} : Send(frame)
      BY <1>8 DEF Reopen
    <3>2. QED
      BY <1>1, <3>1, SendKeeps
  <2>2. calls' \in 0..MaxCalls /\ happened' \subseteq Events
    BY <1>2, <1>3, <1>8 DEF Reopen, Call
  <2>3. TypeOK'
    BY <1>8, <2>1, <2>2 DEF Reopen, client, history, TypeOK
  <2>4. TagsGiven' /\ TagsInOrder'
    BY <1>8, TagsSame DEF Reopen, client, history
  <2>5. QED
    BY <1>8, <2>1, <2>3, <2>4 DEF Reopen, history
<1>9. QED
  BY <1>4, <1>5, <1>6, <1>7, <1>8

LEMMA LinkNumbered ==
    ASSUME Numbered, ConfirmsAssumption, LinkUp \/ LinkLost \/ LinkCloses
    PROVE  Numbered'
<1> USE DEF Numbered
<1>1. ClosedChannel("closed") \in Broker /\ Counts(ClosedChannel("closed"))
      /\ ClosedChannel("closed").count = 0
  BY ClosedTyped
<1>2. CASE LinkUp
  <2>1. <<[type |-> "Open"]>> \in Seq(OutFrames)
    BY FrameTyped
  <2>2. broker' = ClosedChannel("closed") /\ out' = <<[type |-> "Open"]>> /\ published' = published
    BY <1>2 DEF LinkUp, history
  <2>3. TypeOK'
    <3>1. out' \in Seq(OutFrames) /\ in' \in Seq(InFrames) /\ broker' \in Broker
      BY <1>1, <1>2, <2>1, <2>2 DEF LinkUp
    <3>2. QED
      BY <1>2, <3>1 DEF LinkUp, client, history, TypeOK
  <2>4. InOrder(out, broker.count, published)'
    BY <1>1, <2>2, InOrderNone DEF TypeOK
  <2>5. TagsGiven' /\ TagsInOrder'
    BY <1>2, TagsSame DEF LinkUp, client, history
  <2>6. QED
    BY <1>1, <2>2, <2>3, <2>4, <2>5
<1>3. CASE LinkLost
  BY <1>3, SocketClosedNumbered DEF LinkLost
<1>4. CASE LinkCloses
  <2>1. broker' = ClosedChannel("closed") /\ out' = <<>> /\ published' = published
    BY <1>4 DEF LinkCloses, history
  <2>2. TypeOK'
    <3>1. out' \in Seq(OutFrames) /\ in' \in Seq(InFrames) /\ broker' \in Broker
      BY <1>1, <1>4, <2>1 DEF LinkCloses
    <3>2. opened' \in BOOLEAN /\ unconfirmed' \in Seq(Tags)
      <4>1. \/ opened' = FALSE /\ unconfirmed' = <<>>
            \/ opened' = opened /\ unconfirmed' = unconfirmed
        BY <1>4 DEF LinkCloses, Disconnected
      <4>2. opened \in BOOLEAN /\ unconfirmed \in Seq(Tags)
        BY DEF TypeOK
      <4>3. <<>> \in Seq(Tags)
        OBVIOUS
      <4>4. QED
        BY <4>1, <4>2, <4>3
    <3>3. QED
      BY <1>4, <3>1, <3>2 DEF LinkCloses, history, TypeOK
  <2>3. InOrder(out, broker.count, published)'
    BY <1>1, <2>1, InOrderNone DEF TypeOK
  <2>4. TagsGiven' /\ TagsInOrder'
    <3>1. UNCHANGED <<nextDeliveryTag, published, messageOf>>
      BY <1>4 DEF LinkCloses, history
    <3>2. CASE unconfirmed' = <<>>
      BY <3>1, <3>2, TagsForgotten
    <3>3. CASE unconfirmed' = unconfirmed
      BY <3>1, <3>3, TagsSame
    <3>4. QED
      BY <1>4, <3>2, <3>3 DEF LinkCloses, Disconnected
  <2>5. QED
    BY <1>1, <2>1, <2>2, <2>3, <2>4
<1>5. QED
  BY <1>2, <1>3, <1>4

LEMMA ReadingNumbered ==
    ASSUME Numbered, ConfirmsAssumption, Reading
    PROVE  Numbered'
<1> USE DEF Numbered
<1>1. ASSUME NEW type, Receive(type)
      PROVE  /\ in' \in Seq(InFrames) /\ Head(in) \in InFrames
             /\ Head(in).type = type
  BY <1>1, TailEntries DEF Receive, TypeOK
<1>2. CASE ReceiveOpenOk \/ ReceiveCloseOk \/ ReceiveSelectOk \/ ReceiveNack
  <2>1. in' \in Seq(InFrames)
    BY <1>1, <1>2 DEF ReceiveOpenOk, ReceiveCloseOk, ReceiveSelectOk, ReceiveNack
  <2>2. /\ UNCHANGED <<link, nextDeliveryTag, unconfirmed, out, broker, wait, messageOf, tracked,
                       published, accepted, delivered, losses, calls, happened>>
        /\ opened' \in {opened, TRUE, FALSE}
    BY <1>2 DEF ReceiveOpenOk, ReceiveCloseOk, ReceiveSelectOk, ReceiveNack, client, history
  <2>3. TypeOK'
    BY <2>1, <2>2 DEF TypeOK
  <2>4. TagsGiven' /\ TagsInOrder'
    BY <2>2, TagsSame
  <2>5. QED
    BY <2>2, <2>3, <2>4
<1>3. CASE ReceiveClose
  <2>1. out' \in Seq(OutFrames) /\ InOrder(out', broker.count, published)
    BY <1>3, FrameTyped, SendKeeps DEF ReceiveClose, Published
  <2>2. in' \in Seq(InFrames)
    BY <1>1, <1>3 DEF ReceiveClose
  <2>3. TypeOK'
    BY <1>3, <2>1, <2>2 DEF ReceiveClose, history, TypeOK
  <2>4. TagsGiven' /\ TagsInOrder'
    BY <1>3, TagsSame DEF ReceiveClose, history
  <2>5. QED
    BY <1>3, <2>1, <2>3, <2>4 DEF ReceiveClose, history
<1>4. CASE ReceiveAck
  <2> DEFINE tag == Head(in).tag
             left == Remaining(tag, Head(in).multiple)
             settled == {unconfirmed[i] : i \in DOMAIN unconfirmed} \ {left[i] : i \in DOMAIN left}
  <2>1. in' \in Seq(InFrames) /\ Head(in) \in InFrames /\ Head(in).type = "Ack"
    BY <1>1, <1>4 DEF ReceiveAck
  <2>2. tag \in Tags \cup {0} /\ Head(in).multiple \in BOOLEAN
    BY <2>1 DEF InFrames
  <2>3. /\ left \in Seq(Tags)
        /\ \A i, j \in DOMAIN left : i < j => left[i] < left[j]
        /\ \A i \in DOMAIN left : \E k \in DOMAIN unconfirmed : left[i] = unconfirmed[k]
    BY <2>2, RemainingIsRest DEF TypeOK
  <2>4. /\ unconfirmed' = left
        /\ delivered' = delivered \cup {messageOf[t] : t \in settled}
        /\ wait' \in {"quitting", wait}
        /\ UNCHANGED <<link, opened, nextDeliveryTag, out, broker, messageOf, tracked, published,
                       accepted, losses, calls, happened>>
    BY <1>4 DEF ReceiveAck, history
  <2>5. settled \subseteq {unconfirmed[i] : i \in DOMAIN unconfirmed}
    OBVIOUS
  <2> HIDE DEF left, settled
  <2>6. ASSUME NEW t \in settled
        PROVE  messageOf[t] \in Messages
    <3>1. PICK i \in DOMAIN unconfirmed : t = unconfirmed[i]
      BY <2>5
    <3>2. t \in Tags /\ t < nextDeliveryTag /\ nextDeliveryTag \in Nat
      BY <3>1 DEF TypeOK, TagsInOrder
    <3>3. t \in 1..(nextDeliveryTag - 1) /\ nextDeliveryTag > 0
      BY <3>2 DEF Tags
    <3>4. messageOf[t] = Base + t /\ Base >= 0
      BY <3>3 DEF TagsGiven
    <3>5. Base + t <= published /\ Base + t >= 1 /\ Base + t \in Int
      BY <3>3, <3>4 DEF Base, TypeOK
    <3>6. QED
      BY <3>4, <3>5 DEF Messages, TypeOK
  <2>7. delivered' \subseteq Messages
    BY <2>4, <2>6 DEF TypeOK
  <2>8. TypeOK'
    BY <2>1, <2>3, <2>4, <2>7 DEF TypeOK
  <2>9. TagsInOrder'
    BY <2>3, <2>4 DEF TagsInOrder
  <2>10. TagsGiven'
    BY <2>4 DEF TagsGiven, Base
  <2>11. QED
    BY <2>4, <2>8, <2>9, <2>10
<1>5. QED
  BY <1>2, <1>3, <1>4 DEF Reading

\* What a step of the broker that leaves the tags alone has to show.
LEMMA BrokerNumbered ==
    ASSUME Numbered, BrokerUnchanged,
           out' \in Seq(OutFrames), in' \in Seq(InFrames), broker' \in Broker,
           accepted' \subseteq Messages,
           InOrder(out', broker'.count, published), Counts(broker')
    PROVE  Numbered'
<1>1. TypeOK'
  BY DEF Numbered, TypeOK, BrokerUnchanged, client, history
<1>2. TagsGiven' /\ TagsInOrder'
  BY TagsSame DEF Numbered, BrokerUnchanged, client, history
<1>3. QED
  BY <1>1, <1>2 DEF Numbered, BrokerUnchanged, history

LEMMA BrokerReadsNumbered ==
    ASSUME Numbered, ConfirmsAssumption, BrokerReads
    PROVE  Numbered'
<1> USE DEF Numbered
<1>1. /\ out \in Seq(OutFrames) /\ in \in Seq(InFrames) /\ broker \in Broker
      /\ broker.count \in Nat /\ published \in Nat /\ published <= MaxMessages
  BY DEF TypeOK, Broker, ConfirmsAssumption
<1>2. ASSUME NEW type, BrokerTakes(type)
      PROVE  /\ out' \in Seq(OutFrames) /\ Head(out) \in OutFrames /\ Head(out).type = type
             /\ InOrder(out', broker.count, published) /\ InOrder(out', 0, published)
             /\ type = "Publish" => /\ Head(out).message \in Messages
                                    /\ broker.count + 1 <= published
                                    /\ InOrder(out', broker.count + 1, published)
  <2>1. out # <<>> /\ out' = Tail(out) /\ Head(out).type = type
    BY <1>2 DEF BrokerTakes
  <2>2. QED
    BY <1>1, <2>1, TailEntries, InOrderTail DEF Published
<1>3. ASSUME NEW type \in {"OpenOk", "CloseOk", "SelectOk"}
      PROVE  Append(in, [type |-> type]) \in Seq(InFrames)
  <2>1. [type |-> type] \in InFrames
    BY DEF InFrames
  <2>2. QED
    BY <1>1, <2>1, AppendEntries
<1>4. ASSUME NEW state \in {"closed", "open"}
      PROVE  /\ ClosedChannel(state) \in Broker /\ Counts(ClosedChannel(state))
             /\ ClosedChannel(state).count = 0
  BY ClosedTyped
<1>5. accepted \subseteq Messages
  BY DEF TypeOK
<1>6. CASE BrokerOpens
  <2>1. BrokerTakes("Open") /\ broker' = ClosedChannel("open") /\ BrokerUnchanged
        /\ in' = Append(in, [type |-> "OpenOk"]) /\ accepted' = accepted
    BY <1>6 DEF BrokerOpens
  <2>2. QED
    BY <1>2, <1>3, <1>4, <1>5, <2>1, BrokerNumbered
<1>7. CASE BrokerConfirms
  <2>1. BrokerTakes("Select") /\ BrokerUnchanged /\ broker.channel = "open"
        /\ broker' = [broker EXCEPT !.confirming = TRUE]
        /\ in' = Append(in, [type |-> "SelectOk"]) /\ accepted' = accepted
    BY <1>7 DEF BrokerConfirms
  <2>2. broker' \in Broker /\ broker'.count = broker.count /\ Counts(broker')
    BY <1>1, <2>1 DEF Broker, Counts
  <2>3. QED
    BY <1>2, <1>3, <1>5, <2>1, <2>2, BrokerNumbered
<1>8. CASE BrokerStores
  <2> DEFINE o == [tag |-> broker.count + 1, message |-> Head(out).message]
  <2>1. /\ BrokerTakes("Publish") /\ BrokerUnchanged /\ broker.channel = "open"
        /\ broker' = IF broker.confirming
              THEN [broker EXCEPT !.count = @ + 1, !.outstanding = @ \cup {o}]
              ELSE broker
        /\ in' = in /\ accepted' = accepted
    <3>1. BrokerTakes("Publish") /\ BrokerUnchanged /\ broker.channel = "open"
      BY <1>8 DEF BrokerStores
    <3>2. in' = in /\ accepted' = accepted
      BY <1>8 DEF BrokerStores
    <3>3. broker' = IF broker.confirming
             THEN [broker EXCEPT !.count = @ + 1, !.outstanding = @ \cup {o}]
             ELSE broker
      BY <1>8 DEF BrokerStores
    <3>4. QED
      BY <3>1, <3>2, <3>3
  <2> HIDE DEF o
  <2>2. /\ out' \in Seq(OutFrames) /\ Head(out).message \in Messages
        /\ InOrder(out', broker.count, published)
        /\ broker.count + 1 <= published
        /\ InOrder(out', broker.count + 1, published)
    BY <1>2, <2>1
  <2>3. CASE broker.confirming
    <3>1. o \in [tag : Tags, message : Messages] /\ broker.count + 1 \in 0..MaxMessages
      BY <1>1, <2>2 DEF o, Tags, ConfirmsAssumption
    <3>2. o.tag = broker.count + 1
      BY DEF o
    <3>3. /\ broker'.count = broker.count + 1 /\ broker'.outstanding = broker.outstanding \cup {o}
          /\ broker'.confirming = TRUE /\ broker'.channel = broker.channel
      BY <1>1, <2>1, <2>3 DEF Broker
    <3>4. broker' \in Broker
      BY <1>1, <2>1, <2>3, <3>1 DEF Broker
    <3>5. Counts(broker')
      BY <1>1, <2>1, <3>2, <3>3 DEF Counts
    <3>6. QED
      <4>1. InOrder(out', broker'.count, published)
        BY <2>2, <3>3
      <4>2. QED
        BY <1>1, <1>5, <2>1, <2>2, <3>4, <3>5, <4>1, BrokerNumbered
  <2>4. CASE ~broker.confirming
    <3>1. broker' = broker
      BY <2>1, <2>4
    <3>2. InOrder(out', broker'.count, published) /\ Counts(broker')
      BY <2>2, <3>1
    <3>3. QED
      BY <1>1, <1>5, <2>1, <2>2, <3>1, <3>2, BrokerNumbered
  <2>5. QED
    BY <2>3, <2>4
<1>9. CASE BrokerAnswersClose
  <2>1. BrokerTakes("Close") /\ BrokerUnchanged
        /\ broker' \in {ClosedChannel("closed"), broker}
        /\ in' = Append(in, [type |-> "CloseOk"]) /\ accepted' = accepted
    BY <1>9 DEF BrokerAnswersClose
  <2>2. QED
    BY <1>1, <1>2, <1>3, <1>4, <1>5, <2>1, BrokerNumbered
<1>10. CASE BrokerWaitsForCloseOk
  <2>1. PICK type : BrokerTakes(type) /\ broker' \in {ClosedChannel("closed"), broker}
    BY <1>10 DEF BrokerWaitsForCloseOk
  <2>2. BrokerUnchanged /\ in' = in /\ accepted' = accepted
    BY <1>10 DEF BrokerWaitsForCloseOk
  <2>3. QED
    BY <1>1, <1>2, <1>4, <1>5, <2>1, <2>2, BrokerNumbered
<1>11. CASE BrokerRefuses
  BY <1>11, SocketClosedNumbered DEF BrokerRefuses
<1>12. QED
  BY <1>6, <1>7, <1>8, <1>9, <1>10, <1>11 DEF BrokerReads

LEMMA BrokerWritesNumbered ==
    ASSUME Numbered, ConfirmsAssumption, BrokerClosesChannel \/ BrokerAcks \/ BrokerNacks
    PROVE  Numbered'
<1> USE DEF Numbered
<1>1. /\ out \in Seq(OutFrames) /\ in \in Seq(InFrames) /\ broker \in Broker
      /\ broker.count \in Nat /\ published \in Nat
  BY DEF TypeOK, Broker
<1>2. CASE BrokerClosesChannel
  <2>1. ClosedChannel("closing") \in Broker /\ Counts(ClosedChannel("closing"))
        /\ ClosedChannel("closing").count = 0
    BY ClosedTyped
  <2>2. /\ broker' = ClosedChannel("closing") /\ out' = out /\ published' = published
        /\ in' = Append(in, [type |-> "Close"])
    BY <1>2 DEF BrokerClosesChannel, history
  <2>3. in' \in Seq(InFrames)
    <3>1. [type |-> "Close"] \in InFrames
      BY DEF InFrames
    <3>2. QED
      BY <1>1, <2>2, <3>1, AppendEntries
  <2>4. InOrder(out, 0, published)
    <3>1. \A i \in DOMAIN out : out[i] \in OutFrames
      BY <1>1
    <3>2. \A i \in DOMAIN out : Published(out[i]) => 0 < out[i].message
      BY <3>1, FrameTyped DEF Messages
    <3>3. InOrder(out, broker.count, published)
      OBVIOUS
    <3>4. QED
      BY <1>1, <3>2, <3>3 DEF InOrder
  <2>5. calls' \in 0..MaxCalls
    BY <1>2 DEF BrokerClosesChannel, Call, TypeOK, ConfirmsAssumption
  <2>6. TypeOK'
    BY <1>2, <2>1, <2>2, <2>3, <2>5 DEF BrokerClosesChannel, client, history, TypeOK
  <2>7. TagsGiven' /\ TagsInOrder'
    BY <1>2, TagsSame DEF BrokerClosesChannel, client, history
  <2>8. QED
    BY <2>1, <2>2, <2>4, <2>6, <2>7
<1>3. ASSUME NEW type \in {"Ack", "Nack"}, BrokerAnswers(type)
      PROVE  Numbered'
  <2>1. PICK tag \in {0} \cup {o.tag : o \in broker.outstanding}, multiple \in BOOLEAN :
          /\ Happens((IF type = "Nack" THEN {"nack"} ELSE {})
                        \cup (IF tag = 0 THEN {"zero"} ELSE {}))
          /\ broker' = [broker EXCEPT !.outstanding = @ \ Covered(tag, multiple)]
          /\ in' = Append(in, [type |-> type, tag |-> tag, multiple |-> multiple])
          /\ accepted' = IF type = "Ack"
                THEN accepted \cup {o.message : o \in Covered(tag, multiple)}
                ELSE accepted
    BY <1>3 DEF BrokerAnswers
  <2>2. \A o \in broker.outstanding : o.tag \in Tags /\ o.message \in Messages
    BY <1>1 DEF Broker
  <2>3. Covered(tag, multiple) \subseteq broker.outstanding
    BY DEF Covered
  <2>4. in' \in Seq(InFrames)
    <3>1. [type |-> type, tag |-> tag, multiple |-> multiple] \in InFrames
      BY <2>2 DEF InFrames
    <3>2. QED
      BY <1>1, <2>1, <3>1, AppendEntries
  <2>5. accepted' \subseteq Messages
    BY <2>1, <2>2, <2>3 DEF TypeOK
  <2>6. /\ broker' \in Broker /\ broker'.count = broker.count
        /\ broker'.channel = broker.channel /\ broker'.confirming = broker.confirming
        /\ broker'.outstanding \subseteq broker.outstanding
    BY <1>1, <2>1 DEF Broker
  <2>7. Counts(broker')
    BY <2>6 DEF Counts
  <2>8. happened' \subseteq Events
    BY <2>1 DEF Happens, TypeOK
  <2>9. UNCHANGED <<link, client, out, wait, history, delivered, losses, calls>>
    BY <1>3 DEF BrokerAnswers
  <2>10. TypeOK'
    BY <2>4, <2>5, <2>6, <2>8, <2>9 DEF client, history, TypeOK
  <2>11. TagsGiven' /\ TagsInOrder'
    BY <2>9, TagsSame DEF client, history
  <2>12. QED
    BY <2>6, <2>7, <2>9, <2>10, <2>11 DEF history
<1>4. QED
  BY <1>2, <1>3 DEF BrokerAcks, BrokerNacks

LEMMA NumberedStep ==
    ASSUME Numbered, ConfirmsAssumption, [Next]_vars
    PROVE  Numbered'
<1>1. CASE User
  BY <1>1, CallsNumbered, PublishNumbered DEF User
<1>2. CASE Link
  BY <1>2, LinkNumbered DEF Link
<1>3. CASE Reading
  BY <1>3, ReadingNumbered
<1>4. CASE BrokerReads
  BY <1>4, BrokerReadsNumbered
<1>5. CASE BrokerClosesChannel \/ BrokerAcks \/ BrokerNacks
  BY <1>5, BrokerWritesNumbered
<1>6. CASE UNCHANGED vars
  BY <1>6 DEF vars, client, history, Numbered, TypeOK, TagsGiven, Base, TagsInOrder
<1>7. QED
  BY <1>1, <1>2, <1>3, <1>4, <1>5, <1>6 DEF Next

-----------------------------------------------------------------------------
(* Lemmas on the part of the invariant that holds while nothing has        *)
(* happened: what the frames on their way become.                          *)

LEMMA FollowsAppend ==
    ASSUME NEW frames \in Seq(OutFrames), NEW frame \in OutFrames,
           frame.type \in {"Close", "CloseOk", "Select"},
           NEW b, NEW base, NEW last, NEW up \in BOOLEAN,
           SelectFollows(frames, b, base, last, up)
    PROVE  SelectFollows(Append(frames, frame), b, base, last, up)
<1> DEFINE more == Append(frames, frame)
<1>1. /\ DOMAIN more = 1..(Len(frames) + 1) /\ DOMAIN frames = 1..Len(frames) /\ Len(frames) \in Nat
      /\ \A i \in DOMAIN frames : more[i] = frames[i]
      /\ more[Len(frames) + 1] = frame
  BY AppendEntries
<1> HIDE DEF more
<1>2. \A i \in DOMAIN more :
         \/ i \in DOMAIN frames /\ more[i] = frames[i]
         \/ i = Len(frames) + 1 /\ more[i] = frame
  BY <1>1
<1>3. \A i \in DOMAIN more : Published(more[i]) \/ more[i].type = "Open" =>
         i \in DOMAIN frames /\ more[i] = frames[i]
  BY <1>2 DEF Published
<1>4. \A i, j \in DOMAIN more : i < j /\ j \in DOMAIN frames => i \in DOMAIN frames
  BY <1>1
<1>5. SelectInPlace(more, b, base)
  BY <1>1, <1>3, <1>4 DEF SelectFollows, SelectInPlace
<1>6. ASSUME up, Alive(more, b)
      PROVE  NoneMissing(more, b, base, last)
  <2>1. NoneMissing(frames, b, base, last)
    BY <1>3, <1>6 DEF SelectFollows, Alive
  <2>2. \A i \in DOMAIN frames : i \in DOMAIN more
    BY <1>1
  <2>3. \A m \in (base + b.count + 1)..last :
           \E i \in DOMAIN more : Published(more[i]) /\ more[i].message = m
    BY <1>1, <2>1, <2>2 DEF NoneMissing
  <2>4. ASSUME ~b.confirming
        PROVE  /\ \E i \in DOMAIN more : more[i].type = "Select"
               /\ \A j \in DOMAIN more : Published(more[j]) /\ more[j].message > base =>
                     \E i \in DOMAIN more : i < j /\ more[i].type = "Select"
    BY <1>1, <1>3, <2>1, <2>2, <2>4 DEF NoneMissing
  <2>5. QED
    BY <2>3, <2>4 DEF NoneMissing
<1>7. QED
  BY <1>5, <1>6 DEF SelectFollows, more

LEMMA FollowsPublish ==
    ASSUME NEW frames \in Seq(OutFrames), NEW b \in Broker, NEW base \in Nat, NEW last \in Nat,
           NEW up \in BOOLEAN, last + 1 \in Messages, ConfirmsAssumption,
           base + b.count <= last,
           SelectFollows(frames, b, base, last, up)
    PROVE  SelectFollows(Append(frames, [type |-> "Publish", message |-> last + 1]),
                         b, base, last + 1, up)
<1> DEFINE frame == [type |-> "Publish", message |-> last + 1]
           more == Append(frames, frame)
<1>1. /\ frame \in OutFrames /\ frame.message = last + 1 /\ frame.type = "Publish"
      /\ b.count \in Nat
  BY FrameTyped DEF Broker
<1> HIDE DEF frame
<1>2. /\ DOMAIN more = 1..(Len(frames) + 1) /\ DOMAIN frames = 1..Len(frames) /\ Len(frames) \in Nat
      /\ \A i \in DOMAIN frames : more[i] = frames[i]
      /\ more[Len(frames) + 1] = frame
  BY <1>1, AppendEntries
<1> HIDE DEF more
<1>3. \A i \in DOMAIN more :
         \/ i \in DOMAIN frames /\ more[i] = frames[i]
         \/ i = Len(frames) + 1 /\ more[i] = frame
  BY <1>2
<1>4. \A i \in DOMAIN more : more[i].type \in {"Open", "Select"} =>
         i \in DOMAIN frames /\ more[i] = frames[i]
  BY <1>1, <1>3
<1>5. \A i \in DOMAIN frames : i \in DOMAIN more /\ i < Len(frames) + 1
  BY <1>2
<1>6. SelectInPlace(more, b, base)
  <2>1. last + 1 > base /\ last + 1 > base + b.count
    BY <1>1
  <2>2. ASSUME NEW i \in DOMAIN more, NEW j \in DOMAIN more, i < j, more[i].type = "Select"
        PROVE  more[j].type # "Open" /\ (Published(more[j]) => more[j].message > base)
    BY <1>1, <1>3, <1>4, <2>1, <2>2 DEF SelectFollows, SelectInPlace
  <2>3. ASSUME b.confirming, NEW i \in DOMAIN more
        PROVE  more[i].type # "Open" /\ (Published(more[i]) => more[i].message > base + b.count)
    BY <1>1, <1>3, <2>1, <2>3 DEF SelectFollows, SelectInPlace
  <2>4. QED
    BY <2>2, <2>3 DEF SelectInPlace
<1>7. ASSUME up, Alive(more, b)
      PROVE  NoneMissing(more, b, base, last + 1)
  <2>1. NoneMissing(frames, b, base, last)
    BY <1>4, <1>7 DEF SelectFollows, Alive
  <2>2. ASSUME NEW m \in (base + b.count + 1)..(last + 1)
        PROVE  \E i \in DOMAIN more : Published(more[i]) /\ more[i].message = m
    <3>1. CASE m = last + 1
      BY <1>1, <1>2, <3>1 DEF Published
    <3>2. CASE m # last + 1
      <4>1. m \in (base + b.count + 1)..last
        BY <1>1, <3>2
      <4>2. QED
        BY <1>2, <1>5, <2>1, <4>1 DEF NoneMissing
    <3>3. QED
      BY <3>1, <3>2
  <2>3. ASSUME ~b.confirming
        PROVE  /\ \E i \in DOMAIN more : more[i].type = "Select"
               /\ \A j \in DOMAIN more : Published(more[j]) /\ more[j].message > base =>
                     \E i \in DOMAIN more : i < j /\ more[i].type = "Select"
    BY <1>1, <1>2, <1>3, <1>5, <2>1, <2>3 DEF NoneMissing
  <2>4. QED
    BY <2>2, <2>3 DEF NoneMissing
<1>8. QED
  BY <1>6, <1>7 DEF SelectFollows, more, frame

\* confirm.select is sent, or dropped, when confirms are enabled.
LEMMA FollowsFirstSelect ==
    ASSUME NEW frames \in Seq(OutFrames), NEW b \in Broker, NEW last \in Nat,
           ~b.confirming, b.count = 0, InOrder(frames, b.count, last),
           \A i \in DOMAIN frames : frames[i].type # "Select"
    PROVE  /\ SelectFollows(frames, b, last, last, FALSE)
           /\ SelectFollows(Append(frames, [type |-> "Select"]), b, last, last, TRUE)
<1> DEFINE frame == [type |-> "Select"]
           more == Append(frames, frame)
<1>1. frame \in OutFrames /\ frame.type = "Select"
  BY FrameTyped
<1> HIDE DEF frame
<1>2. /\ DOMAIN more = 1..(Len(frames) + 1) /\ DOMAIN frames = 1..Len(frames) /\ Len(frames) \in Nat
      /\ \A i \in DOMAIN frames : more[i] = frames[i]
      /\ more[Len(frames) + 1] = frame
  BY <1>1, AppendEntries
<1> HIDE DEF more
<1>3. SelectFollows(frames, b, last, last, FALSE)
  BY DEF SelectFollows, SelectInPlace
<1>4. \A i \in DOMAIN more : more[i].type = "Select" => i = Len(frames) + 1
  BY <1>2
<1>5. SelectInPlace(more, b, last)
  BY <1>2, <1>4 DEF SelectInPlace
<1>6. \A i \in DOMAIN more : Published(more[i]) => more[i].message <= last
  <2>1. \A i \in DOMAIN more : Published(more[i]) => i \in DOMAIN frames /\ more[i] = frames[i]
    BY <1>1, <1>2 DEF Published
  <2>2. QED
    BY <2>1 DEF InOrder
<1>7. \A i \in DOMAIN more : Published(more[i]) => more[i].message \in Int
  <2>1. more \in Seq(OutFrames)
    BY <1>1, AppendEntries DEF more
  <2>2. \A i \in DOMAIN more : more[i] \in OutFrames
    BY <2>1
  <2>3. QED
    BY <2>2, FrameTyped DEF Messages
<1>8. NoneMissing(more, b, last, last)
  <2>1. (last + b.count + 1)..last = {}
    OBVIOUS
  <2>2. \E i \in DOMAIN more : more[i].type = "Select"
    BY <1>1, <1>2
  <2>3. \A j \in DOMAIN more : Published(more[j]) => ~(more[j].message > last)
    BY <1>6, <1>7
  <2>4. QED
    BY <2>1, <2>2, <2>3 DEF NoneMissing
<1>9. QED
  BY <1>3, <1>5, <1>8 DEF SelectFollows, more, frame

\* What is left in its place when nothing is confirmed, and nothing is to come.
LEMMA FollowsNothing ==
    ASSUME NEW frames, NEW b, NEW base, NEW last, NEW up \in BOOLEAN,
           ~b.confirming, ~Alive(frames, b),
           \A i, j \in DOMAIN frames : i < j /\ frames[i].type = "Select" =>
              frames[j].type # "Open" /\ (Published(frames[j]) => frames[j].message > base)
    PROVE  SelectFollows(frames, b, base, last, up)
  BY DEF SelectFollows, SelectInPlace

LEMMA FollowsTail ==
    ASSUME NEW frames \in Seq(OutFrames), frames # <<>>, NEW b \in Broker, NEW base \in Nat,
           NEW last \in Nat, Counts(b), InOrder(frames, b.count, last),
           SelectFollows(frames, b, base, last, TRUE)
    PROVE  LET head == Head(frames)
               rest == Tail(frames)
           IN  /\ \A d \in Broker :
                     /\ ~b.confirming /\ ~d.confirming /\ d.count = 0
                     /\ head.type # "Select" /\ (Alive(rest, d) => Alive(frames, b))
                     => SelectFollows(rest, d, base, last, TRUE)
               /\ \A d \in Broker :
                     ~d.confirming /\ d.channel # "open" /\ (b.confirming \/ head.type = "Select")
                     => SelectFollows(rest, d, base, last, TRUE)
               /\ \A d \in Broker :
                     /\ head.type = "Select" /\ b.channel = "open"
                     /\ d.confirming /\ d.count = b.count
                     => SelectFollows(rest, d, base, last, TRUE)
               /\ \A d \in Broker :
                     /\ Published(head) /\ b.channel = "open" /\ b.confirming
                     /\ d.confirming /\ d.count = b.count + 1
                     => /\ SelectFollows(rest, d, base, last, TRUE)
                        /\ head.message = base + b.count + 1
                        /\ head.message <= last
<1> DEFINE head == Head(frames)
           rest == Tail(frames)
<1>1. /\ head = frames[1] /\ 1 \in DOMAIN frames
      /\ \A i \in DOMAIN rest : i \in Int /\ i >= 1 /\ i + 1 \in DOMAIN frames /\ rest[i] = frames[i + 1]
      /\ \A i \in DOMAIN frames : i \in Int /\ i >= 1
      /\ \A i \in DOMAIN frames : i > 1 => i - 1 \in DOMAIN rest /\ rest[i - 1] = frames[i]
  BY TailEntries
<1> HIDE DEF rest, head
<1>2. /\ b.count \in Nat /\ (~b.confirming => b.count = 0)
      /\ \A i \in DOMAIN frames : Published(frames[i]) => frames[i].message \in Int
  <2>1. \A i \in DOMAIN frames : frames[i] \in OutFrames
    OBVIOUS
  <2>2. QED
    BY <2>1, FrameTyped DEF Broker, Counts, Messages
<1>3. SelectInPlace(frames, b, base)
  BY DEF SelectFollows
<1>4. \A i, j \in DOMAIN rest : i < j => i + 1 < j + 1
  BY <1>1
<1>5. \A i, j \in DOMAIN rest : i < j /\ rest[i].type = "Select" =>
         rest[j].type # "Open" /\ (Published(rest[j]) => rest[j].message > base)
  BY <1>1, <1>3, <1>4 DEF SelectInPlace
<1>6. ASSUME NEW i \in DOMAIN frames, i # 1
      PROVE  i - 1 \in DOMAIN rest /\ rest[i - 1] = frames[i]
  BY <1>1, <1>6
<1>7. ASSUME NEW d \in Broker, ~b.confirming, ~d.confirming, d.count = 0,
             head.type # "Select", Alive(rest, d) => Alive(frames, b)
      PROVE  SelectFollows(rest, d, base, last, TRUE)
  <2>1. SelectInPlace(rest, d, base)
    BY <1>5, <1>7 DEF SelectInPlace
  <2>2. ASSUME Alive(rest, d)
        PROVE  NoneMissing(rest, d, base, last)
    <3>1. NoneMissing(frames, b, base, last)
      BY <1>7, <2>2 DEF SelectFollows
    <3>2. ASSUME NEW j \in DOMAIN frames, Published(frames[j]), frames[j].message > base
          PROVE  \E i \in DOMAIN frames : i < j /\ i # 1 /\ frames[i].type = "Select"
      BY <1>1, <1>7, <3>1, <3>2 DEF NoneMissing
    <3>3. \A j \in DOMAIN frames : Published(frames[j]) /\ frames[j].message > base => j # 1
      BY <1>1, <3>2
    <3>4. ASSUME NEW m \in (base + d.count + 1)..last
          PROVE  \E i \in DOMAIN rest : Published(rest[i]) /\ rest[i].message = m
      <4>1. m \in (base + b.count + 1)..last /\ m > base
        BY <1>2, <1>7
      <4>2. PICK i \in DOMAIN frames : Published(frames[i]) /\ frames[i].message = m
        BY <3>1, <4>1 DEF NoneMissing
      <4>3. QED
        BY <1>6, <3>3, <4>1, <4>2
    <3>5. \E i \in DOMAIN rest : rest[i].type = "Select"
      BY <1>1, <1>6, <1>7, <3>1 DEF NoneMissing
    <3>6. ASSUME NEW j \in DOMAIN rest, Published(rest[j]), rest[j].message > base
          PROVE  \E i \in DOMAIN rest : i < j /\ rest[i].type = "Select"
      <4>1. PICK i \in DOMAIN frames : i < j + 1 /\ i # 1 /\ frames[i].type = "Select"
        BY <1>1, <3>2, <3>6
      <4>2. i - 1 \in DOMAIN rest /\ rest[i - 1] = frames[i] /\ i - 1 < j
        <5>1. i - 1 \in DOMAIN rest /\ rest[i - 1] = frames[i]
          BY <1>6, <4>1
        <5>2. i \in Int /\ j \in Int
          BY <1>1
        <5>3. QED
          BY <4>1, <5>1, <5>2
      <4>3. QED
        BY <4>1, <4>2
    <3>7. QED
      BY <3>4, <3>5, <3>6 DEF NoneMissing
  <2>3. QED
    BY <2>1, <2>2 DEF SelectFollows
<1>8. ASSUME NEW d \in Broker, ~d.confirming, d.channel # "open",
             b.confirming \/ head.type = "Select"
      PROVE  SelectFollows(rest, d, base, last, TRUE)
  <2>1. \A i \in DOMAIN rest : rest[i].type # "Open"
    BY <1>1, <1>3, <1>8 DEF SelectInPlace
  <2>2. ~Alive(rest, d)
    BY <1>8, <2>1 DEF Alive
  <2>3. QED
    BY <1>5, <1>8, <2>2, FollowsNothing
<1>9. ASSUME NEW d \in Broker, head.type = "Select", b.channel = "open",
             d.confirming, d.count = b.count
      PROVE  SelectFollows(rest, d, base, last, TRUE)
  <2>1. NoneMissing(frames, b, base, last)
    BY <1>9 DEF SelectFollows, Alive
  <2>2. ASSUME NEW i \in DOMAIN rest
        PROVE  rest[i].type # "Open" /\ (Published(rest[i]) => rest[i].message > base + b.count)
    <3>1. i + 1 \in DOMAIN frames /\ rest[i] = frames[i + 1] /\ 1 < i + 1
      BY <1>1
    <3>2. CASE b.confirming
      <4>1. \A k \in DOMAIN frames :
               frames[k].type # "Open" /\ (Published(frames[k]) => frames[k].message > base + b.count)
        BY <1>3, <3>2 DEF SelectInPlace
      <4>2. QED
        BY <3>1, <4>1
    <3>3. CASE ~b.confirming
      <4>1. frames[1].type = "Select" /\ 1 \in DOMAIN frames
        BY <1>1, <1>9
      <4>2. \A k \in DOMAIN frames : 1 < k =>
               frames[k].type # "Open" /\ (Published(frames[k]) => frames[k].message > base)
        BY <1>3, <4>1 DEF SelectInPlace
      <4>3. base + b.count = base
        BY <1>2, <3>3
      <4>4. QED
        BY <3>1, <4>2, <4>3
    <3>4. QED
      BY <3>2, <3>3
  <2>3. SelectInPlace(rest, d, base)
    BY <1>5, <1>9, <2>2 DEF SelectInPlace
  <2>4. ~Published(frames[1])
    BY <1>1, <1>9 DEF Published
  <2>5. ASSUME NEW m \in (base + d.count + 1)..last
        PROVE  \E i \in DOMAIN rest : Published(rest[i]) /\ rest[i].message = m
    <3>1. PICK i \in DOMAIN frames : Published(frames[i]) /\ frames[i].message = m
      BY <1>9, <2>1 DEF NoneMissing
    <3>2. QED
      BY <1>6, <2>4, <3>1
  <2>6. NoneMissing(rest, d, base, last)
    BY <1>9, <2>5 DEF NoneMissing
  <2>7. QED
    BY <2>3, <2>6 DEF SelectFollows
<1>10. ASSUME NEW d \in Broker, Published(head), b.channel = "open", b.confirming,
              d.confirming, d.count = b.count + 1
       PROVE  /\ SelectFollows(rest, d, base, last, TRUE)
              /\ head.message = base + b.count + 1
              /\ head.message <= last
  <2>1. NoneMissing(frames, b, base, last)
    BY <1>10 DEF SelectFollows, Alive
  <2>2. head.message \in Int /\ head.message > base + b.count /\ head.message <= last
    BY <1>1, <1>2, <1>3, <1>10 DEF SelectInPlace, InOrder
  <2>3. \A i \in DOMAIN rest : Published(rest[i]) =>
           rest[i].message \in Int /\ rest[i].message > head.message
    BY <1>1, <1>2, <1>10 DEF InOrder
  <2>4. head.message = base + b.count + 1
    <3>1. base + b.count + 1 \in (base + b.count + 1)..last
      BY <1>2, <2>2
    <3>2. PICK i \in DOMAIN frames : Published(frames[i]) /\ frames[i].message = base + b.count + 1
      BY <2>1, <3>1 DEF NoneMissing
    <3>3. CASE i = 1
      BY <1>1, <3>2, <3>3
    <3>4. CASE i # 1
      BY <1>2, <1>6, <2>2, <2>3, <3>2, <3>4
    <3>5. QED
      BY <3>3, <3>4
  <2>5. SelectInPlace(rest, d, base)
    <3>1. \A i \in DOMAIN rest : rest[i].type # "Open"
      BY <1>1, <1>3, <1>10 DEF SelectInPlace
    <3>2. base + d.count = head.message
      BY <1>2, <1>10, <2>4
    <3>3. QED
      BY <1>5, <2>3, <3>1, <3>2 DEF SelectInPlace
  <2>6. ASSUME NEW m \in (base + d.count + 1)..last
        PROVE  \E i \in DOMAIN rest : Published(rest[i]) /\ rest[i].message = m
    <3>1. m \in (base + b.count + 1)..last /\ m # head.message
      BY <1>2, <1>10, <2>4
    <3>2. PICK i \in DOMAIN frames : Published(frames[i]) /\ frames[i].message = m
      BY <2>1, <3>1 DEF NoneMissing
    <3>3. QED
      BY <1>1, <1>6, <3>1, <3>2
  <2>7. NoneMissing(rest, d, base, last)
    BY <1>10, <2>6 DEF NoneMissing
  <2>8. QED
    BY <2>2, <2>4, <2>5, <2>7 DEF SelectFollows
<1>11. QED
  BY <1>7, <1>8, <1>9, <1>10 DEF rest, head

-----------------------------------------------------------------------------
(* Lemmas on the answers of the broker.                                    *)

\* More tags given and more messages accepted leave what was true as it is.
LEMMA AnswersStay ==
    ASSUME NEW next \in Nat, NEW more \in Nat, next <= more, NEW of, NEW with,
           \A t \in 1..(next - 1) : with[t] = of[t],
           NEW done, NEW all, done \subseteq all
    PROVE  /\ \A b \in Broker : Counts(b) /\ Agreed(b, of, next, done) => Agreed(b, with, more, all)
           /\ \A f \in InFrames : Truthful(f, of, next, done) => Truthful(f, with, more, all)
<1>1. ASSUME NEW b \in Broker, Counts(b), Agreed(b, of, next, done)
      PROVE  Agreed(b, with, more, all)
  <2>1. b.count \in Nat /\ (b.count > 0 => b.count < next)
    BY <1>1 DEF Broker, Agreed
  <2>2. \A t \in 1..b.count : with[t] = of[t]
    BY <2>1
  <2>3. b.count > 0 => b.count < more
    BY <2>1
  <2>4. QED
    BY <1>1, <2>2, <2>3 DEF Counts, Agreed
<1>2. ASSUME NEW f \in InFrames, Truthful(f, of, next, done), f.type \in {"Ack", "Nack"}
      PROVE  /\ f.type = "Ack"
             /\ f.tag \in 1..(more - 1)
             /\ with[f.tag] \in all
             /\ f.multiple => \A t \in 1..f.tag : with[t] \in all
  <2>1. /\ f.type = "Ack" /\ f.tag \in 1..(next - 1) /\ of[f.tag] \in done
        /\ f.multiple => \A t \in 1..f.tag : of[t] \in done
    BY <1>2 DEF Truthful
  <2>2. \A t \in 1..f.tag : t \in 1..(next - 1)
    BY <2>1
  <2>3. f.tag \in 1..(more - 1)
    BY <2>1
  <2>4. QED
    BY <2>1, <2>2, <2>3
<1>3. QED
  BY <1>1, <1>2 DEF Truthful

LEMMA ClosedAgreed ==
    ASSUME NEW b, b.count = 0, b.outstanding = {}, NEW of, NEW next, NEW done
    PROVE  Agreed(b, of, next, done)
  BY DEF Agreed

LEMMA TruthfulAppend ==
    ASSUME NEW s \in Seq(InFrames), NEW f \in InFrames, NEW of, NEW next, NEW done,
           \A i \in DOMAIN s : Truthful(s[i], of, next, done), Truthful(f, of, next, done)
    PROVE  \A i \in DOMAIN Append(s, f) : Truthful(Append(s, f)[i], of, next, done)
<1>1. \A i \in DOMAIN Append(s, f) :
         \/ i \in DOMAIN s /\ Append(s, f)[i] = s[i]
         \/ Append(s, f)[i] = f
  BY AppendEntries
<1>2. QED
  BY <1>1

LEMMA TruthfulTail ==
    ASSUME NEW s \in Seq(InFrames), s # <<>>, NEW of, NEW next, NEW done,
           \A i \in DOMAIN s : Truthful(s[i], of, next, done)
    PROVE  /\ \A i \in DOMAIN Tail(s) : Truthful(Tail(s)[i], of, next, done)
           /\ Truthful(Head(s), of, next, done) /\ Head(s) \in InFrames
  BY TailEntries

-----------------------------------------------------------------------------
(* The steps keep the part that holds while nothing has happened.          *)

LEMMA CallsInStep ==
    ASSUME Numbered, InStep, ConfirmsAssumption, happened' = {},
           EnableConfirms \/ StartWaiting \/ StopWaiting \/ CloseChannel \/ Reopen
    PROVE  InStep'
<1> DEFINE Sent == SelectFollows(out, broker, Base, published, link = "up")
<1>1. /\ out \in Seq(OutFrames) /\ in \in Seq(InFrames) /\ broker \in Broker /\ Counts(broker)
      /\ nextDeliveryTag \in Nat /\ published \in Nat /\ InOrder(out, broker.count, published)
  BY DEF Numbered, TypeOK
<1>2. /\ nextDeliveryTag = 0 => ~broker.confirming /\ broker.count = 0 /\ broker.outstanding = {}
      /\ nextDeliveryTag = 0 => \A i \in DOMAIN out : out[i].type # "Select"
  BY <1>1 DEF InStep, NotEnabled, Counts
<1>3. CASE EnableConfirms
  <2>1. /\ nextDeliveryTag' = IF nextDeliveryTag = 0 THEN 1 ELSE nextDeliveryTag
        /\ Send([type |-> "Select"]) /\ link # "down"
        /\ UNCHANGED <<link, in, broker, published, messageOf, accepted, delivered>>
    BY <1>3 DEF EnableConfirms, Happens, history
  <2>2. nextDeliveryTag' \in Nat /\ nextDeliveryTag' > 0 /\ nextDeliveryTag <= nextDeliveryTag'
    BY <1>1, <2>1
  <2>3. [type |-> "Select"] \in OutFrames
    BY FrameTyped
  <2>4. SelectFollows(out', broker', Base', published', link' = "up")
    <3>1. CASE nextDeliveryTag = 0
      <4>1. Base' = published
        BY <1>1, <2>1, <3>1 DEF Base
      <4>2. /\ SelectFollows(out, broker, published, published, FALSE)
            /\ SelectFollows(Append(out, [type |-> "Select"]), broker, published, published, TRUE)
        BY <1>1, <1>2, <3>1, FollowsFirstSelect
      <4>3. CASE link = "up"
        <5>1. out' = Append(out, [type |-> "Select"]) /\ (link' = "up") = TRUE
          BY <2>1, <4>3 DEF Send
        <5>2. QED
          BY <2>1, <4>1, <4>2, <5>1
      <4>4. CASE link # "up"
        <5>1. out' = out /\ (link' = "up") = FALSE
          BY <2>1, <4>4 DEF Send
        <5>2. QED
          BY <2>1, <4>1, <4>2, <5>1
      <4>5. QED
        BY <4>3, <4>4
    <3>2. CASE nextDeliveryTag # 0
      <4>1. Base' = Base
        BY <2>1, <3>2 DEF Base
      <4>2. Sent
        BY <1>1, <3>2 DEF InStep
      <4>3. SelectFollows(Append(out, [type |-> "Select"]), broker, Base, published, link = "up")
        BY <1>1, <2>3, <4>2, FollowsAppend
      <4>4. QED
        BY <2>1, <4>1, <4>2, <4>3 DEF Send
    <3>3. QED
      BY <3>1, <3>2
  <2>5. Agreed(broker, messageOf, nextDeliveryTag', accepted)
    BY <1>1, <2>2, AnswersStay DEF InStep
  <2>6. \A i \in DOMAIN in : Truthful(in[i], messageOf, nextDeliveryTag', accepted)
    <3>1. \A i \in DOMAIN in : in[i] \in InFrames
      BY <1>1
    <3>2. QED
      BY <1>1, <2>2, <3>1, AnswersStay DEF InStep
  <2>7. QED
    BY <2>1, <2>2, <2>4, <2>5, <2>6 DEF InStep, NotEnabled
<1>4. CASE StartWaiting \/ StopWaiting
  BY <1>4 DEF StartWaiting, StopWaiting, client, history, InStep, NotEnabled, Base
<1>5. ASSUME NEW frame \in OutFrames, frame.type \in {"Close", "CloseOk"}, Send(frame),
             nextDeliveryTag > 0
      PROVE  SelectFollows(out', broker, Base, published, link = "up")
  <2>1. Sent
    BY <1>5 DEF InStep
  <2>2. SelectFollows(Append(out, frame), broker, Base, published, link = "up")
    BY <1>1, <1>5, <2>1, FollowsAppend
  <2>3. QED
    BY <1>5, <2>1, <2>2 DEF Send
<1>6. ASSUME NEW frame \in OutFrames, frame.type # "Select", Send(frame), nextDeliveryTag = 0
      PROVE  \A i \in DOMAIN out' : out'[i].type # "Select"
  <2>1. \A i \in DOMAIN Append(out, frame) :
           (i \in DOMAIN out /\ Append(out, frame)[i] = out[i]) \/ Append(out, frame)[i] = frame
    BY <1>1, AppendEntries
  <2>2. QED
    BY <1>2, <1>6, <2>1 DEF Send
<1>7. CASE CloseChannel
  <2>1. /\ Send([type |-> "Close"]) /\ [type |-> "Close"] \in OutFrames
        /\ UNCHANGED <<link, nextDeliveryTag, in, broker, published, messageOf, accepted, delivered>>
    BY <1>7, FrameTyped DEF CloseChannel, client, history
  <2>2. NotEnabled'
    BY <1>2, <1>6, <2>1 DEF NotEnabled
  <2>3. nextDeliveryTag > 0 => SelectFollows(out', broker, Base, published, link = "up")
    BY <1>5, <2>1
  <2>4. QED
    BY <2>1, <2>2, <2>3 DEF InStep, Base
<1>8. CASE Reopen
  <2>1. /\ \/ Send([type |-> "Close"]) /\ [type |-> "Close"] \in OutFrames
           \/ Send([type |-> "Open"]) /\ [type |-> "Open"] \in OutFrames
        /\ ~(nextDeliveryTag > 0)
        /\ UNCHANGED <<link, nextDeliveryTag, in, broker, published, messageOf, accepted, delivered>>
    BY <1>8, FrameTyped DEF Reopen, Happens, client, history
  <2>2. nextDeliveryTag = 0
    BY <1>1, <2>1
  <2>3. NotEnabled'
    BY <1>2, <1>6, <2>1, <2>2 DEF NotEnabled
  <2>4. QED
    BY <2>1, <2>2, <2>3 DEF InStep
<1>9. QED
  BY <1>3, <1>4, <1>7, <1>8

LEMMA PublishInStep ==
    ASSUME Numbered, InStep, ConfirmsAssumption, Publish
    PROVE  InStep'
<1> DEFINE last == published
           frame == [type |-> "Publish", message |-> last + 1]
<1>1. /\ out \in Seq(OutFrames) /\ in \in Seq(InFrames) /\ broker \in Broker /\ Counts(broker)
      /\ nextDeliveryTag \in Nat /\ last \in Nat
      /\ published' = last + 1 /\ last + 1 \in Messages
      /\ messageOf \in [Tags -> Messages \cup {NoMessage}]
      /\ UNCHANGED <<link, in, broker, accepted, delivered>>
  BY DEF Numbered, TypeOK, Publish, Messages
<1>2. frame \in OutFrames /\ Send(frame) /\ frame.type = "Publish"
  BY <1>1, FrameTyped DEF Publish
<1> HIDE DEF frame
<1>3. CASE nextDeliveryTag > 0
  <2>1. /\ nextDeliveryTag' = nextDeliveryTag + 1
        /\ messageOf' = [messageOf EXCEPT ![nextDeliveryTag] = last + 1]
    BY <1>3 DEF Publish
  <2>2. Base' = Base /\ Base \in Nat /\ Base + nextDeliveryTag = last + 1
    BY <1>1, <1>3, <2>1 DEF Base, Numbered, TagsGiven
  <2>3. SelectFollows(out, broker, Base, last, link = "up")
    BY <1>3 DEF InStep
  <2>4. Base + broker.count <= last
    <3>1. broker.count \in Nat /\ (broker.count > 0 => broker.count < nextDeliveryTag)
      BY <1>1 DEF InStep, Agreed, Broker
    <3>2. QED
      BY <1>1, <1>3, <2>2, <3>1
  <2>5. SelectFollows(out', broker, Base, last + 1, link = "up")
    <3>1. CASE link = "up"
      <4>1. SelectFollows(Append(out, frame), broker, Base, last + 1, link = "up")
        BY <1>1, <2>2, <2>3, <2>4, FollowsPublish DEF frame
      <4>2. QED
        BY <1>2, <3>1, <4>1 DEF Send
    <3>2. CASE link # "up"
      BY <1>2, <2>3, <3>2 DEF Send, SelectFollows
    <3>3. QED
      BY <3>1, <3>2
  <2>6. \A t \in 1..(nextDeliveryTag - 1) : messageOf'[t] = messageOf[t]
    BY <1>1, <2>1
  <2> DEFINE with == messageOf'
             more == nextDeliveryTag'
  <2> HIDE DEF with, more
  <2>7. more \in Nat /\ nextDeliveryTag <= more
    BY <1>1, <2>1 DEF more
  <2>8. \A t \in 1..(nextDeliveryTag - 1) : with[t] = messageOf[t]
    BY <2>6 DEF with
  <2>9. /\ \A b \in Broker : Counts(b) /\ Agreed(b, messageOf, nextDeliveryTag, accepted)
              => Agreed(b, with, more, accepted)
        /\ \A f \in InFrames : Truthful(f, messageOf, nextDeliveryTag, accepted)
              => Truthful(f, with, more, accepted)
    BY <1>1, <2>7, <2>8, AnswersStay
  <2>10. Agreed(broker, messageOf', nextDeliveryTag', accepted)
    BY <1>1, <2>9 DEF InStep, with, more
  <2>11. \A i \in DOMAIN in : Truthful(in[i], messageOf', nextDeliveryTag', accepted)
    <3>1. \A i \in DOMAIN in : in[i] \in InFrames
      BY <1>1
    <3>2. QED
      BY <2>9, <3>1 DEF InStep, with, more
  <2>12. nextDeliveryTag' # 0 /\ link' # "down"
    BY <1>1, <1>3, <2>1 DEF InStep
  <2>13. QED
    BY <1>1, <2>2, <2>5, <2>10, <2>11, <2>12 DEF InStep, NotEnabled
<1>4. CASE ~(nextDeliveryTag > 0)
  <2>1. UNCHANGED <<nextDeliveryTag, messageOf>> /\ nextDeliveryTag = 0
    BY <1>1, <1>4 DEF Publish
  <2>2. \A i \in DOMAIN Append(out, frame) :
           (i \in DOMAIN out /\ Append(out, frame)[i] = out[i]) \/ Append(out, frame)[i] = frame
    BY <1>1, <1>2, AppendEntries
  <2>3. \A i \in DOMAIN out' : out'[i].type # "Select"
    BY <1>2, <2>1, <2>2 DEF Send, InStep, NotEnabled
  <2>4. QED
    BY <1>1, <2>1, <2>3 DEF InStep, NotEnabled
<1>5. QED
  BY <1>3, <1>4

LEMMA SocketClosedInStep ==
    ASSUME Numbered, InStep, SocketClosed
    PROVE  InStep'
<1>1. /\ nextDeliveryTag' = 0 /\ out' = <<>> /\ in' = <<>>
      /\ broker' = ClosedChannel("closed") /\ UNCHANGED <<accepted, delivered>>
  BY DEF SocketClosed
<1>2. ~broker'.confirming /\ broker'.count = 0 /\ broker'.outstanding = {}
  BY <1>1 DEF ClosedChannel
<1>3. Agreed(broker', messageOf', nextDeliveryTag', accepted')
  BY <1>2, ClosedAgreed
<1>4. QED
  BY <1>1, <1>2, <1>3 DEF InStep, NotEnabled

LEMMA LinkInStep ==
    ASSUME Numbered, InStep, LinkUp \/ LinkLost \/ LinkCloses
    PROVE  InStep'
<1>1. nextDeliveryTag \in Nat
  BY DEF Numbered, TypeOK
<1>2. ASSUME broker' = ClosedChannel("closed")
      PROVE  /\ ~broker'.confirming /\ broker'.channel = "closed"
             /\ Agreed(broker', messageOf', nextDeliveryTag', accepted')
  BY <1>2, ClosedAgreed DEF ClosedChannel
<1>3. CASE LinkUp
  <2>1. /\ link = "down" /\ out' = <<[type |-> "Open"]>> /\ in' = <<>>
        /\ broker' = ClosedChannel("closed")
        /\ UNCHANGED <<nextDeliveryTag, accepted, delivered>>
    BY <1>3 DEF LinkUp, client
  <2>2. nextDeliveryTag' = 0
    BY <2>1 DEF InStep
  <2>3. \A i \in DOMAIN out' : out'[i].type # "Select"
    BY <2>1
  <2>4. QED
    BY <1>2, <2>1, <2>2, <2>3 DEF InStep, NotEnabled
<1>4. CASE LinkLost
  BY <1>4, SocketClosedInStep DEF LinkLost
<1>5. CASE LinkCloses
  <2>1. /\ link' = "closing" /\ out' = <<>> /\ in' = <<>>
        /\ broker' = ClosedChannel("closed")
        /\ UNCHANGED <<nextDeliveryTag, accepted, delivered>>
    BY <1>5 DEF LinkCloses
  <2>2. SelectFollows(<<>>, broker', Base', published', link' = "up")
    BY <1>2, <2>1 DEF SelectFollows, SelectInPlace
  <2>3. QED
    BY <1>2, <2>1, <2>2 DEF InStep, NotEnabled
<1>6. QED
  BY <1>3, <1>4, <1>5

LEMMA ReadingInStep ==
    ASSUME Numbered, InStep, ConfirmsAssumption, Reading
    PROVE  InStep'
<1>1. /\ out \in Seq(OutFrames) /\ in \in Seq(InFrames) /\ broker \in Broker
      /\ nextDeliveryTag \in Nat /\ unconfirmed \in Seq(Tags) /\ TagsInOrder
      /\ NotEnabled
      /\ \A i \in DOMAIN in : Truthful(in[i], messageOf, nextDeliveryTag, accepted)
  BY DEF Numbered, TypeOK, InStep
<1>2. ASSUME NEW type, Receive(type)
      PROVE  /\ \A i \in DOMAIN in' : Truthful(in'[i], messageOf, nextDeliveryTag, accepted)
             /\ Truthful(Head(in), messageOf, nextDeliveryTag, accepted)
             /\ Head(in) \in InFrames /\ Head(in).type = type
  BY <1>1, <1>2, TruthfulTail DEF Receive
<1>3. CASE ReceiveOpenOk \/ ReceiveCloseOk \/ ReceiveSelectOk \/ ReceiveNack
  <2>1. \A i \in DOMAIN in' : Truthful(in'[i], messageOf, nextDeliveryTag, accepted)
    BY <1>2, <1>3 DEF ReceiveOpenOk, ReceiveCloseOk, ReceiveSelectOk, ReceiveNack
  <2>2. UNCHANGED <<link, nextDeliveryTag, out, broker, messageOf, published, accepted, delivered>>
    BY <1>3 DEF ReceiveOpenOk, ReceiveCloseOk, ReceiveSelectOk, ReceiveNack, client, history
  <2>3. QED
    BY <2>1, <2>2 DEF InStep, NotEnabled, Base
<1>4. CASE ReceiveClose
  <2> DEFINE frame == [type |-> "CloseOk"]
  <2>1. /\ \A i \in DOMAIN in' : Truthful(in'[i], messageOf, nextDeliveryTag, accepted)
        /\ Send(frame) /\ frame \in OutFrames /\ frame.type = "CloseOk"
        /\ UNCHANGED <<link, nextDeliveryTag, broker, messageOf, published, accepted, delivered>>
    BY <1>2, <1>4, FrameTyped DEF ReceiveClose, history
  <2> HIDE DEF frame
  <2>2. \A i \in DOMAIN Append(out, frame) :
           (i \in DOMAIN out /\ Append(out, frame)[i] = out[i]) \/ Append(out, frame)[i] = frame
    BY <1>1, <2>1, AppendEntries
  <2>3. NotEnabled'
    BY <1>1, <2>1, <2>2 DEF Send, NotEnabled
  <2>4. ASSUME nextDeliveryTag > 0
        PROVE  SelectFollows(out', broker, Base, published, link = "up")
    <3>1. SelectFollows(out, broker, Base, published, link = "up")
      BY <2>4 DEF InStep
    <3>2. SelectFollows(Append(out, frame), broker, Base, published, link = "up")
      BY <1>1, <2>1, <3>1, FollowsAppend
    <3>3. QED
      BY <2>1, <3>1, <3>2 DEF Send
  <2>5. QED
    BY <2>1, <2>3, <2>4 DEF InStep, Base
<1>5. CASE ReceiveAck
  <2> DEFINE tag == Head(in).tag
             multiple == Head(in).multiple
             left == Remaining(tag, multiple)
             settled == {unconfirmed[i] : i \in DOMAIN unconfirmed} \ {left[i] : i \in DOMAIN left}
  <2>1. /\ \A i \in DOMAIN in' : Truthful(in'[i], messageOf, nextDeliveryTag, accepted)
        /\ Head(in) \in InFrames /\ Head(in).type = "Ack"
        /\ tag \in 1..(nextDeliveryTag - 1) /\ messageOf[tag] \in accepted
        /\ multiple => \A t \in 1..tag : messageOf[t] \in accepted
    BY <1>2, <1>5 DEF ReceiveAck, Truthful
  <2>2. tag \in Tags \cup {0} /\ multiple \in BOOLEAN /\ tag # 0
    BY <2>1 DEF InFrames
  <2>3. \A k \in DOMAIN unconfirmed :
           \/ \E i \in DOMAIN left : left[i] = unconfirmed[k]
           \/ unconfirmed[k] = tag
           \/ multiple /\ unconfirmed[k] <= tag
    BY <1>1, <2>2, RemainingIsRest
  <2>4. /\ delivered' = delivered \cup {messageOf[t] : t \in settled}
        /\ UNCHANGED <<link, nextDeliveryTag, out, broker, messageOf, published, accepted>>
    BY <1>5 DEF ReceiveAck, history
  <2> HIDE DEF tag, multiple, left
  <2>5. ASSUME NEW t \in settled
        PROVE  messageOf[t] \in accepted
    <3>1. PICK k \in DOMAIN unconfirmed : t = unconfirmed[k]
      OBVIOUS
    <3>2. t = tag \/ (multiple /\ t <= tag)
      BY <2>3, <3>1
    <3>3. t \in Tags
      BY <1>1, <3>1
    <3>4. t = tag \/ (multiple /\ t \in 1..tag)
      BY <2>1, <3>2, <3>3 DEF Tags
    <3>5. QED
      BY <2>1, <3>4
  <2> HIDE DEF settled
  <2>6. delivered' \subseteq accepted
    BY <2>4, <2>5 DEF InStep
  <2>7. QED
    BY <2>1, <2>4, <2>6 DEF InStep, NotEnabled, Base
<1>6. QED
  BY <1>3, <1>4, <1>5 DEF Reading

\* What a frame the broker takes has to leave.
LEMMA BrokerInStep ==
    ASSUME Numbered, InStep, BrokerUnchanged, accepted' = accepted, link = "up",
           NEW answer \in InFrames, answer.type \notin {"Ack", "Nack"},
           in' \in {in, Append(in, answer)}, out # <<>>, out' = Tail(out),
           nextDeliveryTag = 0 => ~broker'.confirming,
           nextDeliveryTag > 0 => SelectFollows(out', broker', Base, published, TRUE),
           Agreed(broker', messageOf, nextDeliveryTag, accepted)
    PROVE  InStep'
<1>1. /\ UNCHANGED <<link, nextDeliveryTag, messageOf, published, delivered>>
      /\ out \in Seq(OutFrames) /\ in \in Seq(InFrames)
      /\ \A i \in DOMAIN in : Truthful(in[i], messageOf, nextDeliveryTag, accepted)
  BY DEF BrokerUnchanged, client, history, Numbered, TypeOK, InStep
<1>2. Truthful(answer, messageOf, nextDeliveryTag, accepted)
  BY DEF Truthful
<1>3. \A i \in DOMAIN in' : Truthful(in'[i], messageOf, nextDeliveryTag, accepted)
  BY <1>1, <1>2, TruthfulAppend
<1>4. nextDeliveryTag = 0 => \A i \in DOMAIN out' : out'[i].type # "Select"
  BY <1>1, TailEntries DEF InStep, NotEnabled
<1>5. (link' = "up") = TRUE
  BY <1>1
<1>6. QED
  BY <1>1, <1>3, <1>4, <1>5 DEF InStep, NotEnabled, Base

LEMMA BrokerReadsInStep ==
    ASSUME Numbered, InStep, ConfirmsAssumption, BrokerReads
    PROVE  InStep'
<1>1. /\ out \in Seq(OutFrames) /\ in \in Seq(InFrames) /\ broker \in Broker /\ Counts(broker)
      /\ nextDeliveryTag \in Nat /\ published \in Nat /\ broker.count \in Nat
      /\ InOrder(out, broker.count, published)
      /\ Agreed(broker, messageOf, nextDeliveryTag, accepted)
  BY DEF Numbered, TypeOK, Broker, InStep
<1>2. nextDeliveryTag = 0 => ~broker.confirming /\ \A i \in DOMAIN out : out[i].type # "Select"
  BY DEF InStep, NotEnabled
<1>3. ASSUME nextDeliveryTag > 0
      PROVE  Base \in Nat /\ SelectFollows(out, broker, Base, published, link = "up")
  BY <1>1, <1>3 DEF Numbered, TagsGiven, Base, InStep
<1>4. ASSUME NEW type, BrokerTakes(type)
      PROVE  /\ link = "up" /\ (link = "up") = TRUE /\ out # <<>> /\ out' = Tail(out)
             /\ Head(out).type = type
             /\ Head(out) = out[1] /\ 1 \in DOMAIN out
             /\ \A i \in DOMAIN Tail(out) : i + 1 \in DOMAIN out /\ Tail(out)[i] = out[i + 1]
  BY <1>1, <1>4, TailEntries DEF BrokerTakes
<1>5. ASSUME NEW type, BrokerTakes(type), nextDeliveryTag > 0
     PROVE  /\ \A d \in Broker :
                  /\ ~broker.confirming /\ ~d.confirming /\ d.count = 0
                  /\ type # "Select" /\ (Alive(Tail(out), d) => Alive(out, broker))
                  => SelectFollows(out', d, Base, published, TRUE)
            /\ \A d \in Broker :
                  ~d.confirming /\ d.channel # "open" /\ (broker.confirming \/ type = "Select")
                  => SelectFollows(out', d, Base, published, TRUE)
            /\ \A d \in Broker :
                  /\ type = "Select" /\ broker.channel = "open"
                  /\ d.confirming /\ d.count = broker.count
                  => SelectFollows(out', d, Base, published, TRUE)
            /\ \A d \in Broker :
                  /\ type = "Publish" /\ broker.channel = "open" /\ broker.confirming
                  /\ d.confirming /\ d.count = broker.count + 1
                  => /\ SelectFollows(out', d, Base, published, TRUE)
                     /\ Head(out).message = Base + broker.count + 1
                     /\ Head(out).message <= published
  <2>1. SelectFollows(out, broker, Base, published, TRUE)
    BY <1>3, <1>4, <1>5 DEF SelectFollows
  <2>2. Base \in Nat /\ out # <<>> /\ out' = Tail(out) /\ Head(out).type = type
        /\ (Published(Head(out)) <=> type = "Publish")
    BY <1>3, <1>4, <1>5 DEF Published
  <2> HIDE DEF Base
  <2>3. QED
    BY <1>1, <2>1, <2>2, FollowsTail
<1>6. ASSUME NEW type, BrokerTakes(type), type # "Select", NEW d \in Broker,
             ~broker.confirming, ~d.confirming, d.count = 0,
             Alive(Tail(out), d) => Alive(out, broker), nextDeliveryTag > 0
      PROVE  SelectFollows(out', d, Base, published, TRUE)
  BY <1>6, <1>5
<1>7. ASSUME NEW type, BrokerTakes(type), NEW d \in Broker, d.channel = broker.channel
      PROVE  Alive(Tail(out), d) => Alive(out, broker)
  BY <1>4, <1>7 DEF Alive
<1>8. ASSUME NEW type, BrokerTakes(type), broker.confirming \/ type = "Select",
             NEW d \in Broker, ~d.confirming, d.channel # "open", nextDeliveryTag > 0
      PROVE  SelectFollows(out', d, Base, published, TRUE)
  BY <1>8, <1>5
<1>9. ASSUME NEW state \in {"closed", "open"}
      PROVE  /\ ClosedChannel(state) \in Broker /\ ClosedChannel(state).channel = state
             /\ ClosedChannel(state).count = 0 /\ ~ClosedChannel(state).confirming
             /\ Agreed(ClosedChannel(state), messageOf, nextDeliveryTag, accepted)
  BY ClosedTyped, ClosedAgreed
<1>10. ASSUME NEW type \in {"OpenOk", "SelectOk", "CloseOk"}
       PROVE  [type |-> type] \in InFrames /\ [type |-> type].type = type
  BY DEF InFrames
<1>11. CASE BrokerOpens
  <2>1. /\ BrokerTakes("Open") /\ broker.channel = "closed" /\ broker' = ClosedChannel("open")
        /\ in' = Append(in, [type |-> "OpenOk"]) /\ accepted' = accepted /\ BrokerUnchanged
    BY <1>11 DEF BrokerOpens
  <2>2. Alive(out, broker)
    <3>1. Head(out) = out[1] /\ Head(out).type = "Open" /\ 1 \in DOMAIN out
      BY <1>4, <2>1
    <3>2. QED
      BY <3>1 DEF Alive
  <2>3. nextDeliveryTag > 0 => SelectFollows(out', broker', Base, published, TRUE)
    BY <1>1, <1>6, <1>9, <2>1, <2>2 DEF Counts
  <2>4. QED
    BY <1>4, <1>9, <1>10, <2>1, <2>3, BrokerInStep
<1>12. CASE BrokerConfirms
  <2>1. /\ BrokerTakes("Select") /\ broker.channel = "open"
        /\ broker' = [broker EXCEPT !.confirming = TRUE]
        /\ in' = Append(in, [type |-> "SelectOk"]) /\ accepted' = accepted /\ BrokerUnchanged
    BY <1>12 DEF BrokerConfirms
  <2>2. /\ broker' \in Broker /\ broker'.confirming /\ broker'.count = broker.count
        /\ broker'.outstanding = broker.outstanding
    BY <1>1, <2>1 DEF Broker
  <2>3. nextDeliveryTag # 0 /\ nextDeliveryTag > 0
    <3>1. Head(out) = out[1] /\ Head(out).type = "Select" /\ 1 \in DOMAIN out
      BY <1>4, <2>1
    <3>2. nextDeliveryTag # 0
      BY <1>2, <3>1
    <3>3. QED
      BY <1>1, <3>2
  <2>4. SelectFollows(out', broker', Base, published, TRUE)
    BY <1>1, <1>5, <2>1, <2>2, <2>3
  <2>5. Agreed(broker', messageOf, nextDeliveryTag, accepted)
    BY <1>1, <2>2 DEF Agreed
  <2>6. QED
    BY <1>4, <1>10, <2>1, <2>3, <2>4, <2>5, BrokerInStep
<1>13. CASE BrokerStores
  <2> DEFINE o == [tag |-> broker.count + 1, message |-> Head(out).message]
  <2>1. /\ BrokerTakes("Publish") /\ broker.channel = "open"
        /\ in' = in /\ accepted' = accepted /\ BrokerUnchanged
    BY <1>13 DEF BrokerStores
  <2>2. broker' = IF broker.confirming
                  THEN [broker EXCEPT !.count = @ + 1, !.outstanding = @ \cup {o}]
                  ELSE broker
    BY <1>13 DEF BrokerStores
  <2>3. o.tag = broker.count + 1 /\ o.message = Head(out).message
    OBVIOUS
  <2> DEFINE answer == [type |-> "OpenOk"]
  <2>4. answer \in InFrames /\ answer.type = "OpenOk" /\ in' \in {in, Append(in, answer)}
    BY <1>10, <2>1
  <2> HIDE DEF o, answer
  <2>5. CASE broker.confirming
    <3>1. /\ broker'.count = broker.count + 1 /\ broker'.confirming
          /\ broker'.outstanding = broker.outstanding \cup {o}
      BY <1>1, <2>2, <2>5 DEF Broker
    <3>2. broker' \in Broker
      <4>1. Numbered'
        BY <1>13, BrokerReadsNumbered DEF BrokerReads
      <4>2. QED
        BY <4>1 DEF Numbered, TypeOK
    <3>3. nextDeliveryTag > 0
      BY <1>1, <1>2, <2>5
    <3>4. /\ SelectFollows(out', broker', Base, published, TRUE)
          /\ Head(out).message = Base + broker.count + 1
          /\ Head(out).message <= published
      BY <1>5, <2>1, <2>5, <3>1, <3>2, <3>3
    <3>5. /\ broker.count + 1 < nextDeliveryTag
          /\ messageOf[broker.count + 1] = Head(out).message
      <4>1. broker.count + 1 \in 1..(nextDeliveryTag - 1)
        BY <1>1, <3>3, <3>4 DEF Base
      <4>2. messageOf[broker.count + 1] = Base + (broker.count + 1) /\ Base \in Int
        BY <1>1, <3>3, <4>1 DEF Numbered, TagsGiven, Base
      <4>3. QED
        BY <1>1, <3>4, <4>1, <4>2
    <3>6. Agreed(broker', messageOf, nextDeliveryTag, accepted)
      <4>1. \A p \in broker'.outstanding : p.message = messageOf[p.tag]
        BY <1>1, <2>3, <3>1, <3>5 DEF Agreed
      <4>2. o = [tag |-> broker.count + 1, message |-> messageOf[broker.count + 1]]
        BY <3>5 DEF o
      <4>3. \A t \in 1..broker'.count :
               messageOf[t] \in accepted \/ [tag |-> t, message |-> messageOf[t]] \in broker'.outstanding
        <5> SUFFICES ASSUME NEW t \in 1..broker'.count
                     PROVE  \/ messageOf[t] \in accepted
                            \/ [tag |-> t, message |-> messageOf[t]] \in broker'.outstanding
          OBVIOUS
        <5>1. CASE t = broker.count + 1
          BY <3>1, <4>2, <5>1
        <5>2. CASE t # broker.count + 1
          <6>1. t \in 1..broker.count
            BY <1>1, <3>1, <5>2
          <6>2. QED
            BY <1>1, <3>1, <6>1 DEF Agreed
        <5>3. QED
          BY <5>1, <5>2
      <4>4. QED
        BY <3>1, <3>5, <4>1, <4>3 DEF Agreed
    <3>7. link = "up" /\ out # <<>> /\ out' = Tail(out)
      BY <1>4, <2>1
    <3>8. nextDeliveryTag # 0 /\ answer.type \notin {"Ack", "Nack"}
      BY <1>1, <2>4, <3>3
    <3>9. QED
      BY <2>1, <2>4, <3>4, <3>6, <3>7, <3>8, BrokerInStep
  <2>6. CASE ~broker.confirming
    <3>1. broker' = broker
      BY <2>2, <2>6
    <3>2. nextDeliveryTag > 0 => SelectFollows(out', broker', Base, published, TRUE)
      BY <1>1, <1>6, <1>7, <2>1, <2>6, <3>1 DEF Counts
    <3>3. /\ link = "up" /\ out # <<>> /\ out' = Tail(out)
          /\ nextDeliveryTag = 0 => ~broker'.confirming
          /\ Agreed(broker', messageOf, nextDeliveryTag, accepted)
      BY <1>1, <1>4, <2>1, <2>6, <3>1
    <3>4. QED
      BY <2>1, <2>4, <3>2, <3>3, BrokerInStep
  <2>7. QED
    BY <2>5, <2>6
<1>14. CASE BrokerAnswersClose
  <2>1. /\ BrokerTakes("Close") /\ accepted' = accepted /\ BrokerUnchanged
        /\ broker' = IF broker.channel = "open" THEN ClosedChannel("closed") ELSE broker
        /\ in' = Append(in, [type |-> "CloseOk"])
    BY <1>14 DEF BrokerAnswersClose
  <2>2. nextDeliveryTag > 0 => SelectFollows(out', broker', Base, published, TRUE)
    <3>1. CASE broker.confirming
      <4>1. broker' = ClosedChannel("closed")
        BY <1>1, <2>1, <3>1 DEF Counts
      <4>2. QED
        BY <1>8, <1>9, <2>1, <3>1, <4>1
    <3>2. CASE ~broker.confirming
      <4>1. CASE broker.channel = "open"
        <5>1. broker' = ClosedChannel("closed") /\ Alive(out, broker)
          BY <2>1, <4>1 DEF Alive
        <5>2. QED
          BY <1>6, <1>9, <2>1, <3>2, <5>1
      <4>2. CASE broker.channel # "open"
        BY <1>1, <1>6, <1>7, <2>1, <3>2, <4>2 DEF Counts
      <4>3. QED
        BY <4>1, <4>2
    <3>3. QED
      BY <3>1, <3>2
  <2>3. QED
    BY <1>1, <1>2, <1>4, <1>9, <1>10, <2>1, <2>2, BrokerInStep
<1>15. CASE BrokerWaitsForCloseOk
  <2>1. PICK type \in {"Open", "Select", "Publish", "CloseOk"} :
           BrokerTakes(type)
             /\ broker' = IF type = "CloseOk" THEN ClosedChannel("closed") ELSE broker
    BY <1>15 DEF BrokerWaitsForCloseOk
  <2>2. /\ broker.channel = "closing" /\ in' = in /\ accepted' = accepted /\ BrokerUnchanged
        /\ ~broker.confirming /\ broker.count = 0
    BY <1>1, <1>15 DEF BrokerWaitsForCloseOk, Counts
  <2>3. /\ broker' \in Broker /\ broker'.channel # "open" /\ ~broker'.confirming
        /\ broker'.count = 0
        /\ Agreed(broker', messageOf, nextDeliveryTag, accepted)
    BY <1>1, <1>9, <2>1, <2>2
  <2>4. Alive(Tail(out), broker') => Alive(out, broker)
    BY <1>4, <2>1, <2>3 DEF Alive
  <2>5. nextDeliveryTag > 0 => SelectFollows(out', broker', Base, published, TRUE)
    <3>1. CASE type = "Select"
      BY <1>8, <2>1, <2>3, <3>1
    <3>2. CASE type # "Select"
      BY <1>6, <2>1, <2>2, <2>3, <2>4, <3>2
    <3>3. QED
      BY <3>1, <3>2
  <2> DEFINE answer == [type |-> "OpenOk"]
  <2>6. answer \in InFrames /\ answer.type = "OpenOk" /\ in' \in {in, Append(in, answer)}
    BY <1>10, <2>2
  <2> HIDE DEF answer
  <2>7. QED
    BY <1>4, <2>1, <2>2, <2>3, <2>5, <2>6, BrokerInStep
<1>16. CASE BrokerRefuses
  BY <1>16, SocketClosedInStep DEF BrokerRefuses
<1>17. QED
  BY <1>11, <1>12, <1>13, <1>14, <1>15, <1>16 DEF BrokerReads

LEMMA BrokerWritesInStep ==
    ASSUME Numbered, InStep, ConfirmsAssumption, happened' = {},
           BrokerClosesChannel \/ BrokerAcks \/ BrokerNacks
    PROVE  InStep'
<1>1. /\ out \in Seq(OutFrames) /\ in \in Seq(InFrames) /\ broker \in Broker /\ Counts(broker)
      /\ nextDeliveryTag \in Nat /\ published \in Nat
      /\ Agreed(broker, messageOf, nextDeliveryTag, accepted)
      /\ \A i \in DOMAIN in : Truthful(in[i], messageOf, nextDeliveryTag, accepted)
      /\ NotEnabled /\ delivered \subseteq accepted
  BY DEF Numbered, TypeOK, InStep
<1>2. CASE BrokerClosesChannel
  <2> DEFINE answer == [type |-> "Close"]
  <2>1. /\ broker.channel = "open" /\ broker' = ClosedChannel("closing")
        /\ in' = Append(in, answer)
        /\ UNCHANGED <<link, nextDeliveryTag, out, messageOf, published, accepted, delivered>>
    BY <1>2 DEF BrokerClosesChannel, client, history
  <2>2. /\ broker' \in Broker /\ broker'.channel = "closing" /\ ~broker'.confirming
        /\ broker'.count = 0
        /\ Agreed(broker', messageOf, nextDeliveryTag, accepted)
    BY <2>1, ClosedTyped, ClosedAgreed
  <2>3. answer \in InFrames /\ answer.type = "Close"
    BY DEF InFrames
  <2>4. Truthful(answer, messageOf, nextDeliveryTag, accepted)
    BY <2>3 DEF Truthful
  <2> HIDE DEF answer
  <2>5. \A i \in DOMAIN in' : Truthful(in'[i], messageOf, nextDeliveryTag, accepted)
    BY <1>1, <2>1, <2>3, <2>4, TruthfulAppend
  <2>6. ASSUME nextDeliveryTag > 0
        PROVE  SelectFollows(out, broker', Base, published, link = "up")
    <3>1. SelectFollows(out, broker, Base, published, link = "up")
      BY <2>6 DEF InStep
    <3>2. SelectInPlace(out, broker, Base)
      BY <3>1 DEF SelectFollows
    <3>3. SelectInPlace(out, broker', Base)
      BY <2>2, <3>2 DEF SelectInPlace
    <3>4. ASSUME link = "up", Alive(out, broker')
          PROVE  NoneMissing(out, broker', Base, published)
      <4>1. ~broker.confirming
        BY <2>2, <3>2, <3>4 DEF Alive, SelectInPlace
      <4>2. broker.count = 0 /\ NoneMissing(out, broker, Base, published)
        BY <1>1, <2>1, <3>1, <3>4, <4>1 DEF SelectFollows, Alive, Counts
      <4>3. QED
        BY <2>2, <4>1, <4>2 DEF NoneMissing
    <3>5. QED
      BY <3>3, <3>4 DEF SelectFollows
  <2>7. NotEnabled'
    BY <1>1, <2>1, <2>2 DEF NotEnabled
  <2>8. QED
    BY <1>1, <2>1, <2>2, <2>5, <2>6, <2>7 DEF InStep, Base
<1>3. CASE BrokerAcks
  <2>1. PICK tag \in {0} \cup {o.tag : o \in broker.outstanding}, multiple \in BOOLEAN :
          /\ Happens(IF tag = 0 THEN {"zero"} ELSE {})
          /\ broker' = [broker EXCEPT !.outstanding = @ \ Covered(tag, multiple)]
          /\ in' = Append(in, [type |-> "Ack", tag |-> tag, multiple |-> multiple])
          /\ accepted' = accepted \cup {o.message : o \in Covered(tag, multiple)}
    BY <1>3 DEF BrokerAcks, BrokerAnswers, Happens
  <2>2. UNCHANGED <<link, nextDeliveryTag, out, messageOf, published, delivered>>
    BY <1>3 DEF BrokerAcks, BrokerAnswers, client, history
  <2>3. tag # 0
    BY <2>1 DEF Happens
  <2>4. PICK p \in broker.outstanding : p.tag = tag
    BY <2>1, <2>3
  <2>5. /\ \A o \in broker.outstanding :
              o \in [tag : Tags, message : Messages] /\ o.tag \in 1..broker.count /\ o.message = messageOf[o.tag]
        /\ broker.count \in Nat /\ (broker.count > 0 => broker.count < nextDeliveryTag)
        /\ tag \in 1..broker.count /\ tag \in Tags
        /\ broker.confirming
    BY <1>1, <2>4 DEF Broker, Counts, Agreed
  <2>6. /\ broker' \in Broker /\ broker'.confirming = broker.confirming
        /\ broker'.channel = broker.channel /\ broker'.count = broker.count
        /\ broker'.outstanding = broker.outstanding \ Covered(tag, multiple)
    BY <1>1, <2>1 DEF Broker
  <2>7. tag \in 1..(nextDeliveryTag - 1)
    BY <1>1, <2>5
  <2>8. messageOf[tag] \in accepted'
    BY <2>1, <2>4, <2>5 DEF Covered
  <2>9. ASSUME multiple, NEW t \in 1..tag
        PROVE  messageOf[t] \in accepted'
    <3> DEFINE o == [tag |-> t, message |-> messageOf[t]]
    <3>1. t \in 1..broker.count
      BY <2>5
    <3>2. messageOf[t] \in accepted \/ o \in broker.outstanding
      BY <1>1, <3>1 DEF Agreed
    <3>3. o.tag = t /\ o.message = messageOf[t] /\ (t = tag \/ t < tag)
      BY <2>5
    <3> HIDE DEF o
    <3>4. o \in broker.outstanding => o \in Covered(tag, multiple)
      BY <2>9, <3>3 DEF Covered
    <3>5. QED
      BY <2>1, <3>2, <3>3, <3>4
  <2>10. Agreed(broker', messageOf, nextDeliveryTag, accepted')
    <3>1. ASSUME NEW t \in 1..broker.count
          PROVE  \/ messageOf[t] \in accepted'
                 \/ [tag |-> t, message |-> messageOf[t]] \in broker'.outstanding
      <4> DEFINE o == [tag |-> t, message |-> messageOf[t]]
      <4>1. messageOf[t] \in accepted \/ o \in broker.outstanding
        BY <1>1 DEF Agreed
      <4>2. o.message = messageOf[t]
        OBVIOUS
      <4> HIDE DEF o
      <4>3. o \in Covered(tag, multiple) => messageOf[t] \in accepted'
        BY <2>1, <4>2
      <4>4. messageOf[t] \in accepted' \/ o \in broker'.outstanding
        BY <2>1, <2>6, <4>1, <4>3
      <4>5. QED
        BY <4>4 DEF o
    <3>2. QED
      BY <2>5, <2>6, <3>1 DEF Agreed
  <2> DEFINE answer == [type |-> "Ack", tag |-> tag, multiple |-> multiple]
             all == accepted'
  <2>11. answer \in InFrames /\ Truthful(answer, messageOf, nextDeliveryTag, accepted')
    <3>1. answer \in InFrames
      BY <2>5 DEF InFrames
    <3>2. answer.type = "Ack" /\ answer.tag = tag /\ answer.multiple = multiple
      OBVIOUS
    <3> HIDE DEF answer
    <3>3. QED
      BY <2>7, <2>8, <2>9, <3>1, <3>2 DEF Truthful
  <2>12. accepted \subseteq accepted'
    BY <2>1
  <2>13. \A i \in DOMAIN in : Truthful(in[i], messageOf, nextDeliveryTag, all)
    <3>1. \A f \in InFrames : Truthful(f, messageOf, nextDeliveryTag, accepted)
             => Truthful(f, messageOf, nextDeliveryTag, all)
      <4> HIDE DEF all
      <4>1. accepted \subseteq all
        BY <2>12 DEF all
      <4>2. /\ nextDeliveryTag \in Nat /\ nextDeliveryTag <= nextDeliveryTag
            /\ \A t \in 1..(nextDeliveryTag - 1) : messageOf[t] = messageOf[t]
        BY <1>1
      <4>3. QED
        BY <4>1, <4>2, AnswersStay
    <3>2. \A i \in DOMAIN in : in[i] \in InFrames
      BY <1>1
    <3>3. QED
      BY <1>1, <3>1, <3>2
  <2>14. \A i \in DOMAIN in' : Truthful(in'[i], messageOf, nextDeliveryTag, accepted')
    <3>1. in' = Append(in, answer)
      BY <2>1
    <3> HIDE DEF answer
    <3>2. \A i \in DOMAIN Append(in, answer) :
             Truthful(Append(in, answer)[i], messageOf, nextDeliveryTag, all)
      <4>1. Truthful(answer, messageOf, nextDeliveryTag, all)
        BY <2>11
      <4> HIDE DEF all
      <4>2. QED
        BY <1>1, <2>11, <2>13, <4>1, TruthfulAppend
    <3>3. QED
      BY <3>1, <3>2
  <2>15. ASSUME nextDeliveryTag > 0
         PROVE  SelectFollows(out, broker', Base, published, link = "up")
    <3>1. SelectFollows(out, broker, Base, published, link = "up")
      BY <2>15 DEF InStep
    <3>2. QED
      BY <2>6, <3>1 DEF SelectFollows, SelectInPlace, NoneMissing, Alive
  <2>16. NotEnabled'
    BY <1>1, <2>2, <2>6 DEF NotEnabled
  <2>17. QED
    BY <1>1, <2>2, <2>10, <2>12, <2>14, <2>15, <2>16 DEF InStep, Base
<1>4. ~BrokerNacks
  BY DEF BrokerNacks, BrokerAnswers, Happens
<1>5. QED
  BY <1>2, <1>3, <1>4

\* What has happened stays.
LEMMA HappenedStays ==
    ASSUME [Next]_vars, happened' = {}
    PROVE  happened = {}
<1>1. CASE User
  BY <1>1 DEF User, EnableConfirms, Publish, StartWaiting, StopWaiting, CloseChannel, Reopen, Happens
<1>2. CASE Link
  BY <1>2 DEF Link, LinkUp, LinkLost, LinkCloses, SocketClosed
<1>3. CASE Reading
  BY <1>3 DEF Reading, ReceiveOpenOk, ReceiveSelectOk, ReceiveClose, ReceiveCloseOk, ReceiveAck,
              ReceiveNack
<1>4. CASE BrokerReads
  BY <1>4 DEF BrokerReads, BrokerOpens, BrokerConfirms, BrokerStores, BrokerAnswersClose,
              BrokerWaitsForCloseOk, BrokerRefuses, SocketClosed, BrokerUnchanged
<1>5. CASE BrokerClosesChannel \/ BrokerAcks \/ BrokerNacks
  BY <1>5 DEF BrokerClosesChannel, BrokerAcks, BrokerNacks, BrokerAnswers, Happens
<1>6. CASE UNCHANGED vars
  BY <1>6 DEF vars
<1>7. QED
  BY <1>1, <1>2, <1>3, <1>4, <1>5, <1>6 DEF Next

LEMMA InStepStep ==
    ASSUME Numbered, InStep, ConfirmsAssumption, [Next]_vars, happened' = {}
    PROVE  InStep'
<1>1. CASE User
  BY <1>1, CallsInStep, PublishInStep DEF User
<1>2. CASE Link
  BY <1>2, LinkInStep DEF Link
<1>3. CASE Reading
  BY <1>3, ReadingInStep
<1>4. CASE BrokerReads
  BY <1>4, BrokerReadsInStep
<1>5. CASE BrokerClosesChannel \/ BrokerAcks \/ BrokerNacks
  BY <1>5, BrokerWritesInStep
<1>6. CASE UNCHANGED vars
  <2>1. UNCHANGED <<link, nextDeliveryTag, out, in, broker, messageOf, published, accepted, delivered>>
    BY <1>6 DEF vars, client, history
  <2>2. QED
    BY <2>1 DEF InStep, NotEnabled, Base
<1>7. QED
  BY <1>1, <1>2, <1>3, <1>4, <1>5, <1>6 DEF Next

-----------------------------------------------------------------------------
(* The theorems.                                                           *)

LEMMA InitEstablishesIInv ==
    ASSUME Init, ConfirmsAssumption
    PROVE  IInv
<1>1. /\ ClosedChannel("closed") \in Broker /\ Counts(ClosedChannel("closed"))
      /\ ClosedChannel("closed").count = 0 /\ ~ClosedChannel("closed").confirming
      /\ Agreed(ClosedChannel("closed"), messageOf, nextDeliveryTag, accepted)
  BY ClosedTyped, ClosedAgreed
<1>2. messageOf \in [Tags -> Messages \cup {NoMessage}]
  BY DEF Init
<1>3. TypeOK
  <2>1. /\ unconfirmed \in Seq(Tags) /\ out \in Seq(OutFrames) /\ in \in Seq(InFrames)
        /\ broker \in Broker /\ nextDeliveryTag \in 0..(MaxMessages + 1)
        /\ published \in 0..MaxMessages /\ losses \in 0..MaxLosses /\ calls \in 0..MaxCalls
    BY <1>1 DEF Init, ConfirmsAssumption
  <2>2. QED
    BY <1>2, <2>1 DEF Init, TypeOK
<1>4. InOrder(out, broker.count, published)
  BY <1>1, InOrderNone DEF Init
<1>5. TagsGiven /\ TagsInOrder
  BY DEF Init, TagsGiven, TagsInOrder
<1>6. InStep
  BY <1>1 DEF Init, InStep, NotEnabled
<1>7. QED
  BY <1>1, <1>3, <1>4, <1>5, <1>6 DEF Init, IInv, Numbered

LEMMA IInvHolds == Spec => []IInv
<1>1. Init => IInv
  BY InitEstablishesIInv, ConfirmsAssumption
<1>2. IInv /\ [Next]_vars => IInv'
  BY NumberedStep, HappenedStays, InStepStep, ConfirmsAssumption DEF IInv
<1>3. QED
  BY <1>1, <1>2, PTL DEF Spec

\* The variables keep their types: among them, a tag is never given to a
\* message that the exchange has not published.
THEOREM TypeCorrect == Spec => []TypeOK
<1>1. IInv => TypeOK
  BY DEF IInv, Numbered
<1>2. QED
  BY <1>1, IInvHolds, PTL

\* The tags that wait are in increasing order and were given: handleAckOrNack
\* may take the tags up to the one acked as the ones that are acked.
THEOREM TagsInOrderHolds == Spec => []TagsInOrder
<1>1. IInv => TagsInOrder
  BY DEF IInv, Numbered
<1>2. QED
  BY <1>1, IInvHolds, PTL

\* A message whose tag an ack removes is one the broker has acked, over any
\* number of connections, unless something is nacked, an ack has tag 0, a
\* channel is reopened, or confirms are enabled without a connection.
THEOREM DeliveredAreAcceptedHolds == Spec => []DeliveredAreAccepted
<1>1. IInv => DeliveredAreAccepted
  BY DEF IInv, InStep, DeliveredAreAccepted
<1>2. QED
  BY <1>1, IInvHolds, PTL

=============================================================================
