-------------------------- MODULE PublishingProofs --------------------------
(***************************************************************************)
(* Theorems about Publishing for every value of the constants: the types   *)
(* of the variables, that the broker gets no frame it does not expect,     *)
(* that a message whose publish is done is stored, and that the tag publish*)
(* took is the number the broker gave it.                                  *)
(***************************************************************************)
EXTENDS Publishing, SequenceFacts

-----------------------------------------------------------------------------
(* The stack.                                                              *)

Element == PublishCall \cup EnableCall \cup {ReadyRead}

Frame ==
    [type : {"Select"}]
        \cup [type : {"Method"}, message : Messages, tag : 0..MaxMessages]
        \cup [type : {"Header", "Body"}, size : Nat]

LEMMA Elements ==
    ASSUME NEW e \in Element
    PROVE  /\ e.next \in {"Method", "Header", "Body", "done", "Tag", "reading"}
           /\ IsCall(e) <=> e.next \notin {"Tag", "reading"}
           /\ e.next \notin {"Tag", "reading"} => e \in PublishCall
           /\ e.next = "Tag" => e \in EnableCall
  BY DEF Element, PublishCall, EnableCall, ReadyRead, IsCall

LEMMA ElementsOf ==
    ASSUME NEW s \in Seq(Element), NEW i \in DOMAIN s
    PROVE  /\ s[i] \in Element
           /\ s[i].next \in {"Method", "Header", "Body", "done", "Tag", "reading"}
           /\ IsCall(s[i]) <=> s[i].next \notin {"Tag", "reading"}
           /\ s[i].next \notin {"Tag", "reading"} => s[i] \in PublishCall
<1>1. s[i] \in Element
  OBVIOUS
<1>2. QED
  BY <1>1, Elements

\* What runs innermost on a stack.
TopOf(s) == IF s = <<>> THEN [next |-> "loop"] ELSE s[Len(s)]

LEMMA TopIs == Top = TopOf(stack)
  BY DEF Top, TopOf, Last

LEMMA TopSays ==
    ASSUME NEW s \in Seq(Element)
    PROVE  LET top == TopOf(s)
           IN  /\ s = <<>> => top.next = "loop"
               /\ s # <<>> => top = s[Len(s)] /\ top \in Element /\ Len(s) \in DOMAIN s
               /\ top.next # "loop" <=> s # <<>>
               /\ top.next \in {"loop", "Method", "Header", "Body", "done", "Tag", "reading"}
               /\ top.next \in {"Method", "Header", "Body", "done"} =>
                     top \in PublishCall /\ IsCall(top)
               /\ top.next = "Tag" => top \in EnableCall
               /\ DOMAIN s = 1..Len(s) /\ Len(s) \in Nat
<1> DEFINE top == TopOf(s)
<1>1. DOMAIN s = 1..Len(s) /\ Len(s) \in Nat
  OBVIOUS
<1>2. ASSUME s # <<>>
      PROVE  top = s[Len(s)] /\ top \in Element /\ Len(s) \in DOMAIN s
  <2>1. Len(s) \in DOMAIN s
    BY <1>2
  <2>2. s[Len(s)] \in Element
    BY <2>1
  <2>3. QED
    BY <1>2, <2>1, <2>2 DEF TopOf
<1>3. s = <<>> => top.next = "loop"
  BY DEF TopOf
<1> HIDE DEF top
<1>4. ASSUME s # <<>>
      PROVE  /\ top.next \in {"Method", "Header", "Body", "done", "Tag", "reading"}
             /\ IsCall(top) <=> top.next \notin {"Tag", "reading"}
             /\ top.next \notin {"Tag", "reading"} => top \in PublishCall
             /\ top.next = "Tag" => top \in EnableCall
  BY <1>2, <1>4, Elements
<1>5. QED
  BY <1>1, <1>2, <1>3, <1>4 DEF top

LEMMA PushSays ==
    ASSUME NEW s \in Seq(Element), NEW e \in Element
    PROVE  LET r == Append(s, e)
           IN  /\ r \in Seq(Element) /\ TopOf(r) = e /\ Len(r) = Len(s) + 1
               /\ DOMAIN r = 1..(Len(s) + 1) /\ r[Len(s) + 1] = e
               /\ DOMAIN s = 1..Len(s) /\ Len(s) \in Nat
               /\ \A i \in DOMAIN s : i \in DOMAIN r /\ r[i] = s[i]
               /\ \A i \in DOMAIN r : i \in DOMAIN s \/ i = Len(s) + 1
               /\ \A i \in DOMAIN r : i \in Int
<1> DEFINE r == Append(s, e)
<1>1. /\ r \in Seq(Element) /\ DOMAIN r = 1..(Len(s) + 1) /\ r[Len(s) + 1] = e
      /\ DOMAIN s = 1..Len(s) /\ Len(s) \in Nat
      /\ \A i \in DOMAIN s : r[i] = s[i]
  BY AppendEntries
<1> HIDE DEF r
<1>2. Len(r) = Len(s) + 1 /\ r # <<>>
  BY <1>1
<1>3. TopOf(r) = e
  BY <1>1, <1>2 DEF TopOf
<1>4. QED
  BY <1>1, <1>2, <1>3 DEF r

LEMMA PopSays ==
    ASSUME NEW s \in Seq(Element), s # <<>>
    PROVE  LET r == Front(s)
           IN  /\ r \in Seq(Element)
               /\ \A i \in DOMAIN r : i \in DOMAIN s /\ r[i] = s[i] /\ i # Len(s) /\ i \in Int
               /\ \A i \in DOMAIN s : i \in DOMAIN r \/ i = Len(s)
               /\ TopOf(r).next = "loop" \/ \E i \in DOMAIN r : TopOf(r) = s[i]
<1> DEFINE r == Front(s)
<1>1. /\ r \in Seq(Element) /\ DOMAIN r = 1..(Len(s) - 1)
      /\ \A i \in DOMAIN r : r[i] = s[i]
      /\ DOMAIN s = 1..Len(s) /\ Len(s) \in Nat
  BY FrontEntries
<1> HIDE DEF r
<1>2. \A i \in DOMAIN r : i \in DOMAIN s /\ r[i] = s[i] /\ i # Len(s) /\ i \in Int
  BY <1>1
<1>3. \A i \in DOMAIN s : i \in DOMAIN r \/ i = Len(s)
  BY <1>1
<1>4. TopOf(r).next = "loop" \/ \E i \in DOMAIN r : TopOf(r) = s[i]
  <2>1. CASE r = <<>>
    BY <1>1, <2>1, TopSays
  <2>2. CASE r # <<>>
    <3>1. TopOf(r) = r[Len(r)] /\ Len(r) \in DOMAIN r
      BY <1>1, <2>2, TopSays
    <3>2. QED
      BY <1>2, <3>1
  <2>3. QED
    BY <2>1, <2>2
<1>5. QED
  BY <1>1, <1>2, <1>3, <1>4 DEF r

LEMMA ReplaceSays ==
    ASSUME NEW s \in Seq(Element), s # <<>>, NEW e \in Element
    PROVE  LET r == Append(Front(s), e)
           IN  /\ r \in Seq(Element) /\ Len(r) = Len(s) /\ DOMAIN r = DOMAIN s
               /\ TopOf(r) = e /\ r[Len(s)] = e /\ Len(s) \in DOMAIN s
               /\ \A i \in DOMAIN s : i # Len(s) => r[i] = s[i]
<1> DEFINE r == Append(Front(s), e)
<1>1. /\ r \in Seq(Element) /\ Len(r) = Len(s) /\ DOMAIN r = DOMAIN s
      /\ r[Len(s)] = e
      /\ \A i \in DOMAIN s : i # Len(s) => r[i] = s[i]
  BY LastReplaced
<1> HIDE DEF r
<1>2. r # <<>> /\ Len(s) \in DOMAIN s
  BY <1>1
<1>3. TopOf(r) = e
  BY <1>1, <1>2 DEF TopOf
<1>4. QED
  BY <1>1, <1>2, <1>3 DEF r

LEMMA Constants ==
    /\ FrameMin \in Nat /\ FrameMin > 7
    /\ FrameDefault \in Nat /\ FrameDefault >= FrameMin
    /\ FrameMaxes \subseteq Nat
    /\ Tolerance \in Nat /\ Tolerance >= 1
    /\ BodySizes \subseteq Nat
    /\ MaxMessages \in Nat /\ MaxLosses \in Nat /\ MaxCalls \in Nat /\ NumExchanges \in Nat
  BY PublishingAssumption

-----------------------------------------------------------------------------
(* The types.                                                              *)

\* A content that is not idle is one of a message.
Content ==
    {Idle} \cup [awaits : {"Header", "Body"}, message : Messages, tag : 0..MaxMessages,
                 missing : Nat]

Busy(c) == IF c.content = Idle THEN 0 ELSE 1

\* What a channel has numbered and still puts together is not more than k.
ChannelCounted(c, k) ==
    /\ c.content \in Content
    /\ ~c.confirming => c.count = 0
    /\ c.count + Busy(c) <= k

\* The messages whose first frame may have been sent, of p.
Begun(s, p) == IF TopOf(s).next = "Method" THEN p - 1 ELSE p

EntryCounted(e) ==
    /\ e.next = "Body" => e.sent < e.size
    /\ e.next \in {"Method", "Header"} => e.sent = 0

\* A call that has sent nothing runs innermost.
StackCounted(s, p) ==
    \A i \in DOMAIN s :
        EntryCounted(s[i]) /\ (s[i].next = "Method" => i = Len(s) /\ p >= 1)

Counted ==
    /\ \A x \in Exchanges : exchange[x].nextDeliveryTag <= published + 1
    /\ \A n \in Channels : ChannelCounted(broker.channel[n], Begun(stack, published))
    /\ StackCounted(stack, published)

Typed == TypeOK /\ Counted

\* The number of the message that the channel puts together next.
Number(c) == IF c.confirming THEN c.count + 1 ELSE 0

\* What the frame makes of the channel that expects it.
Grown(c, frame) ==
    IF Completes(c, frame)
    THEN [Accepted(c, frame) EXCEPT !.count = Number(c)]
    ELSE Accepted(c, frame)

LEMMA JoinedTyped ==
    ASSUME NEW content \in Content, content # Idle, NEW missing \in Nat
    PROVE  /\ Joined(content, missing) \in Content
           /\ Joined(content, missing) = Idle <=> missing = 0
           /\ content.message \in Messages /\ content.tag \in 0..MaxMessages
           /\ content.awaits \in {"Header", "Body"}
           /\ missing # 0 => Joined(content, missing) =
                 [awaits |-> "Body", message |-> content.message, tag |-> content.tag,
                  missing |-> missing]
<1>1. content \in [awaits : {"Header", "Body"}, message : Messages, tag : 0..MaxMessages,
                   missing : Nat]
  BY DEF Content
<1>2. missing # 0 => Joined(content, missing) =
                 [awaits |-> "Body", message |-> content.message, tag |-> content.tag,
                  missing |-> missing]
  BY <1>1 DEF Joined
<1>3. missing = 0 => Joined(content, missing) = Idle
  BY DEF Joined
<1>4. [awaits |-> "Body", message |-> content.message, tag |-> content.tag,
       missing |-> missing] # Idle
  BY DEF Idle
<1>5. missing # 0 => Joined(content, missing) \in Content
  BY <1>1, <1>2 DEF Content
<1>6. missing = 0 => Joined(content, missing) \in Content
  BY <1>3 DEF Content
<1>7. QED
  BY <1>1, <1>2, <1>3, <1>4, <1>5, <1>6

LEMMA ContentSays ==
    ASSUME NEW content \in Content
    PROVE  content.awaits = "Method" <=> content = Idle
  BY DEF Content, Idle

LEMMA ContentTyped ==
    Content \subseteq [awaits : {"Method", "Header", "Body"}, message : 0..MaxMessages,
                       tag : 0..MaxMessages, missing : Nat]
<1>1. Messages \subseteq 0..MaxMessages /\ 0 \in 0..MaxMessages
  BY Constants DEF Messages
<1> SUFFICES ASSUME NEW e \in Content
             PROVE  e \in [awaits : {"Method", "Header", "Body"}, message : 0..MaxMessages,
                           tag : 0..MaxMessages, missing : Nat]
  OBVIOUS
<1>2. CASE e = Idle
  BY <1>1, <1>2 DEF Idle
<1>3. CASE e \in [awaits : {"Header", "Body"}, message : Messages, tag : 0..MaxMessages,
                  missing : Nat]
  BY <1>1, <1>3
<1>4. QED
  BY <1>2, <1>3 DEF Content

\* A channel with another content.
Filled(c, content, count) == [c EXCEPT !.content = content, !.count = count]

LEMMA WithContent ==
    ASSUME NEW c \in BrokerChannel, NEW content \in Content, NEW count \in 0..MaxMessages
    PROVE  LET d == Filled(c, content, count) IN
           /\ d \in BrokerChannel
           /\ d.state = c.state /\ d.content = content /\ d.count = count
           /\ d.confirming = c.confirming
<1>1. content \in [awaits : {"Method", "Header", "Body"}, message : 0..MaxMessages,
                   tag : 0..MaxMessages, missing : Nat]
  BY ContentTyped
<1>2. QED
  BY <1>1 DEF BrokerChannel, Filled

\* What the frame makes of the channel that expects it, by the frame's type.
LEMMA GrownIs ==
    ASSUME NEW c \in BrokerChannel, NEW frame, c.content \in Content, Expected(c, frame)
    PROVE  /\ frame.type = "Select" => /\ Grown(c, frame) = [c EXCEPT !.confirming = TRUE]
                                       /\ c.content = Idle /\ ~Completes(c, frame)
           /\ frame.type = "Method" =>
                 /\ Grown(c, frame) = [c EXCEPT !.content = [awaits |-> "Header",
                        message |-> frame.message, tag |-> frame.tag, missing |-> 0]]
                 /\ c.content = Idle /\ ~Completes(c, frame)
           /\ frame.type \in {"Header", "Body"} =>
                 /\ c.content # Idle /\ c.content.awaits = frame.type
                 /\ LET content == Joined(c.content, IF frame.type = "Header" THEN frame.size
                                                     ELSE c.content.missing - frame.size)
                    IN  /\ Completes(c, frame) <=> content = Idle
                        /\ Grown(c, frame) = Filled(c, content, IF content = Idle THEN Number(c) ELSE c.count)
           /\ frame.type = "Body" =>
                 /\ frame.size <= c.content.missing /\ frame.size + 8 <= agreed + Tolerance
<1> DEFINE content == Joined(c.content, IF frame.type = "Header" THEN frame.size
                                        ELSE c.content.missing - frame.size)
<1>1. CASE frame.type = "Select"
  <2>1. Accepted(c, frame) = [c EXCEPT !.confirming = TRUE] /\ c.content.awaits = "Method"
    BY <1>1 DEF Accepted, Expected
  <2>2. ~Completes(c, frame)
    BY <1>1 DEF Completes
  <2>3. QED
    BY <1>1, <2>1, <2>2, ContentSays DEF Grown
<1>2. CASE frame.type = "Method"
  <2>1. /\ Accepted(c, frame) = [c EXCEPT !.content = [awaits |-> "Header",
                        message |-> frame.message, tag |-> frame.tag, missing |-> 0]]
        /\ c.content.awaits = "Method"
    BY <1>2 DEF Accepted, Expected
  <2>2. ~Completes(c, frame)
    BY <1>2 DEF Completes
  <2>3. QED
    BY <1>2, <2>1, <2>2, ContentSays DEF Grown
<1>3. CASE frame.type \in {"Header", "Body"}
  <2>1. c.content.awaits = frame.type
    BY <1>3 DEF Expected
  <2>2. c.content # Idle
    BY <1>3, <2>1 DEF Idle
  <2>3. Accepted(c, frame) = [c EXCEPT !.content = content]
    BY <1>3 DEF Accepted
  <2>4. frame.type = "Body" =>
            frame.size <= c.content.missing /\ frame.size + 8 <= agreed + Tolerance
    BY <1>3 DEF Expected
  <2> HIDE DEF content
  <2>5. [c EXCEPT !.content = content].content = content
    BY DEF BrokerChannel
  <2>6. Completes(c, frame) <=> content = Idle
    BY <1>3, <2>3, <2>5 DEF Completes
  <2>7. [[c EXCEPT !.content = content] EXCEPT !.count = Number(c)]
            = [c EXCEPT !.content = content, !.count = Number(c)]
    OBVIOUS
  <2>8. [c EXCEPT !.content = content] = [c EXCEPT !.content = content, !.count = c.count]
    BY DEF BrokerChannel
  <2>9. Grown(c, frame) = Filled(c, content, IF content = Idle THEN Number(c) ELSE c.count)
    BY <2>3, <2>6, <2>7, <2>8 DEF Grown, Filled
  <2>10. QED
    BY <1>3, <2>1, <2>2, <2>4, <2>6, <2>9 DEF content
<1>4. QED
  BY <1>1, <1>2, <1>3

LEMMA GrownTyped ==
    ASSUME NEW c \in BrokerChannel, NEW frame \in Frame, NEW k \in 0..MaxMessages,
           ChannelCounted(c, IF frame.type = "Method" THEN k - 1 ELSE k), Expected(c, frame)
    PROVE  /\ Grown(c, frame) \in BrokerChannel
           /\ ChannelCounted(Grown(c, frame), k)
           /\ Grown(c, frame).state = c.state
           /\ Completes(c, frame) =>
                 /\ c.content.message \in Messages /\ c.content.tag \in 0..MaxMessages
                 /\ c.confirming => c.count + 1 \in 0..MaxMessages
<1> DEFINE g == Grown(c, frame)
<1>1. c.content \in Content /\ (~c.confirming => c.count = 0) /\ c.count \in 0..MaxMessages
      /\ c.confirming \in BOOLEAN /\ k \in Int /\ MaxMessages \in Int
  BY Constants DEF ChannelCounted, BrokerChannel
<1>2. frame.type \in {"Select", "Method", "Header", "Body"}
  BY DEF Frame
<1>3. CASE frame.type = "Select"
  <2>1. g = [c EXCEPT !.confirming = TRUE] /\ ~Completes(c, frame)
    BY <1>1, <1>3, GrownIs
  <2>2. g \in BrokerChannel /\ g.state = c.state /\ g.content = c.content /\ g.count = c.count /\ g.confirming
    BY <2>1 DEF BrokerChannel
  <2>3. ChannelCounted(c, k)
    BY <1>3
  <2> HIDE DEF g
  <2>4. ChannelCounted(g, k)
    BY <2>2, <2>3 DEF ChannelCounted, Busy
  <2>5. QED
    BY <2>1, <2>2, <2>4 DEF g
<1>4. CASE frame.type = "Method"
  <2> DEFINE content == [awaits |-> "Header", message |-> frame.message, tag |-> frame.tag,
                         missing |-> 0]
  <2>1. g = [c EXCEPT !.content = content] /\ c.content = Idle /\ ~Completes(c, frame)
    BY <1>1, <1>4, GrownIs
  <2>2. content \in Content /\ content # Idle
    BY <1>4 DEF Content, Frame, Idle
  <2>3. c.count + 1 <= k
    BY <1>1, <1>4, <2>1 DEF ChannelCounted, Busy
  <2> HIDE DEF content, g
  <2>4. g = Filled(c, content, c.count)
    BY <2>1 DEF BrokerChannel, Filled
  <2>7. c.count + (IF content = Idle THEN 0 ELSE 1) <= k
    BY <2>2, <2>3
  <2>8. /\ g \in BrokerChannel /\ g.state = c.state /\ g.content = content
        /\ g.count = c.count /\ g.confirming = c.confirming
    <3> DEFINE count == c.count
    <3>1. count \in 0..MaxMessages /\ g = Filled(c, content, count)
      BY <1>1, <2>4
    <3> HIDE DEF count
    <3>2. /\ g \in BrokerChannel /\ g.state = c.state /\ g.content = content
          /\ g.count = count /\ g.confirming = c.confirming
      BY <2>2, <3>1, WithContent
    <3>3. QED
      BY <3>2 DEF count
  <2>5. ChannelCounted(g, k)
    BY <1>1, <2>2, <2>7, <2>8 DEF ChannelCounted, Busy
  <2>6. QED
    BY <2>1, <2>5, <2>8 DEF g
<1>5. CASE frame.type \in {"Header", "Body"}
  <2> DEFINE missing == IF frame.type = "Header" THEN frame.size ELSE c.content.missing - frame.size
             content == Joined(c.content, missing)
             count == IF content = Idle THEN Number(c) ELSE c.count
  <2>9. /\ c.content # Idle
        /\ frame.type = "Body" => frame.size <= c.content.missing
        /\ LET joined == Joined(c.content, IF frame.type = "Header" THEN frame.size
                                           ELSE c.content.missing - frame.size)
           IN  /\ Completes(c, frame) <=> joined = Idle
               /\ Grown(c, frame) = Filled(c, joined, IF joined = Idle THEN Number(c) ELSE c.count)
    <3> HIDE DEF g
    <3> QED
      BY <1>1, <1>5, GrownIs
  <2>1. /\ c.content # Idle /\ (Completes(c, frame) <=> content = Idle)
        /\ g = Filled(c, content, count)
        /\ frame.type = "Body" => frame.size <= c.content.missing
    BY <2>9
  <2>2. missing \in Nat
    <3>1. frame.size \in Nat
      BY <1>5 DEF Frame
    <3>2. c.content.missing \in Nat
      BY <1>1, <2>1 DEF Content
    <3>3. QED
      BY <2>1, <1>5, <3>1, <3>2
  <2> HIDE DEF missing, g
  <2>3. content \in Content /\ c.content.message \in Messages /\ c.content.tag \in 0..MaxMessages
    BY <1>1, <2>1, <2>2, JoinedTyped
  <2>4. c.count + 1 <= k
    BY <1>1, <1>5, <2>1 DEF ChannelCounted, Busy
  <2> HIDE DEF content
  <2>5. count \in 0..MaxMessages /\ (~c.confirming => count = 0)
        /\ count + (IF content = Idle THEN 0 ELSE 1) <= k
    BY <1>1, <2>4 DEF Number
  <2> HIDE DEF count
  <2>10. /\ g \in BrokerChannel /\ g.state = c.state /\ g.content = content
         /\ g.count = count /\ g.confirming = c.confirming
    BY <2>1, <2>3, <2>5, WithContent
  <2>6. ChannelCounted(g, k)
    BY <2>3, <2>5, <2>10 DEF ChannelCounted, Busy
  <2>7. c.confirming => c.count + 1 \in 0..MaxMessages
    BY <1>1, <2>4
  <2>8. QED
    BY <2>3, <2>6, <2>7, <2>10 DEF g
<1>6. QED
  BY <1>2, <1>3, <1>4, <1>5

-----------------------------------------------------------------------------
(* What a call sends next, and what the broker makes of it.                *)

\* A call that has sent its header has `left` bytes to send, or is done.
LEMMA NextFrameSays ==
    ASSUME NEW call \in PublishCall, call.next \in {"Method", "Header", "Body"},
           call.next = "Body" => call.sent < call.size,
           call.next \in {"Method", "Header"} => call.sent = 0,
           frameMax \in Int, frameMax > 7
    PROVE  LET frame == NextFrame(call).frame
               after == NextFrame(call).call
               left == IF call.next = "Header" THEN frame.size
                       ELSE call.size - call.sent - frame.size
           IN  /\ frame \in Frame /\ frame.type = call.next
               /\ after \in PublishCall
               /\ after.exchange = call.exchange /\ after.message = call.message
               /\ after.tag = call.tag /\ after.size = call.size
               /\ call.next = "Method" => /\ frame.message = call.message /\ frame.tag = call.tag
                                          /\ after.next = "Header" /\ after.sent = 0
               /\ call.next # "Method" =>
                     /\ left \in Nat
                     /\ after.next = IF left = 0 THEN "done" ELSE "Body"
                     /\ left # 0 => after.sent < after.size /\ after.size - after.sent = left
               /\ call.next = "Header" => frame.size = call.size
               /\ call.next = "Body" => /\ frame.size <= call.size - call.sent
                                        /\ frame.size <= frameMax - 7
<1> DEFINE frame == NextFrame(call).frame
           after == NextFrame(call).call
<1>1. call.size \in Nat /\ call.sent \in Nat /\ call.message \in Messages /\ call.tag \in 0..MaxMessages
  BY Constants DEF PublishCall
<1>2. CASE call.next = "Method"
  <2>1. /\ frame = [type |-> "Method", message |-> call.message, tag |-> call.tag]
        /\ after = [call EXCEPT !.next = "Header"]
    BY <1>2 DEF NextFrame
  <2>2. frame \in Frame
    BY <1>1, <2>1 DEF Frame
  <2>3. /\ after \in PublishCall /\ after.next = "Header" /\ after.sent = call.sent
        /\ after.exchange = call.exchange /\ after.message = call.message
        /\ after.tag = call.tag /\ after.size = call.size
    BY <2>1 DEF PublishCall
  <2> HIDE DEF after
  <2>4. QED
    BY <1>2, <2>1, <2>2, <2>3 DEF after
<1>3. CASE call.next = "Header"
  <2>1. /\ frame = [type |-> "Header", size |-> call.size]
        /\ after = [call EXCEPT !.next = After(call, 0)]
    BY <1>3 DEF NextFrame
  <2>2. frame \in Frame
    BY <1>1, <2>1 DEF Frame
  <2>3. After(call, 0) = IF call.size = 0 THEN "done" ELSE "Body"
    BY <1>1 DEF After
  <2>4. After(call, 0) \in {"Body", "done"}
    BY <2>3
  <2>5. /\ after \in PublishCall /\ after.next = After(call, 0) /\ after.sent = call.sent
        /\ after.exchange = call.exchange /\ after.message = call.message
        /\ after.tag = call.tag /\ after.size = call.size
    BY <2>1, <2>4 DEF PublishCall
  <2> HIDE DEF after
  <2>6. frame.type = "Header" /\ frame.size = call.size
    BY <2>1
  <2> HIDE DEF frame
  <2>7. QED
    BY <1>1, <1>3, <2>2, <2>3, <2>5, <2>6 DEF after, frame
<1>4. CASE call.next = "Body"
  <2> DEFINE size == Min({Part, call.size - call.sent})
  <2>1. Part \in Int /\ Part >= 1 /\ Part = frameMax - 7
    BY DEF Part
  <2>2. call.size - call.sent \in Int /\ call.size - call.sent > 0
    BY <1>1, <1>4
  <2>3. size \in {Part, call.size - call.sent} /\ size <= Part /\ size <= call.size - call.sent
    BY <2>1, <2>2, MinOfTwo
  <2>4. /\ frame = [type |-> "Body", size |-> size]
        /\ after = [call EXCEPT !.sent = call.sent + Part, !.next = After(call, call.sent + Part)]
    BY <1>4 DEF NextFrame
  <2> HIDE DEF size
  <2>5. size \in Nat
    BY <2>1, <2>2, <2>3
  <2>6. frame \in Frame /\ frame.type = "Body" /\ frame.size = size
    BY <2>4, <2>5 DEF Frame
  <2>7. /\ After(call, call.sent + Part) = IF call.size - call.sent - size = 0 THEN "done" ELSE "Body"
        /\ call.size - call.sent - size # 0 => size = Part
    BY <1>1, <2>1, <2>2, <2>3 DEF After
  <2>8. After(call, call.sent + Part) \in {"Body", "done"} /\ call.sent + Part \in Nat
    BY <1>1, <2>1, <2>7
  <2>9. /\ after \in PublishCall /\ after.next = After(call, call.sent + Part)
        /\ after.sent = call.sent + Part
        /\ after.exchange = call.exchange /\ after.message = call.message
        /\ after.tag = call.tag /\ after.size = call.size
    BY <2>4, <2>8 DEF PublishCall
  <2> HIDE DEF after, frame
  <2>10. call.size - call.sent - size \in Nat
    BY <1>1, <2>3, <2>5
  <2>11. call.size - call.sent - size # 0 =>
             after.sent < after.size /\ after.size - after.sent = call.size - call.sent - size
    BY <1>1, <2>1, <2>7, <2>9, <2>10
  <2>12. QED
    BY <1>4, <2>1, <2>3, <2>6, <2>7, <2>9, <2>10, <2>11 DEF after, frame
<1>5. QED
  BY <1>2, <1>3, <1>4

BrokerTyped == [refused : BOOLEAN, channel : [Channels -> BrokerChannel]]

\* What becomes of a frame that is sent.
LEMMA SendSays ==
    ASSUME broker \in BrokerTyped, NEW n \in Channels, NEW frame, Send(n, frame)
    PROVE  LET c == broker.channel[n]
           IN  \/ /\ link = "down" \/ broker.refused \/ c.state = "closing"
                  /\ UNCHANGED <<broker, stored>>
               \/ /\ link # "down" /\ ~broker.refused /\ c.state = "open" /\ Expected(c, frame)
                  /\ broker' = [broker EXCEPT !.channel[n] = Grown(c, frame)]
                  /\ stored' = IF Completes(c, frame)
                               THEN stored \cup {[message |-> c.content.message,
                                                  tag |-> c.content.tag, number |-> Number(c)]}
                               ELSE stored
               \/ /\ link # "down" /\ ~broker.refused /\ c.state # "closing"
                  /\ ~(c.state = "open" /\ Expected(c, frame))
                  /\ broker' = [broker EXCEPT !.refused = TRUE] /\ UNCHANGED stored
<1>1. CASE link = "down"
  BY <1>1 DEF Send
<1>2. CASE link # "down"
  <2>1. BrokerTakes(n, frame)
    BY <1>2 DEF Send
  <2>2. CASE broker.refused \/ broker.channel[n].state = "closing"
    BY <2>1, <2>2 DEF BrokerTakes
  <2>3. CASE ~broker.refused /\ broker.channel[n].state = "open" /\ Expected(broker.channel[n], frame)
    BY <1>2, <2>1, <2>3 DEF BrokerTakes, Grown, Number
  <2>4. CASE /\ ~(broker.refused \/ broker.channel[n].state = "closing")
             /\ ~(broker.channel[n].state = "open" /\ Expected(broker.channel[n], frame))
    BY <1>2, <2>1, <2>4 DEF BrokerTakes
  <2>5. QED
    BY <2>2, <2>3, <2>4
<1>3. QED
  BY <1>1, <1>2

Stored == [message : Messages, tag : 0..MaxMessages, number : 0..MaxMessages]

LEMMA SendTyped ==
    ASSUME broker \in BrokerTyped, stored \subseteq Stored, NEW n \in Channels, NEW frame \in Frame,
           NEW k \in 0..MaxMessages, Send(n, frame),
           \A m \in Channels :
               ChannelCounted(broker.channel[m], IF frame.type = "Method" THEN k - 1 ELSE k)
    PROVE  /\ broker' \in BrokerTyped /\ stored' \subseteq Stored /\ stored \subseteq stored'
           /\ \A m \in Channels : ChannelCounted(broker'.channel[m], k)
           /\ \A m \in Channels : broker'.channel[m].state = broker.channel[m].state
           /\ \A m \in Channels : m # n => broker'.channel[m] = broker.channel[m]
<1> DEFINE c == broker.channel[n]
           g == Grown(c, frame)
<1>1. c \in BrokerChannel /\ broker.channel \in [Channels -> BrokerChannel]
  BY DEF BrokerTyped
<1>2. ASSUME NEW m \in Channels PROVE ChannelCounted(broker.channel[m], k)
  <2>1. ChannelCounted(broker.channel[m], IF frame.type = "Method" THEN k - 1 ELSE k)
    OBVIOUS
  <2>2. broker.channel[m].count \in Int
    BY <1>1, Constants DEF BrokerChannel
  <2>3. QED
    BY <2>1, <2>2, Constants DEF ChannelCounted, Busy
<1>3. CASE UNCHANGED <<broker, stored>>
  BY <1>2, <1>3
<1>4. CASE broker' = [broker EXCEPT !.refused = TRUE] /\ UNCHANGED stored
  <2>1. broker' \in BrokerTyped /\ broker'.channel = broker.channel
    BY <1>4 DEF BrokerTyped
  <2>2. QED
    BY <1>2, <1>4, <2>1
<1>5. CASE /\ Expected(c, frame) /\ broker' = [broker EXCEPT !.channel[n] = g]
           /\ stored' = IF Completes(c, frame)
                        THEN stored \cup {[message |-> c.content.message,
                                           tag |-> c.content.tag, number |-> Number(c)]}
                        ELSE stored
  <2>1. /\ g \in BrokerChannel /\ ChannelCounted(g, k) /\ g.state = c.state
        /\ Completes(c, frame) =>
              /\ c.content.message \in Messages /\ c.content.tag \in 0..MaxMessages
              /\ c.confirming => c.count + 1 \in 0..MaxMessages
    BY <1>1, <1>5, GrownTyped
  <2> HIDE DEF g, c
  <2>2. /\ broker' \in BrokerTyped /\ broker'.channel[n] = g
        /\ \A m \in Channels : m # n => broker'.channel[m] = broker.channel[m]
    BY <1>5, <2>1 DEF BrokerTyped
  <2>3. Completes(c, frame) => Number(c) \in 0..MaxMessages
    BY <2>1, Constants DEF Number
  <2>4. stored' \subseteq Stored /\ stored \subseteq stored'
    BY <1>5, <2>1, <2>3 DEF Stored
  <2>5. broker'.channel[n].state = broker.channel[n].state
    BY <2>1, <2>2 DEF c
  <2>6. QED
    BY <1>2, <2>1, <2>2, <2>4, <2>5
<1> HIDE DEF c, g
<1>6. QED
  BY <1>3, <1>4, <1>5, SendSays DEF c, g

-----------------------------------------------------------------------------
(* The types are kept.                                                     *)

LEMMA CountedMore ==
    ASSUME NEW c \in BrokerChannel, NEW k \in Int, NEW l \in Int, k <= l, ChannelCounted(c, k)
    PROVE  ChannelCounted(c, l)
<1>1. c.count \in Int
  BY Constants DEF BrokerChannel
<1>2. QED
  BY <1>1 DEF ChannelCounted, Busy

LEMMA PushCounted ==
    ASSUME NEW s \in Seq(Element), NEW e \in Element, NEW p \in Int, NEW q \in Int, StackCounted(s, p),
           TopOf(s).next # "Method", EntryCounted(e), e.next = "Method" => q >= 1
    PROVE  StackCounted(Append(s, e), q)
<1> DEFINE r == Append(s, e)
<1>1. /\ r \in Seq(Element) /\ Len(r) = Len(s) + 1 /\ r[Len(s) + 1] = e
      /\ \A i \in DOMAIN s : r[i] = s[i]
      /\ \A i \in DOMAIN r : i \in DOMAIN s \/ i = Len(s) + 1
  BY PushSays
<1> HIDE DEF r
<1>2. ASSUME NEW i \in DOMAIN s PROVE s[i].next # "Method"
  <2>1. s # <<>> /\ (s[i].next = "Method" => i = Len(s))
    BY DEF StackCounted
  <2>2. TopOf(s) = s[Len(s)]
    BY <2>1, TopSays
  <2>3. QED
    BY <2>1, <2>2
<1>3. StackCounted(r, q)
  <2> SUFFICES ASSUME NEW i \in DOMAIN r
               PROVE  EntryCounted(r[i]) /\ (r[i].next = "Method" => i = Len(r) /\ q >= 1)
    BY DEF StackCounted
  <2>1. CASE i \in DOMAIN s
    BY <1>1, <1>2, <2>1 DEF StackCounted
  <2>2. CASE i = Len(s) + 1
    BY <1>1, <2>2
  <2>3. QED
    BY <1>1, <2>1, <2>2
<1>4. QED
  BY <1>3 DEF r

LEMMA PopCounted ==
    ASSUME NEW s \in Seq(Element), s # <<>>, NEW p \in Int, StackCounted(s, p)
    PROVE  StackCounted(Front(s), p) /\ Begun(Front(s), p) = p
<1> DEFINE r == Front(s)
<1>1. /\ \A i \in DOMAIN r : i \in DOMAIN s /\ r[i] = s[i] /\ i # Len(s)
      /\ TopOf(r).next = "loop" \/ \E i \in DOMAIN r : TopOf(r) = s[i]
  BY PopSays
<1> HIDE DEF r
<1>2. \A i \in DOMAIN r : EntryCounted(r[i]) /\ s[i].next # "Method" /\ r[i].next # "Method"
  BY <1>1 DEF StackCounted
<1>3. TopOf(r).next # "Method"
  BY <1>1, <1>2
<1>4. QED
  BY <1>2, <1>3 DEF StackCounted, Begun, r

LEMMA ReplaceCounted ==
    ASSUME NEW s \in Seq(Element), s # <<>>, NEW e \in Element, NEW p \in Int, StackCounted(s, p),
           EntryCounted(e), e.next # "Method"
    PROVE  StackCounted(Append(Front(s), e), p) /\ Begun(Append(Front(s), e), p) = p
<1> DEFINE r == Append(Front(s), e)
<1>1. /\ Len(r) = Len(s) /\ DOMAIN r = DOMAIN s /\ TopOf(r) = e /\ r[Len(s)] = e
      /\ \A i \in DOMAIN s : i # Len(s) => r[i] = s[i]
  BY ReplaceSays
<1> HIDE DEF r
<1>2. Begun(r, p) = p
  BY <1>1 DEF Begun
<1>3. StackCounted(r, p)
  <2> SUFFICES ASSUME NEW i \in DOMAIN r
               PROVE  EntryCounted(r[i]) /\ (r[i].next = "Method" => i = Len(r) /\ p >= 1)
    BY DEF StackCounted
  <2>1. CASE i = Len(s)
    BY <1>1, <2>1
  <2>2. CASE i # Len(s)
    BY <1>1, <2>2 DEF StackCounted
  <2>3. QED
    BY <2>1, <2>2
<1>4. QED
  BY <1>2, <1>3 DEF r

\* What the proofs use of the types.
LEMMA TypedSays ==
    ASSUME Typed
    PROVE  /\ stack \in Seq(Element) /\ broker \in BrokerTyped /\ stored \subseteq Stored
           /\ broker.channel \in [Channels -> BrokerChannel] /\ broker.refused \in BOOLEAN
           /\ exchange \in [Exchanges -> Exchange] /\ channelOf \in [Exchanges -> Channels]
           /\ in \in Seq([type : {"OpenOk", "Close"}, channel : Channels])
           /\ published \in 0..MaxMessages /\ published \in Int /\ MaxMessages \in Int
           /\ frameMax \in Nat /\ frameMax > 7 /\ frameMax >= FrameMin /\ agreed \in Nat
           /\ \A n \in Channels : ChannelCounted(broker.channel[n], published)
           /\ \A x \in Exchanges : exchange[x].nextDeliveryTag <= published + 1
           /\ StackCounted(stack, published)
           /\ happened \in SUBSET Events /\ losses \in 0..MaxLosses
<1>1. /\ stack \in Seq(Element) /\ broker \in BrokerTyped /\ stored \subseteq Stored
      /\ exchange \in [Exchanges -> Exchange] /\ channelOf \in [Exchanges -> Channels]
      /\ in \in Seq([type : {"OpenOk", "Close"}, channel : Channels])
      /\ published \in 0..MaxMessages /\ agreed \in Nat
      /\ happened \in SUBSET Events /\ losses \in 0..MaxLosses
  BY DEF Typed, TypeOK, Element, BrokerTyped, Stored
<1>2. published \in Int /\ MaxMessages \in Int
  BY <1>1, Constants
<1>3. frameMax \in Nat /\ frameMax > 7 /\ frameMax >= FrameMin
  <2>1. frameMax \in {FrameDefault} \cup {f \in FrameMaxes \cup {FrameMin} : f >= FrameMin}
    BY DEF Typed, TypeOK
  <2>2. QED
    BY <2>1, Constants
<1>4. broker.channel \in [Channels -> BrokerChannel] /\ broker.refused \in BOOLEAN
  BY <1>1 DEF BrokerTyped
<1>5. ASSUME NEW n \in Channels PROVE ChannelCounted(broker.channel[n], published)
  <2>1. ChannelCounted(broker.channel[n], Begun(stack, published))
    BY DEF Typed, Counted
  <2>2. Begun(stack, published) \in Int /\ Begun(stack, published) <= published
    BY <1>2 DEF Begun
  <2>3. broker.channel[n] \in BrokerChannel
    BY <1>4
  <2>4. QED
    BY <1>2, <2>1, <2>2, <2>3, CountedMore
<1>6. /\ \A x \in Exchanges : exchange[x].nextDeliveryTag <= published + 1
      /\ StackCounted(stack, published)
  BY DEF Typed, Counted
<1>7. QED
  BY <1>1, <1>2, <1>3, <1>4, <1>5, <1>6

\* A channel without a content.
LEMMA ShutTyped ==
    ASSUME NEW state \in {"closed", "open", "closing"}, NEW k \in Nat
    PROVE  /\ Shut(state) \in BrokerChannel /\ ChannelCounted(Shut(state), k)
           /\ Shut(state).state = state /\ Shut(state).content = Idle
           /\ Shut(state).count = 0 /\ Shut(state).confirming = FALSE
<1>1. 0 \in 0..MaxMessages
  BY Constants
<1>2. Shut(state) \in BrokerChannel
  BY <1>1 DEF Shut, BrokerChannel, Idle
<1>3. /\ Shut(state).state = state /\ Shut(state).content = Idle
      /\ Shut(state).count = 0 /\ Shut(state).confirming = FALSE
  BY DEF Shut
<1>4. Idle \in Content
  BY DEF Content
<1>5. QED
  BY <1>2, <1>3, <1>4 DEF ChannelCounted, Busy

LEMMA NoBrokerTyped ==
    ASSUME NEW k \in Nat
    PROVE  /\ NoBroker \in BrokerTyped
           /\ \A n \in Channels : /\ ChannelCounted(NoBroker.channel[n], k)
                                  /\ NoBroker.channel[n] = Shut("closed")
           /\ NoBroker.refused = FALSE
<1>1. Shut("closed") \in BrokerChannel /\ ChannelCounted(Shut("closed"), k)
  BY ShutTyped
<1>2. /\ NoBroker.refused = FALSE
      /\ NoBroker.channel = [n \in Channels |-> Shut("closed")]
  BY DEF NoBroker
<1>3. NoBroker \in BrokerTyped
  BY <1>1 DEF NoBroker, BrokerTyped
<1>4. QED
  BY <1>1, <1>2, <1>3

\* The counts depend on these variables alone.
LEMMA CountedStays ==
    ASSUME Counted, UNCHANGED <<stack, published>>,
           broker'.channel = broker.channel \/ broker' = broker,
           \A x \in Exchanges : exchange'[x].nextDeliveryTag = exchange[x].nextDeliveryTag
    PROVE  Counted'
<1>1. broker'.channel = broker.channel
  OBVIOUS
<1>2. StackCounted(stack, published)'
  BY DEF Counted, StackCounted, EntryCounted
<1>3. Begun(stack, published)' = Begun(stack, published)
  BY DEF Begun, TopOf
<1>4. QED
  BY <1>1, <1>2, <1>3 DEF Counted, ChannelCounted, Busy

LEMMA CallTyped ==
    ASSUME Typed, Call
    PROVE  calls' \in 0..MaxCalls
  BY Constants DEF Typed, TypeOK, Call

LEMMA InitTyped == Init => Typed
<1> SUFFICES ASSUME Init PROVE Typed
  OBVIOUS
<1>1. channelOf \in [Exchanges -> Channels] /\ stack = <<>> /\ published = 0
  BY DEF Init, Exchanges, Channels
<1>2. /\ broker \in BrokerTyped
      /\ \A n \in Channels : ChannelCounted(broker.channel[n], 0)
  BY NoBrokerTyped DEF Init
<1>3. exchange \in [Exchanges -> Exchange] /\ \A x \in Exchanges : exchange[x].nextDeliveryTag = 0
  BY Constants DEF Init, Exchange
<1>4. TypeOK
  BY <1>1, <1>2, <1>3, Constants DEF Init, TypeOK, BrokerTyped, Events, FrameEvents
<1>5. Begun(stack, published) = 0
  BY <1>1 DEF Begun, TopOf
<1>6. Counted
  BY <1>1, <1>2, <1>3, <1>5 DEF Counted, StackCounted
<1>7. QED
  BY <1>4, <1>6 DEF Typed

LEMMA SetFrameMaxTyped == ASSUME Typed, SetFrameMax PROVE Typed'
<1>1. PICK size \in FrameMaxes :
         /\ frameMax' = Max({size, FrameMin})
         /\ happened' = IF link = "opening" /\ frameMax' # agreed
                        THEN happened \cup {"retuned"} ELSE happened
  BY DEF SetFrameMax
<1>2. frameMax' \in FrameMaxes \cup {FrameMin} /\ frameMax' >= FrameMin
  <2>1. size \in Int /\ FrameMin \in Int
    BY Constants
  <2>2. QED
    BY <1>1, <2>1, MaxOfTwo
<1>3. calls' \in 0..MaxCalls
  BY CallTyped DEF SetFrameMax
<1>4. UNCHANGED <<link, agreed, channelOf, exchange, stack, in, broker, stored, published, losses>>
  BY DEF SetFrameMax
<1>5. happened' \subseteq Events
  BY <1>1 DEF Typed, TypeOK, Events, FrameEvents
<1>6. TypeOK'
  BY <1>2, <1>3, <1>4, <1>5 DEF Typed, TypeOK
<1>7. Counted'
  BY <1>4, CountedStays DEF Typed
<1>8. QED
  BY <1>6, <1>7 DEF Typed

LEMMA SendEventsTyped ==
    ASSUME NEW x, NEW outer
    PROVE  SendEvents(x, outer) \subseteq FrameEvents
  BY DEF SendEvents, FrameEvents

LEMMA EventsAre ==
    FrameEvents \subseteq Events /\ "offline" \in Events /\ "enabling" \in Events
  BY DEF Events

\* The call that enableConfirms is in its wait.
NewEnable(x) == [exchange |-> x, next |-> "Tag"]

LEMMA EnableConfirmsSays ==
    ASSUME EnableConfirms
    PROVE  /\ UserRuns
           /\ UNCHANGED <<link, frameMax, agreed, channelOf, exchange, in, published, losses>>
           /\ \E x \in Exchanges :
                 /\ Send(channelOf[x], [type |-> "Select"])
                 /\ stack' = Append(stack, NewEnable(x))
                 /\ happened' = happened \cup SendEvents(x, stack)
                                   \cup (IF link = "down" THEN {"offline"} ELSE {})
  BY DEF EnableConfirms, NewEnable

LEMMA NewEnableSays ==
    ASSUME NEW x \in Exchanges
    PROVE  LET call == NewEnable(x)
           IN  /\ call \in Element /\ call.next = "Tag" /\ call.exchange = x
               /\ EntryCounted(call)
  BY DEF NewEnable, Element, EnableCall, EntryCounted

LEMMA EnableConfirmsTyped == ASSUME Typed, EnableConfirms PROVE Typed'
<1>1. PICK x \in Exchanges :
          /\ Send(channelOf[x], [type |-> "Select"])
          /\ stack' = Append(stack, NewEnable(x))
          /\ happened' = happened \cup SendEvents(x, stack)
                            \cup (IF link = "down" THEN {"offline"} ELSE {})
  BY EnableConfirmsSays
<1>2. /\ UserRuns /\ calls' \in 0..MaxCalls
      /\ UNCHANGED <<link, frameMax, agreed, channelOf, exchange, in, published, losses>>
  BY CallTyped, EnableConfirmsSays DEF EnableConfirms
<1> DEFINE frame == [type |-> "Select"]
<1>3. /\ broker' \in BrokerTyped /\ stored' \subseteq Stored
      /\ \A m \in Channels : ChannelCounted(broker'.channel[m], published)
  <2>1. frame \in Frame /\ frame.type # "Method"
    BY DEF Frame
  <2>2. channelOf[x] \in Channels /\ Send(channelOf[x], frame)
    BY <1>1, TypedSays
  <2> HIDE DEF frame
  <2>3. \A m \in Channels :
            ChannelCounted(broker.channel[m], IF frame.type = "Method" THEN published - 1 ELSE published)
    BY <2>1, TypedSays
  <2>4. broker \in BrokerTyped /\ stored \subseteq Stored /\ published \in 0..MaxMessages
    BY TypedSays
  <2>5. QED
    BY <2>1, <2>2, <2>3, <2>4, SendTyped
<1> DEFINE call == NewEnable(x)
<1>4. call \in Element /\ call.next # "Method" /\ EntryCounted(call) /\ stack' = Append(stack, call)
  BY <1>1, NewEnableSays
<1> HIDE DEF call
<1>5. happened' \subseteq Events
  BY <1>1, TypedSays, SendEventsTyped, EventsAre
<1>6. /\ stack \in Seq(Element) /\ published \in Int /\ StackCounted(stack, published)
      /\ \A y \in Exchanges : exchange[y].nextDeliveryTag <= published + 1
  BY TypedSays
<1>7. stack' \in Seq(Element) /\ TopOf(stack') = call
  BY <1>4, <1>6, PushSays
<1>8. StackCounted(stack', published)
  <2>1. TopOf(stack).next # "Method"
    BY <1>2, TopIs DEF UserRuns
  <2>2. QED
    BY <1>4, <1>6, <2>1, PushCounted
<1>9. Begun(stack', published) = published
  BY <1>4, <1>7 DEF Begun
<1>10. TypeOK'
  BY <1>2, <1>3, <1>5, <1>7 DEF Typed, TypeOK, BrokerTyped, Stored, Element
<1>11. Counted'
  BY <1>2, <1>3, <1>6, <1>8, <1>9 DEF Counted
<1>12. QED
  BY <1>10, <1>11 DEF Typed

\* The call that a publish begins with.
NewCall(x, message, size, tag, session) ==
    [exchange |-> x, message |-> message, size |-> size, tag |-> tag, next |-> "Method",
     sent |-> 0, session |-> session]

LEMMA PublishSays ==
    ASSUME Publish
    PROVE  \E x \in Exchanges, size \in BodySizes :
              /\ exchange' = [exchange EXCEPT ![x].nextDeliveryTag =
                     IF exchange[x].nextDeliveryTag > 0 THEN exchange[x].nextDeliveryTag + 1 ELSE 0]
              /\ stack' = Append(stack, NewCall(x, published + 1, size, exchange[x].nextDeliveryTag,
                                                losses))
              /\ happened' = happened \cup TagEvents(x, exchange[x].nextDeliveryTag)
  BY DEF Publish, NewCall

LEMMA NewCallSays ==
    ASSUME NEW x \in Exchanges, NEW message \in Messages, NEW size \in BodySizes,
           NEW tag \in 0..MaxMessages, NEW session \in 0..MaxLosses
    PROVE  LET call == NewCall(x, message, size, tag, session)
           IN  /\ call \in Element /\ call \in PublishCall /\ call.next = "Method"
               /\ call.exchange = x /\ call.message = message /\ call.tag = tag
               /\ EntryCounted(call)
  BY DEF NewCall, Element, PublishCall, EntryCounted

LEMMA PublishTyped == ASSUME Typed, Publish PROVE Typed'
<1>1. PICK x \in Exchanges, size \in BodySizes :
          /\ exchange' = [exchange EXCEPT ![x].nextDeliveryTag =
                 IF exchange[x].nextDeliveryTag > 0 THEN exchange[x].nextDeliveryTag + 1 ELSE 0]
          /\ stack' = Append(stack, NewCall(x, published + 1, size, exchange[x].nextDeliveryTag,
                                            losses))
          /\ happened' = happened \cup TagEvents(x, exchange[x].nextDeliveryTag)
  BY PublishSays
<1>2. /\ UserRuns /\ published < MaxMessages /\ published' = published + 1
      /\ UNCHANGED <<link, frameMax, agreed, channelOf, in, broker, stored, losses, calls>>
  BY DEF Publish
<1>3. /\ stack \in Seq(Element) /\ exchange \in [Exchanges -> Exchange]
      /\ published \in 0..MaxMessages /\ published \in Int /\ MaxMessages \in Int
      /\ \A y \in Exchanges : exchange[y].nextDeliveryTag <= published + 1
      /\ losses \in 0..MaxLosses /\ broker.channel \in [Channels -> BrokerChannel]
      /\ \A n \in Channels : ChannelCounted(broker.channel[n], published)
      /\ StackCounted(stack, published)
  BY TypedSays
<1> DEFINE tag == exchange[x].nextDeliveryTag
           call == NewCall(x, published + 1, size, tag, losses)
           next == IF tag > 0 THEN tag + 1 ELSE 0
<1>4. /\ tag \in 0..MaxMessages /\ next \in 0..(MaxMessages + 1) /\ next <= published + 2
      /\ published + 1 \in Messages /\ published' \in 0..MaxMessages
  BY <1>2, <1>3 DEF Exchange, Messages
<1>5. call \in Element /\ call.next = "Method" /\ EntryCounted(call)
  <2> HIDE DEF tag
  <2>1. QED
    BY <1>3, <1>4, NewCallSays
<1>6. stack' = Append(stack, call) /\ exchange' = [exchange EXCEPT ![x].nextDeliveryTag = next]
  BY <1>1
<1> HIDE DEF call, tag, next
<1>7. /\ exchange' \in [Exchanges -> Exchange]
      /\ \A y \in Exchanges : exchange'[y].nextDeliveryTag <= published' + 1
  <2>1. \A y \in Exchanges : exchange'[y].nextDeliveryTag =
                                 IF y = x THEN next ELSE exchange[y].nextDeliveryTag
    BY <1>3, <1>6 DEF Exchange
  <2>2. exchange' \in [Exchanges -> Exchange]
    BY <1>3, <1>4, <1>6 DEF Exchange
  <2>3. \A y \in Exchanges : exchange[y].nextDeliveryTag \in Int
    BY <1>3 DEF Exchange
  <2>4. next \in Int
    BY <1>4
  <2>5. QED
    BY <1>2, <1>3, <1>4, <2>1, <2>2, <2>3, <2>4
<1>8. stack' \in Seq(Element) /\ TopOf(stack') = call
  BY <1>3, <1>5, <1>6, PushSays
<1>14. happened' \subseteq Events
  BY <1>1, TypedSays, EventsAre DEF TagEvents
<1>9. TypeOK'
  BY <1>2, <1>4, <1>7, <1>8, <1>14 DEF Typed, TypeOK, Element
<1>10. StackCounted(stack', published')
  <2>1. TopOf(stack).next # "Method"
    BY <1>2, TopIs DEF UserRuns
  <2>2. published' \in Int /\ published' >= 1
    BY <1>2, <1>3
  <2>3. QED
    BY <1>3, <1>5, <1>6, <2>1, <2>2, PushCounted
<1>11. Begun(stack', published') = published
  BY <1>2, <1>3, <1>5, <1>8 DEF Begun
<1>12. Counted'
  BY <1>2, <1>3, <1>7, <1>10, <1>11 DEF Counted
<1>13. QED
  BY <1>9, <1>12 DEF Typed

\* What a step of a call does: the call, its frame, and the call after it.
LEMMA SendNextSays ==
    ASSUME Typed, SendNext
    PROVE  LET top == TopOf(stack)
               frame == NextFrame(top).frame
               after == NextFrame(top).call
           IN  /\ stack # <<>> /\ top = stack[Len(stack)] /\ Len(stack) \in DOMAIN stack
               /\ top \in PublishCall /\ top.next \in {"Method", "Header", "Body"}
               /\ top.exchange \in Exchanges /\ channelOf[top.exchange] \in Channels
               /\ top.next = "Body" => top.sent < top.size
               /\ top.next \in {"Method", "Header"} => top.sent = 0
               /\ Send(channelOf[top.exchange], frame)
               /\ stack' = Append(Front(stack), after)
               /\ happened' = happened \cup SendEvents(top.exchange, Front(stack))
               /\ UNCHANGED <<link, frameMax, agreed, channelOf, exchange, in, published, losses, calls>>
<1>1. /\ Top.next \in {"Method", "Header", "Body"}
      /\ Send(channelOf[Top.exchange], NextFrame(Top).frame)
      /\ stack' = Append(Front(stack), NextFrame(Top).call)
      /\ happened' = happened \cup SendEvents(Top.exchange, Front(stack))
      /\ UNCHANGED <<link, frameMax, agreed, channelOf, exchange, in, published, losses, calls>>
  BY DEF SendNext
<1> DEFINE top == TopOf(stack)
<1>2. Top = top
  BY TopIs
<1>3. stack \in Seq(Element) /\ channelOf \in [Exchanges -> Channels] /\ StackCounted(stack, published)
  BY TypedSays
<1> HIDE DEF top
<1>4. stack # <<>> /\ top = stack[Len(stack)] /\ Len(stack) \in DOMAIN stack /\ top \in PublishCall
  BY <1>1, <1>2, <1>3, TopSays DEF top
<1>5. top.exchange \in Exchanges
  BY <1>4 DEF PublishCall
<1>6. /\ top.next = "Body" => top.sent < top.size
      /\ top.next \in {"Method", "Header"} => top.sent = 0
  BY <1>3, <1>4 DEF StackCounted, EntryCounted
<1>7. QED
  BY <1>1, <1>2, <1>3, <1>4, <1>5, <1>6 DEF top

LEMMA SendNextTyped == ASSUME Typed, SendNext PROVE Typed'
<1> DEFINE top == TopOf(stack)
           frame == NextFrame(top).frame
           after == NextFrame(top).call
           n == channelOf[top.exchange]
<1>1. /\ stack # <<>> /\ top \in PublishCall /\ top.next \in {"Method", "Header", "Body"} /\ n \in Channels
      /\ top.next = "Body" => top.sent < top.size
      /\ top.next \in {"Method", "Header"} => top.sent = 0
      /\ Send(n, frame) /\ stack' = Append(Front(stack), after)
      /\ happened' = happened \cup SendEvents(top.exchange, Front(stack))
      /\ UNCHANGED <<link, frameMax, agreed, channelOf, exchange, in, published, losses, calls>>
  BY SendNextSays
<1>2. /\ stack \in Seq(Element) /\ broker \in BrokerTyped /\ stored \subseteq Stored
      /\ published \in 0..MaxMessages /\ published \in Int /\ frameMax \in Int /\ frameMax > 7
      /\ StackCounted(stack, published)
  BY TypedSays
<1> HIDE DEF top
<1>3. /\ frame \in Frame /\ frame.type = top.next /\ after \in PublishCall /\ after.next # "Method"
      /\ EntryCounted(after)
  <2>1. LET left == IF top.next = "Header" THEN frame.size ELSE top.size - top.sent - frame.size
        IN  /\ frame \in Frame /\ frame.type = top.next /\ after \in PublishCall
            /\ top.next = "Method" => after.next = "Header" /\ after.sent = 0
            /\ top.next # "Method" =>
                     /\ after.next = IF left = 0 THEN "done" ELSE "Body"
                     /\ left # 0 => after.sent < after.size
    BY <1>1, <1>2, NextFrameSays
  <2>2. QED
    BY <2>1 DEF EntryCounted
<1> HIDE DEF frame, after
<1>4. \A m \in Channels :
        ChannelCounted(broker.channel[m], IF frame.type = "Method" THEN published - 1 ELSE published)
  BY <1>3 DEF Typed, Counted, Begun, top
<1>5. /\ broker' \in BrokerTyped /\ stored' \subseteq Stored
      /\ \A m \in Channels : ChannelCounted(broker'.channel[m], published)
  <2> HIDE DEF n
  <2>1. QED
    BY <1>1, <1>2, <1>3, <1>4, SendTyped
<1>6. after \in Element
  BY <1>3 DEF Element
<1>7. stack' \in Seq(Element) /\ StackCounted(stack', published) /\ Begun(stack', published) = published
  BY <1>1, <1>2, <1>3, <1>6, ReplaceSays, ReplaceCounted
<1>8. happened' \subseteq Events
  BY <1>1, TypedSays, SendEventsTyped, EventsAre
<1>9. TypeOK'
  BY <1>1, <1>5, <1>7, <1>8 DEF Typed, TypeOK, BrokerTyped, Stored, Element
<1>10. Counted'
  BY <1>1, <1>5, <1>7 DEF Counted, Typed
<1>11. QED
  BY <1>9, <1>10 DEF Typed

\* A step that takes what runs innermost from the stack.
LEMMA PopTyped ==
    ASSUME Typed, stack # <<>>, stack' = Front(stack),
           UNCHANGED <<link, frameMax, agreed, channelOf, exchange, in, broker, stored, published,
                       happened, losses, calls>>
    PROVE  Typed'
<1>1. stack \in Seq(Element) /\ published \in Int /\ StackCounted(stack, published)
      /\ \A n \in Channels : ChannelCounted(broker.channel[n], published)
  BY TypedSays
<1>2. stack' \in Seq(Element) /\ StackCounted(stack', published) /\ Begun(stack', published) = published
  BY <1>1, PopSays, PopCounted
<1>3. TypeOK'
  BY <1>2 DEF Typed, TypeOK, Element
<1>4. Counted'
  BY <1>1, <1>2 DEF Counted, Typed
<1>5. QED
  BY <1>3, <1>4 DEF Typed

LEMMA TopIsThere ==
    ASSUME Typed, Top.next # "loop"
    PROVE  stack # <<>>
  BY TypedSays, TopIs, TopSays

LEMMA ReturnTyped == ASSUME Typed, Return PROVE Typed'
<1>1. Top.next = "done" /\ stack' = Front(stack)
      /\ UNCHANGED <<link, frameMax, agreed, channelOf, exchange, in, broker, stored, published,
                     happened, losses, calls>>
  BY DEF Return
<1>2. QED
  BY <1>1, TopIsThere, PopTyped

\* What counting says: the call that ends and the tag it sets.
LEMMA StartCountingSays ==
    ASSUME Typed, StartCounting
    PROVE  LET x == TopOf(stack).exchange
           IN  /\ stack # <<>> /\ TopOf(stack).next = "Tag" /\ x \in Exchanges
               /\ exchange' \in [Exchanges -> Exchange]
               /\ exchange'[x].nextDeliveryTag =
                      IF exchange[x].nextDeliveryTag = 0 THEN 1 ELSE exchange[x].nextDeliveryTag
               /\ \A y \in Exchanges : /\ y # x => exchange'[y] = exchange[y]
                                       /\ exchange'[y].opened = exchange[y].opened
               /\ stack' = Front(stack)
               /\ UNCHANGED <<link, frameMax, agreed, channelOf, in, broker, stored, published,
                              happened, losses, calls>>
<1> DEFINE x == TopOf(stack).exchange
           tag == IF exchange[x].nextDeliveryTag = 0 THEN 1 ELSE exchange[x].nextDeliveryTag
<1>1. /\ TopOf(stack).next = "Tag" /\ exchange' = [exchange EXCEPT ![x].nextDeliveryTag = tag]
      /\ stack' = Front(stack)
      /\ UNCHANGED <<link, frameMax, agreed, channelOf, in, broker, stored, published,
                     happened, losses, calls>>
  BY TopIs DEF StartCounting
<1>2. stack \in Seq(Element) /\ exchange \in [Exchanges -> Exchange]
  BY TypedSays
<1>3. stack # <<>> /\ TopOf(stack) \in EnableCall
  BY <1>1, <1>2, TopSays
<1>4. x \in Exchanges
  BY <1>3 DEF EnableCall
<1> HIDE DEF x
<1>5. tag \in 0..(MaxMessages + 1)
  BY <1>2, <1>4, Constants DEF Exchange
<1> HIDE DEF tag
<1>6. /\ exchange' \in [Exchanges -> Exchange] /\ exchange'[x].nextDeliveryTag = tag
      /\ \A y \in Exchanges : /\ y # x => exchange'[y] = exchange[y]
                              /\ exchange'[y].opened = exchange[y].opened
  BY <1>1, <1>2, <1>4, <1>5 DEF Exchange
<1>7. QED
  BY <1>1, <1>3, <1>4, <1>6 DEF x, tag

LEMMA StartCountingTyped == ASSUME Typed, StartCounting PROVE Typed'
<1> DEFINE x == TopOf(stack).exchange
<1>1. /\ stack # <<>> /\ x \in Exchanges /\ exchange' \in [Exchanges -> Exchange]
      /\ exchange'[x].nextDeliveryTag =
             IF exchange[x].nextDeliveryTag = 0 THEN 1 ELSE exchange[x].nextDeliveryTag
      /\ \A y \in Exchanges : y # x => exchange'[y] = exchange[y]
      /\ stack' = Front(stack)
      /\ UNCHANGED <<link, frameMax, agreed, channelOf, in, broker, stored, published, happened,
                     losses, calls>>
  BY StartCountingSays
<1> HIDE DEF x
<1>2. /\ stack \in Seq(Element) /\ published \in Int /\ StackCounted(stack, published)
      /\ published \in 0..MaxMessages
      /\ \A n \in Channels : ChannelCounted(broker.channel[n], published)
      /\ \A y \in Exchanges : exchange[y].nextDeliveryTag <= published + 1
  BY TypedSays
<1>3. stack' \in Seq(Element) /\ StackCounted(stack', published) /\ Begun(stack', published) = published
  BY <1>1, <1>2, PopSays, PopCounted
<1>4. \A y \in Exchanges : exchange'[y].nextDeliveryTag <= published + 1
  BY <1>1, <1>2
<1>5. TypeOK'
  BY <1>1, <1>3 DEF Typed, TypeOK, Element
<1>6. Counted'
  BY <1>1, <1>2, <1>3, <1>4 DEF Counted
<1>7. QED
  BY <1>5, <1>6 DEF Typed

LEMMA StopReadingTyped == ASSUME Typed, StopReading PROVE Typed'
<1>1. Top.next = "reading" /\ stack' = Front(stack)
      /\ UNCHANGED <<link, frameMax, agreed, channelOf, exchange, in, broker, stored, published,
                     happened, losses, calls>>
  BY DEF StopReading
<1>2. QED
  BY <1>1, TopIsThere, PopTyped

LEMMA ReadyReadSays == ReadyRead \in Element /\ ReadyRead.next = "reading" /\ EntryCounted(ReadyRead)
  BY DEF Element, ReadyRead, EntryCounted

LEMMA StartReadingTyped == ASSUME Typed, StartReading PROVE Typed'
<1>1. /\ link = "up" /\ CanRead /\ stack' = Append(stack, ReadyRead)
      /\ UNCHANGED <<link, frameMax, agreed, channelOf, exchange, in, broker, stored, published,
                     happened, losses, calls>>
  BY DEF StartReading
<1>2. stack \in Seq(Element) /\ published \in Int /\ StackCounted(stack, published)
      /\ \A n \in Channels : ChannelCounted(broker.channel[n], published)
  BY TypedSays
<1>3. stack' \in Seq(Element) /\ TopOf(stack') = ReadyRead
  <2> DEFINE e == ReadyRead
  <2>1. e \in Element /\ stack' = Append(stack, e)
    BY <1>1, ReadyReadSays
  <2> HIDE DEF e
  <2>2. stack' \in Seq(Element) /\ TopOf(stack') = e
    BY <1>2, <2>1, PushSays
  <2>3. QED
    BY <2>2 DEF e
<1>4. TopOf(stack).next # "Method"
  BY <1>1, <1>2, TopIs DEF CanRead, SocketRuns
<1>5. StackCounted(stack', published)
  <2> DEFINE e == ReadyRead
  <2>1. e \in Element /\ e.next # "Method" /\ EntryCounted(e) /\ stack' = Append(stack, e)
    BY <1>1, ReadyReadSays
  <2> HIDE DEF e
  <2>2. QED
    BY <1>2, <1>4, <2>1, PushCounted
<1>6. Begun(stack', published) = published
  BY <1>3, ReadyReadSays DEF Begun
<1>7. TypeOK'
  BY <1>1, <1>3 DEF Typed, TypeOK, Element
<1>8. Counted'
  BY <1>1, <1>2, <1>5, <1>6 DEF Counted, Typed
<1>9. QED
  BY <1>7, <1>8 DEF Typed

InFrame == [type : {"OpenOk", "Close"}, channel : Channels]

LEMMA ReceiveSays ==
    ASSUME Typed, NEW type, Receive(type)
    PROVE  /\ in # <<>> /\ Head(in) = in[1] /\ 1 \in DOMAIN in /\ in[1] \in InFrame
           /\ in[1].channel \in Channels /\ in[1].type = type
           /\ in' = Tail(in) /\ in' \in Seq(InFrame) /\ in \in Seq(InFrame)
<1>1. in # <<>> /\ Head(in).type = type /\ in' = Tail(in) /\ in \in Seq(InFrame)
  BY TypedSays DEF Receive, InFrame
<1>2. Tail(in) \in Seq(InFrame) /\ Head(in) = in[1] /\ in[1] \in InFrame /\ 1 \in DOMAIN in
  BY <1>1, TailEntries
<1>3. QED
  BY <1>1, <1>2 DEF InFrame

\* The exchanges of channel n open, or are closed.
Openings(n, opened) ==
    [x \in Exchanges |->
        IF channelOf[x] = n THEN [exchange[x] EXCEPT !.opened = opened] ELSE exchange[x]]

LEMMA OpeningsSay ==
    ASSUME exchange \in [Exchanges -> Exchange], NEW n, NEW opened \in BOOLEAN
    PROVE  /\ Openings(n, opened) \in [Exchanges -> Exchange]
           /\ \A x \in Exchanges :
                 /\ Openings(n, opened)[x].nextDeliveryTag = exchange[x].nextDeliveryTag
                 /\ Openings(n, opened)[x].opened = IF channelOf[x] = n THEN opened ELSE exchange[x].opened
  BY DEF Openings, Exchange

LEMMA ReceiveOpenOkTyped == ASSUME Typed, ReceiveOpenOk PROVE Typed'
<1>1. /\ Receive("OpenOk") /\ exchange' = Openings(Head(in).channel, TRUE)
      /\ UNCHANGED <<link, frameMax, agreed, channelOf, stack, broker, stored, published, happened,
                     losses, calls>>
  BY DEF ReceiveOpenOk, Openings
<1>2. in' \in Seq(InFrame)
  BY <1>1, ReceiveSays
<1>3. /\ exchange' \in [Exchanges -> Exchange]
      /\ \A x \in Exchanges : exchange'[x].nextDeliveryTag = exchange[x].nextDeliveryTag
  <2> DEFINE opened == TRUE
             n == Head(in).channel
  <2>1. exchange' = Openings(n, opened) /\ opened \in BOOLEAN
    BY <1>1
  <2> HIDE DEF opened, n
  <2>2. QED
    BY <2>1, OpeningsSay, TypedSays
<1>4. TypeOK'
  BY <1>1, <1>2, <1>3 DEF Typed, TypeOK, InFrame
<1>5. Counted'
  BY <1>1, <1>3, CountedStays DEF Typed
<1>6. QED
  BY <1>4, <1>5 DEF Typed

\* The broker has one of its channels in another state.
Reshut(n, state) == [broker EXCEPT !.channel[n] = Shut(state)]

LEMMA ReshutSays ==
    ASSUME broker \in BrokerTyped, NEW n \in Channels, NEW state \in {"closed", "open", "closing"}
    PROVE  /\ Reshut(n, state) \in BrokerTyped
           /\ Reshut(n, state).refused = broker.refused
           /\ \A m \in Channels :
                 Reshut(n, state).channel[m] = IF m = n THEN Shut(state) ELSE broker.channel[m]
<1>1. Shut(state) \in BrokerChannel
  BY ShutTyped, Constants
<1>2. QED
  BY <1>1 DEF Reshut, BrokerTyped

LEMMA ReshutTyped ==
    ASSUME Typed, NEW n \in Channels, NEW state \in {"closed", "open", "closing"},
           broker' = Reshut(n, state), UNCHANGED <<stack, published>>,
           \A x \in Exchanges : exchange'[x].nextDeliveryTag = exchange[x].nextDeliveryTag
    PROVE  broker' \in BrokerTyped /\ Counted'
<1>1. broker \in BrokerTyped /\ published \in Nat /\ StackCounted(stack, published) /\ published \in Int
  BY TypedSays
<1> DEFINE k == Begun(stack, published)
<1>2. k \in Nat
  <2>1. CASE TopOf(stack).next = "Method"
    <3>1. stack \in Seq(Element)
      BY TypedSays
    <3>2. TopOf(stack) = stack[Len(stack)] /\ Len(stack) \in DOMAIN stack
      BY <2>1, <3>1, TopSays
    <3>3. published >= 1
      BY <1>1, <2>1, <3>2 DEF StackCounted
    <3>4. QED
      BY <1>1, <2>1, <3>3 DEF Begun
  <2>2. CASE TopOf(stack).next # "Method"
    BY <1>1, <2>2 DEF Begun
  <2>3. QED
    BY <2>1, <2>2
<1>3. /\ broker' \in BrokerTyped
      /\ \A m \in Channels : broker'.channel[m] = IF m = n THEN Shut(state) ELSE broker.channel[m]
  BY <1>1, ReshutSays
<1>4. k' = k
  BY DEF Begun, TopOf
<1>5. \A m \in Channels : ChannelCounted(broker.channel[m], k)
  BY DEF Typed, Counted
<1> HIDE DEF k
<1>6. ChannelCounted(Shut(state), k)
  BY <1>2, ShutTyped
<1>7. \A m \in Channels : ChannelCounted(broker'.channel[m], k)
  BY <1>3, <1>5, <1>6
<1>8. StackCounted(stack, published)'
  BY <1>1 DEF StackCounted, EntryCounted
<1>9. Counted'
  BY <1>4, <1>7, <1>8 DEF Typed, Counted, k
<1>10. QED
  BY <1>3, <1>9

LEMMA ReceiveCloseTyped == ASSUME Typed, ReceiveClose PROVE Typed'
<1> DEFINE n == Head(in).channel
<1>1. /\ Receive("Close") /\ exchange' = Openings(n, FALSE)
      /\ broker' = IF broker.refused THEN broker ELSE Reshut(n, "closed")
      /\ UNCHANGED <<link, frameMax, agreed, channelOf, stack, stored, published, happened,
                     losses, calls>>
  BY DEF ReceiveClose, Openings, Reshut
<1>2. in' \in Seq(InFrame) /\ n \in Channels
  BY <1>1, ReceiveSays
<1>3. /\ exchange' \in [Exchanges -> Exchange]
      /\ \A x \in Exchanges : exchange'[x].nextDeliveryTag = exchange[x].nextDeliveryTag
  BY <1>1, OpeningsSay, TypedSays
<1> HIDE DEF n
<1>4. broker' \in BrokerTyped /\ Counted'
  <2>1. CASE broker.refused
    BY <1>1, <1>3, <2>1, CountedStays, TypedSays DEF Typed
  <2>2. CASE ~broker.refused
    BY <1>1, <1>2, <1>3, <2>2, ReshutTyped
  <2>3. QED
    BY <2>1, <2>2
<1>5. TypeOK'
  BY <1>1, <1>2, <1>3, <1>4 DEF Typed, TypeOK, InFrame, BrokerTyped
<1>6. QED
  BY <1>4, <1>5 DEF Typed

LEMMA BrokerClosesSays ==
    ASSUME BrokerCloses
    PROVE  \E n \in Channels :
              /\ broker.channel[n].state = "open"
              /\ broker' = Reshut(n, "closing")
              /\ in' = Append(in, [type |-> "Close", channel |-> n])
  BY DEF BrokerCloses, Reshut

LEMMA BrokerClosesTyped == ASSUME Typed, BrokerCloses PROVE Typed'
<1>1. PICK n \in Channels : /\ broker' = Reshut(n, "closing")
                            /\ in' = Append(in, [type |-> "Close", channel |-> n])
  BY BrokerClosesSays
<1>2. /\ UNCHANGED <<link, frameMax, agreed, channelOf, exchange, stack, stored, published, happened,
                     losses>>
      /\ calls' \in 0..MaxCalls
  BY CallTyped DEF BrokerCloses
<1>3. broker' \in BrokerTyped /\ Counted'
  BY <1>1, <1>2, ReshutTyped
<1>4. in' \in Seq(InFrame)
  <2>1. in \in Seq(InFrame) /\ [type |-> "Close", channel |-> n] \in InFrame
    BY TypedSays DEF InFrame
  <2>2. QED
    BY <1>1, <2>1
<1>5. TypeOK'
  BY <1>2, <1>3, <1>4 DEF Typed, TypeOK, InFrame, BrokerTyped
<1>6. QED
  BY <1>3, <1>5 DEF Typed

LEMMA TunedTyped == ASSUME Typed, Tuned PROVE Typed'
<1>1. PICK offer \in FrameMaxes : /\ Negotiated(offer) <= offer
                                  /\ frameMax' = Negotiated(offer) /\ agreed' = Negotiated(offer)
  BY DEF Tuned
<1>2. /\ link' = "opening" /\ broker' = NoBroker /\ stack = <<>>
      /\ UNCHANGED <<channelOf, exchange, stack, in, stored, published, happened, losses, calls>>
  BY DEF Tuned
<1>3. frameMax' = frameMax /\ agreed' = frameMax /\ agreed' \in Nat
  BY <1>1, TypedSays DEF Negotiated
<1>4. /\ published \in Nat /\ published \in Int /\ stack \in Seq(Element)
      /\ StackCounted(stack, published)
  BY TypedSays, Constants
<1>5. broker' \in BrokerTyped /\ \A n \in Channels : ChannelCounted(broker'.channel[n], published)
  BY <1>2, <1>4, NoBrokerTyped
<1>6. Begun(stack', published') = published /\ StackCounted(stack', published')
  BY <1>2, <1>4 DEF Begun, TopOf
<1>7. TypeOK'
  BY <1>2, <1>3, <1>5 DEF Typed, TypeOK, BrokerTyped
<1>8. Counted'
  BY <1>2, <1>5, <1>6 DEF Counted, Typed
<1>9. QED
  BY <1>7, <1>8 DEF Typed

\* The openOks for these channels, in any order.
LEMMA OpenOksAre ==
    ASSUME NEW opened \in SUBSET Channels
    PROVE  LET s == SetToSeq([type : {"OpenOk"}, channel : opened])
           IN  /\ s \in Seq(InFrame)
               /\ \A i \in DOMAIN s : s[i].type = "OpenOk" /\ s[i].channel \in opened
<1> DEFINE F == [type : {"OpenOk"}, channel : opened]
           s == SetToSeq(F)
<1>1. IsFiniteSet(F)
  <2> DEFINE g == [n \in opened |-> [type |-> "OpenOk", channel |-> n]]
  <2>1. IsFiniteSet(opened)
    <3>1. IsFiniteSet(1..NumExchanges)
      BY FS_Interval, Constants
    <3>2. QED
      BY <3>1, FS_Subset DEF Channels
  <2>2. g \in [opened -> F]
    OBVIOUS
  <2>3. \A a, b \in opened : g[a] = g[b] => a = b
    OBVIOUS
  <2>4. \A f \in F : \E n \in opened : g[n] = f
    OBVIOUS
  <2> HIDE DEF g, F
  <2>5. g \in Bijection(opened, F)
    BY <2>2, <2>3, <2>4 DEF Bijection, Injection, Surjection, IsInjective
  <2>6. QED
    BY <2>1, <2>5, FS_Bijection DEF ExistsBijection
<1>2. F \subseteq InFrame /\ \A f \in F : f.type = "OpenOk" /\ f.channel \in opened
  BY DEF InFrame
<1> HIDE DEF F
<1>3. s \in Seq(F) /\ \A i \in DOMAIN s : s[i] \in F
  BY <1>1, SetToSeqEntries
<1> HIDE DEF s
<1>4. s \in Seq(InFrame)
  BY <1>2, <1>3
<1>5. QED
  BY <1>2, <1>3, <1>4 DEF s, F

Opening(n) == {x \in OnChannel(n) : exchange[x].needOpen /\ ~exchange[x].opened}

Opened == {n \in Channels : Opening(n) # {}}

LEMMA LinkUpSays ==
    ASSUME Typed, LinkUp
    PROVE  /\ link = "opening" /\ ~broker.refused /\ CanRead /\ link' = "up"
           /\ broker'.refused = \E n \in Channels, x, y \in Exchanges :
                                    x # y /\ {x, y} \subseteq Opening(n)
           /\ broker' \in BrokerTyped
           /\ \A n \in Channels :
                 /\ broker'.channel[n] = Shut(IF n \in Opened THEN "open" ELSE "closed")
                 /\ broker'.channel[n].state = IF n \in Opened THEN "open" ELSE "closed"
                 /\ \A k \in Nat : ChannelCounted(broker'.channel[n], k)
           /\ in' \in Seq(InFrame)
           /\ \A i \in DOMAIN in' : in'[i].type = "OpenOk" /\ in'[i].channel \in Opened
           /\ UNCHANGED <<frameMax, agreed, channelOf, exchange, stack, stored, published,
                          happened, losses, calls>>
<1> DEFINE refused == \E n \in Channels, x, y \in Exchanges : x # y /\ {x, y} \subseteq Opening(n)
           StateOf(n) == IF n \in Opened THEN "open" ELSE "closed"
<1>1. /\ broker' = [refused |-> refused, channel |-> [n \in Channels |-> Shut(StateOf(n))]]
      /\ in' = SetToSeq([type : {"OpenOk"}, channel : Opened])
  BY DEF LinkUp, Opening, Opened
<1>2. /\ link = "opening" /\ ~broker.refused /\ CanRead /\ link' = "up"
      /\ UNCHANGED <<frameMax, agreed, channelOf, exchange, stack, stored, published,
                          happened, losses, calls>>
  BY DEF LinkUp
<1>3. Opened \in SUBSET Channels
  BY DEF Opened
<1>4. in' \in Seq(InFrame) /\ \A i \in DOMAIN in' : in'[i].type = "OpenOk" /\ in'[i].channel \in Opened
  BY <1>1, <1>3, OpenOksAre
<1>5. \A n \in Channels : StateOf(n) \in {"closed", "open", "closing"}
  OBVIOUS
<1>6. ASSUME NEW n \in Channels
      PROVE  /\ Shut(StateOf(n)) \in BrokerChannel /\ Shut(StateOf(n)).state = StateOf(n)
             /\ \A k \in Nat : ChannelCounted(Shut(StateOf(n)), k)
  <2> DEFINE state == StateOf(n)
  <2>1. state \in {"closed", "open", "closing"}
    BY <1>5
  <2> HIDE DEF state
  <2>2. /\ Shut(state) \in BrokerChannel /\ Shut(state).state = state
        /\ \A k \in Nat : ChannelCounted(Shut(state), k)
    BY <2>1, ShutTyped, Constants
  <2>3. QED
    BY <2>2 DEF state
<1> HIDE DEF StateOf
<1>7. refused \in BOOLEAN
  OBVIOUS
<1> HIDE DEF refused
<1>8. /\ broker' \in BrokerTyped /\ broker'.refused = refused
      /\ \A n \in Channels : broker'.channel[n] = Shut(StateOf(n))
  BY <1>1, <1>6, <1>7 DEF BrokerTyped
<1>9. \A n \in Channels :
          /\ broker'.channel[n].state = StateOf(n)
          /\ \A k \in Nat : ChannelCounted(broker'.channel[n], k)
  BY <1>6, <1>8
<1>10. QED
  BY <1>2, <1>4, <1>8, <1>9 DEF refused, StateOf

LEMMA LinkUpTyped == ASSUME Typed, LinkUp PROVE Typed'
<1>1. /\ link' = "up" /\ broker' \in BrokerTyped /\ CanRead
      /\ \A n \in Channels : \A k \in Nat : ChannelCounted(broker'.channel[n], k)
      /\ in' \in Seq(InFrame)
      /\ UNCHANGED <<frameMax, agreed, channelOf, exchange, stack, stored, published,
                          happened, losses, calls>>
  BY LinkUpSays
<1>2. published \in Nat /\ StackCounted(stack, published)
  BY TypedSays, Constants
<1>3. TopOf(stack).next # "Method"
  BY <1>1, TopIs DEF CanRead, SocketRuns
<1>4. Begun(stack', published') = published
  BY <1>1, <1>3 DEF Begun
<1>5. TypeOK'
  BY <1>1 DEF Typed, TypeOK, BrokerTyped, InFrame
<1>6. Counted'
  BY <1>1, <1>2, <1>4 DEF Counted, Typed
<1>7. QED
  BY <1>5, <1>6 DEF Typed

LEMMA LinkLostSays ==
    ASSUME Typed, LinkLost
    PROVE  /\ link # "down" /\ SocketRuns /\ link' = "down"
           /\ exchange' \in [Exchanges -> Exchange]
           /\ \A x \in Exchanges : exchange'[x].nextDeliveryTag = 0 /\ ~exchange'[x].opened
           /\ in' = <<>> /\ broker' = NoBroker
           /\ happened' = IF \E x \in Exchanges : Enabling(x, stack)
                          THEN happened \cup {"enabling"} ELSE happened
           /\ UNCHANGED <<frameMax, channelOf, stack, stored, published, calls>>
<1>1. /\ link # "down" /\ SocketRuns /\ link' = "down"
      /\ exchange' = [x \in Exchanges |->
             [opened |-> FALSE, nextDeliveryTag |-> 0,
              needOpen |-> exchange[x].opened \/ exchange[x].needOpen]]
      /\ in' = <<>> /\ broker' = NoBroker
      /\ happened' = IF \E x \in Exchanges : Enabling(x, stack)
                     THEN happened \cup {"enabling"} ELSE happened
      /\ UNCHANGED <<frameMax, channelOf, stack, stored, published, calls>>
  BY DEF LinkLost
<1>2. 0 \in 0..(MaxMessages + 1)
  BY Constants
<1>3. \A x \in Exchanges : (exchange[x].opened \/ exchange[x].needOpen) \in BOOLEAN
  OBVIOUS
<1>4. exchange' \in [Exchanges -> Exchange]
  BY <1>1, <1>2, <1>3 DEF Exchange
<1>5. \A x \in Exchanges : exchange'[x].nextDeliveryTag = 0 /\ ~exchange'[x].opened
  BY <1>1
<1>6. QED
  BY <1>1, <1>4, <1>5

LEMMA LinkLostTyped == ASSUME Typed, LinkLost PROVE Typed'
<1>1. /\ link' = "down" /\ exchange' \in [Exchanges -> Exchange] /\ SocketRuns
      /\ \A x \in Exchanges : exchange'[x].nextDeliveryTag = 0
      /\ in' = <<>> /\ broker' = NoBroker /\ happened' \subseteq happened \cup {"enabling"}
      /\ UNCHANGED <<frameMax, channelOf, stack, stored, published, calls>>
  BY LinkLostSays
<1>2. losses' \in 0..MaxLosses /\ agreed' = 0
  BY Constants DEF Typed, TypeOK, LinkLost
<1>3. published \in Nat /\ StackCounted(stack, published)
  BY TypedSays, Constants
<1>4. broker' \in BrokerTyped /\ \A n \in Channels : ChannelCounted(broker'.channel[n], published)
  BY <1>1, <1>3, NoBrokerTyped
<1>5. TopOf(stack).next # "Method"
  BY <1>1, TopIs DEF SocketRuns
<1>6. Begun(stack', published') = published
  BY <1>1, <1>5 DEF Begun
<1>10. happened' \subseteq Events
  BY <1>1, TypedSays, EventsAre
<1>7. TypeOK'
  BY <1>1, <1>2, <1>4, <1>10 DEF Typed, TypeOK, BrokerTyped
<1>8. Counted'
  BY <1>1, <1>3, <1>4, <1>6 DEF Counted, Typed
<1>9. QED
  BY <1>7, <1>8 DEF Typed

LEMMA StutterTyped == ASSUME Typed, UNCHANGED vars PROVE Typed'
<1>1. TypeOK'
  BY DEF Typed, TypeOK, vars
<1>2. Counted'
  BY CountedStays DEF Typed, vars
<1>3. QED
  BY <1>1, <1>2 DEF Typed

LEMMA NextTyped == Typed /\ [Next]_vars => Typed'
<1> SUFFICES ASSUME Typed, [Next]_vars PROVE Typed'
  OBVIOUS
<1>1. CASE User
  BY <1>1, SetFrameMaxTyped, EnableConfirmsTyped, PublishTyped DEF User
<1>2. CASE SendNext \/ Return \/ StartCounting \/ BrokerCloses
  BY <1>2, SendNextTyped, ReturnTyped, StartCountingTyped, BrokerClosesTyped
<1>3. CASE Reading
  BY <1>3, StartReadingTyped, ReceiveOpenOkTyped, ReceiveCloseTyped, StopReadingTyped DEF Reading
<1>4. CASE Tuned \/ LinkUp \/ LinkLost
  BY <1>4, TunedTyped, LinkUpTyped, LinkLostTyped
<1>5. CASE UNCHANGED vars
  BY <1>5, StutterTyped
<1>6. QED
  BY <1>1, <1>2, <1>3, <1>4, <1>5 DEF Next

-----------------------------------------------------------------------------
(* What is open.  An exchange takes its channel for open only while it is, *)
(* or while the close of the broker is on its way.                         *)

\* The frames on their way for channel n, which is in this state: a close is
\* the last of them.
Answers(s, n, state) ==
    \A i \in DOMAIN s :
        s[i].channel = n =>
            /\ state # "closed"
            /\ s[i].type = "Close" =>
                  /\ state = "closing"
                  /\ \A j \in DOMAIN s :
                        s[j].channel = n /\ j # i => s[j].type = "OpenOk" /\ j < i

Silent ==
    /\ in = <<>>
    /\ \A x \in Exchanges : ~exchange[x].opened
    /\ \A n \in Channels : broker.channel[n] = Shut("closed")

OpenInv ==
    /\ link # "up" => Silent
    /\ \A x \in Exchanges : exchange[x].opened => broker.channel[channelOf[x]].state # "closed"
    /\ \A n \in Channels : Answers(in, n, broker.channel[n].state)

LEMMA AnswersEmpty ==
    ASSUME NEW n, NEW state
    PROVE  Answers(<<>>, n, state)
  BY DEF Answers

LEMMA AnswersTail ==
    ASSUME NEW s \in Seq(InFrame), s # <<>>, NEW n, NEW state, Answers(s, n, state)
    PROVE  /\ Answers(Tail(s), n, state)
           /\ s[1].channel = n /\ s[1].type = "OpenOk" => state # "closed"
           /\ s[1].channel = n /\ s[1].type = "Close" =>
                 \A other : Answers(Tail(s), n, other)
<1> DEFINE r == Tail(s)
<1>1. /\ 1 \in DOMAIN s
      /\ \A i \in DOMAIN r : i + 1 \in DOMAIN s /\ r[i] = s[i + 1]
      /\ \A i \in DOMAIN r : i \in Int /\ i >= 1
  BY TailEntries
<1> HIDE DEF r
<1>2. Answers(r, n, state)
  <2> SUFFICES ASSUME NEW i \in DOMAIN r, r[i].channel = n
               PROVE  /\ state # "closed"
                      /\ r[i].type = "Close" =>
                            /\ state = "closing"
                            /\ \A j \in DOMAIN r :
                                  r[j].channel = n /\ j # i => r[j].type = "OpenOk" /\ j < i
    BY DEF Answers
  <2>1. i + 1 \in DOMAIN s /\ s[i + 1] = r[i]
    BY <1>1
  <2>2. /\ state # "closed"
        /\ s[i + 1].type = "Close" =>
              /\ state = "closing"
              /\ \A j \in DOMAIN s :
                    s[j].channel = n /\ j # i + 1 => s[j].type = "OpenOk" /\ j < i + 1
    BY <2>1 DEF Answers
  <2>3. ASSUME r[i].type = "Close", NEW j \in DOMAIN r, r[j].channel = n, j # i
        PROVE  r[j].type = "OpenOk" /\ j < i
    <3>1. j + 1 \in DOMAIN s /\ s[j + 1] = r[j] /\ i \in Int /\ j \in Int
      BY <1>1
    <3>2. j + 1 # i + 1
      BY <2>3, <3>1
    <3>3. s[j + 1].type = "OpenOk" /\ j + 1 < i + 1
      BY <2>1, <2>2, <2>3, <3>1, <3>2
    <3>4. QED
      BY <3>1, <3>3
  <2>4. QED
    BY <2>1, <2>2, <2>3
<1>3. s[1].channel = n /\ s[1].type = "OpenOk" => state # "closed"
  BY <1>1 DEF Answers
<1>4. ASSUME s[1].channel = n, s[1].type = "Close", NEW other
      PROVE  Answers(r, n, other)
  <2> SUFFICES ASSUME NEW i \in DOMAIN r, r[i].channel = n
               PROVE  FALSE
    BY DEF Answers
  <2>1. i + 1 \in DOMAIN s /\ s[i + 1] = r[i] /\ i \in Int /\ i >= 1
    BY <1>1
  <2>2. \A j \in DOMAIN s : s[j].channel = n /\ j # 1 => j < 1
    BY <1>1, <1>4 DEF Answers
  <2>3. i + 1 < 1
    BY <2>1, <2>2
  <2>4. QED
    BY <2>1, <2>3
<1>5. QED
  BY <1>2, <1>3, <1>4 DEF r

\* A close for the channel comes after what is on its way.
LEMMA AnswersClose ==
    ASSUME NEW s \in Seq(InFrame), NEW n \in Channels, Answers(s, n, "open")
    PROVE  Answers(Append(s, [type |-> "Close", channel |-> n]), n, "closing")
<1> DEFINE e == [type |-> "Close", channel |-> n]
           r == Append(s, e)
<1>1. e \in InFrame /\ e.type = "Close"
  BY DEF InFrame
<1> HIDE DEF e
<1>2. /\ DOMAIN r = 1..(Len(s) + 1) /\ r[Len(s) + 1] = e
      /\ DOMAIN s = 1..Len(s) /\ Len(s) \in Nat
      /\ \A i \in DOMAIN s : r[i] = s[i]
  BY <1>1, AppendEntries
<1> HIDE DEF r
<1>3. ASSUME NEW i \in DOMAIN r, i # Len(s) + 1
      PROVE  i \in DOMAIN s /\ r[i] = s[i] /\ i < Len(s) + 1
  BY <1>2, <1>3
<1>4. ASSUME NEW i \in DOMAIN s, s[i].channel = n
      PROVE  s[i].type = "OpenOk"
  <2>1. s[i].type # "Close"
    BY <1>4 DEF Answers
  <2>2. s[i].type \in {"OpenOk", "Close"}
    <3>1. s[i] \in InFrame
      OBVIOUS
    <3>2. QED
      BY <3>1 DEF InFrame
  <2>3. QED
    BY <2>1, <2>2
<1>5. Answers(r, n, "closing")
  <2> SUFFICES ASSUME NEW i \in DOMAIN r, r[i].channel = n
               PROVE  r[i].type = "Close" =>
                         \A j \in DOMAIN r :
                             r[j].channel = n /\ j # i => r[j].type = "OpenOk" /\ j < i
    BY DEF Answers
  <2>1. CASE i = Len(s) + 1
    BY <1>3, <1>4, <2>1
  <2>2. CASE i # Len(s) + 1
    <3>1. r[i].type = "OpenOk"
      BY <1>3, <1>4, <2>2
    <3>2. QED
      BY <3>1
  <2>3. QED
    BY <2>1, <2>2
<1>6. QED
  BY <1>5 DEF r, e

LEMMA AnswersOther ==
    ASSUME NEW s \in Seq(InFrame), NEW e \in InFrame, NEW n, e.channel # n, NEW state,
           Answers(s, n, state)
    PROVE  Answers(Append(s, e), n, state)
<1> DEFINE r == Append(s, e)
<1>1. /\ DOMAIN r = 1..(Len(s) + 1) /\ r[Len(s) + 1] = e
      /\ DOMAIN s = 1..Len(s) /\ Len(s) \in Nat
      /\ \A i \in DOMAIN s : r[i] = s[i]
  BY AppendEntries
<1> HIDE DEF r
<1>2. ASSUME NEW i \in DOMAIN r, r[i].channel = n
      PROVE  i \in DOMAIN s /\ r[i] = s[i]
  BY <1>1, <1>2
<1>3. Answers(r, n, state)
  BY <1>2 DEF Answers
<1>4. QED
  BY <1>3 DEF r

\* A step that opens and closes nothing.
LEMMA OpenStays ==
    ASSUME OpenInv, UNCHANGED <<link, in, channelOf>>, Typed,
           \A x \in Exchanges : exchange'[x].opened = exchange[x].opened,
           \A n \in Channels : /\ broker'.channel[n].state = broker.channel[n].state
                               /\ link # "up" => broker'.channel[n] = broker.channel[n]
    PROVE  OpenInv'
<1>1. link' # "up" => Silent'
  BY DEF OpenInv, Silent
<1>2. \A x \in Exchanges : exchange'[x].opened => broker'.channel[channelOf'[x]].state # "closed"
  <2>1. \A x \in Exchanges : channelOf[x] \in Channels
    BY TypedSays
  <2>2. QED
    BY <2>1 DEF OpenInv
<1>3. \A n \in Channels : Answers(in', n, broker'.channel[n].state)
  BY DEF OpenInv
<1>4. QED
  BY <1>1, <1>2, <1>3 DEF OpenInv

\* Sending opens and closes nothing.
LEMMA SendOpens ==
    ASSUME Typed, OpenInv, NEW n \in Channels, NEW frame \in Frame,
           frame.type = "Method" => TopOf(stack).next = "Method", Send(n, frame)
    PROVE  \A m \in Channels : /\ broker'.channel[m].state = broker.channel[m].state
                               /\ link # "up" => broker'.channel[m] = broker.channel[m]
<1>1. broker \in BrokerTyped /\ broker.channel \in [Channels -> BrokerChannel]
  BY TypedSays
<1> DEFINE c == broker.channel[n]
<1>2. CASE broker' = broker
  BY <1>2
<1>3. CASE broker' = [broker EXCEPT !.refused = TRUE]
  <2>1. broker'.channel = broker.channel
    BY <1>1, <1>3 DEF BrokerTyped
  <2>2. QED
    BY <2>1
<1>4. CASE c.state = "open" /\ Expected(c, frame) /\ broker' = [broker EXCEPT !.channel[n] = Grown(c, frame)]
  <2>1. link = "up"
    BY <1>4, ShutTyped, Constants DEF OpenInv, Silent
  <2> DEFINE k == published
  <2>2. k \in 0..MaxMessages
    BY TypedSays
  <2>3. ChannelCounted(c, IF frame.type = "Method" THEN k - 1 ELSE k)
    BY TypedSays DEF Typed, Counted, Begun
  <2>4. c \in BrokerChannel
    BY <1>1
  <2> HIDE DEF c, k
  <2>5. Grown(c, frame).state = c.state
    BY <1>4, <2>2, <2>3, <2>4, GrownTyped
  <2>6. \A m \in Channels : broker'.channel[m] = IF m = n THEN Grown(c, frame) ELSE broker.channel[m]
    BY <1>1, <1>4 DEF BrokerTyped
  <2>7. QED
    BY <2>1, <2>5, <2>6 DEF c
<1> HIDE DEF c
<1>5. QED
  BY <1>1, <1>2, <1>3, <1>4, SendSays DEF c

LEMMA InitOpens == Init => OpenInv
<1> SUFFICES ASSUME Init PROVE OpenInv
  OBVIOUS
<1>1. \A n \in Channels : broker.channel[n] = Shut("closed")
  BY NoBrokerTyped, Constants DEF Init
<1>2. in = <<>> /\ \A x \in Exchanges : ~exchange[x].opened
  BY DEF Init
<1>3. QED
  BY <1>1, <1>2, AnswersEmpty DEF OpenInv, Silent

LEMMA EnableConfirmsOpens == ASSUME Typed, OpenInv, EnableConfirms PROVE OpenInv'
<1>1. PICK x \in Exchanges : Send(channelOf[x], [type |-> "Select"])
  BY EnableConfirmsSays
<1>2. UNCHANGED <<link, in, channelOf, exchange>>
  BY EnableConfirmsSays
<1> DEFINE frame == [type |-> "Select"]
<1>3. frame \in Frame /\ frame.type # "Method" /\ channelOf[x] \in Channels /\ Send(channelOf[x], frame)
  BY <1>1, TypedSays DEF Frame
<1> HIDE DEF frame
<1>4. \A m \in Channels : /\ broker'.channel[m].state = broker.channel[m].state
                          /\ link # "up" => broker'.channel[m] = broker.channel[m]
  BY <1>3, SendOpens
<1>5. QED
  BY <1>2, <1>4, OpenStays

LEMMA StartCountingOpens == ASSUME Typed, OpenInv, StartCounting PROVE OpenInv'
<1>1. /\ \A y \in Exchanges : exchange'[y].opened = exchange[y].opened
      /\ UNCHANGED <<link, in, channelOf, broker>>
  BY StartCountingSays
<1>2. QED
  BY <1>1, OpenStays

LEMMA SendNextOpens == ASSUME Typed, OpenInv, SendNext PROVE OpenInv'
<1> DEFINE top == TopOf(stack)
           frame == NextFrame(top).frame
<1>1. /\ top \in PublishCall /\ top.next \in {"Method", "Header", "Body"}
      /\ top.next = "Body" => top.sent < top.size
      /\ top.next \in {"Method", "Header"} => top.sent = 0
      /\ channelOf[top.exchange] \in Channels
      /\ Send(channelOf[top.exchange], frame)
      /\ UNCHANGED <<link, channelOf, exchange, in>>
  BY SendNextSays
<1>2. frameMax \in Int /\ frameMax > 7
  BY TypedSays
<1>3. frame \in Frame /\ frame.type = top.next
  <2> HIDE DEF top
  <2>1. QED
    BY <1>1, <1>2, NextFrameSays
<1> HIDE DEF frame
<1>4. \A m \in Channels : /\ broker'.channel[m].state = broker.channel[m].state
                          /\ link # "up" => broker'.channel[m] = broker.channel[m]
  BY <1>1, <1>3, SendOpens
<1> HIDE DEF top
<1>5. QED
  BY <1>1, <1>4, OpenStays

LEMMA ReceiveOpenOkOpens == ASSUME Typed, OpenInv, ReceiveOpenOk PROVE OpenInv'
<1> DEFINE n == in[1].channel
           opened == TRUE
<1>1. /\ Receive("OpenOk") /\ exchange' = Openings(Head(in).channel, opened)
      /\ UNCHANGED <<link, channelOf, broker>>
  BY DEF ReceiveOpenOk, Openings
<1>2. /\ in # <<>> /\ Head(in) = in[1] /\ n \in Channels /\ in[1].type = "OpenOk"
      /\ in' = Tail(in) /\ in \in Seq(InFrame)
  BY <1>1, ReceiveSays
<1>3. exchange \in [Exchanges -> Exchange] /\ channelOf \in [Exchanges -> Channels]
  BY TypedSays
<1>4. link = "up"
  BY <1>2 DEF OpenInv, Silent
<1> HIDE DEF opened
<1>5. \A x \in Exchanges :
          exchange'[x].opened = IF channelOf[x] = n THEN opened ELSE exchange[x].opened
  <2>1. exchange' = Openings(n, opened) /\ opened \in BOOLEAN
    BY <1>1, <1>2 DEF opened
  <2> HIDE DEF n
  <2>2. QED
    BY <1>3, <2>1, OpeningsSay
<1>6. broker.channel[n].state # "closed"
  <2> DEFINE state == broker.channel[n].state
  <2>1. Answers(in, n, state)
    BY <1>2 DEF OpenInv
  <2> HIDE DEF state
  <2>2. QED
    BY <1>2, <2>1, AnswersTail DEF state
<1>7. \A m \in Channels : Answers(in', m, broker'.channel[m].state)
  <2> SUFFICES ASSUME NEW m \in Channels PROVE Answers(in', m, broker'.channel[m].state)
    OBVIOUS
  <2> DEFINE state == broker.channel[m].state
  <2>1. Answers(in, m, state) /\ broker'.channel[m].state = state
    BY <1>1 DEF OpenInv
  <2> HIDE DEF state
  <2>2. QED
    BY <1>2, <2>1, AnswersTail
<1>8. QED
  BY <1>1, <1>3, <1>4, <1>5, <1>6, <1>7 DEF OpenInv

LEMMA ReceiveCloseOpens == ASSUME Typed, OpenInv, ReceiveClose PROVE OpenInv'
<1> DEFINE n == in[1].channel
<1>1. /\ Receive("Close") /\ exchange' = Openings(Head(in).channel, FALSE)
      /\ broker' = IF broker.refused THEN broker ELSE Reshut(Head(in).channel, "closed")
      /\ UNCHANGED <<link, channelOf>>
  BY DEF ReceiveClose, Openings, Reshut
<1>2. /\ in # <<>> /\ Head(in) = in[1] /\ n \in Channels /\ in[1].type = "Close"
      /\ in' = Tail(in) /\ in \in Seq(InFrame)
  BY <1>1, ReceiveSays
<1>3. exchange \in [Exchanges -> Exchange] /\ channelOf \in [Exchanges -> Channels]
      /\ broker \in BrokerTyped
  BY TypedSays
<1>4. link = "up"
  BY <1>2 DEF OpenInv, Silent
<1>5. \A x \in Exchanges : exchange'[x].opened => channelOf[x] # n /\ exchange[x].opened
  <2> DEFINE opened == FALSE
  <2>1. exchange' = Openings(n, opened) /\ opened \in BOOLEAN
    BY <1>1, <1>2
  <2> HIDE DEF n, opened
  <2>2. \A x \in Exchanges :
            exchange'[x].opened = IF channelOf[x] = n THEN opened ELSE exchange[x].opened
    BY <1>3, <2>1, OpeningsSay
  <2>3. QED
    BY <2>2 DEF opened
<1>6. \A m \in Channels : m # n => broker'.channel[m] = broker.channel[m]
  <2>1. CASE broker.refused
    BY <1>1, <2>1
  <2>2. CASE ~broker.refused
    BY <1>1, <1>2, <1>3, <2>2, ReshutSays
  <2>3. QED
    BY <2>1, <2>2
<1>7. ASSUME NEW m \in Channels PROVE Answers(in', m, broker'.channel[m].state)
  <2> DEFINE state == broker.channel[m].state
             other == broker'.channel[m].state
  <2>1. Answers(in, m, state)
    BY DEF OpenInv
  <2>2. m # n => other = state
    BY <1>6
  <2> HIDE DEF state, other
  <2>3. /\ Answers(in', m, state)
        /\ m = n => Answers(in', m, other)
    BY <1>2, <2>1, AnswersTail
  <2>4. QED
    BY <2>2, <2>3 DEF other
<1>8. \A x \in Exchanges : exchange'[x].opened => broker'.channel[channelOf'[x]].state # "closed"
  BY <1>1, <1>3, <1>5, <1>6 DEF OpenInv
<1>9. QED
  BY <1>1, <1>4, <1>7, <1>8 DEF OpenInv

LEMMA BrokerClosesOpens == ASSUME Typed, OpenInv, BrokerCloses PROVE OpenInv'
<1>1. PICK n \in Channels : /\ broker.channel[n].state = "open"
                            /\ broker' = Reshut(n, "closing")
                            /\ in' = Append(in, [type |-> "Close", channel |-> n])
  BY BrokerClosesSays
<1>2. UNCHANGED <<link, channelOf, exchange>>
  BY DEF BrokerCloses
<1>3. broker \in BrokerTyped /\ in \in Seq(InFrame) /\ channelOf \in [Exchanges -> Channels]
  BY TypedSays DEF InFrame
<1>4. \A m \in Channels : /\ m # n => broker'.channel[m] = broker.channel[m]
                          /\ m = n => broker'.channel[m].state = "closing"
  BY <1>1, <1>3, ReshutSays, ShutTyped, Constants
<1>5. link = "up"
  BY <1>1, ShutTyped, Constants DEF OpenInv, Silent
<1>6. ASSUME NEW m \in Channels PROVE Answers(in', m, broker'.channel[m].state)
  <2> DEFINE state == broker.channel[m].state
             e == [type |-> "Close", channel |-> n]
  <2>1. Answers(in, m, state)
    BY DEF OpenInv
  <2>2. CASE m = n
    <3>1. Answers(in, m, "open")
      BY <1>1, <2>1, <2>2
    <3>2. Answers(in', m, "closing")
      BY <1>1, <1>3, <2>2, <3>1, AnswersClose
    <3>3. QED
      BY <1>4, <2>2, <3>2
  <2>3. CASE m # n
    <3>1. e \in InFrame /\ e.channel # m /\ broker'.channel[m].state = state
      BY <1>4, <2>3 DEF InFrame
    <3>2. in' = Append(in, e)
      BY <1>1
    <3> HIDE DEF e, state
    <3>3. QED
      BY <1>3, <2>1, <3>1, <3>2, AnswersOther
  <2>4. QED
    BY <2>2, <2>3
<1>7. \A x \in Exchanges : exchange'[x].opened => broker'.channel[channelOf'[x]].state # "closed"
  BY <1>2, <1>3, <1>4 DEF OpenInv
<1>8. QED
  BY <1>2, <1>5, <1>6, <1>7 DEF OpenInv

LEMMA LinkUpOpens == ASSUME Typed, OpenInv, LinkUp PROVE OpenInv'
<1>1. /\ link = "opening" /\ link' = "up"
      /\ \A n \in Channels : broker'.channel[n].state = IF n \in Opened THEN "open" ELSE "closed"
      /\ \A i \in DOMAIN in' : in'[i].type = "OpenOk" /\ in'[i].channel \in Opened
      /\ UNCHANGED <<channelOf, exchange>>
  BY LinkUpSays
<1>2. \A x \in Exchanges : ~exchange'[x].opened
  BY <1>1 DEF OpenInv, Silent
<1>3. ASSUME NEW n \in Channels PROVE Answers(in', n, broker'.channel[n].state)
  BY <1>1 DEF Answers
<1>4. QED
  BY <1>1, <1>2, <1>3 DEF OpenInv

\* Without a connection nothing is open.
LEMMA SilentOpens ==
    ASSUME Silent'
    PROVE  OpenInv'
<1>1. \A n \in Channels : Answers(in', n, broker'.channel[n].state)
  BY AnswersEmpty DEF Silent
<1>2. QED
  BY <1>1 DEF OpenInv, Silent

LEMMA NextOpens == ASSUME Typed, OpenInv, [Next]_vars PROVE OpenInv'
<1>1. CASE SetFrameMax
  BY <1>1, OpenStays DEF SetFrameMax
<1>2. CASE Publish
  <2>1. UNCHANGED <<link, in, channelOf, broker>>
    BY <1>2 DEF Publish
  <2>2. \A x \in Exchanges : exchange'[x].opened = exchange[x].opened
    BY <1>2, TypedSays, PublishSays DEF Exchange
  <2>3. QED
    BY <2>1, <2>2, OpenStays
<1>3. CASE Return \/ StartReading \/ StopReading \/ UNCHANGED vars
  BY <1>3, OpenStays DEF Return, StartReading, StopReading, vars
<1>4. CASE Tuned
  <2>1. /\ link = "down" /\ broker' = NoBroker /\ UNCHANGED <<exchange, in>>
    BY <1>4 DEF Tuned
  <2>2. \A n \in Channels : broker'.channel[n] = Shut("closed")
    BY <2>1, NoBrokerTyped, Constants
  <2>3. Silent'
    BY <2>1, <2>2 DEF OpenInv, Silent
  <2>4. QED
    BY <2>3, SilentOpens
<1>5. CASE LinkLost
  <2>1. /\ broker' = NoBroker /\ in' = <<>> /\ \A x \in Exchanges : ~exchange'[x].opened
    BY <1>5, LinkLostSays
  <2>2. \A n \in Channels : broker'.channel[n] = Shut("closed")
    BY <2>1, NoBrokerTyped, Constants
  <2>3. Silent'
    BY <2>1, <2>2 DEF Silent
  <2>4. QED
    BY <2>3, SilentOpens
<1>6. QED
  BY <1>1, <1>2, <1>3, <1>4, <1>5, EnableConfirmsOpens, StartCountingOpens, SendNextOpens,
     ReceiveOpenOkOpens, ReceiveCloseOpens, BrokerClosesOpens, LinkUpOpens DEF Next, User, Reading

-----------------------------------------------------------------------------
(* The calls of one exchange.  As long as nothing disturbs them, the first *)
(* that is not done is the one the broker's channel puts together, and the *)
(* tags count the messages as the broker does.                             *)

Unsent(e, x) == e.next \in {"Method", "Header", "Body"} /\ e.exchange = x

Pending(s, x) == {i \in DOMAIN s : Unsent(s[i], x)}

\* Inside a call that has begun there may only be one that has not.
Alone(s, x) == \A i, j \in Pending(s, x) : i < j => s[j].next = "Method"

\* The content of the channel when this call is the first.
Left(e) ==
    IF e.next = "Method" THEN Idle
    ELSE [awaits |-> e.next, message |-> e.message, tag |-> e.tag,
          missing |-> IF e.next = "Body" THEN e.size - e.sent ELSE 0]

First(s, x, i) == i \in Pending(s, x) /\ \A j \in Pending(s, x) : i <= j

\* The channel c of exchange x when the messages in `kept` are stored; if the
\* tags are `counted`, `tag` is the next of x.
InOrder(s, x, c, tag, kept, counted) ==
    /\ \A i \in DOMAIN s : First(s, x, i) =>
          c.content = Left(s[i]) /\ (counted => s[i].tag = Number(c))
    /\ Pending(s, x) = {} => c.content = Idle /\ (counted => tag = Number(c))
    /\ \A i \in DOMAIN s : Pending(s, x) = {i} /\ counted =>
          tag = IF c.confirming THEN c.count + 2 ELSE 0
    /\ counted => (c.confirming <=> tag > 0)
    /\ \A i \in DOMAIN s : s[i].next = "done" /\ s[i].exchange = x => s[i].message \in kept

\* Of what counts and what only keeps its order the first is more.
LEMMA LooseOrder ==
    ASSUME NEW s, NEW x, NEW c, NEW tag, NEW next, NEW kept, NEW counted \in BOOLEAN,
           NEW still \in BOOLEAN, InOrder(s, x, c, tag, kept, counted),
           still => counted /\ next = tag
    PROVE  InOrder(s, x, c, next, kept, still)
  BY DEF InOrder

\* A stack with the same calls of x that are not done.
LEMMA SameWork ==
    ASSUME NEW s \in Seq(Element), NEW r \in Seq(Element), NEW x,
           \A i \in DOMAIN s : Unsent(s[i], x) => i \in DOMAIN r /\ r[i] = s[i],
           \A i \in DOMAIN r : Unsent(r[i], x) => i \in DOMAIN s /\ r[i] = s[i]
    PROVE  /\ Pending(r, x) = Pending(s, x)
           /\ \A i \in Pending(r, x) : i \in DOMAIN s /\ r[i] = s[i]
           /\ Alone(s, x) => Alone(r, x)
<1>1. Pending(r, x) = Pending(s, x)
  BY DEF Pending
<1>2. \A i \in Pending(r, x) : i \in DOMAIN s /\ r[i] = s[i]
  BY DEF Pending
<1>3. Alone(s, x) => Alone(r, x)
  BY <1>1, <1>2 DEF Alone
<1>4. QED
  BY <1>1, <1>2, <1>3

LEMMA SameOrder ==
    ASSUME NEW s \in Seq(Element), NEW r \in Seq(Element), NEW x, NEW c, NEW tag, NEW kept, NEW more,
           NEW counted \in BOOLEAN,
           \A i \in DOMAIN s : Unsent(s[i], x) => i \in DOMAIN r /\ r[i] = s[i],
           \A i \in DOMAIN r : Unsent(r[i], x) => i \in DOMAIN s /\ r[i] = s[i],
           \A i \in DOMAIN r : r[i].next = "done" /\ r[i].exchange = x => i \in DOMAIN s /\ r[i] = s[i],
           kept \subseteq more, InOrder(s, x, c, tag, kept, counted)
    PROVE  InOrder(r, x, c, tag, more, counted)
<1>1. /\ Pending(r, x) = Pending(s, x)
      /\ \A i \in Pending(r, x) : i \in DOMAIN s /\ r[i] = s[i]
  BY SameWork
<1>2. \A i \in DOMAIN r : First(r, x, i) =>
          c.content = Left(r[i]) /\ (counted => r[i].tag = Number(c))
  <2> SUFFICES ASSUME NEW i \in DOMAIN r, First(r, x, i)
               PROVE  c.content = Left(r[i]) /\ (counted => r[i].tag = Number(c))
    OBVIOUS
  <2>1. i \in Pending(r, x) /\ First(s, x, i)
    BY <1>1 DEF First
  <2>2. i \in DOMAIN s /\ r[i] = s[i]
    BY <1>1, <2>1
  <2>3. c.content = Left(s[i]) /\ (counted => s[i].tag = Number(c))
    BY <2>1, <2>2 DEF InOrder
  <2>4. QED
    BY <2>2, <2>3
<1>3. Pending(r, x) = {} => c.content = Idle /\ (counted => tag = Number(c))
  BY <1>1 DEF InOrder
<1>4. \A i \in DOMAIN r : Pending(r, x) = {i} /\ counted =>
          tag = IF c.confirming THEN c.count + 2 ELSE 0
  <2> SUFFICES ASSUME NEW i \in DOMAIN r, Pending(r, x) = {i}, counted
               PROVE  tag = IF c.confirming THEN c.count + 2 ELSE 0
    OBVIOUS
  <2>1. i \in DOMAIN s /\ Pending(s, x) = {i}
    BY <1>1
  <2>2. QED
    BY <2>1 DEF InOrder
<1>5. \A i \in DOMAIN r : r[i].next = "done" /\ r[i].exchange = x => r[i].message \in more
  BY DEF InOrder
<1>6. counted => (c.confirming <=> tag > 0)
  BY DEF InOrder
<1>7. QED
  BY <1>2, <1>3, <1>4, <1>5, <1>6 DEF InOrder

\* Something is pushed that is no call of x.
LEMMA PushOther ==
    ASSUME NEW s \in Seq(Element), NEW e \in Element, NEW x,
           e.next \in {"Method", "Header", "Body", "done"} => e.exchange # x
    PROVE  /\ Alone(s, x) => Alone(Append(s, e), x)
           /\ \A c, tag, kept : \A counted \in BOOLEAN :
                 InOrder(s, x, c, tag, kept, counted)
                     => InOrder(Append(s, e), x, c, tag, kept, counted)
<1> DEFINE r == Append(s, e)
<1>1. /\ r \in Seq(Element) /\ r[Len(s) + 1] = e
      /\ \A i \in DOMAIN s : i \in DOMAIN r /\ r[i] = s[i]
      /\ \A i \in DOMAIN r : i \in DOMAIN s \/ i = Len(s) + 1
  BY PushSays
<1> HIDE DEF r
<1>2. /\ \A i \in DOMAIN s : Unsent(s[i], x) => i \in DOMAIN r /\ r[i] = s[i]
      /\ \A i \in DOMAIN r : Unsent(r[i], x) => i \in DOMAIN s /\ r[i] = s[i]
      /\ \A i \in DOMAIN r : r[i].next = "done" /\ r[i].exchange = x => i \in DOMAIN s /\ r[i] = s[i]
  BY <1>1 DEF Unsent
<1>3. Alone(s, x) => Alone(r, x)
  BY <1>1, <1>2, SameWork
<1>4. ASSUME NEW c, NEW tag, NEW kept, NEW counted \in BOOLEAN, InOrder(s, x, c, tag, kept, counted)
      PROVE  InOrder(r, x, c, tag, kept, counted)
  BY <1>1, <1>2, <1>4, SameOrder
<1>5. QED
  BY <1>3, <1>4 DEF r

\* What runs innermost returns.
LEMMA PopOrder ==
    ASSUME NEW s \in Seq(Element), s # <<>>, NEW x, TopOf(s).next \in {"done", "Tag", "reading"}
    PROVE  /\ Alone(s, x) => Alone(Front(s), x)
           /\ \A c, tag, kept : \A counted \in BOOLEAN :
                 InOrder(s, x, c, tag, kept, counted)
                     => InOrder(Front(s), x, c, tag, kept, counted)
<1> DEFINE r == Front(s)
<1>1. /\ r \in Seq(Element)
      /\ \A i \in DOMAIN r : i \in DOMAIN s /\ r[i] = s[i]
      /\ \A i \in DOMAIN s : i \in DOMAIN r \/ i = Len(s)
  BY PopSays
<1> HIDE DEF r
<1>2. TopOf(s) = s[Len(s)]
  BY TopSays
<1>3. /\ \A i \in DOMAIN s : Unsent(s[i], x) => i \in DOMAIN r /\ r[i] = s[i]
      /\ \A i \in DOMAIN r : Unsent(r[i], x) => i \in DOMAIN s /\ r[i] = s[i]
      /\ \A i \in DOMAIN r : r[i].next = "done" /\ r[i].exchange = x => i \in DOMAIN s /\ r[i] = s[i]
  BY <1>1, <1>2 DEF Unsent
<1>4. Alone(s, x) => Alone(r, x)
  BY <1>1, <1>3, SameWork
<1>5. ASSUME NEW c, NEW tag, NEW kept, NEW counted \in BOOLEAN, InOrder(s, x, c, tag, kept, counted)
      PROVE  InOrder(r, x, c, tag, kept, counted)
  BY <1>1, <1>3, <1>5, SameOrder
<1>6. QED
  BY <1>4, <1>5 DEF r

\* A call of another exchange goes on.
LEMMA ReplaceOther ==
    ASSUME NEW s \in Seq(Element), s # <<>>, NEW e \in Element, NEW x,
           TopOf(s).exchange # x, e.exchange # x
    PROVE  /\ Alone(s, x) => Alone(Append(Front(s), e), x)
           /\ \A c, tag, kept, more : \A counted \in BOOLEAN :
                 kept \subseteq more /\ InOrder(s, x, c, tag, kept, counted)
                     => InOrder(Append(Front(s), e), x, c, tag, more, counted)
<1> DEFINE r == Append(Front(s), e)
<1>1. /\ r \in Seq(Element) /\ DOMAIN r = DOMAIN s /\ r[Len(s)] = e
      /\ \A i \in DOMAIN s : i # Len(s) => r[i] = s[i]
  BY ReplaceSays
<1> HIDE DEF r
<1>2. TopOf(s) = s[Len(s)]
  BY TopSays
<1>3. /\ \A i \in DOMAIN s : Unsent(s[i], x) => i \in DOMAIN r /\ r[i] = s[i]
      /\ \A i \in DOMAIN r : Unsent(r[i], x) => i \in DOMAIN s /\ r[i] = s[i]
      /\ \A i \in DOMAIN r : r[i].next = "done" /\ r[i].exchange = x => i \in DOMAIN s /\ r[i] = s[i]
  BY <1>1, <1>2 DEF Unsent
<1>4. Alone(s, x) => Alone(r, x)
  BY <1>1, <1>3, SameWork
<1>5. ASSUME NEW c, NEW tag, NEW kept, NEW more, NEW counted \in BOOLEAN, kept \subseteq more,
             InOrder(s, x, c, tag, kept, counted)
      PROVE  InOrder(r, x, c, tag, more, counted)
  BY <1>1, <1>3, <1>5, SameOrder
<1>6. QED
  BY <1>4, <1>5 DEF r

\* The exchange begins another publish.
LEMMA PushOwn ==
    ASSUME NEW s \in Seq(Element), NEW e \in Element, NEW x, e.next = "Method", e.exchange = x,
           NEW c \in BrokerChannel, NEW tag \in Int, NEW kept, NEW next \in Int,
           NEW counted \in BOOLEAN, InOrder(s, x, c, tag, kept, counted),
           counted => e.tag = tag /\ next = IF tag > 0 THEN tag + 1 ELSE 0
    PROVE  InOrder(Append(s, e), x, c, next, kept, counted)
<1> DEFINE r == Append(s, e)
           l == Len(s) + 1
<1>1. /\ r \in Seq(Element) /\ r[l] = e /\ l \in DOMAIN r /\ l \in Int
      /\ \A i \in DOMAIN s : i \in DOMAIN r /\ r[i] = s[i] /\ i < l /\ i \in Int
      /\ \A i \in DOMAIN r : i \in DOMAIN s \/ i = l
  <2>1. /\ r \in Seq(Element) /\ r[l] = e /\ DOMAIN r = 1..l
        /\ DOMAIN s = 1..Len(s) /\ Len(s) \in Nat
        /\ \A i \in DOMAIN s : i \in DOMAIN r /\ r[i] = s[i]
        /\ \A i \in DOMAIN r : i \in DOMAIN s \/ i = l
    BY PushSays
  <2>2. l \in DOMAIN r /\ l \in Int /\ \A i \in DOMAIN s : i < l /\ i \in Int
    BY <2>1
  <2>3. QED
    BY <2>1, <2>2
<1> HIDE DEF r, l
<1>2. Unsent(e, x)
  BY DEF Unsent
<1>3. Pending(r, x) = Pending(s, x) \cup {l}
  BY <1>1, <1>2 DEF Pending
<1>4. \A i \in Pending(s, x) : i \in DOMAIN s
  BY DEF Pending
<1>5. c.count \in Int /\ c.confirming \in BOOLEAN
  BY Constants DEF BrokerChannel
<1>6. ASSUME Pending(s, x) = {}
      PROVE  /\ c.content = Left(e)
             /\ counted => e.tag = Number(c) /\ next = IF c.confirming THEN c.count + 2 ELSE 0
  <2>1. c.content = Idle /\ (counted => tag = Number(c) /\ (c.confirming <=> tag > 0))
    BY <1>6 DEF InOrder
  <2>2. Left(e) = Idle
    BY DEF Left
  <2>3. ASSUME counted PROVE next = IF c.confirming THEN c.count + 2 ELSE 0
    <3>1. CASE c.confirming
      <4>1. tag = c.count + 1 /\ tag > 0
        BY <2>1, <2>3, <3>1 DEF Number
      <4>2. next = c.count + 2
        BY <1>5, <2>3, <4>1
      <4>3. QED
        BY <3>1, <4>2
    <3>2. CASE ~c.confirming
      <4>1. ~(tag > 0)
        BY <2>1, <2>3, <3>2
      <4>2. QED
        BY <2>3, <3>2, <4>1
    <3>3. QED
      BY <3>1, <3>2
  <2>4. QED
    BY <2>1, <2>2, <2>3
<1>7. \A i \in DOMAIN r : First(r, x, i) =>
          c.content = Left(r[i]) /\ (counted => r[i].tag = Number(c))
  <2> SUFFICES ASSUME NEW i \in DOMAIN r, First(r, x, i)
               PROVE  c.content = Left(r[i]) /\ (counted => r[i].tag = Number(c))
    OBVIOUS
  <2>1. CASE i \in Pending(s, x)
    <3>1. First(s, x, i) /\ i \in DOMAIN s
      BY <1>3, <1>4, <2>1 DEF First
    <3>2. QED
      BY <1>1, <3>1 DEF InOrder
  <2>2. CASE i \notin Pending(s, x)
    <3>1. i = l /\ \A j \in Pending(s, x) : l <= j
      BY <1>3, <2>2 DEF First
    <3>2. Pending(s, x) = {}
      BY <1>1, <1>4, <3>1
    <3>3. QED
      BY <1>1, <1>6, <3>1, <3>2
  <2>3. QED
    BY <2>1, <2>2
<1>8. \A i \in DOMAIN r : Pending(r, x) = {i} /\ counted =>
          next = IF c.confirming THEN c.count + 2 ELSE 0
  <2> SUFFICES ASSUME NEW i \in DOMAIN r, Pending(r, x) = {i}, counted
               PROVE  next = IF c.confirming THEN c.count + 2 ELSE 0
    OBVIOUS
  <2>1. ASSUME NEW j \in Pending(s, x) PROVE FALSE
    <3>1. j \in Pending(r, x) /\ l \in Pending(r, x)
      BY <1>3
    <3>2. j = l
      BY <3>1
    <3>3. QED
      BY <1>1, <1>4, <3>2
  <2>2. Pending(s, x) = {}
    BY <2>1
  <2>3. QED
    BY <1>6, <2>2
<1>9. ASSUME counted PROVE c.confirming <=> next > 0
  <2>1. c.confirming <=> tag > 0
    BY <1>9 DEF InOrder
  <2>2. tag > 0 <=> next > 0
    BY <1>9
  <2>3. QED
    BY <2>1, <2>2
<1>12. Pending(r, x) # {}
  BY <1>3
<1>10. \A i \in DOMAIN r : r[i].next = "done" /\ r[i].exchange = x => r[i].message \in kept
  BY <1>1 DEF InOrder
<1>11. InOrder(r, x, c, next, kept, counted)
  BY <1>7, <1>8, <1>9, <1>10, <1>12 DEF InOrder
<1>13. QED
  BY <1>11 DEF r

LEMMA PushOwnAlone ==
    ASSUME NEW s \in Seq(Element), NEW e \in Element, NEW x, e.next = "Method", Alone(s, x)
    PROVE  Alone(Append(s, e), x)
<1> DEFINE r == Append(s, e)
           l == Len(s) + 1
<1>1. /\ r[l] = e
      /\ DOMAIN r = 1..l /\ Len(s) \in Nat
      /\ \A i \in DOMAIN s : i \in DOMAIN r /\ r[i] = s[i]
      /\ \A i \in DOMAIN r : i \in DOMAIN s \/ i = l
  BY PushSays
<1>2. l \in Int /\ \A i \in DOMAIN r : i \in Int /\ i <= l
  BY <1>1
<1> HIDE DEF r, l
<1>3. ASSUME NEW i \in Pending(r, x), NEW j \in Pending(r, x), i < j
      PROVE  r[j].next = "Method"
  <2>1. i \in DOMAIN r /\ j \in DOMAIN r /\ Unsent(r[i], x) /\ Unsent(r[j], x)
    BY DEF Pending
  <2>2. i # l
    BY <1>2, <1>3, <2>1
  <2>3. i \in DOMAIN s /\ Unsent(s[i], x)
    BY <1>1, <2>1, <2>2
  <2>4. CASE j = l
    BY <1>1, <2>4
  <2>5. CASE j # l
    <3>1. j \in DOMAIN s /\ r[j] = s[j] /\ Unsent(s[j], x)
      BY <1>1, <2>1, <2>5
    <3>2. i \in Pending(s, x) /\ j \in Pending(s, x)
      BY <2>3, <3>1 DEF Pending
    <3>3. QED
      BY <1>3, <3>1, <3>2 DEF Alone
  <2>6. QED
    BY <2>4, <2>5
<1>4. QED
  BY <1>3 DEF Alone, r

\* The only call of x that is not done goes on.
LEMMA ReplaceOwn ==
    ASSUME NEW s \in Seq(Element), s # <<>>, NEW e \in Element, NEW x, Unsent(TopOf(s), x),
           Pending(Front(s), x) = {}
    PROVE  LET r == Append(Front(s), e)
           IN  /\ Pending(s, x) = {Len(s)} /\ First(s, x, Len(s)) /\ Len(s) \in DOMAIN s
               /\ Pending(r, x) = IF Unsent(e, x) THEN {Len(s)} ELSE {}
               /\ Alone(r, x)
<1> DEFINE r == Append(Front(s), e)
           l == Len(s)
<1>1. /\ DOMAIN r = DOMAIN s /\ r[l] = e /\ l \in DOMAIN s
      /\ \A i \in DOMAIN s : i # l => r[i] = s[i]
  BY ReplaceSays
<1>2. TopOf(s) = s[l]
  BY TopSays
<1>3. DOMAIN Front(s) = 1..(l - 1) /\ l \in Nat /\ DOMAIN s = 1..l
      /\ \A i \in DOMAIN Front(s) : Front(s)[i] = s[i]
  BY FrontEntries
<1> HIDE DEF r, l
<1>4. ASSUME NEW i \in DOMAIN s, i # l
      PROVE  ~Unsent(s[i], x)
  <2>1. i \in DOMAIN Front(s) /\ Front(s)[i] = s[i]
    BY <1>3, <1>4
  <2>2. QED
    BY <2>1 DEF Pending
<1>5. Pending(s, x) = {l}
  BY <1>1, <1>2, <1>4 DEF Pending
<1>6. First(s, x, l)
  BY <1>3, <1>5 DEF First
<1>7. \A i \in Pending(r, x) : i = l
  BY <1>1, <1>4 DEF Pending
<1>8. Pending(r, x) = IF Unsent(e, x) THEN {l} ELSE {}
  <2>1. l \in Pending(r, x) <=> Unsent(e, x)
    BY <1>1 DEF Pending
  <2>2. QED
    BY <1>7, <2>1
<1>9. Alone(r, x)
  BY <1>3, <1>7 DEF Alone
<1>10. QED
  BY <1>1, <1>5, <1>6, <1>8, <1>9 DEF r, l

\* The channel d is as the call e of x left it, when no other is pending.
LeftBy(e, x, d, tag, counted) ==
    /\ counted => (d.confirming <=> tag > 0)
    /\ Unsent(e, x) =>
          /\ d.content = Left(e)
          /\ counted => e.tag = Number(d) /\ tag = IF d.confirming THEN d.count + 2 ELSE 0
    /\ ~Unsent(e, x) => d.content = Idle /\ (counted => tag = Number(d))

LEMMA ReplaceOrder ==
    ASSUME NEW s \in Seq(Element), s # <<>>, NEW e \in Element, NEW x, Unsent(TopOf(s), x),
           Pending(Front(s), x) = {}, e.exchange = x,
           NEW c, NEW d, NEW tag, NEW kept, NEW more, NEW counted \in BOOLEAN,
           InOrder(s, x, c, tag, kept, counted), kept \subseteq more,
           LeftBy(e, x, d, tag, counted), e.next = "done" => e.message \in more
    PROVE  InOrder(Append(Front(s), e), x, d, tag, more, counted)
<1> DEFINE r == Append(Front(s), e)
           l == Len(s)
<1>1. /\ DOMAIN r = DOMAIN s /\ r[l] = e /\ l \in DOMAIN s
      /\ \A i \in DOMAIN s : i # l => r[i] = s[i]
  BY ReplaceSays
<1>2. Pending(r, x) = IF Unsent(e, x) THEN {l} ELSE {}
  BY ReplaceOwn
<1> HIDE DEF r, l
<1>3. \A i \in DOMAIN r : First(r, x, i) =>
          d.content = Left(r[i]) /\ (counted => r[i].tag = Number(d))
  <2> SUFFICES ASSUME NEW i \in DOMAIN r, First(r, x, i)
               PROVE  d.content = Left(r[i]) /\ (counted => r[i].tag = Number(d))
    OBVIOUS
  <2>1. i \in Pending(r, x)
    BY DEF First
  <2>2. i = l /\ Unsent(e, x)
    BY <1>2, <2>1
  <2>3. QED
    BY <1>1, <2>2 DEF LeftBy
<1>4. Pending(r, x) = {} => d.content = Idle /\ (counted => tag = Number(d))
  BY <1>2 DEF LeftBy
<1>5. \A i \in DOMAIN r : Pending(r, x) = {i} /\ counted =>
          tag = IF d.confirming THEN d.count + 2 ELSE 0
  BY <1>2 DEF LeftBy
<1>6. \A i \in DOMAIN r : r[i].next = "done" /\ r[i].exchange = x => r[i].message \in more
  <2> SUFFICES ASSUME NEW i \in DOMAIN r, r[i].next = "done", r[i].exchange = x
               PROVE  r[i].message \in more
    OBVIOUS
  <2>1. CASE i = l
    BY <1>1, <2>1
  <2>2. CASE i # l
    <3>1. i \in DOMAIN s /\ s[i].next = "done" /\ s[i].exchange = x /\ r[i] = s[i]
      BY <1>1, <2>2
    <3>2. s[i].message \in kept
      BY <3>1 DEF InOrder
    <3>3. QED
      BY <3>1, <3>2
  <2>3. QED
    BY <2>1, <2>2
<1>7. InOrder(r, x, d, tag, more, counted)
  BY <1>3, <1>4, <1>5, <1>6 DEF InOrder, LeftBy
<1>8. QED
  BY <1>7 DEF r

\* The next frame of the call `top` is taken by the broker, and what it makes of
\* the calls is in order.
OwnFrameTaken(s, x, c, tag, kept, top, counted) ==
    LET frame == NextFrame(top).frame
        r == Append(Front(s), NextFrame(top).call)
    IN  /\ Expected(c, frame)
        /\ Completes(c, frame) => /\ c.content.message = top.message
                                  /\ counted => c.content.tag = Number(c)
        /\ \A more : /\ kept \subseteq more
                     /\ Completes(c, frame) => c.content.message \in more
                     => InOrder(r, x, Grown(c, frame), tag, more, counted)
        /\ Alone(r, x)

\* The only call of the exchange that is not done sends its next frame: the
\* broker expects it, and they stay in order.
LEMMA OwnFrame ==
    ASSUME NEW s \in Seq(Element), s # <<>>, NEW x, NEW c \in BrokerChannel, NEW tag \in Int,
           NEW kept, NEW top \in PublishCall, top = TopOf(s), Unsent(top, x),
           Pending(Front(s), x) = {}, c.content \in Content, NEW counted \in BOOLEAN,
           InOrder(s, x, c, tag, kept, counted),
           top.next = "Body" => top.sent < top.size,
           top.next \in {"Method", "Header"} => top.sent = 0,
           frameMax \in Int, frameMax > 7, agreed = frameMax
    PROVE  OwnFrameTaken(s, x, c, tag, kept, top, counted)
<1> DEFINE frame == NextFrame(top).frame
           after == NextFrame(top).call
           left == IF top.next = "Header" THEN frame.size ELSE top.size - top.sent - frame.size
           g == Grown(c, frame)
<1>1. /\ frame \in Frame /\ frame.type = top.next
      /\ after \in PublishCall
      /\ after.exchange = top.exchange /\ after.message = top.message
      /\ after.tag = top.tag /\ after.size = top.size
      /\ top.next = "Method" => /\ frame.message = top.message /\ frame.tag = top.tag
                                /\ after.next = "Header" /\ after.sent = 0
      /\ top.next # "Method" =>
            /\ left \in Nat
            /\ after.next = IF left = 0 THEN "done" ELSE "Body"
            /\ left # 0 => after.sent < after.size /\ after.size - after.sent = left
      /\ top.next = "Header" => frame.size = top.size
      /\ top.next = "Body" => frame.size <= top.size - top.sent /\ frame.size <= frameMax - 7
  <2>1. top.next \in {"Method", "Header", "Body"}
    BY DEF Unsent
  <2>2. QED
    BY <2>1, NextFrameSays
<1>2. /\ after \in Element /\ top.next \in {"Method", "Header", "Body"} /\ top.exchange = x
      /\ after.exchange = x /\ Unsent(TopOf(s), x)
  BY <1>1 DEF Element, Unsent
<1> HIDE DEF frame, after
<1>3. /\ Pending(s, x) = {Len(s)} /\ First(s, x, Len(s)) /\ Len(s) \in DOMAIN s
      /\ Alone(Append(Front(s), after), x)
  <2> HIDE DEF left, g
  <2>1. Unsent(TopOf(s), x) /\ after \in Element /\ Pending(Front(s), x) = {}
    BY <1>2
  <2>2. QED
    BY <2>1, ReplaceOwn
<1>4. /\ c.content = Left(top)
      /\ counted => /\ top.tag = Number(c)
                    /\ tag = IF c.confirming THEN c.count + 2 ELSE 0
                    /\ c.confirming <=> tag > 0
  <2>1. TopOf(s) = s[Len(s)]
    BY TopSays
  <2>2. QED
    BY <1>3, <2>1 DEF InOrder
<1>5. c.confirming \in BOOLEAN /\ c.count \in Int
  BY Constants DEF BrokerChannel
<1>6. Expected(c, frame)
  <2>1. CASE top.next = "Method"
    <3>1. c.content = Idle
      BY <1>4, <2>1 DEF Left
    <3>2. QED
      BY <1>1, <2>1, <3>1 DEF Expected, Idle
  <2>2. CASE top.next = "Header"
    <3>1. c.content.awaits = "Header"
      BY <1>4, <2>2 DEF Left
    <3>2. QED
      BY <1>1, <2>2, <3>1 DEF Expected
  <2>3. CASE top.next = "Body"
    <3>1. c.content.awaits = "Body" /\ c.content.missing = top.size - top.sent
      BY <1>4, <2>3 DEF Left
    <3>2. frame.size + 8 <= agreed + Tolerance
      <4>1. frame.size \in Int
        BY <1>1, <2>3 DEF Frame
      <4>2. frame.size <= frameMax - 7
        BY <1>1, <2>3
      <4>3. QED
        BY <4>1, <4>2, Constants
    <3>3. QED
      BY <1>1, <2>3, <3>1, <3>2 DEF Expected
  <2>4. QED
    BY <1>2, <2>1, <2>2, <2>3
<1>7. CASE top.next = "Method"
  <2> DEFINE content == [awaits |-> "Header", message |-> frame.message, tag |-> frame.tag,
                         missing |-> 0]
  <2>1. g = [c EXCEPT !.content = content] /\ ~Completes(c, frame)
    BY <1>1, <1>6, <1>7, GrownIs
  <2>2. g.content = content /\ g.count = c.count /\ g.confirming = c.confirming
    BY <2>1 DEF BrokerChannel
  <2>3. content = Left(after)
    BY <1>1, <1>7 DEF Left
  <2> HIDE DEF g, content
  <2>4. /\ Unsent(after, x) /\ after.next # "done"
        /\ counted => /\ after.tag = Number(g)
                      /\ g.confirming <=> tag > 0
                      /\ tag = IF g.confirming THEN g.count + 2 ELSE 0
    BY <1>1, <1>2, <1>4, <1>7, <2>2 DEF Unsent, Number
  <2>5. ASSUME NEW more, kept \subseteq more
        PROVE  InOrder(Append(Front(s), after), x, g, tag, more, counted)
    <3>1. LeftBy(after, x, g, tag, counted)
      BY <2>2, <2>3, <2>4 DEF LeftBy
    <3>2. after.next # "done"
      BY <2>4
    <3>3. QED
      BY <1>2, <2>5, <3>1, <3>2, ReplaceOrder
  <2>6. /\ Expected(c, frame) /\ ~Completes(c, frame)
        /\ \A more : kept \subseteq more => InOrder(Append(Front(s), after), x, g, tag, more, counted)
        /\ Alone(Append(Front(s), after), x)
    BY <1>3, <1>6, <2>1, <2>5
  <2>7. QED
    BY <2>6 DEF g, frame, after, OwnFrameTaken
<1>8. CASE top.next \in {"Header", "Body"}
  <2> DEFINE content == Joined(c.content, left)
             count == IF content = Idle THEN Number(c) ELSE c.count
  <2>1. /\ c.content # Idle /\ c.content.awaits = frame.type
        /\ LET joined == Joined(c.content, IF frame.type = "Header" THEN frame.size
                                           ELSE c.content.missing - frame.size)
           IN  /\ Completes(c, frame) <=> joined = Idle
               /\ Grown(c, frame) = Filled(c, joined, IF joined = Idle THEN Number(c) ELSE c.count)
    <3> HIDE DEF g, left
    <3>1. frame.type \in {"Header", "Body"}
      BY <1>1, <1>8
    <3>2. QED
      BY <1>6, <3>1, GrownIs
  <2>2. /\ top.next = "Body" => c.content.missing = top.size - top.sent
        /\ c.content.message = top.message /\ c.content.tag = top.tag
    BY <1>4, <1>8 DEF Left
  <2>3. left = IF frame.type = "Header" THEN frame.size ELSE c.content.missing - frame.size
    BY <1>1, <1>8, <2>2
  <2> HIDE DEF left
  <2>4. (Completes(c, frame) <=> content = Idle) /\ g = Filled(c, content, count)
    BY <2>1, <2>3
  <2>5. left \in Nat
    BY <1>1, <1>8
  <2>6. /\ content \in Content /\ (content = Idle <=> left = 0)
        /\ left # 0 => content = [awaits |-> "Body", message |-> c.content.message,
                                  tag |-> c.content.tag, missing |-> left]
    BY <2>1, <2>5, JoinedTyped
  <2> HIDE DEF content
  <2>7. count \in Int
    BY <1>5 DEF Number
  <2> HIDE DEF g
  <2>8. g.content = content /\ g.count = count /\ g.confirming = c.confirming
    BY <2>4 DEF Filled, BrokerChannel
  <2> HIDE DEF count
  <2>9. CASE left = 0
    <3>1. after.next = "done" /\ ~Unsent(after, x) /\ content = Idle /\ Completes(c, frame)
      BY <1>1, <1>8, <2>4, <2>6, <2>9 DEF Unsent
    <3>2. count = Number(c)
      BY <3>1 DEF count
    <3>3. ASSUME counted PROVE tag = Number(g) /\ (g.confirming <=> tag > 0)
      <4>1. CASE c.confirming
        <5>1. tag = c.count + 2 /\ g.count = c.count + 1 /\ g.confirming
          BY <1>4, <2>8, <3>2, <3>3, <4>1 DEF Number
        <5>2. Number(g) = g.count + 1
          BY <5>1 DEF Number
        <5>3. QED
          BY <1>4, <1>5, <2>8, <3>3, <5>1, <5>2
      <4>2. CASE ~c.confirming
        <5>1. tag = 0 /\ ~g.confirming
          BY <1>4, <2>8, <3>3, <4>2
        <5>2. Number(g) = 0
          BY <5>1 DEF Number
        <5>3. QED
          BY <5>1, <5>2
      <4>3. QED
        BY <4>1, <4>2
    <3>4. ASSUME NEW more, kept \subseteq more, c.content.message \in more
          PROVE  InOrder(Append(Front(s), after), x, g, tag, more, counted)
      <4>1. after.message \in more
        BY <1>1, <2>2, <3>4
      <4>2. LeftBy(after, x, g, tag, counted)
        BY <2>8, <3>1, <3>3 DEF LeftBy
      <4>3. QED
        BY <1>2, <3>4, <4>1, <4>2, ReplaceOrder
    <3>5. QED
      BY <1>3, <1>4, <1>6, <2>2, <3>1, <3>4 DEF g, frame, after, OwnFrameTaken
  <2>10. CASE left # 0
    <3>1. after.next = "Body" /\ Unsent(after, x) /\ content # Idle /\ ~Completes(c, frame)
          /\ after.size - after.sent = left
      BY <1>1, <1>2, <1>8, <2>4, <2>6, <2>10 DEF Unsent
    <3>2. g.count = c.count
      BY <2>8, <3>1 DEF count
    <3>3. counted => /\ after.tag = Number(g) /\ (g.confirming <=> tag > 0)
                     /\ tag = IF g.confirming THEN g.count + 2 ELSE 0
      BY <1>1, <1>4, <2>8, <3>2 DEF Number
    <3>4. g.content = Left(after)
      BY <1>1, <2>2, <2>6, <2>8, <2>10, <3>1 DEF Left
    <3>8. LeftBy(after, x, g, tag, counted)
      BY <3>1, <3>3, <3>4 DEF LeftBy
    <3>5. ASSUME NEW more, kept \subseteq more
          PROVE  InOrder(Append(Front(s), after), x, g, tag, more, counted)
      BY <1>2, <3>1, <3>5, <3>8, ReplaceOrder
    <3>6. /\ Expected(c, frame) /\ ~Completes(c, frame)
          /\ \A more : kept \subseteq more => InOrder(Append(Front(s), after), x, g, tag, more, counted)
          /\ Alone(Append(Front(s), after), x)
      BY <1>3, <1>6, <3>1, <3>5
    <3>7. QED
      BY <3>6 DEF g, frame, after, OwnFrameTaken
  <2>11. QED
    BY <2>9, <2>10
<1>9. QED
  BY <1>2, <1>7, <1>8

-----------------------------------------------------------------------------
(* All exchanges are in order while nothing has disturbed them.            *)

StoredMessages == {m.message : m \in stored}

\* The tag that x takes next when its enableConfirms is over.
NextTag(x) ==
    IF exchange[x].nextDeliveryTag = 0 /\ Enabling(x, stack) THEN 1
    ELSE exchange[x].nextDeliveryTag

\* The tags count as long as no event has happened.
Calm == happened = {}

ChannelInOrder(x) ==
    broker.channel[channelOf[x]].state = "open" =>
        InOrder(stack, x, broker.channel[channelOf[x]], NextTag(x), StoredMessages, Calm)

Distinct == \A x, y \in Exchanges : channelOf[x] = channelOf[y] => x = y

AllMethods(s) == \A i \in DOMAIN s : s[i].next = "Method"

Counting ==
    /\ link # "up" => \A x \in Exchanges : NextTag(x) = 0
    /\ \A m \in stored : m.tag = m.number

Orderly ==
    /\ Distinct
    /\ ~broker.refused
    /\ link # "down" => frameMax = agreed
    /\ link = "opening" => AllMethods(stack)
    /\ \A x \in Exchanges : Alone(stack, x) /\ ChannelInOrder(x)
    /\ Calm => Counting

PublishingInv == Typed /\ OpenInv /\ (Framed => Orderly)

LEMMA Calmness == Calm \in BOOLEAN /\ Calm' \in BOOLEAN
  BY DEF Calm

\* Who is in the wait of enableConfirms when something is pushed, ends or goes on.
LEMMA PushEnabling ==
    ASSUME NEW s \in Seq(Element), NEW e \in Element, NEW x
    PROVE  Enabling(x, Append(s, e)) <=> Enabling(x, s) \/ (e.next = "Tag" /\ e.exchange = x)
<1> DEFINE r == Append(s, e)
<1>1. /\ r[Len(s) + 1] = e /\ Len(s) + 1 \in DOMAIN r
      /\ \A i \in DOMAIN s : i \in DOMAIN r /\ r[i] = s[i]
      /\ \A i \in DOMAIN r : i \in DOMAIN s \/ i = Len(s) + 1
  BY PushSays
<1> HIDE DEF r
<1>2. Enabling(x, r) <=> Enabling(x, s) \/ (e.next = "Tag" /\ e.exchange = x)
  BY <1>1 DEF Enabling
<1>3. QED
  BY <1>2 DEF r

LEMMA PopEnabling ==
    ASSUME NEW s \in Seq(Element), s # <<>>, NEW x
    PROVE  Enabling(x, s) <=>
               Enabling(x, Front(s)) \/ (TopOf(s).next = "Tag" /\ TopOf(s).exchange = x)
<1> DEFINE r == Front(s)
<1>1. /\ \A i \in DOMAIN r : i \in DOMAIN s /\ r[i] = s[i]
      /\ \A i \in DOMAIN s : i \in DOMAIN r \/ i = Len(s)
  BY PopSays
<1>2. TopOf(s) = s[Len(s)] /\ Len(s) \in DOMAIN s
  BY TopSays
<1> HIDE DEF r
<1>3. Enabling(x, s) <=> Enabling(x, r) \/ (TopOf(s).next = "Tag" /\ TopOf(s).exchange = x)
  BY <1>1, <1>2 DEF Enabling
<1>4. QED
  BY <1>3 DEF r

LEMMA ReplaceEnabling ==
    ASSUME NEW s \in Seq(Element), s # <<>>, NEW e \in Element, NEW x,
           TopOf(s).next # "Tag", e.next # "Tag"
    PROVE  Enabling(x, Append(Front(s), e)) <=> Enabling(x, s)
<1> DEFINE r == Front(s)
<1>1. r \in Seq(Element)
  BY PopSays
<1>2. Enabling(x, s) <=> Enabling(x, r)
  BY PopEnabling
<1> HIDE DEF r
<1>3. Enabling(x, Append(r, e)) <=> Enabling(x, r)
  BY <1>1, PushEnabling
<1>4. QED
  BY <1>2, <1>3 DEF r

LEMMA SameNextTag ==
    ASSUME NEW x, exchange'[x].nextDeliveryTag = exchange[x].nextDeliveryTag,
           Enabling(x, stack') <=> Enabling(x, stack)
    PROVE  NextTag(x)' = NextTag(x)
  BY DEF NextTag

\* A channel that the step leaves alone, with the calls of its exchange.
LEMMA ChannelOnward ==
    ASSUME NEW x \in Exchanges, ChannelInOrder(x),
           broker'.channel[channelOf'[x]] = broker.channel[channelOf[x]],
           StoredMessages' = StoredMessages, Calm' => Calm /\ NextTag(x)' = NextTag(x),
           \A c, tag, kept : \A counted \in BOOLEAN :
               InOrder(stack, x, c, tag, kept, counted) => InOrder(stack', x, c, tag, kept, counted)
    PROVE  ChannelInOrder(x)'
<1> DEFINE c == broker.channel[channelOf[x]]
           tag == NextTag(x)
           next == NextTag(x)'
           kept == StoredMessages
           counted == Calm
           still == Calm'
<1>1. counted \in BOOLEAN /\ still \in BOOLEAN /\ (still => counted /\ next = tag)
  BY Calmness
<1>2. c.state = "open" => InOrder(stack, x, c, tag, kept, counted)
  BY DEF ChannelInOrder
<1>3. c' = c /\ kept' = kept
  OBVIOUS
<1>4. c.state = "open" => InOrder(stack', x, c, next, kept, still)
  <2> HIDE DEF c, tag, next, kept, counted, still
  <2> SUFFICES ASSUME c.state = "open" PROVE InOrder(stack', x, c, next, kept, still)
    OBVIOUS
  <2>1. InOrder(stack', x, c, tag, kept, counted)
    BY <1>1, <1>2
  <2>2. QED
    BY <1>1, <2>1, LooseOrder
<1>5. c'.state = "open" => InOrder(stack', x, c', next, kept', still)
  <2> HIDE DEF next, kept, still, c
  <2>1. QED
    BY <1>3, <1>4
<1>6. QED
  BY <1>5 DEF ChannelInOrder

LEMMA ClosedInOrder ==
    ASSUME NEW x \in Exchanges, broker.channel[channelOf[x]].state # "open"
    PROVE  ChannelInOrder(x)
  BY DEF ChannelInOrder

\* What a frame that disturbs nothing says of the exchange it is sent for.
LEMMA Undisturbing ==
    ASSUME NEW x \in Exchanges, NEW outer \in Seq(Element), SendEvents(x, outer) = {}
    PROVE  /\ link = "down" \/ exchange[x].opened
           /\ Pending(outer, x) = {}
<1>1. link = "down" \/ exchange[x].opened
  BY DEF SendEvents
<1>2. ~\E i \in DOMAIN outer : /\ IsCall(outer[i])
                               /\ channelOf[outer[i].exchange] = channelOf[x]
                               /\ outer[i].next # "done"
  BY DEF SendEvents
<1>3. ASSUME NEW i \in DOMAIN outer, Unsent(outer[i], x)
      PROVE  FALSE
  <2>1. IsCall(outer[i])
    BY <1>3, ElementsOf DEF Unsent
  <2>2. QED
    BY <1>2, <1>3, <2>1 DEF Unsent
<1>4. QED
  BY <1>1, <1>3 DEF Pending

\* The channel of an exchange that takes it for open.
LEMMA OpenedSays ==
    ASSUME Typed, OpenInv, NEW x \in Exchanges, exchange[x].opened
    PROVE  link = "up" /\ broker.channel[channelOf[x]].state \in {"open", "closing"}
<1>1. channelOf[x] \in Channels /\ broker.channel \in [Channels -> BrokerChannel]
  BY TypedSays
<1>2. broker.channel[channelOf[x]].state \in {"closed", "open", "closing"}
  BY <1>1 DEF BrokerChannel
<1>3. QED
  BY <1>2 DEF OpenInv, Silent

\* A step that leaves the calls, the channels and the tags alone.
LEMMA OrderlyStays ==
    ASSUME Orderly,
           UNCHANGED <<frameMax, agreed, channelOf, stack, broker, stored, happened>>,
           link' = link \/ (link' = "up" /\ link # "down"),
           \A x \in Exchanges : exchange'[x].nextDeliveryTag = exchange[x].nextDeliveryTag
    PROVE  Orderly'
<1>1. StoredMessages' = StoredMessages /\ Calm' = Calm
  BY DEF StoredMessages, Calm
<1>2. \A x \in Exchanges : NextTag(x)' = NextTag(x)
  BY SameNextTag
<1>3. ASSUME NEW x \in Exchanges PROVE Alone(stack', x) /\ ChannelInOrder(x)'
  <2>1. Alone(stack, x) /\ ChannelInOrder(x)
    BY DEF Orderly
  <2>2. QED
    BY <1>1, <1>2, <2>1, ChannelOnward
<1>4. Distinct'
  BY DEF Orderly, Distinct
<1>5. link' = "opening" => AllMethods(stack')
  BY DEF Orderly
<1>6. Calm' => Counting'
  BY <1>1, <1>2 DEF Orderly, Counting
<1>7. QED
  BY <1>3, <1>4, <1>5, <1>6 DEF Orderly

LEMMA InitOrderly == ASSUME Init, Framed PROVE Orderly
<1>1. Distinct
  BY DEF Init, Distinct, Framed, FrameEvents
<1>2. /\ \A n \in Channels : broker.channel[n] = Shut("closed")
      /\ ~broker.refused
  BY NoBrokerTyped, Constants DEF Init
<1>3. \A x \in Exchanges : channelOf[x] \in Channels
  BY DEF Init, Exchanges, Channels
<1>4. ASSUME NEW x \in Exchanges PROVE Alone(stack, x) /\ ChannelInOrder(x)
  <2>1. Alone(stack, x)
    BY DEF Init, Alone, Pending
  <2>2. broker.channel[channelOf[x]].state # "open"
    BY <1>2, <1>3, ShutTyped, Constants
  <2>3. QED
    BY <2>1, <2>2 DEF ChannelInOrder
<1>5. Counting
  BY DEF Init, Counting, NextTag, Enabling
<1>6. QED
  BY <1>1, <1>2, <1>4, <1>5 DEF Init, Orderly

LEMMA SetFrameMaxOrderly ==
    ASSUME Typed, Orderly, SetFrameMax, Framed', Calm' => Calm
    PROVE  Orderly'
<1>1. /\ happened' = IF link = "opening" /\ frameMax' # agreed
                     THEN happened \cup {"retuned"} ELSE happened
      /\ link # "up"
      /\ UNCHANGED <<link, agreed, channelOf, exchange, stack, broker, stored>>
  BY DEF SetFrameMax
<1>2. link # "down" => frameMax' = agreed
  <2>1. link \in {"down", "opening", "up"}
    BY DEF Typed, TypeOK
  <2>2. link = "opening" => frameMax' = agreed
    BY <1>1 DEF Framed, FrameEvents
  <2>3. QED
    BY <1>1, <2>1, <2>2
<1>3. StoredMessages' = StoredMessages
  BY <1>1 DEF StoredMessages
<1>4. \A x \in Exchanges : NextTag(x)' = NextTag(x)
  BY <1>1, SameNextTag
<1>5. ASSUME NEW x \in Exchanges PROVE Alone(stack', x) /\ ChannelInOrder(x)'
  <2>1. Alone(stack, x) /\ ChannelInOrder(x)
    BY DEF Orderly
  <2>2. QED
    BY <1>1, <1>3, <1>4, <2>1, ChannelOnward
<1>6. Distinct'
  BY <1>1 DEF Orderly, Distinct
<1>7. link' = "opening" => AllMethods(stack')
  BY <1>1 DEF Orderly
<1>8. Calm' => Counting'
  BY <1>1, <1>4 DEF Orderly, Counting
<1>9. QED
  BY <1>1, <1>2, <1>5, <1>6, <1>7, <1>8 DEF Orderly

\* A step on the stack alone.
LEMMA StackOrderly ==
    ASSUME Orderly,
           UNCHANGED <<link, frameMax, agreed, channelOf, broker, stored, happened>>,
           link = "opening" => AllMethods(stack'),
           \A x \in Exchanges :
               /\ NextTag(x)' = NextTag(x)
               /\ Alone(stack, x) => Alone(stack', x)
               /\ \A c, tag, kept : \A counted \in BOOLEAN :
                     InOrder(stack, x, c, tag, kept, counted)
                         => InOrder(stack', x, c, tag, kept, counted)
    PROVE  Orderly'
<1>1. StoredMessages' = StoredMessages /\ Calm' = Calm
  BY DEF StoredMessages, Calm
<1>2. ASSUME NEW x \in Exchanges PROVE Alone(stack', x) /\ ChannelInOrder(x)'
  <2>1. Alone(stack, x) /\ ChannelInOrder(x)
    BY DEF Orderly
  <2>2. QED
    BY <1>1, <2>1, ChannelOnward
<1>3. Distinct'
  BY DEF Orderly, Distinct
<1>4. Calm' => Counting'
  BY <1>1 DEF Orderly, Counting
<1>5. QED
  BY <1>2, <1>3, <1>4 DEF Orderly

LEMMA PopOrderly ==
    ASSUME Typed, Orderly, Top.next \in {"done", "Tag", "reading"}, stack' = Front(stack),
           \A x \in Exchanges : NextTag(x)' = NextTag(x),
           UNCHANGED <<link, frameMax, agreed, channelOf, broker, stored, happened>>
    PROVE  Orderly'
<1>1. stack # <<>> /\ stack \in Seq(Element) /\ TopOf(stack).next \in {"done", "Tag", "reading"}
  BY TopIsThere, TypedSays, TopIs
<1>2. ASSUME link = "opening" PROVE AllMethods(stack')
  <2>1. \A i \in DOMAIN stack' : i \in DOMAIN stack /\ stack'[i] = stack[i]
    BY <1>1, PopSays
  <2>2. AllMethods(stack)
    BY <1>2 DEF Orderly
  <2>3. QED
    BY <2>1, <2>2 DEF AllMethods
<1>3. \A x \in Exchanges :
          /\ Alone(stack, x) => Alone(stack', x)
          /\ \A c, tag, kept : \A counted \in BOOLEAN :
                InOrder(stack, x, c, tag, kept, counted)
                    => InOrder(stack', x, c, tag, kept, counted)
  BY <1>1, PopOrder
<1>4. QED
  BY <1>2, <1>3, StackOrderly

LEMMA ReturnOrderly ==
    ASSUME Typed, Orderly, Return \/ StopReading
    PROVE  Orderly'
<1>1. /\ Top.next \in {"done", "reading"} /\ stack' = Front(stack)
      /\ UNCHANGED <<link, frameMax, agreed, channelOf, exchange, broker, stored, happened>>
  BY DEF Return, StopReading
<1>2. stack # <<>> /\ stack \in Seq(Element) /\ TopOf(stack).next # "Tag"
  BY <1>1, TopIsThere, TypedSays, TopIs
<1>3. ASSUME NEW x \in Exchanges PROVE NextTag(x)' = NextTag(x)
  <2>1. Enabling(x, stack') <=> Enabling(x, stack)
    BY <1>1, <1>2, PopEnabling
  <2>2. QED
    BY <1>1, <2>1, SameNextTag
<1>4. QED
  BY <1>1, <1>3, PopOrderly

\* The tag that enableConfirms sets is the one that was counted already.
LEMMA StartCountingOrderly == ASSUME Typed, Orderly, StartCounting PROVE Orderly'
<1> DEFINE x == TopOf(stack).exchange
<1>1. /\ stack # <<>> /\ TopOf(stack).next = "Tag" /\ x \in Exchanges
      /\ exchange'[x].nextDeliveryTag =
             IF exchange[x].nextDeliveryTag = 0 THEN 1 ELSE exchange[x].nextDeliveryTag
      /\ \A y \in Exchanges : y # x => exchange'[y] = exchange[y]
      /\ stack' = Front(stack)
      /\ UNCHANGED <<link, frameMax, agreed, channelOf, broker, stored, happened>>
  BY StartCountingSays
<1>2. stack \in Seq(Element)
  BY TypedSays
<1>3. ASSUME NEW y \in Exchanges PROVE NextTag(y)' = NextTag(y)
  <2>1. Enabling(y, stack) <=> Enabling(y, stack') \/ x = y
    BY <1>1, <1>2, PopEnabling
  <2> HIDE DEF x
  <2>2. CASE y = x
    <3>1. NextTag(y) = exchange'[x].nextDeliveryTag
      BY <1>1, <2>1, <2>2 DEF NextTag
    <3>2. exchange'[y].nextDeliveryTag # 0
      BY <1>1, <2>2
    <3>3. NextTag(y)' = exchange'[y].nextDeliveryTag
      BY <3>2 DEF NextTag
    <3>4. QED
      BY <2>2, <3>1, <3>3
  <2>3. CASE y # x
    <3>1. exchange'[y] = exchange[y] /\ (Enabling(y, stack') <=> Enabling(y, stack))
      BY <1>1, <2>1, <2>3
    <3>2. QED
      BY <3>1, SameNextTag
  <2>4. QED
    BY <2>2, <2>3
<1>4. Top.next = "Tag"
  BY <1>1, TopIs
<1>5. QED
  BY <1>1, <1>3, <1>4, PopOrderly

LEMMA StartReadingOrderly == ASSUME Typed, Orderly, StartReading PROVE Orderly'
<1>1. /\ link = "up" /\ stack' = Append(stack, ReadyRead)
      /\ UNCHANGED <<link, frameMax, agreed, channelOf, exchange, broker, stored, happened>>
  BY DEF StartReading
<1> DEFINE e == ReadyRead
<1>2. e \in Element /\ e.next = "reading" /\ stack' = Append(stack, e) /\ stack \in Seq(Element)
  BY <1>1, ReadyReadSays, TypedSays
<1> HIDE DEF e
<1>3. ASSUME NEW x \in Exchanges
      PROVE  /\ NextTag(x)' = NextTag(x)
             /\ Alone(stack, x) => Alone(stack', x)
             /\ \A c, tag, kept : \A counted \in BOOLEAN :
                   InOrder(stack, x, c, tag, kept, counted)
                       => InOrder(stack', x, c, tag, kept, counted)
  <2>1. e.next \in {"Method", "Header", "Body", "done"} => e.exchange # x
    BY <1>2
  <2>2. Enabling(x, stack') <=> Enabling(x, stack)
    BY <1>2, PushEnabling
  <2>3. NextTag(x)' = NextTag(x)
    BY <1>1, <2>2, SameNextTag
  <2>4. QED
    BY <1>2, <2>1, <2>3, PushOther
<1>4. QED
  BY <1>1, <1>3, StackOrderly

LEMMA PublishOrderly ==
    ASSUME Typed, OpenInv, Orderly, Publish, Calm' => Calm
    PROVE  Orderly'
<1>1. PICK x \in Exchanges, size \in BodySizes :
          /\ exchange' = [exchange EXCEPT ![x].nextDeliveryTag =
                 IF exchange[x].nextDeliveryTag > 0 THEN exchange[x].nextDeliveryTag + 1 ELSE 0]
          /\ stack' = Append(stack, NewCall(x, published + 1, size, exchange[x].nextDeliveryTag,
                                            losses))
          /\ happened' = happened \cup TagEvents(x, exchange[x].nextDeliveryTag)
  BY PublishSays
<1>2. /\ UserRuns /\ published < MaxMessages
      /\ UNCHANGED <<link, frameMax, agreed, channelOf, broker, stored>>
  BY DEF Publish
<1>3. /\ stack \in Seq(Element) /\ exchange \in [Exchanges -> Exchange]
      /\ channelOf \in [Exchanges -> Channels]
      /\ published \in 0..MaxMessages /\ published \in Int /\ MaxMessages \in Int
      /\ \A y \in Exchanges : exchange[y].nextDeliveryTag <= published + 1
      /\ losses \in 0..MaxLosses /\ broker.channel \in [Channels -> BrokerChannel]
  BY TypedSays
<1> DEFINE tag == exchange[x].nextDeliveryTag
           call == NewCall(x, published + 1, size, tag, losses)
           next == IF tag > 0 THEN tag + 1 ELSE 0
<1>4. tag \in 0..MaxMessages /\ tag \in Int /\ next \in Int /\ published + 1 \in Messages
  BY <1>2, <1>3 DEF Exchange, Messages
<1>5. call \in Element /\ call.next = "Method" /\ call.exchange = x /\ call.tag = tag
  <2> HIDE DEF tag
  <2>1. QED
    BY <1>3, <1>4, NewCallSays
<1>6. stack' = Append(stack, call) /\ exchange' = [exchange EXCEPT ![x].nextDeliveryTag = next]
  BY <1>1
<1>7. \A y \in Exchanges : exchange'[y].nextDeliveryTag =
                               IF y = x THEN next ELSE exchange[y].nextDeliveryTag
  <2> HIDE DEF tag, next
  <2>1. QED
    BY <1>3, <1>6 DEF Exchange
<1>8. StoredMessages' = StoredMessages
  BY <1>2 DEF StoredMessages
<1> HIDE DEF call
<1>16. \A y \in Exchanges : Enabling(y, stack') <=> Enabling(y, stack)
  BY <1>3, <1>5, <1>6, PushEnabling
<1>17. ASSUME Calm' PROVE NextTag(x) = tag /\ NextTag(x)' = next
  <2>1. Calm /\ ~(tag = 0 /\ Enabling(x, stack))
    BY <1>1, <1>17 DEF Calm, TagEvents
  <2>2. NextTag(x) = tag
    BY <2>1 DEF NextTag
  <2>3. ~(exchange'[x].nextDeliveryTag = 0 /\ Enabling(x, stack'))
    BY <1>4, <1>7, <1>16, <2>1
  <2>4. NextTag(x)' = exchange'[x].nextDeliveryTag
    BY <2>3 DEF NextTag
  <2>5. QED
    BY <1>7, <2>2, <2>4
<1>18. \A y \in Exchanges : y # x => NextTag(y)' = NextTag(y)
  BY <1>7, <1>16, SameNextTag
<1>9. Alone(stack', x) /\ ChannelInOrder(x)'
  <2>1. Alone(stack, x)
    BY DEF Orderly
  <2>2. Alone(stack', x)
    BY <1>3, <1>5, <1>6, <2>1, PushOwnAlone
  <2> DEFINE c == broker.channel[channelOf[x]]
             first == NextTag(x)
             second == NextTag(x)'
             counted == Calm
             still == Calm'
  <2>3. c \in BrokerChannel /\ c' = c
    BY <1>2, <1>3
  <2>4. c.state = "open" => InOrder(stack, x, c, first, StoredMessages, counted)
    BY DEF Orderly, ChannelInOrder
  <2>5. /\ counted \in BOOLEAN /\ still \in BOOLEAN
        /\ still => counted /\ first = tag /\ second = next
    BY <1>17, Calmness
  <2>6. next = IF tag > 0 THEN tag + 1 ELSE 0
    OBVIOUS
  <2>7. ASSUME c.state = "open" PROVE InOrder(stack', x, c, second, StoredMessages, still)
    <3> HIDE DEF c, tag, next, first, second, counted, still
    <3>1. InOrder(stack, x, c, tag, StoredMessages, still)
      BY <2>4, <2>5, <2>7, LooseOrder
    <3>2. InOrder(stack', x, c, next, StoredMessages, still)
      BY <1>3, <1>4, <1>5, <1>6, <2>3, <2>5, <2>6, <3>1, PushOwn
    <3>3. QED
      BY <2>5, <3>2, LooseOrder
  <2>8. c'.state = "open" => InOrder(stack', x, c', second, StoredMessages', still)
    <3> HIDE DEF c, second, still
    <3>1. QED
      BY <1>8, <2>3, <2>7
  <2>9. QED
    BY <2>2, <2>8 DEF ChannelInOrder
<1>10. ASSUME NEW y \in Exchanges, y # x PROVE Alone(stack', y) /\ ChannelInOrder(y)'
  <2>1. Alone(stack, y) /\ ChannelInOrder(y)
    BY DEF Orderly
  <2>2. /\ Alone(stack, y) => Alone(stack', y)
        /\ \A d, u, kept : \A counted \in BOOLEAN :
              InOrder(stack, y, d, u, kept, counted) => InOrder(stack', y, d, u, kept, counted)
    BY <1>3, <1>5, <1>6, <1>10, PushOther
  <2>3. NextTag(y)' = NextTag(y)
    BY <1>10, <1>18
  <2> HIDE DEF tag, next
  <2>4. ChannelInOrder(y)'
    BY <1>2, <1>8, <2>1, <2>2, <2>3, ChannelOnward
  <2>5. QED
    BY <2>1, <2>2, <2>4
<1>11. ASSUME link = "opening" PROVE AllMethods(stack')
  <2>1. AllMethods(stack)
    BY <1>11 DEF Orderly
  <2>2. TopOf(stack).next # "Method"
    BY <1>2, TopIs DEF UserRuns
  <2>3. stack = <<>>
    BY <1>3, <2>1, <2>2, TopSays DEF AllMethods
  <2>4. /\ \A i \in DOMAIN stack' : i \in DOMAIN stack \/ i = Len(stack) + 1
        /\ stack'[Len(stack) + 1] = call
    BY <1>3, <1>5, <1>6, PushSays
  <2>5. QED
    BY <1>5, <2>3, <2>4 DEF AllMethods
<1>12. ASSUME Calm' PROVE Counting'
  <2>1. Counting
    BY <1>12 DEF Orderly
  <2>2. ASSUME link # "up", NEW y \in Exchanges PROVE NextTag(y)' = 0
    <3>1. NextTag(y) = 0 /\ NextTag(x) = 0
      BY <2>1, <2>2 DEF Counting
    <3>2. CASE y = x
      <4>1. tag = 0 /\ next = 0
        BY <1>12, <1>17, <3>1
      <4>2. QED
        BY <1>12, <1>17, <3>2, <4>1
    <3>3. CASE y # x
      BY <1>18, <3>1, <3>3
    <3>4. QED
      BY <3>2, <3>3
  <2>3. QED
    BY <1>2, <2>1, <2>2 DEF Counting
<1>13. Distinct'
  BY <1>2 DEF Orderly, Distinct
<1>14. \A y \in Exchanges : Alone(stack', y) /\ ChannelInOrder(y)'
  BY <1>9, <1>10
<1>15. QED
  BY <1>2, <1>11, <1>12, <1>13, <1>14 DEF Orderly

\* Confirms that are enabled where nothing is being sent.
LEMMA EnableConfirmsOrderly ==
    ASSUME Typed, OpenInv, Orderly, EnableConfirms, Framed', Calm' => Calm
    PROVE  Orderly'
<1>1. PICK x \in Exchanges :
          /\ Send(channelOf[x], [type |-> "Select"])
          /\ stack' = Append(stack, NewEnable(x))
          /\ happened' = happened \cup SendEvents(x, stack)
                            \cup (IF link = "down" THEN {"offline"} ELSE {})
  BY EnableConfirmsSays
<1>2. UNCHANGED <<link, frameMax, agreed, channelOf, exchange>>
  BY EnableConfirmsSays
<1>3. /\ stack \in Seq(Element) /\ exchange \in [Exchanges -> Exchange] /\ broker \in BrokerTyped
      /\ channelOf \in [Exchanges -> Channels]
      /\ \A n \in Channels : ChannelCounted(broker.channel[n], published)
      /\ broker.channel \in [Channels -> BrokerChannel]
  BY TypedSays
<1>4. SendEvents(x, stack) = {}
  BY <1>1, SendEventsTyped DEF Framed
<1>5. Pending(stack, x) = {} /\ (link = "down" \/ exchange[x].opened)
  BY <1>3, <1>4, Undisturbing
<1> DEFINE n == channelOf[x]
           c == broker.channel[n]
           frame == [type |-> "Select"]
           tag == NextTag(x)
           next == NextTag(x)'
<1>6. /\ n \in Channels /\ c \in BrokerChannel /\ c.content \in Content
      /\ ~c.confirming => c.count = 0
      /\ c.count \in Int /\ c.confirming \in BOOLEAN /\ tag \in Int /\ tag >= 0
  <2>1. n \in Channels /\ c \in BrokerChannel /\ ChannelCounted(c, published)
    BY <1>3
  <2>2. tag \in Int /\ tag >= 0
    <3>1. exchange[x].nextDeliveryTag \in Int /\ exchange[x].nextDeliveryTag >= 0
      BY <1>3, Constants DEF Exchange
    <3>2. QED
      BY <3>1 DEF NextTag
  <2>3. c.count \in Int /\ c.confirming \in BOOLEAN
    BY <2>1, Constants DEF BrokerChannel
  <2> HIDE DEF c, tag, n
  <2>4. QED
    BY <2>1, <2>2, <2>3 DEF ChannelCounted
<1> DEFINE e == NewEnable(x)
<1>21. e \in Element /\ e.next = "Tag" /\ e.exchange = x /\ stack' = Append(stack, e)
  BY <1>1, NewEnableSays
<1> HIDE DEF e
<1>22. \A y \in Exchanges : Enabling(y, stack') <=> Enabling(y, stack) \/ x = y
  BY <1>3, <1>21, PushEnabling
<1>7. /\ next = IF tag = 0 THEN 1 ELSE tag
      /\ \A y \in Exchanges : y # x => NextTag(y)' = NextTag(y)
  <2>1. \A y \in Exchanges : y # x => NextTag(y)' = NextTag(y)
    BY <1>2, <1>22, SameNextTag
  <2>2. Enabling(x, stack') /\ exchange' = exchange
    BY <1>2, <1>22
  <2>3. next = IF tag = 0 THEN 1 ELSE tag
    BY <2>2 DEF NextTag
  <2>4. QED
    BY <2>1, <2>3
<1>8. \A y \in Exchanges : y # x => channelOf[y] # n
  BY DEF Orderly, Distinct
<1>9. ~broker.refused
  BY DEF Orderly
<1>10. \/ UNCHANGED <<broker, stored>> /\ c.state # "open"
       \/ /\ c.state = "open" /\ stored' = stored
          /\ broker' = [broker EXCEPT !.channel[n] = [c EXCEPT !.confirming = TRUE]]
          /\ InOrder(stack, x, c, tag, StoredMessages, Calm)
  <2>1. Send(n, frame)
    BY <1>1
  <2>2. CASE link = "down"
    <3>1. c = Shut("closed")
      BY <1>6, <2>2 DEF OpenInv, Silent
    <3>2. c.state # "open"
      BY <3>1, ShutTyped, Constants
    <3>3. UNCHANGED <<broker, stored>>
      BY <2>1, <2>2 DEF Send
    <3>4. QED
      BY <3>2, <3>3
  <2>3. CASE link # "down"
    <3>1. c.state \in {"open", "closing"}
      BY <1>5, <2>3, OpenedSays
    <3>2. CASE c.state = "closing"
      <4> HIDE DEF frame
      <4>1. QED
        BY <1>3, <1>6, <1>9, <2>1, <2>3, <3>2, SendSays
    <3>3. CASE c.state = "open"
      <4>1. InOrder(stack, x, c, tag, StoredMessages, Calm)
        BY <3>3 DEF Orderly, ChannelInOrder
      <4>2. c.content = Idle
        <5> HIDE DEF c, tag
        <5>1. QED
          BY <1>5, <4>1 DEF InOrder
      <4>3. Expected(c, frame) /\ frame.type = "Select"
        BY <4>2 DEF Expected, Idle
      <4> HIDE DEF frame, tag
      <4>4. Grown(c, frame) = [c EXCEPT !.confirming = TRUE] /\ ~Completes(c, frame)
        BY <1>6, <4>3, GrownIs
      <4>5. /\ broker' = [broker EXCEPT !.channel[n] = Grown(c, frame)]
            /\ stored' = IF Completes(c, frame)
                         THEN stored \cup {[message |-> c.content.message,
                                            tag |-> c.content.tag, number |-> Number(c)]}
                         ELSE stored
        BY <1>3, <1>6, <1>9, <2>1, <2>3, <3>3, <4>3, SendSays
      <4>6. QED
        BY <3>3, <4>1, <4>4, <4>5
    <3>4. QED
      BY <3>1, <3>2, <3>3
  <2>4. QED
    BY <2>2, <2>3
<1>11. stored' = stored /\ StoredMessages' = StoredMessages
  <2>1. stored' = stored
    BY <1>10
  <2>2. QED
    BY <2>1 DEF StoredMessages
<1>12. /\ broker'.refused = broker.refused
       /\ \A m \in Channels : m # n => broker'.channel[m] = broker.channel[m]
  <2> HIDE DEF c, n, tag
  <2>1. QED
    BY <1>3, <1>6, <1>10 DEF BrokerTyped
\* Nothing of x is changed on the stack.
<1>23. /\ Alone(stack', x)
       /\ \A d, u, kept : \A counted \in BOOLEAN :
             InOrder(stack, x, d, u, kept, counted) => InOrder(stack', x, d, u, kept, counted)
  <2>1. Alone(stack, x)
    BY DEF Orderly
  <2>2. QED
    BY <1>3, <1>21, <2>1, PushOther
<1> DEFINE d == broker'.channel[n]
<1>13. ChannelInOrder(x)'
  <2>1. CASE UNCHANGED <<broker, stored>> /\ c.state # "open"
    <3>1. d.state # "open"
      BY <2>1
    <3>2. QED
      BY <1>2, <3>1 DEF ChannelInOrder
  <2>2. CASE /\ broker' = [broker EXCEPT !.channel[n] = [c EXCEPT !.confirming = TRUE]]
             /\ InOrder(stack, x, c, tag, StoredMessages, Calm)
    <3>1. d = [c EXCEPT !.confirming = TRUE]
      <4> HIDE DEF c, n
      <4>1. broker' = [broker EXCEPT !.channel[n] = [c EXCEPT !.confirming = TRUE]]
        BY <2>2
      <4>2. QED
        BY <1>3, <1>6, <4>1 DEF BrokerTyped
    <3>2. d.content = c.content /\ d.count = c.count /\ d.confirming
      BY <1>6, <3>1 DEF BrokerChannel
    <3> DEFINE counted == Calm
               still == Calm'
    <3>3. /\ counted \in BOOLEAN /\ still \in BOOLEAN /\ (still => counted)
          /\ InOrder(stack, x, c, tag, StoredMessages, counted)
      BY <2>2, Calmness
    <3> HIDE DEF c, d, tag, next, counted, still
    <3>4. c.content = Idle /\ (counted => tag = Number(c) /\ (c.confirming <=> tag > 0))
      BY <1>5, <3>3 DEF InOrder
    <3>5. ASSUME still PROVE next = Number(d) /\ next > 0
      <4>1. tag = Number(c) /\ (c.confirming <=> tag > 0)
        BY <3>3, <3>4, <3>5
      <4>2. CASE c.confirming
        BY <1>6, <1>7, <3>2, <4>1, <4>2 DEF Number
      <4>3. CASE ~c.confirming
        <5>1. tag = 0 /\ c.count = 0
          BY <1>6, <4>1, <4>3 DEF Number
        <5>2. QED
          BY <1>7, <3>2, <5>1 DEF Number
      <4>4. QED
        BY <4>2, <4>3
    <3>6. \A i \in DOMAIN stack : ~First(stack, x, i)
      BY <1>5 DEF First
    <3>7. \A i \in DOMAIN stack : stack[i].next = "done" /\ stack[i].exchange = x =>
              stack[i].message \in StoredMessages
      BY <3>3 DEF InOrder
    <3>8. InOrder(stack, x, d, next, StoredMessages, still)
      BY <1>5, <3>2, <3>4, <3>5, <3>6, <3>7 DEF InOrder
    <3>9. InOrder(stack', x, d, next, StoredMessages', still)
      BY <1>11, <1>23, <3>3, <3>8
    <3>10. QED
      BY <1>2, <3>9 DEF ChannelInOrder, d, next, still
  <2>3. QED
    BY <1>10, <2>1, <2>2
<1>14. ASSUME NEW y \in Exchanges, y # x PROVE Alone(stack', y) /\ ChannelInOrder(y)'
  <2>1. broker'.channel[channelOf'[y]] = broker.channel[channelOf[y]]
    BY <1>2, <1>3, <1>8, <1>12, <1>14
  <2>2. NextTag(y)' = NextTag(y)
    BY <1>7, <1>14
  <2>3. ChannelInOrder(y) /\ Alone(stack, y)
    BY DEF Orderly
  <2>4. /\ Alone(stack, y) => Alone(stack', y)
        /\ \A g, u, kept : \A counted \in BOOLEAN :
              InOrder(stack, y, g, u, kept, counted) => InOrder(stack', y, g, u, kept, counted)
    BY <1>3, <1>21, PushOther
  <2> HIDE DEF tag, next, c, d, n
  <2>5. ChannelInOrder(y)'
    BY <1>11, <2>1, <2>2, <2>3, <2>4, ChannelOnward
  <2>6. QED
    BY <2>3, <2>4, <2>5
<1>15. Distinct' /\ ~broker'.refused
  BY <1>2, <1>9, <1>12 DEF Orderly, Distinct
<1>16. \A y \in Exchanges : Alone(stack', y) /\ ChannelInOrder(y)'
  BY <1>13, <1>14, <1>23
<1>17. link # "down" => link = "up" /\ frameMax' = agreed'
  <2>1. ASSUME link # "down" PROVE link = "up"
    BY <1>5, <2>1, OpenedSays
  <2>2. QED
    BY <1>2, <2>1 DEF Orderly
<1>18. Calm' => Counting'
  <2> SUFFICES ASSUME Calm' PROVE Counting'
    OBVIOUS
  <2>1. link = "up"
    <3>1. link # "down"
      BY <1>1 DEF Calm
    <3>2. QED
      BY <1>17, <3>1
  <2>2. Counting
    BY DEF Orderly
  <2>3. QED
    BY <1>2, <1>11, <2>1, <2>2 DEF Counting
<1>19. link' # "opening"
  BY <1>2, <1>17
<1>20. QED
  BY <1>2, <1>15, <1>16, <1>17, <1>18, <1>19 DEF Orderly

LEMMA SendNextOrderly ==
    ASSUME Typed, OpenInv, Orderly, SendNext, Framed'
    PROVE  Orderly'
<1> DEFINE top == TopOf(stack)
           frame == NextFrame(top).frame
           after == NextFrame(top).call
           x == top.exchange
           n == channelOf[x]
           c == broker.channel[n]
           tag == NextTag(x)
           counted == Calm
<1>1. /\ stack # <<>> /\ top = stack[Len(stack)] /\ Len(stack) \in DOMAIN stack
      /\ top \in PublishCall /\ top.next \in {"Method", "Header", "Body"}
      /\ x \in Exchanges /\ n \in Channels
      /\ top.next = "Body" => top.sent < top.size
      /\ top.next \in {"Method", "Header"} => top.sent = 0
      /\ Send(n, frame)
      /\ stack' = Append(Front(stack), after)
      /\ happened' = happened \cup SendEvents(x, Front(stack))
      /\ UNCHANGED <<link, frameMax, agreed, channelOf, exchange, in, published, losses, calls>>
  BY SendNextSays
<1>2. /\ stack \in Seq(Element) /\ exchange \in [Exchanges -> Exchange] /\ broker \in BrokerTyped
      /\ channelOf \in [Exchanges -> Channels]
      /\ \A m \in Channels : ChannelCounted(broker.channel[m], published)
      /\ broker.channel \in [Channels -> BrokerChannel]
      /\ frameMax \in Int /\ frameMax > 7
  BY TypedSays
<1>3. /\ after \in PublishCall /\ after.exchange = x /\ after \in Element
  <2> HIDE DEF top
  <2>1. after \in PublishCall /\ after.exchange = top.exchange
    BY <1>1, <1>2, NextFrameSays
  <2>2. QED
    BY <2>1 DEF Element
<1>4. Front(stack) \in Seq(Element)
  BY <1>1, <1>2, PopSays
<1>22. SendEvents(x, Front(stack)) = {} /\ happened' = happened /\ Calm' = counted
  <2> HIDE DEF x
  <2>1. SendEvents(x, Front(stack)) = {}
    BY <1>1, SendEventsTyped DEF Framed
  <2>2. happened' = happened
    BY <1>1, <2>1
  <2>3. QED
    BY <2>1, <2>2 DEF Calm
<1>23. \A y \in Exchanges : NextTag(y)' = NextTag(y)
  <2>1. top.next # "Tag" /\ after.next # "Tag"
    BY <1>1, <1>3 DEF PublishCall
  <2> HIDE DEF after, top, x
  <2>2. TopOf(stack).next # "Tag"
    BY <2>1 DEF top
  <2>3. \A y \in Exchanges : Enabling(y, stack') <=> Enabling(y, stack)
    BY <1>1, <1>2, <1>3, <2>1, <2>2, ReplaceEnabling
  <2>4. QED
    BY <1>1, <2>3, SameNextTag
<1>5. link = "down" \/ exchange[x].opened
  <2> HIDE DEF x
  <2>1. QED
    BY <1>1, <1>4, <1>22, Undisturbing
<1>6. Pending(Front(stack), x) = {}
  <2> HIDE DEF x
  <2>1. QED
    BY <1>1, <1>4, <1>22, Undisturbing
<1>7. Unsent(top, x)
  BY <1>1 DEF Unsent
<1>8. \A y \in Exchanges : y # x => channelOf[y] # n
  <2> HIDE DEF x
  <2>1. QED
    BY <1>1 DEF Orderly, Distinct
<1>9. /\ ~broker.refused /\ (link # "down" => agreed = frameMax)
      /\ counted \in BOOLEAN /\ (counted => \A m \in stored : m.tag = m.number)
  BY Calmness DEF Orderly, Counting
<1>10. c \in BrokerChannel /\ c.content \in Content /\ tag \in Int
  <2> HIDE DEF x
  <2>1. c \in BrokerChannel /\ ChannelCounted(c, published)
    BY <1>1, <1>2
  <2>2. tag \in Int
    <3>1. exchange[x].nextDeliveryTag \in Int
      BY <1>1, <1>2, Constants DEF Exchange
    <3>2. QED
      BY <3>1 DEF NextTag
  <2> HIDE DEF c
  <2>3. QED
    BY <2>1, <2>2 DEF ChannelCounted
<1>11. Alone(stack', x)
  <2> HIDE DEF top, after, x
  <2>1. Unsent(TopOf(stack), x)
    BY <1>7 DEF top
  <2>2. QED
    BY <1>1, <1>2, <1>3, <1>6, <2>1, ReplaceOwn
\* What the frame does: nothing, or what the channel expects.
<1>12. \/ UNCHANGED <<broker, stored>> /\ c.state # "open"
       \/ /\ link = "up" /\ c.state = "open"
          /\ stored \subseteq stored' /\ (counted => \A m \in stored' : m.tag = m.number)
          /\ broker' = [broker EXCEPT !.channel[n] = Grown(c, frame)]
          /\ InOrder(stack', x, Grown(c, frame), tag, StoredMessages', counted)
  <2>1. CASE link = "down"
    <3>1. c = Shut("closed")
      BY <1>1, <2>1 DEF OpenInv, Silent
    <3>2. c.state # "open"
      BY <3>1, ShutTyped, Constants
    <3>3. UNCHANGED <<broker, stored>>
      BY <1>1, <2>1 DEF Send
    <3>4. QED
      BY <3>2, <3>3
  <2>2. CASE link # "down"
    <3>1. link = "up" /\ c.state \in {"open", "closing"}
      <4> HIDE DEF x
      <4>1. QED
        BY <1>1, <1>5, <2>2, OpenedSays
    <3>2. CASE c.state = "closing"
      <4> HIDE DEF frame, n
      <4>1. QED
        BY <1>1, <1>2, <1>9, <2>2, <3>2, SendSays
    <3>3. CASE c.state = "open"
      <4>1. InOrder(stack, x, c, tag, StoredMessages, counted)
        <5> HIDE DEF x
        <5>1. QED
          BY <1>1, <3>3 DEF Orderly, ChannelInOrder
      <4> DEFINE kept == StoredMessages
                 s == stack
      <4>2. /\ Expected(c, frame)
            /\ Completes(c, frame) => /\ c.content.message = top.message
                                      /\ counted => c.content.tag = Number(c)
            /\ \A more : /\ kept \subseteq more
                         /\ Completes(c, frame) => c.content.message \in more
                         => InOrder(Append(Front(s), after), x, Grown(c, frame), tag, more, counted)
        <5>1. agreed = frameMax /\ top = TopOf(s)
          BY <1>9, <2>2
        <5> HIDE DEF x, c, tag, kept, top, counted
        <5>2. s # <<>> /\ s \in Seq(Element) /\ Pending(Front(s), x) = {} /\ InOrder(s, x, c, tag, kept, counted)
          BY <1>1, <1>2, <1>6, <4>1 DEF kept
        <5> HIDE DEF s
        <5>3. top \in PublishCall /\ top.exchange = x /\ top = TopOf(s) /\ Unsent(top, x)
          BY <1>1, <1>7, <5>1 DEF x
        <5> HIDE DEF top
        <5>4. /\ top.next = "Body" => top.sent < top.size
              /\ top.next \in {"Method", "Header"} => top.sent = 0
          BY <1>1 DEF top
        <5>5. counted \in BOOLEAN
          BY <1>9
        <5> HIDE DEF frame, after
        <5>6. frame = NextFrame(top).frame /\ after = NextFrame(top).call
          BY DEF frame, after
        <5>7. frameMax \in Int /\ frameMax > 7 /\ c \in BrokerChannel /\ c.content \in Content /\ tag \in Int
          BY <1>2, <1>10
        <5>8. OwnFrameTaken(s, x, c, tag, kept, top, counted)
          BY ONLY <5>1, <5>2, <5>3, <5>4, <5>5, <5>7, OwnFrame
        <5>9. QED
          BY ONLY <5>6, <5>8 DEF OwnFrameTaken
      <4>3. /\ broker' = [broker EXCEPT !.channel[n] = Grown(c, frame)]
            /\ stored' = IF Completes(c, frame)
                         THEN stored \cup {[message |-> c.content.message,
                                            tag |-> c.content.tag, number |-> Number(c)]}
                         ELSE stored
        <5> HIDE DEF frame, n
        <5>1. QED
          BY <1>1, <1>2, <1>9, <2>2, <3>3, <4>2, SendSays
      <4> HIDE DEF frame, after, c, n, tag, x, top, counted
      <4>4. stored \subseteq stored' /\ (counted => \A m \in stored' : m.tag = m.number)
        BY <1>9, <4>2, <4>3
      <4>5. kept \subseteq StoredMessages'
        BY <4>4 DEF StoredMessages
      <4>6. Completes(c, frame) => c.content.message \in StoredMessages'
        <5> SUFFICES ASSUME Completes(c, frame) PROVE c.content.message \in StoredMessages'
          OBVIOUS
        <5> DEFINE m == [message |-> c.content.message, tag |-> c.content.tag, number |-> Number(c)]
        <5>1. m \in stored' /\ m.message = c.content.message
          BY <4>3
        <5> HIDE DEF m
        <5>2. QED
          BY <5>1 DEF StoredMessages
      <4>7. InOrder(stack', x, Grown(c, frame), tag, StoredMessages', counted)
        BY <1>1, <4>2, <4>5, <4>6
      <4>8. QED
        BY <3>1, <3>3, <4>3, <4>4, <4>7
    <3>4. QED
      BY <3>1, <3>2, <3>3
  <2>3. QED
    BY <2>1, <2>2
<1> HIDE DEF frame, after, c, tag, top, counted
<1>13. /\ broker'.refused = broker.refused /\ (counted => \A m \in stored' : m.tag = m.number)
       /\ stored \subseteq stored'
       /\ \A m \in Channels : m # n => broker'.channel[m] = broker.channel[m]
  <2> HIDE DEF n
  <2>1. QED
    BY <1>1, <1>2, <1>9, <1>12 DEF BrokerTyped
<1>14. PICK z \in Exchanges : z = x
  BY <1>1
<1>15. ChannelInOrder(z)'
  <2> DEFINE d == broker'.channel[n]
  <2>1. channelOf'[z] = n /\ NextTag(z)' = tag
    BY <1>1, <1>14, <1>23 DEF tag
  <2>2. CASE UNCHANGED <<broker, stored>> /\ c.state # "open"
    <3>1. d.state # "open"
      BY <2>2 DEF c
    <3>2. QED
      BY <2>1, <3>1 DEF ChannelInOrder
  <2>3. CASE /\ broker' = [broker EXCEPT !.channel[n] = Grown(c, frame)]
             /\ InOrder(stack', x, Grown(c, frame), tag, StoredMessages', counted)
    <3>1. d = Grown(c, frame)
      <4> HIDE DEF n
      <4>1. QED
        BY <1>1, <1>2, <2>3 DEF BrokerTyped
    <3>2. QED
      BY <1>14, <1>22, <2>1, <2>3, <3>1 DEF ChannelInOrder
  <2>4. QED
    BY <1>12, <2>2, <2>3
<1>16. ASSUME NEW y \in Exchanges, y # z PROVE Alone(stack', y) /\ ChannelInOrder(y)'
  <2>1. Alone(stack, y) /\ ChannelInOrder(y)
    BY DEF Orderly
  <2>2. StoredMessages \subseteq StoredMessages'
    BY <1>13 DEF StoredMessages
  <2>3. broker'.channel[channelOf[y]] = broker.channel[channelOf[y]]
    BY <1>2, <1>8, <1>13, <1>16, <1>14
  <2> DEFINE e == broker.channel[channelOf[y]]
             t == NextTag(y)
  <2>4. e' = e /\ NextTag(y)' = t
    BY <1>1, <1>23, <2>3
  <2>5. e.state = "open" => InOrder(stack, y, e, t, StoredMessages, counted)
    BY <2>1 DEF ChannelInOrder, counted
  <2>6. TopOf(stack).exchange # y /\ after.exchange # y
    BY <1>3, <1>16, <1>14 DEF top
  <2> HIDE DEF e, t
  <2>7. /\ Alone(stack, y) => Alone(stack', y)
        /\ \A d, u, kept, more :
              kept \subseteq more /\ InOrder(stack, y, d, u, kept, counted)
                  => InOrder(stack', y, d, u, more, counted)
    BY <1>1, <1>2, <1>3, <1>9, <2>6, ReplaceOther
  <2>8. e'.state = "open" => InOrder(stack', y, e', NextTag(y)', StoredMessages', Calm')
    BY <1>22, <2>2, <2>4, <2>5, <2>7
  <2>9. QED
    BY <2>1, <2>7, <2>8 DEF ChannelInOrder, e
<1>17. \A y \in Exchanges : Alone(stack', y) /\ ChannelInOrder(y)'
  BY <1>11, <1>15, <1>16, <1>14
<1>18. Distinct'
  BY <1>1 DEF Orderly, Distinct
<1>19. link' # "opening"
  <2> HIDE DEF x
  <2>1. QED
    BY <1>1, <1>5, OpenedSays
<1>20. Calm' => Counting'
  <2>1. counted => Counting
    BY DEF Orderly, counted
  <2>2. QED
    BY <1>1, <1>13, <1>22, <1>23, <2>1 DEF Counting
<1>21. QED
  BY <1>1, <1>9, <1>13, <1>17, <1>18, <1>19, <1>20 DEF Orderly

LEMMA ReceiveOpenOkOrderly == ASSUME Typed, Orderly, ReceiveOpenOk PROVE Orderly'
<1>1. /\ exchange' = Openings(Head(in).channel, TRUE)
      /\ UNCHANGED <<link, frameMax, agreed, channelOf, stack, broker, stored>>
  BY DEF ReceiveOpenOk, Openings
<1>4. happened' = happened
  BY DEF ReceiveOpenOk
<1>2. \A x \in Exchanges : exchange'[x].nextDeliveryTag = exchange[x].nextDeliveryTag
  <2> DEFINE opened == TRUE
             n == Head(in).channel
  <2>1. exchange' = Openings(n, opened) /\ opened \in BOOLEAN
    BY <1>1
  <2> HIDE DEF opened, n
  <2>2. QED
    BY <2>1, OpeningsSay, TypedSays
<1>3. QED
  BY <1>1, <1>2, <1>4, OrderlyStays

\* A channel is shut, the others and the tags stay.
LEMMA ReshutOrderly ==
    ASSUME Typed, Orderly, NEW n \in Channels, NEW state \in {"closed", "closing"},
           broker' = Reshut(n, state),
           UNCHANGED <<link, frameMax, agreed, channelOf, stack, stored, happened>>,
           \A x \in Exchanges : exchange'[x].nextDeliveryTag = exchange[x].nextDeliveryTag
    PROVE  Orderly'
<1>1. broker \in BrokerTyped /\ channelOf \in [Exchanges -> Channels]
  BY TypedSays
<1>2. /\ broker'.refused = broker.refused
      /\ \A m \in Channels : broker'.channel[m] = IF m = n THEN Shut(state) ELSE broker.channel[m]
  BY <1>1, ReshutSays
<1>3. Shut(state).state # "open"
  BY ShutTyped, Constants
<1>4. StoredMessages' = StoredMessages /\ Calm' = Calm
  BY DEF StoredMessages, Calm
<1>8. \A x \in Exchanges : NextTag(x)' = NextTag(x)
  BY SameNextTag
<1>5. ASSUME NEW x \in Exchanges PROVE Alone(stack', x) /\ ChannelInOrder(x)'
  <2>1. Alone(stack', x) /\ ChannelInOrder(x)
    BY DEF Orderly
  <2>2. CASE channelOf[x] = n
    <3>1. broker'.channel[channelOf'[x]].state # "open"
      BY <1>1, <1>2, <1>3, <2>2
    <3>2. QED
      BY <2>1, <3>1 DEF ChannelInOrder
  <2>3. CASE channelOf[x] # n
    <3>1. broker'.channel[channelOf'[x]] = broker.channel[channelOf[x]]
      BY <1>1, <1>2, <2>3
    <3>2. QED
      BY <1>4, <1>8, <2>1, <3>1, ChannelOnward
  <2>4. QED
    BY <2>2, <2>3
<1>6. Distinct'
  BY DEF Orderly, Distinct
<1>7. Calm' => Counting'
  BY <1>4, <1>8 DEF Orderly, Counting
<1>9. QED
  BY <1>2, <1>5, <1>6, <1>7 DEF Orderly

LEMMA ReceiveCloseOrderly == ASSUME Typed, Orderly, ReceiveClose PROVE Orderly'
<1> DEFINE n == Head(in).channel
<1>1. /\ Receive("Close") /\ exchange' = Openings(n, FALSE)
      /\ broker' = IF broker.refused THEN broker ELSE Reshut(n, "closed")
      /\ UNCHANGED <<link, frameMax, agreed, channelOf, stack, stored, happened>>
  BY DEF ReceiveClose, Openings, Reshut
<1>2. n \in Channels
  BY <1>1, ReceiveSays
<1>3. \A x \in Exchanges : exchange'[x].nextDeliveryTag = exchange[x].nextDeliveryTag
  BY <1>1, OpeningsSay, TypedSays
<1>4. broker' = Reshut(n, "closed")
  BY <1>1 DEF Orderly
<1> HIDE DEF n
<1>5. QED
  BY <1>1, <1>2, <1>3, <1>4, ReshutOrderly

LEMMA BrokerClosesOrderly == ASSUME Typed, Orderly, BrokerCloses PROVE Orderly'
<1>1. PICK n \in Channels : broker' = Reshut(n, "closing")
  BY BrokerClosesSays
<1>2. UNCHANGED <<link, frameMax, agreed, channelOf, exchange, stack, stored, happened>>
  BY DEF BrokerCloses
<1>3. QED
  BY <1>1, <1>2, ReshutOrderly

\* A step after which no channel is open and no tag is counted.
LEMMA ClosedOrderly ==
    ASSUME Typed, Orderly, broker' = NoBroker,
           UNCHANGED <<channelOf, stack, stored>>, Calm' => Calm,
           Calm' => \A x \in Exchanges : NextTag(x)' = 0,
           link' # "down" => frameMax' = agreed',
           link' = "opening" => stack = <<>>
    PROVE  Orderly'
<1>1. channelOf \in [Exchanges -> Channels]
  BY TypedSays
<1>2. ~broker'.refused /\ \A n \in Channels : broker'.channel[n].state # "open"
  <2>1. NoBroker.refused = FALSE /\ \A n \in Channels : NoBroker.channel[n] = Shut("closed")
    BY NoBrokerTyped, Constants
  <2>2. Shut("closed").state # "open"
    BY ShutTyped, Constants
  <2>3. QED
    BY <2>1, <2>2
<1>3. ASSUME NEW x \in Exchanges PROVE Alone(stack', x) /\ ChannelInOrder(x)'
  BY <1>1, <1>2 DEF Orderly, ChannelInOrder
<1>4. Distinct'
  BY DEF Orderly, Distinct
<1>5. link' = "opening" => AllMethods(stack')
  BY DEF AllMethods
<1>6. Calm' => Counting'
  BY DEF Orderly, Counting
<1>7. QED
  BY <1>2, <1>3, <1>4, <1>5, <1>6 DEF Orderly

LEMMA TunedOrderly == ASSUME Typed, Orderly, Tuned PROVE Orderly'
<1>1. PICK offer \in FrameMaxes : frameMax' = Negotiated(offer) /\ agreed' = Negotiated(offer)
  BY DEF Tuned
<1>2. /\ link = "down" /\ stack = <<>> /\ broker' = NoBroker
      /\ UNCHANGED <<channelOf, exchange, stack, stored, happened>>
  BY DEF Tuned
<1>3. Calm' = Calm /\ \A x \in Exchanges : NextTag(x)' = NextTag(x)
  BY <1>2, SameNextTag DEF Calm
<1>4. Calm' => \A x \in Exchanges : NextTag(x)' = 0
  BY <1>2, <1>3 DEF Orderly, Counting
<1>5. QED
  BY <1>1, <1>2, <1>3, <1>4, ClosedOrderly

\* The tags start again, and no enableConfirms is left that counts on.
LEMMA LinkLostOrderly == ASSUME Typed, Orderly, LinkLost PROVE Orderly'
<1>1. /\ link' = "down" /\ broker' = NoBroker
      /\ \A x \in Exchanges : exchange'[x].nextDeliveryTag = 0
      /\ happened' = IF \E x \in Exchanges : Enabling(x, stack)
                     THEN happened \cup {"enabling"} ELSE happened
      /\ UNCHANGED <<channelOf, stack, stored>>
  BY LinkLostSays
<1>2. ASSUME Calm' PROVE Calm /\ \A x \in Exchanges : ~Enabling(x, stack')
  BY <1>1, <1>2 DEF Calm
<1>3. Calm' => \A x \in Exchanges : NextTag(x)' = 0
  BY <1>1, <1>2 DEF NextTag
<1>4. QED
  BY <1>1, <1>2, <1>3, ClosedOrderly

\* When the channels are opened nothing is being published.
LEMMA LinkUpOrderly == ASSUME Typed, Orderly, LinkUp PROVE Orderly'
<1>1. /\ link = "opening" /\ CanRead /\ link' = "up"
      /\ broker'.refused = \E n \in Channels, x, y \in Exchanges :
                               x # y /\ {x, y} \subseteq Opening(n)
      /\ \A n \in Channels : broker'.channel[n] = Shut(IF n \in Opened THEN "open" ELSE "closed")
      /\ UNCHANGED <<frameMax, agreed, channelOf, exchange, stack, stored, happened>>
  BY LinkUpSays
<1>2. stack \in Seq(Element) /\ channelOf \in [Exchanges -> Channels]
  BY TypedSays
<1>3. stack = <<>>
  <2>1. AllMethods(stack)
    BY <1>1 DEF Orderly
  <2>2. TopOf(stack).next # "Method"
    BY <1>1, TopIs DEF CanRead, SocketRuns
  <2>3. QED
    BY <1>2, <2>1, <2>2, TopSays DEF AllMethods
<1>4. ~broker'.refused
  <2>1. Distinct
    BY DEF Orderly
  <2>2. QED
    BY <1>1, <2>1 DEF Distinct, Opening, OnChannel
<1>9. Calm' = Calm /\ \A x \in Exchanges : NextTag(x)' = NextTag(x)
  BY <1>1, SameNextTag DEF Calm
<1>5. ASSUME NEW x \in Exchanges PROVE Alone(stack', x) /\ ChannelInOrder(x)'
  <2>1. Alone(stack', x)
    BY <1>1 DEF Orderly
  <2> DEFINE state == IF channelOf[x] \in Opened THEN "open" ELSE "closed"
             c == Shut(state)
  <2>2. broker'.channel[channelOf'[x]] = c
    BY <1>1, <1>2
  <2> DEFINE tag == NextTag(x)'
             counted == Calm'
  <2>3. counted \in BOOLEAN /\ (counted => tag = 0)
    BY <1>1, <1>9, Calmness DEF Orderly, Counting
  <2>4. c.content = Idle /\ c.count = 0 /\ c.confirming = FALSE
    BY ShutTyped, Constants
  <2> HIDE DEF c, tag, counted
  <2>5. DOMAIN stack' = {} /\ Pending(stack', x) = {}
    BY <1>1, <1>3 DEF Pending
  <2>6. InOrder(stack', x, c, tag, StoredMessages', counted)
    BY <2>3, <2>4, <2>5 DEF InOrder, Number
  <2>7. QED
    BY <2>1, <2>2, <2>6 DEF ChannelInOrder, tag, counted
<1>6. Distinct'
  BY <1>1 DEF Orderly, Distinct
<1>7. frameMax' = agreed' /\ (Calm' => Counting')
  BY <1>1, <1>9 DEF Orderly, Counting
<1>8. QED
  BY <1>1, <1>4, <1>5, <1>6, <1>7 DEF Orderly

LEMMA HappenedStays == [Next]_vars => happened \subseteq happened'
<1> SUFFICES ASSUME [Next]_vars PROVE happened \subseteq happened'
  OBVIOUS
<1>1. CASE User
  BY <1>1 DEF User, SetFrameMax, EnableConfirms, Publish
<1>2. CASE SendNext \/ Return \/ StartCounting \/ BrokerCloses
  BY <1>2 DEF SendNext, Return, StartCounting, BrokerCloses
<1>3. CASE Reading
  BY <1>3 DEF Reading, StartReading, ReceiveOpenOk, ReceiveClose, StopReading
<1>4. CASE Tuned \/ LinkUp \/ LinkLost
  BY <1>4 DEF Tuned, LinkUp, LinkLost
<1>5. CASE UNCHANGED vars
  BY <1>5 DEF vars
<1>6. QED
  BY <1>1, <1>2, <1>3, <1>4, <1>5 DEF Next

LEMMA NextOrderly == ASSUME Typed, OpenInv, Orderly, [Next]_vars, Framed' PROVE Orderly'
<1>8. Calm' => Calm
  BY HappenedStays DEF Calm
<1>1. CASE User
  BY <1>1, <1>8, SetFrameMaxOrderly, EnableConfirmsOrderly, PublishOrderly DEF User
<1>2. CASE SendNext
  BY <1>2, SendNextOrderly
<1>3. CASE Return \/ StopReading
  BY <1>3, ReturnOrderly
<1>4. CASE StartCounting
  BY <1>4, StartCountingOrderly
<1>5. CASE StartReading \/ ReceiveOpenOk \/ ReceiveClose \/ BrokerCloses
  BY <1>5, StartReadingOrderly, ReceiveOpenOkOrderly, ReceiveCloseOrderly, BrokerClosesOrderly
<1>6. CASE Tuned \/ LinkUp \/ LinkLost
  BY <1>6, TunedOrderly, LinkUpOrderly, LinkLostOrderly
<1>7. CASE UNCHANGED vars
  BY <1>7, OrderlyStays DEF vars
<1>9. QED
  BY <1>1, <1>2, <1>3, <1>4, <1>5, <1>6, <1>7 DEF Next, Reading

LEMMA InitPublishing == Init => PublishingInv
  BY InitTyped, InitOpens, InitOrderly DEF PublishingInv

LEMMA NextPublishing == PublishingInv /\ [Next]_vars => PublishingInv'
<1> SUFFICES ASSUME PublishingInv, [Next]_vars PROVE PublishingInv'
  OBVIOUS
<1>1. Typed /\ OpenInv /\ (Framed => Orderly)
  BY DEF PublishingInv
<1>2. Typed' /\ OpenInv'
  BY <1>1, NextTyped, NextOpens
<1>3. ASSUME Framed' PROVE Orderly'
  <2>1. Framed
    BY <1>3, HappenedStays DEF Framed
  <2>2. QED
    BY <1>1, <1>3, <2>1, NextOrderly
<1>4. QED
  BY <1>2, <1>3 DEF PublishingInv

LEMMA PublishingInvariance == Spec => []PublishingInv
  BY InitPublishing, NextPublishing, PTL DEF Spec

-----------------------------------------------------------------------------
(* The theorems.                                                           *)

\* Every variable keeps its type: the tags that publish counts, the content
\* that the broker puts together and the bytes that are left of a body stay in
\* the ranges that the fields of QAmqpExchangePrivate give them.
THEOREM TypeCorrect == Spec => []TypeOK
<1>1. PublishingInv => TypeOK
  BY DEF PublishingInv, Typed
<1>2. QED
  BY <1>1, PublishingInvariance, PTL

\* However the calls on different channels, what they read, setFrameMax and the
\* loss of the connection follow each other, each part of a body is one that
\* the broker expects and fits in the frame agreed.  Calls on one channel are
\* only taken one inside the other when the outer is done: a frame sent on the
\* channel of a publish that is not done is the event "nested".
THEOREM NeverRefusedHolds == Spec => []NeverRefused
<1>1. PublishingInv => NeverRefused
  BY DEF PublishingInv, Orderly, NeverRefused
<1>2. QED
  BY <1>1, PublishingInvariance, PTL

\* The tag that publish takes from nextDeliveryTag before it sends the method
\* is the number that the broker gives the message, also when enableConfirms,
\* which counts only after a wait, is called in a slot; a publish on its
\* exchange or a loss in that wait is the event "enabling".
THEOREM TagsAgreeHolds == Spec => []TagsAgree
<1>1. PublishingInv => TagsAgree
  BY DEF PublishingInv, Orderly, Counting, Calm, TagsAgree, Framed
<1>2. QED
  BY <1>1, PublishingInvariance, PTL

\* When publish is about to return on a connection and a channel that lasted,
\* the loop over the body has sent all of it: the broker has the message.
THEOREM ReturnedIsStoredHolds == Spec => []ReturnedIsStored
<1>1. PublishingInv => ReturnedIsStored
  <2> SUFFICES ASSUME PublishingInv, Framed, NEW i \in DOMAIN stack,
                      IsCall(stack[i]), stack[i].next = "done",
                      broker.channel[channelOf[stack[i].exchange]].state = "open"
               PROVE  stack[i].message \in StoredMessages
    BY DEF ReturnedIsStored, StoredMessages
  <2>1. stack \in Seq(Element)
    BY TypedSays DEF PublishingInv
  <2>2. stack[i] \in PublishCall
    BY <2>1, ElementsOf
  <2> DEFINE x == stack[i].exchange
  <2>3. x \in Exchanges
    BY <2>2 DEF PublishCall
  <2>4. ChannelInOrder(x)
    BY <2>3 DEF PublishingInv, Orderly
  <2>5. QED
    BY <2>4 DEF ChannelInOrder, InOrder
<1>2. QED
  BY <1>1, PublishingInvariance, PTL

=============================================================================
