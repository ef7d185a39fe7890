--------------------------- MODULE ConsumerProofs ---------------------------
(***************************************************************************)
(* Theorems about Consumer for every value of the constants: the types of  *)
(* the variables, that the broker takes as acknowledged only messages the  *)
(* user has acknowledged, that it reads no consume while it has a consumer *)
(* for the queue, that a queue that is consuming is served, and that the   *)
(* module implements Deliveries.                                           *)
(***************************************************************************)
EXTENDS Consumer, Handshakes

-----------------------------------------------------------------------------
(* Frames.                                                                 *)

LEMMA InFramesAre ==
    ASSUME NEW f \in InFrames
    PROVE  /\ f.type \in {"OpenOk", "Close", "CloseOk", "GetEmpty", "ConsumeOk", "CancelOk",
                          "Deliver", "GetOk", "Header", "Body"}
           /\ f.type \in {"ConsumeOk", "CancelOk", "Deliver"} => f.consumer \in ConsumerTags
           /\ f.type \in {"Deliver", "GetOk"} =>
                 f.tag \in Nat /\ f.channel \in Nat /\ f.message \in Messages
           /\ f.type = "Header" => f.size \in Sizes /\ f.size \in Nat
           /\ f.type = "Body" => f.message \in Messages
  BY ConsumerAssumption DEF InFrames

LEMMA OutFramesAre ==
    ASSUME NEW f \in OutFrames
    PROVE  /\ f.type \in {"Open", "Close", "CloseOk", "Get", "Consume", "Cancel", "Ack", "Reject"}
           /\ f.type = "Consume" => f.consumer \in ConsumerTags \cup {NoTag}
           /\ f.type = "Cancel" => f.consumer \in ConsumerTags /\ f.noWait \in BOOLEAN
           /\ f.type \in {"Ack", "Reject"} => f.tag \in Nat
  BY DEF OutFrames

\* The entries of a sequence, as the proofs below use them.
LEMMA EntriesAre ==
    ASSUME NEW S, NEW s \in Seq(S)
    PROVE  /\ DOMAIN s = 1..Len(s) /\ Len(s) \in Nat
           /\ \A i \in DOMAIN s : i \in Int /\ i >= 1 /\ i <= Len(s) /\ s[i] \in S
           /\ s = <<>> <=> Len(s) = 0
  OBVIOUS

LEMMA TailIs ==
    ASSUME NEW S, NEW s \in Seq(S), s # <<>>
    PROVE  LET t == Tail(s)
           IN  /\ t \in Seq(S) /\ Len(t) = Len(s) - 1 /\ Len(s) \in Nat /\ Len(s) >= 1
               /\ Head(s) = s[1] /\ s[1] \in S
               /\ DOMAIN s = 1..Len(s) /\ DOMAIN t = 1..(Len(s) - 1)
               /\ \A i \in DOMAIN t : t[i] = s[i + 1] /\ i \in Int /\ i >= 1 /\ i + 1 \in DOMAIN s
<1> DEFINE t == Tail(s)
<1>1. /\ t \in Seq(S) /\ Head(s) = s[1] /\ s[1] \in S
      /\ \A i \in DOMAIN t : i + 1 \in DOMAIN s /\ t[i] = s[i + 1] /\ i \in Int /\ i >= 1
  BY TailEntries
<1>2. /\ Len(t) = Len(s) - 1 /\ Len(s) \in Nat /\ Len(s) >= 1
      /\ DOMAIN s = 1..Len(s) /\ DOMAIN t = 1..(Len(s) - 1)
  OBVIOUS
<1>3. QED
  BY <1>1, <1>2

-----------------------------------------------------------------------------
(* The frames of a message follow each other.                              *)

Carried == {"Header", "Body"}

Announces(f) == f.type \in {"Deliver", "GetOk"}

\* After place i there are n body frames, and then something else.
Follow(s, i, n) ==
    /\ i + n <= Len(s)
    /\ \A k \in DOMAIN s : i < k /\ k <= i + n => s[k].type = "Body"
    /\ \A k \in DOMAIN s : k = i + n + 1 => s[k].type \notin Carried

\* Every message that is announced is there with its header and its body, and
\* no header or body frame is there but at the end of another one.
Whole(s) ==
    /\ \A i \in DOMAIN s : Announces(s[i]) => i + 1 \in DOMAIN s /\ s[i + 1].type = "Header"
    /\ \A i \in DOMAIN s : s[i].type = "Header" => Follow(s, i, s[i].size)
    /\ \A i \in DOMAIN s : \A j \in DOMAIN s :
          /\ j = i + 1 /\ s[j].type = "Header" => Announces(s[i])
          /\ j = i + 1 /\ s[j].type = "Body" => s[i].type \in Carried

\* Of the message that is being read the frames that are left are there.
Rest(s, c) == s # <<>> /\ s[1].type = "Body" /\ c.tag # 0 => Follow(s, 0, c.left)

LEMMA WholeTail ==
    ASSUME NEW s \in Seq(InFrames), s # <<>>, Whole(s)
    PROVE  Whole(Tail(s))
<1> DEFINE t == Tail(s)
<1>1. /\ t \in Seq(InFrames) /\ Len(t) = Len(s) - 1 /\ Len(s) \in Nat /\ Len(s) >= 1
      /\ DOMAIN s = 1..Len(s) /\ DOMAIN t = 1..(Len(s) - 1)
      /\ \A i \in DOMAIN t : t[i] = s[i + 1] /\ i \in Int /\ i >= 1 /\ i + 1 \in DOMAIN s
  BY TailIs
<1> HIDE DEF t
<1>2. ASSUME NEW i \in DOMAIN t, Announces(t[i])
      PROVE  i + 1 \in DOMAIN t /\ t[i + 1].type = "Header"
  <2>1. i + 1 \in DOMAIN s /\ Announces(s[i + 1])
    BY <1>1, <1>2
  <2>2. (i + 1) + 1 \in DOMAIN s /\ s[(i + 1) + 1].type = "Header"
    BY <2>1 DEF Whole
  <2>3. i + 1 \in DOMAIN t
    BY <1>1, <2>2
  <2>4. QED
    BY <1>1, <2>2, <2>3
<1>3. ASSUME NEW i \in DOMAIN t, t[i].type = "Header"
      PROVE  Follow(t, i, t[i].size)
  <2> DEFINE n == t[i].size
  <2>1. i + 1 \in DOMAIN s /\ s[i + 1].type = "Header" /\ s[i + 1].size = n
    BY <1>1, <1>3
  <2>2. Follow(s, i + 1, n)
    BY <2>1 DEF Whole
  <2>3. n \in Nat
    <3>1. t[i] \in InFrames
      BY <1>1
    <3>2. QED
      BY <1>3, <3>1, InFramesAre
  <2> HIDE DEF n
  <2>4. i + n <= Len(t)
    BY <1>1, <2>2, <2>3 DEF Follow
  <2>5. ASSUME NEW k \in DOMAIN t, i < k, k <= i + n PROVE t[k].type = "Body"
    <3>1. k + 1 \in DOMAIN s /\ t[k] = s[k + 1] /\ i + 1 < k + 1 /\ k + 1 <= i + 1 + n
      BY <1>1, <2>3, <2>5
    <3>2. QED
      BY <2>2, <3>1 DEF Follow
  <2>6. ASSUME NEW k \in DOMAIN t, k = i + n + 1 PROVE t[k].type \notin Carried
    <3>1. k + 1 \in DOMAIN s /\ t[k] = s[k + 1] /\ i \in Int /\ k \in Int
      BY <1>1
    <3>2. k + 1 = (i + 1) + n + 1
      BY <2>3, <2>6, <3>1
    <3>3. QED
      BY <2>2, <3>1, <3>2 DEF Follow
  <2>7. QED
    BY <2>4, <2>5, <2>6 DEF Follow, n
<1>4. ASSUME NEW i \in DOMAIN t, NEW j \in DOMAIN t, j = i + 1
      PROVE  /\ t[j].type = "Header" => Announces(t[i])
             /\ t[j].type = "Body" => t[i].type \in Carried
  <2>1. /\ i + 1 \in DOMAIN s /\ j + 1 \in DOMAIN s /\ j + 1 = (i + 1) + 1
        /\ t[i] = s[i + 1] /\ t[j] = s[j + 1]
    BY <1>1, <1>4
  <2>2. QED
    BY <2>1 DEF Whole
<1>5. QED
  BY <1>2, <1>3, <1>4 DEF Whole, t

LEMMA WholeConcat ==
    ASSUME NEW s \in Seq(InFrames), NEW r \in Seq(InFrames), Whole(s), Whole(r),
           r # <<>>, r[1].type \notin Carried
    PROVE  /\ s \o r \in Seq(InFrames) /\ Whole(s \o r)
           /\ \A c : Rest(s, c) /\ c.left \in Nat => Rest(s \o r, c)
<1> DEFINE t == s \o r
           L == Len(s)
<1>1. /\ t \in Seq(InFrames)
      /\ Len(t) = L + Len(r) /\ L \in Nat /\ Len(r) \in Nat
      /\ DOMAIN t = 1..(L + Len(r))
      /\ \A i \in 1..(L + Len(r)) : t[i] = IF i <= L THEN s[i] ELSE r[i - L]
  BY ConcatEntries
<1>2. DOMAIN s = 1..L /\ DOMAIN r = 1..Len(r) /\ 1 \in DOMAIN r
  OBVIOUS
<1>3. \A i \in DOMAIN t : t[i] \in InFrames /\ i \in Int
  BY <1>1
<1>4. s # <<>> => s[1] = t[1] /\ 1 \in DOMAIN s
  <2>1. s # <<>> => L >= 1
    OBVIOUS
  <2> HIDE DEF t, L
  <2>2. QED
    BY <1>1, <1>2, <2>1
<1>5. s = <<>> => t = r
  OBVIOUS
<1> HIDE DEF t, L
<1>6. \A i \in DOMAIN t : \/ i \in DOMAIN s /\ t[i] = s[i] /\ i <= L
                          \/ i - L \in DOMAIN r /\ t[i] = r[i - L] /\ i > L
  BY <1>1, <1>2
<1>7. \A i \in DOMAIN s : i \in DOMAIN t /\ t[i] = s[i] /\ i \in Int
  BY <1>1, <1>2
<1>8. \A i \in DOMAIN r : i + L \in DOMAIN t /\ t[i + L] = r[i]
  BY <1>1, <1>2
<1>9. ASSUME NEW i \in DOMAIN s \cup {0}, NEW n \in Nat, Follow(s, i, n)
      PROVE  Follow(t, i, n)
  <2>1. i \in Int /\ i + n <= L /\ L = Len(s)
    BY <1>7, <1>9 DEF Follow, L
  <2>2. i + n <= Len(t)
    BY <1>1, <2>1
  <2>3. ASSUME NEW k \in DOMAIN t, i < k, k <= i + n PROVE t[k].type = "Body"
    <3>1. k \in DOMAIN s /\ t[k] = s[k]
      BY <1>1, <1>2, <2>1, <2>3
    <3>2. QED
      BY <1>9, <2>3, <3>1 DEF Follow
  <2>4. ASSUME NEW k \in DOMAIN t, k = i + n + 1 PROVE t[k].type \notin Carried
    <3>1. CASE k <= L
      <4>1. k \in DOMAIN s /\ t[k] = s[k]
        BY <1>1, <1>2, <3>1
      <4>2. QED
        BY <1>9, <2>4, <4>1 DEF Follow
    <3>2. CASE k > L
      <4>1. k \in Int /\ L \in Int /\ n \in Int
        BY <1>1, <1>3
      <4>2. k - L = 1
        BY <2>1, <2>4, <3>2, <4>1
      <4>3. t[k] = r[k - L]
        BY <1>6, <3>2, <4>1
      <4>4. QED
        BY <4>2, <4>3
    <3>3. QED
      BY <1>3, <2>1, <3>1, <3>2, <1>1
  <2>5. QED
    BY <2>2, <2>3, <2>4 DEF Follow
<1>10. ASSUME NEW i \in DOMAIN r, NEW n \in Nat, Follow(r, i, n)
       PROVE  Follow(t, i + L, n)
  <2>1. i \in Int /\ i >= 1 /\ i + n <= Len(r)
    BY <1>2, <1>10 DEF Follow
  <2>2. (i + L) + n <= Len(t)
    BY <1>1, <2>1
  <2>3. ASSUME NEW k \in DOMAIN t, i + L < k, k <= (i + L) + n PROVE t[k].type = "Body"
    <3>1. k - L \in DOMAIN r /\ t[k] = r[k - L] /\ i < k - L /\ k - L <= i + n
      BY <1>1, <1>2, <2>1, <2>3
    <3>2. QED
      BY <1>10, <3>1 DEF Follow
  <2>4. ASSUME NEW k \in DOMAIN t, k = (i + L) + n + 1 PROVE t[k].type \notin Carried
    <3>1. k - L \in DOMAIN r /\ t[k] = r[k - L] /\ k - L = i + n + 1
      BY <1>1, <1>2, <2>1, <2>4
    <3>2. QED
      BY <1>10, <3>1 DEF Follow
  <2>5. QED
    BY <2>2, <2>3, <2>4 DEF Follow
<1>11. ASSUME NEW i \in DOMAIN t, Announces(t[i])
       PROVE  i + 1 \in DOMAIN t /\ t[i + 1].type = "Header"
  <2>1. CASE i \in DOMAIN s /\ t[i] = s[i]
    <3>1. i + 1 \in DOMAIN s /\ s[i + 1].type = "Header"
      BY <1>11, <2>1 DEF Whole
    <3>2. QED
      BY <1>7, <3>1
  <2>2. CASE i - L \in DOMAIN r /\ t[i] = r[i - L]
    <3>1. (i - L) + 1 \in DOMAIN r /\ r[(i - L) + 1].type = "Header"
      BY <1>11, <2>2 DEF Whole
    <3>2. ((i - L) + 1) + L \in DOMAIN t /\ t[((i - L) + 1) + L].type = "Header"
      BY <1>8, <3>1
    <3>3. ((i - L) + 1) + L = i + 1
      BY <1>1, <1>3
    <3>4. QED
      BY <3>2, <3>3
  <2>3. QED
    BY <1>6, <2>1, <2>2
<1>12. ASSUME NEW i \in DOMAIN t, t[i].type = "Header"
       PROVE  Follow(t, i, t[i].size)
  <2>1. t[i].size \in Nat
    BY <1>3, <1>12, InFramesAre
  <2>2. CASE i \in DOMAIN s /\ t[i] = s[i]
    <3>1. Follow(s, i, t[i].size)
      BY <1>12, <2>2 DEF Whole
    <3>2. QED
      BY <1>9, <2>1, <2>2, <3>1
  <2>3. CASE i - L \in DOMAIN r /\ t[i] = r[i - L]
    <3>1. Follow(r, i - L, t[i].size)
      BY <1>12, <2>3 DEF Whole
    <3>2. Follow(t, (i - L) + L, t[i].size)
      BY <1>10, <2>1, <2>3, <3>1
    <3>3. (i - L) + L = i
      BY <1>1, <1>3
    <3>4. QED
      BY <3>2, <3>3
  <2>4. QED
    BY <1>6, <2>2, <2>3
<1>13. ASSUME NEW i \in DOMAIN t, NEW j \in DOMAIN t, j = i + 1
       PROVE  /\ t[j].type = "Header" => Announces(t[i])
              /\ t[j].type = "Body" => t[i].type \in Carried
  <2>1. CASE j <= L
    <3>1. i \in DOMAIN s /\ j \in DOMAIN s /\ t[i] = s[i] /\ t[j] = s[j]
      BY <1>1, <1>2, <1>13, <2>1
    <3>2. QED
      BY <1>13, <3>1 DEF Whole
  <2>2. CASE j = L + 1
    <3>1. t[j] = r[1]
      <4>1. j - L = 1
        BY <1>1, <2>2
      <4>2. QED
        BY <1>1, <2>2, <4>1
    <3>2. QED
      BY <3>1 DEF Carried
  <2>3. CASE j > L + 1
    <3>1. /\ i - L \in DOMAIN r /\ j - L \in DOMAIN r /\ t[i] = r[i - L] /\ t[j] = r[j - L]
          /\ j - L = (i - L) + 1
      BY <1>1, <1>2, <1>13, <2>3
    <3>2. QED
      BY <3>1 DEF Whole
  <2>4. j \in Int /\ L \in Int
    BY <1>1, <1>3
  <2>5. QED
    BY <2>1, <2>2, <2>3, <2>4
<1>14. Whole(t)
  BY <1>11, <1>12, <1>13 DEF Whole
<1>15. ASSUME NEW c, Rest(s, c), c.left \in Nat
       PROVE  Rest(t, c)
  <2> SUFFICES ASSUME t # <<>>, t[1].type = "Body", c.tag # 0
               PROVE  Follow(t, 0, c.left)
    BY DEF Rest
  <2>1. s # <<>>
    BY <1>5 DEF Carried
  <2>2. Follow(s, 0, c.left)
    BY <1>4, <1>15, <2>1 DEF Rest
  <2>3. QED
    BY <1>9, <1>15, <2>2
<1>16. QED
  BY <1>1, <1>14, <1>15 DEF t

LEMMA WholeAppend ==
    ASSUME NEW s \in Seq(InFrames), Whole(s), NEW f \in InFrames,
           f.type \notin Carried, ~Announces(f)
    PROVE  /\ Append(s, f) \in Seq(InFrames) /\ Whole(Append(s, f))
           /\ \A c : Rest(s, c) /\ c.left \in Nat => Rest(Append(s, f), c)
<1>1. Append(s, f) = s \o <<f>>
  OBVIOUS
<1> DEFINE r == <<f>>
<1>2. r \in Seq(InFrames) /\ DOMAIN r = {1} /\ r[1] = f /\ r # <<>>
  OBVIOUS
<1> HIDE DEF r
<1>3. Whole(r)
  <2>1. \A i, j \in DOMAIN r : j # i + 1
    BY <1>2
  <2>2. \A i \in DOMAIN r : r[i] = f
    BY <1>2
  <2>3. QED
    BY <2>1, <2>2 DEF Whole, Carried
<1>4. QED
  BY <1>1, <1>2, <1>3, WholeConcat DEF r

\* The frames of a message, as the broker sends them in one go.
Run(method, size, message) ==
    <<method, [type |-> "Header", size |-> size]>>
        \o [i \in 1..size |-> [type |-> "Body", message |-> message]]

LEMMA RunIs ==
    ASSUME NEW method \in InFrames, Announces(method), NEW size \in Sizes,
           NEW message \in Messages
    PROVE  LET r == Run(method, size, message)
           IN  /\ r \in Seq(InFrames) /\ Len(r) = size + 2 /\ DOMAIN r = 1..(size + 2)
               /\ size \in Nat /\ r # <<>>
               /\ r[1] = method /\ r[2] = [type |-> "Header", size |-> size]
               /\ \A k \in DOMAIN r : k > 2 => r[k] = [type |-> "Body", message |-> message]
               /\ Whole(r) /\ r[1].type \notin Carried
<1> DEFINE h == [type |-> "Header", size |-> size]
           b == [type |-> "Body", message |-> message]
           a == <<method, h>>
           bs == [i \in 1..size |-> b]
           r == a \o bs
<1>1. size \in Nat
  BY ConsumerAssumption
<1>2. h \in InFrames /\ b \in InFrames /\ h.type = "Header" /\ h.size = size /\ b.type = "Body"
  BY DEF InFrames
<1> HIDE DEF h, b
<1>3. a \in Seq(InFrames) /\ Len(a) = 2 /\ a[1] = method /\ a[2] = h
  BY <1>2
<1>4. bs \in Seq(InFrames) /\ Len(bs) = size /\ DOMAIN bs = 1..size /\ \A i \in 1..size : bs[i] = b
  BY <1>1, <1>2
<1> HIDE DEF a, bs
<1>5. /\ r \in Seq(InFrames) /\ Len(r) = 2 + size /\ DOMAIN r = 1..(2 + size)
      /\ \A i \in 1..(2 + size) : r[i] = IF i <= 2 THEN a[i] ELSE bs[i - 2]
  <2>1. /\ r \in Seq(InFrames) /\ Len(r) = Len(a) + Len(bs)
        /\ DOMAIN r = 1..(Len(a) + Len(bs))
        /\ \A i \in 1..(Len(a) + Len(bs)) : r[i] = IF i <= Len(a) THEN a[i] ELSE bs[i - Len(a)]
    <3>1. a \in Seq(InFrames) /\ bs \in Seq(InFrames)
      BY <1>3, <1>4
    <3>2. QED
      BY <3>1, ConcatEntries
  <2> HIDE DEF r
  <2>2. QED
    BY <1>3, <1>4, <2>1
<1> HIDE DEF r
<1>6. r[1] = method /\ r[2] = h /\ \A k \in DOMAIN r : k > 2 => r[k] = b
  <2>1. \A k \in DOMAIN r : k > 2 => k - 2 \in 1..size
    BY <1>1, <1>5
  <2>2. QED
    BY <1>1, <1>3, <1>4, <1>5, <2>1
<1>7. \A k \in DOMAIN r : k \in Int /\ k >= 1 /\ (k = 1 \/ k = 2 \/ k > 2)
  BY <1>1, <1>5
<1>8. method.type \notin Carried /\ method.type \in {"Deliver", "GetOk"}
  BY DEF Announces, Carried
<1>9. \A i \in DOMAIN r : Announces(r[i]) => i + 1 \in DOMAIN r /\ r[i + 1].type = "Header"
  <2>1. \A i \in DOMAIN r : Announces(r[i]) => i = 1
    BY <1>2, <1>6, <1>7 DEF Announces
  <2>2. 2 \in DOMAIN r
    BY <1>1, <1>5
  <2>3. QED
    BY <1>2, <1>6, <2>1, <2>2
<1>10. \A i \in DOMAIN r : r[i].type = "Header" => Follow(r, i, r[i].size)
  <2>1. \A i \in DOMAIN r : r[i].type = "Header" => i = 2
    BY <1>2, <1>6, <1>7, <1>8
  <2>2. Follow(r, 2, size)
    BY <1>1, <1>2, <1>5, <1>6 DEF Follow
  <2>3. QED
    BY <1>2, <1>6, <2>1, <2>2
<1>11. ASSUME NEW i \in DOMAIN r, NEW j \in DOMAIN r, j = i + 1
       PROVE  /\ r[j].type = "Header" => Announces(r[i])
              /\ r[j].type = "Body" => r[i].type \in Carried
  <2>1. CASE i = 1
    <3>1. j = 2
      BY <1>11, <2>1
    <3>2. QED
      BY <1>2, <1>6, <2>1, <3>1
  <2>2. CASE i = 2 \/ i > 2
    <3>1. j > 2
      BY <1>7, <1>11, <2>2
    <3>2. QED
      BY <1>2, <1>6, <2>2, <3>1 DEF Carried
  <2>3. QED
    BY <1>7, <2>1, <2>2
<1>12. Whole(r)
  BY <1>9, <1>10, <1>11 DEF Whole
<1>13. r = Run(method, size, message)
  BY DEF r, a, bs, h, b, Run
<1>14. 1 \in DOMAIN r
  BY <1>1, <1>5
<1>15. QED
  BY <1>1, <1>5, <1>6, <1>8, <1>12, <1>13, <1>14 DEF h, b

-----------------------------------------------------------------------------
(* The types.                                                              *)

CurrentMessage ==
    [tag : Nat, channel : Nat, message : Messages \cup {1}, payload : Seq(Messages), left : Nat]

Unacked == [tag : Nat, message : Messages]

LEMMA QueueIs ==
    Queue = [opened : BOOLEAN, consumerTag : ConsumerTags \cup {NoTag}, consuming : BOOLEAN,
             consumeRequested : BOOLEAN, current : CurrentMessage]
  BY DEF Queue, CurrentMessage

LEMMA BrokerIs ==
    Broker = [channel : {"closed", "open", "closing"}, number : Nat,
              consumers : SUBSET ConsumerTags, count : Nat, unacked : SUBSET Unacked]
  BY DEF Broker, Unacked

\* TypeOK, and what keeps `left` from falling below 0.
Typed ==
    /\ TypeOK
    /\ Whole(in)
    /\ Rest(in, queue.current)
    /\ queue.current.tag # 0 => queue.current.message \in Messages

LEMMA TypedSays ==
    ASSUME Typed
    PROVE  /\ queue \in Queue /\ queue.current \in CurrentMessage
           /\ queue.current.tag \in Nat /\ queue.current.left \in Nat
           /\ queue.consumerTag \in ConsumerTags \cup {NoTag}
           /\ out \in Seq(OutFrames) /\ in \in Seq(InFrames) /\ broker \in Broker
           /\ broker.consumers \in SUBSET ConsumerTags /\ broker.unacked \in SUBSET Unacked
           /\ broker.number \in Nat /\ broker.count \in Nat
           /\ broker.channel \in {"closed", "open", "closing"}
           /\ received \in Seq(Delivery) /\ held \in SUBSET Delivery
           /\ ready \subseteq Messages /\ acked \subseteq Messages /\ userAcked \subseteq Messages
           /\ happened \subseteq Events
           /\ losses \in 0..MaxLosses /\ calls \in 0..MaxCalls
           /\ link \in {"up", "closing", "down"}
<1>1. TypeOK
  BY DEF Typed
<1>2. queue.current \in CurrentMessage /\ queue.consumerTag \in ConsumerTags \cup {NoTag}
  BY <1>1, QueueIs DEF TypeOK
<1>3. /\ broker.consumers \in SUBSET ConsumerTags /\ broker.unacked \in SUBSET Unacked
      /\ broker.number \in Nat /\ broker.count \in Nat
      /\ broker.channel \in {"closed", "open", "closing"}
  BY <1>1, BrokerIs DEF TypeOK
<1>4. queue.current.tag \in Nat /\ queue.current.left \in Nat
  BY <1>2 DEF CurrentMessage
<1>5. QED
  BY <1>1, <1>2, <1>3, <1>4 DEF TypeOK

LEMMA EmptyIsWhole == <<>> \in Seq(InFrames) /\ Whole(<<>>) /\ \A c : Rest(<<>>, c)
<1>1. DOMAIN <<>> = {}
  OBVIOUS
<1>2. QED
  BY <1>1 DEF Whole, Rest

LEMMA CallTyped == ASSUME Typed, Call PROVE calls' \in 0..MaxCalls
<1>1. calls \in 0..MaxCalls
  BY TypedSays
<1>2. MaxCalls \in Nat
  BY ConsumerAssumption
<1>3. QED
  BY <1>1, <1>2 DEF Call

LEMMA LossTyped ==
    ASSUME Typed, losses < MaxLosses PROVE losses + 1 \in 0..MaxLosses
<1>1. losses \in 0..MaxLosses
  BY TypedSays
<1>2. MaxLosses \in Nat
  BY ConsumerAssumption
<1>3. QED
  BY <1>1, <1>2

LEMMA SendIs ==
    ASSUME Typed, NEW f \in OutFrames, Send(f)
    PROVE  /\ out' \in Seq(OutFrames)
           /\ link = "up" => out' = Append(out, f)
           /\ link # "up" => out' = out
<1>1. out \in Seq(OutFrames)
  BY TypedSays
<1>2. QED
  BY <1>1 DEF Send

LEMMA OutFramesMade ==
    /\ \A t \in {"Open", "Close", "CloseOk", "Get"} : [type |-> t] \in OutFrames
    /\ \A t \in ConsumerTags \cup {NoTag} : [type |-> "Consume", consumer |-> t] \in OutFrames
    /\ \A t \in ConsumerTags : \A w \in BOOLEAN :
          [type |-> "Cancel", consumer |-> t, noWait |-> w] \in OutFrames
    /\ \A n \in Nat : [type |-> "Ack", tag |-> n] \in OutFrames
    /\ \A n \in Nat : \A w \in BOOLEAN :
          [type |-> "Reject", tag |-> n, requeue |-> w] \in OutFrames
  BY DEF OutFrames

LEMMA InFramesMade ==
    /\ \A t \in {"OpenOk", "Close", "CloseOk", "GetEmpty"} : [type |-> t] \in InFrames
    /\ \A t \in ConsumerTags : /\ [type |-> "ConsumeOk", consumer |-> t] \in InFrames
                               /\ [type |-> "CancelOk", consumer |-> t] \in InFrames
    /\ \A t \in ConsumerTags : \A n, k \in Nat : \A m \in Messages :
          [type |-> "Deliver", consumer |-> t, tag |-> n, channel |-> k, message |-> m] \in InFrames
    /\ \A n, k \in Nat : \A m \in Messages :
          [type |-> "GetOk", tag |-> n, channel |-> k, message |-> m] \in InFrames
  BY DEF InFrames

\* A call of the user changes neither what is received nor the message that is
\* being read.
LEMMA UserTyped ==
    ASSUME Typed, Call,
           UNCHANGED <<link, received, in, Contents, losses>>,
           queue' \in Queue, queue'.current = queue.current,
           out' \in Seq(OutFrames), held' \subseteq held,
           userAcked' \subseteq Messages, happened' \subseteq Events
    PROVE  Typed'
<1>1. calls' \in 0..MaxCalls
  BY CallTyped
<1>2. held' \in SUBSET Delivery
  BY TypedSays
<1>3. TypeOK'
  BY <1>1, <1>2 DEF Typed, TypeOK, Contents
<1>4. /\ Whole(in)' /\ Rest(in, queue.current)'
      /\ (queue.current.tag # 0 => queue.current.message \in Messages)'
  BY DEF Typed
<1>5. QED
  BY <1>3, <1>4 DEF Typed

LEMMA ConsumeTyped == ASSUME Typed, Consume PROVE Typed'
<1> DEFINE f == [type |-> "Consume", consumer |-> queue.consumerTag]
<1>1. /\ Call /\ Send(f) /\ queue' = [queue EXCEPT !.consumeRequested = TRUE]
      /\ UNCHANGED <<link, received, held, in, Contents, userAcked, happened, losses>>
  BY DEF Consume
<1>2. f \in OutFrames
  BY TypedSays, OutFramesMade
<1> HIDE DEF f
<1>3. queue' \in Queue /\ queue'.current = queue.current
  BY <1>1, TypedSays, QueueIs
<1>4. QED
  BY <1>1, <1>2, <1>3, SendIs, TypedSays, UserTyped

LEMMA CancelTyped == ASSUME Typed, Cancel PROVE Typed'
<1>1. PICK noWait \in BOOLEAN :
         /\ Happens((IF noWait THEN {"noWait"} ELSE {})
                       \cup (IF CancelPending THEN {"recancel"} ELSE {}))
         /\ Send([type |-> "Cancel", consumer |-> queue.consumerTag, noWait |-> noWait])
  BY DEF Cancel
<1> DEFINE f == [type |-> "Cancel", consumer |-> queue.consumerTag, noWait |-> noWait]
<1>2. f \in OutFrames
  BY TypedSays, OutFramesMade DEF Cancel
<1> HIDE DEF f
<1>3. out' \in Seq(OutFrames)
  BY <1>1, <1>2, SendIs DEF f
<1>4. happened' \subseteq Events
  BY <1>1, TypedSays DEF Happens
<1>5. /\ Call /\ UNCHANGED <<link, queue, received, held, in, Contents, userAcked, losses>>
  BY DEF Cancel
<1>6. QED
  BY <1>3, <1>4, <1>5, TypedSays, UserTyped

LEMMA SetConsumerTagTyped == ASSUME Typed, SetConsumerTag PROVE Typed'
<1>1. PICK tag \in ConsumerTags \cup {NoTag} : queue' = [queue EXCEPT !.consumerTag = tag]
  BY DEF SetConsumerTag
<1>2. queue' \in Queue /\ queue'.current = queue.current
  BY <1>1, TypedSays, QueueIs
<1>3. /\ Call /\ happened' \subseteq Events
      /\ UNCHANGED <<link, received, held, out, in, Contents, userAcked, losses>>
  BY TypedSays DEF SetConsumerTag, Happens
<1>4. QED
  BY <1>2, <1>3, TypedSays, UserTyped

LEMMA GetTyped == ASSUME Typed, Get PROVE Typed'
<1> DEFINE f == [type |-> "Get"]
<1>1. /\ Call /\ Send(f)
      /\ UNCHANGED <<link, queue, received, held, in, Contents, userAcked, happened, losses>>
  BY DEF Get
<1>2. f \in OutFrames
  BY OutFramesMade
<1> HIDE DEF f
<1>3. QED
  BY <1>1, <1>2, SendIs, TypedSays, UserTyped

LEMMA SettleTyped ==
    ASSUME Typed, NEW delivery \in held, NEW f \in OutFrames, Settle(delivery, f),
           userAcked' \subseteq Messages
    PROVE  Typed'
<1>1. /\ Call /\ held' = held \ {delivery} /\ Send(f) /\ happened' \subseteq Events
      /\ UNCHANGED <<link, queue, received, in, Contents, losses>>
  BY TypedSays DEF Settle, Happens
<1>2. QED
  BY <1>1, SendIs, TypedSays, UserTyped

LEMMA HeldSays ==
    ASSUME Typed, NEW delivery \in held
    PROVE  /\ delivery \in Delivery
           /\ delivery.tag \in Nat /\ delivery.channel \in Nat /\ delivery.message \in Messages
<1>1. delivery \in Delivery
  BY TypedSays
<1>2. QED
  BY <1>1 DEF Delivery

LEMMA AckTyped == ASSUME Typed, NEW delivery \in held, Ack(delivery) PROVE Typed'
<1> DEFINE f == [type |-> "Ack", tag |-> delivery.tag]
<1>1. f \in OutFrames
  BY HeldSays, OutFramesMade
<1>2. Settle(delivery, f)
  BY DEF Ack
<1>3. userAcked' \subseteq Messages
  BY HeldSays, TypedSays DEF Ack
<1> HIDE DEF f
<1>4. QED
  BY <1>1, <1>2, <1>3, SettleTyped

LEMMA RejectTyped == ASSUME Typed, NEW delivery \in held, Reject(delivery) PROVE Typed'
<1>1. PICK requeue \in BOOLEAN :
         /\ Settle(delivery, [type |-> "Reject", tag |-> delivery.tag, requeue |-> requeue])
         /\ UNCHANGED userAcked
  BY DEF Reject
<1> DEFINE f == [type |-> "Reject", tag |-> delivery.tag, requeue |-> requeue]
<1>2. f \in OutFrames
  BY HeldSays, OutFramesMade
<1>3. userAcked' \subseteq Messages
  BY <1>1, TypedSays
<1>4. Settle(delivery, f)
  BY <1>1
<1> HIDE DEF f
<1>5. QED
  BY <1>2, <1>3, <1>4, SettleTyped

LEMMA CloseChannelTyped == ASSUME Typed, CloseChannel PROVE Typed'
<1> DEFINE f == [type |-> "Close"]
<1>1. /\ Call /\ Send(f)
      /\ UNCHANGED <<link, queue, received, held, in, Contents, userAcked, happened, losses>>
  BY DEF CloseChannel
<1>2. f \in OutFrames
  BY OutFramesMade
<1> HIDE DEF f
<1>3. QED
  BY <1>1, <1>2, SendIs, TypedSays, UserTyped

LEMMA ReopenTyped == ASSUME Typed, Reopen PROVE Typed'
<1> DEFINE f == [type |-> IF queue.opened THEN "Close" ELSE "Open"]
<1>1. /\ Call /\ Send(f) /\ happened' \subseteq Events
      /\ UNCHANGED <<link, queue, received, held, in, Contents, userAcked, losses>>
  BY TypedSays DEF Reopen, Happens
<1>2. f \in OutFrames
  BY OutFramesMade
<1> HIDE DEF f
<1>3. QED
  BY <1>1, <1>2, SendIs, TypedSays, UserTyped

LEMMA ClearedSays ==
    ASSUME NEW q \in Queue
    PROVE  LET r == Cleared(q)
           IN  /\ r \in Queue /\ r.current = q.current /\ r.consumerTag = q.consumerTag
               /\ ~r.opened /\ ~r.consuming /\ ~r.consumeRequested
  BY QueueIs DEF Cleared

LEMMA ResetTyped == ASSUME Typed, Reset PROVE Typed'
<1>1. /\ Call /\ queue' = Cleared(queue) /\ happened' \subseteq Events
      /\ UNCHANGED <<link, received, held, out, in, Contents, userAcked, losses>>
  BY TypedSays DEF Reset, Happens
<1>2. queue' \in Queue /\ queue'.current = queue.current
  BY <1>1, TypedSays, ClearedSays
<1>3. QED
  BY <1>1, <1>2, TypedSays, UserTyped

\* What the broker keeps when the channel ends.
BrokerShut(b, state) ==
    [b EXCEPT !.channel = state, !.consumers = {}, !.count = 0, !.unacked = {}]

LEMMA BrokerShutSays ==
    ASSUME NEW b \in Broker, NEW state \in {"closed", "closing"}
    PROVE  LET r == BrokerShut(b, state)
           IN  /\ r \in Broker /\ r.channel = state /\ r.consumers = {} /\ r.count = 0
               /\ r.unacked = {} /\ r.number = b.number
  BY BrokerIs DEF BrokerShut

LEMMA BrokerClosesSays ==
    ASSUME Typed, NEW state \in {"closed", "closing"}, BrokerCloses(state)
    PROVE  /\ broker' = BrokerShut(broker, state) /\ broker' \in Broker
           /\ ready' \subseteq Messages /\ acked' = acked
<1>1. broker' = BrokerShut(broker, state)
  BY DEF BrokerCloses, BrokerShut
<1>2. broker' \in Broker
  BY <1>1, BrokerShutSays, TypedSays
<1>3. \A u \in broker.unacked : u.message \in Messages
  BY TypedSays DEF Unacked
<1>4. QED
  BY <1>1, <1>2, <1>3, TypedSays DEF BrokerCloses

LEMMA LinkUpTyped == ASSUME Typed, LinkUp PROVE Typed'
<1>1. <<[type |-> "Open"]>> \in Seq(OutFrames)
  <2>1. [type |-> "Open"] \in OutFrames
    BY OutFramesMade
  <2>2. QED
    BY <2>1
<1>2. TypeOK'
  BY <1>1 DEF LinkUp, Typed, TypeOK, Contents
<1>3. QED
  BY <1>2 DEF LinkUp, Typed, Contents

LEMMA SocketClosedTyped == ASSUME Typed, losses < MaxLosses, SocketClosed PROVE Typed'
<1>1. queue' \in Queue /\ queue'.current = queue.current
  BY TypedSays, ClearedSays DEF SocketClosed
<1>2. broker' \in Broker /\ ready' \subseteq Messages /\ acked' = acked
  BY BrokerClosesSays DEF SocketClosed
<1>3. losses' \in 0..MaxLosses
  BY LossTyped DEF SocketClosed
<1>4. out' \in Seq(OutFrames) /\ in' \in Seq(InFrames) /\ Whole(in') /\ Rest(in', queue'.current)
  BY EmptyIsWhole DEF SocketClosed
<1>5. /\ link' = "down" /\ UNCHANGED <<received, held, userAcked, happened, calls>>
  BY DEF SocketClosed
<1>6. TypeOK'
  BY <1>1, <1>2, <1>3, <1>4, <1>5 DEF Typed, TypeOK
<1>7. QED
  BY <1>1, <1>4, <1>6 DEF Typed

LEMMA LinkClosesTyped == ASSUME Typed, LinkCloses PROVE Typed'
<1>1. PICK opened \in {FALSE, queue.opened} : queue' = [queue EXCEPT !.opened = opened]
  BY DEF LinkCloses
<1>2. queue' \in Queue /\ queue'.current = queue.current
  <2>1. opened \in BOOLEAN
    BY TypedSays, QueueIs
  <2>2. QED
    BY <1>1, <2>1, TypedSays, QueueIs
<1>3. broker' \in Broker /\ ready' \subseteq Messages /\ acked' = acked
  BY BrokerClosesSays DEF LinkCloses
<1>4. out' \in Seq(OutFrames) /\ in' \in Seq(InFrames) /\ Whole(in') /\ Rest(in', queue'.current)
  BY EmptyIsWhole DEF LinkCloses
<1>5. /\ link' = "closing" /\ UNCHANGED <<received, held, userAcked, happened, losses, calls>>
  BY DEF LinkCloses
<1>6. TypeOK'
  BY <1>2, <1>3, <1>4, <1>5 DEF Typed, TypeOK
<1>7. QED
  BY <1>2, <1>4, <1>6 DEF Typed

LEMMA ReceiveSays ==
    ASSUME Typed, NEW type, Receive(type)
    PROVE  /\ link = "up" /\ in # <<>> /\ in' = Tail(in)
           /\ Head(in) = in[1] /\ in[1] \in InFrames /\ in[1].type = type /\ 1 \in DOMAIN in
           /\ in' \in Seq(InFrames) /\ Whole(in')
           /\ UNCHANGED <<link, broker, ready, acked, userAcked, happened, losses, calls>>
<1>1. in \in Seq(InFrames) /\ Whole(in)
  BY TypedSays DEF Typed
<1>2. in # <<>> /\ in' = Tail(in)
  BY DEF Receive
<1>3. in' \in Seq(InFrames) /\ Whole(in')
  BY <1>1, <1>2, TailIs, WholeTail
<1>4. Head(in) = in[1] /\ in[1] \in InFrames /\ 1 \in DOMAIN in
  BY <1>1, <1>2, TailEntries
<1>5. QED
  BY <1>2, <1>3, <1>4 DEF Receive, Contents

\* Whatever is being read, a frame that is no part of it is not followed by
\* the rest of a message.
LEMMA NoRest ==
    ASSUME NEW s \in Seq(InFrames), s # <<>>, Whole(s), s[1].type \notin Carried
    PROVE  \A c : Rest(Tail(s), c)
<1> DEFINE t == Tail(s)
<1>1. /\ Len(t) = Len(s) - 1 /\ Len(s) \in Nat /\ DOMAIN s = 1..Len(s) /\ DOMAIN t = 1..(Len(s) - 1)
      /\ \A i \in DOMAIN t : t[i] = s[i + 1] /\ i + 1 \in DOMAIN s
      /\ t \in Seq(InFrames)
  BY TailIs
<1> HIDE DEF t
<1>2. t # <<>> => 1 \in DOMAIN t
  BY <1>1
<1>3. ASSUME t # <<>> PROVE t[1].type # "Body"
  <2>1. t[1] = s[2] /\ 2 \in DOMAIN s /\ 1 \in DOMAIN s
    BY <1>1, <1>2, <1>3
  <2>2. s[2].type = "Body" => s[1].type \in Carried
    BY <2>1 DEF Whole
  <2>3. QED
    BY <2>1, <2>2
<1>4. QED
  BY <1>3 DEF Rest, t

\* Reading a frame that changes nothing of the message that is being read.
LEMMA ReceiveTyped ==
    ASSUME Typed, NEW type, Receive(type), type \notin Carried,
           UNCHANGED <<received, held>>, out' \in Seq(OutFrames), queue' \in Queue,
           queue'.current.tag # 0 => queue'.current.message \in Messages
    PROVE  Typed'
<1>1. /\ in # <<>> /\ in' = Tail(in) /\ in[1].type = type
      /\ in' \in Seq(InFrames) /\ Whole(in')
      /\ UNCHANGED <<link, broker, ready, acked, userAcked, happened, losses, calls>>
  BY ReceiveSays
<1>2. Rest(in', queue'.current)
  <2>1. in \in Seq(InFrames) /\ Whole(in)
    BY TypedSays DEF Typed
  <2>2. QED
    BY <1>1, <2>1, NoRest
<1>3. TypeOK'
  BY <1>1 DEF Typed, TypeOK
<1>4. QED
  BY <1>1, <1>2, <1>3 DEF Typed

LEMMA ReceiveOpenOkTyped == ASSUME Typed, ReceiveOpenOk PROVE Typed'
<1>1. queue' \in Queue /\ queue'.current = queue.current
  BY TypedSays, QueueIs DEF ReceiveOpenOk
<1>2. Receive("OpenOk") /\ UNCHANGED <<received, held, out>>
  BY DEF ReceiveOpenOk
<1>3. QED
  BY <1>1, <1>2, TypedSays, ReceiveTyped DEF Typed, Carried

LEMMA ReceiveCloseTyped == ASSUME Typed, ReceiveClose PROVE Typed'
<1> DEFINE f == [type |-> "CloseOk"]
<1>1. queue' \in Queue /\ queue'.current = queue.current
  BY TypedSays, QueueIs DEF ReceiveClose
<1>2. Receive("Close") /\ Send(f) /\ UNCHANGED <<received, held>>
  BY DEF ReceiveClose
<1>3. f \in OutFrames
  BY OutFramesMade
<1> HIDE DEF f
<1>4. out' \in Seq(OutFrames)
  BY <1>2, <1>3, SendIs
<1>5. QED
  BY <1>1, <1>2, <1>4, ReceiveTyped DEF Typed, Carried

LEMMA ReceiveCloseOkTyped == ASSUME Typed, ReceiveCloseOk PROVE Typed'
<1>1. queue' \in Queue /\ queue'.current = queue.current
  BY TypedSays, QueueIs DEF ReceiveCloseOk
<1>2. Receive("CloseOk") /\ UNCHANGED <<received, held, out>>
  BY DEF ReceiveCloseOk
<1>3. QED
  BY <1>1, <1>2, TypedSays, ReceiveTyped DEF Typed, Carried

LEMMA ReceiveConsumeOkTyped == ASSUME Typed, ReceiveConsumeOk PROVE Typed'
<1>1. Receive("ConsumeOk") /\ UNCHANGED <<received, held, out>>
  BY DEF ReceiveConsumeOk
<1>2. Head(in).consumer \in ConsumerTags
  BY <1>1, ReceiveSays, InFramesAre
<1>3. queue' \in Queue /\ queue'.current = queue.current
  BY <1>2, TypedSays, QueueIs DEF ReceiveConsumeOk
<1>4. QED
  BY <1>1, <1>3, TypedSays, ReceiveTyped DEF Typed, Carried

LEMMA ReceiveCancelOkTyped == ASSUME Typed, ReceiveCancelOk PROVE Typed'
<1>1. Receive("CancelOk") /\ UNCHANGED <<received, held, out>>
  BY DEF ReceiveCancelOk
<1>2. queue' \in Queue /\ queue'.current = queue.current
  <2>1. CASE queue.consumerTag = Head(in).consumer
    BY <2>1, TypedSays, QueueIs DEF ReceiveCancelOk
  <2>2. CASE queue.consumerTag # Head(in).consumer
    BY <2>2, TypedSays DEF ReceiveCancelOk
  <2>3. QED
    BY <2>1, <2>2
<1>3. QED
  BY <1>1, <1>2, TypedSays, ReceiveTyped DEF Typed, Carried

LEMMA AnnouncedSays ==
    ASSUME NEW f \in InFrames, Announces(f)
    PROVE  LET c == Announced(f)
           IN  /\ c \in CurrentMessage /\ c.message \in Messages /\ c.message = f.message
               /\ c.tag = f.tag /\ c.channel = f.channel /\ c.payload = <<>> /\ c.left = 0
<1>1. f.tag \in Nat /\ f.channel \in Nat /\ f.message \in Messages
  BY InFramesAre DEF Announces
<1>2. <<>> \in Seq(Messages)
  OBVIOUS
<1>3. QED
  BY <1>1, <1>2 DEF Announced, CurrentMessage

LEMMA CurrentKept ==
    ASSUME NEW q \in Queue, NEW c \in CurrentMessage
    PROVE  LET r == [q EXCEPT !.current = c]
           IN  /\ r \in Queue /\ r.current = c /\ r.opened = q.opened
               /\ r.consumerTag = q.consumerTag /\ r.consuming = q.consuming
               /\ r.consumeRequested = q.consumeRequested
  BY QueueIs

LEMMA ReceiveDeliverTyped == ASSUME Typed, ReceiveDeliver PROVE Typed'
<1> DEFINE c == Announced(Head(in))
<1>1. Receive("Deliver") /\ UNCHANGED <<received, held, out>>
  BY DEF ReceiveDeliver
<1>2. c \in CurrentMessage /\ c.message \in Messages
  BY <1>1, ReceiveSays, AnnouncedSays DEF Announces
<1> HIDE DEF c
<1>3. queue' \in Queue /\ (queue'.current.tag # 0 => queue'.current.message \in Messages)
  <2>1. CASE queue.consumerTag = Head(in).consumer
    <3>1. queue' = [queue EXCEPT !.current = c]
      BY <2>1 DEF ReceiveDeliver, c
    <3>2. QED
      BY <1>2, <3>1, TypedSays, CurrentKept
  <2>2. CASE queue.consumerTag # Head(in).consumer
    BY <2>2, TypedSays DEF ReceiveDeliver, Typed
  <2>3. QED
    BY <2>1, <2>2
<1>4. QED
  BY <1>1, <1>3, TypedSays, ReceiveTyped DEF Carried

LEMMA ReceiveGetOkTyped == ASSUME Typed, ReceiveGetOk PROVE Typed'
<1> DEFINE c == Announced(Head(in))
<1>1. /\ Receive("GetOk") /\ UNCHANGED <<received, held, out>>
      /\ queue' = [queue EXCEPT !.current = c]
  BY DEF ReceiveGetOk
<1>2. c \in CurrentMessage /\ c.message \in Messages
  BY <1>1, ReceiveSays, AnnouncedSays DEF Announces
<1> HIDE DEF c
<1>3. queue' \in Queue /\ queue'.current = c
  BY <1>1, <1>2, TypedSays, CurrentKept
<1>4. QED
  BY <1>1, <1>2, <1>3, TypedSays, ReceiveTyped DEF Carried

LEMMA ReceiveGetEmptyTyped == ASSUME Typed, ReceiveGetEmpty PROVE Typed'
<1>1. Receive("GetEmpty") /\ UNCHANGED <<queue, received, held, out>>
  BY DEF ReceiveGetEmpty
<1>2. QED
  BY <1>1, TypedSays, ReceiveTyped DEF Typed, Carried

\* A message of a queue.
DeliveryOf(c) ==
    [tag |-> c.tag, channel |-> c.channel, message |-> c.message, payload |-> c.payload]

LEMMA BecomesSays ==
    ASSUME Typed, NEW c \in CurrentMessage, c.message \in Messages, Becomes(c)
    PROVE  /\ queue' = [queue EXCEPT !.current = c]
           /\ queue' \in Queue /\ queue'.current = c /\ queue'.opened = queue.opened
           /\ queue'.consumerTag = queue.consumerTag /\ queue'.consuming = queue.consuming
           /\ queue'.consumeRequested = queue.consumeRequested
           /\ received' \in Seq(Delivery)
           /\ held' \in SUBSET Delivery
           /\ held' = held \/ held' = held \cup {DeliveryOf(c)}
<1>1. DeliveryOf(c) \in Delivery
  BY DEF DeliveryOf, Delivery, CurrentMessage
<1>2. queue' = [queue EXCEPT !.current = c]
  BY DEF Becomes
<1>3. \/ received' = Append(received, DeliveryOf(c)) /\ held' = held \cup {DeliveryOf(c)}
      \/ received' = received /\ held' = held
  BY DEF Becomes, DeliveryOf
<1> DEFINE d == DeliveryOf(c)
<1>4. received' \in Seq(Delivery) /\ held' \in SUBSET Delivery
  <2>1. received \in Seq(Delivery) /\ held \in SUBSET Delivery /\ d \in Delivery
    BY <1>1, TypedSays
  <2>2. \/ received' = Append(received, d) /\ held' = held \cup {d}
        \/ received' = received /\ held' = held
    BY <1>3
  <2> HIDE DEF d
  <2>3. QED
    BY <2>1, <2>2
<1>5. /\ queue' \in Queue /\ queue'.current = c /\ queue'.opened = queue.opened
      /\ queue'.consumerTag = queue.consumerTag /\ queue'.consuming = queue.consuming
      /\ queue'.consumeRequested = queue.consumeRequested
  BY <1>2, TypedSays, CurrentKept
<1>6. QED
  BY <1>2, <1>3, <1>4, <1>5

\* Reading a header or a body frame: the message that is read becomes c.
LEMMA ContentTyped ==
    ASSUME Typed, NEW type \in Carried, Receive(type), UNCHANGED out,
           NEW c \in CurrentMessage, c.tag = queue.current.tag,
           c.message = queue.current.message,
           queue.current.tag # 0 => Rest(in', c),
           IF queue.current.tag # 0 THEN Becomes(c) ELSE UNCHANGED <<queue, received, held>>
    PROVE  Typed'
<1>1. /\ in' \in Seq(InFrames) /\ Whole(in')
      /\ UNCHANGED <<link, broker, ready, acked, userAcked, happened, losses, calls>>
  BY ReceiveSays
<1>2. /\ queue' \in Queue /\ received' \in Seq(Delivery) /\ held' \in SUBSET Delivery
      /\ queue'.current.tag # 0 => queue'.current.message \in Messages
      /\ Rest(in', queue'.current)
  <2>1. CASE queue.current.tag # 0
    <3>1. c.message \in Messages
      BY <2>1 DEF Typed
    <3>2. QED
      BY <2>1, <3>1, BecomesSays
  <2>2. CASE queue.current.tag = 0
    BY <2>2, TypedSays DEF Typed, Rest
  <2>3. QED
    BY <2>1, <2>2
<1>3. TypeOK'
  BY <1>1, <1>2 DEF Typed, TypeOK
<1>4. QED
  BY <1>1, <1>2, <1>3 DEF Typed

\* The frames that follow a header, when it has been read, and those that
\* follow a body frame.
LEMMA FollowTail ==
    ASSUME NEW s \in Seq(InFrames), s # <<>>, NEW n \in Nat, NEW i \in {0, 1}, n + i >= 1,
           Follow(s, i, n)
    PROVE  Follow(Tail(s), 0, n + i - 1)
<1> DEFINE t == Tail(s)
<1>1. /\ Len(t) = Len(s) - 1 /\ Len(s) \in Nat
      /\ \A k \in DOMAIN t : t[k] = s[k + 1] /\ k + 1 \in DOMAIN s /\ k \in Int /\ k >= 1
  BY TailIs
<1> HIDE DEF t
<1>2. i \in Int /\ n \in Int
  OBVIOUS
<1>3. 0 + (n + i - 1) <= Len(t)
  BY <1>1, <1>2 DEF Follow
<1>4. ASSUME NEW k \in DOMAIN t, 0 < k, k <= 0 + (n + i - 1) PROVE t[k].type = "Body"
  <2>1. k + 1 \in DOMAIN s /\ k \in Int /\ k >= 1
    BY <1>1
  <2>2. i < k + 1 /\ k + 1 <= i + n
    BY <1>2, <1>4, <2>1
  <2>3. s[k + 1].type = "Body"
    BY <2>1, <2>2 DEF Follow
  <2>4. QED
    BY <1>1, <2>3
<1>5. ASSUME NEW k \in DOMAIN t, k = 0 + (n + i - 1) + 1 PROVE t[k].type \notin Carried
  <2>1. k + 1 \in DOMAIN s /\ k \in Int
    BY <1>1
  <2>2. k + 1 = i + n + 1
    BY <1>2, <1>5, <2>1
  <2>3. s[k + 1].type \notin Carried
    BY <2>1, <2>2 DEF Follow
  <2>4. QED
    BY <1>1, <2>3
<1>6. QED
  BY <1>3, <1>4, <1>5 DEF Follow, t

LEMMA ReceiveHeaderTyped == ASSUME Typed, ReceiveHeader PROVE Typed'
<1> DEFINE size == Head(in).size
           c == [queue.current EXCEPT !.left = size]
<1>1. Receive("Header") /\ UNCHANGED out
  BY DEF ReceiveHeader
<1>2. /\ in # <<>> /\ in' = Tail(in) /\ Head(in) = in[1] /\ in[1].type = "Header" /\ 1 \in DOMAIN in
      /\ size \in Nat
  BY <1>1, ReceiveSays, InFramesAre
<1>3. in \in Seq(InFrames) /\ Follow(in, 1, size)
  BY <1>2, TypedSays DEF Typed, Whole
<1>4. IF queue.current.tag # 0 THEN Becomes(c) ELSE UNCHANGED <<queue, received, held>>
  BY DEF ReceiveHeader
<1> HIDE DEF size
<1>5. /\ c \in CurrentMessage /\ c.tag = queue.current.tag
      /\ c.message = queue.current.message /\ c.left = size
  BY <1>2, TypedSays DEF CurrentMessage
<1> HIDE DEF c
<1>6. Follow(in', 0, size)
  <2>1. size + 1 >= 1 /\ size + 1 - 1 = size
    BY <1>2
  <2>2. QED
    BY <1>2, <1>3, <2>1, FollowTail
<1>7. Rest(in', c)
  BY <1>5, <1>6 DEF Rest
<1>8. QED
  BY <1>1, <1>4, <1>5, <1>7, ContentTyped DEF Carried

LEMMA ReceiveBodyTyped == ASSUME Typed, ReceiveBody PROVE Typed'
<1> DEFINE left == queue.current.left
           c == [queue.current EXCEPT !.payload = Append(@, Head(in).message), !.left = @ - 1]
           d == IF queue.current.tag # 0 THEN c ELSE queue.current
<1>1. Receive("Body") /\ UNCHANGED out
  BY DEF ReceiveBody
<1>2. /\ in # <<>> /\ in' = Tail(in) /\ Head(in) = in[1] /\ in[1].type = "Body" /\ 1 \in DOMAIN in
      /\ Head(in).message \in Messages
  BY <1>1, ReceiveSays, InFramesAre
<1>3. in \in Seq(InFrames) /\ left \in Nat /\ queue.current \in CurrentMessage
  BY TypedSays
<1>4. IF queue.current.tag # 0 THEN Becomes(d) ELSE UNCHANGED <<queue, received, held>>
  BY DEF ReceiveBody
<1>5. queue.current.tag # 0 => Follow(in, 0, left) /\ left >= 1
  <2> SUFFICES ASSUME queue.current.tag # 0 PROVE Follow(in, 0, left) /\ left >= 1
    OBVIOUS
  <2>1. Follow(in, 0, left)
    BY <1>2 DEF Typed, Rest
  <2>2. left # 0
    BY <1>2, <2>1 DEF Follow, Carried
  <2>3. QED
    BY <1>3, <2>1, <2>2
<1>6. queue.current.tag # 0 =>
         c \in CurrentMessage /\ c.tag = queue.current.tag
         /\ c.message = queue.current.message /\ c.left = left - 1
  <2>1. left >= 1 => left - 1 \in Nat
    BY <1>3
  <2>2. Append(queue.current.payload, Head(in).message) \in Seq(Messages)
    BY <1>2, <1>3 DEF CurrentMessage
  <2>3. QED
    BY <1>3, <1>5, <2>1, <2>2 DEF CurrentMessage
<1> HIDE DEF c, left
<1>7. /\ d \in CurrentMessage /\ d.tag = queue.current.tag
      /\ d.message = queue.current.message /\ (queue.current.tag # 0 => d.left = left - 1)
  BY <1>3, <1>6
<1> HIDE DEF d
<1>8. queue.current.tag # 0 => Rest(in', d)
  <2> SUFFICES ASSUME queue.current.tag # 0 PROVE Rest(in', d)
    OBVIOUS
  <2>1. left + 0 >= 1 /\ left + 0 - 1 = left - 1
    BY <1>3, <1>5
  <2>2. Follow(in', 0, left - 1)
    BY <1>2, <1>3, <1>5, <2>1, FollowTail
  <2>3. QED
    BY <1>7, <2>2 DEF Rest
<1>9. QED
  BY <1>1, <1>4, <1>7, <1>8, ContentTyped DEF Carried

\* What the broker does, when what it sends is no part of a message.
LEMMA BrokerTyped ==
    ASSUME Typed, BrokerUnchanged, out' \in Seq(OutFrames),
           in' \in Seq(InFrames), Whole(in'), Rest(in', queue.current),
           broker' \in Broker, ready' \subseteq Messages, acked' \subseteq Messages
    PROVE  Typed'
<1>1. TypeOK'
  BY DEF Typed, TypeOK, BrokerUnchanged
<1>2. QED
  BY <1>1 DEF Typed, BrokerUnchanged

LEMMA AnswerTyped ==
    ASSUME Typed, NEW f \in InFrames, f.type \notin Carried, ~Announces(f)
    PROVE  LET s == Append(in, f)
           IN  s \in Seq(InFrames) /\ Whole(s) /\ Rest(s, queue.current)
<1>1. in \in Seq(InFrames) /\ Whole(in) /\ Rest(in, queue.current) /\ queue.current.left \in Nat
  BY TypedSays DEF Typed
<1>2. QED
  BY <1>1, WholeAppend

LEMMA TakesSays ==
    ASSUME Typed, NEW type, BrokerTakes(type)
    PROVE  /\ link = "up" /\ out # <<>> /\ out' = Tail(out) /\ BrokerUnchanged
           /\ out' \in Seq(OutFrames)
           /\ Head(out) = out[1] /\ out[1] \in OutFrames /\ out[1].type = type /\ 1 \in DOMAIN out
<1>1. out \in Seq(OutFrames) /\ out # <<>> /\ out' = Tail(out)
  BY TypedSays DEF BrokerTakes
<1>2. Tail(out) \in Seq(OutFrames) /\ Head(out) = out[1] /\ out[1] \in OutFrames /\ 1 \in DOMAIN out
  BY <1>1, TailEntries
<1>3. QED
  BY <1>1, <1>2 DEF BrokerTakes

LEMMA CountMore ==
    ASSUME Typed PROVE broker.count + 1 \in Nat /\ broker.number + 1 \in Nat
<1>1. broker.count \in Nat /\ broker.number \in Nat
  BY TypedSays
<1>2. QED
  BY <1>1

LEMMA BrokerOpensTyped == ASSUME Typed, BrokerOpens PROVE Typed'
<1> DEFINE f == [type |-> "OpenOk"]
<1>1. /\ BrokerTakes("Open") /\ in' = Append(in, f) /\ UNCHANGED <<ready, acked>>
      /\ broker' = [broker EXCEPT !.channel = "open", !.number = @ + 1]
  BY DEF BrokerOpens
<1>2. f \in InFrames /\ f.type \notin Carried /\ ~Announces(f)
  BY InFramesMade DEF Carried, Announces
<1> HIDE DEF f
<1>3. broker' \in Broker
  BY <1>1, CountMore, TypedSays, BrokerIs
<1>4. in' \in Seq(InFrames) /\ Whole(in') /\ Rest(in', queue.current)
  BY <1>1, <1>2, AnswerTyped
<1>5. QED
  BY <1>1, <1>3, <1>4, TypedSays, TakesSays, BrokerTyped

LEMMA BrokerConsumesTyped == ASSUME Typed, BrokerConsumes PROVE Typed'
<1>1. PICK tag \in ConsumerTags \ broker.consumers :
         /\ broker' = [broker EXCEPT !.consumers = @ \cup {tag}]
         /\ in' = Append(in, [type |-> "ConsumeOk", consumer |-> tag])
  BY DEF BrokerConsumes
<1> DEFINE f == [type |-> "ConsumeOk", consumer |-> tag]
<1>2. f \in InFrames /\ f.type \notin Carried /\ ~Announces(f)
  BY InFramesMade DEF Carried, Announces
<1>3. in' = Append(in, f)
  BY <1>1
<1> HIDE DEF f
<1>4. broker' \in Broker
  BY <1>1, TypedSays, BrokerIs
<1>5. in' \in Seq(InFrames) /\ Whole(in') /\ Rest(in', queue.current)
  BY <1>2, <1>3, AnswerTyped
<1>6. BrokerTakes("Consume") /\ UNCHANGED <<ready, acked>>
  BY DEF BrokerConsumes
<1>7. QED
  BY <1>4, <1>5, <1>6, TypedSays, TakesSays, BrokerTyped

LEMMA BrokerCancelsTyped == ASSUME Typed, BrokerCancels PROVE Typed'
<1> DEFINE f == [type |-> "CancelOk", consumer |-> Head(out).consumer]
<1>1. /\ BrokerTakes("Cancel") /\ UNCHANGED <<ready, acked>>
      /\ broker' = [broker EXCEPT !.consumers = @ \ {Head(out).consumer}]
      /\ in' = in \/ in' = Append(in, f)
  BY DEF BrokerCancels
<1>2. Head(out).consumer \in ConsumerTags
  BY <1>1, TakesSays, OutFramesAre
<1>3. f \in InFrames /\ f.type \notin Carried /\ ~Announces(f)
  BY <1>2, InFramesMade DEF Carried, Announces
<1> HIDE DEF f
<1>4. broker' \in Broker
  BY <1>1, TypedSays, BrokerIs
<1>5. in' \in Seq(InFrames) /\ Whole(in') /\ Rest(in', queue.current)
  BY <1>1, <1>3, TypedSays, AnswerTyped DEF Typed
<1>6. QED
  BY <1>1, <1>4, <1>5, TypedSays, TakesSays, BrokerTyped

LEMMA RunIsWhole ==
    ASSUME NEW method \in InFrames, Announces(method), NEW size \in Sizes,
           NEW message \in Messages
    PROVE  /\ Run(method, size, message) \in Seq(InFrames) /\ Whole(Run(method, size, message))
           /\ Run(method, size, message) # <<>>
           /\ Run(method, size, message)[1].type \notin Carried
           /\ size \in Nat
<1> DEFINE r == Run(method, size, message)
<1>1. /\ r \in Seq(InFrames) /\ Len(r) = size + 2 /\ DOMAIN r = 1..(size + 2)
      /\ size \in Nat /\ r # <<>>
      /\ r[1] = method /\ r[2] = [type |-> "Header", size |-> size]
      /\ \A k \in DOMAIN r : k > 2 => r[k] = [type |-> "Body", message |-> message]
      /\ Whole(r) /\ r[1].type \notin Carried
  BY RunIs
<1> HIDE DEF r
<1>2. QED
  BY <1>1 DEF r

\* The frames that a delivery adds, and what the broker notes of it.
LEMMA SendsSays ==
    ASSUME Typed, NEW method \in InFrames, Announces(method), NEW message \in Messages,
           Sends(method, message)
    PROVE  \E size \in Sizes :
              /\ in' = in \o Run(method, size, message)
              /\ in' \in Seq(InFrames) /\ Whole(in') /\ Rest(in', queue.current)
              /\ broker' = [broker EXCEPT !.count = @ + 1,
                               !.unacked = @ \cup {[tag |-> broker.count + 1, message |-> message]}]
              /\ broker' \in Broker
              /\ ready' = ready \ {message} /\ acked' = acked
<1>1. PICK size \in Sizes :
         /\ in' = in \o <<method, [type |-> "Header", size |-> size]>>
                     \o [i \in 1..size |-> [type |-> "Body", message |-> message]]
         /\ broker' = [broker EXCEPT !.count = @ + 1,
                          !.unacked = @ \cup {[tag |-> broker.count + 1, message |-> message]}]
         /\ ready' = ready \ {message} /\ acked' = acked
  BY DEF Sends
<1> DEFINE a == <<method, [type |-> "Header", size |-> size]>>
           bs == [i \in 1..size |-> [type |-> "Body", message |-> message]]
           r == Run(method, size, message)
<1>2. in' = (in \o a) \o bs /\ r = a \o bs
  BY <1>1 DEF Run
<1>3. in \in Seq(InFrames) /\ Whole(in) /\ Rest(in, queue.current) /\ queue.current.left \in Nat
  BY TypedSays DEF Typed
<1>4. r \in Seq(InFrames) /\ Whole(r) /\ r # <<>> /\ r[1].type \notin Carried /\ size \in Nat
  BY RunIsWhole
<1>5. a \in Seq(InFrames) /\ bs \in Seq(InFrames)
  <2>1. [type |-> "Header", size |-> size] \in InFrames /\ [type |-> "Body", message |-> message] \in InFrames
    BY DEF InFrames
  <2> DEFINE h == [type |-> "Header", size |-> size]
             b == [type |-> "Body", message |-> message]
  <2>2. h \in InFrames /\ b \in InFrames
    BY <2>1
  <2> HIDE DEF h, b
  <2>3. <<method, h>> \in Seq(InFrames) /\ [i \in 1..size |-> b] \in Seq(InFrames)
    BY <1>4, <2>2
  <2>4. QED
    BY <2>3 DEF h, b
<1> HIDE DEF a, bs, r
<1>6. (in \o a) \o bs = in \o (a \o bs)
  BY <1>3, <1>5
<1>7. in' = in \o r
  BY <1>2, <1>6
<1>8. in' \in Seq(InFrames) /\ Whole(in') /\ Rest(in', queue.current)
  BY <1>3, <1>4, <1>7, WholeConcat
<1>9. broker' \in Broker
  <2>1. [tag |-> broker.count + 1, message |-> message] \in Unacked
    BY CountMore DEF Unacked
  <2>2. QED
    BY <1>1, <2>1, CountMore, TypedSays, BrokerIs
<1>10. QED
  BY <1>1, <1>7, <1>8, <1>9 DEF r

LEMMA BrokerDeliversTyped == ASSUME Typed, BrokerDelivers PROVE Typed'
<1>1. PICK message \in ready, tag \in broker.consumers :
         Sends([type |-> "Deliver", consumer |-> tag, tag |-> broker.count + 1,
                channel |-> broker.number, message |-> message], message)
  BY DEF BrokerDelivers
<1> DEFINE f == [type |-> "Deliver", consumer |-> tag, tag |-> broker.count + 1,
                 channel |-> broker.number, message |-> message]
<1>2. message \in Messages /\ f \in InFrames /\ Announces(f)
  <2>1. tag \in ConsumerTags /\ message \in Messages /\ broker.number \in Nat
    BY TypedSays
  <2>2. f \in InFrames
    BY <2>1, CountMore, InFramesMade
  <2>3. QED
    BY <2>1, <2>2 DEF Announces
<1>3. Sends(f, message)
  BY <1>1
<1> HIDE DEF f
<1>4. BrokerUnchanged /\ out' = out
  BY DEF BrokerDelivers
<1>5. QED
  BY <1>2, <1>3, <1>4, TypedSays, SendsSays, BrokerTyped

LEMMA BrokerGetsTyped == ASSUME Typed, BrokerGets PROVE Typed'
<1>1. BrokerTakes("Get")
  BY DEF BrokerGets
<1>2. ASSUME NEW message \in ready,
             Sends([type |-> "GetOk", tag |-> broker.count + 1,
                    channel |-> broker.number, message |-> message], message)
      PROVE  Typed'
  <2> DEFINE f == [type |-> "GetOk", tag |-> broker.count + 1,
                   channel |-> broker.number, message |-> message]
  <2>1. message \in Messages /\ f \in InFrames /\ Announces(f)
    <3>1. message \in Messages /\ broker.number \in Nat
      BY TypedSays
    <3>2. f \in InFrames
      BY <3>1, CountMore, InFramesMade
    <3>3. QED
      BY <3>1, <3>2 DEF Announces
  <2>2. Sends(f, message)
    BY <1>2
  <2> HIDE DEF f
  <2>3. QED
    BY <1>1, <2>1, <2>2, TypedSays, TakesSays, SendsSays, BrokerTyped
<1>3. ASSUME in' = Append(in, [type |-> "GetEmpty"]), UNCHANGED Contents
      PROVE  Typed'
  <2> DEFINE f == [type |-> "GetEmpty"]
  <2>1. f \in InFrames /\ f.type \notin Carried /\ ~Announces(f)
    BY InFramesMade DEF Carried, Announces
  <2>2. in' = Append(in, f) /\ UNCHANGED <<broker, ready, acked>>
    BY <1>3 DEF Contents
  <2> HIDE DEF f
  <2>3. in' \in Seq(InFrames) /\ Whole(in') /\ Rest(in', queue.current)
    BY <2>1, <2>2, AnswerTyped
  <2>4. QED
    BY <1>1, <2>2, <2>3, TypedSays, TakesSays, BrokerTyped
<1>4. QED
  BY <1>2, <1>3 DEF BrokerGets

\* What the broker is left with when it has read an ack or a reject of a
\* message that it knows, and the other case.
LEMMA SettlesSays ==
    ASSUME Typed, BrokerSettles
    PROVE  LET settled == {u \in broker.unacked : u.tag = Head(out).tag}
               messages == {u.message : u \in settled}
           IN  /\ broker.channel = "open" /\ \E type \in {"Ack", "Reject"} : BrokerTakes(type)
               /\ \/ /\ settled = {} /\ BrokerCloses("closing")
                     /\ in' = Append(in, [type |-> "Close"])
                  \/ /\ settled # {} /\ in' = in
                     /\ broker' = [broker EXCEPT !.unacked = @ \ settled] /\ broker' \in Broker
                     /\ acked' = acked \/ (Head(out).type = "Ack" /\ acked' = acked \cup messages)
                     /\ ready' \subseteq Messages /\ acked' \subseteq Messages
<1> DEFINE settled == {u \in broker.unacked : u.tag = Head(out).tag}
           messages == {u.message : u \in settled}
<1>1. broker.channel = "open" /\ \E type \in {"Ack", "Reject"} : BrokerTakes(type)
  BY DEF BrokerSettles
<1>2. CASE settled = {}
  <2>1. BrokerCloses("closing") /\ in' = Append(in, [type |-> "Close"])
    BY <1>2 DEF BrokerSettles
  <2>2. QED
    BY <1>1, <1>2, <2>1
<1>3. CASE settled # {}
  <2>1. /\ broker' = [broker EXCEPT !.unacked = @ \ settled] /\ in' = in
        /\ acked' = IF Head(out).type = "Ack" THEN acked \cup messages ELSE acked
        /\ ready' = IF Head(out).type = "Reject" /\ Head(out).requeue
                    THEN ready \cup messages ELSE ready
    BY <1>3 DEF BrokerSettles
  <2>2. \A m \in messages : m \in Messages
    BY TypedSays DEF Unacked
  <2> HIDE DEF settled, messages
  <2>3. broker' \in Broker
    BY <2>1, TypedSays, BrokerIs
  <2>4. ready' \subseteq Messages /\ acked' \subseteq Messages
    BY <2>1, <2>2, TypedSays
  <2>5. acked' = acked \/ (Head(out).type = "Ack" /\ acked' = acked \cup messages)
    BY <2>1
  <2>6. QED
    BY <1>1, <1>3, <2>1, <2>3, <2>4, <2>5 DEF settled, messages
<1>4. QED
  BY <1>2, <1>3

\* The broker closes the channel on its own account.
LEMMA CloseTyped ==
    ASSUME Typed, BrokerCloses("closing"), in' = Append(in, [type |-> "Close"])
    PROVE  /\ in' \in Seq(InFrames) /\ Whole(in') /\ Rest(in', queue.current)
           /\ broker' \in Broker /\ ready' \subseteq Messages /\ acked' \subseteq Messages
<1> DEFINE f == [type |-> "Close"]
<1>1. f \in InFrames /\ f.type \notin Carried /\ ~Announces(f)
  BY InFramesMade DEF Carried, Announces
<1>2. in' = Append(in, f)
  OBVIOUS
<1> HIDE DEF f
<1>3. in' \in Seq(InFrames) /\ Whole(in') /\ Rest(in', queue.current)
  BY <1>1, <1>2, AnswerTyped
<1>4. broker' \in Broker /\ ready' \subseteq Messages /\ acked' \subseteq Messages
  BY TypedSays, BrokerClosesSays
<1>5. QED
  BY <1>3, <1>4

LEMMA BrokerSettlesTyped == ASSUME Typed, BrokerSettles PROVE Typed'
<1>1. out' \in Seq(OutFrames) /\ BrokerUnchanged
  BY SettlesSays, TakesSays
<1>2. \/ BrokerCloses("closing") /\ in' = Append(in, [type |-> "Close"])
      \/ in' = in /\ broker' \in Broker /\ ready' \subseteq Messages /\ acked' \subseteq Messages
  BY SettlesSays
<1>3. CASE BrokerCloses("closing") /\ in' = Append(in, [type |-> "Close"])
  BY <1>1, <1>3, CloseTyped, BrokerTyped
<1>4. CASE in' = in /\ broker' \in Broker /\ ready' \subseteq Messages /\ acked' \subseteq Messages
  BY <1>1, <1>4, TypedSays, BrokerTyped DEF Typed
<1>5. QED
  BY <1>2, <1>3, <1>4

LEMMA BrokerAnswersCloseTyped == ASSUME Typed, BrokerAnswersClose PROVE Typed'
<1> DEFINE f == [type |-> "CloseOk"]
<1>1. /\ BrokerTakes("Close") /\ in' = Append(in, f)
      /\ BrokerCloses("closed") \/ UNCHANGED Contents
  BY DEF BrokerAnswersClose
<1>2. f \in InFrames /\ f.type \notin Carried /\ ~Announces(f)
  BY InFramesMade DEF Carried, Announces
<1> HIDE DEF f
<1>3. broker' \in Broker /\ ready' \subseteq Messages /\ acked' \subseteq Messages
  BY <1>1, TypedSays, BrokerClosesSays DEF Contents
<1>4. in' \in Seq(InFrames) /\ Whole(in') /\ Rest(in', queue.current)
  BY <1>1, <1>2, AnswerTyped
<1>5. QED
  BY <1>1, <1>3, <1>4, TypedSays, TakesSays, BrokerTyped

LEMMA BrokerWaitsTyped == ASSUME Typed, BrokerWaitsForCloseOk PROVE Typed'
<1>1. PICK type \in {"Open", "Consume", "Cancel", "Get", "Ack", "Reject", "CloseOk"} :
         /\ BrokerTakes(type)
         /\ broker' = IF type = "CloseOk" THEN [broker EXCEPT !.channel = "closed"]
                      ELSE broker
  BY DEF BrokerWaitsForCloseOk
<1>2. broker' \in Broker
  BY <1>1, TypedSays, BrokerIs
<1>3. UNCHANGED <<in, ready, acked>>
  BY DEF BrokerWaitsForCloseOk
<1>4. QED
  BY <1>1, <1>2, <1>3, TypedSays, TakesSays, BrokerTyped DEF Typed

LEMMA BrokerClosesChannelTyped == ASSUME Typed, BrokerClosesChannel PROVE Typed'
<1>1. /\ Call /\ BrokerCloses("closing") /\ in' = Append(in, [type |-> "Close"])
      /\ UNCHANGED <<link, queue, received, held, out, userAcked, happened, losses>>
  BY DEF BrokerClosesChannel
<1>2. /\ in' \in Seq(InFrames) /\ Whole(in') /\ Rest(in', queue.current)
      /\ broker' \in Broker /\ ready' \subseteq Messages /\ acked' \subseteq Messages
  BY <1>1, CloseTyped
<1>3. calls' \in 0..MaxCalls
  BY <1>1, CallTyped
<1>4. TypeOK'
  BY <1>1, <1>2, <1>3 DEF Typed, TypeOK
<1>5. QED
  BY <1>1, <1>2, <1>4 DEF Typed

LEMMA InitTyped == Init => Typed
<1> SUFFICES ASSUME Init PROVE Typed
  OBVIOUS
<1>1. <<>> \in Seq(Messages) /\ <<>> \in Seq(Delivery) /\ <<>> \in Seq(OutFrames)
  OBVIOUS
<1>2. NoMessage \in CurrentMessage /\ NoMessage.tag = 0
  BY <1>1 DEF NoMessage, CurrentMessage
<1>3. queue \in Queue /\ queue.current = NoMessage
  BY <1>2, QueueIs DEF Init
<1>4. broker \in Broker
  BY BrokerIs DEF Init
<1>5. 0 \in 0..MaxLosses /\ 0 \in 0..MaxCalls
  <2>1. MaxLosses \in Nat /\ MaxCalls \in Nat
    BY ConsumerAssumption
  <2>2. QED
    BY <2>1
<1>6. TypeOK
  BY <1>1, <1>3, <1>4, <1>5, EmptyIsWhole DEF Init, TypeOK
<1>7. QED
  BY <1>2, <1>3, <1>6, EmptyIsWhole DEF Init, Typed

LEMMA NextTyped == Typed /\ [Next]_vars => Typed'
<1> SUFFICES ASSUME Typed, [Next]_vars PROVE Typed'
  OBVIOUS
<1>1. CASE User
  BY <1>1, ConsumeTyped, CancelTyped, SetConsumerTagTyped, GetTyped, AckTyped, RejectTyped,
     CloseChannelTyped, ReopenTyped, ResetTyped DEF User
<1>2. CASE Link
  BY <1>2, LinkUpTyped, SocketClosedTyped, LinkClosesTyped DEF Link, LinkLost
<1>3. CASE Reading
  BY <1>3, ReceiveOpenOkTyped, ReceiveCloseTyped, ReceiveCloseOkTyped, ReceiveConsumeOkTyped,
     ReceiveCancelOkTyped, ReceiveDeliverTyped, ReceiveGetOkTyped, ReceiveGetEmptyTyped,
     ReceiveHeaderTyped, ReceiveBodyTyped DEF Reading
<1>4. CASE BrokerReads
  <2>1. BrokerRefuses => Typed'
    BY SocketClosedTyped DEF BrokerRefuses, LinkLost
  <2>2. QED
    BY <1>4, <2>1, BrokerOpensTyped, BrokerConsumesTyped, BrokerCancelsTyped, BrokerGetsTyped,
       BrokerSettlesTyped, BrokerAnswersCloseTyped, BrokerWaitsTyped DEF BrokerReads
<1>5. CASE BrokerDelivers \/ BrokerClosesChannel
  BY <1>5, BrokerDeliversTyped, BrokerClosesChannelTyped
<1>6. CASE UNCHANGED vars
  <2>1. TypeOK'
    BY <1>6 DEF Typed, TypeOK, vars
  <2>2. QED
    BY <1>6, <2>1 DEF Typed, vars
<1>7. QED
  BY <1>1, <1>2, <1>3, <1>4, <1>5, <1>6 DEF Next

-----------------------------------------------------------------------------
(* The channel is opened and closed in order.                              *)

Idle(q) == ~q.opened /\ ~q.consuming /\ ~q.consumeRequested

\* Without a connection nothing is under way and the broker has no channel; a
\* channel that is not open has no consumers and no messages to acknowledge.
Linked(l, q, o, s, b) ==
    /\ l # "up" => o = <<>> /\ s = <<>> /\ b.channel = "closed"
    /\ b.channel # "open" => b.consumers = {} /\ b.unacked = {} /\ b.count = 0
    /\ l = "down" => Idle(q)

Orderly ==
    /\ Linked(link, queue, out, in, broker)
    /\ Handshake(broker.channel, queue.opened, out, in)

Ordered == Typed /\ Orderly

LEMMA OrderedSays ==
    ASSUME Ordered
    PROVE  /\ Typed
           /\ Handshake(broker.channel, queue.opened, out, in)
           /\ link # "up" => out = <<>> /\ in = <<>> /\ broker.channel = "closed"
           /\ broker.channel # "open" => broker.consumers = {} /\ broker.unacked = {} /\ broker.count = 0
           /\ link = "down" => Idle(queue)
           /\ out \in Seq(OutFrames) /\ in \in Seq(InFrames)
           /\ queue.opened \in BOOLEAN
<1>1. queue.opened \in BOOLEAN /\ out \in Seq(OutFrames) /\ in \in Seq(InFrames)
  BY TypedSays, QueueIs DEF Ordered
<1>2. QED
  BY <1>1 DEF Ordered, Orderly, Linked

LEMMA InitOrdered == Init => Ordered
<1> SUFFICES ASSUME Init PROVE Ordered
  OBVIOUS
<1>1. Typed
  BY InitTyped
<1>2. Linked(link, queue, out, in, broker)
  BY DEF Init, Linked, Idle
<1>3. Handshake(broker.channel, queue.opened, out, in)
  BY EmptyHandshake DEF Init
<1>4. QED
  BY <1>1, <1>2, <1>3 DEF Ordered, Orderly

\* The queue sends a frame in a call of the user.
LEMMA SendOrderly ==
    ASSUME Ordered, NEW f \in OutFrames, Send(f), f.type # "CloseOk",
           f.type \in Needs => queue.opened, f.type = "Open" => ~queue.opened,
           UNCHANGED <<link, in, broker>>, queue'.opened = queue.opened,
           link = "down" => Idle(queue')
    PROVE  Orderly'
<1>1. CASE link = "up"
  <2>1. out' = Append(out, f)
    BY <1>1, OrderedSays, SendIs
  <2>2. Handshake(broker.channel, queue.opened, Append(out, f), in)
    BY OrderedSays, HandshakeSend
  <2>3. Linked(link, queue, out, in, broker)'
    BY <1>1, OrderedSays DEF Linked
  <2>4. QED
    BY <2>1, <2>2, <2>3 DEF Orderly
<1>2. CASE link # "up"
  <2>1. out' = out
    BY <1>2, OrderedSays, SendIs
  <2>2. QED
    BY <2>1, OrderedSays DEF Orderly, Linked
<1>3. QED
  BY <1>1, <1>2

LEMMA ConsumeSays ==
    ASSUME Typed, Consume
    PROVE  LET f == [type |-> "Consume", consumer |-> queue.consumerTag]
           IN  /\ f \in OutFrames /\ Send(f) /\ Call
               /\ queue.opened /\ ~queue.consumeRequested /\ ~queue.consuming
               /\ queue'.opened = queue.opened /\ queue'.consumerTag = queue.consumerTag
               /\ queue'.consumeRequested /\ queue'.consuming = queue.consuming
               /\ queue'.current = queue.current
               /\ UNCHANGED <<link, received, held, in, broker, ready, acked, userAcked,
                              happened, losses>>
<1>1. [type |-> "Consume", consumer |-> queue.consumerTag] \in OutFrames
  BY TypedSays, OutFramesMade
<1>2. /\ queue'.opened = queue.opened /\ queue'.consumerTag = queue.consumerTag
      /\ queue'.consumeRequested /\ queue'.consuming = queue.consuming
      /\ queue'.current = queue.current
  BY TypedSays, QueueIs DEF Consume
<1>3. QED
  BY <1>1, <1>2 DEF Consume, Contents

LEMMA CancelSays ==
    ASSUME Typed, Cancel
    PROVE  \E noWait \in BOOLEAN :
              LET f == [type |-> "Cancel", consumer |-> queue.consumerTag, noWait |-> noWait]
              IN  /\ f \in OutFrames /\ Send(f) /\ Call
                  /\ queue.consuming /\ queue.consumerTag \in ConsumerTags
                  /\ noWait => "noWait" \in happened'
                  /\ CancelPending => "recancel" \in happened'
                  /\ happened \subseteq happened'
                  /\ UNCHANGED <<link, queue, received, held, in, broker, ready, acked,
                                 userAcked, losses>>
<1>1. PICK noWait \in BOOLEAN :
         /\ Happens((IF noWait THEN {"noWait"} ELSE {})
                       \cup (IF CancelPending THEN {"recancel"} ELSE {}))
         /\ Send([type |-> "Cancel", consumer |-> queue.consumerTag, noWait |-> noWait])
  BY DEF Cancel
<1>2. queue.consumerTag \in ConsumerTags
  BY TypedSays DEF Cancel
<1>3. [type |-> "Cancel", consumer |-> queue.consumerTag, noWait |-> noWait] \in OutFrames
  BY <1>2, OutFramesMade
<1>4. /\ noWait => "noWait" \in happened'
      /\ CancelPending => "recancel" \in happened'
      /\ happened \subseteq happened'
  BY <1>1 DEF Happens
<1>5. /\ Call /\ queue.consuming
      /\ UNCHANGED <<link, queue, received, held, in, broker, ready, acked, userAcked, losses>>
  BY DEF Cancel, Contents
<1>6. QED
  BY <1>1, <1>2, <1>3, <1>4, <1>5

LEMMA SettleSays ==
    ASSUME Typed, NEW delivery \in held, NEW f, Settle(delivery, f)
    PROVE  /\ Send(f) /\ Call /\ queue.opened
           /\ held' = held \ {delivery}
           /\ delivery.channel # broker.number => "stale" \in happened'
           /\ happened \subseteq happened'
           /\ UNCHANGED <<link, queue, received, in, broker, ready, acked, losses>>
  BY DEF Settle, Happens, Contents

\* A call of the user that settles a message.
LEMMA SettledSays ==
    ASSUME Typed, NEW delivery \in held, Ack(delivery) \/ Reject(delivery)
    PROVE  \E f \in OutFrames :
              /\ f.type \in {"Ack", "Reject"} /\ f.tag = delivery.tag /\ Settle(delivery, f)
              /\ f.type = "Ack" => userAcked' = userAcked \cup {delivery.message}
              /\ userAcked \subseteq userAcked'
<1>1. CASE Ack(delivery)
  <2> DEFINE f == [type |-> "Ack", tag |-> delivery.tag]
  <2>1. f \in OutFrames
    BY HeldSays, OutFramesMade
  <2>2. Settle(delivery, f) /\ userAcked' = userAcked \cup {delivery.message}
    BY <1>1 DEF Ack
  <2>3. f.type = "Ack" /\ f.tag = delivery.tag
    OBVIOUS
  <2> HIDE DEF f
  <2>4. QED
    BY <2>1, <2>2, <2>3
<1>2. CASE Reject(delivery)
  <2>1. PICK requeue \in BOOLEAN :
           /\ Settle(delivery, [type |-> "Reject", tag |-> delivery.tag, requeue |-> requeue])
           /\ UNCHANGED userAcked
    BY <1>2 DEF Reject
  <2> DEFINE f == [type |-> "Reject", tag |-> delivery.tag, requeue |-> requeue]
  <2>2. f \in OutFrames
    BY HeldSays, OutFramesMade
  <2>3. Settle(delivery, f) /\ f.type = "Reject" /\ f.tag = delivery.tag
    BY <2>1
  <2> HIDE DEF f
  <2>4. QED
    BY <2>1, <2>2, <2>3
<1>3. QED
  BY <1>1, <1>2

\* The calls of the user that are about the channel and single messages.
Simple == Get \/ CloseChannel \/ Reopen

LEMMA SimpleSays ==
    ASSUME Typed, Simple
    PROVE  \E f \in OutFrames :
              /\ Send(f) /\ Call /\ f.type \in {"Get", "Close", "Open"}
              /\ f.type # "Open" => queue.opened
              /\ f.type = "Open" => /\ ~queue.opened /\ link = "up"
                                    /\ queue.consuming \/ queue.consumeRequested => "reopen" \in happened'
              /\ happened \subseteq happened'
              /\ UNCHANGED <<link, queue, received, held, in, broker, ready, acked,
                             userAcked, losses>>
<1> DEFINE g == [type |-> "Get"]
           c == [type |-> "Close"]
           n == [type |-> "Open"]
<1>1. /\ g \in OutFrames /\ c \in OutFrames /\ n \in OutFrames
      /\ g.type = "Get" /\ c.type = "Close" /\ n.type = "Open"
  BY OutFramesMade
<1>2. CASE Get
  <2>1. /\ Send(g) /\ Call /\ queue.opened
        /\ UNCHANGED <<link, queue, received, held, in, broker, ready, acked, userAcked,
                       happened, losses>>
    BY <1>2 DEF Get, Contents
  <2> HIDE DEF g, c, n
  <2>2. QED
    BY <1>1, <2>1
<1>3. CASE CloseChannel
  <2>1. /\ Send(c) /\ Call /\ queue.opened
        /\ UNCHANGED <<link, queue, received, held, in, broker, ready, acked, userAcked,
                       happened, losses>>
    BY <1>3 DEF CloseChannel, Contents
  <2> HIDE DEF g, c, n
  <2>2. QED
    BY <1>1, <2>1
<1>4. CASE Reopen
  <2>1. /\ queue.opened => Send(c)
        /\ ~queue.opened => Send(n)
    BY <1>4 DEF Reopen
  <2>2. /\ Call /\ (queue.opened \/ link = "up") /\ happened \subseteq happened'
        /\ ~queue.opened /\ (queue.consuming \/ queue.consumeRequested) => "reopen" \in happened'
        /\ UNCHANGED <<link, queue, received, held, in, broker, ready, acked, userAcked, losses>>
    BY <1>4 DEF Reopen, Happens, Contents
  <2> HIDE DEF g, c, n
  <2>3. QED
    BY <1>1, <2>1, <2>2
<1>5. QED
  BY <1>2, <1>3, <1>4 DEF Simple

LEMMA ConsumeOrderly == ASSUME Ordered, Consume PROVE Orderly'
<1> DEFINE f == [type |-> "Consume", consumer |-> queue.consumerTag]
<1>1. /\ f \in OutFrames /\ Send(f) /\ queue.opened
      /\ queue'.opened = queue.opened
      /\ UNCHANGED <<link, in, broker>>
  BY OrderedSays, ConsumeSays
<1>2. f.type = "Consume"
  OBVIOUS
<1> HIDE DEF f
<1>3. link # "down"
  BY <1>1, OrderedSays DEF Idle
<1>4. QED
  BY <1>1, <1>2, <1>3, SendOrderly

LEMMA CancelOrderly == ASSUME Ordered, Cancel PROVE Orderly'
<1>1. PICK noWait \in BOOLEAN :
         LET f == [type |-> "Cancel", consumer |-> queue.consumerTag, noWait |-> noWait]
         IN  /\ f \in OutFrames /\ Send(f)
             /\ UNCHANGED <<link, queue, in, broker>>
  BY OrderedSays, CancelSays
<1> DEFINE f == [type |-> "Cancel", consumer |-> queue.consumerTag, noWait |-> noWait]
<1>2. f \in OutFrames /\ Send(f) /\ UNCHANGED <<link, queue, in, broker>> /\ f.type = "Cancel"
  BY <1>1
<1> HIDE DEF f
<1>3. link = "down" => Idle(queue')
  BY <1>2, OrderedSays
<1>4. QED
  BY <1>2, <1>3, SendOrderly DEF Needs

LEMMA SettleOrderly ==
    ASSUME Ordered, NEW delivery \in held, Ack(delivery) \/ Reject(delivery) PROVE Orderly'
<1>1. PICK f \in OutFrames :
         f.type \in {"Ack", "Reject"} /\ f.tag = delivery.tag /\ Settle(delivery, f)
  BY OrderedSays, SettledSays
<1>2. Send(f) /\ queue.opened /\ UNCHANGED <<link, queue, in, broker>>
  BY <1>1, OrderedSays, SettleSays
<1>3. link = "down" => Idle(queue')
  BY <1>2, OrderedSays
<1>4. QED
  BY <1>1, <1>2, <1>3, SendOrderly DEF Needs

LEMMA SimpleOrderly == ASSUME Ordered, Simple PROVE Orderly'
<1>1. PICK f \in OutFrames :
         /\ Send(f) /\ f.type \in {"Get", "Close", "Open"}
         /\ f.type # "Open" => queue.opened
         /\ f.type = "Open" => ~queue.opened
         /\ UNCHANGED <<link, queue, in, broker>>
  BY OrderedSays, SimpleSays
<1>2. link = "down" => Idle(queue')
  BY <1>1, OrderedSays
<1>3. QED
  BY <1>1, <1>2, SendOrderly DEF Needs

LEMMA SetConsumerTagSays ==
    ASSUME Typed, SetConsumerTag
    PROVE  /\ queue'.opened = queue.opened /\ queue'.consuming = queue.consuming
           /\ queue'.consumeRequested = queue.consumeRequested /\ queue'.current = queue.current
           /\ queue.consuming => "retag" \in happened'
           /\ happened \subseteq happened'
           /\ UNCHANGED <<link, received, held, out, in, broker, ready, acked, userAcked, losses>>
<1>1. PICK tag \in ConsumerTags \cup {NoTag} : queue' = [queue EXCEPT !.consumerTag = tag]
  BY DEF SetConsumerTag
<1>2. /\ queue'.opened = queue.opened /\ queue'.consuming = queue.consuming
      /\ queue'.consumeRequested = queue.consumeRequested /\ queue'.current = queue.current
  BY <1>1, TypedSays, QueueIs
<1>3. QED
  BY <1>2 DEF SetConsumerTag, Happens, Contents

LEMMA SetConsumerTagOrderly == ASSUME Ordered, SetConsumerTag PROVE Orderly'
<1>1. Idle(queue) => Idle(queue')
  BY OrderedSays, SetConsumerTagSays DEF Idle
<1>2. queue'.opened = queue.opened /\ UNCHANGED <<link, out, in, broker>>
  BY OrderedSays, SetConsumerTagSays
<1>3. QED
  BY <1>1, <1>2 DEF Ordered, Orderly, Linked

LEMMA ResetSays ==
    ASSUME Typed, Reset
    PROVE  /\ Idle(queue') /\ queue'.current = queue.current /\ queue'.consumerTag = queue.consumerTag
           /\ queue' # queue => "reset" \in happened'
           /\ happened \subseteq happened'
           /\ UNCHANGED <<link, received, held, out, in, broker, ready, acked, userAcked, losses>>
<1>1. queue' = Cleared(queue)
  BY DEF Reset
<1>2. Idle(queue') /\ queue'.current = queue.current /\ queue'.consumerTag = queue.consumerTag
  BY <1>1, TypedSays, ClearedSays DEF Idle
<1>3. QED
  BY <1>1, <1>2 DEF Reset, Happens, Contents

LEMMA ResetOrderly == ASSUME Ordered, Reset PROVE Orderly'
<1>1. Idle(queue') /\ UNCHANGED <<link, out, in, broker>>
  BY OrderedSays, ResetSays
<1>2. Handshake(broker.channel, queue'.opened, out, in)
  BY <1>1, OrderedSays, HandshakeForget DEF Idle
<1>3. QED
  BY <1>1, <1>2, OrderedSays DEF Orderly, Linked

\* The connection.
LEMMA LinkUpOrderly == ASSUME Ordered, LinkUp PROVE Orderly'
<1> DEFINE f == [type |-> "Open"]
<1>1. link = "down" /\ link' = "up" /\ out' = <<f>> /\ UNCHANGED <<queue, in, broker>>
  BY DEF LinkUp, Contents
<1>2. f \in OutFrames /\ f.type = "Open"
  BY OutFramesMade
<1> HIDE DEF f
<1>3. out = <<>> /\ in = <<>> /\ broker.channel = "closed" /\ Idle(queue)
  BY <1>1, OrderedSays
<1>4. Append(<<>>, f) = <<f>> /\ <<>> \in Seq(OutFrames) /\ <<>> \in Seq(InFrames)
  OBVIOUS
<1>5. Handshake(broker.channel, queue.opened, Append(<<>>, f), <<>>)
  BY <1>2, <1>3, <1>4, EmptyHandshake, HandshakeSend DEF Idle, Needs
<1>6. QED
  BY <1>1, <1>3, <1>4, <1>5, OrderedSays DEF Orderly, Linked

LEMMA ShutSays ==
    ASSUME Typed, NEW state \in {"closed", "closing"}, BrokerCloses(state)
    PROVE  /\ broker'.channel = state /\ broker'.consumers = {} /\ broker'.unacked = {}
           /\ broker'.count = 0 /\ broker'.number = broker.number /\ acked' = acked
<1>1. broker' = BrokerShut(broker, state) /\ acked' = acked
  BY BrokerClosesSays
<1>2. QED
  BY <1>1, BrokerShutSays, TypedSays

LEMMA SocketClosedSays ==
    ASSUME Typed, SocketClosed
    PROVE  /\ Idle(queue') /\ queue'.current = queue.current /\ queue'.consumerTag = queue.consumerTag
           /\ link' = "down" /\ out' = <<>> /\ in' = <<>>
           /\ broker'.channel = "closed" /\ broker'.consumers = {} /\ broker'.unacked = {}
           /\ broker'.count = 0 /\ broker'.number = broker.number /\ acked' = acked
           /\ UNCHANGED <<received, held, userAcked, happened>>
<1>1. queue' = Cleared(queue) /\ BrokerCloses("closed")
  BY DEF SocketClosed
<1>2. Idle(queue') /\ queue'.current = queue.current /\ queue'.consumerTag = queue.consumerTag
  BY <1>1, TypedSays, ClearedSays DEF Idle
<1>3. /\ broker'.channel = "closed" /\ broker'.consumers = {} /\ broker'.unacked = {}
      /\ broker'.count = 0 /\ broker'.number = broker.number /\ acked' = acked
  BY <1>1, ShutSays
<1>4. QED
  BY <1>2, <1>3 DEF SocketClosed

LEMMA SocketClosedOrderly == ASSUME Ordered, SocketClosed PROVE Orderly'
<1>1. Typed
  BY OrderedSays
<1>2. QED
  BY <1>1, SocketClosedSays, EmptyHandshake DEF Orderly, Linked

LEMMA LinkClosesSays ==
    ASSUME Typed, LinkCloses
    PROVE  /\ link' = "closing" /\ out' = <<>> /\ in' = <<>>
           /\ queue'.opened => queue.opened
           /\ queue'.consuming = queue.consuming /\ queue'.consumeRequested = queue.consumeRequested
           /\ queue'.current = queue.current /\ queue'.consumerTag = queue.consumerTag
           /\ broker'.channel = "closed" /\ broker'.consumers = {} /\ broker'.unacked = {}
           /\ broker'.count = 0 /\ broker'.number = broker.number /\ acked' = acked
           /\ UNCHANGED <<received, held, userAcked, happened>>
<1>1. PICK opened \in {FALSE, queue.opened} : queue' = [queue EXCEPT !.opened = opened]
  BY DEF LinkCloses
<1>2. /\ queue'.opened = opened
      /\ queue'.consuming = queue.consuming /\ queue'.consumeRequested = queue.consumeRequested
      /\ queue'.current = queue.current /\ queue'.consumerTag = queue.consumerTag
  BY <1>1, TypedSays, QueueIs
<1>3. BrokerCloses("closed")
  BY DEF LinkCloses
<1>4. /\ broker'.channel = "closed" /\ broker'.consumers = {} /\ broker'.unacked = {}
      /\ broker'.count = 0 /\ broker'.number = broker.number /\ acked' = acked
  BY <1>3, ShutSays
<1>5. QED
  BY <1>1, <1>2, <1>4 DEF LinkCloses

LEMMA LinkClosesOrderly == ASSUME Ordered, LinkCloses PROVE Orderly'
<1>1. Typed
  BY OrderedSays
<1>2. QED
  BY <1>1, LinkClosesSays, EmptyHandshake DEF Orderly, Linked

\* The queue reads a frame other than close.
LEMMA ReadOrderly ==
    ASSUME Ordered, NEW type, Receive(type), type # "Close", out' = out,
           queue'.opened \in BOOLEAN, queue'.opened => queue.opened \/ type = "OpenOk"
    PROVE  Orderly'
<1>1. /\ link = "up" /\ in # <<>> /\ in' = Tail(in) /\ in[1].type = type
      /\ UNCHANGED <<link, broker>>
  BY OrderedSays, ReceiveSays
<1>2. Handshake(broker.channel, queue'.opened, out, Tail(in))
  BY <1>1, OrderedSays, HandshakeRead
<1>3. QED
  BY <1>1, <1>2, OrderedSays DEF Orderly, Linked

\* The same queue, but for `opened`.
SameButOpened(q, r) ==
    /\ r.consumerTag = q.consumerTag /\ r.consuming = q.consuming
    /\ r.consumeRequested = q.consumeRequested /\ r.current = q.current

LEMMA ReceiveOpenOkSays ==
    ASSUME Typed, ReceiveOpenOk
    PROVE  /\ Receive("OpenOk") /\ queue'.opened = TRUE /\ SameButOpened(queue, queue')
           /\ UNCHANGED <<received, held, out>>
  BY TypedSays, QueueIs DEF ReceiveOpenOk, SameButOpened

LEMMA ReceiveCloseSays ==
    ASSUME Typed, ReceiveClose
    PROVE  /\ Receive("Close") /\ queue'.opened = FALSE /\ SameButOpened(queue, queue')
           /\ \E f \in OutFrames : f.type = "CloseOk" /\ out' = Append(out, f)
           /\ UNCHANGED <<received, held>>
<1> DEFINE f == [type |-> "CloseOk"]
<1>1. Receive("Close") /\ Send(f) /\ UNCHANGED <<received, held>>
  BY DEF ReceiveClose
<1>2. f \in OutFrames /\ f.type = "CloseOk"
  BY OutFramesMade
<1> HIDE DEF f
<1>3. out' = Append(out, f)
  BY <1>1, <1>2, SendIs, ReceiveSays
<1>4. queue'.opened = FALSE /\ SameButOpened(queue, queue')
  BY TypedSays, QueueIs DEF ReceiveClose, SameButOpened
<1>5. QED
  BY <1>1, <1>2, <1>3, <1>4

LEMMA ReceiveCloseOkSays ==
    ASSUME Typed, ReceiveCloseOk
    PROVE  /\ Receive("CloseOk") /\ queue'.opened = FALSE /\ SameButOpened(queue, queue')
           /\ UNCHANGED <<received, held, out>>
  BY TypedSays, QueueIs DEF ReceiveCloseOk, SameButOpened

LEMMA ReceiveConsumeOkSays ==
    ASSUME Typed, ReceiveConsumeOk
    PROVE  /\ Receive("ConsumeOk") /\ queue'.opened = queue.opened
           /\ queue'.consumerTag = in[1].consumer /\ in[1].consumer \in ConsumerTags
           /\ queue'.consuming = TRUE /\ queue'.consumeRequested = FALSE
           /\ queue'.current = queue.current
           /\ UNCHANGED <<received, held, out>>
<1>1. Receive("ConsumeOk") /\ UNCHANGED <<received, held, out>>
  BY DEF ReceiveConsumeOk
<1>2. Head(in) = in[1] /\ in[1].consumer \in ConsumerTags
  BY <1>1, ReceiveSays, InFramesAre
<1>3. /\ queue'.opened = queue.opened /\ queue'.consumerTag = in[1].consumer
      /\ queue'.consuming = TRUE /\ queue'.consumeRequested = FALSE
      /\ queue'.current = queue.current
  BY <1>2, TypedSays, QueueIs DEF ReceiveConsumeOk
<1>4. QED
  BY <1>1, <1>2, <1>3

LEMMA ReceiveCancelOkSays ==
    ASSUME Typed, ReceiveCancelOk
    PROVE  /\ Receive("CancelOk") /\ queue'.opened = queue.opened
           /\ queue'.current = queue.current
           /\ \/ /\ queue.consumerTag = in[1].consumer /\ queue'.consumerTag = NoTag
                 /\ queue'.consuming = FALSE /\ queue'.consumeRequested = FALSE
              \/ queue.consumerTag # in[1].consumer /\ queue' = queue
           /\ UNCHANGED <<received, held, out>>
<1>1. Receive("CancelOk") /\ UNCHANGED <<received, held, out>>
  BY DEF ReceiveCancelOk
<1>2. Head(in) = in[1]
  BY <1>1, ReceiveSays
<1>3. CASE queue.consumerTag = in[1].consumer
  BY <1>1, <1>2, <1>3, TypedSays, QueueIs DEF ReceiveCancelOk
<1>4. CASE queue.consumerTag # in[1].consumer
  BY <1>1, <1>2, <1>4 DEF ReceiveCancelOk
<1>5. QED
  BY <1>3, <1>4

\* The same queue, but for the message that is read.
SameButCurrent(q, r) ==
    /\ r.consumerTag = q.consumerTag /\ r.consuming = q.consuming
    /\ r.consumeRequested = q.consumeRequested /\ r.opened = q.opened

LEMMA ReceiveDeliverSays ==
    ASSUME Typed, ReceiveDeliver
    PROVE  /\ Receive("Deliver") /\ SameButCurrent(queue, queue')
           /\ queue.consumerTag = in[1].consumer => queue'.current = Announced(in[1])
           /\ queue.consumerTag # in[1].consumer => queue'.current = queue.current
           /\ UNCHANGED <<received, held, out>>
<1>1. Receive("Deliver") /\ UNCHANGED <<received, held, out>>
  BY DEF ReceiveDeliver
<1>2. Head(in) = in[1] /\ in[1] \in InFrames /\ Announces(in[1])
  BY <1>1, ReceiveSays DEF Announces
<1> DEFINE c == Announced(in[1])
<1>3. c \in CurrentMessage
  BY <1>2, AnnouncedSays
<1>4. queue' = IF queue.consumerTag = in[1].consumer THEN [queue EXCEPT !.current = c] ELSE queue
  BY <1>2 DEF ReceiveDeliver
<1> HIDE DEF c
<1>5. CASE queue.consumerTag = in[1].consumer
  <2>1. SameButCurrent(queue, queue') /\ queue'.current = c
    BY <1>3, <1>4, <1>5, TypedSays, CurrentKept DEF SameButCurrent
  <2>2. QED
    BY <1>1, <1>5, <2>1 DEF c
<1>6. CASE queue.consumerTag # in[1].consumer
  BY <1>1, <1>4, <1>6 DEF SameButCurrent
<1>7. QED
  BY <1>5, <1>6

LEMMA ReceiveGetOkSays ==
    ASSUME Typed, ReceiveGetOk
    PROVE  /\ Receive("GetOk") /\ SameButCurrent(queue, queue')
           /\ queue'.current = Announced(in[1])
           /\ UNCHANGED <<received, held, out>>
<1>1. Receive("GetOk") /\ UNCHANGED <<received, held, out>>
  BY DEF ReceiveGetOk
<1>2. Head(in) = in[1] /\ in[1] \in InFrames /\ Announces(in[1])
  BY <1>1, ReceiveSays DEF Announces
<1> DEFINE c == Announced(in[1])
<1>3. c \in CurrentMessage
  BY <1>2, AnnouncedSays
<1>4. queue' = [queue EXCEPT !.current = c]
  BY <1>2 DEF ReceiveGetOk
<1> HIDE DEF c
<1>5. SameButCurrent(queue, queue') /\ queue'.current = c
  BY <1>3, <1>4, TypedSays, CurrentKept DEF SameButCurrent
<1>6. QED
  BY <1>1, <1>5 DEF c

LEMMA AnnouncementSays ==
    ASSUME Typed, ReceiveDeliver \/ ReceiveGetOk
    PROVE  \E type \in {"Deliver", "GetOk"} :
              /\ Receive(type) /\ SameButCurrent(queue, queue')
              /\ \/ queue'.current = Announced(in[1])
                 \/ queue'.current = queue.current
              /\ UNCHANGED <<received, held, out>>
  BY ReceiveDeliverSays, ReceiveGetOkSays

\* The record that is kept is about the same message as before.
SameMessage(c, d) == d.tag = c.tag /\ d.channel = c.channel /\ d.message = c.message

LEMMA ContentsSay ==
    ASSUME Typed, ReceiveHeader \/ ReceiveBody
    PROVE  \E type \in Carried :
              /\ Receive(type) /\ SameButCurrent(queue, queue') /\ out' = out
              /\ SameMessage(queue.current, queue'.current)
              /\ \A d \in held' : d \in held
                                  \/ (queue.current.tag # 0 /\ SameMessage(queue.current, d))
<1>1. ASSUME NEW type \in Carried, Receive(type), out' = out, NEW c \in CurrentMessage,
             queue.current.tag # 0 => SameMessage(queue.current, c),
             IF queue.current.tag # 0 THEN Becomes(c) ELSE UNCHANGED <<queue, received, held>>
      PROVE  /\ SameButCurrent(queue, queue') /\ SameMessage(queue.current, queue'.current)
             /\ \A d \in held' : d \in held
                                 \/ (queue.current.tag # 0 /\ SameMessage(queue.current, d))
  <2>1. CASE queue.current.tag = 0
    BY <1>1, <2>1 DEF SameButCurrent, SameMessage
  <2>2. CASE queue.current.tag # 0
    <3>1. SameMessage(queue.current, c) /\ Becomes(c)
      BY <1>1, <2>2
    <3>2. c.message \in Messages
      BY <2>2, <3>1 DEF Typed, SameMessage
    <3>3. /\ queue'.current = c /\ queue'.opened = queue.opened
          /\ queue'.consumerTag = queue.consumerTag /\ queue'.consuming = queue.consuming
          /\ queue'.consumeRequested = queue.consumeRequested
          /\ held' = held \/ held' = held \cup {DeliveryOf(c)}
      BY <3>1, <3>2, BecomesSays
    <3>4. SameMessage(queue.current, DeliveryOf(c))
      BY <3>1 DEF SameMessage, DeliveryOf
    <3>5. QED
      BY <2>2, <3>1, <3>3, <3>4 DEF SameButCurrent
  <2>3. QED
    BY <2>1, <2>2
<1>2. CASE ReceiveHeader
  <2> DEFINE c == [queue.current EXCEPT !.left = Head(in).size]
  <2>1. Receive("Header") /\ out' = out
    BY <1>2 DEF ReceiveHeader
  <2>2. Head(in).size \in Nat
    BY <2>1, ReceiveSays, InFramesAre
  <2>3. c \in CurrentMessage /\ SameMessage(queue.current, c)
    BY <2>2, TypedSays DEF CurrentMessage, SameMessage
  <2>4. IF queue.current.tag # 0 THEN Becomes(c) ELSE UNCHANGED <<queue, received, held>>
    BY <1>2 DEF ReceiveHeader
  <2> HIDE DEF c
  <2>5. QED
    BY <1>1, <2>1, <2>3, <2>4 DEF Carried
<1>3. CASE ReceiveBody
  <2> DEFINE c == [queue.current EXCEPT !.payload = Append(@, Head(in).message), !.left = @ - 1]
             d == IF queue.current.tag # 0 THEN c ELSE queue.current
  <2>1. Receive("Body") /\ out' = out
    BY <1>3 DEF ReceiveBody
  <2>2. Head(in).message \in Messages /\ in[1].type = "Body" /\ in # <<>>
    BY <2>1, ReceiveSays, InFramesAre
  <2>3. queue.current.tag # 0 => queue.current.left - 1 \in Nat
    <3>1. queue.current.left \in Nat
      BY TypedSays
    <3>2. queue.current.tag # 0 => queue.current.left # 0
      <4>1. 1 \in DOMAIN in
        BY <2>1, ReceiveSays
      <4>2. QED
        BY <2>2, <4>1 DEF Typed, Rest, Follow, Carried
    <3>3. QED
      BY <3>1, <3>2
  <2>4. Append(queue.current.payload, Head(in).message) \in Seq(Messages)
    <3>1. queue.current.payload \in Seq(Messages)
      BY TypedSays DEF CurrentMessage
    <3>2. QED
      BY <2>2, <3>1
  <2>5. queue.current.tag # 0 => c \in CurrentMessage /\ SameMessage(queue.current, c)
    BY <2>3, <2>4, TypedSays DEF CurrentMessage, SameMessage
  <2>6. IF queue.current.tag # 0 THEN Becomes(c) ELSE UNCHANGED <<queue, received, held>>
    BY <1>3 DEF ReceiveBody
  <2> HIDE DEF c
  <2>7. /\ d \in CurrentMessage /\ (queue.current.tag # 0 => SameMessage(queue.current, d))
        /\ IF queue.current.tag # 0 THEN Becomes(d) ELSE UNCHANGED <<queue, received, held>>
    BY <2>5, <2>6, TypedSays
  <2> HIDE DEF d
  <2>8. QED
    BY <1>1, <2>1, <2>7 DEF Carried
<1>4. QED
  BY <1>2, <1>3

LEMMA ReceiveCloseOrderly == ASSUME Ordered, ReceiveClose PROVE Orderly'
<1>1. /\ Receive("Close") /\ queue'.opened = FALSE
      /\ \E f \in OutFrames : f.type = "CloseOk" /\ out' = Append(out, f)
  BY OrderedSays, ReceiveCloseSays
<1>2. PICK f \in OutFrames : f.type = "CloseOk" /\ out' = Append(out, f)
  BY <1>1
<1>3. /\ link = "up" /\ in # <<>> /\ in' = Tail(in) /\ in[1].type = "Close"
      /\ UNCHANGED <<link, broker>>
  BY <1>1, OrderedSays, ReceiveSays
<1>4. Handshake(broker.channel, FALSE, Append(out, f), Tail(in))
  BY <1>2, <1>3, OrderedSays, HandshakeReadClose
<1>5. QED
  BY <1>1, <1>2, <1>3, <1>4, OrderedSays DEF Orderly, Linked

LEMMA ReadingOrderly == ASSUME Ordered, Reading PROVE Orderly'
<1>1. CASE ReceiveOpenOk
  BY <1>1, OrderedSays, ReceiveOpenOkSays, ReadOrderly
<1>2. CASE ReceiveClose
  BY <1>2, ReceiveCloseOrderly
<1>3. CASE ReceiveCloseOk
  BY <1>3, OrderedSays, ReceiveCloseOkSays, ReadOrderly
<1>4. CASE ReceiveConsumeOk
  BY <1>4, OrderedSays, ReceiveConsumeOkSays, ReadOrderly
<1>5. CASE ReceiveCancelOk
  BY <1>5, OrderedSays, ReceiveCancelOkSays, ReadOrderly
<1>6. CASE ReceiveDeliver \/ ReceiveGetOk
  <2>1. PICK type \in {"Deliver", "GetOk"} :
           Receive(type) /\ SameButCurrent(queue, queue') /\ out' = out
    BY <1>6, OrderedSays, AnnouncementSays
  <2>2. QED
    BY <2>1, OrderedSays, ReadOrderly DEF SameButCurrent
<1>7. CASE ReceiveGetEmpty
  BY <1>7, OrderedSays, ReadOrderly DEF ReceiveGetEmpty
<1>8. CASE ReceiveHeader \/ ReceiveBody
  <2>1. PICK type \in Carried : Receive(type) /\ SameButCurrent(queue, queue') /\ out' = out
    BY <1>8, OrderedSays, ContentsSay
  <2>2. QED
    BY <2>1, OrderedSays, ReadOrderly DEF SameButCurrent, Carried
<1>9. QED
  BY <1>1, <1>2, <1>3, <1>4, <1>5, <1>6, <1>7, <1>8 DEF Reading

\* What no action of the broker changes.
LEMMA BrokerKeeps ==
    ASSUME BrokerUnchanged
    PROVE  UNCHANGED <<link, queue, received, held, userAcked, happened>>
  BY DEF BrokerUnchanged

LEMMA BrokerOpensSays ==
    ASSUME Typed, BrokerOpens
    PROVE  /\ BrokerTakes("Open") /\ broker.channel = "closed"
           /\ broker'.channel = "open" /\ broker'.number = broker.number + 1
           /\ broker'.consumers = broker.consumers /\ broker'.count = broker.count
           /\ broker'.unacked = broker.unacked
           /\ acked' = acked
           /\ \E f \in InFrames : f.type = "OpenOk" /\ in' = Append(in, f)
<1> DEFINE f == [type |-> "OpenOk"]
<1>1. f \in InFrames /\ f.type = "OpenOk" /\ in' = Append(in, f)
  BY InFramesMade DEF BrokerOpens
<1> HIDE DEF f
<1>2. /\ broker'.channel = "open" /\ broker'.number = broker.number + 1
      /\ broker'.consumers = broker.consumers /\ broker'.count = broker.count
      /\ broker'.unacked = broker.unacked
  BY TypedSays, BrokerIs DEF BrokerOpens
<1>3. QED
  BY <1>1, <1>2 DEF BrokerOpens

LEMMA BrokerConsumesSays ==
    ASSUME Typed, BrokerConsumes
    PROVE  \E tag \in ConsumerTags \ broker.consumers :
              /\ BrokerTakes("Consume") /\ broker.channel = "open"
              /\ out[1].consumer \in {tag, NoTag}
              /\ broker'.channel = "open" /\ broker'.number = broker.number
              /\ broker'.consumers = broker.consumers \cup {tag} /\ broker'.count = broker.count
              /\ broker'.unacked = broker.unacked
              /\ acked' = acked
              /\ \E f \in InFrames : f.type = "ConsumeOk" /\ f.consumer = tag /\ in' = Append(in, f)
<1>1. PICK tag \in ConsumerTags \ broker.consumers :
         /\ Head(out).consumer \in {tag, NoTag}
         /\ broker' = [broker EXCEPT !.consumers = @ \cup {tag}]
         /\ in' = Append(in, [type |-> "ConsumeOk", consumer |-> tag])
  BY DEF BrokerConsumes
<1> DEFINE f == [type |-> "ConsumeOk", consumer |-> tag]
<1>2. f \in InFrames /\ f.type = "ConsumeOk" /\ f.consumer = tag /\ in' = Append(in, f)
  BY <1>1, InFramesMade
<1> HIDE DEF f
<1>3. BrokerTakes("Consume") /\ broker.channel = "open" /\ acked' = acked
  BY DEF BrokerConsumes
<1>4. Head(out) = out[1]
  BY <1>3, TakesSays
<1>5. /\ broker'.channel = "open" /\ broker'.number = broker.number
      /\ broker'.consumers = broker.consumers \cup {tag} /\ broker'.count = broker.count
      /\ broker'.unacked = broker.unacked
  BY <1>1, <1>3, TypedSays, BrokerIs
<1>6. QED
  BY <1>1, <1>2, <1>3, <1>4, <1>5

LEMMA BrokerCancelsSays ==
    ASSUME Typed, BrokerCancels
    PROVE  /\ BrokerTakes("Cancel") /\ broker.channel = "open"
           /\ out[1].consumer \in ConsumerTags
           /\ broker'.channel = "open" /\ broker'.number = broker.number
           /\ broker'.consumers = broker.consumers \ {out[1].consumer}
           /\ broker'.count = broker.count /\ broker'.unacked = broker.unacked
           /\ acked' = acked
           /\ \/ out[1].noWait /\ in' = in
              \/ \E f \in InFrames : /\ f.type = "CancelOk" /\ f.consumer = out[1].consumer
                                     /\ in' = Append(in, f)
<1>1. BrokerTakes("Cancel") /\ broker.channel = "open" /\ acked' = acked
  BY DEF BrokerCancels
<1>2. Head(out) = out[1] /\ out[1].consumer \in ConsumerTags
  BY <1>1, TakesSays, OutFramesAre
<1> DEFINE f == [type |-> "CancelOk", consumer |-> out[1].consumer]
<1>3. f \in InFrames /\ f.type = "CancelOk" /\ f.consumer = out[1].consumer
  BY <1>2, InFramesMade
<1>4. (out[1].noWait /\ in' = in) \/ in' = Append(in, f)
  BY <1>2 DEF BrokerCancels
<1> HIDE DEF f
<1>5. /\ broker'.channel = "open" /\ broker'.number = broker.number
      /\ broker'.consumers = broker.consumers \ {out[1].consumer}
      /\ broker'.count = broker.count /\ broker'.unacked = broker.unacked
  BY <1>1, <1>2, TypedSays, BrokerIs DEF BrokerCancels
<1>6. QED
  BY <1>1, <1>2, <1>3, <1>4, <1>5

\* A message is sent: frame f announces it, at place n.
SentAfter(s, t, f) ==
    LET n == Len(s) + 1
    IN  /\ n \in DOMAIN t /\ t[n] = f /\ n \in Int
        /\ \A i \in DOMAIN s : i \in DOMAIN t /\ t[i] = s[i] /\ i < n /\ i \in Int
        /\ \A i \in DOMAIN t :
              /\ i \in Int
              /\ \/ i \in DOMAIN s /\ t[i] = s[i] /\ i < n
                 \/ i = n /\ t[i] = f
                 \/ i > n /\ t[i].type \in Carried

LEMMA RunAdds ==
    ASSUME NEW s \in Seq(InFrames), NEW f \in InFrames, Announces(f), NEW size \in Sizes,
           NEW message \in Messages
    PROVE  SentAfter(s, s \o Run(f, size, message), f)
<1> DEFINE r == Run(f, size, message)
           t == s \o r
           L == Len(s)
           n == L + 1
<1>1. /\ r \in Seq(InFrames) /\ Len(r) = size + 2 /\ DOMAIN r = 1..(size + 2)
      /\ size \in Nat /\ r # <<>>
      /\ r[1] = f /\ r[2] = [type |-> "Header", size |-> size]
      /\ \A k \in DOMAIN r : k > 2 => r[k] = [type |-> "Body", message |-> message]
      /\ Whole(r) /\ r[1].type \notin Carried
  BY RunIs
<1> HIDE DEF r
<1>2. r[2].type \in Carried /\ \A k \in DOMAIN r : k > 2 => r[k].type \in Carried
  BY <1>1 DEF Carried
<1>3. /\ Len(t) = L + Len(r) /\ L \in Nat /\ Len(r) \in Nat
      /\ DOMAIN t = 1..(L + Len(r))
      /\ \A i \in 1..(L + Len(r)) : t[i] = IF i <= L THEN s[i] ELSE r[i - L]
  <2>1. r \in Seq(InFrames)
    BY <1>1
  <2>2. QED
    BY <2>1, ConcatEntries
<1>4. DOMAIN s = 1..L
  OBVIOUS
<1> HIDE DEF t, L
<1>5. n \in DOMAIN t /\ n \in Int /\ t[n] = f
  <2>1. n \in 1..(L + Len(r)) /\ ~(n <= L) /\ n - L = 1
    BY <1>1, <1>3
  <2>2. QED
    BY <1>1, <1>3, <2>1
<1>6. \A i \in DOMAIN s : i \in DOMAIN t /\ t[i] = s[i] /\ i < n /\ i \in Int
  BY <1>3, <1>4
<1>7. ASSUME NEW i \in DOMAIN t
      PROVE  /\ i \in Int
             /\ \/ i \in DOMAIN s /\ t[i] = s[i] /\ i < n
                \/ i = n /\ t[i] = f
                \/ i > n /\ t[i].type \in Carried
  <2>1. i \in Int /\ L \in Int /\ i >= 1
    BY <1>3
  <2>2. CASE i <= L
    BY <1>3, <1>4, <2>1, <2>2
  <2>3. CASE i = n
    BY <1>5, <2>1, <2>3
  <2>4. CASE i > n
    <3>1. i - L \in DOMAIN r /\ (i - L = 2 \/ i - L > 2) /\ t[i] = r[i - L]
      <4>1. ~(i <= L) /\ i - L >= 2
        BY <2>1, <2>4
      <4>2. i - L \in DOMAIN r
        BY <1>1, <1>3, <2>1, <4>1
      <4>3. t[i] = r[i - L]
        BY <1>3, <4>1
      <4>4. QED
        BY <2>1, <4>1, <4>2, <4>3
    <3>2. QED
      BY <1>2, <2>1, <2>4, <3>1
  <2>5. QED
    BY <2>1, <2>2, <2>3, <2>4
<1>8. QED
  BY <1>5, <1>6, <1>7 DEF SentAfter, t, L, r

\* The frames that are sent are those of the message f announces.
Carries(f) == \E size \in Sizes : in' = in \o Run(f, size, f.message)

\* What the broker sends and notes of a message.
Noted(f) ==
    /\ SentAfter(in, in', f) /\ Carries(f)
    /\ in \in Seq(InFrames) /\ in' \in Seq(InFrames)
    /\ f \in InFrames /\ Announces(f)
    /\ f.tag = broker.count + 1 /\ f.channel = broker.number
    /\ broker.channel = "open" /\ broker'.channel = "open" /\ broker'.number = broker.number
    /\ broker'.consumers = broker.consumers /\ broker'.count = broker.count + 1
    /\ broker'.unacked = broker.unacked \cup {[tag |-> f.tag, message |-> f.message]}
    /\ acked' = acked

LEMMA SendsNotes ==
    ASSUME Typed, broker.channel = "open", NEW f \in InFrames, Announces(f),
           NEW message \in Messages, f.message = message, f.tag = broker.count + 1,
           f.channel = broker.number, Sends(f, message)
    PROVE  Noted(f)
<1> DEFINE u == [tag |-> broker.count + 1, message |-> message]
<1>1. PICK size \in Sizes :
         /\ in' = in \o Run(f, size, message)
         /\ in' \in Seq(InFrames)
         /\ broker' = [broker EXCEPT !.count = @ + 1, !.unacked = @ \cup {u}]
         /\ acked' = acked
  BY SendsSays
<1>2. in \in Seq(InFrames)
  BY TypedSays
<1>3. SentAfter(in, in', f)
  <2>1. SentAfter(in, in \o Run(f, size, message), f)
    BY <1>2, RunAdds
  <2>2. QED
    BY <1>1, <2>1
<1>4. Carries(f)
  BY <1>1 DEF Carries
<1>5. u = [tag |-> f.tag, message |-> f.message]
  OBVIOUS
<1> HIDE DEF u
<1>6. /\ broker'.channel = "open" /\ broker'.number = broker.number
      /\ broker'.consumers = broker.consumers /\ broker'.count = broker.count + 1
      /\ broker'.unacked = broker.unacked \cup {u}
  BY <1>1, TypedSays, BrokerIs
<1>7. QED
  BY <1>1, <1>2, <1>3, <1>4, <1>5, <1>6 DEF Noted

LEMMA BrokerDeliversSays ==
    ASSUME Typed, BrokerDelivers
    PROVE  /\ BrokerUnchanged /\ out' = out
           /\ \E f : /\ Noted(f) /\ f.type = "Deliver" /\ f.consumer \in broker.consumers
<1>1. PICK message \in ready, tag \in broker.consumers :
         Sends([type |-> "Deliver", consumer |-> tag, tag |-> broker.count + 1,
                channel |-> broker.number, message |-> message], message)
  BY DEF BrokerDelivers
<1> DEFINE f == [type |-> "Deliver", consumer |-> tag, tag |-> broker.count + 1,
                 channel |-> broker.number, message |-> message]
<1>2. /\ message \in Messages /\ f \in InFrames /\ Announces(f) /\ f.type = "Deliver"
      /\ f.consumer = tag /\ f.message = message /\ f.tag = broker.count + 1
      /\ f.channel = broker.number
  <2>1. tag \in ConsumerTags /\ message \in Messages /\ broker.number \in Nat
    BY TypedSays
  <2>2. f \in InFrames
    BY <2>1, CountMore, InFramesMade
  <2>3. QED
    BY <2>1, <2>2 DEF Announces
<1>3. Sends(f, message)
  BY <1>1
<1> HIDE DEF f
<1>4. BrokerUnchanged /\ out' = out /\ broker.channel = "open"
  BY DEF BrokerDelivers
<1>5. Noted(f)
  BY <1>2, <1>3, <1>4, SendsNotes
<1>6. QED
  BY <1>1, <1>2, <1>4, <1>5

LEMMA BrokerGetsSays ==
    ASSUME Typed, BrokerGets
    PROVE  /\ BrokerTakes("Get") /\ broker.channel = "open"
           /\ \/ \E f : Noted(f) /\ f.type = "GetOk"
              \/ /\ broker' = broker /\ acked' = acked
                 /\ \E f \in InFrames : f.type = "GetEmpty" /\ in' = Append(in, f)
<1>1. BrokerTakes("Get") /\ broker.channel = "open"
  BY DEF BrokerGets
<1>2. ASSUME NEW message \in ready,
             Sends([type |-> "GetOk", tag |-> broker.count + 1,
                    channel |-> broker.number, message |-> message], message)
      PROVE  \E f : Noted(f) /\ f.type = "GetOk"
  <2> DEFINE f == [type |-> "GetOk", tag |-> broker.count + 1,
                   channel |-> broker.number, message |-> message]
  <2>1. /\ message \in Messages /\ f \in InFrames /\ Announces(f) /\ f.type = "GetOk"
        /\ f.message = message /\ f.tag = broker.count + 1 /\ f.channel = broker.number
    <3>1. message \in Messages /\ broker.number \in Nat
      BY TypedSays
    <3>2. f \in InFrames
      BY <3>1, CountMore, InFramesMade
    <3>3. QED
      BY <3>1, <3>2 DEF Announces
  <2>2. Sends(f, message)
    BY <1>2
  <2> HIDE DEF f
  <2>3. QED
    BY <1>1, <2>1, <2>2, SendsNotes
<1>3. ASSUME in' = Append(in, [type |-> "GetEmpty"]), UNCHANGED Contents
      PROVE  /\ broker' = broker /\ acked' = acked
             /\ \E f \in InFrames : f.type = "GetEmpty" /\ in' = Append(in, f)
  <2> DEFINE f == [type |-> "GetEmpty"]
  <2>1. f \in InFrames /\ f.type = "GetEmpty" /\ in' = Append(in, f)
    BY <1>3, InFramesMade
  <2> HIDE DEF f
  <2>2. QED
    BY <1>3, <2>1 DEF Contents
<1>4. QED
  BY <1>1, <1>2, <1>3 DEF BrokerGets

\* The broker closes the channel, on an ack that it does not know or on its own.
Shuts ==
    /\ broker.channel = "open"
    /\ broker'.channel = "closing" /\ broker'.consumers = {} /\ broker'.unacked = {}
    /\ broker'.count = 0 /\ broker'.number = broker.number /\ acked' = acked
    /\ \E f \in InFrames : f.type = "Close" /\ in' = Append(in, f)

LEMMA ClosesShut ==
    ASSUME Typed, broker.channel = "open", BrokerCloses("closing"),
           in' = Append(in, [type |-> "Close"])
    PROVE  Shuts
<1> DEFINE f == [type |-> "Close"]
<1>1. f \in InFrames /\ f.type = "Close" /\ in' = Append(in, f)
  BY InFramesMade
<1> HIDE DEF f
<1>2. QED
  BY <1>1, ShutSays DEF Shuts

LEMMA BrokerSettlesSays ==
    ASSUME Typed, BrokerSettles
    PROVE  \E type \in {"Ack", "Reject"} :
              /\ BrokerTakes(type)
              /\ \/ Shuts
                 \/ /\ in' = in /\ broker.channel = "open" /\ broker'.channel = "open"
                    /\ broker'.number = broker.number /\ broker'.consumers = broker.consumers
                    /\ broker'.count = broker.count /\ broker'.unacked \subseteq broker.unacked
                    /\ \/ acked' = acked
                       \/ /\ type = "Ack"
                          /\ \A m \in acked' : \/ m \in acked
                                               \/ \E u \in broker.unacked :
                                                     u.tag = out[1].tag /\ u.message = m
<1>1. PICK type \in {"Ack", "Reject"} : BrokerTakes(type)
  BY DEF BrokerSettles
<1>2. Head(out) = out[1] /\ out[1].type = type
  BY <1>1, TakesSays
<1> DEFINE settled == {u \in broker.unacked : u.tag = Head(out).tag}
           messages == {u.message : u \in settled}
<1>3. /\ broker.channel = "open"
      /\ \/ BrokerCloses("closing") /\ in' = Append(in, [type |-> "Close"])
         \/ /\ in' = in
            /\ broker' = [broker EXCEPT !.unacked = @ \ settled]
            /\ acked' = acked \/ (Head(out).type = "Ack" /\ acked' = acked \cup messages)
  BY SettlesSays
<1>4. CASE BrokerCloses("closing") /\ in' = Append(in, [type |-> "Close"])
  BY <1>1, <1>3, <1>4, ClosesShut
<1>5. CASE /\ in' = in
           /\ broker' = [broker EXCEPT !.unacked = @ \ settled]
           /\ acked' = acked \/ (Head(out).type = "Ack" /\ acked' = acked \cup messages)
  <2>1. \A m \in messages : \E u \in broker.unacked : u.tag = out[1].tag /\ u.message = m
    BY <1>2
  <2> HIDE DEF settled, messages
  <2>2. /\ broker'.channel = "open"
        /\ broker'.number = broker.number /\ broker'.consumers = broker.consumers
        /\ broker'.count = broker.count /\ broker'.unacked \subseteq broker.unacked
    BY <1>3, <1>5, TypedSays, BrokerIs
  <2>3. \/ acked' = acked
        \/ /\ type = "Ack"
           /\ \A m \in acked' : \/ m \in acked
                                \/ \E u \in broker.unacked : u.tag = out[1].tag /\ u.message = m
    BY <1>2, <1>5, <2>1
  <2>4. QED
    BY <1>1, <1>3, <1>5, <2>2, <2>3
<1>6. QED
  BY <1>3, <1>4, <1>5

LEMMA BrokerAnswersCloseSays ==
    ASSUME Ordered, BrokerAnswersClose
    PROVE  /\ BrokerTakes("Close") /\ broker.channel \in {"open", "closing"}
           /\ broker.channel = "open" => broker'.channel = "closed"
           /\ broker.channel = "closing" => broker'.channel = "closing"
           /\ broker'.consumers = {} /\ broker'.unacked = {} /\ broker'.count = 0
           /\ broker'.number = broker.number /\ acked' = acked
           /\ \E f \in InFrames : f.type = "CloseOk" /\ in' = Append(in, f)
<1> DEFINE f == [type |-> "CloseOk"]
<1>1. BrokerTakes("Close") /\ in' = Append(in, f)
  BY DEF BrokerAnswersClose
<1>2. f \in InFrames /\ f.type = "CloseOk"
  BY InFramesMade
<1> HIDE DEF f
<1>3. \/ broker.channel = "open" /\ BrokerCloses("closed")
      \/ broker.channel = "closing" /\ broker' = broker /\ acked' = acked
  BY DEF BrokerAnswersClose, Contents
<1>4. CASE broker.channel = "open" /\ BrokerCloses("closed")
  BY <1>1, <1>2, <1>4, OrderedSays, ShutSays
<1>5. CASE broker.channel = "closing" /\ broker' = broker /\ acked' = acked
  BY <1>1, <1>2, <1>5, OrderedSays
<1>6. QED
  BY <1>3, <1>4, <1>5

LEMMA BrokerWaitsSays ==
    ASSUME Ordered, BrokerWaitsForCloseOk
    PROVE  \E type \in {"Open", "Consume", "Cancel", "Get", "Ack", "Reject", "CloseOk"} :
              /\ BrokerTakes(type) /\ broker.channel = "closing"
              /\ broker'.channel = IF type = "CloseOk" THEN "closed" ELSE "closing"
              /\ broker'.consumers = {} /\ broker'.unacked = {} /\ broker'.count = 0
              /\ broker'.number = broker.number /\ acked' = acked /\ in' = in
<1>1. PICK type \in {"Open", "Consume", "Cancel", "Get", "Ack", "Reject", "CloseOk"} :
         /\ BrokerTakes(type)
         /\ broker' = IF type = "CloseOk" THEN [broker EXCEPT !.channel = "closed"]
                      ELSE broker
  BY DEF BrokerWaitsForCloseOk
<1>2. broker.channel = "closing" /\ in' = in /\ acked' = acked
  BY DEF BrokerWaitsForCloseOk
<1>3. broker.consumers = {} /\ broker.unacked = {} /\ broker.count = 0 /\ broker \in Broker
  BY <1>2, OrderedSays, TypedSays
<1>4. /\ broker'.channel = IF type = "CloseOk" THEN "closed" ELSE "closing"
      /\ broker'.consumers = {} /\ broker'.unacked = {} /\ broker'.count = 0
      /\ broker'.number = broker.number
  <2>1. CASE type = "CloseOk"
    BY <1>1, <1>2, <1>3, <2>1, BrokerIs
  <2>2. CASE type # "CloseOk"
    BY <1>1, <1>2, <1>3, <2>2
  <2>3. QED
    BY <2>1, <2>2
<1>5. QED
  BY <1>1, <1>2, <1>4

LEMMA BrokerClosesChannelSays ==
    ASSUME Typed, BrokerClosesChannel
    PROVE  /\ Shuts /\ UNCHANGED <<link, queue, received, held, out, userAcked, happened>>
<1>1. /\ broker.channel = "open" /\ BrokerCloses("closing")
      /\ in' = Append(in, [type |-> "Close"])
  BY DEF BrokerClosesChannel
<1>2. QED
  BY <1>1, ClosesShut DEF BrokerClosesChannel

\* The protocol.
LEMMA AppendNeutral ==
    ASSUME NEW s \in Seq(InFrames), NEW f \in InFrames,
           f.type \notin {"OpenOk", "Close", "CloseOk"}
    PROVE  SameEnds(s, Append(s, f))
<1> DEFINE t == Append(s, f)
           n == Len(s) + 1
<1>1. /\ \A i \in DOMAIN t : i \in Int /\ ((i \in DOMAIN s /\ t[i] = s[i] /\ i < n) \/ (i = n /\ t[i] = f))
      /\ \A i \in DOMAIN s : i \in DOMAIN t /\ t[i] = s[i] /\ i < n /\ i \in Int
  BY GrowthIs
<1> HIDE DEF t, n
<1>2. SameEnds(s, t)
  BY <1>1 DEF SameEnds
<1>3. QED
  BY <1>2 DEF t

LEMMA NotedNeutral ==
    ASSUME NEW f, Noted(f) PROVE SameEnds(in, in')
<1>1. f.type \in {"Deliver", "GetOk"}
  BY DEF Noted, Announces
<1>2. QED
  BY <1>1 DEF Noted, SentAfter, SameEnds, Carried

LEMMA TakenOrNot ==
    ASSUME Ordered, out' = out \/ (out # <<>> /\ out' = Tail(out))
    PROVE  Handshake(broker.channel, queue.opened, out', in)
<1>1. Handshake(broker.channel, queue.opened, out, in)
  BY OrderedSays
<1>2. CASE out' = out
  BY <1>1, <1>2
<1>3. CASE out # <<>> /\ out' = Tail(out)
  <2>1. Handshake(broker.channel, queue.opened, Tail(out), in)
    BY <1>1, <1>3, OrderedSays, HandshakeTaken
  <2>2. QED
    BY <1>3, <2>1
<1>4. QED
  BY <1>2, <1>3

\* The broker sends nothing that opens or closes the channel.
LEMMA NeutralOrderly ==
    ASSUME Ordered, BrokerUnchanged, link = "up",
           out' = out \/ (out # <<>> /\ out' = Tail(out)),
           SameEnds(in, in') \/ in' = in,
           broker.channel # "closed", broker'.channel = broker.channel,
           broker.channel # "open" =>
              broker'.consumers = {} /\ broker'.unacked = {} /\ broker'.count = 0
    PROVE  Orderly'
<1>1. Handshake(broker.channel, queue.opened, out', in)
  BY TakenOrNot
<1>2. Handshake(broker.channel, queue.opened, out', in')
  BY <1>1, HandshakeNeutral
<1>3. link' = link /\ queue' = queue
  BY BrokerKeeps
<1>4. Linked(link, queue, out, in, broker)'
  BY <1>3 DEF Linked
<1>5. QED
  BY <1>2, <1>3, <1>4 DEF Orderly

LEMMA ShutsOrderly ==
    ASSUME Ordered, Shuts, link = "up", UNCHANGED <<link, queue>>,
           out' = out \/ (out # <<>> /\ out' = Tail(out)), out' \in Seq(OutFrames)
    PROVE  Orderly'
<1>1. PICK f \in InFrames : f.type = "Close" /\ in' = Append(in, f)
  BY DEF Shuts
<1>2. Handshake("open", queue.opened, out', in) /\ in \in Seq(InFrames)
  BY OrderedSays, TakenOrNot DEF Shuts
<1>3. Handshake("closing", queue.opened, out', Append(in, f))
  BY <1>1, <1>2, HandshakeClose
<1>4. Linked(link, queue, out, in, broker)'
  BY DEF Linked, Shuts
<1>5. QED
  BY <1>1, <1>3, <1>4 DEF Orderly, Shuts

LEMMA BrokerOpensOrderly == ASSUME Ordered, BrokerOpens PROVE Orderly'
<1>1. /\ BrokerTakes("Open") /\ broker.channel = "closed"
      /\ broker'.channel = "open"
      /\ \E f \in InFrames : f.type = "OpenOk" /\ in' = Append(in, f)
  BY OrderedSays, BrokerOpensSays
<1>2. PICK f \in InFrames : f.type = "OpenOk" /\ in' = Append(in, f)
  BY <1>1
<1>3. /\ link = "up" /\ out # <<>> /\ out' = Tail(out) /\ out[1].type = "Open"
      /\ link' = link /\ queue' = queue
  BY <1>1, OrderedSays, TakesSays, BrokerKeeps
<1>4. Handshake("open", queue.opened, Tail(out), Append(in, f))
  BY <1>1, <1>2, <1>3, OrderedSays, HandshakeOpen
<1>5. QED
  BY <1>1, <1>2, <1>3, <1>4 DEF Orderly, Linked

LEMMA BrokerAnswersCloseOrderly == ASSUME Ordered, BrokerAnswersClose PROVE Orderly'
<1>1. /\ BrokerTakes("Close") /\ broker.channel \in {"open", "closing"}
      /\ broker.channel = "open" => broker'.channel = "closed"
      /\ broker.channel = "closing" => broker'.channel = "closing"
      /\ broker'.consumers = {} /\ broker'.unacked = {} /\ broker'.count = 0
      /\ \E f \in InFrames : f.type = "CloseOk" /\ in' = Append(in, f)
  BY BrokerAnswersCloseSays
<1>2. PICK f \in InFrames : f.type = "CloseOk" /\ in' = Append(in, f)
  BY <1>1
<1>3. /\ link = "up" /\ out # <<>> /\ out' = Tail(out) /\ out[1].type = "Close"
      /\ link' = link /\ queue' = queue
  BY <1>1, OrderedSays, TakesSays, BrokerKeeps
<1> DEFINE ch == broker.channel
           after == broker'.channel
<1>4. /\ ch \in {"open", "closing"} /\ after \in {"closed", "closing"}
      /\ ch = "closing" => after = "closing"
      /\ ch = "open" => after = "closed"
      /\ Handshake(ch, queue.opened, out, in)
  BY <1>1, OrderedSays
<1> HIDE DEF ch, after
<1>5. Handshake(after, queue.opened, Tail(out), Append(in, f))
  BY <1>2, <1>3, <1>4, OrderedSays, HandshakeAnswer
<1>6. Linked(link, queue, out, in, broker)'
  BY <1>1, <1>3 DEF Linked
<1>7. QED
  BY <1>2, <1>3, <1>5, <1>6 DEF Orderly, after

LEMMA BrokerWaitsOrderly == ASSUME Ordered, BrokerWaitsForCloseOk PROVE Orderly'
<1>1. PICK type \in {"Open", "Consume", "Cancel", "Get", "Ack", "Reject", "CloseOk"} :
         /\ BrokerTakes(type) /\ broker.channel = "closing"
         /\ broker'.channel = IF type = "CloseOk" THEN "closed" ELSE "closing"
         /\ broker'.consumers = {} /\ broker'.unacked = {} /\ broker'.count = 0
         /\ in' = in
  BY BrokerWaitsSays
<1>2. /\ link = "up" /\ out # <<>> /\ out' = Tail(out) /\ out[1].type = type
      /\ link' = link /\ queue' = queue
  BY <1>1, OrderedSays, TakesSays, BrokerKeeps
<1>3. Handshake("closing", queue.opened, out, in)
  BY <1>1, OrderedSays
<1>4. Handshake(broker'.channel, queue.opened, Tail(out), in)
  <2>1. CASE type = "CloseOk"
    BY <1>1, <1>2, <1>3, <2>1, OrderedSays, HandshakeClosed
  <2>2. CASE type # "CloseOk"
    BY <1>1, <1>2, <1>3, <2>2, OrderedSays, HandshakeTaken
  <2>3. QED
    BY <2>1, <2>2
<1>5. Linked(link, queue, out, in, broker)'
  BY <1>1, <1>2 DEF Linked
<1>6. QED
  BY <1>1, <1>2, <1>4, <1>5 DEF Orderly

LEMMA BrokerReadsOrderly == ASSUME Ordered, BrokerReads PROVE Orderly'
<1>1. CASE BrokerOpens
  BY <1>1, BrokerOpensOrderly
<1>2. CASE BrokerConsumes
  <2>1. PICK tag \in ConsumerTags \ broker.consumers :
           /\ BrokerTakes("Consume") /\ broker.channel = "open" /\ broker'.channel = "open"
           /\ \E f \in InFrames : f.type = "ConsumeOk" /\ f.consumer = tag /\ in' = Append(in, f)
    BY <1>2, OrderedSays, BrokerConsumesSays
  <2>2. SameEnds(in, in')
    BY <2>1, OrderedSays, AppendNeutral
  <2>3. QED
    BY <2>1, <2>2, OrderedSays, TakesSays, NeutralOrderly
<1>3. CASE BrokerCancels
  <2>1. /\ BrokerTakes("Cancel") /\ broker.channel = "open" /\ broker'.channel = "open"
        /\ in' = in \/ \E f \in InFrames : f.type = "CancelOk" /\ in' = Append(in, f)
    BY <1>3, OrderedSays, BrokerCancelsSays
  <2>2. SameEnds(in, in') \/ in' = in
    BY <2>1, OrderedSays, AppendNeutral
  <2>3. QED
    BY <2>1, <2>2, OrderedSays, TakesSays, NeutralOrderly
<1>4. CASE BrokerGets
  <2>1. /\ BrokerTakes("Get") /\ broker.channel = "open"
        /\ \/ \E f : Noted(f) /\ f.type = "GetOk"
           \/ /\ broker' = broker /\ acked' = acked
              /\ \E f \in InFrames : f.type = "GetEmpty" /\ in' = Append(in, f)
    BY <1>4, OrderedSays, BrokerGetsSays
  <2>2. SameEnds(in, in') /\ broker'.channel = "open"
    <3>1. CASE \E f : Noted(f) /\ f.type = "GetOk"
      BY <3>1, NotedNeutral DEF Noted
    <3>2. CASE /\ broker' = broker /\ acked' = acked
               /\ \E f \in InFrames : f.type = "GetEmpty" /\ in' = Append(in, f)
      BY <2>1, <3>2, OrderedSays, AppendNeutral
    <3>3. QED
      BY <2>1, <3>1, <3>2
  <2>3. QED
    BY <2>1, <2>2, OrderedSays, TakesSays, NeutralOrderly
<1>5. CASE BrokerSettles
  <2>1. PICK type \in {"Ack", "Reject"} :
           /\ BrokerTakes(type)
           /\ Shuts \/ (in' = in /\ broker.channel = "open" /\ broker'.channel = "open")
    BY <1>5, OrderedSays, BrokerSettlesSays
  <2>2. /\ link = "up" /\ out # <<>> /\ out' = Tail(out) /\ BrokerUnchanged
        /\ out' \in Seq(OutFrames)
    BY <2>1, OrderedSays, TakesSays
  <2>3. CASE Shuts
    BY <2>2, <2>3, BrokerKeeps, ShutsOrderly
  <2>4. CASE in' = in /\ broker.channel = "open" /\ broker'.channel = "open"
    BY <2>2, <2>4, NeutralOrderly
  <2>5. QED
    BY <2>1, <2>3, <2>4
<1>6. CASE BrokerAnswersClose
  BY <1>6, BrokerAnswersCloseOrderly
<1>7. CASE BrokerWaitsForCloseOk
  BY <1>7, BrokerWaitsOrderly
<1>8. CASE BrokerRefuses
  BY <1>8, SocketClosedOrderly DEF BrokerRefuses, LinkLost
<1>9. QED
  BY <1>1, <1>2, <1>3, <1>4, <1>5, <1>6, <1>7, <1>8 DEF BrokerReads

LEMMA NextOrdered == Ordered /\ [Next]_vars => Ordered'
<1> SUFFICES ASSUME Ordered, [Next]_vars PROVE Ordered'
  OBVIOUS
<1>1. Typed'
  <2>1. Typed
    BY OrderedSays
  <2>2. QED
    BY <2>1, NextTyped
<1> SUFFICES Orderly'
  BY <1>1 DEF Ordered
<1>2. CASE User
  BY <1>2, ConsumeOrderly, CancelOrderly, SetConsumerTagOrderly, SettleOrderly, SimpleOrderly,
     ResetOrderly DEF User, Simple
<1>3. CASE Link
  BY <1>3, LinkUpOrderly, SocketClosedOrderly, LinkClosesOrderly DEF Link, LinkLost
<1>4. CASE Reading
  BY <1>4, ReadingOrderly
<1>5. CASE BrokerReads
  BY <1>5, BrokerReadsOrderly
<1>6. CASE BrokerDelivers
  <2>1. PICK f : Noted(f)
    BY <1>6, OrderedSays, BrokerDeliversSays
  <2>2. BrokerUnchanged /\ out' = out
    BY <1>6, OrderedSays, BrokerDeliversSays
  <2>3. broker.channel = "open" /\ broker'.channel = "open"
    BY <2>1 DEF Noted
  <2>4. link = "up"
    BY <2>3, OrderedSays
  <2>5. QED
    BY <2>1, <2>2, <2>3, <2>4, NotedNeutral, NeutralOrderly
<1>7. CASE BrokerClosesChannel
  <2>1. Shuts /\ UNCHANGED <<link, queue, out>>
    BY <1>7, OrderedSays, BrokerClosesChannelSays
  <2>2. link = "up" /\ out' \in Seq(OutFrames)
    BY <2>1, OrderedSays DEF Shuts
  <2>3. QED
    BY <2>1, <2>2, ShutsOrderly
<1>8. CASE UNCHANGED vars
  BY <1>8 DEF Ordered, Orderly, vars
<1>9. QED
  BY <1>1, <1>2, <1>3, <1>4, <1>5, <1>6, <1>7, <1>8 DEF Next

-----------------------------------------------------------------------------
(* The broker takes as acknowledged what the user has acknowledged.        *)

\* The channel and the tag of r were given to its message: on the channel that
\* is open the broker has noted no other message with this tag.
Fine(r, b) ==
    /\ r.tag \in Nat /\ r.tag > 0 /\ r.channel \in Nat /\ r.channel <= b.number
    /\ b.channel = "open" /\ r.channel = b.number =>
          /\ r.tag <= b.count
          /\ \A u \in b.unacked : u.tag = r.tag => u.message = r.message

\* So it is for each message that the user may acknowledge, now or later.
Traced(h, s, c, b) ==
    /\ \A d \in h : Fine(d, b)
    /\ \A i \in DOMAIN s : Announces(s[i]) => Fine(s[i], b)
    /\ c.tag # 0 => Fine(c, b)
    /\ b.channel = "open" => \A u \in b.unacked : u.tag <= b.count

\* An ack under way is for a message that the user has acknowledged.
Owned(o, b, ua) ==
    b.channel = "open" => \A k \in DOMAIN o : o[k].type = "Ack" =>
        /\ o[k].tag <= b.count
        /\ \A u \in b.unacked : u.tag = o[k].tag => u.message \in ua

AcksTraced ==
    /\ Traced(held, in, queue.current, broker)
    /\ "stale" \notin happened => Owned(out, broker, userAcked) /\ acked \subseteq userAcked

\* How the broker's end changes: the channel is not open any more, or it gives
\* higher tags, or it is another channel.
Later(b, e) ==
    \/ e.channel # "open" /\ e.number = b.number
    \/ /\ b.channel = "open" /\ e.channel = "open" /\ e.number = b.number
       /\ b.count <= e.count
       /\ \A u \in e.unacked : u \in b.unacked \/ u.tag > b.count
    \/ e.number = b.number + 1

LEMMA FineLater ==
    ASSUME NEW b \in Broker, NEW e \in Broker, Later(b, e), NEW r, Fine(r, b)
    PROVE  Fine(r, e)
<1>1. /\ b.number \in Nat /\ b.count \in Nat /\ e.number \in Nat /\ e.count \in Nat
      /\ \A u \in e.unacked : u.tag \in Nat
  BY BrokerIs DEF Unacked
<1>2. r.tag \in Nat /\ r.tag > 0 /\ r.channel \in Nat /\ r.channel <= b.number
  BY DEF Fine
<1>3. CASE e.channel # "open" /\ e.number = b.number
  BY <1>2, <1>3 DEF Fine
<1>4. CASE /\ b.channel = "open" /\ e.channel = "open" /\ e.number = b.number
           /\ b.count <= e.count
           /\ \A u \in e.unacked : u \in b.unacked \/ u.tag > b.count
  <2> SUFFICES ASSUME r.channel = e.number
               PROVE  /\ r.tag <= e.count
                      /\ \A u \in e.unacked : u.tag = r.tag => u.message = r.message
    BY <1>2, <1>4 DEF Fine
  <2>1. r.tag <= b.count /\ \A u \in b.unacked : u.tag = r.tag => u.message = r.message
    BY <1>4 DEF Fine
  <2>2. r.tag <= e.count
    BY <1>1, <1>2, <1>4, <2>1
  <2>3. ASSUME NEW u \in e.unacked, u.tag = r.tag PROVE u.message = r.message
    <3>1. ~(u.tag > b.count)
      BY <1>1, <1>2, <2>1, <2>3
    <3>2. QED
      BY <1>4, <2>1, <2>3, <3>1
  <2>4. QED
    BY <2>2, <2>3
<1>5. CASE e.number = b.number + 1
  <2>1. r.channel # e.number /\ r.channel <= e.number
    BY <1>1, <1>2, <1>5
  <2>2. QED
    BY <1>2, <2>1 DEF Fine
<1>6. QED
  BY <1>3, <1>4, <1>5 DEF Later

LEMMA FineSame ==
    ASSUME NEW b, NEW r, NEW d, Fine(r, b), SameMessage(r, d) PROVE Fine(d, b)
  BY DEF Fine, SameMessage

LEMMA TracedStep ==
    ASSUME NEW b \in Broker, NEW e \in Broker, Later(b, e),
           NEW h, NEW s, NEW c, NEW g, NEW t, NEW d, Traced(h, s, c, b),
           \A x \in g : x \in h \/ (c.tag # 0 /\ SameMessage(c, x)),
           \A i \in DOMAIN t : Announces(t[i]) =>
              Fine(t[i], e) \/ \E j \in DOMAIN s : t[i] = s[j],
           d.tag # 0 => \/ c.tag # 0 /\ SameMessage(c, d)
                        \/ \E j \in DOMAIN s : Announces(s[j]) /\ SameMessage(s[j], d),
           e.channel = "open" => \A u \in e.unacked : u.tag <= e.count
    PROVE  Traced(g, t, d, e)
<1>1. ASSUME NEW x \in g PROVE Fine(x, e)
  <2>1. Fine(x, b)
    BY FineSame DEF Traced
  <2>2. QED
    BY <2>1, FineLater
<1>2. ASSUME NEW i \in DOMAIN t, Announces(t[i]) PROVE Fine(t[i], e)
  <2>1. CASE \E j \in DOMAIN s : t[i] = s[j]
    <3>1. Fine(t[i], b)
      BY <1>2, <2>1 DEF Traced
    <3>2. QED
      BY <3>1, FineLater
  <2>2. QED
    BY <1>2, <2>1
<1>3. ASSUME d.tag # 0 PROVE Fine(d, e)
  <2>1. Fine(d, b)
    <3>1. CASE c.tag # 0 /\ SameMessage(c, d)
      BY <3>1, FineSame DEF Traced
    <3>2. CASE \E j \in DOMAIN s : Announces(s[j]) /\ SameMessage(s[j], d)
      <4>1. PICK j \in DOMAIN s : Announces(s[j]) /\ SameMessage(s[j], d)
        BY <3>2
      <4>2. Fine(s[j], b)
        BY <4>1 DEF Traced
      <4>3. QED
        BY <4>1, <4>2, FineSame
    <3>3. QED
      BY <1>3, <3>1, <3>2
  <2>2. QED
    BY <2>1, FineLater
<1>4. QED
  BY <1>1, <1>2, <1>3 DEF Traced

LEMMA LaterSame ==
    ASSUME NEW b \in Broker PROVE Later(b, b)
<1>1. b.count <= b.count
  <2>1. b.count \in Nat
    BY BrokerIs
  <2>2. QED
    BY <2>1
<1>2. QED
  BY <1>1 DEF Later

\* The frames that are not read yet were there, or announce nothing.
NoneAnnounced(s, t) ==
    \A i \in DOMAIN t : Announces(t[i]) => \E j \in DOMAIN s : t[i] = s[j]

LEMMA SameMessages == ASSUME NEW c PROVE SameMessage(c, c)
  BY DEF SameMessage

\* Steps that the broker's count and its notes do not change in.
LEMMA TracedKept ==
    ASSUME Ordered, Typed', Traced(held, in, queue.current, broker), Later(broker, broker'),
           broker'.channel = "open" => \A u \in broker'.unacked : u.tag <= broker'.count,
           held' \subseteq held, NoneAnnounced(in, in'), queue'.current = queue.current
    PROVE  Traced(held, in, queue.current, broker)'
<1>1. broker \in Broker /\ broker' \in Broker
  BY OrderedSays, TypedSays DEF Typed, TypeOK
<1>2. QED
  BY <1>1, SameMessages, TracedStep DEF NoneAnnounced

LEMMA TracedUnmoved ==
    ASSUME Ordered, Typed', Traced(held, in, queue.current, broker), broker' = broker,
           held' \subseteq held, NoneAnnounced(in, in'), queue'.current = queue.current
    PROVE  Traced(held, in, queue.current, broker)'
<1>1. Later(broker, broker')
  BY OrderedSays, TypedSays, LaterSame
<1>2. QED
  BY <1>1, TracedKept DEF Traced

LEMMA AnnouncedTail ==
    ASSUME NEW s \in Seq(InFrames), s # <<>> PROVE NoneAnnounced(s, Tail(s))
<1> DEFINE t == Tail(s)
<1>1. \A i \in DOMAIN t : i + 1 \in DOMAIN s /\ t[i] = s[i + 1]
  BY ShiftIs
<1> HIDE DEF t
<1>2. QED
  BY <1>1 DEF NoneAnnounced, t

LEMMA AnnouncedAppend ==
    ASSUME NEW s \in Seq(InFrames), NEW f \in InFrames, ~Announces(f)
    PROVE  NoneAnnounced(s, Append(s, f))
<1> DEFINE t == Append(s, f)
           n == Len(s) + 1
<1>1. \A i \in DOMAIN t : i \in Int /\ ((i \in DOMAIN s /\ t[i] = s[i] /\ i < n) \/ (i = n /\ t[i] = f))
  BY GrowthIs
<1> HIDE DEF t, n
<1>2. NoneAnnounced(s, t)
  BY <1>1 DEF NoneAnnounced
<1>3. QED
  BY <1>2 DEF t

\* Acks under way, when frames are added or read.
LEMMA OwnedAppend ==
    ASSUME NEW o \in Seq(OutFrames), NEW f \in OutFrames, NEW b, NEW ua, NEW uz,
           Owned(o, b, ua), ua \subseteq uz,
           f.type = "Ack" /\ b.channel = "open" =>
              /\ f.tag <= b.count
              /\ \A u \in b.unacked : u.tag = f.tag => u.message \in uz
    PROVE  Owned(Append(o, f), b, uz)
<1> DEFINE p == Append(o, f)
           n == Len(o) + 1
<1>1. \A i \in DOMAIN p : i \in Int /\ ((i \in DOMAIN o /\ p[i] = o[i] /\ i < n) \/ (i = n /\ p[i] = f))
  BY GrowthIs
<1> HIDE DEF p, n
<1>2. Owned(p, b, uz)
  BY <1>1 DEF Owned
<1>3. QED
  BY <1>2 DEF p

LEMMA OwnedTail ==
    ASSUME NEW o \in Seq(OutFrames), o # <<>>, NEW b, NEW ua, Owned(o, b, ua)
    PROVE  Owned(Tail(o), b, ua)
<1> DEFINE p == Tail(o)
<1>1. \A i \in DOMAIN p : i + 1 \in DOMAIN o /\ p[i] = o[i + 1]
  BY ShiftIs
<1> HIDE DEF p
<1>2. Owned(p, b, ua)
  BY <1>1 DEF Owned
<1>3. QED
  BY <1>2 DEF p

LEMMA OwnedLater ==
    ASSUME NEW o \in Seq(OutFrames), NEW b \in Broker, NEW e \in Broker, NEW ua, Owned(o, b, ua),
           e.channel # "open" \/ (Later(b, e) /\ e.number = b.number)
    PROVE  Owned(o, e, ua)
<1>1. /\ b.count \in Nat /\ e.count \in Nat /\ b.number \in Nat
      /\ \A u \in e.unacked : u.tag \in Nat
  BY BrokerIs DEF Unacked
<1>2. CASE e.channel # "open"
  BY <1>2 DEF Owned
<1>3. CASE e.channel = "open" /\ Later(b, e) /\ e.number = b.number
  <2>1. /\ b.channel = "open" /\ b.count <= e.count
        /\ \A u \in e.unacked : u \in b.unacked \/ u.tag > b.count
    BY <1>1, <1>3 DEF Later
  <2>2. ASSUME NEW k \in DOMAIN o, o[k].type = "Ack"
        PROVE  /\ o[k].tag <= e.count
               /\ \A u \in e.unacked : u.tag = o[k].tag => u.message \in ua
    <3>1. /\ o[k].tag <= b.count
          /\ \A u \in b.unacked : u.tag = o[k].tag => u.message \in ua
      BY <2>1, <2>2 DEF Owned
    <3>2. o[k].tag \in Nat
      <4>1. o[k] \in OutFrames
        OBVIOUS
      <4>2. QED
        BY <2>2, <4>1, OutFramesAre
    <3>3. o[k].tag <= e.count
      BY <1>1, <2>1, <3>1, <3>2
    <3>4. ASSUME NEW u \in e.unacked, u.tag = o[k].tag PROVE u.message \in ua
      <4>1. ~(u.tag > b.count)
        BY <1>1, <3>1, <3>2, <3>4
      <4>2. QED
        BY <2>1, <3>1, <3>4, <4>1
    <3>5. QED
      BY <3>3, <3>4
  <2>3. QED
    BY <2>2 DEF Owned
<1>4. QED
  BY <1>2, <1>3

\* Calls of the user other than ack and reject, and the frames that are read:
\* nothing that is sent is an ack.
LEMMA TracedQuiet ==
    ASSUME Ordered, Typed', AcksTraced, broker' = broker, held' \subseteq held,
           NoneAnnounced(in, in'), queue'.current = queue.current,
           acked' = acked, userAcked' = userAcked, happened \subseteq happened',
           out' = out \/ \E f \in OutFrames : f.type # "Ack" /\ out' = Append(out, f)
    PROVE  AcksTraced'
<1>1. Traced(held, in, queue.current, broker)'
  BY TracedUnmoved DEF AcksTraced
<1>2. Owned(out, broker, userAcked) => Owned(out', broker, userAcked)
  <2>1. CASE out' = out
    BY <2>1
  <2>2. ASSUME NEW f \in OutFrames, f.type # "Ack", out' = Append(out, f)
        PROVE  Owned(out, broker, userAcked) => Owned(out', broker, userAcked)
    BY <2>2, OrderedSays, OwnedAppend
  <2>3. QED
    BY <2>1, <2>2
<1>3. QED
  BY <1>1, <1>2 DEF AcksTraced

LEMMA SentOrNot ==
    ASSUME Typed, NEW f \in OutFrames, Send(f)
    PROVE  out' = out \/ out' = Append(out, f)
  BY SendIs

LEMMA AnnouncedSame == ASSUME NEW s PROVE NoneAnnounced(s, s)
  BY DEF NoneAnnounced

LEMMA UserTraced ==
    ASSUME Ordered, Typed', AcksTraced,
           Consume \/ Cancel \/ SetConsumerTag \/ Simple \/ Reset
    PROVE  AcksTraced'
<1>1. Typed
  BY OrderedSays
<1>2. CASE Consume
  <2> DEFINE f == [type |-> "Consume", consumer |-> queue.consumerTag]
  <2>1. /\ f \in OutFrames /\ Send(f) /\ queue'.current = queue.current
        /\ UNCHANGED <<held, in, broker, acked, userAcked, happened>>
    BY <1>1, <1>2, ConsumeSays
  <2>2. f.type # "Ack"
    OBVIOUS
  <2> HIDE DEF f
  <2>3. out' = out \/ out' = Append(out, f)
    BY <1>1, <2>1, SentOrNot
  <2>4. QED
    BY <2>1, <2>2, <2>3, AnnouncedSame, TracedQuiet
<1>3. CASE Cancel
  <2>1. PICK noWait \in BOOLEAN :
           LET f == [type |-> "Cancel", consumer |-> queue.consumerTag, noWait |-> noWait]
           IN  /\ f \in OutFrames /\ Send(f) /\ happened \subseteq happened'
               /\ UNCHANGED <<queue, held, in, broker, acked, userAcked>>
    BY <1>1, <1>3, CancelSays
  <2> DEFINE f == [type |-> "Cancel", consumer |-> queue.consumerTag, noWait |-> noWait]
  <2>2. /\ f \in OutFrames /\ Send(f) /\ happened \subseteq happened'
        /\ UNCHANGED <<queue, held, in, broker, acked, userAcked>>
        /\ f.type # "Ack"
    BY <2>1
  <2> HIDE DEF f
  <2>3. out' = out \/ out' = Append(out, f)
    BY <1>1, <2>2, SentOrNot
  <2>4. QED
    BY <2>2, <2>3, AnnouncedSame, TracedQuiet
<1>4. CASE SetConsumerTag
  BY <1>1, <1>4, SetConsumerTagSays, AnnouncedSame, TracedQuiet
<1>5. CASE Simple
  <2>1. PICK f \in OutFrames :
           /\ Send(f) /\ f.type \in {"Get", "Close", "Open"} /\ happened \subseteq happened'
           /\ UNCHANGED <<queue, held, in, broker, acked, userAcked>>
    BY <1>1, <1>5, SimpleSays
  <2>2. out' = out \/ out' = Append(out, f)
    BY <1>1, <2>1, SentOrNot
  <2>3. QED
    BY <2>1, <2>2, AnnouncedSame, TracedQuiet
<1>6. CASE Reset
  BY <1>1, <1>6, ResetSays, AnnouncedSame, TracedQuiet
<1>7. QED
  BY <1>2, <1>3, <1>4, <1>5, <1>6

LEMMA SettleTraced ==
    ASSUME Ordered, Typed', AcksTraced, NEW delivery \in held,
           Ack(delivery) \/ Reject(delivery)
    PROVE  AcksTraced'
<1>1. Typed
  BY OrderedSays
<1>2. PICK f \in OutFrames :
         /\ f.type \in {"Ack", "Reject"} /\ f.tag = delivery.tag /\ Settle(delivery, f)
         /\ f.type = "Ack" => userAcked' = userAcked \cup {delivery.message}
         /\ userAcked \subseteq userAcked'
  BY <1>1, SettledSays
<1>3. /\ Send(f) /\ held' \subseteq held
      /\ delivery.channel # broker.number => "stale" \in happened'
      /\ happened \subseteq happened'
      /\ UNCHANGED <<queue, in, broker, acked>>
  BY <1>1, <1>2, SettleSays
<1>4. Traced(held, in, queue.current, broker)'
  BY <1>3, AnnouncedSame, TracedUnmoved DEF AcksTraced
<1>5. ASSUME "stale" \notin happened' PROVE Owned(out', broker, userAcked')
  <2>1. Owned(out, broker, userAcked)
    BY <1>3, <1>5 DEF AcksTraced
  <2>2. Fine(delivery, broker)
    BY DEF AcksTraced, Traced
  <2>3. delivery.channel = broker.number
    BY <1>3, <1>5
  <2>4. f.type = "Ack" /\ broker.channel = "open" =>
           /\ f.tag <= broker.count
           /\ \A u \in broker.unacked : u.tag = f.tag => u.message \in userAcked'
    BY <1>2, <2>2, <2>3 DEF Fine
  <2>5. Owned(Append(out, f), broker, userAcked')
    BY <1>2, <2>1, <2>4, OrderedSays, OwnedAppend
  <2>6. Owned(out, broker, userAcked')
    BY <1>2, <2>1 DEF Owned
  <2>7. QED
    BY <1>1, <1>3, <2>5, <2>6, SentOrNot
<1>6. "stale" \notin happened' => acked' \subseteq userAcked'
  BY <1>2, <1>3 DEF AcksTraced
<1>7. QED
  BY <1>3, <1>4, <1>5, <1>6 DEF AcksTraced

\* The broker's channel is open no longer, or was not: nothing is asked of acks.
LEMMA TracedShut ==
    ASSUME Ordered, Typed', AcksTraced, broker'.channel # "open",
           broker'.number = broker.number, held' = held, NoneAnnounced(in, in'),
           queue'.current = queue.current, acked' = acked, userAcked' = userAcked,
           happened' = happened
    PROVE  AcksTraced'
<1>1. Later(broker, broker')
  BY DEF Later
<1>2. Traced(held, in, queue.current, broker)'
  BY <1>1, TracedKept DEF AcksTraced
<1>3. Owned(out', broker', userAcked')
  BY DEF Owned
<1>4. QED
  BY <1>2, <1>3 DEF AcksTraced

LEMMA EmptyAnnounces == ASSUME NEW s PROVE NoneAnnounced(s, <<>>)
<1>1. DOMAIN <<>> = {}
  OBVIOUS
<1>2. QED
  BY <1>1 DEF NoneAnnounced

LEMMA LinkTraced == ASSUME Ordered, Typed', AcksTraced, Link \/ BrokerRefuses PROVE AcksTraced'
<1>1. Typed
  BY OrderedSays
<1>2. CASE LinkUp
  <2>1. /\ link = "down" /\ broker' = broker /\ acked' = acked
        /\ UNCHANGED <<queue, held, in, userAcked, happened>>
    BY <1>2 DEF LinkUp, Contents
  <2>2. broker'.channel # "open"
    BY <2>1, OrderedSays
  <2>3. QED
    BY <2>1, <2>2, AnnouncedSame, TracedShut
<1>3. CASE SocketClosed
  BY <1>1, <1>3, SocketClosedSays, EmptyAnnounces, TracedShut
<1>4. CASE LinkCloses
  BY <1>1, <1>4, LinkClosesSays, EmptyAnnounces, TracedShut
<1>5. QED
  BY <1>2, <1>3, <1>4 DEF Link, LinkLost, BrokerRefuses

\* A frame is read that is no part of a message.
LEMMA PlainTraced ==
    ASSUME Ordered, Typed', AcksTraced, NEW type, Receive(type),
           queue'.current = queue.current, held' = held,
           out' = out \/ \E f \in OutFrames : f.type # "Ack" /\ out' = Append(out, f)
    PROVE  AcksTraced'
<1>1. /\ in # <<>> /\ in' = Tail(in)
      /\ UNCHANGED <<broker, acked, userAcked, happened>>
  BY OrderedSays, ReceiveSays
<1>2. NoneAnnounced(in, in')
  BY <1>1, OrderedSays, AnnouncedTail
<1>3. QED
  BY <1>1, <1>2, TracedQuiet

\* A frame of a message is read.
LEMMA MessageTraced ==
    ASSUME Ordered, Typed', AcksTraced, NEW type, Receive(type), out' = out,
           \A x \in held' : x \in held
                            \/ (queue.current.tag # 0 /\ SameMessage(queue.current, x)),
           queue'.current.tag # 0 =>
              \/ queue.current.tag # 0 /\ SameMessage(queue.current, queue'.current)
              \/ Announces(in[1]) /\ SameMessage(in[1], queue'.current)
    PROVE  AcksTraced'
<1>1. /\ in # <<>> /\ in' = Tail(in) /\ 1 \in DOMAIN in
      /\ UNCHANGED <<broker, acked, userAcked, happened>>
  BY OrderedSays, ReceiveSays
<1>2. NoneAnnounced(in, in')
  BY <1>1, OrderedSays, AnnouncedTail
<1>3. broker \in Broker /\ Later(broker, broker)
  BY OrderedSays, TypedSays, LaterSame
<1> DEFINE c == queue.current
           d == queue'.current
           g == held'
           t == in'
<1>4. d.tag # 0 => \/ c.tag # 0 /\ SameMessage(c, d)
                   \/ \E j \in DOMAIN in : Announces(in[j]) /\ SameMessage(in[j], d)
  BY <1>1
<1>5. /\ \A x \in g : x \in held \/ (c.tag # 0 /\ SameMessage(c, x))
      /\ \A i \in DOMAIN t : Announces(t[i]) => \E j \in DOMAIN in : t[i] = in[j]
  BY <1>2 DEF NoneAnnounced
<1>6. Traced(held, in, c, broker)
  BY DEF AcksTraced
<1>7. broker.channel = "open" => \A u \in broker.unacked : u.tag <= broker.count
  BY <1>6 DEF Traced
<1> HIDE DEF c, d, g, t
<1>8. Traced(g, t, d, broker)
  BY <1>3, <1>4, <1>5, <1>6, <1>7, TracedStep
<1>9. Traced(held, in, queue.current, broker)'
  BY <1>1, <1>8 DEF g, t, d
<1>10. QED
  BY <1>1, <1>9 DEF AcksTraced

LEMMA ReadingTraced == ASSUME Ordered, Typed', AcksTraced, Reading PROVE AcksTraced'
<1>1. Typed
  BY OrderedSays
<1>2. CASE ReceiveOpenOk
  BY <1>1, <1>2, ReceiveOpenOkSays, PlainTraced DEF SameButOpened
<1>3. CASE ReceiveClose
  <2>1. /\ Receive("Close") /\ queue'.current = queue.current /\ held' = held
        /\ \E f \in OutFrames : f.type = "CloseOk" /\ out' = Append(out, f)
    BY <1>1, <1>3, ReceiveCloseSays DEF SameButOpened
  <2>2. \E f \in OutFrames : f.type # "Ack" /\ out' = Append(out, f)
    BY <2>1
  <2>3. QED
    BY <2>1, <2>2, PlainTraced
<1>4. CASE ReceiveCloseOk
  BY <1>1, <1>4, ReceiveCloseOkSays, PlainTraced DEF SameButOpened
<1>5. CASE ReceiveConsumeOk
  BY <1>1, <1>5, ReceiveConsumeOkSays, PlainTraced
<1>6. CASE ReceiveCancelOk
  BY <1>1, <1>6, ReceiveCancelOkSays, PlainTraced
<1>7. CASE ReceiveDeliver \/ ReceiveGetOk
  <2>1. PICK type \in {"Deliver", "GetOk"} :
           /\ Receive(type)
           /\ queue'.current = Announced(in[1]) \/ queue'.current = queue.current
           /\ held' = held /\ out' = out
    BY <1>1, <1>7, AnnouncementSays
  <2>2. in[1] \in InFrames /\ Announces(in[1])
    BY <1>1, <2>1, ReceiveSays DEF Announces
  <2>3. SameMessage(in[1], Announced(in[1]))
    BY <2>2, AnnouncedSays DEF SameMessage
  <2>4. queue'.current.tag # 0 =>
           \/ queue.current.tag # 0 /\ SameMessage(queue.current, queue'.current)
           \/ Announces(in[1]) /\ SameMessage(in[1], queue'.current)
    BY <2>1, <2>2, <2>3, SameMessages
  <2>5. QED
    BY <2>1, <2>4, MessageTraced
<1>8. CASE ReceiveGetEmpty
  <2>1. Receive("GetEmpty") /\ queue' = queue /\ held' = held /\ out' = out
    BY <1>8 DEF ReceiveGetEmpty
  <2>2. QED
    BY <2>1, PlainTraced
<1>9. CASE ReceiveHeader \/ ReceiveBody
  <2>1. PICK type \in Carried :
           /\ Receive(type) /\ out' = out
           /\ SameMessage(queue.current, queue'.current)
           /\ \A d \in held' : d \in held
                               \/ (queue.current.tag # 0 /\ SameMessage(queue.current, d))
    BY <1>1, <1>9, ContentsSay
  <2>2. queue'.current.tag # 0 =>
           queue.current.tag # 0 /\ SameMessage(queue.current, queue'.current)
    BY <2>1 DEF SameMessage
  <2>3. QED
    BY <2>1, <2>2, MessageTraced
<1>10. QED
  BY <1>2, <1>3, <1>4, <1>5, <1>6, <1>7, <1>8, <1>9 DEF Reading

\* The broker takes a frame or delivers, on the same channel.
LEMMA BrokerTraced ==
    ASSUME Ordered, Typed', AcksTraced, BrokerUnchanged,
           Later(broker, broker'), broker'.number = broker.number,
           out' = out \/ (out # <<>> /\ out' = Tail(out)),
           NoneAnnounced(in, in'),
           broker'.channel = "open" => \A u \in broker'.unacked : u.tag <= broker'.count,
           \A m \in acked' : m \in acked \/ ("stale" \notin happened => m \in userAcked)
    PROVE  AcksTraced'
<1>1. UNCHANGED <<link, queue, held, userAcked, happened>>
  BY BrokerKeeps
<1>2. Traced(held, in, queue.current, broker)'
  BY <1>1, TracedKept DEF AcksTraced
<1>3. ASSUME "stale" \notin happened'
      PROVE  Owned(out', broker', userAcked') /\ acked' \subseteq userAcked'
  <2>1. Owned(out, broker, userAcked) /\ acked \subseteq userAcked
    BY <1>1, <1>3 DEF AcksTraced
  <2>2. Owned(out', broker, userAcked)
    <3>1. CASE out' = out
      BY <2>1, <3>1
    <3>2. CASE out # <<>> /\ out' = Tail(out)
      BY <2>1, <3>2, OrderedSays, OwnedTail
    <3>3. QED
      BY <3>1, <3>2
  <2>3. broker \in Broker /\ broker' \in Broker /\ out' \in Seq(OutFrames)
    BY OrderedSays, TypedSays DEF Typed, TypeOK
  <2>4. Owned(out', broker', userAcked)
    BY <2>2, <2>3, OwnedLater
  <2>5. QED
    BY <1>1, <1>3, <2>1, <2>4
<1>4. QED
  BY <1>2, <1>3 DEF AcksTraced

\* The broker's notes stay the same, or fewer.
LEMMA LaterFewer ==
    ASSUME NEW b \in Broker, NEW e \in Broker, b.channel = "open", e.channel = "open",
           e.number = b.number, e.count = b.count, e.unacked \subseteq b.unacked,
           \A u \in b.unacked : u.tag <= b.count
    PROVE  Later(b, e) /\ \A u \in e.unacked : u.tag <= e.count
<1>1. b.count \in Nat
  BY BrokerIs
<1>2. b.count <= e.count
  BY <1>1
<1>3. QED
  BY <1>2 DEF Later

\* A message is sent: it is noted with a tag that no other has.
LEMMA NotedTraced ==
    ASSUME Ordered, Typed', AcksTraced, BrokerUnchanged, NEW f, Noted(f),
           out' = out \/ (out # <<>> /\ out' = Tail(out))
    PROVE  AcksTraced'
<1>1. UNCHANGED <<link, queue, held, userAcked, happened>>
  BY BrokerKeeps
<1>2. /\ broker \in Broker /\ broker' \in Broker
      /\ broker.count \in Nat /\ broker.number \in Nat
      /\ \A u \in broker.unacked : u.tag \in Nat
      /\ out \in Seq(OutFrames) /\ out' \in Seq(OutFrames)
  BY OrderedSays, TypedSays DEF Typed, TypeOK, Unacked
<1>3. /\ f \in InFrames /\ Announces(f)
      /\ f.tag = broker.count + 1 /\ f.channel = broker.number
      /\ broker.channel = "open" /\ broker'.channel = "open" /\ broker'.number = broker.number
      /\ broker'.count = broker.count + 1
      /\ broker'.unacked = broker.unacked \cup {[tag |-> f.tag, message |-> f.message]}
      /\ acked' = acked
  BY DEF Noted
<1>4. \A u \in broker.unacked : u.tag <= broker.count
  BY <1>3 DEF AcksTraced, Traced
<1>5. \A u \in broker'.unacked : \/ u \in broker.unacked /\ u.tag <= broker.count
                                 \/ u.tag = broker.count + 1 /\ u.message = f.message
  BY <1>3, <1>4
<1>6. Later(broker, broker')
  <2>1. broker.count <= broker.count + 1 /\ broker.count + 1 > broker.count
    BY <1>2
  <2>2. QED
    BY <1>3, <1>5, <2>1 DEF Later
<1>7. \A u \in broker'.unacked : u.tag <= broker'.count /\ u.tag \in Nat
  <2> SUFFICES ASSUME NEW u \in broker'.unacked PROVE u.tag <= broker'.count /\ u.tag \in Nat
    OBVIOUS
  <2>1. CASE u \in broker.unacked /\ u.tag <= broker.count
    BY <1>2, <1>3, <2>1
  <2>2. CASE u.tag = broker.count + 1
    BY <1>2, <1>3, <2>2
  <2>3. QED
    BY <1>5, <2>1, <2>2
<1>8. Fine(f, broker')
  <2>1. /\ f.tag \in Nat /\ f.tag > 0 /\ f.channel \in Nat /\ f.channel <= broker'.number
        /\ f.tag <= broker'.count
    BY <1>2, <1>3
  <2>2. ASSUME NEW u \in broker'.unacked, u.tag = f.tag PROVE u.message = f.message
    <3>1. ~(u.tag <= broker.count)
      BY <1>2, <1>3, <2>2
    <3>2. QED
      BY <1>5, <3>1
  <2>3. QED
    BY <2>1, <2>2 DEF Fine
<1> DEFINE e == broker'
           t == in'
<1>9. \A i \in DOMAIN t : Announces(t[i]) => Fine(t[i], e) \/ \E j \in DOMAIN in : t[i] = in[j]
  <2> SUFFICES ASSUME NEW i \in DOMAIN in', Announces(in'[i])
               PROVE  Fine(in'[i], broker') \/ \E j \in DOMAIN in : in'[i] = in[j]
    OBVIOUS
  <2>1. \/ i \in DOMAIN in /\ in'[i] = in[i]
        \/ in'[i] = f
        \/ in'[i].type \in Carried
    BY DEF Noted, SentAfter
  <2>2. in'[i].type \notin Carried
    BY DEF Announces, Carried
  <2>3. QED
    BY <1>8, <2>1, <2>2
<1>10. /\ e \in Broker /\ Later(broker, e) /\ (e.channel = "open" => \A u \in e.unacked : u.tag <= e.count)
       /\ \A x \in held : x \in held \/ (queue.current.tag # 0 /\ SameMessage(queue.current, x))
       /\ queue.current.tag # 0 => SameMessage(queue.current, queue.current)
       /\ Traced(held, in, queue.current, broker)
  BY <1>2, <1>6, <1>7, SameMessages DEF AcksTraced
<1> HIDE DEF e, t
<1>11. Traced(held, t, queue.current, e)
  BY <1>2, <1>9, <1>10, TracedStep
<1>12. Traced(held, in, queue.current, broker)'
  BY <1>1, <1>11 DEF t, e
<1>13. ASSUME "stale" \notin happened'
       PROVE  Owned(out', broker', userAcked') /\ acked' \subseteq userAcked'
  <2>1. Owned(out, broker, userAcked) /\ acked \subseteq userAcked
    BY <1>1, <1>13 DEF AcksTraced
  <2>2. Owned(out', broker, userAcked)
    <3>1. CASE out' = out
      BY <2>1, <3>1
    <3>2. CASE out # <<>> /\ out' = Tail(out)
      BY <1>2, <2>1, <3>2, OwnedTail
    <3>3. QED
      BY <3>1, <3>2
  <2>3. Owned(out', broker', userAcked)
    BY <1>2, <1>3, <1>6, <2>2, OwnedLater
  <2>4. QED
    BY <1>1, <1>3, <2>1, <2>3
<1>14. QED
  BY <1>12, <1>13 DEF AcksTraced

LEMMA ShutsTraced ==
    ASSUME Ordered, Typed', AcksTraced, Shuts,
           UNCHANGED <<queue, held, userAcked, happened>>
    PROVE  AcksTraced'
<1>1. PICK f \in InFrames : f.type = "Close" /\ in' = Append(in, f)
  BY DEF Shuts
<1>2. NoneAnnounced(in, in')
  BY <1>1, OrderedSays, AnnouncedAppend DEF Announces
<1>3. QED
  BY <1>2, TracedShut DEF Shuts

LEMMA BrokerOpensTraced == ASSUME Ordered, Typed', AcksTraced, BrokerOpens PROVE AcksTraced'
<1>1. /\ BrokerTakes("Open") /\ broker.channel = "closed"
      /\ broker'.channel = "open" /\ broker'.number = broker.number + 1
      /\ broker'.unacked = broker.unacked
      /\ acked' = acked
      /\ \E f \in InFrames : f.type = "OpenOk" /\ in' = Append(in, f)
  BY OrderedSays, BrokerOpensSays
<1>2. PICK f \in InFrames : f.type = "OpenOk" /\ in' = Append(in, f)
  BY <1>1
<1>3. /\ out # <<>> /\ out' = Tail(out) /\ out[1].type = "Open"
      /\ UNCHANGED <<link, queue, held, userAcked, happened>>
  BY <1>1, OrderedSays, TakesSays, BrokerKeeps
<1>4. \A k \in DOMAIN out' : out'[k].type \notin Needs
  BY <1>1, <1>2, <1>3, OrderedSays, HandshakeOpen
<1>5. NoneAnnounced(in, in')
  BY <1>2, OrderedSays, AnnouncedAppend DEF Announces
<1>6. Later(broker, broker')
  BY <1>1 DEF Later
<1>7. broker'.unacked = {}
  BY <1>1, OrderedSays
<1>8. Traced(held, in, queue.current, broker)'
  BY <1>3, <1>5, <1>6, <1>7, TracedKept DEF AcksTraced
<1>9. Owned(out', broker', userAcked')
  BY <1>4 DEF Owned, Needs
<1>10. QED
  BY <1>1, <1>3, <1>8, <1>9 DEF AcksTraced

\* The broker takes a frame and what it notes of messages stays the same.
LEMMA TakenTraced ==
    ASSUME Ordered, Typed', AcksTraced, NEW type, BrokerTakes(type),
           broker.channel = "open", broker'.channel = "open", broker'.number = broker.number,
           broker'.count = broker.count, broker'.unacked \subseteq broker.unacked,
           in' = in \/ \E f \in InFrames : ~Announces(f) /\ in' = Append(in, f),
           \A m \in acked' : m \in acked \/ ("stale" \notin happened => m \in userAcked)
    PROVE  AcksTraced'
<1>1. out # <<>> /\ out' = Tail(out) /\ BrokerUnchanged
  BY OrderedSays, TakesSays
<1>2. broker \in Broker /\ broker' \in Broker
  BY OrderedSays, TypedSays DEF Typed, TypeOK
<1>3. \A u \in broker.unacked : u.tag <= broker.count
  BY DEF AcksTraced, Traced
<1>4. Later(broker, broker') /\ \A u \in broker'.unacked : u.tag <= broker'.count
  BY <1>2, <1>3, LaterFewer
<1>5. NoneAnnounced(in, in')
  BY OrderedSays, AnnouncedSame, AnnouncedAppend
<1>6. QED
  BY <1>1, <1>4, <1>5, BrokerTraced

LEMMA BrokerReadsTraced == ASSUME Ordered, Typed', AcksTraced, BrokerReads PROVE AcksTraced'
<1>1. Typed
  BY OrderedSays
<1>2. CASE BrokerOpens
  BY <1>2, BrokerOpensTraced
<1>3. CASE BrokerConsumes
  <2>1. PICK tag \in ConsumerTags \ broker.consumers :
           /\ BrokerTakes("Consume") /\ broker.channel = "open"
           /\ broker'.channel = "open" /\ broker'.number = broker.number
           /\ broker'.count = broker.count /\ broker'.unacked = broker.unacked /\ acked' = acked
           /\ \E f \in InFrames : f.type = "ConsumeOk" /\ f.consumer = tag /\ in' = Append(in, f)
    BY <1>1, <1>3, BrokerConsumesSays
  <2>2. \E f \in InFrames : ~Announces(f) /\ in' = Append(in, f)
    BY <2>1 DEF Announces
  <2>3. QED
    BY <2>1, <2>2, TakenTraced
<1>4. CASE BrokerCancels
  <2>1. /\ BrokerTakes("Cancel") /\ broker.channel = "open"
        /\ broker'.channel = "open" /\ broker'.number = broker.number
        /\ broker'.count = broker.count /\ broker'.unacked = broker.unacked /\ acked' = acked
        /\ in' = in \/ \E f \in InFrames : f.type = "CancelOk" /\ in' = Append(in, f)
    BY <1>1, <1>4, BrokerCancelsSays
  <2>2. in' = in \/ \E f \in InFrames : ~Announces(f) /\ in' = Append(in, f)
    BY <2>1 DEF Announces
  <2>3. QED
    BY <2>1, <2>2, TakenTraced
<1>5. CASE BrokerGets
  <2>1. /\ BrokerTakes("Get") /\ broker.channel = "open"
        /\ \/ \E f : Noted(f) /\ f.type = "GetOk"
           \/ /\ broker' = broker /\ acked' = acked
              /\ \E f \in InFrames : f.type = "GetEmpty" /\ in' = Append(in, f)
    BY <1>1, <1>5, BrokerGetsSays
  <2>2. ASSUME NEW f, Noted(f) PROVE AcksTraced'
    BY <1>1, <2>1, <2>2, TakesSays, NotedTraced
  <2>3. ASSUME broker' = broker, acked' = acked,
               \E f \in InFrames : f.type = "GetEmpty" /\ in' = Append(in, f)
        PROVE  AcksTraced'
    <3>1. \E f \in InFrames : ~Announces(f) /\ in' = Append(in, f)
      BY <2>3 DEF Announces
    <3>2. QED
      BY <2>1, <2>3, <3>1, TakenTraced
  <2>4. QED
    BY <2>1, <2>2, <2>3
<1>6. CASE BrokerSettles
  <2>1. PICK type \in {"Ack", "Reject"} :
           /\ BrokerTakes(type)
           /\ \/ Shuts
              \/ /\ in' = in /\ broker.channel = "open" /\ broker'.channel = "open"
                 /\ broker'.number = broker.number /\ broker'.count = broker.count
                 /\ broker'.unacked \subseteq broker.unacked
                 /\ \/ acked' = acked
                    \/ /\ type = "Ack"
                       /\ \A m \in acked' : \/ m \in acked
                                            \/ \E u \in broker.unacked :
                                                  u.tag = out[1].tag /\ u.message = m
    BY <1>1, <1>6, BrokerSettlesSays
  <2>2. /\ out[1].type = type /\ 1 \in DOMAIN out
        /\ UNCHANGED <<link, queue, held, userAcked, happened>>
    BY <1>1, <2>1, TakesSays, BrokerKeeps
  <2>3. CASE Shuts
    BY <2>2, <2>3, ShutsTraced
  <2>4. CASE /\ in' = in /\ broker.channel = "open" /\ broker'.channel = "open"
             /\ broker'.number = broker.number /\ broker'.count = broker.count
             /\ broker'.unacked \subseteq broker.unacked
             /\ \/ acked' = acked
                \/ /\ type = "Ack"
                   /\ \A m \in acked' : \/ m \in acked
                                        \/ \E u \in broker.unacked :
                                              u.tag = out[1].tag /\ u.message = m
    <3>1. ASSUME NEW m \in acked', m \notin acked, "stale" \notin happened PROVE m \in userAcked
      <4>1. PICK u \in broker.unacked : u.tag = out[1].tag /\ u.message = m
        BY <2>4, <3>1
      <4>2. type = "Ack"
        BY <2>4, <3>1
      <4>3. Owned(out, broker, userAcked)
        BY <3>1 DEF AcksTraced
      <4>4. QED
        BY <2>2, <2>4, <4>1, <4>2, <4>3 DEF Owned
    <3>2. QED
      BY <2>1, <2>4, <3>1, TakenTraced
  <2>5. QED
    BY <2>1, <2>3, <2>4
<1>7. CASE BrokerAnswersClose
  <2>1. /\ BrokerTakes("Close") /\ broker'.channel # "open"
        /\ broker'.number = broker.number /\ acked' = acked
        /\ \E f \in InFrames : f.type = "CloseOk" /\ in' = Append(in, f)
    BY <1>7, BrokerAnswersCloseSays
  <2>2. UNCHANGED <<queue, held, userAcked, happened>>
    BY <1>1, <2>1, TakesSays, BrokerKeeps
  <2>3. NoneAnnounced(in, in')
    BY <2>1, OrderedSays, AnnouncedAppend DEF Announces
  <2>4. QED
    BY <2>1, <2>2, <2>3, TracedShut
<1>8. CASE BrokerWaitsForCloseOk
  <2>1. PICK type \in {"Open", "Consume", "Cancel", "Get", "Ack", "Reject", "CloseOk"} :
           /\ BrokerTakes(type)
           /\ broker'.channel = IF type = "CloseOk" THEN "closed" ELSE "closing"
           /\ broker'.number = broker.number /\ acked' = acked /\ in' = in
    BY <1>8, BrokerWaitsSays
  <2>2. UNCHANGED <<queue, held, userAcked, happened>>
    BY <1>1, <2>1, TakesSays, BrokerKeeps
  <2>3. broker'.channel # "open"
    BY <2>1
  <2>4. QED
    BY <2>1, <2>2, <2>3, AnnouncedSame, TracedShut
<1>9. CASE BrokerRefuses
  BY <1>9, LinkTraced
<1>10. QED
  BY <1>2, <1>3, <1>4, <1>5, <1>6, <1>7, <1>8, <1>9 DEF BrokerReads

LEMMA InitTraced == Init => AcksTraced
<1> SUFFICES ASSUME Init PROVE AcksTraced
  OBVIOUS
<1>1. DOMAIN <<>> = {}
  OBVIOUS
<1>2. Traced(held, in, queue.current, broker)
  BY <1>1 DEF Init, Traced, NoMessage
<1>3. Owned(out, broker, userAcked) /\ acked \subseteq userAcked
  BY DEF Init, Owned
<1>4. QED
  BY <1>2, <1>3 DEF AcksTraced

LEMMA NextTraced ==
    ASSUME Ordered, AcksTraced, [Next]_vars PROVE AcksTraced'
<1>1. Typed /\ Typed'
  <2>1. Typed
    BY OrderedSays
  <2>2. QED
    BY <2>1, NextTyped
<1>2. CASE User
  BY <1>1, <1>2, UserTraced, SettleTraced DEF User, Simple
<1>3. CASE Link
  BY <1>1, <1>3, LinkTraced
<1>4. CASE Reading
  BY <1>1, <1>4, ReadingTraced
<1>5. CASE BrokerReads
  BY <1>1, <1>5, BrokerReadsTraced
<1>6. CASE BrokerDelivers
  <2>1. PICK f : Noted(f)
    BY <1>1, <1>6, BrokerDeliversSays
  <2>2. BrokerUnchanged /\ out' = out
    BY <1>1, <1>6, BrokerDeliversSays
  <2>3. QED
    BY <1>1, <2>1, <2>2, NotedTraced
<1>7. CASE BrokerClosesChannel
  BY <1>1, <1>7, BrokerClosesChannelSays, ShutsTraced
<1>8. CASE UNCHANGED vars
  BY <1>8 DEF AcksTraced, vars
<1>9. QED
  BY <1>2, <1>3, <1>4, <1>5, <1>6, <1>7, <1>8 DEF Next

-----------------------------------------------------------------------------
(* One consumer at a time.  `con`, `req` and `tag` are fields of the queue, *)
(* `C` the consumers of the broker.                                        *)

Calm == happened \cap {"recancel", "retag", "reset"} = {}

Asking == {"Consume", "Cancel"}

Telling == {"ConsumeOk", "CancelOk", "Deliver"}

\* A queue that neither consumes nor has asked for it: nothing is under way.
Unasked(o, s, C) ==
    /\ C = {}
    /\ \A i \in DOMAIN o : o[i].type \notin Asking
    /\ \A i \in DOMAIN s : s[i].type \notin Telling

\* A queue that has asked: its consume, or the answer, or neither, when the
\* channel was closed.
Asked(o, s, C) ==
    /\ ~HasType(o, "Cancel") /\ ~HasType(s, "CancelOk")
    /\ \A k \in DOMAIN o : o[k].type = "Consume" =>
          /\ C = {} /\ ~HasType(s, "ConsumeOk")
          /\ \A j \in DOMAIN o : o[j].type = "Consume" => j = k
    /\ \A i \in DOMAIN s : s[i].type = "ConsumeOk" =>
          /\ C \subseteq {s[i].consumer}
          /\ \A j \in DOMAIN s : /\ s[j].type = "ConsumeOk" => j = i
                                 /\ s[j].type = "Deliver" => j > i
    /\ ~HasType(s, "ConsumeOk") => C = {} /\ ~HasType(s, "Deliver")

\* A queue that consumes: its cancel, or the answer, or neither.
Serving(tag, o, s, C) ==
    /\ ~HasType(o, "Consume") /\ ~HasType(s, "ConsumeOk")
    /\ C \subseteq {tag}
    /\ \A k \in DOMAIN o : o[k].type = "Cancel" =>
          /\ o[k].consumer = tag /\ ~HasType(s, "CancelOk")
          /\ \A j \in DOMAIN o : o[j].type = "Cancel" => j = k
    /\ \A i \in DOMAIN s : s[i].type = "CancelOk" =>
          /\ s[i].consumer = tag /\ C = {}
          /\ \A j \in DOMAIN s : /\ s[j].type = "CancelOk" => j = i
                                 /\ s[j].type = "Deliver" => j < i

InPhase(con, req, tag, o, s, C) ==
    /\ ~(con /\ req)
    /\ ~con /\ ~req => Unasked(o, s, C)
    /\ req => Asked(o, s, C)
    /\ con => Serving(tag, o, s, C)

Phased ==
    Calm => InPhase(queue.consuming, queue.consumeRequested, queue.consumerTag, out, in,
                    broker.consumers)

\* The frames of the kinds K in t are those of s, d places on.
Moved(K, s, t, d) ==
    \A i \in DOMAIN t : t[i].type \in K => i \in Int /\ i + d \in DOMAIN s /\ s[i + d] = t[i]

LEMMA MovedTail ==
    ASSUME NEW S, NEW s \in Seq(S), s # <<>>, NEW K PROVE Moved(K, s, Tail(s), 1)
<1> DEFINE t == Tail(s)
<1>1. \A i \in DOMAIN t : i \in Int /\ i + 1 \in DOMAIN s /\ t[i] = s[i + 1]
  BY ShiftIs
<1> HIDE DEF t
<1>2. QED
  BY <1>1 DEF Moved, t

LEMMA MovedSame ==
    ASSUME NEW S, NEW s \in Seq(S), NEW K PROVE Moved(K, s, s, 0)
<1>1. \A i \in DOMAIN s : i \in Int
  BY EntriesAre
<1>2. \A i \in DOMAIN s : i + 0 = i
  BY <1>1
<1>3. QED
  BY <1>1, <1>2 DEF Moved

LEMMA MovedAppend ==
    ASSUME NEW S, NEW s \in Seq(S), NEW f \in S, NEW K, f.type \notin K
    PROVE  Moved(K, s, Append(s, f), 0)
<1> DEFINE t == Append(s, f)
           n == Len(s) + 1
<1>1. \A i \in DOMAIN t : i \in Int /\ ((i \in DOMAIN s /\ t[i] = s[i] /\ i < n) \/ (i = n /\ t[i] = f))
  BY GrowthIs
<1> HIDE DEF t, n
<1>2. \A i \in DOMAIN t : i + 0 = i
  BY <1>1
<1>3. QED
  BY <1>1, <1>2 DEF Moved, t

\* Nothing that is about the consumer is sent; something may have been read.
LEMMA PhaseQuiet ==
    ASSUME NEW con, NEW req, NEW tag, NEW o, NEW s, NEW C, InPhase(con, req, tag, o, s, C),
           NEW p, NEW t, NEW B, NEW d \in Int, NEW e \in Int,
           Moved(Asking, o, p, d), Moved(Telling, s, t, e), B \subseteq C,
           HasType(s, "ConsumeOk") => HasType(t, "ConsumeOk")
    PROVE  InPhase(con, req, tag, p, t, B)
<1>0. d \in Int /\ e \in Int
  OBVIOUS
<1>1. /\ \A i \in DOMAIN p : p[i].type \in Asking => i \in Int /\ i + d \in DOMAIN o /\ o[i + d] = p[i]
      /\ \A i \in DOMAIN t : t[i].type \in Telling => i \in Int /\ i + e \in DOMAIN s /\ s[i + e] = t[i]
  BY DEF Moved
<1>2. /\ HasType(p, "Consume") => HasType(o, "Consume")
      /\ HasType(p, "Cancel") => HasType(o, "Cancel")
  BY <1>1 DEF HasType, Asking
<1>3. /\ HasType(t, "ConsumeOk") => HasType(s, "ConsumeOk")
      /\ HasType(t, "CancelOk") => HasType(s, "CancelOk")
      /\ HasType(t, "Deliver") => HasType(s, "Deliver")
  BY <1>1 DEF HasType, Telling
<1>4. ASSUME Unasked(o, s, C) PROVE Unasked(p, t, B)
  BY <1>1, <1>4 DEF Unasked
<1>5. ASSUME Asked(o, s, C) PROVE Asked(p, t, B)
  <2>1. ~HasType(p, "Cancel") /\ ~HasType(t, "CancelOk")
    BY <1>2, <1>3, <1>5 DEF Asked
  <2>2. ASSUME NEW k \in DOMAIN p, p[k].type = "Consume"
        PROVE  /\ B = {} /\ ~HasType(t, "ConsumeOk")
               /\ \A j \in DOMAIN p : p[j].type = "Consume" => j = k
    <3>1. k \in Int /\ k + d \in DOMAIN o /\ o[k + d].type = "Consume"
      BY <1>1, <2>2 DEF Asking
    <3>2. C = {} /\ ~HasType(s, "ConsumeOk") /\ \A j \in DOMAIN o : o[j].type = "Consume" => j = k + d
      BY <1>5, <3>1 DEF Asked
    <3>3. ASSUME NEW j \in DOMAIN p, p[j].type = "Consume" PROVE j = k
      <4>1. j \in Int /\ j + d \in DOMAIN o /\ o[j + d].type = "Consume"
        BY <1>1, <3>3 DEF Asking
      <4>2. j + d = k + d
        BY <3>2, <4>1
      <4>3. j \in Int /\ k \in Int /\ d \in Int
        BY <1>0, <3>1, <4>1
      <4>4. /\ j + d = k + d => j = k
            /\ j + d < k + d => j < k
            /\ j + d > k + d => j > k
        BY <4>3
      <4>5. QED
        BY <4>2, <4>4
    <3>4. QED
      BY <1>3, <3>2, <3>3
  <2>3. ASSUME NEW i \in DOMAIN t, t[i].type = "ConsumeOk"
        PROVE  /\ B \subseteq {t[i].consumer}
               /\ \A j \in DOMAIN t : /\ t[j].type = "ConsumeOk" => j = i
                                      /\ t[j].type = "Deliver" => j > i
    <3>1. i \in Int /\ i + e \in DOMAIN s /\ s[i + e] = t[i]
      BY <1>1, <2>3 DEF Telling
    <3>2. /\ C \subseteq {t[i].consumer}
          /\ \A j \in DOMAIN s : /\ s[j].type = "ConsumeOk" => j = i + e
                                 /\ s[j].type = "Deliver" => j > i + e
      BY <1>5, <2>3, <3>1 DEF Asked
    <3>3. ASSUME NEW j \in DOMAIN t, t[j].type \in {"ConsumeOk", "Deliver"}
          PROVE  /\ t[j].type = "ConsumeOk" => j = i
                 /\ t[j].type = "Deliver" => j > i
      <4>1. j \in Int /\ j + e \in DOMAIN s /\ s[j + e] = t[j]
        BY <1>1, <3>3 DEF Telling
      <4>2. /\ t[j].type = "ConsumeOk" => j + e = i + e
            /\ t[j].type = "Deliver" => j + e > i + e
        BY <3>2, <4>1
      <4>3. j \in Int /\ i \in Int /\ e \in Int
        BY <1>0, <3>1, <4>1
      <4>4. /\ j + e = i + e => j = i
            /\ j + e < i + e => j < i
            /\ j + e > i + e => j > i
        BY <4>3
      <4>5. QED
        BY <4>2, <4>4
    <3>4. QED
      BY <3>2, <3>3
  <2>4. ~HasType(t, "ConsumeOk") => B = {} /\ ~HasType(t, "Deliver")
    BY <1>3, <1>5 DEF Asked
  <2>5. QED
    BY <2>1, <2>2, <2>3, <2>4 DEF Asked
<1>6. ASSUME Serving(tag, o, s, C) PROVE Serving(tag, p, t, B)
  <2>1. ~HasType(p, "Consume") /\ ~HasType(t, "ConsumeOk") /\ B \subseteq {tag}
    BY <1>2, <1>3, <1>6 DEF Serving
  <2>2. ASSUME NEW k \in DOMAIN p, p[k].type = "Cancel"
        PROVE  /\ p[k].consumer = tag /\ ~HasType(t, "CancelOk")
               /\ \A j \in DOMAIN p : p[j].type = "Cancel" => j = k
    <3>1. k \in Int /\ k + d \in DOMAIN o /\ o[k + d] = p[k]
      BY <1>1, <2>2 DEF Asking
    <3>2. /\ p[k].consumer = tag /\ ~HasType(s, "CancelOk")
          /\ \A j \in DOMAIN o : o[j].type = "Cancel" => j = k + d
      BY <1>6, <2>2, <3>1 DEF Serving
    <3>3. ASSUME NEW j \in DOMAIN p, p[j].type = "Cancel" PROVE j = k
      <4>1. j \in Int /\ j + d \in DOMAIN o /\ o[j + d].type = "Cancel"
        BY <1>1, <3>3 DEF Asking
      <4>2. j + d = k + d
        BY <3>2, <4>1
      <4>3. j \in Int /\ k \in Int /\ d \in Int
        BY <1>0, <3>1, <4>1
      <4>4. /\ j + d = k + d => j = k
            /\ j + d < k + d => j < k
            /\ j + d > k + d => j > k
        BY <4>3
      <4>5. QED
        BY <4>2, <4>4
    <3>4. QED
      BY <1>3, <3>2, <3>3
  <2>3. ASSUME NEW i \in DOMAIN t, t[i].type = "CancelOk"
        PROVE  /\ t[i].consumer = tag /\ B = {}
               /\ \A j \in DOMAIN t : /\ t[j].type = "CancelOk" => j = i
                                      /\ t[j].type = "Deliver" => j < i
    <3>1. i \in Int /\ i + e \in DOMAIN s /\ s[i + e] = t[i]
      BY <1>1, <2>3 DEF Telling
    <3>2. /\ t[i].consumer = tag /\ C = {}
          /\ \A j \in DOMAIN s : /\ s[j].type = "CancelOk" => j = i + e
                                 /\ s[j].type = "Deliver" => j < i + e
      BY <1>6, <2>3, <3>1 DEF Serving
    <3>3. ASSUME NEW j \in DOMAIN t, t[j].type \in {"CancelOk", "Deliver"}
          PROVE  /\ t[j].type = "CancelOk" => j = i
                 /\ t[j].type = "Deliver" => j < i
      <4>1. j \in Int /\ j + e \in DOMAIN s /\ s[j + e] = t[j]
        BY <1>1, <3>3 DEF Telling
      <4>2. /\ t[j].type = "CancelOk" => j + e = i + e
            /\ t[j].type = "Deliver" => j + e < i + e
        BY <3>2, <4>1
      <4>3. j \in Int /\ i \in Int /\ e \in Int
        BY <1>0, <3>1, <4>1
      <4>4. /\ j + e = i + e => j = i
            /\ j + e < i + e => j < i
            /\ j + e > i + e => j > i
        BY <4>3
      <4>5. QED
        BY <4>2, <4>4
    <3>4. QED
      BY <3>2, <3>3
  <2>4. QED
    BY <2>1, <2>2, <2>3 DEF Serving
<1>7. QED
  BY <1>4, <1>5, <1>6 DEF InPhase

\* Without a connection nothing is under way.
LEMMA PhaseEmpty ==
    ASSUME NEW con, NEW req, NEW tag, ~(con /\ req)
    PROVE  InPhase(con, req, tag, <<>>, <<>>, {})
<1>1. DOMAIN <<>> = {}
  OBVIOUS
<1>2. QED
  BY <1>1 DEF InPhase, Unasked, Asked, Serving, HasType

\* The queue asks for a consumer.
LEMMA PhaseAsk ==
    ASSUME NEW tag, NEW o \in Seq(OutFrames), NEW s, NEW C, Unasked(o, s, C),
           NEW f \in OutFrames, f.type = "Consume"
    PROVE  Asked(Append(o, f), s, C)
<1> DEFINE p == Append(o, f)
           n == Len(o) + 1
<1>1. \A i \in DOMAIN p : i \in Int /\ ((i \in DOMAIN o /\ p[i] = o[i] /\ i < n) \/ (i = n /\ p[i] = f))
  BY GrowthIs
<1> HIDE DEF p, n
<1>2. ~HasType(s, "ConsumeOk") /\ ~HasType(s, "CancelOk") /\ ~HasType(s, "Deliver") /\ C = {}
  BY DEF Unasked, HasType, Telling
<1>3. ~HasType(p, "Cancel")
  BY <1>1 DEF Unasked, HasType, Asking
<1>4. \A k \in DOMAIN p : p[k].type = "Consume" => k = n
  BY <1>1 DEF Unasked, Asking
<1>5. \A i \in DOMAIN s : s[i].type # "ConsumeOk"
  BY <1>2 DEF HasType
<1>6. QED
  BY <1>2, <1>3, <1>4, <1>5 DEF Asked, p

\* The queue cancels the consumer, for the first time.
LEMMA PhaseCancel ==
    ASSUME NEW tag, NEW o \in Seq(OutFrames), NEW s, NEW C, Serving(tag, o, s, C),
           NEW f \in OutFrames, f.type = "Cancel", f.consumer = tag,
           ~HasType(o, "Cancel"), ~HasType(s, "CancelOk")
    PROVE  Serving(tag, Append(o, f), s, C)
<1> DEFINE p == Append(o, f)
           n == Len(o) + 1
<1>1. \A i \in DOMAIN p : i \in Int /\ ((i \in DOMAIN o /\ p[i] = o[i] /\ i < n) \/ (i = n /\ p[i] = f))
  BY GrowthIs
<1> HIDE DEF p, n
<1>2. ~HasType(p, "Consume")
  BY <1>1 DEF Serving, HasType
<1>3. \A k \in DOMAIN p : p[k].type = "Cancel" => k = n /\ p[k].consumer = tag
  BY <1>1 DEF HasType
<1>4. QED
  BY <1>2, <1>3 DEF Serving, p

\* The broker reads the consume and answers.
LEMMA PhaseConsume ==
    ASSUME NEW o \in Seq(OutFrames), o # <<>>, NEW s \in Seq(InFrames), NEW C, Asked(o, s, C),
           o[1].type = "Consume", NEW f \in InFrames, f.type = "ConsumeOk"
    PROVE  Asked(Tail(o), Append(s, f), {f.consumer})
<1> DEFINE p == Tail(o)
           t == Append(s, f)
           n == Len(s) + 1
<1>1. /\ \A i \in DOMAIN p : i \in Int /\ i >= 1 /\ i + 1 \in DOMAIN o /\ p[i] = o[i + 1]
      /\ 1 \in DOMAIN o
  BY ShiftIs
<1>2. /\ \A i \in DOMAIN t : i \in Int /\ ((i \in DOMAIN s /\ t[i] = s[i] /\ i < n) \/ (i = n /\ t[i] = f))
      /\ n \in DOMAIN t /\ t[n] = f
  BY GrowthIs
<1> HIDE DEF p, t, n
<1>3. /\ ~HasType(s, "ConsumeOk") /\ ~HasType(s, "CancelOk") /\ ~HasType(s, "Deliver") /\ ~HasType(o, "Cancel")
      /\ \A j \in DOMAIN o : o[j].type = "Consume" => j = 1
  BY <1>1 DEF Asked
<1>4. \A i \in DOMAIN p : p[i].type \notin Asking
  <2> TAKE i \in DOMAIN p
  <2>1. i + 1 \in DOMAIN o /\ p[i] = o[i + 1] /\ i + 1 # 1
    BY <1>1
  <2>2. QED
    BY <1>3, <2>1 DEF Asking, HasType
<1>5. \A i \in DOMAIN t : t[i].type \in Telling => i = n /\ t[i] = f
  BY <1>2, <1>3 DEF HasType, Telling
<1>6. HasType(t, "ConsumeOk") /\ ~HasType(t, "CancelOk")
  BY <1>2, <1>5 DEF HasType, Telling
<1>7. \A i \in DOMAIN t : t[i].type # "Deliver"
  BY <1>5 DEF Telling
<1>8. \A i \in DOMAIN t : t[i].type = "ConsumeOk" => i = n /\ t[i] = f
  BY <1>5 DEF Telling
<1>9. \A k \in DOMAIN p : p[k].type # "Consume" /\ p[k].type # "Cancel"
  BY <1>4 DEF Asking
<1>10. ~HasType(p, "Cancel")
  BY <1>9 DEF HasType
<1>11. QED
  BY <1>6, <1>7, <1>8, <1>9, <1>10 DEF Asked, p, t

\* The broker reads the cancel and answers, or does not.
LEMMA PhaseCancelled ==
    ASSUME NEW tag, NEW o \in Seq(OutFrames), o # <<>>, NEW s \in Seq(InFrames), NEW C,
           Serving(tag, o, s, C), o[1].type = "Cancel", NEW t \in Seq(InFrames),
           t = s \/ \E f \in InFrames : /\ f.type = "CancelOk" /\ f.consumer = tag
                                        /\ t = Append(s, f)
    PROVE  Serving(tag, Tail(o), t, {})
<1> DEFINE p == Tail(o)
           n == Len(s) + 1
<1>1. /\ \A i \in DOMAIN p : i \in Int /\ i >= 1 /\ i + 1 \in DOMAIN o /\ p[i] = o[i + 1]
      /\ 1 \in DOMAIN o
  BY ShiftIs
<1>2. \A i \in DOMAIN t : i \in Int /\ \/ i \in DOMAIN s /\ t[i] = s[i] /\ i < n
                                       \/ i = n /\ t[i].type = "CancelOk" /\ t[i].consumer = tag
  <2>1. CASE t = s
    <3>1. \A i \in DOMAIN s : i \in Int /\ i <= Len(s) /\ Len(s) \in Nat
      BY EntriesAre
    <3>2. QED
      BY <2>1, <3>1
  <2>2. ASSUME NEW f \in InFrames, f.type = "CancelOk", f.consumer = tag, t = Append(s, f)
        PROVE  \A i \in DOMAIN t : i \in Int /\ \/ i \in DOMAIN s /\ t[i] = s[i] /\ i < n
                                                \/ i = n /\ t[i] = f
    <3> DEFINE u == Append(s, f)
    <3>1. \A i \in DOMAIN u : i \in Int /\ ((i \in DOMAIN s /\ u[i] = s[i] /\ i < n) \/ (i = n /\ u[i] = f))
      BY GrowthIs
    <3> HIDE DEF u, n
    <3>2. t = u
      BY <2>2 DEF u
    <3>3. QED
      BY <3>1, <3>2
  <2> HIDE DEF n
  <2>3. QED
    BY <2>1, <2>2
<1> HIDE DEF p, n
<1>3. /\ ~HasType(s, "ConsumeOk") /\ ~HasType(s, "CancelOk") /\ ~HasType(o, "Consume")
      /\ \A j \in DOMAIN o : o[j].type = "Cancel" => j = 1
  BY <1>1 DEF Serving
<1>4. \A i \in DOMAIN p : p[i].type # "Cancel" /\ p[i].type # "Consume"
  <2> TAKE i \in DOMAIN p
  <2>1. i + 1 \in DOMAIN o /\ p[i] = o[i + 1] /\ i + 1 # 1
    BY <1>1
  <2>2. QED
    BY <1>3, <2>1 DEF HasType
<1>5. /\ \A i \in DOMAIN t : t[i].type = "CancelOk" => i = n /\ t[i].consumer = tag
      /\ \A i \in DOMAIN t : t[i].type = "Deliver" => i < n
      /\ ~HasType(t, "ConsumeOk")
  BY <1>2, <1>3 DEF HasType
<1>6. ~HasType(p, "Consume")
  BY <1>4 DEF HasType
<1>7. QED
  BY <1>4, <1>5, <1>6 DEF Serving, p

\* The broker sends a message to its consumer.
LEMMA PhaseDeliver ==
    ASSUME NEW con, NEW req, NEW tag, NEW o, NEW s, NEW C, InPhase(con, req, tag, o, s, C),
           NEW f, f.consumer \in C, f.type = "Deliver", NEW t, SentAfter(s, t, f)
    PROVE  InPhase(con, req, tag, o, t, C)
<1> DEFINE n == Len(s) + 1
<1>1. /\ \A i \in DOMAIN s : i \in DOMAIN t /\ t[i] = s[i] /\ i < n /\ i \in Int
      /\ \A i \in DOMAIN t :
            /\ i \in Int
            /\ \/ i \in DOMAIN s /\ t[i] = s[i] /\ i < n
               \/ i = n /\ t[i] = f
               \/ i > n /\ t[i].type \in Carried
      /\ n \in Int
  BY DEF SentAfter
<1> HIDE DEF n
<1>2. \A i \in DOMAIN t : t[i].type \in Telling =>
         \/ i \in DOMAIN s /\ t[i] = s[i] /\ i < n
         \/ i = n /\ t[i].type = "Deliver"
  BY <1>1 DEF Telling, Carried
<1>3. /\ HasType(t, "ConsumeOk") <=> HasType(s, "ConsumeOk")
      /\ HasType(t, "CancelOk") => HasType(s, "CancelOk")
  BY <1>1, <1>2 DEF HasType, Telling
<1>4. C # {}
  OBVIOUS
<1>5. ASSUME Asked(o, s, C) PROVE Asked(o, t, C)
  <2>1. HasType(s, "ConsumeOk") /\ HasType(t, "ConsumeOk") /\ ~HasType(t, "CancelOk")
    BY <1>3, <1>4, <1>5 DEF Asked
  <2>2. \A k \in DOMAIN o : o[k].type # "Consume"
    BY <1>4, <1>5 DEF Asked
  <2>3. ASSUME NEW i \in DOMAIN t, t[i].type = "ConsumeOk"
        PROVE  /\ C \subseteq {t[i].consumer}
               /\ \A j \in DOMAIN t : /\ t[j].type = "ConsumeOk" => j = i
                                      /\ t[j].type = "Deliver" => j > i
    <3>1. i \in DOMAIN s /\ t[i] = s[i] /\ i < n
      BY <1>2, <2>3 DEF Telling
    <3>2. /\ C \subseteq {s[i].consumer}
          /\ \A j \in DOMAIN s : /\ s[j].type = "ConsumeOk" => j = i
                                 /\ s[j].type = "Deliver" => j > i
      BY <1>5, <2>3, <3>1 DEF Asked
    <3>3. QED
      BY <1>2, <3>1, <3>2 DEF Telling
  <2>4. QED
    BY <1>5, <2>1, <2>2, <2>3 DEF Asked
<1>6. ASSUME Serving(tag, o, s, C) PROVE Serving(tag, o, t, C)
  <2>1. ~HasType(s, "CancelOk")
    BY <1>4, <1>6 DEF Serving, HasType
  <2>2. ~HasType(t, "CancelOk") /\ ~HasType(t, "ConsumeOk")
    BY <1>3, <1>6, <2>1 DEF Serving
  <2>3. \A i \in DOMAIN t : t[i].type # "CancelOk"
    BY <2>2 DEF HasType
  <2>4. QED
    BY <1>6, <2>2, <2>3 DEF Serving
<1>7. ~Unasked(o, s, C)
  BY <1>4 DEF Unasked
<1>8. QED
  BY <1>5, <1>6, <1>7 DEF InPhase

\* The queue reads the answer to its consume.
LEMMA PhaseStart ==
    ASSUME NEW o, NEW s \in Seq(InFrames), s # <<>>, NEW C, Asked(o, s, C),
           s[1].type = "ConsumeOk"
    PROVE  Serving(s[1].consumer, o, Tail(s), C)
<1> DEFINE t == Tail(s)
<1>1. /\ \A i \in DOMAIN t : i \in Int /\ i >= 1 /\ i + 1 \in DOMAIN s /\ t[i] = s[i + 1]
      /\ 1 \in DOMAIN s
  BY ShiftIs
<1> HIDE DEF t
<1>2. /\ C \subseteq {s[1].consumer} /\ HasType(s, "ConsumeOk")
      /\ \A j \in DOMAIN s : s[j].type = "ConsumeOk" => j = 1
  BY <1>1 DEF Asked, HasType
<1>3. /\ \A k \in DOMAIN o : o[k].type # "Consume" /\ o[k].type # "Cancel"
      /\ \A i \in DOMAIN s : s[i].type # "CancelOk"
  BY <1>2 DEF Asked, HasType
<1>4. \A i \in DOMAIN t : t[i].type # "ConsumeOk" /\ t[i].type # "CancelOk"
  <2> TAKE i \in DOMAIN t
  <2>1. i + 1 \in DOMAIN s /\ t[i] = s[i + 1] /\ i + 1 # 1
    BY <1>1
  <2>2. QED
    BY <1>2, <1>3, <2>1
<1>5. ~HasType(o, "Consume") /\ ~HasType(t, "ConsumeOk")
  BY <1>3, <1>4 DEF HasType
<1>6. QED
  BY <1>2, <1>3, <1>4, <1>5 DEF Serving, t

\* The queue reads the answer to its cancel.
LEMMA PhaseStop ==
    ASSUME NEW tag, NEW o, NEW s \in Seq(InFrames), s # <<>>, NEW C, Serving(tag, o, s, C),
           s[1].type = "CancelOk"
    PROVE  s[1].consumer = tag /\ Unasked(o, Tail(s), C)
<1> DEFINE t == Tail(s)
<1>1. /\ \A i \in DOMAIN t : i \in Int /\ i >= 1 /\ i + 1 \in DOMAIN s /\ t[i] = s[i + 1]
      /\ 1 \in DOMAIN s
  BY ShiftIs
<1> HIDE DEF t
<1>2. /\ s[1].consumer = tag /\ C = {} /\ HasType(s, "CancelOk")
      /\ \A j \in DOMAIN s : /\ s[j].type = "CancelOk" => j = 1
                             /\ s[j].type = "Deliver" => j < 1
      /\ \A j \in DOMAIN s : s[j].type # "ConsumeOk"
  BY <1>1 DEF Serving, HasType
<1>3. \A k \in DOMAIN o : o[k].type # "Consume" /\ o[k].type # "Cancel"
  BY <1>2 DEF Serving, HasType
<1>4. \A i \in DOMAIN t : t[i].type \notin Telling
  <2> TAKE i \in DOMAIN t
  <2>1. i + 1 \in DOMAIN s /\ t[i] = s[i + 1] /\ i + 1 # 1 /\ ~(i + 1 < 1)
    BY <1>1
  <2>2. QED
    BY <1>2, <2>1 DEF Telling
<1>5. QED
  BY <1>2, <1>3, <1>4 DEF Unasked, Asking, t

\* Frames that are not about the consumer, sent or read.
QuietOut ==
    \/ out' = out
    \/ out # <<>> /\ out' = Tail(out)
    \/ \E f \in OutFrames : f.type \notin Asking /\ out' = Append(out, f)

QuietIn ==
    \/ in' = in
    \/ in # <<>> /\ in' = Tail(in) /\ in[1].type # "ConsumeOk"
    \/ \E f \in InFrames : f.type \notin Telling /\ in' = Append(in, f)
    \/ \E f : f.type = "GetOk" /\ SentAfter(in, in', f)

SameAsking ==
    /\ queue'.consuming = queue.consuming
    /\ queue'.consumeRequested = queue.consumeRequested
    /\ queue.consuming => queue'.consumerTag = queue.consumerTag

LEMMA QuietOutMoves == ASSUME Typed, QuietOut PROVE \E d \in Int : Moved(Asking, out, out', d)
<1>1. out \in Seq(OutFrames) /\ 0 \in Int /\ 1 \in Int
  BY TypedSays
<1>2. CASE out' = out
  <2>1. Moved(Asking, out, out', 0)
    BY <1>1, <1>2, MovedSame
  <2>2. QED
    BY <1>1, <2>1
<1>3. CASE out # <<>> /\ out' = Tail(out)
  <2>1. Moved(Asking, out, out', 1)
    BY <1>1, <1>3, MovedTail
  <2>2. QED
    BY <1>1, <2>1
<1>4. CASE \E f \in OutFrames : f.type \notin Asking /\ out' = Append(out, f)
  <2>1. Moved(Asking, out, out', 0)
    BY <1>1, <1>4, MovedAppend
  <2>2. QED
    BY <1>1, <2>1
<1>5. QED
  BY <1>2, <1>3, <1>4 DEF QuietOut

LEMMA HasAppend ==
    ASSUME NEW S, NEW s \in Seq(S), NEW f \in S, NEW type, HasType(s, type)
    PROVE  HasType(Append(s, f), type)
<1> DEFINE t == Append(s, f)
<1>1. \A i \in DOMAIN s : i \in DOMAIN t /\ t[i] = s[i]
  BY GrowthIs
<1> HIDE DEF t
<1>2. QED
  BY <1>1 DEF HasType, t

LEMMA HasTail ==
    ASSUME NEW S, NEW s \in Seq(S), s # <<>>, NEW type, HasType(s, type), s[1].type # type
    PROVE  HasType(Tail(s), type)
<1> DEFINE t == Tail(s)
<1>1. \A i \in DOMAIN s : i = 1 \/ (i - 1 \in DOMAIN t /\ t[i - 1] = s[i])
  BY ShiftIs
<1> HIDE DEF t
<1>2. PICK i \in DOMAIN s : s[i].type = type
  BY DEF HasType
<1>3. i - 1 \in DOMAIN t /\ t[i - 1] = s[i]
  BY <1>1, <1>2
<1>4. QED
  BY <1>2, <1>3 DEF HasType, t

LEMMA QuietInMoves ==
    ASSUME Typed, QuietIn
    PROVE  /\ \E e \in Int : Moved(Telling, in, in', e)
           /\ HasType(in, "ConsumeOk") => HasType(in', "ConsumeOk")
<1>1. in \in Seq(InFrames) /\ 0 \in Int /\ 1 \in Int
  BY TypedSays
<1>2. CASE in' = in
  <2>1. Moved(Telling, in, in', 0)
    BY <1>1, <1>2, MovedSame
  <2>2. QED
    BY <1>1, <1>2, <2>1
<1>3. CASE in # <<>> /\ in' = Tail(in) /\ in[1].type # "ConsumeOk"
  <2>1. Moved(Telling, in, in', 1)
    BY <1>1, <1>3, MovedTail
  <2>2. HasType(in, "ConsumeOk") => HasType(in', "ConsumeOk")
    BY <1>1, <1>3, HasTail
  <2>3. QED
    BY <1>1, <2>1, <2>2
<1>4. ASSUME NEW f \in InFrames, f.type \notin Telling, in' = Append(in, f)
      PROVE  /\ \E e \in Int : Moved(Telling, in, in', e)
             /\ HasType(in, "ConsumeOk") => HasType(in', "ConsumeOk")
  <2>1. Moved(Telling, in, in', 0)
    BY <1>1, <1>4, MovedAppend
  <2>2. HasType(in, "ConsumeOk") => HasType(in', "ConsumeOk")
    BY <1>1, <1>4, HasAppend
  <2>3. QED
    BY <1>1, <2>1, <2>2
<1>5. ASSUME NEW f, f.type = "GetOk", SentAfter(in, in', f)
      PROVE  /\ \E e \in Int : Moved(Telling, in, in', e)
             /\ HasType(in, "ConsumeOk") => HasType(in', "ConsumeOk")
  <2>1. /\ \A i \in DOMAIN in : i \in DOMAIN in' /\ in'[i] = in[i]
        /\ \A i \in DOMAIN in' : i \in Int /\ (\/ i \in DOMAIN in /\ in'[i] = in[i]
                                               \/ in'[i].type \notin Telling)
    BY <1>5 DEF SentAfter, Telling, Carried
  <2>2. \A i \in DOMAIN in' : i + 0 = i
    BY <2>1
  <2>3. Moved(Telling, in, in', 0)
    BY <2>1, <2>2 DEF Moved
  <2>4. HasType(in, "ConsumeOk") => HasType(in', "ConsumeOk")
    BY <2>1 DEF HasType
  <2>5. QED
    BY <1>1, <2>3, <2>4
<1>6. QED
  BY <1>2, <1>3, <1>4, <1>5 DEF QuietIn

LEMMA PhasedQuiet ==
    ASSUME Typed, Phased, happened \subseteq happened', SameAsking, QuietOut, QuietIn,
           broker'.consumers \subseteq broker.consumers
    PROVE  Phased'
<1> SUFFICES ASSUME Calm'
             PROVE  InPhase(queue.consuming, queue.consumeRequested, queue.consumerTag, out, in,
                            broker.consumers)'
  BY DEF Phased
<1>1. InPhase(queue.consuming, queue.consumeRequested, queue.consumerTag, out, in,
              broker.consumers)
  BY DEF Phased, Calm
<1>2. PICK d \in Int : Moved(Asking, out, out', d)
  BY QuietOutMoves
<1>3. PICK e \in Int : Moved(Telling, in, in', e)
  BY QuietInMoves
<1>4. InPhase(queue.consuming, queue.consumeRequested, queue.consumerTag, out', in',
              broker'.consumers)
  BY <1>1, <1>2, <1>3, QuietInMoves, PhaseQuiet
<1>5. QED
  BY <1>4 DEF InPhase, SameAsking

\* The frame of a call, sent when there is a connection.
LEMMA QuietSend ==
    ASSUME Typed, NEW f \in OutFrames, Send(f), f.type \notin Asking PROVE QuietOut
  BY SentOrNot DEF QuietOut

LEMMA SilentPhased ==
    ASSUME Phased, out' = <<>>, in' = <<>>, broker'.consumers = {},
           happened \subseteq happened',
           \/ ~queue'.consuming /\ ~queue'.consumeRequested
           \/ /\ queue'.consuming = queue.consuming
              /\ queue'.consumeRequested = queue.consumeRequested
    PROVE  Phased'
<1> SUFFICES ASSUME Calm'
             PROVE  InPhase(queue.consuming, queue.consumeRequested, queue.consumerTag, out, in,
                            broker.consumers)'
  BY DEF Phased
<1>1. ~(queue'.consuming /\ queue'.consumeRequested)
  BY DEF Phased, Calm, InPhase
<1>2. QED
  BY <1>1, PhaseEmpty

LEMMA ConsumePhased == ASSUME Ordered, Phased, Consume PROVE Phased'
<1> SUFFICES ASSUME Calm'
             PROVE  InPhase(queue.consuming, queue.consumeRequested, queue.consumerTag, out, in,
                            broker.consumers)'
  BY DEF Phased
<1> DEFINE f == [type |-> "Consume", consumer |-> queue.consumerTag]
<1>1. /\ f \in OutFrames /\ Send(f) /\ ~queue.consumeRequested /\ ~queue.consuming
      /\ queue'.consumeRequested /\ ~queue'.consuming
      /\ UNCHANGED <<link, in, broker, happened>>
  BY OrderedSays, ConsumeSays
<1>2. f.type = "Consume"
  OBVIOUS
<1> HIDE DEF f
<1>3. Unasked(out, in, broker.consumers)
  BY <1>1 DEF Phased, Calm, InPhase
<1>4. CASE link = "up"
  <2>1. out' = Append(out, f) /\ out \in Seq(OutFrames)
    BY <1>1, <1>4, OrderedSays, SendIs
  <2>2. Asked(Append(out, f), in, broker.consumers)
    BY <1>1, <1>2, <1>3, <2>1, PhaseAsk
  <2>3. Asked(out', in', broker'.consumers)
    BY <1>1, <2>1, <2>2
  <2>4. QED
    BY <1>1, <2>3 DEF InPhase
<1>5. CASE link # "up"
  <2>1. out = <<>> /\ in = <<>> /\ broker.consumers = {} /\ out' = out
    BY <1>1, <1>3, <1>5, OrderedSays, SendIs DEF Unasked
  <2>2. out' = <<>> /\ in' = <<>> /\ broker'.consumers = {}
    BY <1>1, <2>1
  <2>3. QED
    BY <1>1, <2>2, PhaseEmpty
<1>6. QED
  BY <1>4, <1>5

LEMMA CancelPhased == ASSUME Ordered, Phased, Cancel PROVE Phased'
<1> SUFFICES ASSUME Calm'
             PROVE  InPhase(queue.consuming, queue.consumeRequested, queue.consumerTag, out, in,
                            broker.consumers)'
  BY DEF Phased
<1>1. PICK noWait \in BOOLEAN :
         LET f == [type |-> "Cancel", consumer |-> queue.consumerTag, noWait |-> noWait]
         IN  /\ f \in OutFrames /\ Send(f) /\ queue.consuming
             /\ CancelPending => "recancel" \in happened'
             /\ happened \subseteq happened'
             /\ UNCHANGED <<queue, in, broker>>
  BY OrderedSays, CancelSays
<1> DEFINE f == [type |-> "Cancel", consumer |-> queue.consumerTag, noWait |-> noWait]
<1>2. /\ f \in OutFrames /\ Send(f) /\ queue.consuming
      /\ CancelPending => "recancel" \in happened'
      /\ happened \subseteq happened'
      /\ UNCHANGED <<queue, in, broker>>
      /\ f.type = "Cancel" /\ f.consumer = queue.consumerTag
  BY <1>1
<1> HIDE DEF f
<1>3. ~HasType(out, "Cancel") /\ ~HasType(in, "CancelOk")
  BY <1>2 DEF Calm, CancelPending, HasType
<1>4. /\ InPhase(queue.consuming, queue.consumeRequested, queue.consumerTag, out, in,
                 broker.consumers)
      /\ Serving(queue.consumerTag, out, in, broker.consumers) /\ ~queue.consumeRequested
  BY <1>2 DEF Phased, Calm, InPhase
<1>5. CASE out' = out
  BY <1>2, <1>4, <1>5
<1>6. CASE out' = Append(out, f)
  <2>1. out \in Seq(OutFrames)
    BY OrderedSays
  <2>2. Serving(queue.consumerTag, Append(out, f), in, broker.consumers)
    BY <1>2, <1>3, <1>4, <2>1, PhaseCancel
  <2>3. Serving(queue'.consumerTag, out', in', broker'.consumers)
    BY <1>2, <1>6, <2>2
  <2>4. QED
    BY <1>2, <1>4, <2>3 DEF InPhase
<1>7. QED
  BY <1>2, <1>5, <1>6, OrderedSays, SentOrNot

LEMMA UserPhased ==
    ASSUME Ordered, Phased, User
    PROVE  Phased'
<1>1. Typed
  BY OrderedSays
<1>2. QuietIn \/ in' # in
  BY DEF QuietIn
<1>3. CASE Consume \/ Cancel
  BY <1>3, ConsumePhased, CancelPhased
<1>4. CASE SetConsumerTag
  <2>1. /\ queue'.consuming = queue.consuming
        /\ queue'.consumeRequested = queue.consumeRequested
        /\ queue.consuming => "retag" \in happened'
        /\ happened \subseteq happened' /\ UNCHANGED <<out, in, broker>>
    BY <1>1, <1>4, SetConsumerTagSays
  <2>2. CASE queue.consuming
    BY <2>1, <2>2 DEF Phased, Calm
  <2>3. CASE ~queue.consuming
    BY <1>1, <1>2, <2>1, <2>3, PhasedQuiet DEF SameAsking, QuietOut
  <2>4. QED
    BY <2>2, <2>3
<1>5. CASE Simple
  <2>1. PICK f \in OutFrames :
           /\ Send(f) /\ f.type \in {"Get", "Close", "Open"} /\ happened \subseteq happened'
           /\ UNCHANGED <<queue, in, broker>>
    BY <1>1, <1>5, SimpleSays
  <2>2. QuietOut
    BY <1>1, <2>1, QuietSend DEF Asking
  <2>3. QED
    BY <1>1, <1>2, <2>1, <2>2, PhasedQuiet DEF SameAsking
<1>6. ASSUME NEW delivery \in held, Ack(delivery) \/ Reject(delivery) PROVE Phased'
  <2>1. PICK f \in OutFrames : f.type \in {"Ack", "Reject"} /\ Settle(delivery, f)
    BY <1>1, <1>6, SettledSays
  <2>2. Send(f) /\ happened \subseteq happened' /\ UNCHANGED <<queue, in, broker>>
    BY <1>1, <2>1, SettleSays
  <2>3. QuietOut
    BY <1>1, <2>1, <2>2, QuietSend DEF Asking
  <2>4. QED
    BY <1>1, <1>2, <2>2, <2>3, PhasedQuiet DEF SameAsking
<1>7. CASE Reset
  <2>1. /\ queue' # queue => "reset" \in happened'
        /\ happened \subseteq happened' /\ UNCHANGED <<out, in, broker>>
    BY <1>1, <1>7, ResetSays
  <2>2. CASE queue' = queue
    BY <1>1, <1>2, <2>1, <2>2, PhasedQuiet DEF SameAsking, QuietOut
  <2>3. CASE queue' # queue
    BY <2>1, <2>3 DEF Phased, Calm
  <2>4. QED
    BY <2>2, <2>3
<1>8. QED
  BY <1>3, <1>4, <1>5, <1>6, <1>7 DEF User, Simple

LEMMA LinkPhased == ASSUME Ordered, Phased, Link \/ BrokerRefuses PROVE Phased'
<1>1. CASE LinkUp
  <2>1. link = "down"
    BY <1>1 DEF LinkUp
  <2>2. ~queue.consuming /\ ~queue.consumeRequested /\ in = <<>> /\ broker.consumers = {}
    BY <2>1, OrderedSays DEF Idle
  <2>3. out' = <<[type |-> "Open"]>> /\ UNCHANGED <<queue, in, broker, happened>>
    BY <1>1 DEF LinkUp, Contents
  <2>4. \A i \in DOMAIN out' : out'[i].type \notin Asking
    BY <2>3 DEF Asking
  <2>5. DOMAIN in' = {}
    BY <2>2, <2>3
  <2>6. Unasked(out', in', broker'.consumers)
    BY <2>2, <2>3, <2>4, <2>5 DEF Unasked
  <2>7. QED
    BY <2>2, <2>3, <2>6 DEF Phased, InPhase
<1>2. CASE SocketClosed
  BY <1>2, OrderedSays, SocketClosedSays, SilentPhased DEF Idle
<1>3. CASE LinkCloses
  BY <1>3, OrderedSays, LinkClosesSays, SilentPhased
<1>4. QED
  BY <1>1, <1>2, <1>3 DEF Link, LinkLost, BrokerRefuses

LEMMA ReadingPhased == ASSUME Ordered, Phased, Reading PROVE Phased'
<1>1. Typed
  BY OrderedSays
<1>2. ASSUME NEW type, Receive(type), type # "ConsumeOk" PROVE QuietIn /\ UNCHANGED <<broker, happened>>
  BY <1>1, <1>2, ReceiveSays DEF QuietIn
<1>3. CASE ReceiveOpenOk
  <2>1. Receive("OpenOk") /\ SameButOpened(queue, queue') /\ out' = out
    BY <1>1, <1>3, ReceiveOpenOkSays
  <2>2. QED
    BY <1>1, <1>2, <2>1, PhasedQuiet DEF SameAsking, SameButOpened, QuietOut
<1>4. CASE ReceiveClose
  <2>1. /\ Receive("Close") /\ SameButOpened(queue, queue')
        /\ \E f \in OutFrames : f.type = "CloseOk" /\ out' = Append(out, f)
    BY <1>1, <1>4, ReceiveCloseSays
  <2>2. QuietOut
    BY <2>1 DEF QuietOut, Asking
  <2>3. QED
    BY <1>1, <1>2, <2>1, <2>2, PhasedQuiet DEF SameAsking, SameButOpened
<1>5. CASE ReceiveCloseOk
  <2>1. Receive("CloseOk") /\ SameButOpened(queue, queue') /\ out' = out
    BY <1>1, <1>5, ReceiveCloseOkSays
  <2>2. QED
    BY <1>1, <1>2, <2>1, PhasedQuiet DEF SameAsking, SameButOpened, QuietOut
<1>6. CASE ReceiveConsumeOk
  <2> SUFFICES ASSUME Calm'
               PROVE  InPhase(queue.consuming, queue.consumeRequested, queue.consumerTag, out, in,
                              broker.consumers)'
    BY DEF Phased
  <2>1. /\ Receive("ConsumeOk") /\ queue'.consumerTag = in[1].consumer
        /\ queue'.consuming = TRUE /\ queue'.consumeRequested = FALSE /\ out' = out
    BY <1>1, <1>6, ReceiveConsumeOkSays
  <2>2. /\ in \in Seq(InFrames) /\ in # <<>> /\ in' = Tail(in) /\ in[1].type = "ConsumeOk"
        /\ 1 \in DOMAIN in /\ UNCHANGED <<broker, happened>>
    BY <1>1, <2>1, TypedSays, ReceiveSays
  <2>3. InPhase(queue.consuming, queue.consumeRequested, queue.consumerTag, out, in,
                broker.consumers)
    BY <2>2 DEF Phased, Calm
  <2>4. HasType(in, "ConsumeOk")
    BY <2>2 DEF HasType
  <2>5. Asked(out, in, broker.consumers)
    BY <2>2, <2>3, <2>4 DEF InPhase, Unasked, Serving, Telling
  <2>6. Serving(in[1].consumer, out, Tail(in), broker.consumers)
    BY <2>2, <2>5, PhaseStart
  <2>7. QED
    BY <2>1, <2>2, <2>6 DEF InPhase
<1>7. CASE ReceiveCancelOk
  <2>1. /\ Receive("CancelOk") /\ out' = out
        /\ \/ /\ queue.consumerTag = in[1].consumer
              /\ queue'.consuming = FALSE /\ queue'.consumeRequested = FALSE
           \/ queue' = queue
    BY <1>1, <1>7, ReceiveCancelOkSays
  <2>2. /\ in \in Seq(InFrames) /\ in # <<>> /\ in' = Tail(in) /\ in[1].type = "CancelOk"
        /\ 1 \in DOMAIN in /\ UNCHANGED <<broker, happened>>
    BY <1>1, <2>1, TypedSays, ReceiveSays
  <2>3. CASE queue' = queue
    BY <1>1, <1>2, <2>1, <2>3, PhasedQuiet DEF SameAsking, QuietOut
  <2>4. CASE queue'.consuming = FALSE /\ queue'.consumeRequested = FALSE
    <3> SUFFICES ASSUME Calm'
                 PROVE  InPhase(queue.consuming, queue.consumeRequested, queue.consumerTag, out,
                                in, broker.consumers)'
      BY DEF Phased
    <3>1. InPhase(queue.consuming, queue.consumeRequested, queue.consumerTag, out, in,
                  broker.consumers)
      BY <2>2 DEF Phased, Calm
    <3>2. HasType(in, "CancelOk")
      BY <2>2 DEF HasType
    <3>3. Serving(queue.consumerTag, out, in, broker.consumers)
      BY <2>2, <3>1, <3>2 DEF InPhase, Unasked, Asked, Telling
    <3>4. Unasked(out, Tail(in), broker.consumers)
      BY <2>2, <3>3, PhaseStop
    <3>5. QED
      BY <2>1, <2>2, <2>4, <3>4 DEF InPhase
  <2>5. QED
    BY <2>1, <2>3, <2>4
<1>8. CASE ReceiveDeliver \/ ReceiveGetOk
  <2>1. PICK type \in {"Deliver", "GetOk"} :
           Receive(type) /\ SameButCurrent(queue, queue') /\ out' = out
    BY <1>1, <1>8, AnnouncementSays
  <2>2. QED
    BY <1>1, <1>2, <2>1, PhasedQuiet DEF SameAsking, SameButCurrent, QuietOut
<1>9. CASE ReceiveGetEmpty
  <2>1. Receive("GetEmpty") /\ queue' = queue /\ out' = out
    BY <1>9 DEF ReceiveGetEmpty
  <2>2. QED
    BY <1>1, <1>2, <2>1, PhasedQuiet DEF SameAsking, QuietOut
<1>10. CASE ReceiveHeader \/ ReceiveBody
  <2>1. PICK type \in Carried : Receive(type) /\ SameButCurrent(queue, queue') /\ out' = out
    BY <1>1, <1>10, ContentsSay
  <2>2. QED
    BY <1>1, <1>2, <2>1, PhasedQuiet DEF SameAsking, SameButCurrent, QuietOut, Carried
<1>11. QED
  BY <1>3, <1>4, <1>5, <1>6, <1>7, <1>8, <1>9, <1>10 DEF Reading

LEMMA BrokerConsumesPhased == ASSUME Ordered, Phased, BrokerConsumes PROVE Phased'
<1> SUFFICES ASSUME Calm'
             PROVE  InPhase(queue.consuming, queue.consumeRequested, queue.consumerTag, out, in,
                            broker.consumers)'
  BY DEF Phased
<1>1. PICK tag \in ConsumerTags \ broker.consumers :
         /\ BrokerTakes("Consume")
         /\ broker'.consumers = broker.consumers \cup {tag}
         /\ \E f \in InFrames : f.type = "ConsumeOk" /\ f.consumer = tag /\ in' = Append(in, f)
  BY OrderedSays, BrokerConsumesSays
<1>2. /\ out # <<>> /\ out' = Tail(out) /\ BrokerUnchanged
      /\ out[1].type = "Consume" /\ 1 \in DOMAIN out
  BY <1>1, OrderedSays, TakesSays
<1>3. PICK f \in InFrames : f.type = "ConsumeOk" /\ f.consumer = tag /\ in' = Append(in, f)
  BY <1>1
<1>4. out \in Seq(OutFrames) /\ in \in Seq(InFrames) /\ UNCHANGED <<queue, happened>>
  BY <1>2, OrderedSays, BrokerKeeps
<1>5. InPhase(queue.consuming, queue.consumeRequested, queue.consumerTag, out, in,
              broker.consumers)
  BY <1>4 DEF Phased, Calm
<1>6. HasType(out, "Consume")
  BY <1>2 DEF HasType
<1>7. /\ Asked(out, in, broker.consumers) /\ queue.consumeRequested /\ ~queue.consuming
      /\ broker.consumers = {}
  BY <1>2, <1>5, <1>6 DEF InPhase, Unasked, Asked, Serving, Asking
<1>8. Asked(Tail(out), Append(in, f), {f.consumer})
  BY <1>2, <1>3, <1>4, <1>7, PhaseConsume
<1>9. Asked(out', in', broker'.consumers)
  BY <1>1, <1>2, <1>3, <1>7, <1>8
<1>10. QED
  BY <1>4, <1>7, <1>9 DEF InPhase

LEMMA BrokerCancelsPhased == ASSUME Ordered, Phased, BrokerCancels PROVE Phased'
<1> SUFFICES ASSUME Calm'
             PROVE  InPhase(queue.consuming, queue.consumeRequested, queue.consumerTag, out, in,
                            broker.consumers)'
  BY DEF Phased
<1>1. /\ BrokerTakes("Cancel")
      /\ broker'.consumers = broker.consumers \ {out[1].consumer}
      /\ \/ in' = in
         \/ \E f \in InFrames : /\ f.type = "CancelOk" /\ f.consumer = out[1].consumer
                                /\ in' = Append(in, f)
  BY OrderedSays, BrokerCancelsSays
<1>2. /\ out # <<>> /\ out' = Tail(out) /\ BrokerUnchanged
      /\ out[1].type = "Cancel" /\ 1 \in DOMAIN out
  BY <1>1, OrderedSays, TakesSays
<1>3. out \in Seq(OutFrames) /\ in \in Seq(InFrames) /\ UNCHANGED <<queue, happened>>
  BY <1>2, OrderedSays, BrokerKeeps
<1>4. in' \in Seq(InFrames)
  BY <1>1, <1>3, AppendEntries
<1>5. InPhase(queue.consuming, queue.consumeRequested, queue.consumerTag, out, in,
              broker.consumers)
  BY <1>3 DEF Phased, Calm
<1>6. HasType(out, "Cancel")
  BY <1>2 DEF HasType
<1>7. /\ Serving(queue.consumerTag, out, in, broker.consumers)
      /\ ~queue.consumeRequested /\ queue.consuming
  BY <1>2, <1>5, <1>6 DEF InPhase, Unasked, Asked, Asking
<1>8. out[1].consumer = queue.consumerTag /\ broker.consumers \subseteq {queue.consumerTag}
  BY <1>2, <1>7 DEF Serving
<1>9. broker'.consumers = {}
  BY <1>1, <1>8
<1>10. Serving(queue.consumerTag, Tail(out), in', {})
  BY <1>1, <1>2, <1>3, <1>4, <1>7, <1>8, PhaseCancelled
<1>11. Serving(queue'.consumerTag, out', in', broker'.consumers)
  BY <1>2, <1>3, <1>9, <1>10
<1>12. QED
  BY <1>3, <1>7, <1>11 DEF InPhase

\* Actions of the broker that are not about the consumer.
LEMMA BrokerQuiet ==
    ASSUME Typed, Phased, UNCHANGED <<queue, happened>>, QuietOut, QuietIn,
           broker'.consumers \subseteq broker.consumers
    PROVE  Phased'
  BY PhasedQuiet DEF SameAsking

LEMMA BrokerReadsPhased == ASSUME Ordered, Phased, BrokerReads PROVE Phased'
<1>1. Typed
  BY OrderedSays
<1>2. ASSUME NEW type, BrokerTakes(type) PROVE QuietOut /\ UNCHANGED <<queue, happened>>
  BY <1>1, <1>2, TakesSays, BrokerKeeps DEF QuietOut
<1>3. CASE BrokerOpens
  <2>1. /\ BrokerTakes("Open") /\ broker'.consumers = broker.consumers
        /\ \E f \in InFrames : f.type = "OpenOk" /\ in' = Append(in, f)
    BY <1>1, <1>3, BrokerOpensSays
  <2>2. QuietIn
    BY <2>1 DEF QuietIn, Telling
  <2>3. QED
    BY <1>1, <1>2, <2>1, <2>2, BrokerQuiet
<1>4. CASE BrokerGets
  <2>1. /\ BrokerTakes("Get")
        /\ \/ \E f : Noted(f) /\ f.type = "GetOk"
           \/ broker' = broker /\ \E f \in InFrames : f.type = "GetEmpty" /\ in' = Append(in, f)
    BY <1>1, <1>4, BrokerGetsSays
  <2>2. QuietIn /\ broker'.consumers = broker.consumers
    <3>1. CASE \E f : Noted(f) /\ f.type = "GetOk"
      BY <3>1 DEF Noted, QuietIn
    <3>2. CASE broker' = broker /\ \E f \in InFrames : f.type = "GetEmpty" /\ in' = Append(in, f)
      BY <3>2 DEF QuietIn, Telling
    <3>3. QED
      BY <2>1, <3>1, <3>2
  <2>3. QED
    BY <1>1, <1>2, <2>1, <2>2, BrokerQuiet
<1>5. CASE BrokerSettles
  <2>1. PICK type \in {"Ack", "Reject"} :
           /\ BrokerTakes(type)
           /\ Shuts \/ (in' = in /\ broker'.consumers = broker.consumers)
    BY <1>1, <1>5, BrokerSettlesSays
  <2>2. QuietIn /\ broker'.consumers \subseteq broker.consumers
    BY <2>1 DEF QuietIn, Shuts, Telling
  <2>3. QED
    BY <1>1, <1>2, <2>1, <2>2, BrokerQuiet
<1>6. CASE BrokerAnswersClose
  <2>1. /\ BrokerTakes("Close") /\ broker'.consumers = {}
        /\ \E f \in InFrames : f.type = "CloseOk" /\ in' = Append(in, f)
    BY <1>6, BrokerAnswersCloseSays
  <2>2. QuietIn
    BY <2>1 DEF QuietIn, Telling
  <2>3. QED
    BY <1>1, <1>2, <2>1, <2>2, BrokerQuiet
<1>7. CASE BrokerWaitsForCloseOk
  <2>1. PICK type \in {"Open", "Consume", "Cancel", "Get", "Ack", "Reject", "CloseOk"} :
           BrokerTakes(type) /\ broker'.consumers = {} /\ in' = in
    BY <1>7, BrokerWaitsSays
  <2>2. QuietIn
    BY <2>1 DEF QuietIn
  <2>3. QED
    BY <1>1, <1>2, <2>1, <2>2, BrokerQuiet
<1>8. QED
  BY <1>3, <1>4, <1>5, <1>6, <1>7, BrokerConsumesPhased, BrokerCancelsPhased, LinkPhased
     DEF BrokerReads

LEMMA InitPhased == Init => Phased
<1> SUFFICES ASSUME Init PROVE Phased
  OBVIOUS
<1>1. /\ ~queue.consuming /\ ~queue.consumeRequested /\ out = <<>> /\ in = <<>>
      /\ broker.consumers = {}
  BY DEF Init
<1>2. QED
  BY <1>1, PhaseEmpty DEF Phased

LEMMA NextPhased ==
    ASSUME Ordered, Phased, [Next]_vars PROVE Phased'
<1>1. Typed
  BY OrderedSays
<1>2. CASE BrokerDelivers
  <2> SUFFICES ASSUME Calm'
               PROVE  InPhase(queue.consuming, queue.consumeRequested, queue.consumerTag, out, in,
                              broker.consumers)'
    BY DEF Phased
  <2>1. PICK f : Noted(f) /\ f.type = "Deliver" /\ f.consumer \in broker.consumers
    BY <1>1, <1>2, BrokerDeliversSays
  <2>2. /\ out' = out /\ UNCHANGED <<queue, happened>>
        /\ SentAfter(in, in', f) /\ broker'.consumers = broker.consumers
    BY <1>1, <1>2, <2>1, BrokerDeliversSays, BrokerKeeps DEF Noted
  <2>3. InPhase(queue.consuming, queue.consumeRequested, queue.consumerTag, out, in,
                broker.consumers)
    BY <2>2 DEF Phased, Calm
  <2>4. InPhase(queue.consuming, queue.consumeRequested, queue.consumerTag, out, in',
                broker.consumers)
    BY <2>1, <2>2, <2>3, PhaseDeliver
  <2>5. QED
    BY <2>2, <2>4
<1>3. CASE BrokerClosesChannel
  <2>1. Shuts /\ UNCHANGED <<queue, out, happened>>
    BY <1>1, <1>3, BrokerClosesChannelSays
  <2>2. QuietIn /\ QuietOut /\ broker'.consumers \subseteq broker.consumers
    BY <2>1 DEF Shuts, QuietIn, QuietOut, Telling
  <2>3. QED
    BY <1>1, <2>1, <2>2, BrokerQuiet
<1>4. CASE UNCHANGED vars
  BY <1>4 DEF Phased, Calm, vars
<1>5. QED
  BY <1>2, <1>3, <1>4, UserPhased, LinkPhased, ReadingPhased, BrokerReadsPhased DEF Next

LEMMA PhasedConsumes == Ordered /\ Phased => ConsumeSentOnce
<1> SUFFICES ASSUME Ordered, Phased, Calm, out # <<>>, Head(out).type = "Consume"
             PROVE  broker.consumers = {}
  BY DEF ConsumeSentOnce, Calm
<1>1. Head(out) = out[1] /\ 1 \in DOMAIN out
  BY OrderedSays, TailEntries
<1>2. HasType(out, "Consume")
  BY <1>1 DEF HasType
<1>3. QED
  BY <1>1, <1>2 DEF Phased, InPhase, Unasked, Asked, Serving, Asking

-----------------------------------------------------------------------------
(* A queue that consumes is served.  `l` is the connection, `ch` the       *)
(* broker's end of the channel and `C` its consumers, `op`, `con` and      *)
(* `tag` are fields of the queue.                                          *)

Steady == happened \cap {"noWait", "retag", "reset", "reopen"} = {}

\* Behind place i the news that the consumer `tag` is gone are under way.
EndsIt(s, i, tag) ==
    \E j \in DOMAIN s : j > i /\ (s[j].type \in Ends \/ (s[j].type = "CancelOk" /\ s[j].consumer = tag))

\* A channel that is open at the broker is open for the queue, now or soon.
OpenIsKnown(op, ch, s) ==
    ch = "open" => HasType(s, "OpenOk") \/ (op /\ \A i \in DOMAIN s : s[i].type \notin Ends)

\* The answer to a consume is read before the end of its channel.
AnswersInTime(op, s) ==
    \A i \in DOMAIN s : s[i].type = "ConsumeOk" =>
        op /\ \A j \in DOMAIN s : j < i => s[j].type \notin Ends

\* The channel that was closed while the queue consumes stays closed.
NotReopened(con, ch, o, s) == con => NoLateOpen(ch, o) /\ ~HasType(s, "OpenOk")

AnswersServed(s, C) ==
    \A i \in DOMAIN s : s[i].type = "ConsumeOk" =>
        s[i].consumer \in C \/ EndsIt(s, i, s[i].consumer)

QueueServed(l, op, con, tag, s, C) ==
    l = "up" /\ op /\ con => tag \in C \/ EndsIt(s, 0, tag)

CancelsAnswered(o) == \A k \in DOMAIN o : o[k].type = "Cancel" => ~o[k].noWait

Kept(l, op, con, tag, o, s, ch, C) ==
    /\ OpenIsKnown(op, ch, s)
    /\ AnswersInTime(op, s)
    /\ NotReopened(con, ch, o, s)
    /\ AnswersServed(s, C)
    /\ QueueServed(l, op, con, tag, s, C)
    /\ CancelsAnswered(o)

AllKept ==
    Steady => Kept(link, queue.opened, queue.consuming, queue.consumerTag, out, in,
                   broker.channel, broker.consumers)

LEMMA LateTail ==
    ASSUME NEW ch, NEW o \in Seq(OutFrames), o # <<>>, NoLateOpen(ch, o)
    PROVE  /\ NoLateOpen(ch, Tail(o))
           /\ o[1].type \in Ends => \A c : NoLateOpen(c, Tail(o))
<1> DEFINE p == Tail(o)
<1>1. /\ \A i \in DOMAIN p : i \in Int /\ i >= 1 /\ i + 1 \in DOMAIN o /\ p[i] = o[i + 1]
      /\ 1 \in DOMAIN o
  BY ShiftIs
<1> HIDE DEF p
<1>2. NoLateOpen(ch, p)
  <2> SUFFICES ASSUME NEW j \in DOMAIN p, p[j].type = "Open"
               PROVE  ch # "closed" /\ \A i \in DOMAIN p : i < j => p[i].type \notin Ends
    BY DEF NoLateOpen
  <2>1. j \in Int /\ j + 1 \in DOMAIN o /\ o[j + 1].type = "Open"
    BY <1>1
  <2>2. ch # "closed" /\ \A i \in DOMAIN o : i < j + 1 => o[i].type \notin Ends
    BY <2>1 DEF NoLateOpen
  <2>3. ASSUME NEW i \in DOMAIN p, i < j PROVE p[i].type \notin Ends
    <3>1. i \in Int /\ i + 1 \in DOMAIN o /\ p[i] = o[i + 1]
      BY <1>1
    <3>2. i + 1 < j + 1
      BY <2>1, <2>3, <3>1
    <3>3. QED
      BY <2>2, <3>1, <3>2
  <2>4. QED
    BY <2>2, <2>3
<1>3. ASSUME o[1].type \in Ends, NEW j \in DOMAIN p PROVE p[j].type # "Open"
  <2>1. j + 1 \in DOMAIN o /\ p[j] = o[j + 1] /\ 1 < j + 1
    BY <1>1
  <2>2. QED
    BY <1>1, <1>3, <2>1 DEF NoLateOpen
<1>4. o[1].type \in Ends => \A c : NoLateOpen(c, p)
  BY <1>3 DEF NoLateOpen
<1>5. QED
  BY <1>2, <1>4 DEF p

LEMMA LateAppend ==
    ASSUME NEW ch, NEW o \in Seq(OutFrames), NoLateOpen(ch, o), NEW f \in OutFrames,
           f.type # "Open"
    PROVE  NoLateOpen(ch, Append(o, f))
<1> DEFINE p == Append(o, f)
           n == Len(o) + 1
<1>1. \A i \in DOMAIN p : i \in Int /\ ((i \in DOMAIN o /\ p[i] = o[i] /\ i < n) \/ (i = n /\ p[i] = f))
  BY GrowthIs
<1> HIDE DEF p, n
<1>2. SUFFICES ASSUME NEW j \in DOMAIN p, p[j].type = "Open"
               PROVE  ch # "closed" /\ \A i \in DOMAIN p : i < j => p[i].type \notin Ends
  BY DEF NoLateOpen, p
<1>3. j \in DOMAIN o /\ o[j].type = "Open" /\ j < n /\ j \in Int
  BY <1>1, <1>2
<1>4. \A i \in DOMAIN p : i < j => i \in DOMAIN o /\ p[i] = o[i]
  BY <1>1, <1>3
<1>5. QED
  BY <1>3, <1>4 DEF NoLateOpen

LEMMA CancelsTail ==
    ASSUME NEW o \in Seq(OutFrames), o # <<>>, CancelsAnswered(o)
    PROVE  CancelsAnswered(Tail(o))
<1> DEFINE p == Tail(o)
<1>1. \A i \in DOMAIN p : i + 1 \in DOMAIN o /\ p[i] = o[i + 1]
  BY ShiftIs
<1> HIDE DEF p
<1>2. QED
  BY <1>1 DEF CancelsAnswered, p

LEMMA CancelsAppend ==
    ASSUME NEW o \in Seq(OutFrames), CancelsAnswered(o), NEW f \in OutFrames,
           f.type = "Cancel" => ~f.noWait
    PROVE  CancelsAnswered(Append(o, f))
<1> DEFINE p == Append(o, f)
           n == Len(o) + 1
<1>1. \A i \in DOMAIN p : i \in Int /\ ((i \in DOMAIN o /\ p[i] = o[i] /\ i < n) \/ (i = n /\ p[i] = f))
  BY GrowthIs
<1> HIDE DEF p, n
<1>2. QED
  BY <1>1 DEF CancelsAnswered, p

\* The queue sends a frame.
LEMMA KeptSend ==
    ASSUME NEW l, NEW op, NEW con, NEW tag, NEW o \in Seq(OutFrames), NEW s, NEW ch, NEW C,
           Kept(l, op, con, tag, o, s, ch, C), NEW f \in OutFrames,
           f.type = "Open" => ~con, f.type = "Cancel" => ~f.noWait
    PROVE  Kept(l, op, con, tag, Append(o, f), s, ch, C)
<1>1. CancelsAnswered(Append(o, f))
  BY CancelsAppend DEF Kept
<1>2. NotReopened(con, ch, Append(o, f), s)
  BY LateAppend DEF Kept, NotReopened
<1>3. QED
  BY <1>1, <1>2 DEF Kept

\* Without a connection there is nothing to keep.
LEMMA KeptSilent ==
    ASSUME NEW l, NEW op, NEW con, NEW tag, l # "up"
    PROVE  Kept(l, op, con, tag, <<>>, <<>>, "closed", {})
<1>1. DOMAIN <<>> = {}
  OBVIOUS
<1>2. QED
  BY <1>1 DEF Kept, OpenIsKnown, AnswersInTime, NotReopened, AnswersServed, QueueServed,
              CancelsAnswered, NoLateOpen, HasType

\* News of an end are still there when something else was read.
LEMMA EndsTail ==
    ASSUME NEW s \in Seq(InFrames), s # <<>>, NEW tag
    PROVE  /\ \A i \in Int : i >= 1 /\ EndsIt(s, i, tag) => EndsIt(Tail(s), i - 1, tag)
           /\ /\ EndsIt(s, 0, tag) /\ s[1].type \notin Ends
              /\ ~(s[1].type = "CancelOk" /\ s[1].consumer = tag)
              => EndsIt(Tail(s), 0, tag)
<1> DEFINE t == Tail(s)
<1>1. /\ \A i \in DOMAIN t : i \in Int /\ i >= 1 /\ i + 1 \in DOMAIN s /\ t[i] = s[i + 1]
      /\ \A i \in DOMAIN s : i = 1 \/ (i - 1 \in DOMAIN t /\ t[i - 1] = s[i])
      /\ \A i \in DOMAIN s : i \in Int /\ i >= 1
  BY ShiftIs
<1> HIDE DEF t
<1>2. ASSUME NEW i \in Int, i >= 1, EndsIt(s, i, tag) PROVE EndsIt(t, i - 1, tag)
  <2>1. PICK j \in DOMAIN s : /\ j > i
                              /\ s[j].type \in Ends \/ (s[j].type = "CancelOk" /\ s[j].consumer = tag)
    BY <1>2 DEF EndsIt
  <2>2. j \in Int /\ j > i /\ i \in Int /\ i >= 1
    BY <1>1, <1>2, <2>1
  <2>3. j # 1 /\ j - 1 > i - 1
    BY <2>2
  <2>4. j - 1 \in DOMAIN t /\ t[j - 1] = s[j]
    BY <1>1, <2>3
  <2>5. QED
    BY <2>1, <2>3, <2>4 DEF EndsIt
<1>3. ASSUME EndsIt(s, 0, tag), s[1].type \notin Ends,
             ~(s[1].type = "CancelOk" /\ s[1].consumer = tag)
      PROVE  EndsIt(t, 0, tag)
  <2>1. PICK j \in DOMAIN s : s[j].type \in Ends \/ (s[j].type = "CancelOk" /\ s[j].consumer = tag)
    BY <1>3 DEF EndsIt
  <2>2. j # 1
    BY <1>3, <2>1
  <2>3. j - 1 \in DOMAIN t /\ t[j - 1] = s[j]
    BY <1>1, <2>2
  <2>4. j - 1 > 0
    BY <1>1, <2>3
  <2>5. QED
    BY <2>1, <2>3, <2>4 DEF EndsIt
<1>4. QED
  BY <1>2, <1>3 DEF t

\* What the rest of the frames keeps whatever is read.
LEMMA AnswersTail ==
    ASSUME NEW op, NEW C, NEW s \in Seq(InFrames), s # <<>>,
           AnswersInTime(op, s), AnswersServed(s, C)
    PROVE  /\ AnswersInTime(op, Tail(s)) /\ AnswersServed(Tail(s), C)
           /\ s[1].type \in Ends => ~HasType(Tail(s), "ConsumeOk")
           /\ \A type : HasType(Tail(s), type) => HasType(s, type)
<1> DEFINE t == Tail(s)
<1>1. /\ \A i \in DOMAIN t : i \in Int /\ i >= 1 /\ i + 1 \in DOMAIN s /\ t[i] = s[i + 1]
      /\ 1 \in DOMAIN s
  BY ShiftIs
<1>2. \A tag : \A i \in Int : i >= 1 /\ EndsIt(s, i, tag) => EndsIt(t, i - 1, tag)
  BY EndsTail
<1> HIDE DEF t
<1>3. ASSUME NEW i \in DOMAIN t, t[i].type = "ConsumeOk"
      PROVE  /\ op /\ \A j \in DOMAIN t : j < i => t[j].type \notin Ends
             /\ t[i].consumer \in C \/ EndsIt(t, i, t[i].consumer)
             /\ s[1].type \notin Ends
  <2>1. i \in Int /\ i >= 1 /\ i + 1 \in DOMAIN s /\ t[i] = s[i + 1]
    BY <1>1
  <2>2. op /\ \A j \in DOMAIN s : j < i + 1 => s[j].type \notin Ends
    BY <1>3, <2>1 DEF AnswersInTime
  <2>3. ASSUME NEW j \in DOMAIN t, j < i PROVE t[j].type \notin Ends
    <3>1. j \in Int /\ j + 1 \in DOMAIN s /\ t[j] = s[j + 1]
      BY <1>1
    <3>2. j + 1 < i + 1
      BY <2>1, <2>3, <3>1
    <3>3. QED
      BY <2>2, <3>1, <3>2
  <2>4. t[i].consumer \in C \/ EndsIt(s, i + 1, t[i].consumer)
    BY <1>3, <2>1 DEF AnswersServed
  <2>5. i + 1 \in Int /\ i + 1 >= 1 /\ (i + 1) - 1 = i /\ 1 < i + 1
    BY <2>1
  <2>6. EndsIt(s, i + 1, t[i].consumer) => EndsIt(t, (i + 1) - 1, t[i].consumer)
    BY <1>2, <2>5
  <2>7. t[i].consumer \in C \/ EndsIt(t, i, t[i].consumer)
    BY <2>4, <2>5, <2>6
  <2>8. s[1].type \notin Ends
    BY <1>1, <2>2, <2>5
  <2>9. QED
    BY <2>2, <2>3, <2>7, <2>8
<1>4. AnswersInTime(op, t) /\ AnswersServed(t, C) /\ (s[1].type \in Ends => ~HasType(t, "ConsumeOk"))
  BY <1>3 DEF AnswersInTime, AnswersServed, HasType
<1>5. \A type : HasType(t, type) => HasType(s, type)
  BY <1>1 DEF HasType
<1>6. QED
  BY <1>4, <1>5 DEF t

\* The queue reads a frame that ends and opens nothing.
LEMMA KeptRead ==
    ASSUME NEW l, NEW op, NEW con, NEW tag, NEW o, NEW s \in Seq(InFrames), s # <<>>, NEW ch,
           NEW C, Kept(l, op, con, tag, o, s, ch, C),
           s[1].type \notin Ends, s[1].type # "OpenOk",
           NEW stays, stays => con /\ ~(s[1].type = "CancelOk" /\ s[1].consumer = tag),
           NEW label, stays => label = tag
    PROVE  Kept(l, op, stays, label, o, Tail(s), ch, C)
<1> DEFINE t == Tail(s)
<1>1. AnswersInTime(op, t) /\ AnswersServed(t, C) /\ \A type : HasType(t, type) => HasType(s, type)
  BY AnswersTail DEF Kept
<1>2. \A i \in DOMAIN t : i + 1 \in DOMAIN s /\ t[i] = s[i + 1]
  BY ShiftIs
<1>3. HasType(s, "OpenOk") => HasType(t, "OpenOk")
  BY HasTail
<1>4. /\ EndsIt(s, 0, tag) /\ ~(s[1].type = "CancelOk" /\ s[1].consumer = tag)
      => EndsIt(t, 0, tag)
  BY EndsTail
<1> HIDE DEF t
<1>5. OpenIsKnown(op, ch, t)
  BY <1>2, <1>3 DEF Kept, OpenIsKnown
<1>6. NotReopened(stays, ch, o, t)
  BY <1>1 DEF Kept, NotReopened
<1>7. QueueServed(l, op, stays, label, t, C)
  BY <1>4 DEF Kept, QueueServed
<1>8. QED
  BY <1>1, <1>5, <1>6, <1>7 DEF Kept, t

LEMMA KeptReadOpenOk ==
    ASSUME NEW l, NEW op, NEW con, NEW tag, NEW o, NEW s \in Seq(InFrames), s # <<>>, NEW ch,
           NEW C, Kept(l, op, con, tag, o, s, ch, C), Handshake(ch, op, o, s),
           s[1].type = "OpenOk"
    PROVE  Kept(l, TRUE, con, tag, o, Tail(s), ch, C)
<1> DEFINE t == Tail(s)
<1>1. AnswersInTime(op, t) /\ AnswersServed(t, C)
  BY AnswersTail DEF Kept
<1>2. /\ \A i \in DOMAIN t : i \in Int /\ i >= 1 /\ i + 1 \in DOMAIN s /\ t[i] = s[i + 1]
      /\ 1 \in DOMAIN s
  BY ShiftIs
<1> HIDE DEF t
<1>3. ~con
  BY <1>2 DEF Kept, NotReopened, HasType
<1>4. ASSUME ch = "open", NEW i \in DOMAIN t PROVE t[i].type \notin Ends
  <2>1. i + 1 \in DOMAIN s /\ t[i] = s[i + 1] /\ i + 1 > 1
    BY <1>2
  <2>2. s[i + 1].type # "CloseOk"
    BY <1>2, <2>1 DEF Handshake, OpenOkInOrder
  <2>3. s[i + 1].type # "Close"
    BY <1>4, <2>1 DEF Handshake, ClosesOnce
  <2>4. QED
    BY <2>1, <2>2, <2>3 DEF Ends
<1>5. OpenIsKnown(TRUE, ch, t) /\ AnswersInTime(TRUE, t)
  BY <1>1, <1>4 DEF OpenIsKnown, AnswersInTime
<1>6. NotReopened(con, ch, o, t) /\ QueueServed(l, TRUE, con, tag, t, C)
  BY <1>3 DEF NotReopened, QueueServed
<1>7. QED
  BY <1>1, <1>5, <1>6 DEF Kept, t

LEMMA KeptReadEnd ==
    ASSUME NEW l, NEW op, NEW con, NEW tag, NEW o, NEW s \in Seq(InFrames), s # <<>>, NEW ch,
           NEW C, Kept(l, op, con, tag, o, s, ch, C), Handshake(ch, op, o, s),
           s[1].type \in Ends
    PROVE  Kept(l, FALSE, con, tag, o, Tail(s), ch, C)
<1> DEFINE t == Tail(s)
<1>1. /\ AnswersServed(t, C) /\ ~HasType(t, "ConsumeOk")
      /\ \A type : HasType(t, type) => HasType(s, type)
  BY AnswersTail DEF Kept
<1>2. 1 \in DOMAIN s
  BY ShiftIs
<1>3. HasType(s, "OpenOk") => HasType(t, "OpenOk")
  BY HasTail DEF Ends
<1> HIDE DEF t
<1>4. OpenIsKnown(FALSE, ch, t)
  BY <1>2, <1>3 DEF Kept, OpenIsKnown
<1>5. NotReopened(con, ch, o, t)
  BY <1>1 DEF Kept, NotReopened
<1>6. AnswersInTime(FALSE, t) /\ QueueServed(l, FALSE, con, tag, t, C)
  BY <1>1 DEF AnswersInTime, HasType, QueueServed
<1>7. QED
  BY <1>1, <1>4, <1>5, <1>6 DEF Kept, t

LEMMA KeptReadConsumeOk ==
    ASSUME NEW l, NEW op, NEW con, NEW tag, NEW o, NEW s \in Seq(InFrames), s # <<>>, NEW ch,
           NEW C, Kept(l, op, con, tag, o, s, ch, C), Handshake(ch, op, o, s),
           s[1].type = "ConsumeOk"
    PROVE  Kept(l, op, TRUE, s[1].consumer, o, Tail(s), ch, C)
<1> DEFINE t == Tail(s)
<1>1. /\ AnswersInTime(op, t) /\ AnswersServed(t, C)
      /\ \A type : HasType(t, type) => HasType(s, type)
  BY AnswersTail DEF Kept
<1>2. /\ \A i \in DOMAIN t : i + 1 \in DOMAIN s /\ t[i] = s[i + 1]
      /\ 1 \in DOMAIN s
  BY ShiftIs
<1>3. HasType(s, "OpenOk") => HasType(t, "OpenOk")
  BY HasTail
<1>4. EndsIt(s, 1, s[1].consumer) => EndsIt(t, 0, s[1].consumer)
  <2>1. \A i \in Int : i >= 1 /\ EndsIt(s, i, s[1].consumer) => EndsIt(t, i - 1, s[1].consumer)
    BY EndsTail
  <2> HIDE DEF t
  <2>2. 1 \in Int /\ 1 >= 1 /\ 1 - 1 = 0
    OBVIOUS
  <2>3. QED
    BY <2>1, <2>2
<1> HIDE DEF t
<1>5. op /\ (s[1].consumer \in C \/ EndsIt(s, 1, s[1].consumer))
  BY <1>2 DEF Kept, AnswersInTime, AnswersServed
<1>6. NoLateOpen(ch, o) /\ ~HasType(s, "OpenOk")
  BY <1>5 DEF Handshake, OpenedInOrder
<1>7. OpenIsKnown(op, ch, t)
  BY <1>2, <1>3 DEF Kept, OpenIsKnown
<1>8. NotReopened(TRUE, ch, o, t)
  BY <1>1, <1>6 DEF NotReopened
<1>9. QueueServed(l, op, TRUE, s[1].consumer, t, C)
  BY <1>4, <1>5 DEF QueueServed
<1>10. QED
  BY <1>1, <1>7, <1>8, <1>9 DEF Kept, t

\* The broker sends something: the frames there were come first.
Grown(s, t) ==
    /\ \A i \in DOMAIN s : i \in DOMAIN t /\ t[i] = s[i] /\ i \in Int /\ i >= 1
    /\ \A i \in DOMAIN t : i \in Int /\ (i \in DOMAIN s \/ (i > 0 /\ \A k \in DOMAIN s : k < i))

LEMMA KeptGrows ==
    ASSUME NEW l, NEW op, NEW con, NEW tag, NEW o, NEW s, NEW ch, NEW C,
           Kept(l, op, con, tag, o, s, ch, C),
           NEW p, NEW t, NEW after, NEW B, Grown(s, t),
           con => NoLateOpen(after, p) /\ ~HasType(t, "OpenOk"),
           CancelsAnswered(p),
           OpenIsKnown(op, after, t),
           \A i \in DOMAIN t : i \notin DOMAIN s /\ t[i].type = "ConsumeOk" =>
              /\ op /\ t[i].consumer \in B
              /\ \A j \in DOMAIN t : t[j].type \notin Ends,
           \A x \in C : x \in B \/ \E j \in DOMAIN t :
              /\ j \notin DOMAIN s
              /\ t[j].type \in Ends \/ (t[j].type = "CancelOk" /\ t[j].consumer = x)
    PROVE  Kept(l, op, con, tag, p, t, after, B)
<1>1. /\ \A i \in DOMAIN s : i \in DOMAIN t /\ t[i] = s[i] /\ i \in Int /\ i >= 1
      /\ \A i \in DOMAIN t : i \in Int /\ (i \in DOMAIN s \/ (i > 0 /\ \A k \in DOMAIN s : k < i))
  BY DEF Grown
<1>2. \A i, x : EndsIt(s, i, x) => EndsIt(t, i, x)
  BY <1>1 DEF EndsIt
<1>3. ASSUME NEW i, NEW x \in C, i = 0 \/ i \in DOMAIN s PROVE x \in B \/ EndsIt(t, i, x)
  <2>1. CASE x \notin B
    <3>1. PICK j \in DOMAIN t :
             /\ j \notin DOMAIN s
             /\ t[j].type \in Ends \/ (t[j].type = "CancelOk" /\ t[j].consumer = x)
      BY <2>1
    <3>2. j > i
      BY <1>1, <1>3, <3>1
    <3>3. QED
      BY <3>1, <3>2 DEF EndsIt
  <2>2. QED
    BY <2>1
<1>4. AnswersInTime(op, t)
  <2> SUFFICES ASSUME NEW i \in DOMAIN t, t[i].type = "ConsumeOk"
               PROVE  op /\ \A j \in DOMAIN t : j < i => t[j].type \notin Ends
    BY DEF AnswersInTime
  <2>1. CASE i \in DOMAIN s
    <3>1. op /\ \A j \in DOMAIN s : j < i => s[j].type \notin Ends
      BY <1>1, <2>1 DEF Kept, AnswersInTime
    <3>2. \A j \in DOMAIN t : j < i => j \in DOMAIN s /\ t[j] = s[j]
      BY <1>1, <2>1
    <3>3. QED
      BY <3>1, <3>2
  <2>2. QED
    BY <2>1
<1>5. AnswersServed(t, B)
  <2> SUFFICES ASSUME NEW i \in DOMAIN t, t[i].type = "ConsumeOk"
               PROVE  t[i].consumer \in B \/ EndsIt(t, i, t[i].consumer)
    BY DEF AnswersServed
  <2>1. CASE i \in DOMAIN s
    <3>1. t[i].consumer \in C \/ EndsIt(s, i, t[i].consumer)
      BY <1>1, <2>1 DEF Kept, AnswersServed
    <3>2. QED
      BY <1>2, <1>3, <2>1, <3>1
  <2>2. QED
    BY <2>1
<1>6. QueueServed(l, op, con, tag, t, B)
  BY <1>2, <1>3 DEF Kept, QueueServed
<1>7. NotReopened(con, after, p, t)
  BY DEF NotReopened
<1>8. QED
  BY <1>4, <1>5, <1>6, <1>7 DEF Kept

\* The user sends a frame, or sets a tag that is not in use.
LEMMA SendKept ==
    ASSUME Typed, AllKept, NEW f \in OutFrames, Send(f),
           f.type = "Open" => ~queue.consuming, f.type = "Cancel" => ~f.noWait,
           UNCHANGED <<link, in, broker>>,
           queue'.opened = queue.opened, queue'.consuming = queue.consuming,
           queue'.consumerTag = queue.consumerTag
    PROVE  Steady => AllKept'
<1> SUFFICES ASSUME Steady
             PROVE  Kept(link, queue.opened, queue.consuming, queue.consumerTag, out', in,
                         broker.channel, broker.consumers)
  BY DEF AllKept
<1>1. Kept(link, queue.opened, queue.consuming, queue.consumerTag, out, in, broker.channel,
           broker.consumers)
  BY DEF AllKept
<1>2. out \in Seq(OutFrames)
  BY TypedSays
<1>3. Kept(link, queue.opened, queue.consuming, queue.consumerTag, Append(out, f), in,
           broker.channel, broker.consumers)
  BY <1>1, <1>2, KeptSend
<1>4. QED
  BY <1>1, <1>3, SentOrNot

LEMMA SteadyBefore ==
    ASSUME happened \subseteq happened', Steady' PROVE Steady
  BY DEF Steady

LEMMA UserKept == ASSUME Ordered, AllKept, User PROVE AllKept'
<1>1. Typed
  BY OrderedSays
<1>2. SUFFICES ASSUME Steady' PROVE AllKept'
  BY DEF AllKept
<1>3. CASE Consume
  <2> DEFINE f == [type |-> "Consume", consumer |-> queue.consumerTag]
  <2>1. /\ f \in OutFrames /\ Send(f)
        /\ queue'.opened = queue.opened /\ queue'.consumerTag = queue.consumerTag
        /\ queue'.consuming = queue.consuming
        /\ UNCHANGED <<link, in, broker, happened>>
    BY <1>1, <1>3, ConsumeSays
  <2>2. f.type = "Consume"
    OBVIOUS
  <2> HIDE DEF f
  <2>3. Steady
    BY <1>2, <2>1 DEF Steady
  <2>4. QED
    BY <1>1, <1>2, <2>1, <2>2, <2>3, SendKept
<1>4. CASE Cancel
  <2>1. PICK noWait \in BOOLEAN :
           LET f == [type |-> "Cancel", consumer |-> queue.consumerTag, noWait |-> noWait]
           IN  /\ f \in OutFrames /\ Send(f)
               /\ noWait => "noWait" \in happened'
               /\ happened \subseteq happened'
               /\ UNCHANGED <<link, queue, in, broker>>
    BY <1>1, <1>4, CancelSays
  <2> DEFINE f == [type |-> "Cancel", consumer |-> queue.consumerTag, noWait |-> noWait]
  <2>2. /\ f \in OutFrames /\ Send(f) /\ (f.noWait => "noWait" \in happened')
        /\ happened \subseteq happened'
        /\ UNCHANGED <<link, queue, in, broker>>
        /\ f.type = "Cancel"
    BY <2>1
  <2> HIDE DEF f
  <2>3. Steady /\ ~f.noWait
    BY <1>2, <2>2 DEF Steady
  <2>4. QED
    BY <1>1, <1>2, <2>2, <2>3, SendKept
<1>5. CASE SetConsumerTag
  <2>1. /\ queue'.opened = queue.opened /\ queue'.consuming = queue.consuming
        /\ queue.consuming => "retag" \in happened'
        /\ happened \subseteq happened' /\ UNCHANGED <<link, out, in, broker>>
    BY <1>1, <1>5, SetConsumerTagSays
  <2>2. ~queue.consuming /\ Steady
    BY <1>2, <2>1 DEF Steady
  <2>3. Kept(link, queue.opened, queue.consuming, queue.consumerTag, out, in, broker.channel,
             broker.consumers)
    BY <2>2 DEF AllKept
  <2>4. Kept(link, queue.opened, queue.consuming, queue'.consumerTag, out, in, broker.channel,
             broker.consumers)
    BY <2>2, <2>3 DEF Kept, QueueServed
  <2>5. QED
    BY <2>1, <2>4 DEF AllKept
<1>6. CASE Simple
  <2>1. PICK f \in OutFrames :
           /\ Send(f) /\ f.type \in {"Get", "Close", "Open"}
           /\ f.type = "Open" => /\ link = "up"
                                 /\ queue.consuming \/ queue.consumeRequested => "reopen" \in happened'
           /\ happened \subseteq happened'
           /\ UNCHANGED <<link, queue, in, broker>>
    BY <1>1, <1>6, SimpleSays
  <2>2. Steady /\ (f.type = "Open" => ~queue.consuming)
    BY <1>2, <2>1 DEF Steady
  <2>3. QED
    BY <1>1, <1>2, <2>1, <2>2, SendKept
<1>7. ASSUME NEW delivery \in held, Ack(delivery) \/ Reject(delivery) PROVE AllKept'
  <2>1. PICK f \in OutFrames : f.type \in {"Ack", "Reject"} /\ Settle(delivery, f)
    BY <1>1, <1>7, SettledSays
  <2>2. Send(f) /\ happened \subseteq happened' /\ UNCHANGED <<link, queue, in, broker>>
    BY <1>1, <2>1, SettleSays
  <2>3. Steady
    BY <1>2, <2>2, SteadyBefore
  <2>4. QED
    BY <1>1, <1>2, <2>1, <2>2, <2>3, SendKept
<1>8. CASE Reset
  <2>1. /\ queue' # queue => "reset" \in happened'
        /\ happened \subseteq happened' /\ UNCHANGED <<link, out, in, broker>>
    BY <1>1, <1>8, ResetSays
  <2>2. queue' = queue /\ Steady
    BY <1>2, <2>1 DEF Steady
  <2>3. QED
    BY <2>1, <2>2 DEF AllKept
<1>9. QED
  BY <1>3, <1>4, <1>5, <1>6, <1>7, <1>8 DEF User, Simple

LEMMA LinkKept == ASSUME Ordered, Link \/ BrokerRefuses PROVE AllKept'
<1>1. CASE LinkUp
  <2>1. link = "down"
    BY <1>1 DEF LinkUp
  <2>2. ~queue.consuming /\ ~queue.opened /\ in = <<>> /\ broker.channel = "closed"
    BY <2>1, OrderedSays DEF Idle
  <2>3. out' = <<[type |-> "Open"]>> /\ UNCHANGED <<queue, in, broker>>
    BY <1>1 DEF LinkUp, Contents
  <2>4. \A k \in DOMAIN out' : out'[k].type # "Cancel"
    BY <2>3
  <2>5. DOMAIN in' = {}
    BY <2>2, <2>3
  <2>6. Kept(link', queue'.opened, queue'.consuming, queue'.consumerTag, out', in',
             broker'.channel, broker'.consumers)
    BY <2>2, <2>3, <2>4, <2>5
       DEF Kept, OpenIsKnown, AnswersInTime, NotReopened, AnswersServed, QueueServed,
           CancelsAnswered
  <2>7. QED
    BY <2>6 DEF AllKept
<1>2. CASE SocketClosed
  <2>1. /\ link' = "down" /\ out' = <<>> /\ in' = <<>>
        /\ broker'.channel = "closed" /\ broker'.consumers = {}
    BY <1>2, OrderedSays, SocketClosedSays
  <2>2. Kept(link', queue'.opened, queue'.consuming, queue'.consumerTag, <<>>, <<>>,
             "closed", {})
    BY <2>1, KeptSilent
  <2>3. QED
    BY <2>1, <2>2 DEF AllKept
<1>3. CASE LinkCloses
  <2>1. /\ link' = "closing" /\ out' = <<>> /\ in' = <<>>
        /\ broker'.channel = "closed" /\ broker'.consumers = {}
    BY <1>3, OrderedSays, LinkClosesSays
  <2>2. Kept(link', queue'.opened, queue'.consuming, queue'.consumerTag, <<>>, <<>>,
             "closed", {})
    BY <2>1, KeptSilent
  <2>3. QED
    BY <2>1, <2>2 DEF AllKept
<1>4. QED
  BY <1>1, <1>2, <1>3 DEF Link, LinkLost, BrokerRefuses

LEMMA ReadsKept ==
    ASSUME Typed, AllKept, NEW type, Receive(type), type \notin Ends, type # "OpenOk",
           out' = out, queue'.opened = queue.opened,
           queue'.consuming => /\ queue.consuming /\ queue'.consumerTag = queue.consumerTag
                               /\ ~(type = "CancelOk" /\ in[1].consumer = queue.consumerTag)
    PROVE  AllKept'
<1> SUFFICES ASSUME Steady' PROVE AllKept'
  BY DEF AllKept
<1>1. /\ in \in Seq(InFrames) /\ in # <<>> /\ in' = Tail(in) /\ in[1].type = type
      /\ UNCHANGED <<link, broker, happened>>
  BY TypedSays, ReceiveSays
<1>2. Kept(link, queue.opened, queue.consuming, queue.consumerTag, out, in, broker.channel,
           broker.consumers)
  BY <1>1 DEF AllKept, Steady
<1>3. Kept(link, queue.opened, queue'.consuming, queue'.consumerTag, out, Tail(in),
           broker.channel, broker.consumers)
  BY <1>1, <1>2, KeptRead
<1>4. QED
  BY <1>1, <1>3 DEF AllKept

LEMMA ReadingKept == ASSUME Ordered, AllKept, Reading PROVE AllKept'
<1>1. Typed /\ Handshake(broker.channel, queue.opened, out, in)
  BY OrderedSays
<1>2. ASSUME NEW type, Receive(type)
      PROVE  /\ in \in Seq(InFrames) /\ in # <<>> /\ in' = Tail(in) /\ in[1].type = type
             /\ UNCHANGED <<link, broker, happened>>
             /\ Steady' => Kept(link, queue.opened, queue.consuming, queue.consumerTag, out, in,
                                broker.channel, broker.consumers)
  <2>1. /\ in \in Seq(InFrames) /\ in # <<>> /\ in' = Tail(in) /\ in[1].type = type
        /\ UNCHANGED <<link, broker, happened>>
    BY <1>1, <1>2, TypedSays, ReceiveSays
  <2>2. QED
    BY <2>1 DEF AllKept, Steady
<1>3. SUFFICES ASSUME Steady' PROVE AllKept'
  BY DEF AllKept
<1>4. CASE ReceiveOpenOk
  <2>1. /\ Receive("OpenOk") /\ queue'.opened = TRUE /\ SameButOpened(queue, queue')
        /\ out' = out
    BY <1>1, <1>4, ReceiveOpenOkSays
  <2>2. Kept(link, TRUE, queue.consuming, queue.consumerTag, out, Tail(in),
             broker.channel, broker.consumers)
    BY <1>1, <1>2, <1>3, <2>1, KeptReadOpenOk
  <2>3. QED
    BY <1>2, <2>1, <2>2 DEF AllKept, SameButOpened
<1>5. CASE ReceiveClose
  <2>1. /\ Receive("Close") /\ queue'.opened = FALSE /\ SameButOpened(queue, queue')
        /\ \E f \in OutFrames : f.type = "CloseOk" /\ out' = Append(out, f)
    BY <1>1, <1>5, ReceiveCloseSays
  <2>2. PICK f \in OutFrames : f.type = "CloseOk" /\ out' = Append(out, f)
    BY <2>1
  <2>3. Kept(link, FALSE, queue.consuming, queue.consumerTag, out, Tail(in),
             broker.channel, broker.consumers)
    BY <1>1, <1>2, <1>3, <2>1, KeptReadEnd DEF Ends
  <2>4. out \in Seq(OutFrames)
    BY <1>1, TypedSays
  <2>5. Kept(link, FALSE, queue.consuming, queue.consumerTag, Append(out, f), Tail(in),
             broker.channel, broker.consumers)
    BY <2>2, <2>3, <2>4, KeptSend
  <2>6. QED
    BY <1>2, <2>1, <2>2, <2>5 DEF AllKept, SameButOpened
<1>6. CASE ReceiveCloseOk
  <2>1. /\ Receive("CloseOk") /\ queue'.opened = FALSE /\ SameButOpened(queue, queue')
        /\ out' = out
    BY <1>1, <1>6, ReceiveCloseOkSays
  <2>2. Kept(link, FALSE, queue.consuming, queue.consumerTag, out, Tail(in),
             broker.channel, broker.consumers)
    BY <1>1, <1>2, <1>3, <2>1, KeptReadEnd DEF Ends
  <2>3. QED
    BY <1>2, <2>1, <2>2 DEF AllKept, SameButOpened
<1>7. CASE ReceiveConsumeOk
  <2>1. /\ Receive("ConsumeOk") /\ queue'.opened = queue.opened
        /\ queue'.consumerTag = in[1].consumer /\ queue'.consuming = TRUE /\ out' = out
    BY <1>1, <1>7, ReceiveConsumeOkSays
  <2>2. Kept(link, queue.opened, TRUE, in[1].consumer, out, Tail(in),
             broker.channel, broker.consumers)
    BY <1>1, <1>2, <1>3, <2>1, KeptReadConsumeOk
  <2>3. QED
    BY <1>2, <2>1, <2>2 DEF AllKept
<1>8. CASE ReceiveCancelOk
  <2>1. /\ Receive("CancelOk") /\ out' = out /\ queue'.opened = queue.opened
        /\ \/ queue'.consuming = FALSE
           \/ queue.consumerTag # in[1].consumer /\ queue' = queue
    BY <1>1, <1>8, ReceiveCancelOkSays
  <2>2. QED
    BY <1>1, <2>1, ReadsKept DEF Ends
<1>9. CASE ReceiveDeliver \/ ReceiveGetOk
  <2>1. PICK type \in {"Deliver", "GetOk"} :
           Receive(type) /\ SameButCurrent(queue, queue') /\ out' = out
    BY <1>1, <1>9, AnnouncementSays
  <2>2. QED
    BY <1>1, <2>1, ReadsKept DEF Ends, SameButCurrent
<1>10. CASE ReceiveGetEmpty
  <2>1. Receive("GetEmpty") /\ queue' = queue /\ out' = out
    BY <1>10 DEF ReceiveGetEmpty
  <2>2. QED
    BY <1>1, <2>1, ReadsKept DEF Ends
<1>11. CASE ReceiveHeader \/ ReceiveBody
  <2>1. PICK type \in Carried : Receive(type) /\ SameButCurrent(queue, queue') /\ out' = out
    BY <1>1, <1>11, ContentsSay
  <2>2. QED
    BY <1>1, <2>1, ReadsKept DEF Ends, SameButCurrent, Carried
<1>12. QED
  BY <1>4, <1>5, <1>6, <1>7, <1>8, <1>9, <1>10, <1>11 DEF Reading

LEMMA GrownSame == ASSUME NEW s \in Seq(InFrames) PROVE Grown(s, s)
  BY EntriesAre DEF Grown

LEMMA GrownAppend ==
    ASSUME NEW s \in Seq(InFrames), NEW f \in InFrames
    PROVE  /\ Grown(s, Append(s, f))
           /\ \A i \in DOMAIN Append(s, f) : i \in DOMAIN s \/ Append(s, f)[i] = f
           /\ \A i \in DOMAIN s : i \in DOMAIN Append(s, f) /\ Append(s, f)[i] = s[i]
           /\ \E i \in DOMAIN Append(s, f) : i \notin DOMAIN s /\ Append(s, f)[i] = f
<1> DEFINE t == Append(s, f)
           n == Len(s) + 1
<1>1. /\ \A i \in DOMAIN t : i \in Int /\ ((i \in DOMAIN s /\ t[i] = s[i] /\ i < n) \/ (i = n /\ t[i] = f))
      /\ \A i \in DOMAIN s : i \in DOMAIN t /\ t[i] = s[i] /\ i < n /\ i \in Int
      /\ n \in DOMAIN t /\ t[n] = f /\ n \in Int
  BY GrowthIs
<1>2. \A i \in DOMAIN s : i >= 1
  BY EntriesAre
<1>3. n >= 1
  BY EntriesAre
<1> HIDE DEF t, n
<1>4. \A i \in DOMAIN t : i \in DOMAIN s \/ (i > 0 /\ \A k \in DOMAIN s : k < i)
  <2> SUFFICES ASSUME NEW i \in DOMAIN t, i \notin DOMAIN s
               PROVE  i > 0 /\ \A k \in DOMAIN s : k < i
    OBVIOUS
  <2>1. i = n
    BY <1>1
  <2>2. QED
    BY <1>1, <1>3, <2>1
<1>5. Grown(s, t)
  BY <1>1, <1>2, <1>4 DEF Grown
<1>6. n \notin DOMAIN s
  BY <1>1
<1>7. QED
  BY <1>1, <1>5, <1>6 DEF t

LEMMA GrownNoted ==
    ASSUME NEW f, Noted(f)
    PROVE  /\ Grown(in, in')
           /\ \A i \in DOMAIN in' : i \in DOMAIN in \/ in'[i] = f \/ in'[i].type \in Carried
           /\ \A i \in DOMAIN in : i \in DOMAIN in' /\ in'[i] = in[i]
<1> DEFINE n == Len(in) + 1
<1>1. /\ \A i \in DOMAIN in : i \in DOMAIN in' /\ in'[i] = in[i] /\ i < n /\ i \in Int
      /\ \A i \in DOMAIN in' :
            /\ i \in Int
            /\ \/ i \in DOMAIN in /\ in'[i] = in[i] /\ i < n
               \/ i = n /\ in'[i] = f
               \/ i > n /\ in'[i].type \in Carried
      /\ n \in Int
  BY DEF Noted, SentAfter
<1>2. in \in Seq(InFrames) /\ \A i \in DOMAIN in : i >= 1
  BY EntriesAre DEF Noted
<1>3. n >= 1
  BY <1>2, EntriesAre
<1> HIDE DEF n
<1>4. \A i \in DOMAIN in' : i \in DOMAIN in \/ (i > 0 /\ \A k \in DOMAIN in : k < i)
  <2> SUFFICES ASSUME NEW i \in DOMAIN in', i \notin DOMAIN in
               PROVE  i > 0 /\ \A k \in DOMAIN in : k < i
    OBVIOUS
  <2>1. i \in Int /\ n \in Int /\ i >= n
    BY <1>1
  <2>2. i > 0
    BY <1>3, <2>1
  <2>3. ASSUME NEW k \in DOMAIN in PROVE k < i
    <3>1. k \in Int /\ k < n
      BY <1>1
    <3>2. QED
      BY <2>1, <3>1
  <2>4. QED
    BY <2>2, <2>3
<1>5. QED
  BY <1>1, <1>2, <1>4 DEF Grown

\* The broker sends nothing that is about the consumer or the channel.
LEMMA BrokerKept ==
    ASSUME Typed, AllKept, UNCHANGED <<link, queue, happened>>,
           out' = out \/ (out # <<>> /\ out' = Tail(out)),
           Grown(in, in'),
           \A i \in DOMAIN in' : i \in DOMAIN in
              \/ in'[i].type \notin {"OpenOk", "Close", "CloseOk", "ConsumeOk"},
           broker'.channel = broker.channel, broker'.consumers = broker.consumers
    PROVE  AllKept'
<1> SUFFICES ASSUME Steady'
             PROVE  Kept(link, queue.opened, queue.consuming, queue.consumerTag, out', in',
                         broker.channel, broker.consumers)
  BY DEF AllKept
<1>1. Kept(link, queue.opened, queue.consuming, queue.consumerTag, out, in, broker.channel,
           broker.consumers)
  BY DEF AllKept, Steady
<1>2. out \in Seq(OutFrames)
  BY TypedSays
<1>3. CancelsAnswered(out') /\ (NoLateOpen(broker.channel, out) => NoLateOpen(broker.channel, out'))
  BY <1>1, <1>2, CancelsTail, LateTail DEF Kept
<1>4. \A i \in DOMAIN in : i \in DOMAIN in' /\ in'[i] = in[i]
  BY DEF Grown
<1>5. (HasType(in, "OpenOk") => HasType(in', "OpenOk")) /\ (HasType(in', "OpenOk") => HasType(in, "OpenOk"))
  BY <1>4 DEF HasType
<1>6. OpenIsKnown(queue.opened, broker.channel, in')
  BY <1>1, <1>4, <1>5 DEF Kept, OpenIsKnown, Ends
<1>7. queue.consuming => NoLateOpen(broker.channel, out') /\ ~HasType(in', "OpenOk")
  BY <1>1, <1>3, <1>5 DEF Kept, NotReopened
<1>8. \A i \in DOMAIN in' : i \notin DOMAIN in => in'[i].type # "ConsumeOk"
  OBVIOUS
<1>9. QED
  BY <1>1, <1>3, <1>6, <1>7, <1>8, KeptGrows

\* The broker's end of the channel is over, and the queue is told.
LEMMA EndKept ==
    ASSUME Typed, AllKept, UNCHANGED <<link, queue, happened>>,
           out' = out \/ (out # <<>> /\ out' = Tail(out)),
           broker.consumers # {} => \E f \in InFrames : f.type \in Ends /\ in' = Append(in, f),
           in' = in \/ \E f \in InFrames : f.type \in Ends /\ in' = Append(in, f),
           broker'.channel # "open", broker'.consumers = {},
           broker'.channel = "closed" =>
              out # <<>> /\ out' = Tail(out) /\ out[1].type \in Ends
    PROVE  AllKept'
<1> SUFFICES ASSUME Steady'
             PROVE  Kept(link, queue.opened, queue.consuming, queue.consumerTag, out', in',
                         broker'.channel, {})
  BY DEF AllKept
<1>1. Kept(link, queue.opened, queue.consuming, queue.consumerTag, out, in, broker.channel,
           broker.consumers)
  BY DEF AllKept, Steady
<1>2. out \in Seq(OutFrames) /\ in \in Seq(InFrames)
  BY TypedSays
<1>3. CancelsAnswered(out')
  BY <1>1, <1>2, CancelsTail DEF Kept
<1>4. NoLateOpen(broker.channel, out) => NoLateOpen(broker'.channel, out')
  <2>1. CASE broker'.channel = "closed"
    BY <1>2, <2>1, LateTail
  <2>2. CASE broker'.channel # "closed"
    <3>1. NoLateOpen(broker.channel, out) => NoLateOpen(broker.channel, out')
      BY <1>2, LateTail
    <3>2. QED
      BY <2>2, <3>1 DEF NoLateOpen
  <2>3. QED
    BY <2>1, <2>2
<1>5. /\ Grown(in, in')
      /\ \A i \in DOMAIN in' : i \in DOMAIN in \/ in'[i].type \in Ends
      /\ \A i \in DOMAIN in : i \in DOMAIN in' /\ in'[i] = in[i]
      /\ broker.consumers # {} => \E i \in DOMAIN in' : i \notin DOMAIN in /\ in'[i].type \in Ends
  <2>1. ASSUME NEW f \in InFrames, f.type \in Ends, in' = Append(in, f)
        PROVE  /\ Grown(in, in')
               /\ \A i \in DOMAIN in' : i \in DOMAIN in \/ in'[i].type \in Ends
               /\ \A i \in DOMAIN in : i \in DOMAIN in' /\ in'[i] = in[i]
               /\ \E i \in DOMAIN in' : i \notin DOMAIN in /\ in'[i].type \in Ends
    <3>1. /\ Grown(in, in')
          /\ \A i \in DOMAIN in' : i \in DOMAIN in \/ in'[i] = f
          /\ \A i \in DOMAIN in : i \in DOMAIN in' /\ in'[i] = in[i]
          /\ \E i \in DOMAIN in' : i \notin DOMAIN in /\ in'[i] = f
      BY <1>2, <2>1, GrownAppend
    <3>2. QED
      BY <2>1, <3>1
  <2>2. ASSUME in' = in, broker.consumers = {}
        PROVE  /\ Grown(in, in')
               /\ \A i \in DOMAIN in' : i \in DOMAIN in \/ in'[i].type \in Ends
               /\ \A i \in DOMAIN in : i \in DOMAIN in' /\ in'[i] = in[i]
    BY <1>2, <2>2, GrownSame
  <2>3. QED
    BY <2>1, <2>2
<1>6. HasType(in', "OpenOk") => HasType(in, "OpenOk")
  BY <1>5 DEF HasType, Ends
<1>7. OpenIsKnown(queue.opened, broker'.channel, in')
  BY DEF OpenIsKnown
<1>8. queue.consuming => NoLateOpen(broker'.channel, out') /\ ~HasType(in', "OpenOk")
  BY <1>1, <1>4, <1>6 DEF Kept, NotReopened
<1>9. \A i \in DOMAIN in' : i \notin DOMAIN in => in'[i].type # "ConsumeOk"
  BY <1>5 DEF Ends
<1>10. \A x \in broker.consumers : \E j \in DOMAIN in' :
          j \notin DOMAIN in /\ in'[j].type \in Ends
  BY <1>5
<1>11. QED
  BY <1>1, <1>3, <1>5, <1>7, <1>8, <1>9, <1>10, KeptGrows

LEMMA BrokerOpensKept == ASSUME Ordered, AllKept, BrokerOpens PROVE AllKept'
<1>1. /\ BrokerTakes("Open") /\ broker.channel = "closed" /\ broker'.channel = "open"
      /\ broker'.consumers = broker.consumers
      /\ \E f \in InFrames : f.type = "OpenOk" /\ in' = Append(in, f)
  BY OrderedSays, BrokerOpensSays
<1>2. /\ out # <<>> /\ out' = Tail(out) /\ BrokerUnchanged /\ out[1].type = "Open"
      /\ 1 \in DOMAIN out /\ out \in Seq(OutFrames) /\ in \in Seq(InFrames)
  BY <1>1, OrderedSays, TakesSays
<1>3. UNCHANGED <<link, queue, happened>>
  BY <1>2, BrokerKeeps
<1> SUFFICES ASSUME Steady'
             PROVE  Kept(link, queue.opened, queue.consuming, queue.consumerTag, out', in',
                         broker'.channel, broker.consumers)
  BY <1>1, <1>3 DEF AllKept
<1>4. Kept(link, queue.opened, queue.consuming, queue.consumerTag, out, in, broker.channel,
           broker.consumers)
  BY <1>3 DEF AllKept, Steady
<1>5. ~queue.consuming
  BY <1>1, <1>2, <1>4 DEF Kept, NotReopened, NoLateOpen
<1>6. CancelsAnswered(out')
  BY <1>2, <1>4, CancelsTail DEF Kept
<1>7. PICK f \in InFrames : f.type = "OpenOk" /\ in' = Append(in, f)
  BY <1>1
<1>8. /\ Grown(in, in')
      /\ \A i \in DOMAIN in' : i \in DOMAIN in \/ in'[i] = f
      /\ \E i \in DOMAIN in' : i \notin DOMAIN in /\ in'[i] = f
  BY <1>2, <1>7, GrownAppend
<1>9. OpenIsKnown(queue.opened, broker'.channel, in')
  BY <1>7, <1>8 DEF OpenIsKnown, HasType
<1>10. \A i \in DOMAIN in' : i \notin DOMAIN in => in'[i].type # "ConsumeOk"
  BY <1>7, <1>8
<1>11. QED
  BY <1>4, <1>5, <1>6, <1>8, <1>9, <1>10, KeptGrows

LEMMA BrokerConsumesKept == ASSUME Ordered, AllKept, BrokerConsumes PROVE AllKept'
<1>1. PICK tag \in ConsumerTags \ broker.consumers :
         /\ BrokerTakes("Consume") /\ broker.channel = "open" /\ broker'.channel = "open"
         /\ broker'.consumers = broker.consumers \cup {tag}
         /\ \E f \in InFrames : f.type = "ConsumeOk" /\ f.consumer = tag /\ in' = Append(in, f)
  BY OrderedSays, BrokerConsumesSays
<1>2. /\ out # <<>> /\ out' = Tail(out) /\ BrokerUnchanged /\ out[1].type = "Consume"
      /\ 1 \in DOMAIN out /\ out \in Seq(OutFrames) /\ in \in Seq(InFrames)
  BY <1>1, OrderedSays, TakesSays
<1>3. UNCHANGED <<link, queue, happened>>
  BY <1>2, BrokerKeeps
<1> SUFFICES ASSUME Steady'
             PROVE  Kept(link, queue.opened, queue.consuming, queue.consumerTag, out', in',
                         broker'.channel, broker'.consumers)
  BY <1>3 DEF AllKept
<1>4. Kept(link, queue.opened, queue.consuming, queue.consumerTag, out, in, broker.channel,
           broker.consumers)
  BY <1>3 DEF AllKept, Steady
<1>5. ~HasType(in, "OpenOk")
  BY <1>2, OrderedSays DEF Handshake, OpenOkInOrder, HasType, Needs
<1>6. queue.opened /\ \A i \in DOMAIN in : in[i].type \notin Ends
  BY <1>1, <1>4, <1>5 DEF Kept, OpenIsKnown
<1>7. PICK f \in InFrames : f.type = "ConsumeOk" /\ f.consumer = tag /\ in' = Append(in, f)
  BY <1>1
<1>8. /\ Grown(in, in')
      /\ \A i \in DOMAIN in' : i \in DOMAIN in \/ in'[i] = f
      /\ \A i \in DOMAIN in : i \in DOMAIN in' /\ in'[i] = in[i]
  BY <1>2, <1>7, GrownAppend
<1>9. \A i \in DOMAIN in' : in'[i].type \notin Ends
  BY <1>6, <1>7, <1>8 DEF Ends
<1>10. CancelsAnswered(out')
  BY <1>2, <1>4, CancelsTail DEF Kept
<1>11. ~HasType(in', "OpenOk")
  BY <1>5, <1>7, <1>8 DEF HasType
<1>12. queue.consuming => NoLateOpen(broker'.channel, out') /\ ~HasType(in', "OpenOk")
  BY <1>1, <1>2, <1>4, <1>11, LateTail DEF Kept, NotReopened
<1>13. OpenIsKnown(queue.opened, broker'.channel, in')
  BY <1>6, <1>9 DEF OpenIsKnown
<1>14. \A i \in DOMAIN in' : i \notin DOMAIN in /\ in'[i].type = "ConsumeOk" =>
          queue.opened /\ in'[i].consumer \in broker'.consumers
          /\ \A j \in DOMAIN in' : in'[j].type \notin Ends
  BY <1>1, <1>6, <1>7, <1>8, <1>9
<1>15. \A x \in broker.consumers : x \in broker'.consumers
  BY <1>1
<1>16. QED
  BY <1>4, <1>8, <1>10, <1>12, <1>13, <1>14, <1>15, KeptGrows

LEMMA BrokerCancelsKept == ASSUME Ordered, AllKept, BrokerCancels PROVE AllKept'
<1>1. /\ BrokerTakes("Cancel") /\ broker.channel = "open" /\ broker'.channel = "open"
      /\ broker'.consumers = broker.consumers \ {out[1].consumer}
      /\ \/ out[1].noWait /\ in' = in
         \/ \E f \in InFrames : /\ f.type = "CancelOk" /\ f.consumer = out[1].consumer
                                /\ in' = Append(in, f)
  BY OrderedSays, BrokerCancelsSays
<1>2. /\ out # <<>> /\ out' = Tail(out) /\ BrokerUnchanged /\ out[1].type = "Cancel"
      /\ 1 \in DOMAIN out /\ out \in Seq(OutFrames) /\ in \in Seq(InFrames)
  BY <1>1, OrderedSays, TakesSays
<1>3. UNCHANGED <<link, queue, happened>>
  BY <1>2, BrokerKeeps
<1> SUFFICES ASSUME Steady'
             PROVE  Kept(link, queue.opened, queue.consuming, queue.consumerTag, out', in',
                         broker'.channel, broker'.consumers)
  BY <1>3 DEF AllKept
<1>4. Kept(link, queue.opened, queue.consuming, queue.consumerTag, out, in, broker.channel,
           broker.consumers)
  BY <1>3 DEF AllKept, Steady
<1>5. ~out[1].noWait
  BY <1>2, <1>4 DEF Kept, CancelsAnswered
<1>6. PICK f \in InFrames : /\ f.type = "CancelOk" /\ f.consumer = out[1].consumer
                            /\ in' = Append(in, f)
  BY <1>1, <1>5
<1>7. /\ Grown(in, in')
      /\ \A i \in DOMAIN in' : i \in DOMAIN in \/ in'[i] = f
      /\ \A i \in DOMAIN in : i \in DOMAIN in' /\ in'[i] = in[i]
      /\ \E i \in DOMAIN in' : i \notin DOMAIN in /\ in'[i] = f
  BY <1>2, <1>6, GrownAppend
<1>8. CancelsAnswered(out')
  BY <1>2, <1>4, CancelsTail DEF Kept
<1>9. (HasType(in', "OpenOk") => HasType(in, "OpenOk")) /\ (HasType(in, "OpenOk") => HasType(in', "OpenOk"))
  BY <1>6, <1>7 DEF HasType
<1>10. queue.consuming => NoLateOpen(broker'.channel, out') /\ ~HasType(in', "OpenOk")
  BY <1>1, <1>2, <1>4, <1>9, LateTail DEF Kept, NotReopened
<1>11. OpenIsKnown(queue.opened, broker'.channel, in')
  BY <1>1, <1>4, <1>6, <1>7, <1>9 DEF Kept, OpenIsKnown, Ends
<1>12. \A i \in DOMAIN in' : i \notin DOMAIN in => in'[i].type # "ConsumeOk"
  BY <1>6, <1>7
<1>13. \A x \in broker.consumers : x \in broker'.consumers \/ \E j \in DOMAIN in' :
          j \notin DOMAIN in /\ in'[j].type = "CancelOk" /\ in'[j].consumer = x
  BY <1>1, <1>6, <1>7
<1>14. QED
  BY <1>4, <1>7, <1>8, <1>10, <1>11, <1>12, <1>13, KeptGrows

LEMMA BrokerReadsKept == ASSUME Ordered, AllKept, BrokerReads PROVE AllKept'
<1>1. Typed
  BY OrderedSays
<1>2. ASSUME NEW type, BrokerTakes(type)
      PROVE  /\ out # <<>> /\ out' = Tail(out) /\ out[1].type = type
             /\ UNCHANGED <<link, queue, happened>>
  BY <1>1, <1>2, TakesSays, BrokerKeeps
<1>3. in \in Seq(InFrames) /\ Grown(in, in)
  BY <1>1, TypedSays, GrownSame
<1>4. ASSUME NEW f \in InFrames, in' = Append(in, f)
      PROVE  Grown(in, in') /\ \A i \in DOMAIN in' : i \in DOMAIN in \/ in'[i] = f
  BY <1>3, <1>4, GrownAppend
<1>5. CASE BrokerGets
  <2>1. /\ BrokerTakes("Get")
        /\ \/ \E f : Noted(f) /\ f.type = "GetOk"
           \/ broker' = broker /\ \E f \in InFrames : f.type = "GetEmpty" /\ in' = Append(in, f)
    BY <1>1, <1>5, BrokerGetsSays
  <2>2. CASE \E f : Noted(f) /\ f.type = "GetOk"
    <3>1. PICK f : Noted(f) /\ f.type = "GetOk"
      BY <2>2
    <3>2. /\ Grown(in, in')
          /\ \A i \in DOMAIN in' : i \in DOMAIN in
                \/ in'[i].type \notin {"OpenOk", "Close", "CloseOk", "ConsumeOk"}
      BY <3>1, GrownNoted DEF Carried
    <3>3. broker'.channel = broker.channel /\ broker'.consumers = broker.consumers
      BY <3>1 DEF Noted
    <3>4. QED
      BY <1>1, <1>2, <2>1, <3>2, <3>3, BrokerKept
  <2>3. CASE broker' = broker /\ \E f \in InFrames : f.type = "GetEmpty" /\ in' = Append(in, f)
    <3>1. /\ Grown(in, in')
          /\ \A i \in DOMAIN in' : i \in DOMAIN in
                \/ in'[i].type \notin {"OpenOk", "Close", "CloseOk", "ConsumeOk"}
      BY <1>4, <2>3
    <3>2. QED
      BY <1>1, <1>2, <2>1, <2>3, <3>1, BrokerKept
  <2>4. QED
    BY <2>1, <2>2, <2>3
<1>6. CASE BrokerSettles
  <2>1. PICK type \in {"Ack", "Reject"} :
           /\ BrokerTakes(type)
           /\ \/ Shuts
              \/ /\ in' = in /\ broker'.consumers = broker.consumers
                 /\ broker.channel = "open" /\ broker'.channel = "open"
    BY <1>1, <1>6, BrokerSettlesSays
  <2>2. CASE Shuts
    BY <1>1, <1>2, <2>1, <2>2, EndKept DEF Shuts, Ends
  <2>3. CASE /\ in' = in /\ broker'.consumers = broker.consumers
             /\ broker.channel = "open" /\ broker'.channel = "open"
    BY <1>1, <1>2, <1>3, <2>1, <2>3, BrokerKept
  <2>4. QED
    BY <2>1, <2>2, <2>3
<1>7. CASE BrokerAnswersClose
  <2>1. /\ BrokerTakes("Close") /\ broker'.channel \in {"closed", "closing"}
        /\ broker'.consumers = {}
        /\ \E f \in InFrames : f.type = "CloseOk" /\ in' = Append(in, f)
    BY <1>7, BrokerAnswersCloseSays
  <2>2. QED
    BY <1>1, <1>2, <2>1, EndKept DEF Ends
<1>8. CASE BrokerWaitsForCloseOk
  <2>1. PICK type \in {"Open", "Consume", "Cancel", "Get", "Ack", "Reject", "CloseOk"} :
           /\ BrokerTakes(type) /\ broker.channel = "closing"
           /\ broker'.channel = IF type = "CloseOk" THEN "closed" ELSE "closing"
           /\ broker'.consumers = {} /\ in' = in
    BY <1>8, BrokerWaitsSays
  <2>2. broker.consumers = {}
    BY <2>1, OrderedSays
  <2>3. broker'.channel # "open" /\ (broker'.channel = "closed" => type \in Ends)
    BY <2>1 DEF Ends
  <2>4. QED
    BY <1>1, <1>2, <2>1, <2>2, <2>3, EndKept
<1>9. QED
  BY <1>5, <1>6, <1>7, <1>8, BrokerOpensKept, BrokerConsumesKept, BrokerCancelsKept, LinkKept
     DEF BrokerReads

LEMMA InitKept == Init => AllKept
<1> SUFFICES ASSUME Init PROVE AllKept
  OBVIOUS
<1>1. /\ link # "up" /\ out = <<>> /\ in = <<>>
      /\ broker.channel = "closed" /\ broker.consumers = {}
  BY DEF Init
<1>2. Kept(link, queue.opened, queue.consuming, queue.consumerTag, <<>>, <<>>, "closed", {})
  BY <1>1, KeptSilent
<1>3. QED
  BY <1>1, <1>2 DEF AllKept

LEMMA NextKept ==
    ASSUME Ordered, AllKept, [Next]_vars PROVE AllKept'
<1>1. Typed
  BY OrderedSays
<1>2. CASE BrokerDelivers
  <2>1. PICK f : Noted(f) /\ f.type = "Deliver"
    BY <1>1, <1>2, BrokerDeliversSays
  <2>2. out' = out /\ UNCHANGED <<link, queue, happened>>
    BY <1>1, <1>2, BrokerDeliversSays, BrokerKeeps
  <2>3. broker'.channel = broker.channel /\ broker'.consumers = broker.consumers
    BY <2>1 DEF Noted
  <2>4. /\ Grown(in, in')
        /\ \A i \in DOMAIN in' : i \in DOMAIN in
              \/ in'[i].type \notin {"OpenOk", "Close", "CloseOk", "ConsumeOk"}
    BY <2>1, GrownNoted DEF Carried
  <2>5. QED
    BY <1>1, <2>2, <2>3, <2>4, BrokerKept
<1>3. CASE BrokerClosesChannel
  <2>1. Shuts /\ UNCHANGED <<link, queue, out, happened>>
    BY <1>1, <1>3, BrokerClosesChannelSays
  <2>2. QED
    BY <1>1, <2>1, EndKept DEF Shuts, Ends
<1>4. CASE UNCHANGED vars
  BY <1>4 DEF AllKept, Steady, vars
<1>5. QED
  BY <1>2, <1>3, <1>4, UserKept, LinkKept, ReadingKept, BrokerReadsKept DEF Next

LEMMA KeptServes == AllKept => ConsumingIsServed
<1> SUFFICES ASSUME AllKept, Steady PROVE Served
  BY DEF ConsumingIsServed, Steady
<1>1. QueueServed(link, queue.opened, queue.consuming, queue.consumerTag, in, broker.consumers)
  BY DEF AllKept, Kept
<1>2. QED
  BY <1>1 DEF QueueServed, EndsIt, Ends, Served

-----------------------------------------------------------------------------
(* The messages that frames announce.                                      *)

\* A message as it was sent: frame i announces it, the next gives its size.
MessageAt(s, i) ==
    [tag |-> s[i].tag, channel |-> s[i].channel, message |-> s[i].message,
     payload |-> Copies(s[i].message, s[i + 1].size)]

AnnouncedIn(s) ==
    FlattenSeq([i \in DOMAIN s |-> IF Announces(s[i]) THEN <<MessageAt(s, i)>> ELSE <<>>])

LEMMA CopiesAre ==
    ASSUME NEW m \in Messages, NEW n \in Nat
    PROVE  /\ Copies(m, n) \in Seq(Messages) /\ Len(Copies(m, n)) = n
           /\ \A i \in 1..n : Copies(m, n)[i] = m
  BY DEF Copies

LEMMA MessageIs ==
    ASSUME NEW s \in Seq(InFrames), Whole(s), NEW i \in DOMAIN s, Announces(s[i])
    PROVE  /\ MessageAt(s, i) \in Delivery
           /\ i + 1 \in DOMAIN s /\ s[i + 1].type = "Header" /\ s[i + 1].size \in Nat
           /\ s[i].message \in Messages
<1>1. i + 1 \in DOMAIN s /\ s[i + 1].type = "Header" /\ s[i + 1] \in InFrames /\ s[i] \in InFrames
  BY EntriesAre DEF Whole
<1>2. s[i].tag \in Nat /\ s[i].channel \in Nat /\ s[i].message \in Messages /\ s[i + 1].size \in Nat
  BY <1>1, InFramesAre DEF Announces
<1>3. Copies(s[i].message, s[i + 1].size) \in Seq(Messages)
  BY <1>2, CopiesAre
<1>4. QED
  BY <1>1, <1>2, <1>3 DEF MessageAt, Delivery

\* They are in the order of the frames.
LEMMA AnnouncedIs ==
    ASSUME NEW s \in Seq(InFrames), Whole(s)
    PROVE  /\ AnnouncedIn(s) \in Seq(Delivery)
           /\ \A at \in Seq(Int) :
                 Ascending(at, {i \in DOMAIN s : Announces(s[i])})
                    => AnnouncedIn(s) = [j \in DOMAIN at |-> MessageAt(s, at[j])]
           /\ \E at \in Seq(Int) : Ascending(at, {i \in DOMAIN s : Announces(s[i])})
<1> DEFINE seqs == [i \in DOMAIN s |-> IF Announces(s[i]) THEN <<MessageAt(s, i)>> ELSE <<>>]
           P == {i \in DOMAIN s : Announces(s[i])}
<1>1. /\ DOMAIN seqs = DOMAIN s /\ DOMAIN s = 1..Len(s) /\ Len(s) \in Nat
      /\ \A i \in DOMAIN s : i \in Int
      /\ \A i \in DOMAIN s : seqs[i] = IF Announces(s[i]) THEN <<MessageAt(s, i)>> ELSE <<>>
  BY EntriesAre
<1>2. \A i \in DOMAIN s : /\ seqs[i] \in Seq(Delivery) /\ Len(seqs[i]) <= 1
                          /\ seqs[i] # <<>> <=> Announces(s[i])
                          /\ Announces(s[i]) => seqs[i][1] = MessageAt(s, i)
  <2> SUFFICES ASSUME NEW i \in DOMAIN s
               PROVE  /\ seqs[i] \in Seq(Delivery) /\ Len(seqs[i]) <= 1
                      /\ seqs[i] # <<>> <=> Announces(s[i])
                      /\ Announces(s[i]) => seqs[i][1] = MessageAt(s, i)
    OBVIOUS
  <2>1. CASE Announces(s[i])
    <3>1. seqs[i] = <<MessageAt(s, i)>> /\ MessageAt(s, i) \in Delivery
      BY <1>1, <2>1, MessageIs
    <3> DEFINE m == MessageAt(s, i)
    <3> HIDE DEF seqs, m
    <3>2. <<m>> \in Seq(Delivery) /\ Len(<<m>>) <= 1 /\ <<m>> # <<>> /\ <<m>>[1] = m
      BY <3>1 DEF m
    <3>3. QED
      BY <2>1, <3>1, <3>2 DEF m
  <2>2. CASE ~Announces(s[i])
    <3>1. seqs[i] = <<>>
      BY <1>1, <2>2
    <3> HIDE DEF seqs
    <3>2. QED
      BY <2>2, <3>1
  <2>3. QED
    BY <2>1, <2>2
<1>3. seqs \in Seq(Seq(Delivery))
  <2>1. seqs \in [1..Len(s) -> Seq(Delivery)]
    BY <1>1, <1>2
  <2> HIDE DEF seqs
  <2>2. QED
    BY <1>1, <2>1
<1> HIDE DEF seqs
<1>4. PICK at \in Seq(Int) :
         /\ Ascending(at, {i \in DOMAIN seqs : seqs[i] # <<>>})
         /\ FlattenSeq(seqs) = [j \in DOMAIN at |-> seqs[at[j]][1]]
         /\ FlattenSeq(seqs) \in Seq(Delivery)
  BY <1>1, <1>2, <1>3, FlattenSingles
<1>5. {i \in DOMAIN seqs : seqs[i] # <<>>} = P
  BY <1>1, <1>2
<1>6. Ascending(at, P)
  BY <1>4, <1>5
<1>7. [j \in DOMAIN at |-> seqs[at[j]][1]] = [j \in DOMAIN at |-> MessageAt(s, at[j])]
  BY <1>2, <1>6 DEF Ascending
<1>8. P \in SUBSET Int
  BY <1>1
<1> HIDE DEF P
<1>9. \A b \in Seq(Int) : Ascending(b, P) => b = at
  BY <1>6, <1>8, OneOrder
<1>10. AnnouncedIn(s) = FlattenSeq(seqs)
  BY DEF AnnouncedIn, seqs
<1>11. QED
  BY <1>4, <1>6, <1>7, <1>9, <1>10 DEF P

\* The first frame is read.
LEMMA AnnouncedTailIs ==
    ASSUME NEW s \in Seq(InFrames), Whole(s), s # <<>>
    PROVE  /\ Announces(s[1]) => AnnouncedIn(s) = <<MessageAt(s, 1)>> \o AnnouncedIn(Tail(s))
           /\ ~Announces(s[1]) => AnnouncedIn(s) = AnnouncedIn(Tail(s))
<1> DEFINE t == Tail(s)
           P == {i \in DOMAIN s : Announces(s[i])}
           Q == {i \in DOMAIN t : Announces(t[i])}
<1>1. /\ t \in Seq(InFrames) /\ Whole(t)
      /\ DOMAIN s = 1..Len(s) /\ DOMAIN t = 1..(Len(s) - 1) /\ Len(s) \in Nat /\ Len(s) >= 1
      /\ \A i \in DOMAIN t : t[i] = s[i + 1] /\ i \in Int /\ i >= 1 /\ i + 1 \in DOMAIN s
  BY TailIs, WholeTail
<1>2. AnnouncedIn(t) \in Seq(Delivery) /\ AnnouncedIn(s) \in Seq(Delivery)
  BY <1>1, AnnouncedIs
<1>3. PICK at \in Seq(Int) : Ascending(at, Q)
  BY <1>1, AnnouncedIs
<1>4. AnnouncedIn(t) = [j \in DOMAIN at |-> MessageAt(t, at[j])]
  BY <1>1, <1>3, AnnouncedIs
<1>5. ASSUME NEW i \in DOMAIN t, Announces(t[i])
      PROVE  MessageAt(t, i) = MessageAt(s, i + 1)
  <2>1. i + 1 \in DOMAIN t
    BY <1>1, <1>5, MessageIs
  <2>2. t[i] = s[i + 1] /\ t[i + 1] = s[(i + 1) + 1]
    BY <1>1, <2>1
  <2>3. QED
    BY <2>2 DEF MessageAt
<1>6. /\ DOMAIN at = 1..Len(at) /\ Len(at) \in Nat
      /\ \A j \in DOMAIN at : j \in Int /\ j >= 1 /\ at[j] \in Int
  OBVIOUS
<1>7. \A j \in DOMAIN at : at[j] \in DOMAIN t /\ Announces(t[at[j]])
  BY <1>3 DEF Ascending
<1> HIDE DEF t
<1>8. CASE ~Announces(s[1])
  <2> DEFINE b == [j \in DOMAIN at |-> at[j] + 1]
  <2>1. b \in Seq(Int) /\ DOMAIN b = DOMAIN at /\ \A j \in DOMAIN at : b[j] = at[j] + 1
    BY <1>6
  <2> HIDE DEF b
  <2>2. Ascending(b, P)
    <3>1. \A j \in DOMAIN b : b[j] \in P
      BY <1>1, <1>7, <2>1
    <3>2. \A i, j \in DOMAIN b : i < j => b[i] < b[j]
      <4>1. \A i, j \in DOMAIN at : i < j => at[i] < at[j]
        BY <1>3 DEF Ascending
      <4>2. QED
        BY <1>6, <2>1, <4>1
    <3>3. \A p \in P : \E j \in DOMAIN b : b[j] = p
      <4> SUFFICES ASSUME NEW p \in DOMAIN s, Announces(s[p]) PROVE \E j \in DOMAIN b : b[j] = p
        OBVIOUS
      <4>1. p # 1 /\ p \in Int
        BY <1>1, <1>8
      <4>2. p - 1 \in DOMAIN t /\ t[p - 1] = s[p]
        BY <1>1, <4>1
      <4>3. PICK j \in DOMAIN at : at[j] = p - 1
        BY <1>3, <4>2 DEF Ascending
      <4>4. b[j] = p
        BY <2>1, <4>1, <4>3
      <4>5. QED
        BY <2>1, <4>4
    <3> HIDE DEF P
    <3>4. QED
      BY <3>1, <3>2, <3>3 DEF Ascending
  <2>3. AnnouncedIn(s) = [j \in DOMAIN b |-> MessageAt(s, b[j])]
    BY <2>1, <2>2, AnnouncedIs
  <2>4. \A j \in DOMAIN at : MessageAt(s, b[j]) = MessageAt(t, at[j])
    BY <1>5, <1>7, <2>1
  <2>5. AnnouncedIn(s) = AnnouncedIn(t)
    BY <1>4, <2>1, <2>3, <2>4
  <2>6. QED
    BY <1>8, <2>5 DEF t
<1>9. CASE Announces(s[1])
  <2> DEFINE n == Len(at) + 1
             b == [j \in 1..n |-> IF j = 1 THEN 1 ELSE at[j - 1] + 1]
             m == MessageAt(s, 1)
             F == AnnouncedIn(t)
  <2>1. \A j \in 1..n : j # 1 => j - 1 \in DOMAIN at /\ j \in Int
    BY <1>6
  <2>2. /\ b \in Seq(Int) /\ DOMAIN b = 1..n /\ b[1] = 1 /\ 1 \in DOMAIN b
        /\ \A j \in 1..n : j # 1 => b[j] = at[j - 1] + 1
    <3>1. \A j \in 1..n : (IF j = 1 THEN 1 ELSE at[j - 1] + 1) \in Int
      BY <1>6, <2>1
    <3>2. n \in Nat /\ 1 \in 1..n
      BY <1>6
    <3>3. QED
      BY <3>1, <3>2
  <2>3. m \in Delivery
    BY <1>1, <1>9, MessageIs
  <2> HIDE DEF b, m
  <2>4. Ascending(b, P)
    <3>1. \A j \in DOMAIN b : b[j] \in P
      <4> SUFFICES ASSUME NEW j \in 1..n PROVE b[j] \in DOMAIN s /\ Announces(s[b[j]])
        BY <2>2
      <4>1. CASE j = 1
        BY <1>1, <1>9, <2>2, <4>1
      <4>2. CASE j # 1
        <5>1. at[j - 1] \in DOMAIN t /\ Announces(t[at[j - 1]]) /\ b[j] = at[j - 1] + 1
          BY <1>7, <2>1, <2>2, <4>2
        <5>2. QED
          BY <1>1, <5>1
      <4>3. QED
        BY <4>1, <4>2
    <3>2. \A i, j \in DOMAIN b : i < j => b[i] < b[j]
      <4> SUFFICES ASSUME NEW i \in 1..n, NEW j \in 1..n, i < j PROVE b[i] < b[j]
        BY <2>2
      <4>0. i \in Int /\ j \in Int /\ j # 1
        BY <1>6
      <4>1. b[j] = at[j - 1] + 1 /\ j - 1 \in DOMAIN at /\ at[j - 1] >= 1 /\ at[j - 1] \in Int
        BY <1>1, <1>7, <2>1, <2>2, <4>0
      <4>2. CASE i = 1
        BY <2>2, <4>1, <4>2
      <4>3. CASE i # 1
        <5>1. b[i] = at[i - 1] + 1 /\ i - 1 \in DOMAIN at /\ i - 1 < j - 1 /\ at[i - 1] \in Int
          BY <1>6, <2>1, <2>2, <4>0, <4>3
        <5>2. at[i - 1] < at[j - 1]
          BY <1>3, <4>1, <5>1 DEF Ascending
        <5>3. QED
          BY <4>1, <5>1, <5>2
      <4>4. QED
        BY <4>2, <4>3
    <3>3. \A p \in P : \E j \in DOMAIN b : b[j] = p
      <4> SUFFICES ASSUME NEW p \in DOMAIN s, Announces(s[p]) PROVE \E j \in DOMAIN b : b[j] = p
        OBVIOUS
      <4>1. CASE p = 1
        BY <2>2, <4>1
      <4>2. CASE p # 1
        <5>1. p - 1 \in DOMAIN t /\ t[p - 1] = s[p] /\ p \in Int
          BY <1>1, <4>2
        <5>2. PICK j \in DOMAIN at : at[j] = p - 1
          BY <1>3, <5>1 DEF Ascending
        <5>3. j + 1 \in 1..n /\ j + 1 # 1 /\ (j + 1) - 1 = j
          BY <1>6
        <5>4. b[j + 1] = p
          BY <2>2, <5>1, <5>2, <5>3
        <5>5. QED
          BY <2>2, <5>3, <5>4
      <4>3. QED
        BY <4>1, <4>2
    <3> HIDE DEF P, n
    <3>4. QED
      BY <3>1, <3>2, <3>3 DEF Ascending
  <2>5. AnnouncedIn(s) = [j \in DOMAIN b |-> MessageAt(s, b[j])]
    BY <2>2, <2>4, AnnouncedIs
  <2>6. F \in Seq(Delivery) /\ Len(F) = Len(at) /\ \A j \in DOMAIN at : F[j] = MessageAt(t, at[j])
    BY <1>2, <1>4, <1>6
  <2> HIDE DEF F
  <2>7. /\ <<m>> \o F \in Seq(Delivery) /\ DOMAIN (<<m>> \o F) = 1..n
        /\ (<<m>> \o F)[1] = m /\ \A j \in 1..n : j # 1 => (<<m>> \o F)[j] = F[j - 1]
    BY <2>3, <2>6
  <2>8. \A j \in 1..n : (<<m>> \o F)[j] = MessageAt(s, b[j])
    <3> TAKE j \in 1..n
    <3>1. CASE j = 1
      BY <2>2, <2>7, <3>1 DEF m
    <3>2. CASE j # 1
      <4>1. /\ j - 1 \in DOMAIN at /\ b[j] = at[j - 1] + 1
            /\ (<<m>> \o F)[j] = MessageAt(t, at[j - 1])
        BY <2>1, <2>2, <2>6, <2>7, <3>2
      <4>2. MessageAt(t, at[j - 1]) = MessageAt(s, at[j - 1] + 1)
        BY <1>5, <1>7, <4>1
      <4>3. QED
        BY <4>1, <4>2
    <3>3. QED
      BY <3>1, <3>2
  <2> DEFINE r == <<m>> \o F
  <2>9. r = [j \in DOMAIN r |-> r[j]] /\ DOMAIN r = 1..n /\ \A j \in 1..n : r[j] = MessageAt(s, b[j])
    BY <2>7, <2>8
  <2> HIDE DEF r, n
  <2>10. r = AnnouncedIn(s)
    BY <2>2, <2>5, <2>9
  <2>11. QED
    BY <1>9, <2>10 DEF r, m, F, t
<1>10. QED
  BY <1>8, <1>9

\* More frames come.
LEMMA AnnouncedGrows ==
    ASSUME NEW s \in Seq(InFrames), Whole(s), NEW t \in Seq(InFrames), Whole(t),
           \A i \in DOMAIN s : i \in DOMAIN t /\ t[i] = s[i]
    PROVE  /\ (\A i \in DOMAIN t : i \notin DOMAIN s => ~Announces(t[i]))
                 => AnnouncedIn(t) = AnnouncedIn(s)
           /\ \A f : SentAfter(s, t, f) /\ Announces(f) =>
                 \E m \in Delivery : AnnouncedIn(t) = Append(AnnouncedIn(s), m)
<1> DEFINE P == {i \in DOMAIN s : Announces(s[i])}
           Q == {i \in DOMAIN t : Announces(t[i])}
<1>1. AnnouncedIn(s) \in Seq(Delivery) /\ AnnouncedIn(t) \in Seq(Delivery)
  BY AnnouncedIs
<1>2. PICK at \in Seq(Int) : Ascending(at, P)
  BY AnnouncedIs
<1>3. AnnouncedIn(s) = [j \in DOMAIN at |-> MessageAt(s, at[j])]
  BY <1>2, AnnouncedIs
<1>4. ASSUME NEW i \in DOMAIN s, Announces(s[i])
      PROVE  MessageAt(t, i) = MessageAt(s, i)
  <2>1. i + 1 \in DOMAIN s
    BY <1>4, MessageIs
  <2>2. QED
    BY <2>1 DEF MessageAt
<1>5. \A j \in DOMAIN at : at[j] \in DOMAIN s /\ Announces(s[at[j]])
  BY <1>2 DEF Ascending
<1>6. \A j \in DOMAIN at : MessageAt(t, at[j]) = MessageAt(s, at[j])
  BY <1>4, <1>5
<1>7. ASSUME \A i \in DOMAIN t : i \notin DOMAIN s => ~Announces(t[i])
      PROVE  AnnouncedIn(t) = AnnouncedIn(s)
  <2>1. P = Q
    BY <1>7
  <2> HIDE DEF P
  <2>2. AnnouncedIn(t) = [j \in DOMAIN at |-> MessageAt(t, at[j])]
    BY <1>2, <2>1, AnnouncedIs
  <2>3. QED
    BY <1>3, <1>6, <2>2
<1>8. ASSUME NEW f, SentAfter(s, t, f), Announces(f)
      PROVE  \E m \in Delivery : AnnouncedIn(t) = Append(AnnouncedIn(s), m)
  <2> DEFINE n == Len(s) + 1
             m == MessageAt(t, n)
             b == Append(at, n)
             L == Len(at)
  <2>1. /\ n \in DOMAIN t /\ t[n] = f /\ n \in Int
        /\ \A i \in DOMAIN s : i \in DOMAIN t /\ t[i] = s[i] /\ i < n /\ i \in Int
        /\ \A i \in DOMAIN t : /\ i \in Int
                               /\ \/ i \in DOMAIN s /\ t[i] = s[i] /\ i < n
                                  \/ i = n /\ t[i] = f
                                  \/ i > n /\ t[i].type \in Carried
    BY <1>8 DEF SentAfter
  <2> HIDE DEF n
  <2>2. /\ b \in Seq(Int) /\ DOMAIN b = 1..(L + 1) /\ b[L + 1] = n
        /\ \A j \in DOMAIN at : b[j] = at[j]
        /\ DOMAIN at = 1..L /\ L \in Nat
    BY <2>1, AppendEntries
  <2>3. \A j \in DOMAIN b : (j \in DOMAIN at /\ j < L + 1) \/ j = L + 1
    BY <2>2
  <2>4. L + 1 \in DOMAIN b /\ \A j \in DOMAIN at : j \in DOMAIN b
    BY <2>2
  <2> HIDE DEF b
  <2>5. Ascending(b, Q)
    <3>1. \A j \in DOMAIN b : b[j] \in Q
      BY <1>5, <1>8, <2>1, <2>2, <2>3
    <3>2. \A i, j \in DOMAIN b : i < j => b[i] < b[j]
      <4> SUFFICES ASSUME NEW i \in DOMAIN b, NEW j \in DOMAIN b, i < j PROVE b[i] < b[j]
        OBVIOUS
      <4>1. i \in DOMAIN at
        <5>1. i \in Int /\ j \in Int /\ j <= L + 1
          BY <2>2
        <5>2. i # L + 1
          BY <2>2, <5>1
        <5>3. QED
          BY <2>3, <5>2
      <4>2. CASE j \in DOMAIN at
        <5>1. at[i] < at[j]
          BY <1>2, <4>1, <4>2 DEF Ascending
        <5>2. QED
          BY <2>2, <4>1, <4>2, <5>1
      <4>3. CASE j = L + 1
        BY <1>5, <2>1, <2>2, <4>1, <4>3
      <4>4. QED
        BY <2>3, <4>2, <4>3
    <3>3. \A p \in Q : \E j \in DOMAIN b : b[j] = p
      <4> SUFFICES ASSUME NEW p \in DOMAIN t, Announces(t[p]) PROVE \E j \in DOMAIN b : b[j] = p
        OBVIOUS
      <4>1. CASE p \in DOMAIN s /\ t[p] = s[p]
        <5>1. PICK j \in DOMAIN at : at[j] = p
          BY <1>2, <4>1 DEF Ascending
        <5>2. QED
          BY <2>2, <2>4, <5>1
      <4>2. CASE p = n
        BY <2>2, <2>4, <4>2
      <4>3. CASE t[p].type \in Carried
        BY <4>3 DEF Announces, Carried
      <4>4. QED
        BY <2>1, <4>1, <4>2, <4>3
    <3> HIDE DEF Q
    <3>4. QED
      BY <3>1, <3>2, <3>3 DEF Ascending
  <2>6. AnnouncedIn(t) = [j \in DOMAIN b |-> MessageAt(t, b[j])]
    BY <2>2, <2>5, AnnouncedIs
  <2>7. m \in Delivery
    BY <1>8, <2>1, MessageIs
  <2> DEFINE F == AnnouncedIn(s)
             r == Append(F, m)
  <2>8. F \in Seq(Delivery) /\ DOMAIN F = DOMAIN at /\ \A j \in DOMAIN at : F[j] = MessageAt(s, at[j])
    BY <1>1, <1>3
  <2>9. Len(F) = L
    BY <2>2, <2>8
  <2> HIDE DEF F, m
  <2>10. /\ r \in Seq(Delivery) /\ DOMAIN r = 1..(L + 1) /\ r[L + 1] = m
         /\ \A j \in DOMAIN at : r[j] = F[j]
    BY <2>2, <2>7, <2>8, <2>9, AppendEntries
  <2> HIDE DEF r
  <2>11. r = [j \in DOMAIN r |-> r[j]]
    BY <2>10
  <2>12. \A j \in DOMAIN b : r[j] = MessageAt(t, b[j])
    <3> TAKE j \in DOMAIN b
    <3>1. CASE j \in DOMAIN at
      BY <1>6, <2>2, <2>8, <2>10, <3>1
    <3>2. CASE j = L + 1
      BY <2>2, <2>10, <3>2 DEF m
    <3>3. QED
      BY <2>3, <3>1, <3>2
  <2>13. r = AnnouncedIn(t)
    BY <2>2, <2>6, <2>10, <2>11, <2>12
  <2>14. AnnouncedIn(t) = Append(AnnouncedIn(s), m)
    BY <2>13 DEF r, F
  <2>15. QED
    BY <2>7, <2>14
<1>9. QED
  BY <1>7, <1>8

-----------------------------------------------------------------------------
(* The frames of a message belong together, and to the one being read.     *)

Joined(s, c) ==
    /\ \A i \in DOMAIN s : Announces(s[i]) => s[i].tag # 0
    /\ \A i, j \in DOMAIN s : j = i + 1 /\ s[i].type = "Body" /\ s[j].type = "Body"
          => s[j].message = s[i].message
    /\ \A i, j \in DOMAIN s : j = i + 2 /\ Announces(s[i]) /\ s[j].type = "Body"
          => s[j].message = s[i].message
    /\ s # <<>> /\ s[1].type \in Carried => c.tag # 0
    /\ \A j \in DOMAIN s : s[j].type = "Body" /\ (j = 1 \/ (j = 2 /\ s[1].type = "Header"))
          => s[j].message = c.message

LEMMA JoinedEmpty == ASSUME NEW c PROVE Joined(<<>>, c)
<1>1. DOMAIN <<>> = {}
  OBVIOUS
<1>2. QED
  BY <1>1 DEF Joined

\* A frame is read; d is what becomes of the message that is being read.
LEMMA JoinedTail ==
    ASSUME NEW s \in Seq(InFrames), s # <<>>, Whole(s), NEW c, Joined(s, c), NEW d,
           s[1].type \in Carried => d.tag = c.tag /\ d.message = c.message,
           Announces(s[1]) => d.tag = s[1].tag /\ d.message = s[1].message
    PROVE  Joined(Tail(s), d)
<1> DEFINE t == Tail(s)
<1>1. /\ t \in Seq(InFrames) /\ 1 \in DOMAIN s
      /\ DOMAIN s = 1..Len(s) /\ DOMAIN t = 1..(Len(s) - 1) /\ Len(s) \in Nat /\ Len(s) >= 1
      /\ \A i \in DOMAIN t : t[i] = s[i + 1] /\ i \in Int /\ i >= 1 /\ i + 1 \in DOMAIN s
  BY TailIs
<1>2. t # <<>> => 1 \in DOMAIN t
  OBVIOUS
<1> HIDE DEF t
<1>3. \A i \in DOMAIN t : Announces(t[i]) => t[i].tag # 0
  BY <1>1 DEF Joined
<1>4. \A i, j \in DOMAIN t : j = i + 1 /\ t[i].type = "Body" /\ t[j].type = "Body"
         => t[j].message = t[i].message
  <2> SUFFICES ASSUME NEW i \in DOMAIN t, NEW j \in DOMAIN t, j = i + 1,
                      t[i].type = "Body", t[j].type = "Body"
               PROVE  t[j].message = t[i].message
    OBVIOUS
  <2>1. i + 1 \in DOMAIN s /\ j + 1 \in DOMAIN s /\ j + 1 = (i + 1) + 1
    BY <1>1
  <2>2. QED
    BY <1>1, <2>1 DEF Joined
<1>5. \A i, j \in DOMAIN t : j = i + 2 /\ Announces(t[i]) /\ t[j].type = "Body"
         => t[j].message = t[i].message
  <2> SUFFICES ASSUME NEW i \in DOMAIN t, NEW j \in DOMAIN t, j = i + 2,
                      Announces(t[i]), t[j].type = "Body"
               PROVE  t[j].message = t[i].message
    OBVIOUS
  <2>1. i + 1 \in DOMAIN s /\ j + 1 \in DOMAIN s /\ j + 1 = (i + 1) + 2
    BY <1>1
  <2>2. QED
    BY <1>1, <2>1 DEF Joined
<1>6. ASSUME t # <<>>, t[1].type \in Carried
      PROVE  /\ s[1].type \in Carried \/ Announces(s[1])
             /\ t[1].type = "Header" => Announces(s[1])
             /\ t[1].type = "Body" => s[1].type \in Carried
  <2>1. 1 \in DOMAIN t /\ 2 \in DOMAIN s /\ t[1] = s[2] /\ 2 = 1 + 1
    BY <1>1, <1>2, <1>6
  <2>2. /\ s[2].type = "Header" => Announces(s[1])
        /\ s[2].type = "Body" => s[1].type \in Carried
    BY <1>1, <2>1 DEF Whole
  <2>3. QED
    BY <1>6, <2>1, <2>2 DEF Carried
<1>7. t # <<>> /\ t[1].type \in Carried => d.tag # 0
  BY <1>1, <1>6 DEF Joined
<1>8. ASSUME NEW j \in DOMAIN t, t[j].type = "Body", j = 1
      PROVE  t[j].message = d.message
  <2>1. t # <<>> /\ t[1] = s[2] /\ 2 \in DOMAIN s /\ 2 = 1 + 1
    BY <1>1, <1>8
  <2>2. s[1].type \in Carried /\ d.message = c.message
    BY <1>6, <1>8, <2>1 DEF Carried
  <2>3. CASE s[1].type = "Header"
    BY <1>8, <2>1, <2>2, <2>3 DEF Joined
  <2>4. CASE s[1].type = "Body"
    <3>1. s[2].message = s[1].message
      BY <1>1, <1>8, <2>1, <2>4 DEF Joined
    <3>2. s[1].message = c.message
      BY <1>1, <2>4 DEF Joined
    <3>3. QED
      BY <1>8, <2>1, <2>2, <3>1, <3>2
  <2>5. QED
    BY <2>2, <2>3, <2>4 DEF Carried
<1>9. ASSUME NEW j \in DOMAIN t, t[j].type = "Body", j = 2, t[1].type = "Header"
      PROVE  t[j].message = d.message
  <2>1. /\ t # <<>> /\ t[2] = s[3] /\ 3 \in DOMAIN s /\ 3 = 1 + 2
    BY <1>1, <1>9
  <2>2. Announces(s[1])
    BY <1>6, <1>9, <2>1 DEF Carried
  <2>3. s[3].message = s[1].message
    BY <1>1, <1>9, <2>1, <2>2 DEF Joined
  <2>4. QED
    BY <1>9, <2>1, <2>2, <2>3
<1>10. QED
  BY <1>3, <1>4, <1>5, <1>7, <1>8, <1>9 DEF Joined, t

\* A frame is added that is no part of a message.
LEMMA JoinedAppend ==
    ASSUME NEW s \in Seq(InFrames), NEW c, Joined(s, c), NEW f \in InFrames,
           f.type \notin Carried, ~Announces(f)
    PROVE  Joined(Append(s, f), c)
<1> DEFINE t == Append(s, f)
           n == Len(s) + 1
<1>1. /\ DOMAIN t = 1..n /\ n \in Int /\ n >= 1 /\ t[n] = f
      /\ \A i \in DOMAIN s : t[i] = s[i]
      /\ DOMAIN s = 1..(n - 1)
  BY AppendEntries, EntriesAre
<1> HIDE DEF t, n
<1>2. \A i \in DOMAIN t : (i \in DOMAIN s /\ t[i] = s[i]) \/ (i = n /\ t[i] = f)
  BY <1>1
<1>3. \A i \in DOMAIN t : t[i].type \in Carried \/ Announces(t[i]) => i \in DOMAIN s /\ t[i] = s[i]
  BY <1>2
<1>4. 1 \in DOMAIN t
  BY <1>1
<1>5. t[1].type \in Carried => s # <<>> /\ t[1] = s[1]
  <2>1. t[1].type \in Carried => 1 \in DOMAIN s /\ t[1] = s[1]
    BY <1>3, <1>4
  <2>2. DOMAIN <<>> = {}
    OBVIOUS
  <2>3. QED
    BY <2>1, <2>2
<1>6. \A i \in DOMAIN t : t[i].type = "Body" => t[i].type \in Carried
  BY DEF Carried
<1>7. \A i \in DOMAIN t : Announces(t[i]) => t[i].tag # 0
  BY <1>3 DEF Joined
<1>8. \A i, j \in DOMAIN t : j = i + 1 /\ t[i].type = "Body" /\ t[j].type = "Body"
         => t[j].message = t[i].message
  BY <1>3, <1>6 DEF Joined
<1>9. \A i, j \in DOMAIN t : j = i + 2 /\ Announces(t[i]) /\ t[j].type = "Body"
         => t[j].message = t[i].message
  BY <1>3, <1>6 DEF Joined
<1>10. t # <<>> /\ t[1].type \in Carried => c.tag # 0
  BY <1>5 DEF Joined
<1>11. \A j \in DOMAIN t : t[j].type = "Body" /\ (j = 1 \/ (j = 2 /\ t[1].type = "Header"))
          => t[j].message = c.message
  <2> SUFFICES ASSUME NEW j \in DOMAIN t, t[j].type = "Body",
                      j = 1 \/ (j = 2 /\ t[1].type = "Header")
               PROVE  t[j].message = c.message
    OBVIOUS
  <2>1. j \in DOMAIN s /\ t[j] = s[j] /\ t[1] = s[1]
    BY <1>1, <1>3, <1>6
  <2>2. QED
    BY <2>1 DEF Joined
<1>12. QED
  BY <1>7, <1>8, <1>9, <1>10, <1>11 DEF Joined, t

\* A message is sent.
LEMMA JoinedRun ==
    ASSUME NEW s \in Seq(InFrames), Whole(s), NEW c, Joined(s, c), NEW f \in InFrames,
           Announces(f), f.tag # 0, NEW size \in Sizes
    PROVE  Joined(s \o Run(f, size, f.message), c)
<1> DEFINE r == Run(f, size, f.message)
           t == s \o r
           L == Len(s)
           n == L + 1
<1>1. f.message \in Messages
  BY InFramesAre DEF Announces
<1>2. /\ r \in Seq(InFrames) /\ Len(r) = size + 2 /\ DOMAIN r = 1..(size + 2) /\ size \in Nat
      /\ r[1] = f /\ r[2] = [type |-> "Header", size |-> size]
      /\ \A k \in DOMAIN r : k > 2 => r[k] = [type |-> "Body", message |-> f.message]
  BY <1>1, RunIs
<1>3. \A k \in DOMAIN r : k > 2 => r[k].type = "Body" /\ r[k].message = f.message
  BY <1>2
<1>4. r[2].type = "Header"
  BY <1>2
<1> HIDE DEF r
<1>5. /\ L \in Nat /\ DOMAIN t = 1..(L + Len(r)) /\ DOMAIN s = 1..L
      /\ \A i \in 1..(L + Len(r)) : t[i] = IF i <= L THEN s[i] ELSE r[i - L]
  <2>1. r \in Seq(InFrames)
    BY <1>2
  <2>2. QED
    BY <2>1, ConcatEntries
<1> HIDE DEF t, L
<1>6. ASSUME NEW i \in DOMAIN t
      PROVE  /\ i \in Int
             /\ \/ i \in DOMAIN s /\ t[i] = s[i]
                \/ i = n /\ t[i] = f
                \/ i = n + 1 /\ t[i].type = "Header"
                \/ i > n + 1 /\ t[i].type = "Body" /\ t[i].message = f.message
  <2>1. i \in Int /\ L \in Int /\ i >= 1
    BY <1>5
  <2>2. CASE i <= L
    BY <1>5, <2>1, <2>2
  <2>3. CASE i = n
    <3>1. i - L = 1 /\ ~(i <= L)
      BY <2>1, <2>3
    <3>2. QED
      BY <1>2, <1>5, <2>1, <2>3, <3>1
  <2>4. CASE i = n + 1
    <3>1. i - L = 2 /\ ~(i <= L)
      BY <2>1, <2>4
    <3>2. QED
      BY <1>4, <1>5, <2>1, <2>4, <3>1
  <2>5. CASE i > n + 1
    <3>1. i - L > 2 /\ ~(i <= L) /\ i - L \in DOMAIN r
      BY <1>2, <1>5, <2>1, <2>5
    <3>2. t[i] = r[i - L]
      BY <1>5, <2>1, <3>1
    <3>3. QED
      BY <1>3, <2>1, <2>5, <3>1, <3>2
  <2>6. QED
    BY <2>1, <2>2, <2>3, <2>4, <2>5
<1>7. /\ \A i \in DOMAIN t : i <= L <=> i \in DOMAIN s
      /\ \A i \in DOMAIN t : i >= 1
      /\ f.type # "Body" /\ f.type \notin Carried /\ L \in Int
  BY <1>5 DEF Announces, Carried
<1>8. \A i \in DOMAIN s : Announces(s[i]) => i + 1 \in DOMAIN s /\ s[i + 1].type = "Header"
  BY DEF Whole
<1>9. \A i \in DOMAIN t : Announces(t[i]) => (i \in DOMAIN s /\ t[i] = s[i]) \/ (i = n /\ t[i] = f)
  BY <1>6 DEF Announces
<1>10. \A i \in DOMAIN t : Announces(t[i]) => t[i].tag # 0
  BY <1>9 DEF Joined
<1>11. ASSUME NEW i \in DOMAIN t, NEW j \in DOMAIN t, j = i + 1,
              t[i].type = "Body", t[j].type = "Body"
       PROVE  t[j].message = t[i].message
  <2>1. CASE j \in DOMAIN s
    <3>1. i \in DOMAIN s /\ t[i] = s[i] /\ t[j] = s[j]
      BY <1>5, <1>6, <1>11, <2>1
    <3>2. QED
      BY <1>11, <2>1, <3>1 DEF Joined
  <2>2. CASE j \notin DOMAIN s
    <3>1. j > n + 1 /\ t[j].message = f.message
      BY <1>6, <1>7, <1>11, <2>2
    <3>2. i \notin DOMAIN s /\ i # n
      BY <1>6, <1>7, <1>11, <3>1
    <3>3. QED
      BY <1>6, <1>11, <3>1, <3>2
  <2>3. QED
    BY <2>1, <2>2
<1>12. ASSUME NEW i \in DOMAIN t, NEW j \in DOMAIN t, j = i + 2,
              Announces(t[i]), t[j].type = "Body"
       PROVE  t[j].message = t[i].message
  <2>1. CASE i \in DOMAIN s /\ t[i] = s[i]
    <3>1. i + 1 \in DOMAIN s
      BY <1>8, <1>12, <2>1
    <3>2. j < n + 1
      BY <1>5, <1>6, <1>12, <3>1
    <3>3. j \in DOMAIN s /\ t[j] = s[j]
      BY <1>6, <1>7, <1>12, <3>2
    <3>4. QED
      BY <1>12, <2>1, <3>3 DEF Joined
  <2>2. CASE i = n /\ t[i] = f
    <3>1. j > n + 1 /\ j \notin DOMAIN s
      BY <1>6, <1>7, <1>12, <2>2
    <3>2. QED
      BY <1>6, <1>7, <1>12, <2>2, <3>1
  <2>3. QED
    BY <1>9, <1>12, <2>1, <2>2
<1>13. ASSUME t # <<>>, t[1].type \in Carried
       PROVE  s # <<>> /\ t[1] = s[1]
  <2>1. 1 \in DOMAIN t /\ n >= 1
    BY <1>2, <1>5
  <2>2. 1 # n + 1 /\ ~(1 > n + 1)
    BY <1>5, <2>1
  <2>3. 1 \in DOMAIN s /\ t[1] = s[1]
    BY <1>6, <1>7, <1>13, <2>1, <2>2
  <2>4. DOMAIN <<>> = {}
    OBVIOUS
  <2>5. QED
    BY <2>3, <2>4
<1>14. t # <<>> /\ t[1].type \in Carried => c.tag # 0
  BY <1>13 DEF Joined
<1>15. ASSUME NEW j \in DOMAIN t, t[j].type = "Body",
              j = 1 \/ (j = 2 /\ t[1].type = "Header")
       PROVE  t[j].message = c.message
  <2>1. CASE L = 0
    <3>1. j = 1 \/ j = 2
      BY <1>15
    <3>2. n = 1 /\ n + 1 = 2
      BY <2>1
    <3>3. j \notin DOMAIN s /\ ~(j > n + 1)
      BY <1>5, <2>1, <3>1
    <3>4. QED
      BY <1>6, <1>7, <1>15, <3>1, <3>2, <3>3
  <2>2. CASE L # 0
    <3>1. L >= 1 /\ 1 \in DOMAIN s
      BY <1>5, <2>2
    <3>2. t[1] = s[1]
      BY <1>5, <1>2, <3>1
    <3>3. j \in DOMAIN s
      <4>1. CASE j = 1
        BY <3>1, <4>1
      <4>2. CASE j = 2
        <5>1. n > 1 /\ ~(j > n + 1)
          BY <1>5, <3>1, <4>2
        <5>2. j = n \/ j = n + 1 \/ j \in DOMAIN s
          BY <1>6, <5>1
        <5>3. QED
          BY <1>5, <1>6, <1>7, <1>15, <4>2, <5>1, <5>2
      <4>3. QED
        BY <1>15, <4>1, <4>2
    <3>4. t[j] = s[j]
      BY <1>5, <3>3
    <3>5. QED
      BY <1>15, <3>2, <3>3, <3>4 DEF Joined
  <2>3. QED
    BY <2>1, <2>2
<1>16. QED
  BY <1>10, <1>11, <1>12, <1>14, <1>15 DEF Joined, t, r

-----------------------------------------------------------------------------
(* What is delivered is received whole.                                    *)

\* Messages are for the consumer the queue has, or will have.
Addressed(con, req, tag, s) ==
    /\ con => \A i \in DOMAIN s : s[i].type = "Deliver" => s[i].consumer = tag
    /\ req => \A i, j \in DOMAIN s : s[i].type = "ConsumeOk" /\ s[j].type = "Deliver"
                 => s[j].consumer = s[i].consumer

Intact ==
    Calm => /\ Joined(in, queue.current)
            /\ Addressed(queue.consuming, queue.consumeRequested, queue.consumerTag, in)

LEMMA AddressedTail ==
    ASSUME NEW con, NEW req, NEW tag, NEW s \in Seq(InFrames), s # <<>>, Addressed(con, req, tag, s)
    PROVE  Addressed(con, req, tag, Tail(s))
<1> DEFINE t == Tail(s)
<1>1. \A i \in DOMAIN t : i + 1 \in DOMAIN s /\ t[i] = s[i + 1]
  BY TailIs
<1> HIDE DEF t
<1>2. QED
  BY <1>1 DEF Addressed, t

\* What is added is neither the answer to a consume nor a delivery.
LEMMA AddressedAppend ==
    ASSUME NEW con, NEW req, NEW tag, NEW s \in Seq(InFrames), Addressed(con, req, tag, s),
           NEW f \in InFrames, f.type \notin {"ConsumeOk", "Deliver"}
    PROVE  Addressed(con, req, tag, Append(s, f))
<1> DEFINE t == Append(s, f)
           n == Len(s) + 1
<1>1. \A i \in DOMAIN t : (i \in DOMAIN s /\ t[i] = s[i] /\ i < n) \/ (i = n /\ t[i] = f)
  BY GrowthIs
<1> HIDE DEF t, n
<1>2. \A i \in DOMAIN t : t[i].type \in {"ConsumeOk", "Deliver"} => i \in DOMAIN s /\ t[i] = s[i]
  BY <1>1
<1>3. QED
  BY <1>2 DEF Addressed, t

\* A message is sent to a consumer of the broker.
LEMMA AddressedSent ==
    ASSUME NEW con, NEW req, NEW tag, NEW o, NEW s, NEW C, InPhase(con, req, tag, o, s, C),
           Addressed(con, req, tag, s), NEW t, NEW f, SentAfter(s, t, f), Announces(f),
           f.type = "Deliver" => f.consumer \in C
    PROVE  Addressed(con, req, tag, t)
<1>1. \A i \in DOMAIN t : t[i].type \in {"ConsumeOk", "Deliver"} =>
         (i \in DOMAIN s /\ t[i] = s[i]) \/ t[i] = f
  BY DEF SentAfter, Carried
<1>2. f.type # "ConsumeOk"
  BY DEF Announces
<1>3. con => \A i \in DOMAIN t : t[i].type = "Deliver" => t[i].consumer = tag
  BY <1>1 DEF Addressed, InPhase, Serving
<1>4. ASSUME req, NEW i \in DOMAIN t, NEW j \in DOMAIN t,
             t[i].type = "ConsumeOk", t[j].type = "Deliver"
      PROVE  t[j].consumer = t[i].consumer
  <2>1. i \in DOMAIN s /\ t[i] = s[i]
    BY <1>1, <1>2, <1>4
  <2>2. CASE j \in DOMAIN s /\ t[j] = s[j]
    BY <1>4, <2>1, <2>2 DEF Addressed
  <2>3. CASE t[j] = f
    <3>1. C \subseteq {s[i].consumer}
      BY <1>4, <2>1 DEF InPhase, Asked
    <3>2. QED
      BY <1>4, <2>1, <2>3, <3>1
  <2>4. QED
    BY <1>1, <1>4, <2>2, <2>3
<1>5. QED
  BY <1>3, <1>4 DEF Addressed

LEMMA IntactStays ==
    ASSUME Intact, happened \subseteq happened', in' = in,
           Calm' => /\ queue'.current = queue.current
                    /\ queue'.consuming => queue.consuming /\ queue'.consumerTag = queue.consumerTag
                    /\ queue'.consumeRequested => queue.consumeRequested
    PROVE  Intact'
<1> SUFFICES ASSUME Calm'
             PROVE  /\ Joined(in', queue'.current)
                    /\ Addressed(queue'.consuming, queue'.consumeRequested, queue'.consumerTag, in')
  BY DEF Intact
<1>1. /\ Joined(in, queue.current)
      /\ Addressed(queue.consuming, queue.consumeRequested, queue.consumerTag, in)
  BY DEF Intact, Calm
<1>2. QED
  BY <1>1 DEF Addressed

LEMMA IntactEmpty == ASSUME in' = <<>> PROVE Intact'
<1>1. DOMAIN <<>> = {}
  OBVIOUS
<1>2. QED
  BY <1>1, JoinedEmpty DEF Intact, Addressed

LEMMA UserIntact == ASSUME Ordered, Phased, Intact, User PROVE Intact'
<1>1. Typed
  BY OrderedSays
<1>2. CASE Consume
  <2> SUFFICES ASSUME Calm'
               PROVE  /\ Joined(in', queue'.current)
                      /\ Addressed(queue'.consuming, queue'.consumeRequested, queue'.consumerTag, in')
    BY DEF Intact
  <2>1. /\ ~queue.consumeRequested /\ ~queue.consuming /\ ~queue'.consuming
        /\ queue'.current = queue.current /\ UNCHANGED <<in, happened>>
    BY <1>1, <1>2, ConsumeSays
  <2>2. Unasked(out, in, broker.consumers) /\ Joined(in, queue.current)
    BY <2>1 DEF Phased, InPhase, Intact, Calm
  <2>3. \A i \in DOMAIN in : in[i].type # "ConsumeOk"
    BY <2>2 DEF Unasked, Telling
  <2>4. QED
    BY <2>1, <2>2, <2>3 DEF Addressed
<1>3. CASE Cancel
  <2>1. in' = in /\ queue' = queue /\ happened \subseteq happened'
    BY <1>1, <1>3, CancelSays
  <2>2. QED
    BY <2>1, IntactStays
<1>4. CASE SetConsumerTag
  <2>1. /\ queue'.consuming = queue.consuming /\ queue'.consumeRequested = queue.consumeRequested
        /\ queue'.current = queue.current
        /\ queue.consuming => "retag" \in happened'
    BY <1>1, <1>4, SetConsumerTagSays
  <2>2. in' = in /\ happened \subseteq happened'
    BY <1>1, <1>4, SetConsumerTagSays
  <2>3. Calm' => ~queue'.consuming
    BY <2>1 DEF Calm
  <2>4. QED
    BY <2>1, <2>2, <2>3, IntactStays
<1>5. CASE Simple
  <2>1. PICK f \in OutFrames : happened \subseteq happened' /\ UNCHANGED <<queue, in>>
    BY <1>1, <1>5, SimpleSays
  <2>2. in' = in /\ queue' = queue
    BY <2>1
  <2>3. QED
    BY <2>1, <2>2, IntactStays
<1>6. ASSUME NEW delivery \in held, Ack(delivery) \/ Reject(delivery) PROVE Intact'
  <2>1. PICK f \in OutFrames : Settle(delivery, f)
    BY <1>1, <1>6, SettledSays
  <2>2. in' = in /\ queue' = queue /\ happened \subseteq happened'
    BY <1>1, <2>1, SettleSays
  <2>3. QED
    BY <2>2, IntactStays
<1>7. CASE Reset
  <2>1. /\ Idle(queue') /\ queue'.current = queue.current /\ in' = in
        /\ happened \subseteq happened'
    BY <1>1, <1>7, ResetSays
  <2>2. QED
    BY <2>1, IntactStays DEF Idle
<1>8. QED
  BY <1>2, <1>3, <1>4, <1>5, <1>6, <1>7 DEF User, Simple

LEMMA LinkIntact == ASSUME Ordered, Intact, Link \/ BrokerRefuses PROVE Intact'
<1>1. CASE LinkUp
  <2>1. in' = in /\ queue' = queue /\ happened' = happened
    BY <1>1 DEF LinkUp
  <2>2. QED
    BY <2>1, IntactStays
<1>2. CASE SocketClosed \/ LinkCloses
  <2>1. in' = <<>>
    BY <1>2 DEF SocketClosed, LinkCloses
  <2>2. QED
    BY <2>1, IntactEmpty
<1>3. QED
  BY <1>1, <1>2 DEF Link, LinkLost, BrokerRefuses

\* A frame is read.
LEMMA ReadIntact ==
    ASSUME Ordered, Intact, NEW type, Receive(type),
           Calm => /\ type \in Carried => SameMessage(queue.current, queue'.current)
                   /\ type \in {"Deliver", "GetOk"} => queue'.current = Announced(in[1])
                   /\ Addressed(queue'.consuming, queue'.consumeRequested, queue'.consumerTag, in')
    PROVE  Intact'
<1>1. /\ in \in Seq(InFrames) /\ in # <<>> /\ in' = Tail(in) /\ in[1].type = type
      /\ in[1] \in InFrames /\ happened' = happened /\ Whole(in)
  BY OrderedSays, ReceiveSays DEF Typed
<1> SUFFICES ASSUME Calm PROVE Joined(in', queue'.current)
  BY <1>1 DEF Intact, Calm
<1> DEFINE c == queue.current
           d == queue'.current
<1>2. Joined(in, c)
  BY DEF Intact
<1>3. in[1].type \in Carried => d.tag = c.tag /\ d.message = c.message
  BY <1>1 DEF SameMessage
<1>4. Announces(in[1]) => d.tag = in[1].tag /\ d.message = in[1].message
  BY <1>1, AnnouncedSays DEF Announces
<1> HIDE DEF c, d
<1>5. Joined(Tail(in), d)
  BY <1>1, <1>2, <1>3, <1>4, JoinedTail
<1>6. QED
  BY <1>1, <1>5 DEF d

\* It leaves the consumer alone.
LEMMA ReadAddressed ==
    ASSUME Ordered, Intact, NEW type, Receive(type), Calm,
           queue'.consuming => queue.consuming /\ queue'.consumerTag = queue.consumerTag,
           queue'.consumeRequested => queue.consumeRequested
    PROVE  Addressed(queue'.consuming, queue'.consumeRequested, queue'.consumerTag, in')
<1>1. in \in Seq(InFrames) /\ in # <<>> /\ in' = Tail(in)
  BY OrderedSays, ReceiveSays
<1>2. Addressed(queue.consuming, queue.consumeRequested, queue.consumerTag, in)
  BY DEF Intact
<1>3. Addressed(queue.consuming, queue.consumeRequested, queue.consumerTag, in')
  BY <1>1, <1>2, AddressedTail
<1>4. QED
  BY <1>3 DEF Addressed

\* A delivery that is read is for the consumer the queue has.
LEMMA DeliverIsMine ==
    ASSUME Ordered, Phased, Intact, Calm, Receive("Deliver")
    PROVE  queue.consumerTag = in[1].consumer
<1>1. in[1].type = "Deliver" /\ 1 \in DOMAIN in /\ in \in Seq(InFrames)
  BY OrderedSays, ReceiveSays
<1>2. \A i \in DOMAIN in : i >= 1
  BY <1>1, EntriesAre
<1>3. InPhase(queue.consuming, queue.consumeRequested, queue.consumerTag, out, in,
              broker.consumers)
  BY DEF Phased
<1>4. ~Unasked(out, in, broker.consumers)
  BY <1>1 DEF Unasked, Telling
<1>5. ~Asked(out, in, broker.consumers)
  <2> SUFFICES ASSUME Asked(out, in, broker.consumers) PROVE FALSE
    OBVIOUS
  <2>1. HasType(in, "Deliver")
    BY <1>1 DEF HasType
  <2>2. PICK i \in DOMAIN in : in[i].type = "ConsumeOk"
    BY <2>1 DEF Asked, HasType
  <2>3. 1 > i
    BY <1>1, <2>2 DEF Asked
  <2>4. i \in Int /\ i >= 1
    BY <1>1, EntriesAre
  <2>5. QED
    BY <2>3, <2>4
<1>6. queue.consuming
  BY <1>3, <1>4, <1>5, OrderedSays DEF InPhase
<1>7. QED
  BY <1>1, <1>6 DEF Intact, Addressed

LEMMA ReadingIntact == ASSUME Ordered, Phased, Intact, Reading PROVE Intact'
<1>1. Typed
  BY OrderedSays
<1>2. ASSUME NEW type, Receive(type), type \notin Carried, type \notin {"Deliver", "GetOk"},
             queue'.consuming => queue.consuming /\ queue'.consumerTag = queue.consumerTag,
             queue'.consumeRequested => queue.consumeRequested
      PROVE  Intact'
  BY <1>2, ReadAddressed, ReadIntact
<1>3. CASE ReceiveOpenOk
  <2>1. Receive("OpenOk") /\ SameButOpened(queue, queue')
    BY <1>1, <1>3, ReceiveOpenOkSays
  <2>2. QED
    BY <1>2, <2>1 DEF SameButOpened, Carried
<1>4. CASE ReceiveClose
  <2>1. Receive("Close") /\ SameButOpened(queue, queue')
    BY <1>1, <1>4, ReceiveCloseSays
  <2>2. QED
    BY <1>2, <2>1 DEF SameButOpened, Carried
<1>5. CASE ReceiveCloseOk
  <2>1. Receive("CloseOk") /\ SameButOpened(queue, queue')
    BY <1>1, <1>5, ReceiveCloseOkSays
  <2>2. QED
    BY <1>2, <2>1 DEF SameButOpened, Carried
<1>6. CASE ReceiveConsumeOk
  <2>1. /\ Receive("ConsumeOk") /\ queue'.consumerTag = in[1].consumer
        /\ queue'.consuming = TRUE /\ queue'.consumeRequested = FALSE
    BY <1>1, <1>6, ReceiveConsumeOkSays
  <2>2. /\ in \in Seq(InFrames) /\ in # <<>> /\ in' = Tail(in) /\ in[1].type = "ConsumeOk"
        /\ 1 \in DOMAIN in
    BY <1>1, <2>1, TypedSays, ReceiveSays
  <2>3. ASSUME Calm PROVE Addressed(TRUE, FALSE, in[1].consumer, Tail(in))
    <3>1. /\ InPhase(queue.consuming, queue.consumeRequested, queue.consumerTag, out, in,
                     broker.consumers)
          /\ Addressed(queue.consuming, queue.consumeRequested, queue.consumerTag, in)
      BY <2>3 DEF Phased, Intact
    <3>2. HasType(in, "ConsumeOk")
      BY <2>2 DEF HasType
    <3>3. queue.consumeRequested
      BY <2>2, <3>1, <3>2 DEF InPhase, Unasked, Serving, Telling
    <3>4. \A j \in DOMAIN in : in[j].type = "Deliver" => in[j].consumer = in[1].consumer
      BY <2>2, <3>1, <3>3 DEF Addressed
    <3>5. Addressed(TRUE, FALSE, in[1].consumer, in)
      BY <3>4 DEF Addressed
    <3>6. QED
      BY <2>2, <3>5, AddressedTail
  <2>4. QED
    BY <2>1, <2>2, <2>3, ReadIntact DEF Carried
<1>7. CASE ReceiveCancelOk
  <2>1. /\ Receive("CancelOk")
        /\ \/ queue'.consuming = FALSE /\ queue'.consumeRequested = FALSE
           \/ queue' = queue
    BY <1>1, <1>7, ReceiveCancelOkSays
  <2>2. QED
    BY <1>2, <2>1 DEF Carried
<1>8. CASE ReceiveDeliver
  <2>1. /\ Receive("Deliver") /\ SameButCurrent(queue, queue')
        /\ queue.consumerTag = in[1].consumer => queue'.current = Announced(in[1])
    BY <1>1, <1>8, ReceiveDeliverSays
  <2>2. Calm => queue'.current = Announced(in[1])
    BY <2>1, DeliverIsMine
  <2>3. QED
    BY <2>1, <2>2, ReadAddressed, ReadIntact DEF SameButCurrent, Carried
<1>9. CASE ReceiveGetOk
  <2>1. /\ Receive("GetOk") /\ SameButCurrent(queue, queue')
        /\ queue'.current = Announced(in[1])
    BY <1>1, <1>9, ReceiveGetOkSays
  <2>2. QED
    BY <2>1, ReadAddressed, ReadIntact DEF SameButCurrent, Carried
<1>10. CASE ReceiveGetEmpty
  <2>1. Receive("GetEmpty") /\ queue' = queue
    BY <1>10 DEF ReceiveGetEmpty
  <2>2. QED
    BY <1>2, <2>1 DEF Carried
<1>11. CASE ReceiveHeader \/ ReceiveBody
  <2>1. PICK type \in Carried :
           /\ Receive(type) /\ SameButCurrent(queue, queue')
           /\ SameMessage(queue.current, queue'.current)
    BY <1>1, <1>11, ContentsSay
  <2>2. type \notin {"Deliver", "GetOk"}
    BY DEF Carried
  <2>3. QED
    BY <2>1, <2>2, ReadAddressed, ReadIntact DEF SameButCurrent
<1>12. QED
  BY <1>3, <1>4, <1>5, <1>6, <1>7, <1>8, <1>9, <1>10, <1>11 DEF Reading

\* The broker answers.
LEMMA AnswerIntact ==
    ASSUME Ordered, Intact, UNCHANGED <<queue, happened>>,
           NEW f \in InFrames, in' = Append(in, f), f.type \notin Carried, ~Announces(f),
           f.type # "ConsumeOk"
    PROVE  Intact'
<1> SUFFICES ASSUME Calm
             PROVE  /\ Joined(in', queue.current)
                    /\ Addressed(queue.consuming, queue.consumeRequested, queue.consumerTag, in')
  BY DEF Intact, Calm
<1>1. /\ Joined(in, queue.current) /\ in \in Seq(InFrames)
      /\ Addressed(queue.consuming, queue.consumeRequested, queue.consumerTag, in)
  BY OrderedSays DEF Intact
<1>2. f.type \notin {"ConsumeOk", "Deliver"}
  BY DEF Announces
<1>3. Joined(in', queue.current)
  BY <1>1, JoinedAppend
<1>4. Addressed(queue.consuming, queue.consumeRequested, queue.consumerTag, in')
  BY <1>1, <1>2, AddressedAppend
<1>5. QED
  BY <1>3, <1>4

\* The broker sends a message.
LEMMA NotedIntact ==
    ASSUME Ordered, Phased, Intact, UNCHANGED <<queue, happened>>, NEW f, Noted(f),
           f.type = "Deliver" => f.consumer \in broker.consumers
    PROVE  Intact'
<1> SUFFICES ASSUME Calm
             PROVE  /\ Joined(in', queue.current)
                    /\ Addressed(queue.consuming, queue.consumeRequested, queue.consumerTag, in')
  BY DEF Intact, Calm
<1>1. /\ Joined(in, queue.current) /\ in \in Seq(InFrames) /\ Whole(in)
      /\ Addressed(queue.consuming, queue.consumeRequested, queue.consumerTag, in)
  BY OrderedSays DEF Intact, Typed
<1>2. /\ SentAfter(in, in', f) /\ f \in InFrames /\ Announces(f)
      /\ Carries(f) /\ f.tag = broker.count + 1
  BY DEF Noted
<1>3. f.tag # 0
  <2>1. broker.count \in Nat
    BY OrderedSays, TypedSays
  <2>2. QED
    BY <1>2, <2>1
<1>4. PICK size \in Sizes : in' = in \o Run(f, size, f.message)
  BY <1>2 DEF Carries
<1>5. Joined(in', queue.current)
  BY <1>1, <1>2, <1>3, <1>4, JoinedRun
<1>6. InPhase(queue.consuming, queue.consumeRequested, queue.consumerTag, out, in,
              broker.consumers)
  BY DEF Phased
<1>7. Addressed(queue.consuming, queue.consumeRequested, queue.consumerTag, in')
  BY <1>1, <1>2, <1>6, AddressedSent
<1>8. QED
  BY <1>5, <1>7

LEMMA BrokerConsumesIntact == ASSUME Ordered, Phased, Intact, BrokerConsumes PROVE Intact'
<1>1. /\ BrokerTakes("Consume")
      /\ \E f \in InFrames : f.type = "ConsumeOk" /\ in' = Append(in, f)
  BY OrderedSays, BrokerConsumesSays
<1>2. PICK f \in InFrames : f.type = "ConsumeOk" /\ in' = Append(in, f)
  BY <1>1
<1>3. /\ BrokerUnchanged /\ out[1].type = "Consume" /\ 1 \in DOMAIN out
      /\ in \in Seq(InFrames)
  BY <1>1, OrderedSays, TakesSays
<1>4. UNCHANGED <<queue, happened>>
  BY <1>3, BrokerKeeps
<1> SUFFICES ASSUME Calm
             PROVE  /\ Joined(in', queue.current)
                    /\ Addressed(queue.consuming, queue.consumeRequested, queue.consumerTag, in')
  BY <1>4 DEF Intact, Calm
<1>5. Joined(in, queue.current)
  BY DEF Intact
<1>6. Joined(in', queue.current)
  BY <1>2, <1>3, <1>5, JoinedAppend DEF Carried, Announces
<1>7. InPhase(queue.consuming, queue.consumeRequested, queue.consumerTag, out, in,
              broker.consumers)
  BY DEF Phased
<1>8. HasType(out, "Consume")
  BY <1>3 DEF HasType
<1>9. /\ Asked(out, in, broker.consumers) /\ ~queue.consuming
      /\ ~HasType(in, "ConsumeOk")
  BY <1>3, <1>7, <1>8 DEF InPhase, Unasked, Asked, Serving, Asking
<1>10. \A i \in DOMAIN in : in[i].type # "Deliver"
  BY <1>9 DEF Asked, HasType
<1> DEFINE t == Append(in, f)
           n == Len(in) + 1
<1>11. \A i \in DOMAIN t : (i \in DOMAIN in /\ t[i] = in[i] /\ i < n) \/ (i = n /\ t[i] = f)
  BY <1>3, GrowthIs
<1> HIDE DEF t, n
<1>12. \A i \in DOMAIN t : t[i].type # "Deliver"
  BY <1>2, <1>10, <1>11
<1>13. in' = t
  BY <1>2 DEF t
<1>14. QED
  BY <1>6, <1>9, <1>12, <1>13 DEF Addressed

LEMMA BrokerReadsIntact == ASSUME Ordered, Phased, Intact, BrokerReads PROVE Intact'
<1>1. Typed
  BY OrderedSays
<1>2. ASSUME NEW type, BrokerTakes(type) PROVE UNCHANGED <<queue, happened>>
  BY <1>1, <1>2, TakesSays, BrokerKeeps
<1>3. ASSUME NEW type, BrokerTakes(type), in' = in PROVE Intact'
  BY <1>2, <1>3, IntactStays
<1>4. ASSUME NEW type, BrokerTakes(type),
             \E f \in InFrames : /\ f.type \in {"OpenOk", "CancelOk", "GetEmpty", "Close", "CloseOk"}
                                 /\ in' = Append(in, f)
      PROVE  Intact'
  BY <1>2, <1>4, AnswerIntact DEF Carried, Announces
<1>5. CASE BrokerOpens
  <2>1. BrokerTakes("Open") /\ \E f \in InFrames : f.type = "OpenOk" /\ in' = Append(in, f)
    BY <1>1, <1>5, BrokerOpensSays
  <2>2. QED
    BY <1>4, <2>1
<1>6. CASE BrokerCancels
  <2>1. /\ BrokerTakes("Cancel")
        /\ in' = in \/ \E f \in InFrames : f.type = "CancelOk" /\ in' = Append(in, f)
    BY <1>1, <1>6, BrokerCancelsSays
  <2>2. QED
    BY <1>3, <1>4, <2>1
<1>7. CASE BrokerGets
  <2>1. /\ BrokerTakes("Get")
        /\ \/ \E f : Noted(f) /\ f.type = "GetOk"
           \/ \E f \in InFrames : f.type = "GetEmpty" /\ in' = Append(in, f)
    BY <1>1, <1>7, BrokerGetsSays
  <2>2. CASE \E f : Noted(f) /\ f.type = "GetOk"
    <3>1. PICK f : Noted(f) /\ f.type = "GetOk"
      BY <2>2
    <3>2. UNCHANGED <<queue, happened>>
      BY <1>2, <2>1
    <3>3. QED
      BY <3>1, <3>2, NotedIntact
  <2>3. CASE \E f \in InFrames : f.type = "GetEmpty" /\ in' = Append(in, f)
    BY <1>4, <2>1, <2>3
  <2>4. QED
    BY <2>1, <2>2, <2>3
<1>8. CASE BrokerSettles
  <2>1. PICK type \in {"Ack", "Reject"} : BrokerTakes(type) /\ (Shuts \/ in' = in)
    BY <1>1, <1>8, BrokerSettlesSays
  <2>2. Shuts => \E f \in InFrames : f.type = "Close" /\ in' = Append(in, f)
    BY DEF Shuts
  <2>3. QED
    BY <1>3, <1>4, <2>1, <2>2
<1>9. CASE BrokerAnswersClose
  <2>1. BrokerTakes("Close") /\ \E f \in InFrames : f.type = "CloseOk" /\ in' = Append(in, f)
    BY <1>9, BrokerAnswersCloseSays
  <2>2. QED
    BY <1>4, <2>1
<1>10. CASE BrokerWaitsForCloseOk
  <2>1. PICK type \in {"Open", "Consume", "Cancel", "Get", "Ack", "Reject", "CloseOk"} :
           BrokerTakes(type) /\ in' = in
    BY <1>10, BrokerWaitsSays
  <2>2. QED
    BY <1>3, <2>1
<1>11. QED
  BY <1>5, <1>6, <1>7, <1>8, <1>9, <1>10, BrokerConsumesIntact, LinkIntact DEF BrokerReads

LEMMA InitIntact == Init => Intact
<1> SUFFICES ASSUME Init PROVE Intact
  OBVIOUS
<1>1. in = <<>> /\ DOMAIN <<>> = {}
  BY DEF Init
<1>2. QED
  BY <1>1, JoinedEmpty DEF Intact, Addressed

LEMMA NextIntact == ASSUME Ordered, Phased, Intact, [Next]_vars PROVE Intact'
<1>1. Typed
  BY OrderedSays
<1>2. CASE BrokerDelivers
  <2>1. PICK f : Noted(f) /\ f.type = "Deliver" /\ f.consumer \in broker.consumers
    BY <1>1, <1>2, BrokerDeliversSays
  <2>2. UNCHANGED <<queue, happened>>
    BY <1>1, <1>2, BrokerDeliversSays, BrokerKeeps
  <2>3. QED
    BY <2>1, <2>2, NotedIntact
<1>3. CASE BrokerClosesChannel
  <2>1. Shuts /\ UNCHANGED <<queue, happened>>
    BY <1>1, <1>3, BrokerClosesChannelSays
  <2>2. PICK f \in InFrames : f.type = "Close" /\ in' = Append(in, f)
    BY <2>1 DEF Shuts
  <2>3. QED
    BY <2>1, <2>2, AnswerIntact DEF Carried, Announces
<1>4. CASE UNCHANGED vars
  <2>1. UNCHANGED <<queue, in, happened>>
    BY <1>4 DEF vars
  <2>2. QED
    BY <2>1, IntactStays
<1>5. QED
  BY <1>2, <1>3, <1>4, UserIntact, LinkIntact, ReadingIntact, BrokerReadsIntact DEF Next

-----------------------------------------------------------------------------
(* The refinement of Deliveries.                                           *)

\* What is left of message c when the frames s are still to be read.
Part(s, c) ==
    LET size == IF Head(s).type = "Header" THEN Head(s).size ELSE c.left
    IN  IF s # <<>> /\ Head(s).type \in Carried
        THEN <<[tag |-> c.tag, channel |-> c.channel, message |-> c.message,
                payload |-> c.payload \o Copies(c.message, size)]>>
        ELSE <<>>

LEMMA UnderWayIs ==
    /\ UnderWay = Part(in, queue.current) \o AnnouncedIn(in)
    /\ UnderWay' = Part(in', queue'.current) \o AnnouncedIn(in')
  BY DEF UnderWay, Partial, Part, AnnouncedIn, Announces, MessageAt, Sent, Carried

LEMMA AnnouncedEmpty == AnnouncedIn(<<>>) = <<>> /\ \A c : Part(<<>>, c) = <<>>
<1> DEFINE e == <<>>
<1>1. e \in Seq(InFrames) /\ Whole(e) /\ e \in Seq(Int) /\ DOMAIN e = {}
  BY EmptyIsWhole
<1>2. AnnouncedIn(e) \in Seq(Delivery)
  BY <1>1, AnnouncedIs
<1>3. Ascending(e, {i \in DOMAIN e : Announces(e[i])})
  BY <1>1 DEF Ascending
<1>4. AnnouncedIn(e) = [j \in DOMAIN e |-> MessageAt(e, e[j])]
  BY <1>1, <1>3, AnnouncedIs
<1>5. DOMAIN AnnouncedIn(e) = {}
  BY <1>1, <1>4
<1> HIDE DEF e
<1>6. AnnouncedIn(e) = <<>>
  BY <1>2, <1>5
<1>7. QED
  BY <1>6 DEF e, Part

\* The frame that is read is no part of a message.
LEMMA PartPlain ==
    ASSUME NEW s \in Seq(InFrames), s # <<>>, Whole(s), s[1].type \notin Carried, ~Announces(s[1])
    PROVE  \A c : Part(s, c) = <<>> /\ Part(Tail(s), c) = <<>>
<1> DEFINE t == Tail(s)
<1>1. /\ t \in Seq(InFrames) /\ Head(s) = s[1] /\ 1 \in DOMAIN s
      /\ \A i \in DOMAIN t : t[i] = s[i + 1] /\ i + 1 \in DOMAIN s
  BY TailIs
<1>2. t # <<>> => Head(t) = t[1] /\ 1 \in DOMAIN t
  BY <1>1
<1> HIDE DEF t
<1>3. ASSUME t # <<>> PROVE Head(t).type \notin Carried
  <2>1. Head(t) = s[2] /\ 2 \in DOMAIN s /\ 2 = 1 + 1
    BY <1>1, <1>2, <1>3
  <2>2. QED
    BY <1>1, <2>1 DEF Whole, Carried
<1>4. QED
  BY <1>1, <1>3 DEF Part, t

\* It announces a message.
LEMMA PartStarts ==
    ASSUME NEW s \in Seq(InFrames), s # <<>>, Whole(s), Announces(s[1])
    PROVE  /\ \A c : Part(s, c) = <<>>
           /\ Part(Tail(s), Announced(s[1])) = <<MessageAt(s, 1)>>
<1> DEFINE t == Tail(s)
           c == Announced(s[1])
           cs == Copies(s[1].message, s[2].size)
<1>1. /\ t \in Seq(InFrames) /\ Head(s) = s[1] /\ 1 \in DOMAIN s
      /\ \A i \in DOMAIN t : t[i] = s[i + 1] /\ i + 1 \in DOMAIN s
      /\ DOMAIN s = 1..Len(s) /\ DOMAIN t = 1..(Len(s) - 1) /\ Len(s) \in Nat
  BY TailIs
<1>2. 1 + 1 \in DOMAIN s /\ s[1 + 1].type = "Header" /\ s[1 + 1].size \in Nat /\ s[1].message \in Messages
  BY <1>1, MessageIs
<1>3. 1 + 1 = 2
  OBVIOUS
<1> HIDE DEF t
<1>4. t # <<>> /\ Head(t) = s[2] /\ s[2].type = "Header" /\ s[2].size \in Nat
  <2>1. 1 \in DOMAIN t
    BY <1>1, <1>2, <1>3
  <2>2. t # <<>>
    BY <2>1
  <2>3. Head(t) = t[1]
    BY <1>1, <2>2
  <2>4. QED
    BY <1>1, <1>2, <1>3, <2>1, <2>2, <2>3
<1>5. s[1].type \notin Carried
  BY DEF Announces, Carried
<1>6. /\ c.tag = s[1].tag /\ c.channel = s[1].channel /\ c.message = s[1].message
      /\ c.payload = <<>>
  BY DEF Announced
<1>7. cs \in Seq(Messages)
  BY <1>2, <1>4, CopiesAre
<1> HIDE DEF c
<1>8. <<>> \o cs = cs
  <2> HIDE DEF cs
  <2>1. QED
    BY <1>7
<1>9. Part(t, c) = <<[tag |-> s[1].tag, channel |-> s[1].channel, message |-> s[1].message,
                      payload |-> <<>> \o cs]>>
  BY <1>4, <1>6 DEF Part, Carried
<1>10. Part(t, c) = <<MessageAt(s, 1)>>
  BY <1>3, <1>8, <1>9 DEF MessageAt
<1>11. QED
  BY <1>1, <1>5, <1>10 DEF Part, t, c

\* What is read of a message is no longer left of it.
LEMMA PartHeader ==
    ASSUME NEW s \in Seq(InFrames), s # <<>>, Whole(s), s[1].type = "Header",
           NEW c \in CurrentMessage, NEW d \in CurrentMessage, SameMessage(c, d),
           d.payload = c.payload, d.left = s[1].size, c.message \in Messages
    PROVE  /\ d.left = 0 => Part(s, c) = <<DeliveryOf(d)>> /\ Part(Tail(s), d) = <<>>
           /\ d.left # 0 => Part(Tail(s), d) = Part(s, c)
<1> DEFINE t == Tail(s)
           n == d.left
           cs == Copies(c.message, n)
<1>1. /\ t \in Seq(InFrames) /\ Head(s) = s[1] /\ 1 \in DOMAIN s
      /\ \A i \in DOMAIN t : t[i] = s[i + 1] /\ i + 1 \in DOMAIN s
      /\ DOMAIN t = 1..Len(t) /\ Len(t) \in Nat
  BY TailIs, EntriesAre
<1>2. n \in Nat /\ c.payload \in Seq(Messages)
  BY DEF CurrentMessage
<1>3. Follow(s, 1, n)
  BY <1>1 DEF Whole
<1>4. Follow(t, 0, n)
  <2>1. n + 1 >= 1 /\ n + 1 - 1 = n
    BY <1>2
  <2>2. QED
    BY <1>2, <1>3, <2>1, FollowTail
<1>5. t # <<>> => Head(t) = t[1] /\ 1 \in DOMAIN t
  BY <1>1
<1>6. cs \in Seq(Messages) /\ (n = 0 => cs = <<>>)
  <2>1. cs \in Seq(Messages) /\ Len(cs) = n
    BY <1>2, CopiesAre
  <2> HIDE DEF cs
  <2>2. QED
    BY <2>1
<1> HIDE DEF t, cs, n
<1>7. Part(s, c) = <<[tag |-> c.tag, channel |-> c.channel, message |-> c.message,
                      payload |-> c.payload \o cs]>>
  BY <1>1 DEF Part, Carried, cs, n
<1>8. CASE n = 0
  <2>1. c.payload \o cs = d.payload
    <3> DEFINE p == c.payload
    <3>1. p \in Seq(Messages) /\ cs = <<>>
      BY <1>2, <1>6, <1>8
    <3> HIDE DEF p
    <3>2. p \o cs = p
      BY <3>1
    <3>3. QED
      BY <3>2 DEF p
  <2>2. t # <<>> => Head(t).type \notin Carried
    <3>1. 1 = 0 + n + 1
      BY <1>8
    <3>2. QED
      BY <1>4, <1>5, <3>1 DEF Follow
  <2>3. Part(s, c) = <<DeliveryOf(d)>>
    BY <1>7, <2>1 DEF SameMessage, DeliveryOf
  <2>4. QED
    BY <1>8, <2>2, <2>3 DEF Part, t, n
<1>9. CASE n # 0
  <2>1. t # <<>> /\ Head(t).type = "Body"
    <3>1. 1 \in DOMAIN t /\ 0 < 1 /\ 1 <= 0 + n
      BY <1>1, <1>2, <1>4, <1>9 DEF Follow
    <3>2. t # <<>>
      BY <3>1
    <3>3. QED
      BY <1>4, <1>5, <3>1, <3>2 DEF Follow
  <2>2. Part(t, d) = <<[tag |-> c.tag, channel |-> c.channel, message |-> c.message,
                        payload |-> c.payload \o cs]>>
    BY <2>1 DEF Part, SameMessage, Carried, cs, n
  <2>3. QED
    BY <1>7, <1>9, <2>2 DEF t, n
<1>10. QED
  BY <1>8, <1>9 DEF n

LEMMA CopiesMore ==
    ASSUME NEW m \in Messages, NEW n \in Nat, n # 0, NEW p \in Seq(Messages)
    PROVE  Append(p, m) \o Copies(m, n - 1) = p \o Copies(m, n)
<1> DEFINE a == Append(p, m)
           b == Copies(m, n - 1)
           c == Copies(m, n)
           L == Len(p)
           u == a \o b
           v == p \o c
<1>0. n - 1 \in Nat /\ n \in Int /\ L \in Nat
  OBVIOUS
<1>1. /\ b \in Seq(Messages) /\ Len(b) = n - 1 /\ \A i \in 1..(n - 1) : b[i] = m
      /\ c \in Seq(Messages) /\ Len(c) = n /\ \A i \in 1..n : c[i] = m
  BY <1>0, CopiesAre
<1>2. /\ a \in Seq(Messages) /\ Len(a) = L + 1 /\ a[L + 1] = m
      /\ \A i \in 1..L : a[i] = p[i]
  BY AppendEntries
<1> HIDE DEF a, b, c, L
<1>3. /\ DOMAIN u = 1..(Len(a) + Len(b)) /\ Len(a) \in Nat /\ Len(b) \in Nat /\ u \in Seq(Messages)
      /\ \A i \in 1..(Len(a) + Len(b)) : u[i] = IF i <= Len(a) THEN a[i] ELSE b[i - Len(a)]
  BY <1>1, <1>2, ConcatEntries
<1>4. /\ DOMAIN v = 1..(Len(p) + Len(c)) /\ Len(p) \in Nat /\ Len(c) \in Nat /\ v \in Seq(Messages)
      /\ \A i \in 1..(Len(p) + Len(c)) : v[i] = IF i <= Len(p) THEN p[i] ELSE c[i - Len(p)]
  BY <1>1, ConcatEntries
<1>5. Len(p) = L
  BY DEF L
<1> HIDE DEF u, v
<1>6. DOMAIN u = 1..(L + n) /\ DOMAIN v = 1..(L + n)
  <2>1. L + 1 + (n - 1) = L + n
    BY <1>0
  <2>2. QED
    BY <1>1, <1>2, <1>3, <1>4, <1>5, <2>1
<1>7. ASSUME NEW i \in 1..(L + n) PROVE u[i] = v[i]
  <2>0. i \in Int /\ i >= 1 /\ i <= L + n
    BY <1>0
  <2>1. u[i] = IF i <= L + 1 THEN a[i] ELSE b[i - (L + 1)]
    BY <1>2, <1>3, <1>6
  <2>2. v[i] = IF i <= L THEN p[i] ELSE c[i - L]
    BY <1>4, <1>5, <1>6
  <2>3. CASE i <= L
    <3>1. i \in 1..L /\ i <= L + 1
      BY <1>0, <2>0, <2>3
    <3>2. QED
      BY <1>2, <2>1, <2>2, <2>3, <3>1
  <2>4. CASE i = L + 1
    <3>1. ~(i <= L) /\ i <= L + 1 /\ i - L = 1 /\ 1 \in 1..n
      BY <1>0, <2>0, <2>4
    <3>2. QED
      BY <1>1, <1>2, <2>1, <2>2, <2>4, <3>1
  <2>5. CASE i > L + 1
    <3>1. ~(i <= L) /\ ~(i <= L + 1) /\ i - L \in 1..n /\ i - (L + 1) \in 1..(n - 1)
      BY <1>0, <2>0, <2>5
    <3>2. QED
      BY <1>1, <2>1, <2>2, <3>1
  <2>6. QED
    BY <1>0, <2>0, <2>3, <2>4, <2>5
<1>8. u = v
  <2>1. u = [i \in DOMAIN u |-> u[i]] /\ v = [i \in DOMAIN v |-> v[i]]
    BY <1>3, <1>4
  <2>2. QED
    BY <1>6, <1>7, <2>1
<1>9. QED
  BY <1>8 DEF u, v, a, b, c

LEMMA PartBody ==
    ASSUME NEW s \in Seq(InFrames), s # <<>>, Whole(s), s[1].type = "Body",
           NEW c \in CurrentMessage, NEW d \in CurrentMessage, SameMessage(c, d),
           c.message \in Messages, c.left # 0, Follow(s, 0, c.left),
           d.payload = Append(c.payload, c.message), d.left = c.left - 1
    PROVE  /\ d.left = 0 => Part(s, c) = <<DeliveryOf(d)>> /\ Part(Tail(s), d) = <<>>
           /\ d.left # 0 => Part(Tail(s), d) = Part(s, c)
<1> DEFINE t == Tail(s)
           n == d.left
           cs == Copies(c.message, n)
<1>1. /\ t \in Seq(InFrames) /\ Head(s) = s[1] /\ 1 \in DOMAIN s
      /\ DOMAIN t = 1..Len(t) /\ Len(t) \in Nat
  BY TailIs, EntriesAre
<1>2. n \in Nat /\ c.payload \in Seq(Messages) /\ c.left \in Nat /\ n = c.left - 1
      /\ d.payload \in Seq(Messages)
  BY DEF CurrentMessage
<1>3. Follow(t, 0, n)
  <2>1. c.left + 0 >= 1 /\ c.left + 0 - 1 = n
    BY <1>2
  <2>2. QED
    BY <1>2, <2>1, FollowTail
<1>4. t # <<>> => Head(t) = t[1] /\ 1 \in DOMAIN t
  BY <1>1
<1>5. cs \in Seq(Messages) /\ (n = 0 => cs = <<>>)
  <2>1. cs \in Seq(Messages) /\ Len(cs) = n
    BY <1>2, CopiesAre
  <2> HIDE DEF cs
  <2>2. QED
    BY <2>1
<1>6. d.payload \o cs = c.payload \o Copies(c.message, c.left)
  BY <1>2, CopiesMore
<1> HIDE DEF t, cs, n
<1>7. Part(s, c) = <<[tag |-> c.tag, channel |-> c.channel, message |-> c.message,
                      payload |-> d.payload \o cs]>>
  BY <1>1, <1>6 DEF Part, Carried
<1>8. CASE n = 0
  <2>1. d.payload \o cs = d.payload
    <3> DEFINE p == d.payload
    <3>1. p \in Seq(Messages) /\ cs = <<>>
      BY <1>2, <1>5, <1>8
    <3> HIDE DEF p
    <3>2. p \o cs = p
      BY <3>1
    <3>3. QED
      BY <3>2 DEF p
  <2>2. t # <<>> => Head(t).type \notin Carried
    <3>1. 1 = 0 + n + 1
      BY <1>8
    <3>2. QED
      BY <1>3, <1>4, <3>1 DEF Follow
  <2>3. Part(s, c) = <<DeliveryOf(d)>>
    BY <1>7, <2>1 DEF SameMessage, DeliveryOf
  <2>4. QED
    BY <1>8, <2>2, <2>3 DEF Part, t, n
<1>9. CASE n # 0
  <2>1. t # <<>> /\ Head(t).type = "Body"
    <3>1. 1 \in DOMAIN t /\ 0 < 1 /\ 1 <= 0 + n
      BY <1>1, <1>2, <1>3, <1>9 DEF Follow
    <3>2. t # <<>>
      BY <3>1
    <3>3. QED
      BY <1>3, <1>4, <3>1, <3>2 DEF Follow
  <2>2. Part(t, d) = <<[tag |-> c.tag, channel |-> c.channel, message |-> c.message,
                        payload |-> d.payload \o cs]>>
    BY <2>1 DEF Part, SameMessage, Carried, cs, n
  <2>3. QED
    BY <1>7, <1>9, <2>2 DEF t, n
<1>10. QED
  BY <1>8, <1>9 DEF n

\* More frames come, after those that are there.
LEMMA PartGrows ==
    ASSUME NEW s \in Seq(InFrames), NEW t \in Seq(InFrames),
           \A i \in DOMAIN s : i \in DOMAIN t /\ t[i] = s[i],
           s = <<>> => t = <<>> \/ t[1].type \notin Carried
    PROVE  \A c : Part(t, c) = Part(s, c)
<1>1. CASE s = <<>>
  <2>1. t # <<>> => Head(t) = t[1]
    OBVIOUS
  <2>2. QED
    BY <1>1, <2>1 DEF Part
<1>2. CASE s # <<>>
  <2>1. 1 \in DOMAIN s /\ Head(s) = s[1]
    BY <1>2, TailEntries
  <2>2. 1 \in DOMAIN t /\ t[1] = s[1]
    BY <2>1
  <2>3. t # <<>>
    BY <2>2
  <2>4. Head(t) = s[1]
    BY <2>2, <2>3
  <2>5. QED
    BY <1>2, <2>1, <2>3, <2>4 DEF Part
<1>3. QED
  BY <1>1, <1>2

LEMMA FirstOut ==
    ASSUME NEW S, NEW x \in S, NEW F \in Seq(S)
    PROVE  <<x>> \o F # <<>> /\ Head(<<x>> \o F) = x /\ Tail(<<x>> \o F) = F
<1> DEFINE u == <<x>> \o F
           a == <<x>>
           t == Tail(u)
<1>1. a \in Seq(S) /\ Len(a) = 1 /\ a[1] = x
  OBVIOUS
<1> HIDE DEF a
<1>2. /\ u \in Seq(S) /\ DOMAIN u = 1..(1 + Len(F)) /\ Len(F) \in Nat /\ DOMAIN F = 1..Len(F)
      /\ \A i \in 1..(1 + Len(F)) : u[i] = IF i <= 1 THEN a[i] ELSE F[i - 1]
  BY <1>1, ConcatEntries DEF a
<1> HIDE DEF u
<1>3. u # <<>> /\ u[1] = x
  <2>1. 1 \in 1..(1 + Len(F))
    BY <1>2
  <2>2. 1 \in DOMAIN u
    BY <1>2, <2>1
  <2>3. u # <<>>
    BY <2>2
  <2>4. QED
    BY <1>1, <1>2, <2>1, <2>3
<1>4. /\ Head(u) = u[1] /\ t \in Seq(S) /\ DOMAIN t = 1..(Len(u) - 1) /\ DOMAIN u = 1..Len(u)
      /\ Len(u) \in Nat
      /\ \A i \in DOMAIN t : t[i] = u[i + 1] /\ i \in Int /\ i >= 1 /\ i + 1 \in DOMAIN u
  BY <1>2, <1>3, TailIs
<1>5. Len(u) = 1 + Len(F)
  BY <1>2, <1>4
<1> HIDE DEF t
<1>6. DOMAIN t = DOMAIN F
  <2>1. 1 + Len(F) - 1 = Len(F)
    BY <1>2
  <2>2. QED
    BY <1>2, <1>4, <1>5, <2>1
<1>7. ASSUME NEW i \in DOMAIN t PROVE t[i] = F[i]
  <2>1. i \in Int /\ i >= 1 /\ i + 1 \in 1..(1 + Len(F)) /\ ~(i + 1 <= 1) /\ (i + 1) - 1 = i
    BY <1>2, <1>4
  <2>2. QED
    BY <1>2, <1>4, <2>1
<1>8. t = F
  <2>1. t = [i \in DOMAIN t |-> t[i]] /\ F = [i \in DOMAIN F |-> F[i]]
    BY <1>4
  <2>2. QED
    BY <1>6, <1>7, <2>1
<1>9. QED
  BY <1>3, <1>4, <1>8 DEF t, u, a

LEMMA LastIn ==
    ASSUME NEW S, NEW p \in Seq(S), NEW F \in Seq(S), NEW x \in S
    PROVE  LET u == p \o F
               v == p \o Append(F, x)
           IN  v # <<>> /\ u = SubSeq(v, 1, Len(v) - 1)
<1> DEFINE u == p \o F
           v == p \o Append(F, x)
<1>1. u \in Seq(S) /\ v = Append(u, x)
  OBVIOUS
<1> HIDE DEF u, v
<1>2. v # <<>> /\ Len(v) = Len(u) + 1 /\ Len(u) \in Nat
  BY <1>1
<1>3. Len(v) - 1 = Len(u)
  BY <1>2
<1>4. SubSeq(Append(u, x), 1, Len(u)) = u
  BY <1>1
<1>5. QED
  BY <1>1, <1>2, <1>3, <1>4 DEF u, v

\* An action that Deliveries does not see.
LEMMA Stutters ==
    ASSUME (link' = "up") <=> (link = "up"), UnderWay' = UnderWay, received' = received
    PROVE  [D!Next]_(D!vars)
  BY DEF D!vars

\* A frame is read that is no part of a message.
LEMMA PlainDelivers ==
    ASSUME Ordered, NEW type, Receive(type), type \notin Carried, type \notin {"Deliver", "GetOk"},
           received' = received
    PROVE  [D!Next]_(D!vars)
<1>1. /\ in \in Seq(InFrames) /\ Whole(in) /\ in # <<>> /\ in' = Tail(in)
      /\ in[1].type = type /\ link' = link
  BY OrderedSays, ReceiveSays DEF Typed
<1>2. ~Announces(in[1])
  BY <1>1 DEF Announces
<1>3. Part(in, queue.current) = <<>> /\ Part(in', queue'.current) = <<>>
  BY <1>1, <1>2, PartPlain
<1>4. AnnouncedIn(in') = AnnouncedIn(in)
  BY <1>1, <1>2, AnnouncedTailIs
<1>5. UnderWay' = UnderWay
  BY <1>3, <1>4, UnderWayIs
<1>6. QED
  BY <1>1, <1>5, Stutters

\* A frame is read that announces a message.
LEMMA AnnouncementDelivers ==
    ASSUME Ordered, NEW type \in {"Deliver", "GetOk"}, Receive(type),
           queue'.current = Announced(in[1]), received' = received
    PROVE  [D!Next]_(D!vars)
<1>1. /\ in \in Seq(InFrames) /\ Whole(in) /\ in # <<>> /\ in' = Tail(in)
      /\ in[1].type = type /\ link' = link /\ in' \in Seq(InFrames) /\ Whole(in')
      /\ 1 \in DOMAIN in
  BY OrderedSays, ReceiveSays DEF Typed
<1>2. Announces(in[1])
  BY <1>1 DEF Announces
<1> DEFINE m == MessageAt(in, 1)
           F == AnnouncedIn(in')
<1>3. Part(in, queue.current) = <<>> /\ Part(in', queue'.current) = <<m>>
  BY <1>1, <1>2, PartStarts
<1>4. AnnouncedIn(in) = <<m>> \o F
  BY <1>1, <1>2, AnnouncedTailIs
<1>5. F \in Seq(Delivery) /\ m \in Delivery
  BY <1>1, <1>2, AnnouncedIs, MessageIs
<1> HIDE DEF m, F
<1>6. <<>> \o (<<m>> \o F) = <<m>> \o F
  BY <1>5
<1>7. UnderWay' = UnderWay
  BY <1>3, <1>4, <1>6, UnderWayIs DEF F
<1>8. QED
  BY <1>1, <1>7, Stutters

\* A frame of a message is read; d is what becomes of the message.
LEMMA ContentDelivers ==
    ASSUME Ordered, NEW type \in Carried, Receive(type), NEW d \in CurrentMessage,
           queue'.current = d, d.message \in Messages,
           received' = IF d.left = 0 THEN Append(received, DeliveryOf(d)) ELSE received,
           d.left = 0 => Part(in, queue.current) = <<DeliveryOf(d)>> /\ Part(in', d) = <<>>,
           d.left # 0 => Part(in', d) = Part(in, queue.current)
    PROVE  [D!Next]_(D!vars)
<1>1. /\ in \in Seq(InFrames) /\ Whole(in) /\ in # <<>> /\ in' = Tail(in)
      /\ in[1].type = type /\ link = "up" /\ link' = link
      /\ in' \in Seq(InFrames) /\ Whole(in')
  BY OrderedSays, ReceiveSays DEF Typed
<1>2. ~Announces(in[1])
  BY <1>1 DEF Announces, Carried
<1> DEFINE F == AnnouncedIn(in')
           x == DeliveryOf(d)
<1>3. AnnouncedIn(in) = F /\ F \in Seq(Delivery)
  BY <1>1, <1>2, AnnouncedTailIs, AnnouncedIs
<1>4. x \in Delivery
  BY DEF DeliveryOf, Delivery, CurrentMessage
<1>5. UnderWay = Part(in, queue.current) \o F /\ UnderWay' = Part(in', d) \o F
  BY <1>3, UnderWayIs
<1> HIDE DEF F
<1>6. CASE d.left # 0
  <2>1. UnderWay' = UnderWay /\ received' = received
    BY <1>5, <1>6
  <2>2. QED
    BY <1>1, <2>1, Stutters
<1>7. CASE d.left = 0
  <2> HIDE DEF x
  <2>1. UnderWay = <<x>> \o F /\ UnderWay' = <<>> \o F /\ received' = Append(received, x)
    BY <1>5, <1>7 DEF x
  <2>2. <<>> \o F = F
    BY <1>3
  <2>3. UnderWay # <<>> /\ UnderWay' = Tail(UnderWay) /\ received' = Append(received, Head(UnderWay))
    BY <1>3, <1>4, <2>1, <2>2, FirstOut
  <2>4. D!Receive
    BY <1>1, <2>3 DEF D!Receive
  <2>5. QED
    BY <2>4 DEF D!Next
<1>8. QED
  BY <1>6, <1>7

LEMMA HeaderDelivers == ASSUME Ordered, Intact, Calm, ReceiveHeader PROVE [D!Next]_(D!vars)
<1> DEFINE c == queue.current
           d == [c EXCEPT !.left = in[1].size]
<1>1. Receive("Header")
  BY DEF ReceiveHeader
<1>2. /\ in \in Seq(InFrames) /\ Whole(in) /\ in # <<>> /\ in' = Tail(in)
      /\ in[1].type = "Header" /\ Head(in) = in[1] /\ in[1].size \in Nat
      /\ c \in CurrentMessage /\ Typed
  BY <1>1, OrderedSays, ReceiveSays, TypedSays, InFramesAre DEF Typed
<1>3. c.tag # 0
  BY <1>2 DEF Intact, Joined, Carried
<1>4. Becomes(d)
  BY <1>2, <1>3 DEF ReceiveHeader
<1>5. /\ d \in CurrentMessage /\ SameMessage(c, d) /\ d.payload = c.payload
      /\ d.left = in[1].size
  BY <1>2 DEF CurrentMessage, SameMessage
<1>6. c.message \in Messages
  BY <1>2, <1>3 DEF Typed
<1> HIDE DEF c, d
<1>7. d.message \in Messages
  BY <1>5, <1>6 DEF SameMessage
<1>8. queue'.current = d
  BY <1>2, <1>4, <1>5, <1>7, BecomesSays
<1>9. received' = IF d.left = 0 THEN Append(received, DeliveryOf(d)) ELSE received
  BY <1>4 DEF Becomes, DeliveryOf
<1>10. /\ d.left = 0 => Part(in, c) = <<DeliveryOf(d)>> /\ Part(in', d) = <<>>
       /\ d.left # 0 => Part(in', d) = Part(in, c)
  BY <1>2, <1>5, <1>6, PartHeader
<1>11. QED
  BY <1>1, <1>5, <1>7, <1>8, <1>9, <1>10, ContentDelivers DEF c, Carried

LEMMA BodyDelivers == ASSUME Ordered, Intact, Calm, ReceiveBody PROVE [D!Next]_(D!vars)
<1> DEFINE c == queue.current
           d == [c EXCEPT !.payload = Append(@, in[1].message), !.left = @ - 1]
<1>1. Receive("Body")
  BY DEF ReceiveBody
<1>2. /\ in \in Seq(InFrames) /\ Whole(in) /\ in # <<>> /\ in' = Tail(in)
      /\ in[1].type = "Body" /\ Head(in) = in[1] /\ 1 \in DOMAIN in
      /\ c \in CurrentMessage /\ Typed
  BY <1>1, OrderedSays, ReceiveSays, TypedSays DEF Typed
<1>3. c.tag # 0 /\ in[1].message = c.message
  BY <1>2 DEF Intact, Joined, Carried
<1>4. Becomes(d)
  BY <1>2, <1>3 DEF ReceiveBody
<1>5. c.message \in Messages /\ Follow(in, 0, c.left)
  BY <1>2, <1>3 DEF Typed, Rest
<1>6. c.left # 0
  BY <1>2, <1>5 DEF Follow, Carried
<1>7. c.left - 1 \in Nat /\ Append(c.payload, c.message) \in Seq(Messages)
  <2>1. c.left \in Nat /\ c.payload \in Seq(Messages)
    BY <1>2 DEF CurrentMessage
  <2>2. QED
    BY <1>5, <1>6, <2>1
<1>8. /\ d \in CurrentMessage /\ SameMessage(c, d) /\ d.payload = Append(c.payload, c.message)
      /\ d.left = c.left - 1
  BY <1>2, <1>3, <1>7 DEF CurrentMessage, SameMessage
<1> HIDE DEF c, d
<1>9. d.message \in Messages
  BY <1>5, <1>8 DEF SameMessage
<1>10. queue'.current = d
  BY <1>2, <1>4, <1>8, <1>9, BecomesSays
<1>11. received' = IF d.left = 0 THEN Append(received, DeliveryOf(d)) ELSE received
  BY <1>4 DEF Becomes, DeliveryOf
<1>12. /\ d.left = 0 => Part(in, c) = <<DeliveryOf(d)>> /\ Part(in', d) = <<>>
       /\ d.left # 0 => Part(in', d) = Part(in, c)
  BY <1>2, <1>5, <1>6, <1>8, PartBody
<1>13. QED
  BY <1>1, <1>8, <1>9, <1>10, <1>11, <1>12, ContentDelivers DEF c, Carried

LEMMA ReadingDelivers ==
    ASSUME Ordered, Phased, Intact, Calm, Reading PROVE [D!Next]_(D!vars)
<1>1. Typed
  BY OrderedSays
<1>2. ASSUME ReceiveOpenOk \/ ReceiveClose \/ ReceiveCloseOk \/ ReceiveConsumeOk
                \/ ReceiveCancelOk \/ ReceiveGetEmpty
      PROVE  [D!Next]_(D!vars)
  <2>1. PICK type \in {"OpenOk", "Close", "CloseOk", "ConsumeOk", "CancelOk", "GetEmpty"} :
           Receive(type)
    BY <1>2 DEF ReceiveOpenOk, ReceiveClose, ReceiveCloseOk, ReceiveConsumeOk, ReceiveCancelOk,
                ReceiveGetEmpty
  <2>2. received' = received
    BY <1>2 DEF ReceiveOpenOk, ReceiveClose, ReceiveCloseOk, ReceiveConsumeOk, ReceiveCancelOk,
                ReceiveGetEmpty
  <2>3. type \notin Carried /\ type \notin {"Deliver", "GetOk"}
    BY DEF Carried
  <2>4. QED
    BY <2>1, <2>2, <2>3, PlainDelivers
<1>3. CASE ReceiveDeliver
  <2>1. /\ Receive("Deliver") /\ received' = received
        /\ queue.consumerTag = in[1].consumer => queue'.current = Announced(in[1])
    BY <1>1, <1>3, ReceiveDeliverSays
  <2>2. queue'.current = Announced(in[1])
    BY <2>1, DeliverIsMine
  <2>3. QED
    BY <2>1, <2>2, AnnouncementDelivers
<1>4. CASE ReceiveGetOk
  BY <1>1, <1>4, ReceiveGetOkSays, AnnouncementDelivers
<1>5. QED
  BY <1>2, <1>3, <1>4, HeaderDelivers, BodyDelivers DEF Reading

\* The broker answers; what it sends is no part of a message.
LEMMA AnswerDelivers ==
    ASSUME Ordered, Typed', UNCHANGED <<link, queue, received>>,
           NEW f \in InFrames, in' = Append(in, f), f.type \notin Carried, ~Announces(f)
    PROVE  [D!Next]_(D!vars)
<1>1. /\ in \in Seq(InFrames) /\ Whole(in) /\ in' \in Seq(InFrames) /\ Whole(in')
  BY OrderedSays, TypedSays DEF Typed
<1> DEFINE t == Append(in, f)
           n == Len(in) + 1
<1>2. /\ \A i \in DOMAIN t : i \in Int /\ ((i \in DOMAIN in /\ t[i] = in[i] /\ i < n) \/ (i = n /\ t[i] = f))
      /\ \A i \in DOMAIN in : i \in DOMAIN t /\ t[i] = in[i]
  BY <1>1, GrowthIs
<1> HIDE DEF t, n
<1>3. in' = t
  BY DEF t
<1>4. \A i \in DOMAIN in : i \in DOMAIN in' /\ in'[i] = in[i]
  BY <1>2, <1>3
<1>5. \A i \in DOMAIN in' : i \notin DOMAIN in => in'[i] = f
  BY <1>2, <1>3
<1>6. AnnouncedIn(in') = AnnouncedIn(in)
  BY <1>1, <1>4, <1>5, AnnouncedGrows
<1>7. in = <<>> => in' = <<>> \/ in'[1].type \notin Carried
  <2>1. in = <<>> => 1 \notin DOMAIN in
    OBVIOUS
  <2>2. in' # <<>> => 1 \in DOMAIN in'
    BY <1>1
  <2>3. QED
    BY <1>5, <2>1, <2>2
<1>8. Part(in', queue'.current) = Part(in, queue.current)
  BY <1>1, <1>4, <1>7, PartGrows
<1>9. UnderWay' = UnderWay
  BY <1>6, <1>8, UnderWayIs
<1>10. QED
  BY <1>9, Stutters

\* What is left of the message that is being read is a message.
LEMMA PartIs ==
    ASSUME Ordered, Intact, Calm PROVE Part(in, queue.current) \in Seq(Delivery)
<1> DEFINE c == queue.current
           n == IF Head(in).type = "Header" THEN Head(in).size ELSE c.left
           cs == Copies(c.message, n)
           x == [tag |-> c.tag, channel |-> c.channel, message |-> c.message,
                 payload |-> c.payload \o cs]
<1>1. in \in Seq(InFrames) /\ c \in CurrentMessage /\ Typed
  BY OrderedSays, TypedSays
<1>2. CASE ~(in # <<>> /\ Head(in).type \in Carried)
  BY <1>2 DEF Part
<1>3. CASE in # <<>> /\ Head(in).type \in Carried
  <2>1. Head(in) = in[1] /\ in[1] \in InFrames
    BY <1>1, <1>3, TailEntries
  <2>2. c.tag # 0
    BY <1>3, <2>1 DEF Intact, Joined
  <2>3. c.message \in Messages
    BY <1>1, <2>2 DEF Typed
  <2>4. n \in Nat
    BY <1>1, <1>3, <2>1, InFramesAre DEF CurrentMessage
  <2>5. cs \in Seq(Messages)
    BY <2>3, <2>4, CopiesAre
  <2> HIDE DEF cs
  <2>6. c.payload \o cs \in Seq(Messages)
    <3> DEFINE p == c.payload
    <3>1. p \in Seq(Messages)
      BY <1>1 DEF CurrentMessage
    <3> HIDE DEF p
    <3>2. p \o cs \in Seq(Messages)
      BY <2>5, <3>1
    <3>3. QED
      BY <3>2 DEF p
  <2>7. x \in Delivery
    BY <1>1, <2>3, <2>6 DEF Delivery, CurrentMessage
  <2> HIDE DEF x
  <2>8. <<x>> \in Seq(Delivery)
    BY <2>7
  <2>9. QED
    BY <1>3, <2>8 DEF Part, x, cs
<1>4. QED
  BY <1>2, <1>3

\* The broker sends a message.
LEMMA NotedDelivers ==
    ASSUME Ordered, Intact, Calm, Typed', UNCHANGED <<link, queue, received>>, NEW f, Noted(f)
    PROVE  [D!Next]_(D!vars)
<1>1. /\ in \in Seq(InFrames) /\ Whole(in) /\ in' \in Seq(InFrames) /\ Whole(in')
  <2>1. Typed
    BY OrderedSays
  <2>2. in \in Seq(InFrames) /\ Whole(in)
    BY <2>1 DEF Typed, TypeOK
  <2>3. in' \in Seq(InFrames) /\ Whole(in')
    BY DEF Typed, TypeOK
  <2>4. QED
    BY <2>2, <2>3
<1>2. /\ SentAfter(in, in', f) /\ Announces(f) /\ broker.channel = "open"
  BY DEF Noted
<1>3. link = "up"
  BY <1>2, OrderedSays
<1>4. \A i \in DOMAIN in : i \in DOMAIN in' /\ in'[i] = in[i]
  BY <1>2 DEF SentAfter
<1>5. PICK m \in Delivery : AnnouncedIn(in') = Append(AnnouncedIn(in), m)
  BY <1>1, <1>2, <1>4, AnnouncedGrows
<1>6. in = <<>> => in'[1].type \notin Carried
  <2> SUFFICES ASSUME in = <<>> PROVE in'[1].type \notin Carried
    OBVIOUS
  <2>1. Len(in) + 1 = 1
    OBVIOUS
  <2>2. in'[1] = f
    BY <1>2, <2>1 DEF SentAfter
  <2>3. QED
    BY <1>2, <2>2 DEF Announces, Carried
<1>7. Part(in', queue'.current) = Part(in, queue.current)
  BY <1>1, <1>4, <1>6, PartGrows
<1> DEFINE p == Part(in, queue.current)
           F == AnnouncedIn(in)
<1>8. p \in Seq(Delivery) /\ F \in Seq(Delivery)
  BY <1>1, PartIs, AnnouncedIs
<1>9. UnderWay = p \o F /\ UnderWay' = p \o Append(F, m)
  BY <1>5, <1>7, UnderWayIs
<1> HIDE DEF p, F
<1>10. UnderWay' # <<>> /\ UnderWay = SubSeq(UnderWay', 1, Len(UnderWay') - 1)
  BY <1>8, <1>9, LastIn
<1>11. D!Send
  BY <1>3, <1>10 DEF D!Send
<1>12. QED
  BY <1>11 DEF D!Next

LEMMA LinkDelivers ==
    ASSUME Ordered, Link \/ BrokerRefuses PROVE [D!Next]_(D!vars)
<1>1. CASE LinkUp
  <2>1. /\ link = "down" /\ link' = "up" /\ UNCHANGED <<in, queue, received>>
    BY <1>1 DEF LinkUp
  <2>2. UnderWay' = UnderWay
    BY <2>1, UnderWayIs
  <2>3. D!Connect
    BY <2>1, <2>2 DEF D!Connect
  <2>4. QED
    BY <2>3 DEF D!Next
<1>2. CASE SocketClosed \/ LinkCloses
  <2>1. link' # "up" /\ in' = <<>> /\ received' = received
    BY <1>2 DEF SocketClosed, LinkCloses
  <2>2. UnderWay' = <<>>
    BY <2>1, AnnouncedEmpty, UnderWayIs
  <2>3. D!Lose
    BY <2>1, <2>2 DEF D!Lose
  <2>4. QED
    BY <2>3 DEF D!Next
<1>3. QED
  BY <1>1, <1>2 DEF Link, LinkLost, BrokerRefuses

\* The calls of the user.
LEMMA UserDelivers == ASSUME Ordered, User PROVE [D!Next]_(D!vars)
<1>1. Typed
  BY OrderedSays
<1>2. UNCHANGED <<link, in, received>> /\ queue'.current = queue.current
  <2>1. CASE Consume
    BY <1>1, <2>1, ConsumeSays
  <2>2. CASE Cancel
    BY <2>2 DEF Cancel
  <2>3. CASE SetConsumerTag
    BY <1>1, <2>3, SetConsumerTagSays
  <2>4. CASE Simple
    BY <2>4 DEF Simple, Get, CloseChannel, Reopen
  <2>5. ASSUME NEW delivery \in held, Ack(delivery) \/ Reject(delivery)
        PROVE  UNCHANGED <<link, in, received, queue>>
    <3>1. PICK f \in OutFrames : Settle(delivery, f)
      BY <1>1, <2>5, SettledSays
    <3>2. QED
      BY <1>1, <3>1, SettleSays
  <2>6. CASE Reset
    BY <1>1, <2>6, ResetSays
  <2>7. QED
    BY <2>1, <2>2, <2>3, <2>4, <2>5, <2>6 DEF User, Simple
<1>3. UnderWay' = UnderWay
  BY <1>2, UnderWayIs
<1>4. QED
  BY <1>2, <1>3, Stutters

LEMMA BrokerReadsDelivers ==
    ASSUME Ordered, Intact, Calm, Typed', BrokerReads PROVE [D!Next]_(D!vars)
<1>1. Typed
  BY OrderedSays
<1>2. ASSUME NEW type, BrokerTakes(type) PROVE UNCHANGED <<link, queue, received>>
  BY <1>1, <1>2, TakesSays, BrokerKeeps
<1>3. ASSUME NEW type, BrokerTakes(type), in' = in PROVE [D!Next]_(D!vars)
  <2>1. UNCHANGED <<link, queue, received>>
    BY <1>2, <1>3
  <2>2. UnderWay' = UnderWay
    BY <1>3, <2>1, UnderWayIs
  <2>3. QED
    BY <2>1, <2>2, Stutters
<1>4. ASSUME NEW type, BrokerTakes(type),
             \E f \in InFrames : /\ f.type \in {"OpenOk", "ConsumeOk", "CancelOk", "GetEmpty",
                                                "Close", "CloseOk"}
                                 /\ in' = Append(in, f)
      PROVE  [D!Next]_(D!vars)
  BY <1>2, <1>4, AnswerDelivers DEF Carried, Announces
<1>5. CASE BrokerOpens
  <2>1. BrokerTakes("Open") /\ \E f \in InFrames : f.type = "OpenOk" /\ in' = Append(in, f)
    BY <1>1, <1>5, BrokerOpensSays
  <2>2. QED
    BY <1>4, <2>1
<1>6. CASE BrokerConsumes
  <2>1. BrokerTakes("Consume") /\ \E f \in InFrames : f.type = "ConsumeOk" /\ in' = Append(in, f)
    BY <1>1, <1>6, BrokerConsumesSays
  <2>2. QED
    BY <1>4, <2>1
<1>7. CASE BrokerCancels
  <2>1. /\ BrokerTakes("Cancel")
        /\ in' = in \/ \E f \in InFrames : f.type = "CancelOk" /\ in' = Append(in, f)
    BY <1>1, <1>7, BrokerCancelsSays
  <2>2. QED
    BY <1>3, <1>4, <2>1
<1>8. CASE BrokerGets
  <2>1. /\ BrokerTakes("Get")
        /\ \/ \E f : Noted(f) /\ f.type = "GetOk"
           \/ \E f \in InFrames : f.type = "GetEmpty" /\ in' = Append(in, f)
    BY <1>1, <1>8, BrokerGetsSays
  <2>2. CASE \E f : Noted(f) /\ f.type = "GetOk"
    <3>1. PICK f : Noted(f)
      BY <2>2
    <3>2. UNCHANGED <<link, queue, received>>
      BY <1>2, <2>1
    <3>3. QED
      BY <3>1, <3>2, NotedDelivers
  <2>3. CASE \E f \in InFrames : f.type = "GetEmpty" /\ in' = Append(in, f)
    BY <1>4, <2>1, <2>3
  <2>4. QED
    BY <2>1, <2>2, <2>3
<1>9. CASE BrokerSettles
  <2>1. PICK type \in {"Ack", "Reject"} : BrokerTakes(type) /\ (Shuts \/ in' = in)
    BY <1>1, <1>9, BrokerSettlesSays
  <2>2. Shuts => \E f \in InFrames : f.type = "Close" /\ in' = Append(in, f)
    BY DEF Shuts
  <2>3. QED
    BY <1>3, <1>4, <2>1, <2>2
<1>10. CASE BrokerAnswersClose
  <2>1. BrokerTakes("Close") /\ \E f \in InFrames : f.type = "CloseOk" /\ in' = Append(in, f)
    BY <1>10, BrokerAnswersCloseSays
  <2>2. QED
    BY <1>4, <2>1
<1>11. CASE BrokerWaitsForCloseOk
  <2>1. PICK type \in {"Open", "Consume", "Cancel", "Get", "Ack", "Reject", "CloseOk"} :
           BrokerTakes(type) /\ in' = in
    BY <1>11, BrokerWaitsSays
  <2>2. QED
    BY <1>3, <2>1
<1>12. QED
  BY <1>5, <1>6, <1>7, <1>8, <1>9, <1>10, <1>11, LinkDelivers DEF BrokerReads

LEMMA NextDelivers ==
    ASSUME Ordered, Phased, Intact, Calm, Typed', [Next]_vars PROVE [D!Next]_(D!vars)
<1>1. Typed
  BY OrderedSays
<1>2. CASE BrokerDelivers
  <2>1. PICK f : Noted(f) /\ f.type = "Deliver"
    BY <1>1, <1>2, BrokerDeliversSays
  <2>2. UNCHANGED <<link, queue, received>>
    BY <1>1, <1>2, BrokerDeliversSays, BrokerKeeps
  <2>3. QED
    BY <2>1, <2>2, NotedDelivers
<1>3. CASE BrokerClosesChannel
  <2>1. Shuts /\ UNCHANGED <<link, queue, received>>
    BY <1>1, <1>3, BrokerClosesChannelSays
  <2>2. PICK f \in InFrames : f.type = "Close" /\ in' = Append(in, f)
    BY <2>1 DEF Shuts
  <2>3. QED
    BY <2>1, <2>2, AnswerDelivers DEF Carried, Announces
<1>4. CASE UNCHANGED vars
  <2>1. UNCHANGED <<link, queue, in, received>>
    BY <1>4 DEF vars
  <2>2. UnderWay' = UnderWay
    BY <2>1, UnderWayIs
  <2>3. QED
    BY <2>1, <2>2, Stutters
<1>5. QED
  BY <1>2, <1>3, <1>4, UserDelivers, LinkDelivers, ReadingDelivers, BrokerReadsDelivers DEF Next

LEMMA InitDelivers == Init => D!Init
<1> SUFFICES ASSUME Init PROVE D!Init
  OBVIOUS
<1>1. link = "down" /\ in = <<>> /\ received = <<>>
  BY DEF Init
<1>2. UnderWay = <<>>
  BY <1>1, AnnouncedEmpty, UnderWayIs
<1>3. QED
  BY <1>1, <1>2 DEF D!Init

-----------------------------------------------------------------------------
(* The theorems.                                                           *)

ConsumerInv == Ordered /\ AcksTraced /\ Phased /\ AllKept /\ Intact

LEMMA InitConsumerInv == Init => ConsumerInv
  BY InitOrdered, InitTraced, InitPhased, InitKept, InitIntact DEF ConsumerInv

LEMMA NextConsumerInv == ConsumerInv /\ [Next]_vars => ConsumerInv'
<1> SUFFICES ASSUME ConsumerInv, [Next]_vars PROVE ConsumerInv'
  OBVIOUS
<1>1. Ordered /\ AcksTraced /\ Phased /\ AllKept /\ Intact
  BY DEF ConsumerInv
<1>2. Ordered'
  BY <1>1, NextOrdered
<1>3. AcksTraced' /\ Phased' /\ AllKept'
  BY <1>1, NextTraced, NextPhased, NextKept
<1>4. Intact'
  BY <1>1, <1>2, NextIntact
<1>5. QED
  BY <1>2, <1>3, <1>4 DEF ConsumerInv

LEMMA ConsumerInvSays ==
    ConsumerInv => TypeOK /\ AckedWereReceived /\ ConsumeSentOnce /\ ConsumingIsServed
<1> SUFFICES ASSUME ConsumerInv
             PROVE  TypeOK /\ AckedWereReceived /\ ConsumeSentOnce /\ ConsumingIsServed
  OBVIOUS
<1>1. Ordered /\ AcksTraced /\ Phased /\ AllKept
  BY DEF ConsumerInv
<1>2. TypeOK
  BY <1>1 DEF Ordered, Typed
<1>3. AckedWereReceived
  BY <1>1 DEF AcksTraced, AckedWereReceived
<1>4. ConsumeSentOnce
  BY <1>1, PhasedConsumes
<1>5. ConsumingIsServed
  BY <1>1, KeptServes
<1>6. QED
  BY <1>2, <1>3, <1>4, <1>5

LEMMA ConsumerInvariance == Spec => []ConsumerInv
  BY InitConsumerInv, NextConsumerInv, PTL DEF Spec

\* The variables keep their types, over every call of the user, every answer of
\* the broker and every end of the connection.  That leftSize never falls below
\* 0 (qamqpqueue.cpp:142) is the part that needs an argument: the frames of a
\* message follow each other, and a message is replaced only by the next one.
THEOREM TypeCorrect == Spec => []TypeOK
  BY ConsumerInvariance, ConsumerInvSays, PTL

\* As long as the user acknowledges no message of an earlier channel, the
\* broker takes only messages as acknowledged that the user has acknowledged:
\* a delivery tag that ack() sends names, when it is read, that message or none.
THEOREM AckedWereReceivedHolds == Spec => []AckedWereReceived
  BY ConsumerInvariance, ConsumerInvSays, PTL

\* The broker never reads a basic.consume of a queue it has a consumer for,
\* over any number of consumes, cancels, closes and lost connections: consume()
\* refuses while a request or a consumer is there (qamqpqueue.cpp:502-510).
\* Only cancelling twice, another tag while consuming or a reset break it.
THEOREM ConsumeSentOnceHolds == Spec => []ConsumeSentOnce
  BY ConsumerInvariance, ConsumerInvSays, PTL

\* A queue whose isConsuming() says so has its consumer at the broker, or the
\* news that the consumer is gone are under way, unless the user has cancelled
\* without waiting, changed the tag, reset the queue, or reopened a channel
\* that was closed while consuming.
THEOREM ConsumingIsServedHolds == Spec => []ConsumingIsServed
  BY ConsumerInvariance, ConsumerInvSays, PTL

LEMMA StepDelivers == ConsumerInv /\ ConsumerInv' /\ Calm /\ [Next]_vars => [D!Next]_(D!vars)
<1> SUFFICES ASSUME ConsumerInv, ConsumerInv', Calm, [Next]_vars PROVE [D!Next]_(D!vars)
  OBVIOUS
<1>1. Ordered /\ Phased /\ Intact
  BY DEF ConsumerInv
<1>2. Typed'
  BY DEF ConsumerInv, Ordered
<1>3. QED
  BY <1>1, <1>2, NextDelivers

\* Consumer implements Deliveries: over every connection, consume, get and
\* cancel, and wherever the bodies of a message are cut, the user is handed the
\* messages the broker has sent, whole, in order and once each, and only the
\* end of a connection loses one. Calm leaves out what makes the queue drop a
\* message: cancelling twice, another tag while consuming, and a reset.
THEOREM DeliversWholeHolds == Spec /\ []Calm => DeliversWhole
<1>1. Init => D!Init
  BY InitDelivers
<1>2. ConsumerInv /\ ConsumerInv' /\ Calm /\ [Next]_vars => [D!Next]_(D!vars)
  BY StepDelivers
<1>3. QED
  BY <1>1, <1>2, ConsumerInvariance, PTL DEF Spec, DeliversWhole, D!Spec

=============================================================================
