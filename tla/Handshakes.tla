----------------------------- MODULE Handshakes -----------------------------
(***************************************************************************)
(* How a channel is opened and closed: what the frames on their way have   *)
(* to do with what both ends make of the channel, whatever else is sent on *)
(* it.  `ch` is the broker's end of the channel, `opened` the client's,    *)
(* `o` is sent to the broker and `s` by it.  The lemmas say that each step *)
(* of the client and the broker keeps to that; ConsumerProofs and          *)
(* ChannelsProofs apply them.                                              *)
(***************************************************************************)
EXTENDS SequenceFacts

HasType(s, type) == \E i \in DOMAIN s : s[i].type = type

\* Frames that are sent only on an open channel, and the ones that end it.
Needs == {"Consume", "Get", "Ack", "Reject", "Close"}

Ends == {"Close", "CloseOk"}

\* The broker will refuse an open that is still under way: it finds the
\* channel open.
NoLateOpen(ch, o) ==
    \A j \in DOMAIN o : o[j].type = "Open" =>
        ch # "closed" /\ \A i \in DOMAIN o : i < j => o[i].type \notin Ends

\* A close of the broker is read once, and answered once.
ClosesOnce(ch, o, s) ==
    /\ \A i \in DOMAIN s : s[i].type = "Close" =>
          /\ ch = "closing" /\ ~HasType(o, "CloseOk")
          /\ \A j \in DOMAIN s : s[j].type = "Close" => j = i
    /\ \A i \in DOMAIN o : o[i].type = "CloseOk" =>
          /\ ch = "closing"
          /\ \A j \in DOMAIN o : o[j].type = "CloseOk" => j = i

\* An end that is open knows of every open that was answered.
OpenedInOrder(ch, opened, o, s) ==
    opened => NoLateOpen(ch, o) /\ ~HasType(s, "OpenOk") /\ ~HasType(o, "CloseOk")

\* While openOk is under way the client sends nothing that needs the channel.
OpenOkInOrder(ch, o, s) ==
    \A i \in DOMAIN s : s[i].type = "OpenOk" =>
        /\ NoLateOpen(ch, o)
        /\ \A k \in DOMAIN o : o[k].type \notin Needs \cup {"CloseOk"}
        /\ ch = "open" \/ \E j \in DOMAIN s : j > i /\ s[j].type = "Close"
        /\ \A j \in DOMAIN s : /\ s[j].type = "OpenOk" => j = i
                               /\ j > i => s[j].type # "CloseOk"

\* Behind an open that will be answered nothing is sent that needs the channel.
ClosedInOrder(ch, o) ==
    ch = "closed" => \A j, k \in DOMAIN o :
        j < k /\ o[j].type = "Open" => o[k].type \notin Needs \cup {"CloseOk"}

ReopenedInOrder(o) ==
    \A i, j, k \in DOMAIN o :
        i < j /\ j < k /\ o[i].type \in Ends /\ o[j].type = "Open" => o[k].type \notin Needs

Handshake(ch, opened, o, s) ==
    /\ ClosesOnce(ch, o, s)
    /\ OpenedInOrder(ch, opened, o, s)
    /\ OpenOkInOrder(ch, o, s)
    /\ ClosedInOrder(ch, o)
    /\ ReopenedInOrder(o)

-----------------------------------------------------------------------------
(* The steps that keep to it.                                              *)

LEMMA ShiftIs ==
    ASSUME NEW S, NEW s \in Seq(S), s # <<>>
    PROVE  LET t == Tail(s)
           IN  /\ \A i \in DOMAIN t : i \in Int /\ i >= 1 /\ i + 1 \in DOMAIN s /\ t[i] = s[i + 1]
               /\ \A i \in DOMAIN s : i = 1 \/ (i - 1 \in DOMAIN t /\ t[i - 1] = s[i])
               /\ \A i \in DOMAIN s : i \in Int /\ i >= 1
               /\ 1 \in DOMAIN s /\ t \in Seq(S)
<1> DEFINE t == Tail(s)
<1>1. /\ \A i \in DOMAIN t : i + 1 \in DOMAIN s /\ t[i] = s[i + 1] /\ i \in Int /\ i >= 1
      /\ \A i \in DOMAIN s : i > 1 => i - 1 \in DOMAIN t /\ t[i - 1] = s[i]
      /\ \A i \in DOMAIN s : i \in Int /\ i >= 1
      /\ 1 \in DOMAIN s /\ t \in Seq(S)
  BY TailEntries
<1> HIDE DEF t
<1>2. \A i \in DOMAIN s : i = 1 \/ i > 1
  BY <1>1
<1>3. QED
  BY <1>1, <1>2 DEF t

\* The places of a sequence and those of the sequence with one more entry.
LEMMA GrowthIs ==
    ASSUME NEW S, NEW s \in Seq(S), NEW e \in S
    PROVE  LET t == Append(s, e)
               n == Len(s) + 1
           IN  /\ \A i \in DOMAIN t : i \in Int /\ ((i \in DOMAIN s /\ t[i] = s[i] /\ i < n) \/ (i = n /\ t[i] = e))
               /\ \A i \in DOMAIN s : i \in DOMAIN t /\ t[i] = s[i] /\ i < n /\ i \in Int
               /\ n \in DOMAIN t /\ t[n] = e /\ n \in Int /\ t \in Seq(S)
<1> DEFINE t == Append(s, e)
           n == Len(s) + 1
<1>1. /\ t \in Seq(S) /\ DOMAIN t = 1..(Len(s) + 1) /\ \A i \in DOMAIN s : t[i] = s[i]
      /\ t[Len(s) + 1] = e
      /\ DOMAIN s = 1..Len(s) /\ Len(s) \in Nat
  BY AppendEntries
<1> HIDE DEF t
<1>2. n \in DOMAIN t /\ t[n] = e /\ n \in Int
  BY <1>1
<1>3. \A i \in DOMAIN s : i \in DOMAIN t /\ t[i] = s[i] /\ i < n /\ i \in Int
  BY <1>1
<1>4. \A i \in DOMAIN t : i \in Int /\ ((i \in DOMAIN s /\ t[i] = s[i] /\ i < n) \/ (i = n /\ t[i] = e))
  BY <1>1
<1>5. QED
  BY <1>1, <1>2, <1>3, <1>4 DEF t

LEMMA EmptyHandshake ==
    ASSUME NEW ch, NEW opened PROVE Handshake(ch, opened, <<>>, <<>>)
<1>1. DOMAIN <<>> = {}
  OBVIOUS
<1>2. QED
  BY <1>1 DEF Handshake, ClosesOnce, OpenedInOrder, OpenOkInOrder, ClosedInOrder,
              ReopenedInOrder, NoLateOpen, HasType

\* The client sends a frame.
LEMMA HandshakeSend ==
    ASSUME NEW ch, NEW opened, NEW F, NEW o \in Seq(F), NEW G, NEW s \in Seq(G),
           Handshake(ch, opened, o, s), NEW f \in F,
           f.type \in Needs => opened,
           f.type = "Open" => ~opened,
           f.type # "CloseOk"
    PROVE  Handshake(ch, opened, Append(o, f), s)
<1> DEFINE p == Append(o, f)
           n == Len(o) + 1
<1>1. /\ \A i \in DOMAIN p : i \in Int /\ ((i \in DOMAIN o /\ p[i] = o[i] /\ i < n) \/ (i = n /\ p[i] = f))
      /\ \A i \in DOMAIN o : i \in DOMAIN p /\ p[i] = o[i] /\ i < n /\ i \in Int
      /\ n \in DOMAIN p /\ p[n] = f /\ n \in Int
  BY GrowthIs
<1> HIDE DEF p, n
<1>2. HasType(p, "CloseOk") => HasType(o, "CloseOk")
  BY <1>1 DEF HasType
<1>3. ClosesOnce(ch, p, s)
  BY <1>1, <1>2 DEF Handshake, ClosesOnce
<1>4. ASSUME NoLateOpen(ch, o), f.type # "Open" PROVE NoLateOpen(ch, p)
  BY <1>1, <1>4 DEF NoLateOpen
<1>5. OpenedInOrder(ch, opened, p, s)
  BY <1>2, <1>4 DEF Handshake, OpenedInOrder
<1>6. ASSUME NEW i \in DOMAIN s, s[i].type = "OpenOk"
      PROVE  /\ NoLateOpen(ch, p)
             /\ \A k \in DOMAIN p : p[k].type \notin Needs \cup {"CloseOk"}
  <2>1. /\ NoLateOpen(ch, o) /\ \A k \in DOMAIN o : o[k].type \notin Needs \cup {"CloseOk"}
        /\ ch = "open" \/ \E j \in DOMAIN s : j > i /\ s[j].type = "Close"
    BY <1>6 DEF Handshake, OpenOkInOrder
  <2>2. ~opened
    BY <1>6 DEF Handshake, OpenedInOrder, HasType
  <2>3. \A k \in DOMAIN p : p[k].type \notin Needs \cup {"CloseOk"}
    BY <1>1, <2>1, <2>2
  <2>4. ch # "closed"
    BY <2>1 DEF Handshake, ClosesOnce
  <2>5. NoLateOpen(ch, p)
    BY <2>3, <2>4 DEF NoLateOpen, Ends, Needs
  <2>6. QED
    BY <2>3, <2>5
<1>7. OpenOkInOrder(ch, p, s)
  BY <1>6 DEF Handshake, OpenOkInOrder
<1>8. ClosedInOrder(ch, p)
  <2> SUFFICES ASSUME ch = "closed", NEW j \in DOMAIN p, NEW k \in DOMAIN p, j < k, p[j].type = "Open"
               PROVE  p[k].type \notin Needs \cup {"CloseOk"}
    BY DEF ClosedInOrder
  <2>1. j \in DOMAIN o /\ p[j] = o[j]
    BY <1>1
  <2>2. ~opened
    BY <2>1 DEF Handshake, OpenedInOrder, NoLateOpen
  <2>3. QED
    BY <1>1, <2>1, <2>2 DEF Handshake, ClosedInOrder
<1>9. ReopenedInOrder(p)
  <2> SUFFICES ASSUME NEW i \in DOMAIN p, NEW j \in DOMAIN p, NEW k \in DOMAIN p, i < j, j < k,
                      p[i].type \in Ends, p[j].type = "Open"
               PROVE  p[k].type \notin Needs
    BY DEF ReopenedInOrder
  <2>1. i \in DOMAIN o /\ j \in DOMAIN o /\ p[i] = o[i] /\ p[j] = o[j]
    BY <1>1
  <2>2. ~opened
    BY <2>1 DEF Handshake, OpenedInOrder, NoLateOpen
  <2>3. QED
    BY <1>1, <2>1, <2>2 DEF Handshake, ReopenedInOrder
<1>10. QED
  BY <1>3, <1>5, <1>7, <1>8, <1>9 DEF Handshake, p

\* The broker has read the next frame; what it does about it comes after.
LEMMA HandshakeTaken ==
    ASSUME NEW ch, NEW opened, NEW F, NEW o \in Seq(F), NEW G, NEW s \in Seq(G),
           Handshake(ch, opened, o, s), o # <<>>
    PROVE  Handshake(ch, opened, Tail(o), s)
<1> DEFINE p == Tail(o)
<1>1. \A i \in DOMAIN p : i \in Int /\ i + 1 \in DOMAIN o /\ p[i] = o[i + 1]
  BY ShiftIs
<1> HIDE DEF p
<1>2. HasType(p, "CloseOk") => HasType(o, "CloseOk")
  BY <1>1 DEF HasType
<1>3. ASSUME NEW i \in DOMAIN p, p[i].type = "CloseOk"
      PROVE  ch = "closing" /\ \A j \in DOMAIN p : p[j].type = "CloseOk" => j = i
  <2>1. ch = "closing" /\ \A j \in DOMAIN o : o[j].type = "CloseOk" => j = i + 1
    BY <1>1, <1>3 DEF Handshake, ClosesOnce
  <2>2. \A j \in DOMAIN p : p[j].type = "CloseOk" => j + 1 = i + 1
    BY <1>1, <2>1
  <2>3. QED
    BY <1>1, <2>1, <2>2
<1>4. ClosesOnce(ch, p, s)
  BY <1>2, <1>3 DEF Handshake, ClosesOnce
<1>5. ASSUME NoLateOpen(ch, o) PROVE NoLateOpen(ch, p)
  <2> SUFFICES ASSUME NEW j \in DOMAIN p, p[j].type = "Open"
               PROVE  ch # "closed" /\ \A i \in DOMAIN p : i < j => p[i].type \notin Ends
    BY DEF NoLateOpen
  <2>1. ch # "closed" /\ \A i \in DOMAIN o : i < j + 1 => o[i].type \notin Ends
    BY <1>1, <1>5 DEF NoLateOpen
  <2>2. \A i \in DOMAIN p : i < j => i + 1 < j + 1
    BY <1>1
  <2>3. QED
    BY <1>1, <2>1, <2>2
<1>6. OpenedInOrder(ch, opened, p, s)
  BY <1>2, <1>5 DEF Handshake, OpenedInOrder
<1>7. OpenOkInOrder(ch, p, s)
  BY <1>1, <1>5 DEF Handshake, OpenOkInOrder
<1>8. ClosedInOrder(ch, p)
  <2> SUFFICES ASSUME ch = "closed", NEW j \in DOMAIN p, NEW k \in DOMAIN p, j < k, p[j].type = "Open"
               PROVE  p[k].type \notin Needs \cup {"CloseOk"}
    BY DEF ClosedInOrder
  <2>1. j + 1 < k + 1 /\ o[j + 1].type = "Open" /\ j + 1 \in DOMAIN o /\ k + 1 \in DOMAIN o
    BY <1>1
  <2>2. o[k + 1].type \notin Needs \cup {"CloseOk"}
    BY <2>1 DEF Handshake, ClosedInOrder
  <2>3. QED
    BY <1>1, <2>2
<1>9. ReopenedInOrder(p)
  <2> SUFFICES ASSUME NEW i \in DOMAIN p, NEW j \in DOMAIN p, NEW k \in DOMAIN p, i < j, j < k,
                      p[i].type \in Ends, p[j].type = "Open"
               PROVE  p[k].type \notin Needs
    BY DEF ReopenedInOrder
  <2>1. /\ i + 1 < j + 1 /\ j + 1 < k + 1
        /\ i + 1 \in DOMAIN o /\ j + 1 \in DOMAIN o /\ k + 1 \in DOMAIN o
        /\ p[i] = o[i + 1] /\ p[j] = o[j + 1] /\ p[k] = o[k + 1]
    BY <1>1
  <2>2. o[k + 1].type \notin Needs
    BY <2>1 DEF Handshake, ReopenedInOrder
  <2>3. QED
    BY <2>1, <2>2
<1>10. QED
  BY <1>4, <1>6, <1>7, <1>8, <1>9 DEF Handshake, p

\* The places of the frames of `s` that open or close the channel are the same
\* in `t`.
SameEnds(s, t) ==
    /\ \A i \in DOMAIN s : i \in DOMAIN t /\ t[i] = s[i] /\ i \in Int
    /\ \A i \in DOMAIN t : i \in DOMAIN s \/ t[i].type \notin {"OpenOk", "Close", "CloseOk"}

LEMMA HandshakeNeutral ==
    ASSUME NEW ch, NEW opened, NEW o, NEW s, Handshake(ch, opened, o, s), NEW t, SameEnds(s, t)
    PROVE  Handshake(ch, opened, o, t)
<1>1. ClosesOnce(ch, o, t)
  BY DEF Handshake, ClosesOnce, SameEnds
<1>2. OpenedInOrder(ch, opened, o, t)
  BY DEF Handshake, OpenedInOrder, HasType, SameEnds
<1>3. ASSUME NEW i \in DOMAIN t, t[i].type = "OpenOk"
      PROVE  /\ NoLateOpen(ch, o)
             /\ \A k \in DOMAIN o : o[k].type \notin Needs \cup {"CloseOk"}
             /\ ch = "open" \/ \E j \in DOMAIN t : j > i /\ t[j].type = "Close"
             /\ \A j \in DOMAIN t : /\ t[j].type = "OpenOk" => j = i
                                    /\ j > i => t[j].type # "CloseOk"
  <2>1. i \in DOMAIN s /\ s[i].type = "OpenOk"
    BY <1>3 DEF SameEnds
  <2>2. /\ NoLateOpen(ch, o)
        /\ \A k \in DOMAIN o : o[k].type \notin Needs \cup {"CloseOk"}
        /\ ch = "open" \/ \E j \in DOMAIN s : j > i /\ s[j].type = "Close"
        /\ \A j \in DOMAIN s : /\ s[j].type = "OpenOk" => j = i
                               /\ j > i => s[j].type # "CloseOk"
    BY <2>1 DEF Handshake, OpenOkInOrder
  <2>3. \A j \in DOMAIN t : /\ t[j].type = "OpenOk" => j = i
                            /\ j > i => t[j].type # "CloseOk"
    BY <2>2 DEF SameEnds
  <2>4. ch = "open" \/ \E j \in DOMAIN t : j > i /\ t[j].type = "Close"
    BY <2>2 DEF SameEnds
  <2>5. QED
    BY <2>2, <2>3, <2>4
<1>4. OpenOkInOrder(ch, o, t)
  BY <1>3 DEF OpenOkInOrder
<1>5. QED
  BY <1>1, <1>2, <1>4 DEF Handshake

\* Frames of the broker that have been read: each kind that matters.
LEMMA HandshakeRead ==
    ASSUME NEW ch, NEW opened \in BOOLEAN, NEW F, NEW o \in Seq(F), NEW G, NEW s \in Seq(G),
           Handshake(ch, opened, o, s), s # <<>>, s[1].type # "Close",
           NEW after \in BOOLEAN,
           after => opened \/ s[1].type = "OpenOk"
    PROVE  Handshake(ch, after, o, Tail(s))
<1> DEFINE t == Tail(s)
<1>1. /\ \A i \in DOMAIN t : i \in Int /\ i >= 1 /\ i + 1 \in DOMAIN s /\ t[i] = s[i + 1]
      /\ \A i \in DOMAIN s : i = 1 \/ (i - 1 \in DOMAIN t /\ t[i - 1] = s[i])
      /\ \A i \in DOMAIN s : i \in Int /\ i >= 1
      /\ 1 \in DOMAIN s
  BY ShiftIs
<1> HIDE DEF t
<1>2. ASSUME NEW i \in DOMAIN t, t[i].type = "Close"
      PROVE  /\ ch = "closing" /\ ~HasType(o, "CloseOk")
             /\ \A j \in DOMAIN t : t[j].type = "Close" => j = i
  <2>1. /\ ch = "closing" /\ ~HasType(o, "CloseOk")
        /\ \A j \in DOMAIN s : s[j].type = "Close" => j = i + 1
    BY <1>1, <1>2 DEF Handshake, ClosesOnce
  <2>2. \A j \in DOMAIN t : t[j].type = "Close" => j + 1 = i + 1
    BY <1>1, <2>1
  <2>3. QED
    BY <1>1, <2>1, <2>2
<1>3. ClosesOnce(ch, o, t)
  BY <1>2 DEF Handshake, ClosesOnce
<1>4. OpenedInOrder(ch, after, o, t)
  <2> SUFFICES ASSUME after PROVE NoLateOpen(ch, o) /\ ~HasType(t, "OpenOk") /\ ~HasType(o, "CloseOk")
    BY DEF OpenedInOrder
  <2>1. CASE opened
    BY <1>1, <2>1 DEF Handshake, OpenedInOrder, HasType
  <2>2. CASE s[1].type = "OpenOk"
    <3>1. /\ NoLateOpen(ch, o)
          /\ \A k \in DOMAIN o : o[k].type \notin Needs \cup {"CloseOk"}
          /\ \A j \in DOMAIN s : s[j].type = "OpenOk" => j = 1
      BY <1>1, <2>2 DEF Handshake, OpenOkInOrder
    <3>2. \A i \in DOMAIN t : i + 1 # 1
      BY <1>1
    <3>3. ~HasType(t, "OpenOk")
      BY <1>1, <3>1, <3>2 DEF HasType
    <3>4. QED
      BY <3>1, <3>3 DEF HasType
  <2>3. QED
    BY <2>1, <2>2
<1>5. ASSUME NEW i \in DOMAIN t, t[i].type = "OpenOk"
      PROVE  /\ NoLateOpen(ch, o)
             /\ \A k \in DOMAIN o : o[k].type \notin Needs \cup {"CloseOk"}
             /\ ch = "open" \/ \E j \in DOMAIN t : j > i /\ t[j].type = "Close"
             /\ \A j \in DOMAIN t : /\ t[j].type = "OpenOk" => j = i
                                    /\ j > i => t[j].type # "CloseOk"
  <2>1. /\ NoLateOpen(ch, o)
        /\ \A k \in DOMAIN o : o[k].type \notin Needs \cup {"CloseOk"}
        /\ ch = "open" \/ \E j \in DOMAIN s : j > i + 1 /\ s[j].type = "Close"
        /\ \A j \in DOMAIN s : /\ s[j].type = "OpenOk" => j = i + 1
                               /\ j > i + 1 => s[j].type # "CloseOk"
    BY <1>1, <1>5 DEF Handshake, OpenOkInOrder
  <2>2. \A j \in DOMAIN t : /\ t[j].type = "OpenOk" => j = i
                            /\ j > i => t[j].type # "CloseOk"
    <3> SUFFICES ASSUME NEW j \in DOMAIN t
                 PROVE  /\ t[j].type = "OpenOk" => j = i
                        /\ j > i => t[j].type # "CloseOk"
      OBVIOUS
    <3>1. /\ j + 1 \in DOMAIN s /\ t[j] = s[j + 1] /\ i \in Int /\ j \in Int
          /\ j + 1 = i + 1 => j = i
          /\ j > i => j + 1 > i + 1
      BY <1>1
    <3>2. QED
      BY <2>1, <3>1
  <2>3. ASSUME NEW j \in DOMAIN s, j > i + 1, s[j].type = "Close"
        PROVE  \E m \in DOMAIN t : m > i /\ t[m].type = "Close"
    <3>1. j \in Int /\ i \in Int /\ i >= 1
      BY <1>1
    <3>2. j # 1 /\ j - 1 > i
      BY <2>3, <3>1
    <3>3. QED
      BY <1>1, <2>3, <3>2
  <2>4. QED
    BY <2>1, <2>2, <2>3
<1>6. OpenOkInOrder(ch, o, t)
  BY <1>5 DEF OpenOkInOrder
<1>7. QED
  BY <1>3, <1>4, <1>6 DEF Handshake, t

\* The client reads a close, and answers it.
LEMMA HandshakeReadClose ==
    ASSUME NEW ch, NEW opened, NEW F, NEW o \in Seq(F), NEW G, NEW s \in Seq(G),
           Handshake(ch, opened, o, s), s # <<>>, s[1].type = "Close",
           NEW f \in F, f.type = "CloseOk"
    PROVE  Handshake(ch, FALSE, Append(o, f), Tail(s))
<1> DEFINE t == Tail(s)
           p == Append(o, f)
           n == Len(o) + 1
<1>1. /\ \A i \in DOMAIN t : i \in Int /\ i >= 1 /\ i + 1 \in DOMAIN s /\ t[i] = s[i + 1]
      /\ 1 \in DOMAIN s
  BY ShiftIs
<1>2. /\ \A i \in DOMAIN p : i \in Int /\ ((i \in DOMAIN o /\ p[i] = o[i] /\ i < n) \/ (i = n /\ p[i] = f))
      /\ n \in DOMAIN p /\ p[n] = f /\ n \in Int
  BY GrowthIs
<1> HIDE DEF t, p, n
<1>3. /\ ch = "closing" /\ ~HasType(o, "CloseOk")
      /\ \A j \in DOMAIN s : s[j].type = "Close" => j = 1
  BY <1>1 DEF Handshake, ClosesOnce
<1>4. \A i \in DOMAIN t : t[i].type # "Close"
  <2>1. \A i \in DOMAIN t : i + 1 # 1
    BY <1>1
  <2>2. QED
    BY <1>1, <1>3, <2>1
<1>5. \A i \in DOMAIN p : p[i].type = "CloseOk" => i = n
  BY <1>2, <1>3 DEF HasType
<1>6. ClosesOnce(ch, p, t)
  BY <1>3, <1>4, <1>5 DEF ClosesOnce
<1>7. ASSUME NEW i \in DOMAIN t PROVE t[i].type # "OpenOk"
  <2> SUFFICES ASSUME t[i].type = "OpenOk" PROVE FALSE
    OBVIOUS
  <2>1. i + 1 \in DOMAIN s /\ s[i + 1].type = "OpenOk" /\ i \in Int /\ i >= 1
    BY <1>1
  <2>2. PICK j \in DOMAIN s : j > i + 1 /\ s[j].type = "Close"
    BY <1>3, <2>1 DEF Handshake, OpenOkInOrder
  <2>3. QED
    BY <1>3, <2>1, <2>2
<1>8. ReopenedInOrder(p)
  <2> SUFFICES ASSUME NEW i \in DOMAIN p, NEW j \in DOMAIN p, NEW k \in DOMAIN p, i < j, j < k,
                      p[i].type \in Ends, p[j].type = "Open"
               PROVE  p[k].type \notin Needs
    BY DEF ReopenedInOrder
  <2>1. CASE k = n
    BY <1>2, <2>1 DEF Needs
  <2>2. CASE k \in DOMAIN o /\ k < n /\ p[k] = o[k]
    <3>1. i < n /\ j < n
      BY <1>2, <2>2
    <3>2. i \in DOMAIN o /\ j \in DOMAIN o /\ p[i] = o[i] /\ p[j] = o[j]
      BY <1>2, <3>1
    <3>3. QED
      BY <2>2, <3>2 DEF Handshake, ReopenedInOrder
  <2>3. QED
    BY <1>2, <2>1, <2>2
<1>9. QED
  BY <1>3, <1>6, <1>7, <1>8 DEF Handshake, OpenedInOrder, OpenOkInOrder, ClosedInOrder, t, p

\* The broker opens the channel.
LEMMA HandshakeOpen ==
    ASSUME NEW opened \in BOOLEAN, NEW F, NEW o \in Seq(F), NEW G, NEW s \in Seq(G),
           Handshake("closed", opened, o, s), o # <<>>, o[1].type = "Open",
           NEW f \in G, f.type = "OpenOk"
    PROVE  /\ Handshake("open", opened, Tail(o), Append(s, f))
           /\ ~opened
           /\ \A k \in DOMAIN Tail(o) : Tail(o)[k].type \notin Needs
<1> DEFINE p == Tail(o)
           t == Append(s, f)
           n == Len(s) + 1
<1>1. /\ \A i \in DOMAIN p : i \in Int /\ i >= 1 /\ i + 1 \in DOMAIN o /\ p[i] = o[i + 1]
      /\ 1 \in DOMAIN o
  BY ShiftIs
<1>2. /\ \A i \in DOMAIN t : i \in Int /\ ((i \in DOMAIN s /\ t[i] = s[i] /\ i < n) \/ (i = n /\ t[i] = f))
      /\ n \in DOMAIN t /\ t[n] = f /\ n \in Int
  BY GrowthIs
<1>3. Handshake("closed", opened, p, s)
  BY HandshakeTaken
<1> HIDE DEF p, t, n
<1>4. ~opened
  BY <1>1 DEF Handshake, OpenedInOrder, NoLateOpen
<1>5. \A i \in DOMAIN s : s[i].type # "OpenOk"
  BY <1>1 DEF Handshake, OpenOkInOrder, NoLateOpen
<1>6. \A k \in DOMAIN p : p[k].type \notin Needs \cup {"CloseOk"}
  <2> SUFFICES ASSUME NEW k \in DOMAIN p PROVE p[k].type \notin Needs \cup {"CloseOk"}
    OBVIOUS
  <2>1. 1 < k + 1 /\ k + 1 \in DOMAIN o /\ p[k] = o[k + 1]
    BY <1>1
  <2>2. QED
    BY <1>1, <2>1 DEF Handshake, ClosedInOrder
<1>7. \A i \in DOMAIN t : t[i].type # "Close"
  BY <1>2 DEF Handshake, ClosesOnce
<1>8. ClosesOnce("open", p, t)
  BY <1>6, <1>7 DEF ClosesOnce
<1>9. NoLateOpen("open", p)
  BY <1>6 DEF NoLateOpen, Needs, Ends
<1>10. \A i \in DOMAIN t : t[i].type = "OpenOk" => i = n
  BY <1>2, <1>5
<1>11. \A j \in DOMAIN t : ~(j > n)
  BY <1>2
<1>12. OpenOkInOrder("open", p, t)
  BY <1>6, <1>9, <1>10, <1>11 DEF OpenOkInOrder
<1>13. QED
  BY <1>3, <1>4, <1>6, <1>8, <1>12 DEF Handshake, OpenedInOrder, ClosedInOrder, p, t

\* The broker closes an open channel on its own account.
LEMMA HandshakeClose ==
    ASSUME NEW opened, NEW F, NEW o \in Seq(F), NEW G, NEW s \in Seq(G),
           Handshake("open", opened, o, s), NEW f \in G, f.type = "Close"
    PROVE  Handshake("closing", opened, o, Append(s, f))
<1> DEFINE t == Append(s, f)
           n == Len(s) + 1
<1>1. /\ \A i \in DOMAIN t : i \in Int /\ ((i \in DOMAIN s /\ t[i] = s[i] /\ i < n) \/ (i = n /\ t[i] = f))
      /\ \A i \in DOMAIN s : i \in DOMAIN t /\ t[i] = s[i] /\ i < n /\ i \in Int
      /\ n \in DOMAIN t /\ t[n] = f /\ n \in Int
  BY GrowthIs
<1> HIDE DEF t, n
<1>2. \A i \in DOMAIN t : t[i].type = "Close" => i = n
  BY <1>1 DEF Handshake, ClosesOnce
<1>3. ~HasType(o, "CloseOk")
  BY DEF HasType, Handshake, ClosesOnce
<1>4. ClosesOnce("closing", o, t)
  BY <1>2, <1>3 DEF ClosesOnce, HasType
<1>5. NoLateOpen("open", o) => NoLateOpen("closing", o)
  BY DEF NoLateOpen
<1>6. OpenedInOrder("closing", opened, o, t)
  BY <1>1, <1>5 DEF Handshake, OpenedInOrder, HasType
<1>7. ASSUME NEW i \in DOMAIN t, t[i].type = "OpenOk"
      PROVE  /\ NoLateOpen("closing", o)
             /\ \A k \in DOMAIN o : o[k].type \notin Needs \cup {"CloseOk"}
             /\ \E j \in DOMAIN t : j > i /\ t[j].type = "Close"
             /\ \A j \in DOMAIN t : /\ t[j].type = "OpenOk" => j = i
                                    /\ j > i => t[j].type # "CloseOk"
  <2>1. i \in DOMAIN s /\ s[i].type = "OpenOk" /\ i < n
    BY <1>1, <1>7
  <2>2. /\ NoLateOpen("open", o)
        /\ \A k \in DOMAIN o : o[k].type \notin Needs \cup {"CloseOk"}
        /\ \A j \in DOMAIN s : /\ s[j].type = "OpenOk" => j = i
                               /\ j > i => s[j].type # "CloseOk"
    BY <2>1 DEF Handshake, OpenOkInOrder
  <2>3. n > i
    BY <1>1, <2>1
  <2>4. QED
    BY <1>1, <1>5, <2>2, <2>3
<1>8. OpenOkInOrder("closing", o, t)
  BY <1>7 DEF OpenOkInOrder
<1>9. QED
  BY <1>4, <1>6, <1>8 DEF Handshake, ClosedInOrder, t

\* The broker answers the client's close.
LEMMA HandshakeAnswer ==
    ASSUME NEW opened \in BOOLEAN, NEW F, NEW o \in Seq(F), NEW G, NEW s \in Seq(G),
           NEW ch \in {"open", "closing"}, NEW after \in {"closed", "closing"},
           ch = "closing" => after = "closing", ch = "open" => after = "closed",
           Handshake(ch, opened, o, s), o # <<>>, o[1].type = "Close",
           NEW f \in G, f.type = "CloseOk"
    PROVE  Handshake(after, opened, Tail(o), Append(s, f))
<1> DEFINE p == Tail(o)
           t == Append(s, f)
           n == Len(s) + 1
<1>1. /\ \A i \in DOMAIN p : i \in Int /\ i >= 1 /\ i + 1 \in DOMAIN o /\ p[i] = o[i + 1]
      /\ 1 \in DOMAIN o
  BY ShiftIs
<1>2. /\ \A i \in DOMAIN t : i \in Int /\ ((i \in DOMAIN s /\ t[i] = s[i] /\ i < n) \/ (i = n /\ t[i] = f))
      /\ n \in DOMAIN t /\ t[n] = f /\ n \in Int
  BY GrowthIs
<1>3. Handshake(ch, opened, p, s)
  BY HandshakeTaken
<1> HIDE DEF p, t, n
<1>4. \A i \in DOMAIN s : s[i].type # "OpenOk"
  BY <1>1 DEF Handshake, OpenOkInOrder, Needs
<1>5. \A i \in DOMAIN t : t[i].type # "OpenOk"
  BY <1>2, <1>4
<1>6. \A i \in DOMAIN t : t[i].type = "Close" => i \in DOMAIN s /\ s[i].type = "Close"
  BY <1>2
<1>7. ClosesOnce(after, p, t)
  BY <1>3, <1>6 DEF Handshake, ClosesOnce
<1>8. opened => \A j \in DOMAIN p : p[j].type # "Open"
  <2> SUFFICES ASSUME opened, NEW j \in DOMAIN p, p[j].type = "Open" PROVE FALSE
    OBVIOUS
  <2>1. 1 < j + 1 /\ j + 1 \in DOMAIN o /\ o[j + 1].type = "Open"
    BY <1>1
  <2>2. QED
    BY <1>1, <2>1 DEF Handshake, OpenedInOrder, NoLateOpen, Ends
<1>9. OpenedInOrder(after, opened, p, t)
  BY <1>3, <1>5, <1>8 DEF Handshake, OpenedInOrder, NoLateOpen, HasType
<1>10. ClosedInOrder(after, p)
  <2> SUFFICES ASSUME after = "closed", NEW j \in DOMAIN p, NEW k \in DOMAIN p, j < k,
                      p[j].type = "Open"
               PROVE  p[k].type \notin Needs \cup {"CloseOk"}
    BY DEF ClosedInOrder
  <2>1. /\ 1 < j + 1 /\ j + 1 < k + 1 /\ j + 1 \in DOMAIN o /\ k + 1 \in DOMAIN o
        /\ p[j] = o[j + 1] /\ p[k] = o[k + 1]
    BY <1>1
  <2>2. p[k].type \notin Needs
    BY <1>1, <2>1 DEF Handshake, ReopenedInOrder, Ends
  <2>3. p[k].type # "CloseOk"
    BY <2>1 DEF Handshake, ClosesOnce
  <2>4. QED
    BY <2>2, <2>3
<1>11. QED
  BY <1>3, <1>5, <1>7, <1>9, <1>10 DEF Handshake, OpenOkInOrder, p, t

\* The broker reads the answer to its own close.
LEMMA HandshakeClosed ==
    ASSUME NEW opened \in BOOLEAN, NEW F, NEW o \in Seq(F), NEW G, NEW s \in Seq(G),
           Handshake("closing", opened, o, s), o # <<>>, o[1].type = "CloseOk"
    PROVE  Handshake("closed", opened, Tail(o), s)
<1> DEFINE p == Tail(o)
<1>1. /\ \A i \in DOMAIN p : i \in Int /\ i >= 1 /\ i + 1 \in DOMAIN o /\ p[i] = o[i + 1]
      /\ 1 \in DOMAIN o
  BY ShiftIs
<1>2. Handshake("closing", opened, p, s)
  BY HandshakeTaken
<1> HIDE DEF p
<1>3. HasType(o, "CloseOk")
  BY <1>1 DEF HasType
<1>4. \A i \in DOMAIN s : s[i].type \notin {"Close", "OpenOk"}
  BY <1>1, <1>3 DEF Handshake, ClosesOnce, OpenOkInOrder
<1>5. ~opened
  BY <1>3 DEF Handshake, OpenedInOrder
<1>6. ASSUME NEW k \in DOMAIN p PROVE p[k].type # "CloseOk"
  <2>1. k + 1 # 1 /\ k + 1 \in DOMAIN o /\ p[k] = o[k + 1]
    BY <1>1
  <2>2. QED
    BY <1>1, <2>1 DEF Handshake, ClosesOnce
<1>7. ClosesOnce("closed", p, s)
  BY <1>4, <1>6 DEF ClosesOnce
<1>8. ClosedInOrder("closed", p)
  <2> SUFFICES ASSUME NEW j \in DOMAIN p, NEW k \in DOMAIN p, j < k, p[j].type = "Open"
               PROVE  p[k].type \notin Needs
    BY <1>6 DEF ClosedInOrder
  <2>1. /\ 1 < j + 1 /\ j + 1 < k + 1 /\ j + 1 \in DOMAIN o /\ k + 1 \in DOMAIN o
        /\ p[j] = o[j + 1] /\ p[k] = o[k + 1]
    BY <1>1
  <2>2. QED
    BY <1>1, <2>1 DEF Handshake, ReopenedInOrder, Ends
<1>9. QED
  BY <1>2, <1>4, <1>5, <1>7, <1>8 DEF Handshake, OpenedInOrder, OpenOkInOrder, p

\* The client forgets that it is open.
LEMMA HandshakeForget ==
    ASSUME NEW ch, NEW opened, NEW o, NEW s, Handshake(ch, opened, o, s), NEW after, after => opened
    PROVE  Handshake(ch, after, o, s)
  BY DEF Handshake, OpenedInOrder

\* The client closes a channel that it has known to be open until now.
LEMMA HandshakeSendClose ==
    ASSUME NEW ch, NEW opened, NEW F, NEW o \in Seq(F), NEW G, NEW s \in Seq(G),
           Handshake(ch, opened, o, s), NoLateOpen(ch, o), ~HasType(s, "OpenOk"),
           NEW f \in F, f.type = "Close"
    PROVE  Handshake(ch, FALSE, Append(o, f), s)
<1> DEFINE p == Append(o, f)
           n == Len(o) + 1
<1>1. /\ \A i \in DOMAIN p : i \in Int /\ ((i \in DOMAIN o /\ p[i] = o[i] /\ i < n) \/ (i = n /\ p[i] = f))
      /\ \A i \in DOMAIN o : i \in DOMAIN p /\ p[i] = o[i] /\ i < n /\ i \in Int
      /\ n \in DOMAIN p /\ p[n] = f /\ n \in Int
  BY GrowthIs
<1> HIDE DEF p, n
<1>2. HasType(p, "CloseOk") => HasType(o, "CloseOk")
  BY <1>1 DEF HasType
<1>3. ClosesOnce(ch, p, s)
  BY <1>1, <1>2 DEF Handshake, ClosesOnce
<1>4. OpenOkInOrder(ch, p, s)
  BY DEF OpenOkInOrder, HasType
<1>5. ClosedInOrder(ch, p)
  BY <1>1 DEF ClosedInOrder, NoLateOpen
<1>6. ReopenedInOrder(p)
  <2> SUFFICES ASSUME NEW i \in DOMAIN p, NEW j \in DOMAIN p, i < j,
                      p[i].type \in Ends, p[j].type = "Open"
               PROVE  FALSE
    BY DEF ReopenedInOrder
  <2>1. j \in DOMAIN o /\ p[j] = o[j] /\ j < n
    BY <1>1
  <2>2. i \in DOMAIN o /\ p[i] = o[i]
    BY <1>1, <2>1
  <2>3. QED
    BY <2>1, <2>2 DEF NoLateOpen
<1>7. QED
  BY <1>3, <1>4, <1>5, <1>6 DEF Handshake, OpenedInOrder, p

\* The places of the frames that this is about are the same in `p` as in `o`.
SameUses(o, p) ==
    /\ \A i \in DOMAIN o : i \in DOMAIN p /\ p[i] = o[i]
    /\ \A i \in DOMAIN p : i \in DOMAIN o \/ p[i].type \notin Needs \cup {"Open", "CloseOk"}

\* The client sends frames that this is not about.
LEMMA HandshakeAside ==
    ASSUME NEW ch, NEW opened, NEW o, NEW s, Handshake(ch, opened, o, s), NEW p, SameUses(o, p)
    PROVE  Handshake(ch, opened, p, s)
<1>1. /\ \A i \in DOMAIN o : i \in DOMAIN p /\ p[i] = o[i]
      /\ \A i \in DOMAIN p : p[i].type \in Needs \cup {"Open", "CloseOk"} => i \in DOMAIN o
  BY DEF SameUses
<1>2. HasType(p, "CloseOk") => HasType(o, "CloseOk")
  BY <1>1 DEF HasType
<1>3. ClosesOnce(ch, p, s)
  BY <1>1, <1>2 DEF Handshake, ClosesOnce
<1>4. NoLateOpen(ch, o) => NoLateOpen(ch, p)
  BY <1>1 DEF NoLateOpen, Ends, Needs
<1>5. OpenedInOrder(ch, opened, p, s)
  BY <1>2, <1>4 DEF Handshake, OpenedInOrder
<1>6. OpenOkInOrder(ch, p, s)
  <2> SUFFICES ASSUME NEW i \in DOMAIN s, s[i].type = "OpenOk"
               PROVE  NoLateOpen(ch, p) /\ \A k \in DOMAIN p : p[k].type \notin Needs \cup {"CloseOk"}
    BY DEF Handshake, OpenOkInOrder
  <2>1. NoLateOpen(ch, o) /\ \A k \in DOMAIN o : o[k].type \notin Needs \cup {"CloseOk"}
    BY DEF Handshake, OpenOkInOrder
  <2>2. QED
    BY <1>1, <1>4, <2>1
<1>7. ClosedInOrder(ch, p)
  BY <1>1 DEF Handshake, ClosedInOrder
<1>8. ReopenedInOrder(p)
  <2> SUFFICES ASSUME NEW i \in DOMAIN p, NEW j \in DOMAIN p, NEW k \in DOMAIN p, i < j, j < k,
                      p[i].type \in Ends, p[j].type = "Open"
               PROVE  p[k].type \notin Needs
    BY DEF ReopenedInOrder
  <2>1. i \in DOMAIN o /\ j \in DOMAIN o /\ p[i] = o[i] /\ p[j] = o[j]
    BY <1>1 DEF Ends, Needs
  <2>2. QED
    BY <1>1, <2>1 DEF Handshake, ReopenedInOrder
<1>9. QED
  BY <1>3, <1>5, <1>6, <1>7, <1>8 DEF Handshake

\* A channel that is closed, and at most opened.
LEMMA HandshakeFresh ==
    ASSUME NEW o, NEW s,
           \A i \in DOMAIN o : o[i].type \notin Needs \cup {"CloseOk"},
           \A i \in DOMAIN s : s[i].type \notin {"OpenOk", "Close", "CloseOk"}
    PROVE  Handshake("closed", FALSE, o, s)
<1>1. ReopenedInOrder(o)
  BY DEF ReopenedInOrder
<1>2. QED
  BY <1>1 DEF Handshake, ClosesOnce, OpenedInOrder, OpenOkInOrder, ClosedInOrder

=============================================================================
