--------------------------- MODULE ChannelsProofs ---------------------------
(***************************************************************************)
(* Theorems about Channels for every value of the constants: the types of  *)
(* the variables, that a channel taken for open is open or being closed,   *)
(* that a close of the broker is answered, that every channel is opened    *)
(* with the connection, that the broker refuses nothing it is sent, and    *)
(* that the prefetch of an open channel is the one agreed on.              *)
(***************************************************************************)
EXTENDS Channels, Handshakes

-----------------------------------------------------------------------------
(* What the frames on their way say of a channel.                          *)

Is(s, i, n, t) == s[i].channel = n /\ s[i].type = t

\* Frames of these types are served while the channel is open, no more.
Served == {"Declare", "Bind", "Qos", "Flow"}
IsServed(s, i, n) == s[i].channel = n /\ s[i].type \in Served

Uses(s, n) == \E i \in DOMAIN s : s[i].channel = n
Has(s, n, t) == \E i \in DOMAIN s : Is(s, i, n, t)
Later(s, n, t, u) == \E i, j \in DOMAIN s : i < j /\ Is(s, i, n, t) /\ Is(s, j, n, u)
Serves(s, n) == \E i \in DOMAIN s : IsServed(s, i, n)

\* Nothing is to be served before the channel.open.
Led(s, n) ==
    \A i \in DOMAIN s : IsServed(s, i, n) => \E j \in DOMAIN s : j < i /\ Is(s, j, n, "Open")

\* Between a close or a closeOk and what is to be served there is an open.
Parted(s, n) ==
    \A i, k \in DOMAIN s :
        (Is(s, i, n, "Close") \/ Is(s, i, n, "CloseOk")) /\ i < k /\ IsServed(s, k, n)
            => \E j \in DOMAIN s : i < j /\ j < k /\ Is(s, j, n, "Open")

\* Every openOk is followed by a close or a closeOk.
Ended(s, n) ==
    \A i \in DOMAIN s : Is(s, i, n, "OpenOk") =>
        \E j \in DOMAIN s : i < j /\ (Is(s, j, n, "Close") \/ Is(s, j, n, "CloseOk"))

LEMMA TailSays ==
    ASSUME NEW F, NEW s \in Seq(F), s # <<>>, NEW n
    PROVE  LET r == Tail(s)
           IN  /\ r \in Seq(F) /\ Head(s) = s[1]
               /\ Uses(r, n) => Uses(s, n)
               /\ s[1].channel = n => Uses(s, n)
               /\ \A t : Is(s, 1, n, t) => Has(s, n, t)
               /\ \A t : Has(r, n, t) => Has(s, n, t)
               /\ \A t : Has(s, n, t) => Is(s, 1, n, t) \/ Has(r, n, t)
               /\ \A t, u : Later(r, n, t, u) => Later(s, n, t, u)
               /\ \A t, u : Is(s, 1, n, t) /\ Has(r, n, u) => Later(s, n, t, u)
               /\ Ended(s, n) => Ended(r, n)
               /\ Ended(s, n) /\ Is(s, 1, n, "OpenOk") => Has(r, n, "Close") \/ Has(r, n, "CloseOk")
<1> DEFINE r == Tail(s)
<1>1. /\ r \in Seq(F) /\ Head(s) = s[1] /\ 1 \in DOMAIN s
      /\ \A i \in DOMAIN r : i + 1 \in DOMAIN s /\ r[i] = s[i + 1]
      /\ \A i \in DOMAIN s : i > 1 => i - 1 \in DOMAIN r /\ r[i - 1] = s[i]
      /\ \A i \in DOMAIN s : i \in Int /\ i >= 1
      /\ \A i \in DOMAIN r : i \in Int /\ i >= 1
  BY TailEntries
<1> HIDE DEF r
<1>2. Uses(r, n) => Uses(s, n)
  BY <1>1 DEF Uses
<1>3. s[1].channel = n => Uses(s, n)
  BY <1>1 DEF Uses
<1>4. \A t : Is(s, 1, n, t) => Has(s, n, t)
  BY <1>1 DEF Has
<1>5. \A t : \A i \in DOMAIN r : Is(r, i, n, t) <=> Is(s, i + 1, n, t)
  BY <1>1 DEF Is
<1>6. \A t : \A i \in DOMAIN s : i > 1 => (Is(r, i - 1, n, t) <=> Is(s, i, n, t))
  BY <1>1 DEF Is
<1>7. \A t : Has(r, n, t) => Has(s, n, t)
  BY <1>1, <1>5 DEF Has
<1>8. ASSUME NEW t, Has(s, n, t)
      PROVE  Is(s, 1, n, t) \/ Has(r, n, t)
  <2>1. PICK i \in DOMAIN s : Is(s, i, n, t)
    BY <1>8 DEF Has
  <2>2. CASE i = 1
    BY <2>1, <2>2
  <2>3. CASE i > 1
    BY <1>1, <1>6, <2>1, <2>3 DEF Has
  <2>4. QED
    BY <1>1, <2>2, <2>3
<1>9. ASSUME NEW t, NEW u, Later(r, n, t, u)
      PROVE  Later(s, n, t, u)
  <2>1. PICK i, j \in DOMAIN r : i < j /\ Is(r, i, n, t) /\ Is(r, j, n, u)
    BY <1>9 DEF Later
  <2>2. i + 1 \in DOMAIN s /\ j + 1 \in DOMAIN s /\ i + 1 < j + 1
    BY <1>1, <2>1
  <2>3. QED
    BY <1>5, <2>1, <2>2 DEF Later
<1>10. ASSUME NEW t, NEW u, Is(s, 1, n, t), Has(r, n, u)
       PROVE  Later(s, n, t, u)
  <2>1. PICK i \in DOMAIN r : Is(r, i, n, u)
    BY <1>10 DEF Has
  <2>2. i + 1 \in DOMAIN s /\ 1 < i + 1
    BY <1>1
  <2>3. QED
    BY <1>1, <1>5, <1>10, <2>1, <2>2 DEF Later
<1>11. ASSUME Ended(s, n)
       PROVE  Ended(r, n)
  <2> SUFFICES ASSUME NEW i \in DOMAIN r, Is(r, i, n, "OpenOk")
               PROVE  \E j \in DOMAIN r : i < j /\ (Is(r, j, n, "Close") \/ Is(r, j, n, "CloseOk"))
    BY DEF Ended
  <2>1. i + 1 \in DOMAIN s /\ Is(s, i + 1, n, "OpenOk")
    BY <1>1, <1>5
  <2>2. PICK j \in DOMAIN s : i + 1 < j /\ (Is(s, j, n, "Close") \/ Is(s, j, n, "CloseOk"))
    BY <1>11, <2>1 DEF Ended
  <2>3. j - 1 \in DOMAIN r /\ i < j - 1 /\ j > 1
    BY <1>1, <2>2
  <2>4. QED
    BY <1>6, <2>2, <2>3
<1>12. ASSUME Ended(s, n), Is(s, 1, n, "OpenOk")
       PROVE  Has(r, n, "Close") \/ Has(r, n, "CloseOk")
  <2>1. PICK j \in DOMAIN s : 1 < j /\ (Is(s, j, n, "Close") \/ Is(s, j, n, "CloseOk"))
    BY <1>1, <1>12 DEF Ended
  <2>2. j - 1 \in DOMAIN r /\ j > 1
    BY <1>1, <2>1
  <2>3. QED
    BY <1>6, <2>1, <2>2 DEF Has
<1> HIDE DEF Uses, Is, Has, Later, Ended
<1>13. QED
  BY <1>1, <1>2, <1>3, <1>4, <1>7, <1>8, <1>9, <1>10, <1>11, <1>12 DEF r

LEMMA TailServes ==
    ASSUME NEW F, NEW s \in Seq(F), s # <<>>, NEW n
    PROVE  LET r == Tail(s)
           IN  /\ Parted(s, n) => Parted(r, n)
               /\ Parted(s, n) /\ (Is(s, 1, n, "Close") \/ Is(s, 1, n, "CloseOk")) => Led(r, n)
               /\ Led(s, n) /\ ~Is(s, 1, n, "Open") => Led(r, n)
               /\ Led(s, n) => ~IsServed(s, 1, n)
<1> DEFINE r == Tail(s)
<1>1. /\ r \in Seq(F) /\ 1 \in DOMAIN s
      /\ \A i \in DOMAIN r : i + 1 \in DOMAIN s /\ r[i] = s[i + 1]
      /\ \A i \in DOMAIN s : i > 1 => i - 1 \in DOMAIN r /\ r[i - 1] = s[i]
      /\ \A i \in DOMAIN s : i \in Int /\ i >= 1
      /\ \A i \in DOMAIN r : i \in Int /\ i >= 1
  BY TailEntries
<1> HIDE DEF r
<1>2. \A t : \A i \in DOMAIN r : Is(r, i, n, t) <=> Is(s, i + 1, n, t)
  BY <1>1 DEF Is
<1>3. \A t : \A i \in DOMAIN s : i > 1 => (Is(r, i - 1, n, t) <=> Is(s, i, n, t))
  BY <1>1 DEF Is
<1>4. \A i \in DOMAIN r : IsServed(r, i, n) <=> IsServed(s, i + 1, n)
  BY <1>1 DEF IsServed
<1>5. ASSUME Parted(s, n)
      PROVE  Parted(r, n)
  <2> SUFFICES ASSUME NEW i \in DOMAIN r, NEW k \in DOMAIN r,
                      Is(r, i, n, "Close") \/ Is(r, i, n, "CloseOk"), i < k, IsServed(r, k, n)
               PROVE  \E j \in DOMAIN r : i < j /\ j < k /\ Is(r, j, n, "Open")
    BY DEF Parted
  <2>1. /\ i + 1 \in DOMAIN s /\ k + 1 \in DOMAIN s /\ i + 1 < k + 1
        /\ Is(s, i + 1, n, "Close") \/ Is(s, i + 1, n, "CloseOk")
        /\ IsServed(s, k + 1, n)
    BY <1>1, <1>2, <1>4
  <2>2. PICK j \in DOMAIN s : i + 1 < j /\ j < k + 1 /\ Is(s, j, n, "Open")
    BY <1>5, <2>1 DEF Parted
  <2>3. j \in Int /\ k \in Int /\ i \in Int /\ i >= 1
    BY <1>1
  <2>4. i < j - 1 /\ j - 1 < k /\ j > 1
    BY <2>2, <2>3
  <2>5. j - 1 \in DOMAIN r
    BY <1>1, <2>4
  <2>6. QED
    BY <1>3, <2>2, <2>4, <2>5
<1>6. ASSUME Parted(s, n), Is(s, 1, n, "Close") \/ Is(s, 1, n, "CloseOk")
      PROVE  Led(r, n)
  <2> SUFFICES ASSUME NEW k \in DOMAIN r, IsServed(r, k, n)
               PROVE  \E j \in DOMAIN r : j < k /\ Is(r, j, n, "Open")
    BY DEF Led
  <2>1. k + 1 \in DOMAIN s /\ 1 < k + 1 /\ IsServed(s, k + 1, n)
    BY <1>1, <1>4
  <2>2. PICK j \in DOMAIN s : 1 < j /\ j < k + 1 /\ Is(s, j, n, "Open")
    BY <1>1, <1>6, <2>1 DEF Parted
  <2>3. j \in Int /\ k \in Int
    BY <1>1
  <2>4. j - 1 < k /\ j > 1
    BY <2>2, <2>3
  <2>5. j - 1 \in DOMAIN r
    BY <1>1, <2>4
  <2>6. QED
    BY <1>3, <2>2, <2>4, <2>5
<1>7. ASSUME Led(s, n), ~Is(s, 1, n, "Open")
      PROVE  Led(r, n)
  <2> SUFFICES ASSUME NEW k \in DOMAIN r, IsServed(r, k, n)
               PROVE  \E j \in DOMAIN r : j < k /\ Is(r, j, n, "Open")
    BY DEF Led
  <2>1. k + 1 \in DOMAIN s /\ IsServed(s, k + 1, n)
    BY <1>1, <1>4
  <2>2. PICK j \in DOMAIN s : j < k + 1 /\ Is(s, j, n, "Open")
    BY <1>7, <2>1 DEF Led
  <2>3. j # 1
    BY <1>7, <2>2
  <2>4. j - 1 \in DOMAIN r /\ j - 1 < k /\ j > 1
    BY <1>1, <2>2, <2>3
  <2>5. QED
    BY <1>3, <2>2, <2>4
<1>8. ASSUME Led(s, n)
      PROVE  ~IsServed(s, 1, n)
  BY <1>1, <1>8 DEF Led
<1> HIDE DEF Is, IsServed, Led, Parted
<1>9. QED
  BY <1>5, <1>6, <1>7, <1>8 DEF r

\* Frames sent after others.
LEMMA ConcatSays ==
    ASSUME NEW F, NEW s \in Seq(F), NEW fs \in Seq(F), NEW n
    PROVE  LET r == s \o fs
           IN  /\ r \in Seq(F)
               /\ Uses(r, n) => Uses(s, n) \/ Uses(fs, n)
               /\ \A t : Has(r, n, t) <=> Has(s, n, t) \/ Has(fs, n, t)
               /\ \A t, u : Later(r, n, t, u)
                     <=> Later(s, n, t, u) \/ Later(fs, n, t, u) \/ (Has(s, n, t) /\ Has(fs, n, u))
<1> DEFINE r == s \o fs
           L == Len(s)
<1>1. /\ r \in Seq(F) /\ L \in Nat /\ Len(fs) \in Nat
      /\ DOMAIN r = 1..(L + Len(fs))
      /\ \A i \in 1..(L + Len(fs)) : r[i] = IF i <= L THEN s[i] ELSE fs[i - L]
      /\ DOMAIN s = 1..L /\ DOMAIN fs = 1..Len(fs)
  BY ConcatEntries
<1> HIDE DEF r
<1>2. \A i \in DOMAIN s : i \in DOMAIN r /\ r[i] = s[i] /\ i \in Int /\ i <= L
  BY <1>1
<1>3. \A i \in DOMAIN fs : i + L \in DOMAIN r /\ r[i + L] = fs[i] /\ i \in Int /\ i >= 1
  <2> SUFFICES ASSUME NEW i \in DOMAIN fs
               PROVE  i + L \in DOMAIN r /\ r[i + L] = fs[i] /\ i \in Int /\ i >= 1
    OBVIOUS
  <2>1. i \in 1..Len(fs) /\ i \in Int /\ i >= 1
    BY <1>1
  <2>2. i + L \in 1..(L + Len(fs)) /\ ~(i + L <= L) /\ (i + L) - L = i
    BY <1>1, <2>1
  <2>3. QED
    BY <1>1, <2>1, <2>2
<1>4. ASSUME NEW i \in DOMAIN r
      PROVE  \/ i \in DOMAIN s /\ r[i] = s[i]
             \/ i - L \in DOMAIN fs /\ r[i] = fs[i - L] /\ i > L /\ i \in Int
  <2>1. i \in 1..(L + Len(fs)) /\ i \in Int
    BY <1>1
  <2>2. CASE i <= L
    BY <1>1, <2>1, <2>2
  <2>3. CASE ~(i <= L)
    <3>1. i - L \in 1..Len(fs) /\ i > L
      BY <1>1, <2>1, <2>3
    <3>2. QED
      BY <1>1, <2>1, <2>3, <3>1
  <2>4. QED
    BY <2>2, <2>3
<1>5. Uses(r, n) => Uses(s, n) \/ Uses(fs, n)
  BY <1>4 DEF Uses
<1>6. ASSUME NEW t, Has(r, n, t)
      PROVE  Has(s, n, t) \/ Has(fs, n, t)
  BY <1>4, <1>6 DEF Has, Is
<1>7. ASSUME NEW t, Has(s, n, t) \/ Has(fs, n, t)
      PROVE  Has(r, n, t)
  BY <1>2, <1>3, <1>7 DEF Has, Is
<1>8. ASSUME NEW t, NEW u, Later(r, n, t, u)
      PROVE  Later(s, n, t, u) \/ Later(fs, n, t, u) \/ (Has(s, n, t) /\ Has(fs, n, u))
  <2>1. PICK i, j \in DOMAIN r : i < j /\ Is(r, i, n, t) /\ Is(r, j, n, u)
    BY <1>8 DEF Later
  <2>2. CASE i \in DOMAIN s /\ r[i] = s[i] /\ j \in DOMAIN s /\ r[j] = s[j]
    BY <2>1, <2>2 DEF Later, Is
  <2>3. CASE /\ i \in DOMAIN s /\ r[i] = s[i]
             /\ j - L \in DOMAIN fs /\ r[j] = fs[j - L]
    BY <2>1, <2>3 DEF Has, Is
  <2>4. CASE /\ i - L \in DOMAIN fs /\ r[i] = fs[i - L] /\ i > L /\ i \in Int
             /\ j \in DOMAIN s /\ r[j] = s[j]
    <3>1. j <= L /\ j \in Int
      BY <1>2, <2>4
    <3>2. QED
      BY <1>1, <2>1, <2>4, <3>1
  <2>5. CASE /\ i - L \in DOMAIN fs /\ r[i] = fs[i - L] /\ i > L /\ i \in Int
             /\ j - L \in DOMAIN fs /\ r[j] = fs[j - L] /\ j \in Int
    <3>1. i - L < j - L
      BY <1>1, <2>1, <2>5
    <3>2. QED
      BY <2>1, <2>5, <3>1 DEF Later, Is
  <2>6. QED
    BY <1>4, <2>2, <2>3, <2>4, <2>5
<1>9. ASSUME NEW t, NEW u
      PROVE  Later(s, n, t, u) => Later(r, n, t, u)
  BY <1>2 DEF Later, Is
<1>10. ASSUME NEW t, NEW u, Later(fs, n, t, u)
       PROVE  Later(r, n, t, u)
  <2>1. PICK i, j \in DOMAIN fs : i < j /\ Is(fs, i, n, t) /\ Is(fs, j, n, u)
    BY <1>10 DEF Later
  <2>2. i + L \in DOMAIN r /\ j + L \in DOMAIN r /\ r[i + L] = fs[i] /\ r[j + L] = fs[j]
    BY <1>3
  <2>3. i + L < j + L
    BY <1>1, <1>3, <2>1
  <2>4. QED
    BY <2>1, <2>2, <2>3 DEF Later, Is
<1>11. ASSUME NEW t, NEW u, Has(s, n, t), Has(fs, n, u)
       PROVE  Later(r, n, t, u)
  <2>1. PICK i \in DOMAIN s : Is(s, i, n, t)
    BY <1>11 DEF Has
  <2>2. PICK j \in DOMAIN fs : Is(fs, j, n, u)
    BY <1>11 DEF Has
  <2>3. i \in DOMAIN r /\ j + L \in DOMAIN r /\ r[i] = s[i] /\ r[j + L] = fs[j]
    BY <1>2, <1>3
  <2>4. i < j + L
    BY <1>1, <1>2, <1>3
  <2>5. QED
    BY <2>1, <2>2, <2>3, <2>4 DEF Later, Is
<1> HIDE DEF Uses, Has, Later
<1>12. QED
  BY <1>1, <1>5, <1>6, <1>7, <1>8, <1>9, <1>10, <1>11 DEF r

LEMMA ConcatServes ==
    ASSUME NEW F, NEW s \in Seq(F), NEW fs \in Seq(F), NEW n
    PROVE  LET r == s \o fs
           IN  /\ Led(s, n) /\ (~Serves(fs, n) \/ Has(s, n, "Open")) => Led(r, n)
               /\ Parted(s, n) /\ ~Serves(fs, n) => Parted(r, n)
               /\ Parted(s, n) /\ ~Has(r, n, "Close") /\ ~Has(r, n, "CloseOk") => Parted(r, n)
               /\ (/\ Parted(s, n) /\ ~Has(fs, n, "Close") /\ ~Has(fs, n, "CloseOk")
                   /\ Has(s, n, "Open") /\ ~Later(s, n, "Open", "Close")
                   /\ ~Later(s, n, "Open", "CloseOk"))
                     => Parted(r, n)
<1> DEFINE r == s \o fs
           L == Len(s)
<1>1. /\ r \in Seq(F) /\ L \in Nat /\ Len(fs) \in Nat
      /\ DOMAIN r = 1..(L + Len(fs))
      /\ \A i \in 1..(L + Len(fs)) : r[i] = IF i <= L THEN s[i] ELSE fs[i - L]
      /\ DOMAIN s = 1..L /\ DOMAIN fs = 1..Len(fs)
  BY ConcatEntries
<1> HIDE DEF r
<1>2. \A i \in DOMAIN s : i \in DOMAIN r /\ r[i] = s[i] /\ i \in Int /\ i <= L
  BY <1>1
<1>3. ASSUME NEW i \in DOMAIN r
      PROVE  \/ i \in DOMAIN s /\ r[i] = s[i]
             \/ i - L \in DOMAIN fs /\ r[i] = fs[i - L] /\ i > L /\ i \in Int
  <2>1. i \in 1..(L + Len(fs)) /\ i \in Int
    BY <1>1
  <2>2. CASE i <= L
    BY <1>1, <2>1, <2>2
  <2>3. CASE ~(i <= L)
    <3>1. i - L \in 1..Len(fs) /\ i > L
      BY <1>1, <2>1, <2>3
    <3>2. QED
      BY <1>1, <2>1, <2>3, <3>1
  <2>4. QED
    BY <2>2, <2>3
<1>4. ASSUME NEW i \in DOMAIN r
      PROVE  /\ \A t : ~Has(fs, n, t) /\ Is(r, i, n, t) => i \in DOMAIN s /\ Is(s, i, n, t)
             /\ ~Serves(fs, n) /\ IsServed(r, i, n) => i \in DOMAIN s /\ IsServed(s, i, n)
             /\ i \in DOMAIN s /\ IsServed(r, i, n) => IsServed(s, i, n)
             /\ \A t : i \in DOMAIN s /\ Is(r, i, n, t) => Is(s, i, n, t)
  BY <1>3 DEF Has, Serves, Is, IsServed
<1>5. \A i \in DOMAIN s : \A t : Is(s, i, n, t) => i \in DOMAIN r /\ Is(r, i, n, t)
  BY <1>2 DEF Is
<1>6. ASSUME Led(s, n), ~Serves(fs, n) \/ Has(s, n, "Open")
      PROVE  Led(r, n)
  <2> SUFFICES ASSUME NEW i \in DOMAIN r, IsServed(r, i, n)
               PROVE  \E j \in DOMAIN r : j < i /\ Is(r, j, n, "Open")
    BY DEF Led
  <2>1. CASE i \in DOMAIN s
    <3>1. PICK j \in DOMAIN s : j < i /\ Is(s, j, n, "Open")
      BY <1>4, <1>6, <2>1 DEF Led
    <3>2. QED
      BY <1>5, <3>1
  <2>2. CASE i \notin DOMAIN s
    <3>1. Has(s, n, "Open") /\ i > L /\ i \in Int
      BY <1>3, <1>4, <1>6, <2>2
    <3>2. PICK j \in DOMAIN s : Is(s, j, n, "Open")
      BY <3>1 DEF Has
    <3>3. j < i
      BY <1>1, <1>2, <3>1
    <3>4. QED
      BY <1>5, <3>2, <3>3
  <2>3. QED
    BY <2>1, <2>2
<1>7. ASSUME Parted(s, n),
             NEW i \in DOMAIN r, NEW k \in DOMAIN r, i < k,
             Is(r, i, n, "Close") \/ Is(r, i, n, "CloseOk"), IsServed(r, k, n),
             k \in DOMAIN s
      PROVE  \E j \in DOMAIN r : i < j /\ j < k /\ Is(r, j, n, "Open")
  <2>1. i \in DOMAIN s
    <3>1. k \in Int /\ k <= L
      BY <1>2, <1>7
    <3>2. ~(i > L /\ i \in Int)
      BY <1>1, <1>7, <3>1
    <3>3. QED
      BY <1>3, <3>2
  <2>2. IsServed(s, k, n) /\ (Is(s, i, n, "Close") \/ Is(s, i, n, "CloseOk"))
    BY <1>4, <1>7, <2>1
  <2>3. PICK j \in DOMAIN s : i < j /\ j < k /\ Is(s, j, n, "Open")
    BY <1>7, <2>1, <2>2 DEF Parted
  <2>4. QED
    BY <1>5, <2>3
<1>8. ASSUME Parted(s, n), ~Serves(fs, n)
      PROVE  Parted(r, n)
  BY <1>4, <1>7, <1>8 DEF Parted
<1>9. ASSUME ~Has(r, n, "Close"), ~Has(r, n, "CloseOk")
      PROVE  Parted(r, n)
  BY <1>9 DEF Parted, Has
<1>10. ASSUME Parted(s, n), ~Has(fs, n, "Close"), ~Has(fs, n, "CloseOk"),
              Has(s, n, "Open"), ~Later(s, n, "Open", "Close"),
              ~Later(s, n, "Open", "CloseOk")
       PROVE  Parted(r, n)
  <2> SUFFICES ASSUME NEW i \in DOMAIN r, NEW k \in DOMAIN r, i < k,
                      Is(r, i, n, "Close") \/ Is(r, i, n, "CloseOk"), IsServed(r, k, n)
               PROVE  \E j \in DOMAIN r : i < j /\ j < k /\ Is(r, j, n, "Open")
    BY DEF Parted
  <2>1. CASE k \in DOMAIN s
    BY <1>7, <1>10, <2>1
  <2>2. CASE k \notin DOMAIN s
    <3>1. i \in DOMAIN s /\ (Is(s, i, n, "Close") \/ Is(s, i, n, "CloseOk"))
      BY <1>4, <1>10
    <3>2. PICK j \in DOMAIN s : Is(s, j, n, "Open")
      BY <1>10 DEF Has
    <3>3. ~(j < i)
      BY <1>10, <3>1, <3>2 DEF Later
    <3>4. j # i
      BY <3>1, <3>2 DEF Is
    <3>5. i < j /\ j < k
      <4>1. i \in Int /\ j \in Int /\ j <= L /\ k > L /\ k \in Int
        BY <1>2, <1>3, <2>2, <3>1
      <4>2. QED
        BY <1>1, <3>3, <3>4, <4>1
    <3>6. QED
      BY <1>5, <3>2, <3>5
  <2>3. QED
    BY <2>1, <2>2
<1> HIDE DEF Led, Parted, Serves, Has, Later
<1>11. QED
  BY <1>6, <1>8, <1>9, <1>10 DEF r

\* A close, or a closeOk, of the channel ends what was opened before it.
LEMMA ConcatEnds ==
    ASSUME NEW F, NEW s \in Seq(F), NEW f \in F, NEW n
    PROVE  /\ f.channel # n \/ f.type # "OpenOk" =>
                 (Ended(s, n) => Ended(s \o <<f>>, n))
           /\ f.channel = n /\ f.type \in {"Close", "CloseOk"} => Ended(s \o <<f>>, n)
<1> DEFINE r == s \o <<f>>
           L == Len(s)
<1>1. /\ DOMAIN r = 1..(L + 1) /\ L \in Nat /\ DOMAIN s = 1..L
      /\ \A i \in 1..L : r[i] = s[i]
      /\ r[L + 1] = f
  OBVIOUS
<1> HIDE DEF r
<1>2. \A i \in DOMAIN s : i \in DOMAIN r /\ i < L + 1 /\ \A t : Is(r, i, n, t) <=> Is(s, i, n, t)
  BY <1>1 DEF Is
<1>3. \A i \in DOMAIN r : i = L + 1 \/ i \in DOMAIN s
  BY <1>1
<1>4. L + 1 \in DOMAIN r /\ \A t : Is(r, L + 1, n, t) <=> f.channel = n /\ f.type = t
  BY <1>1 DEF Is
<1>5. ASSUME f.channel # n \/ f.type # "OpenOk", Ended(s, n)
      PROVE  Ended(r, n)
  BY <1>2, <1>3, <1>4, <1>5 DEF Ended
<1>6. ASSUME f.channel = n, f.type \in {"Close", "CloseOk"}
      PROVE  Ended(r, n)
  <2>1. ~Is(r, L + 1, n, "OpenOk")
    BY <1>4, <1>6
  <2>2. Is(r, L + 1, n, "Close") \/ Is(r, L + 1, n, "CloseOk")
    BY <1>4, <1>6
  <2>3. QED
    BY <1>2, <1>3, <1>4, <2>1, <2>2 DEF Ended
<1>7. QED
  BY <1>5, <1>6 DEF r

LEMMA OneSays ==
    ASSUME NEW F, NEW f \in F, NEW n
    PROVE  /\ <<f>> \in Seq(F) /\ <<f>> # <<>>
           /\ Uses(<<f>>, n) <=> f.channel = n
           /\ \A t : Has(<<f>>, n, t) <=> f.channel = n /\ f.type = t
           /\ \A t, u : ~Later(<<f>>, n, t, u)
           /\ Serves(<<f>>, n) <=> f.channel = n /\ f.type \in Served
<1> DEFINE s == <<f>>
<1>1. s \in Seq(F) /\ s # <<>> /\ DOMAIN s = {1} /\ s[1] = f
  OBVIOUS
<1> HIDE DEF s
<1>2. \A t, u : ~Later(s, n, t, u)
  BY <1>1 DEF Later
<1>3. QED
  BY <1>1, <1>2 DEF Uses, Has, Serves, Is, IsServed, s

LEMMA NoneSays ==
    ASSUME NEW n
    PROVE  /\ ~Uses(<<>>, n) /\ ~Serves(<<>>, n)
           /\ \A t : ~Has(<<>>, n, t)
           /\ \A t, u : ~Later(<<>>, n, t, u)
           /\ Led(<<>>, n) /\ Parted(<<>>, n) /\ Ended(<<>>, n)
  BY DEF Uses, Serves, Has, Later, Led, Parted, Ended

-----------------------------------------------------------------------------
(* The inductive invariant: the part that holds whatever happens.          *)

Owned(n) == \E o \in Objects : object[o].number = n

\* Something is known of the channel at the broker, or is on its way.
Used(n) == broker[n] # "closed" \/ Uses(out, n) \/ Uses(in, n)

\* `order` lists each object there is once.
Listed ==
    /\ \A o \in Objects : Exists(o) <=> \E i \in DOMAIN order : order[i] = o
    /\ \A i, j \in DOMAIN order : order[i] = order[j] => i = j
    /\ \A o \in Objects : ~Exists(o) => object[o] = Absent

\* Each of the bindings kept was asked for by a call.
BindingsCalled == \A o \in Objects : object[o].bindings <= calls

\* Nothing is left of a connection once it has ended.
NothingLeft ==
    /\ link # "up" => in = <<>> /\ out = <<>> /\ broker = AllClosed
    /\ link = "down" => \A o \in Objects : ~object[o].opened

\* An openOk comes from an open channel, or is followed by the end of it.
OpenOksInTime == \A n \in Numbers : broker[n] = "open" \/ Ended(in, n)

\* A channel in use has an object that looks after it, unless that is deleted.
UsedAreOwned == "delete" \notin happened => \A n \in Numbers : Used(n) => Owned(n)

\* The numbers above nextChannelNumber are not in use while it is not reset.
UnusedAbove ==
    losses = 0 /\ link # "closing" => \A n \in Numbers : Used(n) \/ Owned(n) => n <= next

\* Some object opens the channel of each object when the connection is made.
SomeOpens ==
    happened \cap {"gap", "delete"} = {} =>
        \A o \in Objects : Exists(o) =>
            \E p \in Objects : object[p].number = object[o].number /\ object[p].needOpen

Kept ==
    /\ TypeOK
    /\ Listed
    /\ BindingsCalled
    /\ NothingLeft
    /\ OpenOksInTime
    /\ OpenedIsOpen
    /\ UsedAreOwned
    /\ CloseIsAnswered
    /\ UnusedAbove
    /\ SomeOpens

LEMMA FrameTypes ==
    /\ \A f \in InFrames : f.channel \in Numbers
    /\ \A f \in OutFrames : f.channel \in Numbers
    /\ \A n \in Numbers, t \in {"Open", "Close", "CloseOk", "Declare", "Bind", "Flow"} :
          [type |-> t, channel |-> n] \in OutFrames
    /\ \A n \in Numbers, c \in Prefetches : [type |-> "Qos", channel |-> n, count |-> c] \in OutFrames
    /\ \A n \in Numbers, t \in {"OpenOk", "Close", "CloseOk", "QosOk", "FlowOk"} :
          [type |-> t, channel |-> n] \in InFrames
  BY DEF InFrames, OutFrames

\* Contains, of the modules, and Has say the same of a frame.
LEMMA ContainsIn ==
    ASSUME NEW s \in Seq(InFrames), NEW n, NEW t
    PROVE  Contains(s, [type |-> t, channel |-> n]) <=> Has(s, n, t)
<1>1. DOMAIN s = 1..Len(s) /\ \A i \in DOMAIN s : s[i] \in InFrames
  OBVIOUS
<1>2. \A f \in InFrames : f = [type |-> t, channel |-> n] <=> f.channel = n /\ f.type = t
  BY DEF InFrames
<1>3. QED
  BY <1>1, <1>2 DEF Contains, Has, Is

LEMMA ContainsOut ==
    ASSUME NEW s \in Seq(OutFrames), NEW n, NEW t, t # "Qos"
    PROVE  Contains(s, [type |-> t, channel |-> n]) <=> Has(s, n, t)
<1>1. DOMAIN s = 1..Len(s) /\ \A i \in DOMAIN s : s[i] \in OutFrames
  OBVIOUS
<1>2. \A f \in OutFrames : f = [type |-> t, channel |-> n] <=> f.channel = n /\ f.type = t
  BY DEF OutFrames
<1>3. QED
  BY <1>1, <1>2 DEF Contains, Has, Is

\* The invariants that name frames, in the terms above.
LEMMA OpenedSays ==
    ASSUME in \in Seq(InFrames)
    PROVE  OpenedIsOpen <=>
             (link = "up" => \A o \in Objects : object[o].opened =>
                \/ broker[object[o].number] = "open"
                \/ Has(in, object[o].number, "Close")
                \/ Has(in, object[o].number, "CloseOk"))
  BY ContainsIn DEF OpenedIsOpen

LEMMA AnsweredSays ==
    ASSUME in \in Seq(InFrames), out \in Seq(OutFrames)
    PROVE  CloseIsAnswered <=>
             ("delete" \notin happened => \A n \in Numbers : broker[n] = "closing" =>
                Has(in, n, "Close") \/ Has(out, n, "CloseOk"))
<1>1. \A n : Contains(in, [type |-> "Close", channel |-> n]) <=> Has(in, n, "Close")
  BY ContainsIn
<1>2. \A n : Contains(out, [type |-> "CloseOk", channel |-> n]) <=> Has(out, n, "CloseOk")
  BY ContainsOut
<1>3. QED
  BY <1>1, <1>2 DEF CloseIsAnswered

LEMMA OpenedSaysNext ==
    ASSUME in' \in Seq(InFrames)
    PROVE  OpenedIsOpen' <=>
             (link' = "up" => \A o \in Objects : object'[o].opened =>
                \/ broker'[object'[o].number] = "open"
                \/ Has(in', object'[o].number, "Close")
                \/ Has(in', object'[o].number, "CloseOk"))
  BY ContainsIn DEF OpenedIsOpen

LEMMA AnsweredSaysNext ==
    ASSUME in' \in Seq(InFrames), out' \in Seq(OutFrames)
    PROVE  CloseIsAnswered' <=>
             ("delete" \notin happened' => \A n \in Numbers : broker'[n] = "closing" =>
                Has(in', n, "Close") \/ Has(out', n, "CloseOk"))
<1>1. \A n : Contains(in', [type |-> "Close", channel |-> n]) <=> Has(in', n, "Close")
  BY ContainsIn
<1>2. \A n : Contains(out', [type |-> "CloseOk", channel |-> n]) <=> Has(out', n, "CloseOk")
  BY ContainsOut
<1>3. QED
  BY <1>1, <1>2 DEF CloseIsAnswered

-----------------------------------------------------------------------------
(* A call of the user about an object.                                     *)

Asked(o) ==
    \E c \in Object, fs \in Seq(OutFrames) :
        /\ Call /\ Exists(o)
        /\ happened \subseteq happened' /\ happened' \subseteq Events
        /\ object' = [object EXCEPT ![o] = c]
        /\ c.number = object[o].number
        /\ c.opened => object[o].opened
        /\ object[o].needOpen => c.needOpen
        /\ c.bindings <= calls + 1
        /\ \A i \in DOMAIN fs : fs[i].channel = object[o].number
        /\ Send(fs)
        /\ UNCHANGED <<link, order, next, in, broker, limit, losses>>

LEMMA AskedKeeps ==
    ASSUME Kept, NEW o \in Objects, Asked(o)
    PROVE  Kept'
<1>1. PICK c \in Object, fs \in Seq(OutFrames) :
        /\ Call /\ Exists(o)
        /\ happened \subseteq happened' /\ happened' \subseteq Events
        /\ object' = [object EXCEPT ![o] = c]
        /\ c.number = object[o].number
        /\ c.opened => object[o].opened
        /\ object[o].needOpen => c.needOpen
        /\ c.bindings <= calls + 1
        /\ \A i \in DOMAIN fs : fs[i].channel = object[o].number
        /\ Send(fs)
        /\ UNCHANGED <<link, order, next, in, broker, limit, losses>>
  BY DEF Asked
<1>2. /\ TypeOK /\ Listed /\ BindingsCalled /\ NothingLeft /\ OpenOksInTime
      /\ OpenedIsOpen /\ UsedAreOwned /\ CloseIsAnswered /\ UnusedAbove /\ SomeOpens
  BY DEF Kept
<1>3. /\ object \in [Objects -> Object] /\ in \in Seq(InFrames) /\ out \in Seq(OutFrames)
      /\ calls \in 0..MaxCalls /\ MaxCalls \in Nat /\ losses \in 0..MaxLosses
  BY <1>2, ChannelsAssumption DEF TypeOK
<1>4. object' \in [Objects -> Object] /\ object'[o] = c /\ \A p \in Objects : p # o => object'[p] = object[p]
  BY <1>1, <1>3
<1>5. \A p \in Objects : /\ object'[p].number = object[p].number
                         /\ object'[p].opened => object[p].opened
                         /\ object[p].needOpen => object'[p].needOpen
                         /\ Exists(p)' <=> Exists(p)
  BY <1>1, <1>4 DEF Exists
<1>6. calls' = calls + 1 /\ calls' \in 0..MaxCalls
  BY <1>1, <1>3 DEF Call
<1>7. /\ out' \in Seq(OutFrames)
      /\ \A n : Uses(out', n) => Uses(out, n) \/ (link = "up" /\ n = object[o].number)
      /\ \A n, t : Has(out, n, t) => Has(out', n, t)
      /\ link # "up" => out' = out
  <2>1. CASE link = "up"
    <3>1. out' = out \o fs
      BY <1>1, <2>1 DEF Send
    <3>2. out' \in Seq(OutFrames)
      BY <1>3, <3>1, ConcatSays
    <3>3. \A n : Uses(fs, n) => n = object[o].number
      BY <1>1 DEF Uses
    <3>4. \A n : Uses(out', n) => Uses(out, n) \/ Uses(fs, n)
      BY <1>3, <3>1, ConcatSays
    <3>5. \A n, t : Has(out, n, t) => Has(out', n, t)
      BY <1>3, <3>1, ConcatSays
    <3>6. QED
      BY <2>1, <3>2, <3>3, <3>4, <3>5
  <2>2. CASE link # "up"
    <3>1. out' = out
      BY <1>1, <2>2 DEF Send
    <3>2. QED
      BY <1>3, <2>2, <3>1
  <2>3. QED
    BY <2>1, <2>2
<1>8. TypeOK'
  BY <1>1, <1>2, <1>4, <1>6, <1>7 DEF TypeOK
<1>9. Listed'
  <2>1. ASSUME NEW p \in Objects, ~Exists(p)
        PROVE  object'[p] = Absent
    BY <1>1, <1>2, <1>4, <2>1 DEF Listed
  <2>2. QED
    BY <1>1, <1>2, <1>5, <2>1 DEF Listed
<1>10. BindingsCalled'
  <2> SUFFICES ASSUME NEW p \in Objects
               PROVE  object'[p].bindings <= calls'
    BY DEF BindingsCalled
  <2>1. CASE p = o
    BY <1>1, <1>4, <1>6, <2>1
  <2>2. CASE p # o
    <3>1. object[p].bindings <= calls /\ object[p].bindings \in Int
      BY <1>2, <1>3 DEF BindingsCalled, Object
    <3>2. object'[p].bindings = object[p].bindings
      BY <1>4, <2>2
    <3>3. QED
      BY <1>3, <1>6, <3>1, <3>2
  <2>3. QED
    BY <2>1, <2>2
<1>11. NothingLeft'
  BY <1>1, <1>2, <1>5, <1>7 DEF NothingLeft, AllClosed
<1>12. OpenOksInTime'
  BY <1>1, <1>2 DEF OpenOksInTime
<1>13. OpenedIsOpen'
  <2>1. link = "up" => \A p \in Objects : object[p].opened =>
                \/ broker[object[p].number] = "open"
                \/ Has(in, object[p].number, "Close")
                \/ Has(in, object[p].number, "CloseOk")
    BY <1>2, <1>3, OpenedSays
  <2>2. QED
    BY <1>1, <1>3, <1>5, <2>1, OpenedSaysNext
<1>14. UsedAreOwned'
  <2>1. \A n : Owned(n)' <=> Owned(n)
    BY <1>5 DEF Owned
  <2>2. \A n : Used(n)' => Used(n) \/ n = object[o].number
    BY <1>1, <1>7 DEF Used
  <2>3. Owned(object[o].number)
    BY DEF Owned
  <2>4. "delete" \notin happened' => "delete" \notin happened
    BY <1>1
  <2>5. QED
    BY <1>2, <2>1, <2>2, <2>3, <2>4 DEF UsedAreOwned
<1>15. CloseIsAnswered'
  <2>1. "delete" \notin happened => \A n \in Numbers : broker[n] = "closing" =>
                Has(in, n, "Close") \/ Has(out, n, "CloseOk")
    BY <1>2, <1>3, AnsweredSays
  <2>2. "delete" \notin happened' => "delete" \notin happened
    BY <1>1
  <2>3. QED
    BY <1>1, <1>3, <1>7, <2>1, <2>2, AnsweredSaysNext
<1>16. UnusedAbove'
  <2>1. \A n : Owned(n)' <=> Owned(n)
    BY <1>5 DEF Owned
  <2>2. \A n : Used(n)' => Used(n) \/ n = object[o].number
    BY <1>1, <1>7 DEF Used
  <2>3. Owned(object[o].number)
    BY DEF Owned
  <2>4. QED
    BY <1>1, <1>2, <2>1, <2>2, <2>3 DEF UnusedAbove
<1>17. SomeOpens'
  <2>1. happened' \cap {"gap", "delete"} = {} => happened \cap {"gap", "delete"} = {}
    BY <1>1
  <2>2. QED
    BY <1>2, <1>5, <2>1 DEF SomeOpens
<1>18. QED
  BY <1>8, <1>9, <1>10, <1>11, <1>12, <1>13, <1>14, <1>15, <1>16, <1>17 DEF Kept

\* The fields of an object and what the calls make of them.
LEMMA ObjectFields ==
    ASSUME NEW c \in Object
    PROVE  /\ c.number \in Numbers \cup {0} /\ c.opened \in BOOLEAN /\ c.needOpen \in BOOLEAN
           /\ c.delayedDeclare \in BOOLEAN /\ c.asked \in BOOLEAN
           /\ c.bindings \in 0..MaxCalls
           /\ c.requested \in Prefetches \cup {0} /\ c.prefetch \in Prefetches \cup {0}
  BY DEF Object

Follows(c, d) ==
    /\ d \in Object
    /\ d.number = c.number
    /\ d.opened => c.opened
    /\ c.needOpen => d.needOpen
    /\ d.bindings = c.bindings \/ d.bindings = c.bindings + 1

LEMMA CallsFollow ==
    ASSUME NEW c \in Object
    PROVE  /\ Follows(c, c)
           /\ Follows(c, [c EXCEPT !.needOpen = TRUE])
           /\ Follows(c, Cleared(c)) /\ (c.opened \/ Cleared(c).needOpen = c.needOpen)
           /\ \A a, b \in BOOLEAN : Follows(c, [c EXCEPT !.delayedDeclare = a, !.asked = b])
           /\ \A b \in 0..MaxCalls : b = c.bindings \/ b = c.bindings + 1
                 => Follows(c, [c EXCEPT !.bindings = b])
           /\ \A p \in Prefetches : Follows(c, [c EXCEPT !.requested = p])
<1>1. Follows(c, c)
  BY DEF Follows
<1>2. Follows(c, [c EXCEPT !.needOpen = TRUE])
  BY DEF Follows, Object
<1>3. Follows(c, Cleared(c)) /\ (c.opened \/ Cleared(c).needOpen = c.needOpen)
  BY DEF Follows, Object, Cleared
<1>4. ASSUME NEW a \in BOOLEAN, NEW b \in BOOLEAN
      PROVE  Follows(c, [c EXCEPT !.delayedDeclare = a, !.asked = b])
  BY DEF Follows, Object
<1>5. ASSUME NEW b \in 0..MaxCalls, b = c.bindings \/ b = c.bindings + 1
      PROVE  Follows(c, [c EXCEPT !.bindings = b])
  BY <1>5 DEF Follows, Object
<1>6. ASSUME NEW p \in Prefetches
      PROVE  Follows(c, [c EXCEPT !.requested = p])
  BY DEF Follows, Object
<1>7. QED
  BY <1>1, <1>2, <1>3, <1>4, <1>5, <1>6

LEMMA CallsAsk ==
    ASSUME Kept, NEW o \in Objects
    PROVE  /\ Close(o) \/ Reopen(o) \/ Reset(o) \/ Declare(o) \/ Qos(o) \/ Resume(o) => Asked(o)
           /\ o \in Queues /\ Bind(o) => Asked(o)
<1>1. /\ object \in [Objects -> Object] /\ calls \in Nat /\ BindingsCalled
      /\ happened \subseteq Events /\ MaxCalls \in Nat
  BY ChannelsAssumption DEF Kept, TypeOK
<1>2. /\ object[o] \in Object /\ object[o].bindings <= calls
      /\ object[o].number \in Numbers \cup {0} /\ object[o].bindings \in 0..MaxCalls
      /\ object = [object EXCEPT ![o] = object[o]]
  BY <1>1, ObjectFields DEF BindingsCalled
<1> DEFINE c == object[o]
           n == object[o].number
<1>3. /\ <<>> \in Seq(OutFrames) /\ \A i \in DOMAIN <<>> : <<>>[i].channel = n
      /\ \A f \in OutFrames : f.channel = n =>
            <<f>> \in Seq(OutFrames) /\ \A i \in DOMAIN <<f>> : <<f>>[i].channel = n
  OBVIOUS
<1>4. Exists(o) =>
        /\ n \in Numbers
        /\ \A t \in {"Open", "Close", "CloseOk", "Declare", "Bind", "Flow"} :
              Frame(o, t) \in OutFrames /\ Frame(o, t).channel = n
        /\ \A k \in Prefetches : [type |-> "Qos", channel |-> n, count |-> k] \in OutFrames
  BY <1>2, FrameTypes DEF Exists, Frame
<1>5. ASSUME NEW d, NEW fs \in Seq(OutFrames), NEW events,
             Call, Exists(o), Happens(events),
             object' = [object EXCEPT ![o] = d],
             Follows(c, d),
             \A i \in DOMAIN fs : fs[i].channel = n, Send(fs),
             UNCHANGED <<link, order, next, in, broker, limit, losses>>
      PROVE  Asked(o)
  <2>1. happened \subseteq happened' /\ happened' \subseteq Events
    BY <1>1, <1>5 DEF Happens
  <2>2. d.bindings <= calls + 1
    BY <1>1, <1>2, <1>5 DEF Follows
  <2>3. QED
    BY <1>5, <2>1, <2>2 DEF Asked, Follows
<1>6. ASSUME Close(o)
      PROVE  Asked(o)
  <2> DEFINE d == [c EXCEPT !.needOpen = TRUE]
             fs == IF c.opened THEN <<Frame(o, "Close")>> ELSE <<>>
  <2>1. Follows(c, d)
    BY <1>2, CallsFollow
  <2>2. object' = [object EXCEPT ![o] = d]
    BY <1>6 DEF Close
  <2>3. fs \in Seq(OutFrames) /\ \A i \in DOMAIN fs : fs[i].channel = n
    BY <1>3, <1>4, <1>6 DEF Close
  <2>4. /\ Call /\ Exists(o) /\ Happens(SendEvents(o)) /\ Send(fs)
        /\ UNCHANGED <<link, order, next, in, broker, limit, losses>>
    BY <1>6 DEF Close
  <2> HIDE DEF d, fs
  <2>5. QED
    BY <1>5, <2>1, <2>2, <2>3, <2>4
<1>7. ASSUME Reopen(o)
      PROVE  Asked(o)
  <2> DEFINE events == SendEvents(o) \cup IF OpenPending(n) THEN {"early"} ELSE {}
  <2>1. /\ Call /\ Exists(o) /\ Happens(events)
        /\ UNCHANGED <<link, order, next, in, broker, limit, losses>>
    BY <1>7 DEF Reopen
  <2>2. CASE c.opened
    <3> DEFINE d == [c EXCEPT !.needOpen = TRUE]
               fs == <<Frame(o, "Close")>>
    <3>1. Follows(c, d)
      BY <1>2, CallsFollow
    <3>2. object' = [object EXCEPT ![o] = d] /\ Send(fs)
      BY <1>7, <2>2 DEF Reopen
    <3>3. fs \in Seq(OutFrames) /\ \A i \in DOMAIN fs : fs[i].channel = n
      BY <1>3, <1>4, <2>1
    <3> HIDE DEF d, fs, events
    <3>4. QED
      BY <1>5, <2>1, <3>1, <3>2, <3>3
  <2>3. CASE ~c.opened
    <3> DEFINE fs == IF c.needOpen THEN <<Frame(o, "Open")>> ELSE <<>>
    <3>1. object' = [object EXCEPT ![o] = c] /\ Send(fs)
      BY <1>2, <1>7, <2>3 DEF Reopen
    <3>2. fs \in Seq(OutFrames) /\ \A i \in DOMAIN fs : fs[i].channel = n
      BY <1>3, <1>4, <2>1
    <3> HIDE DEF fs, events
    <3>3. QED
      BY <1>2, <1>5, <2>1, <3>1, <3>2, CallsFollow
  <2>4. QED
    BY <2>2, <2>3
<1>8. ASSUME Reset(o)
      PROVE  Asked(o)
  <2> DEFINE d == Cleared(c)
             fs == <<>>
             events == (IF object[o].opened THEN {"reset"} ELSE {})
                          \cup IF object[o].delayedDeclare THEN {"dropped"} ELSE {}
  <2>1. Follows(c, d)
    BY <1>2, CallsFollow
  <2>2. object' = [object EXCEPT ![o] = d]
    BY <1>8 DEF Reset
  <2>3. fs \in Seq(OutFrames) /\ \A i \in DOMAIN fs : fs[i].channel = n
    BY <1>3
  <2>4. /\ Call /\ Exists(o) /\ Happens(events)
        /\ UNCHANGED <<link, order, next, in, broker, limit, losses>>
    BY <1>8 DEF Reset
  <2>5. Send(fs)
    <3>1. out' = out /\ out \in Seq(OutFrames)
      BY <1>8 DEF Reset, Kept, TypeOK
    <3>2. QED
      BY <3>1 DEF Send
  <2> HIDE DEF d, fs, events
  <2>6. QED
    BY <1>5, <2>1, <2>2, <2>3, <2>4, <2>5
<1>9. ASSUME Declare(o)
      PROVE  Asked(o)
  <2> DEFINE d == [c EXCEPT !.delayedDeclare = ~c.opened, !.asked = ~c.opened]
             fs == IF c.opened THEN <<Frame(o, "Declare")>> ELSE <<>>
  <2>1. Follows(c, d)
    <3>1. c.opened \in BOOLEAN
      BY <1>2, ObjectFields
    <3>2. (~c.opened) \in BOOLEAN
      BY <3>1, Zenon
    <3>3. QED
      BY <1>2, <3>2, CallsFollow
  <2>2. object' = [object EXCEPT ![o] = d]
    <3>1. object' = [object EXCEPT ![o].delayedDeclare = ~object[o].opened,
                                   ![o].asked = ~object[o].opened]
      BY <1>9 DEF Declare
    <3>2. QED
      BY <1>1, <3>1
  <2>3. fs \in Seq(OutFrames) /\ \A i \in DOMAIN fs : fs[i].channel = n
    BY <1>3, <1>4, <1>9 DEF Declare
  <2>4. /\ Call /\ Exists(o) /\ Happens(SendEvents(o)) /\ Send(fs)
        /\ UNCHANGED <<link, order, next, in, broker, limit, losses>>
    BY <1>9 DEF Declare
  <2> HIDE DEF d, fs
  <2>5. QED
    BY <1>5, <2>1, <2>2, <2>3, <2>4
<1>10. ASSUME Qos(o)
       PROVE  Asked(o)
  <2>1. PICK k \in Prefetches :
          /\ object' = [object EXCEPT ![o].requested = k]
          /\ Send(<<[type |-> "Qos", channel |-> object[o].number, count |-> k]>>)
    BY <1>10 DEF Qos
  <2> DEFINE d == [c EXCEPT !.requested = k]
             fs == <<[type |-> "Qos", channel |-> n, count |-> k]>>
             events == SendEvents(o) \cup UnopenedEvents(o)
  <2>2. Follows(c, d)
    BY <1>2, CallsFollow
  <2>3. object' = [object EXCEPT ![o] = d] /\ Send(fs)
    BY <2>1
  <2>4. fs \in Seq(OutFrames) /\ \A i \in DOMAIN fs : fs[i].channel = n
    BY <1>3, <1>4, <1>10 DEF Qos
  <2>5. /\ Call /\ Exists(o) /\ Happens(events)
        /\ UNCHANGED <<link, order, next, in, broker, limit, losses>>
    BY <1>10 DEF Qos
  <2> HIDE DEF d, fs, events
  <2>6. QED
    BY <1>5, <2>2, <2>3, <2>4, <2>5
<1>11. ASSUME Resume(o)
       PROVE  Asked(o)
  <2> DEFINE fs == <<Frame(o, "Flow")>>
             events == SendEvents(o) \cup UnopenedEvents(o)
  <2>1. /\ Call /\ Exists(o) /\ Happens(events) /\ Send(fs) /\ object' = [object EXCEPT ![o] = c]
        /\ UNCHANGED <<link, order, next, in, broker, limit, losses>>
    BY <1>2, <1>11 DEF Resume
  <2>2. fs \in Seq(OutFrames) /\ \A i \in DOMAIN fs : fs[i].channel = n
    BY <1>3, <1>4, <2>1
  <2> HIDE DEF fs, events
  <2>3. QED
    BY <1>2, <1>5, <2>1, <2>2, CallsFollow
<1>12. ASSUME Bind(o)
       PROVE  Asked(o)
  <2> DEFINE d == [c EXCEPT !.bindings = IF c.opened THEN c.bindings ELSE c.bindings + 1]
             fs == IF c.opened THEN <<Frame(o, "Bind")>> ELSE <<>>
  <2>1. Follows(c, d)
    <3>1. c.bindings + 1 \in 0..MaxCalls /\ c.bindings \in 0..MaxCalls
      BY <1>1, <1>2, <1>12 DEF Bind, Call
    <3>2. QED
      BY <1>2, <3>1, CallsFollow
  <2>2. object' = [object EXCEPT ![o] = d]
    BY <1>12 DEF Bind
  <2>3. fs \in Seq(OutFrames) /\ \A i \in DOMAIN fs : fs[i].channel = n
    BY <1>3, <1>4, <1>12 DEF Bind
  <2>4. /\ Call /\ Exists(o) /\ Happens(SendEvents(o)) /\ Send(fs)
        /\ UNCHANGED <<link, order, next, in, broker, limit, losses>>
    BY <1>12 DEF Bind
  <2> HIDE DEF d, fs
  <2>5. QED
    BY <1>5, <2>1, <2>2, <2>3, <2>4
<1>13. QED
  BY <1>6, <1>7, <1>8, <1>9, <1>10, <1>11, <1>12

-----------------------------------------------------------------------------
(* Creation and deletion.                                                  *)

\* What an object is created with, and the event that is.
CreateAs(o, channel, number, need) ==
    /\ o \in Objects /\ channel \in Numbers \cup {-1}
    /\ number = IF channel = -1 THEN next + 1 ELSE channel
    /\ need = (channel = -1 \/ channel > next)
    /\ Call /\ ~Exists(o) /\ number <= MaxNumber
    /\ Happens(CreateEvents(channel))
    /\ object' = [object EXCEPT ![o] = [Absent EXCEPT !.number = number, !.needOpen = need]]
    /\ order' = Append(order, o)
    /\ next' = IF number > next THEN number ELSE next
    /\ Send(IF need THEN <<[type |-> "Open", channel |-> number]>> ELSE <<>>)
    /\ UNCHANGED <<link, in, broker, limit, losses>>

Numbering(c, number, need) == [c EXCEPT !.number = number, !.needOpen = need]

LEMMA AbsentObject ==
    /\ Absent \in Object
    /\ \A a \in Numbers, b \in BOOLEAN :
          LET c == Numbering(Absent, a, b)
          IN  c \in Object /\ c.number = a /\ c.needOpen = b /\ ~c.opened /\ c.bindings = 0
<1>1. 0 \in 0..MaxCalls
  BY ChannelsAssumption
<1>2. Absent \in Object /\ ~Absent.opened /\ Absent.bindings = 0
  BY <1>1 DEF Absent, Object
<1>3. ASSUME NEW d \in Object, NEW a \in Numbers, NEW b \in BOOLEAN
      PROVE  LET c == Numbering(d, a, b)
             IN  /\ c \in Object /\ c.number = a /\ c.needOpen = b
                 /\ (c.opened => d.opened) /\ c.bindings = d.bindings
  BY DEF Object, Numbering
<1>4. QED
  BY <1>2, <1>3

LEMMA CreateNames ==
    ASSUME TypeOK, Create
    PROVE  \E o, channel, number, need : CreateAs(o, channel, number, need)
  BY DEF Create, CreateAs

LEMMA CreateFacts ==
    ASSUME Kept, NEW o, NEW channel, NEW number, NEW need, CreateAs(o, channel, number, need)
    PROVE  /\ number \in Numbers /\ need \in BOOLEAN
           /\ object' \in [Objects -> Object]
           /\ object'[o].number = number /\ object'[o].needOpen = need /\ ~object'[o].opened
           /\ object'[o].bindings = 0
           /\ \A p \in Objects : p # o => object'[p] = object[p]
           /\ object[o] = Absent
           /\ \A p \in Objects : Exists(p)' <=> Exists(p) \/ p = o
           /\ \A p \in Objects : object'[p].opened = object[p].opened
           /\ out' \in Seq(OutFrames)
           /\ out' = out \/ (link = "up" /\ need /\ out' = out \o <<[type |-> "Open", channel |-> number]>>)
           /\ \A n : Uses(out', n) => Uses(out, n) \/ n = number
           /\ \A n, t : Has(out, n, t) => Has(out', n, t)
           /\ next' \in 0..MaxNumber /\ next <= next' /\ number <= next'
<1>1. /\ TypeOK /\ Listed
      /\ object \in [Objects -> Object] /\ in \in Seq(InFrames) /\ out \in Seq(OutFrames)
      /\ MaxNumber \in Nat /\ next \in 0..MaxNumber
  BY ChannelsAssumption DEF Kept, TypeOK
<1>2. /\ o \in Objects /\ channel \in Numbers \cup {-1} /\ ~Exists(o)
      /\ number = IF channel = -1 THEN next + 1 ELSE channel
      /\ need = (channel = -1 \/ channel > next) /\ number <= MaxNumber
      /\ object' = [object EXCEPT ![o] = [Absent EXCEPT !.number = number, !.needOpen = need]]
      /\ Send(IF need THEN <<[type |-> "Open", channel |-> number]>> ELSE <<>>)
      /\ next' = IF number > next THEN number ELSE next
  BY DEF CreateAs
<1>3. number \in Numbers /\ need \in BOOLEAN
  <2>1. number \in Int /\ number >= 1
    BY <1>1, <1>2 DEF Numbers
  <2>2. number \in Numbers
    BY <1>1, <1>2, <2>1 DEF Numbers
  <2>3. QED
    BY <1>2, <2>2
<1> DEFINE c == [Absent EXCEPT !.number = number, !.needOpen = need]
<1>4. c \in Object /\ c.number = number /\ c.needOpen = need /\ ~c.opened /\ c.bindings = 0
  BY <1>3, AbsentObject DEF Numbering
<1>5. object' = [object EXCEPT ![o] = c]
  BY <1>2
<1> HIDE DEF c
<1>6. /\ object' \in [Objects -> Object] /\ object'[o] = c
      /\ \A p \in Objects : p # o => object'[p] = object[p]
  BY <1>1, <1>2, <1>4, <1>5
<1>7. object[o] = Absent
  BY <1>1, <1>2 DEF Listed
<1>8. \A p \in Objects : Exists(p)' <=> Exists(p) \/ p = o
  <2>1. number # 0
    BY <1>3 DEF Numbers
  <2>2. QED
    BY <1>4, <1>6, <2>1 DEF Exists
<1>9. ASSUME NEW p \in Objects
      PROVE  object'[p].opened = object[p].opened
  <2>1. object[o].opened = FALSE
    BY <1>7 DEF Absent
  <2>2. object'[o].opened = FALSE
    BY <1>4, <1>6 DEF Object
  <2>3. QED
    BY <1>6, <2>1, <2>2
<1>10. /\ out' \in Seq(OutFrames)
       /\ out' = out \/ (link = "up" /\ need /\ out' = out \o <<[type |-> "Open", channel |-> number]>>)
       /\ \A n : Uses(out', n) => Uses(out, n) \/ n = number
       /\ \A n, t : Has(out, n, t) => Has(out', n, t)
  <2> DEFINE f == [type |-> "Open", channel |-> number]
  <2>1. f \in OutFrames /\ f.channel = number
    BY <1>3, FrameTypes
  <2>2. out' = out \/ (link = "up" /\ need /\ out' = out \o <<f>>)
    <3>1. out \o <<>> = out
      BY <1>1
    <3>2. QED
      BY <1>2, <3>1 DEF Send
  <2> HIDE DEF f
  <2>3. out \o <<f>> \in Seq(OutFrames)
    BY <1>1, <2>1, OneSays, ConcatSays
  <2>4. \A n : Uses(out \o <<f>>, n) => Uses(out, n) \/ n = number
    BY <1>1, <2>1, OneSays, ConcatSays
  <2>5. \A n, t : Has(out, n, t) => Has(out \o <<f>>, n, t)
    BY <1>1, <2>1, OneSays, ConcatSays
  <2>6. QED
    BY <1>1, <2>2, <2>3, <2>4, <2>5 DEF f
<1>11. next' \in 0..MaxNumber /\ next <= next' /\ number <= next'
  BY <1>1, <1>2, <1>3 DEF Numbers
<1>12. QED
  BY <1>3, <1>4, <1>6, <1>7, <1>8, <1>9, <1>10, <1>11

LEMMA CreateKeeps ==
    ASSUME Kept, Create
    PROVE  Kept'
<1>1. PICK o, channel, number, need : CreateAs(o, channel, number, need)
  BY CreateNames DEF Kept
<1>2. /\ TypeOK /\ Listed /\ BindingsCalled /\ NothingLeft /\ OpenOksInTime
      /\ OpenedIsOpen /\ UsedAreOwned /\ CloseIsAnswered /\ UnusedAbove /\ SomeOpens
  BY DEF Kept
<1>3. /\ object \in [Objects -> Object] /\ in \in Seq(InFrames) /\ out \in Seq(OutFrames)
      /\ calls \in 0..MaxCalls /\ MaxCalls \in Nat /\ order \in Seq(Objects)
      /\ MaxNumber \in Nat /\ next \in 0..MaxNumber /\ happened \subseteq Events
  BY <1>2, ChannelsAssumption DEF TypeOK
<1>4. /\ o \in Objects /\ channel \in Numbers \cup {-1} /\ ~Exists(o)
      /\ number = IF channel = -1 THEN next + 1 ELSE channel
      /\ need = (channel = -1 \/ channel > next)
      /\ Call /\ Happens(CreateEvents(channel))
      /\ order' = Append(order, o)
      /\ UNCHANGED <<link, in, broker, limit, losses>>
  BY <1>1 DEF CreateAs
<1>5. /\ number \in Numbers /\ need \in BOOLEAN
      /\ object' \in [Objects -> Object]
      /\ object'[o].number = number /\ object'[o].needOpen = need /\ ~object'[o].opened
      /\ object'[o].bindings = 0
      /\ \A p \in Objects : p # o => object'[p] = object[p]
      /\ object[o] = Absent
      /\ \A p \in Objects : Exists(p)' <=> Exists(p) \/ p = o
      /\ \A p \in Objects : object'[p].opened = object[p].opened
      /\ out' \in Seq(OutFrames)
      /\ out' = out \/ (link = "up" /\ need /\ out' = out \o <<[type |-> "Open", channel |-> number]>>)
      /\ \A n : Uses(out', n) => Uses(out, n) \/ n = number
      /\ \A n, t : Has(out, n, t) => Has(out', n, t)
      /\ next' \in 0..MaxNumber /\ next <= next' /\ number <= next'
  BY <1>1, CreateFacts
<1>6. happened \subseteq happened' /\ happened' \subseteq Events /\ CreateEvents(channel) \subseteq happened'
  BY <1>3, <1>4 DEF Happens
<1>7. calls' = calls + 1 /\ calls' \in 0..MaxCalls
  BY <1>3, <1>4 DEF Call
<1>8. \A n \in Numbers : Owned(n) => Owned(n)'
  <2>1. \A n \in Numbers : n # 0
    BY DEF Numbers
  <2>2. object[o].number = 0
    BY <1>4 DEF Exists
  <2>3. QED
    BY <1>5, <2>1, <2>2 DEF Owned
<1>9. \A n \in Numbers : Owned(n)' => Owned(n) \/ n = number
  BY <1>5 DEF Owned
<1>10. \A n \in Numbers : Used(n)' => Used(n) \/ n = number
  BY <1>4, <1>5 DEF Used
<1>11. Owned(number)'
  BY <1>4, <1>5 DEF Owned
<1>12. TypeOK'
  <2>1. order' \in Seq(Objects)
    BY <1>3, <1>4, AppendEntries
  <2>2. QED
    BY <1>2, <1>4, <1>5, <1>6, <1>7, <2>1 DEF TypeOK
<1>13. Listed'
  <2> DEFINE L == Len(order)
  <2>1. /\ DOMAIN order' = 1..(L + 1) /\ L \in Nat /\ DOMAIN order = 1..L
        /\ \A i \in DOMAIN order : order'[i] = order[i]
        /\ order'[L + 1] = o
    BY <1>3, <1>4, AppendEntries
  <2> HIDE DEF L
  <2>2. \A i \in DOMAIN order' : i = L + 1 \/ i \in DOMAIN order
    BY <2>1
  <2>3. L + 1 \in DOMAIN order' /\ \A i \in DOMAIN order : i \in DOMAIN order'
    BY <2>1
  <2>4. \A i \in DOMAIN order : order[i] # o
    BY <1>2, <1>4 DEF Listed
  <2>5. \A p \in Objects : Exists(p)' <=> \E i \in DOMAIN order' : order'[i] = p
    BY <1>2, <1>5, <2>1, <2>2, <2>3 DEF Listed
  <2>6. \A i, j \in DOMAIN order' : order'[i] = order'[j] => i = j
    BY <1>2, <2>1, <2>2, <2>4 DEF Listed
  <2>7. ASSUME NEW p \in Objects, ~Exists(p)'
        PROVE  object'[p] = Absent
    BY <1>2, <1>5, <2>7 DEF Listed
  <2>8. QED
    BY <2>5, <2>6, <2>7 DEF Listed
<1>14. BindingsCalled'
  <2> SUFFICES ASSUME NEW p \in Objects
               PROVE  object'[p].bindings <= calls'
    BY DEF BindingsCalled
  <2>1. CASE p = o
    BY <1>3, <1>5, <1>7, <2>1
  <2>2. CASE p # o
    <3>1. object[p].bindings <= calls /\ object[p].bindings \in Int
      BY <1>2, <1>3 DEF BindingsCalled, Object
    <3>2. object'[p].bindings = object[p].bindings
      BY <1>5, <2>2
    <3>3. QED
      BY <1>3, <1>7, <3>1, <3>2
  <2>3. QED
    BY <2>1, <2>2
<1>15. NothingLeft'
  BY <1>2, <1>4, <1>5 DEF NothingLeft, AllClosed
<1>16. OpenOksInTime'
  BY <1>2, <1>4 DEF OpenOksInTime
<1>17. OpenedIsOpen'
  <2>1. link = "up" => \A p \in Objects : object[p].opened =>
                \/ broker[object[p].number] = "open"
                \/ Has(in, object[p].number, "Close")
                \/ Has(in, object[p].number, "CloseOk")
    BY <1>2, <1>3, OpenedSays
  <2>2. QED
    BY <1>3, <1>4, <1>5, <2>1, OpenedSaysNext
<1>18. UsedAreOwned'
  BY <1>2, <1>6, <1>8, <1>10, <1>11 DEF UsedAreOwned
<1>19. CloseIsAnswered'
  <2>1. "delete" \notin happened => \A n \in Numbers : broker[n] = "closing" =>
                Has(in, n, "Close") \/ Has(out, n, "CloseOk")
    BY <1>2, <1>3, AnsweredSays
  <2>2. "delete" \notin happened' => "delete" \notin happened
    BY <1>6
  <2>3. QED
    BY <1>3, <1>4, <1>5, <2>1, <2>2, AnsweredSaysNext
<1>20. UnusedAbove'
  <2> SUFFICES ASSUME losses' = 0, link' # "closing", NEW n \in Numbers, Used(n)' \/ Owned(n)'
               PROVE  n <= next'
    BY DEF UnusedAbove
  <2>1. Used(n) \/ Owned(n) \/ n = number
    BY <1>9, <1>10
  <2>2. Used(n) \/ Owned(n) => n <= next
    BY <1>2, <1>4 DEF UnusedAbove
  <2>3. n \in Int /\ next \in Int /\ next' \in Int
    BY <1>3, <1>5 DEF Numbers
  <2>4. QED
    BY <1>5, <2>1, <2>2, <2>3
<1>21. SomeOpens'
  <2> SUFFICES ASSUME happened' \cap {"gap", "delete"} = {}, NEW p \in Objects, Exists(p)'
               PROVE  \E q \in Objects : object'[q].number = object'[p].number /\ object'[q].needOpen
    BY DEF SomeOpens
  <2>1. happened \cap {"gap", "delete"} = {}
    BY <1>6
  <2>2. ASSUME NEW q \in Objects, Exists(q)
        PROVE  \E r \in Objects : object'[r].number = object[q].number /\ object'[r].needOpen
    <3>1. PICK r \in Objects : object[r].number = object[q].number /\ object[r].needOpen
      BY <1>2, <2>1, <2>2 DEF SomeOpens
    <3>2. r # o
      BY <1>4, <2>2, <3>1 DEF Exists
    <3>3. QED
      BY <1>5, <3>1, <3>2
  <2>3. CASE p # o
    BY <1>5, <2>2, <2>3
  <2>4. CASE p = o /\ need
    BY <1>5, <2>4
  <2>5. CASE p = o /\ ~need
    <3>1. channel # -1 /\ channel <= next /\ channel = number
      <4>1. ~(channel = -1 \/ channel > next)
        BY <1>4, <2>5
      <4>2. channel \in Int /\ next \in Int
        BY <1>3, <1>4 DEF Numbers
      <4>3. QED
        BY <1>4, <4>1, <4>2
    <3>2. PICK q \in Objects : object[q].number = channel
      BY <1>6, <3>1 DEF CreateEvents
    <3>3. Exists(q)
      BY <1>5, <3>1, <3>2 DEF Exists, Numbers
    <3>4. QED
      BY <1>5, <2>2, <2>5, <3>1, <3>2, <3>3
  <2>6. QED
    BY <2>3, <2>4, <2>5
<1>22. QED
  BY <1>12, <1>13, <1>14, <1>15, <1>16, <1>17, <1>18, <1>19, <1>20, <1>21 DEF Kept

LEMMA DeleteKeeps ==
    ASSUME Kept, NEW o \in Objects, Delete(o)
    PROVE  Kept'
<1>1. /\ TypeOK /\ Listed /\ BindingsCalled /\ NothingLeft /\ OpenOksInTime
      /\ OpenedIsOpen /\ UnusedAbove
  BY DEF Kept
<1>2. /\ object \in [Objects -> Object] /\ in \in Seq(InFrames) /\ out \in Seq(OutFrames)
      /\ calls \in 0..MaxCalls /\ MaxCalls \in Nat /\ order \in Seq(Objects)
      /\ happened \subseteq Events
  BY <1>1, ChannelsAssumption DEF TypeOK
<1>3. /\ Call /\ Happens({"delete"}) /\ Exists(o)
      /\ object' = [object EXCEPT ![o] = Absent]
      /\ UNCHANGED <<link, next, out, in, broker, limit, losses>>
  BY DEF Delete
<1>4. PICK d \in DOMAIN order : order[d] = o /\ order' = RemoveAt(order, d)
  BY DEF Delete
<1>5. /\ object' \in [Objects -> Object] /\ object'[o] = Absent
      /\ \A p \in Objects : p # o => object'[p] = object[p]
  BY <1>2, <1>3, AbsentObject
<1>6. /\ Absent.number = 0 /\ ~Absent.opened /\ Absent.bindings = 0
  BY DEF Absent
<1>7. /\ ~Exists(o)'
      /\ \A p \in Objects : p # o => (Exists(p)' <=> Exists(p))
  BY <1>5, <1>6 DEF Exists
<1>8. happened' \subseteq Events /\ "delete" \in happened'
  BY <1>2, <1>3 DEF Happens
<1>9. calls' = calls + 1 /\ calls' \in 0..MaxCalls
  BY <1>2, <1>3 DEF Call
<1>10. \A p \in Objects : object'[p].opened => object[p].opened /\ object'[p].number = object[p].number
  BY <1>5, <1>6
<1>11. TypeOK'
  <2>1. order' \in Seq(Objects)
    BY <1>2, <1>4, RemoveAtEntries
  <2>2. QED
    BY <1>1, <1>3, <1>5, <1>8, <1>9, <2>1 DEF TypeOK
<1>12. Listed'
  <2> DEFINE L == Len(order)
  <2>1. /\ order' \in Seq(Objects) /\ Len(order') = L - 1 /\ L \in Nat
        /\ \A i \in DOMAIN order' : order'[i] = IF i < d THEN order[i] ELSE order[i + 1]
        /\ DOMAIN order = 1..L
    BY <1>2, <1>4, RemoveAtEntries
  <2>2. DOMAIN order' = 1..(L - 1) /\ d \in 1..L
    BY <2>1
  <2> HIDE DEF L
  <2>3. ASSUME NEW i \in DOMAIN order'
        PROVE  LET j == IF i < d THEN i ELSE i + 1
               IN  j \in DOMAIN order /\ j # d /\ order'[i] = order[j] /\ i \in Int
    BY <2>1, <2>2
  <2>4. ASSUME NEW j \in DOMAIN order, j # d
        PROVE  \E i \in DOMAIN order' : order'[i] = order[j]
    <3>1. CASE j < d
      <4>1. j \in DOMAIN order'
        BY <2>1, <2>2, <3>1
      <4>2. QED
        BY <2>1, <3>1, <4>1
    <3>2. CASE j > d
      <4>1. j - 1 \in DOMAIN order' /\ ~(j - 1 < d) /\ (j - 1) + 1 = j
        BY <2>1, <2>2, <3>2
      <4>2. QED
        BY <2>1, <4>1
    <3>3. QED
      BY <2>1, <2>2, <2>4, <3>1, <3>2
  <2>5. \A i \in DOMAIN order' : order'[i] # o
    BY <1>1, <1>4, <2>3 DEF Listed
  <2>6. ASSUME NEW p \in Objects
        PROVE  Exists(p)' <=> \E i \in DOMAIN order' : order'[i] = p
    <3>1. CASE p = o
      BY <1>7, <2>5, <3>1
    <3>2. CASE p # o
      <4>1. Exists(p)' <=> \E j \in DOMAIN order : order[j] = p
        BY <1>1, <1>7, <3>2 DEF Listed
      <4>2. ASSUME NEW j \in DOMAIN order, order[j] = p
            PROVE  \E i \in DOMAIN order' : order'[i] = p
        BY <1>4, <2>4, <3>2, <4>2
      <4>3. ASSUME NEW i \in DOMAIN order', order'[i] = p
            PROVE  \E j \in DOMAIN order : order[j] = p
        BY <2>3, <4>3
      <4>4. QED
        BY <4>1, <4>2, <4>3
    <3>3. QED
      BY <3>1, <3>2
  <2>7. ASSUME NEW i \in DOMAIN order', NEW j \in DOMAIN order', order'[i] = order'[j]
        PROVE  i = j
    <3> DEFINE a == IF i < d THEN i ELSE i + 1
               b == IF j < d THEN j ELSE j + 1
    <3>1. a \in DOMAIN order /\ b \in DOMAIN order /\ order[a] = order[b] /\ i \in Int /\ j \in Int
      BY <2>3, <2>7
    <3>2. a = b
      BY <1>1, <3>1 DEF Listed
    <3>3. d \in Int
      BY <2>2
    <3>4. QED
      BY <3>1, <3>2, <3>3
  <2>8. ASSUME NEW p \in Objects, ~Exists(p)'
        PROVE  object'[p] = Absent
    BY <1>1, <1>5, <1>7, <2>8 DEF Listed
  <2>9. QED
    BY <2>6, <2>7, <2>8 DEF Listed
<1>13. BindingsCalled'
  <2> SUFFICES ASSUME NEW p \in Objects
               PROVE  object'[p].bindings <= calls'
    BY DEF BindingsCalled
  <2>1. CASE p = o
    BY <1>2, <1>5, <1>6, <1>9, <2>1
  <2>2. CASE p # o
    <3>1. object[p].bindings <= calls /\ object[p].bindings \in Int
      BY <1>1, <1>2 DEF BindingsCalled, Object
    <3>2. object'[p].bindings = object[p].bindings
      BY <1>5, <2>2
    <3>3. QED
      BY <1>2, <1>9, <3>1, <3>2
  <2>3. QED
    BY <2>1, <2>2
<1>14. NothingLeft'
  BY <1>1, <1>3, <1>10 DEF NothingLeft, AllClosed
<1>15. OpenOksInTime'
  BY <1>1, <1>3 DEF OpenOksInTime
<1>16. OpenedIsOpen'
  <2>1. link = "up" => \A p \in Objects : object[p].opened =>
                \/ broker[object[p].number] = "open"
                \/ Has(in, object[p].number, "Close")
                \/ Has(in, object[p].number, "CloseOk")
    BY <1>1, <1>2, OpenedSays
  <2>2. QED
    BY <1>2, <1>3, <1>10, <2>1, OpenedSaysNext
<1>17. UnusedAbove'
  <2>1. \A n \in Numbers : Owned(n)' => Owned(n)
    <3>1. \A n \in Numbers : n # 0
      BY DEF Numbers
    <3>2. QED
      BY <1>5, <1>6, <3>1 DEF Owned
  <2>2. QED
    BY <1>1, <1>3, <2>1 DEF UnusedAbove, Used
<1>18. UsedAreOwned' /\ SomeOpens' /\ CloseIsAnswered'
  <2>1. CloseIsAnswered'
    BY <1>8 DEF CloseIsAnswered
  <2>2. QED
    BY <1>8, <2>1 DEF UsedAreOwned, SomeOpens
<1>19. QED
  BY <1>11, <1>12, <1>13, <1>14, <1>15, <1>16, <1>17, <1>18 DEF Kept

-----------------------------------------------------------------------------
(* What the objects send together.                                         *)

\* What the objects send, one after the other, is the sum of what each sends.
LEMMA SentTogether ==
    ASSUME TypeOK, Listed, NEW fr \in [Objects -> Seq(OutFrames)]
    PROVE  LET s == FlattenSeq([i \in DOMAIN order |-> fr[order[i]]])
           IN  /\ s \in Seq(OutFrames)
               /\ \E by, pos :
                     /\ \A j \in DOMAIN s :
                           /\ by[j] \in Objects /\ Exists(by[j])
                           /\ pos[j] \in DOMAIN fr[by[j]] /\ s[j] = fr[by[j]][pos[j]]
                     /\ \A i, j \in DOMAIN s : i < j /\ by[i] = by[j] => pos[i] < pos[j]
                     /\ \A o \in Objects : Exists(o) =>
                           \A k \in DOMAIN fr[o] : \E j \in DOMAIN s : by[j] = o /\ pos[j] = k
<1> DEFINE seqs == [i \in DOMAIN order |-> fr[order[i]]]
           s == FlattenSeq(seqs)
<1>1. order \in Seq(Objects) /\ DOMAIN order = 1..Len(order) /\ Len(order) \in Nat
  BY DEF TypeOK
<1>2. \A i \in DOMAIN order : order[i] \in Objects
  BY <1>1
<1>3. /\ seqs \in Seq(Seq(OutFrames)) /\ DOMAIN seqs = DOMAIN order
      /\ \A i \in DOMAIN order : seqs[i] = fr[order[i]]
  <2>1. \A i \in 1..Len(order) : fr[order[i]] \in Seq(OutFrames)
    BY <1>1, <1>2
  <2>2. QED
    BY <1>1, <2>1
<1>4. Len(seqs) = Len(order)
  BY <1>1, <1>3
<1> HIDE DEF seqs
<1>5. s \in Seq(OutFrames) /\ \E at, pos : TakenFrom(seqs, Len(seqs), s, at, pos)
  BY <1>3, FlattenEntries
<1> HIDE DEF s
<1>6. PICK at, pos : TakenFrom(seqs, Len(seqs), s, at, pos)
  BY <1>5
<1> DEFINE by == [j \in DOMAIN s |-> order[at[j]]]
<1>7. /\ \A j \in DOMAIN s : at[j] \in DOMAIN order
      /\ \A j \in DOMAIN s : pos[j] \in DOMAIN seqs[at[j]] /\ s[j] = seqs[at[j]][pos[j]]
      /\ \A i, j \in DOMAIN s : i < j => at[i] < at[j] \/ (at[i] = at[j] /\ pos[i] < pos[j])
      /\ \A i \in DOMAIN order : \A k \in DOMAIN seqs[i] : \E j \in DOMAIN s : at[j] = i /\ pos[j] = k
  BY <1>1, <1>4, <1>6 DEF TakenFrom
<1>8. ASSUME NEW j \in DOMAIN s
      PROVE  /\ by[j] \in Objects /\ Exists(by[j])
             /\ pos[j] \in DOMAIN fr[by[j]] /\ s[j] = fr[by[j]][pos[j]]
  <2>1. at[j] \in DOMAIN order /\ by[j] = order[at[j]]
    BY <1>7
  <2>2. by[j] \in Objects /\ Exists(by[j])
    BY <1>2, <2>1 DEF Listed
  <2>3. seqs[at[j]] = fr[by[j]]
    BY <1>3, <2>1
  <2>4. QED
    BY <1>7, <2>2, <2>3
<1>9. ASSUME NEW i \in DOMAIN s, NEW j \in DOMAIN s, i < j, by[i] = by[j]
      PROVE  pos[i] < pos[j]
  <2>1. at[i] \in DOMAIN order /\ at[j] \in DOMAIN order /\ order[at[i]] = order[at[j]]
    BY <1>7, <1>9
  <2>2. at[i] = at[j] /\ at[i] \in Int
    BY <1>1, <2>1 DEF Listed
  <2>3. QED
    BY <1>7, <1>9, <2>2
<1>10. ASSUME NEW o \in Objects, Exists(o), NEW k \in DOMAIN fr[o]
       PROVE  \E j \in DOMAIN s : by[j] = o /\ pos[j] = k
  <2>1. PICK i \in DOMAIN order : order[i] = o
    BY <1>10 DEF Listed
  <2>2. k \in DOMAIN seqs[i]
    BY <1>3, <1>10, <2>1
  <2>3. PICK j \in DOMAIN s : at[j] = i /\ pos[j] = k
    BY <1>7, <2>2
  <2>4. QED
    BY <2>1, <2>3
<1> HIDE DEF by
<1>11. /\ \A j \in DOMAIN s :
             /\ by[j] \in Objects /\ Exists(by[j])
             /\ pos[j] \in DOMAIN fr[by[j]] /\ s[j] = fr[by[j]][pos[j]]
       /\ \A i, j \in DOMAIN s : i < j /\ by[i] = by[j] => pos[i] < pos[j]
       /\ \A o \in Objects : Exists(o) =>
             \A k \in DOMAIN fr[o] : \E j \in DOMAIN s : by[j] = o /\ pos[j] = k
  BY <1>8, <1>9, <1>10
<1>12. \E bb, pp :
          /\ \A j \in DOMAIN s :
                /\ bb[j] \in Objects /\ Exists(bb[j])
                /\ pp[j] \in DOMAIN fr[bb[j]] /\ s[j] = fr[bb[j]][pp[j]]
          /\ \A i, j \in DOMAIN s : i < j /\ bb[i] = bb[j] => pp[i] < pp[j]
          /\ \A o \in Objects : Exists(o) =>
                \A k \in DOMAIN fr[o] : \E j \in DOMAIN s : bb[j] = o /\ pp[j] = k
  BY <1>11
<1>13. s \in Seq(OutFrames)
  BY <1>5
<1>14. QED
  BY <1>12, <1>13 DEF s, seqs

LEMMA SentOnSays ==
    ASSUME TypeOK, Listed, NEW n \in Numbers, NEW frames,
           \A o \in Objects : object[o].number = n => frames[o] \in Seq(OutFrames)
    PROVE  LET s == SentOn(n, frames)
           IN  /\ s \in Seq(OutFrames)
               /\ \A j \in DOMAIN s : \E o \in Objects :
                     object[o].number = n /\ \E k \in DOMAIN frames[o] : s[j] = frames[o][k]
               /\ \A o \in Objects : object[o].number = n =>
                     \A k \in DOMAIN frames[o] : \E j \in DOMAIN s : s[j] = frames[o][k]
               /\ (/\ \A o, p \in Objects : object[o].number = n /\ object[p].number = n => o = p
                   /\ \A o \in Objects : object[o].number = n => DOMAIN frames[o] \subseteq {1})
                      => \A i, j \in DOMAIN s : i = j
<1> DEFINE fr == [o \in Objects |-> IF object[o].number = n THEN frames[o] ELSE <<>>]
           t == FlattenSeq([i \in DOMAIN order |-> fr[order[i]]])
           s == SentOn(n, frames)
<1>1. fr \in [Objects -> Seq(OutFrames)]
  <2>1. <<>> \in Seq(OutFrames)
    OBVIOUS
  <2>2. QED
    BY <2>1
<1>2. s = t
  <2>1. \A i \in DOMAIN order : order[i] \in Objects
    BY DEF TypeOK
  <2>2. [i \in DOMAIN order |-> IF object[order[i]].number = n THEN frames[order[i]] ELSE <<>>]
          = [i \in DOMAIN order |-> fr[order[i]]]
    BY <2>1
  <2>3. QED
    BY <2>2 DEF SentOn
<1>3. \A o \in Objects : /\ object[o].number = n => fr[o] = frames[o] /\ Exists(o)
                         /\ object[o].number # n => fr[o] = <<>>
  BY DEF Exists, Numbers
<1> HIDE DEF fr
<1>4. /\ t \in Seq(OutFrames)
      /\ \E by, pos :
            /\ \A j \in DOMAIN t :
                  /\ by[j] \in Objects /\ Exists(by[j])
                  /\ pos[j] \in DOMAIN fr[by[j]] /\ t[j] = fr[by[j]][pos[j]]
            /\ \A i, j \in DOMAIN t : i < j /\ by[i] = by[j] => pos[i] < pos[j]
            /\ \A o \in Objects : Exists(o) =>
                  \A k \in DOMAIN fr[o] : \E j \in DOMAIN t : by[j] = o /\ pos[j] = k
  BY <1>1, SentTogether
<1> HIDE DEF t, s
<1>5. PICK by, pos :
            /\ \A j \in DOMAIN t :
                  /\ by[j] \in Objects /\ Exists(by[j])
                  /\ pos[j] \in DOMAIN fr[by[j]] /\ t[j] = fr[by[j]][pos[j]]
            /\ \A i, j \in DOMAIN t : i < j /\ by[i] = by[j] => pos[i] < pos[j]
            /\ \A o \in Objects : Exists(o) =>
                  \A k \in DOMAIN fr[o] : \E j \in DOMAIN t : by[j] = o /\ pos[j] = k
  BY <1>4
<1>6. ASSUME NEW j \in DOMAIN t
      PROVE  /\ by[j] \in Objects /\ object[by[j]].number = n
             /\ pos[j] \in DOMAIN frames[by[j]] /\ t[j] = frames[by[j]][pos[j]]
  <2>1. by[j] \in Objects /\ pos[j] \in DOMAIN fr[by[j]] /\ t[j] = fr[by[j]][pos[j]]
    BY <1>5
  <2>2. object[by[j]].number = n
    <3>1. ~(pos[j] \in DOMAIN <<>>)
      OBVIOUS
    <3>2. QED
      BY <1>3, <2>1, <3>1
  <2>3. QED
    BY <1>3, <2>1, <2>2
<1>7. \A o \in Objects : object[o].number = n =>
         \A k \in DOMAIN frames[o] : \E j \in DOMAIN t : t[j] = frames[o][k]
  <2> SUFFICES ASSUME NEW o \in Objects, object[o].number = n, NEW k \in DOMAIN frames[o]
               PROVE  \E j \in DOMAIN t : t[j] = frames[o][k]
    OBVIOUS
  <2>1. fr[o] = frames[o] /\ Exists(o)
    BY <1>3
  <2>2. PICK j \in DOMAIN t : by[j] = o /\ pos[j] = k
    BY <1>5, <2>1
  <2>3. QED
    BY <1>6, <2>2
<1>8. ASSUME \A o, p \in Objects : object[o].number = n /\ object[p].number = n => o = p,
             \A o \in Objects : object[o].number = n => DOMAIN frames[o] \subseteq {1},
             NEW i \in DOMAIN t, NEW j \in DOMAIN t
      PROVE  i = j
  <2>1. by[i] = by[j] /\ pos[i] = 1 /\ pos[j] = 1
    BY <1>6, <1>8
  <2>2. ~(i < j) /\ ~(j < i)
    BY <1>5, <2>1
  <2>3. i \in Int /\ j \in Int
    BY <1>4
  <2>4. QED
    BY <2>2, <2>3
<1>9. \A j \in DOMAIN t : \E o \in Objects :
         object[o].number = n /\ \E k \in DOMAIN frames[o] : t[j] = frames[o][k]
  BY <1>6
<1>10. QED
  BY <1>2, <1>4, <1>7, <1>8, <1>9 DEF s

\* When the connection is made an open is sent for each object that needs one.
LEMMA LinkUpSends ==
    ASSUME Kept, LinkUp
    PROVE  /\ out' \in Seq(OutFrames)
           /\ \A j \in DOMAIN out' : out'[j].type = "Open" /\ Owned(out'[j].channel)
           /\ \A o \in Objects : Exists(o) /\ object[o].needOpen => Has(out', object[o].number, "Open")
           /\ (\A o, p \in Objects : Exists(o) /\ object[o].number = object[p].number => o = p)
                => \A n : ~Later(out', n, "Open", "Open")
<1> DEFINE fr == [o \in Objects |->
                    IF Exists(o) /\ object[o].needOpen THEN <<Frame(o, "Open")>> ELSE <<>>]
           t == FlattenSeq([i \in DOMAIN order |-> fr[order[i]]])
<1>1. TypeOK /\ Listed /\ link = "down" /\ \A o \in Objects : ~object[o].opened
  BY DEF Kept, LinkUp, NothingLeft
<1>2. object \in [Objects -> Object]
  BY <1>1 DEF TypeOK
<1>3. ASSUME NEW o \in Objects, Exists(o)
      PROVE  Frame(o, "Open") \in OutFrames
  <2>1. object[o].number \in Numbers
    BY <1>2, <1>3 DEF Object, Exists
  <2>2. QED
    BY <2>1, FrameTypes DEF Frame
<1>4. fr \in [Objects -> Seq(OutFrames)]
  <2>1. ASSUME NEW o \in Objects
        PROVE  (IF Exists(o) /\ object[o].needOpen THEN <<Frame(o, "Open")>> ELSE <<>>) \in Seq(OutFrames)
    <3>1. CASE Exists(o) /\ object[o].needOpen
      <4>1. <<Frame(o, "Open")>> \in Seq(OutFrames)
        BY <1>3, <3>1
      <4>2. QED
        BY <3>1, <4>1
    <3>2. CASE ~(Exists(o) /\ object[o].needOpen)
      BY <3>2
    <3>3. QED
      BY <3>1, <3>2
  <2>2. QED
    BY <2>1
<1>5. out' = t
  <2>1. \A i \in DOMAIN order : order[i] \in Objects /\ Exists(order[i])
    BY <1>1 DEF TypeOK, Listed
  <2>2. [i \in DOMAIN order |->
            LET c == object[order[i]]
            IN  IF c.needOpen /\ ~c.opened THEN <<Frame(order[i], "Open")>> ELSE <<>>]
          = [i \in DOMAIN order |-> fr[order[i]]]
    BY <1>1, <2>1
  <2>3. QED
    BY <2>2 DEF LinkUp
<1>6. \A o \in Objects :
         /\ DOMAIN fr[o] \subseteq {1}
         /\ \A k \in DOMAIN fr[o] : fr[o][k] = Frame(o, "Open")
         /\ Exists(o) /\ object[o].needOpen => 1 \in DOMAIN fr[o] /\ fr[o][1] = Frame(o, "Open")
  OBVIOUS
<1> HIDE DEF fr
<1>7. /\ t \in Seq(OutFrames)
      /\ \E by, pos :
            /\ \A j \in DOMAIN t :
                  /\ by[j] \in Objects /\ Exists(by[j])
                  /\ pos[j] \in DOMAIN fr[by[j]] /\ t[j] = fr[by[j]][pos[j]]
            /\ \A i, j \in DOMAIN t : i < j /\ by[i] = by[j] => pos[i] < pos[j]
            /\ \A o \in Objects : Exists(o) =>
                  \A k \in DOMAIN fr[o] : \E j \in DOMAIN t : by[j] = o /\ pos[j] = k
  BY <1>1, <1>4, SentTogether
<1> HIDE DEF t
<1>8. PICK by, pos :
            /\ \A j \in DOMAIN t :
                  /\ by[j] \in Objects /\ Exists(by[j])
                  /\ pos[j] \in DOMAIN fr[by[j]] /\ t[j] = fr[by[j]][pos[j]]
            /\ \A i, j \in DOMAIN t : i < j /\ by[i] = by[j] => pos[i] < pos[j]
            /\ \A o \in Objects : Exists(o) =>
                  \A k \in DOMAIN fr[o] : \E j \in DOMAIN t : by[j] = o /\ pos[j] = k
  BY <1>7
<1>9. \A j \in DOMAIN t : by[j] \in Objects /\ Exists(by[j]) /\ pos[j] = 1 /\ t[j] = Frame(by[j], "Open")
  BY <1>6, <1>8
<1>10. \A o : Frame(o, "Open").type = "Open" /\ Frame(o, "Open").channel = object[o].number
  BY DEF Frame
<1>11. \A j \in DOMAIN t : t[j].type = "Open" /\ Owned(t[j].channel)
  BY <1>9, <1>10 DEF Owned
<1>12. ASSUME NEW o \in Objects, Exists(o), object[o].needOpen
       PROVE  Has(t, object[o].number, "Open")
  <2>1. PICK j \in DOMAIN t : by[j] = o
    BY <1>6, <1>8, <1>12
  <2>2. Is(t, j, object[o].number, "Open")
    BY <1>9, <1>10, <2>1 DEF Is
  <2>3. QED
    BY <2>2 DEF Has
<1>13. ASSUME \A o, p \in Objects : Exists(o) /\ object[o].number = object[p].number => o = p,
              NEW n, Later(t, n, "Open", "Open")
       PROVE  FALSE
  <2>1. PICK i, j \in DOMAIN t : i < j /\ t[i].channel = n /\ t[j].channel = n
    BY <1>13 DEF Later, Is
  <2>2. by[i] = by[j]
    BY <1>9, <1>10, <1>13, <2>1
  <2>3. pos[i] < pos[j] /\ pos[i] = 1 /\ pos[j] = 1
    BY <1>8, <1>9, <2>1, <2>2
  <2>4. QED
    BY <2>3
<1>14. QED
  BY <1>5, <1>7, <1>11, <1>12, <1>13

-----------------------------------------------------------------------------
(* The connection.                                                         *)

LEMMA LinkUpKeeps ==
    ASSUME Kept, LinkUp
    PROVE  Kept'
<1>1. /\ TypeOK /\ Listed /\ BindingsCalled /\ NothingLeft /\ OpenOksInTime
      /\ UsedAreOwned /\ UnusedAbove /\ SomeOpens
  BY DEF Kept
<1>2. /\ link = "down" /\ link' = "up"
      /\ UNCHANGED <<object, order, next, in, broker, limit, calls, losses, happened>>
  BY DEF LinkUp
<1>3. /\ out' \in Seq(OutFrames)
      /\ \A j \in DOMAIN out' : out'[j].type = "Open" /\ Owned(out'[j].channel)
  BY LinkUpSends
<1>4. /\ in = <<>> /\ broker = AllClosed /\ \A o \in Objects : ~object[o].opened
  BY <1>1, <1>2 DEF NothingLeft
<1>5. \A n \in Numbers : broker[n] = "closed"
  BY <1>4 DEF AllClosed
<1>6. \A n \in Numbers : Used(n)' => Owned(n)
  <2>1. \A n : Uses(out', n) => Owned(n)
    BY <1>3 DEF Uses
  <2>2. \A n : ~Uses(in', n)
    BY <1>2, <1>4, NoneSays
  <2>3. QED
    BY <1>2, <1>5, <2>1, <2>2 DEF Used
<1>7. \A n \in Numbers : Owned(n)' <=> Owned(n)
  BY <1>2 DEF Owned
<1>8. \A o \in Objects : Exists(o)' <=> Exists(o)
  BY <1>2 DEF Exists
<1>9. TypeOK'
  BY <1>1, <1>2, <1>3 DEF TypeOK
<1>10. Listed' /\ BindingsCalled' /\ SomeOpens'
  BY <1>1, <1>2, <1>8 DEF Listed, BindingsCalled, SomeOpens
<1>11. NothingLeft'
  BY <1>2 DEF NothingLeft
<1>12. OpenOksInTime'
  BY <1>1, <1>2 DEF OpenOksInTime
<1>13. OpenedIsOpen'
  BY <1>2, <1>4 DEF OpenedIsOpen
<1>14. UsedAreOwned'
  BY <1>6, <1>7 DEF UsedAreOwned
<1>15. CloseIsAnswered'
  BY <1>2, <1>5 DEF CloseIsAnswered
<1>16. UnusedAbove'
  BY <1>1, <1>2, <1>6, <1>7 DEF UnusedAbove
<1>17. QED
  BY <1>9, <1>10, <1>11, <1>12, <1>13, <1>14, <1>15, <1>16 DEF Kept

\* The end of a connection, seen by the objects or not yet.
LinkEnds ==
    /\ link' \in {"closing", "down"}
    /\ out' = <<>> /\ in' = <<>> /\ broker' = AllClosed /\ limit' = NoLimits
    /\ next' \in {0, next}
    /\ losses' \in {losses, losses + 1} /\ losses' \in 0..MaxLosses
    /\ link' = "closing" \/ losses' = losses + 1
    /\ happened \subseteq happened' /\ happened' \subseteq Events
    /\ object' \in [Objects -> Object]
    /\ \A o \in Objects :
          /\ object'[o].number = object[o].number
          /\ object'[o].opened => object[o].opened /\ link' = "closing"
          /\ object[o].needOpen => object'[o].needOpen
          /\ object'[o].bindings = object[o].bindings
          /\ ~Exists(o) => object'[o] = object[o]
    /\ UNCHANGED <<order, calls>>

LEMMA LinkEndsKeeps ==
    ASSUME Kept, LinkEnds
    PROVE  Kept'
<1>1. /\ TypeOK /\ Listed /\ BindingsCalled /\ NothingLeft /\ OpenOksInTime
      /\ UsedAreOwned /\ UnusedAbove /\ SomeOpens
  BY DEF Kept
<1>2. /\ link' \in {"closing", "down"}
      /\ out' = <<>> /\ in' = <<>> /\ broker' = AllClosed /\ limit' = NoLimits
      /\ next' \in {0, next}
      /\ losses' \in {losses, losses + 1} /\ losses' \in 0..MaxLosses
      /\ link' = "closing" \/ losses' = losses + 1
      /\ happened \subseteq happened' /\ happened' \subseteq Events
      /\ object' \in [Objects -> Object]
      /\ UNCHANGED <<order, calls>>
  BY DEF LinkEnds
<1>3. \A o \in Objects :
         /\ object'[o].number = object[o].number
         /\ object'[o].opened => object[o].opened /\ link' = "closing"
         /\ object[o].needOpen => object'[o].needOpen
         /\ object'[o].bindings = object[o].bindings
         /\ ~Exists(o) => object'[o] = object[o]
  BY DEF LinkEnds
<1>4. \A n \in Numbers : broker'[n] = "closed"
  BY <1>2 DEF AllClosed
<1>5. \A o \in Objects : Exists(o)' <=> Exists(o)
  BY <1>3 DEF Exists
<1>6. TypeOK'
  <2>1. broker' \in [Numbers -> {"closed", "open", "closing"}] /\ limit' \in [Numbers -> Prefetches \cup {0}]
    BY <1>2 DEF AllClosed, NoLimits
  <2>2. <<>> \in Seq(OutFrames) /\ <<>> \in Seq(InFrames) /\ 0 \in 0..MaxNumber
    BY ChannelsAssumption
  <2>3. next' \in 0..MaxNumber
    BY <1>1, <1>2, <2>2 DEF TypeOK
  <2>4. QED
    BY <1>1, <1>2, <2>1, <2>2, <2>3 DEF TypeOK
<1>7. Listed'
  BY <1>1, <1>2, <1>3, <1>5 DEF Listed
<1>8. BindingsCalled'
  BY <1>1, <1>2, <1>3 DEF BindingsCalled
<1>9. NothingLeft'
  <2>1. AllClosed' = AllClosed
    BY DEF AllClosed
  <2>2. QED
    BY <1>2, <1>3, <2>1 DEF NothingLeft
<1>10. OpenOksInTime'
  BY <1>2, NoneSays DEF OpenOksInTime
<1>11. OpenedIsOpen'
  BY <1>2 DEF OpenedIsOpen
<1>12. UsedAreOwned'
  BY <1>2, <1>4, NoneSays DEF UsedAreOwned, Used
<1>13. CloseIsAnswered'
  BY <1>4 DEF CloseIsAnswered
<1>14. UnusedAbove'
  <2>1. losses \in Nat
    BY <1>1, ChannelsAssumption DEF TypeOK
  <2>2. losses' # 0 \/ link' = "closing"
    BY <1>2, <2>1
  <2>3. QED
    BY <2>2 DEF UnusedAbove
<1>15. SomeOpens'
  <2>1. happened' \cap {"gap", "delete"} = {} => happened \cap {"gap", "delete"} = {}
    BY <1>2
  <2>2. QED
    BY <1>1, <1>3, <1>5, <2>1 DEF SomeOpens
<1>16. QED
  BY <1>6, <1>7, <1>8, <1>9, <1>10, <1>11, <1>12, <1>13, <1>14, <1>15 DEF Kept

LEMMA EndsFollow ==
    ASSUME NEW c \in Object, NEW o
    PROVE  /\ LET d == Disconnected(o, Cleared(c))
              IN  /\ d \in Object /\ d.number = c.number /\ ~d.opened
                  /\ (c.needOpen => d.needOpen) /\ d.bindings = c.bindings
           /\ LET d == Disconnected(o, c)
              IN  /\ d \in Object /\ d.number = c.number /\ ~d.opened
                  /\ (c.needOpen => d.needOpen) /\ d.bindings = c.bindings
<1>1. ASSUME NEW b \in Object
      PROVE  LET d == Disconnected(o, b)
             IN  /\ d \in Object /\ d.number = b.number /\ ~d.opened
                 /\ (b.needOpen => d.needOpen) /\ d.bindings = b.bindings
  BY DEF Object, Disconnected
<1>2. /\ Cleared(c) \in Object /\ Cleared(c).number = c.number
      /\ (c.needOpen => Cleared(c).needOpen) /\ Cleared(c).bindings = c.bindings
  BY DEF Object, Cleared
<1>3. QED
  BY <1>1, <1>2

LEMMA LinkStepsEnd ==
    ASSUME Kept, LinkLost \/ LinkCloses
    PROVE  LinkEnds
<1>1. /\ object \in [Objects -> Object] /\ losses \in Nat /\ MaxLosses \in Nat /\ losses <= MaxLosses
      /\ happened \subseteq Events
      /\ \A o \in Objects : ~Exists(o) => object[o] = Absent
  BY ChannelsAssumption DEF Kept, TypeOK, Listed
<1>2. NextAfterDisconnect \in {0, next}
  BY DEF NextAfterDisconnect
<1>3. \A events : Happens(events) => happened \subseteq happened' /\ happened' \subseteq Events
  BY <1>1 DEF Happens
<1>4. \A o \in Objects : object[o] \in Object
  BY <1>1
<1>5. ASSUME LinkLost
      PROVE  LinkEnds
  <2>1. /\ link' = "down" /\ next' = NextAfterDisconnect
        /\ object' = [o \in Objects |-> IF Exists(o) THEN Disconnected(o, Cleared(object[o]))
                                        ELSE object[o]]
        /\ out' = <<>> /\ in' = <<>> /\ broker' = AllClosed /\ limit' = NoLimits
        /\ losses' = losses + 1 /\ losses < MaxLosses
        /\ Happens(EndEvents(Objects))
        /\ UNCHANGED <<order, calls>>
    BY <1>5 DEF LinkLost, SocketClosed
  <2>2. ASSUME NEW o \in Objects
        PROVE  /\ object'[o] \in Object
               /\ object'[o].number = object[o].number
               /\ ~object'[o].opened
               /\ object[o].needOpen => object'[o].needOpen
               /\ object'[o].bindings = object[o].bindings
               /\ ~Exists(o) => object'[o] = object[o]
    <3>1. CASE Exists(o)
      <4>1. object'[o] = Disconnected(o, Cleared(object[o]))
        BY <2>1, <3>1
      <4>2. QED
        BY <1>4, <3>1, <4>1, EndsFollow
    <3>2. CASE ~Exists(o)
      <4>1. object'[o] = object[o] /\ object[o] = Absent
        BY <1>1, <2>1, <3>2
      <4>2. ~Absent.opened
        BY DEF Absent
      <4>3. QED
        BY <1>4, <4>1, <4>2
    <3>3. QED
      BY <3>1, <3>2
  <2>3. object' \in [Objects -> Object]
    <3>1. \A o \in Objects : object'[o] \in Object
      BY <2>2
    <3>2. QED
      BY <2>1, <3>1
  <2>4. losses' \in 0..MaxLosses
    BY <1>1, <2>1
  <2>5. happened \subseteq happened' /\ happened' \subseteq Events
    BY <1>3, <2>1
  <2>6. QED
    BY <1>2, <2>1, <2>2, <2>3, <2>4, <2>5 DEF LinkEnds
<1>6. ASSUME LinkCloses
      PROVE  LinkEnds
  <2>1. /\ link' = "closing"
        /\ out' = <<>> /\ in' = <<>> /\ broker' = AllClosed /\ limit' = NoLimits
        /\ Happens(EndEvents(Objects))
        /\ UNCHANGED <<order, calls, losses>>
    BY <1>6 DEF LinkCloses
  <2>2. happened \subseteq happened' /\ happened' \subseteq Events
    BY <1>3, <2>1
  <2>3. losses' = losses /\ losses' \in 0..MaxLosses
    BY <1>1, <2>1
  <2>4. CASE /\ object' = [o \in Objects |-> IF Exists(o) THEN Disconnected(o, object[o])
                                             ELSE object[o]]
             /\ next' = NextAfterDisconnect
    <3>1. ASSUME NEW o \in Objects
          PROVE  /\ object'[o] \in Object
                 /\ object'[o].number = object[o].number
                 /\ object'[o].opened => object[o].opened
                 /\ object[o].needOpen => object'[o].needOpen
                 /\ object'[o].bindings = object[o].bindings
                 /\ ~Exists(o) => object'[o] = object[o]
      <4>1. CASE Exists(o)
        <5>1. object'[o] = Disconnected(o, object[o])
          BY <2>4, <4>1
        <5>2. QED
          BY <1>4, <4>1, <5>1, EndsFollow
      <4>2. CASE ~Exists(o)
        <5>1. object'[o] = object[o]
          BY <2>4, <4>2
        <5>2. QED
          BY <1>4, <5>1
      <4>3. QED
        BY <4>1, <4>2
    <3>2. object' \in [Objects -> Object]
      <4>1. \A o \in Objects : object'[o] \in Object
        BY <3>1
      <4>2. QED
        BY <2>4, <4>1
    <3>3. QED
      BY <1>2, <2>1, <2>2, <2>3, <2>4, <3>1, <3>2 DEF LinkEnds
  <2>5. CASE UNCHANGED <<object, next>>
    BY <1>1, <2>1, <2>2, <2>3, <2>5 DEF LinkEnds
  <2>6. QED
    BY <1>6, <2>4, <2>5 DEF LinkCloses
<1>7. QED
  BY <1>5, <1>6

-----------------------------------------------------------------------------
(* A frame that was received.                                              *)

\* What hearing of a frame does to the objects, and what they send.
Heard(type, n) ==
    \E fs \in Seq(OutFrames) :
        /\ Receive(type, n)
        /\ object' \in [Objects -> Object]
        /\ \A o \in Objects :
              /\ object'[o].number = object[o].number
              /\ object[o].needOpen => object'[o].needOpen
              /\ object'[o].bindings \in {0, object[o].bindings}
              /\ object[o].number # n => object'[o] = object[o]
              /\ object'[o].opened => object[o].opened \/ type = "OpenOk"
              /\ object[o].number = n /\ type \in {"Close", "CloseOk"} => ~object'[o].opened
        /\ out' = out \o fs
        /\ \A i \in DOMAIN fs : fs[i].channel = n /\ Owned(n)
        /\ type = "Close" /\ Owned(n) => Has(fs, n, "CloseOk")
        /\ calls' \in {calls, calls + 1} /\ calls' \in 0..MaxCalls
        /\ happened \subseteq happened' /\ happened' \subseteq Events

LEMMA HeardKeeps ==
    ASSUME Kept, NEW type, NEW n \in Numbers, Heard(type, n)
    PROVE  Kept'
<1>1. /\ TypeOK /\ Listed /\ BindingsCalled /\ NothingLeft /\ OpenOksInTime
      /\ OpenedIsOpen /\ UsedAreOwned /\ CloseIsAnswered /\ UnusedAbove /\ SomeOpens
  BY DEF Kept
<1>2. PICK fs \in Seq(OutFrames) :
        /\ Receive(type, n)
        /\ object' \in [Objects -> Object]
        /\ \A o \in Objects :
              /\ object'[o].number = object[o].number
              /\ object[o].needOpen => object'[o].needOpen
              /\ object'[o].bindings \in {0, object[o].bindings}
              /\ object[o].number # n => object'[o] = object[o]
              /\ object'[o].opened => object[o].opened \/ type = "OpenOk"
              /\ object[o].number = n /\ type \in {"Close", "CloseOk"} => ~object'[o].opened
        /\ out' = out \o fs
        /\ \A i \in DOMAIN fs : fs[i].channel = n /\ Owned(n)
        /\ type = "Close" /\ Owned(n) => Has(fs, n, "CloseOk")
        /\ calls' \in {calls, calls + 1} /\ calls' \in 0..MaxCalls
        /\ happened \subseteq happened' /\ happened' \subseteq Events
  BY DEF Heard
<1>3. /\ object \in [Objects -> Object] /\ in \in Seq(InFrames) /\ out \in Seq(OutFrames)
      /\ calls \in Nat
  BY <1>1, ChannelsAssumption DEF TypeOK
<1>4. /\ link = "up" /\ in # <<>> /\ Head(in) = [type |-> type, channel |-> n] /\ in' = Tail(in)
      /\ UNCHANGED <<link, order, next, broker, limit, losses>>
  BY <1>2 DEF Receive
<1>5. in' \in Seq(InFrames) /\ Is(in, 1, n, type) /\ in[1].channel = n
  BY <1>3, <1>4, TailSays DEF Is
<1>6. \A m : /\ Uses(in', m) => Uses(in, m)
             /\ \A t : Has(in, m, t) => Is(in, 1, m, t) \/ Has(in', m, t)
             /\ Ended(in, m) => Ended(in', m)
             /\ Ended(in, m) /\ Is(in, 1, m, "OpenOk") => Has(in', m, "Close") \/ Has(in', m, "CloseOk")
  BY <1>3, <1>4, TailSays
<1>7. Uses(in, n)
  BY <1>3, <1>4, <1>5, TailSays
<1>8. \A m, t : Is(in, 1, m, t) <=> m = n /\ t = type
  BY <1>5 DEF Is
<1>9. /\ out' \in Seq(OutFrames)
      /\ \A m : Uses(out', m) => Uses(out, m) \/ m = n
      /\ \A m, t : Has(out, m, t) => Has(out', m, t)
      /\ type = "Close" /\ Owned(n) => Has(out', n, "CloseOk")
  <2>1. \A m : /\ out \o fs \in Seq(OutFrames)
               /\ Uses(out \o fs, m) => Uses(out, m) \/ Uses(fs, m)
               /\ \A t : Has(out \o fs, m, t) <=> Has(out, m, t) \/ Has(fs, m, t)
    BY <1>3, ConcatSays
  <2>2. \A m : Uses(fs, m) => m = n
    BY <1>2 DEF Uses
  <2>3. QED
    BY <1>2, <2>1, <2>2
<1>10. \A m \in Numbers : Used(m)' => Used(m)
  BY <1>4, <1>6, <1>7, <1>9 DEF Used
<1>11. \A m \in Numbers : Owned(m)' <=> Owned(m)
  BY <1>2 DEF Owned
<1>12. \A o \in Objects : Exists(o)' <=> Exists(o)
  BY <1>2 DEF Exists
<1>13. TypeOK'
  BY <1>1, <1>2, <1>4, <1>5, <1>9 DEF TypeOK
<1>14. Listed'
  <2>1. ASSUME NEW o \in Objects, ~Exists(o)
        PROVE  object'[o] = Absent
    <3>1. object[o].number # n
      BY <2>1 DEF Exists, Numbers
    <3>2. QED
      BY <1>1, <1>2, <2>1, <3>1 DEF Listed
  <2>2. QED
    BY <1>1, <1>4, <1>12, <2>1 DEF Listed
<1>15. BindingsCalled'
  <2> SUFFICES ASSUME NEW o \in Objects
               PROVE  object'[o].bindings <= calls'
    BY DEF BindingsCalled
  <2>1. object[o].bindings <= calls /\ object[o].bindings \in Int
    BY <1>1, <1>3 DEF BindingsCalled, Object
  <2>2. object'[o].bindings \in {0, object[o].bindings}
    BY <1>2
  <2>3. QED
    BY <1>2, <1>3, <2>1, <2>2
<1>16. NothingLeft'
  BY <1>4 DEF NothingLeft
<1>17. OpenOksInTime'
  BY <1>1, <1>4, <1>6 DEF OpenOksInTime
<1>18. OpenedIsOpen'
  <2>1. \A o \in Objects : object[o].opened =>
                \/ broker[object[o].number] = "open"
                \/ Has(in, object[o].number, "Close")
                \/ Has(in, object[o].number, "CloseOk")
    BY <1>1, <1>3, <1>4, OpenedSays
  <2>2. ASSUME NEW o \in Objects, object'[o].opened
        PROVE  \/ broker'[object'[o].number] = "open"
               \/ Has(in', object'[o].number, "Close")
               \/ Has(in', object'[o].number, "CloseOk")
    <3> DEFINE m == object[o].number
    <3>1. object'[o].number = m /\ broker' = broker
      BY <1>2, <1>4
    <3>2. CASE m = n /\ type = "OpenOk"
      BY <1>1, <1>6, <1>8, <3>1, <3>2 DEF OpenOksInTime
    <3>3. CASE ~(m = n /\ type = "OpenOk")
      <4>1. object[o].opened
        BY <1>2, <2>2, <3>3
      <4>2. ~(m = n /\ type \in {"Close", "CloseOk"})
        BY <1>2, <2>2
      <4>3. ~Is(in, 1, m, "Close") /\ ~Is(in, 1, m, "CloseOk")
        BY <1>8, <4>2
      <4>4. QED
        BY <1>6, <2>1, <3>1, <4>1, <4>3
    <3>4. QED
      BY <3>2, <3>3
  <2>3. QED
    BY <1>5, <2>2, OpenedSaysNext
<1>19. UsedAreOwned'
  BY <1>1, <1>2, <1>10, <1>11 DEF UsedAreOwned
<1>20. CloseIsAnswered'
  <2>1. "delete" \notin happened => \A m \in Numbers : broker[m] = "closing" =>
                Has(in, m, "Close") \/ Has(out, m, "CloseOk")
    BY <1>1, <1>3, AnsweredSays
  <2>2. ASSUME "delete" \notin happened', NEW m \in Numbers, broker'[m] = "closing"
        PROVE  Has(in', m, "Close") \/ Has(out', m, "CloseOk")
    <3>1. "delete" \notin happened
      BY <1>2, <2>2
    <3>2. Has(in, m, "Close") \/ Has(out, m, "CloseOk")
      BY <1>4, <2>1, <2>2, <3>1
    <3>3. CASE Is(in, 1, m, "Close")
      <4>1. m = n /\ type = "Close"
        BY <1>8, <3>3
      <4>2. Owned(n)
        BY <1>1, <1>7, <3>1 DEF UsedAreOwned, Used
      <4>3. QED
        BY <1>9, <4>1, <4>2
    <3>4. CASE ~Is(in, 1, m, "Close")
      BY <1>6, <1>9, <3>2, <3>4
    <3>5. QED
      BY <3>3, <3>4
  <2>3. QED
    BY <1>5, <1>9, <2>2, AnsweredSaysNext
<1>21. UnusedAbove'
  BY <1>1, <1>4, <1>10, <1>11 DEF UnusedAbove
<1>22. SomeOpens'
  <2>1. happened' \cap {"gap", "delete"} = {} => happened \cap {"gap", "delete"} = {}
    BY <1>2
  <2>2. QED
    BY <1>1, <1>2, <1>12, <2>1 DEF SomeOpens
<1>23. QED
  BY <1>13, <1>14, <1>15, <1>16, <1>17, <1>18, <1>19, <1>20, <1>21, <1>22 DEF Kept

\* What the fields of an object become.
OpenedAs(c) == [c EXCEPT !.opened = TRUE, !.delayedDeclare = FALSE, !.bindings = 0,
                         !.asked = c.asked /\ ~c.delayedDeclare]

ClosedAs(c, need) == [c EXCEPT !.opened = FALSE, !.needOpen = need]
ServedAs(c) == [c EXCEPT !.prefetch = c.requested]

LEMMA HeardFields ==
    ASSUME NEW c \in Object
    PROVE  /\ LET d == OpenedAs(c)
              IN  d \in Object /\ d.number = c.number /\ d.needOpen = c.needOpen /\ d.bindings = 0
           /\ LET d == ServedAs(c)
              IN  d \in Object /\ d.number = c.number /\ d.needOpen = c.needOpen
                  /\ d.bindings = c.bindings /\ (d.opened => c.opened)
<1>1. 0 \in 0..MaxCalls
  BY ChannelsAssumption
<1>2. LET d == OpenedAs(c)
      IN  d \in Object /\ d.number = c.number /\ d.needOpen = c.needOpen /\ d.bindings = 0
  BY <1>1 DEF Object, OpenedAs
<1>3. LET d == ServedAs(c)
      IN  d \in Object /\ d.number = c.number /\ d.needOpen = c.needOpen
          /\ d.bindings = c.bindings /\ (d.opened => c.opened)
  BY DEF Object, ServedAs
<1>4. QED
  BY <1>2, <1>3

LEMMA ClosedFields ==
    ASSUME NEW c \in Object, NEW b \in BOOLEAN
    PROVE  LET d == ClosedAs(c, b)
           IN  /\ d \in Object /\ d.number = c.number /\ d.needOpen = b
               /\ d.bindings = c.bindings /\ ~d.opened
  BY DEF Object, ClosedAs

\* What is kept to be sent by an object when its channel is open.
DelayedOf(o) ==
    (IF object[o].delayedDeclare THEN <<Frame(o, "Declare")>> ELSE <<>>)
        \o [i \in 1..object[o].bindings |-> Frame(o, "Bind")]

LEMMA OpenOkSends ==
    ASSUME Kept, NEW n \in Numbers, ReceiveOpenOk(n)
    PROVE  \E fs \in Seq(OutFrames) :
              /\ out' = out \o fs
              /\ \A i \in DOMAIN fs :
                    fs[i].channel = n /\ Owned(n) /\ fs[i].type \in {"Declare", "Bind"}
<1>1. /\ TypeOK /\ Listed /\ object \in [Objects -> Object] /\ out \in Seq(OutFrames)
  BY DEF Kept, TypeOK
<1> DEFINE frames == [o \in Objects |-> DelayedOf(o)]
           fs == SentOn(n, frames)
<1>2. out' = out \o fs
  BY DEF ReceiveOpenOk, Receive, Send, DelayedOf
<1>3. ASSUME NEW o \in Objects, object[o].number = n
      PROVE  /\ frames[o] \in Seq(OutFrames)
             /\ \A k \in DOMAIN frames[o] : frames[o][k].channel = n /\ frames[o][k].type \in {"Declare", "Bind"}
  <2> DEFINE a == IF object[o].delayedDeclare THEN <<Frame(o, "Declare")>> ELSE <<>>
             b == [i \in 1..object[o].bindings |-> Frame(o, "Bind")]
             mine == {f \in OutFrames : f.channel = n /\ f.type \in {"Declare", "Bind"}}
  <2>1. Frame(o, "Declare") \in mine /\ Frame(o, "Bind") \in mine
    BY <1>3, FrameTypes DEF Frame
  <2>2. object[o].bindings \in Nat
    <3>1. object[o] \in Object
      BY <1>1
    <3>2. object[o].bindings \in 0..MaxCalls
      BY <3>1, ObjectFields
    <3>3. QED
      BY <3>2, ChannelsAssumption
  <2> HIDE DEF mine
  <2>3. a \in Seq(mine) /\ b \in Seq(mine)
    BY <2>1, <2>2
  <2>4. frames[o] = a \o b
    BY DEF DelayedOf
  <2> HIDE DEF a, b, frames
  <2>5. frames[o] \in Seq(mine)
    BY <2>3, <2>4, ConcatEntries
  <2>6. \A k \in DOMAIN frames[o] : frames[o][k] \in mine
    BY <2>5
  <2>7. mine \subseteq OutFrames
    BY DEF mine
  <2>8. frames[o] \in Seq(OutFrames)
    BY <2>5, <2>7
  <2>9. QED
    BY <2>6, <2>8 DEF mine
<1> HIDE DEF frames
<1>4. /\ fs \in Seq(OutFrames)
      /\ \A j \in DOMAIN fs : \E o \in Objects :
            object[o].number = n /\ \E k \in DOMAIN frames[o] : fs[j] = frames[o][k]
  BY <1>1, <1>3, SentOnSays
<1> HIDE DEF fs
<1>5. \A i \in DOMAIN fs : fs[i].channel = n /\ Owned(n) /\ fs[i].type \in {"Declare", "Bind"}
  BY <1>3, <1>4 DEF Owned
<1>6. QED
  BY <1>2, <1>4, <1>5

\* What reopen() sends from a slot is about the channel of the object.
LEMMA SlotSendsSays ==
    ASSUME Kept, NEW o \in Objects, Exists(o), NEW slots
    PROVE  /\ SlotSends(o, slots) \in Seq(OutFrames)
           /\ \A k \in DOMAIN SlotSends(o, slots) : SlotSends(o, slots)[k].channel = object[o].number
           /\ o \notin slots => SlotSends(o, slots) = <<>>
<1>1. object[o].number \in Numbers
  <2>1. object[o] \in Object
    BY DEF Kept, TypeOK
  <2>2. QED
    BY <2>1, ObjectFields DEF Exists
<1>2. /\ Frame(o, "Close") \in OutFrames /\ Frame(o, "Open") \in OutFrames
      /\ Frame(o, "Close").channel = object[o].number /\ Frame(o, "Open").channel = object[o].number
  BY <1>1, FrameTypes DEF Frame
<1>3. SlotSends(o, slots) \in {<<>>, <<Frame(o, "Close")>>, <<Frame(o, "Open")>>}
  BY DEF SlotSends
<1>4. \A s \in {<<>>, <<Frame(o, "Close")>>, <<Frame(o, "Open")>>} :
         s \in Seq(OutFrames) /\ \A k \in DOMAIN s : s[k].channel = object[o].number
  <2>1. ASSUME NEW f \in OutFrames
        PROVE  <<f>> \in Seq(OutFrames) /\ \A k \in DOMAIN <<f>> : <<f>>[k] = f
    OBVIOUS
  <2>2. <<>> \in Seq(OutFrames) /\ DOMAIN <<>> = {}
    OBVIOUS
  <2>3. QED
    BY <1>2, <2>1, <2>2
<1>5. o \notin slots => SlotSends(o, slots) = <<>>
  BY DEF SlotSends
<1>6. QED
  BY <1>3, <1>4, <1>5

\* What the objects of a channel send when the broker has closed it: a closeOk
\* each, and no more unless a slot is called.
LEMMA CloseSends ==
    ASSUME Kept, NEW n \in Numbers, NEW slots,
           Receive("Close", n),
           Send(SentOn(n, [o \in Objects |-> <<Frame(o, "CloseOk")>> \o SlotSends(o, slots)]))
    PROVE  \E fs \in Seq(OutFrames) :
              /\ out' = out \o fs
              /\ \A i \in DOMAIN fs : fs[i].channel = n /\ Owned(n)
              /\ Owned(n) => Has(fs, n, "CloseOk")
              /\ slots = {} => \A i \in DOMAIN fs : fs[i].type = "CloseOk"
              /\ (/\ slots = {}
                  /\ \A o, p \in Objects : object[o].number = n /\ object[p].number = n => o = p)
                    => \A i, j \in DOMAIN fs : i = j
<1>1. /\ TypeOK /\ Listed /\ object \in [Objects -> Object] /\ out \in Seq(OutFrames)
  BY DEF Kept, TypeOK
<1> DEFINE frames == [o \in Objects |-> <<Frame(o, "CloseOk")>> \o SlotSends(o, slots)]
           fs == SentOn(n, frames)
<1>2. out' = out \o fs
  BY DEF Receive, Send
<1>3. ASSUME NEW o \in Objects, object[o].number = n
      PROVE  /\ frames[o] \in Seq(OutFrames)
             /\ \A k \in DOMAIN frames[o] : frames[o][k].channel = n
             /\ 1 \in DOMAIN frames[o] /\ Is(frames[o], 1, n, "CloseOk")
             /\ slots = {} => DOMAIN frames[o] \subseteq {1}
  <2> DEFINE f == Frame(o, "CloseOk")
             b == SlotSends(o, slots)
  <2>1. Exists(o)
    BY <1>3 DEF Exists, Numbers
  <2>2. /\ b \in Seq(OutFrames) /\ \A k \in DOMAIN b : b[k].channel = n
        /\ slots = {} => b = <<>>
    BY <1>3, <2>1, SlotSendsSays
  <2>3. f \in OutFrames /\ f.channel = n /\ f.type = "CloseOk"
    BY <1>3, FrameTypes DEF Frame
  <2>4. frames[o] = <<f>> \o b
    OBVIOUS
  <2> HIDE DEF f, b, frames
  <2> DEFINE r == <<f>> \o b
  <2>5. /\ r \in Seq(OutFrames) /\ DOMAIN r = 1..(1 + Len(b)) /\ Len(b) \in Nat
        /\ r[1] = f
        /\ \A k \in 2..(1 + Len(b)) : k - 1 \in DOMAIN b /\ r[k] = b[k - 1]
    <3>1. <<f>> \in Seq(OutFrames) /\ Len(<<f>>) = 1 /\ <<f>>[1] = f
      BY <2>3
    <3>2. /\ r \in Seq(OutFrames) /\ DOMAIN r = 1..(1 + Len(b)) /\ Len(b) \in Nat
          /\ \A k \in 1..(1 + Len(b)) : r[k] = IF k <= 1 THEN <<f>>[k] ELSE b[k - 1]
      BY <2>2, <3>1, ConcatEntries
    <3>3. \A k \in 2..(1 + Len(b)) : k - 1 \in DOMAIN b
      BY <2>2
    <3> HIDE DEF r
    <3>4. QED
      BY <3>1, <3>2, <3>3
  <2> HIDE DEF r
  <2>6. \A k \in DOMAIN r : k = 1 \/ k \in 2..(1 + Len(b))
    BY <2>5
  <2>7. \A k \in DOMAIN r : r[k].channel = n
    BY <2>2, <2>3, <2>5, <2>6
  <2>8. 1 \in DOMAIN r /\ Is(r, 1, n, "CloseOk")
    BY <2>3, <2>5 DEF Is
  <2>9. slots = {} => DOMAIN r \subseteq {1}
    <3>1. b = <<>> => Len(b) = 0
      OBVIOUS
    <3>2. QED
      BY <2>2, <2>5, <3>1
  <2>10. QED
    BY <2>4, <2>5, <2>7, <2>8, <2>9 DEF r
<1> HIDE DEF frames
<1>4. /\ fs \in Seq(OutFrames)
      /\ \A j \in DOMAIN fs : \E o \in Objects :
            object[o].number = n /\ \E k \in DOMAIN frames[o] : fs[j] = frames[o][k]
      /\ \A o \in Objects : object[o].number = n =>
            \A k \in DOMAIN frames[o] : \E j \in DOMAIN fs : fs[j] = frames[o][k]
      /\ (/\ \A o, p \in Objects : object[o].number = n /\ object[p].number = n => o = p
          /\ \A o \in Objects : object[o].number = n => DOMAIN frames[o] \subseteq {1})
            => \A i, j \in DOMAIN fs : i = j
  BY <1>1, <1>3, SentOnSays
<1> HIDE DEF fs
<1>5. \A i \in DOMAIN fs : fs[i].channel = n /\ Owned(n)
  <2>1. TAKE i \in DOMAIN fs
  <2>2. PICK o \in Objects : object[o].number = n /\ \E k \in DOMAIN frames[o] : fs[i] = frames[o][k]
    BY <1>4
  <2>3. PICK k \in DOMAIN frames[o] : fs[i] = frames[o][k]
    BY <2>2
  <2>4. \A m \in DOMAIN frames[o] : frames[o][m].channel = n
    BY <1>3, <2>2
  <2>5. fs[i].channel = n
    BY <2>3, <2>4
  <2>6. QED
    BY <2>2, <2>5 DEF Owned
<1>6. ASSUME Owned(n)
      PROVE  Has(fs, n, "CloseOk")
  <2>1. PICK o \in Objects : object[o].number = n
    BY <1>6 DEF Owned
  <2>2. PICK j \in DOMAIN fs : fs[j] = frames[o][1]
    BY <1>3, <1>4, <2>1
  <2>3. Is(fs, j, n, "CloseOk")
    BY <1>3, <2>1, <2>2 DEF Is
  <2>4. QED
    BY <2>3 DEF Has
<1>7. ASSUME slots = {}, NEW i \in DOMAIN fs
      PROVE  fs[i].type = "CloseOk"
  <2>1. PICK o \in Objects : object[o].number = n /\ \E k \in DOMAIN frames[o] : fs[i] = frames[o][k]
    BY <1>4
  <2>2. fs[i] = frames[o][1]
    BY <1>3, <1>7, <2>1
  <2>3. QED
    BY <1>3, <2>1, <2>2 DEF Is
<1>8. (/\ slots = {}
       /\ \A o, p \in Objects : object[o].number = n /\ object[p].number = n => o = p)
         => \A i, j \in DOMAIN fs : i = j
  BY <1>3, <1>4
<1>9. QED
  BY <1>2, <1>4, <1>5, <1>6, <1>7, <1>8

\* What they send when their own close is answered comes from the slots.
LEMMA CloseOkSends ==
    ASSUME Kept, NEW n \in Numbers, NEW slots,
           Receive("CloseOk", n),
           Send(SentOn(n, [o \in Objects |-> SlotSends(o, slots)]))
    PROVE  \E fs \in Seq(OutFrames) :
              /\ out' = out \o fs
              /\ \A i \in DOMAIN fs : fs[i].channel = n /\ Owned(n)
              /\ slots = {} => DOMAIN fs = {}
<1>1. /\ TypeOK /\ Listed /\ object \in [Objects -> Object] /\ out \in Seq(OutFrames)
  BY DEF Kept, TypeOK
<1> DEFINE frames == [o \in Objects |-> SlotSends(o, slots)]
           fs == SentOn(n, frames)
<1>2. out' = out \o fs
  BY DEF Receive, Send
<1>3. ASSUME NEW o \in Objects, object[o].number = n
      PROVE  /\ frames[o] \in Seq(OutFrames)
             /\ \A k \in DOMAIN frames[o] : frames[o][k].channel = n
             /\ slots = {} => DOMAIN frames[o] = {}
  <2>1. Exists(o)
    BY <1>3 DEF Exists, Numbers
  <2>2. /\ SlotSends(o, slots) \in Seq(OutFrames)
        /\ \A k \in DOMAIN SlotSends(o, slots) : SlotSends(o, slots)[k].channel = n
        /\ slots = {} => SlotSends(o, slots) = <<>>
    BY <1>3, <2>1, SlotSendsSays
  <2>3. DOMAIN <<>> = {}
    OBVIOUS
  <2>4. QED
    BY <2>2, <2>3
<1> HIDE DEF frames
<1>4. /\ fs \in Seq(OutFrames)
      /\ \A j \in DOMAIN fs : \E o \in Objects :
            object[o].number = n /\ \E k \in DOMAIN frames[o] : fs[j] = frames[o][k]
  BY <1>1, <1>3, SentOnSays
<1> HIDE DEF fs
<1>5. \A i \in DOMAIN fs : fs[i].channel = n /\ Owned(n)
  BY <1>3, <1>4 DEF Owned
<1>6. slots = {} => DOMAIN fs = {}
  BY <1>3, <1>4
<1>7. QED
  BY <1>2, <1>4, <1>5, <1>6

LEMMA ReceivedIsHeard ==
    ASSUME Kept, NEW n \in Numbers
    PROVE  /\ ReceiveOpenOk(n) => Heard("OpenOk", n)
           /\ ReceiveClose(n) => Heard("Close", n)
           /\ ReceiveCloseOk(n) => Heard("CloseOk", n)
           /\ ReceiveQosOk(n) => Heard("QosOk", n)
           /\ ReceiveFlowOk(n) => Heard("FlowOk", n)
<1>1. /\ object \in [Objects -> Object] /\ out \in Seq(OutFrames) /\ happened \subseteq Events
      /\ calls \in Nat /\ calls <= MaxCalls /\ MaxCalls \in Nat
      /\ \A o \in Objects : object[o] \in Object
  <2>1. calls \in 0..MaxCalls /\ object \in [Objects -> Object]
    BY DEF Kept, TypeOK
  <2>2. QED
    BY <2>1, ChannelsAssumption DEF Kept, TypeOK
<1>2. \A o \in Objects : object[o].bindings \in {0, object[o].bindings}
  OBVIOUS
<1>3. \A slots : SlotCalls(slots) => calls' \in {calls, calls + 1} /\ calls' \in 0..MaxCalls
  BY <1>1 DEF SlotCalls, Call
<1>4. \A events : Happens(events) => happened \subseteq happened' /\ happened' \subseteq Events
  BY <1>1 DEF Happens
<1>5. <<>> \in Seq(OutFrames) /\ DOMAIN <<>> = {} /\ out \o <<>> = out
  BY <1>1
<1>6. ASSUME ReceiveOpenOk(n)
      PROVE  Heard("OpenOk", n)
  <2>1. PICK fs \in Seq(OutFrames) :
           /\ out' = out \o fs
           /\ \A i \in DOMAIN fs : fs[i].channel = n /\ Owned(n) /\ fs[i].type \in {"Declare", "Bind"}
    BY <1>6, OpenOkSends
  <2>2. /\ Receive("OpenOk", n) /\ UNCHANGED <<calls, happened>>
        /\ object' = [o \in Objects |->
              IF object[o].number = n THEN OpenedAs(object[o]) ELSE object[o]]
    BY <1>6 DEF ReceiveOpenOk, OpenedAs
  <2>3. ASSUME NEW o \in Objects
        PROVE  /\ object'[o] \in Object
               /\ object'[o].number = object[o].number
               /\ object[o].needOpen => object'[o].needOpen
               /\ object'[o].bindings \in {0, object[o].bindings}
               /\ object[o].number # n => object'[o] = object[o]
    <3>1. object'[o] = IF object[o].number = n THEN OpenedAs(object[o]) ELSE object[o]
      BY <2>2
    <3>2. QED
      BY <1>1, <3>1, HeardFields
  <2>4. object' \in [Objects -> Object]
    <3>1. \A o \in Objects : object'[o] \in Object
      BY <2>3
    <3>2. QED
      BY <2>2, <3>1
  <2>5. calls' \in {calls, calls + 1} /\ calls' \in 0..MaxCalls
    BY <1>1, <2>2
  <2>6. QED
    BY <1>1, <2>1, <2>2, <2>3, <2>4, <2>5 DEF Heard
<1>7. ASSUME NEW slots, Closed(n, slots)
      PROVE  /\ object' \in [Objects -> Object]
             /\ \A o \in Objects :
                  /\ object'[o].number = object[o].number
                  /\ object[o].needOpen => object'[o].needOpen
                  /\ object'[o].bindings \in {0, object[o].bindings}
                  /\ object[o].number # n => object'[o] = object[o]
                  /\ object'[o].opened => object[o].opened
                  /\ object[o].number = n => ~object'[o].opened
  <2> DEFINE need(o) == object[o].needOpen \/ (o \in slots /\ object[o].opened)
  <2>1. object' = [o \in Objects |->
           IF object[o].number = n THEN ClosedAs(object[o], need(o)) ELSE object[o]]
    BY <1>7 DEF Closed, ClosedAs
  <2>2. ASSUME NEW o \in Objects
        PROVE  /\ object'[o] \in Object
               /\ object'[o].number = object[o].number
               /\ object[o].needOpen => object'[o].needOpen
               /\ object'[o].bindings \in {0, object[o].bindings}
               /\ object[o].number # n => object'[o] = object[o]
               /\ object'[o].opened => object[o].opened
               /\ object[o].number = n => ~object'[o].opened
    <3>1. CASE object[o].number = n
      <4> DEFINE b == need(o)
      <4>1. b \in BOOLEAN /\ (object[o].needOpen => b)
        BY <1>1, ObjectFields
      <4>2. object'[o] = ClosedAs(object[o], b)
        BY <2>1, <3>1
      <4> HIDE DEF b
      <4> DEFINE d == ClosedAs(object[o], b)
      <4>3. /\ d \in Object /\ d.number = object[o].number /\ d.needOpen = b
            /\ d.bindings = object[o].bindings /\ ~d.opened
        BY <1>1, <4>1, ClosedFields
      <4> HIDE DEF d
      <4>4. object'[o] = d
        BY <4>2 DEF d
      <4>5. object[o].needOpen => d.needOpen
        BY <4>1, <4>3
      <4>6. QED
        BY <3>1, <4>3, <4>4, <4>5
    <3>2. CASE object[o].number # n
      <4>1. object'[o] = object[o]
        BY <2>1, <3>2
      <4>2. QED
        BY <1>1, <3>2, <4>1
    <3>3. QED
      BY <3>1, <3>2
  <2>3. object' \in [Objects -> Object]
    <3>1. \A o \in Objects : object'[o] \in Object
      BY <2>2
    <3>2. QED
      BY <2>1, <3>1
  <2>4. QED
    BY <2>2, <2>3
<1>8. ASSUME ReceiveClose(n)
      PROVE  Heard("Close", n)
  <2>1. PICK slots : /\ Receive("Close", n) /\ SlotCalls(slots)
                     /\ Happens(CloseEvents(n, slots)) /\ Closed(n, slots)
                     /\ Send(SentOn(n, [o \in Objects |->
                               <<Frame(o, "CloseOk")>> \o SlotSends(o, slots)]))
    BY <1>8 DEF ReceiveClose
  <2>2. PICK fs \in Seq(OutFrames) :
           /\ out' = out \o fs
           /\ \A i \in DOMAIN fs : fs[i].channel = n /\ Owned(n)
           /\ Owned(n) => Has(fs, n, "CloseOk")
    BY <2>1, CloseSends
  <2>3. calls' \in {calls, calls + 1} /\ calls' \in 0..MaxCalls
    BY <1>3, <2>1
  <2>4. happened \subseteq happened' /\ happened' \subseteq Events
    BY <1>4, <2>1
  <2>5. QED
    BY <1>7, <2>1, <2>2, <2>3, <2>4 DEF Heard
<1>9. ASSUME ReceiveCloseOk(n)
      PROVE  Heard("CloseOk", n)
  <2>1. PICK slots : /\ Receive("CloseOk", n) /\ SlotCalls(slots)
                     /\ Happens(CloseEvents(n, slots)) /\ Closed(n, slots)
                     /\ Send(SentOn(n, [o \in Objects |-> SlotSends(o, slots)]))
    BY <1>9 DEF ReceiveCloseOk
  <2>2. PICK fs \in Seq(OutFrames) :
           /\ out' = out \o fs
           /\ \A i \in DOMAIN fs : fs[i].channel = n /\ Owned(n)
    BY <2>1, CloseOkSends
  <2>3. calls' \in {calls, calls + 1} /\ calls' \in 0..MaxCalls
    BY <1>3, <2>1
  <2>4. happened \subseteq happened' /\ happened' \subseteq Events
    BY <1>4, <2>1
  <2>5. QED
    BY <1>7, <2>1, <2>2, <2>3, <2>4 DEF Heard
<1>10. calls \in {calls, calls + 1} /\ calls \in 0..MaxCalls
  BY <1>1
<1>11. ASSUME ReceiveQosOk(n)
       PROVE  Heard("QosOk", n)
  <2>1. /\ Receive("QosOk", n) /\ UNCHANGED <<out, calls, happened>>
        /\ object' = [o \in Objects |->
              IF object[o].number = n THEN ServedAs(object[o]) ELSE object[o]]
    BY <1>11 DEF ReceiveQosOk, ServedAs
  <2>2. ASSUME NEW o \in Objects
        PROVE  /\ object'[o] \in Object
               /\ object'[o].number = object[o].number
               /\ object[o].needOpen => object'[o].needOpen
               /\ object'[o].bindings \in {0, object[o].bindings}
               /\ object[o].number # n => object'[o] = object[o]
               /\ object'[o].opened => object[o].opened
    <3>1. object'[o] = IF object[o].number = n THEN ServedAs(object[o]) ELSE object[o]
      BY <2>1
    <3>2. QED
      BY <1>1, <3>1, HeardFields
  <2>3. object' \in [Objects -> Object]
    <3>1. \A o \in Objects : object'[o] \in Object
      BY <2>2
    <3>2. QED
      BY <2>1, <3>1
  <2>4. QED
    BY <1>1, <1>5, <1>10, <2>1, <2>2, <2>3 DEF Heard
<1>12. ASSUME ReceiveFlowOk(n)
       PROVE  Heard("FlowOk", n)
  <2>1. Receive("FlowOk", n) /\ UNCHANGED <<object, out, calls, happened>>
    BY <1>12 DEF ReceiveFlowOk
  <2>2. QED
    BY <1>1, <1>5, <1>10, <2>1 DEF Heard
<1>13. QED
  BY <1>6, <1>8, <1>9, <1>11, <1>12

-----------------------------------------------------------------------------
(* The broker.                                                             *)

\* What reading of a frame does to the broker, and what it answers.
Taken(type, n, state, answer) ==
    /\ link = "up" /\ out # <<>> /\ Is(out, 1, n, type) /\ out' = Tail(out)
    /\ state \in {"closed", "open", "closing"}
    /\ broker' = [broker EXCEPT ![n] = state]
    /\ limit' = [limit EXCEPT ![n] = CASE type = "Open" /\ state = "open" -> 0
                                       [] type = "Qos" /\ state = "open"  -> Head(out).count
                                       [] OTHER                           -> @]
    /\ limit' \in [Numbers -> Prefetches \cup {0}]
    /\ answer \in {<<>>} \cup {<<[type |-> t, channel |-> n]>> : t \in {"OpenOk", "CloseOk", "QosOk", "FlowOk"}}
    /\ in' = in \o answer
    /\ broker[n] = "open" /\ state # "open" => answer = <<[type |-> "CloseOk", channel |-> n]>>
    /\ state # "open" => answer # <<[type |-> "OpenOk", channel |-> n]>>
    /\ state = "closing" => broker[n] = "closing" /\ type # "CloseOk"
    /\ UNCHANGED <<link, object, order, next, calls, losses, happened>>

LEMMA TakenKeeps ==
    ASSUME Kept, NEW type, NEW n \in Numbers, NEW state, NEW answer, Taken(type, n, state, answer)
    PROVE  Kept'
<1>1. /\ TypeOK /\ Listed /\ BindingsCalled /\ NothingLeft /\ OpenOksInTime
      /\ OpenedIsOpen /\ UsedAreOwned /\ CloseIsAnswered /\ UnusedAbove /\ SomeOpens
  BY DEF Kept
<1>2. /\ link = "up" /\ out # <<>> /\ Is(out, 1, n, type) /\ out' = Tail(out)
      /\ state \in {"closed", "open", "closing"}
      /\ broker' = [broker EXCEPT ![n] = state]
      /\ limit' \in [Numbers -> Prefetches \cup {0}]
      /\ answer \in {<<>>} \cup {<<[type |-> t, channel |-> n]>> : t \in {"OpenOk", "CloseOk", "QosOk", "FlowOk"}}
      /\ in' = in \o answer
      /\ broker[n] = "open" /\ state # "open" => answer = <<[type |-> "CloseOk", channel |-> n]>>
      /\ state # "open" => answer # <<[type |-> "OpenOk", channel |-> n]>>
      /\ state = "closing" => broker[n] = "closing" /\ type # "CloseOk"
      /\ UNCHANGED <<link, object, order, next, calls, losses, happened>>
  BY DEF Taken
<1>3. /\ object \in [Objects -> Object] /\ in \in Seq(InFrames) /\ out \in Seq(OutFrames)
      /\ broker \in [Numbers -> {"closed", "open", "closing"}]
  BY <1>1 DEF TypeOK
<1>4. /\ broker' \in [Numbers -> {"closed", "open", "closing"}]
      /\ broker'[n] = state /\ \A m \in Numbers : m # n => broker'[m] = broker[m]
  BY <1>2, <1>3
<1>5. /\ in' \in Seq(InFrames)
      /\ \A m : Uses(in', m) => Uses(in, m) \/ m = n
      /\ \A m, t : Has(in, m, t) => Has(in', m, t)
      /\ \A m : m # n \/ state # "open" => (Ended(in, m) => Ended(in', m))
      /\ broker[n] = "open" /\ state # "open" => Has(in', n, "CloseOk") /\ Ended(in', n)
  <2>1. CASE answer = <<>>
    <3>1. in' = in
      BY <1>2, <1>3, <2>1
    <3>2. <<>> # <<[type |-> "CloseOk", channel |-> n]>>
      OBVIOUS
    <3>3. QED
      BY <1>2, <1>3, <2>1, <3>1, <3>2
  <2>2. ASSUME NEW t \in {"OpenOk", "CloseOk", "QosOk", "FlowOk"}, answer = <<[type |-> t, channel |-> n]>>
        PROVE  <1>5!1 /\ <1>5!2 /\ <1>5!3 /\ <1>5!4 /\ <1>5!5
    <3> DEFINE f == [type |-> t, channel |-> n]
    <3>1. f \in InFrames /\ f.channel = n /\ f.type = t
      BY FrameTypes
    <3>2. state # "open" => t # "OpenOk"
      BY <1>2, <2>2
    <3>3. broker[n] = "open" /\ state # "open" => t = "CloseOk"
      <4>1. ASSUME f = [type |-> "CloseOk", channel |-> n]
            PROVE  t = "CloseOk"
        BY <4>1
      <4>2. ASSUME <<f>> = <<[type |-> "CloseOk", channel |-> n]>>
            PROVE  f = [type |-> "CloseOk", channel |-> n]
        BY <4>2
      <4>3. QED
        BY <1>2, <2>2, <4>1, <4>2
    <3>4. in' = in \o <<f>>
      BY <1>2, <2>2
    <3> HIDE DEF f
    <3>5. \A m : /\ Uses(<<f>>, m) <=> m = n
                 /\ \A u : Has(<<f>>, m, u) <=> m = n /\ u = t
                 /\ <<f>> \in Seq(InFrames)
      BY <3>1, OneSays
    <3>6. \A m : /\ in \o <<f>> \in Seq(InFrames)
                 /\ Uses(in \o <<f>>, m) => Uses(in, m) \/ Uses(<<f>>, m)
                 /\ \A u : Has(in \o <<f>>, m, u) <=> Has(in, m, u) \/ Has(<<f>>, m, u)
      BY <1>3, <3>5, ConcatSays
    <3>7. \A m : /\ f.channel # m \/ f.type # "OpenOk" => (Ended(in, m) => Ended(in \o <<f>>, m))
                 /\ f.channel = m /\ f.type \in {"Close", "CloseOk"} => Ended(in \o <<f>>, m)
      BY <1>3, <3>1, ConcatEnds
    <3>8. QED
      BY <3>1, <3>2, <3>3, <3>4, <3>5, <3>6, <3>7
  <2>3. QED
    BY <1>2, <2>1, <2>2
<1>6. /\ out' \in Seq(OutFrames)
      /\ \A m : Uses(out', m) => Uses(out, m)
      /\ Uses(out, n)
      /\ \A m, t : Has(out, m, t) /\ ~(m = n /\ t = type) => Has(out', m, t)
  <2>1. out[1].channel = n /\ \A m, t : Is(out, 1, m, t) <=> m = n /\ t = type
    BY <1>2 DEF Is
  <2>2. \A m : /\ Tail(out) \in Seq(OutFrames)
               /\ Uses(Tail(out), m) => Uses(out, m)
               /\ out[1].channel = m => Uses(out, m)
               /\ \A t : Has(out, m, t) => Is(out, 1, m, t) \/ Has(Tail(out), m, t)
    BY <1>2, <1>3, TailSays
  <2>3. QED
    BY <1>2, <2>1, <2>2
<1>7. \A m \in Numbers : Used(m)' => Used(m)
  BY <1>4, <1>5, <1>6 DEF Used
<1>8. \A m \in Numbers : Owned(m)' <=> Owned(m)
  BY <1>2 DEF Owned
<1>9. \A o \in Objects : Exists(o)' <=> Exists(o)
  BY <1>2 DEF Exists
<1>10. TypeOK'
  BY <1>1, <1>2, <1>4, <1>5, <1>6 DEF TypeOK
<1>11. Listed' /\ BindingsCalled' /\ SomeOpens'
  BY <1>1, <1>2, <1>9 DEF Listed, BindingsCalled, SomeOpens
<1>12. NothingLeft'
  BY <1>2 DEF NothingLeft
<1>13. OpenOksInTime'
  <2> SUFFICES ASSUME NEW m \in Numbers, broker'[m] # "open"
               PROVE  Ended(in', m)
    BY DEF OpenOksInTime
  <2>1. CASE m = n
    <3>1. state # "open"
      BY <1>4, <2>1
    <3>2. broker[n] = "open" \/ Ended(in, n)
      BY <1>1 DEF OpenOksInTime
    <3>3. QED
      BY <1>5, <2>1, <3>1, <3>2
  <2>2. CASE m # n
    BY <1>1, <1>4, <1>5, <2>2 DEF OpenOksInTime
  <2>3. QED
    BY <2>1, <2>2
<1>14. OpenedIsOpen'
  <2>1. \A o \in Objects : object[o].opened =>
                \/ broker[object[o].number] = "open"
                \/ Has(in, object[o].number, "Close")
                \/ Has(in, object[o].number, "CloseOk")
    BY <1>1, <1>2, <1>3, OpenedSays
  <2>2. ASSUME NEW o \in Objects, object'[o].opened
        PROVE  \/ broker'[object'[o].number] = "open"
               \/ Has(in', object'[o].number, "Close")
               \/ Has(in', object'[o].number, "CloseOk")
    <3> DEFINE m == object[o].number
    <3>1. object'[o].number = m /\ object[o].opened /\ m \in Numbers
      <4>1. object[o] \in Object /\ object' = object /\ object[o].opened
        BY <1>2, <1>3, <2>2
      <4>2. ~Exists(o) => ~object[o].opened
        BY <1>1 DEF Listed, Absent
      <4>3. QED
        BY <4>1, <4>2, ObjectFields DEF Exists
    <3>2. \/ broker[m] = "open" \/ Has(in, m, "Close") \/ Has(in, m, "CloseOk")
      BY <2>1, <3>1
    <3>3. CASE broker[m] = "open"
      <4>1. CASE m = n /\ state # "open"
        BY <1>5, <3>1, <3>3, <4>1
      <4>2. CASE ~(m = n /\ state # "open")
        BY <1>4, <3>1, <3>3, <4>2
      <4>3. QED
        BY <4>1, <4>2
    <3>4. CASE Has(in, m, "Close") \/ Has(in, m, "CloseOk")
      BY <1>5, <3>1, <3>4
    <3>5. QED
      BY <3>2, <3>3, <3>4
  <2>3. QED
    BY <1>5, <2>2, OpenedSaysNext
<1>15. UsedAreOwned'
  BY <1>1, <1>2, <1>7, <1>8 DEF UsedAreOwned
<1>16. CloseIsAnswered'
  <2>1. "delete" \notin happened => \A m \in Numbers : broker[m] = "closing" =>
                Has(in, m, "Close") \/ Has(out, m, "CloseOk")
    BY <1>1, <1>3, AnsweredSays
  <2>2. ASSUME "delete" \notin happened', NEW m \in Numbers, broker'[m] = "closing"
        PROVE  Has(in', m, "Close") \/ Has(out', m, "CloseOk")
    <3>1. "delete" \notin happened
      BY <1>2, <2>2
    <3>2. broker[m] = "closing" /\ ~(m = n /\ "CloseOk" = type)
      BY <1>2, <1>4, <2>2
    <3>3. QED
      BY <1>5, <1>6, <2>1, <3>1, <3>2
  <2>3. QED
    BY <1>5, <1>6, <2>2, AnsweredSaysNext
<1>17. UnusedAbove'
  BY <1>1, <1>2, <1>7, <1>8 DEF UnusedAbove
<1>18. QED
  BY <1>10, <1>11, <1>12, <1>13, <1>14, <1>15, <1>16, <1>17 DEF Kept

\* The frames the broker reads, the state of the channel then, and its answers.
Reaction(type, n, b, state, answer) ==
    \/ /\ type = "Open" /\ b = "closed" /\ state = "open"
       /\ answer = <<[type |-> "OpenOk", channel |-> n]>>
    \/ /\ type = "Close" /\ b = "open" /\ state = "closed"
       /\ answer = <<[type |-> "CloseOk", channel |-> n]>>
    \/ /\ type = "Close" /\ b = "closing" /\ state = "closing"
       /\ answer = <<[type |-> "CloseOk", channel |-> n]>>
    \/ type \in {"Declare", "Bind"} /\ b = "open" /\ state = "open" /\ answer = <<>>
    \/ /\ type = "Qos" /\ b = "open" /\ state = "open"
       /\ answer = <<[type |-> "QosOk", channel |-> n]>>
    \/ /\ type = "Flow" /\ b = "open" /\ state = "open"
       /\ answer = <<[type |-> "FlowOk", channel |-> n]>>
    \/ type = "CloseOk" /\ state = (IF b = "closing" THEN "closed" ELSE b) /\ answer = <<>>
    \/ type \in Served \cup {"Open"} /\ b = "closing" /\ state = "closing" /\ answer = <<>>

LEMMA TakesIsTaken ==
    ASSUME Kept, NEW n \in Numbers, NEW type, NEW state, NEW names, NEW answer,
           BrokerTakes(type, n, state, names), Reaction(type, n, broker[n], state, answer),
           \/ names = <<>> /\ answer = <<>>
           \/ \E t : names = <<t>> /\ answer = <<[type |-> t, channel |-> n]>>
    PROVE  Taken(type, n, state, answer)
<1>1. /\ in \in Seq(InFrames) /\ out \in Seq(OutFrames) /\ limit \in [Numbers -> Prefetches \cup {0}]
      /\ broker \in [Numbers -> {"closed", "open", "closing"}]
  BY DEF Kept, TypeOK
<1>2. /\ link = "up" /\ out # <<>> /\ Head(out).type = type /\ Head(out).channel = n
      /\ out' = Tail(out) /\ broker' = [broker EXCEPT ![n] = state]
      /\ limit' = [limit EXCEPT ![n] = CASE type = "Open" /\ state = "open" -> 0
                                         [] type = "Qos" /\ state = "open"  -> Head(out).count
                                         [] OTHER                           -> @]
      /\ in' = in \o [i \in DOMAIN names |-> [type |-> names[i], channel |-> n]]
      /\ UNCHANGED <<link, object, order, next, calls, losses, happened>>
  BY DEF BrokerTakes
<1>3. Is(out, 1, n, type) /\ out[1] \in OutFrames /\ Head(out) = out[1]
  <2>1. Head(out) = out[1] /\ out[1] \in OutFrames
    BY <1>1, <1>2
  <2>2. QED
    BY <1>2, <2>1 DEF Is
<1>4. limit' \in [Numbers -> Prefetches \cup {0}]
  <2>1. type = "Qos" => Head(out).count \in Prefetches
    BY <1>2, <1>3 DEF OutFrames
  <2>2. (CASE type = "Open" /\ state = "open" -> 0
           [] type = "Qos" /\ state = "open"  -> Head(out).count
           [] OTHER                           -> limit[n]) \in Prefetches \cup {0}
    <3>1. CASE type = "Open" /\ state = "open"
      BY <3>1
    <3>2. CASE type = "Qos" /\ state = "open"
      BY <2>1, <3>2
    <3>3. CASE ~(type = "Open" /\ state = "open") /\ ~(type = "Qos" /\ state = "open")
      <4>1. limit[n] \in Prefetches \cup {0}
        BY <1>1
      <4>2. QED
        BY <3>3, <4>1
    <3>4. QED
      BY <3>1, <3>2, <3>3
  <2>3. QED
    BY <1>1, <1>2, <2>2
<1>5. in' = in \o answer
  <2>1. CASE names = <<>> /\ answer = <<>>
    <3>1. [i \in DOMAIN names |-> [type |-> names[i], channel |-> n]] = <<>>
      BY <2>1
    <3>2. QED
      BY <1>2, <2>1, <3>1
  <2>2. ASSUME NEW t, names = <<t>>, answer = <<[type |-> t, channel |-> n]>>
        PROVE  in' = in \o answer
    <3>1. DOMAIN names = 1..1 /\ names[1] = t
      BY <2>2
    <3> DEFINE f == [type |-> t, channel |-> n]
               g == [i \in 1..1 |-> f]
    <3>2. g = <<f>>
      OBVIOUS
    <3>3. [i \in DOMAIN names |-> [type |-> names[i], channel |-> n]] = g
      <4>1. \A i \in 1..1 : names[i] = t
        BY <3>1
      <4>2. QED
        BY <3>1, <4>1
    <3>4. QED
      BY <1>2, <2>2, <3>2, <3>3
  <2>3. QED
    BY <2>1, <2>2
<1>6. /\ answer \in {<<>>} \cup {<<[type |-> t, channel |-> n]>> : t \in {"OpenOk", "CloseOk", "QosOk", "FlowOk"}}
      /\ state \in {"closed", "open", "closing"}
      /\ broker[n] = "open" /\ state # "open" => answer = <<[type |-> "CloseOk", channel |-> n]>>
      /\ state = "closing" => broker[n] = "closing" /\ type # "CloseOk"
  <2>1. broker[n] \in {"closed", "open", "closing"}
    BY <1>1
  <2>2. QED
    BY <2>1 DEF Reaction, Served
<1>7. ASSUME state # "open"
      PROVE  answer # <<[type |-> "OpenOk", channel |-> n]>>
  <2>1. answer = <<>> \/ answer = <<[type |-> "CloseOk", channel |-> n]>>
    BY <1>7 DEF Reaction
  <2>2. [type |-> "CloseOk", channel |-> n] # [type |-> "OpenOk", channel |-> n]
    <3>1. [type |-> "CloseOk", channel |-> n].type # [type |-> "OpenOk", channel |-> n].type
      OBVIOUS
    <3>2. QED
      BY <3>1
  <2>3. \A f, g : f # g => <<f>> # <<g>> /\ <<g>> # <<>>
    OBVIOUS
  <2>4. QED
    BY <2>1, <2>2, <2>3
<1>8. QED
  BY <1>2, <1>3, <1>4, <1>5, <1>6, <1>7 DEF Taken

LEMMA BrokerReadsTakes ==
    ASSUME Kept, NEW n \in Numbers,
           BrokerOpens(n) \/ BrokerAnswersClose(n) \/ BrokerServes(n) \/ BrokerWaitsForCloseOk(n)
    PROVE  \E type, state, answer :
              Taken(type, n, state, answer) /\ Reaction(type, n, broker[n], state, answer)
<1> DEFINE b == broker[n]
           One(t) == <<[type |-> t, channel |-> n]>>
<1>1. ASSUME NEW type, NEW state, BrokerTakes(type, n, state, <<>>), Reaction(type, n, b, state, <<>>)
      PROVE  \E t, s, a : Taken(t, n, s, a) /\ Reaction(t, n, b, s, a)
  BY <1>1, TakesIsTaken
<1>2. ASSUME NEW type, NEW state, NEW t, BrokerTakes(type, n, state, <<t>>), Reaction(type, n, b, state, One(t))
      PROVE  \E u, s, a : Taken(u, n, s, a) /\ Reaction(u, n, b, s, a)
  BY <1>2, TakesIsTaken
<1>3. CASE BrokerOpens(n)
  <2>1. b = "closed" /\ BrokerTakes("Open", n, "open", <<"OpenOk">>)
    BY <1>3 DEF BrokerOpens
  <2>2. Reaction("Open", n, b, "open", One("OpenOk"))
    BY <2>1 DEF Reaction
  <2>3. QED
    BY <1>2, <2>1, <2>2
<1>4. CASE BrokerAnswersClose(n)
  <2>1. PICK state : /\ BrokerTakes("Close", n, state, <<"CloseOk">>)
                     /\ (b = "open" /\ state = "closed") \/ (b = "closing" /\ state = "closing")
    BY <1>4 DEF BrokerAnswersClose
  <2>2. Reaction("Close", n, b, state, One("CloseOk"))
    BY <2>1 DEF Reaction
  <2>3. QED
    BY <1>2, <2>1, <2>2
<1>5. CASE BrokerServes(n)
  <2>1. b = "open"
    BY <1>5 DEF BrokerServes
  <2>2. ASSUME NEW type \in {"Declare", "Bind"}, BrokerTakes(type, n, "open", <<>>)
        PROVE  \E u, s, a : Taken(u, n, s, a) /\ Reaction(u, n, b, s, a)
    <3>1. Reaction(type, n, b, "open", <<>>)
      BY <2>1 DEF Reaction, Served
    <3>2. QED
      BY <1>1, <2>2, <3>1
  <2>3. CASE BrokerTakes("Qos", n, "open", <<"QosOk">>)
    <3>1. Reaction("Qos", n, b, "open", One("QosOk"))
      BY <2>1 DEF Reaction, Served
    <3>2. QED
      BY <1>2, <2>3, <3>1
  <2>4. CASE BrokerTakes("Flow", n, "open", <<"FlowOk">>)
    <3>1. Reaction("Flow", n, b, "open", One("FlowOk"))
      BY <2>1 DEF Reaction, Served
    <3>2. QED
      BY <1>2, <2>4, <3>1
  <2>5. QED
    BY <1>5, <2>2, <2>3, <2>4 DEF BrokerServes
<1>6. CASE BrokerWaitsForCloseOk(n)
  <2>1. CASE BrokerTakes("CloseOk", n, IF b = "closing" THEN "closed" ELSE b, <<>>)
    <3> DEFINE s == IF b = "closing" THEN "closed" ELSE b
    <3>1. Reaction("CloseOk", n, b, s, <<>>)
      BY DEF Reaction
    <3>2. BrokerTakes("CloseOk", n, s, <<>>)
      BY <2>1
    <3> HIDE DEF s
    <3>3. QED
      BY <1>1, <3>1, <3>2
  <2>2. ASSUME b = "closing", NEW type \in {"Open", "Declare", "Bind", "Qos", "Flow"},
               BrokerTakes(type, n, "closing", <<>>)
        PROVE  \E u, s, a : Taken(u, n, s, a) /\ Reaction(u, n, b, s, a)
    <3>1. Reaction(type, n, b, "closing", <<>>)
      BY <2>2 DEF Reaction, Served
    <3>2. QED
      BY <1>1, <2>2, <3>1
  <2>3. QED
    BY <1>6, <2>1, <2>2 DEF BrokerWaitsForCloseOk
<1>7. QED
  BY <1>3, <1>4, <1>5, <1>6

LEMMA BrokerClosesKeeps ==
    ASSUME Kept, NEW n \in Numbers, BrokerCloses(n)
    PROVE  Kept'
<1>1. /\ TypeOK /\ Listed /\ BindingsCalled /\ NothingLeft /\ OpenOksInTime
      /\ OpenedIsOpen /\ UsedAreOwned /\ CloseIsAnswered /\ UnusedAbove /\ SomeOpens
  BY DEF Kept
<1> DEFINE f == [type |-> "Close", channel |-> n]
<1>2. /\ link = "up" /\ Call /\ broker[n] = "open"
      /\ broker' = [broker EXCEPT ![n] = "closing"]
      /\ in' = Append(in, f)
      /\ UNCHANGED <<link, object, order, next, out, limit, losses, happened>>
  BY DEF BrokerCloses
<1>3. /\ object \in [Objects -> Object] /\ in \in Seq(InFrames) /\ out \in Seq(OutFrames)
      /\ broker \in [Numbers -> {"closed", "open", "closing"}] /\ calls \in Nat
      /\ calls \in 0..MaxCalls /\ MaxCalls \in Nat
  BY <1>1, ChannelsAssumption DEF TypeOK
<1>4. /\ broker' \in [Numbers -> {"closed", "open", "closing"}]
      /\ broker'[n] = "closing" /\ \A m \in Numbers : m # n => broker'[m] = broker[m]
  BY <1>2, <1>3
<1>5. calls' = calls + 1 /\ calls' \in 0..MaxCalls
  BY <1>2, <1>3 DEF Call
<1>6. f \in InFrames /\ f.channel = n /\ f.type = "Close"
  BY FrameTypes
<1> HIDE DEF f
<1>7. in' = in \o <<f>>
  BY <1>2, <1>3, <1>6
<1>8. /\ in' \in Seq(InFrames)
      /\ \A m : Uses(in', m) => Uses(in, m) \/ m = n
      /\ \A m, t : Has(in, m, t) => Has(in', m, t)
      /\ Has(in', n, "Close")
      /\ \A m : Ended(in, m) => Ended(in', m)
      /\ Ended(in', n)
  <2>1. \A m : /\ Uses(<<f>>, m) <=> f.channel = m
               /\ \A u : Has(<<f>>, m, u) <=> f.channel = m /\ f.type = u
               /\ <<f>> \in Seq(InFrames)
    BY <1>6, OneSays
  <2>2. \A m : /\ in \o <<f>> \in Seq(InFrames)
               /\ Uses(in \o <<f>>, m) => Uses(in, m) \/ Uses(<<f>>, m)
               /\ \A u : Has(in \o <<f>>, m, u) <=> Has(in, m, u) \/ Has(<<f>>, m, u)
    BY <1>3, <2>1, ConcatSays
  <2>3. \A m : /\ f.channel # m \/ f.type # "OpenOk" => (Ended(in, m) => Ended(in \o <<f>>, m))
               /\ f.channel = m /\ f.type \in {"Close", "CloseOk"} => Ended(in \o <<f>>, m)
    BY <1>3, <1>6, ConcatEnds
  <2>4. QED
    BY <1>6, <1>7, <2>1, <2>2, <2>3
<1>9. \A m \in Numbers : Used(m)' => Used(m)
  BY <1>2, <1>4, <1>8 DEF Used
<1>10. \A m \in Numbers : Owned(m)' <=> Owned(m)
  BY <1>2 DEF Owned
<1>11. \A o \in Objects : Exists(o)' <=> Exists(o)
  BY <1>2 DEF Exists
<1>12. TypeOK'
  BY <1>1, <1>2, <1>4, <1>5, <1>8 DEF TypeOK
<1>13. Listed' /\ SomeOpens'
  BY <1>1, <1>2, <1>11 DEF Listed, SomeOpens
<1>14. BindingsCalled'
  <2> SUFFICES ASSUME NEW o \in Objects
               PROVE  object'[o].bindings <= calls'
    BY DEF BindingsCalled
  <2>1. object[o].bindings <= calls /\ object[o].bindings \in Int
    BY <1>1, <1>3 DEF BindingsCalled, Object
  <2>2. QED
    BY <1>2, <1>3, <1>5, <2>1
<1>15. NothingLeft'
  BY <1>2 DEF NothingLeft
<1>16. OpenOksInTime'
  BY <1>1, <1>4, <1>8 DEF OpenOksInTime
<1>17. OpenedIsOpen'
  <2>1. \A o \in Objects : object[o].opened =>
                \/ broker[object[o].number] = "open"
                \/ Has(in, object[o].number, "Close")
                \/ Has(in, object[o].number, "CloseOk")
    BY <1>1, <1>2, <1>3, OpenedSays
  <2>2. ASSUME NEW o \in Objects, object'[o].opened
        PROVE  \/ broker'[object'[o].number] = "open"
               \/ Has(in', object'[o].number, "Close")
               \/ Has(in', object'[o].number, "CloseOk")
    <3> DEFINE m == object[o].number
    <3>1. object'[o].number = m /\ object[o].opened /\ m \in Numbers
      <4>1. object[o] \in Object /\ object' = object /\ object[o].opened
        BY <1>2, <1>3, <2>2
      <4>2. ~Exists(o) => ~object[o].opened
        BY <1>1 DEF Listed, Absent
      <4>3. QED
        BY <4>1, <4>2, ObjectFields DEF Exists
    <3>2. CASE m = n
      BY <1>8, <3>1, <3>2
    <3>3. CASE m # n
      BY <1>4, <1>8, <2>1, <3>1, <3>3
    <3>4. QED
      BY <3>2, <3>3
  <2>3. QED
    BY <1>8, <2>2, OpenedSaysNext
<1>18. UsedAreOwned'
  BY <1>1, <1>2, <1>9, <1>10 DEF UsedAreOwned
<1>19. CloseIsAnswered'
  <2>1. "delete" \notin happened => \A m \in Numbers : broker[m] = "closing" =>
                Has(in, m, "Close") \/ Has(out, m, "CloseOk")
    BY <1>1, <1>3, AnsweredSays
  <2>2. ASSUME "delete" \notin happened', NEW m \in Numbers, broker'[m] = "closing"
        PROVE  Has(in', m, "Close") \/ Has(out', m, "CloseOk")
    <3>1. CASE m = n
      BY <1>8, <3>1
    <3>2. CASE m # n
      BY <1>2, <1>4, <1>8, <2>1, <2>2, <3>2
    <3>3. QED
      BY <3>1, <3>2
  <2>3. out' \in Seq(OutFrames)
    BY <1>2, <1>3
  <2>4. QED
    BY <1>8, <2>2, <2>3, AnsweredSaysNext
<1>20. UnusedAbove'
  BY <1>1, <1>2, <1>9, <1>10 DEF UnusedAbove
<1>21. QED
  BY <1>12, <1>13, <1>14, <1>15, <1>16, <1>17, <1>18, <1>19, <1>20 DEF Kept

-----------------------------------------------------------------------------
(* The first theorems.                                                     *)

LEMMA InitKept == Init => Kept
<1> SUFFICES ASSUME Init
             PROVE  Kept
  OBVIOUS
<1>1. /\ link = "down" /\ object = [o \in Objects |-> Absent] /\ order = <<>> /\ next = 0
      /\ out = <<>> /\ in = <<>> /\ broker = AllClosed /\ limit = NoLimits
      /\ happened = {} /\ calls = 0 /\ losses = 0
  BY DEF Init
<1>2. Absent.number = 0 /\ ~Absent.opened /\ Absent.bindings = 0 /\ Absent \in Object
  BY AbsentObject DEF Absent
<1>3. \A n \in Numbers : broker[n] = "closed" /\ n # 0
  BY <1>1 DEF AllClosed, Numbers
<1>4. \A o \in Objects : object[o] = Absent /\ ~Exists(o)
  BY <1>1, <1>2 DEF Exists
<1>5. TypeOK
  <2>1. broker \in [Numbers -> {"closed", "open", "closing"}] /\ limit \in [Numbers -> Prefetches \cup {0}]
    BY <1>1 DEF AllClosed, NoLimits
  <2>2. <<>> \in Seq(OutFrames) /\ <<>> \in Seq(InFrames) /\ <<>> \in Seq(Objects)
    OBVIOUS
  <2>3. 0 \in 0..MaxNumber /\ 0 \in 0..MaxCalls /\ 0 \in 0..MaxLosses
    BY ChannelsAssumption
  <2>4. object \in [Objects -> Object]
    BY <1>1, <1>2
  <2>5. QED
    BY <1>1, <2>1, <2>2, <2>3, <2>4 DEF TypeOK
<1>6. Listed /\ BindingsCalled /\ NothingLeft
  BY <1>1, <1>2, <1>4 DEF Listed, BindingsCalled, NothingLeft
<1>7. OpenOksInTime
  BY <1>1, NoneSays DEF OpenOksInTime
<1>8. OpenedIsOpen /\ CloseIsAnswered
  BY <1>1, <1>3 DEF OpenedIsOpen, CloseIsAnswered
<1>9. \A n \in Numbers : ~Used(n) /\ ~Owned(n)
  BY <1>1, <1>2, <1>3, <1>4, NoneSays DEF Used, Owned
<1>10. UsedAreOwned /\ UnusedAbove /\ SomeOpens
  BY <1>4, <1>9 DEF UsedAreOwned, UnusedAbove, SomeOpens
<1>11. QED
  BY <1>5, <1>6, <1>7, <1>8, <1>10 DEF Kept

LEMMA UnchangedKeeps ==
    ASSUME Kept, UNCHANGED vars
    PROVE  Kept'
<1>1. UNCHANGED <<link, object, order, next, out, in, broker, limit, happened, calls, losses>>
  BY DEF vars
<1>2. /\ TypeOK /\ Listed /\ BindingsCalled /\ NothingLeft /\ OpenOksInTime
      /\ OpenedIsOpen /\ UsedAreOwned /\ CloseIsAnswered /\ UnusedAbove /\ SomeOpens
  BY DEF Kept
<1>3. TypeOK' /\ BindingsCalled' /\ NothingLeft' /\ OpenOksInTime'
  BY <1>1, <1>2 DEF TypeOK, BindingsCalled, NothingLeft, OpenOksInTime, AllClosed
<1>4. Listed' /\ SomeOpens'
  BY <1>1, <1>2 DEF Listed, SomeOpens, Exists
<1>5. OpenedIsOpen' /\ CloseIsAnswered'
  BY <1>1, <1>2 DEF OpenedIsOpen, CloseIsAnswered
<1>6. UsedAreOwned' /\ UnusedAbove'
  BY <1>1, <1>2 DEF UsedAreOwned, UnusedAbove, Used, Owned
<1>7. QED
  BY <1>3, <1>4, <1>5, <1>6 DEF Kept

LEMMA NextKeeps ==
    ASSUME Kept, Next
    PROVE  Kept'
<1>1. CASE User
  <2>1. CASE Create
    BY <2>1, CreateKeeps
  <2>2. ASSUME NEW o \in Objects, Delete(o)
        PROVE  Kept'
    BY <2>2, DeleteKeeps
  <2>3. ASSUME NEW o \in Objects,
               Close(o) \/ Reopen(o) \/ Reset(o) \/ Declare(o) \/ Qos(o) \/ Resume(o)
        PROVE  Kept'
    BY <2>3, CallsAsk, AskedKeeps
  <2>4. ASSUME NEW q \in Queues, Bind(q)
        PROVE  Kept'
    <3>1. q \in Objects
      BY DEF Objects
    <3>2. QED
      BY <2>4, <3>1, CallsAsk, AskedKeeps
  <2>5. QED
    BY <1>1, <2>1, <2>2, <2>3, <2>4 DEF User
<1>2. CASE Link
  BY <1>2, LinkUpKeeps, LinkStepsEnd, LinkEndsKeeps DEF Link
<1>3. CASE Reading
  <2>1. PICK n \in Numbers : \/ ReceiveOpenOk(n) \/ ReceiveClose(n) \/ ReceiveCloseOk(n)
                             \/ ReceiveQosOk(n) \/ ReceiveFlowOk(n)
    BY <1>3 DEF Reading
  <2>2. \E type : Heard(type, n)
    BY <2>1, ReceivedIsHeard
  <2>3. QED
    BY <2>2, HeardKeeps
<1>4. CASE BrokerReads
  <2>1. CASE BrokerRefuses
    <3>1. LinkLost
      BY <2>1 DEF BrokerRefuses
    <3>2. QED
      BY <3>1, LinkStepsEnd, LinkEndsKeeps
  <2>2. ASSUME NEW n \in Numbers,
               \/ BrokerOpens(n) \/ BrokerAnswersClose(n) \/ BrokerServes(n)
               \/ BrokerWaitsForCloseOk(n)
        PROVE  Kept'
    <3>1. PICK type, state, answer : Taken(type, n, state, answer)
      BY <2>2, BrokerReadsTakes
    <3>2. QED
      BY <3>1, TakenKeeps
  <2>3. QED
    BY <1>4, <2>1, <2>2 DEF BrokerReads
<1>5. CASE \E n \in Numbers : BrokerCloses(n)
  BY <1>5, BrokerClosesKeeps
<1>6. QED
  BY <1>1, <1>2, <1>3, <1>4, <1>5 DEF Next

\* The invariant that the theorems about opening and closing rest on.
THEOREM KeptHolds == Spec => []Kept
<1>1. Kept /\ [Next]_vars => Kept'
  BY NextKeeps, UnchangedKeeps
<1>2. QED
  BY InitKept, <1>1, PTL DEF Spec

\* The variables have their types: a channel has at most as many bindings
\* kept for it as calls were made.
THEOREM TypeCorrect == Spec => []TypeOK
<1>1. Kept => TypeOK
  BY DEF Kept
<1>2. QED
  BY KeptHolds, <1>1, PTL

\* A channel the client takes for open is open at the broker, or the end of it
\* is on its way: whatever is deleted, shared, reset or reopened.
THEOREM OpenedIsOpenHolds == Spec => []OpenedIsOpen
<1>1. Kept => OpenedIsOpen
  BY DEF Kept
<1>2. QED
  BY KeptHolds, <1>1, PTL

\* While no object is deleted, a close of the broker is on its way or the
\* closeOk for it is: however many objects share the channel.
THEOREM CloseIsAnsweredHolds == Spec => []CloseIsAnswered
<1>1. Kept => CloseIsAnswered
  BY DEF Kept
<1>2. QED
  BY KeptHolds, <1>1, PTL

\* When the connection is made every object there is has its channel opened,
\* by itself or by one that shares it.
THEOREM OpensWithLinkHolds == Spec => OpensWithLink
<1> DEFINE Opens == link = "down" /\ link' = "up" /\ happened \cap {"gap", "delete"} = {} =>
                      \A o \in Objects : Exists(o) => OpenPending(object[o].number)'
<1>1. Kept /\ [Next]_vars => [Opens]_vars
  <2> SUFFICES ASSUME Kept, Next, link = "down", link' = "up",
                      happened \cap {"gap", "delete"} = {}, NEW o \in Objects, Exists(o)
               PROVE  OpenPending(object[o].number)'
    OBVIOUS
  <2>1. LinkUp
    <3>1. ~(link = "down" /\ link' = "up") \/ LinkUp
      <4>1. CASE User
        BY <4>1 DEF User, Create, Delete, Close, Reopen, Reset, Declare, Qos, Resume, Bind
      <4>2. CASE Link
        BY <4>2 DEF Link, LinkLost, SocketClosed, LinkCloses
      <4>3. CASE Reading
        BY <4>3 DEF Reading, ReceiveOpenOk, ReceiveClose, ReceiveCloseOk, ReceiveQosOk,
                    ReceiveFlowOk, Receive
      <4>4. CASE BrokerReads
        BY <4>4 DEF BrokerReads, BrokerRefuses, BrokerOpens, BrokerAnswersClose, BrokerServes,
                    BrokerWaitsForCloseOk, BrokerTakes
      <4>5. CASE \E n \in Numbers : BrokerCloses(n)
        BY <4>5 DEF BrokerCloses
      <4>6. QED
        BY <4>1, <4>2, <4>3, <4>4, <4>5 DEF Next
    <3>2. QED
      BY <3>1
  <2>2. PICK p \in Objects : object[p].number = object[o].number /\ object[p].needOpen
    BY DEF Kept, SomeOpens
  <2>3. Exists(p)
    BY <2>2 DEF Exists
  <2>4. Has(out', object[o].number, "Open") /\ out' \in Seq(OutFrames) /\ object' = object
    BY <2>1, <2>2, <2>3, LinkUpSends DEF LinkUp
  <2> DEFINE n == object[o].number
  <2> HIDE DEF n
  <2>5. Contains(out', [type |-> "Open", channel |-> n])
    BY <2>4, ContainsOut DEF n
  <2>6. QED
    BY <2>4, <2>5 DEF OpenPending, n
<1>2. QED
  BY KeptHolds, <1>1, PTL DEF Spec, OpensWithLink

-----------------------------------------------------------------------------
(* The handshakes of a channel, told from the frames on their way.         *)

Control == {"Open", "OpenOk", "Close", "CloseOk"}

\* What was on its way before a step and after it, for one channel: the same
\* but for frames that are served, a frame more, or the first one less.
View(s, r, n) ==
    /\ \A t \in Control : Has(r, n, t) <=> Has(s, n, t)
    /\ \A t, u \in Control : Later(r, n, t, u) => Later(s, n, t, u)

Same(s, r, n) ==
    /\ View(s, r, n)
    /\ Led(s, n) => Led(r, n)
    /\ Parted(s, n) => Parted(r, n)

Adds(s, r, n, t) ==
    /\ t \in Control
    /\ \A u \in Control : Has(r, n, u) <=> Has(s, n, u) \/ u = t
    /\ \A u, v \in Control : Later(r, n, u, v) => Later(s, n, u, v) \/ (Has(s, n, u) /\ v = t)
    /\ Led(s, n) => Led(r, n)
    /\ Parted(s, n) => Parted(r, n)

Drops(s, r, n, t) ==
    /\ t \in Control
    /\ \A u \in Control : Has(s, n, u) <=> Has(r, n, u) \/ u = t
    /\ \A u, v \in Control : Later(r, n, u, v) => Later(s, n, u, v)
    /\ \A u \in Control : Has(r, n, u) => Later(s, n, t, u)
    /\ Led(s, n) /\ t # "Open" => Led(r, n)
    /\ Parted(s, n) => Parted(r, n)
    /\ Parted(s, n) /\ t \in {"Close", "CloseOk"} => Led(r, n)

Serving(s, r, n) ==
    /\ View(s, r, n)
    /\ Led(s, n) /\ Has(s, n, "Open") => Led(r, n)
    /\ Parted(s, n) /\ ~Has(s, n, "Close") /\ ~Has(s, n, "CloseOk") => Parted(r, n)
    /\ (/\ Parted(s, n) /\ Has(s, n, "Open")
        /\ ~Later(s, n, "Open", "Close") /\ ~Later(s, n, "Open", "CloseOk")) => Parted(r, n)

LEMMA LaterHas ==
    ASSUME NEW s, NEW n, NEW t, NEW u, Later(s, n, t, u)
    PROVE  Has(s, n, t) /\ Has(s, n, u)
  BY DEF Later, Has

LEMMA SameSelf ==
    ASSUME NEW s, NEW n
    PROVE  Same(s, s, n)
  BY DEF Same, View

LEMMA SameTail ==
    ASSUME NEW F, NEW s \in Seq(F), s # <<>>, NEW n, \A t \in Control : ~Is(s, 1, n, t)
    PROVE  Same(s, Tail(s), n)
<1> DEFINE r == Tail(s)
<1>1. /\ \A t : Has(r, n, t) => Has(s, n, t)
      /\ \A t : Has(s, n, t) => Is(s, 1, n, t) \/ Has(r, n, t)
      /\ \A t, u : Later(r, n, t, u) => Later(s, n, t, u)
  BY TailSays
<1>2. /\ Parted(s, n) => Parted(r, n)
      /\ Led(s, n) /\ ~Is(s, 1, n, "Open") => Led(r, n)
  BY TailServes
<1> HIDE DEF r
<1>3. Same(s, r, n)
  BY <1>1, <1>2 DEF Same, View, Control
<1>4. QED
  BY <1>3 DEF r

LEMMA DropsTail ==
    ASSUME NEW F, NEW s \in Seq(F), s # <<>>, NEW n, NEW t \in Control, Is(s, 1, n, t)
    PROVE  Drops(s, Tail(s), n, t)
<1> DEFINE r == Tail(s)
<1>1. \A u : Is(s, 1, n, u) <=> u = t
  BY DEF Is
<1>2. /\ \A u : Is(s, 1, n, u) => Has(s, n, u)
      /\ \A u : Has(r, n, u) => Has(s, n, u)
      /\ \A u : Has(s, n, u) => Is(s, 1, n, u) \/ Has(r, n, u)
      /\ \A u, v : Later(r, n, u, v) => Later(s, n, u, v)
      /\ \A u, v : Is(s, 1, n, u) /\ Has(r, n, v) => Later(s, n, u, v)
  BY TailSays
<1>3. /\ Parted(s, n) => Parted(r, n)
      /\ Parted(s, n) /\ (Is(s, 1, n, "Close") \/ Is(s, 1, n, "CloseOk")) => Led(r, n)
      /\ Led(s, n) /\ ~Is(s, 1, n, "Open") => Led(r, n)
  BY TailServes
<1> HIDE DEF r
<1>4. Drops(s, r, n, t)
  BY <1>1, <1>2, <1>3 DEF Drops
<1>5. QED
  BY <1>4 DEF r

LEMMA SameConcat ==
    ASSUME NEW F, NEW s \in Seq(F), NEW fs \in Seq(F), NEW n,
           \A t : ~Has(fs, n, t)
    PROVE  Same(s, s \o fs, n)
<1> DEFINE r == s \o fs
<1>1. /\ \A t : Has(r, n, t) <=> Has(s, n, t) \/ Has(fs, n, t)
      /\ \A t, u : Later(r, n, t, u)
            <=> Later(s, n, t, u) \/ Later(fs, n, t, u) \/ (Has(s, n, t) /\ Has(fs, n, u))
  BY ConcatSays
<1>2. \A t, u : ~Later(fs, n, t, u)
  BY DEF Later, Has
<1>3. ~Serves(fs, n)
  BY DEF Serves, IsServed, Has, Is
<1>4. /\ Led(s, n) /\ (~Serves(fs, n) \/ Has(s, n, "Open")) => Led(r, n)
      /\ Parted(s, n) /\ ~Serves(fs, n) => Parted(r, n)
  BY ConcatServes
<1> HIDE DEF r
<1>5. Same(s, r, n)
  BY <1>1, <1>2, <1>3, <1>4 DEF Same, View
<1>6. QED
  BY <1>5 DEF r

LEMMA AddsConcat ==
    ASSUME NEW F, NEW s \in Seq(F), NEW fs \in Seq(F), NEW n, NEW t \in Control,
           \A u : Has(fs, n, u) <=> u = t,
           \A u, v : ~Later(fs, n, u, v)
    PROVE  Adds(s, s \o fs, n, t)
<1> DEFINE r == s \o fs
<1>1. /\ \A u : Has(r, n, u) <=> Has(s, n, u) \/ Has(fs, n, u)
      /\ \A u, v : Later(r, n, u, v)
            <=> Later(s, n, u, v) \/ Later(fs, n, u, v) \/ (Has(s, n, u) /\ Has(fs, n, v))
  BY ConcatSays
<1>2. ~Serves(fs, n)
  <2>1. ASSUME NEW i \in DOMAIN fs, IsServed(fs, i, n)
        PROVE  FALSE
    <3>1. Has(fs, n, fs[i].type) /\ fs[i].type \in Served
      BY <2>1 DEF IsServed, Has, Is
    <3>2. QED
      BY <3>1 DEF Served, Control
  <2>2. QED
    BY <2>1 DEF Serves
<1>3. /\ Led(s, n) /\ (~Serves(fs, n) \/ Has(s, n, "Open")) => Led(r, n)
      /\ Parted(s, n) /\ ~Serves(fs, n) => Parted(r, n)
  BY ConcatServes
<1> HIDE DEF r
<1>4. Adds(s, r, n, t)
  BY <1>1, <1>2, <1>3 DEF Adds
<1>5. QED
  BY <1>4 DEF r

LEMMA AddsOne ==
    ASSUME NEW F, NEW s \in Seq(F), NEW f \in F, f.type \in Control
    PROVE  /\ Adds(s, s \o <<f>>, f.channel, f.type)
           /\ \A n : n # f.channel => Same(s, s \o <<f>>, n)
<1>1. \A n : /\ <<f>> \in Seq(F)
             /\ \A t : Has(<<f>>, n, t) <=> f.channel = n /\ f.type = t
             /\ \A t, u : ~Later(<<f>>, n, t, u)
  BY OneSays
<1>2. Adds(s, s \o <<f>>, f.channel, f.type)
  <2>1. /\ \A u : Has(<<f>>, f.channel, u) <=> u = f.type
        /\ \A u, v : ~Later(<<f>>, f.channel, u, v)
        /\ <<f>> \in Seq(F)
    BY <1>1
  <2>2. QED
    BY <2>1, AddsConcat
<1>3. ASSUME NEW n, n # f.channel
      PROVE  Same(s, s \o <<f>>, n)
  <2>1. \A t : ~Has(<<f>>, n, t)
    BY <1>1, <1>3
  <2>2. <<f>> \in Seq(F)
    BY <1>1
  <2>3. QED
    BY <2>1, <2>2, SameConcat
<1>4. QED
  BY <1>2, <1>3

LEMMA ServingConcat ==
    ASSUME NEW F, NEW s \in Seq(F), NEW fs \in Seq(F), NEW n,
           \A i \in DOMAIN fs : fs[i].type \in Served
    PROVE  Serving(s, s \o fs, n)
<1> DEFINE r == s \o fs
<1>1. /\ \A u : Has(r, n, u) <=> Has(s, n, u) \/ Has(fs, n, u)
      /\ \A u, v : Later(r, n, u, v)
            <=> Later(s, n, u, v) \/ Later(fs, n, u, v) \/ (Has(s, n, u) /\ Has(fs, n, v))
  BY ConcatSays
<1>2. \A t \in Control : ~Has(fs, n, t)
  BY DEF Has, Is, Served, Control
<1>3. \A t, u \in Control : ~Later(fs, n, t, u)
  BY DEF Later, Is, Served, Control
<1>4. /\ Led(s, n) /\ (~Serves(fs, n) \/ Has(s, n, "Open")) => Led(r, n)
      /\ Parted(s, n) /\ ~Has(r, n, "Close") /\ ~Has(r, n, "CloseOk") => Parted(r, n)
      /\ (/\ Parted(s, n) /\ ~Has(fs, n, "Close") /\ ~Has(fs, n, "CloseOk")
          /\ Has(s, n, "Open") /\ ~Later(s, n, "Open", "Close")
          /\ ~Later(s, n, "Open", "CloseOk"))
            => Parted(r, n)
  BY ConcatServes
<1> HIDE DEF r
<1>5. Serving(s, r, n)
  BY <1>1, <1>2, <1>3, <1>4 DEF Serving, View, Control
<1>6. QED
  BY <1>5 DEF r

\* Once each and in order: a channel is not opened, closed or answered for
\* twice, and what answers the other side comes after what it answers.
InSequence(o, i, n) ==
    /\ ~Later(o, n, "Open", "Open") /\ ~Later(o, n, "Close", "Close")
    /\ ~Later(o, n, "CloseOk", "CloseOk")
    /\ ~Later(o, n, "Open", "Close") /\ ~Later(o, n, "Open", "CloseOk")
    /\ ~Later(o, n, "CloseOk", "Close")
    /\ Parted(o, n)
    /\ ~Later(i, n, "OpenOk", "OpenOk") /\ ~Later(i, n, "Close", "Close")
    /\ ~Later(i, n, "CloseOk", "CloseOk")
    /\ ~Later(i, n, "OpenOk", "CloseOk") /\ ~Later(i, n, "Close", "OpenOk")
    /\ Has(i, n, "OpenOk") \/ ~Later(i, n, "CloseOk", "Close")
    /\ ~(Has(o, n, "Open") /\ Has(i, n, "OpenOk"))
    /\ ~(Has(o, n, "Close") /\ Has(i, n, "CloseOk"))
    /\ ~(Has(o, n, "Close") /\ Has(i, n, "OpenOk"))

\* What the broker's end of a channel says of the frames on their way.
Protocol(o, i, n, b) ==
    /\ InSequence(o, i, n)
    /\ b = "closed" =>
          /\ ~Has(o, n, "Close") /\ ~Has(o, n, "CloseOk") /\ Led(o, n)
          /\ ~Has(i, n, "OpenOk") /\ ~Has(i, n, "Close")
    /\ b = "open" =>
          /\ ~Has(o, n, "Open") /\ ~Has(o, n, "CloseOk") /\ ~Has(i, n, "Close")
          /\ Has(i, n, "CloseOk") => Has(i, n, "OpenOk")
    /\ b = "closing" =>
          /\ Has(o, n, "Open") => Has(o, n, "CloseOk")
          /\ Has(o, n, "CloseOk") => ~Has(i, n, "Close") /\ ~Has(i, n, "OpenOk")
          /\ Has(i, n, "OpenOk") => Has(i, n, "Close")

\* And what the client's end does.
Agrees(o, i, n, b, opened) ==
    IF opened
    THEN /\ ~Has(i, n, "OpenOk") /\ ~Has(o, n, "Open") /\ ~Has(o, n, "CloseOk")
         /\ b = "closed" => Has(i, n, "CloseOk")
         /\ b = "closing" => Has(i, n, "Close")
    ELSE /\ b = "open" => Has(i, n, "OpenOk")
         /\ b = "closing" => Has(o, n, "CloseOk") \/ (Has(i, n, "OpenOk") /\ Has(i, n, "Close"))
         /\ Has(o, n, "Close") => Has(o, n, "CloseOk")

LEMMA SameKeeps ==
    ASSUME NEW o, NEW r, NEW i, NEW j, NEW n, NEW b, Same(o, r, n), Same(i, j, n)
    PROVE  /\ Protocol(o, i, n, b) => Protocol(r, j, n, b)
           /\ \A x : Agrees(o, i, n, b, x) => Agrees(r, j, n, b, x)
  BY DEF Same, View, Protocol, InSequence, Agrees, Control

\* A step of the broker keeps to that, whatever the client's end is.
KeepsTo(o, i, b, r, j, d, n) ==
    /\ Protocol(r, j, n, d)
    /\ \A x : Agrees(o, i, n, b, x) => Agrees(r, j, n, d, x)

\* The broker reads an open.
LEMMA OpensInProtocol ==
    ASSUME NEW o, NEW r, NEW i, NEW j, NEW n, Protocol(o, i, n, "closed"),
           Drops(o, r, n, "Open"), Adds(i, j, n, "OpenOk")
    PROVE  KeepsTo(o, i, "closed", r, j, "open", n)
  BY DEF KeepsTo, Drops, Adds, Protocol, InSequence, Agrees, Control

\* It reads a close, of a channel that is open or that it is closing itself.
LEMMA AnswersInProtocol ==
    ASSUME NEW o, NEW r, NEW i, NEW j, NEW n, NEW b, NEW d,
           (b = "open" /\ d = "closed") \/ (b = "closing" /\ d = "closing"),
           Protocol(o, i, n, b), Drops(o, r, n, "Close"), Adds(i, j, n, "CloseOk")
    PROVE  KeepsTo(o, i, b, r, j, d, n)
  BY DEF KeepsTo, Drops, Adds, Protocol, InSequence, Agrees, Control

\* It reads the closeOk it waits for: it is not sent another.
LEMMA ClosedInProtocol ==
    ASSUME NEW o, NEW r, NEW i, NEW n, NEW b \in {"closed", "open", "closing"},
           Protocol(o, i, n, b), Drops(o, r, n, "CloseOk")
    PROVE  /\ b = "closing"
           /\ KeepsTo(o, i, b, r, i, "closed", n)
  BY DEF KeepsTo, Drops, Protocol, InSequence, Agrees, Control

\* An open does not reach a broker that waits for closeOk.
LEMMA OpenIsAfterCloseOk ==
    ASSUME NEW o, NEW r, NEW i, NEW n, Protocol(o, i, n, "closing"), Drops(o, r, n, "Open")
    PROVE  FALSE
  BY DEF KeepsTo, Drops, Protocol, InSequence, Control

\* The broker closes the channel.
LEMMA ClosesInProtocol ==
    ASSUME NEW o, NEW i, NEW j, NEW n, Protocol(o, i, n, "open"), Adds(i, j, n, "Close")
    PROVE  KeepsTo(o, i, "open", o, j, "closing", n)
  BY DEF KeepsTo, Adds, Protocol, InSequence, Agrees, Control

\* The client reads an openOk and sends what it has kept.
LEMMA OpenedInProtocol ==
    ASSUME NEW o, NEW r, NEW i, NEW j, NEW n, NEW b \in {"closed", "open", "closing"},
           Protocol(o, i, n, b), Serving(o, r, n), Drops(i, j, n, "OpenOk")
    PROVE  Protocol(r, j, n, b)
<1>1. /\ b # "closed" /\ ~Has(o, n, "Close") /\ ~Has(o, n, "CloseOk") /\ ~Has(o, n, "Open")
      /\ ~Has(j, n, "OpenOk") /\ ~Has(j, n, "CloseOk")
      /\ b = "closing" => Has(j, n, "Close")
      /\ b = "open" => ~Has(j, n, "Close")
  BY DEF Drops, Protocol, InSequence, Control
<1>2. Parted(r, n)
  BY <1>1 DEF Serving, Protocol, InSequence
<1>3. InSequence(r, j, n)
  <2>1. View(o, r, n) /\ InSequence(o, i, n)
    BY DEF Serving, Protocol
  <2>2. /\ ~Later(r, n, "Open", "Open") /\ ~Later(r, n, "Close", "Close")
        /\ ~Later(r, n, "CloseOk", "CloseOk")
        /\ ~Later(r, n, "Open", "Close") /\ ~Later(r, n, "Open", "CloseOk")
        /\ ~Later(r, n, "CloseOk", "Close")
    BY <2>1 DEF View, InSequence, Control
  <2>3. /\ ~Later(j, n, "OpenOk", "OpenOk") /\ ~Later(j, n, "Close", "Close")
        /\ ~Later(j, n, "CloseOk", "CloseOk")
        /\ ~Later(j, n, "OpenOk", "CloseOk") /\ ~Later(j, n, "Close", "OpenOk")
        /\ ~Later(j, n, "CloseOk", "Close")
    BY <1>1, <2>1, LaterHas DEF Drops, InSequence, Control
  <2>4. ~Has(r, n, "Close") /\ ~Has(r, n, "Open")
    BY <1>1, <2>1 DEF View, Control
  <2>5. QED
    BY <1>1, <1>2, <2>2, <2>3, <2>4 DEF InSequence
<1>4. QED
  BY <1>1, <1>3 DEF Serving, View, Protocol, Control

LEMMA OpenedAgrees ==
    ASSUME NEW o, NEW r, NEW i, NEW j, NEW n, NEW b \in {"closed", "open", "closing"},
           Protocol(o, i, n, b), Serving(o, r, n), Drops(i, j, n, "OpenOk"),
           NEW opened, opened = TRUE
    PROVE  Agrees(r, j, n, b, opened)
<1>1. /\ b # "closed" /\ ~Has(o, n, "Close") /\ ~Has(o, n, "CloseOk") /\ ~Has(o, n, "Open")
      /\ ~Has(j, n, "OpenOk") /\ (b = "closing" => Has(j, n, "Close"))
  BY DEF Drops, Protocol, InSequence, Control
<1>2. QED
  BY <1>1 DEF Serving, View, Agrees, Control

\* It reads a close, and answers it while there is an object for the channel.
LEMMA CloseInProtocol ==
    ASSUME NEW o, NEW r, NEW i, NEW j, NEW n, NEW b \in {"closed", "open", "closing"},
           Protocol(o, i, n, b), Drops(i, j, n, "Close"),
           Same(o, r, n) \/ Adds(o, r, n, "CloseOk")
    PROVE  Protocol(r, j, n, b)
<1>1. Same(o, r, n) => Protocol(r, j, n, b)
  BY DEF Drops, Same, View, Protocol, InSequence, Control
<1>2. Adds(o, r, n, "CloseOk") => Protocol(r, j, n, b)
  BY DEF Drops, Adds, Protocol, InSequence, Control
<1>3. QED
  BY <1>1, <1>2

LEMMA CloseAgrees ==
    ASSUME NEW o, NEW r, NEW i, NEW j, NEW n, NEW b \in {"closed", "open", "closing"},
           Protocol(o, i, n, b), Drops(i, j, n, "Close"), Adds(o, r, n, "CloseOk"),
           NEW opened, opened = FALSE
    PROVE  Agrees(r, j, n, b, opened)
  BY DEF Drops, Adds, Protocol, InSequence, Agrees, Control

\* It reads the answer to its own close.
LEMMA CloseOkInProtocol ==
    ASSUME NEW o, NEW i, NEW j, NEW n, NEW b \in {"closed", "open", "closing"},
           Protocol(o, i, n, b), Drops(i, j, n, "CloseOk")
    PROVE  Protocol(o, j, n, b)
  BY DEF Drops, Protocol, InSequence, Control

\* The user closes an open channel no close of which is on its way.
LEMMA CloseSentInProtocol ==
    ASSUME NEW o, NEW r, NEW i, NEW n, NEW b \in {"closed", "open", "closing"},
           Protocol(o, i, n, b), Agrees(o, i, n, b, TRUE),
           ~Has(o, n, "Close"), ~Has(i, n, "CloseOk"), Adds(o, r, n, "Close")
    PROVE  Protocol(r, i, n, b) /\ Agrees(r, i, n, b, TRUE)
  BY DEF Adds, Protocol, InSequence, Agrees, Control

\* Or opens one that is not open and is not being opened.
LEMMA OpenSentInProtocol ==
    ASSUME NEW o, NEW r, NEW i, NEW n, NEW b \in {"closed", "open", "closing"},
           Protocol(o, i, n, b), Agrees(o, i, n, b, FALSE),
           ~Has(o, n, "Open"), ~Has(i, n, "OpenOk"), Adds(o, r, n, "Open")
    PROVE  Protocol(r, i, n, b) /\ Agrees(r, i, n, b, FALSE)
  BY DEF Adds, Protocol, InSequence, Agrees, Control

\* Or has something served, on a channel that is open or is being opened.
LEMMA ServedInProtocol ==
    ASSUME NEW o, NEW r, NEW i, NEW n, NEW b \in {"closed", "open", "closing"}, NEW x \in BOOLEAN,
           Protocol(o, i, n, b), Agrees(o, i, n, b, x), Serving(o, r, n),
           \/ x /\ ~Has(o, n, "Close") /\ ~Has(i, n, "CloseOk")
           \/ ~x /\ (Has(o, n, "Open") \/ Has(i, n, "OpenOk"))
    PROVE  Protocol(r, i, n, b) /\ Agrees(r, i, n, b, x)
  BY DEF Serving, View, Protocol, InSequence, Agrees, Control

\* Nothing is on its way that concerns the channel.
LEMMA UnusedInProtocol ==
    ASSUME NEW o, NEW i, NEW n, ~Uses(o, n), ~Uses(i, n)
    PROVE  Protocol(o, i, n, "closed") /\ Agrees(o, i, n, "closed", FALSE)
  BY DEF Uses, Protocol, InSequence, Agrees, Has, Later, Led, Parted, Is, IsServed

\* What is read first is not refused.
LEMMA InProtocolIsAccepted ==
    ASSUME NEW F, NEW s \in Seq(F), s # <<>>, NEW i, NEW n, NEW b, Protocol(s, i, n, b)
    PROVE  /\ Is(s, 1, n, "Open") => b # "open"
           /\ Is(s, 1, n, "Close") => b # "closed"
           /\ IsServed(s, 1, n) => b # "closed"
<1>1. \A t : Is(s, 1, n, t) => Has(s, n, t)
  BY TailSays
<1>2. Led(s, n) => ~IsServed(s, 1, n)
  BY TailServes
<1>3. QED
  BY <1>1, <1>2 DEF Protocol

-----------------------------------------------------------------------------
(* The part of the invariant that holds while no event comes in between.   *)

Calm ==
    \/ happened \subseteq {"gap", "outlived", "dropped"}
    \/ happened \subseteq {"delete", "outlived", "dropped"}

\* Each object has a channel of its own.
Distinct ==
    Calm => \A o, p \in Objects : Exists(o) /\ object[o].number = object[p].number => o = p

InProtocol ==
    Calm /\ link = "up" =>
        /\ \A n \in Numbers : Protocol(out, in, n, broker[n])
        /\ \A o \in Objects : Exists(o) =>
              Agrees(out, in, object[o].number, broker[object[o].number], object[o].opened)

Accepted == Kept /\ Distinct /\ InProtocol

LEMMA StaysCalm ==
    ASSUME happened \subseteq happened', Calm'
    PROVE  /\ Calm
           /\ \A e \in {"shared", "late", "early", "reset", "again", "unopened", "slot"} :
                 e \notin happened'
           /\ "gap" \notin happened' \/ "delete" \notin happened'
  BY DEF Calm

LEMMA PendingSays ==
    ASSUME Kept
    PROVE  /\ \A n : ClosePending(n) <=> Has(out, n, "Close") \/ Has(in, n, "CloseOk")
           /\ \A n : OpenPending(n) <=> Has(out, n, "Open") \/ Has(in, n, "OpenOk")
<1>1. in \in Seq(InFrames) /\ out \in Seq(OutFrames)
  BY DEF Kept, TypeOK
<1>2. \A n, t : Contains(in, [type |-> t, channel |-> n]) <=> Has(in, n, t)
  BY <1>1, ContainsIn
<1>3. \A n, t : t # "Qos" => (Contains(out, [type |-> t, channel |-> n]) <=> Has(out, n, t))
  BY <1>1, ContainsOut
<1>4. QED
  BY <1>2, <1>3 DEF ClosePending, OpenPending

\* A step that concerns one channel.
LEMMA StepInProtocol ==
    ASSUME Kept, InProtocol, Calm, link = "up", NEW n \in Numbers,
           \A m \in Numbers : m # n =>
              Same(out, out', m) /\ Same(in, in', m) /\ broker'[m] = broker[m],
           Protocol(out', in', n, broker'[n]),
           \A o \in Objects : object'[o].number = n =>
              Agrees(out', in', n, broker'[n], object'[o].opened),
           \A o \in Objects : object'[o].number # n =>
              \/ ~Exists(o)'
              \/ object'[o].number = object[o].number /\ object'[o].opened = object[o].opened
    PROVE  InProtocol'
<1>1. /\ \A m \in Numbers : Protocol(out, in, m, broker[m])
      /\ \A o \in Objects : Exists(o) =>
            Agrees(out, in, object[o].number, broker[object[o].number], object[o].opened)
  BY DEF InProtocol
<1>2. \A o \in Objects : object[o].number \in Numbers \cup {0}
  <2>1. \A o \in Objects : object[o] \in Object
    BY DEF Kept, TypeOK
  <2>2. QED
    BY <2>1, ObjectFields
<1>3. ASSUME NEW m \in Numbers
      PROVE  Protocol(out', in', m, broker'[m])
  <2>1. CASE m = n
    BY <2>1
  <2>2. CASE m # n
    BY <1>1, <2>2, SameKeeps
  <2>3. QED
    BY <2>1, <2>2
<1>4. ASSUME NEW o \in Objects, Exists(o)'
      PROVE  Agrees(out', in', object'[o].number, broker'[object'[o].number], object'[o].opened)
  <2>1. CASE object'[o].number = n
    BY <2>1
  <2>2. CASE object'[o].number # n
    <3> DEFINE m == object[o].number
               x == object[o].opened
    <3>1. object'[o].number = m /\ object'[o].opened = x
      BY <1>4, <2>2
    <3>2. m # 0
      BY <1>4, <3>1 DEF Exists
    <3>3. m \in Numbers /\ m # n
      BY <1>2, <2>2, <3>1, <3>2
    <3>4. Agrees(out, in, m, broker[m], x)
      BY <1>1, <3>2 DEF Exists
    <3>5. Same(out, out', m) /\ Same(in, in', m) /\ broker'[m] = broker[m]
      BY <3>3
    <3> HIDE DEF m, x
    <3>6. Agrees(out', in', m, broker[m], x)
      BY <3>4, <3>5, SameKeeps
    <3>7. QED
      BY <3>1, <3>5, <3>6
  <2>3. QED
    BY <2>1, <2>2
<1>5. QED
  BY <1>3, <1>4 DEF InProtocol

\* What is known of the frames on their way on a channel when they are so.
LEMMA ProtocolSays ==
    ASSUME Kept, InProtocol, Calm, link = "up"
    PROVE  /\ \A n \in Numbers : Protocol(out, in, n, broker[n]) /\ broker[n] \in {"closed", "open", "closing"}
           /\ \A o \in Objects, n \in Numbers : object[o].number = n =>
                 Agrees(out, in, n, broker[n], object[o].opened)
           /\ \A o \in Objects : object[o].opened \in BOOLEAN
<1>1. /\ \A m \in Numbers : Protocol(out, in, m, broker[m])
      /\ \A o \in Objects : Exists(o) =>
            Agrees(out, in, object[o].number, broker[object[o].number], object[o].opened)
  BY DEF InProtocol
<1>2. \A n \in Numbers : broker[n] \in {"closed", "open", "closing"}
  BY DEF Kept, TypeOK
<1>3. \A o \in Objects : object[o].opened \in BOOLEAN
  <2>1. \A o \in Objects : object[o] \in Object
    BY DEF Kept, TypeOK
  <2>2. QED
    BY <2>1, ObjectFields
<1>4. 0 \notin Numbers
  BY DEF Numbers
<1>5. QED
  BY <1>1, <1>2, <1>3, <1>4 DEF Exists

-----------------------------------------------------------------------------
(* The calls of the user.                                                  *)

\* What an object may send while no event comes in between.
Fitting(o, f) ==
    LET n == object[o].number
    IN  /\ f.channel = n
        /\ \/ /\ f.type = "Close" /\ object[o].opened
              /\ ~Has(out, n, "Close") /\ ~Has(in, n, "CloseOk")
           \/ /\ f.type = "Open" /\ ~object[o].opened
              /\ ~Has(out, n, "Open") /\ ~Has(in, n, "OpenOk")
           \/ /\ f.type \in Served /\ object[o].opened
              /\ ~Has(out, n, "Close") /\ ~Has(in, n, "CloseOk")
           \/ /\ f.type \in Served /\ ~object[o].opened
              /\ Has(out, n, "Open") \/ Has(in, n, "OpenOk")

AskedInTime(o) ==
    \E c \in Object :
        /\ Exists(o) /\ happened \subseteq happened'
        /\ object' = [object EXCEPT ![o] = c]
        /\ c.number = object[o].number
        /\ UNCHANGED <<link, in, broker>>
        /\ Calm' /\ link = "up" =>
              /\ c.opened = object[o].opened
              /\ out' = out \/ \E f \in OutFrames : Fitting(o, f) /\ out' = out \o <<f>>

LEMMA AskedInTimeKeeps ==
    ASSUME Accepted, NEW o \in Objects, AskedInTime(o)
    PROVE  Distinct' /\ InProtocol'
<1>1. Kept /\ Distinct /\ InProtocol
  BY DEF Accepted
<1>2. object \in [Objects -> Object] /\ out \in Seq(OutFrames)
  BY <1>1 DEF Kept, TypeOK
<1>3. PICK c \in Object :
        /\ Exists(o) /\ happened \subseteq happened'
        /\ object' = [object EXCEPT ![o] = c]
        /\ c.number = object[o].number
        /\ UNCHANGED <<link, in, broker>>
        /\ Calm' /\ link = "up" =>
              /\ c.opened = object[o].opened
              /\ out' = out \/ \E f \in OutFrames : Fitting(o, f) /\ out' = out \o <<f>>
  BY DEF AskedInTime
<1>4. /\ object'[o] = c
      /\ \A p \in Objects : p # o => object'[p] = object[p]
      /\ \A p \in Objects : object'[p].number = object[p].number
      /\ \A p \in Objects : Exists(p)' <=> Exists(p)
  BY <1>2, <1>3 DEF Exists
<1>5. Distinct'
  BY <1>1, <1>3, <1>4, StaysCalm DEF Distinct
<1>6. ASSUME Calm', link = "up"
      PROVE  InProtocol'
  <2>1. Calm
    BY <1>3, <1>6, StaysCalm
  <2> DEFINE n == object[o].number
             x == object[o].opened
             b == broker[n]
  <2>2. n \in Numbers
    <3>1. object[o] \in Object
      BY <1>2
    <3>2. QED
      BY <1>3, <3>1, ObjectFields DEF Exists
  <2>3. /\ Protocol(out, in, n, b) /\ Agrees(out, in, n, b, x) /\ x \in BOOLEAN
        /\ b \in {"closed", "open", "closing"}
        /\ \A p \in Objects : object[p].number = n => p = o
    BY <1>1, <1>3, <1>6, <2>1, <2>2, ProtocolSays DEF Distinct
  <2>4. \A p \in Objects : object'[p].opened = object[p].opened
    BY <1>3, <1>4, <1>6
  <2>5. \A m : Same(in, in', m) /\ broker'[m] = broker[m] /\ in' = in
    BY <1>3, SameSelf
  <2>6. ASSUME \A m \in Numbers : m # n => Same(out, out', m),
               Protocol(out', in, n, b), Agrees(out', in, n, b, x)
        PROVE  InProtocol'
    <3>1. \A m \in Numbers : m # n =>
              Same(out, out', m) /\ Same(in, in', m) /\ broker'[m] = broker[m]
      BY <2>5, <2>6
    <3>2. Protocol(out', in', n, broker'[n])
      BY <2>5, <2>6
    <3>3. \A p \in Objects : object'[p].number = n =>
              Agrees(out', in', n, broker'[n], object'[p].opened)
      BY <1>4, <2>3, <2>4, <2>5, <2>6
    <3>4. \A p \in Objects : object'[p].number # n =>
              \/ ~Exists(p)'
              \/ object'[p].number = object[p].number /\ object'[p].opened = object[p].opened
      BY <1>4, <2>4
    <3> HIDE DEF n, x, b
    <3>5. QED
      BY <1>1, <1>6, <2>1, <2>2, <3>1, <3>2, <3>3, <3>4, StepInProtocol
  <2>7. CASE out' = out
    BY <2>3, <2>6, <2>7, SameSelf
  <2>8. ASSUME NEW f \in OutFrames, Fitting(o, f), out' = out \o <<f>>
        PROVE  InProtocol'
    <3>1. f.channel = n
      BY <2>8 DEF Fitting
    <3>2. CASE f.type = "Close"
      <4>1. x /\ ~Has(out, n, "Close") /\ ~Has(in, n, "CloseOk")
        BY <2>8, <3>2 DEF Fitting, Served
      <4>2. Adds(out, out', n, "Close") /\ \A m \in Numbers : m # n => Same(out, out', m)
        BY <1>2, <2>8, <3>1, <3>2, AddsOne DEF Control
      <4> HIDE DEF n, x, b
      <4>3. x = TRUE
        BY <2>3, <4>1
      <4>4. Agrees(out, in, n, b, TRUE)
        BY <2>3, <4>3
      <4>5. Protocol(out', in, n, b) /\ Agrees(out', in, n, b, TRUE)
        BY <2>3, <4>1, <4>2, <4>4, CloseSentInProtocol
      <4>6. Agrees(out', in, n, b, x)
        BY <4>3, <4>5
      <4>7. QED
        BY <2>6, <4>2, <4>5, <4>6
    <3>3. CASE f.type = "Open"
      <4>1. ~x /\ ~Has(out, n, "Open") /\ ~Has(in, n, "OpenOk")
        BY <2>8, <3>3 DEF Fitting, Served
      <4>2. Adds(out, out', n, "Open") /\ \A m \in Numbers : m # n => Same(out, out', m)
        BY <1>2, <2>8, <3>1, <3>3, AddsOne DEF Control
      <4> HIDE DEF n, x, b
      <4>3. x = FALSE
        BY <2>3, <4>1
      <4>4. Agrees(out, in, n, b, FALSE)
        BY <2>3, <4>3
      <4>5. Protocol(out', in, n, b) /\ Agrees(out', in, n, b, FALSE)
        BY <2>3, <4>1, <4>2, <4>4, OpenSentInProtocol
      <4>6. Agrees(out', in, n, b, x)
        BY <4>3, <4>5
      <4>7. QED
        BY <2>6, <4>2, <4>5, <4>6
    <3>4. CASE f.type \in Served
      <4>1. \/ x /\ ~Has(out, n, "Close") /\ ~Has(in, n, "CloseOk")
            \/ ~x /\ (Has(out, n, "Open") \/ Has(in, n, "OpenOk"))
        BY <2>8, <3>4 DEF Fitting, Served
      <4>2. /\ <<f>> \in Seq(OutFrames) /\ \A i \in DOMAIN <<f>> : <<f>>[i].type \in Served
            /\ \A m \in Numbers : m # n => \A t : ~Has(<<f>>, m, t)
        <5>1. <<f>> \in Seq(OutFrames) /\ \A i \in DOMAIN <<f>> : <<f>>[i] = f
          OBVIOUS
        <5>2. QED
          BY <3>1, <3>4, <5>1 DEF Has, Is
      <4>3. Serving(out, out \o <<f>>, n)
        BY <1>2, <4>2, ServingConcat
      <4>4. \A m \in Numbers : m # n => Same(out, out \o <<f>>, m)
        BY <1>2, <4>2, SameConcat
      <4>5. Serving(out, out', n) /\ \A m \in Numbers : m # n => Same(out, out', m)
        BY <2>8, <4>3, <4>4
      <4> HIDE DEF n, x, b
      <4>6. Protocol(out', in, n, b) /\ Agrees(out', in, n, b, x)
        BY <2>3, <4>1, <4>5, ServedInProtocol
      <4>7. QED
        BY <2>6, <4>5, <4>6
    <3>5. QED
      BY <2>8, <3>2, <3>3, <3>4 DEF Fitting
  <2>9. QED
    BY <1>3, <1>6, <2>7, <2>8
<1>7. InProtocol'
  <2>1. link' = link
    BY <1>3
  <2>2. QED
    BY <1>6, <2>1 DEF InProtocol
<1>8. QED
  BY <1>5, <1>7

LEMMA CallsAskInTime ==
    ASSUME Kept, NEW o \in Objects
    PROVE  /\ Close(o) \/ Reopen(o) \/ Reset(o) \/ Declare(o) \/ Qos(o) \/ Resume(o) => AskedInTime(o)
           /\ o \in Queues /\ Bind(o) => AskedInTime(o)
<1> DEFINE n == object[o].number
           x == object[o].opened
           c == object[o]
<1>1. /\ object \in [Objects -> Object] /\ c \in Object /\ x \in BOOLEAN
      /\ object = [object EXCEPT ![o] = c]
      /\ n \in Numbers \cup {0} /\ out \in Seq(OutFrames) /\ out \o <<>> = out
      /\ BindingsCalled /\ c.bindings \in 0..MaxCalls /\ MaxCalls \in Nat /\ calls \in Nat
  <2>1. object \in [Objects -> Object] /\ out \in Seq(OutFrames) /\ BindingsCalled /\ calls \in Nat
    BY ChannelsAssumption DEF Kept, TypeOK
  <2>2. c \in Object
    BY <2>1
  <2>3. QED
    BY <2>1, <2>2, ObjectFields, ChannelsAssumption
<1>2. \A events : Happens(events) => happened \subseteq happened' /\ events \subseteq happened'
  BY DEF Happens
<1>3. Calm' /\ happened \subseteq happened' =>
         \A e \in {"early", "reset", "again", "unopened"} : e \notin happened'
  BY StaysCalm
<1>4. /\ ClosePending(n) <=> Has(out, n, "Close") \/ Has(in, n, "CloseOk")
      /\ OpenPending(n) <=> Has(out, n, "Open") \/ Has(in, n, "OpenOk")
  BY PendingSays
<1>5. SendEvents(o) \subseteq happened' /\ "again" \notin happened' /\ x =>
         ~Has(out, n, "Close") /\ ~Has(in, n, "CloseOk")
  BY <1>4 DEF SendEvents
<1>6. Exists(o) =>
        /\ \A t \in {"Open", "Close", "CloseOk", "Declare", "Bind", "Flow"} :
              /\ Frame(o, t) \in OutFrames /\ Frame(o, t).channel = n /\ Frame(o, t).type = t
        /\ \A k \in Prefetches :
              LET f == [type |-> "Qos", channel |-> n, count |-> k]
              IN  f \in OutFrames /\ f.channel = n /\ f.type = "Qos"
  BY <1>1, FrameTypes DEF Exists, Frame
<1>7. ASSUME NEW d, NEW fs, NEW events,
             Exists(o), Happens(events), UNCHANGED <<link, in, broker>>,
             object' = [object EXCEPT ![o] = d], Follows(c, d), Send(fs),
             Calm' /\ link = "up" =>
                /\ d.opened = x
                /\ fs = <<>> \/ \E f \in OutFrames : Fitting(o, f) /\ fs = <<f>>
      PROVE  AskedInTime(o)
  <2>1. d \in Object /\ d.number = n
    BY <1>7 DEF Follows
  <2>2. link = "up" => out' = out \o fs
    BY <1>7 DEF Send
  <2>3. Calm' /\ link = "up" =>
              /\ d.opened = x
              /\ out' = out \/ \E f \in OutFrames : Fitting(o, f) /\ out' = out \o <<f>>
    BY <1>1, <1>7, <2>2
  <2>4. QED
    BY <1>2, <1>7, <2>1, <2>3 DEF AskedInTime
<1>8. ASSUME Close(o)
      PROVE  AskedInTime(o)
  <2> DEFINE d == [c EXCEPT !.needOpen = TRUE]
             fs == IF x THEN <<Frame(o, "Close")>> ELSE <<>>
  <2>1. Follows(c, d) /\ d.opened = x
    BY <1>1, CallsFollow DEF Object
  <2>2. object' = [object EXCEPT ![o] = d]
    BY <1>8 DEF Close
  <2>3. /\ Exists(o) /\ Happens(SendEvents(o)) /\ Send(fs) /\ UNCHANGED <<link, in, broker>>
    BY <1>8 DEF Close
  <2>4. Calm' /\ x => Fitting(o, Frame(o, "Close")) /\ Frame(o, "Close") \in OutFrames
    BY <1>2, <1>3, <1>5, <1>6, <2>3 DEF Fitting
  <2>5. Calm' => fs = <<>> \/ \E f \in OutFrames : Fitting(o, f) /\ fs = <<f>>
    BY <2>4
  <2> HIDE DEF d, fs
  <2>6. QED
    BY <1>7, <2>1, <2>2, <2>3, <2>5
<1>9. ASSUME Reopen(o)
      PROVE  AskedInTime(o)
  <2> DEFINE events == SendEvents(o) \cup IF OpenPending(n) THEN {"early"} ELSE {}
  <2>1. Exists(o) /\ Happens(events) /\ UNCHANGED <<link, in, broker>>
    BY <1>9 DEF Reopen
  <2>2. SendEvents(o) \subseteq happened' /\ (OpenPending(n) => "early" \in happened')
        /\ happened \subseteq happened'
    BY <1>2, <2>1
  <2>3. CASE x
    <3> DEFINE d == [c EXCEPT !.needOpen = TRUE]
               fs == <<Frame(o, "Close")>>
    <3>1. Follows(c, d) /\ d.opened = x
      BY <1>1, CallsFollow DEF Object
    <3>2. object' = [object EXCEPT ![o] = d] /\ Send(fs)
      BY <1>9, <2>3 DEF Reopen
    <3>3. Calm' => Fitting(o, Frame(o, "Close")) /\ Frame(o, "Close") \in OutFrames
      BY <1>3, <1>5, <1>6, <2>1, <2>2, <2>3 DEF Fitting
    <3>4. Calm' => \E f \in OutFrames : Fitting(o, f) /\ fs = <<f>>
      BY <3>3
    <3> HIDE DEF d, fs, events
    <3>5. QED
      BY <1>7, <2>1, <3>1, <3>2, <3>4
  <2>4. CASE ~x
    <3> DEFINE fs == IF c.needOpen THEN <<Frame(o, "Open")>> ELSE <<>>
    <3>1. object' = [object EXCEPT ![o] = c] /\ Send(fs)
      BY <1>1, <1>9, <2>4 DEF Reopen
    <3>2. Calm' => Fitting(o, Frame(o, "Open")) /\ Frame(o, "Open") \in OutFrames
      BY <1>3, <1>4, <1>6, <2>1, <2>2, <2>4 DEF Fitting
    <3>3. Calm' => fs = <<>> \/ \E f \in OutFrames : Fitting(o, f) /\ fs = <<f>>
      BY <3>2
    <3>4. Follows(c, c)
      BY <1>1, CallsFollow
    <3> HIDE DEF fs, events
    <3>5. QED
      BY <1>7, <2>1, <3>1, <3>3, <3>4
  <2>5. QED
    BY <2>3, <2>4
<1>10. ASSUME Reset(o)
       PROVE  AskedInTime(o)
  <2> DEFINE d == Cleared(c)
             events == (IF object[o].opened THEN {"reset"} ELSE {})
                          \cup IF object[o].delayedDeclare THEN {"dropped"} ELSE {}
  <2>1. Follows(c, d)
    BY <1>1, CallsFollow
  <2>2. object' = [object EXCEPT ![o] = d] /\ out' = out
    BY <1>10 DEF Reset
  <2>3. Exists(o) /\ Happens(events) /\ UNCHANGED <<link, in, broker>>
    BY <1>10 DEF Reset
  <2>4. Calm' => ~x
    BY <1>2, <1>3, <2>3
  <2>5. d.opened = FALSE
    BY <1>1 DEF Cleared, Object
  <2>6. Calm' => d.opened = x
    BY <1>1, <2>4, <2>5
  <2>7. Send(<<>>)
    BY <1>1, <2>2 DEF Send
  <2> HIDE DEF d, events
  <2>8. QED
    BY <1>7, <2>1, <2>2, <2>3, <2>6, <2>7
<1>11. ASSUME Declare(o)
       PROVE  AskedInTime(o)
  <2> DEFINE d == [c EXCEPT !.delayedDeclare = ~x, !.asked = ~x]
             fs == IF x THEN <<Frame(o, "Declare")>> ELSE <<>>
  <2>1. Follows(c, d)
    <3>1. (~x) \in BOOLEAN
      BY <1>1, Zenon
    <3>2. QED
      BY <1>1, <3>1, CallsFollow
  <2>2. d.opened = x
    BY <1>1 DEF Object
  <2>3. object' = [object EXCEPT ![o] = d]
    <3>1. object' = [object EXCEPT ![o].delayedDeclare = ~object[o].opened,
                                   ![o].asked = ~object[o].opened]
      BY <1>11 DEF Declare
    <3>2. QED
      BY <1>1, <3>1
  <2>4. Exists(o) /\ Happens(SendEvents(o)) /\ Send(fs) /\ UNCHANGED <<link, in, broker>>
    BY <1>11 DEF Declare
  <2>5. Calm' /\ x => Fitting(o, Frame(o, "Declare")) /\ Frame(o, "Declare") \in OutFrames
    BY <1>2, <1>3, <1>5, <1>6, <2>4 DEF Fitting, Served
  <2>6. Calm' => fs = <<>> \/ \E f \in OutFrames : Fitting(o, f) /\ fs = <<f>>
    BY <2>5
  <2> HIDE DEF d, fs
  <2>7. QED
    BY <1>7, <2>1, <2>2, <2>3, <2>4, <2>6
<1>12. ASSUME NEW f \in OutFrames, f.channel = n, f.type \in Served,
              Happens(SendEvents(o) \cup UnopenedEvents(o)), Calm', link = "up"
       PROVE  Fitting(o, f)
  <2>1. /\ happened \subseteq happened' /\ SendEvents(o) \subseteq happened'
        /\ UnopenedEvents(o) \subseteq happened'
    BY <1>2, <1>12
  <2>2. "again" \notin happened' /\ "unopened" \notin happened'
    BY <1>3, <1>12, <2>1
  <2>3. ~x => OpenPending(n)
    BY <1>12, <2>1, <2>2 DEF UnopenedEvents
  <2>4. QED
    BY <1>4, <1>5, <1>12, <2>1, <2>2, <2>3 DEF Fitting
<1>13. ASSUME Qos(o)
       PROVE  AskedInTime(o)
  <2>1. PICK k \in Prefetches :
          /\ object' = [object EXCEPT ![o].requested = k]
          /\ Send(<<[type |-> "Qos", channel |-> object[o].number, count |-> k]>>)
    BY <1>13 DEF Qos
  <2> DEFINE d == [c EXCEPT !.requested = k]
             f == [type |-> "Qos", channel |-> n, count |-> k]
             events == SendEvents(o) \cup UnopenedEvents(o)
  <2>2. Follows(c, d) /\ d.opened = x
    BY <1>1, CallsFollow DEF Object
  <2>3. object' = [object EXCEPT ![o] = d] /\ Send(<<f>>)
    BY <2>1
  <2>4. Exists(o) /\ Happens(events) /\ UNCHANGED <<link, in, broker>>
    BY <1>13 DEF Qos
  <2>5. f \in OutFrames /\ f.channel = n /\ f.type \in Served
    BY <1>6, <2>4 DEF Served
  <2> HIDE DEF f
  <2>6. Calm' /\ link = "up" => Fitting(o, f)
    BY <1>12, <2>4, <2>5
  <2> HIDE DEF d, events
  <2>7. QED
    BY <1>7, <2>2, <2>3, <2>4, <2>5, <2>6
<1>14. ASSUME Resume(o)
       PROVE  AskedInTime(o)
  <2> DEFINE f == Frame(o, "Flow")
             events == SendEvents(o) \cup UnopenedEvents(o)
  <2>1. /\ Exists(o) /\ Happens(events) /\ Send(<<f>>) /\ object' = [object EXCEPT ![o] = c]
        /\ UNCHANGED <<link, in, broker>>
    BY <1>1, <1>14 DEF Resume
  <2>2. f \in OutFrames /\ f.channel = n /\ f.type \in Served
    BY <1>6, <2>1 DEF Served
  <2>3. Follows(c, c)
    BY <1>1, CallsFollow
  <2> HIDE DEF f
  <2>4. Calm' /\ link = "up" => Fitting(o, f)
    BY <1>12, <2>1, <2>2
  <2> HIDE DEF events
  <2>5. QED
    BY <1>7, <2>1, <2>2, <2>3, <2>4
<1>15. ASSUME Bind(o)
       PROVE  AskedInTime(o)
  <2> DEFINE d == [c EXCEPT !.bindings = IF x THEN c.bindings ELSE c.bindings + 1]
             fs == IF x THEN <<Frame(o, "Bind")>> ELSE <<>>
  <2>1. Follows(c, d)
    <3>1. c.bindings + 1 \in 0..MaxCalls /\ c.bindings \in 0..MaxCalls
      <4>1. c.bindings <= calls /\ calls < MaxCalls
        BY <1>1, <1>15 DEF Bind, Call, BindingsCalled
      <4>2. QED
        BY <1>1, <4>1
    <3>2. QED
      BY <1>1, <3>1, CallsFollow
  <2>2. d.opened = x
    BY <1>1 DEF Object
  <2>3. object' = [object EXCEPT ![o] = d]
    BY <1>15 DEF Bind
  <2>4. Exists(o) /\ Happens(SendEvents(o)) /\ Send(fs) /\ UNCHANGED <<link, in, broker>>
    BY <1>15 DEF Bind
  <2>5. Calm' /\ x => Fitting(o, Frame(o, "Bind")) /\ Frame(o, "Bind") \in OutFrames
    BY <1>2, <1>3, <1>5, <1>6, <2>4 DEF Fitting, Served
  <2>6. Calm' => fs = <<>> \/ \E f \in OutFrames : Fitting(o, f) /\ fs = <<f>>
    BY <2>5
  <2> HIDE DEF d, fs
  <2>7. QED
    BY <1>7, <2>1, <2>2, <2>3, <2>4, <2>6
<1>16. QED
  BY <1>8, <1>9, <1>10, <1>11, <1>13, <1>14, <1>15

\* A number that is new, or that was passed over and is asked for.
LEMMA CreateIsNew ==
    ASSUME Kept, NEW o, NEW channel, NEW number, NEW need, CreateAs(o, channel, number, need),
           "shared" \notin happened', "late" \notin happened'
    PROVE  ~Owned(number) /\ ("delete" \notin happened' => ~Used(number))
<1>1. /\ number \in Numbers
      /\ TypeOK /\ Listed /\ UsedAreOwned /\ UnusedAbove
  BY CreateFacts DEF Kept
<1>2. /\ o \in Objects /\ channel \in Numbers \cup {-1}
      /\ number = IF channel = -1 THEN next + 1 ELSE channel
      /\ Happens(CreateEvents(channel))
  BY DEF CreateAs
<1>3. happened \subseteq happened' /\ CreateEvents(channel) \subseteq happened'
  BY <1>2 DEF Happens
<1>4. next \in Nat /\ number \in Int /\ losses \in Nat /\ next <= MaxNumber /\ MaxNumber \in Nat
  BY <1>1, ChannelsAssumption DEF TypeOK, Numbers
<1>5. "shared" \notin CreateEvents(channel) /\ "late" \notin CreateEvents(channel)
  BY <1>3
<1>6. ~Owned(number)
  <2>1. CASE channel # -1 /\ channel <= next
    <3>1. number = channel
      BY <1>2, <2>1
    <3>2. ~(\E p \in Objects : object[p].number = channel)
      BY <1>5, <2>1 DEF CreateEvents
    <3>3. QED
      BY <3>1, <3>2 DEF Owned
  <2>2. CASE ~(channel # -1 /\ channel <= next)
    <3>1. number > next
      BY <1>2, <1>4, <2>2 DEF Numbers
    <3>2. CASE losses = 0 /\ link # "closing"
      <4>1. Owned(number) => number <= next
        BY <1>1, <3>2 DEF UnusedAbove
      <4>2. QED
        BY <1>4, <3>1, <4>1
    <3>3. CASE ~(losses = 0 /\ link # "closing")
      <4>1. losses > 0 \/ link = "closing"
        BY <1>4, <3>3
      <4>2. order = <<>>
        BY <1>5, <4>1 DEF CreateEvents
      <4>3. \A p \in Objects : ~Exists(p)
        BY <1>1, <4>2 DEF Listed
      <4>4. number # 0
        BY <1>1 DEF Numbers
      <4>5. QED
        BY <4>3, <4>4 DEF Owned, Exists
    <3>4. QED
      BY <3>2, <3>3
  <2>3. QED
    BY <2>1, <2>2
<1>7. "delete" \notin happened' => ~Used(number)
  BY <1>1, <1>3, <1>6 DEF UsedAreOwned
<1>8. QED
  BY <1>6, <1>7

\* If an object was deleted the numbers asked for are those not given yet.
LEMMA CreateIsUnused ==
    ASSUME Kept, NEW o, NEW channel, NEW number, NEW need, CreateAs(o, channel, number, need),
           Calm', link = "up"
    PROVE  ~Used(number)
<1>1. CASE "delete" \notin happened'
  <2>1. happened \subseteq happened'
    BY DEF CreateAs, Happens
  <2>2. "shared" \notin happened' /\ "late" \notin happened'
    BY <2>1, StaysCalm
  <2>3. QED
    BY <1>1, <2>2, CreateIsNew
<1>2. CASE "delete" \in happened'
  <2>1. /\ channel \in Numbers \cup {-1}
        /\ number = IF channel = -1 THEN next + 1 ELSE channel
        /\ Happens(CreateEvents(channel))
    BY DEF CreateAs
  <2>2. happened \subseteq happened' /\ CreateEvents(channel) \subseteq happened'
    BY <2>1 DEF Happens
  <2>3. "shared" \notin happened' /\ "late" \notin happened' /\ "gap" \notin happened'
    BY <1>2, <2>2, StaysCalm
  <2>4. /\ number \in Numbers /\ next \in Nat /\ number \in Int /\ losses \in Nat
        /\ UnusedAbove /\ Listed /\ UsedAreOwned
    <3>1. number \in Numbers
      BY CreateFacts
    <3>2. /\ next \in 0..MaxNumber /\ losses \in 0..MaxLosses
          /\ UnusedAbove /\ Listed /\ UsedAreOwned
      BY DEF Kept, TypeOK
    <3>3. QED
      BY <3>1, <3>2, ChannelsAssumption DEF Numbers
  <2>5. number > next
    <3>1. ~(channel # -1 /\ channel <= next)
      BY <2>2, <2>3 DEF CreateEvents
    <3>2. QED
      BY <2>1, <2>4, <3>1 DEF Numbers
  <2>6. CASE losses = 0
    <3>1. Used(number) => number <= next
      BY <2>4, <2>6 DEF UnusedAbove
    <3>2. QED
      BY <2>4, <2>5, <3>1
  <2>7. CASE losses # 0
    <3>1. ~(order # <<>> \/ "delete" \in happened)
      <4>1. losses > 0
        BY <2>4, <2>7
      <4>2. QED
        BY <2>2, <2>3, <4>1 DEF CreateEvents
    <3>2. \A p \in Objects : ~Exists(p)
      BY <2>4, <3>1 DEF Listed
    <3>3. ~Owned(number)
      BY <2>4, <3>2 DEF Owned, Exists, Numbers
    <3>4. QED
      BY <2>4, <3>1, <3>3 DEF UsedAreOwned
  <2>8. QED
    BY <2>6, <2>7
<1>3. QED
  BY <1>1, <1>2

LEMMA CreateInTime ==
    ASSUME Accepted, Create
    PROVE  Distinct' /\ InProtocol'
<1>1. Kept /\ Distinct /\ InProtocol
  BY DEF Accepted
<1>2. PICK o, channel, number, need : CreateAs(o, channel, number, need)
  BY <1>1, CreateNames DEF Kept
<1>3. /\ happened \subseteq happened' /\ UNCHANGED <<link, in, broker>> /\ o \in Objects
  BY <1>2 DEF CreateAs, Happens
<1>4. /\ number \in Numbers /\ need \in BOOLEAN
      /\ object' \in [Objects -> Object]
      /\ object'[o].number = number /\ object'[o].needOpen = need /\ ~object'[o].opened
      /\ object'[o].bindings = 0
      /\ \A p \in Objects : p # o => object'[p] = object[p]
      /\ object[o] = Absent
      /\ \A p \in Objects : Exists(p)' <=> Exists(p) \/ p = o
      /\ \A p \in Objects : object'[p].opened = object[p].opened
      /\ out' \in Seq(OutFrames)
      /\ out' = out \/ (link = "up" /\ need /\ out' = out \o <<[type |-> "Open", channel |-> number]>>)
      /\ \A n : Uses(out', n) => Uses(out, n) \/ n = number
      /\ \A n, t : Has(out, n, t) => Has(out', n, t)
      /\ next' \in 0..MaxNumber /\ next <= next' /\ number <= next'
  BY <1>1, <1>2, CreateFacts
<1>5. Distinct'
  <2> SUFFICES ASSUME Calm', NEW p \in Objects, NEW q \in Objects, Exists(p)',
                      object'[p].number = object'[q].number
               PROVE  p = q
    BY DEF Distinct
  <2>1. Calm /\ "shared" \notin happened' /\ "late" \notin happened'
    BY <1>3, StaysCalm
  <2>2. ~Owned(number) /\ Calm
    BY <1>1, <1>2, <2>1, CreateIsNew
  <2>3. \A r \in Objects : object[r].number # number
    BY <2>2 DEF Owned
  <2>4. CASE p = o
    BY <1>4, <2>3, <2>4
  <2>5. CASE p # o
    BY <1>1, <1>4, <2>2, <2>3, <2>5 DEF Distinct
  <2>6. QED
    BY <2>4, <2>5
<1>6. ASSUME Calm', link = "up"
      PROVE  InProtocol'
  <2>1. Calm /\ "shared" \notin happened' /\ "late" \notin happened'
    BY <1>3, <1>6, StaysCalm
  <2>2. Calm /\ ~Used(number) /\ ~Owned(number)
    BY <1>1, <1>2, <1>6, <2>1, CreateIsNew, CreateIsUnused
  <2>3. broker[number] = "closed" /\ ~Uses(out, number) /\ ~Uses(in, number)
    BY <2>2 DEF Used
  <2>4. /\ Protocol(out, in, number, "closed") /\ Agrees(out, in, number, "closed", FALSE)
        /\ ~Has(out, number, "Open") /\ ~Has(in, number, "OpenOk")
    BY <2>3, UnusedInProtocol DEF Uses, Has, Is
  <2> DEFINE f == [type |-> "Open", channel |-> number]
  <2>5. f \in OutFrames /\ f.channel = number /\ f.type = "Open" /\ out \in Seq(OutFrames)
    BY <1>1, <1>4, FrameTypes DEF Kept, TypeOK
  <2> HIDE DEF f
  <2>6. /\ \A m \in Numbers : m # number => Same(out, out', m)
        /\ Protocol(out', in, number, "closed") /\ Agrees(out', in, number, "closed", FALSE)
    <3>1. CASE out' = out
      BY <2>4, <3>1, SameSelf
    <3>2. CASE out' = out \o <<f>>
      <4>1. Adds(out, out', number, "Open") /\ \A m \in Numbers : m # number => Same(out, out', m)
        BY <2>5, <3>2, AddsOne DEF Control
      <4>2. QED
        BY <2>4, <4>1, OpenSentInProtocol
    <3>3. QED
      BY <1>4, <3>1, <3>2 DEF f
  <2>7. \A m \in Numbers : m # number =>
            Same(out, out', m) /\ Same(in, in', m) /\ broker'[m] = broker[m]
    BY <1>3, <2>6, SameSelf
  <2>8. Protocol(out', in', number, broker'[number])
    BY <1>3, <2>3, <2>6
  <2>9. ASSUME NEW p \in Objects, object'[p].number = number
        PROVE  Agrees(out', in', number, broker'[number], object'[p].opened)
    <3>1. p = o
      BY <1>4, <2>2, <2>9 DEF Owned
    <3>2. object'[p].opened = FALSE
      <4>1. object'[o] \in Object
        BY <1>1, <1>2, <1>3, CreateFacts
      <4>2. QED
        BY <1>4, <3>1, <4>1, ObjectFields
    <3>3. QED
      BY <1>3, <2>3, <2>6, <3>2
  <2>10. \A p \in Objects : object'[p].number # number =>
               \/ ~Exists(p)'
               \/ object'[p].number = object[p].number /\ object'[p].opened = object[p].opened
    BY <1>4
  <2>11. QED
    BY <1>1, <1>4, <1>6, <2>2, <2>7, <2>8, <2>9, <2>10, StepInProtocol
<1>7. InProtocol'
  <2>1. link' = link
    BY <1>3
  <2>2. QED
    BY <1>6, <2>1 DEF InProtocol
<1>8. QED
  BY <1>5, <1>7

LEMMA DeleteInTime ==
    ASSUME Accepted, NEW o \in Objects, Delete(o)
    PROVE  Distinct' /\ InProtocol'
<1>1. Kept /\ Distinct /\ InProtocol /\ object \in [Objects -> Object]
  BY DEF Accepted, Kept, TypeOK
<1>2. /\ happened \subseteq happened' /\ UNCHANGED <<link, out, in, broker>>
      /\ object' = [object EXCEPT ![o] = Absent]
  BY DEF Delete, Happens
<1>3. /\ object'[o] = Absent /\ \A p \in Objects : p # o => object'[p] = object[p]
  BY <1>1, <1>2
<1>4. /\ ~Exists(o)' /\ \A p \in Objects : p # o => (Exists(p)' <=> Exists(p))
  BY <1>3 DEF Exists, Absent
<1>5. Distinct'
  <2> SUFFICES ASSUME Calm', NEW p \in Objects, NEW q \in Objects, Exists(p)',
                      object'[p].number = object'[q].number
               PROVE  p = q
    BY DEF Distinct
  <2>1. Calm
    BY <1>2, StaysCalm
  <2>2. Exists(q)' /\ p # o /\ q # o
    BY <1>4 DEF Exists
  <2>3. QED
    BY <1>1, <1>3, <1>4, <2>1, <2>2 DEF Distinct
<1>6. InProtocol'
  <2> SUFFICES ASSUME Calm', link' = "up"
               PROVE  /\ \A n \in Numbers : Protocol(out', in', n, broker'[n])
                      /\ \A p \in Objects : Exists(p)' =>
                            Agrees(out', in', object'[p].number, broker'[object'[p].number],
                                   object'[p].opened)
    BY DEF InProtocol
  <2>1. /\ \A n \in Numbers : Protocol(out, in, n, broker[n])
        /\ \A p \in Objects : Exists(p) =>
              Agrees(out, in, object[p].number, broker[object[p].number], object[p].opened)
    BY <1>1, <1>2, StaysCalm DEF InProtocol
  <2>2. ASSUME NEW p \in Objects, Exists(p)'
        PROVE  Agrees(out', in', object'[p].number, broker'[object'[p].number], object'[p].opened)
    <3>1. p # o /\ Exists(p) /\ object'[p] = object[p]
      BY <1>3, <1>4, <2>2
    <3>2. QED
      BY <1>2, <2>1, <3>1
  <2>3. QED
    BY <1>2, <2>1, <2>2
<1>7. QED
  BY <1>5, <1>6

LEMMA LinkUpInTime ==
    ASSUME Accepted, LinkUp
    PROVE  Distinct' /\ InProtocol'
<1>1. Kept /\ Distinct /\ NothingLeft
  BY DEF Accepted, Kept
<1>2. /\ link = "down" /\ UNCHANGED <<object, order, next, in, broker, happened>>
  BY DEF LinkUp
<1>3. Distinct' /\ (Calm' <=> Calm)
  BY <1>1, <1>2 DEF Distinct, Exists, Calm
<1>4. /\ in = <<>> /\ \A n \in Numbers : broker[n] = "closed"
      /\ \A o \in Objects : object[o].opened = FALSE
  <2>1. in = <<>> /\ broker = AllClosed /\ \A o \in Objects : ~object[o].opened
    BY <1>1, <1>2 DEF NothingLeft
  <2>2. \A o \in Objects : object[o].opened \in BOOLEAN
    <3>1. \A o \in Objects : object[o] \in Object
      BY <1>1 DEF Kept, TypeOK
    <3>2. QED
      BY <3>1, ObjectFields
  <2>3. QED
    BY <2>1, <2>2 DEF AllClosed
<1>5. ASSUME Calm
      PROVE  InProtocol'
  <2>1. /\ \A j \in DOMAIN out' : out'[j].type = "Open"
        /\ \A n : ~Later(out', n, "Open", "Open")
    BY <1>1, <1>5, LinkUpSends DEF Distinct
  <2>2. \A n, t : t # "Open" =>
            /\ ~Has(out', n, t)
            /\ \A u : ~Later(out', n, t, u) /\ ~Later(out', n, u, t)
    BY <2>1 DEF Has, Later, Is
  <2>3. \A n : Led(out', n) /\ Parted(out', n)
    BY <2>1 DEF Led, Parted, IsServed, Served
  <2>4. \A n : /\ \A t : ~Has(in, n, t)
               /\ \A t, u : ~Later(in, n, t, u)
    BY <1>4, NoneSays
  <2>5. \A n : Protocol(out', in, n, "closed") /\ Agrees(out', in, n, "closed", FALSE)
    BY <2>1, <2>2, <2>3, <2>4 DEF Protocol, InSequence, Agrees
  <2>6. \A n \in Numbers : Protocol(out', in', n, broker'[n])
    BY <1>2, <1>4, <2>5
  <2>7. ASSUME NEW o \in Objects, Exists(o)'
        PROVE  Agrees(out', in', object'[o].number, broker'[object'[o].number], object'[o].opened)
    <3>1. object[o].number \in Numbers
      <4>1. object[o] \in Object
        BY <1>1 DEF Kept, TypeOK
      <4>2. QED
        BY <1>2, <2>7, <4>1, ObjectFields DEF Exists
    <3>2. QED
      BY <1>2, <1>4, <2>5, <3>1
  <2>8. QED
    BY <2>6, <2>7 DEF InProtocol
<1>6. QED
  BY <1>3, <1>5 DEF InProtocol

LEMMA LinkEndsInTime ==
    ASSUME Accepted, LinkEnds
    PROVE  Distinct' /\ InProtocol'
<1>1. /\ link' # "up" /\ happened \subseteq happened'
      /\ \A o \in Objects : object'[o].number = object[o].number
  BY DEF LinkEnds
<1>2. InProtocol'
  BY <1>1 DEF InProtocol
<1>3. Calm' => Calm
  BY <1>1, StaysCalm
<1>4. Distinct'
  BY <1>1, <1>3 DEF Accepted, Distinct, Exists
<1>5. QED
  BY <1>2, <1>4

-----------------------------------------------------------------------------
(* Frames received, while no event comes in between.                       *)

\* A step that hears of a frame is one that concerns its channel.
LEMMA HeardOnChannel ==
    ASSUME Kept, InProtocol, Calm, link = "up", NEW n \in Numbers, NEW type, Receive(type, n),
           NEW fs \in Seq(OutFrames), out' = out \o fs, \A i \in DOMAIN fs : fs[i].channel = n,
           Protocol(out', in', n, broker[n]),
           \A o \in Objects : object[o].number # n => object'[o] = object[o],
           \A o \in Objects : object'[o].number = object[o].number,
           \A o \in Objects : object[o].number = n =>
              Agrees(out', in', n, broker[n], object'[o].opened)
    PROVE  InProtocol'
<1>1. /\ in \in Seq(InFrames) /\ out \in Seq(OutFrames)
  BY DEF Kept, TypeOK
<1>2. /\ in # <<>> /\ Head(in) = [type |-> type, channel |-> n] /\ in' = Tail(in) /\ broker' = broker
  BY DEF Receive
<1>3. in[1].channel = n
  <2>1. Head(in) = in[1]
    BY <1>1, <1>2
  <2>2. QED
    BY <1>2, <2>1
<1>4. ASSUME NEW m \in Numbers, m # n
      PROVE  Same(out, out', m) /\ Same(in, in', m)
  <2>1. \A t : ~Has(fs, m, t)
    BY <1>4 DEF Has, Is
  <2>2. Same(out, out \o fs, m)
    BY <1>1, <2>1, SameConcat
  <2>3. \A t : ~Is(in, 1, m, t)
    BY <1>3, <1>4 DEF Is
  <2>4. Same(in, Tail(in), m)
    BY <1>1, <1>2, <2>3, SameTail
  <2>5. QED
    BY <1>2, <2>2, <2>4
<1>5. \A m \in Numbers : m # n =>
              Same(out, out', m) /\ Same(in, in', m) /\ broker'[m] = broker[m]
  BY <1>2, <1>4
<1>6. Protocol(out', in', n, broker'[n])
  BY <1>2
<1>7. \A o \in Objects : object'[o].number = n =>
              Agrees(out', in', n, broker'[n], object'[o].opened)
  BY <1>2
<1>8. \A o \in Objects : object'[o].number # n =>
              \/ ~Exists(o)'
              \/ object'[o].number = object[o].number /\ object'[o].opened = object[o].opened
  OBVIOUS
<1>9. QED
  BY <1>5, <1>6, <1>7, <1>8, StepInProtocol

\* What is read first of the frames received.
LEMMA ReceiveDrops ==
    ASSUME Kept, NEW n \in Numbers, NEW type, Receive(type, n)
    PROVE  /\ type \in Control => Drops(in, in', n, type)
           /\ type \notin Control => Same(in, in', n)
<1>1. /\ in \in Seq(InFrames) /\ in # <<>> /\ in' = Tail(in) /\ Is(in, 1, n, type)
  <2>1. in \in Seq(InFrames) /\ in # <<>> /\ in' = Tail(in)
    BY DEF Kept, TypeOK, Receive
  <2>2. Head(in) = in[1] /\ Head(in) = [type |-> type, channel |-> n]
    BY <2>1 DEF Receive
  <2>3. QED
    BY <2>1, <2>2 DEF Is
<1>2. type \in Control => Drops(in, Tail(in), n, type)
  BY <1>1, DropsTail
<1>3. ASSUME type \notin Control
      PROVE  Same(in, Tail(in), n)
  <2>1. \A t \in Control : ~Is(in, 1, n, t)
    BY <1>1, <1>3 DEF Is
  <2>2. QED
    BY <1>1, <2>1, SameTail
<1>4. QED
  BY <1>1, <1>2, <1>3

LEMMA HearingKeepsDistinct ==
    ASSUME Distinct, happened \subseteq happened', NEW n \in Numbers, NEW type, Heard(type, n)
    PROVE  Distinct'
<1>1. \A o \in Objects : object'[o].number = object[o].number
  BY DEF Heard
<1>2. Calm' => Calm
  BY StaysCalm
<1>3. QED
  BY <1>1, <1>2 DEF Distinct, Exists

LEMMA OpenOkInTime ==
    ASSUME Kept, InProtocol, Calm, NEW n \in Numbers, ReceiveOpenOk(n)
    PROVE  InProtocol'
<1>1. /\ object \in [Objects -> Object] /\ out \in Seq(OutFrames)
      /\ Receive("OpenOk", n) /\ link = "up"
      /\ object' = [o \in Objects |->
                      IF object[o].number = n THEN OpenedAs(object[o]) ELSE object[o]]
  BY DEF Kept, TypeOK, ReceiveOpenOk, Receive, OpenedAs
<1>2. PICK fs \in Seq(OutFrames) :
         /\ out' = out \o fs
         /\ \A i \in DOMAIN fs : fs[i].channel = n /\ Owned(n) /\ fs[i].type \in {"Declare", "Bind"}
  BY OpenOkSends
<1> DEFINE b == broker[n]
<1>3. Drops(in, in', n, "OpenOk")
  BY <1>1, ReceiveDrops DEF Control
<1>4. Serving(out, out \o fs, n)
  <2>1. \A i \in DOMAIN fs : fs[i].channel = n /\ fs[i].type \in Served
    BY <1>2 DEF Served
  <2>2. QED
    BY <1>1, <2>1, ServingConcat
<1>5. Protocol(out, in, n, b) /\ b \in {"closed", "open", "closing"}
  BY <1>1, ProtocolSays
<1>6. Serving(out, out', n)
  BY <1>2, <1>4
<1> HIDE DEF b
<1>7. Protocol(out', in', n, b)
  BY <1>3, <1>5, <1>6, OpenedInProtocol
<1>8. ASSUME NEW o \in Objects
      PROVE  /\ object'[o].number = object[o].number
             /\ object[o].number # n => object'[o] = object[o]
             /\ object[o].number = n => object'[o].opened = TRUE
  <2>1. object[o] \in Object
    BY <1>1
  <2>2. OpenedAs(object[o]).number = object[o].number
    BY <2>1, HeardFields
  <2>3. OpenedAs(object[o]).opened = TRUE
    BY <2>1 DEF OpenedAs, Object
  <2>4. QED
    BY <1>1, <2>2, <2>3
<1>9. ASSUME NEW o \in Objects, object[o].number = n
      PROVE  Agrees(out', in', n, b, object'[o].opened)
  <2>1. object'[o].opened = TRUE
    BY <1>8, <1>9
  <2>2. QED
    BY <1>3, <1>5, <1>6, <2>1, OpenedAgrees
<1>10. QED
  BY <1>1, <1>2, <1>7, <1>8, <1>9, HeardOnChannel DEF b

LEMMA ClosedSays ==
    ASSUME object \in [Objects -> Object], NEW n, NEW slots, Closed(n, slots)
    PROVE  \A o \in Objects :
              /\ object'[o].number = object[o].number
              /\ object[o].number # n => object'[o] = object[o]
              /\ object[o].number = n => object'[o].opened = FALSE
<1> SUFFICES ASSUME NEW o \in Objects
             PROVE  /\ object'[o].number = object[o].number
                    /\ object[o].number # n => object'[o] = object[o]
                    /\ object[o].number = n => object'[o].opened = FALSE
  OBVIOUS
<1> DEFINE need == object[o].needOpen \/ (o \in slots /\ object[o].opened)
<1>1. object[o] \in Object
  OBVIOUS
<1>2. /\ object'[o] = IF object[o].number = n
                      THEN [object[o] EXCEPT !.opened = FALSE, !.needOpen = need]
                      ELSE object[o]
  BY DEF Closed
<1> HIDE DEF need
<1>3. \A c \in Object : /\ [c EXCEPT !.opened = FALSE, !.needOpen = need].number = c.number
                        /\ [c EXCEPT !.opened = FALSE, !.needOpen = need].opened = FALSE
  BY DEF Object
<1>4. QED
  BY <1>1, <1>2, <1>3

LEMMA CloseInTime ==
    ASSUME Kept, Distinct, InProtocol, Calm, NEW n \in Numbers, ReceiveClose(n), Calm'
    PROVE  InProtocol'
<1>1. PICK slots \in SUBSET {o \in Objects : object[o].number = n} :
        /\ Receive("Close", n)
        /\ Happens(CloseEvents(n, slots))
        /\ Closed(n, slots)
        /\ Send(SentOn(n, [o \in Objects |-> <<Frame(o, "CloseOk")>> \o SlotSends(o, slots)]))
  BY DEF ReceiveClose
<1>2. slots = {}
  <2>1. "slot" \notin happened'
    <3>1. happened \subseteq happened'
      BY <1>1 DEF Happens
    <3>2. QED
      BY <3>1, StaysCalm
  <2>2. CloseEvents(n, slots) \subseteq happened'
    BY <1>1 DEF Happens
  <2>3. QED
    BY <2>1, <2>2 DEF CloseEvents
<1>3. 0 \notin Numbers
  BY DEF Numbers
<1>4. \A o, p \in Objects : object[o].number = n /\ object[p].number = n => o = p
  BY <1>3 DEF Distinct, Exists
<1>5. PICK fs \in Seq(OutFrames) :
        /\ out' = out \o fs
        /\ \A i \in DOMAIN fs : fs[i].channel = n /\ Owned(n)
        /\ Owned(n) => Has(fs, n, "CloseOk")
        /\ slots = {} => \A i \in DOMAIN fs : fs[i].type = "CloseOk"
        /\ (/\ slots = {}
            /\ \A o, p \in Objects : object[o].number = n /\ object[p].number = n => o = p)
              => \A i, j \in DOMAIN fs : i = j
  BY <1>1, CloseSends
<1>6. /\ out' = out \o fs
      /\ \A i \in DOMAIN fs : fs[i].channel = n /\ Owned(n)
      /\ Owned(n) => Has(fs, n, "CloseOk")
      /\ \A i \in DOMAIN fs : fs[i].type = "CloseOk"
      /\ \A i, j \in DOMAIN fs : i = j
  BY <1>2, <1>4, <1>5
<1>7. /\ object \in [Objects -> Object] /\ out \in Seq(OutFrames) /\ link = "up"
  BY <1>1 DEF Kept, TypeOK, Receive
<1> DEFINE b == broker[n]
<1>8. Drops(in, in', n, "Close")
  BY <1>1, ReceiveDrops DEF Control
<1>9. Protocol(out, in, n, b) /\ b \in {"closed", "open", "closing"}
  BY <1>7, ProtocolSays
<1>10. Owned(n) => Adds(out, out', n, "CloseOk")
  <2>1. ASSUME Owned(n)
        PROVE  Adds(out, out \o fs, n, "CloseOk")
    <3>1. \A t : Has(fs, n, t) <=> t = "CloseOk"
      BY <1>6, <2>1 DEF Has, Is
    <3>2. \A t, u : ~Later(fs, n, t, u)
      <4>1. \A i, j \in DOMAIN fs : ~(i < j)
        BY <1>6
      <4>2. QED
        BY <4>1 DEF Later
    <3>3. QED
      BY <1>7, <3>1, <3>2, AddsConcat DEF Control
  <2>2. QED
    BY <1>6, <2>1
<1>11. ~Owned(n) => Same(out, out', n)
  <2>1. ASSUME ~Owned(n)
        PROVE  Same(out, out \o fs, n)
    <3>1. \A t : ~Has(fs, n, t)
      BY <1>6, <2>1 DEF Has
    <3>2. QED
      BY <1>7, <3>1, SameConcat
  <2>2. QED
    BY <1>6, <2>1
<1> HIDE DEF b
<1>12. Protocol(out', in', n, b)
  BY <1>8, <1>9, <1>10, <1>11, CloseInProtocol
<1>13. \A o \in Objects :
          /\ object'[o].number = object[o].number
          /\ object[o].number # n => object'[o] = object[o]
          /\ object[o].number = n => object'[o].opened = FALSE
  BY <1>1, <1>7, ClosedSays
<1>14. ASSUME NEW o \in Objects, object[o].number = n
       PROVE  Agrees(out', in', n, b, object'[o].opened)
  <2>1. Owned(n)
    BY <1>14 DEF Owned
  <2>2. Adds(out, out', n, "CloseOk") /\ object'[o].opened = FALSE
    BY <1>10, <1>13, <1>14, <2>1
  <2>3. QED
    BY <1>8, <1>9, <2>2, CloseAgrees
<1>15. QED
  BY <1>1, <1>6, <1>7, <1>12, <1>13, <1>14, HeardOnChannel DEF b

LEMMA CloseOkInTime ==
    ASSUME Kept, InProtocol, Calm, NEW n \in Numbers, ReceiveCloseOk(n), Calm'
    PROVE  InProtocol'
<1>1. PICK slots \in SUBSET {o \in Objects : object[o].number = n} :
        /\ Receive("CloseOk", n)
        /\ Happens(CloseEvents(n, slots))
        /\ Closed(n, slots)
        /\ Send(SentOn(n, [o \in Objects |-> SlotSends(o, slots)]))
  BY DEF ReceiveCloseOk
<1>2. slots = {}
  <2>1. "slot" \notin happened'
    <3>1. happened \subseteq happened'
      BY <1>1 DEF Happens
    <3>2. QED
      BY <3>1, StaysCalm
  <2>2. CloseEvents(n, slots) \subseteq happened'
    BY <1>1 DEF Happens
  <2>3. QED
    BY <2>1, <2>2 DEF CloseEvents
<1>3. PICK fs \in Seq(OutFrames) :
         /\ out' = out \o fs
         /\ \A i \in DOMAIN fs : fs[i].channel = n /\ Owned(n)
         /\ DOMAIN fs = {}
  BY <1>1, <1>2, CloseOkSends
<1>4. /\ object \in [Objects -> Object] /\ out \in Seq(OutFrames) /\ link = "up"
  BY <1>1 DEF Kept, TypeOK, Receive
<1> DEFINE b == broker[n]
<1>5. Drops(in, in', n, "CloseOk")
  BY <1>1, ReceiveDrops DEF Control
<1>6. Protocol(out, in, n, b) /\ b \in {"closed", "open", "closing"}
  BY <1>4, ProtocolSays
<1>7. \A o \in Objects : object[o].number = n => Agrees(out, in, n, b, object[o].opened)
  BY <1>4, ProtocolSays
<1>8. Same(out, out', n)
  <2>1. \A t : ~Has(fs, n, t)
    BY <1>3 DEF Has
  <2>2. Same(out, out \o fs, n)
    BY <1>4, <2>1, SameConcat
  <2>3. QED
    BY <1>3, <2>2
<1> HIDE DEF b
<1>9. Protocol(out, in', n, b)
  BY <1>5, <1>6, CloseOkInProtocol
<1>10. /\ Protocol(out', in', n, b)
       /\ \A x : Agrees(out, in', n, b, x) => Agrees(out', in', n, b, x)
  BY <1>8, <1>9, SameSelf, SameKeeps
<1>11. \A o \in Objects :
          /\ object'[o].number = object[o].number
          /\ object[o].number # n => object'[o] = object[o]
          /\ object[o].number = n => object'[o].opened = FALSE
  BY <1>1, <1>4, ClosedSays
<1>12. ASSUME NEW o \in Objects, object[o].number = n
       PROVE  Agrees(out', in', n, b, object'[o].opened)
  <2> DEFINE before == object[o].opened
             opened == object'[o].opened
  <2>1. Agrees(out, in, n, b, before) /\ opened = FALSE
    BY <1>7, <1>11, <1>12
  <2> HIDE DEF before, opened
  <2>2. Agrees(out, in', n, b, opened)
    BY <1>5, <1>6, <2>1 DEF Drops, Protocol, InSequence, Agrees, Control
  <2>3. Agrees(out', in', n, b, opened)
    BY <1>10, <2>2
  <2>4. QED
    BY <2>3 DEF opened
<1>13. QED
  BY <1>1, <1>3, <1>4, <1>10, <1>11, <1>12, HeardOnChannel DEF b

LEMMA AnswerInTime ==
    ASSUME Kept, InProtocol, Calm, NEW n \in Numbers, ReceiveQosOk(n) \/ ReceiveFlowOk(n)
    PROVE  InProtocol'
<1>1. PICK type \in {"QosOk", "FlowOk"} : Receive(type, n)
  BY DEF ReceiveQosOk, ReceiveFlowOk
<1>2. /\ object \in [Objects -> Object] /\ out \in Seq(OutFrames) /\ link = "up" /\ out' = out
  BY <1>1 DEF Kept, TypeOK, Receive, ReceiveQosOk, ReceiveFlowOk
<1>3. \A o \in Objects :
         /\ object'[o].number = object[o].number
         /\ object[o].number # n => object'[o] = object[o]
         /\ object'[o].opened = object[o].opened
  <2>1. CASE ReceiveQosOk(n)
    <3>1. object' = [o \in Objects |->
                       IF object[o].number = n THEN ServedAs(object[o]) ELSE object[o]]
      BY <2>1 DEF ReceiveQosOk, ServedAs
    <3>2. \A c \in Object : ServedAs(c).number = c.number /\ ServedAs(c).opened = c.opened
      BY DEF ServedAs, Object
    <3>3. QED
      BY <1>2, <3>1, <3>2
  <2>2. CASE ReceiveFlowOk(n)
    BY <2>2 DEF ReceiveFlowOk
  <2>3. QED
    BY <2>1, <2>2
<1> DEFINE b == broker[n]
<1>4. Same(in, in', n)
  BY <1>1, ReceiveDrops DEF Control
<1>5. /\ Protocol(out, in, n, b)
      /\ \A o \in Objects : object[o].number = n => Agrees(out, in, n, b, object[o].opened)
  BY <1>2, ProtocolSays
<1> HIDE DEF b
<1>6. /\ Protocol(out, in', n, b)
      /\ \A x : Agrees(out, in, n, b, x) => Agrees(out, in', n, b, x)
  BY <1>4, <1>5, SameSelf, SameKeeps
<1>7. /\ <<>> \in Seq(OutFrames) /\ out' = out \o <<>> /\ \A i \in DOMAIN <<>> : <<>>[i].channel = n
      /\ Protocol(out', in', n, b)
  BY <1>2, <1>6
<1>8. \A o \in Objects : object[o].number = n => Agrees(out', in', n, b, object'[o].opened)
  BY <1>2, <1>3, <1>5, <1>6
<1>9. QED
  BY <1>1, <1>2, <1>3, <1>7, <1>8, HeardOnChannel DEF b

LEMMA ReadingInTime ==
    ASSUME Accepted, Reading
    PROVE  Distinct' /\ InProtocol'
<1>1. PICK n \in Numbers : \/ ReceiveOpenOk(n) \/ ReceiveClose(n) \/ ReceiveCloseOk(n)
                           \/ ReceiveQosOk(n) \/ ReceiveFlowOk(n)
  BY DEF Reading
<1>2. Kept /\ Distinct /\ InProtocol
  BY DEF Accepted
<1>3. PICK type : Heard(type, n)
  BY <1>1, <1>2, ReceivedIsHeard
<1>4. happened \subseteq happened'
  BY <1>3 DEF Heard
<1>5. Distinct'
  BY <1>2, <1>3, <1>4, HearingKeepsDistinct
<1>6. Calm' => Calm
  BY <1>4, StaysCalm
<1>7. ASSUME Calm'
      PROVE  InProtocol'
  BY <1>1, <1>2, <1>6, <1>7, OpenOkInTime, CloseInTime, CloseOkInTime, AnswerInTime
<1>8. QED
  BY <1>5, <1>7 DEF InProtocol

-----------------------------------------------------------------------------
(* The broker and the connection, while no event comes in between.         *)

\* An answer that is not to an open or a close.
LEMMA SameOne ==
    ASSUME NEW F, NEW s \in Seq(F), NEW f \in F, f.type \notin Control \cup Served, NEW n
    PROVE  Same(s, s \o <<f>>, n)
<1> DEFINE fs == <<f>>
           r == s \o fs
<1>1. /\ fs \in Seq(F)
      /\ \A t : Has(fs, n, t) <=> f.channel = n /\ f.type = t
      /\ \A t, u : ~Later(fs, n, t, u)
      /\ Serves(fs, n) <=> f.channel = n /\ f.type \in Served
  BY OneSays
<1> HIDE DEF fs
<1>2. /\ \A t : Has(r, n, t) <=> Has(s, n, t) \/ Has(fs, n, t)
      /\ \A t, u : Later(r, n, t, u)
            <=> Later(s, n, t, u) \/ Later(fs, n, t, u) \/ (Has(s, n, t) /\ Has(fs, n, u))
  BY <1>1, ConcatSays
<1>3. /\ Led(s, n) /\ (~Serves(fs, n) \/ Has(s, n, "Open")) => Led(r, n)
      /\ Parted(s, n) /\ ~Serves(fs, n) => Parted(r, n)
  BY <1>1, ConcatServes
<1> HIDE DEF r
<1>4. Same(s, r, n)
  BY <1>1, <1>2, <1>3 DEF Same, View
<1>5. QED
  BY <1>4 DEF r, fs

\* What the broker reads and answers keeps to the protocol.
LEMMA TakenInProtocol ==
    ASSUME Kept, InProtocol, Calm, NEW n \in Numbers, NEW type, NEW state, NEW answer,
           Taken(type, n, state, answer), Reaction(type, n, broker[n], state, answer)
    PROVE  /\ Protocol(out', in', n, state)
           /\ \A x : Agrees(out, in, n, broker[n], x) => Agrees(out', in', n, state, x)
<1> DEFINE b == broker[n]
<1>1. /\ in \in Seq(InFrames) /\ out \in Seq(OutFrames) /\ out # <<>> /\ Is(out, 1, n, type)
      /\ out' = Tail(out) /\ in' = in \o answer /\ link = "up"
  BY DEF Kept, TypeOK, Taken
<1>2. Protocol(out, in, n, b) /\ b \in {"closed", "open", "closing"}
  BY <1>1, ProtocolSays
<1>3. type \in Control => Drops(out, out', n, type)
  BY <1>1, DropsTail
<1>4. type \in Served => Same(out, out', n)
  <2>1. ASSUME type \in Served
          PROVE  \A t \in Control : ~Is(out, 1, n, t)
    BY <1>1, <2>1 DEF Is, Served, Control
  <2>2. QED
    BY <1>1, <2>1, SameTail
<1>5. ASSUME NEW t \in {"OpenOk", "CloseOk"}, answer = <<[type |-> t, channel |-> n]>>
      PROVE  Adds(in, in', n, t)
  <2> DEFINE f == [type |-> t, channel |-> n]
  <2>1. f \in InFrames /\ f.type = t /\ f.channel = n /\ t \in Control
    BY DEF InFrames, Control
  <2>2. in' = in \o <<f>>
    BY <1>1, <1>5
  <2> HIDE DEF f
  <2>3. QED
    BY <1>1, <2>1, <2>2, AddsOne
<1>6. ASSUME answer \in {<<>>, <<[type |-> "QosOk", channel |-> n]>>,
                                 <<[type |-> "FlowOk", channel |-> n]>>}
      PROVE  Same(in, in', n)
  <2>1. CASE answer = <<>>
    <3>1. in' = in
      BY <1>1, <2>1
    <3>2. QED
      BY <3>1, SameSelf
  <2>2. ASSUME NEW t \in {"QosOk", "FlowOk"}, answer = <<[type |-> t, channel |-> n]>>
        PROVE  Same(in, in', n)
    <3> DEFINE f == [type |-> t, channel |-> n]
    <3>1. f \in InFrames /\ f.type \notin Control \cup Served
      BY DEF InFrames, Control, Served
    <3>2. in' = in \o <<f>>
      BY <1>1, <2>2
    <3> HIDE DEF f
    <3>3. QED
      BY <1>1, <3>1, <3>2, SameOne
  <2>3. QED
    BY <1>6, <2>1, <2>2
<1> SUFFICES KeepsTo(out, in, b, out', in', state, n)
  BY DEF KeepsTo
<1>7. Reaction(type, n, b, state, answer)
  OBVIOUS
<1> HIDE DEF b
<1>8. CASE type = "Open" /\ b = "closed" /\ state = "open"
           /\ answer = <<[type |-> "OpenOk", channel |-> n]>>
  <2>1. Drops(out, out', n, "Open") /\ Adds(in, in', n, "OpenOk")
    BY <1>3, <1>5, <1>8 DEF Control
  <2>2. QED
    BY <1>2, <1>8, <2>1, OpensInProtocol
<1>9. CASE /\ type = "Close" /\ answer = <<[type |-> "CloseOk", channel |-> n]>>
           /\ (b = "open" /\ state = "closed") \/ (b = "closing" /\ state = "closing")
  <2>1. Drops(out, out', n, "Close") /\ Adds(in, in', n, "CloseOk")
    BY <1>3, <1>5, <1>9 DEF Control
  <2>2. QED
    BY <1>2, <1>9, <2>1, AnswersInProtocol
<1>10. CASE /\ type \in Served /\ state = b
            /\ answer \in {<<>>, <<[type |-> "QosOk", channel |-> n]>>,
                            <<[type |-> "FlowOk", channel |-> n]>>}
  <2>1. Same(out, out', n) /\ Same(in, in', n)
    BY <1>4, <1>6, <1>10
  <2>2. KeepsTo(out, in, b, out', in', b, n)
    BY <1>2, <2>1, SameKeeps DEF KeepsTo
  <2>3. QED
    BY <1>10, <2>2
<1>11. CASE type = "CloseOk" /\ state = (IF b = "closing" THEN "closed" ELSE b) /\ answer = <<>>
  <2>1. Drops(out, out', n, "CloseOk") /\ in' = in
    BY <1>1, <1>3, <1>11 DEF Control
  <2>2. b = "closing" /\ KeepsTo(out, in, b, out', in, "closed", n)
    BY <1>2, <2>1, ClosedInProtocol
  <2>3. QED
    BY <1>11, <2>1, <2>2
<1>12. CASE type = "Open" /\ b = "closing" /\ state = "closing" /\ answer = <<>>
  <2>1. Drops(out, out', n, "Open")
    BY <1>3, <1>12 DEF Control
  <2>2. QED
    BY <1>2, <1>12, <2>1, OpenIsAfterCloseOk
<1>13. CASE type \in Served /\ b = "closing" /\ state = "closing" /\ answer = <<>>
  BY <1>10, <1>13
<1>14. CASE /\ type \in Served /\ b = "open" /\ state = "open"
            /\ answer \in {<<>>, <<[type |-> "QosOk", channel |-> n]>>,
                            <<[type |-> "FlowOk", channel |-> n]>>}
  BY <1>10, <1>14
<1>15. type \in Served \cup {"Open"} => type \in Served \/ type = "Open"
  OBVIOUS
<1>16. QED
  <2>1. CASE type = "Open" /\ b = "closed" /\ state = "open"
             /\ answer = <<[type |-> "OpenOk", channel |-> n]>>
    BY <1>8, <2>1
  <2>2. CASE type = "Close" /\ b = "open" /\ state = "closed"
             /\ answer = <<[type |-> "CloseOk", channel |-> n]>>
    BY <1>9, <2>2
  <2>3. CASE type = "Close" /\ b = "closing" /\ state = "closing"
             /\ answer = <<[type |-> "CloseOk", channel |-> n]>>
    BY <1>9, <2>3
  <2>4. CASE type \in Served \cup {"Open"} /\ b = "closing" /\ state = "closing" /\ answer = <<>>
    BY <1>12, <1>13, <2>4
  <2>5. CASE /\ type \in {"Declare", "Bind", "Qos", "Flow"} /\ b = "open" /\ state = "open"
             /\ answer \in {<<>>, <<[type |-> "QosOk", channel |-> n]>>,
                             <<[type |-> "FlowOk", channel |-> n]>>}
    BY <1>14, <2>5 DEF Served
  <2>6. QED
    BY <1>7, <1>11, <2>1, <2>2, <2>3, <2>4, <2>5 DEF Reaction

LEMMA TakenInTime ==
    ASSUME Accepted, NEW n \in Numbers, NEW type, NEW state, NEW answer,
           Taken(type, n, state, answer), Reaction(type, n, broker[n], state, answer)
    PROVE  Distinct' /\ InProtocol'
<1>1. /\ Kept /\ Distinct /\ InProtocol /\ in \in Seq(InFrames) /\ out \in Seq(OutFrames)
      /\ broker \in [Numbers -> {"closed", "open", "closing"}]
  BY DEF Accepted, Kept, TypeOK
<1>2. /\ link = "up" /\ out # <<>> /\ Is(out, 1, n, type) /\ out' = Tail(out)
      /\ broker' = [broker EXCEPT ![n] = state] /\ in' = in \o answer
      /\ answer \in {<<>>} \cup {<<[type |-> t, channel |-> n]>> : t \in {"OpenOk", "CloseOk", "QosOk", "FlowOk"}}
      /\ UNCHANGED <<object, happened>>
  BY DEF Taken
<1>3. Distinct' /\ (Calm' <=> Calm)
  BY <1>1, <1>2 DEF Distinct, Exists, Calm
<1>4. ASSUME Calm
      PROVE  InProtocol'
  <2>1. /\ Protocol(out', in', n, state)
        /\ \A x : Agrees(out, in, n, broker[n], x) => Agrees(out', in', n, state, x)
    BY <1>1, <1>4, TakenInProtocol
  <2>2. /\ broker'[n] = state
        /\ \A m \in Numbers : m # n => broker'[m] = broker[m]
    BY <1>1, <1>2
  <2>3. ASSUME NEW m \in Numbers, m # n
        PROVE  Same(out, out', m) /\ Same(in, in', m)
    <3>1. \A t : ~Is(out, 1, m, t)
      BY <1>2, <2>3 DEF Is
    <3>2. Same(out, Tail(out), m)
      BY <1>1, <1>2, <3>1, SameTail
    <3>3. answer \in Seq(InFrames) /\ \A t : ~Has(answer, m, t)
      <4>1. CASE answer = <<>>
        <5>1. <<>> \in Seq(InFrames) /\ \A t : ~Has(<<>>, m, t)
          BY NoneSays
        <5>2. QED
          BY <4>1, <5>1
      <4>2. ASSUME NEW t \in {"OpenOk", "CloseOk", "QosOk", "FlowOk"},
                   answer = <<[type |-> t, channel |-> n]>>
            PROVE  answer \in Seq(InFrames) /\ \A u : ~Has(answer, m, u)
        <5> DEFINE f == [type |-> t, channel |-> n]
        <5>1. f \in InFrames /\ f.channel = n
          BY DEF InFrames
        <5>2. answer = <<f>>
          BY <4>2
        <5> HIDE DEF f
        <5>3. QED
          BY <2>3, <5>1, <5>2, OneSays
      <4>3. QED
        BY <1>2, <4>1, <4>2
    <3>4. Same(in, in \o answer, m)
      BY <1>1, <3>3, SameConcat
    <3>5. QED
      BY <1>2, <3>2, <3>4
  <2>4. \A o \in Objects : object[o].number = n => Agrees(out, in, n, broker[n], object[o].opened)
    BY <1>1, <1>2, <1>4, ProtocolSays
  <2>5. \A o \in Objects : object'[o].number = n =>
             Agrees(out', in', n, broker'[n], object'[o].opened)
    BY <1>2, <2>1, <2>2, <2>4
  <2>6. \A m \in Numbers : m # n =>
             Same(out, out', m) /\ Same(in, in', m) /\ broker'[m] = broker[m]
    BY <2>2, <2>3
  <2>7. Protocol(out', in', n, broker'[n])
    BY <2>1, <2>2
  <2>8. \A o \in Objects : object'[o].number # n =>
              \/ ~Exists(o)'
              \/ object'[o].number = object[o].number /\ object'[o].opened = object[o].opened
    BY <1>2
  <2>9. QED
    BY <1>1, <1>2, <1>4, <2>5, <2>6, <2>7, <2>8, StepInProtocol
<1>5. QED
  BY <1>3, <1>4 DEF InProtocol

LEMMA BrokerClosesInTime ==
    ASSUME Accepted, NEW n \in Numbers, BrokerCloses(n)
    PROVE  Distinct' /\ InProtocol'
<1> DEFINE f == [type |-> "Close", channel |-> n]
<1>1. /\ Kept /\ Distinct /\ InProtocol /\ in \in Seq(InFrames)
      /\ broker \in [Numbers -> {"closed", "open", "closing"}]
  BY DEF Accepted, Kept, TypeOK
<1>2. /\ link = "up" /\ broker[n] = "open" /\ broker' = [broker EXCEPT ![n] = "closing"]
      /\ UNCHANGED <<out, object, happened>>
  BY DEF BrokerCloses
<1>3. in' = in \o <<f>>
  BY <1>1 DEF BrokerCloses
<1>4. f \in InFrames /\ f.type = "Close" /\ f.channel = n
  BY DEF InFrames
<1> HIDE DEF f
<1>5. Distinct' /\ (Calm' <=> Calm)
  BY <1>1, <1>2 DEF Distinct, Exists, Calm
<1>6. ASSUME Calm
      PROVE  InProtocol'
  <2>1. /\ Adds(in, in', n, "Close")
        /\ \A m : m # n => Same(in, in', m)
    BY <1>1, <1>3, <1>4, AddsOne DEF Control
  <2>2. \A m : Same(out, out', m)
    BY <1>2, SameSelf
  <2>3. /\ Protocol(out, in, n, "open")
        /\ \A o \in Objects : object[o].number = n => Agrees(out, in, n, "open", object[o].opened)
    BY <1>1, <1>2, <1>6, ProtocolSays
  <2>4. KeepsTo(out, in, "open", out, in', "closing", n)
    BY <2>1, <2>3, ClosesInProtocol
  <2>5. /\ broker'[n] = "closing"
        /\ \A m \in Numbers : m # n => broker'[m] = broker[m]
    BY <1>1, <1>2
  <2>6. \A m \in Numbers : m # n =>
             Same(out, out', m) /\ Same(in, in', m) /\ broker'[m] = broker[m]
    BY <2>1, <2>2, <2>5
  <2>7. Protocol(out', in', n, broker'[n])
    BY <1>2, <2>4, <2>5 DEF KeepsTo
  <2>8. \A o \in Objects : object'[o].number = n =>
             Agrees(out', in', n, broker'[n], object'[o].opened)
    BY <1>2, <2>3, <2>4, <2>5 DEF KeepsTo
  <2>9. \A o \in Objects : object'[o].number # n =>
              \/ ~Exists(o)'
              \/ object'[o].number = object[o].number /\ object'[o].opened = object[o].opened
    BY <1>2
  <2>10. QED
    BY <1>1, <1>2, <1>6, <2>6, <2>7, <2>8, <2>9, StepInProtocol
<1>7. QED
  BY <1>5, <1>6 DEF InProtocol

-----------------------------------------------------------------------------
(* The inductive invariant with both of its parts.                         *)

LEMMA InitAccepted == Init => Accepted
<1>1. Init => Kept
  BY InitKept
<1>2. Init => Distinct
  BY DEF Init, Distinct, Exists, Absent
<1>3. Init => InProtocol
  BY DEF Init, InProtocol
<1>4. QED
  BY <1>1, <1>2, <1>3 DEF Accepted

LEMMA NextAccepts ==
    ASSUME Accepted, Next
    PROVE  Accepted'
<1>1. Kept /\ Kept'
  BY NextKeeps DEF Accepted
<1>2. CASE User
  <2>1. ASSUME Create
        PROVE  Distinct' /\ InProtocol'
    BY <2>1, CreateInTime
  <2>2. ASSUME NEW o \in Objects, Delete(o)
        PROVE  Distinct' /\ InProtocol'
    BY <2>2, DeleteInTime
  <2>3. ASSUME NEW o \in Objects,
               Close(o) \/ Reopen(o) \/ Reset(o) \/ Declare(o) \/ Qos(o) \/ Resume(o)
        PROVE  Distinct' /\ InProtocol'
    BY <1>1, <2>3, CallsAskInTime, AskedInTimeKeeps
  <2>4. ASSUME NEW q \in Queues, Bind(q)
        PROVE  Distinct' /\ InProtocol'
    <3>1. q \in Objects
      BY DEF Objects
    <3>2. QED
      BY <1>1, <2>4, <3>1, CallsAskInTime, AskedInTimeKeeps
  <2>5. Distinct' /\ InProtocol'
    BY <1>2, <2>1, <2>2, <2>3, <2>4 DEF User
  <2>6. QED
    BY <1>1, <2>5 DEF Accepted
<1>3. CASE Link
  BY <1>1, <1>3, LinkUpInTime, LinkStepsEnd, LinkEndsInTime DEF Link, Accepted
<1>4. CASE Reading
  BY <1>1, <1>4, ReadingInTime DEF Accepted
<1>5. CASE BrokerReads
  <2>1. CASE BrokerRefuses
    BY <1>1, <2>1, LinkStepsEnd, LinkEndsInTime DEF BrokerRefuses, Accepted
  <2>2. ASSUME NEW n \in Numbers,
               \/ BrokerOpens(n) \/ BrokerAnswersClose(n) \/ BrokerServes(n)
               \/ BrokerWaitsForCloseOk(n)
        PROVE  Distinct' /\ InProtocol'
    <3>1. PICK type, state, answer :
             Taken(type, n, state, answer) /\ Reaction(type, n, broker[n], state, answer)
      BY <1>1, <2>2, BrokerReadsTakes
    <3>2. QED
      BY <3>1, TakenInTime
  <2>3. QED
    BY <1>1, <1>5, <2>1, <2>2 DEF BrokerReads, Accepted
<1>6. CASE \E n \in Numbers : BrokerCloses(n)
  BY <1>1, <1>6, BrokerClosesInTime DEF Accepted
<1>7. QED
  BY <1>2, <1>3, <1>4, <1>5, <1>6 DEF Next

LEMMA UnchangedAccepts ==
    ASSUME Accepted, UNCHANGED vars
    PROVE  Accepted'
<1>1. UNCHANGED <<link, object, order, next, out, in, broker, limit, happened, calls, losses>>
  BY DEF vars
<1>2. Kept'
  BY UnchangedKeeps DEF Accepted
<1>3. Distinct' /\ InProtocol'
  BY <1>1 DEF Accepted, Distinct, InProtocol, Calm, Exists
<1>4. QED
  BY <1>2, <1>3 DEF Accepted

\* And what the frames on their way say of each channel, while it is calm.
THEOREM AcceptedHolds == Spec => []Accepted
<1>1. Accepted /\ [Next]_vars => Accepted'
  BY NextAccepts, UnchangedAccepts
<1>2. QED
  BY InitAccepted, <1>1, PTL DEF Spec

\* The broker is never sent a frame that it refuses, which would end the
\* connection with all the channels of it, as long as none of the events comes
\* in between: each channel is opened once, by the one object it belongs to,
\* and nothing is sent on it before that or after its close.
THEOREM FramesAcceptedHolds == Spec => []FramesAccepted
<1>1. ASSUME Accepted
      PROVE  FramesAccepted
  <2> SUFFICES ASSUME out # <<>>, Refuses(Head(out)), Calm
               PROVE  FALSE
    BY DEF FramesAccepted, Harmless, Calm
  <2> DEFINE f == Head(out)
             n == f.channel
  <2>1. /\ out \in Seq(OutFrames) /\ link = "up" /\ InProtocol
    BY <1>1 DEF Accepted, Kept, TypeOK, NothingLeft
  <2>2. f = out[1] /\ f \in OutFrames
    BY <2>1
  <2>3. n \in Numbers /\ f.type \in {"Open", "Close", "CloseOk"} \cup Served
    BY <2>2 DEF OutFrames, Served
  <2>4. Protocol(out, in, n, broker[n])
    BY <2>1, <2>3 DEF InProtocol
  <2>5. /\ Is(out, 1, n, "Open") => broker[n] # "open"
        /\ Is(out, 1, n, "Close") => broker[n] # "closed"
        /\ IsServed(out, 1, n) => broker[n] # "closed"
    BY <2>1, <2>4, InProtocolIsAccepted
  <2>6. QED
    BY <2>2, <2>3, <2>5 DEF Is, IsServed, Refuses
<1>2. QED
  BY AcceptedHolds, <1>1, PTL

-----------------------------------------------------------------------------
(* The prefetch.  What is on its way on one channel, with the frames of    *)
(* the others left out.                                                    *)

Other == [type |-> "Other"]

Of(s, n) == [i \in DOMAIN s |-> IF s[i].channel = n THEN s[i] ELSE Other]

LEMMA OfSays ==
    ASSUME NEW F, NEW s \in Seq(F), NEW n
    PROVE  /\ Of(s, n) \in Seq(F \cup {Other})
           /\ DOMAIN Of(s, n) = DOMAIN s /\ Len(Of(s, n)) = Len(s)
           /\ \A i \in DOMAIN s : Of(s, n)[i] = IF s[i].channel = n THEN s[i] ELSE Other
           /\ s = <<>> => Of(s, n) = <<>>
           /\ s # <<>> => Of(s, n) # <<>> /\ 1 \in DOMAIN s
<1> DEFINE r == Of(s, n)
           E == F \cup {Other}
<1>1. DOMAIN s = 1..Len(s) /\ Len(s) \in Nat /\ \A i \in DOMAIN s : s[i] \in F
  OBVIOUS
<1>2. DOMAIN r = DOMAIN s /\ \A i \in DOMAIN s : r[i] = IF s[i].channel = n THEN s[i] ELSE Other
  BY DEF Of
<1>3. \A i \in DOMAIN s : r[i] \in E
  BY <1>1, <1>2
<1>4. r = [i \in DOMAIN s |-> r[i]]
  BY DEF Of
<1> HIDE DEF r, E
<1>5. r \in [1..Len(s) -> E]
  BY <1>1, <1>2, <1>3, <1>4
<1>6. r \in Seq(E) /\ Len(r) = Len(s)
  BY <1>1, <1>5
<1>7. s = <<>> => r = <<>>
  BY <1>1, <1>6
<1>8. s # <<>> => r # <<>> /\ 1 \in DOMAIN s
  BY <1>1, <1>6
<1>9. QED
  BY <1>2, <1>6, <1>7, <1>8 DEF r, E

LEMMA SameEntries ==
    ASSUME NEW E, NEW a \in Seq(E), NEW b \in Seq(E), Len(a) = Len(b),
           \A i \in DOMAIN a : a[i] = b[i]
    PROVE  a = b
  OBVIOUS

LEMMA OfTail ==
    ASSUME NEW F, NEW s \in Seq(F), s # <<>>, NEW n
    PROVE  Of(Tail(s), n) = Tail(Of(s, n))
<1> DEFINE E == F \cup {Other}
           t == Tail(s)
           a == Of(s, n)
           b == Of(t, n)
<1>1. ASSUME NEW r \in Seq(F)
      PROVE  /\ Of(r, n) \in Seq(E) /\ DOMAIN Of(r, n) = DOMAIN r /\ Len(Of(r, n)) = Len(r)
             /\ \A i \in DOMAIN r : Of(r, n)[i] = IF r[i].channel = n THEN r[i] ELSE Other
  BY OfSays
<1>2. Len(t) = Len(s) - 1 /\ Len(s) \in Nat /\ DOMAIN t = 1..(Len(s) - 1)
  OBVIOUS
<1>3. \A i \in DOMAIN t : i + 1 \in DOMAIN s /\ t[i] = s[i + 1]
  BY TailEntries
<1>4. t \in Seq(F)
  OBVIOUS
<1> HIDE DEF t
<1>5. /\ a \in Seq(E) /\ a # <<>> /\ Len(a) = Len(s)
      /\ \A i \in DOMAIN s : a[i] = IF s[i].channel = n THEN s[i] ELSE Other
  BY OfSays
<1>6. /\ b \in Seq(E) /\ DOMAIN b = DOMAIN t /\ Len(b) = Len(t)
      /\ \A i \in DOMAIN t : b[i] = IF t[i].channel = n THEN t[i] ELSE Other
  BY <1>4, <1>1
<1> HIDE DEF a, b, E
<1>7. Tail(a) \in Seq(E) /\ Len(Tail(a)) = Len(a) - 1 /\ DOMAIN Tail(a) = 1..(Len(a) - 1)
  BY <1>5
<1>8. \A i \in DOMAIN Tail(a) : Tail(a)[i] = a[i + 1]
  BY <1>5, TailEntries
<1>9. ASSUME NEW i \in DOMAIN b PROVE b[i] = Tail(a)[i]
  <2>1. i \in DOMAIN t /\ i \in DOMAIN Tail(a)
    BY <1>2, <1>5, <1>6, <1>7
  <2>2. t[i] = s[i + 1] /\ i + 1 \in DOMAIN s
    BY <1>3, <2>1
  <2>3. Tail(a)[i] = a[i + 1]
    BY <1>8, <2>1
  <2>4. b[i] = IF t[i].channel = n THEN t[i] ELSE Other
    BY <1>6, <2>1
  <2>5. a[i + 1] = IF s[i + 1].channel = n THEN s[i + 1] ELSE Other
    BY <1>5, <2>2
  <2>6. QED
    BY <2>2, <2>3, <2>4, <2>5
<1>10. Len(b) = Len(Tail(a))
  BY <1>2, <1>5, <1>6, <1>7
<1>11. QED
  BY <1>6, <1>7, <1>9, <1>10, SameEntries DEF a, b, t

LEMMA OfAppend ==
    ASSUME NEW F, NEW s \in Seq(F), NEW f \in F, NEW n
    PROVE  Of(s \o <<f>>, n) = Append(Of(s, n), IF f.channel = n THEN f ELSE Other)
<1> DEFINE E == F \cup {Other}
           e == IF f.channel = n THEN f ELSE Other
           t == Append(s, f)
           a == Of(s, n)
           b == Of(t, n)
<1>1. /\ t \in Seq(F) /\ DOMAIN t = 1..(Len(s) + 1) /\ t[Len(s) + 1] = f
      /\ \A i \in DOMAIN s : t[i] = s[i]
      /\ DOMAIN s = 1..Len(s) /\ Len(s) \in Nat
  BY AppendEntries
<1>2. Len(t) = Len(s) + 1 /\ s \o <<f>> = t /\ e \in E
  OBVIOUS
<1>3. t \in Seq(F)
  BY <1>1
<1> HIDE DEF t, e
<1>4. /\ a \in Seq(E) /\ DOMAIN a = DOMAIN s /\ Len(a) = Len(s)
      /\ \A i \in DOMAIN s : a[i] = IF s[i].channel = n THEN s[i] ELSE Other
  BY OfSays
<1>5. /\ b \in Seq(E) /\ DOMAIN b = DOMAIN t /\ Len(b) = Len(t)
      /\ \A i \in DOMAIN t : b[i] = IF t[i].channel = n THEN t[i] ELSE Other
  BY <1>3, OfSays
<1> HIDE DEF a, b, E
<1> DEFINE r == Append(a, e)
<1>6. /\ r \in Seq(E) /\ DOMAIN r = 1..(Len(a) + 1) /\ r[Len(a) + 1] = e
      /\ \A i \in DOMAIN a : r[i] = a[i]
  BY <1>2, <1>4, AppendEntries
<1>7. Len(r) = Len(a) + 1
  BY <1>2, <1>4
<1> HIDE DEF r
<1>8. ASSUME NEW i \in DOMAIN b PROVE b[i] = r[i]
  <2>1. i \in DOMAIN s \/ i = Len(s) + 1
    BY <1>1, <1>5
  <2>2. CASE i \in DOMAIN s
    <3>1. b[i] = IF s[i].channel = n THEN s[i] ELSE Other
      BY <1>1, <1>5, <2>2
    <3>2. r[i] = a[i]
      BY <1>4, <1>6, <2>2
    <3>3. QED
      BY <1>4, <2>2, <3>1, <3>2
  <2>3. CASE i = Len(s) + 1
    <3>1. b[i] = e
      BY <1>1, <1>5, <2>3 DEF e
    <3>2. r[i] = e
      BY <1>4, <1>6, <2>3
    <3>3. QED
      BY <3>1, <3>2
  <2>4. QED
    BY <2>1, <2>2, <2>3
<1>9. Len(b) = Len(r)
  BY <1>2, <1>4, <1>5, <1>7
<1>10. b = r
  BY <1>5, <1>6, <1>8, <1>9, SameEntries
<1>11. QED
  BY <1>2, <1>10 DEF a, b, e, r, t

\* The entries of s are in t where they were, further ones are of the types T.
Extends(s, t, T) ==
    /\ \A i \in DOMAIN s : i \in DOMAIN t /\ t[i] = s[i] /\ i \in Int
    /\ \A i \in DOMAIN t : i \in DOMAIN s \/ t[i].type \in T

LEMMA OfConcat ==
    ASSUME NEW F, NEW s \in Seq(F), NEW fs \in Seq(F), NEW n, NEW T,
           \A i \in DOMAIN fs : fs[i].channel = n => fs[i].type \in T
    PROVE  Extends(Of(s, n), Of(s \o fs, n), T \cup {"Other"})
<1> DEFINE t == s \o fs
           a == Of(s, n)
           b == Of(t, n)
<1>1. /\ t \in Seq(F) /\ DOMAIN t = 1..(Len(s) + Len(fs))
      /\ \A i \in DOMAIN s : t[i] = s[i]
      /\ \A i \in DOMAIN t : i \in DOMAIN s \/ \E k \in DOMAIN fs : t[i] = fs[k]
      /\ DOMAIN s = 1..Len(s) /\ Len(s) \in Nat /\ Len(fs) \in Nat
  <2>1. /\ t \in Seq(F) /\ DOMAIN t = 1..(Len(s) + Len(fs))
        /\ DOMAIN s = 1..Len(s) /\ Len(s) \in Nat /\ Len(fs) \in Nat
    OBVIOUS
  <2>2. \A i \in 1..(Len(s) + Len(fs)) : t[i] = IF i <= Len(s) THEN s[i] ELSE fs[i - Len(s)]
    BY ConcatEntries
  <2> HIDE DEF t
  <2>3. \A i \in DOMAIN s : t[i] = s[i]
    BY <2>1, <2>2
  <2>4. DOMAIN fs = 1..Len(fs)
    OBVIOUS
  <2>5. ASSUME NEW i \in DOMAIN t, i \notin DOMAIN s PROVE \E k \in DOMAIN fs : t[i] = fs[k]
    <3>1. i \in 1..(Len(s) + Len(fs)) /\ ~(i <= Len(s)) /\ i - Len(s) \in 1..Len(fs)
      BY <2>1, <2>5
    <3>2. t[i] = fs[i - Len(s)]
      BY <2>2, <3>1
    <3>3. QED
      BY <2>4, <3>1, <3>2
  <2>6. QED
    BY <2>1, <2>3, <2>5
<1>2. t \in Seq(F)
  BY <1>1
<1> HIDE DEF t
<1>3. DOMAIN a = DOMAIN s /\ \A i \in DOMAIN s : a[i] = IF s[i].channel = n THEN s[i] ELSE Other
  BY OfSays
<1>4. DOMAIN b = DOMAIN t /\ \A i \in DOMAIN t : b[i] = IF t[i].channel = n THEN t[i] ELSE Other
  BY <1>2, OfSays
<1> HIDE DEF a, b
<1>5. \A i \in DOMAIN a : i \in DOMAIN b /\ b[i] = a[i] /\ i \in Int
  BY <1>1, <1>3, <1>4
<1>6. ASSUME NEW i \in DOMAIN b, i \notin DOMAIN a PROVE b[i].type \in T \cup {"Other"}
  <2>1. PICK k \in DOMAIN fs : t[i] = fs[k]
    BY <1>1, <1>3, <1>4, <1>6
  <2>2. CASE t[i].channel = n
    BY <1>4, <1>6, <2>1, <2>2
  <2>3. CASE t[i].channel # n
    BY <1>4, <1>6, <2>3 DEF Other
  <2>4. QED
    BY <2>2, <2>3
<1>7. QED
  BY <1>5, <1>6 DEF Extends, a, b, t

LEMMA HasIsOf ==
    ASSUME NEW F, NEW s \in Seq(F), NEW n, NEW t, t # "Other"
    PROVE  Has(s, n, t) <=> HasType(Of(s, n), t)
<1>1. /\ DOMAIN Of(s, n) = DOMAIN s
      /\ \A i \in DOMAIN s : Of(s, n)[i] = IF s[i].channel = n THEN s[i] ELSE Other
  BY OfSays
<1>2. \A i \in DOMAIN s : Of(s, n)[i].type = t <=> s[i].channel = n /\ s[i].type = t
  BY <1>1 DEF Other
<1>3. QED
  BY <1>1, <1>2 DEF Has, Is, HasType

-----------------------------------------------------------------------------
\* The last basic.qos under way is the one last asked for.
LastAsks(o, count) ==
    \A i \in DOMAIN o :
        o[i].type = "Qos" /\ (\A j \in DOMAIN o : j > i => o[j].type # "Qos") => o[i].count = count

\* The broker reads closeOk before any basic.qos.
BehindCloseOk(o) ==
    \A j \in DOMAIN o : o[j].type = "Qos" => \E i \in DOMAIN o : i < j /\ o[i].type = "CloseOk"

Ending(s) == HasType(s, "Close") \/ HasType(s, "CloseOk")

\* qos() was never called, and nothing of it is anywhere.
Unasked(prefetch, lim, o, s) ==
    prefetch = 0 /\ lim = 0 /\ ~HasType(o, "Qos") /\ ~HasType(s, "QosOk")

\* What the broker keeps to is what will be, or is, noted as agreed.
Agreeing(requested, prefetch, ch, lim, o, s) ==
    /\ LastAsks(o, requested)
    /\ ch = "open" /\ ~HasType(o, "Qos")
         => lim = IF HasType(s, "QosOk") THEN requested ELSE prefetch
    /\ ch # "open" => prefetch = 0 /\ ~HasType(s, "QosOk")
    /\ ch = "closing" => BehindCloseOk(o)

\* One object, its channel at the broker and the frames of that channel.
Orderly(opened, requested, prefetch, ch, lim, o, s) ==
    /\ Handshake(ch, opened, o, s)
    /\ opened /\ ch = "open" => ~HasType(s, "CloseOk")
    /\ requested = 0 => Unasked(prefetch, lim, o, s)
    /\ requested # 0 /\ ~Ending(s) => Agreeing(requested, prefetch, ch, lim, o, s)

LEMMA TypesTail ==
    ASSUME NEW F, NEW s \in Seq(F), s # <<>>, NEW t
    PROVE  HasType(s, t) <=> s[1].type = t \/ HasType(Tail(s), t)
<1> DEFINE r == Tail(s)
<1>1. /\ \A i \in DOMAIN r : i + 1 \in DOMAIN s /\ r[i] = s[i + 1]
      /\ \A i \in DOMAIN s : i = 1 \/ (i - 1 \in DOMAIN r /\ r[i - 1] = s[i])
      /\ 1 \in DOMAIN s
  BY ShiftIs
<1> HIDE DEF r
<1>2. QED
  BY <1>1 DEF HasType, r

LEMMA TypesAppend ==
    ASSUME NEW F, NEW s \in Seq(F), NEW f \in F, NEW t
    PROVE  HasType(Append(s, f), t) <=> HasType(s, t) \/ f.type = t
<1> DEFINE r == Append(s, f)
           n == Len(s) + 1
<1>1. /\ \A i \in DOMAIN r : (i \in DOMAIN s /\ r[i] = s[i]) \/ (i = n /\ r[i] = f)
      /\ \A i \in DOMAIN s : i \in DOMAIN r /\ r[i] = s[i]
      /\ n \in DOMAIN r /\ r[n] = f
  BY GrowthIs
<1> HIDE DEF r, n
<1>2. QED
  BY <1>1 DEF HasType, r

LEMMA TypesExtend ==
    ASSUME NEW s, NEW u, NEW T, Extends(s, u, T), NEW t, t \notin T
    PROVE  HasType(u, t) <=> HasType(s, t)
  BY DEF HasType, Extends

LEMMA AsksTail ==
    ASSUME NEW F, NEW o \in Seq(F), o # <<>>, NEW count, LastAsks(o, count)
    PROVE  /\ LastAsks(Tail(o), count)
           /\ o[1].type = "Qos" /\ ~HasType(Tail(o), "Qos") => o[1].count = count
<1> DEFINE p == Tail(o)
<1>1. /\ \A i \in DOMAIN p : i \in Int /\ i >= 1 /\ i + 1 \in DOMAIN o /\ p[i] = o[i + 1]
      /\ \A i \in DOMAIN o : i = 1 \/ (i - 1 \in DOMAIN p /\ p[i - 1] = o[i])
      /\ \A i \in DOMAIN o : i \in Int /\ i >= 1
      /\ 1 \in DOMAIN o
  BY ShiftIs
<1> HIDE DEF p
<1>2. ASSUME NEW i \in DOMAIN p, p[i].type = "Qos", \A j \in DOMAIN p : j > i => p[j].type # "Qos"
      PROVE  p[i].count = count
  <2>1. i + 1 \in DOMAIN o /\ p[i] = o[i + 1] /\ i \in Int /\ i >= 1
    BY <1>1
  <2>2. ASSUME NEW j \in DOMAIN o, j > i + 1 PROVE o[j].type # "Qos"
    <3>1. j \in Int /\ j # 1 /\ j - 1 > i
      BY <1>1, <2>1, <2>2
    <3>2. j - 1 \in DOMAIN p /\ p[j - 1] = o[j]
      BY <1>1, <3>1
    <3>3. QED
      BY <1>2, <3>1, <3>2
  <2>3. QED
    BY <1>2, <2>1, <2>2 DEF LastAsks
<1>3. ASSUME o[1].type = "Qos", ~HasType(p, "Qos") PROVE o[1].count = count
  <2>1. ASSUME NEW j \in DOMAIN o, j > 1 PROVE o[j].type # "Qos"
    <3>1. j # 1
      BY <2>1
    <3>2. j - 1 \in DOMAIN p /\ p[j - 1] = o[j]
      BY <1>1, <3>1
    <3>3. QED
      BY <1>3, <3>2 DEF HasType
  <2>2. QED
    BY <1>1, <1>3, <2>1 DEF LastAsks
<1>4. QED
  BY <1>2, <1>3 DEF LastAsks, p

LEMMA AsksAppend ==
    ASSUME NEW F, NEW o \in Seq(F), NEW f \in F, NEW count,
           f.type = "Qos" => f.count = count,
           f.type # "Qos" => LastAsks(o, count)
    PROVE  LastAsks(Append(o, f), count)
<1> DEFINE p == Append(o, f)
           n == Len(o) + 1
<1>1. /\ \A i \in DOMAIN p : i \in Int /\ ((i \in DOMAIN o /\ p[i] = o[i] /\ i < n) \/ (i = n /\ p[i] = f))
      /\ \A i \in DOMAIN o : i \in DOMAIN p /\ p[i] = o[i] /\ i < n /\ i \in Int
      /\ n \in DOMAIN p /\ p[n] = f /\ n \in Int
  BY GrowthIs
<1> HIDE DEF p, n
<1>2. ASSUME NEW i \in DOMAIN p, p[i].type = "Qos", \A j \in DOMAIN p : j > i => p[j].type # "Qos"
      PROVE  p[i].count = count
  <2>1. CASE i = n
    BY <1>1, <1>2, <2>1
  <2>2. CASE i # n
    <3>1. i \in DOMAIN o /\ p[i] = o[i] /\ n > i
      BY <1>1, <2>2
    <3>2. f.type # "Qos"
      BY <1>1, <1>2, <3>1
    <3>3. \A j \in DOMAIN o : j > i => o[j].type # "Qos"
      BY <1>1, <1>2
    <3>4. QED
      BY <1>2, <3>1, <3>2, <3>3 DEF LastAsks
  <2>3. QED
    BY <2>1, <2>2
<1>3. QED
  BY <1>2 DEF LastAsks, p

LEMMA BehindTail ==
    ASSUME NEW F, NEW o \in Seq(F), o # <<>>, BehindCloseOk(o), o[1].type # "CloseOk"
    PROVE  BehindCloseOk(Tail(o)) /\ o[1].type # "Qos"
<1> DEFINE p == Tail(o)
<1>1. /\ \A i \in DOMAIN p : i \in Int /\ i >= 1 /\ i + 1 \in DOMAIN o /\ p[i] = o[i + 1]
      /\ \A i \in DOMAIN o : i = 1 \/ (i - 1 \in DOMAIN p /\ p[i - 1] = o[i])
      /\ \A i \in DOMAIN o : i \in Int /\ i >= 1
      /\ 1 \in DOMAIN o
  BY ShiftIs
<1> HIDE DEF p
<1>2. ASSUME NEW j \in DOMAIN p, p[j].type = "Qos"
      PROVE  \E i \in DOMAIN p : i < j /\ p[i].type = "CloseOk"
  <2>1. j + 1 \in DOMAIN o /\ p[j] = o[j + 1] /\ j \in Int
    BY <1>1
  <2>2. PICK i \in DOMAIN o : i < j + 1 /\ o[i].type = "CloseOk"
    BY <1>2, <2>1 DEF BehindCloseOk
  <2>3. i \in Int /\ i # 1 /\ i - 1 < j
    BY <1>1, <2>1, <2>2
  <2>4. i - 1 \in DOMAIN p /\ p[i - 1] = o[i]
    BY <1>1, <2>3
  <2>5. QED
    BY <2>2, <2>3, <2>4
<1>3. o[1].type # "Qos"
  BY <1>1 DEF BehindCloseOk
<1>4. QED
  BY <1>2, <1>3 DEF BehindCloseOk, p

LEMMA BehindAppend ==
    ASSUME NEW F, NEW o \in Seq(F), BehindCloseOk(o), NEW f \in F,
           f.type = "Qos" => HasType(o, "CloseOk")
    PROVE  BehindCloseOk(Append(o, f))
<1> DEFINE p == Append(o, f)
           n == Len(o) + 1
<1>1. /\ \A i \in DOMAIN p : i \in Int /\ ((i \in DOMAIN o /\ p[i] = o[i] /\ i < n) \/ (i = n /\ p[i] = f))
      /\ \A i \in DOMAIN o : i \in DOMAIN p /\ p[i] = o[i] /\ i < n /\ i \in Int
  BY GrowthIs
<1> HIDE DEF p, n
<1>2. ASSUME NEW j \in DOMAIN p, p[j].type = "Qos"
      PROVE  \E i \in DOMAIN p : i < j /\ p[i].type = "CloseOk"
  <2>1. CASE j \in DOMAIN o /\ p[j] = o[j]
    BY <1>1, <1>2, <2>1 DEF BehindCloseOk
  <2>2. CASE j = n /\ p[j] = f
    BY <1>1, <1>2, <2>2 DEF HasType
  <2>3. QED
    BY <1>1, <2>1, <2>2
<1>3. QED
  BY <1>2 DEF BehindCloseOk, p

-----------------------------------------------------------------------------
(* The steps of the client and of the broker on the channel of one object. *)

\* The client sends frames that this is not about.
LEMMA OrderlyAside ==
    ASSUME NEW opened, NEW requested, NEW prefetch, NEW ch, NEW lim, NEW o, NEW s,
           Orderly(opened, requested, prefetch, ch, lim, o, s),
           NEW p, Extends(o, p, {"Other", "Declare", "Bind", "Flow"})
    PROVE  Orderly(opened, requested, prefetch, ch, lim, p, s)
<1>1. SameUses(o, p)
  BY DEF SameUses, Extends, Needs
<1>2. Handshake(ch, opened, p, s)
  BY <1>1, HandshakeAside DEF Orderly
<1>3. HasType(p, "Qos") <=> HasType(o, "Qos")
  BY TypesExtend
<1>4. ASSUME NEW count, LastAsks(o, count) PROVE LastAsks(p, count)
  <2>1. ASSUME NEW i \in DOMAIN p, p[i].type = "Qos", \A j \in DOMAIN p : j > i => p[j].type # "Qos"
        PROVE  p[i].count = count
    <3>1. i \in DOMAIN o /\ p[i] = o[i]
      BY <2>1 DEF Extends
    <3>2. \A j \in DOMAIN o : j > i => o[j].type # "Qos"
      BY <2>1 DEF Extends
    <3>3. QED
      BY <1>4, <2>1, <3>1, <3>2 DEF LastAsks
  <2>2. QED
    BY <2>1 DEF LastAsks
<1>5. ASSUME BehindCloseOk(o) PROVE BehindCloseOk(p)
  <2>1. ASSUME NEW j \in DOMAIN p, p[j].type = "Qos"
        PROVE  \E i \in DOMAIN p : i < j /\ p[i].type = "CloseOk"
    <3>1. j \in DOMAIN o /\ o[j].type = "Qos"
      BY <2>1 DEF Extends
    <3>2. PICK i \in DOMAIN o : i < j /\ o[i].type = "CloseOk"
      BY <1>5, <3>1 DEF BehindCloseOk
    <3>3. QED
      BY <3>2 DEF Extends
  <2>2. QED
    BY <2>1 DEF BehindCloseOk
<1>6. requested = 0 => Unasked(prefetch, lim, p, s)
  BY <1>3 DEF Orderly, Unasked
<1>7. requested # 0 /\ ~Ending(s) => Agreeing(requested, prefetch, ch, lim, p, s)
  BY <1>3, <1>4, <1>5 DEF Orderly, Agreeing
<1>8. QED
  BY <1>2, <1>6, <1>7 DEF Orderly

\* The broker sends frames that this is not about.
LEMMA OrderlyHears ==
    ASSUME NEW opened, NEW requested, NEW prefetch, NEW ch, NEW lim, NEW o, NEW s,
           Orderly(opened, requested, prefetch, ch, lim, o, s),
           NEW u, Extends(s, u, {"Other", "FlowOk"})
    PROVE  Orderly(opened, requested, prefetch, ch, lim, o, u)
<1>1. SameEnds(s, u)
  BY DEF SameEnds, Extends
<1>2. Handshake(ch, opened, o, u)
  BY <1>1, HandshakeNeutral DEF Orderly
<1>3. /\ HasType(u, "QosOk") <=> HasType(s, "QosOk")
      /\ HasType(u, "CloseOk") <=> HasType(s, "CloseOk")
      /\ HasType(u, "Close") <=> HasType(s, "Close")
  <2>1. HasType(u, "QosOk") <=> HasType(s, "QosOk")
    BY TypesExtend
  <2>2. HasType(u, "CloseOk") <=> HasType(s, "CloseOk")
    BY TypesExtend
  <2>3. HasType(u, "Close") <=> HasType(s, "Close")
    BY TypesExtend
  <2>4. QED
    BY <2>1, <2>2, <2>3
<1>4. requested = 0 => Unasked(prefetch, lim, o, u)
  BY <1>3 DEF Orderly, Unasked
<1>5. requested # 0 /\ ~Ending(u) => Agreeing(requested, prefetch, ch, lim, o, u)
  BY <1>3 DEF Orderly, Agreeing, Ending
<1>6. QED
  BY <1>2, <1>3, <1>4, <1>5 DEF Orderly

\* The broker reads a frame, and drops a basic.qos only while it waits for closeOk.
LEMMA OrderlyTaken ==
    ASSUME NEW opened, NEW requested, NEW prefetch, NEW ch, NEW lim,
           NEW F, NEW o \in Seq(F), NEW G, NEW s \in Seq(G),
           Orderly(opened, requested, prefetch, ch, lim, o, s),
           o # <<>>, o[1].type # "CloseOk", o[1].type = "Qos" => ch = "closing"
    PROVE  Orderly(opened, requested, prefetch, ch, lim, Tail(o), s)
<1>1. Handshake(ch, opened, Tail(o), s)
  BY HandshakeTaken DEF Orderly
<1>2. HasType(o, "Qos") <=> o[1].type = "Qos" \/ HasType(Tail(o), "Qos")
  BY TypesTail
<1>3. requested = 0 => Unasked(prefetch, lim, Tail(o), s)
  BY <1>2 DEF Orderly, Unasked
<1>4. ASSUME requested # 0, ~Ending(s) PROVE Agreeing(requested, prefetch, ch, lim, Tail(o), s)
  <2>1. Agreeing(requested, prefetch, ch, lim, o, s)
    BY <1>4 DEF Orderly
  <2>2. LastAsks(Tail(o), requested)
    BY <2>1, AsksTail DEF Agreeing
  <2>3. ch = "closing" => BehindCloseOk(Tail(o)) /\ o[1].type # "Qos"
    BY <2>1, BehindTail DEF Agreeing
  <2>4. QED
    BY <1>2, <2>1, <2>2, <2>3 DEF Agreeing
<1>5. QED
  BY <1>1, <1>3, <1>4 DEF Orderly

\* The client reads a frame of the broker that does not end the channel.
LEMMA OrderlyRead ==
    ASSUME NEW opened \in BOOLEAN, NEW requested, NEW prefetch, NEW ch, NEW lim,
           NEW F, NEW o \in Seq(F), NEW G, NEW s \in Seq(G),
           Orderly(opened, requested, prefetch, ch, lim, o, s),
           s # <<>>, s[1].type \notin {"Close", "CloseOk", "QosOk"},
           NEW after \in BOOLEAN,
           after => opened \/ s[1].type = "OpenOk"
    PROVE  Orderly(after, requested, prefetch, ch, lim, o, Tail(s))
<1>1. Handshake(ch, after, o, Tail(s))
  BY HandshakeRead DEF Orderly
<1>2. HasType(Tail(s), "QosOk") <=> HasType(s, "QosOk")
  BY TypesTail
<1>3. HasType(Tail(s), "Close") <=> HasType(s, "Close")
  BY TypesTail
<1>4. HasType(Tail(s), "CloseOk") <=> HasType(s, "CloseOk")
  BY TypesTail
<1>5. ASSUME s[1].type = "OpenOk" PROVE ~HasType(s, "CloseOk")
  <2>1. 1 \in DOMAIN s /\ \A i \in DOMAIN s : i \in Int /\ i >= 1
    BY ShiftIs
  <2>2. \A j \in DOMAIN s : j > 1 => s[j].type # "CloseOk"
    BY <1>5, <2>1 DEF Orderly, Handshake, OpenOkInOrder
  <2>3. \A j \in DOMAIN s : j = 1 \/ j > 1
    BY <2>1
  <2>4. QED
    BY <1>5, <2>2, <2>3 DEF HasType
<1>6. after /\ ch = "open" => ~HasType(Tail(s), "CloseOk")
  BY <1>4, <1>5 DEF Orderly
<1>7. requested = 0 => Unasked(prefetch, lim, o, Tail(s))
  BY <1>2 DEF Orderly, Unasked
<1>8. requested # 0 /\ ~Ending(Tail(s)) => Agreeing(requested, prefetch, ch, lim, o, Tail(s))
  BY <1>2, <1>3, <1>4 DEF Orderly, Agreeing, Ending
<1>9. QED
  BY <1>1, <1>6, <1>7, <1>8 DEF Orderly

\* What is asked for is agreed: the last basic.qos was answered, or more follow.
LEMMA OrderlyAgreed ==
    ASSUME NEW opened \in BOOLEAN, NEW requested, NEW prefetch, NEW ch, NEW lim,
           NEW F, NEW o \in Seq(F), NEW G, NEW s \in Seq(G),
           Orderly(opened, requested, prefetch, ch, lim, o, s),
           s # <<>>, s[1].type = "QosOk"
    PROVE  Orderly(opened, requested, requested, ch, lim, o, Tail(s))
<1>1. Handshake(ch, opened, o, Tail(s))
  BY HandshakeRead DEF Orderly
<1>2. HasType(s, "QosOk")
  BY TypesTail
<1>3. HasType(Tail(s), "Close") <=> HasType(s, "Close")
  BY TypesTail
<1>4. HasType(Tail(s), "CloseOk") <=> HasType(s, "CloseOk")
  BY TypesTail
<1>5. requested # 0
  BY <1>2 DEF Orderly, Unasked
<1>6. ~Ending(Tail(s)) => Agreeing(requested, requested, ch, lim, o, Tail(s))
  BY <1>2, <1>3, <1>4, <1>5 DEF Orderly, Agreeing, Ending
<1>7. QED
  BY <1>1, <1>4, <1>5, <1>6 DEF Orderly

\* The client no longer knows that the channel is open.
LEMMA OrderlyForgets ==
    ASSUME NEW opened, NEW requested, NEW prefetch, NEW ch, NEW lim, NEW o, NEW s,
           Orderly(opened, requested, prefetch, ch, lim, o, s)
    PROVE  Orderly(FALSE, requested, prefetch, ch, lim, o, s)
<1>1. Handshake(ch, FALSE, o, s)
  BY HandshakeForget DEF Orderly
<1>2. QED
  BY <1>1 DEF Orderly

\* The client sends an open, or a close, or what needs the channel to be open.
LEMMA OrderlySends ==
    ASSUME NEW opened, NEW requested, NEW prefetch, NEW ch, NEW lim,
           NEW F, NEW o \in Seq(F), NEW G, NEW s \in Seq(G),
           Orderly(opened, requested, prefetch, ch, lim, o, s),
           NEW f \in F, f.type \notin {"Qos", "CloseOk"},
           f.type \in Needs => opened,
           f.type = "Open" => ~opened
    PROVE  Orderly(opened, requested, prefetch, ch, lim, Append(o, f), s)
<1>1. Handshake(ch, opened, Append(o, f), s)
  BY HandshakeSend DEF Orderly
<1>2. HasType(Append(o, f), "Qos") <=> HasType(o, "Qos")
  BY TypesAppend
<1>3. LastAsks(o, requested) => LastAsks(Append(o, f), requested)
  BY AsksAppend
<1>4. BehindCloseOk(o) => BehindCloseOk(Append(o, f))
  BY BehindAppend
<1>5. requested = 0 => Unasked(prefetch, lim, Append(o, f), s)
  BY <1>2 DEF Orderly, Unasked
<1>6. requested # 0 /\ ~Ending(s) => Agreeing(requested, prefetch, ch, lim, Append(o, f), s)
  BY <1>2, <1>3, <1>4 DEF Orderly, Agreeing
<1>7. QED
  BY <1>1, <1>5, <1>6 DEF Orderly

\* qos(): a close of the broker is under way, or it was answered already.
LEMMA OrderlyAsks ==
    ASSUME NEW opened, NEW requested, NEW prefetch, NEW ch, NEW lim,
           NEW F, NEW o \in Seq(F), NEW G, NEW s \in Seq(G),
           Orderly(opened, requested, prefetch, ch, lim, o, s),
           NEW f \in F, f.type = "Qos", f.count # 0,
           ch = "closing" => HasType(s, "Close") \/ HasType(o, "CloseOk")
    PROVE  Orderly(opened, f.count, prefetch, ch, lim, Append(o, f), s)
<1> DEFINE p == Append(o, f)
<1>1. SameUses(o, p)
  <2>1. /\ \A i \in DOMAIN p : (i \in DOMAIN o /\ p[i] = o[i]) \/ p[i] = f
        /\ \A i \in DOMAIN o : i \in DOMAIN p /\ p[i] = o[i]
    BY GrowthIs
  <2>2. QED
    BY <2>1 DEF SameUses, Needs
<1>2. Handshake(ch, opened, p, s)
  BY <1>1, HandshakeAside DEF Orderly
<1>3. HasType(p, "Qos")
  BY TypesAppend
<1>4. LastAsks(p, f.count)
  BY AsksAppend
<1>5. ch # "open" /\ ~Ending(s) => prefetch = 0 /\ ~HasType(s, "QosOk")
  BY DEF Orderly, Unasked, Agreeing
<1>6. ASSUME ch = "closing", ~Ending(s) PROVE BehindCloseOk(p)
  <2>1. HasType(o, "CloseOk")
    BY <1>6 DEF Ending
  <2>2. BehindCloseOk(o)
    <3>1. requested = 0 => BehindCloseOk(o)
      BY DEF Orderly, Unasked, HasType, BehindCloseOk
    <3>2. requested # 0 => BehindCloseOk(o)
      BY <1>6 DEF Orderly, Agreeing
    <3>3. QED
      BY <3>1, <3>2
  <2>3. QED
    BY <2>1, <2>2, BehindAppend
<1> HIDE DEF p
<1>7. ~Ending(s) => Agreeing(f.count, prefetch, ch, lim, p, s)
  BY <1>3, <1>4, <1>5, <1>6 DEF Agreeing
<1>8. QED
  BY <1>2, <1>7 DEF Orderly, p

\* qos() without a connection: what is asked for is not even sent.
LEMMA OrderlyOffline ==
    ASSUME NEW opened, NEW requested, NEW prefetch, NEW lim, NEW count, count # 0,
           Orderly(opened, requested, prefetch, "closed", lim, <<>>, <<>>)
    PROVE  Orderly(opened, count, prefetch, "closed", lim, <<>>, <<>>)
<1>1. DOMAIN <<>> = {}
  OBVIOUS
<1>2. ~HasType(<<>>, "QosOk") /\ LastAsks(<<>>, count)
  BY <1>1 DEF HasType, LastAsks
<1>3. ~Ending(<<>>)
  BY <1>1 DEF HasType, Ending
<1>4. prefetch = 0
  BY <1>3 DEF Orderly, Unasked, Agreeing
<1>5. QED
  BY <1>2, <1>4 DEF Orderly, Agreeing

\* The broker opens the channel, and keeps to no prefetch.
LEMMA OrderlyOpens ==
    ASSUME NEW opened \in BOOLEAN, NEW requested, NEW prefetch, NEW lim,
           NEW F, NEW o \in Seq(F), NEW G, NEW s \in Seq(G),
           Orderly(opened, requested, prefetch, "closed", lim, o, s),
           o # <<>>, o[1].type = "Open",
           NEW f \in G, f.type = "OpenOk"
    PROVE  Orderly(opened, requested, prefetch, "open", 0, Tail(o), Append(s, f))
<1>1. Handshake("open", opened, Tail(o), Append(s, f)) /\ ~opened
  BY HandshakeOpen DEF Orderly
<1>2. HasType(o, "Qos") <=> HasType(Tail(o), "Qos")
  BY TypesTail
<1>3. HasType(Append(s, f), "QosOk") <=> HasType(s, "QosOk")
  BY TypesAppend
<1>4. HasType(Append(s, f), "Close") <=> HasType(s, "Close")
  BY TypesAppend
<1>5. HasType(Append(s, f), "CloseOk") <=> HasType(s, "CloseOk")
  BY TypesAppend
<1>6. requested = 0 => Unasked(prefetch, 0, Tail(o), Append(s, f))
  BY <1>2, <1>3 DEF Orderly, Unasked
<1>7. LastAsks(o, requested) => LastAsks(Tail(o), requested)
  BY AsksTail
<1>8. requested # 0 /\ ~Ending(Append(s, f)) => Agreeing(requested, prefetch, "open", 0, Tail(o), Append(s, f))
  BY <1>3, <1>4, <1>5, <1>7 DEF Orderly, Agreeing, Ending
<1>9. QED
  BY <1>1, <1>6, <1>8 DEF Orderly

\* The broker answers a close of the client.
LEMMA OrderlyAnswers ==
    ASSUME NEW opened \in BOOLEAN, NEW requested, NEW prefetch, NEW lim,
           NEW F, NEW o \in Seq(F), NEW G, NEW s \in Seq(G),
           NEW ch \in {"open", "closing"}, NEW after \in {"closed", "closing"},
           ch = "closing" => after = "closing", ch = "open" => after = "closed",
           Orderly(opened, requested, prefetch, ch, lim, o, s),
           o # <<>>, o[1].type = "Close",
           NEW f \in G, f.type = "CloseOk"
    PROVE  Orderly(opened, requested, prefetch, after, lim, Tail(o), Append(s, f))
<1>1. Handshake(after, opened, Tail(o), Append(s, f))
  BY HandshakeAnswer DEF Orderly
<1>2. HasType(o, "Qos") <=> HasType(Tail(o), "Qos")
  BY TypesTail
<1>3. HasType(Append(s, f), "QosOk") <=> HasType(s, "QosOk")
  BY TypesAppend
<1>4. HasType(Append(s, f), "CloseOk")
  BY TypesAppend
<1>5. requested = 0 => Unasked(prefetch, lim, Tail(o), Append(s, f))
  BY <1>2, <1>3 DEF Orderly, Unasked
<1>6. QED
  BY <1>1, <1>4, <1>5 DEF Orderly, Ending

\* The broker agrees to what is asked for.
LEMMA OrderlyServes ==
    ASSUME NEW opened, NEW requested, NEW prefetch, NEW lim,
           NEW F, NEW o \in Seq(F), NEW G, NEW s \in Seq(G),
           Orderly(opened, requested, prefetch, "open", lim, o, s),
           o # <<>>, o[1].type = "Qos",
           NEW f \in G, f.type = "QosOk"
    PROVE  Orderly(opened, requested, prefetch, "open", o[1].count, Tail(o), Append(s, f))
<1> DEFINE u == Append(s, f)
<1>1. Handshake("open", opened, Tail(o), s)
  BY HandshakeTaken DEF Orderly
<1>2. SameEnds(s, u)
  <2>1. /\ \A i \in DOMAIN u : (i \in DOMAIN s /\ u[i] = s[i]) \/ u[i] = f
        /\ \A i \in DOMAIN s : i \in DOMAIN u /\ u[i] = s[i] /\ i \in Int
    BY GrowthIs
  <2>2. QED
    BY <2>1 DEF SameEnds
<1>3. HasType(o, "Qos")
  BY TypesTail
<1>4. HasType(u, "QosOk")
  BY TypesAppend
<1>5. HasType(u, "Close") <=> HasType(s, "Close")
  BY TypesAppend
<1>6. HasType(u, "CloseOk") <=> HasType(s, "CloseOk")
  BY TypesAppend
<1> HIDE DEF u
<1>7. Handshake("open", opened, Tail(o), u)
  BY <1>1, <1>2, HandshakeNeutral
<1>8. requested # 0
  BY <1>3 DEF Orderly, Unasked
<1>9. ASSUME ~Ending(u) PROVE Agreeing(requested, prefetch, "open", o[1].count, Tail(o), u)
  <2>1. LastAsks(o, requested)
    BY <1>5, <1>6, <1>8, <1>9 DEF Orderly, Agreeing, Ending
  <2>2. LastAsks(Tail(o), requested) /\ (~HasType(Tail(o), "Qos") => o[1].count = requested)
    BY <2>1, AsksTail
  <2>3. QED
    BY <1>4, <2>2 DEF Agreeing
<1>10. QED
  BY <1>6, <1>7, <1>8, <1>9 DEF Orderly, u

\* The broker reads the answer to its own close.
LEMMA OrderlyClosed ==
    ASSUME NEW opened \in BOOLEAN, NEW requested, NEW prefetch, NEW ch, NEW lim,
           NEW F, NEW o \in Seq(F), NEW G, NEW s \in Seq(G),
           Orderly(opened, requested, prefetch, ch, lim, o, s),
           o # <<>>, o[1].type = "CloseOk"
    PROVE  ch = "closing" /\ Orderly(opened, requested, prefetch, "closed", lim, Tail(o), s)
<1>1. ch = "closing"
  <2>1. 1 \in DOMAIN o
    BY ShiftIs
  <2>2. QED
    BY <2>1 DEF Orderly, Handshake, ClosesOnce
<1>2. Handshake("closed", opened, Tail(o), s)
  BY <1>1, HandshakeClosed DEF Orderly
<1>3. HasType(o, "Qos") <=> HasType(Tail(o), "Qos")
  BY TypesTail
<1>4. LastAsks(o, requested) => LastAsks(Tail(o), requested)
  BY AsksTail
<1>5. requested = 0 => Unasked(prefetch, lim, Tail(o), s)
  BY <1>3 DEF Orderly, Unasked
<1>6. requested # 0 /\ ~Ending(s) => Agreeing(requested, prefetch, "closed", lim, Tail(o), s)
  BY <1>1, <1>4 DEF Orderly, Agreeing
<1>7. QED
  BY <1>1, <1>2, <1>5, <1>6 DEF Orderly

\* The broker closes the channel on its own account.
LEMMA OrderlyCloses ==
    ASSUME NEW opened, NEW requested, NEW prefetch, NEW lim,
           NEW F, NEW o \in Seq(F), NEW G, NEW s \in Seq(G),
           Orderly(opened, requested, prefetch, "open", lim, o, s),
           NEW f \in G, f.type = "Close"
    PROVE  Orderly(opened, requested, prefetch, "closing", lim, o, Append(s, f))
<1>1. Handshake("closing", opened, o, Append(s, f))
  BY HandshakeClose DEF Orderly
<1>2. HasType(Append(s, f), "QosOk") <=> HasType(s, "QosOk")
  BY TypesAppend
<1>3. HasType(Append(s, f), "Close")
  BY TypesAppend
<1>4. requested = 0 => Unasked(prefetch, lim, o, Append(s, f))
  BY <1>2 DEF Orderly, Unasked
<1>5. QED
  BY <1>1, <1>3, <1>4 DEF Orderly, Ending

\* The client reads a close of the broker and answers it; nothing was asked for.
LEMMA OrderlyReadsClose ==
    ASSUME NEW opened, NEW prefetch, NEW ch, NEW lim,
           NEW F, NEW o \in Seq(F), NEW G, NEW s \in Seq(G),
           Orderly(opened, 0, prefetch, ch, lim, o, s),
           s # <<>>, s[1].type = "Close",
           NEW f \in F, f.type = "CloseOk"
    PROVE  Orderly(FALSE, 0, prefetch, ch, lim, Append(o, f), Tail(s))
<1>1. Handshake(ch, FALSE, Append(o, f), Tail(s))
  BY HandshakeReadClose DEF Orderly
<1>2. HasType(Append(o, f), "Qos") <=> HasType(o, "Qos")
  BY TypesAppend
<1>3. HasType(Tail(s), "QosOk") <=> HasType(s, "QosOk")
  BY TypesTail
<1>4. QED
  BY <1>1, <1>2, <1>3 DEF Orderly, Unasked

\* The client reads the answer to its close; nothing was asked for.
LEMMA OrderlyReadsCloseOk ==
    ASSUME NEW opened \in BOOLEAN, NEW prefetch, NEW ch, NEW lim,
           NEW F, NEW o \in Seq(F), NEW G, NEW s \in Seq(G),
           Orderly(opened, 0, prefetch, ch, lim, o, s),
           s # <<>>, s[1].type = "CloseOk"
    PROVE  Orderly(FALSE, 0, prefetch, ch, lim, o, Tail(s))
<1>1. Handshake(ch, FALSE, o, Tail(s))
  BY HandshakeRead DEF Orderly
<1>2. HasType(Tail(s), "QosOk") <=> HasType(s, "QosOk")
  BY TypesTail
<1>3. QED
  BY <1>1, <1>2 DEF Orderly, Unasked

\* A slot on closed() closes a channel that was known to be open until now.
LEMMA OrderlySendsClose ==
    ASSUME NEW prefetch, NEW ch, NEW lim,
           NEW F, NEW o \in Seq(F), NEW G, NEW s \in Seq(G),
           Orderly(FALSE, 0, prefetch, ch, lim, o, s),
           NoLateOpen(ch, o), ~HasType(s, "OpenOk"),
           NEW f \in F, f.type = "Close"
    PROVE  Orderly(FALSE, 0, prefetch, ch, lim, Append(o, f), s)
<1>1. Handshake(ch, FALSE, Append(o, f), s)
  BY HandshakeSendClose DEF Orderly
<1>2. HasType(Append(o, f), "Qos") <=> HasType(o, "Qos")
  BY TypesAppend
<1>3. QED
  BY <1>1, <1>2 DEF Orderly, Unasked

\* What an object that takes its channel for open knows of the frames under way
\* holds until it reads that the channel is closed.
LEMMA OrderlyKnows ==
    ASSUME NEW requested, NEW prefetch, NEW ch, NEW lim,
           NEW F, NEW o \in Seq(F), NEW G, NEW s \in Seq(G),
           Orderly(TRUE, requested, prefetch, ch, lim, o, s), s # <<>>
    PROVE  /\ NoLateOpen(ch, o) /\ ~HasType(Tail(s), "OpenOk")
           /\ \A f \in F : f.type # "Open" => NoLateOpen(ch, Append(o, f))
<1>1. NoLateOpen(ch, o) /\ ~HasType(s, "OpenOk")
  BY DEF Orderly, Handshake, OpenedInOrder
<1>2. ~HasType(Tail(s), "OpenOk")
  BY <1>1, TypesTail
<1>3. ASSUME NEW f \in F, f.type # "Open" PROVE NoLateOpen(ch, Append(o, f))
  <2> DEFINE p == Append(o, f)
             n == Len(o) + 1
  <2>1. /\ \A i \in DOMAIN p : i \in Int /\ ((i \in DOMAIN o /\ p[i] = o[i] /\ i < n) \/ (i = n /\ p[i] = f))
        /\ n \in Int
    BY GrowthIs
  <2> HIDE DEF p, n
  <2>2. NoLateOpen(ch, p)
    BY <1>1, <1>3, <2>1 DEF NoLateOpen
  <2>3. QED
    BY <2>2 DEF p
<1>4. QED
  BY <1>1, <1>2, <1>3

\* Nothing is under way, and nothing was asked for.
LEMMA OrderlyEmpty ==
    ASSUME NEW opened
    PROVE  Orderly(opened, 0, 0, "closed", 0, <<>>, <<>>)
<1>1. DOMAIN <<>> = {}
  OBVIOUS
<1>2. ~HasType(<<>>, "Qos") /\ ~HasType(<<>>, "QosOk")
  BY <1>1 DEF HasType
<1>3. QED
  BY <1>2, EmptyHandshake DEF Orderly, Unasked

\* A channel that is closed, and at most an open of it is under way.
LEMMA OrderlyFresh ==
    ASSUME NEW o, NEW s,
           \A i \in DOMAIN o : o[i].type \in {"Open", "Other"},
           \A i \in DOMAIN s : s[i].type = "Other"
    PROVE  Orderly(FALSE, 0, 0, "closed", 0, o, s)
<1>1. Handshake("closed", FALSE, o, s)
  BY HandshakeFresh DEF Needs
<1>2. QED
  BY <1>1 DEF Orderly, Unasked, HasType

\* The objects open their channels when the connection is made.
LEMMA OrderlyReconnects ==
    ASSUME NEW requested, NEW prefetch, NEW lim, NEW o,
           Orderly(FALSE, requested, prefetch, "closed", lim, <<>>, <<>>),
           \A i \in DOMAIN o : o[i].type \in {"Open", "Other"}
    PROVE  Orderly(FALSE, requested, prefetch, "closed", lim, o, <<>>)
<1>1. DOMAIN <<>> = {}
  OBVIOUS
<1>2. Handshake("closed", FALSE, o, <<>>)
  BY <1>1, HandshakeFresh DEF Needs
<1>3. ~HasType(o, "Qos") /\ LastAsks(o, requested)
  BY DEF HasType, LastAsks
<1>4. QED
  BY <1>2, <1>3 DEF Orderly, Unasked, Agreeing

-----------------------------------------------------------------------------
(* The part of the invariant that holds while no channel is shared or lost. *)

Undisturbed == happened \cap {"shared", "late", "delete", "outlived"} = {}

\* The fields of an object, what its channel is at the broker, and the frames.
Neat(c, b, l, o, s) ==
    Orderly(c.opened, c.requested, c.prefetch, b[c.number], l[c.number],
            Of(o, c.number), Of(s, c.number))

AllOrderly ==
    Undisturbed =>
        /\ \A o, p \in Objects : Exists(o) /\ object[o].number = object[p].number => o = p
        /\ \A n \in Numbers : Owned(n) \/ limit[n] = 0
        /\ \A o \in Objects : Exists(o) => Neat(object[o], broker, limit, out, in)

LEMMA StaysUndisturbed ==
    ASSUME happened \subseteq happened', Undisturbed'
    PROVE  /\ Undisturbed
           /\ \A e \in {"shared", "late", "delete", "outlived"} : e \notin happened'
  BY DEF Undisturbed

\* The only object of a channel sends on it what it is to send.
LEMMA SentAlone ==
    ASSUME TypeOK, Listed, NEW n \in Numbers, NEW frames, NEW o \in Objects, object[o].number = n,
           \A p \in Objects : object[p].number = n => p = o,
           frames[o] \in Seq(OutFrames)
    PROVE  SentOn(n, frames) = frames[o]
<1> DEFINE seqs == [i \in DOMAIN order |-> IF object[order[i]].number = n THEN frames[order[i]] ELSE <<>>]
<1>1. order \in Seq(Objects) /\ DOMAIN order = 1..Len(order) /\ Len(order) \in Nat
  BY DEF TypeOK
<1>2. Exists(o)
  BY DEF Exists, Numbers
<1>3. PICK k \in DOMAIN order : order[k] = o
  BY <1>2 DEF Listed
<1>4. \A i \in DOMAIN order : order[i] \in Objects /\ (order[i] = o => i = k)
  BY <1>1, <1>3 DEF Listed
<1>5. /\ DOMAIN seqs = DOMAIN order /\ seqs[k] = frames[o]
      /\ \A i \in DOMAIN order : i # k => seqs[i] = <<>>
  BY <1>3, <1>4
<1>6. \A i \in DOMAIN order : seqs[i] \in Seq(OutFrames)
  <2>1. <<>> \in Seq(OutFrames)
    OBVIOUS
  <2>2. QED
    BY <1>5, <2>1
<1>7. seqs = [i \in DOMAIN order |-> seqs[i]]
  OBVIOUS
<1> HIDE DEF seqs
<1>8. seqs \in Seq(Seq(OutFrames))
  <2>1. seqs \in [1..Len(order) -> Seq(OutFrames)]
    BY <1>1, <1>6, <1>7
  <2>2. QED
    BY <1>1, <2>1
<1>9. FlattenSeq(seqs) = seqs[k]
  BY <1>3, <1>5, <1>8, FlattenOne
<1>10. QED
  BY <1>5, <1>9 DEF SentOn, seqs

\* A frame of the channel is read, or frames of the channel are sent.
Moves(s, t, n) ==
    \/ s # <<>> /\ s[1].channel = n /\ t = Tail(s)
    \/ \E fs \in Seq(OutFrames \cup InFrames) :
          (\A i \in DOMAIN fs : fs[i].channel = n) /\ t = s \o fs

LEMMA MovesNowhere ==
    ASSUME NEW F, NEW s \in Seq(F), NEW n
    PROVE  Moves(s, s, n)
<1>1. <<>> \in Seq(OutFrames \cup InFrames) /\ DOMAIN <<>> = {} /\ s \o <<>> = s
  OBVIOUS
<1>2. QED
  BY <1>1 DEF Moves

LEMMA MovesOn ==
    ASSUME NEW s, NEW n, NEW F \in {OutFrames, InFrames}, NEW fs \in Seq(F),
           \A i \in DOMAIN fs : fs[i].channel = n
    PROVE  Moves(s, s \o fs, n)
<1>1. fs \in Seq(OutFrames \cup InFrames)
  OBVIOUS
<1>2. QED
  BY <1>1 DEF Moves

LEMMA ExtendsMore ==
    ASSUME NEW s, NEW t, NEW T, NEW U, T \subseteq U, Extends(s, t, T)
    PROVE  Extends(s, t, U)
  BY DEF Extends

\* The next frame is one of another channel.
LEMMA OfHead ==
    ASSUME NEW F, NEW s \in Seq(F), s # <<>>, NEW m, s[1].channel # m
    PROVE  Of(s, m) \in Seq(F \cup {Other}) /\ Of(s, m) # <<>> /\ Of(s, m)[1] = Other
<1>1. /\ Of(s, m) \in Seq(F \cup {Other}) /\ Of(s, m) # <<>> /\ 1 \in DOMAIN s
  BY OfSays
<1>2. \A i \in DOMAIN s : Of(s, m)[i] = IF s[i].channel = m THEN s[i] ELSE Other
  BY DEF Of
<1>3. QED
  BY <1>1, <1>2

\* What is sent and read on one channel is nothing to another.
LEMMA MovesOut ==
    ASSUME NEW opened, NEW requested, NEW prefetch, NEW ch, NEW lim,
           NEW o \in Seq(OutFrames), NEW p, NEW n, NEW m, m # n, Moves(o, p, n),
           NEW G, NEW s \in Seq(G),
           Orderly(opened, requested, prefetch, ch, lim, Of(o, m), s)
    PROVE  Orderly(opened, requested, prefetch, ch, lim, Of(p, m), s)
<1>1. CASE o # <<>> /\ o[1].channel = n /\ p = Tail(o)
  <2> DEFINE a == Of(o, m)
             E == OutFrames \cup {Other}
  <2>1. a \in Seq(E) /\ a # <<>> /\ a[1] = Other
    BY <1>1, OfHead
  <2>2. Of(p, m) = Tail(a)
    BY <1>1, OfTail
  <2>3. a[1].type = "Other"
    BY <2>1 DEF Other
  <2> HIDE DEF a, E
  <2>4. Orderly(opened, requested, prefetch, ch, lim, a, s)
    BY DEF a
  <2>5. Orderly(opened, requested, prefetch, ch, lim, Tail(a), s)
    BY <2>1, <2>3, <2>4, OrderlyTaken
  <2>6. QED
    BY <2>2, <2>5
<1>2. CASE \E fs \in Seq(OutFrames \cup InFrames) :
              (\A i \in DOMAIN fs : fs[i].channel = n) /\ p = o \o fs
  <2>1. PICK fs \in Seq(OutFrames \cup InFrames) :
              (\A i \in DOMAIN fs : fs[i].channel = n) /\ p = o \o fs
    BY <1>2
  <2>2. o \in Seq(OutFrames \cup InFrames)
    OBVIOUS
  <2>3. \A i \in DOMAIN fs : fs[i].channel = m => fs[i].type \in {}
    BY <2>1
  <2>4. Extends(Of(o, m), Of(o \o fs, m), {} \cup {"Other"})
    BY <2>2, <2>3, OfConcat
  <2>5. Extends(Of(o, m), Of(p, m), {"Other", "Declare", "Bind", "Flow"})
    BY <2>1, <2>4, ExtendsMore
  <2>6. QED
    BY <2>5, OrderlyAside
<1>3. QED
  BY <1>1, <1>2 DEF Moves

LEMMA MovesIn ==
    ASSUME NEW opened \in BOOLEAN, NEW requested, NEW prefetch, NEW ch, NEW lim,
           NEW s \in Seq(InFrames), NEW u, NEW n, NEW m, m # n, Moves(s, u, n),
           NEW F, NEW o \in Seq(F),
           Orderly(opened, requested, prefetch, ch, lim, o, Of(s, m))
    PROVE  Orderly(opened, requested, prefetch, ch, lim, o, Of(u, m))
<1>1. CASE s # <<>> /\ s[1].channel = n /\ u = Tail(s)
  <2> DEFINE a == Of(s, m)
             E == InFrames \cup {Other}
  <2>1. a \in Seq(E) /\ a # <<>> /\ a[1] = Other
    BY <1>1, OfHead
  <2>2. Of(u, m) = Tail(a)
    BY <1>1, OfTail
  <2>3. a[1].type = "Other"
    BY <2>1 DEF Other
  <2> HIDE DEF a, E
  <2>4. Orderly(opened, requested, prefetch, ch, lim, o, a)
    BY DEF a
  <2>5. Orderly(opened, requested, prefetch, ch, lim, o, Tail(a))
    BY <2>1, <2>3, <2>4, OrderlyRead
  <2>6. QED
    BY <2>2, <2>5
<1>2. CASE \E fs \in Seq(OutFrames \cup InFrames) :
              (\A i \in DOMAIN fs : fs[i].channel = n) /\ u = s \o fs
  <2>1. PICK fs \in Seq(OutFrames \cup InFrames) :
              (\A i \in DOMAIN fs : fs[i].channel = n) /\ u = s \o fs
    BY <1>2
  <2>2. s \in Seq(OutFrames \cup InFrames)
    OBVIOUS
  <2>3. \A i \in DOMAIN fs : fs[i].channel = m => fs[i].type \in {}
    BY <2>1
  <2>4. Extends(Of(s, m), Of(s \o fs, m), {} \cup {"Other"})
    BY <2>2, <2>3, OfConcat
  <2>5. Extends(Of(s, m), Of(u, m), {"Other", "FlowOk"})
    BY <2>1, <2>4, ExtendsMore
  <2>6. QED
    BY <2>5, OrderlyHears
<1>3. QED
  BY <1>1, <1>2 DEF Moves

-----------------------------------------------------------------------------
\* A step that concerns one channel.
LEMMA StepOrderly ==
    ASSUME Kept, AllOrderly, NEW n \in Numbers, happened \subseteq happened',
           out' \in Seq(OutFrames),
           Moves(out, out', n), Moves(in, in', n),
           \A m \in Numbers : m # n => broker'[m] = broker[m] /\ limit'[m] = limit[m],
           \A o \in Objects :
              /\ object'[o].number = object[o].number
              /\ object[o].number # n => object'[o] = object[o],
           Undisturbed' /\ ~Owned(n) => limit'[n] = limit[n],
           Undisturbed' => \A o \in Objects : object[o].number = n =>
              Neat(object'[o], broker', limit', out', in')
    PROVE  AllOrderly'
<1> SUFFICES ASSUME Undisturbed'
             PROVE  /\ \A o, p \in Objects : Exists(o)' /\ object'[o].number = object'[p].number => o = p
                    /\ \A m \in Numbers : Owned(m)' \/ limit'[m] = 0
                    /\ \A o \in Objects : Exists(o)' => Neat(object'[o], broker', limit', out', in')
  BY DEF AllOrderly
<1>1. /\ Undisturbed
      /\ \A o, p \in Objects : Exists(o) /\ object[o].number = object[p].number => o = p
      /\ \A m \in Numbers : Owned(m) \/ limit[m] = 0
      /\ \A o \in Objects : Exists(o) => Neat(object[o], broker, limit, out, in)
  BY StaysUndisturbed DEF AllOrderly
<1>2. /\ \A o \in Objects : object[o] \in Object
      /\ out \in Seq(OutFrames) /\ in \in Seq(InFrames)
  BY DEF Kept, TypeOK
<1>3. \A o, p \in Objects : Exists(o)' /\ object'[o].number = object'[p].number => o = p
  BY <1>1 DEF Exists
<1>4. ASSUME NEW m \in Numbers PROVE Owned(m)' \/ limit'[m] = 0
  <2>1. Owned(m)' <=> Owned(m)
    BY DEF Owned
  <2>2. CASE m # n
    BY <1>1, <2>1, <2>2
  <2>3. CASE m = n
    BY <1>1, <2>1, <2>3
  <2>4. QED
    BY <2>2, <2>3
<1>5. ASSUME NEW o \in Objects, Exists(o)'
      PROVE  Neat(object'[o], broker', limit', out', in')
  <2>1. CASE object[o].number = n
    BY <2>1
  <2>2. CASE object[o].number # n
    <3> DEFINE m == object[o].number
               d == object[o]
    <3>1. m \in Numbers /\ Exists(o) /\ d.opened \in BOOLEAN /\ d.number = m
      <4>1. object'[o].number = object[o].number
        OBVIOUS
      <4>2. object[o].number \in Numbers \cup {0} /\ object[o].opened \in BOOLEAN
        BY <1>2, ObjectFields
      <4>3. QED
        BY <1>5, <4>1, <4>2 DEF Exists
    <3>2. Orderly(d.opened, d.requested, d.prefetch, broker[m], limit[m], Of(out, m), Of(in, m))
      BY <1>1, <3>1 DEF Neat
    <3>3. object'[o] = d /\ broker'[m] = broker[m] /\ limit'[m] = limit[m]
      BY <2>2, <3>1
    <3> HIDE DEF d
    <3>4. m # n
      BY <2>2
    <3> HIDE DEF m
    <3>5. Of(in, m) \in Seq(InFrames \cup {Other})
      BY <1>2, OfSays
    <3>6. Of(out', m) \in Seq(OutFrames \cup {Other})
      BY OfSays
    <3>7. Orderly(d.opened, d.requested, d.prefetch, broker[m], limit[m], Of(out', m), Of(in, m))
      BY <1>2, <3>2, <3>4, <3>5, MovesOut
    <3>8. Orderly(d.opened, d.requested, d.prefetch, broker[m], limit[m], Of(out', m), Of(in', m))
      BY <1>2, <3>1, <3>4, <3>6, <3>7, MovesIn
    <3>9. QED
      BY <3>1, <3>3, <3>8 DEF Neat
  <2>3. QED
    BY <2>1, <2>2
<1>6. QED
  BY <1>3, <1>4, <1>5

-----------------------------------------------------------------------------
\* A call of the user, as far as it concerns the prefetch.
CalledOn(o, c, f) ==
    /\ Exists(o) /\ happened \subseteq happened'
    /\ object' = [object EXCEPT ![o] = c]
    /\ c.number = object[o].number /\ c.prefetch = object[o].prefetch
    /\ f.channel = object[o].number
    /\ UNCHANGED <<link, in, broker, limit>>
    /\ \/ /\ c.opened => object[o].opened
          /\ c.requested = object[o].requested /\ out' = out
       \/ /\ c.opened = object[o].opened /\ c.requested = object[o].requested
          /\ f.type \in {"Open", "Close", "Declare", "Bind", "Flow"}
          /\ f.type = "Close" => object[o].opened
          /\ f.type = "Open" => ~object[o].opened
          /\ out' = out \o <<f>>
       \/ /\ c.opened = object[o].opened /\ c.requested = f.count
          /\ f.type = "Qos"
          /\ out' = IF link = "up" THEN out \o <<f>> ELSE out

LEMMA CallsAreOn ==
    ASSUME Kept, NEW o \in Objects,
           \/ Close(o) \/ Reopen(o) \/ Reset(o) \/ Declare(o) \/ Qos(o) \/ Resume(o) \/ Bind(o)
    PROVE  \E c \in Object, f \in OutFrames : CalledOn(o, c, f)
<1> DEFINE c == object[o]
           n == object[o].number
<1>1. /\ object \in [Objects -> Object] /\ c \in Object /\ out \in Seq(OutFrames)
      /\ object = [object EXCEPT ![o] = c]
  BY DEF Kept, TypeOK
<1>2. Exists(o) /\ happened \subseteq happened' /\ UNCHANGED <<link, in, broker, limit>>
  BY DEF Close, Reopen, Reset, Declare, Qos, Resume, Bind, Happens
<1>3. n \in Numbers /\ c.opened \in BOOLEAN
  BY <1>1, <1>2, ObjectFields DEF Exists
<1>4. \A t \in {"Open", "Close", "Declare", "Bind", "Flow"} :
         Frame(o, t) \in OutFrames /\ Frame(o, t).channel = n /\ Frame(o, t).type = t
  BY <1>3, FrameTypes DEF Frame
<1>5. ASSUME NEW d \in Object, d.number = n, d.prefetch = c.prefetch, d.requested = c.requested,
             object' = [object EXCEPT ![o] = d],
             \/ (d.opened => c.opened) /\ out' = out
             \/ /\ d.opened = c.opened
                /\ \E t \in {"Open", "Close", "Declare", "Bind", "Flow"} :
                      /\ t = "Close" => c.opened
                      /\ t = "Open" => ~c.opened
                      /\ out' = out \/ out' = out \o <<Frame(o, t)>>
      PROVE  \E e \in Object, f \in OutFrames : CalledOn(o, e, f)
  <2>1. CASE (d.opened => c.opened) /\ out' = out
    <3>1. CalledOn(o, d, Frame(o, "Flow"))
      BY <1>2, <1>4, <1>5, <2>1 DEF CalledOn
    <3>2. QED
      BY <1>4, <3>1
  <2>2. ASSUME NEW t \in {"Open", "Close", "Declare", "Bind", "Flow"},
               d.opened = c.opened, t = "Close" => c.opened, t = "Open" => ~c.opened,
               out' = out \o <<Frame(o, t)>>
        PROVE  \E e \in Object, f \in OutFrames : CalledOn(o, e, f)
    <3>1. CalledOn(o, d, Frame(o, t))
      BY <1>2, <1>4, <1>5, <2>2 DEF CalledOn
    <3>2. QED
      BY <1>4, <3>1
  <2>3. QED
    BY <1>5, <2>1, <2>2
<1>6. \A fs : Send(fs) => out' = out \o fs \/ out' = out
  BY DEF Send
<1>7. out \o <<>> = out
  BY <1>1
<1>8. /\ LET d == [c EXCEPT !.needOpen = TRUE]
         IN  d \in Object /\ d.number = n /\ d.prefetch = c.prefetch /\ d.requested = c.requested
             /\ d.opened = c.opened
      /\ LET d == Cleared(c)
         IN  d \in Object /\ d.number = n /\ d.prefetch = c.prefetch /\ d.requested = c.requested
             /\ ~d.opened
  BY <1>1 DEF Object, Cleared
<1>9. CASE Close(o)
  <2> DEFINE d == [c EXCEPT !.needOpen = TRUE]
  <2>1. object' = [object EXCEPT ![o] = d] /\ Send(IF c.opened THEN <<Frame(o, "Close")>> ELSE <<>>)
    BY <1>9 DEF Close
  <2>2. out' = out \/ (c.opened /\ out' = out \o <<Frame(o, "Close")>>)
    BY <1>6, <1>7, <2>1
  <2> HIDE DEF d
  <2>3. d \in Object /\ d.number = n /\ d.prefetch = c.prefetch /\ d.requested = c.requested
        /\ d.opened = c.opened
    BY <1>8 DEF d
  <2>4. QED
    BY <1>5, <2>1, <2>2, <2>3
<1>10. CASE Reopen(o)
  <2>1. CASE c.opened
    <3> DEFINE d == [c EXCEPT !.needOpen = TRUE]
    <3>1. object' = [object EXCEPT ![o] = d] /\ Send(<<Frame(o, "Close")>>)
      BY <1>10, <2>1 DEF Reopen
    <3>2. out' = out \/ out' = out \o <<Frame(o, "Close")>>
      BY <1>6, <3>1
    <3> HIDE DEF d
    <3>3. d \in Object /\ d.number = n /\ d.prefetch = c.prefetch /\ d.requested = c.requested
          /\ d.opened = c.opened
      BY <1>8 DEF d
    <3>4. QED
      BY <1>5, <2>1, <3>1, <3>2, <3>3
  <2>2. CASE ~c.opened
    <3>1. object' = object /\ Send(IF c.needOpen THEN <<Frame(o, "Open")>> ELSE <<>>)
      BY <1>10, <2>2 DEF Reopen
    <3>2. out' = out \/ out' = out \o <<Frame(o, "Open")>>
      BY <1>6, <1>7, <3>1
    <3>3. object' = [object EXCEPT ![o] = c]
      BY <1>1, <3>1
    <3>4. QED
      BY <1>1, <1>5, <2>2, <3>2, <3>3
  <2>3. QED
    BY <2>1, <2>2
<1>11. CASE Reset(o)
  <2> DEFINE d == Cleared(c)
  <2>1. object' = [object EXCEPT ![o] = d] /\ out' = out
    BY <1>11 DEF Reset
  <2> HIDE DEF d
  <2>2. d \in Object /\ d.number = n /\ d.prefetch = c.prefetch /\ d.requested = c.requested
        /\ ~d.opened
    BY <1>8 DEF d
  <2>3. QED
    BY <1>5, <2>1, <2>2
<1>12. CASE Declare(o)
  <2> DEFINE d == [c EXCEPT !.delayedDeclare = ~c.opened, !.asked = ~c.opened]
  <2>1. object' = [object EXCEPT ![o].delayedDeclare = ~object[o].opened,
                                 ![o].asked = ~object[o].opened]
    BY <1>12 DEF Declare
  <2>2. object' = [object EXCEPT ![o] = d]
    BY <1>1, <2>1
  <2>3. Send(IF c.opened THEN <<Frame(o, "Declare")>> ELSE <<>>)
    BY <1>12 DEF Declare
  <2>4. out' = out \/ out' = out \o <<Frame(o, "Declare")>>
    BY <1>6, <1>7, <2>3
  <2>5. d \in Object /\ d.number = n /\ d.prefetch = c.prefetch /\ d.requested = c.requested
        /\ d.opened = c.opened
    <3>1. (~c.opened) \in BOOLEAN
      BY <1>3, Zenon
    <3>2. ASSUME NEW a \in BOOLEAN, NEW e, e = [c EXCEPT !.delayedDeclare = a, !.asked = a]
          PROVE  e \in Object /\ e.number = n /\ e.prefetch = c.prefetch /\ e.requested = c.requested
                 /\ e.opened = c.opened
      BY <1>1, <3>2 DEF Object
    <3>3. QED
      BY <3>1, <3>2
  <2> HIDE DEF d
  <2>6. QED
    BY <1>5, <2>2, <2>4, <2>5
<1>13. CASE Qos(o)
  <2>1. PICK k \in Prefetches :
          /\ object' = [object EXCEPT ![o].requested = k]
          /\ Send(<<[type |-> "Qos", channel |-> object[o].number, count |-> k]>>)
    BY <1>13 DEF Qos
  <2> DEFINE d == [c EXCEPT !.requested = k]
             f == [type |-> "Qos", channel |-> n, count |-> k]
  <2>2. object' = [object EXCEPT ![o] = d] /\ out' = IF link = "up" THEN out \o <<f>> ELSE out
    BY <2>1 DEF Send
  <2>3. d \in Object /\ d.number = n /\ d.prefetch = c.prefetch /\ d.requested = k /\ d.opened = c.opened
    BY <1>1 DEF Object
  <2>4. f \in OutFrames /\ f.type = "Qos" /\ f.channel = n /\ f.count = k
    BY <1>3, FrameTypes
  <2> HIDE DEF d, f
  <2>5. CalledOn(o, d, f)
    BY <1>2, <2>2, <2>3, <2>4 DEF CalledOn
  <2>6. QED
    BY <2>3, <2>4, <2>5
<1>14. CASE Resume(o)
  <2>1. object' = object /\ Send(<<Frame(o, "Flow")>>)
    BY <1>14 DEF Resume
  <2>2. out' = out \/ out' = out \o <<Frame(o, "Flow")>>
    BY <1>6, <2>1
  <2>3. object' = [object EXCEPT ![o] = c]
    BY <1>1, <2>1
  <2>4. QED
    BY <1>1, <1>5, <2>2, <2>3
<1>15. CASE Bind(o)
  <2> DEFINE d == [c EXCEPT !.bindings = IF c.opened THEN c.bindings ELSE c.bindings + 1]
  <2>1. object' = [object EXCEPT ![o] = d]
    BY <1>15 DEF Bind
  <2>2. Send(IF c.opened THEN <<Frame(o, "Bind")>> ELSE <<>>)
    BY <1>15 DEF Bind
  <2>3. out' = out \/ out' = out \o <<Frame(o, "Bind")>>
    BY <1>6, <1>7, <2>2
  <2>4. d \in Object /\ d.number = n /\ d.prefetch = c.prefetch /\ d.requested = c.requested
        /\ d.opened = c.opened
    <3>1. c.bindings + 1 \in 0..MaxCalls /\ c.bindings \in 0..MaxCalls
      <4>1. /\ calls < MaxCalls /\ calls \in 0..MaxCalls /\ c.bindings <= calls
            /\ c.bindings \in 0..MaxCalls
        BY <1>1, <1>15, ObjectFields DEF Bind, Call, Kept, TypeOK, BindingsCalled
      <4>2. QED
        BY <4>1, ChannelsAssumption
    <3>2. QED
      BY <1>1, <3>1 DEF Object
  <2> HIDE DEF d
  <2>5. QED
    BY <1>5, <2>1, <2>3, <2>4
<1>16. QED
  BY <1>9, <1>10, <1>11, <1>12, <1>13, <1>14, <1>15

-----------------------------------------------------------------------------
LEMMA OfWithout ==
    ASSUME NEW n
    PROVE  Of(<<>>, n) = <<>>
<1>1. <<>> \in Seq(OutFrames) /\ <<>> = <<>>
  OBVIOUS
<1>2. \A s \in Seq(OutFrames) : s = <<>> => Of(s, n) = <<>>
  BY OfSays
<1>3. QED
  BY <1>1, <1>2

\* What is known of an object and its channel when no other object has it.
LEMMA OrderlySays ==
    ASSUME Kept, AllOrderly, Undisturbed
    PROVE  \A o \in Objects, n \in Numbers : object[o].number = n =>
              LET c == object[o]
              IN  /\ Orderly(c.opened, c.requested, c.prefetch, broker[n], limit[n], Of(out, n), Of(in, n))
                  /\ \A p \in Objects : object[p].number = n => p = o
                  /\ c.opened \in BOOLEAN /\ c \in Object
                  /\ Of(out, n) \in Seq(OutFrames \cup {Other})
                  /\ Of(in, n) \in Seq(InFrames \cup {Other})
<1> SUFFICES ASSUME NEW o \in Objects, NEW n \in Numbers, object[o].number = n
             PROVE  LET c == object[o]
                    IN  /\ Orderly(c.opened, c.requested, c.prefetch, broker[n], limit[n], Of(out, n), Of(in, n))
                        /\ \A p \in Objects : object[p].number = n => p = o
                        /\ c.opened \in BOOLEAN /\ c \in Object
                        /\ Of(out, n) \in Seq(OutFrames \cup {Other})
                        /\ Of(in, n) \in Seq(InFrames \cup {Other})
  OBVIOUS
<1>1. Exists(o)
  BY DEF Exists, Numbers
<1>2. Neat(object[o], broker, limit, out, in)
  BY <1>1 DEF AllOrderly
<1>3. \A p \in Objects : object[p].number = n => p = o
  BY <1>1 DEF AllOrderly
<1>4. object[o] \in Object
  BY DEF Kept, TypeOK
<1>5. object[o].opened \in BOOLEAN
  BY <1>4, ObjectFields
<1>6. Of(out, n) \in Seq(OutFrames \cup {Other})
  BY OfSays DEF Kept, TypeOK
<1>7. Of(in, n) \in Seq(InFrames \cup {Other})
  BY OfSays DEF Kept, TypeOK
<1>8. QED
  BY <1>2, <1>3, <1>4, <1>5, <1>6, <1>7 DEF Neat

LEMMA CalledKeepsOrderly ==
    ASSUME Kept, AllOrderly, NEW o \in Objects, NEW c \in Object, NEW f \in OutFrames,
           CalledOn(o, c, f)
    PROVE  AllOrderly'
<1> DEFINE n == object[o].number
           d == object[o]
<1>1. /\ object \in [Objects -> Object] /\ d \in Object /\ out \in Seq(OutFrames)
      /\ in \in Seq(InFrames)
  BY DEF Kept, TypeOK
<1>2. /\ Exists(o) /\ happened \subseteq happened'
      /\ object' = [object EXCEPT ![o] = c]
      /\ c.number = n /\ c.prefetch = d.prefetch
      /\ f.channel = n
      /\ UNCHANGED <<link, in, broker, limit>>
  BY DEF CalledOn
<1>3. out' = out \/ out' = out \o <<f>>
  BY DEF CalledOn
<1>4. n \in Numbers
  BY <1>1, <1>2, ObjectFields DEF Exists
<1>5. <<f>> \in Seq(OutFrames) /\ \A i \in DOMAIN <<f>> : <<f>>[i].channel = n
  BY <1>2
<1>6. out' \in Seq(OutFrames)
  <2>1. \A a, b \in Seq(OutFrames) : a \o b \in Seq(OutFrames)
    OBVIOUS
  <2>2. out \o <<f>> \in Seq(OutFrames)
    BY <1>1, <1>5, <2>1
  <2>3. QED
    BY <1>1, <1>3, <2>2
<1>7. Moves(out, out', n) /\ Moves(in, in', n)
  <2>1. Moves(out, out, n) /\ Moves(in, in, n)
    BY <1>1, MovesNowhere
  <2>2. Moves(out, out \o <<f>>, n)
    BY <1>5, MovesOn
  <2>3. QED
    BY <1>2, <1>3, <2>1, <2>2
<1>8. object'[o] = c /\ \A p \in Objects : p # o => object'[p] = object[p]
  BY <1>1, <1>2
<1>9. ASSUME Undisturbed'
      PROVE  \A p \in Objects : object[p].number = n => Neat(object'[p], broker', limit', out', in')
  <2>1. Undisturbed /\ "delete" \notin happened
    BY <1>2, <1>9, StaysUndisturbed DEF Undisturbed
  <2> DEFINE q == Of(out, n)
             s == Of(in, n)
             ch == broker[n]
             lim == limit[n]
             E == OutFrames \cup {Other}
             G == InFrames \cup {Other}
  <2>2. /\ Orderly(d.opened, d.requested, d.prefetch, ch, lim, q, s)
        /\ \A p \in Objects : object[p].number = n => p = o
        /\ d.opened \in BOOLEAN /\ q \in Seq(E) /\ s \in Seq(G)
    BY <1>4, <2>1, OrderlySays
  <2>3. Of(out \o <<f>>, n) = Append(q, f) /\ f \in E
    BY <1>1, <1>2, OfAppend
  <2>4. ch = "closing" => HasType(s, "Close") \/ HasType(q, "CloseOk")
    <3>1. ch = "closing" => Has(in, n, "Close") \/ Has(out, n, "CloseOk")
      BY <1>1, <1>4, <2>1, AnsweredSays DEF Kept
    <3>2. Has(in, n, "Close") <=> HasType(s, "Close")
      BY <1>1, HasIsOf
    <3>3. Has(out, n, "CloseOk") <=> HasType(q, "CloseOk")
      BY <1>1, HasIsOf
    <3>4. QED
      BY <3>1, <3>2, <3>3
  <2>5. link # "up" => q = <<>> /\ s = <<>> /\ ch = "closed"
    <3>1. link # "up" => in = <<>> /\ out = <<>> /\ broker = AllClosed
      BY DEF Kept, NothingLeft
    <3>2. link # "up" => q = <<>> /\ s = <<>>
      BY <3>1, OfWithout
    <3>3. link # "up" => ch = "closed"
      BY <1>4, <3>1 DEF AllClosed
    <3>4. QED
      BY <3>2, <3>3
  <2> HIDE DEF q, s, ch, lim, E, G
  <2>6. Orderly(c.opened, c.requested, c.prefetch, ch, lim, Of(out', n), s)
    <3>1. ASSUME c.opened => d.opened, c.requested = d.requested, out' = out
          PROVE  Orderly(c.opened, c.requested, c.prefetch, ch, lim, Of(out', n), s)
      <4>1. Of(out', n) = q
        BY <3>1 DEF q
      <4>2. c.opened \in BOOLEAN
        BY ObjectFields
      <4>3. CASE c.opened
        <5>1. c.opened = TRUE /\ d.opened = TRUE
          BY <2>2, <3>1, <4>2, <4>3
        <5>2. QED
          BY <1>2, <2>2, <3>1, <4>1, <5>1
      <4>4. CASE ~c.opened
        <5>1. c.opened = FALSE
          BY <4>2, <4>4
        <5>2. Orderly(FALSE, d.requested, d.prefetch, ch, lim, q, s)
          BY <2>2, OrderlyForgets
        <5>3. QED
          BY <1>2, <3>1, <4>1, <5>1, <5>2
      <4>5. QED
        BY <4>3, <4>4
    <3>2. ASSUME c.opened = d.opened, c.requested = d.requested,
                 f.type \in {"Open", "Close", "Declare", "Bind", "Flow"},
                 f.type = "Close" => d.opened, f.type = "Open" => ~d.opened,
                 out' = out \o <<f>>
          PROVE  Orderly(c.opened, c.requested, c.prefetch, ch, lim, Of(out', n), s)
      <4>1. f.type \notin {"Qos", "CloseOk"} /\ (f.type \in Needs => d.opened)
        BY <3>2 DEF Needs
      <4>2. Orderly(d.opened, d.requested, d.prefetch, ch, lim, Append(q, f), s)
        BY <2>2, <2>3, <3>2, <4>1, OrderlySends
      <4>3. QED
        BY <1>2, <2>3, <3>2, <4>2
    <3>3. ASSUME c.opened = d.opened, c.requested = f.count, f.type = "Qos",
                 out' = IF link = "up" THEN out \o <<f>> ELSE out
          PROVE  Orderly(c.opened, c.requested, c.prefetch, ch, lim, Of(out', n), s)
      <4>1. f.count # 0
        <5>1. f.count \in Prefetches
          BY <3>3 DEF OutFrames
        <5>2. QED
          BY <5>1, ChannelsAssumption
      <4>2. CASE link = "up"
        <5>1. Orderly(d.opened, f.count, d.prefetch, ch, lim, Append(q, f), s)
          BY <2>2, <2>3, <2>4, <3>3, <4>1, OrderlyAsks
        <5>2. QED
          BY <1>2, <2>3, <3>3, <4>2, <5>1
      <4>3. CASE link # "up"
        <5>1. Orderly(d.opened, f.count, d.prefetch, "closed", lim, <<>>, <<>>)
          BY <2>2, <2>5, <4>1, <4>3, OrderlyOffline
        <5>2. Of(out', n) = q
          BY <3>3, <4>3 DEF q
        <5>3. QED
          BY <1>2, <2>5, <3>3, <4>3, <5>1, <5>2
      <4>4. QED
        BY <4>2, <4>3
    <3>4. QED
      BY <3>1, <3>2, <3>3 DEF CalledOn
  <2>7. Neat(c, broker', limit', out', in')
    BY <1>2, <2>6 DEF Neat, s, ch, lim
  <2>8. QED
    BY <1>8, <2>2, <2>7
<1>10. \A p \in Objects :
          /\ object'[p].number = object[p].number
          /\ object[p].number # n => object'[p] = object[p]
  BY <1>2, <1>8
<1> HIDE DEF n, d
<1>11. QED
  BY <1>2, <1>4, <1>6, <1>7, <1>9, <1>10, StepOrderly

-----------------------------------------------------------------------------
\* An object is created on a channel that is not in use.
LEMMA CreateOrderly ==
    ASSUME Kept, AllOrderly, Create
    PROVE  AllOrderly'
<1>1. PICK o, channel, number, need : CreateAs(o, channel, number, need)
  BY CreateNames DEF Kept
<1>2. /\ happened \subseteq happened' /\ UNCHANGED <<link, in, broker, limit>> /\ o \in Objects
  BY <1>1 DEF CreateAs, Happens
<1>3. /\ number \in Numbers /\ need \in BOOLEAN
      /\ object' \in [Objects -> Object]
      /\ object'[o].number = number /\ object'[o].needOpen = need /\ ~object'[o].opened
      /\ object'[o].bindings = 0
      /\ \A p \in Objects : p # o => object'[p] = object[p]
      /\ object[o] = Absent
      /\ \A p \in Objects : Exists(p)' <=> Exists(p) \/ p = o
      /\ \A p \in Objects : object'[p].opened = object[p].opened
      /\ out' \in Seq(OutFrames)
      /\ out' = out \/ (link = "up" /\ need /\ out' = out \o <<[type |-> "Open", channel |-> number]>>)
      /\ \A n : Uses(out', n) => Uses(out, n) \/ n = number
      /\ \A n, t : Has(out, n, t) => Has(out', n, t)
      /\ next' \in 0..MaxNumber /\ next <= next' /\ number <= next'
  BY <1>1, CreateFacts
<1> SUFFICES ASSUME Undisturbed'
             PROVE  /\ \A p, q \in Objects : Exists(p)' /\ object'[p].number = object'[q].number => p = q
                    /\ \A n \in Numbers : Owned(n)' \/ limit'[n] = 0
                    /\ \A p \in Objects : Exists(p)' => Neat(object'[p], broker', limit', out', in')
  BY DEF AllOrderly
<1>4. /\ Undisturbed /\ "shared" \notin happened' /\ "late" \notin happened' /\ "delete" \notin happened'
  BY <1>2, StaysUndisturbed
<1>5. object'[o] \in Object
  BY <1>2, <1>3
<1>6. ~Owned(number) /\ ~Used(number)
  BY <1>1, <1>4, CreateIsNew
<1>7. /\ broker[number] = "closed" /\ limit[number] = 0
      /\ \A i \in DOMAIN out : out[i].channel # number
      /\ \A i \in DOMAIN in : in[i].channel # number
      /\ \A p \in Objects : object[p].number # number
  <2>1. /\ broker[number] = "closed"
        /\ \A i \in DOMAIN out : out[i].channel # number
        /\ \A i \in DOMAIN in : in[i].channel # number
    BY <1>6 DEF Used, Uses
  <2>2. \A p \in Objects : object[p].number # number
    BY <1>6 DEF Owned
  <2>3. limit[number] = 0
    BY <1>4, <1>3, <1>6 DEF AllOrderly
  <2>4. QED
    BY <2>1, <2>2, <2>3
<1>8. /\ \A p, q \in Objects : Exists(p) /\ object[p].number = object[q].number => p = q
      /\ \A n \in Numbers : Owned(n) \/ limit[n] = 0
      /\ \A p \in Objects : Exists(p) => Neat(object[p], broker, limit, out, in)
  BY <1>4 DEF AllOrderly
<1>9. /\ \A p \in Objects : object[p] \in Object
      /\ out \in Seq(OutFrames) /\ in \in Seq(InFrames)
  BY DEF Kept, TypeOK
<1>10. \A p, q \in Objects : Exists(p)' /\ object'[p].number = object'[q].number => p = q
  BY <1>3, <1>7, <1>8 DEF Exists
<1>11. ASSUME NEW n \in Numbers PROVE Owned(n)' \/ limit'[n] = 0
  <2>1. CASE limit[n] = 0
    BY <1>2, <2>1
  <2>2. CASE Owned(n)
    <3>1. PICK p \in Objects : object[p].number = n
      BY <2>2 DEF Owned
    <3>2. p # o
      BY <1>3, <3>1 DEF Absent, Numbers
    <3>3. QED
      BY <1>3, <3>1, <3>2 DEF Owned
  <2>3. QED
    BY <1>8, <2>1, <2>2
<1>12. ASSUME NEW p \in Objects, Exists(p)', p # o
       PROVE  Neat(object'[p], broker', limit', out', in')
  <2> DEFINE m == object[p].number
             d == object[p]
  <2>1. object'[p] = d /\ Exists(p) /\ m # number
    BY <1>3, <1>7, <1>12 DEF Exists
  <2>2. Orderly(d.opened, d.requested, d.prefetch, broker[m], limit[m], Of(out, m), Of(in, m))
    BY <1>8, <2>1 DEF Neat
  <2>3. Moves(out, out', number)
    <3> DEFINE f == [type |-> "Open", channel |-> number]
    <3>1. <<f>> \in Seq(OutFrames) /\ \A i \in DOMAIN <<f>> : <<f>>[i].channel = number
      <4>1. f \in OutFrames /\ f.channel = number
        BY <1>3, FrameTypes
      <4> HIDE DEF f
      <4>2. QED
        BY <4>1
    <3> HIDE DEF f
    <3>2. Moves(out, out \o <<f>>, number)
      BY <3>1, MovesOn
    <3>3. Moves(out, out, number)
      BY <1>9, MovesNowhere
    <3>4. QED
      BY <1>3, <3>2, <3>3 DEF f
  <2> HIDE DEF d
  <2> HIDE DEF m
  <2>4. Of(in, m) \in Seq(InFrames \cup {Other})
    BY <1>9, OfSays
  <2>5. Orderly(d.opened, d.requested, d.prefetch, broker[m], limit[m], Of(out', m), Of(in, m))
    BY <1>9, <2>1, <2>2, <2>3, <2>4, MovesOut
  <2>6. d.number = m
    BY DEF d, m
  <2>7. QED
    BY <1>2, <2>1, <2>5, <2>6 DEF Neat
<1>13. Neat(object'[o], broker', limit', out', in')
  <2>1. object'[o].opened = FALSE
    BY <1>3, <1>5, ObjectFields
  <2>2. object'[o].requested = 0 /\ object'[o].prefetch = 0
    <3>1. object'[o] = [Absent EXCEPT !.number = number, !.needOpen = need]
      <4>1. object' = [object EXCEPT ![o] = [Absent EXCEPT !.number = number, !.needOpen = need]]
        BY <1>1 DEF CreateAs
      <4>2. object \in [Objects -> Object]
        BY DEF Kept, TypeOK
      <4>3. QED
        BY <1>2, <4>1, <4>2
    <3>2. ASSUME NEW c \in Object, NEW e, e = [c EXCEPT !.number = number, !.needOpen = need]
          PROVE  e.requested = c.requested /\ e.prefetch = c.prefetch
      BY <3>2 DEF Object
    <3>3. Absent.requested = 0 /\ Absent.prefetch = 0
      BY DEF Absent
    <3>4. QED
      BY <3>1, <3>2, <3>3, AbsentObject
  <2>3. \A i \in DOMAIN out' : out'[i].channel = number => out'[i].type = "Open"
    <3> DEFINE f == [type |-> "Open", channel |-> number]
    <3>1. f \in OutFrames /\ f.type = "Open"
      BY <1>3, FrameTypes
    <3> HIDE DEF f
    <3>2. CASE out' = out
      BY <1>7, <3>2
    <3>3. CASE out' = Append(out, f)
      <4>1. \A i \in DOMAIN out' : (i \in DOMAIN out /\ out'[i] = out[i]) \/ out'[i] = f
        BY <1>9, <3>1, <3>3, GrowthIs
      <4>2. QED
        BY <1>7, <3>1, <4>1
    <3>4. out \o <<f>> = Append(out, f)
      BY <1>9, <3>1
    <3>5. QED
      BY <1>3, <3>2, <3>3, <3>4 DEF f
  <2>4. \A i \in DOMAIN Of(out', number) : Of(out', number)[i].type \in {"Open", "Other"}
    BY <2>3 DEF Of, Other
  <2>5. \A i \in DOMAIN Of(in, number) : Of(in, number)[i].type = "Other"
    BY <1>7 DEF Of, Other
  <2>6. Orderly(FALSE, 0, 0, "closed", 0, Of(out', number), Of(in, number))
    BY <2>4, <2>5, OrderlyFresh
  <2>7. QED
    BY <1>2, <1>3, <1>7, <2>1, <2>2, <2>6 DEF Neat
<1>14. QED
  BY <1>10, <1>11, <1>12, <1>13

-----------------------------------------------------------------------------
(* The connection.                                                         *)

LEMMA LinkUpOrderly ==
    ASSUME Kept, AllOrderly, LinkUp
    PROVE  AllOrderly'
<1>1. /\ UNCHANGED <<object, in, broker, limit, happened>> /\ link = "down"
      /\ out = <<>> /\ in = <<>> /\ broker = AllClosed
      /\ \A o \in Objects : ~object[o].opened
  BY DEF Kept, LinkUp, NothingLeft
<1>2. \A j \in DOMAIN out' : out'[j].type = "Open"
  BY LinkUpSends
<1> SUFFICES ASSUME Undisturbed, NEW o \in Objects, Exists(o)
             PROVE  Neat(object[o], broker, limit, out', in)
  BY <1>1 DEF AllOrderly, Undisturbed, Exists, Owned
<1> DEFINE n == object[o].number
           d == object[o]
<1>3. n \in Numbers
  <2>1. d \in Object
    BY DEF Kept, TypeOK
  <2>2. QED
    BY <2>1, ObjectFields DEF Exists
<1>4. Orderly(d.opened, d.requested, d.prefetch, broker[n], limit[n], Of(out, n), Of(in, n))
      /\ d.opened \in BOOLEAN
  BY <1>3, OrderlySays
<1>5. Of(out, n) = <<>> /\ Of(in, n) = <<>>
  BY <1>1, OfWithout
<1>6. broker[n] = "closed" /\ d.opened = FALSE
  BY <1>1, <1>3, <1>4 DEF AllClosed
<1>7. \A i \in DOMAIN Of(out', n) : Of(out', n)[i].type \in {"Open", "Other"}
  BY <1>2 DEF Of, Other
<1> HIDE DEF d, n
<1>8. Orderly(FALSE, d.requested, d.prefetch, "closed", limit[n], Of(out', n), <<>>)
  BY <1>4, <1>5, <1>6, <1>7, OrderlyReconnects
<1>9. QED
  BY <1>5, <1>6, <1>8 DEF Neat, d, n

\* While the end of a connection follows no qos(), nothing of it is kept.
LEMMA LinkEndsFields ==
    ASSUME Kept, LinkLost \/ LinkCloses
    PROVE  /\ happened \subseteq happened'
           /\ out' = <<>> /\ in' = <<>> /\ broker' = AllClosed /\ limit' = NoLimits
           /\ \A o \in Objects : /\ object'[o].number = object[o].number
                                 /\ object'[o].requested = object[o].requested
                                 /\ object'[o].prefetch = object[o].prefetch
           /\ "outlived" \notin happened' => \A o \in Objects : object[o].requested = 0
<1>1. LinkEnds
  BY LinkStepsEnd
<1>2. Happens(EndEvents(Objects))
  BY DEF LinkLost, LinkCloses, SocketClosed
<1>3. "outlived" \notin happened' => \A o \in Objects : object[o].requested = 0
  BY <1>2 DEF Happens, EndEvents
<1>4. ASSUME NEW o \in Objects
      PROVE  object'[o].requested = object[o].requested /\ object'[o].prefetch = object[o].prefetch
  <2>1. object[o] \in Object
    BY DEF Kept, TypeOK
  <2>2. ASSUME NEW c \in Object, NEW e, e \in {Disconnected(o, Cleared(c)), Disconnected(o, c), c}
        PROVE  e.requested = c.requested /\ e.prefetch = c.prefetch
    <3>1. Cleared(c) \in Object /\ Cleared(c).requested = c.requested /\ Cleared(c).prefetch = c.prefetch
      BY DEF Object, Cleared
    <3>2. ASSUME NEW b \in Object
          PROVE  Disconnected(o, b).requested = b.requested /\ Disconnected(o, b).prefetch = b.prefetch
      BY DEF Object, Disconnected
    <3>3. QED
      BY <2>2, <3>1, <3>2
  <2>3. object'[o] \in {Disconnected(o, Cleared(object[o])), Disconnected(o, object[o]), object[o]}
    BY DEF LinkLost, LinkCloses, SocketClosed
  <2>4. QED
    BY <2>1, <2>2, <2>3
<1>5. QED
  BY <1>1, <1>3, <1>4 DEF LinkEnds

LEMMA LinkEndsOrderly ==
    ASSUME Kept, AllOrderly, LinkLost \/ LinkCloses
    PROVE  AllOrderly'
<1>1. /\ happened \subseteq happened'
      /\ out' = <<>> /\ in' = <<>> /\ broker' = AllClosed /\ limit' = NoLimits
      /\ \A o \in Objects : /\ object'[o].number = object[o].number
                            /\ object'[o].requested = object[o].requested
                            /\ object'[o].prefetch = object[o].prefetch
      /\ "outlived" \notin happened' => \A o \in Objects : object[o].requested = 0
  BY LinkEndsFields
<1> SUFFICES ASSUME Undisturbed'
             PROVE  /\ \A p, q \in Objects : Exists(p)' /\ object'[p].number = object'[q].number => p = q
                    /\ \A n \in Numbers : Owned(n)' \/ limit'[n] = 0
                    /\ \A p \in Objects : Exists(p)' => Neat(object'[p], broker', limit', out', in')
  BY DEF AllOrderly
<1>2. Undisturbed /\ \A o \in Objects : object[o].requested = 0
  BY <1>1, StaysUndisturbed
<1>3. \A p, q \in Objects : Exists(p)' /\ object'[p].number = object'[q].number => p = q
  BY <1>1, <1>2 DEF AllOrderly, Exists
<1>4. \A n \in Numbers : limit'[n] = 0 /\ broker'[n] = "closed"
  BY <1>1 DEF NoLimits, AllClosed
<1>5. ASSUME NEW o \in Objects, Exists(o)'
      PROVE  Neat(object'[o], broker', limit', out', in')
  <2> DEFINE n == object[o].number
             d == object[o]
  <2>1. n \in Numbers
    <3>1. object[o] \in Object
      BY DEF Kept, TypeOK
    <3>2. QED
      BY <1>1, <1>5, <3>1, ObjectFields DEF Exists
  <2>2. Orderly(d.opened, d.requested, d.prefetch, broker[n], limit[n], Of(out, n), Of(in, n))
    BY <1>2, <2>1, OrderlySays
  <2>3. d.prefetch = 0
    BY <1>2, <2>2 DEF Orderly, Unasked
  <2>4. object'[o].requested = 0 /\ object'[o].prefetch = 0 /\ object'[o].number = n
    BY <1>1, <1>2, <2>3
  <2>5. Of(out', n) = <<>> /\ Of(in', n) = <<>>
    BY <1>1, OfWithout
  <2> HIDE DEF n, d
  <2>6. Orderly(object'[o].opened, 0, 0, "closed", 0, <<>>, <<>>)
    BY OrderlyEmpty
  <2>7. QED
    BY <1>4, <2>1, <2>4, <2>5, <2>6 DEF Neat
<1>6. QED
  BY <1>3, <1>4, <1>5

-----------------------------------------------------------------------------
(* Frames received.                                                        *)

\* A frame is read, its channel being so afterwards.
LEMMA HeardOrderly ==
    ASSUME Kept, AllOrderly, NEW type, NEW n \in Numbers, Heard(type, n),
           Undisturbed' => \A o \in Objects : object[o].number = n =>
              Orderly(object'[o].opened, object'[o].requested, object'[o].prefetch,
                      broker[n], limit[n], Of(out', n), Of(in', n))
    PROVE  AllOrderly'
<1>1. PICK fs \in Seq(OutFrames) :
        /\ Receive(type, n)
        /\ \A o \in Objects :
              /\ object'[o].number = object[o].number
              /\ object[o].number # n => object'[o] = object[o]
        /\ out' = out \o fs
        /\ \A i \in DOMAIN fs : fs[i].channel = n /\ Owned(n)
        /\ happened \subseteq happened'
  BY DEF Heard
<1>2. /\ in # <<>> /\ Head(in) = [type |-> type, channel |-> n] /\ in' = Tail(in)
      /\ UNCHANGED <<broker, limit>>
  BY <1>1 DEF Receive
<1>3. out \in Seq(OutFrames) /\ in \in Seq(InFrames)
  BY DEF Kept, TypeOK
<1>4. out' \in Seq(OutFrames)
  <2>1. \A a, b \in Seq(OutFrames) : a \o b \in Seq(OutFrames)
    OBVIOUS
  <2>2. QED
    BY <1>1, <1>3, <2>1
<1>5. Moves(out, out', n)
  BY <1>1, MovesOn
<1>6. Moves(in, in', n)
  <2>1. in[1].channel = n
    BY <1>2, <1>3
  <2>2. QED
    BY <1>2, <2>1 DEF Moves
<1>7. ASSUME Undisturbed'
      PROVE  \A o \in Objects : object[o].number = n => Neat(object'[o], broker', limit', out', in')
  <2>1. ASSUME NEW o \in Objects, object[o].number = n
        PROVE  Neat(object'[o], broker', limit', out', in')
    <3>1. Orderly(object'[o].opened, object'[o].requested, object'[o].prefetch,
                  broker[n], limit[n], Of(out', n), Of(in', n))
      BY <1>7, <2>1
    <3>2. object'[o].number = n
      BY <1>1, <2>1
    <3>3. QED
      BY <1>2, <3>1, <3>2 DEF Neat
  <2>2. QED
    BY <2>1
<1>8. QED
  BY <1>1, <1>2, <1>4, <1>5, <1>6, <1>7, StepOrderly

\* What is known of the object that reads a frame, and of its channel.
LEMMA ReadingSays ==
    ASSUME Kept, AllOrderly, Undisturbed, NEW type, NEW n \in Numbers, Receive(type, n)
    PROVE  /\ out \in Seq(OutFrames)
           /\ Of(in, n) # <<>> /\ Of(in, n)[1].type = type /\ Of(in', n) = Tail(Of(in, n))
<1>1. out \in Seq(OutFrames) /\ in \in Seq(InFrames)
  BY DEF Kept, TypeOK
<1>2. in # <<>> /\ Head(in) = [type |-> type, channel |-> n] /\ in' = Tail(in)
  BY DEF Receive
<1>3. in[1].channel = n /\ in[1].type = type /\ 1 \in DOMAIN in
  BY <1>1, <1>2
<1>4. Of(in, n)[1] = in[1]
  BY <1>3 DEF Of
<1>5. Of(in, n) # <<>>
  <2>1. 1 \in DOMAIN Of(in, n)
    BY <1>3 DEF Of
  <2>2. QED
    BY <2>1
<1>6. Of(in', n) = Tail(Of(in, n))
  <2>1. ASSUME NEW r \in Seq(InFrames), r # <<>>
        PROVE  Of(Tail(r), n) = Tail(Of(r, n))
    BY <2>1, OfTail
  <2>2. Of(Tail(in), n) = Tail(Of(in, n))
    BY <1>1, <1>2, <2>1
  <2>3. QED
    BY <1>2, <2>2
<1>7. QED
  BY <1>1, <1>3, <1>4, <1>5, <1>6

LEMMA OpenOkOrderly ==
    ASSUME Kept, AllOrderly, NEW n \in Numbers, ReceiveOpenOk(n)
    PROVE  AllOrderly'
<1>1. /\ Receive("OpenOk", n) /\ happened' = happened
      /\ object' = [o \in Objects |-> IF object[o].number = n THEN OpenedAs(object[o]) ELSE object[o]]
  BY DEF ReceiveOpenOk, OpenedAs
<1>2. PICK fs \in Seq(OutFrames) :
         /\ out' = out \o fs
         /\ \A i \in DOMAIN fs : fs[i].channel = n /\ Owned(n) /\ fs[i].type \in {"Declare", "Bind"}
  BY OpenOkSends
<1>3. ASSUME Undisturbed', NEW o \in Objects, object[o].number = n
      PROVE  Orderly(object'[o].opened, object'[o].requested, object'[o].prefetch,
                     broker[n], limit[n], Of(out', n), Of(in', n))
  <2> DEFINE c == object[o]
             d == object'[o]
             ch == broker[n]
             lim == limit[n]
             q == Of(out, n)
             s == Of(in, n)
             E == OutFrames \cup {Other}
             G == InFrames \cup {Other}
  <2>1. Undisturbed
    BY <1>1, <1>3 DEF Undisturbed
  <2>2. /\ Orderly(c.opened, c.requested, c.prefetch, ch, lim, q, s)
        /\ c.opened \in BOOLEAN /\ c \in Object /\ q \in Seq(E) /\ s \in Seq(G)
    BY <1>3, <2>1, OrderlySays
  <2>3. out \in Seq(OutFrames) /\ s # <<>> /\ s[1].type = "OpenOk" /\ Of(in', n) = Tail(s)
    BY <1>1, <2>1, ReadingSays
  <2>4. d.opened = TRUE /\ d.requested = c.requested /\ d.prefetch = c.prefetch
    <3>1. d = OpenedAs(c)
      BY <1>1, <1>3
    <3>2. QED
      BY <2>2, <3>1 DEF OpenedAs, Object
  <2>5. Extends(q, Of(out', n), {"Other", "Declare", "Bind", "Flow"})
    <3>1. \A i \in DOMAIN fs : fs[i].channel = n => fs[i].type \in {"Declare", "Bind"}
      BY <1>2
    <3>2. Extends(Of(out, n), Of(out \o fs, n), {"Declare", "Bind"} \cup {"Other"})
      BY <2>3, <3>1, OfConcat
    <3>3. QED
      BY <1>2, <3>2, ExtendsMore
  <2> HIDE DEF c, d, ch, lim, q, s, E, G
  <2>6. Orderly(TRUE, c.requested, c.prefetch, ch, lim, q, Tail(s))
    BY <2>2, <2>3, OrderlyRead
  <2>7. Orderly(TRUE, c.requested, c.prefetch, ch, lim, Of(out', n), Tail(s))
    BY <2>5, <2>6, OrderlyAside
  <2>8. QED
    BY <2>3, <2>4, <2>7 DEF d, ch, lim
<1>4. Heard("OpenOk", n)
  BY ReceivedIsHeard
<1>5. QED
  BY <1>3, <1>4, HeardOrderly

\* The answer to a qos(), and one that is about nothing kept here.
LEMMA QosOkOrderly ==
    ASSUME Kept, AllOrderly, NEW n \in Numbers, ReceiveQosOk(n) \/ ReceiveFlowOk(n)
    PROVE  AllOrderly'
<1>1. out' = out /\ happened' = happened
  BY DEF ReceiveQosOk, ReceiveFlowOk
<1>2. ASSUME NEW type \in {"QosOk", "FlowOk"}, Receive(type, n), Undisturbed',
             NEW o \in Objects, object[o].number = n,
             LET p == IF type = "QosOk" THEN object[o].requested ELSE object[o].prefetch
             IN  /\ object'[o].opened = object[o].opened
                 /\ object'[o].requested = object[o].requested
                 /\ object'[o].prefetch = p
      PROVE  Orderly(object'[o].opened, object'[o].requested, object'[o].prefetch,
                     broker[n], limit[n], Of(out', n), Of(in', n))
  <2> DEFINE c == object[o]
             d == object'[o]
             ch == broker[n]
             lim == limit[n]
             q == Of(out, n)
             s == Of(in, n)
             E == OutFrames \cup {Other}
             G == InFrames \cup {Other}
  <2>1. Undisturbed
    BY <1>1, <1>2 DEF Undisturbed
  <2>2. /\ Orderly(c.opened, c.requested, c.prefetch, ch, lim, q, s)
        /\ c.opened \in BOOLEAN /\ q \in Seq(E) /\ s \in Seq(G)
    BY <1>2, <2>1, OrderlySays
  <2>3. s # <<>> /\ s[1].type = type /\ Of(in', n) = Tail(s)
    BY <1>2, <2>1, ReadingSays
  <2>4. Of(out', n) = q
    BY <1>1
  <2>5. /\ d.opened = c.opened /\ d.requested = c.requested
        /\ d.prefetch = IF type = "QosOk" THEN c.requested ELSE c.prefetch
    BY <1>2
  <2> HIDE DEF c, d, ch, lim, q, s, E, G
  <2>6. CASE type = "QosOk"
    <3>1. Orderly(c.opened, c.requested, c.requested, ch, lim, q, Tail(s))
      BY <2>2, <2>3, <2>6, OrderlyAgreed
    <3>2. QED
      BY <2>3, <2>4, <2>5, <2>6, <3>1 DEF d, ch, lim
  <2>7. CASE type = "FlowOk"
    <3>1. Orderly(c.opened, c.requested, c.prefetch, ch, lim, q, Tail(s))
      BY <2>2, <2>3, <2>7, OrderlyRead
    <3>2. QED
      BY <2>3, <2>4, <2>5, <2>7, <3>1 DEF d, ch, lim
  <2>8. QED
    BY <2>6, <2>7
<1>3. CASE ReceiveQosOk(n)
  <2>1. /\ Receive("QosOk", n)
        /\ object' = [o \in Objects |-> IF object[o].number = n THEN ServedAs(object[o]) ELSE object[o]]
    BY <1>3 DEF ReceiveQosOk, ServedAs
  <2>2. ASSUME NEW o \in Objects, object[o].number = n
        PROVE  /\ object'[o].opened = object[o].opened
               /\ object'[o].requested = object[o].requested
               /\ object'[o].prefetch = object[o].requested
    <3>1. object[o] \in Object
      BY DEF Kept, TypeOK
    <3>2. object'[o] = ServedAs(object[o])
      BY <2>1, <2>2
    <3>3. QED
      BY <3>1, <3>2 DEF ServedAs, Object
  <2>3. Heard("QosOk", n)
    BY <1>3, ReceivedIsHeard
  <2>4. Undisturbed' => \A o \in Objects : object[o].number = n =>
           Orderly(object'[o].opened, object'[o].requested, object'[o].prefetch,
                   broker[n], limit[n], Of(out', n), Of(in', n))
    BY <1>2, <2>1, <2>2
  <2>5. QED
    BY <2>3, <2>4, HeardOrderly
<1>4. CASE ReceiveFlowOk(n)
  <2>1. Receive("FlowOk", n) /\ object' = object
    BY <1>4 DEF ReceiveFlowOk
  <2>2. Heard("FlowOk", n)
    BY <1>4, ReceivedIsHeard
  <2>3. Undisturbed' => \A o \in Objects : object[o].number = n =>
           Orderly(object'[o].opened, object'[o].requested, object'[o].prefetch,
                   broker[n], limit[n], Of(out', n), Of(in', n))
    BY <1>2, <2>1
  <2>4. QED
    BY <2>2, <2>3, HeardOrderly
<1>5. QED
  BY <1>3, <1>4

\* What reopen() sends from a slot on closed(): nothing was asked for on the
\* channel, and if it was taken for open, no open of it is behind.
LEMMA SlotOrderly ==
    ASSUME Kept, NEW n \in Numbers, NEW o \in Objects, object[o].number = n, NEW slots,
           NEW r \in Seq(OutFrames), NEW prefetch, NEW ch, NEW lim, NEW G, NEW s \in Seq(G),
           Orderly(FALSE, 0, prefetch, ch, lim, Of(r, n), s),
           object[o].opened => NoLateOpen(ch, Of(r, n)) /\ ~HasType(s, "OpenOk")
    PROVE  Orderly(FALSE, 0, prefetch, ch, lim, Of(r \o SlotSends(o, slots), n), s)
<1> DEFINE q == Of(r, n)
           E == OutFrames \cup {Other}
           close == Frame(o, "Close")
           open == Frame(o, "Open")
<1>1. /\ close \in OutFrames /\ close.type = "Close" /\ close.channel = n
      /\ open \in OutFrames /\ open.type = "Open" /\ open.channel = n
  BY FrameTypes DEF Frame
<1>2. /\ SlotSends(o, slots) \in {<<>>, <<close>>, <<open>>}
      /\ SlotSends(o, slots) = <<close>> => object[o].opened
  <2>1. <<close>> # <<>> /\ <<close>> # <<open>>
    BY <1>1
  <2>2. CASE o \notin slots
    BY <2>1, <2>2 DEF SlotSends
  <2>3. CASE o \in slots /\ object[o].opened
    BY <2>3 DEF SlotSends
  <2>4. CASE o \in slots /\ ~object[o].opened
    BY <2>1, <2>4 DEF SlotSends
  <2>5. QED
    BY <2>2, <2>3, <2>4
<1>3. q \in Seq(E)
  BY OfSays
<1>4. ASSUME NEW f \in OutFrames, f.channel = n
      PROVE  Of(r \o <<f>>, n) = Append(q, f) /\ f \in E
  BY <1>4, OfAppend
<1> HIDE DEF close, open, q, E
<1>5. CASE SlotSends(o, slots) = <<>>
  <2>1. r \o SlotSends(o, slots) = r
    BY <1>5
  <2>2. QED
    BY <2>1
<1>6. CASE SlotSends(o, slots) = <<close>>
  <2>1. Orderly(FALSE, 0, prefetch, ch, lim, q, s) /\ NoLateOpen(ch, q) /\ ~HasType(s, "OpenOk")
    BY <1>2, <1>6 DEF q
  <2>2. Orderly(FALSE, 0, prefetch, ch, lim, Append(q, close), s)
    BY <1>1, <1>3, <1>4, <2>1, OrderlySendsClose
  <2>3. QED
    BY <1>1, <1>4, <1>6, <2>2
<1>7. CASE SlotSends(o, slots) = <<open>>
  <2>1. Orderly(FALSE, 0, prefetch, ch, lim, q, s)
    BY DEF q
  <2>2. open.type \notin {"Qos", "CloseOk"} /\ open.type \notin Needs
    BY <1>1 DEF Needs
  <2>3. Orderly(FALSE, 0, prefetch, ch, lim, Append(q, open), s)
    BY <1>1, <1>3, <1>4, <2>1, <2>2, OrderlySends
  <2>4. QED
    BY <1>1, <1>4, <1>7, <2>3
<1>8. QED
  BY <1>2, <1>5, <1>6, <1>7

\* What becomes of the object of a channel that is closed: nothing was asked
\* for on it.
LEMMA ClosedOrderly ==
    ASSUME Kept, AllOrderly, NEW n \in Numbers, NEW slots,
           Happens(CloseEvents(n, slots)), Closed(n, slots), Undisturbed',
           NEW o \in Objects, object[o].number = n
    PROVE  /\ Undisturbed
           /\ object[o].requested = 0
           /\ object'[o].opened = FALSE /\ object'[o].requested = 0
           /\ object'[o].prefetch = object[o].prefetch
<1> DEFINE need == object[o].needOpen \/ (o \in slots /\ object[o].opened)
<1>1. happened \subseteq happened' /\ CloseEvents(n, slots) \subseteq happened'
  BY DEF Happens
<1>2. Undisturbed /\ "outlived" \notin happened'
  BY <1>1, StaysUndisturbed
<1>3. object[o].requested = 0
  BY <1>1, <1>2 DEF CloseEvents, EndEvents
<1>4. object[o] \in Object
  BY DEF Kept, TypeOK
<1>5. object'[o] = ClosedAs(object[o], need)
  BY DEF Closed, ClosedAs
<1> HIDE DEF need
<1>6. /\ object'[o].opened = FALSE /\ object'[o].requested = object[o].requested
      /\ object'[o].prefetch = object[o].prefetch
  BY <1>4, <1>5 DEF ClosedAs, Object
<1>7. QED
  BY <1>2, <1>3, <1>6

LEMMA CloseOrderly ==
    ASSUME Kept, AllOrderly, NEW n \in Numbers, ReceiveClose(n)
    PROVE  AllOrderly'
<1>1. PICK slots \in SUBSET {o \in Objects : object[o].number = n} :
         /\ Receive("Close", n)
         /\ Happens(CloseEvents(n, slots))
         /\ Closed(n, slots)
         /\ Send(SentOn(n, [o \in Objects |-> <<Frame(o, "CloseOk")>> \o SlotSends(o, slots)]))
  BY DEF ReceiveClose
<1> DEFINE frames == [o \in Objects |-> <<Frame(o, "CloseOk")>> \o SlotSends(o, slots)]
<1>2. ASSUME Undisturbed', NEW o \in Objects, object[o].number = n
      PROVE  Orderly(object'[o].opened, object'[o].requested, object'[o].prefetch,
                     broker[n], limit[n], Of(out', n), Of(in', n))
  <2> DEFINE c == object[o]
             ch == broker[n]
             lim == limit[n]
             q == Of(out, n)
             s == Of(in, n)
             f == Frame(o, "CloseOk")
             r == Append(out, f)
             E == OutFrames \cup {Other}
             G == InFrames \cup {Other}
             T == SlotSends(o, slots)
  <2>1. /\ Undisturbed /\ c.requested = 0
        /\ object'[o].opened = FALSE /\ object'[o].requested = 0
        /\ object'[o].prefetch = c.prefetch
    BY <1>1, <1>2, ClosedOrderly
  <2>2. /\ Orderly(c.opened, c.requested, c.prefetch, ch, lim, q, s)
        /\ \A p \in Objects : object[p].number = n => p = o
        /\ c.opened \in BOOLEAN /\ q \in Seq(E) /\ s \in Seq(G)
    BY <1>2, <2>1, OrderlySays
  <2>3. out \in Seq(OutFrames) /\ s # <<>> /\ s[1].type = "Close" /\ Of(in', n) = Tail(s)
    BY <1>1, <2>1, ReadingSays
  <2>4. f \in OutFrames /\ f.type = "CloseOk" /\ f.channel = n
    BY <1>2, FrameTypes DEF Frame
  <2>5. T \in Seq(OutFrames)
    BY <1>2, SlotSendsSays DEF Exists, Numbers
  <2>6. frames[o] = <<f>> \o T
    OBVIOUS
  <2> HIDE DEF f, T, frames
  <2>7. /\ r \in Seq(OutFrames) /\ <<f>> \o T \in Seq(OutFrames)
        /\ out \o (<<f>> \o T) = r \o T /\ r = out \o <<f>>
    <3>1. ASSUME NEW F, NEW a \in Seq(F), NEW g \in F, NEW b \in Seq(F)
          PROVE  /\ Append(a, g) \in Seq(F) /\ <<g>> \o b \in Seq(F)
                 /\ a \o (<<g>> \o b) = Append(a, g) \o b
                 /\ Append(a, g) = a \o <<g>>
      OBVIOUS
    <3>2. QED
      BY <2>3, <2>4, <2>5, <3>1
  <2>8. SentOn(n, frames) = frames[o]
    <3>1. frames[o] \in Seq(OutFrames)
      BY <2>6, <2>7
    <3>2. TypeOK /\ Listed
      BY DEF Kept
    <3>3. QED
      BY <1>2, <2>2, <3>1, <3>2, SentAlone
  <2>9. out' = r \o T
    <3>1. out' = out \o SentOn(n, frames)
      BY <1>1 DEF Send, Receive, frames
    <3>2. QED
      BY <2>6, <2>7, <2>8, <3>1
  <2>10. Of(r, n) = Append(q, f) /\ f \in E
    BY <2>3, <2>4, <2>7, OfAppend
  <2> HIDE DEF c, ch, lim, q, s, r, E, G
  <2>11. Orderly(FALSE, 0, c.prefetch, ch, lim, Append(q, f), Tail(s))
    BY <2>1, <2>2, <2>3, <2>4, <2>10, OrderlyReadsClose
  <2>12. c.opened => NoLateOpen(ch, Append(q, f)) /\ ~HasType(Tail(s), "OpenOk")
    <3>1. ASSUME c.opened
          PROVE  NoLateOpen(ch, Append(q, f)) /\ ~HasType(Tail(s), "OpenOk")
      <4>1. Orderly(TRUE, c.requested, c.prefetch, ch, lim, q, s)
        BY <2>2, <3>1
      <4>2. /\ ~HasType(Tail(s), "OpenOk")
            /\ \A g \in E : g.type # "Open" => NoLateOpen(ch, Append(q, g))
        BY <2>2, <2>3, <4>1, OrderlyKnows
      <4>3. QED
        BY <2>4, <2>10, <4>2
    <3>2. QED
      BY <3>1
  <2>13. Tail(s) \in Seq(G)
    BY <2>2, <2>3
  <2>14. Orderly(FALSE, 0, c.prefetch, ch, lim, Of(r \o T, n), Tail(s))
    BY <1>2, <2>7, <2>10, <2>11, <2>12, <2>13, SlotOrderly DEF c, T
  <2>15. QED
    BY <2>1, <2>3, <2>9, <2>14 DEF ch, lim
<1>3. Heard("Close", n)
  BY ReceivedIsHeard
<1>4. QED
  BY <1>2, <1>3, HeardOrderly

LEMMA CloseOkOrderly ==
    ASSUME Kept, AllOrderly, NEW n \in Numbers, ReceiveCloseOk(n)
    PROVE  AllOrderly'
<1>1. PICK slots \in SUBSET {o \in Objects : object[o].number = n} :
         /\ Receive("CloseOk", n)
         /\ Happens(CloseEvents(n, slots))
         /\ Closed(n, slots)
         /\ Send(SentOn(n, [o \in Objects |-> SlotSends(o, slots)]))
  BY DEF ReceiveCloseOk
<1> DEFINE frames == [o \in Objects |-> SlotSends(o, slots)]
<1>2. ASSUME Undisturbed', NEW o \in Objects, object[o].number = n
      PROVE  Orderly(object'[o].opened, object'[o].requested, object'[o].prefetch,
                     broker[n], limit[n], Of(out', n), Of(in', n))
  <2> DEFINE c == object[o]
             ch == broker[n]
             lim == limit[n]
             q == Of(out, n)
             s == Of(in, n)
             E == OutFrames \cup {Other}
             G == InFrames \cup {Other}
             T == SlotSends(o, slots)
  <2>1. /\ Undisturbed /\ c.requested = 0
        /\ object'[o].opened = FALSE /\ object'[o].requested = 0
        /\ object'[o].prefetch = c.prefetch
    BY <1>1, <1>2, ClosedOrderly
  <2>2. /\ Orderly(c.opened, c.requested, c.prefetch, ch, lim, q, s)
        /\ \A p \in Objects : object[p].number = n => p = o
        /\ c.opened \in BOOLEAN /\ q \in Seq(E) /\ s \in Seq(G)
    BY <1>2, <2>1, OrderlySays
  <2>3. out \in Seq(OutFrames) /\ s # <<>> /\ s[1].type = "CloseOk" /\ Of(in', n) = Tail(s)
    BY <1>1, <2>1, ReadingSays
  <2>4. T \in Seq(OutFrames)
    BY <1>2, SlotSendsSays DEF Exists, Numbers
  <2>5. frames[o] = T
    OBVIOUS
  <2> HIDE DEF T, frames
  <2>6. SentOn(n, frames) = frames[o]
    BY <1>2, <2>2, <2>4, <2>5, SentAlone DEF Kept
  <2>7. out' = out \o T
    <3>1. out' = out \o SentOn(n, frames)
      BY <1>1 DEF Send, Receive, frames
    <3>2. QED
      BY <2>5, <2>6, <3>1
  <2> HIDE DEF c, ch, lim, q, s, E, G
  <2>8. Orderly(FALSE, 0, c.prefetch, ch, lim, q, Tail(s))
    BY <2>1, <2>2, <2>3, OrderlyReadsCloseOk
  <2>9. c.opened => NoLateOpen(ch, q) /\ ~HasType(Tail(s), "OpenOk")
    <3>1. ASSUME c.opened
          PROVE  NoLateOpen(ch, q) /\ ~HasType(Tail(s), "OpenOk")
      <4>1. Orderly(TRUE, c.requested, c.prefetch, ch, lim, q, s)
        BY <2>2, <3>1
      <4>2. /\ NoLateOpen(ch, q) /\ ~HasType(Tail(s), "OpenOk")
            /\ \A g \in E : g.type # "Open" => NoLateOpen(ch, Append(q, g))
        BY <2>2, <2>3, <4>1, OrderlyKnows
      <4>3. QED
        BY <4>2
    <3>2. QED
      BY <3>1
  <2>10. Tail(s) \in Seq(G)
    BY <2>2, <2>3
  <2>11. Orderly(FALSE, 0, c.prefetch, ch, lim, Of(out \o T, n), Tail(s))
    BY <1>2, <2>3, <2>8, <2>9, <2>10, SlotOrderly DEF c, T, q
  <2>12. QED
    BY <2>1, <2>3, <2>7, <2>11 DEF ch, lim
<1>3. Heard("CloseOk", n)
  BY ReceivedIsHeard
<1>4. QED
  BY <1>2, <1>3, HeardOrderly

-----------------------------------------------------------------------------
(* Frames read by the broker.                                              *)

\* One frame more, of a type of T.
LEMMA ExtendsByOne ==
    ASSUME NEW F, NEW s \in Seq(F), NEW f \in F, NEW T, f.type \in T
    PROVE  Extends(s, Append(s, f), T)
<1> DEFINE t == Append(s, f)
           n == Len(s) + 1
<1>1. /\ \A i \in DOMAIN t : i \in Int /\ ((i \in DOMAIN s /\ t[i] = s[i] /\ i < n) \/ (i = n /\ t[i] = f))
      /\ \A i \in DOMAIN s : i \in DOMAIN t /\ t[i] = s[i] /\ i < n /\ i \in Int
  BY GrowthIs
<1> HIDE DEF t, n
<1>2. Extends(s, t, T)
  BY <1>1 DEF Extends
<1>3. QED
  BY <1>2 DEF t

\* The frames `s`, with what the broker answers.
Hears(answer, n, G, s, u) ==
    /\ answer = <<>> => u = s
    /\ \A t \in {"OpenOk", "CloseOk", "QosOk", "FlowOk"} :
          LET f == [type |-> t, channel |-> n]
          IN  answer = <<f>> => f \in G /\ f.type = t /\ u = Append(s, f)

\* The prefetch it keeps to when it has read `f`.
Rationed(type, state, f, lim) ==
    CASE type = "Open" /\ state = "open" -> 0
      [] type = "Qos" /\ state = "open"  -> f.count
      [] OTHER                           -> lim

\* What the broker makes of the next frame of a channel.
LEMMA ReactsOrderly ==
    ASSUME NEW n, NEW opened \in BOOLEAN, NEW requested, NEW prefetch,
           NEW b \in {"closed", "open", "closing"}, NEW lim,
           NEW F, NEW q \in Seq(F), NEW G, NEW s \in Seq(G),
           Orderly(opened, requested, prefetch, b, lim, q, s),
           NEW type, q # <<>>, q[1].type = type,
           NEW state, NEW answer, Reaction(type, n, b, state, answer),
           NEW u, Hears(answer, n, G, s, u),
           NEW l, l = Rationed(type, state, q[1], lim)
    PROVE  Orderly(opened, requested, prefetch, state, l, Tail(q), u)
<1>1. Tail(q) \in Seq(F)
  OBVIOUS
<1>2. CASE /\ type = "Open" /\ b = "closed" /\ state = "open"
           /\ answer = <<[type |-> "OpenOk", channel |-> n]>>
  <2>1. PICK f \in G : f.type = "OpenOk" /\ u = Append(s, f)
    BY <1>2 DEF Hears
  <2>2. l = 0
    BY <1>2 DEF Rationed
  <2>3. Orderly(opened, requested, prefetch, "open", 0, Tail(q), Append(s, f))
    BY <1>2, <2>1, OrderlyOpens
  <2>4. QED
    BY <1>2, <2>1, <2>2, <2>3
<1>3. CASE /\ type = "Close" /\ answer = <<[type |-> "CloseOk", channel |-> n]>>
           /\ (b = "open" /\ state = "closed") \/ (b = "closing" /\ state = "closing")
  <2>1. PICK f \in G : f.type = "CloseOk" /\ u = Append(s, f)
    BY <1>3 DEF Hears
  <2>2. l = lim
    BY <1>3 DEF Rationed
  <2>3. /\ b \in {"open", "closing"} /\ state \in {"closed", "closing"}
        /\ (b = "closing" => state = "closing") /\ (b = "open" => state = "closed")
    BY <1>3
  <2>4. Orderly(opened, requested, prefetch, state, lim, Tail(q), Append(s, f))
    BY <1>3, <2>1, <2>3, OrderlyAnswers
  <2>5. QED
    BY <2>1, <2>2, <2>4
<1>4. CASE type \in {"Declare", "Bind"} /\ b = "open" /\ state = "open" /\ answer = <<>>
  <2>1. l = lim /\ u = s /\ type # "CloseOk" /\ type # "Qos"
    BY <1>4 DEF Hears, Rationed
  <2>2. Orderly(opened, requested, prefetch, b, lim, Tail(q), s)
    BY <2>1, OrderlyTaken
  <2>3. QED
    BY <1>4, <2>1, <2>2
<1>5. CASE /\ type = "Qos" /\ b = "open" /\ state = "open"
           /\ answer = <<[type |-> "QosOk", channel |-> n]>>
  <2>1. PICK f \in G : f.type = "QosOk" /\ u = Append(s, f)
    BY <1>5 DEF Hears
  <2>2. l = q[1].count
    BY <1>5 DEF Rationed
  <2>3. Orderly(opened, requested, prefetch, "open", q[1].count, Tail(q), Append(s, f))
    BY <1>5, <2>1, OrderlyServes
  <2>4. QED
    BY <1>5, <2>1, <2>2, <2>3
<1>6. CASE /\ type = "Flow" /\ b = "open" /\ state = "open"
           /\ answer = <<[type |-> "FlowOk", channel |-> n]>>
  <2>1. PICK f \in G : f.type = "FlowOk" /\ u = Append(s, f)
    BY <1>6 DEF Hears
  <2>2. l = lim /\ type # "CloseOk" /\ type # "Qos"
    BY <1>6 DEF Rationed
  <2>3. Orderly(opened, requested, prefetch, b, lim, Tail(q), s)
    BY <2>2, OrderlyTaken
  <2>4. Extends(s, u, {"Other", "FlowOk"})
    BY <2>1, ExtendsByOne
  <2>5. Orderly(opened, requested, prefetch, b, lim, Tail(q), u)
    BY <2>3, <2>4, OrderlyHears
  <2>6. QED
    BY <1>6, <2>2, <2>5
<1>7. CASE type = "CloseOk" /\ state = (IF b = "closing" THEN "closed" ELSE b) /\ answer = <<>>
  <2>1. l = lim /\ u = s
    BY <1>7 DEF Hears, Rationed
  <2>2. b = "closing" /\ Orderly(opened, requested, prefetch, "closed", lim, Tail(q), s)
    BY <1>7, OrderlyClosed
  <2>3. QED
    BY <1>7, <2>1, <2>2
<1>8. CASE type \in Served \cup {"Open"} /\ b = "closing" /\ state = "closing" /\ answer = <<>>
  <2>1. l = lim /\ u = s /\ type # "CloseOk"
    BY <1>8 DEF Served, Hears, Rationed
  <2>2. Orderly(opened, requested, prefetch, b, lim, Tail(q), s)
    BY <1>8, <2>1, OrderlyTaken
  <2>3. QED
    BY <1>8, <2>1, <2>2
<1>9. QED
  BY <1>2, <1>3, <1>4, <1>5, <1>6, <1>7, <1>8 DEF Reaction

LEMMA TakenOrderly ==
    ASSUME Kept, AllOrderly, NEW n \in Numbers, NEW type, NEW state, NEW answer,
           Taken(type, n, state, answer), Reaction(type, n, broker[n], state, answer)
    PROVE  AllOrderly'
<1>1. /\ out \in Seq(OutFrames) /\ in \in Seq(InFrames)
      /\ broker \in [Numbers -> {"closed", "open", "closing"}]
      /\ limit \in [Numbers -> Prefetches \cup {0}]
  BY DEF Kept, TypeOK
<1>2. /\ out # <<>> /\ Is(out, 1, n, type) /\ out' = Tail(out)
      /\ broker' = [broker EXCEPT ![n] = state]
      /\ limit' = [limit EXCEPT ![n] = CASE type = "Open" /\ state = "open" -> 0
                                         [] type = "Qos" /\ state = "open"  -> Head(out).count
                                         [] OTHER                           -> @]
      /\ answer \in {<<>>} \cup {<<[type |-> t, channel |-> n]>> : t \in {"OpenOk", "CloseOk", "QosOk", "FlowOk"}}
      /\ in' = in \o answer
      /\ UNCHANGED <<object, happened>>
  BY DEF Taken
<1>3. out[1].channel = n /\ out[1].type = type /\ 1 \in DOMAIN out /\ Head(out) = out[1]
  BY <1>1, <1>2 DEF Is
<1>4. out' \in Seq(OutFrames)
  BY <1>1, <1>2
<1>5. Moves(out, out', n)
  BY <1>2, <1>3 DEF Moves
<1>6. \A t \in {"OpenOk", "CloseOk", "QosOk", "FlowOk"} :
         LET f == [type |-> t, channel |-> n]
         IN  f \in InFrames /\ f.type = t /\ f.channel = n
  BY DEF InFrames
<1>7. Moves(in, in', n)
  <2>1. ASSUME NEW f \in InFrames, f.channel = n
        PROVE  <<f>> \in Seq(InFrames) /\ \A i \in DOMAIN <<f>> : <<f>>[i].channel = n
    BY <2>1
  <2>2. <<>> \in Seq(InFrames) /\ \A i \in DOMAIN <<>> : <<>>[i].channel = n
    OBVIOUS
  <2>3. answer \in Seq(InFrames) /\ \A i \in DOMAIN answer : answer[i].channel = n
    BY <1>2, <1>6, <2>1, <2>2
  <2>4. QED
    BY <1>2, <2>3, MovesOn
<1>8. /\ \A m \in Numbers : m # n => broker'[m] = broker[m] /\ limit'[m] = limit[m]
      /\ broker'[n] = state
  BY <1>1, <1>2
<1>9. limit'[n] = CASE type = "Open" /\ state = "open" -> 0
                    [] type = "Qos" /\ state = "open"  -> out[1].count
                    [] OTHER                           -> limit[n]
  BY <1>1, <1>2, <1>3
<1>10. Undisturbed' => Owned(n)
  <2>1. Undisturbed' => "delete" \notin happened
    BY <1>2 DEF Undisturbed
  <2>2. Used(n)
    BY <1>3 DEF Used, Uses
  <2>3. QED
    BY <2>1, <2>2 DEF Kept, UsedAreOwned
<1>11. ASSUME Undisturbed', NEW o \in Objects, object[o].number = n
       PROVE  Neat(object'[o], broker', limit', out', in')
  <2> DEFINE c == object[o]
             b == broker[n]
             q == Of(out, n)
             s == Of(in, n)
             u == Of(in', n)
             l == limit'[n]
             E == OutFrames \cup {Other}
             G == InFrames \cup {Other}
  <2>1. Undisturbed
    BY <1>2, <1>11 DEF Undisturbed
  <2>2. /\ Orderly(c.opened, c.requested, c.prefetch, b, limit[n], q, s)
        /\ c.opened \in BOOLEAN /\ q \in Seq(E) /\ s \in Seq(G)
    BY <1>11, <2>1, OrderlySays
  <2>3. q[1] = out[1] /\ q # <<>>
    <3>1. 1 \in DOMAIN q /\ q[1] = out[1]
      BY <1>3 DEF Of
    <3>2. QED
      BY <3>1
  <2>4. Of(out', n) = Tail(q)
    <3>1. ASSUME NEW r \in Seq(OutFrames), r # <<>>
          PROVE  Of(Tail(r), n) = Tail(Of(r, n))
      BY <3>1, OfTail
    <3>2. Of(Tail(out), n) = Tail(Of(out, n))
      BY <1>1, <1>2, <3>1
    <3>3. QED
      BY <1>2, <3>2
  <2>5. answer = <<>> => u = s
    BY <1>1, <1>2
  <2>6. ASSUME NEW t \in {"OpenOk", "CloseOk", "QosOk", "FlowOk"},
               answer = <<[type |-> t, channel |-> n]>>
        PROVE  u = Append(s, [type |-> t, channel |-> n])
    <3> DEFINE f == [type |-> t, channel |-> n]
    <3>1. f \in InFrames /\ f.channel = n
      BY <1>6
    <3>2. in' = in \o <<f>>
      BY <1>2, <2>6
    <3> HIDE DEF f
    <3>3. Of(in \o <<f>>, n) = Append(Of(in, n), f)
      BY <1>1, <3>1, OfAppend
    <3>4. QED
      BY <3>2, <3>3 DEF f
  <2>7. Hears(answer, n, G, s, u)
    BY <1>6, <2>5, <2>6 DEF Hears
  <2>8. b \in {"closed", "open", "closing"} /\ Reaction(type, n, b, state, answer)
    BY <1>1
  <2>9. l = Rationed(type, state, q[1], limit[n])
    BY <1>9, <2>3 DEF Rationed
  <2>10. q[1].type = type
    BY <1>3, <2>3
  <2> HIDE DEF c, b, q, s, u, l, E, G
  <2>11. Orderly(c.opened, c.requested, c.prefetch, state, l, Tail(q), u)
    BY <2>2, <2>3, <2>7, <2>8, <2>9, <2>10, ReactsOrderly
  <2>12. object'[o] = c /\ c.number = n
    BY <1>2, <1>11 DEF c
  <2>13. QED
    BY <1>8, <2>4, <2>11, <2>12 DEF Neat, u, l
<1>12. \A o \in Objects :
          /\ object'[o].number = object[o].number
          /\ object[o].number # n => object'[o] = object[o]
  BY <1>2
<1>13. happened \subseteq happened'
  BY <1>2
<1>14. QED
  BY <1>4, <1>5, <1>7, <1>8, <1>10, <1>11, <1>12, <1>13, StepOrderly

LEMMA BrokerClosesOrderly ==
    ASSUME Kept, AllOrderly, NEW n \in Numbers, BrokerCloses(n)
    PROVE  AllOrderly'
<1> DEFINE f == [type |-> "Close", channel |-> n]
<1>1. /\ out \in Seq(OutFrames) /\ in \in Seq(InFrames)
      /\ broker \in [Numbers -> {"closed", "open", "closing"}]
  BY DEF Kept, TypeOK
<1>2. /\ broker[n] = "open" /\ broker' = [broker EXCEPT ![n] = "closing"]
      /\ UNCHANGED <<object, out, limit, happened>>
  BY DEF BrokerCloses
<1>3. in' = in \o <<f>>
  BY <1>1 DEF BrokerCloses
<1>4. f \in InFrames /\ f.type = "Close" /\ f.channel = n
  BY DEF InFrames
<1> HIDE DEF f
<1>5. Moves(in, in', n)
  <2>1. <<f>> \in Seq(InFrames) /\ \A i \in DOMAIN <<f>> : <<f>>[i].channel = n
    BY <1>4
  <2>2. QED
    BY <1>3, <2>1, MovesOn
<1>6. Moves(out, out', n)
  <2>1. Moves(out, out, n)
    BY <1>1, MovesNowhere
  <2>2. QED
    BY <1>2, <2>1
<1>7. /\ \A m \in Numbers : m # n => broker'[m] = broker[m] /\ limit'[m] = limit[m]
      /\ broker'[n] = "closing"
  BY <1>1, <1>2
<1>8. ASSUME Undisturbed', NEW o \in Objects, object[o].number = n
      PROVE  Neat(object'[o], broker', limit', out', in')
  <2> DEFINE c == object[o]
             lim == limit[n]
             q == Of(out, n)
             s == Of(in, n)
             E == OutFrames \cup {Other}
             G == InFrames \cup {Other}
  <2>1. Undisturbed
    BY <1>2, <1>8 DEF Undisturbed
  <2>2. /\ Orderly(c.opened, c.requested, c.prefetch, "open", lim, q, s)
        /\ q \in Seq(E) /\ s \in Seq(G)
    BY <1>2, <1>8, <2>1, OrderlySays
  <2>3. Of(in', n) = Append(s, f) /\ f \in G
    <3>1. Of(in \o <<f>>, n) = Append(Of(in, n), f)
      BY <1>1, <1>4, OfAppend
    <3>2. QED
      BY <1>3, <1>4, <3>1
  <2>4. object'[o] = c /\ c.number = n /\ limit'[n] = lim /\ Of(out', n) = q
    BY <1>2, <1>8
  <2> HIDE DEF c, lim, q, s, E, G
  <2>5. Orderly(c.opened, c.requested, c.prefetch, "closing", lim, q, Append(s, f))
    BY <1>4, <2>2, <2>3, OrderlyCloses
  <2>6. QED
    BY <1>7, <2>3, <2>4, <2>5 DEF Neat
<1>9. /\ happened \subseteq happened' /\ out' \in Seq(OutFrames) /\ limit'[n] = limit[n]
      /\ \A o \in Objects :
            /\ object'[o].number = object[o].number
            /\ object[o].number # n => object'[o] = object[o]
  BY <1>1, <1>2
<1>10. QED
  BY <1>5, <1>6, <1>7, <1>8, <1>9, StepOrderly

-----------------------------------------------------------------------------
LEMMA InitOrderly == Init => AllOrderly
  BY DEF Init, AllOrderly, Exists, Absent, NoLimits

LEMMA NextOrderly ==
    ASSUME Kept, AllOrderly, Next
    PROVE  AllOrderly'
<1>1. CASE User
  <2>1. CASE Create
    BY <2>1, CreateOrderly
  <2>2. ASSUME NEW o \in Objects, Delete(o)
        PROVE  AllOrderly'
    <3>1. "delete" \in happened'
      BY <2>2 DEF Delete, Happens
    <3>2. QED
      BY <3>1 DEF AllOrderly, Undisturbed
  <2>3. ASSUME NEW o \in Objects,
               \/ Close(o) \/ Reopen(o) \/ Reset(o) \/ Declare(o) \/ Qos(o) \/ Resume(o) \/ Bind(o)
        PROVE  AllOrderly'
    <3>1. PICK c \in Object, f \in OutFrames : CalledOn(o, c, f)
      BY <2>3, CallsAreOn
    <3>2. QED
      BY <3>1, CalledKeepsOrderly
  <2>4. QED
    BY <1>1, <2>1, <2>2, <2>3 DEF User, Objects
<1>2. CASE Link
  BY <1>2, LinkUpOrderly, LinkEndsOrderly DEF Link
<1>3. CASE Reading
  BY <1>3, OpenOkOrderly, CloseOrderly, CloseOkOrderly, QosOkOrderly DEF Reading
<1>4. CASE BrokerReads
  <2>1. CASE BrokerRefuses
    BY <2>1, LinkEndsOrderly DEF BrokerRefuses
  <2>2. ASSUME NEW n \in Numbers,
               \/ BrokerOpens(n) \/ BrokerAnswersClose(n) \/ BrokerServes(n)
               \/ BrokerWaitsForCloseOk(n)
        PROVE  AllOrderly'
    <3>1. PICK type, state, answer :
             Taken(type, n, state, answer) /\ Reaction(type, n, broker[n], state, answer)
      BY <2>2, BrokerReadsTakes
    <3>2. QED
      BY <3>1, TakenOrderly
  <2>3. QED
    BY <1>4, <2>1, <2>2 DEF BrokerReads
<1>5. CASE \E n \in Numbers : BrokerCloses(n)
  BY <1>5, BrokerClosesOrderly
<1>6. QED
  BY <1>1, <1>2, <1>3, <1>4, <1>5 DEF Next

LEMMA UnchangedOrderly ==
    ASSUME AllOrderly, UNCHANGED vars
    PROVE  AllOrderly'
<1>1. UNCHANGED <<object, out, in, broker, limit, happened>>
  BY DEF vars
<1>2. \A o \in Objects : Exists(o)' <=> Exists(o)
  BY <1>1 DEF Exists
<1>3. \A n \in Numbers : Owned(n)' <=> Owned(n)
  BY <1>1 DEF Owned
<1>4. Undisturbed' <=> Undisturbed
  BY <1>1 DEF Undisturbed
<1>5. QED
  BY <1>1, <1>2, <1>3, <1>4 DEF AllOrderly

\* And what the frames of each channel say of the prefetch that its object has
\* asked for, has been answered and is kept to by the broker.
THEOREM OrderlyHolds == Spec => [](Kept /\ AllOrderly)
<1>1. Init => Kept /\ AllOrderly
  BY InitKept, InitOrderly
<1>2. Kept /\ AllOrderly /\ [Next]_vars => Kept' /\ AllOrderly'
  BY NextKeeps, UnchangedKeeps, NextOrderly, UnchangedOrderly
<1>3. QED
  BY <1>1, <1>2, PTL DEF Spec

\* What prefetchCount() says of an open channel is what the broker keeps to
\* once every qos() of it is answered: whatever was called before the channel
\* was open or while its close was not answered, however often it was opened
\* and closed until then.  The object has the channel to itself, and neither
\* channel nor connection ends after a qos().
THEOREM PrefetchAsAgreedHolds == Spec => []PrefetchAsAgreed
<1>1. ASSUME Kept, AllOrderly
      PROVE  PrefetchAsAgreed
  <2> SUFFICES ASSUME Undisturbed, NEW o \in Objects,
                      object[o].opened, broker[object[o].number] = "open",
                      \A i \in DOMAIN out :
                         out[i].type # "Qos" \/ out[i].channel # object[o].number,
                      ~Contains(in, [type |-> "QosOk", channel |-> object[o].number])
               PROVE  object[o].prefetch = limit[object[o].number]
    BY DEF PrefetchAsAgreed, Undisturbed
  <2> DEFINE c == object[o]
             n == object[o].number
             lim == limit[n]
             q == Of(out, n)
             s == Of(in, n)
  <2>1. Exists(o)
    BY <1>1 DEF Kept, Listed, Absent
  <2>2. n \in Numbers /\ out \in Seq(OutFrames) /\ in \in Seq(InFrames)
    <3>1. object[o] \in Object /\ out \in Seq(OutFrames) /\ in \in Seq(InFrames)
      BY <1>1 DEF Kept, TypeOK
    <3>2. QED
      BY <2>1, <3>1, ObjectFields DEF Exists
  <2>3. Orderly(TRUE, c.requested, c.prefetch, "open", lim, q, s)
    <3>1. Orderly(c.opened, c.requested, c.prefetch, broker[n], lim, q, s) /\ c.opened \in BOOLEAN
      BY <1>1, <2>2, OrderlySays
    <3>2. QED
      BY <3>1
  <2>4. ~HasType(q, "Qos")
    <3>1. ~Has(out, n, "Qos")
      BY DEF Has, Is
    <3>2. QED
      BY <2>2, <3>1, HasIsOf
  <2>5. ~HasType(s, "QosOk")
    <3>1. ~Has(in, n, "QosOk")
      BY <2>2, ContainsIn
    <3>2. QED
      BY <2>2, <3>1, HasIsOf
  <2> HIDE DEF c, n, lim, q, s
  <2>6. ~Ending(s)
    BY <2>3 DEF Orderly, Handshake, ClosesOnce, Ending, HasType
  <2>7. c.prefetch = lim
    BY <2>3, <2>4, <2>5, <2>6 DEF Orderly, Unasked, Agreeing
  <2>8. QED
    BY <2>7 DEF c, lim, n
<1>2. QED
  BY OrderlyHolds, <1>1, PTL

=============================================================================
