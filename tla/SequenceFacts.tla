--------------------------- MODULE SequenceFacts ---------------------------
(***************************************************************************)
(* Facts about sequences that the proofs about the modules share: the      *)
(* entries of the sequences that Append, Tail, RemoveAt, SetToSeq and      *)
(* FlattenSeq give, and the one sequence that has given numbers in order.  *)
(***************************************************************************)
EXTENDS Integers, Sequences, SequencesExt, FiniteSetTheorems, WellFoundedInduction, TLAPS

-----------------------------------------------------------------------------
(* Append, Tail and RemoveAt.                                              *)

LEMMA AppendEntries ==
    ASSUME NEW S, NEW s \in Seq(S), NEW e \in S
    PROVE  /\ Append(s, e) \in Seq(S)
           /\ DOMAIN Append(s, e) = 1..(Len(s) + 1)
           /\ \A i \in DOMAIN s : Append(s, e)[i] = s[i]
           /\ Append(s, e)[Len(s) + 1] = e
           /\ DOMAIN s = 1..Len(s) /\ Len(s) \in Nat
  OBVIOUS

LEMMA TailEntries ==
    ASSUME NEW S, NEW s \in Seq(S), s # <<>>
    PROVE  /\ Tail(s) \in Seq(S) /\ Head(s) = s[1] /\ s[1] \in S /\ 1 \in DOMAIN s
           /\ \A i \in DOMAIN Tail(s) : i + 1 \in DOMAIN s /\ Tail(s)[i] = s[i + 1]
           /\ \A i \in DOMAIN s : i > 1 => i - 1 \in DOMAIN Tail(s) /\ Tail(s)[i - 1] = s[i]
           /\ \A i \in DOMAIN s : i \in Int /\ i >= 1
           /\ \A i \in DOMAIN Tail(s) : i \in Int /\ i >= 1
<1>1. Len(s) \in Nat /\ Len(s) > 0
  OBVIOUS
<1>2. /\ Tail(s) \in Seq(S) /\ Len(Tail(s)) = Len(s) - 1
      /\ \A i \in 1..(Len(s) - 1) : Tail(s)[i] = s[i + 1]
  OBVIOUS
<1>3. QED
  BY <1>1, <1>2

LEMMA ConcatEntries ==
    ASSUME NEW S, NEW a \in Seq(S), NEW b \in Seq(S)
    PROVE  /\ a \o b \in Seq(S)
           /\ Len(a \o b) = Len(a) + Len(b) /\ Len(a) \in Nat /\ Len(b) \in Nat
           /\ DOMAIN (a \o b) = 1..(Len(a) + Len(b))
           /\ \A i \in 1..(Len(a) + Len(b)) :
                 (a \o b)[i] = IF i <= Len(a) THEN a[i] ELSE b[i - Len(a)]
<1>1. a \o b \in Seq(S)
  OBVIOUS
<1>2. Len(a \o b) = Len(a) + Len(b) /\ Len(a) \in Nat /\ Len(b) \in Nat
  OBVIOUS
<1>3. \A i \in 1..(Len(a) + Len(b)) :
         (a \o b)[i] = IF i <= Len(a) THEN a[i] ELSE b[i - Len(a)]
  OBVIOUS
<1>4. DOMAIN (a \o b) = 1..(Len(a) + Len(b))
  OBVIOUS
<1>5. QED
  BY <1>1, <1>2, <1>3, <1>4

LEMMA RemoveAtEntries ==
    ASSUME NEW S, NEW s \in Seq(S), NEW p \in DOMAIN s
    PROVE  /\ RemoveAt(s, p) \in Seq(S)
           /\ Len(RemoveAt(s, p)) = Len(s) - 1
           /\ \A i \in DOMAIN RemoveAt(s, p) :
                 RemoveAt(s, p)[i] = IF i < p THEN s[i] ELSE s[i + 1]
<1> DEFINE a == SubSeq(s, 1, p - 1)
           b == SubSeq(s, p + 1, Len(s))
<1>1. p \in 1..Len(s) /\ Len(s) \in Nat
  OBVIOUS
<1>2. a \in Seq(S) /\ Len(a) = p - 1 /\ \A i \in 1..(p - 1) : a[i] = s[i]
  BY <1>1
<1>3. b \in Seq(S) /\ Len(b) = Len(s) - p /\ \A i \in 1..(Len(s) - p) : b[i] = s[p + i]
  BY <1>1
<1>4. RemoveAt(s, p) = a \o b
  BY DEF RemoveAt
<1> HIDE DEF a, b
<1>5. /\ a \o b \in Seq(S) /\ Len(a \o b) = Len(s) - 1
      /\ \A i \in 1..(Len(s) - 1) : (a \o b)[i] = IF i <= Len(a) THEN a[i] ELSE b[i - Len(a)]
  <2>1. Len(a) + Len(b) = Len(s) - 1 /\ Len(a) \in Nat /\ Len(b) \in Nat
    BY <1>1, <1>2, <1>3
  <2>2. /\ a \o b \in Seq(S) /\ Len(a \o b) = Len(a) + Len(b)
        /\ \A i \in 1..(Len(a) + Len(b)) : (a \o b)[i] = IF i <= Len(a) THEN a[i] ELSE b[i - Len(a)]
    BY <1>2, <1>3, ConcatEntries
  <2>3. QED
    BY <2>1, <2>2
<1>6. ASSUME NEW i \in 1..(Len(s) - 1)
      PROVE  (a \o b)[i] = IF i < p THEN s[i] ELSE s[i + 1]
  <2>1. CASE i < p
    BY <1>1, <1>2, <1>5, <2>1
  <2>2. CASE ~(i < p)
    <3>1. i - (p - 1) \in 1..(Len(s) - p) /\ p + (i - (p - 1)) = i + 1 /\ ~(i <= p - 1)
      BY <1>1, <2>2
    <3>2. (a \o b)[i] = b[i - (p - 1)]
      <4>1. (a \o b)[i] = IF i <= Len(a) THEN a[i] ELSE b[i - Len(a)]
        BY <1>5
      <4>2. Len(a) = p - 1
        BY <1>2
      <4>3. QED
        BY <3>1, <4>1, <4>2
    <3>3. b[i - (p - 1)] = s[p + (i - (p - 1))]
      BY <1>3, <3>1
    <3>4. QED
      BY <2>2, <3>1, <3>2, <3>3
  <2>3. QED
    BY <2>1, <2>2
<1> DEFINE r == a \o b
<1>7. r \in Seq(S) /\ Len(r) = Len(s) - 1 /\ DOMAIN r = 1..(Len(s) - 1)
  BY <1>5
<1>8. \A i \in DOMAIN r : r[i] = IF i < p THEN s[i] ELSE s[i + 1]
  BY <1>6, <1>7
<1> HIDE DEF r
<1>9. RemoveAt(s, p) = r
  BY <1>4 DEF r
<1>10. QED
  BY <1>7, <1>8, <1>9

\* The part of a sequence after one of its entries.
LEMMA RestEntries ==
    ASSUME NEW S, NEW s \in Seq(S), NEW p \in DOMAIN s
    PROVE  LET rest == SubSeq(s, p + 1, Len(s))
           IN  /\ rest \in Seq(S)
               /\ \A i \in DOMAIN rest : i + p \in DOMAIN s /\ rest[i] = s[i + p] /\ i \in Int
               /\ \A i \in DOMAIN s : i > p => i - p \in DOMAIN rest /\ rest[i - p] = s[i]
<1> DEFINE rest == SubSeq(s, p + 1, Len(s))
<1>1. p \in 1..Len(s) /\ Len(s) \in Nat /\ DOMAIN s = 1..Len(s)
  OBVIOUS
<1>2. rest \in Seq(S) /\ Len(rest) = Len(s) - p /\ \A i \in 1..(Len(s) - p) : rest[i] = s[p + i]
  <2>1. rest \in Seq(S) /\ Len(rest) = Len(s) - p
    BY <1>1
  <2>2. \A i \in 1..(Len(s) - p) : rest[i] = s[p + i]
    BY <1>1
  <2>3. QED
    BY <2>1, <2>2
<1> HIDE DEF rest
<1>3. DOMAIN rest = 1..(Len(s) - p)
  BY <1>1, <1>2
<1>4. \A i \in DOMAIN rest : i + p \in DOMAIN s /\ rest[i] = s[i + p] /\ i \in Int
  <2> SUFFICES ASSUME NEW i \in DOMAIN rest
               PROVE  i + p \in DOMAIN s /\ rest[i] = s[i + p] /\ i \in Int
    OBVIOUS
  <2>1. i \in 1..(Len(s) - p) /\ i \in Int /\ i + p \in 1..Len(s) /\ p + i = i + p
    BY <1>1, <1>3
  <2>2. QED
    BY <1>1, <1>2, <2>1
<1>5. ASSUME NEW i \in DOMAIN s, i > p
      PROVE  i - p \in DOMAIN rest /\ rest[i - p] = s[i]
  <2>1. i - p \in 1..(Len(s) - p) /\ p + (i - p) = i
    BY <1>1, <1>5
  <2>2. QED
    BY <1>2, <1>3, <2>1
<1>6. QED
  BY <1>2, <1>4, <1>5 DEF rest

-----------------------------------------------------------------------------
(* FlattenSeq.  It is defined by a recursive function; that there is one,  *)
(* and what it gives, follows by looking at the least number for which it  *)
(* would not.                                                              *)

LEMMA LessIsWellFounded == IsWellFoundedOn({ss \in Nat \X Nat : ss[1] < ss[2]}, Nat)
  BY NatLessThanWellFounded DEF OpToRel

LEMMA LeastElement ==
    ASSUME NEW T \in SUBSET Nat, T # {}
    PROVE  \E x \in T : \A y \in T : x <= y
<1> DEFINE R == {ss \in Nat \X Nat : ss[1] < ss[2]}
<1>1. IsWellFoundedOn(R, Nat)
  BY LessIsWellFounded
<1> HIDE DEF R
<1>2. PICK x \in T : \A y \in T : ~(<<y, x>> \in R)
  BY <1>1, WFMin
<1>3. ASSUME NEW y \in T, ~(x <= y)
      PROVE  FALSE
  <2>1. y < x /\ <<y, x>> \in Nat \X Nat
    BY <1>3
  <2>2. <<y, x>> \in R
    BY <2>1 DEF R
  <2>3. QED
    BY <1>2, <2>2
<1>4. QED
  BY <1>3

\* The sequences up to each of them, one after the other.
Joins(seqs, f) ==
    f = [i \in 1..Len(seqs) |-> IF i = 1 THEN seqs[i] ELSE f[i - 1] \o seqs[i]]

LEMMA JoinExists ==
    ASSUME NEW S, NEW seqs \in Seq(S)
    PROVE  \E f : Joins(seqs, f)
<1> DEFINE N == Len(seqs)
           Upto(n, f) == f = [i \in 1..n |-> IF i = 1 THEN seqs[i] ELSE f[i - 1] \o seqs[i]]
           Exists(n) == \E f : Upto(n, f)
           Bad == {n \in 1..N : ~Exists(n)}
<1>1. N \in Nat
  OBVIOUS
<1> HIDE DEF Exists
<1>2. Bad = {}
  <2> SUFFICES ASSUME Bad # {}
               PROVE  FALSE
    OBVIOUS
  <2>1. Bad \in SUBSET Nat
    OBVIOUS
  <2>2. PICK n \in Bad : \A m \in Bad : n <= m
    BY <2>1, LeastElement
  <2>3. n \in 1..N /\ n \in Int
    OBVIOUS
  <2>4. CASE n = 1
    <3> DEFINE f == [i \in 1..1 |-> seqs[1]]
    <3>1. f = [i \in 1..1 |-> IF i = 1 THEN seqs[i] ELSE f[i - 1] \o seqs[i]]
      OBVIOUS
    <3>2. QED
      BY <2>4, <3>1 DEF Exists
  <2>5. CASE n # 1
    <3>1. n - 1 \in 1..N /\ n - 1 \notin Bad
      BY <2>2, <2>3, <2>5
    <3>2. PICK g : Upto(n - 1, g)
      BY <3>1 DEF Exists
    <3> DEFINE f == [i \in 1..n |-> IF i = n THEN g[n - 1] \o seqs[n] ELSE g[i]]
               h == [i \in 1..n |-> IF i = 1 THEN seqs[i] ELSE f[i - 1] \o seqs[i]]
    <3>3. ASSUME NEW i \in 1..n
          PROVE  f[i] = h[i]
      <4>1. h[i] = IF i = 1 THEN seqs[i] ELSE f[i - 1] \o seqs[i]
        OBVIOUS
      <4>2. CASE i = n
        <5>1. f[i] = g[n - 1] \o seqs[n]
          BY <4>2
        <5>2. f[n - 1] = g[n - 1]
          BY <2>3, <2>5
        <5> HIDE DEF f, h
        <5>3. QED
          BY <2>5, <4>1, <4>2, <5>1, <5>2
      <4>3. CASE i # n
        <5>1. f[i] = g[i] /\ i \in 1..(n - 1)
          BY <2>3, <4>3
        <5>2. g[i] = IF i = 1 THEN seqs[i] ELSE g[i - 1] \o seqs[i]
          BY <3>2, <5>1
        <5>3. i # 1 => f[i - 1] = g[i - 1]
          BY <2>3, <5>1
        <5> HIDE DEF f, h
        <5>4. QED
          BY <4>1, <5>1, <5>2, <5>3
      <4>4. QED
        BY <4>2, <4>3
    <3>4. f = h
      BY <3>3
    <3>5. Upto(n, f)
      BY <3>4
    <3> HIDE DEF f, h, Upto
    <3>6. QED
      BY <2>2, <3>5 DEF Exists
  <2>6. QED
    BY <2>4, <2>5
<1>3. CASE N = 0
  <2> DEFINE f == [i \in 1..0 |-> seqs[i]]
  <2>1. f = [i \in 1..0 |-> IF i = 1 THEN seqs[i] ELSE f[i - 1] \o seqs[i]]
    OBVIOUS
  <2>2. QED
    BY <1>3, <2>1 DEF Joins
<1>4. CASE N # 0
  <2>1. N \in 1..N /\ N \notin Bad
    <3> HIDE DEF N
    <3>1. N \in 1..N
      BY <1>1, <1>4
    <3>2. QED
      BY <1>2, <3>1
  <2>2. PICK f : Upto(N, f)
    BY <2>1 DEF Exists
  <2>3. QED
    BY <2>2 DEF Joins
<1>5. QED
  BY <1>3, <1>4

LEMMA FlattenJoins ==
    ASSUME NEW S, NEW seqs \in Seq(S), Len(seqs) # 0
    PROVE  \E f : Joins(seqs, f) /\ FlattenSeq(seqs) = f[Len(seqs)]
<1> DEFINE f == CHOOSE g : Joins(seqs, g)
<1>1. Joins(seqs, f)
  BY JoinExists
<1>2. FlattenSeq(seqs) = f[Len(seqs)]
  BY DEF FlattenSeq, Joins
<1> HIDE DEF f
<1>3. QED
  BY <1>1, <1>2

\* The entries of s are those of the first n sequences in their order: the one
\* at j is the one at pos[j] in the sequence at at[j].
TakenFrom(seqs, n, s, at, pos) ==
    /\ at \in [DOMAIN s -> 1..n] /\ pos \in [DOMAIN s -> Nat]
    /\ \A j \in DOMAIN s : pos[j] \in DOMAIN seqs[at[j]] /\ s[j] = seqs[at[j]][pos[j]]
    /\ \A i, j \in DOMAIN s : i < j => at[i] < at[j] \/ (at[i] = at[j] /\ pos[i] < pos[j])
    /\ \A i \in 1..n : \A k \in DOMAIN seqs[i] : \E j \in DOMAIN s : at[j] = i /\ pos[j] = k

LEMMA TakenFromFirst ==
    ASSUME NEW S, NEW seqs \in Seq(Seq(S)), Len(seqs) # 0
    PROVE  \E at, pos : TakenFrom(seqs, 1, seqs[1], at, pos)
<1> DEFINE s == seqs[1]
           at == [j \in DOMAIN s |-> 1]
           pos == [j \in DOMAIN s |-> j]
<1>1. s \in Seq(S) /\ DOMAIN s \subseteq Nat
  <2>1. 1 \in DOMAIN seqs
    OBVIOUS
  <2>2. s \in Seq(S)
    BY <2>1
  <2> HIDE DEF s
  <2>3. DOMAIN s \subseteq Nat
    BY <2>2
  <2>4. QED
    BY <2>2, <2>3
<1>2. /\ at \in [DOMAIN s -> 1..1] /\ pos \in [DOMAIN s -> Nat]
      /\ \A j \in DOMAIN s : at[j] = 1 /\ pos[j] = j
  BY <1>1
<1>3. \A j \in DOMAIN s : s[j] = seqs[1][j]
  OBVIOUS
<1>4. \A i \in 1..1 : i = 1
  OBVIOUS
<1> HIDE DEF at, pos
<1>5. TakenFrom(seqs, 1, s, at, pos)
  BY <1>2, <1>4 DEF TakenFrom
<1>6. QED
  BY <1>5

LEMMA TakenFromMore ==
    ASSUME NEW S, NEW seqs \in Seq(Seq(S)), NEW n \in Nat \ {0}, n + 1 \in DOMAIN seqs,
           NEW s \in Seq(S), NEW at, NEW pos, TakenFrom(seqs, n, s, at, pos)
    PROVE  \E at2, pos2 : TakenFrom(seqs, n + 1, s \o seqs[n + 1], at2, pos2)
<1> DEFINE t == seqs[n + 1]
           r == s \o t
           L == Len(s)
           at2 == [j \in DOMAIN r |-> IF j <= L THEN at[j] ELSE n + 1]
           pos2 == [j \in DOMAIN r |-> IF j <= L THEN pos[j] ELSE j - L]
<1>1. t \in Seq(S)
  OBVIOUS
<1> HIDE DEF t
<1>2. /\ DOMAIN r = 1..(L + Len(t)) /\ L \in Nat /\ Len(t) \in Nat
      /\ \A i \in 1..(L + Len(t)) : r[i] = IF i <= L THEN s[i] ELSE t[i - L]
  BY <1>1, ConcatEntries
<1>3. /\ DOMAIN s = 1..L /\ DOMAIN t = 1..Len(t)
  BY <1>1
<1>4. /\ \A j \in DOMAIN s : /\ at[j] \in 1..n /\ pos[j] \in Nat
                             /\ pos[j] \in DOMAIN seqs[at[j]] /\ s[j] = seqs[at[j]][pos[j]]
      /\ \A i, j \in DOMAIN s : i < j => at[i] < at[j] \/ (at[i] = at[j] /\ pos[i] < pos[j])
      /\ \A i \in 1..n : \A k \in DOMAIN seqs[i] : \E j \in DOMAIN s : at[j] = i /\ pos[j] = k
  BY DEF TakenFrom
<1> HIDE DEF r, L
<1>5. /\ \A j \in DOMAIN r : at2[j] = IF j <= L THEN at[j] ELSE n + 1
      /\ \A j \in DOMAIN r : pos2[j] = IF j <= L THEN pos[j] ELSE j - L
      /\ DOMAIN at2 = DOMAIN r /\ DOMAIN pos2 = DOMAIN r
  OBVIOUS
<1>6. at2 \in [DOMAIN r -> 1..(n + 1)] /\ pos2 \in [DOMAIN r -> Nat]
  <2>1. \A j \in DOMAIN r : j <= L => j \in DOMAIN s
    BY <1>2, <1>3
  <2>2. \A j \in DOMAIN r : (IF j <= L THEN at[j] ELSE n + 1) \in 1..(n + 1)
    <3>1. 1..n \subseteq 1..(n + 1) /\ n + 1 \in 1..(n + 1)
      OBVIOUS
    <3>2. QED
      BY <1>4, <2>1, <3>1
  <2>3. \A j \in DOMAIN r : (IF j <= L THEN pos[j] ELSE j - L) \in Nat
    <3>1. \A j \in DOMAIN r : ~(j <= L) => j - L \in Nat
      BY <1>2
    <3>2. QED
      BY <1>4, <2>1, <3>1
  <2>4. QED
    BY <2>2, <2>3
<1> HIDE DEF at2, pos2
<1>7. \A j \in DOMAIN r :
         \/ j \in DOMAIN s /\ at2[j] = at[j] /\ pos2[j] = pos[j] /\ r[j] = s[j] /\ j <= L
         \/ j - L \in DOMAIN t /\ at2[j] = n + 1 /\ pos2[j] = j - L /\ r[j] = t[j - L] /\ ~(j <= L)
  BY <1>2, <1>3, <1>5
<1>8. ASSUME NEW j \in DOMAIN r
      PROVE  pos2[j] \in DOMAIN seqs[at2[j]] /\ r[j] = seqs[at2[j]][pos2[j]]
  <2>1. CASE j \in DOMAIN s /\ at2[j] = at[j] /\ pos2[j] = pos[j] /\ r[j] = s[j]
    BY <1>4, <2>1
  <2>2. CASE j - L \in DOMAIN t /\ at2[j] = n + 1 /\ pos2[j] = j - L /\ r[j] = t[j - L]
    BY <2>2 DEF t
  <2>3. QED
    BY <1>7, <2>1, <2>2
<1>9. ASSUME NEW i \in DOMAIN r, NEW j \in DOMAIN r, i < j
      PROVE  at2[i] < at2[j] \/ (at2[i] = at2[j] /\ pos2[i] < pos2[j])
  <2>1. i \in Int /\ j \in Int /\ L \in Int /\ (j <= L => i <= L)
    BY <1>2, <1>9
  <2>2. CASE j <= L
    <3>1. /\ i \in DOMAIN s /\ at2[i] = at[i] /\ pos2[i] = pos[i]
          /\ j \in DOMAIN s /\ at2[j] = at[j] /\ pos2[j] = pos[j]
      BY <1>7, <2>1, <2>2
    <3>2. QED
      BY <1>4, <1>9, <3>1
  <2>3. CASE ~(j <= L) /\ i <= L
    <3>1. i \in DOMAIN s /\ at2[i] = at[i] /\ at2[j] = n + 1
      BY <1>7, <2>3
    <3>2. at[i] \in 1..n
      BY <1>4, <3>1
    <3>3. at[i] < n + 1
      BY <3>2
    <3>4. QED
      BY <3>1, <3>3
  <2>4. CASE ~(i <= L)
    <3>1. ~(j <= L) /\ i - L < j - L
      BY <1>9, <2>1, <2>4
    <3>2. at2[i] = n + 1 /\ pos2[i] = i - L /\ at2[j] = n + 1 /\ pos2[j] = j - L
      BY <1>7, <2>4, <3>1
    <3>3. QED
      BY <3>1, <3>2
  <2>5. QED
    BY <2>1, <2>2, <2>3, <2>4
<1>10. ASSUME NEW i \in 1..(n + 1), NEW k \in DOMAIN seqs[i]
       PROVE  \E j \in DOMAIN r : at2[j] = i /\ pos2[j] = k
  <2>1. CASE i = n + 1
    <3>1. k \in 1..Len(t)
      BY <1>3, <2>1 DEF t
    <3>2. L \in Nat /\ Len(t) \in Nat
      BY <1>2
    <3> DEFINE j == L + k
    <3>3. j \in 1..(L + Len(t)) /\ ~(j <= L) /\ j - L = k
      BY <3>1, <3>2
    <3> HIDE DEF j
    <3>4. j \in DOMAIN r
      BY <1>2, <3>3
    <3>5. at2[j] = n + 1 /\ pos2[j] = k
      BY <1>5, <3>3, <3>4
    <3>6. QED
      BY <2>1, <3>4, <3>5
  <2>2. CASE i # n + 1
    <3>1. i \in 1..n
      BY <2>2
    <3>2. PICK j \in DOMAIN s : at[j] = i /\ pos[j] = k
      BY <1>4, <3>1
    <3>3. j \in DOMAIN r /\ j <= L
      BY <1>2, <1>3
    <3>4. QED
      BY <1>7, <3>2, <3>3
  <2>3. QED
    BY <2>1, <2>2
<1>11. TakenFrom(seqs, n + 1, r, at2, pos2)
  BY <1>6, <1>8, <1>9, <1>10 DEF TakenFrom
<1>12. QED
  BY <1>11 DEF r, t

LEMMA FlattenEntries ==
    ASSUME NEW S, NEW seqs \in Seq(Seq(S))
    PROVE  /\ FlattenSeq(seqs) \in Seq(S)
           /\ \E at, pos : TakenFrom(seqs, Len(seqs), FlattenSeq(seqs), at, pos)
<1> DEFINE N == Len(seqs)
<1>1. N \in Nat
  OBVIOUS
<1>2. CASE N = 0
  <2>1. FlattenSeq(seqs) = seqs /\ seqs = <<>>
    BY <1>2 DEF FlattenSeq
  <2>2. TakenFrom(<<>>, 0, <<>>, <<>>, <<>>)
    BY DEF TakenFrom
  <2>3. <<>> \in Seq(S) /\ N = 0
    BY <1>2
  <2>4. QED
    BY <2>1, <2>2, <2>3
<1>3. CASE N # 0
  <2>1. PICK f : Joins(seqs, f) /\ FlattenSeq(seqs) = f[N]
    BY <1>3, FlattenJoins
  <2> DEFINE Good(n) == f[n] \in Seq(S) /\ \E at, pos : TakenFrom(seqs, n, f[n], at, pos)
             Bad == {n \in 1..N : ~Good(n)}
  <2>2. \A i \in 1..N : f[i] = IF i = 1 THEN seqs[i] ELSE f[i - 1] \o seqs[i]
    BY <2>1 DEF Joins
  <2>3. Good(1)
    <3>1. 1 \in 1..N /\ 1 \in DOMAIN seqs
      BY <1>1, <1>3
    <3>2. f[1] = seqs[1] /\ seqs[1] \in Seq(S)
      BY <2>2, <3>1
    <3>3. \E at, pos : TakenFrom(seqs, 1, seqs[1], at, pos)
      BY <1>3, TakenFromFirst
    <3>4. QED
      BY <3>2, <3>3
  <2>4. ASSUME NEW n \in 1..N, n + 1 \in 1..N, Good(n)
        PROVE  Good(n + 1)
    <3>1. n \in Nat \ {0} /\ n + 1 \in DOMAIN seqs /\ n + 1 # 1 /\ (n + 1) - 1 = n
      BY <2>4
    <3>2. f[n + 1] = f[n] \o seqs[n + 1]
      BY <2>2, <2>4, <3>1
    <3>3. f[n] \in Seq(S) /\ seqs[n + 1] \in Seq(S)
      BY <2>4, <3>1
    <3>4. f[n + 1] \in Seq(S)
      BY <3>2, <3>3, ConcatEntries
    <3>5. PICK at, pos : TakenFrom(seqs, n, f[n], at, pos)
      BY <2>4
    <3>6. \E at2, pos2 : TakenFrom(seqs, n + 1, f[n] \o seqs[n + 1], at2, pos2)
      BY <3>1, <3>3, <3>5, TakenFromMore
    <3>7. QED
      BY <3>2, <3>4, <3>6
  <2> HIDE DEF Good
  <2>5. Bad = {}
    <3> SUFFICES ASSUME Bad # {}
                 PROVE  FALSE
      OBVIOUS
    <3>1. Bad \in SUBSET Nat
      OBVIOUS
    <3>2. PICK n \in Bad : \A m \in Bad : n <= m
      BY <3>1, LeastElement
    <3>3. n \in 1..N /\ n \in Int /\ ~Good(n)
      OBVIOUS
    <3>4. n # 1
      BY <2>3, <3>3
    <3>5. n - 1 \in 1..N /\ n - 1 \notin Bad /\ (n - 1) + 1 = n
      BY <3>2, <3>3, <3>4
    <3>6. QED
      BY <2>4, <3>3, <3>5
  <2>6. N \in 1..N
    <3> HIDE DEF N
    <3>1. QED
      BY <1>1, <1>3
  <2>7. Good(N)
    BY <2>5, <2>6
  <2>8. QED
    BY <2>1, <2>7 DEF Good
<1>4. QED
  BY <1>2, <1>3

-----------------------------------------------------------------------------
(* The last entry, and SetToSeq.                                           *)

LEMMA FrontEntries ==
    ASSUME NEW S, NEW s \in Seq(S), s # <<>>
    PROVE  /\ Front(s) \in Seq(S)
           /\ DOMAIN Front(s) = 1..(Len(s) - 1) /\ Len(Front(s)) = Len(s) - 1
           /\ \A i \in DOMAIN Front(s) : Front(s)[i] = s[i]
           /\ DOMAIN s = 1..Len(s) /\ Len(s) \in Nat /\ Len(s) >= 1
           /\ Last(s) = s[Len(s)] /\ Last(s) \in S
<1>1. DOMAIN s = 1..Len(s) /\ Len(s) \in Nat /\ Len(s) >= 1
  OBVIOUS
<1>2. SubSeq(s, 1, Len(s) - 1) \in Seq(S) /\ Len(SubSeq(s, 1, Len(s) - 1)) = Len(s) - 1
  BY <1>1
<1>3. \A i \in 1..(Len(s) - 1) : SubSeq(s, 1, Len(s) - 1)[i] = s[i]
  BY <1>1
<1>4. DOMAIN SubSeq(s, 1, Len(s) - 1) = 1..(Len(s) - 1)
  BY <1>2
<1>5. s[Len(s)] \in S
  BY <1>1
<1>6. QED
  BY <1>1, <1>2, <1>3, <1>4, <1>5 DEF Front, Last

\* Another entry in the place of the last one.
LEMMA LastReplaced ==
    ASSUME NEW S, NEW s \in Seq(S), s # <<>>, NEW e \in S
    PROVE  LET r == Append(Front(s), e)
           IN  /\ r \in Seq(S) /\ Len(r) = Len(s) /\ DOMAIN r = DOMAIN s
               /\ r[Len(s)] = e
               /\ \A i \in DOMAIN s : i # Len(s) => r[i] = s[i]
<1> DEFINE f == Front(s)
           r == Append(f, e)
<1>1. /\ f \in Seq(S) /\ DOMAIN f = 1..(Len(s) - 1) /\ Len(f) = Len(s) - 1
      /\ \A i \in DOMAIN f : f[i] = s[i]
      /\ DOMAIN s = 1..Len(s) /\ Len(s) \in Nat /\ Len(s) >= 1
  BY FrontEntries
<1> HIDE DEF f
<1>2. /\ r \in Seq(S) /\ DOMAIN r = 1..(Len(f) + 1)
      /\ \A i \in DOMAIN f : r[i] = f[i]
      /\ r[Len(f) + 1] = e
  BY <1>1, AppendEntries
<1> HIDE DEF r
<1>3. Len(f) + 1 = Len(s)
  BY <1>1
<1>4. Len(r) = Len(s) /\ DOMAIN r = DOMAIN s
  BY <1>1, <1>2, <1>3
<1>5. ASSUME NEW i \in DOMAIN s, i # Len(s)
      PROVE  r[i] = s[i]
  <2>1. i \in 1..(Len(s) - 1)
    BY <1>1, <1>5
  <2>2. QED
    BY <1>1, <1>2, <2>1
<1>6. QED
  BY <1>2, <1>3, <1>4, <1>5 DEF r, f

LEMMA SetToSeqEntries ==
    ASSUME NEW S, IsFiniteSet(S)
    PROVE  /\ SetToSeq(S) \in Seq(S)
           /\ \A i \in DOMAIN SetToSeq(S) : SetToSeq(S)[i] \in S
           /\ \A i, j \in DOMAIN SetToSeq(S) : SetToSeq(S)[i] = SetToSeq(S)[j] => i = j
<1>1. Cardinality(S) \in Nat /\ ExistsBijection(1..Cardinality(S), S)
  BY FS_CardinalityType
<1>2. \E f \in [1..Cardinality(S) -> S] : IsInjective(f)
  BY <1>1 DEF ExistsBijection, Bijection, Injection
<1>3. SetToSeq(S) \in [1..Cardinality(S) -> S] /\ IsInjective(SetToSeq(S))
  BY <1>2 DEF SetToSeq
<1>4. SetToSeq(S) \in Seq(S)
  BY <1>1, <1>3
<1>5. \A i \in DOMAIN SetToSeq(S) : SetToSeq(S)[i] \in S
  BY <1>3
<1>6. \A i, j \in DOMAIN SetToSeq(S) : SetToSeq(S)[i] = SetToSeq(S)[j] => i = j
  BY <1>3 DEF IsInjective
<1>7. QED
  BY <1>4, <1>5, <1>6

\* The lesser of two numbers.
LEMMA MinOfTwo ==
    ASSUME NEW a \in Int, NEW b \in Int
    PROVE  /\ Min({a, b}) \in {a, b}
           /\ Min({a, b}) <= a /\ Min({a, b}) <= b
<1>1. \E x \in {a, b} : \A y \in {a, b} : x <= y
  OBVIOUS
<1>2. Min({a, b}) \in {a, b} /\ \A y \in {a, b} : Min({a, b}) <= y
  BY <1>1 DEF Min
<1>3. QED
  BY <1>2

LEMMA MaxOfTwo ==
    ASSUME NEW a \in Int, NEW b \in Int
    PROVE  /\ Max({a, b}) \in {a, b}
           /\ Max({a, b}) >= a /\ Max({a, b}) >= b
<1>1. \E x \in {a, b} : \A y \in {a, b} : x >= y
  OBVIOUS
<1>2. Max({a, b}) \in {a, b} /\ \A y \in {a, b} : Max({a, b}) >= y
  BY <1>1 DEF Max
<1>3. QED
  BY <1>2

-----------------------------------------------------------------------------
(* Sets of numbers in their order.                                         *)

\* The numbers in P, each once, the lesser ones first.
Ascending(at, P) ==
    /\ \A j \in DOMAIN at : at[j] \in P
    /\ \A i, j \in DOMAIN at : i < j => at[i] < at[j]
    /\ \A p \in P : \E j \in DOMAIN at : at[j] = p

\* There is only one such order.
LEMMA OneOrder ==
    ASSUME NEW P \in SUBSET Int, NEW a \in Seq(Int), NEW b \in Seq(Int),
           Ascending(a, P), Ascending(b, P)
    PROVE  a = b
<1>1. /\ DOMAIN a = 1..Len(a) /\ Len(a) \in Nat /\ DOMAIN b = 1..Len(b) /\ Len(b) \in Nat
      /\ \A i \in DOMAIN a : i \in Nat /\ a[i] \in Int
      /\ \A i \in DOMAIN b : i \in Nat /\ b[i] \in Int
  OBVIOUS
<1> DEFINE Bad == {i \in DOMAIN a : i \in DOMAIN b /\ a[i] # b[i]}
<1>2. Bad = {}
  <2> SUFFICES ASSUME Bad # {} PROVE FALSE
    OBVIOUS
  <2>1. Bad \in SUBSET Nat
    BY <1>1
  <2>2. PICK k \in Bad : \A i \in Bad : k <= i
    BY <2>1, LeastElement
  <2>3. k \in DOMAIN a /\ k \in DOMAIN b /\ a[k] # b[k] /\ k \in Int
    BY <1>1
  <2>4. \A i \in DOMAIN a : i < k => i \in DOMAIN b /\ a[i] = b[i]
    <3> SUFFICES ASSUME NEW i \in DOMAIN a, i < k PROVE i \in DOMAIN b /\ a[i] = b[i]
      OBVIOUS
    <3>1. i \in DOMAIN b
      BY <1>1, <2>3
    <3>2. i \notin Bad
      BY <1>1, <2>2, <2>3
    <3>3. QED
      BY <3>1, <3>2
  <2>5. \A i \in DOMAIN b : i < k => i \in DOMAIN a
    BY <1>1, <2>3
  <2> HIDE DEF Bad
  <2>6. CASE a[k] < b[k]
    <3>1. PICK j \in DOMAIN b : b[j] = a[k]
      BY <2>3 DEF Ascending
    <3>2. j < k
      <4>1. ~(k < j) /\ j # k
        <5>1. k < j => b[k] < b[j]
          BY <2>3 DEF Ascending
        <5>2. QED
          BY <1>1, <2>3, <2>6, <3>1, <5>1
      <4>2. QED
        BY <1>1, <2>3, <4>1
    <3>3. j \in DOMAIN a /\ a[j] = a[k]
      BY <2>4, <2>5, <3>1, <3>2
    <3>4. a[j] < a[k]
      BY <2>3, <3>2, <3>3 DEF Ascending
    <3>5. QED
      BY <1>1, <2>3, <3>3, <3>4
  <2>7. CASE b[k] < a[k]
    <3>1. PICK j \in DOMAIN a : a[j] = b[k]
      BY <2>3 DEF Ascending
    <3>2. j < k
      <4>1. ~(k < j) /\ j # k
        <5>1. k < j => a[k] < a[j]
          BY <2>3 DEF Ascending
        <5>2. QED
          BY <1>1, <2>3, <2>7, <3>1, <5>1
      <4>2. QED
        BY <1>1, <2>3, <4>1
    <3>3. j \in DOMAIN b /\ b[j] = b[k]
      BY <2>4, <3>1, <3>2
    <3>4. b[j] < b[k]
      BY <2>3, <3>2, <3>3 DEF Ascending
    <3>5. QED
      BY <1>1, <2>3, <3>3, <3>4
  <2>8. QED
    BY <1>1, <2>3, <2>6, <2>7
<1>3. \A i \in DOMAIN a : i \in DOMAIN b => a[i] = b[i]
  BY <1>2
<1> HIDE DEF Bad
<1>4. ~(Len(a) < Len(b))
  <2> SUFFICES ASSUME Len(a) < Len(b) PROVE FALSE
    OBVIOUS
  <2> DEFINE k == Len(a) + 1
  <2>1. k \in DOMAIN b /\ k \in Int /\ \A i \in DOMAIN a : i < k
    BY <1>1
  <2> HIDE DEF k
  <2>2. PICK j \in DOMAIN a : a[j] = b[k]
    BY <2>1 DEF Ascending
  <2>3. j \in DOMAIN b
    BY <1>1
  <2>4. b[j] < b[k] /\ b[j] = b[k]
    BY <1>3, <2>1, <2>2, <2>3 DEF Ascending
  <2>5. QED
    BY <1>1, <2>1, <2>4
<1>5. ~(Len(b) < Len(a))
  <2> SUFFICES ASSUME Len(b) < Len(a) PROVE FALSE
    OBVIOUS
  <2> DEFINE k == Len(b) + 1
  <2>1. k \in DOMAIN a /\ k \in Int /\ \A i \in DOMAIN b : i < k
    BY <1>1
  <2> HIDE DEF k
  <2>2. PICK j \in DOMAIN b : b[j] = a[k]
    BY <2>1 DEF Ascending
  <2>3. j \in DOMAIN a
    BY <1>1
  <2>4. a[j] < a[k] /\ a[j] = a[k]
    BY <1>3, <2>1, <2>2, <2>3 DEF Ascending
  <2>5. QED
    BY <1>1, <2>1, <2>4
<1>6. Len(a) = Len(b)
  <2>1. Len(a) \in Nat /\ Len(b) \in Nat
    OBVIOUS
  <2>2. \A m, n \in Nat : ~(m < n) /\ ~(n < m) => m = n
    OBVIOUS
  <2>3. QED
    BY <1>4, <1>5, <2>1, <2>2
<1>7. a = [i \in DOMAIN a |-> a[i]] /\ b = [i \in DOMAIN b |-> b[i]] /\ DOMAIN a = DOMAIN b
  BY <1>1, <1>6
<1>8. [i \in DOMAIN a |-> a[i]] = [i \in DOMAIN a |-> b[i]]
  BY <1>3, <1>7
<1>9. QED
  BY <1>7, <1>8

\* Joining sequences that have one entry or none.
LEMMA FlattenSingles ==
    ASSUME NEW S, NEW seqs \in Seq(Seq(S)), \A i \in DOMAIN seqs : Len(seqs[i]) <= 1
    PROVE  \E at \in Seq(Int) :
              /\ Ascending(at, {i \in DOMAIN seqs : seqs[i] # <<>>})
              /\ FlattenSeq(seqs) = [j \in DOMAIN at |-> seqs[at[j]][1]]
              /\ FlattenSeq(seqs) \in Seq(S)
<1> DEFINE r == FlattenSeq(seqs)
           n == Len(seqs)
           P == {i \in DOMAIN seqs : seqs[i] # <<>>}
<1>1. r \in Seq(S) /\ n \in Nat /\ DOMAIN seqs = 1..n
  BY FlattenEntries
<1>2. PICK at, pos : TakenFrom(seqs, n, r, at, pos)
  BY FlattenEntries
<1>3. \A i \in DOMAIN seqs : /\ seqs[i] \in Seq(S)
                             /\ \A k \in DOMAIN seqs[i] : k = 1
                             /\ seqs[i] # <<>> => 1 \in DOMAIN seqs[i]
  <2> SUFFICES ASSUME NEW i \in DOMAIN seqs
               PROVE  /\ seqs[i] \in Seq(S)
                      /\ \A k \in DOMAIN seqs[i] : k = 1
                      /\ seqs[i] # <<>> => 1 \in DOMAIN seqs[i]
    OBVIOUS
  <2>1. seqs[i] \in Seq(S) /\ Len(seqs[i]) <= 1
    OBVIOUS
  <2>2. QED
    BY <2>1
<1> HIDE DEF r, n
<1>4. at \in [DOMAIN r -> 1..n]
  BY <1>2 DEF TakenFrom
<1>5. at \in Seq(Int) /\ DOMAIN at = DOMAIN r
  <2>1. DOMAIN r = 1..Len(r) /\ Len(r) \in Nat
    BY <1>1
  <2>2. 1..n \subseteq Int
    OBVIOUS
  <2>3. QED
    BY <1>4, <2>1, <2>2
<1>6. \A j \in DOMAIN r : /\ at[j] \in DOMAIN seqs /\ pos[j] = 1 /\ pos[j] \in DOMAIN seqs[at[j]]
                          /\ r[j] = seqs[at[j]][1]
  BY <1>1, <1>2, <1>3, <1>4 DEF TakenFrom
<1>7. Ascending(at, P)
  <2>1. \A j \in DOMAIN at : at[j] \in P
    <3> SUFFICES ASSUME NEW j \in DOMAIN at PROVE seqs[at[j]] # <<>> /\ at[j] \in DOMAIN seqs
      OBVIOUS
    <3>1. at[j] \in DOMAIN seqs /\ 1 \in DOMAIN seqs[at[j]]
      BY <1>5, <1>6
    <3>2. DOMAIN <<>> = {}
      OBVIOUS
    <3>3. QED
      BY <3>1, <3>2
  <2>2. \A i, j \in DOMAIN at : i < j => at[i] < at[j]
    <3> SUFFICES ASSUME NEW i \in DOMAIN r, NEW j \in DOMAIN r, i < j PROVE at[i] < at[j]
      BY <1>5
    <3>1. pos[i] = 1 /\ pos[j] = 1
      BY <1>6
    <3>2. at[i] < at[j] \/ (at[i] = at[j] /\ pos[i] < pos[j])
      BY <1>2 DEF TakenFrom
    <3>3. QED
      BY <3>1, <3>2
  <2>3. \A p \in P : \E j \in DOMAIN at : at[j] = p
    <3> SUFFICES ASSUME NEW p \in DOMAIN seqs, seqs[p] # <<>> PROVE \E j \in DOMAIN at : at[j] = p
      OBVIOUS
    <3>1. 1 \in DOMAIN seqs[p] /\ p \in 1..n
      BY <1>1, <1>3
    <3>2. QED
      BY <1>2, <1>5, <3>1 DEF TakenFrom
  <2> HIDE DEF P
  <2>4. QED
    BY <2>1, <2>2, <2>3 DEF Ascending
<1> HIDE DEF P
<1>8. r = [j \in DOMAIN at |-> seqs[at[j]][1]]
  <2>1. DOMAIN r = 1..Len(r) /\ r = [j \in DOMAIN r |-> r[j]]
    BY <1>1
  <2>2. [j \in DOMAIN r |-> r[j]] = [j \in DOMAIN r |-> seqs[at[j]][1]]
    BY <1>6
  <2>3. QED
    BY <1>5, <2>1, <2>2
<1>9. QED
  BY <1>1, <1>5, <1>7, <1>8 DEF r, P

\* Joining sequences all but one of which are empty.
LEMMA FlattenOne ==
    ASSUME NEW S, NEW seqs \in Seq(Seq(S)), NEW k \in DOMAIN seqs,
           \A i \in DOMAIN seqs : i # k => seqs[i] = <<>>
    PROVE  FlattenSeq(seqs) = seqs[k]
<1> DEFINE r == FlattenSeq(seqs)
           n == Len(seqs)
           q == seqs[k]
           P == DOMAIN q
           one == [i \in P |-> i]
<1>1. r \in Seq(S) /\ n \in Nat /\ DOMAIN seqs = 1..n /\ q \in Seq(S)
  BY FlattenEntries
<1>2. PICK at, pos : TakenFrom(seqs, n, r, at, pos)
  BY FlattenEntries
<1>3. P = 1..Len(q) /\ Len(q) \in Nat /\ P \in SUBSET Int
  BY <1>1
<1>4. one \in Seq(Int) /\ Ascending(one, P)
  BY <1>3 DEF Ascending
<1> HIDE DEF r, n, one, P
<1>5. \A j \in DOMAIN r : at[j] = k /\ pos[j] \in P /\ r[j] = q[pos[j]]
  <2> SUFFICES ASSUME NEW j \in DOMAIN r PROVE at[j] = k /\ pos[j] \in P /\ r[j] = q[pos[j]]
    OBVIOUS
  <2>1. at[j] \in DOMAIN seqs /\ pos[j] \in DOMAIN seqs[at[j]] /\ r[j] = seqs[at[j]][pos[j]]
    BY <1>1, <1>2 DEF TakenFrom
  <2>2. DOMAIN <<>> = {}
    OBVIOUS
  <2>3. at[j] = k
    BY <2>1, <2>2
  <2>4. QED
    BY <2>1, <2>3 DEF P
<1>6. pos \in Seq(Int) /\ DOMAIN pos = DOMAIN r
  <2>1. pos \in [DOMAIN r -> Nat] /\ DOMAIN r = 1..Len(r) /\ Len(r) \in Nat
    BY <1>1, <1>2 DEF TakenFrom
  <2>2. ASSUME NEW l \in Nat, NEW g \in [1..l -> Nat] PROVE g \in Seq(Int) /\ DOMAIN g = 1..l
    OBVIOUS
  <2>3. QED
    BY <2>1, <2>2
<1>7. Ascending(pos, P)
  <2>1. \A i, j \in DOMAIN r : i < j => pos[i] < pos[j]
    <3> SUFFICES ASSUME NEW i \in DOMAIN r, NEW j \in DOMAIN r, i < j PROVE pos[i] < pos[j]
      OBVIOUS
    <3>1. at[i] < at[j] \/ pos[i] < pos[j]
      BY <1>2 DEF TakenFrom
    <3>2. at[i] = k /\ at[j] = k /\ k \in Int
      BY <1>1, <1>5
    <3>3. QED
      BY <3>1, <3>2
  <2>2. \A p \in P : \E j \in DOMAIN r : pos[j] = p
    <3>1. k \in 1..n
      BY <1>1
    <3>2. QED
      BY <1>2, <3>1 DEF TakenFrom, P
  <2>3. QED
    BY <1>5, <1>6, <2>1, <2>2 DEF Ascending
<1>8. pos = one
  BY <1>3, <1>4, <1>6, <1>7, OneOrder
<1>9. DOMAIN r = P /\ \A j \in P : r[j] = q[j]
  BY <1>5, <1>6, <1>8 DEF one
<1>10. r = [j \in P |-> r[j]] /\ q = [j \in P |-> q[j]]
  <2>1. r = [j \in DOMAIN r |-> r[j]] /\ q = [j \in DOMAIN q |-> q[j]]
    BY <1>1
  <2>2. QED
    BY <1>9, <2>1 DEF P
<1>11. [j \in P |-> r[j]] = [j \in P |-> q[j]]
  BY <1>9
<1>12. QED
  BY <1>10, <1>11 DEF r, q

=============================================================================
