--------------------------- MODULE OrderedMap_proofs --------------------------
(***************************************************************************)
(* What insertion and deletion do to the keys of a Map, their order and    *)
(* the head, and the same of a line of frames.                             *)
(***************************************************************************)
EXTENDS OrderedMap, SequenceTheorems, FiniteSetTheorems, TLAPS

(***************************************************************************)
(* Lines of frames: one joins at the end, the first one leaves.            *)
(***************************************************************************)

\* A frame joins a line at its end.
LEMMA AppendFacts ==
    ASSUME NEW S, NEW d \in Seq(S), NEW m \in S
    PROVE  LET e == Append(d, m)
               n == Len(d) + 1
           IN  /\ e \in Seq(S) /\ e # <<>>
               /\ Len(e) = n
               /\ DOMAIN e = DOMAIN d \cup {n}
               /\ n \notin DOMAIN d
               /\ \A i \in DOMAIN d : e[i] = d[i] /\ i < n /\ ~(n < i) /\ i \in Nat
               /\ ~(n < n)
               /\ e[n] = m
<1> DEFINE e == Append(d, m)
           n == Len(d) + 1
<1>1. /\ e \in Seq(S)
      /\ Len(e) = n
      /\ \A i \in 1..Len(d) : e[i] = d[i]
      /\ e[n] = m
  BY AppendProperties
<1>2. DOMAIN d = 1..Len(d) /\ DOMAIN e = 1..n /\ Len(d) \in Nat
  BY <1>1, LenProperties
<1>3. e # <<>>
  BY <1>1, <1>2, EmptySeq
<1> HIDE DEF e
<1> QED BY <1>1, <1>2, <1>3 DEF e

\* The first frame leaves it.
LEMMA TailFacts ==
    ASSUME NEW S, NEW d \in Seq(S), d # <<>>
    PROVE  LET h == Head(d)
               e == Tail(d)
           IN  /\ h = d[1] /\ h \in S /\ 1 \in DOMAIN d
               /\ e \in Seq(S) /\ Len(d) = Len(e) + 1 /\ Len(e) \in Nat
               /\ \A i \in DOMAIN e : /\ i \in Nat /\ i > 0
                                      /\ i + 1 \in DOMAIN d /\ d[i + 1] = e[i]
               /\ \A k \in DOMAIN d : k = 1 \/ \E i \in DOMAIN e : k = i + 1
<1> DEFINE h == Head(d)
           e == Tail(d)
<1>1. /\ h = d[1] /\ h \in S
      /\ e \in Seq(S)
      /\ Len(e) = Len(d) - 1
      /\ \A i \in 1..Len(e) : e[i] = d[i + 1]
  BY HeadTailProperties
<1>2. /\ DOMAIN d = 1..Len(d) /\ DOMAIN e = 1..Len(e)
      /\ Len(d) \in Nat /\ Len(d) # 0
  BY <1>1, LenProperties, EmptySeq
<1> HIDE DEF h, e
<1>3. ASSUME NEW k \in DOMAIN d, k # 1 PROVE k - 1 \in DOMAIN e /\ k = (k - 1) + 1
  BY <1>1, <1>2, <1>3
<1> QED BY <1>1, <1>2, <1>3 DEF h, e

\* A nonempty set of numbers up to n has a highest.
LEMMA Highest ==
    ASSUME NEW n \in Nat, NEW S \in SUBSET (1..n), S # {}
    PROVE  \E k \in S : \A i \in S : i <= k
<1> DEFINE Up(i) == i..n
           T == {Up(i) : i \in S}
<1>0. S \subseteq Nat
  OBVIOUS
<1>1. T \subseteq FiniteSubsetsOf(1..n) /\ T # {}
  <2>1. ASSUME NEW i \in S PROVE Up(i) \in FiniteSubsetsOf(1..n)
    <3>1. IsFiniteSet(i..n) /\ i..n \subseteq 1..n
      BY FS_Interval
    <3> QED BY <3>1 DEF FiniteSubsetsOf
  <2> QED BY <2>1
<1>2. PICK x \in T : \A y \in T : ~(<<y, x>> \in StrictSubsetOrdering(1..n))
  <2> HIDE DEF T
  <2> QED BY <1>1, WFMin, FS_StrictSubsetOrderingWellFounded
<1>3. PICK k \in S : x = Up(k)
  OBVIOUS
<1>4. ASSUME NEW i \in S, k < i PROVE FALSE
  <2>1. Up(i) \subseteq Up(k) /\ k \in Up(k) /\ k \notin Up(i) /\ Up(k) \subseteq 1..n
    BY <1>0, <1>4
  <2>2. <<Up(i), Up(k)>> \in StrictSubsetOrdering(1..n)
    <3> HIDE DEF Up
    <3> QED BY <2>1 DEF StrictSubsetOrdering
  <2> QED BY <1>2, <1>3, <2>2
<1> QED BY <1>0, <1>4

\* What has an empty part.
LEMMA EmptyDomain == DOMAIN <<>> = {} /\ Len(<<>>) = 0
BY EmptySeq

-------------------------------------------------------------------------------
(***************************************************************************)
(* Maps.                                                                   *)
(***************************************************************************)
Distinct(s) == \A i, j \in DOMAIN s : s[i] = s[j] => i = j

\* Inserting a new key appends it and disturbs nothing else.
LEMMA MapSetNew ==
    ASSUME NEW S, NEW s \in Seq(S), NEW p \in S, p \notin ToSet(s), Distinct(s)
    PROVE  /\ MapSet(s, p) \in Seq(S)
           /\ Len(MapSet(s, p)) = Len(s) + 1
           /\ ToSet(MapSet(s, p)) = ToSet(s) \cup {p}
           /\ Distinct(MapSet(s, p))
           /\ MapSet(s, p) # <<>>
           /\ Head(MapSet(s, p)) = IF s = <<>> THEN p ELSE Head(s)
<1> DEFINE t == Append(s, p)
<1>1. MapSet(s, p) = t
  BY DEF MapSet
<1>2. /\ t \in Seq(S)
      /\ Len(t) = Len(s) + 1
      /\ \A i \in 1..Len(s) : t[i] = s[i]
      /\ t[Len(s) + 1] = p
  BY AppendProperties
<1>3. DOMAIN s = 1..Len(s) /\ DOMAIN t = 1..(Len(s) + 1) /\ Len(s) \in Nat
  BY <1>2, LenProperties
<1> HIDE DEF t
<1>4. ToSet(t) = ToSet(s) \cup {p}
  <2>1. ASSUME NEW x \in ToSet(t) PROVE x \in ToSet(s) \cup {p}
    <3>1. PICK i \in DOMAIN t : x = t[i]
      BY <2>1 DEF ToSet
    <3>2. CASE i = Len(s) + 1
      BY <3>1, <3>2, <1>2
    <3>3. CASE i # Len(s) + 1
      <4>1. i \in 1..Len(s)
        BY <3>3, <1>3
      <4> QED BY <3>1, <4>1, <1>2, <1>3 DEF ToSet
    <3> QED BY <3>2, <3>3
  <2>2. ASSUME NEW x \in ToSet(s) \cup {p} PROVE x \in ToSet(t)
    <3>1. CASE x = p
      <4>1. Len(s) + 1 \in DOMAIN t
        BY <1>3
      <4> QED BY <3>1, <4>1, <1>2 DEF ToSet
    <3>2. CASE x \in ToSet(s)
      <4>1. PICK i \in DOMAIN s : x = s[i]
        BY <3>2 DEF ToSet
      <4>2. i \in DOMAIN t /\ t[i] = x
        BY <4>1, <1>2, <1>3
      <4> QED BY <4>2 DEF ToSet
    <3> QED BY <2>2, <3>1, <3>2
  <2> QED BY <2>1, <2>2
<1>5. Distinct(t)
  <2>1. \A i \in 1..Len(s) : s[i] # p
    BY <1>3 DEF ToSet
  <2> QED BY <2>1, <1>2, <1>3 DEF Distinct
<1>6. t # <<>> /\ Head(t) = t[1]
  BY <1>2, <1>3, EmptySeq
<1>7. Head(t) = IF s = <<>> THEN p ELSE Head(s)
  <2>1. CASE s = <<>>
    BY <2>1, <1>2, <1>6, EmptySeq
  <2>2. CASE s # <<>>
    <3>1. 1 \in 1..Len(s)
      BY <2>2, <1>3, EmptySeq
    <3> QED BY <3>1, <2>2, <1>2, <1>6
  <2> QED BY <2>1, <2>2
<1> QED BY <1>1, <1>2, <1>4, <1>5, <1>6, <1>7

\* Where the other keys are once one is deleted.
LEMMA MapDeleteAt ==
    ASSUME NEW S, NEW s \in Seq(S), NEW p \in ToSet(s)
    PROVE  \E i \in 1..Len(s) :
              /\ s[i] = p
              /\ MapDelete(s, p) \in Seq(S)
              /\ Len(MapDelete(s, p)) = Len(s) - 1
              /\ DOMAIN MapDelete(s, p) = 1..(Len(s) - 1)
              /\ \A k \in 1..(Len(s) - 1) :
                    MapDelete(s, p)[k] = IF k < i THEN s[k] ELSE s[k + 1]
<1>0. DOMAIN s = 1..Len(s) /\ Len(s) \in Nat
  BY LenProperties
<1> DEFINE i == CHOOSE k \in DOMAIN s : s[k] = p
           front == SubSeq(s, 1, i - 1)
           back == SubSeq(s, i + 1, Len(s))
           t == front \o back
<1>1. i \in 1..Len(s) /\ s[i] = p
  BY <1>0 DEF ToSet
<1>2. MapDelete(s, p) = t
  BY DEF MapDelete, RemoveAt
<1> HIDE DEF i
<1>3. \A k \in 1..Len(s) : s[k] \in S
  BY ElementOfSeq
<1>4. /\ front \in Seq(S)
      /\ Len(front) = i - 1
      /\ \A k \in 1..(i - 1) : front[k] = s[k]
  <2>1. /\ 1 \in Int /\ i - 1 \in Int
        /\ \A k \in 1..(i - 1) : s[k] \in S
    BY <1>1, <1>3, <1>0
  <2> QED BY <2>1, <1>1, <1>0, SubSeqProperties
<1>5. /\ back \in Seq(S)
      /\ Len(back) = Len(s) - i
      /\ \A k \in 1..(Len(s) - i) : back[k] = s[k + i]
  <2>1. /\ i + 1 \in Int /\ Len(s) \in Int
        /\ \A k \in (i + 1)..Len(s) : s[k] \in S
    BY <1>1, <1>3, <1>0
  <2>2. /\ back \in Seq(S)
        /\ Len(back) = IF i + 1 <= Len(s) THEN Len(s) - (i + 1) + 1 ELSE 0
        /\ \A k \in 1..(Len(s) - (i + 1) + 1) : back[k] = s[(i + 1) + k - 1]
    BY <2>1, SubSeqProperties
  <2> HIDE DEF back
  <2>3. Len(back) = Len(s) - i
    <3>1. i \in Int /\ Len(s) \in Int /\ i <= Len(s)
      BY <1>1, <1>0
    <3>2. Len(back) = IF i + 1 <= Len(s) THEN Len(s) - (i + 1) + 1 ELSE 0
      BY <2>2
    <3> QED BY <3>1, <3>2
  <2>4. ASSUME NEW k \in 1..(Len(s) - i) PROVE back[k] = s[k + i]
    <3>1. k \in 1..(Len(s) - (i + 1) + 1) /\ (i + 1) + k - 1 = k + i
      BY <1>1, <1>0
    <3> QED BY <3>1, <2>2
  <2> QED BY <2>2, <2>3, <2>4
<1> HIDE DEF front, back
<1>6. /\ t \in Seq(S)
      /\ Len(t) = Len(s) - 1
      /\ \A k \in 1..(Len(s) - 1) : t[k] = IF k < i THEN s[k] ELSE s[k + 1]
  <2>1. /\ t \in Seq(S)
        /\ Len(t) = Len(front) + Len(back)
        /\ \A k \in 1..(Len(front) + Len(back)) :
              t[k] = IF k <= Len(front) THEN front[k] ELSE back[k - Len(front)]
    BY <1>4, <1>5, ConcatProperties
  <2> HIDE DEF t
  <2> QED BY <2>1, <1>1, <1>4, <1>5, <1>0
<1> HIDE DEF t
<1>7. DOMAIN t = 1..(Len(s) - 1)
  BY <1>6, LenProperties
<1> QED BY <1>1, <1>2, <1>6, <1>7

\* Deleting a key drops it, keeps every other one and keeps the first one
\* first unless it is the one deleted.
LEMMA MapDeleteKey ==
    ASSUME NEW S, NEW s \in Seq(S), NEW p, Distinct(s)
    PROVE  /\ MapDelete(s, p) \in Seq(S)
           /\ Len(MapDelete(s, p)) <= Len(s)
           /\ ToSet(MapDelete(s, p)) = ToSet(s) \ {p}
           /\ Distinct(MapDelete(s, p))
           /\ s # <<>> /\ p # Head(s) =>
                 MapDelete(s, p) # <<>> /\ Head(MapDelete(s, p)) = Head(s)
<1>0. DOMAIN s = 1..Len(s) /\ Len(s) \in Nat /\ (s # <<>> => Head(s) = s[1])
  BY LenProperties, HeadTailProperties
<1>1. CASE p \notin ToSet(s)
  <2>1. MapDelete(s, p) = s
    BY <1>1 DEF MapDelete
  <2> QED BY <2>1, <1>1, <1>0
<1>2. CASE p \in ToSet(s)
  <2> DEFINE t == MapDelete(s, p)
  <2>1. PICK i \in 1..Len(s) :
            /\ s[i] = p
            /\ t \in Seq(S)
            /\ Len(t) = Len(s) - 1
            /\ DOMAIN t = 1..(Len(s) - 1)
            /\ \A k \in 1..(Len(s) - 1) : t[k] = IF k < i THEN s[k] ELSE s[k + 1]
    BY <1>2, MapDeleteAt
  <2> HIDE DEF t
  <2>2. ToSet(t) = ToSet(s) \ {p}
    <3>1. ASSUME NEW x \in ToSet(t) PROVE x \in ToSet(s) \ {p}
      <4>1. PICK k \in 1..(Len(s) - 1) : x = t[k]
        BY <3>1, <2>1 DEF ToSet
      <4>2. PICK m \in 1..Len(s) : m # i /\ x = s[m]
        <5>1. CASE k < i
          <6>1. k \in 1..Len(s) /\ k # i
            BY <5>1, <2>1, <1>0
          <6>2. t[k] = s[k]
            BY <5>1, <2>1
          <6> QED BY <6>1, <6>2, <4>1
        <5>2. CASE ~(k < i)
          <6>1. k + 1 \in 1..Len(s) /\ k + 1 # i
            BY <5>2, <2>1, <1>0
          <6>2. t[k] = s[k + 1]
            BY <5>2, <2>1
          <6> QED BY <6>1, <6>2, <4>1
        <5> QED BY <5>1, <5>2
      <4>3. m \in DOMAIN s /\ i \in DOMAIN s
        BY <4>2, <2>1, <1>0
      <4>4. x \in ToSet(s)
        BY <4>2, <4>3 DEF ToSet
      <4>5. s[m] # s[i]
        BY <4>2, <4>3 DEF Distinct
      <4>6. x # p
        BY <4>2, <4>5, <2>1
      <4> QED BY <4>4, <4>6
    <3>2. ASSUME NEW x \in ToSet(s) \ {p} PROVE x \in ToSet(t)
      <4>1. PICK k \in 1..Len(s) : x = s[k]
        BY <3>2, <1>0 DEF ToSet
      <4>2. k # i
        BY <4>1, <3>2, <2>1
      <4>3. CASE k < i
        <5>1. k \in DOMAIN t /\ t[k] = x
          BY <4>1, <4>3, <2>1, <1>0
        <5> QED BY <5>1 DEF ToSet
      <4>4. CASE k > i
        <5>1. k - 1 \in DOMAIN t /\ ~(k - 1 < i) /\ (k - 1) + 1 = k
          BY <4>1, <4>4, <2>1, <1>0
        <5>2. t[k - 1] = x
          BY <5>1, <4>1, <2>1
        <5> QED BY <5>1, <5>2 DEF ToSet
      <4> QED BY <4>1, <4>2, <4>3, <4>4, <2>1
    <3> QED BY <3>1, <3>2
  <2>3. Distinct(t)
    <3>1. SUFFICES ASSUME NEW j \in 1..(Len(s) - 1), NEW k \in 1..(Len(s) - 1),
                          t[j] = t[k]
                   PROVE  j = k
      BY <2>1 DEF Distinct
    <3> DEFINE at(m) == IF m < i THEN m ELSE m + 1
    <3>2. t[j] = s[at(j)] /\ t[k] = s[at(k)]
      BY <2>1
    <3>3. at(j) \in DOMAIN s /\ at(k) \in DOMAIN s
      BY <2>1, <1>0
    <3>4. at(j) = at(k)
      BY <3>1, <3>2, <3>3 DEF Distinct
    <3> QED BY <3>4, <2>1, <1>0
  <2>4. ASSUME s # <<>>, p # Head(s)
        PROVE  t # <<>> /\ Head(t) = Head(s)
    <3>1. i # 1 /\ Len(s) > 1
      BY <2>4, <2>1, <1>0
    <3>2. t # <<>> /\ Head(t) = t[1]
      BY <3>1, <2>1, EmptySeq, HeadTailProperties, <1>0
    <3> QED BY <3>1, <3>2, <2>1, <2>4, <1>0
  <2> QED BY <2>1, <2>2, <2>3, <2>4, <1>0 DEF t
<1> QED BY <1>1, <1>2

\* Insertion reorders no keys, and the new one goes last.
LEMMA MapSetOrder ==
    ASSUME NEW S, NEW s \in Seq(S), NEW p \in S, p \notin ToSet(s)
    PROVE  /\ \A q, r : ComesBefore(s, q, r) => ComesBefore(MapSet(s, p), q, r)
           /\ \A q \in ToSet(s) : ComesBefore(MapSet(s, p), q, p)
<1> DEFINE t == Append(s, p)
           n == Len(s) + 1
<1>1. MapSet(s, p) = t
  BY DEF MapSet
<1>2. /\ DOMAIN t = DOMAIN s \cup {n}
      /\ \A i \in DOMAIN s : t[i] = s[i] /\ i < n
      /\ t[n] = p
  <2>1. /\ Len(t) = n /\ t[n] = p /\ t \in Seq(S)
        /\ \A i \in 1..Len(s) : t[i] = s[i]
    BY AppendProperties
  <2>2. DOMAIN s = 1..Len(s) /\ DOMAIN t = 1..Len(t) /\ Len(s) \in Nat
    BY <2>1, LenProperties
  <2> QED BY <2>1, <2>2
<1> HIDE DEF t, n
<1>3. ASSUME NEW q, NEW r, ComesBefore(s, q, r) PROVE ComesBefore(t, q, r)
  BY <1>2, <1>3 DEF ComesBefore
<1>4. ASSUME NEW q \in ToSet(s) PROVE ComesBefore(t, q, p)
  BY <1>2, <1>4 DEF ComesBefore, ToSet
<1> QED BY <1>1, <1>3, <1>4

\* Deletion leaves the others in their order.
LEMMA MapDeleteOrder ==
    ASSUME NEW S, NEW s \in Seq(S), NEW p, NEW q, NEW r, q # p, r # p, ComesBefore(s, q, r)
    PROVE  ComesBefore(MapDelete(s, p), q, r)
<1>1. CASE p \notin ToSet(s)
  BY <1>1 DEF MapDelete
<1>2. CASE p \in ToSet(s)
  <2> DEFINE t == MapDelete(s, p)
  <2>1. PICK i \in 1..Len(s) :
            /\ s[i] = p
            /\ DOMAIN t = 1..(Len(s) - 1)
            /\ \A k \in 1..(Len(s) - 1) : t[k] = IF k < i THEN s[k] ELSE s[k + 1]
    BY <1>2, MapDeleteAt
  <2> HIDE DEF t
  <2>2. DOMAIN s = 1..Len(s) /\ Len(s) \in Nat
    BY LenProperties
  <2>3. PICK j \in DOMAIN s, k \in DOMAIN s : j < k /\ s[j] = q /\ s[k] = r
    BY DEF ComesBefore
  <2>4. j # i /\ k # i
    BY <2>1, <2>3
  <2> DEFINE at(m) == IF m < i THEN m ELSE m - 1
  <2>5. ASSUME NEW m \in DOMAIN s, m # i PROVE at(m) \in DOMAIN t /\ t[at(m)] = s[m]
    <3>1. CASE m < i
      BY <2>1, <2>2, <3>1
    <3>2. CASE ~(m < i)
      <4>1. m - 1 \in 1..(Len(s) - 1) /\ ~(m - 1 < i) /\ (m - 1) + 1 = m
        BY <2>2, <2>5, <3>2
      <4> QED BY <4>1, <2>1, <3>2
    <3> QED BY <3>1, <3>2
  <2>6. at(j) < at(k)
    BY <2>2, <2>3, <2>4
  <2>7. at(j) \in DOMAIN t /\ at(k) \in DOMAIN t /\ t[at(j)] = q /\ t[at(k)] = r
    BY <2>3, <2>4, <2>5
  <2> QED BY <2>6, <2>7 DEF ComesBefore, t
<1> QED BY <1>1, <1>2
===============================================================================
