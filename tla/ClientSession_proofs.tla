-------------------------- MODULE ClientSession_proofs -------------------------
(***************************************************************************)
(* The safety properties of ClientSession, proved for every set of codes,  *)
(* every set of other players and every bound: that the client keeps to    *)
(* SessionStatus, and what a quiet client knows.                           *)
(*                                                                         *)
(* The current connection has two lines of frames: what the client sent or *)
(* queued and the server has not handled, and what the server sent and the *)
(* client has not handled.  The dialogue HANDSHAKE, HANDSHAKE_ACK,         *)
(* JOIN_REQUEST, JOIN_ACK runs through both, at most one frame of it is    *)
(* ever under way, and whatever an earlier connection left in the queue is *)
(* ahead of all of it.                                                     *)
(***************************************************************************)
EXTENDS ClientSession, OrderedMap_proofs, SequenceTheorems, TLAPS

IsHandshake(m) == m.t = "HANDSHAKE"
IsRequest(m)   == m.t = "JOIN_REQUEST"
IsGame(m)      == m.t = "GAME"
IsAck(m)       == m.t = "HANDSHAKE_ACK"
IsJoinAck(m)   == m.t = "JOIN_ACK"

\* Frames that bring a player into remotes_, and that take it out.
Brings(m, x) ==
    \/ m.t = "JOIN_ACK" /\ x \in m.players
    \/ m.t = "PLAYER_JOIN" /\ m.player = x

Removes(m, x) == m.t = "PLAYER_LEAVE" /\ m.player = x

\* e is what lies together in d.
Part(e, d) == \E o \in Nat : \A i \in DOMAIN e : i + o \in DOMAIN d /\ e[i] = d[i + o]

(***************************************************************************)
(* What the lines are like.  k is a connection, told whether the server    *)
(* greeted it, room where it is seated, s the line to the server, l the    *)
(* one from it.                                                            *)
(***************************************************************************)

\* Frames of earlier connections are ahead of everything the dialogue of this
\* one waits for.
Stale(k, told, room, s) ==
    /\ \A i, j \in DOMAIN s :
          i < j /\ IsHandshake(s[i]) /\ IsRequest(s[j]) => s[j].on = k
    /\ told => \A i \in DOMAIN s : IsRequest(s[i]) => s[i].on = k
    /\ \A i, j \in DOMAIN s :
          i < j /\ IsRequest(s[i]) /\ s[i].on = k /\ IsGame(s[j]) => s[j].on = k
    /\ room # NoRoom =>
          /\ told
          /\ \A i \in DOMAIN s : IsGame(s[i]) => s[i].on = k

\* The requests of connection k.
Pending(k, s) == {i \in DOMAIN s : IsRequest(s[i]) /\ s[i].on = k}

\* At most one frame of the dialogue is under way; ready says that the client
\* counts itself connected.
Dialogue(k, told, room, ready, s, l) ==
    /\ ~told => /\ Pending(k, s) = {}
                /\ \A i \in DOMAIN l : ~IsAck(l[i]) /\ ~IsJoinAck(l[i])
    /\ \A i \in DOMAIN l : IsAck(l[i]) =>
          i = Len(l) /\ Pending(k, s) = {} /\ room = NoRoom
    /\ \A i \in DOMAIN l : IsJoinAck(l[i]) =>
          i = 1 /\ Pending(k, s) = {} /\ ready
    /\ \A i \in Pending(k, s) :
          l = <<>> /\ room = NoRoom /\ ready /\ Pending(k, s) = {i}

\* A client with remotes rs has x in its table once it has handled l.
KnowsOf(rs, x, l) ==
    \/ x \in rs /\ \A i \in DOMAIN l : ~Removes(l[i], x)
    \/ \E i \in DOMAIN l : /\ Brings(l[i], x)
                           /\ \A j \in DOMAIN l : i < j => ~Removes(l[j], x)

-------------------------------------------------------------------------------
(***************************************************************************)
(* Lines.                                                                  *)
(***************************************************************************)

\* The parts of a line that the steps leave over.
LEMMA PartFacts ==
    ASSUME NEW S, NEW s \in Seq(S), NEW t \in Seq(S)
    PROVE  /\ Part(s, s) /\ Part(<<>>, s)
           /\ Part(s, s \o t) /\ Part(t, s \o t)
           /\ s # <<>> => Part(Tail(s), s)
<1> DEFINE c == s \o t
<1>1. /\ c \in Seq(S) /\ Len(c) = Len(s) + Len(t)
      /\ \A i \in 1..Len(s) : c[i] = s[i]
      /\ \A i \in 1..Len(t) : c[Len(s) + i] = t[i]
  BY ConcatProperties
<1>2. /\ DOMAIN s = 1..Len(s) /\ DOMAIN t = 1..Len(t) /\ DOMAIN c = 1..Len(c)
      /\ Len(s) \in Nat /\ Len(t) \in Nat
  BY <1>1, LenProperties
<1> HIDE DEF c
<1>3. Part(<<>>, s)
  BY EmptyDomain DEF Part
<1>4. \A i \in DOMAIN s : i + 0 = i /\ i \in DOMAIN c /\ s[i] = c[i]
  BY <1>1, <1>2
<1>5. Part(s, s) /\ Part(s, c)
  BY <1>4 DEF Part
<1>6. \A i \in DOMAIN t : i + Len(s) \in DOMAIN c /\ t[i] = c[i + Len(s)]
  <2> TAKE i \in DOMAIN t
  <2>1. i + Len(s) = Len(s) + i /\ Len(s) + i \in DOMAIN c
    BY <1>1, <1>2
  <2> QED BY <2>1, <1>1, <1>2
<1>7. Part(t, c)
  BY <1>6, <1>2 DEF Part
<1>8. ASSUME s # <<>> PROVE Part(Tail(s), s)
  <2>1. \A i \in DOMAIN Tail(s) : i + 1 \in DOMAIN s /\ s[i + 1] = Tail(s)[i]
    BY <1>8, TailFacts
  <2> QED BY <2>1 DEF Part
<1> QED BY <1>3, <1>5, <1>7, <1>8 DEF c

\* A frame that joins the second of two lines joins both.
LEMMA AppendConcat ==
    ASSUME NEW S
    PROVE  \A s, t \in Seq(S), m \in S : s \o Append(t, m) = Append(s \o t, m)
<1> TAKE s, t \in Seq(S), m \in S
<1>1. s \o t \in Seq(S) /\ <<m>> \in Seq(S)
  BY ConcatProperties
<1>2. Append(t, m) = t \o <<m>> /\ Append(s \o t, m) = (s \o t) \o <<m>>
  BY <1>1, AppendIsConcat
<1> QED BY <1>1, <1>2, ConcatAssociative

\* Lines one after the other.
LEMMA ConcatFacts ==
    ASSUME NEW S, NEW s \in Seq(S), NEW t \in Seq(S)
    PROVE  /\ s \o t \in Seq(S)
           /\ s \o <<>> = s /\ <<>> \o s = s
           /\ s \o t = <<>> <=> s = <<>> /\ t = <<>>
           /\ s # <<>> => /\ Tail(s) \o t = Tail(s \o t)
                          /\ Head(s) = (s \o t)[1]
<1>1. s \o t \in Seq(S) /\ <<>> \in Seq(S)
  BY ConcatProperties, EmptySeq
<1>3. s \o <<>> = s /\ <<>> \o s = s
  BY ConcatEmptySeq
<1>4. s \o t = <<>> <=> s = <<>> /\ t = <<>>
  BY ConcatEqualIffEmpty
<1>5. ASSUME s # <<>> PROVE Tail(s) \o t = Tail(s \o t) /\ Head(s) = (s \o t)[1]
  <2> DEFINE c == s \o t
             u == Tail(s)
             a == u \o t
             b == Tail(c)
  <2>1. /\ Len(c) = Len(s) + Len(t)
        /\ \A i \in 1..(Len(s) + Len(t)) : c[i] = IF i <= Len(s) THEN s[i] ELSE t[i - Len(s)]
    BY ConcatProperties
  <2>2. /\ u \in Seq(S) /\ Len(s) = Len(u) + 1 /\ Len(u) \in Nat /\ Head(s) = s[1]
        /\ \A i \in 1..Len(u) : u[i] = s[i + 1]
    BY <1>5, HeadTailProperties, TailFacts
  <2>3. /\ a \in Seq(S) /\ Len(a) = Len(u) + Len(t)
        /\ \A i \in 1..(Len(u) + Len(t)) : a[i] = IF i <= Len(u) THEN u[i] ELSE t[i - Len(u)]
    BY <2>2, ConcatProperties
  <2>4. c # <<>>
    BY <1>4, <1>5
  <2>5. /\ b \in Seq(S) /\ Len(b) = Len(c) - 1
        /\ \A i \in 1..Len(b) : b[i] = c[i + 1]
    BY <1>1, <2>4, HeadTailProperties
  <2>6. Len(t) \in Nat
    BY LenProperties
  <2>7. Head(s) = c[1]
    BY <2>1, <2>2, <2>6
  <2> HIDE DEF c, u, a, b
  <2>8. Len(a) = Len(b)
    BY <2>1, <2>2, <2>3, <2>5, <2>6
  <2>9. ASSUME NEW i \in 1..Len(a) PROVE a[i] = b[i]
    <3>1. i \in Nat /\ i + 1 \in 1..(Len(s) + Len(t)) /\ i \in 1..(Len(u) + Len(t)) /\ i \in 1..Len(b)
      BY <2>1, <2>2, <2>3, <2>5, <2>6
    <3>2. b[i] = IF i + 1 <= Len(s) THEN s[i + 1] ELSE t[(i + 1) - Len(s)]
      BY <3>1, <2>1, <2>5
    <3>3. CASE i <= Len(u)
      BY <3>1, <3>2, <3>3, <2>2, <2>3
    <3>4. CASE i > Len(u)
      <4>1. ~(i <= Len(u)) /\ ~(i + 1 <= Len(s)) /\ (i + 1) - Len(s) = i - Len(u)
        BY <3>1, <3>4, <2>2
      <4> QED BY <4>1, <3>1, <3>2, <2>3
    <3> QED BY <3>1, <3>3, <3>4, <2>2
  <2>10. a = b
    BY <2>3, <2>5, <2>8, <2>9, SeqEqual
  <2> QED BY <2>7, <2>10 DEF a, b, c, u
<1> QED BY <1>1, <1>3, <1>4, <1>5

\* The same of the lines there are.
LEMMA FramesJoin ==
    /\ \A s, t \in Seq(UpFrame), m \in UpFrame : s \o Append(t, m) = Append(s \o t, m)
    /\ \A s, t \in Seq(DownFrame), m \in DownFrame : s \o Append(t, m) = Append(s \o t, m)
BY AppendConcat

\* A frame that leaves the front of a line in two parts leaves the line.
LEMMA FramesLeave ==
    \A s, t \in Seq(UpFrame) :
        s # <<>> => /\ s \o t # <<>> /\ Head(s) = (s \o t)[1]
                    /\ Tail(s) \o t = Tail(s \o t)
BY ConcatFacts

\* What recv returns and what it leaves make up what had arrived.
LEMMA RecvFacts ==
    ASSUME NEW S, NEW d \in Seq(S), NEW n \in 1..Len(d)
    PROVE  /\ SubSeq(d, 1, n) \in Seq(S) /\ SubSeq(d, n + 1, Len(d)) \in Seq(S)
           /\ SubSeq(d, 1, n) \o SubSeq(d, n + 1, Len(d)) = d
<1>1. Len(d) \in Nat /\ \A i \in 1..Len(d) : d[i] \in S
  BY LenProperties, ElementOfSeq
<1>2. SubSeq(d, 1, Len(d)) = d
  BY SubSeqFull
<1>3. SubSeq(d, 1, n) \o SubSeq(d, n + 1, Len(d)) = SubSeq(d, 1, Len(d))
  BY <1>1, ConcatAdjacentSubSeq
<1>4. SubSeq(d, 1, n) \in Seq(S) /\ SubSeq(d, n + 1, Len(d)) \in Seq(S)
  BY <1>1, SubSeqProperties
<1> QED BY <1>2, <1>3, <1>4

-------------------------------------------------------------------------------
(***************************************************************************)
(* The dialogue.                                                           *)
(***************************************************************************)

\* What is said of a line holds of its parts.
LEMMA PartIsStale ==
    ASSUME NEW S, NEW d \in Seq(S), NEW e \in Seq(S), Part(e, d),
           NEW k, NEW told, NEW room, Stale(k, told, room, d)
    PROVE  Stale(k, told, room, e)
<1>1. PICK o \in Nat : \A i \in DOMAIN e : i + o \in DOMAIN d /\ e[i] = d[i + o]
  BY DEF Part
<1>2. \A i \in DOMAIN e : i \in Nat
  BY LenProperties
<1>3. \A i, j \in DOMAIN e : i < j => i + o < j + o
  BY <1>2
<1> QED BY <1>1, <1>3 DEF Stale

\* What is left of two lines, with a part of each lost, is a dialogue still: nothing
\* that Dialogue forbids comes in by losing frames.
LEMMA PartIsDialogue ==
    ASSUME NEW S, NEW s \in Seq(S), NEW s2 \in Seq(S), Part(s2, s),
           NEW T, NEW l \in Seq(T), NEW l2 \in Seq(T), Part(l2, l),
           NEW k, NEW told, NEW room, NEW ready, Dialogue(k, told, room, ready, s, l)
    PROVE  Dialogue(k, told, room, ready, s2, l2)
<1>1. PICK o \in Nat : \A i \in DOMAIN s2 : i + o \in DOMAIN s /\ s2[i] = s[i + o]
  BY DEF Part
<1>2. PICK p \in Nat : \A i \in DOMAIN l2 : i + p \in DOMAIN l /\ l2[i] = l[i + p]
  BY DEF Part
<1>3. \A i \in Pending(k, s2) : i + o \in Pending(k, s) /\ i \in Nat
  BY <1>1, LenProperties DEF Pending
<1>4. ASSUME NEW i \in DOMAIN l2 PROVE i \in Nat /\ i > 0 /\ (i + p = Len(l) => i = Len(l2))
  <2>1. /\ DOMAIN l2 = 1..Len(l2) /\ DOMAIN l = 1..Len(l)
        /\ Len(l2) \in Nat /\ Len(l) \in Nat
    BY LenProperties
  <2>2. Len(l2) \in DOMAIN l2
    BY <2>1
  <2>3. Len(l2) + p \in 1..Len(l)
    BY <2>1, <2>2, <1>2
  <2> QED BY <2>1, <2>3
<1>5. l = <<>> => l2 = <<>>
  <2>1. DOMAIN l2 = 1..Len(l2) /\ Len(l2) \in Nat
    BY LenProperties
  <2>2. ASSUME l = <<>>, Len(l2) # 0 PROVE FALSE
    <3>1. 1 \in DOMAIN l2
      BY <2>1, <2>2
    <3>2. 1 + p \in DOMAIN l
      BY <3>1, <1>2
    <3> QED BY <2>2, <3>2, EmptyDomain
  <2> QED BY <2>2, EmptySeq
<1>6. ASSUME NEW i \in Pending(k, s2)
      PROVE  l2 = <<>> /\ room = NoRoom /\ ready /\ Pending(k, s2) = {i}
  <2>1. i + o \in Pending(k, s)
    BY <1>3
  <2>2. l = <<>> /\ room = NoRoom /\ ready /\ Pending(k, s) = {i + o}
    BY <2>1 DEF Dialogue
  <2>3. \A j \in Pending(k, s2) : j = i
    BY <2>2, <1>3
  <2> QED BY <2>2, <2>3, <1>5
<1>7. Pending(k, s) = {} => Pending(k, s2) = {}
  BY <1>3
<1>8. ASSUME NEW i \in DOMAIN l2, IsAck(l2[i])
      PROVE  i = Len(l2) /\ Pending(k, s2) = {} /\ room = NoRoom
  <2>1. i + p = Len(l) /\ Pending(k, s) = {} /\ room = NoRoom
    BY <1>2, <1>8 DEF Dialogue
  <2> QED BY <2>1, <1>4, <1>7
<1>9. ASSUME NEW i \in DOMAIN l2, IsJoinAck(l2[i])
      PROVE  i = 1 /\ Pending(k, s2) = {} /\ ready
  <2>1. i + p = 1 /\ Pending(k, s) = {} /\ ready
    BY <1>2, <1>9 DEF Dialogue
  <2> QED BY <2>1, <1>4, <1>7
<1>10. ~told => \A i \in DOMAIN l2 : ~IsAck(l2[i]) /\ ~IsJoinAck(l2[i])
  BY <1>2 DEF Dialogue
<1>11. ~told => Pending(k, s2) = {}
  BY <1>7 DEF Dialogue
<1> QED BY <1>6, <1>8, <1>9, <1>10, <1>11 DEF Dialogue

\* Whoever is seated, or loses its seat, waits for no answer.
LEMMA SeatedDialogue ==
    ASSUME NEW k, NEW told, NEW room, NEW ready, NEW s, NEW l,
           Dialogue(k, told, room, ready, s, l), room # NoRoom
    PROVE  /\ Pending(k, s) = {}
           /\ \A i \in DOMAIN l : ~IsAck(l[i])
           /\ Dialogue(k, told, NoRoom, ready, s, l)
BY DEF Dialogue

\* A frame that is no part of the dialogue reaches a client that waits for no
\* answer.
LEMMA NewsDialogue ==
    ASSUME NEW T, NEW l \in Seq(T), NEW m \in T, ~IsAck(m), ~IsJoinAck(m),
           NEW k, NEW told, NEW room, NEW ready, NEW s,
           Dialogue(k, told, room, ready, s, l),
           Pending(k, s) = {}, \A i \in DOMAIN l : ~IsAck(l[i])
    PROVE  /\ Dialogue(k, told, room, ready, s, Append(l, m))
           /\ \A i \in DOMAIN Append(l, m) : ~IsAck(Append(l, m)[i])
<1> DEFINE e == Append(l, m)
           n == Len(l) + 1
<1>1. /\ DOMAIN e = DOMAIN l \cup {n} /\ e[n] = m
      /\ \A i \in DOMAIN l : e[i] = l[i]
  BY AppendFacts
<1> HIDE DEF e, n
<1>2. \A i \in DOMAIN e : ~IsAck(e[i])
  BY <1>1
<1>3. \A i \in DOMAIN e : IsJoinAck(e[i]) => i \in DOMAIN l /\ IsJoinAck(l[i])
  BY <1>1
<1>4. Dialogue(k, told, room, ready, s, e)
  BY <1>2, <1>3 DEF Dialogue
<1> QED BY <1>2, <1>4 DEF e

\* The client handles a frame: whatever its status becomes, nothing that is
\* left on the way needs it to be connected.
LEMMA HandledDialogue ==
    ASSUME NEW T, NEW l \in Seq(T), l # <<>>, NEW ready2,
           NEW k, NEW told, NEW room, NEW ready, NEW s,
           Dialogue(k, told, room, ready, s, l)
    PROVE  /\ Dialogue(k, told, room, ready2, s, Tail(l))
           /\ Pending(k, s) = {}
           /\ \A i \in DOMAIN Tail(l) : ~IsJoinAck(Tail(l)[i])
<1> DEFINE e == Tail(l)
<1>1. /\ Len(l) = Len(e) + 1 /\ Len(e) \in Nat
      /\ \A i \in DOMAIN e : /\ i \in Nat /\ i > 0
                             /\ i + 1 \in DOMAIN l /\ l[i + 1] = e[i]
  BY TailFacts
<1> HIDE DEF e
<1>2. Pending(k, s) = {}
  BY DEF Dialogue
<1>3. \A i \in DOMAIN e : ~IsJoinAck(e[i])
  <2> SUFFICES ASSUME NEW i \in DOMAIN e, IsJoinAck(e[i]) PROVE FALSE
    OBVIOUS
  <2>1. i + 1 = 1
    BY <1>1 DEF Dialogue
  <2> QED BY <2>1, <1>1
<1>4. ASSUME NEW i \in DOMAIN e, IsAck(e[i]) PROVE i = Len(e) /\ room = NoRoom
  <2>1. i + 1 = Len(l) /\ room = NoRoom
    BY <1>4, <1>1 DEF Dialogue
  <2> QED BY <2>1, <1>1
<1>5. ~told => \A i \in DOMAIN e : ~IsAck(e[i])
  BY <1>1 DEF Dialogue
<1>6. Dialogue(k, told, room, ready2, s, e)
  BY <1>2, <1>3, <1>4, <1>5 DEF Dialogue
<1> QED BY <1>2, <1>3, <1>6 DEF e

\* The server greets the client.
LEMMA GreetedDialogue ==
    ASSUME NEW T, NEW l \in Seq(T), NEW m \in T, IsAck(m),
           NEW k, NEW ready, NEW s, Dialogue(k, FALSE, NoRoom, ready, s, l)
    PROVE  /\ Dialogue(k, TRUE, NoRoom, ready, s, Append(l, m))
           /\ Dialogue(k, TRUE, NoRoom, ready, s, l)
<1> DEFINE e == Append(l, m)
           n == Len(l) + 1
<1>1. /\ DOMAIN e = DOMAIN l \cup {n} /\ e[n] = m /\ Len(e) = n
      /\ \A i \in DOMAIN l : e[i] = l[i]
  BY AppendFacts
<1> HIDE DEF e, n
<1>2. /\ Pending(k, s) = {}
      /\ \A i \in DOMAIN l : ~IsAck(l[i]) /\ ~IsJoinAck(l[i])
  BY DEF Dialogue
<1>3. \A i \in DOMAIN e : ~IsJoinAck(e[i]) /\ (IsAck(e[i]) => i = Len(e))
  BY <1>1, <1>2 DEF IsAck, IsJoinAck
<1> QED BY <1>2, <1>3 DEF Dialogue, e

\* The client asks for a room.
LEMMA AskingDialogue ==
    ASSUME NEW S, NEW s \in Seq(S), NEW m \in S, IsRequest(m),
           NEW T, NEW l \in Seq(T), l # <<>>, IsAck(l[1]),
           NEW k, NEW told, NEW room, NEW ready, Dialogue(k, told, room, ready, s, l)
    PROVE  Dialogue(k, told, room, TRUE, Append(s, m), Tail(l)) /\ Tail(l) = <<>>
<1> DEFINE f == Append(s, m)
           n == Len(s) + 1
           e == Tail(l)
<1>1. Len(l) = Len(e) + 1 /\ Len(e) \in Nat /\ 1 \in DOMAIN l /\ e \in Seq(T)
  BY TailFacts
<1>2. DOMAIN f = DOMAIN s \cup {n} /\ f[n] = m /\ \A i \in DOMAIN s : f[i] = s[i]
  BY AppendFacts
<1> HIDE DEF e, f, n
<1>3. Len(l) = 1 /\ Pending(k, s) = {} /\ room = NoRoom /\ told
  BY <1>1 DEF Dialogue
<1>4. Len(e) = 0
  BY <1>1, <1>3
<1>5. e = <<>>
  BY <1>1, <1>4, EmptySeq
<1>6. Pending(k, f) \subseteq {n}
  BY <1>2, <1>3 DEF Pending
<1>7. DOMAIN e = {}
  BY <1>5, EmptyDomain
<1>8. \A i \in Pending(k, f) : Pending(k, f) = {i}
  BY <1>6
<1>9. Dialogue(k, told, room, TRUE, f, e)
  BY <1>3, <1>5, <1>7, <1>8 DEF Dialogue
<1> QED BY <1>5, <1>9 DEF e, f

\* The server handles a frame of s: if it was the request, nothing else of the
\* dialogue is under way.
LEMMA AskedDialogue ==
    ASSUME NEW S, NEW s \in Seq(S), s # <<>>, IsRequest(s[1]),
           NEW k, NEW told, NEW room, NEW ready, NEW l,
           Stale(k, told, room, s), Dialogue(k, told, room, ready, s, l)
    PROVE  /\ Pending(k, Tail(s)) = {}
           /\ \A i \in DOMAIN l : ~IsAck(l[i])
           /\ told => l = <<>> /\ s[1].on = k /\ ready
<1>1. /\ 1 \in DOMAIN s
      /\ \A i \in DOMAIN Tail(s) : /\ i \in Nat /\ i > 0 /\ i + 1 \in DOMAIN s
                                   /\ s[i + 1] = Tail(s)[i]
  BY TailFacts
<1>2. CASE ~told
  <2>1. Pending(k, s) = {} /\ \A i \in DOMAIN l : ~IsAck(l[i])
    BY <1>2 DEF Dialogue
  <2> QED BY <2>1, <1>1, <1>2 DEF Pending
<1>3. CASE told
  <2>1. s[1].on = k /\ 1 \in Pending(k, s)
    BY <1>1, <1>3 DEF Stale, Pending
  <2>2. l = <<>> /\ Pending(k, s) = {1} /\ ready
    BY <2>1 DEF Dialogue
  <2>3. DOMAIN l = {}
    BY <2>2, EmptyDomain
  <2>4. ASSUME NEW i \in Pending(k, Tail(s)) PROVE FALSE
    <3>1. i \in Nat /\ i > 0 /\ i + 1 \in Pending(k, s)
      BY <1>1 DEF Pending
    <3> QED BY <3>1, <2>2
  <2> QED BY <2>1, <2>2, <2>3, <2>4
<1> QED BY <1>2, <1>3

\* A client that is granted a room is told so first.
LEMMA GrantedDialogue ==
    ASSUME NEW T, NEW m \in T, IsJoinAck(m),
           NEW k, NEW room, NEW ready, ready, NEW s, Pending(k, s) = {}
    PROVE  /\ Dialogue(k, TRUE, room, ready, s, Append(<<>>, m))
           /\ Dialogue(k, TRUE, room, ready, s, <<>>)
<1> DEFINE e == Append(<<>>, m)
<1>1. <<>> \in Seq(T)
  BY EmptySeq
<1>2. DOMAIN e = {1} /\ e[1] = m
  BY <1>1, AppendFacts, EmptyDomain
<1> HIDE DEF e
<1>3. DOMAIN <<>> = {}
  BY EmptyDomain
<1>4. Dialogue(k, TRUE, room, ready, s, e)
  BY <1>2 DEF Dialogue, IsAck, IsJoinAck
<1> QED BY <1>3, <1>4 DEF Dialogue, e

\* The game's own frames are no part of the dialogue.
LEMMA GameDialogue ==
    ASSUME NEW S, NEW s \in Seq(S), NEW m \in S, IsGame(m),
           NEW k, NEW told, NEW room, NEW ready, NEW l,
           Dialogue(k, told, room, ready, s, l)
    PROVE  Dialogue(k, told, room, ready, Append(s, m), l)
<1> DEFINE f == Append(s, m)
           n == Len(s) + 1
<1>1. DOMAIN f = DOMAIN s \cup {n} /\ f[n] = m /\ \A i \in DOMAIN s : f[i] = s[i]
  BY AppendFacts
<1> HIDE DEF f, n
<1>2. ~IsRequest(m)
  BY DEF IsGame, IsRequest
<1>3. Pending(k, f) = Pending(k, s)
  BY <1>1, <1>2 DEF Pending
<1>4. Dialogue(k, told, room, ready, f, l)
  BY <1>3 DEF Dialogue
<1> QED BY <1>4 DEF f

-------------------------------------------------------------------------------
(***************************************************************************)
(* Frames of earlier connections.                                          *)
(***************************************************************************)

\* Whoever loses its seat.
LEMMA UnseatedStale ==
    ASSUME NEW k, NEW told, NEW room, NEW s, Stale(k, told, room, s)
    PROVE  Stale(k, told, NoRoom, s)
BY DEF Stale

\* What connection k itself queues.
LEMMA QueuedStale ==
    ASSUME NEW S, NEW s \in Seq(S), NEW m \in S, IsRequest(m) \/ IsGame(m),
           NEW k, NEW told, NEW room, m.on = k, Stale(k, told, room, s)
    PROVE  Stale(k, told, room, Append(s, m))
<1> DEFINE f == Append(s, m)
           n == Len(s) + 1
<1>1. /\ DOMAIN f = DOMAIN s \cup {n} /\ f[n] = m
      /\ \A i \in DOMAIN s : f[i] = s[i] /\ i < n /\ ~(n < i)
      /\ ~(n < n)
  BY AppendFacts
<1> HIDE DEF f, n
<1>2. ~IsHandshake(m)
  BY DEF IsHandshake, IsRequest, IsGame
<1>3. Stale(k, told, room, f)
  BY <1>1, <1>2 DEF Stale
<1> QED BY <1>3 DEF f

\* The server handles the HANDSHAKE: no request of another connection is
\* behind it.
LEMMA GreetedStale ==
    ASSUME NEW S, NEW s \in Seq(S), s # <<>>, IsHandshake(s[1]),
           NEW k, NEW told, NEW room, Stale(k, told, room, s)
    PROVE  Stale(k, TRUE, room, Tail(s))
<1>1. /\ 1 \in DOMAIN s
      /\ \A i \in DOMAIN Tail(s) : /\ i \in Nat /\ i > 0 /\ i + 1 \in DOMAIN s
                                   /\ s[i + 1] = Tail(s)[i]
  BY TailFacts
<1>2. Part(Tail(s), s) /\ Tail(s) \in Seq(S)
  BY PartFacts, TailFacts
<1>3. Stale(k, told, room, Tail(s))
  BY <1>2, PartIsStale
<1>4. ASSUME NEW i \in DOMAIN Tail(s), IsRequest(Tail(s)[i]) PROVE Tail(s)[i].on = k
  <2>1. i + 1 \in DOMAIN s /\ s[i + 1] = Tail(s)[i] /\ 1 < i + 1
    BY <1>1
  <2> QED BY <2>1, <1>1, <1>4 DEF Stale
<1> QED BY <1>3, <1>4 DEF Stale

\* The server grants the request: no frame of another connection is behind it.
LEMMA GrantedStale ==
    ASSUME NEW S, NEW s \in Seq(S), s # <<>>, IsRequest(s[1]),
           NEW k, NEW room, NEW r, Stale(k, TRUE, room, s)
    PROVE  Stale(k, TRUE, r, Tail(s))
<1>1. /\ 1 \in DOMAIN s
      /\ \A i \in DOMAIN Tail(s) : /\ i \in Nat /\ i > 0 /\ i + 1 \in DOMAIN s
                                   /\ s[i + 1] = Tail(s)[i]
  BY TailFacts
<1>2. Part(Tail(s), s) /\ Tail(s) \in Seq(S)
  BY PartFacts, TailFacts
<1>3. Stale(k, TRUE, room, Tail(s))
  BY <1>2, PartIsStale
<1>4. ASSUME NEW i \in DOMAIN Tail(s), IsGame(Tail(s)[i]) PROVE Tail(s)[i].on = k
  <2>1. i + 1 \in DOMAIN s /\ s[i + 1] = Tail(s)[i] /\ 1 < i + 1
    BY <1>1
  <2> QED BY <2>1, <1>1, <1>4 DEF Stale
<1> QED BY <1>3, <1>4 DEF Stale

\* A new connection: all that is queued was queued on earlier ones.
LEMMA NewStale ==
    ASSUME NEW S, NEW q \in Seq(S), NEW m \in S, IsHandshake(m), NEW k,
           \A i \in DOMAIN q : IsRequest(q[i]) => q[i].on # k,
           \A i, j \in DOMAIN q : i < j /\ IsHandshake(q[i]) => ~IsRequest(q[j])
    PROVE  Stale(k, FALSE, NoRoom, Append(q, m)) /\ Pending(k, Append(q, m)) = {}
<1> DEFINE f == Append(q, m)
           n == Len(q) + 1
<1>1. /\ DOMAIN f = DOMAIN q \cup {n} /\ f[n] = m
      /\ \A i \in DOMAIN q : f[i] = q[i] /\ i < n /\ ~(n < i)
      /\ ~(n < n)
  BY AppendFacts
<1> HIDE DEF f, n
<1>2. ~IsRequest(m) /\ ~IsGame(m)
  BY DEF IsHandshake, IsRequest, IsGame
<1>3. Stale(k, FALSE, NoRoom, f)
  BY <1>1, <1>2 DEF Stale
<1>4. Pending(k, f) = {}
  BY <1>1, <1>2 DEF Pending
<1> QED BY <1>3, <1>4 DEF f

-------------------------------------------------------------------------------
(***************************************************************************)
(* Who is known.                                                           *)
(***************************************************************************)

\* A frame that does not remove x, or that brings it, is sent.
LEMMA KnowsAfterSent ==
    ASSUME NEW T, NEW l \in Seq(T), NEW m \in T, NEW rs, NEW x,
           (KnowsOf(rs, x, l) /\ ~Removes(m, x)) \/ Brings(m, x)
    PROVE  KnowsOf(rs, x, Append(l, m))
<1> DEFINE e == Append(l, m)
           n == Len(l) + 1
<1>1. /\ DOMAIN e = DOMAIN l \cup {n} /\ e[n] = m
      /\ \A i \in DOMAIN l : e[i] = l[i] /\ i < n /\ ~(n < i)
      /\ ~(n < n)
  BY AppendFacts
<1> HIDE DEF e, n
<1>2. CASE Brings(m, x)
  BY <1>1, <1>2 DEF KnowsOf, e
<1>3. CASE KnowsOf(rs, x, l) /\ ~Removes(m, x)
  BY <1>1, <1>3 DEF KnowsOf, e
<1> QED BY <1>2, <1>3

\* A frame is handled, which leaves rs2.
LEMMA KnowsAfterHandled ==
    ASSUME NEW T, NEW l \in Seq(T), l # <<>>, NEW rs, NEW rs2, NEW x,
           KnowsOf(rs, x, l),
           x \in rs /\ ~Removes(l[1], x) => x \in rs2,
           Brings(l[1], x) => x \in rs2
    PROVE  KnowsOf(rs2, x, Tail(l))
<1> DEFINE e == Tail(l)
<1>1. /\ 1 \in DOMAIN l
      /\ \A i \in DOMAIN e : /\ i \in Nat /\ i > 0
                             /\ i + 1 \in DOMAIN l /\ l[i + 1] = e[i]
      /\ \A k \in DOMAIN l : k = 1 \/ \E i \in DOMAIN e : k = i + 1
  BY TailFacts
<1> HIDE DEF e
<1>2. \A i, j \in DOMAIN e : i < j => i + 1 < j + 1
  BY <1>1
<1>3. CASE x \in rs /\ \A i \in DOMAIN l : ~Removes(l[i], x)
  BY <1>1, <1>3 DEF KnowsOf, e
<1>4. ASSUME NEW k \in DOMAIN l, Brings(l[k], x),
             \A j \in DOMAIN l : k < j => ~Removes(l[j], x)
      PROVE  KnowsOf(rs2, x, e)
  <2>1. CASE k = 1
    <3>1. \A i \in DOMAIN e : 1 < i + 1
      BY <1>1
    <3>2. \A i \in DOMAIN e : ~Removes(e[i], x)
      BY <3>1, <2>1, <1>1, <1>4
    <3> QED BY <3>2, <2>1, <1>4 DEF KnowsOf
  <2>2. CASE k # 1
    <3>1. PICK i \in DOMAIN e : k = i + 1
      BY <2>2, <1>1
    <3>2. Brings(e[i], x) /\ \A j \in DOMAIN e : i < j => ~Removes(e[j], x)
      BY <3>1, <1>1, <1>2, <1>4
    <3> QED BY <3>2 DEF KnowsOf
  <2> QED BY <2>1, <2>2
<1> QED BY <1>3, <1>4 DEF KnowsOf, e

\* Nothing is left to handle.
LEMMA KnowsAtLast ==
    ASSUME NEW rs, NEW x, KnowsOf(rs, x, <<>>)
    PROVE  x \in rs
BY EmptyDomain DEF KnowsOf

-------------------------------------------------------------------------------
(***************************************************************************)
(* The inductive invariant.                                                *)
(***************************************************************************)

\* The two lines of the current connection, and the first of an earlier one.
Sent(k) == IF k = conn /\ worker = "serving" THEN up[k] \o queue ELSE up[k]
Coming  == rx \o down[conn]

\* The worker belongs to the last request.
LastWorker == ui = "free" /\ running

Ready == LastWorker => status = "connected"

WorkerOK ==
    /\ worker # "serving" => rx = <<>>
    /\ worker = "serving" => conn > 0
    /\ running => ui = "free"
    /\ worker = "serving" /\ link # "open" => down[conn] = <<>>
    /\ conn = 0 => /\ entered = NoRoom
                   /\ status \in {"disconnected", "connecting"}
                   /\ ui = "free" /\ ~running => worker = "idle"

\* Nothing has happened yet on a connection that is not opened.
Unopened ==
    \A k \in Conns : k > conn =>
        /\ up[k] = <<>> /\ down[k] = <<>>
        /\ k \notin alive /\ k \notin greeted /\ seat[k] = NoRoom

\* The queue is flushed as a whole, so that the HANDSHAKE of a connection is
\* in it only while nothing has been sent there.
QueueOK ==
    /\ \A i \in DOMAIN queue : IsRequest(queue[i]) => queue[i].on <= conn
    /\ \A i, j \in DOMAIN queue :
          i < j /\ IsHandshake(queue[i]) => ~IsRequest(queue[j])
    /\ worker = "serving" /\ (\E i \in DOMAIN queue : IsHandshake(queue[i])) =>
          up[conn] = <<>> /\ Coming = <<>> /\ conn \notin greeted

StaleOK == \A k \in Conns : Stale(k, k \in greeted, seat[k], Sent(k))

DialogueOK ==
    worker = "serving" =>
        Dialogue(conn, conn \in greeted, seat[conn], Ready, Sent(conn), Coming)

\* With l on its way, the client will be, or find that it no longer is, in r.
InRoom(r, l) ==
    /\ r # NoRoom
    /\ asked \in Rooms => r = asked
    /\ seat[conn] = r \/ \E i \in DOMAIN l : l[i].t = "CLOSE"

\* An open connection is greeted unless the HANDSHAKE is under way; then the
\* client has its id, and room and request agree.
SeatLine(s, l) ==
    /\ conn \notin greeted => \E i \in DOMAIN s : IsHandshake(s[i])
    /\ conn \in greeted => LastWorker
    /\ \A i \in Pending(conn, s) : s[i].ask = asked
    /\ \A i \in DOMAIN l : IsAck(l[i]) => l[i].id = conn
    /\ conn \in greeted /\ (\A i \in DOMAIN l : ~IsAck(l[i])) =>
          /\ localId = conn
          /\ status = "insession" => InRoom(shown, l)
    /\ \A i \in DOMAIN l : IsJoinAck(l[i]) => InRoom(l[i].room, l)

SeatOK ==
    link = "open" => /\ up[conn] # <<>> => LastWorker
                     /\ SeatLine(Sent(conn), Coming)

\* Whoever is in the room will be known.
MembersOK ==
    link = "open" /\ seat[conn] # NoRoom =>
        \A x \in Members(seat[conn]) \ {conn} : KnowsOf(remotes, x, Coming)

ClientInv ==
    /\ SessionTypeOK
    /\ WorkerOK
    /\ Unopened
    /\ QueueOK
    /\ StaleOK
    /\ DialogueOK
    /\ SeatOK
    /\ MembersOK

-------------------------------------------------------------------------------
(***************************************************************************)
(* Types.                                                                  *)
(***************************************************************************)

\* What anybody sends is a frame.
LEMMA FrameTypes ==
    /\ Handshake \in UpFrame
    /\ \A k \in 0..MaxConns : GameFrame(k) \in UpFrame
    /\ \A k \in 0..MaxConns, a \in Ask : JoinRequest(a, k) \in UpFrame
    /\ \A k \in Conns : HandshakeAck(k) \in DownFrame
    /\ \A r \in Rooms, ps \in SUBSET Players : JoinAck(r, ps) \in DownFrame
    /\ \A x \in Players : PlayerJoin(x) \in DownFrame /\ PlayerLeave(x) \in DownFrame
    /\ JoinDenied \in DownFrame /\ Kick \in DownFrame /\ CloseFrame \in DownFrame
BY DEF UpFrame, DownFrame, Handshake, GameFrame, JoinRequest, HandshakeAck, JoinAck,
       PlayerJoin, PlayerLeave, JoinDenied, Kick, CloseFrame

\* Telling keeps the lines' type, and is one more frame for the current
\* connection if it is addressed and open.
LEMMA TellFacts ==
    ASSUME NEW d \in [Conns -> Seq(DownFrame)], NEW ks, NEW m \in DownFrame
    PROVE  /\ Tell(d, ks, m) \in [Conns -> Seq(DownFrame)]
           /\ \A k \in Conns : k # conn => Tell(d, ks, m)[k] = d[k]
           /\ conn \in Conns => Tell(d, ks, m)[conn] =
                 IF conn \in ks /\ link = "open" THEN Append(d[conn], m) ELSE d[conn]
<1>1. ASSUME NEW k \in Conns PROVE Append(d[k], m) \in Seq(DownFrame)
  BY AppendProperties
<1> QED BY <1>1 DEF Tell

\* A frame that is handled or lost leaves a line.
LEMMA TailType ==
    ASSUME NEW S, NEW s \in Seq(S), s # <<>>
    PROVE  Tail(s) \in Seq(S) /\ Head(s) \in S
BY HeadTailProperties

\* A frame handled by the client's worker (session.cpp OnPacket) keeps the types.
LEMMA ReceiveType ==
    ASSUME SessionTypeOK, OnPacket
    PROVE  SessionTypeOK'
<1> USE DEF SessionTypeOK
<1>1. rx # <<>> /\ UNCHANGED <<ui, asked, running, conn, up, down, serverVars>>
  BY DEF OnPacket, Handles, ReceiveClose, ReceiveHandshakeAck, ReceiveJoinAck,
         ReceivePlayerJoin, ReceivePlayerLeave, ReceiveRefusal
<1>2. Head(rx) \in DownFrame /\ Tail(rx) \in Seq(DownFrame) /\ <<>> \in Seq(DownFrame)
  BY <1>1, TailType, EmptySeq
<1>3. CASE ReceiveClose
  BY <1>1, <1>2, <1>3 DEF ReceiveClose, ServingEnds, serverVars
<1>4. CASE ReceiveHandshakeAck
  <2>1. Head(rx).id \in Conns
    BY <1>2, <1>4 DEF ReceiveHandshakeAck, Handles, DownFrame, JoinDenied, Kick, CloseFrame
  <2>2. Append(queue, JoinRequest(asked, conn)) \in Seq(UpFrame)
    BY FrameTypes, AppendProperties
  <2> QED BY <1>1, <1>2, <1>4, <2>1, <2>2
          DEF ReceiveHandshakeAck, TakesId, Conns, serverVars
<1>5. CASE ReceiveJoinAck
  <2>1. Head(rx).room \in Rooms /\ Head(rx).players \subseteq Players
    BY <1>2, <1>5 DEF ReceiveJoinAck, Handles, DownFrame, JoinDenied, Kick, CloseFrame
  <2> QED BY <1>1, <1>2, <1>5, <2>1 DEF ReceiveJoinAck, Applied, serverVars
<1>6. CASE ReceivePlayerJoin
  <2>1. Head(rx).player \in Players
    BY <1>2, <1>6 DEF ReceivePlayerJoin, Handles, DownFrame, JoinDenied, Kick, CloseFrame
  <2> QED BY <1>1, <1>2, <1>6, <2>1 DEF ReceivePlayerJoin, Applied, serverVars
<1>7. CASE ReceivePlayerLeave
  BY <1>1, <1>2, <1>7 DEF ReceivePlayerLeave, serverVars
<1>8. CASE ReceiveRefusal
  BY <1>1, <1>2, <1>8 DEF ReceiveRefusal, serverVars
<1> QED BY <1>3, <1>4, <1>5, <1>6, <1>7, <1>8 DEF OnPacket

\* What the server and the network must keep for their part.
LEMMA ServerSideType ==
    ASSUME SessionTypeOK, UNCHANGED <<uiVars, workerVars, conn, link>>,
           up' \in [Conns -> Seq(UpFrame)], down' \in [Conns -> Seq(DownFrame)],
           alive' \subseteq Conns, greeted' \subseteq Conns,
           seat' \in [Conns -> Rooms \cup {NoRoom}], mates' \in [Rooms -> SUBSET Mates]
    PROVE  SessionTypeOK'
<1>1. UNCHANGED <<ui, asked, status, lastError, shown, localId, remotes, entered,
                  running, worker, queue, rx, conn, link>>
  BY DEF uiVars, workerVars
<1> QED BY <1>1 DEF SessionTypeOK

\* A frame handled by the server (index.ts) keeps the types.
LEMMA ServerType ==
    ASSUME SessionTypeOK, NEW k \in Conns, OnMessage(k)
    PROVE  SessionTypeOK'
<1> USE DEF SessionTypeOK
<1>1. /\ up[k] # <<>>
      /\ up' = [up EXCEPT ![k] = Tail(@)]
      /\ UNCHANGED <<uiVars, workerVars, conn, link, alive, mates>>
  BY DEF OnMessage, ServerHandles, OnHandshake, OnJoinGranted, OnJoinDenied, OnGameFrame
<1>2. up' \in [Conns -> Seq(UpFrame)]
  BY <1>1, TailType
<1>3. Seated(seat[k]) \subseteq Conns /\ \A r \in Rooms : Members(r) \subseteq Players
  BY DEF Seated, Members, Players
<1>4. CASE OnHandshake(k)
  <2>1. down' \in [Conns -> Seq(DownFrame)]
    BY <1>4, FrameTypes, TellFacts DEF OnHandshake
  <2>2. greeted' = greeted \cup {k} /\ seat' = seat
    BY <1>4 DEF OnHandshake
  <2> QED BY <1>1, <1>2, <2>1, <2>2, ServerSideType
<1>5. ASSUME NEW r \in Rooms, OnJoinGranted(k, r) PROVE SessionTypeOK'
  <2>1. down' \in [Conns -> Seq(DownFrame)]
    BY <1>3, <1>5, FrameTypes, TellFacts DEF OnJoinGranted, Players
  <2>2. greeted' = greeted /\ seat' = [seat EXCEPT ![k] = r]
    BY <1>5 DEF OnJoinGranted
  <2> QED BY <1>1, <1>2, <2>1, <2>2, ServerSideType
<1>6. CASE OnJoinDenied(k)
  <2>1. down' \in [Conns -> Seq(DownFrame)]
    BY <1>6, FrameTypes, TellFacts DEF OnJoinDenied
  <2>2. UNCHANGED <<greeted, seat>>
    BY <1>6 DEF OnJoinDenied
  <2> QED BY <1>1, <1>2, <2>1, <2>2, ServerSideType
<1>7. CASE OnGameFrame(k)
  <2>1. UNCHANGED <<down, greeted, seat>>
    BY <1>7 DEF OnGameFrame
  <2> QED BY <1>1, <1>2, <2>1, ServerSideType
<1> QED BY <1>4, <1>5, <1>6, <1>7 DEF OnMessage

\* Every step keeps the types.
LEMMA SessionTypeStep ==
    ASSUME SessionTypeOK, WorkerOK, SessionNext
    PROVE  SessionTypeOK'
<1> USE DEF SessionTypeOK
<1>1. <<>> \in Seq(DownFrame) /\ <<>> \in Seq(UpFrame)
  BY EmptySeq
<1>2. ASSUME NEW a \in Ask, HostOrJoin(a) PROVE SessionTypeOK'
  BY <1>1, <1>2 DEF HostOrJoin, Disconnect, serverVars
<1>3. CASE LeaveSession
  BY <1>1, <1>3 DEF LeaveSession, Disconnect, serverVars
<1>4. CASE GameSends
  <2>1. Append(queue, GameFrame(conn)) \in Seq(UpFrame)
    BY FrameTypes, AppendProperties
  <2> QED BY <1>4, <2>1 DEF GameSends, uiVars, netVars, serverVars
<1>5. CASE TcpConnects
  <2>1. Append(queue, Handshake) \in Seq(UpFrame)
    BY FrameTypes, AppendProperties
  <2>2. conn + 1 \in Conns
    BY <1>5, ClientBoundsAssumption DEF TcpConnects, Conns
  <2> QED BY <1>5, <2>1, <2>2 DEF TcpConnects, QueueHandshake, uiVars, Conns
<1>6. CASE ConnectFails
  BY <1>6 DEF ConnectFails, BacksOff, uiVars, netVars, serverVars
<1>7. CASE Worker
  <2>1. CASE StartWorker
    BY <2>1 DEF StartWorker, JoinsWorker, netVars, serverVars
  <2>2. CASE Retry
    BY <2>2 DEF Retry, uiVars, netVars, serverVars
  <2>3. CASE Flush
    <3>1. up' \in [Conns -> Seq(UpFrame)]
      BY <2>3, ConcatProperties DEF Flush
    <3> QED BY <1>1, <2>3, <3>1 DEF Flush, uiVars, serverVars
  <2>4. CASE Recv
    <3>1. PICK n \in 1..Len(down[conn]) :
              /\ rx' = SubSeq(down[conn], 1, n)
              /\ down' = [down EXCEPT ![conn] = SubSeq(@, n + 1, Len(@))]
      BY <2>4 DEF Recv
    <3>2. conn \in Conns
      BY <2>4 DEF Recv, Looping, WorkerOK, Conns
    <3>3. /\ rx' \in Seq(DownFrame)
          /\ SubSeq(down[conn], n + 1, Len(down[conn])) \in Seq(DownFrame)
      BY <3>1, <3>2, RecvFacts
    <3>4. down' \in [Conns -> Seq(DownFrame)]
      BY <3>1, <3>3
    <3> QED BY <2>4, <3>3, <3>4 DEF Recv, uiVars, serverVars
  <2>5. CASE LoopEnds
    BY <2>5 DEF LoopEnds, ServingEnds, uiVars, serverVars
  <2> QED BY <1>7, <2>1, <2>2, <2>3, <2>4, <2>5, ReceiveType DEF Worker
<1>8. CASE ConnectionLost
  BY <1>1, <1>8 DEF ConnectionLost, uiVars, workerVars, serverVars
<1>9. ASSUME NEW k \in Conns, OnClose(k) PROVE SessionTypeOK'
  <2>1. k \in Players
    BY DEF Players
  <2>2. down' \in [Conns -> Seq(DownFrame)]
    BY <1>9, <2>1, FrameTypes, TellFacts DEF OnClose
  <2>3. /\ alive' = alive \ {k} /\ seat' = [seat EXCEPT ![k] = NoRoom]
        /\ up' = [up EXCEPT ![k] = <<>>]
        /\ UNCHANGED <<uiVars, workerVars, conn, link, greeted, mates>>
    BY <1>9 DEF OnClose
  <2> QED BY <1>1, <2>2, <2>3, ServerSideType
<1>10. ASSUME NEW r \in Rooms, NEW x \in Players, OnKick(r, x) PROVE SessionTypeOK'
  <2>1. Tell(down, Seated(r), Kick) \in [Conns -> Seq(DownFrame)]
    BY FrameTypes, TellFacts
  <2>2. Tell(Tell(down, Seated(r), Kick), Seated(r) \ {x}, PlayerLeave(x))
            \in [Conns -> Seq(DownFrame)]
    BY <2>1, FrameTypes, TellFacts
  <2>3. down' \in [Conns -> Seq(DownFrame)]
    BY <1>10, <2>2, FrameTypes, TellFacts DEF OnKick
  <2>4. /\ seat' = [k \in Conns |-> IF k = x THEN NoRoom ELSE seat[k]]
        /\ mates' = [mates EXCEPT ![r] = @ \ {x}]
        /\ alive' = alive \ {x}
        /\ up' = [k \in Conns |-> IF k = x THEN <<>> ELSE up[k]]
        /\ UNCHANGED <<uiVars, workerVars, conn, link, greeted>>
    BY <1>10 DEF OnKick
  <2>5. seat' \in [Conns -> Rooms \cup {NoRoom}]
    BY <2>4
  <2>6. up' \in [Conns -> Seq(UpFrame)]
    BY <1>1, <2>4
  <2>7. mates' \in [Rooms -> SUBSET Mates] /\ alive' \subseteq Conns
    BY <2>4
  <2> QED BY <2>3, <2>4, <2>5, <2>6, <2>7, ServerSideType
<1>11. ASSUME NEW r \in Rooms, NEW x \in Mates, MateMoves(r, x) PROVE SessionTypeOK'
  <2>1. x \in Players
    BY DEF Players
  <2>2. PICK m \in DownFrame : down' = Tell(down, Seated(r), m)
    BY <1>11, <2>1, FrameTypes DEF MateMoves
  <2>3. down' \in [Conns -> Seq(DownFrame)]
    BY <2>2, TellFacts
  <2>4. \/ mates' = [mates EXCEPT ![r] = @ \ {x}]
        \/ mates' = [mates EXCEPT ![r] = @ \cup {x}]
    BY <1>11 DEF MateMoves
  <2>5. mates[r] \ {x} \in SUBSET Mates /\ mates[r] \cup {x} \in SUBSET Mates
    OBVIOUS
  <2>6. mates' \in [Rooms -> SUBSET Mates]
    BY <2>4, <2>5
  <2>7. UNCHANGED <<uiVars, workerVars, conn, link, up, alive, greeted, seat>>
    BY <1>11 DEF MateMoves
  <2> QED BY <2>3, <2>6, <2>7, ServerSideType
<1> QED BY <1>2, <1>3, <1>4, <1>5, <1>6, <1>7, <1>8, <1>9, <1>10, <1>11, ServerType
        DEF SessionNext

\* The lines are sequences of frames.
LEMMA LineTypes ==
    ASSUME SessionTypeOK, WorkerOK
    PROVE  /\ \A k \in Conns : Sent(k) \in Seq(UpFrame)
           /\ worker = "serving" =>
                 /\ conn \in Conns
                 /\ rx \in Seq(DownFrame) /\ down[conn] \in Seq(DownFrame)
                 /\ Coming \in Seq(DownFrame)
                 /\ up[conn] \in Seq(UpFrame) /\ Sent(conn) = up[conn] \o queue
<1>1. ASSUME NEW k \in Conns PROVE Sent(k) \in Seq(UpFrame)
  BY ConcatProperties DEF Sent, SessionTypeOK
<1>2. ASSUME worker = "serving" PROVE conn \in Conns
  BY <1>2 DEF WorkerOK, Conns, SessionTypeOK
<1>3. ASSUME worker = "serving" PROVE Coming \in Seq(DownFrame)
  BY <1>2, <1>3, ConcatProperties DEF Coming, SessionTypeOK
<1> QED BY <1>1, <1>2, <1>3 DEF Sent, SessionTypeOK

-------------------------------------------------------------------------------
(***************************************************************************)
(* The steps, the client's first.                                          *)
(***************************************************************************)

\* The invariant holds of a process that has just been started.
LEMMA SessionInitInv ==
    ASSUME SessionInit
    PROVE  ClientInv
<1> USE DEF SessionInit
<1>1. SessionTypeOK
  <2>1. <<>> \in Seq(UpFrame) /\ <<>> \in Seq(DownFrame)
    BY EmptySeq
  <2>2. queue \in Seq(UpFrame) /\ rx \in Seq(DownFrame)
    BY <2>1
  <2>3. up \in [Conns -> Seq(UpFrame)] /\ down \in [Conns -> Seq(DownFrame)]
    BY <2>1
  <2>4. /\ localId \in 0..MaxConns /\ conn \in 0..MaxConns
        /\ asked \in Ask
    BY ClientBoundsAssumption DEF Ask
  <2>5. mates \in [Rooms -> SUBSET Mates] /\ seat \in [Conns -> Rooms \cup {NoRoom}]
    OBVIOUS
  <2> QED BY <2>2, <2>3, <2>4, <2>5 DEF SessionTypeOK
<1>2. DOMAIN <<>> = {}
  BY EmptyDomain
<1>3. QueueOK
  BY <1>2 DEF QueueOK
<1>4. \A k \in Conns : Sent(k) = <<>>
  BY DEF Sent
<1>5. StaleOK
  BY <1>2, <1>4 DEF StaleOK, Stale
<1> QED BY <1>1, <1>3, <1>5 DEF ClientInv, WorkerOK, Unopened, DialogueOK, SeatOK, MembersOK

\* HostSession, JoinSession and LeaveSession close the socket, or the network
\* does: what was not received is gone.
LEMMA ClosedInv ==
    ASSUME ClientInv, SessionTypeOK',
           (\E a \in Ask : HostOrJoin(a)) \/ LeaveSession \/ ConnectionLost
    PROVE  ClientInv'
<1>1. /\ UNCHANGED <<worker, queue, rx, conn, up, alive, greeted, seat>>
      /\ link' # "open"
      /\ \A k \in Conns : down'[k] = IF k = conn THEN <<>> ELSE down[k]
      /\ Ready => Ready'
  <2>1. CASE (\E a \in Ask : HostOrJoin(a)) \/ LeaveSession
    BY <2>1 DEF HostOrJoin, LeaveSession, Disconnect, LastWorker, Ready, serverVars
  <2>2. CASE ConnectionLost
    BY <2>2 DEF ConnectionLost, LastWorker, Ready, uiVars, workerVars, serverVars,
                ClientInv, SessionTypeOK
  <2> QED BY <2>1, <2>2
<1>2. WorkerOK'
  <2> USE DEF WorkerOK, ClientInv
  <2>1. worker = "serving" => conn \in Conns
    BY LineTypes
  <2>2. CASE \E a \in Ask : HostOrJoin(a)
    BY <2>1, <2>2, <1>1 DEF HostOrJoin, Disconnect
  <2>3. CASE LeaveSession
    BY <2>1, <2>3, <1>1 DEF LeaveSession
  <2>4. CASE ConnectionLost
    BY <2>1, <2>4, <1>1 DEF ConnectionLost, uiVars, workerVars
  <2> QED BY <2>2, <2>3, <2>4
<1>3. Unopened'
  BY <1>1 DEF Unopened, ClientInv
<1>4. Sent(conn)' = Sent(conn) /\ \A k \in Conns : Sent(k)' = Sent(k)
  BY <1>1 DEF Sent
<1>5. StaleOK'
  BY <1>1, <1>4 DEF StaleOK, ClientInv
<1>6. ASSUME worker = "serving"
      PROVE  Coming' = rx /\ Part(rx, Coming) /\ (Coming = <<>> => rx = <<>>)
  <2>1. conn \in Conns /\ rx \in Seq(DownFrame) /\ down[conn] \in Seq(DownFrame)
    BY <1>6, LineTypes DEF ClientInv
  <2>2. Coming' = rx \o <<>>
    BY <1>1, <2>1 DEF Coming
  <2> QED BY <2>1, <2>2, PartFacts, ConcatEmptySeq, ConcatEqualIffEmpty DEF Coming
<1>7. QueueOK'
  BY <1>1, <1>6 DEF QueueOK, ClientInv
<1>8. DialogueOK'
  <2> SUFFICES ASSUME worker = "serving"
               PROVE  Dialogue(conn, conn \in greeted, seat[conn], Ready', Sent(conn), rx)
    BY <1>1, <1>4, <1>6 DEF DialogueOK
  <2>1. Dialogue(conn, conn \in greeted, seat[conn], Ready, Sent(conn), Coming)
    BY DEF ClientInv, DialogueOK
  <2>2. /\ conn \in Conns /\ rx \in Seq(DownFrame) /\ Coming \in Seq(DownFrame)
        /\ Sent(conn) \in Seq(UpFrame)
    BY LineTypes DEF ClientInv
  <2>3. Dialogue(conn, conn \in greeted, seat[conn], Ready, Sent(conn), rx)
    BY <1>6, <2>1, <2>2, PartFacts, PartIsDialogue
  <2> QED BY <1>1, <2>3 DEF Dialogue
<1>9. SeatOK' /\ MembersOK'
  BY <1>1 DEF SeatOK, MembersOK
<1> QED BY <1>2, <1>3, <1>5, <1>7, <1>8, <1>9 DEF ClientInv

\* A worker that has no connection begins, fails, waits or ends.
LEMMA UnconnectedInv ==
    ASSUME ClientInv, StartWorker \/ ConnectFails \/ Retry, SessionTypeOK'
    PROVE  ClientInv'
<1>1. /\ worker # "serving" /\ worker' # "serving"
      /\ UNCHANGED <<queue, rx, netVars, serverVars>>
  BY DEF StartWorker, JoinsWorker, ConnectFails, BacksOff, Retry
<1>2. WorkerOK'
  <2>1. CASE StartWorker
    BY <2>1 DEF StartWorker, WorkerOK, ClientInv, JoinsWorker, netVars
  <2>2. CASE ConnectFails
    BY <2>2 DEF ConnectFails, BacksOff, WorkerOK, ClientInv, netVars, uiVars
  <2>3. CASE Retry
    BY <2>3 DEF Retry, WorkerOK, ClientInv, netVars, uiVars
  <2> QED BY <2>1, <2>2, <2>3
<1>3. \A k \in Conns : Sent(k)' = Sent(k)
  BY <1>1 DEF Sent, netVars
<1>4. StaleOK'
  BY <1>1, <1>3 DEF StaleOK, ClientInv, serverVars
<1>5. Unopened' /\ QueueOK' /\ DialogueOK'
  BY <1>1 DEF Unopened, QueueOK, DialogueOK, ClientInv, netVars, serverVars
<1>6. SeatOK' /\ MembersOK'
  BY <1>1 DEF SeatOK, MembersOK, ClientInv, SessionTypeOK, netVars
<1> QED BY <1>2, <1>4, <1>5, <1>6 DEF ClientInv

\* The game queues a frame of its own.
LEMMA GameSendsInv ==
    ASSUME ClientInv, GameSends, SessionTypeOK'
    PROVE  ClientInv'
<1>1. /\ queue' = Append(queue, GameFrame(conn))
      /\ UNCHANGED <<uiVars, running, worker, rx, netVars, serverVars>>
  BY DEF GameSends
<1>2. /\ GameFrame(conn) \in UpFrame /\ IsGame(GameFrame(conn)) /\ GameFrame(conn).on = conn
      /\ queue \in Seq(UpFrame)
  BY FrameTypes DEF ClientInv, SessionTypeOK, IsGame, GameFrame
<1>3. WorkerOK' /\ Unopened'
  BY <1>1 DEF ClientInv, WorkerOK, Unopened, uiVars, netVars, serverVars
<1>4. \A k \in Conns : k # conn \/ worker # "serving" => Sent(k)' = Sent(k)
  BY <1>1 DEF Sent, netVars
<1>5. worker = "serving" => Sent(conn)' = Append(Sent(conn), GameFrame(conn))
  <2> SUFFICES ASSUME worker = "serving"
               PROVE  up[conn] \o Append(queue, GameFrame(conn))
                          = Append(up[conn] \o queue, GameFrame(conn))
    BY <1>1 DEF Sent, netVars
  <2>1. up[conn] \in Seq(UpFrame)
    BY LineTypes DEF ClientInv
  <2> QED BY <2>1, <1>2, FramesJoin
<1>6. Coming' = Coming
  BY <1>1 DEF Coming, netVars
<1>7. QueueOK'
  <2>1. /\ DOMAIN queue' = DOMAIN queue \cup {Len(queue) + 1}
        /\ \A i \in DOMAIN queue : queue'[i] = queue[i] /\ i < Len(queue) + 1
        /\ queue'[Len(queue) + 1] = GameFrame(conn)
    BY <1>1, <1>2, AppendFacts
  <2>2. ~IsRequest(GameFrame(conn)) /\ ~IsHandshake(GameFrame(conn))
    BY DEF IsRequest, IsHandshake, GameFrame
  <2> HIDE DEF GameFrame
  <2> QED BY <1>1, <1>6, <2>1, <2>2 DEF QueueOK, ClientInv, netVars, serverVars
<1>8. StaleOK'
  <2> SUFFICES ASSUME NEW k \in Conns
               PROVE  Stale(k, k \in greeted, seat[k], Sent(k)')
    BY <1>1 DEF StaleOK, serverVars
  <2>1. Stale(k, k \in greeted, seat[k], Sent(k)) /\ Sent(k) \in Seq(UpFrame)
    BY LineTypes DEF ClientInv, StaleOK
  <2>2. CASE k = conn /\ worker = "serving"
    <3>1. Sent(k)' = Append(Sent(k), GameFrame(conn))
      BY <2>2, <1>1, <1>5 DEF Sent, netVars
    <3> QED BY <2>1, <2>2, <1>2, <3>1, QueuedStale
  <2>3. CASE ~(k = conn /\ worker = "serving")
    BY <2>1, <2>3, <1>4
  <2> QED BY <2>2, <2>3
<1>9. DialogueOK'
  <2> SUFFICES ASSUME worker = "serving"
               PROVE  Dialogue(conn, conn \in greeted, seat[conn], Ready,
                               Append(Sent(conn), GameFrame(conn)), Coming)
    BY <1>1, <1>5, <1>6 DEF DialogueOK, Ready, LastWorker, uiVars, netVars, serverVars
  <2>1. Dialogue(conn, conn \in greeted, seat[conn], Ready, Sent(conn), Coming)
    BY DEF ClientInv, DialogueOK
  <2> QED BY <2>1, <1>2, LineTypes, GameDialogue DEF ClientInv
<1>10. SeatOK'
  <2> SUFFICES ASSUME link = "open"
               PROVE  SeatLine(Sent(conn), Coming)'
    BY <1>1 DEF SeatOK, ClientInv, LastWorker, uiVars, netVars
  <2>1. worker = "serving" /\ SeatLine(Sent(conn), Coming) /\ Sent(conn) \in Seq(UpFrame)
    BY LineTypes DEF ClientInv, SessionTypeOK, SeatOK
  <2> DEFINE n == Len(Sent(conn)) + 1
             s == Sent(conn)
  <2>2. PICK e : e = Append(s, GameFrame(conn))
    OBVIOUS
  <2>3. /\ DOMAIN e = DOMAIN s \cup {n} /\ e[n] = GameFrame(conn)
        /\ \A i \in DOMAIN s : e[i] = s[i]
    BY <2>1, <2>2, <1>2, AppendFacts
  <2>4. ~IsRequest(GameFrame(conn))
    BY DEF IsRequest, GameFrame
  <2> HIDE DEF GameFrame
  <2>5. Pending(conn, e) = Pending(conn, s)
    BY <2>3, <2>4 DEF Pending
  <2>6. Sent(conn)' = e
    BY <1>5, <2>1, <2>2
  <2>7. SeatLine(e, Coming)
    BY <2>1, <2>3, <2>5 DEF SeatLine, Pending
  <2> QED BY <1>1, <1>6, <2>6, <2>7
          DEF SeatLine, InRoom, LastWorker, uiVars, netVars, serverVars
<1>11. MembersOK'
  BY <1>1, <1>6 DEF MembersOK, ClientInv, Members, Seated, uiVars, netVars, serverVars
<1> QED BY <1>3, <1>7, <1>8, <1>9, <1>10, <1>11 DEF ClientInv

\* A new connection is opened: nothing has been sent on it, and what is queued
\* is of earlier ones but for the HANDSHAKE.
LEMMA TcpConnectsInv ==
    ASSUME ClientInv, TcpConnects, SessionTypeOK'
    PROVE  ClientInv'
<1>1. PICK k : k = conn + 1
  OBVIOUS
<1>2. /\ k \in Conns /\ k > conn /\ conn' = k
      /\ worker # "serving" /\ worker' = "serving" /\ link' = "open"
      /\ queue' = Append(queue, Handshake)
      /\ alive' = alive \cup {k}
      /\ UNCHANGED <<uiVars, running, rx, up, down, greeted, seat>>
  BY <1>1, ClientBoundsAssumption
     DEF TcpConnects, QueueHandshake, Conns, ClientInv, SessionTypeOK
<1>3. /\ up[k] = <<>> /\ down[k] = <<>> /\ k \notin greeted /\ seat[k] = NoRoom
      /\ rx = <<>>
  BY <1>2 DEF ClientInv, Unopened, WorkerOK
<1>4. queue \in Seq(UpFrame) /\ queue' \in Seq(UpFrame) /\ Handshake \in UpFrame
  BY FrameTypes DEF ClientInv, SessionTypeOK
<1>5. /\ DOMAIN queue' = DOMAIN queue \cup {Len(queue) + 1}
      /\ \A i \in DOMAIN queue : queue'[i] = queue[i] /\ i < Len(queue) + 1 /\ ~(Len(queue) + 1 < i)
      /\ ~(Len(queue) + 1 < Len(queue) + 1)
      /\ queue'[Len(queue) + 1] = Handshake
  BY <1>2, <1>4, AppendFacts
<1>6. IsHandshake(Handshake) /\ ~IsRequest(Handshake)
  BY DEF IsHandshake, IsRequest, Handshake
<1>7. \A i \in DOMAIN queue : IsRequest(queue[i]) => queue[i].on <= conn /\ queue[i].on # k
  <2>1. conn \in Nat
    BY DEF ClientInv, SessionTypeOK
  <2> QED BY <1>1, <2>1 DEF ClientInv, QueueOK
<1>8. Sent(k)' = queue' /\ Coming' = <<>>
  BY <1>2, <1>3, <1>4, ConcatEmptySeq, EmptySeq DEF Sent, Coming
<1>9. WorkerOK'
  BY <1>2 DEF WorkerOK, Conns, ClientInv, uiVars
<1>10. Unopened'
  <2>1. \A j \in Conns : j > k => j > conn /\ j # k
    BY <1>1 DEF Conns, ClientInv, SessionTypeOK
  <2> QED BY <1>2, <2>1 DEF Unopened, ClientInv
<1>11. QueueOK'
  <2>1. ASSUME NEW i \in DOMAIN queue', IsRequest(queue'[i]) PROVE queue'[i].on <= k
    <3>1. i \in DOMAIN queue /\ queue[i].on <= conn /\ queue[i] = queue'[i]
      BY <2>1, <1>5, <1>6, <1>7
    <3>2. queue[i] \in UpFrame
      BY <3>1, <1>4, ElementOfSeq, LenProperties
    <3>3. queue[i].on \in Nat
      BY <3>1, <3>2, <2>1 DEF UpFrame, IsRequest, Handshake
    <3> QED BY <3>1, <3>3, <1>1 DEF ClientInv, SessionTypeOK
  <2>2. ASSUME NEW i \in DOMAIN queue', NEW j \in DOMAIN queue', i < j, IsHandshake(queue'[i])
        PROVE  ~IsRequest(queue'[j])
    BY <2>2, <1>5, <1>6 DEF ClientInv, QueueOK
  <2>3. up'[k] = <<>> /\ Coming' = <<>> /\ k \notin greeted'
    BY <1>2, <1>3, <1>8
  <2> QED BY <1>2, <2>1, <2>2, <2>3 DEF QueueOK
<1>12. Stale(k, FALSE, NoRoom, queue') /\ Pending(k, queue') = {}
  <2>1. \A i, j \in DOMAIN queue : i < j /\ IsHandshake(queue[i]) => ~IsRequest(queue[j])
    BY DEF ClientInv, QueueOK
  <2> QED BY <2>1, <1>2, <1>4, <1>6, <1>7, NewStale
<1>13. StaleOK'
  <2> SUFFICES ASSUME NEW j \in Conns
               PROVE  Stale(j, j \in greeted, seat[j], Sent(j)')
    BY <1>2 DEF StaleOK
  <2>1. CASE j = k
    <3>1. Sent(j)' = queue'
      BY <2>1, <1>8
    <3> QED BY <2>1, <3>1, <1>3, <1>12 DEF Stale
  <2>2. CASE j # k
    <3>1. Sent(j)' = Sent(j)
      BY <2>2, <1>2 DEF Sent
    <3> QED BY <3>1 DEF ClientInv, StaleOK
  <2> QED BY <2>1, <2>2
<1>14. DOMAIN <<>> = {}
  BY EmptyDomain
<1>15. Sent(conn)' = queue' /\ seat'[conn'] = NoRoom /\ conn' \notin greeted' /\ conn' = k
  BY <1>2, <1>3, <1>4, ConcatEmptySeq DEF Sent
<1>16. DialogueOK'
  <2>1. Dialogue(k, FALSE, NoRoom, Ready', queue', <<>>)
    BY <1>12, <1>14 DEF Dialogue
  <2> QED BY <2>1, <1>8, <1>15 DEF DialogueOK, Dialogue
<1>17. SeatOK'
  <2>1. \E i \in DOMAIN queue' : IsHandshake(queue'[i])
    BY <1>5, <1>6
  <2> QED BY <2>1, <1>2, <1>3, <1>8, <1>12, <1>14, <1>15 DEF SeatOK, SeatLine
<1>18. MembersOK'
  BY <1>15 DEF MembersOK
<1> QED BY <1>9, <1>10, <1>11, <1>13, <1>16, <1>17, <1>18 DEF ClientInv

\* FlushSendQueue moves what is queued, all of it.
LEMMA FlushInv ==
    ASSUME ClientInv, Flush, SessionTypeOK'
    PROVE  ClientInv'
<1>1. /\ worker = "serving" /\ running /\ rx = <<>>
      /\ queue' = <<>>
      /\ up' = IF link = "open" THEN [up EXCEPT ![conn] = @ \o queue] ELSE up
      /\ UNCHANGED <<uiVars, running, worker, rx, conn, link, down, serverVars>>
  BY DEF Flush, Looping
<1>2. /\ conn \in Conns /\ up[conn] \in Seq(UpFrame) /\ queue \in Seq(UpFrame)
      /\ Sent(conn) = up[conn] \o queue /\ Sent(conn) \in Seq(UpFrame)
      /\ Coming \in Seq(DownFrame)
  BY <1>1, LineTypes DEF ClientInv, SessionTypeOK
<1>3. Coming' = Coming
  BY <1>1 DEF Coming
<1>4. Sent(conn)' = IF link = "open" THEN Sent(conn) ELSE up[conn]
  <2>1. Sent(conn)' = up'[conn] \o <<>>
    BY <1>1 DEF Sent
  <2>2. up'[conn] = IF link = "open" THEN Sent(conn) ELSE up[conn]
    BY <1>1, <1>2 DEF ClientInv, SessionTypeOK
  <2> QED BY <2>1, <2>2, <1>2, ConcatEmptySeq
<1>5. Part(Sent(conn)', Sent(conn)) /\ Sent(conn)' \in Seq(UpFrame)
  BY <1>2, <1>4, PartFacts
<1>6. WorkerOK'
  BY <1>1 DEF ClientInv, WorkerOK, uiVars
<1>7. Unopened'
  BY <1>1 DEF ClientInv, Unopened, SessionTypeOK, Conns, serverVars
<1>8. QueueOK'
  BY <1>1, EmptyDomain DEF QueueOK
<1>9. StaleOK'
  <2> SUFFICES ASSUME NEW k \in Conns
               PROVE  Stale(k, k \in greeted, seat[k], Sent(k)')
    BY <1>1 DEF StaleOK, serverVars
  <2>1. Stale(k, k \in greeted, seat[k], Sent(k))
    BY DEF ClientInv, StaleOK
  <2>2. CASE k = conn
    <3>1. Sent(k)' = Sent(conn)'
      BY <2>2, <1>1 DEF Sent
    <3> QED BY <2>1, <2>2, <3>1, <1>2, <1>5, PartIsStale
  <2>3. CASE k # conn
    <3>1. Sent(k)' = Sent(k)
      BY <2>3, <1>1, <1>2 DEF Sent, ClientInv, SessionTypeOK
    <3> QED BY <2>1, <3>1
  <2> QED BY <2>2, <2>3
<1>10. DialogueOK'
  <2>1. Dialogue(conn, conn \in greeted, seat[conn], Ready, Sent(conn), Coming)
    BY <1>1 DEF ClientInv, DialogueOK
  <2>2. Dialogue(conn, conn \in greeted, seat[conn], Ready, Sent(conn)', Coming)
    BY <2>1, <1>2, <1>5, PartFacts, PartIsDialogue
  <2> QED BY <2>2, <1>1, <1>3 DEF DialogueOK, Ready, LastWorker, uiVars, serverVars
<1>11. SeatOK'
  <2> SUFFICES ASSUME link = "open" PROVE SeatLine(Sent(conn), Coming)'
    BY <1>1 DEF SeatOK, ClientInv, WorkerOK, LastWorker, uiVars
  <2>1. SeatLine(Sent(conn), Coming)
    BY DEF ClientInv, SeatOK
  <2> QED BY <2>1, <1>1, <1>3, <1>4 DEF SeatLine, InRoom, LastWorker, uiVars, serverVars
<1>12. MembersOK'
  BY <1>1, <1>3 DEF MembersOK, ClientInv, Members, Seated, uiVars, serverVars
<1> QED BY <1>6, <1>7, <1>8, <1>9, <1>10, <1>11, <1>12 DEF ClientInv

\* One recv takes what it takes.
LEMMA RecvInv ==
    ASSUME ClientInv, Recv, SessionTypeOK'
    PROVE  ClientInv'
<1>1. /\ worker = "serving" /\ rx = <<>> /\ link = "open"
      /\ UNCHANGED <<uiVars, running, worker, queue, conn, link, up, serverVars>>
  BY DEF Recv, Looping
<1>2. conn \in Conns /\ down[conn] \in Seq(DownFrame)
  BY <1>1, LineTypes DEF ClientInv
<1>3. PICK n \in 1..Len(down[conn]) :
          /\ rx' = SubSeq(down[conn], 1, n)
          /\ down' = [down EXCEPT ![conn] = SubSeq(@, n + 1, Len(@))]
  BY DEF Recv
<1>4. Coming' = Coming
  <2>1. Coming = down[conn]
    BY <1>1, <1>2, ConcatEmptySeq DEF Coming
  <2>2. down'[conn] = SubSeq(down[conn], n + 1, Len(down[conn]))
    BY <1>2, <1>3 DEF ClientInv, SessionTypeOK
  <2>3. rx' \o down'[conn] = down[conn]
    BY <2>2, <1>2, <1>3, RecvFacts
  <2> QED BY <2>1, <2>3, <1>1 DEF Coming
<1>5. Sent(conn)' = Sent(conn) /\ \A k \in Conns : Sent(k)' = Sent(k)
  BY <1>1 DEF Sent
<1>6. WorkerOK'
  BY <1>1 DEF ClientInv, WorkerOK, uiVars
<1>7. Unopened'
  <2>1. \A k \in Conns : k > conn => down'[k] = down[k]
    BY <1>3 DEF ClientInv, SessionTypeOK, Conns
  <2> QED BY <2>1, <1>1 DEF ClientInv, Unopened, serverVars
<1>8. QueueOK'
  BY <1>1, <1>4 DEF ClientInv, QueueOK, serverVars
<1>9. StaleOK'
  BY <1>1, <1>5 DEF ClientInv, StaleOK, serverVars
<1>10. DialogueOK'
  BY <1>1, <1>4, <1>5 DEF ClientInv, DialogueOK, Ready, LastWorker, uiVars, serverVars
<1>11. SeatOK'
  <2>1. SeatLine(Sent(conn), Coming)
    BY <1>1 DEF ClientInv, SeatOK
  <2> QED BY <2>1, <1>1, <1>4, <1>5 DEF ClientInv, SeatOK, SeatLine, InRoom, LastWorker, uiVars, serverVars
<1>12. MembersOK'
  BY <1>1, <1>4 DEF MembersOK, ClientInv, Members, Seated, uiVars, serverVars
<1> QED BY <1>6, <1>7, <1>8, <1>9, <1>10, <1>11, <1>12 DEF ClientInv

\* The socket is closed by the worker.
LEMMA ServingEndsInv ==
    ASSUME ClientInv, LoopEnds \/ ReceiveClose, SessionTypeOK'
    PROVE  ClientInv'
<1>1. /\ worker = "serving" /\ worker' # "serving" /\ link' = "none"
      /\ rx' = <<>>
      /\ conn > 0
      /\ UNCHANGED <<ui, asked, status, lastError, shown, localId, remotes, entered,
                     running, queue, conn, up, down, serverVars>>
  BY DEF LoopEnds, ReceiveClose, ServingEnds, Handles, ClientInv, WorkerOK, uiVars
<1>2. WorkerOK' /\ Unopened' /\ DialogueOK' /\ SeatOK' /\ MembersOK'
  BY <1>1 DEF ClientInv, WorkerOK, Unopened, DialogueOK, SeatOK, MembersOK,
              SessionTypeOK, serverVars
<1>3. QueueOK'
  BY <1>1 DEF ClientInv, QueueOK
<1>4. StaleOK'
  <2> SUFFICES ASSUME NEW k \in Conns
               PROVE  Stale(k, k \in greeted, seat[k], Sent(k)')
    BY <1>1 DEF StaleOK, serverVars
  <2>1. Stale(k, k \in greeted, seat[k], Sent(k))
    BY DEF ClientInv, StaleOK
  <2>2. Sent(k)' = up[k]
    BY <1>1 DEF Sent
  <2>3. /\ up[k] \in Seq(UpFrame) /\ queue \in Seq(UpFrame)
        /\ Sent(k) \in Seq(UpFrame)
    BY LineTypes DEF ClientInv, SessionTypeOK
  <2>4. Part(up[k], Sent(k))
    BY <2>3, PartFacts DEF Sent
  <2> QED BY <2>1, <2>2, <2>3, <2>4, PartIsStale
<1> QED BY <1>2, <1>3, <1>4 DEF ClientInv

\* A frame is handled.
LEMMA ReceiveFacts ==
    ASSUME ClientInv, rx # <<>>, rx' = Tail(rx), UNCHANGED <<conn, down>>
    PROVE  /\ worker = "serving" /\ conn \in Conns
           /\ Coming \in Seq(DownFrame) /\ Coming # <<>> /\ 1 \in DOMAIN Coming
           /\ Coming[1] = Head(rx) /\ Coming[1] \in DownFrame
           /\ Coming' = Tail(Coming)
<1>1. worker = "serving"
  BY DEF ClientInv, WorkerOK
<1>2. /\ conn \in Conns /\ Coming \in Seq(DownFrame)
      /\ rx \in Seq(DownFrame) /\ down[conn] \in Seq(DownFrame)
  BY <1>1, LineTypes DEF ClientInv
<1>3. /\ Coming # <<>> /\ Head(rx) = Coming[1]
      /\ Tail(rx) \o down[conn] = Tail(Coming)
  BY <1>2, ConcatFacts DEF Coming
<1>4. Coming' = Tail(Coming)
  BY <1>3 DEF Coming
<1>5. 1 \in DOMAIN Coming /\ Head(rx) \in DownFrame
  BY <1>2, <1>3, TailFacts, TailType
<1> QED BY <1>1, <1>2, <1>3, <1>4, <1>5

\* HANDSHAKE_ACK: the client takes its id and asks for the room.
LEMMA ReceiveHandshakeAckInv ==
    ASSUME ClientInv, ReceiveHandshakeAck, SessionTypeOK'
    PROVE  ClientInv'
<1>1. PICK m : m = JoinRequest(asked, conn)
  OBVIOUS
<1>2. /\ rx # <<>> /\ IsAck(Head(rx))
      /\ UNCHANGED <<ui, asked, running, conn, up, down, serverVars>>
      /\ rx' = Tail(rx)
      /\ localId' = Head(rx).id
      /\ status' = "connected"
      /\ queue' = Append(queue, m)
      /\ UNCHANGED <<lastError, shown, remotes, entered, worker, link>>
  BY <1>1 DEF ReceiveHandshakeAck, Handles, TakesId, IsAck
<1>3. /\ worker = "serving" /\ conn \in Conns
      /\ Coming \in Seq(DownFrame) /\ Coming # <<>> /\ 1 \in DOMAIN Coming
      /\ Coming[1] = Head(rx)
      /\ Coming' = Tail(Coming)
  BY <1>2, ReceiveFacts
<1>4. /\ m \in UpFrame /\ IsRequest(m) /\ m.on = conn /\ m.ask = asked
      /\ queue \in Seq(UpFrame)
  BY <1>1, FrameTypes DEF ClientInv, SessionTypeOK, IsRequest, JoinRequest
<1>5. ~IsHandshake(m)
  BY <1>4 DEF IsHandshake, IsRequest
<1>6. /\ up[conn] \in Seq(UpFrame) /\ Sent(conn) \in Seq(UpFrame)
      /\ Sent(conn) = up[conn] \o queue
  BY <1>3, LineTypes DEF ClientInv
<1>7. Sent(conn)' = Append(Sent(conn), m)
  <2>1. Sent(conn)' = up[conn] \o Append(queue, m)
    BY <1>2, <1>3 DEF Sent
  <2>2. up[conn] \o Append(queue, m) = Append(up[conn] \o queue, m)
    BY <1>4, <1>6, FramesJoin
  <2> QED BY <2>1, <2>2, <1>6
<1>8. /\ Dialogue(conn, conn \in greeted, seat[conn], Ready, Sent(conn), Coming)
      /\ Stale(conn, conn \in greeted, seat[conn], Sent(conn))
  BY <1>3 DEF ClientInv, DialogueOK, StaleOK
<1>9. conn \in greeted /\ seat[conn] = NoRoom /\ Pending(conn, Sent(conn)) = {}
  BY <1>2, <1>3, <1>8 DEF Dialogue
<1>10. /\ Dialogue(conn, conn \in greeted, seat[conn], TRUE, Sent(conn)', Coming')
       /\ Coming' = <<>>
  BY <1>2, <1>3, <1>4, <1>6, <1>7, <1>8, AskingDialogue
<1>11. WorkerOK' /\ Unopened'
  BY <1>2, <1>3 DEF ClientInv, WorkerOK, Unopened, Conns, SessionTypeOK, serverVars
<1>12. QueueOK'
  <2>1. \A i \in DOMAIN queue : ~IsHandshake(queue[i])
    BY <1>3 DEF ClientInv, QueueOK
  <2>2. /\ DOMAIN queue' = DOMAIN queue \cup {Len(queue) + 1}
        /\ \A i \in DOMAIN queue : queue'[i] = queue[i]
        /\ queue'[Len(queue) + 1] = m
    BY <1>2, <1>4, AppendFacts
  <2>3. \A i \in DOMAIN queue' : ~IsHandshake(queue'[i])
    BY <2>1, <2>2, <1>5
  <2>4. conn <= conn
    BY DEF ClientInv, SessionTypeOK
  <2>5. \A i \in DOMAIN queue' : IsRequest(queue'[i]) => queue'[i].on <= conn
    BY <2>2, <2>4, <1>4 DEF ClientInv, QueueOK
  <2> QED BY <2>3, <2>5, <1>2 DEF QueueOK
<1>13. StaleOK'
  <2> SUFFICES ASSUME NEW k \in Conns
               PROVE  Stale(k, k \in greeted, seat[k], Sent(k)')
    BY <1>2 DEF StaleOK, serverVars
  <2>1. CASE k = conn
    <3>1. Stale(conn, conn \in greeted, seat[conn], Append(Sent(conn), m))
      BY <1>4, <1>6, <1>8, QueuedStale
    <3>2. Sent(k)' = Append(Sent(conn), m)
      BY <2>1, <1>2, <1>7 DEF Sent
    <3> QED BY <2>1, <3>1, <3>2
  <2>2. CASE k # conn
    <3>1. Sent(k)' = Sent(k)
      BY <2>2, <1>2 DEF Sent
    <3> QED BY <3>1 DEF ClientInv, StaleOK
  <2> QED BY <2>1, <2>2
<1>14. DialogueOK'
  BY <1>2, <1>10 DEF DialogueOK, Ready, serverVars, Dialogue
<1>15. SeatOK'
  <2> SUFFICES ASSUME link = "open" PROVE SeatLine(Sent(conn), Coming)'
    BY <1>2 DEF SeatOK, ClientInv, LastWorker
  <2>1. SeatLine(Sent(conn), Coming)
    BY DEF ClientInv, SeatOK
  <2>2. LastWorker' /\ localId' = conn
    BY <2>1, <1>2, <1>3, <1>9 DEF SeatLine, LastWorker
  <2>3. DOMAIN Coming' = {}
    BY <1>10, EmptyDomain
  <2>4. \A i \in Pending(conn, Sent(conn)') : Sent(conn)'[i].ask = asked
    <3>1. PICK e : e = Append(Sent(conn), m)
      OBVIOUS
    <3>2. /\ DOMAIN e = DOMAIN Sent(conn) \cup {Len(Sent(conn)) + 1}
          /\ \A i \in DOMAIN Sent(conn) : e[i] = Sent(conn)[i]
          /\ e[Len(Sent(conn)) + 1] = m
      BY <3>1, <1>4, <1>6, AppendFacts
    <3>3. \A i \in Pending(conn, e) : e[i].ask = asked
      BY <3>2, <1>4, <1>9 DEF Pending
    <3> QED BY <3>1, <3>3, <1>7
  <2> QED BY <2>2, <2>3, <2>4, <1>2, <1>9 DEF SeatLine, serverVars
<1>16. MembersOK'
  BY <1>2, <1>9 DEF MembersOK, serverVars
<1> QED BY <1>11, <1>12, <1>13, <1>14, <1>15, <1>16 DEF ClientInv

\* The other frames change what the client shows, and nothing else.
LEMMA ReceiveNewsInv ==
    ASSUME ClientInv, SessionTypeOK',
           ReceiveJoinAck \/ ReceivePlayerJoin \/ ReceivePlayerLeave \/ ReceiveRefusal
    PROVE  ClientInv'
<1>1. /\ rx # <<>> /\ rx' = Tail(rx)
      /\ UNCHANGED <<ui, asked, running, conn, up, down, serverVars>>
      /\ UNCHANGED <<localId, worker, queue, link>>
      /\ ~IsAck(Head(rx)) /\ Head(rx).t # "CLOSE"
      /\ status' = "insession" =>
            \/ status = "insession" /\ shown' = shown
            \/ IsJoinAck(Head(rx)) /\ shown' = Head(rx).room
  BY DEF ReceiveJoinAck, ReceivePlayerJoin, ReceivePlayerLeave, ReceiveRefusal, Handles,
         IsAck, IsJoinAck
<1>2. ASSUME NEW x, x # localId
      PROVE  /\ x \in remotes /\ ~Removes(Head(rx), x) => x \in remotes'
             /\ Brings(Head(rx), x) => x \in remotes'
  BY <1>2 DEF ReceiveJoinAck, ReceivePlayerJoin, ReceivePlayerLeave, ReceiveRefusal, Handles,
         Applied, Removes, Brings
<1>3. /\ worker = "serving" /\ conn \in Conns
      /\ Coming \in Seq(DownFrame) /\ Coming # <<>> /\ 1 \in DOMAIN Coming
      /\ Coming[1] = Head(rx)
      /\ Coming' = Tail(Coming)
  BY <1>1, ReceiveFacts
<1>4. Sent(conn)' = Sent(conn) /\ \A k \in Conns : Sent(k)' = Sent(k)
  BY <1>1 DEF Sent
<1>5. /\ Dialogue(conn, conn \in greeted, seat[conn], Ready, Sent(conn), Coming)
      /\ Stale(conn, conn \in greeted, seat[conn], Sent(conn))
  BY <1>3 DEF ClientInv, DialogueOK, StaleOK
<1>6. /\ Dialogue(conn, conn \in greeted, seat[conn], Ready', Sent(conn), Coming')
      /\ \A i \in DOMAIN Coming' : ~IsJoinAck(Coming'[i])
  BY <1>3, <1>5, HandledDialogue
<1>7. /\ \A i \in DOMAIN Coming' : /\ i + 1 \in DOMAIN Coming
                                   /\ Coming[i + 1] = Coming'[i]
      /\ \A k \in DOMAIN Coming : k = 1 \/ \E i \in DOMAIN Coming' : k = i + 1
  BY <1>3, TailFacts
<1>8. WorkerOK' /\ Unopened'
  BY <1>1, <1>3 DEF ClientInv, WorkerOK, Unopened, Conns, SessionTypeOK, serverVars
<1>9. QueueOK'
  BY <1>1, <1>3 DEF ClientInv, QueueOK, serverVars
<1>10. StaleOK'
  BY <1>1, <1>4 DEF ClientInv, StaleOK, serverVars
<1>11. DialogueOK'
  BY <1>1, <1>4, <1>6 DEF DialogueOK, serverVars
<1>12. SeatOK'
  <2> SUFFICES ASSUME link = "open" PROVE SeatLine(Sent(conn), Coming)'
    BY <1>1 DEF SeatOK, ClientInv, LastWorker
  <2>1. SeatLine(Sent(conn), Coming)
    BY DEF ClientInv, SeatOK
  <2>2. \A i \in DOMAIN Coming' : IsAck(Coming'[i]) => Coming'[i].id = conn
    BY <2>1, <1>7 DEF SeatLine
  <2>3. ASSUME NEW r, InRoom(r, Coming) PROVE InRoom(r, Coming)'
    <3>1. (\E i \in DOMAIN Coming : Coming[i].t = "CLOSE")
              => \E i \in DOMAIN Coming' : Coming'[i].t = "CLOSE"
      <4> SUFFICES ASSUME NEW k \in DOMAIN Coming, Coming[k].t = "CLOSE"
                   PROVE  \E i \in DOMAIN Coming' : Coming'[i].t = "CLOSE"
        OBVIOUS
      <4>1. k # 1
        BY <1>1, <1>3
      <4>2. PICK i \in DOMAIN Coming' : k = i + 1
        BY <4>1, <1>7
      <4> QED BY <4>2, <1>7
    <3> QED BY <2>3, <3>1, <1>1 DEF InRoom, serverVars
  <2>4. ASSUME conn \in greeted, \A i \in DOMAIN Coming' : ~IsAck(Coming'[i])
        PROVE  localId = conn /\ (status' = "insession" => InRoom(shown, Coming)')
    <3>1. ASSUME NEW i \in DOMAIN Coming PROVE ~IsAck(Coming[i])
      <4>1. CASE i = 1
        BY <4>1, <1>1, <1>3
      <4>2. CASE i # 1
        <5>1. PICK j \in DOMAIN Coming' : i = j + 1
          BY <4>2, <1>7
        <5> QED BY <5>1, <2>4, <1>7
      <4> QED BY <4>1, <4>2
    <3>2. localId = conn /\ (status = "insession" => InRoom(shown, Coming))
      BY <2>1, <2>4, <3>1 DEF SeatLine
    <3>3. IsJoinAck(Head(rx)) => InRoom(Head(rx).room, Coming)
      BY <2>1, <1>3 DEF SeatLine
    <3>4. status' = "insession" => InRoom(shown', Coming)
      BY <3>2, <3>3, <1>1
    <3>5. InRoom(shown', Coming) => InRoom(shown, Coming)'
      BY <2>3 DEF InRoom
    <3> QED BY <3>2, <3>4, <3>5
  <2> QED BY <2>1, <2>2, <2>4, <1>1, <1>4, <1>6 DEF SeatLine, LastWorker, serverVars
<1>13. MembersOK'
  <2> SUFFICES ASSUME link = "open", seat[conn] # NoRoom,
                      NEW x \in Members(seat[conn]) \ {conn}
               PROVE  KnowsOf(remotes', x, Coming')
    BY <1>1 DEF MembersOK, Members, Seated, serverVars
  <2>1. KnowsOf(remotes, x, Coming)
    BY DEF ClientInv, MembersOK
  <2>2. conn \in greeted /\ \A i \in DOMAIN Coming : ~IsAck(Coming[i])
    BY <1>5, SeatedDialogue DEF Stale
  <2>3. localId = conn
    BY <2>2 DEF ClientInv, SeatOK, SeatLine
  <2> QED BY <2>1, <2>3, <1>2, <1>3, KnowsAfterHandled
<1> QED BY <1>8, <1>9, <1>10, <1>11, <1>12, <1>13 DEF ClientInv

-------------------------------------------------------------------------------
(***************************************************************************)
(* The server's steps.                                                     *)
(***************************************************************************)

\* No answer is on its way, and one more frame that is none.
LEMMA NewsLine ==
    ASSUME NEW l \in Seq(DownFrame), NEW m \in DownFrame, NEW s,
           ~IsAck(m), ~IsJoinAck(m),
           Dialogue(conn, conn \in greeted, seat[conn], Ready, s, l),
           Pending(conn, s) = {}, \A i \in DOMAIN l : ~IsAck(l[i]),
           link = "open" => SeatLine(s, l)
    PROVE  /\ Append(l, m) \in Seq(DownFrame)
           /\ Dialogue(conn, conn \in greeted, seat[conn], Ready, s, Append(l, m))
           /\ \A i \in DOMAIN Append(l, m) : ~IsAck(Append(l, m)[i])
           /\ link = "open" => SeatLine(s, Append(l, m))
<1>1. PICK e : e = Append(l, m)
  OBVIOUS
<1>2. /\ e \in Seq(DownFrame)
      /\ DOMAIN e = DOMAIN l \cup {Len(l) + 1} /\ e[Len(l) + 1] = m
      /\ \A i \in DOMAIN l : e[i] = l[i]
  BY <1>1, AppendFacts
<1>3. /\ Dialogue(conn, conn \in greeted, seat[conn], Ready, s, e)
      /\ \A i \in DOMAIN e : ~IsAck(e[i])
  BY <1>1, NewsDialogue
<1>4. ASSUME NEW r, InRoom(r, l) PROVE InRoom(r, e)
  BY <1>2, <1>4 DEF InRoom
<1>5. \A i \in DOMAIN e : IsJoinAck(e[i]) => i \in DOMAIN l /\ e[i] = l[i]
  BY <1>2
<1>6. link = "open" => SeatLine(s, e)
  BY <1>3, <1>4, <1>5 DEF SeatLine
<1> QED BY <1>1, <1>2, <1>3, <1>6

\* The server handles a frame that is no HANDSHAKE.
LEMMA HandledLine ==
    ASSUME NEW s \in Seq(UpFrame), s # <<>>, ~IsHandshake(s[1]), NEW l, SeatLine(s, l)
    PROVE  SeatLine(Tail(s), l)
<1>1. PICK e : e = Tail(s)
  OBVIOUS
<1>2. /\ \A i \in DOMAIN e : i + 1 \in DOMAIN s /\ s[i + 1] = e[i]
      /\ \A k \in DOMAIN s : k = 1 \/ \E i \in DOMAIN e : k = i + 1
  BY <1>1, TailFacts
<1>3. ASSUME NEW k \in DOMAIN s, IsHandshake(s[k])
      PROVE  \E i \in DOMAIN e : IsHandshake(e[i])
  <2>1. PICK i \in DOMAIN e : k = i + 1
    BY <1>2, <1>3
  <2> QED BY <2>1, <1>2, <1>3
<1>4. \A i \in Pending(conn, e) : i + 1 \in Pending(conn, s) /\ s[i + 1] = e[i]
  BY <1>2 DEF Pending
<1>5. conn \notin greeted => \E i \in DOMAIN e : IsHandshake(e[i])
  BY <1>3 DEF SeatLine
<1>6. \A i \in Pending(conn, e) : e[i].ask = asked
  BY <1>4 DEF SeatLine
<1>7. SeatLine(e, l)
  BY <1>5, <1>6 DEF SeatLine
<1> QED BY <1>1, <1>7

\* What every step of the server leaves alone.
LEMMA ServerBase ==
    ASSUME ClientInv, SessionTypeOK',
           UNCHANGED <<uiVars, workerVars, conn, link>>,
           NEW ks, \A j \in ks : j \in alive \/ seat[j] # NoRoom,
           \A j \in Conns : j # conn \/ link # "open" => down'[j] = down[j],
           \A j \in Conns \ ks : up'[j] = up[j] /\ seat'[j] = seat[j],
           alive' \subseteq alive, greeted' \subseteq greeted \cup ks
    PROVE  WorkerOK' /\ Unopened'
<1>1. WorkerOK'
  BY LineTypes DEF ClientInv, WorkerOK, uiVars, workerVars
<1>2. Unopened'
  <2> SUFFICES ASSUME NEW j \in Conns, j > conn
               PROVE  /\ up'[j] = <<>> /\ down'[j] = <<>>
                      /\ j \notin alive' /\ j \notin greeted' /\ seat'[j] = NoRoom
    BY DEF Unopened
  <2>1. j # conn
    BY DEF ClientInv, SessionTypeOK
  <2>2. /\ up[j] = <<>> /\ down[j] = <<>>
        /\ j \notin alive /\ j \notin greeted /\ seat[j] = NoRoom
    BY DEF ClientInv, Unopened
  <2> QED BY <2>1, <2>2
<1> QED BY <1>1, <1>2

\* A step of the server that is about other connections or about none: l is
\* what is then on its way to the client.
LEMMA OthersInv ==
    ASSUME ClientInv, SessionTypeOK',
           UNCHANGED <<uiVars, workerVars, conn, link>>,
           worker = "serving" =>
               /\ up'[conn] = up[conn] /\ seat'[conn] = seat[conn]
               /\ conn \in greeted' <=> conn \in greeted,
           NEW l,
           worker = "serving" =>
               /\ Coming' = l
               /\ Dialogue(conn, conn \in greeted, seat[conn], Ready, Sent(conn), l)
               /\ link = "open" => SeatLine(Sent(conn), l)
    PROVE  DialogueOK' /\ SeatOK'
<1>1. worker = "serving" => Sent(conn)' = Sent(conn)
  BY DEF Sent, workerVars
<1>2. DialogueOK'
  BY <1>1 DEF DialogueOK, Ready, LastWorker, uiVars, workerVars, Dialogue
<1>3. SeatOK'
  <2> SUFFICES ASSUME link = "open"
               PROVE  (up'[conn] # <<>> => LastWorker') /\ SeatLine(Sent(conn), Coming)'
    BY DEF SeatOK
  <2>1. worker = "serving"
    BY DEF ClientInv, SessionTypeOK
  <2>2. (up[conn] # <<>> => LastWorker) /\ SeatLine(Sent(conn), l)
    BY <2>1 DEF ClientInv, SeatOK
  <2> QED BY <1>1, <2>1, <2>2 DEF SeatLine, InRoom, LastWorker, uiVars, workerVars
<1> QED BY <1>2, <1>3

\* The queue, as long as nobody told a client that has sent nothing.
LEMMA ServerQueueOK ==
    ASSUME ClientInv, UNCHANGED <<uiVars, workerVars, conn, link>>,
           worker = "serving" /\ up[conn] = <<>> =>
               up'[conn] = <<>> /\ (conn \in greeted' <=> conn \in greeted),
           worker = "serving" /\ up[conn] = <<>> /\ seat[conn] = NoRoom => Coming' = Coming
    PROVE  QueueOK'
<1>1. worker = "serving" /\ conn \notin greeted => seat[conn] = NoRoom
  BY LineTypes DEF ClientInv, StaleOK, Stale
<1> QED BY <1>1 DEF ClientInv, QueueOK, workerVars

\* A frame of connection k is handled.
LEMMA ServerHandlesFacts ==
    ASSUME ClientInv, NEW k \in Conns, NEW type, ServerHandles(k, type)
    PROVE  /\ k \in alive /\ up[k] # <<>> /\ Head(up[k]).t = type
           /\ up' = [up EXCEPT ![k] = Tail(@)]
           /\ UNCHANGED <<uiVars, workerVars, conn, link, alive, mates>>
           /\ Sent(k) \in Seq(UpFrame) /\ Sent(k) # <<>>
           /\ Sent(k)[1] = Head(up[k])
           /\ Sent(k)' = Tail(Sent(k))
           /\ k = conn => Sent(conn)' = Tail(Sent(k))
           /\ Tail(Sent(k)) \in Seq(UpFrame) /\ Part(Tail(Sent(k)), Sent(k))
           /\ \A j \in Conns \ {k} : Sent(j)' = Sent(j) /\ up'[j] = up[j]
<1>1. /\ k \in alive /\ up[k] # <<>> /\ Head(up[k]).t = type
      /\ up' = [up EXCEPT ![k] = Tail(@)]
      /\ UNCHANGED <<uiVars, workerVars, conn, link, alive, mates>>
  BY DEF ServerHandles
<1>2. up[k] \in Seq(UpFrame) /\ queue \in Seq(UpFrame) /\ Sent(k) \in Seq(UpFrame)
  BY LineTypes DEF ClientInv, SessionTypeOK
<1>3. up'[k] = Tail(up[k]) /\ \A j \in Conns \ {k} : up'[j] = up[j]
  BY <1>1 DEF ClientInv, SessionTypeOK
<1>4. /\ Sent(k) # <<>> /\ Sent(k)[1] = Head(up[k])
      /\ Sent(k)' = Tail(Sent(k))
  <2>1. CASE k = conn /\ worker = "serving"
    <3>1. Sent(k) = up[k] \o queue /\ Sent(k)' = Tail(up[k]) \o queue
      BY <2>1, <1>1, <1>3 DEF Sent, workerVars
    <3>2. /\ up[k] \o queue # <<>> /\ Head(up[k]) = (up[k] \o queue)[1]
          /\ Tail(up[k]) \o queue = Tail(up[k] \o queue)
      BY <1>1, <1>2, FramesLeave
    <3> QED BY <3>1, <3>2
  <2>2. CASE ~(k = conn /\ worker = "serving")
    <3>1. Sent(k) = up[k] /\ Sent(k)' = Tail(up[k])
      BY <2>2, <1>1, <1>3 DEF Sent, workerVars
    <3> QED BY <3>1, <1>1, <1>2, TailFacts
  <2> QED BY <2>1, <2>2
<1>5. k = conn => Sent(conn)' = Tail(Sent(k))
  BY <1>1, <1>4 DEF Sent
<1>6. Tail(Sent(k)) \in Seq(UpFrame) /\ Part(Tail(Sent(k)), Sent(k))
  BY <1>2, <1>4, TailFacts, PartFacts
<1>7. \A j \in Conns \ {k} : Sent(j)' = Sent(j)
  BY <1>1, <1>3 DEF Sent, workerVars
<1> QED BY <1>1, <1>2, <1>3, <1>4, <1>5, <1>6, <1>7

\* HANDSHAKE: the first is answered.
LEMMA OnHandshakeInv ==
    ASSUME ClientInv, NEW k \in Conns, OnHandshake(k), SessionTypeOK'
    PROVE  ClientInv'
<1>1. /\ k \in alive /\ up[k] # <<>> /\ Head(up[k]).t = "HANDSHAKE"
      /\ up' = [up EXCEPT ![k] = Tail(@)]
      /\ UNCHANGED <<uiVars, workerVars, conn, link, alive, mates>>
      /\ Sent(k) \in Seq(UpFrame) /\ Sent(k) # <<>>
      /\ Sent(k)[1] = Head(up[k])
      /\ Sent(k)' = Tail(Sent(k))
      /\ k = conn => Sent(conn)' = Tail(Sent(k))
      /\ Tail(Sent(k)) \in Seq(UpFrame) /\ Part(Tail(Sent(k)), Sent(k))
      /\ \A j \in Conns \ {k} : Sent(j)' = Sent(j) /\ up'[j] = up[j]
  BY ServerHandlesFacts DEF OnHandshake
<1>2. /\ greeted' = greeted \cup {k} /\ seat' = seat
      /\ down' = IF k \in greeted THEN down ELSE Tell(down, {k}, HandshakeAck(k))
  BY DEF OnHandshake
<1>3. /\ HandshakeAck(k) \in DownFrame /\ IsAck(HandshakeAck(k)) /\ HandshakeAck(k).id = k
      /\ down \in [Conns -> Seq(DownFrame)]
  BY FrameTypes DEF IsAck, HandshakeAck, ClientInv, SessionTypeOK
<1>4. /\ \A j \in Conns : j # conn \/ link # "open" \/ k # conn \/ k \in greeted
              => down'[j] = down[j]
      /\ k = conn /\ link = "open" /\ k \notin greeted
              => down'[conn] = Append(down[conn], HandshakeAck(k))
  <2>1. /\ \A j \in Conns : j # conn => Tell(down, {k}, HandshakeAck(k))[j] = down[j]
        /\ conn \in Conns => Tell(down, {k}, HandshakeAck(k))[conn] =
              IF conn \in {k} /\ link = "open" THEN Append(down[conn], HandshakeAck(k))
                                               ELSE down[conn]
    BY <1>3, TellFacts
  <2> QED BY <2>1, <1>2
<1>5. WorkerOK' /\ Unopened'
  BY <1>1, <1>2, <1>4, ServerBase
<1>6. worker = "serving" /\ (link # "open" \/ k # conn \/ k \in greeted) => Coming' = Coming
  BY <1>1, <1>4, LineTypes DEF Coming, workerVars, ClientInv
<1>7. QueueOK'
  <2>1. worker = "serving" /\ up[conn] = <<>> => k # conn /\ conn \in Conns
    BY <1>1, LineTypes DEF ClientInv
  <2> QED BY <1>1, <1>2, <1>6, <2>1, ServerQueueOK
<1>8. StaleOK'
  <2> SUFFICES ASSUME NEW j \in Conns
               PROVE  Stale(j, j \in greeted', seat[j], Sent(j)')
    BY <1>2 DEF StaleOK
  <2>1. Stale(j, j \in greeted, seat[j], Sent(j))
    BY DEF ClientInv, StaleOK
  <2>2. CASE j = k
    <3>1. Stale(k, TRUE, seat[k], Tail(Sent(k)))
      BY <1>1, <2>1, <2>2, GreetedStale DEF IsHandshake
    <3> QED BY <3>1, <2>2, <1>1, <1>2 DEF Stale
  <2>3. CASE j # k
    BY <2>1, <2>3, <1>1, <1>2 DEF Stale
  <2> QED BY <2>2, <2>3
<1>9. MembersOK'
  <2> SUFFICES ASSUME link = "open", seat[conn] # NoRoom
               PROVE  Coming' = Coming
    BY <1>1, <1>2 DEF MembersOK, ClientInv, Members, Seated, uiVars
  <2>1. worker = "serving"
    BY DEF ClientInv, SessionTypeOK
  <2>2. conn \in greeted
    BY <2>1, LineTypes DEF ClientInv, StaleOK, Stale
  <2> QED BY <2>1, <2>2, <1>6
<1>10. CASE k # conn \/ worker # "serving"
  <2>1. PICK l : l = Coming'
    OBVIOUS
  <2>2. worker = "serving" => /\ conn \in Conns /\ l = Coming
                              /\ up'[conn] = up[conn]
                              /\ (conn \in greeted' <=> conn \in greeted)
    BY <1>1, <1>2, <1>6, <1>10, <2>1, LineTypes DEF ClientInv
  <2>3. worker = "serving" =>
            /\ Dialogue(conn, conn \in greeted, seat[conn], Ready, Sent(conn), l)
            /\ link = "open" => SeatLine(Sent(conn), l)
    BY <2>2 DEF ClientInv, DialogueOK, SeatOK
  <2>4. DialogueOK' /\ SeatOK'
    BY <2>1, <2>2, <2>3, <1>1, <1>2, OthersInv
  <2> QED BY <2>4, <1>5, <1>7, <1>8, <1>9 DEF ClientInv
<1>11. CASE k = conn /\ worker = "serving"
  <2>1. PICK s : s = Tail(Sent(k))
    OBVIOUS
  <2>2. PICK l : l = Coming'
    OBVIOUS
  <2>3. /\ Dialogue(k, k \in greeted, seat[k], Ready, Sent(k), Coming)
        /\ Stale(k, k \in greeted, seat[k], Sent(k))
        /\ Coming \in Seq(DownFrame)
        /\ rx \in Seq(DownFrame) /\ down[conn] \in Seq(DownFrame)
    BY <1>11, LineTypes DEF ClientInv, DialogueOK, StaleOK
  <2>4. s \in Seq(UpFrame) /\ Part(s, Sent(k)) /\ Part(Coming, Coming)
    BY <1>1, <2>1, <2>3, PartFacts
  <2>5. Dialogue(k, k \in greeted, seat[k], Ready, s, Coming)
    BY <1>1, <2>3, <2>4, PartIsDialogue
  <2>6. k \notin greeted => seat[k] = NoRoom
    BY <2>3 DEF Stale
  <2>7. l = IF k \notin greeted /\ link = "open"
            THEN Append(Coming, HandshakeAck(k)) ELSE Coming
    <3>1. CASE k \notin greeted /\ link = "open"
      <4>1. Coming' = rx \o Append(down[conn], HandshakeAck(k))
        BY <1>1, <1>4, <1>11, <3>1 DEF Coming, workerVars
      <4> QED BY <4>1, <2>2, <2>3, <1>3, <3>1, FramesJoin DEF Coming
    <3>2. CASE ~(k \notin greeted /\ link = "open")
      BY <1>6, <1>11, <2>2, <3>2
    <3> QED BY <3>1, <3>2
  <2>8. Dialogue(k, TRUE, seat[k], Ready, s, l)
    <3>1. CASE k \in greeted
      BY <3>1, <2>5, <2>7 DEF Dialogue
    <3>2. CASE k \notin greeted
      <4>1. Dialogue(k, FALSE, NoRoom, Ready, s, Coming)
        BY <3>2, <2>5, <2>6 DEF Dialogue
      <4>2. /\ Dialogue(k, TRUE, NoRoom, Ready, s, Append(Coming, HandshakeAck(k)))
            /\ Dialogue(k, TRUE, NoRoom, Ready, s, Coming)
        BY <4>1, <2>3, <1>3, GreetedDialogue
      <4> QED BY <4>2, <2>6, <2>7, <3>2
    <3> QED BY <3>1, <3>2
  <2>9. Sent(conn)' = s /\ Ready' = Ready /\ conn' = conn /\ conn' \in greeted'
    BY <1>1, <1>2, <1>11, <2>1 DEF Ready, LastWorker, uiVars, workerVars
  <2>10. DialogueOK'
    BY <2>2, <2>8, <2>9, <1>2, <1>11 DEF DialogueOK, Dialogue
  <2>11. SeatOK'
    <3> SUFFICES ASSUME link = "open"
                 PROVE  LastWorker' /\ SeatLine(Sent(conn), Coming)'
      BY <1>1 DEF SeatOK
    <3>1. LastWorker /\ SeatLine(Sent(k), Coming)
      BY <1>1, <1>11 DEF ClientInv, SeatOK
    <3>2. LastWorker' /\ \A r : InRoom(r, Coming) => InRoom(r, Coming)'
      <4>1. LastWorker'
        BY <1>1, <3>1 DEF LastWorker, uiVars, workerVars
      <4>2. (\E i \in DOMAIN Coming : Coming[i].t = "CLOSE")
                => \E i \in DOMAIN l : l[i].t = "CLOSE"
        <5>1. CASE l = Coming
          BY <5>1
        <5>2. CASE l = Append(Coming, HandshakeAck(k))
          BY <5>2, <2>3, <1>3, AppendFacts
        <5> QED BY <5>1, <5>2, <2>7
      <4> QED BY <4>1, <4>2, <1>1, <1>2, <2>2 DEF InRoom, uiVars
    <3>3. CASE k \in greeted
      <4>1. \A i \in Pending(k, s) : s[i].ask = asked
        <5>1. PICK o \in Nat : \A i \in DOMAIN s : i + o \in DOMAIN Sent(k) /\ s[i] = Sent(k)[i + o]
          BY <2>4 DEF Part
        <5>2. \A i \in Pending(k, s) : i + o \in Pending(k, Sent(k)) /\ s[i] = Sent(k)[i + o]
          BY <5>1 DEF Pending
        <5> QED BY <5>2, <3>1, <1>11 DEF SeatLine
      <4> QED BY <4>1, <3>1, <3>2, <3>3, <2>2, <2>7, <2>9, <1>1, <1>2, <1>11
              DEF SeatLine, uiVars
    <3>4. CASE k \notin greeted
      <4>1. /\ Pending(k, s) = {}
            /\ \A i \in DOMAIN Coming : ~IsAck(Coming[i]) /\ ~IsJoinAck(Coming[i])
        BY <3>4, <2>5 DEF Dialogue
      <4>2. /\ DOMAIN l = DOMAIN Coming \cup {Len(Coming) + 1}
            /\ \A i \in DOMAIN Coming : l[i] = Coming[i]
            /\ l[Len(Coming) + 1] = HandshakeAck(k)
        BY <3>4, <2>3, <2>7, <1>3, AppendFacts
      <4>3. /\ \A i \in DOMAIN l : IsAck(l[i]) => l[i].id = k
            /\ \E i \in DOMAIN l : IsAck(l[i])
            /\ \A i \in DOMAIN l : ~IsJoinAck(l[i])
        BY <4>1, <4>2, <1>3 DEF IsAck, IsJoinAck
      <4> QED BY <4>1, <4>3, <3>2, <2>2, <2>9, <1>11 DEF SeatLine
    <3> QED BY <3>2, <3>3, <3>4
  <2> QED BY <2>10, <2>11, <1>5, <1>7, <1>8, <1>9 DEF ClientInv
<1> QED BY <1>10, <1>11

\* A frame that is no HANDSHAKE has left the line of the current connection.
LEMMA LeftLine ==
    ASSUME ClientInv, worker = "serving", Sent(conn) # <<>>, ~IsHandshake(Sent(conn)[1])
    PROVE  /\ Dialogue(conn, conn \in greeted, seat[conn], Ready, Tail(Sent(conn)), Coming)
           /\ link = "open" => SeatLine(Tail(Sent(conn)), Coming)
<1>1. /\ conn \in Conns /\ Sent(conn) \in Seq(UpFrame) /\ Coming \in Seq(DownFrame)
      /\ Dialogue(conn, conn \in greeted, seat[conn], Ready, Sent(conn), Coming)
  BY LineTypes DEF ClientInv, DialogueOK
<1>2. /\ Tail(Sent(conn)) \in Seq(UpFrame) /\ Part(Tail(Sent(conn)), Sent(conn))
      /\ Part(Coming, Coming)
  BY <1>1, PartFacts, TailFacts
<1>3. Dialogue(conn, conn \in greeted, seat[conn], Ready, Tail(Sent(conn)), Coming)
  BY <1>1, <1>2, PartIsDialogue
<1>4. link = "open" => SeatLine(Tail(Sent(conn)), Coming)
  BY <1>1, HandledLine DEF ClientInv, SeatOK
<1> QED BY <1>3, <1>4

\* A step of the server for the current connection, when s is left of what it
\* sent and l is on its way to it.
LEMMA OwnInv ==
    ASSUME ClientInv, SessionTypeOK', worker = "serving",
           UNCHANGED <<uiVars, workerVars, conn, link, seat>>,
           up[conn] # <<>>,
           conn \in greeted' <=> conn \in greeted,
           NEW s, Sent(conn)' = s, NEW l, Coming' = l,
           Dialogue(conn, conn \in greeted, seat[conn], Ready, s, l),
           link = "open" => SeatLine(s, l)
    PROVE  DialogueOK' /\ SeatOK'
<1>1. DialogueOK'
  BY DEF DialogueOK, Ready, LastWorker, uiVars, workerVars, Dialogue
<1>2. SeatOK'
  <2> SUFFICES ASSUME link = "open" PROVE LastWorker' /\ SeatLine(Sent(conn), Coming)'
    BY DEF SeatOK
  <2>1. LastWorker'
    BY DEF ClientInv, SeatOK, LastWorker, uiVars, workerVars
  <2> QED BY <2>1 DEF SeatLine, InRoom, LastWorker, uiVars, workerVars
<1> QED BY <1>1, <1>2

\* The lines of all connections after k's lost its first frame.
LEMMA LeftStale ==
    ASSUME ClientInv, NEW k \in Conns, NEW type, ServerHandles(k, type),
           UNCHANGED <<greeted, seat>>
    PROVE  StaleOK'
<1> SUFFICES ASSUME NEW j \in Conns
             PROVE  Stale(j, j \in greeted, seat[j], Sent(j)')
  BY DEF StaleOK
<1>1. Stale(j, j \in greeted, seat[j], Sent(j))
  BY DEF ClientInv, StaleOK
<1>2. /\ j # k => Sent(j)' = Sent(j)
      /\ Sent(k)' = Tail(Sent(k)) /\ Part(Tail(Sent(k)), Sent(k))
      /\ Sent(k) \in Seq(UpFrame) /\ Tail(Sent(k)) \in Seq(UpFrame)
  BY ServerHandlesFacts
<1>3. CASE j = k
  <2>1. Stale(k, k \in greeted, seat[k], Tail(Sent(k)))
    BY <1>1, <1>2, <1>3, PartIsStale
  <2> QED BY <2>1, <1>2, <1>3
<1>4. CASE j # k
  BY <1>1, <1>2, <1>4
<1> QED BY <1>3, <1>4

\* The game's frames do nothing here.
LEMMA OnGameFrameInv ==
    ASSUME ClientInv, NEW k \in Conns, OnGameFrame(k), SessionTypeOK'
    PROVE  ClientInv'
<1>1. /\ ServerHandles(k, "GAME") /\ UNCHANGED <<down, greeted, seat>>
  BY DEF OnGameFrame
<1>2. /\ k \in alive /\ up[k] # <<>> /\ Head(up[k]).t = "GAME"
      /\ UNCHANGED <<uiVars, workerVars, conn, link, alive, mates>>
      /\ Sent(k) # <<>> /\ Sent(k)[1] = Head(up[k])
      /\ k = conn => Sent(conn)' = Tail(Sent(k))
      /\ \A j \in Conns \ {k} : up'[j] = up[j]
  BY <1>1, ServerHandlesFacts
<1>3. WorkerOK' /\ Unopened'
  BY <1>1, <1>2, ServerBase
<1>4. Coming' = Coming
  BY <1>1, <1>2 DEF Coming, workerVars
<1>5. QueueOK'
  <2>1. worker = "serving" /\ up[conn] = <<>> => k # conn /\ conn \in Conns
    BY <1>2, LineTypes DEF ClientInv
  <2> QED BY <1>1, <1>2, <1>4, <2>1, ServerQueueOK
<1>6. StaleOK'
  BY <1>1, LeftStale
<1>7. MembersOK'
  BY <1>1, <1>2, <1>4 DEF MembersOK, ClientInv, Members, Seated, uiVars
<1>8. DialogueOK' /\ SeatOK'
  <2>1. PICK l : l = Coming
    OBVIOUS
  <2>2. CASE k = conn /\ worker = "serving"
    <3>1. PICK s : s = Tail(Sent(conn))
      OBVIOUS
    <3>2. ~IsHandshake(Sent(conn)[1])
      BY <1>2, <2>2 DEF IsHandshake
    <3>3. /\ Dialogue(conn, conn \in greeted, seat[conn], Ready, s, l)
          /\ link = "open" => SeatLine(s, l)
      BY <1>2, <2>1, <2>2, <3>1, <3>2, LeftLine
    <3> QED BY <1>1, <1>2, <1>4, <2>1, <2>2, <3>1, <3>3, OwnInv
  <2>3. CASE ~(k = conn /\ worker = "serving")
    <3>1. worker = "serving" =>
              /\ up'[conn] = up[conn]
              /\ Dialogue(conn, conn \in greeted, seat[conn], Ready, Sent(conn), l)
              /\ link = "open" => SeatLine(Sent(conn), l)
      BY <1>2, <2>1, <2>3, LineTypes DEF ClientInv, DialogueOK, SeatOK
    <3> QED BY <1>1, <1>2, <1>4, <2>1, <3>1, OthersInv
  <2> QED BY <2>2, <2>3
<1> QED BY <1>3, <1>5, <1>6, <1>7, <1>8 DEF ClientInv

\* JOIN_REQUEST is denied.
LEMMA OnJoinDeniedInv ==
    ASSUME ClientInv, NEW k \in Conns, OnJoinDenied(k), SessionTypeOK'
    PROVE  ClientInv'
<1>1. /\ ServerHandles(k, "JOIN_REQUEST") /\ UNCHANGED <<greeted, seat>>
      /\ down' = Tell(down, {k}, JoinDenied)
  BY DEF OnJoinDenied
<1>2. /\ k \in alive /\ up[k] # <<>> /\ Head(up[k]).t = "JOIN_REQUEST"
      /\ UNCHANGED <<uiVars, workerVars, conn, link, alive, mates>>
      /\ Sent(k) # <<>> /\ Sent(k)[1] = Head(up[k]) /\ Sent(k) \in Seq(UpFrame)
      /\ k = conn => Sent(conn)' = Tail(Sent(k))
      /\ \A j \in Conns \ {k} : up'[j] = up[j]
  BY <1>1, ServerHandlesFacts
<1>3. /\ JoinDenied \in DownFrame /\ ~IsAck(JoinDenied) /\ ~IsJoinAck(JoinDenied)
      /\ \A x : ~Removes(JoinDenied, x)
      /\ down \in [Conns -> Seq(DownFrame)]
  BY FrameTypes DEF IsAck, IsJoinAck, Removes, JoinDenied, ClientInv, SessionTypeOK
<1> HIDE DEF JoinDenied
<1>4. /\ \A j \in Conns : j # conn \/ link # "open" \/ k # conn => down'[j] = down[j]
      /\ k = conn /\ link = "open" => down'[conn] = Append(down[conn], JoinDenied)
  <2>1. /\ \A j \in Conns : j # conn => Tell(down, {k}, JoinDenied)[j] = down[j]
        /\ conn \in Conns => Tell(down, {k}, JoinDenied)[conn] =
              IF conn \in {k} /\ link = "open" THEN Append(down[conn], JoinDenied)
                                               ELSE down[conn]
    BY <1>3, TellFacts
  <2> QED BY <2>1, <1>1
<1>5. WorkerOK' /\ Unopened'
  BY <1>1, <1>2, <1>4, ServerBase
<1>6. worker = "serving" =>
          Coming' = IF link = "open" /\ k = conn THEN Append(Coming, JoinDenied) ELSE Coming
  <2> SUFFICES ASSUME worker = "serving"
               PROVE  Coming' = IF link = "open" /\ k = conn THEN Append(Coming, JoinDenied)
                                                             ELSE Coming
    OBVIOUS
  <2>1. conn \in Conns /\ rx \in Seq(DownFrame) /\ down[conn] \in Seq(DownFrame)
    BY LineTypes DEF ClientInv
  <2>2. rx \o Append(down[conn], JoinDenied) = Append(rx \o down[conn], JoinDenied)
    BY <2>1, <1>3, FramesJoin
  <2> QED BY <2>1, <2>2, <1>2, <1>4 DEF Coming, workerVars
<1>7. QueueOK'
  <2>1. worker = "serving" /\ up[conn] = <<>> => k # conn /\ conn \in Conns
    BY <1>2, LineTypes DEF ClientInv
  <2> QED BY <1>1, <1>2, <1>6, <2>1, ServerQueueOK
<1>8. StaleOK'
  BY <1>1, LeftStale
<1>9. MembersOK'
  <2> SUFFICES ASSUME link = "open", seat[conn] # NoRoom,
                      NEW x \in Members(seat[conn]) \ {conn}
               PROVE  KnowsOf(remotes, x, Coming')
    BY <1>1, <1>2 DEF MembersOK, Members, Seated, uiVars
  <2>1. worker = "serving" /\ KnowsOf(remotes, x, Coming) /\ Coming \in Seq(DownFrame)
    BY LineTypes DEF ClientInv, SessionTypeOK, MembersOK
  <2>2. KnowsOf(remotes, x, Append(Coming, JoinDenied))
    BY <2>1, <1>3, KnowsAfterSent
  <2> QED BY <2>1, <2>2, <1>6
<1>10. DialogueOK' /\ SeatOK'
  <2>1. PICK l : l = Coming'
    OBVIOUS
  <2>2. CASE k = conn /\ worker = "serving"
    <3>1. PICK s : s = Tail(Sent(conn))
      OBVIOUS
    <3>2. ~IsHandshake(Sent(conn)[1]) /\ IsRequest(Sent(conn)[1])
      BY <1>2, <2>2 DEF IsHandshake, IsRequest
    <3>3. /\ Dialogue(conn, conn \in greeted, seat[conn], Ready, s, Coming)
          /\ link = "open" => SeatLine(s, Coming)
          /\ Coming \in Seq(DownFrame)
      BY <1>2, <2>2, <3>1, <3>2, LeftLine, LineTypes DEF ClientInv
    <3>4. /\ Pending(conn, s) = {}
          /\ \A i \in DOMAIN Coming : ~IsAck(Coming[i])
      BY <1>2, <2>2, <3>1, <3>2, AskedDialogue DEF ClientInv, StaleOK, DialogueOK
    <3>5. /\ Dialogue(conn, conn \in greeted, seat[conn], Ready, s, Append(Coming, JoinDenied))
          /\ link = "open" => SeatLine(s, Append(Coming, JoinDenied))
      BY <1>3, <3>3, <3>4, NewsLine
    <3>6. /\ Dialogue(conn, conn \in greeted, seat[conn], Ready, s, l)
          /\ link = "open" => SeatLine(s, l)
      BY <1>6, <2>1, <2>2, <3>3, <3>5
    <3> QED BY <1>1, <1>2, <2>1, <2>2, <3>1, <3>6, OwnInv
  <2>3. CASE ~(k = conn /\ worker = "serving")
    <3>1. worker = "serving" =>
              /\ up'[conn] = up[conn] /\ Coming' = l
              /\ Dialogue(conn, conn \in greeted, seat[conn], Ready, Sent(conn), l)
              /\ link = "open" => SeatLine(Sent(conn), l)
      BY <1>2, <1>6, <2>1, <2>3, LineTypes DEF ClientInv, DialogueOK, SeatOK
    <3> QED BY <1>1, <1>2, <2>1, <3>1, OthersInv
  <2> QED BY <2>2, <2>3
<1> QED BY <1>5, <1>7, <1>8, <1>9, <1>10 DEF ClientInv

\* A client in a room waits for no answer.
LEMMA SeatedLine ==
    ASSUME ClientInv, worker = "serving", seat[conn] # NoRoom
    PROVE  /\ conn \in Conns /\ conn \in greeted /\ Coming \in Seq(DownFrame)
           /\ Pending(conn, Sent(conn)) = {}
           /\ \A i \in DOMAIN Coming : ~IsAck(Coming[i])
           /\ Dialogue(conn, conn \in greeted, seat[conn], Ready, Sent(conn), Coming)
           /\ link = "open" => SeatLine(Sent(conn), Coming)
<1>1. /\ conn \in Conns /\ Coming \in Seq(DownFrame)
      /\ Dialogue(conn, conn \in greeted, seat[conn], Ready, Sent(conn), Coming)
      /\ link = "open" => SeatLine(Sent(conn), Coming)
  BY LineTypes DEF ClientInv, DialogueOK, SeatOK
<1>2. conn \in greeted
  BY <1>1 DEF ClientInv, StaleOK, Stale
<1> QED BY <1>1, <1>2, SeatedDialogue

\* Who is in room r, given the rooms of the connections and the mates in each.
MembersAt(st, ms, r) == {k \in Conns : st[k] = r} \cup ms[r]

\* Something happens in room r, and whoever is there is told so by m.
LEMMA NewsInv ==
    ASSUME ClientInv, SessionTypeOK',
           UNCHANGED <<uiVars, workerVars, conn, link>>,
           NEW r \in Rooms, NEW m \in DownFrame, ~IsAck(m), ~IsJoinAck(m),
           worker = "serving" =>
               /\ up'[conn] = up[conn] /\ seat'[conn] = seat[conn]
               /\ conn \in greeted' <=> conn \in greeted
               /\ Coming' = IF link = "open" /\ seat[conn] = r THEN Append(Coming, m)
                                                             ELSE Coming,
           link = "open" /\ seat[conn] # NoRoom =>
               \A x \in MembersAt(seat', mates', seat[conn]) \ {conn} :
                   \/ seat[conn] = r /\ Brings(m, x)
                   \/ x \in Members(seat[conn]) /\ (seat[conn] = r => ~Removes(m, x))
    PROVE  DialogueOK' /\ SeatOK' /\ MembersOK'
<1>1. PICK l : l = Coming'
  OBVIOUS
<1> PICK c : c = seat[conn]
  OBVIOUS
<1> r # NoRoom
  BY CodesAssumption
<1>2. ASSUME worker = "serving"
      PROVE  /\ Dialogue(conn, conn \in greeted, seat[conn], Ready, Sent(conn), l)
             /\ link = "open" => SeatLine(Sent(conn), l)
  <2>1. CASE link = "open" /\ seat[conn] = r
    <3>1. l = Append(Coming, m)
      BY <1>1, <1>2, <2>1
    <3> QED BY <1>2, <2>1, <3>1, SeatedLine, NewsLine
  <2>2. CASE ~(link = "open" /\ seat[conn] = r)
    BY <1>1, <1>2, <2>2 DEF ClientInv, DialogueOK, SeatOK
  <2> QED BY <2>1, <2>2
<1>3. DialogueOK' /\ SeatOK'
  BY <1>1, <1>2, OthersInv
<1>4. MembersOK'
  <2> SUFFICES ASSUME link = "open", c # NoRoom,
                      NEW x \in MembersAt(seat', mates', c) \ {conn}
               PROVE  KnowsOf(remotes, x, Coming')
    <3>1. link' = "open" => seat'[conn'] = c /\ conn' = conn
      BY DEF ClientInv, SessionTypeOK
    <3>2. ASSUME link' = "open", seat'[conn'] # NoRoom,
                 NEW x \in Members(seat[conn])' \ {conn'}
          PROVE  KnowsOf(remotes, x, Coming')
      <4>1. x \in MembersAt(seat', mates', c) \ {conn}
        BY <3>1, <3>2 DEF Members, Seated, MembersAt
      <4> QED BY <4>1, <3>1, <3>2
    <3> QED BY <3>2 DEF MembersOK, uiVars
  <2>1. worker = "serving" /\ Coming \in Seq(DownFrame)
    BY LineTypes DEF ClientInv, SessionTypeOK
  <2>2. CASE c = r
    <3>1. (KnowsOf(remotes, x, Coming) /\ ~Removes(m, x)) \/ Brings(m, x)
      BY <2>2 DEF ClientInv, MembersOK
    <3>2. KnowsOf(remotes, x, Append(Coming, m))
      BY <2>1, <3>1, KnowsAfterSent
    <3> QED BY <2>1, <2>2, <3>2
  <2>3. CASE c # r
    BY <2>1, <2>3 DEF ClientInv, MembersOK
  <2> QED BY <2>2, <2>3
<1> QED BY <1>3, <1>4

\* What is on its way after a frame was sent to some connections.
LEMMA ToldComing ==
    ASSUME ClientInv, NEW d \in [Conns -> Seq(DownFrame)], NEW ks, NEW m \in DownFrame,
           worker = "serving"
    PROVE  rx \o Tell(d, ks, m)[conn] =
               IF conn \in ks /\ link = "open" THEN Append(rx \o d[conn], m)
                                               ELSE rx \o d[conn]
<1>1. conn \in Conns /\ rx \in Seq(DownFrame)
  BY LineTypes DEF ClientInv
<1>2. Tell(d, ks, m)[conn] = IF conn \in ks /\ link = "open" THEN Append(d[conn], m)
                                                            ELSE d[conn]
  BY <1>1, TellFacts
<1>3. rx \o Append(d[conn], m) = Append(rx \o d[conn], m)
  BY <1>1, FramesJoin
<1> QED BY <1>2, <1>3

\* Another player comes or goes.
LEMMA MateMovesInv ==
    ASSUME ClientInv, NEW r \in Rooms, NEW x \in Mates, MateMoves(r, x), SessionTypeOK'
    PROVE  ClientInv'
<1>1. UNCHANGED <<uiVars, workerVars, conn, link, up, alive, greeted, seat>>
  BY DEF MateMoves
<1>2. PICK m \in {PlayerLeave(x), PlayerJoin(x)} :
          /\ down' = Tell(down, Seated(r), m)
          /\ IF m = PlayerLeave(x) THEN mates' = [mates EXCEPT ![r] = @ \ {x}]
                                   ELSE mates' = [mates EXCEPT ![r] = @ \cup {x}]
  BY DEF MateMoves, PlayerLeave, PlayerJoin
<1>3. /\ m \in DownFrame /\ ~IsAck(m) /\ ~IsJoinAck(m)
      /\ m # PlayerLeave(x) => Brings(m, x) /\ \A y : ~Removes(m, y)
      /\ \A y : y # x => ~Removes(m, y)
  <2>1. m \in DownFrame
    BY FrameTypes DEF Players
  <2>2. CASE m = PlayerLeave(x)
    BY <2>1, <2>2 DEF IsAck, IsJoinAck, Removes, PlayerLeave
  <2>3. CASE m = PlayerJoin(x)
    BY <2>1, <2>3 DEF IsAck, IsJoinAck, Brings, Removes, PlayerJoin
  <2> QED BY <2>2, <2>3
<1>4. down \in [Conns -> Seq(DownFrame)]
  BY DEF ClientInv, SessionTypeOK
<1>5. \A j \in Conns : j # conn \/ link # "open" => down'[j] = down[j]
  BY <1>2, <1>3, <1>4, TellFacts
<1>6. WorkerOK' /\ Unopened'
  BY <1>1, <1>5, ServerBase
<1>7. worker = "serving" =>
          Coming' = IF link = "open" /\ seat[conn] = r THEN Append(Coming, m) ELSE Coming
  <2> SUFFICES ASSUME worker = "serving"
               PROVE  Coming' = IF link = "open" /\ seat[conn] = r THEN Append(Coming, m)
                                                                  ELSE Coming
    OBVIOUS
  <2>1. conn \in Seated(r) <=> seat[conn] = r
    BY LineTypes DEF ClientInv, Seated
  <2>2. Coming' = rx \o Tell(down, Seated(r), m)[conn]
    BY <1>1, <1>2 DEF Coming, workerVars
  <2> QED BY <2>1, <2>2, <1>3, <1>4, ToldComing DEF Coming
<1>8. r # NoRoom
  BY CodesAssumption
<1>9. QueueOK'
  BY <1>1, <1>7, <1>8, ServerQueueOK
<1>10. StaleOK'
  <2>1. \A k \in Conns : Sent(k)' = Sent(k)
    BY <1>1 DEF Sent, workerVars
  <2> QED BY <2>1, <1>1 DEF ClientInv, StaleOK
<1>11. PICK c : c = seat[conn]
  OBVIOUS
<1>12. ASSUME link = "open", c # NoRoom, NEW y \in MembersAt(seat', mates', c) \ {conn}
       PROVE  \/ c = r /\ Brings(m, y)
              \/ y \in Members(c) /\ (c = r => ~Removes(m, y))
  <2>1. c \in Rooms
    BY <1>11, <1>12, LineTypes DEF ClientInv, SessionTypeOK
  <2>2. y \in Seated(c) \/ y \in mates'[c]
    BY <1>1, <1>12 DEF MembersAt, Seated
  <2>3. y \in Seated(c) => y # x
    <3>1. Seated(c) \subseteq 0..MaxConns
      BY DEF Seated, Conns
    <3> QED BY <3>1, MatesAssumption
  <2>4. mates \in [Rooms -> SUBSET Mates]
    BY DEF ClientInv, SessionTypeOK
  <2>5. CASE c # r
    <3>1. mates'[c] = mates[c]
      BY <1>2, <2>1, <2>4, <2>5
    <3> QED BY <3>1, <2>2, <2>5 DEF Members
  <2>6. CASE c = r /\ m = PlayerLeave(x)
    <3>1. mates'[r] = mates[r] \ {x}
      BY <1>2, <2>4, <2>6
    <3> QED BY <3>1, <2>2, <2>3, <2>6, <1>3 DEF Members
  <2>7. CASE c = r /\ m # PlayerLeave(x)
    <3>1. mates'[r] = mates[r] \cup {x}
      BY <1>2, <2>4, <2>7
    <3> QED BY <3>1, <2>2, <2>7, <1>3 DEF Members
  <2> QED BY <2>5, <2>6, <2>7
<1>13. link = "open" /\ seat[conn] # NoRoom =>
           \A y \in MembersAt(seat', mates', seat[conn]) \ {conn} :
               \/ seat[conn] = r /\ Brings(m, y)
               \/ y \in Members(seat[conn]) /\ (seat[conn] = r => ~Removes(m, y))
  BY <1>11, <1>12
<1>14. worker = "serving" =>
           /\ up'[conn] = up[conn] /\ seat'[conn] = seat[conn]
           /\ conn \in greeted' <=> conn \in greeted
           /\ Coming' = IF link = "open" /\ seat[conn] = r THEN Append(Coming, m)
                                                         ELSE Coming
  BY <1>1, <1>7
<1>15. DialogueOK' /\ SeatOK' /\ MembersOK'
  BY <1>1, <1>3, <1>13, <1>14, NewsInv
<1> QED BY <1>6, <1>9, <1>10, <1>15 DEF ClientInv

\* The server gives up a connection: nothing the client sent is left but what
\* is queued.
LEMMA DroppedLine ==
    ASSUME ClientInv, NEW k \in Conns, up'[k] = <<>>, UNCHANGED <<workerVars, conn>>
    PROVE  /\ Stale(k, k \in greeted, NoRoom, Sent(k)')
           /\ k = conn /\ worker = "serving" =>
                 /\ Sent(conn)' = queue
                 /\ seat[conn] # NoRoom => Pending(conn, queue) = {}
                 /\ Dialogue(conn, conn \in greeted, NoRoom, Ready, queue, Coming)
                 /\ Part(queue, Sent(conn)) /\ queue \in Seq(UpFrame)
<1>1. queue \in Seq(UpFrame) /\ up[k] \in Seq(UpFrame) /\ Sent(k) \in Seq(UpFrame)
  BY LineTypes DEF ClientInv, SessionTypeOK
<1>2. Stale(k, k \in greeted, seat[k], Sent(k))
  BY DEF ClientInv, StaleOK
<1>3. PICK e : e = Sent(k)'
  OBVIOUS
<1>4. e \in Seq(UpFrame) /\ Part(e, Sent(k))
  <2>1. CASE k = conn /\ worker = "serving"
    <3>1. e = queue /\ Sent(k) = up[k] \o queue
      BY <2>1, <1>1, <1>3, ConcatFacts DEF Sent, workerVars
    <3> QED BY <3>1, <1>1, PartFacts
  <2>2. CASE ~(k = conn /\ worker = "serving")
    <3>1. e = <<>>
      BY <2>2, <1>3 DEF Sent, workerVars
    <3>2. <<>> \in Seq(UpFrame)
      BY EmptySeq
    <3> QED BY <3>1, <3>2, <1>1, PartFacts
  <2> QED BY <2>1, <2>2
<1>5. Stale(k, k \in greeted, seat[k], e)
  BY <1>1, <1>2, <1>4, PartIsStale
<1>6. ASSUME k = conn, worker = "serving"
      PROVE  /\ Sent(conn)' = queue
             /\ seat[conn] # NoRoom => Pending(conn, queue) = {}
             /\ Dialogue(conn, conn \in greeted, NoRoom, Ready, queue, Coming)
             /\ Part(queue, Sent(conn)) /\ queue \in Seq(UpFrame)
  <2>1. Sent(conn)' = queue /\ e = queue
    BY <1>1, <1>3, <1>6, ConcatFacts DEF Sent, workerVars
  <2>2. /\ Dialogue(conn, conn \in greeted, seat[conn], Ready, Sent(conn), Coming)
        /\ Coming \in Seq(DownFrame)
    BY <1>6, LineTypes DEF ClientInv, DialogueOK
  <2>3. Part(queue, Sent(conn)) /\ Part(Coming, Coming)
    BY <1>4, <1>6, <2>1, <2>2, PartFacts
  <2>4. Dialogue(conn, conn \in greeted, seat[conn], Ready, queue, Coming)
    BY <1>1, <1>6, <2>2, <2>3, PartIsDialogue
  <2>5. Dialogue(conn, conn \in greeted, NoRoom, Ready, queue, Coming)
    <3>1. CASE seat[conn] = NoRoom
      BY <3>1, <2>4
    <3>2. CASE seat[conn] # NoRoom
      BY <3>2, <2>4, SeatedDialogue
    <3> QED BY <3>1, <3>2
  <2>6. seat[conn] # NoRoom => Pending(conn, queue) = {}
    BY <2>4, SeatedDialogue
  <2> QED BY <1>1, <2>1, <2>3, <2>5, <2>6
<1> QED BY <1>3, <1>5, <1>6, UnseatedStale

\* The lines of a connection that has lost its link or has none.
LEMMA DroppedInv ==
    ASSUME ClientInv, SessionTypeOK', UNCHANGED <<uiVars, workerVars, conn, link, greeted>>,
           link # "open", conn \in Conns, up'[conn] = <<>>, seat'[conn] = NoRoom,
           worker = "serving" => Coming' = Coming
    PROVE  DialogueOK' /\ SeatOK' /\ MembersOK'
<1>1. worker = "serving" =>
          Dialogue(conn, conn \in greeted, NoRoom, Ready, Sent(conn)', Coming)
  BY DroppedLine
<1>2. DialogueOK'
  BY <1>1 DEF DialogueOK, Ready, LastWorker, uiVars, workerVars
<1>3. SeatOK' /\ MembersOK'
  BY DEF SeatOK, MembersOK
<1> QED BY <1>2, <1>3

\* The other players are no connections of this process.
LEMMA MatesApart == Mates \cap Conns = {} /\ NoRoom \notin Rooms
BY MatesAssumption, CodesAssumption DEF Conns

\* The server sees that a connection is gone.
LEMMA OnCloseInv ==
    ASSUME ClientInv, NEW k \in Conns, OnClose(k), SessionTypeOK'
    PROVE  ClientInv'
<1>1. /\ k \in alive /\ (k = conn => link # "open")
      /\ alive' = alive \ {k}
      /\ seat' = [seat EXCEPT ![k] = NoRoom]
      /\ up' = [up EXCEPT ![k] = <<>>]
      /\ UNCHANGED <<uiVars, workerVars, conn, link, greeted, mates>>
  BY DEF OnClose
<1>2. /\ up \in [Conns -> Seq(UpFrame)] /\ down \in [Conns -> Seq(DownFrame)]
      /\ seat \in [Conns -> Rooms \cup {NoRoom}]
      /\ mates \in [Rooms -> SUBSET Mates]
  BY DEF ClientInv, SessionTypeOK
<1>3. /\ up'[k] = <<>> /\ seat'[k] = NoRoom
      /\ \A j \in Conns \ {k} : up'[j] = up[j] /\ seat'[j] = seat[j]
  BY <1>1, <1>2
<1>4. PICK r : r = seat[k]
  OBVIOUS
<1>5. PlayerLeave(k) \in DownFrame
  BY FrameTypes DEF Players
<1>6. down' = IF r = NoRoom THEN down ELSE Tell(down, Seated(r) \ {k}, PlayerLeave(k))
  BY <1>4 DEF OnClose
<1>7. \A j \in Conns : j # conn \/ link # "open" => down'[j] = down[j]
  <2>1. CASE r = NoRoom
    BY <2>1, <1>6
  <2>2. CASE r # NoRoom
    <3>1. PICK ks : ks = Seated(r) \ {k}
      OBVIOUS
    <3>2. PICK m \in DownFrame : m = PlayerLeave(k)
      BY <1>5
    <3>3. down' = Tell(down, ks, m)
      BY <3>1, <3>2, <2>2, <1>6
    <3>4. down \in [Conns -> Seq(DownFrame)]
      BY <1>2
    <3>5. /\ \A j \in Conns : j # conn => Tell(down, ks, m)[j] = down[j]
          /\ conn \in Conns => Tell(down, ks, m)[conn] =
                IF conn \in ks /\ link = "open" THEN Append(down[conn], m) ELSE down[conn]
      BY <3>2, <3>4, TellFacts
    <3> QED BY <3>3, <3>5
  <2> QED BY <2>1, <2>2
<1>8. WorkerOK' /\ Unopened'
  BY <1>1, <1>3, <1>7, ServerBase
<1>9. worker = "serving" =>
          Coming' = IF link = "open" /\ r # NoRoom /\ seat[conn] = r
                    THEN Append(Coming, PlayerLeave(k)) ELSE Coming
  <2> SUFFICES ASSUME worker = "serving"
               PROVE  Coming' = IF link = "open" /\ r # NoRoom /\ seat[conn] = r
                                THEN Append(Coming, PlayerLeave(k)) ELSE Coming
    OBVIOUS
  <2>1. CASE r = NoRoom
    BY <2>1, <1>1, <1>6 DEF Coming, workerVars
  <2>2. CASE r # NoRoom
    <3>1. conn \in Seated(r) \ {k} /\ link = "open" <=> seat[conn] = r /\ link = "open"
      BY <1>1, LineTypes DEF ClientInv, Seated
    <3>2. Coming' = rx \o Tell(down, Seated(r) \ {k}, PlayerLeave(k))[conn]
      BY <1>1, <1>6, <2>2 DEF Coming, workerVars
    <3> QED BY <2>2, <3>1, <3>2, <1>2, <1>5, ToldComing DEF Coming
  <2> QED BY <2>1, <2>2
<1>10. QueueOK'
  <2>1. worker = "serving" /\ up[conn] = <<>> => up'[conn] = <<>>
    BY <1>3, LineTypes DEF ClientInv
  <2> QED BY <1>1, <1>9, <2>1, ServerQueueOK
<1>11. StaleOK'
  <2> SUFFICES ASSUME NEW j \in Conns
               PROVE  Stale(j, j \in greeted, seat'[j], Sent(j)')
    BY <1>1 DEF StaleOK
  <2>1. CASE j = k
    BY <2>1, <1>1, <1>3, DroppedLine
  <2>2. CASE j # k
    <3>1. Sent(j)' = Sent(j)
      BY <2>2, <1>1, <1>3 DEF Sent, workerVars
    <3> QED BY <3>1, <2>2, <1>3 DEF ClientInv, StaleOK
  <2> QED BY <2>1, <2>2
<1>12. DialogueOK' /\ SeatOK' /\ MembersOK'
  <2>1. CASE k = conn
    BY <2>1, <1>1, <1>3, <1>9, DroppedInv
  <2>2. CASE k # conn
    <3>1. worker = "serving" =>
              /\ up'[conn] = up[conn] /\ seat'[conn] = seat[conn]
              /\ conn \in greeted' <=> conn \in greeted
              /\ Coming' = IF link = "open" /\ r # NoRoom /\ seat[conn] = r
                           THEN Append(Coming, PlayerLeave(k)) ELSE Coming
      BY <1>1, <1>3, <1>9, <2>2, LineTypes DEF ClientInv
    <3>2. CASE r = NoRoom
      <4>1. PICK l : l = Coming
        OBVIOUS
      <4>2. worker = "serving" =>
                /\ Coming' = l
                /\ Dialogue(conn, conn \in greeted, seat[conn], Ready, Sent(conn), l)
                /\ link = "open" => SeatLine(Sent(conn), l)
        BY <3>1, <3>2, <4>1 DEF ClientInv, DialogueOK, SeatOK
      <4>3. DialogueOK' /\ SeatOK'
        BY <1>1, <3>1, <4>2, OthersInv
      <4>4. seat' = seat
        BY <1>1, <1>2, <1>4, <3>2
      <4>5. MembersOK'
        <5>1. link = "open" => Coming' = Coming
          BY <3>1, <3>2 DEF ClientInv, SessionTypeOK
        <5> QED BY <1>1, <4>4, <5>1 DEF MembersOK, ClientInv, Members, Seated, uiVars
      <4> QED BY <4>3, <4>5
    <3>3. CASE r # NoRoom
      <4>1. r \in Rooms
        BY <3>3, <1>2, <1>4
      <4>2. PICK m : m = PlayerLeave(k)
        OBVIOUS
      <4>3. /\ m \in DownFrame /\ ~IsAck(m) /\ ~IsJoinAck(m)
            /\ \A x : x # k => ~Removes(m, x)
        BY <4>2, <1>5 DEF IsAck, IsJoinAck, Removes, PlayerLeave
      <4>4. worker = "serving" =>
                /\ up'[conn] = up[conn] /\ seat'[conn] = seat[conn]
                /\ conn \in greeted' <=> conn \in greeted
                /\ Coming' = IF link = "open" /\ seat[conn] = r THEN Append(Coming, m)
                                                              ELSE Coming
        BY <3>1, <3>3, <4>2
      <4>5. link = "open" /\ seat[conn] # NoRoom =>
                \A x \in MembersAt(seat', mates', seat[conn]) \ {conn} :
                    \/ seat[conn] = r /\ Brings(m, x)
                    \/ x \in Members(seat[conn]) /\ (seat[conn] = r => ~Removes(m, x))
        <5> SUFFICES ASSUME link = "open", seat[conn] # NoRoom,
                            NEW x \in MembersAt(seat', mates', seat[conn]) \ {conn}
                     PROVE  x \in Members(seat[conn]) /\ ~Removes(m, x)
          OBVIOUS
        <5>1. PICK c : c = seat[conn]
          OBVIOUS
        <5>2. conn \in Conns /\ c \in Rooms
          BY <5>1, <1>2, LineTypes DEF ClientInv, SessionTypeOK
        <5>3. x \in mates[c] \/ (x \in Conns /\ seat'[x] = c)
          BY <5>1, <1>1 DEF MembersAt
        <5>4. x # k
          <6>1. x \in mates[c] => x # k
            BY <5>2, <1>2, MatesApart
          <6> QED BY <6>1, <5>2, <5>3, <1>3, MatesApart
        <5>5. x \in Members(c)
          BY <5>3, <5>4, <1>3 DEF Members, Seated
        <5> QED BY <5>1, <5>4, <5>5, <4>3
      <4> QED BY <1>1, <4>1, <4>3, <4>4, <4>5, NewsInv
    <3> QED BY <3>2, <3>3
  <2> QED BY <2>1, <2>2
<1> QED BY <1>8, <1>10, <1>11, <1>12 DEF ClientInv

\* What is on its way to a client after somebody in room r was kicked.
LEMMA KickComing ==
    ASSUME ClientInv, NEW r \in Rooms, NEW x \in Players, OnKick(r, x)
    PROVE  /\ \A j \in Conns : j # conn \/ link # "open" => down'[j] = down[j]
           /\ worker = "serving" => Coming' =
                 IF link # "open" \/ seat[conn] # r THEN Coming
                 ELSE IF conn = x THEN Append(Append(Coming, Kick), CloseFrame)
                 ELSE Append(Append(Coming, Kick), PlayerLeave(x))
<1>1. UNCHANGED <<uiVars, workerVars, conn, link>>
  BY DEF OnKick
<1>2. PICK k1 : k1 = Seated(r)
  OBVIOUS
<1>3. PICK k2 : k2 = Seated(r) \ {x}
  OBVIOUS
<1>4. PICK k3 : k3 = Seated(r) \cap {x}
  OBVIOUS
<1>5. PICK m1 \in DownFrame : m1 = Kick
  BY FrameTypes
<1>6. PICK m2 \in DownFrame : m2 = PlayerLeave(x)
  BY FrameTypes
<1>7. PICK m3 \in DownFrame : m3 = CloseFrame
  BY FrameTypes
<1>8. PICK d1 : d1 = Tell(down, k1, m1)
  OBVIOUS
<1>9. PICK d2 : d2 = Tell(d1, k2, m2)
  OBVIOUS
<1>10. down' = Tell(d2, k3, m3)
  BY <1>2, <1>3, <1>4, <1>5, <1>6, <1>7, <1>8, <1>9 DEF OnKick
<1>11. down \in [Conns -> Seq(DownFrame)]
  BY DEF ClientInv, SessionTypeOK
<1>12. /\ d1 \in [Conns -> Seq(DownFrame)]
       /\ \A j \in Conns : j # conn => d1[j] = down[j]
       /\ conn \in Conns => d1[conn] =
             IF conn \in k1 /\ link = "open" THEN Append(down[conn], m1) ELSE down[conn]
  BY <1>5, <1>8, <1>11, TellFacts
<1>13. /\ d2 \in [Conns -> Seq(DownFrame)]
       /\ \A j \in Conns : j # conn => d2[j] = d1[j]
       /\ conn \in Conns => d2[conn] =
             IF conn \in k2 /\ link = "open" THEN Append(d1[conn], m2) ELSE d1[conn]
  BY <1>6, <1>9, <1>12, TellFacts
<1>14. /\ \A j \in Conns : j # conn => down'[j] = d2[j]
       /\ conn \in Conns => down'[conn] =
             IF conn \in k3 /\ link = "open" THEN Append(d2[conn], m3) ELSE d2[conn]
  BY <1>7, <1>10, <1>13, TellFacts
<1>15. \A j \in Conns : j # conn \/ link # "open" => down'[j] = down[j]
  BY <1>12, <1>13, <1>14
<1>16. ASSUME worker = "serving"
       PROVE  Coming' = IF link # "open" \/ seat[conn] # r THEN Coming
                        ELSE IF conn = x THEN Append(Append(Coming, m1), m3)
                        ELSE Append(Append(Coming, m1), m2)
  <2>1. conn \in Conns
    BY <1>16, LineTypes DEF ClientInv
  <2>2. /\ conn \in k1 <=> seat[conn] = r
        /\ conn \in k2 <=> seat[conn] = r /\ conn # x
        /\ conn \in k3 <=> seat[conn] = r /\ conn = x
    BY <2>1, <1>2, <1>3, <1>4 DEF Seated
  <2>3. rx \o d1[conn] = IF conn \in k1 /\ link = "open" THEN Append(rx \o down[conn], m1)
                                                         ELSE rx \o down[conn]
    BY <1>5, <1>8, <1>11, <1>16, ToldComing
  <2>4. rx \o d2[conn] = IF conn \in k2 /\ link = "open" THEN Append(rx \o d1[conn], m2)
                                                         ELSE rx \o d1[conn]
    BY <1>6, <1>9, <1>12, <1>16, ToldComing
  <2>5. rx \o down'[conn] = IF conn \in k3 /\ link = "open" THEN Append(rx \o d2[conn], m3)
                                                            ELSE rx \o d2[conn]
    BY <1>7, <1>10, <1>13, <1>16, ToldComing
  <2>6. Coming' = rx \o down'[conn] /\ Coming = rx \o down[conn]
    BY <1>1 DEF Coming, workerVars
  <2> QED BY <2>2, <2>3, <2>4, <2>5, <2>6
<1> QED BY <1>5, <1>6, <1>7, <1>15, <1>16

\* The frames that tell of a kick are no part of the dialogue.
LEMMA KickFrames ==
    ASSUME NEW x \in Players
    PROVE  /\ Kick \in DownFrame /\ ~IsAck(Kick) /\ ~IsJoinAck(Kick)
           /\ CloseFrame \in DownFrame /\ ~IsAck(CloseFrame) /\ ~IsJoinAck(CloseFrame)
           /\ PlayerLeave(x) \in DownFrame /\ ~IsAck(PlayerLeave(x))
           /\ ~IsJoinAck(PlayerLeave(x))
           /\ \A y : ~Removes(Kick, y)
           /\ \A y : y # x => ~Removes(PlayerLeave(x), y)
           /\ CloseFrame.t = "CLOSE"
BY FrameTypes DEF IsAck, IsJoinAck, Removes, PlayerLeave, Kick, CloseFrame

\* Somebody in room r is kicked, perhaps this client.
LEMMA OnKickInv ==
    ASSUME ClientInv, NEW r \in Rooms, NEW x \in Players, OnKick(r, x), SessionTypeOK'
    PROVE  ClientInv'
<1>1. /\ x \in Members(r)
      /\ seat' = [k \in Conns |-> IF k = x THEN NoRoom ELSE seat[k]]
      /\ mates' = [mates EXCEPT ![r] = @ \ {x}]
      /\ alive' = alive \ {x}
      /\ up' = [k \in Conns |-> IF k = x THEN <<>> ELSE up[k]]
      /\ UNCHANGED <<uiVars, workerVars, conn, link, greeted>>
  BY DEF OnKick
<1>2. /\ seat \in [Conns -> Rooms \cup {NoRoom}] /\ conn \in 0..MaxConns
      /\ mates \in [Rooms -> SUBSET Mates] /\ r # NoRoom
  BY MatesApart DEF ClientInv, SessionTypeOK
<1>3. /\ \A j \in Conns \ {x} : up'[j] = up[j] /\ seat'[j] = seat[j]
      /\ x \in Conns => /\ up'[x] = <<>> /\ seat'[x] = NoRoom
                        /\ seat[x] = r
      /\ conn = x => conn \in Conns
  <2>1. x \in Conns => seat[x] = r
    BY <1>1, <1>2, MatesApart DEF Members, Seated
  <2>2. conn = x => conn \in Conns
    BY <1>2, MatesAssumption DEF Players
  <2> QED BY <1>1, <2>1, <2>2
<1>4. /\ \A j \in Conns : j # conn \/ link # "open" => down'[j] = down[j]
      /\ worker = "serving" => Coming' =
            IF link # "open" \/ seat[conn] # r THEN Coming
            ELSE IF conn = x THEN Append(Append(Coming, Kick), CloseFrame)
            ELSE Append(Append(Coming, Kick), PlayerLeave(x))
  BY KickComing
<1>5. WorkerOK' /\ Unopened'
  <2>1. PICK ks : ks = Conns \cap {x}
    OBVIOUS
  <2>2. \A j \in ks : j \in alive \/ seat[j] # NoRoom
    BY <2>1, <1>2, <1>3
  <2>3. \A j \in Conns \ ks : up'[j] = up[j] /\ seat'[j] = seat[j]
    BY <2>1, <1>3
  <2> QED BY <2>2, <2>3, <1>1, <1>4, ServerBase
<1>6. QueueOK'
  <2>1. worker = "serving" /\ up[conn] = <<>> => up'[conn] = <<>>
    BY <1>1, LineTypes DEF ClientInv
  <2>2. worker = "serving" /\ up[conn] = <<>> /\ seat[conn] = NoRoom => Coming' = Coming
    BY <1>2, <1>4
  <2> QED BY <1>1, <2>1, <2>2, ServerQueueOK
<1>7. StaleOK'
  <2> SUFFICES ASSUME NEW j \in Conns
               PROVE  Stale(j, j \in greeted, seat'[j], Sent(j)')
    BY <1>1 DEF StaleOK
  <2>1. CASE j = x
    BY <2>1, <1>1, <1>3, DroppedLine
  <2>2. CASE j # x
    <3>1. Sent(j)' = Sent(j)
      BY <2>2, <1>1, <1>3 DEF Sent, workerVars
    <3> QED BY <3>1, <2>2, <1>3 DEF ClientInv, StaleOK
  <2> QED BY <2>1, <2>2
<1>8. \A c \in Rooms : \A y \in MembersAt(seat', mates', c) :
          y \in Members(c) /\ (c = r => y # x)
  <2> SUFFICES ASSUME NEW c \in Rooms, NEW y \in MembersAt(seat', mates', c)
               PROVE  y \in Members(c) /\ (c = r => y # x)
    OBVIOUS
  <2>1. CASE y \in Conns
    <3>1. y \notin mates'[c]
      BY <2>1, <1>1, <1>2, MatesApart
    <3>2. seat'[y] = c
      BY <3>1 DEF MembersAt
    <3>3. y # x /\ seat[y] = c
      BY <2>1, <3>2, <1>3, MatesApart
    <3> QED BY <2>1, <3>3 DEF Members, Seated
  <2>2. CASE y \notin Conns
    <3>1. y \in mates'[c]
      BY <2>2 DEF MembersAt
    <3>2. mates'[c] = IF c = r THEN mates[c] \ {x} ELSE mates[c]
      BY <1>1, <1>2
    <3> QED BY <3>1, <3>2 DEF Members
  <2> QED BY <2>1, <2>2
<1>9. CASE conn = x /\ link # "open"
  <2>1. worker = "serving" => Coming' = Coming
    BY <1>4, <1>9
  <2>2. DialogueOK' /\ SeatOK' /\ MembersOK'
    BY <2>1, <1>1, <1>3, <1>9, DroppedInv
  <2> QED BY <2>2, <1>5, <1>6, <1>7 DEF ClientInv
<1>10. CASE conn # x /\ (link # "open" \/ seat[conn] # r)
  <2>1. PICK l : l = Coming
    OBVIOUS
  <2>2. worker = "serving" =>
            /\ up'[conn] = up[conn] /\ seat'[conn] = seat[conn]
            /\ conn \in greeted' <=> conn \in greeted
    BY <1>1, <1>3, <1>10, LineTypes DEF ClientInv
  <2>3. worker = "serving" =>
            /\ Coming' = l
            /\ Dialogue(conn, conn \in greeted, seat[conn], Ready, Sent(conn), l)
            /\ link = "open" => SeatLine(Sent(conn), l)
    BY <1>4, <1>10, <2>1 DEF ClientInv, DialogueOK, SeatOK
  <2>4. DialogueOK' /\ SeatOK'
    BY <1>1, <2>2, <2>3, OthersInv
  <2>5. ASSUME link = "open", seat'[conn] # NoRoom,
               NEW y \in MembersAt(seat', mates', seat'[conn]) \ {conn}
        PROVE  KnowsOf(remotes, y, Coming')
    <3>1. worker = "serving" /\ conn \in Conns
      BY <2>5, LineTypes DEF ClientInv, SessionTypeOK
    <3>2. Coming' = Coming /\ seat'[conn] = seat[conn] /\ seat[conn] \in Rooms
      BY <3>1, <2>1, <2>2, <2>3, <2>5, <1>2
    <3>3. y \in Members(seat[conn]) \ {conn}
      BY <3>2, <2>5, <1>8
    <3> QED BY <3>2, <3>3, <2>5 DEF ClientInv, MembersOK
  <2>6. MembersOK'
    BY <2>5, <1>1 DEF MembersOK, MembersAt, Members, Seated, uiVars
  <2> QED BY <2>4, <2>6, <1>5, <1>6, <1>7 DEF ClientInv
<1>11. ASSUME link = "open", seat[conn] = r
       PROVE  /\ worker = "serving" /\ conn \in Conns /\ conn \in greeted
              /\ Coming \in Seq(DownFrame) /\ SeatLine(Sent(conn), Coming)
              /\ Pending(conn, Sent(conn)) = {}
              /\ \A m \in {CloseFrame, PlayerLeave(x)} :
                    /\ Dialogue(conn, conn \in greeted, seat[conn], Ready, Sent(conn),
                                Append(Append(Coming, Kick), m))
                    /\ \A i \in DOMAIN Append(Append(Coming, Kick), m) :
                          ~IsAck(Append(Append(Coming, Kick), m)[i])
                    /\ SeatLine(Sent(conn), Append(Append(Coming, Kick), m))
  <2>1. worker = "serving"
    BY <1>11 DEF ClientInv, SessionTypeOK
  <2>2. /\ conn \in Conns /\ conn \in greeted /\ Coming \in Seq(DownFrame)
        /\ Pending(conn, Sent(conn)) = {}
        /\ \A i \in DOMAIN Coming : ~IsAck(Coming[i])
        /\ Dialogue(conn, conn \in greeted, seat[conn], Ready, Sent(conn), Coming)
        /\ link = "open" => SeatLine(Sent(conn), Coming)
    BY <2>1, <1>2, <1>11, SeatedLine
  <2>3. PICK l : l = Append(Coming, Kick)
    OBVIOUS
  <2>4. /\ l \in Seq(DownFrame)
        /\ Dialogue(conn, conn \in greeted, seat[conn], Ready, Sent(conn), l)
        /\ \A i \in DOMAIN l : ~IsAck(l[i])
        /\ link = "open" => SeatLine(Sent(conn), l)
    BY <2>2, <2>3, KickFrames, NewsLine
  <2>5. ASSUME NEW m \in {CloseFrame, PlayerLeave(x)}
        PROVE  /\ Dialogue(conn, conn \in greeted, seat[conn], Ready, Sent(conn), Append(l, m))
               /\ \A i \in DOMAIN Append(l, m) : ~IsAck(Append(l, m)[i])
               /\ link = "open" => SeatLine(Sent(conn), Append(l, m))
    <3>1. m \in DownFrame /\ ~IsAck(m) /\ ~IsJoinAck(m)
      BY KickFrames
    <3> QED BY <3>1, <2>2, <2>4, NewsLine
  <2> QED BY <2>1, <2>2, <2>3, <2>5, <1>11
<1>12. CASE link = "open" /\ seat[conn] = r /\ conn # x
  <2>1. PICK l : l = Append(Append(Coming, Kick), PlayerLeave(x))
    OBVIOUS
  <2>2. /\ worker = "serving" /\ conn \in Conns /\ Coming \in Seq(DownFrame)
        /\ Coming' = l
        /\ Dialogue(conn, conn \in greeted, seat[conn], Ready, Sent(conn), l)
        /\ SeatLine(Sent(conn), l)
    BY <2>1, <1>4, <1>11, <1>12
  <2>3. DialogueOK' /\ SeatOK'
    BY <2>2, <1>1, <1>3, <1>12, OthersInv
  <2>4. ASSUME NEW y \in MembersAt(seat', mates', seat'[conn]) \ {conn}
        PROVE  KnowsOf(remotes, y, Coming')
    <3>1. seat'[conn] = seat[conn]
      BY <2>2, <1>3, <1>12
    <3>2. y \in Members(seat[conn]) \ {conn} /\ y # x
      BY <3>1, <2>4, <1>8, <1>12
    <3>3. KnowsOf(remotes, y, Coming)
      BY <3>2, <1>2, <1>12 DEF ClientInv, MembersOK
    <3>4. PICK e : e = Append(Coming, Kick)
      OBVIOUS
    <3>5. e \in Seq(DownFrame)
      BY <3>4, <2>2, KickFrames, AppendProperties
    <3>6. KnowsOf(remotes, y, e)
      BY <3>3, <3>4, <2>2, KickFrames, KnowsAfterSent
    <3>7. PICK m \in DownFrame : m = PlayerLeave(x)
      BY KickFrames
    <3>8. ~Removes(m, y)
      BY <3>2, <3>7, KickFrames
    <3>9. KnowsOf(remotes, y, Append(e, m))
      BY <3>5, <3>6, <3>7, <3>8, KnowsAfterSent
    <3> QED BY <3>4, <3>7, <3>9, <2>1, <2>2
  <2>5. MembersOK'
    BY <2>4, <1>1 DEF MembersOK, MembersAt, Members, Seated, uiVars
  <2> QED BY <2>3, <2>5, <1>5, <1>6, <1>7 DEF ClientInv
<1>13. CASE link = "open" /\ conn = x
  <2>1. conn \in Conns /\ seat[conn] = r /\ up'[conn] = <<>> /\ seat'[conn] = NoRoom
    BY <1>3, <1>13
  <2>2. PICK l : l = Append(Append(Coming, Kick), CloseFrame)
    OBVIOUS
  <2>3. /\ worker = "serving" /\ conn \in greeted /\ Coming \in Seq(DownFrame)
        /\ Coming' = l
        /\ Dialogue(conn, conn \in greeted, seat[conn], Ready, Sent(conn), l)
        /\ \A i \in DOMAIN l : ~IsAck(l[i])
        /\ SeatLine(Sent(conn), l)
    BY <2>1, <2>2, <1>4, <1>11, <1>13
  <2>4. /\ Sent(conn)' = queue
        /\ Part(queue, Sent(conn)) /\ queue \in Seq(UpFrame)
        /\ Pending(conn, queue) = {}
    BY <2>1, <2>3, <1>1, <1>2, DroppedLine
  <2>5. l \in Seq(DownFrame) /\ \E i \in DOMAIN l : l[i].t = "CLOSE"
    <3>1. PICK e : e = Append(Coming, Kick)
      OBVIOUS
    <3>2. e \in Seq(DownFrame)
      BY <3>1, <2>3, KickFrames, AppendProperties
    <3>3. /\ l \in Seq(DownFrame) /\ DOMAIN l = DOMAIN e \cup {Len(e) + 1}
          /\ l[Len(e) + 1] = CloseFrame
      BY <3>1, <3>2, <2>2, KickFrames, AppendFacts
    <3> QED BY <3>3, KickFrames
  <2>6. Dialogue(conn, conn \in greeted, NoRoom, Ready, queue, l)
    <3>1. Sent(conn) \in Seq(UpFrame)
      BY <2>1, LineTypes DEF ClientInv
    <3>2. Part(l, l)
      BY <2>5, PartFacts
    <3>3. Dialogue(conn, conn \in greeted, seat[conn], Ready, queue, l)
      BY <2>3, <2>4, <2>5, <3>1, <3>2, PartIsDialogue
    <3> QED BY <3>3, <2>1, <1>2, SeatedDialogue
  <2>7. DialogueOK'
    BY <2>1, <2>3, <2>4, <2>6, <1>1 DEF DialogueOK, Ready, LastWorker, uiVars, workerVars
  <2>8. \A c : InRoom(c, l) => InRoom(c, l)'
    BY <2>5, <1>1 DEF InRoom, uiVars
  <2>9. SeatLine(Sent(conn), Coming)'
    <3>1. LastWorker' /\ localId' = conn' /\ conn' \in greeted' /\ conn' = conn
      BY <2>3, <1>1 DEF SeatLine, LastWorker, uiVars, workerVars
    <3>2. status' = "insession" => InRoom(shown, Coming)'
      BY <2>3, <2>8, <1>1 DEF SeatLine, uiVars, InRoom
    <3>3. \A i \in DOMAIN Coming' : IsJoinAck(Coming'[i]) => InRoom(Coming[i].room, Coming)'
      <4>1. \A i \in DOMAIN l : IsJoinAck(l[i]) => InRoom(l[i].room, l)
        BY <2>3 DEF SeatLine
      <4> QED BY <4>1, <2>3, <2>5, <1>1 DEF InRoom, uiVars
    <3>4. Pending(conn, Sent(conn))' = {}
      BY <2>4, <1>1 DEF Pending
    <3> QED BY <3>1, <3>2, <3>3, <3>4, <2>3 DEF SeatLine
  <2>10. SeatOK'
    BY <2>1, <2>9, <1>1 DEF SeatOK
  <2>11. MembersOK'
    BY <2>1, <1>1 DEF MembersOK
  <2> QED BY <2>7, <2>10, <2>11, <1>5, <1>6, <1>7 DEF ClientInv
<1> QED BY <1>9, <1>10, <1>12, <1>13

\* What is on its way to a client after connection k was granted room r.
LEMMA GrantComing ==
    ASSUME ClientInv, NEW k \in Conns, NEW r \in Rooms, OnJoinGranted(k, r)
    PROVE  /\ \A j \in Conns : j # conn \/ link # "open" => down'[j] = down[j]
           /\ worker = "serving" => Coming' =
                 IF link = "open" /\ conn = k
                 THEN Append(Coming, JoinAck(r, Members(r)))
                 ELSE IF link = "open" /\ seat[conn] = r
                 THEN Append(Coming, PlayerJoin(k))
                 ELSE Coming
<1>1. UNCHANGED <<uiVars, workerVars, conn, link>> /\ seat[k] = NoRoom /\ r # NoRoom
  BY MatesApart DEF OnJoinGranted, ServerHandles, MayJoin
<1>2. PICK k1 : k1 = Seated(r)
  OBVIOUS
<1>3. PICK m1 \in DownFrame : m1 = PlayerJoin(k)
  BY FrameTypes DEF Players
<1>4. PICK m2 \in DownFrame : m2 = JoinAck(r, Members(r))
  <2>1. Members(r) \in SUBSET Players
    BY DEF Members, Seated, Players, ClientInv, SessionTypeOK
  <2> QED BY <2>1, FrameTypes
<1>5. PICK d1 : d1 = Tell(down, k1, m1)
  OBVIOUS
<1>6. PICK k2 : k2 = {k}
  OBVIOUS
<1>7. down' = Tell(d1, k2, m2)
  BY <1>2, <1>3, <1>4, <1>5, <1>6 DEF OnJoinGranted
<1>8. down \in [Conns -> Seq(DownFrame)]
  BY DEF ClientInv, SessionTypeOK
<1>9. /\ d1 \in [Conns -> Seq(DownFrame)]
      /\ \A j \in Conns : j # conn => d1[j] = down[j]
      /\ conn \in Conns => d1[conn] =
            IF conn \in k1 /\ link = "open" THEN Append(down[conn], m1) ELSE down[conn]
  BY <1>3, <1>5, <1>8, TellFacts
<1>10. /\ \A j \in Conns : j # conn => down'[j] = d1[j]
       /\ conn \in Conns => down'[conn] =
             IF conn \in k2 /\ link = "open" THEN Append(d1[conn], m2) ELSE d1[conn]
  BY <1>4, <1>7, <1>9, TellFacts
<1>11. \A j \in Conns : j # conn \/ link # "open" => down'[j] = down[j]
  BY <1>9, <1>10
<1>12. ASSUME worker = "serving"
       PROVE  Coming' = IF link = "open" /\ conn = k THEN Append(Coming, m2)
                        ELSE IF link = "open" /\ seat[conn] = r THEN Append(Coming, m1)
                        ELSE Coming
  <2>1. conn \in k1 <=> seat[conn] = r
    BY <1>2, <1>12, LineTypes DEF ClientInv, Seated
  <2>2. rx \o d1[conn] = IF conn \in k1 /\ link = "open" THEN Append(rx \o down[conn], m1)
                                                         ELSE rx \o down[conn]
    BY <1>3, <1>5, <1>8, <1>12, ToldComing
  <2>3. rx \o down'[conn] = IF conn \in k2 /\ link = "open" THEN Append(rx \o d1[conn], m2)
                                                            ELSE rx \o d1[conn]
    BY <1>4, <1>7, <1>9, <1>12, ToldComing
  <2>4. Coming' = rx \o down'[conn] /\ Coming = rx \o down[conn]
    BY <1>1 DEF Coming, workerVars
  <2> QED BY <2>1, <2>2, <2>3, <2>4, <1>1, <1>6
<1> QED BY <1>3, <1>4, <1>11, <1>12

\* JOIN_REQUEST is granted.
LEMMA OnJoinGrantedInv ==
    ASSUME ClientInv, NEW k \in Conns, NEW r \in Rooms, OnJoinGranted(k, r), SessionTypeOK'
    PROVE  ClientInv'
<1>1. /\ ServerHandles(k, "JOIN_REQUEST") /\ k \in greeted /\ seat[k] = NoRoom
      /\ Grants(Head(up[k]).ask, r)
      /\ seat' = [seat EXCEPT ![k] = r] /\ greeted' = greeted
  BY DEF OnJoinGranted, MayJoin
<1>2. /\ k \in alive /\ up[k] # <<>> /\ Head(up[k]).t = "JOIN_REQUEST"
      /\ UNCHANGED <<uiVars, workerVars, conn, link, alive, mates>>
      /\ Sent(k) \in Seq(UpFrame) /\ Sent(k) # <<>>
      /\ Sent(k)[1] = Head(up[k])
      /\ Sent(k)' = Tail(Sent(k))
      /\ k = conn => Sent(conn)' = Tail(Sent(k))
      /\ \A j \in Conns \ {k} : Sent(j)' = Sent(j) /\ up'[j] = up[j]
  BY <1>1, ServerHandlesFacts
<1>3. /\ seat \in [Conns -> Rooms \cup {NoRoom}] /\ r # NoRoom
      /\ mates \in [Rooms -> SUBSET Mates]
  BY MatesApart DEF ClientInv, SessionTypeOK
<1>4. seat'[k] = r /\ \A j \in Conns \ {k} : seat'[j] = seat[j]
  BY <1>1, <1>3
<1>5. /\ \A j \in Conns : j # conn \/ link # "open" => down'[j] = down[j]
      /\ worker = "serving" => Coming' =
            IF link = "open" /\ conn = k THEN Append(Coming, JoinAck(r, Members(r)))
            ELSE IF link = "open" /\ seat[conn] = r THEN Append(Coming, PlayerJoin(k))
            ELSE Coming
  BY GrantComing
<1>6. WorkerOK' /\ Unopened'
  BY <1>1, <1>2, <1>4, <1>5, ServerBase
<1>7. QueueOK'
  <2>1. worker = "serving" /\ up[conn] = <<>> => k # conn /\ conn \in Conns
    BY <1>2, LineTypes DEF ClientInv
  <2> QED BY <1>1, <1>2, <1>3, <1>5, <2>1, ServerQueueOK
<1>8. \A j \in Conns : Stale(j, j \in greeted, seat[j], Sent(j))
  BY DEF ClientInv, StaleOK
<1>9. StaleOK'
  <2> SUFFICES ASSUME NEW j \in Conns
               PROVE  Stale(j, j \in greeted, seat'[j], Sent(j)')
    BY <1>1 DEF StaleOK
  <2>1. CASE j = k
    <3>1. Stale(k, TRUE, NoRoom, Sent(k))
      BY <1>1, <1>8 DEF Stale
    <3>2. Stale(k, TRUE, r, Tail(Sent(k)))
      BY <3>1, <1>2, GrantedStale DEF IsRequest
    <3> QED BY <3>2, <2>1, <1>1, <1>2, <1>4 DEF Stale
  <2>2. CASE j # k
    BY <2>2, <1>2, <1>4, <1>8
  <2> QED BY <2>1, <2>2
<1>10. \A c \in Rooms : \A y \in MembersAt(seat', mates', c) :
           y \in Members(c) \/ (c = r /\ y = k)
  <2> SUFFICES ASSUME NEW c \in Rooms, NEW y \in MembersAt(seat', mates', c)
               PROVE  y \in Members(c) \/ (c = r /\ y = k)
    OBVIOUS
  <2>1. y \in mates[c] \/ (y \in Conns /\ seat'[y] = c)
    BY <1>2 DEF MembersAt
  <2>2. CASE y = k /\ y \notin mates[c]
    BY <2>1, <2>2, <1>4
  <2>3. CASE y # k /\ y \notin mates[c]
    BY <2>1, <2>3, <1>4 DEF Members, Seated
  <2>4. CASE y \in mates[c]
    BY <2>4 DEF Members
  <2> QED BY <2>2, <2>3, <2>4
<1>11. CASE k # conn
  <2>1. PICK m : m = PlayerJoin(k)
    OBVIOUS
  <2>2. /\ m \in DownFrame /\ ~IsAck(m) /\ ~IsJoinAck(m)
        /\ Brings(m, k) /\ \A x : ~Removes(m, x)
    <3>1. m \in DownFrame
      BY <2>1, FrameTypes DEF Players
    <3> QED BY <3>1, <2>1 DEF IsAck, IsJoinAck, Brings, Removes, PlayerJoin
  <2>3. worker = "serving" =>
            /\ up'[conn] = up[conn] /\ seat'[conn] = seat[conn]
            /\ conn \in greeted' <=> conn \in greeted
            /\ Coming' = IF link = "open" /\ seat[conn] = r THEN Append(Coming, m)
                                                          ELSE Coming
    BY <1>1, <1>2, <1>4, <1>5, <1>11, <2>1, LineTypes DEF ClientInv
  <2>4. link = "open" /\ seat[conn] # NoRoom =>
            \A x \in MembersAt(seat', mates', seat[conn]) \ {conn} :
                \/ seat[conn] = r /\ Brings(m, x)
                \/ x \in Members(seat[conn]) /\ (seat[conn] = r => ~Removes(m, x))
    <3> SUFFICES ASSUME link = "open", seat[conn] # NoRoom,
                        NEW x \in MembersAt(seat', mates', seat[conn]) \ {conn}
                 PROVE  \/ seat[conn] = r /\ Brings(m, x)
                        \/ x \in Members(seat[conn]) /\ ~Removes(m, x)
      OBVIOUS
    <3>1. seat[conn] \in Rooms
      BY <1>3, LineTypes DEF ClientInv, SessionTypeOK
    <3> QED BY <3>1, <1>10, <2>2
  <2>5. DialogueOK' /\ SeatOK' /\ MembersOK'
    BY <1>2, <2>2, <2>3, <2>4, NewsInv
  <2> QED BY <2>5, <1>6, <1>7, <1>9 DEF ClientInv
<1>12. CASE worker # "serving"
  <2>1. link # "open"
    BY <1>12 DEF ClientInv, SessionTypeOK
  <2>2. DialogueOK' /\ SeatOK' /\ MembersOK'
    BY <2>1, <1>2, <1>12 DEF DialogueOK, SeatOK, MembersOK, workerVars
  <2> QED BY <2>2, <1>6, <1>7, <1>9 DEF ClientInv
<1>13. CASE k = conn /\ worker = "serving"
  <2>1. PICK s : s = Tail(Sent(conn))
    OBVIOUS
  <2>2. PICK l : l = Coming'
    OBVIOUS
  <2>3. PICK m : m = JoinAck(r, Members(r))
    OBVIOUS
  <2>4. m \in DownFrame /\ IsJoinAck(m) /\ m.room = r /\ \A x \in Members(r) : Brings(m, x)
    <3>1. Members(r) \in SUBSET Players
      BY DEF Members, Seated, Players, ClientInv, SessionTypeOK
    <3> QED BY <3>1, <2>3, FrameTypes DEF IsJoinAck, Brings, JoinAck
  <2>5. /\ Dialogue(conn, conn \in greeted, seat[conn], Ready, Sent(conn), Coming)
        /\ Stale(conn, conn \in greeted, seat[conn], Sent(conn))
        /\ IsRequest(Sent(conn)[1])
    BY <1>2, <1>8, <1>13 DEF ClientInv, DialogueOK, IsRequest
  <2>6. /\ Pending(conn, s) = {} /\ Coming = <<>>
        /\ Sent(conn)[1].on = conn /\ Ready
    <3>1. /\ Sent(conn) \in Seq(UpFrame) /\ Sent(conn) # <<>> /\ conn \in greeted
      BY <1>1, <1>2, <1>13
    <3>2. Pending(conn, s) = {}
      BY <3>1, <2>1, <2>5, AskedDialogue
    <3>3. 1 \in DOMAIN Sent(conn)
      BY <3>1, TailFacts
    <3>4. Sent(conn)[1].on = conn /\ 1 \in Pending(conn, Sent(conn))
      BY <3>1, <3>3, <2>5 DEF Stale, Pending
    <3>5. Coming = <<>> /\ Ready
      BY <3>4, <2>5 DEF Dialogue
    <3> QED BY <3>2, <3>4, <3>5
  <2>7. /\ l = IF link = "open" THEN Append(<<>>, m) ELSE <<>>
        /\ Sent(conn)' = s /\ conn \in greeted /\ seat'[conn] = r
    BY <1>1, <1>2, <1>4, <1>5, <1>13, <2>1, <2>2, <2>3, <2>6
  <2>8. Dialogue(conn, TRUE, r, Ready, s, l)
    BY <2>4, <2>6, <2>7, GrantedDialogue
  <2>9. DialogueOK'
    BY <2>2, <2>7, <2>8, <1>1, <1>2 DEF DialogueOK, Dialogue, Ready, LastWorker, uiVars, workerVars
  <2>10. <<>> \in Seq(DownFrame)
    BY EmptySeq
  <2>11. ASSUME link = "open" PROVE LastWorker' /\ SeatLine(Sent(conn), Coming)'
    <3>1. DOMAIN l = {1} /\ l[1] = m
      BY <2>4, <2>7, <2>10, <2>11, AppendFacts, EmptyDomain
    <3>2. LastWorker /\ SeatLine(Sent(conn), Coming)
      BY <1>2, <1>13, <2>11 DEF ClientInv, SeatOK
    <3>3. localId = conn /\ status = "connected"
      BY <3>2, <2>6, <2>7, EmptyDomain DEF SeatLine, Ready
    <3>4. 1 \in Pending(conn, Sent(conn))
      BY <1>2, <1>13, <2>5, <2>6, TailFacts DEF Pending
    <3>5. Sent(conn)[1].ask = asked
      BY <3>2, <3>4 DEF SeatLine
    <3>6. asked \in Rooms => r = asked
      BY <3>5, <1>1, <1>2, <1>13, CodesAssumption DEF Grants
    <3>7. InRoom(r, l)'
      BY <3>6, <2>7, <1>2, <1>3 DEF InRoom, uiVars
    <3>8. LastWorker' /\ localId' = conn' /\ conn' = conn /\ conn' \in greeted'
          /\ status' # "insession"
      BY <3>2, <3>3, <2>7, <1>1, <1>2 DEF LastWorker, uiVars, workerVars
    <3>9. \A i \in DOMAIN l : ~IsAck(l[i]) /\ l[i] = m
      BY <3>1, <2>4 DEF IsAck, IsJoinAck
    <3>10. \A i \in DOMAIN Coming' : IsJoinAck(Coming'[i]) => InRoom(Coming[i].room, Coming)'
      BY <3>7, <3>9, <2>2, <2>4 DEF InRoom
    <3>11. Pending(conn, Sent(conn))' = {}
      BY <2>6, <2>7, <1>2 DEF Pending
    <3> QED BY <3>8, <3>9, <3>10, <3>11, <2>2 DEF SeatLine
  <2>12. SeatOK'
    BY <2>11, <1>2 DEF SeatOK
  <2>13. ASSUME link = "open", NEW x \in MembersAt(seat', mates', r) \ {conn}
         PROVE  KnowsOf(remotes, x, Coming')
    <3>1. Brings(m, x)
      BY <1>10, <1>13, <2>4, <2>13
    <3>2. KnowsOf(remotes, x, Append(<<>>, m))
      BY <3>1, <2>4, <2>10, KnowsAfterSent
    <3> QED BY <3>2, <2>2, <2>7, <2>13
  <2>14. MembersOK'
    BY <2>7, <2>13, <1>2 DEF MembersOK, MembersAt, Members, Seated, uiVars
  <2> QED BY <2>9, <2>12, <2>14, <1>6, <1>7, <1>9 DEF ClientInv
<1> QED BY <1>11, <1>12, <1>13

-------------------------------------------------------------------------------
(***************************************************************************)
(* The theorems.                                                           *)
(***************************************************************************)

\* The client's and the server's steps together.
LEMMA ClientNextInv ==
    ASSUME ClientInv, [SessionNext]_vars
    PROVE  ClientInv'
<1>1. CASE SessionNext
  <2>1. SessionTypeOK'
    BY <1>1, SessionTypeStep DEF ClientInv
  <2>2. CASE (\E a \in Ask : HostOrJoin(a)) \/ LeaveSession \/ ConnectionLost
    BY <2>1, <2>2, ClosedInv
  <2>3. CASE GameSends
    BY <2>1, <2>3, GameSendsInv
  <2>4. CASE TcpConnects
    BY <2>1, <2>4, TcpConnectsInv
  <2>5. CASE StartWorker \/ ConnectFails \/ Retry
    BY <2>1, <2>5, UnconnectedInv
  <2>6. CASE Flush
    BY <2>1, <2>6, FlushInv
  <2>7. CASE Recv
    BY <2>1, <2>7, RecvInv
  <2>8. CASE LoopEnds \/ ReceiveClose
    BY <2>1, <2>8, ServingEndsInv
  <2>9. CASE ReceiveHandshakeAck
    BY <2>1, <2>9, ReceiveHandshakeAckInv
  <2>10. CASE ReceiveJoinAck \/ ReceivePlayerJoin \/ ReceivePlayerLeave \/ ReceiveRefusal
    BY <2>1, <2>10, ReceiveNewsInv
  <2>11. ASSUME NEW k \in Conns, OnMessage(k) PROVE ClientInv'
    BY <2>1, <2>11, OnHandshakeInv, OnJoinGrantedInv, OnJoinDeniedInv, OnGameFrameInv
       DEF OnMessage
  <2>12. ASSUME NEW k \in Conns, OnClose(k) PROVE ClientInv'
    BY <2>1, <2>12, OnCloseInv
  <2>13. ASSUME NEW r \in Rooms, NEW x \in Players, OnKick(r, x) PROVE ClientInv'
    BY <2>1, <2>13, OnKickInv
  <2>14. ASSUME NEW r \in Rooms, NEW x \in Mates, MateMoves(r, x) PROVE ClientInv'
    BY <2>1, <2>14, MateMovesInv
  <2>15. Worker => \/ StartWorker \/ Retry \/ Flush \/ Recv \/ LoopEnds \/ ReceiveClose
                   \/ ReceiveHandshakeAck \/ ReceiveJoinAck \/ ReceivePlayerJoin
                   \/ ReceivePlayerLeave \/ ReceiveRefusal
    BY DEF Worker, OnPacket
  <2> QED BY <1>1, <2>2, <2>3, <2>4, <2>5, <2>6, <2>7, <2>8, <2>9, <2>10, <2>11, <2>12,
             <2>13, <2>14, <2>15 DEF SessionNext
<1>2. CASE UNCHANGED vars
  <2>1. UNCHANGED <<ui, asked, status, lastError, shown, localId, remotes, entered,
                    running, worker, queue, rx, conn, link, up, down,
                    alive, greeted, seat, mates>>
    BY <1>2 DEF vars, uiVars, workerVars, netVars, serverVars
  <2>2. SessionTypeOK'
    BY <2>1 DEF ClientInv, SessionTypeOK
  <2>3. WorkerOK' /\ Unopened' /\ QueueOK'
    BY <2>1 DEF ClientInv, WorkerOK, Unopened, QueueOK, Coming
  <2>4. StaleOK' /\ DialogueOK'
    BY <2>1 DEF ClientInv, StaleOK, DialogueOK, Sent, Coming, Ready, LastWorker
  <2>5. SeatOK' /\ MembersOK'
    BY <2>1 DEF ClientInv, SeatOK, SeatLine, InRoom, MembersOK, Sent, Coming, LastWorker,
                Members, Seated
  <2> QED BY <2>2, <2>3, <2>4, <2>5 DEF ClientInv
<1> QED BY <1>1, <1>2

\* The inductive invariant: the two lines of the current connection carry at
\* most one frame of the dialogue, behind all that is left of earlier ones.
THEOREM ClientInvariance == SessionSpec => []ClientInv
<1>1. SessionInit => ClientInv
  BY SessionInitInv
<1>2. ClientInv /\ [SessionNext]_vars => ClientInv'
  BY ClientNextInv
<1> QED BY <1>1, <1>2, PTL DEF SessionSpec

\* Every variable keeps its type, and only a serving worker has a socket.
THEOREM SessionTypeCorrect == SessionSpec => []SessionTypeOK
<1>1. ClientInv => SessionTypeOK
  BY DEF ClientInv
<1> QED BY <1>1, ClientInvariance, PTL

\* A frame queued on one connection and sent on a later one changes nothing at
\* the server, whatever was queued, flushed and lost in between.
THEOREM StaleFramesIgnored == SessionSpec => []StaleFramesAreIgnored
<1>1. ASSUME ClientInv PROVE StaleFramesAreIgnored
  <2> SUFFICES ASSUME NEW k \in Conns, up[k] # <<>>
               PROVE  LET m == Head(up[k]) IN
                      /\ m.t = "JOIN_REQUEST" /\ m.on # k => k \notin greeted
                      /\ m.t = "GAME" /\ m.on # k => seat[k] = NoRoom
    BY DEF StaleFramesAreIgnored
  <2>1. PICK m : m = Head(up[k])
    OBVIOUS
  <2>2. /\ up[k] \in Seq(UpFrame) /\ queue \in Seq(UpFrame) /\ Sent(k) \in Seq(UpFrame)
        /\ Stale(k, k \in greeted, seat[k], Sent(k))
    BY <1>1, LineTypes DEF ClientInv, SessionTypeOK, StaleOK
  <2>3. Sent(k) # <<>> /\ Sent(k)[1] = m
    <3>1. CASE k = conn /\ worker = "serving"
      <4>1. Sent(k) = up[k] \o queue
        BY <3>1 DEF Sent
      <4> QED BY <4>1, <2>1, <2>2, FramesLeave
    <3>2. CASE ~(k = conn /\ worker = "serving")
      <4>1. Sent(k) = up[k]
        BY <3>2 DEF Sent
      <4> QED BY <4>1, <2>1, <2>2, TailFacts
    <3> QED BY <3>1, <3>2
  <2>4. 1 \in DOMAIN Sent(k)
    BY <2>2, <2>3, TailFacts
  <2>5. m.t = "JOIN_REQUEST" /\ m.on # k => k \notin greeted
    BY <2>2, <2>3, <2>4 DEF Stale, IsRequest
  <2>6. m.t = "GAME" /\ m.on # k => seat[k] = NoRoom
    BY <2>2, <2>3, <2>4 DEF Stale, IsGame
  <2> QED BY <2>1, <2>5, <2>6
<1> QED BY <1>1, ClientInvariance, PTL

\* What a quiet client that counts itself in session relies on.
LEMMA QuietFacts ==
    ASSUME ClientInv, Quiet, status = "insession"
    PROVE  /\ Coming = <<>> /\ link = "open" /\ localId = conn
           /\ shown # NoRoom /\ seat[conn] = shown
           /\ asked \in Rooms => shown = asked
<1>1. /\ ui = "free" /\ worker = "serving" /\ running /\ link = "open"
      /\ queue = <<>> /\ rx = <<>> /\ up[conn] = <<>> /\ down[conn] = <<>>
  BY DEF Quiet
<1>2. <<>> \in Seq(UpFrame) /\ <<>> \in Seq(DownFrame)
  BY EmptySeq
<1>3. Sent(conn) = <<>> /\ Coming = <<>>
  BY <1>1, <1>2, ConcatEmptySeq DEF Sent, Coming
<1>4. SeatLine(<<>>, <<>>)
  BY <1>1, <1>3 DEF ClientInv, SeatOK
<1>5. conn \in greeted
  BY <1>4, EmptyDomain DEF SeatLine
<1>6. localId = conn /\ InRoom(shown, <<>>)
  BY <1>4, <1>5, EmptyDomain DEF SeatLine
<1>7. shown # NoRoom /\ seat[conn] = shown /\ (asked \in Rooms => shown = asked)
  BY <1>6, EmptyDomain DEF InRoom
<1> QED BY <1>1, <1>3, <1>6, <1>7

\* A quiet client is in the room it shows, under its own id, and that is the
\* room it asked for last.
THEOREM QuietSessionAsked == SessionSpec => []QuietSessionIsTheAskedOne
<1>1. ClientInv => QuietSessionIsTheAskedOne
  BY QuietFacts DEF QuietSessionIsTheAskedOne
<1> QED BY <1>1, ClientInvariance, PTL

\* It misses none of the players that are there with it, whoever came and went
\* while it was joining.
THEOREM NobodyMissing == SessionSpec => []NobodyIsMissing
<1>1. ASSUME ClientInv PROVE NobodyIsMissing
  <2> SUFFICES ASSUME Quiet, status = "insession",
                      NEW x \in Members(seat[conn]) \ {conn}
               PROVE  x \in remotes
    BY DEF NobodyIsMissing
  <2>1. Coming = <<>> /\ link = "open" /\ seat[conn] # NoRoom
    BY <1>1, QuietFacts
  <2>2. KnowsOf(remotes, x, <<>>)
    BY <1>1, <2>1 DEF ClientInv, MembersOK
  <2> QED BY <2>2, KnowsAtLast
<1> QED BY <1>1, ClientInvariance, PTL

\* What a step looks like to whoever sees the status and whose worker it is.
LEMMA StatusStep ==
    ASSUME ClientInv, [SessionNext]_vars
    PROVE  Status!StatusNext \/ UNCHANGED Status!statusVars
<1> USE DEF StatusWorker, Status!statusVars
<1>1. /\ conn \in 0..MaxConns
      /\ worker = "serving" => conn > 0
      /\ conn = 0 => /\ entered = NoRoom
                     /\ status \in {"disconnected", "connecting"}
                     /\ ui = "free" /\ ~running => worker = "idle"
      /\ rx # <<>> => worker = "serving"
  BY DEF ClientInv, WorkerOK, SessionTypeOK
<1>2. ASSUME NEW a \in Ask, HostOrJoin(a) PROVE Status!Asks
  BY <1>2 DEF HostOrJoin, Disconnect, Status!Asks
<1>3. CASE LeaveSession
  BY <1>1, <1>3 DEF LeaveSession, Disconnect, Status!Leaves, Status!StatusNext
<1>4. CASE StartWorker
  BY <1>4 DEF StartWorker, Status!Starts, Status!StatusNext
<1>5. CASE GameSends \/ Flush \/ Recv
  <2>1. UNCHANGED <<ui, running, worker, conn, status>>
    BY <1>5 DEF GameSends, Flush, Recv, uiVars, workerVars, netVars
  <2> QED BY <2>1
<1>6. CASE TcpConnects
  <2>1. /\ UNCHANGED <<ui, running, status>>
        /\ worker = "connecting" /\ worker' = "serving"
    BY <1>6 DEF TcpConnects, uiVars
  <2> QED BY <2>1
<1>7. CASE ConnectFails \/ Retry \/ LoopEnds
  <2>1. UNCHANGED <<ui, running, conn, status>> /\ worker # "idle"
    BY <1>7 DEF ConnectFails, Retry, LoopEnds, uiVars, netVars
  <2> QED BY <1>1, <2>1
<1>8. CASE OnPacket
  <2>1. rx # <<>> /\ UNCHANGED <<ui, running, conn>> /\ worker = "serving"
    BY <1>1, <1>8 DEF OnPacket, Handles, ReceiveClose, ReceiveHandshakeAck, ReceiveJoinAck,
            ReceivePlayerJoin, ReceivePlayerLeave, ReceiveRefusal
  <2>2. StatusWorker # "none" /\ StatusWorker' = StatusWorker
    BY <1>1, <2>1
  <2>3. CASE ReceiveClose \/ ReceivePlayerJoin \/ ReceivePlayerLeave
    <3>1. UNCHANGED status
      BY <2>3 DEF ReceiveClose, ReceivePlayerJoin, ReceivePlayerLeave
    <3> QED BY <2>2, <3>1
  <2>4. CASE ReceiveHandshakeAck
    <3>1. status' = "connected"
      BY <2>4 DEF ReceiveHandshakeAck
    <3> QED BY <2>2, <3>1 DEF Status!Greeted, Status!StatusNext
  <2>5. CASE ReceiveJoinAck
    <3>1. /\ status' = "insession" /\ IsJoinAck(Head(rx))
          /\ rx' = Tail(rx) /\ UNCHANGED <<conn, down>>
      BY <2>5 DEF ReceiveJoinAck, Handles, IsJoinAck
    <3>2. StatusWorker = "last" => status = "connected"
      <4>1. 1 \in DOMAIN Coming /\ Coming[1] = Head(rx)
        BY <2>1, <3>1, ReceiveFacts
      <4>2. Ready
        BY <2>1, <3>1, <4>1 DEF ClientInv, DialogueOK, Dialogue
      <4> QED BY <4>2 DEF Ready, LastWorker
    <3> QED BY <2>2, <3>1, <3>2 DEF Status!Enters, Status!MayEnter, Status!StatusNext
  <2>6. CASE ReceiveRefusal
    <3>1. status' = "failed"
      BY <2>6 DEF ReceiveRefusal
    <3> QED BY <2>2, <3>1 DEF Status!Refused, Status!StatusNext
  <2> QED BY <1>8, <2>3, <2>4, <2>5, <2>6 DEF OnPacket
<1>9. CASE ConnectionLost
  BY <1>9 DEF ConnectionLost, uiVars, workerVars
<1>10. ASSUME NEW k \in Conns, OnMessage(k) \/ OnClose(k) PROVE UNCHANGED Status!statusVars
  BY <1>10 DEF OnMessage, OnHandshake, OnJoinGranted, OnJoinDenied, OnGameFrame,
          ServerHandles, OnClose, uiVars, workerVars
<1>11. ASSUME NEW r \in Rooms, NEW x \in Players, OnKick(r, x)
       PROVE  UNCHANGED Status!statusVars
  BY <1>11 DEF OnKick, uiVars, workerVars
<1>12. ASSUME NEW r \in Rooms, NEW x \in Mates, MateMoves(r, x)
       PROVE  UNCHANGED Status!statusVars
  BY <1>12 DEF MateMoves, uiVars, workerVars
<1>13. CASE UNCHANGED vars
  BY <1>13 DEF vars, uiVars, workerVars, netVars
<1> QED BY <1>2, <1>3, <1>4, <1>5, <1>6, <1>7, <1>8, <1>9, <1>10, <1>11, <1>12, <1>13
        DEF SessionNext, Worker, Status!StatusNext

\* The status keeps to the walk of SessionStatus: no answer to an earlier
\* connection or request puts the last one in session.
THEOREM StatusRefinement == SessionSpec => ImplementsStatus
<1>1. SessionInit => Status!StatusInit
  BY DEF SessionInit, Status!StatusInit, StatusWorker
<1>2. ClientInv /\ [SessionNext]_vars => [Status!StatusNext]_(Status!statusVars)
  BY StatusStep
<1> QED BY <1>1, <1>2, ClientInvariance, PTL DEF SessionSpec, ImplementsStatus, Status!StatusSpec

===============================================================================
