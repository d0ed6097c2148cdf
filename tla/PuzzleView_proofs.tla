--------------------------- MODULE PuzzleView_proofs --------------------------
(***************************************************************************)
(* The safety of the token rotation, that it implements TokenRotation, and *)
(* what the clients make of its frames, for every set of players, every    *)
(* set of puzzles and every bound.                                         *)
(***************************************************************************)
EXTENDS PuzzleView, OrderedMap_proofs, SequenceTheorems, FiniteSetTheorems, TLAPS

\* Rotating keeps the participants and never empties the queue.
LEMMA RotatedKeeps ==
    ASSUME NEW S, NEW q \in Seq(S), q # <<>>, Distinct(q)
    PROVE  /\ Rotated(q) \in Seq(S)
           /\ Rotated(q) # <<>>
           /\ ToSet(Rotated(q)) = ToSet(q)
           /\ Distinct(Rotated(q))
           /\ Len(q) = 1 => Head(Rotated(q)) = Head(q)
           /\ Len(q) # 1 => Head(Rotated(q)) # Head(q)
<1> DEFINE n == Len(q)
           r == Rotated(q)
<1>1. /\ n \in Nat \ {0} /\ DOMAIN q = 1..n
      /\ Head(q) = q[1] /\ Head(q) \in S
      /\ Tail(q) \in Seq(S) /\ Len(Tail(q)) = n - 1
      /\ \A i \in 1..(n - 1) : Tail(q)[i] = q[i + 1]
  BY EmptySeq, LenProperties, HeadTailProperties
<1>2. /\ r \in Seq(S) /\ r # <<>> /\ Len(r) = n
      /\ \A i \in 1..(n - 1) : r[i] = q[i + 1]
      /\ r[n] = q[1]
  <2>1. /\ r \in Seq(S) /\ r # <<>> /\ Len(r) = (n - 1) + 1
        /\ \A i \in 1..(n - 1) : r[i] = Tail(q)[i]
        /\ r[(n - 1) + 1] = Head(q)
    BY <1>1, AppendProperties DEF Rotated
  <2>2. (n - 1) + 1 = n
    BY <1>1
  <2> HIDE DEF r
  <2> QED BY <1>1, <2>1, <2>2
<1>3. DOMAIN r = 1..n /\ Head(r) = r[1]
  BY <1>2, LenProperties
<1> HIDE DEF n, r
<1>4. \A i \in 1..n : \E j \in 1..n : r[i] = q[j]
  <2>1. ASSUME NEW i \in 1..n PROVE \E j \in 1..n : r[i] = q[j]
    <3>1. CASE i = n
      <4>1. 1 \in 1..n
        BY <1>1
      <4> QED BY <3>1, <4>1, <1>2
    <3>2. CASE i # n
      <4>1. i \in 1..(n - 1) /\ i + 1 \in 1..n
        BY <3>2, <1>1
      <4> QED BY <4>1, <1>2
    <3> QED BY <3>1, <3>2
  <2> QED BY <2>1
<1>5. \A j \in 1..n : \E i \in 1..n : q[j] = r[i]
  <2>1. ASSUME NEW j \in 1..n PROVE \E i \in 1..n : q[j] = r[i]
    <3>1. CASE j = 1
      <4>1. n \in 1..n
        BY <1>1
      <4> QED BY <3>1, <4>1, <1>2
    <3>2. CASE j # 1
      <4>1. j - 1 \in 1..(n - 1) /\ j - 1 \in 1..n /\ (j - 1) + 1 = j
        BY <3>2, <1>1
      <4>2. r[j - 1] = q[(j - 1) + 1]
        BY <4>1, <1>2
      <4> QED BY <4>1, <4>2
    <3> QED BY <3>1, <3>2
  <2> QED BY <2>1
<1>6. ToSet(r) = ToSet(q)
  <2>1. ASSUME NEW x \in ToSet(r) PROVE x \in ToSet(q)
    <3>1. PICK i \in 1..n : x = r[i]
      BY <2>1, <1>3 DEF ToSet
    <3>2. PICK j \in 1..n : r[i] = q[j]
      BY <1>4
    <3> QED BY <3>1, <3>2, <1>1 DEF ToSet
  <2>2. ASSUME NEW x \in ToSet(q) PROVE x \in ToSet(r)
    <3>1. PICK j \in 1..n : x = q[j]
      BY <2>2, <1>1 DEF ToSet
    <3>2. PICK i \in 1..n : q[j] = r[i]
      BY <1>5
    <3> QED BY <3>1, <3>2, <1>3 DEF ToSet
  <2> QED BY <2>1, <2>2
<1>7. Distinct(r)
  <2> DEFINE at(i) == IF i = n THEN 1 ELSE i + 1
  <2>1. SUFFICES ASSUME NEW i \in 1..n, NEW j \in 1..n, r[i] = r[j]
                 PROVE  i = j
    BY <1>3 DEF Distinct
  <2>2. at(i) \in 1..n /\ at(j) \in 1..n
    BY <1>1
  <2>3. r[i] = q[at(i)] /\ r[j] = q[at(j)]
    <3>1. \A k \in 1..n : k # n => k \in 1..(n - 1)
      BY <1>1
    <3> QED BY <3>1, <1>2
  <2>4. at(i) = at(j)
    BY <2>1, <2>2, <2>3, <1>1 DEF Distinct
  <2> QED BY <2>4, <1>1
<1>8. n = 1 => Head(r) = Head(q)
  BY <1>1, <1>2, <1>3
<1>9. n # 1 => Head(r) # Head(q)
  <2>1. ASSUME n # 1 PROVE Head(r) # Head(q)
    <3>1. 1 \in 1..(n - 1) /\ 1 + 1 \in 1..n /\ 1 \in 1..n /\ 1 + 1 # 1
      BY <2>1, <1>1
    <3>2. Head(r) = q[1 + 1]
      BY <3>1, <1>2, <1>3
    <3> QED BY <3>1, <3>2, <1>1 DEF Distinct
  <2> QED BY <2>1
<1> QED BY <1>2, <1>6, <1>7, <1>8, <1>9 DEF n, r

-------------------------------------------------------------------------------
(***************************************************************************)
(* The inductive invariant: the properties the runs check together with    *)
(* the fact that no player is twice in the room, without which a restarted *)
(* puzzle could queue somebody twice.                                      *)
(***************************************************************************)
TInv ==
    /\ TokenTypeOK
    /\ Distinct(members)
    /\ ControllerHeadsQueue
    /\ OneTimeoutEach
    /\ NoPuzzleLeaks

\* What TInv says of one puzzle, with the members m and the puzzle's state.
Sound(m, on, q, c, h, n) ==
    /\ q \in Seq(Players) /\ Distinct(q) /\ ToSet(q) \subseteq ToSet(m)
    /\ q = <<>> => ~on /\ c = Nobody
    /\ q # <<>> => on /\ c = Head(q)
    /\ h \in BOOLEAN /\ (h <=> on)
    /\ n = IF on THEN 1 ELSE 0

SoundAt(z) == Sound(members, z \in active, queue[z], controller[z], handle[z], pending[z])

\* The empty queue.
LEMMA EmptyFacts == ToSet(<<>>) = {} /\ Distinct(<<>>)
BY EmptySeq DEF ToSet, Distinct

\* TInv, puzzle by puzzle.
LEMMA TInvPointwise ==
    TInv <=> /\ TokenTypeOK
             /\ Distinct(members)
             /\ \A z \in Puzzles : SoundAt(z)
             /\ members = <<>> => active = {}
<1>1. TInv => \A z \in Puzzles : SoundAt(z)
  <2>1. ASSUME TInv, NEW z \in Puzzles PROVE SoundAt(z)
    <3>1. queue[z] \in Seq(Players) /\ handle[z] \in BOOLEAN
      BY <2>1 DEF TInv, TokenTypeOK
    <3>2. CASE z \in active
      BY <2>1, <3>1, <3>2
         DEF TInv, ControllerHeadsQueue, OneTimeoutEach, Distinct, SoundAt, Sound
    <3>3. CASE z \notin active
      BY <2>1, <3>1, <3>3, EmptyFacts
         DEF TInv, OneTimeoutEach, NoPuzzleLeaks, SoundAt, Sound
    <3> QED BY <3>2, <3>3
  <2> QED BY <2>1
<1>2. ASSUME TokenTypeOK, Distinct(members), \A z \in Puzzles : SoundAt(z),
             members = <<>> => active = {}
      PROVE  TInv
  <2>1. ControllerHeadsQueue
    BY <1>2 DEF ControllerHeadsQueue, SoundAt, Sound, Distinct, TokenTypeOK
  <2>2. OneTimeoutEach
    BY <1>2 DEF OneTimeoutEach, SoundAt, Sound
  <2>3. NoPuzzleLeaks
    BY <1>2 DEF NoPuzzleLeaks, SoundAt, Sound
  <2> QED BY <1>2, <2>1, <2>2, <2>3 DEF TInv
<1> QED BY <1>1, <1>2 DEF TInv, NoPuzzleLeaks

\* The invariant holds before anybody has come.
LEMMA InitTInv == TokenInit => TInv
<1> SUFFICES ASSUME TokenInit PROVE TInv
  OBVIOUS
<1>1. TokenTypeOK
  BY EmptySeq DEF TokenInit, TokenTypeOK
<1>2. Distinct(members)
  BY EmptyFacts DEF TokenInit
<1>3. ASSUME NEW z \in Puzzles PROVE SoundAt(z)
  <2>1. /\ queue[z] = <<>> /\ controller[z] = Nobody /\ handle[z] = FALSE
        /\ pending[z] = 0 /\ z \notin active /\ <<>> \in Seq(Players)
    BY EmptySeq DEF TokenInit
  <2> QED BY <2>1, EmptyFacts DEF SoundAt, Sound
<1> QED BY <1>1, <1>2, <1>3, TInvPointwise DEF TokenInit

\* The same of the next state.
LEMMA TInvPointwiseNext ==
    ASSUME TokenTypeOK', Distinct(members'), \A z \in Puzzles : SoundAt(z)',
           members' = <<>> => active' = {}
    PROVE  TInv'
<1>1. TInv' <=> (/\ TokenTypeOK
                 /\ Distinct(members)
                 /\ \A z \in Puzzles : SoundAt(z)
                 /\ members = <<>> => active = {})'
  BY TInvPointwise, PTL
<1> QED BY <1>1

\* A player that enters disturbs no puzzle.
LEMMA EnterStep == ASSUME TInv, NEW p \in Players, Enter(p) PROVE TInv'
<1>1. TokenTypeOK /\ Distinct(members) /\ \A z \in Puzzles : SoundAt(z)
  BY TInvPointwise
<1>2. /\ members' \in Seq(Players) /\ Distinct(members') /\ members' # <<>>
      /\ ToSet(members) \subseteq ToSet(members')
  BY <1>1, MapSetNew DEF TokenTypeOK, Enter
<1>3. TokenTypeOK'
  BY <1>1, <1>2 DEF TokenTypeOK, Enter, sessionVars
<1>4. ASSUME NEW z \in Puzzles PROVE SoundAt(z)'
  BY <1>1, <1>2 DEF SoundAt, Sound, Enter, sessionVars
<1> QED BY <1>2, <1>3, <1>4, TInvPointwiseNext

\* A puzzle started, or started again, has the whole room in its queue and one timeout
\* (puzzle.ts startPuzzle).
LEMMA StartStep ==
    ASSUME TInv, NEW p \in Players, NEW z \in Puzzles, StartPuzzle(p, z)
    PROVE  TInv'
<1>1. TokenTypeOK /\ Distinct(members) /\ \A y \in Puzzles : SoundAt(y)
  BY TInvPointwise
<1>2. members # <<>> /\ members \in Seq(Players) /\ Head(members) \in Players
  BY <1>1, EmptyFacts, HeadTailProperties DEF TokenTypeOK, StartPuzzle
<1>3. Armed(handle[z], pending[z]) = 1
  BY <1>1 DEF SoundAt, Sound, Armed, Clear
<1>4. TokenTypeOK'
  BY <1>1, <1>2, <1>3 DEF TokenTypeOK, StartPuzzle
<1>5. ASSUME NEW y \in Puzzles PROVE SoundAt(y)'
  <2>1. CASE y = z
    <3>1. /\ z \in active' /\ queue'[z] = members /\ controller'[z] = Head(members)
          /\ handle'[z] = TRUE /\ pending'[z] = 1 /\ members' = members
      BY <1>1, <1>3 DEF TokenTypeOK, StartPuzzle
    <3> QED BY <3>1, <2>1, <1>1, <1>2 DEF SoundAt, Sound
  <2>2. CASE y # z
    <3>1. /\ y \in active' <=> y \in active
          /\ queue'[y] = queue[y] /\ controller'[y] = controller[y]
          /\ handle'[y] = handle[y] /\ pending'[y] = pending[y] /\ members' = members
      BY <2>2, <1>1 DEF TokenTypeOK, StartPuzzle
    <3>2. SoundAt(y)
      BY <1>1
    <3> QED BY <3>1, <3>2 DEF SoundAt, Sound
  <2> QED BY <2>1, <2>2
<1> QED BY <1>1, <1>2, <1>4, <1>5, TInvPointwiseNext DEF StartPuzzle

\* The token moves on: by a pass (own = FALSE) or by its timeout (own = TRUE).
LEMMA TurnStep ==
    ASSUME TInv, NEW z \in active, NEW own \in BOOLEAN,
           NextController(z, handle[z] /\ ~own, IF own THEN pending[z] - 1 ELSE pending[z]),
           UNCHANGED members
    PROVE  /\ TInv'
           /\ active' = active
           /\ queue' = [queue EXCEPT ![z] = Rotated(queue[z])]
           /\ controller' = [controller EXCEPT ![z] = Head(Rotated(queue[z]))]
<1> DEFINE q == queue[z]
           r == Rotated(q)
           held == handle[z] /\ ~own
           n == IF own THEN pending[z] - 1 ELSE pending[z]
<1>1. TokenTypeOK /\ Distinct(members) /\ \A y \in Puzzles : SoundAt(y)
  BY TInvPointwise
<1>2. z \in Puzzles /\ SoundAt(z)
  BY <1>1 DEF TokenTypeOK
<1>3. q \in Seq(Players) /\ Distinct(q) /\ q # <<>> /\ ToSet(q) \subseteq ToSet(members)
  BY <1>2 DEF SoundAt, Sound
<1>4. /\ r \in Seq(Players) /\ r # <<>> /\ Distinct(r) /\ ToSet(r) = ToSet(q)
      /\ Head(r) \in Players
  BY <1>3, RotatedKeeps, HeadTailProperties
<1>5. Armed(held, n) = 1
  BY <1>2 DEF SoundAt, Sound, Armed, Clear
<1>6. /\ active' = active
      /\ queue' = [queue EXCEPT ![z] = r]
      /\ controller' = [controller EXCEPT ![z] = Head(r)]
      /\ handle' = [handle EXCEPT ![z] = TRUE]
      /\ pending' = [pending EXCEPT ![z] = 1]
  <2> HIDE DEF r, held, n
  <2> QED BY <1>3, <1>4, <1>5 DEF NextController, r, held, n
<1> HIDE DEF q, r
<1>7. TokenTypeOK'
  BY <1>1, <1>4, <1>6 DEF TokenTypeOK
<1>8. ASSUME NEW y \in Puzzles PROVE SoundAt(y)'
  <2>1. CASE y = z
    <3>1. /\ z \in active' /\ queue'[z] = r /\ controller'[z] = Head(r)
          /\ handle'[z] = TRUE /\ pending'[z] = 1 /\ members' = members
      BY <1>1, <1>2, <1>6 DEF TokenTypeOK
    <3> QED BY <3>1, <2>1, <1>3, <1>4 DEF SoundAt, Sound
  <2>2. CASE y # z
    <3>1. /\ y \in active' <=> y \in active
          /\ queue'[y] = queue[y] /\ controller'[y] = controller[y]
          /\ handle'[y] = handle[y] /\ pending'[y] = pending[y] /\ members' = members
      BY <2>2, <1>1, <1>6 DEF TokenTypeOK
    <3>2. SoundAt(y)
      BY <1>1
    <3> QED BY <3>1, <3>2 DEF SoundAt, Sound
  <2> QED BY <2>1, <2>2
<1>9. members' = <<>> => active' = {}
  BY <1>6, TInvPointwise
<1>10. TInv'
  BY <1>1, <1>7, <1>8, <1>9, TInvPointwiseNext
<1> QED BY <1>6, <1>10 DEF q, r

\* What a leave does to one puzzle.
LEMMA LeaveAt ==
    ASSUME TInv, NEW p \in Players, Leave(p), NEW z \in Puzzles
    PROVE  /\ SoundAt(z)'
           /\ ToSet(queue'[z]) = ToSet(queue[z]) \ {p}
           /\ controller[z] # p => controller'[z] = controller[z]
           /\ controller[z] = p =>
                 controller'[z] = IF queue'[z] = <<>> THEN Nobody ELSE Head(queue'[z])
           /\ queue'[z] \in Seq(Players)
           /\ controller'[z] \in Players \cup {Nobody}
           /\ handle'[z] \in BOOLEAN /\ pending'[z] \in Nat
<1> DEFINE q == queue[z]
           left == MapDelete(q, p)
           ends == p \in ToSet(q) /\ left = <<>>
           hands == p \in ToSet(q) /\ controller[z] = p /\ ~ends
<1>1. TokenTypeOK /\ Distinct(members) /\ SoundAt(z)
  BY TInvPointwise
<1>2. /\ q \in Seq(Players) /\ Distinct(q) /\ ToSet(q) \subseteq ToSet(members)
      /\ q = <<>> => z \notin active /\ controller[z] = Nobody
      /\ q # <<>> => z \in active /\ controller[z] = Head(q)
      /\ handle[z] \in BOOLEAN /\ (handle[z] <=> z \in active)
      /\ pending[z] = IF z \in active THEN 1 ELSE 0
  BY <1>1 DEF SoundAt, Sound
<1>3. /\ left \in Seq(Players) /\ Distinct(left) /\ ToSet(left) = ToSet(q) \ {p}
      /\ q # <<>> /\ p # Head(q) => left # <<>> /\ Head(left) = Head(q)
  BY <1>2, MapDeleteKey
<1>4. ToSet(members') = ToSet(members) \ {p}
  BY <1>1, MapDeleteKey DEF Leave, TokenTypeOK
<1>5. /\ queue'[z] = left
      /\ controller'[z] = IF p \in ToSet(q) THEN NewController(controller[z], p, left)
                          ELSE controller[z]
      /\ z \in active' <=> z \in active /\ ~ends
      /\ handle'[z] = ((handle[z] /\ ~ends) \/ hands)
      /\ pending'[z] = IF ends THEN Clear(handle[z], pending[z])
                       ELSE IF hands THEN Armed(handle[z], pending[z]) ELSE pending[z]
  BY DEF Leave
<1> HIDE DEF left
<1>6. q # <<>> => Head(q) \in ToSet(q) /\ Head(q) \in Players
  BY <1>2, HeadTailProperties, EmptySeq, LenProperties DEF ToSet
<1>7. left # <<>> => Head(left) \in Players
  BY <1>3, HeadTailProperties
<1>8. CASE p \notin ToSet(q)
  <2>1. left = q
    BY <1>8 DEF MapDelete, left
  <2>2. /\ controller'[z] = controller[z] /\ (z \in active' <=> z \in active)
        /\ (handle'[z] <=> handle[z]) /\ handle'[z] \in BOOLEAN /\ pending'[z] = pending[z]
    BY <1>8, <1>5, <1>2
  <2>3. controller[z] # p
    BY <1>8, <1>2, <1>6, NobodyAssumption
  <2>4. SoundAt(z)'
    BY <2>1, <2>2, <1>2, <1>4, <1>5, <1>8 DEF SoundAt, Sound
  <2> QED BY <2>1, <2>2, <2>3, <2>4, <1>1, <1>2, <1>5, <1>8 DEF TokenTypeOK
<1>9. CASE p \in ToSet(q) /\ left = <<>>
  <2>1. q # <<>>
    BY <1>9, EmptyFacts
  <2>2. controller[z] = p /\ z \in active
    BY <2>1, <1>2, <1>3, <1>9
  <2>3. ends /\ ~hands
    BY <1>9
  <2>4. /\ controller'[z] = Nobody /\ z \notin active' /\ handle'[z] = FALSE
    <3>1. controller'[z] = Nobody
      BY <1>9, <1>5 DEF NewController
    <3>2. z \notin active'
      BY <2>3, <1>5
    <3>3. handle'[z] = ((handle[z] /\ FALSE) \/ FALSE)
      BY <2>3, <1>5, Zenon
    <3> QED BY <3>1, <3>2, <3>3
  <2>5. pending'[z] = 0
    BY <2>2, <2>3, <1>2, <1>5 DEF Clear
  <2>6. SoundAt(z)'
    BY <2>4, <2>5, <1>3, <1>4, <1>5, <1>9, EmptyFacts DEF SoundAt, Sound
  <2> QED BY <2>2, <2>4, <2>5, <2>6, <1>3, <1>5, <1>9
<1>10. CASE p \in ToSet(q) /\ left # <<>>
  <2>1. q # <<>> /\ z \in active /\ controller[z] = Head(q)
    BY <1>10, <1>2, EmptyFacts
  <2>2. ~ends /\ z \in active' /\ handle'[z] = TRUE
    BY <2>1, <1>10, <1>2, <1>5
  <2>3. pending'[z] = 1
    BY <2>1, <2>2, <1>2, <1>5 DEF Armed, Clear
  <2>4. controller'[z] = Head(left)
    <3>1. CASE controller[z] = p
      BY <3>1, <1>10, <1>5 DEF NewController
    <3>2. CASE controller[z] # p
      BY <3>2, <2>1, <1>3, <1>10, <1>5 DEF NewController
    <3> QED BY <3>1, <3>2
  <2>5. controller[z] # p => controller'[z] = controller[z]
    BY <2>1, <2>4, <1>3
  <2>6. SoundAt(z)'
    <3>1. ToSet(left) \subseteq ToSet(members')
      BY <1>2, <1>3, <1>4
    <3> QED BY <3>1, <2>2, <2>3, <2>4, <1>3, <1>5, <1>10 DEF SoundAt, Sound
  <2> QED BY <2>2, <2>3, <2>4, <2>5, <2>6, <1>3, <1>5, <1>7, <1>10
<1> QED BY <1>8, <1>9, <1>10

\* A player that leaves is taken out of every puzzle (puzzle.ts playerDisconnected).
LEMMA LeaveStep == ASSUME TInv, NEW p \in Players, Leave(p) PROVE TInv'
<1>1. TokenTypeOK /\ Distinct(members)
  BY TInvPointwise
<1>2. members' \in Seq(Players) /\ Distinct(members')
  BY <1>1, MapDeleteKey DEF Leave, TokenTypeOK
<1>3. \A z \in Puzzles : SoundAt(z)'
  BY LeaveAt
<1>4. TokenTypeOK'
  <2>1. active' \subseteq Puzzles
    BY <1>1 DEF Leave, TokenTypeOK
  <2>2. queue' \in [Puzzles -> Seq(Players)]
    <3>1. queue' = [z \in Puzzles |-> queue'[z]]
      BY DEF Leave
    <3> QED BY <3>1, LeaveAt
  <2>3. controller' \in [Puzzles -> Players \cup {Nobody}]
    <3>1. controller' = [z \in Puzzles |-> controller'[z]]
      BY DEF Leave
    <3> QED BY <3>1, LeaveAt
  <2>4. handle' \in [Puzzles -> BOOLEAN]
    <3>1. handle' = [z \in Puzzles |-> handle'[z]]
      BY DEF Leave
    <3> QED BY <3>1, LeaveAt
  <2>5. pending' \in [Puzzles -> Nat]
    <3>1. pending' = [z \in Puzzles |-> pending'[z]]
      BY DEF Leave
    <3> QED BY <3>1, LeaveAt
  <2> QED BY <1>2, <2>1, <2>2, <2>3, <2>4, <2>5 DEF TokenTypeOK
<1>5. members' = <<>> => active' = {}
  <2>1. ASSUME members' = <<>>, NEW z \in active' PROVE FALSE
    <3>1. z \in Puzzles /\ SoundAt(z)'
      BY <1>3, <1>4 DEF TokenTypeOK
    <3>2. queue'[z] # <<>> /\ queue'[z] \in Seq(Players) /\ ToSet(queue'[z]) \subseteq {}
      BY <2>1, <3>1, EmptyFacts DEF SoundAt, Sound
    <3>3. Head(queue'[z]) \in ToSet(queue'[z])
      BY <3>2, HeadTailProperties, EmptySeq, LenProperties DEF ToSet
    <3> QED BY <3>2, <3>3
  <2> QED BY <2>1
<1> QED BY <1>2, <1>3, <1>4, <1>5, TInvPointwiseNext

\* A pass, or the timeout the session holds; no other timeout is set.
LEMMA PassIsTurn ==
    ASSUME TInv, NEW p \in Players, NEW z \in Puzzles, Pass(p, z)
    PROVE  /\ z \in active
           /\ NextController(z, handle[z] /\ ~FALSE, IF FALSE THEN pending[z] - 1 ELSE pending[z])
           /\ UNCHANGED members
<1>1. (handle[z] /\ ~FALSE) = handle[z]
  BY DEF TInv, TokenTypeOK
<1> QED BY <1>1 DEF Pass

\* A timeout that fires is the puzzle's only one, so it is a turn like a pass.
LEMMA TimerIsTurn ==
    ASSUME TInv, NEW z \in Puzzles, TimerFires(z)
    PROVE  /\ z \in active
           /\ NextController(z, handle[z] /\ ~TRUE, IF TRUE THEN pending[z] - 1 ELSE pending[z])
           /\ UNCHANGED members
<1>1. z \in active /\ pending[z] = 1 /\ handle[z] = TRUE
  BY DEF TInv, OneTimeoutEach, TokenTypeOK, TimerFires
<1>2. ~(Clear(handle[z], pending[z]) > 0)
  BY <1>1 DEF Clear
<1>3. NextController(z, handle[z] /\ ~TRUE, pending[z] - 1)
  BY <1>2 DEF TimerFires
<1> QED BY <1>1, <1>3 DEF TimerFires

\* Every step of the puzzle manager keeps the invariant.
LEMMA NextTInv == TInv /\ [TokenNext]_tokenVars => TInv'
<1> SUFFICES ASSUME TInv, [TokenNext]_tokenVars PROVE TInv'
  OBVIOUS
<1>1. ASSUME NEW p \in Players, Enter(p) PROVE TInv'
  BY <1>1, EnterStep
<1>2. ASSUME NEW p \in Players, Leave(p) PROVE TInv'
  BY <1>2, LeaveStep
<1>3. ASSUME NEW p \in Players, NEW z \in Puzzles, StartPuzzle(p, z) PROVE TInv'
  BY <1>3, StartStep
<1>4. ASSUME NEW p \in Players, NEW z \in Puzzles, Pass(p, z) PROVE TInv'
  BY <1>4, PassIsTurn, TurnStep
<1>5. ASSUME NEW z \in Puzzles, TimerFires(z) PROVE TInv'
  BY <1>5, TimerIsTurn, TurnStep
<1>6. CASE UNCHANGED tokenVars
  BY <1>6 DEF tokenVars, sessionVars, TInv, TokenTypeOK, ControllerHeadsQueue,
              OneTimeoutEach, NoPuzzleLeaks
<1> QED BY <1>1, <1>2, <1>3, <1>4, <1>5, <1>6 DEF TokenNext

\* The invariant of the puzzle manager holds always; the theorems below follow from it.
THEOREM TokenInvariance == TokenSpec => []TInv
BY InitTInv, NextTInv, PTL DEF TokenSpec

\* Every variable keeps its type.
THEOREM TokenTypeCorrect == TokenSpec => []TokenTypeOK
BY TokenInvariance, PTL DEF TInv

\* The token of an active puzzle is with the head of its queue, a member.
THEOREM TokenWithMember == TokenSpec => []ControllerHeadsQueue
BY TokenInvariance, PTL DEF TInv

\* One timeout for each active puzzle and none for one that is over, so the
\* stray timeouts TimerFires allows for never exist.
THEOREM TimeoutsMatchPuzzles == TokenSpec => []OneTimeoutEach
BY TokenInvariance, PTL DEF TInv

\* A finished puzzle leaves nothing behind.
THEOREM PuzzlesNeverLeak == TokenSpec => []NoPuzzleLeaks
BY TokenInvariance, PTL DEF TInv

\* Somebody comes or goes, and the controller of a running puzzle stays.
LEMMA ChurnStep ==
    ASSUME TInv, TokenNext, members' # members, NEW z \in active,
           controller[z] \in ToSet(members')
    PROVE  /\ controller'[z] = controller[z]
           /\ pending'[z] = pending[z] /\ handle'[z] = handle[z]
           /\ ToSet(queue'[z]) = ToSet(queue[z]) \cap ToSet(members')
           /\ \A p, q \in ToSet(queue'[z]) :
                 ComesBefore(queue[z], p, q) => ComesBefore(queue'[z], p, q)
<1>1. TokenTypeOK /\ Distinct(members) /\ z \in Puzzles /\ SoundAt(z)
  BY TInvPointwise DEF TokenTypeOK
<1>2. /\ queue[z] \in Seq(Players) /\ ToSet(queue[z]) \subseteq ToSet(members)
      /\ queue[z] # <<>> /\ controller[z] = Head(queue[z])
      /\ handle[z] = TRUE /\ pending[z] = 1
  BY <1>1 DEF SoundAt, Sound
<1>3. CASE \E p \in Players : Enter(p)
  <2>1. PICK p \in Players : Enter(p)
    BY <1>3
  <2>2. ToSet(members') = ToSet(members) \cup {p}
    BY <1>1, <2>1, MapSetNew DEF Enter, TokenTypeOK
  <2>3. UNCHANGED <<queue, controller, handle, pending>>
    BY <2>1 DEF Enter, sessionVars
  <2> QED BY <1>2, <2>2, <2>3
<1>4. CASE \E p \in Players : Leave(p)
  <2>1. PICK p \in Players : Leave(p)
    BY <1>4
  <2>2. ToSet(members') = ToSet(members) \ {p}
    BY <1>1, <2>1, MapDeleteKey DEF Leave, TokenTypeOK
  <2>3. controller[z] # p
    BY <2>2
  <2>4. /\ SoundAt(z)' /\ ToSet(queue'[z]) = ToSet(queue[z]) \ {p}
        /\ controller'[z] = controller[z]
    BY <1>1, <2>1, <2>3, LeaveAt
  <2>5. Head(queue[z]) \in ToSet(queue[z])
    BY <1>2, HeadTailProperties, EmptySeq, LenProperties DEF ToSet
  <2>6. queue'[z] # <<>>
    BY <1>2, <2>3, <2>4, <2>5, EmptyFacts
  <2>7. handle'[z] = TRUE /\ pending'[z] = 1
    BY <2>4, <2>6 DEF SoundAt, Sound
  <2>8. queue'[z] = MapDelete(queue[z], p)
    BY <1>1, <2>1 DEF Leave
  <2>9. ASSUME NEW x \in ToSet(queue'[z]), NEW y \in ToSet(queue'[z]),
               ComesBefore(queue[z], x, y)
        PROVE  ComesBefore(queue'[z], x, y)
    BY <1>2, <2>4, <2>8, <2>9, MapDeleteOrder
  <2> QED BY <1>2, <2>2, <2>4, <2>7, <2>9
<1>5. ASSUME NEW p \in Players, NEW y \in Puzzles, StartPuzzle(p, y) \/ Pass(p, y)
      PROVE  FALSE
  BY <1>5 DEF StartPuzzle, Pass
<1>6. ASSUME NEW y \in Puzzles, TimerFires(y) PROVE FALSE
  BY <1>6 DEF TimerFires
<1> QED BY <1>3, <1>4, <1>5, <1>6 DEF TokenNext

\* Others may come and go: a controller that stays keeps its turn, the timeout
\* that ends it, and the order of those who are next.
THEOREM TurnsSurvive == TokenSpec => TurnsSurviveChurn
<1> DEFINE Undisturbed(z) ==
               members' # members /\ controller[z] \in ToSet(members') =>
                   /\ controller'[z] = controller[z]
                   /\ pending'[z] = pending[z] /\ handle'[z] = handle[z]
                   /\ ToSet(queue'[z]) = ToSet(queue[z]) \cap ToSet(members')
                   /\ \A p, q \in ToSet(queue'[z]) :
                         ComesBefore(queue[z], p, q) => ComesBefore(queue'[z], p, q)
<1>1. ASSUME TInv, [TokenNext]_tokenVars, NEW z \in active PROVE Undisturbed(z)
  <2>1. CASE TokenNext
    BY <1>1, <2>1, ChurnStep
  <2>2. CASE UNCHANGED tokenVars
    BY <2>2 DEF tokenVars
  <2> QED BY <1>1, <2>1, <2>2
<1>2. TInv /\ [TokenNext]_tokenVars => [\A z \in active : Undisturbed(z)]_tokenVars
  BY <1>1
<1> QED BY <1>2, TokenInvariance, PTL DEF TokenSpec, TurnsSurviveChurn

-------------------------------------------------------------------------------
(***************************************************************************)
(* The refinement.  A turn maps to HandOver, or to a stutter when there is *)
(* nobody else to hand the token to.                                       *)
(***************************************************************************)
group == [z \in Puzzles |-> ToSet(queue[z])]

\* A player that enters arrives in the abstract rotation.
LEMMA EnterArrives == ASSUME TInv, NEW p \in Players, Enter(p) PROVE TR!Arrive(p)
<1>1. ToSet(members') = ToSet(members) \cup {p}
  BY MapSetNew DEF TInv, TokenTypeOK, Enter
<1> QED BY <1>1 DEF TR!Arrive, Enter, sessionVars

\* A puzzle that starts begins a rotation of everybody in the room.
LEMMA StartBegins ==
    ASSUME TInv, NEW p \in Players, NEW z \in Puzzles, StartPuzzle(p, z) PROVE TR!Begin(z)
<1>1. members # <<>> /\ members \in Seq(Players) /\ p \in ToSet(members)
  BY EmptyFacts DEF TInv, TokenTypeOK, StartPuzzle
<1>2. Head(members) \in ToSet(members)
  BY <1>1, HeadTailProperties, EmptySeq, LenProperties DEF ToSet
<1>3. group' = [group EXCEPT ![z] = ToSet(members)]
  BY DEF TInv, TokenTypeOK, StartPuzzle, group
<1> QED BY <1>1, <1>2, <1>3 DEF StartPuzzle, TR!Begin, group

\* A player that leaves departs from every rotation at once.
LEMMA LeaveDeparts == ASSUME TInv, NEW p \in Players, Leave(p) PROVE TR!Depart(p)
<1>1. TokenTypeOK /\ Distinct(members)
  BY TInvPointwise
<1>2. p \in ToSet(members) /\ ToSet(members') = ToSet(members) \ {p}
  BY <1>1, MapDeleteKey DEF Leave, TokenTypeOK
<1>3. group' = [z \in Puzzles |-> group[z] \ {p}]
  BY LeaveAt DEF group
<1>4. controller' \in [Puzzles -> Players \cup {Nobody}]
  BY LeaveStep DEF TInv, TokenTypeOK
<1>5. ASSUME NEW z \in Puzzles
      PROVE  CASE controller[z] # p -> controller'[z] = controller[z]
               [] OTHER -> IF group'[z] = {} THEN controller'[z] = Nobody
                                             ELSE controller'[z] \in group'[z]
  <2>1. CASE controller[z] # p
    BY <2>1, LeaveAt
  <2>2. CASE controller[z] = p /\ queue'[z] = <<>>
    BY <2>2, LeaveAt, EmptyFacts DEF group
  <2>3. CASE controller[z] = p /\ queue'[z] # <<>>
    <3>1. Head(queue'[z]) \in ToSet(queue'[z])
      BY <2>3, LeaveAt, HeadTailProperties, EmptySeq, LenProperties DEF ToSet
    <3> QED BY <3>1, <2>3, LeaveAt DEF group
  <2> QED BY <2>1, <2>2, <2>3
<1> QED BY <1>2, <1>3, <1>4, <1>5 DEF TR!Depart, group

\* A pass or a timeout hands the token to somebody else of the group, or changes nothing
\* where there is nobody else.
LEMMA TurnHandsOver ==
    ASSUME TInv, NEW z \in active, NEW own \in BOOLEAN,
           NextController(z, handle[z] /\ ~own, IF own THEN pending[z] - 1 ELSE pending[z]),
           UNCHANGED members
    PROVE  TR!HandOver(z) \/ UNCHANGED TR!rotationVars
<1> DEFINE q == queue[z]
           r == Rotated(q)
<1>1. TokenTypeOK /\ z \in Puzzles /\ SoundAt(z)
  BY TInvPointwise DEF TokenTypeOK
<1>2. q \in Seq(Players) /\ Distinct(q) /\ q # <<>> /\ controller[z] = Head(q)
  BY <1>1 DEF SoundAt, Sound
<1>3. queue' = [queue EXCEPT ![z] = r] /\ controller' = [controller EXCEPT ![z] = Head(r)]
  BY TurnStep
<1>4. /\ r \in Seq(Players) /\ r # <<>> /\ ToSet(r) = ToSet(q)
      /\ Len(q) = 1 => Head(r) = Head(q)
      /\ Len(q) # 1 => Head(r) # Head(q)
  BY <1>2, RotatedKeeps
<1> HIDE DEF r
<1>5. UNCHANGED group
  BY <1>1, <1>3, <1>4 DEF group, TokenTypeOK
<1>6. CASE Len(q) = 1
  <2>1. UNCHANGED controller
    BY <1>6, <1>1, <1>2, <1>3, <1>4 DEF TokenTypeOK
  <2> QED BY <2>1, <1>5 DEF TR!rotationVars, group
<1>7. CASE Len(q) # 1
  <2>1. Head(r) \in group[z] \ {controller[z]}
    <3>1. Head(r) \in ToSet(r)
      BY <1>4, HeadTailProperties, EmptySeq, LenProperties DEF ToSet
    <3> QED BY <3>1, <1>1, <1>2, <1>4, <1>7 DEF group
  <2> QED BY <2>1, <1>3, <1>5 DEF TR!HandOver, group
<1> QED BY <1>6, <1>7

\* The manager implements TokenRotation: as long as a participant is in the
\* room one of them has the token, and it never leaves their circle.
THEOREM RotationImplemented == TokenSpec => ImplementsRotation
<1>1. TokenInit => TR!RotationInit
  BY EmptyFacts DEF TokenInit, TR!RotationInit
<1>2. TInv /\ [TokenNext]_tokenVars => [TR!RotationNext]_(TR!rotationVars)
  <2> SUFFICES ASSUME TInv, [TokenNext]_tokenVars
               PROVE  TR!RotationNext \/ UNCHANGED TR!rotationVars
    OBVIOUS
  <2>1. ASSUME NEW p \in Players, Enter(p) PROVE TR!RotationNext
    BY <2>1, EnterArrives DEF TR!RotationNext
  <2>2. ASSUME NEW p \in Players, Leave(p) PROVE TR!RotationNext
    BY <2>2, LeaveDeparts DEF TR!RotationNext
  <2>3. ASSUME NEW p \in Players, NEW z \in Puzzles, StartPuzzle(p, z)
        PROVE  TR!RotationNext
    BY <2>3, StartBegins DEF TR!RotationNext
  <2>4. ASSUME NEW z \in Puzzles, TimerFires(z) \/ \E p \in Players : Pass(p, z)
        PROVE  TR!RotationNext \/ UNCHANGED TR!rotationVars
    <3>1. TR!HandOver(z) \/ UNCHANGED TR!rotationVars
      BY <2>4, PassIsTurn, TimerIsTurn, TurnHandsOver
    <3> QED BY <3>1 DEF TR!RotationNext
  <2>5. CASE UNCHANGED tokenVars
    BY <2>5 DEF tokenVars, sessionVars, TR!rotationVars
  <2> QED BY <2>1, <2>2, <2>3, <2>4, <2>5 DEF TokenNext
<1> QED BY <1>1, <1>2, TokenInvariance, PTL DEF TokenSpec, ImplementsRotation, TR!Rotation

-------------------------------------------------------------------------------
(***************************************************************************)
(* The clients (PuzzleView).  What a client will show once it has handled  *)
(* everything sent to it is what the last frame that sets it says, unless  *)
(* an end behind that frame names the same puzzle.                         *)
(***************************************************************************)
Views == [active : BOOLEAN, puzzle : Puzzles \cup {NoPuzzle}, mine : BOOLEAN]

IsSet(m) == m.t \in {"PUZZLE_START", "PUZZLE_TOKEN"}

\* What p shows when it has handled m.
SetBy(p, m) ==
    IF m.t = "PUZZLE_START" THEN AfterStart(Idle, m) ELSE AfterToken(Idle, m, p)

Resets(v, m) == v.puzzle \in {NoPuzzle, m.puzzleId}

After(p, v, m) == IF IsSet(m) THEN SetBy(p, m) ELSE IF Resets(v, m) THEN Idle ELSE v

\* The view after the s-th frame of the line d, or before the first.
Base(p, v, d, s) == IF s = 0 THEN v ELSE SetBy(p, d[s])

\* p, which shows v, will show w when it has handled the line d.
WillShow(p, v, d, w) ==
    \E s \in 0 .. Len(d) :
        /\ s > 0 => IsSet(d[s])
        /\ \A i \in DOMAIN d : i > s => ~IsSet(d[i])
        /\ w = IF \E i \in DOMAIN d : i > s /\ Resets(Base(p, v, d, s), d[i])
               THEN Idle ELSE Base(p, v, d, s)

-------------------------------------------------------------------------------
(***************************************************************************)
(* The inductive invariant.                                                *)
(***************************************************************************)

\* Every queue is who was in the room at the start and stayed: of two puzzles
\* the later one has the more participants.
Nested ==
    \A y, z \in active :
        \/ ToSet(queue[y]) \subseteq ToSet(queue[z])
        \/ ToSet(queue[z]) \subseteq ToSet(queue[y])

\* A client that is in no room has no frame to handle, and one that never was
\* in a room shows nothing.
Outside ==
    \A p \in Players \ ToSet(members) :
        down[p] = <<>> /\ (p \notin gone => view[p] = Idle)

\* v shows a puzzle that is active, and whether p has its token.
IsRight(p, v) ==
    v.active /\ v.puzzle \in active /\ (v.mine <=> controller[v.puzzle] = p)

\* p takes part in nothing and v shows nothing, or what was on in its last room.
IsFree(p, v) ==
    /\ \A z \in active : p \notin ToSet(queue[z])
    /\ v.active => p \in gone

Promised(p) ==
    \E w \in Views : WillShow(p, view[p], down[p], w) /\ (IsRight(p, w) \/ IsFree(p, w))

VInv ==
    /\ TInv
    /\ ViewTypeOK
    /\ \A p \in Players : view[p].active => view[p].puzzle # NoPuzzle
    /\ IsFiniteSet(active)
    /\ Nested
    /\ Outside
    /\ \A p \in ToSet(members) : Promised(p)
-------------------------------------------------------------------------------
(***************************************************************************)
(* Lines of frames.                                                        *)
(***************************************************************************)

\* Two lines one behind the other.
LEMMA ConcatFacts ==
    ASSUME NEW S, NEW d \in Seq(S), NEW e \in Seq(S)
    PROVE  LET c == d \o e IN
           /\ c \in Seq(S) /\ Len(c) = Len(d) + Len(e)
           /\ Len(d) \in Nat /\ Len(e) \in Nat
           /\ DOMAIN d = 1..Len(d) /\ DOMAIN e = 1..Len(e) /\ DOMAIN c = 1..(Len(d) + Len(e))
           /\ \A i \in DOMAIN d : c[i] = d[i]
           /\ \A i \in DOMAIN e : c[Len(d) + i] = e[i]
<1> DEFINE c == d \o e
<1>1. /\ c \in Seq(S) /\ Len(c) = Len(d) + Len(e)
      /\ \A i \in 1 .. Len(d) + Len(e) : c[i] = IF i <= Len(d) THEN d[i] ELSE e[i - Len(d)]
  BY ConcatProperties
<1>2. /\ Len(d) \in Nat /\ Len(e) \in Nat
      /\ DOMAIN d = 1..Len(d) /\ DOMAIN e = 1..Len(e) /\ DOMAIN c = 1..Len(c)
  BY <1>1, LenProperties
<1> HIDE DEF c
<1>3. ASSUME NEW i \in DOMAIN d PROVE c[i] = d[i]
  BY <1>1, <1>2
<1>4. ASSUME NEW i \in DOMAIN e PROVE c[Len(d) + i] = e[i]
  <2>1. Len(d) + i \in 1 .. Len(d) + Len(e) /\ ~(Len(d) + i <= Len(d)) /\ (Len(d) + i) - Len(d) = i
    BY <1>2
  <2> QED BY <1>1, <2>1
<1> QED BY <1>1, <1>2, <1>3, <1>4 DEF c

\* A frame that sets the view sets it to one of a puzzle.
LEMMA SetByType ==
    ASSUME NEW p \in Players, NEW m \in Frame, IsSet(m)
    PROVE  /\ SetBy(p, m) \in Views
           /\ SetBy(p, m).active /\ SetBy(p, m).puzzle = m.puzzleId
           /\ m.puzzleId \in Puzzles
           /\ m.t = "PUZZLE_TOKEN" => (SetBy(p, m).mine <=> m.controllerId = p)
<1>1. m.puzzleId \in Puzzles
  BY DEF Frame
<1>2. CASE m.t = "PUZZLE_START"
  BY <1>1, <1>2 DEF SetBy, AfterStart, Views
<1>3. CASE m.t = "PUZZLE_TOKEN"
  <2>1. PICK b \in BOOLEAN : b <=> m.controllerId = p
    BY DEF Frame
  <2>2. (m.controllerId = p) = b
    BY <2>1
  <2>3. SetBy(p, m) = [active |-> TRUE, puzzle |-> m.puzzleId, mine |-> b]
    BY <1>3, <2>2, Zenon DEF SetBy, AfterToken
  <2> QED BY <1>1, <1>3, <2>1, <2>3 DEF Views
<1> QED BY <1>2, <1>3 DEF IsSet

\* Nothing shown is a view.
LEMMA IdleType == Idle \in Views /\ ~Idle.active /\ Idle.puzzle = NoPuzzle
BY DEF Idle, Views

\* A client without frames shows what it will show.
LEMMA NothingToCome ==
    ASSUME NEW p, NEW v, NEW w
    PROVE  WillShow(p, v, <<>>, w) <=> w = v
<1>1. DOMAIN <<>> = {} /\ 0 .. Len(<<>>) = {0}
  BY EmptyDomain
<1> QED BY <1>1 DEF WillShow, Base

\* Handling a frame does not change what will be shown.
LEMMA Handled ==
    ASSUME NEW p \in Players, NEW v, NEW d \in Seq(Frame), d # <<>>, NEW w,
           WillShow(p, v, d, w)
    PROVE  WillShow(p, After(p, v, Head(d)), Tail(d), w)
<1> DEFINE h == Head(d)
           e == Tail(d)
           u == After(p, v, h)
<1>1. /\ h = d[1] /\ 1 \in DOMAIN d
      /\ e \in Seq(Frame) /\ Len(d) = Len(e) + 1 /\ Len(e) \in Nat
      /\ \A i \in DOMAIN e : /\ i \in Nat /\ i > 0 /\ i + 1 \in DOMAIN d /\ d[i + 1] = e[i]
      /\ \A k \in DOMAIN d : k = 1 \/ \E i \in DOMAIN e : k = i + 1
      /\ DOMAIN d = 1..Len(d)
  BY TailFacts, LenProperties
<1> HIDE DEF h, e
<1>2. PICK s \in 0 .. Len(d) :
        /\ s > 0 => IsSet(d[s])
        /\ \A i \in DOMAIN d : i > s => ~IsSet(d[i])
        /\ w = IF \E i \in DOMAIN d : i > s /\ Resets(Base(p, v, d, s), d[i])
               THEN Idle ELSE Base(p, v, d, s)
  BY DEF WillShow
<1>3. CASE s = 0
  <2>1. ~IsSet(h) /\ Base(p, v, d, s) = v /\ Base(p, u, e, 0) = u
    BY <1>1, <1>2, <1>3 DEF Base
  <2>2. \A i \in DOMAIN e : ~IsSet(e[i])
    BY <1>1, <1>2, <1>3
  <2>3. w = IF \E i \in DOMAIN e : i > 0 /\ Resets(u, e[i]) THEN Idle ELSE u
    <3>1. CASE Resets(v, h)
      <4>1. u = Idle
        BY <2>1, <3>1 DEF After
      <4>2. \E i \in DOMAIN d : i > s /\ Resets(Base(p, v, d, s), d[i])
        BY <1>1, <1>3, <2>1, <3>1
      <4> QED BY <1>2, <4>1, <4>2
    <3>2. CASE ~Resets(v, h)
      <4>1. u = v
        BY <2>1, <3>2 DEF After
      <4>2. (\E i \in DOMAIN d : i > s /\ Resets(v, d[i]))
            <=> (\E i \in DOMAIN e : i > 0 /\ Resets(v, e[i]))
        <5>1. ASSUME NEW k \in DOMAIN d, Resets(v, d[k])
              PROVE  \E i \in DOMAIN e : i > 0 /\ Resets(v, e[i])
          <6>1. k # 1
            BY <1>1, <3>2, <5>1
          <6>2. PICK i \in DOMAIN e : k = i + 1
            BY <1>1, <6>1
          <6> QED BY <1>1, <5>1, <6>2
        <5>2. ASSUME NEW i \in DOMAIN e, Resets(v, e[i])
              PROVE  \E k \in DOMAIN d : k > s /\ Resets(v, d[k])
          <6>1. i + 1 \in DOMAIN d /\ d[i + 1] = e[i] /\ i + 1 > s
            BY <1>1, <1>3
          <6> QED BY <5>2, <6>1
        <5> QED BY <5>1, <5>2
      <4> QED BY <1>2, <2>1, <4>1, <4>2
    <3> QED BY <3>1, <3>2
  <2>4. 0 \in 0 .. Len(e)
    BY <1>1
  <2> QED BY <2>1, <2>2, <2>3, <2>4 DEF WillShow, u, e, h
<1>4. CASE s > 0
  <2> DEFINE r == s - 1
  <2>1. r \in 0 .. Len(e) /\ s = r + 1
    BY <1>1, <1>2, <1>4
  <2>2. Base(p, u, e, r) = Base(p, v, d, s)
    <3>1. CASE r = 0
      BY <1>1, <1>2, <1>4, <2>1, <3>1 DEF Base, u, After
    <3>2. CASE r > 0
      <4>1. r \in DOMAIN e
        BY <1>1, <2>1, <3>2, LenProperties
      <4> QED BY <1>1, <1>4, <2>1, <3>2, <4>1 DEF Base
    <3> QED BY <2>1, <3>1, <3>2
  <2>3. r > 0 => IsSet(e[r])
    <3>1. r > 0 => r \in DOMAIN e
      BY <1>1, <2>1, LenProperties
    <3> QED BY <1>1, <1>2, <1>4, <2>1, <3>1
  <2>4. \A i \in DOMAIN e : i > r <=> i + 1 > s
    BY <1>1, <2>1
  <2>5. \A i \in DOMAIN e : i > r => ~IsSet(e[i])
    BY <1>1, <1>2, <2>4
  <2>6. (\E i \in DOMAIN d : i > s /\ Resets(Base(p, v, d, s), d[i]))
        <=> (\E i \in DOMAIN e : i > r /\ Resets(Base(p, v, d, s), e[i]))
    <3>1. ~(1 > s)
      BY <1>2, <1>4
    <3> QED BY <1>1, <2>4, <3>1
  <2> HIDE DEF r, u
  <2> QED BY <1>2, <2>1, <2>2, <2>3, <2>5, <2>6 DEF WillShow, u, e, h
<1> QED BY <1>2, <1>3, <1>4

\* A frame that sets the view decides what will be shown, whatever was sent
\* before it and unless an end behind it names its puzzle.
LEMMA SentSet ==
    ASSUME NEW p \in Players, NEW v, NEW d \in Seq(Frame), NEW e \in Seq(Frame),
           NEW k \in DOMAIN e, IsSet(e[k]),
           \A i \in DOMAIN e : i > k => ~IsSet(e[i]) /\ e[i].puzzleId # e[k].puzzleId
    PROVE  WillShow(p, v, d \o e, SetBy(p, e[k]))
<1> DEFINE c == d \o e
           n == Len(d)
           s == n + k
<1>1. /\ Len(c) = n + Len(e) /\ n \in Nat /\ Len(e) \in Nat
      /\ DOMAIN d = 1..n /\ DOMAIN e = 1..Len(e) /\ DOMAIN c = 1..(n + Len(e))
      /\ \A i \in DOMAIN d : c[i] = d[i]
      /\ \A i \in DOMAIN e : c[n + i] = e[i]
  BY ConcatFacts
<1> HIDE DEF c, n
<1>2. s \in 0 .. Len(c) /\ s > 0 /\ s # 0 /\ c[s] = e[k] /\ k \in Nat
  BY <1>1
<1>3. Base(p, v, c, s) = SetBy(p, e[k])
  BY <1>2 DEF Base
<1>4. e[k] \in Frame
  BY <1>1, ElementOfSeq
<1>5. ASSUME NEW i \in DOMAIN c, i > s
      PROVE  ~IsSet(c[i]) /\ ~Resets(SetBy(p, e[k]), c[i])
  <2>1. i - n \in DOMAIN e /\ i - n > k /\ i = n + (i - n)
    BY <1>1, <1>2, <1>5
  <2>2. c[i] = e[i - n]
    BY <1>1, <2>1
  <2>3. SetBy(p, e[k]).puzzle = e[k].puzzleId /\ e[k].puzzleId # NoPuzzle
    BY <1>4, SetByType, NoPuzzleAssumption
  <2> QED BY <2>1, <2>2, <2>3 DEF Resets
<1> HIDE DEF s
<1> QED BY <1>2, <1>3, <1>5 DEF WillShow, c

\* Ends decide only that a puzzle they name is not shown.
LEMMA SentEnds ==
    ASSUME NEW p \in Players, NEW v, NEW d \in Seq(Frame), NEW e \in Seq(Frame), NEW w,
           WillShow(p, v, d, w), \A i \in DOMAIN e : ~IsSet(e[i])
    PROVE  WillShow(p, v, d \o e, IF \E i \in DOMAIN e : Resets(w, e[i]) THEN Idle ELSE w)
<1> DEFINE c == d \o e
           n == Len(d)
           x == IF \E i \in DOMAIN e : Resets(w, e[i]) THEN Idle ELSE w
<1>1. /\ Len(c) = n + Len(e) /\ n \in Nat /\ Len(e) \in Nat
      /\ DOMAIN d = 1..n /\ DOMAIN e = 1..Len(e) /\ DOMAIN c = 1..(n + Len(e))
      /\ \A i \in DOMAIN d : c[i] = d[i]
      /\ \A i \in DOMAIN e : c[n + i] = e[i]
  BY ConcatFacts
<1>2. PICK s \in 0 .. n :
        /\ s > 0 => IsSet(d[s])
        /\ \A i \in DOMAIN d : i > s => ~IsSet(d[i])
        /\ w = IF \E i \in DOMAIN d : i > s /\ Resets(Base(p, v, d, s), d[i])
               THEN Idle ELSE Base(p, v, d, s)
  BY DEF WillShow
<1> HIDE DEF c, n
<1> DEFINE b == Base(p, v, d, s)
<1>3. s \in 0 .. Len(c) /\ (s > 0 => s \in DOMAIN d)
  BY <1>1
<1>4. (s > 0 => IsSet(c[s])) /\ Base(p, v, c, s) = b
  BY <1>1, <1>2, <1>3 DEF Base
<1>5. \A i \in DOMAIN c : i \in DOMAIN d \/ \E j \in DOMAIN e : i = n + j
  <2>1. ASSUME NEW i \in DOMAIN c, i \notin DOMAIN d PROVE \E j \in DOMAIN e : i = n + j
    <3>1. i - n \in DOMAIN e /\ i = n + (i - n)
      BY <1>1, <2>1
    <3> QED BY <3>1
  <2> QED BY <2>1
<1>6. \A j \in DOMAIN e : n + j \in DOMAIN c /\ n + j > s
  BY <1>1, <1>2
<1>7. DOMAIN d \subseteq DOMAIN c
  BY <1>1
<1>8. \A i \in DOMAIN c : i > s => ~IsSet(c[i])
  BY <1>1, <1>2, <1>5
<1>9. (\E i \in DOMAIN c : i > s /\ Resets(b, c[i]))
      <=> \/ \E i \in DOMAIN d : i > s /\ Resets(b, d[i])
          \/ \E j \in DOMAIN e : Resets(b, e[j])
  BY <1>1, <1>5, <1>6, <1>7
<1>10. x = IF \E i \in DOMAIN c : i > s /\ Resets(b, c[i]) THEN Idle ELSE b
  <2>1. CASE \E i \in DOMAIN d : i > s /\ Resets(b, d[i])
    BY <1>2, <1>9, <2>1
  <2>2. CASE ~\E i \in DOMAIN d : i > s /\ Resets(b, d[i])
    <3>1. w = b
      BY <1>2, <2>2
    <3> QED BY <1>9, <2>2, <3>1
  <2> QED BY <2>1, <2>2
<1> HIDE DEF x, b
<1> QED BY <1>3, <1>4, <1>8, <1>10 DEF WillShow, c, x

-------------------------------------------------------------------------------
(***************************************************************************)
(* The steps.                                                              *)
(***************************************************************************)

\* A step of the manager among its clients is one of its own, or none.
LEMMA ViewIsToken == TokenTypeOK /\ ViewNext => TokenNext \/ UNCHANGED tokenVars
<1> SUFFICES ASSUME TokenTypeOK, ViewNext PROVE TokenNext \/ UNCHANGED tokenVars
  OBVIOUS
<1>1. ASSUME NEW p \in Players, EnterRoom(p) \/ LeaveRoom(p) PROVE TokenNext
  BY <1>1 DEF EnterRoom, LeaveRoom, TokenNext
<1>2. ASSUME NEW p \in Players, NEW z \in Puzzles, StartInRoom(p, z) PROVE TokenNext
  BY <1>2 DEF StartInRoom, TokenNext
<1>3. ASSUME NEW z \in Puzzles, TurnInRoom(z) PROVE TokenNext
  BY <1>3 DEF TurnInRoom, TokenNext
<1>4. ASSUME NEW p \in Players, OnPuzzlePacket(p) \/ RequestPass(p) PROVE UNCHANGED tokenVars
  BY <1>4 DEF OnPuzzlePacket, RequestPass
<1>5. ASSUME NEW p \in Players, OnPuzzlePass(p)
      PROVE  TokenNext \/ UNCHANGED tokenVars
  <2> DEFINE z == Head(passes[p])
  <2>1. CASE z \in active /\ controller[z] = p
    <3>1. Pass(p, z) /\ z \in Puzzles
      BY <1>5, <2>1 DEF OnPuzzlePass, TokenTypeOK
    <3> QED BY <3>1 DEF TokenNext
  <2>2. CASE ~(z \in active /\ controller[z] = p)
    BY <1>5, <2>2 DEF OnPuzzlePass
  <2> QED BY <2>1, <2>2
<1> QED BY <1>1, <1>2, <1>3, <1>4, <1>5 DEF ViewNext

\* What VInv says of the parts.
LEMMA VInvParts ==
    ASSUME VInv
    PROVE  /\ TInv /\ TokenTypeOK /\ Distinct(members) /\ IsFiniteSet(active)
           /\ members \in Seq(Players) /\ ToSet(members) \subseteq Players
           /\ active \subseteq Puzzles
           /\ down \in [Players -> Seq(Frame)] /\ passes \in [Players -> Seq(Puzzles)]
           /\ view \in [Players -> Views] /\ gone \subseteq Players
           /\ \A z \in active : /\ ToSet(queue[z]) \subseteq ToSet(members)
                                /\ controller[z] \in ToSet(queue[z])
<1>1. /\ TInv /\ TokenTypeOK /\ Distinct(members) /\ IsFiniteSet(active)
      /\ members \in Seq(Players) /\ active \subseteq Puzzles
      /\ down \in [Players -> Seq(Frame)] /\ passes \in [Players -> Seq(Puzzles)]
      /\ view \in [Players -> Views] /\ gone \subseteq Players
  BY DEF VInv, TInv, TokenTypeOK, ViewTypeOK, Views
<1>2. ToSet(members) \subseteq Players
  BY <1>1, LenProperties, ElementOfSeq DEF ToSet
<1>3. ASSUME NEW z \in active
      PROVE  ToSet(queue[z]) \subseteq ToSet(members) /\ controller[z] \in ToSet(queue[z])
  <2>1. /\ queue[z] # <<>> /\ controller[z] = Head(queue[z]) /\ queue[z] \in Seq(Players)
        /\ ToSet(queue[z]) \subseteq ToSet(members)
    BY <1>1 DEF TInv, ControllerHeadsQueue, TokenTypeOK
  <2>2. Head(queue[z]) = queue[z][1] /\ 1 \in DOMAIN queue[z]
    BY <2>1, TailFacts
  <2> QED BY <2>1, <2>2 DEF ToSet
<1> QED BY <1>1, <1>2, <1>3

\* A client that nothing happens to will show what it would have.
LEMMA PromiseKept ==
    ASSUME NEW q \in Players, Promised(q), UNCHANGED <<active, queue, controller>>,
           view'[q] = view[q], down'[q] = down[q], gone \subseteq gone'
    PROVE  Promised(q)'
BY DEF Promised, IsRight, IsFree

\* A client that is sent the token's whereabouts will show them.
LEMMA Told ==
    ASSUME NEW q \in Players, NEW e \in Seq(Frame), down[q] \in Seq(Frame),
           view'[q] = view[q], down'[q] = down[q] \o e,
           NEW z \in Puzzles, z \in active', controller'[z] \in Players,
           NEW k \in DOMAIN e, e[k] = Token(z, controller'[z]),
           \A i \in DOMAIN e : i > k => ~IsSet(e[i]) /\ e[i].puzzleId # z
    PROVE  Promised(q)'
<1> DEFINE w == SetBy(q, e[k])
<1>1. e[k] \in Frame /\ IsSet(e[k]) /\ e[k].puzzleId = z
      /\ e[k].t = "PUZZLE_TOKEN" /\ e[k].controllerId = controller'[z]
  BY DEF Token, Frame, IsSet
<1>2. /\ w \in Views /\ w.active /\ w.puzzle = z
      /\ w.mine <=> controller'[z] = q
  BY <1>1, SetByType
<1>3. WillShow(q, view[q], down[q] \o e, w)
  BY <1>1, SentSet
<1> HIDE DEF w
<1>4. IsRight(q, w)'
  BY <1>2 DEF IsRight
<1> QED BY <1>2, <1>3, <1>4 DEF Promised

\* The queues stay nested and the puzzles finite in number.
LEMMA NestedStep == ASSUME VInv, TokenNext PROVE Nested' /\ IsFiniteSet(active')
<1>1. /\ TInv /\ TokenTypeOK /\ IsFiniteSet(active) /\ active \subseteq Puzzles
      /\ \A z \in active : ToSet(queue[z]) \subseteq ToSet(members)
  BY VInvParts
<1>2. ASSUME NEW p \in Players, Enter(p) PROVE Nested' /\ IsFiniteSet(active')
  BY <1>1, <1>2 DEF Enter, sessionVars, VInv, Nested
<1>3. ASSUME NEW p \in Players, Leave(p) PROVE Nested' /\ IsFiniteSet(active')
  <2>1. active' \subseteq active
    BY <1>3 DEF Leave
  <2>2. \A z \in active' : ToSet(queue'[z]) = ToSet(queue[z]) \ {p}
    BY <1>1, <1>3, <2>1, LeaveAt
  <2>3. Nested'
    BY <2>1, <2>2 DEF Nested, VInv
  <2> QED BY <1>1, <2>1, <2>3, FS_Subset
<1>4. ASSUME NEW p \in Players, NEW z \in Puzzles, StartPuzzle(p, z)
      PROVE  Nested' /\ IsFiniteSet(active')
  <2>1. active' = active \cup {z} /\ ToSet(queue'[z]) = ToSet(members)
    BY <1>1, <1>4 DEF StartPuzzle, TokenTypeOK
  <2>2. \A y \in active \ {z} : queue'[y] = queue[y]
    BY <1>1, <1>4 DEF StartPuzzle, TokenTypeOK
  <2>3. Nested'
    BY <1>1, <2>1, <2>2 DEF Nested, VInv
  <2> QED BY <1>1, <2>1, <2>3, FS_AddElement
<1>5. ASSUME NEW z \in Puzzles, TimerFires(z) \/ \E p \in Players : Pass(p, z)
      PROVE  Nested' /\ IsFiniteSet(active')
  <2>1. /\ z \in active /\ active' = active
        /\ queue' = [queue EXCEPT ![z] = Rotated(queue[z])]
    BY <1>1, <1>5, PassIsTurn, TimerIsTurn, TurnStep
  <2>2. queue[z] \in Seq(Players) /\ queue[z] # <<>> /\ Distinct(queue[z])
    BY <1>1, <2>1 DEF TInv, TokenTypeOK, ControllerHeadsQueue, Distinct
  <2>3. ToSet(Rotated(queue[z])) = ToSet(queue[z])
    BY <2>2, RotatedKeeps
  <2>4. \A y \in active' : ToSet(queue'[y]) = ToSet(queue[y])
    BY <1>1, <2>1, <2>3 DEF TokenTypeOK
  <2> QED BY <1>1, <2>1, <2>4 DEF Nested, VInv
<1> QED BY <1>2, <1>3, <1>4, <1>5 DEF TokenNext

\* The rest of VInv: what is about the clients.
ClientsOK ==
    /\ down \in [Players -> Seq(Frame)]
    /\ passes \in [Players -> Seq(Puzzles)]
    /\ view \in [Players -> Views]
    /\ gone \subseteq Players
    /\ \A p \in Players : view[p].active => view[p].puzzle # NoPuzzle
    /\ Outside
    /\ \A p \in ToSet(members) : Promised(p)

\* A step of the manager, or none, and what it means to the clients.
LEMMA VInvNext ==
    ASSUME VInv, TokenNext \/ UNCHANGED tokenVars, ClientsOK'
    PROVE  VInv'
<1>1. TInv' /\ TokenTypeOK'
  BY NextTInv DEF VInv, TInv
<1>2. Nested' /\ IsFiniteSet(active')
  <2>1. CASE UNCHANGED tokenVars
    BY <2>1 DEF VInv, Nested, tokenVars, sessionVars
  <2> QED BY <2>1, NestedStep
<1> QED BY <1>1, <1>2 DEF VInv, ClientsOK, ViewTypeOK, Views

\* A client enters a room with no frame to handle and in no puzzle's queue.
LEMMA EnterRoomStep == ASSUME VInv, NEW p \in Players, EnterRoom(p) PROVE ClientsOK'
<1>1. /\ TInv /\ TokenTypeOK /\ Distinct(members) /\ ToSet(members) \subseteq Players
      /\ down \in [Players -> Seq(Frame)] /\ passes \in [Players -> Seq(Puzzles)]
      /\ view \in [Players -> Views] /\ gone \subseteq Players
      /\ members \in Seq(Players)
      /\ \A z \in active : ToSet(queue[z]) \subseteq ToSet(members)
  BY VInvParts
<1>2. /\ p \notin ToSet(members) /\ ToSet(members') = ToSet(members) \cup {p}
      /\ UNCHANGED <<active, queue, controller, down, passes, gone>>
      /\ view' = [view EXCEPT ![p].mine = FALSE]
  BY <1>1, MapSetNew DEF EnterRoom, Enter, sessionVars
<1>3. /\ view'[p] \in Views /\ view'[p].active = view[p].active
      /\ view'[p].puzzle = view[p].puzzle
      /\ \A q \in Players \ {p} : view'[q] = view[q]
      /\ view' \in [Players -> Views]
  BY <1>1, <1>2 DEF Views
<1>4. \A q \in Players : view'[q].active => view'[q].puzzle # NoPuzzle
  BY <1>3 DEF VInv
<1>5. Outside'
  BY <1>2, <1>3 DEF VInv, Outside
<1>6. ASSUME NEW q \in ToSet(members') PROVE Promised(q)'
  <2>1. CASE q = p
    <3>1. down'[p] = <<>> /\ (p \notin gone => view[p] = Idle)
      BY <1>2 DEF VInv, Outside
    <3>2. WillShow(p, view'[p], down'[p], view'[p])
      BY <3>1, NothingToCome
    <3>3. PICK w \in Views : w = view'[p]
      BY <1>3
    <3>4. IsFree(p, w)'
      <4>1. w.active => p \in gone'
        BY <1>2, <1>3, <3>1, <3>3, IdleType
      <4>2. \A z \in active' : p \notin ToSet(queue'[z])
        BY <1>1, <1>2
      <4> QED BY <4>1, <4>2 DEF IsFree
    <3> QED BY <2>1, <3>2, <3>3, <3>4 DEF Promised
  <2>2. CASE q # p
    <3>1. q \in ToSet(members) /\ q \in Players /\ Promised(q)
      BY <1>1, <1>2, <2>2 DEF VInv
    <3> QED BY <1>2, <1>3, <2>2, <3>1, PromiseKept
  <2> QED BY <2>1, <2>2
<1> QED BY <1>1, <1>2, <1>3, <1>4, <1>5, <1>6 DEF ClientsOK

\* A broadcast to the members that tells, after any starts, where the token of
\* a puzzle is now.
LEMMA BroadcastStep ==
    ASSUME VInv, NEW z \in Puzzles, z \in active', controller'[z] \in Players,
           UNCHANGED <<members, view, gone>>, passes' \in [Players -> Seq(Puzzles)],
           NEW e \in Seq(Frame), Broadcast(ToSet(members), e),
           e # <<>>, e[Len(e)] = Token(z, controller'[z])
    PROVE  ClientsOK'
<1>1. /\ ToSet(members) \subseteq Players
      /\ down \in [Players -> Seq(Frame)]
      /\ view \in [Players -> Views] /\ gone \subseteq Players
  BY VInvParts
<1>2. /\ \A q \in ToSet(members) : down'[q] = down[q] \o e
      /\ \A q \in Players \ ToSet(members) : down'[q] = down[q]
      /\ down' = [q \in Players |-> down'[q]]
  BY <1>1 DEF Broadcast
<1>3. down' \in [Players -> Seq(Frame)]
  <2>1. \A q \in Players : down'[q] \in Seq(Frame)
    BY <1>1, <1>2, ConcatProperties, ZenonT(40)
  <2> QED BY <1>2, <2>1
<1>4. /\ Len(e) \in DOMAIN e
      /\ \A i \in DOMAIN e : ~(i > Len(e))
  BY LenProperties, EmptySeq
<1>5. ASSUME NEW q \in ToSet(members') PROVE Promised(q)'
  BY <1>1, <1>2, <1>4, Told
<1>6. Outside'
  BY <1>2 DEF VInv, Outside
<1> QED BY <1>1, <1>3, <1>5, <1>6 DEF ClientsOK, VInv

\* The token of a puzzle that goes on is with a player.
LEMMA HolderIsPlayer ==
    ASSUME VInv, TokenNext \/ UNCHANGED tokenVars, NEW z \in active'
    PROVE  z \in Puzzles /\ controller'[z] \in Players
<1>1. TInv'
  BY NextTInv DEF VInv
<1>2. /\ z \in Puzzles /\ queue'[z] \in Seq(Players) /\ queue'[z] # <<>>
      /\ controller'[z] = Head(queue'[z])
  BY <1>1 DEF TInv, TokenTypeOK, ControllerHeadsQueue
<1> QED BY <1>2, HeadTailProperties

\* A puzzle that starts is announced with its first turn.
LEMMA StartInRoomStep ==
    ASSUME VInv, NEW p \in Players, NEW z \in Puzzles, StartInRoom(p, z)
    PROVE  ClientsOK'
<1> DEFINE e == <<Start(z), Token(z, controller'[z])>>
<1>1. /\ TokenNext /\ z \in active' /\ UNCHANGED <<members, view, gone, passes>>
      /\ Broadcast(ToSet(members), e)
  BY DEF StartInRoom, StartPuzzle, TokenNext
<1>2. controller'[z] \in Players /\ passes' \in [Players -> Seq(Puzzles)]
  BY <1>1, HolderIsPlayer, VInvParts
<1>3. Start(z) \in Frame /\ Token(z, controller'[z]) \in Frame
  BY <1>2 DEF Start, Token, Frame
<1>4. e \in Seq(Frame) /\ e # <<>> /\ Len(e) = 2 /\ e[2] = Token(z, controller'[z])
  BY <1>3
<1> HIDE DEF e
<1>5. e[Len(e)] = Token(z, controller'[z])
  BY <1>4
<1> QED BY <1>1, <1>2, <1>4, <1>5, BroadcastStep

\* A turn is announced, whoever ended the one before.
LEMMA TurnToldStep ==
    ASSUME VInv, NEW z \in active,
           TimerFires(z) \/ \E p \in Players : Pass(p, z),
           Broadcast(ToSet(members), <<TurnFrame(z)>>),
           UNCHANGED <<view, gone>>, passes' \in [Players -> Seq(Puzzles)]
    PROVE  ClientsOK'
<1> DEFINE e == <<TurnFrame(z)>>
<1>1. z \in Puzzles /\ TInv
  BY VInvParts
<1>2. TokenNext /\ UNCHANGED members /\ z \in active'
  BY <1>1, PassIsTurn, TimerIsTurn, TurnStep DEF TokenNext
<1>3. controller'[z] \in Players
  BY <1>2, HolderIsPlayer
<1>4. TurnFrame(z) = Token(z, controller'[z]) /\ Token(z, controller'[z]) \in Frame
  BY <1>1, <1>2, <1>3 DEF TurnFrame, Token, Frame
<1>5. e \in Seq(Frame) /\ e # <<>> /\ Len(e) = 1 /\ e[1] = Token(z, controller'[z])
  BY <1>4
<1> HIDE DEF e
<1>6. e[Len(e)] = Token(z, controller'[z])
  BY <1>5
<1> QED BY <1>1, <1>2, <1>3, <1>5, <1>6, BroadcastStep DEF e

\* No timeout of a puzzle that is over is left, so a turn in the room has one.
LEMMA TurnInRoomStep ==
    ASSUME VInv, NEW z \in Puzzles, TurnInRoom(z)
    PROVE  ClientsOK'
<1>1. z \in active
  BY VInvParts, TimerIsTurn DEF TurnInRoom
<1>2. Broadcast(ToSet(members), <<TurnFrame(z)>>)
  BY <1>1 DEF TurnInRoom
<1> QED BY <1>1, <1>2, TurnToldStep, VInvParts DEF TurnInRoom

\* A client that handles a frame or asks for a turn to end, or one whose pass
\* the server ignores.
LEMMA ClientStep ==
    ASSUME VInv, NEW p \in Players,
           UNCHANGED <<tokenVars, gone>>, passes' \in [Players -> Seq(Puzzles)],
           \A q \in Players \ {p} : view'[q] = view[q] /\ down'[q] = down[q],
           view' \in [Players -> Views], down' \in [Players -> Seq(Frame)],
           view'[p].active => view'[p].puzzle # NoPuzzle,
           p \in ToSet(members) => Promised(p)',
           p \notin ToSet(members) => view'[p] = view[p] /\ down'[p] = down[p]
    PROVE  ClientsOK'
<1>1. ToSet(members) \subseteq Players /\ gone \subseteq Players
  BY VInvParts
<1>2. /\ \A q \in ToSet(members) : Promised(q)
      /\ \A q \in Players : view[q].active => view[q].puzzle # NoPuzzle
      /\ Outside
  BY DEF VInv
<1>3. UNCHANGED <<members, active, queue, controller>>
  BY DEF tokenVars, sessionVars
<1>4. ASSUME NEW q \in ToSet(members') PROVE Promised(q)'
  <2>1. CASE q = p
    BY <1>3, <2>1
  <2>2. CASE q # p
    BY <1>1, <1>2, <1>3, <2>2, PromiseKept
  <2> QED BY <2>1, <2>2
<1>5. Outside'
  <2>1. \A q \in Players \ ToSet(members) : view'[q] = view[q] /\ down'[q] = down[q]
    OBVIOUS
  <2> QED BY <1>2, <1>3, <2>1 DEF Outside
<1>6. \A q \in Players : view'[q].active => view'[q].puzzle # NoPuzzle
  BY <1>2
<1> QED BY <1>1, <1>4, <1>5, <1>6 DEF ClientsOK

\* The client handles a frame.
LEMMA PacketStep == ASSUME VInv, NEW p \in Players, OnPuzzlePacket(p) PROVE ClientsOK'
<1> DEFINE m == Head(down[p])
<1>1. /\ ToSet(members) \subseteq Players
      /\ down \in [Players -> Seq(Frame)] /\ passes \in [Players -> Seq(Puzzles)]
      /\ view \in [Players -> Views]
  BY VInvParts
<1>2. /\ down[p] # <<>> /\ UNCHANGED <<tokenVars, passes, gone>>
      /\ down' = [down EXCEPT ![p] = Tail(@)]
  BY DEF OnPuzzlePacket
<1>3. m \in Frame /\ Tail(down[p]) \in Seq(Frame)
  BY <1>1, <1>2, HeadTailProperties
<1>4. view' = [view EXCEPT ![p] = After(p, view[p], m)]
  <2>1. CASE m.t = "PUZZLE_START"
    BY <2>1 DEF OnPuzzlePacket, After, IsSet, SetBy, AfterStart
  <2>2. CASE m.t = "PUZZLE_TOKEN"
    BY <2>2 DEF OnPuzzlePacket, After, IsSet, SetBy, AfterToken
  <2>3. CASE m.t = "PUZZLE_END"
    BY <2>3 DEF OnPuzzlePacket, After, IsSet, AfterEnd, Resets
  <2> QED BY <2>1, <2>2, <2>3 DEF OnPuzzlePacket
<1> HIDE DEF m
<1>5. /\ After(p, view[p], m) \in Views
      /\ After(p, view[p], m).active => After(p, view[p], m).puzzle # NoPuzzle
  <2>1. CASE IsSet(m)
    BY <1>3, <2>1, SetByType, NoPuzzleAssumption DEF After
  <2>2. CASE ~IsSet(m)
    BY <1>1, <2>2, IdleType DEF After, VInv
  <2> QED BY <2>1, <2>2
<1>6. /\ view'[p] = After(p, view[p], m) /\ down'[p] = Tail(down[p])
      /\ view' \in [Players -> Views] /\ down' \in [Players -> Seq(Frame)]
      /\ \A q \in Players \ {p} : view'[q] = view[q] /\ down'[q] = down[q]
  BY <1>1, <1>2, <1>3, <1>4, <1>5
<1>7. p \in ToSet(members)
  BY <1>2 DEF VInv, Outside
<1>8. Promised(p)'
  <2>1. PICK w \in Views : WillShow(p, view[p], down[p], w) /\ (IsRight(p, w) \/ IsFree(p, w))
    BY <1>7 DEF VInv, Promised
  <2>2. WillShow(p, view'[p], down'[p], w)
    BY <1>1, <1>2, <1>6, <2>1, Handled DEF m
  <2>3. (IsRight(p, w) \/ IsFree(p, w))'
    BY <1>2, <2>1 DEF IsRight, IsFree, tokenVars, sessionVars
  <2> QED BY <2>2, <2>3 DEF Promised
<1>9. passes' \in [Players -> Seq(Puzzles)]
  BY <1>1, <1>2
<1> QED BY <1>2, <1>5, <1>6, <1>7, <1>8, <1>9, ClientStep

\* The client asks for the end of its turn in the puzzle it shows.
LEMMA RequestStep == ASSUME VInv, NEW p \in Players, RequestPass(p) PROVE ClientsOK'
<1>1. /\ ToSet(members) \subseteq Players
      /\ down \in [Players -> Seq(Frame)] /\ passes \in [Players -> Seq(Puzzles)]
      /\ view \in [Players -> Views]
  BY VInvParts
<1>2. /\ view[p].active /\ UNCHANGED <<tokenVars, down, view, gone>>
      /\ passes' = [passes EXCEPT ![p] = Append(@, view[p].puzzle)]
  BY DEF RequestPass
<1>3. view[p].puzzle \in Puzzles
  BY <1>1, <1>2 DEF Views, VInv
<1>4. passes' \in [Players -> Seq(Puzzles)]
  BY <1>1, <1>2, <1>3, AppendProperties
<1>5. p \in ToSet(members) => Promised(p)'
  BY <1>2, PromiseKept DEF VInv, tokenVars, sessionVars
<1>6. view'[p].active => view'[p].puzzle # NoPuzzle
  BY <1>2 DEF VInv
<1>7. view' \in [Players -> Views] /\ down' \in [Players -> Seq(Frame)]
      /\ \A q \in Players : view'[q] = view[q] /\ down'[q] = down[q]
  BY <1>1, <1>2
<1> QED BY <1>2, <1>4, <1>5, <1>6, <1>7, ClientStep

\* The server handles a pass: the controller's ends the turn.
LEMMA PassStep == ASSUME VInv, NEW p \in Players, OnPuzzlePass(p) PROVE ClientsOK'
<1> DEFINE z == Head(passes[p])
<1>1. /\ down \in [Players -> Seq(Frame)] /\ passes \in [Players -> Seq(Puzzles)]
      /\ view \in [Players -> Views]
  BY VInvParts
<1>2. /\ passes[p] # <<>> /\ passes' = [passes EXCEPT ![p] = Tail(@)]
      /\ UNCHANGED <<view, gone>>
  BY DEF OnPuzzlePass
<1>3. passes' \in [Players -> Seq(Puzzles)]
  BY <1>1, <1>2, HeadTailProperties
<1>4. CASE z \in active /\ controller[z] = p
  <2>1. Pass(p, z) /\ Broadcast(ToSet(members), <<TurnFrame(z)>>)
    BY <1>4 DEF OnPuzzlePass
  <2> HIDE DEF z
  <2> QED BY <1>2, <1>3, <1>4, <2>1, TurnToldStep
<1>5. CASE ~(z \in active /\ controller[z] = p)
  <2>1. UNCHANGED <<tokenVars, down>>
    BY <1>5 DEF OnPuzzlePass
  <2>2. p \in ToSet(members) => Promised(p)'
    BY <1>2, <2>1, PromiseKept DEF VInv, tokenVars, sessionVars
  <2>3. view'[p].active => view'[p].puzzle # NoPuzzle
    BY <1>2 DEF VInv
  <2>4. view' \in [Players -> Views] /\ down' \in [Players -> Seq(Frame)]
        /\ \A q \in Players : view'[q] = view[q] /\ down'[q] = down[q]
    BY <1>1, <1>2, <2>1
  <2> QED BY <1>2, <1>3, <2>1, <2>2, <2>3, <2>4, ClientStep
<1> QED BY <1>4, <1>5

\* The puzzles somebody takes part in, in any order, each once.
LEMMA OrderFacts ==
    ASSUME NEW S, IsFiniteSet(S), NEW order \in SetToSeqs(S)
    PROVE  LET n == Cardinality(S) IN
           /\ n \in Nat /\ DOMAIN order = 1..n
           /\ \A i \in 1..n : order[i] \in S
           /\ \A i, j \in 1..n : order[i] = order[j] => i = j
           /\ \A z \in S : \E i \in 1..n : order[i] = z
<1> DEFINE n == Cardinality(S)
<1>1. n \in Nat
  BY FS_CardinalityType
<1>2. order \in [1..n -> S] /\ \A i, j \in 1..n : i # j => order[i] # order[j]
  BY DEF SetToSeqs
<1>3. order \in Injection(1..n, S)
  BY <1>2 DEF Injection, IsInjective
<1>4. Cardinality(1..n) = n
  <2> HIDE DEF n
  <2>1. 1 \in Int /\ n \in Int /\ n - 1 + 1 = n
    BY <1>1
  <2> QED BY <1>1, <2>1, FS_Interval
<1>5. order \in Surjection(1..n, S)
  BY <1>3, <1>4, FS_Injection
<1> QED BY <1>1, <1>2, <1>5 DEF Surjection

\* What a leave means to the puzzles: the leaver's go on or end, as those it
\* was the last participant of; the others are as they were.
LEMMA LeaveSorts ==
    ASSUME VInv, NEW p \in Players, Leave(p)
    PROVE  /\ active' \subseteq active
           /\ \A z \in active : ToSet(queue'[z]) = ToSet(queue[z]) \ {p}
           /\ \A z \in active \ active' : ToSet(queue[z]) = {p}
           /\ \A z \in active : p \notin ToSet(queue[z]) => controller'[z] = controller[z]
<1>1. /\ TInv /\ active \subseteq Puzzles
      /\ \A z \in active : controller[z] \in ToSet(queue[z])
  BY VInvParts
<1>2. active' \subseteq active
  BY DEF Leave
<1>3. \A z \in active : ToSet(queue'[z]) = ToSet(queue[z]) \ {p}
  BY <1>1, LeaveAt
<1>4. ASSUME NEW z \in active \ active' PROVE ToSet(queue[z]) = {p}
  <2>1. queue'[z] = <<>>
    BY <1>1, <1>4, LeaveAt DEF Sound, SoundAt
  <2>2. ToSet(queue[z]) \ {p} = {}
    BY <1>3, <1>4, <2>1, EmptyFacts
  <2> QED BY <1>1, <1>4, <2>2
<1>5. ASSUME NEW z \in active, p \notin ToSet(queue[z]) PROVE controller'[z] = controller[z]
  <2>1. controller[z] # p
    BY <1>1, <1>5
  <2> QED BY <1>1, <2>1, LeaveAt
<1> QED BY <1>2, <1>3, <1>4, <1>5

\* Somebody leaves, and the others hear of the puzzles it took part in.  Where
\* one of them goes on, its turn is the last that they hear.  Where none does,
\* they are in no queue: somebody in the queue of another puzzle would have
\* the leaver's puzzle nested in that one, and so the leaver in its queue.
LEMMA LeaveRoomStep == ASSUME VInv, NEW p \in Players, LeaveRoom(p) PROVE ClientsOK'
<1> DEFINE queued == {z \in active : p \in ToSet(queue[z])}
           rest == ToSet(members) \ {p}
<1>1. /\ TInv /\ TokenTypeOK /\ Distinct(members) /\ IsFiniteSet(active)
      /\ members \in Seq(Players) /\ ToSet(members) \subseteq Players
      /\ active \subseteq Puzzles
      /\ down \in [Players -> Seq(Frame)] /\ passes \in [Players -> Seq(Puzzles)]
      /\ view \in [Players -> Views] /\ gone \subseteq Players
      /\ \A z \in active : controller[z] \in ToSet(queue[z])
  BY VInvParts
<1>2. /\ Leave(p) /\ UNCHANGED view /\ gone' = gone \cup {p}
      /\ passes' = [passes EXCEPT ![p] = <<>>]
  BY DEF LeaveRoom
<1>3. PICK order \in SetToSeqs(queued) :
         down' = [q \in Players |->
                    IF q = p THEN <<>>
                    ELSE IF q \in rest
                         THEN down[q] \o [i \in DOMAIN order |-> TurnFrame(order[i])]
                    ELSE down[q]]
  BY DEF LeaveRoom
<1> DEFINE e == [i \in DOMAIN order |-> TurnFrame(order[i])]
           n == Cardinality(queued)
<1>4. /\ n \in Nat /\ DOMAIN order = 1..n
      /\ \A i \in 1..n : order[i] \in queued
      /\ \A i, j \in 1..n : order[i] = order[j] => i = j
      /\ \A z \in queued : \E i \in 1..n : order[i] = z
  <2>1. IsFiniteSet(queued)
    BY <1>1, FS_Subset
  <2> QED BY <2>1, OrderFacts
<1>5. /\ active' \subseteq active
      /\ \A z \in active : ToSet(queue'[z]) = ToSet(queue[z]) \ {p}
      /\ \A z \in active \ active' : ToSet(queue[z]) = {p}
      /\ \A z \in active : p \notin ToSet(queue[z]) => controller'[z] = controller[z]
  BY <1>2, LeaveSorts
<1>6. \A z \in active' : z \in Puzzles /\ controller'[z] \in Players
  BY <1>2, HolderIsPlayer DEF TokenNext
<1> HIDE DEF n
<1>7. /\ DOMAIN e = 1..n
      /\ \A i \in 1..n : e[i] = IF order[i] \in active'
                                THEN Token(order[i], controller'[order[i]]) ELSE End(order[i])
  BY <1>4 DEF TurnFrame
<1>8. e \in Seq(Frame)
  <2>1. ASSUME NEW i \in 1..n PROVE TurnFrame(order[i]) \in Frame
    <3>1. order[i] \in Puzzles
      BY <1>1, <1>4
    <3>2. CASE order[i] \in active'
      BY <1>6, <3>2 DEF TurnFrame, Token, Frame
    <3>3. CASE order[i] \notin active'
      BY <3>1, <3>3 DEF TurnFrame, End, Frame
    <3> QED BY <3>2, <3>3
  <2>2. e = [i \in 1..n |-> TurnFrame(order[i])]
    BY <1>4
  <2>3. [i \in 1..n |-> TurnFrame(order[i])] \in [1..n -> Frame]
    BY <2>1
  <2> QED BY <1>4, <2>2, <2>3, SeqDef
<1>9. /\ down'[p] = <<>>
      /\ \A q \in rest : down'[q] = down[q] \o e
      /\ \A q \in Players \ ToSet(members) : q # p => down'[q] = down[q]
      /\ ToSet(members') = rest
  <2>1. ToSet(members') = rest
    BY <1>1, <1>2, MapDeleteKey DEF Leave
  <2> QED BY <1>1, <1>3, <2>1
<1>10. down' \in [Players -> Seq(Frame)]
  <2>1. \A q \in Players : down[q] \o e \in Seq(Frame)
    BY <1>1, <1>8, ConcatProperties
  <2>2. <<>> \in Seq(Frame)
    BY EmptySeq
  <2> HIDE DEF e
  <2> QED BY <1>1, <1>3, <2>1, <2>2 DEF e
<1> HIDE DEF e
<1>11. passes' \in [Players -> Seq(Puzzles)]
  BY <1>1, <1>2, EmptySeq
<1>12. Outside'
  BY <1>2, <1>9 DEF VInv, Outside
<1>13. ASSUME NEW q \in rest PROVE Promised(q)'
  <2>1. /\ q \in Players /\ q # p /\ down[q] \in Seq(Frame) /\ view[q] \in Views
        /\ view'[q] = view[q] /\ down'[q] = down[q] \o e /\ Promised(q)
    BY <1>1, <1>2, <1>9 DEF VInv
  <2>2. CASE \E z \in queued : z \in active'
    <3> DEFINE S == {i \in 1..n : order[i] \in active'}
    <3>1. PICK k \in S : \A i \in S : i <= k
      <4>1. S \in SUBSET (1..n) /\ S # {}
        BY <1>4, <2>2
      <4> QED BY <1>4, <4>1, Highest
    <3>2. k \in DOMAIN e /\ e[k] = Token(order[k], controller'[order[k]]) /\ order[k] \in active'
      BY <1>7
    <3>3. ASSUME NEW i \in DOMAIN e, i > k
          PROVE  ~IsSet(e[i]) /\ e[i].puzzleId # order[k]
      <4>1. i \in 1..n /\ ~(i <= k) /\ i # k
        BY <1>4, <1>7, <3>3
      <4>2. order[i] \notin active' /\ order[i] # order[k]
        BY <1>4, <3>1, <4>1
      <4>3. e[i] = End(order[i])
        BY <1>7, <4>1, <4>2
      <4> QED BY <4>2, <4>3 DEF End, IsSet
    <3> QED BY <1>6, <1>8, <2>1, <3>2, <3>3, Told
  <2>3. CASE \A z \in queued : z \notin active'
    <3>1. PICK w \in Views : WillShow(q, view[q], down[q], w) /\ (IsRight(q, w) \/ IsFree(q, w))
      BY <2>1 DEF Promised
    <3> DEFINE x == IF \E i \in DOMAIN e : Resets(w, e[i]) THEN Idle ELSE w
    <3>2. \A i \in DOMAIN e : e[i] = End(order[i]) /\ order[i] \in queued
      BY <1>4, <1>7, <2>3
    <3>3. x \in Views /\ WillShow(q, view'[q], down'[q], x)
      <4>1. \A i \in DOMAIN e : ~IsSet(e[i])
        BY <3>2 DEF End, IsSet
      <4> QED BY <1>8, <2>1, <3>1, <4>1, SentEnds, IdleType
    <3>4. x = Idle \/ x = w
      OBVIOUS
    <3>5. \A i \in DOMAIN e : e[i].puzzleId = order[i]
      BY <3>2 DEF End
    <3>6. CASE IsRight(q, w) /\ w.puzzle \in active'
      <4>1. w.puzzle \in active /\ w.puzzle \notin queued /\ w.puzzle # NoPuzzle
        BY <1>1, <1>5, <2>3, <3>6, NoPuzzleAssumption
      <4>2. x = w
        BY <3>2, <3>5, <4>1 DEF Resets
      <4>3. controller'[w.puzzle] = controller[w.puzzle]
        BY <1>5, <4>1
      <4>4. IsRight(q, w)'
        BY <3>6, <4>3 DEF IsRight
      <4> QED BY <3>1, <3>3, <4>2, <4>4 DEF Promised
    <3>7. CASE IsRight(q, w) /\ w.puzzle \notin active'
      <4> DEFINE y == w.puzzle
      <4>1. y \in active /\ ToSet(queue[y]) = {p} /\ y \in queued
        BY <1>5, <3>7 DEF IsRight
      <4>2. PICK i \in 1..n : order[i] = y
        BY <1>4, <4>1
      <4>3. x = Idle
        BY <1>7, <3>5, <4>2 DEF Resets
      <4>4. ASSUME NEW z \in active', q \in ToSet(queue'[z]) PROVE FALSE
        <5>1. z \in active /\ q \in ToSet(queue[z]) /\ p \notin ToSet(queue[z])
          BY <1>5, <2>3, <4>4
        <5> QED BY <2>1, <4>1, <5>1 DEF VInv, Nested
      <4>5. IsFree(q, Idle)'
        BY <4>4, IdleType DEF IsFree
      <4> QED BY <3>3, <4>3, <4>5, IdleType DEF Promised
    <3>8. CASE IsFree(q, w)
      <4>1. PICK u \in Views : u = x
        BY <3>3
      <4>2. u.active => w.active
        BY <3>4, <4>1, IdleType
      <4>3. \A z \in active' : q \notin ToSet(queue'[z])
        BY <1>5, <3>8 DEF IsFree
      <4>4. IsFree(q, u)'
        BY <1>2, <3>8, <4>2, <4>3 DEF IsFree
      <4> HIDE DEF x
      <4> QED BY <3>3, <4>1, <4>4 DEF Promised
    <3> QED BY <3>1, <3>6, <3>7, <3>8
  <2> QED BY <2>2, <2>3
<1>14. \A q \in Players : view'[q].active => view'[q].puzzle # NoPuzzle
  BY <1>2 DEF VInv
<1> QED BY <1>1, <1>2, <1>9, <1>10, <1>11, <1>12, <1>13, <1>14 DEF ClientsOK

-------------------------------------------------------------------------------
(***************************************************************************)
(* The theorems about the clients.                                         *)
(***************************************************************************)

\* The invariant holds before anybody has come.
LEMMA InitVInv == ViewInit => VInv
<1> SUFFICES ASSUME ViewInit PROVE VInv
  OBVIOUS
<1>1. TInv /\ active = {} /\ members = <<>>
  BY InitTInv DEF ViewInit, TokenInit
<1>2. ViewTypeOK
  BY <1>1, IdleType, EmptySeq DEF ViewInit, ViewTypeOK, TInv, Views
<1>3. IsFiniteSet(active) /\ Nested
  BY <1>1, FS_EmptySet DEF Nested
<1>4. Outside /\ \A p \in ToSet(members) : Promised(p)
  BY <1>1, EmptyFacts DEF ViewInit, Outside
<1>5. \A p \in Players : view[p].active => view[p].puzzle # NoPuzzle
  BY IdleType DEF ViewInit
<1> QED BY <1>1, <1>2, <1>3, <1>4, <1>5 DEF VInv

\* Every step of the manager and of the clients keeps it.
LEMMA NextVInv == VInv /\ [ViewNext]_viewVars => VInv'
<1> SUFFICES ASSUME VInv, [ViewNext]_viewVars PROVE VInv'
  OBVIOUS
<1>1. CASE ViewNext
  <2>1. ClientsOK'
    BY <1>1, EnterRoomStep, LeaveRoomStep, StartInRoomStep, TurnInRoomStep, PacketStep,
       RequestStep, PassStep DEF ViewNext
  <2>2. TokenNext \/ UNCHANGED tokenVars
    BY <1>1, ViewIsToken, VInvParts
  <2> QED BY <2>1, <2>2, VInvNext
<1>2. CASE UNCHANGED viewVars
  <2>1. UNCHANGED <<members, active, queue, controller, handle, pending, down, passes, view, gone>>
    BY <1>2 DEF viewVars, tokenVars, sessionVars
  <2>2. TInv' /\ TokenTypeOK'
    BY <2>1, NextTInv DEF VInv, TInv, tokenVars, sessionVars
  <2>3. \A p \in ToSet(members') : Promised(p)'
    <3>1. \A p \in ToSet(members) : p \in Players /\ Promised(p)
      BY VInvParts DEF VInv
    <3> QED BY <2>1, <3>1, PromiseKept
  <2>4. ViewTypeOK'
    BY <2>1, <2>2 DEF VInv, ViewTypeOK
  <2>5. Nested' /\ IsFiniteSet(active') /\ Outside'
    BY <2>1 DEF VInv, Nested, Outside
  <2> QED BY <2>1, <2>2, <2>3, <2>4, <2>5 DEF VInv
<1> QED BY <1>1, <1>2

\* The invariant of the manager and its clients holds always.
THEOREM ViewInvariance == ViewSpec => []VInv
BY InitVInv, NextVInv, PTL DEF ViewSpec

\* Every variable keeps its type; a pass on its way names a puzzle.
THEOREM ViewTypeCorrect == ViewSpec => []ViewTypeOK
BY ViewInvariance, PTL DEF VInv

\* The manager among its clients takes no step it does not take alone.
THEOREM ViewKeepsToken == ViewSpec => TokenInit /\ [][TokenNext]_tokenVars
<1>1. ViewInit => TokenInit
  BY DEF ViewInit
<1>2. VInv /\ [ViewNext]_viewVars => [TokenNext]_tokenVars
  BY ViewIsToken, VInvParts DEF viewVars
<1> QED BY <1>1, <1>2, ViewInvariance, PTL DEF ViewSpec

\* A client that has handled everything sent to it lets input through exactly
\* when it should: with a single puzzle on, a participant that has its token
\* and no other; with none on, everybody in its first room.
THEOREM GateIsRight == ViewSpec => []CaughtUpGate
<1>1. VInv => CaughtUpGate
  <2> SUFFICES ASSUME VInv PROVE CaughtUpGate
    OBVIOUS
  <2>1. /\ ToSet(members) \subseteq Players /\ IsFiniteSet(active)
        /\ \A z \in active : ToSet(queue[z]) \subseteq ToSet(members)
    BY VInvParts
  <2>2. ASSUME NEW p \in ToSet(members), down[p] = <<>>
        PROVE  IsRight(p, view[p]) \/ IsFree(p, view[p])
    BY <2>2, NothingToCome DEF VInv, Promised
  <2>3. ASSUME Cardinality(active) = 1, NEW z \in active, NEW p \in ToSet(queue[z]),
               down[p] = <<>>
        PROVE  LocalInputAllowed(p) <=> controller[z] = p
    <3>1. active = {z}
      BY <2>1, <2>3, FS_Singleton
    <3>2. IsRight(p, view[p])
      BY <2>1, <2>2, <2>3 DEF IsFree
    <3> QED BY <3>1, <3>2 DEF IsRight, LocalInputAllowed
  <2>4. ASSUME active = {}, NEW p \in ToSet(members) \ gone, down[p] = <<>>
        PROVE  LocalInputAllowed(p)
    BY <2>2, <2>4 DEF IsRight, IsFree, LocalInputAllowed
  <2> QED BY <2>3, <2>4 DEF CaughtUpGate
<1> QED BY <1>1, ViewInvariance, PTL
===============================================================================
