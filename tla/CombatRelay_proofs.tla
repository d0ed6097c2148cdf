--------------------------- MODULE CombatRelay_proofs --------------------------
(***************************************************************************)
(* The safety properties of CombatRelay, proved for every set of clients   *)
(* and any number of connections, attacks and skills.                      *)
(*                                                                         *)
(* An attack or skill is one token: it is queued, under way to the server, *)
(* handed to a host, answered, relayed.  Where each one is, is a function  *)
(* the invariant says exists; that a frame is nowhere else then takes no   *)
(* comparison of any two queues.  The second half of the argument is that  *)
(* a client believes it is host before each attack it is handed.           *)
(***************************************************************************)
EXTENDS CombatRelay, OrderedMap_proofs, SequenceTheorems, TLAPS

Asks(m)  == m.t = "JOIN_REQUEST"
IsRpc(m) == m.t \in {"attack", "skill", "damage"}

\* Where a token can be, with whom, and as what; one whose damage the server has
\* relayed is spent.
Kinds  == {"attack", "skill", "damage"}
Unmade == <<"unmade", 0, "">>
Spent  == <<"spent", 0, "">>
Places == ({"out", "up", "down"} \X (Clients \cup Conns) \X Kinds) \cup {Unmade, Spent}

-------------------------------------------------------------------------------
(***************************************************************************)
(* The inductive invariant.                                                *)
(***************************************************************************)

\* A client knows its connection, and the server whose it is.
ConnsOK ==
    /\ \A c \in Clients :
          /\ cur[c] # 0 => cur[c] = me[c] /\ cur[c] \in alive
          /\ me[c] # 0 => me[c] <= Len(owner) /\ owner[me[c]] = c
          /\ me[c] = 0 => out[c] = <<>> /\ down[c] = <<>>
    /\ \A k \in Conns : k > Len(owner) => up[k] = <<>> /\ seat[k] = NoRoom

\* A room has the connections that are seated there and not closed.
RoomsOK ==
    \A r \in Rooms : /\ Distinct(room[r])
                     /\ ToSet(room[r]) = {k \in alive : seat[k] = r}

\* No frame is twice in a line, and damage, which only a member sends, is not
\* behind a request to become one.
Tidy(s) ==
    /\ Distinct(s)
    /\ \A i, j \in DOMAIN s : i < j /\ Asks(s[i]) => s[j].t # "damage"

NoRequest(s) == \A m \in ToSet(s) : ~Asks(m)
NoDamage(s)  == \A m \in ToSet(s) : m.t # "damage"

\* The two parts of a client's line: what it has queued, what is under way.
LinesOK ==
    /\ \A k \in Conns : /\ Tidy(up[k])
                        /\ seat[k] # NoRoom => NoRequest(up[k])
    /\ \A c \in Clients :
          /\ Tidy(out[c])
          /\ me[c] # 0 =>
                /\ seat[me[c]] # NoRoom => NoRequest(out[c])
                /\ ~NoRequest(up[me[c]]) => NoRequest(out[c]) /\ NoDamage(out[c])

\* Where the tokens are.
Placed(place) ==
    /\ \A c \in Clients, m \in UpFrame :
          m \in ToSet(out[c]) /\ IsRpc(m) => place[m.n] = <<"out", c, m.t>>
    /\ \A k \in Conns, m \in UpFrame :
          m \in ToSet(up[k]) /\ IsRpc(m) => place[m.n] = <<"up", k, m.t>>
    /\ \A c \in Clients, m \in RpcFrame :
          m \in ToSet(down[c]) =>
              /\ m.t = "attack" => place[m.n] = <<"down", c, "attack">>
              /\ m.t = "damage" => place[m.n] = Spent /\ <<me[c], m.n>> \notin heard
    /\ \A n \in Rpcs : /\ n > made => place[n] = Unmade
                       /\ (\E k \in Conns : <<k, n>> \in heard) => place[n] = Spent

TokensOK == \E place \in [Rpcs -> Places] : Placed(place)

\* What the server noted when it handed an attack over is still so, and a
\* member's damage answers an attack it was handed as the host it is.
SentOK ==
    /\ \A n \in Rpcs : sent[n].host # 0 =>
          /\ sent[n].room # NoRoom /\ seat[sent[n].host] = sent[n].room
          /\ n <= made
    /\ \A c \in Clients, m \in UpFrame : m \in ToSet(out[c]) =>
          /\ m.t = "attack" => sent[m.n].host = 0
          /\ m.t = "damage" /\ seat[me[c]] # NoRoom => sent[m.n].host = me[c]
    /\ \A k \in Conns, m \in UpFrame : m \in ToSet(up[k]) =>
          /\ m.t = "attack" => sent[m.n].host = 0
          /\ m.t = "damage" /\ seat[k] # NoRoom => sent[m.n].host = k
    /\ \A c \in Clients, m \in RpcFrame : m \in ToSet(down[c]) =>
          /\ m.t = "attack" => sent[m.n].host = me[c]
          /\ m.t = "damage" => sent[m.n].room = seat[me[c]] /\ seat[me[c]] # NoRoom

\* The frames that make connection k believe it is host, or that it is not.
Claims(k, m) ==
    \/ m.t = "JOIN_ACK" /\ m.isHost
    \/ m.t = "HOST_REASSIGN" /\ m.newHostId = k

Denies(k, m) ==
    \/ m.t = "JOIN_ACK" /\ ~m.isHost
    \/ m.t = "HOST_REASSIGN" /\ m.newHostId # k

\* With b its flag and d its frames, k believes before the i-th of them that it
\* is host, and none of them says otherwise after that.
Believes(b, k, d, i) ==
    \E j \in 0..(i - 1) :
        /\ IF j = 0 THEN b ELSE j \in DOMAIN d /\ Claims(k, d[j])
        /\ \A l \in DOMAIN d : j < l => ~Denies(k, d[l])

IsTheHost(open, seats, rooms, k) ==
    k \in open /\ seats[k] # NoRoom /\ Head(rooms[seats[k]]) = k

\* d is what a connection k whose client has flag b will handle; open says that
\* it is its client's, host that it heads its room.  The host knows, or will
\* know; it alone is handed attacks, and each one once.
HostLine(b, k, open, host, d) ==
    /\ \A i, j \in DOMAIN d : d[i] = d[j] /\ d[i].t \in {"attack", "damage"} => i = j
    /\ \A i \in DOMAIN d : d[i].t = "attack" => Believes(b, k, d, i)
    /\ open /\ host => Believes(b, k, d, Len(d) + 1)
    /\ open /\ ~host => \A i \in DOMAIN d : d[i].t # "attack"

HostsOK == \A c \in Clients :
    HostLine(isHost[c], me[c], cur[c] # 0, IsTheHost(alive, seat, room, me[c]), down[c])

RelayInv ==
    /\ RelayTypeOK
    /\ ConnsOK
    /\ RoomsOK
    /\ LinesOK
    /\ TokensOK
    /\ SentOK
    /\ HostsOK

-------------------------------------------------------------------------------
(***************************************************************************)
(* Lines.                                                                  *)
(***************************************************************************)

\* What is in a line that grows or shrinks by a frame.
LEMMA LineSets ==
    ASSUME NEW S, NEW s \in Seq(S)
    PROVE  /\ ToSet(s) \subseteq S
           /\ \A m \in S : ToSet(Append(s, m)) = ToSet(s) \cup {m}
           /\ s # <<>> => /\ ToSet(s) = ToSet(Tail(s)) \cup {Head(s)}
                          /\ Head(s) \in ToSet(s)
<1>1. ToSet(s) \subseteq S
  BY ElementOfSeq, LenProperties DEF ToSet
<1>2. ASSUME NEW m \in S PROVE ToSet(Append(s, m)) = ToSet(s) \cup {m}
  <2> DEFINE e == Append(s, m)
             n == Len(s) + 1
  <2>1. /\ DOMAIN e = DOMAIN s \cup {n}
        /\ \A i \in DOMAIN s : e[i] = s[i]
        /\ e[n] = m
    BY AppendFacts
  <2> HIDE DEF e, n
  <2> QED BY <2>1 DEF ToSet, e
<1>3. ASSUME s # <<>>
      PROVE  ToSet(s) = ToSet(Tail(s)) \cup {Head(s)} /\ Head(s) \in ToSet(s)
  <2> DEFINE e == Tail(s)
  <2>1. /\ Head(s) = s[1] /\ 1 \in DOMAIN s
        /\ \A i \in DOMAIN e : i + 1 \in DOMAIN s /\ s[i + 1] = e[i]
        /\ \A k \in DOMAIN s : k = 1 \/ \E i \in DOMAIN e : k = i + 1
    BY <1>3, TailFacts
  <2> HIDE DEF e
  <2> QED BY <2>1 DEF ToSet, e
<1> QED BY <1>1, <1>2, <1>3

\* A frame joins a tidy line: a new one, and damage only where no request is.
LEMMA TidyAppend ==
    ASSUME NEW S, NEW s \in Seq(S), NEW m \in S, Tidy(s), m \notin ToSet(s),
           m.t = "damage" => NoRequest(s)
    PROVE  Tidy(Append(s, m))
<1> DEFINE e == Append(s, m)
           n == Len(s) + 1
<1>1. /\ DOMAIN e = DOMAIN s \cup {n}
      /\ n \notin DOMAIN s
      /\ \A i \in DOMAIN s : e[i] = s[i] /\ ~(n < i)
      /\ ~(n < n)
      /\ e[n] = m
  BY AppendFacts
<1>2. \A i \in DOMAIN s : s[i] # m /\ (m.t = "damage" => ~Asks(s[i]))
  BY DEF ToSet, NoRequest
<1> HIDE DEF e, n
<1>3. Distinct(e)
  BY <1>1, <1>2 DEF Tidy, Distinct
<1>4. ASSUME NEW i \in DOMAIN e, NEW j \in DOMAIN e, i < j, Asks(e[i])
      PROVE  e[j].t # "damage"
  BY <1>1, <1>2, <1>4 DEF Tidy
<1> QED BY <1>3, <1>4 DEF Tidy, e

\* The first frame leaves it; behind a request there is no damage.
LEMMA TidyTail ==
    ASSUME NEW S, NEW s \in Seq(S), s # <<>>, Tidy(s)
    PROVE  /\ Tidy(Tail(s))
           /\ Head(s) \notin ToSet(Tail(s))
           /\ Asks(Head(s)) => NoDamage(Tail(s))
<1> DEFINE e == Tail(s)
<1>1. /\ Head(s) = s[1] /\ 1 \in DOMAIN s
      /\ \A i \in DOMAIN e : /\ i \in Nat /\ i > 0
                             /\ i + 1 \in DOMAIN s /\ s[i + 1] = e[i]
  BY TailFacts
<1> HIDE DEF e
<1>2. Distinct(e)
  <2> SUFFICES ASSUME NEW i \in DOMAIN e, NEW j \in DOMAIN e, e[i] = e[j] PROVE i = j
    BY DEF Distinct
  <2>1. i + 1 = j + 1
    BY <1>1 DEF Tidy, Distinct
  <2> QED BY <2>1, <1>1
<1>3. ASSUME NEW i \in DOMAIN e, NEW j \in DOMAIN e, i < j, Asks(e[i])
      PROVE  e[j].t # "damage"
  <2>1. i + 1 < j + 1
    BY <1>1, <1>3
  <2> QED BY <2>1, <1>1, <1>3 DEF Tidy
<1>4. ASSUME NEW i \in DOMAIN e
      PROVE  e[i] # Head(s) /\ (Asks(Head(s)) => e[i].t # "damage")
  <2>1. 1 < i + 1 /\ i + 1 # 1
    BY <1>1
  <2> QED BY <2>1, <1>1 DEF Tidy, Distinct
<1> QED BY <1>2, <1>3, <1>4 DEF Tidy, ToSet, NoDamage, e

\* One tidy line behind the other.
LEMMA TidyConcat ==
    ASSUME NEW S, NEW s \in Seq(S), NEW t \in Seq(S), Tidy(s), Tidy(t),
           ToSet(s) \cap ToSet(t) = {}, NoRequest(s) \/ NoDamage(t)
    PROVE  /\ s \o t \in Seq(S)
           /\ Tidy(s \o t)
           /\ ToSet(s \o t) = ToSet(s) \cup ToSet(t)
<1> DEFINE c == s \o t
           n == Len(s)
<1>1. /\ c \in Seq(S) /\ Len(c) = n + Len(t)
      /\ \A i \in 1..(n + Len(t)) : c[i] = IF i <= n THEN s[i] ELSE t[i - n]
  BY ConcatProperties
<1>2. /\ DOMAIN s = 1..n /\ DOMAIN t = 1..Len(t) /\ DOMAIN c = 1..(n + Len(t))
      /\ n \in Nat /\ Len(t) \in Nat
  BY <1>1, LenProperties
<1> HIDE DEF c, n
<1>3. ASSUME NEW i \in DOMAIN c
      PROVE  \/ i \in DOMAIN s /\ c[i] = s[i]
             \/ i - n \in DOMAIN t /\ c[i] = t[i - n] /\ ~(i <= n)
  BY <1>1, <1>2
<1>4. \A i \in DOMAIN s : i \in DOMAIN c /\ c[i] = s[i]
  BY <1>1, <1>2
<1>5. ASSUME NEW i \in DOMAIN t PROVE i + n \in DOMAIN c /\ c[i + n] = t[i]
  <2>1. i + n \in 1..(n + Len(t)) /\ ~(i + n <= n) /\ (i + n) - n = i
    BY <1>2
  <2> QED BY <2>1, <1>1, <1>2
<1>6. ToSet(c) = ToSet(s) \cup ToSet(t)
  BY <1>3, <1>4, <1>5 DEF ToSet
<1>7. \A i \in DOMAIN s, j \in DOMAIN t : s[i] # t[j] /\ (Asks(s[i]) => t[j].t # "damage")
  BY DEF ToSet, NoRequest, NoDamage
<1>8. Distinct(c)
  <2> SUFFICES ASSUME NEW i \in DOMAIN c, NEW j \in DOMAIN c, c[i] = c[j] PROVE i = j
    BY DEF Distinct
  <2>1. CASE i \in DOMAIN s /\ c[i] = s[i]
    BY <2>1, <1>3, <1>7 DEF Tidy, Distinct
  <2>2. CASE i - n \in DOMAIN t /\ c[i] = t[i - n]
    <3>1. j - n \in DOMAIN t /\ c[j] = t[j - n]
      BY <2>2, <1>3, <1>7
    <3>2. i - n = j - n
      BY <3>1, <2>2 DEF Tidy, Distinct
    <3> QED BY <3>2, <1>2
  <2> QED BY <2>1, <2>2, <1>3
<1>9. ASSUME NEW i \in DOMAIN c, NEW j \in DOMAIN c, i < j, Asks(c[i])
      PROVE  c[j].t # "damage"
  <2>1. CASE i \in DOMAIN s /\ c[i] = s[i]
    BY <2>1, <1>3, <1>7, <1>9 DEF Tidy
  <2>2. CASE i - n \in DOMAIN t /\ c[i] = t[i - n] /\ ~(i <= n)
    <3>1. j - n \in DOMAIN t /\ c[j] = t[j - n] /\ i - n < j - n
      BY <2>2, <1>2, <1>3, <1>9
    <3> QED BY <3>1, <2>2, <1>9 DEF Tidy
  <2> QED BY <2>1, <2>2, <1>3
<1> QED BY <1>1, <1>6, <1>8, <1>9 DEF Tidy, c

-------------------------------------------------------------------------------
(***************************************************************************)
(* Who believes what.                                                      *)
(***************************************************************************)

\* A frame that does not deny it disturbs no belief, one that claims it makes
\* one.
LEMMA BelievesAppend ==
    ASSUME NEW b, NEW k, NEW d \in Seq(DownFrame), NEW m \in DownFrame
    PROVE  LET e == Append(d, m) IN
           /\ \A i \in Nat : ~Denies(k, m) /\ Believes(b, k, d, i) => Believes(b, k, e, i)
           /\ Claims(k, m) => Believes(b, k, e, Len(e) + 1)
<1> DEFINE e == Append(d, m)
           n == Len(d) + 1
<1>1. /\ Len(e) = n
      /\ DOMAIN e = DOMAIN d \cup {n}
      /\ \A i \in DOMAIN d : e[i] = d[i] /\ ~(n < i)
      /\ ~(n < n)
      /\ e[n] = m
      /\ n \in Nat
  BY AppendFacts, LenProperties
<1> HIDE DEF e, n
<1>2. ASSUME NEW i \in Nat, ~Denies(k, m), Believes(b, k, d, i) PROVE Believes(b, k, e, i)
  BY <1>1, <1>2 DEF Believes
<1>3. ASSUME Claims(k, m) PROVE Believes(b, k, e, Len(e) + 1)
  <2>1. n \in 0..(Len(e) + 1 - 1) /\ n # 0
    BY <1>1 DEF n
  <2> QED BY <2>1, <1>1, <1>3 DEF Believes
<1> QED BY <1>2, <1>3 DEF e

\* What it believes once it has handled the first frame.
LEMMA BelievesTail ==
    ASSUME NEW b, NEW b2, NEW k, NEW d \in Seq(DownFrame), d # <<>>,
           (b /\ ~Denies(k, Head(d))) \/ Claims(k, Head(d)) => b2,
           NEW i \in Nat, Believes(b, k, d, i + 1)
    PROVE  IF i = 0 THEN b ELSE Believes(b2, k, Tail(d), i)
<1> DEFINE e == Tail(d)
<1>1. /\ Head(d) = d[1] /\ 1 \in DOMAIN d
      /\ \A l \in DOMAIN e : l \in Nat /\ l > 0 /\ l + 1 \in DOMAIN d /\ d[l + 1] = e[l]
      /\ \A l \in DOMAIN d : l = 1 \/ \E j \in DOMAIN e : l = j + 1
  BY TailFacts
<1> HIDE DEF e
<1>2. PICK j \in 0..i : /\ IF j = 0 THEN b ELSE j \in DOMAIN d /\ Claims(k, d[j])
                        /\ \A l \in DOMAIN d : j < l => ~Denies(k, d[l])
  BY DEF Believes
<1>3. CASE i = 0
  BY <1>2, <1>3
<1>4. CASE i # 0 /\ j \in {0, 1}
  <2>1. b2
    BY <1>1, <1>2, <1>4
  <2>2. ASSUME NEW l \in DOMAIN e, 0 < l PROVE ~Denies(k, e[l])
    <3>1. j < l + 1
      BY <1>1, <1>4, <2>2
    <3> QED BY <3>1, <1>1, <1>2
  <2>3. 0 \in 0..(i - 1)
    BY <1>4
  <2> QED BY <2>1, <2>2, <2>3, <1>4 DEF Believes, e
<1>5. CASE i # 0 /\ j \notin {0, 1}
  <2>1. PICK h \in DOMAIN e : j = h + 1
    BY <1>1, <1>2, <1>5
  <2>2. h \in 0..(i - 1) /\ h # 0 /\ Claims(k, e[h])
    BY <2>1, <1>1, <1>2, <1>5
  <2>3. ASSUME NEW l \in DOMAIN e, h < l PROVE ~Denies(k, e[l])
    <3>1. j < l + 1
      BY <2>1, <2>3, <1>1
    <3> QED BY <3>1, <1>1, <1>2
  <2> QED BY <2>2, <2>3, <1>5 DEF Believes, e
<1> QED BY <1>3, <1>4, <1>5

\* The lines of a client that is told something.
LEMMA ToldNothing ==
    ASSUME NEW b, NEW k, NEW open \in BOOLEAN, NEW host
    PROVE  HostLine(b, k, open, FALSE, <<>>) /\ HostLine(b, k, FALSE, host, <<>>)
BY EmptyDomain DEF HostLine

\* Relayed frames change no belief; an attack comes to the host, and but once.
LEMMA ToldOfCombat ==
    ASSUME NEW b, NEW k, NEW host \in BOOLEAN, NEW d \in Seq(DownFrame), NEW m \in RpcFrame,
           HostLine(b, k, TRUE, host, d),
           m.t = "attack" => host,
           m.t # "skill" => m \notin ToSet(d)
    PROVE  HostLine(b, k, TRUE, host, Append(d, m))
<1> DEFINE e == Append(d, m)
           n == Len(d) + 1
<1>1. /\ Len(e) = n /\ n \in Nat
      /\ DOMAIN e = DOMAIN d \cup {n}
      /\ n \notin DOMAIN d
      /\ \A i \in DOMAIN d : e[i] = d[i] /\ i \in Nat
      /\ e[n] = m
  <2>1. m \in DownFrame
    BY DEF DownFrame
  <2> QED BY <2>1, AppendFacts, LenProperties
<1>2. /\ \A i \in Nat : Believes(b, k, d, i) => Believes(b, k, e, i)
      /\ Believes(b, k, e, n) => Believes(b, k, e, n + 1)
  <2>1. ~Denies(k, m) /\ m \in DownFrame
    BY DEF Denies, RpcFrame, DownFrame
  <2>2. \A i \in Nat : Believes(b, k, d, i) => Believes(b, k, e, i)
    BY <2>1, BelievesAppend
  <2>3. \A j \in 0..(n - 1) : j \in 0..(n + 1 - 1)
    BY <1>1
  <2> HIDE DEF e, n
  <2>4. ASSUME Believes(b, k, e, n) PROVE Believes(b, k, e, n + 1)
    <3>1. PICK j \in 0..(n - 1) :
              /\ IF j = 0 THEN b ELSE j \in DOMAIN e /\ Claims(k, e[j])
              /\ \A l \in DOMAIN e : j < l => ~Denies(k, e[l])
      BY <2>4 DEF Believes
    <3>2. j \in 0..(n + 1 - 1)
      BY <2>3
    <3> QED BY <1>1, <3>1, <3>2 DEF Believes
  <2> QED BY <2>2, <2>4
<1>3. m.t # "skill" => \A i \in DOMAIN d : d[i] # m
  BY DEF ToSet
<1>4. host => Believes(b, k, d, n)
  BY DEF HostLine, n
<1> HIDE DEF e, n
<1>5. ASSUME NEW i \in DOMAIN e, NEW j \in DOMAIN e, e[i] = e[j], e[i].t \in {"attack", "damage"}
      PROVE  i = j
  BY <1>1, <1>3, <1>5 DEF HostLine
<1>6. ASSUME NEW i \in DOMAIN e, e[i].t = "attack" PROVE Believes(b, k, e, i)
  BY <1>1, <1>2, <1>4, <1>6 DEF HostLine
<1>7. host => Believes(b, k, e, Len(e) + 1)
  BY <1>1, <1>2, <1>4
<1>8. ~host => \A i \in DOMAIN e : e[i].t # "attack"
  BY <1>1 DEF HostLine
<1> QED BY <1>5, <1>6, <1>7, <1>8 DEF HostLine, e

\* JOIN_ACK and HOST_REASSIGN say who is host from then on.
LEMMA ToldOfHost ==
    ASSUME NEW b, NEW k, NEW host \in BOOLEAN, NEW host2 \in BOOLEAN,
           NEW d \in Seq(DownFrame), NEW m \in DownFrame,
           HostLine(b, k, TRUE, host, d),
           m.t \in {"JOIN_ACK", "HOST_REASSIGN"},
           host2 <=> Claims(k, m), host => host2
    PROVE  HostLine(b, k, TRUE, host2, Append(d, m))
<1> DEFINE e == Append(d, m)
           n == Len(d) + 1
<1>1. /\ Len(e) = n /\ n \in Nat
      /\ DOMAIN e = DOMAIN d \cup {n}
      /\ n \notin DOMAIN d
      /\ \A i \in DOMAIN d : e[i] = d[i] /\ i \in Nat
      /\ e[n] = m
  BY AppendFacts, LenProperties
<1>2. Denies(k, m) <=> ~host2
  BY DEF Claims, Denies, DownFrame
<1>3. /\ host2 => \A i \in Nat : Believes(b, k, d, i) => Believes(b, k, e, i)
      /\ host2 => Believes(b, k, e, Len(e) + 1)
  BY <1>2, BelievesAppend
<1> HIDE DEF e, n
<1>4. ~host2 => \A i \in DOMAIN e : e[i].t # "attack"
  BY <1>1 DEF HostLine
<1>5. ASSUME NEW i \in DOMAIN e, e[i].t = "attack" PROVE Believes(b, k, e, i)
  <2>1. host2 /\ i \in DOMAIN d
    BY <1>1, <1>4, <1>5
  <2> QED BY <2>1, <1>1, <1>3, <1>5 DEF HostLine
<1>6. ASSUME NEW i \in DOMAIN e, NEW j \in DOMAIN e, e[i] = e[j], e[i].t \in {"attack", "damage"}
      PROVE  i = j
  BY <1>1, <1>6 DEF HostLine
<1> QED BY <1>3, <1>4, <1>5, <1>6 DEF HostLine, e

\* A client is handed an attack, or its damage, once.
LEMMA HandedOnce ==
    ASSUME NEW b, NEW k, NEW open, NEW host, NEW d \in Seq(DownFrame), d # <<>>,
           HostLine(b, k, open, host, d), Head(d).t \in {"attack", "damage"}
    PROVE  Head(d) \notin ToSet(Tail(d))
<1> DEFINE e == Tail(d)
<1>1. /\ Head(d) = d[1] /\ 1 \in DOMAIN d
      /\ \A l \in DOMAIN e : l \in Nat /\ l > 0 /\ l + 1 \in DOMAIN d /\ d[l + 1] = e[l]
  BY TailFacts
<1> HIDE DEF e
<1>2. ASSUME NEW i \in DOMAIN e PROVE e[i] # Head(d)
  <2>1. i + 1 # 1
    BY <1>1
  <2> QED BY <2>1, <1>1 DEF HostLine
<1> QED BY <1>2 DEF ToSet, e

\* The lines of a client that has handled a frame.
LEMMA HandledOne ==
    ASSUME NEW b, NEW b2, NEW k, NEW open \in BOOLEAN, NEW host \in BOOLEAN,
           NEW d \in Seq(DownFrame), d # <<>>, HostLine(b, k, open, host, d),
           (b /\ ~Denies(k, Head(d))) \/ Claims(k, Head(d)) => b2
    PROVE  /\ HostLine(b2, k, open, host, Tail(d))
           /\ Head(d).t = "attack" => b
<1> DEFINE e == Tail(d)
<1>1. /\ Head(d) = d[1] /\ 1 \in DOMAIN d
      /\ Len(d) = Len(e) + 1 /\ Len(e) \in Nat
      /\ \A l \in DOMAIN e : l \in Nat /\ l > 0 /\ l + 1 \in DOMAIN d /\ d[l + 1] = e[l]
  BY TailFacts
<1>2. /\ \A i \in Nat : i # 0 /\ Believes(b, k, d, i + 1) => Believes(b2, k, e, i)
      /\ Believes(b, k, d, 0 + 1) => b
  <2>1. ASSUME NEW i \in Nat, Believes(b, k, d, i + 1)
        PROVE  IF i = 0 THEN b ELSE Believes(b2, k, e, i)
    BY <2>1, BelievesTail
  <2> HIDE DEF e
  <2> QED BY <2>1
<1> HIDE DEF e
<1>3. ASSUME NEW i \in DOMAIN e, NEW j \in DOMAIN e, e[i] = e[j], e[i].t \in {"attack", "damage"}
      PROVE  i = j
  <2>1. i + 1 = j + 1
    BY <1>1, <1>3 DEF HostLine
  <2> QED BY <2>1, <1>1
<1>4. ASSUME NEW i \in DOMAIN e, e[i].t = "attack" PROVE Believes(b2, k, e, i)
  <2>1. Believes(b, k, d, i + 1) /\ i \in Nat /\ i # 0
    BY <1>1, <1>4 DEF HostLine
  <2> QED BY <2>1, <1>2
<1>5. ASSUME open, host PROVE Believes(b2, k, e, Len(e) + 1)
  <2>1. Believes(b, k, d, (Len(e) + 1) + 1) /\ Len(e) + 1 \in Nat /\ Len(e) + 1 # 0
    BY <1>1, <1>5 DEF HostLine
  <2> QED BY <2>1, <1>2
<1>6. open /\ ~host => \A i \in DOMAIN e : e[i].t # "attack"
  BY <1>1 DEF HostLine
<1>7. Head(d).t = "attack" => b
  BY <1>1, <1>2 DEF HostLine
<1> QED BY <1>3, <1>4, <1>5, <1>6, <1>7 DEF HostLine, e

\* A line cut short.
LEMMA CutShort ==
    ASSUME NEW d \in Seq(DownFrame), NEW n \in 0..Len(d)
    PROVE  LET e == SubSeq(d, 1, n) IN
           /\ e \in Seq(DownFrame) /\ Len(e) = n /\ DOMAIN e = 1..n
           /\ \A i \in DOMAIN e : i \in DOMAIN d /\ e[i] = d[i]
           /\ ToSet(e) \subseteq ToSet(d)
<1> DEFINE e == SubSeq(d, 1, n)
<1>1. DOMAIN d = 1..Len(d) /\ Len(d) \in Nat /\ n \in Int /\ 1 \in Int
  BY LenProperties
<1>2. \A i \in 1..n : d[i] \in DownFrame
  BY <1>1, ElementOfSeq
<1>3. /\ e \in Seq(DownFrame)
      /\ Len(e) = IF 1 <= n THEN n - 1 + 1 ELSE 0
      /\ \A i \in 1..(n - 1 + 1) : e[i] = d[1 + i - 1]
  BY <1>1, <1>2, SubSeqProperties
<1>4. DOMAIN e = 1..Len(e)
  BY <1>3, LenProperties
<1> HIDE DEF e
<1>5. Len(e) = n
  BY <1>1, <1>3
<1>6. \A i \in DOMAIN e : i \in DOMAIN d /\ e[i] = d[i]
  BY <1>1, <1>3, <1>4, <1>5
<1> QED BY <1>3, <1>4, <1>5, <1>6 DEF ToSet, e

\* The lines of a client whose connection is gone, whole or cut short.
LEMMA HungUp ==
    ASSUME NEW b, NEW k, NEW open, NEW host, NEW host2,
           NEW d \in Seq(DownFrame), HostLine(b, k, open, host, d),
           NEW n \in 0..Len(d)
    PROVE  HostLine(b, k, FALSE, host2, SubSeq(d, 1, n))
<1>1. PICK e : /\ e = SubSeq(d, 1, n)
               /\ DOMAIN e = 1..n
               /\ \A i \in DOMAIN e : i \in DOMAIN d /\ e[i] = d[i]
  BY CutShort
<1>2. Len(d) \in Nat
  BY LenProperties
<1>3. ASSUME NEW i \in DOMAIN e, Believes(b, k, d, i) PROVE Believes(b, k, e, i)
  <2>1. \A j \in 0..(i - 1) : j # 0 => j \in DOMAIN e
    BY <1>1, <1>2
  <2> QED BY <2>1, <1>1, <1>3 DEF Believes
<1>4. HostLine(b, k, FALSE, host2, e)
  BY <1>1, <1>3 DEF HostLine
<1> QED BY <1>1, <1>4

-------------------------------------------------------------------------------
(***************************************************************************)
(* Frames, rooms and types.                                                *)
(***************************************************************************)

\* What the client sends, and what the server does.
LEMMA UpFrames ==
    /\ JoinRequest \in UpFrame /\ Asks(JoinRequest)
    /\ \A m \in UpFrame : /\ ~Asks(m) <=> IsRpc(m)
                          /\ Asks(m) => m = JoinRequest
                          /\ IsRpc(m) => m \in RpcFrame
    /\ \A m \in RpcFrame : /\ m \in UpFrame /\ m \in DownFrame /\ IsRpc(m) /\ ~Asks(m)
                           /\ m.n \in Rpcs /\ m = Rpc(m.t, m.n)
    /\ \A t \in {"attack", "skill", "damage"}, n \in Rpcs :
          Rpc(t, n) \in RpcFrame /\ Rpc(t, n).t = t /\ Rpc(t, n).n = n
BY DEF JoinRequest, UpFrame, RpcFrame, DownFrame, Asks, IsRpc, Rpc

\* What the server sends, and what a client reads in it.
LEMMA DownFrames ==
    /\ \A h \in BOOLEAN : /\ JoinAck(h) \in DownFrame /\ JoinAck(h).t = "JOIN_ACK"
                          /\ \A k : Claims(k, JoinAck(h)) <=> h
    /\ \A k \in Conns : /\ HostReassign(k) \in DownFrame
                        /\ HostReassign(k).t = "HOST_REASSIGN"
                        /\ \A j : Claims(j, HostReassign(k)) <=> j = k
    /\ \A m \in DownFrame : /\ m.t \in {"attack", "skill", "damage"} => m \in RpcFrame
                            /\ m.t = "JOIN_ACK" => m.isHost \in BOOLEAN
BY DEF JoinAck, HostReassign, DownFrame, RpcFrame, Claims

\* Whom a frame reaches.
LEMMA Reaches ==
    ASSUME NEW d \in [Clients -> Seq(DownFrame)], NEW ks, NEW m \in DownFrame
    PROVE  /\ To(d, ks, m) \in [Clients -> Seq(DownFrame)]
           /\ \A c \in Clients :
                 To(d, ks, m)[c] = IF cur[c] \in ks THEN Append(d[c], m) ELSE d[c]
<1>1. ASSUME NEW c \in Clients PROVE Append(d[c], m) \in Seq(DownFrame)
  BY AppendProperties
<1> QED BY <1>1 DEF To

\* The first of a room, if there is one, is seated there.
LEMMA RoomFacts ==
    ASSUME RelayTypeOK, RoomsOK
    PROVE  /\ alive \subseteq Conns /\ 0 \notin Conns /\ NoRoom \notin Rooms
           /\ \A k \in Conns : RoomOf(k) = IF k \in alive THEN seat[k] ELSE NoRoom
           /\ \A r \in Rooms : room[r] = <<>> => \A k \in alive : seat[k] # r
           /\ \A r \in Rooms : room[r] # <<>> => /\ Head(room[r]) \in alive
                                              /\ seat[Head(room[r])] = r
<1>1. alive \subseteq Conns /\ NoRoom \notin Rooms /\ 0 \notin Conns
  <2>1. DOMAIN owner = 1..Len(owner) /\ Len(owner) \in Nat /\ Len(owner) <= MaxConns
    BY LenProperties DEF RelayTypeOK
  <2> QED BY <2>1, CombatAssumption DEF RelayTypeOK, Rooms, Conns, NoRoom
<1>2. ASSUME NEW k \in Conns
      PROVE  RoomOf(k) = IF k \in alive THEN seat[k] ELSE NoRoom
  <2>1. \A r \in Rooms : k \in ToSet(room[r]) <=> k \in alive /\ seat[k] = r
    BY DEF RoomsOK
  <2>2. seat[k] \in Rooms \cup {NoRoom}
    BY DEF RelayTypeOK
  <2> QED BY <2>1, <2>2, <1>1 DEF RoomOf
<1>3. ASSUME NEW r \in Rooms
      PROVE  /\ room[r] = <<>> => \A k \in alive : seat[k] # r
             /\ room[r] # <<>> => Head(room[r]) \in alive /\ seat[Head(room[r])] = r
  <2>1. room[r] \in Seq(Conns) /\ ToSet(room[r]) = {k \in alive : seat[k] = r}
    BY DEF RelayTypeOK, RoomsOK
  <2>2. room[r] # <<>> => Head(room[r]) \in ToSet(room[r])
    BY <2>1, LineSets
  <2>3. room[r] = <<>> => ToSet(room[r]) = {}
    BY EmptyDomain DEF ToSet
  <2> QED BY <2>1, <2>2, <2>3
<1> QED BY <1>1, <1>2, <1>3

\* Every step keeps the server's tables in step with each other.
LEMMA RoomsStep ==
    ASSUME RelayTypeOK, ConnsOK, RoomsOK, RelayNext
    PROVE  /\ RoomsOK'
           /\ room' \in [Rooms -> Seq(Conns)]
           /\ seat' \in [Conns -> Rooms \cup {NoRoom}]
<1> USE DEF RelayTypeOK
<1>1. ASSUME UNCHANGED <<alive, room, seat>>
      PROVE  /\ RoomsOK' /\ room' \in [Rooms -> Seq(Conns)]
             /\ seat' \in [Conns -> Rooms \cup {NoRoom}]
  BY <1>1 DEF RoomsOK
<1>2. ASSUME NEW c \in Clients, Connects(c) PROVE RoomsOK' /\ UNCHANGED <<room, seat>>
  <2>1. PICK k : k = Len(owner) + 1
    OBVIOUS
  <2>2. alive' = alive \cup {k} /\ UNCHANGED <<room, seat>> /\ Len(owner) < MaxConns
    BY <1>2, <2>1 DEF Connects
  <2>3. k \in Conns /\ seat[k] = NoRoom
    <3>1. Len(owner) \in Nat
      BY LenProperties
    <3>2. k \in Conns /\ k > Len(owner)
      BY <3>1, <2>1, <2>2, CombatAssumption DEF Conns
    <3> QED BY <3>2 DEF ConnsOK
  <2>4. NoRoom \notin Rooms
    BY RoomFacts
  <2> QED BY <2>2, <2>3, <2>4 DEF RoomsOK
<1>3. ASSUME NEW k \in Conns, NEW r \in Rooms, OnJoinRequest(k, r)
      PROVE  /\ RoomsOK' /\ room' \in [Rooms -> Seq(Conns)]
             /\ seat' \in [Conns -> Rooms \cup {NoRoom}]
  <2>1. k \in alive /\ seat[k] = NoRoom /\ NoRoom \notin Rooms
    BY <1>3, RoomFacts DEF OnJoinRequest, Handles
  <2>2. /\ room' = [room EXCEPT ![r] = MapSet(@, k)]
        /\ seat' = [seat EXCEPT ![k] = r]
        /\ alive' = alive
    BY <1>3 DEF OnJoinRequest, Handles
  <2>3. /\ room[r] \in Seq(Conns) /\ Distinct(room[r])
        /\ ToSet(room[r]) = {j \in alive : seat[j] = r}
    BY DEF RoomsOK
  <2>4. k \notin ToSet(room[r])
    BY <2>1, <2>3
  <2>5. /\ MapSet(room[r], k) \in Seq(Conns)
        /\ ToSet(MapSet(room[r], k)) = ToSet(room[r]) \cup {k}
        /\ Distinct(MapSet(room[r], k))
    BY <2>3, <2>4, MapSetNew
  <2>6. ASSUME NEW q \in Rooms
        PROVE  Distinct(room'[q]) /\ ToSet(room'[q]) = {j \in alive' : seat'[j] = q}
    <3>1. alive \subseteq Conns
      BY RoomFacts
    <3>2. CASE q = r
      <4>1. room'[q] = MapSet(room[r], k)
        BY <3>2, <2>2
      <4>2. \A j \in alive : seat'[j] = q <=> j = k \/ seat[j] = r
        BY <3>1, <3>2, <2>2
      <4>3. {j \in alive' : seat'[j] = q} = {j \in alive : seat[j] = r} \cup {k}
        BY <4>2, <2>1, <2>2
      <4> QED BY <4>1, <4>3, <2>3, <2>5
    <3>3. CASE q # r
      BY <3>1, <3>3, <2>1, <2>2 DEF RoomsOK
    <3> QED BY <3>2, <3>3
  <2> QED BY <2>2, <2>5, <2>6 DEF RoomsOK
<1>4. ASSUME NEW k \in Conns, OnClose(k)
      PROVE  RoomsOK' /\ room' \in [Rooms -> Seq(Conns)] /\ UNCHANGED seat
  <2>1. /\ k \in alive /\ RoomOf(k) = seat[k] /\ NoRoom \notin Rooms
        /\ alive' = alive \ {k} /\ UNCHANGED seat
    BY <1>4, RoomFacts DEF OnClose, rpcVars
  <2>2. CASE seat[k] = NoRoom
    <3>1. room' = room
      BY <2>1, <2>2, <1>4 DEF OnClose
    <3> QED BY <3>1, <2>1, <2>2 DEF RoomsOK
  <2>3. CASE seat[k] # NoRoom
    <3>1. PICK r \in Rooms : r = seat[k]
      BY <2>3
    <3>2. room' = [room EXCEPT ![r] = MapDelete(@, k)]
      BY <3>1, <2>1, <2>3, <1>4 DEF OnClose, LeavesRoom
    <3>3. /\ room[r] \in Seq(Conns) /\ Distinct(room[r])
          /\ ToSet(room[r]) = {j \in alive : seat[j] = r}
      BY DEF RoomsOK
    <3>4. /\ MapDelete(room[r], k) \in Seq(Conns)
          /\ ToSet(MapDelete(room[r], k)) = ToSet(room[r]) \ {k}
          /\ Distinct(MapDelete(room[r], k))
      BY <3>3, MapDeleteKey
    <3>5. ASSUME NEW q \in Rooms
          PROVE  Distinct(room'[q]) /\ ToSet(room'[q]) = {j \in alive' : seat'[j] = q}
      <4>1. CASE q = r
        BY <4>1, <3>2, <3>3, <3>4, <2>1
      <4>2. CASE q # r
        BY <4>2, <3>1, <3>2, <2>1 DEF RoomsOK
      <4> QED BY <4>1, <4>2
    <3> QED BY <3>2, <3>4, <3>5, <2>1 DEF RoomsOK
  <2> QED BY <2>2, <2>3
<1>5. ASSUME NEW c \in Clients,
             \/ RequestsJoin(c) \/ (\E type \in {"attack", "skill"} : LocalRpc(c, type))
             \/ Flush(c) \/ LosesConnection(c) \/ OnPacket(c)
      PROVE  UNCHANGED <<alive, room, seat>>
  BY <1>5 DEF RequestsJoin, LocalRpc, Flush, LosesConnection, OnPacket, serverVars
<1>6. ASSUME NEW k \in Conns, OnJoinDenied(k) \/ OnAttack(k) \/ OnDamage(k) \/ OnSkill(k)
      PROVE  UNCHANGED <<alive, room, seat>>
  BY <1>6 DEF OnJoinDenied, OnAttack, OnDamage, OnSkill, Handles
<1> QED BY <1>1, <1>2, <1>3, <1>4, <1>5, <1>6 DEF RelayNext, OnMessage

\* What a frame handled by the server is, and what is left.
LEMMA Handled ==
    ASSUME RelayTypeOK, NEW k \in Conns, NEW type, Handles(k, type)
    PROVE  /\ k \in alive /\ up[k] # <<>>
           /\ Head(up[k]) \in UpFrame /\ Head(up[k]).t = type
           /\ up[k] \in Seq(UpFrame) /\ Tail(up[k]) \in Seq(UpFrame)
           /\ up' = [up EXCEPT ![k] = Tail(@)]
           /\ UNCHANGED <<cur, me, isHost, out, owner, alive, made, heard>>
<1>1. /\ k \in alive /\ up[k] # <<>> /\ Head(up[k]).t = type
      /\ up' = [up EXCEPT ![k] = Tail(@)]
      /\ UNCHANGED <<cur, me, isHost, out, owner, alive, made, heard>>
  BY DEF Handles
<1>2. up[k] \in Seq(UpFrame)
  BY DEF RelayTypeOK
<1> QED BY <1>1, <1>2, HeadTailProperties

\* What a client handles: its flag, the damage it sends, what it has heard.
LEMMA Received ==
    ASSUME RelayTypeOK, NEW c \in Clients, OnPacket(c)
    PROVE  LET m == Head(down[c]) IN
           /\ down[c] \in Seq(DownFrame) /\ down[c] # <<>> /\ m \in DownFrame
           /\ Tail(down[c]) \in Seq(DownFrame)
           /\ down' = [down EXCEPT ![c] = Tail(@)]
           /\ UNCHANGED <<cur, me, serverVars, made, sent>>
           /\ isHost' = [isHost EXCEPT ![c] =
                 IF m.t \in {"JOIN_ACK", "HOST_REASSIGN"} THEN HostFlag(c, m) ELSE @]
           /\ HostFlag(c, m) \in BOOLEAN \/ m.t \notin {"JOIN_ACK", "HOST_REASSIGN"}
           /\ out' = IF m.t = "attack" /\ isHost[c]
                     THEN [out EXCEPT ![c] = Append(@, Rpc("damage", m.n))] ELSE out
           /\ heard' = IF m.t = "damage" THEN heard \cup {<<me[c], m.n>>} ELSE heard
<1> DEFINE m == Head(down[c])
<1>1. down[c] \in Seq(DownFrame) /\ down[c] # <<>>
  BY DEF RelayTypeOK, OnPacket
<1>2. m \in DownFrame /\ Tail(down[c]) \in Seq(DownFrame)
  BY <1>1, HeadTailProperties
<1>3. HostFlag(c, m) \in BOOLEAN \/ m.t \notin {"JOIN_ACK", "HOST_REASSIGN"}
  BY <1>2, DownFrames DEF HostFlag
<1>4. isHost = [isHost EXCEPT ![c] = @]
  BY DEF RelayTypeOK
<1> QED BY <1>1, <1>2, <1>3, <1>4
        DEF OnPacket, HandleAttackRpc, HandleDamageRpc, HandleSkillRpc

\* Every step keeps the types.
LEMMA RelayTypeStep ==
    ASSUME RelayTypeOK, ConnsOK, RoomsOK, RoomsOK', RelayNext
    PROVE  RelayTypeOK'
<1> USE DEF RelayTypeOK
<1>1. \A r \in Rooms : IsInjective(room'[r]) /\ ToSet(room'[r]) \subseteq alive'
  BY DEF RoomsOK, Distinct, IsInjective
<1>2. room' \in [Rooms -> Seq(Conns)] /\ seat' \in [Conns -> Rooms \cup {NoRoom}]
  BY RoomsStep
<1>3. ASSUME NEW c \in Clients, Connects(c) PROVE RelayTypeOK'
  <2>1. PICK k : k = Len(owner) + 1
    OBVIOUS
  <2>2. /\ cur' = [cur EXCEPT ![c] = k] /\ me' = [me EXCEPT ![c] = k]
        /\ owner' = Append(owner, c) /\ alive' = alive \cup {k}
        /\ UNCHANGED <<isHost, out, down, up, rpcVars>>
        /\ Len(owner) < MaxConns
    BY <1>3, <2>1 DEF Connects
  <2>3. /\ owner' \in Seq(Clients) /\ Len(owner') = k
        /\ DOMAIN owner' = DOMAIN owner \cup {k}
    BY <2>1, <2>2, AppendFacts
  <2>4. k \in 0..MaxConns /\ k <= MaxConns
    BY <2>1, <2>2, LenProperties, CombatAssumption
  <2> QED BY <2>2, <2>3, <2>4, <1>1, <1>2 DEF rpcVars
<1>4. ASSUME NEW c \in Clients,
             RequestsJoin(c) \/ \E type \in {"attack", "skill"} : LocalRpc(c, type)
      PROVE  RelayTypeOK'
  <2>1. PICK m \in UpFrame : out' = [out EXCEPT ![c] = Append(@, m)]
    <3>1. CASE RequestsJoin(c)
      BY <3>1, UpFrames DEF RequestsJoin, QueuesRequest
    <3>2. CASE \E type \in {"attack", "skill"} : LocalRpc(c, type)
      <4>1. made + 1 \in Rpcs
        BY <3>2, CombatAssumption DEF LocalRpc, Rpcs
      <4> QED BY <3>2, <4>1, UpFrames DEF LocalRpc
    <3> QED BY <3>1, <3>2, <1>4
  <2>2. /\ Append(out[c], m) \in Seq(UpFrame)
        /\ UNCHANGED <<cur, me, isHost, down, owner, alive, up, sent, heard>>
    <3>1. Append(out[c], m) \in Seq(UpFrame)
      BY AppendProperties
    <3> QED BY <3>1, <1>4 DEF RequestsJoin, LocalRpc, serverVars, rpcVars
  <2>3. made' \in 0..MaxRpcs
    <3>1. CASE RequestsJoin(c)
      BY <3>1 DEF RequestsJoin, rpcVars
    <3>2. CASE \E type \in {"attack", "skill"} : LocalRpc(c, type)
      BY <3>2, CombatAssumption DEF LocalRpc
    <3> QED BY <3>1, <3>2, <1>4
  <2> QED BY <2>1, <2>2, <2>3, <1>1, <1>2
<1>5. ASSUME NEW c \in Clients, Flush(c) PROVE RelayTypeOK'
  <2>1. /\ cur[c] \in Conns
        /\ up' = [up EXCEPT ![cur[c]] = @ \o out[c]]
        /\ out' = [out EXCEPT ![c] = <<>>]
        /\ UNCHANGED <<cur, me, isHost, down, owner, alive, rpcVars>>
    BY <1>5, CombatAssumption DEF Flush, Conns
  <2>2. up[cur[c]] \o out[c] \in Seq(UpFrame) /\ <<>> \in Seq(UpFrame)
    BY <2>1, ConcatProperties, EmptySeq
  <2> QED BY <2>1, <2>2, <1>1, <1>2 DEF rpcVars
<1>6. ASSUME NEW c \in Clients, LosesConnection(c) PROVE RelayTypeOK'
  <2>1. /\ cur' = [cur EXCEPT ![c] = 0]
        /\ UNCHANGED <<me, isHost, out, serverVars, rpcVars>>
    BY <1>6 DEF LosesConnection
  <2>2. PICK n \in 0..Len(down[c]) : down' = [down EXCEPT ![c] = SubSeq(@, 1, n)]
    BY <1>6 DEF LosesConnection
  <2>3. SubSeq(down[c], 1, n) \in Seq(DownFrame)
    <3>1. DOMAIN down[c] = 1..Len(down[c]) /\ Len(down[c]) \in Nat /\ n \in Int /\ 1 \in Int
      BY LenProperties
    <3>2. \A i \in 1..n : down[c][i] \in DownFrame
      BY <3>1, ElementOfSeq
    <3> QED BY <3>1, <3>2, SubSeqProperties
  <2>4. down' \in [Clients -> Seq(DownFrame)] /\ cur' \in [Clients -> 0..MaxConns]
    BY <2>1, <2>2, <2>3, CombatAssumption
  <2> QED BY <2>1, <2>4, <1>1, <1>2 DEF serverVars, rpcVars
<1>7. ASSUME NEW c \in Clients, OnPacket(c) PROVE RelayTypeOK'
  <2>1. PICK m : m = Head(down[c])
    OBVIOUS
  <2>2. /\ m \in DownFrame /\ Tail(down[c]) \in Seq(DownFrame)
        /\ down' = [down EXCEPT ![c] = Tail(@)]
        /\ UNCHANGED <<cur, me, serverVars, made, sent>>
        /\ isHost' = [isHost EXCEPT ![c] =
              IF m.t \in {"JOIN_ACK", "HOST_REASSIGN"} THEN HostFlag(c, m) ELSE @]
        /\ HostFlag(c, m) \in BOOLEAN \/ m.t \notin {"JOIN_ACK", "HOST_REASSIGN"}
        /\ out' = IF m.t = "attack" /\ isHost[c]
                  THEN [out EXCEPT ![c] = Append(@, Rpc("damage", m.n))] ELSE out
        /\ heard' = IF m.t = "damage" THEN heard \cup {<<me[c], m.n>>} ELSE heard
    BY <1>7, <2>1, Received
  <2>3. isHost' \in [Clients -> BOOLEAN] /\ down' \in [Clients -> Seq(DownFrame)]
    BY <2>2
  <2>4. out' \in [Clients -> Seq(UpFrame)]
    <3>1. CASE m.t = "attack"
      <4>1. Rpc("damage", m.n) \in UpFrame
        BY <2>2, <3>1, DownFrames, UpFrames
      <4>2. Append(out[c], Rpc("damage", m.n)) \in Seq(UpFrame)
        BY <4>1, AppendProperties
      <4> QED BY <4>2, <2>2
    <3> QED BY <3>1, <2>2
  <2>5. heard' \subseteq Conns \X Rpcs
    <3>1. CASE m.t = "damage"
      <4>1. m.n \in Rpcs
        BY <2>2, <3>1, DownFrames, UpFrames
      <4>2. me[c] \in Conns
        BY <1>7, <2>2, CombatAssumption DEF ConnsOK, OnPacket, Conns
      <4> QED BY <4>1, <4>2, <2>2
    <3> QED BY <3>1, <2>2
  <2> QED BY <2>2, <2>3, <2>4, <2>5, <1>1, <1>2 DEF serverVars
<1>8. ASSUME NEW k \in Conns, OnMessage(k) PROVE RelayTypeOK'
  <2>1. PICK type : Handles(k, type)
    BY <1>8 DEF OnMessage, OnJoinRequest, OnJoinDenied, OnAttack, OnDamage, OnSkill
  <2>2. /\ Tail(up[k]) \in Seq(UpFrame) /\ k \in alive
        /\ Head(up[k]) \in UpFrame
        /\ up' = [up EXCEPT ![k] = Tail(@)]
        /\ UNCHANGED <<cur, me, isHost, out, owner, alive, made, heard>>
    BY <2>1, Handled
  <2>3. down' \in [Clients -> Seq(DownFrame)] /\ sent' \in
           [Rpcs -> [room : Rooms \cup {NoRoom}, host : 0..MaxConns, others : SUBSET Conns]]
    <3>1. CASE \E r \in Rooms : OnJoinRequest(k, r)
      <4>1. PICK r \in Rooms : OnJoinRequest(k, r)
        BY <3>1
      <4>2. PICK h \in BOOLEAN : h = (room[r] = <<>>)
        OBVIOUS
      <4>3. JoinAck(h) \in DownFrame /\ down' = To(down, {k}, JoinAck(h)) /\ sent' = sent
        BY <4>1, <4>2, DownFrames DEF OnJoinRequest
      <4> QED BY <4>3, Reaches
    <3>2. CASE OnJoinDenied(k)
      BY <3>2 DEF OnJoinDenied
    <3>3. CASE OnAttack(k)
      <4>1. CASE RoomOf(k) = NoRoom
        BY <4>1, <3>3 DEF OnAttack
      <4>2. CASE RoomOf(k) # NoRoom
        <5>1. PICK r \in Rooms : r = RoomOf(k)
          BY <4>2, RoomFacts
        <5>2. PICK n \in Rpcs : n = Head(up[k]).n
          <6>1. Handles(k, "attack")
            BY <3>3 DEF OnAttack
          <6>2. Head(up[k]).t = "attack"
            BY <6>1 DEF Handles
          <6> QED BY <6>2, <2>2, UpFrames DEF IsRpc
        <5>3. /\ down' = To(down, {Head(room[r])}, Rpc("attack", n))
              /\ sent' = [sent EXCEPT ![n] = [room |-> r, host |-> Head(room[r]),
                                              others |-> Others(r, Head(room[r]))]]
          BY <3>3, <4>2, <5>1, <5>2 DEF OnAttack, RelayAttack
        <5>4. Head(room[r]) \in 0..MaxConns
          <6>1. k \in alive /\ seat[k] = r
            BY <2>2, <4>2, <5>1, RoomFacts
          <6>2. Head(room[r]) \in Conns
            BY <6>1, RoomFacts
          <6> QED BY <6>2, CombatAssumption DEF Conns
        <5>5. Others(r, Head(room[r])) \subseteq Conns
          <6>1. ToSet(room[r]) \subseteq alive /\ alive \subseteq Conns
            BY RoomFacts
          <6> QED BY <6>1 DEF Others
        <5>6. down' \in [Clients -> Seq(DownFrame)]
          <6>1. Rpc("attack", n) \in DownFrame
            BY UpFrames
          <6> QED BY <5>3, <6>1, Reaches
        <5> QED BY <5>3, <5>4, <5>5, <5>6
      <4> QED BY <4>1, <4>2
    <3>4. CASE OnDamage(k) \/ OnSkill(k)
      <4>1. Head(up[k]) \in DownFrame /\ sent' = sent
        <5>1. Head(up[k]).t \in {"damage", "skill"} /\ sent' = sent
          BY <3>4 DEF OnDamage, OnSkill, Handles
        <5> QED BY <5>1, <2>2, UpFrames DEF IsRpc
      <4>2. PICK ks : ks = Others(RoomOf(k), k)
        OBVIOUS
      <4>3. down' = down \/ down' = To(down, ks, Head(up[k]))
        BY <3>4, <4>2 DEF OnDamage, OnSkill
      <4>4. PICK h \in DownFrame : h = Head(up[k])
        BY <4>1
      <4>5. To(down, ks, h) \in [Clients -> Seq(DownFrame)]
        BY Reaches
      <4>6. sent' \in
              [Rpcs -> [room : Rooms \cup {NoRoom}, host : 0..MaxConns, others : SUBSET Conns]]
        BY <4>1
      <4> QED BY <4>3, <4>4, <4>5, <4>6
    <3> QED BY <3>1, <3>2, <3>3, <3>4, <1>8 DEF OnMessage
  <2> QED BY <2>2, <2>3, <1>1, <1>2
<1>9. ASSUME NEW k \in Conns, OnClose(k) PROVE RelayTypeOK'
  <2>1. /\ k \in alive /\ alive' = alive \ {k}
        /\ up' = [up EXCEPT ![k] = <<>>]
        /\ UNCHANGED <<cur, me, isHost, out, owner, rpcVars>>
    BY <1>9 DEF OnClose
  <2>2. down' \in [Clients -> Seq(DownFrame)]
    <3>1. CASE RoomOf(k) = NoRoom
      BY <3>1, <1>9 DEF OnClose
    <3>2. CASE RoomOf(k) # NoRoom
      <4>1. PICK r \in Rooms : r = RoomOf(k)
        BY <3>2, RoomFacts
      <4>2. PICK rest \in Seq(Conns) : rest = MapDelete(room[r], k)
        BY MapDeleteKey DEF RoomsOK
      <4>3. Reassigns(r, rest)
        BY <1>9, <3>2, <4>1, <4>2 DEF OnClose
      <4>4. rest # <<>> => HostReassign(Head(rest)) \in DownFrame
        BY <4>2, HeadTailProperties, DownFrames
      <4> QED BY <4>3, <4>4, Reaches DEF Reassigns
    <3> QED BY <3>1, <3>2
  <2>3. <<>> \in Seq(UpFrame)
    BY EmptySeq
  <2> QED BY <2>1, <2>2, <2>3, <1>1, <1>2 DEF rpcVars
<1> QED BY <1>3, <1>4, <1>5, <1>6, <1>7, <1>8, <1>9 DEF RelayNext

\* A connection is one client's.
LEMMA OneClient ==
    ASSUME RelayTypeOK, ConnsOK, RoomsOK
    PROVE  /\ \A c \in Clients : cur[c] # 0 => cur[c] = me[c] /\ me[c] \in Conns
           /\ \A c \in Clients : me[c] # 0 => me[c] \in Conns
           /\ \A c, e \in Clients : me[c] # 0 /\ me[c] = me[e] => c = e
<1>1. /\ MaxConns \in Nat /\ me \in [Clients -> 0..MaxConns]
      /\ \A c \in Clients : /\ cur[c] # 0 => cur[c] = me[c]
                            /\ me[c] # 0 => owner[me[c]] = c
  BY CombatAssumption DEF RelayTypeOK, ConnsOK
<1>2. ASSUME NEW c \in Clients, me[c] # 0 PROVE me[c] \in Conns
  <2>1. me[c] \in 0..MaxConns
    BY <1>1
  <2> QED BY <2>1, <1>1, <1>2 DEF Conns
<1> QED BY <1>1, <1>2

\* What a new connection finds.
LEMMA NewConn ==
    ASSUME RelayTypeOK, ConnsOK, RoomsOK, NEW c \in Clients, Connects(c)
    PROVE  \E k \in Conns :
              /\ k > Len(owner) /\ up[k] = <<>> /\ seat[k] = NoRoom /\ k \notin alive
              /\ down[c] = <<>> /\ cur[c] = 0 /\ Len(owner') = k /\ owner'[k] = c
              /\ \A j \in Conns : j <= Len(owner) => owner'[j] = owner[j]
              /\ cur' = [cur EXCEPT ![c] = k] /\ me' = [me EXCEPT ![c] = k]
              /\ alive' = alive \cup {k}
              /\ \A e \in Clients : me[e] # k
              /\ UNCHANGED <<isHost, out, down, up, room, seat, made, sent, heard>>
<1>1. PICK k : k = Len(owner) + 1
  OBVIOUS
<1>2. /\ owner \in Seq(Clients) /\ Len(owner) \in Nat /\ DOMAIN owner = 1..Len(owner)
      /\ alive \subseteq DOMAIN owner
  BY LenProperties DEF RelayTypeOK
<1>3. /\ down[c] = <<>> /\ cur[c] = 0 /\ Len(owner) < MaxConns
      /\ cur' = [cur EXCEPT ![c] = k] /\ me' = [me EXCEPT ![c] = k]
      /\ owner' = Append(owner, c) /\ alive' = alive \cup {k}
      /\ UNCHANGED <<isHost, out, down, up, room, seat, made, sent, heard>>
  BY <1>1 DEF Connects, rpcVars
<1>4. k \in Conns /\ k > Len(owner) /\ k \notin alive
  BY <1>1, <1>2, <1>3, CombatAssumption DEF Conns
<1>5. /\ Len(owner') = k /\ owner'[k] = c
      /\ \A j \in 1..Len(owner) : owner'[j] = owner[j]
  BY <1>1, <1>2, <1>3, AppendProperties
<1>6. \A j \in Conns : j <= Len(owner) => owner'[j] = owner[j]
  BY <1>2, <1>5 DEF Conns
<1>7. up[k] = <<>> /\ seat[k] = NoRoom
  BY <1>4 DEF ConnsOK
<1>8. ASSUME NEW e \in Clients PROVE me[e] # k
  <2>1. CASE me[e] = 0
    BY <2>1, <1>1, <1>2
  <2>2. CASE me[e] # 0
    <3>1. me[e] <= Len(owner) /\ me[e] \in Conns
      BY <2>2, OneClient DEF ConnsOK
    <3>2. PICK j \in Conns : j = me[e]
      BY <3>1
    <3>3. j \in Nat /\ j <= Len(owner)
      BY <3>1, <3>2 DEF Conns
    <3>4. j # k
      BY <3>3, <1>1, <1>2
    <3> QED BY <3>2, <3>4
  <2> QED BY <2>1, <2>2
<1> QED BY <1>3, <1>4, <1>5, <1>6, <1>7, <1>8

\* Every step keeps client and server of one mind on whose connection is whose.
LEMMA ConnsStep ==
    ASSUME RelayTypeOK, ConnsOK, RoomsOK, RelayNext
    PROVE  ConnsOK'
<1> USE DEF RelayTypeOK
<1>1. Len(owner) \in Nat /\ MaxConns \in Nat
  BY LenProperties, CombatAssumption
<1>2. ASSUME NEW c \in Clients, Connects(c) PROVE ConnsOK'
  <2>1. PICK k \in Conns :
          /\ k > Len(owner) /\ up[k] = <<>> /\ seat[k] = NoRoom
          /\ down[c] = <<>> /\ Len(owner') = k /\ owner'[k] = c
          /\ \A j \in Conns : j <= Len(owner) => owner'[j] = owner[j]
          /\ cur' = [cur EXCEPT ![c] = k] /\ me' = [me EXCEPT ![c] = k]
          /\ alive' = alive \cup {k}
          /\ UNCHANGED <<out, down, up, seat>>
    BY <1>2, NewConn
  <2>2. \A e \in Clients : me[e] # 0 => me[e] \in Conns
    BY OneClient
  <2>3. k # 0 /\ k \in Nat
    BY DEF Conns
  <2>4. ASSUME NEW e \in Clients
        PROVE  /\ cur'[e] # 0 => cur'[e] = me'[e] /\ cur'[e] \in alive'
               /\ me'[e] # 0 => me'[e] <= Len(owner') /\ owner'[me'[e]] = e
               /\ me'[e] = 0 => out'[e] = <<>> /\ down'[e] = <<>>
    <3>1. CASE e = c
      BY <2>1, <2>3, <3>1
    <3>2. CASE e # c
      <4>1. cur'[e] = cur[e] /\ me'[e] = me[e] /\ out'[e] = out[e] /\ down'[e] = down[e]
        BY <2>1, <3>2
      <4>2. me[e] # 0 => me[e] <= Len(owner) /\ owner[me[e]] = e /\ me[e] \in Conns
        BY <2>2 DEF ConnsOK
      <4>3. ASSUME me[e] # 0 PROVE me[e] <= k /\ owner'[me[e]] = e
        <5>1. PICK j \in Conns : j = me[e] /\ j <= Len(owner) /\ owner[j] = e
          BY <4>2, <4>3
        <5>2. j \in Nat
          BY DEF Conns
        <5>3. owner'[j] = e
          BY <5>1, <2>1
        <5>4. j <= k
          <6>1. k > Len(owner)
            BY <2>1
          <6>2. PICK l \in Nat : l = Len(owner)
            BY <1>1
          <6>3. k > l /\ j <= l
            BY <6>1, <6>2, <5>1
          <6> QED BY <6>3, <5>2, <2>3
        <5> QED BY <5>1, <5>3, <5>4
      <4> QED BY <4>1, <4>3, <2>1 DEF ConnsOK
    <3> QED BY <3>1, <3>2
  <2>5. ASSUME NEW j \in Conns, j > Len(owner') PROVE up'[j] = <<>> /\ seat'[j] = NoRoom
    <3>1. j > Len(owner)
      BY <2>1, <2>3, <2>5, <1>1 DEF Conns
    <3> QED BY <3>1, <2>1 DEF ConnsOK
  <2> QED BY <2>4, <2>5 DEF ConnsOK
<1>3. ASSUME NEW c \in Clients,
             RequestsJoin(c) \/ \E type \in {"attack", "skill"} : LocalRpc(c, type)
      PROVE  ConnsOK'
  <2>1. /\ cur[c] # 0
        /\ \A e \in Clients : e # c => out'[e] = out[e]
        /\ UNCHANGED <<cur, me, down, owner, alive, up, seat>>
    BY <1>3 DEF RequestsJoin, QueuesRequest, LocalRpc, serverVars
  <2>2. me[c] # 0
    BY <2>1 DEF ConnsOK
  <2> QED BY <2>1, <2>2 DEF ConnsOK
<1>4. ASSUME NEW c \in Clients, Flush(c) PROVE ConnsOK'
  <2>1. /\ cur[c] # 0 /\ out' = [out EXCEPT ![c] = <<>>]
        /\ \A j \in Conns : j # cur[c] => up'[j] = up[j]
        /\ UNCHANGED <<cur, me, down, owner, alive, seat>>
    BY <1>4 DEF Flush
  <2>2. ~(cur[c] > Len(owner))
    <3>1. cur[c] = me[c] /\ me[c] <= Len(owner) /\ me[c] \in Nat
      BY <2>1, <1>1 DEF ConnsOK
    <3> QED BY <3>1, <1>1
  <2>3. \A e \in Clients : me[e] = 0 => out'[e] = <<>> /\ down'[e] = <<>>
    BY <2>1 DEF ConnsOK
  <2> QED BY <2>1, <2>2, <2>3 DEF ConnsOK
<1>5. ASSUME NEW c \in Clients, LosesConnection(c) \/ OnPacket(c) PROVE ConnsOK'
  <2>1. /\ down[c] # <<>> \/ cur[c] # 0
        /\ \A e \in Clients : e # c => out'[e] = out[e] /\ down'[e] = down[e]
        /\ cur' = cur \/ cur' = [cur EXCEPT ![c] = 0]
        /\ UNCHANGED <<me, owner, alive, up, seat>>
    <3>1. CASE LosesConnection(c)
      BY <3>1 DEF LosesConnection, serverVars
    <3>2. CASE OnPacket(c)
      <4>1. PICK x : out' = out \/ out' = [out EXCEPT ![c] = x]
        BY <3>2, Received
      <4>2. /\ down[c] # <<>> /\ down' = [down EXCEPT ![c] = Tail(@)]
            /\ UNCHANGED <<cur, me, owner, alive, up, seat>>
        BY <3>2, Received DEF serverVars
      <4>3. ASSUME NEW e \in Clients, e # c PROVE out'[e] = out[e] /\ down'[e] = down[e]
        BY <4>1, <4>2, <4>3
      <4> QED BY <4>2, <4>3
    <3> QED BY <3>1, <3>2, <1>5
  <2>2. me[c] # 0
    BY <2>1 DEF ConnsOK
  <2>3. ASSUME NEW e \in Clients
        PROVE  /\ cur'[e] # 0 => cur'[e] = me[e] /\ cur'[e] \in alive
               /\ me[e] = 0 => out'[e] = <<>> /\ down'[e] = <<>>
    <3>1. cur'[e] = cur[e] \/ cur'[e] = 0
      BY <2>1
    <3> QED BY <2>1, <2>2, <3>1 DEF ConnsOK
  <2> QED BY <2>1, <2>3 DEF ConnsOK
<1>6. ASSUME NEW k \in Conns, OnMessage(k) PROVE ConnsOK'
  <2>1. PICK type : Handles(k, type)
    BY <1>6 DEF OnMessage, OnJoinRequest, OnJoinDenied, OnAttack, OnDamage, OnSkill
  <2>2. /\ k \in alive /\ up[k] # <<>>
        /\ \A j \in Conns : j # k => up'[j] = up[j]
        /\ UNCHANGED <<cur, me, out, owner, alive>>
    BY <2>1, Handled
  <2>3. /\ \A j \in Conns : j # k => seat'[j] = seat[j]
        /\ \A e \in Clients : cur[e] = 0 => down'[e] = down[e]
    <3>1. 0 \notin Conns
      BY DEF Conns
    <3>2. \A ks \in SUBSET Conns : \A m :
                \A e \in Clients : cur[e] = 0 => To(down, ks, m)[e] = down[e]
      BY <3>1 DEF To
    <3>3. k \in Conns /\ \A r \in Rooms : Others(r, k) \subseteq Conns
      BY RoomFacts DEF Others, RoomsOK
    <3>4. CASE \E r \in Rooms : OnJoinRequest(k, r)
      <4>1. {k} \in SUBSET Conns
        OBVIOUS
      <4> QED BY <3>2, <3>4, <4>1 DEF OnJoinRequest
    <3>5. CASE OnJoinDenied(k)
      BY <3>5 DEF OnJoinDenied
    <3>6. CASE OnAttack(k)
      <4>1. CASE RoomOf(k) = NoRoom
        BY <4>1, <3>6 DEF OnAttack
      <4>2. CASE RoomOf(k) # NoRoom
        <5>1. PICK r \in Rooms : r = RoomOf(k) /\ seat[k] = r
          BY <4>2, <2>2, RoomFacts
        <5>2. {Head(room[r])} \in SUBSET Conns
          <6>1. room[r] # <<>>
            BY <5>1, <2>2, RoomFacts
          <6>2. Head(room[r]) \in alive /\ alive \subseteq Conns
            BY <6>1, RoomFacts
          <6> QED BY <6>2
        <5>3. down' = To(down, {Head(room[r])}, Rpc("attack", Head(up[k]).n)) /\ seat' = seat
          BY <3>6, <4>2, <5>1 DEF OnAttack, RelayAttack
        <5> QED BY <5>2, <5>3, <3>2
      <4> QED BY <4>1, <4>2
    <3>7. CASE OnDamage(k) \/ OnSkill(k)
      <4>1. /\ seat' = seat
            /\ down' # down => /\ RoomOf(k) # NoRoom
                               /\ down' = To(down, Others(RoomOf(k), k), Head(up[k]))
        <5>1. CASE OnDamage(k)
          BY <5>1 DEF OnDamage
        <5>2. CASE OnSkill(k)
          BY <5>2 DEF OnSkill
        <5> QED BY <5>1, <5>2, <3>7
      <4>2. RoomOf(k) # NoRoom => RoomOf(k) \in Rooms
        <5>1. RoomOf(k) = seat[k] /\ seat[k] \in Rooms \cup {NoRoom}
          BY <2>2, RoomFacts
        <5> QED BY <5>1
      <4>3. CASE down' # down
        <5>1. Others(RoomOf(k), k) \in SUBSET Conns
          BY <4>1, <4>2, <4>3, <3>3
        <5> QED BY <4>1, <4>3, <5>1, <3>2
      <4> QED BY <4>1, <4>3
    <3> QED BY <3>4, <3>5, <3>6, <3>7, <1>6 DEF OnMessage
  <2>4. ~(k > Len(owner))
    BY <2>2 DEF ConnsOK
  <2>5. \A e \in Clients : me[e] = 0 => cur[e] = 0
    BY DEF ConnsOK
  <2> QED BY <2>2, <2>3, <2>4, <2>5 DEF ConnsOK
<1>7. ASSUME NEW k \in Conns, OnClose(k) PROVE ConnsOK'
  <2>1. /\ k \in alive /\ cur[owner[k]] # k /\ alive' = alive \ {k}
        /\ up' = [up EXCEPT ![k] = <<>>]
        /\ UNCHANGED <<cur, me, out, owner, seat>>
    BY <1>7 DEF OnClose
  <2>2. \A e \in Clients : cur[e] = 0 => down'[e] = down[e]
    <3>1. CASE RoomOf(k) = NoRoom
      BY <3>1, <1>7 DEF OnClose
    <3>2. CASE RoomOf(k) # NoRoom
      <4>1. PICK r \in Rooms : r = RoomOf(k)
        BY <3>2, <2>1, RoomFacts
      <4>2. PICK rest : rest = MapDelete(room[r], k)
        OBVIOUS
      <4>3. rest \in Seq(Conns)
        BY <4>2, MapDeleteKey DEF RoomsOK
      <4>4. 0 \notin ToSet(rest)
        BY <4>3, LineSets, RoomFacts
      <4>5. Reassigns(r, rest)
        BY <1>7, <3>2, <4>1, <4>2 DEF OnClose
      <4> QED BY <4>4, <4>5 DEF Reassigns, To
    <3> QED BY <3>1, <3>2
  <2>3. ASSUME NEW e \in Clients PROVE cur[e] # k
    <3>1. k # 0
      BY DEF Conns
    <3>2. cur[e] = k => owner[k] = e
      BY <3>1 DEF ConnsOK
    <3> QED BY <3>2, <2>1
  <2>4. \A e \in Clients : me[e] = 0 => cur[e] = 0
    BY DEF ConnsOK
  <2> QED BY <2>1, <2>2, <2>3, <2>4 DEF ConnsOK
<1> QED BY <1>2, <1>3, <1>4, <1>5, <1>6, <1>7 DEF RelayNext

-------------------------------------------------------------------------------
(***************************************************************************)
(* The lines to the server.                                                *)
(***************************************************************************)

\* An empty line is in order.
LEMMA EmptyLine == Tidy(<<>>) /\ NoRequest(<<>>) /\ NoDamage(<<>>) /\ ToSet(<<>>) = {}
<1>1. ToSet(<<>>) = {}
  BY EmptyDomain DEF ToSet
<1>2. Tidy(<<>>)
  BY EmptyDomain DEF Tidy, Distinct
<1> QED BY <1>1, <1>2 DEF NoRequest, NoDamage

\* A part of a line has no frame the line does not have.
LEMMA Sublines ==
    ASSUME NEW s, NEW t, ToSet(t) \subseteq ToSet(s)
    PROVE  (NoRequest(s) => NoRequest(t)) /\ (NoDamage(s) => NoDamage(t))
BY DEF NoRequest, NoDamage

\* A line that has asked nothing and is not asking has no request, and one
\* without damage has none until it is sent some.
LEMMA GrownLine ==
    ASSUME NEW s \in Seq(UpFrame), NEW m \in UpFrame
    PROVE  /\ Append(s, m) \in Seq(UpFrame)
           /\ ToSet(Append(s, m)) = ToSet(s) \cup {m}
           /\ ~Asks(m) /\ NoRequest(s) => NoRequest(Append(s, m))
           /\ m.t # "damage" /\ NoDamage(s) => NoDamage(Append(s, m))
<1>1. ToSet(Append(s, m)) = ToSet(s) \cup {m} /\ Append(s, m) \in Seq(UpFrame)
  BY LineSets, AppendProperties
<1> QED BY <1>1 DEF NoRequest, NoDamage

\* A line without the one request there is has none.
LEMMA Unasked ==
    ASSUME NEW s \in Seq(UpFrame), JoinRequest \notin ToSet(s)
    PROVE  NoRequest(s)
<1>1. ToSet(s) \subseteq UpFrame
  BY LineSets
<1> QED BY <1>1, UpFrames DEF NoRequest

\* What is under way is not queued.
LEMMA LinesApart ==
    ASSUME RelayTypeOK, LinesOK, TokensOK, NEW c \in Clients, me[c] \in Conns
    PROVE  ToSet(up[me[c]]) \cap ToSet(out[c]) = {}
<1>1. PICK place : Placed(place)
  BY DEF TokensOK
<1>2. PICK k \in Conns : k = me[c]
  OBVIOUS
<1>3. up[k] \in Seq(UpFrame) /\ out[c] \in Seq(UpFrame)
  BY DEF RelayTypeOK
<1>4. ToSet(up[k]) \subseteq UpFrame /\ ToSet(out[c]) \subseteq UpFrame
  BY <1>3, LineSets
<1>5. ASSUME NEW m \in UpFrame, m \in ToSet(up[k]), m \in ToSet(out[c]) PROVE FALSE
  <2>1. CASE IsRpc(m)
    <3>1. place[m.n] = <<"up", k, m.t>> /\ place[m.n] = <<"out", c, m.t>>
      BY <1>1, <1>5, <2>1 DEF Placed
    <3> QED BY <3>1
  <2>2. CASE ~IsRpc(m)
    <3>1. Asks(m) /\ k # 0
      BY <2>2, UpFrames DEF Conns
    <3>2. ~NoRequest(up[k]) /\ ~NoRequest(out[c])
      BY <3>1, <1>5 DEF NoRequest
    <3> QED BY <3>1, <3>2, <1>2 DEF LinesOK
  <2> QED BY <2>1, <2>2
<1> QED BY <1>2, <1>4, <1>5

\* An attack is news in the queue of who makes it.
LEMMA NewToken ==
    ASSUME RelayTypeOK, TokensOK, NEW c \in Clients
    PROVE  \A t \in {"attack", "skill"} : made < MaxRpcs =>
              /\ made + 1 \in Rpcs /\ Rpc(t, made + 1) \in UpFrame
              /\ Rpc(t, made + 1) \notin ToSet(out[c])
<1> SUFFICES ASSUME NEW t \in {"attack", "skill"}, made < MaxRpcs
             PROVE  /\ made + 1 \in Rpcs /\ Rpc(t, made + 1) \in UpFrame
                    /\ Rpc(t, made + 1) \notin ToSet(out[c])
  OBVIOUS
<1>1. PICK place : Placed(place)
  BY DEF TokensOK
<1>2. made + 1 \in Rpcs /\ made + 1 > made
  BY CombatAssumption DEF RelayTypeOK, Rpcs
<1>3. PICK n \in Rpcs : n = made + 1
  BY <1>2
<1>4. place[n] = Unmade
  BY <1>1, <1>2, <1>3 DEF Placed
<1>5. Rpc(t, n) \in UpFrame /\ IsRpc(Rpc(t, n)) /\ Rpc(t, n).n = n
  BY UpFrames DEF IsRpc
<1>6. Rpc(t, n) \in ToSet(out[c]) => place[n] = <<"out", c, Rpc(t, n).t>>
  BY <1>1, <1>5 DEF Placed
<1>7. Rpc(t, n) \notin ToSet(out[c])
  <2>1. Unmade # <<"out", c, Rpc(t, n).t>>
    BY DEF Unmade
  <2> QED BY <2>1, <1>4, <1>6
<1> QED BY <1>2, <1>3, <1>5, <1>7

\* Damage is news in the queue of who is handed the attack; that one has a seat
\* and is not asking for one.
LEMMA HandedAttack ==
    ASSUME RelayTypeOK, ConnsOK, LinesOK, TokensOK, SentOK, NEW c \in Clients,
           NEW m \in RpcFrame, m \in ToSet(down[c]), m.t = "attack"
    PROVE  /\ me[c] \in Conns /\ seat[me[c]] # NoRoom /\ m.n \in Rpcs
           /\ sent[m.n].host = me[c]
           /\ NoRequest(out[c]) /\ NoRequest(up[me[c]])
           /\ Rpc("damage", m.n) \in UpFrame
           /\ Rpc("damage", m.n) \notin ToSet(out[c])
<1>1. PICK place : Placed(place)
  BY DEF TokensOK
<1>2. place[m.n] = <<"down", c, "attack">> /\ sent[m.n].host = me[c]
  BY <1>1 DEF Placed, SentOK
<1>3. PICK d \in RpcFrame : d = Rpc("damage", m.n) /\ IsRpc(d) /\ d.n = m.n /\ d \in UpFrame
  BY UpFrames
<1>4. d \in ToSet(out[c]) => place[m.n] = <<"out", c, d.t>>
  BY <1>1, <1>3 DEF Placed
<1>5. me[c] # 0
  <2>1. down[c] # <<>>
    BY EmptyLine
  <2> QED BY <2>1 DEF ConnsOK
<1>6. me[c] \in Conns
  BY <1>5, CombatAssumption DEF RelayTypeOK, Conns
<1>7. m.n \in Rpcs
  BY UpFrames
<1>8. seat[me[c]] # NoRoom
  BY <1>2, <1>5, <1>7 DEF SentOK
<1>9. NoRequest(out[c]) /\ NoRequest(up[me[c]])
  BY <1>5, <1>6, <1>8 DEF LinesOK
<1> QED BY <1>2, <1>3, <1>4, <1>6, <1>7, <1>8, <1>9

\* Every step keeps the lines to the server.
LEMMA LinesStep ==
    ASSUME RelayTypeOK, ConnsOK, RoomsOK, LinesOK, TokensOK, SentOK, RelayNext
    PROVE  LinesOK'
<1>1. /\ up \in [Conns -> Seq(UpFrame)] /\ out \in [Clients -> Seq(UpFrame)]
      /\ \A c \in Clients : cur[c] # 0 => cur[c] = me[c] /\ me[c] \in Conns
      /\ \A c \in Clients : me[c] # 0 => me[c] \in Conns
      /\ \A c, e \in Clients : me[c] # 0 /\ me[c] = me[e] => c = e
      /\ 0 \notin Conns
  BY OneClient, RoomFacts DEF RelayTypeOK
<1>2. ASSUME NEW c \in Clients, Connects(c) PROVE LinesOK'
  <2>1. PICK k \in Conns : /\ up[k] = <<>> /\ seat[k] = NoRoom
                           /\ me' = [me EXCEPT ![c] = k]
                           /\ UNCHANGED <<out, up, seat>>
    BY <1>2, NewConn
  <2>2. me \in [Clients -> 0..MaxConns]
    BY DEF RelayTypeOK
  <2>3. NoRequest(up[k])
    BY <2>1, EmptyLine
  <2> QED BY <2>1, <2>2, <2>3 DEF LinesOK
<1>3. ASSUME NEW c \in Clients, NEW m \in UpFrame,
             out' = [out EXCEPT ![c] = Append(@, m)], UNCHANGED <<me, up, seat>>,
             me[c] \in Conns, m \notin ToSet(out[c]),
             Asks(m) => seat[me[c]] = NoRoom /\ NoRequest(up[me[c]]),
             m.t = "damage" => NoRequest(out[c]) /\ NoRequest(up[me[c]])
      PROVE  LinesOK'
  <2>1. PICK s \in Seq(UpFrame) : s = out[c]
    BY <1>1
  <2>2. Tidy(s) /\ Tidy(Append(s, m))
    <3>1. Tidy(s)
      BY <2>1 DEF LinesOK
    <3> QED BY <3>1, <1>3, <2>1, TidyAppend
  <2>3. /\ ~Asks(m) /\ NoRequest(s) => NoRequest(Append(s, m))
        /\ m.t # "damage" /\ NoDamage(s) => NoDamage(Append(s, m))
    BY GrownLine
  <2>4. ASSUME NEW e \in Clients
        PROVE  /\ Tidy(out'[e])
               /\ me[e] # 0 =>
                    /\ seat[me[e]] # NoRoom => NoRequest(out'[e])
                    /\ ~NoRequest(up[me[e]]) => NoRequest(out'[e]) /\ NoDamage(out'[e])
    <3>1. CASE e # c
      BY <3>1, <1>1, <1>3 DEF LinesOK
    <3>2. CASE e = c
      <4>1. out'[e] = Append(s, m) /\ me[e] = me[c]
        BY <3>2, <1>1, <1>3, <2>1
      <4>2. /\ seat[me[c]] # NoRoom => NoRequest(s)
            /\ ~NoRequest(up[me[c]]) => NoRequest(s) /\ NoDamage(s)
        BY <1>1, <1>3, <2>1 DEF LinesOK
      <4> QED BY <4>1, <4>2, <1>3, <2>2, <2>3
    <3> QED BY <3>1, <3>2
  <2> QED BY <2>4, <1>3 DEF LinesOK
<1>4. ASSUME NEW c \in Clients, RequestsJoin(c) PROVE LinesOK'
  <2>1. /\ out' = [out EXCEPT ![c] = Append(@, JoinRequest)]
        /\ UNCHANGED <<me, up, seat>>
        /\ me[c] \in Conns /\ seat[me[c]] = NoRoom
        /\ JoinRequest \notin ToSet(out[c]) /\ JoinRequest \notin ToSet(up[me[c]])
    BY <1>1, <1>4 DEF RequestsJoin, QueuesRequest, serverVars
  <2>2. NoRequest(up[me[c]])
    BY <1>1, <2>1, Unasked
  <2>3. JoinRequest \in UpFrame /\ JoinRequest.t # "damage"
    BY UpFrames DEF JoinRequest
  <2> QED BY <2>1, <2>2, <2>3, <1>3
<1>5. ASSUME NEW c \in Clients, NEW type \in {"attack", "skill"}, LocalRpc(c, type)
      PROVE  LinesOK'
  <2>1. /\ out' = [out EXCEPT ![c] = Append(@, Rpc(type, made + 1))]
        /\ UNCHANGED <<me, up, seat>>
        /\ me[c] \in Conns /\ made < MaxRpcs
    BY <1>1, <1>5 DEF LocalRpc, serverVars
  <2>2. PICK m \in UpFrame : m = Rpc(type, made + 1) /\ m \notin ToSet(out[c])
    BY <2>1, NewToken
  <2>3. ~Asks(m) /\ m.t # "damage"
    BY <2>2 DEF Rpc, Asks
  <2> QED BY <2>1, <2>2, <2>3, <1>3
<1>6. ASSUME NEW c \in Clients, Flush(c) PROVE LinesOK'
  <2>1. PICK k \in Conns : k = me[c] /\ k = cur[c]
    BY <1>1, <1>6 DEF Flush
  <2>2. /\ up' = [up EXCEPT ![k] = @ \o out[c]]
        /\ out' = [out EXCEPT ![c] = <<>>]
        /\ UNCHANGED <<me, seat>>
    BY <2>1, <1>6 DEF Flush
  <2>3. PICK s \in Seq(UpFrame), t \in Seq(UpFrame) : s = up[k] /\ t = out[c]
    BY <1>1
  <2>4. /\ Tidy(s) /\ Tidy(t)
        /\ NoRequest(s) \/ NoDamage(t)
        /\ seat[k] # NoRoom => NoRequest(s) /\ NoRequest(t)
    BY <1>1, <2>1, <2>3 DEF LinesOK
  <2>5. ToSet(s) \cap ToSet(t) = {}
    BY <2>1, <2>3, LinesApart
  <2>6. Tidy(s \o t) /\ ToSet(s \o t) = ToSet(s) \cup ToSet(t)
    BY <2>4, <2>5, TidyConcat
  <2>7. seat[k] # NoRoom => NoRequest(s \o t)
    BY <2>4, <2>6 DEF NoRequest
  <2>8. up'[k] = s \o t /\ out'[c] = <<>>
    BY <1>1, <2>2, <2>3
  <2>9. ASSUME NEW j \in Conns PROVE Tidy(up'[j]) /\ (seat'[j] # NoRoom => NoRequest(up'[j]))
    BY <1>1, <2>2, <2>6, <2>7, <2>8 DEF LinesOK
  <2>10. ASSUME NEW e \in Clients
         PROVE  /\ Tidy(out'[e])
                /\ me'[e] # 0 =>
                     /\ seat'[me'[e]] # NoRoom => NoRequest(out'[e])
                     /\ ~NoRequest(up'[me'[e]]) => NoRequest(out'[e]) /\ NoDamage(out'[e])
    <3>1. CASE e = c
      BY <3>1, <2>8, EmptyLine
    <3>2. CASE e # c
      <4>1. me[e] # 0 => up'[me[e]] = up[me[e]]
        BY <3>2, <1>1, <2>1, <2>2
      <4>2. out'[e] = out[e] /\ me'[e] = me[e] /\ seat' = seat
        BY <3>2, <1>1, <2>2
      <4> QED BY <4>1, <4>2 DEF LinesOK
    <3> QED BY <3>1, <3>2
  <2> QED BY <2>9, <2>10 DEF LinesOK
<1>7. ASSUME NEW c \in Clients, LosesConnection(c) PROVE LinesOK'
  BY <1>7 DEF LosesConnection, LinesOK, serverVars
<1>8. ASSUME NEW c \in Clients, OnPacket(c) PROVE LinesOK'
  <2>1. PICK m : m = Head(down[c])
    OBVIOUS
  <2>2. /\ down[c] \in Seq(DownFrame) /\ down[c] # <<>> /\ m \in DownFrame
        /\ UNCHANGED <<me, up, seat>>
        /\ out' = IF m.t = "attack" /\ isHost[c]
                  THEN [out EXCEPT ![c] = Append(@, Rpc("damage", m.n))] ELSE out
    BY <2>1, <1>8, Received DEF serverVars
  <2>3. CASE m.t = "attack" /\ isHost[c]
    <3>1. m \in ToSet(down[c]) /\ m \in RpcFrame
      BY <2>1, <2>2, <2>3, LineSets, DownFrames
    <3>2. PICK d \in UpFrame : d = Rpc("damage", m.n)
      BY <3>1, <2>3, HandedAttack
    <3>3. /\ me[c] \in Conns /\ NoRequest(out[c]) /\ NoRequest(up[me[c]])
          /\ d \notin ToSet(out[c])
      BY <3>1, <3>2, <2>3, HandedAttack
    <3>4. ~Asks(d) /\ out' = [out EXCEPT ![c] = Append(@, d)]
      BY <3>2, <2>2, <2>3 DEF Asks, Rpc
    <3> QED BY <3>3, <3>4, <2>2, <1>3
  <2>4. CASE ~(m.t = "attack" /\ isHost[c])
    <3>1. UNCHANGED <<out, me, up, seat>>
      BY <2>2, <2>4
    <3> QED BY <3>1 DEF LinesOK
  <2> QED BY <2>3, <2>4
<1>9. ASSUME NEW k \in Conns, NEW s \in Seq(UpFrame), Tidy(s), up' = [up EXCEPT ![k] = s],
             ToSet(s) \subseteq ToSet(up[k]),
             UNCHANGED <<me, out>>,
             \A j \in Conns : seat'[j] # seat[j] => /\ j = k /\ NoRequest(s)
                                                    /\ ~NoRequest(up[k])
      PROVE  LinesOK'
  <2>1. NoRequest(up[k]) => NoRequest(s)
    BY <1>9, Sublines
  <2>2. ASSUME NEW j \in Conns
        PROVE  /\ Tidy(up'[j]) /\ (seat'[j] # NoRoom => NoRequest(up'[j]))
               /\ NoRequest(up[j]) => NoRequest(up'[j])
    <3>1. CASE j = k
      <4>1. up'[j] = s
        BY <3>1, <1>1, <1>9
      <4>2. seat[k] # NoRoom => NoRequest(up[k])
        BY DEF LinesOK
      <4> QED BY <3>1, <4>1, <4>2, <2>1, <1>9
    <3>2. CASE j # k
      BY <3>2, <1>1, <1>9 DEF LinesOK
    <3> QED BY <3>1, <3>2
  <2>3. ASSUME NEW e \in Clients, me[e] # 0
        PROVE  /\ seat'[me[e]] # NoRoom => NoRequest(out[e])
               /\ ~NoRequest(up'[me[e]]) => NoRequest(out[e]) /\ NoDamage(out[e])
    <3>1. me[e] \in Conns
      BY <1>1, <2>3
    <3>2. /\ seat[me[e]] # NoRoom => NoRequest(out[e])
          /\ ~NoRequest(up[me[e]]) => NoRequest(out[e]) /\ NoDamage(out[e])
      BY <2>3 DEF LinesOK
    <3> QED BY <3>1, <3>2, <2>2, <1>9
  <2> QED BY <2>2, <2>3, <1>9 DEF LinesOK
<1>10. ASSUME NEW k \in Conns, OnMessage(k) PROVE LinesOK'
  <2>1. PICK type : Handles(k, type)
    BY <1>10 DEF OnMessage, OnJoinRequest, OnJoinDenied, OnAttack, OnDamage, OnSkill
  <2>2. PICK u \in Seq(UpFrame), s \in Seq(UpFrame) : u = up[k] /\ s = Tail(up[k])
    BY <2>1, Handled
  <2>3. u # <<>> /\ up' = [up EXCEPT ![k] = s] /\ UNCHANGED <<me, out>>
    BY <2>1, <2>2, Handled
  <2>4. Tidy(u)
    BY <2>2 DEF LinesOK
  <2>5. /\ Tidy(s) /\ Head(u) \notin ToSet(s)
        /\ ToSet(s) \subseteq ToSet(u) /\ Head(u) \in ToSet(u)
    BY <2>2, <2>3, <2>4, TidyTail, LineSets
  <2>6. CASE \E r \in Rooms : OnJoinRequest(k, r)
    <3>1. Head(u).t = "JOIN_REQUEST" /\ \A j \in Conns : seat'[j] # seat[j] => j = k
      BY <2>2, <2>6 DEF OnJoinRequest, Handles, RelayTypeOK
    <3>2. Head(u) \in UpFrame /\ Asks(Head(u))
      BY <3>1, <2>5, LineSets DEF Asks
    <3>3. JoinRequest \notin ToSet(s) /\ ~NoRequest(u)
      BY <3>2, <2>5, UpFrames DEF NoRequest
    <3>4. NoRequest(s)
      BY <3>3, Unasked
    <3> QED BY <3>1, <3>3, <3>4, <2>2, <2>3, <2>5, <1>9
  <2>7. CASE ~\E r \in Rooms : OnJoinRequest(k, r)
    <3>1. seat' = seat
      BY <2>7, <1>10 DEF OnMessage, OnJoinDenied, OnAttack, OnDamage, OnSkill
    <3> QED BY <3>1, <2>2, <2>3, <2>5, <1>9
  <2> QED BY <2>6, <2>7
<1>11. ASSUME NEW k \in Conns, OnClose(k) PROVE LinesOK'
  <2>1. up' = [up EXCEPT ![k] = <<>>] /\ UNCHANGED <<me, out, seat>>
    BY <1>11 DEF OnClose
  <2>2. PICK s \in Seq(UpFrame) : s = <<>>
    BY EmptySeq
  <2>3. Tidy(s) /\ ToSet(s) \subseteq ToSet(up[k])
    BY <2>2, EmptyLine
  <2> QED BY <2>1, <2>2, <2>3, <1>9
<1> QED BY <1>2, <1>4, <1>5, <1>6, <1>7, <1>8, <1>10, <1>11 DEF RelayNext

-------------------------------------------------------------------------------
(***************************************************************************)
(* What the server's handlers do, and the frames that come of it.          *)
(***************************************************************************)

\* A frame in a line that was told one is old, or it is the one told.
LEMMA Heard ==
    ASSUME RelayTypeOK, NEW ks, NEW m \in DownFrame, down' = To(down, ks, m)
    PROVE  \A c \in Clients :
              /\ cur[c] \notin ks => down'[c] = down[c]
              /\ cur[c] \in ks => down'[c] = Append(down[c], m)
              /\ \A x \in ToSet(down'[c]) : x \in ToSet(down[c]) \/ (x = m /\ cur[c] \in ks)
<1> SUFFICES ASSUME NEW c \in Clients
             PROVE  /\ cur[c] \notin ks => down'[c] = down[c]
                    /\ cur[c] \in ks => down'[c] = Append(down[c], m)
                    /\ \A x \in ToSet(down'[c]) :
                          x \in ToSet(down[c]) \/ (x = m /\ cur[c] \in ks)
  OBVIOUS
<1>1. down \in [Clients -> Seq(DownFrame)]
  BY DEF RelayTypeOK
<1>2. down'[c] = IF cur[c] \in ks THEN Append(down[c], m) ELSE down[c]
  BY <1>1, Reaches
<1>3. ToSet(Append(down[c], m)) = ToSet(down[c]) \cup {m}
  BY <1>1, LineSets
<1> QED BY <1>2, <1>3

\* Who asked is seated, last of its room, and told whether it is the first.
LEMMA Joins ==
    ASSUME RelayTypeOK, RoomsOK, NEW k \in Conns, NEW r \in Rooms, OnJoinRequest(k, r)
    PROVE  /\ k \in alive /\ seat[k] = NoRoom /\ r # NoRoom
           /\ up[k] # <<>> /\ Asks(Head(up[k]))
           /\ up' = [up EXCEPT ![k] = Tail(@)]
           /\ room' = [room EXCEPT ![r] = MapSet(@, k)]
           /\ seat' = [seat EXCEPT ![k] = r]
           /\ \E first \in BOOLEAN : /\ first <=> room[r] = <<>>
                                     /\ JoinAck(first) \in DownFrame
                                     /\ down' = To(down, {k}, JoinAck(first))
           /\ UNCHANGED <<cur, me, isHost, out, owner, alive, made, sent, heard>>
<1>1. PICK first : first = (room[r] = <<>>)
  OBVIOUS
<1>2. first \in BOOLEAN /\ (first <=> room[r] = <<>>)
  BY <1>1
<1>3. down' = To(down, {k}, JoinAck(first)) /\ JoinAck(first) \in DownFrame
  BY <1>1, <1>2, DownFrames DEF OnJoinRequest
<1>4. /\ Handles(k, "JOIN_REQUEST") /\ RoomOf(k) = NoRoom
      /\ room' = [room EXCEPT ![r] = MapSet(@, k)] /\ seat' = [seat EXCEPT ![k] = r]
      /\ UNCHANGED sent
  BY DEF OnJoinRequest
<1>5. /\ k \in alive /\ up[k] # <<>> /\ Head(up[k]).t = "JOIN_REQUEST"
      /\ up' = [up EXCEPT ![k] = Tail(@)]
      /\ UNCHANGED <<cur, me, isHost, out, owner, alive, made, heard>>
  BY <1>4, Handled
<1>6. seat[k] = NoRoom /\ r # NoRoom
  BY <1>4, <1>5, RoomFacts
<1> QED BY <1>2, <1>3, <1>4, <1>5, <1>6 DEF Asks

\* An attack is dropped, or handed to the host.
LEMMA Attacks ==
    ASSUME RelayTypeOK, RoomsOK, NEW k \in Conns, OnAttack(k)
    PROVE  /\ k \in alive /\ up[k] # <<>>
           /\ up' = [up EXCEPT ![k] = Tail(@)]
           /\ \/ UNCHANGED <<down, sent>>
              \/ \E r \in Rooms, h \in Conns, a \in RpcFrame :
                    /\ a = Head(up[k]) /\ a.t = "attack"
                    /\ r = seat[k] /\ h = Head(room[r]) /\ seat[h] = r /\ h \in alive
                    /\ down' = To(down, {h}, a)
                    /\ sent' = [sent EXCEPT ![a.n] = [room |-> r, host |-> h,
                                                      others |-> Others(r, h)]]
           /\ UNCHANGED <<cur, me, isHost, out, owner, alive, room, seat, made, heard>>
<1>1. Handles(k, "attack") /\ UNCHANGED <<room, seat>>
  BY DEF OnAttack
<1>2. /\ k \in alive /\ up[k] # <<>> /\ Head(up[k]).t = "attack" /\ Head(up[k]) \in UpFrame
      /\ up' = [up EXCEPT ![k] = Tail(@)]
      /\ UNCHANGED <<cur, me, isHost, out, owner, alive, made, heard>>
  BY <1>1, Handled
<1>3. CASE RoomOf(k) = NoRoom
  BY <1>1, <1>2, <1>3 DEF OnAttack
<1>4. CASE RoomOf(k) # NoRoom
  <2>1. PICK r \in Rooms : r = seat[k] /\ r = RoomOf(k)
    <3>1. RoomOf(k) = seat[k]
      BY <1>2, RoomFacts
    <3> QED BY <3>1, <1>4 DEF RelayTypeOK
  <2>2. PICK h \in Conns : h = Head(room[r]) /\ seat[h] = r /\ h \in alive
    <3>1. room[r] # <<>>
      BY <1>2, <2>1, RoomFacts
    <3> QED BY <3>1, RoomFacts
  <2>3. PICK a \in RpcFrame : a = Head(up[k]) /\ a.t = "attack" /\ a = Rpc("attack", a.n)
    BY <1>2, UpFrames DEF IsRpc
  <2>4. /\ down' = To(down, {h}, a)
        /\ sent' = [sent EXCEPT ![a.n] = [room |-> r, host |-> h, others |-> Others(r, h)]]
    BY <1>4, <2>1, <2>2, <2>3 DEF OnAttack, RelayAttack
  <2> QED BY <1>1, <1>2, <2>1, <2>2, <2>3, <2>4
<1> QED BY <1>3, <1>4

\* Damage and skills are dropped, or sent to the others of the room.
LEMMA Relays ==
    ASSUME RelayTypeOK, RoomsOK, NEW k \in Conns, OnDamage(k) \/ OnSkill(k)
    PROVE  /\ k \in alive /\ up[k] # <<>>
           /\ up' = [up EXCEPT ![k] = Tail(@)]
           /\ \/ UNCHANGED down
              \/ \E r \in Rooms, h \in RpcFrame :
                    /\ h = Head(up[k]) /\ h.t \in {"damage", "skill"}
                    /\ r = seat[k]
                    /\ down' = To(down, Others(r, k), h)
           /\ UNCHANGED <<cur, me, isHost, out, owner, alive, room, seat, made, sent, heard>>
<1>1. /\ \/ Handles(k, "damage")
         \/ Handles(k, "skill")
      /\ UNCHANGED <<room, seat, sent>>
      /\ down' # down => /\ RoomOf(k) # NoRoom
                         /\ down' = To(down, Others(RoomOf(k), k), Head(up[k]))
  <2>1. CASE OnDamage(k)
    BY <2>1 DEF OnDamage
  <2>2. CASE OnSkill(k)
    BY <2>2 DEF OnSkill
  <2> QED BY <2>1, <2>2
<1>2. /\ k \in alive /\ up[k] # <<>> /\ Head(up[k]).t \in {"damage", "skill"}
      /\ Head(up[k]) \in UpFrame
      /\ up' = [up EXCEPT ![k] = Tail(@)]
      /\ UNCHANGED <<cur, me, isHost, out, owner, alive, made, heard>>
  <2>1. CASE Handles(k, "damage")
    BY <2>1, Handled
  <2>2. CASE Handles(k, "skill")
    BY <2>2, Handled
  <2> QED BY <1>1, <2>1, <2>2
<1>3. CASE down' # down
  <2>1. PICK r \in Rooms : r = seat[k] /\ r = RoomOf(k)
    <3>1. RoomOf(k) = seat[k]
      BY <1>2, RoomFacts
    <3> QED BY <3>1, <1>1, <1>3 DEF RelayTypeOK
  <2>2. PICK h \in RpcFrame : h = Head(up[k]) /\ h.t \in {"damage", "skill"}
    BY <1>2, UpFrames DEF IsRpc
  <2> QED BY <1>1, <1>2, <1>3, <2>1, <2>2
<1>4. CASE down' = down
  BY <1>1, <1>2, <1>4
<1> QED BY <1>3, <1>4

\* The room of a connection that closes loses it; if it was the host, the
\* others hear of the next one.
LEMMA Closes ==
    ASSUME RelayTypeOK, ConnsOK, RoomsOK, NEW k \in Conns, OnClose(k)
    PROVE  /\ k \in alive /\ alive' = alive \ {k}
           /\ \A e \in Clients : cur[e] # k
           /\ up' = [up EXCEPT ![k] = <<>>]
           /\ \/ seat[k] = NoRoom /\ UNCHANGED <<room, down>>
              \/ \E r \in Rooms, rest \in Seq(Conns) :
                    /\ r = seat[k] /\ room[r] # <<>>
                    /\ ToSet(rest) = {j \in alive : seat[j] = r /\ j # k}
                    /\ room' = [room EXCEPT ![r] = rest]
                    /\ \/ rest = <<>> /\ UNCHANGED down
                       \/ /\ rest # <<>> /\ Head(rest) \in ToSet(rest)
                          /\ Head(rest) = Head(room[r]) /\ UNCHANGED down
                       \/ /\ rest # <<>> /\ Head(rest) \in ToSet(rest)
                          /\ Head(room[r]) = k /\ Head(rest) # k
                          /\ HostReassign(Head(rest)) \in DownFrame
                          /\ down' = To(down, ToSet(rest), HostReassign(Head(rest)))
           /\ UNCHANGED <<cur, me, isHost, out, owner, seat, made, sent, heard>>
<1>1. /\ k \in alive /\ alive' = alive \ {k} /\ cur[owner[k]] # k
      /\ up' = [up EXCEPT ![k] = <<>>]
      /\ UNCHANGED <<cur, me, isHost, out, owner, seat, made, sent, heard>>
  BY DEF OnClose, rpcVars
<1>2. ASSUME NEW e \in Clients PROVE cur[e] # k
  <2>1. k # 0
    BY DEF Conns
  <2>2. cur[e] = k => owner[k] = e
    BY <2>1 DEF ConnsOK
  <2> QED BY <2>2, <1>1
<1>3. RoomOf(k) = seat[k]
  BY <1>1, RoomFacts
<1>4. CASE seat[k] = NoRoom
  BY <1>1, <1>2, <1>3, <1>4 DEF OnClose
<1>5. CASE seat[k] # NoRoom
  <2>1. PICK r \in Rooms : r = seat[k]
    BY <1>5 DEF RelayTypeOK
  <2>2. /\ room[r] \in Seq(Conns) /\ Distinct(room[r])
        /\ ToSet(room[r]) = {j \in alive : seat[j] = r}
        /\ alive \subseteq Conns
    BY RoomFacts DEF RelayTypeOK, RoomsOK
  <2>3. PICK rest : rest = MapDelete(room[r], k)
    OBVIOUS
  <2>4. /\ rest \in Seq(Conns)
        /\ ToSet(rest) = ToSet(room[r]) \ {k}
        /\ room[r] # <<>> /\ k # Head(room[r]) => rest # <<>> /\ Head(rest) = Head(room[r])
    BY <2>2, <2>3, MapDeleteKey
  <2>5. room[r] # <<>>
    BY <1>1, <2>1, RoomFacts
  <2>6. ToSet(rest) = {j \in alive : seat[j] = r /\ j # k}
    BY <2>2, <2>4
  <2>7. room' = [room EXCEPT ![r] = rest] /\ Reassigns(r, rest)
    BY <1>3, <1>5, <2>1, <2>3 DEF OnClose, LeavesRoom
  <2>8. rest # <<>> => /\ Head(rest) \in ToSet(rest)
                       /\ HostReassign(Head(rest)) \in DownFrame
                       /\ Head(rest) # k
    <3>1. rest # <<>> => Head(rest) \in ToSet(rest) /\ ToSet(rest) \subseteq Conns
      BY <2>4, LineSets
    <3> QED BY <3>1, <2>4, DownFrames
  <2>9. \/ rest = <<>> /\ UNCHANGED down
        \/ /\ rest # <<>> /\ Head(rest) \in ToSet(rest)
           /\ Head(rest) = Head(room[r]) /\ UNCHANGED down
        \/ /\ rest # <<>> /\ Head(rest) \in ToSet(rest)
           /\ Head(room[r]) = k /\ Head(rest) # k
           /\ HostReassign(Head(rest)) \in DownFrame
           /\ down' = To(down, ToSet(rest), HostReassign(Head(rest)))
    BY <2>4, <2>5, <2>7, <2>8 DEF Reassigns
  <2>10. \E q \in Rooms, z \in Seq(Conns) :
            /\ q = seat[k] /\ room[q] # <<>>
            /\ ToSet(z) = {j \in alive : seat[j] = q /\ j # k}
            /\ room' = [room EXCEPT ![q] = z]
            /\ \/ z = <<>> /\ UNCHANGED down
               \/ /\ z # <<>> /\ Head(z) \in ToSet(z)
                  /\ Head(z) = Head(room[q]) /\ UNCHANGED down
               \/ /\ z # <<>> /\ Head(z) \in ToSet(z)
                  /\ Head(room[q]) = k /\ Head(z) # k
                  /\ HostReassign(Head(z)) \in DownFrame
                  /\ down' = To(down, ToSet(z), HostReassign(Head(z)))
    BY <2>1, <2>4, <2>5, <2>6, <2>7, <2>9
  <2> QED BY <1>1, <1>2, <2>10
<1> QED BY <1>4, <1>5

-------------------------------------------------------------------------------
(***************************************************************************)
(* Where the tokens go.                                                    *)
(***************************************************************************)

\* What the server handles leaves its line for good.
LEMMA LeavesLine ==
    ASSUME RelayTypeOK, LinesOK, NEW k \in Conns, up[k] # <<>>,
           up' = [up EXCEPT ![k] = Tail(@)]
    PROVE  \A j \in Conns : /\ ToSet(up'[j]) \subseteq ToSet(up[j])
                            /\ Head(up[k]) \in ToSet(up'[j]) => j # k
                            /\ Head(up[k]) \in ToSet(up[k])
<1>1. up \in [Conns -> Seq(UpFrame)]
  BY DEF RelayTypeOK
<1>2. PICK s \in Seq(UpFrame) : s = up[k]
  BY <1>1
<1>3. s # <<>> /\ Tidy(s)
  BY <1>2 DEF LinesOK
<1>4. ToSet(Tail(s)) \subseteq ToSet(s) /\ Head(s) \notin ToSet(Tail(s)) /\ Head(s) \in ToSet(s)
  BY <1>3, TidyTail, LineSets
<1> QED BY <1>1, <1>2, <1>4

\* What a frame says of the place of its token, part by part.
TokenAt(place, n) ==
    /\ \A c \in Clients, m \in UpFrame :
          m \in ToSet(out[c]) /\ IsRpc(m) /\ m.n = n =>
              place[n][1] = "out" /\ place[n][2] = c /\ place[n][3] = m.t
    /\ \A k \in Conns, m \in UpFrame :
          m \in ToSet(up[k]) /\ IsRpc(m) /\ m.n = n =>
              place[n][1] = "up" /\ place[n][2] = k /\ place[n][3] = m.t
    /\ \A c \in Clients, m \in RpcFrame : m \in ToSet(down[c]) /\ m.n = n =>
          /\ m.t = "attack" => place[n][1] = "down" /\ place[n][2] = c
          /\ m.t = "damage" => place[n][1] = "spent"
    /\ \A k \in Conns : <<k, n>> \in heard => place[n][1] = "spent"
    /\ n > made => place[n][1] = "unmade"

\* The parts of a place.
LEMMA Parts ==
    /\ Unmade[1] = "unmade" /\ Spent[1] = "spent"
    /\ \A a, b, c : /\ <<a, b, c>>[1] = a
                    /\ <<a, b, c>>[2] = b
                    /\ <<a, b, c>>[3] = c
<1>1. \A a, b, c : <<a, b, c>>[1] = a /\ <<a, b, c>>[2] = b /\ <<a, b, c>>[3] = c
  OBVIOUS
<1>2. Unmade[1] = "unmade"
  BY DEF Unmade
<1>3. Spent[1] = "spent"
  BY DEF Spent
<1> QED BY <1>1, <1>2, <1>3

\* The invariant places every token.
LEMMA FrameAt ==
    ASSUME NEW place, Placed(place), NEW n \in Rpcs
    PROVE  TokenAt(place, n)
<1>1. ASSUME NEW c \in Clients, NEW m \in UpFrame, m \in ToSet(out[c]), IsRpc(m), m.n = n
      PROVE  place[n][1] = "out" /\ place[n][2] = c /\ place[n][3] = m.t
  <2>1. place[n] = <<"out", c, m.t>>
    BY <1>1 DEF Placed
  <2> QED BY <2>1
<1>2. ASSUME NEW k \in Conns, NEW m \in UpFrame, m \in ToSet(up[k]), IsRpc(m), m.n = n
      PROVE  place[n][1] = "up" /\ place[n][2] = k /\ place[n][3] = m.t
  <2>1. place[n] = <<"up", k, m.t>>
    BY <1>2 DEF Placed
  <2> QED BY <2>1
<1>3. ASSUME NEW c \in Clients, NEW m \in RpcFrame, m \in ToSet(down[c]), m.n = n
      PROVE  /\ m.t = "attack" => place[n][1] = "down" /\ place[n][2] = c
             /\ m.t = "damage" => place[n][1] = "spent"
  <2>1. ASSUME m.t = "attack" PROVE place[n][1] = "down" /\ place[n][2] = c
    <3>1. place[n] = <<"down", c, "attack">>
      BY <1>3, <2>1 DEF Placed
    <3> QED BY <3>1, Parts
  <2>2. ASSUME m.t = "damage" PROVE place[n][1] = "spent"
    <3>1. place[n] = Spent
      BY <1>3, <2>2 DEF Placed
    <3> QED BY <3>1, Parts
  <2> QED BY <2>1, <2>2
<1>4. ASSUME NEW k \in Conns, <<k, n>> \in heard PROVE place[n][1] = "spent"
  <2>1. place[n] = Spent
    BY <1>4 DEF Placed
  <2> QED BY <2>1, Parts
<1>5. ASSUME n > made PROVE place[n][1] = "unmade"
  <2>1. place[n] = Unmade
    BY <1>5 DEF Placed
  <2> QED BY <2>1, Parts
<1> QED BY <1>1, <1>2, <1>3, <1>4, <1>5 DEF TokenAt

\* A token that moves is found only where it goes.
LEMMA TokensStep ==
    ASSUME RelayTypeOK, ConnsOK, RoomsOK, LinesOK, TokensOK, SentOK, HostsOK, RelayNext
    PROVE  TokensOK'
<1>1. /\ up \in [Conns -> Seq(UpFrame)] /\ out \in [Clients -> Seq(UpFrame)]
      /\ down \in [Clients -> Seq(DownFrame)]
      /\ \A c \in Clients : cur[c] # 0 => cur[c] = me[c] /\ me[c] \in Conns
      /\ \A c \in Clients : me[c] # 0 => me[c] \in Conns
      /\ \A c, e \in Clients : me[c] # 0 /\ me[c] = me[e] => c = e
      /\ 0 \notin Conns /\ MaxRpcs \in Nat /\ made \in Nat
      /\ me \in [Clients -> 0..MaxConns] /\ heard \subseteq Conns \X Rpcs
  <2>1. /\ \A c \in Clients : cur[c] # 0 => cur[c] = me[c] /\ me[c] \in Conns
        /\ \A c \in Clients : me[c] # 0 => me[c] \in Conns
        /\ \A c, e \in Clients : me[c] # 0 /\ me[c] = me[e] => c = e
    BY OneClient
  <2>2. /\ up \in [Conns -> Seq(UpFrame)] /\ out \in [Clients -> Seq(UpFrame)]
        /\ down \in [Clients -> Seq(DownFrame)]
        /\ MaxRpcs \in Nat /\ made \in Nat
        /\ me \in [Clients -> 0..MaxConns] /\ heard \subseteq Conns \X Rpcs
    BY CombatAssumption DEF RelayTypeOK
  <2>3. 0 \notin Conns
    BY RoomFacts
  <2> QED BY <2>1, <2>2, <2>3
<1>2. PICK place \in [Rpcs -> Places] : Placed(place)
  BY DEF TokensOK
<1>3. \A z \in [Rpcs -> Places] : Placed(z)' => TokensOK'
  BY DEF TokensOK
<1>4. ASSUME NEW c \in Clients, Connects(c) PROVE TokensOK'
  <2>1. PICK k \in Conns : /\ me' = [me EXCEPT ![c] = k] /\ down[c] = <<>>
                           /\ UNCHANGED <<out, up, down, made, heard>>
    BY <1>4, NewConn
  <2>2. ToSet(down[c]) = {}
    BY <2>1, EmptyLine
  <2>3. Placed(place)'
    BY <1>1, <1>2, <2>1, <2>2 DEF Placed
  <2> QED BY <2>3, <1>3
<1>5. ASSUME NEW c \in Clients, RequestsJoin(c) PROVE TokensOK'
  <2>1. /\ out' = [out EXCEPT ![c] = Append(@, JoinRequest)]
        /\ UNCHANGED <<up, down, me, made, heard>>
    BY <1>5 DEF RequestsJoin, QueuesRequest, serverVars, rpcVars
  <2>2. ~IsRpc(JoinRequest)
    BY UpFrames
  <2>3. PICK s \in Seq(UpFrame) : s = out[c]
    BY <1>1
  <2>4. ToSet(Append(s, JoinRequest)) = ToSet(s) \cup {JoinRequest}
    BY UpFrames, GrownLine
  <2>5. \A e \in Clients, m \in UpFrame : m \in ToSet(out'[e]) /\ IsRpc(m) => m \in ToSet(out[e])
    BY <1>1, <2>1, <2>2, <2>3, <2>4
  <2>6. Placed(place)'
    BY <1>2, <2>1, <2>5 DEF Placed
  <2> QED BY <2>6, <1>3
<1>6. ASSUME NEW c \in Clients, NEW type \in {"attack", "skill"}, LocalRpc(c, type)
      PROVE  TokensOK'
  <2>1. PICK n \in Rpcs : n = made + 1
    BY <1>6, NewToken DEF LocalRpc
  <2>2. PICK f \in RpcFrame : f = Rpc(type, n) /\ f.n = n /\ f.t = type /\ f \in UpFrame
    BY UpFrames
  <2>3. /\ out' = [out EXCEPT ![c] = Append(@, f)] /\ made' = n
        /\ UNCHANGED <<up, down, me, heard>>
    BY <1>6, <2>1, <2>2 DEF LocalRpc, serverVars
  <2>4. PICK s \in Seq(UpFrame) : s = out[c]
    BY <1>1
  <2>5. ToSet(Append(s, f)) = ToSet(s) \cup {f}
    BY <2>2, GrownLine
  <2>6. \A e \in Clients, m \in UpFrame :
            m \in ToSet(out'[e]) => m \in ToSet(out[e]) \/ (m = f /\ e = c)
    BY <1>1, <2>3, <2>4, <2>5
  <2>7. PICK z : z = [place EXCEPT ![n] = <<"out", c, type>>]
    OBVIOUS
  <2>8. z \in [Rpcs -> Places] /\ z[n] = <<"out", c, type>>
        /\ \A l \in Rpcs : l # n => z[l] = place[l]
    BY <2>7 DEF Places, Kinds
  <2>9. n \in Nat /\ n > made
    BY <1>1, <2>1
  <2>10. TokenAt(place, n) /\ place[n][1] = "unmade"
    <3>1. TokenAt(place, n)
      BY <1>2, FrameAt
    <3> QED BY <3>1, <2>9 DEF TokenAt
  <2>11. /\ \A e \in Clients, m \in UpFrame : m \in ToSet(out[e]) /\ IsRpc(m) => m.n # n
         /\ \A k \in Conns, m \in UpFrame : m \in ToSet(up[k]) /\ IsRpc(m) => m.n # n
         /\ \A e \in Clients, m \in RpcFrame : m \in ToSet(down[e]) =>
               /\ m.t = "attack" => m.n # n
               /\ m.t = "damage" => m.n # n
         /\ \A k \in Conns : <<k, n>> \notin heard
    BY <2>10 DEF TokenAt
  <2>12. \A m \in UpFrame : IsRpc(m) => m.n \in Rpcs
    BY UpFrames
  <2>13. \A m \in RpcFrame : m.n \in Rpcs
    BY UpFrames
  <2>14. ASSUME NEW e \in Clients, NEW m \in UpFrame, m \in ToSet(out'[e]), IsRpc(m)
         PROVE  z[m.n] = <<"out", e, m.t>>
    BY <1>2, <2>2, <2>6, <2>8, <2>11, <2>12, <2>14 DEF Placed
  <2>15. ASSUME NEW k \in Conns, NEW m \in UpFrame, m \in ToSet(up[k]), IsRpc(m)
         PROVE  z[m.n] = <<"up", k, m.t>>
    BY <1>2, <2>8, <2>11, <2>12, <2>15 DEF Placed
  <2>16. ASSUME NEW e \in Clients, NEW m \in RpcFrame, m \in ToSet(down[e])
         PROVE  /\ m.t = "attack" => z[m.n] = <<"down", e, "attack">>
                /\ m.t = "damage" => z[m.n] = Spent /\ <<me[e], m.n>> \notin heard
    BY <1>2, <2>8, <2>11, <2>13, <2>16 DEF Placed
  <2>17. ASSUME NEW l \in Rpcs
         PROVE  /\ l > made' => z[l] = Unmade
                /\ (\E k \in Conns : <<k, l>> \in heard) => z[l] = Spent
    <3>1. l > n => l # n /\ l > made
      BY <1>1, <2>1 DEF Rpcs
    <3> QED BY <3>1, <1>2, <2>3, <2>8, <2>11 DEF Placed
  <2>18. Placed(z)'
    BY <2>3, <2>14, <2>15, <2>16, <2>17 DEF Placed
  <2> QED BY <2>8, <2>18, <1>3
<1>7. ASSUME NEW c \in Clients, Flush(c) PROVE TokensOK'
  <2>1. PICK k \in Conns : k = me[c] /\ k = cur[c]
    BY <1>1, <1>7 DEF Flush
  <2>2. /\ up' = [up EXCEPT ![k] = @ \o out[c]]
        /\ out' = [out EXCEPT ![c] = <<>>]
        /\ UNCHANGED <<down, me, made, heard>>
    BY <2>1, <1>7 DEF Flush, rpcVars
  <2>3. PICK s \in Seq(UpFrame), t \in Seq(UpFrame) : s = up[k] /\ t = out[c]
    BY <1>1
  <2>4. ToSet(s \o t) = ToSet(s) \cup ToSet(t)
    <3>1. Tidy(s) /\ Tidy(t) /\ (NoRequest(s) \/ NoDamage(t)) /\ ToSet(s) \cap ToSet(t) = {}
      BY <1>1, <2>1, <2>3, LinesApart DEF LinesOK
    <3> QED BY <3>1, TidyConcat
  <2>5. /\ \A j \in Conns, m \in UpFrame :
              m \in ToSet(up'[j]) => m \in ToSet(up[j]) \/ (j = k /\ m \in ToSet(out[c]))
        /\ \A e \in Clients, m \in UpFrame :
              m \in ToSet(out'[e]) => m \in ToSet(out[e]) /\ e # c
    BY <1>1, <2>2, <2>3, <2>4, EmptyLine
  <2>6. PICK z : z = [n \in Rpcs |->
            IF \E u \in Kinds : place[n] = <<"out", c, u>>
            THEN <<"up", k, CHOOSE u \in Kinds : place[n] = <<"out", c, u>> >>
            ELSE place[n]]
    OBVIOUS
  <2>7. /\ \A n \in Rpcs, u \in Kinds : place[n] = <<"out", c, u>> => z[n] = <<"up", k, u>>
        /\ \A n \in Rpcs : (\A u \in Kinds : place[n] # <<"out", c, u>>) => z[n] = place[n]
    BY <2>6
  <2>8. z \in [Rpcs -> Places]
    <3>1. \A n \in Rpcs : z[n] \in Places
      BY <2>6 DEF Places, Kinds
    <3> QED BY <2>6, <3>1
  <2>9. /\ \A m \in UpFrame : IsRpc(m) => m.n \in Rpcs /\ m.t \in Kinds
        /\ \A m \in RpcFrame : m.n \in Rpcs
    BY UpFrames DEF IsRpc, Kinds
  <2>10. ASSUME NEW e \in Clients, NEW m \in UpFrame, m \in ToSet(out'[e]), IsRpc(m)
         PROVE  z[m.n] = <<"out", e, m.t>>
    <3>1. place[m.n] = <<"out", e, m.t>> /\ e # c
      BY <1>2, <2>5, <2>10 DEF Placed
    <3> QED BY <3>1, <2>7, <2>9, <2>10
  <2>11. ASSUME NEW j \in Conns, NEW m \in UpFrame, m \in ToSet(up'[j]), IsRpc(m)
         PROVE  z[m.n] = <<"up", j, m.t>>
    <3>1. CASE m \in ToSet(up[j])
      <4>1. place[m.n] = <<"up", j, m.t>>
        BY <1>2, <2>11, <3>1 DEF Placed
      <4> QED BY <4>1, <2>7, <2>9, <2>11
    <3>2. CASE j = k /\ m \in ToSet(out[c])
      <4>1. place[m.n] = <<"out", c, m.t>>
        BY <1>2, <2>11, <3>2 DEF Placed
      <4> QED BY <4>1, <2>7, <2>9, <2>11, <3>2
    <3> QED BY <3>1, <3>2, <2>5, <2>11
  <2>12. ASSUME NEW e \in Clients, NEW m \in RpcFrame, m \in ToSet(down[e])
         PROVE  /\ m.t = "attack" => z[m.n] = <<"down", e, "attack">>
                /\ m.t = "damage" => z[m.n] = Spent /\ <<me[e], m.n>> \notin heard
    <3>1. PICK n \in Rpcs : n = m.n
      BY <2>9
    <3>2. m.t \in {"attack", "damage"} => place[n][1] # "out"
      <4>1. TokenAt(place, n)
        BY <1>2, FrameAt
      <4> QED BY <4>1, <2>12, <3>1 DEF TokenAt
    <3>3. (\A u \in Kinds : place[n] # <<"out", c, u>>) => z[n] = place[n]
      BY <2>7
    <3>4. m.t \in {"attack", "damage"} => z[n] = place[n]
      BY <3>2, <3>3
    <3> QED BY <1>2, <2>12, <3>1, <3>4 DEF Placed
  <2>13. ASSUME NEW l \in Rpcs
         PROVE  /\ l > made => z[l] = Unmade
                /\ (\E j \in Conns : <<j, l>> \in heard) => z[l] = Spent
    <3>1. l > made \/ (\E j \in Conns : <<j, l>> \in heard) => place[l][1] # "out"
      <4>1. TokenAt(place, l)
        BY <1>2, FrameAt
      <4> QED BY <4>1 DEF TokenAt
    <3>2. l > made \/ (\E j \in Conns : <<j, l>> \in heard) => z[l] = place[l]
      BY <3>1, <2>7
    <3> QED BY <1>2, <3>2 DEF Placed
  <2>14. Placed(z)'
    BY <2>2, <2>10, <2>11, <2>12, <2>13 DEF Placed
  <2> QED BY <2>8, <2>14, <1>3
<1>8. ASSUME NEW c \in Clients, LosesConnection(c) PROVE TokensOK'
  <2>1. PICK n \in 0..Len(down[c]) : down' = [down EXCEPT ![c] = SubSeq(@, 1, n)]
    BY <1>8 DEF LosesConnection
  <2>2. UNCHANGED <<me, out, up, made, heard>>
    BY <1>8 DEF LosesConnection, serverVars, rpcVars
  <2>3. ToSet(SubSeq(down[c], 1, n)) \subseteq ToSet(down[c])
    BY <1>1, CutShort
  <2>4. \A e \in Clients : ToSet(down'[e]) \subseteq ToSet(down[e])
    BY <1>1, <2>1, <2>3
  <2>5. Placed(place)'
    BY <1>2, <2>2, <2>4 DEF Placed
  <2> QED BY <2>5, <1>3
<1>9. ASSUME NEW c \in Clients, OnPacket(c) PROVE TokensOK'
  <2>1. PICK h : h = Head(down[c])
    OBVIOUS
  <2>2. /\ down[c] # <<>> /\ h \in DownFrame
        /\ down' = [down EXCEPT ![c] = Tail(@)]
        /\ UNCHANGED <<me, up, made>>
        /\ out' = IF h.t = "attack" /\ isHost[c]
                  THEN [out EXCEPT ![c] = Append(@, Rpc("damage", h.n))] ELSE out
        /\ heard' = IF h.t = "damage" THEN heard \cup {<<me[c], h.n>>} ELSE heard
    BY <2>1, <1>9, Received DEF serverVars
  <2>3. PICK d \in Seq(DownFrame) : d = down[c]
    BY <1>1
  <2>4. ToSet(Tail(d)) \subseteq ToSet(d) /\ h \in ToSet(d)
    BY <2>1, <2>2, <2>3, LineSets
  <2>5. h.t \in {"attack", "damage"} => h \notin ToSet(Tail(d))
    <3>1. HostLine(isHost[c], me[c], cur[c] # 0, IsTheHost(alive, seat, room, me[c]), d)
      BY <2>3 DEF HostsOK
    <3>2. d # <<>>
      BY <2>2, <2>3
    <3>3. Head(d).t \in {"attack", "damage"} => Head(d) \notin ToSet(Tail(d))
      BY <3>1, <3>2, HandedOnce
    <3> QED BY <3>3, <2>1, <2>3
  <2>6. /\ \A e \in Clients : ToSet(down'[e]) \subseteq ToSet(down[e])
        /\ h.t \in {"attack", "damage"} => h \notin ToSet(down'[c])
        /\ h \in ToSet(down[c])
    BY <1>1, <2>2, <2>3, <2>4, <2>5
  <2>7. /\ \A m \in UpFrame : IsRpc(m) => m.n \in Rpcs
        /\ \A m \in RpcFrame : m.n \in Rpcs /\ m = Rpc(m.t, m.n)
    BY UpFrames
  <2>8. CASE h.t = "attack" /\ isHost[c]
    <3>1. h \in RpcFrame
      BY <2>2, <2>8, DownFrames
    <3>2. PICK n \in Rpcs : n = h.n
      BY <3>1, <2>7
    <3>3. PICK f \in RpcFrame : f = Rpc("damage", n) /\ f.n = n /\ f.t = "damage" /\ f \in UpFrame
      BY UpFrames
    <3>4. place[n] = <<"down", c, "attack">>
      BY <1>2, <2>6, <2>8, <3>1, <3>2 DEF Placed
    <3>5. out' = [out EXCEPT ![c] = Append(@, f)] /\ UNCHANGED <<me, up, made, heard>>
      BY <2>2, <2>8, <3>2, <3>3
    <3>6. PICK s \in Seq(UpFrame) : s = out[c]
      BY <1>1
    <3>7. ToSet(Append(s, f)) = ToSet(s) \cup {f}
      BY <3>3, GrownLine
    <3>8. \A e \in Clients, m \in UpFrame :
              m \in ToSet(out'[e]) => m \in ToSet(out[e]) \/ (m = f /\ e = c)
      BY <1>1, <3>5, <3>6, <3>7
    <3>9. PICK z : z = [place EXCEPT ![n] = <<"out", c, "damage">>]
      OBVIOUS
    <3>10. z \in [Rpcs -> Places] /\ z[n] = <<"out", c, "damage">>
           /\ \A l \in Rpcs : l # n => z[l] = place[l]
      BY <3>9 DEF Places, Kinds
    <3>11. /\ \A e \in Clients, m \in UpFrame : m \in ToSet(out[e]) /\ IsRpc(m) => m.n # n
           /\ \A k \in Conns, m \in UpFrame : m \in ToSet(up[k]) /\ IsRpc(m) => m.n # n
           /\ \A e \in Clients, m \in RpcFrame : m \in ToSet(down[e]) =>
                 /\ m.t = "attack" /\ m.n = n => e = c
                 /\ m.t = "damage" => m.n # n
           /\ \A k \in Conns : <<k, n>> \notin heard
           /\ ~(n > made)
      <4>1. place[n][1] = "down" /\ place[n][2] = c
        BY <3>4, Parts
      <4>2. TokenAt(place, n)
        BY <1>2, FrameAt
      <4> QED BY <4>1, <4>2 DEF TokenAt
    <3>12. ASSUME NEW e \in Clients, NEW m \in UpFrame, m \in ToSet(out'[e]), IsRpc(m)
           PROVE  z[m.n] = <<"out", e, m.t>>
      BY <1>2, <2>7, <3>3, <3>8, <3>10, <3>11, <3>12 DEF Placed
    <3>13. ASSUME NEW k \in Conns, NEW m \in UpFrame, m \in ToSet(up[k]), IsRpc(m)
           PROVE  z[m.n] = <<"up", k, m.t>>
      BY <1>2, <2>7, <3>10, <3>11, <3>13 DEF Placed
    <3>14. ASSUME NEW e \in Clients, NEW m \in RpcFrame, m \in ToSet(down'[e])
           PROVE  /\ m.t = "attack" => z[m.n] = <<"down", e, "attack">>
                  /\ m.t = "damage" => z[m.n] = Spent /\ <<me[e], m.n>> \notin heard
      <4>1. m \in ToSet(down[e])
        BY <2>6, <3>14
      <4>2. m.t = "attack" => m.n # n
        <5>1. m.t = "attack" /\ m.n = n => e = c /\ m = h
          BY <2>7, <2>8, <3>1, <3>2, <3>11, <4>1
        <5> QED BY <5>1, <2>6, <2>8, <3>14
      <4> QED BY <4>1, <4>2, <1>2, <2>7, <3>10, <3>11 DEF Placed
    <3>15. ASSUME NEW l \in Rpcs
           PROVE  /\ l > made => z[l] = Unmade
                  /\ (\E k \in Conns : <<k, l>> \in heard) => z[l] = Spent
      BY <1>2, <3>10, <3>11 DEF Placed
    <3>16. Placed(z)'
      BY <3>5, <3>12, <3>13, <3>14, <3>15 DEF Placed
    <3> QED BY <3>10, <3>16, <1>3
  <2>9. CASE h.t = "damage"
    <3>1. h \in RpcFrame
      BY <2>2, <2>9, DownFrames
    <3>2. PICK n \in Rpcs : n = h.n
      BY <3>1, <2>7
    <3>3. UNCHANGED <<out, me, up, made>> /\ heard' = heard \cup {<<me[c], n>>}
      BY <2>2, <2>9, <3>2
    <3>4. place[n] = Spent
      BY <1>2, <2>6, <2>9, <3>1, <3>2 DEF Placed
    <3>5. me[c] \in Conns
      <4>1. me[c] # 0
        BY <2>2 DEF ConnsOK
      <4> QED BY <4>1, <1>1
    <3>6. ASSUME NEW e \in Clients, NEW m \in RpcFrame, m \in ToSet(down'[e]), m.t = "damage"
          PROVE  <<me[e], m.n>> \notin heard'
      <4>1. <<me[e], m.n>> \notin heard
        BY <1>2, <2>6, <3>6 DEF Placed
      <4>2. me[e] = me[c] /\ m.n = n => e = c /\ m = h
        BY <1>1, <2>7, <2>9, <3>1, <3>2, <3>5, <3>6
      <4>3. <<me[e], m.n>> # <<me[c], n>>
        BY <4>2, <2>6, <2>9, <3>6
      <4> QED BY <4>1, <4>3, <3>3
    <3>7. \A l \in Rpcs : (\E k \in Conns : <<k, l>> \in heard') => place[l] = Spent
      BY <1>2, <3>3, <3>4 DEF Placed
    <3>8. Placed(place)'
      BY <1>2, <2>6, <3>3, <3>6, <3>7 DEF Placed
    <3> QED BY <3>8, <1>3
  <2>10. CASE h.t # "damage" /\ ~(h.t = "attack" /\ isHost[c])
    <3>1. UNCHANGED <<out, me, up, made, heard>>
      BY <2>2, <2>10
    <3>2. Placed(place)'
      BY <1>2, <2>6, <3>1 DEF Placed
    <3> QED BY <3>2, <1>3
  <2> QED BY <2>8, <2>9, <2>10
<1>10. ASSUME UNCHANGED <<out, me, made, heard>>,
              \A j \in Conns : ToSet(up'[j]) \subseteq ToSet(up[j]),
              \A e \in Clients, m \in RpcFrame :
                  m \in ToSet(down'[e]) => m \in ToSet(down[e]) \/ m.t = "skill"
       PROVE  TokensOK'
  <2>1. Placed(place)'
    BY <1>2, <1>10 DEF Placed
  <2> QED BY <2>1, <1>3
<1>11. ASSUME NEW k \in Conns, NEW h \in RpcFrame, h.t \in {"attack", "damage"}, NEW ks,
              h = Head(up[k]), up[k] # <<>>, up' = [up EXCEPT ![k] = Tail(@)],
              down' = To(down, ks, h),
              h.t = "attack" => \A c, e \in Clients : cur[c] \in ks /\ cur[e] \in ks => c = e,
              UNCHANGED <<out, me, made, heard>>
       PROVE  TokensOK'
  <2>1. /\ \A j \in Conns : ToSet(up'[j]) \subseteq ToSet(up[j])
        /\ h \in ToSet(up[k]) /\ h \notin ToSet(up'[k])
    BY <1>11, LeavesLine
  <2>2. h \in DownFrame /\ h \in UpFrame /\ IsRpc(h) /\ h.n \in Rpcs /\ h = Rpc(h.t, h.n)
    BY UpFrames
  <2>3. /\ \A m \in UpFrame : IsRpc(m) => m.n \in Rpcs /\ m = Rpc(m.t, m.n)
        /\ \A m \in RpcFrame : m.n \in Rpcs
    BY UpFrames
  <2>4. \A e \in Clients : /\ cur[e] \notin ks => down'[e] = down[e]
                           /\ \A m \in ToSet(down'[e]) :
                                 m \in ToSet(down[e]) \/ (m = h /\ cur[e] \in ks)
    <3>1. h \in DownFrame /\ down' = To(down, ks, h)
      BY <1>11, <2>2
    <3> QED BY <3>1, Heard
  <2>5. PICK n \in Rpcs : n = h.n
    BY <2>2
  <2>6. place[n] = <<"up", k, h.t>>
    BY <1>2, <2>1, <2>2, <2>5 DEF Placed
  <2>7. CASE h.t = "attack" /\ \A e \in Clients : cur[e] \notin ks
    <3>1. \A e \in Clients : down'[e] = down[e]
      BY <2>4, <2>7
    <3> QED BY <3>1, <2>1, <1>10, <1>11
  <2>8. ASSUME NEW p \in Places,
               \/ h.t = "damage" /\ p = Spent
               \/ h.t = "attack" /\ \E c \in Clients : cur[c] \in ks /\ p = <<"down", c, "attack">>
        PROVE  TokensOK'
    <3>1. PICK z : z = [place EXCEPT ![n] = p]
      OBVIOUS
    <3>2. z \in [Rpcs -> Places] /\ z[n] = p /\ \A l \in Rpcs : l # n => z[l] = place[l]
      BY <3>1
    <3>3. /\ \A e \in Clients, m \in UpFrame : m \in ToSet(out[e]) /\ IsRpc(m) => m.n # n
          /\ \A j \in Conns, m \in UpFrame : m \in ToSet(up[j]) /\ IsRpc(m) /\ m.n = n =>
                j = k /\ m.t = h.t
          /\ \A e \in Clients, m \in RpcFrame : m \in ToSet(down[e]) =>
                /\ m.t = "attack" => m.n # n
                /\ m.t = "damage" => m.n # n
          /\ \A j \in Conns : <<j, n>> \notin heard
          /\ ~(n > made)
      <4>1. place[n][1] = "up" /\ place[n][2] = k /\ place[n][3] = h.t
        BY <2>6, Parts
      <4>2. TokenAt(place, n)
        BY <1>2, FrameAt
      <4> QED BY <4>1, <4>2 DEF TokenAt
    <3>4. ASSUME NEW e \in Clients, NEW m \in UpFrame, m \in ToSet(out[e]), IsRpc(m)
          PROVE  z[m.n] = <<"out", e, m.t>>
      BY <1>2, <2>3, <3>2, <3>3, <3>4 DEF Placed
    <3>5. ASSUME NEW j \in Conns, NEW m \in UpFrame, m \in ToSet(up'[j]), IsRpc(m)
          PROVE  z[m.n] = <<"up", j, m.t>>
      <4>1. m \in ToSet(up[j])
        BY <2>1, <3>5
      <4>2. m.n # n
        <5>1. m.n = n => j = k /\ m = h
          BY <2>2, <2>3, <2>5, <3>3, <3>5, <4>1
        <5> QED BY <5>1, <2>1, <3>5
      <4> QED BY <4>1, <4>2, <1>2, <2>3, <3>2, <3>5 DEF Placed
    <3>6. ASSUME NEW e \in Clients, NEW m \in RpcFrame, m \in ToSet(down'[e])
          PROVE  /\ m.t = "attack" => z[m.n] = <<"down", e, "attack">>
                 /\ m.t = "damage" => z[m.n] = Spent /\ <<me[e], m.n>> \notin heard
      <4>1. CASE m \in ToSet(down[e])
        BY <4>1, <1>2, <2>3, <3>2, <3>3 DEF Placed
      <4>2. CASE m = h /\ cur[e] \in ks
        <5>1. CASE h.t = "damage"
          <6>1. <<me[e], n>> \notin heard
            BY <1>1, <3>3
          <6> QED BY <6>1, <5>1, <4>2, <2>5, <2>8, <3>2
        <5>2. CASE h.t = "attack"
          <6>1. p = <<"down", e, "attack">>
            BY <5>2, <4>2, <1>11, <2>8
          <6> QED BY <6>1, <5>2, <4>2, <2>5, <3>2
        <5> QED BY <5>1, <5>2, <1>11
      <4> QED BY <4>1, <4>2, <2>4, <3>6
    <3>7. ASSUME NEW l \in Rpcs
          PROVE  /\ l > made => z[l] = Unmade
                 /\ (\E j \in Conns : <<j, l>> \in heard) => z[l] = Spent
      BY <1>2, <3>2, <3>3 DEF Placed
    <3>8. Placed(z)'
      BY <1>11, <3>4, <3>5, <3>6, <3>7 DEF Placed
    <3> QED BY <3>2, <3>8, <1>3
  <2>9. CASE h.t = "damage"
    <3>1. Spent \in Places
      BY DEF Places
    <3> QED BY <3>1, <2>8, <2>9
  <2>10. CASE h.t = "attack" /\ \E c \in Clients : cur[c] \in ks
    <3>1. PICK c \in Clients : cur[c] \in ks
      BY <2>10
    <3>2. <<"down", c, "attack">> \in Places
      BY DEF Places, Kinds
    <3> QED BY <3>1, <3>2, <2>8, <2>10
  <2> QED BY <2>7, <2>9, <2>10, <1>11
<1>12. ASSUME NEW k \in Conns, OnMessage(k) PROVE TokensOK'
  <2>1. CASE \E r \in Rooms : OnJoinRequest(k, r)
    <3>1. PICK r \in Rooms : OnJoinRequest(k, r)
      BY <2>1
    <3>2. /\ up[k] # <<>> /\ up' = [up EXCEPT ![k] = Tail(@)]
          /\ UNCHANGED <<out, me, made, heard>>
      BY <3>1, Joins
    <3>3. PICK f \in BOOLEAN : /\ JoinAck(f) \in DownFrame
                               /\ down' = To(down, {k}, JoinAck(f))
      BY <3>1, Joins
    <3>4. JoinAck(f) \notin RpcFrame
      BY DEF JoinAck, RpcFrame
    <3>5. \A e \in Clients, m \in RpcFrame : m \in ToSet(down'[e]) => m \in ToSet(down[e])
      <4>1. PICK a \in DownFrame, ks \in SUBSET Conns : a = JoinAck(f) /\ down' = To(down, ks, a)
        BY <3>3
      <4>2. \A e \in Clients : \A m \in ToSet(down'[e]) : m \in ToSet(down[e]) \/ m = a
        BY <4>1, Heard
      <4> QED BY <3>4, <4>1, <4>2
    <3>6. \A j \in Conns : ToSet(up'[j]) \subseteq ToSet(up[j])
      BY <3>2, LeavesLine
    <3> QED BY <3>2, <3>5, <3>6, <1>10
  <2>2. CASE OnJoinDenied(k)
    <3>1. Handles(k, "JOIN_REQUEST") /\ down' = down
      BY <2>2 DEF OnJoinDenied
    <3>2. /\ up[k] # <<>> /\ up' = [up EXCEPT ![k] = Tail(@)]
          /\ UNCHANGED <<out, me, made, heard>>
      BY <3>1, Handled
    <3>3. \A j \in Conns : ToSet(up'[j]) \subseteq ToSet(up[j])
      BY <3>2, LeavesLine
    <3> QED BY <3>1, <3>2, <3>3, <1>10
  <2>3. CASE OnAttack(k)
    <3>1. /\ up[k] # <<>> /\ up' = [up EXCEPT ![k] = Tail(@)]
          /\ UNCHANGED <<out, me, made, heard>>
      BY <2>3, Attacks
    <3>2. CASE down' = down
      <4>1. \A j \in Conns : ToSet(up'[j]) \subseteq ToSet(up[j])
        BY <3>1, LeavesLine
      <4> QED BY <3>1, <3>2, <4>1, <1>10
    <3>3. CASE down' # down
      <4>1. PICK h \in Conns, a \in RpcFrame :
                a = Head(up[k]) /\ a.t = "attack" /\ down' = To(down, {h}, a)
        <5>1. \/ UNCHANGED <<down, sent>>
              \/ \E r \in Rooms, h \in Conns, a \in RpcFrame :
                    /\ a = Head(up[k]) /\ a.t = "attack"
                    /\ r = seat[k] /\ h = Head(room[r]) /\ seat[h] = r /\ h \in alive
                    /\ down' = To(down, {h}, a)
                    /\ sent' = [sent EXCEPT ![a.n] = [room |-> r, host |-> h,
                                                      others |-> Others(r, h)]]
          BY <2>3, Attacks
        <5> QED BY <5>1, <3>3
      <4>2. \A c, e \in Clients : cur[c] \in {h} /\ cur[e] \in {h} => c = e
        BY <1>1
      <4> QED BY <4>1, <4>2, <3>1, <1>11
    <3> QED BY <3>2, <3>3
  <2>4. CASE OnDamage(k) \/ OnSkill(k)
    <3>1. /\ up[k] # <<>> /\ up' = [up EXCEPT ![k] = Tail(@)]
          /\ UNCHANGED <<out, me, made, heard>>
      BY <2>4, Relays
    <3>2. \A j \in Conns : ToSet(up'[j]) \subseteq ToSet(up[j])
      BY <3>1, LeavesLine
    <3>3. CASE down' = down
      BY <3>1, <3>2, <3>3, <1>10
    <3>4. CASE down' # down
      <4>1. PICK r \in Rooms, h \in RpcFrame :
                /\ h = Head(up[k]) /\ h.t \in {"damage", "skill"}
                /\ down' = To(down, Others(r, k), h)
        BY <2>4, <3>4, Relays
      <4>2. CASE h.t = "damage"
        BY <4>1, <4>2, <3>1, <1>11
      <4>3. CASE h.t = "skill"
        <5>1. h \in DownFrame
          BY UpFrames
        <5>2. \A e \in Clients, m \in RpcFrame :
                  m \in ToSet(down'[e]) => m \in ToSet(down[e]) \/ m.t = "skill"
          BY <4>1, <4>3, <5>1, Heard
        <5> QED BY <5>2, <3>1, <3>2, <1>10
      <4> QED BY <4>1, <4>2, <4>3
    <3> QED BY <3>3, <3>4
  <2> QED BY <2>1, <2>2, <2>3, <2>4, <1>12 DEF OnMessage
<1>13. ASSUME NEW k \in Conns, OnClose(k) PROVE TokensOK'
  <2>1. up' = [up EXCEPT ![k] = <<>>] /\ UNCHANGED <<out, me, made, heard>>
    BY <1>13, Closes
  <2>2. \A j \in Conns : ToSet(up'[j]) \subseteq ToSet(up[j])
    BY <1>1, <2>1, EmptyLine
  <2>3. \A e \in Clients, m \in RpcFrame : m \in ToSet(down'[e]) => m \in ToSet(down[e])
    <3>1. CASE down' = down
      BY <3>1
    <3>2. CASE down' # down
      <4>1. PICK rest \in Seq(Conns) :
                /\ HostReassign(Head(rest)) \in DownFrame
                /\ down' = To(down, ToSet(rest), HostReassign(Head(rest)))
        BY <1>13, <3>2, Closes
      <4>2. HostReassign(Head(rest)) \notin RpcFrame
        BY DEF HostReassign, RpcFrame
      <4>3. PICK a \in DownFrame : a = HostReassign(Head(rest))
        BY <4>1
      <4>4. PICK ks \in SUBSET Conns : ks = ToSet(rest)
        BY LineSets
      <4>5. down' = To(down, ks, a)
        BY <4>1, <4>3, <4>4
      <4>6. \A e \in Clients : \A m \in ToSet(down'[e]) : m \in ToSet(down[e]) \/ m = a
        BY <4>5, Heard
      <4> QED BY <4>2, <4>3, <4>6
    <3> QED BY <3>1, <3>2
  <2> QED BY <2>1, <2>2, <2>3, <1>10
<1> QED BY <1>4, <1>5, <1>6, <1>7, <1>8, <1>9, <1>12, <1>13 DEF RelayNext

-------------------------------------------------------------------------------
(***************************************************************************)
(* What was sent to whom.                                                  *)
(***************************************************************************)

\* A frame the server handles next has its token in the line it came in.
LEMMA NextToken ==
    ASSUME RelayTypeOK, TokensOK, NEW k \in Conns, NEW h \in RpcFrame, h \in ToSet(up[k])
    PROVE  /\ ~(h.n > made)
           /\ \A c \in Clients, m \in UpFrame : m \in ToSet(out[c]) /\ IsRpc(m) => m.n # h.n
           /\ \A j \in Conns, m \in UpFrame : m \in ToSet(up[j]) /\ IsRpc(m) /\ m.n = h.n =>
                 j = k /\ m = h
           /\ \A c \in Clients, m \in RpcFrame :
                 m \in ToSet(down[c]) /\ m.t \in {"attack", "damage"} => m.n # h.n
<1>1. PICK place : Placed(place)
  BY DEF TokensOK
<1>2. PICK n \in Rpcs : n = h.n
  BY UpFrames
<1>3. TokenAt(place, n)
  BY <1>1, FrameAt
<1>4. h \in UpFrame /\ IsRpc(h) /\ h = Rpc(h.t, n)
  BY <1>2, UpFrames
<1>5. place[n][1] = "up" /\ place[n][2] = k /\ place[n][3] = h.t
  BY <1>2, <1>3, <1>4 DEF TokenAt
<1>6. \A j \in Conns, m \in UpFrame : m \in ToSet(up[j]) /\ IsRpc(m) /\ m.n = n => j = k /\ m = h
  <2>1. \A m \in UpFrame : IsRpc(m) /\ m.n = n /\ m.t = h.t => m = h
    BY <1>4, UpFrames
  <2> QED BY <2>1, <1>3, <1>5 DEF TokenAt
<1>7. /\ \A c \in Clients, m \in UpFrame : m \in ToSet(out[c]) /\ IsRpc(m) => m.n # n
      /\ ~(n > made)
  BY <1>3, <1>5 DEF TokenAt
<1>8. \A c \in Clients, m \in RpcFrame :
          m \in ToSet(down[c]) /\ m.t \in {"attack", "damage"} => m.n # n
  BY <1>3, <1>5 DEF TokenAt
<1> QED BY <1>2, <1>6, <1>7, <1>8

\* Every step keeps what the server noted true, and what the frames answer.
LEMMA SentStep ==
    ASSUME RelayTypeOK, ConnsOK, RoomsOK, LinesOK, TokensOK, SentOK, RelayNext
    PROVE  SentOK'
<1>1. /\ up \in [Conns -> Seq(UpFrame)] /\ out \in [Clients -> Seq(UpFrame)]
      /\ down \in [Clients -> Seq(DownFrame)]
      /\ me \in [Clients -> 0..MaxConns] /\ seat \in [Conns -> Rooms \cup {NoRoom}]
      /\ sent \in [Rpcs -> [room : Rooms \cup {NoRoom}, host : 0..MaxConns, others : SUBSET Conns]]
      /\ made \in Nat /\ MaxConns \in Nat
  BY CombatAssumption DEF RelayTypeOK
<1>2. /\ \A c \in Clients : cur[c] # 0 => cur[c] = me[c] /\ me[c] \in Conns
      /\ \A c \in Clients : me[c] # 0 => me[c] \in Conns
      /\ \A c \in Clients : me[c] = 0 => ToSet(out[c]) = {} /\ ToSet(down[c]) = {}
      /\ 0 \notin Conns
  BY OneClient, RoomFacts, EmptyLine DEF ConnsOK
<1>3. /\ \A m \in RpcFrame : m \in UpFrame /\ m \in DownFrame /\ IsRpc(m) /\ m.n \in Rpcs
      /\ \A m \in UpFrame : m.t \in {"attack", "damage"} => IsRpc(m) /\ m.n \in Rpcs
  BY UpFrames DEF IsRpc
<1>4. ASSUME UNCHANGED <<me, seat, sent, made>>,
             \A c \in Clients : ToSet(out'[c]) \subseteq ToSet(out[c]),
             \A j \in Conns : ToSet(up'[j]) \subseteq ToSet(up[j]),
             \A c \in Clients, m \in RpcFrame :
                 m \in ToSet(down'[c]) => m \in ToSet(down[c]) \/ m.t = "skill"
      PROVE  SentOK'
  BY <1>4 DEF SentOK
<1>5. ASSUME NEW c \in Clients, Connects(c) PROVE SentOK'
  <2>1. PICK k \in Conns : /\ seat[k] = NoRoom /\ down[c] = <<>>
                           /\ me' = [me EXCEPT ![c] = k]
                           /\ UNCHANGED <<out, down, up, seat, made, sent>>
    BY <1>5, NewConn
  <2>2. ToSet(down[c]) = {} /\ me'[c] = k /\ \A e \in Clients : e # c => me'[e] = me[e]
    BY <1>1, <2>1, EmptyLine
  <2> QED BY <2>1, <2>2 DEF SentOK
<1>6. ASSUME NEW c \in Clients, NEW f \in UpFrame, out' = [out EXCEPT ![c] = Append(@, f)],
             UNCHANGED <<me, seat, sent, up>>, made' \in Nat, made' >= made,
             \A e \in Clients : ToSet(down'[e]) \subseteq ToSet(down[e]),
             f.t = "attack" => sent[f.n].host = 0,
             f.t = "damage" => sent[f.n].host = me[c]
      PROVE  SentOK'
  <2>1. PICK s \in Seq(UpFrame) : s = out[c]
    BY <1>1
  <2>2. ToSet(Append(s, f)) = ToSet(s) \cup {f}
    BY GrownLine
  <2>3. \A e \in Clients : \A m \in ToSet(out'[e]) : m \in ToSet(out[e]) \/ (m = f /\ e = c)
    BY <1>1, <1>6, <2>1, <2>2
  <2>4. \A n \in Rpcs : n <= made => n <= made'
    BY <1>1, <1>6 DEF Rpcs
  <2>5. \A n \in Rpcs : sent'[n].host # 0 =>
          /\ sent'[n].room # NoRoom /\ seat'[sent'[n].host] = sent'[n].room /\ n <= made'
    BY <1>6, <2>4 DEF SentOK
  <2>6. ASSUME NEW e \in Clients, NEW m \in UpFrame, m \in ToSet(out'[e])
        PROVE  /\ m.t = "attack" => sent'[m.n].host = 0
               /\ m.t = "damage" /\ seat'[me'[e]] # NoRoom => sent'[m.n].host = me'[e]
    <3>1. m \in ToSet(out[e]) \/ (m = f /\ e = c)
      BY <2>3, <2>6
    <3> QED BY <1>6, <3>1 DEF SentOK
  <2>7. \A j \in Conns, m \in UpFrame : m \in ToSet(up'[j]) =>
          /\ m.t = "attack" => sent'[m.n].host = 0
          /\ m.t = "damage" /\ seat'[j] # NoRoom => sent'[m.n].host = j
    BY <1>6 DEF SentOK
  <2>8. \A e \in Clients, m \in RpcFrame : m \in ToSet(down'[e]) =>
          /\ m.t = "attack" => sent'[m.n].host = me'[e]
          /\ m.t = "damage" => sent'[m.n].room = seat'[me'[e]] /\ seat'[me'[e]] # NoRoom
    BY <1>6 DEF SentOK
  <2> QED BY <2>5, <2>6, <2>7, <2>8 DEF SentOK
<1>7. ASSUME NEW c \in Clients, RequestsJoin(c) PROVE SentOK'
  <2>1. /\ out' = [out EXCEPT ![c] = Append(@, JoinRequest)]
        /\ UNCHANGED <<down, me, seat, sent, up, made>>
    BY <1>7 DEF RequestsJoin, QueuesRequest, serverVars, rpcVars
  <2>2. JoinRequest \in UpFrame /\ JoinRequest.t \notin {"attack", "damage"}
    BY UpFrames DEF JoinRequest
  <2>3. made' \in Nat /\ made' >= made
    BY <1>1, <2>1
  <2> QED BY <2>1, <2>2, <2>3, <1>6
<1>8. ASSUME NEW c \in Clients, NEW type \in {"attack", "skill"}, LocalRpc(c, type)
      PROVE  SentOK'
  <2>1. /\ out' = [out EXCEPT ![c] = Append(@, Rpc(type, made + 1))] /\ made' = made + 1
        /\ UNCHANGED <<down, me, seat, sent, up>>
        /\ made < MaxRpcs
    BY <1>8 DEF LocalRpc, serverVars
  <2>2. PICK n \in Rpcs : n = made + 1
    BY <2>1, NewToken
  <2>3. PICK f \in UpFrame : f = Rpc(type, n) /\ f.n = n /\ f.t # "damage"
    BY UpFrames
  <2>4. ~(n <= made) /\ made' \in Nat /\ made' >= made
    BY <1>1, <2>1, <2>2
  <2>5. sent[n].host = 0
    BY <2>4 DEF SentOK
  <2> QED BY <2>1, <2>2, <2>3, <2>4, <2>5, <1>6
<1>9. ASSUME NEW c \in Clients, Flush(c) PROVE SentOK'
  <2>1. PICK k \in Conns : k = me[c] /\ k = cur[c]
    BY <1>2, <1>9 DEF Flush
  <2>2. /\ up' = [up EXCEPT ![k] = @ \o out[c]]
        /\ out' = [out EXCEPT ![c] = <<>>]
        /\ UNCHANGED <<down, me, seat, sent, made>>
    BY <2>1, <1>9 DEF Flush, rpcVars
  <2>3. PICK s \in Seq(UpFrame), t \in Seq(UpFrame) : s = up[k] /\ t = out[c]
    BY <1>1
  <2>4. ToSet(s \o t) = ToSet(s) \cup ToSet(t)
    <3>1. Tidy(s) /\ Tidy(t) /\ (NoRequest(s) \/ NoDamage(t)) /\ ToSet(s) \cap ToSet(t) = {}
      BY <1>2, <2>1, <2>3, LinesApart DEF LinesOK
    <3> QED BY <3>1, TidyConcat
  <2>5. \A j \in Conns : \A m \in ToSet(up'[j]) :
            m \in ToSet(up[j]) \/ (j = k /\ m \in ToSet(out[c]))
    BY <1>1, <2>2, <2>3, <2>4
  <2>6. \A e \in Clients : \A m \in ToSet(out'[e]) : m \in ToSet(out[e])
    BY <1>1, <2>2, EmptyLine
  <2>7. ASSUME NEW j \in Conns, NEW m \in UpFrame, m \in ToSet(up'[j])
        PROVE  /\ m.t = "attack" => sent[m.n].host = 0
               /\ m.t = "damage" /\ seat[j] # NoRoom => sent[m.n].host = j
    <3>1. CASE m \in ToSet(up[j])
      BY <3>1 DEF SentOK
    <3>2. CASE j = k /\ m \in ToSet(out[c])
      <4>1. /\ m.t = "attack" => sent[m.n].host = 0
            /\ m.t = "damage" /\ seat[me[c]] # NoRoom => sent[m.n].host = me[c]
        BY <3>2 DEF SentOK
      <4>2. PICK l : l = me[c]
        OBVIOUS
      <4>3. l = j
        BY <3>2, <4>2, <2>1
      <4> QED BY <4>1, <4>2, <4>3
    <3> QED BY <3>1, <3>2, <2>5, <2>7
  <2>8. ASSUME NEW e \in Clients, NEW m \in UpFrame, m \in ToSet(out'[e])
        PROVE  /\ m.t = "attack" => sent[m.n].host = 0
               /\ m.t = "damage" /\ seat[me[e]] # NoRoom => sent[m.n].host = me[e]
    BY <2>6, <2>8 DEF SentOK
  <2> QED BY <2>2, <2>7, <2>8 DEF SentOK
<1>10. ASSUME NEW c \in Clients, LosesConnection(c) PROVE SentOK'
  <2>1. PICK n \in 0..Len(down[c]) : down' = [down EXCEPT ![c] = SubSeq(@, 1, n)]
    BY <1>10 DEF LosesConnection
  <2>2. UNCHANGED <<me, out, up, seat, sent, made>>
    BY <1>10 DEF LosesConnection, serverVars, rpcVars
  <2>3. ToSet(SubSeq(down[c], 1, n)) \subseteq ToSet(down[c])
    BY <1>1, CutShort
  <2>4. \A e \in Clients : ToSet(down'[e]) \subseteq ToSet(down[e])
    BY <1>1, <2>1, <2>3
  <2> QED BY <2>2, <2>4, <1>4
<1>11. ASSUME NEW c \in Clients, OnPacket(c) PROVE SentOK'
  <2>1. PICK h : h = Head(down[c])
    OBVIOUS
  <2>2. /\ down[c] # <<>> /\ h \in DownFrame
        /\ down' = [down EXCEPT ![c] = Tail(@)]
        /\ UNCHANGED <<me, up, seat, made, sent>>
        /\ out' = IF h.t = "attack" /\ isHost[c]
                  THEN [out EXCEPT ![c] = Append(@, Rpc("damage", h.n))] ELSE out
    BY <2>1, <1>11, Received DEF serverVars
  <2>3. \A e \in Clients : ToSet(down'[e]) \subseteq ToSet(down[e])
    <3>1. ToSet(Tail(down[c])) \subseteq ToSet(down[c])
      BY <1>1, <2>2, LineSets
    <3> QED BY <3>1, <1>1, <2>2
  <2>4. h \in ToSet(down[c])
    BY <1>1, <2>1, <2>2, LineSets
  <2>5. CASE h.t = "attack" /\ isHost[c]
    <3>1. h \in RpcFrame
      BY <2>2, <2>5, DownFrames
    <3>2. PICK f \in UpFrame : f = Rpc("damage", h.n) /\ f.n = h.n /\ f.t = "damage"
      BY <3>1, UpFrames
    <3>3. sent[h.n].host = me[c]
      BY <2>4, <2>5, <3>1 DEF SentOK
    <3>4. made' \in Nat /\ made' >= made
      BY <1>1, <2>2
    <3>5. out' = [out EXCEPT ![c] = Append(@, f)] /\ UNCHANGED <<me, seat, sent, up>>
      BY <2>2, <2>5, <3>2
    <3> QED BY <2>3, <3>2, <3>3, <3>4, <3>5, <1>6
  <2>6. CASE ~(h.t = "attack" /\ isHost[c])
    BY <2>2, <2>3, <2>6, <1>4
  <2> QED BY <2>5, <2>6
<1>12. ASSUME NEW k \in Conns, NEW r \in Rooms, OnJoinRequest(k, r) PROVE SentOK'
  <2>1. /\ seat[k] = NoRoom /\ r # NoRoom /\ up[k] # <<>> /\ Asks(Head(up[k]))
        /\ up' = [up EXCEPT ![k] = Tail(@)]
        /\ seat' = [seat EXCEPT ![k] = r]
        /\ UNCHANGED <<me, out, made, sent>>
    BY <1>12, Joins
  <2>2. PICK f \in BOOLEAN : JoinAck(f) \in DownFrame /\ down' = To(down, {k}, JoinAck(f))
    BY <1>12, Joins
  <2>3. \A c \in Clients, m \in RpcFrame : m \in ToSet(down'[c]) => m \in ToSet(down[c])
    <3>1. PICK a \in DownFrame, ks \in SUBSET Conns : a = JoinAck(f) /\ down' = To(down, ks, a)
      BY <2>2
    <3>2. \A c \in Clients : \A m \in ToSet(down'[c]) : m \in ToSet(down[c]) \/ m = a
      BY <3>1, Heard
    <3>3. a \notin RpcFrame
      BY <3>1 DEF JoinAck, RpcFrame
    <3> QED BY <3>2, <3>3
  <2>4. /\ \A j \in Conns : ToSet(up'[j]) \subseteq ToSet(up[j])
        /\ Head(up[k]) \in ToSet(up[k])
    BY <2>1, LeavesLine
  <2>5. \A m \in ToSet(up'[k]) : m.t # "damage"
    <3>1. PICK s \in Seq(UpFrame) : s = up[k]
      BY <1>1
    <3>2. s # <<>> /\ Tidy(s) /\ Asks(Head(s))
      BY <2>1, <3>1 DEF LinesOK
    <3>3. NoDamage(Tail(s))
      BY <3>2, TidyTail
    <3> QED BY <3>1, <3>3, <1>1, <2>1 DEF NoDamage
  <2>6. \A c \in Clients : me[c] = k => \A m \in ToSet(out[c]) : m.t # "damage"
    <3>1. ~NoRequest(up[k]) /\ k # 0
      BY <1>2, <2>1, <2>4 DEF NoRequest
    <3> QED BY <3>1 DEF LinesOK, NoDamage
  <2>7. \A j \in Conns : j # k => seat'[j] = seat[j]
    BY <1>1, <2>1
  <2>8. ASSUME NEW n \in Rpcs, sent[n].host # 0 PROVE seat'[sent[n].host] = seat[sent[n].host]
    <3>1. sent[n].host \in Conns
      BY <1>1, <2>8 DEF Conns
    <3>2. sent[n].host # k
      BY <2>1, <2>8 DEF SentOK
    <3> QED BY <3>1, <3>2, <2>7
  <2>9. ASSUME NEW c \in Clients, NEW m \in UpFrame, m \in ToSet(out[c])
        PROVE  /\ m.t = "attack" => sent[m.n].host = 0
               /\ m.t = "damage" /\ seat'[me[c]] # NoRoom => sent[m.n].host = me[c]
    <3>1. me[c] \in Conns
      BY <1>2, <2>9
    <3> QED BY <3>1, <2>6, <2>7, <2>9 DEF SentOK
  <2>10. ASSUME NEW j \in Conns, NEW m \in UpFrame, m \in ToSet(up'[j])
         PROVE  /\ m.t = "attack" => sent[m.n].host = 0
                /\ m.t = "damage" /\ seat'[j] # NoRoom => sent[m.n].host = j
    BY <2>4, <2>5, <2>7, <2>10 DEF SentOK
  <2>11. ASSUME NEW c \in Clients, NEW m \in RpcFrame, m \in ToSet(down'[c])
         PROVE  /\ m.t = "attack" => sent[m.n].host = me[c]
                /\ m.t = "damage" => sent[m.n].room = seat'[me[c]] /\ seat'[me[c]] # NoRoom
    <3>1. m \in ToSet(down[c]) /\ me[c] \in Conns
      BY <1>2, <2>3, <2>11
    <3>2. m.t = "damage" => me[c] # k
      BY <2>1, <3>1 DEF SentOK
    <3> QED BY <3>1, <3>2, <2>7 DEF SentOK
  <2> QED BY <2>1, <2>8, <2>9, <2>10, <2>11 DEF SentOK
<1>13. ASSUME NEW k \in Conns, OnJoinDenied(k) PROVE SentOK'
  <2>1. Handles(k, "JOIN_REQUEST") /\ UNCHANGED <<down, sent, seat>>
    BY <1>13 DEF OnJoinDenied
  <2>2. /\ up[k] # <<>> /\ up' = [up EXCEPT ![k] = Tail(@)]
        /\ UNCHANGED <<out, me, made>>
    BY <2>1, Handled
  <2>3. \A j \in Conns : ToSet(up'[j]) \subseteq ToSet(up[j])
    BY <2>2, LeavesLine
  <2> QED BY <2>1, <2>2, <2>3, <1>4
<1>14. ASSUME NEW k \in Conns, OnAttack(k) PROVE SentOK'
  <2>1. /\ up[k] # <<>> /\ up' = [up EXCEPT ![k] = Tail(@)]
        /\ UNCHANGED <<out, me, made, seat>>
    BY <1>14, Attacks
  <2>2. /\ \A j \in Conns : ToSet(up'[j]) \subseteq ToSet(up[j])
        /\ Head(up[k]) \in ToSet(up[k]) /\ Head(up[k]) \notin ToSet(up'[k])
    BY <2>1, LeavesLine
  <2>3. CASE UNCHANGED <<down, sent>>
    BY <2>1, <2>2, <2>3, <1>4
  <2>4. CASE ~UNCHANGED <<down, sent>>
    <3>1. PICK r \in Rooms, h \in Conns, a \in RpcFrame :
              /\ a = Head(up[k]) /\ a.t = "attack"
              /\ r = seat[k] /\ h = Head(room[r]) /\ seat[h] = r /\ h \in alive
              /\ down' = To(down, {h}, a)
              /\ sent' = [sent EXCEPT ![a.n] = [room |-> r, host |-> h,
                                                others |-> Others(r, h)]]
      BY <1>14, <2>4, Attacks
    <3>2. PICK n \in Rpcs : n = a.n
      BY <1>3
    <3>3. /\ sent'[n].room = r /\ sent'[n].host = h
          /\ \A l \in Rpcs : l # n => sent'[l] = sent[l]
      BY <1>1, <3>1, <3>2
    <3>4. \A c \in Clients : \A m \in ToSet(down'[c]) :
              m \in ToSet(down[c]) \/ (m = a /\ cur[c] = h)
      <4>1. PICK ks : ks = {h}
        OBVIOUS
      <4>2. a \in DownFrame /\ down' = To(down, ks, a)
        BY <1>3, <3>1, <4>1
      <4>3. \A c \in Clients : \A m \in ToSet(down'[c]) :
                m \in ToSet(down[c]) \/ (m = a /\ cur[c] \in ks)
        BY <4>2, Heard
      <4> QED BY <4>1, <4>3
    <3>5. /\ ~(n > made)
          /\ \A c \in Clients, m \in UpFrame : m \in ToSet(out[c]) /\ IsRpc(m) => m.n # n
          /\ \A j \in Conns, m \in UpFrame : m \in ToSet(up'[j]) /\ IsRpc(m) => m.n # n
          /\ \A c \in Clients, m \in RpcFrame :
                m \in ToSet(down[c]) /\ m.t \in {"attack", "damage"} => m.n # n
      BY <2>2, <3>1, <3>2, NextToken
    <3>6. n <= made /\ r # NoRoom
      <4>1. r # NoRoom
        BY RoomFacts
      <4> QED BY <4>1, <3>5, <1>1 DEF Rpcs
    <3>7. ASSUME NEW l \in Rpcs, sent'[l].host # 0
          PROVE  sent'[l].room # NoRoom /\ seat[sent'[l].host] = sent'[l].room /\ l <= made
      BY <3>1, <3>3, <3>6, <3>7 DEF SentOK
    <3>8. ASSUME NEW c \in Clients, NEW m \in UpFrame, m \in ToSet(out[c])
          PROVE  /\ m.t = "attack" => sent'[m.n].host = 0
                 /\ m.t = "damage" /\ seat[me[c]] # NoRoom => sent'[m.n].host = me[c]
      BY <1>3, <3>3, <3>5, <3>8 DEF SentOK
    <3>9. ASSUME NEW j \in Conns, NEW m \in UpFrame, m \in ToSet(up'[j])
          PROVE  /\ m.t = "attack" => sent'[m.n].host = 0
                 /\ m.t = "damage" /\ seat[j] # NoRoom => sent'[m.n].host = j
      BY <1>3, <2>2, <3>3, <3>5, <3>9 DEF SentOK
    <3>10. ASSUME NEW c \in Clients, NEW m \in RpcFrame, m \in ToSet(down'[c])
           PROVE  /\ m.t = "attack" => sent'[m.n].host = me[c]
                  /\ m.t = "damage" => sent'[m.n].room = seat[me[c]] /\ seat[me[c]] # NoRoom
      <4>1. CASE m \in ToSet(down[c])
        BY <4>1, <1>3, <3>3, <3>5 DEF SentOK
      <4>2. CASE m = a /\ cur[c] = h
        <5>1. me[c] = h
          BY <1>2, <4>2
        <5> QED BY <5>1, <4>2, <3>1, <3>2, <3>3
      <4> QED BY <4>1, <4>2, <3>4, <3>10
    <3> QED BY <2>1, <3>7, <3>8, <3>9, <3>10 DEF SentOK
  <2> QED BY <2>3, <2>4
<1>15. ASSUME NEW k \in Conns, OnDamage(k) \/ OnSkill(k) PROVE SentOK'
  <2>1. /\ up[k] # <<>> /\ up' = [up EXCEPT ![k] = Tail(@)]
        /\ UNCHANGED <<out, me, made, seat, sent>>
    BY <1>15, Relays
  <2>2. /\ \A j \in Conns : ToSet(up'[j]) \subseteq ToSet(up[j])
        /\ Head(up[k]) \in ToSet(up[k])
    BY <2>1, LeavesLine
  <2>3. CASE down' = down
    BY <2>1, <2>2, <2>3, <1>4
  <2>4. CASE down' # down
    <3>1. PICK r \in Rooms, h \in RpcFrame :
              /\ h = Head(up[k]) /\ h.t \in {"damage", "skill"} /\ r = seat[k]
              /\ down' = To(down, Others(r, k), h)
      BY <1>15, <2>4, Relays
    <3>2. \A c \in Clients : \A m \in ToSet(down'[c]) :
              m \in ToSet(down[c]) \/ (m = h /\ cur[c] \in Others(r, k))
      <4>1. PICK ks : ks = Others(r, k)
        OBVIOUS
      <4>2. h \in DownFrame /\ down' = To(down, ks, h)
        BY <1>3, <3>1, <4>1
      <4> QED BY <4>1, <4>2, Heard
    <3>3. r # NoRoom
      BY RoomFacts
    <3>4. h.t = "damage" => sent[h.n].host = k /\ sent[h.n].room = r
      <4>1. h \in UpFrame /\ h.n \in Rpcs /\ k # 0
        BY <1>2, <1>3
      <4> QED BY <4>1, <2>2, <3>1, <3>3 DEF SentOK
    <3>5. \A c \in Clients : cur[c] \in Others(r, k) => me[c] = cur[c] /\ seat[me[c]] = r
      <4>1. \A j \in Others(r, k) : seat[j] = r /\ j \in Conns
        BY RoomFacts DEF Others, RoomsOK
      <4> QED BY <4>1, <1>2
    <3>6. ASSUME NEW c \in Clients, NEW m \in RpcFrame, m \in ToSet(down'[c])
          PROVE  /\ m.t = "attack" => sent[m.n].host = me[c]
                 /\ m.t = "damage" => sent[m.n].room = seat[me[c]] /\ seat[me[c]] # NoRoom
      <4>1. CASE m \in ToSet(down[c])
        BY <4>1 DEF SentOK
      <4>2. CASE m = h /\ cur[c] \in Others(r, k)
        BY <4>2, <3>1, <3>3, <3>4, <3>5
      <4> QED BY <4>1, <4>2, <3>2, <3>6
    <3> QED BY <2>1, <2>2, <3>6 DEF SentOK
  <2> QED BY <2>3, <2>4
<1>16. ASSUME NEW k \in Conns, OnClose(k) PROVE SentOK'
  <2>1. up' = [up EXCEPT ![k] = <<>>] /\ UNCHANGED <<out, me, made, seat, sent>>
    BY <1>16, Closes
  <2>2. \A j \in Conns : ToSet(up'[j]) \subseteq ToSet(up[j])
    BY <1>1, <2>1, EmptyLine
  <2>3. \A c \in Clients, m \in RpcFrame : m \in ToSet(down'[c]) => m \in ToSet(down[c])
    <3>1. CASE down' = down
      BY <3>1
    <3>2. CASE down' # down
      <4>1. PICK rest \in Seq(Conns) :
                /\ HostReassign(Head(rest)) \in DownFrame
                /\ down' = To(down, ToSet(rest), HostReassign(Head(rest)))
        BY <1>16, <3>2, Closes
      <4>2. PICK a \in DownFrame : a = HostReassign(Head(rest))
        BY <4>1
      <4>3. PICK ks \in SUBSET Conns : ks = ToSet(rest)
        BY LineSets
      <4>4. down' = To(down, ks, a)
        BY <4>1, <4>2, <4>3
      <4>5. \A c \in Clients : \A m \in ToSet(down'[c]) : m \in ToSet(down[c]) \/ m = a
        BY <4>4, Heard
      <4>6. a \notin RpcFrame
        BY <4>2 DEF HostReassign, RpcFrame
      <4> QED BY <4>5, <4>6
    <3> QED BY <3>1, <3>2
  <2> QED BY <2>1, <2>2, <2>3, <1>4
<1> QED BY <1>5, <1>7, <1>8, <1>9, <1>10, <1>11, <1>12, <1>13, <1>14, <1>15, <1>16
        DEF RelayNext, OnMessage

-------------------------------------------------------------------------------
(***************************************************************************)
(* Who is host, and who knows.                                             *)
(***************************************************************************)

\* While its connection is gone, a client's line is as good whoever is host.
LEMMA NobodyHosts ==
    ASSUME NEW b, NEW k, NEW host, NEW host2, NEW d, HostLine(b, k, FALSE, host, d)
    PROVE  HostLine(b, k, FALSE, host2, d)
BY DEF HostLine

\* Every step keeps the host believing, before each attack, that it is host.
LEMMA HostsStep ==
    ASSUME RelayTypeOK, ConnsOK, RoomsOK, TokensOK, HostsOK, RelayNext
    PROVE  HostsOK'
<1> DEFINE IsHostOf(k)  == IsTheHost(alive, seat, room, k)
           WillHost(k)  == IsTheHost(alive', seat', room', k)
<1>1. /\ down \in [Clients -> Seq(DownFrame)] /\ room \in [Rooms -> Seq(Conns)]
      /\ cur \in [Clients -> 0..MaxConns]
      /\ me \in [Clients -> 0..MaxConns] /\ seat \in [Conns -> Rooms \cup {NoRoom}]
      /\ isHost \in [Clients -> BOOLEAN]
  BY DEF RelayTypeOK
<1>2. /\ \A c \in Clients : cur[c] # 0 => cur[c] = me[c] /\ me[c] \in Conns
      /\ \A c \in Clients : me[c] # 0 => me[c] \in Conns
      /\ \A c, e \in Clients : me[c] # 0 /\ me[c] = me[e] => c = e
  BY OneClient
<1>3. alive \subseteq Conns /\ 0 \notin Conns /\ NoRoom \notin Rooms
  BY RoomFacts
<1>4. ASSUME NEW c \in Clients
      PROVE  \E open \in BOOLEAN, host \in BOOLEAN :
                /\ open <=> cur[c] # 0
                /\ host <=> IsHostOf(me[c])
                /\ HostLine(isHost[c], me[c], open, host, down[c])
  <2>1. HostLine(isHost[c], me[c], cur[c] # 0, IsHostOf(me[c]), down[c])
    BY DEF HostsOK
  <2>2. PICK open \in BOOLEAN, host \in BOOLEAN :
            (open <=> cur[c] # 0) /\ (host <=> IsHostOf(me[c]))
    OBVIOUS
  <2>3. HostLine(isHost[c], me[c], open, host, down[c])
    BY <2>1, <2>2 DEF HostLine
  <2> QED BY <2>2, <2>3
<1>5. ASSUME \A c \in Clients : \E open \in BOOLEAN, host \in BOOLEAN :
                /\ open <=> cur'[c] # 0
                /\ open => (host <=> WillHost(me'[c]))
                /\ HostLine(isHost'[c], me'[c], open, host, down'[c])
      PROVE  HostsOK'
  <2>1. ASSUME NEW c \in Clients
        PROVE  HostLine(isHost'[c], me'[c], cur'[c] # 0, WillHost(me'[c]), down'[c])
    <3>1. PICK open \in BOOLEAN, host \in BOOLEAN :
              /\ open <=> cur'[c] # 0
              /\ open => (host <=> WillHost(me'[c]))
              /\ HostLine(isHost'[c], me'[c], open, host, down'[c])
      BY <1>5
    <3> QED BY <3>1 DEF HostLine
  <2> QED BY <2>1 DEF HostsOK
<1> HIDE DEF IsHostOf, WillHost
<1>6. ASSUME NEW c \in Clients,
             cur'[c] = cur[c], me'[c] = me[c], isHost'[c] = isHost[c], down'[c] = down[c],
             cur[c] # 0 => (WillHost(me[c]) <=> IsHostOf(me[c]))
      PROVE  \E open \in BOOLEAN, host \in BOOLEAN :
                /\ open <=> cur'[c] # 0
                /\ open => (host <=> WillHost(me'[c]))
                /\ HostLine(isHost'[c], me'[c], open, host, down'[c])
  BY <1>4, <1>6
<1>7. ASSUME NEW k, k \in alive <=> k \in alive', seat'[k] = seat[k],
             seat[k] # NoRoom => room'[seat[k]] = room[seat[k]]
      PROVE  WillHost(k) <=> IsHostOf(k)
  BY <1>7 DEF WillHost, IsHostOf, IsTheHost
<1>8. ASSUME UNCHANGED <<cur, me, isHost, alive, seat, room, down>> PROVE HostsOK'
  BY <1>5, <1>6, <1>7, <1>8
<1>9. ASSUME NEW c \in Clients, Connects(c) PROVE HostsOK'
  <2>1. PICK k \in Conns :
          /\ seat[k] = NoRoom /\ down[c] = <<>>
          /\ cur' = [cur EXCEPT ![c] = k] /\ me' = [me EXCEPT ![c] = k]
          /\ alive' = alive \cup {k} /\ \A e \in Clients : me[e] # k
          /\ UNCHANGED <<isHost, down, room, seat>>
    BY <1>9, NewConn
  <2>2. ASSUME NEW e \in Clients
        PROVE  \E open \in BOOLEAN, host \in BOOLEAN :
                  /\ open <=> cur'[e] # 0
                  /\ open => (host <=> WillHost(me'[e]))
                  /\ HostLine(isHost'[e], me'[e], open, host, down'[e])
    <3>1. CASE e = c
      <4>1. ~WillHost(k)
        BY <2>1 DEF WillHost, IsTheHost
      <4>2. cur'[e] = k /\ me'[e] = k /\ down'[e] = <<>> /\ k # 0
        BY <3>1, <1>1, <1>3, <2>1
      <4>3. HostLine(isHost'[e], k, TRUE, FALSE, <<>>)
        BY ToldNothing
      <4> QED BY <4>1, <4>2, <4>3
    <3>2. CASE e # c
      <4>1. me[e] # k /\ cur'[e] = cur[e] /\ me'[e] = me[e]
        BY <3>2, <1>1, <2>1
      <4>2. WillHost(me[e]) <=> IsHostOf(me[e])
        BY <4>1, <2>1, <1>7
      <4> QED BY <4>1, <4>2, <2>1, <1>6
    <3> QED BY <3>1, <3>2
  <2> QED BY <2>2, <1>5
<1>10. ASSUME NEW c \in Clients,
              \/ RequestsJoin(c) \/ (\E type \in {"attack", "skill"} : LocalRpc(c, type))
              \/ Flush(c)
       PROVE  HostsOK'
  <2>1. UNCHANGED <<cur, me, isHost, alive, seat, room, down>>
    BY <1>10 DEF RequestsJoin, LocalRpc, Flush, serverVars
  <2> QED BY <2>1, <1>8
<1>11. ASSUME NEW c \in Clients, LosesConnection(c) PROVE HostsOK'
  <2>1. PICK n \in 0..Len(down[c]) : down' = [down EXCEPT ![c] = SubSeq(@, 1, n)]
    BY <1>11 DEF LosesConnection
  <2>2. cur' = [cur EXCEPT ![c] = 0] /\ UNCHANGED <<me, isHost, alive, seat, room>>
    BY <1>11 DEF LosesConnection, serverVars
  <2>3. \A k : WillHost(k) <=> IsHostOf(k)
    BY <2>2, <1>7
  <2>4. ASSUME NEW e \in Clients
        PROVE  \E open \in BOOLEAN, host \in BOOLEAN :
                  /\ open <=> cur'[e] # 0
                  /\ open => (host <=> WillHost(me'[e]))
                  /\ HostLine(isHost'[e], me'[e], open, host, down'[e])
    <3>1. CASE e = c
      <4>1. PICK open \in BOOLEAN, host \in BOOLEAN :
                HostLine(isHost[c], me[c], open, host, down[c])
        BY <1>4
      <4>2. HostLine(isHost[c], me[c], FALSE, FALSE, SubSeq(down[c], 1, n))
        BY <4>1, <1>1, HungUp
      <4>3. cur'[e] = 0 /\ down'[e] = SubSeq(down[c], 1, n)
        BY <3>1, <1>1, <2>1, <2>2
      <4> QED BY <4>2, <4>3, <3>1, <2>2
    <3>2. CASE e # c
      BY <3>2, <1>1, <1>6, <2>1, <2>2, <2>3
    <3> QED BY <3>1, <3>2
  <2> QED BY <2>4, <1>5
<1>12. ASSUME NEW c \in Clients, OnPacket(c) PROVE HostsOK'
  <2>1. PICK h : h = Head(down[c])
    OBVIOUS
  <2>2. /\ down[c] # <<>> /\ h \in DownFrame
        /\ down' = [down EXCEPT ![c] = Tail(@)]
        /\ UNCHANGED <<cur, me, alive, seat, room>>
        /\ isHost' = [isHost EXCEPT ![c] =
              IF h.t \in {"JOIN_ACK", "HOST_REASSIGN"} THEN HostFlag(c, h) ELSE @]
    BY <2>1, <1>12, Received DEF serverVars
  <2>3. (isHost[c] /\ ~Denies(me[c], h)) \/ Claims(me[c], h) => isHost'[c]
    <3>1. isHost'[c] = IF h.t \in {"JOIN_ACK", "HOST_REASSIGN"} THEN HostFlag(c, h)
                                                               ELSE isHost[c]
      BY <1>1, <2>2
    <3> QED BY <3>1, <2>2 DEF HostFlag, Claims, Denies, DownFrame
  <2>4. \A k : WillHost(k) <=> IsHostOf(k)
    BY <2>2, <1>7
  <2>5. ASSUME NEW e \in Clients
        PROVE  \E open \in BOOLEAN, host \in BOOLEAN :
                  /\ open <=> cur'[e] # 0
                  /\ open => (host <=> WillHost(me'[e]))
                  /\ HostLine(isHost'[e], me'[e], open, host, down'[e])
    <3>1. CASE e = c
      <4>1. PICK open \in BOOLEAN, host \in BOOLEAN :
                /\ open <=> cur[c] # 0
                /\ host <=> IsHostOf(me[c])
                /\ HostLine(isHost[c], me[c], open, host, down[c])
        BY <1>4
      <4>2. PICK b, b2, k : b = isHost[c] /\ b2 = isHost'[c] /\ k = me[c]
        OBVIOUS
      <4>3. PICK d \in Seq(DownFrame) : d = down[c]
        BY <1>1
      <4>4. /\ d # <<>> /\ HostLine(b, k, open, host, d)
            /\ (b /\ ~Denies(k, Head(d))) \/ Claims(k, Head(d)) => b2
        BY <4>1, <4>2, <4>3, <2>1, <2>2, <2>3
      <4>5. HostLine(b2, k, open, host, Tail(d))
        BY <4>4, HandledOne
      <4>6. cur'[e] = cur[c] /\ me'[e] = k /\ isHost'[e] = b2 /\ down'[e] = Tail(d)
        BY <3>1, <4>2, <4>3, <1>1, <2>2
      <4> QED BY <4>1, <4>2, <4>5, <4>6, <2>4
    <3>2. CASE e # c
      BY <3>2, <1>1, <1>6, <2>2, <2>4
    <3> QED BY <3>1, <3>2
  <2> QED BY <2>5, <1>5

<1>13. ASSUME NEW ks \in SUBSET Conns, NEW h \in RpcFrame, down' = To(down, ks, h),
              UNCHANGED <<cur, me, isHost, alive, seat, room>>,
              h.t # "skill" => \A c \in Clients : h \notin ToSet(down[c]),
              h.t = "attack" => \A c \in Clients : cur[c] \in ks => IsHostOf(me[c])
       PROVE  HostsOK'
  <2>1. h \in DownFrame
    BY UpFrames
  <2>2. \A c \in Clients : /\ cur[c] \notin ks => down'[c] = down[c]
                           /\ cur[c] \in ks => down'[c] = Append(down[c], h)
    BY <1>13, <2>1, Heard
  <2>3. \A k : WillHost(k) <=> IsHostOf(k)
    BY <1>7, <1>13
  <2>4. ASSUME NEW e \in Clients
        PROVE  \E open \in BOOLEAN, host \in BOOLEAN :
                  /\ open <=> cur'[e] # 0
                  /\ open => (host <=> WillHost(me'[e]))
                  /\ HostLine(isHost'[e], me'[e], open, host, down'[e])
    <3>1. CASE cur[e] \in ks
      <4>1. PICK open \in BOOLEAN, host \in BOOLEAN :
                /\ open <=> cur[e] # 0
                /\ host <=> IsHostOf(me[e])
                /\ HostLine(isHost[e], me[e], open, host, down[e])
        BY <1>4
      <4>2. PICK b, k : b = isHost[e] /\ k = me[e]
        OBVIOUS
      <4>3. PICK d \in Seq(DownFrame) : d = down[e]
        BY <1>1
      <4>4. cur[e] # 0
        BY <3>1, <1>3
      <4>5. HostLine(b, k, TRUE, host, d)
        BY <4>1, <4>2, <4>3, <4>4 DEF HostLine
      <4>6. (h.t = "attack" => host) /\ (h.t # "skill" => h \notin ToSet(d))
        BY <3>1, <4>1, <4>3, <1>13
      <4>7. HostLine(b, k, TRUE, host, Append(d, h))
        BY <4>5, <4>6, ToldOfCombat
      <4>8. cur'[e] # 0 /\ isHost'[e] = b /\ me'[e] = k /\ down'[e] = Append(d, h)
        BY <3>1, <4>2, <4>3, <4>4, <1>13, <2>2
      <4> QED BY <4>1, <4>2, <4>7, <4>8, <2>3
    <3>2. CASE cur[e] \notin ks
      BY <3>2, <1>6, <1>13, <2>2, <2>3
    <3> QED BY <3>1, <3>2
  <2> QED BY <2>4, <1>5
<1>14. ASSUME NEW k \in Conns, NEW r \in Rooms, OnJoinRequest(k, r) PROVE HostsOK'
  <2>1. /\ k \in alive /\ seat[k] = NoRoom
        /\ room' = [room EXCEPT ![r] = MapSet(@, k)]
        /\ seat' = [seat EXCEPT ![k] = r]
        /\ UNCHANGED <<cur, me, isHost, alive>>
    BY <1>14, Joins
  <2>2. PICK first \in BOOLEAN : /\ first <=> room[r] = <<>>
                                 /\ JoinAck(first) \in DownFrame
                                 /\ down' = To(down, {k}, JoinAck(first))
    BY <1>14, Joins
  <2>3. PICK a \in DownFrame, ks \in SUBSET Conns : a = JoinAck(first) /\ ks = {k}
    BY <2>2
  <2>4. a.t = "JOIN_ACK" /\ \A j : Claims(j, a) <=> first
    BY <2>2, <2>3, DownFrames
  <2>5. \A c \in Clients : /\ cur[c] \notin ks => down'[c] = down[c]
                           /\ cur[c] \in ks => down'[c] = Append(down[c], a)
    <3>1. down' = To(down, ks, a)
      BY <2>2, <2>3
    <3> QED BY <3>1, Heard
  <2>6. /\ room[r] \in Seq(Conns) /\ Distinct(room[r]) /\ k \notin ToSet(room[r])
        /\ room[r] # <<>> => seat[Head(room[r])] = r
    <3>1. Distinct(room[r]) /\ ToSet(room[r]) = {j \in alive : seat[j] = r}
      BY DEF RoomsOK
    <3>2. k \notin ToSet(room[r])
      BY <3>1, <1>3, <2>1
    <3>3. room[r] # <<>> => seat[Head(room[r])] = r
      BY RoomFacts
    <3> QED BY <3>1, <3>2, <3>3, <1>1
  <2>7. Head(MapSet(room[r], k)) = IF room[r] = <<>> THEN k ELSE Head(room[r])
    BY <2>6, MapSetNew
  <2>8. ~IsHostOf(k)
    BY <2>1 DEF IsHostOf, IsTheHost
  <2>9. WillHost(k) <=> first
    <3>1. seat'[k] = r /\ r # NoRoom /\ room'[r] = MapSet(room[r], k) /\ k \in alive'
      BY <1>1, <1>3, <2>1
    <3>2. room[r] # <<>> => Head(room[r]) # k
      BY <1>3, <2>1, <2>6
    <3> QED BY <2>2, <2>7, <3>1, <3>2 DEF WillHost, IsTheHost
  <2>10. ASSUME NEW j \in Conns, j # k PROVE WillHost(j) <=> IsHostOf(j)
    <3>1. seat'[j] = seat[j] /\ (j \in alive' <=> j \in alive)
      BY <1>1, <2>1, <2>10
    <3>2. CASE j \in alive /\ seat[j] = r
      <4>1. room[r] # <<>>
        BY <3>2, RoomFacts
      <4>2. Head(room'[r]) = Head(room[r])
        BY <4>1, <1>1, <2>1, <2>7
      <4> QED BY <3>1, <3>2, <4>2 DEF WillHost, IsHostOf, IsTheHost
    <3>3. CASE j \notin alive
      BY <3>1, <3>3 DEF WillHost, IsHostOf, IsTheHost
    <3>4. CASE seat[j] # r
      <4>1. seat[j] # NoRoom => room'[seat[j]] = room[seat[j]]
        BY <3>4, <1>1, <2>1
      <4> QED BY <4>1, <3>1, <1>7
    <3> QED BY <3>2, <3>3, <3>4
  <2>11. ASSUME NEW e \in Clients
         PROVE  \E open \in BOOLEAN, host \in BOOLEAN :
                   /\ open <=> cur'[e] # 0
                   /\ open => (host <=> WillHost(me'[e]))
                   /\ HostLine(isHost'[e], me'[e], open, host, down'[e])
    <3>1. CASE cur[e] = k
      <4>1. PICK open \in BOOLEAN, host \in BOOLEAN :
                /\ open <=> cur[e] # 0
                /\ host <=> IsHostOf(me[e])
                /\ HostLine(isHost[e], me[e], open, host, down[e])
        BY <1>4
      <4>2. PICK b : b = isHost[e]
        OBVIOUS
      <4>3. PICK d \in Seq(DownFrame) : d = down[e]
        BY <1>1
      <4>4. cur[e] # 0 /\ me[e] = k
        BY <3>1, <1>2, <1>3
      <4>5. HostLine(b, k, TRUE, host, d) /\ ~host
        BY <4>1, <4>2, <4>3, <4>4, <2>8 DEF HostLine
      <4>6. HostLine(b, k, TRUE, first, Append(d, a))
        BY <4>5, <2>4, ToldOfHost
      <4>7. cur'[e] # 0 /\ isHost'[e] = b /\ me'[e] = k /\ down'[e] = Append(d, a)
        BY <3>1, <4>2, <4>3, <4>4, <2>1, <2>3, <2>5
      <4> QED BY <4>6, <4>7, <2>9
    <3>2. CASE cur[e] # k
      <4>1. cur[e] # 0 => me[e] # k /\ me[e] \in Conns
        BY <3>2, <1>2
      <4>2. cur[e] # 0 => (WillHost(me[e]) <=> IsHostOf(me[e]))
        BY <4>1, <2>10
      <4>3. cur'[e] = cur[e] /\ me'[e] = me[e] /\ isHost'[e] = isHost[e] /\ down'[e] = down[e]
        BY <3>2, <2>1, <2>3, <2>5
      <4> QED BY <4>2, <4>3, <1>6
    <3> QED BY <3>1, <3>2
  <2> QED BY <2>11, <1>5
<1>15. ASSUME NEW k \in Conns, OnJoinDenied(k) PROVE HostsOK'
  <2>1. UNCHANGED <<cur, me, isHost, alive, seat, room, down>>
    BY <1>15 DEF OnJoinDenied, Handles
  <2> QED BY <2>1, <1>8
<1>16. ASSUME NEW k \in Conns, OnAttack(k) PROVE HostsOK'
  <2>1. up[k] # <<>> /\ UNCHANGED <<cur, me, isHost, alive, seat, room>>
    BY <1>16, Attacks
  <2>2. CASE UNCHANGED <<down, sent>>
    BY <2>1, <2>2, <1>8
  <2>3. CASE ~UNCHANGED <<down, sent>>
    <3>1. PICK r \in Rooms, h \in Conns, a \in RpcFrame :
              /\ a = Head(up[k]) /\ a.t = "attack"
              /\ r = seat[k] /\ h = Head(room[r]) /\ seat[h] = r /\ h \in alive
              /\ down' = To(down, {h}, a)
              /\ sent' = [sent EXCEPT ![a.n] = [room |-> r, host |-> h,
                                                others |-> Others(r, h)]]
      BY <1>16, <2>3, Attacks
    <3>2. PICK ks \in SUBSET Conns : ks = {h}
      OBVIOUS
    <3>3. a \in ToSet(up[k])
      <4>1. up[k] \in Seq(UpFrame)
        BY DEF RelayTypeOK
      <4> QED BY <4>1, <2>1, <3>1, LineSets
    <3>4. \A c \in Clients : a \notin ToSet(down[c])
      BY <3>1, <3>3, NextToken
    <3>5. IsHostOf(h)
      BY <1>3, <3>1 DEF IsHostOf, IsTheHost
    <3>6. \A c \in Clients : cur[c] \in ks => IsHostOf(me[c])
      <4>1. \A c \in Clients : cur[c] \in ks => me[c] = h
        BY <1>2, <1>3, <3>2
      <4> QED BY <4>1, <3>5
    <3>7. down' = To(down, ks, a)
      BY <3>1, <3>2
    <3> QED BY <2>1, <3>4, <3>6, <3>7, <1>13
  <2> QED BY <2>2, <2>3
<1>17. ASSUME NEW k \in Conns, OnDamage(k) \/ OnSkill(k) PROVE HostsOK'
  <2>1. up[k] # <<>> /\ UNCHANGED <<cur, me, isHost, alive, seat, room>>
    BY <1>17, Relays
  <2>2. CASE down' = down
    BY <2>1, <2>2, <1>8
  <2>3. CASE down' # down
    <3>1. PICK r \in Rooms, h \in RpcFrame :
              /\ h = Head(up[k]) /\ h.t \in {"damage", "skill"} /\ r = seat[k]
              /\ down' = To(down, Others(r, k), h)
      BY <1>17, <2>3, Relays
    <3>2. PICK ks \in SUBSET Conns : ks = Others(r, k)
      <4>1. Others(r, k) \subseteq Conns
        BY <1>3 DEF Others, RoomsOK
      <4> QED BY <4>1
    <3>3. h \in ToSet(up[k])
      <4>1. up[k] \in Seq(UpFrame)
        BY DEF RelayTypeOK
      <4> QED BY <4>1, <2>1, <3>1, LineSets
    <3>4. h.t # "skill" => \A c \in Clients : h \notin ToSet(down[c])
      BY <3>1, <3>3, NextToken
    <3>5. down' = To(down, ks, h) /\ h.t # "attack"
      BY <3>1, <3>2
    <3> QED BY <2>1, <3>4, <3>5, <1>13
  <2> QED BY <2>2, <2>3
<1>18. ASSUME NEW k \in Conns, OnClose(k) PROVE HostsOK'
  <2>1. /\ k \in alive /\ alive' = alive \ {k}
        /\ \A e \in Clients : cur[e] # k
        /\ UNCHANGED <<cur, me, isHost, seat>>
    BY <1>18, Closes
  <2>2. ASSUME UNCHANGED down,
               \A j \in Conns : j # k => (WillHost(j) <=> IsHostOf(j))
        PROVE  HostsOK'
    <3>1. \A e \in Clients : cur[e] # 0 => me[e] # k /\ me[e] \in Conns
      BY <1>2, <2>1
    <3> QED BY <3>1, <1>5, <1>6, <2>1, <2>2
  <2>3. CASE seat[k] = NoRoom /\ UNCHANGED <<room, down>>
    <3>1. \A j \in Conns : j # k => (WillHost(j) <=> IsHostOf(j))
      BY <2>1, <2>3, <1>7
    <3> QED BY <3>1, <2>2, <2>3
  <2>4. CASE ~(seat[k] = NoRoom /\ UNCHANGED <<room, down>>)
    <3>1. PICK r \in Rooms, rest \in Seq(Conns) :
              /\ r = seat[k] /\ room[r] # <<>>
              /\ ToSet(rest) = {j \in alive : seat[j] = r /\ j # k}
              /\ room' = [room EXCEPT ![r] = rest]
              /\ \/ rest = <<>> /\ UNCHANGED down
                 \/ /\ rest # <<>> /\ Head(rest) \in ToSet(rest)
                    /\ Head(rest) = Head(room[r]) /\ UNCHANGED down
                 \/ /\ rest # <<>> /\ Head(rest) \in ToSet(rest)
                    /\ Head(room[r]) = k /\ Head(rest) # k
                    /\ HostReassign(Head(rest)) \in DownFrame
                    /\ down' = To(down, ToSet(rest), HostReassign(Head(rest)))
      BY <1>18, <2>4, Closes
    <3>2. room'[r] = rest /\ r # NoRoom
      BY <1>1, <1>3, <3>1
    <3>3. ASSUME NEW j \in Conns, j # k, j \notin alive \/ seat[j] # r
          PROVE  WillHost(j) <=> IsHostOf(j)
      <4>1. CASE j \notin alive
        BY <4>1, <2>1 DEF WillHost, IsHostOf, IsTheHost
      <4>2. CASE seat[j] # r
        <5>1. seat[j] # NoRoom => room'[seat[j]] = room[seat[j]]
          BY <4>2, <1>1, <3>1
        <5>2. (j \in alive <=> j \in alive') /\ seat'[j] = seat[j]
          BY <2>1, <3>3
        <5> QED BY <5>1, <5>2, <1>7
      <4> QED BY <3>3, <4>1, <4>2
    <3>4. CASE rest = <<>> /\ UNCHANGED down
      <4>1. \A j \in Conns : j # k => j \notin alive \/ seat[j] # r
        BY <3>1, <3>4, EmptyLine
      <4> QED BY <4>1, <2>2, <3>3, <3>4
    <3>5. CASE rest # <<>> /\ Head(rest) = Head(room[r]) /\ UNCHANGED down
      <4>1. ASSUME NEW j \in Conns, j # k, j \in alive, seat[j] = r
            PROVE  WillHost(j) <=> IsHostOf(j)
        BY <4>1, <2>1, <3>2, <3>5 DEF WillHost, IsHostOf, IsTheHost
      <4> QED BY <4>1, <2>2, <3>3, <3>5
    <3>6. CASE /\ rest # <<>> /\ Head(rest) \in ToSet(rest)
               /\ Head(room[r]) = k /\ Head(rest) # k
               /\ HostReassign(Head(rest)) \in DownFrame
               /\ down' = To(down, ToSet(rest), HostReassign(Head(rest)))
      <4>1. ToSet(rest) \subseteq Conns
        BY LineSets
      <4>2. PICK h \in Conns, ks \in SUBSET Conns : h = Head(rest) /\ ks = ToSet(rest)
        BY <4>1, <3>6
      <4>3. PICK a \in DownFrame : a = HostReassign(h)
        BY <4>2, <3>6
      <4>4. a.t = "HOST_REASSIGN" /\ \A j : Claims(j, a) <=> j = h
        BY <4>3, DownFrames
      <4>5. \A c \in Clients : /\ cur[c] \notin ks => down'[c] = down[c]
                               /\ cur[c] \in ks => down'[c] = Append(down[c], a)
        <5>1. down' = To(down, ks, a)
          BY <4>2, <4>3, <3>6
        <5> QED BY <5>1, Heard
      <4>6. ASSUME NEW j \in ks PROVE ~IsHostOf(j) /\ (WillHost(j) <=> j = h)
        <5>1. j \in alive /\ seat[j] = r /\ j # k
          BY <4>2, <3>1
        <5>2. j \in alive' /\ seat'[j] = r
          BY <5>1, <2>1
        <5> QED BY <5>1, <5>2, <4>2, <3>2, <3>6 DEF WillHost, IsHostOf, IsTheHost
      <4>7. ASSUME NEW e \in Clients
            PROVE  \E open \in BOOLEAN, host \in BOOLEAN :
                      /\ open <=> cur'[e] # 0
                      /\ open => (host <=> WillHost(me'[e]))
                      /\ HostLine(isHost'[e], me'[e], open, host, down'[e])
        <5>1. CASE cur[e] \in ks
          <6>1. PICK open \in BOOLEAN, host \in BOOLEAN :
                    /\ open <=> cur[e] # 0
                    /\ host <=> IsHostOf(me[e])
                    /\ HostLine(isHost[e], me[e], open, host, down[e])
            BY <1>4
          <6>2. PICK b, j : b = isHost[e] /\ j = me[e]
            OBVIOUS
          <6>3. PICK d \in Seq(DownFrame) : d = down[e]
            BY <1>1
          <6>4. cur[e] # 0 /\ j \in ks
            BY <5>1, <6>2, <1>2, <1>3
          <6>5. HostLine(b, j, TRUE, host, d) /\ ~host
            BY <6>1, <6>2, <6>3, <6>4, <4>6 DEF HostLine
          <6>6. PICK host2 \in BOOLEAN : host2 <=> j = h
            OBVIOUS
          <6>7. HostLine(b, j, TRUE, host2, Append(d, a))
            BY <6>5, <6>6, <4>4, ToldOfHost
          <6>8. cur'[e] # 0 /\ isHost'[e] = b /\ me'[e] = j /\ down'[e] = Append(d, a)
            BY <5>1, <6>2, <6>3, <6>4, <2>1, <4>5
          <6>9. host2 <=> WillHost(j)
            BY <6>4, <6>6, <4>6
          <6> QED BY <6>7, <6>8, <6>9
        <5>2. CASE cur[e] \notin ks
          <6>1. cur[e] # 0 => /\ me[e] # k /\ me[e] \in Conns
                              /\ me[e] \notin alive \/ seat[me[e]] # r
            BY <5>2, <1>2, <2>1, <3>1, <4>2
          <6>2. cur[e] # 0 => (WillHost(me[e]) <=> IsHostOf(me[e]))
            BY <6>1, <3>3
          <6>3. /\ cur'[e] = cur[e] /\ me'[e] = me[e] /\ isHost'[e] = isHost[e]
                /\ down'[e] = down[e]
            BY <5>2, <2>1, <4>5
          <6> QED BY <6>2, <6>3, <1>6
        <5> QED BY <5>1, <5>2
      <4> QED BY <4>7, <1>5
    <3> QED BY <3>1, <3>4, <3>5, <3>6
  <2> QED BY <2>3, <2>4
<1> QED BY <1>9, <1>10, <1>11, <1>12, <1>14, <1>15, <1>16, <1>17, <1>18
        DEF RelayNext, OnMessage

-------------------------------------------------------------------------------
(***************************************************************************)
(* The results.                                                            *)
(***************************************************************************)

\* Nobody has connected and nothing is under way.
LEMMA RelayInitInv == RelayInit => RelayInv
<1> SUFFICES ASSUME RelayInit PROVE RelayInv
  OBVIOUS
<1> USE DEF RelayInit
<1>1. /\ \A k \in Conns : up[k] = <<>> /\ ToSet(up[k]) = {}
      /\ \A c \in Clients : /\ out[c] = <<>> /\ ToSet(out[c]) = {}
                            /\ down[c] = <<>> /\ ToSet(down[c]) = {}
      /\ \A r \in Rooms : room[r] = <<>> /\ ToSet(room[r]) = {}
  BY EmptyLine
<1>2. RelayTypeOK
  <2>1. /\ MaxConns \in Nat /\ MaxRpcs \in Nat
        /\ 0 \in 0..MaxConns /\ 0 \in 0..MaxRpcs /\ 0 <= MaxConns
    BY CombatAssumption
  <2>2. /\ <<>> \in Seq(UpFrame) /\ <<>> \in Seq(DownFrame)
        /\ <<>> \in Seq(Clients) /\ <<>> \in Seq(Conns)
        /\ Len(owner) = 0 /\ owner \in Seq(Clients) /\ DOMAIN owner = {}
    BY EmptySeq, EmptyDomain
  <2>3. \A r \in Rooms : IsInjective(room[r])
    BY <1>1, EmptyDomain DEF IsInjective
  <2>4. NotSent \in [room : Rooms \cup {NoRoom}, host : 0..MaxConns, others : SUBSET Conns]
    BY <2>1 DEF NotSent
  <2>5. sent \in [Rpcs -> [room : Rooms \cup {NoRoom}, host : 0..MaxConns, others : SUBSET Conns]]
    BY <2>4
  <2> QED BY <2>1, <2>2, <2>3, <2>5, <1>1 DEF RelayTypeOK
<1>3. ConnsOK
  BY <1>1 DEF ConnsOK
<1>4. RoomsOK
  BY <1>1, EmptyDomain DEF RoomsOK, Distinct
<1>5. LinesOK
  BY <1>1, EmptyLine DEF LinesOK
<1>6. TokensOK
  <2>1. PICK place : place = [n \in Rpcs |-> Unmade]
    OBVIOUS
  <2>2. Placed(place)
    BY <1>1, <2>1 DEF Placed
  <2> QED BY <2>1, <2>2 DEF TokensOK, Places
<1>7. SentOK
  BY <1>1 DEF SentOK, NotSent
<1>8. HostsOK
  <2>1. ASSUME NEW c \in Clients
        PROVE  HostLine(isHost[c], me[c], cur[c] # 0, IsTheHost(alive, seat, room, me[c]), down[c])
    <3>1. down[c] = <<>> /\ cur[c] = 0
      BY <1>1
    <3>2. HostLine(isHost[c], me[c], FALSE, IsTheHost(alive, seat, room, me[c]), <<>>)
      BY ToldNothing
    <3> QED BY <3>1, <3>2 DEF HostLine
  <2> QED BY <2>1 DEF HostsOK
<1> QED BY <1>2, <1>3, <1>4, <1>5, <1>6, <1>7, <1>8 DEF RelayInv

\* The parts of the invariant keep each other.
LEMMA RelayNextInv == RelayInv /\ [RelayNext]_vars => RelayInv'
<1> SUFFICES ASSUME RelayInv, [RelayNext]_vars PROVE RelayInv'
  OBVIOUS
<1>1. /\ RelayTypeOK /\ ConnsOK /\ RoomsOK /\ LinesOK
      /\ TokensOK /\ SentOK /\ HostsOK
  BY DEF RelayInv
<1>2. CASE RelayNext
  <2>1. RoomsOK'
    BY <1>1, <1>2, RoomsStep
  <2>2. RelayTypeOK'
    BY <1>1, <1>2, <2>1, RelayTypeStep
  <2>3. ConnsOK'
    BY <1>1, <1>2, ConnsStep
  <2>4. LinesOK'
    BY <1>1, <1>2, LinesStep
  <2>5. TokensOK'
    BY <1>1, <1>2, TokensStep
  <2>6. SentOK'
    BY <1>1, <1>2, SentStep
  <2>7. HostsOK'
    BY <1>1, <1>2, HostsStep
  <2> QED BY <2>1, <2>2, <2>3, <2>4, <2>5, <2>6, <2>7 DEF RelayInv
<1>3. CASE UNCHANGED vars
  <2>1. UNCHANGED <<cur, me, isHost, out, down, owner, alive, up, room, seat, made, sent, heard>>
    BY <1>3 DEF vars, clientVars, serverVars, rpcVars
  <2>2. RelayTypeOK' /\ ConnsOK' /\ RoomsOK' /\ LinesOK'
    BY <1>1, <2>1 DEF RelayTypeOK, ConnsOK, RoomsOK, LinesOK
  <2>3. TokensOK'
    <3>1. PICK place \in [Rpcs -> Places] : Placed(place)
      BY <1>1 DEF TokensOK
    <3>2. Placed(place)'
      BY <2>1, <3>1 DEF Placed
    <3> QED BY <3>2 DEF TokensOK
  <2>4. SentOK'
    BY <1>1, <2>1 DEF SentOK
  <2>5. HostsOK'
    BY <1>1, <2>1 DEF HostsOK
  <2> QED BY <2>2, <2>3, <2>4, <2>5 DEF RelayInv
<1> QED BY <1>2, <1>3

\* In every reachable state connections, rooms, queues and tokens agree, and a
\* host knows that it is host before the next attack reaches it.
THEOREM RelayInvariance == RelaySpec => []RelayInv
<1>1. RelayInit => RelayInv
  BY RelayInitInv
<1>2. RelayInv /\ [RelayNext]_vars => RelayInv'
  BY RelayNextInv
<1> QED BY <1>1, <1>2, PTL DEF RelaySpec

\* Queues, tables and histories stay what they are declared to be, and a room
\* never has a member twice or one whose connection was closed.
THEOREM RelayTypeCorrect == RelaySpec => []RelayTypeOK
<1>1. RelayInv => RelayTypeOK
  BY DEF RelayInv
<1> QED BY <1>1, RelayInvariance, PTL

\* Whoever is handed an attack (HandleAttackRpc) already knows that it is the
\* host, so none is dropped, however hosts change while attacks are on their
\* way.
THEOREM AttacksReach == RelaySpec => []AttacksReachAHost
<1>1. RelayInv => AttacksReachAHost
  <2> SUFFICES ASSUME RelayInv, NEW c \in Clients, down[c] # <<>>, Head(down[c]).t = "attack"
               PROVE  isHost[c]
    BY DEF AttacksReachAHost
  <2>1. PICK d \in Seq(DownFrame) : d = down[c]
    BY DEF RelayInv, RelayTypeOK
  <2>2. Head(d) = d[1] /\ 1 \in DOMAIN d
    BY <2>1, TailFacts
  <2>3. HostLine(isHost[c], me[c], cur[c] # 0, IsTheHost(alive, seat, room, me[c]), d)
    BY <2>1 DEF RelayInv, HostsOK
  <2>4. Believes(isHost[c], me[c], d, 1)
    BY <2>1, <2>2, <2>3 DEF HostLine
  <2>5. 0..(1 - 1) = {0}
    OBVIOUS
  <2> QED BY <2>4, <2>5 DEF Believes
<1> QED BY <1>1, RelayInvariance, PTL

\* Nobody is handed the damage of a room it is not in, though what a client has
\* queued outlives its connection and it may come back into another room.
THEOREM DamageStays == RelaySpec => []DamageStaysInItsRoom
<1>1. RelayInv => DamageStaysInItsRoom
  <2> SUFFICES ASSUME RelayInv, NEW c \in Clients, NEW m \in ToSet(down[c]), m.t = "damage"
               PROVE  seat[me[c]] = sent[m.n].room
    BY DEF DamageStaysInItsRoom
  <2>1. down[c] \in Seq(DownFrame)
    BY DEF RelayInv, RelayTypeOK
  <2>2. m \in RpcFrame
    BY <2>1, LineSets, DownFrames
  <2> QED BY <2>2 DEF RelayInv, SentOK
<1> QED BY <1>1, RelayInvariance, PTL

\* However hosts and connections change, no client has the damage of an attack
\* twice in its line, or in its line and behind it.
THEOREM AnsweredOnceHolds == RelaySpec => []AnsweredOnce
<1>1. RelayInv => AnsweredOnce
  <2> SUFFICES ASSUME RelayInv, NEW c \in Clients, NEW i \in DOMAIN down[c],
                      down[c][i].t = "damage"
               PROVE  /\ <<me[c], down[c][i].n>> \notin heard
                      /\ \A j \in DOMAIN down[c] : down[c][j] = down[c][i] => j = i
    BY DEF AnsweredOnce
  <2>1. PICK m : m = down[c][i]
    OBVIOUS
  <2>2. m \in ToSet(down[c])
    BY <2>1 DEF ToSet
  <2>3. down[c] \in Seq(DownFrame)
    BY DEF RelayInv, RelayTypeOK
  <2>4. m \in RpcFrame
    BY <2>1, <2>2, <2>3, LineSets, DownFrames
  <2>5. PICK place : Placed(place)
    BY DEF RelayInv, TokensOK
  <2>6. <<me[c], m.n>> \notin heard
    BY <2>1, <2>2, <2>4, <2>5 DEF Placed
  <2>7. HostLine(isHost[c], me[c], cur[c] # 0, IsTheHost(alive, seat, room, me[c]), down[c])
    BY DEF RelayInv, HostsOK
  <2>8. \A j \in DOMAIN down[c] : down[c][j] = down[c][i] => j = i
    BY <2>7 DEF HostLine
  <2> QED BY <2>1, <2>6, <2>8
<1> QED BY <1>1, RelayInvariance, PTL

===============================================================================
