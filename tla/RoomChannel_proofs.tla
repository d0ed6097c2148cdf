--------------------------- MODULE RoomChannel_proofs --------------------------
(***************************************************************************)
(* The safety invariants of RoomServer and of RoomChannel, proved for      *)
(* every set of clients, every set of invite codes, every room capacity    *)
(* and every bound.                                                        *)
(***************************************************************************)
EXTENDS RoomChannel, OrderedMap_proofs, SequenceTheorems, TLAPS

-------------------------------------------------------------------------------
(***************************************************************************)
(* The inductive invariant.  None of its conjuncts is inductive alone: the *)
(* heir of a leaving host is a member only because the maps agree, the     *)
(* maps agree after a join only because an unseated session is in no room, *)
(* and a new room starts empty only because a destroyed one left nothing.  *)
(***************************************************************************)
IInv ==
    /\ TypeOK
    /\ MembershipAgrees
    /\ HostIsOldestMember
    /\ HostFlagAgrees
    /\ NoRoomLeaks
    /\ SeatsAreEarned

\* The invariant holds of a server that has just been started.
LEMMA InitIInv == Init => IInv
<1> SUFFICES ASSUME Init PROVE IInv
  OBVIOUS
<1> USE DEF Init
<1>1. TypeOK
  BY EmptySeq DEF TypeOK
<1>2. \A c \in Rooms : Members(c) = {} /\ Len(conns[c]) = 0
  BY EmptySeq DEF Members, ToSet
<1>3. MembershipAgrees
  BY <1>2, NoneAssumption DEF MembershipAgrees
<1>4. HostIsOldestMember /\ HostFlagAgrees /\ NoRoomLeaks
  BY DEF HostIsOldestMember, HostFlagAgrees, NoRoomLeaks
<1>5. SeatsAreEarned
  BY <1>2, MaxPlayersAssumption DEF SeatsAreEarned
<1> QED BY <1>1, <1>3, <1>4, <1>5 DEF IInv

\* A step that touches no room and takes no seat's socket, handshake or join.
LEMMA SessionStep ==
    ASSUME IInv, UNCHANGED <<roomVars, inRoom>>,
           sock' \in [Conns -> {"idle", "open", "closing", "closed"}],
           handshaked' \in [Conns -> BOOLEAN],
           kicking' \subseteq Conns, stopping' = stopping,
           \A p \in Conns : Receives(p) => Receives(p)',
           \A p \in Conns : handshaked[p] => handshaked'[p]
    PROVE  IInv'
<1>1. TypeOK'
  BY DEF IInv, TypeOK, roomVars
<1>2. MembershipAgrees'
  BY DEF IInv, MembershipAgrees, Members, roomVars
<1>3. HostIsOldestMember' /\ HostFlagAgrees'
  BY DEF IInv, HostIsOldestMember, HostFlagAgrees, roomVars
<1>4. NoRoomLeaks'
  BY DEF IInv, NoRoomLeaks, roomVars
<1>5. SeatsAreEarned'
  BY DEF IInv, SeatsAreEarned, roomVars
<1> QED BY <1>1, <1>2, <1>3, <1>4, <1>5 DEF IInv

\* Entering a room: what the two ways of joining have in common.
LEMMA BindStep ==
    ASSUME IInv, NEW p \in Conns, NEW c \in Rooms, MayJoin(p),
           Len(conns[c]) < MaxPlayers,
           rooms' = rooms \cup {c},
           hostId' = [hostId EXCEPT ![c] = IF c \in rooms THEN @ ELSE p],
           ticking' = [ticking EXCEPT ![c] = IF c \in rooms THEN @ ELSE TRUE],
           Bind(c, p, hostId'[c]),
           UNCHANGED <<sock, handshaked, kicking, stopping>>
    PROVE  IInv'
<1> DEFINE old == conns[c]
           new == MapSet(old, p)
<1>1. /\ conns' = [conns EXCEPT ![c] = new]
      /\ playerRoom' = [playerRoom EXCEPT ![p] = c]
      /\ players' = [players EXCEPT ![c] = @ \cup {p}]
      /\ flagged' = [flagged EXCEPT ![c] = IF p = hostId'[c] THEN @ \cup {p} ELSE @ \ {p}]
      /\ inRoom' = [inRoom EXCEPT ![p] = TRUE]
  BY DEF Bind
<1>2. TypeOK
  BY DEF IInv
<1>3. old \in Seq(Conns) /\ Len(old) \in Nat
  BY <1>2, LenProperties DEF TypeOK
<1>4. playerRoom[p] = NoRoom /\ \A d \in Rooms : p \notin Members(d)
  BY NoneAssumption DEF IInv, SeatsAreEarned, MayJoin, MembershipAgrees
<1>5. p \notin ToSet(old) /\ Distinct(old)
  BY <1>4 DEF IInv, MembershipAgrees, Members, Distinct
<1>6. /\ new \in Seq(Conns)
      /\ Len(new) = Len(old) + 1
      /\ ToSet(new) = ToSet(old) \cup {p}
      /\ Distinct(new)
      /\ new # <<>>
      /\ Head(new) = IF old = <<>> THEN p ELSE Head(old)
  BY <1>3, <1>5, MapSetNew
<1> HIDE DEF new
<1>7. /\ conns'[c] = new
      /\ \A d \in Rooms \ {c} : conns'[d] = conns[d]
  BY <1>1, <1>2 DEF TypeOK
<1>8. TypeOK'
  BY <1>1, <1>2, <1>6 DEF TypeOK
<1>9. MembershipAgrees'
  <2>1. \A d \in Rooms : Members(d)' = IF d = c THEN Members(d) \cup {p} ELSE Members(d)
    BY <1>6, <1>7 DEF Members
  <2>2. ASSUME NEW d \in Rooms, NEW q \in Conns
        PROVE  playerRoom'[q] = d <=> q \in Members(d)'
    BY <2>1, <1>1, <1>2, <1>4 DEF IInv, MembershipAgrees, TypeOK
  <2>3. ASSUME NEW d \in Rooms PROVE players'[d] = Members(d)'
    BY <2>1, <1>1, <1>2 DEF IInv, MembershipAgrees, TypeOK
  <2>4. ASSUME NEW d \in Rooms PROVE Distinct(conns'[d])
    BY <1>6, <1>7 DEF IInv, MembershipAgrees, Distinct
  <2> QED BY <2>2, <2>3, <2>4 DEF MembershipAgrees, Distinct
<1>10. c \notin rooms => old = <<>> /\ flagged[c] = {}
  BY DEF IInv, NoRoomLeaks
<1>11. c \in rooms => old # <<>> /\ hostId[c] = Head(old) /\ flagged[c] = {hostId[c]}
  BY DEF IInv, HostIsOldestMember, HostFlagAgrees
<1>12. HostIsOldestMember'
  <2>1. ASSUME NEW d \in rooms' PROVE conns'[d] # <<>> /\ hostId'[d] = Head(conns'[d])
    <3>1. CASE d = c
      BY <3>1, <1>6, <1>7, <1>10, <1>11, <1>2 DEF TypeOK
    <3>2. CASE d # c
      BY <3>2, <2>1, <1>7, <1>2 DEF TypeOK, IInv, HostIsOldestMember
    <3> QED BY <3>1, <3>2
  <2> QED BY <2>1 DEF HostIsOldestMember
<1>13. HostFlagAgrees'
  <2>1. ASSUME NEW d \in rooms' PROVE flagged'[d] = {hostId'[d]}
    <3>1. CASE d = c
      <4>1. CASE c \in rooms
        <5>1. hostId[c] # p
          <6>1. Head(old) \in ToSet(old)
            BY <4>1, <1>3, <1>11, HeadTailProperties, EmptySeq, LenProperties DEF ToSet
          <6> QED BY <6>1, <4>1, <1>5, <1>11
        <5> QED BY <5>1, <4>1, <3>1, <1>1, <1>2, <1>11 DEF TypeOK
      <4>2. CASE c \notin rooms
        BY <4>2, <3>1, <1>1, <1>2, <1>10 DEF TypeOK
      <4> QED BY <4>1, <4>2
    <3>2. CASE d # c
      BY <3>2, <2>1, <1>1, <1>2 DEF TypeOK, IInv, HostFlagAgrees
    <3> QED BY <3>1, <3>2
  <2> QED BY <2>1 DEF HostFlagAgrees
<1>14. NoRoomLeaks'
  BY <1>1, <1>2, <1>7 DEF IInv, NoRoomLeaks, TypeOK
<1>15. SeatsAreEarned'
  <2>1. ASSUME NEW q \in Conns, playerRoom'[q] # NoRoom
        PROVE  Receives(q)' /\ handshaked'[q] /\ inRoom'[q]
    BY <2>1, <1>1, <1>2 DEF IInv, SeatsAreEarned, MayJoin, Receives, TypeOK
  <2>2. ASSUME NEW d \in Rooms PROVE Len(conns'[d]) <= MaxPlayers
    BY <1>3, <1>6, <1>7, MaxPlayersAssumption DEF IInv, SeatsAreEarned
  <2> QED BY <2>1, <2>2 DEF SeatsAreEarned
<1> QED BY <1>8, <1>9, <1>12, <1>13, <1>14, <1>15 DEF IInv

\* Leaving: removePlayer, whoever calls it and whatever it does to the socket
\* of the player who leaves.
LEMMA RemoveStep ==
    ASSUME IInv, NEW p \in Conns, RemovePlayer(p),
           sock' \in [Conns -> {"idle", "open", "closing", "closed"}],
           \A q \in Conns \ {p} : sock'[q] = sock[q],
           kicking' \subseteq Conns,
           UNCHANGED <<handshaked, inRoom, stopping>>
    PROVE  IInv'
<1>1. TypeOK
  BY DEF IInv
<1>2. playerRoom' = [playerRoom EXCEPT ![p] = NoRoom]
  BY DEF RemovePlayer
<1>3. SeatsAreEarned' <=> \A d \in Rooms : Len(conns'[d]) <= MaxPlayers
  BY <1>1, <1>2 DEF IInv, SeatsAreEarned, Receives, TypeOK
<1>4. CASE playerRoom[p] \notin rooms
  <2>1. UNCHANGED <<rooms, conns, hostId, players, flagged, ticking>>
    BY <1>4 DEF RemovePlayer
  <2>2. playerRoom[p] = NoRoom
    <3>1. \A c \in Rooms \ rooms : Members(c) = {}
      BY EmptySeq DEF IInv, NoRoomLeaks, Members, ToSet
    <3> QED BY <3>1, <1>4, <1>1 DEF IInv, MembershipAgrees, TypeOK
  <2>3. playerRoom' = playerRoom
    BY <2>2, <1>2, <1>1 DEF TypeOK
  <2> QED BY <2>1, <2>3, <1>1, <1>3
          DEF IInv, TypeOK, MembershipAgrees, Members, HostIsOldestMember,
              HostFlagAgrees, NoRoomLeaks, SeatsAreEarned
<1>5. CASE playerRoom[p] \in rooms
  <2> DEFINE c == playerRoom[p]
             old == conns[c]
             left == MapDelete(old, p)
             stays == players[c] \ {p}
             reassign == p = hostId[c] /\ left # <<>>
  <2>1. c \in rooms /\ c \in Rooms /\ rooms \subseteq Rooms
    BY <1>5, <1>1 DEF TypeOK
  <2>2. RoomRemovePlayer(c, p)
    BY <1>5 DEF RemovePlayer
  <2> HIDE DEF c
  <2>3. /\ conns' = [conns EXCEPT ![c] = left]
        /\ players' = [players EXCEPT ![c] = stays]
        /\ flagged' = [flagged EXCEPT ![c] =
                          IF reassign THEN stays \cap {Head(left)} ELSE @ \ {p}]
        /\ hostId' = [hostId EXCEPT ![c] =
                          CASE left = <<>> -> NoConn
                            [] reassign    -> Head(left)
                            [] OTHER       -> @]
        /\ ticking' = [ticking EXCEPT ![c] = @ /\ left # <<>>]
        /\ rooms' = IF left = <<>> THEN rooms \ {c} ELSE rooms
    BY <2>2 DEF RoomRemovePlayer, Heir, SetHost, TicksAfter, DropPlayer
  <2>4. old \in Seq(Conns) /\ Distinct(old) /\ Len(old) \in Nat
    BY <1>1, <2>1, LenProperties DEF TypeOK, IInv, MembershipAgrees, Distinct
  <2>5. /\ left \in Seq(Conns)
        /\ Len(left) <= Len(old)
        /\ ToSet(left) = ToSet(old) \ {p}
        /\ Distinct(left)
        /\ old # <<>> /\ p # Head(old) => left # <<>> /\ Head(left) = Head(old)
    BY <2>4, MapDeleteKey
  <2> HIDE DEF left
  <2>6. left # <<>> => Head(left) \in ToSet(left)
    BY <2>5, HeadTailProperties, EmptySeq, LenProperties DEF ToSet
  <2>7. /\ old # <<>>
        /\ hostId[c] = Head(old)
        /\ flagged[c] = {hostId[c]}
        /\ players[c] = ToSet(old)
    BY <2>1 DEF IInv, HostIsOldestMember, HostFlagAgrees, MembershipAgrees, Members
  <2>8. /\ hostId'[c] = IF left = <<>> THEN NoConn ELSE Head(left)
        /\ flagged'[c] = IF left = <<>> THEN {} ELSE {Head(left)}
        /\ ticking'[c] = (ticking[c] /\ left # <<>>)
        /\ players'[c] = ToSet(left)
        /\ conns'[c] = left
    <3>1. hostId'[c] = IF left = <<>> THEN NoConn ELSE Head(left)
      BY <2>1, <2>3, <2>5, <2>7, <1>1 DEF TypeOK
    <3>2. stays = ToSet(left)
      BY <2>5, <2>7
    <3>3. CASE left = <<>>
      <4>1. p = hostId[c] /\ ~reassign
        BY <3>3, <2>5, <2>7
      <4>2. flagged'[c] = flagged[c] \ {p}
        BY <4>1, <2>1, <2>3, <1>1 DEF TypeOK
      <4> QED BY <3>1, <3>2, <3>3, <4>1, <4>2, <2>1, <2>3, <2>7, <1>1 DEF TypeOK
    <3>4. CASE left # <<>>
      <4>1. flagged'[c] = {Head(left)}
        <5>1. CASE p = hostId[c]
          BY <5>1, <3>2, <3>4, <2>1, <2>3, <2>6, <1>1 DEF TypeOK
        <5>2. CASE p # hostId[c]
          <6>1. flagged'[c] = flagged[c] \ {p}
            BY <5>2, <2>1, <2>3, <1>1 DEF TypeOK
          <6> QED BY <6>1, <5>2, <2>5, <2>7
        <5> QED BY <5>1, <5>2
      <4> QED BY <3>1, <3>2, <3>4, <4>1, <2>1, <2>3, <1>1 DEF TypeOK
    <3> QED BY <3>3, <3>4
  <2>9. \A d \in Rooms \ {c} :
            /\ conns'[d] = conns[d] /\ hostId'[d] = hostId[d]
            /\ players'[d] = players[d] /\ flagged'[d] = flagged[d]
            /\ ticking'[d] = ticking[d]
            /\ d \in rooms' <=> d \in rooms
    BY <2>3, <1>1 DEF TypeOK
  <2>10. c \in rooms' <=> left # <<>>
    BY <2>1, <2>3
  <2>11. TypeOK'
    <3>1. left # <<>> => Head(left) \in Conns
      BY <2>5, HeadTailProperties
    <3>2. hostId' \in [Rooms -> Conns \cup {NoConn}]
      BY <3>1, <2>3, <2>8, <1>1 DEF TypeOK
    <3>3. stays \subseteq Conns
      BY <1>1, <2>1 DEF TypeOK
    <3>4. /\ players' \in [Rooms -> SUBSET Conns]
          /\ flagged' \in [Rooms -> SUBSET Conns]
          /\ ticking' \in [Rooms -> BOOLEAN]
      BY <3>3, <2>1, <2>3, <1>1 DEF TypeOK
    <3>5. /\ playerRoom' \in [Conns -> Rooms \cup {NoRoom}]
          /\ conns' \in [Rooms -> Seq(Conns)]
          /\ rooms' \subseteq Rooms
      BY <1>2, <2>1, <2>3, <2>5, <1>1 DEF TypeOK
    <3> QED BY <3>2, <3>4, <3>5, <1>1 DEF TypeOK
  <2>12. MembershipAgrees'
    <3>1. \A d \in Rooms : Members(d)' = IF d = c THEN Members(d) \ {p} ELSE Members(d)
      BY <2>5, <2>8, <2>9 DEF Members
    <3>2. ASSUME NEW d \in Rooms, NEW q \in Conns
          PROVE  playerRoom'[q] = d <=> q \in Members(d)'
      <4>1. playerRoom[q] = d <=> q \in Members(d)
        BY DEF IInv, MembershipAgrees
      <4>2. CASE q = p
        <5>1. playerRoom'[p] = NoRoom /\ NoRoom # d
          BY <1>1, <1>2, NoneAssumption DEF TypeOK
        <5>2. p \notin Members(d)'
          BY <3>1, <4>1, <4>2 DEF c
        <5> QED BY <4>2, <5>1, <5>2
      <4>3. CASE q # p
        BY <4>1, <4>3, <3>1, <1>1, <1>2 DEF TypeOK
      <4> QED BY <4>2, <4>3
    <3>3. ASSUME NEW d \in Rooms PROVE players'[d] = Members(d)'
      BY <2>8, <2>9 DEF IInv, MembershipAgrees, Members
    <3>4. ASSUME NEW d \in Rooms PROVE Distinct(conns'[d])
      BY <2>5, <2>8, <2>9 DEF IInv, MembershipAgrees, Distinct
    <3> QED BY <3>2, <3>3, <3>4 DEF MembershipAgrees, Distinct
  <2>13. HostIsOldestMember' /\ HostFlagAgrees'
    <3>1. ASSUME NEW d \in rooms'
          PROVE  conns'[d] # <<>> /\ hostId'[d] = Head(conns'[d])
                 /\ flagged'[d] = {hostId'[d]}
      <4>1. CASE d = c
        BY <4>1, <3>1, <2>8, <2>10
      <4>2. CASE d # c
        BY <4>2, <3>1, <2>9, <2>11 DEF IInv, HostIsOldestMember, HostFlagAgrees, TypeOK
      <4> QED BY <4>1, <4>2
    <3> QED BY <3>1 DEF HostIsOldestMember, HostFlagAgrees
  <2>14. NoRoomLeaks'
    <3>1. ASSUME NEW d \in Rooms \ rooms'
          PROVE  conns'[d] = <<>> /\ players'[d] = {} /\ flagged'[d] = {} /\ ~ticking'[d]
      <4>1. CASE d = c
        <5>1. ToSet(<<>>) = {}
          BY EmptySeq DEF ToSet
        <5> QED BY <5>1, <4>1, <3>1, <2>8, <2>10
      <4>2. CASE d # c
        BY <4>2, <3>1, <2>9 DEF IInv, NoRoomLeaks
      <4> QED BY <4>1, <4>2
    <3>2. ASSUME ~stopping', NEW d \in rooms' PROVE ticking'[d]
      BY <3>2, <2>1, <2>8, <2>9, <2>10, <2>11 DEF IInv, NoRoomLeaks, TypeOK
    <3> QED BY <3>1, <3>2 DEF NoRoomLeaks
  <2>15. SeatsAreEarned'
    <3>1. ASSUME NEW d \in Rooms PROVE Len(conns'[d]) <= MaxPlayers
      <4>1. Len(conns[d]) <= MaxPlayers
        BY DEF IInv, SeatsAreEarned
      <4>2. CASE d = c
        <5>1. Len(left) \in Nat
          BY <2>5, LenProperties
        <5> QED BY <5>1, <4>1, <4>2, <2>4, <2>5, <2>8, MaxPlayersAssumption
      <4>3. CASE d # c
        BY <4>1, <4>3, <2>9
      <4> QED BY <4>2, <4>3
    <3> QED BY <3>1, <1>3
  <2> QED BY <2>11, <2>12, <2>13, <2>14, <2>15 DEF IInv
<1> QED BY <1>4, <1>5

\* Every handler keeps the invariant.
LEMMA NextIInv == IInv /\ [Next]_vars => IInv'
<1> SUFFICES ASSUME IInv, [Next]_vars PROVE IInv'
  OBVIOUS
<1>1. TypeOK
  BY DEF IInv
<1>2. ASSUME NEW p \in Conns, Connect(p) PROVE IInv'
  BY <1>1, <1>2, SessionStep DEF Connect, Receives, TypeOK, roomVars
<1>3. ASSUME NEW p \in Conns, HandshakeAccepted(p) PROVE IInv'
  BY <1>1, <1>3, SessionStep DEF HandshakeAccepted, Receives, TypeOK, roomVars
<1>4. ASSUME NEW p \in Conns, HandshakeRefused(p) PROVE IInv'
  BY <1>1, <1>4, SessionStep DEF HandshakeRefused, Close, Receives, TypeOK, roomVars
<1>5. ASSUME NEW p \in Conns, PeerCloses(p) PROVE IInv'
  BY <1>1, <1>5, SessionStep DEF PeerCloses, Close, Receives, TypeOK, roomVars
<1>6. ASSUME NEW p \in Conns, NEW c \in Rooms, JoinCreates(p, c) PROVE IInv'
  <2>1. Len(conns[c]) < MaxPlayers
    BY <1>6, EmptySeq, MaxPlayersAssumption DEF JoinCreates, IInv, NoRoomLeaks
  <2>2. hostId'[c] = p
    BY <1>1, <1>6 DEF JoinCreates, TypeOK
  <2> QED BY <1>6, <2>1, <2>2, BindStep DEF JoinCreates
<1>7. ASSUME NEW p \in Conns, NEW c \in Rooms, JoinExisting(p, c) PROVE IInv'
  <2>1. Len(conns[c]) < MaxPlayers
    <3>1. Len(conns[c]) \in Nat
      BY <1>1, LenProperties DEF TypeOK
    <3> QED BY <3>1, <1>7, MaxPlayersAssumption DEF JoinExisting, IsFull
  <2>2. /\ rooms' = rooms \cup {c}
        /\ hostId' = [hostId EXCEPT ![c] = @]
        /\ ticking' = [ticking EXCEPT ![c] = @]
        /\ Bind(c, p, hostId'[c])
    BY <1>1, <1>7 DEF JoinExisting, TypeOK
  <2> QED BY <1>7, <2>1, <2>2, BindStep DEF JoinExisting
<1>8. ASSUME NEW p \in Conns, SocketClosed(p) PROVE IInv'
  <2>1. /\ sock' \in [Conns -> {"idle", "open", "closing", "closed"}]
        /\ \A q \in Conns \ {p} : sock'[q] = sock[q]
    BY <1>1, <1>8 DEF SocketClosed, TypeOK
  <2>2. CASE handshaked[p]
    BY <1>1, <1>8, <2>1, <2>2, RemoveStep DEF SocketClosed, TypeOK
  <2>3. CASE ~handshaked[p]
    <3>1. playerRoom[p] = NoRoom
      BY <2>3 DEF IInv, SeatsAreEarned
    <3>2. UNCHANGED <<roomVars, handshaked, inRoom, kicking, stopping>>
      BY <1>8, <2>3 DEF SocketClosed
    <3>3. SeatsAreEarned'
      <4>1. ASSUME NEW q \in Conns, playerRoom'[q] # NoRoom
            PROVE  Receives(q)' /\ handshaked'[q] /\ inRoom'[q]
        BY <4>1, <3>1, <3>2, <2>1 DEF IInv, SeatsAreEarned, Receives, roomVars
      <4> QED BY <4>1, <3>2 DEF IInv, SeatsAreEarned, roomVars
    <3> QED BY <3>2, <3>3, <2>1
            DEF IInv, TypeOK, MembershipAgrees, Members, HostIsOldestMember,
                HostFlagAgrees, NoRoomLeaks, roomVars
  <2> QED BY <2>2, <2>3
<1>9. ASSUME NEW p \in Conns, KickRequested(p) PROVE IInv'
  BY <1>1, <1>9, SessionStep DEF KickRequested, Receives, TypeOK, roomVars, sessionVars
<1>10. ASSUME NEW p \in Conns, KickCompletes(p) PROVE IInv'
  <2>1. kicking' \subseteq Conns /\ UNCHANGED <<handshaked, inRoom, stopping>>
    BY <1>1, <1>10 DEF KickCompletes, TypeOK
  <2>2. CASE playerRoom[p] \in rooms
    BY <1>1, <1>10, <2>1, <2>2, RemoveStep DEF KickCompletes, Close, TypeOK
  <2>3. CASE playerRoom[p] \notin rooms
    BY <1>1, <1>10, <2>1, <2>3, SessionStep DEF KickCompletes, Receives, TypeOK, roomVars
  <2> QED BY <2>2, <2>3
<1>11. ASSUME Shutdown PROVE IInv'
  <2>1. /\ UNCHANGED <<sock, handshaked, inRoom, rooms, playerRoom, conns, hostId,
                        players, flagged, kicking>>
        /\ stopping' = TRUE
        /\ ticking' = [c \in Rooms |-> c \notin rooms /\ ticking[c]]
    BY <1>11 DEF Shutdown, sessionVars
  <2> QED BY <2>1
          DEF IInv, TypeOK, MembershipAgrees, Members, HostIsOldestMember,
              HostFlagAgrees, NoRoomLeaks, SeatsAreEarned, Receives
<1>12. CASE UNCHANGED vars
  BY <1>12
     DEF vars, sessionVars, roomVars, IInv, TypeOK, MembershipAgrees, Members,
         HostIsOldestMember, HostFlagAgrees, NoRoomLeaks, SeatsAreEarned, Receives
<1> QED
  BY <1>2, <1>3, <1>4, <1>5, <1>6, <1>7, <1>8, <1>9, <1>10, <1>11, <1>12 DEF Next

\* Every reachable state satisfies the inductive invariant.
THEOREM Invariance == Spec => []IInv
<1>1. Init => IInv
  BY InitIInv
<1>2. IInv /\ [Next]_vars => IInv'
  BY NextIInv
<1> QED BY <1>1, <1>2, PTL DEF Spec

\* Each variable keeps its type, for any numbers of connections and codes.
THEOREM TypeCorrect == Spec => []TypeOK
BY Invariance, PTL DEF IInv

\* playerRoom, connections and the PlayerState table never disagree about
\* who is in a room.
THEOREM MembershipConsistent == Spec => []MembershipAgrees
BY Invariance, PTL DEF IInv

\* Every live room has a host, the senior among its members.
THEOREM HostAlwaysPresent == Spec => []HostIsOldestMember
BY Invariance, PTL DEF IInv

\* The broadcast isHost flags single out exactly that host.
THEOREM HostFlagUnique == Spec => []HostFlagAgrees
BY Invariance, PTL DEF IInv

\* Destroyed rooms hold no member, no player state and no timer.
THEOREM RoomsNeverLeak == Spec => []NoRoomLeaks
BY Invariance, PTL DEF IInv

\* Seats belong to handshaken, joined, unclosed sessions, at most maxPlayers.
THEOREM SeatsEarned == Spec => []SeatsAreEarned
BY Invariance, PTL DEF IInv

\* No session is ever moved between rooms or seated twice.
THEOREM OneRoom == Spec => OneRoomPerSession
<1>1. ASSUME IInv, [Next]_vars, NEW p \in Conns, inRoom[p]
      PROVE  playerRoom'[p] \in {playerRoom[p], NoRoom}
  <2>1. TypeOK
    BY <1>1 DEF IInv
  <2>2. ASSUME NEW q \in Conns, NEW c \in Rooms, JoinCreates(q, c) \/ JoinExisting(q, c)
        PROVE  playerRoom'[p] = playerRoom[p]
    BY <2>1, <2>2, <1>1 DEF JoinCreates, JoinExisting, Bind, MayJoin, TypeOK
  <2>3. ASSUME NEW q \in Conns, SocketClosed(q) \/ KickCompletes(q)
        PROVE  playerRoom'[p] \in {playerRoom[p], NoRoom}
    <3>1. playerRoom' = playerRoom \/ playerRoom' = [playerRoom EXCEPT ![q] = NoRoom]
      BY <2>3 DEF SocketClosed, KickCompletes, RemovePlayer, roomVars
    <3> QED BY <3>1, <2>1 DEF TypeOK
  <2>4. ASSUME NEW q \in Conns,
               Connect(q) \/ HandshakeAccepted(q) \/ HandshakeRefused(q)
                 \/ PeerCloses(q) \/ KickRequested(q)
        PROVE  playerRoom' = playerRoom
    BY <2>4 DEF Connect, HandshakeAccepted, HandshakeRefused, PeerCloses,
                KickRequested, roomVars
  <2>5. Shutdown \/ UNCHANGED vars => playerRoom' = playerRoom
    BY DEF Shutdown, vars, roomVars
  <2> QED BY <1>1, <2>2, <2>3, <2>4, <2>5 DEF Next
<1>2. IInv /\ [Next]_vars =>
        [\A p \in Conns : inRoom[p] => playerRoom'[p] \in {playerRoom[p], NoRoom}]_vars
  BY <1>1
<1> QED BY <1>2, Invariance, PTL DEF Spec, OneRoomPerSession

\* A room with the same members in the same order under the same host; one that
\* somebody enters; one that somebody leaves.
LEMMA SeniorityStep ==
    ASSUME IInv, NEW c \in Rooms,
           \/ conns'[c] = conns[c] /\ hostId'[c] = hostId[c]
           \/ \E p \in Conns : /\ playerRoom[p] # c
                               /\ conns'[c] = MapSet(conns[c], p)
                               /\ hostId'[c] = hostId[c]
           \/ \E p \in Conns : /\ conns'[c] = MapDelete(conns[c], p)
                               /\ hostId'[c] # hostId[c] => hostId[c] = p
    PROVE  /\ \A p \in Members(c) \cap Members(c)', q \in Members(c)' :
                 q \notin Members(c) \/ ComesBefore(conns[c], p, q)
                     => ComesBefore(conns'[c], p, q)
           /\ hostId'[c] # hostId[c] => hostId[c] \notin Members(c)'
<1>1. conns[c] \in Seq(Conns) /\ Distinct(conns[c])
  BY DEF IInv, TypeOK, MembershipAgrees, Distinct
<1>2. CASE conns'[c] = conns[c] /\ hostId'[c] = hostId[c]
  BY <1>2 DEF Members
<1>3. ASSUME NEW p \in Conns, playerRoom[p] # c, conns'[c] = MapSet(conns[c], p),
             hostId'[c] = hostId[c]
      PROVE  \A x \in Members(c) \cap Members(c)', y \in Members(c)' :
                 y \notin Members(c) \/ ComesBefore(conns[c], x, y)
                     => ComesBefore(conns'[c], x, y)
  <2>1. p \notin ToSet(conns[c])
    BY <1>3 DEF IInv, MembershipAgrees, Members
  <2>2. /\ ToSet(conns'[c]) = ToSet(conns[c]) \cup {p}
        /\ \A x, y : ComesBefore(conns[c], x, y) => ComesBefore(conns'[c], x, y)
        /\ \A x \in ToSet(conns[c]) : ComesBefore(conns'[c], x, p)
    BY <1>1, <1>3, <2>1, MapSetNew, MapSetOrder
  <2> QED BY <2>2 DEF Members
<1>4. ASSUME NEW p \in Conns, conns'[c] = MapDelete(conns[c], p),
             hostId'[c] # hostId[c] => hostId[c] = p
      PROVE  /\ \A x \in Members(c) \cap Members(c)', y \in Members(c)' :
                    y \notin Members(c) \/ ComesBefore(conns[c], x, y)
                        => ComesBefore(conns'[c], x, y)
             /\ hostId'[c] # hostId[c] => hostId[c] \notin Members(c)'
  <2>1. Members(c)' = Members(c) \ {p}
    BY <1>1, <1>4, MapDeleteKey DEF Members
  <2>2. ASSUME NEW x, NEW y, x # p, y # p, ComesBefore(conns[c], x, y)
        PROVE  ComesBefore(conns'[c], x, y)
    BY <1>1, <1>4, <2>2, MapDeleteOrder
  <2> QED BY <1>4, <2>1, <2>2
<1> QED BY <1>2, <1>3, <1>4

\* Whoever stays in a room keeps its seniority, and a host that stays its role.
THEOREM SeniorityHolds == Spec => SeniorityKept
<1> DEFINE Kept(c) ==
               /\ \A p \in Members(c) \cap Members(c)', q \in Members(c)' :
                     q \notin Members(c) \/ ComesBefore(conns[c], p, q)
                         => ComesBefore(conns'[c], p, q)
               /\ hostId'[c] # hostId[c] => hostId[c] \notin Members(c)'
<1>1. ASSUME IInv, [Next]_vars, NEW c \in rooms \cap rooms' PROVE Kept(c)
  <2>1. TypeOK /\ c \in Rooms
    BY <1>1 DEF IInv, TypeOK
  <2>2. CASE conns'[c] = conns[c] /\ hostId'[c] = hostId[c]
    BY <1>1, <2>1, <2>2, SeniorityStep
  <2>3. ASSUME NEW p \in Conns, NEW d \in Rooms, JoinCreates(p, d) PROVE Kept(c)
    <3>1. c # d
      BY <1>1, <2>3 DEF JoinCreates
    <3>2. conns'[c] = conns[c] /\ hostId'[c] = hostId[c]
      BY <2>1, <2>3, <3>1 DEF JoinCreates, Bind, TypeOK
    <3> QED BY <2>2, <3>2
  <2>4. ASSUME NEW p \in Conns, NEW d \in Rooms, JoinExisting(p, d) PROVE Kept(c)
    <3>1. /\ conns' = [conns EXCEPT ![d] = MapSet(@, p)] /\ hostId' = hostId
          /\ ~inRoom[p]
      BY <2>4 DEF JoinExisting, Bind, MayJoin
    <3>2. playerRoom[p] = NoRoom /\ NoRoom # c
      BY <1>1, <2>1, <3>1, NoneAssumption DEF IInv, SeatsAreEarned
    <3>3. CASE c = d
      <4>1. conns'[c] = MapSet(conns[c], p) /\ hostId'[c] = hostId[c]
        BY <2>1, <3>1, <3>3 DEF TypeOK
      <4> QED BY <1>1, <2>1, <3>2, <4>1, SeniorityStep
    <3>4. CASE c # d
      BY <2>1, <2>2, <3>1, <3>4 DEF TypeOK
    <3> QED BY <3>3, <3>4
  <2>5. ASSUME NEW p \in Conns, SocketClosed(p) \/ KickCompletes(p) PROVE Kept(c)
    <3>1. UNCHANGED <<conns, hostId>> \/ RoomRemovePlayer(playerRoom[p], p)
      BY <2>5 DEF SocketClosed, KickCompletes, RemovePlayer, roomVars
    <3>2. CASE UNCHANGED <<conns, hostId>>
      BY <2>2, <3>2
    <3>3. CASE RoomRemovePlayer(playerRoom[p], p)
      <4> DEFINE left == MapDelete(conns[playerRoom[p]], p)
      <4>1. /\ conns' = [conns EXCEPT ![playerRoom[p]] = left]
            /\ hostId' = [hostId EXCEPT ![playerRoom[p]] =
                  CASE left = <<>> -> NoConn
                    [] p = @ /\ left # <<>> -> Heir(left)
                    [] OTHER -> @]
            /\ rooms' = IF left = <<>> THEN rooms \ {playerRoom[p]} ELSE rooms
        BY <2>1, <3>3 DEF RoomRemovePlayer, TypeOK
      <4> HIDE DEF left
      <4>2. CASE c = playerRoom[p]
        <5>1. left # <<>>
          BY <1>1, <4>1, <4>2
        <5>2. conns'[c] = left /\ (hostId'[c] # hostId[c] => hostId[c] = p)
          BY <2>1, <4>1, <4>2, <5>1 DEF TypeOK
        <5>3. conns'[c] = MapDelete(conns[c], p)
          BY <4>2, <5>2 DEF left
        <5> QED BY <1>1, <2>1, <5>2, <5>3, SeniorityStep
      <4>3. CASE c # playerRoom[p]
        BY <2>1, <2>2, <4>1, <4>3 DEF TypeOK
      <4> QED BY <4>2, <4>3
    <3> QED BY <3>1, <3>2, <3>3
  <2>6. ASSUME NEW p \in Conns,
               Connect(p) \/ HandshakeAccepted(p) \/ HandshakeRefused(p)
                 \/ PeerCloses(p) \/ KickRequested(p)
        PROVE  UNCHANGED <<conns, hostId>>
    BY <2>6 DEF Connect, HandshakeAccepted, HandshakeRefused, PeerCloses,
                KickRequested, roomVars
  <2>7. Shutdown \/ UNCHANGED vars => UNCHANGED <<conns, hostId>>
    BY DEF Shutdown, vars, roomVars
  <2> QED BY <1>1, <2>2, <2>3, <2>4, <2>5, <2>6, <2>7 DEF Next
<1>2. IInv /\ [Next]_vars => [\A c \in rooms \cap rooms' : Kept(c)]_vars
  BY <1>1
<1> QED BY <1>2, Invariance, PTL DEF Spec, SeniorityKept
-------------------------------------------------------------------------------
(***************************************************************************)
(* RoomChannel.  What a client will show is a fold over the frames on      *)
(* their way to it, in their order.  The argument gets rid of the order:   *)
(* because no frame mentions a player behind its PLAYER_LEAVE, the table   *)
(* the client will have is what it has, plus everyone mentioned, minus     *)
(* everyone who left; and because a client that was named host is denied   *)
(* the role by no later frame, it will believe iff it believes or some     *)
(* frame says so.                                                          *)
(***************************************************************************)

EarlyTypes == {"HANDSHAKE_ACK", "JOIN_DENIED"}

LeftBy(m) == IF m.t = "PLAYER_LEAVE" THEN {m.playerId} ELSE {}

\* The frames that make their receiver r believe it is host, or that it is not.
Claims(r, m) ==
    \/ m.t = "JOIN_ACK" /\ m.isHost
    \/ m.t = "HOST_REASSIGN" /\ m.newHostId = r

Denies(r, m) ==
    \/ m.t = "JOIN_ACK" /\ ~m.isHost
    \/ m.t = "HOST_REASSIGN" /\ m.newHostId # r

\* The same of a line d of frames.
Mentioned(d)  == UNION {Mentions(d[i]) : i \in DOMAIN d}
Left(d)       == UNION {LeftBy(d[i]) : i \in DOMAIN d}
Early(d)      == \A i \in DOMAIN d : d[i].t \in EarlyTypes
Claimed(r, d) == \E i \in DOMAIN d : Claims(r, d[i])

Ordered(d) ==
    \A i, j \in DOMAIN d : i < j =>
        /\ d[j].t = "JOIN_ACK" => d[i].t \in EarlyTypes
        /\ LeftBy(d[i]) \cap Mentions(d[j]) = {}

\* r, which believes b, is denied the role by no frame behind a claim.
DenialsFirst(r, b, d) ==
    \A j \in DOMAIN d : Denies(r, d[j]) =>
        ~b /\ \A i \in DOMAIN d : i < j => ~Claims(r, d[i])

-------------------------------------------------------------------------------
(***************************************************************************)
(* A frame joins the line at its end and leaves it at its head.            *)
(***************************************************************************)

\* What is in a line after a frame is sent.
LEMMA SentFacts ==
    ASSUME NEW S, NEW d \in Seq(S), NEW m \in S, NEW r, NEW b
    PROVE  LET e == Append(d, m) IN
           /\ Mentioned(e) = Mentioned(d) \cup Mentions(m)
           /\ Left(e) = Left(d) \cup LeftBy(m)
           /\ Early(e) <=> Early(d) /\ m.t \in EarlyTypes
           /\ Claimed(r, e) <=> Claimed(r, d) \/ Claims(r, m)
           /\ /\ Ordered(d)
              /\ m.t = "JOIN_ACK" => Early(d)
              /\ Left(d) \cap Mentions(m) = {}
              => Ordered(e)
           /\ /\ DenialsFirst(r, b, d)
              /\ Denies(r, m) => ~b /\ ~Claimed(r, d)
              => DenialsFirst(r, b, e)
<1> DEFINE e == Append(d, m)
           n == Len(d) + 1
<1>1. /\ e \in Seq(S)
      /\ Len(e) = n
      /\ \A i \in 1..Len(d) : e[i] = d[i]
      /\ e[n] = m
  BY AppendProperties
<1>2. DOMAIN d = 1..Len(d) /\ DOMAIN e = 1..n /\ Len(d) \in Nat
  BY <1>1, LenProperties
<1> HIDE DEF e
<1>3. /\ DOMAIN e = DOMAIN d \cup {n}
      /\ n \notin DOMAIN d
      /\ \A i \in DOMAIN d : e[i] = d[i] /\ i < n
      /\ \A i \in DOMAIN d : ~(n < i)
      /\ ~(n < n)
      /\ e[n] = m
  BY <1>1, <1>2
<1> HIDE DEF n
<1>4. Mentioned(e) = Mentioned(d) \cup Mentions(m)
  BY <1>3 DEF Mentioned
<1>5. Left(e) = Left(d) \cup LeftBy(m)
  BY <1>3 DEF Left
<1>6. Early(e) <=> Early(d) /\ m.t \in EarlyTypes
  BY <1>3 DEF Early
<1>7. Claimed(r, e) <=> Claimed(r, d) \/ Claims(r, m)
  BY <1>3 DEF Claimed
<1>8. ASSUME Ordered(d), m.t = "JOIN_ACK" => Early(d), Left(d) \cap Mentions(m) = {}
      PROVE  Ordered(e)
  <2> SUFFICES ASSUME NEW i \in DOMAIN e, NEW j \in DOMAIN e, i < j
               PROVE  /\ e[j].t = "JOIN_ACK" => e[i].t \in EarlyTypes
                      /\ LeftBy(e[i]) \cap Mentions(e[j]) = {}
    BY DEF Ordered
  <2>1. i \in DOMAIN d
    BY <1>3
  <2>2. CASE j = n
    BY <1>8, <1>3, <2>1, <2>2 DEF Early, Left
  <2>3. CASE j # n
    BY <1>8, <1>3, <2>1, <2>3 DEF Ordered
  <2> QED BY <2>2, <2>3
<1>9. ASSUME DenialsFirst(r, b, d), Denies(r, m) => ~b /\ ~Claimed(r, d)
      PROVE  DenialsFirst(r, b, e)
  <2> SUFFICES ASSUME NEW j \in DOMAIN e, Denies(r, e[j])
               PROVE  ~b /\ \A i \in DOMAIN e : i < j => ~Claims(r, e[i])
    BY DEF DenialsFirst
  <2>1. CASE j = n
    BY <1>9, <1>3, <2>1 DEF Claimed
  <2>2. CASE j # n
    BY <1>9, <1>3, <2>2 DEF DenialsFirst
  <2> QED BY <2>1, <2>2
<1> QED BY <1>4, <1>5, <1>6, <1>7, <1>8, <1>9 DEF e

\* What is in a line after its first frame is handled.
LEMMA HandledFacts ==
    ASSUME NEW S, NEW d \in Seq(S), d # <<>>, NEW r, NEW b
    PROVE  LET h == Head(d)
               e == Tail(d)
           IN  /\ Mentioned(d) = Mentions(h) \cup Mentioned(e)
               /\ Left(d) = LeftBy(h) \cup Left(e)
               /\ Early(d) <=> h.t \in EarlyTypes /\ Early(e)
               /\ Claimed(r, d) <=> Claims(r, h) \/ Claimed(r, e)
               /\ Ordered(d) => Ordered(e) /\ LeftBy(h) \cap Mentioned(e) = {}
               /\ DenialsFirst(r, b, d) =>
                     /\ DenialsFirst(r, b, e)
                     /\ Claims(r, h) => DenialsFirst(r, TRUE, e)
                     /\ Denies(r, h) => ~b /\ DenialsFirst(r, FALSE, e)
<1> DEFINE h == Head(d)
           e == Tail(d)
<1>1. /\ h = d[1]
      /\ e \in Seq(S)
      /\ Len(e) = Len(d) - 1
      /\ \A i \in 1..Len(e) : e[i] = d[i + 1]
  BY HeadTailProperties
<1>2. /\ DOMAIN d = 1..Len(d) /\ DOMAIN e = 1..Len(e)
      /\ Len(d) \in Nat /\ Len(d) # 0
  BY <1>1, LenProperties, EmptySeq
<1> HIDE DEF h, e
<1>3. /\ 1 \in DOMAIN d /\ d[1] = h
      /\ \A i \in DOMAIN e : i + 1 \in DOMAIN d /\ d[i + 1] = e[i] /\ 1 < i + 1
      /\ \A i, j \in DOMAIN e : i < j => i + 1 < j + 1
      /\ \A k \in DOMAIN d : k = 1 \/ \E i \in DOMAIN e : k = i + 1
  <2>1. ASSUME NEW k \in DOMAIN d, k # 1 PROVE k - 1 \in DOMAIN e /\ k = (k - 1) + 1
    BY <1>1, <1>2, <2>1
  <2> QED BY <1>1, <1>2, <2>1
<1>4. Mentioned(d) = Mentions(h) \cup Mentioned(e)
  BY <1>3 DEF Mentioned
<1>5. Left(d) = LeftBy(h) \cup Left(e)
  BY <1>3 DEF Left
<1>6. Early(d) <=> h.t \in EarlyTypes /\ Early(e)
  BY <1>3 DEF Early
<1>7. Claimed(r, d) <=> Claims(r, h) \/ Claimed(r, e)
  BY <1>3 DEF Claimed
<1>8. Ordered(d) => Ordered(e) /\ LeftBy(h) \cap Mentioned(e) = {}
  <2> SUFFICES ASSUME Ordered(d) PROVE Ordered(e) /\ LeftBy(h) \cap Mentioned(e) = {}
    OBVIOUS
  <2>1. Ordered(e)
    BY <1>3 DEF Ordered
  <2>2. \A j \in DOMAIN e : LeftBy(h) \cap Mentions(e[j]) = {}
    BY <1>3 DEF Ordered
  <2> QED BY <2>1, <2>2 DEF Mentioned
<1>9. ASSUME DenialsFirst(r, b, d)
      PROVE  /\ DenialsFirst(r, b, e)
             /\ Claims(r, h) => DenialsFirst(r, TRUE, e)
             /\ Denies(r, h) => ~b /\ DenialsFirst(r, FALSE, e)
  BY <1>3, <1>9 DEF DenialsFirst
<1> QED BY <1>4, <1>5, <1>6, <1>7, <1>8, <1>9 DEF h, e

\* An empty line promises nothing.
LEMMA EmptyLine ==
    ASSUME NEW r, NEW b
    PROVE  /\ Mentioned(<<>>) = {} /\ Left(<<>>) = {}
           /\ Early(<<>>) /\ Ordered(<<>>) /\ DenialsFirst(r, b, <<>>)
           /\ ~Claimed(r, <<>>)
<1>1. DOMAIN <<>> = {}
  BY EmptySeq
<1> QED BY <1>1 DEF Mentioned, Left, Early, Ordered, DenialsFirst, Claimed

\* A line of answers to HANDSHAKE and of denials is about no room.
LEMMA EarlyFacts ==
    ASSUME NEW r, NEW d, Early(d)
    PROVE  Mentioned(d) = {} /\ Left(d) = {} /\ ~Claimed(r, d)
BY DEF Early, EarlyTypes, Mentioned, Mentions, Left, LeftBy, Claimed, Claims

\* What is sent is a frame, and sending keeps the lines' type.
LEMMA BroadcastType ==
    ASSUME NEW ch \in [Conns -> Seq(DownFrame)], NEW ps, NEW m \in DownFrame
    PROVE  Broadcast(ch, ps, m) \in [Conns -> Seq(DownFrame)]
<1>1. ASSUME NEW q \in Conns PROVE Append(ch[q], m) \in Seq(DownFrame)
  BY AppendProperties
<1> QED BY <1>1 DEF Broadcast

\* The frames the handlers build are frames.
LEMMA FrameTypes ==
    /\ HandshakeAck \in DownFrame /\ JoinDenied \in DownFrame
    /\ \A p \in Conns : /\ PlayerJoin(p) \in DownFrame
                        /\ PlayerLeave(p) \in DownFrame
                        /\ HostReassign(p) \in DownFrame
                        /\ Kick(p) \in DownFrame
    /\ \A host \in BOOLEAN, ps \in SUBSET Conns : JoinAck(host, ps) \in DownFrame
    /\ \A ps \in SUBSET Conns : StateUpdate(ps) \in DownFrame
BY DEF DownFrame, HandshakeAck, JoinDenied, PlayerJoin, PlayerLeave,
       HostReassign, Kick, JoinAck, StateUpdate

\* A frame that may be sent behind d leaves r's line in order.
LEMMA SentFrame ==
    ASSUME NEW r \in Conns, NEW d \in Seq(DownFrame), NEW m \in DownFrame,
           Ordered(d), DenialsFirst(r, believes[r], d),
           m.t = "JOIN_ACK" => Early(d),
           Left(d) \cap Mentions(m) = {},
           Denies(r, m) => ~believes[r] /\ ~Claimed(r, d)
    PROVE  LET e == Append(d, m) IN
           /\ Mentioned(e) = Mentioned(d) \cup Mentions(m)
           /\ Left(e) = Left(d) \cup LeftBy(m)
           /\ Claimed(r, e) <=> Claimed(r, d) \/ Claims(r, m)
           /\ Ordered(e) /\ DenialsFirst(r, believes[r], e)
<1> DEFINE e == Append(d, m)
           b == believes[r]
<1>1. /\ Mentioned(e) = Mentioned(d) \cup Mentions(m)
      /\ Left(e) = Left(d) \cup LeftBy(m)
      /\ Claimed(r, e) <=> Claimed(r, d) \/ Claims(r, m)
      /\ /\ Ordered(d)
         /\ m.t = "JOIN_ACK" => Early(d)
         /\ Left(d) \cap Mentions(m) = {}
         => Ordered(e)
      /\ /\ DenialsFirst(r, b, d)
         /\ Denies(r, m) => ~b /\ ~Claimed(r, d)
         => DenialsFirst(r, b, e)
  BY SentFacts
<1> HIDE DEF e
<1>2. Ordered(e) /\ DenialsFirst(r, believes[r], e)
  BY <1>1
<1> QED BY <1>1, <1>2 DEF e

-------------------------------------------------------------------------------
(***************************************************************************)
(* The inductive invariant: what the line d of frames to r, r's view and   *)
(* the server's rooms have to do with each other.                          *)
(*                                                                         *)
(* None of the three checked invariants is inductive.  They look at empty  *)
(* lines or at one line by itself; whether the next frame may be sent      *)
(* depends on the rooms, and what an empty line leaves behind depends on   *)
(* what was in it.  The last conjunct is CaughtUpViewIsExact, told of      *)
(* every moment and not only of the one when everything is handled.        *)
(***************************************************************************)
Seated(r) == playerRoom[r] # NoRoom

LineOK(r, d) ==
    /\ Ordered(d)
    /\ DenialsFirst(r, believes[r], d)
    /\ r \notin remotes[r]
    /\ ~inRoom[r] => remotes[r] = {} /\ ~believes[r] /\ Early(d)
    /\ \A x \in Left(d) : inRoom[x] /\ ~Seated(x)
    /\ Seated(r) /\ (believes[r] \/ Claimed(r, d)) => hostId[playerRoom[r]] = r
    /\ Seated(r) /\ sock[r] = "open" =>
          /\ Members(playerRoom[r]) \ {r} =
                 (remotes[r] \cup Mentioned(d)) \ (Left(d) \cup {r})
          /\ hostId[playerRoom[r]] = r => believes[r] \/ Claimed(r, d)

CInv ==
    /\ IInv
    /\ ChannelTypeOK
    /\ \A r \in Conns : LineOK(r, down[r])

\* The invariant holds before the first frame.
LEMMA ChannelInitCInv == ChannelInit => CInv
<1> SUFFICES ASSUME ChannelInit PROVE CInv
  OBVIOUS
<1>1. IInv /\ TypeOK
  BY InitIInv DEF ChannelInit, IInv
<1>2. ChannelTypeOK
  BY <1>1, EmptySeq DEF ChannelInit, ChannelTypeOK
<1>3. ASSUME NEW r \in Conns PROVE LineOK(r, down[r])
  BY EmptyLine DEF ChannelInit, Init, LineOK, Seated
<1> QED BY <1>1, <1>2, <1>3 DEF CInv

\* Members are seated in the room they are members of, and joined it.
LEMMA MembersAreSeated ==
    ASSUME IInv, NEW c \in Rooms, NEW r \in Members(c)
    PROVE  /\ r \in Conns /\ playerRoom[r] = c /\ Seated(r) /\ inRoom[r]
           /\ c \in rooms
<1>1. r \in Conns
  <2>1. conns[c] \in Seq(Conns)
    BY DEF IInv, TypeOK
  <2> QED BY <2>1, ElementOfSeq, LenProperties DEF Members, ToSet
<1>2. playerRoom[r] = c
  BY <1>1 DEF IInv, MembershipAgrees
<1>3. Seated(r) /\ inRoom[r]
  BY <1>1, <1>2, NoneAssumption DEF Seated, IInv, SeatsAreEarned
<1>4. c \in rooms
  BY EmptySeq DEF IInv, NoRoomLeaks, Members, ToSet
<1> QED BY <1>1, <1>2, <1>3, <1>4

\* The frames that bring no news about who is in r's room.
NoNews(r, m) ==
    \/ m.t \in EarlyTypes
    \/ inRoom[r] /\ m.t = "KICK"
    \/ inRoom[r] /\ Seated(r) /\ m.t = "STATE_UPDATE"
          /\ m.players \subseteq Members(playerRoom[r])

\* Such a frame may be sent at any time.
LEMMA NoNewsKeepsLine ==
    ASSUME IInv, NEW r \in Conns, NEW d \in Seq(DownFrame), NEW m \in DownFrame,
           LineOK(r, d), NoNews(r, m)
    PROVE  LineOK(r, Append(d, m))
<1> DEFINE e == Append(d, m)
<1>1. /\ LeftBy(m) = {} /\ ~Claims(r, m) /\ ~Denies(r, m) /\ m.t # "JOIN_ACK"
      /\ \/ Mentions(m) = {}
         \/ Seated(r) /\ Mentions(m) \subseteq Members(playerRoom[r])
      /\ ~inRoom[r] => m.t \in EarlyTypes
  BY DEF NoNews, EarlyTypes, LeftBy, Claims, Denies, Mentions
<1>2. \A x \in Mentions(m) : Seated(x)
  <2>1. Seated(r) => playerRoom[r] \in Rooms
    BY DEF Seated, IInv, TypeOK
  <2> QED BY <1>1, <2>1, MembersAreSeated
<1>3. Left(d) \cap Mentions(m) = {}
  BY <1>2 DEF LineOK
<1>4. /\ Mentioned(e) = Mentioned(d) \cup Mentions(m)
      /\ Left(e) = Left(d)
      /\ Early(e) <=> Early(d) /\ m.t \in EarlyTypes
      /\ Claimed(r, e) <=> Claimed(r, d)
      /\ Ordered(d) => Ordered(e)
      /\ DenialsFirst(r, believes[r], d) => DenialsFirst(r, believes[r], e)
  BY <1>1, <1>3, SentFacts
<1> HIDE DEF e
<1>5. ASSUME Seated(r), sock[r] = "open"
      PROVE  Members(playerRoom[r]) \ {r} =
                 (remotes[r] \cup Mentioned(e)) \ (Left(e) \cup {r})
  BY <1>5, <1>1, <1>3, <1>4 DEF LineOK
<1>6. LineOK(r, e)
  BY <1>1, <1>4, <1>5 DEF LineOK
<1> QED BY <1>6 DEF e

-------------------------------------------------------------------------------
(***************************************************************************)
(* The lines over a step of the server.                                    *)
(***************************************************************************)

\* No room changes; a line gets at most a frame without news.
LEMMA SameRoomsLine ==
    ASSUME IInv, NEW r \in Conns, NEW d \in Seq(DownFrame), LineOK(r, d),
           UNCHANGED <<inRoom, playerRoom, conns, hostId>>,
           believes'[r] = believes[r], remotes'[r] = remotes[r],
           Seated(r) /\ sock'[r] = "open" => sock[r] = "open",
           \/ down'[r] = d
           \/ \E m \in DownFrame : NoNews(r, m) /\ down'[r] = Append(d, m)
    PROVE  LineOK(r, down[r])'
<1>1. LineOK(r, down'[r])
  BY NoNewsKeepsLine
<1> QED BY <1>1 DEF LineOK, Seated, Members

\* A client whose connection ended has an empty line and no view.
LEMMA ClosedLine ==
    ASSUME NEW r \in Conns, down'[r] = <<>>, remotes'[r] = {}, ~believes'[r],
           ~Seated(r)'
    PROVE  LineOK(r, down[r])'
BY EmptyLine DEF LineOK

\* p enters room c, a new one or one with a seat left: its members hear
\* PLAYER_JOIN, p itself JOIN_ACK.
LEMMA JoinLine ==
    ASSUME IInv, IInv', ChannelTypeOK, NEW p \in Conns, NEW c \in Rooms,
           MayJoin(p), \A q \in Conns : LineOK(q, down[q]),
           Bind(c, p, hostId'[c]), Welcome(p, c),
           \A d \in Rooms : hostId'[d] = IF d = c /\ c \notin rooms THEN p ELSE hostId[d],
           UNCHANGED <<sock, believes, remotes>>,
           NEW r \in Conns
    PROVE  LineOK(r, down[r])'
<1> DEFINE d == down[r]
<1>1. TypeOK /\ d \in Seq(DownFrame) /\ LineOK(r, d)
  BY DEF ChannelTypeOK
<1>2. /\ ~inRoom[p] /\ ~Seated(p)
      /\ \A e \in Rooms : p \notin Members(e)
  BY NoneAssumption DEF MayJoin, Seated, IInv, SeatsAreEarned, MembershipAgrees
<1>3. /\ \A q \in Conns : /\ playerRoom'[q] = IF q = p THEN c ELSE playerRoom[q]
                          /\ inRoom'[q] = IF q = p THEN TRUE ELSE inRoom[q]
      /\ c # NoRoom
  BY <1>1, NoneAssumption DEF Bind, TypeOK
<1>4. \A e \in Rooms : Members(e)' = IF e = c THEN Members(c) \cup {p} ELSE Members(e)
  <2>1. ASSUME NEW e \in Rooms
        PROVE  Members(e)' = IF e = c THEN Members(c) \cup {p} ELSE Members(e)
    <3>1. players'[e] = Members(e)' /\ players[e] = Members(e)
      BY DEF IInv, MembershipAgrees
    <3> QED BY <3>1, <1>1 DEF Bind, TypeOK
  <2> QED BY <2>1
<1>5. \A x \in Left(d) : x \in Conns => inRoom'[x] /\ ~Seated(x)' /\ x # p
  BY <1>1, <1>2, <1>3 DEF LineOK, Seated
<1>6. Left(d) \subseteq Conns
  BY <1>1, ElementOfSeq, LenProperties DEF Left, LeftBy, DownFrame
<1>7. p \notin Left(d) /\ \A x \in Left(d) : inRoom'[x] /\ ~Seated(x)'
  BY <1>5, <1>6
<1>8. Seated(r) => playerRoom[r] \in Rooms
  BY <1>1 DEF TypeOK, Seated
<1>9. players[c] = Members(c) /\ players[c] \subseteq Conns
  BY <1>1 DEF IInv, MembershipAgrees, TypeOK
<1>10. down'[r] = IF r = p /\ sock[p] = "open" THEN Append(d, JoinAck(hostId'[c] = p, players[c]))
                  ELSE IF r \in Members(c) /\ sock[r] = "open" THEN Append(d, PlayerJoin(p))
                  ELSE d
  BY <1>2 DEF Welcome, SendTo, Broadcast
<1> HIDE DEF d
<1>11. CASE r = p
  <2>1. /\ remotes[r] = {} /\ ~believes[r] /\ Early(d) /\ Ordered(d)
        /\ DenialsFirst(r, believes[r], d)
    BY <1>1, <1>2, <1>11 DEF LineOK
  <2>2. Mentioned(d) = {} /\ Left(d) = {} /\ ~Claimed(r, d)
    BY <2>1, EarlyFacts
  <2>3. playerRoom'[r] = c /\ Seated(r)' /\ inRoom'[r]
    BY <1>3, <1>11 DEF Seated
  <2>4. CASE sock[r] # "open"
    <3>1. down'[r] = d /\ sock'[r] # "open"
      BY <2>4, <1>10, <1>11, <1>2
    <3> QED BY <2>1, <2>2, <2>3, <3>1 DEF LineOK
  <2>5. CASE sock[r] = "open"
    <3> DEFINE m == JoinAck(hostId'[c] = p, players[c])
               e == Append(d, m)
    <3>1. /\ m \in DownFrame /\ Mentions(m) = Members(c) /\ LeftBy(m) = {}
          /\ Claims(r, m) <=> hostId'[c] = r
      BY <1>9, <1>11, FrameTypes DEF JoinAck, Mentions, LeftBy, Claims
    <3> HIDE DEF m
    <3>2. /\ Mentioned(e) = Mentioned(d) \cup Mentions(m)
          /\ Left(e) = Left(d) \cup LeftBy(m)
          /\ Claimed(r, e) <=> Claimed(r, d) \/ Claims(r, m)
          /\ Ordered(e) /\ DenialsFirst(r, believes[r], e)
      <4>1. Left(d) \cap Mentions(m) = {} /\ ~Claimed(r, d) /\ ~believes[r] /\ Early(d)
        BY <2>1, <2>2
      <4> QED BY <4>1, <2>1, <3>1, <1>1, SentFrame
    <3> HIDE DEF e
    <3>3. down'[r] = e
      BY <1>10, <1>11, <2>5 DEF e, m
    <3>4. Members(c)' \ {r} = Members(c)
      BY <1>2, <1>4, <1>11
    <3>5. /\ Members(c)' \ {r} = Mentioned(e) \ (Left(e) \cup {r})
          /\ Left(e) = {}
          /\ Claimed(r, e) <=> hostId'[c] = r
      BY <2>2, <3>1, <3>2, <3>4
    <3> QED BY <2>1, <2>3, <3>2, <3>3, <3>5 DEF LineOK
  <2> QED BY <2>4, <2>5
<1>12. CASE r # p /\ r \notin Members(c)
  <2>1. down'[r] = d /\ playerRoom'[r] = playerRoom[r] /\ inRoom'[r] = inRoom[r]
    BY <1>3, <1>10, <1>12
  <2>2. Seated(r)' <=> Seated(r)
    BY <2>1 DEF Seated
  <2>3. ASSUME Seated(r)
        PROVE  /\ hostId'[playerRoom'[r]] = hostId[playerRoom[r]]
               /\ Members(playerRoom[r])' = Members(playerRoom[r])
    <3>1. playerRoom[r] # c
      BY <1>12 DEF IInv, MembershipAgrees
    <3> QED BY <3>1, <2>1, <2>3, <1>4, <1>8
  <2> QED BY <2>1, <2>2, <2>3, <1>1, <1>7 DEF LineOK
<1>13. CASE r # p /\ r \in Members(c)
  <2>1. playerRoom[r] = c /\ Seated(r) /\ inRoom[r] /\ c \in rooms
    BY <1>13, MembersAreSeated
  <2>2. /\ playerRoom'[r] = c /\ Seated(r)' /\ inRoom'[r]
        /\ hostId'[c] = hostId[c]
        /\ Members(c)' = Members(c) \cup {p}
    BY <2>1, <1>3, <1>4, <1>13 DEF Seated
  <2>3. CASE sock[r] # "open"
    BY <2>1, <2>2, <2>3, <1>1, <1>7, <1>10, <1>13 DEF LineOK
  <2>4. CASE sock[r] = "open"
    <3> DEFINE m == PlayerJoin(p)
               e == Append(d, m)
    <3>1. /\ m \in DownFrame /\ Mentions(m) = {p} /\ LeftBy(m) = {}
          /\ ~Claims(r, m) /\ ~Denies(r, m) /\ m.t # "JOIN_ACK"
      BY FrameTypes DEF PlayerJoin, Mentions, LeftBy, Claims, Denies
    <3>2. Ordered(d) /\ DenialsFirst(r, believes[r], d) /\ Left(d) \cap {p} = {}
      BY <1>1, <1>7 DEF LineOK
    <3> HIDE DEF m
    <3>3. /\ Mentioned(e) = Mentioned(d) \cup {p} /\ Left(e) = Left(d)
          /\ Claimed(r, e) <=> Claimed(r, d)
          /\ Ordered(e) /\ DenialsFirst(r, believes[r], e)
      <4>1. Left(d) \cap Mentions(m) = {}
        BY <3>1, <3>2
      <4>2. /\ Mentioned(e) = Mentioned(d) \cup Mentions(m)
            /\ Left(e) = Left(d) \cup LeftBy(m)
            /\ Claimed(r, e) <=> Claimed(r, d) \/ Claims(r, m)
            /\ Ordered(e) /\ DenialsFirst(r, believes[r], e)
        BY <4>1, <3>1, <3>2, <1>1, SentFrame
      <4> QED BY <4>2, <3>1
    <3> HIDE DEF e
    <3>4. down'[r] = e
      BY <1>10, <1>13, <2>4 DEF e, m
    <3>5. Members(c)' \ {r} = (remotes[r] \cup Mentioned(e)) \ (Left(e) \cup {r})
      BY <3>3, <2>1, <2>2, <2>4, <1>1, <1>7, <1>13 DEF LineOK
    <3> QED BY <2>1, <2>2, <3>3, <3>4, <3>5, <1>1, <1>7 DEF LineOK
  <2> QED BY <2>3, <2>4
<1> QED BY <1>11, <1>12, <1>13

\* p leaves its room, by its close or by a kick: those who stay hear
\* PLAYER_LEAVE and, when p was host, the heir's name.
LEMMA LeaveLine ==
    ASSUME IInv, IInv', NEW p \in Conns, NEW c \in rooms, playerRoom[p] = c,
           RemovePlayer(p),
           NEW r \in Conns \ {p}, NEW ch, ch[r] \in Seq(DownFrame), LineOK(r, ch[r]),
           down'[r] = LeaveFrames(ch, p)[r],
           believes'[r] = believes[r], remotes'[r] = remotes[r],
           sock'[r] = sock[r], inRoom[p], inRoom' = inRoom
    PROVE  LineOK(r, down[r])'
<1> DEFINE d == ch[r]
           rest == Members(c) \ {p}
<1>1. TypeOK /\ c \in Rooms /\ c # NoRoom /\ Seated(p)
  BY NoneAssumption DEF IInv, TypeOK, Seated
<1>2. /\ \A q \in Conns : playerRoom'[q] = IF q = p THEN NoRoom ELSE playerRoom[q]
      /\ ~Seated(p)'
      /\ \A q : q # p => (Seated(q)' => Seated(q)) \/ q \notin Conns
  BY <1>1 DEF RemovePlayer, Seated, TypeOK
<1>3. /\ \A e \in Rooms : Members(e)' = IF e = c THEN rest ELSE Members(e)
      /\ \A e \in Rooms \ {c} : hostId'[e] = hostId[e]
  <2>1. RoomRemovePlayer(c, p)
    BY DEF RemovePlayer
  <2>2. players'[c] = players[c] \ {p}
    BY <2>1, <1>1 DEF RoomRemovePlayer, DropPlayer, TypeOK
  <2>3. \A e \in Rooms \ {c} : hostId'[e] = hostId[e] /\ players'[e] = players[e]
    BY <2>1, <1>1 DEF RoomRemovePlayer, TypeOK
  <2>4. \A e \in Rooms : players[e] = Members(e) /\ players'[e] = Members(e)'
    BY DEF IInv, MembershipAgrees
  <2> QED BY <2>2, <2>3, <2>4
<1>4. Left(d) \subseteq Conns
  BY ElementOfSeq, LenProperties DEF Left, LeftBy, DownFrame
<1>5. p \notin Left(d) /\ \A x \in Left(d) : inRoom'[x] /\ ~Seated(x)'
  BY <1>1, <1>2, <1>4 DEF LineOK
<1>6. Seated(r)' <=> Seated(r)
  BY <1>2 DEF Seated
<1>7. Seated(r) => playerRoom[r] \in Rooms
  BY <1>1 DEF TypeOK, Seated
<1>8. r \in Members(c) <=> playerRoom[r] = c
  BY <1>1 DEF IInv, MembershipAgrees
<1>9. down'[r] = IF r \notin rest \/ sock[r] # "open" THEN d
                 ELSE IF p = hostId[c]
                      THEN Append(Append(d, PlayerLeave(p)), HostReassign(hostId'[c]))
                      ELSE Append(d, PlayerLeave(p))
  BY DEF LeaveFrames, Broadcast
<1> HIDE DEF d
<1>10. d \in Seq(DownFrame) /\ LineOK(r, d)
  BY DEF d
<1>11. CASE r \notin Members(c)
  <2>1. down'[r] = d /\ playerRoom'[r] = playerRoom[r]
    BY <1>9, <1>11, <1>2
  <2>2. ASSUME Seated(r)
        PROVE  /\ hostId'[playerRoom'[r]] = hostId[playerRoom[r]]
               /\ Members(playerRoom[r])' = Members(playerRoom[r])
    BY <2>1, <2>2, <1>3, <1>7, <1>8, <1>11
  <2> QED BY <2>1, <2>2, <1>5, <1>6, <1>10 DEF LineOK
<1>12. CASE r \in Members(c)
  <2>1. /\ playerRoom[r] = c /\ playerRoom'[r] = c /\ Seated(r) /\ inRoom[r]
        /\ Members(c)' = rest /\ r \in rest
    BY <1>12, <1>1, <1>2, <1>3, MembersAreSeated
  <2>2. c \in rooms' /\ conns'[c] # <<>>
    <3>1. r \in Members(c)'
      BY <2>1
    <3>2. c \in rooms'
      BY <3>1, <1>1, EmptySeq DEF IInv, NoRoomLeaks, Members, ToSet
    <3> QED BY <3>2 DEF IInv, HostIsOldestMember
  <2>3. hostId[c] # p => hostId'[c] = hostId[c]
    <3>1. RoomRemovePlayer(c, p)
      BY DEF RemovePlayer
    <3> QED BY <3>1, <2>2, <1>1 DEF RoomRemovePlayer, TypeOK
  <2>4. hostId[c] = p => ~believes[r] /\ ~Claimed(r, d)
    BY <2>1, <1>10 DEF LineOK
  <2>5. CASE sock[r] # "open"
    <3>1. down'[r] = d
      BY <2>5, <1>9
    <3> QED BY <3>1, <2>1, <2>3, <2>4, <2>5, <1>5, <1>6, <1>10 DEF LineOK
  <2>6. CASE sock[r] = "open"
    <3> DEFINE m == PlayerLeave(p)
               e == Append(d, m)
    <3>1. /\ m \in DownFrame /\ Mentions(m) = {} /\ LeftBy(m) = {p}
          /\ ~Claims(r, m) /\ ~Denies(r, m) /\ m.t # "JOIN_ACK"
      BY FrameTypes DEF PlayerLeave, Mentions, LeftBy, Claims, Denies
    <3> HIDE DEF m
    <3>2. Ordered(d) /\ DenialsFirst(r, believes[r], d)
      BY <1>10 DEF LineOK
    <3>3. e \in Seq(DownFrame)
      BY <3>1, <1>10, AppendProperties
    <3>4. /\ Mentioned(e) = Mentioned(d) \cup Mentions(m)
          /\ Left(e) = Left(d) \cup LeftBy(m)
          /\ Claimed(r, e) <=> Claimed(r, d) \/ Claims(r, m)
          /\ Ordered(e) /\ DenialsFirst(r, believes[r], e)
      <4>1. Left(d) \cap Mentions(m) = {} /\ d \in Seq(DownFrame)
        BY <3>1, <1>10
      <4> QED BY <4>1, <3>1, <3>2, SentFrame
    <3> HIDE DEF e
    <3>5. rest \ {r} = (remotes[r] \cup Mentioned(e)) \ (Left(e) \cup {r})
      BY <3>1, <3>4, <2>1, <2>6, <1>10 DEF LineOK
    <3>6. \A x \in Left(e) : inRoom'[x] /\ ~Seated(x)'
      BY <3>1, <3>4, <1>2, <1>5
    <3>7. CASE hostId[c] # p
      <4>1. down'[r] = e
        BY <3>7, <2>1, <2>6, <1>9 DEF e, m
      <4>2. Claimed(r, e) <=> Claimed(r, d)
        BY <3>1, <3>4
      <4> QED BY <4>1, <4>2, <3>4, <3>5, <3>6, <3>7, <2>1, <2>3, <1>6, <1>10 DEF LineOK
    <3>8. CASE hostId[c] = p
      <4> DEFINE n == HostReassign(hostId'[c])
                 f == Append(e, n)
      <4>1. hostId'[c] \in Conns
        <5>1. conns'[c] \in Seq(Conns) /\ conns'[c] # <<>> /\ hostId'[c] = Head(conns'[c])
          BY <2>2, <1>1 DEF IInv, TypeOK, HostIsOldestMember
        <5> QED BY <5>1, HeadTailProperties
      <4>2. /\ n \in DownFrame /\ Mentions(n) = {} /\ LeftBy(n) = {} /\ n.t # "JOIN_ACK"
            /\ Claims(r, n) <=> hostId'[c] = r
        BY <4>1, FrameTypes DEF HostReassign, Mentions, LeftBy, Claims
      <4> HIDE DEF n
      <4>3. ~believes[r] /\ ~Claimed(r, e)
        BY <3>1, <3>4, <3>8, <2>4
      <4>4. /\ Mentioned(f) = Mentioned(e) \cup Mentions(n)
            /\ Left(f) = Left(e) \cup LeftBy(n)
            /\ Claimed(r, f) <=> Claimed(r, e) \/ Claims(r, n)
            /\ Ordered(f) /\ DenialsFirst(r, believes[r], f)
        <5>1. Left(e) \cap Mentions(n) = {}
          BY <4>2
        <5> QED BY <5>1, <4>2, <4>3, <3>3, <3>4, SentFrame
      <4> HIDE DEF f
      <4>5. /\ Mentioned(f) = Mentioned(e) /\ Left(f) = Left(e)
            /\ Claimed(r, f) <=> hostId'[c] = r
        BY <4>2, <4>3, <4>4
      <4>6. down'[r] = f
        BY <3>8, <2>1, <2>6, <1>9 DEF f, n, e, m
      <4> QED BY <4>3, <4>4, <4>5, <4>6, <3>5, <3>6, <2>1, <1>6, <1>10 DEF LineOK
    <3> QED BY <3>7, <3>8
  <2> QED BY <2>5, <2>6
<1> QED BY <1>11, <1>12

-------------------------------------------------------------------------------
(***************************************************************************)
(* The line over a step of the client: what OnPacket makes of a frame is   *)
(* what the line promised it would.                                        *)
(***************************************************************************)
LEMMA ReceiveLine ==
    ASSUME CInv, NEW p \in Conns, OnPacket(p), NEW r \in Conns
    PROVE  LineOK(r, down[r])'
<1> DEFINE d == down[p]
           h == Head(d)
           e == Tail(d)
<1>1. /\ down \in [Conns -> Seq(DownFrame)] /\ d \in Seq(DownFrame)
      /\ believes \in [Conns -> BOOLEAN] /\ remotes \in [Conns -> SUBSET Conns]
      /\ LineOK(r, down[r])
  BY DEF CInv, ChannelTypeOK
<1>2. d # <<>> /\ down' = [down EXCEPT ![p] = e] /\ UNCHANGED vars
  BY DEF OnPacket, ReceiveHandshakeAck, ReceiveJoinAck, ReceiveJoinDenied,
         ReceivePlayers, ReceiveHostReassign, ReceiveKick, Receive
<1>3. UNCHANGED <<inRoom, playerRoom, conns, hostId, sock>>
  BY <1>2 DEF vars, sessionVars, roomVars
<1>4. /\ believes'[p] = IF h.t = "JOIN_ACK" THEN h.isHost
                        ELSE IF h.t = "HOST_REASSIGN" THEN h.newHostId = p
                        ELSE believes[p]
      /\ remotes'[p] = (remotes[p] \cup (Mentions(h) \ {p})) \ LeftBy(h)
      /\ \A q \in Conns \ {p} : believes'[q] = believes[q] /\ remotes'[q] = remotes[q]
  BY <1>1 DEF OnPacket, ReceiveHandshakeAck, ReceiveJoinAck, ReceiveJoinDenied,
              ReceivePlayers, ReceiveHostReassign, ReceiveKick, Receive,
              Applied, Mentions, LeftBy
<1>5. CASE r # p
  BY <1>5, <1>1, <1>2, <1>3, <1>4 DEF LineOK, Seated, Members
<1>6. CASE r = p
  <2>1. h \in DownFrame /\ d = down[r]
    BY <1>1, <1>2, <1>6, HeadTailProperties
  <2>2. /\ Mentioned(d) = Mentions(h) \cup Mentioned(e)
        /\ Left(d) = LeftBy(h) \cup Left(e)
        /\ Early(d) <=> h.t \in EarlyTypes /\ Early(e)
        /\ Claimed(r, d) <=> Claims(r, h) \/ Claimed(r, e)
        /\ Ordered(d) => Ordered(e) /\ LeftBy(h) \cap Mentioned(e) = {}
        /\ DenialsFirst(r, believes[r], d) =>
              /\ DenialsFirst(r, believes[r], e)
              /\ Claims(r, h) => DenialsFirst(r, TRUE, e)
              /\ Denies(r, h) => ~believes[r] /\ DenialsFirst(r, FALSE, e)
    BY <1>1, <1>2, HandledFacts
  <2>3. down'[r] = e
    BY <1>1, <1>2, <1>6
  <2>4. /\ believes'[r] = IF Claims(r, h) THEN TRUE
                          ELSE IF Denies(r, h) THEN FALSE ELSE believes[r]
        /\ Denies(r, h) => ~Claims(r, h)
        /\ h.t \in EarlyTypes => ~Claims(r, h) /\ ~Denies(r, h)
              /\ Mentions(h) = {} /\ LeftBy(h) = {}
        /\ Mentions(h) = {} \/ LeftBy(h) = {}
    BY <2>1, <1>4, <1>6 DEF Claims, Denies, DownFrame, EarlyTypes, Mentions, LeftBy
  <2>5. remotes'[r] = (remotes[r] \cup (Mentions(h) \ {r})) \ LeftBy(h)
    BY <1>4, <1>6
  <2> HIDE DEF d, h, e
  <2>6. LineOK(r, d)
    BY <1>1, <2>1
  <2>7. Denies(r, h) /\ Seated(r) /\ Claimed(r, e) => hostId[playerRoom[r]] = r
    BY <2>2, <2>6 DEF LineOK
  <2>8. /\ Ordered(e)
        /\ DenialsFirst(r, believes'[r], e)
        /\ r \notin remotes'[r]
        /\ ~inRoom[r] => remotes'[r] = {} /\ ~believes'[r] /\ Early(e)
        /\ \A x \in Left(e) : inRoom[x] /\ ~Seated(x)
    BY <2>2, <2>4, <2>5, <2>6 DEF LineOK
  <2>9. believes'[r] \/ Claimed(r, e) => believes[r] \/ Claimed(r, d)
    BY <2>2, <2>4
  <2>10. believes[r] \/ Claimed(r, d) => believes'[r] \/ Claimed(r, e)
    <3>1. DenialsFirst(r, believes[r], d)
      BY <2>6 DEF LineOK
    <3> QED BY <3>1, <2>2, <2>4
  <2>11. (remotes'[r] \cup Mentioned(e)) \ (Left(e) \cup {r})
            = (remotes[r] \cup Mentioned(d)) \ (Left(d) \cup {r})
    BY <2>2, <2>4, <2>5, <2>6 DEF LineOK
  <2> QED BY <2>3, <2>6, <2>8, <2>9, <2>10, <2>11, <1>3 DEF LineOK, Seated, Members
<1> QED BY <1>5, <1>6

-------------------------------------------------------------------------------
(***************************************************************************)
(* The theorems.                                                           *)
(***************************************************************************)

\* Whatever the clients do with their frames, the server takes a step of
\* RoomServer or none.
LEMMA ServerStep == [ChannelNext]_allVars => [Next]_vars
<1> SUFFICES ASSUME [ChannelNext]_allVars PROVE [Next]_vars
  OBVIOUS
<1>1. ASSUME NEW p \in Conns,
             OpenConnection(p) \/ OnHandshake(p) \/ OnClose(p) \/ OnKick(p) \/ Quiet(p)
      PROVE  Next
  BY <1>1 DEF OpenConnection, OnHandshake, OnClose, OnKick, Quiet, Next
<1>2. ASSUME NEW p \in Conns, NEW c \in Rooms, OnCreateRequest(p, c) \/ OnJoinRequest(p, c)
      PROVE  [Next]_vars
  BY <1>2 DEF OnCreateRequest, OnJoinRequest, Next
<1>3. ASSUME NEW p \in Conns, OnPacket(p) PROVE UNCHANGED vars
  BY <1>3 DEF OnPacket, ReceiveHandshakeAck, ReceiveJoinAck, ReceiveJoinDenied,
              ReceivePlayers, ReceiveHostReassign, ReceiveKick, Receive
<1>4. ASSUME NEW c \in Rooms, NEW changed \in SUBSET Conns, Tick(c, changed)
      PROVE  UNCHANGED vars
  BY <1>4 DEF Tick
<1>5. Shutdown => Next
  BY DEF Next
<1> QED BY <1>1, <1>2, <1>3, <1>4, <1>5 DEF ChannelNext, allVars

\* What is sent when a player leaves (room.ts removePlayer, reassignHost) is frames.
LEMMA LeaveFramesType ==
    ASSUME NEW ch \in [Conns -> Seq(DownFrame)], NEW p \in Conns, IInv, IInv',
           RemovePlayer(p)
    PROVE  LeaveFrames(ch, p) \in [Conns -> Seq(DownFrame)]
<1> DEFINE c == playerRoom[p]
           rest == Members(c) \ {p}
<1>1. CASE c \notin rooms
  BY <1>1 DEF LeaveFrames
<1>2. CASE c \in rooms
  <2>1. PICK d \in rooms : c = d
    BY <1>2
  <2>2. d \in Rooms /\ RoomRemovePlayer(d, p)
    BY <2>1 DEF IInv, TypeOK, RemovePlayer
  <2>3. rest # {} => hostId'[d] \in Conns
    <3>1. Members(d)' = rest
      <4>1. players'[d] = players[d] \ {p}
        BY <2>2 DEF RoomRemovePlayer, DropPlayer, IInv, TypeOK
      <4> QED BY <4>1, <2>1, <2>2 DEF IInv, MembershipAgrees
    <3>2. rest # {} => d \in rooms'
      BY <3>1, <2>2 DEF IInv, NoRoomLeaks, MembershipAgrees
    <3>3. d \in rooms' => hostId'[d] = Head(conns'[d]) /\ conns'[d] \in Seq(Conns)
                          /\ conns'[d] # <<>>
      BY <2>2 DEF IInv, TypeOK, HostIsOldestMember
    <3> QED BY <3>2, <3>3, HeadTailProperties
  <2>4. PlayerLeave(p) \in DownFrame
    BY FrameTypes
  <2>5. Broadcast(ch, rest, PlayerLeave(p)) \in [Conns -> Seq(DownFrame)]
    BY <2>4, BroadcastType
  <2>6. rest # {} => HostReassign(hostId'[d]) \in DownFrame
    BY <2>3, FrameTypes
  <2> QED BY <1>2, <2>1, <2>5, <2>6, BroadcastType DEF LeaveFrames
<1> QED BY <1>1, <1>2

\* Every step keeps the types.
LEMMA ChannelTypeStep ==
    ASSUME CInv, IInv', ChannelNext
    PROVE  ChannelTypeOK'
<1>1. /\ TypeOK /\ TypeOK'
      /\ down \in [Conns -> Seq(DownFrame)]
      /\ up \in [Conns -> Seq(UpFrame)]
      /\ status \in [Conns -> {"connecting", "connected", "insession", "failed"}]
      /\ believes \in [Conns -> BOOLEAN]
      /\ remotes \in [Conns -> SUBSET Conns]
  BY DEF CInv, ChannelTypeOK, IInv
<1>2. ASSUME NEW p \in Conns, NEW m, Handles(p, m) PROVE up' \in [Conns -> Seq(UpFrame)]
  BY <1>1, <1>2, HeadTailProperties DEF Handles
<1>3. ASSUME NEW p \in Conns, OpenConnection(p) PROVE ChannelTypeOK'
  <2>1. <<Handshake>> \in Seq(UpFrame)
    BY DEF UpFrame
  <2> QED BY <1>1, <1>3, <2>1 DEF OpenConnection, clientVars, ChannelTypeOK
<1>4. ASSUME NEW p \in Conns, OnHandshake(p) PROVE ChannelTypeOK'
  <2>1. down' \in [Conns -> Seq(DownFrame)]
    <3>1. down' = Broadcast(down, {p}, HandshakeAck) \/ down' = Broadcast(down, {p}, JoinDenied)
      BY <1>4 DEF OnHandshake, SendTo
    <3>2. HandshakeAck \in DownFrame /\ JoinDenied \in DownFrame
      BY FrameTypes
    <3>3. ASSUME NEW m \in DownFrame
          PROVE  Broadcast(down, {p}, m) \in [Conns -> Seq(DownFrame)]
      BY <1>1, BroadcastType
    <3> QED BY <3>1, <3>2, <3>3
  <2> QED BY <1>1, <1>2, <1>4, <2>1 DEF OnHandshake, clientVars, ChannelTypeOK
<1>5. ASSUME NEW p \in Conns, NEW c \in Rooms, Welcome(p, c)
      PROVE  down' \in [Conns -> Seq(DownFrame)]
  <2>1. PlayerJoin(p) \in DownFrame /\ JoinAck(hostId'[c] = p, players[c]) \in DownFrame
    <3>1. players[c] \in SUBSET Conns
      BY <1>1 DEF TypeOK
    <3> QED BY <3>1, FrameTypes
  <2>2. Broadcast(down, Members(c) \ {p}, PlayerJoin(p)) \in [Conns -> Seq(DownFrame)]
    BY <1>1, <2>1, BroadcastType
  <2> QED BY <1>5, <2>1, <2>2, BroadcastType DEF Welcome, SendTo
<1>6. ASSUME NEW p \in Conns, NEW c \in Rooms, OnCreateRequest(p, c) \/ OnJoinRequest(p, c)
      PROVE  ChannelTypeOK'
  <2>1. down' \in [Conns -> Seq(DownFrame)]
    <3>1. Welcome(p, c) \/ down' = Broadcast(down, {p}, JoinDenied)
      BY <1>6 DEF OnCreateRequest, OnJoinRequest, SendTo
    <3>2. JoinDenied \in DownFrame
      BY FrameTypes
    <3>3. Broadcast(down, {p}, JoinDenied) \in [Conns -> Seq(DownFrame)]
      BY <1>1, <3>2, BroadcastType
    <3> QED BY <1>5, <3>1, <3>3
  <2> QED BY <1>1, <1>2, <1>6, <2>1
          DEF OnCreateRequest, OnJoinRequest, clientVars, ChannelTypeOK
<1>7. ASSUME NEW p \in Conns, OnClose(p) PROVE ChannelTypeOK'
  <2>1. LeaveFrames(down, p) \in [Conns -> Seq(DownFrame)]
    <3>1. CASE handshaked[p]
      BY <1>1, <1>7, <3>1, LeaveFramesType DEF OnClose, SocketClosed, CInv
    <3>2. CASE ~handshaked[p]
      <4>1. playerRoom[p] \notin rooms
        BY <3>2, NoneAssumption DEF CInv, IInv, TypeOK, SeatsAreEarned
      <4> QED BY <4>1, <1>1 DEF LeaveFrames
    <3> QED BY <3>1, <3>2
  <2>2. <<>> \in Seq(DownFrame) /\ <<>> \in Seq(UpFrame)
    BY EmptySeq
  <2> QED BY <1>1, <1>7, <2>1, <2>2 DEF OnClose, ChannelTypeOK
<1>8. ASSUME NEW p \in Conns, OnKick(p) PROVE ChannelTypeOK'
  <2>1. down' \in [Conns -> Seq(DownFrame)]
    <3>1. CASE playerRoom[p] \in rooms
      <4>1. Broadcast(down, Members(playerRoom[p]), Kick(p)) \in [Conns -> Seq(DownFrame)]
        BY <1>1, BroadcastType, FrameTypes
      <4> QED BY <4>1, <1>8, <3>1, LeaveFramesType DEF OnKick, KickCompletes, CInv
    <3>2. CASE playerRoom[p] \notin rooms
      BY <1>1, <1>8, <3>2 DEF OnKick
    <3> QED BY <3>1, <3>2
  <2> QED BY <1>1, <1>8, <2>1 DEF OnKick, clientVars, ChannelTypeOK
<1>9. ASSUME UNCHANGED channelVars PROVE ChannelTypeOK'
  BY <1>1, <1>9 DEF channelVars, clientVars, ChannelTypeOK
<1>10. ASSUME NEW p \in Conns, OnPacket(p) PROVE ChannelTypeOK'
  <2>1. /\ down[p] # <<>> /\ down' = [down EXCEPT ![p] = Tail(@)]
        /\ Head(down[p]) \in DownFrame
    BY <1>1, <1>10, HeadTailProperties
       DEF OnPacket, ReceiveHandshakeAck, ReceiveJoinAck, ReceiveJoinDenied,
           ReceivePlayers, ReceiveHostReassign, ReceiveKick, Receive
  <2>2. down' \in [Conns -> Seq(DownFrame)]
    BY <1>1, <2>1, HeadTailProperties
  <2>3. up' \in [Conns -> Seq(UpFrame)]
    <3>1. up' = up \/ \E m \in UpFrame : up' = [up EXCEPT ![p] = Append(@, m)]
      BY <1>10
         DEF OnPacket, ReceiveHandshakeAck, ReceiveJoinAck, ReceiveJoinDenied,
             ReceivePlayers, ReceiveHostReassign, ReceiveKick
    <3>2. ASSUME NEW m \in UpFrame PROVE Append(up[p], m) \in Seq(UpFrame)
      BY <1>1, AppendProperties
    <3> QED BY <1>1, <3>1, <3>2
  <2>4. status' \in [Conns -> {"connecting", "connected", "insession", "failed"}]
    BY <1>1, <1>10
       DEF OnPacket, ReceiveHandshakeAck, ReceiveJoinAck, ReceiveJoinDenied,
           ReceivePlayers, ReceiveHostReassign, ReceiveKick
  <2>5. believes' \in [Conns -> BOOLEAN] /\ remotes' \in [Conns -> SUBSET Conns]
    <3> DEFINE h == Head(down[p])
    <3>1. /\ h.t = "JOIN_ACK" => h.isHost \in BOOLEAN /\ h.players \subseteq Conns
          /\ h.t = "STATE_UPDATE" => h.players \subseteq Conns
          /\ h.t = "PLAYER_JOIN" => h.player \in Conns
      BY <2>1 DEF DownFrame
    <3>2. /\ \E b \in BOOLEAN : believes' = believes \/ believes' = [believes EXCEPT ![p] = b]
          /\ \E ps \in SUBSET Conns : remotes' = [remotes EXCEPT ![p] = ps]
      <4>1. remotes[p] \subseteq Conns /\ remotes = [remotes EXCEPT ![p] = @]
        BY <1>1
      <4>2. CASE ReceiveJoinAck(p)
        BY <4>1, <4>2, <3>1 DEF ReceiveJoinAck, Receive, Applied
      <4>3. CASE ReceivePlayers(p)
        BY <4>1, <4>3, <3>1 DEF ReceivePlayers, Receive, Applied
      <4>4. CASE ReceiveHostReassign(p)
        BY <4>1, <4>4 DEF ReceiveHostReassign
      <4>5. CASE ReceiveHandshakeAck(p) \/ ReceiveJoinDenied(p) \/ ReceiveKick(p)
        BY <4>1, <4>5 DEF ReceiveHandshakeAck, ReceiveJoinDenied, ReceiveKick
      <4> QED BY <1>10, <4>2, <4>3, <4>4, <4>5 DEF OnPacket
    <3>3. believes' \in [Conns -> BOOLEAN]
      BY <1>1, <3>2
    <3>4. remotes' \in [Conns -> SUBSET Conns]
      BY <1>1, <3>2
    <3> QED BY <3>3, <3>4
  <2> QED BY <1>1, <2>2, <2>3, <2>4, <2>5 DEF ChannelTypeOK
<1>11. ASSUME NEW c \in Rooms, NEW changed \in SUBSET Conns, Tick(c, changed)
       PROVE  ChannelTypeOK'
  <2>1. down' \in [Conns -> Seq(DownFrame)]
    BY <1>1, <1>11, BroadcastType, FrameTypes DEF Tick
  <2> QED BY <1>1, <1>11, <2>1 DEF Tick, clientVars, ChannelTypeOK
<1> QED BY <1>3, <1>4, <1>6, <1>7, <1>8, <1>9, <1>10, <1>11 DEF ChannelNext, Quiet

\* Every step of the server, of a client and of the network keeps the invariant.
LEMMA ChannelNextCInv == CInv /\ [ChannelNext]_allVars => CInv'
<1> SUFFICES ASSUME CInv, [ChannelNext]_allVars PROVE CInv'
  OBVIOUS
<1>1. IInv /\ IInv' /\ TypeOK
  BY ServerStep, NextIInv DEF CInv, IInv
<1>2. ChannelTypeOK'
  <2>1. CASE ChannelNext
    BY <2>1, <1>1, ChannelTypeStep
  <2>2. CASE UNCHANGED allVars
    BY <2>2, <1>1 DEF CInv, ChannelTypeOK, IInv, allVars, channelVars, clientVars
  <2> QED BY <2>1, <2>2
<1>3. /\ ChannelTypeOK
      /\ \A q \in Conns : down[q] \in Seq(DownFrame) /\ LineOK(q, down[q])
  BY DEF CInv, ChannelTypeOK
<1>4. ASSUME NEW r \in Conns PROVE LineOK(r, down[r])'
  <2>1. ASSUME NEW p \in Conns, OpenConnection(p) PROVE LineOK(r, down[r])'
    <3>1. UNCHANGED <<inRoom, playerRoom, conns, hostId, down, believes, remotes>>
      BY <2>1 DEF OpenConnection, Connect, roomVars, clientVars
    <3>2. Seated(r) /\ sock'[r] = "open" => sock[r] = "open"
      BY <2>1, <1>1 DEF OpenConnection, Connect, Seated, IInv, SeatsAreEarned, Receives, TypeOK
    <3> QED BY <3>1, <3>2, <1>1, <1>3, SameRoomsLine
  <2>2. ASSUME NEW p \in Conns, OnHandshake(p) PROVE LineOK(r, down[r])'
    <3>1. /\ UNCHANGED <<inRoom, playerRoom, conns, hostId, believes, remotes>>
          /\ sock'[r] = "open" => sock[r] = "open"
      BY <2>2, <1>1
         DEF OnHandshake, HandshakeAccepted, HandshakeRefused, Close, roomVars,
             clientVars, TypeOK
    <3>2. PICK m \in {HandshakeAck, JoinDenied} : down' = Broadcast(down, {p}, m)
      BY <2>2 DEF OnHandshake, SendTo
    <3>3. m \in DownFrame /\ NoNews(r, m)
      BY FrameTypes DEF NoNews, EarlyTypes, HandshakeAck, JoinDenied
    <3>4. down'[r] = down[r] \/ down'[r] = Append(down[r], m)
      BY <3>2 DEF Broadcast
    <3> QED BY <3>1, <3>3, <3>4, <1>1, <1>3, SameRoomsLine
  <2>3. ASSUME NEW p \in Conns, NEW c \in Rooms, OnCreateRequest(p, c)
        PROVE  LineOK(r, down[r])'
    <3>1. /\ MayJoin(p) /\ Welcome(p, c) /\ UNCHANGED <<sock, believes, remotes>>
          /\ Bind(c, p, hostId'[c])
          /\ \A d \in Rooms : hostId'[d] = IF d = c /\ c \notin rooms THEN p ELSE hostId[d]
      BY <2>3, <1>1 DEF OnCreateRequest, JoinCreates, clientVars, TypeOK
    <3> QED BY <3>1, <1>1, <1>3, JoinLine
  <2>4. ASSUME NEW p \in Conns, NEW c \in Rooms, OnJoinRequest(p, c)
        PROVE  LineOK(r, down[r])'
    <3>1. CASE JoinExisting(p, c) /\ Welcome(p, c)
      <4>1. /\ MayJoin(p) /\ UNCHANGED <<sock, believes, remotes, hostId>>
            /\ Bind(c, p, hostId'[c]) /\ c \in rooms
        BY <2>4, <3>1 DEF OnJoinRequest, JoinExisting, clientVars
      <4> QED BY <3>1, <4>1, <1>1, <1>3, JoinLine
    <3>2. CASE down' = SendTo(down, p, JoinDenied) /\ UNCHANGED vars
      <4>1. UNCHANGED <<inRoom, playerRoom, conns, hostId, believes, remotes, sock>>
        BY <2>4, <3>2 DEF OnJoinRequest, vars, sessionVars, roomVars, clientVars
      <4>2. JoinDenied \in DownFrame /\ NoNews(r, JoinDenied)
        BY FrameTypes DEF NoNews, EarlyTypes, JoinDenied
      <4>3. down'[r] = down[r] \/ down'[r] = Append(down[r], JoinDenied)
        BY <3>2 DEF SendTo, Broadcast
      <4> QED BY <4>1, <4>2, <4>3, <1>1, <1>3, SameRoomsLine
    <3> QED BY <2>4, <3>1, <3>2 DEF OnJoinRequest
  <2>5. ASSUME NEW p \in Conns, OnClose(p) PROVE LineOK(r, down[r])'
    <3>1. /\ inRoom' = inRoom
          /\ r # p => /\ sock'[r] = sock[r] /\ believes'[r] = believes[r]
                      /\ remotes'[r] = remotes[r]
                      /\ down'[r] = LeaveFrames(down, p)[r]
          /\ r = p => down'[r] = <<>> /\ ~believes'[r] /\ remotes'[r] = {}
      BY <2>5, <1>1, <1>3 DEF OnClose, SocketClosed, TypeOK, ChannelTypeOK, LeaveFrames,
                              Broadcast
    <3>2. r = p => ~Seated(r)'
      BY <2>5, <1>1 DEF OnClose, SocketClosed, Seated, IInv, SeatsAreEarned, Receives, TypeOK
    <3>3. CASE r = p
      BY <3>1, <3>2, <3>3, ClosedLine
    <3>4. CASE r # p /\ playerRoom[p] \in rooms
      <4>1. inRoom[p] /\ handshaked[p]
        BY <3>4, <1>1, NoneAssumption DEF IInv, SeatsAreEarned, TypeOK
      <4>2. RemovePlayer(p)
        BY <2>5, <4>1 DEF OnClose, SocketClosed
      <4> QED BY <3>1, <3>4, <4>1, <4>2, <1>1, <1>3, LeaveLine
    <3>5. CASE r # p /\ playerRoom[p] \notin rooms
      <4>1. playerRoom[p] = NoRoom
        BY <3>5, <1>1 DEF IInv, TypeOK, MembershipAgrees, NoRoomLeaks
      <4>2. UNCHANGED <<playerRoom, conns, hostId>>
        BY <2>5, <3>5, <4>1, <1>1 DEF OnClose, SocketClosed, RemovePlayer, roomVars, TypeOK
      <4>3. down'[r] = down[r]
        BY <3>1, <3>5 DEF LeaveFrames
      <4> QED BY <3>1, <3>5, <4>2, <4>3, <1>1, <1>3, SameRoomsLine
    <3> QED BY <3>3, <3>4, <3>5
  <2>6. ASSUME NEW p \in Conns, OnKick(p) PROVE LineOK(r, down[r])'
    <3>1. /\ UNCHANGED <<inRoom, believes, remotes>>
          /\ r # p => sock'[r] = sock[r]
      BY <2>6, <1>1 DEF OnKick, KickCompletes, Close, clientVars, TypeOK
    <3>2. CASE playerRoom[p] \in rooms
      <4> DEFINE c == playerRoom[p]
                 ch == Broadcast(down, Members(c), Kick(p))
      <4>1. c \in Rooms /\ RemovePlayer(p) /\ down' = LeaveFrames(ch, p) /\ inRoom[p]
        BY <2>6, <3>2, <1>1, NoneAssumption
           DEF OnKick, KickCompletes, IInv, TypeOK, SeatsAreEarned
      <4>2. ch[r] \in Seq(DownFrame) /\ LineOK(r, ch[r])
        <5>1. ch[r] = IF r \in Members(c) /\ sock[r] = "open"
                      THEN Append(down[r], Kick(p)) ELSE down[r]
          BY DEF Broadcast
        <5>2. Kick(p) \in DownFrame
          BY FrameTypes
        <5>3. r \in Members(c) => NoNews(r, Kick(p))
          BY <4>1, <1>1, MembersAreSeated DEF NoNews, Kick
        <5> HIDE DEF ch, c
        <5> QED BY <5>1, <5>2, <5>3, <1>1, <1>3, NoNewsKeepsLine, AppendProperties
      <4>3. CASE r # p
        BY <3>1, <3>2, <4>1, <4>2, <4>3, <1>1, LeaveLine
      <4>4. CASE r = p
        <5>1. down'[r] = ch[r]
          BY <4>1, <4>4 DEF LeaveFrames, Broadcast
        <5>2. ~Seated(r)' /\ \A q \in Conns : Seated(q)' => Seated(q)
          BY <4>1, <4>4, <1>1 DEF RemovePlayer, Seated, TypeOK
        <5>3. \A x \in Left(ch[r]) : inRoom'[x] /\ ~Seated(x)'
          <6>1. Left(ch[r]) \subseteq Conns
            BY <4>2, ElementOfSeq, LenProperties DEF Left, LeftBy, DownFrame
          <6> QED BY <6>1, <4>2, <3>1, <5>2 DEF LineOK
        <5> HIDE DEF ch
        <5> QED BY <3>1, <4>2, <5>1, <5>2, <5>3 DEF LineOK
      <4> QED BY <4>3, <4>4
    <3>3. CASE playerRoom[p] \notin rooms
      <4>1. UNCHANGED <<playerRoom, conns, hostId, sock, down>>
        BY <2>6, <3>3 DEF OnKick, KickCompletes, roomVars
      <4> QED BY <3>1, <4>1, <1>1, <1>3, SameRoomsLine
    <3> QED BY <3>2, <3>3
  <2>7. ASSUME NEW p \in Conns, Quiet(p) PROVE LineOK(r, down[r])'
    <3>1. /\ UNCHANGED <<inRoom, playerRoom, conns, hostId, down, believes, remotes>>
          /\ sock'[r] = "open" => sock[r] = "open"
      BY <2>7, <1>1 DEF Quiet, PeerCloses, KickRequested, Close, sessionVars, roomVars,
                        channelVars, clientVars, TypeOK
    <3> QED BY <3>1, <1>1, <1>3, SameRoomsLine
  <2>8. ASSUME NEW p \in Conns, OnPacket(p) PROVE LineOK(r, down[r])'
    BY <2>8, ReceiveLine
  <2>9. ASSUME NEW c \in Rooms, NEW changed \in SUBSET Conns, Tick(c, changed)
        PROVE  LineOK(r, down[r])'
    <3>1. UNCHANGED <<inRoom, playerRoom, conns, hostId, believes, remotes, sock>>
      BY <2>9 DEF Tick, vars, sessionVars, roomVars, clientVars
    <3>2. StateUpdate(changed) \in DownFrame
      BY FrameTypes
    <3>3. r \in Members(c) => NoNews(r, StateUpdate(changed))
      BY <2>9, <1>1, MembersAreSeated
         DEF NoNews, StateUpdate, Tick, IInv, MembershipAgrees
    <3>4. down'[r] = IF r \in Members(c) /\ sock[r] = "open"
                     THEN Append(down[r], StateUpdate(changed)) ELSE down[r]
      BY <2>9 DEF Tick, Broadcast
    <3> QED BY <3>1, <3>2, <3>3, <3>4, <1>1, <1>3, SameRoomsLine
  <2>10. ASSUME UNCHANGED <<inRoom, playerRoom, conns, hostId, sock, down, believes, remotes>>
         PROVE  LineOK(r, down[r])'
    BY <2>10, <1>1, <1>3, SameRoomsLine
  <2>11. CASE (Shutdown /\ UNCHANGED channelVars) \/ UNCHANGED allVars
    BY <2>10, <2>11 DEF Shutdown, channelVars, clientVars, allVars, vars, sessionVars, roomVars
  <2> QED BY <2>1, <2>2, <2>3, <2>4, <2>5, <2>6, <2>7, <2>8, <2>9, <2>11 DEF ChannelNext
<1> QED BY <1>1, <1>2, <1>4 DEF CInv

\* Every reachable state satisfies the inductive invariant.
THEOREM ChannelInvariance == ChannelSpec => []CInv
<1>1. ChannelInit => CInv
  BY ChannelInitCInv
<1>2. CInv /\ [ChannelNext]_allVars => CInv'
  BY ChannelNextCInv
<1> QED BY <1>1, <1>2, PTL DEF ChannelSpec

\* The server among its clients is the server of RoomServer: no frame, lost
\* or late, makes it take a step RoomServer does not have.  Every theorem
\* about Spec above holds of ChannelSpec, too.
THEOREM ServerIsRoomServer == ChannelSpec => Spec
<1>1. ChannelInit => Init
  BY DEF ChannelInit
<1>2. [ChannelNext]_allVars => [Next]_vars
  BY ServerStep
<1> QED BY <1>1, <1>2, PTL DEF ChannelSpec, Spec

\* Each variable of server and clients keeps its type, frames included.
THEOREM ChannelTypeCorrect == ChannelSpec => []ChannelTypeOK
BY ChannelInvariance, PTL DEF CInv

\* A seated client that believes it is host is the host.
THEOREM OneBelieverHolds == ChannelSpec => []OneBeliever
<1>1. CInv => OneBeliever
  BY DEF CInv, LineOK, Seated, OneBeliever
<1> QED BY <1>1, ChannelInvariance, PTL

\* A client that is caught up shows its room and knows its role.
THEOREM CaughtUpViewExact == ChannelSpec => []CaughtUpViewIsExact
<1>1. CInv => CaughtUpViewIsExact
  <2> SUFFICES ASSUME CInv, NEW p \in Conns,
                      playerRoom[p] # NoRoom, sock[p] = "open", down[p] = <<>>
               PROVE  /\ remotes[p] = Members(playerRoom[p]) \ {p}
                      /\ believes[p] <=> hostId[playerRoom[p]] = p
    BY DEF CaughtUpViewIsExact
  <2>1. LineOK(p, <<>>)
    BY DEF CInv
  <2>2. Mentioned(<<>>) = {} /\ Left(<<>>) = {} /\ ~Claimed(p, <<>>)
    BY EmptyLine
  <2> QED BY <2>1, <2>2 DEF LineOK, Seated
<1> QED BY <1>1, ChannelInvariance, PTL

\* JOIN_ACK comes first, and no frame brings back a player that left.
THEOREM FramesOrdered == ChannelSpec => []FramesKeepOrder
<1>1. CInv => FramesKeepOrder
  <2> SUFFICES ASSUME CInv, NEW p \in Conns, NEW i \in DOMAIN down[p],
                      NEW j \in DOMAIN down[p], i < j
               PROVE  /\ down[p][j].t = "JOIN_ACK" =>
                            down[p][i].t \in {"HANDSHAKE_ACK", "JOIN_DENIED"}
                      /\ down[p][i].t = "PLAYER_LEAVE" =>
                            down[p][i].playerId \notin Mentions(down[p][j])
    BY DEF FramesKeepOrder
  <2>1. Ordered(down[p])
    BY DEF CInv, LineOK
  <2> QED BY <2>1 DEF Ordered, EarlyTypes, LeftBy
<1> QED BY <1>1, ChannelInvariance, PTL
===============================================================================
