------------------------------ MODULE RoomServer ------------------------------
(***************************************************************************)
(* Room membership on the session server: sessions (index.ts), the room    *)
(* manager (manager.ts), rooms and their PlayerState tables (room.ts,      *)
(* state.ts), and the admin kick (admin.ts).                               *)
(*                                                                         *)
(* Node runs one handler at a time, so every handler is one action; the    *)
(* only handler with an await inside, the admin kick, is two.  A session   *)
(* gets one fresh uuid, so the connection stands for the player id, and    *)
(* an invite code stands for the Room object stored under it.  What the    *)
(* handlers send is added by RoomChannel; what they do to the state they   *)
(* keep is here, whole.                                                    *)
(***************************************************************************)
EXTENDS Naturals, FiniteSets, OrderedMap

CONSTANTS
    Conns,       \* WebSocket connections, one session each
    Rooms,       \* invite codes genInviteCode can produce
    MaxPlayers,  \* room.maxPlayers
    MaxKicks,    \* bound: kick requests waiting for their body at a time
    NoConn,      \* no host
    NoRoom       \* not bound to a room

\* coerce and the Room constructor clamp maxPlayers to 1..8.
ASSUME MaxPlayersAssumption == MaxPlayers \in 1..8
ASSUME MaxKicksAssumption == MaxKicks \in Nat
ASSUME NoneAssumption == NoConn \notin Conns /\ NoRoom \notin Rooms

VARIABLES
    \* the ws library and the Session objects of index.ts
    sock,        \* socket.readyState; "idle" before the connection exists
    handshaked,
    inRoom,
    \* RoomManager
    rooms,       \* keys of the map inviteCode -> Room
    playerRoom,  \* the map playerId -> inviteCode
    \* Room
    conns,       \* keys of the connections map, in insertion order
    hostId,
    \* ServerState of the room
    players,     \* keys of the players map
    flagged,     \* players whose PlayerState.isHost is true
    ticking,     \* the tick interval is set
    \* admin.ts and process signals
    kicking,     \* ids whose POST /kick handler awaits its body
    stopping     \* SIGINT or SIGTERM was handled

sessionVars == <<sock, handshaked, inRoom>>
roomVars    == <<rooms, playerRoom, conns, hostId, players, flagged, ticking>>
vars        == <<sessionVars, roomVars, kicking, stopping>>

Members(c) == ToSet(conns[c])

TypeOK ==
    /\ sock \in [Conns -> {"idle", "open", "closing", "closed"}]
    /\ handshaked \in [Conns -> BOOLEAN]
    /\ inRoom \in [Conns -> BOOLEAN]
    /\ rooms \subseteq Rooms
    /\ playerRoom \in [Conns -> Rooms \cup {NoRoom}]
    /\ conns \in [Rooms -> Seq(Conns)]
    /\ hostId \in [Rooms -> Conns \cup {NoConn}]
    /\ players \in [Rooms -> SUBSET Conns]
    /\ flagged \in [Rooms -> SUBSET Conns]
    /\ ticking \in [Rooms -> BOOLEAN]
    /\ kicking \subseteq Conns
    /\ stopping \in BOOLEAN

Init ==
    /\ sock = [p \in Conns |-> "idle"]
    /\ handshaked = [p \in Conns |-> FALSE]
    /\ inRoom = [p \in Conns |-> FALSE]
    /\ rooms = {}
    /\ playerRoom = [p \in Conns |-> NoRoom]
    /\ conns = [c \in Rooms |-> <<>>]
    /\ hostId = [c \in Rooms |-> NoConn]
    /\ players = [c \in Rooms |-> {}]
    /\ flagged = [c \in Rooms |-> {}]
    /\ ticking = [c \in Rooms |-> FALSE]
    /\ kicking = {}
    /\ stopping = FALSE

(***************************************************************************)
(* Sessions.                                                               *)
(***************************************************************************)

\* A frame of p can still arrive: ws delivers data while it is closing.
Receives(p) == sock[p] \in {"open", "closing"}

\* socket.close(): only an open socket starts closing.
Close(p) == sock' = [sock EXCEPT ![p] = IF @ = "open" THEN "closing" ELSE @]

\* wss "connection"; a server that is shutting down accepts none.
Connect(p) ==
    /\ sock[p] = "idle"
    /\ ~stopping
    /\ sock' = [sock EXCEPT ![p] = "open"]
    /\ UNCHANGED <<handshaked, inRoom, roomVars, kicking, stopping>>

\* HANDSHAKE with the server's protocol version: the session gets its id.
HandshakeAccepted(p) ==
    /\ Receives(p)
    /\ ~handshaked[p]
    /\ handshaked' = [handshaked EXCEPT ![p] = TRUE]
    /\ UNCHANGED <<sock, inRoom, roomVars, kicking, stopping>>

\* HANDSHAKE with another protocol version: JOIN_DENIED and socket.close().
HandshakeRefused(p) ==
    /\ Receives(p)
    /\ ~handshaked[p]
    /\ Close(p)
    /\ UNCHANGED <<handshaked, inRoom, roomVars, kicking, stopping>>

\* The peer begins to close: readyState leaves OPEN before "close" is emitted.
PeerCloses(p) ==
    /\ sock[p] = "open"
    /\ Close(p)
    /\ UNCHANGED <<handshaked, inRoom, roomVars, kicking, stopping>>

(***************************************************************************)
(* Joining.                                                                *)
(***************************************************************************)

\* Mutant: the "already in a room" check is missing.
MayJoinTwice(p) == Receives(p) /\ handshaked[p]

\* The guards every JOIN_REQUEST passes before it creates or joins.
MayJoin(p) == Receives(p) /\ handshaked[p] /\ ~inRoom[p]

\* bindPlayer and addPlayer: p enters room c, which has host h.
Bind(c, p, h) ==
    /\ playerRoom' = [playerRoom EXCEPT ![p] = c]
    /\ conns' = [conns EXCEPT ![c] = MapSet(@, p)]
    /\ players' = [players EXCEPT ![c] = @ \cup {p}]
    /\ flagged' = [flagged EXCEPT ![c] = IF p = h THEN @ \cup {p} ELSE @ \ {p}]
    /\ inRoom' = [inRoom EXCEPT ![p] = TRUE]

\* create: a new Room under a code no live room has (Math.random gives no
\* such promise; see the hazards), its tick timer started, and p bound to it.
JoinCreates(p, c) ==
    /\ MayJoin(p)
    /\ c \notin rooms
    /\ rooms' = rooms \cup {c}
    /\ hostId' = [hostId EXCEPT ![c] = p]
    /\ ticking' = [ticking EXCEPT ![c] = TRUE]
    /\ Bind(c, p, p)
    /\ UNCHANGED <<sock, handshaked, kicking, stopping>>

\* Mutant: off by one.
IsOverfull(c) == Len(conns[c]) > MaxPlayers

IsFull(c) == Len(conns[c]) >= MaxPlayers

\* A JOIN_REQUEST whose code, capacity and password checks all pass.
JoinExisting(p, c) ==
    /\ MayJoin(p)
    /\ c \in rooms
    /\ ~IsFull(c)
    /\ Bind(c, p, hostId[c])
    /\ UNCHANGED <<sock, handshaked, rooms, hostId, ticking, kicking, stopping>>

(***************************************************************************)
(* Leaving.                                                                *)
(***************************************************************************)

\* Mutants: the newest member inherits; the heir's flag is not set; the tick
\* timer of an emptied room is not stopped; the leaver's PlayerState is kept.
HeirNewest(left) == Last(left)
SetHostForgotten(ps, h) == ps \ {h}
TicksOn(t, left) == t
KeepPlayer(ps, p) == ps

\* reassignHost: the first connection in iteration order.
Heir(left) == Head(left)

\* ServerState.setHost: the flags of the players ps when h is host.
SetHost(ps, h) == ps \cap {h}

\* ServerState.removePlayer.
DropPlayer(ps, p) == ps \ {p}

\* state.stop() when nobody is left.
TicksAfter(t, left) == t /\ left # <<>>

\* Room.removePlayer in room c, with reassignHost when the host leaves others
\* behind; an emptied room stops ticking and leaves the manager's map.
RoomRemovePlayer(c, p) ==
    LET left     == MapDelete(conns[c], p)
        stays    == DropPlayer(players[c], p)
        reassign == p = hostId[c] /\ left # <<>>
    IN  /\ conns' = [conns EXCEPT ![c] = left]
        /\ players' = [players EXCEPT ![c] = stays]
        /\ flagged' = [flagged EXCEPT ![c] =
                          IF reassign THEN SetHost(stays, Heir(left)) ELSE @ \ {p}]
        /\ hostId' = [hostId EXCEPT ![c] =
                          CASE left = <<>> -> NoConn
                            [] reassign    -> Heir(left)
                            [] OTHER       -> @]
        /\ ticking' = [ticking EXCEPT ![c] = TicksAfter(@, left)]
        /\ rooms' = IF left = <<>> THEN rooms \ {c} ELSE rooms

\* Mutant: the player's entry in playerRoom survives.
RemovePlayerKeepsEntry(p) ==
    /\ UNCHANGED playerRoom
    /\ IF playerRoom[p] \in rooms
       THEN RoomRemovePlayer(playerRoom[p], p)
       ELSE UNCHANGED <<rooms, conns, hostId, players, flagged, ticking>>

\* RoomManager.removePlayer.
RemovePlayer(p) ==
    IF playerRoom[p] \in rooms
    THEN /\ playerRoom' = [playerRoom EXCEPT ![p] = NoRoom]
         /\ RoomRemovePlayer(playerRoom[p], p)
    ELSE /\ playerRoom' = [playerRoom EXCEPT ![p] = NoRoom]
         /\ UNCHANGED <<rooms, conns, hostId, players, flagged, ticking>>

\* "close": the session's player, if it has an id, leaves its room.
SocketClosed(p) ==
    /\ Receives(p)
    /\ sock' = [sock EXCEPT ![p] = "closed"]
    /\ IF handshaked[p] THEN RemovePlayer(p) ELSE UNCHANGED roomVars
    /\ UNCHANGED <<handshaked, inRoom, kicking, stopping>>

\* POST /kick/:id up to its await.
KickRequested(p) ==
    /\ handshaked[p]
    /\ p \notin kicking
    /\ Cardinality(kicking) < MaxKicks
    /\ kicking' = kicking \cup {p}
    /\ UNCHANGED <<sessionVars, roomVars, stopping>>

\* ... and after it: the room is looked up now, in whatever state it is.
KickCompletes(p) ==
    /\ p \in kicking
    /\ kicking' = kicking \ {p}
    /\ IF playerRoom[p] \in rooms
       THEN Close(p) /\ RemovePlayer(p)
       ELSE UNCHANGED <<sock, roomVars>>
    /\ UNCHANGED <<handshaked, inRoom, stopping>>

\* SIGINT or SIGTERM: every room stops ticking, no new connections.  Existing
\* sockets live until the process exits, so their handlers still run.
Shutdown ==
    /\ ~stopping
    /\ stopping' = TRUE
    /\ ticking' = [c \in Rooms |-> c \notin rooms /\ ticking[c]]
    /\ UNCHANGED <<sessionVars, rooms, playerRoom, conns, hostId, players,
                   flagged, kicking>>

Next ==
    \/ \E p \in Conns :
          \/ Connect(p)
          \/ HandshakeAccepted(p)
          \/ HandshakeRefused(p)
          \/ PeerCloses(p)
          \/ \E c \in Rooms : JoinCreates(p, c) \/ JoinExisting(p, c)
          \/ SocketClosed(p)
          \/ KickRequested(p)
          \/ KickCompletes(p)
    \/ Shutdown

Spec == Init /\ [][Next]_vars

-------------------------------------------------------------------------------
(***************************************************************************)
(* Safety.                                                                 *)
(***************************************************************************)

\* The manager's map, a room's connections and its ServerState, updated by
\* join, close and kick in three different files, name the same members, each
\* of them once.
MembershipAgrees ==
    \A c \in Rooms :
        /\ \A p \in Conns : playerRoom[p] = c <=> p \in Members(c)
        /\ players[c] = Members(c)
        /\ \A i, j \in DOMAIN conns[c] : conns[c][i] = conns[c][j] => i = j

\* A room in the map has members, and its host is the one who joined first of
\* those present, however joins, closes and kicks interleave.
HostIsOldestMember ==
    \A c \in rooms : conns[c] # <<>> /\ hostId[c] = Head(conns[c])

\* The PlayerStates the server sends out flag the host and nobody else.
HostFlagAgrees == \A c \in rooms : flagged[c] = {hostId[c]}

\* A destroyed room keeps nothing: no member, no player state, no running
\* timer; and while the server runs, every live room ticks.
NoRoomLeaks ==
    /\ \A c \in Rooms \ rooms :
          conns[c] = <<>> /\ players[c] = {} /\ flagged[c] = {} /\ ~ticking[c]
    /\ ~stopping => \A c \in rooms : ticking[c]

\* A seat is held only by a session that passed the handshake and the join
\* and whose close has not been handled; no room seats more than maxPlayers.
SeatsAreEarned ==
    /\ \A p \in Conns : playerRoom[p] # NoRoom =>
          Receives(p) /\ handshaked[p] /\ inRoom[p]
    /\ \A c \in Rooms : Len(conns[c]) <= MaxPlayers

\* The members that stay keep their order and a newcomer goes last, so a host
\* that stays is never demoted and its successor is the next in seniority.
SeniorityKept ==
    [][\A c \in rooms \cap rooms' :
          /\ \A p \in Members(c) \cap Members(c)', q \in Members(c)' :
                q \notin Members(c) \/ ComesBefore(conns[c], p, q)
                    => ComesBefore(conns'[c], p, q)
          /\ hostId'[c] # hostId[c] => hostId[c] \notin Members(c)']_vars

\* A session enters at most one room in its life: a member is never moved to
\* another room, and one that was removed (kicked while its socket is still
\* closing, say) never gets in again.
OneRoomPerSession ==
    [][\A p \in Conns :
          inRoom[p] => playerRoom'[p] \in {playerRoom[p], NoRoom}]_vars

===============================================================================
