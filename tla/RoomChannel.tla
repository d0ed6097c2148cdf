----------------------------- MODULE RoomChannel ------------------------------
(***************************************************************************)
(* The room server and the clients connected to it: RoomServer, one FIFO   *)
(* of frames in each direction of every connection, and what a client's    *)
(* Session (session.cpp) and PlayerSync (player_sync.cpp) make of the      *)
(* frames.  A step of the server is a step of RoomServer together with the *)
(* frames its handler sends, in the order in which it sends them.          *)
(*                                                                         *)
(* A connection is one life of one client's socket.  What a client keeps   *)
(* over a reconnect is not part of this module.                            *)
(***************************************************************************)
EXTENDS RoomServer

CONSTANT MaxUpdates  \* bound: STATE_UPDATEs a member has not handled yet
ASSUME MaxUpdatesAssumption == MaxUpdates \in Nat

VARIABLES
    down,     \* frames from the server a client has not handled
    up,       \* frames from a client the server has not handled
    status,   \* Session.status_
    believes, \* Session.isHost_
    remotes   \* keys of PlayerSync.remotes_

clientVars  == <<status, believes, remotes>>
channelVars == <<down, up, clientVars>>
allVars     == <<vars, channelVars>>

(***************************************************************************)
(* Frames.                                                                 *)
(***************************************************************************)
HandshakeAck      == [t |-> "HANDSHAKE_ACK"]
JoinDenied        == [t |-> "JOIN_DENIED"]
JoinAck(host, ps) == [t |-> "JOIN_ACK", isHost |-> host, players |-> ps]
PlayerJoin(p)     == [t |-> "PLAYER_JOIN", player |-> p]
PlayerLeave(p)    == [t |-> "PLAYER_LEAVE", playerId |-> p]
HostReassign(p)   == [t |-> "HOST_REASSIGN", newHostId |-> p]
StateUpdate(ps)   == [t |-> "STATE_UPDATE", players |-> ps]
Kick(p)           == [t |-> "KICK", playerId |-> p]

DownFrame ==
    [t : {"HANDSHAKE_ACK", "JOIN_DENIED"}]
    \cup [t : {"JOIN_ACK"}, isHost : BOOLEAN, players : SUBSET Conns]
    \cup [t : {"PLAYER_JOIN"}, player : Conns]
    \cup [t : {"PLAYER_LEAVE", "KICK"}, playerId : Conns]
    \cup [t : {"HOST_REASSIGN"}, newHostId : Conns]
    \cup [t : {"STATE_UPDATE"}, players : SUBSET Conns]

Handshake         == [t |-> "HANDSHAKE"]
CreateRequest     == [t |-> "JOIN_REQUEST", create |-> TRUE]
JoinRequest(c)    == [t |-> "JOIN_REQUEST", create |-> FALSE, inviteCode |-> c]

UpFrame == {Handshake, CreateRequest} \cup {JoinRequest(c) : c \in Rooms}

ChannelTypeOK ==
    /\ TypeOK
    /\ down \in [Conns -> Seq(DownFrame)]
    /\ up \in [Conns -> Seq(UpFrame)]
    /\ status \in [Conns -> {"connecting", "connected", "insession", "failed"}]
    /\ believes \in [Conns -> BOOLEAN]
    /\ remotes \in [Conns -> SUBSET Conns]

ChannelInit ==
    /\ Init
    /\ down = [p \in Conns |-> <<>>]
    /\ up = [p \in Conns |-> <<>>]
    /\ status = [p \in Conns |-> "connecting"]
    /\ believes = [p \in Conns |-> FALSE]
    /\ remotes = [p \in Conns |-> {}]

(***************************************************************************)
(* Sending.  send and safeSend skip a socket that is not OPEN.             *)
(***************************************************************************)
Broadcast(ch, ps, m) ==
    [q \in Conns |-> IF q \in ps /\ sock[q] = "open" THEN Append(ch[q], m) ELSE ch[q]]

SendTo(ch, p, m) == Broadcast(ch, {p}, m)

\* Mutant: reassignHost broadcasts nothing.
LeaveFramesSilent(ch, p) ==
    IF playerRoom[p] \in rooms
    THEN Broadcast(ch, Members(playerRoom[p]) \ {p}, PlayerLeave(p))
    ELSE ch

\* What removePlayer announces to those who stay: the leave, then the heir.
LeaveFrames(ch, p) ==
    LET c    == playerRoom[p]
        rest == Members(c) \ {p}
        ch1  == Broadcast(ch, rest, PlayerLeave(p))
    IN  IF c \notin rooms THEN ch
        ELSE IF p = hostId[c] /\ rest # {}
             THEN Broadcast(ch1, rest, HostReassign(hostId'[c]))
             ELSE ch1

(***************************************************************************)
(* The server.                                                             *)
(***************************************************************************)

\* The next frame of p's session, handled.
Handles(p, m) == up[p] # <<>> /\ Head(up[p]) = m /\ up' = [up EXCEPT ![p] = Tail(@)]

\* The client's OnConnected sends HANDSHAKE.
OpenConnection(p) ==
    /\ Connect(p)
    /\ up' = [up EXCEPT ![p] = <<Handshake>>]
    /\ UNCHANGED <<down, clientVars>>

OnHandshake(p) ==
    /\ Handles(p, Handshake)
    /\ \/ HandshakeAccepted(p) /\ down' = SendTo(down, p, HandshakeAck)
       \/ HandshakeRefused(p) /\ down' = SendTo(down, p, JoinDenied)
    /\ UNCHANGED clientVars

\* Mutant: PLAYER_JOIN goes to the joiner, too, before its JOIN_ACK.
WelcomeEveryone(p, c) ==
    down' = SendTo(Broadcast(down, Members(c) \cup {p}, PlayerJoin(p)),
                   p, JoinAck(hostId'[c] = p, players[c]))

\* JOIN_ACK lists the players that were there before p.
Welcome(p, c) ==
    down' = SendTo(Broadcast(down, Members(c) \ {p}, PlayerJoin(p)),
                   p, JoinAck(hostId'[c] = p, players[c]))

OnCreateRequest(p, c) ==
    /\ Handles(p, CreateRequest)
    /\ JoinCreates(p, c)
    /\ Welcome(p, c)
    /\ UNCHANGED clientVars

\* A wrong password may deny any join; an unknown code and a full room must.
OnJoinRequest(p, c) ==
    /\ Handles(p, JoinRequest(c))
    /\ \/ JoinExisting(p, c) /\ Welcome(p, c)
       \/ /\ Receives(p)
          /\ down' = SendTo(down, p, JoinDenied)
          /\ UNCHANGED vars
    /\ UNCHANGED clientVars

\* The connection is gone, with the frames in flight and, for this module,
\* the view its client had of it.
OnClose(p) ==
    /\ SocketClosed(p)
    /\ down' = [LeaveFrames(down, p) EXCEPT ![p] = <<>>]
    /\ up' = [up EXCEPT ![p] = <<>>]
    /\ status' = [status EXCEPT ![p] = "connecting"]
    /\ believes' = [believes EXCEPT ![p] = FALSE]
    /\ remotes' = [remotes EXCEPT ![p] = {}]

\* The room, the kicked player included, hears KICK before the socket closes.
OnKick(p) ==
    /\ KickCompletes(p)
    /\ down' = IF playerRoom[p] \in rooms
               THEN LeaveFrames(Broadcast(down, Members(playerRoom[p]), Kick(p)), p)
               ELSE down
    /\ UNCHANGED <<up, clientVars>>

Unread(q, type) == Cardinality({i \in DOMAIN down[q] : down[q][i].t = type})

\* ServerState.tick and broadcastDiff: any players may have changed since the
\* last tick.
Tick(c, changed) ==
    /\ ticking[c]
    /\ changed \subseteq players[c]
    /\ changed # {}
    /\ \A q \in Members(c) : Unread(q, "STATE_UPDATE") < MaxUpdates
    /\ down' = Broadcast(down, Members(c), StateUpdate(changed))
    /\ UNCHANGED <<vars, up, clientVars>>

Quiet(p) ==
    /\ PeerCloses(p) \/ KickRequested(p)
    /\ UNCHANGED channelVars

(***************************************************************************)
(* The client: Session::OnPacket.                                          *)
(***************************************************************************)
Receive(p, type) ==
    /\ down[p] # <<>>
    /\ Head(down[p]).t = type
    /\ down' = [down EXCEPT ![p] = Tail(@)]
    /\ UNCHANGED vars

\* The id is known; Host or Join decides what is asked of the server.
ReceiveHandshakeAck(p) ==
    /\ Receive(p, "HANDSHAKE_ACK")
    /\ status' = [status EXCEPT ![p] = "connected"]
    /\ \E m \in UpFrame \ {Handshake} : up' = [up EXCEPT ![p] = Append(@, m)]
    /\ UNCHANGED <<believes, remotes>>

\* Mutant: our own id becomes a remote.
AppliedToSelf(p, ps) == remotes[p] \cup ps

\* PlayerSync::ApplyStateUpdate: every id but our own becomes a remote.
Applied(p, ps) == remotes[p] \cup (ps \ {p})

ReceiveJoinAck(p) ==
    LET m == Head(down[p]) IN
    /\ Receive(p, "JOIN_ACK")
    /\ status' = [status EXCEPT ![p] = "insession"]
    /\ believes' = [believes EXCEPT ![p] = m.isHost]
    /\ remotes' = [remotes EXCEPT ![p] = Applied(p, m.players)]
    /\ UNCHANGED up

ReceiveJoinDenied(p) ==
    /\ Receive(p, "JOIN_DENIED")
    /\ status' = [status EXCEPT ![p] = "failed"]
    /\ UNCHANGED <<up, believes, remotes>>

ReceivePlayers(p) ==
    LET m == Head(down[p]) IN
    /\ \/ /\ Receive(p, "PLAYER_JOIN")
          /\ remotes' = [remotes EXCEPT ![p] = Applied(p, {m.player})]
       \/ /\ Receive(p, "STATE_UPDATE")
          /\ remotes' = [remotes EXCEPT ![p] = Applied(p, m.players)]
       \/ /\ Receive(p, "PLAYER_LEAVE")
          /\ remotes' = [remotes EXCEPT ![p] = @ \ {m.playerId}]
    /\ UNCHANGED <<up, status, believes>>

\* Mutant: the handler does not look at newHostId.
ReceiveHostReassignBlindly(p) ==
    /\ Receive(p, "HOST_REASSIGN")
    /\ believes' = [believes EXCEPT ![p] = TRUE]
    /\ UNCHANGED <<up, status, remotes>>

ReceiveHostReassign(p) ==
    /\ Receive(p, "HOST_REASSIGN")
    /\ believes' = [believes EXCEPT ![p] = Head(down[p]).newHostId = p]
    /\ UNCHANGED <<up, status, remotes>>

\* The handler does not look at playerId.
ReceiveKick(p) ==
    /\ Receive(p, "KICK")
    /\ status' = [status EXCEPT ![p] = "failed"]
    /\ UNCHANGED <<up, believes, remotes>>

OnPacket(p) ==
    \/ ReceiveHandshakeAck(p)
    \/ ReceiveJoinAck(p)
    \/ ReceiveJoinDenied(p)
    \/ ReceivePlayers(p)
    \/ ReceiveHostReassign(p)
    \/ ReceiveKick(p)

ChannelNext ==
    \/ \E p \in Conns :
          \/ OpenConnection(p)
          \/ OnHandshake(p)
          \/ \E c \in Rooms : OnCreateRequest(p, c) \/ OnJoinRequest(p, c)
          \/ OnClose(p)
          \/ OnKick(p)
          \/ Quiet(p)
          \/ OnPacket(p)
    \/ \E c \in Rooms, changed \in SUBSET Conns : Tick(c, changed)
    \/ Shutdown /\ UNCHANGED channelVars

\* TCP delivers, and the client's receive loop handles, every frame of a
\* connection that stays up.  Nothing else is required to happen.
ChannelSpec ==
    /\ ChannelInit
    /\ [][ChannelNext]_allVars
    /\ \A p \in Conns : WF_allVars(OnPacket(p))

-------------------------------------------------------------------------------
(***************************************************************************)
(* Safety.                                                                 *)
(***************************************************************************)

\* The players a frame brings into the receiver's table.
Mentions(m) ==
    CASE m.t \in {"JOIN_ACK", "STATE_UPDATE"} -> m.players
      [] m.t = "PLAYER_JOIN" -> {m.player}
      [] OTHER -> {}

\* Two clients of a room never both act as host, however late their frames
\* are: a seated client that believes it is host is the server's host.
OneBeliever ==
    \A p \in Conns :
        believes[p] /\ playerRoom[p] # NoRoom => hostId[playerRoom[p]] = p

\* A client that has handled everything sent to it shows exactly the other
\* members of its room and knows whether it is host.
CaughtUpViewIsExact ==
    \A p \in Conns :
        playerRoom[p] # NoRoom /\ sock[p] = "open" /\ down[p] = <<>> =>
            /\ remotes[p] = Members(playerRoom[p]) \ {p}
            /\ believes[p] <=> hostId[playerRoom[p]] = p

\* However joins, leaves and ticks interleave, the frames of a client come in
\* an order it can apply: JOIN_ACK, whose snapshot starts its table, before
\* every frame about the room, and after a PLAYER_LEAVE nothing that would bring
\* the player back as a ghost.
FramesKeepOrder ==
    \A p \in Conns : \A i, j \in DOMAIN down[p] : i < j =>
        /\ down[p][j].t = "JOIN_ACK" =>
              down[p][i].t \in {"HANDSHAKE_ACK", "JOIN_DENIED"}
        /\ down[p][i].t = "PLAYER_LEAVE" =>
              down[p][i].playerId \notin Mentions(down[p][j])

(***************************************************************************)
(* Liveness.                                                               *)
(***************************************************************************)

\* Whoever the server makes host learns it, unless it stops being host or its
\* connection ends: no room goes on with a host that does not know.
HostLearns ==
    \A p \in Conns, c \in Rooms :
        hostId[c] = p ~> believes[p] \/ hostId[c] # p \/ sock[p] # "open"

(***************************************************************************)
(* "Kick a player" (docs/protocol.md:180), "Force-disconnect a player"     *)
(* (manager.ts:65): a KICK ends the session of the player it names.        *)
(***************************************************************************)
KickEndsOnlyTheKicked ==
    [][\A p \in Conns :
          status[p] = "insession" /\ status'[p] = "failed" =>
              Head(down[p]) = Kick(p)]_allVars

===============================================================================
