----------------------------- MODULE CombatRelay ------------------------------
(***************************************************************************)
(* Combat over the relay: CombatSync of every client (combat_sync.cpp),    *)
(* the RPC_CALL handlers of Session (session.cpp) and of the server        *)
(* (index.ts), and the host succession of the room.  An attack goes to the *)
(* room's host, whose client works out the damage and sends it back for    *)
(* everyone else; clients lose their connections and come back under a new *)
(* id, while WsClient keeps what it has queued.                            *)
(*                                                                         *)
(* Connections are numbered in the order they are opened, and the number   *)
(* stands for the player id.  HANDSHAKE and its answer are folded into     *)
(* Connects: until JOIN_REQUEST is handled the server knows no room for    *)
(* the session, with or without a handshake.                               *)
(***************************************************************************)
EXTENDS Naturals, FiniteSets, OrderedMap

CONSTANTS
    Clients,   \* game processes
    Hosting,   \* those whose user presses Host; the others press Join
    MaxConns,  \* bound: connections opened
    MaxRpcs    \* bound: attacks and skills

NoRoom == 0
Conns  == 1..MaxConns
Rooms  == 1..MaxConns   \* rooms in the order they are created
Rpcs   == 1..MaxRpcs    \* attacks and skills in the order they are made

ASSUME CombatAssumption ==
    Hosting \subseteq Clients /\ MaxConns \in Nat /\ MaxRpcs \in Nat

VARIABLES
    \* the client
    cur,     \* its open connection, 0 if none: connected_
    me,      \* localId_: its last connection
    isHost,  \* CombatSync's isHost_
    out,     \* sendQueue_
    down,    \* frames to its connection that it has not handled
    \* the server
    owner,   \* history: the client that opened a connection
    alive,   \* connections whose close event it has not seen
    up,      \* frames of a connection it has not handled
    room,    \* members of each room, in order of arrival; the first is host
    seat,    \* history: the room a connection has joined
    \* history of the RPCs
    made,    \* how many there are
    sent,    \* attacks handed to a host: the room, the host, the others
    heard    \* damage handled by a client: connection and attack

clientVars == <<cur, me, isHost, out, down>>
serverVars == <<owner, alive, up, room, seat>>
rpcVars    == <<made, sent, heard>>
vars       == <<clientVars, serverVars, rpcVars>>

JoinRequest   == [t |-> "JOIN_REQUEST"]
JoinAck(h)    == [t |-> "JOIN_ACK", isHost |-> h]
HostReassign(k) == [t |-> "HOST_REASSIGN", newHostId |-> k]
Rpc(type, n)  == [t |-> type, n |-> n]

RpcFrame == [t : {"attack", "skill", "damage"}, n : Rpcs]
UpFrame  == {JoinRequest} \cup RpcFrame
DownFrame == [t : {"JOIN_ACK"}, isHost : BOOLEAN]
             \cup [t : {"HOST_REASSIGN"}, newHostId : Conns] \cup RpcFrame

NotSent == [room |-> NoRoom, host |-> 0, others |-> {}]

RelayTypeOK ==
    /\ cur \in [Clients -> 0..MaxConns]
    /\ me \in [Clients -> 0..MaxConns]
    /\ isHost \in [Clients -> BOOLEAN]
    /\ out \in [Clients -> Seq(UpFrame)]
    /\ down \in [Clients -> Seq(DownFrame)]
    /\ owner \in Seq(Clients) /\ Len(owner) <= MaxConns
    /\ alive \subseteq DOMAIN owner
    /\ up \in [Conns -> Seq(UpFrame)]
    /\ room \in [Rooms -> Seq(Conns)]
    /\ seat \in [Conns -> Rooms \cup {NoRoom}]
    /\ made \in 0..MaxRpcs
    /\ sent \in [Rpcs -> [room : Rooms \cup {NoRoom}, host : 0..MaxConns, others : SUBSET Conns]]
    /\ heard \subseteq Conns \X Rpcs
    /\ \A r \in Rooms : IsInjective(room[r]) /\ ToSet(room[r]) \subseteq alive

RelayInit ==
    /\ cur = [c \in Clients |-> 0]
    /\ me = [c \in Clients |-> 0]
    /\ isHost = [c \in Clients |-> FALSE]
    /\ out = [c \in Clients |-> <<>>]
    /\ down = [c \in Clients |-> <<>>]
    /\ owner = <<>>
    /\ alive = {}
    /\ up = [k \in Conns |-> <<>>]
    /\ room = [r \in Rooms |-> <<>>]
    /\ seat = [k \in Conns |-> NoRoom]
    /\ made = 0
    /\ sent = [n \in Rpcs |-> NotSent]
    /\ heard = {}

(***************************************************************************)
(* The client.                                                             *)
(***************************************************************************)
\* The worker opens its next connection once the last is handled to the end.
Connects(c) ==
    /\ cur[c] = 0
    /\ down[c] = <<>>
    /\ Len(owner) < MaxConns
    /\ LET k == Len(owner) + 1 IN
       /\ cur' = [cur EXCEPT ![c] = k]
       /\ me' = [me EXCEPT ![c] = k]
       /\ owner' = Append(owner, c)
       /\ alive' = alive \cup {k}
    /\ UNCHANGED <<isHost, out, down, up, room, seat, rpcVars>>

\* Mutant: the request overtakes what an earlier connection left behind.
QueuesRequestFirst(c) == out' = [out EXCEPT ![c] = <<JoinRequest>> \o @]

QueuesRequest(c) == out' = [out EXCEPT ![c] = Append(@, JoinRequest)]

\* HANDSHAKE_ACK: one JOIN_REQUEST for each connection.
RequestsJoin(c) ==
    /\ cur[c] # 0
    /\ seat[cur[c]] = NoRoom
    /\ JoinRequest \notin ToSet(out[c]) \cup ToSet(up[cur[c]])
    /\ QueuesRequest(c)
    /\ UNCHANGED <<cur, me, isHost, down, serverVars, rpcVars>>

\* HookedAttack and HookedSkill, called by the game when its player acts.
LocalRpc(c, type) ==
    /\ cur[c] # 0
    /\ made < MaxRpcs
    /\ made' = made + 1
    /\ out' = [out EXCEPT ![c] = Append(@, Rpc(type, made + 1))]
    /\ UNCHANGED <<cur, me, isHost, down, serverVars, sent, heard>>

Flush(c) ==
    /\ cur[c] # 0
    /\ out[c] # <<>>
    /\ up' = [up EXCEPT ![cur[c]] = @ \o out[c]]
    /\ out' = [out EXCEPT ![c] = <<>>]
    /\ UNCHANGED <<cur, me, isHost, down, owner, alive, room, seat, rpcVars>>

\* The connection breaks, or the user leaves: what one recv has returned is
\* still handled, and isHost_ stays.
LosesConnection(c) ==
    /\ cur[c] # 0
    /\ cur' = [cur EXCEPT ![c] = 0]
    /\ \E n \in 0..Len(down[c]) : down' = [down EXCEPT ![c] = SubSeq(@, 1, n)]
    /\ UNCHANGED <<me, isHost, out, serverVars, rpcVars>>

\* Mutant: only JOIN_ACK sets the flag of CombatSync.
HostFlagForgotten(c, m) == IF m.t = "JOIN_ACK" THEN m.isHost ELSE isHost[c]

\* SetHost, on JOIN_ACK and HOST_REASSIGN.
HostFlag(c, m) == IF m.t = "JOIN_ACK" THEN m.isHost ELSE m.newHostId = me[c]

\* HandleAttackRpc: the host works out the damage and sends it.
HandleAttackRpc(c, n) ==
    out' = IF isHost[c] THEN [out EXCEPT ![c] = Append(@, Rpc("damage", n))] ELSE out

\* HandleDamageRpc looks for an entity of the game, as does HandleSkillRpc, and
\* no code resolves one: the history is all that changes.
HandleDamageRpc(c, n) == heard' = heard \cup {<<me[c], n>>}
HandleSkillRpc(c)     == UNCHANGED heard

\* Session::OnPacket for the frames of combat and of the host.
OnPacket(c) ==
    LET m == Head(down[c]) IN
    /\ down[c] # <<>>
    /\ down' = [down EXCEPT ![c] = Tail(@)]
    /\ \/ /\ m.t \in {"JOIN_ACK", "HOST_REASSIGN"}
          /\ isHost' = [isHost EXCEPT ![c] = HostFlag(c, m)]
          /\ UNCHANGED <<out, heard>>
       \/ /\ m.t = "attack"
          /\ HandleAttackRpc(c, m.n)
          /\ UNCHANGED <<isHost, heard>>
       \/ /\ m.t = "damage"
          /\ HandleDamageRpc(c, m.n)
          /\ UNCHANGED <<isHost, out>>
       \/ /\ m.t = "skill"
          /\ HandleSkillRpc(c)
          /\ UNCHANGED <<isHost, out>>
    /\ UNCHANGED <<cur, me, serverVars, made, sent>>

(***************************************************************************)
(* The server.                                                             *)
(***************************************************************************)
\* What the clients get when m is sent to the connections ks: nothing, if the
\* connection is gone.
To(d, ks, m) ==
    [c \in Clients |-> IF cur[c] \in ks THEN Append(d[c], m) ELSE d[c]]

RoomOf(k) == IF \E r \in Rooms : k \in ToSet(room[r])
             THEN CHOOSE r \in Rooms : k \in ToSet(room[r]) ELSE NoRoom

Handles(k, type) ==
    /\ k \in alive
    /\ up[k] # <<>>
    /\ Head(up[k]).t = type
    /\ up' = [up EXCEPT ![k] = Tail(@)]
    /\ UNCHANGED <<cur, me, isHost, out, owner, alive, made, heard>>

\* onJoinRequest: a new room for who hosts, a live one for who joins.
OnJoinRequest(k, r) ==
    /\ Handles(k, "JOIN_REQUEST")
    /\ RoomOf(k) = NoRoom
    /\ IF owner[k] \in Hosting THEN r = Cardinality({seat[j] : j \in Conns} \ {NoRoom}) + 1
                               ELSE room[r] # <<>>
    /\ room' = [room EXCEPT ![r] = MapSet(@, k)]
    /\ seat' = [seat EXCEPT ![k] = r]
    /\ down' = To(down, {k}, JoinAck(room[r] = <<>>))
    /\ UNCHANGED sent

\* JOIN_DENIED: a wrong code or password, a full room.
OnJoinDenied(k) ==
    /\ Handles(k, "JOIN_REQUEST")
    /\ UNCHANGED <<room, seat, down, sent>>

Others(r, k) == ToSet(room[r]) \ {k}

\* Mutant: the branch for attacks runs on into the generic relay.
RelayAttackTwice(k, r, n) ==
    down' = To(To(down, {Head(room[r])}, Rpc("attack", n)), Others(r, k), Rpc("attack", n))

\* Mutant: a relay never answers its sender, here the host itself.
RelayAttackToOthers(k, r, n) == down' = To(down, {Head(room[r])} \ {k}, Rpc("attack", n))

RelayAttack(k, r, n) == down' = To(down, {Head(room[r])}, Rpc("attack", n))

OnAttack(k) ==
    LET r == RoomOf(k)
        n == Head(up[k]).n
    IN
    /\ Handles(k, "attack")
    /\ IF r = NoRoom THEN UNCHANGED <<down, sent>>
       ELSE /\ RelayAttack(k, r, n)
            /\ sent' = [sent EXCEPT ![n] = [room |-> r, host |-> Head(room[r]),
                                            others |-> Others(r, Head(room[r]))]]
    /\ UNCHANGED <<room, seat>>

\* Damage counts when it comes from the room's host.
OnDamage(k) ==
    LET r == RoomOf(k) IN
    /\ Handles(k, "damage")
    /\ down' = IF r # NoRoom /\ Head(room[r]) = k THEN To(down, Others(r, k), Head(up[k]))
                                                  ELSE down
    /\ UNCHANGED <<room, seat, sent>>

\* The generic relay.
OnSkill(k) ==
    LET r == RoomOf(k) IN
    /\ Handles(k, "skill")
    /\ down' = IF r # NoRoom THEN To(down, Others(r, k), Head(up[k])) ELSE down
    /\ UNCHANGED <<room, seat, sent>>

\* reassignHost tells the whole room.
Reassigns(r, rest) ==
    down' = IF rest # <<>> /\ Head(rest) # Head(room[r])
            THEN To(down, ToSet(rest), HostReassign(Head(rest))) ELSE down

LeavesRoom(r, k) == room' = [room EXCEPT ![r] = MapDelete(@, k)]

\* The close event, at any time after the connection is gone.
OnClose(k) ==
    LET r == RoomOf(k) IN
    /\ k \in alive
    /\ cur[owner[k]] # k
    /\ alive' = alive \ {k}
    /\ up' = [up EXCEPT ![k] = <<>>]
    /\ IF r = NoRoom THEN UNCHANGED <<room, down>>
       ELSE /\ LeavesRoom(r, k)
            /\ Reassigns(r, MapDelete(room[r], k))
    /\ UNCHANGED <<cur, me, isHost, out, owner, seat, rpcVars>>

OnMessage(k) ==
    \/ \E r \in Rooms : OnJoinRequest(k, r)
    \/ OnJoinDenied(k)
    \/ OnAttack(k)
    \/ OnDamage(k)
    \/ OnSkill(k)

RelayNext ==
    \/ \E c \in Clients :
          \/ Connects(c)
          \/ RequestsJoin(c)
          \/ \E type \in {"attack", "skill"} : LocalRpc(c, type)
          \/ Flush(c)
          \/ LosesConnection(c)
          \/ OnPacket(c)
    \/ \E k \in Conns : OnMessage(k) \/ OnClose(k)

\* The worker threads and the server run; nobody has to connect, to fight, or
\* to lose a connection.
RelaySpec ==
    /\ RelayInit
    /\ [][RelayNext]_vars
    /\ \A c \in Clients : WF_vars(Flush(c)) /\ WF_vars(OnPacket(c))
    /\ \A k \in Conns : WF_vars(OnMessage(k))

-------------------------------------------------------------------------------
(***************************************************************************)
(* Safety.                                                                 *)
(***************************************************************************)

\* Hosts change while attacks are on their way, and the flag an attack is
\* judged by lives in the client: whoever is handed an attack knows by then
\* that it is the host, so no attack is dropped by HandleAttackRpc.
AttacksReachAHost ==
    \A c \in Clients :
        down[c] # <<>> /\ Head(down[c]).t = "attack" => isHost[c]

\* Queues outlive connections, and a client may come back into another room:
\* nobody is handed damage of a room it is not in.
DamageStaysInItsRoom ==
    \A c \in Clients : \A m \in ToSet(down[c]) :
        m.t = "damage" => seat[me[c]] = sent[m.n].room

\* However hosts and connections change, nobody takes the damage of an attack
\* twice.
AnsweredOnce ==
    \A c \in Clients : \A i \in DOMAIN down[c] :
        down[c][i].t = "damage" =>
            /\ <<me[c], down[c][i].n>> \notin heard
            /\ \A j \in DOMAIN down[c] : down[c][j] = down[c][i] => j = i

(***************************************************************************)
(* Liveness.                                                               *)
(***************************************************************************)

\* An attack that was handed to a host is answered to everyone else who was
\* there, unless the host's connection, or theirs, is lost.
AttackIsAnswered ==
    \A n \in Rpcs, c \in Clients :
        cur[c] # 0 /\ cur[c] \in sent[n].others
        ~> \/ <<me[c], n>> \in heard
           \/ me[c] \notin sent[n].others
           \/ cur[c] = 0
           \/ \A d \in Clients : cur[d] # sent[n].host

===============================================================================
