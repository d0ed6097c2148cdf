---------------------------- MODULE ClientSession ------------------------------
(***************************************************************************)
(* One game process over many connections: Session (session.cpp) driven by *)
(* the UI, WsClient (net/client.cpp) with its worker thread, send queue    *)
(* and reconnection, and as much of the server as answers them.            *)
(*                                                                         *)
(* The UI thread (which also renders and calls Session::Tick) and the      *)
(* worker interleave.  Connect joins the worker before it starts another,  *)
(* LeaveSession does not; what one recv returned is handled to the end     *)
(* before the worker looks at running_ again.  Connections are numbered,   *)
(* and the number stands for the player id the server gives it.            *)
(***************************************************************************)
EXTENDS Naturals, Sequences

CONSTANTS
    Rooms,     \* invite codes
    Mates,     \* other players
    MaxConns,  \* bound: connections the process opens
    MaxQueue,  \* bound: frames unsent or unhandled when the game sends one
    MaxDown,   \* bound: frames unread when a mate comes or goes, or
               \*   somebody is kicked
    NoRoom

ASSUME ClientBoundsAssumption == MaxConns \in Nat /\ MaxQueue \in Nat /\ MaxDown \in Nat
ASSUME CodesAssumption == NoRoom \notin Rooms /\ "create" \notin Rooms
ASSUME MatesAssumption == Mates \cap (0..MaxConns) = {}

VARIABLES
    \* Session
    ui,         \* "free", or "connect": in Connect, waiting for the worker
    asked,      \* wantCreate_ and pendingInviteCode_: "create" or a code
    status,     \* status_
    lastError,  \* lastError_
    shown,      \* inviteCode_
    localId,    \* localId_, of Session and of PlayerSync
    remotes,    \* keys of PlayerSync's remotes_
    entered,    \* history: the room entered since Connect started its worker
    \* WsClient
    running,    \* running_
    worker,     \* "idle", "connecting", "serving" (connected_) or "backoff"
    queue,      \* sendQueue_
    rx,         \* frames received and not handled
    \* the network
    conn,       \* connections opened so far; the last one is the current
    link,       \* the current one: "none", "open" or "lost"
    up, down,   \* frames in flight on each connection
    \* the server
    alive,      \* connections whose close event it has not seen
    greeted,    \* connections whose session is handshaked
    seat,       \* the room of each connection
    mates       \* the other players in each room

uiVars     == <<ui, asked, status, lastError, shown, localId, remotes, entered>>
workerVars == <<running, worker, queue, rx>>
netVars    == <<conn, link, up, down>>
serverVars == <<alive, greeted, seat, mates>>
vars       == <<uiVars, workerVars, netVars, serverVars>>

Conns   == 1..MaxConns
Players == Conns \cup Mates
Ask     == {"create"} \cup Rooms

(***************************************************************************)
(* Frames.  The requests and the game's own frames carry, as history, the  *)
(* connection they were queued on.                                         *)
(***************************************************************************)
Handshake         == [t |-> "HANDSHAKE"]
JoinRequest(a, k) == [t |-> "JOIN_REQUEST", ask |-> a, on |-> k]
GameFrame(k)      == [t |-> "GAME", on |-> k]

UpFrame == {Handshake} \cup [t : {"JOIN_REQUEST"}, ask : Ask, on : 0..MaxConns]
                       \cup [t : {"GAME"}, on : 0..MaxConns]

HandshakeAck(k) == [t |-> "HANDSHAKE_ACK", id |-> k]
JoinAck(r, ps)  == [t |-> "JOIN_ACK", room |-> r, players |-> ps]
JoinDenied      == [t |-> "JOIN_DENIED"]
PlayerJoin(x)   == [t |-> "PLAYER_JOIN", player |-> x]
PlayerLeave(x)  == [t |-> "PLAYER_LEAVE", player |-> x]
Kick            == [t |-> "KICK"]
CloseFrame      == [t |-> "CLOSE"]

DownFrame == [t : {"HANDSHAKE_ACK"}, id : Conns]
             \cup [t : {"JOIN_ACK"}, room : Rooms, players : SUBSET Players]
             \cup [t : {"PLAYER_JOIN", "PLAYER_LEAVE"}, player : Players]
             \cup {JoinDenied, Kick, CloseFrame}

\* Every variable has its type, and only a serving worker has a socket.
SessionTypeOK ==
    /\ ui \in {"free", "connect"}
    /\ asked \in Ask
    /\ status \in {"disconnected", "connecting", "connected", "insession", "failed"}
    /\ lastError \in {"none", "denied", "kicked"}
    /\ shown \in Rooms \cup {NoRoom}
    /\ localId \in 0..MaxConns
    /\ remotes \subseteq Players
    /\ entered \in Rooms \cup {NoRoom}
    /\ running \in BOOLEAN
    /\ worker \in {"idle", "connecting", "serving", "backoff"}
    /\ queue \in Seq(UpFrame)
    /\ rx \in Seq(DownFrame)
    /\ conn \in 0..MaxConns
    /\ link \in {"none", "open", "lost"}
    /\ worker # "serving" => link = "none"
    /\ up \in [Conns -> Seq(UpFrame)]
    /\ down \in [Conns -> Seq(DownFrame)]
    /\ alive \subseteq Conns
    /\ greeted \subseteq Conns
    /\ seat \in [Conns -> Rooms \cup {NoRoom}]
    /\ mates \in [Rooms -> SUBSET Mates]

SessionInit ==
    /\ ui = "free"
    /\ asked = "create"
    /\ status = "disconnected"
    /\ lastError = "none"
    /\ shown = NoRoom
    /\ localId = 0
    /\ remotes = {}
    /\ entered = NoRoom
    /\ running = FALSE
    /\ worker = "idle"
    /\ queue = <<>>
    /\ rx = <<>>
    /\ conn = 0
    /\ link = "none"
    /\ up = [k \in Conns |-> <<>>]
    /\ down = [k \in Conns |-> <<>>]
    /\ alive = {}
    /\ greeted = {}
    /\ seat = [k \in Conns |-> NoRoom]
    /\ mates \in {f \in [Rooms -> SUBSET Mates] :
                    \A r, s \in Rooms : r # s => f[r] \cap f[s] = {}}

(***************************************************************************)
(* The UI thread.                                                          *)
(***************************************************************************)
\* WsClient::Disconnect, up to the frames a closed socket no longer delivers.
Disconnect ==
    /\ running' = FALSE
    /\ link' = "none"
    /\ down' = [k \in Conns |-> IF k = conn THEN <<>> ELSE down[k]]

\* HostSession and JoinSession, whose buttons are always there.  The bound
\* leaves a connection for the new worker when the old one is about to open
\* another.
HostOrJoin(a) ==
    /\ ui = "free"
    /\ conn < MaxConns
    /\ worker = "connecting" => conn + 1 < MaxConns
    /\ asked' = a
    /\ lastError' = "none"
    /\ status' = "connecting"
    /\ ui' = "connect"
    /\ Disconnect
    /\ UNCHANGED <<shown, localId, remotes, entered, worker, queue, rx, conn, up, serverVars>>

\* Mutant: Connect does not wait.
DoesNotJoin == TRUE

\* worker_.join()
JoinsWorker == worker = "idle"

\* The rest of Connect, once the old worker has ended.
StartWorker ==
    /\ ui = "connect"
    /\ JoinsWorker
    /\ ui' = "free"
    /\ running' = TRUE
    /\ worker' = "connecting"
    /\ entered' = NoRoom
    /\ UNCHANGED <<asked, status, lastError, shown, localId, remotes,
                   queue, rx, netVars, serverVars>>

\* The main menu has the button while status_ says InSession; the panel of a
\* session that was entered keeps it through lost connections and kicks.
LeaveSession ==
    /\ ui = "free"
    /\ \/ status = "insession"
       \/ entered # NoRoom /\ status # "disconnected"
    /\ Disconnect
    /\ remotes' = {}
    /\ status' = "disconnected"
    /\ entered' = NoRoom
    /\ UNCHANGED <<ui, asked, lastError, shown, localId, worker, queue, rx,
                   conn, up, serverVars>>

\* Hooks and sync systems queue frames of the session, connected or not.
GameSends ==
    /\ ui = "free"
    /\ conn > 0
    /\ Len(queue) + Len(up[conn]) < MaxQueue
    /\ queue' = Append(queue, GameFrame(conn))
    /\ UNCHANGED <<uiVars, running, worker, rx, netVars, serverVars>>

(***************************************************************************)
(* The worker thread.                                                      *)
(***************************************************************************)
\* Mutant: the handshake goes ahead of what is queued.
QueueHandshakeFirst == queue' = <<Handshake>> \o queue

\* OnConnected, after whatever an earlier connection left in the queue.
QueueHandshake == queue' = Append(queue, Handshake)

TcpConnects ==
    /\ worker = "connecting"
    /\ conn < MaxConns
    /\ conn' = conn + 1
    /\ link' = "open"
    /\ alive' = alive \cup {conn + 1}
    /\ QueueHandshake
    /\ worker' = "serving"
    /\ UNCHANGED <<uiVars, running, rx, up, down, greeted, seat, mates>>

\* Mutant: a failed attempt ends the worker.
GivesUp == worker' = "idle"

\* WorkerLoop goes on until Disconnect.
BacksOff == worker' = IF running THEN "backoff" ELSE "idle"

ConnectFails ==
    /\ worker = "connecting"
    /\ BacksOff
    /\ UNCHANGED <<uiVars, running, queue, rx, netVars, serverVars>>

Retry ==
    /\ worker = "backoff"
    /\ worker' = IF running THEN "connecting" ELSE "idle"
    /\ UNCHANGED <<uiVars, running, queue, rx, netVars, serverVars>>

\* The top of ReceiveLoop.
Looping == worker = "serving" /\ running /\ rx = <<>>

\* FlushSendQueue: what a dead socket is given is gone.
Flush ==
    /\ Looping
    /\ queue # <<>>
    /\ up' = IF link = "open" THEN [up EXCEPT ![conn] = @ \o queue] ELSE up
    /\ queue' = <<>>
    /\ UNCHANGED <<uiVars, running, worker, rx, conn, link, down, serverVars>>

\* One recv returns some of the frames that have arrived.
Recv ==
    /\ Looping
    /\ link = "open"
    /\ \E n \in 1..Len(down[conn]) :
          /\ rx' = SubSeq(down[conn], 1, n)
          /\ down' = [down EXCEPT ![conn] = SubSeq(@, n + 1, Len(@))]
    /\ UNCHANGED <<uiVars, running, worker, queue, conn, link, up, serverVars>>

\* The end of ReceiveLoop and of DoConnectOnce, which closes the socket.
ServingEnds ==
    /\ link' = "none"
    /\ worker' = IF running THEN "backoff" ELSE "idle"

LoopEnds ==
    /\ worker = "serving"
    /\ rx = <<>>
    /\ ~running \/ link # "open"
    /\ ServingEnds
    /\ UNCHANGED <<uiVars, running, queue, rx, conn, up, down, serverVars>>

(***************************************************************************)
(* Session::OnPacket, on the worker thread, for the next frame of rx.      *)
(***************************************************************************)
Handles(type) ==
    /\ rx # <<>>
    /\ Head(rx).t = type
    /\ UNCHANGED <<ui, asked, running, conn, up, down, serverVars>>

ReceiveClose ==
    /\ Handles("CLOSE")
    /\ rx' = <<>>
    /\ ServingEnds
    /\ UNCHANGED <<status, lastError, shown, localId, remotes, entered, queue>>

\* Mutant: the id of the first connection is kept.
KeepsFirstId(k) == localId' = IF localId = 0 THEN k ELSE localId

TakesId(k) == localId' = k

\* The request that follows is built from what is asked now.
ReceiveHandshakeAck ==
    /\ Handles("HANDSHAKE_ACK")
    /\ rx' = Tail(rx)
    /\ TakesId(Head(rx).id)
    /\ status' = "connected"
    /\ queue' = Append(queue, JoinRequest(asked, conn))
    /\ UNCHANGED <<lastError, shown, remotes, entered, worker, link>>

\* Mutant: the players of JOIN_ACK are not looked at.
AppliesNobody(ps) == remotes

\* ApplyStateUpdate adds; nothing takes away who is not listed.
Applied(ps) == remotes \cup (ps \ {localId})

ReceiveJoinAck ==
    /\ Handles("JOIN_ACK")
    /\ rx' = Tail(rx)
    /\ shown' = Head(rx).room
    /\ entered' = Head(rx).room
    /\ remotes' = Applied(Head(rx).players)
    /\ status' = "insession"
    /\ UNCHANGED <<lastError, localId, worker, queue, link>>

ReceivePlayerJoin ==
    /\ Handles("PLAYER_JOIN")
    /\ rx' = Tail(rx)
    /\ remotes' = Applied({Head(rx).player})
    /\ UNCHANGED <<status, lastError, shown, localId, entered, worker, queue, link>>

ReceivePlayerLeave ==
    /\ Handles("PLAYER_LEAVE")
    /\ rx' = Tail(rx)
    /\ remotes' = remotes \ {Head(rx).player}
    /\ UNCHANGED <<status, lastError, shown, localId, entered, worker, queue, link>>

ReceiveRefusal ==
    /\ \/ Handles("JOIN_DENIED") /\ lastError' = "denied"
       \/ Handles("KICK") /\ lastError' = "kicked"
    /\ rx' = Tail(rx)
    /\ status' = "failed"
    /\ UNCHANGED <<shown, localId, remotes, entered, worker, queue, link>>

OnPacket ==
    \/ ReceiveClose
    \/ ReceiveHandshakeAck
    \/ ReceiveJoinAck
    \/ ReceivePlayerJoin
    \/ ReceivePlayerLeave
    \/ ReceiveRefusal

(***************************************************************************)
(* The network and the server.                                             *)
(***************************************************************************)
ConnectionLost ==
    /\ link = "open"
    /\ conn < MaxConns
    /\ link' = "lost"
    /\ down' = [down EXCEPT ![conn] = <<>>]
    /\ UNCHANGED <<uiVars, workerVars, conn, up, serverVars>>

\* Frames to a connection nobody reads any more are left out.
Tell(d, ks, m) ==
    [k \in Conns |-> IF k \in ks /\ k = conn /\ link = "open" THEN Append(d[k], m)
                                                              ELSE d[k]]

Seated(r)  == {k \in Conns : seat[k] = r}
Members(r) == Seated(r) \cup mates[r]

ServerHandles(k, type) ==
    /\ k \in alive
    /\ up[k] # <<>>
    /\ Head(up[k]).t = type
    /\ up' = [up EXCEPT ![k] = Tail(@)]
    /\ UNCHANGED <<uiVars, workerVars, conn, link, alive, mates>>

\* A second HANDSHAKE is ignored.
OnHandshake(k) ==
    /\ ServerHandles(k, "HANDSHAKE")
    /\ greeted' = greeted \cup {k}
    /\ down' = IF k \in greeted THEN down ELSE Tell(down, {k}, HandshakeAck(k))
    /\ UNCHANGED seat

MayJoin(k) == k \in greeted /\ seat[k] = NoRoom

\* The room a request is about: a fresh code or a live room.
Grants(a, r) == IF a = "create" THEN Members(r) = {} ELSE r = a /\ Members(r) # {}

OnJoinGranted(k, r) ==
    /\ ServerHandles(k, "JOIN_REQUEST")
    /\ MayJoin(k)
    /\ Grants(Head(up[k]).ask, r)
    /\ seat' = [seat EXCEPT ![k] = r]
    /\ down' = Tell(Tell(down, Seated(r), PlayerJoin(k)), {k}, JoinAck(r, Members(r)))
    /\ UNCHANGED greeted

\* Only a request to create, from a session that may join, is never denied:
\* a room may be full or the password wrong.
OnJoinDenied(k) ==
    /\ ServerHandles(k, "JOIN_REQUEST")
    /\ MayJoin(k) => Head(up[k]).ask # "create"
    /\ down' = Tell(down, {k}, JoinDenied)
    /\ UNCHANGED <<greeted, seat>>

\* State, RPC, puzzle and cutscene frames act in the session's room, if any.
OnGameFrame(k) ==
    /\ ServerHandles(k, "GAME")
    /\ UNCHANGED <<down, greeted, seat>>

OnMessage(k) ==
    \/ OnHandshake(k)
    \/ \E r \in Rooms : OnJoinGranted(k, r)
    \/ OnJoinDenied(k)
    \/ OnGameFrame(k)

\* The close event, at any time after the connection is gone.
OnClose(k) ==
    /\ k \in alive
    /\ k = conn => link # "open"
    /\ alive' = alive \ {k}
    /\ seat' = [seat EXCEPT ![k] = NoRoom]
    /\ up' = [up EXCEPT ![k] = <<>>]
    /\ down' = IF seat[k] = NoRoom THEN down
               ELSE Tell(down, Seated(seat[k]) \ {k}, PlayerLeave(k))
    /\ UNCHANGED <<uiVars, workerVars, conn, link, greeted, mates>>

\* POST /kick: KICK to the whole room, the close frame to its victim, a leave
\* to the others.
OnKick(r, x) ==
    /\ x \in Members(r)
    /\ conn < MaxConns
    /\ \A k \in Seated(r) : Len(down[k]) < MaxDown
    /\ down' = Tell(Tell(Tell(down, Seated(r), Kick),
                        Seated(r) \ {x}, PlayerLeave(x)),
                   Seated(r) \cap {x}, CloseFrame)
    /\ seat' = [k \in Conns |-> IF k = x THEN NoRoom ELSE seat[k]]
    /\ mates' = [mates EXCEPT ![r] = @ \ {x}]
    /\ alive' = alive \ {x}
    /\ up' = [k \in Conns |-> IF k = x THEN <<>> ELSE up[k]]
    /\ UNCHANGED <<uiVars, workerVars, conn, link, greeted>>

\* Another player comes or goes.
MateMoves(r, x) ==
    /\ \A k \in Seated(r) : Len(down[k]) < MaxDown
    /\ IF x \in mates[r]
       THEN /\ mates' = [mates EXCEPT ![r] = @ \ {x}]
            /\ down' = Tell(down, Seated(r), PlayerLeave(x))
       ELSE /\ \A s \in Rooms : x \notin mates[s]
            /\ mates' = [mates EXCEPT ![r] = @ \cup {x}]
            /\ down' = Tell(down, Seated(r), PlayerJoin(x))
    /\ UNCHANGED <<uiVars, workerVars, conn, link, up, alive, greeted, seat>>

Worker ==
    \/ StartWorker
    \/ Retry
    \/ Flush
    \/ Recv
    \/ LoopEnds
    \/ OnPacket

SessionNext ==
    \/ \E a \in Ask : HostOrJoin(a)
    \/ LeaveSession
    \/ GameSends
    \/ TcpConnects
    \/ ConnectFails
    \/ Worker
    \/ ConnectionLost
    \/ \E k \in Conns : OnMessage(k) \/ OnClose(k)
    \/ \E r \in Rooms, x \in Players : OnKick(r, x)
    \/ \E r \in Rooms, x \in Mates : MateMoves(r, x)

\* The threads and the server run; an attempt to connect that is repeated for
\* ever succeeds in the end.
SessionSpec ==
    /\ SessionInit
    /\ [][SessionNext]_vars
    /\ WF_vars(StartWorker)
    /\ WF_vars(Retry)
    /\ WF_vars(Flush)
    /\ WF_vars(Recv)
    /\ WF_vars(LoopEnds)
    /\ WF_vars(OnPacket)
    /\ SF_vars(TcpConnects)
    /\ \A k \in Conns : WF_vars(OnMessage(k))

-------------------------------------------------------------------------------
(***************************************************************************)
(* Safety.                                                                 *)
(***************************************************************************)

\* The connection is up and everything on it has been handled.
Quiet ==
    /\ ui = "free"
    /\ worker = "serving"
    /\ running
    /\ link = "open"
    /\ queue = <<>>
    /\ rx = <<>>
    /\ up[conn] = <<>>
    /\ down[conn] = <<>>

\* A quiet client that counts itself in session is in the room it shows, under
\* the id it goes by, and that is the room it asked for last, whatever was
\* asked, lost and left over before.
QuietSessionIsTheAskedOne ==
    Quiet /\ status = "insession" =>
        /\ localId = conn
        /\ shown # NoRoom
        /\ seat[conn] = shown
        /\ asked \in Rooms => shown = asked

\* It misses none of the players that are there with it.
NobodyIsMissing ==
    Quiet /\ status = "insession" => Members(seat[conn]) \ {conn} \subseteq remotes

\* A frame queued on one connection and sent on a later one changes nothing at
\* the server: it comes before the session is handshaked, or in any case
\* before it is in a room.  (A request is still denied, which the client takes
\* for the answer to its own.)
StaleFramesAreIgnored ==
    \A k \in Conns :
        k \in alive /\ up[k] # <<>> =>
            LET m == Head(up[k]) IN
            /\ m.t = "JOIN_REQUEST" /\ m.on # k => k \notin greeted
            /\ m.t = "GAME" /\ m.on # k => seat[k] = NoRoom

\* The worker as SessionStatus sees it.
StatusWorker ==
    IF ui = "free" /\ running THEN "last"
    ELSE IF ui = "free" /\ worker = "idle" /\ conn = 0 THEN "none"
    ELSE "earlier"

Status == INSTANCE SessionStatus WITH worker <- StatusWorker

\* What the UI is shown keeps to the walk of SessionStatus: once the worker is
\* that of the last request, no JOIN_ACK of an earlier connection or request
\* puts it in session.
ImplementsStatus == Status!StatusSpec

(***************************************************************************)
(* Liveness.                                                               *)
(***************************************************************************)

\* Whoever asked for a session, and did not stop asking, gets one or an error,
\* after any number of failed attempts and lost connections.
AskingIsAnswered ==
    running ~> \/ status = "insession" /\ link = "open" /\ seat[conn] # NoRoom
               \/ lastError # "none"
               \/ ~running

(***************************************************************************)
(* What the documents say and the code does not do.                        *)
(***************************************************************************)

\* "Stop reconnecting and close the socket" (net/client.h:42), "Left session"
\* (session.cpp:76): only Host and Join end the Disconnected status.
LeavingIsFinal ==
    [][status = "disconnected" => status' \in {"disconnected", "connecting"}]_vars

\* "`Session` re-issues the join" (docs/architecture.md:98), "re-handshake +
\* re-join" (session.cpp:94): after a drop the client is in the room it was in.
RejoinsItsRoom ==
    [][entered # NoRoom /\ entered' # entered => entered' = NoRoom]_vars

\* "Room membership, invite codes | Server | Single source of truth"
\* (docs/architecture.md): a quiet client shows nobody who is not there.
NobodyIsAGhost ==
    Quiet /\ status = "insession" => remotes \subseteq Members(seat[conn])

\* "Force-disconnect a player (admin kick)" (manager.ts:65): a client that was
\* kicked is out until its user asks again.
KickedStaysOut == lastError = "kicked" => status = "failed"

===============================================================================
