------------------------------ MODULE StateSync -------------------------------
(***************************************************************************)
(* How one player's state reaches the others: the sending client           *)
(* (player_sync.cpp, cutscene_sync.cpp), the server's authoritative copy,  *)
(* its 20 Hz diff (state.ts) and the tables of the watching clients.       *)
(*                                                                         *)
(* Two comparisons decide what travels.  The client sends when its own     *)
(* condition holds; the server broadcasts when playerChanged holds.  They  *)
(* look at different fields, with different thresholds, and both compare   *)
(* with what was sent last and not with what the receiver has.  A          *)
(* PlayerState is abstracted to one field per way of being compared:       *)
(*   pos        position (and anim_time): a threshold on both sides        *)
(*   health     health, anim_id, move_flags, combat_flags: both sides, and *)
(*              a threshold for health at the client                       *)
(*   traversal  traversalState.mode # 0: sent while true, and in the diff  *)
(*   gear       rotation, velocity, skill, vfx, buffs, weapon, mount,      *)
(*              death, interaction: in the diff only                       *)
(*   aim        skillTargetPos, mountPosition, mountAnimTime,              *)
(*              dodgeDirection, respawnPosition, blend_weight: in neither  *)
(*   cutscene   inCutscene: in neither, and set by frames of its own       *)
(*                                                                         *)
(* The player enters and leaves the room any number of times, under a new  *)
(* id and with a fresh PlayerState each time.                              *)
(*                                                                         *)
(* Watchers enter, leave and lose their connection.  Only leaving empties  *)
(* a watcher's table, and the worker may still put back what it had        *)
(* received by then; a lost connection leaves the table as it is, and the  *)
(* snapshot of the next JOIN_ACK adds to it and erases nothing.  view[w]   *)
(* is the entry of the last id under which w heard of the player.  Entries *)
(* of earlier ids, which nobody erases, are left out: they are the ghosts  *)
(* of ClientSession (NobodyIsAGhost).                                      *)
(***************************************************************************)
EXTENDS Integers, Sequences

CONSTANTS
    Watchers,   \* the other clients
    MaxPos, MaxHealth, Gears, Aims, Modes,
    Avatars,    \* bound: what the game may hold about its player
    SendEps,    \* the client's threshold for pos (0.01f)
    TickEps,    \* POS_EPSILON
    HealthEps,  \* the client's threshold for health (0.5f)
    MaxUp,      \* bound: frames the server has not handled
    MaxDown,    \* bound: frames a watcher has not handled
    MaxDrops,   \* bound: times the network drops the player's connection
    Unset,      \* an optional field createPlayerState leaves out
    Absent      \* no PlayerState

ASSUME EpsAssumption == SendEps \in Nat /\ TickEps \in Nat /\ HealthEps \in Nat
ASSUME RangeAssumption ==
    /\ MaxPos \in Nat
    /\ MaxHealth \in Nat \ {0}
    /\ Modes \subseteq BOOLEAN
    /\ MaxUp \in Nat /\ MaxDown \in Nat /\ MaxDrops \in Nat
ASSUME UnsetAssumption == Unset \notin Gears \cup Aims

\* What the game holds about its player.
Avatar == [pos : 0..MaxPos, health : 0..MaxHealth, traversal : Modes,
           gear : Gears, aim : Aims]

ASSUME AvatarsAssumption == Avatars \subseteq Avatar

\* PlayerState, on the server and in a watcher's table.
PlayerState == [pos : 0..MaxPos, health : 0..MaxHealth, traversal : BOOLEAN,
                gear : Gears \cup {Unset}, aim : Aims \cup {Unset},
                cutscene : BOOLEAN]

\* -1.0f, which is beyond the threshold from every health.
NoHealth == -1 - HealthEps

ASSUME AbsentAssumption == Absent \notin PlayerState

VARIABLES
    \* the player's client
    mem,        \* the game's memory
    lastPos,    \* lastPos_
    lastHealth, \* lastHealth_, with lastAnim_
    suspended,  \* suspended_, CutsceneSync::active_
    session,    \* "out", "in" the room, or "dropped" and about to rejoin
    drops,      \* how often the connection was dropped
    up,         \* frames to the server
    \* ServerState
    cur,        \* players.get(id)
    last,       \* lastBroadcast.get(id)
    \* the other clients
    members,    \* watchers in the room
    down,       \* frames to them
    view,       \* remotes_[id], for the last id w heard of
    told        \* history: is in the room, and has handled an update of this
                \* player since it or the player entered

clientVars  == <<mem, lastPos, lastHealth, suspended>>
serverVars  == <<cur, last>>
watcherVars == <<members, view, told>>
vars        == <<clientVars, session, drops, up, serverVars, watcherVars, down>>

-------------------------------------------------------------------------------
(***************************************************************************)
(* Frames.                                                                 *)
(***************************************************************************)
StateUpdate(s)    == [t |-> "STATE_UPDATE", state |-> s]
CutsceneFrame(on) == [t |-> "CUTSCENE", active |-> on]
PlayerJoin(s)     == [t |-> "PLAYER_JOIN", state |-> s]
JoinAck(s)        == [t |-> "JOIN_ACK", state |-> s]
PlayerLeave       == [t |-> "PLAYER_LEAVE"]

UpFrame ==
    [t : {"STATE_UPDATE"}, state : Avatar] \cup [t : {"CUTSCENE"}, active : BOOLEAN]

DownFrame ==
    [t : {"STATE_UPDATE", "PLAYER_JOIN"}, state : PlayerState]
    \cup [t : {"JOIN_ACK"}, state : PlayerState \cup {Absent}]
    \cup [t : {"CUTSCENE"}, active : BOOLEAN]
    \cup [t : {"PLAYER_LEAVE"}]

\* Every variable has its type; there is a last broadcast only of a player
\* that is there.
StateTypeOK ==
    /\ mem \in Avatar
    /\ lastPos \in 0..MaxPos
    /\ lastHealth \in {NoHealth} \cup 0..MaxHealth
    /\ suspended \in BOOLEAN
    /\ session \in {"out", "in", "dropped"}
    /\ drops \in 0..MaxDrops
    /\ up \in Seq(UpFrame)
    /\ cur \in PlayerState \cup {Absent}
    /\ last \in PlayerState \cup {Absent}
    /\ last # Absent => cur # Absent
    /\ members \subseteq Watchers
    /\ down \in [Watchers -> Seq(DownFrame)]
    /\ view \in [Watchers -> PlayerState \cup {Absent}]
    /\ told \in [Watchers -> BOOLEAN]

StateInit ==
    /\ mem \in Avatars
    /\ lastPos = 0
    /\ lastHealth = NoHealth
    /\ suspended = FALSE
    /\ session = "out"
    /\ drops = 0
    /\ up = <<>>
    /\ cur = Absent
    /\ last = Absent
    /\ members = {}
    /\ down = [w \in Watchers |-> <<>>]
    /\ view = [w \in Watchers |-> Absent]
    /\ told = [w \in Watchers |-> FALSE]

Broadcast(m) == down' = [w \in Watchers |-> IF w \in members THEN Append(down[w], m)
                                                             ELSE down[w]]

\* Bound: every watcher in the room can take another frame.
Deliverable == \A w \in members : Len(down[w]) < MaxDown

(***************************************************************************)
(* The player and its client.                                              *)
(***************************************************************************)
Far(a, b, eps) == a - b > eps \/ b - a > eps

\* The game goes on, whatever the session does.
Play ==
    /\ mem' \in Avatars
    /\ UNCHANGED <<lastPos, lastHealth, suspended, session, drops, up, serverVars,
                   watcherVars, down>>

\* SendLocalState's condition.
HasNews ==
    \/ Far(mem.pos, lastPos, SendEps)
    \/ Far(mem.health, lastHealth, HealthEps)
    \/ mem.traversal

\* Mutant: the last-sent values are taken over before the early returns.
RemembersSuspended ==
    /\ lastPos' = mem.pos
    /\ lastHealth' = mem.health
    /\ up' = IF suspended \/ session # "in" THEN up ELSE Append(up, StateUpdate(mem))

\* What is sent is remembered as sent.  The server takes no state from a
\* session without a room, which is where a client that still counts itself
\* in session sends to after a drop.  (The ANIMATION_UPDATE behind a
\* STATE_UPDATE repeats its animState.)
SendsAndRemembers ==
    /\ ~suspended
    /\ lastPos' = mem.pos
    /\ lastHealth' = mem.health
    /\ up' = IF session = "in" THEN Append(up, StateUpdate(mem)) ELSE up

SendLocalState ==
    /\ session # "out"
    /\ Len(up) < MaxUp
    /\ HasNews
    /\ SendsAndRemembers
    /\ UNCHANGED <<mem, suspended, session, drops, serverVars, watcherVars, down>>

\* OnCutsceneStart and OnCutsceneEnd, in or out of a session.
ToggleCutscene ==
    /\ Len(up) < MaxUp
    /\ suspended' = ~suspended
    /\ up' = IF session = "in" THEN Append(up, CutsceneFrame(suspended')) ELSE up
    /\ UNCHANGED <<mem, lastPos, lastHealth, session, drops, serverVars, watcherVars, down>>

(***************************************************************************)
(* Entering and leaving.                                                   *)
(***************************************************************************)
\* createPlayerState.
NewPlayerState == [pos |-> 0, health |-> MaxHealth, traversal |-> FALSE,
                   gear |-> Unset, aim |-> Unset, cutscene |-> FALSE]

\* addPlayer, from a first join, a later one, or the join after a drop.
Enter ==
    /\ session # "in"
    /\ Deliverable
    /\ session' = "in"
    /\ cur' = NewPlayerState
    /\ Broadcast(PlayerJoin(NewPlayerState))
    /\ UNCHANGED <<clientVars, drops, up, last, watcherVars>>

\* ServerState.removePlayer.
ForgetsPlayer == cur' = Absent /\ last' = Absent

\* The connection ends, with what was on its way to the server.
Gone ==
    /\ session = "in"
    /\ Deliverable
    /\ up' = <<>>
    /\ ForgetsPlayer
    /\ Broadcast(PlayerLeave)
    /\ UNCHANGED <<mem, lastPos, suspended, watcherVars>>

\* Mutant: Clear leaves the last-sent values alone.
ClearsTableOnly == UNCHANGED lastHealth

\* PlayerSync::Clear, so that the next session starts with an update.
Clear == lastHealth' = NoHealth

LeaveSession ==
    /\ Gone
    /\ Clear
    /\ session' = "out"
    /\ UNCHANGED drops

\* The network drops the connection; WsClient will reconnect, and nothing
\* calls Clear.
DropConnection ==
    /\ drops < MaxDrops
    /\ Gone
    /\ drops' = drops + 1
    /\ session' = "dropped"
    /\ UNCHANGED lastHealth

(***************************************************************************)
(* The server.                                                             *)
(***************************************************************************)
Handles(type) == up # <<>> /\ Head(up).t = type /\ up' = Tail(up)

\* updatePlayer, with a patch that has every field of the game's player.
Patched(s, a) == [s EXCEPT !.pos = a.pos, !.health = a.health, !.gear = a.gear,
                           !.aim = a.aim, !.traversal = a.traversal]

OnStateUpdate ==
    /\ Handles("STATE_UPDATE")
    /\ cur' = Patched(cur, Head(up).state)
    /\ UNCHANGED <<clientVars, session, drops, last, watcherVars, down>>

\* Mutant: the change is announced and not stored.
StoresNoCutscene(on) == UNCHANGED cur

StoresCutscene(on) == cur' = [cur EXCEPT !.cutscene = on]

\* Room.setCutscene.
OnCutscene ==
    /\ Handles("CUTSCENE")
    /\ Deliverable
    /\ StoresCutscene(Head(up).active)
    /\ Broadcast(CutsceneFrame(Head(up).active))
    /\ UNCHANGED <<clientVars, session, drops, last, watcherVars>>

playerChanged(prev, next) ==
    \/ Far(prev.pos, next.pos, TickEps)
    \/ prev.health # next.health
    \/ prev.traversal # next.traversal
    \/ prev.gear # next.gear

\* The next tick has something to broadcast.
TickDue == cur # Absent /\ (last # Absent => playerChanged(last, cur))

\* Mutant: the last snapshot follows the state at every tick, broadcast or not.
RemembersEveryTick ==
    /\ last' = cur
    /\ down' = [w \in Watchers |->
                   IF w \in members /\ TickDue THEN Append(down[w], StateUpdate(cur))
                                               ELSE down[w]]

BroadcastsAndRemembers ==
    /\ TickDue
    /\ last' = cur
    /\ Broadcast(StateUpdate(cur))

\* ServerState.tick and Room.broadcastDiff.
Tick ==
    /\ cur # Absent
    /\ Deliverable
    /\ BroadcastsAndRemembers
    /\ UNCHANGED <<clientVars, session, drops, up, cur, watcherVars>>

(***************************************************************************)
(* The watchers.                                                           *)
(***************************************************************************)
\* Mutant: a joiner's snapshot is the last broadcast.
SnapshotOld == last

\* JOIN_ACK carries the live states.
Snapshot == cur

\* Connect has waited for the worker of the connection before, and what that
\* had not handled goes with it.
WatcherEnters(w) ==
    /\ w \notin members
    /\ members' = members \cup {w}
    /\ down' = [down EXCEPT ![w] = <<JoinAck(Snapshot)>>]
    /\ UNCHANGED <<clientVars, session, drops, up, serverVars, view, told>>

GoesOut(w) ==
    /\ members' = members \ {w}
    /\ told' = [told EXCEPT ![w] = FALSE]

\* LeaveSession, in the room or not.  The worker it does not wait for may
\* still handle what has been received.
WatcherLeaves(w) ==
    /\ GoesOut(w)
    /\ view' = [view EXCEPT ![w] = Absent]
    /\ UNCHANGED <<clientVars, session, drops, up, serverVars, down>>

\* A connection is lost with the frames on it, and nothing calls Clear.
WatcherDrops(w) ==
    /\ w \in members
    /\ GoesOut(w)
    /\ down' = [down EXCEPT ![w] = <<>>]
    /\ UNCHANGED <<clientVars, session, drops, up, serverVars, view>>

\* Session::OnPacket, ApplyStateUpdate, RemoveRemotePlayer, SetRemoteCutscene.
\* A snapshot that does not name the player does not erase it either.
After(v, m) ==
    CASE m.t \in {"STATE_UPDATE", "PLAYER_JOIN"} -> m.state
      [] m.t = "JOIN_ACK" -> IF m.state = Absent THEN v ELSE m.state
      [] m.t = "PLAYER_LEAVE" -> Absent
      [] m.t = "CUTSCENE" -> IF v = Absent THEN Absent ELSE [v EXCEPT !.cutscene = m.active]

ToldAfter(b, m) == m.t = "STATE_UPDATE" \/ (m.t = "CUTSCENE" /\ b)

Applies(w) ==
    /\ down[w] # <<>>
    /\ down' = [down EXCEPT ![w] = Tail(@)]
    /\ view' = [view EXCEPT ![w] = After(@, Head(down[w]))]
    /\ UNCHANGED <<clientVars, session, drops, up, serverVars, members>>

Receive(w) ==
    /\ w \in members
    /\ Applies(w)
    /\ told' = [told EXCEPT ![w] = ToldAfter(@, Head(down[w]))]

\* The worker handles a frame behind LeaveSession.
LateFrame(w) ==
    /\ w \notin members
    /\ Applies(w)
    /\ UNCHANGED told

Server == OnStateUpdate \/ OnCutscene

StateNext ==
    \/ Play
    \/ SendLocalState
    \/ ToggleCutscene
    \/ Enter
    \/ LeaveSession
    \/ DropConnection
    \/ Server
    \/ Tick
    \/ \E w \in Watchers :
          \/ WatcherEnters(w)
          \/ WatcherLeaves(w)
          \/ WatcherDrops(w)
          \/ Receive(w)
          \/ LateFrame(w)

\* The game renders, the interval fires, frames are delivered.
StateSpec ==
    /\ StateInit
    /\ [][StateNext]_vars
    /\ WF_vars(SendLocalState)
    /\ WF_vars(Server)
    /\ WF_vars(Tick)
    /\ \A w \in Watchers : WF_vars(Receive(w))

-------------------------------------------------------------------------------
(***************************************************************************)
(* Safety.                                                                 *)
(***************************************************************************)
Drained(w) == w \in members /\ down[w] = <<>>

\* Nothing is going to be sent or broadcast until the game changes something.
Settled ==
    /\ session = "in"
    /\ up = <<>>
    /\ ~HasNews
    /\ ~TickDue

Shows(w) ==
    /\ view[w] # Absent
    /\ ~Far(view[w].pos, mem.pos, SendEps + TickEps)
    /\ ~Far(view[w].health, mem.health, HealthEps)

\* The diff is against what the watchers have: a watcher that has handled an
\* update and everything after it has the server's last broadcast, apart from
\* the cutscene flag, which has frames of its own.
FollowersHaveTheLast ==
    \A w \in Watchers : Drained(w) /\ told[w] =>
        last # Absent /\ view[w] = [last EXCEPT !.cutscene = cur.cutscene]

\* Once everything is quiet, the two thresholds add up and no more: the
\* remote avatar stands within SendEps + TickEps of the player, with its
\* health up to the client's threshold, over any number of small steps,
\* cutscenes and new sessions, as long as no connection was lost.
SettledViewIsClose ==
    Settled /\ drops = 0 => \A w \in Watchers : Drained(w) /\ told[w] => Shows(w)

\* Whoever is in the room is shown by everybody who is caught up, and in a
\* cutscene just when it is in one, although the flag is in no diff, whoever
\* joined when and whatever a watcher's table held from before.  (Of the
\* entry of a player that has gone it says nothing.)
CutsceneIsShown ==
    \A w \in Watchers : Drained(w) /\ cur # Absent =>
        /\ view[w] # Absent
        /\ view[w].cutscene = cur.cutscene

(***************************************************************************)
(* Liveness.                                                               *)
(***************************************************************************)
Still == [][UNCHANGED <<mem, session, suspended, members>>]_vars

\* A player that stops, in the room and not in a cutscene, is soon shown
\* where it is by everyone who was ever told of it (SettledViewIsClose says
\* why a lost connection is excepted).
StandstillIsShown ==
    \A w \in Watchers :
        <>Still /\ <>[](drops = 0 /\ session = "in" /\ ~suspended /\ told[w]) => <>[]Shows(w)

(***************************************************************************)
(* What the documents say and the code does not do.                        *)
(***************************************************************************)

\* "these always ride along with the state update so remotes see
\* magic/buffs/weapons/mounts/death" (player_sync.cpp:73-74): once everything
\* is quiet, remotes see the player's gear.
GearIsShown ==
    Settled => \A w \in Watchers : Drained(w) /\ told[w] => view[w].gear = mem.gear

\* "we will re-handshake + re-join on the next OnConnected" (session.cpp:94-95):
\* a lost connection is made up for by the join that follows it.
DropsAreMadeUp ==
    Settled => \A w \in Watchers : Drained(w) /\ told[w] => Shows(w)

\* "Authoritative state model and the 20Hz tick/diff loop" (state.ts:3), which
\* "emits `STATE_UPDATE` only for players that changed beyond per-field
\* epsilons" (docs/architecture.md:29): when the diff has nothing to emit,
\* everyone in the room has the authoritative state up to those epsilons.
MembersHaveTheState ==
    \A w \in Watchers : Drained(w) /\ cur # Absent /\ ~TickDue =>
        /\ view[w] # Absent
        /\ ~Far(view[w].pos, cur.pos, TickEps)
        /\ view[w].health = cur.health

===============================================================================
