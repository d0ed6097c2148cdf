# Crimson Desert online modification: TLA+ models

Formal models of the session server (`src/server`, TypeScript) and of the client
plugin (`src/client`, C++): what their handlers do to the state they keep, in
every order in which Node's event loop, the network, the client's threads and the
players can run them. TLC checks small instances; TLAPS proves the safety of the
room server, of its frames and the views they make, of the puzzle rotation and the
clients' input gate, of a player's state on its way, of the client session, of
combat over the relay, of the bytes of a connection, of the overlay's hooks and
beacon and of the offset cache for every value of the constants.

    tlc -config RoomServer.cfg MCRoomServer      # any run of the table below
    tlapm RoomChannel_proofs.tla                 # any *_proofs module

## 1. The system

Players run a game with `dxgi.dll` injected. The DLL connects by WebSocket to a
Node server, which keeps *rooms* of up to eight players under an invite code and
relays their state; one player of the room, the *host*, is authoritative for
combat, enemies and loot.

| Component (source) | State it keeps | Operations | Hard parts |
| --- | --- | --- | --- |
| Connections (`index.ts`) | a `Session` per socket: id, handshaked, inRoom | connection, message, close, SIGTERM | frames while a socket is closing; close after a kick |
| Room manager (`manager.ts`) | code -> room, player -> code | createRoom, bindPlayer, removePlayer, kickPlayer | two maps, three callers |
| Room (`room.ts`) | connections in join order, hostId, its ServerState and PuzzleManager | addPlayer, removePlayer, reassignHost, broadcasts | succession of hosts; order of the frames |
| ServerState (`state.ts`) | players, last broadcast, enemies, tick timer | updatePlayer, setHost, setEnemies, tick | what the diff leaves out; timer of an emptied room |
| PuzzleManager (`puzzle.ts`) | per puzzle: queue, controller, timeout | start, pass, timeout, disconnect | stale timeouts, leavers that hold the token |
| Admin API (`admin.ts`, `config.ts`) | the runtime configuration | kick, config, message | `await` inside handlers |
| Client session (`session.cpp`) | status, isHost, local id, pending join | Host/Join/Leave (UI thread), packets (worker) | reconnection, races of the two threads |
| Transport (`net/client.cpp`) | socket, send queue, running flag, bytes received | Connect, Disconnect, Send, worker loop, framing | stale frames of an earlier connection; frames in pieces; a full send buffer |
| Player sync (`player_sync.cpp`) | table of remote players | updates, join, leave, clear | ghosts |
| Puzzle sync (`puzzle_sync.cpp`) | active, puzzle id, controller | three packets, the input hook | outlives the session |
| Combat, cutscene sync | host flag, suspend flag, hooks | RPCs, hooks, polling | host changes under way; hooks installed by two threads |
| Scanner (`scanner.cpp`) | resolved offsets, cache file | scan, walk, save, load | partial cache, moved modules |
| Beacon (`inventory_hook.cpp`) | inventory slot and count, fallback key | append, use, F9 | the game changes the same count |
| DLL entry, render hook, menu (`dllmain.cpp`, `render_hook.cpp`, `modal.cpp`) | hooks, ImGui, panel shown | load, frame, click, open, close, unload | the game runs, draws and unloads meanwhile |
| Proxy, memory, logging | - | forwarding, guarded reads | no protocol state |

Components interact by frames (JSON over one TCP stream per client, so FIFO per
direction), by calls inside the server process (one handler at a time, atomic up
to an `await`) and, in the client, by singletons shared between the game's
threads, the worker thread and the UI thread.

What makes each part correct: one membership in every table; a host in every
room, the senior one, known to itself and believed in by nobody else; nothing
left behind by a room or a puzzle that is over; one control token and one
timeout per puzzle, always with somebody who is there; a client whose view
converges to the server's once it has handled what it was sent.

## 2. Modules

| Module | Models | Source |
| --- | --- | --- |
| `OrderedMap` | a JavaScript `Map` (or a queue of distinct ids) as the sequence of its keys | used by the three below |
| `RoomServer` | sessions, room manager, rooms, player tables, admin kick, shutdown | `index.ts`, `manager.ts`, `room.ts`, `state.ts`, `admin.ts` |
| `RoomChannel` | `RoomServer`, the frames it sends, one FIFO per direction, the client's handlers | + `session.cpp`, `player_sync.cpp`, `net/client.cpp` |
| `TokenRotation` | what the puzzle manager promises (abstract) | - |
| `PuzzleToken` | the puzzle manager with its queues and timeouts | `puzzle.ts` |
| `PuzzleView` | `PuzzleToken`, its frames, passes on their way, the clients' input gate | + `puzzle_sync.cpp`, `session.cpp`, `index.ts` |
| `StateSync` | one player's state on its way: what its client sends, what the server keeps and diffs, what the watchers show; cutscenes, drops, rejoins | `player_sync.cpp`, `cutscene_sync.cpp`, `state.ts`, `room.ts`, `index.ts` |
| `SessionStatus` | which status of the session may follow which, as the menu sees it (abstract) | `session.cpp`, `session.h` |
| `ClientSession` | one game process over many connections: UI thread, worker thread, send queue, reconnection, and the server that answers | `session.cpp`, `net/client.cpp`, `index.ts` |
| `CombatRelay` | attacks, skills and damage of several clients over the relay, hosts and connections changing | `combat_sync.cpp`, `session.cpp`, `index.ts`, `room.ts` |
| `Framing` | the bytes of one connection: upgrade, headers, masks, pieces, the receive buffer | `net/client.cpp` |
| `Overlay` | one process from load to unload: init thread, hooks, menu, beacon, over `SessionStatus` | `dllmain.cpp`, `render_hook.cpp`, `modal.cpp`, `inventory_hook.cpp`, `cutscene_sync.cpp`, `puzzle_sync.cpp`, `combat_sync.cpp` |
| `OffsetCache` | finding the memory layout at launch: scans, walks, the cache file | `scanner.cpp`, `offsets.h`, `dllmain.cpp` |
| `*_proofs` | theorems about the module of that name and the modules it extends; `Launch_proofs` about `Overlay` and `OffsetCache` | - |
| `MC*` | instances for TLC | - |

**Correspondence.** Every handler is one action, because Node runs one handler
at a time. The one handler with an `await`, `POST /kick/:id`, is two actions,
`KickRequested` and `KickCompletes`; the second looks the room up in whatever
state it is by then. A session gets one fresh uuid, so the connection stands for
the player id; an invite code stands for the `Room` object under it. A `Map` is
the sequence of its keys because the next host is the first key. A socket goes
`open -> closing -> closed`: in `closing` it still delivers frames (`Receives`)
but is sent none (`Broadcast` skips it, as `safeSend` and `send` do), and its
`close` event runs `removePlayer`. `RoomServer` keeps what handlers do to the
server's state; `RoomChannel` conjoins to each of its steps the frames the
handler sends, in the code's order (`PLAYER_LEAVE` before `HOST_REASSIGN`,
`PLAYER_JOIN` to the others before `JOIN_ACK` to the joiner). SERVER_INFO, chat,
loot, combat and cutscene frames change none of the state these two modules keep
and are left out of them.

In `PuzzleToken` timeouts are counted and separate from the session's handle,
since a callback finds its puzzle by id and would act on whichever session has
that id by then: a handle that is dropped without `clearTimeout` is a stray
timeout that fires. No shipped client sends PUZZLE_START (its local trigger
never fires), but the server handles it from any member, and so does the model.
In `PuzzleView` a player is a game process: `PuzzleSync` is a singleton that
leaving does not reset, and an id is new on every entry, which is why entering
makes `mine` false.

`StateSync` follows one player and everybody who watches it, because players'
states do not interact. A `PlayerState` has some forty fields; the model has one
for each way the code treats them: compared by a threshold at both ends (`pos`),
compared at both ends (`health`), sent while true (`traversal`), compared by the
server only (`gear`), compared by nobody (`aim`), outside the updates
(`cutscene`). `SendLocalState` is one action from the comparison to what it
remembers as sent; `Tick` is the diff of all that `cur` and `last` hold. A
joiner's snapshot, cutscene frames and updates share one FIFO per watcher, as
they share a socket. A watcher leaves the room in two ways. `WatcherLeaves` is
`LeaveSession`: it empties the table, but does not wait for the worker, which may
put back what it had received (`LateFrame`) until the next connection is opened.
`WatcherDrops` is a lost connection (`OnDisconnected`): the frames on it are gone
and the table stays. The next `WatcherEnters` empties nothing either:
`ApplyStateUpdate` adds what the snapshot has and erases nothing (`After`).
`view[w]` is the entry of the last id under which `w` heard of the player. A
connection begins with its snapshot, so the frames that follow it are about that
id. The entries of earlier ids are left out: nothing erases them, and they are the
ghosts of `NobodyIsAGhost` (section 4).

In `ClientSession` a step is what one thread does between two points where the
other can see it: `Disconnect` and the assignments of Host and Join are one
action up to the wait for the worker (`ui = "connect"`), `StartWorker` is the end
of that wait; `Flush`, `Recv`, `LoopEnds` and the handling of one received frame
are the worker's. `LeaveSession` does not wait. The server side is one atomic
handler per frame, as in `RoomServer`, reduced to what decides the answer. The
number of a connection stands for the player id it is given, so frames that
carry the id of an earlier connection are recognised by it.

`ClientSession` implements `SessionStatus`: its worker is *last* once Connect has
started it, and *earlier* while Connect waits or after a leave. A refusal is
allowed at any time, because a JOIN_REQUEST left over from a broken connection is
denied on the next (`index.ts:182`) and the client cannot tell whose answer it
is. `Overlay` builds on that specification instead of on the network.

`CombatRelay` numbers connections and RPCs. An attack goes through the host's
client and comes back as damage; the model keeps for each attack whom it was
handed to and who else was in the room, which is what the properties compare
with. HANDSHAKE is folded into `Connects`; nothing the server does before
JOIN_REQUEST depends on it here.

In `Framing` lengths and header bytes are the real ones and payload bytes are all
the same. A `recv` ends at any offset at which `ReceiveLoop` can decide
something: within a header, behind it, one byte before the end of a frame, at
it. A send may be cut short after nothing, or after the header.

In `Overlay` the init thread makes one call per step (`stage`), each with what it
finds chosen once (`hookable`). `InstallHooks` is four steps per thread, because
the worker runs it as well, on JOIN_ACK and HOST_REASSIGN. A frame of the menu is
drawn from its beginning to its end, at most one click in it; Connect makes it
wait for the old worker; `JoinTail` is the read of the status and then the write
of the panel. `OpenBegins` and `OpenEnds` are the read and the write of
`Modal::Open` on another thread.

`OffsetCache` keeps, for an address, the base and the build it is right for, and
for the layout how far the walk has come. A save is two actions, since opening
the file truncates it; `Quit` may come between them. What a signature or a field
heuristic finds is a choice in the model; which fields are saved, loaded,
rebased and kept between attempts is the code's.

## 3. Runs

The runs of the project (`functions_moved`, the last, ends in a violation, the
others pass):

| Run | Instance | Shows |
| --- | --- | --- |
| `RoomServer.cfg` | 4 connections, 2 codes, 3 seats, up to 4 kicks waiting | `MembershipAgrees`, `HostIsOldestMember`, `HostFlagAgrees`, `NoRoomLeaks`, `SeatsAreEarned`, `SeniorityKept`, `OneRoomPerSession`, `TypeOK` |
| `RoomChannel.cfg` | 3 clients, 1 code, 1 unread STATE_UPDATE each | `OneBeliever`, `CaughtUpViewIsExact`, `FramesKeepOrder` |
| `RoomChannelKick.cfg` | 3 clients, 2 codes, 1 kick at a time, no ticks | `CaughtUpViewIsExact` |
| `PuzzleToken.cfg` | 4 players, 2 puzzles | `ControllerHeadsQueue`, `OneTimeoutEach`, `TurnsSurviveChurn`, `ImplementsRotation`, `EveryoneGetsATurn` |
| `PuzzleView.cfg` | 2 processes, 2 puzzles, `MaxUnread` 1, `MaxPasses` 1 | `CaughtUpGate`, `HolderCanAct` |
| `StateSync.cfg` | 1 watcher, positions 0..3, both thresholds 1, rejoins, 1 drop of the player, any number of the watcher | `FollowersHaveTheLast`, `SettledViewIsClose`, `CutsceneIsShown`, `StandstillIsShown` |
| `ClientSession.cfg` | 3 codes, 1 other player, 2 connections | `QuietSessionIsTheAskedOne`, `NobodyIsMissing`, `StaleFramesAreIgnored`, `ImplementsStatus`, `AskingIsAnswered` |
| `CombatRelay.cfg` | 2 clients, one of which hosts, 3 connections, 1 attack or skill | `AttacksReachAHost`, `DamageStaysInItsRoom`, `AnsweredOnce`, `AttackIsAnswered` |
| `Framing.cfg` | lengths 125, 126, 65535, 65536; 2 packets up, 2 frames down | `PacketsComeWhole`, `QueueIsReadInOrder`, `QueueIsSent` |
| `Overlay.cfg` | 3 sets of targets that can be hooked, 1 item, 1 move of the game | `ItemsKept`, `CombatHooksWork`, `HostIsArmed` |
| `OffsetCache.cfg` | 3 builds (2 with one hash), 2 bases, 3 attempts | `PlayerIsReadRight`, `CacheIsWhole` |
| `OffsetCacheBase.cfg` | 2 builds, 2 bases | violation of `FunctionsAreLive` |

The type invariants are theorems (`TypeOK`, `ChannelTypeOK`, `TokenTypeOK`,
`ViewTypeOK`, `StateTypeOK`, `SessionTypeOK`, `RelayTypeOK`, `FramingTypeOK`,
`OverlayTypeOK`, `CacheTypeOK`), as is `NoPuzzleLeaks`. These are kept for the
questions around the runs: larger or different ones that pass, and one for each observation of
section 4.

| Instance | Module | Shows |
| --- | --- | --- |
| `RoomChannelLive.cfg` | `MCRoomChannel` | `HostLearns`: what `CaughtUpViewIsExact` says of hosts, under fairness; `ChannelTypeOK` |
| `RoomChannelKickOne.cfg` | `MCRoomChannel` | violation of `KickEndsOnlyTheKicked` |
| `PuzzleViewLate.cfg` | `MCPuzzleView` | violation of `OnlyControllerActs`; `ViewTypeOK` up to there |
| `PuzzleViewGone.cfg` | `MCPuzzleView` | violation of `InputPassesWithoutPuzzle` |
| `StateSyncLost.cfg` | `MCStateSync` | violation of `GearIsShown` |
| `StateSyncJoiner.cfg` | `MCStateSync` | violation of `MembersHaveTheState` |
| `StateSyncRejoin.cfg` | `MCStateSync` | violation of `DropsAreMadeUp` |
| `ClientSessionLeft.cfg` | `MCClientSession` | violation of `LeavingIsFinal` |
| `ClientSessionRoom.cfg` | `MCClientSession` | violation of `RejoinsItsRoom` |
| `ClientSessionGhost.cfg` | `MCClientSession` | violation of `NobodyIsAGhost` |
| `ClientSessionKick.cfg` | `MCClientSession` | violation of `KickedStaysOut` |
| `OffsetCacheHooks.cfg` | `MCOffsetCache` | violation of `HooksAreFound` |
| `FramingBlocks.cfg` | `MCFraming` | violation of `QueueIsReadAnyway`; `FramingTypeOK` up to there |
| `OverlayBeacon.cfg` | `MCOverlay` | violation of `NeverOverwrites`; `OverlayTypeOK` up to there |
| `OverlayUnload.cfg` | `MCOverlay` | violation of `UnloadLeavesNothing` |

**Bounds.** `MaxPlayers` is a parameter of the system; three seats with four
connections make a room full and leave one outside. Four connections give a host,
an heir, its heir and an outsider; two codes let an outsider be in another room.
`MaxKicks` bounds kick requests that wait for their body, `MaxUpdates` the
STATE_UPDATEs a client has not handled, `MaxUnread` the puzzle frames a client
has not handled when the manager sends more (a broadcast may exceed it by its own
length). A connection lives once, so the other queues are finite. In `PuzzleToken`
nothing is bounded: a queue has no duplicates and a timeout per puzzle.

Four positions and a threshold of 1 at each end let two steps that are each too
small to be sent add up to one that is, and put a watcher at every distance up to
one beyond both thresholds. `MaxUp` and `MaxDown` bound the frames not handled
when the client sends or toggles its cutscene (`MaxUp`), and when the server
ticks, handles a cutscene, or somebody enters or leaves (`MaxDown`, by way of
`Deliverable`). Watchers do not interact, so one is enough; that it enters,
leaves, loses its connection and comes back is in every run, without a bound.
`Avatars` bounds what the game may hold about its player: in `StateSync.cfg` every
position in full health, and one of them without, since a change of health makes
the client send wherever the player is; elsewhere everything. `MaxDrops` counts
lost connections of the player: one is enough to leave memory of a former session
behind. `SettledViewIsClose` and
`StandstillIsShown` do not survive one, so they say `drops = 0`; the other
invariants hold after it too. In `ClientSession` two
connections are one that is left or lost and the next, with all codes and
another player to tell them apart by; what it shows is proved for any number of
connections.
`MaxQueue` bounds what the game adds to the send queue, `MaxDown` the frames
unread when somebody else moves or is kicked. `OffsetCache` is finite by itself:
launches are unbounded, `MaxAttempts` is the 30 of the code.

In `CombatRelay` three connections let a host fall, its heir take over and the
host come back while one attack is under way; the invariants are proved for any
number of clients, connections and attacks. `Framing` has both sides of both
boundaries of the header's form; two frames are one and the one that begins in
its pieces. What its invariants say is proved for every length a frame can have
that `SendAll` sends at once, and for any number of frames. `Overlay` bounds only the moves of the game: one falls before, into
or behind the append. `MaxUnread` and `MaxPasses` of 1 in `PuzzleView` let a pass
and a turn cross.

**Fairness.** `ChannelSpec` and `ViewSpec` require of each client only that it
goes on handling the frames it was sent: TCP delivers and the receive loop runs.
`TokenSpec` requires that a timeout which stays set fires, which Node's event
loop does. No player, no admin and no network is required to do anything.
`StateSpec` requires that the client's frame loop goes on calling
`SendLocalState`, that the tick timer fires and that both ends handle what they
receive. `SessionSpec` requires that the two client threads and the server run,
and (strong fairness of `TcpConnects`) that an attempt to connect repeated for
ever succeeds in the end; nobody has to press a button, and connections may be
lost at any time, up to `MaxConns` of them.
`RelaySpec` requires that clients write and handle what they have and that the
server handles what has arrived; nobody has to connect, to fight or to stay.
`FramingSpec` requires that the worker goes round its loop and that the server
reads; a `recv` may always fail, and no packet of the server is required.
`EveryoneGetsATurn` excepts a puzzle that is restarted for ever, since each
restart resets the rotation.

**Deadlock.** The room runs say `CHECK_DEADLOCK FALSE`: each connection lives
once, so after the last close nothing is left to do. So do those of `ClientSession` and `CombatRelay`, which
end when their `MaxConns` connections are used up, of `Framing`, whose connection
ends, and of `Overlay`, where a DLL that is unloaded does nothing more. All
others check it.

## 4. Findings

One run shows where the code does not do what it says:

* **Functions are not rebased** (`functions_moved`). Only `playerBasePtr` is saved
  as an offset from the base, for the reason `scanner.cpp:336-337` gives;
  `itemUseFn`, `attackTriggerFn` and `skillTriggerFn` are hooked at the addresses
  of a former launch.

The other instances show, in the same way:

* `KickEndsOnlyTheKicked`: `admin.ts:104` broadcasts KICK to the room and
  `session.cpp:232-237` sets `Failed` without looking at `playerId`, although
  `docs/protocol.md:180` says "Kick a player".
* `OnlyControllerActs`: `addPlayer` tells a newcomer nothing of an active puzzle;
  until the next token frame its input passes, against `puzzle.ts:3-5`.
* `InputPassesWithoutPuzzle`: nothing resets `PuzzleSync` when a session ends, so
  a player that leaves during a puzzle it does not control stays locked out of
  its own, against `puzzle_sync.cpp:156-157`.
* `GearIsShown`: `SendLocalState` returns unless position, health, animation or
  traversal changed (`player_sync.cpp:79`), so the weapon, buffs, mount or death
  of a player that stays still otherwise are shown late or never. The server's
  diff does look at them.
* `MembersHaveTheState`: a joiner's snapshot is of the live state and the next
  diff compares with the last broadcast, so what moved before the join and back
  before the tick is in no diff.
* `DropsAreMadeUp`: `OnDisconnected` keeps `lastPos_` and `lastHealth_`, so after
  a rejoin the player is at the origin, with full health, for everybody until it
  moves.
* `LeavingIsFinal`: the worker handles frames it has received after
  `LeaveSession` and sets the status back.
* `RejoinsItsRoom`: a host's reconnection asks for `create` once more
  (`session.cpp:114`), so it gets a new, empty room.
* `NobodyIsAGhost`: players that left while the client was not connected stay in
  `remotes_`.
* `KickedStaysOut`: the worker takes the close for a lost connection and joins
  again.
* `HooksAreFound`: `cutsceneFn` and `puzzleInputFn` are not in the cache file and a
  hit skips the scan, so from the second launch on neither hook is installed.
* `QueueIsReadAnyway`: `SendAll` gives up when the send buffer is full, in the
  middle of a frame if need be, and `FlushSendQueue` goes on with the next, which
  the server reads as the rest of the first.
* `NeverOverwrites`: between the read of the count and its write the game may
  fill the slot, against `inventory_hook.cpp:136`.
* `UnloadLeavesNothing`: nothing gives the window its own procedure back, and a
  frame between `RemoveRenderHook` and `MH_Uninitialize` sets ImGui up again.

## 5. Proofs

All are for every value of the constants, from the named assumptions of the
modules (`Nobody`, `NoConn`, `NoRoom` are no players and no codes; `MaxPlayers`
is in 1..8 as the constructor clamps it; `"create"` is no code, because
`session.cpp` keeps that wish in a flag of its own, `wantCreate_`; other players
are not connections of this client; a frame's length is an `int`, as `SendAll`
casts it). The bounds of the instances are constants
too, so what is proved holds for any of them.

* `OrderedMap_proofs`: what `MapSet` and `MapDelete` do to the keys, their
  distinctness, their order and the head, and what a frame that joins or leaves a line does to
  it. The developments whose modules keep a `Map`, or lines of frames, cite them.
* `RoomChannel_proofs`, first part: of `RoomServer`, `IInv`, the conjunction of the type invariant and the five
  other state invariants of the run, is inductive. None of them is inductive alone: the heir
  is a member because the tables agree, the tables agree after a join because an
  unseated session is in no room, and a new room starts empty because a destroyed
  one left nothing. Every handler is reduced to one of three lemmas: a step that
  touches no room, entering a room, leaving one. `OneRoomPerSession` and
  `SeniorityKept`, which speak of steps, follow from the same invariant.
* `RoomChannel_proofs`, second part: `ChannelSpec` implies `RoomServer`'s `Spec`
  (`ServerIsRoomServer`), so all of the above holds with the frames in flight.
  `CInv` adds to `IInv` what each line of frames has to do with the rooms and
  with its receiver's view (`LineOK`). None of the three checked invariants is
  inductive: they speak of empty lines, or of one line alone, and what an empty
  line leaves behind depends on what was in it. What a client will show is a fold
  over the frames in their order; the proof gets rid of the order. No frame
  mentions a player behind its PLAYER_LEAVE, so the table will be what it is, plus
  everyone mentioned, minus everyone who left; and a client once named host is
  denied the role by no later frame.
* `StateSync_proofs`: `SInv` says that some path of views leads from what a watcher
  shows, frame by frame, to one that is up to date (`WatcherOK`), and that the
  values the client remembers as sent are those of its last update under way, or
  the server's own (`SentIsRemembered`). A frame sent lengthens the path, a frame
  handled shortens it, so nothing has to be computed over a line of any length.
  Of a watcher outside of the room `SInv` says nothing but that it was not told:
  its table may hold anything, and `CutsceneIsShown` holds because the snapshot
  names whoever is there. `SettledViewIsClose` is then the sum of the two
  thresholds.
* `ClientSession_proofs`: the dialogue HANDSHAKE, HANDSHAKE_ACK, JOIN_REQUEST,
  JOIN_ACK runs through the two lines of the current connection, what the client
  has queued or sent and what the server has sent back. `ClientInv` says that at
  most one frame of it is under way (`DialogueOK`), that what earlier connections
  left in the queue is ahead of all of it (`StaleOK`), where the client will find
  itself (`SeatOK`) and whom it will know (`MembersOK`) once both lines are empty,
  and that nothing has happened on a connection not yet opened. The checked
  invariants speak of quiet states only, and a quiet state is one step from a state
  that is not. From `ClientInv`, `SessionSpec` implements `SessionStatus` step by
  step: what is on its way to a client that left, or lost its connection, is
  answered by no status that the last worker alone may set.
* `CombatRelay_proofs`: an attack or skill is a token. It is queued, under way to the
  server, handed to a host, under way back as damage, relayed. `RelayInv` says that
  there is a function that places each token (`TokensOK`), so that a frame found in
  one queue is in no other and no two queues need be compared. The rest is what
  keeps the function right: a frame is once in a line and damage is not behind a
  request to join, or it could be sent into the next room (`LinesOK`); what the
  server noted when it handed an attack over is still so when the damage is on its
  way (`SentOK`); a client believes it is host before each attack it is handed, and
  no later frame denies it (`HostsOK`). Connections are their client's and rooms
  their members' (`ConnsOK`, `RoomsOK`). None of the checked invariants is inductive
  alone: each speaks of frames already on their way down, and what may be sent down
  is decided by what is queued, and who is believed to be host, before.
* `PuzzleView_proofs`, first part: of `PuzzleToken`, `TInv` adds to the run's invariants, `TokenTypeOK` and
  `NoPuzzleLeaks` that no player is
  twice in the room, without which a restart could queue somebody twice. It is
  stated puzzle by puzzle (`Sound`), since every operation changes either one
  puzzle or each puzzle on its own. `TurnsSurviveChurn` needs it, too: a controller
  that stays heads a queue that is not emptied. From it, `TokenSpec` implements
  `TokenRotation`: `StartPuzzle` maps to `Begin`, a pass or a timeout to
  `HandOver` (or a stutter when there is nobody else), joins and leaves to
  `Arrive` and `Depart`.
* `PuzzleView_proofs`, second part: the manager takes no step among its clients that it
  does not take alone (`ViewKeepsToken`), so `TInv` holds with frames in flight.
  `CaughtUpGate` is not inductive: it speaks of empty lines. What a client will show
  is what the last frame that sets it says, unless an end behind that frame names the
  same puzzle (`WillShow`); `VInv` says that for every member this is a puzzle that is
  on, with its token seen rightly, or that it takes part in none (`Promised`). When a
  member leaves, the manager sends a turn, or an end, for each puzzle it was queued for,
  and a client shows the last turn, unless that puzzle ends behind it; that somebody who
  takes part in a puzzle is shown one needs `Nested`: who is queued for the smaller of
  two puzzles is queued for the other as well.
* `Framing_proofs`: `FramingInv` says that each stream is frames one behind the
  other (`Frames`), each whole until a send is cut, and that a reader stands where the frame behind those it has read begins,
  or will begin (`InStep`, `Handled`). `HeaderSays` is the reason it stays there: what
  `SendFrame` writes in 7, 16 or 64 bits is the length that the receive loop computes
  from those bytes, and so is its own length with the mask. `PacketsComeWhole` is not
  inductive: where the client stands after a piece depends on what it has left in
  the buffer (`ParseFrame`, `ForemostFacts`). After a cut the server reads from the middle of a frame;
  there the proof shows only that what it takes for a length is one.
* `Launch_proofs`, first part: of `Overlay`, `IInv` has two parts that have nothing to do with each other.
  `Installers` and `ComeBy` follow the two threads in `InstallHooks`: the hook that is
  made is enabled, or the thread that made it is about to enable it, and a thread that
  is refused leaves it to the other. `Inventory` and `NextSlot` say of the game's array
  that the items below the count are the player's, each in one slot, and that the
  beacon is written to the slot behind them and counted then. `ItemsKept` holds in the
  middle of the append, too; what it excepts is the game moving an item there
  (`raced`), which the code does not prevent (`NeverOverwrites`). The type invariant
  itself needs `Installers`, since it says that no hook is enabled that cannot be.
* `Launch_proofs`, second part: of `OffsetCache`, `CacheInv` adds to the run's invariants and `CacheTypeOK` what a launch that
  still resolves, or is saving, has found (`FoundHere`): its own base and its own
  build. Without it a save could put the address of one build and the layout of
  another into one entry. The hash is opaque in the proof: a layout is of a build
  with the running build's hash, and of that build exactly if no other shares it.

Both properties of order, `SeniorityKept` and `TurnsSurviveChurn`, say who comes
before whom instead of what a filter of the sequence is: the filter is a recursive
function, of which nothing can be proved for every sequence.

Only model-checked: liveness
(`EveryoneGetsATurn`, `HolderCanAct`, `StandstillIsShown`, `AskingIsAnswered`,
`AttackIsAnswered`, `QueueIsSent`). Liveness under fairness and induction
over recursively defined data are beyond the prover used here: it has no rules
for ENABLED, and cannot apply an induction theorem to an operator.

## 6. Plan

Every state invariant and every action property of the runs that hold is a
theorem. What is left is outside the models so far:

1. Fragmented frames and pings, should the server come to send them.
2. The hazards for which `PROJECT.json` gives a note instead of a property.

## 7. Not modelled

* ANIMATION_UPDATE (sent with the STATE_UPDATE whose `animState` it repeats,
  `player_sync.cpp:101-105`), chat and SERVER_INFO (this client requests
  neither), LOOT_TAKEN (`NotifyLootTaken` has no
  caller), the enemy table (no client sends `enemy_update`), the ping.
* Interpolation, and the writes to the entities of remote players and enemies:
  `entityBase` is never set, so that code is not reached.
* `RuntimeConfig`: a patch replaces an object that `RoomManager` does not look at
  again, so nothing else changes. Colliding invite codes: a code is the identity
  of its room here.
* The window between the assignments of `HostSession` and the `Disconnect` that
  follows, in which the worker may read a half-written request on a socket that
  is about to be closed. The poll of the cinematic flag, which runs only where
  the hook does not. What comes of the read of the status and the write of the
  panel in `Modal::Open` (`modal.cpp:52`) and `RenderJoinSetup` (`modal.cpp:222`):
  the steps are in `Overlay`, no document says which panel is to be open.
* What a beacon the game may have saved does at the next launch. Pings and fragments in `Framing` (the server sends neither), the JSON text,
  which input messages `HookedWndProc` keeps from the game, layout and drawing.
* `dxgi_proxy.cpp`, `memory.cpp` and `log.cpp`: forwarding, guarded access and a
  log file, without protocol state.
