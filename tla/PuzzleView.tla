------------------------------ MODULE PuzzleView ------------------------------
(***************************************************************************)
(* The puzzle manager and the clients it talks to: PuzzleToken, a FIFO of  *)
(* PUZZLE_* frames to every client, and the PuzzleSync of every client     *)
(* (puzzle_sync.cpp), which decides whether the player's puzzle input      *)
(* reaches the game.  A step of the manager is a step of PuzzleToken with  *)
(* the frames it broadcasts.                                               *)
(*                                                                         *)
(* A player of PuzzleToken is here one game process.  It gets a new id     *)
(* each time it enters a room, and PuzzleSync, a singleton that nothing    *)
(* resets, lives as long as the process.                                   *)
(***************************************************************************)
EXTENDS PuzzleToken

CONSTANTS
    MaxUnread,  \* bound: frames a client has not handled when more are sent
    MaxPasses,  \* bound: PUZZLE_PASS frames of a client on their way
    NoPuzzle    \* an empty puzzleId_

ASSUME MaxUnreadAssumption == MaxUnread \in Nat /\ MaxPasses \in Nat
ASSUME NoPuzzleAssumption == NoPuzzle \notin Puzzles

VARIABLES
    down,   \* frames a client has not handled
    passes, \* the puzzles of its PUZZLE_PASS frames the server has not handled
    view,   \* PuzzleSync: puzzleActive_, puzzleId_, controllerId_ is our id
    gone    \* history: processes that have left a room before

viewVars == <<tokenVars, down, passes, view, gone>>

Start(z)    == [t |-> "PUZZLE_START", puzzleId |-> z]
Token(z, p) == [t |-> "PUZZLE_TOKEN", puzzleId |-> z, controllerId |-> p]
End(z)      == [t |-> "PUZZLE_END", puzzleId |-> z]

Frame ==
    [t : {"PUZZLE_START", "PUZZLE_END"}, puzzleId : Puzzles]
    \cup [t : {"PUZZLE_TOKEN"}, puzzleId : Puzzles, controllerId : Players]

Idle == [active |-> FALSE, puzzle |-> NoPuzzle, mine |-> FALSE]

ViewTypeOK ==
    /\ TokenTypeOK
    /\ down \in [Players -> Seq(Frame)]
    /\ passes \in [Players -> Seq(Puzzles)]
    /\ view \in [Players -> [active : BOOLEAN, puzzle : Puzzles \cup {NoPuzzle},
                             mine : BOOLEAN]]
    /\ gone \subseteq Players

ViewInit ==
    /\ TokenInit
    /\ down = [p \in Players |-> <<>>]
    /\ passes = [p \in Players |-> <<>>]
    /\ view = [p \in Players |-> Idle]
    /\ gone = {}

(***************************************************************************)
(* The server.                                                             *)
(***************************************************************************)

\* Room.broadcast of some frames, one after the other, to the members ps.
Broadcast(ps, frames) ==
    /\ \A p \in ps : Len(down[p]) <= MaxUnread
    /\ down' = [p \in Players |-> IF p \in ps THEN down[p] \o frames ELSE down[p]]

\* A new connection; HANDSHAKE_ACK has replaced the client's own id.
EnterRoom(p) ==
    /\ Enter(p)
    /\ view' = [view EXCEPT ![p].mine = FALSE]
    /\ UNCHANGED <<down, passes, gone>>

\* Mutant: the token is broadcast before it is passed on.
TurnFrameEarly(z) == IF z \in active' THEN Token(z, controller[z]) ELSE End(z)

\* broadcastToken for a puzzle that goes on, PUZZLE_END for one that is over.
TurnFrame(z) == IF z \in active' THEN Token(z, controller'[z]) ELSE End(z)

\* Those who stay hear of every puzzle the leaver was queued for.  The frames
\* of several puzzles come in the order of the puzzles map, any order here.
LeaveRoom(p) ==
    LET queued == {z \in active : p \in ToSet(queue[z])}
        rest   == ToSet(members) \ {p}
    IN
    /\ Leave(p)
    /\ \A q \in rest : Len(down[q]) <= MaxUnread
    /\ \E order \in SetToSeqs(queued) :
          LET frames == [i \in DOMAIN order |-> TurnFrame(order[i])] IN
          down' = [q \in Players |->
                      IF q = p THEN <<>> ELSE IF q \in rest THEN down[q] \o frames ELSE down[q]]
    /\ passes' = [passes EXCEPT ![p] = <<>>]
    /\ gone' = gone \cup {p}
    /\ UNCHANGED view

StartInRoom(p, z) ==
    /\ StartPuzzle(p, z)
    /\ Broadcast(ToSet(members), <<Start(z), Token(z, controller'[z])>>)
    /\ UNCHANGED <<passes, view, gone>>

\* The end of a turn.
TurnInRoom(z) ==
    /\ TimerFires(z)
    /\ Broadcast(ToSet(members), IF z \in active THEN <<TurnFrame(z)>> ELSE <<>>)
    /\ UNCHANGED <<passes, view, gone>>

\* onPuzzlePass: only the controller's pass is one.
OnPuzzlePass(p) ==
    LET z == Head(passes[p]) IN
    /\ passes[p] # <<>>
    /\ passes' = [passes EXCEPT ![p] = Tail(@)]
    /\ IF z \in active /\ controller[z] = p
       THEN Pass(p, z) /\ Broadcast(ToSet(members), <<TurnFrame(z)>>)
       ELSE UNCHANGED <<tokenVars, down>>
    /\ UNCHANGED <<view, gone>>

(***************************************************************************)
(* The client.                                                             *)
(***************************************************************************)

\* Mutant: PUZZLE_END forgets puzzleActive_.
AfterEndKept(v, m) == [v EXCEPT !.puzzle = NoPuzzle, !.mine = FALSE]

AfterStart(v, m) == [active |-> TRUE, puzzle |-> m.puzzleId, mine |-> FALSE]

\* Mutant: who has the token keeps it.
AfterTokenOnce(v, m, p) ==
    IF v.mine THEN v
    ELSE [active |-> TRUE, puzzle |-> m.puzzleId, mine |-> m.controllerId = p]

AfterToken(v, m, p) ==
    [active |-> TRUE, puzzle |-> m.puzzleId, mine |-> m.controllerId = p]

\* The end of another puzzle than the one shown is ignored.
AfterEnd(v, m) == IF v.puzzle \in {NoPuzzle, m.puzzleId} THEN Idle ELSE v

\* OnPuzzleStart, OnPuzzleToken, OnPuzzleEnd.
OnPuzzlePacket(p) ==
    LET m == Head(down[p]) IN
    /\ down[p] # <<>>
    /\ down' = [down EXCEPT ![p] = Tail(@)]
    /\ \/ m.t = "PUZZLE_START" /\ view' = [view EXCEPT ![p] = AfterStart(@, m)]
       \/ m.t = "PUZZLE_TOKEN" /\ view' = [view EXCEPT ![p] = AfterToken(@, m, p)]
       \/ m.t = "PUZZLE_END"   /\ view' = [view EXCEPT ![p] = AfterEnd(@, m)]
    /\ UNCHANGED <<tokenVars, passes, gone>>

\* The button passes the turn of the puzzle that is shown.
RequestPass(p) ==
    /\ view[p].active /\ view[p].mine
    /\ p \in ToSet(members)
    /\ Len(passes[p]) < MaxPasses
    /\ passes' = [passes EXCEPT ![p] = Append(@, view[p].puzzle)]
    /\ UNCHANGED <<tokenVars, down, view, gone>>

\* The hook on the game's puzzle input asks this before it calls the game.
LocalInputAllowed(p) == view[p].active => view[p].mine

ViewNext ==
    \/ \E p \in Players :
          \/ EnterRoom(p)
          \/ LeaveRoom(p)
          \/ \E z \in Puzzles : StartInRoom(p, z)
          \/ OnPuzzlePacket(p)
          \/ RequestPass(p)
          \/ OnPuzzlePass(p)
    \/ \E z \in Puzzles : TurnInRoom(z)

\* TCP delivers and the client's worker handles what a live connection is sent.
ViewSpec ==
    /\ ViewInit
    /\ [][ViewNext]_viewVars
    /\ \A p \in Players : WF_viewVars(OnPuzzlePacket(p))

-------------------------------------------------------------------------------
(***************************************************************************)
(* Safety.                                                                 *)
(***************************************************************************)

Member(p) == p \in ToSet(members)

\* Whichever puzzles came and went before, and however their frames
\* interleaved, for a client that has handled everything sent to it: while a
\* single puzzle is active a participant lets input through exactly when it
\* holds the token, and once all are over nobody is gated that is in its first
\* room.
CaughtUpGate ==
    /\ Cardinality(active) = 1 =>
          \A z \in active : \A p \in ToSet(queue[z]) :
              down[p] = <<>> => (LocalInputAllowed(p) <=> controller[z] = p)
    /\ active = {} =>
          \A p \in ToSet(members) \ gone :
              down[p] = <<>> => LocalInputAllowed(p)

(***************************************************************************)
(* Liveness.                                                               *)
(***************************************************************************)

\* Whoever holds the token of the only puzzle gets to use it, unless it moves
\* on first.
HolderCanAct ==
    \A p \in Players, z \in Puzzles :
        active = {z} /\ controller[z] = p ~>
            LocalInputAllowed(p) \/ active # {z} \/ controller[z] # p

(***************************************************************************)
(* "Only that player's puzzle input is allowed through on the client"      *)
(* (puzzle.ts:3-5): once it has heard everything, no other member's input  *)
(* passes while the puzzle is active.                                      *)
(***************************************************************************)
OnlyControllerActs ==
    \A z \in active, p \in Players :
        Member(p) /\ down[p] = <<>> /\ LocalInputAllowed(p) => controller[z] = p

(***************************************************************************)
(* "When no puzzle is active the input is unrelated to the rotation and    *)
(* must pass through" (puzzle_sync.cpp:156-157).                           *)
(***************************************************************************)
InputPassesWithoutPuzzle ==
    \A p \in Players :
        active = {} /\ down[p] = <<>> => LocalInputAllowed(p)

===============================================================================
