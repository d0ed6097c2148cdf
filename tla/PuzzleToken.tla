------------------------------ MODULE PuzzleToken -----------------------------
(***************************************************************************)
(* Control-token rotation of one room's puzzles: PuzzleManager             *)
(* (puzzle.ts), driven by the room's joins and leaves (room.ts) and by the *)
(* PUZZLE_START and PUZZLE_PASS handlers (index.ts).                       *)
(*                                                                         *)
(* A turn lasts tokenDuration; here a pending timeout may fire at any      *)
(* time.  Timeouts are counted, because a callback finds its puzzle by id  *)
(* and so would act on whatever session has that id by then.  A player     *)
(* that left purges its id everywhere, so one that arrives may have it.    *)
(***************************************************************************)
EXTENDS Naturals, OrderedMap

CONSTANTS
    Players,
    Puzzles,  \* puzzle ids
    Nobody

ASSUME NobodyAssumption == Nobody \notin Players

VARIABLES
    members,     \* keys of Room.connections, in insertion order
    active,      \* keys of PuzzleManager.puzzles
    queue,       \* session.controlQueue
    controller,  \* session.currentController
    handle,      \* session.tokenTimer refers to a pending timeout
    pending      \* timeouts set for the puzzle and neither fired nor cleared

sessionVars == <<queue, controller, handle, pending>>
tokenVars   == <<members, active, sessionVars>>

TokenTypeOK ==
    /\ members \in Seq(Players)
    /\ active \subseteq Puzzles
    /\ queue \in [Puzzles -> Seq(Players)]
    /\ controller \in [Puzzles -> Players \cup {Nobody}]
    /\ handle \in [Puzzles -> BOOLEAN]
    /\ pending \in [Puzzles -> Nat]

TokenInit ==
    /\ members = <<>>
    /\ active = {}
    /\ queue = [z \in Puzzles |-> <<>>]
    /\ controller = [z \in Puzzles |-> Nobody]
    /\ handle = [z \in Puzzles |-> FALSE]
    /\ pending = [z \in Puzzles |-> 0]

\* Mutant: clearTimer forgets the handle without clearing the timeout.
ClearForgotten(held, n) == n

\* clearTimer: the n timeouts of a puzzle after its session's own is cleared.
Clear(held, n) == IF held THEN n - 1 ELSE n

\* grantToken: the session's timer is cleared and a new one set.
Armed(held, n) == Clear(held, n) + 1

(***************************************************************************)
(* Room membership.                                                        *)
(***************************************************************************)
Enter(p) ==
    /\ p \notin ToSet(members)
    /\ members' = MapSet(members, p)
    /\ UNCHANGED <<active, sessionVars>>

\* Mutants: the queue forgets the player, the token does not; the token is
\* handed on whoever leaves.
NewControllerStale(c, p, left) == c
NewControllerAlways(c, p, left) == IF left = <<>> THEN Nobody ELSE Last(left)

\* Who controls a puzzle whose queue is left without p.
NewController(c, p, left) ==
    IF left = <<>> THEN Nobody ELSE IF c = p THEN Head(left) ELSE c

\* Room.removePlayer with onPlayerDisconnect: every puzzle p is queued for
\* ends, passes to the new head, or goes on with its timer untouched.
Leave(p) ==
    LET Left(z)  == MapDelete(queue[z], p)
        Ends(z)  == p \in ToSet(queue[z]) /\ Left(z) = <<>>
        Hands(z) == p \in ToSet(queue[z]) /\ controller[z] = p /\ ~Ends(z)
    IN
    /\ p \in ToSet(members)
    /\ members' = MapDelete(members, p)
    /\ queue' = [z \in Puzzles |-> Left(z)]
    /\ controller' = [z \in Puzzles |->
          IF p \in ToSet(queue[z]) THEN NewController(controller[z], p, Left(z))
          ELSE controller[z]]
    /\ active' = {z \in active : ~Ends(z)}
    /\ handle' = [z \in Puzzles |-> (handle[z] /\ ~Ends(z)) \/ Hands(z)]
    /\ pending' = [z \in Puzzles |->
          IF Ends(z) THEN Clear(handle[z], pending[z])
          ELSE IF Hands(z) THEN Armed(handle[z], pending[z])
          ELSE pending[z]]

(***************************************************************************)
(* The puzzle manager.                                                     *)
(***************************************************************************)

\* PUZZLE_START from a member: a fresh session of everyone in the room, its
\* predecessor's timer cleared.
StartPuzzle(p, z) ==
    /\ p \in ToSet(members)
    /\ active' = active \cup {z}
    /\ queue' = [queue EXCEPT ![z] = members]
    /\ controller' = [controller EXCEPT ![z] = Head(members)]
    /\ handle' = [handle EXCEPT ![z] = TRUE]
    /\ pending' = [pending EXCEPT ![z] = Armed(handle[z], @)]
    /\ UNCHANGED members

\* Mutant: the new head is popped, too.
RotatedShort(q) == Tail(q)

\* controlQueue.shift() and push().
Rotated(q) == Append(Tail(q), Head(q))

\* Mutant: the turn passes but the queue stays as it is.
NextControllerUnrotated(z, held, n) ==
    IF z \notin active
    THEN pending' = [pending EXCEPT ![z] = n] /\ UNCHANGED <<active, queue, controller, handle>>
    ELSE /\ UNCHANGED <<active, queue>>
         /\ controller' = [controller EXCEPT ![z] = Head(queue[z])]
         /\ handle' = [handle EXCEPT ![z] = TRUE]
         /\ pending' = [pending EXCEPT ![z] = Armed(held, n)]

\* nextController, called with the session's timer held and n timeouts set.
\* An empty queue ends the puzzle.
NextController(z, held, n) ==
    IF z \notin active
    THEN pending' = [pending EXCEPT ![z] = n] /\ UNCHANGED <<active, queue, controller, handle>>
    ELSE LET q == IF queue[z] = <<>> THEN <<>> ELSE Rotated(queue[z]) IN
         /\ active' = IF q = <<>> THEN active \ {z} ELSE active
         /\ queue' = [queue EXCEPT ![z] = q]
         /\ controller' = [controller EXCEPT ![z] = IF q = <<>> THEN Nobody ELSE Head(q)]
         /\ handle' = [handle EXCEPT ![z] = q # <<>>]
         /\ pending' = [pending EXCEPT ![z] =
                           IF q = <<>> THEN Clear(held, n) ELSE Armed(held, n)]

\* PUZZLE_PASS: only the current controller's counts.
Pass(p, z) ==
    /\ p \in ToSet(members)
    /\ z \in active
    /\ controller[z] = p
    /\ NextController(z, handle[z], pending[z])
    /\ UNCHANGED members

\* A timeout fires: the session's own, or one no session refers to any more.
TimerFires(z) ==
    /\ pending[z] > 0
    /\ \E own \in BOOLEAN :
          /\ IF own THEN handle[z] ELSE Clear(handle[z], pending[z]) > 0
          /\ NextController(z, handle[z] /\ ~own, pending[z] - 1)
    /\ UNCHANGED members

TokenNext ==
    \/ \E p \in Players :
          \/ Enter(p)
          \/ Leave(p)
          \/ \E z \in Puzzles : StartPuzzle(p, z) \/ Pass(p, z)
    \/ \E z \in Puzzles : TimerFires(z)

\* Node's event loop runs every timeout that stays set.  Players owe nothing.
TokenSpec ==
    /\ TokenInit
    /\ [][TokenNext]_tokenVars
    /\ \A z \in Puzzles : WF_tokenVars(TimerFires(z))

-------------------------------------------------------------------------------
(***************************************************************************)
(* Safety.                                                                 *)
(***************************************************************************)

\* An active puzzle is controlled by the head of its queue, and the queue
\* names members of the room, none of them twice: no token is ever with
\* someone who left, and no empty puzzle lingers.
ControllerHeadsQueue ==
    \A z \in active :
        /\ queue[z] # <<>>
        /\ controller[z] = Head(queue[z])
        /\ ToSet(queue[z]) \subseteq ToSet(members)
        /\ \A i, j \in DOMAIN queue[z] : queue[z][i] = queue[z][j] => i = j

\* Exactly one timeout is set for each active puzzle, and its session holds
\* the handle; none is set for a puzzle that is over.  A second one would cut
\* somebody's turn, a missing one would stop the rotation.
OneTimeoutEach ==
    \A z \in Puzzles :
        /\ pending[z] = IF z \in active THEN 1 ELSE 0
        /\ handle[z] <=> z \in active

\* A puzzle that is over keeps no session; an empty room has no puzzles.
NoPuzzleLeaks ==
    /\ \A z \in Puzzles \ active : queue[z] = <<>> /\ controller[z] = Nobody
    /\ members = <<>> => active = {}

\* Comings and goings of others disturb no turn: while its controller stays,
\* a puzzle keeps its token, its running timeout and the order of the queue.
TurnsSurviveChurn ==
    [][\A z \in active : members' # members /\ controller[z] \in ToSet(members') =>
          /\ controller'[z] = controller[z]
          /\ pending'[z] = pending[z] /\ handle'[z] = handle[z]
          /\ ToSet(queue'[z]) = ToSet(queue[z]) \cap ToSet(members')
          /\ \A p, q \in ToSet(queue'[z]) :
                ComesBefore(queue[z], p, q) => ComesBefore(queue'[z], p, q)]_tokenVars

\* The manager implements the abstract rotation.
TR == INSTANCE TokenRotation WITH
          present <- ToSet(members),
          group   <- [z \in Puzzles |-> ToSet(queue[z])],
          holder  <- controller
ImplementsRotation == TR!Rotation

(***************************************************************************)
(* Liveness.                                                               *)
(***************************************************************************)

\* Unless the puzzle is restarted again and again, whoever is queued for it
\* gets the token or leaves, even when nobody ever passes.
EveryoneGetsATurn ==
    \A z \in Puzzles :
        \/ []<><<\E p \in Players : StartPuzzle(p, z)>>_tokenVars
        \/ \A p \in Players :
              p \in ToSet(queue[z]) ~> controller[z] = p \/ p \notin ToSet(queue[z])

===============================================================================
