------------------------------ MODULE OffsetCache ------------------------------
(***************************************************************************)
(* How the client finds the engine's memory layout at launch: signature    *)
(* scan, entity walk, and the cache file that spares the next launch both  *)
(* (scanner.cpp, driven by InitThread of dllmain.cpp).                     *)
(*                                                                         *)
(* The game is updated and relaunched any number of times, its module is   *)
(* loaded at any base, and the process may end at any moment.  GameOffsets *)
(* is abstracted to a field per way of being found, saved and loaded:      *)
(*   player  playerBasePtr: scanned, saved as an address and as an offset  *)
(*           from the base of the module                                   *)
(*   fns     itemUseFn, attackTriggerFn, skillTriggerFn: scanned, saved as *)
(*           addresses only (as the inventory pointers are, left out here) *)
(*   hookFns cutsceneFn, puzzleInputFn, puzzleTriggerFn: scanned, not saved*)
(*   layout  the field offsets: found by the walk, in the order position,  *)
(*           health, animation with everything derived from them, each     *)
(*           kept when a later walk does not find it again                 *)
(* An address is the base it was computed with and the build it is for.    *)
(***************************************************************************)
EXTENDS Naturals

CONSTANTS
    Builds,       \* versions of the game
    Twins,        \* builds with the same first 1 MiB
    Hookable,     \* builds in which the cutscene and puzzle signatures occur
    Bases,        \* where the module is loaded
    MaxAttempts,  \* attempts of InitThread (30)
    Null,         \* 0
    Missing,      \* no cache file
    Torn,         \* a cache file cut short
    NoHash        \* the empty hash

ASSUME TwinsAssumption == Twins \subseteq Builds /\ Hookable \subseteq Builds
ASSUME AttemptsAssumption == MaxAttempts \in Nat \ {0}

Address == [base : Bases, build : Builds]
Layout  == [build : Builds, depth : 0..3]

\* GameBinaryHash.
Hash(b) == IF b \in Twins THEN Twins ELSE {b}

Hashes == {Hash(b) : b \in Builds} \cup {NoHash}

Entry == [hash : Hashes, player : Address, fns : Address \cup {Null}, layout : Layout]

ASSUME NullAssumption == Null \notin Address
ASSUME FileAssumption == Missing \notin Entry /\ Torn \notin Entry
ASSUME NoHashAssumption == \A b \in Builds : NoHash # Hash(b)

VARIABLES
    phase,     \* "off", "resolving", "saving" or "running"
    base,      \* base of the module of this launch
    build,     \* version that runs
    attempts,  \* failed attempts of this launch
    spawned,   \* the game has a local player entity
    player, fns, hookFns, layout,  \* g_offsets
    file       \* offsets_cache.json

offsets   == <<player, fns, hookFns, layout>>
cacheVars == <<phase, base, build, attempts, spawned, offsets, file>>

CacheTypeOK ==
    /\ phase \in {"off", "resolving", "saving", "running"}
    /\ base \in Bases
    /\ build \in Builds
    /\ attempts \in 0..MaxAttempts
    /\ spawned \in BOOLEAN
    /\ player \in Address \cup {Null}
    /\ fns \in Address \cup {Null}
    /\ hookFns \in Address \cup {Null}
    /\ layout \in Layout
    /\ file \in Entry \cup {Missing, Torn}

Here == [base |-> base, build |-> build]

Blank(b) == [build |-> b, depth |-> 0]

CacheInit ==
    /\ phase = "off"
    /\ base \in Bases
    /\ build \in Builds
    /\ attempts = 0
    /\ spawned = FALSE
    /\ player = Null
    /\ fns = Null
    /\ hookFns = Null
    /\ layout = Blank(build)
    /\ file = Missing

\* The game starts, updated or not.
Launch(a, b) ==
    /\ phase = "off"
    /\ phase' = "resolving"
    /\ base' = a
    /\ build' = b
    /\ attempts' = 0
    /\ spawned' = FALSE
    /\ player' = Null
    /\ fns' = Null
    /\ hookFns' = Null
    /\ layout' = Blank(b)
    /\ UNCHANGED file

\* It ends, or is killed, in the middle of a save too.
Quit ==
    /\ phase # "off"
    /\ phase' = "off"
    /\ UNCHANGED <<base, build, attempts, spawned, offsets, file>>

\* The player enters the world, or goes back to the menu.
SpawnOrDespawn ==
    /\ phase = "resolving"
    /\ spawned' = ~spawned
    /\ UNCHANGED <<phase, base, build, attempts, offsets, file>>

-------------------------------------------------------------------------------
\* Mutant: every readable file is taken.
AnyKey(h) == file \in Entry

KeyMatches(h) == file \in Entry /\ file.hash = h

\* Mutant: the address is taken as it was saved.
SavedAddress == player' = file.player

\* playerBaseRva on top of this launch's base.
Rebased == player' = [file.player EXCEPT !.base = base]

\* WalkEntityLayout gets no further back than an earlier walk, and nowhere
\* without an entity.
Walks(d) ==
    /\ layout.depth <= d
    /\ d > layout.depth => player' # Null /\ spawned
    /\ layout' = [layout EXCEPT !.depth = d]

\* ResolveOffsets without a hit, up to its result.  A signature may be found
\* or not; playerBasePtr then keeps its value.
Scan(d) ==
    /\ player' \in {player, Here}
    /\ fns' \in {Null, Here}
    /\ hookFns' = IF build \in Hookable THEN Here ELSE Null
    /\ Walks(d)

\* Mutant: half a layout is saved as well.
HasPosition == player # Null /\ layout.depth >= 1

playerLayoutResolved == player # Null /\ layout.depth = 3

\* ResolveOffsets with a hit.
LoadFromCache ==
    /\ phase = "resolving"
    /\ KeyMatches(Hash(build))
    /\ Rebased
    /\ fns' = file.fns
    /\ layout' = file.layout
    /\ playerLayoutResolved'
    /\ phase' = "running"
    /\ UNCHANGED <<base, build, attempts, spawned, hookFns, file>>

\* InitThread tries again until it has the layout or the attempts are used up.
AttemptEnds ==
    IF playerLayoutResolved'
    THEN phase' = "running" /\ UNCHANGED attempts
    ELSE /\ attempts' = attempts + 1
         /\ phase' = IF attempts' = MaxAttempts THEN "running" ELSE "resolving"

\* Without a hash, without a layout, or without a file to write.
ScanWithoutSave ==
    /\ phase = "resolving"
    /\ \E d \in 0..3 : Scan(d)
    /\ AttemptEnds
    /\ UNCHANGED <<base, build, spawned, file>>

\* A miss, and a file to write, which is truncated first.
ScanAndSave ==
    /\ phase = "resolving"
    /\ ~KeyMatches(Hash(build))
    /\ \E d \in 0..3 : Scan(d)
    /\ playerLayoutResolved'
    /\ phase' = "saving"
    /\ file' = Torn
    /\ UNCHANGED <<base, build, attempts, spawned>>

\* The rest of SaveOffsetCache, which hashes the executable once more.
SaveOffsetCache ==
    /\ phase = "saving"
    /\ \E h \in {Hash(build), NoHash} :
          file' = [hash |-> h, player |-> player, fns |-> fns, layout |-> layout]
    /\ phase' = "running"
    /\ UNCHANGED <<base, build, attempts, spawned, offsets>>

CacheNext ==
    \/ \E a \in Bases, b \in Builds : Launch(a, b)
    \/ Quit
    \/ SpawnOrDespawn
    \/ LoadFromCache
    \/ ScanWithoutSave
    \/ ScanAndSave
    \/ SaveOffsetCache

CacheSpec == CacheInit /\ [][CacheNext]_cacheVars

-------------------------------------------------------------------------------
(***************************************************************************)
(* Safety.                                                                 *)
(***************************************************************************)
Ready == phase \in {"saving", "running"}

\* What a running client reads its player with is at this launch's base and of
\* this build, as far as the hash of 1 MiB tells builds apart, whatever
\* launches, updates and aborted saves came before.
PlayerIsReadRight ==
    Ready /\ playerLayoutResolved =>
        /\ player.base = base
        /\ Hash(player.build) = Hash(build)
        /\ Hash(layout.build) = Hash(build)

\* Only a complete layout is ever on disk, under the hash of the build it was
\* found in; so no later launch starts from half a layout.
CacheIsWhole ==
    file \in Entry =>
        /\ file.layout.depth = 3
        /\ file.player.build = file.layout.build
        /\ file.hash \in {NoHash, Hash(file.layout.build)}

(***************************************************************************)
(* What the comments say and the code does not do.                         *)
(***************************************************************************)

\* "an absolute address from the previous run; it is only valid if the module
\* loaded at the same base" (scanner.cpp:336-337): what is hooked and written
\* to is at its address in this launch.
FunctionsAreLive == Ready /\ fns # Null => fns = Here

\* "Resolve every offset in g_offsets. Tries the on-disk cache first"
\* (scanner.h:32): a launch has the hook targets that its build has.
HooksAreFound == Ready /\ build \in Hookable => hookFns = Here

===============================================================================
