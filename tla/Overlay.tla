------------------------------- MODULE Overlay --------------------------------
(***************************************************************************)
(* One process of the game with the client DLL in it, from load to unload: *)
(* the init thread (dllmain.cpp), the hooks it installs one after the      *)
(* other while the game already runs, the menu (ui/modal.cpp) that the     *)
(* Present hook draws and that other threads open and close, the beacon    *)
(* item (inventory/inventory_hook.cpp), and the worker of the connection,  *)
(* which installs the combat hooks as well.  Of the session the menu sees  *)
(* the status only, as SessionStatus promises it.                          *)
(***************************************************************************)
EXTENDS Naturals, FiniteSets, SessionStatus

CONSTANTS
    Hookables,  \* the sets of targets that may be found and can be patched
    Items,      \* what the game has in the inventory or picks up
    MaxMoves    \* bound: pick-ups and drops of the game

Targets == {"inventory", "present", "useItem", "attack", "skill", "cutscene", "puzzle"}
Stages  == {"minhook", "session", "render", "use", "append", "item", "count",
            "fallback", "combat", "cutscene", "puzzle", "ready",
            "failed", "unloading", "unloaded"}
Panels  == {"MAIN_MENU", "HOST_SETUP", "JOIN_SETUP", "IN_SESSION"}
Threads == {"init", "worker"}

Beacon == "beacon"
Free   == "free"
Slots  == 0 .. Cardinality(Items) + MaxMoves

ASSUME OverlayAssumption ==
    /\ Hookables \subseteq SUBSET Targets
    /\ IsFiniteSet(Items) /\ Items \intersect {Beacon, Free} = {}
    /\ MaxMoves \in Nat

VARIABLES
    stage,     \* the call InitThread, later Shutdown, makes next
    hookable,  \* which of Targets: what ResolveOffsets and MinHook can do
    client,    \* client_ of Session exists
    hooks,     \* the targets whose hook is enabled
    made,      \* MH_CreateHook was done for the attack function
    hooksInstalled, \* of CombatSync
    inst,      \* per thread: where it is in InstallHooks, or "idle"
    entering,  \* the worker handles a JOIN_ACK
    host,      \* isHost_ of Session
    imgui,     \* g_imguiInit
    wndproc,   \* the window's procedure is HookedWndProc
    hotkey,    \* F9 is registered: the hotkey thread gets it, not the window
    state,     \* state_ of Modal
    opening,   \* what Modal::Open is about to write, or Free
    frame,     \* the panel being drawn, "connect" or "connectJoin" while the
               \* frame waits in Connect, "tail" or "enter" at the end of
               \* RenderJoinSetup, or "none"
    slots,     \* the game's array of items
    count,     \* the game's count of them
    read,      \* count as AppendBeaconItem read it
    owned,     \* history: the items the game gave and did not take
    raced,     \* history: the game moved an item during the append
    moves      \* counts pick-ups and drops

initVars == <<stage, client, hotkey>>
hookVars == <<hookable, hooks, made, hooksInstalled, inst>>
sessVars == <<status, worker, host, entering>>
uiVars   == <<imgui, wndproc, state, opening, frame>>
invVars  == <<slots, count, read, owned, raced, moves>>
vars     == <<initVars, hookVars, sessVars, uiVars, invVars>>

\* Every variable has its type; F9 is the hotkey thread's in the fallback only.
OverlayTypeOK ==
    /\ stage \in Stages
    /\ hookable \in Hookables
    /\ hooks \subseteq hookable
    /\ {client, made, hooksInstalled, entering, host, imgui, wndproc, hotkey,
        raced} \subseteq BOOLEAN
    /\ inst \in [Threads -> {"idle", "check", "create", "enable", "skill"}]
    /\ state \in Panels \union {"CLOSED"}
    /\ opening \in {Free, "MAIN_MENU", "IN_SESSION"}
    /\ frame \in Panels \union {"none", "connect", "connectJoin", "tail", "enter"}
    /\ status \in {"disconnected", "connecting", "connected", "insession", "failed"}
    /\ worker \in {"none", "earlier", "last"}
    /\ slots \in [Slots -> Items \union {Beacon, Free}]
    /\ count \in 0 .. Cardinality(Slots) /\ read \in Slots
    /\ owned \subseteq Items
    /\ moves \in 0 .. MaxMoves
    /\ hotkey => ~({"inventory", "useItem"} \subseteq hookable)

Init ==
    /\ stage = "minhook"
    /\ hookable \in Hookables
    /\ hooks = {}
    /\ inst = [th \in Threads |-> "idle"]
    /\ client = FALSE /\ made = FALSE /\ hooksInstalled = FALSE
    /\ entering = FALSE /\ host = FALSE /\ imgui = FALSE
    /\ wndproc = FALSE /\ hotkey = FALSE /\ raced = FALSE
    /\ state = "CLOSED" /\ opening = Free /\ frame = "none"
    /\ StatusInit
    /\ owned \in {{}} \union {{i} : i \in Items}
    /\ count = Cardinality(owned) /\ read = 0 /\ moves = 0
    /\ slots = [k \in Slots |-> IF k < count THEN CHOOSE i \in owned : TRUE ELSE Free]

Loaded     == stage \notin {"failed", "unloaded"}
IsHooked(t) == t \in hooks
WithHook(t) == IF t \in hookable THEN hooks \union {t} ELSE hooks

(***************************************************************************)
(* InitThread, a call at a time, while the game runs.                      *)
(***************************************************************************)
MHInitialize ==
    /\ stage = "minhook"
    /\ stage' \in {"session", "failed"}
    /\ UNCHANGED <<client, hotkey, hookVars, sessVars, uiVars, invVars>>

\* Session::Init
SessionInit ==
    /\ stage = "session"
    /\ stage' = "render"
    /\ client' = TRUE
    /\ UNCHANGED <<hotkey, hookVars, sessVars, uiVars, invVars>>

InstallRenderHook ==
    /\ stage = "render"
    /\ stage' = "use"
    /\ hooks' = WithHook("present")
    /\ UNCHANGED <<client, hotkey, hookable, made, hooksInstalled, inst,
                   sessVars, uiVars, invVars>>

\* InventoryHook::Init until it calls AppendBeaconItem.
InstallUseHook ==
    /\ stage = "use"
    /\ IF "inventory" \in hookable
       THEN hooks' = WithHook("useItem") /\ stage' = "append"
       ELSE UNCHANGED hooks /\ stage' = "fallback"
    /\ UNCHANGED <<client, hotkey, hookable, made, hooksInstalled, inst,
                   sessVars, uiVars, invVars>>

\* AppendBeaconItem reads the count, or finds no array, a count it does not
\* believe or a slot it cannot write, and is not called again.
ReadCount ==
    /\ stage = "append"
    /\ \/ stage' = "item" /\ count \in Slots /\ read' = count
       \/ stage' = "fallback" /\ UNCHANGED read
    /\ UNCHANGED <<client, hotkey, hookVars, sessVars, uiVars,
                   slots, count, owned, raced, moves>>

\* Mutant: the slot of the last item.
LastSlot == IF read = 0 THEN 0 ELSE read - 1

AppendSlot == read

WriteItem ==
    /\ stage = "item"
    /\ stage' = "count"
    /\ slots' = [slots EXCEPT ![AppendSlot] = Beacon]
    /\ UNCHANGED <<client, hotkey, hookVars, sessVars, uiVars,
                   count, read, owned, raced, moves>>

WriteCount ==
    /\ stage = "count"
    /\ stage' = "fallback"
    /\ count' = read + 1
    /\ read' = 0
    /\ UNCHANGED <<client, hotkey, hookVars, sessVars, uiVars,
                   slots, owned, raced, moves>>

NeedsFallback == ~({"inventory", "useItem"} \subseteq hookable)

\* RegisterFallbackHotkey and its thread, whose window or key may be refused.
RegisterFallback ==
    /\ stage = "fallback"
    /\ stage' = "combat"
    /\ hotkey' \in IF NeedsFallback THEN BOOLEAN ELSE {FALSE}
    /\ inst' = [inst EXCEPT !["init"] = "check"]
    /\ UNCHANGED <<client, hookable, hooks, made, hooksInstalled,
                   sessVars, uiVars, invVars>>

\* CutsceneSync::Init once InstallHooks is back.  The poll that may stand in
\* for the hook runs in the frames of a menu that F9 closes as well.
CutsceneInit ==
    /\ stage = "combat" /\ inst["init"] = "idle"
    /\ stage' = "cutscene"
    /\ hooks' = WithHook("cutscene")
    /\ UNCHANGED <<client, hotkey, hookable, made, hooksInstalled, inst,
                   sessVars, uiVars, invVars>>

PuzzleInit ==
    /\ stage = "cutscene"
    /\ stage' = "ready"
    /\ hooks' = WithHook("puzzle")
    /\ UNCHANGED <<client, hotkey, hookable, made, hooksInstalled, inst,
                   sessVars, uiVars, invVars>>

InitThread ==
    \/ MHInitialize \/ SessionInit \/ InstallRenderHook \/ InstallUseHook
    \/ ReadCount \/ WriteItem \/ WriteCount \/ RegisterFallback
    \/ CutsceneInit \/ PuzzleInit

(***************************************************************************)
(* CombatSync::InstallHooks, on the init thread and on the worker, without *)
(* a lock.  MinHook creates one hook for a target and refuses the second.  *)
(***************************************************************************)
Goto(th, pc) == inst' = [inst EXCEPT ![th] = pc]

CheckInstalled(th) ==
    /\ inst[th] = "check"
    /\ Goto(th, IF hooksInstalled \/ "attack" \notin hookable THEN "idle" ELSE "create")
    /\ UNCHANGED <<hookable, hooks, made, hooksInstalled>>

\* Mutant: the thread that is refused removes the hook.
CleansUp == hooks' = hooks \ {"attack"}

Refuses == UNCHANGED hooks

CreateAttack(th) ==
    /\ inst[th] = "create"
    /\ IF made THEN Refuses /\ Goto(th, "idle") ELSE UNCHANGED hooks /\ Goto(th, "enable")
    /\ made' = TRUE
    /\ UNCHANGED <<hookable, hooksInstalled>>

EnableAttack(th) ==
    /\ inst[th] = "enable"
    /\ Goto(th, "skill")
    /\ hooks' = hooks \union {"attack"}
    /\ hooksInstalled' = TRUE
    /\ UNCHANGED <<hookable, made>>

InstallSkill(th) ==
    /\ inst[th] = "skill"
    /\ Goto(th, "idle")
    /\ hooks' = WithHook("skill")
    /\ UNCHANGED <<hookable, made, hooksInstalled>>

InstallHooks(th) ==
    /\ Loaded
    /\ CheckInstalled(th) \/ CreateAttack(th) \/ EnableAttack(th) \/ InstallSkill(th)
    /\ UNCHANGED <<initVars, sessVars, uiVars, invVars>>

(***************************************************************************)
(* The session: Session::OnPacket on the worker, as far as the menu and    *)
(* the combat hooks are concerned.  The worker waits for InstallHooks; the *)
(* status of a JOIN_ACK comes after it.                                    *)
(***************************************************************************)
WorkerFree == Loaded /\ worker # "none" /\ inst["worker"] = "idle" /\ ~entering

Reports == (Greeted \/ Refused) /\ UNCHANGED <<host, entering, inst>>

\* Mutant: whoever becomes host is only told so.
IsToldHost(h) == host' = h /\ UNCHANGED inst

BecomesHost(h) ==
    /\ host' = h
    /\ IF h THEN Goto("worker", "check") ELSE UNCHANGED inst

JoinAck ==
    /\ MayEnter
    /\ entering' = TRUE
    /\ \E h \in BOOLEAN : BecomesHost(h)
    /\ UNCHANGED statusVars

HostReassign ==
    /\ \E h \in BOOLEAN : BecomesHost(h)
    /\ UNCHANGED <<statusVars, entering>>

\* The rest of the JOIN_ACK once InstallHooks is back.
JoinAckEnds ==
    /\ entering /\ inst["worker"] = "idle"
    /\ Enters
    /\ entering' = FALSE
    /\ UNCHANGED <<host, inst>>

Worker ==
    /\ \/ WorkerFree /\ (Reports \/ JoinAck \/ HostReassign)
       \/ Loaded /\ JoinAckEnds
    /\ UNCHANGED <<initVars, hookable, hooks, made, hooksInstalled, uiVars, invVars>>

(***************************************************************************)
(* The menu.  Clicks happen within a frame, on the thread that presents;   *)
(* F9, the beacon and cutscenes change state_ on their own threads.        *)
(***************************************************************************)
MenuUnchanged == UNCHANGED <<initVars, hookVars, wndproc, imgui, invVars>>

\* GetDevice may fail; the next frame tries again.
InitImGui ==
    /\ Loaded /\ IsHooked("present") /\ ~imgui
    /\ imgui' = TRUE /\ wndproc' = TRUE
    /\ UNCHANGED <<initVars, hookVars, sessVars, state, opening, frame, invVars>>

\* Modal::Render
RenderBegins ==
    /\ Loaded /\ IsHooked("present") /\ imgui
    /\ frame = "none" /\ state # "CLOSED"
    /\ frame' = state
    /\ UNCHANGED <<sessVars, state, opening>> /\ MenuUnchanged

RenderEnds == IF frame = "JOIN_SETUP" THEN frame' = "tail" ELSE frame' = "none"
NoSession  == UNCHANGED sessVars
Opens(p)   == state' = p

LeaveSession == Leaves /\ host' = FALSE /\ UNCHANGED entering

\* HostSession and JoinSession until Connect waits for the old worker.
Connect == Asks /\ UNCHANGED <<state, host, entering>>
Waits   == frame' = IF frame = "JOIN_SETUP" THEN "connectJoin" ELSE "connect"

RenderMainMenu ==
    /\ frame = "MAIN_MENU"
    /\ \/ Opens("HOST_SETUP") /\ NoSession
       \/ Opens("JOIN_SETUP") /\ NoSession
       \/ status = "insession" /\ LeaveSession /\ UNCHANGED state

RenderHostSetup ==
    /\ frame = "HOST_SETUP"
    /\ \/ Opens("MAIN_MENU") /\ NoSession
       \/ status = "insession" /\ host /\ Opens("IN_SESSION") /\ NoSession

RenderJoinSetup == frame = "JOIN_SETUP" /\ Opens("MAIN_MENU") /\ NoSession

RenderInSession == frame = "IN_SESSION" /\ LeaveSession /\ Opens("MAIN_MENU")

Click ==
    /\ Loaded
    /\ \/ /\ RenderMainMenu \/ RenderHostSetup \/ RenderJoinSetup \/ RenderInSession
          /\ RenderEnds
       \/ frame \in {"HOST_SETUP", "JOIN_SETUP"} /\ Connect /\ Waits
    /\ UNCHANGED opening /\ MenuUnchanged

\* Connect ends when the old worker has.
ConnectEnds ==
    /\ Loaded
    /\ frame \in {"connect", "connectJoin"}
    /\ inst["worker"] = "idle" /\ ~entering
    /\ frame' = IF frame = "connectJoin" THEN "tail" ELSE "none"
    /\ Starts
    /\ UNCHANGED <<host, entering, state, opening>> /\ MenuUnchanged

NoClick ==
    /\ Loaded /\ frame \in Panels
    /\ RenderEnds
    /\ NoSession /\ UNCHANGED <<state, opening>> /\ MenuUnchanged

\* The end of RenderJoinSetup reads the status and then writes state_.
JoinTail ==
    /\ Loaded
    /\ \/ frame = "tail" /\ frame' = (IF status = "insession" THEN "enter" ELSE "none")
          /\ UNCHANGED state
       \/ frame = "enter" /\ frame' = "none" /\ Opens("IN_SESSION")
    /\ NoSession /\ UNCHANGED opening /\ MenuUnchanged

\* Modal::Open from HookedUseItem, or by Toggle: it reads the status, and
\* then writes.  Two that open at a time write much the same.
OpenBegins ==
    /\ Loaded
    /\ \/ wndproc \/ hotkey
       \/ IsHooked("useItem") /\ \E k \in 0 .. count - 1 : slots[k] = Beacon
    /\ state = "CLOSED" /\ opening = Free
    /\ opening' = IF status = "insession" THEN "IN_SESSION" ELSE "MAIN_MENU"
    /\ NoSession /\ UNCHANGED <<state, frame>> /\ MenuUnchanged

OpenEnds ==
    /\ Loaded /\ opening # Free
    /\ Opens(opening) /\ opening' = Free
    /\ NoSession /\ UNCHANGED frame /\ MenuUnchanged

\* Modal::Close by F9, or by a cutscene that begins.
Close ==
    /\ Loaded /\ state # "CLOSED"
    /\ wndproc \/ hotkey \/ IsHooked("cutscene")
    /\ Opens("CLOSED")
    /\ NoSession /\ UNCHANGED <<opening, frame>> /\ MenuUnchanged

Menu == RenderBegins \/ Click \/ ConnectEnds \/ NoClick \/ JoinTail \/ OpenBegins \/ OpenEnds \/ Close

(***************************************************************************)
(* The game moves its items whenever it likes.                             *)
(***************************************************************************)
GameMoves ==
    /\ Loaded /\ moves < MaxMoves
    /\ moves' = moves + 1
    /\ raced' = (raced \/ stage \in {"item", "count"})
    /\ \/ \E i \in Items \ owned :
            /\ count \in Slots
            /\ slots' = [slots EXCEPT ![count] = i]
            /\ count' = count + 1 /\ owned' = owned \union {i}
       \/ /\ count > 0 /\ slots[count - 1] \in owned
          /\ count' = count - 1 /\ owned' = owned \ {slots[count - 1]}
          /\ UNCHANGED slots
    /\ UNCHANGED <<read, initVars, hookVars, sessVars, uiVars>>

(***************************************************************************)
(* Shutdown of a DLL that is unloaded while the game runs on.              *)
(***************************************************************************)
\* InventoryHook, CutsceneSync and PuzzleSync, each in its Shutdown.
UnhooksGame ==
    /\ hooks' = hooks \ {"puzzle", "cutscene", "useItem"}
    /\ hotkey' = FALSE

RemoveRenderHook ==
    /\ imgui' = FALSE
    /\ UNCHANGED <<wndproc, state, opening, frame>>

\* Shutdown until it calls Session::Shutdown.
ShutdownBegins ==
    /\ stage = "ready" /\ stage' = "unloading"
    /\ UnhooksGame
    /\ RemoveRenderHook
    /\ UNCHANGED <<client, hookable, made, hooksInstalled, inst, sessVars, invVars>>

\* With CombatSync::RemoveHooks; MH_Uninitialize removes the others as well.
SessionShutdown ==
    /\ Leaves /\ UNCHANGED <<host, entering>>
    /\ hooksInstalled' = FALSE

ShutdownEnds ==
    /\ stage = "unloading" /\ stage' = "unloaded"
    /\ SessionShutdown
    /\ hooks' = {}
    /\ UNCHANGED <<client, hotkey, hookable, made, inst, uiVars, invVars>>

Shutdown == ShutdownBegins \/ ShutdownEnds

Next ==
    \/ InitThread \/ (\E th \in Threads : InstallHooks(th)) \/ Worker
    \/ InitImGui \/ Menu \/ GameMoves \/ Shutdown

Spec == Init /\ [][Next]_vars

(***************************************************************************)
(* Properties.                                                             *)
(***************************************************************************)
Unloading == stage \in {"unloading", "unloaded"}

\* The append takes nothing from the player and gives nothing but the beacon,
\* as long as the game moves no item between the read of the count and its
\* write (inventory_hook.cpp:130).
ItemsKept ==
    ~raced =>
        LET shown == {k \in 0 .. count - 1 : slots[k] # Beacon} IN
        /\ {slots[k] : k \in shown} = owned
        /\ Cardinality(shown) = Cardinality(owned)
        /\ count <= Cardinality(owned) + 1

\* Once the init thread has gone by, the combat hooks are there wherever the
\* game has the functions: two threads that install them at a time may refuse
\* each other, but not both (combat_sync.cpp:61).
CombatHooksWork ==
    stage \in {"cutscene", "ready"} /\ (\A th \in Threads : inst[th] = "idle") =>
        /\ "attack" \in hookable => "attack" \in hooks
        /\ {"attack", "skill"} \subseteq hookable => "skill" \in hooks

\* A client that is host, by its JOIN_ACK or by a later HOST_REASSIGN, has the
\* attack hook, or the init thread is about to enable it (session.cpp:138).
HostIsArmed ==
    host /\ inst["worker"] = "idle" /\ "attack" \in hookable /\ ~Unloading =>
        "attack" \in hooks \/ inst["init"] = "enable"

\* What the append promises, that it never overwrites an existing slot
\* (inventory_hook.cpp:136): the game may fill the slot after the read.
NeverOverwrites ==
    stage \notin {"item", "count"} => owned \subseteq {slots[k] : k \in 0 .. count - 1}

\* An unload leaves nothing of the overlay with the game: the procedure of the
\* window stays, and a frame between RemoveRenderHook and MH_Uninitialize sets
\* ImGui up again (render_hook.cpp:187).
UnloadLeavesNothing == stage = "unloaded" => ~imgui /\ ~wndproc
===============================================================================
