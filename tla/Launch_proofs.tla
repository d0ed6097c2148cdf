---------------------------- MODULE Launch_proofs -----------------------------
(***************************************************************************)
(* Proofs about what InitThread starts: Overlay, for every set of          *)
(* functions a build of the game may have, every set of items and every    *)
(* bound, and OffsetCache, for every set of builds and bases, whichever    *)
(* builds share a hash, and any number of attempts, launches and updates.  *)
(*                                                                         *)
(* Three arguments that have nothing to do with each other: about the two  *)
(* threads in InstallHooks, which goes through MinHook's refusal of a      *)
(* second hook (made); about the array of items, which goes through the    *)
(* slot the append has read and not yet counted; and about the cache file, *)
(* which follows one launch: until it is ready it only holds what it found *)
(* itself, and what it then saves is of one build, so what a hit brings is *)
(* of a build with the hash of the running one.                            *)
(***************************************************************************)
EXTENDS Overlay, OffsetCache, FiniteSetTheorems, TLAPS

-------------------------------------------------------------------------------
(***************************************************************************)
(* The inductive invariant.                                                *)
(***************************************************************************)
Before == {"minhook", "session", "render", "use", "append", "item", "count", "fallback"}
Past   == {"combat", "cutscene", "ready"}

\* Whoever is on its way to enable the attack hook may do so, the hook that is
\* made is enabled or about to be, and only the thread that enabled it goes on
\* to the skill hook.
Installers ==
    /\ \A th \in Threads :
          /\ inst[th] \in {"create", "enable", "skill"} => "attack" \in hookable
          /\ inst[th] \in {"enable", "skill"} => made
    /\ hooksInstalled => made /\ (~Unloading => "attack" \in hooks)
    /\ made /\ ~Unloading =>
          "attack" \in hooks \/ \E th \in Threads : inst[th] = "enable"
    /\ {"attack", "skill"} \subseteq hookable /\ "attack" \in hooks =>
          "skill" \in hooks \/ \E th \in Threads : inst[th] = "skill"

\* The init thread comes by once, and a host has come by.
ComeBy ==
    /\ stage \in Before => inst["init"] = "idle"
    /\ stage \in Past /\ inst["init"] = "idle" /\ "attack" \in hookable => made
    /\ host /\ inst["worker"] = "idle" /\ "attack" \in hookable => made

Below == 0 .. count - 1

\* The items below the count are what the player owns, one slot for each, with
\* the beacon among them once it was appended and in the next slot before that.
Inventory ==
    /\ \A k \in Below : slots[k] \in owned \union {Beacon}
    /\ \A i \in owned : \E k \in Below : slots[k] = i
    /\ \A j, k \in Below : slots[j] = slots[k] => j = k

NextSlot ==
    /\ stage \in Before \ {"fallback"} => \A k \in Below : slots[k] # Beacon
    /\ stage \in {"item", "count"} => read = count
    /\ stage = "count" => slots[read] = Beacon

IInv ==
    /\ OverlayTypeOK
    /\ Installers
    /\ ComeBy
    /\ ~raced => Inventory /\ NextSlot
-------------------------------------------------------------------------------
(***************************************************************************)
(* The type invariant, variable group by variable group.                   *)
(***************************************************************************)
HooksOK ==
    /\ hookable \in Hookables
    /\ hooks \subseteq hookable
    /\ made \in BOOLEAN /\ hooksInstalled \in BOOLEAN
    /\ inst \in [Threads -> {"idle", "check", "create", "enable", "skill"}]

SessionOK ==
    /\ entering \in BOOLEAN /\ host \in BOOLEAN
    /\ status \in {"disconnected", "connecting", "connected", "insession", "failed"}
    /\ worker \in {"none", "earlier", "last"}

MenuOK ==
    /\ imgui \in BOOLEAN /\ wndproc \in BOOLEAN
    /\ state \in Panels \union {"CLOSED"}
    /\ opening \in {Free, "MAIN_MENU", "IN_SESSION"}
    /\ frame \in Panels \union {"none", "connect", "connectJoin", "tail", "enter"}

ItemsOK ==
    /\ raced \in BOOLEAN
    /\ slots \in [Slots -> Items \union {Beacon, Free}]
    /\ count \in 0 .. Cardinality(Slots) /\ read \in Slots
    /\ owned \subseteq Items
    /\ moves \in 0 .. MaxMoves

StageOK ==
    /\ stage \in Stages
    /\ client \in BOOLEAN /\ hotkey \in BOOLEAN
    /\ hotkey => NeedsFallback

\* The groups are the type invariant, before a step and after it.
LEMMA TypeGroups ==
    /\ OverlayTypeOK <=> StageOK /\ HooksOK /\ SessionOK /\ MenuOK /\ ItemsOK
    /\ OverlayTypeOK' <=> StageOK' /\ HooksOK' /\ SessionOK' /\ MenuOK' /\ ItemsOK'
BY DEF OverlayTypeOK, StageOK, HooksOK, SessionOK, MenuOK, ItemsOK, NeedsFallback

\* The slots are an interval of the numbers, with room for one more item than
\* the player owns and may pick up.
LEMMA SlotFacts ==
    /\ Cardinality(Items) \in Nat /\ MaxMoves \in Nat
    /\ Slots = 0 .. Cardinality(Items) + MaxMoves
    /\ Cardinality(Slots) = Cardinality(Items) + MaxMoves + 1
    /\ 0 \in Slots
<1>1. Cardinality(Items) \in Nat /\ MaxMoves \in Nat
  BY OverlayAssumption, FS_CardinalityType
<1>2. Cardinality(0 .. Cardinality(Items) + MaxMoves) = Cardinality(Items) + MaxMoves + 1
  <2>1. 0 \in Int /\ Cardinality(Items) + MaxMoves \in Int
    BY <1>1
  <2> QED BY <1>1, <2>1, FS_Interval
<1> QED BY <1>1, <1>2 DEF Slots

\* What every step of the program leaves alone.
LEMMA HooksAlone == ASSUME HooksOK, UNCHANGED hookVars PROVE HooksOK'
BY DEF HooksOK, hookVars

\* A step that leaves the session alone keeps its type.
LEMMA SessionAlone == ASSUME SessionOK, UNCHANGED sessVars PROVE SessionOK'
BY DEF SessionOK, sessVars

\* A step that leaves the menu alone keeps its type.
LEMMA MenuAlone == ASSUME MenuOK, UNCHANGED uiVars PROVE MenuOK'
BY DEF MenuOK, uiVars

\* A step that leaves the items alone keeps their type.
LEMMA ItemsAlone == ASSUME ItemsOK, UNCHANGED invVars PROVE ItemsOK'
BY DEF ItemsOK, invVars

\* A step that leaves the init thread alone keeps its type.
LEMMA StageAlone == ASSUME StageOK, UNCHANGED initVars, UNCHANGED hookable PROVE StageOK'
BY DEF StageOK, initVars, NeedsFallback

\* The initial states have their types.
LEMMA InitType == Init => OverlayTypeOK
<1> SUFFICES ASSUME Init PROVE OverlayTypeOK
  OBVIOUS
<1>1. StageOK /\ HooksOK /\ SessionOK /\ MenuOK
  BY DEF Init, StatusInit, StageOK, HooksOK, SessionOK, MenuOK, Stages
<1>2. owned \subseteq Items /\ count \in {0, 1}
  <2>1. CASE owned = {}
    <3>1. count = Cardinality({})
      BY <2>1 DEF Init
    <3> QED BY <2>1, <3>1, FS_EmptySet
  <2>2. CASE \E i \in Items : owned = {i}
    <3>1. PICK i \in Items : owned = {i}
      BY <2>2
    <3>2. count = Cardinality({i})
      BY <3>1 DEF Init
    <3> QED BY <3>1, <3>2, FS_Singleton
  <2> QED BY <2>1, <2>2 DEF Init
<1>3. count = 1 => (CHOOSE i \in owned : TRUE) \in Items
  <2>1. ASSUME count = 1 PROVE owned # {}
    <3>1. ASSUME owned = {} PROVE count = 0
      <4>1. count = Cardinality({})
        BY <3>1 DEF Init
      <4> QED BY <4>1, FS_EmptySet
    <3> QED BY <2>1, <3>1
  <2> QED BY <1>2, <2>1
<1>4. slots \in [Slots -> Items \union {Beacon, Free}]
  <2>1. slots = [k \in Slots |-> IF k < count THEN CHOOSE i \in owned : TRUE ELSE Free]
    BY DEF Init
  <2>2. ASSUME NEW k \in Slots, k < count PROVE (CHOOSE i \in owned : TRUE) \in Items
    BY <1>2, <1>3, <2>2, SlotFacts
  <2> QED BY <2>1, <2>2
<1>5. ItemsOK
  <2>1. count \in 0 .. Cardinality(Slots)
    BY <1>2, SlotFacts
  <2>2. read \in Slots /\ moves \in 0 .. MaxMoves
    BY SlotFacts DEF Init
  <2>3. raced \in BOOLEAN
    BY DEF Init
  <2> QED BY <1>2, <1>4, <2>1, <2>2, <2>3 DEF ItemsOK
<1> QED BY <1>1, <1>5, TypeGroups

\* Every step of the init thread keeps the types.
LEMMA InitThreadType == ASSUME OverlayTypeOK, InitThread PROVE OverlayTypeOK'
<1>0. StageOK /\ HooksOK /\ SessionOK /\ MenuOK /\ ItemsOK
  BY TypeGroups
<1>1. SessionOK' /\ MenuOK'
  <2>1. UNCHANGED sessVars /\ UNCHANGED uiVars
    BY DEF InitThread, MHInitialize, SessionInit, InstallRenderHook, InstallUseHook,
           ReadCount, WriteItem, WriteCount, RegisterFallback, CutsceneInit, PuzzleInit
  <2> QED BY <1>0, <2>1, SessionAlone, MenuAlone
<1>2. UNCHANGED hookable
  BY DEF InitThread, MHInitialize, SessionInit, InstallRenderHook, InstallUseHook,
         ReadCount, WriteItem, WriteCount, RegisterFallback, CutsceneInit, PuzzleInit, hookVars
<1>3. StageOK'
  <2>1. stage' \in Stages /\ client' \in BOOLEAN
    BY <1>0 DEF StageOK, Stages, InitThread, MHInitialize, SessionInit, InstallRenderHook,
           InstallUseHook, ReadCount, WriteItem, WriteCount, RegisterFallback, CutsceneInit,
           PuzzleInit
  <2>2. hotkey' \in BOOLEAN /\ (hotkey' => NeedsFallback)
    <3>1. CASE RegisterFallback
      BY <3>1 DEF RegisterFallback
    <3>2. CASE UNCHANGED hotkey
      BY <1>0, <3>2 DEF StageOK
    <3> QED BY <3>1, <3>2 DEF InitThread, MHInitialize, SessionInit, InstallRenderHook,
               InstallUseHook, ReadCount, WriteItem, WriteCount, CutsceneInit, PuzzleInit
  <2> QED BY <1>2, <2>1, <2>2 DEF StageOK, NeedsFallback
<1>4. HooksOK'
  <2>1. CASE UNCHANGED hookVars
    BY <1>0, <2>1, HooksAlone
  <2>2. CASE InstallRenderHook \/ InstallUseHook \/ CutsceneInit \/ PuzzleInit
    BY <1>0, <2>2 DEF HooksOK, InstallRenderHook, InstallUseHook, CutsceneInit, PuzzleInit, WithHook
  <2>3. CASE RegisterFallback
    BY <1>0, <2>3 DEF HooksOK, RegisterFallback, Threads
  <2> QED BY <2>1, <2>2, <2>3 DEF InitThread, MHInitialize, SessionInit, ReadCount,
             WriteItem, WriteCount
<1>5. ItemsOK'
  <2>1. CASE UNCHANGED invVars
    BY <1>0, <2>1, ItemsAlone
  <2>2. CASE ReadCount
    BY <1>0, <2>2 DEF ItemsOK, ReadCount
  <2>3. CASE WriteItem
    BY <1>0, <2>3 DEF ItemsOK, WriteItem, AppendSlot
  <2>4. CASE WriteCount
    <3>1. /\ count' = read + 1 /\ read' = 0
          /\ UNCHANGED <<slots, owned, raced, moves>>
      BY <2>4 DEF WriteCount
    <3>2. count' \in 0 .. Cardinality(Slots) /\ read' \in Slots
      BY <1>0, <3>1, SlotFacts DEF ItemsOK
    <3> QED BY <1>0, <3>1, <3>2 DEF ItemsOK
  <2> QED BY <2>1, <2>2, <2>3, <2>4 DEF InitThread, MHInitialize, SessionInit,
             InstallRenderHook, InstallUseHook, RegisterFallback, CutsceneInit, PuzzleInit
<1> QED BY <1>1, <1>3, <1>4, <1>5, TypeGroups

\* So does every step of the installers, which enable no hook that cannot be,
\* the worker and the game.
LEMMA OthersType ==
    ASSUME OverlayTypeOK, Installers,
           \/ \E th \in Threads : InstallHooks(th)
           \/ Worker \/ InitImGui \/ GameMoves
    PROVE  OverlayTypeOK'
<1>0. StageOK /\ HooksOK /\ SessionOK /\ MenuOK /\ ItemsOK
  BY TypeGroups
<1>1. ASSUME NEW th \in Threads, InstallHooks(th) PROVE OverlayTypeOK'
  <2>1. UNCHANGED hookable /\ UNCHANGED <<initVars, sessVars, uiVars, invVars>>
    BY <1>1 DEF InstallHooks, CheckInstalled, CreateAttack, EnableAttack, InstallSkill
  <2>2. StageOK' /\ SessionOK' /\ MenuOK' /\ ItemsOK'
    BY <1>0, <2>1, StageAlone, SessionAlone, MenuAlone, ItemsAlone
  <2>3. inst' \in [Threads -> {"idle", "check", "create", "enable", "skill"}]
    BY <1>0, <1>1 DEF HooksOK, InstallHooks, CheckInstalled, CreateAttack, EnableAttack,
              InstallSkill, Goto
  <2>4. made' \in BOOLEAN /\ hooksInstalled' \in BOOLEAN
    BY <1>0, <1>1 DEF HooksOK, InstallHooks, CheckInstalled, CreateAttack, EnableAttack,
              InstallSkill
  <2>5. hooks' \subseteq hookable'
    BY <1>0, <1>1, <2>1 DEF HooksOK, Installers, InstallHooks, CheckInstalled, CreateAttack,
              EnableAttack, InstallSkill, WithHook, Refuses
  <2> QED BY <1>0, <2>1, <2>2, <2>3, <2>4, <2>5, TypeGroups DEF HooksOK
<1>2. CASE Worker
  <2>1. UNCHANGED <<initVars, hookable, hooks, made, hooksInstalled, uiVars, invVars>>
    BY <1>2 DEF Worker
  <2>2. StageOK' /\ MenuOK' /\ ItemsOK'
    BY <1>0, <2>1, StageAlone, MenuAlone, ItemsAlone
  <2>3. HooksOK'
    BY <1>0, <1>2, <2>1 DEF HooksOK, Worker, Reports, JoinAck, HostReassign, JoinAckEnds,
                   BecomesHost, Goto, Threads
  <2>4. SessionOK'
    BY <1>0, <1>2 DEF SessionOK, Worker, Reports, JoinAck, HostReassign, JoinAckEnds,
              BecomesHost, Greeted, Refused, Enters, statusVars
  <2> QED BY <2>2, <2>3, <2>4, TypeGroups
<1>3. CASE InitImGui
  <2>1. UNCHANGED <<initVars, hookVars, sessVars, invVars>>
    BY <1>3 DEF InitImGui
  <2>2. StageOK' /\ HooksOK' /\ SessionOK' /\ ItemsOK'
    BY <1>0, <2>1, StageAlone, HooksAlone, SessionAlone, ItemsAlone DEF hookVars
  <2>3. MenuOK'
    BY <1>0, <1>3 DEF MenuOK, InitImGui
  <2> QED BY <2>2, <2>3, TypeGroups
<1>4. CASE GameMoves
  <2>1. UNCHANGED <<read, initVars, hookVars, sessVars, uiVars>>
    BY <1>4 DEF GameMoves
  <2>2. StageOK' /\ HooksOK' /\ SessionOK' /\ MenuOK'
    BY <1>0, <2>1, StageAlone, HooksAlone, SessionAlone, MenuAlone DEF hookVars
  <2>3. moves' \in 0 .. MaxMoves /\ raced' \in BOOLEAN
    BY <1>0, <1>4, SlotFacts DEF ItemsOK, GameMoves
  <2>4. /\ slots' \in [Slots -> Items \union {Beacon, Free}]
        /\ owned' \subseteq Items
    BY <1>0, <1>4 DEF ItemsOK, GameMoves
  <2>5. count' \in 0 .. Cardinality(Slots)
    <3>1. \/ count \in Slots /\ count' = count + 1
          \/ count > 0 /\ count' = count - 1
      BY <1>4 DEF GameMoves
    <3> QED BY <1>0, <3>1, SlotFacts DEF ItemsOK
  <2> QED BY <1>0, <2>1, <2>2, <2>3, <2>4, <2>5, TypeGroups DEF ItemsOK
<1> QED BY <1>1, <1>2, <1>3, <1>4

\* So does every step of the menu, and an unload.
LEMMA MenuType == ASSUME OverlayTypeOK, Menu \/ Shutdown PROVE OverlayTypeOK'
<1>0. StageOK /\ HooksOK /\ SessionOK /\ MenuOK /\ ItemsOK
  BY TypeGroups
<1>1. CASE Menu
  <2>1. UNCHANGED <<initVars, hookVars, wndproc, imgui, invVars>>
    BY <1>1 DEF Menu, RenderBegins, Click, ConnectEnds, NoClick, JoinTail, OpenBegins,
               OpenEnds, Close, MenuUnchanged
  <2>2. StageOK' /\ HooksOK' /\ ItemsOK'
    BY <1>0, <2>1, StageAlone, HooksAlone, ItemsAlone DEF hookVars
  <2>3. SessionOK'
    BY <1>0, <1>1 DEF SessionOK, sessVars, Menu, RenderBegins, Click, ConnectEnds, NoClick,
              JoinTail, OpenBegins, OpenEnds, Close, RenderMainMenu, RenderHostSetup,
              RenderJoinSetup, RenderInSession, Connect, LeaveSession, NoSession,
              Asks, Starts, Leaves
  <2>4. state' \in Panels \union {"CLOSED"} /\ opening' \in {Free, "MAIN_MENU", "IN_SESSION"}
    BY <1>0, <1>1 DEF MenuOK, Panels, Free, Menu, RenderBegins, Click, ConnectEnds, NoClick,
              JoinTail, OpenBegins, OpenEnds, Close, RenderMainMenu, RenderHostSetup,
              RenderJoinSetup, RenderInSession, Connect, Opens
  <2>5. frame' \in Panels \union {"none", "connect", "connectJoin", "tail", "enter"}
    BY <1>0, <1>1 DEF MenuOK, Panels, Menu, RenderBegins, Click, ConnectEnds, NoClick,
              JoinTail, OpenBegins, OpenEnds, Close, RenderEnds, Waits
  <2> QED BY <1>0, <2>1, <2>2, <2>3, <2>4, <2>5, TypeGroups DEF MenuOK
<1>2. CASE ShutdownBegins
  <2>1. UNCHANGED sessVars /\ UNCHANGED invVars /\ UNCHANGED <<hookable, made, hooksInstalled, inst>>
    BY <1>2 DEF ShutdownBegins
  <2>2. SessionOK' /\ ItemsOK'
    BY <1>0, <2>1, SessionAlone, ItemsAlone
  <2>3. HooksOK' /\ MenuOK' /\ StageOK'
    BY <1>0, <1>2, <2>1 DEF ShutdownBegins, UnhooksGame, RemoveRenderHook, HooksOK, MenuOK,
                   StageOK, Stages
  <2> QED BY <2>2, <2>3, TypeGroups
<1>3. CASE ShutdownEnds
  <2>1. UNCHANGED <<client, hotkey, hookable, made, inst, uiVars, invVars>>
    BY <1>3 DEF ShutdownEnds
  <2>2. MenuOK' /\ ItemsOK'
    BY <1>0, <2>1, MenuAlone, ItemsAlone
  <2>3. HooksOK' /\ SessionOK' /\ StageOK'
    <3>1. /\ stage' = "unloaded" /\ hooks' = {} /\ hooksInstalled' = FALSE
          /\ UNCHANGED <<client, hotkey, hookable, made, inst>>
      BY <1>3 DEF ShutdownEnds, SessionShutdown
    <3>2. HooksOK' /\ StageOK'
      BY <1>0, <3>1 DEF HooksOK, StageOK, Stages, NeedsFallback
    <3>3. SessionOK'
      BY <1>0, <1>3 DEF ShutdownEnds, SessionShutdown, Leaves, SessionOK
    <3> QED BY <3>2, <3>3
  <2> QED BY <2>2, <2>3, TypeGroups
<1> QED BY <1>1, <1>2, <1>3 DEF Shutdown

\* A stuttering step keeps them as well.
LEMMA NextType == ASSUME OverlayTypeOK, Installers, [Next]_vars PROVE OverlayTypeOK'
<1>1. CASE UNCHANGED vars
  <2>1. /\ UNCHANGED initVars /\ UNCHANGED hookVars /\ UNCHANGED sessVars
        /\ UNCHANGED uiVars /\ UNCHANGED invVars
    BY <1>1 DEF vars
  <2> QED BY <2>1, TypeGroups, StageAlone, HooksAlone, SessionAlone, MenuAlone, ItemsAlone
            DEF hookVars
<1> QED BY <1>1, InitThreadType, OthersType, MenuType DEF Next
-------------------------------------------------------------------------------
(***************************************************************************)
(* The combat hooks.                                                       *)
(***************************************************************************)

\* A step that touches neither the hooks nor the stage, and makes no host.
LEMMA ArmsAlone ==
    ASSUME Installers, ComeBy, UNCHANGED hookVars, UNCHANGED stage,
           host' = host \/ host' = FALSE
    PROVE  Installers' /\ ComeBy'
BY DEF Installers, ComeBy, Unloading, hookVars

\* The init thread comes by InstallHooks in RegisterFallback and waits there.
LEMMA InitThreadArms ==
    ASSUME OverlayTypeOK, Installers, ComeBy, InitThread
    PROVE  Installers' /\ ComeBy'
<1>0. /\ UNCHANGED <<hookable, made, hooksInstalled, host>>
      /\ ~Unloading /\ ~Unloading'
      /\ inst \in [Threads -> {"idle", "check", "create", "enable", "skill"}]
  <2>1. UNCHANGED <<hookable, made, hooksInstalled>>
    BY DEF InitThread, MHInitialize, SessionInit, InstallRenderHook, InstallUseHook,
           ReadCount, WriteItem, WriteCount, RegisterFallback, CutsceneInit, PuzzleInit, hookVars
  <2>2. UNCHANGED host
    BY DEF InitThread, MHInitialize, SessionInit, InstallRenderHook, InstallUseHook,
           ReadCount, WriteItem, WriteCount, RegisterFallback, CutsceneInit, PuzzleInit, sessVars
  <2>3. ~Unloading /\ ~Unloading'
    BY DEF InitThread, MHInitialize, SessionInit, InstallRenderHook, InstallUseHook, ReadCount,
           WriteItem, WriteCount, RegisterFallback, CutsceneInit, PuzzleInit, Unloading
  <2> QED BY <2>1, <2>2, <2>3 DEF OverlayTypeOK
<1>1. /\ "attack" \in hooks' <=> "attack" \in hooks
      /\ "skill" \in hooks' <=> "skill" \in hooks
  <2>1. CASE UNCHANGED hooks
    BY <2>1
  <2>2. CASE \E t \in {"present", "useItem", "cutscene", "puzzle"} : hooks' = WithHook(t)
    BY <2>2 DEF WithHook
  <2> QED BY <2>1, <2>2 DEF InitThread, MHInitialize, SessionInit, InstallRenderHook,
             InstallUseHook, ReadCount, WriteItem, WriteCount, RegisterFallback,
             CutsceneInit, PuzzleInit, hookVars
<1>2. CASE RegisterFallback
  <2>1. /\ stage \in Before /\ stage' = "combat"
        /\ inst' = [inst EXCEPT !["init"] = "check"]
    BY <1>2 DEF RegisterFallback, Before
  <2>2. inst["init"] = "idle" /\ inst'["init"] = "check" /\ inst'["worker"] = inst["worker"]
    BY <1>0, <2>1 DEF ComeBy, Threads
  <2>3. Installers'
    BY <1>0, <1>1, <2>2 DEF Installers, Threads
  <2>4. ComeBy'
    BY <1>0, <2>1, <2>2 DEF ComeBy, Before
  <2> QED BY <2>3, <2>4
<1>3. CASE UNCHANGED inst
  <2>1. Installers'
    BY <1>0, <1>1, <1>3 DEF Installers
  <2>2. stage' \in Before => stage \in Before
    BY DEF InitThread, MHInitialize, SessionInit, InstallRenderHook, InstallUseHook, ReadCount,
           WriteItem, WriteCount, RegisterFallback, CutsceneInit, PuzzleInit, Before
  <2>3. stage' \in Past => stage \in Past \/ RegisterFallback
    BY DEF InitThread, MHInitialize, SessionInit, InstallRenderHook, InstallUseHook, ReadCount,
           WriteItem, WriteCount, CutsceneInit, PuzzleInit, Past
  <2> QED BY <1>0, <1>2, <1>3, <2>1, <2>2, <2>3 DEF ComeBy
<1> QED BY <1>2, <1>3 DEF InitThread, MHInitialize, SessionInit, InstallRenderHook,
           InstallUseHook, ReadCount, WriteItem, WriteCount, CutsceneInit, PuzzleInit, hookVars

\* MinHook refuses the second of two threads, which leaves the hook to the
\* first.
LEMMA InstallHooksArms ==
    ASSUME OverlayTypeOK, Installers, ComeBy, NEW th \in Threads, InstallHooks(th)
    PROVE  Installers' /\ ComeBy'
<1>0. /\ UNCHANGED <<hookable, stage, host>>
      /\ inst \in [Threads -> {"idle", "check", "create", "enable", "skill"}]
      /\ \A u \in Threads \ {th} : inst'[u] = inst[u]
      /\ Unloading' <=> Unloading
  BY DEF InstallHooks, CheckInstalled, CreateAttack, EnableAttack, InstallSkill, Goto,
         OverlayTypeOK, initVars, sessVars, Unloading
<1>1. CASE CheckInstalled(th)
  <2>1. /\ inst[th] = "check" /\ UNCHANGED <<hooks, made, hooksInstalled>>
        /\ inst'[th] = IF hooksInstalled \/ "attack" \notin hookable THEN "idle" ELSE "create"
    BY <1>0, <1>1 DEF CheckInstalled, Goto
  <2>2. Installers'
    BY <1>0, <2>1 DEF Installers
  <2>3. ComeBy'
    BY <1>0, <2>1 DEF ComeBy, Installers, Threads
  <2> QED BY <2>2, <2>3
<1>2. CASE CreateAttack(th)
  <2>1. /\ inst[th] = "create" /\ UNCHANGED <<hooks, hooksInstalled>> /\ made' = TRUE
        /\ inst'[th] = IF made THEN "idle" ELSE "enable"
    BY <1>0, <1>2 DEF CreateAttack, Goto, Refuses
  <2>2. Installers'
    BY <1>0, <2>1 DEF Installers
  <2>3. ComeBy'
    BY <1>0, <2>1 DEF ComeBy, Threads
  <2> QED BY <2>2, <2>3
<1>3. CASE EnableAttack(th)
  <2>1. /\ inst[th] = "enable" /\ inst'[th] = "skill" /\ UNCHANGED made
        /\ hooks' = hooks \union {"attack"} /\ hooksInstalled' = TRUE
    BY <1>0, <1>3 DEF EnableAttack, Goto
  <2>2. Installers'
    BY <1>0, <2>1 DEF Installers
  <2>3. ComeBy'
    BY <1>0, <2>1 DEF ComeBy, Threads
  <2> QED BY <2>2, <2>3
<1>4. CASE InstallSkill(th)
  <2>1. /\ inst[th] = "skill" /\ inst'[th] = "idle" /\ UNCHANGED <<made, hooksInstalled>>
        /\ hooks' = IF "skill" \in hookable THEN hooks \union {"skill"} ELSE hooks
    BY <1>0, <1>4 DEF InstallSkill, Goto, WithHook
  <2>2. Installers'
    BY <1>0, <2>1 DEF Installers
  <2>3. ComeBy'
    <3>1. made
      BY <2>1 DEF Installers
    <3> QED BY <1>0, <2>1, <3>1 DEF ComeBy, Threads
  <2> QED BY <2>2, <2>3
<1> QED BY <1>1, <1>2, <1>3, <1>4 DEF InstallHooks

\* A worker that becomes host goes through InstallHooks.
LEMMA WorkerArms ==
    ASSUME OverlayTypeOK, Installers, ComeBy, Worker
    PROVE  Installers' /\ ComeBy'
<1>0. /\ UNCHANGED <<hookable, stage, hooks, made, hooksInstalled>>
      /\ inst \in [Threads -> {"idle", "check", "create", "enable", "skill"}]
  BY DEF Worker, OverlayTypeOK, initVars
<1>1. CASE UNCHANGED <<host, inst>>
  <2>1. UNCHANGED hookVars
    BY <1>0, <1>1 DEF hookVars
  <2> QED BY <1>0, <1>1, <2>1, ArmsAlone
<1>2. ASSUME NEW h \in BOOLEAN, BecomesHost(h), inst["worker"] = "idle" PROVE Installers' /\ ComeBy'
  <2>1. CASE h
    <3>1. inst' = [inst EXCEPT !["worker"] = "check"]
      BY <1>2, <2>1 DEF BecomesHost, Goto
    <3>2. inst'["worker"] = "check" /\ inst'["init"] = inst["init"]
      BY <1>0, <3>1 DEF Threads
    <3>3. Installers'
      BY <1>0, <1>2, <3>2 DEF Installers, Threads, Unloading
    <3>4. ComeBy'
      BY <1>0, <3>2 DEF ComeBy
    <3> QED BY <3>3, <3>4
  <2>2. CASE ~h
    <3>1. host' = FALSE /\ UNCHANGED inst
      BY <1>2, <2>2 DEF BecomesHost
    <3>2. UNCHANGED hookVars
      BY <1>0, <3>1 DEF hookVars
    <3> QED BY <1>0, <3>1, <3>2, ArmsAlone
  <2> QED BY <2>1, <2>2
<1>3. UNCHANGED <<host, inst>> \/ (inst["worker"] = "idle" /\ \E h \in BOOLEAN : BecomesHost(h))
  BY DEF Worker, WorkerFree, Reports, JoinAck, HostReassign, JoinAckEnds
<1> QED BY <1>1, <1>2, <1>3

\* No hook of the combat is removed before the session is shut down.
LEMMA ShutdownArms ==
    ASSUME OverlayTypeOK, Installers, ComeBy, Shutdown
    PROVE  Installers' /\ ComeBy'
<1>0. UNCHANGED <<hookable, made, inst, host>> /\ Unloading' /\ stage' \notin Before \union Past
  BY DEF Shutdown, ShutdownBegins, ShutdownEnds, SessionShutdown, sessVars, Unloading, Before, Past
<1>1. ComeBy'
  BY <1>0 DEF ComeBy
<1>2. Installers'
  <2>1. CASE ShutdownBegins
    <3>1. /\ hooks' = hooks \ {"puzzle", "cutscene", "useItem"}
          /\ UNCHANGED hooksInstalled
      BY <2>1 DEF ShutdownBegins, UnhooksGame
    <3> QED BY <1>0, <3>1 DEF Installers
  <2>2. CASE ShutdownEnds
    <3>1. hooks' = {} /\ hooksInstalled' = FALSE
      BY <2>2 DEF ShutdownEnds, SessionShutdown
    <3> QED BY <1>0, <3>1 DEF Installers
  <2> QED BY <2>1, <2>2 DEF Shutdown
<1> QED BY <1>1, <1>2

\* Every step of the program keeps what is known of the combat hooks.
LEMMA NextArms ==
    ASSUME OverlayTypeOK, Installers, ComeBy, [Next]_vars
    PROVE  Installers' /\ ComeBy'
<1>1. CASE InitImGui \/ GameMoves
  <2>1. UNCHANGED hookVars /\ UNCHANGED initVars /\ UNCHANGED sessVars
    BY <1>1 DEF InitImGui, GameMoves
  <2> QED BY <2>1, ArmsAlone DEF initVars, sessVars
<1>2. CASE Menu
  <2>1. UNCHANGED hookVars /\ UNCHANGED initVars
    BY <1>2 DEF Menu, RenderBegins, Click, ConnectEnds, NoClick, JoinTail, OpenBegins,
               OpenEnds, Close, MenuUnchanged
  <2>2. host' = host \/ host' = FALSE
    BY <1>2 DEF Menu, RenderBegins, Click, ConnectEnds, NoClick, JoinTail, OpenBegins,
               OpenEnds, Close, RenderMainMenu, RenderHostSetup, RenderJoinSetup,
               RenderInSession, Connect, LeaveSession, NoSession, sessVars
  <2> QED BY <2>1, <2>2, ArmsAlone DEF initVars
<1>3. CASE UNCHANGED vars
  <2>1. UNCHANGED hookVars /\ UNCHANGED initVars /\ UNCHANGED sessVars
    BY <1>3 DEF vars
  <2> QED BY <2>1, ArmsAlone DEF initVars, sessVars
<1> QED BY <1>1, <1>2, <1>3, InitThreadArms, InstallHooksArms, WorkerArms, ShutdownArms DEF Next

-------------------------------------------------------------------------------
(***************************************************************************)
(* The items.                                                              *)
(***************************************************************************)

\* A step that leaves the items alone and goes no further towards the append.
LEMMA ItemsStay ==
    ASSUME raced \/ (Inventory /\ NextSlot), UNCHANGED invVars,
           \/ stage' = stage
           \/ stage' \notin Before
           \/ stage \in Before \ {"item", "count", "fallback"} /\ stage' \notin {"item", "count"}
           \/ stage' = "fallback"
    PROVE  raced' \/ (Inventory' /\ NextSlot')
<1>1. CASE raced
  BY <1>1 DEF invVars
<1>2. CASE Inventory /\ NextSlot
  <2>1. Inventory'
    BY <1>2 DEF Inventory, Below, invVars
  <2>2. NextSlot'
    BY <1>2 DEF NextSlot, Below, Before, invVars
  <2> QED BY <2>1, <2>2
<1> QED BY <1>1, <1>2

\* The append: the slot behind the last item, and the count behind the slot.
LEMMA AppendStep ==
    ASSUME OverlayTypeOK, raced \/ (Inventory /\ NextSlot),
           ReadCount \/ WriteItem \/ WriteCount
    PROVE  raced' \/ (Inventory' /\ NextSlot')
<1>1. CASE raced
  BY <1>1 DEF ReadCount, WriteItem, WriteCount
<1>2. ASSUME Inventory, NextSlot PROVE Inventory' /\ NextSlot'
  <2>0. /\ Below \subseteq Slots /\ count \in Nat
        /\ slots \in [Slots -> Items \union {Beacon, Free}]
        /\ owned \subseteq Items /\ Beacon \notin Items /\ read \in Slots
    BY SlotFacts, OverlayAssumption DEF OverlayTypeOK, Below
  <2>1. CASE ReadCount
    <3>1. UNCHANGED <<slots, count, owned>> /\ stage = "append"
      BY <2>1 DEF ReadCount
    <3>2. Inventory'
      BY <1>2, <3>1 DEF Inventory, Below
    <3>3. NextSlot'
      BY <1>2, <2>1, <3>1 DEF NextSlot, ReadCount, Below, Before
    <3> QED BY <3>2, <3>3
  <2>2. CASE WriteItem
    <3>1. /\ UNCHANGED <<count, read, owned>> /\ stage = "item" /\ stage' = "count"
          /\ slots' = [slots EXCEPT ![read] = Beacon] /\ read = count
      BY <1>2, <2>2 DEF WriteItem, AppendSlot, NextSlot
    <3>2. slots'[read] = Beacon /\ \A k \in Below : slots'[k] = slots[k]
      BY <2>0, <3>1 DEF Below
    <3>3. Inventory'
      BY <1>2, <3>1, <3>2 DEF Inventory, Below
    <3>4. NextSlot'
      BY <1>2, <3>1, <3>2 DEF NextSlot, Below, Before
    <3> QED BY <3>3, <3>4
  <2>3. CASE WriteCount
    <3>1. /\ UNCHANGED <<slots, owned>> /\ stage = "count" /\ stage' = "fallback"
          /\ count' = count + 1 /\ slots[count] = Beacon
      BY <1>2, <2>3 DEF WriteCount, NextSlot
    <3>2. \A k \in Below : slots[k] # Beacon
      BY <1>2, <3>1 DEF NextSlot, Before
    <3>3. Below' = Below \union {count} /\ count \notin Below
      BY <2>0, <3>1 DEF Below
    <3>4. Inventory'
      BY <1>2, <3>1, <3>2, <3>3 DEF Inventory
    <3>5. NextSlot'
      BY <3>1 DEF NextSlot, Before
    <3> QED BY <3>4, <3>5
  <2> QED BY <2>1, <2>2, <2>3
<1> QED BY <1>1, <1>2

\* The game fills the slot behind its last one, and takes the last one only
\* when that is an item of its own.
LEMMA GameStep ==
    ASSUME OverlayTypeOK, raced \/ (Inventory /\ NextSlot), GameMoves
    PROVE  raced' \/ (Inventory' /\ NextSlot')
<1>1. CASE raced \/ stage \in {"item", "count"}
  BY <1>1 DEF GameMoves
<1>2. ASSUME Inventory, NextSlot, stage \notin {"item", "count"}
      PROVE  Inventory' /\ NextSlot'
  <2>0. /\ Below \subseteq Slots /\ count \in Nat
        /\ slots \in [Slots -> Items \union {Beacon, Free}]
        /\ owned \subseteq Items /\ Beacon \notin Items
        /\ UNCHANGED stage
    BY SlotFacts, OverlayAssumption DEF OverlayTypeOK, Below, GameMoves, initVars
  <2>1. ASSUME NEW i \in Items \ owned, count \in Slots,
               slots' = [slots EXCEPT ![count] = i], count' = count + 1,
               owned' = owned \union {i}
        PROVE  Inventory' /\ NextSlot'
    <3>1. Below' = Below \union {count} /\ count \notin Below
      BY <2>0, <2>1 DEF Below
    <3>2. slots'[count] = i /\ \A k \in Below : slots'[k] = slots[k]
      BY <2>0, <2>1, <3>1
    <3>3. i # Beacon /\ \A k \in Below : slots[k] # i
      BY <1>2, <2>0, <2>1 DEF Inventory
    <3>4. \A k \in Below' : slots'[k] \in owned' \union {Beacon}
      BY <1>2, <2>1, <3>1, <3>2 DEF Inventory
    <3>5. \A j \in owned' : \E k \in Below' : slots'[k] = j
      BY <1>2, <2>1, <3>1, <3>2 DEF Inventory
    <3>6. \A j, k \in Below' : slots'[j] = slots'[k] => j = k
      BY <1>2, <3>1, <3>2, <3>3 DEF Inventory
    <3>7. NextSlot'
      BY <1>2, <2>0, <3>1, <3>2, <3>3 DEF NextSlot
    <3> QED BY <3>4, <3>5, <3>6, <3>7 DEF Inventory
  <2>2. ASSUME count > 0, slots[count - 1] \in owned, count' = count - 1,
               owned' = owned \ {slots[count - 1]}, UNCHANGED slots
        PROVE  Inventory' /\ NextSlot'
    <3>1. Below = Below' \union {count - 1} /\ count - 1 \notin Below'
      BY <2>0, <2>2 DEF Below
    <3>2. \A k \in Below' : slots[k] # slots[count - 1]
      BY <1>2, <3>1 DEF Inventory
    <3>3. \A k \in Below' : slots[k] \in owned' \union {Beacon}
      BY <1>2, <2>2, <3>1, <3>2 DEF Inventory
    <3>4. \A j \in owned' : \E k \in Below' : slots[k] = j
      BY <1>2, <2>2, <3>1 DEF Inventory
    <3>5. \A j, k \in Below' : slots[j] = slots[k] => j = k
      BY <1>2, <3>1 DEF Inventory
    <3>6. Inventory'
      BY <2>2, <3>3, <3>4, <3>5 DEF Inventory
    <3>7. NextSlot'
      BY <1>2, <2>0, <2>2, <3>1 DEF NextSlot
    <3> QED BY <3>6, <3>7
  <2> QED BY <2>1, <2>2 DEF GameMoves
<1> QED BY <1>1, <1>2

\* Every step of the program keeps what is known of the items.
LEMMA NextItems ==
    ASSUME OverlayTypeOK, raced \/ (Inventory /\ NextSlot), [Next]_vars
    PROVE  raced' \/ (Inventory' /\ NextSlot')
<1>1. CASE InitThread
  <2>1. CASE ReadCount \/ WriteItem \/ WriteCount
    BY <2>1, AppendStep
  <2>2. CASE ~(ReadCount \/ WriteItem \/ WriteCount)
    <3>1. UNCHANGED invVars
      BY <1>1, <2>2 DEF InitThread, MHInitialize, SessionInit, InstallRenderHook, InstallUseHook,
                RegisterFallback, CutsceneInit, PuzzleInit
    <3>2. \/ stage' \notin Before
          \/ stage \in Before \ {"item", "count", "fallback"} /\ stage' \notin {"item", "count"}
      BY <1>1, <2>2 DEF InitThread, MHInitialize, SessionInit, InstallRenderHook, InstallUseHook,
                RegisterFallback, CutsceneInit, PuzzleInit, Before
    <3> QED BY <3>1, <3>2, ItemsStay
  <2> QED BY <2>1, <2>2
<1>2. CASE (\E th \in Threads : InstallHooks(th)) \/ Worker \/ InitImGui
  <2>1. UNCHANGED invVars /\ UNCHANGED initVars
    BY <1>2 DEF InstallHooks, Worker, InitImGui
  <2> QED BY <2>1, ItemsStay DEF initVars
<1>3. CASE Menu
  <2>1. UNCHANGED invVars /\ UNCHANGED initVars
    BY <1>3 DEF Menu, RenderBegins, Click, ConnectEnds, NoClick, JoinTail, OpenBegins,
               OpenEnds, Close, MenuUnchanged
  <2> QED BY <2>1, ItemsStay DEF initVars
<1>4. CASE Shutdown
  <2>1. UNCHANGED invVars /\ stage' \notin Before
    BY <1>4 DEF Shutdown, ShutdownBegins, ShutdownEnds, Before
  <2> QED BY <2>1, ItemsStay
<1>5. CASE UNCHANGED vars
  <2>1. UNCHANGED invVars /\ UNCHANGED initVars
    BY <1>5 DEF vars
  <2> QED BY <2>1, ItemsStay DEF initVars
<1> QED BY <1>1, <1>2, <1>3, <1>4, <1>5, GameStep DEF Next

-------------------------------------------------------------------------------
(***************************************************************************)
(* The theorems.                                                           *)
(***************************************************************************)

\* The invariant holds of a program that has just been loaded.
LEMMA InitIInv == Init => IInv
<1> SUFFICES ASSUME Init PROVE IInv
  OBVIOUS
<1>1. OverlayTypeOK
  BY InitType
<1>2. Installers /\ ComeBy
  BY DEF Init, Installers, ComeBy, Threads, Past
<1>3. Inventory
  <2>1. CASE owned = {}
    <3>1. count = Cardinality({})
      BY <2>1 DEF Init
    <3>2. Below = {}
      BY <3>1, FS_EmptySet DEF Below
    <3> QED BY <2>1, <3>2 DEF Inventory
  <2>2. CASE \E i \in Items : owned = {i}
    <3>1. PICK i \in Items : owned = {i}
      BY <2>2
    <3>2. count = Cardinality({i})
      BY <3>1 DEF Init
    <3>3. count = 1
      BY <3>2, FS_Singleton
    <3>4. Below = {0}
      BY <3>3 DEF Below
    <3>5. slots[0] = CHOOSE j \in owned : TRUE
      BY <3>3, SlotFacts DEF Init
    <3>6. slots[0] = i
      BY <3>1, <3>5
    <3> QED BY <3>1, <3>4, <3>6 DEF Inventory
  <2> QED BY <2>1, <2>2 DEF Init
<1>4. NextSlot
  <2>1. stage = "minhook" /\ owned \subseteq Items
    BY <1>1 DEF Init, OverlayTypeOK
  <2>2. \A k \in Below : slots[k] # Beacon
    <3>1. Below \subseteq Slots
      BY <1>1, SlotFacts DEF OverlayTypeOK, Below
    <3>2. \A k \in Below : slots[k] = CHOOSE i \in owned : TRUE
      BY <1>1, <3>1, SlotFacts DEF Init, Below, OverlayTypeOK
    <3>3. ASSUME NEW k \in Below PROVE owned # {}
      BY <3>3, FS_EmptySet DEF Init, Below
    <3> QED BY <2>1, <3>2, <3>3, OverlayAssumption
  <2> QED BY <2>1, <2>2 DEF NextSlot
<1> QED BY <1>1, <1>2, <1>3, <1>4 DEF IInv

\* Every step of the program keeps the invariant.
LEMMA NextIInv == IInv /\ [Next]_vars => IInv'
BY NextType, NextArms, NextItems DEF IInv

\* The invariant holds of every state of the program.
LEMMA SpecIInv == Spec => []IInv
BY InitIInv, NextIInv, PTL DEF Spec

\* Every variable has its type, no hook is enabled that cannot be, and F9 is
\* the hotkey thread's only in the fallback.
THEOREM OverlayIsTyped == Spec => []OverlayTypeOK
<1>1. IInv => OverlayTypeOK
  BY DEF IInv
<1> QED BY <1>1, SpecIInv, PTL

\* The invariant has as many slots with an item of the player below the count
\* as the player owns items, and at most one more.
LEMMA InventoryKept == OverlayTypeOK /\ (~raced => Inventory) => ItemsKept
<1> SUFFICES ASSUME OverlayTypeOK, Inventory, ~raced PROVE ItemsKept
  BY DEF ItemsKept
<1> DEFINE shown == {k \in 0 .. count - 1 : slots[k] # Beacon}
<1>1. Beacon \notin owned /\ count \in Nat /\ IsFiniteSet(owned)
  BY SlotFacts, OverlayAssumption, FS_Subset DEF OverlayTypeOK
<1>2. {slots[k] : k \in shown} = owned
  BY <1>1 DEF Inventory, Below
<1>3. IsFiniteSet(0 .. count - 1) /\ Cardinality(0 .. count - 1) = count
  BY <1>1, FS_Interval
<1>4. IsFiniteSet(shown) /\ Cardinality(shown) \in Nat
  BY <1>3, FS_Subset, FS_CardinalityType
<1>5. Cardinality(shown) = Cardinality(owned)
  <2> DEFINE f == [k \in shown |-> slots[k]]
  <2>1. f \in Bijection(shown, owned)
    <3>1. f \in [shown -> owned] /\ \A i \in owned : \E k \in shown : f[k] = i
      BY <1>2
    <3>2. \A j, k \in shown : f[j] = f[k] => j = k
      BY DEF Inventory, Below
    <3> QED BY <3>1, <3>2 DEF Bijection, Injection, Surjection, IsInjective
  <2> QED BY <1>4, <2>1, FS_Bijection DEF ExistsBijection
<1>6. count <= Cardinality(owned) + 1
  <2>1. CASE shown = 0 .. count - 1
    <3>1. Cardinality(shown) = count
      BY <1>3, <2>1
    <3> QED BY <1>1, <1>5, <3>1
  <2>2. CASE shown # 0 .. count - 1
    <3>1. PICK b \in 0 .. count - 1 : slots[b] = Beacon
      BY <2>2
    <3>2. shown \union {b} = 0 .. count - 1
      BY <3>1 DEF Inventory, Below
    <3>3. Cardinality(shown \union {b}) <= Cardinality(shown) + 1
      <4> HIDE DEF shown
      <4> QED BY <1>4, FS_AddElement
    <3>4. count <= Cardinality(shown) + 1
      BY <1>3, <3>2, <3>3
    <3> QED BY <1>5, <3>4
  <2> QED BY <2>1, <2>2
<1> QED BY <1>2, <1>5, <1>6 DEF ItemsKept

\* The append takes nothing from the player, and gives nothing but the beacon,
\* unless the game moved an item between the read of the count and its write.
THEOREM AppendIsSafe == Spec => []ItemsKept
<1>1. IInv => ItemsKept
  BY InventoryKept DEF IInv
<1> QED BY <1>1, SpecIInv, PTL

\* Two threads in InstallHooks may refuse each other, but not both: once both
\* are back the combat hooks are there wherever the game has the functions.
THEOREM InstallersAgree == Spec => []CombatHooksWork
<1>1. IInv => CombatHooksWork
  BY DEF IInv, Installers, ComeBy, CombatHooksWork, Threads, Past, Unloading
<1> QED BY <1>1, SpecIInv, PTL

\* A client that became host has the attack hook, or the init thread is about
\* to enable it.
THEOREM HostsAreArmed == Spec => []HostIsArmed
<1>1. IInv => HostIsArmed
  BY DEF IInv, Installers, ComeBy, HostIsArmed, Threads
<1> QED BY <1>1, SpecIInv, PTL

-------------------------------------------------------------------------------
(***************************************************************************)
(* The cache file: the inductive invariant of OffsetCache.                 *)
(***************************************************************************)
\* What a launch has found, before and while it saves it.
FoundHere ==
    /\ phase = "resolving" => player \in {Null, Here} /\ layout.build = build
    /\ phase = "saving"    => player = Here /\ layout.build = build /\ layout.depth = 3

\* A launch tries again only while it has attempts left.
AttemptsLeft == phase = "resolving" => attempts < MaxAttempts

CacheInv ==
    /\ CacheTypeOK
    /\ CacheIsWhole
    /\ FoundHere
    /\ AttemptsLeft
    /\ PlayerIsReadRight

USE TwinsAssumption, AttemptsAssumption, NullAssumption, FileAssumption, NoHashAssumption

\* A cleared layout is one.
LEMMA BlankLayout == ASSUME NEW b \in Builds PROVE Blank(b) \in Layout /\ Blank(b).build = b
BY DEF Blank, Layout

\* A launch may begin with no failed attempt.
LEMMA NoneMade == 0 \in 0..MaxAttempts
BY AttemptsAssumption

\* The invariant holds before the first launch.
LEMMA InitCacheInv == CacheInit => CacheInv
<1> SUFFICES ASSUME CacheInit PROVE CacheInv
  OBVIOUS
<1>1. CacheTypeOK
  BY BlankLayout, NoneMade DEF CacheInit, CacheTypeOK
<1>2. CacheIsWhole /\ FoundHere /\ AttemptsLeft /\ PlayerIsReadRight
  BY DEF CacheInit, CacheIsWhole, FoundHere, AttemptsLeft, PlayerIsReadRight, Ready
<1> QED BY <1>1, <1>2 DEF CacheInv

\* What one scan and walk leave is of this launch.
LEMMA ScanFindsHere ==
  ASSUME CacheInv, phase = "resolving", NEW d \in 0..3, Scan(d),
         base' = base, build' = build
  PROVE  /\ player' \in {Null, Here} /\ player' \in Address \cup {Null}
         /\ fns' \in Address \cup {Null}
         /\ hookFns' \in Address \cup {Null}
         /\ layout' \in Layout /\ layout'.build = build
         /\ Here' = Here
<1>1. Here \in Address /\ Here' = Here
  BY DEF CacheInv, CacheTypeOK, Here, Address
<1>2. layout' \in Layout /\ layout'.build = build
  BY DEF CacheInv, CacheTypeOK, FoundHere, Scan, Walks, Layout
<1> QED BY <1>1, <1>2 DEF CacheInv, FoundHere, Scan

\* Every step preserves it.
LEMMA NextCacheInv == CacheInv /\ [CacheNext]_cacheVars => CacheInv'
<1> SUFFICES ASSUME CacheInv, [CacheNext]_cacheVars PROVE CacheInv'
  OBVIOUS
<1>1. ASSUME NEW a \in Bases, NEW b \in Builds, Launch(a, b) PROVE CacheInv'
  <2>1. CacheTypeOK'
    BY <1>1, BlankLayout, NoneMade DEF Launch, CacheInv, CacheTypeOK
  <2>2. CacheIsWhole'
    BY <1>1 DEF Launch, CacheInv, CacheIsWhole
  <2>3. FoundHere' /\ AttemptsLeft' /\ PlayerIsReadRight'
    BY <1>1 DEF Launch, Blank, FoundHere, AttemptsLeft, PlayerIsReadRight, Ready
  <2> QED BY <2>1, <2>2, <2>3 DEF CacheInv
<1>2. CASE Quit
  BY <1>2 DEF Quit, offsets, CacheInv, CacheTypeOK, CacheIsWhole, FoundHere, AttemptsLeft,
              PlayerIsReadRight, Ready
<1>3. CASE SpawnOrDespawn
  BY <1>3 DEF SpawnOrDespawn, offsets, CacheInv, CacheTypeOK, CacheIsWhole, FoundHere,
              AttemptsLeft, PlayerIsReadRight, Ready, Here
<1>4. CASE LoadFromCache
  <2>1. file \in Entry /\ file.hash = Hash(build)
    BY <1>4 DEF LoadFromCache, KeyMatches
  <2>2. /\ player' \in Address
        /\ player'.base = base
        /\ player'.build = file.player.build
    BY <1>4, <2>1 DEF LoadFromCache, Rebased, Entry, Address, CacheInv, CacheTypeOK
  <2>3. Hash(file.layout.build) = Hash(build) /\ file.player.build = file.layout.build
    <3>1. file.hash \in {NoHash, Hash(file.layout.build)} /\ file.player.build = file.layout.build
      BY <2>1 DEF CacheInv, CacheIsWhole
    <3>2. Hash(build) # NoHash
      BY DEF CacheInv, CacheTypeOK
    <3> QED BY <2>1, <3>1, <3>2
  <2>4. CacheTypeOK'
    BY <1>4, <2>1, <2>2 DEF LoadFromCache, CacheInv, CacheTypeOK, Entry
  <2>5. CacheIsWhole'
    BY <1>4 DEF LoadFromCache, CacheInv, CacheIsWhole
  <2>6. FoundHere' /\ AttemptsLeft'
    BY <1>4 DEF LoadFromCache, FoundHere, AttemptsLeft
  <2>7. PlayerIsReadRight'
    BY <1>4, <2>2, <2>3 DEF LoadFromCache, PlayerIsReadRight
  <2> QED BY <2>4, <2>5, <2>6, <2>7 DEF CacheInv
<1>5. CASE ScanWithoutSave
  <2>1. PICK d \in 0..3 : Scan(d)
    BY <1>5 DEF ScanWithoutSave
  <2>2. /\ player' \in {Null, Here} /\ player' \in Address \cup {Null}
        /\ fns' \in Address \cup {Null}
        /\ hookFns' \in Address \cup {Null}
        /\ layout' \in Layout /\ layout'.build = build
        /\ Here' = Here
    BY <1>5, <2>1, ScanFindsHere DEF ScanWithoutSave
  <2>3. /\ phase' \in {"resolving", "running"}
        /\ attempts' \in 0..MaxAttempts
        /\ phase' = "resolving" => attempts' < MaxAttempts
    <3>1. attempts \in 0..MaxAttempts /\ attempts < MaxAttempts /\ phase = "resolving"
      BY <1>5 DEF ScanWithoutSave, CacheInv, CacheTypeOK, AttemptsLeft
    <3> QED BY <1>5, <3>1 DEF ScanWithoutSave, AttemptEnds
  <2>4. CacheTypeOK'
    BY <1>5, <2>2, <2>3 DEF ScanWithoutSave, CacheInv, CacheTypeOK
  <2>5. CacheIsWhole'
    BY <1>5 DEF ScanWithoutSave, CacheInv, CacheIsWhole
  <2>6. FoundHere' /\ AttemptsLeft'
    BY <1>5, <2>2, <2>3 DEF ScanWithoutSave, FoundHere, AttemptsLeft
  <2>7. PlayerIsReadRight'
    BY <1>5, <2>2 DEF ScanWithoutSave, PlayerIsReadRight, playerLayoutResolved, Here
  <2> QED BY <2>4, <2>5, <2>6, <2>7 DEF CacheInv
<1>6. CASE ScanAndSave
  <2>1. PICK d \in 0..3 : Scan(d)
    BY <1>6 DEF ScanAndSave
  <2>2. /\ player' \in {Null, Here} /\ player' \in Address \cup {Null}
        /\ fns' \in Address \cup {Null}
        /\ hookFns' \in Address \cup {Null}
        /\ layout' \in Layout /\ layout'.build = build
        /\ Here' = Here
    BY <1>6, <2>1, ScanFindsHere DEF ScanAndSave
  <2>3. player' = Here /\ layout'.depth = 3
    BY <1>6, <2>2 DEF ScanAndSave, playerLayoutResolved
  <2>4. CacheTypeOK'
    BY <1>6, <2>2 DEF ScanAndSave, CacheInv, CacheTypeOK
  <2>5. CacheIsWhole'
    BY <1>6 DEF ScanAndSave, CacheIsWhole
  <2>6. FoundHere' /\ AttemptsLeft'
    BY <1>6, <2>2, <2>3 DEF ScanAndSave, FoundHere, AttemptsLeft
  <2>7. PlayerIsReadRight'
    BY <1>6, <2>2, <2>3 DEF ScanAndSave, PlayerIsReadRight, Here
  <2> QED BY <2>4, <2>5, <2>6, <2>7 DEF CacheInv
<1>7. CASE SaveOffsetCache
  <2>1. player = Here /\ layout.build = build /\ layout.depth = 3
    BY <1>7 DEF SaveOffsetCache, CacheInv, FoundHere
  <2>2. PICK h \in {Hash(build), NoHash} :
           file' = [hash |-> h, player |-> player, fns |-> fns, layout |-> layout]
    BY <1>7 DEF SaveOffsetCache
  <2>3. file' \in Entry
    BY <2>1, <2>2 DEF CacheInv, CacheTypeOK, Entry, Hashes, Here, Address
  <2>4. CacheTypeOK'
    BY <1>7, <2>3 DEF SaveOffsetCache, offsets, CacheInv, CacheTypeOK
  <2>5. CacheIsWhole'
    BY <2>1, <2>2 DEF CacheIsWhole, Here
  <2>6. FoundHere' /\ AttemptsLeft'
    BY <1>7 DEF SaveOffsetCache, FoundHere, AttemptsLeft
  <2>7. PlayerIsReadRight'
    BY <1>7, <2>1 DEF SaveOffsetCache, offsets, PlayerIsReadRight, Here
  <2> QED BY <2>4, <2>5, <2>6, <2>7 DEF CacheInv
<1>8. CASE UNCHANGED cacheVars
  BY <1>8 DEF cacheVars, offsets, CacheInv, CacheTypeOK, CacheIsWhole, FoundHere, AttemptsLeft,
              PlayerIsReadRight, Ready, playerLayoutResolved, Here
<1> QED BY <1>1, <1>2, <1>3, <1>4, <1>5, <1>6, <1>7, <1>8 DEF CacheNext

\* What a launch reads the player with is at its own base and of a build with the
\* hash of the running one, whatever was launched, updated or cut short before.
THEOREM ReadRight == CacheSpec => []PlayerIsReadRight
<1>1. CacheInv => PlayerIsReadRight
  BY DEF CacheInv
<1> QED BY <1>1, InitCacheInv, NextCacheInv, PTL DEF CacheSpec

\* Only a complete layout, of one build and under that build's hash, is on disk.
THEOREM CacheWhole == CacheSpec => []CacheIsWhole
<1>1. CacheInv => CacheIsWhole
  BY DEF CacheInv
<1> QED BY <1>1, InitCacheInv, NextCacheInv, PTL DEF CacheSpec

\* The attempts of a launch stay within their bound, and every field has its type.
THEOREM CacheTyped == CacheSpec => []CacheTypeOK
<1>1. CacheInv => CacheTypeOK
  BY DEF CacheInv
<1> QED BY <1>1, InitCacheInv, NextCacheInv, PTL DEF CacheSpec

===============================================================================
