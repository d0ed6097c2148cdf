---------------------------- MODULE StateSync_proofs ---------------------------
(***************************************************************************)
(* The safety invariants of StateSync, proved for every set of watchers,   *)
(* every range of the player's values, every threshold and every bound.    *)
(*                                                                         *)
(* A watcher's frames are folded into its view one by one.  The proof      *)
(* says where the fold ends without computing it: some path of views leads *)
(* from the one the watcher has, frame by frame, to one that is up to      *)
(* date.  A frame sent lengthens the path, a frame handled shortens it.    *)
(***************************************************************************)
EXTENDS StateSync, SequenceTheorems, TLAPS

\* What a watcher knows: its entry for the player, and whether it was told.
Knowledge == (PlayerState \cup {Absent}) \X BOOLEAN

Learns(k, m) == <<After(k[1], m), ToldAfter(k[2], m)>>

Leads(d, from, to) ==
    \E path \in [0..Len(d) -> Knowledge] :
        /\ path[0] = from
        /\ path[Len(d)] = to
        /\ \A i \in 1..Len(d) : path[i] = Learns(path[i - 1], d[i])

-------------------------------------------------------------------------------
(***************************************************************************)
(* Paths.                                                                  *)
(***************************************************************************)

\* Nobody learns anything from no frame.
LEMMA EmptyPath ==
    ASSUME NEW k \in Knowledge
    PROVE  Leads(<<>>, k, k) /\ \A j : Leads(<<>>, k, j) => j = k
<1>1. Len(<<>>) = 0
  OBVIOUS
<1>2. Leads(<<>>, k, k)
  <2> DEFINE path == [i \in 0..0 |-> k]
  <2>1. path \in [0..0 -> Knowledge] /\ path[0] = k
    OBVIOUS
  <2> HIDE DEF path
  <2> QED BY <1>1, <2>1 DEF Leads
<1>3. ASSUME NEW j, Leads(<<>>, k, j) PROVE j = k
  BY <1>1, <1>3 DEF Leads
<1> QED BY <1>2, <1>3

\* A frame sent leads one step further.
LEMMA LongerPath ==
    ASSUME NEW S, NEW d \in Seq(S), NEW m \in S, NEW from, NEW to,
           Leads(d, from, to), Learns(to, m) \in Knowledge
    PROVE  Leads(Append(d, m), from, Learns(to, m))
<1> DEFINE e == Append(d, m)
           n == Len(d)
<1>1. /\ n \in Nat /\ Len(e) = n + 1
      /\ \A i \in 1..n : e[i] = d[i]
      /\ e[n + 1] = m
  BY AppendProperties, LenProperties
<1> HIDE DEF e, n
<1>2. PICK path \in [0..n -> Knowledge] :
          /\ path[0] = from
          /\ path[n] = to
          /\ \A i \in 1..n : path[i] = Learns(path[i - 1], d[i])
  BY DEF Leads, n
<1> DEFINE longer == [i \in 0..(n + 1) |-> IF i = n + 1 THEN Learns(to, m) ELSE path[i]]
<1>3. longer \in [0..(n + 1) -> Knowledge]
  BY <1>1, <1>2
<1>4. longer[0] = from /\ longer[n + 1] = Learns(to, m)
  BY <1>1, <1>2
<1>5. ASSUME NEW i \in 1..(n + 1) PROVE longer[i] = Learns(longer[i - 1], e[i])
  <2>1. CASE i = n + 1
    <3>1. longer[i - 1] = to /\ longer[i] = Learns(to, m)
      BY <2>1, <1>1, <1>2
    <3> QED BY <3>1, <2>1, <1>1
  <2>2. CASE i # n + 1
    <3>1. i \in 1..n /\ longer[i] = path[i] /\ longer[i - 1] = path[i - 1]
      BY <2>2, <1>1
    <3> QED BY <3>1, <1>1, <1>2
  <2> QED BY <2>1, <2>2
<1> HIDE DEF longer
<1> QED BY <1>1, <1>3, <1>4, <1>5 DEF Leads, e

\* A frame handled has led one step.
LEMMA ShorterPath ==
    ASSUME NEW S, NEW d \in Seq(S), d # <<>>, NEW from, NEW to, Leads(d, from, to)
    PROVE  /\ Learns(from, Head(d)) \in Knowledge
           /\ Leads(Tail(d), Learns(from, Head(d)), to)
<1> DEFINE e == Tail(d)
           h == Head(d)
           n == Len(e)
<1>1. /\ n \in Nat /\ Len(d) = n + 1
      /\ h = d[1]
      /\ \A i \in 1..n : e[i] = d[i + 1]
  BY HeadTailProperties, LenProperties, EmptySeq
<1> HIDE DEF e, h, n
<1>2. PICK path \in [0..(n + 1) -> Knowledge] :
          /\ path[0] = from
          /\ path[n + 1] = to
          /\ \A i \in 1..(n + 1) : path[i] = Learns(path[i - 1], d[i])
  BY <1>1 DEF Leads
<1> DEFINE rest == [i \in 0..n |-> path[i + 1]]
<1>3. rest \in [0..n -> Knowledge]
  BY <1>1, <1>2
<1>4. path[1] = Learns(from, h) /\ path[1] \in Knowledge
  <2>1. 1 \in 1..(n + 1) /\ 1 \in 0..(n + 1) /\ 1 - 1 = 0
    BY <1>1
  <2> QED BY <2>1, <1>1, <1>2
<1>5. rest[0] = Learns(from, h) /\ rest[n] = to
  BY <1>1, <1>2, <1>4
<1>6. ASSUME NEW i \in 1..n PROVE rest[i] = Learns(rest[i - 1], e[i])
  <2>1. /\ i + 1 \in 1..(n + 1) /\ (i + 1) - 1 = i
        /\ rest[i] = path[i + 1] /\ rest[i - 1] = path[i]
    BY <1>1
  <2> QED BY <2>1, <1>1, <1>2
<1> HIDE DEF rest
<1>7. Leads(e, Learns(from, h), to)
  BY <1>3, <1>5, <1>6 DEF Leads, n
<1> QED BY <1>4, <1>7 DEF e, h

-------------------------------------------------------------------------------
(***************************************************************************)
(* The inductive invariant.                                                *)
(***************************************************************************)

\* The server has a PlayerState exactly while the client is in the room, and
\* only then are frames on their way to it.
SessionAgrees ==
    /\ session = "in" <=> cur # Absent
    /\ up # <<>> => session = "in"

\* The client's last-sent values are those of the last update on its way to
\* the server, or the server's own; or Clear has seen to it that the next
\* render sends.
AsSent(s) == s.pos = lastPos /\ s.health = lastHealth

NoUpdateBehind(i) == \A j \in DOMAIN up : i < j => up[j].t # "STATE_UPDATE"

SentIsRemembered ==
    drops = 0 =>
        /\ session # "dropped"
        /\ session = "out" => lastHealth = NoHealth
        /\ session = "in" =>
              /\ \A i \in DOMAIN up :
                    up[i].t = "STATE_UPDATE" /\ NoUpdateBehind(i) => AsSent(up[i].state)
              /\ NoUpdateBehind(0) => lastHealth = NoHealth \/ AsSent(cur)

\* What a watcher ought to know: the three checked invariants, said of what it
\* will know and not of what it knows.
UpToDate(k) ==
    /\ cur # Absent => k[1] # Absent /\ k[1].cutscene = cur.cutscene
    /\ k[2] => last # Absent /\ k[1] = [last EXCEPT !.cutscene = cur.cutscene]

\* Outside of the room a watcher may have anything in its table.
WatcherOK(w) ==
    IF w \in members
    THEN \E k \in Knowledge : UpToDate(k) /\ Leads(down[w], <<view[w], told[w]>>, k)
    ELSE ~told[w]

SInv ==
    /\ StateTypeOK
    /\ SessionAgrees
    /\ SentIsRemembered
    /\ \A w \in Watchers : WatcherOK(w)

\* The invariant holds before the player has joined.
LEMMA StateInitSInv == StateInit => SInv
<1> SUFFICES ASSUME StateInit PROVE SInv
  OBVIOUS
<1> USE DEF StateInit
<1>1. StateTypeOK
  <2>1. 0 \in 0..MaxPos /\ 0 \in 0..MaxDrops
    BY RangeAssumption
  <2>2. <<>> \in Seq(UpFrame) /\ <<>> \in Seq(DownFrame)
    BY EmptySeq
  <2> QED BY <2>1, <2>2, AvatarsAssumption DEF StateTypeOK
<1>2. SessionAgrees /\ SentIsRemembered
  BY DEF SessionAgrees, SentIsRemembered
<1>3. \A w \in Watchers : WatcherOK(w)
  BY DEF WatcherOK
<1> QED BY <1>1, <1>2, <1>3 DEF SInv

-------------------------------------------------------------------------------
(***************************************************************************)
(* Types.                                                                  *)
(***************************************************************************)

\* Handling a frame leaves an entry of the table, or none.
LEMMA LearnsType ==
    ASSUME NEW k \in Knowledge, NEW m \in DownFrame
    PROVE  Learns(k, m) \in Knowledge
<1>1. k[1] \in PlayerState \cup {Absent} /\ k[2] \in BOOLEAN
  BY DEF Knowledge
<1>2. After(k[1], m) \in PlayerState \cup {Absent}
  <2>1. CASE m.t = "CUTSCENE"
    <3>1. m.active \in BOOLEAN
      BY <2>1 DEF DownFrame
    <3>2. k[1] # Absent => [k[1] EXCEPT !.cutscene = m.active] \in PlayerState
      BY <1>1, <3>1 DEF PlayerState
    <3> QED BY <2>1, <3>2 DEF After
  <2>2. CASE m.t # "CUTSCENE"
    BY <2>2, <1>1 DEF DownFrame, After
  <2> QED BY <2>1, <2>2
<1>3. ToldAfter(k[2], m) \in BOOLEAN
  BY DEF ToldAfter
<1> QED BY <1>2, <1>3 DEF Knowledge, Learns

\* The state a player is entered with (room.ts) is one, and not its absence.
LEMMA NewPlayerType == NewPlayerState \in PlayerState /\ NewPlayerState # Absent
<1>1. NewPlayerState \in PlayerState
  <2>1. 0 \in 0..MaxPos /\ MaxHealth \in 0..MaxHealth
    BY RangeAssumption
  <2> QED BY <2>1 DEF NewPlayerState, PlayerState
<1> QED BY <1>1, AbsentAssumption

\* A broadcast keeps the lines' type.
LEMMA BroadcastTyped ==
    ASSUME StateTypeOK, NEW m \in DownFrame, Broadcast(m)
    PROVE  down' \in [Watchers -> Seq(DownFrame)]
<1>1. \A w \in Watchers : Append(down[w], m) \in Seq(DownFrame)
  BY AppendProperties DEF StateTypeOK
<1> QED BY <1>1 DEF Broadcast, StateTypeOK

\* What a handled frame to the server was.
LEMMA HandledType ==
    ASSUME StateTypeOK, SessionAgrees, NEW type, Handles(type)
    PROVE  /\ Head(up) \in UpFrame /\ up' \in Seq(UpFrame)
           /\ session = "in" /\ cur \in PlayerState /\ cur # Absent
<1>1. up \in Seq(UpFrame) /\ up # <<>> /\ up' = Tail(up)
  BY DEF StateTypeOK, Handles
<1> QED BY <1>1, HeadTailProperties DEF SessionAgrees, StateTypeOK

\* What the server makes of it.
LEMMA HandledState ==
    ASSUME StateTypeOK, SessionAgrees
    PROVE  /\ OnStateUpdate =>
                 /\ Head(up).t = "STATE_UPDATE" /\ Head(up).state \in Avatar
                 /\ cur' \in PlayerState /\ cur' # Absent
                 /\ cur'.pos = Head(up).state.pos /\ cur'.health = Head(up).state.health
                 /\ cur'.cutscene = cur.cutscene
           /\ OnCutscene =>
                 /\ Head(up).t = "CUTSCENE" /\ Head(up).active \in BOOLEAN
                 /\ cur' \in PlayerState /\ cur' # Absent
                 /\ cur'.pos = cur.pos /\ cur'.health = cur.health
                 /\ cur'.cutscene = Head(up).active
<1>1. ASSUME OnStateUpdate
      PROVE  /\ Head(up).t = "STATE_UPDATE" /\ Head(up).state \in Avatar
             /\ cur' \in PlayerState
             /\ cur'.pos = Head(up).state.pos /\ cur'.health = Head(up).state.health
             /\ cur'.cutscene = cur.cutscene
  <2>1. /\ Head(up) \in UpFrame /\ Head(up).t = "STATE_UPDATE"
        /\ cur \in PlayerState /\ cur' = Patched(cur, Head(up).state)
    BY <1>1, HandledType DEF OnStateUpdate, Handles
  <2>2. Head(up).state \in Avatar
    BY <2>1 DEF UpFrame
  <2> QED BY <2>1, <2>2, RangeAssumption DEF Patched, PlayerState, Avatar
<1>2. ASSUME OnCutscene
      PROVE  /\ Head(up).t = "CUTSCENE" /\ Head(up).active \in BOOLEAN
             /\ cur' \in PlayerState
             /\ cur'.pos = cur.pos /\ cur'.health = cur.health
             /\ cur'.cutscene = Head(up).active
  <2>1. /\ Head(up) \in UpFrame /\ Head(up).t = "CUTSCENE"
        /\ cur \in PlayerState /\ cur' = [cur EXCEPT !.cutscene = Head(up).active]
    BY <1>2, HandledType DEF OnCutscene, Handles, StoresCutscene
  <2>2. Head(up).active \in BOOLEAN
    BY <2>1 DEF UpFrame
  <2> QED BY <2>1, <2>2 DEF PlayerState
<1> QED BY <1>1, <1>2, AbsentAssumption

\* Every step keeps the types.
LEMMA StateTypeStep ==
    ASSUME SInv, StateNext
    PROVE  StateTypeOK'
<1>1. StateTypeOK /\ SessionAgrees
  BY DEF SInv
<1> USE DEF clientVars, serverVars, watcherVars
<1>2. CASE Play
  BY <1>1, <1>2, AvatarsAssumption DEF Play, StateTypeOK
<1>3. CASE SendLocalState
  <2>1. Append(up, StateUpdate(mem)) \in Seq(UpFrame)
    <3>1. StateUpdate(mem) \in UpFrame
      BY <1>1 DEF StateTypeOK, StateUpdate, UpFrame
    <3> QED BY <3>1, <1>1, AppendProperties DEF StateTypeOK
  <2>2. mem.pos \in 0..MaxPos /\ mem.health \in 0..MaxHealth
    BY <1>1 DEF StateTypeOK, Avatar
  <2> QED BY <2>1, <2>2, <1>1, <1>3 DEF SendLocalState, SendsAndRemembers, StateTypeOK
<1>4. CASE ToggleCutscene
  <2>1. suspended' \in BOOLEAN
    BY <1>1, <1>4 DEF ToggleCutscene, StateTypeOK
  <2>2. Append(up, CutsceneFrame(suspended')) \in Seq(UpFrame)
    <3>1. CutsceneFrame(suspended') \in UpFrame
      BY <2>1 DEF CutsceneFrame, UpFrame
    <3> QED BY <3>1, <1>1, AppendProperties DEF StateTypeOK
  <2> QED BY <2>1, <2>2, <1>1, <1>4 DEF ToggleCutscene, StateTypeOK
<1>5. CASE Enter
  <2>1. PlayerJoin(NewPlayerState) \in DownFrame
    BY NewPlayerType DEF PlayerJoin, DownFrame
  <2>2. down' \in [Watchers -> Seq(DownFrame)]
    BY <2>1, <1>1, <1>5, BroadcastTyped DEF Enter
  <2> QED BY <2>2, <1>1, <1>5, NewPlayerType DEF Enter, StateTypeOK
<1>6. CASE LeaveSession \/ DropConnection
  <2>1. Gone
    BY <1>6 DEF LeaveSession, DropConnection
  <2>2. down' \in [Watchers -> Seq(DownFrame)]
    <3>1. PlayerLeave \in DownFrame
      BY DEF PlayerLeave, DownFrame
    <3> QED BY <3>1, <2>1, <1>1, BroadcastTyped DEF Gone
  <2>3. up' \in Seq(UpFrame) /\ cur' = Absent /\ last' = Absent
    BY <2>1, EmptySeq DEF Gone, ForgetsPlayer
  <2>4. /\ drops' \in 0..MaxDrops
        /\ session' \in {"out", "dropped"}
        /\ lastHealth' \in {NoHealth, lastHealth}
    BY <1>1, <1>6, RangeAssumption DEF LeaveSession, DropConnection, Clear, StateTypeOK
  <2> QED BY <2>1, <2>2, <2>3, <2>4, <1>1 DEF Gone, StateTypeOK
<1>7. CASE OnStateUpdate
  <2>1. up' \in Seq(UpFrame) /\ cur' \in PlayerState /\ cur' # Absent
    BY <1>1, <1>7, HandledType, HandledState DEF OnStateUpdate
  <2> QED BY <2>1, <1>1, <1>7 DEF OnStateUpdate, StateTypeOK
<1>8. CASE OnCutscene
  <2>1. /\ up' \in Seq(UpFrame) /\ cur' \in PlayerState /\ cur' # Absent
        /\ Head(up).active \in BOOLEAN
    BY <1>1, <1>8, HandledType, HandledState DEF OnCutscene
  <2>2. CutsceneFrame(Head(up).active) \in DownFrame
    BY <2>1 DEF CutsceneFrame, DownFrame
  <2>3. down' \in [Watchers -> Seq(DownFrame)]
    BY <2>2, <1>1, <1>8, BroadcastTyped DEF OnCutscene
  <2> QED BY <2>1, <2>3, <1>1, <1>8 DEF OnCutscene, StateTypeOK
<1>9. CASE Tick
  <2>1. cur \in PlayerState /\ last' = cur
    BY <1>1, <1>9 DEF Tick, BroadcastsAndRemembers, StateTypeOK
  <2>2. StateUpdate(cur) \in DownFrame
    BY <2>1 DEF StateUpdate, DownFrame
  <2>3. down' \in [Watchers -> Seq(DownFrame)]
    BY <2>2, <1>1, <1>9, BroadcastTyped DEF Tick, BroadcastsAndRemembers
  <2> QED BY <2>1, <2>3, <1>1, <1>9 DEF Tick, StateTypeOK
<1>10. ASSUME NEW w \in Watchers, WatcherEnters(w) PROVE StateTypeOK'
  <2>1. JoinAck(Snapshot) \in DownFrame
    BY <1>1 DEF StateTypeOK, JoinAck, Snapshot, DownFrame
  <2>2. <<JoinAck(Snapshot)>> \in Seq(DownFrame)
    BY <2>1
  <2> QED BY <2>2, <1>1, <1>10 DEF WatcherEnters, StateTypeOK
<1>11. ASSUME NEW w \in Watchers, WatcherLeaves(w) \/ WatcherDrops(w) PROVE StateTypeOK'
  <2>1. <<>> \in Seq(DownFrame)
    BY EmptySeq
  <2>2. members' \subseteq Watchers /\ told' \in [Watchers -> BOOLEAN]
    BY <1>1, <1>11 DEF WatcherLeaves, WatcherDrops, GoesOut, StateTypeOK
  <2>3. down' \in [Watchers -> Seq(DownFrame)]
    BY <2>1, <1>1, <1>11 DEF WatcherLeaves, WatcherDrops, StateTypeOK
  <2>4. view' \in [Watchers -> PlayerState \cup {Absent}]
    BY <1>1, <1>11 DEF WatcherLeaves, WatcherDrops, StateTypeOK
  <2> QED BY <2>2, <2>3, <2>4, <1>1, <1>11 DEF WatcherLeaves, WatcherDrops, StateTypeOK
<1>12. ASSUME NEW w \in Watchers, Receive(w) \/ LateFrame(w) PROVE StateTypeOK'
  <2> USE DEF Receive, LateFrame, Applies
  <2>1. Head(down[w]) \in DownFrame /\ Tail(down[w]) \in Seq(DownFrame)
    BY <1>1, <1>12, HeadTailProperties DEF StateTypeOK
  <2>2. <<view[w], told[w]>> \in Knowledge
    BY <1>1 DEF StateTypeOK, Knowledge
  <2>3. Learns(<<view[w], told[w]>>, Head(down[w])) \in Knowledge
    BY <2>1, <2>2, LearnsType
  <2>4. /\ After(view[w], Head(down[w])) \in PlayerState \cup {Absent}
        /\ ToldAfter(told[w], Head(down[w])) \in BOOLEAN
    BY <2>3 DEF Learns, Knowledge
  <2>5. told' \in [Watchers -> BOOLEAN]
    BY <2>4, <1>1, <1>12 DEF StateTypeOK
  <2>6. view' \in [Watchers -> PlayerState \cup {Absent}]
    BY <2>4, <1>1, <1>12 DEF StateTypeOK
  <2>7. down' \in [Watchers -> Seq(DownFrame)]
    BY <2>1, <1>1, <1>12 DEF StateTypeOK
  <2> QED BY <2>5, <2>6, <2>7, <1>1, <1>12 DEF StateTypeOK
<1> QED BY <1>2, <1>3, <1>4, <1>5, <1>6, <1>7, <1>8, <1>9, <1>10, <1>11, <1>12
        DEF StateNext, Server, SInv

-------------------------------------------------------------------------------
(***************************************************************************)
(* The watchers over a step.                                               *)
(***************************************************************************)

\* Nothing is sent to anyone, and what is up to date stays so.
LEMMA QuietStep ==
    ASSUME SInv, UNCHANGED <<members, view, told, down>>,
           \A k \in Knowledge : UpToDate(k) => UpToDate(k)',
           NEW w \in Watchers
    PROVE  WatcherOK(w)'
<1>1. WatcherOK(w)
  BY DEF SInv
<1>2. CASE w \in members
  <2>1. PICK k \in Knowledge : UpToDate(k) /\ Leads(down[w], <<view[w], told[w]>>, k)
    BY <1>1, <1>2 DEF WatcherOK
  <2>2. Leads(down'[w], <<view'[w], told'[w]>>, k)
    BY <2>1
  <2>3. UpToDate(k)'
    BY <2>1
  <2>4. w \in members'
    BY <1>2
  <2> QED BY <2>2, <2>3, <2>4 DEF WatcherOK
<1>3. CASE w \notin members
  BY <1>1, <1>3 DEF WatcherOK
<1> QED BY <1>2, <1>3

\* A frame goes to every member, and whoever was up to date is so with it.
LEMMA BroadcastStep ==
    ASSUME SInv, NEW m \in DownFrame, Broadcast(m), UNCHANGED <<members, view, told>>,
           \A k \in Knowledge : UpToDate(k) => UpToDate(Learns(k, m))',
           NEW w \in Watchers
    PROVE  WatcherOK(w)'
<1>1. WatcherOK(w) /\ down[w] \in Seq(DownFrame)
  BY DEF SInv, StateTypeOK
<1>2. CASE w \in members
  <2>1. PICK k \in Knowledge : UpToDate(k) /\ Leads(down[w], <<view[w], told[w]>>, k)
    BY <1>1, <1>2 DEF WatcherOK
  <2> DEFINE j == Learns(k, m)
  <2>2. j \in Knowledge
    BY LearnsType
  <2>3. Leads(Append(down[w], m), <<view[w], told[w]>>, j)
    BY <1>1, <2>1, <2>2, LongerPath
  <2>4. down'[w] = Append(down[w], m)
    BY <1>2 DEF Broadcast
  <2>5. Leads(down'[w], <<view'[w], told'[w]>>, j)
    BY <2>3, <2>4
  <2>6. UpToDate(j)'
    BY <2>1
  <2> HIDE DEF j
  <2>7. w \in members'
    BY <1>2
  <2> QED BY <2>2, <2>5, <2>6, <2>7 DEF WatcherOK
<1>3. CASE w \notin members
  BY <1>1, <1>3 DEF WatcherOK, Broadcast
<1> QED BY <1>2, <1>3

\* Every step keeps what the invariant says of a watcher.
LEMMA WatchersStep ==
    ASSUME SInv, StateNext, NEW w \in Watchers
    PROVE  WatcherOK(w)'
<1>1. StateTypeOK /\ SessionAgrees /\ WatcherOK(w)
  BY DEF SInv
<1> USE DEF clientVars, serverVars, watcherVars
<1>2. CASE Play \/ SendLocalState \/ ToggleCutscene
  <2>1. UNCHANGED <<members, view, told, down, cur, last>>
    BY <1>2 DEF Play, SendLocalState, ToggleCutscene
  <2>2. \A k \in Knowledge : UpToDate(k) => UpToDate(k)'
    BY <2>1 DEF UpToDate
  <2> QED BY <2>1, <2>2, QuietStep
<1>3. CASE Enter
  <2> DEFINE m == PlayerJoin(NewPlayerState)
  <2>1. m \in DownFrame
    BY NewPlayerType DEF PlayerJoin, DownFrame
  <2>2. /\ cur' = NewPlayerState /\ last' = last
        /\ Broadcast(m) /\ UNCHANGED <<members, view, told>>
    BY <1>3 DEF Enter
  <2>3. ASSUME NEW k PROVE UpToDate(Learns(k, m))'
    <3>1. Learns(k, m) = <<NewPlayerState, FALSE>>
      BY DEF Learns, After, ToldAfter, PlayerJoin
    <3>2. UpToDate(<<NewPlayerState, FALSE>>)'
      BY <2>2, NewPlayerType DEF UpToDate
    <3> QED BY <3>1, <3>2
  <2> QED BY <2>1, <2>2, <2>3, BroadcastStep
<1>4. CASE LeaveSession \/ DropConnection
  <2>1. /\ cur' = Absent /\ last' = Absent
        /\ Broadcast(PlayerLeave) /\ UNCHANGED <<members, view, told>>
    BY <1>4 DEF LeaveSession, DropConnection, Gone, ForgetsPlayer
  <2>2. PlayerLeave \in DownFrame
    BY DEF PlayerLeave, DownFrame
  <2>3. ASSUME NEW k PROVE UpToDate(Learns(k, PlayerLeave))'
    <3>1. Learns(k, PlayerLeave) = <<Absent, FALSE>>
      BY DEF Learns, After, ToldAfter, PlayerLeave
    <3>2. UpToDate(<<Absent, FALSE>>)'
      BY <2>1 DEF UpToDate
    <3> QED BY <3>1, <3>2
  <2> QED BY <2>1, <2>2, <2>3, BroadcastStep
<1>5. CASE OnStateUpdate
  <2>1. /\ UNCHANGED <<members, view, told, down, last>>
        /\ cur # Absent
    BY <1>1, <1>5, HandledType DEF OnStateUpdate
  <2>2. cur'.cutscene = cur.cutscene /\ cur' # Absent
    BY <1>1, <1>5, HandledState
  <2>3. \A k \in Knowledge : UpToDate(k) => UpToDate(k)'
    BY <2>1, <2>2 DEF UpToDate
  <2> QED BY <2>1, <2>3, QuietStep
<1>6. CASE OnCutscene
  <2> PICK on : on = Head(up).active
    OBVIOUS
  <2> DEFINE m == CutsceneFrame(on)
  <2>1. /\ cur \in PlayerState /\ cur # Absent
        /\ Broadcast(m) /\ UNCHANGED <<members, view, told, last>>
    BY <1>1, <1>6, HandledType DEF OnCutscene
  <2>2. on \in BOOLEAN
    BY <1>1, <1>6, HandledState
  <2>3. cur' # Absent /\ cur'.cutscene = on
    BY <1>1, <1>6, HandledState
  <2>4. m \in DownFrame
    BY <2>2 DEF CutsceneFrame, DownFrame
  <2>5. ASSUME NEW k \in Knowledge, UpToDate(k) PROVE UpToDate(Learns(k, m))'
    <3> DEFINE v == [k[1] EXCEPT !.cutscene = on]
    <3>1. k[1] \in PlayerState /\ k[1] # Absent
      BY <2>1, <2>5 DEF UpToDate, Knowledge
    <3>2. Learns(k, m) = <<v, k[2]>>
      BY <3>1, <2>5 DEF Learns, After, ToldAfter, CutsceneFrame, Knowledge
    <3>3. v \in PlayerState /\ v.cutscene = on
      BY <2>2, <3>1 DEF PlayerState
    <3>4. v # Absent
      BY <3>3, AbsentAssumption
    <3>5. k[2] => last # Absent /\ v = [last EXCEPT !.cutscene = on]
      <4>1. k[2] => last \in PlayerState /\ last # Absent
                    /\ k[1] = [last EXCEPT !.cutscene = cur.cutscene]
        BY <2>5, <1>1 DEF UpToDate, StateTypeOK
      <4>2. last \in PlayerState =>
               [[last EXCEPT !.cutscene = cur.cutscene] EXCEPT !.cutscene = on]
                  = [last EXCEPT !.cutscene = on]
        BY DEF PlayerState
      <4> QED BY <4>1, <4>2
    <3> HIDE DEF v
    <3>6. UpToDate(<<v, k[2]>>)'
      BY <3>3, <3>4, <3>5, <2>1, <2>3 DEF UpToDate
    <3> QED BY <3>2, <3>6
  <2> HIDE DEF m
  <2> QED BY <2>1, <2>4, <2>5, BroadcastStep
<1>7. CASE Tick
  <2> PICK s : s = cur
    OBVIOUS
  <2> DEFINE m == StateUpdate(s)
  <2>1. /\ s # Absent /\ s \in PlayerState /\ cur' = s /\ last' = s
        /\ Broadcast(m) /\ UNCHANGED <<members, view, told>>
    BY <1>1, <1>7 DEF Tick, BroadcastsAndRemembers, StateTypeOK
  <2>2. m \in DownFrame
    BY <2>1 DEF StateUpdate, DownFrame
  <2>3. ASSUME NEW k PROVE UpToDate(Learns(k, m))'
    <3>1. Learns(k, m) = <<s, TRUE>>
      BY DEF Learns, After, ToldAfter, StateUpdate
    <3>2. s = [s EXCEPT !.cutscene = s.cutscene]
      BY <2>1 DEF PlayerState
    <3>3. UpToDate(<<s, TRUE>>)'
      BY <2>1, <3>2 DEF UpToDate
    <3> QED BY <3>1, <3>3
  <2> QED BY <2>1, <2>2, <2>3, BroadcastStep
<1>8. ASSUME NEW x \in Watchers, x # w,
             \/ WatcherEnters(x) \/ WatcherLeaves(x) \/ WatcherDrops(x)
             \/ Receive(x) \/ LateFrame(x)
      PROVE  WatcherOK(w)'
  <2>1. /\ UNCHANGED <<cur, last>>
        /\ w \in members' <=> w \in members
        /\ down'[w] = down[w] /\ view'[w] = view[w] /\ told'[w] = told[w]
    BY <1>1, <1>8 DEF WatcherEnters, WatcherLeaves, WatcherDrops, GoesOut,
                      Receive, LateFrame, Applies, StateTypeOK
  <2> QED BY <2>1, <1>1 DEF WatcherOK, UpToDate
<1>9. CASE WatcherEnters(w)
  <2> PICK s : s = cur
    OBVIOUS
  <2> PICK v : v = view[w]
    OBVIOUS
  <2> DEFINE m == JoinAck(s)
             k == <<IF s = Absent THEN v ELSE s, FALSE>>
             from == <<v, FALSE>>
  <2>1. /\ w \in members' /\ down'[w] = <<m>>
        /\ view'[w] = v /\ told'[w] = FALSE
        /\ UNCHANGED <<cur, last>>
    BY <1>1, <1>9 DEF WatcherEnters, WatcherOK, Snapshot, StateTypeOK
  <2>2. m \in DownFrame /\ from \in Knowledge /\ k \in Knowledge
    BY <1>1 DEF StateTypeOK, JoinAck, DownFrame, Knowledge
  <2>3. Learns(from, m) = k
    BY DEF Learns, After, ToldAfter, JoinAck
  <2>4. Leads(Append(<<>>, m), from, k)
    <3>1. <<>> \in Seq(DownFrame) /\ Leads(<<>>, from, from)
      BY <2>2, EmptySeq, EmptyPath
    <3> HIDE DEF m, k, from
    <3> QED BY <2>2, <2>3, <3>1, LongerPath
  <2>5. Append(<<>>, m) = <<m>>
    OBVIOUS
  <2>6. UpToDate(k)'
    BY <2>1 DEF UpToDate
  <2>7. Leads(down'[w], <<view'[w], told'[w]>>, k)
    BY <2>1, <2>4, <2>5
  <2> HIDE DEF m, k, from
  <2> QED BY <2>1, <2>2, <2>6, <2>7 DEF WatcherOK
<1>10. CASE WatcherLeaves(w) \/ WatcherDrops(w) \/ LateFrame(w)
  <2>1. w \notin members' /\ ~told'[w]
    BY <1>1, <1>10 DEF WatcherLeaves, WatcherDrops, GoesOut, LateFrame, Applies,
                       WatcherOK, StateTypeOK
  <2> QED BY <2>1 DEF WatcherOK
<1>11. CASE Receive(w)
  <2> DEFINE h == Head(down[w])
  <2>1. /\ w \in members /\ down[w] # <<>> /\ down[w] \in Seq(DownFrame)
        /\ down'[w] = Tail(down[w])
        /\ view'[w] = After(view[w], h) /\ told'[w] = ToldAfter(told[w], h)
        /\ UNCHANGED <<cur, last, members>>
    BY <1>1, <1>11 DEF Receive, Applies, StateTypeOK
  <2>2. PICK k \in Knowledge : UpToDate(k) /\ Leads(down[w], <<view[w], told[w]>>, k)
    BY <1>1, <2>1 DEF WatcherOK
  <2>3. Leads(Tail(down[w]), Learns(<<view[w], told[w]>>, h), k)
    BY <2>1, <2>2, ShorterPath
  <2>4. Learns(<<view[w], told[w]>>, h) = <<view'[w], told'[w]>>
    BY <2>1 DEF Learns
  <2>5. Leads(down'[w], <<view'[w], told'[w]>>, k)
    BY <2>1, <2>3, <2>4
  <2>6. UpToDate(k)'
    BY <2>1, <2>2 DEF UpToDate
  <2> QED BY <2>1, <2>5, <2>6 DEF WatcherOK
<1> QED BY <1>2, <1>3, <1>4, <1>5, <1>6, <1>7, <1>8, <1>9, <1>10, <1>11
        DEF StateNext, Server

-------------------------------------------------------------------------------
(***************************************************************************)
(* The client and the server over a step.                                  *)
(***************************************************************************)
LEMMA SessionStep ==
    ASSUME SInv, StateNext
    PROVE  SessionAgrees'
<1>1. StateTypeOK /\ SessionAgrees
  BY DEF SInv
<1> USE DEF clientVars, serverVars, watcherVars
<1>2. CASE SendLocalState \/ ToggleCutscene
  <2>1. /\ UNCHANGED <<cur, session>>
        /\ up' # up => session = "in"
    BY <1>2 DEF SendLocalState, SendsAndRemembers, ToggleCutscene
  <2> QED BY <2>1, <1>1 DEF SessionAgrees
<1>3. CASE OnStateUpdate \/ OnCutscene
  BY <1>1, <1>3, HandledType, HandledState DEF OnStateUpdate, OnCutscene, SessionAgrees
<1>4. CASE Enter
  BY <1>1, <1>4, NewPlayerType DEF Enter, SessionAgrees
<1>5. CASE LeaveSession \/ DropConnection
  BY <1>5 DEF LeaveSession, DropConnection, Gone, ForgetsPlayer, SessionAgrees
<1>6. ASSUME UNCHANGED <<cur, session, up>> PROVE SessionAgrees'
  BY <1>1, <1>6 DEF SessionAgrees
<1>7. CASE \/ Play
           \/ Tick
           \/ \E w \in Watchers :
                 \/ WatcherEnters(w) \/ WatcherLeaves(w) \/ WatcherDrops(w)
                 \/ Receive(w) \/ LateFrame(w)
  BY <1>6, <1>7 DEF Play, Tick, WatcherEnters, WatcherLeaves, WatcherDrops,
                    Receive, LateFrame, Applies
<1> QED BY <1>2, <1>3, <1>4, <1>5, <1>7 DEF StateNext, Server

\* What was sent last, over a frame sent.
LEMMA UpSent ==
    ASSUME up \in Seq(UpFrame), NEW m \in UpFrame, up' = Append(up, m)
    PROVE  LET n == Len(up) + 1 IN
           /\ DOMAIN up' = DOMAIN up \cup {n} /\ n # 0 /\ n \notin DOMAIN up
           /\ up'[n] = m /\ \A i \in DOMAIN up : up'[i] = up[i]
           /\ \A i \in DOMAIN up \cup {0} :
                 NoUpdateBehind(i)' <=> NoUpdateBehind(i) /\ m.t # "STATE_UPDATE"
<1> DEFINE n == Len(up) + 1
<1>1. /\ DOMAIN up = 1..Len(up) /\ Len(up) \in Nat /\ DOMAIN up' = 1..n
      /\ up'[n] = m /\ \A i \in 1..Len(up) : up'[i] = up[i]
  BY AppendProperties, LenProperties
<1>2. /\ DOMAIN up' = DOMAIN up \cup {n} /\ n # 0 /\ n \notin DOMAIN up
      /\ \A i \in DOMAIN up \cup {0} : i < n
  BY <1>1
<1> HIDE DEF n
<1>3. \A i \in DOMAIN up \cup {0} :
          NoUpdateBehind(i)' <=> NoUpdateBehind(i) /\ m.t # "STATE_UPDATE"
  BY <1>1, <1>2 DEF NoUpdateBehind
<1> QED BY <1>1, <1>2, <1>3 DEF n

\* ... and over a frame handled.
LEMMA UpHandled ==
    ASSUME up \in Seq(UpFrame), up # <<>>, up' = Tail(up)
    PROVE  /\ 1 \in DOMAIN up /\ up[1] = Head(up)
           /\ \A i \in DOMAIN up' : i + 1 \in DOMAIN up /\ up'[i] = up[i + 1]
           /\ \A i \in DOMAIN up' \cup {0} : NoUpdateBehind(i)' => NoUpdateBehind(i + 1)
           /\ NoUpdateBehind(1) /\ up[1].t # "STATE_UPDATE" => NoUpdateBehind(0)
<1>1. /\ DOMAIN up = 1..Len(up) /\ Len(up) \in Nat \ {0} /\ DOMAIN up' = 1..(Len(up) - 1)
      /\ up[1] = Head(up)
      /\ \A i \in 1..(Len(up) - 1) : up'[i] = up[i + 1]
  BY HeadTailProperties, LenProperties, EmptySeq
<1>2. 1 \in DOMAIN up /\ \A i \in DOMAIN up' : i + 1 \in DOMAIN up
  BY <1>1
<1>3. ASSUME NEW i \in DOMAIN up' \cup {0}, NoUpdateBehind(i)' PROVE NoUpdateBehind(i + 1)
  <2> SUFFICES ASSUME NEW j \in DOMAIN up, i + 1 < j PROVE up[j].t # "STATE_UPDATE"
    BY DEF NoUpdateBehind
  <2>1. j - 1 \in DOMAIN up' /\ i < j - 1 /\ (j - 1) + 1 = j
    BY <1>1
  <2> QED BY <2>1, <1>1, <1>3 DEF NoUpdateBehind
<1>4. NoUpdateBehind(1) /\ up[1].t # "STATE_UPDATE" => NoUpdateBehind(0)
  BY <1>1 DEF NoUpdateBehind
<1> QED BY <1>1, <1>2, <1>3, <1>4

\* Every step keeps what the client remembers as sent in line with what the server has.
LEMMA SentStep ==
    ASSUME SInv, StateNext
    PROVE  SentIsRemembered'
<1>1. /\ StateTypeOK /\ SessionAgrees /\ SentIsRemembered
      /\ up \in Seq(UpFrame) /\ drops \in Nat
  BY DEF SInv, StateTypeOK
<1> USE DEF clientVars, serverVars, watcherVars
<1>2. CASE SendLocalState
  <2>1. /\ UNCHANGED <<session, drops, cur, lastHealth>> \/ session = "in" \/ drops # 0
        /\ UNCHANGED <<session, drops, cur>> /\ session # "out"
        /\ lastPos' = mem.pos /\ lastHealth' = mem.health
        /\ up' = IF session = "in" THEN Append(up, StateUpdate(mem)) ELSE up
    BY <1>1, <1>2 DEF SendLocalState, SendsAndRemembers, SentIsRemembered, StateTypeOK
  <2>2. CASE drops # 0
    BY <2>1, <2>2 DEF SentIsRemembered
  <2>3. CASE drops = 0
    <3> DEFINE m == StateUpdate(mem)
    <3>1. session = "in" /\ up' = Append(up, m)
      BY <2>1, <2>3, <1>1 DEF SentIsRemembered, StateTypeOK
    <3>2. m \in UpFrame /\ m.t = "STATE_UPDATE" /\ m.state = mem
      BY <1>1 DEF StateTypeOK, StateUpdate, UpFrame
    <3> HIDE DEF m
    <3> DEFINE n == Len(up) + 1
    <3>3. /\ DOMAIN up' = DOMAIN up \cup {n} /\ up'[n] = m
          /\ \A i \in DOMAIN up \cup {0} : ~NoUpdateBehind(i)'
      BY <1>1, <3>1, <3>2, UpSent
    <3> HIDE DEF n
    <3> QED BY <2>1, <3>1, <3>2, <3>3 DEF SentIsRemembered, AsSent
  <2> QED BY <2>2, <2>3
<1>3. CASE ToggleCutscene
  <2>1. /\ UNCHANGED <<session, drops, cur, lastPos, lastHealth>>
        /\ up' = IF session = "in" THEN Append(up, CutsceneFrame(suspended')) ELSE up
    BY <1>3 DEF ToggleCutscene
  <2>2. CASE session # "in"
    BY <2>1, <2>2, <1>1 DEF SentIsRemembered
  <2>3. CASE session = "in"
    <3> PICK on : on = suspended'
      OBVIOUS
    <3> DEFINE m == CutsceneFrame(on)
    <3>1. m \in UpFrame /\ m.t = "CUTSCENE"
      BY <1>1, <1>3 DEF ToggleCutscene, StateTypeOK, CutsceneFrame, UpFrame
    <3>2. up' = Append(up, m)
      BY <2>1, <2>3
    <3> HIDE DEF m
    <3> DEFINE n == Len(up) + 1
    <3>3. /\ DOMAIN up' = DOMAIN up \cup {n} /\ up'[n] = m
          /\ \A i \in DOMAIN up : up'[i] = up[i]
          /\ \A i \in DOMAIN up \cup {0} : NoUpdateBehind(i)' => NoUpdateBehind(i)
      BY <1>1, <3>1, <3>2, UpSent
    <3> HIDE DEF n
    <3> QED BY <2>1, <2>3, <3>1, <3>3, <1>1 DEF SentIsRemembered, AsSent
  <2> QED BY <2>2, <2>3
<1>4. CASE Enter
  <2>1. up = <<>> /\ DOMAIN up = {}
    BY <1>1, <1>4, EmptySeq DEF Enter, SessionAgrees
  <2>2. drops = 0 => lastHealth = NoHealth
    BY <1>1, <1>4 DEF Enter, SentIsRemembered, StateTypeOK
  <2> QED BY <2>1, <2>2, <1>4 DEF Enter, SentIsRemembered
<1>5. CASE LeaveSession
  BY <1>1, <1>5 DEF LeaveSession, Clear, SentIsRemembered
<1>6. CASE DropConnection
  BY <1>1, <1>6 DEF DropConnection, SentIsRemembered
<1>7. CASE OnStateUpdate \/ OnCutscene
  <2>1. /\ UNCHANGED <<session, drops, lastPos, lastHealth>>
        /\ up # <<>> /\ up' = Tail(up)
    BY <1>7 DEF OnStateUpdate, OnCutscene, Handles
  <2>2. /\ 1 \in DOMAIN up /\ up[1] = Head(up)
        /\ \A i \in DOMAIN up' : i + 1 \in DOMAIN up /\ up'[i] = up[i + 1]
        /\ \A i \in DOMAIN up' \cup {0} : NoUpdateBehind(i)' => NoUpdateBehind(i + 1)
        /\ NoUpdateBehind(1) /\ up[1].t # "STATE_UPDATE" => NoUpdateBehind(0)
    BY <2>1, <1>1, UpHandled
  <2> SUFFICES ASSUME drops = 0, session = "in"
               PROVE  /\ \A i \in DOMAIN up' :
                             up'[i].t = "STATE_UPDATE" /\ NoUpdateBehind(i)' =>
                                AsSent(up[i].state)'
                      /\ NoUpdateBehind(0)' => lastHealth = NoHealth \/ AsSent(cur)'
    BY <2>1, <1>1 DEF SentIsRemembered
  <2>3. ASSUME NEW i \in DOMAIN up', up'[i].t = "STATE_UPDATE", NoUpdateBehind(i)'
        PROVE  AsSent(up[i].state)'
    BY <2>1, <2>2, <2>3, <1>1 DEF SentIsRemembered, AsSent
  <2>4. ASSUME NoUpdateBehind(0)' PROVE lastHealth = NoHealth \/ AsSent(cur)'
    <3>1. NoUpdateBehind(1)
      <4>1. NoUpdateBehind(0 + 1)
        BY <2>2, <2>4
      <4> QED BY <4>1
    <3>2. CASE OnStateUpdate
      <4>1. AsSent(up[1].state)
        BY <3>1, <3>2, <2>2, <1>1, HandledState DEF SentIsRemembered
      <4> QED BY <4>1, <3>2, <2>1, <2>2, <1>1, HandledState DEF AsSent
    <3>3. CASE OnCutscene
      <4>1. NoUpdateBehind(0)
        BY <3>1, <3>3, <2>2, <1>1, HandledState
      <4> QED BY <4>1, <3>3, <2>1, <1>1, HandledState DEF SentIsRemembered, AsSent
    <3> QED BY <1>7, <3>2, <3>3
  <2> QED BY <2>3, <2>4
<1>8. ASSUME UNCHANGED <<session, drops, up, cur, lastPos, lastHealth>>
      PROVE  SentIsRemembered'
  BY <1>1, <1>8 DEF SentIsRemembered, NoUpdateBehind, AsSent
<1>9. CASE \/ Play
           \/ Tick
           \/ \E w \in Watchers :
                 \/ WatcherEnters(w) \/ WatcherLeaves(w) \/ WatcherDrops(w)
                 \/ Receive(w) \/ LateFrame(w)
  BY <1>8, <1>9 DEF Play, Tick, WatcherEnters, WatcherLeaves, WatcherDrops,
                    Receive, LateFrame, Applies
<1> QED BY <1>2, <1>3, <1>4, <1>5, <1>6, <1>7, <1>9 DEF StateNext, Server

-------------------------------------------------------------------------------
(***************************************************************************)
(* The theorems.                                                           *)
(***************************************************************************)
LEMMA StateNextSInv == SInv /\ [StateNext]_vars => SInv'
<1> SUFFICES ASSUME SInv, [StateNext]_vars PROVE SInv'
  OBVIOUS
<1>1. CASE StateNext
  BY <1>1, StateTypeStep, SessionStep, SentStep, WatchersStep DEF SInv
<1>2. CASE UNCHANGED vars
  <2> USE <1>2 DEF vars, clientVars, serverVars, watcherVars
  <2>1. StateTypeOK' /\ SessionAgrees'
    BY DEF SInv, StateTypeOK, SessionAgrees
  <2>2. SentIsRemembered'
    BY DEF SInv, SentIsRemembered, NoUpdateBehind, AsSent
  <2>3. \A w \in Watchers : WatcherOK(w)'
    BY DEF SInv, WatcherOK, UpToDate
  <2> QED BY <2>1, <2>2, <2>3 DEF SInv
<1> QED BY <1>1, <1>2

\* Every reachable state satisfies the inductive invariant.
THEOREM StateInvariance == StateSpec => []SInv
<1>1. StateInit => SInv
  BY StateInitSInv
<1>2. SInv /\ [StateNext]_vars => SInv'
  BY StateNextSInv
<1> QED BY <1>1, <1>2, PTL DEF StateSpec

\* Client, server and watchers keep their types, frames included.
THEOREM StateTypeCorrect == StateSpec => []StateTypeOK
BY StateInvariance, PTL DEF SInv

\* A watcher with nothing left to handle knows what it ought to know.
LEMMA DrainedIsUpToDate ==
    ASSUME SInv, NEW w \in Watchers, Drained(w)
    PROVE  UpToDate(<<view[w], told[w]>>)
<1>1. PICK k \in Knowledge : UpToDate(k) /\ Leads(<<>>, <<view[w], told[w]>>, k)
  BY DEF SInv, WatcherOK, Drained
<1>2. <<view[w], told[w]>> \in Knowledge
  BY DEF SInv, StateTypeOK, Knowledge
<1>3. k = <<view[w], told[w]>>
  BY <1>1, <1>2, EmptyPath
<1> QED BY <1>1, <1>3

\* The server's diff is against what the watchers have.
THEOREM FollowersFollow == StateSpec => []FollowersHaveTheLast
<1>1. SInv => FollowersHaveTheLast
  BY DrainedIsUpToDate DEF FollowersHaveTheLast, UpToDate
<1> QED BY <1>1, StateInvariance, PTL

\* Whoever is in the room is shown, and in a cutscene just when it is in one,
\* by every watcher that is caught up, whatever its table held from before.
THEOREM CutscenesShown == StateSpec => []CutsceneIsShown
<1>1. SInv => CutsceneIsShown
  BY DrainedIsUpToDate DEF CutsceneIsShown, UpToDate
<1> QED BY <1>1, StateInvariance, PTL

\* Two thresholds, one at the client and one at the server, add up and no
\* more: nothing drifts further over any number of small steps.
THEOREM SettledViewClose == StateSpec => []SettledViewIsClose
<1>1. SInv => SettledViewIsClose
  <2> SUFFICES ASSUME SInv, Settled, drops = 0, NEW w \in Watchers, Drained(w), told[w]
               PROVE  Shows(w)
    BY DEF SettledViewIsClose
  <2>1. /\ StateTypeOK /\ SentIsRemembered /\ session = "in" /\ up = <<>>
        /\ ~HasNews /\ ~TickDue /\ cur \in PlayerState /\ cur # Absent
    BY DEF SInv, Settled, SessionAgrees, StateTypeOK
  <2>2. last # Absent /\ view[w] = [last EXCEPT !.cutscene = cur.cutscene]
    BY DrainedIsUpToDate DEF UpToDate
  <2>3. last \in PlayerState
    BY <2>1, <2>2 DEF StateTypeOK
  <2>4. view[w] \in PlayerState /\ view[w].pos = last.pos /\ view[w].health = last.health
    BY <2>1, <2>2, <2>3 DEF PlayerState
  <2>5. ~Far(last.pos, cur.pos, TickEps) /\ last.health = cur.health
    BY <2>1, <2>2 DEF TickDue, playerChanged
  <2>6. /\ mem.pos \in Int /\ mem.health \in 0..MaxHealth
        /\ last.pos \in Int /\ last.health \in Int /\ cur.pos \in Int
        /\ SendEps \in Int /\ TickEps \in Int /\ HealthEps \in Nat
    BY <2>1, <2>3, EpsAssumption, RangeAssumption DEF StateTypeOK, Avatar, PlayerState
  <2>7. ~Far(mem.pos, lastPos, SendEps) /\ ~Far(mem.health, lastHealth, HealthEps)
    BY <2>1 DEF HasNews
  <2>8. lastHealth # NoHealth
    BY <2>6, <2>7, RangeAssumption DEF Far, NoHealth
  <2>9. cur.pos = lastPos /\ cur.health = lastHealth
    <3>1. NoUpdateBehind(0)
      BY <2>1, EmptySeq DEF NoUpdateBehind
    <3> QED BY <3>1, <2>1, <2>8 DEF SentIsRemembered, AsSent
  <2>10. ~Far(view[w].pos, mem.pos, SendEps + TickEps)
    BY <2>4, <2>5, <2>6, <2>7, <2>9 DEF Far
  <2>11. ~Far(view[w].health, mem.health, HealthEps)
    BY <2>4, <2>5, <2>6, <2>7, <2>9 DEF Far
  <2>12. view[w] # Absent
    BY <2>4, AbsentAssumption
  <2> QED BY <2>10, <2>11, <2>12 DEF Shows
<1> QED BY <1>1, StateInvariance, PTL
===============================================================================
