---------------------------- MODULE SessionProofs ----------------------------
(***************************************************************************)
(* The safety of Session for any requests, any bound on passes, timers and *)
(* completions: its types and the invariants that MCSession checks.        *)
(***************************************************************************)
EXTENDS Session, TLAPS

\* A collapse that ends finds room for the layout pass it queues.
RoomForPass == state # "idle" => passes < MaxPasses

\* The unlock observer stands for a session: if it is set and none is left, then the
\* coordinator was not told of the disconnect.
ObserverHasSession == observer # "none" /\ ~missed => Connected

IInv ==
  /\ TypeOK /\ RoomForPass /\ ObserverHasSession
  /\ CompletionsHavePass /\ ExternalKeepsCollapse /\ NoForgottenCollapse

-----------------------------------------------------------------------------
(* What the coordinator's entry points do                                  *)

\* What the invariant says of the coordinator's own state.
LEMMA LifecycleTypes ==
  IInv => /\ state \in States /\ cooling \in BOOLEAN /\ inFlight \in BOOLEAN
          /\ passes \in 0..MaxPasses /\ MaxPasses \in Nat \ {0}
BY MaxPassesAssumption DEF IInv, TypeOK, LifecycleTypeOK

\* collapse(): the coordinator is idle afterwards only if it has failed lately.
LEMMA CollapseCallOutcome ==
  ASSUME IInv, NEW who \in Callers, CollapseCall(who)
  PROVE  /\ LifecycleTypeOK' /\ RoomForPass' /\ pendingRestore' \in BOOLEAN
         /\ claims' \subseteq Callers
         /\ inFlight' = inFlight /\ passes' = passes
         /\ state' # "idle" => pendingRestore' = FALSE /\ who \in claims'
<1>1. claims \subseteq Callers /\ pendingRestore \in BOOLEAN /\ LifecycleTypeOK
  BY DEF IInv, TypeOK
<1>2. CASE state # "idle" /\ pendingRestore' = FALSE /\ claims' = claims \cup {who}
             /\ UNCHANGED lifecycleVars
  <2>1. pendingRestore' \in BOOLEAN
    BY <1>2
  <2>2. UNCHANGED <<state, cooling, inFlight, passes>>
    BY <1>2 DEF lifecycleVars
  <2>3. LifecycleTypeOK' /\ RoomForPass'
    BY <1>1, <2>2 DEF LifecycleTypeOK, RoomForPass, IInv
  <2>. QED BY <1>1, <1>2, <2>1, <2>2, <2>3
<1>3. CASE state = "idle" /\ UNCHANGED <<pendingRestore, claims, lifecycleVars>>
  <2>1. UNCHANGED <<state, cooling, inFlight, passes, pendingRestore, claims>>
    BY <1>3 DEF lifecycleVars
  <2>2. LifecycleTypeOK' /\ RoomForPass'
    BY <1>1, <2>1 DEF LifecycleTypeOK, RoomForPass, IInv
  <2>. QED BY <1>1, <1>3, <2>1, <2>2
<1>4. CASE Begin /\ pendingRestore' = FALSE /\ claims' = {who}
  <2>1. pendingRestore' \in BOOLEAN
    BY <1>4
  <2>2. state' = "collapsing" /\ UNCHANGED <<cooling, inFlight, passes>> /\ passes < MaxPasses
    BY <1>4 DEF Begin, MayBegin
  <2>3. LifecycleTypeOK' /\ RoomForPass'
    BY <1>1, <2>2 DEF LifecycleTypeOK, RoomForPass, States
  <2>. QED BY <1>1, <1>4, <2>1, <2>2, <2>3
<1>. QED BY <1>2, <1>3, <1>4 DEF CollapseCall

\* restore() of a collapse.
LEMMA EndCollapseOutcome ==
  ASSUME IInv, NEW cb \in Seq(Completions), EndCollapse(cb)
  PROVE  /\ LifecycleTypeOK' /\ state' = "idle" /\ pendingRestore' = FALSE
         /\ external' = FALSE /\ stream' = FALSE /\ claims' = {}
         /\ geometry' \in Geometries
         /\ completions' \in Seq(Completions) /\ Len(completions') <= MaxCompletions
         /\ inFlight' = TRUE /\ passes' > 0
<1>1. completions \in Seq(Completions) /\ geometry \in Geometries /\ Saved \in Geometries
  BY SessionAssumption DEF IInv, TypeOK
<1>2. /\ state # "idle" /\ state' = "idle" /\ inFlight' = TRUE /\ passes' = passes + 1
      /\ cooling' = cooling
  BY DEF EndCollapse, End
<1>3. passes' \in 1..MaxPasses
  BY <1>2, LifecycleTypes DEF IInv, RoomForPass
<1>4. LifecycleTypeOK' /\ passes' > 0
  <2>1. inFlight' \in BOOLEAN /\ cooling' \in BOOLEAN
    BY <1>2, LifecycleTypes
  <2>2. passes' \in 0..MaxPasses /\ passes' > 0
    BY <1>3, MaxPassesAssumption
  <2>. QED BY <1>2, <2>1, <2>2 DEF LifecycleTypeOK, States
<1>5. geometry' = [geometry EXCEPT !.preset = Saved.preset]
  BY DEF EndCollapse, BackToIdle
<1>6. geometry' \in Geometries
  BY <1>1, <1>5 DEF Geometries
<1>7. completions' = completions \o cb /\ Len(completions) + Len(cb) <= MaxCompletions
  BY DEF EndCollapse
<1>8. completions' \in Seq(Completions) /\ Len(completions') <= MaxCompletions
  BY <1>1, <1>7
<1>. QED BY <1>2, <1>4, <1>6, <1>8 DEF EndCollapse, BackToIdle

\* restore(), whatever the state.
LEMMA RestoreOutcome ==
  ASSUME IInv, RestoreCall
  PROVE  /\ LifecycleTypeOK' /\ state' = "idle" /\ pendingRestore' = FALSE
         /\ external' \in BOOLEAN /\ stream' \in BOOLEAN /\ claims' \subseteq Callers
         /\ geometry' \in Geometries
         /\ completions' \in Seq(Completions) /\ Len(completions') <= MaxCompletions
         /\ callbacks' \in Seq(Completions)
         /\ CompletionsHavePass'
<1>0. TypeOK /\ CompletionsHavePass /\ callbacks \in Seq(Completions)
  BY DEF IInv, TypeOK
<1>1. CASE state # "idle"
  <2>1. EndCollapse(<<>>) /\ UNCHANGED callbacks /\ <<>> \in Seq(Completions)
    BY <1>1 DEF RestoreCall
  <2>2. /\ LifecycleTypeOK' /\ state' = "idle" /\ pendingRestore' = FALSE
        /\ external' = FALSE /\ stream' = FALSE /\ claims' = {}
        /\ geometry' \in Geometries
        /\ completions' \in Seq(Completions) /\ Len(completions') <= MaxCompletions
        /\ inFlight' = TRUE /\ passes' > 0
    BY <2>1, EndCollapseOutcome
  <2>3. external' \in BOOLEAN /\ stream' \in BOOLEAN /\ CompletionsHavePass'
    BY <2>2 DEF CompletionsHavePass
  <2>. QED BY <1>0, <2>1, <2>2, <2>3
<1>2. CASE state = "idle"
  <2>1. /\ pendingRestore' = FALSE
        /\ IF inFlight THEN UNCHANGED <<completions, callbacks>>
                       ELSE callbacks' = completions /\ completions' = <<>>
        /\ UNCHANGED <<lifecycleVars, external, stream, geometry, claims>>
    BY <1>2 DEF RestoreCall
  <2>2. UNCHANGED <<state, cooling, inFlight, passes>>
    BY <2>1 DEF lifecycleVars
  <2>3. LifecycleTypeOK'
    BY <1>0, <2>2 DEF TypeOK, LifecycleTypeOK
  <2>4. /\ completions' \in Seq(Completions) /\ Len(completions') <= MaxCompletions
        /\ callbacks' \in Seq(Completions)
    <3>1. CASE inFlight
      BY <1>0, <2>1, <3>1 DEF TypeOK
    <3>2. CASE ~inFlight
      <4>1. callbacks' = completions /\ completions' = <<>>
        BY <2>1, <3>2
      <4>. QED BY <1>0, <4>1, SessionAssumption DEF TypeOK
    <3>. QED BY <3>1, <3>2
  <2>5. CompletionsHavePass'
    <3>1. CASE inFlight
      BY <1>0, <2>1, <2>2, <3>1 DEF CompletionsHavePass
    <3>2. CASE ~inFlight
      BY <2>1, <3>2 DEF CompletionsHavePass
    <3>. QED BY <3>1, <3>2
  <2>. QED BY <1>0, <1>2, <2>1, <2>2, <2>3, <2>4, <2>5 DEF TypeOK
<1>. QED BY <1>1, <1>2

\* recomputeSessionState(): the coordinator of a collapse that only sessions asked for
\* is told of the last disconnect, or that is recorded.
LEMMA RecomputeOutcome ==
  ASSUME IInv, NEW connected \in BOOLEAN, NEW ext \in BOOLEAN, ext => external,
         Recompute(connected, ext)
  PROVE  /\ LifecycleTypeOK' /\ RoomForPass' /\ pendingRestore' \in BOOLEAN
         /\ observer' \in {"none", "waiting", "notified"} /\ strays' \in 0..MaxStrays
         /\ claims' \subseteq Callers /\ missed' \in BOOLEAN
         /\ inFlight' = inFlight /\ passes' = passes
         /\ observer' # "none" /\ ~missed' => connected
         /\ ext /\ state' # "idle" => ~pendingRestore'
         /\ state' # "idle" /\ ~connected /\ ~missed' => pendingRestore'
<1>0. TypeOK /\ RoomForPass /\ ExternalKeepsCollapse
  BY DEF IInv
<1>. DEFINE ignored == ~autoMode \/ (~connected /\ ext)
<1>1. missed' = ignored /\ missed' \in BOOLEAN
  BY DEF Recompute
<1>u. ASSUME UNCHANGED lifecycleVars
      PROVE  LifecycleTypeOK' /\ RoomForPass' /\ UNCHANGED <<state, inFlight, passes>>
  BY <1>0, <1>u DEF lifecycleVars, LifecycleTypeOK, RoomForPass, TypeOK
<1>2. CASE ignored
  <2>1. missed' /\ UNCHANGED <<pendingRestore, observer, strays, claims, lifecycleVars>>
    BY <1>1, <1>2 DEF Recompute
  <2>2. ext /\ state' # "idle" => ~pendingRestore'
    BY <1>0, <1>u, <2>1 DEF ExternalKeepsCollapse
  <2>. QED BY <1>0, <1>1, <1>u, <2>1, <2>2 DEF TypeOK
<1>3. CASE ~ignored /\ connected /\ locked
  <2>1. /\ pendingRestore' = FALSE
        /\ observer' = IF observer = "none" THEN "waiting" ELSE observer
        /\ UNCHANGED <<strays, claims, lifecycleVars>>
    BY <1>3 DEF Recompute, RemoteSessionChanged
  <2>2. pendingRestore' \in BOOLEAN /\ observer' \in {"none", "waiting", "notified"}
    BY <1>0, <2>1 DEF TypeOK
  <2>. QED BY <1>0, <1>1, <1>3, <1>u, <2>1, <2>2 DEF TypeOK
<1>4. CASE ~ignored /\ connected /\ ~locked
  <2>1. /\ IF state = "idle" /\ cooling
             THEN pendingRestore' = FALSE /\ UNCHANGED <<claims, lifecycleVars>>
             ELSE CollapseCall("session")
        /\ UNCHANGED <<observer, strays>>
    BY <1>4 DEF Recompute, RemoteSessionChanged
  <2>2. CASE pendingRestore' = FALSE /\ UNCHANGED <<claims, lifecycleVars>>
    <3>1. pendingRestore' \in BOOLEAN
      BY <2>2
    <3>. QED BY <1>0, <1>1, <1>4, <1>u, <2>1, <2>2, <3>1 DEF TypeOK
  <2>3. CASE CollapseCall("session")
    <3>1. /\ LifecycleTypeOK' /\ RoomForPass' /\ pendingRestore' \in BOOLEAN
          /\ claims' \subseteq Callers /\ inFlight' = inFlight /\ passes' = passes
          /\ state' # "idle" => pendingRestore' = FALSE
      BY <2>3, CollapseCallOutcome DEF Callers
    <3>. QED BY <1>0, <1>1, <1>4, <2>1, <3>1 DEF TypeOK
  <2>. QED BY <2>1, <2>2, <2>3
<1>5. CASE ~ignored /\ ~connected
  <2>1. observer' = "none" /\ ScheduleRestore /\ UNCHANGED <<claims, lifecycleVars>>
    BY <1>5 DEF Recompute, RemoteSessionChanged
  <2>2. /\ pendingRestore' \in BOOLEAN /\ strays' \in 0..MaxStrays
        /\ state # "idle" => pendingRestore'
    <3>1. CASE state = "idle"
      BY <1>0, <2>1, <3>1 DEF ScheduleRestore, TypeOK
    <3>2. CASE state # "idle"
      <4>1. /\ pendingRestore' = TRUE
            /\ strays' = (IF pendingRestore THEN strays + 1 ELSE strays)
            /\ strays' <= MaxStrays
        BY <2>1, <3>2 DEF ScheduleRestore
      <4>2. strays' \in 0..MaxStrays
        BY <1>0, <4>1, SessionAssumption DEF TypeOK
      <4>. QED BY <4>1, <4>2
    <3>. QED BY <3>1, <3>2
  <2>3. ~ext
    BY <1>5
  <2>. QED BY <1>0, <1>1, <1>5, <1>u, <2>1, <2>2 DEF TypeOK
<1>. QED BY <1>2, <1>3, <1>4, <1>5

\* applyExternalCollapse(): a collapse of another geometry ends, to be applied again;
\* or the latch is set, and the collapse is off the grace timer.
LEMMA ApplyOutcome ==
  ASSUME IInv, NEW r \in Requests, NEW fromStream \in BOOLEAN,
         ApplyExternalCollapse(r, fromStream)
  PROVE  /\ LifecycleTypeOK' /\ RoomForPass' /\ pendingRestore' \in BOOLEAN
         /\ external' \in BOOLEAN /\ stream' \in BOOLEAN /\ geometry' \in Geometries
         /\ claims' \subseteq Callers
         /\ completions' \in Seq(Completions) /\ Len(completions') <= MaxCompletions
         /\ CompletionsHavePass'
         /\ state' # "idle" => external' /\ ~pendingRestore'
<1>0. TypeOK /\ CompletionsHavePass
  BY DEF IInv
<1>1. CASE EndCollapse(<<Reapply(r, fromStream)>>)
  <2>1. <<Reapply(r, fromStream)>> \in Seq(Completions)
    BY DEF Completions
  <2>2. /\ LifecycleTypeOK' /\ state' = "idle" /\ pendingRestore' = FALSE
        /\ external' = FALSE /\ stream' = FALSE /\ claims' = {}
        /\ geometry' \in Geometries
        /\ completions' \in Seq(Completions) /\ Len(completions') <= MaxCompletions
        /\ inFlight' = TRUE /\ passes' > 0
    BY <1>1, <2>1, EndCollapseOutcome
  <2>3. external' \in BOOLEAN /\ stream' \in BOOLEAN /\ pendingRestore' \in BOOLEAN
    BY <2>2
  <2>4. CompletionsHavePass' /\ RoomForPass'
    BY <2>2 DEF CompletionsHavePass, RoomForPass
  <2>. QED BY <2>2, <2>3, <2>4
<1>2. CASE /\ geometry' = [preset |-> r.preset,
                           presetB |-> IF r.presetB = NoPresetB THEN geometry.presetB
                                       ELSE r.presetB]
           /\ external' = TRUE
           /\ stream' = (stream \/ fromStream)
           /\ CollapseCall(IF fromStream THEN "stream" ELSE "command")
           /\ UNCHANGED completions
  <2>1. /\ LifecycleTypeOK' /\ RoomForPass' /\ pendingRestore' \in BOOLEAN
        /\ claims' \subseteq Callers /\ inFlight' = inFlight /\ passes' = passes
        /\ state' # "idle" => pendingRestore' = FALSE
    <3>. DEFINE who == IF fromStream THEN "stream" ELSE "command"
    <3>1. who \in Callers
      BY DEF Callers
    <3>2. CollapseCall(who)
      BY <1>2
    <3>. HIDE DEF who
    <3>. QED BY <3>1, <3>2, CollapseCallOutcome
  <2>2. r.preset \in Presets /\ (r.presetB # NoPresetB => r.presetB \in PresetBs)
    BY DEF Presets, PresetBs
  <2>3. geometry.presetB \in PresetBs
    BY <1>0 DEF TypeOK, Geometries
  <2>4. geometry' \in Geometries
    BY <1>2, <2>2, <2>3 DEF Geometries
  <2>5. external' \in BOOLEAN /\ stream' \in BOOLEAN
    BY <1>2
  <2>6. CompletionsHavePass'
    BY <1>0, <1>2, <2>1 DEF CompletionsHavePass
  <2>. QED BY <1>0, <1>2, <2>1, <2>4, <2>5, <2>6 DEF TypeOK
<1>. QED BY <1>1, <1>2 DEF ApplyExternalCollapse

-----------------------------------------------------------------------------
(* The steps                                                               *)

\* Every step keeps the invariant.
LEMMA Step == IInv /\ [Next]_vars => IInv'
<1>. SUFFICES ASSUME IInv, [Next]_vars PROVE IInv'
  OBVIOUS
<1>0. /\ TypeOK /\ RoomForPass /\ ObserverHasSession
      /\ CompletionsHavePass /\ ExternalKeepsCollapse /\ NoForgottenCollapse
  BY DEF IInv
<1>1. ASSUME /\ LifecycleTypeOK'
             /\ app' \in {"running", "quitting", "exited"}
             /\ vnc' \in BOOLEAN /\ web' \in BOOLEAN /\ autoMode' \in BOOLEAN
             /\ external' \in BOOLEAN /\ stream' \in BOOLEAN
             /\ geometry' \in Geometries /\ locked' \in BOOLEAN
             /\ observer' \in {"none", "waiting", "notified"}
             /\ pendingRestore' \in BOOLEAN /\ strays' \in 0..MaxStrays
             /\ completions' \in Seq(Completions) /\ Len(completions') <= MaxCompletions
             /\ callbacks' \in Seq(Completions)
             /\ claims' \subseteq Callers /\ missed' \in BOOLEAN
      PROVE  TypeOK'
  BY <1>1 DEF TypeOK
<1>2. ASSUME UNCHANGED <<vnc, web, observer, missed>> PROVE ObserverHasSession'
  BY <1>0, <1>2 DEF ObserverHasSession, Connected
<1>3. ASSUME state' = "idle"
      PROVE  RoomForPass' /\ ExternalKeepsCollapse' /\ NoForgottenCollapse'
  BY <1>3 DEF RoomForPass, ExternalKeepsCollapse, NoForgottenCollapse
<1>4. ASSUME RestoreCall, UNCHANGED <<app, vnc, web, autoMode, locked, observer, missed>>,
             strays' \in 0..MaxStrays
      PROVE  IInv'
  <2>1. /\ LifecycleTypeOK' /\ state' = "idle" /\ pendingRestore' = FALSE
        /\ external' \in BOOLEAN /\ stream' \in BOOLEAN /\ claims' \subseteq Callers
        /\ geometry' \in Geometries
        /\ completions' \in Seq(Completions) /\ Len(completions') <= MaxCompletions
        /\ callbacks' \in Seq(Completions)
        /\ CompletionsHavePass'
    BY <1>4, RestoreOutcome
  <2>2. pendingRestore' \in BOOLEAN
    BY <2>1
  <2>. QED BY <1>0, <1>1, <1>2, <1>3, <1>4, <2>1, <2>2 DEF IInv, TypeOK
<1>5. ASSUME NEW cb \in Seq(Completions), EndCollapse(cb),
             UNCHANGED <<vnc, web, autoMode, locked, observer, strays, callbacks, missed>>,
             app' \in {"running", "quitting", "exited"}
      PROVE  IInv'
  <2>1. /\ LifecycleTypeOK' /\ state' = "idle" /\ pendingRestore' = FALSE
        /\ external' = FALSE /\ stream' = FALSE /\ claims' = {}
        /\ geometry' \in Geometries
        /\ completions' \in Seq(Completions) /\ Len(completions') <= MaxCompletions
        /\ inFlight' = TRUE /\ passes' > 0
    BY <1>5, EndCollapseOutcome
  <2>2. external' \in BOOLEAN /\ stream' \in BOOLEAN /\ pendingRestore' \in BOOLEAN
    BY <2>1
  <2>3. CompletionsHavePass' /\ claims' \subseteq Callers
    BY <2>1 DEF CompletionsHavePass
  <2>. QED BY <1>0, <1>1, <1>2, <1>3, <1>5, <2>1, <2>2, <2>3 DEF IInv, TypeOK
<1>6. ASSUME NEW connected \in BOOLEAN, NEW ext \in BOOLEAN, ext => external,
             Recompute(connected, ext), connected = Connected',
             external' = ext, vnc' \in BOOLEAN, web' \in BOOLEAN,
             UNCHANGED <<app, autoMode, stream, geometry, locked, completions, callbacks>>
      PROVE  IInv'
  <2>1. /\ LifecycleTypeOK' /\ RoomForPass' /\ pendingRestore' \in BOOLEAN
        /\ observer' \in {"none", "waiting", "notified"} /\ strays' \in 0..MaxStrays
        /\ claims' \subseteq Callers /\ missed' \in BOOLEAN
        /\ inFlight' = inFlight /\ passes' = passes
        /\ observer' # "none" /\ ~missed' => connected
        /\ ext /\ state' # "idle" => ~pendingRestore'
        /\ state' # "idle" /\ ~connected /\ ~missed' => pendingRestore'
    BY <1>6, RecomputeOutcome
  <2>2. TypeOK'
    <3>1. external' \in BOOLEAN
      BY <1>6
    <3>. QED BY <1>0, <1>1, <1>6, <2>1, <3>1 DEF TypeOK
  <2>3. CompletionsHavePass'
    BY <1>0, <1>6, <2>1 DEF CompletionsHavePass
  <2>4. ObserverHasSession' /\ NoForgottenCollapse'
    BY <1>6, <2>1 DEF ObserverHasSession, NoForgottenCollapse
  <2>5. ExternalKeepsCollapse'
    BY <1>6, <2>1 DEF ExternalKeepsCollapse
  <2>. QED BY <2>1, <2>2, <2>3, <2>4, <2>5 DEF IInv
<1>7. ASSUME NEW r \in Requests, NEW fromStream \in BOOLEAN,
             ApplyExternalCollapse(r, fromStream), callbacks' \in Seq(Completions),
             UNCHANGED <<app, vnc, web, autoMode, locked, observer, strays, missed>>
      PROVE  IInv'
  <2>1. /\ LifecycleTypeOK' /\ RoomForPass' /\ pendingRestore' \in BOOLEAN
        /\ external' \in BOOLEAN /\ stream' \in BOOLEAN /\ geometry' \in Geometries
        /\ claims' \subseteq Callers
        /\ completions' \in Seq(Completions) /\ Len(completions') <= MaxCompletions
        /\ CompletionsHavePass'
        /\ state' # "idle" => external' /\ ~pendingRestore'
    BY <1>7, ApplyOutcome
  <2>2. ExternalKeepsCollapse' /\ NoForgottenCollapse'
    BY <2>1 DEF ExternalKeepsCollapse, NoForgottenCollapse
  <2>. QED BY <1>0, <1>1, <1>2, <1>7, <2>1, <2>2 DEF IInv, TypeOK
<1>8. ASSUME UNCHANGED <<vnc, web, external, stream, geometry, pendingRestore, strays,
                         claims, missed>>,
             UNCHANGED observer \/ (observer # "none" /\ observer' = "notified"),
             app' \in {"running", "quitting", "exited"},
             locked' \in BOOLEAN, autoMode' \in BOOLEAN,
             LifecycleTypeOK', RoomForPass', CompletionsHavePass',
             state' # "idle" => state # "idle",
             completions' \in Seq(Completions), Len(completions') <= MaxCompletions,
             callbacks' \in Seq(Completions)
      PROVE  IInv'
  <2>1. TypeOK'
    <3>1. observer' \in {"none", "waiting", "notified"}
      BY <1>0, <1>8 DEF TypeOK
    <3>. QED BY <1>0, <1>1, <1>8, <3>1 DEF TypeOK
  <2>2. ObserverHasSession'
    BY <1>0, <1>8 DEF ObserverHasSession, Connected
  <2>3. ExternalKeepsCollapse' /\ NoForgottenCollapse'
    BY <1>0, <1>8 DEF ExternalKeepsCollapse, NoForgottenCollapse, Connected
  <2>. QED BY <1>8, <2>1, <2>2, <2>3 DEF IInv
<1>9. ASSUME Exit PROVE IInv'
  <2>1. /\ state' = "idle" /\ cooling' = FALSE /\ inFlight' = FALSE /\ passes' = 0
        /\ app' = "exited" /\ vnc' = FALSE /\ web' = FALSE
        /\ external' = FALSE /\ stream' = FALSE /\ geometry' = Saved
        /\ observer' = "none" /\ pendingRestore' = FALSE /\ strays' = 0
        /\ completions' = <<>> /\ callbacks' = <<>> /\ claims' = {} /\ missed' = FALSE
        /\ UNCHANGED <<autoMode, locked>>
    BY <1>9 DEF Exit, Die
  <2>2. LifecycleTypeOK'
    <3>1. cooling' \in BOOLEAN /\ inFlight' \in BOOLEAN
      BY <2>1
    <3>2. passes' \in 0..MaxPasses
      BY <2>1, MaxPassesAssumption
    <3>. QED BY <2>1, <3>1, <3>2 DEF LifecycleTypeOK, States
  <2>3. /\ vnc' \in BOOLEAN /\ web' \in BOOLEAN /\ external' \in BOOLEAN
        /\ stream' \in BOOLEAN /\ pendingRestore' \in BOOLEAN /\ missed' \in BOOLEAN
        /\ autoMode' \in BOOLEAN /\ locked' \in BOOLEAN
    BY <1>0, <2>1 DEF TypeOK
  <2>4. /\ geometry' \in Geometries /\ strays' \in 0..MaxStrays
        /\ completions' \in Seq(Completions) /\ Len(completions') <= MaxCompletions
        /\ callbacks' \in Seq(Completions)
    BY <2>1, SessionAssumption
  <2>5. TypeOK'
    BY <1>1, <2>1, <2>2, <2>3, <2>4
  <2>6. ObserverHasSession' /\ CompletionsHavePass'
    BY <2>1 DEF ObserverHasSession, CompletionsHavePass
  <2>. QED BY <1>3, <2>1, <2>5, <2>6 DEF IInv
<1>10. CASE VncEdge
  <2>1. (vnc' \/ web) \in BOOLEAN /\ external \in BOOLEAN /\ vnc' \in BOOLEAN
    BY <1>0, <1>10 DEF VncEdge, TypeOK
  <2>2. (vnc' \/ web) = Connected' /\ web' \in BOOLEAN
    BY <1>0, <1>10 DEF VncEdge, Connected, TypeOK
  <2>. QED BY <1>6, <1>10, <2>1, <2>2 DEF VncEdge
<1>11. CASE WebEdge
  <2>1. (vnc \/ web') \in BOOLEAN /\ external \in BOOLEAN /\ web' \in BOOLEAN
    BY <1>0, <1>11 DEF WebEdge, TypeOK
  <2>2. (vnc \/ web') = Connected' /\ vnc' \in BOOLEAN
    BY <1>0, <1>11 DEF WebEdge, Connected, TypeOK
  <2>. QED BY <1>6, <1>11, <2>1, <2>2 DEF WebEdge
<1>12. CASE Wake
  <2>1. Connected \in BOOLEAN /\ Connected' = Connected
    BY <1>12 DEF Wake, Connected
  <2>2. vnc' \in BOOLEAN /\ web' \in BOOLEAN /\ external' = FALSE
    BY <1>0, <1>12 DEF Wake, TypeOK
  <2>. QED BY <1>6, <1>12, <2>1, <2>2 DEF Wake
<1>13. CASE ExternalCollapse
  <2>1. callbacks' \in Seq(Completions)
    BY <1>0, <1>13 DEF ExternalCollapse, TypeOK
  <2>. QED BY <1>7, <1>13, <2>1 DEF ExternalCollapse
<1>14. ASSUME NEW fromStream \in BOOLEAN, ExternalRestore(fromStream) PROVE IInv'
  BY <1>0, <1>4, <1>14 DEF ExternalRestore, TypeOK
<1>15. CASE CollapseNow
  <2>1. /\ LifecycleTypeOK' /\ RoomForPass' /\ pendingRestore' \in BOOLEAN
        /\ claims' \subseteq Callers /\ inFlight' = inFlight /\ passes' = passes
        /\ state' # "idle" => pendingRestore' = FALSE /\ "command" \in claims'
    BY <1>15, CollapseCallOutcome DEF CollapseNow, Callers
  <2>2. UNCHANGED <<app, vnc, web, autoMode, external, stream, geometry, locked,
                    observer, strays, completions, callbacks, missed>>
    BY <1>15 DEF CollapseNow
  <2>3. CompletionsHavePass'
    BY <1>0, <2>1, <2>2 DEF CompletionsHavePass
  <2>4. ExternalKeepsCollapse' /\ NoForgottenCollapse'
    BY <2>1 DEF ExternalKeepsCollapse, NoForgottenCollapse
  <2>. QED BY <1>0, <1>1, <1>2, <2>1, <2>2, <2>3, <2>4 DEF IInv, TypeOK
<1>16. CASE Lock \/ Unlock \/ ToggleAuto \/ Relaunch
  <2>1. /\ UNCHANGED <<vnc, web, external, stream, geometry, pendingRestore, strays,
                       claims, missed, completions, callbacks, lifecycleVars>>
        /\ UNCHANGED observer \/ (observer # "none" /\ observer' = "notified")
        /\ app' \in {"running", "quitting", "exited"}
    BY <1>0, <1>16 DEF Lock, Unlock, ToggleAuto, Relaunch, TypeOK
  <2>2. locked' \in BOOLEAN /\ autoMode' \in BOOLEAN
    BY <1>0, <1>16 DEF Lock, Unlock, ToggleAuto, Relaunch, TypeOK
  <2>3. UNCHANGED <<state, cooling, inFlight, passes>>
    BY <2>1 DEF lifecycleVars
  <2>4. LifecycleTypeOK' /\ RoomForPass' /\ CompletionsHavePass'
    BY <1>0, <2>1, <2>3 DEF TypeOK, LifecycleTypeOK, RoomForPass, CompletionsHavePass
  <2>. QED BY <1>0, <1>8, <2>1, <2>2, <2>3, <2>4 DEF TypeOK
<1>17. CASE Quit
  <2>1. CASE Exit
    BY <1>9, <2>1
  <2>2. CASE /\ EndCollapse(<<Reply>>) /\ app' = "quitting"
             /\ UNCHANGED <<vnc, web, autoMode, locked, observer, strays, callbacks, missed>>
    <3>1. <<Reply>> \in Seq(Completions)
      BY DEF Completions
    <3>. QED BY <1>5, <2>2, <3>1
  <2>. QED BY <1>17, <2>1, <2>2 DEF Quit
<1>18. CASE GraceEnds
  BY <1>0, <1>4, <1>18 DEF GraceEnds, TypeOK
<1>19. CASE StrayGraceEnds
  <2>1. strays' \in 0..MaxStrays
    BY <1>0, <1>19, SessionAssumption DEF StrayGraceEnds, TypeOK
  <2>. QED BY <1>4, <1>19, <2>1 DEF StrayGraceEnds
<1>20. CASE LayoutPass
  <2>1. /\ passes > 0 /\ passes' = passes - 1 /\ inFlight' = FALSE
        /\ UNCHANGED <<state, cooling>>
        /\ callbacks' = completions /\ completions' = <<>>
        /\ UNCHANGED <<app, vnc, web, autoMode, external, stream, geometry, locked,
                       observer, pendingRestore, strays, claims, missed>>
    BY <1>20 DEF LayoutPass, Pass
  <2>2. passes' \in 0..MaxPasses /\ (state # "idle" => passes' < MaxPasses)
    BY <1>0, <2>1, MaxPassesAssumption DEF TypeOK, LifecycleTypeOK, RoomForPass
  <2>3. LifecycleTypeOK' /\ RoomForPass'
    <3>1. inFlight' \in BOOLEAN
      BY <2>1
    <3>. QED BY <1>0, <2>1, <2>2, <3>1 DEF TypeOK, LifecycleTypeOK, RoomForPass
  <2>4. /\ callbacks' \in Seq(Completions) /\ completions' \in Seq(Completions)
        /\ Len(completions') <= MaxCompletions /\ CompletionsHavePass'
    BY <1>0, <2>1, SessionAssumption DEF TypeOK, CompletionsHavePass
  <2>. QED BY <1>0, <1>8, <2>1, <2>3, <2>4 DEF TypeOK
<1>21. CASE RunCallback
  <2>. DEFINE cb == Head(callbacks)
  <2>1. cb \in Completions /\ Tail(callbacks) \in Seq(Completions)
    BY <1>0, <1>21 DEF RunCallback, TypeOK
  <2>2. CASE Exit
    BY <1>9, <2>2
  <2>3. CASE /\ cb.kind = "reapply"
             /\ ApplyExternalCollapse(cb.request, cb.fromStream)
             /\ callbacks' = Tail(callbacks)
             /\ UNCHANGED <<app, vnc, web, autoMode, locked, observer, strays, missed>>
    <3>. HIDE DEF cb
    <3>1. cb.request \in Requests /\ cb.fromStream \in BOOLEAN
      BY <2>1, <2>3 DEF Completions, Reply, Reapply
    <3>. QED BY <1>7, <2>1, <2>3, <3>1
  <2>. QED BY <1>21, <2>2, <2>3 DEF RunCallback
<1>22. CASE Collapsed \/ CooledDown
  <2>1. /\ UNCHANGED <<app, vnc, web, autoMode, external, stream, geometry, locked, observer,
                       pendingRestore, strays, completions, callbacks, claims, missed>>
        /\ UNCHANGED <<inFlight, passes>> /\ cooling' \in {cooling, FALSE}
        /\ state' = state \/ (state = "collapsing" /\ state' = "collapsed")
    BY <1>22 DEF Collapsed, CooledDown, Establish, CoolDown, sessionVars
  <2>2. LifecycleTypeOK' /\ RoomForPass' /\ CompletionsHavePass'
    <3>1. cooling' \in BOOLEAN
      BY <2>1, LifecycleTypes
    <3>. QED BY <1>0, <2>1, <3>1
         DEF TypeOK, LifecycleTypeOK, States, RoomForPass, CompletionsHavePass
  <2>. QED BY <1>0, <1>8, <2>1, <2>2 DEF TypeOK
<1>23. CASE CollapseFails
  <2>1. /\ state' = "idle" /\ cooling' = TRUE /\ UNCHANGED <<inFlight, passes>>
        /\ external' = FALSE /\ stream' = FALSE /\ claims' = {}
        /\ geometry' = [geometry EXCEPT !.preset = Saved.preset]
        /\ UNCHANGED <<app, vnc, web, autoMode, locked, observer, pendingRestore,
                       strays, completions, callbacks, missed>>
    BY <1>23 DEF CollapseFails, GiveUp, BackToIdle
  <2>2. LifecycleTypeOK' /\ external' \in BOOLEAN /\ stream' \in BOOLEAN
    <3>1. cooling' \in BOOLEAN /\ external' \in BOOLEAN /\ stream' \in BOOLEAN
      BY <2>1
    <3>. QED BY <1>0, <2>1, <3>1 DEF TypeOK, LifecycleTypeOK, States
  <2>3. geometry' \in Geometries
    BY <1>0, <2>1, SessionAssumption DEF TypeOK, Geometries
  <2>4. CompletionsHavePass'
    BY <1>0, <2>1 DEF CompletionsHavePass
  <2>. QED BY <1>0, <1>1, <1>2, <1>3, <2>1, <2>2, <2>3, <2>4 DEF IInv, TypeOK
<1>24. CASE DisplayDies
  <2>1. <<>> \in Seq(Completions) /\ app' \in {"running", "quitting", "exited"}
    BY <1>0, <1>24 DEF DisplayDies, TypeOK
  <2>. QED BY <1>5, <1>24, <2>1 DEF DisplayDies
<1>25. CASE DeferredCollapse
  <2>1. /\ LifecycleTypeOK' /\ RoomForPass' /\ pendingRestore' \in BOOLEAN
        /\ claims' \subseteq Callers /\ inFlight' = inFlight /\ passes' = passes
        /\ state' # "idle" => pendingRestore' = FALSE
    BY <1>25, CollapseCallOutcome DEF DeferredCollapse, Callers
  <2>2. /\ observer = "notified" /\ observer' = "none"
        /\ UNCHANGED <<app, vnc, web, autoMode, external, stream, geometry, locked,
                       strays, completions, callbacks, missed>>
    BY <1>25 DEF DeferredCollapse
  <2>3. Connected' \/ missed'
    BY <1>0, <2>2 DEF ObserverHasSession, Connected
  <2>4. CompletionsHavePass' /\ ObserverHasSession'
    BY <1>0, <2>1, <2>2 DEF CompletionsHavePass, ObserverHasSession
  <2>5. ExternalKeepsCollapse' /\ NoForgottenCollapse'
    BY <2>1, <2>3 DEF ExternalKeepsCollapse, NoForgottenCollapse
  <2>6. observer' \in {"none", "waiting", "notified"}
    BY <2>2
  <2>. QED BY <1>0, <1>1, <2>1, <2>2, <2>4, <2>5, <2>6 DEF IInv, TypeOK
<1>26. CASE UNCHANGED vars
  <2>1. UNCHANGED <<app, vnc, web, autoMode, external, stream, geometry, locked, observer,
                    pendingRestore, strays, completions, callbacks, claims, missed,
                    state, cooling, inFlight, passes>>
    BY <1>26 DEF vars, sessionVars, lifecycleVars
  <2>2. LifecycleTypeOK' /\ RoomForPass' /\ CompletionsHavePass'
    BY <1>0, <2>1 DEF TypeOK, LifecycleTypeOK, RoomForPass, CompletionsHavePass
  <2>. QED BY <1>0, <1>8, <2>1, <2>2 DEF TypeOK
<1>. QED BY <1>10, <1>11, <1>12, <1>13, <1>14, <1>15, <1>16, <1>17, <1>18, <1>19, <1>20,
            <1>21, <1>22, <1>23, <1>24, <1>25, <1>26 DEF Next

-----------------------------------------------------------------------------
(* The reply to AppKit                                                     *)

\* The reply to AppKit is one of q.
ReplyIn(q) == \E i \in DOMAIN q : q[i] = Reply

\* A quit that AppKit was told to wait for is not forgotten: its reply is with the
\* coordinator or about to be called, whatever else has begun and ended since.
QuitHasReply == app = "quitting" => ReplyIn(completions) \/ ReplyIn(callbacks)

\* Who waits for the reply keeps it: a handler adds completions or hands them on.
LEMMA ReplyStays ==
  ASSUME IInv, NEW cb \in Seq(Completions), completions' = completions \o cb
  PROVE  /\ ReplyIn(completions) => ReplyIn(completions')
         /\ cb = <<Reply>> => ReplyIn(completions')
<1>1. completions \in Seq(Completions)
  BY DEF IInv, TypeOK
<1>2. \A i \in DOMAIN completions :
        i \in DOMAIN completions' /\ completions'[i] = completions[i]
  BY <1>1
<1>3. ASSUME cb = <<Reply>> PROVE ReplyIn(completions')
  <2>1. Len(completions) + 1 \in DOMAIN completions'
    BY <1>1, <1>3
  <2>2. completions'[Len(completions) + 1] = Reply
    BY <1>1, <1>3
  <2>. QED BY <2>1, <2>2 DEF ReplyIn
<1>. QED BY <1>2, <1>3 DEF ReplyIn

\* What the handlers that may end a collapse do with the reply.
LEMMA ReplyOutcomes ==
  ASSUME IInv, QuitHasReply
  PROVE  /\ \A cb \in Seq(Completions) :
              EndCollapse(cb) /\ ReplyIn(completions) => ReplyIn(completions')
         /\ EndCollapse(<<Reply>>) => ReplyIn(completions')
         /\ RestoreCall /\ MainIdle /\ UNCHANGED app => QuitHasReply'
         /\ \A r \in Requests, fromStream \in BOOLEAN :
              ApplyExternalCollapse(r, fromStream) /\ ReplyIn(completions)
                => ReplyIn(completions')
<1>1. ASSUME NEW cb \in Seq(Completions), EndCollapse(cb)
      PROVE  /\ ReplyIn(completions) => ReplyIn(completions')
             /\ cb = <<Reply>> => ReplyIn(completions')
  BY <1>1, ReplyStays DEF EndCollapse
<1>2. <<>> \in Seq(Completions) /\ <<Reply>> \in Seq(Completions)
  BY DEF Completions
<1>3. ASSUME RestoreCall, MainIdle, UNCHANGED app PROVE QuitHasReply'
  <2>1. ~ReplyIn(callbacks)
    BY <1>3 DEF MainIdle, ReplyIn
  <2>2. CASE EndCollapse(<<>>) /\ UNCHANGED callbacks
    BY <1>1, <1>2, <1>3, <2>1, <2>2 DEF QuitHasReply
  <2>3. CASE IF inFlight THEN UNCHANGED <<completions, callbacks>>
                         ELSE callbacks' = completions /\ completions' = <<>>
    BY <1>3, <2>1, <2>3 DEF QuitHasReply, ReplyIn
  <2>. QED BY <1>3, <2>2, <2>3 DEF RestoreCall
<1>4. ASSUME NEW r \in Requests, NEW fromStream \in BOOLEAN,
             ApplyExternalCollapse(r, fromStream), ReplyIn(completions)
      PROVE  ReplyIn(completions')
  <2>1. <<Reapply(r, fromStream)>> \in Seq(Completions)
    BY DEF Completions
  <2>. QED BY <1>1, <1>4, <2>1 DEF ApplyExternalCollapse, ReplyIn
<1>. QED BY <1>1, <1>2, <1>3, <1>4

\* Every step keeps the reply of a quit that is waited for.
LEMMA ReplyStep == IInv /\ QuitHasReply /\ [Next]_vars => QuitHasReply'
<1>. SUFFICES ASSUME IInv, QuitHasReply, [Next]_vars PROVE QuitHasReply'
  OBVIOUS
<1>1. ASSUME UNCHANGED <<app, completions, callbacks>> PROVE QuitHasReply'
  BY <1>1 DEF QuitHasReply, ReplyIn
<1>2. ASSUME RestoreCall, MainIdle, UNCHANGED app PROVE QuitHasReply'
  BY <1>2, ReplyOutcomes
<1>3. ASSUME Exit PROVE QuitHasReply'
  BY <1>3 DEF Exit, QuitHasReply
<1>4. MainIdle => ~ReplyIn(callbacks)
  BY DEF MainIdle, ReplyIn
<1>5. <<>> \in Seq(Completions)
  OBVIOUS
<1>6. CASE VncEdge \/ WebEdge \/ Wake \/ CollapseNow \/ ToggleAuto \/ Collapsed
             \/ CollapseFails \/ CooledDown \/ Lock \/ Unlock \/ DeferredCollapse
             \/ UNCHANGED vars
  BY <1>1, <1>6 DEF VncEdge, WebEdge, Wake, CollapseNow, ToggleAuto, Collapsed, CollapseFails,
                    CooledDown, Lock, Unlock, DeferredCollapse, vars, sessionVars
<1>7. CASE ExternalCollapse
  <2>1. PICK r \in Requests, fromStream \in BOOLEAN : ApplyExternalCollapse(r, fromStream)
    BY <1>7 DEF ExternalCollapse
  <2>2. ReplyIn(completions) => ReplyIn(completions')
    BY <2>1, ReplyOutcomes
  <2>. QED BY <1>4, <1>7, <2>2 DEF ExternalCollapse, QuitHasReply
<1>8. CASE (\E fromStream \in BOOLEAN : ExternalRestore(fromStream))
             \/ GraceEnds \/ StrayGraceEnds
  BY <1>2, <1>8 DEF ExternalRestore, GraceEnds, StrayGraceEnds
<1>9. CASE Quit
  BY <1>3, <1>9, ReplyOutcomes DEF Quit, QuitHasReply
<1>10. CASE Relaunch
  BY <1>10 DEF Relaunch, QuitHasReply
<1>11. CASE LayoutPass
  BY <1>4, <1>11 DEF LayoutPass, QuitHasReply, ReplyIn
<1>12. CASE RunCallback
  <2>. DEFINE cb == Head(callbacks)
  <2>1. callbacks \in Seq(Completions) /\ callbacks # <<>> /\ cb \in Completions
    BY <1>12 DEF RunCallback, IInv, TypeOK
  <2>2. CASE Exit
    BY <1>3, <2>2
  <2>3. CASE /\ cb.kind = "reapply" /\ ApplyExternalCollapse(cb.request, cb.fromStream)
             /\ callbacks' = Tail(callbacks) /\ UNCHANGED app
    <3>1. ReplyIn(callbacks) => ReplyIn(callbacks')
      <4>1. SUFFICES ASSUME NEW i \in DOMAIN callbacks, callbacks[i] = Reply
                     PROVE  ReplyIn(callbacks')
        BY DEF ReplyIn
      <4>2. callbacks[1] # Reply
        BY <2>1, <2>3 DEF Reply
      <4>3. i \in 1..Len(callbacks) /\ i # 1
        BY <2>1, <4>1, <4>2
      <4>4. i - 1 \in DOMAIN callbacks' /\ callbacks'[i - 1] = Reply
        BY <2>1, <2>3, <4>1, <4>3
      <4>. QED BY <4>4 DEF ReplyIn
    <3>2. ReplyIn(completions) => ReplyIn(completions')
      <4>. HIDE DEF cb
      <4>1. cb.request \in Requests /\ cb.fromStream \in BOOLEAN
        BY <2>1, <2>3 DEF Completions, Reply, Reapply
      <4>. QED BY <2>3, <4>1, ReplyOutcomes
    <3>. QED BY <2>3, <3>1, <3>2 DEF QuitHasReply
  <2>. QED BY <1>12, <2>2, <2>3 DEF RunCallback
<1>13. CASE DisplayDies
  <2>1. ReplyIn(completions) => ReplyIn(completions')
    BY <1>5, <1>13, ReplyOutcomes DEF DisplayDies
  <2>. QED BY <1>4, <1>13, <2>1 DEF DisplayDies, QuitHasReply
<1>. QED BY <1>6, <1>7, <1>8, <1>9, <1>10, <1>11, <1>12, <1>13 DEF Next

-----------------------------------------------------------------------------
(* The coordinator                                                         *)

\* A handler makes at most one step of the coordinator's life cycle.
LEMMA CoordinatorStep == [Next]_vars => [LifecycleNext]_lifecycleVars
<1>. SUFFICES ASSUME [Next]_vars PROVE LifecycleNext \/ UNCHANGED lifecycleVars
  OBVIOUS
<1>1. ASSUME NEW who \in Callers, CollapseCall(who)
      PROVE  LifecycleNext \/ UNCHANGED lifecycleVars
  BY <1>1 DEF CollapseCall, LifecycleNext
<1>2. ASSUME NEW cb, EndCollapse(cb) PROVE LifecycleNext
  BY <1>2 DEF EndCollapse, LifecycleNext
<1>3. ASSUME RestoreCall PROVE LifecycleNext \/ UNCHANGED lifecycleVars
  BY <1>2, <1>3 DEF RestoreCall
<1>4. ASSUME NEW connected, NEW ext, Recompute(connected, ext)
      PROVE  LifecycleNext \/ UNCHANGED lifecycleVars
  <2>1. "session" \in Callers
    BY DEF Callers
  <2>. QED BY <1>1, <1>4, <2>1 DEF Recompute, RemoteSessionChanged
<1>5. ASSUME NEW r, NEW fromStream, ApplyExternalCollapse(r, fromStream)
      PROVE  LifecycleNext \/ UNCHANGED lifecycleVars
  <2>. DEFINE who == IF fromStream THEN "stream" ELSE "command"
  <2>1. who \in Callers
    BY DEF Callers
  <2>2. CollapseCall(who) \/ EndCollapse(<<Reapply(r, fromStream)>>)
    BY <1>5 DEF ApplyExternalCollapse
  <2>. HIDE DEF who
  <2>. QED BY <1>1, <1>2, <2>1, <2>2
<1>6. CASE VncEdge \/ WebEdge \/ Wake
  BY <1>4, <1>6 DEF VncEdge, WebEdge, Wake
<1>7. CASE ExternalCollapse
  BY <1>5, <1>7 DEF ExternalCollapse
<1>8. CASE (\E fromStream \in BOOLEAN : ExternalRestore(fromStream))
             \/ GraceEnds \/ StrayGraceEnds
  BY <1>3, <1>8 DEF ExternalRestore, GraceEnds, StrayGraceEnds
<1>9. CASE CollapseNow \/ DeferredCollapse
  BY <1>1, <1>9 DEF CollapseNow, DeferredCollapse, Callers
<1>10. CASE Quit
  BY <1>2, <1>10 DEF Quit, Exit, LifecycleNext
<1>11. CASE RunCallback
  <2>1. Exit \/ \E r, fromStream : ApplyExternalCollapse(r, fromStream)
    BY <1>11 DEF RunCallback
  <2>. QED BY <1>5, <2>1 DEF Exit, LifecycleNext
<1>12. CASE LayoutPass \/ Collapsed \/ CollapseFails \/ CooledDown
  BY <1>12 DEF LayoutPass, Collapsed, CollapseFails, CooledDown, LifecycleNext
<1>13. CASE DisplayDies
  BY <1>2, <1>13 DEF DisplayDies
<1>14. CASE ToggleAuto \/ Relaunch \/ Lock \/ Unlock \/ UNCHANGED vars
  BY <1>14 DEF ToggleAuto, Relaunch, Lock, Unlock, vars
<1>. QED BY <1>6, <1>7, <1>8, <1>9, <1>10, <1>11, <1>12, <1>13, <1>14 DEF Next

-----------------------------------------------------------------------------
(* The theorems                                                            *)

\* The invariant holds at first.
LEMMA InitIInv == Init => IInv
<1>. SUFFICES ASSUME Init PROVE IInv
  OBVIOUS
<1>1. LifecycleTypeOK /\ state = "idle"
  <2>1. cooling \in BOOLEAN /\ inFlight \in BOOLEAN
    BY DEF Init, LifecycleInit
  <2>. QED BY <2>1, MaxPassesAssumption DEF Init, LifecycleInit, LifecycleTypeOK, States
<1>2. /\ vnc \in BOOLEAN /\ web \in BOOLEAN /\ autoMode \in BOOLEAN /\ external \in BOOLEAN
      /\ stream \in BOOLEAN /\ locked \in BOOLEAN /\ pendingRestore \in BOOLEAN
      /\ missed \in BOOLEAN
  BY DEF Init
<1>3. /\ geometry \in Geometries /\ strays \in 0..MaxStrays
      /\ completions \in Seq(Completions) /\ Len(completions) <= MaxCompletions
      /\ callbacks \in Seq(Completions)
  BY SessionAssumption DEF Init
<1>4. TypeOK
  BY <1>1, <1>2, <1>3 DEF Init, TypeOK
<1>5. /\ RoomForPass /\ ObserverHasSession
      /\ CompletionsHavePass /\ ExternalKeepsCollapse /\ NoForgottenCollapse
  BY <1>1 DEF Init, RoomForPass, ObserverHasSession, CompletionsHavePass,
              ExternalKeepsCollapse, NoForgottenCollapse
<1>. QED BY <1>4, <1>5 DEF IInv

\* So it holds always.
LEMMA Invariance == Spec => []IInv
BY InitIInv, Step, PTL DEF Spec

\* Every variable keeps its type, and the bounds are never exceeded (StatusBarApp,
\* CollapseCoordinator).
THEOREM TypeCorrect == Spec => []TypeOK
<1>1. IInv => TypeOK
  BY DEF IInv
<1>. QED BY <1>1, Invariance, PTL

\* A completion given to restore() has a layout pass ahead of it: nobody waits in vain,
\* AppKit for the reply to its terminate request least of all (onLayoutRestored).
THEOREM CompletionsAreFlushed == Spec => []CompletionsHavePass
<1>1. IInv => CompletionsHavePass
  BY DEF IInv
<1>. QED BY <1>1, Invariance, PTL

\* An external collapse is never on the grace timer (recomputeSessionState).
THEOREM ExternalIsKept == Spec => []ExternalKeepsCollapse
<1>1. IInv => ExternalKeepsCollapse
  BY DEF IInv
<1>. QED BY <1>1, Invariance, PTL

\* A collapse of sessions that are gone is about to be restored, if the coordinator was
\* told that they are (scheduleRestore, remoteSessionChanged, the unlock observer).
THEOREM NothingIsForgotten == Spec => []NoForgottenCollapse
<1>1. IInv => NoForgottenCollapse
  BY DEF IInv
<1>. QED BY <1>1, Invariance, PTL

\* Whoever AppKit waits for has its reply: the completion of a quit is kept over every
\* collapse and restore that comes between (applicationShouldTerminate, restore).
THEOREM QuitIsPending == Spec => []QuitHasReply
<1>1. Init => QuitHasReply
  BY DEF Init, QuitHasReply
<1>2. IInv /\ QuitHasReply /\ [Next]_vars => QuitHasReply'
  BY ReplyStep
<1>. QED BY <1>1, <1>2, Invariance, PTL DEF Spec

\* The policy asks of the coordinator only what Lifecycle has, and only one step of it in
\* a handler: the coordinator it relies on is the one that Collapse implements.
THEOREM PolicyKeepsLifecycle == Spec => LifecycleSpec
<1>1. Init => LifecycleInit
  BY DEF Init
<1>. QED BY <1>1, CoordinatorStep, PTL DEF Spec, LifecycleSpec
=============================================================================
