----------------------------- MODULE FleetProofs -----------------------------
(***************************************************************************)
(* The safety of Fleet for any fleets, rebuilds and topologies: its types  *)
(* and the invariants that MCFleet checks.                                 *)
(***************************************************************************)
EXTENDS Fleet, TLAPS

\* A round that has not served holds no port, one that is not in a fleet's hands has
\* no owner, and what a group waits for is being stopped.
RoundsConsistent ==
  \A s \in Rounds :
    /\ round[s].phase \in {"free", "waiting"} => round[s].held = {}
    /\ round[s].phase \in {"free", "stopping"} => round[s].owner = None
    /\ \A q \in round[s].after : round[q].phase = "stopping"

\* A fleet that is not in use has displays only as long as it has a round.
IdsHaveRound ==
  \A f \in Fleets :
    f # fleet /\ currentIDs[f] # <<>> => \E r \in Rounds : round[r].owner = f

IInv ==
  /\ TypeOK /\ RoundsConsistent /\ IdsHaveRound
  /\ TopologyFollowed /\ ServersMatch /\ LockReachesServers

-----------------------------------------------------------------------------
(* What the helpers make of the rounds                                     *)

\* A rebuild of f into round r stops f's servers and lets nobody else's go.
LEMMA ReplaceOutcome ==
  ASSUME TypeOK, NEW f \in Fleets, NEW r \in Rounds,
         round[r].phase = "free", round' = Replace(f, r)
  PROVE  /\ round' \in [Rounds -> Round]
         /\ round'[r].owner = f /\ round'[r].ids = active
         /\ round'[r].phase = "waiting" /\ round'[r].held = {}
         /\ round'[r].after = Servers(f) /\ r \notin Servers(f)
         /\ \A s \in Servers(f) :
              /\ round'[s].phase = "stopping" /\ round'[s].owner = None
              /\ round'[s].after = {} /\ round'[s].held = round[s].held
         /\ \A s \in Rounds \ {r} : s \notin Servers(f) => round'[s] = round[s]
  BY DEF TypeOK, Replace, Servers, Stopping, NoRound, Round

\* Stop: likewise, with no round to follow.
LEMMA StopOutcome ==
  ASSUME TypeOK, fleet \in Fleets,
         round' = [r \in Rounds |-> IF r \in Servers(fleet) THEN Stopping(r)
                                                            ELSE round[r]]
  PROVE  /\ round' \in [Rounds -> Round]
         /\ \A s \in Servers(fleet) :
              /\ round'[s].phase = "stopping" /\ round'[s].owner = None
              /\ round'[s].after = {} /\ round'[s].held = round[s].held
         /\ \A s \in Rounds \ Servers(fleet) : round'[s] = round[s]
  BY DEF TypeOK, Servers, Stopping, NoRound, Round

\* A round that starts to serve holds ports of its own topology, and nothing else
\* changes.
LEMMA ServeOutcome ==
  ASSUME TypeOK, NEW r \in Rounds, Serve(r)
  PROVE  /\ round' \in [Rounds -> Round]
         /\ round'[r].phase = "serving" /\ round'[r].owner = round[r].owner
         /\ round'[r].ids = round[r].ids /\ round'[r].after = {}
         /\ round'[r].held
              = {p \in DOMAIN round[r].ids : \A s \in Rounds : p \notin round[s].held}
         /\ round'[r].told = (round[r].owner = fleet /\ screenLocked)
         /\ \A s \in Rounds \ {r} : round'[s] = round[s]
<1> DEFINE held == {p \in DOMAIN round[r].ids : \A s \in Rounds : p \notin round[s].held}
<1>1. round[r] \in Round
  BY DEF TypeOK
<1>2. DOMAIN round[r].ids \subseteq Ports
  <2>1. CASE round[r].ids \in Topologies
    BY <2>1 DEF Ports
  <2>2. CASE round[r].ids = <<>>
    BY <2>2
  <2> QED
    BY <1>1, <2>1, <2>2 DEF Round
<1>3. held \in SUBSET Ports
  BY <1>2
<1>4. (round[r].owner = fleet /\ screenLocked) \in BOOLEAN
  BY DEF TypeOK
<1>5. round' = [round EXCEPT ![r].phase = "serving",
                  ![r].told = (round[r].owner = fleet /\ screenLocked),
                  ![r].held = held]
  BY DEF Serve
<1>6. round[r].after = {}
  BY DEF Serve
<1> HIDE DEF held
<1>7. /\ round' \in [Rounds -> Round]
      /\ round'[r].phase = "serving" /\ round'[r].owner = round[r].owner
      /\ round'[r].ids = round[r].ids /\ round'[r].after = {}
      /\ round'[r].held = held
      /\ round'[r].told = (round[r].owner = fleet /\ screenLocked)
      /\ \A s \in Rounds \ {r} : round'[s] = round[s]
  BY <1>1, <1>3, <1>4, <1>5, <1>6 DEF TypeOK, Round
<1> QED
  BY <1>7 DEF held

\* Rounds that are forgotten are free and waited for by nobody; the others keep
\* everything else.
LEMMA ForgetOutcome ==
  ASSUME TypeOK, NEW R \in SUBSET Rounds, Forget(R)
  PROVE  /\ round' \in [Rounds -> Round]
         /\ \A s \in R : round'[s] = NoRound
         /\ \A s \in Rounds \ R :
              /\ round'[s].owner = round[s].owner /\ round'[s].ids = round[s].ids
              /\ round'[s].phase = round[s].phase /\ round'[s].held = round[s].held
              /\ round'[s].told = round[s].told
              /\ round'[s].after = round[s].after \ R
  BY DEF TypeOK, Forget, NoRound, Round

\* The lock state reaches the servers of the fleet in use and changes nothing else.
LEMMA SettleOutcome ==
  ASSUME TypeOK, LockSettles
  PROVE  /\ round' \in [Rounds -> Round]
         /\ \A s \in Rounds :
              /\ round'[s].owner = round[s].owner /\ round'[s].ids = round[s].ids
              /\ round'[s].phase = round[s].phase /\ round'[s].held = round[s].held
              /\ round'[s].after = round[s].after
              /\ s \in Servers(fleet) /\ round[s].told = screenLocked
                   => round'[s].told = screenLocked'
<1>1. locked \in BOOLEAN
  BY DEF TypeOK
<1>2. screenLocked' = locked
  BY DEF LockSettles
<1>3. CASE locked = screenLocked
  BY <1>2, <1>3 DEF TypeOK, LockSettles
<1>4. CASE locked # screenLocked
  <2>1. round' = [r \in Rounds |-> IF r \in Servers(fleet)
                    THEN [round[r] EXCEPT !.told = locked] ELSE round[r]]
    BY <1>4 DEF LockSettles
  <2>2. ASSUME NEW s \in Rounds
        PROVE  /\ round'[s] \in Round
               /\ round'[s].owner = round[s].owner /\ round'[s].ids = round[s].ids
               /\ round'[s].phase = round[s].phase /\ round'[s].held = round[s].held
               /\ round'[s].after = round[s].after
               /\ s \in Servers(fleet) => round'[s].told = locked
    <3>1. round[s] \in Round
      BY DEF TypeOK
    <3> QED
      BY <1>1, <2>1, <3>1 DEF Round
  <2> QED
    BY <1>2, <2>1, <2>2
<1> QED
  BY <1>3, <1>4

-----------------------------------------------------------------------------
(* Types                                                                   *)

\* A rebuild keeps the types, whichever of its ways it goes.
LEMMA RebuildTypes ==
  ASSUME TypeOK, fleet' \in Fleets \cup {None}, NEW f \in Fleets,
         NEW isCollapse \in BOOLEAN, Rebuild(f, isCollapse)
  PROVE  /\ currentIDs' \in [Fleets -> Topologies \cup {<<>>}]
         /\ round' \in [Rounds -> Round]
         /\ skipped' \in Topologies \cup {None}
         /\ rushed' \in BOOLEAN
<1>1. CASE UNCHANGED <<currentIDs, round, skipped, rushed>>
  BY <1>1 DEF TypeOK
<1>2. CASE skipped' = active /\ UNCHANGED <<currentIDs, round, rushed>>
  BY <1>2 DEF TypeOK
<1>3. CASE /\ \E r \in Rounds : round[r].phase = "free" /\ round' = Replace(f, r)
           /\ currentIDs' = [currentIDs EXCEPT ![f] = active]
           /\ rushed' = (fleet' # None /\ (rushed \/
                \E s \in Rounds \ Servers(f) : round[s].phase # "free"))
           /\ UNCHANGED skipped
  <2>1. round' \in [Rounds -> Round]
    BY <1>3, ReplaceOutcome
  <2>2. rushed' \in BOOLEAN
    BY <1>3
  <2> QED
    BY <1>3, <2>1, <2>2 DEF TypeOK
<1> QED
  BY <1>1, <1>2, <1>3 DEF Rebuild

\* Every step keeps the types.
LEMMA TypeStep ==
  ASSUME TypeOK, Next
  PROVE  TypeOK'
<1> USE FleetAssumption
<1>1. ASSUME NEW r \in Rounds, Serve(r)
      PROVE  TypeOK'
  BY <1>1, ServeOutcome DEF TypeOK, Serve, lockVars, markVars
<1>2. ASSUME NEW r \in Rounds, Cancelled(r)
      PROVE  TypeOK'
  <2>1. round' \in [Rounds -> Round]
    BY <1>2, ForgetOutcome DEF Cancelled
  <2> QED
    BY <1>2, <2>1 DEF TypeOK, Cancelled, lockVars, markVars
<1>3. ASSUME NEW t \in Topologies, TopologyChanges(t)
      PROVE  TypeOK'
  <2>1. nudged' \in [Fleets -> BOOLEAN]
    BY <1>3 DEF TypeOK, TopologyChanges
  <2> QED
    BY <1>3, <2>1 DEF TypeOK, TopologyChanges, lockVars, markVars
<1>4. ASSUME NEW f \in Fleets, RebuildSoon(f)
      PROVE  TypeOK'
  <2>1. Alive(f) \in BOOLEAN
    BY DEF Alive
  <2>2. /\ nudged' \in [Fleets -> BOOLEAN]
        /\ pendingRebuild' \in [Fleets -> BOOLEAN]
    BY <1>4, <2>1 DEF TypeOK, RebuildSoon
  <2> QED
    BY <1>4, <2>2 DEF TypeOK, RebuildSoon, lockVars, markVars
<1>5. ASSUME NEW f \in Fleets, RunRebuild(f)
      PROVE  TypeOK'
  <2>1. /\ currentIDs' \in [Fleets -> Topologies \cup {<<>>}]
        /\ round' \in [Rounds -> Round]
        /\ skipped' \in Topologies \cup {None}
        /\ rushed' \in BOOLEAN
    <3>1. CASE Alive(f)
      <4>1. (f = fleet /\ IsCollapseRebuild) \in BOOLEAN
        BY DEF IsCollapseRebuild
      <4>2. fleet' \in Fleets \cup {None}
        BY <1>5 DEF TypeOK, RunRebuild
      <4> QED
        BY <1>5, <3>1, <4>1, <4>2, RebuildTypes DEF RunRebuild
    <3>2. CASE ~Alive(f)
      BY <1>5, <3>2 DEF TypeOK, RunRebuild
    <3> QED
      BY <3>1, <3>2
  <2>2. pendingRebuild' \in [Fleets -> BOOLEAN]
    BY <1>5 DEF TypeOK, RunRebuild
  <2> QED
    BY <1>5, <2>1, <2>2 DEF TypeOK, RunRebuild, lockVars, markVars
<1>6. ASSUME NEW f \in Fleets, Start(f)
      PROVE  TypeOK'
  <2>1. /\ currentIDs' \in [Fleets -> Topologies \cup {<<>>}]
        /\ round' \in [Rounds -> Round]
        /\ skipped' \in Topologies \cup {None}
        /\ rushed' \in BOOLEAN
    BY <1>6, RebuildTypes DEF Start
  <2> QED
    BY <1>6, <2>1 DEF TypeOK, Start, markVars
<1>7. ASSUME NEW f \in Fleets, Released(f)
      PROVE  TypeOK'
  <2>1. Servers(f) \in SUBSET Rounds
    BY DEF Servers
  <2>2. round' \in [Rounds -> Round]
    BY <1>7, <2>1, ForgetOutcome DEF Released
  <2>3. currentIDs' \in [Fleets -> Topologies \cup {<<>>}]
    BY <1>7 DEF TypeOK, Released
  <2> QED
    BY <1>7, <2>2, <2>3 DEF TypeOK, Released, lockVars, markVars
<1>8. ASSUME NEW d \in Virtual, MarkCollapseCreated(d)
      PROVE  TypeOK'
  BY <1>8 DEF TypeOK, MarkCollapseCreated, lockVars
<1>9. CASE ClearSoon
  BY <1>9 DEF TypeOK, ClearSoon, lockVars
<1>10. CASE ClearMarks
  BY <1>10 DEF TypeOK, ClearMarks, lockVars
<1>11. CASE LockChanges
  <2>1. locked' \in BOOLEAN /\ notice' \in BOOLEAN
    BY <1>11 DEF LockChanges
  <2> QED
    BY <1>11, <2>1 DEF TypeOK, LockChanges, markVars
<1>12. CASE LockNotice
  BY <1>12 DEF TypeOK, LockNotice, markVars
<1>13. CASE LockSettles
  <2>1. round' \in [Rounds -> Round]
    BY <1>13, SettleOutcome
  <2> QED
    BY <1>13, <2>1 DEF TypeOK, LockSettles, markVars
<1>14. CASE Stop
  <2>1. round' \in [Rounds -> Round]
    BY <1>14, StopOutcome DEF TypeOK, Stop
  <2>2. /\ currentIDs' \in [Fleets -> Topologies \cup {<<>>}]
        /\ pendingRebuild' \in [Fleets -> BOOLEAN]
    BY <1>14 DEF TypeOK, Stop
  <2>3. /\ active' = active /\ fleet' = None /\ locked' = locked /\ nudged' = nudged
        /\ collapseCreated' = {} /\ clearing' = 0 /\ skipped' = None
    BY <1>14 DEF Stop, ForgetInUse
  <2>4. /\ notice' = FALSE /\ pendingLockSettle' = FALSE /\ screenLocked' = FALSE
        /\ rushed' = FALSE
    BY <1>14 DEF Stop, ForgetInUse
  <2>5. {locked', screenLocked', notice', pendingLockSettle'} \subseteq BOOLEAN
    BY <2>3, <2>4 DEF TypeOK
  <2>6. rushed' \in BOOLEAN
    BY <2>4
  <2>7. clearing' \in 0..MaxClears
    BY <2>3
  <2> QED
    BY <2>1, <2>2, <2>3, <2>5, <2>6, <2>7 DEF TypeOK
<1> QED
  BY <1>1, <1>2, <1>3, <1>4, <1>5, <1>6, <1>7, <1>8, <1>9, <1>10, <1>11, <1>12,
     <1>13, <1>14 DEF Next

-----------------------------------------------------------------------------
(* The rounds                                                              *)

\* A step leaves the rounds alone, or is one of those that make, start, stop or
\* end them.
LEMMA StepsOfRounds ==
  ASSUME TypeOK, Next
  PROVE  \/ \E r \in Rounds : Serve(r) \/ Cancelled(r)
         \/ \E f \in Fleets, r \in Rounds :
              /\ round[r].phase = "free" /\ round' = Replace(f, r)
              /\ currentIDs' = [currentIDs EXCEPT ![f] = active]
              /\ active' = active
              /\ rushed' = (fleet' # None /\ (rushed \/
                   \E s \in Rounds \ Servers(f) : round[s].phase # "free"))
              /\ \/ fleet' = fleet /\ screenLocked' = screenLocked /\ Alive(f)
                 \/ /\ fleet = None /\ fleet' = f
                    /\ \A s \in Rounds : round[s].owner # f
         \/ \E f \in Fleets : Released(f)
         \/ LockSettles
         \/ Stop
         \/ UNCHANGED <<fleet, currentIDs, round, rushed, screenLocked>>
         \/ \E f \in Fleets :
              /\ Start(f) /\ active = currentIDs[f]
              /\ UNCHANGED <<currentIDs, round, rushed>>
<1>1. ASSUME NEW f \in Fleets, RunRebuild(f)
      PROVE  \/ \E r \in Rounds :
                  /\ round[r].phase = "free" /\ round' = Replace(f, r)
                  /\ currentIDs' = [currentIDs EXCEPT ![f] = active]
                  /\ active' = active
                  /\ rushed' = (fleet' # None /\ (rushed \/
                       \E s \in Rounds \ Servers(f) : round[s].phase # "free"))
                  /\ fleet' = fleet /\ screenLocked' = screenLocked /\ Alive(f)
             \/ UNCHANGED <<fleet, currentIDs, round, rushed, screenLocked>>
  BY <1>1 DEF RunRebuild, Rebuild, lockVars
<1>2. ASSUME NEW f \in Fleets, Start(f)
      PROVE  \/ \E r \in Rounds :
                  /\ round[r].phase = "free" /\ round' = Replace(f, r)
                  /\ currentIDs' = [currentIDs EXCEPT ![f] = active]
                  /\ active' = active
                  /\ rushed' = (fleet' # None /\ (rushed \/
                       \E s \in Rounds \ Servers(f) : round[s].phase # "free"))
                  /\ fleet = None /\ fleet' = f
                  /\ \A s \in Rounds : round[s].owner # f
             \/ active = currentIDs[f] /\ UNCHANGED <<currentIDs, round, rushed>>
  BY <1>2 DEF Start, Rebuild
<1>3. ASSUME \/ \E t \in Topologies : TopologyChanges(t)
             \/ \E f \in Fleets : RebuildSoon(f)
             \/ \E d \in Virtual : MarkCollapseCreated(d)
             \/ ClearSoon \/ ClearMarks \/ LockChanges \/ LockNotice
      PROVE  UNCHANGED <<fleet, currentIDs, round, rushed, screenLocked>>
  BY <1>3 DEF TopologyChanges, RebuildSoon, MarkCollapseCreated, ClearSoon,
              ClearMarks, LockChanges, LockNotice, lockVars
<1> QED
  BY <1>1, <1>2, <1>3 DEF Next

\* What a round waits for is stopping: nothing that a step lets go on is in it.
LEMMA RoundsStep ==
  ASSUME TypeOK, RoundsConsistent, Next
  PROVE  RoundsConsistent'
<1> DEFINE Q(s) == /\ round'[s].phase \in {"free", "waiting"} => round'[s].held = {}
                   /\ round'[s].phase \in {"free", "stopping"} => round'[s].owner = None
                   /\ \A q \in round'[s].after : round'[q].phase = "stopping"
<1> SUFFICES ASSUME NEW s \in Rounds
             PROVE  Q(s)
  BY DEF RoundsConsistent
<1>a. /\ round[s].phase \in {"free", "waiting"} => round[s].held = {}
      /\ round[s].phase \in {"free", "stopping"} => round[s].owner = None
      /\ \A q \in round[s].after : q \in Rounds /\ round[q].phase = "stopping"
  BY DEF RoundsConsistent, TypeOK, Round
<1>1. CASE \E r \in Rounds : Serve(r)
  <2>1. PICK r \in Rounds : Serve(r)
    BY <1>1
  <2>2. round[r].phase = "waiting"
    BY <2>1 DEF Serve
  <2> QED
    BY <1>a, <2>1, <2>2, ServeOutcome
<1>2. CASE \E r \in Rounds : Cancelled(r)
  <2>1. PICK r \in Rounds : Cancelled(r)
    BY <1>2
  <2>2. Forget({r})
    BY <2>1 DEF Cancelled
  <2> QED
    BY <1>a, <2>2, ForgetOutcome DEF NoRound
<1>3. CASE \E f \in Fleets, r \in Rounds :
             round[r].phase = "free" /\ round' = Replace(f, r)
  <2>1. PICK f \in Fleets, r \in Rounds :
               round[r].phase = "free" /\ round' = Replace(f, r)
    BY <1>3
  <2>2. \A q \in Servers(f) : q \in Rounds /\ round[q].phase = "serving"
    BY DEF Servers
  <2>3. CASE s = r
    BY <2>1, <2>2, <2>3, ReplaceOutcome
  <2>4. CASE s \in Servers(f)
    BY <2>1, <2>4, ReplaceOutcome
  <2>5. CASE s # r /\ s \notin Servers(f)
    BY <1>a, <2>1, <2>2, <2>5, ReplaceOutcome
  <2> QED
    BY <2>3, <2>4, <2>5
<1>4. CASE \E f \in Fleets : Released(f)
  <2>1. PICK f \in Fleets : Released(f)
    BY <1>4
  <2>2. Servers(f) \in SUBSET Rounds /\ Forget(Servers(f))
    BY <2>1 DEF Released, Servers
  <2> QED
    BY <1>a, <2>2, ForgetOutcome DEF NoRound
<1>5. CASE LockSettles
  BY <1>a, <1>5, SettleOutcome
<1>6. CASE Stop
  <2>1. \A q \in Servers(fleet) : q \in Rounds /\ round[q].phase = "serving"
    BY DEF Servers
  <2>2. /\ \A q \in Servers(fleet) :
             /\ round'[q].phase = "stopping" /\ round'[q].owner = None
             /\ round'[q].after = {} /\ round'[q].held = round[q].held
        /\ \A q \in Rounds \ Servers(fleet) : round'[q] = round[q]
    BY <1>6, StopOutcome DEF Stop, TypeOK
  <2> QED
    BY <1>a, <2>1, <2>2
<1>7. CASE UNCHANGED round
  BY <1>a, <1>7
<1> QED
  BY <1>1, <1>2, <1>3, <1>4, <1>5, <1>6, <1>7, StepsOfRounds

\* The displays of a fleet that is out of use go with its last round.
LEMMA IdsStep ==
  ASSUME TypeOK, RoundsConsistent, IdsHaveRound, Next
  PROVE  IdsHaveRound'
<1> USE FleetAssumption
<1> SUFFICES ASSUME NEW g \in Fleets, g # fleet', currentIDs'[g] # <<>>
             PROVE  \E r \in Rounds : round'[r].owner = g
  BY DEF IdsHaveRound
<1>a. g # fleet /\ currentIDs[g] # <<>> => \E r \in Rounds : round[r].owner = g
  BY DEF IdsHaveRound
<1>b. \A r \in Rounds : round[r].phase \in {"free", "stopping"} => round[r].owner # g
  BY DEF RoundsConsistent
<1>1. CASE \E r \in Rounds : Serve(r)
  <2>1. PICK r \in Rounds : Serve(r)
    BY <1>1
  <2>2. fleet' = fleet /\ currentIDs' = currentIDs
    BY <2>1 DEF Serve
  <2> QED
    BY <1>a, <2>1, <2>2, ServeOutcome
<1>2. CASE \E r \in Rounds : Cancelled(r)
  <2>1. PICK r \in Rounds : Cancelled(r)
    BY <1>2
  <2>2. /\ fleet' = fleet /\ currentIDs' = currentIDs
        /\ round[r].phase = "stopping" /\ Forget({r})
    BY <2>1 DEF Cancelled
  <2> QED
    BY <1>a, <1>b, <2>2, ForgetOutcome
<1>3. CASE \E f \in Fleets, r \in Rounds :
             /\ round[r].phase = "free" /\ round' = Replace(f, r)
             /\ currentIDs' = [currentIDs EXCEPT ![f] = active]
             /\ \/ fleet' = fleet
                \/ fleet = None
  <2>1. PICK f \in Fleets, r \in Rounds :
             /\ round[r].phase = "free" /\ round' = Replace(f, r)
             /\ currentIDs' = [currentIDs EXCEPT ![f] = active]
             /\ \/ fleet' = fleet
                \/ fleet = None
    BY <1>3
  <2>2. CASE g = f
    BY <2>1, <2>2, ReplaceOutcome
  <2>3. CASE g # f
    <3>1. PICK q \in Rounds : round[q].owner = g
      BY <1>a, <2>1, <2>3 DEF TypeOK
    <3>2. q # r /\ q \notin Servers(f)
      BY <1>b, <2>1, <2>3, <3>1 DEF Servers
    <3> QED
      BY <2>1, <3>1, <3>2, ReplaceOutcome
  <2> QED
    BY <2>2, <2>3
<1>4. CASE \E f \in Fleets : Released(f)
  <2>1. PICK f \in Fleets : Released(f)
    BY <1>4
  <2>2. /\ Servers(f) \in SUBSET Rounds /\ Forget(Servers(f)) /\ fleet' = fleet
        /\ currentIDs' = [currentIDs EXCEPT ![f] = <<>>]
    BY <2>1 DEF Released, Servers
  <2>3. g # f
    BY <2>2 DEF TypeOK
  <2>4. PICK q \in Rounds : round[q].owner = g
    BY <1>a, <2>2, <2>3 DEF TypeOK
  <2> QED
    BY <2>2, <2>3, <2>4, ForgetOutcome DEF Servers
<1>5. CASE LockSettles
  <2>1. fleet' = fleet /\ currentIDs' = currentIDs
    BY <1>5 DEF LockSettles
  <2> QED
    BY <1>a, <1>5, <2>1, SettleOutcome
<1>6. CASE Stop
  <2>1. /\ fleet \in Fleets /\ currentIDs' = [currentIDs EXCEPT ![fleet] = <<>>]
        /\ \A q \in Rounds \ Servers(fleet) : round'[q] = round[q]
    BY <1>6, StopOutcome DEF Stop, TypeOK
  <2>2. g # fleet
    BY <2>1 DEF TypeOK
  <2>3. PICK q \in Rounds : round[q].owner = g
    BY <1>a, <2>1, <2>2 DEF TypeOK
  <2> QED
    BY <2>1, <2>2, <2>3 DEF Servers
<1>7. CASE UNCHANGED <<fleet, currentIDs, round>>
  BY <1>a, <1>7
<1>8. CASE \E f \in Fleets : Start(f) /\ UNCHANGED <<currentIDs, round>>
  <2>1. fleet = None
    BY <1>8 DEF Start
  <2> QED
    BY <1>a, <1>8, <2>1
<1> QED
  BY <1>1, <1>2, <1>3, <1>4, <1>5, <1>6, <1>7, <1>8, StepsOfRounds

-----------------------------------------------------------------------------
(* The displays                                                            *)

\* A change is followed: whoever lowers a flag raises the next or compares.
LEMMA TopologyStep ==
  ASSUME TypeOK, TopologyFollowed, Next
  PROVE  TopologyFollowed'
<1> USE FleetAssumption
<1> DEFINE P == \/ Range(currentIDs[fleet]) = Range(active)
                \/ nudged[fleet] \/ pendingRebuild[fleet]
                \/ skipped # None /\ Range(skipped) = Range(active)
           Now == \/ Range(currentIDs'[fleet']) = Range(active')
                  \/ nudged'[fleet'] \/ pendingRebuild'[fleet']
                  \/ skipped' # None /\ Range(skipped') = Range(active')
<1> SUFFICES ASSUME fleet' # None
             PROVE  Now
  BY DEF TopologyFollowed
<1>a. fleet # None => P /\ fleet \in Fleets
  BY DEF TopologyFollowed, TypeOK
<1>1. CASE UNCHANGED <<fleet, currentIDs, active, nudged, pendingRebuild, skipped>>
  BY <1>a, <1>1
<1>2. ASSUME NEW t \in Topologies, TopologyChanges(t)
      PROVE  Now
  <2>1. fleet \in Fleets /\ fleet' = fleet /\ currentIDs' = currentIDs /\ active' = t
        /\ pendingRebuild' = pendingRebuild /\ skipped' = skipped
    BY <1>2, <1>a DEF TopologyChanges
  <2>2. CASE Range(t) = Range(active)
    <3>1. nudged' = nudged
      BY <1>2, <2>2 DEF TopologyChanges
    <3> QED
      BY <1>a, <2>1, <2>2, <3>1
  <2>3. CASE Range(t) # Range(active)
    <3>1. nudged'[fleet] = TRUE
      BY <1>2, <2>1, <2>3 DEF TopologyChanges, TypeOK
    <3> QED
      BY <2>1, <3>1
  <2> QED
    BY <2>2, <2>3
<1>3. ASSUME NEW f \in Fleets, RebuildSoon(f)
      PROVE  Now
  <2>1. fleet \in Fleets /\ fleet' = fleet /\ currentIDs' = currentIDs /\ active' = active
        /\ skipped' = skipped
        /\ nudged' = [nudged EXCEPT ![f] = FALSE]
        /\ pendingRebuild' = [pendingRebuild EXCEPT ![f] = Alive(f)]
    BY <1>3, <1>a DEF RebuildSoon
  <2>2. CASE f = fleet
    <3>1. Alive(f)
      BY <2>2 DEF Alive
    <3>2. pendingRebuild'[fleet]
      BY <2>1, <2>2, <3>1 DEF TypeOK
    <3> QED
      BY <2>1, <3>2
  <2>3. CASE f # fleet
    <3>1. nudged'[fleet] = nudged[fleet] /\ pendingRebuild'[fleet] = pendingRebuild[fleet]
      BY <2>1, <2>3 DEF TypeOK
    <3> QED
      BY <1>a, <2>1, <3>1
  <2> QED
    BY <2>2, <2>3
<1>4. ASSUME NEW f \in Fleets, RunRebuild(f)
      PROVE  Now
  <2>1. fleet \in Fleets /\ fleet' = fleet /\ active' = active /\ nudged' = nudged
        /\ pendingRebuild' = [pendingRebuild EXCEPT ![f] = FALSE]
    BY <1>4, <1>a DEF RunRebuild
  <2>2. CASE f = fleet
    <3>1. Rebuild(f, f = fleet /\ IsCollapseRebuild)
      BY <1>4, <2>2 DEF RunRebuild, Alive
    <3>2. CASE active = currentIDs[f] /\ currentIDs' = currentIDs
      BY <2>1, <2>2, <3>2
    <3>3. CASE skipped' = active
      BY <2>1, <3>3 DEF TypeOK
    <3>4. CASE currentIDs' = [currentIDs EXCEPT ![f] = active]
      <4>1. currentIDs'[fleet'] = active'
        BY <2>1, <2>2, <3>4 DEF TypeOK
      <4> QED
        BY <4>1
    <3> QED
      BY <3>1, <3>2, <3>3, <3>4 DEF Rebuild
  <2>3. CASE f # fleet
    <3>1. pendingRebuild'[fleet] = pendingRebuild[fleet]
      BY <2>1, <2>3 DEF TypeOK
    <3>2. currentIDs'[fleet] = currentIDs[fleet]
      BY <1>4, <2>1, <2>3 DEF TypeOK, RunRebuild, Rebuild
    <3>3. skipped' = skipped
      BY <1>4, <2>3 DEF RunRebuild, Rebuild
    <3> QED
      BY <1>a, <2>1, <3>1, <3>2, <3>3
  <2> QED
    BY <2>2, <2>3
<1>5. ASSUME NEW f \in Fleets, Start(f)
      PROVE  Now
  <2>1. fleet' = f /\ active' = active
    BY <1>5 DEF Start
  <2>2. CASE active = currentIDs[f] /\ currentIDs' = currentIDs
    BY <2>1, <2>2
  <2>3. CASE currentIDs' = [currentIDs EXCEPT ![f] = active]
    <3>1. currentIDs'[fleet'] = active'
      BY <2>1, <2>3 DEF TypeOK
    <3> QED
      BY <3>1
  <2> QED
    BY <1>5, <2>2, <2>3 DEF Start, Rebuild
<1>6. ASSUME NEW f \in Fleets, Released(f)
      PROVE  Now
  <2>1. fleet \in Fleets /\ f # fleet /\ fleet' = fleet /\ active' = active
        /\ nudged' = nudged /\ pendingRebuild' = pendingRebuild /\ skipped' = skipped
        /\ currentIDs' = [currentIDs EXCEPT ![f] = <<>>]
    BY <1>6, <1>a DEF Released, Alive
  <2>2. currentIDs'[fleet] = currentIDs[fleet]
    BY <2>1 DEF TypeOK
  <2> QED
    BY <1>a, <2>1, <2>2
<1>7. CASE Stop
  BY <1>7 DEF Stop
<1>8. ASSUME \/ \E r \in Rounds : Serve(r) \/ Cancelled(r)
             \/ \E d \in Virtual : MarkCollapseCreated(d)
             \/ ClearSoon \/ ClearMarks \/ LockChanges \/ LockNotice \/ LockSettles
      PROVE  UNCHANGED <<fleet, currentIDs, active, nudged, pendingRebuild, skipped>>
  BY <1>8 DEF Serve, Cancelled, MarkCollapseCreated, ClearSoon, ClearMarks,
              LockChanges, LockNotice, LockSettles
<1> QED
  BY <1>1, <1>2, <1>3, <1>4, <1>5, <1>6, <1>7, <1>8 DEF Next

-----------------------------------------------------------------------------
(* The servers                                                             *)

\* Every server has the state that its fleet was last told.
LEMMA LockStep ==
  ASSUME TypeOK, RoundsConsistent, LockReachesServers, Next
  PROVE  LockReachesServers'
<1> USE FleetAssumption
<1> DEFINE Known == screenLocked' = locked' \/ notice' \/ pendingLockSettle'
<1> SUFFICES ASSUME fleet' # None
             PROVE  /\ Known
                    /\ \A s \in Rounds :
                         round'[s].owner = fleet' /\ round'[s].phase = "serving"
                           => round'[s].told = screenLocked'
  BY DEF LockReachesServers, Servers
<1>a. fleet # None =>
        /\ screenLocked = locked \/ notice \/ pendingLockSettle
        /\ \A s \in Rounds :
             round[s].owner = fleet /\ round[s].phase = "serving"
               => round[s].told = screenLocked
  BY DEF LockReachesServers, Servers
<1>1. Known
  <2>1. ASSUME NEW f \in Fleets, Start(f)
        PROVE  Known
    BY <2>1 DEF Start
  <2>2. CASE Stop
    BY <2>2 DEF Stop
  <2>3. CASE LockChanges
    BY <2>3 DEF LockChanges
  <2>4. CASE LockNotice
    BY <2>4 DEF LockNotice
  <2>5. CASE LockSettles
    BY <2>5 DEF LockSettles
  <2>6. CASE UNCHANGED <<fleet, screenLocked, locked, notice, pendingLockSettle>>
    BY <1>a, <2>6
  <2>7. ASSUME \/ \E r \in Rounds : Serve(r) \/ Cancelled(r)
               \/ \E t \in Topologies : TopologyChanges(t)
               \/ \E f \in Fleets : RebuildSoon(f) \/ RunRebuild(f) \/ Released(f)
               \/ \E d \in Virtual : MarkCollapseCreated(d)
               \/ ClearSoon \/ ClearMarks
        PROVE  UNCHANGED <<fleet, screenLocked, locked, notice, pendingLockSettle>>
    BY <2>7 DEF Serve, Cancelled, TopologyChanges, RebuildSoon, RunRebuild, Released,
                MarkCollapseCreated, ClearSoon, ClearMarks, lockVars
  <2> QED
    BY <2>1, <2>2, <2>3, <2>4, <2>5, <2>6, <2>7 DEF Next
<1>2. ASSUME NEW s \in Rounds, round'[s].owner = fleet', round'[s].phase = "serving"
      PROVE  round'[s].told = screenLocked'
  <2>1. CASE \E r \in Rounds : Serve(r)
    <3>1. PICK r \in Rounds : Serve(r)
      BY <2>1
    <3>2. fleet' = fleet /\ screenLocked' = screenLocked
      BY <3>1 DEF Serve, lockVars
    <3>3. screenLocked \in BOOLEAN
      BY DEF TypeOK
    <3>4. CASE s = r
      <4>1. round'[s].owner = round[s].owner
        BY <3>1, <3>4, ServeOutcome
      <4>2. round'[s].told = (round[s].owner = fleet /\ screenLocked)
        BY <3>1, <3>4, ServeOutcome
      <4> QED
        BY <1>2, <3>2, <3>3, <4>1, <4>2
    <3>5. CASE s # r
      <4>1. round'[s] = round[s]
        BY <3>1, <3>5, ServeOutcome
      <4> QED
        BY <1>a, <1>2, <3>2, <4>1
    <3> QED
      BY <3>4, <3>5
  <2>2. CASE \E r \in Rounds : Cancelled(r)
    <3>1. PICK r \in Rounds : Cancelled(r)
      BY <2>2
    <3>2. fleet' = fleet /\ screenLocked' = screenLocked /\ Forget({r})
      BY <3>1 DEF Cancelled, lockVars
    <3>3. s # r
      BY <1>2, <3>2, ForgetOutcome DEF NoRound
    <3> QED
      BY <1>a, <1>2, <3>2, <3>3, ForgetOutcome
  <2>3. CASE \E f \in Fleets, r \in Rounds :
               /\ round[r].phase = "free" /\ round' = Replace(f, r)
               /\ \/ fleet' = fleet /\ screenLocked' = screenLocked
                  \/ fleet' = f /\ \A q \in Rounds : round[q].owner # f
    <3>1. PICK f \in Fleets, r \in Rounds :
               /\ round[r].phase = "free" /\ round' = Replace(f, r)
               /\ \/ fleet' = fleet /\ screenLocked' = screenLocked
                  \/ fleet' = f /\ \A q \in Rounds : round[q].owner # f
      BY <2>3
    <3>2. s # r /\ s \notin Servers(f)
      BY <1>2, <3>1, ReplaceOutcome
    <3>3. round'[s] = round[s]
      BY <3>1, <3>2, ReplaceOutcome
    <3> QED
      BY <1>a, <1>2, <3>1, <3>3
  <2>4. CASE \E f \in Fleets : Released(f)
    <3>1. PICK f \in Fleets : Released(f)
      BY <2>4
    <3>2. /\ Servers(f) \in SUBSET Rounds /\ Forget(Servers(f))
          /\ fleet' = fleet /\ screenLocked' = screenLocked
      BY <3>1 DEF Released, Servers, lockVars
    <3>3. s \notin Servers(f)
      BY <1>2, <3>2, ForgetOutcome DEF NoRound
    <3> QED
      BY <1>a, <1>2, <3>2, <3>3, ForgetOutcome
  <2>5. CASE LockSettles
    <3>1. fleet' = fleet
      BY <2>5 DEF LockSettles
    <3> QED
      BY <1>a, <1>2, <2>5, <3>1, SettleOutcome DEF Servers
  <2>6. CASE Stop
    BY <2>6 DEF Stop
  <2>7. CASE UNCHANGED <<fleet, round, screenLocked>>
    BY <1>a, <1>2, <2>7
  <2>8. CASE \E f \in Fleets : Start(f) /\ UNCHANGED round
    BY <1>2, <2>8 DEF Start
  <2> QED
    BY <2>1, <2>2, <2>3, <2>4, <2>5, <2>6, <2>7, <2>8, StepsOfRounds
<1> QED
  BY <1>1, <1>2

\* What ServersMatch says of a round: the fleet's servers are in it, and nobody
\* else has a port that it does not wait for.
LEMMA ServersStep ==
  ASSUME TypeOK, RoundsConsistent, IdsHaveRound, ServersMatch, Next
  PROVE  ServersMatch'
<1> USE FleetAssumption
<1> DEFINE IsMatch(w) ==
      /\ round'[w].owner = fleet'
      /\ round'[w].ids = currentIDs'[fleet']
      /\ \/ round'[w].phase = "waiting"
         \/ round'[w].phase = "serving" /\ round'[w].held = DOMAIN currentIDs'[fleet']
      /\ \A s \in Rounds \ {w} : round'[s].phase = "free" \/ s \in round'[w].after
<1> SUFFICES ASSUME fleet' # None, ~rushed'
             PROVE  \E w \in Rounds : IsMatch(w)
  BY DEF ServersMatch
<1>1. CASE \E f \in Fleets, r \in Rounds :
             /\ round[r].phase = "free" /\ round' = Replace(f, r)
             /\ currentIDs' = [currentIDs EXCEPT ![f] = active]
             /\ rushed' = (fleet' # None /\ (rushed \/
                  \E s \in Rounds \ Servers(f) : round[s].phase # "free"))
             /\ \/ fleet' = fleet
                \/ fleet = None /\ fleet' = f
  <2>1. PICK f \in Fleets, r \in Rounds :
             /\ round[r].phase = "free" /\ round' = Replace(f, r)
             /\ currentIDs' = [currentIDs EXCEPT ![f] = active]
             /\ rushed' = (fleet' # None /\ (rushed \/
                  \E s \in Rounds \ Servers(f) : round[s].phase # "free"))
             /\ \/ fleet' = fleet
                \/ fleet = None /\ fleet' = f
    BY <1>1
  <2>2. ~rushed /\ \A s \in Rounds \ Servers(f) : round[s].phase = "free"
    BY <2>1
  <2>3. fleet' = f
    <3> SUFFICES ASSUME fleet' = fleet, f # fleet
                 PROVE  FALSE
      BY <2>1
    <3>1. PICK w \in Rounds : /\ round[w].owner = fleet
                              /\ round[w].phase \in {"waiting", "serving"}
      BY <2>2 DEF ServersMatch
    <3> QED
      BY <2>2, <3>1 DEF Servers
  <2>4. /\ round'[r].owner = f /\ round'[r].ids = active
        /\ round'[r].phase = "waiting" /\ round'[r].after = Servers(f)
        /\ \A s \in Rounds \ {r} : s \notin Servers(f) => round'[s] = round[s]
    BY <2>1, ReplaceOutcome
  <2>5. currentIDs'[f] = active
    BY <2>1 DEF TypeOK
  <2>6. IsMatch(r)
    BY <2>2, <2>3, <2>4, <2>5
  <2> QED
    BY <2>6
<1>2. CASE fleet' = fleet /\ rushed' = rushed /\ fleet \in Fleets
  <2>1. PICK w \in Rounds :
          /\ round[w].owner = fleet
          /\ round[w].ids = currentIDs[fleet]
          /\ \/ round[w].phase = "waiting"
             \/ round[w].phase = "serving" /\ round[w].held = DOMAIN currentIDs[fleet]
          /\ \A s \in Rounds \ {w} : round[s].phase = "free" \/ s \in round[w].after
    BY <1>2 DEF ServersMatch
  <2>2. \A s \in Rounds \ {w} : round[s].phase = "free" \/ round[s].phase = "stopping"
    BY <2>1 DEF RoundsConsistent
  <2>3. CASE \E r \in Rounds : Serve(r)
    <3>1. PICK r \in Rounds : Serve(r)
      BY <2>3
    <3>2. /\ round[r].phase = "waiting" /\ round[r].after = {}
          /\ currentIDs' = currentIDs
      BY <3>1 DEF Serve
    <3>3. r = w
      BY <2>2, <3>2
    <3>4. \A s \in Rounds : round[s].held = {}
      BY <2>1, <3>2, <3>3 DEF RoundsConsistent
    <3>5. /\ round'[w].phase = "serving" /\ round'[w].owner = round[w].owner
          /\ round'[w].ids = round[w].ids
          /\ round'[w].held
               = {p \in DOMAIN round[w].ids : \A s \in Rounds : p \notin round[s].held}
          /\ \A s \in Rounds \ {w} : round'[s] = round[s]
      BY <3>1, <3>3, ServeOutcome
    <3>6. round'[w].held = DOMAIN round[w].ids
      BY <3>4, <3>5
    <3>7. IsMatch(w)
      BY <1>2, <2>1, <3>2, <3>3, <3>5, <3>6
    <3> QED
      BY <3>7
  <2>4. CASE \E r \in Rounds : Cancelled(r)
    <3>1. PICK r \in Rounds : Cancelled(r)
      BY <2>4
    <3>2. round[r].phase = "stopping" /\ Forget({r}) /\ currentIDs' = currentIDs
      BY <3>1 DEF Cancelled
    <3>3. w # r
      BY <2>1, <3>2
    <3>4. IsMatch(w)
      BY <1>2, <2>1, <3>2, <3>3, ForgetOutcome DEF NoRound
    <3> QED
      BY <3>4
  <2>5. CASE \E f \in Fleets : Released(f)
    <3>1. PICK f \in Fleets : Released(f)
      BY <2>5
    <3>2. /\ Servers(f) \in SUBSET Rounds /\ Forget(Servers(f)) /\ f # fleet
          /\ currentIDs' = [currentIDs EXCEPT ![f] = <<>>]
      BY <3>1 DEF Released, Servers, Alive
    <3>3. w \notin Servers(f)
      BY <2>1, <3>2 DEF Servers
    <3>4. currentIDs'[fleet] = currentIDs[fleet]
      BY <1>2, <3>2 DEF TypeOK
    <3>5. IsMatch(w)
      BY <1>2, <2>1, <3>2, <3>3, <3>4, ForgetOutcome DEF NoRound
    <3> QED
      BY <3>5
  <2>6. CASE LockSettles
    <3>1. currentIDs' = currentIDs
      BY <2>6 DEF LockSettles
    <3>2. IsMatch(w)
      BY <1>2, <2>1, <2>6, <3>1, SettleOutcome
    <3> QED
      BY <3>2
  <2>7. CASE UNCHANGED <<currentIDs, round>>
    <3>1. IsMatch(w)
      BY <1>2, <2>1, <2>7
    <3> QED
      BY <3>1
  <2>8. CASE Stop
    BY <2>8 DEF Stop
  <2> QED
    BY <1>1, <2>3, <2>4, <2>5, <2>6, <2>7, <2>8, StepsOfRounds
<1>3. CASE \E f \in Fleets : Start(f) /\ active = currentIDs[f]
  <2>1. PICK f \in Fleets : Start(f) /\ active = currentIDs[f]
    BY <1>3
  <2>2. currentIDs[f] # <<>>
    BY <2>1 DEF TypeOK
  <2>3. f # fleet /\ \A r \in Rounds : round[r].owner # f
    BY <2>1 DEF Start
  <2> QED
    BY <2>2, <2>3 DEF IdsHaveRound
<1>4. ASSUME \/ \E r \in Rounds : Serve(r) \/ Cancelled(r)
             \/ \E f \in Fleets : Released(f)
             \/ LockSettles
             \/ UNCHANGED <<fleet, rushed>>
      PROVE  fleet' = fleet /\ rushed' = rushed /\ fleet \in Fleets
  BY <1>4 DEF TypeOK, Serve, Cancelled, Released, LockSettles
<1>5. CASE Stop
  BY <1>5 DEF Stop
<1> QED
  BY <1>1, <1>2, <1>3, <1>4, <1>5, StepsOfRounds

-----------------------------------------------------------------------------
(* The theorems                                                            *)

\* The invariant holds at first and every step keeps it.
LEMMA Invariance == Spec => []IInv
<1> USE FleetAssumption
<1>1. Init => IInv
  <2> SUFFICES ASSUME Init
               PROVE  IInv
    OBVIOUS
  <2>1. round \in [Rounds -> Round]
    BY DEF Init, NoRound, Round
  <2>2. /\ locked \in BOOLEAN /\ screenLocked = FALSE /\ notice = FALSE
        /\ pendingLockSettle = FALSE /\ rushed = FALSE /\ clearing = 0
    BY DEF Init
  <2>3. {locked, screenLocked, notice, pendingLockSettle} \subseteq BOOLEAN
    BY <2>2
  <2>a. rushed \in BOOLEAN
    BY <2>2
  <2>4. clearing \in 0..MaxClears
    BY <2>2
  <2>5. TypeOK
    BY <2>1, <2>3, <2>a, <2>4 DEF Init, TypeOK
  <2>6. RoundsConsistent
    BY DEF Init, RoundsConsistent, NoRound
  <2>7. IdsHaveRound
    BY DEF Init, IdsHaveRound
  <2>8. fleet = None
    BY DEF Init
  <2>9. TopologyFollowed /\ ServersMatch /\ LockReachesServers
    BY <2>8 DEF TopologyFollowed, ServersMatch, LockReachesServers
  <2> QED
    BY <2>5, <2>6, <2>7, <2>9 DEF IInv
<1>2. IInv /\ [Next]_vars => IInv'
  <2>1. ASSUME IInv, Next
        PROVE  IInv'
    BY <2>1, TypeStep, RoundsStep, IdsStep, TopologyStep, ServersStep, LockStep DEF IInv
  <2>2. ASSUME IInv, UNCHANGED vars
        PROVE  IInv'
    <3> USE DEF vars, lockVars, markVars
    <3>1. TypeOK'
      BY <2>2 DEF IInv, TypeOK
    <3>2. RoundsConsistent' /\ IdsHaveRound'
      BY <2>2 DEF IInv, RoundsConsistent, IdsHaveRound
    <3>3. TopologyFollowed' /\ ServersMatch'
      BY <2>2 DEF IInv, TopologyFollowed, ServersMatch
    <3>4. LockReachesServers'
      BY <2>2 DEF IInv, LockReachesServers, Servers
    <3> QED
      BY <3>1, <3>2, <3>3, <3>4 DEF IInv
  <2> QED
    BY <2>1, <2>2
<1> QED
  BY <1>1, <1>2, PTL DEF Spec

\* Every reachable state has the declared types: the state that StreamFleet and
\* the app keep never becomes one that the code has no name for.
THEOREM TypeCorrect == Spec => []TypeOK
<1>1. IInv => TypeOK
  BY DEF IInv
<1> QED
  BY <1>1, Invariance, PTL

\* No change of the displays is forgotten, whenever it comes: the fleet streams
\* what is active, or a rebuild is under way or was skipped for just this set
\* (StreamFleet.rebuildSoon and rebuild).
THEOREM ChangesAreFollowed == Spec => []TopologyFollowed
<1>1. IInv => TopologyFollowed
  BY DEF IInv
<1> QED
  BY <1>1, Invariance, PTL

\* Rebuilds that wait for every port in use never lose one: each display has one
\* server, with its port, or a round that waits for just the listeners that have
\* the ports (StreamFleet.rebuild's DispatchGroup).
THEOREM PortsAreKept == Spec => []ServersMatch
<1>1. IInv => ServersMatch
  BY DEF IInv
<1> QED
  BY <1>1, Invariance, PTL

\* Every server has the lock state of its fleet, and that is the system's or is
\* about to be, however the two change (StreamFleet's settling and inheritance).
THEOREM LockIsPassedOn == Spec => []LockReachesServers
<1>1. IInv => LockReachesServers
  BY DEF IInv
<1> QED
  BY <1>1, Invariance, PTL
=============================================================================
