--------------------------------- MODULE Fleet ---------------------------------
(***************************************************************************)
(* StreamFleet: one StreamServer per active display, on consecutive ports, *)
(* rebuilt when the set of active displays changes, and the menu-bar app   *)
(* that starts and stops the fleet. A fleet that was stopped may still be  *)
(* waiting for ports, and does then start its servers.                     *)
(*                                                                         *)
(* Everything runs on the main queue: an action is a handler, or a block   *)
(* that one has left there (the debounce of 2 s, the group that waits for  *)
(* the old listeners, the lock settling after 0.6 s, the clearing of the   *)
(* marks after 5 s). Which port a listener holds is the system's business  *)
(* and changes when the listener has been cancelled, which is later.       *)
(***************************************************************************)
EXTENDS Integers, FiniteSets, Functions

CONSTANTS
  Fleets,          \* StreamFleet objects (a name is used again once it is gone)
  Rounds,          \* the servers that one rebuild starts, together
  Topologies,      \* values of activeIDs(): sequences of displays, main first
  Virtual,         \* the displays that a collapse creates
  None,
  MaxClears        \* bound: clearings of the marks that are due

ASSUME FleetAssumption ==
  /\ None \notin Fleets
  /\ None \notin Topologies
  /\ \A t \in Topologies : t # <<>>
  /\ MaxClears \in Nat

VARIABLES
  active,          \* activeIDs(), as the system would answer now
  locked,          \* currentlyLocked(), likewise
  fleet,           \* StatusBarApp.streamFleet and StreamFleet.shared, or None
  currentIDs,      \* of each fleet
  nudged,          \* a call of rebuildSoon is queued for the fleet
  pendingRebuild,  \* the fleet's debounced rebuild is due
  collapseCreated, \* collapseCreatedDisplays of the fleet in use
  clearing,        \* clearings of it that are due
  screenLocked,    \* of the fleet in use
  notice,          \* a lock notification is to be delivered to it
  pendingLockSettle,
  round,           \* the servers of each rebuild: see Round
  skipped,         \* history: the topology of the last rebuild skipped
  rushed           \* history: since the fleet was started, a rebuild did not
                   \* wait for a port that is in use

lockVars == <<locked, screenLocked, notice, pendingLockSettle>>
markVars == <<collapseCreated, clearing>>
vars == <<active, fleet, currentIDs, nudged, pendingRebuild, round, skipped,
          rushed, lockVars, markVars>>

Displays == UNION {Range(t) : t \in Topologies}
Ports == UNION {DOMAIN t : t \in Topologies}

\* phase "waiting": the group has not been notified; after: the rounds whose
\* listeners it waits for; "serving": its servers are in the fleet's `servers`;
\* "stopping": stop() was called. held: the ports its listeners hold. told: the
\* lock state its servers were last given. What no longer matters is reset.
Round == [owner : Fleets \cup {None}, ids : Topologies \cup {<<>>},
          phase : {"free", "waiting", "serving", "stopping"},
          after : SUBSET Rounds, held : SUBSET Ports, told : BOOLEAN]

NoRound == [owner |-> None, ids |-> <<>>, phase |-> "free", after |-> {},
            held |-> {}, told |-> FALSE]

TypeOK ==
  /\ active \in Topologies
  /\ fleet \in Fleets \cup {None}
  /\ currentIDs \in [Fleets -> Topologies \cup {<<>>}]
  /\ nudged \in [Fleets -> BOOLEAN]
  /\ pendingRebuild \in [Fleets -> BOOLEAN]
  /\ collapseCreated \subseteq Virtual
  /\ clearing \in 0..MaxClears
  /\ {locked, screenLocked, notice, pendingLockSettle} \subseteq BOOLEAN
  /\ round \in [Rounds -> Round]
  /\ skipped \in Topologies \cup {None}
  /\ rushed \in BOOLEAN

Init ==
  /\ active \in Topologies
  /\ locked \in BOOLEAN
  /\ fleet = None
  /\ currentIDs = [f \in Fleets |-> <<>>]
  /\ nudged = [f \in Fleets |-> FALSE]
  /\ pendingRebuild = [f \in Fleets |-> FALSE]
  /\ collapseCreated = {}
  /\ clearing = 0
  /\ screenLocked = FALSE
  /\ notice = FALSE
  /\ pendingLockSettle = FALSE
  /\ round = [r \in Rounds |-> NoRound]
  /\ skipped = None
  /\ rushed = FALSE

-----------------------------------------------------------------------------
(* rebuild                                                                 *)

\* A fleet object lives while the app or a waiting group holds it.
Alive(f) ==
  f = fleet \/ \E r \in Rounds : round[r].owner = f /\ round[r].phase = "waiting"

\* `servers` of a fleet.
Servers(f) == {r \in Rounds : round[r].owner = f /\ round[r].phase = "serving"}

\* stop() of every server of a round: its listeners hold their ports still.
Stopping(s) == [NoRound EXCEPT !.phase = "stopping", !.held = round[s].held]

\* Mutant: the group does not wait for the listeners.
ReplaceAtOnce(f, r) ==
  [s \in Rounds |->
     IF s = r THEN [NoRound EXCEPT !.owner = f, !.ids = active, !.phase = "waiting"]
     ELSE IF s \in Servers(f) THEN Stopping(s) ELSE round[s]]

\* The fleet's servers are told to stop, and round r is to start when they have
\* released their ports.
Replace(f, r) ==
  [s \in Rounds |->
     IF s = r THEN [NoRound EXCEPT !.owner = f, !.ids = active,
                                   !.phase = "waiting", !.after = Servers(f)]
     ELSE IF s \in Servers(f) THEN Stopping(s) ELSE round[s]]

\* Only displays of a collapse in progress are left.
IsCollapseRebuild ==
  collapseCreated # {} /\ Range(active) \subseteq collapseCreated

\* rebuild() of fleet f, whose marks are `marks`.
Rebuild(f, isCollapse) ==
  \/ /\ active = currentIDs[f]
     /\ UNCHANGED <<currentIDs, round, skipped, rushed>>
  \/ /\ active # currentIDs[f]
     /\ isCollapse
     /\ skipped' = active
     /\ UNCHANGED <<currentIDs, round, rushed>>
  \/ /\ active # currentIDs[f]
     /\ ~isCollapse
     /\ \E r \in Rounds :
          /\ round[r].phase = "free"
          /\ round' = Replace(f, r)
     /\ currentIDs' = [currentIDs EXCEPT ![f] = active]
     /\ rushed' = (fleet' # None /\ (rushed \/
          \E s \in Rounds \ Servers(f) : round[s].phase # "free"))
     /\ UNCHANGED skipped

\* Mutant: the servers start in the state "unlocked".
ServeUnlocked(r) ==
  /\ round[r].phase = "waiting" /\ round[r].after = {}
  /\ round' = [round EXCEPT
       ![r].phase = "serving",
       ![r].held = {p \in DOMAIN round[r].ids : \A s \in Rounds : p \notin round[s].held}]
  /\ UNCHANGED <<active, fleet, currentIDs, nudged, pendingRebuild, skipped,
                 rushed, lockVars, markVars>>

\* The group is notified: the servers of the IDs that were captured are started,
\* whatever has become of the fleet, and inherit its lock state. A port that
\* another listener holds cannot be bound; the failure is only logged.
Serve(r) ==
  /\ round[r].phase = "waiting" /\ round[r].after = {}
  /\ round' = [round EXCEPT
       ![r].phase = "serving",
       ![r].told = (round[r].owner = fleet /\ screenLocked),
       ![r].held = {p \in DOMAIN round[r].ids : \A s \in Rounds : p \notin round[s].held}]
  /\ UNCHANGED <<active, fleet, currentIDs, nudged, pendingRebuild, skipped,
                 rushed, lockVars, markVars>>

\* The rounds R are gone; a group that waited for them waits no longer.
Forget(R) ==
  round' = [s \in Rounds |->
     IF s \in R THEN NoRound ELSE [round[s] EXCEPT !.after = @ \ R]]

\* The listeners of a round are cancelled: stop's completion.
Cancelled(r) ==
  /\ round[r].phase = "stopping"
  /\ Forget({r})
  /\ UNCHANGED <<active, fleet, currentIDs, nudged, pendingRebuild, skipped,
                 rushed, lockVars, markVars>>

\* The servers that a stopped fleet has started go when its object does.
Released(f) ==
  /\ ~Alive(f) /\ ~nudged[f]
  /\ Servers(f) # {}
  /\ Forget(Servers(f))
  /\ currentIDs' = [currentIDs EXCEPT ![f] = <<>>]
  /\ UNCHANGED <<active, fleet, nudged, pendingRebuild, skipped, rushed, lockVars,
                 markVars>>

-----------------------------------------------------------------------------
(* The topology                                                            *)

\* The active displays change. The reconfiguration callback of the fleet in use
\* queues rebuildSoon if one was added or removed, not if another became main.
TopologyChanges(t) ==
  /\ t # active
  /\ active' = t
  /\ nudged' = IF fleet = None \/ Range(t) = Range(active) THEN nudged
               ELSE [nudged EXCEPT ![fleet] = TRUE]
  /\ UNCHANGED <<fleet, currentIDs, pendingRebuild, round, skipped, rushed,
                 lockVars, markVars>>

\* Mutant: a change during a rebuild is taken to be part of it.
RebuildSoonIfIdle(f) ==
  /\ nudged[f]
  /\ nudged' = [nudged EXCEPT ![f] = FALSE]
  /\ pendingRebuild' = [pendingRebuild EXCEPT
       ![f] = \A r \in Rounds : round[r].phase # "waiting"]
  /\ UNCHANGED <<active, fleet, currentIDs, round, skipped, rushed, lockVars, markVars>>

\* rebuildSoon: the debounce starts afresh. It does not keep the object alive.
RebuildSoon(f) ==
  /\ nudged[f]
  /\ nudged' = [nudged EXCEPT ![f] = FALSE]
  /\ pendingRebuild' = [pendingRebuild EXCEPT ![f] = Alive(f)]
  /\ UNCHANGED <<active, fleet, currentIDs, round, skipped, rushed, lockVars, markVars>>

\* The debounce is over.
RunRebuild(f) ==
  /\ pendingRebuild[f]
  /\ UNCHANGED <<active, fleet, nudged, lockVars, markVars>>
  /\ pendingRebuild' = [pendingRebuild EXCEPT ![f] = FALSE]
  /\ IF Alive(f) THEN Rebuild(f, f = fleet /\ IsCollapseRebuild)
     ELSE UNCHANGED <<currentIDs, round, skipped, rushed>>

\* Mutant: all the active displays are marked.
MarkEveryActive(d) ==
  /\ fleet # None
  /\ d \in Range(active) \ collapseCreated
  /\ collapseCreated' = collapseCreated \cup Range(active)
  /\ UNCHANGED <<active, fleet, currentIDs, nudged, pendingRebuild, round,
                 skipped, rushed, lockVars, clearing>>

\* markCollapseCreatedDisplay, from the completion of a display's creation.
MarkCollapseCreated(d) ==
  /\ fleet # None
  /\ d \in Range(active) \ collapseCreated
  /\ collapseCreated' = collapseCreated \cup {d}
  /\ UNCHANGED <<active, fleet, currentIDs, nudged, pendingRebuild, round,
                 skipped, rushed, lockVars, clearing>>

\* clearCollapseCreatedDisplays, from finishCollapse.
ClearSoon ==
  /\ fleet # None
  /\ clearing < MaxClears
  /\ clearing' = clearing + 1
  /\ UNCHANGED <<active, fleet, currentIDs, nudged, pendingRebuild, round,
                 skipped, rushed, lockVars, collapseCreated>>

ClearMarks ==
  /\ clearing > 0
  /\ clearing' = clearing - 1
  /\ collapseCreated' = {}
  /\ UNCHANGED <<active, fleet, currentIDs, nudged, pendingRebuild, round,
                 skipped, rushed, lockVars>>

-----------------------------------------------------------------------------
(* Lock state                                                              *)

LockChanges ==
  /\ locked' = ~locked
  /\ notice' = (fleet # None)
  /\ UNCHANGED <<active, fleet, currentIDs, nudged, pendingRebuild, round,
                 skipped, rushed, screenLocked, pendingLockSettle, markVars>>

\* The observer: the settling starts afresh.
LockNotice ==
  /\ notice
  /\ notice' = FALSE
  /\ pendingLockSettle' = TRUE
  /\ UNCHANGED <<active, fleet, currentIDs, nudged, pendingRebuild, round,
                 skipped, rushed, locked, screenLocked, markVars>>

\* The settled state is read, not inferred, and every server is told.
LockSettles ==
  /\ pendingLockSettle
  /\ pendingLockSettle' = FALSE
  /\ screenLocked' = locked
  /\ round' = IF locked = screenLocked THEN round
              ELSE [r \in Rounds |-> IF r \in Servers(fleet)
                      THEN [round[r] EXCEPT !.told = locked] ELSE round[r]]
  /\ UNCHANGED <<active, fleet, currentIDs, nudged, pendingRebuild, skipped,
                 rushed, locked, notice, markVars>>

-----------------------------------------------------------------------------
(* The menu-bar app                                                        *)

\* startNativeStreaming: a new fleet, and its first rebuild.
Start(f) ==
  /\ fleet = None
  /\ ~nudged[f] /\ ~pendingRebuild[f]
  /\ \A r \in Rounds : round[r].owner # f   \* its object is gone
  /\ fleet' = f
  /\ screenLocked' = locked
  /\ Rebuild(f, FALSE)
  /\ UNCHANGED <<active, locked, nudged, pendingRebuild, notice, pendingLockSettle,
                 markVars>>

\* What is kept of the fleet in use only: its observers, its debounces, its marks.
ForgetInUse ==
  /\ notice' = FALSE /\ pendingLockSettle' = FALSE /\ screenLocked' = FALSE
  /\ collapseCreated' = {} /\ clearing' = 0
  /\ skipped' = None /\ rushed' = FALSE

\* stopNativeStreaming and StreamFleet.stop. restartStreaming is this and Start
\* with nothing in between.
Stop ==
  /\ fleet # None
  /\ fleet' = None
  /\ pendingRebuild' = [pendingRebuild EXCEPT ![fleet] = FALSE]
  /\ round' = [r \in Rounds |-> IF r \in Servers(fleet) THEN Stopping(r)
                                                         ELSE round[r]]
  /\ currentIDs' = [currentIDs EXCEPT ![fleet] = <<>>]
  /\ ForgetInUse
  /\ UNCHANGED <<active, locked, nudged>>

Next ==
  \/ \E r \in Rounds : Serve(r) \/ Cancelled(r)
  \/ \E t \in Topologies : TopologyChanges(t)
  \/ \E f \in Fleets : RebuildSoon(f) \/ RunRebuild(f) \/ Start(f) \/ Released(f)
  \/ \E d \in Virtual : MarkCollapseCreated(d)
  \/ ClearSoon \/ ClearMarks
  \/ LockChanges \/ LockNotice \/ LockSettles
  \/ Stop

Spec == Init /\ [][Next]_vars

-----------------------------------------------------------------------------
(* Properties                                                              *)

\* No change of the displays is forgotten, also when it comes while a rebuild is
\* debounced or waits for its ports: the fleet has the displays that are active,
\* or a rebuild is to come, or it was skipped for exactly these displays.
TopologyFollowed ==
  fleet # None =>
    \/ Range(currentIDs[fleet]) = Range(active)
    \/ nudged[fleet] \/ pendingRebuild[fleet]
    \/ skipped # None /\ Range(skipped) = Range(active)

\* Each display of the fleet has exactly one server, with its port, or a rebuild
\* that waits for exactly the servers that hold the ports: rebuilding never
\* loses a port to a listener that is still being cancelled. (Not if a rebuild
\* did not wait for what others hold: `rushed`.)
ServersMatch ==
  fleet # None /\ ~rushed =>
    \E r \in Rounds :
      /\ round[r].owner = fleet
      /\ round[r].ids = currentIDs[fleet]
      /\ \/ round[r].phase = "waiting"
         \/ round[r].phase = "serving" /\ round[r].held = DOMAIN currentIDs[fleet]
      /\ \A s \in Rounds \ {r} : round[s].phase = "free" \/ s \in round[r].after

\* However the lock state flaps and whenever servers are replaced: every server
\* has the fleet's lock state, and the fleet's is the system's or about to be.
LockReachesServers ==
  fleet # None =>
    /\ screenLocked = locked \/ notice \/ pendingLockSettle
    /\ \A r \in Servers(fleet) : round[r].told = screenLocked

\* "virtual display A must take over the base port and B must get base+1": once
\* the marks are cleared and no rebuild is due, the fleet has the active displays.
VirtualDisplaysTakeOver ==
  fleet # None /\ clearing = 0 /\ collapseCreated = {}
               /\ ~nudged[fleet] /\ ~pendingRebuild[fleet]
    => Range(currentIDs[fleet]) = Range(active)

\* "Wait for every old listener's port to actually release before binding new
\* ones on the same ports": servers that are started get their ports.
PortsAreReleased ==
  \A r \in Rounds : round[r].phase = "serving" => round[r].held = DOMAIN round[r].ids
=============================================================================
