----------------------------- MODULE Lifecycle -----------------------------
(***************************************************************************)
(* What the collapse coordinator promises the rest of the host app: the    *)
(* life of one collapse, without displays, mirrors or power assertions.    *)
(* Collapse refines this module; Session is built on its actions.          *)
(***************************************************************************)
EXTENDS Integers

CONSTANT
  MaxPasses       \* bound: window-layout passes queued at once

ASSUME MaxPassesAssumption == MaxPasses \in Nat \ {0}

VARIABLES
  state,          \* CollapseCoordinator.state
  cooling,        \* a collapse failed less than collapseFailureCooldown ago
  inFlight,       \* layoutRestoreInFlight
  passes          \* deferred layout passes on the main queue

lifecycleVars == <<state, cooling, inFlight, passes>>

States == {"idle", "collapsing", "collapsed"}

LifecycleTypeOK ==
  /\ state \in States
  /\ cooling \in BOOLEAN
  /\ inFlight \in BOOLEAN
  /\ passes \in 0..MaxPasses
  /\ inFlight => passes > 0

LifecycleInit ==
  /\ state = "idle"
  /\ cooling = FALSE
  /\ inFlight = FALSE
  /\ passes = 0

\* collapse() gets past its guards. The bound on passes is the model's.
MayBegin == state = "idle" /\ ~cooling /\ passes < MaxPasses

Begin ==
  /\ MayBegin
  /\ state' = "collapsing"
  /\ UNCHANGED <<cooling, inFlight, passes>>

\* finishCollapse's delayed block.
Establish ==
  /\ state = "collapsing"
  /\ state' = "collapsed"
  /\ UNCHANGED <<cooling, inFlight, passes>>

\* Display A could not be created: abort, and start the cooldown.
GiveUp ==
  /\ state = "collapsing"
  /\ state' = "idle"
  /\ cooling' = TRUE
  /\ UNCHANGED <<inFlight, passes>>

\* Mutant: the flag that a layout pass is on its way is not set.
EndUnannounced ==
  /\ state # "idle"
  /\ state' = "idle"
  /\ passes' = passes + 1
  /\ UNCHANGED <<cooling, inFlight>>

\* restore() of a collapse: idle at once, the window layout two seconds later.
End ==
  /\ state # "idle"
  /\ state' = "idle"
  /\ inFlight' = TRUE
  /\ passes' = passes + 1
  /\ UNCHANGED cooling

\* Mutant: the flag is not cleared, and no later restore() calls its completion.
PassKeepsFlag ==
  /\ passes > 0
  /\ passes' = passes - 1
  /\ UNCHANGED <<state, cooling, inFlight>>

\* The deferred layout pass.
Pass ==
  /\ passes > 0
  /\ passes' = passes - 1
  /\ inFlight' = FALSE
  /\ UNCHANGED <<state, cooling>>

CoolDown ==
  /\ cooling
  /\ cooling' = FALSE
  /\ UNCHANGED <<state, inFlight, passes>>

\* The process dies, and everything it had in memory with it.
Die ==
  /\ state' = "idle"
  /\ cooling' = FALSE
  /\ inFlight' = FALSE
  /\ passes' = 0

LifecycleNext ==
  Begin \/ Establish \/ GiveUp \/ End \/ Pass \/ CoolDown \/ Die

LifecycleSpec == LifecycleInit /\ [][LifecycleNext]_lifecycleVars

=============================================================================
