--------------------------- MODULE CollapseProofs ---------------------------
(***************************************************************************)
(* The safety of Collapse for any number of displays, collapses and        *)
(* attempts: its type invariant, the invariants that MCCollapse checks,    *)
(* and that it implements Lifecycle.                                       *)
(***************************************************************************)
EXTENDS Collapse, TLAPS

\* A layout pass can always be queued: the bound on passes is never what stops
\* a restore.
RoomForPass == state # "idle" => passes < MaxPasses

\* Only the first attempt to mirror may take the display-wake assertion, and a
\* block on the queue is never the first.
MirrorBlocksRetry == \A b \in work : b.step = "mirror" => b.attempt > 1

\* A process that is not there holds nothing.
DownIsEmpty == ~running => state = "idle" /\ work = {} /\ displays = NoDisplays

\* The rest holds until collapses overlap or WindowServer refuses to un-mirror.

\* The collapse that has work on the queue has one block of it.
OneBlock == ~disturbed => \A b, c \in work : b = c

\* How far the collapse is, which block is next and whether display A exists go
\* together.
Stage ==
  ~disturbed =>
    /\ state = "idle" => displays["a"] = None
    /\ state = "collapsing" =>
         \A b \in work : b.step # "mirror" /\ (displays["a"] = None <=> b.step = "createA")
    /\ state = "collapsed" =>
         displays["a"] # None /\ \A b \in work : b.step = "mirror"

\* Physical displays are mirrored while collapsed only, the coordinator knows
\* them all, and a mirror block left over from a collapse has no display to
\* mirror onto.
MirrorStage ==
  running /\ ~disturbed =>
    /\ state # "collapsed" => osMirrored = {}
    /\ osMirrored \subseteq mirrored
    /\ \A b \in work : b.step = "mirror" =>
         osMirrored = {} /\ (state = "idle" => displays = NoDisplays)

\* The saved layout is the user's own, and the windows leave it only between
\* the mirroring and the layout pass.
WindowStage ==
  running /\ ~disturbed =>
    /\ snapshot = "home"
    /\ state # "idle" => passes = 0
    /\ state = "collapsing" => windows = "home"
    /\ state = "idle" /\ passes = 0 => windows = "home"

IInv ==
  /\ TypeOK /\ RoomForPass /\ MirrorBlocksRetry /\ DownIsEmpty
  /\ CollapsingHasWork /\ AssertionsOnlyWhileCollapsed
  /\ OneBlock /\ Stage /\ MirrorStage /\ WindowStage

-----------------------------------------------------------------------------
(* Types                                                                   *)

Displays == [Slots -> VirtualIDs \cup {None}]
Handlers == [Slots -> 0..MaxTerminations]

\* Releasing displays queues no more handlers than the bound allows.
LEMMA QueueHandlersType ==
  ASSUME NEW S, NEW T \in Handlers, QueueHandlers(S, T)
  PROVE  terminations' \in Handlers
<1>1. PICK called \in SUBSET {s \in S : T[s] < MaxTerminations} :
        terminations' = [s \in Slots |-> IF s \in called THEN T[s] + 1 ELSE T[s]]
  BY DEF QueueHandlers
<1>2. ASSUME NEW s \in Slots
      PROVE  (IF s \in called THEN T[s] + 1 ELSE T[s]) \in 0..MaxTerminations
  BY <1>1, CollapseAssumption DEF Handlers
<1>. QED BY <1>1, <1>2 DEF Handlers

\* Creating a display keeps displays and handlers well typed.
LEMMA HoldType ==
  ASSUME TypeOK, NEW S, NEW D \in Displays, Hold(D, S)
  PROVE  displays' \in Displays /\ terminations' \in Handlers
<1>1. terminations \in Handlers
  BY DEF TypeOK, Handlers
<1>. QED BY <1>1, QueueHandlersType DEF Hold

\* A block on the queue is well formed.
LEMMA BlockType ==
  ASSUME NEW g \in Gens, NEW step \in Steps, NEW n \in 1..MaxAttempts(step),
         NEW v \in VirtualIDs \cup {None}
  PROVE  Block(g, step, n, v) \in Work
BY CollapseAssumption DEF Block, Work, MaxAttempts

\* So does an attempt at display B, with what it queues.
LEMMA AttemptBType ==
  ASSUME TypeOK, NEW g \in Gens, NEW n \in 1..MaxCreateAttempts,
         NEW v \in VirtualIDs \cup {None},
         NEW rest, rest \subseteq Work, NEW D \in Displays,
         AttemptB(g, n, v, rest, D)
  PROVE  /\ displays' \in Displays
         /\ terminations' \in Handlers
         /\ work' \subseteq Work
<1>1. /\ Block(g, "finish", 1, v) \in Work
      /\ n < MaxCreateAttempts => Block(g, "createB", n + 1, v) \in Work
  BY BlockType, CollapseAssumption DEF Steps, MaxAttempts
<1>2. \A w \in FreshIDs(D) : [D EXCEPT !["b"] = w] \in Displays
  BY DEF FreshIDs, Displays, Slots
<1>3. PICK E \in Displays : \E S : Hold(E, S)
  BY <1>2 DEF AttemptB
<1>. QED BY <1>1, <1>3, HoldType DEF AttemptB, QueueFinish

\* So does what follows the creation of display A.
LEMMA CreatedAType ==
  ASSUME TypeOK, NEW g \in Gens, NEW v \in VirtualIDs \cup {None},
         NEW rest, rest \subseteq Work, NEW D \in Displays,
         CreatedA(g, v, rest, D)
  PROVE  /\ displays' \in Displays
         /\ terminations' \in Handlers
         /\ work' \subseteq Work
<1>1. Block(g, "finish", 1, v) \in Work
  BY BlockType, CollapseAssumption DEF Steps, MaxAttempts
<1>2. CASE Hold(D, {}) /\ QueueFinish(g, v, rest)
  BY <1>1, <1>2, HoldType DEF QueueFinish
<1>3. CASE AttemptB(g, 1, v, rest, D)
  BY <1>3, AttemptBType, CollapseAssumption
<1>. QED BY <1>2, <1>3 DEF CreatedA, CreateB

\* So does an attempt at display A, whichever way it ends.
LEMMA AttemptAType ==
  ASSUME TypeOK, NEW g \in Gens, NEW n \in 1..MaxCreateAttempts, NEW st \in States,
         NEW rest, rest \subseteq Work,
         AttemptA(g, n, st, rest)
  PROVE  /\ displays' \in Displays
         /\ terminations' \in Handlers
         /\ work' \subseteq Work
         /\ wake' \in BOOLEAN
<1>1. displays \in Displays /\ terminations \in Handlers /\ NoDisplays \in Displays
  BY DEF TypeOK, Displays, Handlers, NoDisplays
<1>2. \A v \in FreshIDs(displays) :
        v \in VirtualIDs /\ [displays EXCEPT !["a"] = v] \in Displays
  BY <1>1 DEF FreshIDs, Displays, Slots
<1>3. CASE \E v \in FreshIDs(displays) :
             CreatedA(g, v, rest, [displays EXCEPT !["a"] = v])
  <2>1. PICK v \in FreshIDs(displays) :
          CreatedA(g, v, rest, [displays EXCEPT !["a"] = v])
    BY <1>3
  <2>2. wake' = wake
    BY <2>1 DEF CreatedA
  <2>. QED BY <1>2, <2>1, <2>2, CreatedAType DEF TypeOK
<1>4. CASE \E S : DropCreated(rest, S)
  BY <1>1, <1>4, HoldType DEF DropCreated
<1>5. CASE Abort(rest)
  BY <1>1, <1>5 DEF Abort
<1>6. CASE /\ work' = rest \cup {Block(g, "createA", n + 1, None)}
           /\ UNCHANGED <<displays, terminations, wake>>
           /\ n < MaxCreateAttempts
  BY <1>1, <1>6, BlockType, CollapseAssumption DEF Steps, MaxAttempts, TypeOK
<1>. QED BY <1>3, <1>4, <1>5, <1>6 DEF AttemptA

\* Mirroring records physical displays only and queues a block at most.
LEMMA MirrorType ==
  ASSUME TypeOK, NEW g \in Gens, NEW n \in 1..MaxMirrorAttempts,
         NEW v \in VirtualIDs \cup {None},
         NEW rest, rest \subseteq Work, NEW held \in BOOLEAN,
         Mirror(g, n, v, rest, held)
  PROVE  /\ mirrored' \subseteq Physical /\ osMirrored' \subseteq Physical
         /\ windows' \in {"home", "moved"}
         /\ work' \subseteq Work
         /\ wake' \in BOOLEAN
<1>1. n < MaxMirrorAttempts => Block(g, "mirror", n + 1, v) \in Work
  BY BlockType, CollapseAssumption DEF Steps, MaxAttempts
<1>2. CASE \E P \in (SUBSET plugged) \ {{}} :
             MirrorOnto(v, P) /\ work' = rest /\ wake' = held
  BY <1>2 DEF MirrorOnto, TypeOK
<1>3. CASE /\ n < MaxMirrorAttempts
           /\ work' = rest \cup {Block(g, "mirror", n + 1, v)}
           /\ wake' \in (IF n = 1 THEN BOOLEAN ELSE {held})
           /\ UNCHANGED <<mirrored, osMirrored, windows>>
  <2>1. wake' \in BOOLEAN
    BY <1>3
  <2>. QED BY <1>1, <1>3, <2>1 DEF TypeOK
<1>4. CASE work' = rest /\ wake' = held /\ UNCHANGED <<mirrored, osMirrored, windows>>
  BY <1>4 DEF TypeOK
<1>. QED BY <1>2, <1>3, <1>4 DEF Mirror

\* Tearing down keeps every type: there is room for its layout pass.
LEMMA TearDownType ==
  ASSUME TypeOK, RoomForPass, NEW S, NEW T \in Handlers, TearDown(S, T)
  PROVE  TypeOK'
<1>1. LifecycleTypeOK'
  BY MaxPassesAssumption DEF TearDown, End, TypeOK, LifecycleTypeOK, RoomForPass, States
<1>2. displays' \in Displays /\ terminations' \in Handlers
  BY QueueHandlersType DEF TearDown, Destroy, NoDisplays, Displays
<1>3. /\ mirrored' \subseteq Physical /\ osMirrored' \subseteq Physical
      /\ disturbed' \in BOOLEAN
  BY DEF TearDown, Unmirror, TypeOK
<1>. QED BY <1>1, <1>2, <1>3
         DEF TearDown, ReleaseAssertions, TypeOK, Displays, Handlers

\* Every step keeps the types.
LEMMA TypeStep == TypeOK /\ RoomForPass /\ [Next]_vars => TypeOK'
<1>. SUFFICES ASSUME TypeOK, RoomForPass, [Next]_vars PROVE TypeOK'
  OBVIOUS
<1>. USE DEF TypeOK, LifecycleTypeOK, States
<1>1. CASE BeginCollapse
  <2>1. Gens \ {b.gen : b \in work} # {}
    BY <1>1 DEF BeginCollapse
  <2>2. PICK g \in Gens :
          IF displays["a"] # None THEN CreatedA(g, displays["a"], work, displays)
                                  ELSE AttemptA(g, 1, "collapsing", work)
    BY <1>1, <2>1 DEF BeginCollapse
  <2>3. displays \in Displays /\ displays["a"] \in VirtualIDs \cup {None}
    BY DEF Displays, Slots
  <2>4. displays' \in Displays /\ terminations' \in Handlers /\ work' \subseteq Work
    BY <2>2, <2>3, CreatedAType, AttemptAType, CollapseAssumption
  <2>5. wake' \in BOOLEAN
    BY <2>2, AttemptAType, CollapseAssumption DEF CreatedA
  <2>6. state' \in States /\ cooling' \in BOOLEAN
    BY <2>2 DEF CreatedA, AttemptA, DropCreated, Abort
  <2>. QED BY <1>1, <2>4, <2>5, <2>6 DEF BeginCollapse, Displays, Handlers
<1>2. CASE Restore
  BY <1>2, TearDownType DEF Restore, Handlers
<1>3. ASSUME NEW b \in work, RetryA(b) PROVE TypeOK'
  <2>1. b.gen \in Gens /\ b.attempt \in 1..MaxCreateAttempts /\ work \ {b} \subseteq Work
    BY <1>3 DEF RetryA, Work, MaxAttempts
  <2>2. /\ displays' \in Displays /\ terminations' \in Handlers
        /\ work' \subseteq Work /\ wake' \in BOOLEAN
    BY <1>3, <2>1, AttemptAType DEF RetryA
  <2>3. state' \in States /\ cooling' \in BOOLEAN
    BY <1>3 DEF RetryA, CreatedA, AttemptA, DropCreated, Abort
  <2>. QED BY <1>3, <2>2, <2>3 DEF RetryA, Displays, Handlers
<1>4. ASSUME NEW b \in work, RetryB(b) PROVE TypeOK'
  <2>1. /\ b.gen \in Gens /\ b.attempt \in 1..MaxCreateAttempts
        /\ b.target \in VirtualIDs \cup {None}
        /\ work \ {b} \subseteq Work /\ displays \in Displays
    BY <1>4 DEF RetryB, Work, MaxAttempts, Displays
  <2>2. displays' \in Displays /\ terminations' \in Handlers /\ work' \subseteq Work
    BY <1>4, <2>1, AttemptBType DEF RetryB
  <2>. QED BY <1>4, <2>2 DEF RetryB, Displays, Handlers
<1>5. ASSUME NEW b \in work, Finish(b) PROVE TypeOK'
  <2>1. /\ b.gen \in Gens /\ b.target \in VirtualIDs \cup {None}
        /\ work \ {b} \subseteq Work
    BY DEF Work
  <2>2. CASE Mirror(b.gen, 1, b.target, work \ {b}, FALSE)
    <3>1. /\ mirrored' \subseteq Physical /\ osMirrored' \subseteq Physical
          /\ windows' \in {"home", "moved"} /\ work' \subseteq Work /\ wake' \in BOOLEAN
      <4>1. 1 \in 1..MaxMirrorAttempts /\ FALSE \in BOOLEAN
        BY CollapseAssumption
      <4>. HIDE DEF TypeOK
      <4>2. TypeOK
        BY DEF TypeOK
      <4>. QED BY <2>1, <2>2, <4>1, <4>2, MirrorType
    <3>2. state' \in States /\ comfort' \in BOOLEAN
      BY <1>5 DEF Finish
    <3>. QED BY <1>5, <3>1, <3>2 DEF Finish
  <2>3. CASE state # "collapsing"
    BY <1>5, <2>1, <2>3 DEF Finish
  <2>. QED BY <1>5, <2>2, <2>3 DEF Finish
<1>6. ASSUME NEW b \in work, RetryMirror(b) PROVE TypeOK'
  <2>1. /\ b.gen \in Gens /\ b.attempt \in 1..MaxMirrorAttempts
        /\ b.target \in VirtualIDs \cup {None}
        /\ work \ {b} \subseteq Work
    BY <1>6 DEF RetryMirror, Work, MaxAttempts
  <2>. QED BY <1>6, <2>1, MirrorType DEF RetryMirror
<1>7. CASE RestoreLayout
  <2>1. passes' \in 0..MaxPasses
    BY <1>7, MaxPassesAssumption DEF RestoreLayout, Pass
  <2>2. windows' \in {"home", "moved"}
    BY <1>7 DEF RestoreLayout, PutWindowsBack
  <2>. QED BY <1>7, <2>1, <2>2 DEF RestoreLayout, Pass
<1>8. CASE CoolOff
  BY <1>8 DEF CoolOff, CoolDown
<1>9. ASSUME NEW s \in Slots, Reclaim(s) PROVE TypeOK'
  BY <1>9, CollapseAssumption DEF Reclaim
<1>10. ASSUME NEW s \in Slots, Terminated(s) PROVE TypeOK'
  <2>1. [terminations EXCEPT ![s] = @ - 1] \in Handlers
    BY <1>10, CollapseAssumption DEF Terminated, Handlers
  <2>2. CASE EndsCollapse(s)
    BY <1>10, <2>1, <2>2, TearDownType DEF Terminated
  <2>3. CASE ~EndsCollapse(s)
    <3>1. UNCHANGED lifecycleVars /\ LifecycleTypeOK
      BY <1>10, <2>3 DEF Terminated, lifecycleVars
    <3>2. displays' \in Displays /\ terminations' \in Handlers
      BY <1>10, <2>1, <2>3 DEF Terminated, Displays
    <3>3. LifecycleTypeOK'
      BY <3>1 DEF lifecycleVars
    <3>. HIDE DEF LifecycleTypeOK
    <3>. QED BY <1>10, <2>3, <3>2, <3>3 DEF Terminated, Displays, Handlers
  <2>. QED BY <2>2, <2>3
<1>11. ASSUME NEW p \in Physical, Plug(p) \/ Unplug(p) PROVE TypeOK'
  BY <1>11 DEF Plug, Unplug
<1>12. CASE Crash
  <2>. HIDE DEF TypeOK
  <2>0. 0 \in 0..MaxPasses
    BY MaxPassesAssumption
  <2>1. LifecycleTypeOK'
    BY <1>12, <2>0 DEF Crash, Die
  <2>2. displays' \in Displays /\ terminations' \in Handlers
    BY <1>12, CollapseAssumption DEF Crash, NoDisplays, Displays, Handlers
  <2>. QED BY <1>12, <2>1, <2>2 DEF Crash, TypeOK, Displays, Handlers
<1>13. CASE Launch
  BY <1>13 DEF Launch, RecoverOrphanedMirrors
<1>14. CASE UNCHANGED vars
  BY <1>14 DEF vars
<1>. QED BY <1>1, <1>2, <1>3, <1>4, <1>5, <1>6, <1>7, <1>8, <1>9, <1>10, <1>11,
            <1>12, <1>13, <1>14 DEF Next, RunWork, RunBlock

-----------------------------------------------------------------------------
(* What an attempt to create a display comes to                            *)

\* One block of one of the steps given is added to those of rest.
Queued(rest, steps) == \E b : b.step \in steps /\ work' = rest \cup {b}

\* Display B, or not: one block carries the collapse on, display A stays.
LEMMA AttemptBOutcome ==
  ASSUME NEW g, NEW n, NEW v, NEW rest, NEW D \in Displays,
         AttemptB(g, n, v, rest, D)
  PROVE  /\ Queued(rest, {"createB", "finish"})
         /\ displays'["a"] = D["a"]
<1>1. /\ Block(g, "finish", 1, v).step = "finish"
      /\ Block(g, "createB", n + 1, v).step = "createB"
  BY DEF Block
<1>2. work' \in {rest \cup {Block(g, "finish", 1, v)},
                 rest \cup {Block(g, "createB", n + 1, v)}}
  BY DEF AttemptB, QueueFinish
<1>3. displays'["a"] = D["a"]
  BY DEF AttemptB, Hold, Displays, Slots
<1>. QED BY <1>1, <1>2, <1>3 DEF Queued

\* The same once display A has been created for a collapse that waits for it.
LEMMA CreatedAOutcome ==
  ASSUME NEW g, NEW v, NEW rest, NEW D \in Displays, CreatedA(g, v, rest, D)
  PROVE  /\ state' = "collapsing" /\ wake' = wake /\ cooling' = cooling
         /\ Queued(rest, {"createB", "finish"})
         /\ displays'["a"] = D["a"]
<1>1. CASE Hold(D, {}) /\ QueueFinish(g, v, rest)
  <2>1. Block(g, "finish", 1, v).step = "finish"
    BY DEF Block
  <2>. QED BY <1>1, <2>1 DEF CreatedA, Hold, QueueFinish, Queued
<1>2. CASE AttemptB(g, 1, v, rest, D)
  BY <1>2, AttemptBOutcome DEF CreatedA
<1>. QED BY <1>1, <1>2 DEF CreatedA, CreateB

\* Display A exists and the collapse goes on; or another attempt is queued; or
\* the collapse is given up; or nobody waits for the display any more.
GoesOn(st, rest) ==
  /\ st = "collapsing" /\ state' = "collapsing" /\ wake' = wake /\ cooling' = cooling
  /\ Queued(rest, {"createB", "finish"})
  /\ displays'["a"] # None
TriesAgain(n, st, rest) ==
  /\ n < MaxCreateAttempts
  /\ state' = st /\ wake' = wake /\ cooling' = cooling /\ displays' = displays
  /\ Queued(rest, {"createA"})
GivesUp(n, st, rest) == n = MaxCreateAttempts /\ st = "collapsing" /\ Abort(rest)
IsLate(st, rest) ==
  /\ st # "collapsing" /\ state' = state /\ cooling' = cooling
  /\ work' = rest /\ wake' = FALSE /\ displays' = NoDisplays

\* An attempt at display A has one of four outcomes.
LEMMA AttemptAOutcome ==
  ASSUME TypeOK, NEW g, NEW n, NEW st, NEW rest, AttemptA(g, n, st, rest)
  PROVE  \/ GoesOn(st, rest) \/ TriesAgain(n, st, rest)
         \/ GivesUp(n, st, rest) \/ IsLate(st, rest)
<1>1. ASSUME NEW v \in FreshIDs(displays), st = "collapsing",
             CreatedA(g, v, rest, [displays EXCEPT !["a"] = v])
      PROVE  GoesOn(st, rest)
  <2>. DEFINE D == [displays EXCEPT !["a"] = v]
  <2>1. v # None
    BY CollapseAssumption DEF FreshIDs
  <2>2. D \in Displays /\ D["a"] = v
    BY DEF TypeOK, Displays, Slots, FreshIDs
  <2>3. CreatedA(g, v, rest, D)
    BY <1>1
  <2>. HIDE DEF D
  <2>. QED BY <1>1, <2>1, <2>2, <2>3, CreatedAOutcome DEF GoesOn
<1>2. ASSUME NEW S, st # "collapsing", DropCreated(rest, S) PROVE IsLate(st, rest)
  BY <1>2 DEF DropCreated, Hold, IsLate
<1>3. Block(g, "createA", n + 1, None).step = "createA"
  BY DEF Block
<1>4. ASSUME n < MaxCreateAttempts,
             work' = rest \cup {Block(g, "createA", n + 1, None)},
             state' = st, UNCHANGED <<displays, terminations, cooling, wake>>
      PROVE  TriesAgain(n, st, rest)
  BY <1>3, <1>4 DEF TriesAgain, Queued
<1>. QED BY <1>1, <1>2, <1>4 DEF AttemptA, GivesUp

\* The displays are mirrored, or refuse, or are found by a later attempt only.
LEMMA MirrorOutcome ==
  ASSUME NEW g, NEW n, NEW v, NEW rest, NEW held, Mirror(g, n, v, rest, held)
  PROVE  \/ /\ \E P \in SUBSET plugged : MirrorOnto(v, P)
            /\ work' = rest /\ wake' = held
         \/ /\ state # "idle" /\ (n = 1 \/ wake' = held)
            /\ UNCHANGED <<mirrored, osMirrored, windows>>
            /\ \E b : /\ b.step = "mirror" /\ b.attempt = n + 1
                      /\ work' = rest \cup {b}
         \/ /\ UNCHANGED <<mirrored, osMirrored, windows>>
            /\ work' = rest /\ wake' = held
<1>1. /\ Block(g, "mirror", n + 1, v).step = "mirror"
      /\ Block(g, "mirror", n + 1, v).attempt = n + 1
  BY DEF Block
<1>. QED BY <1>1 DEF Mirror

-----------------------------------------------------------------------------
(* The control of a collapse                                               *)

Control ==
  /\ RoomForPass /\ MirrorBlocksRetry /\ DownIsEmpty
  /\ CollapsingHasWork /\ AssertionsOnlyWhileCollapsed

\* Every step keeps what IInv says of the control.
LEMMA ControlStep == TypeOK /\ Control /\ [Next]_vars => Control'
<1>. SUFFICES ASSUME TypeOK, Control, [Next]_vars PROVE Control'
  OBVIOUS
<1>. USE DEF Control, RoomForPass, MirrorBlocksRetry, DownIsEmpty,
             CollapsingHasWork, AssertionsOnlyWhileCollapsed
<1>1. CASE BeginCollapse
  <2>1. displays \in Displays
    BY DEF TypeOK, Displays
  <2>2. PICK g : IF displays["a"] # None
                   THEN CreatedA(g, displays["a"], work, displays)
                   ELSE AttemptA(g, 1, "collapsing", work)
    BY <1>1 DEF BeginCollapse
  <2>3. /\ state' = "collapsing" /\ wake' = wake
        /\ Queued(work, {"createA", "createB", "finish"})
    <3>1. CASE displays["a"] # None
      BY <2>1, <2>2, <3>1, CreatedAOutcome DEF Queued
    <3>2. CASE displays["a"] = None
      <4>1. AttemptA(g, 1, "collapsing", work) /\ 1 # MaxCreateAttempts
        BY <2>2, <3>2, CollapseAssumption
      <4>2. GoesOn("collapsing", work) \/ TriesAgain(1, "collapsing", work)
        BY <4>1, AttemptAOutcome DEF GivesUp, IsLate
      <4>. QED BY <4>2 DEF GoesOn, TriesAgain, Queued
    <3>. QED BY <3>1, <3>2
  <2>. QED BY <1>1, <2>3 DEF BeginCollapse, MayBegin, Queued
<1>2. CASE Restore
  BY <1>2 DEF Restore, TearDown, End, ReleaseAssertions
<1>3. ASSUME NEW b \in work, RetryA(b) PROVE Control'
  <2>. DEFINE rest == work \ {b}
  <2>1. UNCHANGED <<passes, running, comfort>>
    BY <1>3 DEF RetryA
  <2>2. \/ GoesOn(state, rest) \/ TriesAgain(b.attempt, state, rest)
        \/ GivesUp(b.attempt, state, rest) \/ IsLate(state, rest)
    BY <1>3, AttemptAOutcome DEF RetryA
  <2>3. CASE GoesOn(state, rest)
    BY <2>1, <2>3 DEF GoesOn, Queued
  <2>4. CASE TriesAgain(b.attempt, state, rest)
    BY <2>1, <2>4 DEF TriesAgain, Queued
  <2>5. CASE GivesUp(b.attempt, state, rest)
    BY <2>1, <2>5 DEF GivesUp, Abort
  <2>6. CASE IsLate(state, rest)
    BY <2>1, <2>6 DEF IsLate
  <2>. QED BY <2>2, <2>3, <2>4, <2>5, <2>6
<1>4. ASSUME NEW b \in work, RetryB(b) PROVE Control'
  <2>1. Queued(work \ {b}, {"createB", "finish"})
    BY <1>4, AttemptBOutcome DEF RetryB, TypeOK, Displays
  <2>. QED BY <1>4, <2>1 DEF RetryB, Queued
<1>5. ASSUME NEW b \in work, Finish(b) PROVE Control'
  <2>1. CASE Mirror(b.gen, 1, b.target, work \ {b}, FALSE) /\ state' = "collapsed"
    <3>1. \/ work' = work \ {b}
          \/ \E c : c.step = "mirror" /\ c.attempt = 1 + 1 /\ work' = (work \ {b}) \cup {c}
      BY <2>1, MirrorOutcome
    <3>2. UNCHANGED <<passes, running>> /\ state # "idle"
      BY <1>5, <2>1 DEF Finish, Mirror
    <3>. QED BY <2>1, <3>1, <3>2
  <2>2. CASE state # "collapsing" /\ work' = work \ {b} /\ UNCHANGED <<state, wake, comfort>>
    BY <1>5, <2>2 DEF Finish
  <2>. QED BY <1>5, <2>1, <2>2 DEF Finish
<1>6. ASSUME NEW b \in work, RetryMirror(b) PROVE Control'
  <2>1. b.step = "mirror" /\ b.attempt \in Nat /\ b.attempt > 1
    BY <1>6 DEF RetryMirror, TypeOK, Work
  <2>2. Mirror(b.gen, b.attempt, b.target, work \ {b}, wake)
    BY <1>6 DEF RetryMirror
  <2>3. UNCHANGED <<state, passes, running, comfort>>
    BY <1>6 DEF RetryMirror
  <2>4. /\ wake' = wake
        /\ \/ work' = work \ {b}
           \/ \E c : /\ c.step = "mirror" /\ c.attempt = b.attempt + 1
                     /\ work' = (work \ {b}) \cup {c}
    BY <2>1, <2>2, MirrorOutcome
  <2>. QED BY <1>6, <2>1, <2>3, <2>4
<1>7. CASE RestoreLayout
  BY <1>7, MaxPassesAssumption DEF RestoreLayout, Pass, TypeOK, LifecycleTypeOK
<1>8. CASE CoolOff
  BY <1>8 DEF CoolOff, CoolDown
<1>9. ASSUME NEW s \in Slots, Reclaim(s) PROVE Control'
  BY <1>9 DEF Reclaim
<1>10. ASSUME NEW s \in Slots, Terminated(s) PROVE Control'
  <2>1. /\ running /\ UNCHANGED <<running, work>>
        /\ \/ state' = "idle" /\ wake' = FALSE /\ comfort' = FALSE
           \/ UNCHANGED <<state, passes, wake, comfort>>
    BY <1>10 DEF Terminated, TearDown, End, ReleaseAssertions
  <2>. QED BY <2>1
<1>11. ASSUME NEW p \in Physical, Plug(p) \/ Unplug(p) PROVE Control'
  BY <1>11 DEF Plug, Unplug
<1>12. CASE Crash
  BY <1>12 DEF Crash, Die
<1>13. CASE Launch
  BY <1>13 DEF Launch
<1>14. CASE UNCHANGED vars
  BY <1>14 DEF vars
<1>. QED BY <1>1, <1>2, <1>3, <1>4, <1>5, <1>6, <1>7, <1>8, <1>9, <1>10, <1>11,
            <1>12, <1>13, <1>14 DEF Next, RunWork, RunBlock

-----------------------------------------------------------------------------
(* While nothing is disturbed                                              *)

\* restore() leaves an idle coordinator without displays.
LEMMA TearDownOutcome ==
  ASSUME NEW S, NEW T, TearDown(S, T)
  PROVE  /\ state' = "idle" /\ passes' = passes + 1
         /\ displays' = NoDisplays /\ work' = work /\ running' = running
         /\ snapshot' = snapshot /\ windows' = windows
         /\ ~disturbed' =>
              ~disturbed /\ osMirrored' = osMirrored \ mirrored /\ mirrored' = {}
BY DEF TearDown, End, Destroy, Unmirror

\* Every step keeps what may be queued in which state.
LEMMA StageStep ==
  TypeOK /\ Control /\ OneBlock /\ Stage /\ [Next]_vars => OneBlock' /\ Stage'
<1>. SUFFICES ASSUME TypeOK, Control, OneBlock, Stage, [Next]_vars, ~disturbed'
              PROVE  OneBlock' /\ Stage'
  BY DEF OneBlock, Stage
<1>. USE DEF OneBlock, Stage
<1>0. NoDisplays["a"] = None
  BY DEF NoDisplays, Slots
<1>1. CASE BeginCollapse
  <2>1. ~disturbed /\ state = "idle" /\ work = {} /\ displays["a"] = None
    BY <1>1 DEF BeginCollapse, MayBegin, NotUndone
  <2>2. PICK g : AttemptA(g, 1, "collapsing", work)
    BY <1>1, <2>1 DEF BeginCollapse
  <2>3. 1 # MaxCreateAttempts
    BY CollapseAssumption
  <2>4. GoesOn("collapsing", work) \/ TriesAgain(1, "collapsing", work)
    BY <2>2, <2>3, AttemptAOutcome DEF GivesUp, IsLate
  <2>. QED BY <2>1, <2>4 DEF GoesOn, TriesAgain, Queued
<1>2. CASE Restore
  BY <1>0, <1>2, TearDownOutcome DEF Restore
<1>3. ASSUME NEW b \in work, RetryA(b) PROVE OneBlock' /\ Stage'
  <2>. DEFINE rest == work \ {b}
  <2>1. b.step = "createA" /\ ~disturbed /\ rest = {} /\ state # "collapsed"
    BY <1>3 DEF RetryA
  <2>2. displays["a"] = None
    BY <2>1 DEF TypeOK, LifecycleTypeOK, States
  <2>3. \/ GoesOn(state, rest) \/ TriesAgain(b.attempt, state, rest)
        \/ GivesUp(b.attempt, state, rest) \/ IsLate(state, rest)
    BY <1>3, AttemptAOutcome DEF RetryA
  <2>. HIDE DEF rest
  <2>4. CASE GoesOn(state, rest)
    BY <2>1, <2>4 DEF GoesOn, Queued
  <2>5. CASE TriesAgain(b.attempt, state, rest)
    BY <2>1, <2>2, <2>5 DEF TriesAgain, Queued
  <2>6. CASE GivesUp(b.attempt, state, rest)
    BY <2>1, <2>2, <2>6 DEF GivesUp, Abort
  <2>7. CASE IsLate(state, rest)
    BY <1>0, <2>1, <2>7 DEF IsLate
  <2>. QED BY <2>3, <2>4, <2>5, <2>6, <2>7
<1>4. ASSUME NEW b \in work, RetryB(b) PROVE OneBlock' /\ Stage'
  <2>1. b.step = "createB" /\ ~disturbed /\ work \ {b} = {} /\ state' = state
    BY <1>4 DEF RetryB
  <2>2. /\ Queued(work \ {b}, {"createB", "finish"})
        /\ displays'["a"] = displays["a"]
    BY <1>4, AttemptBOutcome DEF RetryB, TypeOK, Displays
  <2>. QED BY <2>1, <2>2 DEF Queued
<1>5. ASSUME NEW b \in work, Finish(b) PROVE OneBlock' /\ Stage'
  <2>1. b.step = "finish" /\ ~disturbed /\ work \ {b} = {} /\ displays' = displays
    BY <1>5 DEF Finish
  <2>2. CASE state = "collapsing"
    <3>1. state' = "collapsed" /\ Mirror(b.gen, 1, b.target, work \ {b}, FALSE)
      BY <1>5, <2>2 DEF Finish
    <3>2. \/ work' = work \ {b}
          \/ \E c : c.step = "mirror" /\ work' = (work \ {b}) \cup {c}
      BY <3>1, MirrorOutcome
    <3>. QED BY <2>1, <2>2, <3>1, <3>2
  <2>3. CASE state # "collapsing"
    BY <1>5, <2>1, <2>3 DEF Finish
  <2>. QED BY <2>2, <2>3
<1>6. ASSUME NEW b \in work, RetryMirror(b) PROVE OneBlock' /\ Stage'
  <2>1. /\ b.step = "mirror" /\ ~disturbed /\ work \ {b} = {}
        /\ UNCHANGED <<state, displays>>
    BY <1>6 DEF RetryMirror
  <2>2. \/ work' = work \ {b}
        \/ \E c : c.step = "mirror" /\ work' = (work \ {b}) \cup {c}
    BY <1>6, MirrorOutcome DEF RetryMirror
  <2>. QED BY <2>1, <2>2
<1>7. CASE RestoreLayout \/ CoolOff
  BY <1>7 DEF RestoreLayout, Pass, CoolOff, CoolDown
<1>8. ASSUME NEW s \in Slots, Reclaim(s) PROVE OneBlock' /\ Stage'
  BY <1>8 DEF Reclaim
<1>9. ASSUME NEW s \in Slots, Terminated(s) PROVE OneBlock' /\ Stage'
  <2>1. CASE EndsCollapse(s)
    BY <1>0, <1>9, <2>1, TearDownOutcome DEF Terminated
  <2>2. CASE ~EndsCollapse(s)
    <3>1. /\ UNCHANGED <<state, work, disturbed>>
          /\ displays' = [displays EXCEPT ![s] = None]
      BY <1>9, <2>2 DEF Terminated
    <3>2. s = "a" => displays["a"] = None
      BY <2>2, <3>1 DEF EndsCollapse
    <3>3. displays'["a"] = displays["a"]
      BY <3>1, <3>2 DEF TypeOK, Slots
    <3>. QED BY <3>1, <3>3
  <2>. QED BY <2>1, <2>2
<1>10. ASSUME NEW p \in Physical, Plug(p) \/ Unplug(p) PROVE OneBlock' /\ Stage'
  BY <1>10 DEF Plug, Unplug
<1>11. CASE Crash
  BY <1>0, <1>11 DEF Crash, Die
<1>12. CASE Launch
  BY <1>0, <1>12 DEF Launch, Control, DownIsEmpty
<1>13. CASE UNCHANGED vars
  BY <1>13 DEF vars
<1>. QED BY <1>1, <1>2, <1>3, <1>4, <1>5, <1>6, <1>7, <1>8, <1>9, <1>10, <1>11,
            <1>12, <1>13 DEF Next, RunWork, RunBlock

\* What mirroring does to the desk: the displays mirrored are known to the
\* coordinator, and nothing happens if the target is gone.
LEMMA MirrorOntoOutcome ==
  ASSUME NEW v, NEW P, MirrorOnto(v, P), osMirrored = {}
  PROVE  /\ osMirrored' \subseteq mirrored'
         /\ displays = NoDisplays => osMirrored' = {} /\ windows' = windows
<1>1. displays = NoDisplays => v \notin Live(displays)
  BY DEF Live, NoDisplays
<1>. QED BY <1>1 DEF MirrorOnto

\* Every step keeps what is mirrored and where the windows are.
LEMMA DeskStep ==
  /\ TypeOK /\ Control /\ OneBlock /\ Stage /\ MirrorStage /\ WindowStage
  /\ [Next]_vars
  => MirrorStage' /\ WindowStage'
<1>. DEFINE Desk == MirrorStage /\ WindowStage
<1>. SUFFICES ASSUME TypeOK, Control, OneBlock, Stage, MirrorStage, WindowStage,
                     [Next]_vars, running', ~disturbed'
              PROVE  Desk'
  BY DEF MirrorStage, WindowStage
<1>. USE DEF MirrorStage, WindowStage
<1>0. /\ state \in States /\ passes \in Nat
      /\ \A b \in work : running
  BY MaxPassesAssumption DEF TypeOK, LifecycleTypeOK, Control, DownIsEmpty
<1>1. CASE BeginCollapse
  <2>0. running /\ ~disturbed /\ ~NotUndone /\ state = "idle"
    BY <1>1 DEF BeginCollapse, MayBegin
  <2>1. /\ running /\ ~disturbed /\ state = "idle" /\ work = {} /\ passes = 0
        /\ osMirrored = {} /\ displays["a"] = None
    BY <1>0, <2>0 DEF NotUndone, Stage
  <2>2. PICK g : AttemptA(g, 1, "collapsing", work)
    BY <1>1, <2>1 DEF BeginCollapse
  <2>3. 1 # MaxCreateAttempts
    BY CollapseAssumption
  <2>4. GoesOn("collapsing", work) \/ TriesAgain(1, "collapsing", work)
    BY <2>2, <2>3, AttemptAOutcome DEF GivesUp, IsLate
  <2>5. state' = "collapsing" /\ Queued(work, {"createA", "createB", "finish"})
    BY <2>4 DEF GoesOn, TriesAgain, Queued
  <2>6. /\ UNCHANGED <<passes, mirrored, osMirrored, windows>>
        /\ snapshot' = windows
    BY <1>1 DEF BeginCollapse
  <2>. QED BY <2>1, <2>5, <2>6 DEF Queued
<1>2. ASSUME NEW S, NEW T, TearDown(S, T), running PROVE Desk'
  <2>1. /\ state' = "idle" /\ passes' = passes + 1 /\ displays' = NoDisplays
        /\ ~disturbed /\ osMirrored' = {} /\ snapshot' = "home"
    BY <1>2, TearDownOutcome
  <2>. QED BY <1>0, <2>1
<1>3. ASSUME NEW b \in work, RetryA(b) PROVE Desk'
  <2>. DEFINE rest == work \ {b}
  <2>1. /\ running /\ b.step = "createA" /\ ~disturbed /\ rest = {}
        /\ state # "collapsed" /\ osMirrored = {}
    BY <1>0, <1>3 DEF RetryA, OneBlock, Stage
  <2>2. UNCHANGED <<passes, mirrored, osMirrored, snapshot, windows>>
    BY <1>3 DEF RetryA
  <2>3. \/ GoesOn(state, rest) \/ TriesAgain(b.attempt, state, rest)
        \/ GivesUp(b.attempt, state, rest) \/ IsLate(state, rest)
    BY <1>3, AttemptAOutcome DEF RetryA
  <2>4. \A c \in work' : c.step # "mirror"
    BY <2>1, <2>3 DEF GoesOn, TriesAgain, GivesUp, Abort, IsLate, Queued
  <2>5. state' = state \/ (state = "collapsing" /\ state' = "idle")
    BY <2>3 DEF GoesOn, TriesAgain, GivesUp, Abort, IsLate
  <2>. QED BY <2>1, <2>2, <2>4, <2>5
<1>4. ASSUME NEW b \in work, RetryB(b) PROVE Desk'
  <2>1. /\ running /\ ~disturbed /\ work \ {b} = {} /\ state # "collapsed"
    BY <1>0, <1>4 DEF RetryB, OneBlock, Stage
  <2>2. Queued(work \ {b}, {"createB", "finish"})
    BY <1>4, AttemptBOutcome DEF RetryB, TypeOK, Displays
  <2>3. UNCHANGED <<state, passes, mirrored, osMirrored, snapshot, windows>>
    BY <1>4 DEF RetryB
  <2>. QED BY <2>1, <2>2, <2>3 DEF Queued
<1>5. ASSUME NEW b \in work, Finish(b) PROVE Desk'
  <2>1. /\ running /\ ~disturbed /\ work \ {b} = {}
        /\ UNCHANGED <<passes, snapshot>>
    BY <1>0, <1>5 DEF Finish, OneBlock
  <2>2. CASE state = "collapsing"
    <3>1. state' = "collapsed" /\ Mirror(b.gen, 1, b.target, work \ {b}, FALSE)
      BY <1>5, <2>2 DEF Finish
    <3>2. osMirrored' \subseteq mirrored'
      BY <2>1, <2>2, <3>1, MirrorOutcome, MirrorOntoOutcome
    <3>3. work' = {} \/ osMirrored' = {}
      BY <2>1, <2>2, <3>1, MirrorOutcome
    <3>. QED BY <2>1, <2>2, <3>1, <3>2, <3>3
  <2>3. CASE state # "collapsing"
    BY <1>5, <2>1, <2>3 DEF Finish
  <2>. QED BY <2>2, <2>3
<1>6. ASSUME NEW b \in work, RetryMirror(b) PROVE Desk'
  <2>1. /\ running /\ ~disturbed /\ work \ {b} = {} /\ b.step = "mirror"
        /\ osMirrored = {} /\ state # "collapsing"
        /\ UNCHANGED <<state, displays, passes, snapshot>>
    BY <1>0, <1>6 DEF RetryMirror, OneBlock, Stage
  <2>2. Mirror(b.gen, b.attempt, b.target, work \ {b}, wake)
    BY <1>6 DEF RetryMirror
  <2>3. osMirrored' \subseteq mirrored'
    BY <2>1, <2>2, MirrorOutcome, MirrorOntoOutcome
  <2>4. CASE state = "idle"
    <3>1. displays = NoDisplays /\ work' = {}
      BY <2>1, <2>2, <2>4, MirrorOutcome
    <3>2. windows' = windows /\ osMirrored' = {}
      BY <2>1, <2>2, <3>1, MirrorOutcome, MirrorOntoOutcome
    <3>. QED BY <2>1, <2>3, <2>4, <3>1, <3>2
  <2>5. CASE state = "collapsed"
    <3>1. work' = {} \/ osMirrored' = {}
      BY <2>1, <2>2, MirrorOutcome
    <3>. QED BY <2>1, <2>3, <2>5, <3>1
  <2>. QED BY <1>0, <2>1, <2>4, <2>5 DEF States
<1>7. CASE RestoreLayout
  <2>1. /\ running /\ ~disturbed /\ passes > 0
        /\ UNCHANGED <<state, work, displays, mirrored, osMirrored, snapshot>>
        /\ windows' = IF osMirrored = {} THEN snapshot ELSE windows
    BY <1>7 DEF RestoreLayout, Pass, PutWindowsBack
  <2>2. state = "idle" /\ osMirrored = {} /\ windows' = "home"
    BY <1>0, <2>1
  <2>. QED BY <2>1, <2>2
<1>8. CASE CoolOff
  BY <1>8 DEF CoolOff, CoolDown
<1>9. ASSUME NEW s \in Slots, Reclaim(s) PROVE Desk'
  BY <1>9 DEF Reclaim
<1>10. ASSUME NEW s \in Slots, Terminated(s) PROVE Desk'
  <2>1. CASE EndsCollapse(s)
    BY <1>2, <1>10, <2>1 DEF Terminated
  <2>2. CASE ~EndsCollapse(s)
    <3>1. /\ running /\ ~disturbed
          /\ UNCHANGED <<state, passes, work, mirrored, osMirrored, snapshot, windows>>
          /\ displays' = [displays EXCEPT ![s] = None]
      BY <1>10, <2>2 DEF Terminated
    <3>2. displays = NoDisplays => displays' = NoDisplays
      BY <3>1 DEF NoDisplays
    <3>. QED BY <3>1, <3>2
  <2>. QED BY <2>1, <2>2
<1>11. ASSUME NEW p \in Physical, Plug(p) \/ Unplug(p) PROVE Desk'
  BY <1>11 DEF Plug, Unplug
<1>12. CASE Crash
  BY <1>12 DEF Crash
<1>13. CASE Launch
  BY <1>13 DEF Launch, RecoverOrphanedMirrors, Control, DownIsEmpty
<1>14. CASE UNCHANGED vars
  BY <1>14 DEF vars
<1>. QED BY <1>1, <1>2, <1>3, <1>4, <1>5, <1>6, <1>7, <1>8, <1>9, <1>10, <1>11,
            <1>12, <1>13, <1>14 DEF Next, RunWork, RunBlock, Restore

-----------------------------------------------------------------------------
(* Every behaviour                                                         *)

\* The invariant holds at first.
LEMMA InitIInv == Init => IInv
<1>. SUFFICES ASSUME Init PROVE IInv
  OBVIOUS
<1>. USE DEF Init, LifecycleInit
<1>0. 0 \in 0..MaxPasses
  BY MaxPassesAssumption
<1>1. LifecycleTypeOK
  BY <1>0 DEF LifecycleTypeOK, States
<1>2. displays \in Displays /\ terminations \in Handlers
  BY CollapseAssumption DEF NoDisplays, Displays, Handlers
<1>3. TypeOK
  BY <1>1, <1>2 DEF TypeOK, Displays, Handlers
<1>4. displays["a"] = None
  BY DEF NoDisplays, Slots
<1>. QED BY <1>3, <1>4 DEF IInv, RoomForPass, MirrorBlocksRetry, DownIsEmpty,
            CollapsingHasWork, AssertionsOnlyWhileCollapsed, OneBlock, Stage,
            MirrorStage, WindowStage

\* Every step keeps the invariant.
LEMMA NextIInv == IInv /\ [Next]_vars => IInv'
BY TypeStep, ControlStep, StageStep, DeskStep DEF IInv, Control

\* So it holds always.
LEMMA Invariance == Spec => []IInv
BY InitIInv, NextIInv, PTL DEF Spec

\* The variables of Collapse keep their types: in particular no more than
\* MaxPasses layout passes and MaxTerminations handlers per slot are queued.
THEOREM TypeCorrect == Spec => []TypeOK
BY Invariance, PTL DEF IInv

\* A collapse under way is never stranded: collapse() always leaves a block on
\* the main queue that carries it on, through all retries of both displays.
THEOREM NeverStranded == Spec => []CollapsingHasWork
BY Invariance, PTL DEF IInv

\* Power assertions are held by an established collapse only.
THEOREM NoAssertionLeak == Spec => []AssertionsOnlyWhileCollapsed
BY Invariance, PTL DEF IInv

\* A collapse that overlaps no other has its display A for as long as it lasts,
\* and an idle coordinator has none.
THEOREM DisplayFollowsState == Spec => []DisplayAFollowsState
<1>1. IInv => DisplayAFollowsState
  BY DEF IInv, Stage, DisplayAFollowsState
<1>. QED BY <1>1, Invariance, PTL

\* Every physical display is un-mirrored when the coordinator is idle, also
\* after a crash: restore() and recoverOrphanedMirrors miss none.
THEOREM NoDisplayLeftMirrored == Spec => []IdleUnmirrored
<1>1. IInv => IdleUnmirrored
  BY DEF IInv, MirrorStage, IdleUnmirrored
<1>. QED BY <1>1, Invariance, PTL

\* The deferred layout pass brings the windows home.
THEOREM LayoutRestored == Spec => []WindowsComeHome
<1>1. IInv => WindowsComeHome
  BY DEF IInv, WindowStage, WindowsComeHome
<1>. QED BY <1>1, Invariance, PTL

-----------------------------------------------------------------------------
(* Collapse implements Lifecycle                                           *)

\* Every step is a step of Lifecycle or leaves its state alone.
LEMMA StepRefines == TypeOK /\ [Next]_vars => [LifecycleNext]_lifecycleVars
<1>. SUFFICES ASSUME TypeOK, [Next]_vars PROVE [LifecycleNext]_lifecycleVars
  OBVIOUS
<1>. USE DEF LifecycleNext, lifecycleVars
<1>1. CASE BeginCollapse
  <2>1. displays \in Displays /\ 1 # MaxCreateAttempts
    BY CollapseAssumption DEF TypeOK, Displays
  <2>2. PICK g : IF displays["a"] # None
                   THEN CreatedA(g, displays["a"], work, displays)
                   ELSE AttemptA(g, 1, "collapsing", work)
    BY <1>1 DEF BeginCollapse
  <2>3. CASE displays["a"] # None
    <3>1. state' = "collapsing" /\ cooling' = cooling
      BY <2>1, <2>2, <2>3, CreatedAOutcome
    <3>. QED BY <1>1, <3>1 DEF BeginCollapse, Begin
  <2>4. CASE displays["a"] = None
    <3>1. GoesOn("collapsing", work) \/ TriesAgain(1, "collapsing", work)
      BY <2>1, <2>2, <2>4, AttemptAOutcome DEF GivesUp, IsLate
    <3>2. state' = "collapsing" /\ cooling' = cooling
      BY <3>1 DEF GoesOn, TriesAgain
    <3>. QED BY <1>1, <3>2 DEF BeginCollapse, Begin
  <2>. QED BY <2>3, <2>4
<1>2. CASE Restore
  BY <1>2 DEF Restore, TearDown
<1>3. ASSUME NEW b \in work, RetryA(b) PROVE [LifecycleNext]_lifecycleVars
  <2>. DEFINE rest == work \ {b}
  <2>1. UNCHANGED <<inFlight, passes>>
    BY <1>3 DEF RetryA
  <2>2. \/ GoesOn(state, rest) \/ TriesAgain(b.attempt, state, rest)
        \/ GivesUp(b.attempt, state, rest) \/ IsLate(state, rest)
    BY <1>3, AttemptAOutcome DEF RetryA
  <2>3. CASE GivesUp(b.attempt, state, rest)
    BY <2>1, <2>3 DEF GivesUp, Abort, GiveUp
  <2>4. CASE state' = state /\ cooling' = cooling
    BY <2>1, <2>4
  <2>. QED BY <2>2, <2>3, <2>4 DEF GoesOn, TriesAgain, IsLate
<1>4. ASSUME NEW b \in work, RetryB(b) \/ RetryMirror(b)
      PROVE  UNCHANGED lifecycleVars
  BY <1>4 DEF RetryB, RetryMirror
<1>5. ASSUME NEW b \in work, Finish(b) PROVE [LifecycleNext]_lifecycleVars
  BY <1>5 DEF Finish, Establish
<1>6. CASE RestoreLayout \/ CoolOff \/ Crash
  BY <1>6 DEF RestoreLayout, CoolOff, Crash
<1>7. ASSUME NEW s \in Slots, Terminated(s) PROVE [LifecycleNext]_lifecycleVars
  BY <1>7 DEF Terminated, TearDown
<1>8. ASSUME NEW s, Reclaim(s) \/ Plug(s) \/ Unplug(s) \/ Launch
      PROVE  UNCHANGED lifecycleVars
  BY <1>8 DEF Reclaim, Plug, Unplug, Launch
<1>9. CASE UNCHANGED vars
  BY <1>9 DEF vars
<1>. QED BY <1>1, <1>2, <1>3, <1>4, <1>5, <1>6, <1>7, <1>8, <1>9
         DEF Next, RunWork, RunBlock

\* The coordinator behaves as Lifecycle promises the rest of the host app.
THEOREM Refinement == Spec => RefinesLifecycle
<1>1. Init => LifecycleInit
  BY DEF Init
<1>. QED BY <1>1, StepRefines, TypeCorrect, PTL DEF Spec, LifecycleSpec, RefinesLifecycle

=============================================================================
