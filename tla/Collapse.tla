------------------------------ MODULE Collapse ------------------------------
(***************************************************************************)
(* CollapseCoordinator with the VirtualDisplayController it owns: a        *)
(* collapse creates virtual display A (and B in dual mode), mirrors the    *)
(* physical displays onto A and holds power assertions; a restore undoes   *)
(* all of it and puts the windows back two seconds later.                  *)
(*                                                                         *)
(* Everything runs on the main queue, so each handler is one action; what  *)
(* interleaves are the handlers, above all the delayed blocks a collapse   *)
(* leaves on the queue (work). WindowServer, the displays being plugged    *)
(* and unplugged, and the callers of collapse() and restore() are free.    *)
(* Delays are not measured: a queued block may run at any time.            *)
(***************************************************************************)
EXTENDS Lifecycle, FiniteSets

CONSTANTS
  Physical,            \* physical displays
  VirtualIDs,          \* display IDs WindowServer may give a virtual display
  Gens,                \* names of the collapses that have work on the queue
  MaxCreateAttempts,   \* 8 in the code
  MaxMirrorAttempts,   \* 20 in the code
  MaxTerminations,     \* bound: termination handlers queued per slot
  None

ASSUME CollapseAssumption ==
  /\ MaxCreateAttempts \in Nat /\ MaxCreateAttempts > 1
  /\ MaxMirrorAttempts \in Nat /\ MaxMirrorAttempts > 1
  /\ MaxTerminations \in Nat
  /\ None \notin VirtualIDs

VARIABLES
  running,        \* the process is up
  displays,       \* VirtualDisplayController.displays: slot -> ID or None
  terminations,   \* termination handlers queued, per slot
  work,           \* asyncAfter blocks of collapses on the main queue
  plugged,        \* physical displays connected to the Mac
  mirrored,       \* mirroredDisplays
  osMirrored,     \* displays WindowServer has mirroring a virtual one
  wake,           \* displayWakeAssertion is held
  comfort,        \* SessionComfort.hasAssertion
  snapshot,       \* the layout WindowLayoutStore saved: "home" or "moved"
  windows,        \* where the windows are: "home" or "moved"
  disturbed       \* history: a collapse began before the last was undone,
                  \* or WindowServer refused to un-mirror

vars == <<state, cooling, inFlight, passes, running, displays, terminations,
          work, plugged, mirrored, osMirrored, wake, comfort, snapshot,
          windows, disturbed>>

Slots == {"a", "b"}
Steps == {"createA", "createB", "finish", "mirror"}

\* How often a step is attempted.
MaxAttempts(step) == IF step = "mirror" THEN MaxMirrorAttempts ELSE MaxCreateAttempts

\* A block on the main queue: which collapse queued it, what it does, its
\* attempt number, and the ID of display A that it captured.
Work == {b \in [gen : Gens, step : Steps, attempt : Nat, target : VirtualIDs \cup {None}] :
           b.attempt \in 1..MaxAttempts(b.step)}
Block(g, step, n, v) == [gen |-> g, step |-> step, attempt |-> n, target |-> v]

Live(D) == {D[s] : s \in Slots} \ {None}
NoDisplays == [s \in Slots |-> None]

TypeOK ==
  /\ LifecycleTypeOK
  /\ running \in BOOLEAN
  /\ displays \in [Slots -> VirtualIDs \cup {None}]
  /\ terminations \in [Slots -> 0..MaxTerminations]
  /\ work \subseteq Work
  /\ plugged \subseteq Physical
  /\ mirrored \subseteq Physical
  /\ osMirrored \subseteq Physical
  /\ wake \in BOOLEAN /\ comfort \in BOOLEAN
  /\ snapshot \in {"home", "moved"} /\ windows \in {"home", "moved"}
  /\ disturbed \in BOOLEAN

Init ==
  /\ LifecycleInit
  /\ running = TRUE
  /\ displays = NoDisplays
  /\ terminations = [s \in Slots |-> 0]
  /\ work = {}
  /\ plugged \in SUBSET Physical
  /\ mirrored = {} /\ osMirrored = {}
  /\ wake = FALSE /\ comfort = FALSE
  /\ snapshot = "home" /\ windows = "home"
  /\ disturbed = FALSE

-----------------------------------------------------------------------------
(* VirtualDisplayController                                                *)

\* WindowServer may call the termination handlers of the displays that this
\* step releases, those of the slots S; T counts the handlers already queued.
QueueHandlers(S, T) ==
  \E called \in SUBSET {s \in S : T[s] < MaxTerminations} :
    terminations' = [s \in Slots |-> IF s \in called THEN T[s] + 1 ELSE T[s]]

\* The controller now holds the displays D. A display it held before and no
\* longer holds is released, and so are those just created in the slots S.
Hold(D, S) ==
  /\ displays' = D
  /\ QueueHandlers(S \cup {s \in Slots : displays[s] \notin {None, D[s]}}, terminations)

\* IDs WindowServer can give a new display while the displays D exist.
FreshIDs(D) == VirtualIDs \ Live(D)

\* finishCollapse: its body runs one second later.
QueueFinish(g, v, rest) == work' = rest \cup {Block(g, "finish", 1, v)}

\* Mutant: the last failed attempt does not call the completion.
AttemptBForgets(g, n, v, rest, D) ==
  \/ \E w \in FreshIDs(D) :
       /\ Hold([D EXCEPT !["b"] = w], {})
       /\ QueueFinish(g, v, rest)
  \/ /\ Hold(D, {})
     /\ work' = IF n < MaxCreateAttempts
                  THEN rest \cup {Block(g, "createB", n + 1, v)}
                  ELSE rest

\* Attempt n to create display B for the collapse whose display A is v. The
\* completion goes on to finishCollapse whether B exists or not.
AttemptB(g, n, v, rest, D) ==
  \/ \E w \in FreshIDs(D) :
       /\ Hold([D EXCEPT !["b"] = w], {})
       /\ QueueFinish(g, v, rest)
  \/ /\ n < MaxCreateAttempts
     /\ Hold(D, {})
     /\ work' = rest \cup {Block(g, "createB", n + 1, v)}
  \/ /\ n = MaxCreateAttempts
     /\ Hold(D, {})
     /\ QueueFinish(g, v, rest)

CreateB(g, v, rest, D) ==
  \/ /\ D["b"] # None
     /\ Hold(D, {})
     /\ QueueFinish(g, v, rest)
  \/ /\ D["b"] = None
     /\ AttemptB(g, 1, v, rest, D)

\* The completion of create(slot a) while a collapse waits for it: display A
\* exists (the controller holds D), go on to display B if dualMode says so.
CreatedA(g, v, rest, D) ==
  /\ \/ CreateB(g, v, rest, D)
     \/ Hold(D, {}) /\ QueueFinish(g, v, rest)
  /\ state' = "collapsing"
  /\ UNCHANGED <<cooling, wake>>

\* The completion of create(slot a) when restore() ran in the meantime: every
\* virtual display goes, and the wake assertion.
DropCreated(rest, S) ==
  /\ Hold(NoDisplays, S)
  /\ work' = rest
  /\ wake' = FALSE
  /\ UNCHANGED <<state, cooling>>

\* Mutant: the failure is not remembered.
AbortQuietly(rest) ==
  /\ state' = "idle"
  /\ wake' = FALSE
  /\ work' = rest
  /\ UNCHANGED <<cooling, displays, terminations>>

\* The completion of create(slot a) when every attempt failed.
Abort(rest) ==
  /\ state' = "idle"
  /\ cooling' = TRUE
  /\ wake' = FALSE
  /\ work' = rest
  /\ UNCHANGED <<displays, terminations>>

\* Attempt n to create display A, the coordinator being in state st.
AttemptA(g, n, st, rest) ==
  \/ \E v \in FreshIDs(displays) :
       IF st = "collapsing"
         THEN CreatedA(g, v, rest, [displays EXCEPT !["a"] = v])
         ELSE DropCreated(rest, {"a"})
  \/ /\ n < MaxCreateAttempts
     /\ work' = rest \cup {Block(g, "createA", n + 1, None)}
     /\ state' = st
     /\ UNCHANGED <<displays, terminations, cooling, wake>>
  \/ /\ n = MaxCreateAttempts
     /\ IF st = "collapsing" THEN Abort(rest) ELSE DropCreated(rest, {})

-----------------------------------------------------------------------------
(* collapse() and the blocks it queues                                     *)

\* Something of an earlier collapse is still to be done, or still done.
NotUndone == work # {} \/ passes > 0 \/ osMirrored # {}

\* collapse() from idle. Gens bounds the collapses with work on the queue; the
\* name of the new one does not matter.
BeginCollapse ==
  LET free == Gens \ {b.gen : b \in work}
      g == CHOOSE n \in free : TRUE
  IN
  /\ running
  /\ MayBegin
  /\ free # {}
  /\ IF displays["a"] # None
       THEN CreatedA(g, displays["a"], work, displays)
       ELSE AttemptA(g, 1, "collapsing", work)
  /\ snapshot' = windows
  /\ disturbed' = (disturbed \/ NotUndone)
  /\ UNCHANGED <<inFlight, passes, running, plugged, mirrored, osMirrored,
                 comfort, windows>>

RetryA(b) ==
  /\ b.step = "createA"
  /\ AttemptA(b.gen, b.attempt, state, work \ {b})
  /\ UNCHANGED <<inFlight, passes, running, plugged, mirrored, osMirrored,
                 comfort, snapshot, windows, disturbed>>

RetryB(b) ==
  /\ b.step = "createB"
  /\ AttemptB(b.gen, b.attempt, b.target, work \ {b}, displays)
  /\ UNCHANGED <<state, cooling, inFlight, passes, running, plugged, mirrored,
                 osMirrored, wake, comfort, snapshot, windows, disturbed>>

\* CGCompleteDisplayConfiguration for the displays P mirroring v: accepted
\* (with no effect when v is gone) or refused.
MirrorOnto(v, P) ==
  \/ /\ mirrored' = P
     /\ osMirrored' = IF v \in Live(displays) THEN osMirrored \cup P ELSE osMirrored
     /\ windows' = IF v \in Live(displays) THEN "moved" ELSE windows
  \/ UNCHANGED <<mirrored, osMirrored, windows>>

\* Mutant: one attempt too many.
MirrorOnceMore(g, n, v, rest, held) ==
  \/ \E P \in (SUBSET plugged) \ {{}} :
       /\ MirrorOnto(v, P)
       /\ work' = rest
       /\ wake' = held
  \/ /\ state # "idle"
     /\ n <= MaxMirrorAttempts
     /\ work' = rest \cup {Block(g, "mirror", n + 1, v)}
     /\ wake' \in (IF n = 1 THEN BOOLEAN ELSE {held})
     /\ UNCHANGED <<mirrored, osMirrored, windows>>
  \/ /\ state = "idle" \/ n > MaxMirrorAttempts
     /\ work' = rest
     /\ wake' = held
     /\ UNCHANGED <<mirrored, osMirrored, windows>>

\* mirrorPhysicalDisplays, attempt n, holding the wake assertion if held. The
\* display list may leave out any display; while it is empty, the first attempt
\* declares user activity (which may fail) and another follows in a second.
Mirror(g, n, v, rest, held) ==
  \/ \E P \in (SUBSET plugged) \ {{}} :
       /\ MirrorOnto(v, P)
       /\ work' = rest
       /\ wake' = held
  \/ /\ state # "idle"
     /\ n < MaxMirrorAttempts
     /\ work' = rest \cup {Block(g, "mirror", n + 1, v)}
     /\ wake' \in (IF n = 1 THEN BOOLEAN ELSE {held})
     /\ UNCHANGED <<mirrored, osMirrored, windows>>
  \/ /\ state = "idle" \/ n = MaxMirrorAttempts
     /\ work' = rest
     /\ wake' = held
     /\ UNCHANGED <<mirrored, osMirrored, windows>>

\* The body of finishCollapse: the wake assertion is released, the displays
\* mirrored, the display-sleep assertion taken (it may be refused).
Finish(b) ==
  /\ b.step = "finish"
  /\ \/ /\ state = "collapsing"
        /\ Mirror(b.gen, 1, b.target, work \ {b}, FALSE)
        /\ comfort' \in {comfort, TRUE}
        /\ state' = "collapsed"
     \/ /\ state # "collapsing"
        /\ work' = work \ {b}
        /\ UNCHANGED <<state, mirrored, osMirrored, windows, wake, comfort>>
  /\ UNCHANGED <<cooling, inFlight, passes, running, displays, terminations,
                 plugged, snapshot, disturbed>>

RetryMirror(b) ==
  /\ b.step = "mirror"
  /\ Mirror(b.gen, b.attempt, b.target, work \ {b}, wake)
  /\ UNCHANGED <<state, cooling, inFlight, passes, running, displays,
                 terminations, plugged, comfort, snapshot, disturbed>>

RunBlock(b) == RetryA(b) \/ RetryB(b) \/ Finish(b) \/ RetryMirror(b)
RunWork == running /\ \E b \in work : RunBlock(b)

-----------------------------------------------------------------------------
(* restore()                                                               *)

\* unmirrorPhysicalDisplays: accepted, refused at the start (nothing changes)
\* or refused at the commit (the coordinator forgets the displays anyway).
Unmirror ==
  \/ /\ osMirrored' = osMirrored \ mirrored
     /\ mirrored' = {}
     /\ UNCHANGED disturbed
  \/ /\ mirrored # {}
     /\ mirrored' \in {mirrored, {}}
     /\ UNCHANGED osMirrored
     /\ disturbed' = TRUE

\* Mutant: the display-wake assertion is kept.
ReleaseComfort == comfort' = FALSE /\ UNCHANGED wake

\* The display-wake and the display-sleep assertion.
ReleaseAssertions == wake' = FALSE /\ comfort' = FALSE

\* VirtualDisplayController.destroy; S are the slots that hold a display.
Destroy(S, T) ==
  /\ displays' = NoDisplays
  /\ QueueHandlers(S, T)

\* restore() of a collapse.
TearDown(S, T) ==
  /\ End
  /\ ReleaseAssertions
  /\ Unmirror
  /\ Destroy(S, T)
  /\ UNCHANGED <<running, work, plugged, snapshot, windows>>

Restore == running /\ TearDown({s \in Slots : displays[s] # None}, terminations)

\* Mutant: nothing is put back once no display is known to be mirrored.
PutWindowsBackIfMirrored ==
  windows' = IF osMirrored = {} /\ mirrored # {} THEN snapshot ELSE windows

\* WindowLayoutStore.restore. Windows only go back to a desktop that is no
\* longer mirrored.
PutWindowsBack == windows' = IF osMirrored = {} THEN snapshot ELSE windows

\* The deferred half of restore().
RestoreLayout ==
  /\ running
  /\ Pass
  /\ PutWindowsBack
  /\ UNCHANGED <<running, displays, terminations, work, plugged, mirrored,
                 osMirrored, wake, comfort, snapshot, disturbed>>

-----------------------------------------------------------------------------
(* WindowServer, the desk and the process                                  *)

\* WindowServer takes a display back.
Reclaim(s) ==
  /\ running
  /\ displays[s] # None
  /\ terminations[s] < MaxTerminations
  /\ terminations' = [terminations EXCEPT ![s] = @ + 1]
  /\ UNCHANGED <<state, cooling, inFlight, passes, running, displays, work,
                 plugged, mirrored, osMirrored, wake, comfort, snapshot,
                 windows, disturbed>>

\* Mutant: a display that dies during .collapsing is only forgotten.
EndsIfCollapsed(s) == displays[s] # None /\ s = "a" /\ state = "collapsed"

\* onUnexpectedTermination restores.
EndsCollapse(s) == displays[s] # None /\ s = "a" /\ state # "idle"

\* The termination handler, a main-queue block: nothing if the slot is empty,
\* else the slot is emptied, and losing display A ends the collapse.
Terminated(s) ==
  LET T == [terminations EXCEPT ![s] = @ - 1] IN
  /\ running
  /\ terminations[s] > 0
  /\ \/ /\ EndsCollapse(s)
        /\ TearDown({t \in Slots \ {s} : displays[t] # None}, T)
     \/ /\ ~EndsCollapse(s)
        /\ displays' = [displays EXCEPT ![s] = None]
        /\ terminations' = T
        /\ UNCHANGED <<state, cooling, inFlight, passes, running, work,
                       plugged, mirrored, osMirrored, wake, comfort, snapshot,
                       windows, disturbed>>

CoolOff ==
  /\ running
  /\ CoolDown
  /\ UNCHANGED <<running, displays, terminations, work, plugged, mirrored,
                 osMirrored, wake, comfort, snapshot, windows, disturbed>>

\* A physical display is unplugged; displayRemoved forgets it.
Unplug(p) ==
  /\ running
  /\ p \in plugged
  /\ plugged' = plugged \ {p}
  /\ mirrored' = mirrored \ {p}
  /\ osMirrored' = osMirrored \ {p}
  /\ UNCHANGED <<state, cooling, inFlight, passes, running, displays,
                 terminations, work, wake, comfort, snapshot, windows, disturbed>>

Plug(p) ==
  /\ running
  /\ p \notin plugged
  /\ plugged' = plugged \cup {p}
  /\ UNCHANGED <<state, cooling, inFlight, passes, running, displays,
                 terminations, work, mirrored, osMirrored, wake, comfort,
                 snapshot, windows, disturbed>>

\* The process crashes or is killed: its displays and assertions go with it,
\* the mirroring WindowServer was told to do stays.
Crash ==
  /\ running
  /\ running' = FALSE
  /\ Die
  /\ displays' = NoDisplays
  /\ terminations' = [s \in Slots |-> 0]
  /\ work' = {}
  /\ mirrored' = {}
  /\ wake' = FALSE
  /\ comfort' = FALSE
  /\ disturbed' = FALSE
  /\ UNCHANGED <<plugged, osMirrored, snapshot, windows>>

\* Mutant: nothing in memory, nothing to undo.
RecoverNothing == UNCHANGED osMirrored /\ disturbed' = FALSE

\* recoverOrphanedMirrors un-mirrors whatever it finds mirrored, unless
\* WindowServer refuses.
RecoverOrphanedMirrors ==
  \/ osMirrored' = {} /\ disturbed' = FALSE
  \/ osMirrored # {} /\ UNCHANGED osMirrored /\ disturbed' = TRUE

\* A fresh launch. The layout the user finds now is the one to come back to.
Launch ==
  /\ ~running
  /\ running' = TRUE
  /\ RecoverOrphanedMirrors
  /\ snapshot' = "home"
  /\ windows' = "home"
  /\ UNCHANGED <<state, cooling, inFlight, passes, displays, terminations,
                 work, plugged, mirrored, wake, comfort>>

Next ==
  \/ BeginCollapse \/ Restore
  \/ RunWork \/ RestoreLayout \/ CoolOff
  \/ \E s \in Slots : Reclaim(s) \/ Terminated(s)
  \/ \E p \in Physical : Plug(p) \/ Unplug(p)
  \/ Crash \/ Launch

Spec == Init /\ [][Next]_vars

-----------------------------------------------------------------------------
(* Properties                                                              *)

\* A collapse under way always has a block on the main queue that will carry
\* it on: no path through the retries, the second display and the aborts
\* leaves the coordinator in .collapsing with nothing left to run.
CollapsingHasWork ==
  state = "collapsing" => \E b \in work : b.step \in {"createA", "createB", "finish"}

\* No power assertion outlives the collapse it was taken for, whichever of the
\* five places that release them ends it (CollapseCoordinator.restore, the
\* abort, the late completion, finishCollapse; SessionComfort.sessionDidEnd).
AssertionsOnlyWhileCollapsed == wake \/ comfort => state = "collapsed"

\* Display A exists while collapsed: whoever takes it away (WindowServer, a late
\* completion) also ends the collapse. And it does not while idle, also when
\* restore() overtook the creation. Unless collapses overlapped.
DisplayAFollowsState ==
  ~disturbed =>
    /\ state = "collapsed" => displays["a"] # None
    /\ state = "idle" => displays["a"] = None

\* In an idle process no physical display mirrors a virtual one: restore() and,
\* after a crash in the middle of a collapse, recoverOrphanedMirrors find every
\* display that was mirrored, whatever was unplugged or left out of the display
\* list meanwhile. Unless collapses overlapped or WindowServer refused.
IdleUnmirrored == running /\ state = "idle" /\ ~disturbed => osMirrored = {}

\* When a collapse is over and its deferred layout pass has run, the windows
\* are back where they were. Unless a collapse began before the last was undone.
WindowsComeHome ==
  running /\ state = "idle" /\ passes = 0 /\ ~disturbed => windows = "home"

\* The coordinator keeps what Lifecycle promises the rest of the app.
RefinesLifecycle == LifecycleSpec

\* CollapseCoordinator.init: when display A dies "the collapse is dead --
\* restore so mirroring/state don't point at a ghost".
NoGhostCollapse == state = "collapsed" => displays["a"] # None

=============================================================================
