------------------------------ MODULE Session -------------------------------
(***************************************************************************)
(* Who asks for a collapse and who ends it: the session policy of          *)
(* StatusBarApp (poller, browser sessions, Sunshine and native-stream      *)
(* commands, menu, wake, quit) and the part of CollapseCoordinator that    *)
(* keeps time (the deferral while the screen is locked, the restore grace  *)
(* period, the completions of restore()). The displays are Collapse's      *)
(* business; here a collapse is what Lifecycle says it is.                 *)
(*                                                                         *)
(* All of it runs on the main queue. An action is a handler, run to its    *)
(* end; only the completions that a layout pass flushes run one by one     *)
(* (callbacks), with no other handler in between.                          *)
(***************************************************************************)
EXTENDS Lifecycle, Sequences

CONSTANTS
  Requests,        \* what an external collapse may ask for
  Saved,           \* the user's own geometry, in UserDefaults
  NoPresetB,       \* the request does not size display B
  MaxStrays,       \* bound: grace timers nobody can cancel any more
  MaxCompletions   \* bound: completions queued on one restore

\* A collapse's geometry: preset (with dualMode) and presetB. A request names
\* the first, and the second when the client measured its external monitor.
Presets == {r.preset : r \in Requests \cup {Saved}}
PresetBs == {r.presetB : r \in Requests \cup {Saved}} \ {NoPresetB}
Geometries == [preset : Presets, presetB : PresetBs]

ASSUME SessionAssumption ==
  /\ Requests \subseteq [preset : Presets, presetB : PresetBs \cup {NoPresetB}]
  /\ Saved \in Geometries
  /\ Saved.presetB # NoPresetB
  /\ MaxStrays \in Nat
  /\ MaxCompletions \in Nat \ {0}

VARIABLES
  app,             \* "running", "quitting" (.terminateLater) or "exited"
  vnc,             \* vncSessionActive
  web,             \* webSessionActive
  autoMode,
  external,        \* externallyCollapsed
  stream,          \* streamCollapsed
  geometry,        \* coordinator.preset (with dualMode) and presetB
  locked,          \* the screen is locked
  observer,        \* unlockObserver: "none", "waiting", or "notified" when
                   \* the unlock notification is on its way to it
  pendingRestore,  \* the grace timer the coordinator can still cancel exists
  strays,          \* grace timers whose handle was overwritten
  completions,     \* onLayoutRestored
  callbacks,       \* completions being flushed
  claims,          \* history: who called collapse() since it was last idle
  missed           \* history: the coordinator was not told of the last edge

sessionVars == <<app, vnc, web, autoMode, external, stream, geometry, locked,
                 observer, pendingRestore, strays, completions, callbacks,
                 claims, missed>>
vars == <<lifecycleVars, sessionVars>>

\* Who calls collapse(): a session (at once, or once the screen unlocks), a
\* command of the user or of Sunshine, a native-stream client.
Callers == {"session", "command", "stream"}

\* What restore() can be asked to call when the windows are back: reply to
\* AppKit's terminate request, or apply an external collapse again.
Reply == [kind |-> "reply"]
Reapply(r, s) == [kind |-> "reapply", request |-> r, fromStream |-> s]
Completions == {Reply} \cup {Reapply(r, s) : r \in Requests, s \in BOOLEAN}

Connected == vnc \/ web

\* The main queue is free to run a handler.
MainIdle == app # "exited" /\ callbacks = <<>>

TypeOK ==
  /\ LifecycleTypeOK
  /\ app \in {"running", "quitting", "exited"}
  /\ vnc \in BOOLEAN /\ web \in BOOLEAN /\ autoMode \in BOOLEAN
  /\ external \in BOOLEAN /\ stream \in BOOLEAN
  /\ geometry \in Geometries
  /\ locked \in BOOLEAN
  /\ observer \in {"none", "waiting", "notified"}
  /\ pendingRestore \in BOOLEAN
  /\ strays \in 0..MaxStrays
  /\ completions \in Seq(Completions) /\ Len(completions) <= MaxCompletions
  /\ callbacks \in Seq(Completions)
  /\ claims \subseteq Callers
  /\ missed \in BOOLEAN

Init ==
  /\ LifecycleInit
  /\ app = "running"
  /\ vnc = FALSE /\ web = FALSE
  /\ external = FALSE /\ stream = FALSE
  /\ geometry = Saved
  /\ observer = "none"
  /\ pendingRestore = FALSE /\ strays = 0
  /\ completions = <<>> /\ callbacks = <<>>
  /\ claims = {} /\ missed = FALSE
  /\ autoMode \in BOOLEAN
  /\ locked \in BOOLEAN

-----------------------------------------------------------------------------
(* CollapseCoordinator's entry points                                      *)

\* Mutant: collapse() does not look at the grace timer while a collapse exists.
CollapseCallKeepsTimer(who) ==
  \/ /\ state # "idle"
     /\ claims' = claims \cup {who}
     /\ UNCHANGED <<pendingRestore, lifecycleVars>>
  \/ /\ state = "idle" /\ cooling
     /\ UNCHANGED <<pendingRestore, claims, lifecycleVars>>
  \/ /\ Begin
     /\ pendingRestore' = FALSE
     /\ claims' = {who}

\* collapse(), called by who. While a collapse exists it only cancels the
\* grace timer; during the cooldown it does nothing at all.
CollapseCall(who) ==
  \/ /\ state # "idle"
     /\ pendingRestore' = FALSE
     /\ claims' = claims \cup {who}
     /\ UNCHANGED lifecycleVars
  \/ /\ state = "idle" /\ cooling
     /\ UNCHANGED <<pendingRestore, claims, lifecycleVars>>
  \/ /\ Begin
     /\ pendingRestore' = FALSE
     /\ claims' = {who}

\* onStateChange(.idle): the latches drop; restoreSavedPreset puts preset and
\* dualMode back, and leaves presetB alone.
BackToIdle ==
  /\ external' = FALSE
  /\ stream' = FALSE
  /\ geometry' = [geometry EXCEPT !.preset = Saved.preset]
  /\ claims' = {}

\* restore(completion) of a collapse; cb is <<>> or <<completion>>.
EndCollapse(cb) ==
  /\ Len(completions) + Len(cb) <= MaxCompletions
  /\ End
  /\ BackToIdle
  /\ pendingRestore' = FALSE
  /\ completions' = completions \o cb

\* restore(): when idle, only the completions are flushed, unless a layout
\* pass is on its way and will flush them.
RestoreCall ==
  \/ state # "idle" /\ EndCollapse(<<>>) /\ UNCHANGED callbacks
  \/ /\ state = "idle"
     /\ pendingRestore' = FALSE
     /\ IF inFlight
          THEN UNCHANGED <<completions, callbacks>>
          ELSE callbacks' = completions /\ completions' = <<>>
     /\ UNCHANGED <<lifecycleVars, external, stream, geometry, claims>>

\* Mutant: only a collapse that is established is restored.
ScheduleRestoreOfCollapsed ==
  IF state # "collapsed"
    THEN UNCHANGED <<pendingRestore, strays>>
    ELSE /\ pendingRestore' = TRUE
         /\ strays' = IF pendingRestore THEN strays + 1 ELSE strays
         /\ strays' <= MaxStrays

\* scheduleRestore(): the handle of a timer still pending is overwritten, and
\* that timer is not cancelled.
ScheduleRestore ==
  IF state = "idle"
    THEN UNCHANGED <<pendingRestore, strays>>
    ELSE /\ pendingRestore' = TRUE
         /\ strays' = IF pendingRestore THEN strays + 1 ELSE strays
         /\ strays' <= MaxStrays

\* remoteSessionChanged(connected:).
RemoteSessionChanged(connected) ==
  \/ /\ connected /\ locked
     /\ pendingRestore' = FALSE
     /\ observer' = IF observer = "none" THEN "waiting" ELSE observer
     /\ UNCHANGED <<strays, claims, lifecycleVars>>
  \/ /\ connected /\ ~locked
     /\ IF state = "idle" /\ cooling
          THEN /\ pendingRestore' = FALSE
               /\ UNCHANGED <<claims, lifecycleVars>>
          ELSE CollapseCall("session")
     /\ UNCHANGED <<observer, strays>>
  \/ /\ ~connected
     /\ observer' = "none"
     /\ ScheduleRestore
     /\ UNCHANGED <<claims, lifecycleVars>>

\* recomputeSessionState(), with the external latch ext: the coordinator is not
\* told while autoMode is off, nor of a disconnect during an external collapse.
Recompute(connected, ext) ==
  LET ignored == ~autoMode \/ (~connected /\ ext) IN
  /\ missed' = ignored
  /\ IF ignored
       THEN UNCHANGED <<pendingRestore, observer, strays, claims, lifecycleVars>>
       ELSE RemoteSessionChanged(connected)

-----------------------------------------------------------------------------
(* StatusBarApp                                                            *)

\* ConnectionMonitor.onChange: its edges alternate.
VncEdge ==
  /\ MainIdle
  /\ vnc' = ~vnc
  /\ Recompute(vnc' \/ web, external)
  /\ UNCHANGED <<app, web, autoMode, external, stream, geometry, locked,
                 completions, callbacks>>

\* WebServer.onSessionChange.
WebEdge ==
  /\ MainIdle
  /\ web' = ~web
  /\ Recompute(vnc \/ web', external)
  /\ UNCHANGED <<app, vnc, autoMode, external, stream, geometry, locked,
                 completions, callbacks>>

\* didWakeNotification while not idle.
Wake ==
  /\ MainIdle
  /\ state # "idle"
  /\ external' = FALSE
  /\ Recompute(Connected, FALSE)
  /\ UNCHANGED <<app, vnc, web, autoMode, stream, geometry, locked,
                 completions, callbacks>>

\* The collapse has the geometry that r asks for.
Matches(r) == geometry.preset = r.preset /\ r.presetB \in {NoPresetB, geometry.presetB}

\* applyExternalCollapse, from a Sunshine prep-command or a stream client.
ApplyExternalCollapse(r, fromStream) ==
  \/ /\ state # "idle" /\ ~Matches(r)
     /\ EndCollapse(<<Reapply(r, fromStream)>>)
  \/ /\ state = "idle" \/ Matches(r)
     /\ geometry' = [preset |-> r.preset,
                     presetB |-> IF r.presetB = NoPresetB THEN geometry.presetB
                                 ELSE r.presetB]
     /\ external' = TRUE
     /\ stream' = (stream \/ fromStream)
     /\ CollapseCall(IF fromStream THEN "stream" ELSE "command")
     /\ UNCHANGED completions

ExternalCollapse ==
  /\ MainIdle
  /\ \E r \in Requests, fromStream \in BOOLEAN :
       ApplyExternalCollapse(r, fromStream)
  /\ UNCHANGED <<app, vnc, web, autoMode, locked, observer, strays, callbacks,
                 missed>>

\* The external restore command; from a stream it needs the stream's latch.
ExternalRestore(fromStream) ==
  /\ MainIdle
  /\ fromStream => stream
  /\ RestoreCall
  /\ UNCHANGED <<app, vnc, web, autoMode, locked, observer, strays, missed>>

CollapseNow ==
  /\ MainIdle
  /\ CollapseCall("command")
  /\ UNCHANGED <<app, vnc, web, autoMode, external, stream, geometry, locked,
                 observer, strays, completions, callbacks, missed>>

\* toggleAuto: the session state is not looked at again.
ToggleAuto ==
  /\ MainIdle
  /\ autoMode' = ~autoMode
  /\ UNCHANGED <<lifecycleVars, app, vnc, web, external, stream, geometry,
                 locked, observer, pendingRestore, strays, completions,
                 callbacks, claims, missed>>

\* The process exits (applicationWillTerminate may restore() once more, but no
\* block runs after it); its memory goes, autoMode is in UserDefaults.
Exit ==
  /\ Die
  /\ app' = "exited"
  /\ vnc' = FALSE /\ web' = FALSE
  /\ external' = FALSE /\ stream' = FALSE
  /\ geometry' = Saved
  /\ observer' = "none"
  /\ pendingRestore' = FALSE /\ strays' = 0
  /\ completions' = <<>> /\ callbacks' = <<>>
  /\ claims' = {} /\ missed' = FALSE
  /\ UNCHANGED <<autoMode, locked>>

\* applicationShouldTerminate, for menu Quit, update relaunch and logout.
Quit ==
  /\ MainIdle
  /\ app = "running"
  /\ \/ state = "idle" /\ Exit
     \/ /\ state # "idle"
        /\ EndCollapse(<<Reply>>)
        /\ app' = "quitting"
        /\ UNCHANGED <<vnc, web, autoMode, locked, observer, strays, callbacks,
                       missed>>

Relaunch ==
  /\ app = "exited"
  /\ app' = "running"
  /\ UNCHANGED <<lifecycleVars, vnc, web, autoMode, external, stream, geometry,
                 locked, observer, pendingRestore, strays, completions,
                 callbacks, claims, missed>>

-----------------------------------------------------------------------------
(* The main queue                                                          *)

\* Mutant: a timer that fires during .collapsing is lost.
GraceEndsIfCollapsed ==
  /\ MainIdle
  /\ pendingRestore
  /\ IF state = "collapsed"
       THEN RestoreCall
       ELSE /\ pendingRestore' = FALSE
            /\ UNCHANGED <<lifecycleVars, external, stream, geometry, claims,
                           completions, callbacks>>
  /\ UNCHANGED <<app, vnc, web, autoMode, locked, observer, strays, missed>>

\* A grace timer fires.
GraceEnds ==
  /\ MainIdle
  /\ pendingRestore
  /\ RestoreCall
  /\ UNCHANGED <<app, vnc, web, autoMode, locked, observer, strays, missed>>

StrayGraceEnds ==
  /\ MainIdle
  /\ strays > 0
  /\ strays' = strays - 1
  /\ RestoreCall
  /\ UNCHANGED <<app, vnc, web, autoMode, locked, observer, missed>>

\* Mutant: the completions are only called if no new collapse has begun.
LayoutPassIfIdle ==
  /\ MainIdle
  /\ Pass
  /\ IF state = "idle"
       THEN callbacks' = completions /\ completions' = <<>>
       ELSE UNCHANGED <<callbacks, completions>>
  /\ UNCHANGED <<app, vnc, web, autoMode, external, stream, geometry, locked,
                 observer, pendingRestore, strays, claims, missed>>

\* The deferred layout pass of restore(), and the completions it flushes.
LayoutPass ==
  /\ MainIdle
  /\ Pass
  /\ callbacks' = completions
  /\ completions' = <<>>
  /\ UNCHANGED <<app, vnc, web, autoMode, external, stream, geometry, locked,
                 observer, pendingRestore, strays, claims, missed>>

RunCallback ==
  /\ app # "exited"
  /\ callbacks # <<>>
  /\ LET cb == Head(callbacks) IN
     \/ cb.kind = "reply" /\ Exit
     \/ /\ cb.kind = "reapply"
        /\ ApplyExternalCollapse(cb.request, cb.fromStream)
        /\ callbacks' = Tail(callbacks)
        /\ UNCHANGED <<app, vnc, web, autoMode, locked, observer, strays, missed>>

\* The collapse proceeds (Collapse): it is established, or fails, or display A
\* dies and the coordinator restores; the cooldown runs out.
Collapsed ==
  /\ MainIdle
  /\ Establish
  /\ UNCHANGED sessionVars

CollapseFails ==
  /\ MainIdle
  /\ GiveUp
  /\ BackToIdle
  /\ UNCHANGED <<app, vnc, web, autoMode, locked, observer, pendingRestore,
                 strays, completions, callbacks, missed>>

DisplayDies ==
  /\ MainIdle
  /\ EndCollapse(<<>>)
  /\ UNCHANGED <<app, vnc, web, autoMode, locked, observer, strays, callbacks,
                 missed>>

CooledDown ==
  /\ MainIdle
  /\ CoolDown
  /\ UNCHANGED sessionVars

-----------------------------------------------------------------------------
(* The screen lock                                                         *)

Lock ==
  /\ ~locked
  /\ locked' = TRUE
  /\ UNCHANGED <<lifecycleVars, app, vnc, web, autoMode, external, stream,
                 geometry, observer, pendingRestore, strays, completions,
                 callbacks, claims, missed>>

Unlock ==
  /\ locked
  /\ locked' = FALSE
  /\ observer' = IF observer = "waiting" THEN "notified" ELSE observer
  /\ UNCHANGED <<lifecycleVars, app, vnc, web, autoMode, external, stream,
                 geometry, pendingRestore, strays, completions, callbacks,
                 claims, missed>>

\* The observer's block: the deferred collapse.
DeferredCollapse ==
  /\ MainIdle
  /\ observer = "notified"
  /\ observer' = "none"
  /\ CollapseCall("session")
  /\ UNCHANGED <<app, vnc, web, autoMode, external, stream, geometry, locked,
                 strays, completions, callbacks, missed>>

Next ==
  \/ VncEdge \/ WebEdge \/ Wake
  \/ ExternalCollapse \/ \E fromStream \in BOOLEAN : ExternalRestore(fromStream)
  \/ CollapseNow \/ ToggleAuto \/ Quit \/ Relaunch
  \/ GraceEnds \/ StrayGraceEnds \/ LayoutPass \/ RunCallback
  \/ Collapsed \/ CollapseFails \/ DisplayDies \/ CooledDown
  \/ Lock \/ Unlock \/ DeferredCollapse

\* The main queue runs what is queued on it.
Fairness == WF_vars(GraceEnds) /\ WF_vars(LayoutPass) /\ WF_vars(RunCallback)

Spec == Init /\ [][Next]_vars
FairSpec == Spec /\ Fairness

-----------------------------------------------------------------------------
(* Properties                                                              *)

\* A completion handed to restore() while a collapse ends (the reply to
\* AppKit's terminate request, a re-collapse) always has a layout pass ahead of
\* it that will flush it, whichever of several queued passes that is.
CompletionsHavePass == completions # <<>> => inFlight /\ passes > 0

\* An externally commanded collapse is never on the coordinator's cancellable
\* grace timer: "don't restore out from under a stream the poller can't see".
ExternalKeepsCollapse == external /\ state # "idle" => ~pendingRestore

\* A collapse that only sessions asked for has its restore scheduled as soon as
\* the last of them is gone, if the coordinator was told of it.
NoForgottenCollapse ==
  state # "idle" /\ claims = {"session"} /\ ~Connected /\ ~external /\ ~missed
    => pendingRestore

\* The same collapse is in fact undone: it becomes idle, or a session comes
\* back, or somebody else takes the collapse over.
SessionEndRestores ==
  state # "idle" /\ claims = {"session"} /\ ~Connected
    ~> state = "idle" \/ claims # {"session"} \/ Connected \/ external \/ missed

\* A quit that AppKit was told to wait for is answered.
QuitAnswered == app = "quitting" ~> app = "exited"

\* "Every terminate path waits for the restore -- including the deferred
\* window-layout pass": the process never exits with a layout pass queued.
QuitWaitsForLayout == [][app # "exited" /\ app' = "exited" => passes = 0]_vars

\* The grace period exists so that "a dropped connection that reconnects
\* doesn't thrash displays": a grace timer does not end a collapse while a
\* session is connected, if the coordinator was told that it is.
GraceSparesLiveSession ==
  [][(GraceEnds \/ StrayGraceEnds) /\ Connected /\ ~missed => UNCHANGED state]_vars

\* The unlock observer's block: "reaching here means a session is still live".
DeferredCollapseHasSession ==
  [][DeferredCollapse /\ state' # state => Connected]_vars

\* streamCollapsed says "the current collapse was driven by a native-stream
\* client": it is not set on a collapse that a user or Sunshine asked for.
StreamLatchOnlyOnOwn == [][~stream /\ stream' => "command" \notin claims]_vars

\* restoreSavedPreset: "so a client-dimension/auto-dual override doesn't stick
\* for later manual collapses".
OverridesUndone == state = "idle" => geometry = Saved

=============================================================================
