# Clamshell in TLA+

Clamshell turns a Mac into a clamshell-mode remote host. When a remote session
begins it *collapses* the desk: it creates a virtual display, mirrors every
physical display onto it and keeps the Mac awake; when the session ends it
*restores* the displays and puts the windows back. The same app streams the
displays to viewers, serves a browser client and confirms actions on a hardware
key.

This directory holds TLA+ models of that program, the TLC configurations that
check them on small instances, and proofs that TLAPS checks for all instances.
File and line references are relative to the repository root; `S/` stands for
`Sources/Clamshell/`.

## Inventory

| Component | State | Operations | Talks to |
|---|---|---|---|
| `S/CollapseCoordinator.swift` with `VirtualDisplayController`, `SessionComfort`, `WindowLayoutStore` | `state`, `displays` (two slots), `mirroredDisplays`, `displayWakeAssertion`, `hasAssertion`, the window snapshot, the failure cooldown, `layoutRestoreInFlight`, `onLayoutRestored`, `pendingRestore`, `unlockObserver` | `collapse`, `restore`, `remoteSessionChanged`, creation and mirroring retries, termination handler, `displayRemoved`, `recoverOrphanedMirrors` | WindowServer, IOKit, Accessibility; tells StatusBarApp of its state; marks displays with the fleet |
| Session policy: `S/StatusBarApp.swift`, `S/ConnectionMonitor.swift` | `vncSessionActive`, `webSessionActive`, `autoMode`, `externallyCollapsed`, `streamCollapsed`, the geometry overrides | poller and browser edges, external collapse and restore, menu, wake, quit | the coordinator; distributed notifications from Sunshine and from StreamServer |
| `StreamServer` (`S/Streaming/StreamServer.swift`) | `connection`, `stream`, `encoder`, `framesInFlight`, `clientAnnounced`, `hostLocked`, the static `pendingRestorePost` | accept, HELLO, `startSession`, `sendFrame`, teardown, stop | viewers over WebSocket; ScreenCaptureKit; posts collapse and restore to the menu-bar app |
| `StreamFleet` (same file) | `servers`, `currentIDs`, `pendingRebuild`, `collapseCreatedDisplays`, `screenLocked` | `rebuild`, `stop`, lock settling | one StreamServer per display |
| `S/WebServer.swift` | listeners, `activeSessions` | HTTP, VNC bridge, stream bridge | screen sharing on 5900, StreamServer; session edges to StatusBarApp |
| `S/Auth/*` | `state`, `actionId`, `deadline`, the expiry timer; pending nonces | `runYubiKeyTest`, `begin`, `submit`, `fail`, expiry | the key; the panel |
| iOS viewer: `ClamshellViewer/Sources/StreamClient.swift`, `ViewerApp.swift`; web client `client.js` | socket, attempt, backoff, handshake timer | connect, reconnect, wake | StreamServer |
| `S/SelfHeal.swift`, `S/UpdateInstaller.swift` | the last relaunch; the bundle on disk | relaunch, swap | LaunchServices, the file system |
| Windows host: `WindowsServer/StreamServer.cs`, `StreamServer.Video.cs`, `DisplayCapture.cs`, `VideoEncoder.cs`, `TrayApp.cs` | `_ws`, `_encoder`, `_capture`, the locks `_gate`, `_sendLock` and `_lock`, `_life` | accept, receive, `StartVideo`, send, `Disconnect`, `Teardown`, `Dispose`; the capture's loop | viewers over WebSocket; DXGI, Media Foundation |
| RDP client of the iOS viewer: `ClamshellViewer/Sources/RDPSession.swift`, `FreeRDPKit/Sources/RDPBridge/RDPBridge.m` | `status`, `frame`, `bridge`; of each session `instance`, `stopping` and its thread; the pending certificate | `connect`, `disconnect`, input, `start`, `stop`, the connection thread and FreeRDP's callbacks | FreeRDP; the certificate alert |

The remaining parts (codecs and framing, input and clipboard, window list,
diagnostics, command line, Control app, the Windows viewer, the
archived front door, vendored noVNC and FreeRDP) are listed with their reasons in
`PROJECT.json`.

**What is hard.** Nearly everything runs on the main queue, so there are few
data races; the difficulty is *what is left on the queue*. A collapse takes 2 to
30 seconds of delayed blocks (creation retries, the finish delay, mirroring
retries), a restore leaves a layout pass two seconds behind, grace timers of 10
and 15 seconds are pending, and every block tests a state that may have changed
twice since it was queued. A stream session leaves cancellations, send
completions and captures that are still being set up; a confirmation that has
expired leaves a task that comes back in the middle of the next one. The viewer,
its RDP client and the Windows host do run on several threads: the first two
without a lock, the third with three. On top of that,
WindowServer may take a display away, refuse a configuration or report no
displays; the process may crash in the middle; and five independent parties
(poller, browser, Sunshine, stream viewer, user) start and end the same
collapse.

**What makes each part correct.** The coordinator: nothing of a collapse
(displays, mirroring, assertions, moved windows) outlives it, it never gets stuck
half way, and what it does is the simple life cycle its callers assume. The
policy: a collapse that nobody needs any more is undone, one that somebody owns
is kept, and quitting waits for what it must wait for. The stream server: no
capture is orphaned, no client is left waiting, and the restore is requested
exactly when the announcing client is gone. The fleet: one server per active
display, on its port, with the host's lock state. The confirmation: one decision
per request, and an approval only for a timely signature by the enrolled key. The
viewer: it never stops trying and never shows or keeps an attempt that is over.
The Windows host: one client at a time, released when it is gone, replaced when
another comes. The RDP client: nothing is shown without a thread behind it, and
no thread stays behind. The hazards behind these sentences
are listed, each at its line, in `PROJECT.json`.

## Modules

| Module | Models | How it corresponds |
|---|---|---|
| `Lifecycle` | what the coordinator promises its callers: idle, collapsing, collapsed, the cooldown, the deferred layout pass | the abstract specification. `Begin`, `Establish`, `GiveUp`, `End`, `Pass`, `CoolDown`, `Die` are the state changes of `CollapseCoordinator`, without displays |
| `Collapse` | the coordinator and the virtual-display controller | one action per main-queue handler. A delayed block is a record in `work` that carries what the closure captured (its collapse, its attempt, the ID of display A). `Restore`, `Finish`, `RetryA` ... are whole handlers. Refines `Lifecycle` |
| `Session` | StatusBarApp's policy and the coordinator's timekeeping (grace timer, unlock observer, completions) | built on the actions of `Lifecycle`, so that what holds here holds over any coordinator that refines it. A handler is an action; completions flushed by a layout pass run one by one in `callbacks` while `MainIdle` keeps every other handler out |
| `Stream` | one StreamServer and what replaced connections and server instances leave behind | an action is a block on the server's queue, or on the main queue for the two notifications. `teardowns[c]` are the teardown blocks queued on behalf of connection `c`, `unsent[c]` its due send completions |
| `Fleet` | StreamFleet, and the menu-bar app that starts and stops it | one action per main-queue handler or block. A record of `round` is the servers that one `rebuild()` starts: the group that waits for the old listeners, the ports those of the new ones hold, the lock state they were told. A fleet that was stopped lives on while a group holds it |
| `Approval` | what a confirmation promises: one decision per request, an approval only for a timely signature over its challenge by its key | the abstract specification, without runs, tasks or timers |
| `Confirm` | ConfirmationCoordinator with its ConfirmationBridge | an action is what the main thread runs between two awaits of a task, or a tick of the timer; `task[r]` is what run `r` awaits. Refines `Approval` |
| `Viewer` | StreamClient of the iOS viewer | `main` and `net` are where the main thread and URLSession's queue are. A step of the queue is one line that reads or writes a shared field (`CancelItem`, `ClearItem`, `CancelTask`, `ClearTask` are lines 239 to 242), and the main thread may run between any two. A step of the main thread is what it does to one field: the timeout of `teardownSocket`, its task, the new task, the new timeout |
| `WindowsHost` | StreamServer of the Windows host with its capture and encoder | `pc[t]` is where a thread is; an action is what it does between two waits for a lock, a send or a thread. `gate`, `sendLock` and `owner[e]` are the holders of `_gate`, of `_sendLock` and of an encoder's `_lock`. Sends that nobody waits for are one thread, `Sender` |
| `RdpClient` | RDPSession and RDPBridgeSession | `pc[b]` is where the connection thread of session `b` is; what it posts to the main queue is in `posted`, in order. `call` is a context that the main thread has looked up and not used yet: an action of its own, as the thread may free it in between |
| `CollapseProofs`, `SessionProofs`, `StreamProofs`, `FleetProofs`, `ConfirmProofs`, `ViewerProofs`, `RdpClientProofs`, `WindowsHostProofs` | theorems about the module they are named after | each has the inductive invariant of its module; see *Proofs* |
| `MCCollapse`, `MCSession`, `MCStream`, `MCFleet`, `MCConfirm`, `MCViewer`, `MCWindowsHost`, `MCRdpClient` | the instances TLC checks | |

`Session` and `Collapse` meet in `Lifecycle`: `Collapse` is proved to refine it,
`Session` uses its actions. `Stream` produces the notifications that are
`ExternalCollapse` and `ExternalRestore` in `Session`; `Fleet` starts and stops
the servers of which `Stream` is one, and its marks come from the coordinator's
`collapse` and `finishCollapse`. `Viewer` is a client of `Stream` or
`WindowsHost`, each of which is the other's environment.

Definitions that begin with the comment *Mutant* are broken variants of the one
that follows. Nothing uses them; substituting one for the original makes the
property they were written for fail, which shows that the property depends on
the code it is about. The pairs are in `PROJECT.json`.

### Abstractions

* Delays are not measured: a queued block or timer may run at any time. Every
  order the clocks allow is included, and some they do not.
* WindowServer, IOKit and ScreenCaptureKit are free to refuse, fail, under-report
  and call back, wherever the code checks for it, and where it does not. A failed
  `createOnce` is taken not to queue a termination handler. An ID can be given
  again once its display is gone.
* A display that is unplugged and plugged in again is taken to come back
  un-mirrored; unplugging and `displayRemoved` are one step.
* Positioning of display B, HiDPI enforcement, muting, icons, menus and logging
  are left out. Windows are `home` or `moved` as a whole.
* The edges of the poller and of the browser sessions alternate. Changing the
  preset in the menu while collapsed is left out.
* A self-relaunch is a `Crash` and `Launch` in `Collapse`, a `Quit` and
  `Relaunch` in `Session`; two instances at once are not modelled.
* `Stream` sends HELLO once per connection, as the viewers do. Bitrate steps,
  audio, clipboard and cursor reports are left out.
* In `Fleet` the active displays are any of a few topologies; a port is free
  again when its listener's cancellation is reported, whatever the fleet does
  meanwhile; a bind that fails leaves the server without its port. What is reset
  when the fleet is stopped (marks, lock state) is that of a fleet nobody refers
  to, except by a group that still waits; such a fleet's marks are not kept.
* In `Confirm` a signature is a key and a nonce, and verifies if both are the
  expected ones. The action's name, the PIN and the reasons are left out.
  `verifying` is never seen, as it lasts within a handler.
* In `Viewer` the backoff is any delay, `connectHost` makes a URL or does not, and
  display reports, clipboard, audio and decoding are left out. A message may be
  delivered after its socket was closed, and any message may be a HELLO_ACK. Between
  two lines of the main thread about one field the queue only cancels and clears that
  field, which it might as well do before or after both; that is why the main thread
  takes them in one step, and the queue does not. Each line counts as one access: what
  a torn reference or a freed object does is left out.
* In `WindowsHost` a client says HELLO once, and only as many sessions are set up
  at a time as there are captures, so two `StartVideo` do not overlap. Audio,
  the clipboard with its timer, the cursor, the window of frames in flight,
  `RequestKeyframe` and `SetBitrate` on an encoder that is not the capture's own, and
  captures that fail are left out. The sends of the pool are made by one thread, the
  next when the one before has ended: further ones would only wait for `_sendLock`
  behind it. A send may take longer than the two seconds for which `Teardown` joins the
  capture, as the code lets it. That a receive that is cancelled aborts its socket is
  .NET's doing.
* In `RdpClient` a frame is the session it is of; FreeRDP may connect or fail, with
  or without asking for the certificate, also after it has told that it is
  connected, and aborting a context has no other effect than that. Pixels,
  coordinates, scan codes and the desktop's size are left out, and so is what a
  call to a freed context does.
* `disturbed` (Collapse), `claims` and `missed` (Session), `skipped` and `rushed`
  (Fleet), `fate` and `crossed` (Viewer), `faulty` (WindowsHost) and `misused`
  (RdpClient) are history variables: no action depends on them. `disturbed` becomes true when a collapse begins before
  the last one has been undone, or WindowServer refuses to un-mirror; `missed` when
  `recomputeSessionState` did not tell the coordinator of the last edge; `claims` is
  who asked for this collapse; `skipped` is the topology for which a rebuild was
  last skipped; `rushed` is true once a rebuild did not wait for a port in use;
  `fate` is what has happened to the current attempt; `crossed` are the sockets and
  timeouts that the main thread set after URLSession's queue had cancelled the one
  before and before it cleared the field; `faulty` are the clients that the host drops
  for a message they sent; `misused` is true once a call went to a freed context.

## Runs

| Run | Shows |
|---|---|
| `collapse` | the invariants of `Collapse` and `RefinesLifecycle`, 2 physical displays, 2 virtual IDs, 2 collapses with queued work; 657,889 states |
| `session` | the invariants of `Session`, `SessionEndRestores` and `QuitAnswered` under fairness; 203,992 states |
| `stream` | the invariants of `Stream`; 807,840 states |
| `fleet` | the invariants of `Fleet`; two fleets, two rounds, four topologies; 1,175,856 states, up to symmetry |
| `confirm` | the invariants of `Confirm`, `ChallengesExpire` and `RefinesApproval`; three runs, two keys; 45,213 states |
| `viewer` | the invariants of `Viewer` and `RetriesForever` under fairness; two sockets, both threads line by line; 145,496 states |
| `rdp` | `ShownIsBacked` and `ThreadsSettle` of `RdpClient`; two sessions with their threads; 69,711 states |
| `windows` | `OnlyCurrentClientOpen`, `EndsForCause` and `ClientsTurnOver` of `WindowsHost`; two clients, a capture, an encoder; 116,429 states. Deadlock is allowed: the locks may really wait for each other, which is `windows_wedge` |
| `collapse_ghost`, `session_grace`, `stream_leftovers`, `windows_wedge` | each refutes one sentence of a comment or of PROTOCOL.md, quoted under *findings* |

**Bounds and why they suffice.**
`MaxCreateAttempts` and `MaxMirrorAttempts` are 2 instead of 8 and 20: a first,
a retried and a last attempt are the only cases the code tells apart.
`Gens = {c1, c2}` allows two collapses with work on the queue, which is what it
takes for one to disturb the other. `MaxTerminations = 1` handler per slot
queued; two would act like one followed by another. `MaxPasses = 2` layout passes
queued: one that clears the flag while another is still due. `MaxStrays = 1`
overwritten grace timer and `MaxCompletions = 2`: a completion and one that it
meets. Two physical displays, so that one can be mirrored and the other not.
In `Stream` two connection names are a client and what is left of the one before
(a name is used again once nothing is left of it); `Window = 1` with
`MaxUnsent = 2` lets a keyframe exceed the window; `MaxTeardowns = 2` is one block
of the environment and the cancellation; `MaxMain = 2` blocks on the main queue,
enough for an announcement behind a departure and the other way round.
In `Fleet` two fleets are the one in use and one that was stopped and still waits;
two rounds, the servers that stop and those that wait for them; the topologies
`<<p>>, <<p, v>>, <<v, p>>, <<v>>` are those a collapse and a restore go through.
In `Confirm` three runs, so that a run that has expired meets one that was failed
by another; two keys, so that a wrong one is there. In `Viewer` two sockets
(`MaxBlocks = 3`, `MaxPosted = 3`): one whose callback is past its guard or whose
timeout is still due, and the one that is opened meanwhile. `MCViewerThree.cfg` checks
the invariants with a third, which was orphaned before (279,563 states, up to
symmetry). Of the sockets that the main thread opens while the queue is between
`CancelTask` and `ClearTask` one at a time stays open. In `WindowsHost` two
clients are one and its replacement; the one encoder is set up for a client when that
of the one before is disposed of, and `MCWindowsHostEncoders.cfg` checks the safety
properties with an encoder of each (185,476 states). In `RdpClient` two sessions are
one that was closed and the next, and `MaxFrames = 1` frame is posted at a time. In each
module a guard that compares with a bound limits the environment, never a
handler that is already due, with three exceptions: collapses wait for a name in
`Gens` and for room in `MaxPasses`, completions and strays for room in theirs, and in
`Viewer` what posts a status change for room in `MaxPosted`, which the main thread makes
by showing what is posted.

**Fairness.** `Session`: weak fairness of the grace timer, of the layout pass and
of the flushed completions, all blocks already on the main queue, which the run
loop runs. `Confirm`: time passes and the expiry timer, a repeating timer of the
main run loop, fires; nothing is assumed of the card. `Viewer`: timeouts and
reconnects that are due, posted status changes and callbacks that have been
delivered do run, and the receive of a socket that is closed completes with an
error, as URLSession promises; a message need never come. Both threads go on with
what they have begun. `WindowsHost`: strong fairness of each thread, that is, a lock
that is free again and again is not withheld from a waiting thread for ever, and a
receive that is cancelled ends and aborts its socket. A send fails once its connection
is broken; that it ends while the client stays connected is not assumed, since it has no
limit (`CancellationToken.None`) and the client need not read. Clients do what they
like. `RdpClient`: the main queue runs what is posted (strong:
input does not keep it from that), the user answers an alert, `freerdp_connect`
returns and a loop that was stopped ends; a stream may go on for ever. Nothing is assumed of
users, locks of the screen or WindowServer. In `Collapse`, that a collapse
settles is checked as a safety property (`CollapsingHasWork`: there is always a
queued block that carries it on) together with the bounded number of attempts;
in `Stream` and `Fleet`, that a client is served or disconnected, that a restore
follows a departure and that a rebuild follows a change are checked as invariants
that name the block which will do it (`GreetedIsServed`, `RestoreMatchesClient`,
`TopologyFollowed`).

### What the properties say

`TypeOK` of `Collapse` bounds the attempts of every block that is queued by the limits
of the code; that of `Lifecycle`, which `Session` uses, has no flag for a layout pass
(`layoutRestoreInFlight`) without a pass that will clear it.

`Collapse`: `CollapsingHasWork` (never stuck half way),
`AssertionsOnlyWhileCollapsed` (five places release them), `DisplayAFollowsState`
(unless collapses overlapped), `IdleUnmirrored` (no display left mirrored, also after a crash),
`WindowsComeHome`, `RefinesLifecycle`.

`Session`: `CompletionsHavePass` (a completion always has a layout pass that
flushes it), `ExternalKeepsCollapse` (an external collapse is never on the
cancellable grace timer), `NoForgottenCollapse` and `SessionEndRestores` (the
last session's end does end its collapse), `QuitAnswered` (AppKit gets its
reply).

`Stream`: `CapturesOwned` (no orphaned capture), `WindowIsOwn` (an old client's
undrained frames never stall a new one), `LockStateKnown`,
`RestoreMatchesClient` (the restore notification is pending exactly when nobody is
there), `GreetedIsServed`.

`Fleet`: `TopologyFollowed` (no change of the displays is forgotten while a rebuild
is debounced, waits or was skipped), `ServersMatch` (every display has one server
with its port, or a rebuild waits for exactly those who hold the ports, unless
`rushed`), `LockReachesServers` (also servers that are built during a flap).

`Confirm`: `NeverStuck` (while the panel waits there is a task or a timer that will
settle it, whatever other runs did), `ApprovalIsEarned` (by the enrolled key, for
the action on display, once), `ChallengesExpire`, `RefinesApproval`.

`Viewer`: `NothingLeftOver` (no socket or timeout of an earlier attempt is left but one
that the main thread set between the two lines with which the queue cancels and clears
the field, `crossed`; after a disconnect no field holds one), `AlwaysUnderWay` and `RetriesForever` (it never stops trying),
`AcknowledgedIsShown` (old status changes do not hide a stream).

`WindowsHost`: `EndsForCause` (late failures of an old client do not end the new
one: what `Stream` fails to promise holds here; a thread that takes the gate to
tear a client down finds it broken, dropped for what it sent, or the server disposed
of), `OnlyCurrentClientOpen`, `ClientsTurnOver` (a client that is gone is released, a
new one gets in, unless the locks wait for each other or a client that stays does not
read).

`RdpClient`: `ShownIsBacked` (posts of a session that is over leave no stream and
no picture behind), `ThreadsSettle` (every session that was closed or replaced,
also before it had a context or while it asked for its certificate, ends).

### Findings

Each is a run that TLC must find violated:

1. **Overlapping collapses** (`NoGhostCollapse`). The queued blocks of a
   collapse test `state == .collapsing`, not whose collapse it is
   (CollapseCoordinator.swift:164, 223). Collapse, restore, collapse within the
   retries or the one-second delay, and the first collapse's blocks act on the
   second: it ends up `.collapsed` with no display A. Sessions that flap reach
   this; the invariants of `Collapse` about displays and windows therefore
   exclude overlapping collapses (`disturbed`).
2. **Overwritten grace timer** (`GraceSparesLiveSession`).
   `scheduleRestore()` (CollapseCoordinator.swift:292) does not cancel the timer
   it replaces. Disconnect, wake, reconnect: the first timer still fires.
3. **The replaced client's cancellation** (`LeftoversSpareNewClient`). Cancelling
   the old connection queues a `teardownSession()` that ends the new one's
   session (StreamServer.swift:218, 608).
4. **Two locks** (`NeverWedged`). The Windows host's capture sends a status from
   inside `VideoEncoder.Feed`, with the encoder's lock. If the send fails while a
   new client is being installed, it waits for `_gate`, whose holder waits in
   `VideoEncoder.Dispose` for that lock (StreamServer.Video.cs:180,
   StreamServer.cs:203, VideoEncoder.cs:269). Nothing is accepted any more.

Each of these is an invariant or action property with a configuration of its own,
which TLC refutes too when it is run (`tlc -config X.cfg M`):

| Configuration, property | What happens | What the source says |
|---|---|---|
| `MCSessionQuit.cfg`, `QuitWaitsForLayout` | quitting while idle with the layout pass still queued exits at once (StatusBarApp.swift:830) | StatusBarApp.swift:825-828, every terminate path waits for it |
| `MCSessionDeferred.cfg`, `DeferredCollapseHasSession` | the unlock observer survives a disconnect that the policy does not pass on | CollapseCoordinator.swift:122-124, "reaching here means a session is still live" |
| `MCSessionLatch.cfg`, `StreamLatchOnlyOnOwn` | a matching geometry is enough to set `streamCollapsed` on a collapse of the user or of Sunshine | StatusBarApp.swift:202-204, "never one the user or Sunshine owns" |
| `MCSessionOverride.cfg`, `OverridesUndone` | `restoreSavedPreset` puts back `preset` and `dualMode`, not `presetB` | StatusBarApp.swift:882-884, the override "doesn't stick" |
| `MCFleetPorts.cfg`, `PortsAreReleased` | `restartStreaming` stops a fleet and starts another at once; so does a second rebuild while one waits | StreamServer.swift:158-165 and 788, wait for the ports to be released |
| `MCFleetTakeover.cfg`, `VirtualDisplaysTakeOver` | a rebuild that was skipped for a collapse is not asked for again when the marks are cleared | StreamServer.swift:641-643, "virtual display A must take over the base port" |
| `MCConfirmLate.cfg`, `LateSignatureHarmless` | a signature of a run that has expired rejects the run that followed | ConfirmationCoordinator.swift:96-98, "Safe to call late" |
| `MCViewerStale.cfg`, `ReconnectSparesStream` | a reconnect that is due survives `disconnect()`; disconnect during a backoff, connect to another machine, and it replaces the stream that has started (StreamClient.swift:258) | StreamClient.swift:248-249, "unless the user asked to disconnect" |
| `MCWindowsHostSend.cfg`, `NeverWedgedBySend` | `SendAsync` disconnects in its `catch`, before the `finally` gives `_sendLock` back (StreamServer.cs:197, 198): a frame's send that fails on the pool tears down with `_sendLock` and `_gate` and waits for the encoder's lock, whose capture waits in `Send` for `_sendLock` (190). Neither returns, and the client that is gone is not released | StreamServer.cs:182-183, "Returns false if the send failed (client gone)" |
| `MCViewerOrphan.cfg`, `DisconnectTearsDown` | URLSession's queue cancels the old task (StreamClient.swift:241), the main thread opens another and sets the field (152), the queue clears it (242): the new socket stays open and is nobody's, and `disconnect()` does not find it | StreamClient.swift:203, "stop reconnecting and tear down" |
| `MCViewerTimeout.cfg`, `TimeoutSparesStream` | the same between lines 239 and 240, or 269 and 270: a timeout that the main thread has just armed is forgotten and not cancelled, and cuts off its own stream ten seconds later | StreamClient.swift:161-162, "Cancelled the moment any message arrives" |
| `MCRdpClientFreed.cfg`, `ContextOutlivesCalls` | `stop` and the input calls look the context up while the connection thread frees it, before it clears `instance` (RDPBridge.m:258, 283, 296) | RDPBridge.h:64, "Safe to call from any thread" |
| `MCRdpClientPrompt.cfg`, `AlwaysAsked` | the alert of one session replaces that of another, whose thread waits for ever (ViewerApp.swift:558) | RDPBridge.m:138, "until RDPSession.swift's completion fires" |
| `MCRdpClientClosed.cfg`, `ClosedStaysClosed` | a connection that is closed while it is being made still reports that it connected or failed, and the view comes back (RDPSession.swift:41, 53) | |
| `MCRdpClientSuccessor.cfg`, `EndSparesSuccessor` | the end of a session that was closed sets the status of the one that replaced it, which goes on unseen (RDPSession.swift:53, 55) | |

Met while modelling, without a property: `AlwaysUnderWay` excludes a callback of
an old socket, past its guard, that cancels the new attempt's handshake timeout
(`robbed`); the client of `WindowsHost` that hangs up between HELLO and the start
of its capture leaves the capture running with nobody to stop it; `clamshell
stream` asks `isServing` right after a `rebuild()` that starts its servers later
(main.swift:72), so it always gives up; a server that ends an RDP session without an error code is
reported like a `stop`, with no message (RDPBridge.m:276, against RDPBridge.h:49).

## Proofs

Every safety property that a passing run checks is also proved, for every value of
the constants that the modules' assumptions allow: any number of displays, clients,
sessions, runs, fleets and sockets, any attempt limits and any bounds. The
assumptions say that a bound leaves room for the cases the code tells apart
(`MaxPasses` and `MaxCompletions` at least 1, at least two creation and mirroring
attempts, two teardowns and two queued notifications in `Stream`, a window no larger
than what may be unsent there, two reconnects and two posted status changes in
`Viewer`), that `None`, which stands
for *nil*, is not one of the things it is compared with, that a topology has a
display, and that a request and the user's own geometry are geometries.

| Module | Theorem | Property |
|---|---|---|
| `CollapseProofs` | `TypeCorrect` | `TypeOK` |
| | `NeverStranded` | `CollapsingHasWork` |
| | `NoAssertionLeak` | `AssertionsOnlyWhileCollapsed` |
| | `DisplayFollowsState` | `DisplayAFollowsState` |
| | `NoDisplayLeftMirrored` | `IdleUnmirrored` |
| | `LayoutRestored` | `WindowsComeHome` |
| | `Refinement` | `RefinesLifecycle` |
| `SessionProofs` | `TypeCorrect` | `TypeOK` |
| | `CompletionsAreFlushed` | `CompletionsHavePass` |
| | `ExternalIsKept` | `ExternalKeepsCollapse` |
| | `NothingIsForgotten` | `NoForgottenCollapse` |
| | `QuitIsPending` | `QuitHasReply`, stated there |
| | `PolicyKeepsLifecycle` | the specification of `Lifecycle` |
| `StreamProofs` | `TypeCorrect` | `TypeOK` |
| | `NoCaptureIsOrphaned` | `CapturesOwned` |
| | `OnlyOwnFramesStall` | `WindowIsOwn` |
| | `ServedClientKnowsLock` | `LockStateKnown` |
| | `RestoreFollowsClient` | `RestoreMatchesClient` |
| | `NoDeadSession` | `GreetedIsServed` |
| `FleetProofs` | `TypeCorrect` | `TypeOK` |
| | `ChangesAreFollowed` | `TopologyFollowed` |
| | `PortsAreKept` | `ServersMatch` |
| | `LockIsPassedOn` | `LockReachesServers` |
| `ConfirmProofs` | `TypeCorrect` | `TypeOK` |
| | `PanelIsNeverStuck` | `NeverStuck` |
| | `ApprovalsAreEarned` | `ApprovalIsEarned` |
| | `Refinement` | `RefinesApproval` |
| `ViewerProofs` | `TypeCorrect` | `TypeOK` |
| | `AttemptsLeaveNothing` | `NothingLeftOver` |
| | `NeverAbandoned` | `AlwaysUnderWay` |
| | `AcknowledgementIsShown` | `AcknowledgedIsShown` |
| `RdpClientProofs` | `TypeCorrect` | `TypeOK` |
| | `NothingIsShownInVain` | `ShownIsBacked` |
| | `ClosedIsStopped` | `StoppedWhenClosed`, stated there |
| `WindowsHostProofs` | `TypeCorrect` | `TypeOK` |
| | `OthersAreClosed` | `OnlyCurrentClientOpen` |
| | `ClientsEndForCause` | `EndsForCause`, of every step |

Each module has one inductive invariant, `IInv`: the properties, and what they need
to be kept by a step. TLC has checked each on the instance of the module's run
before it was proved. What is added to the properties, and why:

* **`CollapseProofs`.** That display A exists while collapsed depends on which
  blocks are still queued. `RoomForPass` (while a collapse is not idle a layout
  pass can always be queued), `MirrorBlocksRetry` (a mirroring block on the queue
  is a retry, never the first attempt, which takes the wake assertion),
  `DownIsEmpty` (a process that is down holds nothing), `OneBlock` (without overlap
  there is at most one block of a collapse), `Stage` (which block may be queued in
  which state, and that its captured ID is display A), `MirrorStage` (what is
  mirrored in which state is recorded or orphaned) and `WindowStage` (where the
  windows and the snapshot are).
* **`SessionProofs`.** `RoomForPass` again, and `ObserverHasSession`: the unlock
  observer stands for a session that is connected, unless the coordinator was not
  told of its end (`missed`). Without it the deferred collapse could begin for
  nobody and break `NoForgottenCollapse`. `QuitHasReply` has an induction of its
  own, as it only concerns the completions and the callbacks. `PolicyKeepsLifecycle`
  needs no invariant: each handler makes at most one step of the coordinator.
* **`StreamProofs`.** `ClientIsOwn` (the client is of the server that listens),
  `RoomForTeardown` (a teardown can always be queued for the client, so that the
  model's bound is never what keeps a session open), `WindowReopens` (without a
  client the window is open), `StreamIsClients` (the attached capture is the
  client's and no longer in setup) and `RunningIsCaptured` (what is to be attached or
  stopped does run). `WindowIsOwn` says that late completions only open the
  window, which is why `framesInFlight` may become negative in it.
* **`FleetProofs`.** `RoundsConsistent` (a round that waits holds no port, one that
  stops is in nobody's hands, and a group waits only for rounds that stop) and
  `IdsHaveRound` (a fleet that is not in use has displays only as long as a round of
  its own has a reference to it).
* **`ConfirmProofs`.** `NothingToDecide` (before a challenge is issued there is no
  challenge on display and no timer), `SignedOnce` (a nonce is signed in the last
  step but one of its run) and `ApprovedIsOver` (the run that was approved cannot
  sign again). In the refinement of `Approval` a challenge is a
  run, `connecting` is a request that is asked, `awaitingTouch` one that is open,
  and the signatures are the nonces that were touched; the card, the tasks and the
  timer are not seen.
* **`ViewerProofs`.** `MainMidway` and `NetMidway` say what each thread finds in the
  middle of a call: which fields it has already cleared, or that the other one has set
  them since. `RoomForBlocks` (the bound on reconnects leaves room for those that the
  present task, its timeout and a failed callback may still schedule) and `AckedIsLast`:
  `AcknowledgedIsShown` for a main queue that is not empty, where the status to come is
  that of the last post. `crossed` is what `NothingLeftOver` needs: a socket or timeout
  enters it only while the queue is between its two lines, so that whatever else a
  field has lost was cancelled first.
* **`RdpClientProofs`.** The order of the main queue is what makes up for threads
  that have gone: `PostsInOrder` (a connection or picture on the queue has its
  thread or the thread's end behind it), `PromptsWait` (a question on the queue is of
  a thread that waits, and its only one), `StartsFresh` (of a session that is to
  start there is nothing on the queue), `CallsFirst` (no alert comes up between the
  lookup and the call), and the three halves of `ShownIsBacked`, strengthened for
  the moment of a call.
* **`WindowsHostProofs`.** `ThreadsConsistent` (where a thread may be and what it
  resumes with), `NewClientIsFree` (the client that is being installed is nobody
  else's, into an empty place), `DisconnectsForCause` and `TearsDownForCause` (a
  thread on its way to `Disconnect` or in `Teardown` has a cause, that is, its client
  is broken, has sent what it is dropped for, or is no longer the current one),
  `EncoderTakenByTeardown` and `OpenIsCurrentOrNew` (the sockets that are open also
  while the gate is held). The three locks are not released for each other's sake, and
  the proof does not need it: it shows that whatever is done under `_gate` is done to
  the client that `Disconnect` compared with. Each part has a lemma with a case per
  action.

A proof that a step keeps `IInv` has a case per action, with a lemma for what
several actions do (the coordinator's entry points in `SessionProofs`, teardowns in
`StreamProofs`, posts in `RdpClientProofs`, rounds in `FleetProofs`). The refinements
map each action to a step of the abstract module or to a stutter.

**Only model-checked.** Liveness under fairness, which is out of the prover's
reach: `SessionEndRestores`, `QuitAnswered`, `ChallengesExpire`, `RetriesForever`,
`ClientsTurnOver` and `ThreadsSettle`. Their safety halves are proved where they
have one: `NoForgottenCollapse` and `QuitHasReply` (the reply is kept over every
collapse and restore that comes between) name what `SessionEndRestores` and
`QuitAnswered` wait for, `NeverStuck` and `AlwaysUnderWay` do so for
`ChallengesExpire` and `RetriesForever`, and `StoppedWhenClosed` is what
`ThreadsSettle` rests on: no thread of a closed session has not been told. The refuted properties under *findings*
need a counterexample only, which TLC gives.

## Plan

In this order:

1. A composition of `Stream`'s notifications with `Session`: what announces and ends
   a stream client there are `ExternalCollapse` and `ExternalRestore` here.
2. The bridges of `WebServer` with their session counter on two queues; bitrate
   steps in `Stream`.

## Not modelled

Byte formats, codecs, HTTP routing, views and menus hold no state that
interleaves; the update installer is a sequence of file operations; the bridges of
`WebServer` are planned; the Windows viewer and the web client repeat the iOS
viewer's protocol. By far the most lines of this repository, and nearly
all of its C files, are FreeRDP's vendored headers, declarations with no behaviour
of their own; the one of its own that does something, `RDPBridge.m`, is in
`RdpClient`, and the rest of what there is to model is in Swift and C#.
The reasons are given component by component in `PROJECT.json`.
