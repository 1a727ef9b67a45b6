------------------------------- MODULE Stream -------------------------------
(***************************************************************************)
(* StreamServer: one display (or window) served to one client at a time.   *)
(* A client connects, says HELLO, and is served once the capture has been  *)
(* set up; a new client replaces the one before.                           *)
(*                                                                         *)
(* All state of a server is confined to its serial queue, and an action is *)
(* a block on it (or on the main queue, for the notifications that ask the *)
(* menu-bar app to collapse and to restore). What interleaves are the      *)
(* blocks that a connection leaves behind: its cancellation, the           *)
(* completions of its sends, its capture being set up. They may run at any *)
(* time, also when the connection has long been replaced.                  *)
(***************************************************************************)
EXTENDS Integers, Sequences

CONSTANTS
  Conns,           \* connections (a name is used again once nothing is left)
  None,
  Window,          \* maxFramesInFlight: 8 in the code
  MaxUnsent,       \* bound: frames of a connection with NWConnection
  MaxTeardowns,    \* bound: teardown blocks queued on behalf of a connection
  MaxLate,         \* bound: frames of an invalidated encoder on the queue
  MaxMain          \* bound: blocks on the main queue

ASSUME StreamAssumption ==
  /\ None \notin Conns
  /\ Window \in Nat \ {0}
  /\ MaxUnsent \in Nat /\ MaxUnsent >= Window
  /\ MaxTeardowns \in Nat /\ MaxTeardowns > 1
  /\ MaxLate \in Nat
  /\ MaxMain \in Nat /\ MaxMain > 1

VARIABLES
  listening,       \* the server's listener is up
  connection,      \* the client's connection, or None
  setup,           \* startSession for each connection: "none" before HELLO,
                   \* "starting", "running" (capture runs, not attached), "over"
  stream,          \* the connection whose capture is attached, or None
  captures,        \* captures that run in ScreenCaptureKit, by connection
  teardowns,       \* teardownSession blocks queued, by connection
  unsent,          \* frames whose send completion is due, by connection
  framesInFlight,
  late,            \* encoded frames on the queue whose encoder is gone
  hostLocked,      \* the host's lock state, as the server knows it
  clientLock,      \* the last HOST_LOCK_STATE sent to this client, or None
  retired,         \* connections of a server instance that is gone
  clientAnnounced, \* this client reported its display
  mainQueue,       \* "hello" and "gone" blocks on the main queue
  pendingRestorePost,
  posted           \* the last notification: "none", "collapse" or "restore"

connVars == <<connection, setup, stream, captures, teardowns, unsent, retired>>
postVars == <<mainQueue, pendingRestorePost, posted>>
vars == <<listening, connVars, framesInFlight, late, hostLocked, clientLock,
          clientAnnounced, postVars>>

TypeOK ==
  /\ listening \in BOOLEAN
  /\ connection \in Conns \cup {None}
  /\ setup \in [Conns -> {"none", "starting", "running", "over"}]
  /\ stream \in Conns \cup {None}
  /\ captures \subseteq Conns
  /\ teardowns \in [Conns -> 0..MaxTeardowns]
  /\ unsent \in [Conns -> 0..MaxUnsent]
  /\ framesInFlight \in Int /\ framesInFlight <= MaxUnsent
  /\ late \in 0..MaxLate
  /\ hostLocked \in BOOLEAN
  /\ clientLock \in BOOLEAN \cup {None}
  /\ retired \subseteq Conns
  /\ clientAnnounced \in BOOLEAN
  /\ mainQueue \in Seq({"hello", "gone"})
  /\ pendingRestorePost \in BOOLEAN
  /\ posted \in {"none", "collapse", "restore"}

Init ==
  /\ listening = TRUE
  /\ connection = None
  /\ setup = [c \in Conns |-> "none"]
  /\ stream = None
  /\ captures = {}
  /\ teardowns = [c \in Conns |-> 0]
  /\ unsent = [c \in Conns |-> 0]
  /\ framesInFlight = 0
  /\ late = 0
  /\ hostLocked \in BOOLEAN
  /\ clientLock = None
  /\ retired = {}
  /\ clientAnnounced = FALSE
  /\ mainQueue = <<>>
  /\ pendingRestorePost = FALSE
  /\ posted = "none"

-----------------------------------------------------------------------------
(* teardownSession                                                         *)

\* Mutant: the send window of the old client is kept.
CloseSessionKeepsWindow(T) ==
  /\ captures' = captures \ {stream}
  /\ stream' = None
  /\ teardowns' = [T EXCEPT ![connection] = @ + 1]
  /\ late' \in (IF stream = None THEN {late} ELSE late..MaxLate)
  /\ clientAnnounced' = FALSE
  /\ IF clientAnnounced
       THEN mainQueue' = Append(mainQueue, "gone")
       ELSE UNCHANGED mainQueue
  /\ UNCHANGED framesInFlight

\* Mutant: the matching restore is not scheduled.
CloseSessionSilently(T) ==
  /\ captures' = captures \ {stream}
  /\ stream' = None
  /\ teardowns' = [T EXCEPT ![connection] = @ + 1]
  /\ late' \in (IF stream = None THEN {late} ELSE late..MaxLate)
  /\ clientAnnounced' = FALSE
  /\ framesInFlight' = 0
  /\ UNCHANGED mainQueue

\* The body of teardownSession; T counts the teardown blocks queued. The
\* connection is cancelled, and its .cancelled state queues another. The
\* encoder is invalidated, which first completes the frames it still has.
CloseSession(T) ==
  /\ captures' = captures \ {stream}
  /\ stream' = None
  /\ teardowns' = [T EXCEPT ![connection] = @ + 1]
  /\ late' \in (IF stream = None THEN {late} ELSE late..MaxLate)
  /\ framesInFlight' = 0
  /\ clientAnnounced' = FALSE
  /\ IF clientAnnounced
       THEN mainQueue' = Append(mainQueue, "gone")
       ELSE UNCHANGED mainQueue

\* teardownSession(): nothing when there is no client.
TeardownSession(T) ==
  \/ /\ connection # None
     /\ CloseSession(T)
     /\ connection' = None
     /\ clientLock' = None
  \/ /\ connection = None
     /\ teardowns' = T
     /\ UNCHANGED <<connection, stream, captures, late, framesInFlight,
                    clientAnnounced, clientLock, mainQueue>>

-----------------------------------------------------------------------------
(* The connection                                                          *)

\* Nothing is left of the connection that was called c.
Free(c) ==
  /\ c # connection
  /\ setup[c] \in {"none", "over"}
  /\ c \notin captures
  /\ teardowns[c] = 0 /\ unsent[c] = 0

\* accept: a new client replaces the one before.
Accept(c) ==
  /\ listening
  /\ Free(c)
  /\ IF connection # None
       THEN CloseSession(teardowns)
       ELSE UNCHANGED <<stream, captures, teardowns, late, framesInFlight,
                        clientAnnounced, mainQueue>>
  /\ connection' = c
  /\ clientLock' = None
  /\ setup' = [setup EXCEPT ![c] = "none"]
  /\ retired' = retired \ {c}
  /\ UNCHANGED <<listening, unsent, hostLocked, pendingRestorePost, posted>>

\* receiveLoop, which is pinned to its connection: the client has left, or sent
\* what cannot be parsed. Also disconnectClient.
Leave ==
  /\ connection # None
  /\ TeardownSession(teardowns)
  /\ UNCHANGED <<listening, setup, unsent, hostLocked, retired,
                 pendingRestorePost, posted>>

\* The connection fails; its state handler queues a teardown.
Fail ==
  /\ connection # None
  /\ teardowns[connection] + 1 < MaxTeardowns
  /\ teardowns' = [teardowns EXCEPT ![connection] = @ + 1]
  /\ UNCHANGED <<listening, connection, setup, stream, captures, unsent,
                 framesInFlight, late, hostLocked, clientLock, retired,
                 clientAnnounced, postVars>>

\* A queued teardown block runs, on whatever session there is now. (That of a
\* server that is gone finds no session.)
RunTeardown(c) ==
  LET T == [teardowns EXCEPT ![c] = @ - 1] IN
  /\ teardowns[c] > 0
  /\ IF c \in retired
       THEN /\ teardowns' = T
            /\ UNCHANGED <<connection, stream, captures, late, framesInFlight,
                           clientAnnounced, clientLock, mainQueue>>
       ELSE TeardownSession(T)
  /\ UNCHANGED <<listening, setup, unsent, hostLocked, retired,
                 pendingRestorePost, posted>>

-----------------------------------------------------------------------------
(* HELLO and the capture                                                   *)

\* handleClientDisplayInfo, if the message carries a display and this server
\* is the primary one.
HandleClientDisplayInfo ==
  \/ UNCHANGED <<clientAnnounced, mainQueue>>
  \/ /\ Len(mainQueue) + 1 < MaxMain
     /\ clientAnnounced' = TRUE
     /\ mainQueue' = Append(mainQueue, "hello")

\* HELLO, which a client sends once.
Hello ==
  /\ connection # None
  /\ setup[connection] = "none"
  /\ HandleClientDisplayInfo
  /\ setup' = [setup EXCEPT ![connection] = "starting"]
  /\ UNCHANGED <<listening, connection, stream, captures, teardowns, unsent,
                 framesInFlight, late, hostLocked, clientLock, retired,
                 pendingRestorePost, posted>>

\* CLIENT_DISPLAYS.
ClientDisplays ==
  /\ connection # None
  /\ HandleClientDisplayInfo
  /\ UNCHANGED <<listening, connVars, framesInFlight, late, hostLocked,
                 clientLock, pendingRestorePost, posted>>

CaptureStarts(c) ==
  /\ setup[c] = "starting"
  /\ setup' = [setup EXCEPT ![c] = "running"]
  /\ captures' = captures \cup {c}
  /\ UNCHANGED <<listening, connection, stream, teardowns, unsent,
                 framesInFlight, late, hostLocked, clientLock, retired,
                 clientAnnounced, postVars>>

\* Mutant: nobody is told.
CaptureFailsQuietly(c) ==
  /\ setup[c] = "starting"
  /\ setup' = [setup EXCEPT ![c] = "over"]
  /\ UNCHANGED <<listening, connection, stream, captures, teardowns, unsent,
                 framesInFlight, late, hostLocked, clientLock, retired,
                 clientAnnounced, postVars>>

\* No display, no encoder or no permission: a teardown is queued.
CaptureFails(c) ==
  /\ setup[c] = "starting"
  /\ teardowns[c] + 1 < MaxTeardowns
  /\ setup' = [setup EXCEPT ![c] = "over"]
  /\ teardowns' = [teardowns EXCEPT ![c] = @ + 1]
  /\ UNCHANGED <<listening, connection, stream, captures, unsent,
                 framesInFlight, late, hostLocked, clientLock, retired,
                 clientAnnounced, postVars>>

\* Mutant: the session is not pinned to its connection.
AttachToAny(c) ==
  /\ setup[c] = "running"
  /\ setup' = [setup EXCEPT ![c] = "over"]
  /\ IF connection # None
       THEN stream' = c /\ clientLock' = hostLocked /\ UNCHANGED captures
       ELSE captures' = captures \ {c} /\ UNCHANGED <<stream, clientLock>>
  /\ UNCHANGED <<listening, connection, teardowns, unsent, framesInFlight,
                 late, hostLocked, retired, clientAnnounced, postVars>>

\* Mutant: the client is not told the lock state.
AttachSilently(c) ==
  /\ setup[c] = "running"
  /\ setup' = [setup EXCEPT ![c] = "over"]
  /\ IF connection = c
       THEN stream' = c /\ UNCHANGED captures
       ELSE captures' = captures \ {c} /\ UNCHANGED stream
  /\ UNCHANGED <<listening, connection, teardowns, unsent, framesInFlight,
                 late, hostLocked, clientLock, retired, clientAnnounced, postVars>>

\* The capture runs: attach it to the connection that said HELLO (encoder,
\* HELLO_ACK, lock state), or stop it if that is no longer the client.
Attach(c) ==
  /\ setup[c] = "running"
  /\ setup' = [setup EXCEPT ![c] = "over"]
  /\ IF connection = c
       THEN stream' = c /\ clientLock' = hostLocked /\ UNCHANGED captures
       ELSE captures' = captures \ {c} /\ UNCHANGED <<stream, clientLock>>
  /\ UNCHANGED <<listening, connection, teardowns, unsent, framesInFlight,
                 late, hostLocked, retired, clientAnnounced, postVars>>

\* didStopWithError: ScreenCaptureKit ends the capture.
CaptureDies ==
  /\ stream \in captures
  /\ teardowns[stream] + 1 < MaxTeardowns
  /\ captures' = captures \ {stream}
  /\ teardowns' = [teardowns EXCEPT ![stream] = @ + 1]
  /\ UNCHANGED <<listening, connection, setup, stream, unsent, framesInFlight,
                 late, hostLocked, clientLock, retired, clientAnnounced, postVars>>

-----------------------------------------------------------------------------
(* Frames                                                                  *)

\* sendFrame, for a frame of the encoder or one left by an earlier encoder.
SendFrame(keyframe) ==
  /\ \/ stream # None /\ UNCHANGED late
     \/ late > 0 /\ late' = late - 1
  /\ IF connection = None \/ (framesInFlight >= Window /\ ~keyframe)
       THEN UNCHANGED <<unsent, framesInFlight>>
       ELSE /\ unsent[connection] < MaxUnsent
            /\ unsent' = [unsent EXCEPT ![connection] = @ + 1]
            /\ framesInFlight' = framesInFlight + 1
  /\ UNCHANGED <<listening, connection, setup, stream, captures, teardowns,
                 hostLocked, clientLock, retired, clientAnnounced, postVars>>

\* The completion of a send on c: the window opens, and after an error, as
\* every send pending on a cancelled connection gets, the session ends.
SendDone(c) ==
  /\ unsent[c] > 0
  /\ unsent' = [unsent EXCEPT ![c] = @ - 1]
  /\ \/ /\ framesInFlight' = IF c \in retired THEN framesInFlight ELSE framesInFlight - 1
        /\ UNCHANGED <<connection, stream, captures, teardowns, late,
                       clientAnnounced, clientLock, mainQueue>>
     \/ /\ c \notin retired
        /\ connection # None
        /\ TeardownSession(teardowns)
  /\ UNCHANGED <<listening, setup, hostLocked, retired, pendingRestorePost, posted>>

-----------------------------------------------------------------------------
(* StreamFleet's calls                                                     *)

SetLockState(locked) ==
  /\ hostLocked' = locked
  /\ clientLock' = IF connection = None THEN None ELSE locked
  /\ UNCHANGED <<listening, connVars, framesInFlight, late, clientAnnounced, postVars>>

Stop ==
  /\ listening
  /\ listening' = FALSE
  /\ TeardownSession(teardowns)
  /\ UNCHANGED <<setup, unsent, hostLocked, retired, pendingRestorePost, posted>>

\* The fleet puts another server on the port. What the old one's connections
\* left behind belongs to the old one; the pending restore is static.
Rebuild ==
  /\ ~listening
  /\ listening' = TRUE
  /\ retired' = {c \in Conns : ~Free(c)}
  /\ framesInFlight' = 0
  /\ late' = 0
  /\ UNCHANGED <<connection, setup, stream, captures, teardowns, unsent,
                 hostLocked, clientLock, clientAnnounced, postVars>>

-----------------------------------------------------------------------------
(* The main queue                                                          *)

\* A client's announcement cancels the pending restore and asks for a collapse;
\* its departure (scheduleRestorePost) starts the grace period afresh.
RunMain ==
  /\ mainQueue # <<>>
  /\ mainQueue' = Tail(mainQueue)
  /\ IF Head(mainQueue) = "hello"
       THEN posted' = "collapse" /\ pendingRestorePost' = FALSE
       ELSE pendingRestorePost' = TRUE /\ UNCHANGED posted
  /\ UNCHANGED <<listening, connVars, framesInFlight, late, hostLocked,
                 clientLock, clientAnnounced>>

\* The grace period of 15 s is over.
PostRestore ==
  /\ pendingRestorePost
  /\ pendingRestorePost' = FALSE
  /\ posted' = "restore"
  /\ UNCHANGED <<listening, connVars, framesInFlight, late, hostLocked,
                 clientLock, clientAnnounced, mainQueue>>

Next ==
  \/ \E c \in Conns :
       \/ Accept(c) \/ RunTeardown(c)
       \/ CaptureStarts(c) \/ CaptureFails(c) \/ Attach(c)
       \/ SendDone(c)
  \/ Leave \/ Fail \/ Hello \/ ClientDisplays \/ CaptureDies
  \/ \E keyframe \in BOOLEAN : SendFrame(keyframe)
  \/ \E locked \in BOOLEAN : SetLockState(locked)
  \/ Stop \/ Rebuild
  \/ RunMain \/ PostRestore

Spec == Init /\ [][Next]_vars

-----------------------------------------------------------------------------
(* Properties                                                              *)

\* No capture is orphaned: each one that runs belongs to the session, or is
\* still to be attached or stopped by the block that started it, however often
\* the client was replaced during the awaits of startSession.
CapturesOwned == captures \subseteq {stream} \cup {c \in Conns : setup[c] = "running"}

\* The window of a client is only ever closed by frames of its own: what an
\* earlier client did not drain never stalls the stream.
WindowIsOwn == connection # None => framesInFlight <= unsent[connection]

\* A client that is being served knows whether the host is locked, in whatever
\* order the lock, the capture and the connection came.
LockStateKnown == stream # None => clientLock = hostLocked

\* While a client that announced its display is there no restore is pending, so that
\* a reconnect, also across a rebuild of the server, does not end the collapse; and
\* once it has gone one is, so that the Mac is not left collapsed for a client that
\* never comes back. Until then the block that will see to it is the last one queued.
RestoreMatchesClient ==
  IF mainQueue # <<>>
  THEN mainQueue[Len(mainQueue)] = IF clientAnnounced THEN "hello" ELSE "gone"
  ELSE IF clientAnnounced THEN ~pendingRestorePost
       ELSE posted = "collapse" => pendingRestorePost

\* A client that said HELLO is being served, or waits for its capture, or is
\* about to be disconnected: it is never left with a dead session.
GreetedIsServed ==
  connection # None /\ setup[connection] = "over" =>
    stream \in captures \ {None} \/ teardowns[connection] > 0

\* "One client at a time; a new connection replaces the old one": what is left
\* of the old one does not disconnect the new one.
LeftoversSpareNewClient ==
  [][\A c \in Conns : (RunTeardown(c) \/ SendDone(c)) /\ c # connection
       => connection' = connection]_vars

=============================================================================
