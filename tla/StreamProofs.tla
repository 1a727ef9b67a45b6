---------------------------- MODULE StreamProofs ----------------------------
(***************************************************************************)
(* The safety of Stream for any number of connections, any window and any  *)
(* bound on what connections leave behind: its type invariant and the      *)
(* invariants that MCStream checks.                                        *)
(***************************************************************************)
EXTENDS Stream, TLAPS

\* A server that does not listen has no client, and the client of one that does is
\* its own.
ClientIsOwn == (~listening => connection = None) /\ connection \notin retired

\* A teardown can always be queued for the client: the bound is never what keeps a
\* session open.
RoomForTeardown == connection # None => teardowns[connection] < MaxTeardowns

\* Without a client the window is open.
WindowReopens == connection = None => framesInFlight <= 0

\* The attached capture is that of the client, whose startSession is over.
StreamIsClients == stream # None => stream = connection /\ setup[stream] = "over"

\* A capture that is to be attached or stopped does run.
RunningIsCaptured == \A c \in Conns : setup[c] = "running" => c \in captures

\* What holds of the client, its capture and its frames.
SessionInv ==
  /\ ClientIsOwn /\ RoomForTeardown /\ WindowReopens /\ StreamIsClients
  /\ RunningIsCaptured /\ CapturesOwned /\ WindowIsOwn /\ LockStateKnown
  /\ GreetedIsServed

\* The inductive invariant.
IInv == TypeOK /\ SessionInv /\ RestoreMatchesClient

-----------------------------------------------------------------------------
(* Tearing down                                                            *)

Counts == [Conns -> 0..MaxTeardowns]
Queues == Seq({"hello", "gone"})

\* The numbers of queued teardown blocks stay within their bound.
LEMMA CountUp ==
  ASSUME NEW T \in Counts, NEW c \in Conns, T[c] < MaxTeardowns
  PROVE  [T EXCEPT ![c] = @ + 1] \in Counts
BY StreamAssumption DEF Counts

\* Taking one off a counter makes none of them larger.
LEMMA CountDown ==
  ASSUME NEW T \in Counts, NEW c \in Conns, T[c] > 0
  PROVE  /\ [T EXCEPT ![c] = @ - 1] \in Counts
         /\ \A d \in Conns : [T EXCEPT ![c] = @ - 1][d] <= T[d]
BY StreamAssumption DEF Counts

\* A teardown block that has begun to run leaves room for the one it queues.
LEMMA LeftTeardowns ==
  ASSUME IInv, NEW c \in Conns, teardowns[c] > 0
  PROVE  LET T == [teardowns EXCEPT ![c] = @ - 1] IN
         /\ T \in Counts
         /\ connection # None => T[connection] < MaxTeardowns
<1>. DEFINE T == [teardowns EXCEPT ![c] = @ - 1]
<1>0. teardowns \in Counts /\ connection \in Conns \cup {None}
  BY DEF IInv, TypeOK, Counts
<1>1. T \in Counts /\ \A d \in Conns : T[d] <= teardowns[d]
  BY <1>0, CountDown
<1>2. connection # None => teardowns[connection] < MaxTeardowns
  BY DEF IInv, SessionInv, RoomForTeardown
<1>. HIDE DEF T
<1>3. connection # None => T[connection] \in Nat /\ teardowns[connection] \in Nat
  BY <1>0, <1>1 DEF Counts
<1>4. connection # None => T[connection] <= teardowns[connection]
  BY <1>0, <1>1
<1>5. connection # None => T[connection] < MaxTeardowns
  BY <1>2, <1>3, <1>4, StreamAssumption
<1>. QED BY <1>1, <1>5 DEF T

\* What a teardown leaves of the session, whether there was a client or not.
LEMMA CloseOutcome ==
  ASSUME IInv, NEW T \in Counts, connection # None, T[connection] < MaxTeardowns,
         CloseSession(T)
  PROVE  /\ stream' = None /\ captures' = captures \ {stream}
         /\ teardowns' \in Counts
         /\ \A c \in Conns : c # connection => teardowns'[c] = T[c]
         /\ framesInFlight' = 0
         /\ late' \in 0..MaxLate
         /\ clientAnnounced' = FALSE
         /\ mainQueue' \in Queues
<1>1. connection \in Conns /\ late \in 0..MaxLate /\ mainQueue \in Queues
  BY DEF IInv, TypeOK, Queues
<1>2. late..MaxLate \subseteq 0..MaxLate
  BY <1>1, StreamAssumption
<1>3. late' \in 0..MaxLate
  BY <1>1, <1>2 DEF CloseSession
<1>4. mainQueue' \in Queues
  BY <1>1 DEF CloseSession, Queues
<1>5. teardowns' = [T EXCEPT ![connection] = @ + 1]
  BY DEF CloseSession
<1>6. teardowns' \in Counts
  BY <1>1, <1>5, CountUp
<1>7. \A c \in Conns : c # connection => teardowns'[c] = T[c]
  BY <1>5 DEF Counts
<1>. QED BY <1>3, <1>4, <1>6, <1>7 DEF CloseSession

\* teardownSession leaves no connection and no capture of it.
LEMMA TeardownOutcome ==
  ASSUME IInv, NEW T \in Counts, connection # None => T[connection] < MaxTeardowns,
         TeardownSession(T)
  PROVE  /\ connection' = None /\ stream' = None /\ captures' = captures \ {stream}
         /\ teardowns' \in Counts
         /\ framesInFlight' \in Int /\ framesInFlight' <= 0
         /\ late' \in 0..MaxLate
         /\ clientAnnounced' \in BOOLEAN
         /\ clientLock' \in BOOLEAN \cup {None}
         /\ mainQueue' \in Queues
<1>1. CASE connection # None
  <2>1. CloseSession(T) /\ connection' = None /\ clientLock' = None
    BY <1>1 DEF TeardownSession
  <2>2. T[connection] < MaxTeardowns
    BY <1>1
  <2>3. /\ stream' = None /\ captures' = captures \ {stream}
        /\ teardowns' \in Counts /\ framesInFlight' = 0
        /\ late' \in 0..MaxLate /\ clientAnnounced' = FALSE
        /\ mainQueue' \in Queues
    BY <1>1, <2>1, <2>2, CloseOutcome
  <2>4. framesInFlight' \in Int /\ framesInFlight' <= 0
    BY <2>3
  <2>5. clientAnnounced' \in BOOLEAN /\ clientLock' \in BOOLEAN \cup {None}
    BY <2>1, <2>3
  <2>. QED BY <2>1, <2>3, <2>4, <2>5
<1>2. CASE connection = None
  <2>1. /\ teardowns' = T
        /\ UNCHANGED <<connection, stream, captures, late, framesInFlight,
                       clientAnnounced, clientLock, mainQueue>>
    BY <1>2 DEF TeardownSession
  <2>2. stream = None /\ captures \ {stream} = captures
    BY <1>2, StreamAssumption DEF IInv, SessionInv, TypeOK, StreamIsClients
  <2>. QED BY <1>2, <2>1, <2>2 DEF IInv, SessionInv, TypeOK, WindowReopens, Queues
<1>. QED BY <1>1, <1>2

\* What holds of the client holds when there is none.
LEMMA TornDown ==
  ASSUME IInv, NEW T \in Counts, connection # None => T[connection] < MaxTeardowns,
         TeardownSession(T), UNCHANGED <<setup, hostLocked, retired>>,
         retired' \subseteq Conns
  PROVE  /\ ClientIsOwn' /\ RoomForTeardown' /\ WindowReopens' /\ StreamIsClients'
         /\ RunningIsCaptured' /\ CapturesOwned' /\ WindowIsOwn' /\ LockStateKnown'
         /\ GreetedIsServed'
<1>1. /\ connection' = None /\ stream' = None /\ captures' = captures \ {stream}
      /\ framesInFlight' <= 0
  BY TeardownOutcome
<1>. QED BY <1>1, StreamAssumption
     DEF IInv, SessionInv, TypeOK, ClientIsOwn, RoomForTeardown, WindowReopens, StreamIsClients,
         RunningIsCaptured, CapturesOwned, WindowIsOwn, LockStateKnown, GreetedIsServed

-----------------------------------------------------------------------------
(* Types                                                                   *)

\* Every step keeps the types.
LEMMA TypeStep == IInv /\ [Next]_vars => TypeOK'
<1>. SUFFICES ASSUME IInv, [Next]_vars PROVE TypeOK'
  OBVIOUS
<1>0. TypeOK /\ teardowns \in Counts /\ mainQueue \in Queues
  BY DEF IInv, TypeOK, Counts, Queues
<1>1. connection # None => teardowns[connection] < MaxTeardowns
  BY DEF IInv, SessionInv, RoomForTeardown
<1>2. ASSUME TeardownSession(teardowns)
      PROVE  /\ connection' \in Conns \cup {None} /\ stream' \in Conns \cup {None}
             /\ captures' \subseteq Conns /\ teardowns' \in Counts
             /\ framesInFlight' \in Int /\ framesInFlight' <= MaxUnsent
             /\ late' \in 0..MaxLate /\ clientAnnounced' \in BOOLEAN
             /\ clientLock' \in BOOLEAN \cup {None} /\ mainQueue' \in Queues
  BY <1>0, <1>1, <1>2, TeardownOutcome, StreamAssumption DEF TypeOK
<1>3. ASSUME NEW c \in Conns, Accept(c) PROVE TypeOK'
  <2>1. CASE connection # None
    <3>1. CloseSession(teardowns)
      BY <1>3, <2>1 DEF Accept
    <3>2. /\ stream' = None /\ captures' = captures \ {stream}
          /\ teardowns' \in Counts /\ framesInFlight' = 0
          /\ late' \in 0..MaxLate /\ clientAnnounced' = FALSE
          /\ mainQueue' \in Queues
      BY <1>0, <1>1, <2>1, <3>1, CloseOutcome
    <3>3. /\ listening /\ connection' = c /\ clientLock' = None
          /\ setup' = [setup EXCEPT ![c] = "none"] /\ retired' = retired \ {c}
          /\ UNCHANGED <<listening, unsent, hostLocked, pendingRestorePost, posted>>
      BY <1>3 DEF Accept
    <3>4. framesInFlight' \in Int /\ framesInFlight' <= MaxUnsent
      BY <3>2, StreamAssumption
    <3>5. /\ clientAnnounced' \in BOOLEAN /\ listening' \in BOOLEAN
          /\ hostLocked' \in BOOLEAN /\ pendingRestorePost' \in BOOLEAN
          /\ clientLock' \in BOOLEAN \cup {None}
      BY <1>0, <3>2, <3>3 DEF TypeOK
    <3>6. /\ setup' \in [Conns -> {"none", "starting", "running", "over"}]
          /\ unsent' \in [Conns -> 0..MaxUnsent]
          /\ retired' \subseteq Conns /\ captures' \subseteq Conns
      BY <1>0, <3>2, <3>3 DEF TypeOK
    <3>7. /\ connection' \in Conns \cup {None} /\ stream' \in Conns \cup {None}
          /\ posted' \in {"none", "collapse", "restore"}
      BY <1>0, <3>2, <3>3 DEF TypeOK
    <3>. QED BY <3>2, <3>4, <3>5, <3>6, <3>7 DEF TypeOK, Counts, Queues
  <2>2. CASE connection = None
    BY <1>0, <1>3, <2>2 DEF Accept, TypeOK
  <2>. QED BY <2>1, <2>2
<1>4. CASE Leave
  BY <1>0, <1>2, <1>4 DEF Leave, TypeOK, Counts, Queues
<1>5. CASE Fail
  BY <1>0, <1>5, CountUp, StreamAssumption DEF Fail, TypeOK, Counts, postVars
<1>6. ASSUME NEW c \in Conns, RunTeardown(c) PROVE TypeOK'
  <2>. DEFINE T == [teardowns EXCEPT ![c] = @ - 1]
  <2>1. T \in Counts /\ (connection # None => T[connection] < MaxTeardowns)
    BY <1>6, LeftTeardowns DEF RunTeardown
  <2>2. CASE c \in retired
    <3>. HIDE DEF T
    <3>1. teardowns' = T
      BY <1>6, <2>2 DEF RunTeardown, T
    <3>. QED BY <1>0, <1>6, <2>1, <2>2, <3>1 DEF RunTeardown, TypeOK, Counts
  <2>3. CASE c \notin retired
    <3>. HIDE DEF T
    <3>1. TeardownSession(T)
      BY <1>6, <2>3 DEF RunTeardown, T
    <3>2. /\ connection' = None /\ stream' = None /\ captures' = captures \ {stream}
          /\ teardowns' \in Counts
          /\ framesInFlight' \in Int /\ framesInFlight' <= 0
          /\ late' \in 0..MaxLate
          /\ clientAnnounced' \in BOOLEAN
          /\ clientLock' \in BOOLEAN \cup {None}
          /\ mainQueue' \in Queues
      BY <2>1, <3>1, TeardownOutcome
    <3>. QED BY <1>0, <1>6, <3>2, StreamAssumption DEF RunTeardown, TypeOK, Counts, Queues
  <2>. QED BY <2>2, <2>3
<1>20. ASSUME HandleClientDisplayInfo
       PROVE  clientAnnounced' \in BOOLEAN /\ mainQueue' \in Queues
  <2>1. CASE UNCHANGED <<clientAnnounced, mainQueue>>
    BY <1>0, <2>1 DEF TypeOK, Queues
  <2>2. CASE clientAnnounced' = TRUE /\ mainQueue' = Append(mainQueue, "hello")
    <3>1. mainQueue' \in Queues
      BY <1>0, <2>2 DEF Queues
    <3>. QED BY <2>2, <3>1
  <2>. QED BY <1>20, <2>1, <2>2 DEF HandleClientDisplayInfo
<1>7. CASE Hello
  BY <1>0, <1>7, <1>20 DEF Hello, TypeOK, Queues
<1>8. CASE ClientDisplays
  BY <1>0, <1>8, <1>20 DEF ClientDisplays, connVars, TypeOK, Queues
<1>9. ASSUME NEW c \in Conns, CaptureStarts(c) \/ Attach(c) PROVE TypeOK'
  BY <1>0, <1>9 DEF CaptureStarts, Attach, TypeOK, postVars
<1>10. ASSUME NEW c \in Conns, CaptureFails(c) PROVE TypeOK'
  BY <1>0, <1>10, CountUp, StreamAssumption DEF CaptureFails, TypeOK, Counts, postVars
<1>11. CASE CaptureDies
  BY <1>0, <1>11, CountUp, StreamAssumption DEF CaptureDies, TypeOK, Counts, postVars
<1>12. ASSUME NEW keyframe \in BOOLEAN, SendFrame(keyframe) PROVE TypeOK'
  <2>1. late' \in 0..MaxLate
    BY <1>0, <1>12, StreamAssumption DEF SendFrame, TypeOK
  <2>2. CASE UNCHANGED <<unsent, framesInFlight>>
    BY <1>0, <1>12, <2>1, <2>2 DEF SendFrame, TypeOK, postVars
  <2>3. CASE /\ connection # None /\ unsent[connection] < MaxUnsent
             /\ unsent' = [unsent EXCEPT ![connection] = @ + 1]
             /\ framesInFlight' = framesInFlight + 1
    <3>1. framesInFlight <= unsent[connection]
      BY <2>3 DEF IInv, SessionInv, WindowIsOwn
    <3>2. framesInFlight' \in Int /\ framesInFlight' <= MaxUnsent
      BY <1>0, <2>3, <3>1, StreamAssumption DEF TypeOK
    <3>3. unsent' \in [Conns -> 0..MaxUnsent]
      BY <1>0, <2>3, StreamAssumption DEF TypeOK
    <3>. QED BY <1>0, <1>12, <2>1, <3>2, <3>3 DEF SendFrame, TypeOK, postVars
  <2>. QED BY <1>12, <2>2, <2>3 DEF SendFrame
<1>13. ASSUME NEW c \in Conns, SendDone(c) PROVE TypeOK'
  <2>1. unsent' \in [Conns -> 0..MaxUnsent]
    BY <1>0, <1>13, StreamAssumption DEF SendDone, TypeOK
  <2>2. CASE TeardownSession(teardowns)
    BY <1>0, <1>2, <1>13, <2>1, <2>2 DEF SendDone, TypeOK, Counts, Queues
  <2>3. CASE /\ framesInFlight' = IF c \in retired THEN framesInFlight ELSE framesInFlight - 1
             /\ UNCHANGED <<connection, stream, captures, teardowns, late,
                            clientAnnounced, clientLock, mainQueue>>
    <3>1. framesInFlight' \in Int /\ framesInFlight' <= MaxUnsent
      BY <1>0, <2>3, StreamAssumption DEF TypeOK
    <3>. QED BY <1>0, <1>13, <2>1, <2>3, <3>1 DEF SendDone, TypeOK
  <2>. QED BY <1>13, <2>2, <2>3 DEF SendDone
<1>14. ASSUME NEW locked \in BOOLEAN, SetLockState(locked) PROVE TypeOK'
  BY <1>0, <1>14 DEF SetLockState, TypeOK, connVars, postVars
<1>15. CASE Stop
  BY <1>0, <1>2, <1>15 DEF Stop, TypeOK, Counts, Queues
<1>16. CASE Rebuild
  BY <1>0, <1>16, StreamAssumption DEF Rebuild, TypeOK, postVars
<1>17. CASE RunMain
  <2>1. mainQueue' \in Queues
    BY <1>0, <1>17 DEF RunMain, Queues
  <2>2. CASE Head(mainQueue) = "hello"
    BY <1>0, <1>17, <2>1, <2>2 DEF RunMain, TypeOK, connVars, Queues
  <2>3. CASE Head(mainQueue) # "hello"
    BY <1>0, <1>17, <2>1, <2>3 DEF RunMain, TypeOK, connVars, Queues
  <2>. QED BY <2>2, <2>3
<1>18. CASE PostRestore
  BY <1>0, <1>18 DEF PostRestore, TypeOK, connVars
<1>19. CASE UNCHANGED vars
  BY <1>0, <1>19 DEF vars, TypeOK, connVars, postVars
<1>. QED BY <1>3, <1>4, <1>5, <1>6, <1>7, <1>8, <1>9, <1>10, <1>11, <1>12, <1>13,
            <1>14, <1>15, <1>16, <1>17, <1>18, <1>19 DEF Next

-----------------------------------------------------------------------------
(* The session                                                             *)

\* Every step keeps what IInv says of the session.
LEMMA SessionStep == IInv /\ [Next]_vars => SessionInv'
<1>. SUFFICES ASSUME IInv, [Next]_vars PROVE SessionInv'
  OBVIOUS
<1>. USE StreamAssumption
<1>0. TypeOK /\ SessionInv /\ teardowns \in Counts
  BY DEF IInv, TypeOK, Counts
<1>t. TypeOK'
  BY TypeStep
<1>1. connection # None => teardowns[connection] < MaxTeardowns
  BY <1>0 DEF SessionInv, RoomForTeardown
<1>2. ASSUME NEW T \in Counts, connection # None => T[connection] < MaxTeardowns,
             TeardownSession(T), UNCHANGED <<setup, hostLocked, retired>>
      PROVE  SessionInv'
  BY <1>0, <1>2, TornDown DEF SessionInv, TypeOK
<1>3. ASSUME NEW c \in Conns, Accept(c) PROVE SessionInv'
  <2>1. /\ stream' = None /\ captures' = captures \ {stream} /\ framesInFlight' <= 0
        /\ teardowns' \in Counts /\ teardowns'[c] = 0
    <3>1. c # connection /\ teardowns[c] = 0
      BY <1>3 DEF Accept, Free
    <3>2. CASE connection # None
      <4>1. CloseSession(teardowns)
        BY <1>3, <3>2 DEF Accept
      <4>2. /\ stream' = None /\ captures' = captures \ {stream} /\ framesInFlight' = 0
            /\ teardowns' \in Counts /\ teardowns'[c] = teardowns[c]
        BY <1>0, <1>1, <3>1, <3>2, <4>1, CloseOutcome
      <4>. QED BY <3>1, <4>2
    <3>3. CASE connection = None
      <4>1. UNCHANGED <<stream, captures, teardowns, framesInFlight>>
        BY <1>3, <3>3 DEF Accept
      <4>2. stream = None /\ framesInFlight <= 0
        BY <1>0, <3>3 DEF SessionInv, StreamIsClients, WindowReopens, TypeOK
      <4>. QED BY <1>0, <3>1, <4>1, <4>2 DEF TypeOK
    <3>. QED BY <3>2, <3>3
  <2>2. /\ listening' /\ connection' = c /\ retired' = retired \ {c} /\ unsent' = unsent
        /\ setup' = [setup EXCEPT ![c] = "none"]
    BY <1>3 DEF Accept
  <2>3. c \in Conns /\ c # None /\ setup'[c] = "none"
    BY <1>0, <2>2 DEF TypeOK
  <2>4. ClientIsOwn' /\ RoomForTeardown' /\ WindowReopens' /\ StreamIsClients'
    BY <2>1, <2>2, <2>3 DEF ClientIsOwn, RoomForTeardown, WindowReopens, StreamIsClients
  <2>5. RunningIsCaptured' /\ CapturesOwned'
    <3>1. c \notin captures
      BY <1>3 DEF Accept, Free
    <3>2. \A d \in Conns : d # c => setup'[d] = setup[d]
      BY <1>0, <2>2 DEF TypeOK
    <3>3. stream # None => setup[stream] = "over"
      BY <1>0 DEF SessionInv, StreamIsClients
    <3>. QED BY <1>0, <2>1, <2>3, <3>1, <3>2, <3>3
         DEF RunningIsCaptured, CapturesOwned, SessionInv, TypeOK
  <2>6. WindowIsOwn'
    <3>1. framesInFlight' \in Int /\ unsent'[c] \in Nat
      BY <1>0, <1>t, <2>2 DEF TypeOK
    <3>. QED BY <2>1, <2>2, <3>1 DEF WindowIsOwn
  <2>7. LockStateKnown' /\ GreetedIsServed'
    BY <2>1, <2>2, <2>3 DEF LockStateKnown, GreetedIsServed
  <2>. QED BY <2>4, <2>5, <2>6, <2>7 DEF SessionInv
<1>4. CASE Leave
  BY <1>0, <1>1, <1>2, <1>4 DEF Leave
<1>5. CASE Fail
  BY <1>0, <1>5
     DEF Fail, SessionInv, TypeOK, ClientIsOwn, RoomForTeardown, WindowReopens,
         StreamIsClients, RunningIsCaptured, CapturesOwned, WindowIsOwn, LockStateKnown,
         GreetedIsServed
<1>6. ASSUME NEW c \in Conns, RunTeardown(c) PROVE SessionInv'
  <2>. DEFINE T == [teardowns EXCEPT ![c] = @ - 1]
  <2>1. T \in Counts /\ (connection # None => T[connection] < MaxTeardowns)
    BY <1>0, <1>1, <1>6, LeftTeardowns DEF RunTeardown
  <2>2. CASE c \in retired
    <3>1. /\ c # connection /\ teardowns' = T
          /\ UNCHANGED <<listening, connection, setup, stream, captures, framesInFlight,
                         unsent, hostLocked, clientLock, retired>>
      BY <1>0, <1>6, <2>2 DEF RunTeardown, SessionInv, ClientIsOwn
    <3>2. connection # None => teardowns'[connection] = teardowns[connection]
      BY <1>0, <3>1 DEF TypeOK
    <3>. HIDE DEF T
    <3>. QED BY <1>0, <3>1, <3>2
         DEF SessionInv, ClientIsOwn, RoomForTeardown, WindowReopens, StreamIsClients,
             RunningIsCaptured, CapturesOwned, WindowIsOwn, LockStateKnown, GreetedIsServed
  <2>3. CASE c \notin retired
    <3>1. TeardownSession(T) /\ UNCHANGED <<setup, hostLocked, retired>>
      BY <1>6, <2>3 DEF RunTeardown
    <3>. HIDE DEF T
    <3>. QED BY <1>2, <2>1, <3>1
  <2>. QED BY <2>2, <2>3
<1>7. CASE Hello
  <2>1. /\ connection \in Conns /\ setup' = [setup EXCEPT ![connection] = "starting"]
        /\ setup[connection] = "none"
        /\ UNCHANGED <<listening, connection, stream, captures, teardowns, unsent,
                       framesInFlight, hostLocked, clientLock, retired>>
    BY <1>0, <1>7 DEF Hello, TypeOK
  <2>. QED BY <1>0, <2>1
       DEF SessionInv, TypeOK, ClientIsOwn, RoomForTeardown, WindowReopens,
           StreamIsClients, RunningIsCaptured, CapturesOwned, WindowIsOwn, LockStateKnown,
           GreetedIsServed
<1>8. CASE ClientDisplays \/ RunMain \/ PostRestore \/ UNCHANGED vars
  <2>1. UNCHANGED <<listening, connVars, framesInFlight, hostLocked, clientLock>>
    BY <1>8 DEF ClientDisplays, RunMain, PostRestore, vars
  <2>. QED BY <1>0, <2>1
       DEF connVars, SessionInv, ClientIsOwn, RoomForTeardown, WindowReopens,
           StreamIsClients, RunningIsCaptured, CapturesOwned, WindowIsOwn, LockStateKnown,
           GreetedIsServed
<1>9. ASSUME NEW c \in Conns, CaptureStarts(c) PROVE SessionInv'
  BY <1>0, <1>9
     DEF CaptureStarts, SessionInv, TypeOK, ClientIsOwn, RoomForTeardown, WindowReopens,
         StreamIsClients, RunningIsCaptured, CapturesOwned, WindowIsOwn, LockStateKnown,
         GreetedIsServed
<1>10. ASSUME NEW c \in Conns, CaptureFails(c) PROVE SessionInv'
  BY <1>0, <1>10
     DEF CaptureFails, SessionInv, TypeOK, ClientIsOwn, RoomForTeardown, WindowReopens,
         StreamIsClients, RunningIsCaptured, CapturesOwned, WindowIsOwn, LockStateKnown,
         GreetedIsServed
<1>11. ASSUME NEW c \in Conns, Attach(c) PROVE SessionInv'
  BY <1>0, <1>11
     DEF Attach, SessionInv, TypeOK, ClientIsOwn, RoomForTeardown, WindowReopens,
         StreamIsClients, RunningIsCaptured, CapturesOwned, WindowIsOwn, LockStateKnown,
         GreetedIsServed
<1>12. CASE CaptureDies
  BY <1>0, <1>12
     DEF CaptureDies, SessionInv, TypeOK, ClientIsOwn, RoomForTeardown, WindowReopens,
         StreamIsClients, RunningIsCaptured, CapturesOwned, WindowIsOwn, LockStateKnown,
         GreetedIsServed
<1>13. ASSUME NEW keyframe \in BOOLEAN, SendFrame(keyframe) PROVE SessionInv'
  BY <1>0, <1>13
     DEF SendFrame, SessionInv, TypeOK, ClientIsOwn, RoomForTeardown, WindowReopens,
         StreamIsClients, RunningIsCaptured, CapturesOwned, WindowIsOwn, LockStateKnown,
         GreetedIsServed
<1>14. ASSUME NEW c \in Conns, SendDone(c) PROVE SessionInv'
  BY <1>0, <1>1, <1>2, <1>14
     DEF SendDone, SessionInv, TypeOK, ClientIsOwn, RoomForTeardown, WindowReopens,
         StreamIsClients, RunningIsCaptured, CapturesOwned, WindowIsOwn, LockStateKnown,
         GreetedIsServed
<1>15. ASSUME NEW locked \in BOOLEAN, SetLockState(locked) PROVE SessionInv'
  BY <1>0, <1>15
     DEF SetLockState, connVars, SessionInv, TypeOK, ClientIsOwn, RoomForTeardown,
         WindowReopens, StreamIsClients, RunningIsCaptured, CapturesOwned, WindowIsOwn,
         LockStateKnown, GreetedIsServed
<1>16. CASE Stop
  BY <1>0, <1>1, <1>2, <1>16 DEF Stop
<1>17. CASE Rebuild
  BY <1>0, <1>17
     DEF Rebuild, SessionInv, TypeOK, ClientIsOwn, RoomForTeardown, WindowReopens,
         StreamIsClients, RunningIsCaptured, CapturesOwned, WindowIsOwn, LockStateKnown,
         GreetedIsServed
<1>. QED BY <1>3, <1>4, <1>5, <1>6, <1>7, <1>8, <1>9, <1>10, <1>11, <1>12, <1>13,
            <1>14, <1>15, <1>16, <1>17 DEF Next

-----------------------------------------------------------------------------
(* The main queue                                                          *)

\* The last block of a queue is the one just added.
LEMMA LastAppended ==
  ASSUME NEW q \in Queues, NEW m \in {"hello", "gone"}
  PROVE  Append(q, m) # <<>> /\ Append(q, m)[Len(Append(q, m))] = m
BY DEF Queues

\* Running the first block leaves the last one, unless it is the same.
LEMMA LastKept ==
  ASSUME NEW q \in Queues, q # <<>>
  PROVE  /\ Tail(q) # <<>> => Tail(q)[Len(Tail(q))] = q[Len(q)]
         /\ Tail(q) = <<>> => Head(q) = q[Len(q)]
<1>1. Len(q) \in Nat \ {0}
  BY DEF Queues
<1>2. CASE Len(q) = 1
  BY <1>2 DEF Queues
<1>3. CASE Len(q) > 1
  <2>1. Len(Tail(q)) = Len(q) - 1 /\ Tail(q) # <<>>
    BY <1>3 DEF Queues
  <2>2. Tail(q)[Len(q) - 1] = q[Len(q)]
    BY <1>3 DEF Queues
  <2>. QED BY <2>1, <2>2
<1>. QED BY <1>1, <1>2, <1>3

\* Every step keeps the restore notification in line with the client.
LEMMA RestoreStep == IInv /\ [Next]_vars => RestoreMatchesClient'
<1>. SUFFICES ASSUME IInv, [Next]_vars PROVE RestoreMatchesClient'
  OBVIOUS
<1>0. TypeOK /\ RestoreMatchesClient /\ mainQueue \in Queues
  BY DEF IInv, TypeOK, Queues
<1>1. ASSUME UNCHANGED <<clientAnnounced, postVars>> PROVE RestoreMatchesClient'
  BY <1>0, <1>1 DEF RestoreMatchesClient, postVars
<1>2. ASSUME NEW T, CloseSession(T), UNCHANGED <<pendingRestorePost, posted>>
      PROVE  RestoreMatchesClient'
  <2>1. CASE clientAnnounced
    <3>1. mainQueue' = Append(mainQueue, "gone") /\ clientAnnounced' = FALSE
      BY <1>2, <2>1 DEF CloseSession
    <3>2. mainQueue' # <<>> /\ mainQueue'[Len(mainQueue')] = "gone"
      BY <1>0, <3>1, LastAppended
    <3>. QED BY <3>1, <3>2 DEF RestoreMatchesClient
  <2>2. CASE ~clientAnnounced
    <3>1. mainQueue' = mainQueue /\ clientAnnounced' = FALSE
      BY <1>2, <2>2 DEF CloseSession
    <3>. QED BY <1>0, <1>2, <2>2, <3>1 DEF RestoreMatchesClient
  <2>. QED BY <2>1, <2>2
<1>3. ASSUME NEW T, TeardownSession(T), UNCHANGED <<pendingRestorePost, posted>>
      PROVE  RestoreMatchesClient'
  BY <1>1, <1>2, <1>3 DEF TeardownSession, postVars
<1>4. ASSUME HandleClientDisplayInfo, UNCHANGED <<pendingRestorePost, posted>>
      PROVE  RestoreMatchesClient'
  <2>1. CASE UNCHANGED <<clientAnnounced, mainQueue>>
    BY <1>1, <1>4, <2>1 DEF postVars
  <2>2. CASE clientAnnounced' = TRUE /\ mainQueue' = Append(mainQueue, "hello")
    <3>1. mainQueue' # <<>> /\ mainQueue'[Len(mainQueue')] = "hello"
      BY <1>0, <2>2, LastAppended
    <3>. QED BY <2>2, <3>1 DEF RestoreMatchesClient
  <2>. QED BY <1>4, <2>1, <2>2 DEF HandleClientDisplayInfo
<1>5. ASSUME NEW c \in Conns, Accept(c) PROVE RestoreMatchesClient'
  BY <1>1, <1>2, <1>5 DEF Accept, postVars
<1>6. CASE Leave
  BY <1>3, <1>6 DEF Leave
<1>7. ASSUME NEW c \in Conns, RunTeardown(c) PROVE RestoreMatchesClient'
  BY <1>1, <1>3, <1>7 DEF RunTeardown, postVars
<1>8. CASE Hello \/ ClientDisplays
  BY <1>4, <1>8 DEF Hello, ClientDisplays
<1>9. ASSUME NEW c \in Conns, SendDone(c) PROVE RestoreMatchesClient'
  BY <1>1, <1>3, <1>9 DEF SendDone, postVars
<1>10. CASE Stop
  BY <1>3, <1>10 DEF Stop
<1>11. CASE RunMain
  <2>1. /\ mainQueue # <<>> /\ mainQueue' = Tail(mainQueue)
        /\ clientAnnounced' = clientAnnounced
    BY <1>11 DEF RunMain
  <2>2. CASE mainQueue' # <<>>
    BY <1>0, <2>1, <2>2, LastKept DEF RestoreMatchesClient
  <2>3. CASE mainQueue' = <<>>
    <3>1. Head(mainQueue) = IF clientAnnounced THEN "hello" ELSE "gone"
      BY <1>0, <2>1, <2>3, LastKept DEF RestoreMatchesClient
    <3>2. CASE clientAnnounced
      <4>1. pendingRestorePost' = FALSE
        BY <1>11, <3>1, <3>2 DEF RunMain
      <4>. QED BY <2>1, <2>3, <3>2, <4>1 DEF RestoreMatchesClient
    <3>3. CASE ~clientAnnounced
      <4>1. pendingRestorePost' = TRUE
        BY <1>11, <3>1, <3>3 DEF RunMain
      <4>. QED BY <2>1, <2>3, <3>3, <4>1 DEF RestoreMatchesClient
    <3>. QED BY <3>2, <3>3
  <2>. QED BY <2>2, <2>3
<1>12. CASE PostRestore
  BY <1>0, <1>12 DEF PostRestore, RestoreMatchesClient
<1>13. CASE UNCHANGED vars
  BY <1>1, <1>13 DEF vars
<1>14. CASE Fail \/ CaptureDies \/ Rebuild \/ \E keyframe \in BOOLEAN : SendFrame(keyframe)
  BY <1>1, <1>14 DEF Fail, CaptureDies, Rebuild, SendFrame
<1>15. CASE \E c \in Conns : CaptureStarts(c) \/ CaptureFails(c) \/ Attach(c)
  BY <1>1, <1>15 DEF CaptureStarts, CaptureFails, Attach
<1>16. CASE \E locked \in BOOLEAN : SetLockState(locked)
  BY <1>1, <1>16 DEF SetLockState
<1>. QED BY <1>5, <1>6, <1>7, <1>8, <1>9, <1>10, <1>11, <1>12, <1>13, <1>14, <1>15,
            <1>16 DEF Next

-----------------------------------------------------------------------------
(* The theorems                                                            *)

\* The invariant holds at first.
LEMMA InitIInv == Init => IInv
<1>. SUFFICES ASSUME Init PROVE IInv
  OBVIOUS
<1>1. TypeOK
  <2>1. /\ listening \in BOOLEAN /\ hostLocked \in BOOLEAN /\ clientAnnounced \in BOOLEAN
        /\ pendingRestorePost \in BOOLEAN /\ clientLock \in BOOLEAN \cup {None}
    BY DEF Init
  <2>2. /\ setup \in [Conns -> {"none", "starting", "running", "over"}]
        /\ teardowns \in [Conns -> 0..MaxTeardowns] /\ unsent \in [Conns -> 0..MaxUnsent]
        /\ framesInFlight \in Int /\ framesInFlight <= MaxUnsent /\ late \in 0..MaxLate
    BY StreamAssumption DEF Init
  <2>3. /\ connection \in Conns \cup {None} /\ stream \in Conns \cup {None}
        /\ captures \subseteq Conns /\ retired \subseteq Conns
        /\ mainQueue \in Seq({"hello", "gone"}) /\ posted \in {"none", "collapse", "restore"}
    BY DEF Init
  <2>. QED BY <2>1, <2>2, <2>3 DEF TypeOK
<1>2. SessionInv
  BY StreamAssumption
     DEF Init, SessionInv, ClientIsOwn, RoomForTeardown, WindowReopens, StreamIsClients,
         RunningIsCaptured, CapturesOwned, WindowIsOwn, LockStateKnown, GreetedIsServed
<1>3. RestoreMatchesClient
  BY DEF Init, RestoreMatchesClient
<1>. QED BY <1>1, <1>2, <1>3 DEF IInv

\* So it holds always.
LEMMA Invariance == Spec => []IInv
<1>1. IInv /\ [Next]_vars => IInv'
  BY TypeStep, SessionStep, RestoreStep DEF IInv
<1>. QED BY <1>1, InitIInv, PTL DEF Spec

\* Every variable keeps its type, and no counter leaves its bound (StreamServer).
THEOREM TypeCorrect == Spec => []TypeOK
<1>1. IInv => TypeOK
  BY DEF IInv
<1>. QED BY <1>1, Invariance, PTL

\* A capture that runs is attached to the client or still in the hands of the block that
\* started it, however many clients came and went during the awaits of startSession.
THEOREM NoCaptureIsOrphaned == Spec => []CapturesOwned
<1>1. IInv => CapturesOwned
  BY DEF IInv, SessionInv
<1>. QED BY <1>1, Invariance, PTL

\* What an earlier client did not drain never closes the window of a later one: the
\* completions of its sends, which sendFrame's closure counts against whoever is the
\* client by then, only ever open it.
THEOREM OnlyOwnFramesStall == Spec => []WindowIsOwn
<1>1. IInv => WindowIsOwn
  BY DEF IInv, SessionInv
<1>. QED BY <1>1, Invariance, PTL

\* A served client knows the host's lock state (setLockState and startSession).
THEOREM ServedClientKnowsLock == Spec => []LockStateKnown
<1>1. IInv => LockStateKnown
  BY DEF IInv, SessionInv
<1>. QED BY <1>1, Invariance, PTL

\* The collapse is kept for an announced client and scheduled to end once it has gone,
\* whatever is still queued for the main queue (scheduleRestorePost).
THEOREM RestoreFollowsClient == Spec => []RestoreMatchesClient
<1>1. IInv => RestoreMatchesClient
  BY DEF IInv
<1>. QED BY <1>1, Invariance, PTL

\* After HELLO a client has its capture, or waits for it, or is being disconnected.
THEOREM NoDeadSession == Spec => []GreetedIsServed
<1>1. IInv => GreetedIsServed
  BY DEF IInv, SessionInv
<1>. QED BY <1>1, Invariance, PTL
=============================================================================
