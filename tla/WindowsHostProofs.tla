-------------------------- MODULE WindowsHostProofs --------------------------
(***************************************************************************)
(* The safety of WindowsHost for any clients, captures and encoders: its   *)
(* types, that only the current client's socket is open, and that a client *)
(* is torn down for a cause only.                                          *)
(***************************************************************************)
EXTENDS WindowsHost, TLAPS

TearingDown == {"stop", "dispose", "abort"}
InSendOrDisconnect == {"waiting", "sending", "gate"} \cup TearingDown
Resumes == {"idle", "serving", "start", "unlock"}

\* Where the accept loop, the tray and the pool can be, and what a thread that is
\* not in a send or a Disconnect remembers of one.
ThreadsConsistent ==
  /\ pc[Accept] \in {"idle", "gate", "install"} \cup TearingDown
  /\ pc[Tray] \in {"idle"} \cup TearingDown
  /\ pc[Sender] \in {"idle"} \cup InSendOrDisconnect
  /\ \A t \in {Accept, Tray, Sender} : resume[t] = "idle"
  /\ sendLock \notin {Accept, Tray}
  /\ \A t \in Threads :
       /\ resume[t] \in Resumes
       /\ pc[t] \notin InSendOrDisconnect => resume[t] = "idle"

\* The client that the accept loop brings is nobody else's, and takes an empty place.
NewClientIsFree ==
  /\ pc[Accept] = "idle" => target[Accept] = None
  /\ pc[Accept] # "idle" =>
       /\ target[Accept] \in Clients /\ target[Accept] # ws
       /\ pc[Receiver(target[Accept])] = "idle"
       /\ \A t \in Threads \ {Accept} : target[t] # target[Accept]
  /\ pc[Accept] = "install" => ws = None

\* A Teardown has disposed of the encoder and has the socket still to abort.
Aborting == \E t \in Threads : pc[t] = "abort"

\* Whoever misses the encoder that it has created is no longer the client, or not
\* for long.
EncoderTakenByTeardown ==
  encoder = None =>
    \A c \in Clients :
      pc[Receiver(c)] \in {"ack", "start"} \/ resume[Receiver(c)] = "start"
        => c # ws \/ Aborting

\* A client that a thread is about to disconnect is broken, or to be dropped for what it
\* has sent, or not the current one.
DisconnectsForCause ==
  \A t \in Threads \ {Accept} :
    pc[t] = "gate" =>
      \/ target[t] \notin alive \/ target[t] \in faulty
      \/ target[t] # ws \/ Aborting
      \/ disposed

\* So is the one that is being torn down.
TearsDownForCause ==
  \A t \in Threads \ {Accept, Tray} :
    pc[t] \in TearingDown => ws \notin alive \/ ws \in faulty \/ disposed

\* Also while the gate is held.
OpenIsCurrentOrNew == alive \subseteq {ws, target[Accept]}

IInv ==
  /\ TypeOK /\ ThreadsConsistent /\ NewClientIsFree /\ EncoderTakenByTeardown
  /\ DisconnectsForCause /\ TearsDownForCause /\ OpenIsCurrentOrNew

-----------------------------------------------------------------------------
\* Threads are told apart.
LEMMA ThreadNames ==
  /\ Accept \in Threads /\ Tray \in Threads /\ Sender \in Threads
  /\ Accept # Tray /\ Accept # Sender /\ Tray # Sender
  /\ None \notin Threads
  /\ \A c \in Clients : Receiver(c) \in Threads \ {Accept, Tray, Sender}
  /\ \A k \in Captures : Capture(k) \in Threads \ {Accept, Tray, Sender}
  /\ \A c \in Clients, k \in Captures : Receiver(c) # Capture(k)
  /\ \A b, c \in Clients : Receiver(b) = Receiver(c) => b = c
  BY WindowsAssumption
  DEF Threads, Accept, Tray, Sender, Receivers, CaptureThreads, Receiver, Capture

-----------------------------------------------------------------------------
(* The steps                                                               *)

\* Every step keeps the types.
LEMMA TypeStep == IInv /\ [Next]_vars => TypeOK'
<1>. SUFFICES ASSUME IInv, [Next]_vars PROVE TypeOK'
  OBVIOUS
<1>. USE WindowsAssumption, ThreadNames
      DEF IInv, TypeOK, PCs, ThreadsConsistent, NewClientIsFree, TearingDown, Resumes
<1>1. ASSUME NEW t \in Threads, Acquire(t) PROVE TypeOK'
  BY <1>1 DEF Acquire, Go, clientVars, videoVars
<1>2. ASSUME NEW t \in Threads, SendFails(t) PROVE TypeOK'
  BY <1>2 DEF SendFails, Resume, Go, clientVars, videoVars
<1>3. ASSUME NEW t \in Threads, Disconnect(t) PROVE TypeOK'
  BY <1>3 DEF Disconnect, Resume, Go, videoVars
<1>4. ASSUME NEW t \in Threads, StopCapture(t) PROVE TypeOK'
  BY <1>4 DEF StopCapture, Go, clientVars
<1>5. ASSUME NEW t \in Threads, DisposeEncoder(t) PROVE TypeOK'
  BY <1>5 DEF DisposeEncoder, VideoEncoderDispose, Go, clientVars
<1>6. ASSUME NEW t \in Threads, Abort(t) PROVE TypeOK'
  <2>1. /\ pc[t] = "abort" /\ gate = t /\ \A u \in Threads \ {t} : gate # u
        /\ ws' = None /\ alive' \subseteq Clients
        /\ UNCHANGED <<faulty, videoVars, disposed>>
    BY <1>6 DEF Abort
  <2>2. CASE t = Accept
    <3>1. Go(t, "install") /\ UNCHANGED <<gate, sendLock, target, resume>>
      BY <1>6, <2>2 DEF Abort
    <3>2. sendLock # t
      BY <2>2
    <3>. QED BY <2>1, <3>1, <3>2 DEF Go, videoVars
  <2>3. CASE t # Accept
    <3>1. /\ pc' = [pc EXCEPT ![t] = resume[t]] /\ resume[t] \in Resumes
          /\ target' = [target EXCEPT ![t] = None]
          /\ resume' = [resume EXCEPT ![t] = "idle"]
          /\ sendLock' = IF sendLock = t THEN None ELSE sendLock
          /\ gate' = None
      BY <1>6, <2>3 DEF Abort, Resume, Go
    <3>. QED BY <2>1, <3>1 DEF videoVars
  <2>. QED BY <2>2, <2>3
<1>7. ASSUME NEW t \in Threads, SendReturns(t) PROVE TypeOK'
  BY <1>7 DEF SendReturns, Resume, Go, clientVars, videoVars
<1>8. ASSUME NEW c \in Clients, Connects(c) PROVE TypeOK'
  BY <1>8 DEF Connects, Free, Go, videoVars
<1>9. ASSUME NEW c \in Clients, Breaks(c) PROVE TypeOK'
  BY <1>9 DEF Breaks, videoVars, threadVars
<1>10. ASSUME NEW c \in Clients, Hello(c) PROVE TypeOK'
  BY <1>10 DEF Hello, Go, clientVars, videoVars
<1>11. ASSUME NEW c \in Clients, CreateEncoder(c) PROVE TypeOK'
  BY <1>11 DEF CreateEncoder, SendThen, Go, clientVars
<1>12. ASSUME NEW c \in Clients, HelloAck(c) PROVE TypeOK'
  BY <1>12 DEF HelloAck, DisconnectThen, SendThen, Go, clientVars, videoVars
<1>13. ASSUME NEW c \in Clients, StartCapture(c) PROVE TypeOK'
  BY <1>13 DEF StartCapture, DisconnectThen, Go, clientVars
<1>14. ASSUME NEW c \in Clients, ReceiveEnds(c) PROVE TypeOK'
  BY <1>14 DEF ReceiveEnds, DisconnectThen, Go, clientVars, videoVars
<1>15. ASSUME NEW c \in Clients, DropClient(c) PROVE TypeOK'
  BY <1>15 DEF DropClient, DisconnectThen, Go, videoVars
<1>16. CASE OnClient
  <2>1. /\ pc[Accept] = "gate" /\ gate = None /\ gate' = Accept
        /\ UNCHANGED <<ws, alive, faulty, videoVars, disposed, sendLock, target, resume>>
        /\ \/ pc' = [pc EXCEPT ![Accept] = "install"]
           \/ pc' = [pc EXCEPT ![Accept] = "stop"]
    BY <1>16 DEF OnClient, Go
  <2>2. sendLock # Accept
    BY <2>1
  <2>. QED BY <2>1, <2>2 DEF videoVars
<1>17. CASE Install
  BY <1>17 DEF Install, videoVars
<1>18. CASE Dispose
  BY <1>18 DEF Dispose, Go, videoVars
<1>19. CASE PoolSend
  BY <1>19 DEF PoolSend, SendThen, Go, clientVars, videoVars
<1>20. ASSUME NEW k \in Captures, FeedAndStep(k) PROVE TypeOK'
  BY <1>20 DEF FeedAndStep, SendThen, Go, clientVars
<1>21. ASSUME NEW k \in Captures, Unlock(k) PROVE TypeOK'
  BY <1>21 DEF Unlock, Go, clientVars
<1>22. ASSUME NEW k \in Captures, CaptureEnds(k) PROVE TypeOK'
  BY <1>22 DEF CaptureEnds, Go, clientVars
<1>23. ASSUME NEW k \in Captures, DisposeOwnEncoder(k) PROVE TypeOK'
  BY <1>23 DEF DisposeOwnEncoder, VideoEncoderDispose, Go, clientVars
<1>24. CASE UNCHANGED vars
  BY <1>24 DEF vars, clientVars, videoVars, threadVars
<1>. QED
  BY <1>1, <1>2, <1>3, <1>4, <1>5, <1>6, <1>7, <1>8,
     <1>9, <1>10, <1>11, <1>12, <1>13, <1>14, <1>15, <1>16,
     <1>17, <1>18, <1>19, <1>20, <1>21, <1>22, <1>23, <1>24
     DEF Next, ThreadStep, ReceiverStep

\* Threads stay where they belong, and forget a send or a Disconnect that is over.
LEMMA ThreadsStep == IInv /\ [Next]_vars => ThreadsConsistent'
<1>. SUFFICES ASSUME IInv, [Next]_vars PROVE ThreadsConsistent'
  OBVIOUS
<1>. USE WindowsAssumption, ThreadNames
      DEF IInv, TypeOK, ThreadsConsistent, NewClientIsFree, TearingDown,
          InSendOrDisconnect, Resumes
<1>1. ASSUME NEW t \in Threads, Acquire(t) PROVE ThreadsConsistent'
  BY <1>1 DEF Acquire, Go, clientVars, videoVars
<1>2. ASSUME NEW t \in Threads, SendFails(t) PROVE ThreadsConsistent'
  BY <1>2 DEF SendFails, Resume, Go, clientVars, videoVars
<1>3. ASSUME NEW t \in Threads, Disconnect(t) PROVE ThreadsConsistent'
  BY <1>3 DEF Disconnect, Resume, Go, videoVars
<1>4. ASSUME NEW t \in Threads, StopCapture(t) PROVE ThreadsConsistent'
  BY <1>4 DEF StopCapture, Go, clientVars
<1>5. ASSUME NEW t \in Threads, DisposeEncoder(t) PROVE ThreadsConsistent'
  BY <1>5 DEF DisposeEncoder, VideoEncoderDispose, Go, clientVars
<1>6. ASSUME NEW t \in Threads, Abort(t) PROVE ThreadsConsistent'
  BY <1>6 DEF Abort, Resume, Go, videoVars
<1>7. ASSUME NEW t \in Threads, SendReturns(t) PROVE ThreadsConsistent'
  BY <1>7 DEF SendReturns, Resume, Go, clientVars, videoVars
<1>8. ASSUME NEW c \in Clients, Connects(c) PROVE ThreadsConsistent'
  BY <1>8 DEF Connects, Free, Go, videoVars
<1>9. ASSUME NEW c \in Clients, Breaks(c) PROVE ThreadsConsistent'
  BY <1>9 DEF Breaks, videoVars, threadVars
<1>10. ASSUME NEW c \in Clients, Hello(c) PROVE ThreadsConsistent'
  BY <1>10 DEF Hello, Go, clientVars, videoVars
<1>11. ASSUME NEW c \in Clients, CreateEncoder(c) PROVE ThreadsConsistent'
  BY <1>11 DEF CreateEncoder, SendThen, Go, clientVars
<1>12. ASSUME NEW c \in Clients, HelloAck(c) PROVE ThreadsConsistent'
  BY <1>12 DEF HelloAck, DisconnectThen, SendThen, Go, clientVars, videoVars
<1>13. ASSUME NEW c \in Clients, StartCapture(c) PROVE ThreadsConsistent'
  BY <1>13 DEF StartCapture, DisconnectThen, Go, clientVars
<1>14. ASSUME NEW c \in Clients, ReceiveEnds(c) PROVE ThreadsConsistent'
  BY <1>14 DEF ReceiveEnds, DisconnectThen, Go, clientVars, videoVars
<1>15. ASSUME NEW c \in Clients, DropClient(c) PROVE ThreadsConsistent'
  BY <1>15 DEF DropClient, DisconnectThen, Go, videoVars
<1>16. CASE OnClient
  BY <1>16 DEF OnClient, Go, videoVars
<1>17. CASE Install
  BY <1>17 DEF Install, videoVars
<1>18. CASE Dispose
  BY <1>18 DEF Dispose, Go, videoVars
<1>19. CASE PoolSend
  BY <1>19 DEF PoolSend, SendThen, Go, clientVars, videoVars
<1>20. ASSUME NEW k \in Captures, FeedAndStep(k) PROVE ThreadsConsistent'
  BY <1>20 DEF FeedAndStep, SendThen, Go, clientVars
<1>21. ASSUME NEW k \in Captures, Unlock(k) PROVE ThreadsConsistent'
  BY <1>21 DEF Unlock, Go, clientVars
<1>22. ASSUME NEW k \in Captures, CaptureEnds(k) PROVE ThreadsConsistent'
  BY <1>22 DEF CaptureEnds, Go, clientVars
<1>23. ASSUME NEW k \in Captures, DisposeOwnEncoder(k) PROVE ThreadsConsistent'
  BY <1>23 DEF DisposeOwnEncoder, VideoEncoderDispose, Go, clientVars
<1>24. CASE UNCHANGED vars
  BY <1>24 DEF vars, clientVars, videoVars, threadVars
<1>. QED
  BY <1>1, <1>2, <1>3, <1>4, <1>5, <1>6, <1>7, <1>8,
     <1>9, <1>10, <1>11, <1>12, <1>13, <1>14, <1>15, <1>16,
     <1>17, <1>18, <1>19, <1>20, <1>21, <1>22, <1>23, <1>24
     DEF Next, ThreadStep, ReceiverStep

\* Nobody sends to or disconnects the client that the accept loop brings, and the gate is
\* the accept loop's while it takes the empty place.
LEMMA NewClientStep == IInv /\ [Next]_vars => NewClientIsFree'
<1>. SUFFICES ASSUME IInv, [Next]_vars PROVE NewClientIsFree'
  OBVIOUS
<1>. USE WindowsAssumption, ThreadNames
      DEF IInv, TypeOK, ThreadsConsistent, NewClientIsFree, TearingDown, InSendOrDisconnect
<1>1. ASSUME NEW t \in Threads, Acquire(t) PROVE NewClientIsFree'
  BY <1>1 DEF Acquire, Go, clientVars, videoVars
<1>2. ASSUME NEW t \in Threads, SendFails(t) PROVE NewClientIsFree'
  BY <1>2 DEF SendFails, Resume, Go, clientVars, videoVars
<1>3. ASSUME NEW t \in Threads, Disconnect(t) PROVE NewClientIsFree'
  BY <1>3 DEF Disconnect, Resume, Go, videoVars
<1>4. ASSUME NEW t \in Threads, StopCapture(t) PROVE NewClientIsFree'
  BY <1>4 DEF StopCapture, Go, clientVars
<1>5. ASSUME NEW t \in Threads, DisposeEncoder(t) PROVE NewClientIsFree'
  BY <1>5 DEF DisposeEncoder, VideoEncoderDispose, Go, clientVars
<1>6. ASSUME NEW t \in Threads, Abort(t) PROVE NewClientIsFree'
  BY <1>6 DEF Abort, Resume, Go, videoVars
<1>7. ASSUME NEW t \in Threads, SendReturns(t) PROVE NewClientIsFree'
  BY <1>7 DEF SendReturns, Resume, Go, clientVars, videoVars
<1>8. ASSUME NEW c \in Clients, Connects(c) PROVE NewClientIsFree'
  BY <1>8 DEF Connects, Free, Go, videoVars
<1>9. ASSUME NEW c \in Clients, Breaks(c) PROVE NewClientIsFree'
  BY <1>9 DEF Breaks, videoVars, threadVars
<1>10. ASSUME NEW c \in Clients, Hello(c) PROVE NewClientIsFree'
  BY <1>10 DEF Hello, Go, clientVars, videoVars
<1>11. ASSUME NEW c \in Clients, CreateEncoder(c) PROVE NewClientIsFree'
  BY <1>11 DEF CreateEncoder, SendThen, Go, clientVars
<1>12. ASSUME NEW c \in Clients, HelloAck(c) PROVE NewClientIsFree'
  BY <1>12 DEF HelloAck, DisconnectThen, SendThen, Go, clientVars, videoVars
<1>13. ASSUME NEW c \in Clients, StartCapture(c) PROVE NewClientIsFree'
  BY <1>13 DEF StartCapture, DisconnectThen, Go, clientVars
<1>14. ASSUME NEW c \in Clients, ReceiveEnds(c) PROVE NewClientIsFree'
  BY <1>14 DEF ReceiveEnds, DisconnectThen, Go, clientVars, videoVars
<1>15. ASSUME NEW c \in Clients, DropClient(c) PROVE NewClientIsFree'
  BY <1>15 DEF DropClient, DisconnectThen, Go, videoVars
<1>16. CASE OnClient
  BY <1>16 DEF OnClient, Go, videoVars
<1>17. CASE Install
  BY <1>17 DEF Install, videoVars
<1>18. CASE Dispose
  BY <1>18 DEF Dispose, Go, videoVars
<1>19. CASE PoolSend
  BY <1>19 DEF PoolSend, SendThen, Go, clientVars, videoVars
<1>20. ASSUME NEW k \in Captures, FeedAndStep(k) PROVE NewClientIsFree'
  BY <1>20 DEF FeedAndStep, SendThen, Go, clientVars
<1>21. ASSUME NEW k \in Captures, Unlock(k) PROVE NewClientIsFree'
  BY <1>21 DEF Unlock, Go, clientVars
<1>22. ASSUME NEW k \in Captures, CaptureEnds(k) PROVE NewClientIsFree'
  BY <1>22 DEF CaptureEnds, Go, clientVars
<1>23. ASSUME NEW k \in Captures, DisposeOwnEncoder(k) PROVE NewClientIsFree'
  BY <1>23 DEF DisposeOwnEncoder, VideoEncoderDispose, Go, clientVars
<1>24. CASE UNCHANGED vars
  BY <1>24 DEF vars, clientVars, videoVars, threadVars
<1>. QED
  BY <1>1, <1>2, <1>3, <1>4, <1>5, <1>6, <1>7, <1>8,
     <1>9, <1>10, <1>11, <1>12, <1>13, <1>14, <1>15, <1>16,
     <1>17, <1>18, <1>19, <1>20, <1>21, <1>22, <1>23, <1>24
     DEF Next, ThreadStep, ReceiverStep

\* The encoder only goes in a Teardown, which aborts the socket next.
LEMMA EncoderStep == IInv /\ [Next]_vars => EncoderTakenByTeardown'
<1>. SUFFICES ASSUME IInv, [Next]_vars PROVE EncoderTakenByTeardown'
  OBVIOUS
<1>. USE WindowsAssumption, ThreadNames
      DEF IInv, TypeOK, ThreadsConsistent, NewClientIsFree, EncoderTakenByTeardown,
          Aborting, TearingDown, Resumes
<1>1. ASSUME NEW t \in Threads, Acquire(t) PROVE EncoderTakenByTeardown'
  BY <1>1 DEF Acquire, Go, clientVars, videoVars
<1>2. ASSUME NEW t \in Threads, SendFails(t) PROVE EncoderTakenByTeardown'
  BY <1>2 DEF SendFails, Resume, Go, clientVars, videoVars
<1>3. ASSUME NEW t \in Threads, Disconnect(t) PROVE EncoderTakenByTeardown'
  BY <1>3 DEF Disconnect, Resume, Go, videoVars
<1>4. ASSUME NEW t \in Threads, StopCapture(t) PROVE EncoderTakenByTeardown'
  BY <1>4 DEF StopCapture, Go, clientVars
<1>5. ASSUME NEW t \in Threads, DisposeEncoder(t) PROVE EncoderTakenByTeardown'
  BY <1>5 DEF DisposeEncoder, VideoEncoderDispose, Go, clientVars
<1>6. ASSUME NEW t \in Threads, Abort(t) PROVE EncoderTakenByTeardown'
  BY <1>6 DEF Abort, Resume, Go, videoVars
<1>7. ASSUME NEW t \in Threads, SendReturns(t) PROVE EncoderTakenByTeardown'
  BY <1>7 DEF SendReturns, Resume, Go, clientVars, videoVars
<1>8. ASSUME NEW c \in Clients, Connects(c) PROVE EncoderTakenByTeardown'
  BY <1>8 DEF Connects, Free, Go, videoVars
<1>9. ASSUME NEW c \in Clients, Breaks(c) PROVE EncoderTakenByTeardown'
  BY <1>9 DEF Breaks, videoVars, threadVars
<1>10. ASSUME NEW c \in Clients, Hello(c) PROVE EncoderTakenByTeardown'
  BY <1>10 DEF Hello, Go, clientVars, videoVars
<1>11. ASSUME NEW c \in Clients, CreateEncoder(c) PROVE EncoderTakenByTeardown'
  BY <1>11 DEF CreateEncoder, SendThen, Go, clientVars
<1>12. ASSUME NEW c \in Clients, HelloAck(c) PROVE EncoderTakenByTeardown'
  BY <1>12 DEF HelloAck, DisconnectThen, SendThen, Go, clientVars, videoVars
<1>13. ASSUME NEW c \in Clients, StartCapture(c) PROVE EncoderTakenByTeardown'
  BY <1>13 DEF StartCapture, DisconnectThen, Go, clientVars
<1>14. ASSUME NEW c \in Clients, ReceiveEnds(c) PROVE EncoderTakenByTeardown'
  BY <1>14 DEF ReceiveEnds, DisconnectThen, Go, clientVars, videoVars
<1>15. ASSUME NEW c \in Clients, DropClient(c) PROVE EncoderTakenByTeardown'
  BY <1>15 DEF DropClient, DisconnectThen, Go, videoVars
<1>16. CASE OnClient
  BY <1>16 DEF OnClient, Go, videoVars
<1>17. CASE Install
  <2>1. /\ target[Accept] \in Clients /\ ws' = target[Accept] /\ encoder' = encoder
        /\ pc[Receiver(ws')] = "idle" /\ resume[Receiver(ws')] = "idle"
    BY <1>17 DEF Install, videoVars, InSendOrDisconnect
  <2>2. \A u \in Threads \ {Accept, Receiver(ws')} : pc'[u] = pc[u]
    BY <1>17, <2>1 DEF Install
  <2>3. pc'[Receiver(ws')] = "reading" /\ resume' = resume
    BY <1>17, <2>1 DEF Install
  <2>4. ASSUME NEW c \in Clients, encoder' = None,
               pc'[Receiver(c)] \in {"ack", "start"} \/ resume'[Receiver(c)] = "start"
        PROVE  c # ws'
    BY <2>1, <2>3, <2>4
  <2>. QED BY <2>4
<1>18. CASE Dispose
  BY <1>18 DEF Dispose, Go, videoVars
<1>19. CASE PoolSend
  BY <1>19 DEF PoolSend, SendThen, Go, clientVars, videoVars
<1>20. ASSUME NEW k \in Captures, FeedAndStep(k) PROVE EncoderTakenByTeardown'
  BY <1>20 DEF FeedAndStep, SendThen, Go, clientVars
<1>21. ASSUME NEW k \in Captures, Unlock(k) PROVE EncoderTakenByTeardown'
  BY <1>21 DEF Unlock, Go, clientVars
<1>22. ASSUME NEW k \in Captures, CaptureEnds(k) PROVE EncoderTakenByTeardown'
  BY <1>22 DEF CaptureEnds, Go, clientVars
<1>23. ASSUME NEW k \in Captures, DisposeOwnEncoder(k) PROVE EncoderTakenByTeardown'
  BY <1>23 DEF DisposeOwnEncoder, VideoEncoderDispose, Go, clientVars
<1>24. CASE UNCHANGED vars
  BY <1>24 DEF vars, clientVars, videoVars, threadVars
<1>. QED
  BY <1>1, <1>2, <1>3, <1>4, <1>5, <1>6, <1>7, <1>8,
     <1>9, <1>10, <1>11, <1>12, <1>13, <1>14, <1>15, <1>16,
     <1>17, <1>18, <1>19, <1>20, <1>21, <1>22, <1>23, <1>24
     DEF Next, ThreadStep, ReceiverStep

\* Whoever sets out to disconnect a client has a cause.
LEMMA DisconnectsStep == IInv /\ [Next]_vars => DisconnectsForCause'
<1>. SUFFICES ASSUME IInv, [Next]_vars PROVE DisconnectsForCause'
  OBVIOUS
<1>. USE WindowsAssumption, ThreadNames
      DEF IInv, TypeOK, ThreadsConsistent, NewClientIsFree, EncoderTakenByTeardown,
          DisconnectsForCause, Aborting, TearingDown
<1>1. ASSUME NEW t \in Threads, Acquire(t) PROVE DisconnectsForCause'
  BY <1>1 DEF Acquire, Go, clientVars, videoVars
<1>2. ASSUME NEW t \in Threads, SendFails(t) PROVE DisconnectsForCause'
  BY <1>2 DEF SendFails, Resume, Go, clientVars, videoVars
<1>3. ASSUME NEW t \in Threads, Disconnect(t) PROVE DisconnectsForCause'
  BY <1>3 DEF Disconnect, Resume, Go, videoVars
<1>4. ASSUME NEW t \in Threads, StopCapture(t) PROVE DisconnectsForCause'
  BY <1>4 DEF StopCapture, Go, clientVars
<1>5. ASSUME NEW t \in Threads, DisposeEncoder(t) PROVE DisconnectsForCause'
  BY <1>5 DEF DisposeEncoder, VideoEncoderDispose, Go, clientVars
<1>6. ASSUME NEW t \in Threads, Abort(t) PROVE DisconnectsForCause'
  BY <1>6 DEF Abort, Resume, Go, videoVars
<1>7. ASSUME NEW t \in Threads, SendReturns(t) PROVE DisconnectsForCause'
  BY <1>7 DEF SendReturns, Resume, Go, clientVars, videoVars
<1>8. ASSUME NEW c \in Clients, Connects(c) PROVE DisconnectsForCause'
  BY <1>8 DEF Connects, Free, Go, videoVars
<1>9. ASSUME NEW c \in Clients, Breaks(c) PROVE DisconnectsForCause'
  BY <1>9 DEF Breaks, videoVars, threadVars
<1>10. ASSUME NEW c \in Clients, Hello(c) PROVE DisconnectsForCause'
  BY <1>10 DEF Hello, Go, clientVars, videoVars
<1>11. ASSUME NEW c \in Clients, CreateEncoder(c) PROVE DisconnectsForCause'
  BY <1>11 DEF CreateEncoder, SendThen, Go, clientVars
<1>12. ASSUME NEW c \in Clients, HelloAck(c) PROVE DisconnectsForCause'
  BY <1>12 DEF HelloAck, DisconnectThen, SendThen, Go, clientVars, videoVars
<1>13. ASSUME NEW c \in Clients, StartCapture(c) PROVE DisconnectsForCause'
  BY <1>13 DEF StartCapture, DisconnectThen, Go, clientVars
<1>14. ASSUME NEW c \in Clients, ReceiveEnds(c) PROVE DisconnectsForCause'
  BY <1>14 DEF ReceiveEnds, DisconnectThen, Go, clientVars, videoVars
<1>15. ASSUME NEW c \in Clients, DropClient(c) PROVE DisconnectsForCause'
  BY <1>15 DEF DropClient, DisconnectThen, Go, videoVars
<1>16. CASE OnClient
  BY <1>16 DEF OnClient, Go, videoVars
<1>17. CASE Install
  BY <1>17 DEF Install, videoVars
<1>18. CASE Dispose
  BY <1>18 DEF Dispose, Go, videoVars
<1>19. CASE PoolSend
  BY <1>19 DEF PoolSend, SendThen, Go, clientVars, videoVars
<1>20. ASSUME NEW k \in Captures, FeedAndStep(k) PROVE DisconnectsForCause'
  BY <1>20 DEF FeedAndStep, SendThen, Go, clientVars
<1>21. ASSUME NEW k \in Captures, Unlock(k) PROVE DisconnectsForCause'
  BY <1>21 DEF Unlock, Go, clientVars
<1>22. ASSUME NEW k \in Captures, CaptureEnds(k) PROVE DisconnectsForCause'
  BY <1>22 DEF CaptureEnds, Go, clientVars
<1>23. ASSUME NEW k \in Captures, DisposeOwnEncoder(k) PROVE DisconnectsForCause'
  BY <1>23 DEF DisposeOwnEncoder, VideoEncoderDispose, Go, clientVars
<1>24. CASE UNCHANGED vars
  BY <1>24 DEF vars, clientVars, videoVars, threadVars
<1>. QED
  BY <1>1, <1>2, <1>3, <1>4, <1>5, <1>6, <1>7, <1>8,
     <1>9, <1>10, <1>11, <1>12, <1>13, <1>14, <1>15, <1>16,
     <1>17, <1>18, <1>19, <1>20, <1>21, <1>22, <1>23, <1>24
     DEF Next, ThreadStep, ReceiverStep

\* Nobody takes the gate without one.
LEMMA TearsDownStep == IInv /\ [Next]_vars => TearsDownForCause'
<1>. SUFFICES ASSUME IInv, [Next]_vars PROVE TearsDownForCause'
  OBVIOUS
<1>. USE WindowsAssumption, ThreadNames
      DEF IInv, TypeOK, ThreadsConsistent, NewClientIsFree, DisconnectsForCause,
          TearsDownForCause, Aborting, TearingDown, Resumes
<1>1. ASSUME NEW t \in Threads, Acquire(t) PROVE TearsDownForCause'
  BY <1>1 DEF Acquire, Go, clientVars, videoVars
<1>2. ASSUME NEW t \in Threads, SendFails(t) PROVE TearsDownForCause'
  BY <1>2 DEF SendFails, Resume, Go, clientVars, videoVars
<1>3. ASSUME NEW t \in Threads, Disconnect(t) PROVE TearsDownForCause'
  BY <1>3 DEF Disconnect, Resume, Go, videoVars
<1>4. ASSUME NEW t \in Threads, StopCapture(t) PROVE TearsDownForCause'
  BY <1>4 DEF StopCapture, Go, clientVars
<1>5. ASSUME NEW t \in Threads, DisposeEncoder(t) PROVE TearsDownForCause'
  BY <1>5 DEF DisposeEncoder, VideoEncoderDispose, Go, clientVars
<1>6. ASSUME NEW t \in Threads, Abort(t) PROVE TearsDownForCause'
  BY <1>6 DEF Abort, Resume, Go, videoVars
<1>7. ASSUME NEW t \in Threads, SendReturns(t) PROVE TearsDownForCause'
  BY <1>7 DEF SendReturns, Resume, Go, clientVars, videoVars
<1>8. ASSUME NEW c \in Clients, Connects(c) PROVE TearsDownForCause'
  BY <1>8 DEF Connects, Free, Go, videoVars
<1>9. ASSUME NEW c \in Clients, Breaks(c) PROVE TearsDownForCause'
  BY <1>9 DEF Breaks, videoVars, threadVars
<1>10. ASSUME NEW c \in Clients, Hello(c) PROVE TearsDownForCause'
  BY <1>10 DEF Hello, Go, clientVars, videoVars
<1>11. ASSUME NEW c \in Clients, CreateEncoder(c) PROVE TearsDownForCause'
  BY <1>11 DEF CreateEncoder, SendThen, Go, clientVars
<1>12. ASSUME NEW c \in Clients, HelloAck(c) PROVE TearsDownForCause'
  BY <1>12 DEF HelloAck, DisconnectThen, SendThen, Go, clientVars, videoVars
<1>13. ASSUME NEW c \in Clients, StartCapture(c) PROVE TearsDownForCause'
  BY <1>13 DEF StartCapture, DisconnectThen, Go, clientVars
<1>14. ASSUME NEW c \in Clients, ReceiveEnds(c) PROVE TearsDownForCause'
  BY <1>14 DEF ReceiveEnds, DisconnectThen, Go, clientVars, videoVars
<1>15. ASSUME NEW c \in Clients, DropClient(c) PROVE TearsDownForCause'
  BY <1>15 DEF DropClient, DisconnectThen, Go, videoVars
<1>16. CASE OnClient
  BY <1>16 DEF OnClient, Go, videoVars
<1>17. CASE Install
  BY <1>17 DEF Install, videoVars
<1>18. CASE Dispose
  BY <1>18 DEF Dispose, Go, videoVars
<1>19. CASE PoolSend
  BY <1>19 DEF PoolSend, SendThen, Go, clientVars, videoVars
<1>20. ASSUME NEW k \in Captures, FeedAndStep(k) PROVE TearsDownForCause'
  BY <1>20 DEF FeedAndStep, SendThen, Go, clientVars
<1>21. ASSUME NEW k \in Captures, Unlock(k) PROVE TearsDownForCause'
  BY <1>21 DEF Unlock, Go, clientVars
<1>22. ASSUME NEW k \in Captures, CaptureEnds(k) PROVE TearsDownForCause'
  BY <1>22 DEF CaptureEnds, Go, clientVars
<1>23. ASSUME NEW k \in Captures, DisposeOwnEncoder(k) PROVE TearsDownForCause'
  BY <1>23 DEF DisposeOwnEncoder, VideoEncoderDispose, Go, clientVars
<1>24. CASE UNCHANGED vars
  BY <1>24 DEF vars, clientVars, videoVars, threadVars
<1>. QED
  BY <1>1, <1>2, <1>3, <1>4, <1>5, <1>6, <1>7, <1>8,
     <1>9, <1>10, <1>11, <1>12, <1>13, <1>14, <1>15, <1>16,
     <1>17, <1>18, <1>19, <1>20, <1>21, <1>22, <1>23, <1>24
     DEF Next, ThreadStep, ReceiverStep

\* No step leaves a third socket open.
LEMMA OpenStep == IInv /\ [Next]_vars => OpenIsCurrentOrNew'
<1>. SUFFICES ASSUME IInv, [Next]_vars PROVE OpenIsCurrentOrNew'
  OBVIOUS
<1>. USE WindowsAssumption, ThreadNames
      DEF IInv, TypeOK, ThreadsConsistent, NewClientIsFree, OpenIsCurrentOrNew, TearingDown
<1>1. ASSUME NEW t \in Threads, Acquire(t) PROVE OpenIsCurrentOrNew'
  BY <1>1 DEF Acquire, Go, clientVars, videoVars
<1>2. ASSUME NEW t \in Threads, SendFails(t) PROVE OpenIsCurrentOrNew'
  BY <1>2 DEF SendFails, Resume, Go, clientVars, videoVars
<1>3. ASSUME NEW t \in Threads, Disconnect(t) PROVE OpenIsCurrentOrNew'
  BY <1>3 DEF Disconnect, Resume, Go, videoVars
<1>4. ASSUME NEW t \in Threads, StopCapture(t) PROVE OpenIsCurrentOrNew'
  BY <1>4 DEF StopCapture, Go, clientVars
<1>5. ASSUME NEW t \in Threads, DisposeEncoder(t) PROVE OpenIsCurrentOrNew'
  BY <1>5 DEF DisposeEncoder, VideoEncoderDispose, Go, clientVars
<1>6. ASSUME NEW t \in Threads, Abort(t) PROVE OpenIsCurrentOrNew'
  BY <1>6 DEF Abort, Resume, Go, videoVars
<1>7. ASSUME NEW t \in Threads, SendReturns(t) PROVE OpenIsCurrentOrNew'
  BY <1>7 DEF SendReturns, Resume, Go, clientVars, videoVars
<1>8. ASSUME NEW c \in Clients, Connects(c) PROVE OpenIsCurrentOrNew'
  BY <1>8 DEF Connects, Free, Go, videoVars
<1>9. ASSUME NEW c \in Clients, Breaks(c) PROVE OpenIsCurrentOrNew'
  BY <1>9 DEF Breaks, videoVars, threadVars
<1>10. ASSUME NEW c \in Clients, Hello(c) PROVE OpenIsCurrentOrNew'
  BY <1>10 DEF Hello, Go, clientVars, videoVars
<1>11. ASSUME NEW c \in Clients, CreateEncoder(c) PROVE OpenIsCurrentOrNew'
  BY <1>11 DEF CreateEncoder, SendThen, Go, clientVars
<1>12. ASSUME NEW c \in Clients, HelloAck(c) PROVE OpenIsCurrentOrNew'
  BY <1>12 DEF HelloAck, DisconnectThen, SendThen, Go, clientVars, videoVars
<1>13. ASSUME NEW c \in Clients, StartCapture(c) PROVE OpenIsCurrentOrNew'
  BY <1>13 DEF StartCapture, DisconnectThen, Go, clientVars
<1>14. ASSUME NEW c \in Clients, ReceiveEnds(c) PROVE OpenIsCurrentOrNew'
  BY <1>14 DEF ReceiveEnds, DisconnectThen, Go, clientVars, videoVars
<1>15. ASSUME NEW c \in Clients, DropClient(c) PROVE OpenIsCurrentOrNew'
  BY <1>15 DEF DropClient, DisconnectThen, Go, videoVars
<1>16. CASE OnClient
  BY <1>16 DEF OnClient, Go, videoVars
<1>17. CASE Install
  BY <1>17 DEF Install, videoVars
<1>18. CASE Dispose
  BY <1>18 DEF Dispose, Go, videoVars
<1>19. CASE PoolSend
  BY <1>19 DEF PoolSend, SendThen, Go, clientVars, videoVars
<1>20. ASSUME NEW k \in Captures, FeedAndStep(k) PROVE OpenIsCurrentOrNew'
  BY <1>20 DEF FeedAndStep, SendThen, Go, clientVars
<1>21. ASSUME NEW k \in Captures, Unlock(k) PROVE OpenIsCurrentOrNew'
  BY <1>21 DEF Unlock, Go, clientVars
<1>22. ASSUME NEW k \in Captures, CaptureEnds(k) PROVE OpenIsCurrentOrNew'
  BY <1>22 DEF CaptureEnds, Go, clientVars
<1>23. ASSUME NEW k \in Captures, DisposeOwnEncoder(k) PROVE OpenIsCurrentOrNew'
  BY <1>23 DEF DisposeOwnEncoder, VideoEncoderDispose, Go, clientVars
<1>24. CASE UNCHANGED vars
  BY <1>24 DEF vars, clientVars, videoVars, threadVars
<1>. QED
  BY <1>1, <1>2, <1>3, <1>4, <1>5, <1>6, <1>7, <1>8,
     <1>9, <1>10, <1>11, <1>12, <1>13, <1>14, <1>15, <1>16,
     <1>17, <1>18, <1>19, <1>20, <1>21, <1>22, <1>23, <1>24
     DEF Next, ThreadStep, ReceiverStep

\* Every step keeps the invariant.
LEMMA Step == IInv /\ [Next]_vars => IInv'
BY TypeStep, ThreadsStep, NewClientStep, EncoderStep, DisconnectsStep, TearsDownStep,
   OpenStep DEF IInv

-----------------------------------------------------------------------------
(* The theorems                                                            *)

\* The invariant holds at first.
LEMMA InitIInv == Init => IInv
<1>. SUFFICES ASSUME Init PROVE IInv
  OBVIOUS
<1>. USE WindowsAssumption, ThreadNames DEF Init
<1>1. TypeOK
  BY DEF TypeOK, PCs
<1>2. ThreadsConsistent /\ NewClientIsFree
  BY DEF ThreadsConsistent, NewClientIsFree, TearingDown, InSendOrDisconnect, Resumes
<1>3. EncoderTakenByTeardown /\ DisconnectsForCause /\ TearsDownForCause
  BY DEF EncoderTakenByTeardown, DisconnectsForCause, TearsDownForCause, TearingDown
<1>4. OpenIsCurrentOrNew
  BY DEF OpenIsCurrentOrNew
<1>. QED BY <1>1, <1>2, <1>3, <1>4 DEF IInv

\* So it holds always.
LEMMA Invariance == Spec => []IInv
BY InitIInv, Step, PTL DEF Spec

\* Every reachable state has the declared types; _gate is held by the one thread that is
\* in a Teardown or installs a client, and _sendLock by the one that sends or that
\* disconnects the client its send has failed for.
THEOREM TypeCorrect == Spec => []TypeOK
<1>1. IInv => TypeOK
  BY DEF IInv
<1>. QED BY <1>1, Invariance, PTL

\* When the gate is free, no socket is open but the current client's and the one
\* that the accept loop brings: Teardown aborts what it replaces (OnClient,
\* Disconnect).
THEOREM OthersAreClosed == Spec => []OnlyCurrentClientOpen
<1>1. IInv => OnlyCurrentClientOpen
  BY DEF IInv, OpenIsCurrentOrNew, OnlyCurrentClientOpen
<1>. QED BY <1>1, Invariance, PTL

\* No thread but the accept loop and the tray takes the gate for a Teardown, unless the
\* client that is there is broken, has sent what the host drops it for, or the server is
\* disposed of: a send or a receive of an earlier client that fails late never ends the
\* present one (Disconnect's comparison, under the gate).
THEOREM ClientsEndForCause == Spec => EndsForCause
<1>. DEFINE Cause == gate' # gate /\ gate' \notin {None, Accept, Tray} =>
                       ws \notin alive \/ ws \in faulty \/ disposed
<1>1. IInv /\ [Next]_vars => [Cause]_vars
  <2>. SUFFICES ASSUME IInv, [Next]_vars, gate' # gate, gate' \notin {None, Accept, Tray}
                PROVE  ws \notin alive \/ ws \in faulty \/ disposed
    OBVIOUS
  <2>1. PICK t \in Threads \ {Accept} : Disconnect(t) /\ gate' = t
    BY ThreadNames
    DEF Next, ThreadStep, ReceiverStep, Acquire, SendFails, SendReturns, Disconnect,
        StopCapture,
        DisposeEncoder, DisposeOwnEncoder, VideoEncoderDispose, Abort, Connects, Breaks, Hello,
        CreateEncoder, HelloAck, StartCapture, ReceiveEnds, DropClient, OnClient, Install,
        Dispose, PoolSend, FeedAndStep, Unlock, CaptureEnds, vars, clientVars
  <2>2. pc[t] = "gate" /\ gate = None /\ ws = target[t]
    BY <2>1 DEF Disconnect
  <2>3. ~Aborting
    BY <2>2, WindowsAssumption, ThreadNames DEF IInv, TypeOK, Aborting
  <2>. QED BY <2>1, <2>2, <2>3 DEF IInv, DisconnectsForCause
<1>2. Spec => [][Cause]_vars
  BY <1>1, Invariance, PTL DEF Spec
<1>. QED BY <1>2 DEF EndsForCause
=============================================================================
