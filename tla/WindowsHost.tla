------------------------------ MODULE WindowsHost ------------------------------
(***************************************************************************)
(* StreamServer of the Windows host: one client at a time, whose HELLO     *)
(* starts an encoder and a capture.                                        *)
(*                                                                         *)
(* Its threads take three locks. _gate guards the client: the accept loop  *)
(* holds it to replace the client, a failed send or receive to disconnect  *)
(* it, the tray to dispose of the server; each of them runs Teardown under *)
(* it. _sendLock is held for a send, and after a failed one until the      *)
(* client is disconnected. An encoder's _lock is held by the capture while *)
(* it feeds a frame, what is sent from there included, and by Teardown to  *)
(* dispose of it.                                                          *)
(***************************************************************************)
EXTENDS Integers, FiniteSets

CONSTANTS
  Clients,     \* WebSockets (a name is used again when it is free)
  Captures,    \* DisplayCaptures, with their threads
  Encoders,    \* VideoEncoders
  None

Accept == <<"accept", None>>
Tray == <<"tray", None>>
Sender == <<"sender", None>>     \* the pool, for sends that nobody waits for
Receiver(c) == <<"receiver", c>>
Capture(k) == <<"capture", k>>

Receivers == {Receiver(c) : c \in Clients}
CaptureThreads == {Capture(k) : k \in Captures}
Threads == {Accept, Tray, Sender} \cup Receivers \cup CaptureThreads

ASSUME WindowsAssumption ==
  /\ None \notin Clients \cup Captures \cup Encoders \cup Threads

VARIABLES
  ws,          \* _ws
  alive,       \* clients whose connection is neither broken nor aborted
  faulty,      \* history: clients that the host drops for what they have sent
  gate,        \* the thread that holds _gate, or None
  sendLock,    \* the thread whose send holds _sendLock, or None
  encoder,     \* _encoder
  capture,     \* _capture
  running,     \* captures that have not been told to stop
  feeds,       \* of each capture, its encoder, or None once that is disposed of
  owner,       \* of each encoder, the capture that holds its _lock
  disposed,    \* _life is cancelled
  pc,          \* of each thread
  target,      \* of each thread: the client it sends to, disconnects or installs
  resume       \* of each thread: where it goes on after a send

clientVars == <<ws, alive, faulty, gate>>
videoVars == <<encoder, capture, running, feeds, owner>>
threadVars == <<sendLock, pc, target, resume>>
vars == <<clientVars, videoVars, disposed, threadVars>>

PCs == {"idle", "reading", "serving", "create", "ack", "start", "unlock",
        "waiting", "sending", "gate", "stop", "dispose", "abort", "install"}

TypeOK ==
  /\ ws \in Clients \cup {None}
  /\ alive \subseteq Clients /\ faulty \subseteq Clients
  /\ gate \in Threads \cup {None} /\ sendLock \in Threads \cup {None}
  /\ encoder \in Encoders \cup {None}
  /\ capture \in Captures \cup {None}
  /\ running \subseteq Captures
  /\ feeds \in [Captures -> Encoders \cup {None}]
  /\ owner \in [Encoders -> Captures \cup {None}]
  /\ disposed \in BOOLEAN
  /\ pc \in [Threads -> PCs]
  /\ target \in [Threads -> Clients \cup {None}]
  /\ resume \in [Threads -> PCs]
  /\ \A t \in Threads : gate = t <=> pc[t] \in {"stop", "dispose", "abort", "install"}
  /\ \A t \in Threads :
       /\ pc[t] = "sending" => sendLock = t
       /\ sendLock = t => pc[t] \in {"sending", "gate", "stop", "dispose", "abort"}

Init ==
  /\ ws = None /\ alive = {} /\ faulty = {} /\ gate = None /\ sendLock = None
  /\ encoder = None /\ capture = None /\ running = {}
  /\ feeds = [k \in Captures |-> None]
  /\ owner = [e \in Encoders |-> None]
  /\ disposed = FALSE
  /\ pc = [t \in Threads |-> "idle"]
  /\ target = [t \in Threads |-> None]
  /\ resume = [t \in Threads |-> "idle"]

Go(t, l) == pc' = [pc EXCEPT ![t] = l]

-----------------------------------------------------------------------------
(* Sending, and Disconnect                                                 *)

\* Send: thread t takes the client there is now, waits for its turn to send, and goes
\* on at l.
SendThen(t, l) ==
  IF ws = None
  THEN /\ Go(t, l)
       /\ UNCHANGED <<target, resume>>
  ELSE /\ Go(t, "waiting")
       /\ target' = [target EXCEPT ![t] = ws]
       /\ resume' = [resume EXCEPT ![t] = l]

\* Disconnect(c) by thread t, which then goes on at l.
DisconnectThen(t, c, l) ==
  /\ Go(t, "gate")
  /\ target' = [target EXCEPT ![t] = c]
  /\ resume' = [resume EXCEPT ![t] = l]

\* What a thread forgets when a send or a Disconnect is over. A send gives its lock back.
Resume(t) ==
  /\ Go(t, resume[t])
  /\ target' = [target EXCEPT ![t] = None]
  /\ resume' = [resume EXCEPT ![t] = "idle"]
  /\ sendLock' = IF sendLock = t THEN None ELSE sendLock

\* A frame, a sound or a cursor position is sent, and nobody waits for that.
PoolSend ==
  /\ pc[Sender] = "idle"
  /\ ws # None
  /\ SendThen(Sender, "idle")
  /\ UNCHANGED <<clientVars, videoVars, disposed, sendLock>>

\* The send's turn.
Acquire(t) ==
  /\ pc[t] = "waiting" /\ sendLock = None
  /\ sendLock' = t
  /\ Go(t, "sending")
  /\ UNCHANGED <<clientVars, videoVars, disposed, target, resume>>

\* The send succeeds.
SendReturns(t) ==
  /\ pc[t] = "sending"
  /\ target[t] \in alive
  /\ Resume(t)
  /\ UNCHANGED <<clientVars, videoVars, disposed>>

\* The send fails. If the socket is known to be closed already, that is all; if it
\* throws, the client is disconnected before _sendLock is given back, and whoever
\* waits for the send waits for that, with the locks that it holds.
SendFails(t) ==
  /\ pc[t] = "sending"
  /\ target[t] \notin alive
  /\ \/ Resume(t)
     \/ Go(t, "gate") /\ UNCHANGED <<sendLock, target, resume>>
  /\ UNCHANGED <<clientVars, videoVars, disposed>>

\* Mutant: whatever client there is now is torn down.
DisconnectAny(t) ==
  /\ t # Accept
  /\ pc[t] = "gate" /\ gate = None
  /\ IF ws = None
     THEN Resume(t) /\ UNCHANGED gate
     ELSE gate' = t /\ Go(t, "stop") /\ UNCHANGED <<sendLock, target, resume>>
  /\ UNCHANGED <<ws, alive, faulty, videoVars, disposed>>

\* Mutant: the gate is not waited for.
DisconnectUnlocked(t) ==
  /\ t # Accept
  /\ pc[t] = "gate"
  /\ IF ws # target[t]
     THEN Resume(t) /\ UNCHANGED gate
     ELSE gate' = t /\ Go(t, "stop") /\ UNCHANGED <<sendLock, target, resume>>
  /\ UNCHANGED <<ws, alive, faulty, videoVars, disposed>>

\* Disconnect takes the gate and returns if the client is not the current one.
Disconnect(t) ==
  /\ t # Accept
  /\ pc[t] = "gate" /\ gate = None
  /\ IF ws # target[t]
     THEN Resume(t) /\ UNCHANGED gate
     ELSE gate' = t /\ Go(t, "stop") /\ UNCHANGED <<sendLock, target, resume>>
  /\ UNCHANGED <<ws, alive, faulty, videoVars, disposed>>

-----------------------------------------------------------------------------
(* Teardown, under the gate                                                *)

\* The client's receive is cancelled: see ReceiveCancelled. DisplayCapture.Dispose: the
\* thread is told to stop and joined, for 2 s at most.
StopCapture(t) ==
  /\ pc[t] = "stop"
  /\ running' = running \ {capture}
  /\ capture' = None
  /\ Go(t, "dispose")
  /\ UNCHANGED <<clientVars, encoder, feeds, owner, disposed, sendLock, target, resume>>

\* VideoEncoder.Dispose.
VideoEncoderDispose(t) ==
  /\ pc[t] = "dispose"
  /\ feeds' = [k \in Captures |-> IF feeds[k] = encoder THEN None ELSE feeds[k]]
  /\ encoder' = None
  /\ Go(t, "abort")
  /\ UNCHANGED <<clientVars, capture, running, owner, disposed, sendLock, target, resume>>

\* It waits for the encoder's lock,
DisposeEncoder(t) ==
  /\ encoder # None => owner[encoder] = None
  /\ VideoEncoderDispose(t)

\* or runs on the thread of the capture that holds it, whose send has failed at once
\* and not on the pool.
DisposeOwnEncoder(k) ==
  /\ encoder # None /\ owner[encoder] = k
  /\ VideoEncoderDispose(Capture(k))

\* Last of all the socket. The accept loop keeps the gate for its new client.
Abort(t) ==
  /\ pc[t] = "abort"
  /\ ws' = None
  /\ alive' = alive \ {ws}
  /\ IF t = Accept
     THEN Go(t, "install") /\ UNCHANGED <<gate, sendLock, target, resume>>
     ELSE Resume(t) /\ gate' = None
  /\ UNCHANGED <<faulty, videoVars, disposed>>

-----------------------------------------------------------------------------
(* The accept loop and the tray                                            *)

\* A socket that no thread refers to.
Free(c) ==
  /\ c # ws /\ c \notin alive
  /\ \A t \in Threads : target[t] # c
  /\ pc[Receiver(c)] = "idle"

\* OnClient is called for a new client.
Connects(c) ==
  /\ ~disposed
  /\ pc[Accept] = "idle"
  /\ Free(c)
  /\ alive' = alive \cup {c}
  /\ faulty' = faulty \ {c}
  /\ Go(Accept, "gate")
  /\ target' = [target EXCEPT ![Accept] = c]
  /\ UNCHANGED <<ws, gate, videoVars, disposed, sendLock, resume>>

\* Mutant: the old client is not torn down first.
OnClientOverwrites ==
  /\ pc[Accept] = "gate" /\ gate = None
  /\ gate' = Accept
  /\ Go(Accept, "install")
  /\ UNCHANGED <<ws, alive, faulty, videoVars, disposed, sendLock, target, resume>>

OnClient ==
  /\ pc[Accept] = "gate" /\ gate = None
  /\ gate' = Accept
  /\ Go(Accept, IF ws = None THEN "install" ELSE "stop")
  /\ UNCHANGED <<ws, alive, faulty, videoVars, disposed, sendLock, target, resume>>

Install ==
  /\ pc[Accept] = "install"
  /\ ws' = target[Accept]
  /\ gate' = None
  /\ pc' = [pc EXCEPT ![Accept] = "idle", ![Receiver(ws')] = "reading"]
  /\ target' = [target EXCEPT ![Accept] = None]
  /\ UNCHANGED <<alive, faulty, videoVars, disposed, sendLock, resume>>

\* StopServing: _life is cancelled, then Teardown under the gate.
Dispose ==
  /\ ~disposed
  /\ gate = None
  /\ disposed' = TRUE
  /\ gate' = Tray
  /\ Go(Tray, "stop")
  /\ UNCHANGED <<ws, alive, faulty, videoVars, sendLock, target, resume>>

-----------------------------------------------------------------------------
(* A client's receive loop                                                 *)

\* A HELLO is dispatched, whether the client is still the current one or not.
\* (One of each client, and of as many clients at a time as there are captures.)
Hello(c) ==
  /\ pc[Receiver(c)] = "reading"
  /\ c \in alive
  /\ Cardinality({k \in Captures : pc[Capture(k)] # "idle"})
       + Cardinality({b \in Clients : pc[Receiver(b)] \in {"create", "ack", "start"}
                                       \/ resume[Receiver(b)] = "start"})
       < Cardinality(Captures)
  /\ Go(Receiver(c), "create")
  /\ UNCHANGED <<clientVars, videoVars, disposed, sendLock, target, resume>>

\* VideoEncoder.Create succeeds, or fails and only the HELLO_ACK is sent.
CreateEncoder(c) ==
  /\ pc[Receiver(c)] = "create"
  /\ \/ \E e \in Encoders :
          /\ e # encoder /\ owner[e] = None /\ \A k \in Captures : feeds[k] # e
          /\ encoder' = e
          /\ Go(Receiver(c), "ack")
          /\ UNCHANGED <<target, resume>>
     \/ /\ UNCHANGED encoder
        /\ SendThen(Receiver(c), "serving")
  /\ UNCHANGED <<clientVars, capture, running, feeds, owner, disposed, sendLock>>

\* HELLO_ACK and the status are sent. If a Teardown has come in between, reading
\* the encoder throws and the receive loop ends.
HelloAck(c) ==
  /\ pc[Receiver(c)] = "ack"
  /\ IF encoder = None
     THEN DisconnectThen(Receiver(c), c, "idle")
     ELSE SendThen(Receiver(c), "start")
  /\ UNCHANGED <<clientVars, videoVars, disposed, sendLock>>

\* The capture is started. Without an encoder its thread throws at the first
\* frame, and so does the receive loop.
StartCapture(c) ==
  /\ pc[Receiver(c)] = "start"
  /\ \E k \in Captures :
       /\ pc[Capture(k)] = "idle"
       /\ capture' = k
       /\ feeds' = [feeds EXCEPT ![k] = encoder]
       /\ IF encoder = None
          THEN /\ DisconnectThen(Receiver(c), c, "idle")
               /\ UNCHANGED running
          ELSE /\ pc' = [pc EXCEPT ![Receiver(c)] = "serving", ![Capture(k)] = "serving"]
               /\ running' = running \cup {k}
               /\ UNCHANGED <<target, resume>>
  /\ UNCHANGED <<clientVars, encoder, owner, disposed, sendLock>>

\* Mutant: the receive loop just ends.
ReceiveEndsQuietly(c) ==
  /\ pc[Receiver(c)] \in {"reading", "serving"}
  /\ c \notin alive \/ disposed
  /\ Go(Receiver(c), "idle")
  /\ UNCHANGED <<clientVars, videoVars, disposed, sendLock, target, resume>>

\* The client closes, a receive fails or is cancelled.
ReceiveEnds(c) ==
  /\ pc[Receiver(c)] \in {"reading", "serving"}
  /\ c \notin alive \/ disposed
  /\ DisconnectThen(Receiver(c), c, "idle")
  /\ UNCHANGED <<clientVars, videoVars, disposed, sendLock>>

\* A message is too large, or dispatching it throws: the client is dropped.
DropClient(c) ==
  /\ pc[Receiver(c)] \in {"reading", "serving"}
  /\ c \in alive
  /\ faulty' = faulty \cup {c}
  /\ DisconnectThen(Receiver(c), c, "idle")
  /\ UNCHANGED <<ws, alive, gate, videoVars, disposed, sendLock>>

\* Teardown, or the end of _life, has cancelled the receive that the client's loop is in,
\* and a receive that is cancelled aborts the socket.
ReceiveCancelled(c) ==
  /\ pc[Receiver(c)] \in {"reading", "serving"}
  /\ \/ disposed
     \/ ws = c /\ (\E t \in Threads : pc[t] \in {"dispose", "abort"})

Breaks(c) ==
  /\ c \in alive
  /\ alive' = alive \ {c}
  /\ UNCHANGED <<ws, faulty, gate, videoVars, disposed, threadVars>>

-----------------------------------------------------------------------------
(* A capture's thread                                                      *)

\* A frame is fed, and sent (PoolSend); the bitrate is stepped, and the capture waits
\* for the status to be sent, with the encoder's lock.
FeedAndStep(k) ==
  /\ pc[Capture(k)] = "serving"
  /\ k \in running
  /\ ws # None
  /\ feeds[k] # None /\ owner[feeds[k]] = None
  /\ owner' = [owner EXCEPT ![feeds[k]] = k]
  /\ SendThen(Capture(k), "unlock")
  /\ UNCHANGED <<clientVars, encoder, capture, running, feeds, disposed, sendLock>>

Unlock(k) ==
  /\ pc[Capture(k)] = "unlock"
  /\ owner' = [e \in Encoders |-> IF owner[e] = k THEN None ELSE owner[e]]
  /\ Go(Capture(k), "serving")
  /\ UNCHANGED <<clientVars, encoder, capture, running, feeds, disposed,
                 sendLock, target, resume>>

\* The loop ends, having been told to.
CaptureEnds(k) ==
  /\ pc[Capture(k)] = "serving"
  /\ k \notin running
  /\ feeds' = [feeds EXCEPT ![k] = None]
  /\ Go(Capture(k), "idle")
  /\ UNCHANGED <<clientVars, encoder, capture, running, owner, disposed,
                 sendLock, target, resume>>

-----------------------------------------------------------------------------
\* What a thread does for itself once it has begun to send or to disconnect.
ThreadStep(t) ==
  Acquire(t) \/ SendFails(t) \/ Disconnect(t)
    \/ StopCapture(t) \/ DisposeEncoder(t) \/ Abort(t)

ReceiverStep(c) ==
  CreateEncoder(c) \/ HelloAck(c) \/ StartCapture(c) \/ ReceiveEnds(c)

Next ==
  \/ \E t \in Threads : ThreadStep(t) \/ SendReturns(t)
  \/ \E c \in Clients :
       Connects(c) \/ Breaks(c) \/ Hello(c) \/ ReceiverStep(c) \/ DropClient(c)
  \/ OnClient \/ Install \/ Dispose \/ PoolSend
  \/ \E k \in Captures :
       FeedAndStep(k) \/ Unlock(k) \/ CaptureEnds(k) \/ DisposeOwnEncoder(k)

\* Every thread that can go on does, a lock does not pass over a thread for ever, and a
\* receive that is cancelled aborts its socket. A send to a client that is connected
\* need not end: nothing limits it (CancellationToken.None), and the client may not read.
Fairness ==
  /\ \A t \in {Tray, Sender} : SF_vars(ThreadStep(t))
  /\ SF_vars(ThreadStep(Accept) \/ OnClient \/ Install)
  /\ \A c \in Clients :
       /\ SF_vars(ThreadStep(Receiver(c)) \/ ReceiverStep(c))
       /\ WF_vars(ReceiveCancelled(c) /\ Breaks(c))
  /\ \A k \in Captures : SF_vars(ThreadStep(Capture(k)) \/ Unlock(k) \/ CaptureEnds(k))

Spec == Init /\ [][Next]_vars /\ Fairness

-----------------------------------------------------------------------------
(* Properties                                                              *)

\* Teardown, on thread t, waits for the encoder's lock, which capture k holds.
TeardownWaitsFor(t, k) == pc[t] = "dispose" /\ encoder # None /\ owner[encoder] = k

\* The capture's send has failed, and it waits for the gate, or, on the pool, for the
\* lock that its own thread holds.
Wedged ==
  \E t \in Threads, k \in Captures :
    TeardownWaitsFor(t, k) /\ pc[Capture(k)] \in {"gate", "dispose"}

\* The capture waits for its turn to send, and the send before it has failed: it waits
\* for the gate, or is what tears down.
WedgedBySend ==
  \E t \in Threads, k \in Captures :
    /\ TeardownWaitsFor(t, k) /\ pc[Capture(k)] = "waiting"
    /\ sendLock # None /\ pc[sendLock] \in {"gate", "dispose"}

\* However late a receive or a send of an earlier client fails: a client is only torn
\* down when its own connection is broken, for what it has sent, when another client
\* replaces it, or when the server is disposed of.
EndsForCause ==
  [][gate' # gate /\ gate' \notin {None, Accept, Tray} =>
       ws \notin alive \/ ws \in faulty \/ disposed]_vars

\* The replaced or disconnected client's socket does not stay open, so that its
\* viewer notices.
OnlyCurrentClientOpen ==
  gate = None => alive \subseteq {ws, target[Accept]}

\* A send to a client that stays connected and does not read.
Unread == sendLock # None /\ pc[sendLock] = "sending" /\ target[sendLock] \in alive

\* A client that is gone or to be dropped does not remain for ever, and neither does the
\* accept loop wait for ever with a new one, unless the locks are waiting for each other
\* or one send never ends.
ClientsTurnOver ==
  \/ <>[]Unread
  \/ /\ []<>(ws = None \/ ws \in alive \ faulty \/ Wedged \/ WedgedBySend)
     /\ []<>(pc[Accept] = "idle" \/ Wedged \/ WedgedBySend)

\* "a new connection replaces the old one": the gate is never held for ever.
NeverWedged == ~Wedged

\* "Returns false if the send failed (client gone)": a send whose client is gone returns.
NeverWedgedBySend == ~WedgedBySend
=============================================================================
