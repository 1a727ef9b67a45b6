------------------------------- MODULE RdpClient -------------------------------
(***************************************************************************)
(* RDPSession and RDPBridgeSession: a remote desktop of the viewer, and    *)
(* the thread that each connection to one runs on.                         *)
(*                                                                         *)
(* The thread allocates FreeRDP's context, connects, asks the user for a   *)
(* certificate it cannot verify (and waits for the answer), serves the     *)
(* stream and frees the context. Whatever it has to tell is posted to the  *)
(* main queue. The main thread replaces and drops connections without      *)
(* waiting for their threads, so that several of them may be under way.    *)
(***************************************************************************)
EXTENDS Naturals, Sequences

CONSTANTS
  Sessions,    \* RDPBridgeSessions (a name is used again when it is free)
  None,
  MaxFrames    \* bound: frames that are posted and not delivered

ASSUME RdpAssumption ==
  /\ None \notin Sessions
  /\ MaxFrames \in Nat

VARIABLES
  status,      \* of RDPSession
  frame,       \* the session whose framebuffer is shown, or None
  bridge,      \* the session that RDPSession has, or None
  call,        \* what the main thread is about to do with a context it has looked up
  pending,     \* the session whose certificate the alert is about, or None
  posted,      \* what the threads have posted to the main queue
  pc,          \* of each session, its connection thread
  stopping,    \* sessions with `stopping` set
  error,       \* of each session, whether it ends with an error message
  misused      \* history: a call went to a context that was freed

mainVars == <<status, frame, bridge, call, pending>>
threadVars == <<pc, stopping, error>>
vars == <<mainVars, posted, threadVars, misused>>

Statuses == {"idle", "connecting", "streaming", "failed"}
Kinds == {"connected", "frame", "prompt", "ended"}
Calls == [op : {"abort", "input"}, of : Sessions]

\* Where a thread has its context, and where `instance` leads there.
WithContext ==
  {"connecting", "verifying", "trusted", "refused", "connected", "running", "closing"}
WithInstance == WithContext \cup {"freed"}
PCs == WithInstance \cup {"none", "starting", "reporting"}

Init ==
  /\ status = "idle" /\ frame = None /\ bridge = None
  /\ call = None /\ pending = None
  /\ posted = <<>>
  /\ pc = [b \in Sessions |-> "none"]
  /\ stopping = {}
  /\ error = [b \in Sessions |-> FALSE]
  /\ misused = FALSE

Post(kind, b) == posted' = Append(posted, [kind |-> kind, of |-> b])
Go(b, l) == pc' = [pc EXCEPT ![b] = l]

\* The posts of a kind that are still to be delivered for session b.
Posted(kind, b) == \E i \in DOMAIN posted : posted[i] = [kind |-> kind, of |-> b]

-----------------------------------------------------------------------------
(* The main thread                                                         *)

\* No thread, closure or alert refers to the session.
Free(b) ==
  /\ b # bridge /\ b # pending /\ b # frame
  /\ pc[b] = "none"
  /\ \A i \in DOMAIN posted : posted[i].of # b

\* stop: the flag is set, and a context that is found is going to be aborted.
\* (Looking it up already reads memory that may have been freed.)
Stopped == IF bridge = None THEN stopping ELSE stopping \cup {bridge}
Abort ==
  /\ IF bridge # None /\ pc[bridge] \in WithInstance
     THEN /\ call' = [op |-> "abort", of |-> bridge]
          /\ misused' = (misused \/ pc[bridge] = "freed")
     ELSE UNCHANGED <<call, misused>>

\* connect, from the form, which is there when idle and has no alert in front of it:
\* disconnect(), then a new session, whose thread starts once the context of the old
\* one has been aborted.
Connect(b) ==
  /\ call = None /\ pending = None
  /\ status = "idle"
  /\ Free(b)
  /\ Abort
  /\ stopping' = Stopped \ {b}
  /\ error' = [error EXCEPT ![b] = FALSE]
  /\ bridge' = b /\ status' = "connecting" /\ frame' = None
  /\ pc' = [pc EXCEPT ![b] = IF call' = None THEN "starting" ELSE "none"]
  /\ UNCHANGED <<pending, posted>>

\* disconnect, from the cross of the stream's view, which is there unless idle.
Disconnect ==
  /\ call = None /\ pending = None
  /\ status # "idle"
  /\ Abort
  /\ stopping' = Stopped
  /\ bridge' = None /\ status' = "idle" /\ frame' = None
  /\ UNCHANGED <<pending, posted, pc, error>>

\* sendMouseMoveX, sendMouseButton, sendScrollDeltaY, sendScancode: dropped unless
\* there is a context.
Input ==
  /\ call = None /\ pending = None
  /\ status # "idle"
  /\ bridge # None /\ pc[bridge] \in WithInstance
  /\ call' = [op |-> "input", of |-> bridge]
  /\ misused' = (misused \/ pc[bridge] = "freed")
  /\ UNCHANGED <<status, frame, bridge, pending, posted, threadVars>>

\* The call is made: freerdp_input_send_*, or freerdp_abort_connect_context, after
\* which connect() starts its thread.
UseContext ==
  /\ call # None
  /\ call' = None
  /\ misused' = (misused \/ pc[call.of] \notin WithContext)
  /\ IF call.op = "abort" /\ bridge # None
     THEN Go(bridge, "starting")
     ELSE UNCHANGED pc
  /\ UNCHANGED <<status, frame, bridge, pending, posted, stopping, error>>

\* The main queue runs a closure, whichever session it is from.
Deliver ==
  /\ call = None /\ posted # <<>>
  /\ posted' = Tail(posted)
  /\ LET m == Head(posted) IN
     /\ status' = CASE m.kind = "connected" -> "streaming"
                    [] m.kind = "ended" -> IF error[m.of] THEN "failed" ELSE "idle"
                    [] OTHER -> status
     /\ frame' = CASE m.kind = "frame" -> m.of
                   [] m.kind = "ended" -> None
                   [] OTHER -> frame
     /\ pending' = IF m.kind = "prompt" THEN m.of ELSE pending
  /\ UNCHANGED <<bridge, call, threadVars, misused>>

\* Mutant: the alert stays when it has been answered.
AnswerKeepsAlert ==
  /\ call = None /\ pending # None
  /\ \E l \in {"trusted", "refused"} : Go(pending, l)
  /\ UNCHANGED <<status, frame, bridge, call, pending, posted, stopping, error, misused>>

\* The alert's Trust or Cancel, which signals the thread's semaphore.
Answer ==
  /\ call = None /\ pending # None
  /\ \E l \in {"trusted", "refused"} : Go(pending, l)
  /\ pending' = None
  /\ UNCHANGED <<status, frame, bridge, call, posted, stopping, error, misused>>

-----------------------------------------------------------------------------
(* The thread of session b                                                 *)

\* Mutant: the thread resets `stopping`, as `start` has done before.
SetUpUnstopped(b) ==
  /\ pc[b] = "starting"
  /\ stopping' = stopping \ {b}
  /\ \/ Go(b, "connecting") /\ UNCHANGED error
     \/ Go(b, "reporting") /\ error' = [error EXCEPT ![b] = TRUE]
  /\ UNCHANGED <<mainVars, posted, misused>>

\* The context is allocated and set up, and `instance` set; or that fails.
SetUp(b) ==
  /\ pc[b] = "starting"
  /\ \/ Go(b, "connecting") /\ UNCHANGED error
     \/ Go(b, "reporting") /\ error' = [error EXCEPT ![b] = TRUE]
  /\ UNCHANGED <<mainVars, posted, stopping, misused>>

\* clamshell_verify_certificate_ex asks, and waits on a semaphore for the answer.
VerifyCertificate(b) ==
  /\ pc[b] = "connecting"
  /\ Go(b, "verifying")
  /\ Post("prompt", b)
  /\ UNCHANGED <<mainVars, stopping, error, misused>>

\* clamshell_post_connect, when the handshake is complete.
PostConnect(b) ==
  /\ pc[b] \in {"connecting", "trusted"}
  /\ Go(b, "connected")
  /\ Post("connected", b)
  /\ UNCHANGED <<mainVars, stopping, error, misused>>

ConnectReturns(b) ==
  /\ pc[b] = "connected"
  /\ Go(b, "running")
  /\ UNCHANGED <<mainVars, posted, stopping, error, misused>>

\* freerdp_connect fails, or is aborted: the context is freed.
ConnectFails(b) ==
  /\ pc[b] \in {"connecting", "trusted", "refused", "connected"}
  /\ Go(b, "freed")
  /\ error' = [error EXCEPT ![b] = TRUE]
  /\ UNCHANGED <<mainVars, posted, stopping, misused>>

\* clamshell_end_paint, from the loop.
EndPaint(b) ==
  /\ pc[b] = "running"
  /\ Len(SelectSeq(posted, LAMBDA m : m.kind = "frame")) < MaxFrames
  /\ Post("frame", b)
  /\ UNCHANGED <<mainVars, threadVars, misused>>

\* The loop ends: it has been stopped, or the connection is over. In the latter
\* case there is an error message, or there is none that FreeRDP knows.
LoopEnds(b) ==
  /\ pc[b] = "running"
  /\ Go(b, "closing")
  /\ \E e \in BOOLEAN :
       /\ e => b \notin stopping
       /\ error' = [error EXCEPT ![b] = e]
  /\ UNCHANGED <<mainVars, posted, stopping, misused>>

\* freerdp_disconnect and freerdp_client_context_free.
FreeContext(b) ==
  /\ pc[b] = "closing"
  /\ Go(b, "freed")
  /\ UNCHANGED <<mainVars, posted, stopping, error, misused>>

ClearInstance(b) ==
  /\ pc[b] = "freed"
  /\ Go(b, "reporting")
  /\ UNCHANGED <<mainVars, posted, stopping, error, misused>>

\* Mutant: a session that was stopped has nobody to report to.
ReportUnlessStopped(b) ==
  /\ pc[b] = "reporting"
  /\ IF b \in stopping THEN UNCHANGED posted ELSE Post("ended", b)
  /\ Go(b, "none")
  /\ UNCHANGED <<mainVars, stopping, error, misused>>

\* reportDisconnected, and the thread is over.
ReportDisconnected(b) ==
  /\ pc[b] = "reporting"
  /\ Post("ended", b)
  /\ Go(b, "none")
  /\ UNCHANGED <<mainVars, stopping, error, misused>>

-----------------------------------------------------------------------------
ConnectStep(b) ==
  SetUp(b) \/ VerifyCertificate(b) \/ PostConnect(b) \/ ConnectReturns(b) \/ ConnectFails(b)
EndStep(b) == FreeContext(b) \/ ClearInstance(b) \/ ReportDisconnected(b)

Next ==
  \/ \E b \in Sessions : Connect(b)
  \/ Disconnect \/ Input \/ UseContext \/ Deliver \/ Answer
  \/ \E b \in Sessions : ConnectStep(b) \/ EndPaint(b) \/ LoopEnds(b) \/ EndStep(b)

\* The main thread goes on, input does not keep the main queue from its closures, and
\* the user answers an alert. freerdp_connect returns,
\* whether it is aborted or not, and a loop that has been stopped ends; one that
\* has not may serve for ever.
Fairness ==
  /\ WF_vars(UseContext) /\ SF_vars(Deliver) /\ SF_vars(Answer)
  /\ \A b \in Sessions :
       /\ WF_vars(ConnectStep(b)) /\ WF_vars(EndStep(b))
       /\ WF_vars(b \in stopping /\ LoopEnds(b))

Spec == Init /\ [][Next]_vars /\ Fairness

-----------------------------------------------------------------------------
(* Properties                                                              *)

\* The state has its types; the main thread is not in two places; and the alert is
\* about a thread that waits for the answer.
TypeOK ==
  /\ status \in Statuses
  /\ frame \in Sessions \cup {None}
  /\ bridge \in Sessions \cup {None}
  /\ call \in Calls \cup {None}
  /\ pending \in Sessions \cup {None}
  /\ posted \in Seq([kind : Kinds, of : Sessions])
  /\ pc \in [Sessions -> PCs]
  /\ stopping \subseteq Sessions
  /\ error \in [Sessions -> BOOLEAN]
  /\ misused \in BOOLEAN
  /\ pending # None => pc[pending] = "verifying"

\* What the user sees does not outlive its cause: whenever a stream or a picture is
\* shown, a thread that has connected is there still or its end is about to be
\* delivered; and "connecting" is shown of the session that there is, which is to
\* start, connects, or is about to tell how it ended.
ShownIsBacked ==
  LET Ends(b) == pc[b] \in {"running", "closing", "freed", "reporting"} \/ Posted("ended", b) IN
  /\ status = "streaming" => \E b \in Sessions : pc[b] = "connected" \/ Ends(b)
  /\ frame # None => Ends(frame)
  /\ status = "connecting" => bridge # None /\ (call # None \/ pc[bridge] # "none"
                                                \/ Posted("ended", bridge))

\* An alert for another session has taken the place of this one's, which waits on.
Unasked(b) == pc[b] = "verifying" /\ pending # b /\ ~Posted("prompt", b)

\* Whenever a session is closed or replaced, before it has its context, while it
\* connects, asks or serves, its thread ends; and the thread of the session that
\* there is gets its stream or ends. Only a thread whose alert was replaced is left.
ThreadsSettle ==
  \A b \in Sessions :
    pc[b] # "none" ~> pc[b] = "none" \/ (pc[b] = "running" /\ bridge = b) \/ Unasked(b)

\* "Safe to call from any thread": no call goes to a context that has been freed.
ContextOutlivesCalls == ~misused

\* "Block this thread on a semaphore until RDPSession.swift's completion fires": it
\* does fire.
AlwaysAsked == \A b \in Sessions : ~Unasked(b)

\* When the user has closed the stream's view, it stays closed.
ClosedStaysClosed == bridge = None => status = "idle"

\* The end of a session does not hide the stream of the one that replaced it.
EndSparesSuccessor ==
  [][posted # <<>> /\ posted' = Tail(posted) /\ Head(posted).kind = "ended"
       /\ Head(posted).of # bridge => UNCHANGED status]_vars
=============================================================================
