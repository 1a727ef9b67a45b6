-------------------------------- MODULE Viewer --------------------------------
(***************************************************************************)
(* StreamClient of the iOS viewer: one WebSocket to the host, opened again *)
(* for ever until the user disconnects.                                    *)
(*                                                                         *)
(* Two threads share its fields without a lock. The main thread runs the   *)
(* user's calls, the handshake timeout, the delayed reconnects and the     *)
(* status changes posted to it; URLSession's serial queue runs the receive *)
(* callbacks. A step of the queue is one line that reads or writes what    *)
(* the two share, and the main thread may run between any two of them. The *)
(* queue never does more than cancel what the two fields hold and clear    *)
(* them: between two lines of the main thread about the timeout, or two    *)
(* about the task, it does what it might as well do before or after both.  *)
(* So a step of the main thread is teardownSocket for the timeout,         *)
(* teardownSocket for the task, a new task, or its timeout.                *)
(***************************************************************************)
EXTENDS Integers, FiniteSets, Sequences

CONSTANTS
  Tasks,         \* URLSessionWebSocketTasks (a name is used again when it is free)
  None,
  MaxBlocks,     \* bound on the reconnect blocks that are due: with fewer left,
                 \* the user does not connect and no error is delivered
  MaxPosted      \* bound: status changes that are queued; the queue of URLSession
                 \* leaves room for one of the main thread

ASSUME ViewerAssumption ==
  /\ None \notin Tasks
  /\ MaxBlocks \in Nat \ {0, 1}
  /\ MaxPosted \in Nat \ {0, 1}

VARIABLES
  wantConnection,
  validHost,     \* connectHost makes a URL
  task,          \* the client's task, or None
  open,          \* tasks that are neither cancelled nor dropped
  receiving,     \* tasks with a receive callback to come
  handshake,     \* the task whose timeout `handshakeTimeout` holds, or None
  armed,         \* tasks whose timeout is due and not cancelled
  blocks,        \* reconnect blocks that are due
  posted,        \* status changes queued on the main queue
  status,
  main,          \* where the main thread is: see MainSteps
  opening,       \* the task it opens, until the timeout is armed, or None
  net,           \* where URLSession's queue is: see NetSteps
  callback,      \* the task whose callback it runs, or None
  fate,          \* history of the task: it was "heard", "acked" (HELLO_ACK), or
                 \* "robbed" of its timeout by another task's callback
  crossed        \* history: the "socket" that is open, the "timeout" that is armed,
                 \* and that the main thread set when the queue had just cancelled
                 \* the one before and had yet to clear the field

wishVars == <<wantConnection, validHost>>
socketVars == <<task, open, receiving, handshake, armed>>
queueVars == <<blocks, posted, status>>
mainVars == <<main, opening>>
netVars == <<net, callback>>
historyVars == <<fate, crossed>>
vars == <<wishVars, socketVars, queueVars, mainVars, netVars, historyVars>>

\* At rest; about to tear down the task, to open another one, to schedule a
\* reconnect or to show that it is idle; about to open a task, or to arm its timeout.
MainSteps == {"idle", "reopening", "retrying", "closing", "open", "arm"}

\* At rest; a message: about to cancel the timeout, to clear it, to read; an error:
\* about to look at wantConnection, then the four lines of teardownSocket, and the
\* rest of scheduleReconnect.
NetSteps == {"idle", "heard", "heardClear", "feed", "dropped",
             "cancelItem", "clearItem", "cancelTask", "clearTask", "retry"}

\* A task's messages are received one at a time.
TypeOK ==
  /\ wantConnection \in BOOLEAN /\ validHost \in BOOLEAN
  /\ task \in Tasks \cup {None} /\ handshake \in Tasks \cup {None}
  /\ open \subseteq Tasks /\ receiving \subseteq Tasks /\ armed \subseteq Tasks
  /\ blocks \in 0..MaxBlocks
  /\ posted \in Seq({"connecting", "streaming"}) /\ Len(posted) <= MaxPosted
  /\ status \in {"idle", "connecting", "streaming", "failed"}
  /\ main \in MainSteps /\ opening \in Tasks \cup {None}
  /\ net \in NetSteps /\ callback \in (Tasks \ receiving) \cup {None}
  /\ fate \subseteq {"heard", "acked", "robbed"}
  /\ crossed \subseteq {"socket", "timeout"} \X Tasks

Init ==
  /\ wantConnection = FALSE /\ validHost = FALSE
  /\ task = None /\ handshake = None
  /\ open = {} /\ receiving = {} /\ armed = {}
  /\ blocks = 0 /\ posted = <<>> /\ status = "idle"
  /\ main = "idle" /\ opening = None
  /\ net = "idle" /\ callback = None
  /\ fate = {} /\ crossed = {}

\* A task nobody refers to.
Free(t) == t \notin {task, callback} \cup open \cup receiving \cup armed

-----------------------------------------------------------------------------
(* The main thread                                                         *)

\* teardownSocket, the timeout: what begins a call or a block. `fired` holds the task
\* whose timeout runs, if one does.
TeardownSocket(fired, step) ==
  /\ armed' = armed \ ({handshake} \cup fired)
  /\ handshake' = None
  /\ crossed' = crossed \ ({"timeout"} \X ({handshake} \cup fired))
  /\ main' = step

\* teardownSocket, the task: what comes next.
TeardownTask(step) ==
  /\ main = step
  /\ open' = open \ {task}
  /\ task' = None
  /\ fate' = {}
  /\ crossed' = crossed \ {<<"socket", task>>}

\* Mutant: the socket in use is not torn down first.
OpenSocketBesides ==
  /\ \E t \in Tasks : Free(t)
  /\ main' = "open"
  /\ UNCHANGED <<handshake, armed, crossed>>

\* openSocket begins.
OpenSocket ==
  /\ \E t \in Tasks : Free(t)
  /\ TeardownSocket({}, "reopening")

\* connect(host:), also while connected.
Connect(v) ==
  /\ main = "idle"
  /\ blocks + (IF net = "idle" THEN 0 ELSE 1) < MaxBlocks
  /\ wantConnection' = TRUE
  /\ validHost' = v
  /\ OpenSocket
  /\ UNCHANGED <<task, open, receiving, queueVars, opening, netVars, fate>>

\* disconnect().
Disconnect ==
  /\ main = "idle"
  /\ wantConnection' = FALSE
  /\ validHost' = FALSE
  /\ TeardownSocket({}, "closing")
  /\ UNCHANGED <<task, open, receiving, queueVars, opening, netVars, fate>>

\* The handshake timeout: no message within 10 s. It goes on with scheduleReconnect.
HandshakeTimeout(t) ==
  /\ main = "idle"
  /\ t \in armed
  /\ IF task = t /\ wantConnection
     THEN /\ Len(posted) < MaxPosted
          /\ TeardownSocket({t}, "retrying")
     ELSE /\ armed' = armed \ {t}
          /\ crossed' = crossed \ {<<"timeout", t>>}
          /\ UNCHANGED <<handshake, main>>
  /\ UNCHANGED <<wishVars, task, open, receiving, queueVars, opening, netVars, fate>>

\* The delayed block of a scheduleReconnect whose status change has been shown.
\* It only asks whether a connection is wanted.
Reconnect ==
  /\ main = "idle"
  /\ blocks > Cardinality({i \in DOMAIN posted : posted[i] = "connecting"})
  /\ blocks' = blocks - 1
  /\ IF wantConnection
     THEN OpenSocket
     ELSE UNCHANGED <<handshake, armed, crossed, main>>
  /\ UNCHANGED <<wishVars, task, open, receiving, posted, status, opening, netVars, fate>>

\* openSocket goes on,
Reopening ==
  /\ TeardownTask("reopening")
  /\ main' = "open"
  /\ UNCHANGED <<wishVars, receiving, handshake, armed, queueVars, opening, netVars>>

\* scheduleReconnect ends with a status change and a block that is due later,
Retrying ==
  /\ TeardownTask("retrying")
  /\ main' = "idle"
  /\ posted' = Append(posted, "connecting")
  /\ blocks' = blocks + 1
  /\ UNCHANGED <<wishVars, receiving, handshake, armed, status, opening, netVars>>

\* and disconnect with its status.
Closing ==
  /\ TeardownTask("closing")
  /\ main' = "idle"
  /\ status' = "idle"
  /\ UNCHANGED <<wishVars, receiving, handshake, armed, blocks, posted, opening, netVars>>

\* A new task with its first receive; or nothing, if the address is no URL. Bound: of
\* the sockets that the queue is about to forget, one at a time stays open.
Open ==
  /\ main = "open"
  /\ IF validHost
     THEN \E t \in Tasks :
            /\ Free(t)
            /\ net = "clearTask" => open = {}
            /\ main' = "arm" /\ opening' = t
            /\ task' = t
            /\ open' = open \cup {t}
            /\ receiving' = receiving \cup {t}
            /\ status' = "connecting"
            /\ fate' = {}
            /\ crossed' = IF net = "clearTask" THEN crossed \cup {<<"socket", t>>} ELSE crossed
     ELSE /\ main' = "idle"
          /\ status' = "failed"
          /\ UNCHANGED <<opening, task, open, receiving, historyVars>>
  /\ UNCHANGED <<wishVars, handshake, armed, blocks, posted, netVars>>

\* Mutant: the timeout is not armed.
ArmNot ==
  /\ main = "arm"
  /\ main' = "idle" /\ opening' = None
  /\ UNCHANGED <<wishVars, socketVars, queueVars, netVars, historyVars>>

\* armHandshakeTimeout.
Arm ==
  /\ main = "arm"
  /\ main' = "idle" /\ opening' = None
  /\ handshake' = opening
  /\ armed' = (armed \ {handshake}) \cup {opening}
  /\ crossed' = IF net \in {"heardClear", "clearItem"}
                THEN crossed \cup {<<"timeout", opening>>}
                ELSE crossed
  /\ UNCHANGED <<wishVars, task, open, receiving, queueVars, netVars, fate>>

ShowStatus ==
  /\ main = "idle"
  /\ posted # <<>>
  /\ status' = Head(posted)
  /\ posted' = Tail(posted)
  /\ UNCHANGED <<wishVars, socketVars, blocks, mainVars, netVars, historyVars>>

-----------------------------------------------------------------------------
(* URLSession                                                              *)

\* The host or the network closes a socket.
Drop(t) ==
  /\ t \in open
  /\ open' = open \ {t}
  /\ crossed' = crossed \ {<<"socket", t>>}
  /\ UNCHANGED <<wishVars, task, receiving, handshake, armed, queueVars, mainVars, netVars, fate>>

\* Mutant: the callback asks for the next message before it deals with this one.
ReceiveAgainFirst(t, message) ==
  /\ net = "idle"
  /\ t \in receiving
  /\ message \/ t \notin open
  /\ t = task /\ ~message => blocks + 1 < MaxBlocks
  /\ IF t = task
     THEN net' = (IF message THEN "heard" ELSE "dropped") /\ callback' = t
     ELSE UNCHANGED netVars
  /\ UNCHANGED <<wishVars, socketVars, queueVars, mainVars, historyVars>>

\* A receive completes, with a message or, when the socket is closed, an error. The
\* callback of a task that is not the client's returns, and does not receive again.
Receive(t, message) ==
  /\ net = "idle"
  /\ t \in receiving
  /\ message \/ t \notin open
  /\ t = task /\ ~message => blocks + 1 < MaxBlocks
  /\ receiving' = receiving \ {t}
  /\ IF t = task
     THEN net' = (IF message THEN "heard" ELSE "dropped") /\ callback' = t
     ELSE UNCHANGED netVars
  /\ UNCHANGED <<wishVars, task, open, handshake, armed, queueVars, mainVars, historyVars>>

\* Mutant: the drop is logged only.
DroppedQuietly ==
  /\ net = "dropped"
  /\ net' = "idle" /\ callback' = None
  /\ UNCHANGED <<wishVars, socketVars, queueVars, mainVars, historyVars>>

\* Failure: whatever socket there is now is torn down for another attempt, if the
\* user wants one.
Dropped ==
  /\ net = "dropped"
  /\ IF wantConnection
     THEN net' = "cancelItem" /\ UNCHANGED callback
     ELSE net' = "idle" /\ callback' = None
  /\ UNCHANGED <<wishVars, socketVars, queueVars, mainVars, historyVars>>

\* handshakeTimeout?.cancel(): the timeout there is now, for a message as for an error.
CancelItem ==
  /\ net \in {"heard", "cancelItem"}
  /\ net' = IF net = "heard" THEN "heardClear" ELSE "clearItem"
  /\ armed' = armed \ {handshake}
  /\ crossed' = crossed \ {<<"timeout", handshake>>}
  /\ fate' = IF net = "heard" /\ handshake \notin {None, callback}
             THEN fate \cup {"robbed"}
             ELSE fate
  /\ UNCHANGED <<wishVars, task, open, receiving, handshake, queueVars, mainVars, callback>>

\* handshakeTimeout = nil.
ClearItem ==
  /\ net \in {"heardClear", "clearItem"}
  /\ net' = IF net = "heardClear" THEN "feed" ELSE "cancelTask"
  /\ handshake' = None
  /\ UNCHANGED <<wishVars, task, open, receiving, armed, queueVars, mainVars, callback, historyVars>>

\* task?.cancel().
CancelTask ==
  /\ net = "cancelTask"
  /\ net' = "clearTask"
  /\ open' = open \ {task}
  /\ crossed' = crossed \ {<<"socket", task>>}
  /\ UNCHANGED <<wishVars, task, receiving, handshake, armed, queueVars, mainVars, callback, fate>>

\* task = nil.
ClearTask ==
  /\ net = "clearTask"
  /\ net' = "retry"
  /\ task' = None
  /\ fate' = {}
  /\ UNCHANGED <<wishVars, open, receiving, handshake, armed, queueVars, mainVars, callback, crossed>>

\* The rest of scheduleReconnect.
ScheduleReconnect ==
  /\ net = "retry"
  /\ Len(posted) + 1 < MaxPosted
  /\ net' = "idle" /\ callback' = None
  /\ posted' = Append(posted, "connecting")
  /\ blocks' = blocks + 1
  /\ UNCHANGED <<wishVars, socketVars, status, mainVars, historyVars>>

\* What a message of the callback's task does to the history of the client's.
Fate(ack) ==
  fate \cup (IF callback # task THEN {} ELSE IF ack THEN {"heard", "acked"} ELSE {"heard"})

\* Mutant: the status is set from the callback.
FeedShowsStatus ==
  /\ net = "feed"
  /\ net' = "idle" /\ callback' = None
  /\ receiving' = receiving \cup {callback}
  /\ \E ack \in BOOLEAN :
       /\ status' = IF ack THEN "streaming" ELSE status
       /\ fate' = Fate(ack)
  /\ UNCHANGED <<wishVars, task, open, handshake, armed, blocks, posted, mainVars, crossed>>

\* Success, the timeout cancelled and cleared: the message goes to the parser there is
\* now, a HELLO_ACK posts the status; and receive again.
Feed ==
  /\ net = "feed"
  /\ net' = "idle" /\ callback' = None
  /\ receiving' = receiving \cup {callback}
  /\ \E ack \in BOOLEAN :
       /\ ack => Len(posted) + 1 < MaxPosted
       /\ posted' = IF ack THEN Append(posted, "streaming") ELSE posted
       /\ fate' = Fate(ack)
  /\ UNCHANGED <<wishVars, task, open, handshake, armed, blocks, status, mainVars, crossed>>

-----------------------------------------------------------------------------

MainGoesOn == Reopening \/ Retrying \/ Closing \/ Open \/ Arm
NetGoesOn ==
  \/ Dropped \/ CancelItem \/ ClearItem \/ CancelTask \/ ClearTask
  \/ ScheduleReconnect \/ Feed

Next ==
  \/ \E v \in BOOLEAN : Connect(v)
  \/ Disconnect
  \/ \E t \in Tasks : HandshakeTimeout(t) \/ Drop(t)
  \/ \E t \in Tasks, message \in BOOLEAN : Receive(t, message)
  \/ Reconnect \/ ShowStatus
  \/ MainGoesOn \/ NetGoesOn

\* Both threads go on, timers fire, queued blocks run and errors are delivered; a
\* message need not come, nor does the user do anything.
Fairness ==
  /\ \A t \in Tasks : WF_vars(HandshakeTimeout(t)) /\ WF_vars(Receive(t, FALSE))
  /\ WF_vars(Reconnect) /\ WF_vars(ShowStatus)
  /\ WF_vars(MainGoesOn) /\ WF_vars(NetGoesOn)

Spec == Init /\ [][Next]_vars /\ Fairness

-----------------------------------------------------------------------------
(* Properties                                                              *)

\* Whatever reconnects and callbacks are left over: no socket and no timeout of an
\* earlier attempt stays, and nothing is the client's once the user has disconnected.
\* (Except what the main thread set between two lines of the queue, `crossed`: the
\* second line clears a field whose new value the first has not cancelled.)
NothingLeftOver ==
  /\ \A t \in open : t = task \/ <<"socket", t>> \in crossed
  /\ \A t \in armed : t = handshake \/ <<"timeout", t>> \in crossed
  /\ ~wantConnection /\ main = "idle" => task = None /\ handshake = None

\* A thread is about to open a socket or to schedule a reconnect.
OnItsWay ==
  \/ main \in {"reopening", "retrying", "open", "arm"}
  \/ net \in {"dropped", "cancelItem", "clearItem", "cancelTask", "clearTask", "retry"}

\* A client that wants its host always has something under way: a reconnect that
\* is due, a thread that is about to provide for one, or a socket that will call
\* back, and that has been heard or has a ceiling on its silence. (Unless the
\* callback of an earlier attempt, past its guard when this one began, has cancelled
\* that ceiling: `robbed`.)
AlwaysUnderWay ==
  wantConnection /\ validHost /\ "robbed" \notin fate =>
    \/ blocks > 0
    \/ OnItsWay
    \/ callback # None /\ callback = task
    \/ task \in receiving /\ (task \in armed \/ "heard" \in fate)

\* Status changes of earlier attempts never hide a stream that the host has
\* acknowledged.
AcknowledgedIsShown ==
  "acked" \in fate /\ posted = <<>> => status = "streaming"

\* "retries forever until user disconnects": an attempt that hears nothing is given
\* up, unless it was robbed of its timeout, and another one follows it.
RetriesForever ==
  /\ \A t \in Tasks :
       task = t /\ "heard" \notin fate ~> task # t \/ fate # {}
  /\ wantConnection /\ task = None ~> ~wantConnection \/ ~validHost \/ task # None

\* "User-initiated disconnect: stop reconnecting and tear down": when both threads
\* have come to rest after it, no socket is open (disconnect, teardownSocket).
DisconnectTearsDown ==
  ~wantConnection /\ main = "idle" /\ net = "idle" => open = {}

\* "Cancelled the moment any message arrives": the timeout of a socket that has been
\* heard does not cut it off (armHandshakeTimeout, receiveLoop).
TimeoutSparesStream ==
  [][\A t \in Tasks : HandshakeTimeout(t) /\ task = t => "heard" \notin fate]_vars

\* "Drop detected: retry ... unless the user asked to disconnect": a reconnect
\* that was due before the user disconnected, or connected anew, does not cut off
\* a socket that is open and has been heard.
ReconnectSparesStream ==
  [][Reconnect => ~(task \in open /\ "heard" \in fate)]_vars
=============================================================================
