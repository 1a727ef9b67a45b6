----------------------------- MODULE ViewerProofs -----------------------------
(***************************************************************************)
(* The safety of Viewer for any number of tasks, of reconnects that are    *)
(* due and of status changes that are queued: its types and the invariants *)
(* that MCViewer checks.                                                   *)
(***************************************************************************)
EXTENDS Viewer, FiniteSetTheorems, TLAPS

Dropping == {"dropped", "cancelItem", "clearItem", "cancelTask", "clearTask", "retry"}

\* What may still schedule a reconnect: the client's task with its timeout, or the task
\* about to be opened; and a callback with an error. The bound on the blocks leaves room
\* for both.
MayEnd == IF task # None \/ main \in {"reopening", "retrying", "open"} THEN 1 ELSE 0
MayDrop == IF net \in Dropping THEN 1 ELSE 0
RoomForBlocks == blocks + MayEnd + MayDrop <= MaxBlocks

\* AcknowledgedIsShown, before the main thread has come to the last status change.
AckedIsLast ==
  "acked" \in fate =>
    IF posted = <<>> THEN status = "streaming" ELSE posted[Len(posted)] = "streaming"

\* The main thread between two steps. It opens and retries only for a user who wants a
\* connection; a task about to get its timeout is the client's and will call back, or a
\* reconnect is due.
MainMidway ==
  /\ main \in {"reopening", "retrying", "open", "arm"} => wantConnection
  /\ main = "closing" => ~wantConnection /\ handshake = None
  /\ main = "retrying" => Len(posted) < MaxPosted
  /\ main = "open" => task = None /\ "acked" \notin fate
  /\ main = "arm" =>
       /\ opening \in Tasks
       /\ \/ blocks > 0
          \/ net \in Dropping
          \/ task = opening /\ opening \in receiving \cup {callback}

\* The queue between two lines: what it has cancelled is closed, or the main thread has
\* crossed it.
NetMidway ==
  /\ net # "idle" => callback \in Tasks
  /\ net \in {"heardClear", "clearItem"} =>
       (handshake \in armed => <<"timeout", handshake>> \in crossed)
  /\ net = "clearTask" => (task \in open => <<"socket", task>> \in crossed)
  /\ net = "retry" => "acked" \notin fate

IInv ==
  /\ TypeOK /\ MainMidway /\ NetMidway
  /\ RoomForBlocks /\ NothingLeftOver /\ AlwaysUnderWay /\ AckedIsLast

-----------------------------------------------------------------------------
(* Parts of the steps                                                      *)

Queues == Seq({"connecting", "streaming"})

\* Showing the first status change leaves the last one, unless it is the same.
LEMMA LastKept ==
  ASSUME NEW q \in Queues, q # <<>>
  PROVE  /\ Tail(q) \in Queues /\ Len(Tail(q)) < Len(q) /\ Len(q) \in Nat
         /\ Head(q) \in {"connecting", "streaming"}
         /\ Tail(q) # <<>> => Tail(q)[Len(Tail(q))] = q[Len(q)]
         /\ Tail(q) = <<>> => Head(q) = q[Len(q)]
<1>1. Len(q) \in Nat \ {0}
  BY DEF Queues
<1>2. Head(q) = q[1] /\ q[1] \in {"connecting", "streaming"}
  BY <1>1 DEF Queues
<1>3. Tail(q) \in Queues /\ Len(Tail(q)) = Len(q) - 1
  BY <1>1 DEF Queues
<1>4. Tail(q) # <<>> => Tail(q)[Len(Tail(q))] = q[Len(q)]
  BY <1>1, <1>3 DEF Queues
<1>5. Tail(q) = <<>> => Len(q) = 1
  BY <1>1, <1>3
<1>. QED BY <1>1, <1>2, <1>3, <1>4, <1>5

\* A reconnect runs only if one is due: the count of blocks says so.
LEMMA ReconnectIsDue == IInv /\ Reconnect => blocks > 0
<1>. SUFFICES ASSUME IInv, Reconnect PROVE blocks > 0
  OBVIOUS
<1>. DEFINE S == {i \in DOMAIN posted : posted[i] = "connecting"}
<1>1. DOMAIN posted = 1..Len(posted) /\ Len(posted) \in Int
  BY DEF IInv, TypeOK
<1>2. IsFiniteSet(1..Len(posted))
  BY <1>1, FS_Interval
<1>3. S \in SUBSET (1..Len(posted))
  BY <1>1
<1>4. IsFiniteSet(S)
  BY <1>2, <1>3, FS_Subset
<1>5. Cardinality(S) \in Nat
  BY <1>4, FS_CardinalityType
<1>6. blocks > Cardinality(S) /\ blocks \in Int
  BY DEF Reconnect, IInv, TypeOK
<1>. QED BY <1>5, <1>6

-----------------------------------------------------------------------------
(* The steps                                                               *)

\* Where the main thread is says what it has done: the queue never sets a field, takes the
\* user's wish away or fills the last place among the status changes.
LEMMA MainStep == IInv /\ [Next]_vars => MainMidway'
<1>. SUFFICES ASSUME IInv, [Next]_vars PROVE MainMidway'
  OBVIOUS
<1>. USE ViewerAssumption
      DEF IInv, TypeOK, MainMidway, NetMidway, Dropping, MainSteps, NetSteps
<1>1. ASSUME NEW v \in BOOLEAN, Connect(v) PROVE MainMidway'
  BY <1>1 DEF Connect, OpenSocket, TeardownSocket, queueVars, netVars
<1>2. CASE Disconnect
  BY <1>2 DEF Disconnect, TeardownSocket, queueVars, netVars
<1>3. ASSUME NEW t \in Tasks, HandshakeTimeout(t) PROVE MainMidway'
  BY <1>3 DEF HandshakeTimeout, TeardownSocket, wishVars, queueVars, netVars
<1>4. CASE Reconnect
  BY <1>4 DEF Reconnect, OpenSocket, TeardownSocket, wishVars, netVars
<1>5. CASE Reopening
  BY <1>5 DEF Reopening, TeardownTask, wishVars, queueVars, netVars
<1>6. CASE Retrying
  BY <1>6 DEF Retrying, TeardownTask, wishVars, netVars
<1>7. CASE Closing
  BY <1>7 DEF Closing, TeardownTask, wishVars, netVars
<1>8. CASE Open
  BY <1>8 DEF Open, Free, wishVars, netVars, historyVars
<1>9. CASE Arm
  BY <1>9 DEF Arm, wishVars, queueVars, netVars
<1>10. CASE ShowStatus
  BY <1>10 DEF ShowStatus, wishVars, socketVars, mainVars, netVars, historyVars
<1>11. ASSUME NEW t \in Tasks, Drop(t) PROVE MainMidway'
  BY <1>11 DEF Drop, wishVars, queueVars, mainVars, netVars
<1>12. ASSUME NEW t \in Tasks, NEW m \in BOOLEAN, Receive(t, m) PROVE MainMidway'
  BY <1>12 DEF Receive, wishVars, queueVars, mainVars, netVars, historyVars
<1>13. CASE Dropped
  BY <1>13 DEF Dropped, wishVars, socketVars, queueVars, mainVars, historyVars
<1>14. CASE CancelItem
  BY <1>14 DEF CancelItem, wishVars, queueVars, mainVars
<1>15. CASE ClearItem
  BY <1>15 DEF ClearItem, wishVars, queueVars, mainVars, historyVars
<1>16. CASE CancelTask
  BY <1>16 DEF CancelTask, wishVars, queueVars, mainVars
<1>17. CASE ClearTask
  BY <1>17 DEF ClearTask, wishVars, queueVars, mainVars
<1>18. CASE ScheduleReconnect
  BY <1>18 DEF ScheduleReconnect, wishVars, socketVars, mainVars, historyVars
<1>19. CASE Feed
  BY <1>19 DEF Feed, Fate, wishVars, mainVars
<1>20. CASE UNCHANGED vars
  BY <1>20 DEF vars, wishVars, socketVars, queueVars, mainVars, netVars, historyVars
<1>. QED
  BY <1>1, <1>2, <1>3, <1>4, <1>5, <1>6, <1>7, <1>8, <1>9, <1>10,
     <1>11, <1>12, <1>13, <1>14, <1>15, <1>16, <1>17, <1>18, <1>19, <1>20
     DEF Next, MainGoesOn, NetGoesOn

\* What the queue has cancelled stays closed until it clears the field, or the main thread
\* has put something else there.
LEMMA NetStep == IInv /\ [Next]_vars => NetMidway'
<1>. SUFFICES ASSUME IInv, [Next]_vars PROVE NetMidway'
  OBVIOUS
<1>. USE ViewerAssumption
      DEF IInv, TypeOK, MainMidway, NetMidway, Dropping, MainSteps, NetSteps
<1>1. ASSUME NEW v \in BOOLEAN, Connect(v) PROVE NetMidway'
  BY <1>1 DEF Connect, OpenSocket, TeardownSocket, queueVars, netVars
<1>2. CASE Disconnect
  BY <1>2 DEF Disconnect, TeardownSocket, queueVars, netVars
<1>3. ASSUME NEW t \in Tasks, HandshakeTimeout(t) PROVE NetMidway'
  BY <1>3 DEF HandshakeTimeout, TeardownSocket, wishVars, queueVars, netVars
<1>4. CASE Reconnect
  BY <1>4 DEF Reconnect, OpenSocket, TeardownSocket, wishVars, netVars
<1>5. CASE Reopening
  BY <1>5 DEF Reopening, TeardownTask, wishVars, queueVars, netVars
<1>6. CASE Retrying
  BY <1>6 DEF Retrying, TeardownTask, wishVars, netVars
<1>7. CASE Closing
  BY <1>7 DEF Closing, TeardownTask, wishVars, netVars
<1>8. CASE Open
  BY <1>8 DEF Open, Free, wishVars, netVars, historyVars
<1>9. CASE Arm
  BY <1>9 DEF Arm, wishVars, queueVars, netVars
<1>10. CASE ShowStatus
  BY <1>10 DEF ShowStatus, wishVars, socketVars, mainVars, netVars, historyVars
<1>11. ASSUME NEW t \in Tasks, Drop(t) PROVE NetMidway'
  BY <1>11 DEF Drop, wishVars, queueVars, mainVars, netVars
<1>12. ASSUME NEW t \in Tasks, NEW m \in BOOLEAN, Receive(t, m) PROVE NetMidway'
  BY <1>12 DEF Receive, wishVars, queueVars, mainVars, netVars, historyVars
<1>13. CASE Dropped
  BY <1>13 DEF Dropped, wishVars, socketVars, queueVars, mainVars, historyVars
<1>14. CASE CancelItem
  BY <1>14 DEF CancelItem, wishVars, queueVars, mainVars
<1>15. CASE ClearItem
  BY <1>15 DEF ClearItem, wishVars, queueVars, mainVars, historyVars
<1>16. CASE CancelTask
  BY <1>16 DEF CancelTask, wishVars, queueVars, mainVars
<1>17. CASE ClearTask
  BY <1>17 DEF ClearTask, wishVars, queueVars, mainVars
<1>18. CASE ScheduleReconnect
  BY <1>18 DEF ScheduleReconnect, wishVars, socketVars, mainVars, historyVars
<1>19. CASE Feed
  BY <1>19 DEF Feed, Fate, wishVars, mainVars
<1>20. CASE UNCHANGED vars
  BY <1>20 DEF vars, wishVars, socketVars, queueVars, mainVars, netVars, historyVars
<1>. QED
  BY <1>1, <1>2, <1>3, <1>4, <1>5, <1>6, <1>7, <1>8, <1>9, <1>10,
     <1>11, <1>12, <1>13, <1>14, <1>15, <1>16, <1>17, <1>18, <1>19, <1>20
     DEF Next, MainGoesOn, NetGoesOn

\* An attempt schedules one reconnect, and a callback with an error another one.
LEMMA RoomStep == IInv /\ [Next]_vars => RoomForBlocks'
<1>. SUFFICES ASSUME IInv, [Next]_vars PROVE RoomForBlocks'
  OBVIOUS
<1>. USE ViewerAssumption
      DEF IInv, TypeOK, MainMidway, NetMidway, MainSteps, NetSteps, RoomForBlocks,
          MayEnd, MayDrop, Dropping
<1>1. ASSUME NEW v \in BOOLEAN, Connect(v) PROVE RoomForBlocks'
  BY <1>1 DEF Connect, OpenSocket, TeardownSocket, queueVars, netVars
<1>2. CASE Disconnect
  BY <1>2 DEF Disconnect, TeardownSocket, queueVars, netVars
<1>3. ASSUME NEW t \in Tasks, HandshakeTimeout(t) PROVE RoomForBlocks'
  BY <1>3 DEF HandshakeTimeout, TeardownSocket, wishVars, queueVars, netVars
<1>4. CASE Reconnect
  BY <1>4 DEF Reconnect, OpenSocket, TeardownSocket, wishVars, netVars
<1>5. CASE Reopening
  BY <1>5 DEF Reopening, TeardownTask, wishVars, queueVars, netVars
<1>6. CASE Retrying
  BY <1>6 DEF Retrying, TeardownTask, wishVars, netVars
<1>7. CASE Closing
  BY <1>7 DEF Closing, TeardownTask, wishVars, netVars
<1>8. CASE Open
  BY <1>8 DEF Open, Free, wishVars, netVars, historyVars
<1>9. CASE Arm
  BY <1>9 DEF Arm, wishVars, queueVars, netVars
<1>10. CASE ShowStatus
  BY <1>10 DEF ShowStatus, wishVars, socketVars, mainVars, netVars, historyVars
<1>11. ASSUME NEW t \in Tasks, Drop(t) PROVE RoomForBlocks'
  BY <1>11 DEF Drop, wishVars, queueVars, mainVars, netVars
<1>12. ASSUME NEW t \in Tasks, NEW m \in BOOLEAN, Receive(t, m) PROVE RoomForBlocks'
  BY <1>12 DEF Receive, wishVars, queueVars, mainVars, netVars, historyVars
<1>13. CASE Dropped
  BY <1>13 DEF Dropped, wishVars, socketVars, queueVars, mainVars, historyVars
<1>14. CASE CancelItem
  BY <1>14 DEF CancelItem, wishVars, queueVars, mainVars
<1>15. CASE ClearItem
  BY <1>15 DEF ClearItem, wishVars, queueVars, mainVars, historyVars
<1>16. CASE CancelTask
  BY <1>16 DEF CancelTask, wishVars, queueVars, mainVars
<1>17. CASE ClearTask
  BY <1>17 DEF ClearTask, wishVars, queueVars, mainVars
<1>18. CASE ScheduleReconnect
  BY <1>18 DEF ScheduleReconnect, wishVars, socketVars, mainVars, historyVars
<1>19. CASE Feed
  BY <1>19 DEF Feed, Fate, wishVars, mainVars
<1>20. CASE UNCHANGED vars
  BY <1>20 DEF vars, wishVars, socketVars, queueVars, mainVars, netVars, historyVars
<1>. QED
  BY <1>1, <1>2, <1>3, <1>4, <1>5, <1>6, <1>7, <1>8, <1>9, <1>10,
     <1>11, <1>12, <1>13, <1>14, <1>15, <1>16, <1>17, <1>18, <1>19, <1>20
     DEF Next, MainGoesOn, NetGoesOn

\* The types. A reconnect that is scheduled has a place, and so has a status change.
LEMMA TypeStep == IInv /\ [Next]_vars => TypeOK'
<1>. SUFFICES ASSUME IInv, [Next]_vars PROVE TypeOK'
  OBVIOUS
<1>. USE ViewerAssumption
      DEF IInv, TypeOK, MainMidway, NetMidway, MainSteps, NetSteps, RoomForBlocks,
          MayEnd, MayDrop, Dropping
<1>1. ASSUME NEW v \in BOOLEAN, Connect(v) PROVE TypeOK'
  BY <1>1 DEF Connect, OpenSocket, TeardownSocket, queueVars, netVars
<1>2. CASE Disconnect
  BY <1>2 DEF Disconnect, TeardownSocket, queueVars, netVars
<1>3. ASSUME NEW t \in Tasks, HandshakeTimeout(t) PROVE TypeOK'
  BY <1>3 DEF HandshakeTimeout, TeardownSocket, wishVars, queueVars, netVars
<1>4. CASE Reconnect
  BY <1>4, ReconnectIsDue DEF Reconnect, OpenSocket, TeardownSocket, wishVars, netVars
<1>5. CASE Reopening
  BY <1>5 DEF Reopening, TeardownTask, wishVars, queueVars, netVars
<1>6. CASE Retrying
  BY <1>6 DEF Retrying, TeardownTask, wishVars, netVars
<1>7. CASE Closing
  BY <1>7 DEF Closing, TeardownTask, wishVars, netVars
<1>8. CASE Open
  <2>1. CASE validHost
    <3>1. PICK t \in Tasks :
            /\ Free(t)
            /\ main' = "arm" /\ opening' = t /\ task' = t
            /\ open' = open \cup {t} /\ receiving' = receiving \cup {t}
            /\ status' = "connecting" /\ fate' = {}
            /\ crossed' = IF net = "clearTask" THEN crossed \cup {<<"socket", t>>} ELSE crossed
      BY <1>8, <2>1 DEF Open
    <3>2. UNCHANGED <<wantConnection, validHost, handshake, armed, blocks, posted, net, callback>>
      BY <1>8 DEF Open, wishVars, netVars
    <3>3. crossed' \subseteq {"socket", "timeout"} \X Tasks
      BY <3>1
    <3>4. callback' \in (Tasks \ receiving') \cup {None}
      BY <3>1, <3>2 DEF Free
    <3>. QED BY <3>1, <3>2, <3>3, <3>4
  <2>2. CASE ~validHost
    BY <1>8, <2>2 DEF Open, Free, wishVars, netVars, historyVars
  <2>. QED BY <2>1, <2>2
<1>9. CASE Arm
  BY <1>9 DEF Arm, wishVars, queueVars, netVars
<1>10. CASE ShowStatus
  <2>1. /\ posted # <<>> /\ status' = Head(posted) /\ posted' = Tail(posted)
        /\ posted \in Queues /\ Len(posted) <= MaxPosted
    BY <1>10 DEF ShowStatus, Queues
  <2>2. /\ posted' \in Queues /\ status' \in {"connecting", "streaming"}
        /\ Len(posted') < Len(posted) /\ Len(posted) \in Nat /\ Len(posted') \in Nat
    BY <2>1, LastKept DEF Queues
  <2>. QED BY <1>10, <2>1, <2>2
     DEF ShowStatus, wishVars, socketVars, mainVars, netVars, historyVars, Queues
<1>11. ASSUME NEW t \in Tasks, Drop(t) PROVE TypeOK'
  BY <1>11 DEF Drop, wishVars, queueVars, mainVars, netVars
<1>12. ASSUME NEW t \in Tasks, NEW m \in BOOLEAN, Receive(t, m) PROVE TypeOK'
  BY <1>12 DEF Receive, wishVars, queueVars, mainVars, netVars, historyVars
<1>13. CASE Dropped
  BY <1>13 DEF Dropped, wishVars, socketVars, queueVars, mainVars, historyVars
<1>14. CASE CancelItem
  BY <1>14 DEF CancelItem, wishVars, queueVars, mainVars
<1>15. CASE ClearItem
  BY <1>15 DEF ClearItem, wishVars, queueVars, mainVars, historyVars
<1>16. CASE CancelTask
  BY <1>16 DEF CancelTask, wishVars, queueVars, mainVars
<1>17. CASE ClearTask
  BY <1>17 DEF ClearTask, wishVars, queueVars, mainVars
<1>18. CASE ScheduleReconnect
  BY <1>18 DEF ScheduleReconnect, wishVars, socketVars, mainVars, historyVars
<1>19. CASE Feed
  BY <1>19 DEF Feed, Fate, wishVars, mainVars
<1>20. CASE UNCHANGED vars
  BY <1>20 DEF vars, wishVars, socketVars, queueVars, mainVars, netVars, historyVars
<1>. QED
  BY <1>1, <1>2, <1>3, <1>4, <1>5, <1>6, <1>7, <1>8, <1>9, <1>10,
     <1>11, <1>12, <1>13, <1>14, <1>15, <1>16, <1>17, <1>18, <1>19, <1>20
     DEF Next, MainGoesOn, NetGoesOn

\* A field is cleared when what it held is cancelled, or crossed.
LEMMA LeftOverStep == IInv /\ [Next]_vars => NothingLeftOver'
<1>. SUFFICES ASSUME IInv, [Next]_vars PROVE NothingLeftOver'
  OBVIOUS
<1>. USE ViewerAssumption DEF IInv, TypeOK, MainMidway, NetMidway, NothingLeftOver
<1>1. ASSUME NEW v \in BOOLEAN, Connect(v) PROVE NothingLeftOver'
  BY <1>1 DEF Connect, OpenSocket, TeardownSocket, queueVars, netVars
<1>2. CASE Disconnect
  BY <1>2 DEF Disconnect, TeardownSocket, queueVars, netVars
<1>3. ASSUME NEW t \in Tasks, HandshakeTimeout(t) PROVE NothingLeftOver'
  BY <1>3 DEF HandshakeTimeout, TeardownSocket, wishVars, queueVars, netVars
<1>4. CASE Reconnect
  BY <1>4 DEF Reconnect, OpenSocket, TeardownSocket, wishVars, netVars
<1>5. CASE Reopening
  BY <1>5 DEF Reopening, TeardownTask, wishVars, queueVars, netVars
<1>6. CASE Retrying
  BY <1>6 DEF Retrying, TeardownTask, wishVars, netVars
<1>7. CASE Closing
  BY <1>7 DEF Closing, TeardownTask, wishVars, netVars
<1>8. CASE Open
  BY <1>8 DEF Open, Free, wishVars, netVars, historyVars
<1>9. CASE Arm
  BY <1>9 DEF Arm, wishVars, queueVars, netVars
<1>10. CASE ShowStatus
  BY <1>10 DEF ShowStatus, wishVars, socketVars, mainVars, netVars, historyVars
<1>11. ASSUME NEW t \in Tasks, Drop(t) PROVE NothingLeftOver'
  BY <1>11 DEF Drop, wishVars, queueVars, mainVars, netVars
<1>12. ASSUME NEW t \in Tasks, NEW m \in BOOLEAN, Receive(t, m) PROVE NothingLeftOver'
  BY <1>12 DEF Receive, wishVars, queueVars, mainVars, netVars, historyVars
<1>13. CASE Dropped
  BY <1>13 DEF Dropped, wishVars, socketVars, queueVars, mainVars, historyVars
<1>14. CASE CancelItem
  BY <1>14 DEF CancelItem, wishVars, queueVars, mainVars
<1>15. CASE ClearItem
  BY <1>15 DEF ClearItem, wishVars, queueVars, mainVars, historyVars
<1>16. CASE CancelTask
  BY <1>16 DEF CancelTask, wishVars, queueVars, mainVars
<1>17. CASE ClearTask
  BY <1>17 DEF ClearTask, wishVars, queueVars, mainVars
<1>18. CASE ScheduleReconnect
  BY <1>18 DEF ScheduleReconnect, wishVars, socketVars, mainVars, historyVars
<1>19. CASE Feed
  BY <1>19 DEF Feed, Fate, wishVars, mainVars
<1>20. CASE UNCHANGED vars
  BY <1>20 DEF vars, wishVars, socketVars, queueVars, mainVars, netVars, historyVars
<1>. QED
  BY <1>1, <1>2, <1>3, <1>4, <1>5, <1>6, <1>7, <1>8, <1>9, <1>10,
     <1>11, <1>12, <1>13, <1>14, <1>15, <1>16, <1>17, <1>18, <1>19, <1>20
     DEF Next, MainGoesOn, NetGoesOn

\* Whatever takes the task or its timeout away provides for another attempt.
LEMMA UnderWayStep == IInv /\ [Next]_vars => AlwaysUnderWay'
<1>. SUFFICES ASSUME IInv, [Next]_vars PROVE AlwaysUnderWay'
  OBVIOUS
<1>. USE ViewerAssumption
      DEF IInv, TypeOK, MainMidway, NetMidway, AlwaysUnderWay, OnItsWay, Dropping
<1>1. ASSUME NEW v \in BOOLEAN, Connect(v) PROVE AlwaysUnderWay'
  BY <1>1 DEF Connect, OpenSocket, TeardownSocket, queueVars, netVars
<1>2. CASE Disconnect
  BY <1>2 DEF Disconnect, TeardownSocket, queueVars, netVars
<1>3. ASSUME NEW t \in Tasks, HandshakeTimeout(t) PROVE AlwaysUnderWay'
  BY <1>3 DEF HandshakeTimeout, TeardownSocket, wishVars, queueVars, netVars
<1>4. CASE Reconnect
  BY <1>4 DEF Reconnect, OpenSocket, TeardownSocket, wishVars, netVars
<1>5. CASE Reopening
  BY <1>5 DEF Reopening, TeardownTask, wishVars, queueVars, netVars
<1>6. CASE Retrying
  BY <1>6 DEF Retrying, TeardownTask, wishVars, netVars
<1>7. CASE Closing
  BY <1>7 DEF Closing, TeardownTask, wishVars, netVars
<1>8. CASE Open
  BY <1>8 DEF Open, Free, wishVars, netVars, historyVars
<1>9. CASE Arm
  BY <1>9 DEF Arm, wishVars, queueVars, netVars
<1>10. CASE ShowStatus
  BY <1>10 DEF ShowStatus, wishVars, socketVars, mainVars, netVars, historyVars
<1>11. ASSUME NEW t \in Tasks, Drop(t) PROVE AlwaysUnderWay'
  BY <1>11 DEF Drop, wishVars, queueVars, mainVars, netVars
<1>12. ASSUME NEW t \in Tasks, NEW m \in BOOLEAN, Receive(t, m) PROVE AlwaysUnderWay'
  BY <1>12 DEF Receive, wishVars, queueVars, mainVars, netVars, historyVars
<1>13. CASE Dropped
  BY <1>13 DEF Dropped, wishVars, socketVars, queueVars, mainVars, historyVars
<1>14. CASE CancelItem
  BY <1>14 DEF CancelItem, wishVars, queueVars, mainVars
<1>15. CASE ClearItem
  BY <1>15 DEF ClearItem, wishVars, queueVars, mainVars, historyVars
<1>16. CASE CancelTask
  BY <1>16 DEF CancelTask, wishVars, queueVars, mainVars
<1>17. CASE ClearTask
  BY <1>17 DEF ClearTask, wishVars, queueVars, mainVars
<1>18. CASE ScheduleReconnect
  BY <1>18 DEF ScheduleReconnect, wishVars, socketVars, mainVars, historyVars
<1>19. CASE Feed
  BY <1>19 DEF Feed, Fate, wishVars, mainVars
<1>20. CASE UNCHANGED vars
  BY <1>20 DEF vars, wishVars, socketVars, queueVars, mainVars, netVars, historyVars
<1>. QED
  BY <1>1, <1>2, <1>3, <1>4, <1>5, <1>6, <1>7, <1>8, <1>9, <1>10,
     <1>11, <1>12, <1>13, <1>14, <1>15, <1>16, <1>17, <1>18, <1>19, <1>20
     DEF Next, MainGoesOn, NetGoesOn

\* Nothing is posted between an acknowledgement and the end of its task, nor shown but what
\* is queued.
LEMMA AckedStep == IInv /\ [Next]_vars => AckedIsLast'
<1>. SUFFICES ASSUME IInv, [Next]_vars PROVE AckedIsLast'
  OBVIOUS
<1>. USE ViewerAssumption DEF IInv, TypeOK, MainMidway, NetMidway, AckedIsLast
<1>1. ASSUME NEW v \in BOOLEAN, Connect(v) PROVE AckedIsLast'
  BY <1>1 DEF Connect, OpenSocket, TeardownSocket, queueVars, netVars
<1>2. CASE Disconnect
  BY <1>2 DEF Disconnect, TeardownSocket, queueVars, netVars
<1>3. ASSUME NEW t \in Tasks, HandshakeTimeout(t) PROVE AckedIsLast'
  BY <1>3 DEF HandshakeTimeout, TeardownSocket, wishVars, queueVars, netVars
<1>4. CASE Reconnect
  BY <1>4 DEF Reconnect, OpenSocket, TeardownSocket, wishVars, netVars
<1>5. CASE Reopening
  BY <1>5 DEF Reopening, TeardownTask, wishVars, queueVars, netVars
<1>6. CASE Retrying
  BY <1>6 DEF Retrying, TeardownTask, wishVars, netVars
<1>7. CASE Closing
  BY <1>7 DEF Closing, TeardownTask, wishVars, netVars
<1>8. CASE Open
  BY <1>8 DEF Open, Free, wishVars, netVars, historyVars
<1>9. CASE Arm
  BY <1>9 DEF Arm, wishVars, queueVars, netVars
<1>10. CASE ShowStatus
  <2>1. /\ posted # <<>> /\ posted \in Queues
        /\ status' = Head(posted) /\ posted' = Tail(posted) /\ fate' = fate
    BY <1>10 DEF ShowStatus, historyVars, Queues
  <2>. QED BY <2>1, LastKept
<1>11. ASSUME NEW t \in Tasks, Drop(t) PROVE AckedIsLast'
  BY <1>11 DEF Drop, wishVars, queueVars, mainVars, netVars
<1>12. ASSUME NEW t \in Tasks, NEW m \in BOOLEAN, Receive(t, m) PROVE AckedIsLast'
  BY <1>12 DEF Receive, wishVars, queueVars, mainVars, netVars, historyVars
<1>13. CASE Dropped
  BY <1>13 DEF Dropped, wishVars, socketVars, queueVars, mainVars, historyVars
<1>14. CASE CancelItem
  BY <1>14 DEF CancelItem, wishVars, queueVars, mainVars
<1>15. CASE ClearItem
  BY <1>15 DEF ClearItem, wishVars, queueVars, mainVars, historyVars
<1>16. CASE CancelTask
  BY <1>16 DEF CancelTask, wishVars, queueVars, mainVars
<1>17. CASE ClearTask
  BY <1>17 DEF ClearTask, wishVars, queueVars, mainVars
<1>18. CASE ScheduleReconnect
  BY <1>18 DEF ScheduleReconnect, wishVars, socketVars, mainVars, historyVars
<1>19. CASE Feed
  BY <1>19 DEF Feed, Fate, wishVars, mainVars
<1>20. CASE UNCHANGED vars
  BY <1>20 DEF vars, wishVars, socketVars, queueVars, mainVars, netVars, historyVars
<1>. QED
  BY <1>1, <1>2, <1>3, <1>4, <1>5, <1>6, <1>7, <1>8, <1>9, <1>10,
     <1>11, <1>12, <1>13, <1>14, <1>15, <1>16, <1>17, <1>18, <1>19, <1>20
     DEF Next, MainGoesOn, NetGoesOn

\* Every step keeps the invariant.
LEMMA Step == IInv /\ [Next]_vars => IInv'
BY MainStep, NetStep, RoomStep, TypeStep, LeftOverStep, UnderWayStep, AckedStep DEF IInv

-----------------------------------------------------------------------------
(* The theorems                                                            *)

\* The invariant holds at first.
LEMMA InitIInv == Init => IInv
<1>. SUFFICES ASSUME Init PROVE IInv
  OBVIOUS
<1>. USE ViewerAssumption DEF Init
<1>0. wantConnection \in BOOLEAN /\ validHost \in BOOLEAN
  OBVIOUS
<1>1. TypeOK
  BY <1>0 DEF TypeOK, MainSteps, NetSteps
<1>2. RoomForBlocks
  BY DEF RoomForBlocks, MayEnd, MayDrop, Dropping
<1>3. MainMidway /\ NetMidway
  BY DEF MainMidway, NetMidway
<1>4. NothingLeftOver /\ AlwaysUnderWay /\ AckedIsLast
  BY DEF NothingLeftOver, AlwaysUnderWay, AckedIsLast
<1>. QED BY <1>1, <1>2, <1>3, <1>4 DEF IInv

\* So it holds always.
LEMMA Invariance == Spec => []IInv
BY InitIInv, Step, PTL DEF Spec

\* Every variable keeps its type, and the reconnects that are due stay within the bound
\* that the guards of connect and of a delivered error leave them (StreamClient).
THEOREM TypeCorrect == Spec => []TypeOK
<1>1. IInv => TypeOK
  BY DEF IInv
<1>. QED BY <1>1, Invariance, PTL

\* With the two threads' lines in any order, no attempt leaves a socket or a timeout
\* behind but one that the main thread set between two lines of the queue's
\* teardownSocket or receiveLoop; and the client holds none after disconnect().
THEOREM AttemptsLeaveNothing == Spec => []NothingLeftOver
<1>1. IInv => NothingLeftOver
  BY DEF IInv
<1>. QED BY <1>1, Invariance, PTL

\* A wanted connection has a reconnect that is due or about to be, or a socket that will
\* call back and whose silence has an end, but for a timeout that another task's callback
\* took (scheduleReconnect, armHandshakeTimeout, receiveLoop).
THEOREM NeverAbandoned == Spec => []AlwaysUnderWay
<1>1. IInv => AlwaysUnderWay
  BY DEF IInv
<1>. QED BY <1>1, Invariance, PTL

\* When the main thread has shown what was posted, an acknowledged stream is shown as one
\* (HELLO_ACK in handle, scheduleReconnect).
THEOREM AcknowledgementIsShown == Spec => []AcknowledgedIsShown
<1>1. IInv => AcknowledgedIsShown
  BY DEF IInv, AckedIsLast, AcknowledgedIsShown
<1>. QED BY <1>1, Invariance, PTL
===============================================================================
