--------------------------- MODULE RdpClientProofs ---------------------------
(***************************************************************************)
(* The safety of RdpClient for any number of sessions that are replaced    *)
(* and reused: its types and ShownIsBacked. What is posted to the main     *)
(* queue outlives the state of the thread it was posted from, and the      *)
(* order of the queue is what makes up for it: the end of a session is     *)
(* posted last.                                                            *)
(***************************************************************************)
EXTENDS RdpClient, TLAPS

Messages == [kind : Kinds, of : Sessions]

\* A thread that is past its connection and has not told its end.
Ending == {"running", "closing", "freed", "reporting"}

\* A question that is to be delivered is of a thread that waits for the answer, and
\* the only one of it: neither the alert nor another post is about the same session.
PromptsWait ==
  \A i \in DOMAIN posted : posted[i].kind = "prompt" =>
    /\ pc[posted[i].of] = "verifying"
    /\ pending # posted[i].of
    /\ \A j \in DOMAIN posted : posted[j] = posted[i] => j = i

\* Nothing is under way of a session whose thread waits for its predecessor's abort.
StartsFresh ==
  call # None /\ call.op = "abort" /\ bridge # None =>
    pc[bridge] = "none" /\ \A i \in DOMAIN posted : posted[i].of # bridge

\* The main thread makes its calls at once: no alert comes up in between.
CallsFirst == call # None => pending = None

\* The end of b comes after the i-th of the posts.
EndFollows(i, b) ==
  \E j \in DOMAIN posted : j > i /\ posted[j] = [kind |-> "ended", of |-> b]

\* What a thread has posted of its stream is followed by its end, if that has come.
PostsInOrder ==
  \A i \in DOMAIN posted :
    /\ posted[i].kind = "connected" =>
         pc[posted[i].of] \in {"connected"} \cup Ending \/ EndFollows(i, posted[i].of)
    /\ posted[i].kind = "frame" =>
         pc[posted[i].of] \in Ending \/ EndFollows(i, posted[i].of)

\* ShownIsBacked, where "connecting" is also backed while input is being sent.
StreamIsBacked ==
  status = "streaming" =>
    \E b \in Sessions : pc[b] \in {"connected"} \cup Ending \/ Posted("ended", b)
FrameIsBacked == frame # None => pc[frame] \in Ending \/ Posted("ended", frame)
ConnectIsBacked ==
  status = "connecting" =>
    /\ bridge # None
    /\ \/ call # None /\ call.op = "abort"
       \/ pc[bridge] # "none"
       \/ Posted("ended", bridge)

IInv ==
  /\ TypeOK /\ PromptsWait /\ StartsFresh /\ CallsFirst /\ PostsInOrder
  /\ StreamIsBacked /\ FrameIsBacked /\ ConnectIsBacked

-----------------------------------------------------------------------------
(* The main queue                                                          *)

\* A post goes to the end of the queue.
LEMMA Appended ==
  ASSUME NEW q \in Seq(Messages), NEW m \in Messages
  PROVE  LET r == Append(q, m) IN
         /\ r \in Seq(Messages)
         /\ DOMAIN r = DOMAIN q \cup {Len(q) + 1}
         /\ \A i \in DOMAIN q : i \in Nat /\ i < Len(q) + 1 /\ r[i] = q[i]
         /\ r[Len(q) + 1] = m
OBVIOUS

\* A delivery moves what is left one place ahead.
LEMMA Delivered ==
  ASSUME NEW q \in Seq(Messages), q # <<>>
  PROVE  /\ Tail(q) \in Seq(Messages)
         /\ 1 \in DOMAIN q /\ Head(q) = q[1] /\ Head(q) \in Messages
         /\ \A i \in DOMAIN Tail(q) :
              i \in Nat \ {0} /\ i + 1 \in DOMAIN q /\ Tail(q)[i] = q[i + 1]
         /\ \A i \in DOMAIN q :
              i \in Nat \ {0} /\ (i # 1 => i - 1 \in DOMAIN Tail(q) /\ Tail(q)[i - 1] = q[i])
<1>1. Len(q) \in Nat \ {0} /\ DOMAIN q = 1..Len(q)
  OBVIOUS
<1>2. Len(Tail(q)) = Len(q) - 1 /\ DOMAIN Tail(q) = 1..(Len(q) - 1)
  BY <1>1
<1>. QED BY <1>1, <1>2

\* A message is its kind and its session.
LEMMA SameMessage ==
  ASSUME NEW x \in Messages, NEW y \in Messages, x.kind = y.kind, x.of = y.of
  PROVE  x = y
BY DEF Messages

\* What is posted are messages.
LEMMA PostsType ==
  IInv => posted \in Seq(Messages) /\ \A i \in DOMAIN posted : posted[i] \in Messages
<1>1. IInv => posted \in Seq(Messages)
  BY DEF IInv, TypeOK, Messages
<1>2. \A q \in Seq(Messages) : \A i \in DOMAIN q : q[i] \in Messages
  OBVIOUS
<1>. QED BY <1>1, <1>2

\* A post is one more message, at the end.
LEMMA PostType ==
  ASSUME IInv, NEW kind \in Kinds, NEW b \in Sessions, Post(kind, b)
  PROVE  /\ posted' \in Seq(Messages)
         /\ DOMAIN posted' = DOMAIN posted \cup {Len(posted) + 1}
         /\ \A i \in DOMAIN posted : i \in Nat /\ i < Len(posted) + 1 /\ posted'[i] = posted[i]
         /\ posted'[Len(posted) + 1] = [kind |-> kind, of |-> b]
<1>1. posted \in Seq(Messages) /\ [kind |-> kind, of |-> b] \in Messages
  BY DEF IInv, TypeOK, Messages
<1>. QED BY <1>1, Appended DEF Post

-----------------------------------------------------------------------------
(* Types                                                                   *)

\* Every step keeps the types.
LEMMA TypeStep == IInv /\ [Next]_vars => TypeOK'
<1>. SUFFICES ASSUME IInv, [Next]_vars PROVE TypeOK'
  OBVIOUS
<1>. USE RdpAssumption
<1>0. TypeOK /\ posted \in Seq(Messages)
  BY DEF IInv, TypeOK, Messages
<1>1. ASSUME NEW b \in Sessions, Connect(b) PROVE TypeOK'
  <2>1. Stopped \subseteq Sessions
    BY <1>0 DEF Stopped, TypeOK
  <2>2. call' \in Calls \cup {None} /\ misused' \in BOOLEAN
    <3>1. CASE bridge # None /\ pc[bridge] \in WithInstance
      <4>1. call' = [op |-> "abort", of |-> bridge] /\ misused' = (misused \/ pc[bridge] = "freed")
        BY <1>1, <3>1 DEF Connect, Abort
      <4>2. call' \in Calls
        BY <1>0, <3>1, <4>1 DEF TypeOK, Calls
      <4>3. misused' \in BOOLEAN
        BY <4>1
      <4>. QED BY <4>2, <4>3
    <3>2. CASE ~(bridge # None /\ pc[bridge] \in WithInstance)
      BY <1>0, <1>1, <3>2 DEF Connect, Abort, TypeOK
    <3>. QED BY <3>1, <3>2
  <2>3. pc' \in [Sessions -> PCs] /\ error' \in [Sessions -> BOOLEAN]
    BY <1>0, <1>1 DEF Connect, TypeOK, PCs, WithInstance
  <2>. QED BY <1>0, <1>1, <2>1, <2>2, <2>3 DEF Connect, TypeOK, Statuses
<1>2. CASE Disconnect
  <2>1. Stopped \subseteq Sessions
    BY <1>0 DEF Stopped, TypeOK
  <2>2. call' \in Calls \cup {None} /\ misused' \in BOOLEAN
    <3>1. CASE bridge # None /\ pc[bridge] \in WithInstance
      <4>1. call' = [op |-> "abort", of |-> bridge] /\ misused' = (misused \/ pc[bridge] = "freed")
        BY <1>2, <3>1 DEF Disconnect, Abort
      <4>2. call' \in Calls
        BY <1>0, <3>1, <4>1 DEF TypeOK, Calls
      <4>3. misused' \in BOOLEAN
        BY <4>1
      <4>. QED BY <4>2, <4>3
    <3>2. CASE ~(bridge # None /\ pc[bridge] \in WithInstance)
      BY <1>0, <1>2, <3>2 DEF Disconnect, Abort, TypeOK
    <3>. QED BY <3>1, <3>2
  <2>. QED BY <1>0, <1>2, <2>1, <2>2 DEF Disconnect, TypeOK, Statuses
<1>3. CASE Input
  <2>1. call' \in Calls
    BY <1>0, <1>3 DEF Input, TypeOK, Calls
  <2>2. misused' \in BOOLEAN
    BY <1>3 DEF Input
  <2>. QED BY <1>0, <1>3, <2>1, <2>2 DEF Input, TypeOK, threadVars
<1>4. CASE UseContext
  <2>1. misused' \in BOOLEAN
    BY <1>4 DEF UseContext
  <2>2. pc' \in [Sessions -> PCs] /\ pending' = None
    BY <1>0, <1>4 DEF UseContext, Go, TypeOK, PCs, IInv, CallsFirst
  <2>. QED BY <1>0, <1>4, <2>1, <2>2 DEF UseContext, TypeOK
<1>5. CASE Deliver
  <2>. DEFINE m == Head(posted)
  <2>1. m \in Messages /\ posted' \in Seq(Messages) /\ m = posted[1] /\ 1 \in DOMAIN posted
    BY <1>0, <1>5, Delivered DEF Deliver
  <2>2. status' \in Statuses
    BY <1>0, <1>5, <2>1 DEF Deliver, TypeOK, Statuses
  <2>3. frame' \in Sessions \cup {None}
    BY <1>0, <1>5, <2>1 DEF Deliver, TypeOK, Messages
  <2>4. pending' \in Sessions \cup {None} /\ (pending' # None => pc[pending'] = "verifying")
    BY <1>0, <1>5, <2>1 DEF Deliver, TypeOK, Messages, IInv, PromptsWait
  <2>. QED BY <1>0, <1>5, <2>1, <2>2, <2>3, <2>4 DEF Deliver, TypeOK, threadVars, Messages
<1>6. CASE Answer
  BY <1>0, <1>6 DEF Answer, Go, TypeOK, PCs, WithInstance, WithContext
<1>7. ASSUME NEW b \in Sessions,
             UNCHANGED <<mainVars, stopping, misused>>,
             pc[b] # "verifying",
             posted' \in Seq(Messages),
             pc' = pc \/ \E l \in PCs : Go(b, l),
             error' \in [Sessions -> BOOLEAN]
      PROVE  TypeOK'
  <2>1. pc' \in [Sessions -> PCs]
    BY <1>0, <1>7 DEF Go, TypeOK
  <2>2. pending # None => pc'[pending] = "verifying"
    BY <1>0, <1>7 DEF Go, TypeOK
  <2>. QED BY <1>0, <1>7, <2>1, <2>2 DEF TypeOK, mainVars, Messages
<1>8. ASSUME NEW b \in Sessions, ConnectStep(b) PROVE TypeOK'
  <2>1. error' \in [Sessions -> BOOLEAN]
    BY <1>0, <1>8
       DEF ConnectStep, SetUp, VerifyCertificate, PostConnect, ConnectReturns, ConnectFails,
           TypeOK
  <2>2. posted' \in Seq(Messages)
    <3>1. UNCHANGED posted \/ \E kind \in Kinds : Post(kind, b)
      BY <1>8
         DEF ConnectStep, SetUp, VerifyCertificate, PostConnect, ConnectReturns, ConnectFails,
             Kinds
    <3>. QED BY <1>0, <3>1, PostType
  <2>3. pc[b] # "verifying" /\ \E l \in PCs : Go(b, l)
    BY <1>8
       DEF ConnectStep, SetUp, VerifyCertificate, PostConnect, ConnectReturns, ConnectFails,
           PCs, WithInstance, WithContext
  <2>4. UNCHANGED <<mainVars, stopping, misused>>
    BY <1>8
       DEF ConnectStep, SetUp, VerifyCertificate, PostConnect, ConnectReturns, ConnectFails
  <2>. QED BY <1>7, <2>1, <2>2, <2>3, <2>4
<1>9. ASSUME NEW b \in Sessions, EndPaint(b) PROVE TypeOK'
  <2>1. posted' \in Seq(Messages)
    BY <1>9, PostType DEF EndPaint, Kinds
  <2>2. /\ pc[b] # "verifying" /\ pc' = pc /\ error' = error
        /\ UNCHANGED <<mainVars, stopping, misused>>
    BY <1>9 DEF EndPaint, threadVars
  <2>. QED BY <1>0, <1>7, <2>1, <2>2 DEF TypeOK
<1>10. ASSUME NEW b \in Sessions, LoopEnds(b) \/ EndStep(b) PROVE TypeOK'
  <2>1. error' \in [Sessions -> BOOLEAN]
    BY <1>0, <1>10
       DEF LoopEnds, EndStep, FreeContext, ClearInstance, ReportDisconnected, TypeOK
  <2>2. posted' \in Seq(Messages)
    <3>1. UNCHANGED posted \/ \E kind \in Kinds : Post(kind, b)
      BY <1>10
         DEF LoopEnds, EndStep, FreeContext, ClearInstance, ReportDisconnected, Kinds
    <3>. QED BY <1>0, <3>1, PostType
  <2>3. pc[b] # "verifying" /\ \E l \in PCs : Go(b, l)
    BY <1>10
       DEF LoopEnds, EndStep, FreeContext, ClearInstance, ReportDisconnected,
           PCs, WithInstance, WithContext
  <2>4. UNCHANGED <<mainVars, stopping, misused>>
    BY <1>10 DEF LoopEnds, EndStep, FreeContext, ClearInstance, ReportDisconnected
  <2>. QED BY <1>7, <2>1, <2>2, <2>3, <2>4
<1>11. CASE UNCHANGED vars
  BY <1>0, <1>11 DEF vars, mainVars, threadVars, TypeOK
<1>. QED BY <1>1, <1>2, <1>3, <1>4, <1>5, <1>6, <1>8, <1>9, <1>10, <1>11 DEF Next

-----------------------------------------------------------------------------
(* Posts and the threads they are from                                     *)

\* What holds of every state besides the types.
Rest ==
  /\ PromptsWait /\ StartsFresh /\ CallsFirst /\ PostsInOrder
  /\ StreamIsBacked /\ FrameIsBacked /\ ConnectIsBacked

\* A post takes no end away.
LEMMA EndsKept ==
  ASSUME IInv, NEW kind \in Kinds, NEW b \in Sessions, Post(kind, b)
  PROVE  /\ \A c : Posted("ended", c) => Posted("ended", c)'
         /\ \A c : \A i \in DOMAIN posted : EndFollows(i, c) => EndFollows(i, c)'
BY PostType DEF Posted, EndFollows

\* A step of a thread that posts nothing and stays ahead of its end.
LEMMA QuietStep ==
  ASSUME IInv, NEW b \in Sessions, UNCHANGED <<mainVars, posted>>,
         pc' = pc \/ \E l \in PCs \ {"none"} : Go(b, l),
         pc[b] \notin {"none", "verifying"},
         pc[b] = "connected" => pc'[b] \in Ending,
         pc[b] \in Ending => pc'[b] \in Ending
  PROVE  Rest'
<1>. USE RdpAssumption
<1>0. TypeOK /\ Rest
  BY DEF IInv, Rest
<1>1. \A c \in Sessions : c # b => pc'[c] = pc[c]
  BY <1>0 DEF Go, TypeOK
<1>2. pc'[b] # "none"
  BY <1>0 DEF Go, TypeOK
<1>3. \A i \in DOMAIN posted : posted[i] \in Messages
  BY PostsType
<1>4. PromptsWait'
  BY <1>0, <1>1, <1>3 DEF Rest, PromptsWait, mainVars, Messages
<1>5. StartsFresh' /\ CallsFirst'
  BY <1>0, <1>1 DEF Rest, StartsFresh, CallsFirst, mainVars, TypeOK
<1>6. PostsInOrder'
  BY <1>0, <1>1, <1>3 DEF Rest, PostsInOrder, EndFollows, Messages
<1>7. StreamIsBacked' /\ FrameIsBacked' /\ ConnectIsBacked'
  BY <1>0, <1>1, <1>2
     DEF Rest, StreamIsBacked, FrameIsBacked, ConnectIsBacked, Posted, mainVars, TypeOK
<1>. QED BY <1>4, <1>5, <1>6, <1>7 DEF Rest

\* A step of a thread that posts: a question before it waits, its stream while it has
\* one, its end when it is over.
LEMMA PostingStep ==
  ASSUME IInv, NEW b \in Sessions, NEW kind \in Kinds, UNCHANGED mainVars, Post(kind, b),
         pc' = pc \/ \E l \in PCs : Go(b, l),
         pc[b] \notin {"none", "verifying"},
         kind = "prompt" => pc'[b] = "verifying",
         kind = "connected" => pc'[b] = "connected",
         kind = "frame" => pc'[b] \in Ending,
         kind # "ended" => pc'[b] # "none" /\ pc[b] # "connected",
         kind # "ended" => (pc[b] \in Ending => pc'[b] \in Ending)
  PROVE  Rest'
<1>. USE RdpAssumption
<1>0. TypeOK /\ Rest
  BY DEF IInv, Rest
<1>. DEFINE n == Len(posted) + 1
<1>1. \A c \in Sessions : c # b => pc'[c] = pc[c]
  BY <1>0 DEF Go, TypeOK
<1>2. \A i \in DOMAIN posted : posted[i] \in Messages
  BY PostsType
<1>3. /\ DOMAIN posted' = DOMAIN posted \cup {n}
      /\ \A i \in DOMAIN posted : i \in Nat /\ i < n /\ posted'[i] = posted[i]
      /\ posted'[n] = [kind |-> kind, of |-> b]
  BY PostType
<1>4. /\ \A c : Posted("ended", c) => Posted("ended", c)'
      /\ \A c : \A i \in DOMAIN posted : EndFollows(i, c) => EndFollows(i, c)'
  BY EndsKept
<1>5. kind = "ended" => /\ Posted("ended", b)'
                        /\ \A i \in DOMAIN posted : EndFollows(i, b)'
  BY <1>3 DEF Posted, EndFollows
<1>. HIDE DEF n
<1>6. PromptsWait'
  <2>1. \A i \in DOMAIN posted : posted[i].kind = "prompt" => posted[i].of # b
    BY <1>0 DEF Rest, PromptsWait
  <2>2. pending # b
    BY <1>0 DEF TypeOK
  <2>3. ASSUME NEW i \in DOMAIN posted', posted'[i].kind = "prompt"
        PROVE  /\ pc'[posted'[i].of] = "verifying" /\ pending' # posted'[i].of
               /\ \A j \in DOMAIN posted' : posted'[j] = posted'[i] => j = i
    <3>1. CASE i \in DOMAIN posted
      BY <1>0, <1>1, <1>2, <1>3, <2>1, <2>3, <3>1 DEF Rest, PromptsWait, mainVars, Messages
    <3>2. CASE i = n
      BY <1>3, <2>1, <2>2, <2>3, <3>2 DEF mainVars
    <3>. QED BY <1>3, <3>1, <3>2
  <2>. QED BY <2>3 DEF PromptsWait
<1>7. StartsFresh' /\ CallsFirst'
  <2>1. call # None /\ call.op = "abort" /\ bridge # None => bridge # b
    BY <1>0 DEF Rest, StartsFresh
  <2>. QED BY <1>0, <1>1, <1>3, <2>1 DEF Rest, StartsFresh, CallsFirst, mainVars, TypeOK
<1>8. PostsInOrder'
  <2>1. ASSUME NEW i \in DOMAIN posted'
        PROVE  /\ posted'[i].kind = "connected" =>
                    pc'[posted'[i].of] \in {"connected"} \cup Ending
                      \/ EndFollows(i, posted[i].of)'
               /\ posted'[i].kind = "frame" =>
                    pc'[posted'[i].of] \in Ending \/ EndFollows(i, posted[i].of)'
    <3>1. CASE i \in DOMAIN posted
      <4>1. posted'[i] = posted[i] /\ posted[i].of \in Sessions
        BY <1>2, <1>3, <3>1 DEF Messages
      <4>2. CASE posted[i].of = b
        BY <1>0, <1>4, <1>5, <3>1, <4>1, <4>2 DEF Rest, PostsInOrder
      <4>3. CASE posted[i].of # b
        BY <1>0, <1>1, <1>4, <3>1, <4>1, <4>3 DEF Rest, PostsInOrder
      <4>. QED BY <4>2, <4>3
    <3>2. CASE i = n
      BY <1>3, <3>2
    <3>. QED BY <1>3, <3>1, <3>2
  <2>. QED BY <2>1 DEF PostsInOrder, EndFollows
<1>9. StreamIsBacked' /\ FrameIsBacked' /\ ConnectIsBacked'
  BY <1>0, <1>1, <1>4, <1>5
     DEF Rest, StreamIsBacked, FrameIsBacked, ConnectIsBacked, mainVars, TypeOK
<1>. QED BY <1>6, <1>7, <1>8, <1>9 DEF Rest

\* The main thread's steps, which post nothing, where they leave the threads alone.
LEMMA MainStep ==
  ASSUME IInv, UNCHANGED <<posted, pc, pending>>, CallsFirst', StartsFresh',
         StreamIsBacked', FrameIsBacked', ConnectIsBacked'
  PROVE  Rest'
BY DEF IInv, Rest, PromptsWait, PostsInOrder, EndFollows

\* Every step keeps what IInv says beyond the types.
LEMMA RestStep == IInv /\ [Next]_vars => Rest'
<1>. SUFFICES ASSUME IInv, [Next]_vars PROVE Rest'
  OBVIOUS
<1>. USE RdpAssumption
<1>0. TypeOK /\ Rest
  BY DEF IInv, Rest
<1>p. posted \in Seq(Messages) /\ \A i \in DOMAIN posted : posted[i] \in Messages
  BY PostsType
<1>1. ASSUME NEW b \in Sessions, Connect(b) PROVE Rest'
  <2>1. /\ bridge' = b /\ status' = "connecting" /\ frame' = None /\ pending = None
        /\ UNCHANGED <<pending, posted>>
        /\ pc' = [pc EXCEPT ![b] = IF call' = None THEN "starting" ELSE "none"]
        /\ pc[b] = "none" /\ \A i \in DOMAIN posted : posted[i].of # b
    BY <1>1 DEF Connect, Free
  <2>2. call' = None \/ call'.op = "abort"
    BY <1>1 DEF Connect, Abort
  <2>3. pc'[b] = IF call' = None THEN "starting" ELSE "none"
    BY <1>0, <2>1 DEF TypeOK
  <2>4. \A c \in Sessions : c # b => pc'[c] = pc[c]
    BY <1>0, <2>1 DEF TypeOK
  <2>5. PromptsWait' /\ PostsInOrder'
    BY <1>0, <1>p, <2>1, <2>4 DEF Rest, PromptsWait, PostsInOrder, EndFollows, Messages
  <2>6. StartsFresh' /\ CallsFirst'
    BY <2>1, <2>3 DEF StartsFresh, CallsFirst
  <2>7. StreamIsBacked' /\ FrameIsBacked' /\ ConnectIsBacked'
    BY <2>1, <2>2, <2>3 DEF StreamIsBacked, FrameIsBacked, ConnectIsBacked
  <2>. QED BY <2>5, <2>6, <2>7 DEF Rest
<1>2. CASE Disconnect
  <2>1. /\ bridge' = None /\ status' = "idle" /\ frame' = None /\ pending = None
        /\ UNCHANGED <<pending, posted, pc>>
    BY <1>2 DEF Disconnect
  <2>. QED BY <2>1, MainStep
       DEF StartsFresh, CallsFirst, StreamIsBacked, FrameIsBacked, ConnectIsBacked
<1>3. CASE Input
  <2>1. /\ call = None /\ pending = None /\ call'.op = "input" /\ pc[bridge] # "none"
        /\ UNCHANGED <<status, frame, bridge, pending, posted, pc>>
    BY <1>3 DEF Input, WithInstance, WithContext, threadVars
  <2>. QED BY <1>0, <2>1, MainStep
       DEF Rest, StartsFresh, CallsFirst, StreamIsBacked, FrameIsBacked, ConnectIsBacked,
           Posted
<1>4. CASE UseContext
  <2>1. /\ call # None /\ call' = None
        /\ UNCHANGED <<status, frame, bridge, pending, posted>>
    BY <1>4 DEF UseContext
  <2>2. CASE call.op = "abort" /\ bridge # None
    <3>1. pc' = [pc EXCEPT ![bridge] = "starting"] /\ bridge \in Sessions
      BY <1>0, <1>4, <2>2 DEF UseContext, Go, TypeOK
    <3>2. pc[bridge] = "none" /\ \A i \in DOMAIN posted : posted[i].of # bridge
      BY <1>0, <2>1, <2>2 DEF Rest, StartsFresh
    <3>3. pc'[bridge] = "starting" /\ \A c \in Sessions : c # bridge => pc'[c] = pc[c]
      BY <1>0, <3>1 DEF TypeOK
    <3>4. PromptsWait' /\ PostsInOrder'
      BY <1>0, <1>p, <2>1, <3>2, <3>3
         DEF Rest, PromptsWait, PostsInOrder, EndFollows, Messages
    <3>5. StartsFresh' /\ CallsFirst'
      BY <2>1 DEF StartsFresh, CallsFirst
    <3>6. StreamIsBacked' /\ FrameIsBacked' /\ ConnectIsBacked'
      BY <1>0, <2>1, <3>1, <3>2, <3>3
         DEF Rest, StreamIsBacked, FrameIsBacked, ConnectIsBacked, Posted, Ending, TypeOK
    <3>. QED BY <3>4, <3>5, <3>6 DEF Rest
  <2>3. CASE ~(call.op = "abort" /\ bridge # None)
    <3>1. pc' = pc
      BY <1>4, <2>3 DEF UseContext
    <3>. QED BY <1>0, <2>1, <2>3, <3>1, MainStep
         DEF Rest, StartsFresh, CallsFirst, StreamIsBacked, FrameIsBacked, ConnectIsBacked,
             Posted
  <2>. QED BY <2>2, <2>3
<1>5. CASE Deliver
  <2>. DEFINE m == Head(posted)
  <2>1. /\ call = None /\ posted # <<>> /\ posted' = Tail(posted)
        /\ UNCHANGED <<bridge, call, pc>>
    BY <1>5 DEF Deliver, threadVars
  <2>2. /\ 1 \in DOMAIN posted /\ m = posted[1] /\ m \in Messages
        /\ \A i \in DOMAIN posted' :
             i \in Nat \ {0} /\ i + 1 \in DOMAIN posted /\ posted'[i] = posted[i + 1]
        /\ \A i \in DOMAIN posted :
             i \in Nat \ {0} /\ (i # 1 => i - 1 \in DOMAIN posted' /\ posted'[i - 1] = posted[i])
    BY <1>p, <2>1, Delivered
  <2>3. /\ pending' = IF m.kind = "prompt" THEN m.of ELSE pending
        /\ m.kind = "connected" => status' = "streaming" /\ frame' = frame
        /\ m.kind = "ended" => status' \in {"failed", "idle"} /\ frame' = None
        /\ m.kind = "frame" => status' = status /\ frame' = m.of
        /\ m.kind = "prompt" => status' = status /\ frame' = frame
    BY <1>5 DEF Deliver
  <2>. DEFINE Left(c) == \E j \in DOMAIN posted' : posted'[j] = [kind |-> "ended", of |-> c]
              LeftAfter(i, c) ==
                \E j \in DOMAIN posted' : j > i /\ posted'[j] = [kind |-> "ended", of |-> c]
  <2>. HIDE DEF m
  <2>4. PromptsWait'
    <3>1. ASSUME NEW i \in DOMAIN posted', posted'[i].kind = "prompt"
          PROVE  /\ pc[posted'[i].of] = "verifying" /\ pending' # posted'[i].of
                 /\ \A j \in DOMAIN posted' : posted'[j] = posted'[i] => j = i
      <4>1. i + 1 \in DOMAIN posted /\ posted[i + 1] = posted'[i] /\ i + 1 # 1
        BY <2>2, <3>1
      <4>2. m.kind = "prompt" => m.of # posted'[i].of
        <5>1. m.kind = "prompt" /\ m.of = posted'[i].of => m = posted[i + 1]
          <6>1. posted[i + 1] \in Messages
            BY <1>p, <4>1
          <6>. QED BY <2>2, <3>1, <4>1, <6>1, SameMessage
        <5>. QED BY <1>0, <2>2, <4>1, <5>1 DEF Rest, PromptsWait
      <4>3. \A j \in DOMAIN posted' : posted'[j] = posted'[i] => j = i
        BY <1>0, <2>2, <3>1, <4>1 DEF Rest, PromptsWait
      <4>. QED BY <1>0, <2>3, <3>1, <4>1, <4>2, <4>3 DEF Rest, PromptsWait
    <3>. QED BY <2>1, <3>1 DEF PromptsWait
  <2>5. StartsFresh' /\ CallsFirst'
    BY <2>1 DEF StartsFresh, CallsFirst
  <2>6. \A i \in DOMAIN posted : \A c : EndFollows(i, c) => Left(c)
    BY <2>2 DEF EndFollows
  <2>7. PostsInOrder'
    <3>1. ASSUME NEW i \in DOMAIN posted'
          PROVE  /\ posted'[i].kind = "connected" =>
                      pc[posted'[i].of] \in {"connected"} \cup Ending
                        \/ LeftAfter(i, posted'[i].of)
                 /\ posted'[i].kind = "frame" =>
                      pc[posted'[i].of] \in Ending \/ LeftAfter(i, posted'[i].of)
      <4>1. i + 1 \in DOMAIN posted /\ posted[i + 1] = posted'[i] /\ i \in Nat
        BY <2>2
      <4>2. EndFollows(i + 1, posted'[i].of) => LeftAfter(i, posted'[i].of)
        BY <2>2, <4>1 DEF EndFollows
      <4>. HIDE DEF LeftAfter
      <4>. QED BY <1>0, <4>1, <4>2 DEF Rest, PostsInOrder
    <3>. QED BY <2>1, <3>1 DEF PostsInOrder, EndFollows
  <2>8. m.kind # "ended" => \A c : Posted("ended", c) => Left(c)
    BY <2>2 DEF Posted
  <2>9. m.kind \in Kinds /\ m.of \in Sessions
    BY <2>2 DEF Messages
  <2>10. m.kind = "connected" => pc[m.of] \in {"connected"} \cup Ending \/ Left(m.of)
    BY <1>0, <2>2, <2>6 DEF Rest, PostsInOrder
  <2>11. m.kind = "frame" => pc[m.of] \in Ending \/ Left(m.of)
    BY <1>0, <2>2, <2>6 DEF Rest, PostsInOrder
  <2>12. StreamIsBacked'
    BY <1>0, <2>1, <2>3, <2>8, <2>9, <2>10 DEF Rest, StreamIsBacked, Posted, Kinds
  <2>13. FrameIsBacked'
    BY <1>0, <2>1, <2>3, <2>8, <2>9, <2>11 DEF Rest, FrameIsBacked, Posted, Kinds
  <2>14. ConnectIsBacked'
    BY <1>0, <2>1, <2>3, <2>8, <2>9 DEF Rest, ConnectIsBacked, Posted, Kinds
  <2>. QED BY <2>4, <2>5, <2>7, <2>12, <2>13, <2>14 DEF Rest
<1>6. CASE Answer
  <2>1. /\ pending \in Sessions /\ pc[pending] = "verifying" /\ pending' = None
        /\ UNCHANGED <<status, frame, bridge, call, posted>>
        /\ pc'[pending] \in {"trusted", "refused"}
        /\ \A c \in Sessions : c # pending => pc'[c] = pc[c]
    BY <1>0, <1>6 DEF Answer, Go, TypeOK
  <2>2. PromptsWait' /\ PostsInOrder'
    BY <1>0, <1>p, <2>1
       DEF Rest, PromptsWait, PostsInOrder, EndFollows, Messages, Ending
  <2>3. StartsFresh' /\ CallsFirst'
    BY <1>0, <2>1 DEF Rest, StartsFresh, CallsFirst, TypeOK
  <2>4. StreamIsBacked' /\ FrameIsBacked' /\ ConnectIsBacked'
    BY <1>0, <2>1
       DEF Rest, StreamIsBacked, FrameIsBacked, ConnectIsBacked, Posted, Ending, TypeOK
  <2>. QED BY <2>2, <2>3, <2>4 DEF Rest
<1>7. ASSUME NEW b \in Sessions,
             SetUp(b) \/ ConnectReturns(b) \/ ConnectFails(b) \/ LoopEnds(b)
               \/ FreeContext(b) \/ ClearInstance(b)
      PROVE  Rest'
  <2>1. /\ UNCHANGED <<mainVars, posted>> /\ pc[b] \notin {"none", "verifying"}
        /\ \E l \in PCs \ {"none"} : Go(b, l) /\ (pc[b] \in {"connected"} \cup Ending => l \in Ending)
    BY <1>7
       DEF SetUp, ConnectReturns, ConnectFails, LoopEnds, FreeContext, ClearInstance, PCs,
           WithInstance, WithContext, Ending
  <2>2. pc[b] \in {"connected"} \cup Ending => pc'[b] \in Ending
    BY <1>0, <2>1 DEF Go, TypeOK
  <2>. QED BY <2>1, <2>2, QuietStep
<1>8. ASSUME NEW b \in Sessions, VerifyCertificate(b) PROVE Rest'
  <2>1. /\ UNCHANGED mainVars /\ Post("prompt", b) /\ Go(b, "verifying") /\ "verifying" \in PCs
        /\ pc[b] = "connecting" /\ pc'[b] = "verifying" /\ "prompt" \in Kinds
    BY <1>0, <1>8 DEF VerifyCertificate, Go, TypeOK, Kinds, PCs, WithInstance, WithContext
  <2>. QED BY <2>1, PostingStep DEF Ending
<1>9. ASSUME NEW b \in Sessions, PostConnect(b) PROVE Rest'
  <2>1. /\ UNCHANGED mainVars /\ Post("connected", b) /\ Go(b, "connected")
        /\ "connected" \in PCs /\ "connected" \in Kinds
        /\ pc[b] \in {"connecting", "trusted"} /\ pc'[b] = "connected"
    BY <1>0, <1>9 DEF PostConnect, Go, TypeOK, Kinds, PCs, WithInstance, WithContext
  <2>. QED BY <2>1, PostingStep DEF Ending
<1>10. ASSUME NEW b \in Sessions, EndPaint(b) PROVE Rest'
  <2>1. /\ UNCHANGED mainVars /\ Post("frame", b) /\ pc' = pc /\ pc[b] = "running"
        /\ "frame" \in Kinds
    BY <1>10 DEF EndPaint, threadVars, Kinds
  <2>. QED BY <2>1, PostingStep DEF Ending
<1>11. ASSUME NEW b \in Sessions, ReportDisconnected(b) PROVE Rest'
  <2>1. /\ UNCHANGED mainVars /\ Post("ended", b) /\ Go(b, "none") /\ "none" \in PCs
        /\ pc[b] = "reporting" /\ "ended" \in Kinds
    BY <1>11 DEF ReportDisconnected, Kinds, PCs
  <2>. QED BY <2>1, PostingStep
<1>12. CASE UNCHANGED vars
  <2>1. UNCHANGED <<status, frame, bridge, call, pending, posted, pc>>
    BY <1>12 DEF vars, mainVars, threadVars
  <2>. QED BY <1>0, <2>1, MainStep
       DEF Rest, StartsFresh, CallsFirst, StreamIsBacked, FrameIsBacked, ConnectIsBacked,
           Posted
<1>. QED BY <1>1, <1>2, <1>3, <1>4, <1>5, <1>6, <1>7, <1>8, <1>9, <1>10, <1>11, <1>12
     DEF Next, ConnectStep, EndStep

-----------------------------------------------------------------------------
(* The theorems                                                            *)

\* The invariant holds at first.
LEMMA InitIInv == Init => IInv
<1>. SUFFICES ASSUME Init PROVE IInv
  OBVIOUS
<1>1. TypeOK
  <2>1. /\ error \in [Sessions -> BOOLEAN] /\ misused \in BOOLEAN
    BY DEF Init
  <2>. QED BY <2>1 DEF Init, TypeOK, Statuses, PCs
<1>2. Rest
  BY DEF Init, Rest, PromptsWait, StartsFresh, CallsFirst, PostsInOrder, StreamIsBacked,
         FrameIsBacked, ConnectIsBacked
<1>. QED BY <1>1, <1>2 DEF IInv, Rest

\* So it holds always.
LEMMA Invariance == Spec => []IInv
<1>1. IInv /\ [Next]_vars => IInv'
  BY TypeStep, RestStep DEF IInv, Rest
<1>. QED BY <1>1, InitIInv, PTL DEF Spec

\* Every variable keeps its type, and the alert is always about a thread that waits for
\* its answer, so that the answer signals the semaphore it was asked for
\* (clamshell_verify_certificate_ex).
THEOREM TypeCorrect == Spec => []TypeOK
<1>1. IInv => TypeOK
  BY DEF IInv
<1>. QED BY <1>1, Invariance, PTL

\* A stream or a picture on the screen has a thread behind it, or its end is on the main
\* queue; and a session that is said to connect will start, connects or has ended
\* (RDPSession's callbacks from the threads of RDPBridgeSession).
THEOREM NothingIsShownInVain == Spec => []ShownIsBacked
<1>1. IInv => ShownIsBacked
  BY DEF IInv, ShownIsBacked, StreamIsBacked, FrameIsBacked, ConnectIsBacked, Ending
<1>. QED BY <1>1, Invariance, PTL

-----------------------------------------------------------------------------
(* Sessions that are closed                                                *)

\* The thread of a session that RDPSession has no more is told to stop.
StoppedWhenClosed == \A b \in Sessions : pc[b] # "none" => b = bridge \/ b \in stopping

\* The step that closes or replaces a session tells its thread, and nothing takes that
\* back before the thread is over.
LEMMA ClosingStops == IInv /\ StoppedWhenClosed /\ [Next]_vars => StoppedWhenClosed'
<1>. SUFFICES ASSUME IInv, StoppedWhenClosed, [Next]_vars PROVE StoppedWhenClosed'
  OBVIOUS
<1>1. /\ pc \in [Sessions -> PCs] /\ stopping \subseteq Sessions
      /\ bridge \in Sessions \cup {None} /\ None \notin Sessions
  BY RdpAssumption DEF IInv, TypeOK
<1>2. ASSUME UNCHANGED <<bridge, stopping>>, NEW b \in Sessions, NEW l,
             pc' = [pc EXCEPT ![b] = l], pc[b] # "none" \/ b = bridge
      PROVE  StoppedWhenClosed'
  BY <1>1, <1>2 DEF StoppedWhenClosed
<1>3. ASSUME UNCHANGED <<bridge, stopping, pc>> PROVE StoppedWhenClosed'
  BY <1>3 DEF StoppedWhenClosed
<1>4. ASSUME NEW b \in Sessions, Connect(b) PROVE StoppedWhenClosed'
  <2>1. /\ bridge' = b /\ stopping' = Stopped \ {b}
        /\ \A c \in Sessions \ {b} : pc'[c] = pc[c]
    BY <1>1, <1>4 DEF Connect
  <2>. QED BY <1>1, <2>1 DEF StoppedWhenClosed, Stopped
<1>5. CASE Disconnect
  BY <1>1, <1>5 DEF Disconnect, Stopped, StoppedWhenClosed
<1>6. CASE Input \/ Deliver \/ UNCHANGED vars
  BY <1>3, <1>6 DEF Input, Deliver, vars, mainVars, threadVars
<1>7. CASE UseContext
  <2>1. CASE bridge # None /\ Go(bridge, "starting")
    BY <1>1, <1>2, <1>7, <2>1 DEF UseContext, Go
  <2>2. CASE UNCHANGED pc
    BY <1>3, <1>7, <2>2 DEF UseContext
  <2>. QED BY <1>7, <2>1, <2>2 DEF UseContext
<1>8. CASE Answer
  <2>1. pending \in Sessions /\ pc[pending] # "none"
    BY <1>8 DEF Answer, IInv, TypeOK
  <2>. QED BY <1>2, <1>8, <2>1 DEF Answer, Go
<1>9. ASSUME NEW b \in Sessions, ConnectStep(b) \/ EndPaint(b) \/ LoopEnds(b) \/ EndStep(b)
      PROVE  StoppedWhenClosed'
  <2>1. CASE ConnectStep(b)
    BY <1>2, <2>1 DEF ConnectStep, SetUp, VerifyCertificate, PostConnect, ConnectReturns,
                      ConnectFails, Go, mainVars
  <2>2. CASE EndPaint(b)
    BY <1>3, <2>2 DEF EndPaint, mainVars, threadVars
  <2>3. CASE LoopEnds(b) \/ EndStep(b)
    BY <1>2, <2>3 DEF LoopEnds, EndStep, FreeContext, ClearInstance, ReportDisconnected, Go,
                      mainVars
  <2>. QED BY <1>9, <2>1, <2>2, <2>3
<1>. QED BY <1>4, <1>5, <1>6, <1>7, <1>8, <1>9 DEF Next

\* A connection that is closed before it has its context, while it connects or asks, or
\* while it serves, is told to stop, and stays told until its thread is over: what the
\* loop tests is never taken back (stop, start, disconnect).
THEOREM ClosedIsStopped == Spec => []StoppedWhenClosed
<1>1. Init => StoppedWhenClosed
  BY DEF Init, StoppedWhenClosed
<1>. QED BY <1>1, ClosingStops, Invariance, PTL DEF Spec
=============================================================================
