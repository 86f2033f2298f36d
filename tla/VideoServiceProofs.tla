------------------------- MODULE VideoServiceProofs -------------------------
(***************************************************************************)
(* Proofs about the subscriptions of a video service, for any set of       *)
(* connections.  The inductive invariant adds to the properties that a     *)
(* connection with a request in progress has not left, that the viewers of *)
(* an encoder are subscribers, that nobody is watching once the thread has *)
(* decided to go on with its encoder for new subscribers, and that an      *)
(* encoder has put out no frame before the loop is entered.                *)
(***************************************************************************)
EXTENDS VideoService, TLAPS

RequesterStays ==
    request # NoRequest => request.who \in Conns /\ state[request.who] = "in"

ViewersSubscribed == viewers \subseteq subs

OneAudience ==
    /\ pc = "swap" => subs = {}
    /\ viewers = {} \/ viewers = subs

FreshBeforeLoop == pc \in {"hibernate", "setup", "ready"} => ~started

IInv ==
    /\ TypeOK
    /\ NoGhostSubscriber
    /\ SubscribeHonoured
    /\ RequesterStays
    /\ ViewersSubscribed
    /\ OneAudience
    /\ FreshBeforeLoop

\* The records a request may be.
Requests == [who : Conns \cup {NoOne}, want : BOOLEAN,
             step : {"subscribes", "new_subscribes", "act"}]

LEMMA RequestTypes ==
    /\ NoRequest \in Requests
    /\ \A r \in Requests : /\ r.who \in Conns \cup {NoOne}
                           /\ r.want \in BOOLEAN
                           /\ [r EXCEPT !.step = "act"] \in Requests
                           /\ [r EXCEPT !.step = "new_subscribes"] \in Requests
  BY DEF NoRequest, Requests

LEMMA InitInv == Init => IInv
  <1> SUFFICES ASSUME Init PROVE IInv
    OBVIOUS
  <1>1. TypeOK
    <2>1. wanted \in [Conns -> BOOLEAN]
      BY Zenon DEF Init
    <2>2. request \in Requests /\ switches \in 0..MaxSwitches
      BY BoundsAreNat, RequestTypes DEF Init
    <2>3. unacked \in [Conns -> 0..MaxUnacked]
      BY BoundsAreNat DEF Init
    <2>4. refresh \in BOOLEAN /\ active \in BOOLEAN /\ started \in BOOLEAN
      BY DEF Init
    <2> QED
      BY <2>1, <2>2, <2>3, <2>4 DEF Init, TypeOK, Requests
  <1>2. /\ NoGhostSubscriber /\ SubscribeHonoured
        /\ ViewersSubscribed /\ OneAudience /\ FreshBeforeLoop
    BY DEF Init, NoGhostSubscriber, SubscribeHonoured, ViewersSubscribed, OneAudience,
       FreshBeforeLoop, Subscribed
  <1>3. RequesterStays
    BY DEF Init, RequesterStays
  <1> QED
    BY <1>1, <1>2, <1>3 DEF IInv

\* A history entry stays Boolean.
LEMMA WantedType ==
    ASSUME wanted \in [Conns -> BOOLEAN], NEW c, NEW b \in BOOLEAN
    PROVE [wanted EXCEPT ![c] = b] \in [Conns -> BOOLEAN]
  BY Zenon

\* What the end of a request leaves.
LEMMA AnswerType ==
    ASSUME TypeOK, NEW subed, Answer(subed)
    PROVE request' \in Requests /\ wanted' \in [Conns -> BOOLEAN]
  <1>1. request \in Requests /\ wanted \in [Conns -> BOOLEAN]
    BY DEF TypeOK, Requests
  <1>2. request.want \in BOOLEAN
    BY <1>1, RequestTypes
  <1>3. CASE subed = request.want
    BY <1>1, <1>2, <1>3, WantedType, RequestTypes DEF Answer
  <1>4. CASE subed # request.want
    BY <1>1, <1>4, RequestTypes DEF Answer
  <1> QED
    BY <1>3, <1>4

LEMMA TypeStep == TypeOK /\ RequesterStays /\ [Next]_vars => TypeOK'
  <1> SUFFICES ASSUME TypeOK, RequesterStays, [Next]_vars PROVE TypeOK'
    OBVIOUS
  <1> USE ConnsFinite, BoundsAreNat DEF TypeOK, service, tasks, thread, encoder
  <1>1. CASE Tasks
    <2>1. ASSUME NEW c \in Conns, AddConnection(c) PROVE TypeOK'
      BY <2>1 DEF AddConnection, on_subscribe
    <2>2. ASSUME NEW c \in Conns, NEW want \in BOOLEAN, Subscribe(c, want) PROVE TypeOK'
      BY <2>2 DEF Subscribe
    <2>3. CASE IsSubed
      <3>1. request' \in Requests /\ wanted' \in [Conns -> BOOLEAN]
        <4>1. CASE request.who \in subs
          BY <2>3, <4>1, AnswerType DEF IsSubed
        <4>2. CASE request.who \notin subs
          BY <2>3, <4>2, RequestTypes DEF IsSubed, Requests
        <4> QED
          BY <4>1, <4>2
      <3> QED
        BY <2>3, <3>1 DEF IsSubed, Requests
    <2>4. CASE IsSubedNew
      <3>1. request' \in Requests /\ wanted' \in [Conns -> BOOLEAN]
        BY <2>4, AnswerType DEF IsSubedNew
      <3> QED
        BY <2>4, <3>1 DEF IsSubedNew, Requests
    <2>5. CASE Act
      <3>1. request.who \in Conns /\ request.want \in BOOLEAN
        BY <2>5 DEF Act, RequesterStays, NoRequest
      <3>2. wanted' \in [Conns -> BOOLEAN]
        BY <2>5, <3>1, WantedType DEF Act
      <3>3. request' \in Requests
        BY <2>5, RequestTypes DEF Act
      <3>4. subs' \subseteq Conns /\ newSubs' \subseteq Conns /\ viewers' \subseteq Conns
        BY <2>5, <3>1 DEF Act, on_subscribe, on_unsubscribe
      <3>5. started' \in BOOLEAN
        BY <2>5 DEF Act, on_unsubscribe
      <3> QED
        BY <2>5, <3>2, <3>3, <3>4, <3>5 DEF Act, Requests
    <2>6. ASSUME NEW c \in Conns, Refresh(c) PROVE TypeOK'
      BY <2>6 DEF Refresh
    <2>7. ASSUME NEW c \in Conns, FrameTaken(c) PROVE TypeOK'
      BY <2>7 DEF FrameTaken, Acknowledged
    <2>8. ASSUME NEW c \in Conns, VideoReceived(c) PROVE TypeOK'
      BY <2>8 DEF VideoReceived, Acknowledged, NotifiedBy
    <2>9. ASSUME NEW c \in Conns, LeaveLoop(c) PROVE TypeOK'
      BY <2>9 DEF LeaveLoop, NotifiedBy
    <2>10. ASSUME NEW c \in Conns, remove_connection(c) PROVE TypeOK'
      BY <2>10 DEF remove_connection, on_unsubscribe
    <2>11. CASE Join
      BY <2>11 DEF Join
    <2> QED
      BY <1>1, <2>1, <2>2, <2>3, <2>4, <2>5, <2>6, <2>7, <2>8, <2>9, <2>10, <2>11 DEF Tasks
  <1>2. CASE Capture
    <2>1. CASE Enter \/ Exit \/ SetupEncoder \/ LoopGoesOn \/ ChecksPass
      BY <2>1 DEF Enter, Exit, SetupEncoder, LoopGoesOn, ChecksPass
    <2>7. CASE ClearRefresh
      <3>1. refresh' \in BOOLEAN
        BY <2>7 DEF ClearRefresh
      <3> QED
        BY <2>7, <3>1 DEF ClearRefresh
    <2>8. ASSUME Restart PROVE started' \in BOOLEAN
      BY <2>8 DEF Restart
    <2>2. CASE SetupFails \/ LoopEnds \/ SwitchToRefresh \/ SwitchForSubscriber
      <3>1. started' \in BOOLEAN
        BY <2>2, <2>8 DEF SetupFails, LoopEnds, SwitchToRefresh, SwitchForSubscriber
      <3>2. subs' \subseteq Conns /\ newSubs' \subseteq Conns
        BY <2>2 DEF SetupFails, LoopEnds, SwitchToRefresh, SwitchForSubscriber,
           BroadcastDisplayChanged, swap_new_subscribes
      <3> QED
        BY <2>2, <3>1, <3>2
           DEF SetupFails, LoopEnds, SwitchToRefresh, SwitchForSubscriber, Restart
    <2>3. CASE SwitchOnChange
      <3>1. started' \in BOOLEAN
        BY <2>3, <2>8 DEF SwitchOnChange
      <3>2. subs' \subseteq Conns /\ newSubs' \subseteq Conns
        BY <2>3 DEF SwitchOnChange, BroadcastDisplayChanged, swap_new_subscribes
      <3> QED
        BY <2>3, <3>1, <3>2 DEF SwitchOnChange, Restart
    <2>4. CASE NoFrame \/ Snapshot \/ ShareEncoder \/ SwapFirst
      BY <2>4 DEF NoFrame, Snapshot, ShareEncoder, SwapFirst, swap_new_subscribes
    <2>5. CASE SendVideoFrame
      BY <2>5 DEF SendVideoFrame, OneMore
    <2>6. CASE SetSend \/ TryWaitNext \/ WaitDone \/ WaitTimeout
      BY <2>6 DEF SetSend, TryWaitNext, WaitDone, WaitTimeout, WaitEnds
    <2> QED
      BY <1>2, <2>1, <2>2, <2>3, <2>4, <2>5, <2>6, <2>7 DEF Capture
  <1>3. CASE UNCHANGED vars
    BY <1>3 DEF vars
  <1> QED
    BY <1>1, <1>2, <1>3 DEF Next

\* The part of the invariant that speaks of subscriptions.
SubsInv == NoGhostSubscriber /\ SubscribeHonoured /\ RequesterStays

\* The part that speaks of the encoder.
EncoderInv == ViewersSubscribed /\ OneAudience /\ FreshBeforeLoop

LEMMA TasksKeepSubs == IInv /\ Tasks => SubsInv'
  <1> SUFFICES ASSUME IInv, Tasks PROVE SubsInv'
    OBVIOUS
  <1> USE ConnsFinite
      DEF SubsInv, IInv, TypeOK, NoGhostSubscriber, SubscribeHonoured, RequesterStays, Subscribed,
          service, tasks, thread
  <1>1. ASSUME NEW c \in Conns, AddConnection(c) PROVE SubsInv'
    BY <1>1 DEF AddConnection, on_subscribe, LockFree, NoRequest
  <1>2. ASSUME NEW c \in Conns, NEW want \in BOOLEAN, Subscribe(c, want) PROVE SubsInv'
    BY <1>2 DEF Subscribe, LockFree, NoRequest
  <1>3. CASE IsSubed
    BY <1>3 DEF IsSubed, Answer, LockFree, NoRequest
  <1>4. CASE IsSubedNew
    BY <1>4 DEF IsSubedNew, Answer, NoRequest
  <1>5. CASE Act
    BY <1>5 DEF Act, on_subscribe, on_unsubscribe, NoRequest
  <1>6. ASSUME NEW c \in Conns, Refresh(c) PROVE SubsInv'
    BY <1>6 DEF Refresh
  <1>7. ASSUME NEW c \in Conns, FrameTaken(c) PROVE SubsInv'
    BY <1>7 DEF FrameTaken
  <1>8. ASSUME NEW c \in Conns, VideoReceived(c) PROVE SubsInv'
    BY <1>8 DEF VideoReceived
  <1>9. ASSUME NEW c \in Conns, LeaveLoop(c) PROVE SubsInv'
    BY <1>9 DEF LeaveLoop
  <1>10. ASSUME NEW c \in Conns, remove_connection(c) PROVE SubsInv'
    BY <1>10 DEF remove_connection, on_unsubscribe, LockFree, NoRequest
  <1>11. CASE Join
    BY <1>11 DEF Join
  <1> QED
    BY <1>1, <1>2, <1>3, <1>4, <1>5, <1>6, <1>7, <1>8, <1>9, <1>10, <1>11 DEF Tasks

\* The thread moves connections from newSubs to subs and touches nothing else.
LEMMA ThreadOnlySwaps ==
    ASSUME Capture
    PROVE /\ UNCHANGED <<state, request, wanted>>
          /\ swap_new_subscribes \/ UNCHANGED <<subs, newSubs>>
  BY DEF Capture, Enter, Exit, SetupEncoder, SetupFails, ClearRefresh, LoopEnds, LoopGoesOn,
         SwitchToRefresh, SwitchOnChange, ChecksPass, NoFrame, Snapshot, ShareEncoder, SwapFirst,
         SwitchForSubscriber, SendVideoFrame, SetSend, TryWaitNext, WaitDone, WaitTimeout,
         WaitEnds, BroadcastDisplayChanged, service, tasks

LEMMA ThreadKeepsSubs == IInv /\ Capture => SubsInv'
  BY ThreadOnlySwaps
  DEF IInv, SubsInv, NoGhostSubscriber, SubscribeHonoured, RequesterStays, Subscribed,
      swap_new_subscribes

\* A task adds nobody to subs, and who leaves it is no viewer.
LEMMA TasksOnlyUnsubscribe ==
    ASSUME Tasks
    PROVE /\ UNCHANGED <<pc, started>>
          /\ \/ UNCHANGED <<subs, viewers>>
             \/ \E c : subs' = subs \ {c} /\ viewers' = viewers \ {c}
  BY DEF Tasks, AddConnection, Subscribe, IsSubed, IsSubedNew, Act, Refresh, FrameTaken,
         VideoReceived, LeaveLoop, remove_connection, Join, on_subscribe, on_unsubscribe,
         service, thread, encoder

LEMMA TasksKeepEncoder == IInv /\ Tasks => EncoderInv'
  BY TasksOnlyUnsubscribe DEF IInv, EncoderInv, ViewersSubscribed, OneAudience, FreshBeforeLoop

LEMMA ThreadKeepsEncoder == IInv /\ Capture => EncoderInv'
  <1> SUFFICES ASSUME IInv, Capture PROVE EncoderInv'
    OBVIOUS
  <1> USE DEF IInv, EncoderInv, ViewersSubscribed, OneAudience, FreshBeforeLoop, service, encoder
  <1>1. CASE Enter \/ Exit \/ SetupEncoder \/ ClearRefresh \/ LoopGoesOn \/ ChecksPass
    BY <1>1 DEF Enter, Exit, SetupEncoder, ClearRefresh, LoopGoesOn, ChecksPass
  <1>2. CASE SetupFails \/ LoopEnds \/ SwitchToRefresh \/ SwitchOnChange \/ SwitchForSubscriber
    BY <1>2 DEF SetupFails, LoopEnds, SwitchToRefresh, SwitchOnChange, SwitchForSubscriber, Restart
  <1>3. CASE NoFrame \/ Snapshot \/ ShareEncoder
    BY <1>3 DEF NoFrame, Snapshot, ShareEncoder
  <1>4. CASE SwapFirst
    BY <1>4 DEF SwapFirst, swap_new_subscribes
  <1>5. CASE SendVideoFrame \/ SetSend \/ TryWaitNext \/ WaitDone \/ WaitTimeout
    BY <1>5 DEF SendVideoFrame, SetSend, TryWaitNext, WaitDone, WaitTimeout, WaitEnds
  <1> QED
    BY <1>1, <1>2, <1>3, <1>4, <1>5 DEF Capture

\* The invariant is inductive.
LEMMA StepInv == IInv /\ [Next]_vars => IInv'
  <1> SUFFICES ASSUME IInv, [Next]_vars PROVE IInv'
    OBVIOUS
  <1>1. TypeOK'
    BY TypeStep DEF IInv
  <1>2. SubsInv' /\ EncoderInv'
    <2>1. CASE Next
      BY <2>1, TasksKeepSubs, ThreadKeepsSubs, TasksKeepEncoder, ThreadKeepsEncoder DEF Next
    <2>2. CASE UNCHANGED vars
      BY <2>2 DEF vars, service, tasks, thread, encoder, IInv, SubsInv, EncoderInv,
         NoGhostSubscriber, SubscribeHonoured, RequesterStays, ViewersSubscribed, OneAudience,
         FreshBeforeLoop, Subscribed
    <2> QED
      BY <2>1, <2>2
  <1> QED
    BY <1>1, <1>2 DEF IInv, SubsInv, EncoderInv

LEMMA Invariant == Spec => []IInv
  BY InitInv, StepInv, PTL DEF Spec

\* The variables of the video service keep their types.
THEOREM TypeCorrect == Spec => []TypeOK
  <1>1. IInv => TypeOK
    BY DEF IInv
  <1> QED
    BY Invariant, <1>1, PTL

\* A connection that remove_connection took out is never sent a frame again.
THEOREM NoGhost == Spec => []NoGhostSubscriber
  <1>1. IInv => NoGhostSubscriber
    BY DEF IInv
  <1> QED
    BY Invariant, <1>1, PTL

\* A completed subscription is never undone by the capture thread.
THEOREM Subscribes == Spec => []SubscribeHonoured
  <1>1. IInv => SubscribeHonoured
    BY DEF IInv
  <1> QED
    BY Invariant, <1>1, PTL

\* A connection that joins gets no frame of an encoder already at work, except
\* when everybody who was watching that encoder has left.
THEOREM FreshEncoder == Spec => []JoinsSwitchEncoder
  <1>1. IInv => JoinsSwitchEncoder
    BY DEF IInv, OneAudience, JoinsSwitchEncoder, Orphaned
  <1> QED
    BY Invariant, <1>1, PTL

\* A request to refresh is dropped only by an encoder yet to begin.
THEOREM RefreshKept == Spec => RefreshNotLost
  <1>1. ASSUME IInv, [Next]_vars, refresh, ~refresh' PROVE ~started'
    <2>1. CASE Tasks
      BY <1>1, <2>1 DEF Tasks, AddConnection, Subscribe, IsSubed, IsSubedNew, Act, Refresh,
         FrameTaken, VideoReceived, LeaveLoop, remove_connection, Join, service
    <2>2. CASE ClearRefresh
      BY <1>1, <2>2 DEF ClearRefresh, IInv, FreshBeforeLoop, encoder
    <2>3. CASE Capture /\ ~ClearRefresh
      BY <1>1, <2>3 DEF Capture, Enter, Exit, SetupEncoder, SetupFails, LoopEnds, LoopGoesOn,
         SwitchToRefresh, SwitchOnChange, ChecksPass, NoFrame, Snapshot, ShareEncoder, SwapFirst,
         SwitchForSubscriber, SendVideoFrame, SetSend, TryWaitNext, WaitDone, WaitTimeout,
         WaitEnds, service
    <2>4. CASE UNCHANGED vars
      BY <1>1, <2>4 DEF vars, service
    <2> QED
      BY <1>1, <2>1, <2>2, <2>3, <2>4 DEF Next, Capture
  <1>2. IInv /\ [Next]_vars => [refresh /\ ~refresh' => ~started']_vars
    BY <1>1
  <1> QED
    BY Invariant, <1>2, PTL DEF Spec, RefreshNotLost
=============================================================================
