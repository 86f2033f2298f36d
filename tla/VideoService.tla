---------------------------- MODULE VideoService ----------------------------
(***************************************************************************)
(* One video service of src/server/video_service.rs: its subscribers       *)
(* (src/server/service.rs), the capture thread that paces frames by the    *)
(* acknowledgements of the connections, and the connection tasks that      *)
(* subscribe, acknowledge, ask for a refresh and leave                     *)
(* (src/server.rs, src/server/connection.rs).                              *)
(*                                                                         *)
(* Connection tasks hold the write lock of Server while they change        *)
(* subscriptions; the capture thread does not take that lock, and reads    *)
(* and writes the service under short locks of its own, so the thread can  *)
(* move between any two of them.  Camera and monitor services are alike.   *)
(***************************************************************************)
EXTENDS Naturals, FiniteSets

CONSTANTS
    Conns,        \* connections; ids are never reused
    NoOne,        \* nobody holds the write lock of Server
    MaxUnacked,   \* bound: that many unacknowledged frames, or more
    MaxSwitches   \* bound: restarts for reasons outside this module

ASSUME ConnsFinite == IsFiniteSet(Conns) /\ NoOne \notin Conns
ASSUME BoundsAreNat == MaxUnacked \in Nat \ {0} /\ MaxSwitches \in Nat

VARIABLES
    subs,         \* subscribes
    newSubs,      \* new_subscribes
    refresh,      \* OPTION_REFRESH
    active,       \* active: the service has not been joined
    state,        \* state[c]: "out", "in", "closing" or "gone"
    request,      \* the Server::subscribe in progress: [who, want, step]
    pc,           \* where the capture thread is
    sent,         \* send_conn_ids
    fetched,      \* fetched_conn_ids
    acks,         \* connection ids in the channel of FRAME_FETCHED_NOTIFIERS
    displayConns, \* DISPLAY_CONN_IDS of this display
    unacked,      \* history: frames sent to c that c has not acknowledged
    wanted,       \* history: what the last completed request of c asked for
    viewers,      \* history: got the last frame of this encoder and stayed
    started,      \* history: this encoder has put out a frame
    switches      \* bound: restarts so far

service == <<subs, newSubs, refresh, active>>
tasks == <<state, request, unacked, wanted>>
thread == <<pc, sent, fetched, displayConns, switches>>
encoder == <<viewers, started>>
vars == <<service, tasks, thread, acks, encoder>>

NoRequest == [who |-> NoOne, want |-> FALSE, step |-> "subscribes"]
LockFree == request = NoRequest
Subscribed(c) == c \in subs \cup newSubs
has_subscribes == subs \cup newSubs # {}

Init ==
    /\ subs = {} /\ newSubs = {} /\ refresh = FALSE /\ active = TRUE
    /\ state = [c \in Conns |-> "out"]
    /\ request = NoRequest
    /\ pc = "hibernate"
    /\ sent = {} /\ fetched = {} /\ acks = {} /\ displayConns = {}
    /\ unacked = [c \in Conns |-> 0]
    /\ wanted = [c \in Conns |-> FALSE]
    /\ viewers = {} /\ started = FALSE
    /\ switches = 0

-----------------------------------------------------------------------------
(* service.rs: each operation is one critical section. *)

\* Variant for mutation: a subscriber is not recognised as one.
Bug_SubscribeAgain(c) == newSubs' = newSubs \cup {c} /\ UNCHANGED subs

on_subscribe(c) ==
    /\ newSubs' = IF c \in subs THEN newSubs ELSE newSubs \cup {c}
    /\ UNCHANGED subs

on_unsubscribe(c) ==
    /\ subs' = subs \ {c}
    /\ newSubs' = IF c \in subs THEN newSubs ELSE newSubs \ {c}
    /\ viewers' = viewers \ {c} /\ UNCHANGED started

\* Variant for mutation: the new subscribers replace the old ones.
Bug_SwapReplaces == subs' = newSubs /\ newSubs' = {}

\* swap_new_subscribes, when a ServiceSwap is dropped
swap_new_subscribes == subs' = subs \cup newSubs /\ newSubs' = {}

-----------------------------------------------------------------------------
(* Connection tasks *)

\* add_monitor_connection, add_camera_connection
AddConnection(c) ==
    /\ state[c] = "out"
    /\ LockFree
    /\ state' = [state EXCEPT ![c] = "in"]
    /\ on_subscribe(c)
    /\ wanted' = [wanted EXCEPT ![c] = TRUE]
    /\ UNCHANGED <<refresh, active, request, unacked, thread, acks, encoder>>

\* switch_display_to and capture_displays reach Server::subscribe.
Subscribe(c, want) ==
    /\ state[c] = "in"
    /\ LockFree
    /\ request' = [who |-> c, want |-> want, step |-> "subscribes"]
    /\ UNCHANGED <<service, state, unacked, wanted, thread, acks, encoder>>

\* is_subed is true, or false, with no look at new_subscribes needed or left.
Answer(subed) ==
    IF subed = request.want
    THEN /\ request' = NoRequest
         /\ wanted' = [wanted EXCEPT ![request.who] = request.want]
    ELSE /\ request' = [request EXCEPT !.step = "act"]
         /\ UNCHANGED wanted

\* The first lock of is_subed.
IsSubed ==
    /\ ~LockFree /\ request.step = "subscribes"
    /\ IF request.who \in subs
       THEN Answer(TRUE)
       ELSE request' = [request EXCEPT !.step = "new_subscribes"] /\ UNCHANGED wanted
    /\ UNCHANGED <<service, state, unacked, thread, acks, encoder>>

\* The second lock of is_subed.
IsSubedNew ==
    /\ request.step = "new_subscribes"
    /\ Answer(request.who \in newSubs)
    /\ UNCHANGED <<service, state, unacked, thread, acks, encoder>>

Act ==
    /\ request.step = "act"
    /\ \/ request.want /\ on_subscribe(request.who) /\ UNCHANGED encoder
       \/ ~request.want /\ on_unsubscribe(request.who)
    /\ request' = NoRequest
    /\ wanted' = [wanted EXCEPT ![request.who] = request.want]
    /\ UNCHANGED <<refresh, active, state, unacked, thread, acks>>

\* refresh_video_display
Refresh(c) ==
    /\ state[c] = "in"
    /\ LockFree
    /\ refresh' = TRUE
    /\ UNCHANGED <<subs, newSubs, active, tasks, thread, acks, encoder>>

\* One frame less; MaxUnacked stands for that many or more.
Acknowledged(c) ==
    /\ unacked[c] > 0
    /\ \E n \in {unacked[c] - 1} \cup (IF unacked[c] = MaxUnacked THEN {MaxUnacked} ELSE {}) :
          unacked' = [unacked EXCEPT ![c] = n]

\* The frame is taken from rx_video and video_ack_required is false.
FrameTaken(c) ==
    /\ state[c] = "in"
    /\ Acknowledged(c)
    /\ acks' = acks \cup {c}
    /\ UNCHANGED <<service, state, request, wanted, thread, encoder>>

\* notify_video_frame_fetched_by_conn_id
NotifiedBy(c) == IF c \in displayConns THEN acks \cup {c} ELSE acks

\* The peer sends VideoReceived.
VideoReceived(c) ==
    /\ state[c] = "in"
    /\ Acknowledged(c)
    /\ acks' = NotifiedBy(c)
    /\ UNCHANGED <<service, state, request, wanted, thread, encoder>>

\* The message loop is left, and c reads no more frames; the capture thread
\* must not wait for it.
LeaveLoop(c) ==
    /\ state[c] = "in"
    /\ request.who # c
    /\ state' = [state EXCEPT ![c] = "closing"]
    /\ acks' = NotifiedBy(c)
    /\ unacked' = [unacked EXCEPT ![c] = 0]
    /\ UNCHANGED <<service, request, wanted, thread, encoder>>

remove_connection(c) ==
    /\ state[c] = "closing"
    /\ LockFree
    /\ state' = [state EXCEPT ![c] = "gone"]
    /\ on_unsubscribe(c)
    /\ wanted' = [wanted EXCEPT ![c] = FALSE]
    /\ UNCHANGED <<refresh, active, request, unacked, thread, acks>>

\* Server is dropped; join sets active to false and waits for the thread.
Join ==
    /\ active /\ LockFree
    /\ active' = FALSE
    /\ UNCHANGED <<subs, newSubs, refresh, tasks, thread, acks, encoder>>

-----------------------------------------------------------------------------
(* The capture thread: ServiceTmpl::run, and run of video_service.rs *)

\* Raii, the frame controller and the encoder are dropped; run sleeps and
\* starts over.
Restart ==
    /\ pc' = "hibernate"
    /\ displayConns' = {} /\ sent' = {} /\ fetched' = {}
    /\ viewers' = {} /\ started' = FALSE

Enter ==
    /\ pc = "hibernate" /\ active /\ has_subscribes
    /\ pc' = "setup"
    /\ UNCHANGED <<service, tasks, sent, fetched, displayConns, switches, acks, encoder>>

Exit ==
    /\ pc = "hibernate" /\ ~active
    /\ pc' = "exit"
    /\ UNCHANGED <<service, tasks, sent, fetched, displayConns, switches, acks, encoder>>

\* get_capturer and setup_encoder succeed.
SetupEncoder ==
    /\ pc = "setup"
    /\ pc' = "ready"
    /\ UNCHANGED <<service, tasks, sent, fetched, displayConns, switches, acks, encoder>>

\* try_broadcast_display_changed: a changed display is announced through a snapshot.
BroadcastDisplayChanged == swap_new_subscribes \/ UNCHANGED <<subs, newSubs>>

\* No capturer or no encoder; on Android also a scale that cannot be changed,
\* which is announced first.
SetupFails ==
    /\ pc = "setup"
    /\ BroadcastDisplayChanged
    /\ Restart
    /\ UNCHANGED <<refresh, active, tasks, switches, acks>>

\* Variant for mutation: the request is not reset.
Bug_KeepRefresh ==
    /\ pc = "ready"
    /\ pc' = "loop"
    /\ UNCHANGED <<service, tasks, sent, fetched, displayConns, switches, acks, encoder>>

ClearRefresh ==
    /\ pc = "ready"
    /\ refresh' = FALSE
    /\ pc' = "loop"
    /\ UNCHANGED <<subs, newSubs, active, tasks, sent, fetched, displayConns, switches,
                   acks, encoder>>

\* while sp.ok()
LoopEnds ==
    /\ pc = "loop" /\ ~(active /\ has_subscribes)
    /\ Restart
    /\ UNCHANGED <<service, tasks, switches, acks>>

LoopGoesOn ==
    /\ pc = "loop" /\ active /\ has_subscribes
    /\ pc' = "checks"
    /\ UNCHANGED <<service, tasks, sent, fetched, displayConns, switches, acks, encoder>>

\* Variant for mutation: the request is taken as served by the encoder at work.
Bug_RefreshInPlace ==
    /\ pc = "checks" /\ refresh
    /\ refresh' = FALSE
    /\ pc' = "capture"
    /\ sent' = {}
    /\ UNCHANGED <<subs, newSubs, active, tasks, fetched, displayConns, switches, acks, encoder>>

SwitchToRefresh ==
    /\ pc = "checks" /\ refresh
    /\ BroadcastDisplayChanged
    /\ Restart
    /\ UNCHANGED <<refresh, active, tasks, switches, acks>>

\* Codec, privacy mode, quality, desktop, display or capturer changed or failed.
SwitchOnChange ==
    /\ pc \in {"checks", "capture", "encode", "wait", "waiting"}
    /\ pc = "checks" => ~refresh
    /\ switches < MaxSwitches
    /\ switches' = switches + 1
    /\ BroadcastDisplayChanged
    /\ Restart
    /\ UNCHANGED <<refresh, active, tasks, acks>>

ChecksPass ==
    /\ pc = "checks" /\ ~refresh
    /\ pc' = "capture"
    /\ sent' = {}
    /\ UNCHANGED <<service, tasks, fetched, displayConns, switches, acks, encoder>>

\* There is no new frame, or the encoder gave none: nothing is sent.
NoFrame ==
    /\ pc \in {"capture", "encode"}
    /\ pc' = "wait"
    /\ UNCHANGED <<service, tasks, sent, fetched, displayConns, switches, acks, encoder>>

\* A frame was captured; snapshot reads new_subscribes.
Snapshot ==
    /\ pc = "capture"
    /\ pc' = IF newSubs = {} THEN "encode" ELSE "share"
    /\ UNCHANGED <<service, tasks, sent, fetched, displayConns, switches, acks, encoder>>

\* Variant for mutation: new subscribers join an encoder others are watching.
Bug_JoinEncoder ==
    /\ pc = "share"
    /\ pc' = "swap"
    /\ UNCHANGED <<service, tasks, sent, fetched, displayConns, switches, acks, encoder>>

\* The callback of handle_one_frame reads subscribes.
ShareEncoder ==
    /\ pc = "share"
    /\ pc' = IF subs = {} THEN "swap" ELSE "switch"
    /\ UNCHANGED <<service, tasks, sent, fetched, displayConns, switches, acks, encoder>>

\* The ServiceSwap is dropped and the frame goes out.
SwapFirst ==
    /\ pc = "swap"
    /\ swap_new_subscribes
    /\ pc' = "encode"
    /\ UNCHANGED <<refresh, active, tasks, sent, fetched, displayConns, switches, acks, encoder>>

\* The ServiceSwap is dropped and the encoder is made anew for everybody.
SwitchForSubscriber ==
    /\ pc = "switch"
    /\ swap_new_subscribes
    /\ Restart
    /\ UNCHANGED <<refresh, active, tasks, switches, acks>>

\* One frame more; MaxUnacked stands for that many or more.
OneMore(c) == IF unacked[c] = MaxUnacked THEN MaxUnacked ELSE unacked[c] + 1

\* encode_to_message succeeds; send_video_frame
SendVideoFrame ==
    /\ pc = "encode"
    /\ unacked' = [c \in Conns |-> IF c \in subs /\ state[c] = "in"
                               THEN OneMore(c) ELSE unacked[c]]
    /\ sent' = subs
    /\ viewers' = subs /\ started' = TRUE
    /\ pc' = "set_send"
    /\ UNCHANGED <<service, state, request, wanted, fetched, displayConns, switches, acks>>

SetSend ==
    /\ pc = "set_send"
    /\ displayConns' = IF sent = {} THEN displayConns ELSE sent
    /\ pc' = "wait"
    /\ UNCHANGED <<service, tasks, sent, fetched, switches, acks, encoder>>

AllFetched == Cardinality(fetched) >= Cardinality(sent)

\* try_wait_next takes what the channel holds, or finds it empty for 300 ms.
TryWaitNext ==
    /\ pc = "wait" \/ (pc = "waiting" /\ ~AllFetched /\ acks # {})
    /\ pc' = "waiting"
    /\ fetched' = IF sent = {} THEN fetched ELSE fetched \cup acks
    /\ acks' = IF sent = {} THEN acks ELSE {}
    /\ UNCHANGED <<service, tasks, sent, displayConns, switches, encoder>>

WaitEnds ==
    /\ pc = "waiting"
    /\ pc' = "loop"
    /\ displayConns' = {} /\ fetched' = {}
    /\ UNCHANGED <<service, tasks, sent, switches, acks, encoder>>

\* break if all connections have received current frame
WaitDone == AllFetched /\ WaitEnds

\* Variant for mutation: no deadline.
Bug_WaitForever == FALSE

\* Three seconds have passed.
WaitTimeout == ~AllFetched /\ WaitEnds

Tasks ==
    \/ \E c \in Conns : AddConnection(c)
    \/ \E c \in Conns, want \in BOOLEAN : Subscribe(c, want)
    \/ IsSubed
    \/ IsSubedNew
    \/ Act
    \/ \E c \in Conns : Refresh(c)
    \/ \E c \in Conns : FrameTaken(c)
    \/ \E c \in Conns : VideoReceived(c)
    \/ \E c \in Conns : LeaveLoop(c)
    \/ \E c \in Conns : remove_connection(c)
    \/ Join

Capture ==
    \/ Enter
    \/ Exit
    \/ SetupEncoder
    \/ SetupFails
    \/ ClearRefresh
    \/ LoopEnds
    \/ LoopGoesOn
    \/ SwitchToRefresh
    \/ SwitchOnChange
    \/ ChecksPass
    \/ NoFrame
    \/ Snapshot
    \/ ShareEncoder
    \/ SwapFirst
    \/ SwitchForSubscriber
    \/ SendVideoFrame
    \/ SetSend
    \/ TryWaitNext
    \/ WaitDone
    \/ WaitTimeout

Next == Tasks \/ Capture

Spec == Init /\ [][Next]_vars

\* The thread is scheduled, a wait ends at its deadline, a capturer and an
\* encoder are set up and a frame is captured and encoded now and then.
FairSpec ==
    /\ Spec
    /\ WF_vars(Capture)
    /\ WF_vars(WaitTimeout)
    /\ SF_vars(SetupEncoder)
    /\ SF_vars(Snapshot)

-----------------------------------------------------------------------------
(* Properties *)

\* Values stay in the ranges the code gives them.
TypeOK ==
    /\ subs \subseteq Conns /\ newSubs \subseteq Conns
    /\ refresh \in BOOLEAN /\ active \in BOOLEAN
    /\ state \in [Conns -> {"out", "in", "closing", "gone"}]
    /\ request \in [who : Conns \cup {NoOne}, want : BOOLEAN,
                    step : {"subscribes", "new_subscribes", "act"}]
    /\ pc \in {"hibernate", "setup", "ready", "loop", "checks", "capture", "share",
               "swap", "switch", "encode", "set_send", "wait", "waiting", "exit"}
    /\ sent \subseteq Conns /\ fetched \subseteq Conns
    /\ acks \subseteq Conns /\ displayConns \subseteq Conns
    /\ unacked \in [Conns -> 0..MaxUnacked]
    /\ wanted \in [Conns -> BOOLEAN]
    /\ viewers \subseteq Conns /\ started \in BOOLEAN
    /\ switches \in 0..MaxSwitches

\* After remove_connection a connection is in neither set, so no frame is
\* queued for it any more: on_unsubscribe takes it from one set only, which
\* is enough because no interleaving of subscriptions and swaps puts a
\* connection in both.
NoGhostSubscriber ==
    /\ subs \cap newSubs = {}
    /\ \A c \in Conns : state[c] \in {"out", "gone"} => ~Subscribed(c)

\* A connection whose last request was to subscribe is subscribed, although
\* is_subed may miss it while the thread swaps.
SubscribeHonoured ==
    \A c \in Conns : wanted[c] /\ request.who # c => Subscribed(c)

\* A connection whose last request was to unsubscribe is not subscribed:
\* "Unnecessary capturers will be removed then."
UnsubscribeHonoured ==
    \A c \in Conns : ~wanted[c] /\ request.who # c => ~Subscribed(c)

\* Everybody who got the last frame of this encoder has unsubscribed since.
Orphaned == started /\ viewers = {}

\* A frame of an encoder that has put one out already goes only to those who
\* got the previous one: handle_one_frame makes a new encoder as soon as
\* somebody joins.  There is one exception, Orphaned: has_subscribes of the
\* snapshot looks at the old subscribers only, so when the last of them leaves
\* while a newcomer waits, the newcomer gets the running stream.
JoinsSwitchEncoder ==
    pc = "encode" /\ started => subs \subseteq viewers \/ Orphaned

\* No refresh is lost: run drops the request only while its encoder has yet to
\* put out the first frame, whenever the request came, so that a whole picture
\* follows it.
RefreshNotLost == [][refresh /\ ~refresh' => ~started']_vars

\* The wait ends early only when every connection the frame went to, and
\* that is still there, has acknowledged it: "break if all connections have
\* received current frame".
EarlyBreakMeansReceived ==
    pc = "waiting" /\ AllFetched =>
        \A c \in sent : state[c] = "in" => unacked[c] = 0

\* No refresh stays pending for ever: it is served by a new encoder unless
\* everybody leaves or the service is joined.
RefreshServed == []<>(~refresh \/ ~has_subscribes \/ ~active)

\* No connection stays a new subscriber for ever: it gets among those that
\* frames go to, whoever else comes, goes or never acknowledges, unless
\* refreshes keep restarting the thread or the service is joined.
NewSubscriberServed ==
    \A c \in Conns : []<>(c \notin newSubs \/ refresh \/ ~active)
=============================================================================
