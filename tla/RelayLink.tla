----------------------------- MODULE RelayLink -----------------------------
(***************************************************************************)
(* The Pi's link to the cloud (server/relay.py).                           *)
(*                                                                         *)
(* A relay thread asks the control plane where to publish, connects,       *)
(* registers, sends the start list and what the board shows and then       *)
(* listens; the worker's frames go out on whatever socket the thread has   *)
(* published in _client.  Request threads stop, start and re-point the     *)
(* link meanwhile, and read the meet's file again when Meet Manager has    *)
(* exported it; a test session takes the cloud out of the picture.         *)
(*                                                                         *)
(* The cloud is what a socket meets there: a register binds it to a meet,  *)
(* frames are merged into that meet's board, start lists replace the one   *)
(* it keeps of that meet, and a lost socket is noticed sooner or later.    *)
(*                                                                         *)
(* Allowed names the interleavings a run may include beyond the ordinary.  *)
(***************************************************************************)
EXTENDS Naturals, FiniteSets

CONSTANTS
    Threads,    \* relay threads, each with the stop event it was given
    Meets,
    Keys,       \* parts of the board a frame may change
    None,
    Allowed,    \* see Cases
    MaxFrames,  \* bound: frames published
    MaxHeats,   \* bound: heats that finish
    MaxDrops,   \* bound: links, connections and requests that fail
    MaxOps      \* bound: presses of a button

Cases ==
    {"StopWhileConnecting", \* a test starts while the thread is connecting
     "ToggleInTest",        \* the link is switched on during a test
     "MeetInRegister",      \* a meet is loaded between a register and its list
     "HeatsInOutage",       \* a heat finishes, or a meet is loaded, before the
                            \* last heat's times are at the cloud
     "ExportInSchedule",    \* its file is read again as its list is going out
     "FrameInSnapshot"}     \* a frame goes out between the board's copy and it

ASSUME CasesAssumption == Allowed \subseteq Cases
ASSUME NoneAssumption ==
    None \notin Threads \cup Meets /\ Threads # {} /\ Meets # {}
ASSUME LimitsAssumption ==
    {MaxFrames, MaxHeats, MaxDrops, MaxOps} \subseteq Nat

VARIABLES
    meet,         \* what state.meet_uid() names
    lists,        \* of each meet, the export of its file last read
    times,        \* of each meet, the heats in its console times
    last_results, \* the heat of state._last_results_snapshot, 0 for none
    loading,      \* a meet was swapped in, update_metadata not yet called
    announcing,   \* a file was read again, announce_schedule not yet called
    local_only,   \* relay._local_only
    was_running,  \* state._test_relay_was_running
    thread,       \* relay._thread, whose event relay._stop is
    stopped,      \* the threads whose event is set
    pc, ws, asg,  \* of each thread: where, its socket, its assignment's meet
    built,        \* of each thread: the start list it is about to send
    copied,       \* of each thread: the board it is about to send
    client, connected, assignment, reassign,  \* relay._client ...
    board,        \* state.board: the frame each part was last changed by
    emitting,     \* the part whose frame the worker is about to relay
    open,         \* sockets open at the Pi's end
    bound,        \* cloud: _relay_sids
    rejected,     \* the sockets a 'rejected' was sent on
    served,       \* cloud: the relay_sid of each meet, 0 when it has none
    shown,        \* cloud: each meet's last_scoreboard
    schedules,    \* cloud: each meet's schedule_data, kept by its store
    heard,        \* cloud: the heats in each meet's console_times, kept too
    tested,       \* history: frames published during a test
    cloud_on,     \* history: the link as the operator left it
    frames, heats, socks, drops, ops   \* counters

threads == <<thread, stopped, pc, ws, asg, built, copied>>
link == <<client, connected, assignment, reassign>>
finished == <<times, last_results>>
meets == <<meet, lists, finished, loading, announcing>>
pi == <<meets, local_only, was_running, cloud_on>>
scoreboard == <<board, emitting, tested, frames>>
records == <<schedules, heard>>
cloud == <<bound, rejected, served, shown, records>>
vars == <<pi, threads, link, scoreboard, open, cloud, heats, socks, drops, ops>>

-----------------------------------------------------------------------------
Versions == 0..MaxFrames
Boards == [Keys -> Versions]
Nothing == [k \in Keys |-> 0]
Registered == {"publish", "schedule", "list"}
Sending == {"register", "list", "send"}
Connecting == {"asking", "connect", "copy"} \cup Registered \cup Sending
Steps == {"unborn", "top", "recv", "finally", "done"} \cup Connecting
Alive(t) == pc[t] \notin {"unborn", "done"}
Running == thread # None /\ Alive(thread)
MaxSocks == MaxDrops + 2 * MaxOps + 2   \* each drop or press costs a socket or two

\* The start list of the loaded meet, as its file was last read.
NoSchedule == [of |-> None, export |-> 0]
Schedule == [of |-> meet, export |-> lists[meet]]

Init ==
    /\ meet = (CHOOSE m \in Meets : TRUE) /\ lists = [m \in Meets |-> 1]
    /\ times = [m \in Meets |-> {}] /\ last_results = 0
    /\ loading = FALSE /\ announcing = FALSE
    /\ local_only = FALSE /\ was_running = FALSE /\ cloud_on = TRUE
    /\ thread = CHOOSE t \in Threads : TRUE
    /\ stopped = {}
    /\ pc = [t \in Threads |-> IF t = thread THEN "top" ELSE "unborn"]
    /\ ws = [t \in Threads |-> 0] /\ asg = [t \in Threads |-> None]
    /\ built = [t \in Threads |-> NoSchedule]
    /\ copied = [t \in Threads |-> Nothing]
    /\ client = 0 /\ connected = FALSE
    /\ assignment = None /\ reassign = FALSE
    /\ board = Nothing /\ emitting = None /\ tested = {} /\ frames = 0
    /\ open = {} /\ bound = [s \in 1..MaxSocks |-> None] /\ rejected = {}
    /\ served = [m \in Meets |-> 0] /\ shown = [m \in Meets |-> Nothing]
    /\ schedules = [m \in Meets |-> NoSchedule]
    /\ heard = [m \in Meets |-> {}]
    /\ heats = 0 /\ socks = 0 /\ drops = 0 /\ ops = 0

Goto(t, step) == pc' = [pc EXCEPT ![t] = step]

\* Mutant: a frame replaces the board instead of being merged into it.
DeliverReplaces(s, ks, b) ==
    LET m == bound[s] IN
    shown' = IF m = None THEN shown
             ELSE [shown EXCEPT ![m] = [k \in Keys |-> IF k \in ks THEN b[k] ELSE 0]]

\* The cloud is sent the parts ks of board b on socket s.
Deliver(s, ks, b) ==
    LET m == bound[s] IN
    shown' = IF m = None THEN shown
             ELSE [shown EXCEPT ![m] = [k \in Keys |-> IF k \in ks THEN b[k] ELSE @[k]]]

\* And a start list: the one it keeps of that meet.
DeliverSchedule(s, list) ==
    schedules' = IF bound[s] = None \/ list = NoSchedule THEN schedules
                 ELSE [schedules EXCEPT ![bound[s]] = list]

\* And a heat's results: their times are added to the meet's.
DeliverResults(s, heat) ==
    heard' = IF bound[s] = None \/ heat = 0 THEN heard
             ELSE [heard EXCEPT ![bound[s]] = @ \cup {heat}]

\* The heats of the Schedule: the start list with its official results, and the
\* console's times beside them.
PiHeats == [list |-> Schedule, timed |-> times[meet]]
CloudHeats == [list |-> schedules[meet], timed |-> heard[meet]]

\* The cloud takes a register whose ticket is for the meet it names: the last
\* one to register is the meet's, whose board starts empty if no other is.
RegisterOn(s, ticket) ==
    \/ /\ ticket = meet
       /\ bound' = [bound EXCEPT ![s] = meet]
       /\ served' = [served EXCEPT ![meet] = s]
       /\ shown' = [shown EXCEPT ![meet] = IF served[meet] = 0 THEN Nothing ELSE @]
       /\ UNCHANGED rejected
    \/ /\ ticket # meet
       /\ rejected' = rejected \cup {s}
       /\ UNCHANGED <<bound, served, shown>>

-----------------------------------------------------------------------------
(* The thread: _run.                                                       *)

Top(t) ==
    /\ pc[t] = "top"
    /\ \/ t \in stopped /\ Goto(t, "done") /\ UNCHANGED asg
       \/ /\ t \notin stopped /\ ~local_only
          /\ asg' = [asg EXCEPT ![t] = meet]
          /\ Goto(t, IF assignment = meet /\ ~reassign THEN "connect" ELSE "asking")
    /\ UNCHANGED <<heats, pi, thread, stopped, ws, built, copied, link,
                   scoreboard, open, cloud, socks, drops, ops>>

\* /api/assign answers; or not, and a kept assignment still serves.
Assigned(t) ==
    /\ pc[t] = "asking"
    /\ \/ /\ assignment' = asg[t] /\ reassign' = FALSE
          /\ Goto(t, "connect")
          /\ UNCHANGED drops
       \/ /\ drops < MaxDrops /\ drops' = drops + 1
          /\ Goto(t, IF assignment = asg[t] THEN "connect" ELSE "top")
          /\ UNCHANGED <<assignment, reassign>>
    /\ UNCHANGED <<heats, pi, thread, stopped, ws, asg, built, copied,
                   client, connected, scoreboard, open, cloud, socks, ops>>

Connect(t) ==
    /\ pc[t] = "connect" /\ socks < MaxSocks
    /\ socks' = socks + 1
    /\ ws' = [ws EXCEPT ![t] = socks + 1]
    /\ open' = open \cup {socks + 1}
    /\ Goto(t, "register")
    /\ UNCHANGED <<heats, pi, thread, stopped, asg, built, copied, link,
                   scoreboard, cloud, drops, ops>>

\* The third failure in a row asks for another assignment.
ConnectFails(t) ==
    /\ pc[t] = "connect" /\ drops < MaxDrops
    /\ drops' = drops + 1
    /\ reassign' \in {reassign, TRUE}
    /\ Goto(t, "finally")
    /\ UNCHANGED <<heats, pi, thread, stopped, ws, asg, built, copied,
                   client, connected, assignment, scoreboard, open, cloud,
                   socks, ops>>

Usable(t) == ws[t] \in open

\* A send or a recv on a socket that is gone.
Broken(t) ==
    /\ pc[t] \in Sending \cup {"recv"} /\ ~Usable(t)
    /\ built' = [built EXCEPT ![t] = NoSchedule]
    /\ copied' = [copied EXCEPT ![t] = Nothing]
    /\ Goto(t, "finally")
    /\ UNCHANGED <<heats, pi, thread, stopped, ws, asg, link, scoreboard,
                   open, cloud, socks, drops, ops>>

\* The meet's metadata and the ticket.
Register(t) ==
    /\ pc[t] = "register" /\ Usable(t)
    /\ RegisterOn(ws[t], asg[t])
    /\ Goto(t, "publish")
    /\ UNCHANGED <<heats, pi, thread, stopped, ws, asg, built, copied, link,
                   scoreboard, open, records, socks, drops, ops>>

\* Under the lock: _client = ws.
PublishClient(t) ==
    /\ pc[t] = "publish"
    /\ client' = ws[t] /\ connected' = TRUE
    /\ Goto(t, "schedule")
    /\ UNCHANGED <<heats, pi, thread, stopped, ws, asg, built, copied,
                   assignment, reassign, scoreboard, open, cloud, socks,
                   drops, ops>>

\* send_schedule(client=ws): what is loaded by now; nothing during a test.
BuildSchedule(t) ==
    /\ pc[t] = "schedule"
    /\ built' = [built EXCEPT ![t] = IF local_only THEN NoSchedule ELSE Schedule]
    /\ Goto(t, "list")
    /\ UNCHANGED <<heats, pi, thread, stopped, ws, asg, copied, link,
                   scoreboard, open, cloud, socks, drops, ops>>

SendSchedule(t) ==
    /\ pc[t] = "list" /\ Usable(t)
    /\ DeliverSchedule(ws[t], built[t])
    /\ built' = [built EXCEPT ![t] = NoSchedule]
    /\ Goto(t, "copy")
    /\ UNCHANGED <<heats, heard, pi, thread, stopped, ws, asg, copied, link,
                   scoreboard, open, bound, rejected, served, shown, socks,
                   drops, ops>>

CopyBoard(t) ==
    /\ pc[t] = "copy"
    /\ copied' = [copied EXCEPT ![t] = board]
    /\ Goto(t, "send")
    /\ UNCHANGED <<heats, pi, thread, stopped, ws, asg, built, link,
                   scoreboard, open, cloud, socks, drops, ops>>

\* Mutant: a reconnect sends nothing of what was missed.
SendNothing(t) ==
    /\ pc[t] = "send" /\ Usable(t)
    /\ copied' = [copied EXCEPT ![t] = Nothing]
    /\ Goto(t, "recv")
    /\ UNCHANGED <<heats, pi, thread, stopped, ws, asg, built, link,
                   scoreboard, open, cloud, socks, drops, ops>>

\* The board as it was copied; a part nothing was ever published of is absent.
\* Then the last results.
SendBoard(t) ==
    /\ pc[t] = "send" /\ Usable(t)
    /\ Deliver(ws[t], {k \in Keys : copied[t][k] # 0}, copied[t])
    /\ DeliverResults(ws[t], last_results)
    /\ copied' = [copied EXCEPT ![t] = Nothing]
    /\ Goto(t, "recv")
    /\ UNCHANGED <<heats, pi, thread, stopped, ws, asg, built, link,
                   scoreboard, open, bound, rejected, served, schedules,
                   socks, drops, ops>>

\* The event is set: the loop ends at its next turn.
RecvStopped(t) ==
    /\ pc[t] = "recv" /\ t \in stopped
    /\ Goto(t, "finally")
    /\ UNCHANGED <<heats, pi, thread, stopped, ws, asg, built, copied, link,
                   scoreboard, open, cloud, socks, drops, ops>>

\* 'rejected' with 'reassign': the ticket is for another meet.
RecvRejected(t) ==
    /\ pc[t] = "recv" /\ Usable(t) /\ ws[t] \in rejected
    /\ reassign' = TRUE
    /\ Goto(t, "finally")
    /\ UNCHANGED <<heats, pi, thread, stopped, ws, asg, built, copied,
                   client, connected, assignment, scoreboard, open, cloud,
                   socks, drops, ops>>

Finally(t) ==
    /\ pc[t] = "finally"
    /\ connected' = FALSE
    /\ client' = IF client = ws[t] THEN 0 ELSE client
    /\ open' = open \ {ws[t]}
    /\ ws' = [ws EXCEPT ![t] = 0]
    /\ Goto(t, "top")
    /\ UNCHANGED <<heats, pi, thread, stopped, asg, built, copied,
                   assignment, reassign, scoreboard, cloud, socks, drops, ops>>

Step(t) ==
    \/ Top(t) \/ Assigned(t) \/ Connect(t) \/ ConnectFails(t)
    \/ Register(t) \/ PublishClient(t) \/ BuildSchedule(t) \/ SendSchedule(t)
    \/ CopyBoard(t) \/ SendBoard(t)
    \/ RecvStopped(t) \/ RecvRejected(t) \/ Broken(t) \/ Finally(t)

-----------------------------------------------------------------------------
(* The worker and request threads.                                         *)

\* record_board, and later relay_emit of the same frame.
PublishFrame(k) ==
    /\ emitting = None /\ frames < MaxFrames
    /\ frames' = frames + 1
    /\ board' = [board EXCEPT ![k] = frames + 1]
    /\ emitting' = k
    /\ tested' = IF local_only THEN tested \cup {frames + 1} ELSE tested
    /\ UNCHANGED <<heats, pi, threads, link, open, cloud, socks, drops, ops>>

\* Nothing is sent during a test, nor with no socket published.
RelayEmit ==
    /\ emitting # None
    /\ "FrameInSnapshot" \in Allowed \/ \A t \in Threads : pc[t] # "send"
    /\ IF ~local_only /\ connected /\ client \in open
       THEN Deliver(client, {emitting}, board) ELSE UNCHANGED shown
    /\ emitting' = None
    /\ UNCHANGED <<heats, pi, threads, link, board, tested, frames, open,
                   bound, rejected, served, records, socks, drops, ops>>

\* The last heat's times are at the cloud.
LastHeard ==
    \/ last_results \in {0} \cup heard[meet]
    \/ "HeatsInOutage" \in Allowed

\* A race is over: its times are kept, and its results relayed.
FinishHeat ==
    /\ heats < MaxHeats /\ ~local_only /\ ~loading
    /\ LastHeard
    /\ heats' = heats + 1
    /\ times' = [times EXCEPT ![meet] = @ \cup {heats + 1}]
    /\ last_results' = heats + 1
    /\ IF connected /\ client \in open THEN DeliverResults(client, heats + 1)
       ELSE UNCHANGED heard
    /\ UNCHANGED <<meet, lists, loading, announcing, local_only, was_running,
                   cloud_on, threads, link, scoreboard, open, bound,
                   rejected, served, shown, schedules, socks, drops, ops>>

\* Mutant: the socket is closed and the event is not set.
StopRelayClosesOnly ==
    /\ open' = open \ {client}
    /\ UNCHANGED stopped

\* stop(): the newest thread's event, and the published socket.
StopRelay ==
    /\ stopped' = stopped \cup {thread}
    /\ open' = open \ {client}

\* start(): a thread and an event of its own.
StartRelay ==
    \E t \in Threads :
        /\ pc[t] = "unborn"
        /\ thread' = t
        /\ Goto(t, "top")

Pressed == ops < MaxOps /\ ops' = ops + 1
\* Timing: a stopped thread that is not connecting ends before the next press.
Ended ==
    \A t \in stopped :
        \/ pc[t] = "done"
        \/ "StopWhileConnecting" \in Allowed /\ pc[t] \in Connecting

\* route_cloud_toggle.
CloudToggle ==
    /\ Pressed
    /\ ~local_only \/ "ToggleInTest" \in Allowed
    /\ \/ Running /\ StopRelay /\ UNCHANGED <<thread, pc>>
       \/ ~Running /\ StartRelay /\ UNCHANGED <<stopped, open>>
    /\ cloud_on' = ~Running
    /\ UNCHANGED <<heats, meets, local_only, was_running, ws, asg, built,
                   copied, link, scoreboard, cloud, socks, drops>>

\* _begin_local_only.
BeginTest ==
    /\ Pressed /\ ~local_only /\ ~loading /\ ~announcing
    /\ Ended
    /\ \/ "StopWhileConnecting" \in Allowed
       \/ \A t \in Threads : pc[t] \notin Connecting
    /\ local_only' = TRUE /\ was_running' = Running
    /\ \/ Running /\ StopRelay
       \/ ~Running /\ UNCHANGED <<stopped, open>>
    /\ UNCHANGED <<heats, meets, cloud_on, thread, pc, ws, asg, built,
                   copied, link, scoreboard, cloud, socks, drops>>

\* end_test_session: the board wiped and filled again, then the cloud.
EndTest ==
    /\ local_only /\ emitting = None /\ frames < MaxFrames /\ Ended
    /\ frames' = frames + 1
    /\ board' = [k \in Keys |-> frames + 1]
    /\ local_only' = FALSE /\ was_running' = FALSE
    /\ \/ was_running /\ StartRelay
       \/ ~was_running /\ UNCHANGED <<thread, pc>>
    /\ UNCHANGED <<heats, meets, cloud_on, stopped, ws, asg, built, copied,
                   link, emitting, tested, open, cloud, socks, drops, ops>>

\* _load_meet_file: the meet first ...
LoadMeet ==
    /\ Pressed /\ ~local_only /\ ~loading /\ ~announcing
    /\ "MeetInRegister" \in Allowed \/ \A t \in Threads : pc[t] \notin Registered
    /\ meet' \in Meets \ {meet}
    /\ LastHeard
    /\ last_results' = 0
    /\ loading' = TRUE
    /\ UNCHANGED <<heats, lists, times, announcing, local_only, was_running,
                   cloud_on, threads, link, scoreboard, open, cloud, socks,
                   drops>>

\* ... then update_metadata and send_schedule: a link for another meet is
\* dropped, and its thread sends the start list once it has registered again.
UpdateMetadata ==
    /\ loading
    /\ loading' = FALSE
    /\ \/ /\ connected /\ client # 0 /\ assignment # meet
          /\ reassign' = TRUE
          /\ open' = open \ {client}
          /\ UNCHANGED cloud
       \/ /\ connected /\ client \in open /\ assignment = meet
          /\ RegisterOn(client, assignment)
          /\ schedules' = [schedules EXCEPT ![meet] = Schedule]
          /\ UNCHANGED heard
          /\ UNCHANGED <<reassign, open>>
       \/ /\ \/ ~connected \/ client = 0
             \/ assignment = meet /\ client \notin open
          /\ UNCHANGED <<reassign, open, cloud>>
    /\ UNCHANGED <<heats, meet, lists, finished, announcing, local_only,
                   was_running, cloud_on, threads, client, connected,
                   assignment, scoreboard, socks, drops, ops>>

\* _reload_same_meet: the meet as Meet Manager has exported it again ...
Reread ==
    /\ Pressed /\ ~local_only /\ ~loading /\ ~announcing
    /\ "ExportInSchedule" \in Allowed \/ \A t \in Threads : pc[t] # "list"
    /\ lists' = [lists EXCEPT ![meet] = @ + 1]
    /\ announcing' = TRUE
    /\ UNCHANGED <<heats, meet, finished, loading, local_only, was_running,
                   cloud_on, threads, link, scoreboard, open, cloud, socks,
                   drops>>

\* ... then announce_schedule.
Announce ==
    /\ announcing
    /\ announcing' = FALSE
    /\ IF connected /\ client \in open THEN DeliverSchedule(client, Schedule)
       ELSE UNCHANGED schedules
    /\ UNCHANGED <<heats, heard, meet, lists, finished, loading, local_only,
                   was_running, cloud_on, threads, link, scoreboard, open,
                   bound, rejected, served, shown, socks, drops, ops>>

-----------------------------------------------------------------------------
(* The network and the cloud.                                              *)

\* The Pi's end finds the link dead.
LoseLink ==
    /\ drops < MaxDrops
    /\ \E s \in open : open' = open \ {s}
    /\ drops' = drops + 1
    /\ UNCHANGED <<heats, pi, threads, link, scoreboard, cloud, socks, ops>>

\* The cloud does too: _on_relay_disconnect retires what that socket feeds.
CloudNotices(s) ==
    /\ bound[s] # None /\ s \notin open
    /\ bound' = [bound EXCEPT ![s] = None]
    /\ \/ /\ served[bound[s]] = s
          /\ served' = [served EXCEPT ![bound[s]] = 0]
          /\ shown' = [shown EXCEPT ![bound[s]] = Nothing]
       \/ served[bound[s]] # s /\ UNCHANGED <<served, shown>>
    /\ UNCHANGED <<heats, pi, threads, link, scoreboard, open, rejected,
                   records, socks, drops, ops>>

Next ==
    \/ \E t \in Threads : Step(t)
    \/ \E k \in Keys : PublishFrame(k)
    \/ RelayEmit \/ FinishHeat \/ CloudToggle \/ BeginTest \/ EndTest
    \/ LoadMeet \/ UpdateMetadata \/ Reread \/ Announce
    \/ LoseLink \/ \E s \in 1..MaxSocks : CloudNotices(s)

Spec == Init /\ [][Next]_vars

\* Threads run, tests end, and the cloud notices; nobody has to press a button.
FairSpec ==
    /\ Spec
    /\ \A t \in Threads : WF_vars(Step(t))
    /\ WF_vars(RelayEmit) /\ WF_vars(UpdateMetadata) /\ WF_vars(Announce)
    /\ \A s \in 1..MaxSocks : WF_vars(CloudNotices(s))

-----------------------------------------------------------------------------
(* Properties.                                                             *)

\* Every variable keeps its type.
TypeOK ==
    /\ meet \in Meets /\ assignment \in Meets \cup {None}
    /\ loading \in BOOLEAN /\ local_only \in BOOLEAN /\ was_running \in BOOLEAN
    /\ connected \in BOOLEAN /\ reassign \in BOOLEAN /\ cloud_on \in BOOLEAN
    /\ thread \in Threads /\ stopped \subseteq Threads
    /\ pc \in [Threads -> Steps] /\ ws \in [Threads -> 0..MaxSocks]
    /\ asg \in [Threads -> Meets \cup {None}]
    /\ copied \in [Threads -> Boards] /\ board \in Boards
    /\ client \in 0..MaxSocks /\ open \subseteq 1..MaxSocks
    /\ emitting \in Keys \cup {None} /\ tested \subseteq Versions
    /\ bound \in [1..MaxSocks -> Meets \cup {None}]
    /\ rejected \subseteq 1..MaxSocks
    /\ served \in [Meets -> 0..MaxSocks] /\ shown \in [Meets -> Boards]

\* One thread at most goes on (relay._run: "two threads, two sockets, the meet
\* registered twice"), and none once the operator has switched the link off.
OneThread ==
    /\ \A t \in Threads : Alive(t) /\ t \notin stopped => t = thread
    /\ ~cloud_on => \A t \in Threads : Alive(t) => t \in stopped

\* The board at the cloud follows the Pi's: nothing of a test, nothing invented,
\* nothing older than what was shown; and each meet's start list there is its
\* own, and never goes back (send on connect, then relay_emit).
Promise == INSTANCE RelayedBoard WITH private <- tested
PromiseKept == Promise!Spec

\* Left alone, an enabled link ends feeding the loaded meet, whose board at the
\* cloud is the Pi's, and its Schedule too: start list, official results and the
\* console's times (send on connect; docs/architecture/meet-manager-results.md).
CatchesUp ==
    <>[](cloud_on /\ ~local_only =>
            /\ served[meet] # 0 /\ shown[meet] = board
            /\ CloudHeats = PiHeats)
=============================================================================
