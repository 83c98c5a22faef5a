---------------------------- MODULE BoardReplay ----------------------------
(***************************************************************************)
(* How the board reaches the screens (server/state.py `board`, bus.py,     *)
(* worker.py, meet_data.send_event_info, app.ws_scoreboard).               *)
(*                                                                         *)
(* The worker thread publishes partial frames: it merges each into         *)
(* `state.board` and then hands it to the event loop, which broadcasts the *)
(* frames in the order they were handed over.  A screen that connects runs *)
(* a coroutine on that loop: it joins the channel, announces the current   *)
(* heat to everyone (send_event_info), and is then sent a copy of          *)
(* `state.board`.  The announcement runs without an await, so no broadcast *)
(* falls inside it, but the worker thread may run between its steps.       *)
(*                                                                         *)
(* One row stands for the board's rows, and is a record of the fields a    *)
(* frame may carry; a frame is such a record with some fields missing.     *)
(***************************************************************************)
EXTENDS Naturals, Sequences

CONSTANTS
    Screens,    \* displays that connect and drop
    Heats,      \* the heats the console announces
    NoHeat,     \* (0, 0), and the heat of a delta that is blank
    MaxPubs,    \* bound: publications by the worker
    MaxJoins    \* bound: connections accepted

ASSUME BoardAssumption ==
    NoHeat \notin Heats /\ MaxPubs \in Nat /\ MaxJoins \in Nat

VARIABLES
    last_event_sent,  \* the decoder's current heat
    shown,            \* what the console has published, merged: the truth
    outbox,           \* frames the worker has still to publish, in order
    worker,           \* "idle", or the publication step the worker is at
    board,            \* state.board
    loop,             \* broadcasts handed to the event loop, in order
    screen,           \* per screen: its connection's coroutine
    info,             \* the heat send_event_info read
    view,             \* what each screen shows
    pubs, joins       \* counters the two bounds cap

boardVars == <<last_event_sent, shown, outbox, worker, board, loop, screen,
               info, view, pubs, joins>>

-----------------------------------------------------------------------------
Times == 0..MaxPubs   \* 0: no time; n: the time the n-th publication put up
Fields == {"heat", "time", "delta", "seconds"}
Rows == [heat : Heats \cup {NoHeat}, time : Times,
         delta : Heats \cup {NoHeat}, seconds : Heats \cup {NoHeat}]
Blank == [heat |-> NoHeat, time |-> 0, delta |-> NoHeat, seconds |-> NoHeat]

\* A frame merged into a board: the fields it carries, over what was there.
Merge(row, frame) ==
    [f \in Fields |-> IF f \in DOMAIN frame THEN frame[f] ELSE row[f]]

\* What reset_lanes() publishes; its structured delta is not among it.
ResetFrame == [time |-> 0, delta |-> NoHeat]
EventFrame(h) == [heat |-> h, time |-> 0, delta |-> NoHeat]
SplitFrame(n) == [time |-> n]
FinalFrame(n, h) == [time |-> n, delta |-> h, seconds |-> h]

\* What send_event_info announces: header, names and blank deltas.
InfoFrame(h) == [heat |-> h, delta |-> NoHeat, seconds |-> NoHeat]

BoardInit ==
    /\ last_event_sent = NoHeat
    /\ shown = Blank
    /\ outbox = <<>>
    /\ worker = "idle"
    /\ board = Blank
    /\ loop = <<>>
    /\ screen = [s \in Screens |-> "off"]
    /\ info = NoHeat
    /\ view = [s \in Screens |-> Blank]
    /\ pubs = 0
    /\ joins = 0

-----------------------------------------------------------------------------
(* The worker thread.                                                      *)

\* Feeding a packet moves the decoder, before anything is published.
Feed ==
    /\ worker = "idle" /\ pubs < MaxPubs
    /\ pubs' = pubs + 1
    /\ \/ \E h \in Heats \ {last_event_sent} :
            last_event_sent' = h /\ outbox' = <<EventFrame(h)>>
       \/ /\ outbox' \in {<<SplitFrame(pubs + 1)>>,
                          <<FinalFrame(pubs + 1, last_event_sent)>>}
          /\ UNCHANGED last_event_sent
       \* _worker_clear_heat: the wipe, then send_event_info's blank header.
       \/ /\ last_event_sent' = NoHeat
          /\ outbox' = <<ResetFrame, InfoFrame(NoHeat)>>
    /\ worker' = "record"
    /\ UNCHANGED <<shown, board, loop, screen, info, view, joins>>

\* record_board: one atomic dict.update.
Record ==
    /\ worker = "record"
    /\ board' = Merge(board, Head(outbox))
    /\ shown' = Merge(shown, Head(outbox))
    /\ worker' = "emit"
    /\ UNCHANGED <<last_event_sent, outbox, loop, screen, info, view, pubs,
                   joins>>

\* bus.emit: handed to the loop, never run inside it.
Emit ==
    /\ worker = "emit"
    /\ loop' = Append(loop, Head(outbox))
    /\ outbox' = Tail(outbox)
    /\ worker' = IF Tail(outbox) = <<>> THEN "idle" ELSE "record"
    /\ UNCHANGED <<last_event_sent, shown, board, screen, info, view, pubs,
                   joins>>

-----------------------------------------------------------------------------
(* The event loop.                                                         *)

JoinedScreens == {s \in Screens : screen[s] # "off"}

\* No connection is inside its await-free stretch.
LoopFree == \A s \in Screens : screen[s] \in {"off", "connected", "open"}

\* Mutant: broadcasts may overtake each other.
BroadcastAny ==
    /\ LoopFree
    /\ \E i \in DOMAIN loop :
        /\ view' = [s \in Screens |->
              IF s \in JoinedScreens THEN Merge(view[s], loop[i]) ELSE view[s]]
        /\ loop' = [j \in 1..(Len(loop) - 1) |->
              IF j < i THEN loop[j] ELSE loop[j + 1]]
    /\ UNCHANGED <<last_event_sent, shown, outbox, worker, board, screen, info,
                   pubs, joins>>

Broadcast ==
    /\ LoopFree /\ loop # <<>>
    /\ view' = [s \in Screens |->
          IF s \in JoinedScreens THEN Merge(view[s], Head(loop)) ELSE view[s]]
    /\ loop' = Tail(loop)
    /\ UNCHANGED <<last_event_sent, shown, outbox, worker, board, screen, info,
                   pubs, joins>>

\* The socket is accepted and in the channel; state frames are awaited next.
ConnectScreen(s) ==
    /\ LoopFree /\ screen[s] = "off" /\ joins < MaxJoins
    /\ joins' = joins + 1
    /\ screen' = [screen EXCEPT ![s] = "connected"]
    /\ view' = [view EXCEPT ![s] = Blank]
    /\ UNCHANGED <<last_event_sent, shown, outbox, worker, board, loop, info,
                   pubs>>

\* send_event_info: read the heat ...
ReadHeat(s) ==
    /\ LoopFree /\ screen[s] = "connected"
    /\ info' = last_event_sent
    /\ screen' = [screen EXCEPT ![s] = "read"]
    /\ UNCHANGED <<last_event_sent, shown, outbox, worker, board, loop, view,
                   pubs, joins>>

\* ... look its names up, record the announcement ...
RecordInfo(s) ==
    /\ screen[s] = "read"
    /\ board' = Merge(board, InfoFrame(info))
    /\ screen' = [screen EXCEPT ![s] = "recorded"]
    /\ UNCHANGED <<last_event_sent, shown, outbox, worker, loop, info, view,
                   pubs, joins>>

\* ... and hand it over for everyone.
EmitInfo(s) ==
    /\ screen[s] = "recorded"
    /\ loop' = Append(loop, InfoFrame(info))
    /\ screen' = [screen EXCEPT ![s] = "copying"]
    /\ UNCHANGED <<last_event_sent, shown, outbox, worker, board, info, view,
                   pubs, joins>>

\* The board snapshot, to this socket alone.
SendCopy(s) ==
    /\ screen[s] = "copying"
    /\ view' = [view EXCEPT ![s] = Merge(view[s], board)]
    /\ screen' = [screen EXCEPT ![s] = "open"]
    /\ UNCHANGED <<last_event_sent, shown, outbox, worker, board, loop, info,
                   pubs, joins>>

\* The link drops; the screen keeps its last picture until it reconnects.
DropScreen(s) ==
    /\ LoopFree /\ screen[s] \in {"connected", "open"}
    /\ screen' = [screen EXCEPT ![s] = "off"]
    /\ UNCHANGED <<last_event_sent, shown, outbox, worker, board, loop, info,
                   view, pubs, joins>>

\* A packet that changes nothing on the board publishes nothing.
FeedNothing == worker = "idle" /\ UNCHANGED boardVars

Worker == Feed \/ FeedNothing \/ Record \/ Emit
EventLoop ==
    \/ Broadcast
    \/ \E s \in Screens :
         ReadHeat(s) \/ RecordInfo(s) \/ EmitInfo(s) \/ SendCopy(s)
Network == \E s \in Screens : ConnectScreen(s) \/ DropScreen(s)

BoardNext == Worker \/ EventLoop \/ Network

BoardSpec == BoardInit /\ [][BoardNext]_boardVars

-----------------------------------------------------------------------------
(* Properties.                                                             *)

\* Every variable keeps its type, and the worker holds frames exactly while it
\* publishes.
BoardTypeOK ==
    /\ last_event_sent \in Heats \cup {NoHeat}
    /\ shown \in Rows /\ board \in Rows
    /\ worker \in {"idle", "record", "emit"}
    /\ worker = "idle" <=> outbox = <<>>
    /\ screen \in [Screens ->
          {"off", "connected", "read", "recorded", "copying", "open"}]
    /\ info \in Heats \cup {NoHeat}
    /\ view \in [Screens -> Rows]

\* At rest: nothing is left to publish, hand over or send.
AtRest ==
    /\ worker = "idle" /\ loop = <<>>
    /\ \A s \in Screens : screen[s] \in {"off", "open"}

\* Every connected screen ends with the lane times the console published last,
\* whenever it connected and whatever it missed (app.py:406, state.py:464).
LanesConverge ==
    AtRest => \A s \in JoinedScreens : view[s].time = shown.time

\* app.py:404: "the cache holds the truth about the keys `send_event_info` has
\* just blanked" -- so a screen that joins is shown the deltas on the board.
JoinKeepsDeltas ==
    AtRest => \A s \in JoinedScreens : view[s].delta = shown.delta

\* docs/api.md:60: what a connection broadcasts is "the current heat's header".
HeaderIsCurrent ==
    AtRest => \A s \in JoinedScreens : view[s].heat = last_event_sent

\* docs/api.md:385: "On a heat change all three reset": no structured delta of
\* another heat stays beside this heat's swimmer.
DeltasResetWithHeat ==
    AtRest => \A s \in JoinedScreens : view[s].seconds \in {NoHeat, view[s].heat}
=============================================================================
