------------------------------- MODULE Kiosk -------------------------------
(***************************************************************************)
(* The Qt display beside the pool, on its Live view: scoreboard/client.py  *)
(* (the link and the config fetch), scoreboard/app.py (what a frame, a     *)
(* drop and a config do) and scoreboard/board.py (the rows, the podium,    *)
(* the transition between two heats, the race clock), with what the server *)
(* sends it (server/app.py ws_scoreboard, worker.py, routes/update.py).    *)
(*                                                                         *)
(* The server sends partial frames over one socket, in order.  A cable may *)
(* be pulled (the frames wait in it and are lost with the socket once the  *)
(* display has heard nothing for _STALE seconds), the server may restart,  *)
(* and the display may restart into a new version.  On every connect the   *)
(* display is sent the whole board again.                                  *)
(*                                                                         *)
(* A time is a number: 0 is blank, 2s - 1 the split and 2s the final time  *)
(* of the s-th swim.  The row of a running lane shows Clock, the ticker's  *)
(* text.  Fades of a background and of the table end in the step that      *)
(* starts them; the steps between them are timers and keep their order.    *)
(***************************************************************************)
EXTENDS Integers, Sequences, FiniteSets

CONSTANTS
    Lanes,          \* the lanes of the pool
    Heats,          \* the heats of the meet, positive numbers
    MaxFrames,      \* a frame is sent with fewer than that many in flight
    MaxEvents,      \* bounds the swims, pulled cables, restarts of the server, test
                    \* sessions, saved settings, updates and splash screens, together
    Corrections,    \* BOOLEAN: a place may be corrected once given, or a lane swim its heat
                    \* again with the display away and the place of the first swim up
    SavesInUse,     \* BOOLEAN: a lane count may be saved while the board shows something
    SavesMidFetch,  \* BOOLEAN: settings may be saved while the display fetches them
    RestartsMidRace,\* BOOLEAN: the server may restart with a lane running
    TestsUnheard    \* BOOLEAN: the end of a test session may be lost

ASSUME KioskAssumption ==
    /\ IsFiniteSet(Lanes) /\ Lanes # {} /\ Lanes \subseteq 1..3
    /\ Heats \subseteq Nat \ {0}
    /\ {MaxFrames, MaxEvents} \subseteq Nat
    /\ {Corrections, SavesInUse, SavesMidFetch, RestartsMidRace, TestsUnheard} \subseteq BOOLEAN

VARIABLES
    srv,    \* the server: the heat, the replay cache of the board, the session
    wire,   \* the frames in flight to the display
    link,   \* the socket, the cable and what the display thinks of them
    tv,     \* the window: snapshot, rows, podium, transition, clock
    cfg,    \* the lane layout the window was built with, and the fetch in flight
    upd,    \* the display's updater
    left    \* how many more of the events MaxEvents bounds may come

kioskVars == <<srv, wire, link, tv, cfg, upd, left>>

Clock == -1     \* a row's time cell in the ticker's hands
Absent == -1    \* a frame that names no heat; a window that has seen none

Places == 0..Cardinality(Lanes)
Times == 0..(2 * MaxEvents)
Blank == [run |-> FALSE, time |-> 0, place |-> 0]

-----------------------------------------------------------------------------
(* The server's side.                                                      *)

\* srv.lanes is what the decoder knows, srv.board (state.board) what was published
\* of them since it was last cleared.
Swimming == \E l \in Lanes : srv.lanes[l].run
RaceOver == /\ \A l \in Lanes : ~srv.lanes[l].run
            /\ \E l \in Lanes : srv.lanes[l].place # 0
            /\ \A l \in Lanes : srv.lanes[l].time # 0 => srv.lanes[l].place # 0

NoLanes == [l \in {} |-> Blank]
Update(heat, lanes) == [kind |-> "update_scoreboard", heat |-> heat, lanes |-> lanes]
Event(kind) == [kind |-> kind, heat |-> Absent, lanes |-> NoLanes]
EventInfo == Update(srv.heat, NoLanes)
WholeBoard == Update(srv.heat, srv.board)

\* What the bus sends reaches the socket when there is one.
Send(frames) ==
    /\ link.conn => Len(wire) < MaxFrames
    /\ wire' = IF link.conn THEN wire \o frames ELSE wire

\* board with the lanes that a frame brings.
With(lanes, board) ==
    [l \in DOMAIN lanes \cup DOMAIN board |-> IF l \in DOMAIN lanes THEN lanes[l] ELSE board[l]]

Publish(lanes) ==
    /\ srv' = [srv EXCEPT !.lanes = With(lanes, @), !.board = With(lanes, @)]
    /\ Send(<<Update(Absent, lanes)>>)

\* Lanes that swim; a splash they take down goes ahead (_auto_dismiss_overlay).
Runs(lanes) == LET frame == Update(Absent, lanes) IN
               IF srv.overlay THEN <<Event("no_overlay"), frame>> ELSE <<frame>>

\* The display has taken the lane count last saved.
LayoutTaken == SavesInUse \/ cfg.layout = srv.layout

\* The console announces a heat, or the operator sets one: the lanes are reset in
\* the frame that names it.
NewHeat(h) ==
    /\ ~Swimming /\ h # srv.heat
    /\ LayoutTaken
    /\ srv' = [srv EXCEPT !.heat = h, !.lanes = [l \in Lanes |-> Blank],
                          !.board = [l \in Lanes |-> Blank], !.confirmed = TRUE]
    /\ Send(<<Update(h, [l \in Lanes |-> Blank])>>)
    /\ UNCHANGED <<link, tv, cfg, upd, left>>

\* The display has places of the lanes ls in the heat of the server.
PlacesUp(ls) == tv.key = srv.heat /\ \E l \in ls : tv.snap[l].place # 0

\* The gun: the lanes that swim start together, those of the race before among them.
Start(ls) ==
    LET lanes == [l \in ls |-> [srv.lanes[l] EXCEPT !.run = TRUE, !.place = 0]] IN
    /\ srv.heat # 0 /\ ~Swimming /\ left > 0
    /\ Corrections \/ ~PlacesUp(ls) \/ (link.conn /\ ~link.cut)
    /\ {l \in Lanes : srv.lanes[l] # Blank} \subseteq ls
    /\ srv' = [srv EXCEPT !.lanes = With(lanes, @), !.board = With(lanes, @), !.confirmed = FALSE,
                          !.swim = @ + 1, !.overlay = FALSE]
    /\ Send(Runs(lanes))
    /\ left' = left - 1
    /\ UNCHANGED <<link, tv, cfg, upd>>

\* A lane comes back from the wall.
Resume(l) ==
    LET lanes == [k \in {l} |-> [srv.lanes[l] EXCEPT !.run = TRUE]] IN
    /\ ~srv.lanes[l].run /\ srv.lanes[l].time = 2 * srv.swim - 1 /\ srv.swim # 0
    /\ srv' = [srv EXCEPT !.lanes = With(lanes, @), !.board = With(lanes, @), !.overlay = FALSE]
    /\ Send(Runs(lanes))
    /\ UNCHANGED <<link, tv, cfg, upd, left>>

Touch(l) ==
    /\ srv.lanes[l].run
    /\ Publish([k \in {l} |-> [run |-> FALSE, time |-> 2 * srv.swim - 1, place |-> 0]])
    /\ UNCHANGED <<link, tv, cfg, upd, left>>

\* A lane finishes, with the next place; a place already given may be corrected.
Finish(l) ==
    \E p \in Places \ {0} :
        /\ \/ srv.lanes[l].run /\ p = 1 + Cardinality({k \in Lanes : srv.lanes[k].place # 0})
           \/ Corrections /\ srv.lanes[l].place \notin {0, p}
        /\ Publish([k \in {l} |-> [run |-> FALSE, time |-> 2 * srv.swim, place |-> p]])
        /\ UNCHANGED <<link, tv, cfg, upd, left>>

RunningTime ==
    /\ Swimming \/ RaceOver
    /\ wire = <<>> /\ link.conn /\ ~(tv.base /\ tv.rebased)
    /\ Send(<<Event("running_time")>>)
    /\ UNCHANGED <<srv, link, tv, cfg, upd, left>>

\* The finish debounce confirmed the race.
RaceFinished ==
    /\ RaceOver /\ ~srv.confirmed
    /\ srv' = [srv EXCEPT !.confirmed = TRUE]
    /\ Send(<<Event("race_finished")>>)
    /\ UNCHANGED <<link, tv, cfg, upd, left>>

\* A sustained re-start of the same heat (worker._do_board_reset).
BoardReset ==
    /\ ~Swimming /\ (\E l \in Lanes : srv.lanes[l] # Blank)
    /\ Publish([l \in Lanes |-> Blank])
    /\ UNCHANGED <<link, tv, cfg, upd, left>>

\* Another client connects: everybody gets the names of the heat.
OtherConnects ==
    /\ wire = <<>> /\ link.conn
    /\ Send(<<EventInfo>>)
    /\ UNCHANGED <<srv, link, tv, cfg, upd, left>>

\* The operator's carousel button.
Overlay(on) ==
    /\ srv.overlay # on /\ left > 0 /\ LayoutTaken
    /\ srv' = [srv EXCEPT !.overlay = on]
    /\ Send(<<Event(IF on THEN "overlay" ELSE "no_overlay")>>)
    /\ left' = left - 1
    /\ UNCHANGED <<link, tv, cfg, upd>>

TestStarts ==
    /\ ~srv.testing /\ ~Swimming /\ left > 0 /\ LayoutTaken
    /\ srv' = [srv EXCEPT !.testing = TRUE, !.saved = srv.heat, !.heat = 0,
                          !.lanes = [l \in Lanes |-> Blank], !.confirmed = TRUE]
    /\ Send(<<Event("test_mode"), Update(0, NoLanes)>>)
    /\ left' = left - 1
    /\ UNCHANGED <<link, tv, cfg, upd>>

\* The heat of before the session comes back; the boards are wiped and the replay
\* cache with them.
TestEnds ==
    LET names == Update(srv.saved, NoLanes) IN
    /\ srv.testing /\ (TestsUnheard \/ (link.conn /\ ~link.cut))
    /\ srv' = [srv EXCEPT !.testing = FALSE, !.heat = srv.saved, !.saved = 0, !.board = NoLanes,
                          !.lanes = [l \in Lanes |-> Blank], !.confirmed = TRUE]
    /\ Send(<<names, Event("no_test_mode"), Event("reset"), names>>)
    /\ UNCHANGED <<link, tv, cfg, upd, left>>

-----------------------------------------------------------------------------
(* The window (board.py).  Each operator is what a method leaves of it.    *)

Racing(t) == \E l \in Lanes : t.rows[l].run
HasResults(t) == \E l \in Lanes : t.rows[l].time # 0 \/ t.rows[l].place # 0
HeatIsDone(t) ==
    \A l \in Lanes : ~t.rows[l].run /\ (t.rows[l].time # 0 => t.rows[l].place # 0)

ClearedRow(r) == [r EXCEPT !.time = 0, !.place = 0, !.tint = 0]

\* Mutant: a tint outlives its place.
UpdatedRowKeepsTint(r, s) == [r EXCEPT !.time = IF r.run THEN @ ELSE s.time, !.place = s.place]

\* LaneRow.update_from: a running lane's time is the ticker's, and a tint the row
\* has no place for goes.
UpdatedRow(r, s) ==
    [r EXCEPT !.time = IF r.run THEN @ ELSE s.time,
              !.place = s.place,
              !.tint = IF s.place = 0 THEN 0 ELSE @]

UpdateRows(t, ls) ==
    [t EXCEPT !.rows = [l \in Lanes |-> IF l \in ls THEN UpdatedRow(@[l], t.snap[l]) ELSE @[l]]]
Refresh(t) == UpdateRows(t, Lanes)

StopClock(t) ==
    [t EXCEPT !.ticking = FALSE, !.base = FALSE,
              !.rows = [l \in Lanes |-> [@[l] EXCEPT !.run = FALSE]]]

ClearPodium(t) ==
    [t EXCEPT !.due = {}, !.shown = FALSE,
              !.rows = [l \in Lanes |-> [@[l] EXCEPT !.tint = 0]]]

\* Once per heat, and not on an empty board: a timer per placed row, gold first.
HighlightPodium(t) ==
    LET placed == {l \in Lanes : t.rows[l].place # 0} IN
    IF t.shown \/ placed = {} THEN t ELSE [t EXCEPT !.shown = TRUE, !.due = placed]

BeginTransition(t) ==
    IF ~HasResults(t) THEN [t EXCEPT !.cols = FALSE]
    ELSE LET s == StopClock(t) IN
         [s EXCEPT !.step = 1, !.rows = [l \in Lanes |-> [@[l] EXCEPT !.tint = 0]]]

CancelTransition(t) == IF t.step = 0 THEN t ELSE Refresh([t EXCEPT !.step = 0])

\* The ticker runs while a lane swims and the console is heard, and paints now.
SyncClock(t) ==
    LET on == Racing(t) /\ ~link'.lost IN
    [t EXCEPT !.ticking = on,
              !.rows = [l \in Lanes |->
                  IF on /\ t.base /\ @[l].run THEN [@[l] EXCEPT !.time = Clock] ELSE @[l]]]

Reset(t) ==
    LET c == CancelTransition(StopClock(t)) IN
    [c EXCEPT !.due = {}, !.shown = FALSE, !.key = Absent, !.cols = TRUE,
              !.snap = [l \in Lanes |-> [time |-> 0, place |-> 0]],
              !.rows = [l \in Lanes |-> ClearedRow(@[l])]]

\* A frame of a running lane carries no time: the snapshot keeps the last.
Merged(t, f) ==
    [t EXCEPT !.snap = [l \in Lanes |->
                  IF l \notin DOMAIN f.lanes THEN @[l]
                  ELSE [time |-> IF f.lanes[l].run THEN @[l].time ELSE f.lanes[l].time,
                        place |-> f.lanes[l].place]],
              !.rows = [l \in Lanes |->
                  IF l \in DOMAIN f.lanes THEN [@[l] EXCEPT !.run = f.lanes[l].run] ELSE @[l]]]

\* Mutant: a new heat leaves the last one's numbers in the snapshot.
DroppedNothing(t, f) == t.snap

\* _drop_stale_timing: the numbers of the heat before, but for those the frame brought.
Dropped(t, f) == [l \in Lanes |-> IF l \in DOMAIN f.lanes THEN t.snap[l] ELSE [time |-> 0, place |-> 0]]

HeatChanged(t, f) ==
    LET fresh == [t EXCEPT !.key = f.heat, !.due = {}, !.shown = FALSE, !.snap = Dropped(t, f)]
    IN  IF t.key = Absent THEN [fresh EXCEPT !.cols = FALSE] ELSE BeginTransition(fresh)

RaceStarted(t) == [ClearPodium(CancelTransition(t)) EXCEPT !.cols = TRUE]

ApplyUpdate(t, f) ==
    LET wasRacing == Racing(t)
        a == Merged(t, f)
        b == IF f.heat # Absent /\ f.heat # t.key THEN HeatChanged(a, f) ELSE a
        c == IF ~wasRacing /\ Racing(b) THEN RaceStarted(b) ELSE b
        d == IF f.kind = "running_time" /\ ~HeatIsDone(c)
             THEN [c EXCEPT !.base = TRUE, !.rebased = TRUE] ELSE c
        e == IF d.step # 0 THEN d
             ELSE UpdateRows(d, IF f.heat # Absent THEN Lanes ELSE DOMAIN f.lanes)
        g == IF e.step = 0 /\ HeatIsDone(e) THEN HighlightPodium(e) ELSE e
    IN  SyncClock(g)

\* A frame of a race takes the splash down.  The server is told, and tells every
\* client, this one among them.
AfterUpdate(t) == IF t.splash /\ Racing(t) THEN [t EXCEPT !.splash = FALSE] ELSE t
Dismisses(t) == t.splash /\ Racing(t)

\* apply_theme paints the tint of the place each row has now, and repaints the rows.
Themed(t) ==
    Refresh([t EXCEPT !.rows = [l \in Lanes |-> [@[l] EXCEPT !.tint = t.rows[l].place]]])

NewWindow == [snap |-> [l \in Lanes |-> [time |-> 0, place |-> 0]],
              rows |-> [l \in Lanes |-> [run |-> FALSE, time |-> 0, place |-> 0, tint |-> 0]],
              key |-> Absent, step |-> 0, cols |-> TRUE, shown |-> FALSE, due |-> {},
              ticking |-> FALSE, base |-> FALSE, rebased |-> TRUE,
              splash |-> FALSE, badge |-> FALSE]
NewLink == [conn |-> FALSE, cut |-> FALSE, lost |-> FALSE, told |-> FALSE,
            ever |-> FALSE, waiting |-> TRUE, covered |-> TRUE]

-----------------------------------------------------------------------------
(* The link (client.py ServerLink, app.py _on_connected).                  *)

\* What a connection brings: a config fetch, and from the server everything it holds.
Greet ==
    /\ link' = [link EXCEPT !.conn = TRUE, !.ever = TRUE, !.lost = FALSE, !.told = FALSE,
                            !.waiting = FALSE, !.covered = FALSE]
    /\ wire' = <<Event(IF srv.testing THEN "test_mode" ELSE "no_test_mode"),
                 Event(IF srv.overlay THEN "overlay" ELSE "no_overlay"),
                 Event("columns"), EventInfo, WholeBoard>>
    /\ tv' = [tv EXCEPT !.rebased = ~tv.base]
    /\ cfg' = [cfg EXCEPT !.fetch = IF @ = "no" THEN "asked" ELSE @]
    /\ UNCHANGED <<srv, upd, left>>

Connect == ~link.conn /\ ~link.cut /\ Greet

\* The clock freezes at once; the badge waits for the grace period.  The receive
\* loop reports every failed attempt.
Lost(l) ==
    IF ~l.ever THEN [l EXCEPT !.waiting = TRUE, !.covered = TRUE]
    ELSE IF l.lost THEN l
    ELSE [l EXCEPT !.lost = TRUE]

Drop ==
    /\ wire' = <<>>
    /\ link' = Lost([link EXCEPT !.conn = FALSE])
    /\ tv' = [tv EXCEPT !.ticking = IF link.ever THEN FALSE ELSE @]

\* Nothing heard for _STALE seconds.
GoesStale == link.conn /\ link.cut /\ Drop /\ UNCHANGED <<srv, cfg, upd, left>>

\* An attempt failed: connected(False) again, every _RETRY_EVERY seconds.
RetryFails ==
    /\ ~link.conn /\ link.cut /\ link' = Lost(link)
    /\ tv' = [tv EXCEPT !.ticking = IF link.ever THEN FALSE ELSE @]
    /\ UNCHANGED <<srv, wire, cfg, upd, left>>

AnnounceDrop ==
    /\ link.lost /\ ~link.told
    /\ link' = [link EXCEPT !.told = TRUE, !.waiting = TRUE]
    /\ UNCHANGED <<srv, wire, tv, cfg, upd, left>>

Swum(f) == {l \in DOMAIN f.lanes : f.lanes[l].run}

\* Not lost in the cable: the end of a test session, and the start of a lane whose
\* place is up already.
Heard ==
    \A i \in DOMAIN wire : /\ TestsUnheard \/ wire[i].kind # "reset"
                           /\ Corrections \/ ~PlacesUp(Swum(wire[i]))

Cut ==
    /\ ~link.cut /\ left > 0 /\ Heard
    /\ link' = [link EXCEPT !.cut = TRUE]
    /\ left' = left - 1
    /\ UNCHANGED <<srv, wire, tv, cfg, upd>>

Mended ==
    /\ link.cut
    /\ link' = [link EXCEPT !.cut = FALSE]
    /\ UNCHANGED <<srv, wire, tv, cfg, upd, left>>

ServerRestarts ==
    /\ left > 0 /\ link.conn /\ ~link.cut
    /\ RestartsMidRace \/ (~Swimming /\ ~Racing(tv))
    /\ Heard /\ (TestsUnheard \/ ~srv.testing)
    /\ Drop
    /\ srv' = [srv EXCEPT !.heat = 0, !.lanes = [l \in Lanes |-> Blank], !.board = NoLanes,
                          !.testing = FALSE, !.saved = 0, !.overlay = FALSE, !.confirmed = TRUE]
    /\ left' = left - 1
    /\ UNCHANGED <<cfg, upd>>

-----------------------------------------------------------------------------
(* A frame (app.py _on_frame).                                             *)

Paint(t) ==
    /\ wire' = Tail(wire)
    /\ tv' = t
    /\ UNCHANGED <<link, left>>

\* An update is refused while a lane runs, and while one is under way.
OnUpdate == IF Racing(tv) \/ upd.busy THEN upd ELSE [upd EXCEPT !.busy = TRUE]

Deliver ==
    LET f == Head(wire) IN
    /\ link.conn /\ ~link.cut /\ wire # <<>>
    /\ \/ /\ f.kind \in {"update_scoreboard", "running_time"}
          /\ link' = link
          /\ LET t == ApplyUpdate(tv, f) IN
             /\ tv' = AfterUpdate(t)
             /\ IF Dismisses(t)
                THEN /\ srv' = [srv EXCEPT !.overlay = FALSE]
                     /\ wire' = Tail(wire) \o <<Event("no_overlay")>>
                ELSE srv' = srv /\ wire' = Tail(wire)
          /\ UNCHANGED <<cfg, upd, left>>
       \/ /\ f.kind = "race_finished"
          /\ Paint(HighlightPodium(StopClock(tv)))
          /\ UNCHANGED <<srv, cfg, upd>>
       \/ /\ f.kind = "reset"
          /\ Paint(Reset(tv))
          /\ UNCHANGED <<srv, cfg, upd>>
       \/ /\ f.kind = "test_mode"
          /\ Paint([Reset(tv) EXCEPT !.badge = TRUE])
          /\ UNCHANGED <<srv, cfg, upd>>
       \/ /\ f.kind = "no_test_mode"
          /\ Paint([tv EXCEPT !.badge = FALSE])
          /\ UNCHANGED <<srv, cfg, upd>>
       \/ /\ f.kind \in {"overlay", "no_overlay"}
          /\ Paint([tv EXCEPT !.splash = (f.kind = "overlay")])
          /\ UNCHANGED <<srv, cfg, upd>>
       \/ /\ f.kind = "columns"
          /\ Paint([tv EXCEPT !.cols = TRUE])
          /\ UNCHANGED <<srv, cfg, upd>>
       \/ /\ f.kind = "reload"
          /\ Paint(tv)
          /\ cfg' = [cfg EXCEPT !.fetch = IF @ = "no" THEN "asked" ELSE @]
          /\ UNCHANGED <<srv, upd>>
       \/ /\ f.kind = "update"
          /\ Paint(tv)
          /\ upd' = OnUpdate
          /\ UNCHANGED <<srv, cfg>>

-----------------------------------------------------------------------------
(* The timers of the window.                                               *)

\* The row takes the tint of the place it has when its timer fires.
PodiumTimer(l) ==
    /\ l \in tv.due /\ \A k \in tv.due : tv.rows[k].place >= tv.rows[l].place
    /\ tv' = [tv EXCEPT !.due = @ \ {l}, !.rows[l].tint = tv.rows[l].place]
    /\ UNCHANGED <<srv, wire, link, cfg, upd, left>>

\* Tints out, columns closed, table faded out, then the new heat is painted.
TransitionStep ==
    /\ tv.step # 0
    /\ tv' = CASE tv.step = 1 -> [tv EXCEPT !.step = 2, !.cols = FALSE]
               [] tv.step = 2 -> [tv EXCEPT !.step = 3]
               [] tv.step = 3 -> Refresh([tv EXCEPT !.step = 0,
                                     !.rows = [l \in Lanes |-> ClearedRow(@[l])]])
    /\ UNCHANGED <<srv, wire, link, cfg, upd, left>>

-----------------------------------------------------------------------------
(* The config (client.py ConfigLoader, app.py _on_config).                 *)

\* Display settings are saved: the layout is the lane count and the first lane.
Save ==
    /\ left > 0
    /\ SavesInUse \/ (srv.heat = 0 /\ ~srv.testing /\ ~srv.overlay)
    /\ SavesMidFetch \/ cfg.fetch = "no"
    /\ srv' = [srv EXCEPT !.layout = @ + 1]
    /\ Send(<<Event("reload")>>)
    /\ left' = left - 1
    /\ UNCHANGED <<link, tv, cfg, upd>>

Answer ==
    /\ cfg.fetch = "asked" /\ ~link.cut
    /\ cfg' = [cfg EXCEPT !.fetch = "read", !.reply = srv.layout]
    /\ UNCHANGED <<srv, wire, link, tv, upd, left>>

\* Before the first success a timer asks again.
FetchFails ==
    /\ cfg.fetch # "no" /\ link.cut
    /\ cfg' = [cfg EXCEPT !.fetch = IF cfg.have THEN "no" ELSE "asked", !.reply = 0]
    /\ UNCHANGED <<srv, wire, link, tv, upd, left>>

\* Another lane count rebuilds the window from the snapshot.  The new one does not
\* know that the link is lost: if the wait timer runs, its message covers the board.
Rebuilt ==
    /\ tv' = Refresh([NewWindow EXCEPT !.snap = tv.snap])
    /\ link' = [link EXCEPT !.lost = FALSE, !.told = FALSE, !.covered = @ \/ link.waiting]

OnConfig ==
    /\ cfg.fetch = "read" /\ ~link.cut
    /\ IF cfg.reply = cfg.layout THEN tv' = Themed(tv) /\ link' = link ELSE Rebuilt
    /\ cfg' = [cfg EXCEPT !.fetch = "no", !.have = TRUE, !.layout = cfg.reply, !.reply = 0]
    /\ UNCHANGED <<srv, wire, upd, left>>

-----------------------------------------------------------------------------
(* The update of the display (updater.py, routes/update.py, board.py menu).*)

\* Update displays, refused while a lane runs; the menu on the TV asks the same.
Press ==
    /\ left > 0 /\ ~Swimming /\ link.conn
    /\ Send(<<Event("update")>>)
    /\ left' = left - 1
    /\ UNCHANGED <<srv, link, tv, cfg, upd>>

MenuUpdate ==
    /\ left > 0 /\ ~Racing(tv) /\ ~upd.busy
    /\ upd' = [upd EXCEPT !.busy = TRUE]
    /\ left' = left - 1
    /\ UNCHANGED <<srv, wire, link, tv, cfg>>

UpdateEnds(ok) ==
    /\ upd.busy
    /\ upd' = [upd EXCEPT !.busy = FALSE, !.leaving = @ \/ ok]
    /\ UNCHANGED <<srv, wire, link, tv, cfg, left>>

\* The new process: a window, a link and a fetch of its own.
Fresh ==
    /\ tv' = NewWindow
    /\ wire' = <<>>
    /\ link' = [NewLink EXCEPT !.cut = link.cut]
    /\ cfg' = [cfg EXCEPT !.fetch = "asked", !.have = FALSE, !.reply = 0]
    /\ UNCHANGED <<srv, left>>

\* Mutant: the new version updates itself again.
RestartAgain == upd.leaving /\ Fresh /\ upd' = upd

\* os._exit a second later; the launcher starts the display again.
Restart == upd.leaving /\ Fresh /\ upd' = [busy |-> FALSE, leaving |-> FALSE]

-----------------------------------------------------------------------------
KioskInit ==
    /\ srv = [heat |-> 0, lanes |-> [l \in Lanes |-> Blank], board |-> NoLanes, swim |-> 0,
              confirmed |-> TRUE, testing |-> FALSE, saved |-> 0, overlay |-> FALSE, layout |-> 1]
    /\ wire = <<>>
    /\ link = NewLink
    /\ tv = NewWindow
    /\ cfg = [fetch |-> "asked", reply |-> 0, layout |-> 1, have |-> FALSE]
    /\ upd = [busy |-> FALSE, leaving |-> FALSE]
    /\ left = MaxEvents

Server == \/ \E h \in Heats : NewHeat(h)
          \/ \E ls \in SUBSET Lanes \ {{}} : Start(ls)
          \/ \E l \in Lanes : Resume(l) \/ Touch(l) \/ Finish(l)
          \/ RunningTime \/ RaceFinished \/ BoardReset \/ OtherConnects
          \/ \E on \in BOOLEAN : Overlay(on)
          \/ TestStarts \/ TestEnds \/ Save \/ Press

Faults == Cut \/ ServerRestarts

Display == \/ Connect \/ GoesStale \/ RetryFails \/ AnnounceDrop
           \/ Deliver \/ TransitionStep \/ (\E l \in Lanes : PodiumTimer(l))
           \/ Answer \/ FetchFails \/ OnConfig
           \/ MenuUpdate \/ (\E ok \in BOOLEAN : UpdateEnds(ok)) \/ Restart

KioskNext == Server \/ Faults \/ Mended \/ Display

\* What the threads and timers of the display do by themselves; a pulled cable is put
\* back.
Progress == \/ Connect \/ GoesStale \/ Deliver \/ TransitionStep
            \/ (\E l \in Lanes : PodiumTimer(l))
            \/ Answer \/ OnConfig \/ (\E ok \in BOOLEAN : UpdateEnds(ok)) \/ Restart \/ Mended

\* Where Progress is enabled: weak fairness is written out with it.
Ready == \/ link.cut \/ ~link.conn \/ wire # <<>> \/ tv.step # 0 \/ tv.due # {}
         \/ cfg.fetch # "no" \/ upd.busy \/ upd.leaving
Fairness == []<>~Ready \/ []<><<Progress>>_kioskVars

KioskSpec == KioskInit /\ [][KioskNext]_kioskVars /\ Fairness

-----------------------------------------------------------------------------
(* Properties.                                                             *)

Frames == [kind : {"update_scoreboard", "running_time", "race_finished", "reset", "test_mode",
                   "no_test_mode", "overlay", "no_overlay", "columns", "reload", "update"},
           heat : Heats \union {0, Absent},
           lanes : UNION {[ls -> [run : BOOLEAN, time : Times, place : Places]]
                             : ls \in SUBSET Lanes}]

KioskTypeOK ==
    /\ srv.heat \in Heats \union {0} /\ srv.board \in {f.lanes : f \in {WholeBoard}}
    /\ \A i \in DOMAIN wire : wire[i] \in Frames
    /\ tv.key \in Heats \union {0, Absent} /\ tv.step \in 0..3 /\ tv.due \subseteq Lanes
    /\ tv.rows \in [Lanes -> [run : BOOLEAN, time : Times \union {Clock}, place : Places, tint : Places]]
    /\ cfg.fetch \in {"no", "asked", "read"}
    \* The ticker runs only for a lane that swims, and never on a link known lost:
    \* it would show a race time nobody measured.
    /\ tv.ticking => ~link.lost /\ Racing(tv)

\* Nothing in flight and nothing being animated.
CaughtUp == link.conn /\ ~link.cut /\ wire = <<>> /\ tv.step = 0

Published(l) == IF l \in DOMAIN srv.board THEN srv.board[l] ELSE Blank

\* A row shows what the server last published of its lane.
RowShows(l) ==
    /\ tv.rows[l].run = Published(l).run
    /\ tv.rows[l].place = Published(l).place
    /\ Published(l).run \/ tv.rows[l].time = Published(l).time

TestJustStarted == srv.testing /\ srv.heat = 0

BoardShown ==
    /\ CaughtUp
    /\ \A l \in Lanes : RowShows(l)
    /\ tv.key \in {srv.heat, Absent} /\ tv.badge = srv.testing /\ tv.splash = srv.overlay

\* Whatever was cut, restarted, replayed or rebuilt, a display that has caught up
\* shows the server's board: no time of another heat, no lane left running, the
\* test badge and the splash as the server has them (ws_scoreboard, apply_update).
\* The first instants of a test are left out: the cache still holds the real heat.
BoardIsServers == CaughtUp /\ ~TestJustStarted => BoardShown

\* Once the heat is over no row has the colour of a place it does not have: the
\* latch and the timers of highlight_podium never outlive the race they were set for.
PodiumFollowsPlaces ==
    CaughtUp /\ HeatIsDone(tv) /\ tv.due = {} =>
        \A l \in Lanes : tv.rows[l].tint \in {0, tv.rows[l].place}

\* When the server has nothing more to say, the display ends up showing its board
\* and stays there, whatever was lost before (ServerLink, _on_connected).
CatchesUp == <>[][~Server]_kioskVars => <>[](CaughtUp /\ (BoardShown \/ TestJustStarted))

-----------------------------------------------------------------------------
(* What the code does not prevent (README, "Cases").                       *)

\* No podium colour while a lane of the heat is still in the water.
NoTintWhileSwimming ==
    tv.step = 0 /\ Racing(tv) => \A l \in Lanes : tv.rows[l].tint = 0

\* Once the heat is over and the reveal has run, every placed row has its colour.
PodiumRevealed ==
    CaughtUp /\ HeatIsDone(tv) /\ tv.due = {} /\ cfg.fetch = "no" =>
        \A l \in Lanes : tv.rows[l].tint = tv.rows[l].place

\* A race on the board has its timing columns open.
ColumnsOpenWhileRacing == CaughtUp /\ Racing(tv) => tv.cols

\* Times on the board are not hidden behind closed columns.
ResultsVisible == CaughtUp /\ HasResults(tv) => tv.cols

\* Once connected, the board is never covered by the full-screen message.
BoardNotCovered == link.ever => ~link.covered

\* After a reconnect the clock starts again from a running_time of the console.
ClockRebased == tv.ticking /\ tv.base => tv.rebased

\* A display with nothing in flight has the layout the server has.
ConfigIsServers == CaughtUp /\ cfg.fetch = "no" => cfg.layout = srv.layout

\* The display never restarts with a lane running, nor in the middle of an update.
RestartsIdle == [][upd.leaving /\ ~upd'.leaving => ~Racing(tv) /\ ~upd.busy]_kioskVars
=============================================================================
