--------------------------- MODULE RaceDebounce ---------------------------
(***************************************************************************)
(* The race state of the Pi server (server/worker.py): one worker thread   *)
(* owns the decoder, drains the command queue before every packet, and     *)
(* debounces the two edges of `race_finished()` with short-lived threads:  *)
(*                                                                         *)
(*   finish edge    a `_finish_task` sleeps `finish_debounce` and then     *)
(*                  publishes the results it captured;                     *)
(*   un-finish edge a `_reset_task` sleeps `reset_debounce` and then       *)
(*                  queues a board wipe for the worker.                    *)
(*                                                                         *)
(* Both carry the value `_finish_timer_gen` had when they were spawned,    *)
(* and act only while it still has that value.                             *)
(*                                                                         *)
(* A packet's handler is one action: the other threads read nothing it     *)
(* writes half-way except the generation.  A debounce thread's check and   *)
(* its publication are two.  Loading another meet, which writes the same   *)
(* state from a request thread, is the subject of MeetLoad.                *)
(***************************************************************************)
EXTENDS Naturals, Sequences, FiniteSets

CONSTANTS
    BoardLanes,     \* board rows with a lane module
    RunningOrder,   \* the loaded meet's heats, in running order (heat_order)
    Unlisted,       \* heats the console may announce that the meet lacks
    TestRace,       \* the console's test race: event 0 with a heat number
    NoHeat,         \* (0, 0): nothing announced yet
    MaxGen,         \* bound: edges and hand changes a run explores
    MaxCmds         \* bound: operator commands waiting at once

Listed == {RunningOrder[i] : i \in DOMAIN RunningOrder}
RealHeats == Listed \cup Unlisted
ConsoleHeats == RealHeats \cup {TestRace}
AnyHeat == ConsoleHeats \cup {NoHeat}

ASSUME HeatsAssumption ==
    /\ RunningOrder \in Seq(Listed)
    /\ \A i, j \in DOMAIN RunningOrder :
          RunningOrder[i] = RunningOrder[j] => i = j
    /\ TestRace \notin RealHeats
    /\ NoHeat \notin ConsoleHeats

ASSUME BoundsAssumption == MaxGen \in Nat /\ MaxCmds \in Nat

VARIABLES
    phase,             \* the worker: "drain" its queue, or "feed" the decoder
    last_event_sent,   \* the decoder's current heat
    lane,              \* the decoder's lanes
    running_lanes,     \* state._running_lanes, the worker's own set
    board,             \* the lanes of state.board, a joining display's replay
    prev_finished,     \* state._results_prev_race_finished
    finish_timer_gen,  \* state._finish_timer_gen
    last_results,      \* state._last_results_snapshot
    finish_tasks,      \* the live _finish_task threads
    reset_tasks,       \* the sleeping _reset_task threads, by generation
    worker_cmds,       \* state._worker_cmds
    console_times,     \* state.console_times: per heat, the swim kept
    published,         \* the last results_snapshot broadcast
    results_page       \* what a Results page that joined late shows

decoder == <<last_event_sent, lane>>
timers == <<finish_tasks, reset_tasks>>
screens == <<console_times, published, results_page>>
vars == <<phase, decoder, running_lanes, board, prev_finished,
          finish_timer_gen, last_results, timers, worker_cmds, screens>>

-----------------------------------------------------------------------------
(* Data.                                                                   *)

\* A lane module: dark, swimming, stopped with a time, or timed and placed.
LaneState == {"off", "running", "timed", "placed"}

\* Every lane dark: what reset_lanes() leaves and publishes.
DarkLanes == [l \in BoardLanes |-> "off"]

\* A results payload, told apart by the generation its finish edge took.
Snapshots == [heat : AnyHeat, lanes : SUBSET BoardLanes, id : Nat]
NoResults == [heat |-> NoHeat, lanes |-> {}, id |-> 0]

FinishTasks == [gen : Nat, snap : Snapshots, st : {"asleep", "passed"}]

Commands ==
    [op : {"goto"}, heat : AnyHeat] \cup
    [op : {"step"}, by : {"next", "prev"}] \cup
    [op : {"clear"}] \cup
    [op : {"reset"}, gen : Nat]

TimedLanes(ls) == {l \in BoardLanes : ls[l] \in {"timed", "placed"}}

\* Every lane with a time is stopped and placed, and there is one.
RaceFinished(ls) ==
    /\ \A l \in BoardLanes : ls[l] \in {"off", "placed"}
    /\ \E l \in BoardLanes : ls[l] = "placed"

\* The heats heat_step may answer: none, or the one to move to.
StepTargets(h, by) ==
    IF h \in Listed
    THEN {RunningOrder[j] : j \in
            {j \in DOMAIN RunningOrder :
                \E i \in DOMAIN RunningOrder :
                    /\ RunningOrder[i] = h
                    /\ j = IF by = "next" THEN i + 1 ELSE i - 1}}
    ELSE {RunningOrder[j] : j \in
            {j \in DOMAIN RunningOrder :
                j = IF by = "next" THEN 1 ELSE Len(RunningOrder)}}

-----------------------------------------------------------------------------
Init ==
    /\ phase = "drain"
    /\ last_event_sent = NoHeat
    /\ lane = DarkLanes
    /\ running_lanes = {}
    /\ board = DarkLanes
    /\ prev_finished = FALSE
    /\ finish_timer_gen = 0
    /\ last_results = NoResults
    /\ finish_tasks = {}
    /\ reset_tasks = {}
    /\ worker_cmds = <<>>
    /\ console_times = [h \in RealHeats |-> 0]
    /\ published = NoResults
    /\ results_page = NoResults

-----------------------------------------------------------------------------
(* The worker thread.                                                      *)

\* _on_race_state_changed, after a packet left the lanes at ls under heat h.
FinishEdge(h, ls) ==
    LET snap == [heat |-> h, lanes |-> TimedLanes(ls),
                 id |-> finish_timer_gen + 1]
    IN  /\ last_results' = snap
        /\ finish_timer_gen' = finish_timer_gen + 1
        /\ finish_tasks' = finish_tasks \cup
              {[gen |-> finish_timer_gen + 1, snap |-> snap, st |-> "asleep"]}
        /\ UNCHANGED reset_tasks

UnfinishEdge ==
    /\ finish_timer_gen' = finish_timer_gen + 1
    /\ reset_tasks' = reset_tasks \cup {finish_timer_gen + 1}
    /\ UNCHANGED <<last_results, finish_tasks>>

RaceStateChangedAnyRace(h, ls) ==
    /\ prev_finished' = RaceFinished(ls)
    /\ \/ RaceFinished(ls) /\ ~prev_finished /\ FinishEdge(h, ls)
       \/ ~RaceFinished(ls) /\ prev_finished /\ UnfinishEdge
       \/ /\ RaceFinished(ls) = prev_finished
          /\ UNCHANGED <<last_results, finish_timer_gen, timers>>

RaceStateChanged(h, ls) ==
    /\ prev_finished' = RaceFinished(ls)
    /\ \/ /\ RaceFinished(ls) /\ ~prev_finished /\ h # TestRace
          /\ FinishEdge(h, ls)
       \/ /\ ~RaceFinished(ls) /\ prev_finished
          /\ UnfinishEdge
       \/ /\ \/ RaceFinished(ls) = prev_finished
             \/ RaceFinished(ls) /\ h = TestRace
          /\ UNCHANGED <<last_results, finish_timer_gen, timers>>

\* One lane's packet: its running flag moves the worker's set, its fields
\* merge into the published board.
LanePacket(l, s) ==
    /\ lane' = [lane EXCEPT ![l] = s]
    /\ running_lanes' = IF s = "running" THEN running_lanes \cup {l}
                                         ELSE running_lanes \ {l}
    /\ board' = [board EXCEPT ![l] = s]
    /\ RaceStateChanged(last_event_sent, lane')
    /\ UNCHANGED last_event_sent

\* The console announces a heat: a change resets the lanes and publishes them
\* dark, flags included.
EventPacket(h) ==
    /\ h # last_event_sent
    /\ last_event_sent' = h
    /\ lane' = DarkLanes
    /\ running_lanes' = {}
    /\ board' = DarkLanes
    /\ RaceStateChanged(h, DarkLanes)

\* A packet that says nothing of a lane or a heat, or an idle turn.
NoEffect ==
    UNCHANGED <<decoder, running_lanes, board, prev_finished,
                finish_timer_gen, last_results, timers>>

\* _handle_packet after the drain: feed, apply, compare the race state.
Feed ==
    /\ phase = "feed"
    /\ phase' = "drain"
    /\ \/ /\ finish_timer_gen < MaxGen
          /\ \/ \E l \in BoardLanes, s \in LaneState : LanePacket(l, s)
             \/ \E h \in ConsoleHeats : EventPacket(h)
       \/ NoEffect
    /\ UNCHANGED <<worker_cmds, screens>>

\* Mutants: a hand change that keeps the running set, or the generation.
ForgetRaceNotRunning ==
    /\ finish_timer_gen' = finish_timer_gen + 1
    /\ prev_finished' = FALSE
    /\ lane' = DarkLanes
    /\ UNCHANGED <<running_lanes, last_results, timers>>

ForgetRaceNoBump ==
    /\ prev_finished' = FALSE
    /\ running_lanes' = {}
    /\ lane' = DarkLanes
    /\ UNCHANGED <<finish_timer_gen, last_results, timers>>

\* Both hand changes forget the race state and void whatever is pending.
ForgetRace ==
    /\ finish_timer_gen' = finish_timer_gen + 1
    /\ prev_finished' = FALSE
    /\ running_lanes' = {}
    /\ lane' = DarkLanes
    /\ UNCHANGED <<last_results, timers>>

WorkerSetHeat(h) ==
    /\ last_event_sent' = h
    /\ board' = DarkLanes
    /\ ForgetRace

WorkerClearHeat ==
    /\ last_event_sent' = NoHeat
    /\ board' = DarkLanes
    /\ ForgetRace

GotoHeat(h) ==
    \/ h \in Listed /\ WorkerSetHeat(h)
    \/ h \notin Listed /\ NoEffect

StepHeat(by) ==
    \/ \E h \in StepTargets(last_event_sent, by) : WorkerSetHeat(h)
    \/ StepTargets(last_event_sent, by) = {} /\ NoEffect

\* The debounced wipe runs only on a board still waiting for it.
WipeAllowed(g) ==
    /\ finish_timer_gen = g
    /\ ~RaceFinished(lane)
    /\ running_lanes = {}

BoardReset(g) ==
    \/ /\ WipeAllowed(g)
       /\ lane' = DarkLanes
       /\ board' = DarkLanes
       /\ UNCHANGED <<last_event_sent, running_lanes,
                      prev_finished, finish_timer_gen, last_results, timers>>
    \/ ~WipeAllowed(g) /\ NoEffect

Execute(c) ==
    \/ c.op = "goto" /\ GotoHeat(c.heat)
    \/ c.op = "step" /\ StepHeat(c.by)
    \/ c.op = "clear" /\ WorkerClearHeat
    \/ c.op = "reset" /\ BoardReset(c.gen)

\* _drain_cmds: pop and run until the queue reads empty.
DrainOne ==
    /\ phase = "drain" /\ worker_cmds # <<>>
    /\ Execute(Head(worker_cmds))
    /\ worker_cmds' = Tail(worker_cmds)
    /\ UNCHANGED <<phase, screens>>

DrainDone ==
    /\ phase = "drain" /\ worker_cmds = <<>>
    /\ phase' = "feed"
    /\ NoEffect
    /\ UNCHANGED <<worker_cmds, screens>>

-----------------------------------------------------------------------------
(* The debounce threads, the operator, a Results page.                     *)

\* Mutants: the thread compares the generation before its edge's, or none.
FinishTimeoutOffByOne(t) ==
    /\ t.st = "asleep"
    /\ \A u \in finish_tasks : u.st = "asleep"
    /\ finish_tasks' =
          (finish_tasks \ {t}) \cup
          (IF finish_timer_gen = t.gen + 1
           THEN {[t EXCEPT !.st = "passed"]} ELSE {})
    /\ UNCHANGED <<phase, decoder, running_lanes, board, prev_finished,
                   finish_timer_gen, last_results, reset_tasks, worker_cmds,
                   screens>>

FinishTimeoutUnchecked(t) ==
    /\ t.st = "asleep"
    /\ \A u \in finish_tasks : u.st = "asleep"
    /\ finish_tasks' = (finish_tasks \ {t}) \cup {[t EXCEPT !.st = "passed"]}
    /\ UNCHANGED <<phase, decoder, running_lanes, board, prev_finished,
                   finish_timer_gen, last_results, reset_tasks, worker_cmds,
                   screens>>

FinishTimeout(t) ==
    /\ t.st = "asleep"
    \* Timing: a thread past its check publishes in well under the shortest
    \* debounce window (0.5 s), so no second one passes meanwhile.
    /\ \A u \in finish_tasks : u.st = "asleep"
    /\ finish_tasks' =
          (finish_tasks \ {t}) \cup
          (IF finish_timer_gen = t.gen THEN {[t EXCEPT !.st = "passed"]} ELSE {})
    /\ UNCHANGED <<phase, decoder, running_lanes, board, prev_finished,
                   finish_timer_gen, last_results, reset_tasks, worker_cmds,
                   screens>>

FinishPublish(t) ==
    /\ t.st = "passed"
    /\ finish_tasks' = finish_tasks \ {t}
    /\ published' = t.snap
    /\ results_page' = t.snap
    \* _remember_console_times: a numbered event and heat with timed lanes.
    /\ console_times' =
          IF t.snap.heat \in RealHeats /\ t.snap.lanes # {}
          THEN [console_times EXCEPT ![t.snap.heat] = t.snap.id]
          ELSE console_times
    /\ UNCHANGED <<phase, decoder, running_lanes, board, prev_finished,
                   finish_timer_gen, last_results, reset_tasks, worker_cmds>>

ResetTimeout(g) ==
    /\ reset_tasks' = reset_tasks \ {g}
    /\ worker_cmds' = Append(worker_cmds, [op |-> "reset", gen |-> g])
    /\ UNCHANGED <<phase, decoder, running_lanes, board, prev_finished,
                   finish_timer_gen, last_results, finish_tasks, screens>>

\* A command from /operator or /manual, which any display may send.
OperatorCommands ==
    [op : {"goto"}, heat : AnyHeat] \cup
    [op : {"step"}, by : {"next", "prev"}] \cup
    [op : {"clear"}]

Operator ==
    /\ Len(worker_cmds) < MaxCmds /\ finish_timer_gen < MaxGen
    /\ \E c \in OperatorCommands : worker_cmds' = Append(worker_cmds, c)
    /\ UNCHANGED <<phase, decoder, running_lanes, board, prev_finished,
                   finish_timer_gen, last_results, timers, screens>>

\* ws_results: a page that joins is sent the last snapshot, if there is one.
JoinResults ==
    /\ last_results # NoResults
    /\ results_page' = last_results
    /\ UNCHANGED <<phase, decoder, running_lanes, board, prev_finished,
                   finish_timer_gen, last_results, timers, worker_cmds,
                   console_times, published>>

Worker == Feed \/ DrainOne \/ DrainDone
Debounce ==
    \/ \E t \in finish_tasks : FinishTimeout(t) \/ FinishPublish(t)
    \/ \E g \in reset_tasks : ResetTimeout(g)

Next == Worker \/ Debounce \/ Operator \/ JoinResults

Spec == Init /\ [][Next]_vars

\* The worker loop turns, and a sleeping thread wakes.
Fairness ==
    /\ WF_vars(Worker)
    /\ WF_vars(\E t \in finish_tasks : FinishTimeout(t) \/ FinishPublish(t))
    /\ WF_vars(\E g \in reset_tasks : ResetTimeout(g))

FairSpec == Spec /\ Fairness

-----------------------------------------------------------------------------
(* Properties.                                                             *)

\* Every variable keeps its type.
TypeOK ==
    /\ phase \in {"drain", "feed"}
    /\ last_event_sent \in AnyHeat
    /\ lane \in [BoardLanes -> LaneState]
    /\ running_lanes \in SUBSET BoardLanes
    /\ board \in [BoardLanes -> LaneState]
    /\ prev_finished \in BOOLEAN
    /\ finish_timer_gen \in Nat
    /\ last_results \in Snapshots
    /\ finish_tasks \in SUBSET FinishTasks
    /\ reset_tasks \in SUBSET Nat
    /\ worker_cmds \in Seq(Commands)
    /\ console_times \in [RealHeats -> Nat]
    /\ published \in Snapshots
    /\ results_page \in Snapshots

\* The worker's three records of the race never drift from the decoder they
\* were derived from, whatever mix of packets, hand changes and debounced wipes
\* ran: the running set (worker.py:664), the remembered race state
\* (worker.py:478) and the lanes a joining display is replayed (worker.py:373).
RaceStateAgrees ==
    /\ running_lanes = {l \in BoardLanes : lane[l] = "running"}
    /\ prev_finished = RaceFinished(lane)
    /\ board = lane

\* A sleeping finish task that would still fire speaks for the race on the
\* board: the console has it finished, under the heat the task captured, and no
\* edge or hand change came since (worker.py:441, the gen token).
PendingFinishIsCurrent ==
    \A t \in finish_tasks :
        t.st = "asleep" /\ t.gen = finish_timer_gen =>
            /\ prev_finished
            /\ t.snap = last_results
            /\ t.snap.heat = last_event_sent

\* The wipes asked for and not yet decided: sleeping, or in the queue.
QueuedResets(q) ==
    {q[i].gen : i \in {i \in DOMAIN q : q[i].op = "reset"}}
PendingResets == reset_tasks \cup QueuedResets(worker_cmds)

\* A wipe that still holds the current generation never waits beside a result
\* that would still be published: one edge cancels the other's task, so no race
\* is both confirmed and blanked (worker.py:463-474).
WipeExcludesConfirm ==
    \A t \in finish_tasks :
        t.gen = finish_timer_gen => t.gen \notin PendingResets

\* Of the threads asleep over a race at most one kind can still decide it, and
\* a result it would publish is the race on the board.
TimersSpeakForBoard == PendingFinishIsCurrent /\ WipeExcludesConfirm

\* What makes the four above inductive: generations are spent in order, each
\* on one finish or one un-finish, and at most one thread is past its check.
TimersOrdered ==
    /\ last_results.id <= finish_timer_gen
    /\ published.id <= finish_timer_gen
    /\ \A h \in RealHeats : console_times[h] <= published.id
    /\ \A g \in PendingResets : g <= finish_timer_gen
    /\ \A t \in finish_tasks :
          /\ t.gen <= finish_timer_gen
          /\ t.snap.id = t.gen
          /\ t.snap.heat # TestRace
          /\ t.gen \notin PendingResets
          /\ t.st = "passed" => published.id <= t.gen
    /\ \A t, u \in finish_tasks :
          t.st = "passed" /\ u.st = "passed" => t = u

\* Results reach the screens and the Schedule in the order the races finished:
\* a task that slept through a re-finish never overwrites the newer result.
PublishedInOrder ==
    [][/\ published'.id >= published.id
       /\ \A h \in RealHeats : console_times'[h] >= console_times[h]
      ]_<<published, console_times>>

\* The test race is never published, replayed or kept (worker.py:438-439).
TestRaceNotPublished ==
    /\ last_results.heat # TestRace
    /\ published.heat # TestRace

\* A finish that no later edge or hand change contradicts is published, and
\* every debounced wipe is handed to the worker and decided there.
EdgesDecided ==
    \A g \in 1..(MaxGen + MaxCmds) :
        /\ (\E t \in finish_tasks : t.gen = g)
               ~> (published.id = g \/ finish_timer_gen # g)
        /\ (g \in reset_tasks) ~> (g \notin PendingResets)

\* What the tests say of the debounce: it "holds the results back on every
\* screen at once" (tests/test_settings_autosave.py:172), so no page shows a
\* result newer than the last one confirmed.
ResultsHeldBack == results_page.id <= published.id
=============================================================================
