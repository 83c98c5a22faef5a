-------------------------- MODULE WorkerLifecycle --------------------------
(***************************************************************************)
(* Who owns the decoder (server/worker.py, state.py, app.py).              *)
(*                                                                         *)
(* A worker thread copies `_worker_gen` when it starts and works turn by   *)
(* turn while the two are equal.  `_restart_worker` bumps it, sleeps 0.3 s *)
(* and starts another thread; a WebSocket that connects while              *)
(* `main_thread` is None starts one too.  A recording that plays to its    *)
(* end ends its own test session and leaves no worker.                     *)
(*                                                                         *)
(* Timing: a thread runs from one check of the generation to the next, and *)
(* `+= 1` from its read to its write, in less than the 0.3 s a restart     *)
(* sleeps; Wake says so.                                                   *)
(***************************************************************************)
EXTENDS Naturals, FiniteSets

CONSTANTS
    Threads,    \* worker threads a run may start
    Restarts,   \* calls of _restart_worker: Test tab, settings, manual stop
    Sockets,    \* WebSockets that connect to /ws/scoreboard or /ws/settings
    Sessions,   \* recordings
    None,       \* no thread, no session
    Overlap     \* may one start begin while another is under way?

Callers == Restarts \cup Sockets

ASSUME CallersAssumption ==
    /\ Restarts \cap Sockets = {}
    /\ None \notin Threads /\ None \notin Sessions
    /\ Overlap \in BOOLEAN

VARIABLES
    worker_gen,    \* state._worker_gen
    main_thread,   \* state.main_thread
    test_session,  \* state._test_session
    thread,        \* each worker thread's progress
    my_gen,        \* the generation each captured
    playing,       \* the recording each plays, None for the console
    caller,        \* each restart's or socket's progress
    read_gen,      \* the value a restart's `+= 1` read
    spawned        \* the thread a caller started

vars == <<worker_gen, main_thread, test_session, thread, my_gen, playing,
          caller, read_gen, spawned>>

-----------------------------------------------------------------------------
ThreadStates ==
    {"unborn",
     "starting",  \* dropping the queue a prior session left
     "waiting",   \* before a check: idle, asleep in a gap, retrying its port
     "turn",      \* past the check: draining commands and feeding the decoder
     "played",    \* the recording is over
     "ending",    \* ... checked: it will end the test session
     "leaving",   \* in the finally clause
     "closing",   \* ... checked: it will clear main_thread
     "dead"}

CallerStates == {"new", "bumping", "asleep", "spawning", "assigning", "done"}

Init ==
    /\ worker_gen = 0
    /\ main_thread = None
    /\ test_session = None
    /\ thread = [w \in Threads |-> "unborn"]
    /\ my_gen = [w \in Threads |-> 0]
    /\ playing = [w \in Threads |-> None]
    /\ caller = [c \in Callers |-> "new"]
    /\ read_gen = [c \in Callers |-> 0]
    /\ spawned = [c \in Callers |-> None]

Set(f, x, v) == [f EXCEPT ![x] = v]

\* A thread acting on a check that may have been overtaken since.
Committed == {"turn", "ending", "closing"}

Current(w) ==
    /\ my_gen[w] = worker_gen
    /\ thread[w] \in {"waiting", "turn", "played", "ending"}

\* A start is under way until its thread has captured its generation.
StartUnderway ==
    \/ \E c \in Callers : caller[c] \notin {"new", "done"}
    \/ \E w \in Threads : thread[w] = "starting"

MayBegin == Overlap \/ ~StartUnderway

-----------------------------------------------------------------------------
(* _restart_worker, and a socket that finds no worker.                     *)

\* A call asks for a recording, or for the console.
RestartBegin(r, s) ==
    /\ caller[r] = "new" /\ MayBegin
    /\ test_session' = s
    /\ read_gen' = Set(read_gen, r, worker_gen)
    /\ caller' = Set(caller, r, "bumping")
    /\ UNCHANGED <<worker_gen, main_thread, thread, my_gen, playing, spawned>>

\* Mutant: the token is written back unchanged.
BumpNone(r) ==
    /\ caller[r] = "bumping"
    /\ worker_gen' = read_gen[r]
    /\ caller' = Set(caller, r, "asleep")
    /\ UNCHANGED <<main_thread, test_session, thread, my_gen, playing,
                   read_gen, spawned>>

Bump(r) ==
    /\ caller[r] = "bumping"
    /\ worker_gen' = read_gen[r] + 1
    /\ caller' = Set(caller, r, "asleep")
    /\ UNCHANGED <<main_thread, test_session, thread, my_gen, playing,
                   read_gen, spawned>>

\* Mutant: the restart spawns only where a socket would.
WakeIfNone(r) ==
    /\ caller[r] = "asleep"
    /\ \A w \in Threads : thread[w] \in Committed => my_gen[w] = worker_gen
    /\ \A q \in Restarts : caller[q] # "bumping"
    /\ caller' = Set(caller, r, IF main_thread = None THEN "spawning" ELSE "done")
    /\ UNCHANGED <<worker_gen, main_thread, test_session, thread, my_gen,
                   playing, read_gen, spawned>>

\* 0.3 s later: no superseded thread is still between two checks, and no bump
\* is half-way.
Wake(r) ==
    /\ caller[r] = "asleep"
    /\ \A w \in Threads : thread[w] \in Committed => my_gen[w] = worker_gen
    /\ \A q \in Restarts : caller[q] # "bumping"
    /\ caller' = Set(caller, r, "spawning")
    /\ UNCHANGED <<worker_gen, main_thread, test_session, thread, my_gen,
                   playing, read_gen, spawned>>

\* /ws/scoreboard asks only whether there is a worker; /ws/settings also asks
\* that no test session be on.
Connect(c) ==
    /\ caller[c] = "new" /\ MayBegin
    /\ \A d \in Sockets : caller[d] \notin {"spawning", "assigning"}
    /\ \/ main_thread = None /\ caller' = Set(caller, c, "spawning")
       \/ /\ main_thread # None \/ test_session # None
          /\ caller' = Set(caller, c, "done")
    /\ UNCHANGED <<worker_gen, main_thread, test_session, thread, my_gen,
                   playing, read_gen, spawned>>

\* run_bg starts the thread; its handle is assigned after it runs.
Spawn(c) ==
    /\ caller[c] = "spawning"
    /\ \E w \in Threads :
        /\ thread[w] = "unborn"
        /\ thread' = Set(thread, w, "starting")
        /\ spawned' = Set(spawned, c, w)
    /\ caller' = Set(caller, c, "assigning")
    /\ UNCHANGED <<worker_gen, main_thread, test_session, my_gen, playing,
                   read_gen>>

Assign(c) ==
    /\ caller[c] = "assigning"
    /\ main_thread' = spawned[c]
    /\ caller' = Set(caller, c, "done")
    /\ UNCHANGED <<worker_gen, test_session, thread, my_gen, playing,
                   read_gen, spawned>>

-----------------------------------------------------------------------------
(* main_thread_worker.                                                     *)

\* Capture the generation, then choose between a recording and the console.
Start(w) ==
    /\ thread[w] = "starting"
    /\ my_gen' = Set(my_gen, w, worker_gen)
    /\ playing' = Set(playing, w, test_session)
    /\ thread' = Set(thread, w, "waiting")
    /\ UNCHANGED <<worker_gen, main_thread, test_session, caller, read_gen,
                   spawned>>

\* `while state._worker_gen == my_gen`
Check(w) ==
    /\ thread[w] = "waiting"
    /\ thread' = Set(thread, w,
          IF my_gen[w] = worker_gen THEN "turn" ELSE "leaving")
    /\ UNCHANGED <<worker_gen, main_thread, test_session, my_gen, playing,
                   caller, read_gen, spawned>>

\* A packet handled, a port that failed, a recording at its end, one that cannot
\* be read, or an exception out of the packet's handling.
Turn(w) ==
    /\ thread[w] = "turn"
    /\ \/ thread' = Set(thread, w, "waiting")
       \/ playing[w] # None /\ thread' = Set(thread, w, "played")
       \/ thread' = Set(thread, w, "leaving")
    /\ UNCHANGED <<worker_gen, main_thread, test_session, my_gen, playing,
                   caller, read_gen, spawned>>

\* _run_test_session: superseded, the new worker owns cleanup.
Played(w) ==
    /\ thread[w] = "played"
    /\ thread' = Set(thread, w,
          IF my_gen[w] = worker_gen THEN "ending" ELSE "leaving")
    /\ UNCHANGED <<worker_gen, main_thread, test_session, my_gen, playing,
                   caller, read_gen, spawned>>

EndSession(w) ==
    /\ thread[w] = "ending"
    /\ test_session' = None
    /\ thread' = Set(thread, w, "leaving")
    /\ UNCHANGED <<worker_gen, main_thread, my_gen, playing, caller, read_gen,
                   spawned>>

\* The finally clause.
Leave(w) ==
    /\ thread[w] = "leaving"
    /\ thread' = Set(thread, w,
          IF my_gen[w] = worker_gen THEN "closing" ELSE "dead")
    /\ UNCHANGED <<worker_gen, main_thread, test_session, my_gen, playing,
                   caller, read_gen, spawned>>

Close(w) ==
    /\ thread[w] = "closing"
    /\ main_thread' = None
    /\ thread' = Set(thread, w, "dead")
    /\ UNCHANGED <<worker_gen, test_session, my_gen, playing, caller, read_gen,
                   spawned>>

-----------------------------------------------------------------------------
WorkerStep(w) ==
    \/ Start(w) \/ Check(w) \/ Turn(w) \/ Played(w) \/ EndSession(w)
    \/ Leave(w) \/ Close(w)

CallerStep(c) == (c \in Restarts /\ (Bump(c) \/ Wake(c))) \/ Spawn(c) \/ Assign(c)

Arrival ==
    \/ \E r \in Restarts, s \in Sessions \cup {None} : RestartBegin(r, s)
    \/ \E c \in Sockets : Connect(c)

Next ==
    \/ \E w \in Threads : WorkerStep(w)
    \/ \E c \in Callers : CallerStep(c)
    \/ Arrival

Spec == Init /\ [][Next]_vars

\* Every thread that can run does; nobody has to restart or connect.
FairSpec ==
    /\ Spec
    /\ \A w \in Threads : WF_vars(WorkerStep(w))
    /\ \A c \in Callers : WF_vars(CallerStep(c))

-----------------------------------------------------------------------------
(* Properties.                                                             *)

\* Every variable keeps its type.
TypeOK ==
    /\ worker_gen \in Nat
    /\ main_thread \in Threads \cup {None}
    /\ test_session \in Sessions \cup {None}
    /\ thread \in [Threads -> ThreadStates]
    /\ my_gen \in [Threads -> Nat]
    /\ playing \in [Threads -> Sessions \cup {None}]
    /\ caller \in [Callers -> CallerStates]
    /\ read_gen \in [Callers -> Nat]
    /\ spawned \in [Callers -> Threads \cup {None}]

\* No two threads touch the decoder at once (async-architecture.md:64).
OneOwner ==
    \A v, w \in Threads :
        thread[v] = "turn" /\ thread[w] = "turn" => v = w

\* A restart ends with a worker of the newest generation at work.
RestartServed ==
    \A r \in Restarts :
        (caller[r] = "asleep") ~> (\E w \in Threads : Current(w))

\* worker.py:223: a recording can finish on its own or be stopped, and "the
\* operator should not be able to tell which one they got": the console is read
\* again afterwards.
ConsoleReadAgain ==
    \A w \in Threads :
        (thread[w] = "ending")
            ~> (\E v \in Threads : Current(v) /\ playing[v] = None)

\* worker.py:812: "superseded -- the new worker owns cleanup": a superseded
\* replay never ends the session its successor was started for.
SupersededKeepsSession ==
    [][\A w \in Threads : EndSession(w) => my_gen[w] = worker_gen]_vars
=============================================================================
