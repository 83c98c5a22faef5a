----------------------------- MODULE TestSession -----------------------------
(***************************************************************************)
(* A recording replayed on the real boards (server/routes/debug.py,        *)
(* worker.end_test_session).  Playing one stops the relay, may lend a      *)
(* decoder, swaps in the recording's start lists and sets aside what it    *)
(* replaces; a stop, or the recording's own end, puts everything back.     *)
(*                                                                         *)
(* The steps of a request thread, of the worker and of a debounce thread   *)
(* interleave.  How one worker hands over to the next is the subject of    *)
(* WorkerLifecycle: here a superseded worker feeds nothing more.           *)
(*                                                                         *)
(* Allowed names what the routes do not prevent and a run may include.     *)
(***************************************************************************)
EXTENDS Naturals, FiniteSets

CONSTANTS
    Recordings,    \* what the Test tab lists
    Foreign,       \* those the configured console's decoder cannot read
    WithMeet,      \* those with a companion start list that can be read
    ConsoleHeats,  \* heats the console announces
    ReplayHeats,   \* heats a recording announces
    NoHeat,        \* (0, 0)
    None,
    Allowed,       \* see Cases
    MaxPlays       \* bound: presses of Play

Cases ==
    {"SecondPlay",      \* Play while a session is on: the API takes it
     "SlowParse",       \* start lists parsed in more than a restart's 0.3 s
     "PendingFinish",   \* a race finishes, or waits out its debounce, while a
                        \* session begins or ends
     "UploadWhileEnding", \* the replay ends while start lists are uploaded
     "FeedWhileEnding", \* the replay goes on while Stop restores
     "StopTwice",       \* Stop when no session is on, as after a natural end
     "DeletePlaying"}   \* the recording deleted while it plays

ASSUME SessionAssumption ==
    /\ Foreign \subseteq Recordings /\ WithMeet \subseteq Recordings
    /\ None \notin Recordings \cup {"none", "real", "replay", "console", "lent"}
    /\ Allowed \subseteq Cases
    /\ MaxPlays \in Nat

ASSUME HeatAssumption ==
    /\ ConsoleHeats \cap ReplayHeats = {}
    /\ NoHeat \notin ConsoleHeats \cup ReplayHeats
    /\ None \notin ConsoleHeats \cup ReplayHeats \cup {NoHeat}

VARIABLES
    recordings,          \* the Test tab's list
    test_session,        \* state._test_session
    test_local_only,     \* state._test_local_only
    test_meet_active,    \* state._test_meet_active
    saved_results,       \* state._test_saved_results
    saved_heat,          \* state._test_saved_heat
    saved_decoder,       \* state._test_saved_decoder
    relay_was_running,   \* state._test_relay_was_running
    decoder,             \* state._decoder: the console's, or one lent
    last_event_sent,     \* the current heat of each decoder
    meet,                \* state.meet: the operator's, or the recording's
    results,             \* state._last_results_snapshot: whose it is
    pending,             \* the finish still to be confirmed: whose it is
    relay,               \* the relay thread runs
    linked,              \* ... and is connected
    worker,              \* what the worker reads
    restart,             \* _restart_worker: what for, and how far
    play, playing,       \* the Play request, and what it plays
    ending,              \* end_test_session, by Stop's thread and the worker
    console_heat,        \* history: the console's last word
    real_results,        \* history: the console's last results
    cloud_on,            \* history: the relay as the operator left it
    kept, relayed,       \* history: whose results were saved, reached the cloud
    plays                \* counter MaxPlays caps

saved == <<saved_results, saved_heat, saved_decoder, relay_was_running>>
flags == <<test_local_only, test_meet_active>>
board == <<decoder, last_event_sent, meet>>
finish == <<results, pending>>
cloud == <<relay, linked>>
requests == <<recordings, restart, play, playing, plays>>
history == <<console_heat, real_results, cloud_on, kept, relayed>>
vars == <<test_session, flags, saved, board, finish, cloud, worker, requests,
          ending, history>>

-----------------------------------------------------------------------------
HeatsSaid == ConsoleHeats \cup ReplayHeats \cup {NoHeat}
Decoders == {"console", "lent"}
Results == {"none", "real", "replay"}
Enders == {"stop", "worker"}

Init ==
    /\ recordings = Recordings
    /\ test_session = None
    /\ test_local_only = FALSE /\ test_meet_active = FALSE
    /\ saved_results = None /\ saved_heat = None /\ saved_decoder = None
    /\ relay_was_running = FALSE
    /\ decoder = "console"
    /\ last_event_sent = [d \in Decoders |-> NoHeat]
    /\ meet = "real"
    /\ results = "none" /\ pending = "none"
    /\ relay = TRUE /\ linked = FALSE
    /\ worker = "none"
    /\ restart = [st |-> "idle", target |-> None]
    /\ play = "idle" /\ playing = None
    /\ ending = [e \in Enders |-> "idle"]
    /\ console_heat = NoHeat /\ real_results = "none" /\ cloud_on = TRUE
    /\ kept = {} /\ relayed = {}
    /\ plays = 0

\* relay._local_only: any of the three flags keeps the cloud out.
LocalOnly == test_local_only \/ test_session # None \/ test_meet_active

Idle ==
    /\ play = "idle" /\ restart.st = "idle"
    /\ \A e \in Enders : ending[e] = "idle"

\* Stop has been pressed and the replay's worker is not yet superseded.
StopUnderway ==
    \/ ending["stop"] # "idle"
    \/ restart.st = "asked" /\ restart.target = None

Settled == pending = "none" \/ "PendingFinish" \in Allowed

-----------------------------------------------------------------------------
(* _test_play.                                                             *)

\* _begin_local_only: a second Play keeps what the first one saved.
BeginLocalOnly(r) ==
    /\ Idle /\ plays < MaxPlays /\ Settled
    /\ test_session = None \/ "SecondPlay" \in Allowed
    /\ test_local_only' = TRUE
    /\ \/ /\ saved_results = None
          /\ saved_results' = results /\ relay_was_running' = relay
          /\ relay' = FALSE /\ linked' = FALSE
       \/ /\ saved_results # None
          /\ UNCHANGED <<saved_results, relay_was_running, cloud>>
    /\ play' = "lend" /\ playing' = r /\ plays' = plays + 1
    /\ UNCHANGED <<test_session, test_meet_active, saved_heat, saved_decoder,
                   board, finish, worker, recordings, restart, ending, history>>

\* use_replay_decoder, and the restart handed to a thread of its own.
UseReplayDecoder ==
    /\ play = "lend"
    /\ \/ /\ playing \in Foreign
          /\ saved_decoder' = decoder
          /\ decoder' = "lent"
          /\ last_event_sent' = [last_event_sent EXCEPT !["lent"] = NoHeat]
       \/ playing \notin Foreign /\ UNCHANGED <<saved_decoder, decoder, last_event_sent>>
    /\ restart' = [st |-> "asked", target |-> playing]
    /\ play' = IF playing \in WithMeet THEN "load" ELSE "idle"
    /\ UNCHANGED <<test_session, flags, saved_results, saved_heat,
                   relay_was_running, meet, finish, cloud, worker, recordings,
                   playing, plays, ending, history>>

\* set_lenex(companion), then the flag.
LoadCompanion ==
    /\ play = "load"
    /\ meet' = "test"
    /\ play' = "activate"
    /\ UNCHANGED <<test_session, flags, saved, decoder, last_event_sent, finish,
                   cloud, worker, recordings, restart, playing, plays, ending, history>>

ActivateTestMeet ==
    /\ play = "activate"
    /\ test_meet_active' = TRUE
    /\ play' = "forget"
    /\ UNCHANGED <<test_session, test_local_only, saved, board, finish, cloud,
                   worker, recordings, restart, playing, plays, ending, history>>

ForgetCurrentHeat ==
    /\ play = "forget"
    \* Timing: the restart's thread has bumped the generation by then.
    /\ restart.st # "asked"
    /\ saved_heat' = last_event_sent[decoder]
    /\ last_event_sent' = [last_event_sent EXCEPT ![decoder] = NoHeat]
    /\ play' = "idle"
    /\ UNCHANGED <<test_session, flags, saved_results, saved_decoder,
                   relay_was_running, decoder, meet, finish, cloud, worker,
                   recordings, restart, playing, plays, ending, history>>

\* _test_meet_upload: start lists for a recording without, then the flag.
UploadMeet ==
    /\ Idle /\ test_session # None /\ ~test_meet_active
    /\ meet' = "test"
    /\ play' = "uploaded"
    /\ UNCHANGED <<test_session, flags, saved, decoder, last_event_sent, finish,
                   cloud, worker, recordings, restart, playing, plays, ending, history>>

ActivateUpload ==
    /\ play = "uploaded"
    /\ test_meet_active' = TRUE
    /\ play' = "idle"
    /\ UNCHANGED <<test_session, test_local_only, saved, board, finish, cloud,
                   worker, recordings, restart, playing, plays, ending, history>>

-----------------------------------------------------------------------------
(* _restart_worker.                                                        *)

RestartBump ==
    /\ restart.st = "asked"
    /\ test_session' = restart.target
    /\ worker' = "none"
    /\ restart' = [restart EXCEPT !.st = "asleep"]
    /\ UNCHANGED <<flags, saved, board, finish, cloud, recordings, play, playing, plays,
                   ending, history>>

RestartSpawn ==
    /\ restart.st = "asleep"
    \* Timing: Play has loaded the companion by the end of the 0.3 s.
    /\ play = "idle" \/ "SlowParse" \in Allowed
    /\ worker' = IF test_session = None THEN "live" ELSE "replay"
    /\ restart' = [st |-> "idle", target |-> None]
    /\ UNCHANGED <<test_session, flags, saved, board, finish, cloud, recordings, play,
                   playing, plays, ending, history>>

\* A page connects and finds no worker.
SocketSpawn ==
    /\ worker = "none" /\ test_session = None
    /\ Idle
    /\ worker' = "live"
    /\ UNCHANGED <<test_session, flags, saved, board, finish, cloud, requests,
                   ending, history>>

-----------------------------------------------------------------------------
(* The worker.                                                             *)

\* The console announces a heat, or its race finishes.
FeedConsole ==
    /\ worker = "live" /\ decoder = "console"
    /\ \/ /\ \E h \in ConsoleHeats :
                /\ last_event_sent' = [last_event_sent EXCEPT !["console"] = h]
                /\ console_heat' = h
          /\ UNCHANGED <<finish, real_results>>
       \/ /\ last_event_sent["console"] # NoHeat
          /\ ~test_local_only \/ "PendingFinish" \in Allowed
          /\ results' = "real" /\ pending' = "real" /\ real_results' = "real"
          /\ UNCHANGED <<last_event_sent, console_heat>>
    /\ UNCHANGED <<test_session, flags, saved, decoder, meet, cloud, worker,
                   requests, ending, cloud_on, kept, relayed>>

\* The recording does, to whatever decoder is in place; one that cannot read
\* it decodes nothing.
FeedReplay ==
    /\ worker = "replay"
    /\ ~StopUnderway \/ "FeedWhileEnding" \in Allowed
    /\ playing \notin Foreign \/ decoder = "lent"
    /\ \/ /\ \E h \in ReplayHeats :
                last_event_sent' = [last_event_sent EXCEPT ![decoder] = h]
          /\ UNCHANGED finish
       \/ /\ last_event_sent[decoder] # NoHeat
          /\ results' = "replay" /\ pending' = "replay"
          /\ UNCHANGED last_event_sent
    /\ UNCHANGED <<test_session, flags, saved, decoder, meet, cloud, worker,
                   requests, ending, history>>

\* Mutant: the confirmed times go to disk whoever's they are.
FinishTaskKeepsAll ==
    /\ pending # "none"
    /\ kept' = kept \cup {pending}
    /\ relayed' = IF LocalOnly \/ ~linked THEN relayed ELSE relayed \cup {pending}
    /\ pending' = "none"
    /\ UNCHANGED <<test_session, flags, saved, board, results, cloud, worker,
                   requests, ending, console_heat, real_results, cloud_on>>

\* A debounce thread confirms a finish: record_console_heat, relay_emit.
FinishTask ==
    /\ pending # "none"
    /\ kept' = IF test_session # None \/ test_meet_active
               THEN kept ELSE kept \cup {pending}
    /\ relayed' = IF LocalOnly \/ ~linked THEN relayed ELSE relayed \cup {pending}
    /\ pending' = "none"
    /\ UNCHANGED <<test_session, flags, saved, board, results, cloud, worker,
                   requests, ending, console_heat, real_results, cloud_on>>

-----------------------------------------------------------------------------
(* The two endings.                                                        *)

\* The recording runs out: _run_test_session.
NaturalEnd ==
    /\ worker = "replay" /\ Settled /\ restart.st = "idle"
    /\ \/ play = "idle"
       \/ play = "uploaded" /\ "UploadWhileEnding" \in Allowed
    /\ ~StopUnderway \/ "FeedWhileEnding" \in Allowed
    /\ test_session' = None
    /\ worker' = "none"
    /\ ending' = [ending EXCEPT !["worker"] = "restore"]
    /\ UNCHANGED <<flags, saved, board, finish, cloud, requests, history>>

TestStop ==
    /\ Idle /\ Settled
    /\ test_session # None \/ "StopTwice" \in Allowed
    /\ ending' = [ending EXCEPT !["stop"] = "restore"]
    /\ UNCHANGED <<test_session, flags, saved, board, finish, cloud, worker,
                   requests, history>>

\* restore_current_heat: the console's decoder, or its heat.
RestoreCurrentHeat(e) ==
    /\ ending[e] = "restore"
    /\ \/ /\ saved_decoder # None
          /\ decoder' = saved_decoder /\ UNCHANGED last_event_sent
       \/ /\ saved_decoder = None
          /\ last_event_sent' = [last_event_sent EXCEPT ![decoder] =
                IF saved_heat = None THEN NoHeat ELSE saved_heat]
          /\ UNCHANGED decoder
    /\ saved_decoder' = None /\ saved_heat' = None
    /\ ending' = [ending EXCEPT ![e] = "cleanup"]
    /\ UNCHANGED <<test_session, flags, saved_results, relay_was_running, meet,
                   finish, cloud, worker, requests, history>>

\* _cleanup_test_meet: nothing to do unless a test meet is loaded.
CleanupTestMeet(e) ==
    /\ ending[e] = "cleanup"
    /\ meet' = IF test_meet_active THEN "real" ELSE meet
    /\ test_meet_active' = FALSE
    /\ ending' = [ending EXCEPT ![e] = "release"]
    /\ UNCHANGED <<test_session, test_local_only, saved, decoder,
                   last_event_sent, finish, cloud, worker, requests, history>>

\* What both endings do last; Stop then restarts the worker.
AfterRelease(e) ==
    /\ ending' = [ending EXCEPT ![e] = "idle"]
    /\ restart' = IF e = "stop" THEN [st |-> "asked", target |-> None] ELSE restart
    /\ UNCHANGED <<test_session, test_meet_active, saved_heat, saved_decoder,
                   board, pending, linked, worker, recordings,
                   play, playing, plays, history>>

\* Mutants: the relay stays off; it comes back with the replay's results.
ReleaseNoRelay(e) ==
    /\ ending[e] = "release"
    /\ test_local_only' = FALSE
    /\ results' = IF saved_results = None THEN results ELSE saved_results
    /\ saved_results' = None
    /\ UNCHANGED <<relay_was_running, relay>>
    /\ AfterRelease(e)

\* The cloud's half of end_test_session.
ReleaseCloud(e) ==
    /\ ending[e] = "release"
    /\ test_local_only' = FALSE
    /\ \/ /\ test_local_only
          /\ results' = IF saved_results = None THEN results ELSE saved_results
          /\ saved_results' = None
          /\ relay_was_running' = FALSE
          /\ relay' = (relay \/ relay_was_running)
       \/ ~test_local_only /\ UNCHANGED <<results, saved_results, relay_was_running, relay>>
    /\ AfterRelease(e)

\* route_test_session_delete: a restart if it plays, and no end_test_session.
DeleteRecording(r) ==
    /\ Idle
    /\ test_session # r \/ "DeletePlaying" \in Allowed
    /\ recordings' = recordings \ {r}
    /\ restart' = IF test_session = r THEN [st |-> "asked", target |-> None]
                  ELSE restart
    /\ UNCHANGED <<test_session, flags, saved, board, finish, cloud, worker,
                   play, playing, plays, ending, history>>

-----------------------------------------------------------------------------
(* The cloud.                                                              *)

\* The relay thread connects and replays the last results.
RelayConnect ==
    /\ relay /\ ~linked /\ ~LocalOnly
    /\ linked' = TRUE
    /\ relayed' = relayed \cup {results}
    /\ UNCHANGED <<test_session, flags, saved, board, finish, relay, worker,
                   requests, ending, console_heat, real_results, cloud_on, kept>>

\* /cloud_toggle, while no session is on.
CloudToggle ==
    /\ Idle /\ ~test_local_only
    /\ relay' = ~relay /\ cloud_on' = ~relay /\ linked' = FALSE
    /\ UNCHANGED <<test_session, flags, saved, board, finish, worker, requests,
                   ending, console_heat, real_results, kept, relayed>>

Play ==
    \/ \E r \in recordings : BeginLocalOnly(r)
    \/ UseReplayDecoder \/ LoadCompanion \/ ActivateTestMeet \/ ForgetCurrentHeat
    \/ UploadMeet \/ ActivateUpload

End(e) == RestoreCurrentHeat(e) \/ CleanupTestMeet(e) \/ ReleaseCloud(e)

Next ==
    \/ Play \/ TestStop \/ NaturalEnd
    \/ \E r \in recordings : DeleteRecording(r)
    \/ \E e \in Enders : End(e)
    \/ RestartBump \/ RestartSpawn \/ SocketSpawn
    \/ FeedConsole \/ FeedReplay \/ FinishTask
    \/ RelayConnect \/ CloudToggle

Spec == Init /\ [][Next]_vars

\* A request thread, a restart and a relay that can go on do; nobody has to
\* press a button, and the console has nothing to say.
FairSpec ==
    /\ Spec
    /\ WF_vars(UseReplayDecoder \/ LoadCompanion \/ ActivateTestMeet
                  \/ ForgetCurrentHeat \/ ActivateUpload)
    /\ \A e \in Enders : WF_vars(End(e))
    /\ WF_vars(RestartBump) /\ WF_vars(RestartSpawn)
    /\ WF_vars(RelayConnect)

-----------------------------------------------------------------------------
(* Properties.                                                             *)

\* Every variable keeps its type.
TypeOK ==
    /\ recordings \subseteq Recordings
    /\ test_session \in Recordings \cup {None}
    /\ test_local_only \in BOOLEAN /\ test_meet_active \in BOOLEAN
    /\ saved_results \in Results \cup {None}
    /\ saved_heat \in HeatsSaid \cup {None}
    /\ saved_decoder \in Decoders \cup {None}
    /\ relay_was_running \in BOOLEAN
    /\ decoder \in Decoders
    /\ last_event_sent \in [Decoders -> HeatsSaid]
    /\ meet \in {"real", "test"}
    /\ results \in Results /\ pending \in Results
    /\ relay \in BOOLEAN /\ linked \in BOOLEAN
    /\ worker \in {"none", "live", "replay"}
    /\ restart \in [st : {"idle", "asked", "asleep"}, target : Recordings \cup {None}]
    /\ play \in {"idle", "lend", "load", "activate", "forget", "uploaded"}
    /\ playing \in Recordings \cup {None}
    /\ ending \in [Enders -> {"idle", "restore", "cleanup", "release"}]
    /\ console_heat \in ConsoleHeats \cup {NoHeat}
    /\ real_results \in {"none", "real"} /\ cloud_on \in BOOLEAN
    /\ kept \subseteq Results /\ relayed \subseteq Results

\* No session is on and nothing is under way.
Over == Idle /\ test_session = None

\* Ending a session "puts back whatever it was before" (docs/admin.md:183): the
\* console's decoder, on the heat the console last announced, the meet, the
\* cloud link if it was up, and the results from before the test.
SessionUndone ==
    Over => /\ decoder = "console" /\ saved_decoder = None
            /\ last_event_sent["console"] = console_heat
            /\ meet = "real" /\ ~test_meet_active
            /\ ~test_local_only /\ relay = cloud_on
            /\ results = real_results

\* A replay's times are kept in memory only (record_console_heat) and reach the
\* pool's own network, and nothing else (_local_only).
ReplayStaysLocal == "replay" \notin kept \cup relayed

\* The link the operator left on comes back after Stop, unless another
\* recording is played or the link is switched off.
CloudReturns ==
    ending["stop"] # "idle" ~> linked \/ ~cloud_on \/ play # "idle"
=============================================================================
