--------------------------- MODULE PoolsideProofs ---------------------------
(***************************************************************************)
(* Proofs about TestSession, for any recordings, heats and number of plays: *)
(* a session leaves everything as it was, and a replay stays local.         *)
(*                                                                         *)
(* Proofs about Kiosk, for any pool, meet and number of events: a display   *)
(* that has caught up shows the board of the server, and colours no row in   *)
(* a place it does not have.                                                *)
(***************************************************************************)
EXTENDS TestSession, Kiosk, TLAPS

\* Sessions begin and end one at a time (README, "Cases").
Serial == Allowed = {}

\* Every recording lends a decoder or brings its start lists; for one that does
\* neither the console's heat is not set aside, and is blank after the session.
HeatsSetAside == Recordings \subseteq Foreign \cup WithMeet

-----------------------------------------------------------------------------
(* A test session: the inductive invariant.                                *)

\* The stages of a session.
Ended == \A e \in Enders : ending[e] = "idle"
Began == play = "lend"
Starting == restart.st # "idle" /\ restart.target # None
Playing == test_session # None /\ restart.st = "idle"
Loads == play \in {"load", "activate", "forget"}
\* The heat and the decoder are still to be put back.
SetAside ==
    \/ Starting
    \/ Playing /\ ending["stop"] \in {"idle", "restore"}
    \/ ending["worker"] = "restore"

Stages == {"idle", "restore", "cleanup", "release"}

StageInv ==
    /\ recordings \subseteq Recordings /\ test_session \in Recordings \cup {None}
    /\ test_local_only \in BOOLEAN
    /\ restart \in [st : {"idle", "asked", "asleep"}, target : Recordings \cup {None}]
    /\ play \in {"idle", "lend", "load", "activate", "forget", "uploaded"}
    /\ ending \in [Enders -> Stages]
    /\ test_local_only <=> Began \/ Starting \/ Playing \/ ~Ended
    /\ test_local_only => playing \in Recordings
    /\ play # "idle" \/ restart.st # "idle" => Ended
    /\ Began => test_session = None /\ restart.st = "idle"
    /\ Loads => Starting
    /\ play = "uploaded" => Playing
    /\ Starting => restart.target = playing
    /\ Starting /\ restart.st = "asked" => Loads \/ playing \notin WithMeet
    /\ restart.st = "asked" => restart.target = None \/ test_session = None
    /\ restart.st = "asleep" => test_session = restart.target
    /\ Playing => test_session = playing
    /\ ending["worker"] # "idle" => test_session = None /\ ending["stop"] = "idle"
    /\ ending["stop"] # "idle" => test_session # None

WorkerInv ==
    /\ worker = "live" =>
          /\ test_session = None /\ Ended
          /\ ~test_local_only \/ Began \/ restart.st = "asked"
    /\ worker = "replay" => test_session # None /\ restart.st # "asleep"
    /\ pending = "replay" => Playing /\ Ended

\* The results and the link are set aside, or as they were.
SavedInv ==
    /\ {relay, relay_was_running, cloud_on} \subseteq BOOLEAN
    /\ real_results \in {"none", "real"}
    /\ ~test_local_only => /\ saved_results = None /\ ~relay_was_running
                           /\ relay = cloud_on /\ results = real_results
    /\ test_local_only => /\ saved_results = real_results
                          /\ relay_was_running = cloud_on /\ ~relay

MeetInv ==
    /\ test_meet_active \in BOOLEAN /\ meet \in {"real", "test"}
    /\ meet = "test" => test_meet_active \/ play \in {"activate", "uploaded"}
    /\ test_meet_active => SetAside \/ \E e \in Enders : ending[e] = "cleanup"

DecoderInv ==
    /\ saved_decoder = None => decoder = "console"
    /\ saved_decoder # None => saved_decoder = "console" /\ decoder = "lent"
    /\ SetAside => (saved_decoder # None <=> playing \in Foreign)
    /\ ~SetAside => saved_decoder = None /\ saved_heat = None

\* The console's heat is on its decoder, or set aside.
HeatInv ==
    /\ last_event_sent = [d \in Decoders |-> last_event_sent[d]]
    /\ console_heat \in ConsoleHeats \cup {NoHeat}
    /\ IF SetAside /\ playing \notin Foreign /\ ~Loads
       THEN saved_heat = console_heat
       ELSE last_event_sent["console"] = console_heat

LocalInv == StageInv /\ WorkerInv /\ SavedInv /\ ReplayStaysLocal
IInv == LocalInv /\ MeetInv /\ DecoderInv /\ HeatInv

-----------------------------------------------------------------------------
(* The parts of the invariant, kept by each action.                        *)

USE DEF saved, flags, board, finish, cloud, requests, history, vars

\* Who is under way, and what the flags say of it.
LEMMA StageKept ==
    Serial /\ StageInv /\ WorkerInv /\ [Next]_vars => StageInv'
<1> SUFFICES ASSUME Serial, StageInv, WorkerInv, [Next]_vars PROVE StageInv'
    OBVIOUS
<1> USE SessionAssumption DEF Serial, StageInv, Stages, Enders, Ended, Began,
    Starting, Playing, Loads
<1>1. ASSUME NEW r \in recordings, BeginLocalOnly(r) PROVE StageInv'
    BY <1>1 DEF BeginLocalOnly, Idle
<1>2. CASE UseReplayDecoder
    BY <1>2 DEF UseReplayDecoder
<1>3. CASE LoadCompanion
    BY <1>3 DEF LoadCompanion
<1>4. CASE ActivateTestMeet
    BY <1>4 DEF ActivateTestMeet
<1>5. CASE ForgetCurrentHeat
    BY <1>5 DEF ForgetCurrentHeat
<1>6. CASE UploadMeet
    BY <1>6 DEF UploadMeet, Idle
<1>7. CASE ActivateUpload
    BY <1>7 DEF ActivateUpload
<1>8. CASE RestartBump
    BY <1>8 DEF RestartBump
<1>9. CASE RestartSpawn
    BY <1>9 DEF RestartSpawn
<1>10. CASE SocketSpawn
    BY <1>10 DEF SocketSpawn, Idle
<1>11. CASE FeedConsole
    BY <1>11 DEF FeedConsole
<1>12. CASE FeedReplay
    BY <1>12 DEF FeedReplay, StopUnderway
<1>13. CASE FinishTask
    BY <1>13 DEF FinishTask
<1>14. CASE NaturalEnd
    BY <1>14 DEF NaturalEnd, StopUnderway, Settled, WorkerInv
<1>15. CASE TestStop
    BY <1>15 DEF TestStop, Idle, Settled
<1>16. ASSUME NEW e \in Enders, RestoreCurrentHeat(e) PROVE StageInv'
    BY <1>16 DEF RestoreCurrentHeat
<1>17. ASSUME NEW e \in Enders, CleanupTestMeet(e) PROVE StageInv'
    BY <1>17 DEF CleanupTestMeet
<1>18. ASSUME NEW e \in Enders, ReleaseCloud(e) PROVE StageInv'
    BY <1>18 DEF ReleaseCloud, AfterRelease
<1>19. ASSUME NEW r \in recordings, DeleteRecording(r) PROVE StageInv'
    BY <1>19 DEF DeleteRecording, Idle
<1>20. CASE RelayConnect
    BY <1>20 DEF RelayConnect, LocalOnly
<1>21. CASE CloudToggle
    BY <1>21 DEF CloudToggle, Idle
<1>22. CASE UNCHANGED vars
    BY <1>22
<1> QED
    BY <1>1, <1>2, <1>3, <1>4, <1>5, <1>6, <1>7, <1>8, <1>9, <1>10, <1>11, <1>12,
       <1>13, <1>14, <1>15, <1>16, <1>17, <1>18, <1>19, <1>20, <1>21, <1>22 DEF Next, Play, End

\* A worker only feeds while its session, or none, is on.
LEMMA WorkerKept ==
    Serial /\ StageInv /\ WorkerInv /\ [Next]_vars => WorkerInv'
<1> SUFFICES ASSUME Serial, StageInv, WorkerInv, [Next]_vars PROVE WorkerInv'
    OBVIOUS
<1> USE SessionAssumption DEF Serial, StageInv, Stages, Enders, Ended, Began,
    Starting, Playing, Loads, WorkerInv
<1>1. ASSUME NEW r \in recordings, BeginLocalOnly(r) PROVE WorkerInv'
    BY <1>1 DEF BeginLocalOnly, Idle
<1>2. CASE UseReplayDecoder
    BY <1>2 DEF UseReplayDecoder
<1>3. CASE LoadCompanion
    BY <1>3 DEF LoadCompanion
<1>4. CASE ActivateTestMeet
    BY <1>4 DEF ActivateTestMeet
<1>5. CASE ForgetCurrentHeat
    BY <1>5 DEF ForgetCurrentHeat
<1>6. CASE UploadMeet
    BY <1>6 DEF UploadMeet, Idle
<1>7. CASE ActivateUpload
    BY <1>7 DEF ActivateUpload
<1>8. CASE RestartBump
    BY <1>8 DEF RestartBump
<1>9. CASE RestartSpawn
    BY <1>9 DEF RestartSpawn
<1>10. CASE SocketSpawn
    BY <1>10 DEF SocketSpawn, Idle
<1>11. CASE FeedConsole
    BY <1>11 DEF FeedConsole
<1>12. CASE FeedReplay
    BY <1>12 DEF FeedReplay, StopUnderway
<1>13. CASE FinishTask
    BY <1>13 DEF FinishTask
<1>14. CASE NaturalEnd
    BY <1>14 DEF NaturalEnd, StopUnderway, Settled
<1>15. CASE TestStop
    BY <1>15 DEF TestStop, Idle, Settled
<1>16. ASSUME NEW e \in Enders, RestoreCurrentHeat(e) PROVE WorkerInv'
    BY <1>16 DEF RestoreCurrentHeat
<1>17. ASSUME NEW e \in Enders, CleanupTestMeet(e) PROVE WorkerInv'
    BY <1>17 DEF CleanupTestMeet
<1>18. ASSUME NEW e \in Enders, ReleaseCloud(e) PROVE WorkerInv'
    BY <1>18 DEF ReleaseCloud, AfterRelease
<1>19. ASSUME NEW r \in recordings, DeleteRecording(r) PROVE WorkerInv'
    BY <1>19 DEF DeleteRecording, Idle
<1>20. CASE RelayConnect
    BY <1>20 DEF RelayConnect, LocalOnly
<1>21. CASE CloudToggle
    BY <1>21 DEF CloudToggle, Idle
<1>22. CASE UNCHANGED vars
    BY <1>22
<1> QED
    BY <1>1, <1>2, <1>3, <1>4, <1>5, <1>6, <1>7, <1>8, <1>9, <1>10, <1>11, <1>12,
       <1>13, <1>14, <1>15, <1>16, <1>17, <1>18, <1>19, <1>20, <1>21, <1>22 DEF Next, Play, End

\* The results and the link are kept, and given back.
LEMMA SavedKept ==
    Serial /\ StageInv /\ WorkerInv /\ SavedInv /\ [Next]_vars => SavedInv'
<1> SUFFICES ASSUME Serial, StageInv, WorkerInv, SavedInv, [Next]_vars PROVE SavedInv'
    OBVIOUS
<1> USE SessionAssumption DEF Serial, StageInv, Stages, Enders, Ended, Began,
    Starting, Playing, Loads, WorkerInv, SavedInv
<1>1. ASSUME NEW r \in recordings, BeginLocalOnly(r) PROVE SavedInv'
    BY <1>1 DEF BeginLocalOnly, Idle
<1>2. CASE UseReplayDecoder
    BY <1>2 DEF UseReplayDecoder
<1>3. CASE LoadCompanion
    BY <1>3 DEF LoadCompanion
<1>4. CASE ActivateTestMeet
    BY <1>4 DEF ActivateTestMeet
<1>5. CASE ForgetCurrentHeat
    BY <1>5 DEF ForgetCurrentHeat
<1>6. CASE UploadMeet
    BY <1>6 DEF UploadMeet, Idle
<1>7. CASE ActivateUpload
    BY <1>7 DEF ActivateUpload
<1>8. CASE RestartBump
    BY <1>8 DEF RestartBump
<1>9. CASE RestartSpawn
    BY <1>9 DEF RestartSpawn
<1>10. CASE SocketSpawn
    BY <1>10 DEF SocketSpawn, Idle
<1>11. CASE FeedConsole
    BY <1>11 DEF FeedConsole
<1>12. CASE FeedReplay
    BY <1>12 DEF FeedReplay, StopUnderway
<1>13. CASE FinishTask
    BY <1>13 DEF FinishTask
<1>14. CASE NaturalEnd
    BY <1>14 DEF NaturalEnd, StopUnderway, Settled
<1>15. CASE TestStop
    BY <1>15 DEF TestStop, Idle, Settled
<1>16. ASSUME NEW e \in Enders, RestoreCurrentHeat(e) PROVE SavedInv'
    BY <1>16 DEF RestoreCurrentHeat
<1>17. ASSUME NEW e \in Enders, CleanupTestMeet(e) PROVE SavedInv'
    BY <1>17 DEF CleanupTestMeet
<1>18. ASSUME NEW e \in Enders, ReleaseCloud(e) PROVE SavedInv'
    BY <1>18 DEF ReleaseCloud, AfterRelease
<1>19. ASSUME NEW r \in recordings, DeleteRecording(r) PROVE SavedInv'
    BY <1>19 DEF DeleteRecording, Idle
<1>20. CASE RelayConnect
    BY <1>20 DEF RelayConnect, LocalOnly
<1>21. CASE CloudToggle
    BY <1>21 DEF CloudToggle, Idle
<1>22. CASE UNCHANGED vars
    BY <1>22
<1> QED
    BY <1>1, <1>2, <1>3, <1>4, <1>5, <1>6, <1>7, <1>8, <1>9, <1>10, <1>11, <1>12,
       <1>13, <1>14, <1>15, <1>16, <1>17, <1>18, <1>19, <1>20, <1>21, <1>22 DEF Next, Play, End

\* Nothing of a replay is written or relayed.
LEMMA LocalKept ==
    Serial /\ StageInv /\ WorkerInv /\ SavedInv /\ ReplayStaysLocal /\ [Next]_vars =>
    ReplayStaysLocal'
<1> SUFFICES ASSUME Serial, StageInv, WorkerInv, SavedInv, ReplayStaysLocal,
             [Next]_vars PROVE ReplayStaysLocal'
    OBVIOUS
<1> USE SessionAssumption DEF Serial, StageInv, Stages, Enders, Ended, Began,
    Starting, Playing, Loads, WorkerInv, SavedInv, ReplayStaysLocal
<1>1. ASSUME NEW r \in recordings, BeginLocalOnly(r) PROVE ReplayStaysLocal'
    BY <1>1 DEF BeginLocalOnly, Idle
<1>2. CASE UseReplayDecoder
    BY <1>2 DEF UseReplayDecoder
<1>3. CASE LoadCompanion
    BY <1>3 DEF LoadCompanion
<1>4. CASE ActivateTestMeet
    BY <1>4 DEF ActivateTestMeet
<1>5. CASE ForgetCurrentHeat
    BY <1>5 DEF ForgetCurrentHeat
<1>6. CASE UploadMeet
    BY <1>6 DEF UploadMeet, Idle
<1>7. CASE ActivateUpload
    BY <1>7 DEF ActivateUpload
<1>8. CASE RestartBump
    BY <1>8 DEF RestartBump
<1>9. CASE RestartSpawn
    BY <1>9 DEF RestartSpawn
<1>10. CASE SocketSpawn
    BY <1>10 DEF SocketSpawn, Idle
<1>11. CASE FeedConsole
    BY <1>11 DEF FeedConsole
<1>12. CASE FeedReplay
    BY <1>12 DEF FeedReplay, StopUnderway
<1>13. CASE FinishTask
    BY <1>13 DEF FinishTask, LocalOnly
<1>14. CASE NaturalEnd
    BY <1>14 DEF NaturalEnd, StopUnderway, Settled
<1>15. CASE TestStop
    BY <1>15 DEF TestStop, Idle, Settled
<1>16. ASSUME NEW e \in Enders, RestoreCurrentHeat(e) PROVE ReplayStaysLocal'
    BY <1>16 DEF RestoreCurrentHeat
<1>17. ASSUME NEW e \in Enders, CleanupTestMeet(e) PROVE ReplayStaysLocal'
    BY <1>17 DEF CleanupTestMeet
<1>18. ASSUME NEW e \in Enders, ReleaseCloud(e) PROVE ReplayStaysLocal'
    BY <1>18 DEF ReleaseCloud, AfterRelease
<1>19. ASSUME NEW r \in recordings, DeleteRecording(r) PROVE ReplayStaysLocal'
    BY <1>19 DEF DeleteRecording, Idle
<1>20. CASE RelayConnect
    BY <1>20 DEF RelayConnect, LocalOnly
<1>21. CASE CloudToggle
    BY <1>21 DEF CloudToggle, Idle
<1>22. CASE UNCHANGED vars
    BY <1>22
<1> QED
    BY <1>1, <1>2, <1>3, <1>4, <1>5, <1>6, <1>7, <1>8, <1>9, <1>10, <1>11, <1>12,
       <1>13, <1>14, <1>15, <1>16, <1>17, <1>18, <1>19, <1>20, <1>21, <1>22 DEF Next, Play, End

\* The recording's start lists go before the session does.
LEMMA MeetKept ==
    Serial /\ StageInv /\ WorkerInv /\ MeetInv /\ [Next]_vars => MeetInv'
<1> SUFFICES ASSUME Serial, StageInv, WorkerInv, MeetInv, [Next]_vars PROVE MeetInv'
    OBVIOUS
<1> USE SessionAssumption DEF Serial, StageInv, Stages, Enders, Ended, Began,
    Starting, Playing, Loads, SetAside, WorkerInv, MeetInv
<1>1. ASSUME NEW r \in recordings, BeginLocalOnly(r) PROVE MeetInv'
    BY <1>1 DEF BeginLocalOnly, Idle
<1>2. CASE UseReplayDecoder
    BY <1>2 DEF UseReplayDecoder
<1>3. CASE LoadCompanion
    BY <1>3 DEF LoadCompanion
<1>4. CASE ActivateTestMeet
    BY <1>4 DEF ActivateTestMeet
<1>5. CASE ForgetCurrentHeat
    BY <1>5 DEF ForgetCurrentHeat
<1>6. CASE UploadMeet
    BY <1>6 DEF UploadMeet, Idle
<1>7. CASE ActivateUpload
    BY <1>7 DEF ActivateUpload
<1>8. CASE RestartBump
    BY <1>8 DEF RestartBump
<1>9. CASE RestartSpawn
    BY <1>9 DEF RestartSpawn
<1>10. CASE SocketSpawn
    BY <1>10 DEF SocketSpawn, Idle
<1>11. CASE FeedConsole
    BY <1>11 DEF FeedConsole
<1>12. CASE FeedReplay
    BY <1>12 DEF FeedReplay, StopUnderway
<1>13. CASE FinishTask
    BY <1>13 DEF FinishTask
<1>14. CASE NaturalEnd
    BY <1>14 DEF NaturalEnd, StopUnderway, Settled
<1>15. CASE TestStop
    BY <1>15 DEF TestStop, Idle, Settled
<1>16. ASSUME NEW e \in Enders, RestoreCurrentHeat(e) PROVE MeetInv'
    BY <1>16 DEF RestoreCurrentHeat
<1>17. ASSUME NEW e \in Enders, CleanupTestMeet(e) PROVE MeetInv'
    BY <1>17 DEF CleanupTestMeet
<1>18. ASSUME NEW e \in Enders, ReleaseCloud(e) PROVE MeetInv'
    BY <1>18 DEF ReleaseCloud, AfterRelease
<1>19. ASSUME NEW r \in recordings, DeleteRecording(r) PROVE MeetInv'
    BY <1>19 DEF DeleteRecording, Idle
<1>20. CASE RelayConnect
    BY <1>20 DEF RelayConnect, LocalOnly
<1>21. CASE CloudToggle
    BY <1>21 DEF CloudToggle, Idle
<1>22. CASE UNCHANGED vars
    BY <1>22
<1> QED
    BY <1>1, <1>2, <1>3, <1>4, <1>5, <1>6, <1>7, <1>8, <1>9, <1>10, <1>11, <1>12,
       <1>13, <1>14, <1>15, <1>16, <1>17, <1>18, <1>19, <1>20, <1>21, <1>22 DEF Next, Play, End

\* The decoder that was lent is taken back.
LEMMA DecoderKept ==
    Serial /\ StageInv /\ WorkerInv /\ DecoderInv /\ [Next]_vars => DecoderInv'
<1> SUFFICES ASSUME Serial, StageInv, WorkerInv, DecoderInv, [Next]_vars PROVE
             DecoderInv'
    OBVIOUS
<1> USE SessionAssumption DEF Serial, StageInv, Stages, Enders, Ended, Began,
    Starting, Playing, Loads, SetAside, WorkerInv, DecoderInv
<1>1. ASSUME NEW r \in recordings, BeginLocalOnly(r) PROVE DecoderInv'
    BY <1>1 DEF BeginLocalOnly, Idle
<1>2. CASE UseReplayDecoder
    BY <1>2 DEF UseReplayDecoder
<1>3. CASE LoadCompanion
    BY <1>3 DEF LoadCompanion
<1>4. CASE ActivateTestMeet
    BY <1>4 DEF ActivateTestMeet
<1>5. CASE ForgetCurrentHeat
    BY <1>5 DEF ForgetCurrentHeat
<1>6. CASE UploadMeet
    BY <1>6 DEF UploadMeet, Idle
<1>7. CASE ActivateUpload
    BY <1>7 DEF ActivateUpload
<1>8. CASE RestartBump
    BY <1>8 DEF RestartBump
<1>9. CASE RestartSpawn
    BY <1>9 DEF RestartSpawn
<1>10. CASE SocketSpawn
    BY <1>10 DEF SocketSpawn, Idle
<1>11. CASE FeedConsole
    BY <1>11 DEF FeedConsole
<1>12. CASE FeedReplay
    BY <1>12 DEF FeedReplay, StopUnderway
<1>13. CASE FinishTask
    BY <1>13 DEF FinishTask
<1>14. CASE NaturalEnd
    BY <1>14 DEF NaturalEnd, StopUnderway, Settled
<1>15. CASE TestStop
    BY <1>15 DEF TestStop, Idle, Settled
<1>16. ASSUME NEW e \in Enders, RestoreCurrentHeat(e) PROVE DecoderInv'
    BY <1>16 DEF RestoreCurrentHeat
<1>17. ASSUME NEW e \in Enders, CleanupTestMeet(e) PROVE DecoderInv'
    BY <1>17 DEF CleanupTestMeet
<1>18. ASSUME NEW e \in Enders, ReleaseCloud(e) PROVE DecoderInv'
    BY <1>18 DEF ReleaseCloud, AfterRelease
<1>19. ASSUME NEW r \in recordings, DeleteRecording(r) PROVE DecoderInv'
    BY <1>19 DEF DeleteRecording, Idle
<1>20. CASE RelayConnect
    BY <1>20 DEF RelayConnect, LocalOnly
<1>21. CASE CloudToggle
    BY <1>21 DEF CloudToggle, Idle
<1>22. CASE UNCHANGED vars
    BY <1>22
<1> QED
    BY <1>1, <1>2, <1>3, <1>4, <1>5, <1>6, <1>7, <1>8, <1>9, <1>10, <1>11, <1>12,
       <1>13, <1>14, <1>15, <1>16, <1>17, <1>18, <1>19, <1>20, <1>21, <1>22 DEF Next, Play, End

\* The console's heat comes back with its decoder.
LEMMA HeatKept ==
    Serial /\ HeatsSetAside /\ StageInv /\ WorkerInv /\ MeetInv /\ DecoderInv /\
    HeatInv /\ [Next]_vars => HeatInv'
<1> SUFFICES ASSUME Serial, HeatsSetAside, StageInv, WorkerInv, MeetInv, DecoderInv,
             HeatInv, [Next]_vars PROVE HeatInv'
    OBVIOUS
<1> USE SessionAssumption, HeatAssumption DEF Serial, StageInv, Stages, Enders, Ended,
    Began, Starting, Playing, Loads, HeatsSetAside, SetAside, WorkerInv, MeetInv,
    DecoderInv, HeatInv, Decoders
<1>1. ASSUME NEW r \in recordings, BeginLocalOnly(r) PROVE HeatInv'
    BY <1>1 DEF BeginLocalOnly, Idle
<1>2. CASE UseReplayDecoder
    BY <1>2 DEF UseReplayDecoder
<1>3. CASE LoadCompanion
    BY <1>3 DEF LoadCompanion
<1>4. CASE ActivateTestMeet
    BY <1>4 DEF ActivateTestMeet
<1>5. CASE ForgetCurrentHeat
    BY <1>5 DEF ForgetCurrentHeat
<1>6. CASE UploadMeet
    BY <1>6 DEF UploadMeet, Idle
<1>7. CASE ActivateUpload
    BY <1>7 DEF ActivateUpload
<1>8. CASE RestartBump
    BY <1>8 DEF RestartBump
<1>9. CASE RestartSpawn
    BY <1>9 DEF RestartSpawn
<1>10. CASE SocketSpawn
    BY <1>10 DEF SocketSpawn, Idle
<1>11. CASE FeedConsole
    BY <1>11 DEF FeedConsole
<1>12. CASE FeedReplay
    BY <1>12 DEF FeedReplay, StopUnderway
<1>13. CASE FinishTask
    BY <1>13 DEF FinishTask
<1>14. CASE NaturalEnd
    BY <1>14 DEF NaturalEnd, StopUnderway, Settled
<1>15. CASE TestStop
    BY <1>15 DEF TestStop, Idle, Settled
<1>16. ASSUME NEW e \in Enders, RestoreCurrentHeat(e) PROVE HeatInv'
    BY <1>16 DEF RestoreCurrentHeat
<1>17. ASSUME NEW e \in Enders, CleanupTestMeet(e) PROVE HeatInv'
    BY <1>17 DEF CleanupTestMeet
<1>18. ASSUME NEW e \in Enders, ReleaseCloud(e) PROVE HeatInv'
    BY <1>18 DEF ReleaseCloud, AfterRelease
<1>19. ASSUME NEW r \in recordings, DeleteRecording(r) PROVE HeatInv'
    BY <1>19 DEF DeleteRecording, Idle
<1>20. CASE RelayConnect
    BY <1>20 DEF RelayConnect, LocalOnly
<1>21. CASE CloudToggle
    BY <1>21 DEF CloudToggle, Idle
<1>22. CASE UNCHANGED vars
    BY <1>22
<1> QED
    BY <1>1, <1>2, <1>3, <1>4, <1>5, <1>6, <1>7, <1>8, <1>9, <1>10, <1>11, <1>12,
       <1>13, <1>14, <1>15, <1>16, <1>17, <1>18, <1>19, <1>20, <1>21, <1>22 DEF Next, Play, End

-----------------------------------------------------------------------------
LEMMA InitHolds == Init => IInv
<1> SUFFICES ASSUME Init PROVE IInv
  OBVIOUS
<1> USE SessionAssumption
    DEF Init, Ended, Began, Starting, Playing, Loads, SetAside, Stages, Enders, Decoders
<1>1. StageInv
  BY DEF StageInv
<1>2. WorkerInv /\ SavedInv /\ ReplayStaysLocal
  BY DEF WorkerInv, SavedInv, ReplayStaysLocal
<1>3. MeetInv /\ DecoderInv
  BY DEF MeetInv, DecoderInv
<1>4. HeatInv
  BY DEF HeatInv
<1> QED
  BY <1>1, <1>2, <1>3, <1>4 DEF IInv, LocalInv

\* Whatever the recordings, a replay's times reach neither the disk nor the
\* cloud: record_console_heat and relay_emit (_local_only) let none through.
THEOREM StaysLocal == Serial => (Spec => []ReplayStaysLocal)
<1> SUFFICES ASSUME Serial PROVE Spec => []ReplayStaysLocal
  OBVIOUS
<1>1. Init => LocalInv
  BY InitHolds DEF IInv
<1>2. LocalInv /\ [Next]_vars => LocalInv'
  BY StageKept, WorkerKept, SavedKept, LocalKept DEF LocalInv
<1>3. LocalInv => ReplayStaysLocal
  BY DEF LocalInv
<1> QED
  BY <1>1, <1>2, <1>3, PTL DEF Spec

LEMMA InvKept == Serial /\ HeatsSetAside /\ IInv /\ [Next]_vars => IInv'
  BY StageKept, WorkerKept, SavedKept, LocalKept, MeetKept, DecoderKept, HeatKept
     DEF IInv, LocalInv

\* With no session on and no step under way, no flag is up and nothing is set
\* aside: what the invariant says is set aside or in place is in place.
LEMMA NothingLeft == IInv => SessionUndone
<1> SUFFICES ASSUME IInv, Over PROVE SessionUndone
  BY DEF SessionUndone
<1>1. Ended /\ ~Began /\ ~Starting /\ ~Playing /\ ~Loads /\ play = "idle"
  BY DEF Over, Idle, Ended, Began, Starting, Playing, Loads
<1>2. ~test_local_only /\ ~SetAside
  BY <1>1 DEF IInv, LocalInv, StageInv, SetAside, Ended, Enders
<1>3. ~test_meet_active /\ meet = "real"
  BY <1>1, <1>2 DEF IInv, MeetInv, Ended
<1>4. decoder = "console" /\ saved_decoder = None
  BY <1>2 DEF IInv, DecoderInv
<1>5. last_event_sent["console"] = console_heat
  BY <1>2 DEF IInv, HeatInv
<1>6. relay = cloud_on /\ results = real_results
  BY <1>2 DEF IInv, LocalInv, SavedInv
<1> QED
  BY <1>2, <1>3, <1>4, <1>5, <1>6 DEF SessionUndone

\* A session, stopped or played out, leaves the boards, the meet, the results
\* and the cloud link as the console and the operator left them.
THEOREM SessionLeavesNothing ==
    Serial /\ HeatsSetAside => (Spec => []SessionUndone)
<1> SUFFICES ASSUME Serial, HeatsSetAside PROVE Spec => []SessionUndone
  OBVIOUS
<1>1. IInv /\ [Next]_vars => IInv'
  BY InvKept
<1> QED
  BY InitHolds, <1>1, NothingLeft, PTL DEF Spec

-----------------------------------------------------------------------------
(* Kiosk: types.                                                           *)

Marks == [time : Int, place : Int]
Swims == [run : BOOLEAN, time : Int, place : Int]
Rows == [run : BOOLEAN, time : Int, place : Int, tint : Int]
Boards == UNION {[ls -> Swims] : ls \in SUBSET Lanes}
Kinds == {"update_scoreboard", "running_time", "race_finished", "reset", "test_mode",
          "no_test_mode", "overlay", "no_overlay", "columns", "reload", "update"}
Sent == [kind : Kinds, heat : Int, lanes : Boards]

Windows == [snap : [Lanes -> Marks], rows : [Lanes -> Rows], key : Int, step : 0..3,
            cols : BOOLEAN, shown : BOOLEAN, due : SUBSET Lanes, ticking : BOOLEAN,
            base : BOOLEAN, rebased : BOOLEAN, splash : BOOLEAN, badge : BOOLEAN]

-----------------------------------------------------------------------------
(* The rows and the snapshot they are painted from.                        *)

\* A row shows the snapshot, but for the time of a lane that swims.
Matches(t, l) ==
    /\ t.rows[l].place = t.snap[l].place
    /\ t.rows[l].run \/ t.rows[l].time = t.snap[l].time

\* At rest the rows show the snapshot, and no lane swims during a transition.
Painted(t) ==
    /\ t.step = 0 => \A l \in Lanes : Matches(t, l)
    /\ t.step # 0 => ~Racing(t)

\* What a frame can change of a window besides the look of it.
View(t) == [run |-> [l \in Lanes |-> t.rows[l].run], snap |-> t.snap,
            key |-> t.key, badge |-> t.badge]

NoMark == [time |-> 0, place |-> 0]

\* A frame that names another heat than the window has.
Turns(s, f) == f.heat # Absent /\ f.heat # s.key

\* What a frame of times makes of the view s: q.  Whether the clock of the heat
\* before is stopped depends on the rows.
Updates(s, f, q) ==
    /\ q.badge = s.badge
    /\ q.key = IF f.heat = Absent THEN s.key ELSE f.heat
    /\ \A l \in Lanes : q.snap[l] =
          IF l \in DOMAIN f.lanes
          THEN [time |-> IF f.lanes[l].run THEN s.snap[l].time ELSE f.lanes[l].time,
                place |-> f.lanes[l].place]
          ELSE IF Turns(s, f) THEN NoMark ELSE s.snap[l]
    /\ \/ \A l \in Lanes : q.run[l] = IF l \in DOMAIN f.lanes THEN f.lanes[l].run ELSE s.run[l]
       \/ Turns(s, f) /\ s.key # Absent /\ \A l \in Lanes : ~q.run[l]

LEMMA BoardFacts ==
  ASSUME NEW b
  PROVE  /\ b \in Boards => DOMAIN b \subseteq Lanes /\ b \in [DOMAIN b -> Swims]
         /\ DOMAIN b \subseteq Lanes /\ b \in [DOMAIN b -> Swims] => b \in Boards
BY DEF Boards

\* The window of t has another look only: its rows' cells, its podium, its clock.
LEMMA StoppedClock ==
  ASSUME NEW t \in Windows
  PROVE  LET u == StopClock(t) IN
         /\ u \in Windows /\ ~Racing(u)
         /\ u.snap = t.snap /\ u.key = t.key /\ u.badge = t.badge /\ u.splash = t.splash
         /\ u.step = t.step
         /\ \A l \in Lanes : u.rows[l] = [t.rows[l] EXCEPT !.run = FALSE]
BY DEF StopClock, Windows, Rows, Racing

LEMMA TransitionBegun ==
  ASSUME NEW t \in Windows
  PROVE  LET u == BeginTransition(t) IN
         /\ u \in Windows
         /\ u.snap = t.snap /\ u.key = t.key /\ u.badge = t.badge /\ u.splash = t.splash
         /\ \A l \in Lanes : u.rows[l].time = t.rows[l].time /\ u.rows[l].place = t.rows[l].place
         /\ \/ u.step = 1 /\ ~Racing(u)
            \/ u.step = t.step /\ \A l \in Lanes : u.rows[l] = t.rows[l]
<1> DEFINE s == StopClock(t)
<1>1. CASE ~HasResults(t)
  BY <1>1 DEF BeginTransition, Windows
<1>2. CASE HasResults(t)
  <2>1. /\ s \in Windows /\ ~Racing(s)
        /\ s.snap = t.snap /\ s.key = t.key /\ s.badge = t.badge /\ s.splash = t.splash
        /\ \A l \in Lanes : s.rows[l] = [t.rows[l] EXCEPT !.run = FALSE]
    BY StoppedClock
  <2> HIDE DEF s
  <2> DEFINE rows == [l \in Lanes |-> [s.rows[l] EXCEPT !.tint = 0]]
             u == [s EXCEPT !.step = 1, !.rows = rows]
  <2>2. BeginTransition(t) = u
    BY <1>2, <2>1 DEF BeginTransition, Windows, s
  <2>3. /\ rows \in [Lanes -> Rows]
        /\ \A l \in Lanes : /\ rows[l].time = s.rows[l].time /\ rows[l].place = s.rows[l].place
                            /\ rows[l].run = s.rows[l].run
    BY <2>1 DEF Windows, Rows
  <2> HIDE DEF rows
  <2>w. s \in Windows
    BY <2>1
  <2>4. u \in Windows
    <3>1. 1 \in 0..3
      OBVIOUS
    <3> QED BY <3>1, <2>w, <2>3 DEF Windows
  <2>5. u.rows = rows /\ u.step = 1
    BY <2>w DEF Windows
  <2>6. u.snap = s.snap /\ u.key = s.key /\ u.badge = s.badge /\ u.splash = s.splash
    BY <2>w DEF Windows
  <2> HIDE DEF u
  <2>7. \A l \in Lanes : s.rows[l].time = t.rows[l].time /\ s.rows[l].place = t.rows[l].place
    BY ZenonT(60), <2>1 DEF Windows, Rows
  <2>8. ~Racing(u)
    BY <2>1, <2>3, <2>5 DEF Racing
  <2> QED BY <2>1, <2>2, <2>3, <2>4, <2>5, <2>6, <2>7, <2>8
<1> QED BY <1>1, <1>2

LEMMA Refreshed ==
  ASSUME NEW t \in Windows, NEW ls \in SUBSET Lanes
  PROVE  LET u == UpdateRows(t, ls) IN
         /\ u \in Windows
         /\ u.snap = t.snap /\ u.key = t.key /\ u.badge = t.badge /\ u.splash = t.splash
         /\ u.step = t.step
         /\ \A l \in Lanes : u.rows[l].run = t.rows[l].run
         /\ \A l \in ls : Matches(u, l)
         /\ \A l \in Lanes \ ls : u.rows[l] = t.rows[l]
BY ZenonT(60) DEF UpdateRows, UpdatedRow, Windows, Rows, Marks, Matches

LEMMA TransitionCancelled ==
  ASSUME NEW t \in Windows
  PROVE  LET u == CancelTransition(t) IN
         /\ u \in Windows
         /\ u.snap = t.snap /\ u.key = t.key /\ u.badge = t.badge /\ u.splash = t.splash
         /\ u.step = 0
         /\ \A l \in Lanes : u.rows[l].run = t.rows[l].run
         /\ \/ \A l \in Lanes : Matches(u, l)
            \/ t.step = 0 /\ u = t
<1>1. CASE t.step = 0
  BY <1>1 DEF CancelTransition
<1>2. CASE t.step # 0
  <2> DEFINE s == [t EXCEPT !.step = 0]
  <2>1. s \in Windows
    BY DEF Windows
  <2>2. CancelTransition(t) = UpdateRows(s, Lanes)
    BY <1>2 DEF CancelTransition, Refresh
  <2>3. s.snap = t.snap /\ s.key = t.key /\ s.badge = t.badge /\ s.splash = t.splash
        /\ s.step = 0 /\ s.rows = t.rows
    BY DEF Windows
  <2> HIDE DEF s
  <2> QED BY <2>1, <2>2, <2>3, Refreshed
<1> QED BY <1>1, <1>2

LEMMA PodiumCleared ==
  ASSUME NEW t \in Windows
  PROVE  LET u == ClearPodium(t) IN
         /\ u \in Windows
         /\ u.snap = t.snap /\ u.key = t.key /\ u.badge = t.badge /\ u.splash = t.splash
         /\ u.step = t.step
         /\ \A l \in Lanes : u.rows[l] = [t.rows[l] EXCEPT !.tint = 0]
<1> DEFINE rows == [l \in Lanes |-> [t.rows[l] EXCEPT !.tint = 0]]
<1>1. rows \in [Lanes -> Rows] /\ \A l \in Lanes : rows[l] = [t.rows[l] EXCEPT !.tint = 0]
  BY DEF Windows, Rows
<1>2. ClearPodium(t) = [t EXCEPT !.due = {}, !.shown = FALSE, !.rows = rows]
  BY DEF ClearPodium, Windows
<1> HIDE DEF rows
<1> QED BY <1>1, <1>2 DEF Windows

LEMMA PodiumHighlighted ==
  ASSUME NEW t \in Windows
  PROVE  LET u == HighlightPodium(t) IN
         /\ u \in Windows
         /\ u.snap = t.snap /\ u.key = t.key /\ u.badge = t.badge /\ u.splash = t.splash
         /\ u.step = t.step /\ u.rows = t.rows
BY DEF HighlightPodium, Windows

LEMMA ClockSynced ==
  ASSUME NEW t \in Windows
  PROVE  LET u == SyncClock(t) IN
         /\ u \in Windows
         /\ u.snap = t.snap /\ u.key = t.key /\ u.badge = t.badge /\ u.splash = t.splash
         /\ u.step = t.step
         /\ \A l \in Lanes : /\ u.rows[l].run = t.rows[l].run
                             /\ u.rows[l].place = t.rows[l].place
                             /\ u.rows[l].run \/ u.rows[l] = t.rows[l]
<1> DEFINE on == Racing(t) /\ ~link'.lost
           rows == [l \in Lanes |->
               IF on /\ t.base /\ t.rows[l].run THEN [t.rows[l] EXCEPT !.time = Clock] ELSE t.rows[l]]
<1>1. /\ rows \in [Lanes -> Rows]
      /\ \A l \in Lanes : /\ rows[l].run = t.rows[l].run
                          /\ rows[l].place = t.rows[l].place
                          /\ rows[l].run \/ rows[l] = t.rows[l]
  <2> HIDE DEF on
  <2> QED BY DEF Windows, Rows, Clock
<1>2. SyncClock(t) = [t EXCEPT !.ticking = on, !.rows = rows]
  BY DEF SyncClock, Windows
<1>3. on \in BOOLEAN
  BY DEF Racing
<1> HIDE DEF rows, on
<1> QED BY <1>1, <1>2, <1>3 DEF Windows

\* What a frame brings of a lane.
LEMMA FrameMerged ==
  ASSUME NEW t \in Windows, NEW f \in Sent
  PROVE  LET u == Merged(t, f) IN
         /\ u \in Windows
         /\ u.key = t.key /\ u.badge = t.badge /\ u.splash = t.splash /\ u.step = t.step
         /\ \A l \in DOMAIN f.lanes :
               /\ u.snap[l] = [time |-> IF f.lanes[l].run THEN t.snap[l].time ELSE f.lanes[l].time,
                               place |-> f.lanes[l].place]
               /\ u.rows[l] = [t.rows[l] EXCEPT !.run = f.lanes[l].run]
         /\ \A l \in Lanes \ DOMAIN f.lanes : u.snap[l] = t.snap[l] /\ u.rows[l] = t.rows[l]
<1> DEFINE snap == [l \in Lanes |->
                  IF l \notin DOMAIN f.lanes THEN t.snap[l]
                  ELSE [time |-> IF f.lanes[l].run THEN t.snap[l].time ELSE f.lanes[l].time,
                        place |-> f.lanes[l].place]]
           rows == [l \in Lanes |->
                  IF l \in DOMAIN f.lanes THEN [t.rows[l] EXCEPT !.run = f.lanes[l].run]
                  ELSE t.rows[l]]
<1>1. DOMAIN f.lanes \subseteq Lanes /\ f.lanes \in [DOMAIN f.lanes -> Swims]
  BY BoardFacts DEF Sent
<1>2. snap \in [Lanes -> Marks]
  BY <1>1 DEF Windows, Marks, Swims
<1>3. rows \in [Lanes -> Rows]
  BY <1>1 DEF Windows, Rows, Swims
<1>4. Merged(t, f) = [t EXCEPT !.snap = snap, !.rows = rows]
  BY DEF Merged, Windows
<1>5. /\ \A l \in DOMAIN f.lanes :
            /\ snap[l] = [time |-> IF f.lanes[l].run THEN t.snap[l].time ELSE f.lanes[l].time,
                          place |-> f.lanes[l].place]
            /\ rows[l] = [t.rows[l] EXCEPT !.run = f.lanes[l].run]
      /\ \A l \in Lanes \ DOMAIN f.lanes : snap[l] = t.snap[l] /\ rows[l] = t.rows[l]
  BY <1>1
<1> HIDE DEF snap, rows
<1> QED BY ZenonT(60), <1>2, <1>3, <1>4, <1>5 DEF Windows

\* A frame of another heat: what it does not bring is dropped.
LEMMA HeatTurned ==
  ASSUME NEW t \in Windows, NEW f \in Sent
  PROVE  LET u == HeatChanged(t, f) IN
         /\ u \in Windows
         /\ u.key = f.heat /\ u.badge = t.badge /\ u.splash = t.splash
         /\ \A l \in Lanes : u.snap[l] = IF l \in DOMAIN f.lanes THEN t.snap[l] ELSE NoMark
         /\ \/ t.key # Absent /\ ~Racing(u) /\ u.step = 1
            \/ u.step = t.step /\ \A l \in Lanes : u.rows[l] = t.rows[l]
<1> DEFINE snap == Dropped(t, f)
           fresh == [t EXCEPT !.key = f.heat, !.due = {}, !.shown = FALSE, !.snap = snap]
<1>1. /\ snap \in [Lanes -> Marks]
      /\ \A l \in Lanes : snap[l] = IF l \in DOMAIN f.lanes THEN t.snap[l] ELSE NoMark
  BY DEF Dropped, Windows, Marks, NoMark
<1>2. f.heat \in Int
  BY DEF Sent
<1> HIDE DEF snap
<1>3. /\ fresh \in Windows
      /\ fresh.key = f.heat /\ fresh.badge = t.badge /\ fresh.splash = t.splash
      /\ fresh.snap = snap /\ fresh.step = t.step /\ fresh.rows = t.rows
  BY <1>1, <1>2 DEF Windows
<1>4. HeatChanged(t, f) = IF t.key = Absent THEN [fresh EXCEPT !.cols = FALSE] ELSE BeginTransition(fresh)
  BY DEF HeatChanged, snap
<1> HIDE DEF fresh
<1>5. CASE t.key = Absent
  <2> DEFINE u == [fresh EXCEPT !.cols = FALSE]
  <2>1. /\ u \in Windows /\ u.key = fresh.key /\ u.badge = fresh.badge /\ u.splash = fresh.splash
        /\ u.snap = fresh.snap /\ u.step = fresh.step /\ u.rows = fresh.rows
    BY <1>3 DEF Windows
  <2>2. HeatChanged(t, f) = u
    BY <1>4, <1>5
  <2> HIDE DEF u
  <2> QED BY <1>1, <1>3, <2>1, <2>2
<1>6. CASE t.key # Absent
  <2> DEFINE u == BeginTransition(fresh)
  <2>1. /\ u \in Windows
        /\ u.snap = fresh.snap /\ u.key = fresh.key /\ u.badge = fresh.badge /\ u.splash = fresh.splash
        /\ \/ u.step = 1 /\ ~Racing(u)
           \/ u.step = fresh.step /\ \A l \in Lanes : u.rows[l] = fresh.rows[l]
    BY <1>3, TransitionBegun
  <2>2. HeatChanged(t, f) = u
    BY <1>4, <1>6
  <2> HIDE DEF u
  <2> QED BY <1>1, <1>3, <1>6, <2>1, <2>2
<1> QED BY <1>5, <1>6

LEMMA RaceBegun ==
  ASSUME NEW t \in Windows
  PROVE  LET u == RaceStarted(t) IN
         /\ u \in Windows
         /\ u.snap = t.snap /\ u.key = t.key /\ u.badge = t.badge /\ u.splash = t.splash
         /\ u.step = 0
         /\ \A l \in Lanes : u.rows[l].run = t.rows[l].run
         /\ \/ \A l \in Lanes : Matches(u, l)
            \/ t.step = 0 /\ \A l \in Lanes : /\ u.rows[l].time = t.rows[l].time
                                              /\ u.rows[l].place = t.rows[l].place
<1> DEFINE c == CancelTransition(t)
           p == ClearPodium(c)
           u == [p EXCEPT !.cols = TRUE]
<1>1. /\ c \in Windows
      /\ c.snap = t.snap /\ c.key = t.key /\ c.badge = t.badge /\ c.splash = t.splash
      /\ c.step = 0
      /\ \A l \in Lanes : c.rows[l].run = t.rows[l].run
      /\ \/ \A l \in Lanes : Matches(c, l)
         \/ t.step = 0 /\ c = t
  BY TransitionCancelled
<1> HIDE DEF c
<1>2. /\ p \in Windows
      /\ p.snap = c.snap /\ p.key = c.key /\ p.badge = c.badge /\ p.splash = c.splash
      /\ p.step = c.step
      /\ \A l \in Lanes : p.rows[l] = [c.rows[l] EXCEPT !.tint = 0]
  BY <1>1, PodiumCleared
<1>3. \A l \in Lanes : /\ p.rows[l].run = c.rows[l].run
                       /\ p.rows[l].time = c.rows[l].time /\ p.rows[l].place = c.rows[l].place
  <2>1. ASSUME NEW l \in Lanes  PROVE c.rows[l] \in Rows
    BY <1>1 DEF Windows
  <2> QED BY <1>2, <2>1 DEF Rows
<1> HIDE DEF p
<1>4. /\ u \in Windows /\ u.snap = p.snap /\ u.key = p.key /\ u.badge = p.badge
      /\ u.splash = p.splash /\ u.step = p.step /\ u.rows = p.rows
  BY <1>2 DEF Windows
<1>5. RaceStarted(t) = u
  BY DEF RaceStarted, p, c
<1> HIDE DEF u
<1> QED BY <1>1, <1>2, <1>3, <1>4, <1>5 DEF Matches

\* A frame of times leaves a painted window painted, and the view it should.
LEMMA UpdateApplied ==
  ASSUME NEW t \in Windows, Painted(t), NEW f \in Sent
  PROVE  LET u == ApplyUpdate(t, f) IN
         /\ u \in Windows /\ Painted(u) /\ u.splash = t.splash
         /\ Updates(View(t), f, View(u))
<1> DEFINE was == Racing(t)
           a == Merged(t, f)
           b == IF f.heat # Absent /\ f.heat # t.key THEN HeatChanged(a, f) ELSE a
           c == IF ~was /\ Racing(b) THEN RaceStarted(b) ELSE b
           d == IF f.kind = "running_time" /\ ~HeatIsDone(c)
                THEN [c EXCEPT !.base = TRUE, !.rebased = TRUE] ELSE c
           ls == IF f.heat # Absent THEN Lanes ELSE DOMAIN f.lanes
           e == IF d.step # 0 THEN d ELSE UpdateRows(d, ls)
           g == IF e.step = 0 /\ HeatIsDone(e) THEN HighlightPodium(e) ELSE e
           turns == f.heat # Absent /\ f.heat # t.key
           u == SyncClock(g)
<1>1. u = ApplyUpdate(t, f)
  BY Zenon DEF ApplyUpdate
<1>2. DOMAIN f.lanes \subseteq Lanes /\ f.lanes \in [DOMAIN f.lanes -> Swims] /\ f.heat \in Int
  BY BoardFacts DEF Sent
<1>3. ls \in SUBSET Lanes
  BY <1>2
<1>4. /\ a \in Windows
      /\ a.key = t.key /\ a.badge = t.badge /\ a.splash = t.splash /\ a.step = t.step
      /\ \A l \in DOMAIN f.lanes :
               /\ a.snap[l] = [time |-> IF f.lanes[l].run THEN t.snap[l].time ELSE f.lanes[l].time,
                               place |-> f.lanes[l].place]
               /\ a.rows[l] = [t.rows[l] EXCEPT !.run = f.lanes[l].run]
      /\ \A l \in Lanes \ DOMAIN f.lanes : a.snap[l] = t.snap[l] /\ a.rows[l] = t.rows[l]
  BY FrameMerged
<1>5. \A l \in Lanes : a.rows[l].run = IF l \in DOMAIN f.lanes THEN f.lanes[l].run ELSE t.rows[l].run
  BY ZenonT(60), <1>2, <1>4 DEF Windows, Rows, Swims
<1> HIDE DEF a
<1>6. /\ b \in Windows
      /\ b.key = (IF f.heat = Absent THEN t.key ELSE f.heat)
      /\ b.badge = t.badge /\ b.splash = t.splash
      /\ \A l \in Lanes : b.snap[l] = IF l \in DOMAIN f.lanes \/ ~turns THEN a.snap[l] ELSE NoMark
      /\ \/ turns /\ t.key # Absent /\ ~Racing(b) /\ b.step = 1
         \/ b.step = t.step /\ \A l \in Lanes : b.rows[l] = a.rows[l]
  <2>1. CASE turns
    BY <2>1, <1>4, HeatTurned
  <2>2. CASE ~turns
    BY <2>2, <1>4
  <2> QED BY <2>1, <2>2
<1> HIDE DEF b
<1>7. f.heat = Absent /\ b.step = 0 => \A l \in Lanes \ DOMAIN f.lanes : Matches(b, l)
  BY <1>4, <1>6 DEF Painted, Matches
<1>8. b.step # 0 /\ was => ~Racing(b)
  BY <1>6 DEF Painted
<1>9. /\ c \in Windows
      /\ c.snap = b.snap /\ c.key = b.key /\ c.badge = b.badge /\ c.splash = b.splash
      /\ \A l \in Lanes : c.rows[l].run = b.rows[l].run
      /\ c.step # 0 => ~Racing(c)
      /\ f.heat = Absent /\ c.step = 0 => \A l \in Lanes \ DOMAIN f.lanes : Matches(c, l)
  <2>1. CASE ~was /\ Racing(b)
    BY <2>1, <1>6, <1>7, RaceBegun DEF Matches
  <2>2. CASE ~(~was /\ Racing(b))
    BY <2>2, <1>6, <1>7, <1>8
  <2> QED BY <2>1, <2>2
<1> HIDE DEF c
<1>10. /\ d \in Windows
       /\ d.snap = c.snap /\ d.key = c.key /\ d.badge = c.badge /\ d.splash = c.splash
       /\ d.rows = c.rows /\ d.step = c.step
  BY <1>9 DEF Windows
<1> HIDE DEF d
<1>11. /\ e \in Windows
       /\ e.snap = c.snap /\ e.key = c.key /\ e.badge = c.badge /\ e.splash = c.splash
       /\ e.step = c.step
       /\ \A l \in Lanes : e.rows[l].run = c.rows[l].run
       /\ e.step = 0 => \A l \in Lanes : Matches(e, l)
  <2>1. CASE d.step # 0
    BY <2>1, <1>10
  <2>2. CASE d.step = 0
    <3>1. e = UpdateRows(d, ls)
      BY <2>2
    <3>2. /\ e \in Windows
          /\ e.snap = d.snap /\ e.key = d.key /\ e.badge = d.badge /\ e.splash = d.splash
          /\ e.step = d.step
          /\ \A l \in Lanes : e.rows[l].run = d.rows[l].run
          /\ \A l \in ls : Matches(e, l)
          /\ \A l \in Lanes \ ls : e.rows[l] = d.rows[l]
      BY <3>1, <1>3, <1>10, Refreshed
    <3>3. ASSUME NEW l \in Lanes \ ls  PROVE Matches(e, l)
      <4>1. f.heat = Absent /\ l \in Lanes \ DOMAIN f.lanes
        BY <3>3
      <4>2. Matches(c, l)
        BY <4>1, <2>2, <1>9, <1>10
      <4> QED BY <4>2, <3>2, <1>10 DEF Matches
    <3> QED BY <3>2, <3>3, <1>10
  <2> QED BY <2>1, <2>2
<1> HIDE DEF e
<1>12. /\ g \in Windows
       /\ g.snap = e.snap /\ g.key = e.key /\ g.badge = e.badge /\ g.splash = e.splash
       /\ g.step = e.step /\ g.rows = e.rows
  BY <1>11, PodiumHighlighted
<1> HIDE DEF g
<1>13. /\ u \in Windows
       /\ u.snap = g.snap /\ u.key = g.key /\ u.badge = g.badge /\ u.splash = g.splash
       /\ u.step = g.step
       /\ \A l \in Lanes : /\ u.rows[l].run = g.rows[l].run
                           /\ u.rows[l].place = g.rows[l].place
                           /\ u.rows[l].run \/ u.rows[l] = g.rows[l]
  BY <1>12, ClockSynced
<1> HIDE DEF u
<1>14. Painted(u)
  <2>1. u.step = 0 => \A l \in Lanes : Matches(u, l)
    BY <1>11, <1>12, <1>13 DEF Matches
  <2>2. u.step # 0 => ~Racing(u)
    BY <1>9, <1>11, <1>12, <1>13 DEF Racing
  <2> QED BY <2>1, <2>2 DEF Painted
<1>15. /\ View(u).badge = View(t).badge
       /\ View(u).key = IF f.heat = Absent THEN View(t).key ELSE f.heat
  BY <1>6, <1>9, <1>11, <1>12, <1>13 DEF View
<1>16. Turns(View(t), f) <=> turns
  BY DEF Turns, View
<1>17. \A l \in Lanes : View(u).snap[l] =
          IF l \in DOMAIN f.lanes
          THEN [time |-> IF f.lanes[l].run THEN View(t).snap[l].time ELSE f.lanes[l].time,
                place |-> f.lanes[l].place]
          ELSE IF Turns(View(t), f) THEN NoMark ELSE View(t).snap[l]
  <2>1. View(u).snap = b.snap /\ View(t).snap = t.snap
    BY <1>9, <1>11, <1>12, <1>13 DEF View
  <2> SUFFICES ASSUME NEW l \in Lanes
               PROVE  b.snap[l] =
                        IF l \in DOMAIN f.lanes
                        THEN [time |-> IF f.lanes[l].run THEN t.snap[l].time ELSE f.lanes[l].time,
                              place |-> f.lanes[l].place]
                        ELSE IF turns THEN NoMark ELSE t.snap[l]
    BY <2>1, <1>16
  <2>2. CASE l \in DOMAIN f.lanes
    BY <2>2, <1>4, <1>6
  <2>3. CASE l \notin DOMAIN f.lanes
    BY <2>3, <1>4, <1>6
  <2> QED BY <2>2, <2>3
<1>18. \/ \A l \in Lanes : View(u).run[l] = IF l \in DOMAIN f.lanes THEN f.lanes[l].run ELSE View(t).run[l]
       \/ Turns(View(t), f) /\ View(t).key # Absent /\ \A l \in Lanes : ~View(u).run[l]
  <2>1. \A l \in Lanes : View(u).run[l] = b.rows[l].run
    BY <1>9, <1>11, <1>12, <1>13 DEF View
  <2>2. CASE turns /\ t.key # Absent /\ ~Racing(b)
    BY <2>1, <2>2, <1>16 DEF Racing, View
  <2>3. CASE \A l \in Lanes : b.rows[l] = a.rows[l]
    BY <2>1, <2>3, <1>5 DEF View
  <2> QED BY <2>2, <2>3, <1>6
<1> QED BY <1>1, <1>13, <1>14, <1>15, <1>17, <1>18, <1>12, <1>11, <1>9, <1>6 DEF Updates

-----------------------------------------------------------------------------
(* What the frames in flight will make of a view.                          *)

Views == [run : [Lanes -> BOOLEAN], snap : [Lanes -> Marks], key : Int, badge : BOOLEAN]

Still(q) == \A l \in Lanes : ~q.run[l]
Cleared(q) == Still(q) /\ q.key = Absent /\ \A l \in Lanes : q.snap[l] = NoMark

\* The frame f may turn the view s into q.
Leads(s, f, q) ==
    /\ f.kind \in {"update_scoreboard", "running_time"} => Updates(s, f, q)
    /\ f.kind = "race_finished" =>
          Still(q) /\ q.snap = s.snap /\ q.key = s.key /\ q.badge = s.badge
    /\ f.kind \in {"reset", "test_mode"} =>
          Cleared(q) /\ q.badge = (s.badge \/ f.kind = "test_mode")
    /\ f.kind = "no_test_mode" =>
          q.run = s.run /\ q.snap = s.snap /\ q.key = s.key /\ ~q.badge
    /\ f.kind \in {"overlay", "no_overlay", "columns", "reload", "update"} => q = s

\* A window rebuilt from the snapshot, which only a board at rest is (idle).
Rebuilds(s, q) == Still(q) /\ q.snap = s.snap /\ q.key = Absent /\ ~q.badge
Becomes(s, q, idle) == q = s \/ (idle /\ Rebuilds(s, q))

Steps(s, f, q, idle) ==
    q \in Views /\ \E m \in Views : Leads(s, f, m) /\ Becomes(m, q, idle)

\* st: a view after each of the first n frames of w.
OnPath(st, n, s, w, idle) ==
    /\ st[0] \in Views /\ Becomes(s, st[0], idle)
    /\ \A i \in 1..n : Steps(st[i - 1], w[i], st[i], idle)

\* The frames w lead into T, and until the last reset of them views are in C.
Reaches(s, w, idle, T) == \A st : OnPath(st, Len(w), s, w, idle) => st[Len(w)] \in T
ResetAfter(w, n) == \E i \in (n + 1)..Len(w) : w[i].kind = "reset"
Keeps(s, w, idle, C) ==
    \A n \in 0..Len(w) :
        ResetAfter(w, n) \/ \A st : OnPath(st, n, s, w, idle) => st[n] \in C

\* No lane of the window swims when it hears that the race is over, whether it was
\* rebuilt on the way or not.
Stands(s, w) ==
    \A n \in 0..(Len(w) - 1) :
        w[n + 1].kind = "race_finished" => \A st : OnPath(st, n, s, w, TRUE) => Still(st[n])

LEMMA ReachesByNow ==
  ASSUME NEW s \in Views, NEW w \in Seq(Sent), NEW idle \in BOOLEAN, NEW C
  PROVE  /\ w = <<>> /\ Reaches(s, w, idle, C) => s \in C
         /\ Keeps(s, w, idle, C) /\ ~ResetAfter(w, 0) => s \in C
<1> DEFINE st == [i \in {0} |-> s]
<1>1. OnPath(st, 0, s, w, idle) /\ st[0] = s
  BY DEF OnPath, Becomes
<1> HIDE DEF st
<1>2. 0 \in 0..Len(w) /\ (w = <<>> => Len(w) = 0)
  OBVIOUS
<1> QED BY <1>1, <1>2 DEF Reaches, Keeps

LEMMA ReachesNothing ==
  ASSUME NEW s, NEW idle, NEW T, \A q \in Views : Becomes(s, q, idle) => q \in T
  PROVE  Reaches(s, <<>>, idle, T) /\ Keeps(s, <<>>, idle, T) /\ Stands(s, <<>>)
<1>1. Reaches(s, <<>>, idle, T) /\ Keeps(s, <<>>, idle, T)
  BY DEF Reaches, Keeps, OnPath
<1>2. Stands(s, <<>>)
  BY DEF Stands
<1> QED BY <1>1, <1>2

LEMMA ReachesViews ==
  ASSUME NEW s, NEW w \in Seq(Sent), NEW idle
  PROVE  Reaches(s, w, idle, Views)
<1> SUFFICES ASSUME NEW st, OnPath(st, Len(w), s, w, idle)
             PROVE  st[Len(w)] \in Views
  BY DEF Reaches
<1>1. CASE Len(w) = 0
  BY <1>1 DEF OnPath
<1>2. CASE Len(w) # 0
  <2>1. Len(w) \in 1..Len(w)
    BY <1>2
  <2> QED BY <2>1 DEF OnPath, Steps
<1> QED BY <1>1, <1>2

LEMMA ReachesMore ==
  ASSUME NEW s, NEW w, NEW idle, NEW i, i => idle, NEW T, NEW U, T \subseteq U
  PROVE  /\ Reaches(s, w, idle, T) => Reaches(s, w, i, U)
         /\ Keeps(s, w, idle, T) => Keeps(s, w, i, U)
<1>1. ASSUME NEW st, NEW n, OnPath(st, n, s, w, i)  PROVE OnPath(st, n, s, w, idle)
  BY <1>1 DEF OnPath, Steps, Becomes
<1> QED BY <1>1 DEF Reaches, Keeps

LEMMA ReachesAppended ==
  ASSUME NEW s, NEW w \in Seq(Sent), NEW f \in Sent, NEW idle, NEW T, NEW U,
         Reaches(s, w, idle, T),
         \A p \in T : \A q \in Views : Steps(p, f, q, idle) => q \in U
  PROVE  Reaches(s, Append(w, f), idle, U)
<1> DEFINE v == Append(w, f)
<1>1. /\ Len(v) = Len(w) + 1 /\ Len(w) \in Nat
      /\ v[Len(v)] = f /\ \A i \in 1..Len(w) : v[i] = w[i]
  OBVIOUS
<1> HIDE DEF v
<1> SUFFICES ASSUME NEW st, OnPath(st, Len(v), s, v, idle)
             PROVE  st[Len(v)] \in U
  BY DEF Reaches, v
<1>2. OnPath(st, Len(w), s, w, idle)
  BY <1>1 DEF OnPath
<1>3. st[Len(w)] \in T
  BY <1>2 DEF Reaches
<1>4. Steps(st[Len(w)], f, st[Len(v)], idle)
  <2>1. Len(v) \in 1..Len(v) /\ Len(v) - 1 = Len(w)
    BY <1>1
  <2> QED BY <2>1, <1>1 DEF OnPath
<1> QED BY <1>3, <1>4 DEF Steps

LEMMA KeepsAppended ==
  ASSUME NEW s, NEW w \in Seq(Sent), NEW f \in Sent, NEW idle, NEW C, NEW D,
         Keeps(s, w, idle, C), C \subseteq D \/ f.kind = "reset",
         Reaches(s, Append(w, f), idle, D)
  PROVE  Keeps(s, Append(w, f), idle, D)
<1> DEFINE v == Append(w, f)
<1>1. /\ Len(v) = Len(w) + 1 /\ Len(w) \in Nat
      /\ v[Len(v)] = f /\ \A i \in 1..Len(w) : v[i] = w[i]
  OBVIOUS
<1> HIDE DEF v
<1> SUFFICES ASSUME NEW n \in 0..Len(v), ~ResetAfter(v, n), NEW st, OnPath(st, n, s, v, idle)
             PROVE  st[n] \in D
  BY DEF Keeps, v
<1>2. CASE n = Len(v)
  BY <1>2 DEF Reaches, v
<1>3. CASE n # Len(v)
  <2>1. n \in 0..Len(w) /\ Len(v) \in (n + 1)..Len(v)
    BY <1>1, <1>3
  <2>2. f.kind # "reset"
    BY <2>1, <1>1 DEF ResetAfter
  <2>3. ~ResetAfter(w, n)
    BY <2>1, <1>1 DEF ResetAfter
  <2>4. OnPath(st, n, s, w, idle)
    BY <2>1, <1>1 DEF OnPath
  <2>5. st[n] \in C
    BY <2>1, <2>3, <2>4 DEF Keeps
  <2> QED BY <2>2, <2>5
<1> QED BY <1>2, <1>3

LEMMA StandsAppended ==
  ASSUME NEW s, NEW w \in Seq(Sent), NEW f \in Sent, NEW T, Stands(s, w),
         Reaches(s, w, TRUE, T), f.kind = "race_finished" => \A p \in T : Still(p)
  PROVE  Stands(s, Append(w, f))
<1> DEFINE v == Append(w, f)
<1>1. /\ Len(v) = Len(w) + 1 /\ Len(w) \in Nat
      /\ v[Len(v)] = f /\ \A i \in 1..Len(w) : v[i] = w[i]
  OBVIOUS
<1> HIDE DEF v
<1> SUFFICES ASSUME NEW n \in 0..(Len(v) - 1), v[n + 1].kind = "race_finished",
                    NEW st, OnPath(st, n, s, v, TRUE)
             PROVE  Still(st[n])
  BY DEF Stands, v
<1>2. OnPath(st, n, s, w, TRUE)
  <2>1. ASSUME NEW i \in 1..n  PROVE v[i] = w[i]
    <3>1. i \in 1..Len(w)
      BY <1>1
    <3> QED BY <3>1, <1>1
  <2> QED BY <2>1 DEF OnPath
<1>3. CASE n = Len(w)
  BY <1>1, <1>2, <1>3 DEF Reaches
<1>4. CASE n # Len(w)
  <2>1. n \in 0..(Len(w) - 1) /\ v[n + 1] = w[n + 1]
    BY <1>1, <1>4
  <2> QED BY <2>1, <1>2 DEF Stands
<1> QED BY <1>3, <1>4

LEMMA ReachesFromNext ==
  ASSUME NEW s \in Views, NEW q \in Views, NEW w \in Seq(Sent), w # <<>>, NEW idle, NEW T,
         Leads(s, Head(w), q)
  PROVE  /\ Reaches(s, w, idle, T) => Reaches(q, Tail(w), idle, T)
         /\ Keeps(s, w, idle, T) => Keeps(q, Tail(w), idle, T)
         /\ idle = TRUE /\ Stands(s, w) => Stands(q, Tail(w))
<1> DEFINE v == Tail(w)
<1>1. /\ Len(w) \in Nat /\ Len(w) = Len(v) + 1 /\ Len(v) \in Nat
      /\ Head(w) = w[1] /\ \A i \in 1..Len(v) : v[i] = w[i + 1]
  OBVIOUS
<1> HIDE DEF v
<1>2. ASSUME NEW n \in 0..Len(v), NEW st, OnPath(st, n, q, v, idle)
      PROVE  \E sp : OnPath(sp, n + 1, s, w, idle) /\ sp[n + 1] = st[n]
  <2> DEFINE sp == [i \in 0..(n + 1) |-> IF i = 0 THEN s ELSE st[i - 1]]
  <2>1. sp[0] = s /\ \A i \in 1..(n + 1) : sp[i] = st[i - 1]
    BY <1>1
  <2> HIDE DEF sp
  <2>2. ASSUME NEW i \in 1..(n + 1)  PROVE Steps(sp[i - 1], w[i], sp[i], idle)
    <3>1. CASE i = 1
      <4>1. sp[i - 1] = s /\ sp[i] = st[0] /\ w[i] = Head(w)
        BY <3>1, <2>1, <1>1
      <4>2. st[0] \in Views /\ Becomes(q, st[0], idle)
        BY <1>2 DEF OnPath
      <4> QED BY <4>1, <4>2 DEF Steps
    <3>2. CASE i # 1
      <4> DEFINE j == i - 1
      <4>1. j \in 1..n /\ j \in 1..Len(v) /\ i = j + 1
        BY <3>2, <1>1
      <4>2. sp[i - 1] = st[j - 1] /\ sp[i] = st[j] /\ w[i] = v[j]
        BY <4>1, <2>1, <1>1
      <4>3. Steps(st[j - 1], v[j], st[j], idle)
        BY <4>1, <1>2 DEF OnPath
      <4> QED BY <4>2, <4>3
    <3> QED BY <3>1, <3>2
  <2>3. OnPath(sp, n + 1, s, w, idle)
    BY <2>1, <2>2 DEF OnPath, Becomes
  <2>4. sp[n + 1] = st[n]
    BY <2>1
  <2> QED BY <2>3, <2>4
<1>3. ASSUME Reaches(s, w, idle, T)  PROVE Reaches(q, v, idle, T)
  <2>1. Len(v) \in 0..Len(v)
    BY <1>1
  <2> QED BY <2>1, <1>1, <1>2, <1>3 DEF Reaches
<1>4. ASSUME Keeps(s, w, idle, T)  PROVE Keeps(q, v, idle, T)
  <2> SUFFICES ASSUME NEW n \in 0..Len(v), ~ResetAfter(v, n), NEW st, OnPath(st, n, q, v, idle)
               PROVE  st[n] \in T
    BY DEF Keeps
  <2>1. n + 1 \in 0..Len(w)
    BY <1>1
  <2>2. ~ResetAfter(w, n + 1)
    <3> SUFFICES ASSUME NEW i \in (n + 2)..Len(w), w[i].kind = "reset"  PROVE FALSE
      BY DEF ResetAfter
    <3>1. i - 1 \in (n + 1)..Len(v) /\ i - 1 \in 1..Len(v) /\ (i - 1) + 1 = i
      BY <1>1
    <3>2. v[i - 1] = w[i]
      BY <3>1, <1>1
    <3> QED BY <3>1, <3>2 DEF ResetAfter
  <2> QED BY <2>1, <2>2, <1>2, <1>4 DEF Keeps
<1>5. ASSUME idle = TRUE, Stands(s, w)  PROVE Stands(q, v)
  <2> SUFFICES ASSUME NEW n \in 0..(Len(v) - 1), v[n + 1].kind = "race_finished",
                      NEW st, OnPath(st, n, q, v, TRUE)
               PROVE  Still(st[n])
    BY DEF Stands
  <2>1. n + 1 \in 0..(Len(w) - 1) /\ w[(n + 1) + 1] = v[n + 1] /\ n \in 0..Len(v)
    BY <1>1
  <2> QED BY <2>1, <1>2, <1>5 DEF Stands
<1> QED BY <1>3, <1>4, <1>5 DEF v

LEMMA ReachesRebuilt ==
  ASSUME NEW s, NEW q, NEW w, NEW T, Rebuilds(s, q)
  PROVE  /\ Reaches(s, w, TRUE, T) => Reaches(q, w, TRUE, T)
         /\ Keeps(s, w, TRUE, T) => Keeps(q, w, TRUE, T)
         /\ Stands(s, w) => Stands(q, w)
<1>1. ASSUME NEW st, NEW n, OnPath(st, n, q, w, TRUE)  PROVE OnPath(st, n, s, w, TRUE)
  BY <1>1 DEF OnPath, Becomes, Rebuilds
<1> QED BY <1>1 DEF Reaches, Keeps, Stands

-----------------------------------------------------------------------------
(* The inductive invariant of BoardIsServers.                              *)

Links == [conn : BOOLEAN, cut : BOOLEAN, lost : BOOLEAN, told : BOOLEAN, ever : BOOLEAN,
          waiting : BOOLEAN, covered : BOOLEAN]
Servers == [heat : Heats \cup {0}, lanes : [Lanes -> Swims], board : Boards, swim : Nat,
            confirmed : BOOLEAN, testing : BOOLEAN, saved : Heats \cup {0},
            overlay : BOOLEAN, layout : Nat]
Configs == [fetch : {"no", "asked", "read"}, reply : Nat, layout : Nat, have : BOOLEAN]

Typed ==
    /\ srv \in Servers /\ link \in Links /\ cfg \in Configs
    /\ tv \in Windows /\ wire \in Seq(Sent)

\* Of a state s of the server: what it published of a lane, a test session whose
\* first heat is to come, a board at rest.
Of(s, l) == IF l \in DOMAIN s.board THEN s.board[l] ELSE Blank
TestBegins(s) == s.testing /\ s.heat = 0
Unannounced(s) == s.heat = 0 /\ ~s.testing

\* What was published is what the decoder knows, and with no heat that is nothing.
BoardKept(s) ==
    /\ TestBegins(s) \/ \A l \in Lanes : Of(s, l) = s.lanes[l]
    /\ \A l \in Lanes : Of(s, l).run => s.lanes[l].run
    /\ s.heat = 0 => \A l \in Lanes : s.lanes[l] = Blank

\* A layout the display has not taken is one of a board at rest.
LayoutKept ==
    /\ cfg.layout <= srv.layout
    /\ cfg.fetch = "read" => cfg.layout <= cfg.reply /\ cfg.reply <= srv.layout
    /\ cfg.layout # srv.layout => Unannounced(srv) /\ ~srv.overlay

\* The last of the frames w about the splash, or else the window, has it as on says.
Splashes == {"overlay", "no_overlay"}
SplashSaid(w, splash, on) ==
    /\ \A i \in 1..Len(w) :
          w[i].kind \in Splashes /\ (\A j \in (i + 1)..Len(w) : w[j].kind \notin Splashes)
             => (w[i].kind = "overlay") = on
    /\ (\A i \in 1..Len(w) : w[i].kind \notin Splashes) => splash = on
SplashTold == link.conn => SplashSaid(wire, tv.splash, srv.overlay)

\* The end of a test session is not lost in a cable.
ResetHeard == link.cut => \A i \in 1..Len(wire) : wire[i].kind # "reset"

\* The views q that, at a server in state s, no frame but that of a new heat or a
\* wiped board need clear of a lane the replay cache does not have.
Sound(s) == {q \in Views :
    /\ \A l \in Lanes \ DOMAIN s.board : ~q.run[l] /\ (q.snap[l] = NoMark \/ q.key # s.heat)
    /\ s.testing \/ (q.key = 0 => \A l \in Lanes : q.snap[l] = NoMark)}

ShowsLane(s, q, l) ==
    /\ q.run[l] = Of(s, l).run
    /\ q.snap[l].place = Of(s, l).place
    /\ Of(s, l).run \/ q.snap[l].time = Of(s, l).time

\* The views of the board of s.
Agreeing(s) == {q \in Sound(s) :
    /\ q.badge = s.testing
    /\ q.key = s.heat \/ (Unannounced(s) /\ q.key = Absent)
    /\ TestBegins(s) \/ \A l \in Lanes : ShowsLane(s, q, l)}

\* The frames in flight bring the window to the server's board.
Heading ==
    link.conn => /\ Reaches(View(tv), wire, Unannounced(srv), Agreeing(srv))
                 /\ Keeps(View(tv), wire, Unannounced(srv), Sound(srv))
Away == ~link.conn => wire = <<>> /\ View(tv) \in Sound(srv)

\* The frames in flight leave no lane swimming that does not swim at the server.
Quiet(s) == {q \in Views : \A l \in Lanes : q.run[l] => s.lanes[l].run}
Resting == link.conn => Reaches(View(tv), wire, TRUE, Quiet(srv)) /\ Stands(View(tv), wire)

KioskInv == /\ Typed /\ Painted(tv) /\ BoardKept(srv) /\ LayoutKept /\ SplashTold /\ ResetHeard
            /\ Heading /\ Away /\ Resting

\* The cases the code does not prevent (README, "Cases") left out.
Undisturbed == ~SavesInUse /\ ~RestartsMidRace /\ ~TestsUnheard

LEMMA ViewTyped ==
  ASSUME NEW t \in Windows  PROVE View(t) \in Views
BY DEF View, Views, Windows, Rows

LEMMA LaneTyped ==
  ASSUME NEW s \in Servers, NEW l \in Lanes
  PROVE  Of(s, l) \in Swims /\ s.lanes[l] \in Swims
<1>1. DOMAIN s.board \subseteq Lanes /\ s.board \in [DOMAIN s.board -> Swims]
  BY BoardFacts DEF Servers
<1>2. Blank \in Swims
  BY DEF Blank, Swims
<1> QED BY <1>1, <1>2 DEF Of, Servers

LEMMA IdleFacts ==
  ASSUME NEW s \in Servers, BoardKept(s)
  PROVE  /\ Unannounced(s) => ~TestBegins(s) /\ s.testing = FALSE
         /\ ~TestBegins(s) /\ s.heat = 0 => \A l \in Lanes : Of(s, l) = Blank
BY DEF Unannounced, TestBegins, Servers, BoardKept

\* Views that show every lane of the server are sound.
LEMMA AgreeingSound ==
  ASSUME NEW s \in Servers, BoardKept(s), ~TestBegins(s),
         NEW q \in Views, q.badge = s.testing,
         q.key = s.heat \/ (Unannounced(s) /\ q.key = Absent),
         \A l \in Lanes : ShowsLane(s, q, l)
  PROVE  q \in Agreeing(s)
<1>1. ASSUME NEW l \in Lanes, Of(s, l) = Blank
      PROVE  ~q.run[l] /\ q.snap[l] = NoMark
  BY <1>1 DEF ShowsLane, Blank, NoMark, Views, Marks
<1>2. ASSUME NEW l \in Lanes \ DOMAIN s.board
      PROVE  ~q.run[l] /\ q.snap[l] = NoMark
  BY <1>1, <1>2 DEF Of
<1>3. ASSUME ~s.testing, q.key = 0, NEW l \in Lanes  PROVE q.snap[l] = NoMark
  <2>1. s.heat = 0
    BY <1>3 DEF Absent
  <2> QED BY <2>1, <1>1, IdleFacts
<1>4. q \in Sound(s)
  BY <1>2, <1>3 DEF Sound
<1> QED BY <1>4 DEF Agreeing

LEMMA AgreeingClosed ==
  ASSUME NEW s \in Servers, BoardKept(s), NEW q \in Agreeing(s), NEW r \in Views,
         Becomes(q, r, Unannounced(s))
  PROVE  r \in Agreeing(s)
<1>1. CASE r = q
  BY <1>1
<1>2. CASE Unannounced(s) /\ Rebuilds(q, r)
  <2>1. ~TestBegins(s) /\ s.testing = FALSE
    BY <1>2, IdleFacts
  <2>2. \A l \in Lanes : Of(s, l) = Blank
    BY <1>2, <2>1, IdleFacts DEF Unannounced
  <2>3. \A l \in Lanes : ShowsLane(s, r, l)
    <3> SUFFICES ASSUME NEW l \in Lanes  PROVE ShowsLane(s, r, l)
      OBVIOUS
    <3>1. ShowsLane(s, q, l) /\ Of(s, l) = Blank
      BY <2>1, <2>2 DEF Agreeing
    <3>2. r.snap = q.snap /\ r.run[l] = FALSE
      BY <1>2 DEF Rebuilds, Still, Views
    <3>3. /\ Of(s, l).run = FALSE /\ Of(s, l).place = 0 /\ Of(s, l).time = 0
      BY <3>1 DEF Blank
    <3>4. q.snap[l].place = 0 /\ q.snap[l].time = 0
      BY <3>1, <3>3 DEF ShowsLane
    <3> QED BY <3>2, <3>3, <3>4 DEF ShowsLane
  <2>4. r.badge = s.testing
    BY <1>2, <2>1 DEF Rebuilds, Views
  <2> QED BY <1>2, <2>1, <2>3, <2>4, AgreeingSound DEF Rebuilds
<1> QED BY <1>1, <1>2 DEF Becomes

\* The server goes on as it was for the board.
Alike(s, r) == r.heat = s.heat /\ r.board = s.board /\ r.testing = s.testing
LEMMA AgreeingAlike ==
  ASSUME NEW s, NEW r, Alike(s, r)
  PROVE  Agreeing(r) = Agreeing(s) /\ Sound(r) = Sound(s) /\ Unannounced(r) = Unannounced(s)
BY DEF Alike, Agreeing, Sound, Unannounced, TestBegins, ShowsLane, Of

-----------------------------------------------------------------------------
(* What each frame makes of a view of the server's board.                  *)

LEMMA ViewsEqual ==
  ASSUME NEW p \in Views, NEW q \in Views, p.key = q.key, p.badge = q.badge,
         \A l \in Lanes : p.run[l] = q.run[l] /\ p.snap[l] = q.snap[l]
  PROVE  p = q
<1>1. p.run = q.run
  BY DEF Views
<1>2. p.snap = q.snap
  BY DEF Views
<1> QED BY <1>1, <1>2 DEF Views

LEMMA FrameTyped ==
  /\ \A k \in Kinds : Event(k) \in Sent
  /\ \A h \in Heats \cup {0} : \A b \in Boards : Update(h, b) \in Sent /\ Update(Absent, b) \in Sent
  /\ NoLanes \in Boards /\ DOMAIN NoLanes = {}
  /\ [l \in Lanes |-> Blank] \in Boards
<1>1. NoLanes \in Boards /\ DOMAIN NoLanes = {}
  <2>1. DOMAIN NoLanes = {} /\ NoLanes \in [{} -> Swims]
    BY DEF NoLanes
  <2> QED BY <2>1 DEF Boards
<1>2. [l \in Lanes |-> Blank] \in Boards
  <2>1. [l \in Lanes |-> Blank] \in [Lanes -> Swims]
    BY DEF Blank, Swims
  <2> QED BY <2>1 DEF Boards
<1>3. Heats \subseteq Int
  BY KioskAssumption
<1>4. -1 \in Int /\ 0 \in Int /\ "update_scoreboard" \in Kinds
  BY DEF Kinds
<1>5. \A k \in Kinds : Event(k) \in Sent
  BY <1>1, <1>4 DEF Event, Sent, Absent
<1>6. \A h \in Heats \cup {0} : \A b \in Boards : Update(h, b) \in Sent /\ Update(Absent, b) \in Sent
  BY <1>3, <1>4 DEF Update, Sent, Absent
<1> QED BY <1>1, <1>2, <1>5, <1>6

\* A frame that is not about the board.
LEMMA SideFrame ==
  ASSUME NEW s \in Servers, BoardKept(s), NEW f,
         f.kind \in {"overlay", "no_overlay", "columns", "reload", "update"},
         NEW p \in Agreeing(s), NEW q \in Views, Steps(p, f, q, Unannounced(s))
  PROVE  q \in Agreeing(s)
BY AgreeingClosed DEF Steps, Leads

LEMMA ClockFrame ==
  ASSUME NEW s \in Servers, BoardKept(s), NEW f, f = Event("running_time"),
         NEW p \in Agreeing(s), NEW q \in Views, Steps(p, f, q, Unannounced(s))
  PROVE  q \in Agreeing(s)
<1>1. PICK m \in Views : Leads(p, f, m) /\ Becomes(m, q, Unannounced(s))
  BY DEF Steps
<1>2. f.kind = "running_time" /\ f.heat = Absent /\ DOMAIN f.lanes = {}
  BY FrameTyped DEF Event
<1>3. Updates(p, f, m)
  BY <1>1, <1>2 DEF Leads
<1>4. p \in Views
  BY DEF Agreeing, Sound
<1>5. m = p
  <2>1. ~Turns(p, f)
    BY <1>2 DEF Turns
  <2>2. \A l \in Lanes : m.run[l] = p.run[l] /\ m.snap[l] = p.snap[l]
    BY <1>2, <1>3, <2>1 DEF Updates
  <2> QED BY <1>2, <1>3, <1>4, <2>2, ViewsEqual DEF Updates
<1> QED BY <1>1, <1>5, AgreeingClosed

LEMMA FinishFrame ==
  ASSUME NEW s \in Servers, BoardKept(s), ~TestBegins(s), \A l \in Lanes : ~Of(s, l).run,
         NEW f, f = Event("race_finished"),
         NEW p \in Agreeing(s), NEW q \in Views, Steps(p, f, q, Unannounced(s))
  PROVE  q \in Agreeing(s)
<1>1. PICK m \in Views : Leads(p, f, m) /\ Becomes(m, q, Unannounced(s))
  BY DEF Steps
<1>2. Still(m) /\ m.snap = p.snap /\ m.key = p.key /\ m.badge = p.badge
  BY <1>1 DEF Leads, Event
<1>3. \A l \in Lanes : ShowsLane(s, m, l)
  <2> SUFFICES ASSUME NEW l \in Lanes  PROVE ShowsLane(s, m, l)
    OBVIOUS
  <2>1. Of(s, l).run = FALSE /\ m.run[l] = FALSE
    BY <1>2, LaneTyped DEF Swims, Still, Views
  <2> QED BY <1>2, <2>1 DEF ShowsLane, Agreeing
<1>4. m \in Agreeing(s)
  BY <1>2, <1>3, AgreeingSound DEF Agreeing
<1> QED BY <1>1, <1>4, AgreeingClosed

\* The names of the heat the server has.
LEMMA NamesFrame ==
  ASSUME NEW s \in Servers, BoardKept(s), NEW f, f = Update(s.heat, NoLanes),
         NEW p \in Agreeing(s), NEW q \in Views, Steps(p, f, q, Unannounced(s))
  PROVE  q \in Agreeing(s)
<1>1. PICK m \in Views : Leads(p, f, m) /\ Becomes(m, q, Unannounced(s))
  BY DEF Steps
<1>2. f.kind = "update_scoreboard" /\ f.heat = s.heat /\ DOMAIN f.lanes = {}
  BY FrameTyped DEF Update
<1>3. s.heat # Absent
  BY KioskAssumption DEF Servers, Absent
<1>4. Updates(p, f, m) /\ p \in Views /\ m.badge = p.badge /\ m.key = s.heat
  BY <1>1, <1>2, <1>3 DEF Leads, Updates, Agreeing, Sound
<1>5. CASE p.key = s.heat
  <2>1. ~Turns(p, f)
    BY <1>2, <1>5 DEF Turns
  <2>2. \A l \in Lanes : m.run[l] = p.run[l] /\ m.snap[l] = p.snap[l]
    BY <1>2, <1>4, <2>1 DEF Updates
  <2>3. m = p
    BY <1>4, <1>5, <2>2, ViewsEqual
  <2> QED BY <1>1, <2>3, AgreeingClosed
<1>6. CASE Unannounced(s) /\ p.key = Absent
  <2>1. Turns(p, f) /\ ~TestBegins(s)
    BY <1>2, <1>3, <1>6, IdleFacts DEF Turns
  <2>2. ASSUME NEW l \in Lanes  PROVE ShowsLane(s, m, l)
    <3>1. Of(s, l) = Blank /\ ShowsLane(s, p, l)
      BY <1>6, <2>1, IdleFacts DEF Agreeing, Unannounced
    <3>2. m.run[l] = p.run[l] /\ m.snap[l] = NoMark
      BY <1>2, <1>4, <1>6, <2>1 DEF Updates
    <3> QED BY <3>1, <3>2 DEF ShowsLane, Blank, NoMark
  <2>3. m \in Agreeing(s)
    BY <1>4, <2>1, <2>2, AgreeingSound DEF Agreeing
  <2> QED BY <1>1, <2>3, AgreeingClosed
<1> QED BY <1>5, <1>6 DEF Agreeing

\* What the server publishes of some lanes, with a heat on the board.
LEMMA LanesFrame ==
  ASSUME NEW s \in Servers, NEW r \in Servers, BoardKept(s), BoardKept(r),
         s.heat # 0, r.heat = s.heat, r.testing = s.testing,
         NEW lanes \in Boards, r.board = With(lanes, s.board),
         NEW f, f = Update(Absent, lanes),
         NEW p \in Agreeing(s), NEW q \in Views, Steps(p, f, q, Unannounced(r))
  PROVE  q \in Agreeing(r)
<1>1. ~Unannounced(r) /\ ~TestBegins(s) /\ ~TestBegins(r)
  BY DEF Unannounced, TestBegins
<1>2. Leads(p, f, q) /\ q \in Views
  BY <1>1 DEF Steps, Becomes
<1>3. f.kind = "update_scoreboard" /\ f.heat = Absent /\ f.lanes = lanes
  BY DEF Update
<1>4. Updates(p, f, q) /\ ~Turns(p, f)
  BY <1>2, <1>3 DEF Leads, Turns
<1>5. q.badge = r.testing /\ q.key = r.heat
  BY <1>1, <1>3, <1>4 DEF Updates, Agreeing, Unannounced
<1>6. ASSUME NEW l \in Lanes  PROVE ShowsLane(r, q, l)
  <2>1. CASE l \in DOMAIN lanes
    <3>1. Of(r, l) = lanes[l]
      BY <2>1 DEF Of, With
    <3>2. /\ q.run[l] = lanes[l].run /\ q.snap[l].place = lanes[l].place
          /\ lanes[l].run \/ q.snap[l].time = lanes[l].time
      <4>1. q.snap[l] = [time |-> IF lanes[l].run THEN p.snap[l].time ELSE lanes[l].time,
                         place |-> lanes[l].place]
        BY <2>1, <1>3, <1>4 DEF Updates
      <4>2. q.run[l] = lanes[l].run
        BY <2>1, <1>3, <1>4 DEF Updates
      <4> QED BY <4>1, <4>2
    <3> QED BY <3>1, <3>2 DEF ShowsLane
  <2>2. CASE l \notin DOMAIN lanes
    <3>1. Of(r, l) = Of(s, l)
      BY <2>2 DEF Of, With
    <3>2. q.run[l] = p.run[l] /\ q.snap[l] = p.snap[l]
      BY <2>2, <1>3, <1>4 DEF Updates
    <3>3. ShowsLane(s, p, l)
      BY <1>1 DEF Agreeing
    <3> QED BY <3>1, <3>2, <3>3 DEF ShowsLane
  <2> QED BY <2>1, <2>2
<1> QED BY <1>1, <1>2, <1>5, <1>6, AgreeingSound

\* A new heat: every lane is in its frame.
LEMMA HeatFrame ==
  ASSUME NEW r \in Servers, BoardKept(r), r.heat # 0, r.board = [l \in Lanes |-> Blank],
         NEW f, f = Update(r.heat, r.board),
         NEW p \in Views, p.badge = r.testing, NEW q \in Views, Steps(p, f, q, Unannounced(r))
  PROVE  q \in Agreeing(r)
<1>1. ~Unannounced(r) /\ ~TestBegins(r)
  BY DEF Unannounced, TestBegins
<1>2. Leads(p, f, q) /\ q \in Views
  BY <1>1 DEF Steps, Becomes
<1>3. f.kind = "update_scoreboard" /\ f.heat = r.heat /\ f.lanes = r.board /\ DOMAIN f.lanes = Lanes
  BY DEF Update
<1>4. r.heat # Absent
  BY KioskAssumption DEF Servers, Absent
<1>5. Updates(p, f, q) /\ q.badge = r.testing /\ q.key = r.heat
  BY <1>2, <1>3, <1>4 DEF Leads, Updates
<1>6. ASSUME NEW l \in Lanes  PROVE ShowsLane(r, q, l)
  <2>1. Of(r, l) = Blank /\ f.lanes[l] = Blank /\ Blank.run = FALSE
    BY <1>3 DEF Of, Blank
  <2>2. q.snap[l] = [time |-> Blank.time, place |-> Blank.place]
    BY <1>3, <1>5, <2>1 DEF Updates
  <2>3. q.run[l] = FALSE
    BY <1>2, <1>3, <1>5, <2>1 DEF Updates, Views
  <2>4. q.snap[l].place = Blank.place /\ q.snap[l].time = Blank.time
    BY <2>2
  <2> QED BY <2>1, <2>3, <2>4 DEF ShowsLane
<1> QED BY <1>1, <1>2, <1>5, <1>6, AgreeingSound

-----------------------------------------------------------------------------
(* Frames sent.                                                            *)

LEMMA SaidAppended ==
  ASSUME NEW w \in Seq(Sent), NEW f \in Sent, NEW splash, NEW on
  PROVE  /\ f.kind \notin Splashes /\ SplashSaid(w, splash, on) => SplashSaid(Append(w, f), splash, on)
         /\ f.kind \in Splashes => SplashSaid(Append(w, f), splash, f.kind = "overlay")
<1> DEFINE v == Append(w, f)
<1>1. /\ Len(v) = Len(w) + 1 /\ Len(w) \in Nat
      /\ v[Len(v)] = f /\ \A i \in 1..Len(w) : v[i] = w[i]
  OBVIOUS
<1> HIDE DEF v
<1>2. Len(v) \in 1..Len(v)
  BY <1>1
<1>3. ASSUME f.kind \notin Splashes, SplashSaid(w, splash, on)  PROVE SplashSaid(v, splash, on)
  <2>1. ASSUME NEW i \in 1..Len(v), v[i].kind \in Splashes,
               \A j \in (i + 1)..Len(v) : v[j].kind \notin Splashes
        PROVE  (v[i].kind = "overlay") = on
    <3>1. i \in 1..Len(w)
      BY <2>1, <1>1, <1>3
    <3>2. \A j \in (i + 1)..Len(w) : w[j].kind \notin Splashes
      BY <2>1, <1>1
    <3> QED BY <3>1, <3>2, <2>1, <1>1, <1>3 DEF SplashSaid
  <2>2. ASSUME \A i \in 1..Len(v) : v[i].kind \notin Splashes  PROVE splash = on
    BY <2>2, <1>1, <1>3 DEF SplashSaid
  <2> QED BY <2>1, <2>2 DEF SplashSaid
<1>4. ASSUME f.kind \in Splashes  PROVE SplashSaid(v, splash, f.kind = "overlay")
  <2>1. ASSUME NEW i \in 1..Len(v), \A j \in (i + 1)..Len(v) : v[j].kind \notin Splashes
        PROVE  v[i] = f
    BY <2>1, <1>1, <1>2, <1>4
  <2> QED BY <2>1, <1>1, <1>2, <1>4 DEF SplashSaid
<1> QED BY <1>3, <1>4 DEF v

LEMMA SaidTail ==
  ASSUME NEW w \in Seq(Sent), w # <<>>, NEW splash, NEW on, SplashSaid(w, splash, on)
  PROVE  /\ Head(w).kind \notin Splashes => SplashSaid(Tail(w), splash, on)
         /\ Head(w).kind \in Splashes => SplashSaid(Tail(w), Head(w).kind = "overlay", on)
<1> DEFINE v == Tail(w)
<1>1. /\ Len(w) \in Nat /\ Len(w) = Len(v) + 1 /\ Len(v) \in Nat
      /\ Head(w) = w[1] /\ \A i \in 1..Len(v) : v[i] = w[i + 1]
  OBVIOUS
<1> HIDE DEF v
<1>2. ASSUME NEW i \in 1..Len(v), v[i].kind \in Splashes,
             \A j \in (i + 1)..Len(v) : v[j].kind \notin Splashes
      PROVE  (v[i].kind = "overlay") = on
  <2>1. i + 1 \in 1..Len(w) /\ w[i + 1] = v[i]
    BY <1>1
  <2>2. ASSUME NEW j \in (i + 2)..Len(w)  PROVE w[j].kind \notin Splashes
    <3>1. j - 1 \in (i + 1)..Len(v) /\ j - 1 \in 1..Len(v) /\ (j - 1) + 1 = j
      BY <1>1
    <3> QED BY <3>1, <1>1, <1>2
  <2> QED BY <2>1, <2>2, <1>2 DEF SplashSaid
<1>3. ASSUME \A i \in 1..Len(v) : v[i].kind \notin Splashes
      PROVE  \A i \in 2..Len(w) : w[i].kind \notin Splashes
  <2> SUFFICES ASSUME NEW i \in 2..Len(w)  PROVE w[i].kind \notin Splashes
    OBVIOUS
  <2>1. i - 1 \in 1..Len(v) /\ (i - 1) + 1 = i
    BY <1>1
  <2> QED BY <2>1, <1>1, <1>3
<1>4. 1 \in 1..Len(w) /\ \A i \in 1..Len(w) : i = 1 \/ i \in 2..Len(w)
  BY <1>1
<1>5. CASE Head(w).kind \notin Splashes
  BY <1>1, <1>2, <1>3, <1>4, <1>5 DEF SplashSaid, v
<1>6. CASE Head(w).kind \in Splashes
  <2>1. (\A i \in 1..Len(v) : v[i].kind \notin Splashes) => (Head(w).kind = "overlay") = on
    BY <1>1, <1>3, <1>4, <1>6 DEF SplashSaid
  <2> QED BY <2>1, <1>2, <1>6 DEF SplashSaid, v
<1> QED BY <1>5, <1>6

\* The frame f, sent as the server goes from s to r, says of each lane that swims
\* at the window no more than r.
Tells(s, f, r) ==
    /\ \A l \in Lanes :
          IF f.kind \in {"update_scoreboard", "running_time"} /\ l \in DOMAIN f.lanes
          THEN f.lanes[l].run => r.lanes[l].run
          ELSE s.lanes[l].run => r.lanes[l].run
    /\ f.kind = "race_finished" => \A l \in Lanes : ~s.lanes[l].run

LEMMA QuietAppended ==
  ASSUME NEW s, NEW r, NEW f \in Sent, Tells(s, f, r), NEW v, NEW w \in Seq(Sent),
         Reaches(v, w, TRUE, Quiet(s)), Stands(v, w)
  PROVE  Reaches(v, Append(w, f), TRUE, Quiet(r)) /\ Stands(v, Append(w, f))
<1>1. ASSUME NEW p \in Quiet(s), NEW q \in Views, Steps(p, f, q, TRUE)  PROVE q \in Quiet(r)
  <2>1. PICK m \in Views : Leads(p, f, m) /\ Becomes(m, q, TRUE)
    BY <1>1 DEF Steps
  <2> SUFFICES ASSUME NEW l \in Lanes, q.run[l]  PROVE r.lanes[l].run
    BY DEF Quiet
  <2>2. m.run[l]
    BY <2>1 DEF Becomes, Rebuilds, Still
  <2>3. CASE f.kind \in {"update_scoreboard", "running_time"}
    <3>1. l \in DOMAIN f.lanes => f.lanes[l].run
      BY <2>1, <2>2, <2>3 DEF Leads, Updates
    <3>2. l \notin DOMAIN f.lanes => p.run[l]
      BY <2>1, <2>2, <2>3 DEF Leads, Updates
    <3> QED BY <3>1, <3>2, <2>3 DEF Tells, Quiet
  <2>4. CASE f.kind \in {"race_finished", "reset", "test_mode"}
    BY <2>1, <2>2, <2>4 DEF Leads, Still, Cleared
  <2>5. CASE f.kind \notin {"update_scoreboard", "running_time", "race_finished", "reset", "test_mode"}
    <3>1. f.kind \in {"no_test_mode", "overlay", "no_overlay", "columns", "reload", "update"}
      BY <2>5 DEF Sent, Kinds
    <3>2. p.run[l]
      BY <2>1, <2>2, <3>1 DEF Leads
    <3> QED BY <3>2, <2>5 DEF Tells, Quiet
  <2> QED BY <2>3, <2>4, <2>5
<1>2. f.kind = "race_finished" => \A p \in Quiet(s) : Still(p)
  BY DEF Tells, Quiet, Still
<1> QED BY <1>1, <1>2, ReachesAppended, StandsAppended

\* One frame is sent, that agrees with the server as it then is.
LEMMA FrameSent ==
  ASSUME KioskInv, srv' \in Servers, BoardKept(srv)', LayoutKept',
         tv' = tv, link' = link, cfg' = cfg,
         NEW f \in Sent, Send(<<f>>), f.kind # "reset",
         Tells(srv, f, srv'),
         IF f.kind \in Splashes THEN srv.overlay' = (f.kind = "overlay")
         ELSE srv.overlay' = srv.overlay,
         Unannounced(srv') => Unannounced(srv), Sound(srv) \subseteq Sound(srv'),
         \A p \in Agreeing(srv) : \A q \in Views :
             Steps(p, f, q, Unannounced(srv')) => q \in Agreeing(srv')
  PROVE  KioskInv'
<1> USE DEF KioskInv
<1>1. Append(wire, f) \in Seq(Sent) /\ wire \o <<f>> = Append(wire, f)
  BY DEF Typed
<1>2. wire' = IF link.conn THEN Append(wire, f) ELSE wire
  BY <1>1 DEF Send
<1>3. Typed' /\ Painted(tv)'
  BY <1>1, <1>2 DEF Typed, Painted, Racing, Matches
<1>4. SplashTold'
  BY <1>2, SaidAppended DEF SplashTold, Typed
<1>5. ResetHeard'
  BY <1>2 DEF ResetHeard, Typed
<1>6. ASSUME link.conn
      PROVE  /\ Reaches(View(tv), Append(wire, f), Unannounced(srv'), Agreeing(srv'))
             /\ Keeps(View(tv), Append(wire, f), Unannounced(srv'), Sound(srv'))
  <2>1. /\ Reaches(View(tv), wire, Unannounced(srv'), Agreeing(srv))
        /\ Keeps(View(tv), wire, Unannounced(srv'), Sound(srv'))
    BY <1>6, ReachesMore DEF Heading
  <2>2. Reaches(View(tv), Append(wire, f), Unannounced(srv'), Agreeing(srv'))
    BY <2>1, ReachesAppended DEF Typed
  <2>3. Agreeing(srv') \subseteq Sound(srv')
    BY DEF Agreeing
  <2>4. Reaches(View(tv), Append(wire, f), Unannounced(srv'), Sound(srv'))
    BY <2>2, <2>3, ReachesMore
  <2> QED BY <2>1, <2>2, <2>4, KeepsAppended DEF Typed
<1>7. View(tv)' = View(tv) /\ Sound(srv)' = Sound(srv') /\ Agreeing(srv)' = Agreeing(srv')
      /\ Unannounced(srv)' = Unannounced(srv')
  BY DEF View
<1>8. Heading' /\ Away'
  BY <1>2, <1>6, <1>7 DEF Heading, Away
<1>9. Resting'
  <2>1. Quiet(srv)' = Quiet(srv')
    BY DEF Quiet
  <2>2. link.conn => /\ Reaches(View(tv), Append(wire, f), TRUE, Quiet(srv'))
                     /\ Stands(View(tv), Append(wire, f))
    BY QuietAppended DEF Typed, Resting
  <2> QED BY <2>1, <2>2, <1>2, <1>7 DEF Resting
<1> QED BY <1>3, <1>4, <1>5, <1>8, <1>9

\* Two frames are sent, the views between them in T.
LEMMA FramesSent ==
  ASSUME KioskInv, srv' \in Servers, BoardKept(srv)', LayoutKept',
         tv' = tv, link' = link, cfg' = cfg,
         NEW f \in Sent, NEW g \in Sent, Send(<<f, g>>),
         f.kind # "reset", g.kind # "reset", g.kind \notin Splashes,
         Tells(srv, f, srv), Tells(srv, g, srv'),
         IF f.kind \in Splashes THEN srv.overlay' = (f.kind = "overlay")
         ELSE srv.overlay' = srv.overlay,
         Unannounced(srv') => Unannounced(srv), Sound(srv) \subseteq Sound(srv'),
         NEW T, T \subseteq Sound(srv'),
         \A p \in Agreeing(srv) : \A q \in Views : Steps(p, f, q, Unannounced(srv')) => q \in T,
         \A p \in T : \A q \in Views :
             Steps(p, g, q, Unannounced(srv')) => q \in Agreeing(srv')
  PROVE  KioskInv'
<1> USE DEF KioskInv
<1> DEFINE w == Append(wire, f)
<1>1. w \in Seq(Sent) /\ Append(w, g) \in Seq(Sent) /\ wire \o <<f, g>> = Append(w, g)
  BY DEF Typed
<1>2. wire' = IF link.conn THEN Append(w, g) ELSE wire
  BY <1>1 DEF Send
<1>3. Typed' /\ Painted(tv)'
  BY <1>1, <1>2 DEF Typed, Painted, Racing, Matches
<1>4. SplashTold'
  <2>1. link.conn => SplashSaid(w, tv.splash, srv.overlay')
    BY SaidAppended DEF SplashTold, Typed
  <2>2. link.conn => SplashSaid(Append(w, g), tv.splash, srv.overlay')
    BY <2>1, <1>1, SaidAppended
  <2> QED BY <2>2, <1>2 DEF SplashTold
<1>5. ResetHeard'
  BY <1>2 DEF ResetHeard, Typed
<1>6. ASSUME link.conn
      PROVE  /\ Reaches(View(tv), Append(w, g), Unannounced(srv'), Agreeing(srv'))
             /\ Keeps(View(tv), Append(w, g), Unannounced(srv'), Sound(srv'))
  <2>1. /\ Reaches(View(tv), wire, Unannounced(srv'), Agreeing(srv))
        /\ Keeps(View(tv), wire, Unannounced(srv'), Sound(srv'))
    BY <1>6, ReachesMore DEF Heading
  <2>2. Reaches(View(tv), w, Unannounced(srv'), T)
    BY <2>1, ReachesAppended DEF Typed
  <2>3. Reaches(View(tv), w, Unannounced(srv'), Sound(srv'))
    BY <2>2, ReachesMore
  <2>4. Keeps(View(tv), w, Unannounced(srv'), Sound(srv'))
    BY <2>1, <2>3, KeepsAppended DEF Typed
  <2> HIDE DEF w
  <2>6. Reaches(View(tv), Append(w, g), Unannounced(srv'), Agreeing(srv'))
    BY <2>2, <1>1, ReachesAppended
  <2>7. Agreeing(srv') \subseteq Sound(srv')
    BY DEF Agreeing
  <2>8. Reaches(View(tv), Append(w, g), Unannounced(srv'), Sound(srv'))
    BY <2>6, <2>7, ReachesMore
  <2> QED BY <2>4, <2>6, <2>8, <1>1, KeepsAppended
<1>7. View(tv)' = View(tv) /\ Sound(srv)' = Sound(srv') /\ Agreeing(srv)' = Agreeing(srv')
      /\ Unannounced(srv)' = Unannounced(srv')
  BY DEF View
<1>8. Heading' /\ Away'
  BY <1>2, <1>6, <1>7 DEF Heading, Away
<1>9. Resting'
  <2>1. Quiet(srv)' = Quiet(srv')
    BY DEF Quiet
  <2>2. link.conn => Reaches(View(tv), w, TRUE, Quiet(srv)) /\ Stands(View(tv), w)
    BY QuietAppended DEF Typed, Resting
  <2> HIDE DEF w
  <2>3. link.conn => /\ Reaches(View(tv), Append(w, g), TRUE, Quiet(srv'))
                     /\ Stands(View(tv), Append(w, g))
    BY <1>1, <2>2, QuietAppended
  <2> QED BY <2>1, <2>3, <1>2, <1>7 DEF Resting
<1> QED BY <1>3, <1>4, <1>5, <1>8, <1>9

-----------------------------------------------------------------------------
(* The steps of the server.                                                *)

\* Nothing that the frame in question is about changes at the server.
LEMMA AlikeSent ==
  ASSUME KioskInv, srv' \in Servers, Alike(srv, srv'), srv.lanes' = srv.lanes, LayoutKept',
         tv' = tv, link' = link, cfg' = cfg,
         NEW f \in Sent, Send(<<f>>), f.kind # "reset",
         Tells(srv, f, srv),
         IF f.kind \in Splashes THEN srv.overlay' = (f.kind = "overlay")
         ELSE srv.overlay' = srv.overlay,
         \A p \in Agreeing(srv) : \A q \in Views :
             Steps(p, f, q, Unannounced(srv)) => q \in Agreeing(srv)
  PROVE  KioskInv'
<1>1. Agreeing(srv') = Agreeing(srv) /\ Sound(srv') = Sound(srv) /\ Unannounced(srv') = Unannounced(srv)
  BY AgreeingAlike
<1>2. BoardKept(srv)'
  BY DEF KioskInv, BoardKept, Alike, TestBegins, Of
<1>3. Tells(srv, f, srv')
  BY DEF Tells
<1> QED BY <1>1, <1>2, <1>3, FrameSent

LEMMA NewHeatKept ==
  ASSUME KioskInv, Undisturbed, NEW h \in Heats, NewHeat(h)  PROVE KioskInv'
<1> DEFINE blank == [l \in Lanes |-> Blank]
           f == Update(h, blank)
<1>1. blank \in Boards /\ f \in Sent /\ h # 0 /\ DOMAIN blank = Lanes /\ blank \in [Lanes -> Swims]
  BY FrameTyped, KioskAssumption DEF Blank, Swims
<1>2. /\ srv' \in Servers /\ srv.heat' = h /\ srv.board' = blank /\ srv.lanes' = blank
      /\ srv.testing' = srv.testing /\ srv.overlay' = srv.overlay /\ srv.layout' = srv.layout
  BY <1>1 DEF NewHeat, KioskInv, Typed, Servers
<1> HIDE DEF blank
<1>3. BoardKept(srv)'
  BY <1>1, <1>2 DEF BoardKept, Of, blank
<1>4. LayoutKept'
  BY <1>2 DEF NewHeat, LayoutTaken, Undisturbed, KioskInv, LayoutKept
<1>5. ~Unannounced(srv') /\ Sound(srv) \subseteq Sound(srv')
  BY <1>1, <1>2 DEF Unannounced, Sound
<1>6. ASSUME NEW p \in Agreeing(srv), NEW q \in Views, Steps(p, f, q, Unannounced(srv'))
      PROVE  q \in Agreeing(srv')
  <2>1. p \in Views /\ p.badge = srv.testing'
    BY <1>2 DEF Agreeing, Sound
  <2>2. BoardKept(srv') /\ srv.board' = [l \in Lanes |-> Blank]
    BY <1>2, <1>3 DEF blank
  <2> QED BY <2>1, <2>2, <1>1, <1>2, <1>6, HeatFrame
<1>7. f.kind = "update_scoreboard" /\ Send(<<f>>)
  BY DEF NewHeat, Update, blank
<1>8. Tells(srv, f, srv')
  <2>1. f.lanes = blank
    BY DEF Update
  <2> HIDE DEF f
  <2> QED BY <2>1, <1>1, <1>7 DEF Tells, blank, Blank
<1> HIDE DEF f
<1> QED BY <1>1, <1>2, <1>3, <1>4, <1>5, <1>6, <1>7, <1>8, FrameSent DEF NewHeat, Splashes

LEMMA WithTyped ==
  ASSUME NEW s \in Servers, NEW lanes \in Boards
  PROVE  With(lanes, s.board) \in Boards /\ With(lanes, s.lanes) \in [Lanes -> Swims]
<1>1. DOMAIN lanes \subseteq Lanes /\ lanes \in [DOMAIN lanes -> Swims]
  BY BoardFacts
<1>2. DOMAIN s.board \subseteq Lanes /\ s.board \in [DOMAIN s.board -> Swims]
  BY BoardFacts DEF Servers
<1>3. DOMAIN With(lanes, s.board) \subseteq Lanes
      /\ With(lanes, s.board) \in [DOMAIN With(lanes, s.board) -> Swims]
  BY <1>1, <1>2 DEF With
<1>4. With(lanes, s.lanes) \in [Lanes -> Swims]
  BY <1>1 DEF With, Servers
<1> QED BY <1>3, <1>4, BoardFacts

\* Lanes published with a heat on the board.
LEMMA PublishKept ==
  ASSUME KioskInv, srv.heat # 0, NEW lanes \in Boards, Publish(lanes),
         UNCHANGED <<link, tv, cfg>>
  PROVE  KioskInv'
<1> DEFINE f == Update(Absent, lanes)
<1>1. DOMAIN lanes \subseteq Lanes /\ lanes \in [DOMAIN lanes -> Swims] /\ f \in Sent
  BY BoardFacts, FrameTyped
<1>2. srv \in Servers
  BY DEF KioskInv, Typed
<1>3. With(lanes, srv.board) \in Boards /\ With(lanes, srv.lanes) \in [Lanes -> Swims]
  BY <1>2, WithTyped
<1>4. /\ srv' \in Servers /\ srv.board' = With(lanes, srv.board)
      /\ srv.lanes' = With(lanes, srv.lanes) /\ srv.heat' = srv.heat
      /\ srv.testing' = srv.testing /\ srv.overlay' = srv.overlay /\ srv.layout' = srv.layout
  BY <1>2, <1>3 DEF Publish, Servers
<1>5. BoardKept(srv)' /\ ~Unannounced(srv') /\ ~TestBegins(srv)
  <2>1. \A l \in Lanes : Of(srv, l) = srv.lanes[l]
    BY DEF KioskInv, BoardKept, TestBegins
  <2>2. \A l \in Lanes : Of(srv', l) = srv.lanes'[l]
    BY <2>1, <1>1, <1>2, <1>4 DEF Of, With, Servers
  <2> QED BY <2>2, <1>4 DEF BoardKept, Unannounced, TestBegins
<1>6. LayoutKept'
  BY <1>4 DEF KioskInv, LayoutKept, Unannounced
<1>7. Sound(srv) \subseteq Sound(srv')
  BY <1>4 DEF Sound, With
<1>8. ASSUME NEW p \in Agreeing(srv), NEW q \in Views, Steps(p, f, q, Unannounced(srv'))
      PROVE  q \in Agreeing(srv')
  <2>1. BoardKept(srv) /\ BoardKept(srv')
    BY <1>5 DEF KioskInv
  <2> QED BY <2>1, <1>2, <1>4, <1>8, LanesFrame
<1>9. f.kind = "update_scoreboard" /\ Send(<<f>>)
  BY DEF Publish, Update
<1>10. Tells(srv, f, srv')
  <2>1. f.lanes = lanes
    BY DEF Update
  <2> HIDE DEF f
  <2> QED BY <2>1, <1>2, <1>4, <1>9 DEF Tells, With, Servers
<1> HIDE DEF f
<1> QED BY <1>1, <1>4, <1>5, <1>6, <1>7, <1>8, <1>9, <1>10, FrameSent DEF Splashes

\* A lane that swims, or has results, is one of a heat.
LEMMA HeatOnBoard ==
  ASSUME KioskInv, NEW l \in Lanes, srv.lanes[l] # Blank
  PROVE  srv.heat # 0
BY DEF KioskInv, BoardKept

LEMMA TouchKept ==
  ASSUME KioskInv, NEW l \in Lanes, Touch(l)  PROVE KioskInv'
<1> DEFINE lanes == [k \in {l} |-> [run |-> FALSE, time |-> 2 * srv.swim - 1, place |-> 0]]
<1>1. srv.heat # 0
  BY HeatOnBoard DEF Touch, Blank
<1>2. lanes \in Boards
  <2>1. DOMAIN lanes = {l} /\ 2 * srv.swim - 1 \in Int
    BY DEF KioskInv, Typed, Servers
  <2>2. lanes \in [{l} -> Swims]
    BY <2>1 DEF Swims
  <2> QED BY <2>1, <2>2, BoardFacts
<1>3. Publish(lanes) /\ UNCHANGED <<link, tv, cfg>>
  BY DEF Touch
<1> QED BY <1>1, <1>2, <1>3, PublishKept

LEMMA FinishKept ==
  ASSUME KioskInv, Undisturbed, NEW l \in Lanes, Finish(l)  PROVE KioskInv'
<1>1. PICK p \in Places \ {0} :
          /\ srv.lanes[l].run \/ srv.lanes[l].place \notin {0, p}
          /\ Publish([k \in {l} |-> [run |-> FALSE, time |-> 2 * srv.swim, place |-> p]])
          /\ UNCHANGED <<link, tv, cfg, upd, left>>
  BY DEF Finish
<1> DEFINE lanes == [k \in {l} |-> [run |-> FALSE, time |-> 2 * srv.swim, place |-> p]]
<1>2. srv.heat # 0
  BY <1>1, HeatOnBoard DEF Blank
<1>3. lanes \in Boards
  <2>1. DOMAIN lanes = {l} /\ 2 * srv.swim \in Int /\ p \in Int
    BY DEF KioskInv, Typed, Servers, Places
  <2>2. lanes \in [{l} -> Swims]
    BY <2>1 DEF Swims
  <2> QED BY <2>1, <2>2, BoardFacts
<1>4. Publish(lanes) /\ UNCHANGED <<link, tv, cfg>>
  BY <1>1
<1> HIDE DEF lanes
<1> QED BY <1>2, <1>3, <1>4, PublishKept

LEMMA BoardResetKept ==
  ASSUME KioskInv, BoardReset  PROVE KioskInv'
<1>1. srv.heat # 0
  BY HeatOnBoard DEF BoardReset
<1>2. Publish([l \in Lanes |-> Blank]) /\ UNCHANGED <<link, tv, cfg>>
  BY DEF BoardReset
<1> QED BY <1>1, <1>2, FrameTyped, PublishKept

\* Lanes that start: the splash goes first.
LEMMA RunsKept ==
  ASSUME KioskInv, srv.heat # 0, NEW lanes \in Boards, srv' \in Servers,
         srv.heat' = srv.heat, srv.testing' = srv.testing, srv.layout' = srv.layout,
         srv.board' = With(lanes, srv.board), srv.lanes' = With(lanes, srv.lanes),
         srv.overlay' = FALSE, Send(Runs(lanes)), UNCHANGED <<link, tv, cfg>>
  PROVE  KioskInv'
<1> DEFINE f == Update(Absent, lanes)
           e == Event("no_overlay")
<1>1. /\ DOMAIN lanes \subseteq Lanes /\ lanes \in [DOMAIN lanes -> Swims]
      /\ f \in Sent /\ f.kind = "update_scoreboard"
      /\ e \in Sent /\ e.kind = "no_overlay"
  <2>1. "no_overlay" \in Kinds
    BY DEF Kinds
  <2>2. f \in Sent /\ e \in Sent
    BY <2>1, FrameTyped
  <2> QED BY <2>2, BoardFacts DEF Update, Event
<1>2. srv \in Servers /\ BoardKept(srv)
  BY DEF KioskInv, Typed
<1>3. BoardKept(srv)' /\ ~Unannounced(srv') /\ ~Unannounced(srv) /\ ~TestBegins(srv)
  <2>1. \A l \in Lanes : Of(srv, l) = srv.lanes[l]
    BY <1>2 DEF BoardKept, TestBegins
  <2>2. \A l \in Lanes : Of(srv', l) = srv.lanes'[l]
    BY <2>1, <1>1, <1>2 DEF Of, With, Servers
  <2> QED BY <2>2 DEF BoardKept, Unannounced, TestBegins
<1>4. LayoutKept'
  BY DEF KioskInv, LayoutKept, Unannounced
<1>5. Sound(srv) \subseteq Sound(srv') /\ Agreeing(srv) \subseteq Sound(srv')
  BY DEF Sound, Agreeing, With
<1>6. ASSUME NEW p \in Agreeing(srv), NEW q \in Views, Steps(p, f, q, Unannounced(srv'))
      PROVE  q \in Agreeing(srv')
  <2>1. BoardKept(srv')
    BY <1>3
  <2> QED BY <2>1, <1>2, <1>6, LanesFrame
<1>7. ASSUME NEW p \in Agreeing(srv), NEW q \in Views, Steps(p, e, q, Unannounced(srv'))
      PROVE  q \in Agreeing(srv)
  <2>1. Unannounced(srv') = Unannounced(srv)
    BY DEF Unannounced
  <2> QED BY <2>1, <1>1, <1>2, <1>7, SideFrame
<1>10. Tells(srv, f, srv') /\ Tells(srv, e, srv)
  <2>1. f.lanes = lanes
    BY DEF Update
  <2> HIDE DEF f, e
  <2> QED BY <2>1, <1>1, <1>2 DEF Tells, With, Servers
<1>8. CASE srv.overlay
  <2>1. Send(<<e, f>>)
    BY <1>8 DEF Runs
  <2> HIDE DEF e, f
  <2> QED BY <2>1, <1>1, <1>3, <1>4, <1>5, <1>6, <1>7, <1>10, FramesSent DEF Splashes
<1>9. CASE ~srv.overlay
  <2>1. Send(<<f>>)
    BY <1>9 DEF Runs
  <2>2. srv.overlay' = srv.overlay
    BY <1>2, <1>9 DEF Servers
  <2> HIDE DEF f
  <2> QED BY <2>1, <2>2, <1>1, <1>3, <1>4, <1>5, <1>6, <1>10, FrameSent DEF Splashes
<1> QED BY <1>8, <1>9

LEMMA SwimSet ==
  ASSUME NEW x \in Swims, NEW run \in BOOLEAN, NEW place \in Int
  PROVE  [x EXCEPT !.run = run, !.place = place] \in Swims
BY DEF Swims

LEMMA StartKept ==
  ASSUME KioskInv, NEW ls \in SUBSET Lanes, Start(ls)  PROVE KioskInv'
<1> DEFINE lanes == [l \in ls |-> [srv.lanes[l] EXCEPT !.run = TRUE, !.place = 0]]
<1>1. lanes \in Boards
  <2>1. DOMAIN lanes = ls
    OBVIOUS
  <2>2. lanes \in [ls -> Swims]
    <3> SUFFICES ASSUME NEW l \in ls
                 PROVE  [srv.lanes[l] EXCEPT !.run = TRUE, !.place = 0] \in Swims
      OBVIOUS
    <3>1. srv.lanes[l] \in Swims /\ TRUE \in BOOLEAN /\ 0 \in Int
      BY DEF KioskInv, Typed, Servers
    <3> QED BY <3>1, SwimSet, Zenon
  <2> QED BY <2>1, <2>2, BoardFacts
<1>2. /\ srv.heat # 0 /\ Send(Runs(lanes)) /\ UNCHANGED <<link, tv, cfg>>
      /\ srv' = [srv EXCEPT !.lanes = With(lanes, @), !.board = With(lanes, @),
                            !.confirmed = FALSE, !.swim = @ + 1, !.overlay = FALSE]
  BY DEF Start
<1> HIDE DEF lanes
<1>3. With(lanes, srv.board) \in Boards /\ With(lanes, srv.lanes) \in [Lanes -> Swims]
  BY <1>1, WithTyped DEF KioskInv, Typed
<1>4. /\ srv' \in Servers /\ srv.board' = With(lanes, srv.board)
      /\ srv.lanes' = With(lanes, srv.lanes) /\ srv.heat' = srv.heat /\ srv.overlay' = FALSE
      /\ srv.testing' = srv.testing /\ srv.layout' = srv.layout
  <2>1. srv \in Servers
    BY DEF KioskInv, Typed
  <2>2. srv.swim + 1 \in Nat
    BY <2>1 DEF Servers
  <2>3. srv' \in Servers
    BY <2>1, <2>2, <1>2, <1>3 DEF Servers
  <2>4. srv.board' = With(lanes, srv.board) /\ srv.lanes' = With(lanes, srv.lanes)
    BY <2>1, <1>2 DEF Servers
  <2>5. /\ srv.heat' = srv.heat /\ srv.overlay' = FALSE
        /\ srv.testing' = srv.testing /\ srv.layout' = srv.layout
    BY <2>1, <1>2 DEF Servers
  <2> QED BY <2>3, <2>4, <2>5
<1> QED BY <1>1, <1>2, <1>4, RunsKept

LEMMA ResumeKept ==
  ASSUME KioskInv, NEW l \in Lanes, Resume(l)  PROVE KioskInv'
<1> DEFINE lanes == [k \in {l} |-> [srv.lanes[l] EXCEPT !.run = TRUE]]
<1>1. lanes \in Boards
  <2>1. DOMAIN lanes = {l}
    OBVIOUS
  <2>2. lanes \in [{l} -> Swims]
    BY DEF KioskInv, Typed, Servers, Swims
  <2> QED BY <2>1, <2>2, BoardFacts
<1>2. /\ Send(Runs(lanes)) /\ UNCHANGED <<link, tv, cfg>>
      /\ srv' = [srv EXCEPT !.lanes = With(lanes, @), !.board = With(lanes, @), !.overlay = FALSE]
  BY DEF Resume
<1>3. srv.heat # 0
  <2>1. 2 * srv.swim - 1 # 0 /\ srv.lanes[l].time # 0
    BY DEF Resume, KioskInv, Typed, Servers
  <2> QED BY <2>1, HeatOnBoard DEF Blank
<1> HIDE DEF lanes
<1>4. With(lanes, srv.board) \in Boards /\ With(lanes, srv.lanes) \in [Lanes -> Swims]
  BY <1>1, WithTyped DEF KioskInv, Typed
<1>5. /\ srv' \in Servers /\ srv.board' = With(lanes, srv.board)
      /\ srv.lanes' = With(lanes, srv.lanes) /\ srv.heat' = srv.heat /\ srv.overlay' = FALSE
      /\ srv.testing' = srv.testing /\ srv.layout' = srv.layout
  BY <1>2, <1>4 DEF Servers, KioskInv, Typed
<1> QED BY <1>1, <1>2, <1>3, <1>5, RunsKept

LEMMA RunningTimeKept ==
  ASSUME KioskInv, RunningTime  PROVE KioskInv'
<1> DEFINE f == Event("running_time")
<1>1. f \in Sent /\ f.kind = "running_time"
  <2>1. "running_time" \in Kinds
    BY DEF Kinds
  <2> QED BY <2>1, FrameTyped DEF Event
<1>2. /\ srv' = srv /\ Send(<<f>>) /\ UNCHANGED <<link, tv, cfg>>
  BY DEF RunningTime
<1>3. srv \in Servers /\ BoardKept(srv) /\ LayoutKept'
  BY <1>2 DEF KioskInv, Typed, LayoutKept, Unannounced
<1>4. \A p \in Agreeing(srv) : \A q \in Views : Steps(p, f, q, Unannounced(srv)) => q \in Agreeing(srv)
  BY <1>3, ClockFrame
<1>5. Tells(srv, f, srv)
  BY <1>1, FrameTyped DEF Tells, Event
<1> HIDE DEF f
<1> QED BY <1>1, <1>2, <1>3, <1>4, <1>5, AlikeSent DEF Alike, Splashes

LEMMA RaceFinishedKept ==
  ASSUME KioskInv, RaceFinished  PROVE KioskInv'
<1> DEFINE f == Event("race_finished")
<1>1. f \in Sent /\ f.kind = "race_finished"
  <2>1. "race_finished" \in Kinds
    BY DEF Kinds
  <2> QED BY <2>1, FrameTyped DEF Event
<1>2. srv' = [srv EXCEPT !.confirmed = TRUE] /\ Send(<<f>>) /\ UNCHANGED <<link, tv, cfg>> /\ RaceOver
  BY DEF RaceFinished
<1>3. srv \in Servers /\ BoardKept(srv)
  BY DEF KioskInv, Typed
<1>4. /\ srv' \in Servers /\ Alike(srv, srv') /\ srv.lanes' = srv.lanes /\ srv.overlay' = srv.overlay
      /\ srv.layout' = srv.layout
  BY <1>2, <1>3 DEF Servers, Alike
<1>5. ~TestBegins(srv) /\ \A l \in Lanes : ~Of(srv, l).run
  <2>1. srv.heat # 0
    BY <1>2, HeatOnBoard DEF RaceOver, Blank
  <2> QED BY <2>1, <1>2, <1>3 DEF BoardKept, TestBegins, RaceOver
<1>6. \A p \in Agreeing(srv) : \A q \in Views : Steps(p, f, q, Unannounced(srv)) => q \in Agreeing(srv)
  BY <1>3, <1>5, FinishFrame
<1>7. LayoutKept'
  BY <1>2, <1>4 DEF KioskInv, LayoutKept, Unannounced, Alike
<1>8. Tells(srv, f, srv)
  BY <1>1, <1>2 DEF Tells, RaceOver
<1> HIDE DEF f
<1> QED BY <1>1, <1>2, <1>4, <1>6, <1>7, <1>8, AlikeSent DEF Splashes

LEMMA OtherConnectsKept ==
  ASSUME KioskInv, OtherConnects  PROVE KioskInv'
<1> DEFINE f == Update(srv.heat, NoLanes)
<1>1. srv \in Servers /\ BoardKept(srv)
  BY DEF KioskInv, Typed
<1>2. f \in Sent /\ f.kind = "update_scoreboard"
  BY <1>1, FrameTyped DEF Servers, Update
<1>3. srv' = srv /\ Send(<<f>>) /\ UNCHANGED <<link, tv, cfg>>
  BY DEF OtherConnects, EventInfo
<1>4. LayoutKept'
  BY <1>3 DEF KioskInv, LayoutKept, Unannounced
<1>5. \A p \in Agreeing(srv) : \A q \in Views : Steps(p, f, q, Unannounced(srv)) => q \in Agreeing(srv)
  BY <1>1, NamesFrame
<1>6. Tells(srv, f, srv)
  BY <1>2, FrameTyped DEF Tells, Update
<1> HIDE DEF f
<1> QED BY <1>1, <1>2, <1>3, <1>4, <1>5, <1>6, AlikeSent DEF Alike, Splashes

\* A frame that is not about the board.
LEMMA SideKept ==
  ASSUME KioskInv, srv' \in Servers, Alike(srv, srv'), srv.lanes' = srv.lanes, LayoutKept',
         UNCHANGED <<link, tv, cfg>>,
         NEW k \in {"overlay", "no_overlay", "reload", "update"}, Send(<<Event(k)>>),
         IF k \in Splashes THEN srv.overlay' = (k = "overlay") ELSE srv.overlay' = srv.overlay
  PROVE  KioskInv'
<1> DEFINE f == Event(k)
<1>1. f \in Sent /\ f.kind = k /\ f.kind # "reset" /\ f.kind # "race_finished"
  <2>1. k \in Kinds
    BY DEF Kinds
  <2> QED BY <2>1, FrameTyped DEF Event
<1>2. \A p \in Agreeing(srv) : \A q \in Views : Steps(p, f, q, Unannounced(srv)) => q \in Agreeing(srv)
  BY <1>1, SideFrame DEF KioskInv, Typed
<1> HIDE DEF f
<1>3. Send(<<f>>)
  BY DEF f
<1>4. Tells(srv, f, srv)
  BY <1>1 DEF Tells
<1> QED BY <1>1, <1>2, <1>3, <1>4, AlikeSent

LEMMA OverlayKept ==
  ASSUME KioskInv, Undisturbed, NEW on \in BOOLEAN, Overlay(on)  PROVE KioskInv'
<1> DEFINE k == IF on THEN "overlay" ELSE "no_overlay"
<1>1. /\ srv' = [srv EXCEPT !.overlay = on] /\ Send(<<Event(k)>>) /\ UNCHANGED <<link, tv, cfg>>
      /\ cfg.layout = srv.layout
  BY DEF Overlay, LayoutTaken, Undisturbed
<1>2. /\ srv' \in Servers /\ Alike(srv, srv') /\ srv.lanes' = srv.lanes /\ srv.layout' = srv.layout
      /\ srv.overlay' = (k = "overlay")
  BY <1>1 DEF KioskInv, Typed, Servers, Alike
<1>3. LayoutKept'
  BY <1>1, <1>2 DEF KioskInv, LayoutKept
<1> QED BY <1>1, <1>2, <1>3, SideKept DEF Splashes

LEMMA SaveKept ==
  ASSUME KioskInv, Undisturbed, Save  PROVE KioskInv'
<1>1. /\ srv' = [srv EXCEPT !.layout = @ + 1] /\ Send(<<Event("reload")>>)
      /\ UNCHANGED <<link, tv, cfg>> /\ srv.heat = 0 /\ ~srv.testing /\ ~srv.overlay
  BY DEF Save, Undisturbed
<1>2. /\ srv' \in Servers /\ Alike(srv, srv') /\ srv.lanes' = srv.lanes
      /\ srv.layout' = srv.layout + 1 /\ srv.overlay' = srv.overlay
  BY <1>1 DEF KioskInv, Typed, Servers, Alike
<1>3. LayoutKept'
  BY <1>1, <1>2 DEF KioskInv, Typed, Servers, Configs, LayoutKept, Unannounced, Alike
<1> QED BY <1>1, <1>2, <1>3, SideKept DEF Splashes

LEMMA PressKept ==
  ASSUME KioskInv, Press  PROVE KioskInv'
<1>1. srv' = srv /\ Send(<<Event("update")>>) /\ UNCHANGED <<link, tv, cfg>>
  BY DEF Press
<1>2. srv' \in Servers /\ Alike(srv, srv') /\ LayoutKept'
  BY <1>1 DEF KioskInv, Typed, Alike, LayoutKept, Unannounced
<1> QED BY <1>1, <1>2, SideKept DEF Splashes

LEMMA TestStartsKept ==
  ASSUME KioskInv, Undisturbed, TestStarts  PROVE KioskInv'
<1> DEFINE f == Event("test_mode")
           g == Update(0, NoLanes)
           blank == [l \in Lanes |-> Blank]
           T == {q \in Views : Cleared(q) /\ q.badge}
<1>1. /\ f \in Sent /\ f.kind = "test_mode"
      /\ g \in Sent /\ g.kind = "update_scoreboard" /\ g.heat = 0 /\ DOMAIN g.lanes = {}
  <2>1. "test_mode" \in Kinds
    BY DEF Kinds
  <2> QED BY <2>1, FrameTyped DEF Event, Update
<1>2. srv \in Servers /\ BoardKept(srv) /\ blank \in [Lanes -> Swims] /\ srv.testing = FALSE
  BY DEF KioskInv, Typed, Servers, Blank, Swims, TestStarts
<1>3. /\ srv' = [srv EXCEPT !.testing = TRUE, !.saved = srv.heat, !.heat = 0,
                            !.lanes = blank, !.confirmed = TRUE]
      /\ Send(<<f, g>>) /\ UNCHANGED <<link, tv, cfg>> /\ cfg.layout = srv.layout
  BY DEF TestStarts, LayoutTaken, Undisturbed
<1> HIDE DEF f, g, blank, T
<1>4. /\ srv.testing' = TRUE /\ srv.heat' = 0 /\ srv.lanes' = blank
      /\ srv.board' = srv.board /\ srv.overlay' = srv.overlay /\ srv.layout' = srv.layout
  BY <1>2, <1>3 DEF Servers
<1>5. srv' \in Servers
  <2>1. srv.heat \in Heats \cup {0} /\ 0 \in Heats \cup {0} /\ TRUE \in BOOLEAN
    BY <1>2 DEF Servers
  <2> QED BY <2>1, <1>2, <1>3 DEF Servers
<1>11. \A l \in Lanes : srv.lanes[l].run = FALSE /\ Of(srv, l).run = FALSE
  <2>1. ~TestBegins(srv) /\ ~Swimming
    BY <1>2 DEF TestStarts, TestBegins
  <2> QED BY <2>1, <1>2 DEF Swimming, BoardKept, Servers, Swims
<1>6. BoardKept(srv)' /\ LayoutKept' /\ ~Unannounced(srv')
  <2>1. \A l \in Lanes : Of(srv', l) = Of(srv, l)
    BY <1>4 DEF Of
  <2>2. BoardKept(srv)'
    BY <2>1, <1>4, <1>11 DEF BoardKept, TestBegins, blank
  <2> QED BY <2>2, <1>3, <1>4 DEF KioskInv, LayoutKept, Unannounced
<1>12. Tells(srv, f, srv) /\ Tells(srv, g, srv')
  BY <1>1, <1>11 DEF Tells
<1>7. Sound(srv) \subseteq Sound(srv')
  BY <1>2, <1>4 DEF Sound
<1>8. T \subseteq Sound(srv')
  BY <1>4 DEF T, Sound, Cleared, Still
<1>9. ASSUME NEW p \in Agreeing(srv), NEW q \in Views, Steps(p, f, q, Unannounced(srv'))
      PROVE  q \in T
  BY <1>1, <1>6, <1>9 DEF Steps, Becomes, Leads, T, Views
<1>10. ASSUME NEW p \in T, NEW q \in Views, Steps(p, g, q, Unannounced(srv'))
       PROVE  q \in Agreeing(srv')
  <2>1. Updates(p, g, q) /\ Cleared(p) /\ p.badge /\ p \in Views
    BY <1>1, <1>6, <1>10 DEF Steps, Becomes, Leads, T
  <2>2. q.badge = TRUE /\ q.key = 0 /\ Turns(p, g)
    BY <2>1, <1>1 DEF Updates, Turns, Cleared, Absent, Views
  <2>3. \A l \in Lanes : ~q.run[l] /\ q.snap[l] = NoMark
    BY <2>1, <2>2, <1>1 DEF Updates, Cleared, Still
  <2>4. q \in Sound(srv')
    BY <2>3 DEF Sound
  <2> QED BY <2>2, <2>4, <1>4 DEF Agreeing, TestBegins
<1> QED BY <1>1, <1>3, <1>4, <1>5, <1>6, <1>7, <1>8, <1>9, <1>10, <1>12, FramesSent DEF Splashes

\* Before a reset nothing is asked of the views.
LEMMA KeepsViews ==
  ASSUME NEW s, NEW w \in Seq(Sent), NEW idle
  PROVE  Keeps(s, w, idle, Views)
<1> SUFFICES ASSUME NEW n \in 0..Len(w), NEW st, OnPath(st, n, s, w, idle)
             PROVE  st[n] \in Views
  BY DEF Keeps
<1>1. n = 0 \/ n \in 1..n
  OBVIOUS
<1> QED BY <1>1 DEF OnPath, Steps

LEMMA TestEndsKept ==
  ASSUME KioskInv, Undisturbed, TestEnds  PROVE KioskInv'
<1> DEFINE f == Update(srv.saved, NoLanes)
           g == Event("no_test_mode")
           h == Event("reset")
           blank == [l \in Lanes |-> Blank]
           a == Append(wire, f)
           b == Append(a, g)
           c == Append(b, h)
           d == Append(c, f)
           v == View(tv)
           idle == Unannounced(srv')
           Unbadged == {q \in Views : ~q.badge}
           Wiped == {q \in Views : ~q.badge /\ Cleared(q)}
<1>1. srv \in Servers /\ BoardKept(srv) /\ wire \in Seq(Sent) /\ srv.testing
      /\ blank \in [Lanes -> Swims]
  BY DEF KioskInv, Typed, TestEnds, Blank, Swims
<1>2. /\ f \in Sent /\ f.kind = "update_scoreboard" /\ f.heat = srv.saved /\ DOMAIN f.lanes = {}
      /\ g \in Sent /\ g.kind = "no_test_mode" /\ h \in Sent /\ h.kind = "reset"
  <2>1. {"no_test_mode", "reset"} \subseteq Kinds
    BY DEF Kinds
  <2>2. srv.saved \in Heats \cup {0}
    BY <1>1 DEF Servers
  <2>3. f \in Sent /\ g \in Sent /\ h \in Sent
    BY <2>1, <2>2, FrameTyped
  <2> QED BY <2>3, FrameTyped DEF Event, Update
<1>3. /\ link.conn /\ ~link.cut /\ UNCHANGED <<link, tv, cfg>>
      /\ srv' = [srv EXCEPT !.testing = FALSE, !.heat = srv.saved, !.saved = 0, !.board = NoLanes,
                            !.lanes = blank, !.confirmed = TRUE]
      /\ wire' = wire \o <<f, g, h, f>>
  BY DEF TestEnds, Undisturbed, Send
<1> HIDE DEF f, g, h, blank
<1>4. /\ srv.testing' = FALSE /\ srv.heat' = srv.saved /\ srv.lanes' = blank /\ srv.board' = NoLanes
      /\ srv.overlay' = srv.overlay /\ srv.layout' = srv.layout
  BY <1>1, <1>3 DEF Servers
<1>5. srv' \in Servers
  <2>1. 0 \in Heats \cup {0} /\ FALSE \in BOOLEAN /\ TRUE \in BOOLEAN /\ NoLanes \in Boards
        /\ srv.saved \in Heats \cup {0}
    BY <1>1, FrameTyped DEF Servers
  <2> QED BY <2>1, <1>1, <1>3 DEF Servers
<1>6. /\ a \in Seq(Sent) /\ b \in Seq(Sent) /\ c \in Seq(Sent) /\ d \in Seq(Sent)
      /\ wire' = d
  BY <1>1, <1>2, <1>3
<1>7. /\ Typed' /\ Painted(tv)' /\ ResetHeard'
  <2>1. Typed'
    BY <1>3, <1>5, <1>6 DEF KioskInv, Typed
  <2> HIDE DEF d
  <2> QED BY <2>1, <1>3 DEF KioskInv, Painted, Racing, Matches, ResetHeard
<1>8. BoardKept(srv)' /\ ~TestBegins(srv')
  <2>1. \A l \in Lanes : Of(srv', l) = Blank /\ srv.lanes'[l] = Blank
    BY <1>4, FrameTyped DEF Of, blank
  <2> QED BY <2>1, <1>4 DEF BoardKept, TestBegins
<1>9. LayoutKept'
  BY <1>1, <1>3, <1>4 DEF KioskInv, LayoutKept, Unannounced
<1>10. SplashTold'
  <2>1. SplashSaid(wire, tv.splash, srv.overlay)
    BY <1>3 DEF KioskInv, SplashTold
  <2>2. SplashSaid(a, tv.splash, srv.overlay)
    BY <2>1, <1>1, <1>2, SaidAppended DEF Splashes
  <2> HIDE DEF a
  <2>3. SplashSaid(b, tv.splash, srv.overlay)
    BY <2>2, <1>2, <1>6, SaidAppended DEF Splashes
  <2> HIDE DEF b
  <2>4. SplashSaid(c, tv.splash, srv.overlay)
    BY <2>3, <1>2, <1>6, SaidAppended DEF Splashes
  <2> HIDE DEF c
  <2>5. SplashSaid(d, tv.splash, srv.overlay)
    BY <2>4, <1>2, <1>6, SaidAppended DEF Splashes
  <2> QED BY <2>5, <1>3, <1>4, <1>6 DEF SplashTold
<1>20. Stands(v, a)
  <2>1. Stands(v, wire) /\ Reaches(v, wire, TRUE, Views)
    BY <1>1, <1>3, ReachesViews DEF KioskInv, Resting
  <2> HIDE DEF v
  <2> QED BY <2>1, <1>1, <1>2, StandsAppended
<1>11. Reaches(v, a, idle, Views) /\ Reaches(v, a, TRUE, Views)
  BY <1>6, ReachesViews
<1> HIDE DEF a
<1>21. Stands(v, b) /\ Reaches(v, b, TRUE, Views)
  <2> HIDE DEF v
  <2>1. Stands(v, b)
    BY <1>2, <1>6, <1>11, <1>20, StandsAppended
  <2> QED BY <2>1, <1>6, ReachesViews
<1>12. Reaches(v, b, idle, Unbadged)
  <2>1. \A p \in Views : \A q \in Views : Steps(p, g, q, idle) => q \in Unbadged
    BY <1>2 DEF Steps, Leads, Becomes, Rebuilds
  <2> HIDE DEF Unbadged, idle, v
  <2> QED BY <2>1, <1>2, <1>6, <1>11, ReachesAppended
<1>13. Keeps(v, b, idle, Views)
  BY <1>6, KeepsViews
<1> HIDE DEF b
<1>22. Stands(v, c) /\ Reaches(v, c, TRUE, Quiet(srv'))
  <2>1. ASSUME NEW p \in Views, NEW q \in Views, Steps(p, h, q, TRUE)  PROVE q \in Quiet(srv')
    <3>1. Still(q)
      BY <1>2, <2>1 DEF Steps, Leads, Cleared, Becomes, Rebuilds
    <3> QED BY <3>1 DEF Still, Quiet
  <2> HIDE DEF v
  <2> QED BY <2>1, <1>2, <1>6, <1>21, StandsAppended, ReachesAppended
<1>14. Reaches(v, c, idle, Wiped)
  <2>1. \A p \in Unbadged : \A q \in Views : Steps(p, h, q, idle) => q \in Wiped
    <3> SUFFICES ASSUME NEW p \in Unbadged, NEW q \in Views, NEW m \in Views,
                        Leads(p, h, m), Becomes(m, q, idle)
                 PROVE  q \in Wiped
      BY DEF Steps
    <3>1. Cleared(m) /\ ~m.badge
      BY <1>2 DEF Leads
    <3> QED BY <3>1 DEF Becomes, Rebuilds, Cleared, Still
  <2> HIDE DEF Unbadged, Wiped, idle, v
  <2> QED BY <2>1, <1>2, <1>6, <1>12, ReachesAppended
<1>15. Wiped \subseteq Sound(srv')
  BY DEF Sound, Cleared, Still
<1>16. Keeps(v, c, idle, Sound(srv'))
  <2> HIDE DEF Wiped, idle, v
  <2>1. Reaches(v, c, idle, Sound(srv'))
    BY <1>14, <1>15, ReachesMore
  <2> QED BY <2>1, <1>2, <1>6, <1>13, KeepsAppended
<1> HIDE DEF c
<1>17. Reaches(v, d, idle, Agreeing(srv'))
  <2>1. ASSUME NEW p \in Wiped, NEW q \in Views, NEW m \in Views,
               Leads(p, f, m), Becomes(m, q, idle)
        PROVE  q \in Agreeing(srv')
    <3>1. Updates(p, f, m) /\ Cleared(p) /\ ~p.badge
      BY <2>1, <1>2 DEF Leads
    <3>2. f.heat # Absent
      BY <1>1, <1>2, KioskAssumption DEF Servers, Absent
    <3>3. m.badge = FALSE /\ m.key = srv.heat' /\ Turns(p, f)
      BY <3>1, <3>2, <1>2, <1>4 DEF Updates, Turns, Cleared, Views
    <3>4. ASSUME NEW l \in Lanes  PROVE ShowsLane(srv', m, l)
      <4>1. Of(srv', l) = Blank
        BY <1>4, FrameTyped DEF Of
      <4>2. m.run[l] = FALSE
        BY <3>1, <1>2 DEF Updates, Cleared, Still, Views
      <4>3. m.snap[l] = NoMark
        BY <3>1, <3>3, <1>2 DEF Updates
      <4>4. Of(srv', l).run = FALSE /\ Of(srv', l).place = 0 /\ Of(srv', l).time = 0
        BY <4>1 DEF Blank
      <4>5. m.snap[l].place = 0 /\ m.snap[l].time = 0
        BY <4>3 DEF NoMark
      <4> QED BY <4>2, <4>4, <4>5 DEF ShowsLane
    <3>5. BoardKept(srv')
      BY <1>8
    <3>6. m \in Agreeing(srv')
      BY <3>3, <3>4, <3>5, <1>4, <1>5, <1>8, AgreeingSound
    <3> QED BY <2>1, <3>5, <3>6, <1>5, AgreeingClosed
  <2>2. \A p \in Wiped : \A q \in Views : Steps(p, f, q, idle) => q \in Agreeing(srv')
    BY <2>1 DEF Steps
  <2> HIDE DEF Wiped, idle, v
  <2> QED BY <2>2, <1>2, <1>6, <1>14, ReachesAppended
<1>18. Keeps(v, d, idle, Sound(srv'))
  <2> HIDE DEF Wiped, idle, v
  <2>1. Agreeing(srv') \subseteq Sound(srv')
    BY DEF Agreeing
  <2>2. Reaches(v, d, idle, Sound(srv'))
    BY <2>1, <1>17, ReachesMore
  <2> QED BY <2>2, <1>2, <1>6, <1>16, KeepsAppended
<1>23. Reaches(v, d, TRUE, Quiet(srv')) /\ Stands(v, d)
  <2>1. Tells(srv', f, srv')
    BY <1>2 DEF Tells
  <2> HIDE DEF v
  <2> QED BY <2>1, <1>2, <1>6, <1>22, QuietAppended
<1> HIDE DEF d
<1>19. Heading' /\ Away' /\ Resting'
  <2>1. Quiet(srv)' = Quiet(srv')
    BY DEF Quiet
  <2>2. View(tv)' = v /\ Unannounced(srv)' = idle /\ Agreeing(srv)' = Agreeing(srv') /\ Sound(srv)' = Sound(srv')
    BY <1>3 DEF View
  <2> HIDE DEF v, idle
  <2> QED BY <2>1, <2>2, <1>3, <1>6, <1>17, <1>18, <1>23 DEF Heading, Away, Resting
<1> QED BY <1>7, <1>8, <1>9, <1>10, <1>19 DEF KioskInv


-----------------------------------------------------------------------------
(* The steps of the link.                                                  *)

\* A cleared view, and one that a rebuilt window makes of a sound one, are sound.
LEMMA SoundClosed ==
  ASSUME NEW s \in Servers
  PROVE  /\ \A q \in Views : Cleared(q) => q \in Sound(s)
         /\ \A p \in Sound(s) : \A q \in Views : Becomes(p, q, Unannounced(s)) => q \in Sound(s)
<1>1. s.heat # Absent /\ Absent # 0
  BY KioskAssumption DEF Servers, Absent
<1>2. \A q \in Views : Cleared(q) => q \in Sound(s)
  BY <1>1 DEF Cleared, Still, Sound
<1>3. ASSUME NEW p \in Sound(s), NEW q \in Views, Rebuilds(p, q)  PROVE q \in Sound(s)
  <2>1. q.key # s.heat /\ q.key # 0 /\ \A l \in Lanes : ~q.run[l]
    BY <1>1, <1>3 DEF Rebuilds, Still
  <2> QED BY <2>1 DEF Sound
<1> QED BY <1>2, <1>3 DEF Becomes

\* A window that does not change its view, under frames that do not change either.
LEMMA LookKept ==
  ASSUME KioskInv, UNCHANGED <<srv, wire>>, tv' \in Windows, Painted(tv'),
         View(tv') = View(tv), tv.splash' = tv.splash,
         link' \in Links, link.conn' = link.conn, cfg' \in Configs, ResetHeard', LayoutKept'
  PROVE  KioskInv'
<1>1. Typed' /\ Painted(tv)' /\ BoardKept(srv)'
  BY DEF KioskInv, Typed, BoardKept, TestBegins, Of, Painted, Racing, Matches
<1>2. SplashTold'
  BY DEF KioskInv, SplashTold
<1>3. Heading' /\ Away' /\ Resting'
  <2>1. View(tv)' = View(tv) /\ Unannounced(srv)' = Unannounced(srv) /\ Agreeing(srv)' = Agreeing(srv)
        /\ Sound(srv)' = Sound(srv) /\ Quiet(srv)' = Quiet(srv)
    BY DEF View
  <2> QED BY <2>1 DEF KioskInv, Heading, Away, Resting
<1> QED BY <1>1, <1>2, <1>3 DEF KioskInv

\* The same when the window does not change at all.
LEMMA WindowKept ==
  ASSUME KioskInv, UNCHANGED <<srv, wire, tv>>,
         link' \in Links, link.conn' = link.conn, cfg' \in Configs, ResetHeard', LayoutKept'
  PROVE  KioskInv'
<1>1. tv' \in Windows /\ Painted(tv') /\ View(tv') = View(tv) /\ tv.splash' = tv.splash
  BY DEF KioskInv, Typed
<1> QED BY <1>1, LookKept

LEMMA CutKept ==
  ASSUME KioskInv, Undisturbed, Cut  PROVE KioskInv'
<1>1. link \in Links /\ cfg \in Configs /\ wire \in Seq(Sent)
  BY DEF KioskInv, Typed
<1>2. link' \in Links /\ link.conn' = link.conn
  BY <1>1 DEF Cut, Links
<1>3. ResetHeard'
  BY <1>1 DEF Cut, Heard, Undisturbed, ResetHeard
<1>4. LayoutKept'
  BY DEF KioskInv, Cut, LayoutKept, Unannounced
<1> QED BY <1>1, <1>2, <1>3, <1>4, WindowKept DEF Cut

LEMMA MendedKept ==
  ASSUME KioskInv, Mended  PROVE KioskInv'
<1>1. link \in Links /\ cfg \in Configs
  BY DEF KioskInv, Typed
<1>2. link' \in Links /\ link.conn' = link.conn /\ ~link.cut'
  BY <1>1 DEF Mended, Links
<1>3. ResetHeard' /\ LayoutKept'
  BY <1>2 DEF KioskInv, Mended, ResetHeard, LayoutKept, Unannounced
<1> QED BY <1>1, <1>2, <1>3, WindowKept DEF Mended

LEMMA AnnounceDropKept ==
  ASSUME KioskInv, AnnounceDrop  PROVE KioskInv'
<1>1. link \in Links /\ cfg \in Configs
  BY DEF KioskInv, Typed
<1>2. link' \in Links /\ link.conn' = link.conn /\ link.cut' = link.cut
  BY <1>1 DEF AnnounceDrop, Links
<1>3. ResetHeard' /\ LayoutKept'
  BY <1>2 DEF KioskInv, AnnounceDrop, ResetHeard, LayoutKept, Unannounced
<1> QED BY <1>1, <1>2, <1>3, WindowKept DEF AnnounceDrop

LEMMA LinkLost ==
  ASSUME NEW l \in Links
  PROVE  Lost(l) \in Links /\ Lost(l).conn = l.conn /\ Lost(l).cut = l.cut
BY DEF Lost, Links

\* The ticker stops.
LEMMA TickerStopped ==
  ASSUME NEW t \in Windows, Painted(t), NEW on \in BOOLEAN
  PROVE  LET u == [t EXCEPT !.ticking = on] IN
         u \in Windows /\ Painted(u) /\ View(u) = View(t) /\ u.splash = t.splash
<1> DEFINE u == [t EXCEPT !.ticking = on]
<1>1. /\ u \in Windows /\ u.rows = t.rows /\ u.snap = t.snap /\ u.step = t.step
      /\ u.key = t.key /\ u.badge = t.badge /\ u.splash = t.splash
  BY DEF Windows
<1> QED BY <1>1 DEF Painted, Matches, Racing, View

LEMMA RetryFailsKept ==
  ASSUME KioskInv, RetryFails  PROVE KioskInv'
<1>1. link \in Links /\ cfg \in Configs /\ tv \in Windows /\ Painted(tv)
  BY DEF KioskInv, Typed
<1>2. link' \in Links /\ link.conn' = link.conn /\ link.cut' = link.cut
  BY <1>1, LinkLost DEF RetryFails
<1>3. ResetHeard' /\ LayoutKept'
  BY <1>2 DEF KioskInv, RetryFails, ResetHeard, LayoutKept, Unannounced
<1> DEFINE on == IF link.ever THEN FALSE ELSE tv.ticking
<1>4. on \in BOOLEAN
  BY <1>1 DEF Links, Windows
<1>5. tv' = [tv EXCEPT !.ticking = on]
  BY DEF RetryFails
<1>6. tv' \in Windows /\ Painted(tv') /\ View(tv') = View(tv) /\ tv.splash' = tv.splash
  BY <1>1, <1>4, <1>5, TickerStopped
<1> QED BY <1>1, <1>2, <1>3, <1>6, LookKept DEF RetryFails

\* With no reset in flight the window is sound as it is.
LEMMA SoundByNow ==
  ASSUME KioskInv, link.conn, \A i \in 1..Len(wire) : wire[i].kind # "reset"
  PROVE  View(tv) \in Sound(srv)
<1>1. View(tv) \in Views /\ wire \in Seq(Sent) /\ Unannounced(srv) \in BOOLEAN
  BY ViewTyped DEF KioskInv, Typed, Unannounced
<1>2. ~ResetAfter(wire, 0) /\ Keeps(View(tv), wire, Unannounced(srv), Sound(srv))
  BY DEF ResetAfter, KioskInv, Heading
<1> QED BY <1>1, <1>2, ReachesByNow

LEMMA DropKept ==
  ASSUME KioskInv, Drop, srv' \in Servers, BoardKept(srv)', LayoutKept', cfg' = cfg,
         View(tv) \in Sound(srv')
  PROVE  KioskInv'
<1>1. link \in Links /\ cfg \in Configs /\ tv \in Windows /\ Painted(tv)
  BY DEF KioskInv, Typed
<1>2. [link EXCEPT !.conn = FALSE] \in Links /\ [link EXCEPT !.conn = FALSE].conn = FALSE
  BY <1>1 DEF Links
<1>3. link' \in Links /\ link.conn' = FALSE /\ wire' = <<>>
  BY <1>2, LinkLost DEF Drop
<1> DEFINE on == IF link.ever THEN FALSE ELSE tv.ticking
<1>4. on \in BOOLEAN
  BY <1>1 DEF Links, Windows
<1>5. tv' = [tv EXCEPT !.ticking = on]
  BY DEF Drop
<1>6. tv' \in Windows /\ Painted(tv') /\ View(tv') = View(tv) /\ tv.splash' = tv.splash
  BY <1>1, <1>4, <1>5, TickerStopped
<1>7. Typed'
  BY <1>1, <1>3, <1>6 DEF Typed
<1>8. Painted(tv)' /\ View(tv)' = View(tv') /\ Sound(srv)' = Sound(srv')
  BY <1>6 DEF Painted, Racing, Matches, View
<1>9. SplashTold' /\ Heading' /\ Away' /\ Resting'
  BY <1>3, <1>6, <1>8 DEF SplashTold, Heading, Away, Resting
<1>10. ResetHeard'
  BY <1>3 DEF ResetHeard
<1> QED BY <1>7, <1>8, <1>9, <1>10 DEF KioskInv

LEMMA GoesStaleKept ==
  ASSUME KioskInv, GoesStale  PROVE KioskInv'
<1>1. View(tv) \in Sound(srv)
  BY SoundByNow DEF GoesStale, KioskInv, ResetHeard
<1>2. srv' = srv /\ cfg' = cfg /\ Drop
  BY DEF GoesStale
<1>3. srv' \in Servers /\ BoardKept(srv)' /\ LayoutKept'
  BY <1>2 DEF KioskInv, Typed, BoardKept, TestBegins, Of, LayoutKept, Unannounced
<1> QED BY <1>1, <1>2, <1>3, DropKept

LEMMA ServerRestartsKept ==
  ASSUME KioskInv, Undisturbed, ServerRestarts  PROVE KioskInv'
<1> DEFINE blank == [l \in Lanes |-> Blank]
<1>1. /\ srv' = [srv EXCEPT !.heat = 0, !.lanes = blank, !.board = NoLanes,
                            !.testing = FALSE, !.saved = 0, !.overlay = FALSE, !.confirmed = TRUE]
      /\ ~srv.testing /\ ~Racing(tv) /\ link.conn /\ cfg' = cfg
      /\ \A i \in DOMAIN wire : wire[i].kind # "reset"
      /\ Drop
  BY DEF ServerRestarts, Undisturbed, Heard
<1>2. srv \in Servers /\ wire \in Seq(Sent) /\ tv \in Windows /\ blank \in [Lanes -> Swims]
  BY DEF KioskInv, Typed, Blank, Swims
<1> HIDE DEF blank
<1>3. /\ srv.testing' = FALSE /\ srv.heat' = 0 /\ srv.lanes' = blank /\ srv.board' = NoLanes
      /\ srv.overlay' = FALSE /\ srv.layout' = srv.layout
  BY <1>1, <1>2 DEF Servers
<1>4. srv' \in Servers
  <2>1. 0 \in Heats \cup {0} /\ FALSE \in BOOLEAN /\ TRUE \in BOOLEAN /\ NoLanes \in Boards
    BY FrameTyped
  <2> QED BY <2>1, <1>1, <1>2 DEF Servers
<1>5. BoardKept(srv)'
  <2>1. \A l \in Lanes : Of(srv', l) = Blank /\ srv.lanes'[l] = Blank
    BY <1>3, FrameTyped DEF Of, blank
  <2> QED BY <2>1, <1>3 DEF BoardKept
<1>6. LayoutKept'
  BY <1>1, <1>3 DEF KioskInv, LayoutKept, Unannounced
<1>7. View(tv) \in Sound(srv)
  BY <1>1, <1>2, SoundByNow
<1>8. View(tv) \in Sound(srv')
  <2>1. View(tv) \in Views /\ View(tv).key = 0 => \A l \in Lanes : View(tv).snap[l] = NoMark
    BY <1>1, <1>7 DEF Sound
  <2>2. \A l \in Lanes : ~View(tv).run[l]
    BY <1>1 DEF Racing, View
  <2> QED BY <2>1, <2>2, <1>3, <1>7 DEF Sound
<1> QED BY <1>1, <1>4, <1>5, <1>6, <1>8, DropKept

\* One more frame behind frames that lead into T leads into U.
LEMMA Chained ==
  ASSUME NEW s, NEW w \in Seq(Sent), NEW f \in Sent, NEW idle, NEW T, NEW U, NEW C,
         Reaches(s, w, idle, T), Keeps(s, w, idle, C), U \subseteq C,
         \A p \in T : \A q \in Views : Steps(p, f, q, idle) => q \in U
  PROVE  /\ Append(w, f) \in Seq(Sent)
         /\ Reaches(s, Append(w, f), idle, U) /\ Keeps(s, Append(w, f), idle, C)
<1>1. Reaches(s, Append(w, f), idle, U)
  BY ReachesAppended
<1>2. Reaches(s, Append(w, f), idle, C)
  BY <1>1, ReachesMore
<1>3. Keeps(s, Append(w, f), idle, C)
  BY <1>2, KeepsAppended
<1> QED BY <1>1, <1>3

\* What a display is greeted with makes of a sound view: its badge, its heat.
Badged(s) == {q \in Sound(s) : q.badge = s.testing}
Named(s) == {q \in Badged(s) : q.key = s.heat \/ (Unannounced(s) /\ q.key = Absent)}

LEMMA BadgedClosed ==
  ASSUME NEW s \in Servers, NEW p \in Badged(s), NEW q \in Views, Becomes(p, q, Unannounced(s))
  PROVE  q \in Badged(s)
<1>1. q \in Sound(s)
  BY SoundClosed DEF Badged
<1>2. q.badge = s.testing
  <2>1. CASE q = p
    BY <2>1 DEF Badged
  <2>2. CASE Unannounced(s) /\ Rebuilds(p, q)
    <3>1. s.testing = FALSE /\ q.badge = FALSE
      BY <2>2 DEF Unannounced, Servers, Rebuilds, Views
    <3> QED BY <3>1
  <2> QED BY <2>1, <2>2 DEF Becomes
<1> QED BY <1>1, <1>2 DEF Badged

LEMMA NamedClosed ==
  ASSUME NEW s \in Servers, NEW p \in Named(s), NEW q \in Views, Becomes(p, q, Unannounced(s))
  PROVE  q \in Named(s)
<1>1. q \in Badged(s)
  BY BadgedClosed DEF Named
<1> QED BY <1>1 DEF Named, Becomes, Rebuilds

\* No lane swims that the replay cache does not have.
Listed(s) == {q \in Views : \A l \in Lanes \ DOMAIN s.board : ~q.run[l]}

LEMMA ListedQuiet ==
  ASSUME NEW s \in Servers, BoardKept(s), NEW p \in Listed(s), NEW q \in Views, NEW f \in Sent,
         Steps(p, f, q, TRUE)
  PROVE  /\ DOMAIN f.lanes = {} => q \in Listed(s)
         /\ f = Update(s.heat, s.board) => q \in Quiet(s)
<1>1. PICK m \in Views : Leads(p, f, m) /\ Becomes(m, q, TRUE)
  BY DEF Steps
<1>2. ASSUME NEW l \in Lanes, q.run[l]  PROVE m.run[l]
  BY <1>1, <1>2 DEF Becomes, Rebuilds, Still
<1>3. ASSUME NEW l \in Lanes, m.run[l], l \notin DOMAIN f.lanes  PROVE p.run[l]
  <2>1. CASE f.kind \in {"update_scoreboard", "running_time"}
    BY <1>1, <1>3, <2>1 DEF Leads, Updates
  <2>2. CASE f.kind \in {"race_finished", "reset", "test_mode"}
    BY <1>1, <1>3, <2>2 DEF Leads, Still, Cleared
  <2>3. CASE f.kind \in {"no_test_mode", "overlay", "no_overlay", "columns", "reload", "update"}
    BY <1>1, <1>3, <2>3 DEF Leads
  <2> QED BY <2>1, <2>2, <2>3 DEF Sent, Kinds
<1>4. ASSUME DOMAIN f.lanes = {}  PROVE q \in Listed(s)
  BY <1>2, <1>3, <1>4 DEF Listed
<1>5. ASSUME f = Update(s.heat, s.board)  PROVE q \in Quiet(s)
  <2>1. f.kind = "update_scoreboard" /\ f.lanes = s.board
    BY <1>5 DEF Update
  <2> SUFFICES ASSUME NEW l \in Lanes, q.run[l]  PROVE s.lanes[l].run
    BY DEF Quiet
  <2>2. CASE l \in DOMAIN s.board
    <3>1. s.board[l].run
      BY <1>1, <1>2, <2>1, <2>2 DEF Leads, Updates
    <3> QED BY <3>1, <2>2 DEF BoardKept, Of
  <2>3. CASE l \notin DOMAIN s.board
    BY <1>2, <1>3, <2>1, <2>3 DEF Listed
  <2> QED BY <2>2, <2>3
<1> QED BY <1>4, <1>5

LEMMA ChainedQuiet ==
  ASSUME NEW s, NEW w \in Seq(Sent), NEW f \in Sent, f.kind # "race_finished", NEW T, NEW U,
         Reaches(s, w, TRUE, T), Stands(s, w),
         \A p \in T : \A q \in Views : Steps(p, f, q, TRUE) => q \in U
  PROVE  Reaches(s, Append(w, f), TRUE, U) /\ Stands(s, Append(w, f))
BY ReachesAppended, StandsAppended

LEMMA TestFrame ==
  ASSUME NEW s \in Servers,
         NEW f, f.kind = IF s.testing THEN "test_mode" ELSE "no_test_mode",
         NEW p \in Sound(s), NEW q \in Views, Steps(p, f, q, Unannounced(s))
  PROVE  q \in Badged(s)
<1>1. PICK m \in Views : Leads(p, f, m) /\ Becomes(m, q, Unannounced(s))
  BY DEF Steps
<1>2. CASE s.testing
  <2>1. Cleared(m) /\ m.badge = TRUE /\ s.testing = TRUE
    BY <1>1, <1>2 DEF Leads, Servers, Views
  <2>2. m \in Badged(s)
    BY <2>1, SoundClosed DEF Badged
  <2> QED BY <1>1, <2>2, BadgedClosed
<1>3. CASE ~s.testing
  <2>1. m.run = p.run /\ m.snap = p.snap /\ m.key = p.key /\ m.badge = FALSE /\ s.testing = FALSE
    BY <1>1, <1>3 DEF Leads, Servers, Views
  <2>2. m \in Badged(s)
    BY <2>1 DEF Badged, Sound
  <2> QED BY <1>1, <2>2, BadgedClosed
<1> QED BY <1>2, <1>3

LEMMA GreetedSide ==
  ASSUME NEW s \in Servers, NEW f, f.kind \in {"overlay", "no_overlay", "columns"},
         NEW p \in Badged(s), NEW q \in Views, Steps(p, f, q, Unannounced(s))
  PROVE  q \in Badged(s)
<1>1. Becomes(p, q, Unannounced(s))
  BY DEF Steps, Leads
<1> QED BY <1>1, BadgedClosed

LEMMA HeatNamed ==
  ASSUME NEW s \in Servers, NEW f, f = Update(s.heat, NoLanes),
         NEW p \in Badged(s), NEW q \in Views, Steps(p, f, q, Unannounced(s))
  PROVE  q \in Named(s)
<1>1. PICK m \in Views : Leads(p, f, m) /\ Becomes(m, q, Unannounced(s))
  BY DEF Steps
<1>2. f.kind = "update_scoreboard" /\ f.heat = s.heat /\ DOMAIN f.lanes = {}
  BY FrameTyped DEF Update
<1>3. s.heat # Absent
  BY KioskAssumption DEF Servers, Absent
<1>4. Updates(p, f, m) /\ p \in Sound(s) /\ m.badge = s.testing /\ m.key = s.heat
  BY <1>1, <1>2, <1>3 DEF Leads, Updates, Badged
<1>5. \A l \in Lanes : m.snap[l] = IF Turns(p, f) THEN NoMark ELSE p.snap[l]
  BY <1>2, <1>4 DEF Updates
<1>6. \A l \in Lanes : m.run[l] = p.run[l] \/ ~m.run[l]
  BY <1>2, <1>4 DEF Updates
<1>7. ~Turns(p, f) => p.key = s.heat
  BY <1>2, <1>3 DEF Turns
<1>8. \A l \in Lanes \ DOMAIN s.board : ~m.run[l] /\ (m.snap[l] = NoMark \/ m.key # s.heat)
  BY <1>4, <1>5, <1>6, <1>7 DEF Sound
<1>9. s.testing \/ (m.key = 0 => \A l \in Lanes : m.snap[l] = NoMark)
  BY <1>4, <1>5, <1>7 DEF Sound
<1>10. m \in Named(s)
  BY <1>4, <1>8, <1>9 DEF Sound, Badged, Named
<1> QED BY <1>1, <1>10, NamedClosed

LEMMA BoardNamed ==
  ASSUME NEW s \in Servers, BoardKept(s), NEW f, f = Update(s.heat, s.board),
         NEW p \in Named(s), NEW q \in Views, Steps(p, f, q, Unannounced(s))
  PROVE  q \in Agreeing(s)
<1>1. PICK m \in Views : Leads(p, f, m) /\ Becomes(m, q, Unannounced(s))
  BY DEF Steps
<1>2. f.kind = "update_scoreboard" /\ f.heat = s.heat /\ f.lanes = s.board
  BY DEF Update
<1>3. s.heat # Absent
  BY KioskAssumption DEF Servers, Absent
<1>4. Updates(p, f, m) /\ p \in Sound(s) /\ m.badge = s.testing /\ m.key = s.heat
  BY <1>1, <1>2, <1>3 DEF Leads, Updates, Badged, Named
<1>5. Turns(p, f) => p.key = Absent
  BY <1>2 DEF Turns, Named
<1>6. \A l \in Lanes : m.run[l] = IF l \in DOMAIN s.board THEN s.board[l].run ELSE p.run[l]
  BY <1>2, <1>4, <1>5 DEF Updates
<1>7. ASSUME NEW l \in Lanes \ DOMAIN s.board  PROVE m.run[l] = FALSE /\ m.snap[l] = NoMark
  <2>1. m.snap[l] = IF Turns(p, f) THEN NoMark ELSE p.snap[l]
    BY <1>2, <1>4, <1>7 DEF Updates
  <2>2. ~Turns(p, f) => p.key = s.heat
    BY <1>2, <1>3 DEF Turns
  <2>3. m.run[l] = p.run[l] /\ p.run[l] = FALSE
    BY <1>4, <1>6, <1>7 DEF Sound, Views
  <2> QED BY <2>1, <2>2, <2>3, <1>4, <1>7 DEF Sound
<1>8. ASSUME NEW l \in DOMAIN s.board, l \in Lanes
      PROVE  /\ m.run[l] = s.board[l].run /\ m.snap[l].place = s.board[l].place
             /\ s.board[l].run \/ m.snap[l].time = s.board[l].time
  <2>1. m.snap[l] = [time |-> IF s.board[l].run THEN p.snap[l].time ELSE s.board[l].time,
                     place |-> s.board[l].place]
    BY <1>2, <1>4, <1>8 DEF Updates
  <2> QED BY <2>1, <1>6, <1>8
<1>9. ASSUME NEW l \in Lanes  PROVE ShowsLane(s, m, l)
  <2>1. CASE l \in DOMAIN s.board
    BY <2>1, <1>8 DEF ShowsLane, Of
  <2>2. CASE l \notin DOMAIN s.board
    <3>1. Of(s, l).run = FALSE /\ Of(s, l).place = 0 /\ Of(s, l).time = 0
      BY <2>2 DEF Of, Blank
    <3>2. m.run[l] = FALSE /\ m.snap[l].place = 0 /\ m.snap[l].time = 0
      <4>1. m.run[l] = FALSE /\ m.snap[l] = NoMark
        BY <2>2, <1>7
      <4> QED BY <4>1 DEF NoMark
    <3> QED BY <3>1, <3>2 DEF ShowsLane
  <2> QED BY <2>1, <2>2
<1>10. m \in Agreeing(s)
  <2>1. CASE ~TestBegins(s)
    BY <2>1, <1>4, <1>9, AgreeingSound
  <2>2. CASE TestBegins(s)
    <3>1. m \in Sound(s)
      BY <2>2, <1>7 DEF Sound, TestBegins
    <3> QED BY <2>2, <3>1, <1>4 DEF Agreeing
  <2> QED BY <2>1, <2>2
<1> QED BY <1>1, <1>10, AgreeingClosed

LEMMA ConnectKept ==
  ASSUME KioskInv, Connect  PROVE KioskInv'
<1> DEFINE f1 == Event(IF srv.testing THEN "test_mode" ELSE "no_test_mode")
           f2 == Event(IF srv.overlay THEN "overlay" ELSE "no_overlay")
           f3 == Event("columns")
           f4 == Update(srv.heat, NoLanes)
           f5 == Update(srv.heat, srv.board)
           e == <<>>
           a == Append(e, f1)
           b == Append(a, f2)
           c == Append(b, f3)
           d == Append(c, f4)
           w == Append(d, f5)
           v == View(tv)
           idle == Unannounced(srv)
           C == Sound(srv)
           B == Badged(srv)
           N == Named(srv)
           A == Agreeing(srv)
           L == Listed(srv)
           Q == Quiet(srv)
<1>1. /\ srv \in Servers /\ BoardKept(srv) /\ link \in Links /\ cfg \in Configs
      /\ tv \in Windows /\ Painted(tv) /\ v \in C
  BY DEF KioskInv, Typed, Connect, Away
<1>22. \A f \in {f1, f2, f3, f4} : DOMAIN f.lanes = {} /\ f.kind # "race_finished"
  BY FrameTyped DEF Event, Update
<1>2. /\ f1.kind = (IF srv.testing THEN "test_mode" ELSE "no_test_mode")
      /\ f2.kind = (IF srv.overlay THEN "overlay" ELSE "no_overlay")
      /\ f3.kind = "columns" /\ f4.kind = "update_scoreboard" /\ f5.kind = "update_scoreboard"
  BY DEF Event, Update
<1>3. f1 \in Sent /\ f2 \in Sent /\ f3 \in Sent /\ f4 \in Sent /\ f5 \in Sent
  <2>1. {"test_mode", "no_test_mode", "overlay", "no_overlay", "columns"} \subseteq Kinds
    BY DEF Kinds
  <2>2. srv.heat \in Heats \cup {0} /\ srv.board \in Boards
    BY <1>1 DEF Servers
  <2> QED BY <2>1, <2>2, FrameTyped
<1>4. e \in Seq(Sent) /\ wire' = <<f1, f2, f3, f4, f5>>
  BY DEF Connect, Greet, EventInfo, WholeBoard
<1>5. <<f1, f2, f3, f4, f5>> = w
  OBVIOUS
<1>6. /\ UNCHANGED <<srv>> /\ tv' = [tv EXCEPT !.rebased = ~tv.base]
      /\ link' = [link EXCEPT !.conn = TRUE, !.ever = TRUE, !.lost = FALSE, !.told = FALSE,
                              !.waiting = FALSE, !.covered = FALSE]
      /\ cfg' = [cfg EXCEPT !.fetch = IF @ = "no" THEN "asked" ELSE @]
      /\ ~link.cut
  BY DEF Connect, Greet
<1> HIDE DEF f1, f2, f3, f4, f5
<1>7. /\ \A q \in Views : Becomes(v, q, idle) => q \in C
      /\ \A p \in C : \A q \in Views : Steps(p, f1, q, idle) => q \in B
      /\ \A p \in B : \A q \in Views : Steps(p, f2, q, idle) => q \in B
      /\ \A p \in B : \A q \in Views : Steps(p, f3, q, idle) => q \in B
      /\ \A p \in B : \A q \in Views : Steps(p, f4, q, idle) => q \in N
      /\ \A p \in N : \A q \in Views : Steps(p, f5, q, idle) => q \in A
  <2>1. \A q \in Views : Becomes(v, q, idle) => q \in C
    BY <1>1, SoundClosed
  <2>2. \A p \in C : \A q \in Views : Steps(p, f1, q, idle) => q \in B
    BY <1>1, <1>2, TestFrame
  <2>3. \A p \in B : \A q \in Views : Steps(p, f2, q, idle) => q \in B
    BY <1>1, <1>2, GreetedSide
  <2>4. \A p \in B : \A q \in Views : Steps(p, f3, q, idle) => q \in B
    BY <1>1, <1>2, GreetedSide
  <2>5. \A p \in B : \A q \in Views : Steps(p, f4, q, idle) => q \in N
    BY <1>1, HeatNamed DEF f4
  <2>6. \A p \in N : \A q \in Views : Steps(p, f5, q, idle) => q \in A
    BY <1>1, BoardNamed DEF f5
  <2> QED BY <2>1, <2>2, <2>3, <2>4, <2>5, <2>6
<1>23. /\ \A q \in Views : Becomes(v, q, TRUE) => q \in L
       /\ \A f \in {f1, f2, f3, f4} : \A p \in L : \A q \in Views : Steps(p, f, q, TRUE) => q \in L
       /\ \A p \in L : \A q \in Views : Steps(p, f5, q, TRUE) => q \in Q
  <2>1. \A q \in Views : Becomes(v, q, TRUE) => q \in L
    BY <1>1 DEF Becomes, Rebuilds, Still, Listed, Sound
  <2>2. \A f \in {f1, f2, f3, f4} : \A p \in L : \A q \in Views : Steps(p, f, q, TRUE) => q \in L
    BY <1>1, <1>3, <1>22, ListedQuiet
  <2>3. \A p \in L : \A q \in Views : Steps(p, f5, q, TRUE) => q \in Q
    BY <1>1, <1>3, ListedQuiet DEF f5
  <2> QED BY <2>1, <2>2, <2>3
<1>8. B \subseteq C /\ N \subseteq C /\ A \subseteq C
  BY DEF Badged, Named, Agreeing
<1> HIDE DEF v, idle, C, B, N, A, L, Q
<1>9. Reaches(v, e, idle, C) /\ Keeps(v, e, idle, C)
  BY <1>7, ReachesNothing
<1>24. Reaches(v, e, TRUE, L) /\ Stands(v, e)
  BY <1>23, ReachesNothing
<1> HIDE DEF e
<1>10. a \in Seq(Sent) /\ Reaches(v, a, idle, B) /\ Keeps(v, a, idle, C)
  BY <1>3, <1>4, <1>7, <1>8, <1>9, Chained
<1>25. Reaches(v, a, TRUE, L) /\ Stands(v, a)
  BY <1>3, <1>4, <1>22, <1>23, <1>24, ChainedQuiet
<1> HIDE DEF a
<1>11. b \in Seq(Sent) /\ Reaches(v, b, idle, B) /\ Keeps(v, b, idle, C)
  BY <1>3, <1>7, <1>8, <1>10, Chained
<1>26. Reaches(v, b, TRUE, L) /\ Stands(v, b)
  BY <1>3, <1>10, <1>22, <1>23, <1>25, ChainedQuiet
<1> HIDE DEF b
<1>12. c \in Seq(Sent) /\ Reaches(v, c, idle, B) /\ Keeps(v, c, idle, C)
  BY <1>3, <1>7, <1>8, <1>11, Chained
<1>27. Reaches(v, c, TRUE, L) /\ Stands(v, c)
  BY <1>3, <1>11, <1>22, <1>23, <1>26, ChainedQuiet
<1> HIDE DEF c
<1>13. d \in Seq(Sent) /\ Reaches(v, d, idle, N) /\ Keeps(v, d, idle, C)
  BY <1>3, <1>7, <1>8, <1>12, Chained
<1>28. Reaches(v, d, TRUE, L) /\ Stands(v, d)
  BY <1>3, <1>12, <1>22, <1>23, <1>27, ChainedQuiet
<1> HIDE DEF d
<1>14. w \in Seq(Sent) /\ Reaches(v, w, idle, A) /\ Keeps(v, w, idle, C)
  BY <1>3, <1>7, <1>8, <1>13, Chained
<1>15. SplashSaid(w, tv.splash, srv.overlay)
  <2>1. SplashSaid(b, tv.splash, f2.kind = "overlay")
    BY <1>2, <1>3, <1>10, SaidAppended DEF b, Splashes
  <2>2. (f2.kind = "overlay") = srv.overlay
    BY <1>1, <1>2 DEF Servers
  <2>3. SplashSaid(c, tv.splash, srv.overlay)
    BY <2>1, <2>2, <1>2, <1>3, <1>11, SaidAppended DEF c, Splashes
  <2>4. SplashSaid(d, tv.splash, srv.overlay)
    BY <2>3, <1>2, <1>3, <1>12, SaidAppended DEF d, Splashes
  <2> QED BY <2>4, <1>2, <1>3, <1>13, SaidAppended DEF Splashes
<1>29. Reaches(v, w, TRUE, Q) /\ Stands(v, w)
  BY <1>2, <1>3, <1>13, <1>23, <1>28, ChainedQuiet
<1> HIDE DEF w
<1>16. /\ tv' \in Windows /\ tv.splash' = tv.splash /\ tv.rows' = tv.rows /\ tv.snap' = tv.snap
       /\ tv.step' = tv.step /\ tv.key' = tv.key /\ tv.badge' = tv.badge
  BY <1>1, <1>6 DEF Windows
<1>17. link' \in Links /\ link.conn' /\ ~link.cut'
  BY <1>1, <1>6 DEF Links
<1>18. cfg' \in Configs /\ LayoutKept'
  BY <1>1, <1>6 DEF KioskInv, LayoutKept, Configs, Unannounced
<1>19. Typed' /\ Painted(tv)' /\ BoardKept(srv)'
  BY <1>1, <1>4, <1>5, <1>6, <1>14, <1>16, <1>17, <1>18
     DEF Typed, Painted, Racing, Matches, BoardKept, TestBegins, Of
<1>20. SplashTold' /\ ResetHeard'
  BY <1>4, <1>5, <1>6, <1>15, <1>16, <1>17 DEF SplashTold, ResetHeard
<1>21. Heading' /\ Away' /\ Resting'
  <2>1. View(tv)' = v /\ Unannounced(srv)' = idle /\ Sound(srv)' = C /\ Agreeing(srv)' = A
        /\ Quiet(srv)' = Q
    BY <1>6, <1>16 DEF View, v, idle, C, A, Q
  <2> QED BY <2>1, <1>4, <1>5, <1>14, <1>17, <1>29 DEF Heading, Away, Resting
<1> QED BY <1>18, <1>19, <1>20, <1>21 DEF KioskInv

-----------------------------------------------------------------------------
(* A frame arrives.                                                        *)

\* The frame at the head of the wire is applied; the frames behind it lead on.
LEMMA HeadTaken ==
  ASSUME KioskInv, link.conn, wire # <<>>, NEW q \in Views, Leads(View(tv), Head(wire), q)
  PROVE  /\ Head(wire) \in Sent /\ Tail(wire) \in Seq(Sent)
         /\ Reaches(q, Tail(wire), Unannounced(srv), Agreeing(srv))
         /\ Keeps(q, Tail(wire), Unannounced(srv), Sound(srv))
         /\ Reaches(q, Tail(wire), TRUE, Quiet(srv)) /\ Stands(q, Tail(wire))
<1>1. wire \in Seq(Sent) /\ View(tv) \in Views
  BY ViewTyped DEF KioskInv, Typed
<1>2. Head(wire) \in Sent /\ Tail(wire) \in Seq(Sent)
  BY <1>1
<1>3. Reaches(View(tv), wire, Unannounced(srv), Agreeing(srv))
      /\ Keeps(View(tv), wire, Unannounced(srv), Sound(srv))
  BY DEF KioskInv, Heading
<1>4. Reaches(View(tv), wire, TRUE, Quiet(srv)) /\ Stands(View(tv), wire)
  BY DEF KioskInv, Resting
<1> QED BY <1>1, <1>2, <1>3, <1>4, ReachesFromNext

LEMMA Delivered ==
  ASSUME KioskInv, link.conn, ~link.cut, wire # <<>>, UNCHANGED <<srv, link>>,
         wire' = Tail(wire), tv' \in Windows, Painted(tv'),
         Leads(View(tv), Head(wire), View(tv')),
         IF Head(wire).kind \in Splashes THEN tv.splash' = (Head(wire).kind = "overlay")
         ELSE tv.splash' = tv.splash,
         cfg' \in Configs, LayoutKept'
  PROVE  KioskInv'
<1>1. View(tv') \in Views
  BY ViewTyped
<1>2. /\ Tail(wire) \in Seq(Sent)
      /\ Reaches(View(tv'), Tail(wire), Unannounced(srv), Agreeing(srv))
      /\ Keeps(View(tv'), Tail(wire), Unannounced(srv), Sound(srv))
      /\ Reaches(View(tv'), Tail(wire), TRUE, Quiet(srv)) /\ Stands(View(tv'), Tail(wire))
  BY <1>1, HeadTaken
<1>3. Typed' /\ Painted(tv)' /\ BoardKept(srv)'
  BY <1>2 DEF KioskInv, Typed, BoardKept, TestBegins, Of, Painted, Racing, Matches
<1>4. SplashTold'
  BY SaidTail DEF KioskInv, Typed, SplashTold
<1>5. View(tv)' = View(tv') /\ Unannounced(srv)' = Unannounced(srv) /\ Agreeing(srv)' = Agreeing(srv)
      /\ Sound(srv)' = Sound(srv) /\ Quiet(srv)' = Quiet(srv)
  BY DEF View
<1>6. Heading' /\ Away' /\ Resting' /\ ResetHeard'
  BY <1>2, <1>5 DEF Heading, Away, Resting, ResetHeard
<1> QED BY <1>3, <1>4, <1>6 DEF KioskInv

LEMMA LayoutAlone ==
  ASSUME KioskInv, UNCHANGED <<srv, cfg>>
  PROVE  cfg' \in Configs /\ LayoutKept'
BY DEF KioskInv, Typed, LayoutKept, Unannounced

\* A frame that is not about times.
LEMMA PaintKept ==
  ASSUME KioskInv, link.conn, ~link.cut, wire # <<>>, UNCHANGED srv,
         NEW t \in Windows, Paint(t), Painted(t),
         Leads(View(tv), Head(wire), View(t)),
         IF Head(wire).kind \in Splashes THEN t.splash = (Head(wire).kind = "overlay")
         ELSE t.splash = tv.splash,
         cfg' \in Configs, LayoutKept'
  PROVE  KioskInv'
<1>1. tv' = t /\ wire' = Tail(wire) /\ link' = link
  BY DEF Paint
<1>2. View(tv') = View(t) /\ Painted(tv') /\ tv.splash' = t.splash
  BY <1>1
<1> QED BY <1>1, <1>2, Delivered

\* When the display hears that the race is over none of its lanes swims.
LEMMA StandsByNow ==
  ASSUME KioskInv, link.conn, wire # <<>>, Head(wire).kind = "race_finished"
  PROVE  ~Racing(tv)
<1>1. wire \in Seq(Sent) /\ View(tv) \in Views /\ Stands(View(tv), wire)
  BY ViewTyped DEF KioskInv, Typed, Resting
<1>2. 0 \in 0..(Len(wire) - 1) /\ wire[0 + 1] = Head(wire)
  BY <1>1
<1> DEFINE st == [i \in {0} |-> View(tv)]
<1>3. OnPath(st, 0, View(tv), wire, TRUE)
  BY <1>1 DEF OnPath, Becomes
<1>4. Still(st[0])
  BY <1>1, <1>2, <1>3 DEF Stands
<1> QED BY <1>4 DEF Still, View, Racing

\* race_finished: the clock stops and the podium is shown.
LEMMA FinishPainted ==
  ASSUME NEW t \in Windows, Painted(t), ~Racing(t), NEW f, f.kind = "race_finished"
  PROVE  LET u == HighlightPodium(StopClock(t)) IN
         /\ u \in Windows /\ Painted(u) /\ u.splash = t.splash
         /\ Leads(View(t), f, View(u))
<1> DEFINE s == StopClock(t)
           u == HighlightPodium(s)
<1>1. /\ s \in Windows /\ ~Racing(s)
      /\ s.snap = t.snap /\ s.key = t.key /\ s.badge = t.badge /\ s.splash = t.splash
      /\ s.step = t.step
      /\ \A l \in Lanes : s.rows[l] = [t.rows[l] EXCEPT !.run = FALSE]
  BY StoppedClock
<1>2. ASSUME NEW l \in Lanes
      PROVE  /\ s.rows[l].run = FALSE /\ s.rows[l].place = t.rows[l].place
             /\ s.rows[l].time = t.rows[l].time
  <2>1. s.rows[l] = [t.rows[l] EXCEPT !.run = FALSE] /\ t.rows[l] \in Rows
    BY <1>1 DEF Windows
  <2> HIDE DEF s
  <2> QED BY <2>1 DEF Rows
<1> HIDE DEF s
<1>3. /\ u \in Windows
      /\ u.snap = t.snap /\ u.key = t.key /\ u.badge = t.badge /\ u.splash = t.splash
      /\ u.step = t.step /\ u.rows = s.rows
  BY <1>1, PodiumHighlighted
<1> HIDE DEF u
<1>4. Leads(View(t), f, View(u))
  BY <1>2, <1>3 DEF Leads, View, Still
<1>6. ~Racing(u)
  BY <1>2, <1>3 DEF Racing
<1>7. ASSUME t.step = 0, NEW l \in Lanes  PROVE Matches(u, l)
  BY <1>2, <1>3, <1>7 DEF Painted, Matches, Racing
<1> QED BY <1>3, <1>4, <1>6, <1>7 DEF Painted, s, u

LEMMA RowCleared ==
  ASSUME NEW r \in Rows
  PROVE  /\ ClearedRow(r) \in Rows /\ ClearedRow(r).run = r.run
         /\ ClearedRow(r).time = 0 /\ ClearedRow(r).place = 0
<1> DEFINE a == [r EXCEPT !.time = 0]
           b == [a EXCEPT !.place = 0]
           c == [b EXCEPT !.tint = 0]
<1>1. a \in Rows /\ a.run = r.run /\ a.time = 0
  BY DEF Rows
<1>2. ClearedRow(r) = c
  BY DEF ClearedRow
<1> HIDE DEF a
<1>3. b \in Rows /\ b.run = a.run /\ b.time = a.time /\ b.place = 0
  BY <1>1 DEF Rows
<1> HIDE DEF b
<1>4. c \in Rows /\ c.run = b.run /\ c.time = b.time /\ c.place = b.place
  BY <1>3 DEF Rows
<1> HIDE DEF c
<1> QED BY <1>1, <1>2, <1>3, <1>4

LEMMA ResetApplied ==
  ASSUME NEW t \in Windows
  PROVE  LET u == Reset(t) IN
         /\ u \in Windows /\ Painted(u) /\ u.splash = t.splash /\ u.badge = t.badge
         /\ Cleared(View(u))
<1> DEFINE s == StopClock(t)
           c == CancelTransition(s)
           snap == [l \in Lanes |-> [time |-> 0, place |-> 0]]
           rows == [l \in Lanes |-> ClearedRow(c.rows[l])]
           u == [c EXCEPT !.due = {}, !.shown = FALSE, !.key = Absent, !.cols = TRUE,
                          !.snap = snap, !.rows = rows]
<1>1. u = Reset(t)
  BY Zenon DEF Reset
<1>2. s \in Windows /\ ~Racing(s) /\ s.splash = t.splash /\ s.badge = t.badge
  BY StoppedClock
<1> HIDE DEF s
<1>3. /\ c \in Windows /\ c.splash = t.splash /\ c.badge = t.badge /\ c.step = 0
      /\ \A l \in Lanes : c.rows[l].run = s.rows[l].run
  BY <1>2, TransitionCancelled
<1> HIDE DEF c
<1>4. ASSUME NEW l \in Lanes
      PROVE  /\ rows[l] \in Rows /\ rows[l].run = FALSE /\ rows[l].time = 0 /\ rows[l].place = 0
  <2>1. c.rows[l] \in Rows /\ c.rows[l].run = FALSE
    BY <1>2, <1>3 DEF Windows, Rows, Racing
  <2>2. rows[l] = ClearedRow(c.rows[l])
    OBVIOUS
  <2> HIDE DEF rows
  <2> QED BY <2>1, <2>2, RowCleared
<1>5. rows \in [Lanes -> Rows] /\ Absent \in Int /\ {} \in SUBSET Lanes
      /\ TRUE \in BOOLEAN /\ FALSE \in BOOLEAN
  <2>1. rows \in [Lanes -> Rows]
    BY <1>4
  <2>2. Absent \in Int
    BY DEF Absent
  <2> QED BY <2>1, <2>2
<1>6. /\ snap \in [Lanes -> Marks]
      /\ \A l \in Lanes : snap[l] = NoMark /\ snap[l].time = 0 /\ snap[l].place = 0
  BY DEF NoMark, Marks
<1> HIDE DEF rows, snap
<1>7. /\ u \in Windows /\ u.snap = snap /\ u.rows = rows /\ u.key = Absent /\ u.step = 0
      /\ u.splash = t.splash /\ u.badge = t.badge
  BY <1>3, <1>5, <1>6 DEF Windows
<1> HIDE DEF u
<1>8. Cleared(View(u))
  BY <1>4, <1>6, <1>7 DEF Cleared, Still, View
<1>9. Painted(u)
  BY <1>4, <1>6, <1>7 DEF Painted, Matches
<1> QED BY <1>1, <1>7, <1>8, <1>9

\* A window with another badge, another splash, columns open.
LEMMA Relabelled ==
  ASSUME NEW t \in Windows, Painted(t), NEW b \in BOOLEAN
  PROVE  /\ LET u == [t EXCEPT !.badge = b] IN
            /\ u \in Windows /\ Painted(u) /\ u.splash = t.splash /\ u.badge = b
            /\ View(u).run = View(t).run /\ View(u).snap = View(t).snap /\ View(u).key = View(t).key
         /\ LET u == [t EXCEPT !.splash = b] IN
            u \in Windows /\ Painted(u) /\ u.splash = b /\ View(u) = View(t)
         /\ LET u == [t EXCEPT !.cols = b] IN
            u \in Windows /\ Painted(u) /\ u.splash = t.splash /\ View(u) = View(t)
<1>1. LET u == [t EXCEPT !.badge = b] IN
      /\ u \in Windows /\ Painted(u) /\ u.splash = t.splash /\ u.badge = b
      /\ View(u).run = View(t).run /\ View(u).snap = View(t).snap /\ View(u).key = View(t).key
  <2> DEFINE u == [t EXCEPT !.badge = b]
  <2>1. /\ u \in Windows /\ u.rows = t.rows /\ u.snap = t.snap /\ u.step = t.step
        /\ u.key = t.key /\ u.badge = b /\ u.splash = t.splash
    BY DEF Windows
  <2> QED BY <2>1 DEF Painted, Matches, Racing, View
<1>2. LET u == [t EXCEPT !.splash = b] IN
      u \in Windows /\ Painted(u) /\ u.splash = b /\ View(u) = View(t)
  <2> DEFINE u == [t EXCEPT !.splash = b]
  <2>1. /\ u \in Windows /\ u.rows = t.rows /\ u.snap = t.snap /\ u.step = t.step
        /\ u.key = t.key /\ u.badge = t.badge /\ u.splash = b
    BY DEF Windows
  <2> QED BY <2>1 DEF Painted, Matches, Racing, View
<1>3. LET u == [t EXCEPT !.cols = b] IN
      u \in Windows /\ Painted(u) /\ u.splash = t.splash /\ View(u) = View(t)
  <2> DEFINE u == [t EXCEPT !.cols = b]
  <2>1. /\ u \in Windows /\ u.rows = t.rows /\ u.snap = t.snap /\ u.step = t.step
        /\ u.key = t.key /\ u.badge = t.badge /\ u.splash = t.splash
    BY DEF Windows
  <2> QED BY <2>1 DEF Painted, Matches, Racing, View
<1> QED BY <1>1, <1>2, <1>3

\* A frame of times; the window takes its splash down when it shows a race, and asks
\* the server to do the same.
LEMMA TimesKept ==
  ASSUME KioskInv, link.conn, ~link.cut, wire # <<>>,
         Head(wire).kind \in {"update_scoreboard", "running_time"},
         link' = link, UNCHANGED cfg,
         NEW t, t = ApplyUpdate(tv, Head(wire)), tv' = AfterUpdate(t),
         IF Dismisses(t)
         THEN /\ srv' = [srv EXCEPT !.overlay = FALSE]
              /\ wire' = Tail(wire) \o <<Event("no_overlay")>>
         ELSE srv' = srv /\ wire' = Tail(wire)
  PROVE  KioskInv'
<1> DEFINE f == Head(wire)
           e == Event("no_overlay")
<1>1. tv \in Windows /\ Painted(tv) /\ wire \in Seq(Sent) /\ srv \in Servers /\ BoardKept(srv)
      /\ f \in Sent
  BY DEF KioskInv, Typed
<1>2. t \in Windows /\ Painted(t) /\ t.splash = tv.splash /\ Updates(View(tv), f, View(t))
  BY <1>1, UpdateApplied
<1>3. Leads(View(tv), f, View(t))
  BY <1>2 DEF Leads
<1>4. CASE ~Dismisses(t)
  <2>1. tv' = t /\ srv' = srv /\ wire' = Tail(wire)
    BY <1>4 DEF Dismisses, AfterUpdate
  <2>2. tv' \in Windows /\ Painted(tv') /\ View(tv') = View(t) /\ tv.splash' = tv.splash
    BY <1>2, <2>1
  <2>3. cfg' \in Configs /\ LayoutKept'
    BY <2>1, LayoutAlone
  <2> QED BY <1>3, <2>1, <2>2, <2>3, Delivered DEF Splashes
<1>5. CASE Dismisses(t)
  <2>1. tv' = [t EXCEPT !.splash = FALSE] /\ srv' = [srv EXCEPT !.overlay = FALSE]
    BY <1>5 DEF Dismisses, AfterUpdate
  <2> DEFINE u == [t EXCEPT !.splash = FALSE]
  <2>20. u \in Windows /\ Painted(u) /\ u.splash = FALSE /\ View(u) = View(t)
    BY <1>2, Relabelled, FALSE \in BOOLEAN
  <2>2. tv' \in Windows /\ Painted(tv') /\ View(tv') = View(t)
    BY <2>1, <2>20
  <2>3. View(t) \in Views
    BY <1>2, ViewTyped
  <2> DEFINE x == Tail(wire)
             w == Append(x, e)
  <2>4. /\ x \in Seq(Sent)
        /\ Reaches(View(t), x, Unannounced(srv), Agreeing(srv))
        /\ Keeps(View(t), x, Unannounced(srv), Sound(srv))
        /\ Reaches(View(t), x, TRUE, Quiet(srv)) /\ Stands(View(t), x)
    BY <1>3, <2>3, HeadTaken
  <2>5. e \in Sent /\ e.kind = "no_overlay"
    <3>1. "no_overlay" \in Kinds
      BY DEF Kinds
    <3> QED BY <3>1, FrameTyped DEF Event
  <2>6. wire' = w /\ w \in Seq(Sent)
    BY <1>5, <2>4, <2>5
  <2>7. /\ srv' \in Servers /\ Alike(srv, srv') /\ srv.lanes' = srv.lanes
        /\ srv.overlay' = FALSE /\ srv.layout' = srv.layout
    BY <1>1, <2>1 DEF Servers, Alike
  <2>8. /\ Agreeing(srv)' = Agreeing(srv) /\ Sound(srv)' = Sound(srv) /\ Unannounced(srv)' = Unannounced(srv)
        /\ Quiet(srv)' = Quiet(srv) /\ View(tv)' = View(t)
    <3>1. Agreeing(srv') = Agreeing(srv) /\ Sound(srv') = Sound(srv) /\ Unannounced(srv') = Unannounced(srv)
      BY <2>7, AgreeingAlike
    <3>2. Quiet(srv') = Quiet(srv)
      BY <2>7 DEF Quiet
    <3>3. View(tv)' = View(tv')
      BY DEF View
    <3> QED BY <3>1, <3>2, <3>3, <2>2
  <2> HIDE DEF x, e, f
  <2>9. ASSUME NEW p \in Agreeing(srv), NEW q \in Views, Steps(p, e, q, Unannounced(srv))
        PROVE  q \in Agreeing(srv)
    BY <1>1, <2>5, <2>9, SideFrame
  <2>10. Agreeing(srv) \subseteq Sound(srv)
    BY DEF Agreeing
  <2>11. /\ Reaches(View(t), w, Unannounced(srv), Agreeing(srv))
         /\ Keeps(View(t), w, Unannounced(srv), Sound(srv))
    BY <2>4, <2>5, <2>9, <2>10, Chained
  <2>12. Tells(srv, e, srv)
    BY <2>5 DEF Tells
  <2>13. Reaches(View(t), w, TRUE, Quiet(srv)) /\ Stands(View(t), w)
    BY <2>4, <2>5, <2>12, QuietAppended
  <2>14. SplashSaid(w, tv.splash', FALSE)
    <3>1. SplashSaid(w, tv.splash', e.kind = "overlay")
      BY <2>4, <2>5, SaidAppended DEF Splashes
    <3>2. (e.kind = "overlay") = FALSE
      BY <2>5
    <3> QED BY <3>1, <3>2
  <2> HIDE DEF w
  <2>15. Heading' /\ Away' /\ Resting'
    BY <2>6, <2>8, <2>11, <2>13 DEF Heading, Away, Resting
  <2>16. SplashTold'
    BY <2>6, <2>7, <2>14 DEF SplashTold
  <2>17. ResetHeard' /\ Typed'
    BY <2>2, <2>6, <2>7 DEF KioskInv, Typed, ResetHeard
  <2>18. LayoutKept' /\ BoardKept(srv)'
    BY <1>1, <2>7 DEF KioskInv, LayoutKept, BoardKept, TestBegins, Of, Unannounced, Alike
  <2>19. Painted(tv)'
    BY <2>2 DEF Painted, Matches, Racing
  <2> QED BY <2>15, <2>16, <2>17, <2>18, <2>19 DEF KioskInv
<1> QED BY <1>4, <1>5

LEMMA DeliverKept ==
  ASSUME KioskInv, Deliver  PROVE KioskInv'
<1> DEFINE f == Head(wire)
<1>1. /\ link.conn /\ ~link.cut /\ wire # <<>>
      /\ tv \in Windows /\ Painted(tv) /\ wire \in Seq(Sent) /\ cfg \in Configs
  BY DEF Deliver, KioskInv, Typed
<1>2. f \in Sent /\ View(tv) \in Views
  BY <1>1, ViewTyped
<1> HIDE DEF f
<1>3. CASE /\ f.kind \in {"update_scoreboard", "running_time"}
           /\ link' = link
           /\ LET t == ApplyUpdate(tv, f) IN
              /\ tv' = AfterUpdate(t)
              /\ IF Dismisses(t)
                 THEN /\ srv' = [srv EXCEPT !.overlay = FALSE]
                      /\ wire' = Tail(wire) \o <<Event("no_overlay")>>
                 ELSE srv' = srv /\ wire' = Tail(wire)
           /\ UNCHANGED <<cfg, upd, left>>
  BY <1>1, <1>3, TimesKept DEF f
<1>4. CASE /\ f.kind = "race_finished"
           /\ Paint(HighlightPodium(StopClock(tv)))
           /\ UNCHANGED <<srv, cfg, upd>>
  <2> DEFINE u == HighlightPodium(StopClock(tv))
  <2>1. ~Racing(tv)
    BY <1>1, <1>4, StandsByNow DEF f
  <2>2. u \in Windows /\ Painted(u) /\ u.splash = tv.splash /\ Leads(View(tv), f, View(u))
    BY <1>1, <1>4, <2>1, FinishPainted
  <2>3. cfg' \in Configs /\ LayoutKept'
    BY <1>4, LayoutAlone
  <2> HIDE DEF u
  <2>4. Paint(u) /\ UNCHANGED srv
    BY <1>4 DEF u
  <2> QED BY <1>1, <1>4, <2>2, <2>3, <2>4, PaintKept DEF f, Splashes
<1>5. CASE /\ f.kind = "reset"
           /\ Paint(Reset(tv))
           /\ UNCHANGED <<srv, cfg, upd>>
  <2> DEFINE u == Reset(tv)
  <2>1. /\ u \in Windows /\ Painted(u) /\ u.splash = tv.splash /\ u.badge = tv.badge
        /\ Cleared(View(u))
    BY <1>1, ResetApplied
  <2>2. cfg' \in Configs /\ LayoutKept'
    BY <1>5, LayoutAlone
  <2> HIDE DEF u
  <2>3. Paint(u) /\ UNCHANGED srv
    BY <1>5 DEF u
  <2>4. View(u).badge = View(tv).badge
    BY <2>1 DEF View
  <2>5. Leads(View(tv), f, View(u))
    BY <1>2, <1>5, <2>1, <2>4 DEF Leads, Views
  <2> QED BY <1>1, <1>5, <2>1, <2>2, <2>3, <2>5, PaintKept DEF f, Splashes
<1>6. CASE /\ f.kind = "test_mode"
           /\ Paint([Reset(tv) EXCEPT !.badge = TRUE])
           /\ UNCHANGED <<srv, cfg, upd>>
  <2> DEFINE r == Reset(tv)
             u == [r EXCEPT !.badge = TRUE]
  <2>1. r \in Windows /\ Painted(r) /\ r.splash = tv.splash /\ Cleared(View(r))
    BY <1>1, ResetApplied
  <2> HIDE DEF r
  <2>2. /\ u \in Windows /\ Painted(u) /\ u.splash = tv.splash /\ u.badge = TRUE
        /\ View(u).run = View(r).run /\ View(u).snap = View(r).snap /\ View(u).key = View(r).key
    BY <2>1, Relabelled, TRUE \in BOOLEAN
  <2>3. cfg' \in Configs /\ LayoutKept'
    BY <1>6, LayoutAlone
  <2> HIDE DEF u
  <2>4. Paint(u) /\ UNCHANGED srv
    BY <1>6 DEF u, r
  <2>5. View(u).badge = TRUE
    BY <2>2 DEF View
  <2>6. Cleared(View(u))
    BY <2>1, <2>2 DEF Cleared, Still
  <2>7. Leads(View(tv), f, View(u))
    BY <1>6, <2>5, <2>6 DEF Leads
  <2> QED BY <1>1, <1>6, <2>2, <2>3, <2>4, <2>7, PaintKept DEF f, Splashes
<1>7. CASE /\ f.kind = "no_test_mode"
           /\ Paint([tv EXCEPT !.badge = FALSE])
           /\ UNCHANGED <<srv, cfg, upd>>
  <2> DEFINE u == [tv EXCEPT !.badge = FALSE]
  <2>1. /\ u \in Windows /\ Painted(u) /\ u.splash = tv.splash /\ u.badge = FALSE
        /\ View(u).run = View(tv).run /\ View(u).snap = View(tv).snap /\ View(u).key = View(tv).key
    BY <1>1, Relabelled, FALSE \in BOOLEAN
  <2>2. cfg' \in Configs /\ LayoutKept'
    BY <1>7, LayoutAlone
  <2> HIDE DEF u
  <2>3. Paint(u) /\ UNCHANGED srv
    BY <1>7 DEF u
  <2>4. View(u).badge = FALSE
    BY <2>1 DEF View
  <2>5. Leads(View(tv), f, View(u))
    BY <1>7, <2>1, <2>4 DEF Leads
  <2> QED BY <1>1, <1>7, <2>1, <2>2, <2>3, <2>5, PaintKept DEF f, Splashes
<1>8. CASE /\ f.kind \in {"overlay", "no_overlay"}
           /\ Paint([tv EXCEPT !.splash = (f.kind = "overlay")])
           /\ UNCHANGED <<srv, cfg, upd>>
  <2> DEFINE b == (f.kind = "overlay")
             u == [tv EXCEPT !.splash = b]
  <2>1. b \in BOOLEAN
    OBVIOUS
  <2> HIDE DEF b
  <2>2. u \in Windows /\ Painted(u) /\ u.splash = b /\ View(u) = View(tv)
    <3>1. CASE b = TRUE
      BY <1>1, <3>1, Relabelled, TRUE \in BOOLEAN
    <3>2. CASE b = FALSE
      BY ZenonT(60), <1>1, <3>2, Relabelled, FALSE \in BOOLEAN
    <3> QED BY <2>1, <3>1, <3>2
  <2>3. cfg' \in Configs /\ LayoutKept'
    BY <1>8, LayoutAlone
  <2> HIDE DEF u
  <2>4. Paint(u) /\ UNCHANGED srv
    BY <1>8 DEF u, b
  <2>5. Leads(View(tv), f, View(u))
    BY <1>8, <2>2 DEF Leads
  <2> QED BY <1>1, <1>8, <2>2, <2>3, <2>4, <2>5, PaintKept DEF f, Splashes, b
<1>9. CASE /\ f.kind = "columns"
           /\ Paint([tv EXCEPT !.cols = TRUE])
           /\ UNCHANGED <<srv, cfg, upd>>
  <2> DEFINE u == [tv EXCEPT !.cols = TRUE]
  <2>1. u \in Windows /\ Painted(u) /\ u.splash = tv.splash /\ View(u) = View(tv)
    BY <1>1, Relabelled, TRUE \in BOOLEAN
  <2>2. cfg' \in Configs /\ LayoutKept'
    BY <1>9, LayoutAlone
  <2> HIDE DEF u
  <2>3. Paint(u) /\ UNCHANGED srv
    BY <1>9 DEF u
  <2>4. Leads(View(tv), f, View(u))
    BY <1>9, <2>1 DEF Leads
  <2> QED BY <1>1, <1>9, <2>1, <2>2, <2>3, <2>4, PaintKept DEF f, Splashes
<1>10. CASE /\ f.kind = "reload"
            /\ Paint(tv)
            /\ cfg' = [cfg EXCEPT !.fetch = IF @ = "no" THEN "asked" ELSE @]
            /\ UNCHANGED <<srv, upd>>
  <2>1. Leads(View(tv), f, View(tv))
    BY <1>10 DEF Leads
  <2>2. cfg' \in Configs /\ LayoutKept'
    BY <1>1, <1>10 DEF KioskInv, LayoutKept, Configs, Unannounced
  <2> QED BY <1>1, <1>10, <2>1, <2>2, PaintKept DEF f, Splashes
<1>11. CASE /\ f.kind = "update"
            /\ Paint(tv)
            /\ upd' = OnUpdate
            /\ UNCHANGED <<srv, cfg>>
  <2>1. Leads(View(tv), f, View(tv))
    BY <1>11 DEF Leads
  <2>2. cfg' \in Configs /\ LayoutKept'
    BY <1>11, LayoutAlone
  <2> QED BY <1>1, <1>11, <2>1, <2>2, PaintKept DEF f, Splashes
<1> QED BY <1>3, <1>4, <1>5, <1>6, <1>7, <1>8, <1>9, <1>10, <1>11 DEF Deliver, f

-----------------------------------------------------------------------------
(* The timers, the config and the updater of the display.                  *)

LEMMA PodiumTimerKept ==
  ASSUME KioskInv, NEW l \in Lanes, PodiumTimer(l)  PROVE KioskInv'
<1>1. tv \in Windows /\ Painted(tv) /\ link \in Links
  BY DEF KioskInv, Typed
<1> DEFINE rows == [tv.rows EXCEPT ![l].tint = tv.rows[l].place]
           due == tv.due \ {l}
           u == [tv EXCEPT !.due = due, !.rows = rows]
<1>2. tv' = u /\ UNCHANGED <<srv, wire, link, cfg>>
  BY DEF PodiumTimer
<1>3. rows \in [Lanes -> Rows]
      /\ \A k \in Lanes : /\ rows[k].run = tv.rows[k].run /\ rows[k].place = tv.rows[k].place
                          /\ rows[k].time = tv.rows[k].time
  <2>1. tv.rows \in [Lanes -> Rows]
    BY <1>1 DEF Windows
  <2> QED BY <2>1 DEF Rows
<1>4. due \in SUBSET Lanes
  BY <1>1 DEF Windows
<1> HIDE DEF rows, due
<1>5. /\ u \in Windows /\ u.rows = rows /\ u.snap = tv.snap /\ u.step = tv.step
      /\ u.key = tv.key /\ u.badge = tv.badge /\ u.splash = tv.splash
  BY <1>1, <1>3, <1>4 DEF Windows
<1> HIDE DEF u
<1>6. Painted(u) /\ View(u) = View(tv)
  BY <1>1, <1>3, <1>5 DEF Painted, Matches, Racing, View
<1>7. /\ tv' \in Windows /\ Painted(tv') /\ View(tv') = View(tv) /\ tv.splash' = tv.splash
      /\ link' \in Links /\ link.conn' = link.conn
  BY <1>1, <1>2, <1>5, <1>6
<1>8. cfg' \in Configs /\ LayoutKept' /\ ResetHeard'
  BY <1>2, LayoutAlone DEF KioskInv, ResetHeard
<1> QED BY <1>2, <1>7, <1>8, LookKept

\* Every row emptied and painted from the snapshot.
LEMMA TransitionStepKept ==
  ASSUME KioskInv, TransitionStep  PROVE KioskInv'
<1>1. tv \in Windows /\ Painted(tv) /\ link \in Links /\ tv.step # 0
      /\ UNCHANGED <<srv, wire, link, cfg>>
  BY DEF KioskInv, Typed, TransitionStep
<1>2. ~Racing(tv)
  BY <1>1 DEF Painted
<1>3. tv' \in Windows /\ Painted(tv') /\ View(tv') = View(tv) /\ tv.splash' = tv.splash
  <2>1. CASE tv.step = 1
    <3> DEFINE u == [tv EXCEPT !.step = 2, !.cols = FALSE]
    <3>1. tv' = u
      BY <2>1 DEF TransitionStep
    <3>2. 2 \in 0..3
      OBVIOUS
    <3>3. /\ u \in Windows /\ u.rows = tv.rows /\ u.snap = tv.snap /\ u.step = 2
          /\ u.key = tv.key /\ u.badge = tv.badge /\ u.splash = tv.splash
      BY <1>1, <3>2 DEF Windows
    <3> HIDE DEF u
    <3>4. Painted(u) /\ View(u) = View(tv)
      BY <1>2, <3>3 DEF Painted, Racing, View
    <3> QED BY <3>1, <3>3, <3>4
  <2>2. CASE tv.step = 2
    <3> DEFINE u == [tv EXCEPT !.step = 3]
    <3>1. tv' = u
      BY <2>2 DEF TransitionStep
    <3>2. 3 \in 0..3
      OBVIOUS
    <3>3. /\ u \in Windows /\ u.rows = tv.rows /\ u.snap = tv.snap /\ u.step = 3
          /\ u.key = tv.key /\ u.badge = tv.badge /\ u.splash = tv.splash
      BY <1>1, <3>2 DEF Windows
    <3> HIDE DEF u
    <3>4. Painted(u) /\ View(u) = View(tv)
      BY <1>2, <3>3 DEF Painted, Racing, View
    <3> QED BY <3>1, <3>3, <3>4
  <2>3. CASE tv.step = 3
    <3> DEFINE rows == [l \in Lanes |-> ClearedRow(tv.rows[l])]
               s == [tv EXCEPT !.step = 0, !.rows = rows]
               u == UpdateRows(s, Lanes)
    <3>1. tv' = u
      BY <2>3 DEF TransitionStep, Refresh
    <3>2. rows \in [Lanes -> Rows] /\ \A l \in Lanes : rows[l].run = tv.rows[l].run
      BY <1>1, RowCleared DEF Windows
    <3> HIDE DEF rows
    <3>3. 0 \in 0..3
      OBVIOUS
    <3>4. /\ s \in Windows /\ s.rows = rows /\ s.snap = tv.snap /\ s.step = 0
          /\ s.key = tv.key /\ s.badge = tv.badge /\ s.splash = tv.splash
      BY <1>1, <3>2, <3>3 DEF Windows
    <3> HIDE DEF s
    <3>5. /\ u \in Windows
          /\ u.snap = tv.snap /\ u.key = tv.key /\ u.badge = tv.badge /\ u.splash = tv.splash
          /\ u.step = 0
          /\ \A l \in Lanes : u.rows[l].run = tv.rows[l].run
          /\ \A l \in Lanes : Matches(u, l)
      BY <3>2, <3>4, Refreshed
    <3> HIDE DEF u
    <3>6. Painted(u) /\ View(u) = View(tv)
      BY <3>5 DEF Painted, View
    <3> QED BY <3>1, <3>5, <3>6
  <2> QED BY <1>1, <2>1, <2>2, <2>3 DEF Windows
<1>4. cfg' \in Configs /\ LayoutKept' /\ ResetHeard'
  BY <1>1, LayoutAlone DEF KioskInv, ResetHeard
<1> QED BY <1>1, <1>3, <1>4, LookKept

LEMMA AnswerKept ==
  ASSUME KioskInv, Answer  PROVE KioskInv'
<1>1. link' \in Links /\ link.conn' = link.conn /\ ResetHeard'
  BY DEF KioskInv, Typed, Answer, ResetHeard
<1>2. srv \in Servers /\ cfg \in Configs /\ srv.layout \in Nat
  BY DEF KioskInv, Typed, Servers
<1>3. cfg' \in Configs /\ LayoutKept'
  <2>1. cfg' = [cfg EXCEPT !.fetch = "read", !.reply = srv.layout] /\ srv' = srv
    BY DEF Answer
  <2>2. "read" \in {"no", "asked", "read"}
    OBVIOUS
  <2>3. cfg' \in Configs /\ cfg.reply' = srv.layout /\ cfg.layout' = cfg.layout
    BY <1>2, <2>1, <2>2 DEF Configs
  <2>4. cfg.layout <= srv.layout /\ srv.layout <= srv.layout
        /\ (cfg.layout # srv.layout => Unannounced(srv) /\ ~srv.overlay)
    BY <1>2 DEF KioskInv, LayoutKept
  <2> QED BY <2>1, <2>3, <2>4 DEF LayoutKept, Unannounced
<1> QED BY <1>1, <1>3, WindowKept DEF Answer

LEMMA FetchFailsKept ==
  ASSUME KioskInv, FetchFails  PROVE KioskInv'
<1>1. link' \in Links /\ link.conn' = link.conn /\ ResetHeard'
  BY DEF KioskInv, Typed, FetchFails, ResetHeard
<1>2. cfg \in Configs
  BY DEF KioskInv, Typed
<1>3. cfg' \in Configs /\ LayoutKept'
  BY <1>2 DEF KioskInv, FetchFails, LayoutKept, Configs, Unannounced
<1> QED BY <1>1, <1>3, WindowKept DEF FetchFails

\* The updater of the display touches nothing of the board.
LEMMA UpdaterKept ==
  ASSUME KioskInv, UNCHANGED <<srv, wire, link, tv, cfg>>  PROVE KioskInv'
<1>1. link' \in Links /\ link.conn' = link.conn /\ ResetHeard'
  BY DEF KioskInv, Typed, ResetHeard
<1> QED BY <1>1, LayoutAlone, WindowKept

\* A window that the theme was painted on again.
LEMMA ThemePainted ==
  ASSUME NEW t \in Windows, Painted(t)
  PROVE  LET u == Themed(t) IN
         u \in Windows /\ Painted(u) /\ u.splash = t.splash /\ View(u) = View(t)
<1> DEFINE rows == [l \in Lanes |-> [t.rows[l] EXCEPT !.tint = t.rows[l].place]]
           s == [t EXCEPT !.rows = rows]
           u == UpdateRows(s, Lanes)
<1>1. u = Themed(t)
  BY DEF Themed, Refresh
<1>2. ASSUME NEW l \in Lanes  PROVE rows[l] \in Rows /\ rows[l].run = t.rows[l].run
  <2>1. t.rows[l] \in Rows
    BY DEF Windows
  <2> QED BY <2>1 DEF Rows
<1>3. rows \in [Lanes -> Rows]
  BY <1>2
<1> HIDE DEF rows
<1>4. /\ s \in Windows /\ s.rows = rows /\ s.snap = t.snap /\ s.step = t.step
      /\ s.key = t.key /\ s.badge = t.badge /\ s.splash = t.splash
  BY <1>3 DEF Windows
<1> HIDE DEF s
<1>5. /\ u \in Windows
      /\ u.snap = t.snap /\ u.key = t.key /\ u.badge = t.badge /\ u.splash = t.splash
      /\ u.step = t.step
      /\ \A l \in Lanes : u.rows[l].run = t.rows[l].run
      /\ \A l \in Lanes : Matches(u, l)
  BY <1>2, <1>4, Refreshed
<1> HIDE DEF u
<1>6. Painted(u) /\ View(u) = View(t)
  BY <1>5 DEF Painted, Racing, View
<1> QED BY <1>1, <1>5, <1>6

LEMMA WindowBegun ==
  /\ NewWindow \in Windows /\ Painted(NewWindow) /\ Cleared(View(NewWindow))
  /\ NewWindow.splash = FALSE /\ NewWindow.badge = FALSE
<1> DEFINE n == NewWindow
<1>1. /\ n.snap = [l \in Lanes |-> [time |-> 0, place |-> 0]]
      /\ n.rows = [l \in Lanes |-> [run |-> FALSE, time |-> 0, place |-> 0, tint |-> 0]]
      /\ n.key = Absent /\ n.step = 0 /\ n.splash = FALSE /\ n.badge = FALSE
  BY DEF NewWindow
<1>2. 0 \in 0..3 /\ Absent \in Int
  BY DEF Absent
<1>3. n \in Windows
  BY <1>2 DEF NewWindow, Windows, Marks, Rows
<1> HIDE DEF n
<1>4. Cleared(View(n))
  BY <1>1 DEF Cleared, Still, View, NoMark
<1>5. Painted(n)
  BY <1>1 DEF Painted, Matches
<1> QED BY <1>1, <1>3, <1>4, <1>5 DEF n

\* The window rebuilt for another layout shows the snapshot of the one before.
LEMMA WindowRebuilt ==
  ASSUME NEW t \in Windows
  PROVE  LET u == Refresh([NewWindow EXCEPT !.snap = t.snap]) IN
         u \in Windows /\ Painted(u) /\ u.splash = FALSE /\ Rebuilds(View(t), View(u))
<1> DEFINE s == [NewWindow EXCEPT !.snap = t.snap]
           u == UpdateRows(s, Lanes)
<1>1. u = Refresh([NewWindow EXCEPT !.snap = t.snap])
  BY DEF Refresh
<1>2. /\ s \in Windows /\ s.snap = t.snap /\ s.step = 0 /\ s.key = Absent
      /\ s.badge = FALSE /\ s.splash = FALSE
      /\ \A l \in Lanes : s.rows[l].run = FALSE
  <2>1. t.snap \in [Lanes -> Marks] /\ NewWindow \in Windows
    BY WindowBegun DEF Windows
  <2>2. s \in Windows
    BY <2>1 DEF Windows
  <2> QED BY <2>2 DEF NewWindow
<1> HIDE DEF s
<1>3. /\ u \in Windows
      /\ u.snap = t.snap /\ u.key = Absent /\ u.badge = FALSE /\ u.splash = FALSE
      /\ u.step = 0
      /\ \A l \in Lanes : u.rows[l].run = FALSE
      /\ \A l \in Lanes : Matches(u, l)
  BY <1>2, Refreshed
<1> HIDE DEF u
<1>4. Painted(u) /\ Rebuilds(View(t), View(u))
  BY <1>3 DEF Painted, Rebuilds, Still, View
<1> QED BY <1>1, <1>3, <1>4

LEMMA OnConfigKept ==
  ASSUME KioskInv, OnConfig  PROVE KioskInv'
<1>1. /\ cfg.fetch = "read" /\ UNCHANGED <<srv, wire>>
      /\ cfg' = [cfg EXCEPT !.fetch = "no", !.have = TRUE, !.layout = cfg.reply, !.reply = 0]
  BY DEF OnConfig
<1>2. /\ srv \in Servers /\ cfg \in Configs /\ link \in Links /\ tv \in Windows /\ Painted(tv)
      /\ wire \in Seq(Sent)
  BY DEF KioskInv, Typed
<1>3. cfg' \in Configs /\ cfg.layout' = cfg.reply /\ cfg.fetch' = "no"
  <2>1. "no" \in {"no", "asked", "read"} /\ TRUE \in BOOLEAN /\ 0 \in Nat /\ cfg.reply \in Nat
    BY <1>2 DEF Configs
  <2> QED BY <2>1, <1>1, <1>2 DEF Configs
<1>4. /\ cfg.layout <= cfg.reply /\ cfg.reply <= srv.layout
      /\ cfg.layout # srv.layout => Unannounced(srv) /\ ~srv.overlay
      /\ {cfg.layout, cfg.reply, srv.layout} \subseteq Nat
  BY <1>1, <1>2 DEF KioskInv, LayoutKept, Configs, Servers
<1>5. LayoutKept'
  BY <1>1, <1>3, <1>4 DEF LayoutKept, Unannounced
<1>6. CASE cfg.reply = cfg.layout
  <2>1. tv' = Themed(tv) /\ link' = link
    BY <1>6 DEF OnConfig
  <2>2. tv' \in Windows /\ Painted(tv') /\ View(tv') = View(tv) /\ tv.splash' = tv.splash
    BY <1>2, <2>1, ThemePainted
  <2>3. link' \in Links /\ link.conn' = link.conn /\ ResetHeard'
    BY <1>1, <1>2, <2>1 DEF KioskInv, ResetHeard
  <2> QED BY <1>1, <1>3, <1>5, <2>2, <2>3, LookKept
<1>7. CASE cfg.reply # cfg.layout
  <2>1. Rebuilt
    BY <1>7 DEF OnConfig
  <2>2. Unannounced(srv) /\ srv.overlay = FALSE
    <3>1. cfg.layout # srv.layout
      BY <1>4, <1>7
    <3> QED BY <3>1, <1>2, <1>4 DEF Servers
  <2>3. tv' \in Windows /\ Painted(tv') /\ tv.splash' = FALSE /\ Rebuilds(View(tv), View(tv'))
    BY <1>2, <2>1, WindowRebuilt DEF Rebuilt
  <2>4. link' \in Links /\ link.conn' = link.conn /\ link.cut' = link.cut
    BY <1>2, <2>1 DEF Rebuilt, Links
  <2>5. Typed' /\ BoardKept(srv)' /\ ResetHeard'
    BY <1>1, <1>2, <1>3, <2>3, <2>4 DEF KioskInv, Typed, BoardKept, TestBegins, Of, ResetHeard
  <2>6. Painted(tv)'
    BY <2>3 DEF Painted, Matches, Racing
  <2>7. SplashTold'
    BY <1>1, <2>2, <2>3, <2>4 DEF KioskInv, SplashTold, SplashSaid
  <2>8. /\ View(tv)' = View(tv') /\ Unannounced(srv)' = Unannounced(srv) /\ Agreeing(srv)' = Agreeing(srv)
        /\ Sound(srv)' = Sound(srv) /\ Quiet(srv)' = Quiet(srv)
    BY <1>1 DEF View
  <2>9. View(tv') \in Views /\ Unannounced(srv) = TRUE
    BY <2>2, <2>3, ViewTyped DEF Unannounced
  <2>10. ASSUME link.conn
         PROVE  /\ Reaches(View(tv'), wire, Unannounced(srv), Agreeing(srv))
                /\ Keeps(View(tv'), wire, Unannounced(srv), Sound(srv))
    BY <2>3, <2>9, <2>10, ReachesRebuilt DEF KioskInv, Heading
  <2>11. ASSUME link.conn
         PROVE  Reaches(View(tv'), wire, TRUE, Quiet(srv)) /\ Stands(View(tv'), wire)
    BY <2>3, <2>11, ReachesRebuilt DEF KioskInv, Resting
  <2>12. ASSUME ~link.conn  PROVE View(tv') \in Sound(srv) /\ wire = <<>>
    <3>1. View(tv) \in Sound(srv) /\ wire = <<>>
      BY <2>12 DEF KioskInv, Away
    <3>2. Becomes(View(tv), View(tv'), Unannounced(srv))
      BY <2>3, <2>9 DEF Becomes
    <3> QED BY <1>2, <2>9, <3>1, <3>2, SoundClosed
  <2>13. Heading' /\ Away' /\ Resting'
    BY <1>1, <2>4, <2>8, <2>10, <2>11, <2>12 DEF Heading, Away, Resting
  <2> QED BY <1>5, <2>5, <2>6, <2>7, <2>13 DEF KioskInv
<1> QED BY <1>6, <1>7

LEMMA RestartKept ==
  ASSUME KioskInv, Restart  PROVE KioskInv'
<1>1. /\ tv' = NewWindow /\ wire' = <<>> /\ link' = [NewLink EXCEPT !.cut = link.cut]
      /\ cfg' = [cfg EXCEPT !.fetch = "asked", !.have = FALSE, !.reply = 0]
      /\ srv' = srv
  BY DEF Restart, Fresh
<1>2. srv \in Servers /\ cfg \in Configs /\ link \in Links
  BY DEF KioskInv, Typed
<1>3. link' \in Links /\ link.conn' = FALSE
  BY <1>1, <1>2 DEF NewLink, Links
<1>4. cfg' \in Configs /\ cfg.layout' = cfg.layout /\ cfg.fetch' = "asked"
  <2>1. "asked" \in {"no", "asked", "read"} /\ FALSE \in BOOLEAN /\ 0 \in Nat
    OBVIOUS
  <2> QED BY <2>1, <1>1, <1>2 DEF Configs
<1>5. LayoutKept'
  BY <1>1, <1>4 DEF KioskInv, LayoutKept, Unannounced
<1>6. Typed' /\ BoardKept(srv)'
  BY <1>1, <1>2, <1>3, <1>4, WindowBegun DEF KioskInv, Typed, BoardKept, TestBegins, Of
<1>7. Painted(tv)'
  BY <1>1, WindowBegun DEF Painted, Matches, Racing
<1>8. View(NewWindow) \in Sound(srv)
  BY <1>2, WindowBegun, ViewTyped, SoundClosed
<1>9. View(tv)' = View(NewWindow) /\ Sound(srv)' = Sound(srv)
  BY <1>1 DEF View
<1>10. SplashTold' /\ Heading' /\ Away' /\ Resting'
  BY <1>1, <1>3, <1>8, <1>9 DEF SplashTold, Heading, Away, Resting
<1>11. ResetHeard'
  BY <1>1 DEF ResetHeard
<1> QED BY <1>5, <1>6, <1>7, <1>10, <1>11 DEF KioskInv

-----------------------------------------------------------------------------
(* BoardIsServers.                                                         *)

LEMMA KioskInvInit == KioskInit => KioskInv
<1> SUFFICES ASSUME KioskInit  PROVE KioskInv
  OBVIOUS
<1> USE DEF KioskInit
<1>1. srv \in Servers
  <2>1. [l \in Lanes |-> Blank] \in [Lanes -> Swims] /\ NoLanes \in Boards
    BY FrameTyped DEF Blank, Swims
  <2>2. 0 \in Heats \cup {0} /\ TRUE \in BOOLEAN /\ FALSE \in BOOLEAN /\ 0 \in Nat /\ 1 \in Nat
    OBVIOUS
  <2> QED BY <2>1, <2>2 DEF Servers
<1>2. link \in Links /\ ~link.conn /\ ~link.cut
  BY DEF Links, NewLink
<1>3. cfg \in Configs /\ cfg.layout = 1 /\ cfg.fetch = "asked" /\ srv.layout = 1
  BY DEF Configs
<1>4. tv \in Windows /\ Painted(tv) /\ wire \in Seq(Sent) /\ wire = <<>>
  BY WindowBegun
<1>5. BoardKept(srv)
  <2>1. \A l \in Lanes : Of(srv, l) = Blank /\ srv.lanes[l] = Blank
    BY FrameTyped DEF Of
  <2> QED BY <2>1 DEF BoardKept
<1>6. LayoutKept
  <2>1. cfg.layout = srv.layout /\ cfg.layout \in Nat /\ cfg.fetch # "read"
    BY <1>3
  <2> QED BY <2>1 DEF LayoutKept
<1>8. SplashTold /\ ResetHeard /\ Heading /\ Resting
  BY <1>2 DEF SplashTold, ResetHeard, Heading, Resting
<1>7. Away
  <2>1. View(NewWindow) \in Sound(srv)
    BY <1>1, WindowBegun, ViewTyped, SoundClosed
  <2> QED BY <2>1 DEF Away
<1> QED BY <1>1, <1>2, <1>3, <1>4, <1>5, <1>6, <1>7, <1>8 DEF KioskInv, Typed

LEMMA KioskInvNext ==
  ASSUME KioskInv, Undisturbed, [KioskNext]_kioskVars  PROVE KioskInv'
<1>1. CASE Server
  <2>1. ASSUME NEW h \in Heats, NewHeat(h)  PROVE KioskInv'
    BY <2>1, NewHeatKept
  <2>2. ASSUME NEW ls \in SUBSET Lanes \ {{}}, Start(ls)  PROVE KioskInv'
    BY <2>2, StartKept
  <2>3. ASSUME NEW l \in Lanes, Resume(l) \/ Touch(l) \/ Finish(l)  PROVE KioskInv'
    BY <2>3, ResumeKept, TouchKept, FinishKept
  <2>4. CASE RunningTime \/ RaceFinished \/ BoardReset \/ OtherConnects
    BY <2>4, RunningTimeKept, RaceFinishedKept, BoardResetKept, OtherConnectsKept
  <2>5. ASSUME NEW on \in BOOLEAN, Overlay(on)  PROVE KioskInv'
    BY <2>5, OverlayKept
  <2>6. CASE TestStarts \/ TestEnds \/ Save \/ Press
    BY <2>6, TestStartsKept, TestEndsKept, SaveKept, PressKept
  <2> QED BY <1>1, <2>1, <2>2, <2>3, <2>4, <2>5, <2>6 DEF Server
<1>2. CASE Faults \/ Mended
  BY <1>2, CutKept, ServerRestartsKept, MendedKept DEF Faults
<1>3. CASE Display
  <2>1. CASE Connect \/ GoesStale \/ RetryFails \/ AnnounceDrop \/ Deliver \/ TransitionStep
    BY <2>1, ConnectKept, GoesStaleKept, RetryFailsKept, AnnounceDropKept, DeliverKept,
       TransitionStepKept
  <2>2. ASSUME NEW l \in Lanes, PodiumTimer(l)  PROVE KioskInv'
    BY <2>2, PodiumTimerKept
  <2>3. CASE Answer \/ FetchFails \/ OnConfig \/ Restart
    BY <2>3, AnswerKept, FetchFailsKept, OnConfigKept, RestartKept
  <2>4. CASE MenuUpdate \/ \E ok \in BOOLEAN : UpdateEnds(ok)
    BY <2>4, UpdaterKept DEF MenuUpdate, UpdateEnds
  <2> QED BY <1>3, <2>1, <2>2, <2>3, <2>4 DEF Display
<1>4. CASE UNCHANGED kioskVars
  BY <1>4, UpdaterKept DEF kioskVars
<1> QED BY <1>1, <1>2, <1>3, <1>4 DEF KioskNext

\* A view that agrees with the server is a board that shows it.
LEMMA AgreeingShown ==
  ASSUME KioskInv  PROVE BoardIsServers
<1> SUFFICES ASSUME CaughtUp, ~TestJustStarted  PROVE BoardShown
  BY DEF BoardIsServers
<1>1. View(tv) \in Views /\ wire \in Seq(Sent) /\ wire = <<>> /\ Unannounced(srv) \in BOOLEAN /\ tv.step = 0
  BY ViewTyped DEF KioskInv, Typed, CaughtUp, Unannounced
<1>2. View(tv) \in Agreeing(srv)
  BY <1>1, ReachesByNow DEF KioskInv, Heading, CaughtUp
<1>3. ~TestBegins(srv)
  BY DEF TestBegins, TestJustStarted
<1>4. tv.badge = srv.testing /\ tv.key \in {srv.heat, Absent}
  BY <1>2 DEF Agreeing, View
<1>5. tv.splash = srv.overlay
  BY <1>1 DEF KioskInv, SplashTold, SplashSaid, CaughtUp
<1>6. ASSUME NEW l \in Lanes  PROVE RowShows(l)
  <2>1. ShowsLane(srv, View(tv), l)
    BY <1>2, <1>3 DEF Agreeing
  <2>2. Matches(tv, l)
    BY <1>1 DEF KioskInv, Painted
  <2>3. Published(l) = Of(srv, l)
    BY DEF Published, Of
  <2> QED BY <2>1, <2>2, <2>3 DEF RowShows, ShowsLane, Matches, View
<1> QED BY <1>4, <1>5, <1>6 DEF BoardShown

\* A display that has caught up shows the server's board, whatever was cut, restarted,
\* replayed or rebuilt: where no layout is saved over a board in use, the server does
\* not restart with a lane running, and the end of a test session is heard.
THEOREM BoardAlwaysServers ==
  ASSUME Undisturbed  PROVE KioskSpec => []BoardIsServers
<1>1. KioskInit => KioskInv
  BY KioskInvInit
<1>2. KioskInv /\ [KioskNext]_kioskVars => KioskInv'
  BY KioskInvNext
<1>3. KioskInv => BoardIsServers
  BY AgreeingShown
<1> QED BY <1>1, <1>2, <1>3, PTL DEF KioskSpec
-----------------------------------------------------------------------------
(* The podium: the inductive invariant of PodiumFollowsPlaces.             *)

\* A lane of the server that may finish: it swims, or comes back from the wall.
Live(s, l) == s.lanes[l].run \/ (s.swim # 0 /\ s.lanes[l].time = 2 * s.swim - 1)

\* The place p of the lane l is the last it was given, if it was given any since.
Fits(s, l, p) == p # 0 => ~Live(s, l) /\ s.lanes[l].place \in {0, p}

\* A lane has its place after it swam.
PlacesLast(s) == \A l \in Lanes : Live(s, l) => s.lanes[l].place = 0

\* A frame of times brings lanes, and names the heat they swim.
Timed(f) == f.kind \in {"update_scoreboard", "running_time"}
Brings(f, l) == Timed(f) /\ l \in DOMAIN f.lanes
StartsIn(w, m, l) == \E k \in (m + 1)..Len(w) : Brings(w[k], l) /\ w[k].lanes[l].run
Empties(f) == f.kind \in {"reset", "test_mode"}
Wipes(f, l) == Empties(f) \/ (Brings(f, l) /\ f.lanes[l].place = 0)
Names(key, f) == Timed(f) /\ f.heat # Absent /\ f.heat # key

\* A place in flight is the lane's last, or a frame behind it has the lane start.
FramesFit(s, w) ==
    \A m \in 1..Len(w), l \in Lanes : Brings(w[m], l) =>
        /\ w[m].lanes[l].run => w[m].lanes[l].place = 0
        /\ StartsIn(w, m, l) \/ Fits(s, l, w[m].lanes[l].place)

\* Between two places in flight there is a frame that wipes the first.
WipedBetween(w) ==
    \A m \in 1..Len(w), n \in 1..Len(w), l \in Lanes :
        m < n /\ Brings(w[m], l) /\ Brings(w[n], l) =>
            \/ w[m].lanes[l].place = 0 \/ w[n].lanes[l].place \in {0, w[m].lanes[l].place}
            \/ \E k \in (m + 1)..(n - 1) : Wipes(w[k], l)

\* And before a place in flight one that wipes the window's.
WipedBefore(w, key, snap) ==
    \A n \in 1..Len(w), l \in Lanes : Brings(w[n], l) =>
        \/ snap[l].place = 0 \/ w[n].lanes[l].place \in {0, snap[l].place}
        \/ \E k \in 1..(n - 1) : Wipes(w[k], l) \/ Names(key, w[k])

\* The window's places are the last, or else a frame in flight empties it, names
\* another heat or has the lane start.
WindowFits(s, w, key, snap) ==
    \A l \in Lanes :
        \/ Fits(s, l, snap[l].place) \/ StartsIn(w, 0, l)
        \/ key # s.heat /\ \E k \in 1..Len(w) : Empties(w[k]) \/ Names(key, w[k])

\* What is in flight may be lost only when the window's places of the heat are the last.
LossFits(s, key, snap) == key = s.heat => \A l \in Lanes : Fits(s, l, snap[l].place)

FlightFits(s, w, key, snap) ==
    FramesFit(s, w) /\ WipedBetween(w) /\ WipedBefore(w, key, snap) /\ WindowFits(s, w, key, snap)

\* A tint is that of the place the window has.
Tinted(t) == t.step = 0 => \A l \in Lanes : t.rows[l].tint \in {0, t.snap[l].place}

PlacesInv ==
    /\ PlacesLast(srv)
    /\ link.conn => FlightFits(srv, wire, tv.key, tv.snap)
    /\ ~link.conn \/ link.cut => LossFits(srv, tv.key, tv.snap)

PodiumInv == PlacesInv /\ Tinted(tv)

\* A frame f that the server, in s, sends and then is in r: a place it brings is
\* that of a lane that was live; a place that fitted does, or its lane starts.
Follows(s, f, r) ==
    /\ \A l \in Lanes : Brings(f, l) =>
        /\ f.lanes[l].run => f.lanes[l].place = 0
        /\ f.lanes[l].place # 0 => Live(s, l) /\ Fits(r, l, f.lanes[l].place)
    /\ \A l \in Lanes : \/ Brings(f, l) /\ f.lanes[l].run
                        \/ \A p \in Int : Fits(s, l, p) => Fits(r, l, p)
    /\ s.heat = r.heat \/ \A l \in Lanes, p \in Int : Fits(r, l, p)

LEMMA FrameFlies ==
  ASSUME NEW s, NEW r, NEW w \in Seq(Sent), NEW f \in Sent, NEW key, NEW snap \in [Lanes -> Marks],
         FlightFits(s, w, key, snap), Follows(s, f, r)
  PROVE  FlightFits(r, Append(w, f), key, snap)
<1> DEFINE u == Append(w, f)
<1>1. /\ u \in Seq(Sent) /\ Len(w) \in Nat /\ Len(u) = Len(w) + 1 /\ u[Len(w) + 1] = f
      /\ \A k \in 1..Len(w) : u[k] = w[k]
  OBVIOUS
<1> HIDE DEF u
<1>2. ASSUME NEW l \in Lanes, NEW x \in Sent, Brings(x, l)
      PROVE  x.lanes[l] \in Swims /\ x.lanes[l].place \in Int
  BY <1>2, BoardFacts DEF Brings, Sent, Swims
<1>3. \A l \in Lanes, m \in 0..Len(w) : StartsIn(w, m, l) => StartsIn(u, m, l)
  BY <1>1 DEF StartsIn
<1>4. \A l \in Lanes, m \in 0..Len(w) : Brings(f, l) /\ f.lanes[l].run => StartsIn(u, m, l)
  BY <1>1 DEF StartsIn
<1>5. ASSUME NEW l \in Lanes, NEW m \in 0..Len(w), NEW p \in Int, StartsIn(w, m, l) \/ Fits(s, l, p)
      PROVE  StartsIn(u, m, l) \/ Fits(r, l, p)
  BY <1>3, <1>4, <1>5 DEF Follows
<1>6. ASSUME NEW l \in Lanes, NEW m \in 0..Len(w), StartsIn(w, m, l)
      PROVE  \E k \in (m + 1)..Len(w) : Wipes(w[k], l)
  <2>1. PICK k \in (m + 1)..Len(w) : Brings(w[k], l) /\ w[k].lanes[l].run
    BY <1>6 DEF StartsIn
  <2>2. k \in 1..Len(w)
    BY <1>1
  <2>3. w[k].lanes[l].place = 0
    BY <2>1, <2>2 DEF FlightFits, FramesFit
  <2> QED BY <2>1, <2>3 DEF Wipes
<1>7. FramesFit(r, u)
  <2> SUFFICES ASSUME NEW m \in 1..Len(u), NEW l \in Lanes, Brings(u[m], l)
               PROVE  /\ u[m].lanes[l].run => u[m].lanes[l].place = 0
                      /\ StartsIn(u, m, l) \/ Fits(r, l, u[m].lanes[l].place)
    BY DEF FramesFit
  <2>1. CASE m = Len(w) + 1
    <3>1. u[m] = f
      BY <2>1, <1>1
    <3> QED BY <3>1 DEF Follows, Fits
  <2>2. CASE m # Len(w) + 1
    <3>1. m \in 1..Len(w) /\ u[m] = w[m] /\ w[m] \in Sent
      BY <2>2, <1>1
    <3>2. /\ w[m].lanes[l].run => w[m].lanes[l].place = 0
          /\ StartsIn(w, m, l) \/ Fits(s, l, w[m].lanes[l].place)
      BY <3>1 DEF FlightFits, FramesFit
    <3>3. w[m].lanes[l].place \in Int /\ m \in 0..Len(w)
      BY <3>1, <1>1, <1>2
    <3> QED BY <3>1, <3>2, <3>3, <1>5
  <2> QED BY <2>1, <2>2
<1>8. WipedBetween(u)
  <2> SUFFICES ASSUME NEW m \in 1..Len(u), NEW n \in 1..Len(u), NEW l \in Lanes, m < n,
                      Brings(u[m], l), Brings(u[n], l)
               PROVE  \/ u[m].lanes[l].place = 0
                      \/ u[n].lanes[l].place \in {0, u[m].lanes[l].place}
                      \/ \E k \in (m + 1)..(n - 1) : Wipes(u[k], l)
    BY DEF WipedBetween
  <2>1. m \in 1..Len(w) /\ u[m] = w[m] /\ m \in 0..Len(w)
    BY <1>1
  <2>2. CASE n = Len(w) + 1
    <3>1. u[n] = f /\ n - 1 = Len(w)
      BY <2>2, <1>1
    <3>2. CASE StartsIn(w, m, l)
      <4>1. PICK k \in (m + 1)..Len(w) : Wipes(w[k], l)
        BY <3>2, <2>1, <1>6
      <4>2. k \in (m + 1)..(n - 1) /\ u[k] = w[k]
        BY <3>1, <1>1
      <4> QED BY <4>1, <4>2
    <3>3. CASE Fits(s, l, w[m].lanes[l].place)
      BY <3>1, <3>3, <2>1 DEF Follows, Fits
    <3> QED BY <3>2, <3>3, <2>1 DEF FlightFits, FramesFit
  <2>3. CASE n # Len(w) + 1
    <3>1. n \in 1..Len(w) /\ u[n] = w[n]
      BY <2>3, <1>1
    <3>2. \/ w[m].lanes[l].place = 0
          \/ w[n].lanes[l].place \in {0, w[m].lanes[l].place}
          \/ \E k \in (m + 1)..(n - 1) : Wipes(w[k], l)
      BY <3>1, <2>1 DEF FlightFits, WipedBetween
    <3>3. \A k \in (m + 1)..(n - 1) : u[k] = w[k]
      BY <3>1, <1>1
    <3> QED BY <3>1, <3>2, <3>3, <2>1
  <2> QED BY <2>2, <2>3
<1>9. WipedBefore(u, key, snap)
  <2> SUFFICES ASSUME NEW n \in 1..Len(u), NEW l \in Lanes, Brings(u[n], l)
               PROVE  \/ snap[l].place = 0 \/ u[n].lanes[l].place \in {0, snap[l].place}
                      \/ \E k \in 1..(n - 1) : Wipes(u[k], l) \/ Names(key, u[k])
    BY DEF WipedBefore
  <2>2. CASE n = Len(w) + 1
    <3>1. u[n] = f /\ n - 1 = Len(w)
      BY <2>2, <1>1
    <3>2. CASE StartsIn(w, 0, l)
      <4>1. PICK k \in (0 + 1)..Len(w) : Wipes(w[k], l)
        BY <3>2, <1>1, <1>6
      <4>2. k \in 1..(n - 1) /\ u[k] = w[k]
        BY <3>1, <1>1
      <4> QED BY <4>1, <4>2
    <3>3. CASE Fits(s, l, snap[l].place)
      BY <3>1, <3>3 DEF Follows, Fits
    <3>4. CASE \E k \in 1..Len(w) : Empties(w[k]) \/ Names(key, w[k])
      <4>1. PICK k \in 1..Len(w) : Empties(w[k]) \/ Names(key, w[k])
        BY <3>4
      <4>2. k \in 1..(n - 1) /\ u[k] = w[k]
        BY <3>1, <1>1
      <4> QED BY <4>1, <4>2 DEF Wipes
    <3> QED BY <3>2, <3>3, <3>4 DEF FlightFits, WindowFits
  <2>3. CASE n # Len(w) + 1
    <3>1. n \in 1..Len(w) /\ u[n] = w[n]
      BY <2>3, <1>1
    <3>2. \/ snap[l].place = 0 \/ w[n].lanes[l].place \in {0, snap[l].place}
          \/ \E k \in 1..(n - 1) : Wipes(w[k], l) \/ Names(key, w[k])
      BY <3>1 DEF FlightFits, WipedBefore
    <3>3. \A k \in 1..(n - 1) : u[k] = w[k]
      BY <3>1, <1>1
    <3> QED BY <3>1, <3>2, <3>3
  <2> QED BY <2>2, <2>3
<1>10. WindowFits(r, u, key, snap)
  <2> SUFFICES ASSUME NEW l \in Lanes
               PROVE  \/ Fits(r, l, snap[l].place) \/ StartsIn(u, 0, l)
                      \/ key # r.heat /\ \E k \in 1..Len(u) : Empties(u[k]) \/ Names(key, u[k])
    BY DEF WindowFits
  <2>1. snap[l].place \in Int /\ 0 \in 0..Len(w)
    BY <1>1 DEF Marks
  <2>2. CASE Fits(s, l, snap[l].place) \/ StartsIn(w, 0, l)
    BY <2>1, <2>2, <1>5
  <2>3. CASE key # s.heat /\ \E k \in 1..Len(w) : Empties(w[k]) \/ Names(key, w[k])
    <3>1. PICK k \in 1..Len(w) : Empties(w[k]) \/ Names(key, w[k])
      BY <2>3
    <3>2. k \in 1..Len(u) /\ u[k] = w[k]
      BY <1>1
    <3>3. s.heat # r.heat => Fits(r, l, snap[l].place)
      BY <2>1 DEF Follows
    <3> QED BY <3>1, <3>2, <3>3, <2>3
  <2> QED BY <2>2, <2>3 DEF FlightFits, WindowFits
<1> QED BY <1>7, <1>8, <1>9, <1>10 DEF FlightFits, u

\* A frame without lanes.
LEMMA PlainFollows ==
  ASSUME NEW s, NEW f, DOMAIN f.lanes = {}  PROVE Follows(s, f, s)
BY DEF Follows, Brings

\* What a lane wiped or given its place is.
LEMMA BlankFits ==
  ASSUME NEW s \in Servers, NEW l \in Lanes, s.lanes[l] = Blank
  PROVE  ~Live(s, l) /\ s.lanes[l].place = 0 /\ \A p \in Int : Fits(s, l, p)
<1>1. ~s.lanes[l].run /\ s.lanes[l].time = 0 /\ s.lanes[l].place = 0 /\ s.swim \in Int
  BY DEF Blank, Servers
<1>2. 2 * s.swim - 1 # 0
  BY <1>1
<1> QED BY <1>1, <1>2 DEF Live, Fits

LEMMA LossKept ==
  ASSUME NEW s, NEW f, NEW r, NEW key, NEW snap \in [Lanes -> Marks],
         LossFits(s, key, snap), Follows(s, f, r),
         \A l \in Lanes : Brings(f, l) /\ f.lanes[l].run =>
             \/ key # s.heat \/ snap[l].place = 0
             \/ \A p \in Int : Fits(s, l, p) => Fits(r, l, p)
  PROVE  LossFits(r, key, snap)
<1> SUFFICES ASSUME key = r.heat, NEW l \in Lanes  PROVE Fits(r, l, snap[l].place)
  BY DEF LossFits
<1>1. snap[l].place \in Int
  BY DEF Marks
<1>2. s.heat = r.heat \/ Fits(r, l, snap[l].place)
  BY <1>1 DEF Follows
<1>3. CASE s.heat = r.heat
  <2>1. Fits(s, l, snap[l].place)
    BY <1>3 DEF LossFits
  <2>2. CASE snap[l].place = 0
    BY <2>2 DEF Fits
  <2>3. CASE snap[l].place # 0
    BY <2>1, <2>3, <1>1, <1>3 DEF Follows
  <2> QED BY <2>2, <2>3
<1> QED BY <1>2, <1>3

\* The server sends a frame, perhaps behind one without lanes, and does what it says.
LEMMA FrameFollowed ==
  ASSUME KioskInv, PlacesInv, UNCHANGED <<link, tv>>, PlacesLast(srv'), NEW f \in Sent,
         \/ Send(<<f>>)
         \/ \E e \in Sent : DOMAIN e.lanes = {} /\ Send(<<e, f>>),
         Follows(srv, f, srv'),
         \A l \in Lanes : Brings(f, l) /\ f.lanes[l].run =>
             \/ link.conn /\ ~link.cut
             \/ tv.key # srv.heat \/ tv.snap[l].place = 0
             \/ \A p \in Int : Fits(srv, l, p) => Fits(srv', l, p)
  PROVE  PlacesInv'
<1>1. wire \in Seq(Sent) /\ tv.snap \in [Lanes -> Marks]
  BY DEF KioskInv, Typed, Windows
<1>2. ASSUME link.conn  PROVE FlightFits(srv', wire', tv.key, tv.snap)
  <2>1. FlightFits(srv, wire, tv.key, tv.snap)
    BY <1>2 DEF PlacesInv
  <2>2. CASE Send(<<f>>)
    <3>1. wire' = Append(wire, f)
      BY <1>1, <1>2, <2>2 DEF Send
    <3> QED BY <3>1, <2>1, <1>1, FrameFlies
  <2>3. ASSUME NEW e \in Sent, DOMAIN e.lanes = {}, Send(<<e, f>>)
        PROVE  FlightFits(srv', wire', tv.key, tv.snap)
    <3> DEFINE a == Append(wire, e)
    <3>1. a \in Seq(Sent) /\ wire' = Append(a, f)
      BY <1>1, <1>2, <2>3 DEF Send
    <3>2. FlightFits(srv, a, tv.key, tv.snap)
      BY <2>1, <2>3, <1>1, PlainFollows, FrameFlies
    <3> HIDE DEF a
    <3> QED BY <3>1, <3>2, <1>1, FrameFlies
  <2> QED BY <2>2, <2>3
<1>3. ASSUME ~link.conn \/ link.cut  PROVE LossFits(srv', tv.key, tv.snap)
  BY <1>1, <1>3, LossKept DEF PlacesInv
<1> QED BY <1>2, <1>3 DEF PlacesInv

\* A frame without lanes, the lanes as they were or wiped.
LEMMA PlainSent ==
  ASSUME KioskInv, PlacesInv, UNCHANGED <<link, tv>>, srv' \in Servers, NEW f \in Sent,
         DOMAIN f.lanes = {},
         \/ Send(<<f>>)
         \/ \E e \in Sent : DOMAIN e.lanes = {} /\ Send(<<e, f>>),
         \/ srv.lanes' = srv.lanes /\ srv.swim' = srv.swim /\ srv.heat' = srv.heat
         \/ \A l \in Lanes : srv.lanes'[l] = Blank
  PROVE  PlacesInv'
<1>1. CASE srv.lanes' = srv.lanes /\ srv.swim' = srv.swim /\ srv.heat' = srv.heat
  <2>1. \A l \in Lanes : /\ Live(srv', l) = Live(srv, l)
                         /\ \A p \in Int : Fits(srv', l, p) = Fits(srv, l, p)
    BY <1>1 DEF Live, Fits
  <2>2. PlacesLast(srv') /\ Follows(srv, f, srv')
    BY <2>1, <1>1 DEF PlacesInv, PlacesLast, Follows, Brings
  <2> QED BY <2>2, FrameFollowed DEF Brings
<1>2. CASE \A l \in Lanes : srv.lanes'[l] = Blank
  <2>1. \A l \in Lanes : srv'.lanes[l].place = 0 /\ \A p \in Int : Fits(srv', l, p)
    BY <1>2, BlankFits
  <2>2. PlacesLast(srv') /\ Follows(srv, f, srv')
    BY <2>1 DEF PlacesLast, Follows, Brings
  <2> QED BY <2>2, FrameFollowed DEF Brings
<1> QED BY <1>1, <1>2

\* A frame that wipes the lanes.
LEMMA BlankSent ==
  ASSUME KioskInv, PlacesInv, UNCHANGED <<link, tv>>, srv' \in Servers, NEW h \in Heats \cup {Absent},
         Send(<<Update(h, [l \in Lanes |-> Blank])>>),
         \A l \in Lanes : srv.lanes'[l] = Blank
  PROVE  PlacesInv'
<1> DEFINE blank == [l \in Lanes |-> Blank]
           f == Update(h, blank)
<1>1. f \in Sent
  BY FrameTyped
<1>2. f.lanes = blank /\ Send(<<f>>)
  BY DEF Update
<1> HIDE DEF f
<1>3. \A l \in Lanes : Brings(f, l) => ~f.lanes[l].run /\ f.lanes[l].place = 0
  BY <1>2 DEF Blank, Brings
<1>4. \A l \in Lanes : srv'.lanes[l].place = 0 /\ \A p \in Int : Fits(srv', l, p)
  BY BlankFits
<1>5. PlacesLast(srv') /\ Follows(srv, f, srv')
  BY <1>3, <1>4 DEF PlacesLast, Follows
<1> QED BY <1>1, <1>2, <1>3, <1>5, FrameFollowed

LEMMA NewHeatPlaces ==
  ASSUME KioskInv, PlacesInv, NEW h \in Heats, NewHeat(h)  PROVE PlacesInv'
<1> DEFINE blank == [l \in Lanes |-> Blank]
<1>1. srv \in Servers /\ blank \in Boards /\ blank \in [Lanes -> Swims]
  BY FrameTyped DEF KioskInv, Typed, Blank, Swims
<1>2. srv' = [srv EXCEPT !.heat = h, !.lanes = blank, !.board = blank, !.confirmed = TRUE]
      /\ Send(<<Update(h, blank)>>) /\ UNCHANGED <<link, tv>>
  BY DEF NewHeat
<1> HIDE DEF blank
<1>3. srv' \in Servers /\ srv.lanes' = blank
  BY <1>1, <1>2 DEF Servers
<1>4. \A l \in Lanes : srv.lanes'[l] = Blank
  BY <1>3 DEF blank
<1> QED BY <1>2, <1>3, <1>4, BlankSent DEF blank

\* Lanes published one by one.
LEMMA LanePublished ==
  ASSUME KioskInv, PlacesInv, UNCHANGED <<link, tv>>, srv' \in Servers, NEW l \in Lanes,
         NEW x \in Swims, DOMAIN srv.lanes' = Lanes,
         srv.lanes' = With([k \in {l} |-> x], srv.lanes), srv.heat' = srv.heat, srv.swim' = srv.swim,
         LET f == Update(Absent, [k \in {l} |-> x]) IN
             Send(<<f>>) \/ \E e \in Sent : DOMAIN e.lanes = {} /\ Send(<<e, f>>),
         Live(srv, l), x.run => x.place = 0,
         x.place = 0 \/ (~x.run /\ x.time = 2 * srv.swim)
  PROVE  PlacesInv'
<1> DEFINE lanes == [k \in {l} |-> x]
           f == Update(Absent, lanes)
<1>1. lanes \in Boards /\ f \in Sent
  <2>1. DOMAIN lanes = {l} /\ lanes \in [{l} -> Swims]
    OBVIOUS
  <2>2. lanes \in Boards
    BY <2>1 DEF Boards
  <2> QED BY <2>2, FrameTyped
<1>2. f.lanes = lanes /\ Timed(f)
  BY DEF Update, Timed
<1>3. DOMAIN lanes = {l} /\ lanes[l] = x
  OBVIOUS
<1>4. srv.lanes'[l] = x /\ \A k \in Lanes \ {l} : srv.lanes'[k] = srv.lanes[k]
  BY <1>3 DEF With, KioskInv, Typed, Servers
<1> HIDE DEF f, lanes
<1>5. \A k \in Lanes : Brings(f, k) <=> k = l
  BY <1>2, <1>3 DEF Brings
<1>6. srv.lanes[l].place = 0 /\ \A p \in Int : Fits(srv, l, p) => p = 0
  BY DEF PlacesInv, PlacesLast, Fits
<1>7. srv.swim \in Nat /\ x.time \in Int /\ x.run \in BOOLEAN
  BY DEF KioskInv, Typed, Servers, Swims
<1>8. x.place # 0 => ~Live(srv', l)
  <2>1. 2 * srv.swim # 2 * srv.swim - 1
    BY <1>7
  <2> QED BY <2>1, <1>4, <1>7 DEF Live
<1>9. \A k \in Lanes \ {l} : /\ Live(srv', k) = Live(srv, k)
                             /\ \A p \in Int : Fits(srv', k, p) = Fits(srv, k, p)
  BY <1>4 DEF Live, Fits
<1>10. Fits(srv', l, 0) /\ Fits(srv', l, x.place)
  BY <1>4, <1>8 DEF Fits
<1>11. PlacesLast(srv')
  BY <1>4, <1>8, <1>9 DEF PlacesInv, PlacesLast
<1>12. \A k \in Lanes : \A p \in Int : Fits(srv, k, p) => Fits(srv', k, p)
  BY <1>6, <1>9, <1>10
<1>13. Follows(srv, f, srv')
  BY <1>2, <1>3, <1>5, <1>10, <1>12 DEF Follows
<1>14. Send(<<f>>) \/ \E e \in Sent : DOMAIN e.lanes = {} /\ Send(<<e, f>>)
  BY DEF f, lanes
<1> QED BY <1>1, <1>11, <1>12, <1>13, <1>14, FrameFollowed

LEMMA TouchPlaces ==
  ASSUME KioskInv, PlacesInv, NEW l \in Lanes, Touch(l)  PROVE PlacesInv'
<1> DEFINE x == [run |-> FALSE, time |-> 2 * srv.swim - 1, place |-> 0]
           lanes == [k \in {l} |-> x]
<1>1. srv \in Servers
  BY DEF KioskInv, Typed
<1>2. x \in Swims
  <2>1. 2 * srv.swim - 1 \in Int
    BY <1>1 DEF Servers
  <2> QED BY <2>1 DEF Swims
<1>3. ~x.run /\ x.place = 0
  OBVIOUS
<1>4. Publish(lanes) /\ UNCHANGED <<link, tv>> /\ Live(srv, l)
  BY DEF Touch, Live
<1> HIDE DEF x
<1>5. lanes \in Boards
  <2>1. DOMAIN lanes = {l} /\ lanes \in [{l} -> Swims]
    BY <1>2
  <2> QED BY <2>1 DEF Boards
<1>6. With(lanes, srv.board) \in Boards /\ With(lanes, srv.lanes) \in [Lanes -> Swims]
  BY <1>1, <1>5, WithTyped
<1>7. /\ srv' = [srv EXCEPT !.lanes = With(lanes, @), !.board = With(lanes, @)]
      /\ Send(<<Update(Absent, lanes)>>)
  BY <1>4 DEF Publish
<1>8. /\ srv' \in Servers /\ srv.lanes' = With(lanes, srv.lanes) /\ srv.heat' = srv.heat
      /\ srv.swim' = srv.swim /\ DOMAIN srv.lanes' = Lanes
  BY <1>1, <1>6, <1>7 DEF Servers
<1> QED BY <1>2, <1>3, <1>4, <1>7, <1>8, LanePublished

LEMMA FinishPlaces ==
  ASSUME KioskInv, PlacesInv, ~Corrections, NEW l \in Lanes, Finish(l)  PROVE PlacesInv'
<1>1. PICK p \in Places \ {0} :
          /\ srv.lanes[l].run
          /\ Publish([k \in {l} |-> [run |-> FALSE, time |-> 2 * srv.swim, place |-> p]])
          /\ UNCHANGED <<link, tv, cfg, upd, left>>
  BY DEF Finish
<1> DEFINE x == [run |-> FALSE, time |-> 2 * srv.swim, place |-> p]
           lanes == [k \in {l} |-> x]
<1>2. srv \in Servers
  BY DEF KioskInv, Typed
<1>3. x \in Swims
  <2>1. 2 * srv.swim \in Int /\ p \in Int
    BY <1>2 DEF Servers, Places
  <2> QED BY <2>1 DEF Swims
<1>4. ~x.run /\ x.time = 2 * srv.swim
  OBVIOUS
<1>5. Publish(lanes) /\ UNCHANGED <<link, tv>> /\ Live(srv, l)
  BY <1>1 DEF Live
<1> HIDE DEF x
<1>6. lanes \in Boards
  <2>1. DOMAIN lanes = {l} /\ lanes \in [{l} -> Swims]
    BY <1>3
  <2> QED BY <2>1 DEF Boards
<1>7. With(lanes, srv.board) \in Boards /\ With(lanes, srv.lanes) \in [Lanes -> Swims]
  BY <1>2, <1>6, WithTyped
<1>8. /\ srv' = [srv EXCEPT !.lanes = With(lanes, @), !.board = With(lanes, @)]
      /\ Send(<<Update(Absent, lanes)>>)
  BY <1>5 DEF Publish
<1>9. /\ srv' \in Servers /\ srv.lanes' = With(lanes, srv.lanes) /\ srv.heat' = srv.heat
      /\ srv.swim' = srv.swim /\ DOMAIN srv.lanes' = Lanes
  BY <1>2, <1>7, <1>8 DEF Servers
<1> QED BY <1>3, <1>4, <1>5, <1>8, <1>9, LanePublished

LEMMA BoardResetPlaces ==
  ASSUME KioskInv, PlacesInv, BoardReset  PROVE PlacesInv'
<1> DEFINE blank == [l \in Lanes |-> Blank]
<1>1. srv \in Servers /\ blank \in Boards /\ DOMAIN blank = Lanes
  BY FrameTyped DEF KioskInv, Typed
<1>2. /\ srv' = [srv EXCEPT !.lanes = With(blank, @), !.board = With(blank, @)]
      /\ Send(<<Update(Absent, blank)>>) /\ UNCHANGED <<link, tv>>
  BY DEF BoardReset, Publish
<1>3. \A l \in Lanes : With(blank, srv.lanes)[l] = Blank
  BY DEF With
<1> HIDE DEF blank
<1>4. With(blank, srv.board) \in Boards /\ With(blank, srv.lanes) \in [Lanes -> Swims]
  BY <1>1, WithTyped
<1>5. srv' \in Servers /\ srv.lanes' = With(blank, srv.lanes)
  BY <1>1, <1>2, <1>4 DEF Servers
<1> QED BY <1>2, <1>3, <1>5, BlankSent DEF blank

\* Lanes that run: the splash they take down goes ahead.
LEMMA RunsSent ==
  ASSUME NEW lanes, Send(Runs(lanes))
  PROVE  LET f == Update(Absent, lanes) IN
         Send(<<f>>) \/ \E e \in Sent : DOMAIN e.lanes = {} /\ Send(<<e, f>>)
<1>1. Event("no_overlay") \in Sent /\ DOMAIN Event("no_overlay").lanes = {}
  <2>1. "no_overlay" \in Kinds
    BY DEF Kinds
  <2> QED BY <2>1, FrameTyped DEF Event
<1> QED BY <1>1 DEF Runs

LEMMA StartPlaces ==
  ASSUME KioskInv, PlacesInv, ~Corrections, NEW ls \in SUBSET Lanes, Start(ls)  PROVE PlacesInv'
<1> DEFINE lanes == [l \in ls |-> [srv.lanes[l] EXCEPT !.run = TRUE, !.place = 0]]
           f == Update(Absent, lanes)
<1>1. /\ srv \in Servers /\ DOMAIN lanes = ls
      /\ \A l \in ls : lanes[l].run /\ lanes[l].place = 0 /\ lanes[l] \in Swims
  <2>1. srv \in Servers /\ DOMAIN lanes = ls
    BY DEF KioskInv, Typed
  <2>2. ASSUME NEW x \in Swims
        PROVE  LET y == [x EXCEPT !.run = TRUE, !.place = 0] IN
               y.run /\ y.place = 0 /\ y \in Swims
    <3> DEFINE y == [x EXCEPT !.run = TRUE, !.place = 0]
    <3>1. TRUE \in BOOLEAN /\ 0 \in Int
      OBVIOUS
    <3>2. y \in Swims
      BY <3>1, SwimSet, Zenon
    <3>3. y.run = TRUE /\ y.place = 0
      BY DEF Swims
    <3> QED BY <3>2, <3>3
  <2>3. \A l \in ls : srv.lanes[l] \in Swims
    BY <2>1 DEF Servers
  <2> QED BY <2>1, <2>2, <2>3, Zenon
<1>2. /\ Send(Runs(lanes)) /\ UNCHANGED <<link, tv>>
      /\ srv' = [srv EXCEPT !.lanes = With(lanes, @), !.board = With(lanes, @),
                            !.confirmed = FALSE, !.swim = @ + 1, !.overlay = FALSE]
      /\ \A l \in Lanes \ ls : srv.lanes[l] = Blank
      /\ ~PlacesUp(ls) \/ (link.conn /\ ~link.cut)
  BY DEF Start
<1>3. f.lanes = lanes /\ Timed(f)
  BY DEF Update, Timed
<1> HIDE DEF lanes
<1>4. lanes \in Boards /\ f \in Sent
  <2>1. lanes \in [ls -> Swims]
    <3>1. lanes = [l \in ls |-> lanes[l]]
      BY DEF lanes
    <3> QED BY <1>1, <3>1
  <2>2. lanes \in Boards
    BY <2>1, <1>1 DEF Boards
  <2> QED BY <2>2, FrameTyped
<1>5. Send(<<f>>) \/ \E e \in Sent : DOMAIN e.lanes = {} /\ Send(<<e, f>>)
  BY <1>2, RunsSent
<1> HIDE DEF f
<1>6. With(lanes, srv.board) \in Boards /\ With(lanes, srv.lanes) \in [Lanes -> Swims]
  BY <1>1, <1>4, WithTyped
<1>7. srv.lanes' = With(lanes, srv.lanes) /\ srv.swim' = srv.swim + 1 /\ srv.heat' = srv.heat
  BY <1>1, <1>2 DEF Servers
<1>8. srv' \in Servers
  <2>1. srv.swim + 1 \in Nat
    BY <1>1 DEF Servers
  <2> QED BY <2>1, <1>1, <1>2, <1>6 DEF Servers
<1>9. /\ \A l \in ls : srv.lanes'[l] = lanes[l]
      /\ \A l \in Lanes \ ls : srv.lanes'[l] = Blank
  BY <1>1, <1>2, <1>7 DEF With, Servers
<1>10. \A l \in Lanes \ ls : ~Live(srv', l) /\ srv'.lanes[l].place = 0 /\ \A p \in Int : Fits(srv', l, p)
  BY <1>8, <1>9, BlankFits
<1>11. PlacesLast(srv')
  BY <1>1, <1>9, <1>10 DEF PlacesLast
<1>12. \A l \in Lanes : Brings(f, l) <=> l \in ls
  BY <1>1, <1>3 DEF Brings
<1>13. Follows(srv, f, srv')
  BY <1>1, <1>3, <1>7, <1>10, <1>12 DEF Follows
<1>14. ASSUME NEW l \in ls, ~(link.conn /\ ~link.cut)
       PROVE  tv.key # srv.heat \/ tv.snap[l].place = 0
  BY <1>2, <1>14 DEF PlacesUp
<1> QED BY <1>2, <1>4, <1>5, <1>11, <1>12, <1>13, <1>14, FrameFollowed

LEMMA ResumePlaces ==
  ASSUME KioskInv, PlacesInv, NEW l \in Lanes, Resume(l)  PROVE PlacesInv'
<1> DEFINE x == [srv.lanes[l] EXCEPT !.run = TRUE]
           lanes == [k \in {l} |-> x]
           same == [k \in {l} |-> [srv.lanes[k] EXCEPT !.run = TRUE]]
<1>1. srv \in Servers /\ srv.lanes[l] \in Swims
  BY DEF KioskInv, Typed, Servers
<1>2. Live(srv, l)
  BY DEF Live, Resume
<1>3. x \in Swims /\ x.place = 0
  BY <1>1, <1>2 DEF PlacesInv, PlacesLast, Swims
<1>4. same = lanes
  OBVIOUS
<1>5. /\ Send(Runs(same)) /\ UNCHANGED <<link, tv>>
      /\ srv' = [srv EXCEPT !.lanes = With(same, @), !.board = With(same, @), !.overlay = FALSE]
  BY DEF Resume
<1> HIDE DEF x, same
<1>6. lanes \in Boards
  <2>1. DOMAIN lanes = {l} /\ lanes \in [{l} -> Swims]
    BY <1>3
  <2> QED BY <2>1 DEF Boards
<1>7. With(lanes, srv.board) \in Boards /\ With(lanes, srv.lanes) \in [Lanes -> Swims]
  BY <1>1, <1>6, WithTyped
<1> DEFINE f == Update(Absent, lanes)
<1>8. Send(<<f>>) \/ \E e \in Sent : DOMAIN e.lanes = {} /\ Send(<<e, f>>)
  BY <1>4, <1>5, RunsSent
<1>9. /\ srv' \in Servers /\ srv.lanes' = With(lanes, srv.lanes) /\ srv.heat' = srv.heat
      /\ srv.swim' = srv.swim /\ DOMAIN srv.lanes' = Lanes
  <2>1. srv' = [srv EXCEPT !.lanes = With(lanes, @), !.board = With(lanes, @), !.overlay = FALSE]
    BY <1>4, <1>5
  <2> HIDE DEF lanes
  <2> QED BY <2>1, <1>1, <1>7 DEF Servers
<1> QED BY <1>2, <1>3, <1>5, <1>8, <1>9, LanePublished

\* What else the server sends of its own: no lanes are in it.
LEMMA EventTyped ==
  /\ \A k \in Kinds : Event(k) \in Sent /\ DOMAIN Event(k).lanes = {} /\ Event(k).kind = k
                      /\ Event(k).heat = Absent
  /\ \A h \in Heats \cup {0} : Update(h, NoLanes) \in Sent /\ DOMAIN Update(h, NoLanes).lanes = {}
  /\ {"running_time", "race_finished", "overlay", "no_overlay", "reload", "update", "test_mode",
      "no_test_mode", "reset", "columns"} \subseteq Kinds
BY FrameTyped DEF Event, Update, Kinds

LEMMA OtherSendsPlaces ==
  ASSUME KioskInv, PlacesInv,
         \/ RunningTime \/ RaceFinished \/ OtherConnects \/ Save \/ Press
         \/ \E on \in BOOLEAN : Overlay(on)
  PROVE  PlacesInv'
<1>1. srv \in Servers
  BY DEF KioskInv, Typed
<1>2. CASE RunningTime
  BY <1>1, <1>2, EventTyped, PlainSent DEF RunningTime
<1>3. CASE RaceFinished
  <2>1. srv' = [srv EXCEPT !.confirmed = TRUE] /\ Send(<<Event("race_finished")>>)
        /\ UNCHANGED <<link, tv>>
    BY <1>3 DEF RaceFinished
  <2>2. srv' \in Servers /\ srv.lanes' = srv.lanes /\ srv.swim' = srv.swim /\ srv.heat' = srv.heat
    BY <2>1, <1>1 DEF Servers
  <2> QED BY <2>1, <2>2, EventTyped, PlainSent
<1>4. CASE OtherConnects
  <2>1. srv' = srv /\ Send(<<Update(srv.heat, NoLanes)>>) /\ UNCHANGED <<link, tv>>
    BY <1>4 DEF OtherConnects, EventInfo
  <2>2. srv.heat \in Heats \cup {0}
    BY <1>1 DEF Servers
  <2> QED BY <1>1, <2>1, <2>2, EventTyped, PlainSent
<1>5. CASE Save
  <2>1. srv' = [srv EXCEPT !.layout = @ + 1] /\ Send(<<Event("reload")>>) /\ UNCHANGED <<link, tv>>
    BY <1>5 DEF Save
  <2>2. srv' \in Servers /\ srv.lanes' = srv.lanes /\ srv.swim' = srv.swim /\ srv.heat' = srv.heat
    BY <2>1, <1>1 DEF Servers
  <2> QED BY <2>1, <2>2, EventTyped, PlainSent
<1>6. CASE Press
  BY <1>1, <1>6, EventTyped, PlainSent DEF Press
<1>7. ASSUME NEW on \in BOOLEAN, Overlay(on)  PROVE PlacesInv'
  <2> DEFINE k == IF on THEN "overlay" ELSE "no_overlay"
  <2>1. srv' = [srv EXCEPT !.overlay = on] /\ Send(<<Event(k)>>) /\ UNCHANGED <<link, tv>>
    BY <1>7 DEF Overlay
  <2>2. srv' \in Servers /\ srv.lanes' = srv.lanes /\ srv.swim' = srv.swim /\ srv.heat' = srv.heat
    BY <2>1, <1>1 DEF Servers
  <2>3. Event(k) \in Sent /\ DOMAIN Event(k).lanes = {}
    BY EventTyped
  <2> HIDE DEF k
  <2> QED BY <2>1, <2>2, <2>3, PlainSent
<1> QED BY <1>2, <1>3, <1>4, <1>5, <1>6, <1>7

LEMMA TestStartsPlaces ==
  ASSUME KioskInv, PlacesInv, TestStarts  PROVE PlacesInv'
<1> DEFINE blank == [l \in Lanes |-> Blank]
<1>1. srv \in Servers /\ blank \in [Lanes -> Swims]
  BY DEF KioskInv, Typed, Blank, Swims
<1>2. /\ srv' = [srv EXCEPT !.testing = TRUE, !.saved = srv.heat, !.heat = 0,
                            !.lanes = blank, !.confirmed = TRUE]
      /\ Send(<<Event("test_mode"), Update(0, NoLanes)>>) /\ UNCHANGED <<link, tv>>
  BY DEF TestStarts
<1>3. \A l \in Lanes : blank[l] = Blank
  OBVIOUS
<1> HIDE DEF blank
<1>4. srv' \in Servers /\ srv.lanes' = blank
  <2>1. srv.heat \in Heats \cup {0} /\ 0 \in Heats \cup {0} /\ TRUE \in BOOLEAN
    BY <1>1 DEF Servers
  <2> QED BY <2>1, <1>1, <1>2 DEF Servers
<1> QED BY <1>2, <1>3, <1>4, EventTyped, PlainSent

LEMMA TestEndsPlaces ==
  ASSUME KioskInv, Undisturbed, PlacesInv, TestEnds  PROVE PlacesInv'
<1> DEFINE f == Update(srv.saved, NoLanes)
           g == Event("no_test_mode")
           h == Event("reset")
           blank == [l \in Lanes |-> Blank]
           a == Append(wire, f)
           b == Append(a, g)
           c == Append(b, h)
           d == Append(c, f)
<1>1. srv \in Servers /\ wire \in Seq(Sent) /\ tv.snap \in [Lanes -> Marks]
      /\ blank \in [Lanes -> Swims]
  BY DEF KioskInv, Typed, Windows, Blank, Swims
<1>2. /\ f \in Sent /\ g \in Sent /\ h \in Sent
      /\ DOMAIN f.lanes = {} /\ DOMAIN g.lanes = {} /\ DOMAIN h.lanes = {}
  <2>1. srv.saved \in Heats \cup {0}
    BY <1>1 DEF Servers
  <2> QED BY <2>1, EventTyped
<1>3. /\ link.conn /\ ~link.cut /\ UNCHANGED <<link, tv>>
      /\ srv' = [srv EXCEPT !.testing = FALSE, !.heat = srv.saved, !.saved = 0, !.board = NoLanes,
                            !.lanes = blank, !.confirmed = TRUE]
      /\ wire' = wire \o <<f, g, h, f>>
  BY DEF TestEnds, Undisturbed, Send
<1>4. \A l \in Lanes : blank[l] = Blank
  OBVIOUS
<1> HIDE DEF f, g, h, blank
<1>5. srv' \in Servers /\ srv.lanes' = blank
  <2>1. /\ 0 \in Heats \cup {0} /\ FALSE \in BOOLEAN /\ TRUE \in BOOLEAN /\ NoLanes \in Boards
        /\ srv.saved \in Heats \cup {0}
    BY <1>1, FrameTyped DEF Servers
  <2> QED BY <2>1, <1>1, <1>3 DEF Servers
<1>6. /\ a \in Seq(Sent) /\ b \in Seq(Sent) /\ c \in Seq(Sent) /\ wire' = d
  BY <1>1, <1>2, <1>3
<1>7. PlacesLast(srv') /\ Follows(srv, f, srv')
  <2>1. \A l \in Lanes : srv'.lanes[l].place = 0 /\ \A p \in Int : Fits(srv', l, p)
    BY <1>4, <1>5, BlankFits
  <2> QED BY <2>1, <1>2 DEF PlacesLast, Follows, Brings
<1>8. FlightFits(srv, wire, tv.key, tv.snap)
  BY <1>3 DEF PlacesInv
<1>9. FlightFits(srv, a, tv.key, tv.snap)
  BY <1>1, <1>2, <1>8, PlainFollows, FrameFlies
<1> HIDE DEF a
<1>10. FlightFits(srv, b, tv.key, tv.snap)
  BY <1>1, <1>2, <1>6, <1>9, PlainFollows, FrameFlies
<1> HIDE DEF b
<1>11. FlightFits(srv, c, tv.key, tv.snap)
  BY <1>1, <1>2, <1>6, <1>10, PlainFollows, FrameFlies
<1> HIDE DEF c
<1>12. FlightFits(srv', d, tv.key, tv.snap)
  BY <1>1, <1>2, <1>6, <1>7, <1>11, FrameFlies
<1> QED BY <1>3, <1>6, <1>7, <1>12 DEF PlacesInv

\* The link, the fetch and the timers leave the window's places.
LEMMA LookPlaces ==
  ASSUME PlacesInv, UNCHANGED <<srv, wire>>, tv.key' = tv.key, tv.snap' = tv.snap,
         link.conn' => link.conn,
         ~link.conn' \/ link.cut' => LossFits(srv, tv.key, tv.snap)
  PROVE  PlacesInv'
BY DEF PlacesInv

\* What is not lost in the cable lets the window's places stand.
LEMMA HeardFits ==
  ASSUME KioskInv, PlacesInv, ~Corrections, Heard
  PROVE  LossFits(srv, tv.key, tv.snap)
<1>1. CASE ~link.conn
  BY <1>1 DEF PlacesInv
<1>2. CASE link.conn
  <2> SUFFICES ASSUME tv.key = srv.heat, NEW l \in Lanes  PROVE Fits(srv, l, tv.snap[l].place)
    BY DEF LossFits
  <2>1. Fits(srv, l, tv.snap[l].place) \/ StartsIn(wire, 0, l)
    BY <1>2 DEF PlacesInv, FlightFits, WindowFits
  <2>2. CASE StartsIn(wire, 0, l)
    <3>1. PICK k \in 1..Len(wire) : Brings(wire[k], l) /\ wire[k].lanes[l].run
      BY <2>2 DEF StartsIn
    <3>2. wire \in Seq(Sent) /\ k \in DOMAIN wire
      BY DEF KioskInv, Typed
    <3>3. l \in Swum(wire[k]) /\ ~PlacesUp(Swum(wire[k]))
      BY <3>1, <3>2 DEF Heard, Swum, Brings
    <3>4. tv.snap[l].place = 0
      BY <3>3 DEF PlacesUp
    <3> QED BY <3>4 DEF Fits
  <2> QED BY <2>1, <2>2
<1> QED BY <1>1, <1>2

LEMMA CutPlaces ==
  ASSUME KioskInv, PlacesInv, ~Corrections, Cut  PROVE PlacesInv'
<1>1. link \in Links
  BY DEF KioskInv, Typed
<1>2. link.conn' = link.conn /\ UNCHANGED <<srv, wire, tv>>
  BY <1>1 DEF Cut, Links
<1>3. LossFits(srv, tv.key, tv.snap)
  BY HeardFits DEF Cut
<1> QED BY <1>2, <1>3, LookPlaces

LEMMA LinkPlaces ==
  ASSUME KioskInv, PlacesInv, Mended \/ AnnounceDrop \/ RetryFails  PROVE PlacesInv'
<1>1. link \in Links /\ tv \in Windows
  BY DEF KioskInv, Typed
<1>2. link.conn' = link.conn /\ (link.cut' => link.cut)
  BY <1>1, LinkLost DEF Mended, AnnounceDrop, RetryFails, Links
<1>3. tv.key' = tv.key /\ tv.snap' = tv.snap /\ UNCHANGED <<srv, wire>>
  BY <1>1 DEF Mended, AnnounceDrop, RetryFails, Windows
<1> QED BY <1>2, <1>3, LookPlaces DEF PlacesInv

\* The socket and what was in it are gone.
LEMMA DropPlaces ==
  ASSUME KioskInv, Drop, PlacesLast(srv'), LossFits(srv', tv.key, tv.snap)
  PROVE  PlacesInv'
<1>1. link \in Links /\ tv \in Windows
  BY DEF KioskInv, Typed
<1>2. [link EXCEPT !.conn = FALSE] \in Links /\ [link EXCEPT !.conn = FALSE].conn = FALSE
  BY <1>1 DEF Links
<1>3. link.conn' = FALSE
  BY <1>2, LinkLost DEF Drop
<1>4. tv.key' = tv.key /\ tv.snap' = tv.snap
  BY <1>1 DEF Drop, Windows
<1> QED BY <1>3, <1>4 DEF PlacesInv

LEMMA GoesStalePlaces ==
  ASSUME KioskInv, PlacesInv, GoesStale  PROVE PlacesInv'
<1>1. LossFits(srv, tv.key, tv.snap) /\ PlacesLast(srv) /\ srv' = srv
  BY DEF PlacesInv, GoesStale
<1> QED BY <1>1, DropPlaces DEF GoesStale

LEMMA ServerRestartsPlaces ==
  ASSUME KioskInv, PlacesInv, ServerRestarts, KioskInv'  PROVE PlacesInv'
<1>1. srv \in Servers /\ srv' \in Servers /\ tv.snap \in [Lanes -> Marks]
  BY DEF KioskInv, Typed, Windows
<1>2. \A l \in Lanes : srv'.lanes[l] = Blank
  BY <1>1 DEF ServerRestarts, Servers
<1>3. \A l \in Lanes : ~Live(srv', l) /\ \A p \in Int : Fits(srv', l, p)
  BY <1>1, <1>2, BlankFits
<1>4. \A l \in Lanes : tv.snap[l].place \in Int
  BY <1>1 DEF Marks
<1>5. PlacesLast(srv') /\ LossFits(srv', tv.key, tv.snap)
  BY <1>3, <1>4 DEF PlacesLast, LossFits
<1> QED BY <1>5, DropPlaces DEF ServerRestarts

\* The board that a connection brings.
LEMMA BoardPlaces ==
  ASSUME KioskInv, PlacesInv, NEW l \in Lanes, l \in DOMAIN srv.board
  PROVE  /\ srv.board[l].run => srv.board[l].place = 0
         /\ Fits(srv, l, srv.board[l].place)
         /\ ~TestBegins(srv) => srv.board[l] = srv.lanes[l]
<1>1. srv \in Servers /\ BoardKept(srv) /\ Of(srv, l) = srv.board[l]
  BY DEF KioskInv, Typed, Of
<1>2. srv.board[l] \in Swims
  BY <1>1, LaneTyped
<1>3. CASE TestBegins(srv)
  <2>1. srv.lanes[l] = Blank
    BY <1>1, <1>3 DEF BoardKept, TestBegins
  <2>2. ~srv.board[l].run
    BY <2>1, <1>1 DEF BoardKept, Blank
  <2> QED BY <2>1, <2>2, <1>1, <1>2, <1>3, BlankFits DEF Swims
<1>4. CASE ~TestBegins(srv)
  <2>1. srv.board[l] = srv.lanes[l]
    BY <1>1, <1>4 DEF BoardKept
  <2>2. Live(srv, l) => srv.lanes[l].place = 0
    BY DEF PlacesInv, PlacesLast
  <2>3. srv.lanes[l].run => Live(srv, l)
    BY DEF Live
  <2> QED BY <2>1, <2>2, <2>3 DEF Fits
<1> QED BY <1>3, <1>4

LEMMA ConnectPlaces ==
  ASSUME KioskInv, PlacesInv, Connect  PROVE PlacesInv'
<1> DEFINE f1 == Event(IF srv.testing THEN "test_mode" ELSE "no_test_mode")
           f2 == Event(IF srv.overlay THEN "overlay" ELSE "no_overlay")
           f3 == Event("columns")
           f4 == Update(srv.heat, NoLanes)
           f5 == Update(srv.heat, srv.board)
           w == <<f1, f2, f3, f4, f5>>
<1>1. /\ srv \in Servers /\ link \in Links /\ tv \in Windows /\ tv.snap \in [Lanes -> Marks]
      /\ srv.heat # Absent
  <2>1. srv \in Servers /\ link \in Links /\ tv \in Windows
    BY DEF KioskInv, Typed
  <2> QED BY <2>1, KioskAssumption DEF Servers, Windows, Absent
<1>2. /\ DOMAIN f1.lanes = {} /\ DOMAIN f2.lanes = {} /\ DOMAIN f3.lanes = {} /\ DOMAIN f4.lanes = {}
      /\ f5.lanes = srv.board /\ f4.heat = srv.heat /\ f4.kind = "update_scoreboard"
      /\ f1.kind = (IF srv.testing THEN "test_mode" ELSE "no_test_mode")
  BY FrameTyped DEF Event, Update
<1>3. /\ ~link.conn /\ ~link.cut /\ wire' = w /\ srv' = srv
      /\ link' = [link EXCEPT !.conn = TRUE, !.ever = TRUE, !.lost = FALSE, !.told = FALSE,
                              !.waiting = FALSE, !.covered = FALSE]
      /\ tv' = [tv EXCEPT !.rebased = ~tv.base]
  BY DEF Connect, Greet, EventInfo, WholeBoard
<1>4. LossFits(srv, tv.key, tv.snap) /\ PlacesLast(srv)
  BY <1>3 DEF PlacesInv
<1>5. /\ Len(w) = 5 /\ w[1] = f1 /\ w[2] = f2 /\ w[3] = f3 /\ w[4] = f4 /\ w[5] = f5
      /\ 1..Len(w) = {1, 2, 3, 4, 5}
  OBVIOUS
<1> HIDE DEF w, f1, f2, f3, f4, f5
<1>6. \A n \in 1..Len(w), l \in Lanes : Brings(w[n], l) => n = 5 /\ w[n].lanes[l] = srv.board[l] /\ l \in DOMAIN srv.board
  BY <1>2, <1>5 DEF Brings
<1>7. FramesFit(srv, w)
  BY <1>6, BoardPlaces DEF FramesFit
<1>8. WipedBetween(w)
  BY <1>6 DEF WipedBetween
<1>9. tv.key # srv.heat => Names(tv.key, w[4])
  BY <1>1, <1>2, <1>5 DEF Names, Timed
<1>10. srv.testing => Empties(w[1])
  BY <1>2, <1>5 DEF Empties
<1>11. WipedBefore(w, tv.key, tv.snap)
  <2> SUFFICES ASSUME NEW n \in 1..Len(w), NEW l \in Lanes, Brings(w[n], l)
               PROVE  \/ tv.snap[l].place = 0 \/ w[n].lanes[l].place \in {0, tv.snap[l].place}
                      \/ \E k \in 1..(n - 1) : Wipes(w[k], l) \/ Names(tv.key, w[k])
    BY DEF WipedBefore
  <2>1. n = 5 /\ w[n].lanes[l] = srv.board[l] /\ l \in DOMAIN srv.board
    BY <1>6
  <2>2. 1 \in 1..(n - 1) /\ 4 \in 1..(n - 1)
    BY <2>1
  <2>3. CASE srv.testing
    BY <2>2, <2>3, <1>10 DEF Wipes
  <2>4. CASE tv.key # srv.heat
    BY <2>2, <2>4, <1>9
  <2>5. CASE ~srv.testing /\ tv.key = srv.heat
    <3>1. Fits(srv, l, tv.snap[l].place) /\ w[n].lanes[l] = srv.lanes[l]
      BY <2>1, <2>5, <1>4, BoardPlaces DEF LossFits, TestBegins
    <3> QED BY <3>1 DEF Fits
  <2> QED BY <2>3, <2>4, <2>5
<1>12. WindowFits(srv, w, tv.key, tv.snap)
  <2>1. 4 \in 1..Len(w)
    BY <1>5
  <2> QED BY <2>1, <1>4, <1>9 DEF WindowFits, LossFits
<1>13. link.conn' /\ ~link.cut' /\ tv.key' = tv.key /\ tv.snap' = tv.snap
  BY <1>1, <1>3 DEF Links, Windows
<1> QED BY <1>3, <1>4, <1>7, <1>8, <1>11, <1>12, <1>13 DEF PlacesInv, FlightFits

\* A window that has forgotten its heat keeps what it shows.
LEMMA RebuiltPlaces ==
  ASSUME KioskInv, PlacesInv, UNCHANGED <<srv, wire>>, link.conn' = link.conn,
         tv.key' = Absent, tv.snap' = tv.snap
  PROVE  PlacesInv'
<1>1. srv.heat # Absent
  BY KioskAssumption DEF KioskInv, Typed, Servers, Absent
<1>2. \A f : Names(tv.key, f) => Names(Absent, f)
  BY DEF Names
<1>3. link.conn => FlightFits(srv, wire, Absent, tv.snap)
  <2> SUFFICES ASSUME link.conn  PROVE FlightFits(srv, wire, Absent, tv.snap)
    OBVIOUS
  <2>1. FlightFits(srv, wire, tv.key, tv.snap)
    BY DEF PlacesInv
  <2>2. WipedBefore(wire, Absent, tv.snap)
    BY <2>1, <1>2 DEF FlightFits, WipedBefore
  <2>3. WindowFits(srv, wire, Absent, tv.snap)
    BY <2>1, <1>1, <1>2 DEF FlightFits, WindowFits
  <2> QED BY <2>1, <2>2, <2>3 DEF FlightFits
<1> QED BY <1>1, <1>3 DEF PlacesInv, LossFits

\* The frame at the head of the wire is taken off it.
LEMMA TailFits ==
  ASSUME NEW s \in Servers, NEW w \in Seq(Sent), w # <<>>, NEW key, NEW snap, NEW k2, NEW n2,
         FlightFits(s, w, key, snap),
         \/ \A l \in Lanes : n2[l].place = 0
         \/ /\ ~Empties(Head(w)) /\ k2 = IF Names(key, Head(w)) THEN Head(w).heat ELSE key
            /\ \A l \in Lanes : n2[l].place =
                  IF Brings(Head(w), l) THEN Head(w).lanes[l].place
                  ELSE IF Names(key, Head(w)) THEN 0 ELSE snap[l].place
  PROVE  FlightFits(s, Tail(w), k2, n2)
<1> DEFINE f == Head(w)
           v == Tail(w)
<1>1. /\ Len(w) \in Nat /\ Len(w) = Len(v) + 1 /\ Len(v) \in Nat
      /\ f = w[1] /\ 1 \in 1..Len(w)
      /\ \A i \in 1..Len(v) : v[i] = w[i + 1] /\ i + 1 \in 1..Len(w)
  OBVIOUS
<1>2. \/ \A l \in Lanes : n2[l].place = 0
      \/ /\ ~Empties(f) /\ k2 = IF Names(key, f) THEN f.heat ELSE key
         /\ \A l \in Lanes : n2[l].place =
               IF Brings(f, l) THEN f.lanes[l].place
               ELSE IF Names(key, f) THEN 0 ELSE snap[l].place
  OBVIOUS
<1> HIDE DEF f, v
<1>3. \A m \in 0..Len(v), l \in Lanes : StartsIn(w, m + 1, l) => StartsIn(v, m, l)
  <2> SUFFICES ASSUME NEW m \in 0..Len(v), NEW l \in Lanes, NEW k \in ((m + 1) + 1)..Len(w),
                      Brings(w[k], l) /\ w[k].lanes[l].run
               PROVE  \E j \in (m + 1)..Len(v) : Brings(v[j], l) /\ v[j].lanes[l].run
    BY DEF StartsIn
  <2>1. k - 1 \in (m + 1)..Len(v) /\ k - 1 \in 1..Len(v) /\ (k - 1) + 1 = k
    BY <1>1
  <2> QED BY <2>1, <1>1
<1>4. FramesFit(s, v)
  <2> SUFFICES ASSUME NEW m \in 1..Len(v), NEW l \in Lanes, Brings(v[m], l)
               PROVE  /\ v[m].lanes[l].run => v[m].lanes[l].place = 0
                      /\ StartsIn(v, m, l) \/ Fits(s, l, v[m].lanes[l].place)
    BY DEF FramesFit
  <2>1. v[m] = w[m + 1] /\ m + 1 \in 1..Len(w) /\ m \in 0..Len(v)
    BY <1>1
  <2> QED BY <2>1, <1>3 DEF FlightFits, FramesFit
<1>5. WipedBetween(v)
  <2> SUFFICES ASSUME NEW m \in 1..Len(v), NEW n \in 1..Len(v), NEW l \in Lanes, m < n,
                      Brings(v[m], l), Brings(v[n], l), v[m].lanes[l].place # 0,
                      v[n].lanes[l].place \notin {0, v[m].lanes[l].place}
               PROVE  \E k \in (m + 1)..(n - 1) : Wipes(v[k], l)
    BY DEF WipedBetween
  <2>1. /\ v[m] = w[m + 1] /\ m + 1 \in 1..Len(w) /\ v[n] = w[n + 1] /\ n + 1 \in 1..Len(w)
        /\ m + 1 < n + 1
    BY <1>1
  <2>2. PICK k \in ((m + 1) + 1)..((n + 1) - 1) : Wipes(w[k], l)
    BY <2>1 DEF FlightFits, WipedBetween
  <2>3. k - 1 \in (m + 1)..(n - 1) /\ k - 1 \in 1..Len(v) /\ (k - 1) + 1 = k
    BY <1>1
  <2> QED BY <2>2, <2>3, <1>1
<1>6. WipedBefore(v, k2, n2)
  <2> SUFFICES ASSUME NEW n \in 1..Len(v), NEW l \in Lanes, Brings(v[n], l), n2[l].place # 0,
                      v[n].lanes[l].place \notin {0, n2[l].place}
               PROVE  \E k \in 1..(n - 1) : Wipes(v[k], l) \/ Names(k2, v[k])
    BY DEF WipedBefore
  <2>1. v[n] = w[n + 1] /\ n + 1 \in 1..Len(w) /\ 1 < n + 1
    BY <1>1
  <2>2. /\ ~Empties(f) /\ (~Names(key, f) => k2 = key)
        /\ n2[l].place = IF Brings(f, l) THEN f.lanes[l].place
                         ELSE IF Names(key, f) THEN 0 ELSE snap[l].place
    BY <1>2
  <2>3. ASSUME NEW k \in 1..((n + 1) - 1), k # 1, Wipes(w[k], l) \/ Names(k2, w[k])
        PROVE  \E j \in 1..(n - 1) : Wipes(v[j], l) \/ Names(k2, v[j])
    <3>1. k - 1 \in 1..(n - 1) /\ k - 1 \in 1..Len(v) /\ (k - 1) + 1 = k
      BY <1>1, <2>3
    <3> QED BY <3>1, <2>3, <1>1
  <2>4. CASE Brings(f, l)
    <3>1. PICK k \in (1 + 1)..((n + 1) - 1) : Wipes(w[k], l)
      BY <1>1, <2>1, <2>2, <2>4 DEF FlightFits, WipedBetween
    <3>2. k \in 1..((n + 1) - 1) /\ k # 1
      OBVIOUS
    <3> QED BY <3>1, <3>2, <2>3
  <2>5. CASE ~Brings(f, l)
    <3>1. ~Names(key, f) /\ n2[l].place = snap[l].place /\ k2 = key
      BY <2>2, <2>5
    <3>2. PICK k \in 1..((n + 1) - 1) : Wipes(w[k], l) \/ Names(key, w[k])
      BY <2>1, <3>1 DEF FlightFits, WipedBefore
    <3>3. k # 1
      BY <3>1, <3>2, <2>2, <2>5, <1>1 DEF Wipes
    <3> QED BY <3>1, <3>2, <3>3, <2>3
  <2> QED BY <2>4, <2>5
<1>7. WindowFits(s, v, k2, n2)
  <2> SUFFICES ASSUME NEW l \in Lanes, n2[l].place # 0, ~StartsIn(v, 0, l)
               PROVE  \/ Fits(s, l, n2[l].place)
                      \/ k2 # s.heat /\ \E k \in 1..Len(v) : Empties(v[k]) \/ Names(k2, v[k])
    BY DEF WindowFits, Fits
  <2>2. /\ ~Empties(f) /\ (~Names(key, f) => k2 = key)
        /\ n2[l].place = IF Brings(f, l) THEN f.lanes[l].place
                         ELSE IF Names(key, f) THEN 0 ELSE snap[l].place
    BY <1>2
  <2>1. ~StartsIn(w, 0 + 1, l) /\ ~StartsIn(w, 1, l)
    BY <1>1, <1>3
  <2>4. CASE Brings(f, l)
    BY <1>1, <2>1, <2>2, <2>4 DEF FlightFits, FramesFit
  <2>5. CASE ~Brings(f, l)
    <3>1. ~Names(key, f) /\ n2[l].place = snap[l].place /\ k2 = key
      BY <2>2, <2>5
    <3>2. ~StartsIn(w, 0, l)
      <4> SUFFICES ASSUME NEW k \in (0 + 1)..Len(w), Brings(w[k], l) /\ w[k].lanes[l].run
                   PROVE  FALSE
        BY DEF StartsIn
      <4>1. k # 1
        BY <2>5, <1>1
      <4>2. k \in (1 + 1)..Len(w)
        BY <4>1, <1>1
      <4> QED BY <4>2, <2>1 DEF StartsIn
    <3>3. CASE key # s.heat /\ \E k \in 1..Len(w) : Empties(w[k]) \/ Names(key, w[k])
      <4>1. PICK k \in 1..Len(w) : Empties(w[k]) \/ Names(key, w[k])
        BY <3>3
      <4>2. k # 1
        BY <4>1, <3>1, <2>2, <1>1
      <4>3. k - 1 \in 1..Len(v) /\ (k - 1) + 1 = k
        BY <4>2, <1>1
      <4> QED BY <4>1, <4>3, <3>1, <3>3, <1>1
    <3> QED BY <3>1, <3>2, <3>3 DEF FlightFits, WindowFits
  <2> QED BY <2>4, <2>5
<1> QED BY <1>4, <1>5, <1>6, <1>7 DEF FlightFits, v

\* A frame at the head of the wire reaches the window; the server hears of a splash
\* it takes down.
LEMMA FrameTaken ==
  ASSUME KioskInv, PlacesInv, KioskInv', link.conn, ~link.cut, wire # <<>>, link' = link,
         \/ srv' = srv /\ wire' = Tail(wire)
         \/ /\ srv' = [srv EXCEPT !.overlay = FALSE]
            /\ wire' = Tail(wire) \o <<Event("no_overlay")>>,
         \/ \A l \in Lanes : tv.snap'[l].place = 0
         \/ /\ ~Empties(Head(wire))
            /\ tv.key' = IF Names(tv.key, Head(wire)) THEN Head(wire).heat ELSE tv.key
            /\ \A l \in Lanes : tv.snap'[l].place =
                  IF Brings(Head(wire), l) THEN Head(wire).lanes[l].place
                  ELSE IF Names(tv.key, Head(wire)) THEN 0 ELSE tv.snap[l].place
  PROVE  PlacesInv'
<1>1. /\ wire \in Seq(Sent) /\ Tail(wire) \in Seq(Sent) /\ srv \in Servers /\ srv' \in Servers
      /\ tv.snap' \in [Lanes -> Marks]
  BY DEF KioskInv, Typed, Windows
<1>2. FlightFits(srv, wire, tv.key, tv.snap) /\ PlacesLast(srv)
  BY DEF PlacesInv
<1>3. FlightFits(srv, Tail(wire), tv.key', tv.snap')
  BY <1>1, <1>2, TailFits
<1>4. CASE srv' = srv /\ wire' = Tail(wire)
  BY <1>2, <1>3, <1>4 DEF PlacesInv
<1>5. CASE /\ srv' = [srv EXCEPT !.overlay = FALSE]
           /\ wire' = Tail(wire) \o <<Event("no_overlay")>>
  <2> DEFINE e == Event("no_overlay")
             v == Tail(wire)
  <2>1. e \in Sent /\ DOMAIN e.lanes = {}
    BY EventTyped
  <2>2. srv.lanes' = srv.lanes /\ srv.swim' = srv.swim /\ srv.heat' = srv.heat
    BY <1>1, <1>5 DEF Servers
  <2>3. \A l \in Lanes : /\ Live(srv', l) = Live(srv, l)
                         /\ \A p \in Int : Fits(srv', l, p) = Fits(srv, l, p)
    BY <2>2 DEF Live, Fits
  <2>4. Follows(srv, e, srv') /\ PlacesLast(srv')
    BY <2>1, <2>2, <2>3, <1>2 DEF Follows, Brings, PlacesLast
  <2>5. wire' = Append(v, e)
    BY <1>1, <1>5
  <2> HIDE DEF e, v
  <2>6. FlightFits(srv', Append(v, e), tv.key', tv.snap')
    BY <2>1, <2>4, <1>1, <1>3, FrameFlies DEF v
  <2> QED BY <2>4, <2>5, <2>6 DEF PlacesInv
<1> QED BY <1>4, <1>5

-----------------------------------------------------------------------------
(* The tints.                                                              *)

LEMMA RowTint ==
  ASSUME NEW r \in Rows, NEW s \in Marks
  PROVE  /\ UpdatedRow(r, s).tint = IF s.place = 0 THEN 0 ELSE r.tint
         /\ ClearedRow(r).tint = 0
         /\ \A b : [r EXCEPT !.run = b].tint = r.tint
BY DEF UpdatedRow, ClearedRow, Rows

LEMMA RowsTinted ==
  ASSUME NEW t \in Windows, NEW ls \in SUBSET Lanes, NEW l \in Lanes
  PROVE  UpdateRows(t, ls).rows[l].tint =
            IF l \in ls /\ t.snap[l].place = 0 THEN 0 ELSE t.rows[l].tint
<1> DEFINE rows == [k \in Lanes |-> IF k \in ls THEN UpdatedRow(t.rows[k], t.snap[k]) ELSE t.rows[k]]
<1>1. UpdateRows(t, ls).rows = rows
  BY DEF UpdateRows, Windows
<1>2. t.rows[l] \in Rows /\ t.snap[l] \in Marks
  BY DEF Windows
<1>3. rows[l] = IF l \in ls THEN UpdatedRow(t.rows[l], t.snap[l]) ELSE t.rows[l]
  OBVIOUS
<1> HIDE DEF rows
<1> QED BY <1>1, <1>2, <1>3, RowTint

LEMMA TintedSame ==
  ASSUME NEW t, NEW u, Tinted(t), u.snap = t.snap, u.step = t.step,
         \A l \in Lanes : u.rows[l].tint = t.rows[l].tint
  PROVE  Tinted(u)
BY DEF Tinted

LEMMA ClockTints ==
  ASSUME NEW t \in Windows, NEW l \in Lanes
  PROVE  SyncClock(t).rows[l].tint = t.rows[l].tint
<1> DEFINE on == Racing(t) /\ ~link'.lost
           rows == [k \in Lanes |->
               IF on /\ t.base /\ t.rows[k].run THEN [t.rows[k] EXCEPT !.time = Clock] ELSE t.rows[k]]
<1>1. SyncClock(t).rows = rows
  BY DEF SyncClock, Windows
<1>2. t.rows[l] \in Rows
  BY DEF Windows
<1>3. rows[l].tint = t.rows[l].tint
  <2> HIDE DEF on
  <2> QED BY <1>2 DEF Rows
<1> QED BY <1>1, <1>3

LEMMA StoppedTints ==
  ASSUME NEW t \in Windows, NEW l \in Lanes
  PROVE  StopClock(t).rows[l].tint = t.rows[l].tint
<1>1. t.rows[l] \in Rows
  BY DEF Windows
<1>2. StopClock(t).rows[l] = [t.rows[l] EXCEPT !.run = FALSE]
  BY StoppedClock
<1> QED BY <1>1, <1>2 DEF Rows

\* A race that starts takes every colour down.
LEMMA RaceTints ==
  ASSUME NEW t \in Windows, NEW l \in Lanes
  PROVE  RaceStarted(t).rows[l].tint = 0
<1> DEFINE c == CancelTransition(t)
           p == ClearPodium(c)
<1>1. c \in Windows
  BY TransitionCancelled
<1> HIDE DEF c
<1>2. p \in Windows /\ p.rows[l] = [c.rows[l] EXCEPT !.tint = 0]
  BY <1>1, PodiumCleared
<1>3. c.rows[l] \in Rows
  BY <1>1 DEF Windows
<1>4. p.rows[l].tint = 0
  BY <1>2, <1>3 DEF Rows
<1> HIDE DEF p
<1>5. RaceStarted(t).rows = p.rows
  BY <1>2 DEF RaceStarted, Windows, p, c
<1> QED BY <1>4, <1>5

\* A frame of times, whose places follow the window's or come to a lane without one.
LEMMA TimesTinted ==
  ASSUME NEW t \in Windows, Tinted(t), NEW f \in Sent,
         \A l \in DOMAIN f.lanes : t.snap[l].place = 0 \/ f.lanes[l].place \in {0, t.snap[l].place}
  PROVE  Tinted(ApplyUpdate(t, f))
<1> DEFINE was == Racing(t)
           a == Merged(t, f)
           b == IF f.heat # Absent /\ f.heat # t.key THEN HeatChanged(a, f) ELSE a
           c == IF ~was /\ Racing(b) THEN RaceStarted(b) ELSE b
           d == IF f.kind = "running_time" /\ ~HeatIsDone(c)
                THEN [c EXCEPT !.base = TRUE, !.rebased = TRUE] ELSE c
           ls == IF f.heat # Absent THEN Lanes ELSE DOMAIN f.lanes
           e == IF d.step # 0 THEN d ELSE UpdateRows(d, ls)
           g == IF e.step = 0 /\ HeatIsDone(e) THEN HighlightPodium(e) ELSE e
           u == SyncClock(g)
           turns == f.heat # Absent /\ f.heat # t.key
           Soon(x) == x.step = 0 => \A l \in Lanes : \/ x.rows[l].tint \in {0, x.snap[l].place}
                                                     \/ l \in ls /\ x.snap[l].place = 0
<1>1. u = ApplyUpdate(t, f)
  BY Zenon DEF ApplyUpdate
<1>2. DOMAIN f.lanes \subseteq Lanes /\ ls \in SUBSET Lanes /\ DOMAIN f.lanes \subseteq ls
      /\ (turns => ls = Lanes)
  BY BoardFacts DEF Sent
<1> HIDE DEF ls
<1>3. /\ a \in Windows /\ a.step = t.step
      /\ \A l \in DOMAIN f.lanes :
               /\ a.snap[l] = [time |-> IF f.lanes[l].run THEN t.snap[l].time ELSE f.lanes[l].time,
                               place |-> f.lanes[l].place]
               /\ a.rows[l] = [t.rows[l] EXCEPT !.run = f.lanes[l].run]
      /\ \A l \in Lanes \ DOMAIN f.lanes : a.snap[l] = t.snap[l] /\ a.rows[l] = t.rows[l]
  BY FrameMerged
<1> HIDE DEF a
<1>4. Soon(a)
  <2> SUFFICES ASSUME t.step = 0, NEW l \in Lanes
               PROVE  a.rows[l].tint \in {0, a.snap[l].place} \/ (l \in ls /\ a.snap[l].place = 0)
    BY <1>3
  <2>1. t.rows[l] \in Rows /\ t.rows[l].tint \in {0, t.snap[l].place}
    BY DEF Windows, Tinted
  <2>2. CASE l \in DOMAIN f.lanes
    <3>1. a.rows[l].tint = t.rows[l].tint /\ a.snap[l].place = f.lanes[l].place
      <4>1. a.rows[l] = [t.rows[l] EXCEPT !.run = f.lanes[l].run]
        BY <2>2, <1>3
      <4>2. t.snap[l] \in Marks
        BY DEF Windows
      <4>3. a.rows[l].tint = t.rows[l].tint
        BY <4>1, <4>2, <2>1, RowTint
      <4>4. a.snap[l] = [time |-> IF f.lanes[l].run THEN t.snap[l].time ELSE f.lanes[l].time,
                         place |-> f.lanes[l].place]
        BY <2>2, <1>3
      <4>5. a.snap[l].place = f.lanes[l].place
        BY <4>4
      <4> QED BY <4>3, <4>5
    <3>2. t.snap[l].place = 0 \/ f.lanes[l].place \in {0, t.snap[l].place}
      BY <2>2
    <3>3. t.rows[l].tint \in {0, f.lanes[l].place} \/ f.lanes[l].place = 0
      BY <2>1, <3>2
    <3>4. l \in ls
      BY <2>2, <1>2
    <3> QED BY <3>1, <3>3, <3>4
  <2>3. CASE l \notin DOMAIN f.lanes
    BY <2>1, <2>3, <1>3
  <2> QED BY <2>2, <2>3
<1>5. b \in Windows /\ Soon(b)
  <2>1. CASE turns
    <3> DEFINE h == HeatChanged(a, f)
    <3>1. /\ h \in Windows
          /\ \A l \in Lanes : h.snap[l] = IF l \in DOMAIN f.lanes THEN a.snap[l] ELSE NoMark
          /\ h.step = 1 \/ (h.step = a.step /\ \A l \in Lanes : h.rows[l] = a.rows[l])
      BY <1>3, HeatTurned
    <3>2. b = h
      BY <2>1
    <3> HIDE DEF h, b
    <3>3. NoMark.place = 0
      BY DEF NoMark
    <3> QED BY <3>1, <3>2, <3>3, <2>1, <1>2, <1>4
  <2>2. CASE ~turns
    BY <2>2, <1>3, <1>4
  <2> QED BY <2>1, <2>2
<1> HIDE DEF b
<1>6. c \in Windows /\ Soon(c)
  <2>1. CASE ~was /\ Racing(b)
    BY <2>1, <1>5, RaceBegun, RaceTints
  <2>2. CASE ~(~was /\ Racing(b))
    BY <2>2, <1>5
  <2> QED BY <2>1, <2>2
<1> HIDE DEF c
<1>7. d \in Windows /\ d.rows = c.rows /\ d.step = c.step /\ d.snap = c.snap
  BY <1>6 DEF Windows
<1> HIDE DEF d
<1>8. e \in Windows /\ Tinted(e)
  <2>1. CASE d.step # 0
    BY <2>1, <1>7 DEF Tinted
  <2>2. CASE d.step = 0
    <3>1. e = UpdateRows(d, ls)
      BY <2>2
    <3>2. e \in Windows /\ e.snap = d.snap
      BY <3>1, <1>2, <1>7, Refreshed
    <3>3. \A l \in Lanes : e.rows[l].tint = IF l \in ls /\ d.snap[l].place = 0 THEN 0 ELSE d.rows[l].tint
      BY <3>1, <1>2, <1>7, RowsTinted
    <3> HIDE DEF e
    <3> QED BY <3>2, <3>3, <2>2, <1>6, <1>7 DEF Tinted
  <2> QED BY <2>1, <2>2
<1> HIDE DEF e
<1>9. g \in Windows /\ Tinted(g)
  BY <1>8, PodiumHighlighted DEF Tinted
<1> HIDE DEF g
<1>10. Tinted(u)
  BY <1>9, ClockSynced, ClockTints, TintedSame
<1> QED BY <1>1, <1>10

LEMMA ResetTinted ==
  ASSUME NEW t \in Windows
  PROVE  Tinted(Reset(t)) /\ \A l \in Lanes : Reset(t).snap[l].place = 0
<1> DEFINE s == StopClock(t)
           c == CancelTransition(s)
           snap == [l \in Lanes |-> [time |-> 0, place |-> 0]]
           rows == [l \in Lanes |-> ClearedRow(c.rows[l])]
           u == [c EXCEPT !.due = {}, !.shown = FALSE, !.key = Absent, !.cols = TRUE,
                          !.snap = snap, !.rows = rows]
<1>1. u = Reset(t)
  BY Zenon DEF Reset
<1>2. s \in Windows
  BY StoppedClock
<1> HIDE DEF s
<1>3. c \in Windows
  BY <1>2, TransitionCancelled
<1> HIDE DEF c
<1>4. \A l \in Lanes : rows[l].tint = 0
  BY <1>3, RowTint DEF Windows
<1>5. \A l \in Lanes : snap[l].place = 0
  OBVIOUS
<1> HIDE DEF rows, snap
<1>7. u.rows = rows /\ u.snap = snap
  BY <1>3 DEF Windows
<1> HIDE DEF u
<1> QED BY <1>1, <1>4, <1>5, <1>7 DEF Tinted

LEMMA ThemeTinted ==
  ASSUME NEW t \in Windows, Painted(t)  PROVE Tinted(Themed(t))
<1> DEFINE rows == [l \in Lanes |-> [t.rows[l] EXCEPT !.tint = t.rows[l].place]]
           s == [t EXCEPT !.rows = rows]
           u == UpdateRows(s, Lanes)
<1>1. u = Themed(t)
  BY DEF Themed, Refresh
<1>2. ASSUME NEW l \in Lanes  PROVE rows[l] \in Rows /\ rows[l].tint = t.rows[l].place
  <2>1. t.rows[l] \in Rows
    BY DEF Windows
  <2> QED BY <2>1 DEF Rows
<1>3. rows \in [Lanes -> Rows]
  BY <1>2
<1> HIDE DEF rows
<1>4. s \in Windows /\ s.rows = rows /\ s.snap = t.snap /\ s.step = t.step
  BY <1>3 DEF Windows
<1> HIDE DEF s
<1>5. /\ u.snap = t.snap /\ u.step = t.step
      /\ \A l \in Lanes : u.rows[l].tint = IF t.snap[l].place = 0 THEN 0 ELSE t.rows[l].place
  BY <1>2, <1>4, Refreshed, RowsTinted
<1> HIDE DEF u
<1>6. t.step = 0 => \A l \in Lanes : t.rows[l].place = t.snap[l].place
  BY DEF Painted, Matches
<1> QED BY <1>1, <1>5, <1>6 DEF Tinted

LEMMA BegunTinted ==
  Tinted(NewWindow) /\ \A l \in Lanes : NewWindow.rows[l].tint = 0
BY DEF Tinted, NewWindow

LEMMA RebuiltTinted ==
  ASSUME NEW t \in Windows  PROVE Tinted(Refresh([NewWindow EXCEPT !.snap = t.snap]))
<1> DEFINE s == [NewWindow EXCEPT !.snap = t.snap]
           u == UpdateRows(s, Lanes)
<1>1. u = Refresh([NewWindow EXCEPT !.snap = t.snap])
  BY DEF Refresh
<1>2. s \in Windows /\ s.rows = NewWindow.rows
  <2>1. t.snap \in [Lanes -> Marks] /\ NewWindow \in Windows
    BY WindowBegun DEF Windows
  <2> QED BY <2>1 DEF Windows
<1> HIDE DEF s
<1>3. \A l \in Lanes : u.rows[l].tint = 0
  BY <1>2, RowsTinted, BegunTinted
<1> HIDE DEF u
<1> QED BY <1>1, <1>3 DEF Tinted

\* A frame that is not of times, and resets nothing: the window keeps its places.
LEMMA SidePlaces ==
  ASSUME KioskInv, PodiumInv, KioskInv', link.conn, ~link.cut, wire # <<>>,
         ~Timed(Head(wire)), ~Empties(Head(wire)), NEW t, Paint(t), UNCHANGED srv,
         t.key = tv.key, t.snap = tv.snap, t.step = tv.step,
         \A l \in Lanes : t.rows[l].tint = tv.rows[l].tint
  PROVE  PodiumInv'
<1>1. tv' = t /\ link' = link /\ wire' = Tail(wire) /\ srv' = srv
  BY DEF Paint
<1>2. ~Names(tv.key, Head(wire)) /\ \A l \in Lanes : ~Brings(Head(wire), l)
  BY DEF Names, Brings
<1>3. tv.key' = tv.key /\ tv.snap' = tv.snap
  BY <1>1
<1>4. PlacesInv'
  BY <1>1, <1>2, <1>3, FrameTaken DEF PodiumInv
<1>5. Tinted(tv')
  BY <1>1, TintedSame DEF PodiumInv
<1> QED BY <1>4, <1>5 DEF PodiumInv

\* A frame that empties the board.
LEMMA EmptyPlaces ==
  ASSUME KioskInv, PodiumInv, KioskInv', link.conn, ~link.cut, wire # <<>>,
         NEW t, Paint(t), UNCHANGED srv, \A l \in Lanes : t.snap[l].place = 0, Tinted(t)
  PROVE  PodiumInv'
<1>1. tv' = t /\ link' = link /\ wire' = Tail(wire) /\ srv' = srv
  BY DEF Paint
<1>2. PlacesInv'
  BY <1>1, FrameTaken DEF PodiumInv
<1>3. Tinted(tv')
  BY <1>1
<1> QED BY <1>2, <1>3 DEF PodiumInv

\* A frame of times.
LEMMA TimesPlaces ==
  ASSUME KioskInv, PodiumInv, KioskInv', link.conn, ~link.cut, wire # <<>>,
         Head(wire).kind \in {"update_scoreboard", "running_time"}, link' = link,
         NEW t, t = ApplyUpdate(tv, Head(wire)), tv' = AfterUpdate(t),
         IF Dismisses(t)
         THEN /\ srv' = [srv EXCEPT !.overlay = FALSE]
              /\ wire' = Tail(wire) \o <<Event("no_overlay")>>
         ELSE srv' = srv /\ wire' = Tail(wire)
  PROVE  PodiumInv'
<1> DEFINE f == Head(wire)
<1>1. /\ tv \in Windows /\ Painted(tv) /\ wire \in Seq(Sent) /\ f \in Sent
      /\ f = wire[1] /\ 1 \in 1..Len(wire)
  BY DEF KioskInv, Typed
<1>2. Timed(f) /\ ~Empties(f)
  BY DEF Timed, Empties
<1>3. FlightFits(srv, wire, tv.key, tv.snap)
  BY DEF PodiumInv, PlacesInv
<1>4. t \in Windows /\ Updates(View(tv), f, View(t))
  BY <1>1, UpdateApplied
<1> HIDE DEF f
<1>5. \A l \in DOMAIN f.lanes : tv.snap[l].place = 0 \/ f.lanes[l].place \in {0, tv.snap[l].place}
  <2> SUFFICES ASSUME NEW l \in DOMAIN f.lanes
               PROVE  tv.snap[l].place = 0 \/ f.lanes[l].place \in {0, tv.snap[l].place}
    OBVIOUS
  <2>1. l \in Lanes /\ Brings(wire[1], l)
    BY <1>1, <1>2, BoardFacts DEF Sent, Brings
  <2>2. \A k \in 1..(1 - 1) : FALSE
    OBVIOUS
  <2> QED BY <2>1, <2>2, <1>1, <1>3 DEF FlightFits, WipedBefore
<1>6. Tinted(t)
  BY <1>1, <1>5, TimesTinted DEF f, PodiumInv
<1>7. tv'.snap = t.snap /\ tv'.key = t.key /\ tv'.step = t.step /\ tv'.rows = t.rows
  BY <1>4 DEF AfterUpdate, Windows
<1>8. Tinted(tv')
  BY <1>6, <1>7, TintedSame
<1>9. t.key = IF Names(tv.key, f) THEN f.heat ELSE tv.key
  BY <1>2, <1>4 DEF Updates, View, Names
<1>10. Turns(View(tv), f) <=> Names(tv.key, f)
  BY <1>2 DEF Turns, View, Names
<1>11. ASSUME NEW l \in Lanes
       PROVE  t.snap[l].place = IF Brings(f, l) THEN f.lanes[l].place
                                ELSE IF Names(tv.key, f) THEN 0 ELSE tv.snap[l].place
  <2>1. t.snap[l] = IF l \in DOMAIN f.lanes
                    THEN [time |-> IF f.lanes[l].run THEN tv.snap[l].time ELSE f.lanes[l].time,
                          place |-> f.lanes[l].place]
                    ELSE IF Turns(View(tv), f) THEN NoMark ELSE tv.snap[l]
    BY <1>4 DEF Updates, View
  <2>2. Brings(f, l) <=> l \in DOMAIN f.lanes
    BY <1>2 DEF Brings
  <2> QED BY <2>1, <2>2, <1>10 DEF NoMark
<1>12. PlacesInv'
  BY <1>2, <1>7, <1>9, <1>11, FrameTaken DEF f, PodiumInv
<1> QED BY <1>8, <1>12 DEF PodiumInv

LEMMA DeliverPlaces ==
  ASSUME KioskInv, PodiumInv, KioskInv', Deliver  PROVE PodiumInv'
<1> DEFINE f == Head(wire)
<1>1. link.conn /\ ~link.cut /\ wire # <<>> /\ tv \in Windows
  BY DEF Deliver, KioskInv, Typed
<1>2. CASE /\ f.kind \in {"update_scoreboard", "running_time"}
           /\ link' = link
           /\ LET t == ApplyUpdate(tv, f) IN
              /\ tv' = AfterUpdate(t)
              /\ IF Dismisses(t)
                 THEN /\ srv' = [srv EXCEPT !.overlay = FALSE]
                      /\ wire' = Tail(wire) \o <<Event("no_overlay")>>
                 ELSE srv' = srv /\ wire' = Tail(wire)
           /\ UNCHANGED <<cfg, upd, left>>
  BY <1>1, <1>2, TimesPlaces
<1> HIDE DEF f
<1>3. CASE /\ f.kind = "race_finished"
           /\ Paint(HighlightPodium(StopClock(tv)))
           /\ UNCHANGED <<srv, cfg, upd>>
  <2> DEFINE s == StopClock(tv)
             u == HighlightPodium(s)
  <2>1. s \in Windows /\ s.snap = tv.snap /\ s.key = tv.key /\ s.step = tv.step
        /\ \A l \in Lanes : s.rows[l].tint = tv.rows[l].tint
    BY <1>1, StoppedClock, StoppedTints
  <2> HIDE DEF s
  <2>2. u.snap = s.snap /\ u.key = s.key /\ u.step = s.step /\ u.rows = s.rows
    BY <2>1, PodiumHighlighted
  <2> HIDE DEF u
  <2>3. Paint(u) /\ UNCHANGED srv
    BY <1>3 DEF u, s
  <2> QED BY <1>1, <1>3, <2>1, <2>2, <2>3, SidePlaces DEF f, Timed, Empties
<1>4. CASE /\ f.kind = "reset"
           /\ Paint(Reset(tv))
           /\ UNCHANGED <<srv, cfg, upd>>
  <2>1. Tinted(Reset(tv)) /\ \A l \in Lanes : Reset(tv).snap[l].place = 0
    BY <1>1, ResetTinted
  <2> QED BY <1>1, <1>4, <2>1, EmptyPlaces
<1>5. CASE /\ f.kind = "test_mode"
           /\ Paint([Reset(tv) EXCEPT !.badge = TRUE])
           /\ UNCHANGED <<srv, cfg, upd>>
  <2> DEFINE r == Reset(tv)
             u == [r EXCEPT !.badge = TRUE]
  <2>1. r \in Windows /\ Tinted(r) /\ \A l \in Lanes : r.snap[l].place = 0
    BY <1>1, ResetTinted, ResetApplied
  <2> HIDE DEF r
  <2>2. u.snap = r.snap /\ u.step = r.step /\ u.rows = r.rows
    BY <2>1 DEF Windows
  <2> HIDE DEF u
  <2>3. Tinted(u)
    BY <2>1, <2>2, TintedSame
  <2>4. Paint(u) /\ UNCHANGED srv
    BY <1>5 DEF u, r
  <2> QED BY <1>1, <2>1, <2>2, <2>3, <2>4, EmptyPlaces
<1>6. ASSUME NEW t, t.key = tv.key, t.snap = tv.snap, t.step = tv.step, t.rows = tv.rows, Paint(t),
             UNCHANGED srv, ~Timed(f), ~Empties(f)
      PROVE  PodiumInv'
  BY <1>1, <1>6, SidePlaces DEF f
<1>7. CASE /\ f.kind = "no_test_mode"
           /\ Paint([tv EXCEPT !.badge = FALSE])
           /\ UNCHANGED <<srv, cfg, upd>>
  <2> DEFINE u == [tv EXCEPT !.badge = FALSE]
  <2>1. u.key = tv.key /\ u.snap = tv.snap /\ u.step = tv.step /\ u.rows = tv.rows
    BY <1>1 DEF Windows
  <2> HIDE DEF u
  <2>2. Paint(u) /\ UNCHANGED srv
    BY <1>7 DEF u
  <2> QED BY <1>6, <1>7, <2>1, <2>2 DEF Timed, Empties
<1>8. CASE /\ f.kind \in {"overlay", "no_overlay"}
           /\ Paint([tv EXCEPT !.splash = (f.kind = "overlay")])
           /\ UNCHANGED <<srv, cfg, upd>>
  <2> DEFINE u == [tv EXCEPT !.splash = (f.kind = "overlay")]
  <2>1. u.key = tv.key /\ u.snap = tv.snap /\ u.step = tv.step /\ u.rows = tv.rows
    BY <1>1 DEF Windows
  <2> HIDE DEF u
  <2>2. Paint(u) /\ UNCHANGED srv
    BY <1>8 DEF u
  <2> QED BY <1>6, <1>8, <2>1, <2>2 DEF Timed, Empties
<1>9. CASE /\ f.kind = "columns"
           /\ Paint([tv EXCEPT !.cols = TRUE])
           /\ UNCHANGED <<srv, cfg, upd>>
  <2> DEFINE u == [tv EXCEPT !.cols = TRUE]
  <2>1. u.key = tv.key /\ u.snap = tv.snap /\ u.step = tv.step /\ u.rows = tv.rows
    BY <1>1 DEF Windows
  <2> HIDE DEF u
  <2>2. Paint(u) /\ UNCHANGED srv
    BY <1>9 DEF u
  <2> QED BY <1>6, <1>9, <2>1, <2>2 DEF Timed, Empties
<1>10. CASE /\ f.kind \in {"reload", "update"} /\ Paint(tv) /\ UNCHANGED srv
  BY <1>6, <1>10 DEF Timed, Empties
<1> QED BY <1>2, <1>3, <1>4, <1>5, <1>7, <1>8, <1>9, <1>10 DEF Deliver, f

-----------------------------------------------------------------------------
(* The timers and the config.                                              *)

LEMMA PodiumTimerPlaces ==
  ASSUME KioskInv, PodiumInv, NEW l \in Lanes, PodiumTimer(l)  PROVE PodiumInv'
<1> DEFINE rows == [tv.rows EXCEPT ![l].tint = tv.rows[l].place]
           due == tv.due \ {l}
<1>1. tv \in Windows /\ Painted(tv)
  BY DEF KioskInv, Typed
<1>2. tv' = [tv EXCEPT !.due = due, !.rows = rows] /\ UNCHANGED <<srv, wire, link>>
  BY DEF PodiumTimer
<1>3. \A k \in Lanes : rows[k].tint = IF k = l THEN tv.rows[l].place ELSE tv.rows[k].tint
  <2>1. tv.rows \in [Lanes -> Rows]
    BY <1>1 DEF Windows
  <2> QED BY <2>1 DEF Rows
<1> HIDE DEF rows, due
<1>4. tv.rows' = rows /\ tv.snap' = tv.snap /\ tv.key' = tv.key /\ tv.step' = tv.step
  BY <1>1, <1>2 DEF Windows
<1>5. PlacesInv'
  BY <1>2, <1>4, LookPlaces DEF PodiumInv, PlacesInv
<1>6. tv.step = 0 => tv.rows[l].place = tv.snap[l].place
  BY <1>1 DEF Painted, Matches
<1>7. Tinted(tv')
  BY <1>3, <1>4, <1>6 DEF PodiumInv, Tinted
<1> QED BY <1>5, <1>7 DEF PodiumInv

LEMMA TransitionStepPlaces ==
  ASSUME KioskInv, PodiumInv, TransitionStep  PROVE PodiumInv'
<1>1. tv \in Windows /\ tv.step # 0 /\ UNCHANGED <<srv, wire, link>>
  BY DEF KioskInv, Typed, TransitionStep
<1>2. tv.snap' = tv.snap /\ tv.key' = tv.key /\ Tinted(tv')
  <2>1. CASE tv.step = 1
    <3>1. tv' = [tv EXCEPT !.step = 2, !.cols = FALSE]
      BY <2>1 DEF TransitionStep
    <3>2. tv.snap' = tv.snap /\ tv.key' = tv.key /\ tv.step' = 2
      BY <1>1, <3>1 DEF Windows
    <3> QED BY <3>2 DEF Tinted
  <2>2. CASE tv.step = 2
    <3>1. tv' = [tv EXCEPT !.step = 3]
      BY <2>2 DEF TransitionStep
    <3>2. tv.snap' = tv.snap /\ tv.key' = tv.key /\ tv.step' = 3
      BY <1>1, <3>1 DEF Windows
    <3> QED BY <3>2 DEF Tinted
  <2>3. CASE tv.step = 3
    <3> DEFINE rows == [l \in Lanes |-> ClearedRow(tv.rows[l])]
               s == [tv EXCEPT !.step = 0, !.rows = rows]
               u == UpdateRows(s, Lanes)
    <3>1. tv' = u
      BY <2>3 DEF TransitionStep, Refresh
    <3>2. rows \in [Lanes -> Rows] /\ \A l \in Lanes : rows[l].tint = 0
      BY <1>1, RowCleared, RowTint DEF Windows
    <3> HIDE DEF rows
    <3>3. 0 \in 0..3
      OBVIOUS
    <3>4. s \in Windows /\ s.rows = rows /\ s.snap = tv.snap /\ s.key = tv.key
      BY <1>1, <3>2, <3>3 DEF Windows
    <3> HIDE DEF s
    <3>5. u.snap = tv.snap /\ u.key = tv.key /\ \A l \in Lanes : u.rows[l].tint = 0
      BY <3>2, <3>4, Refreshed, RowsTinted
    <3> HIDE DEF u
    <3> QED BY <3>1, <3>5 DEF Tinted
  <2> QED BY <1>1, <2>1, <2>2, <2>3 DEF Windows
<1>3. PlacesInv'
  BY <1>1, <1>2, LookPlaces DEF PodiumInv, PlacesInv
<1> QED BY <1>2, <1>3 DEF PodiumInv

LEMMA OnConfigPlaces ==
  ASSUME KioskInv, PodiumInv, OnConfig  PROVE PodiumInv'
<1>1. tv \in Windows /\ Painted(tv) /\ link \in Links /\ UNCHANGED <<srv, wire>>
  BY DEF KioskInv, Typed, OnConfig
<1>2. CASE cfg.reply = cfg.layout
  <2>1. tv' = Themed(tv) /\ link' = link
    BY <1>2 DEF OnConfig
  <2>2. View(tv') = View(tv) /\ Tinted(tv')
    BY <1>1, <2>1, ThemePainted, ThemeTinted
  <2>3. tv.snap' = tv.snap /\ tv.key' = tv.key
    BY <2>2 DEF View
  <2>4. PlacesInv'
    BY <1>1, <2>1, <2>3, LookPlaces DEF PodiumInv, PlacesInv
  <2> QED BY <2>2, <2>4 DEF PodiumInv
<1>3. CASE cfg.reply # cfg.layout
  <2>1. Rebuilt
    BY <1>3 DEF OnConfig
  <2>2. Rebuilds(View(tv), View(tv')) /\ Tinted(tv')
    BY <1>1, <2>1, WindowRebuilt, RebuiltTinted DEF Rebuilt
  <2>3. tv.snap' = tv.snap /\ tv.key' = Absent
    BY <2>2 DEF Rebuilds, View
  <2>4. link.conn' = link.conn
    BY <1>1, <2>1 DEF Rebuilt, Links
  <2>5. PlacesInv'
    BY <1>1, <2>3, <2>4, RebuiltPlaces DEF PodiumInv
  <2> QED BY <2>2, <2>5 DEF PodiumInv
<1> QED BY <1>2, <1>3

LEMMA RestartPlaces ==
  ASSUME KioskInv, PodiumInv, Restart  PROVE PodiumInv'
<1>1. tv' = NewWindow /\ link' = [NewLink EXCEPT !.cut = link.cut] /\ srv' = srv
  BY DEF Restart, Fresh
<1>2. ~link.conn' /\ tv.key' = Absent /\ Tinted(tv')
  BY <1>1, BegunTinted DEF NewLink, NewWindow
<1>3. srv.heat # Absent
  BY KioskAssumption DEF KioskInv, Typed, Servers, Absent
<1>4. PlacesInv'
  BY <1>1, <1>2, <1>3 DEF PodiumInv, PlacesInv, LossFits
<1> QED BY <1>2, <1>4 DEF PodiumInv

-----------------------------------------------------------------------------
(* PodiumFollowsPlaces.                                                    *)

LEMMA PodiumInvInit == KioskInit => PodiumInv
<1> SUFFICES ASSUME KioskInit  PROVE PodiumInv
  OBVIOUS
<1>1. srv \in Servers /\ \A l \in Lanes : srv.lanes[l] = Blank
  BY KioskInvInit DEF KioskInit, KioskInv, Typed
<1>2. PlacesLast(srv)
  BY <1>1, BlankFits DEF PlacesLast
<1>3. ~link.conn /\ tv.key # srv.heat
  BY DEF KioskInit, NewLink, NewWindow, Absent
<1>4. Tinted(tv)
  BY BegunTinted DEF KioskInit
<1> QED BY <1>2, <1>3, <1>4 DEF PodiumInv, PlacesInv, LossFits

LEMMA PodiumInvNext ==
  ASSUME KioskInv, KioskInv', PodiumInv, Undisturbed, ~Corrections, [KioskNext]_kioskVars
  PROVE  PodiumInv'
<1>1. PlacesInv /\ (UNCHANGED tv => Tinted(tv)')
  BY DEF PodiumInv, Tinted
<1>2. CASE Server
  <2>1. UNCHANGED tv
    BY <1>2 DEF Server, NewHeat, Start, Resume, Touch, Finish, RunningTime, RaceFinished,
                BoardReset, OtherConnects, Overlay, TestStarts, TestEnds, Save, Press
  <2>2. ASSUME NEW h \in Heats, NewHeat(h)  PROVE PlacesInv'
    BY <2>2, <1>1, NewHeatPlaces
  <2>3. ASSUME NEW ls \in SUBSET Lanes \ {{}}, Start(ls)  PROVE PlacesInv'
    BY <2>3, <1>1, StartPlaces
  <2>4. ASSUME NEW l \in Lanes, Resume(l) \/ Touch(l) \/ Finish(l)  PROVE PlacesInv'
    BY <2>4, <1>1, ResumePlaces, TouchPlaces, FinishPlaces
  <2>5. ASSUME \/ RunningTime \/ RaceFinished \/ OtherConnects \/ Save \/ Press
               \/ \E on \in BOOLEAN : Overlay(on)
        PROVE  PlacesInv'
    BY <2>5, <1>1, OtherSendsPlaces
  <2>6. ASSUME BoardReset \/ TestStarts \/ TestEnds  PROVE PlacesInv'
    BY <2>6, <1>1, BoardResetPlaces, TestStartsPlaces, TestEndsPlaces
  <2>7. PlacesInv'
    BY <1>2, <2>2, <2>3, <2>4, <2>5, <2>6 DEF Server
  <2> QED BY <1>1, <2>1, <2>7 DEF PodiumInv
<1>3. ASSUME PlacesInv', tv.snap' = tv.snap, tv.step' = tv.step, tv.rows' = tv.rows
      PROVE  PodiumInv'
  <2>1. Tinted(tv')
    BY <1>3, TintedSame DEF PodiumInv
  <2> QED BY <1>3, <2>1 DEF PodiumInv
<1>4. tv \in Windows
  BY DEF KioskInv, Typed
<1>5. CASE Cut \/ ServerRestarts
  <2>1. tv.snap' = tv.snap /\ tv.step' = tv.step /\ tv.rows' = tv.rows
    BY <1>4, <1>5 DEF Cut, ServerRestarts, Drop, Windows
  <2> QED BY <2>1, <1>1, <1>3, <1>5, CutPlaces, ServerRestartsPlaces
<1>6. CASE Mended \/ AnnounceDrop \/ RetryFails \/ GoesStale \/ Connect
  <2>1. tv.snap' = tv.snap /\ tv.step' = tv.step /\ tv.rows' = tv.rows
    BY <1>4, <1>6 DEF Mended, AnnounceDrop, RetryFails, GoesStale, Drop, Connect, Greet, Windows
  <2> QED BY <2>1, <1>1, <1>3, <1>6, LinkPlaces, GoesStalePlaces, ConnectPlaces
<1>7. CASE UNCHANGED <<srv, wire, link, tv>>
  <2>1. PlacesInv'
    BY <1>1, <1>7, LookPlaces DEF PlacesInv
  <2> QED BY <1>1, <1>7, <2>1 DEF PodiumInv
<1>8. CASE Display
  <2>1. CASE Connect \/ GoesStale \/ RetryFails \/ AnnounceDrop
    BY <2>1, <1>6
  <2>2. CASE Deliver \/ TransitionStep \/ OnConfig \/ Restart
    BY <2>2, DeliverPlaces, TransitionStepPlaces, OnConfigPlaces, RestartPlaces
  <2>3. ASSUME NEW l \in Lanes, PodiumTimer(l)  PROVE PodiumInv'
    BY <2>3, PodiumTimerPlaces
  <2>4. CASE Answer \/ FetchFails \/ MenuUpdate \/ \E ok \in BOOLEAN : UpdateEnds(ok)
    BY <2>4, <1>7 DEF Answer, FetchFails, MenuUpdate, UpdateEnds
  <2> QED BY <1>8, <2>1, <2>2, <2>3, <2>4 DEF Display
<1>9. CASE UNCHANGED kioskVars
  BY <1>7, <1>9 DEF kioskVars
<1> QED BY <1>2, <1>5, <1>6, <1>8, <1>9 DEF KioskNext, Faults

\* A display that has caught up after the race colours no row in a place it does not
\* have: where also no place is corrected, and no lane swims its heat again unheard
\* with the place of the first swim up.
THEOREM PodiumAlwaysFollows ==
  ASSUME Undisturbed, ~Corrections  PROVE KioskSpec => []PodiumFollowsPlaces
<1>1. KioskInit => KioskInv /\ PodiumInv
  BY KioskInvInit, PodiumInvInit
<1>2. KioskInv /\ PodiumInv /\ [KioskNext]_kioskVars => (KioskInv /\ PodiumInv)'
  BY KioskInvNext, PodiumInvNext
<1>3. KioskInv /\ PodiumInv => PodiumFollowsPlaces
  BY DEF KioskInv, PodiumInv, Painted, Matches, Tinted, PodiumFollowsPlaces, CaughtUp
<1> QED BY <1>1, <1>2, <1>3, PTL DEF KioskSpec
=============================================================================
