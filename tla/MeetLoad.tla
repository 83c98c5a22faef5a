------------------------------ MODULE MeetLoad ------------------------------
(***************************************************************************)
(* The loaded meet and the console's times (server/state.py,               *)
(* routes/settings.py, routes/meet.py, worker._remember_console_times).    *)
(*                                                                         *)
(* A finished heat's times are kept in memory and, after the finish        *)
(* debounce, appended to the journal of the meet that is then loaded.      *)
(* Request threads load a meet, replace the loaded one's file by a newer   *)
(* export with official results, or delete it, step by step, while the     *)
(* worker and the debounce threads go on.  A power cut may tear the line   *)
(* being appended.                                                         *)
(*                                                                         *)
(* Allowed names what a run may include beyond the ordinary.               *)
(***************************************************************************)
EXTENDS Naturals, Sequences, FiniteSets

CONSTANTS
    Files,     \* meet files: a LENEX file's meet has a name, a CSV's has not
    Lenex,     \* the LENEX ones
    Heats,     \* heat numbers, the same in every meet
    None,
    Allowed,   \* see Cases
    MaxSwims,  \* bound: races swum
    MaxOps     \* bound: requests and power cuts

Cases ==
    {"RepeatAfterLoad",     \* the console repeats a finished race after a load
     "FinishWhileReloading", \* a race is confirmed while its meet is re-read
     "UploadsOverlap",      \* two updates of the meet's file at once
     "TornLine"}            \* a power cut inside an append

ASSUME FilesAssumption ==
    Lenex \subseteq Files /\ None \notin Files /\ None \notin Heats
ASSUME CasesAssumption == Allowed \subseteq Cases
ASSUME LimitsAssumption == MaxSwims \in Nat /\ MaxOps \in Nat

VARIABLES
    meet,              \* state.meet: the file its start lists came from
    results,           \* state.meet.results: the heats with official ones
    active_meet_file,  \* state._active_meet_file
    last_meet_file,    \* settings['last_meet_file'], on disk
    files,             \* MEET_FOLDER
    content,           \* what each file holds
    candidate,         \* .update_candidate, an upload not yet taken
    journal,           \* CONSOLE_TIMES_DIR: the lines of each <uid>.jsonl
    console_times,     \* state.console_times: the swim kept for each heat
    heat, swim,        \* the decoder: its heat, the finished race on its lanes
    prev_finished,     \* state._results_prev_race_finished
    finish_timer_gen,  \* state._finish_timer_gen
    last_results,      \* state._last_results_snapshot: its swim
    finish_tasks,      \* the debounce threads
    request,           \* the request under way, or booting
    swum_in,           \* history: the meet loaded when each race finished
    swims, ops         \* counters the two bounds cap

race == <<heat, swim, prev_finished, finish_timer_gen, last_results>>
lists == <<meet, results>>
folder == <<files, content, candidate>>
disk == <<folder, journal, last_meet_file>>
counters == <<swum_in, swims, ops>>
vars == <<lists, active_meet_file, disk, console_times, race, finish_tasks,
          request, counters>>

-----------------------------------------------------------------------------
Swims == 0..MaxSwims   \* 0: no race

\* A journal's name: the meet's own, or the file's when it has none.
NoUid == <<"none", None>>
Uids == ({"name", "file"} \X Files)
UidOf(m, file) ==
    IF m \in Lenex THEN <<"name", m>>
    ELSE IF file # None THEN <<"file", file>> ELSE NoUid
MeetUid == UidOf(meet, active_meet_file)
\* The meet the times go to.
Loaded == IF meet # None THEN meet ELSE active_meet_file

\* An export of a meet: whose, and how Meet Manager has marked each heat.
Marks == {"OFFICIAL", "INOFFICIAL"}
Exports == [of : Files, status : [Heats -> Marks]]
NewMeet(f) == [of |-> f, status |-> [h \in Heats |-> "INOFFICIAL"]]
Unreadable == [of |-> None, status |-> [h \in Heats |-> "INOFFICIAL"]]

\* load_lenex keeps the results of official heats; a CSV has none.
Results(export) ==
    IF export.of \in Lenex THEN {h \in Heats : export.status[h] = "OFFICIAL"}
    ELSE {}

\* build_heats: a heat's official results, and the console's beside them.
Schedule(official, times) ==
    [h \in Heats |-> [official |-> h \in official, console |-> times[h]]]

Lines == [heat : Heats, swim : 1..MaxSwims]
Torn == [heat |-> None, swim |-> 0]   \* no end of line
Bad == [heat |-> None, swim |-> 1]    \* two records on one line

\* load_console_times: the later line of a heat wins, a bad line is skipped.
Replay(lines) ==
    [h \in Heats |->
        LET at == {i \in DOMAIN lines : lines[i].heat = h}
        IN  IF at = {} THEN 0
            ELSE lines[CHOOSE i \in at : \A j \in at : j <= i].swim]

\* An append after a torn line completes that line instead.
AppendLine(lines, l) ==
    IF lines # <<>> /\ lines[Len(lines)] = Torn
    THEN [lines EXCEPT ![Len(lines)] = Bad]
    ELSE Append(lines, l)

NoTimes == [h \in Heats |-> 0]
NoRequest == [op |-> "none", file |-> None, at |-> "idle", read |-> NoTimes]

Saved(uid) == IF uid = NoUid THEN NoTimes ELSE Replay(journal[uid])

Init ==
    /\ meet = None /\ active_meet_file = None /\ last_meet_file = None
    /\ results = {}
    /\ files = Files
    /\ content = [f \in Files |-> NewMeet(f)] /\ candidate = None
    /\ journal = [u \in Uids |-> <<>>]
    /\ console_times = NoTimes
    /\ heat \in Heats /\ swim = 0
    /\ prev_finished = FALSE /\ finish_timer_gen = 0 /\ last_results = 0
    /\ finish_tasks = {}
    /\ request = NoRequest
    /\ swum_in = [s \in 1..MaxSwims |-> None]
    /\ swims = 0 /\ ops = 0

Loading == request.op \in {"load", "reload", "boot"}
Booting == request.op = "boot"
\* Nothing live happens inside a load, except what the run allows.
Quiet ==
    Loading => request.op = "reload" /\ "FinishWhileReloading" \in Allowed

-----------------------------------------------------------------------------
(* The worker and its debounce threads.                                    *)

\* _on_race_state_changed, with the finished race now on the lanes, if any.
RaceState(now) ==
    /\ prev_finished' = (now # 0)
    /\ \/ /\ now # 0 /\ ~prev_finished
          /\ last_results' = now
          /\ finish_timer_gen' = finish_timer_gen + 1
          /\ finish_tasks' = finish_tasks \cup
                {[gen |-> finish_timer_gen + 1, heat |-> heat, swim |-> now,
                  at |-> "asleep"]}
       \/ /\ now = 0 /\ prev_finished
          /\ finish_timer_gen' = finish_timer_gen + 1
          /\ UNCHANGED <<last_results, finish_tasks>>
       \/ /\ (now # 0) = prev_finished
          /\ UNCHANGED <<last_results, finish_timer_gen, finish_tasks>>

\* The race on the lanes finishes.
Finish ==
    /\ Quiet
    /\ swim = 0 /\ swims < MaxSwims
    /\ swims' = swims + 1
    /\ swim' = swims + 1
    /\ swum_in' = [swum_in EXCEPT ![swims + 1] = Loaded]
    /\ RaceState(swims + 1)
    /\ UNCHANGED <<lists, active_meet_file, disk, console_times, heat,
                   request, ops>>

\* Another heat is announced: its lanes are dark.
NextHeat ==
    /\ ~Booting /\ swim # 0
    /\ heat' \in Heats
    /\ swim' = 0
    /\ RaceState(0)
    /\ UNCHANGED <<lists, active_meet_file, disk, console_times, request,
                   counters>>

\* A packet that changes nothing on the lanes: the race state is compared again.
Repeat ==
    /\ ~Booting /\ swim # 0
    /\ prev_finished \/ "RepeatAfterLoad" \in Allowed
    /\ RaceState(swim)
    /\ UNCHANGED <<lists, active_meet_file, disk, console_times, heat, swim,
                   request, counters>>

\* One thread at a time is past its check: a race takes longer than an append.
FinishTimeout(t) ==
    /\ t.at = "asleep" /\ Quiet
    /\ \A u \in finish_tasks : u.at = "asleep"
    /\ finish_tasks' = (finish_tasks \ {t}) \cup
          (IF finish_timer_gen = t.gen THEN {[t EXCEPT !.at = "keep"]} ELSE {})
    /\ UNCHANGED <<lists, active_meet_file, disk, console_times, race,
                   request, counters>>

\* record_console_heat: in memory first ...
KeepTimes(t) ==
    /\ t.at = "keep"
    /\ console_times' = [console_times EXCEPT ![t.heat] = t.swim]
    /\ finish_tasks' = (finish_tasks \ {t}) \cup {[t EXCEPT !.at = "append"]}
    /\ UNCHANGED <<lists, active_meet_file, disk, race, request, counters>>

\* ... then a line in the journal of whatever meet is loaded by now.
AppendTimes(t) ==
    /\ t.at = "append"
    /\ journal' = IF MeetUid = NoUid THEN journal
          ELSE [journal EXCEPT ![MeetUid] =
                  AppendLine(@, [heat |-> t.heat, swim |-> t.swim])]
    /\ finish_tasks' = finish_tasks \ {t}
    /\ UNCHANGED <<lists, active_meet_file, folder, last_meet_file,
                   console_times, race, request, counters>>

-----------------------------------------------------------------------------
(* Requests.                                                               *)

\* No thread is past its check.
Undisturbed == \A t \in finish_tasks : t.at = "asleep"

Begin(op, f) ==
    /\ request = NoRequest /\ ops < MaxOps /\ Undisturbed
    /\ request' = [op |-> op, file |-> f, at |-> "begin", read |-> NoTimes]
    /\ ops' = ops + 1
    /\ UNCHANGED <<lists, active_meet_file, disk, console_times, race,
                   finish_tasks, swum_in, swims>>

BeginLoad == \E f \in files : Begin("load", f)
\* _meet_update_file: the upload is saved beside the meets ...
BeginUpdate(export) ==
    /\ request = NoRequest /\ ops < MaxOps /\ Undisturbed
    /\ active_meet_file # None
    /\ candidate' = export
    /\ request' = [op |-> "reload", file |-> active_meet_file, at |-> "saved",
                   read |-> NoTimes]
    /\ ops' = ops + 1
    /\ UNCHANGED <<lists, active_meet_file, files, content, journal,
                   last_meet_file, console_times, race, finish_tasks,
                   swum_in, swims>>
BeginDelete == \E f \in files : Begin("delete", f)
BeginClear == Begin("clear", None)
BeginNone == active_meet_file # None /\ Begin("none meet", None)

To(at) == request' = [request EXCEPT !.at = at]

\* _candidate_meet_uid: a LENEX file says whose it is; a CSV's name does, and
\* it is not read.
SameMeet ==
    \/ candidate.of = request.file
    \/ candidate.of = None /\ request.file \notin Lenex

\* Mutant: any file will do.
CheckAnyUpdate ==
    /\ request.at = "saved"
    /\ To("checked")
    /\ UNCHANGED <<lists, active_meet_file, disk, console_times, race,
                   finish_tasks, counters>>

\* ... another meet's file, or one that cannot be read, is refused ...
CheckUpdate ==
    /\ request.at = "saved"
    /\ \/ SameMeet /\ To("checked") /\ UNCHANGED candidate
       \/ ~SameMeet /\ request' = NoRequest /\ candidate' = None
    /\ UNCHANGED <<lists, active_meet_file, files, content, journal,
                   last_meet_file, console_times, race, finish_tasks,
                   counters>>

\* ... and takes the place of the meet's file, before it is read again.
ReplaceFile ==
    /\ request.at = "checked"
    /\ content' = [content EXCEPT ![request.file] = candidate]
    /\ candidate' = None
    /\ To("begin")
    /\ UNCHANGED <<lists, active_meet_file, files, journal, last_meet_file,
                   console_times, race, finish_tasks, counters>>

\* Another upload is saved under the same name.
OtherUpload(export) ==
    /\ "UploadsOverlap" \in Allowed
    /\ request.at \in {"saved", "checked"}
    /\ candidate' = export
    /\ UNCHANGED <<lists, active_meet_file, files, content, journal,
                   last_meet_file, console_times, race, finish_tasks,
                   request, counters>>

\* Mutant: the finish timers are left running.
ResetRaceNoBump ==
    /\ request.op \in {"load", "boot"} /\ request.at = "cleared"
    /\ last_results' = 0 /\ prev_finished' = FALSE
    /\ To("parse")
    /\ UNCHANGED <<lists, active_meet_file, disk, console_times, heat, swim,
                   finish_timer_gen, finish_tasks, counters>>

\* _load_meet_file: clear the meet, then forget the race.
ClearMeet ==
    /\ request.op \in {"load", "boot"} /\ request.at = "begin"
    /\ meet' = None /\ results' = {} /\ console_times' = NoTimes
    /\ To("cleared")
    /\ UNCHANGED <<active_meet_file, disk, race, finish_tasks, counters>>

ResetRace ==
    /\ request.op \in {"load", "boot"} /\ request.at = "cleared"
    /\ last_results' = 0 /\ prev_finished' = FALSE
    /\ finish_timer_gen' = finish_timer_gen + 1
    /\ To("parse")
    /\ UNCHANGED <<lists, active_meet_file, disk, console_times, heat, swim,
                   finish_tasks, counters>>

\* A file that cannot be read: a load is left with no meet, a reload as it was.
ParseFails ==
    /\ \/ request.op \in {"load", "boot"} /\ request.at = "parse"
          /\ meet' = None /\ results' = {} /\ console_times' = NoTimes
       \/ request.op = "reload" /\ request.at = "begin"
          /\ content[request.file].of = None
          /\ UNCHANGED <<lists, console_times>>
    /\ request' = NoRequest
    /\ UNCHANGED <<active_meet_file, disk, race, finish_tasks, counters>>

\* set_lenex, load_event_info: publish the meet ...
SwapMeet ==
    /\ \/ request.op \in {"load", "boot"} /\ request.at = "parse"
       \/ request.op = "reload" /\ request.at = "begin"
    /\ content[request.file].of # None
    /\ meet' = content[request.file].of
    /\ results' = Results(content[request.file])
    /\ To("swapped")
    /\ UNCHANGED <<active_meet_file, disk, console_times, race, finish_tasks,
                   counters>>

\* ... read its journal ...
ReadTimes ==
    /\ Loading /\ request.at = "swapped"
    /\ request' = [request EXCEPT !.at = "read", !.read = Saved(MeetUid)]
    /\ UNCHANGED <<lists, active_meet_file, disk, console_times, race,
                   finish_tasks, counters>>

\* ... and publish what it says.
AssignTimes ==
    /\ Loading /\ request.at = "read"
    /\ console_times' = request.read
    /\ request' = IF request.op = "reload" THEN NoRequest
                  ELSE [request EXCEPT !.at = "name"]
    /\ UNCHANGED <<lists, active_meet_file, disk, race, finish_tasks,
                   counters>>

\* Only now is the loaded file the active one.
NameMeet ==
    /\ request.op \in {"load", "boot"} /\ request.at = "name"
    /\ active_meet_file' = request.file /\ last_meet_file' = request.file
    /\ request' = NoRequest
    /\ UNCHANGED <<lists, folder, journal, console_times, race, finish_tasks,
                   counters>>

\* meet_delete: the file goes; the active meet's times and start lists with it.
DeleteFile ==
    /\ request.op = "delete" /\ request.at = "begin"
    /\ files' = files \ {request.file}
    /\ \/ /\ request.file # active_meet_file
          /\ request' = NoRequest
          /\ UNCHANGED <<journal, console_times>>
       \/ /\ request.file = active_meet_file
          /\ journal' = IF MeetUid = NoUid THEN journal
                        ELSE [journal EXCEPT ![MeetUid] = <<>>]
          /\ console_times' = NoTimes
          /\ To("unload")
    /\ UNCHANGED <<lists, active_meet_file, content, candidate, last_meet_file, race,
                   finish_tasks, counters>>

\* meet_clear: every file and every journal.
ClearFiles ==
    /\ request.op = "clear" /\ request.at = "begin"
    /\ files' = {}
    /\ journal' = [u \in Uids |-> <<>>]
    /\ To("unload")
    /\ UNCHANGED <<lists, active_meet_file, content, candidate, last_meet_file, console_times,
                   race, finish_tasks, counters>>

Unload ==
    /\ \/ request.at = "unload"
       \/ request.op = "none meet" /\ request.at = "begin"
    /\ meet' = None /\ results' = {} /\ console_times' = NoTimes
    /\ active_meet_file' = None /\ last_meet_file' = None
    /\ request' = NoRequest
    /\ UNCHANGED <<folder, journal, race, finish_tasks, counters>>

-----------------------------------------------------------------------------
(* Power cuts.                                                             *)

\* Memory is lost, threads too; a line being appended may be torn.
PowerCut ==
    /\ ops < MaxOps
    /\ \E torn \in BOOLEAN :
        /\ torn => /\ "TornLine" \in Allowed
                   /\ MeetUid # NoUid
                   /\ \E t \in finish_tasks : t.at = "append"
        /\ journal' = IF torn
              THEN [journal EXCEPT ![MeetUid] = AppendLine(@, Torn)]
              ELSE journal
    \* load_settings reads the newest LENEX file, or else the newest CSV ...
    /\ \E f \in files \cup {None} :
        /\ files \cap Lenex # {} => f \in Lenex
        /\ files # {} => f # None
        /\ meet' = IF f = None THEN None ELSE content[f].of
        /\ results' = IF f = None THEN {} ELSE Results(content[f])
        /\ console_times' = IF UidOf(meet', None) = NoUid THEN NoTimes
                            ELSE Replay(journal'[UidOf(meet', None)])
    \* ... and _reload_last_meet then loads the last one, if it is there.
    /\ request' = IF last_meet_file \in files
          THEN [op |-> "boot", file |-> last_meet_file, at |-> "begin",
                read |-> NoTimes]
          ELSE NoRequest
    /\ active_meet_file' = None
    /\ swim' = 0 /\ prev_finished' = FALSE
    /\ finish_timer_gen' = 0 /\ last_results' = 0 /\ finish_tasks' = {}
    /\ ops' = ops + 1
    /\ UNCHANGED <<folder, last_meet_file, heat, swum_in, swims>>

Worker == Finish \/ NextHeat \/ Repeat
Debounce ==
    \E t \in finish_tasks : FinishTimeout(t) \/ KeepTimes(t) \/ AppendTimes(t)
Request ==
    \/ BeginLoad \/ BeginDelete \/ BeginClear \/ BeginNone
    \/ \E export \in Exports \cup {Unreadable} :
          BeginUpdate(export) \/ OtherUpload(export)
    \/ CheckUpdate \/ ReplaceFile
    \/ ClearMeet \/ ResetRace \/ ParseFails \/ SwapMeet \/ ReadTimes
    \/ AssignTimes \/ NameMeet \/ DeleteFile \/ ClearFiles \/ Unload

Next == Worker \/ Debounce \/ Request \/ PowerCut

Spec == Init /\ [][Next]_vars

-----------------------------------------------------------------------------
(* Properties.                                                             *)

\* Every variable keeps its type.
TypeOK ==
    /\ meet \in Files \cup {None}
    /\ active_meet_file \in Files \cup {None}
    /\ last_meet_file \in Files \cup {None}
    /\ files \subseteq Files
    /\ results \subseteq Heats
    /\ content \in [Files -> Exports \cup {Unreadable}]
    /\ candidate \in Exports \cup {Unreadable, None}
    /\ \A u \in Uids : \A i \in DOMAIN journal[u] :
          journal[u][i] \in Lines \cup {Torn, Bad}
    /\ console_times \in [Heats -> Swims]
    /\ heat \in Heats /\ swim \in Swims /\ last_results \in Swims
    /\ prev_finished \in BOOLEAN /\ finish_timer_gen \in Nat
    /\ \A t \in finish_tasks :
          /\ t.gen \in Nat /\ t.heat \in Heats /\ t.swim \in 1..MaxSwims
          /\ t.at \in {"asleep", "keep", "append"}
    /\ request.op \in {"none", "load", "reload", "boot", "delete", "clear",
                       "none meet"}
    /\ request.read \in [Heats -> Swims]

AtRest ==
    /\ request = NoRequest
    /\ \A t \in finish_tasks : t.at = "asleep"

\* A race swum in a meet has its times in no other meet's journal
\* (record_console_heat appends under whatever meet is loaded by then), and the
\* results replayed to a page that joins are not another meet's
\* (_load_meet_file drops the snapshot and cancels the finish timers).
TimesOfTheirMeet ==
    /\ \A u \in Uids : \A i \in DOMAIN journal[u] :
          journal[u][i] \in Lines =>
              swum_in[journal[u][i].swim] \in {None, u[2]}
    /\ request = NoRequest /\ active_meet_file # None /\ last_results # 0 =>
          swum_in[last_results] \in {None, active_meet_file}

\* The Schedule shows the meet it says, and what a restart would show: the
\* official results in the meet's file and the times in its journal
\* (docs/meet-manager-results.md, "Remembering console times").
ScheduleIsSaved ==
    AtRest /\ active_meet_file # None /\ meet # None =>
        /\ meet = active_meet_file
        /\ Schedule(results, console_times) =
              Schedule(Results(content[active_meet_file]), Saved(MeetUid))
=============================================================================
