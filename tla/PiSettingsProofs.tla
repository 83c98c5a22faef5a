--------------------------- MODULE PiSettingsProofs ---------------------------
(***************************************************************************)
(* Proofs about MeetLoad and PiSettings, for any meets, heats, races,      *)
(* requests and power cuts: the times, the schedule, the settings, the     *)
(* logins and the TVs, with none of the cases the code leaves open.        *)
(***************************************************************************)
EXTENDS PiSettings, FiniteSetTheorems, WellFoundedInduction, TLAPS

\* None of MeetLoad's Cases.
Ordinary == Allowed = {}

-----------------------------------------------------------------------------
(* Journals.                                                               *)

\* A set of line numbers has a last one.
LEMMA GreatestExists ==
    ASSUME NEW n \in Nat, NEW X \in SUBSET (1..n), X # {}
    PROVE  \E i \in X : \A j \in X : j <= i
<1> DEFINE T == {Y \in SUBSET (1..n) : Y # {} /\ ~ \E i \in Y : \A j \in Y : j <= i}
           R == StrictSubsetOrdering(1..n)
<1>1. IsWellFoundedOn(R, SUBSET (1..n))
  <2>1. IsFiniteSet(1..n)
    BY FS_Interval
  <2> QED
    BY <2>1, FS_StrictSubsetOrderingWellFounded, FS_FiniteSubsetsOfFinite
<1>2. ASSUME T # {} PROVE FALSE
  <2>1. PICK Y \in T : \A Z \in T : ~ (<<Z, Y>> \in R)
    <3> HIDE DEF R
    <3>1. T \subseteq SUBSET (1..n)
      OBVIOUS
    <3> HIDE DEF T
    <3> QED
      BY <1>1, <1>2, <3>1, WFMin
  <2>2. PICK x \in Y : TRUE
    BY <2>1
  <2>3. PICK z \in Y : ~ (z <= x)
    BY <2>1
  <2>4. Y \ {x} \notin T
    <3>1. <<Y \ {x}, Y>> \in R
      BY <2>1, <2>2 DEF StrictSubsetOrdering
    <3> QED
      BY <2>1, <3>1
  <2>5. PICK m \in Y \ {x} : \A j \in Y \ {x} : j <= m
    <3>1. Y \ {x} \in SUBSET (1..n) /\ Y \ {x} # {}
      BY <2>1, <2>2, <2>3
    <3> QED
      BY <2>4, <3>1
  <2>6. \A j \in Y : j <= m
    <3>1. Y \subseteq Nat
      BY <2>1
    <3>2. x <= m
      BY <2>2, <2>3, <2>5, <3>1
    <3> QED
      BY <2>5, <3>2
  <2> QED
    BY <2>1, <2>5, <2>6
<1> QED
  BY <1>2

\* The last line of a heat in a journal, or none.
Latest(lines, h, s) ==
    \/ s = 0 /\ \A i \in DOMAIN lines : lines[i].heat # h
    \/ \E i \in DOMAIN lines :
          /\ lines[i].heat = h /\ lines[i].swim = s
          /\ \A j \in DOMAIN lines : lines[j].heat = h => j <= i

\* load_console_times gives the last line of every heat.
LEMMA LatestIsReplayed ==
    ASSUME NEW S, NEW lines \in Seq(S), NEW h \in Heats, NEW s
    PROVE  Latest(lines, h, s) <=> s = Replay(lines)[h]
<1> DEFINE at == {i \in DOMAIN lines : lines[i].heat = h}
<1>1. at \in SUBSET (1..Len(lines)) /\ Len(lines) \in Nat
  OBVIOUS
<1>2. Replay(lines)[h] = IF at = {} THEN 0
                         ELSE lines[CHOOSE i \in at : \A j \in at : j <= i].swim
  BY DEF Replay
<1>3. CASE at = {}
  BY <1>2, <1>3 DEF Latest
<1>4. CASE at # {}
  <2> DEFINE last == CHOOSE i \in at : \A j \in at : j <= i
  <2>1. \E i \in at : \A j \in at : j <= i
    <3> HIDE DEF at
    <3> QED
      BY <1>1, <1>4, GreatestExists
  <2>2. last \in at /\ \A j \in at : j <= last
    BY <2>1
  <2>3. \A i \in at : (\A j \in at : j <= i) => i = last
    <3> HIDE DEF at, last
    <3> QED
      BY <1>1, <2>2
  <2>4. Replay(lines)[h] = lines[last].swim
    BY <1>2, <1>4
  <2> HIDE DEF last
  <2> QED
    BY <1>4, <2>2, <2>3, <2>4 DEF Latest
<1> QED
  BY <1>3, <1>4

LEMMA ReplayTyped ==
    ASSUME NEW lines \in Seq(Lines) PROVE Replay(lines) \in [Heats -> Swims]
<1> SUFFICES ASSUME NEW h \in Heats PROVE Replay(lines)[h] \in Swims
  BY DEF Replay
<1>1. Latest(lines, h, Replay(lines)[h])
  BY LatestIsReplayed
<1>2. \A i \in DOMAIN lines : lines[i] \in Lines
  OBVIOUS
<1>3. \A l \in Lines : l.swim \in 1..MaxSwims
  BY DEF Lines
<1>4. 0 \in Swims /\ 1..MaxSwims \subseteq Swims
  BY LimitsAssumption DEF Swims
<1> QED
  BY <1>1, <1>2, <1>3, <1>4 DEF Latest

\* Without torn lines an append adds one.
LEMMA Appended ==
    ASSUME NEW lines \in Seq(Lines), NEW l \in Lines
    PROVE  AppendLine(lines, l) = Append(lines, l)
<1>1. Torn \notin Lines
  <2>1. \A x \in Lines : x.heat \in Heats
    BY DEF Lines
  <2>2. Torn.heat = None
    BY DEF Torn
  <2> QED
    BY <2>1, <2>2, FilesAssumption
<1>2. lines # <<>> => lines[Len(lines)] \in Lines
  OBVIOUS
<1> QED
  BY <1>1, <1>2 DEF AppendLine

LEMMA LatestAppended ==
    ASSUME NEW lines \in Seq(Lines), NEW l \in Lines, NEW h \in Heats, NEW s
    PROVE  Latest(Append(lines, l), h, s) <=>
               IF l.heat = h THEN s = l.swim ELSE Latest(lines, h, s)
<1> DEFINE new == Append(lines, l)
           n == Len(lines)
<1>1. n \in Nat /\ DOMAIN lines = 1..n /\ DOMAIN new = 1..(n + 1) /\ new[n + 1] = l
  OBVIOUS
<1>2. \A i \in 1..n : new[i] = lines[i]
  OBVIOUS
<1> HIDE DEF new, n
<1>3. CASE l.heat = h
  BY <1>1, <1>2, <1>3 DEF Latest, new
<1>4. CASE l.heat # h
  <2>1. \A i \in DOMAIN new : new[i].heat = h => i \in 1..n
    BY <1>1, <1>4
  <2>2. \A i \in DOMAIN lines : i \in DOMAIN new /\ new[i] = lines[i]
    BY <1>1, <1>2
  <2>3. \A i \in DOMAIN new : new[i].heat = h => i \in DOMAIN lines /\ new[i] = lines[i]
    BY <1>1, <2>1, <2>2
  <2>4. Latest(new, h, s) <=> Latest(lines, h, s)
    BY <2>2, <2>3 DEF Latest
  <2> QED
    BY <1>4, <2>4 DEF new
<1> QED
  BY <1>3, <1>4

-----------------------------------------------------------------------------
(* The inductive invariant of the meets.                                   *)

Ops == {"none", "load", "reload", "boot", "delete", "clear", "none meet"}
Stages == {"idle", "saved", "checked", "begin", "cleared", "parse", "swapped",
           "read", "name", "unload"}
Tasks == [gen : Nat, heat : Heats, swim : 1..MaxSwims,
          at : {"asleep", "keep", "append"}]
Times == [Heats -> Swims]
Requests == [op : Ops, file : Files \cup {None}, at : Stages, read : Times]
Uploads == Exports \cup {Unreadable}

FolderTypes ==
    /\ files \subseteq Files
    /\ content \in [Files -> Uploads] /\ candidate \in Uploads \cup {None}
    /\ journal \in [Uids -> Seq(Lines)]

RaceTypes ==
    /\ heat \in Heats /\ prev_finished \in BOOLEAN /\ finish_timer_gen \in Nat
    /\ swims \in 0..MaxSwims /\ swim \in 0..swims /\ last_results \in 0..swims
    /\ finish_tasks \subseteq Tasks
    /\ swum_in \in [1..MaxSwims -> Files \cup {None}]

ListTypes ==
    /\ {meet, active_meet_file} \subseteq Files \cup {None}
    /\ console_times \in Times /\ request \in Requests

MeetTypes == FolderTypes /\ RaceTypes /\ ListTypes

\* Where a load, at boot too, or an update has got to.
LoadAt(stages) == request.op \in {"load", "boot"} /\ request.at \in stages
ReloadAt(stages) == request.op = "reload" /\ request.at \in stages

\* What each request has found, and nothing has changed since.
RequestInv ==
    /\ request.op = "none" => request = NoRequest
    /\ request.op \in {"load", "boot"} =>
          /\ request.file \in Files
          /\ LoadAt({"begin", "cleared", "parse", "swapped", "read", "name"})
    /\ request.op = "reload" =>
          /\ request.file = active_meet_file /\ request.file \in Files
          /\ ReloadAt({"saved", "checked", "begin", "swapped", "read"})
    /\ ReloadAt({"saved", "checked"}) => candidate \in Uploads
    /\ ReloadAt({"checked"}) => SameMeet
    /\ request.op \in {"delete", "clear", "none meet"} =>
          request.at \in {"begin", "unload"}
    /\ Booting => active_meet_file = None

\* A file holds its own meet; a CSV may hold none.
ContentInv ==
    \A f \in Files : content[f].of = f \/ (content[f].of = None /\ f \notin Lenex)

\* The meet is the active file's, but within a load.
LoadedInv ==
    /\ LoadAt({"cleared", "parse"}) => meet = None
    /\ LoadAt({"swapped", "read", "name"}) => meet = request.file
    /\ ~LoadAt(Stages \ {"begin"}) /\ active_meet_file # None =>
          meet \in {None, active_meet_file}

\* A finish that is, or will be, confirmed.
Live(t) == t.at # "asleep" \/ t.gen = finish_timer_gen
\* The steps of a load at which the race is forgotten.
After == {"parse", "swapped", "read", "name"}
\* The meet it was swum in, or none.
Swum(s) == swum_in[s] \in {None, Loaded}

\* Nothing of another meet is still to be confirmed.
TasksInv ==
    /\ \A t \in finish_tasks :
          t.swim <= swims /\ (t.at = "asleep" => t.gen <= finish_timer_gen)
    /\ Loading => Undisturbed
    /\ LoadAt(After) => \A t \in finish_tasks : ~Live(t)
    /\ ~LoadAt({"cleared"}) =>
          \A t \in finish_tasks : Live(t) => Loaded = None \/ Swum(t.swim)

JournalInv ==
    \A u \in Uids : \A i \in DOMAIN journal[u] :
        /\ journal[u][i].swim <= swims
        /\ swum_in[journal[u][i].swim] \in {None, u[2]}

ResultsInv ==
    /\ LoadAt(After) => last_results = 0
    /\ active_meet_file # None /\ last_results # 0 =>
          swum_in[last_results] \in {None, active_meet_file}

MeetInv ==
    /\ MeetTypes /\ RequestInv /\ ContentInv /\ LoadedInv
    /\ TasksInv /\ JournalInv /\ ResultsInv

\* What a step of PiSettings is to the meets.
MeetStep == Next \/ UNCHANGED ofMeets

USE DEF race, lists, folder, disk, counters, vars, ofMeets

-----------------------------------------------------------------------------
(* Steps, by what they change.                                             *)

\* The steps of the requests, but for the one that forgets the race.
RequestStep ==
    \/ BeginLoad \/ BeginDelete \/ BeginClear \/ BeginNone
    \/ \E export \in Uploads : BeginUpdate(export)
    \/ CheckUpdate \/ ReplaceFile \/ ClearMeet \/ ParseFails \/ SwapMeet
    \/ ReadTimes \/ AssignTimes \/ NameMeet \/ DeleteFile \/ ClearFiles \/ Unload

LEMMA Steps ==
    Ordinary /\ MeetStep =>
        \/ Finish \/ NextHeat \/ Repeat
        \/ \E t \in finish_tasks : FinishTimeout(t) \/ KeepTimes(t) \/ AppendTimes(t)
        \/ RequestStep \/ ResetRace \/ PowerCut \/ UNCHANGED ofMeets
<1>1. Ordinary => ~ \E export \in Uploads : OtherUpload(export)
  BY DEF Ordinary, OtherUpload
<1>2. Ordinary /\ Request => RequestStep \/ ResetRace
  BY <1>1 DEF Request, RequestStep, Uploads
<1> QED
  BY <1>2 DEF MeetStep, Next, Worker, Debounce

LEMMA RequestsLeaveRace ==
    RequestStep => UNCHANGED <<race, finish_tasks, swum_in, swims>>
<1>1. CASE BeginLoad \/ BeginDelete \/ BeginClear \/ BeginNone
  BY <1>1 DEF BeginLoad, BeginDelete, BeginClear, BeginNone, Begin
<1>2. CASE \/ \E export \in Uploads : BeginUpdate(export)
           \/ CheckUpdate \/ ReplaceFile \/ ClearMeet \/ ParseFails
  BY <1>2 DEF BeginUpdate, CheckUpdate, ReplaceFile, ClearMeet, ParseFails
<1>3. CASE SwapMeet \/ ReadTimes \/ AssignTimes \/ NameMeet
  BY <1>3 DEF SwapMeet, ReadTimes, AssignTimes, NameMeet
<1>4. CASE DeleteFile \/ ClearFiles \/ Unload
  BY <1>4 DEF DeleteFile, ClearFiles, Unload
<1> QED
  BY <1>1, <1>2, <1>3, <1>4 DEF RequestStep

LEMMA RaceLeavesLists ==
    ASSUME \/ Finish \/ NextHeat \/ Repeat
           \/ \E t \in finish_tasks : FinishTimeout(t)
    PROVE  UNCHANGED <<lists, active_meet_file, folder, journal, console_times, request>>
BY DEF Finish, NextHeat, Repeat, FinishTimeout

\* The steps that change the files or the journals.
LEMMA FolderSteps ==
    Ordinary /\ MeetStep =>
        \/ UNCHANGED <<folder, journal>>
        \/ \E export \in Uploads : BeginUpdate(export)
        \/ CheckUpdate \/ ReplaceFile \/ DeleteFile \/ ClearFiles
        \/ \E t \in finish_tasks : AppendTimes(t)
<1> SUFFICES ASSUME Ordinary, MeetStep
             PROVE  (\/ UNCHANGED <<folder, journal>>
                     \/ \E export \in Uploads : BeginUpdate(export)
                     \/ CheckUpdate \/ ReplaceFile \/ DeleteFile \/ ClearFiles
                     \/ \E t \in finish_tasks : AppendTimes(t))
  OBVIOUS
<1>1. CASE BeginLoad \/ BeginDelete \/ BeginClear \/ BeginNone
  BY <1>1 DEF BeginLoad, BeginDelete, BeginClear, BeginNone, Begin
<1>2. CASE ClearMeet \/ ParseFails \/ SwapMeet \/ ResetRace
  BY <1>2 DEF ClearMeet, ParseFails, SwapMeet, ResetRace
<1>3. CASE ReadTimes \/ AssignTimes \/ NameMeet \/ Unload
  BY <1>3 DEF ReadTimes, AssignTimes, NameMeet, Unload
<1>4. CASE \E t \in finish_tasks : KeepTimes(t)
  BY <1>4 DEF KeepTimes
<1>5. CASE PowerCut
  BY <1>5 DEF PowerCut, Ordinary
<1> QED
  BY <1>1, <1>2, <1>3, <1>4, <1>5, Steps, RaceLeavesLists DEF RequestStep

-----------------------------------------------------------------------------
(* Types.                                                                  *)

LEMMA TaskTyped ==
    ASSUME NEW t \in Tasks
    PROVE  /\ t.gen \in Nat /\ t.heat \in Heats /\ t.swim \in 1..MaxSwims
           /\ t.at \in {"asleep", "keep", "append"}
           /\ [t EXCEPT !.at = "keep"] \in Tasks /\ [t EXCEPT !.at = "append"] \in Tasks
           /\ [heat |-> t.heat, swim |-> t.swim] \in Lines
BY DEF Tasks, Lines

LEMMA UploadTyped ==
    /\ \A e \in Uploads : e.of \in Files \cup {None}
    /\ Unreadable.of = None
BY DEF Uploads, Exports, Unreadable

LEMMA UidTyped ==
    ASSUME NEW m \in Files \cup {None}, NEW f \in Files \cup {None}
    PROVE  /\ UidOf(m, f) \in Uids \cup {NoUid} /\ NoUid \notin Uids
           /\ UidOf(m, f) # NoUid => UidOf(m, f)[2] = (IF m \in Lenex THEN m ELSE f)
           /\ UidOf(m, f) = NoUid <=> m \notin Lenex /\ f = None
BY FilesAssumption DEF UidOf, Uids, NoUid

LEMMA TimesTyped == NoTimes \in Times /\ NoRequest \in Requests
<1>1. NoTimes \in Times
  BY LimitsAssumption DEF NoTimes, Times, Swims
<1> QED
  BY <1>1 DEF NoRequest, Requests, Ops, Stages

LEMMA SavedTyped ==
    ASSUME FolderTypes, NEW u \in Uids \cup {NoUid} PROVE Saved(u) \in Times
<1>1. ASSUME u # NoUid PROVE Replay(journal[u]) \in Times
  <2>1. journal[u] \in Seq(Lines)
    BY <1>1 DEF FolderTypes
  <2> QED
    BY <2>1, ReplayTyped DEF Times
<1> QED
  BY <1>1, TimesTyped DEF Saved

LEMMA Initially == Init => MeetInv
<1> SUFFICES ASSUME Init PROVE MeetInv
  OBVIOUS
<1> USE DEF Init
<1>1. FolderTypes
  <2>1. \A f \in Files : NewMeet(f) \in Uploads
    BY DEF NewMeet, Uploads, Exports, Marks
  <2>2. journal \in [Uids -> Seq(Lines)]
    BY DEF Lines
  <2> QED
    BY <2>1, <2>2 DEF FolderTypes
<1>2. RaceTypes
  <2>1. /\ swims = 0 /\ swim = 0 /\ last_results = 0 /\ finish_timer_gen = 0
        /\ heat \in Heats /\ prev_finished \in BOOLEAN /\ finish_tasks = {}
        /\ swum_in = [s \in 1..MaxSwims |-> None]
    OBVIOUS
  <2> QED
    BY <2>1, LimitsAssumption DEF RaceTypes
<1>3. ListTypes
  BY TimesTyped DEF ListTypes
<1>4. RequestInv /\ LoadedInv
  BY DEF RequestInv, LoadedInv, LoadAt, ReloadAt, NoRequest, Booting
<1>5. ContentInv
  BY DEF ContentInv, NewMeet
<1>6. TasksInv /\ JournalInv /\ ResultsInv
  BY DEF TasksInv, JournalInv, ResultsInv, Loading, LoadAt, NoRequest
<1> QED
  BY <1>1, <1>2, <1>3, <1>4, <1>5, <1>6 DEF MeetInv, MeetTypes

\* Whose request is at a step that only one kind of request has.
LEMMA Underway ==
    ASSUME ListTypes, RequestInv
    PROVE  /\ request.at = "saved" => ReloadAt({"saved"})
           /\ request.at = "checked" => ReloadAt({"checked"})
           /\ request.at = "unload" => request.op \in {"delete", "clear"} \/ request.op = "none meet"
           /\ request.at # "idle" => request.op # "none"
           /\ ReloadAt({"checked"}) => ReloadAt({"saved", "checked"})
<1>1. request.op \in Ops
  BY DEF ListTypes, Requests
<1>2. request.op = "none" => request.at = "idle"
  BY DEF RequestInv, NoRequest
<1> QED
  BY <1>1, <1>2 DEF RequestInv, LoadAt, ReloadAt, NoRequest, Ops

LEMMA FolderKept ==
    Ordinary /\ MeetTypes /\ RequestInv /\ MeetStep => FolderTypes'
<1> SUFFICES ASSUME Ordinary, MeetTypes, RequestInv, MeetStep PROVE FolderTypes'
  OBVIOUS
<1> USE DEF MeetTypes, FolderTypes, ListTypes
<1>1. CASE UNCHANGED <<folder, journal>>
  BY <1>1
<1>2. CASE \E export \in Uploads : BeginUpdate(export)
  BY <1>2 DEF BeginUpdate
<1>3. CASE CheckUpdate
  BY <1>3 DEF CheckUpdate
<1>4. CASE ReplaceFile
  <2>1. candidate \in Uploads
    BY <1>4, Underway DEF ReplaceFile, RequestInv
  <2> QED
    BY <1>4, <2>1 DEF ReplaceFile
<1>5. CASE DeleteFile \/ ClearFiles
  <2>1. UNCHANGED <<content, candidate>> /\ files' \subseteq files
    BY <1>5 DEF DeleteFile, ClearFiles
  <2>2. \/ journal' = journal \/ journal' = [journal EXCEPT ![MeetUid] = <<>>]
        \/ journal' = [u \in Uids |-> <<>>]
    BY <1>5 DEF DeleteFile, ClearFiles
  <2>3. <<>> \in Seq(Lines)
    OBVIOUS
  <2>4. journal' \in [Uids -> Seq(Lines)]
    BY <2>2, <2>3
  <2> QED
    BY <2>1, <2>4
<1>6. CASE \E t \in finish_tasks : AppendTimes(t)
  <2>1. MeetUid \in Uids \cup {NoUid}
    BY UidTyped DEF MeetUid
  <2>2. PICK t \in finish_tasks : AppendTimes(t)
    BY <1>6
  <2>3. [heat |-> t.heat, swim |-> t.swim] \in Lines
    BY TaskTyped DEF RaceTypes
  <2>4. \A u \in Uids : AppendLine(journal[u], [heat |-> t.heat, swim |-> t.swim]) \in Seq(Lines)
    BY <2>3, Appended
  <2> QED
    BY <2>1, <2>2, <2>4 DEF AppendTimes
<1> QED
  BY <1>1, <1>2, <1>3, <1>4, <1>5, <1>6, FolderSteps

\* What a comparison of the race state does.
LEMMA RaceStateDoes ==
    ASSUME NEW now \in Nat, RaceState(now), RaceTypes
    PROVE  /\ prev_finished' \in BOOLEAN
           /\ finish_timer_gen' \in Nat /\ finish_timer_gen' >= finish_timer_gen
           /\ \/ last_results' = now /\ now # 0 /\ ~prev_finished
              \/ last_results' = last_results
           /\ \/ finish_tasks' = finish_tasks
              \/ /\ now # 0 /\ ~prev_finished /\ finish_timer_gen' = finish_timer_gen + 1
                 /\ finish_tasks' = finish_tasks \cup
                       {[gen |-> finish_timer_gen + 1, heat |-> heat, swim |-> now,
                         at |-> "asleep"]}
BY DEF RaceState, RaceTypes

LEMMA NewTask ==
    ASSUME RaceTypes, NEW now \in 1..MaxSwims
    PROVE  [gen |-> finish_timer_gen + 1, heat |-> heat, swim |-> now,
            at |-> "asleep"] \in Tasks
BY DEF RaceTypes, Tasks

LEMMA RaceKept ==
    Ordinary /\ MeetTypes /\ MeetStep => RaceTypes'
<1> SUFFICES ASSUME Ordinary, MeetTypes, MeetStep PROVE RaceTypes'
  OBVIOUS
<1> USE LimitsAssumption DEF MeetTypes, RaceTypes
<1>1. CASE UNCHANGED <<race, finish_tasks, swum_in, swims>>
  BY <1>1
<1>2. CASE Finish
  <2>1. /\ swims \in 0..(MaxSwims - 1) /\ swims' = swims + 1 /\ swim' = swims + 1
        /\ swum_in' = [swum_in EXCEPT ![swims + 1] = Loaded] /\ heat' = heat
        /\ RaceState(swims + 1)
    BY <1>2 DEF Finish
  <2>2. swims + 1 \in 1..MaxSwims
    BY <2>1
  <2>3. Loaded \in Files \cup {None}
    BY DEF Loaded, ListTypes
  <2>4. finish_tasks' \subseteq Tasks
    BY <2>1, <2>2, RaceStateDoes, NewTask
  <2>5. last_results' \in 0..swims'
    BY <2>1, <2>2, RaceStateDoes
  <2>6. prev_finished' \in BOOLEAN /\ finish_timer_gen' \in Nat
    BY <2>1, <2>2, RaceStateDoes
  <2> QED
    BY <2>1, <2>2, <2>3, <2>4, <2>5, <2>6
<1>3. CASE NextHeat
  <2>1. heat' \in Heats /\ swim' = 0 /\ UNCHANGED <<swum_in, swims>> /\ RaceState(0)
    BY <1>3 DEF NextHeat
  <2>2. /\ prev_finished' \in BOOLEAN /\ finish_timer_gen' \in Nat
        /\ last_results' = last_results /\ finish_tasks' = finish_tasks
    BY <2>1, RaceStateDoes
  <2> QED
    BY <2>1, <2>2
<1>4. CASE Repeat
  <2>1. UNCHANGED <<heat, swim, swum_in, swims>> /\ RaceState(swim) /\ prev_finished
    BY <1>4 DEF Repeat, Ordinary
  <2>2. /\ prev_finished' \in BOOLEAN /\ finish_timer_gen' \in Nat
        /\ last_results' = last_results /\ finish_tasks' = finish_tasks
    BY <2>1, RaceStateDoes
  <2> QED
    BY <2>1, <2>2
<1>5. CASE \E t \in finish_tasks : FinishTimeout(t) \/ KeepTimes(t) \/ AppendTimes(t)
  <2>1. finish_tasks' \subseteq Tasks
    BY <1>5, TaskTyped DEF FinishTimeout, KeepTimes, AppendTimes
  <2>2. UNCHANGED <<race, swum_in, swims>>
    BY <1>5 DEF FinishTimeout, KeepTimes, AppendTimes
  <2> QED
    BY <2>1, <2>2
<1>6. CASE ResetRace
  <2>1. /\ last_results' = 0 /\ prev_finished' \in BOOLEAN
        /\ finish_timer_gen' = finish_timer_gen + 1
        /\ UNCHANGED <<heat, swim, finish_tasks, swum_in, swims>>
    BY <1>6 DEF ResetRace
  <2> QED
    BY <2>1
<1>7. CASE PowerCut
  <2>1. /\ swim' = 0 /\ last_results' = 0 /\ finish_timer_gen' = 0
        /\ prev_finished' \in BOOLEAN /\ finish_tasks' = {}
        /\ UNCHANGED <<heat, swum_in, swims>>
    BY <1>7 DEF PowerCut
  <2> QED
    BY <2>1
<1> QED
  BY <1>1, <1>2, <1>3, <1>4, <1>5, <1>6, <1>7, Steps, RequestsLeaveRace

-----------------------------------------------------------------------------
(* The lists and the request.                                              *)

LEMMA ToDoes ==
    ASSUME request \in Requests, NEW at \in Stages, To(at)
    PROVE  /\ request' \in Requests
           /\ request'.op = request.op /\ request'.file = request.file
           /\ request'.at = at
BY DEF To, Requests

LEMMA BeginDoes ==
    ASSUME NEW op \in Ops, NEW f \in Files \cup {None}, NEW at \in Stages,
           request' = [op |-> op, file |-> f, at |-> at, read |-> NoTimes]
    PROVE  /\ request' \in Requests
           /\ request'.op = op /\ request'.file = f /\ request'.at = at
BY TimesTyped DEF Requests

\* The requests that begin with the meet's files as they are.
Begins4 ==
    \/ \E f \in Files : Begin("load", f) \/ Begin("delete", f)
    \/ Begin("clear", None) \/ Begin("none meet", None)

LEMMA BeginTyped ==
    ASSUME FolderTypes, BeginLoad \/ BeginDelete \/ BeginClear \/ BeginNone
    PROVE  /\ request = NoRequest
           /\ request' \in Requests /\ request'.at = "begin"
           /\ \/ request'.op = "load" /\ request'.file \in Files
              \/ request'.op \in {"delete", "clear", "none meet"}
           /\ UNCHANGED <<lists, active_meet_file, folder, journal, console_times>>
<1>1. Begins4
  BY DEF Begins4, FolderTypes, BeginLoad, BeginDelete, BeginClear, BeginNone
<1>2. PICK op \in {"load", "delete", "clear", "none meet"}, f \in Files \cup {None} :
          Begin(op, f) /\ (op = "load" => f \in Files)
  BY <1>1 DEF Begins4
<1>3. /\ request = NoRequest
      /\ request' = [op |-> op, file |-> f, at |-> "begin", read |-> NoTimes]
      /\ UNCHANGED <<lists, active_meet_file, folder, journal, console_times>>
  BY <1>2 DEF Begin
<1>4. request' \in Requests /\ request'.op = op /\ request'.file = f /\ request'.at = "begin"
  <2>1. op \in Ops /\ "begin" \in Stages
    BY DEF Ops, Stages
  <2> QED
    BY <1>3, <2>1, BeginDoes
<1> QED
  BY <1>2, <1>3, <1>4

LEMMA UpdateTyped ==
    ASSUME ListTypes, \E export \in Uploads : BeginUpdate(export)
    PROVE  /\ request = NoRequest /\ candidate' \in Uploads /\ active_meet_file # None
           /\ request' \in Requests /\ request'.op = "reload"
           /\ request'.file = active_meet_file /\ request'.at = "saved"
           /\ UNCHANGED <<lists, active_meet_file, files, content, journal, console_times>>
<1>1. /\ request' = [op |-> "reload", file |-> active_meet_file, at |-> "saved",
                     read |-> NoTimes]
      /\ request = NoRequest /\ candidate' \in Uploads /\ active_meet_file # None
      /\ UNCHANGED <<lists, active_meet_file, files, content, journal, console_times>>
  BY DEF BeginUpdate
<1>2. "reload" \in Ops /\ "saved" \in Stages /\ active_meet_file \in Files \cup {None}
  BY DEF ListTypes, Ops, Stages
<1>3. /\ request' \in Requests /\ request'.op = "reload"
      /\ request'.file = active_meet_file /\ request'.at = "saved"
  BY <1>1, <1>2, BeginDoes
<1> QED
  BY <1>1, <1>3

\* What a power cut leaves under way.
LEMMA BootTyped ==
    ASSUME FolderTypes, PowerCut
    PROVE  /\ request' \in Requests /\ active_meet_file' = None
           /\ \/ request' = NoRequest
              \/ request'.op = "boot" /\ request'.at = "begin" /\ request'.file \in Files
<1>1. CASE last_meet_file \in files
  <2>1. /\ active_meet_file' = None
        /\ request' = [op |-> "boot", file |-> last_meet_file, at |-> "begin",
                       read |-> NoTimes]
    BY <1>1 DEF PowerCut
  <2>2. "boot" \in Ops /\ "begin" \in Stages /\ last_meet_file \in Files \cup {None}
    BY <1>1 DEF FolderTypes, Ops, Stages
  <2>3. /\ request' \in Requests /\ request'.op = "boot"
        /\ request'.file = last_meet_file /\ request'.at = "begin"
    BY <2>1, <2>2, BeginDoes
  <2> QED
    BY <1>1, <2>1, <2>3 DEF FolderTypes
<1>2. CASE last_meet_file \notin files
  BY <1>2, TimesTyped DEF PowerCut
<1> QED
  BY <1>1, <1>2

\* Power comes back with the newest meet.
LEMMA BootMeet ==
    ASSUME FolderTypes, Ordinary, PowerCut
    PROVE  meet' \in Files \cup {None} /\ console_times' \in Times
<1>1. PICK f \in files \cup {None} :
          /\ meet' = IF f = None THEN None ELSE content[f].of
          /\ console_times' = IF UidOf(meet', None) = NoUid THEN NoTimes
                              ELSE Replay(journal'[UidOf(meet', None)])
  BY DEF PowerCut
<1>2. meet' \in Files \cup {None}
  BY <1>1, UploadTyped DEF FolderTypes
<1>3. journal' = journal
  BY DEF PowerCut, Ordinary
<1>4. UidOf(meet', None) \in Uids \cup {NoUid}
  BY <1>2, UidTyped
<1>5. Saved(UidOf(meet', None)) \in Times
  BY <1>4, SavedTyped
<1> QED
  BY <1>1, <1>2, <1>3, <1>5 DEF Saved

LEMMA ListKept ==
    Ordinary /\ MeetTypes /\ RequestInv /\ MeetStep => ListTypes'
<1> SUFFICES ASSUME Ordinary, MeetTypes, RequestInv, MeetStep PROVE ListTypes'
  OBVIOUS
<1> USE DEF MeetTypes
<1>1. CASE UNCHANGED <<lists, active_meet_file, console_times, request>>
  BY <1>1 DEF ListTypes
<1>2. CASE BeginLoad \/ BeginDelete \/ BeginClear \/ BeginNone
  BY <1>2, BeginTyped DEF ListTypes
<1>3. CASE \E export \in Uploads : BeginUpdate(export)
  BY <1>3, UpdateTyped DEF ListTypes
<1>4. CASE \E t \in finish_tasks : KeepTimes(t) \/ AppendTimes(t)
  <2>1. PICK t \in finish_tasks : KeepTimes(t) \/ AppendTimes(t)
    BY <1>4
  <2>2. t.swim \in Swims
    <3>1. t.swim \in 1..MaxSwims
      BY TaskTyped DEF RaceTypes
    <3> QED
      BY <3>1, LimitsAssumption DEF Swims
  <2>3. console_times' \in Times
    BY <2>1, <2>2 DEF ListTypes, Times, KeepTimes, AppendTimes
  <2>4. UNCHANGED <<lists, active_meet_file, request>>
    BY <2>1 DEF KeepTimes, AppendTimes
  <2> QED
    BY <2>3, <2>4 DEF ListTypes
<1>5. CASE CheckUpdate \/ ReplaceFile \/ ResetRace
  <2>1. UNCHANGED <<lists, active_meet_file, console_times>>
    BY <1>5 DEF CheckUpdate, ReplaceFile, ResetRace
  <2>2. To("checked") \/ To("begin") \/ To("parse") \/ request' = NoRequest
    BY <1>5 DEF CheckUpdate, ReplaceFile, ResetRace
  <2>3. request' \in Requests
    BY <2>2, ToDoes, TimesTyped DEF ListTypes, Stages
  <2> QED
    BY <2>1, <2>3 DEF ListTypes
<1>6. CASE ClearMeet \/ ParseFails \/ SwapMeet
  <2>1. UNCHANGED active_meet_file
    BY <1>6 DEF ClearMeet, ParseFails, SwapMeet
  <2>2. To("cleared") \/ To("swapped") \/ request' = NoRequest
    BY <1>6 DEF ClearMeet, ParseFails, SwapMeet
  <2>3. request' \in Requests
    BY <2>2, ToDoes, TimesTyped DEF ListTypes, Stages
  <2>4. meet' \in Files \cup {None}
    <3>1. SwapMeet => request.file \in Files
      BY DEF SwapMeet, RequestInv
    <3> QED
      BY <1>6, <3>1, UploadTyped DEF ClearMeet, ParseFails, SwapMeet, FolderTypes, ListTypes
  <2>5. console_times' \in Times
    BY <1>6, TimesTyped DEF ClearMeet, ParseFails, SwapMeet, ListTypes
  <2> QED
    BY <2>1, <2>3, <2>4, <2>5 DEF ListTypes
<1>7. CASE ReadTimes
  <2>1. UNCHANGED <<lists, active_meet_file, console_times>>
    BY <1>7 DEF ReadTimes
  <2>2. Saved(MeetUid) \in Times
    BY UidTyped, SavedTyped DEF MeetUid, ListTypes
  <2>3. request' = [request EXCEPT !.at = "read", !.read = Saved(MeetUid)]
    BY <1>7 DEF ReadTimes
  <2>4. request' \in Requests
    BY <2>2, <2>3 DEF ListTypes, Requests, Stages
  <2> QED
    BY <2>1, <2>4 DEF ListTypes
<1>8. CASE AssignTimes
  <2>1. UNCHANGED <<lists, active_meet_file>> /\ console_times' = request.read
    BY <1>8 DEF AssignTimes
  <2>2. request' = NoRequest \/ request' = [request EXCEPT !.at = "name"]
    BY <1>8 DEF AssignTimes
  <2>3. request' \in Requests
    BY <2>2, TimesTyped DEF ListTypes, Requests, Stages
  <2>4. request.read \in Times
    BY DEF ListTypes, Requests
  <2> QED
    BY <2>1, <2>3, <2>4 DEF ListTypes
<1>9. CASE NameMeet
  <2>1. UNCHANGED <<lists, console_times>> /\ active_meet_file' = request.file
        /\ request' = NoRequest /\ request.file \in Files
    BY <1>9 DEF NameMeet, RequestInv
  <2> QED
    BY <2>1, TimesTyped DEF ListTypes
<1>10. CASE DeleteFile \/ ClearFiles
  <2>1. UNCHANGED <<lists, active_meet_file>>
    BY <1>10 DEF DeleteFile, ClearFiles
  <2>2. To("unload") \/ request' = NoRequest
    BY <1>10 DEF DeleteFile, ClearFiles
  <2>3. request' \in Requests
    BY <2>2, ToDoes, TimesTyped DEF ListTypes, Stages
  <2>4. console_times' \in Times
    BY <1>10, TimesTyped DEF DeleteFile, ClearFiles, ListTypes
  <2> QED
    BY <2>1, <2>3, <2>4 DEF ListTypes
<1>11. CASE Unload
  BY <1>11, TimesTyped DEF Unload, ListTypes
<1>12. CASE PowerCut
  BY <1>12, BootTyped, BootMeet DEF ListTypes
<1> QED
  BY <1>1, <1>2, <1>3, <1>4, <1>5, <1>6, <1>7, <1>8, <1>9, <1>10, <1>11, <1>12,
     Steps, RaceLeavesLists DEF RequestStep


LEMMA ContentKept ==
    Ordinary /\ MeetTypes /\ RequestInv /\ ContentInv /\ MeetStep => ContentInv'
<1> SUFFICES ASSUME Ordinary, MeetTypes, RequestInv, ContentInv, MeetStep PROVE ContentInv'
  OBVIOUS
<1>1. CASE UNCHANGED content
  BY <1>1 DEF ContentInv
<1>2. CASE ReplaceFile
  <2>1. /\ ReloadAt({"checked"}) /\ SameMeet /\ request.file \in Files
        /\ candidate \in Uploads
    BY <1>2, Underway DEF ReplaceFile, MeetTypes, RequestInv, ReloadAt
  <2>2. content' = [content EXCEPT ![request.file] = candidate]
    BY <1>2 DEF ReplaceFile
  <2> QED
    BY <2>1, <2>2 DEF ContentInv, SameMeet, MeetTypes, FolderTypes
<1> QED
  BY <1>1, <1>2, FolderSteps DEF BeginUpdate, CheckUpdate, DeleteFile, ClearFiles, AppendTimes

LEMMA RequestKept ==
    Ordinary /\ MeetTypes /\ RequestInv /\ ContentInv /\ MeetStep => RequestInv'
<1> SUFFICES ASSUME Ordinary, MeetTypes, RequestInv, ContentInv, MeetStep PROVE RequestInv'
  OBVIOUS
<1> USE DEF LoadAt, ReloadAt, Booting
<1>0. /\ request \in Requests
      /\ {"cleared", "parse", "swapped", "read", "name", "begin", "checked", "unload"} \subseteq Stages
  BY DEF MeetTypes, ListTypes, Stages
<1>1. CASE UNCHANGED <<active_meet_file, candidate, request>>
  BY <1>1 DEF RequestInv, SameMeet
<1>2. CASE BeginLoad \/ BeginDelete \/ BeginClear \/ BeginNone
  <2>1. /\ request'.at = "begin"
        /\ \/ request'.op = "load" /\ request'.file \in Files
           \/ request'.op \in {"delete", "clear", "none meet"}
    BY <1>2, BeginTyped DEF MeetTypes
  <2> QED
    BY <2>1 DEF RequestInv
<1>3. CASE \E export \in Uploads : BeginUpdate(export)
  <2>1. /\ request'.op = "reload" /\ request'.at = "saved" /\ candidate' \in Uploads
        /\ request'.file = active_meet_file /\ active_meet_file' = active_meet_file
        /\ active_meet_file \in Files
    BY <1>3, UpdateTyped DEF MeetTypes, ListTypes
  <2> QED
    BY <2>1 DEF RequestInv
<1>4. CASE request' = NoRequest
  BY <1>4 DEF RequestInv, NoRequest
<1>5. CASE CheckUpdate /\ request' # NoRequest
  <2>1. /\ ReloadAt({"saved"}) /\ SameMeet /\ To("checked")
        /\ UNCHANGED <<candidate, active_meet_file>>
    BY <1>5, Underway DEF CheckUpdate, MeetTypes
  <2>2. /\ request'.op = request.op /\ request'.file = request.file
        /\ request'.at = "checked"
    BY <1>0, <2>1, ToDoes
  <2> QED
    BY <2>1, <2>2 DEF RequestInv, SameMeet
<1>6. CASE ReplaceFile
  <2>1. ReloadAt({"checked"}) /\ UNCHANGED active_meet_file
    BY <1>6, Underway DEF ReplaceFile, MeetTypes
  <2>2. /\ request'.op = request.op /\ request'.file = request.file
        /\ request'.at = "begin"
    BY <1>0, <1>6, ToDoes DEF ReplaceFile
  <2> QED
    BY <2>1, <2>2 DEF RequestInv
<1>7. CASE ClearMeet \/ ResetRace
  <2>1. request.op \in {"load", "boot"} /\ UNCHANGED <<active_meet_file, candidate>>
    BY <1>7 DEF ClearMeet, ResetRace
  <2>2. /\ request'.op = request.op /\ request'.file = request.file
        /\ request'.at \in {"cleared", "parse"}
    BY <1>0, <1>7, ToDoes DEF ClearMeet, ResetRace
  <2> QED
    BY <2>1, <2>2 DEF RequestInv
<1>8. CASE SwapMeet
  <2>1. Loading /\ UNCHANGED <<active_meet_file, candidate>>
    BY <1>8 DEF SwapMeet, Loading
  <2>2. /\ request'.op = request.op /\ request'.file = request.file
        /\ request'.at = "swapped"
    BY <1>0, <1>8, ToDoes DEF SwapMeet
  <2> QED
    BY <2>1, <2>2 DEF RequestInv, Loading
<1>9. CASE ReadTimes
  <2>1. Loading /\ UNCHANGED <<active_meet_file, candidate>>
    BY <1>9 DEF ReadTimes, Loading
  <2>2. /\ request'.op = request.op /\ request'.file = request.file
        /\ request'.at = "read"
    BY <1>0, <1>9 DEF ReadTimes, Requests
  <2> QED
    BY <2>1, <2>2 DEF RequestInv, Loading
<1>10. CASE AssignTimes /\ request.op # "reload"
  <2>1. request.op \in {"load", "boot"} /\ UNCHANGED <<active_meet_file, candidate>>
    BY <1>10 DEF AssignTimes, Loading
  <2>2. /\ request'.op = request.op /\ request'.file = request.file
        /\ request'.at = "name"
    BY <1>0, <1>10 DEF AssignTimes, Requests
  <2> QED
    BY <2>1, <2>2 DEF RequestInv
<1>11. CASE (DeleteFile \/ ClearFiles) /\ request' # NoRequest
  <2>1. request.op \in {"delete", "clear"} /\ UNCHANGED <<active_meet_file, candidate>>
    BY <1>11 DEF DeleteFile, ClearFiles
  <2>2. /\ request'.op = request.op /\ request'.file = request.file
        /\ request'.at = "unload"
    BY <1>0, <1>11, ToDoes DEF DeleteFile, ClearFiles
  <2> QED
    BY <2>1, <2>2 DEF RequestInv
<1>12. CASE PowerCut
  <2>1. \/ request' = NoRequest
        \/ /\ request'.op = "boot" /\ request'.at = "begin" /\ request'.file \in Files
           /\ active_meet_file' = None
    BY <1>12, BootTyped DEF MeetTypes
  <2> QED
    BY <1>4, <2>1 DEF RequestInv
<1>13. CASE \E t \in finish_tasks : KeepTimes(t) \/ AppendTimes(t)
  <2>1. UNCHANGED <<active_meet_file, candidate, request>>
    BY <1>13 DEF KeepTimes, AppendTimes
  <2> QED
    BY <1>1, <2>1
<1>14. CASE CheckUpdate \/ ParseFails \/ AssignTimes \/ NameMeet \/ Unload
  <2>1. AssignTimes /\ request.op = "reload" => request' = NoRequest
    BY DEF AssignTimes
  <2>2. ParseFails \/ NameMeet \/ Unload => request' = NoRequest
    BY DEF ParseFails, NameMeet, Unload
  <2> QED
    BY <1>4, <1>5, <1>10, <1>14, <2>1, <2>2
<1> QED
  BY <1>1, <1>2, <1>3, <1>4, <1>6, <1>7, <1>8, <1>9, <1>11, <1>12,
     <1>13, <1>14, Steps, RaceLeavesLists DEF RequestStep

LEMMA LoadedKept ==
    Ordinary /\ MeetTypes /\ RequestInv /\ ContentInv /\ LoadedInv /\ MeetStep => LoadedInv'
<1> SUFFICES ASSUME Ordinary, MeetTypes, RequestInv, ContentInv, LoadedInv, MeetStep
             PROVE  LoadedInv'
  OBVIOUS
<1> USE DEF LoadAt
<1>0. /\ request \in Requests
      /\ {"cleared", "parse", "swapped", "read", "name", "begin", "checked", "unload"} \subseteq Stages
      /\ request.at \in Stages
  BY DEF MeetTypes, ListTypes, Requests, Stages
<1>1. CASE UNCHANGED <<active_meet_file, meet, request>>
  BY <1>1 DEF LoadedInv
<1>2. CASE BeginLoad \/ BeginDelete \/ BeginClear \/ BeginNone
  <2>1. /\ request = NoRequest /\ request'.at = "begin"
        /\ UNCHANGED <<active_meet_file, lists>>
    BY <1>2, BeginTyped DEF MeetTypes
  <2>2. request.op = "none"
    BY <2>1 DEF NoRequest
  <2> QED
    BY <2>1, <2>2 DEF LoadedInv
<1>3. CASE \E export \in Uploads : BeginUpdate(export)
  <2>1. /\ request.op = "none" /\ request'.op = "reload"
        /\ UNCHANGED <<active_meet_file, meet>>
    BY <1>3, UpdateTyped DEF MeetTypes, NoRequest
  <2> QED
    BY <2>1 DEF LoadedInv
<1>4. CASE \/ CheckUpdate \/ ReplaceFile \/ DeleteFile \/ ClearFiles
           \/ ParseFails /\ request.op = "reload"
           \/ AssignTimes /\ request.op = "reload"
  <2>1. request.op \in {"reload", "delete", "clear"} /\ UNCHANGED <<active_meet_file, meet>>
    BY <1>4, Underway DEF CheckUpdate, ReplaceFile, DeleteFile, ClearFiles, ParseFails,
       AssignTimes, MeetTypes, ReloadAt
  <2>2. request'.op \in {"reload", "delete", "clear", "none"}
    <3>1. \/ request' = NoRequest \/ To("checked") \/ To("begin") \/ To("unload")
      BY <1>4 DEF CheckUpdate, ReplaceFile, DeleteFile, ClearFiles, ParseFails,
         AssignTimes
    <3> QED
      BY <1>0, <2>1, <3>1, ToDoes DEF NoRequest
  <2> QED
    BY <2>1, <2>2 DEF LoadedInv
<1>5. CASE ClearMeet
  <2>1. meet' = None /\ request'.at = "cleared"
    BY <1>0, <1>5, ToDoes DEF ClearMeet
  <2> QED
    BY <2>1 DEF LoadedInv
<1>6. CASE ResetRace
  <2>1. /\ meet' = meet /\ active_meet_file' = active_meet_file /\ request'.at = "parse"
        /\ LoadAt({"cleared"}) /\ request'.op = request.op
    BY <1>0, <1>6, ToDoes DEF ResetRace
  <2> QED
    BY <1>0, <2>1 DEF LoadedInv
<1>7. CASE ParseFails /\ request.op # "reload"
  <2>1. meet' = None /\ request'.op = "none"
    BY <1>7 DEF ParseFails, NoRequest
  <2> QED
    BY <2>1 DEF LoadedInv
<1>8. CASE SwapMeet
  <2>1. request.file \in Files /\ (request.op = "reload" => request.file = active_meet_file)
    BY <1>8 DEF SwapMeet, RequestInv
  <2>2. meet' = request.file /\ active_meet_file' = active_meet_file
    BY <1>8, <2>1 DEF SwapMeet, ContentInv
  <2>3. /\ request'.op = request.op /\ request'.file = request.file
        /\ request'.at = "swapped"
    BY <1>0, <1>8, ToDoes DEF SwapMeet
  <2>4. request.op \in {"load", "boot", "reload"}
    BY <1>8 DEF SwapMeet
  <2> QED
    BY <1>0, <2>1, <2>2, <2>3, <2>4 DEF LoadedInv
<1>9. CASE ReadTimes \/ (AssignTimes /\ request.op # "reload")
  <2>1. /\ UNCHANGED <<meet, active_meet_file>> /\ Loading
        /\ request.at \in {"swapped", "read"}
    BY <1>9 DEF ReadTimes, AssignTimes, Loading
  <2>2. /\ request'.op = request.op /\ request'.file = request.file
        /\ request'.at \in {"read", "name"}
    BY <1>0, <1>9 DEF ReadTimes, AssignTimes, Requests
  <2> QED
    BY <1>0, <2>1, <2>2 DEF LoadedInv, Loading
<1>10. CASE NameMeet
  <2>1. /\ meet' = meet /\ active_meet_file' = request.file /\ LoadAt({"name"})
        /\ request'.op = "none"
    BY <1>10 DEF NameMeet, NoRequest
  <2> QED
    BY <2>1 DEF LoadedInv
<1>11. CASE Unload
  <2>1. active_meet_file' = None /\ request'.op = "none"
    BY <1>11 DEF Unload, NoRequest
  <2> QED
    BY <2>1 DEF LoadedInv
<1>12. CASE PowerCut
  <2>1. active_meet_file' = None /\ (request'.op = "none" \/ request'.at = "begin")
    BY <1>12, BootTyped DEF MeetTypes, NoRequest
  <2> QED
    BY <2>1 DEF LoadedInv
<1>13. CASE \E t \in finish_tasks : KeepTimes(t) \/ AppendTimes(t)
  <2>1. UNCHANGED <<active_meet_file, meet, request>>
    BY <1>13 DEF KeepTimes, AppendTimes
  <2> QED
    BY <1>1, <2>1
<1>14. CASE RequestStep
  BY <1>2, <1>3, <1>4, <1>5, <1>7, <1>8, <1>9, <1>10, <1>11, <1>14 DEF RequestStep
<1>15. CASE \/ Finish \/ NextHeat \/ Repeat \/ UNCHANGED ofMeets
            \/ \E t \in finish_tasks : FinishTimeout(t)
  BY <1>1, <1>15, RaceLeavesLists
<1> QED
  BY <1>6, <1>12, <1>13, <1>14, <1>15, Steps

-----------------------------------------------------------------------------
(* The times of a meet.                                                    *)

\* What a request's step may do to a finish that is still to be confirmed.
LEMMA RequestMoves ==
    ASSUME MeetTypes, RequestInv, ContentInv, LoadedInv, RequestStep
    PROVE  /\ Loading' => Loading \/ Undisturbed
           /\ LoadAt(After)' => LoadAt(After)
           /\ LoadAt({"cleared"}) => LoadAt({"cleared"})'
           /\ LoadAt({"cleared"})' \/ LoadAt(After) \/ Loaded' \in {None, Loaded}
           /\ active_meet_file' \in {None, active_meet_file} \/ LoadAt({"name"})
<1> DEFINE Goal ==
        /\ Loading' => Loading \/ Undisturbed
        /\ LoadAt(After)' => LoadAt(After)
        /\ LoadAt({"cleared"}) => LoadAt({"cleared"})'
        /\ LoadAt({"cleared"})' \/ LoadAt(After) \/ Loaded' \in {None, Loaded}
        /\ active_meet_file' \in {None, active_meet_file} \/ LoadAt({"name"})
<1> USE DEF LoadAt, Loading, After
<1>0. /\ request \in Requests
      /\ {"cleared", "parse", "swapped", "read", "name", "begin", "checked", "unload"} \subseteq Stages
      /\ NoRequest.op = "none"
  BY DEF MeetTypes, ListTypes, Stages, NoRequest
<1>1. CASE BeginLoad \/ BeginDelete \/ BeginClear \/ BeginNone
  <2>1. Undisturbed
    BY <1>1 DEF BeginLoad, BeginDelete, BeginClear, BeginNone, Begin
  <2>2. /\ request = NoRequest /\ request'.at = "begin"
        /\ UNCHANGED <<lists, active_meet_file>>
    BY <1>1, BeginTyped DEF MeetTypes
  <2>3. request.op = "none" /\ Loaded' = Loaded
    BY <1>0, <2>2 DEF Loaded
  <2> QED
    BY <2>1, <2>2, <2>3
<1>2. CASE \E export \in Uploads : BeginUpdate(export)
  <2>1. Undisturbed
    BY <1>2 DEF BeginUpdate
  <2>2. /\ request = NoRequest /\ request'.op = "reload"
        /\ UNCHANGED <<lists, active_meet_file>>
    BY <1>2, UpdateTyped DEF MeetTypes
  <2>3. request.op = "none" /\ Loaded' = Loaded
    BY <1>0, <2>2 DEF Loaded
  <2> QED
    BY <2>1, <2>2, <2>3
<1>3. CASE CheckUpdate \/ ReplaceFile
  <2>1. request.op = "reload" /\ UNCHANGED <<lists, active_meet_file>>
    BY <1>3, Underway DEF CheckUpdate, ReplaceFile, MeetTypes, ReloadAt
  <2>2. request'.op \in {"none", "reload"}
    <3>1. request' = NoRequest \/ To("checked") \/ To("begin")
      BY <1>3 DEF CheckUpdate, ReplaceFile
    <3> QED
      BY <1>0, <2>1, <3>1, ToDoes
  <2>3. Loaded' = Loaded
    BY <2>1 DEF Loaded
  <2> QED
    BY <2>1, <2>2, <2>3
<1>4. CASE ClearMeet
  <2>1. LoadAt({"begin"}) /\ UNCHANGED active_meet_file
    BY <1>4 DEF ClearMeet
  <2>2. request'.op = request.op /\ request'.at = "cleared"
    BY <1>0, <1>4, ToDoes DEF ClearMeet
  <2> QED
    BY <2>1, <2>2
<1>5. CASE ParseFails
  <2>1. /\ request'.op = "none" /\ UNCHANGED active_meet_file
        /\ LoadAt({"parse"}) \/ (request.op = "reload" /\ UNCHANGED lists)
    BY <1>0, <1>5 DEF ParseFails
  <2> QED
    BY <2>1 DEF Loaded
<1>6. CASE SwapMeet
  <2>1. /\ UNCHANGED active_meet_file /\ Loading
        /\ LoadAt({"parse"}) \/ request.op = "reload"
    BY <1>6 DEF SwapMeet
  <2>2. request'.op = request.op /\ request'.at = "swapped"
    BY <1>0, <1>6, ToDoes DEF SwapMeet
  <2>3. ASSUME request.op = "reload" PROVE Loaded' = Loaded
    <3>1. /\ request.file = active_meet_file /\ request.file \in Files
          /\ content[request.file].of = request.file
      BY <1>6, <2>3 DEF SwapMeet, RequestInv, ContentInv
    <3>2. meet' = active_meet_file /\ meet \in {None, active_meet_file}
      BY <1>6, <2>3, <3>1, FilesAssumption DEF SwapMeet, LoadedInv
    <3> QED
      BY <2>1, <3>2 DEF Loaded
  <2> QED
    BY <2>1, <2>2, <2>3
<1>7. CASE ReadTimes \/ AssignTimes
  <2>1. /\ Loading /\ UNCHANGED <<lists, active_meet_file>>
        /\ request.at \in {"swapped", "read"}
    BY <1>7 DEF ReadTimes, AssignTimes
  <2>2. \/ request'.op = "none"
        \/ request'.op = request.op /\ request'.at \in {"read", "name"}
    BY <1>0, <1>7 DEF ReadTimes, AssignTimes, Requests
  <2>3. Loaded' = Loaded
    BY <2>1 DEF Loaded
  <2> QED
    BY <2>1, <2>2, <2>3
<1>8. CASE NameMeet
  <2>1. LoadAt({"name"}) /\ request'.op = "none"
    BY <1>0, <1>8 DEF NameMeet
  <2> QED
    BY <2>1
<1>9. CASE DeleteFile \/ ClearFiles
  <2>1. request.op \in {"delete", "clear"} /\ UNCHANGED <<lists, active_meet_file>>
    BY <1>9 DEF DeleteFile, ClearFiles
  <2>2. request'.op \in {"none", "delete", "clear"}
    <3>1. request' = NoRequest \/ To("unload")
      BY <1>9 DEF DeleteFile, ClearFiles
    <3> QED
      BY <1>0, <2>1, <3>1, ToDoes
  <2>3. Loaded' = Loaded
    BY <2>1 DEF Loaded
  <2> QED
    BY <2>1, <2>2, <2>3
<1>10. CASE Unload
  <2>1. /\ meet' = None /\ active_meet_file' = None /\ request'.op = "none"
        /\ request.at = "unload" \/ request.op = "none meet"
    BY <1>0, <1>10 DEF Unload
  <2>2. request.op \notin {"load", "boot"}
    BY <2>1, Underway DEF MeetTypes
  <2> QED
    BY <2>1, <2>2 DEF Loaded
<1> QED
  BY <1>1, <1>2, <1>3, <1>4, <1>5, <1>6, <1>7, <1>8, <1>9, <1>10 DEF RequestStep

\* A race's meet is settled once it is swum.
LEMMA SwumKept ==
    ASSUME Ordinary, MeetTypes, MeetStep, NEW s \in 1..swims
    PROVE  swum_in'[s] = swum_in[s] /\ s \in 1..swims'
<1>1. CASE Finish
  <2>1. swims' = swims + 1 /\ swum_in' = [swum_in EXCEPT ![swims + 1] = Loaded]
    BY <1>1 DEF Finish
  <2> QED
    BY <2>1 DEF MeetTypes, RaceTypes
<1>2. CASE UNCHANGED <<swum_in, swims>>
  BY <1>2
<1> QED
  BY <1>1, <1>2, Steps, RequestsLeaveRace DEF NextHeat, Repeat, FinishTimeout, KeepTimes,
     AppendTimes, ResetRace, PowerCut

\* A later generation makes no finish live.
LEMMA LiveKept ==
    ASSUME RaceTypes, TasksInv, NEW t \in finish_tasks,
           finish_timer_gen' \in Nat, finish_timer_gen' >= finish_timer_gen, Live(t)'
    PROVE  Live(t)
<1>1. t.gen \in Nat /\ finish_timer_gen \in Nat /\ (t.at = "asleep" => t.gen <= finish_timer_gen)
  BY TaskTyped DEF RaceTypes, TasksInv
<1> QED
  BY <1>1 DEF Live

LEMMA TasksKept ==
    /\ Ordinary /\ MeetTypes /\ RequestInv /\ ContentInv /\ LoadedInv /\ TasksInv
    /\ MeetStep
    => TasksInv'
<1> SUFFICES ASSUME Ordinary, MeetTypes, RequestInv, ContentInv, LoadedInv, TasksInv,
                    MeetStep
             PROVE  TasksInv'
  OBVIOUS
<1>0. /\ RaceTypes /\ Swims = 0..MaxSwims /\ swims \in 0..MaxSwims
      /\ finish_tasks \subseteq Tasks /\ MaxSwims \in Nat
  BY LimitsAssumption DEF MeetTypes, RaceTypes, Swims
<1>a. \A t \in finish_tasks : /\ t.swim \in 1..swims /\ t.gen \in Nat
                              /\ t.at \in {"asleep", "keep", "append"}
                              /\ t.at = "asleep" => t.gen <= finish_timer_gen
  <2> SUFFICES ASSUME NEW t \in finish_tasks
               PROVE  /\ t.swim \in 1..swims /\ t.gen \in Nat
                      /\ t.at \in {"asleep", "keep", "append"}
                      /\ t.at = "asleep" => t.gen <= finish_timer_gen
    OBVIOUS
  <2>1. /\ t.swim \in 1..MaxSwims /\ t.gen \in Nat
        /\ t.at \in {"asleep", "keep", "append"}
    BY <1>0, TaskTyped
  <2>2. t.swim <= swims /\ (t.at = "asleep" => t.gen <= finish_timer_gen)
    BY DEF TasksInv
  <2> QED
    BY <1>0, <2>1, <2>2
<1>b. \A t \in finish_tasks : swum_in'[t.swim] = swum_in[t.swim] /\ t.swim <= swims'
  BY <1>0, <1>a, SwumKept
\* Fewer tasks, a later generation, and the same load.
<1>c. ASSUME finish_tasks' \subseteq finish_tasks, finish_timer_gen' \in Nat,
             finish_timer_gen' >= finish_timer_gen,
             UNCHANGED <<lists, active_meet_file, request>>
      PROVE  TasksInv'
  <2>1. \A t \in finish_tasks' : t \in finish_tasks /\ (Live(t)' => Live(t))
    BY <1>0, <1>c, LiveKept
  <2>2. Loaded' = Loaded
    BY <1>c DEF Loaded
  <2>3. \A t \in finish_tasks' : t.at = "asleep" => t.gen <= finish_timer_gen'
    BY <1>0, <1>a, <1>c DEF RaceTypes
  <2> QED
    BY <1>b, <1>c, <2>1, <2>2, <2>3 DEF TasksInv, Loading, LoadAt, Undisturbed, Swum
<1>1. CASE Finish
  <2>1. /\ ~Loading /\ swims \in 0..(MaxSwims - 1) /\ swims' = swims + 1
        /\ swum_in' = [swum_in EXCEPT ![swims + 1] = Loaded] /\ RaceState(swims + 1)
        /\ UNCHANGED <<lists, active_meet_file, request>>
    BY <1>0, <1>1 DEF Finish, Quiet, Ordinary
  <2>2. swims + 1 \in 1..MaxSwims /\ swims + 1 \in Nat
    BY <1>0, <2>1
  <2> DEFINE new == [gen |-> finish_timer_gen + 1, heat |-> heat, swim |-> swims + 1,
                     at |-> "asleep"]
  <2>3. /\ finish_timer_gen' \in Nat /\ finish_timer_gen' >= finish_timer_gen
        /\ \/ finish_tasks' = finish_tasks
           \/ /\ finish_timer_gen' = finish_timer_gen + 1
              /\ finish_tasks' = finish_tasks \cup {new}
    BY <1>0, <2>1, <2>2, RaceStateDoes
  <2>4. CASE finish_tasks' = finish_tasks
    BY <1>c, <2>1, <2>3, <2>4
  <2>5. CASE /\ finish_timer_gen' = finish_timer_gen + 1
             /\ finish_tasks' = finish_tasks \cup {new}
    <3>1. /\ new.swim = swims' /\ new.gen = finish_timer_gen' /\ swum_in'[new.swim] = Loaded
          /\ new.swim \in 1..MaxSwims
      BY <1>0, <2>1, <2>2, <2>5 DEF RaceTypes
    <3> HIDE DEF new
    <3>2. \A t \in finish_tasks : Live(t)' => Live(t)
      BY <1>0, <2>3, LiveKept
    <3>3. Loaded' = Loaded /\ ~Loading' /\ (\A st : ~LoadAt(st) /\ ~LoadAt(st)')
      BY <2>1 DEF Loaded, Loading, LoadAt
    <3>4. \A t \in finish_tasks : t.at = "asleep" => t.gen <= finish_timer_gen'
      BY <1>a, <2>3, <1>0 DEF RaceTypes
    <3>5. \A t \in finish_tasks' :
              t.swim <= swims' /\ (t.at = "asleep" => t.gen <= finish_timer_gen')
      BY <1>b, <2>1, <2>2, <2>3, <2>5, <3>1, <3>4
    <3>6. \A t \in finish_tasks' : Live(t)' => Loaded' = None \/ Swum(t.swim)'
      BY <1>b, <2>5, <3>1, <3>2, <3>3 DEF TasksInv, Swum
    <3> QED
      BY <3>3, <3>5, <3>6 DEF TasksInv
  <2> QED
    BY <2>3, <2>4, <2>5
<1>2. CASE NextHeat \/ Repeat
  <2>1. RaceState(0) \/ (RaceState(swim) /\ prev_finished)
    BY <1>2 DEF NextHeat, Repeat, Ordinary
  <2>2. /\ finish_timer_gen' \in Nat /\ finish_timer_gen' >= finish_timer_gen
        /\ finish_tasks' = finish_tasks
    <3>1. swim \in Nat
      BY <1>0 DEF RaceTypes
    <3> QED
      BY <1>0, <2>1, <3>1, RaceStateDoes
  <2> QED
    BY <1>c, <1>2, <2>2, RaceLeavesLists
<1>3. CASE \E t \in finish_tasks : FinishTimeout(t) \/ KeepTimes(t) \/ AppendTimes(t)
  <2>1. PICK t \in finish_tasks : FinishTimeout(t) \/ KeepTimes(t) \/ AppendTimes(t)
    BY <1>3
  <2>2. /\ UNCHANGED <<lists, active_meet_file, request, race, swum_in, swims>>
        /\ ~Loading
    <3>1. FinishTimeout(t) => ~Loading
      BY DEF FinishTimeout, Quiet, Ordinary
    <3>2. KeepTimes(t) \/ AppendTimes(t) => ~Loading
      BY DEF KeepTimes, AppendTimes, TasksInv, Undisturbed
    <3> QED
      BY <2>1, <3>1, <3>2 DEF FinishTimeout, KeepTimes, AppendTimes
  <2>3. \A u \in finish_tasks' :
            \/ u \in finish_tasks
            \/ u.swim = t.swim /\ u.at # "asleep" /\ Live(t)
    <3>1. \A at \in {"keep", "append"} :
              [t EXCEPT !.at = at].swim = t.swim /\ [t EXCEPT !.at = at].at = at
      BY <1>0 DEF Tasks
    <3> QED
      BY <2>1, <3>1 DEF FinishTimeout, KeepTimes, AppendTimes, Live
  <2>4. Loaded' = Loaded /\ ~Loading' /\ (\A st : ~LoadAt(st) /\ ~LoadAt(st)')
    BY <2>2 DEF Loaded, Loading, LoadAt
  <2>5. \A u \in finish_tasks :
            (Live(u)' <=> Live(u)) /\ (Live(u) => Loaded = None \/ Swum(u.swim))
    BY <2>2, <2>4 DEF Live, TasksInv
  <2>6. \A u \in finish_tasks' : Live(u)' => Loaded' = None \/ Swum(u.swim)'
    BY <2>2, <2>3, <2>4, <2>5 DEF Swum
  <2>7. \A u \in finish_tasks' :
            u.swim <= swims' /\ (u.at = "asleep" => u.gen <= finish_timer_gen')
    BY <1>a, <1>b, <2>2, <2>3
  <2> QED
    BY <2>4, <2>6, <2>7 DEF TasksInv
<1>4. CASE RequestStep
  <2>1. UNCHANGED <<race, finish_tasks, swum_in, swims>>
    BY <1>4, RequestsLeaveRace
  <2>2. /\ Loading' => Loading \/ Undisturbed
        /\ LoadAt(After)' => LoadAt(After)
        /\ LoadAt({"cleared"}) => LoadAt({"cleared"})'
        /\ LoadAt({"cleared"})' \/ LoadAt(After) \/ Loaded' \in {None, Loaded}
    BY <1>4, RequestMoves
  <2>3. \A t \in finish_tasks : Live(t)' <=> Live(t)
    BY <2>1 DEF Live
  <2>4. Undisturbed' <=> Undisturbed
    BY <2>1 DEF Undisturbed
  <2> QED
    BY <2>1, <2>2, <2>3, <2>4 DEF TasksInv, Swum
<1>5. CASE ResetRace
  <2>1. /\ finish_timer_gen' = finish_timer_gen + 1 /\ LoadAt({"cleared"})
        /\ UNCHANGED <<lists, active_meet_file, finish_tasks, swum_in, swims>>
    BY <1>5 DEF ResetRace, LoadAt
  <2>2. Loading /\ Undisturbed /\ Undisturbed'
    BY <2>1 DEF Loading, LoadAt, TasksInv, Undisturbed
  <2>3. finish_timer_gen \in Nat
    BY <1>0 DEF RaceTypes
  <2>4. \A t \in finish_tasks : ~Live(t)' /\ t.gen <= finish_timer_gen'
    BY <1>a, <2>1, <2>2, <2>3 DEF Live, Undisturbed
  <2> QED
    BY <1>b, <2>1, <2>2, <2>4 DEF TasksInv
<1>6. CASE PowerCut
  BY <1>6 DEF PowerCut, TasksInv, Undisturbed
<1>7. CASE UNCHANGED ofMeets
  <2>1. finish_timer_gen \in Nat
    BY <1>0 DEF RaceTypes
  <2> QED
    BY <1>c, <1>7, <2>1
<1> QED
  BY <1>1, <1>2, <1>3, <1>4, <1>5, <1>6, <1>7, Steps

LEMMA JournalKept ==
    /\ Ordinary /\ MeetTypes /\ RequestInv /\ ContentInv /\ LoadedInv /\ TasksInv
    /\ JournalInv /\ MeetStep
    => JournalInv'
<1> SUFFICES ASSUME Ordinary, MeetTypes, RequestInv, ContentInv, LoadedInv, TasksInv,
                    JournalInv, MeetStep
             PROVE  JournalInv'
  OBVIOUS
<1>0. /\ MaxSwims \in Nat /\ swims \in 0..MaxSwims
      /\ \A u \in Uids : \A i \in DOMAIN journal[u] : journal[u][i] \in Lines
  BY LimitsAssumption DEF MeetTypes, RaceTypes, FolderTypes
<1>1. \A u \in Uids : \A i \in DOMAIN journal[u] :
          /\ journal[u][i].swim <= swims'
          /\ swum_in'[journal[u][i].swim] \in {None, u[2]}
  <2>1. \A l \in Lines : l.swim \in 1..MaxSwims
    BY DEF Lines
  <2>2. \A u \in Uids : \A i \in DOMAIN journal[u] : journal[u][i].swim \in 1..swims
    BY <1>0, <2>1 DEF JournalInv
  <2>3. \A s \in 1..swims : swum_in'[s] = swum_in[s] /\ s <= swims'
    BY SwumKept
  <2> QED
    BY <2>2, <2>3 DEF JournalInv
<1>2. CASE \/ UNCHANGED journal \/ ClearFiles
           \/ (DeleteFile /\ journal' # journal)
  <2>1. \A u \in Uids : journal'[u] = journal[u] \/ journal'[u] = <<>>
    BY <1>2 DEF ClearFiles, DeleteFile, MeetTypes, FolderTypes
  <2> QED
    BY <1>1, <2>1 DEF JournalInv
<1>3. CASE \E t \in finish_tasks : AppendTimes(t)
  <2>1. PICK t \in finish_tasks : AppendTimes(t)
    BY <1>3
  <2> DEFINE l == [heat |-> t.heat, swim |-> t.swim]
             u == MeetUid
  <2>2. CASE u = NoUid
    BY <1>2, <2>1, <2>2 DEF AppendTimes
  <2>3. CASE u # NoUid
    <3>1. u \in Uids /\ u[2] = (IF meet \in Lenex THEN meet ELSE active_meet_file)
      BY <2>3, UidTyped DEF MeetUid, MeetTypes, ListTypes
    <3>2. ~Loading
      BY <2>1 DEF AppendTimes, TasksInv, Undisturbed
    <3>3. u[2] = Loaded /\ Loaded # None
      <4>1. meet \notin Lenex => active_meet_file # None
        BY <2>3, UidTyped DEF MeetUid, MeetTypes, ListTypes
      <4>2. active_meet_file # None => meet \in {None, active_meet_file}
        BY <3>2 DEF Loading, LoadAt, LoadedInv
      <4> QED
        BY <3>1, <4>1, <4>2, FilesAssumption DEF Loaded
    <3>4. Live(t) /\ ~LoadAt({"cleared"})
      BY <2>1, <3>2 DEF Live, AppendTimes, LoadAt, Loading
    <3>5. swum_in[t.swim] \in {None, u[2]} /\ t.swim <= swims
      BY <3>3, <3>4 DEF TasksInv, Swum
    <3>6. UNCHANGED <<swum_in, swims>>
      BY <2>1 DEF AppendTimes
    <3>7. l \in Lines /\ l.swim = t.swim
      BY TaskTyped DEF MeetTypes, RaceTypes
    <3>8. journal[u] \in Seq(Lines)
      BY <3>1 DEF MeetTypes, FolderTypes
    <3> HIDE DEF l, u
    <3>9. journal' = [journal EXCEPT ![u] = Append(journal[u], l)]
      BY <2>1, <2>3, <3>7, <3>8, Appended DEF AppendTimes, l, u
    <3>10. \A i \in DOMAIN Append(journal[u], l) :
               \/ Append(journal[u], l)[i] = l
               \/ i \in DOMAIN journal[u] /\ Append(journal[u], l)[i] = journal[u][i]
      BY <3>8
    <3>11. \A v \in Uids : v # u => journal'[v] = journal[v]
      BY <3>9 DEF MeetTypes, FolderTypes
    <3>12. journal'[u] = Append(journal[u], l)
      BY <3>1, <3>9 DEF MeetTypes, FolderTypes
    <3>13. \A i \in DOMAIN journal'[u] :
               /\ journal'[u][i].swim <= swims'
               /\ swum_in'[journal'[u][i].swim] \in {None, u[2]}
      BY <1>1, <3>1, <3>5, <3>6, <3>7, <3>10, <3>12
    <3> QED
      BY <1>1, <3>11, <3>13 DEF JournalInv
  <2> QED
    BY <2>2, <2>3
<1> QED
  BY <1>2, <1>3, FolderSteps DEF BeginUpdate, CheckUpdate, ReplaceFile

LEMMA ResultsKept ==
    /\ Ordinary /\ MeetTypes /\ RequestInv /\ ContentInv /\ LoadedInv /\ ResultsInv
    /\ MeetStep
    => ResultsInv'
<1> SUFFICES ASSUME Ordinary, MeetTypes, RequestInv, ContentInv, LoadedInv, ResultsInv,
                    MeetStep
             PROVE  ResultsInv'
  OBVIOUS
<1>0. /\ RaceTypes /\ MaxSwims \in Nat /\ swims \in 0..MaxSwims
      /\ last_results \in 0..swims /\ swim \in Nat
  BY LimitsAssumption DEF MeetTypes, RaceTypes
<1>1. last_results # 0 => swum_in'[last_results] = swum_in[last_results]
  BY <1>0, SwumKept
\* The results and the load are as they were.
<1>2. ASSUME last_results' = last_results, UNCHANGED <<active_meet_file, request>>
      PROVE  ResultsInv'
  BY <1>1, <1>2 DEF ResultsInv, LoadAt
<1>3. CASE Finish
  <2>1. /\ ~Loading /\ swims \in 0..(MaxSwims - 1) /\ RaceState(swims + 1)
        /\ swum_in' = [swum_in EXCEPT ![swims + 1] = Loaded]
        /\ UNCHANGED <<lists, active_meet_file, request>>
    BY <1>0, <1>3 DEF Finish, Quiet, Ordinary
  <2>2. swims + 1 \in 1..MaxSwims /\ swims + 1 \in Nat
    BY <1>0, <2>1
  <2>3. last_results' = swims + 1 \/ last_results' = last_results
    BY <1>0, <2>1, <2>2, RaceStateDoes
  <2>4. CASE last_results' = swims + 1
    <3>1. swum_in'[swims + 1] = Loaded
      BY <2>1, <2>2 DEF MeetTypes, RaceTypes
    <3>2. \A st : ~LoadAt(st) /\ ~LoadAt(st)'
      BY <2>1 DEF Loading, LoadAt
    <3>3. active_meet_file # None => Loaded = active_meet_file
      BY <3>2 DEF Loaded, LoadedInv
    <3> QED
      BY <2>1, <2>4, <3>1, <3>2, <3>3 DEF ResultsInv
  <2> QED
    BY <1>2, <2>1, <2>3, <2>4
<1>4. CASE NextHeat \/ Repeat
  <2>1. RaceState(0) \/ (RaceState(swim) /\ prev_finished)
    BY <1>4 DEF NextHeat, Repeat, Ordinary
  <2>2. last_results' = last_results
    BY <1>0, <2>1, RaceStateDoes
  <2> QED
    BY <1>2, <1>4, <2>2, RaceLeavesLists
<1>5. CASE \E t \in finish_tasks : FinishTimeout(t) \/ KeepTimes(t) \/ AppendTimes(t)
  <2>1. UNCHANGED <<race, active_meet_file, request>>
    BY <1>5 DEF FinishTimeout, KeepTimes, AppendTimes
  <2> QED
    BY <1>2, <2>1
<1>6. CASE RequestStep
  <2>1. UNCHANGED <<race, finish_tasks, swum_in, swims>>
    BY <1>6, RequestsLeaveRace
  <2>2. /\ LoadAt(After)' => LoadAt(After)
        /\ active_meet_file' \in {None, active_meet_file} \/ LoadAt({"name"})
    BY <1>6, RequestMoves
  <2>3. LoadAt({"name"}) => LoadAt(After)
    BY DEF LoadAt, After
  <2> QED
    BY <2>1, <2>2, <2>3 DEF ResultsInv
<1>7. CASE ResetRace \/ PowerCut
  <2>1. last_results' = 0
    BY <1>7 DEF ResetRace, PowerCut
  <2> QED
    BY <2>1 DEF ResultsInv
<1>8. CASE UNCHANGED ofMeets
  BY <1>2, <1>8
<1> QED
  BY <1>3, <1>4, <1>5, <1>6, <1>7, <1>8, Steps

LEMMA MeetKept == Ordinary /\ MeetInv /\ MeetStep => MeetInv'
BY FolderKept, RaceKept, ListKept, ContentKept, RequestKept, LoadedKept, TasksKept,
   JournalKept, ResultsKept DEF MeetInv, MeetTypes

LEMMA MeetMeans == MeetInv => TimesOfTheirMeet
BY DEF MeetInv, JournalInv, ResultsInv, TimesOfTheirMeet

-----------------------------------------------------------------------------
(* The schedule, for meets that have a name.                               *)

\* Every file is a LENEX file: a CSV's journal is looked up under the file that
\* was loaded before it (README, "Cases").
Named == Files = Lenex

\* The finishes kept in memory and not yet in the journal.
Appending == {t \in finish_tasks : t.at = "append"}

\* The times are the journal's, but for those on their way to it.
SavedTimes(late, lines, times) ==
    \A h \in Heats :
        \/ \E t \in late : t.heat = h /\ t.swim = times[h]
        \/ (\A t \in late : t.heat # h) /\ Latest(lines, h, times[h])

JournalOf(m) == journal[<<"name", m>>]

OneConfirms ==
    \A t, u \in finish_tasks : t.at # "asleep" /\ u.at # "asleep" => t = u

\* What is shown of the meet, and what a load has read of its journal.
ShownInv ==
    meet # None /\ request.at \notin {"swapped", "read", "unload"} =>
        SavedTimes(Appending, JournalOf(meet), console_times)
ReadInv ==
    Loading /\ request.at \in {"swapped", "read"} =>
        /\ meet # None
        /\ request.at = "read" => SavedTimes({}, JournalOf(meet), request.read)

\* The official results are those of the meet's file.
OfficialInv ==
    meet # None /\ ~ReloadAt({"begin"}) => results = Results(content[meet])

ScheduleInv == OneConfirms /\ ShownInv /\ ReadInv /\ OfficialInv

LEMMA NamedUid ==
    ASSUME Named, NEW m \in Files, NEW f
    PROVE  UidOf(m, f) = <<"name", m>> /\ UidOf(m, f) \in Uids /\ UidOf(m, f) # NoUid
BY FilesAssumption DEF Named, UidOf, Uids, NoUid

\* What a journal says is what is read of it.
LEMMA ReplaySaved ==
    ASSUME FolderTypes, NEW u \in Uids, NEW times \in Times
    PROVE  SavedTimes({}, journal[u], times) <=> times = Replay(journal[u])
<1>1. journal[u] \in Seq(Lines)
  BY DEF FolderTypes
<1>2. Replay(journal[u]) \in Times
  BY <1>1, ReplayTyped DEF Times
<1>3. \A h \in Heats :
          Latest(journal[u], h, times[h]) <=> times[h] = Replay(journal[u])[h]
  BY <1>1, LatestIsReplayed
<1>4. (\A h \in Heats : times[h] = Replay(journal[u])[h]) <=> times = Replay(journal[u])
  BY <1>2 DEF Times
<1> QED
  BY <1>3, <1>4 DEF SavedTimes

LEMMA InitSchedule == Init => ScheduleInv
<1> SUFFICES ASSUME Init PROVE ScheduleInv
  OBVIOUS
<1>1. meet = None /\ finish_tasks = {} /\ request.op = "none"
  BY DEF Init, NoRequest
<1> QED
  BY <1>1 DEF ScheduleInv, OneConfirms, ShownInv, ReadInv, OfficialInv, Loading

LEMMA OneConfirmsKept ==
    Ordinary /\ RaceTypes /\ OneConfirms /\ MeetStep => OneConfirms'
<1> SUFFICES ASSUME Ordinary, RaceTypes, OneConfirms, MeetStep PROVE OneConfirms'
  OBVIOUS
<1>0. swim \in Nat /\ swims \in Nat
  BY LimitsAssumption DEF RaceTypes
<1>1. CASE finish_tasks' \subseteq finish_tasks
  BY <1>1 DEF OneConfirms
<1>2. CASE Finish \/ NextHeat \/ Repeat
  <2>1. PICK now \in Nat : RaceState(now)
    BY <1>0, <1>2 DEF Finish, NextHeat, Repeat
  <2>2. \A t \in finish_tasks' : t \in finish_tasks \/ t.at = "asleep"
    BY <2>1, RaceStateDoes
  <2> QED
    BY <2>2 DEF OneConfirms
<1>3. ASSUME NEW t \in finish_tasks, FinishTimeout(t) PROVE OneConfirms'
  <2>1. \A u \in finish_tasks' :
            (u \in finish_tasks /\ u.at = "asleep") \/ u = [t EXCEPT !.at = "keep"]
    BY <1>3 DEF FinishTimeout
  <2> QED
    BY <2>1 DEF OneConfirms
<1>4. ASSUME NEW t \in finish_tasks, KeepTimes(t) PROVE OneConfirms'
  <2>1. \A u \in finish_tasks' :
            (u \in finish_tasks /\ u # t) \/ u = [t EXCEPT !.at = "append"]
    BY <1>4 DEF KeepTimes
  <2>2. \A u \in finish_tasks : u # t => u.at = "asleep"
    BY <1>4 DEF KeepTimes, OneConfirms
  <2> QED
    BY <2>1, <2>2 DEF OneConfirms
<1>5. ASSUME NEW t \in finish_tasks, AppendTimes(t) PROVE OneConfirms'
  BY <1>1, <1>5 DEF AppendTimes
<1>6. CASE RequestStep \/ ResetRace \/ PowerCut \/ UNCHANGED ofMeets
  BY <1>1, <1>6, RequestsLeaveRace DEF ResetRace, PowerCut
<1> QED
  BY <1>2, <1>3, <1>4, <1>5, <1>6, Steps

\* The finishes on their way to the journal change only with a finish's own steps.
LEMMA AppendingKept ==
    ASSUME RaceTypes, ListTypes,
           \/ Finish \/ NextHeat \/ Repeat \/ ResetRace \/ RequestStep \/ UNCHANGED ofMeets
           \/ \E t \in finish_tasks : FinishTimeout(t)
    PROVE  Appending' = Appending
<1>0. swim \in Nat /\ swims \in Nat
  BY LimitsAssumption DEF RaceTypes
<1>1. CASE finish_tasks' = finish_tasks
  BY <1>1 DEF Appending
<1>2. CASE Finish \/ NextHeat \/ Repeat
  <2>1. PICK now \in Nat : RaceState(now)
    BY <1>0, <1>2 DEF Finish, NextHeat, Repeat
  <2>2. /\ finish_tasks \subseteq finish_tasks'
        /\ \A t \in finish_tasks' : t \in finish_tasks \/ t.at = "asleep"
    BY <2>1, RaceStateDoes
  <2> QED
    BY <2>2 DEF Appending
<1>3. ASSUME NEW t \in finish_tasks, FinishTimeout(t) PROVE Appending' = Appending
  <2>1. [t EXCEPT !.at = "keep"].at = "keep"
    BY DEF RaceTypes, Tasks
  <2>2. /\ finish_tasks \ {t} \subseteq finish_tasks' /\ t.at = "asleep"
        /\ \A u \in finish_tasks' : u \in finish_tasks \/ u.at = "keep"
    BY <1>3, <2>1 DEF FinishTimeout
  <2> QED
    BY <2>2 DEF Appending
<1> QED
  BY <1>1, <1>2, <1>3, RequestsLeaveRace DEF ResetRace

LEMMA ShownKept ==
    Ordinary /\ Named /\ MeetInv /\ ScheduleInv /\ MeetStep => ShownInv'
<1> SUFFICES ASSUME Ordinary, Named, MeetInv, ScheduleInv, MeetStep,
                    meet' # None, request'.at \notin {"swapped", "read", "unload"}
             PROVE  SavedTimes(Appending', JournalOf(meet)', console_times')
  BY DEF ShownInv
<1>0. /\ FolderTypes /\ RaceTypes /\ ListTypes /\ finish_tasks \subseteq Tasks
      /\ request \in Requests /\ meet \in Files \cup {None} /\ console_times \in Times
      /\ NoRequest.at = "idle"
      /\ {"read", "swapped", "unload"} \subseteq Stages
  BY DEF MeetInv, MeetTypes, RaceTypes, ListTypes, NoRequest, Stages
<1>1. /\ request.at \notin {"swapped", "read", "unload"} /\ meet # None =>
             SavedTimes(Appending, JournalOf(meet), console_times)
  BY DEF ScheduleInv, ShownInv
\* What is shown is as it was.
<1>c. ASSUME UNCHANGED <<meet, journal, console_times>>, Appending' = Appending,
             request.at \notin {"swapped", "read", "unload"}
      PROVE  SavedTimes(Appending', JournalOf(meet)', console_times')
  BY <1>1, <1>c DEF JournalOf
<1>2. CASE \/ Finish \/ NextHeat \/ Repeat \/ \E t \in finish_tasks : FinishTimeout(t)
           \/ UNCHANGED ofMeets
  <2>1. UNCHANGED <<meet, journal, console_times, request>>
    BY <1>2, RaceLeavesLists
  <2>2. Appending' = Appending
    BY <1>0, <1>2, AppendingKept
  <2> QED
    BY <1>c, <2>1, <2>2
<1>3. ASSUME NEW t \in finish_tasks, KeepTimes(t)
      PROVE  SavedTimes(Appending', JournalOf(meet)', console_times')
  <2> DEFINE r == [t EXCEPT !.at = "append"]
  <2>1. r.at = "append" /\ r.heat = t.heat /\ r.swim = t.swim /\ t.heat \in Heats
    BY <1>0 DEF Tasks
  <2>2. /\ t.at = "keep" /\ UNCHANGED <<meet, journal, request>>
        /\ console_times' = [console_times EXCEPT ![t.heat] = t.swim]
        /\ finish_tasks' = (finish_tasks \ {t}) \cup {r}
    BY <1>3 DEF KeepTimes
  <2> HIDE DEF r
  <2>3. \A u \in finish_tasks : u # t => u.at = "asleep"
    BY <2>2 DEF ScheduleInv, OneConfirms
  <2>4. Appending = {} /\ Appending' = {r}
    BY <2>1, <2>2, <2>3 DEF Appending
  <2>5. SavedTimes({}, JournalOf(meet), console_times)
    BY <1>1, <2>2, <2>4
  <2>6. /\ console_times'[t.heat] = t.swim
        /\ \A h \in Heats : h # t.heat => console_times'[h] = console_times[h]
    BY <1>0, <2>1, <2>2 DEF Times
  <2> QED
    BY <2>1, <2>2, <2>4, <2>5, <2>6 DEF SavedTimes, JournalOf
<1>4. ASSUME NEW t \in finish_tasks, AppendTimes(t)
      PROVE  SavedTimes(Appending', JournalOf(meet)', console_times')
  <2> DEFINE l == [heat |-> t.heat, swim |-> t.swim]
             u == <<"name", meet>>
  <2>1. /\ t.at = "append" /\ UNCHANGED <<meet, active_meet_file, console_times, request>>
        /\ finish_tasks' = finish_tasks \ {t}
        /\ journal' = IF MeetUid = NoUid THEN journal
                      ELSE [journal EXCEPT ![MeetUid] = AppendLine(@, l)]
    BY <1>4 DEF AppendTimes
  <2>2. l \in Lines /\ l.heat = t.heat /\ l.swim = t.swim
    BY <1>0, TaskTyped
  <2>3. MeetUid = u /\ u # NoUid /\ u \in Uids
    BY <1>0, <2>1, NamedUid DEF MeetUid
  <2> HIDE DEF l, u
  <2>4. journal[u] \in Seq(Lines)
    BY <1>0, <2>3 DEF FolderTypes
  <2>5. journal'[u] = Append(journal[u], l)
    BY <1>0, <2>1, <2>2, <2>3, <2>4, Appended DEF FolderTypes
  <2>6. \A v \in finish_tasks : v # t => v.at = "asleep"
    BY <2>1 DEF ScheduleInv, OneConfirms
  <2>7. Appending = {t} /\ Appending' = {}
    BY <2>1, <2>6 DEF Appending
  <2>8. SavedTimes({t}, journal[u], console_times)
    BY <1>1, <2>1, <2>7 DEF JournalOf, u
  <2>9. \A h \in Heats : Latest(Append(journal[u], l), h, console_times[h])
    <3> SUFFICES ASSUME NEW h \in Heats
                 PROVE  Latest(Append(journal[u], l), h, console_times[h])
      OBVIOUS
    <3>1. Latest(Append(journal[u], l), h, console_times[h]) <=>
              IF l.heat = h THEN console_times[h] = l.swim
              ELSE Latest(journal[u], h, console_times[h])
      BY <2>2, <2>4, LatestAppended
    <3> QED
      BY <2>2, <2>8, <3>1 DEF SavedTimes
  <2> QED
    BY <2>1, <2>5, <2>7, <2>9 DEF SavedTimes, JournalOf, u
<1>5. CASE RequestStep
  <2>a. Appending' = Appending
    BY <1>0, <1>5, AppendingKept
  <2>1. CASE BeginLoad \/ BeginDelete \/ BeginClear \/ BeginNone
    BY <1>0, <1>c, <2>a, <2>1, BeginTyped
  <2>2. CASE \E export \in Uploads : BeginUpdate(export)
    BY <1>0, <1>c, <2>a, <2>2, UpdateTyped
  <2>3. CASE CheckUpdate \/ ReplaceFile
    BY <1>c, <2>a, <2>3 DEF CheckUpdate, ReplaceFile
  <2>4. CASE ParseFails \/ NameMeet
    BY <1>c, <2>a, <2>4 DEF ParseFails, NameMeet
  <2>5. CASE SwapMeet
    BY <1>0, <2>5, ToDoes DEF SwapMeet
  <2>6. CASE ReadTimes
    BY <1>0, <2>6 DEF ReadTimes, Requests
  <2>7. CASE AssignTimes
    <3>1. /\ Loading /\ request.at = "read" /\ console_times' = request.read
          /\ UNCHANGED <<meet, journal, finish_tasks>>
      BY <2>7 DEF AssignTimes
    <3>2. Appending = {}
      BY <3>1 DEF MeetInv, TasksInv, Undisturbed, Appending
    <3>3. SavedTimes({}, JournalOf(meet), request.read)
      BY <3>1 DEF ScheduleInv, ReadInv
    <3> QED
      BY <2>a, <3>1, <3>2, <3>3 DEF JournalOf
  <2>8. CASE DeleteFile
    <3>1. ~To("unload")
      BY <1>0, ToDoes
    <3> QED
      BY <1>c, <2>a, <2>8, <3>1 DEF DeleteFile
  <2>9. CASE ClearFiles
    BY <1>0, <2>9, ToDoes DEF ClearFiles
  <2>10. CASE ClearMeet \/ Unload
    BY <2>10 DEF ClearMeet, Unload
  <2> QED
    BY <1>5, <2>1, <2>2, <2>3, <2>4, <2>5, <2>6, <2>7, <2>8, <2>9, <2>10
    DEF RequestStep
<1>6. CASE ResetRace
  BY <1>6 DEF ResetRace, MeetInv, LoadedInv, LoadAt
<1>7. CASE PowerCut
  <2>1. Appending' = {}
    BY <1>7 DEF PowerCut, Appending
  <2>2. /\ journal' = journal
        /\ console_times' = IF UidOf(meet', None) = NoUid THEN NoTimes
                            ELSE Replay(journal'[UidOf(meet', None)])
    BY <1>7 DEF PowerCut, Ordinary
  <2>3. meet' \in Files /\ console_times' \in Times
    BY <1>0, <1>7, BootMeet
  <2>4. /\ UidOf(meet', None) = <<"name", meet'>>
        /\ UidOf(meet', None) \in Uids /\ UidOf(meet', None) # NoUid
    BY <2>3, NamedUid
  <2>5. SavedTimes({}, journal[UidOf(meet', None)], console_times')
    BY <1>0, <2>2, <2>3, <2>4, ReplaySaved
  <2> QED
    BY <2>1, <2>2, <2>4, <2>5 DEF JournalOf
<1> QED
  BY <1>2, <1>3, <1>4, <1>5, <1>6, <1>7, Steps

LEMMA ReadKept ==
    Ordinary /\ Named /\ MeetInv /\ ScheduleInv /\ MeetStep => ReadInv'
<1> SUFFICES ASSUME Ordinary, Named, MeetInv, ScheduleInv, MeetStep,
                    Loading', request'.at \in {"swapped", "read"}
             PROVE  /\ meet' # None
                    /\ request'.at = "read" => SavedTimes({}, JournalOf(meet)', request'.read)
  BY DEF ReadInv
<1> DEFINE Goal ==
        /\ meet' # None
        /\ request'.at = "read" => SavedTimes({}, JournalOf(meet)', request'.read)
<1>0. /\ FolderTypes /\ RaceTypes /\ ListTypes /\ RequestInv /\ request \in Requests
      /\ NoRequest.op = "none" /\ meet \in Files \cup {None}
      /\ {"checked", "begin", "cleared", "parse", "name", "unload", "swapped"} \subseteq Stages
  BY DEF MeetInv, MeetTypes, ListTypes, NoRequest, Stages
<1>c. ASSUME UNCHANGED <<meet, journal, request>> PROVE Goal
  BY <1>c DEF ScheduleInv, ReadInv, Loading, JournalOf
<1>1. CASE \/ Finish \/ NextHeat \/ Repeat \/ \E t \in finish_tasks : FinishTimeout(t)
           \/ UNCHANGED ofMeets
  BY <1>c, <1>1, RaceLeavesLists
<1>2. CASE \E t \in finish_tasks : KeepTimes(t) \/ AppendTimes(t)
  <2>1. UNCHANGED request /\ ~Undisturbed
    BY <1>2 DEF KeepTimes, AppendTimes, Undisturbed
  <2> QED
    BY <2>1 DEF Loading, MeetInv, TasksInv
<1>3. CASE BeginLoad \/ BeginDelete \/ BeginClear \/ BeginNone
  BY <1>0, <1>3, BeginTyped
<1>4. CASE \E export \in Uploads : BeginUpdate(export)
  BY <1>0, <1>4, UpdateTyped
<1>5. CASE CheckUpdate \/ ReplaceFile \/ ClearMeet \/ ResetRace \/ ParseFails
  <2>1. \/ To("checked") \/ To("begin") \/ To("cleared") \/ To("parse")
        \/ request' = NoRequest
    BY <1>5 DEF CheckUpdate, ReplaceFile, ClearMeet, ResetRace, ParseFails
  <2> QED
    BY <1>0, <2>1, ToDoes DEF Loading
<1>6. CASE SwapMeet
  <2>1. request'.at = "swapped"
    BY <1>0, <1>6, ToDoes DEF SwapMeet
  <2> QED
    BY <1>6, <2>1 DEF SwapMeet
<1>7. CASE ReadTimes
  <2>1. /\ Loading /\ request.at = "swapped" /\ UNCHANGED <<meet, journal>>
        /\ request' = [request EXCEPT !.at = "read", !.read = Saved(MeetUid)]
    BY <1>7 DEF ReadTimes
  <2>2. request'.read = Saved(MeetUid)
    BY <1>0, <2>1 DEF Requests
  <2>3. meet \in Files
    BY <1>0, <2>1 DEF ScheduleInv, ReadInv
  <2>4. MeetUid = <<"name", meet>> /\ MeetUid \in Uids /\ MeetUid # NoUid
    BY <2>3, NamedUid DEF MeetUid
  <2>5. Saved(MeetUid) \in Times
    BY <1>0, <2>4, SavedTyped
  <2>6. SavedTimes({}, JournalOf(meet), request'.read)
    BY <1>0, <2>2, <2>4, <2>5, ReplaySaved DEF Saved, JournalOf
  <2> QED
    BY <2>1, <2>3, <2>6, FilesAssumption DEF JournalOf
<1>8. CASE AssignTimes \/ NameMeet \/ Unload
  <2>1. request' = NoRequest \/ request'.at = "name"
    BY <1>0, <1>8 DEF AssignTimes, NameMeet, Unload, Requests
  <2> QED
    BY <1>0, <2>1 DEF Loading
<1>9. CASE DeleteFile \/ ClearFiles
  <2>1. request' = NoRequest \/ To("unload")
    BY <1>9 DEF DeleteFile, ClearFiles
  <2> QED
    BY <1>0, <2>1, ToDoes DEF Loading
<1>10. CASE PowerCut
  BY <1>0, <1>10, BootTyped DEF Loading
<1> QED
  BY <1>1, <1>2, <1>3, <1>4, <1>5, <1>6, <1>7, <1>8, <1>9, <1>10, Steps
  DEF RequestStep

LEMMA OfficialKept ==
    Ordinary /\ Named /\ MeetInv /\ ScheduleInv /\ MeetStep => OfficialInv'
<1> SUFFICES ASSUME Ordinary, Named, MeetInv, ScheduleInv, MeetStep,
                    meet' # None, ~ReloadAt({"begin"})'
             PROVE  results' = Results(content'[meet'])
  BY DEF OfficialInv
<1>0. /\ FolderTypes /\ RaceTypes /\ ListTypes /\ RequestInv /\ request \in Requests
      /\ NoRequest.op = "none"
      /\ {"checked", "begin", "parse", "read"} \subseteq Stages
      /\ \A f \in Files : content[f].of = f
  BY DEF MeetInv, MeetTypes, ListTypes, NoRequest, Stages, ContentInv, Named
<1>c. ASSUME UNCHANGED <<lists, content>>, ~ReloadAt({"begin"})
      PROVE  results' = Results(content'[meet'])
  BY <1>c DEF ScheduleInv, OfficialInv
<1>1. CASE \/ Finish \/ NextHeat \/ Repeat \/ \E t \in finish_tasks : FinishTimeout(t)
           \/ UNCHANGED ofMeets
  BY <1>c, <1>1, RaceLeavesLists DEF ReloadAt
<1>2. CASE \E t \in finish_tasks : KeepTimes(t) \/ AppendTimes(t)
  BY <1>c, <1>2 DEF KeepTimes, AppendTimes, ReloadAt
<1>3. CASE BeginLoad \/ BeginDelete \/ BeginClear \/ BeginNone
  BY <1>0, <1>3, <1>c, BeginTyped DEF ReloadAt
<1>4. CASE \E export \in Uploads : BeginUpdate(export)
  BY <1>0, <1>4, <1>c, UpdateTyped DEF ReloadAt
<1>5. CASE CheckUpdate
  BY <1>5, <1>c DEF CheckUpdate, ReloadAt
<1>6. CASE ReplaceFile
  <2>1. ReloadAt({"checked"})
    BY <1>0, <1>6, Underway DEF ReplaceFile
  <2>2. request'.op = request.op /\ request'.at = "begin"
    BY <1>0, <1>6, ToDoes DEF ReplaceFile
  <2> QED
    BY <2>1, <2>2 DEF ReloadAt
<1>7. CASE ClearMeet \/ Unload
  BY <1>7 DEF ClearMeet, Unload
<1>8. CASE ParseFails
  <2>1. request.op = "reload" => request.file \in Files
    BY <1>0 DEF RequestInv
  <2> QED
    BY <1>0, <1>8, <2>1, FilesAssumption DEF ParseFails
<1>9. CASE SwapMeet
  <2>1. request.file \in Files
    BY <1>0, <1>9 DEF SwapMeet, RequestInv
  <2> QED
    BY <1>0, <1>9, <2>1 DEF SwapMeet
<1>10. CASE ReadTimes \/ AssignTimes \/ NameMeet \/ ResetRace
  BY <1>10, <1>c DEF ReadTimes, AssignTimes, NameMeet, ResetRace, ReloadAt
<1>11. CASE DeleteFile \/ ClearFiles
  BY <1>11, <1>c DEF DeleteFile, ClearFiles, ReloadAt
<1>12. CASE PowerCut
  <2>1. PICK f \in files \cup {None} :
            /\ meet' = IF f = None THEN None ELSE content[f].of
            /\ results' = IF f = None THEN {} ELSE Results(content[f])
            /\ content' = content
    BY <1>12 DEF PowerCut
  <2> QED
    BY <1>0, <2>1 DEF FolderTypes
<1> QED
  BY <1>1, <1>2, <1>3, <1>4, <1>5, <1>6, <1>7, <1>8, <1>9, <1>10, <1>11, <1>12, Steps
  DEF RequestStep

LEMMA ScheduleKept ==
    Ordinary /\ Named /\ MeetInv /\ ScheduleInv /\ MeetStep => ScheduleInv'
<1>1. MeetInv => RaceTypes
  BY DEF MeetInv, MeetTypes
<1> QED
  BY <1>1, OneConfirmsKept, ShownKept, ReadKept, OfficialKept DEF ScheduleInv

LEMMA ScheduleMeans == Named /\ MeetInv /\ ScheduleInv => ScheduleIsSaved
<1> SUFFICES ASSUME Named, MeetInv, ScheduleInv, AtRest, active_meet_file # None, meet # None
             PROVE  /\ meet = active_meet_file
                    /\ Schedule(results, console_times) =
                          Schedule(Results(content[active_meet_file]), Saved(MeetUid))
  BY DEF ScheduleIsSaved
<1>1. /\ request.op = "none" /\ request.at = "idle" /\ Appending = {}
      /\ FolderTypes /\ console_times \in Times /\ active_meet_file \in Files
  BY DEF AtRest, NoRequest, Appending, MeetInv, MeetTypes, ListTypes
<1>2. meet = active_meet_file
  BY <1>1 DEF MeetInv, LoadedInv, LoadAt
<1>3. results = Results(content[active_meet_file])
  BY <1>1, <1>2 DEF ScheduleInv, OfficialInv, ReloadAt
<1>4. /\ MeetUid = <<"name", meet>> /\ MeetUid \in Uids /\ MeetUid # NoUid
  BY <1>1, <1>2, NamedUid DEF MeetUid
<1>5. console_times = Saved(MeetUid)
  BY <1>1, <1>4, ReplaySaved DEF ScheduleInv, ShownInv, JournalOf, Saved
<1> QED
  BY <1>2, <1>3, <1>5

-----------------------------------------------------------------------------
(* The Pi takes the meets' own steps.                                      *)

LEMMA PiSteps == [PiNext]_allVars => MeetStep
<1> SUFFICES ASSUME PiNext PROVE MeetStep
  BY DEF allVars, MeetStep
<1>1. CASE MeetSteps
  <2>1. Begins => Request
    BY DEF Begins, Request
  <2>2. ParseFailsPi => Request
    BY DEF ParseFailsPi, Request
  <2> QED
    BY <1>1, <2>1, <2>2 DEF MeetSteps, MeetStep, Next, Request
<1>2. CASE NameMeetPi \/ UnloadPi \/ AssignTimesPi
  BY <1>2 DEF NameMeetPi, UnloadPi, AssignTimesPi, MeetStep, Next, Request
<1>3. CASE Post
  <2>1. Posts => UNCHANGED ofMeets
    BY DEF Posts
  <2> QED
    BY <1>3, <2>1 DEF Post, PostField, PostConsole, PostLook, AddUser, SaveUser,
       DeleteUser, Account, SignIn, MeetStep
<1>4. CASE TV
  <2>1. Asks => UNCHANGED ofMeets
    BY DEF Asks
  <2> QED
    BY <1>4, <2>1 DEF TV, TVRegister, TVLost, TVForget, SendView, TVView, MeetStep
<1>5. CASE Saving \/ Restore
  BY <1>5 DEF Saving, WriteSave, EndSave, Restore, MeetStep
<1>6. CASE Restart
  BY <1>6 DEF Restart, MeetStep, Next
<1> QED
  BY <1>1, <1>2, <1>3, <1>4, <1>5, <1>6 DEF PiNext

LEMMA MeetsHold == Ordinary => (PiSpec => []MeetInv)
<1> SUFFICES ASSUME Ordinary PROVE PiSpec => []MeetInv
  OBVIOUS
<1>1. PiInit => MeetInv
  BY Initially DEF PiInit
<1>2. MeetInv /\ [PiNext]_allVars => MeetInv'
  BY PiSteps, MeetKept
<1> QED
  BY <1>1, <1>2, PTL DEF PiSpec

\* Whatever is loaded, updated, deleted or cut off, a race's times go to the
\* journal of the meet it was swum in and no other, and a page that joins is not
\* shown another meet's results (record_console_heat, _load_meet_file).
THEOREM TimesStay == Ordinary => (PiSpec => []TimesOfTheirMeet)
<1> SUFFICES ASSUME Ordinary PROVE PiSpec => []TimesOfTheirMeet
  OBVIOUS
<1> QED
  BY MeetsHold, MeetMeans, PTL

\* For meets that have a name, the Schedule shows what a restart would: the
\* official results of the meet's file and the times of its journal.
THEOREM ScheduleStays == Ordinary /\ Named => (PiSpec => []ScheduleIsSaved)
<1> SUFFICES ASSUME Ordinary, Named PROVE PiSpec => []ScheduleIsSaved
  OBVIOUS
<1>1. PiInit => ScheduleInv
  BY InitSchedule DEF PiInit
<1>2. MeetInv /\ ScheduleInv /\ [PiNext]_allVars => ScheduleInv'
  BY PiSteps, ScheduleKept
<1>3. MeetInv /\ ScheduleInv => ScheduleIsSaved
  BY ScheduleMeans
<1> QED
  BY <1>1, <1>2, <1>3, MeetsHold, PTL DEF PiSpec

-----------------------------------------------------------------------------
(* The settings: what a form may put in them.                              *)

\* A number below the least is kept only when it is posted twice.
Kept == IF "LowTwice" \in Beyond THEN Nat ELSE Nat \ {0}
Valid == SettingsOf(Kept)

IsSaver(s) ==
    s = [by |-> s.by, data |-> s.data, at |-> s.at, fd |-> s.fd, tell |-> s.tell,
         meant |-> s.meant, ended |-> s.ended]

IsSession(x) == x \in [user : Names, cred : Stamps]

TextInv ==
    /\ {settings, backup} \subseteq Valid
    /\ file \in Valid \cup {Empty, Mixed} /\ tmp \in Valid \cup {Empty, Mixed, None}
    /\ \A s \in savers : /\ IsSaver(s) /\ s.data \in Valid
                        /\ \A x \in s.ended : IsSession(x)
    /\ \A x \in sessions \cup ended : IsSession(x)
    /\ ops \in Nat

LEMMA KeptTyped == Kept \subseteq Nat /\ Least \in Kept /\ 2 \in Kept /\ Valid \subseteq SettingsOf(Nat)
BY DEF Kept, Least, Valid, SettingsOf

\* One part of the settings changed, the others as they were.
LEMMA PutField ==
    ASSUME NEW x \in Valid, NEW k \in Fields, NEW v \in Kept, NEW y,
           y = [x EXCEPT !.fields[k] = v]
    PROVE  /\ y \in Valid /\ y.look = x.look /\ y.profiles = x.profiles
           /\ y.owner = x.owner /\ y.users = x.users
           /\ y.console = x.console /\ y.displays = x.displays
BY DEF Valid, SettingsOf

LEMMA PutConsole ==
    ASSUME NEW x \in Valid, NEW c \in Consoles, NEW y, y = [x EXCEPT !.console = c]
    PROVE  /\ y \in Valid /\ y.look = x.look /\ y.profiles = x.profiles
           /\ y.owner = x.owner /\ y.users = x.users
           /\ y.console = c /\ y.displays = x.displays
BY DEF Valid, SettingsOf

LEMMA PutLast ==
    ASSUME NEW x \in Valid, NEW last \in Files \cup {None}, NEW y, y = [x EXCEPT !.last = last]
    PROVE  /\ y \in Valid /\ y.look = x.look /\ y.profiles = x.profiles
           /\ y.owner = x.owner /\ y.users = x.users
           /\ y.console = x.console /\ y.displays = x.displays
BY DEF Valid, SettingsOf

LEMMA PutUser ==
    ASSUME NEW x \in Valid, NEW n \in Names, NEW l \in Logins \cup {None}, NEW y,
           y = [x EXCEPT !.users[n] = l]
    PROVE  /\ y \in Valid /\ y.look = x.look /\ y.profiles = x.profiles
           /\ y.owner = x.owner /\ y.users = [x.users EXCEPT ![n] = l]
           /\ y.console = x.console /\ y.displays = x.displays
BY DEF Valid, SettingsOf

LEMMA PutOwner ==
    ASSUME NEW x \in Valid, NEW o \in [name : Names, hash : Nat], NEW y,
           y = [x EXCEPT !.owner = o]
    PROVE  /\ y \in Valid /\ y.look = x.look /\ y.profiles = x.profiles
           /\ y.owner = o /\ y.users = x.users
           /\ y.console = x.console /\ y.displays = x.displays
BY DEF Valid, SettingsOf

\* What a field's handler and the sweep leave is kept, and not below the least.
LEMMA SweptTyped ==
    ASSUME NEW k \in Fields, NEW before \in Kept, NEW raw \in Numbers,
           "LowTwice" \in Beyond \/ ~(raw < Least /\ before = Least)
    PROVE  Swept(k, before, Typed(k, before, raw), raw) \in Kept
<1>1. raw \in Nat /\ Least = 1
  BY DEF Numbers, Least
<1>2. CASE "LowTwice" \in Beyond
  BY <1>1, <1>2 DEF Kept, Swept, Typed
<1>3. CASE "LowTwice" \notin Beyond
  <2>1. before \in Nat /\ before >= 1 /\ Kept = Nat \ {0}
    BY <1>3 DEF Kept
  <2>2. k \in {"bounded", "checked"}
    BY DEF Fields
  <2> QED
    BY <1>1, <1>3, <2>1, <2>2 DEF Swept, Typed, NotSwept
<1> QED
  BY <1>2, <1>3

\* What a save's beginning, or a save made whole, leaves.
LEMMA StartDoes ==
    ASSUME NEW who, NEW new, NEW tell, NEW m, NEW e, StartSave(who, new, tell, m, e)
    PROVE  /\ Alone /\ settings' = new /\ file' = file /\ tmp' = Empty
           /\ \E s : /\ savers' = savers \cup {s} /\ IsSaver(s)
                     /\ s.by = who /\ s.data = new /\ s.at = "write" /\ s.fd = "tmp"
                     /\ s.tell = tell /\ s.meant = m /\ s.ended = e
<1> DEFINE s == [by |-> who, data |-> new, at |-> "write", fd |-> "tmp",
                 tell |-> tell, meant |-> m, ended |-> e]
<1>1. /\ IsSaver(s) /\ s.by = who /\ s.data = new /\ s.at = "write" /\ s.fd = "tmp"
      /\ s.tell = tell /\ s.meant = m /\ s.ended = e
  BY DEF IsSaver
<1>2. /\ Alone /\ settings' = new /\ file' = file /\ tmp' = Empty
      /\ savers' = savers \cup {s}
  BY DEF StartSave
<1> HIDE DEF s
<1> QED
  BY <1>1, <1>2

KeepsLooks(new) == new.look = settings.look /\ new.profiles = settings.profiles
KeepsLogins(new) == new.owner = settings.owner /\ new.users = settings.users
KeepsViews(new) == new.console = settings.console /\ new.displays = settings.displays

LEMMA SettingsTyped ==
    ASSUME NEW x \in Valid
    PROVE  /\ x.look \in Looks /\ x.profiles \in [Uids -> Looks \cup {None}]
           /\ x.fields \in [Fields -> Kept] /\ x.owner \in [name : Names, hash : Nat]
           /\ x.users \in [Names -> Logins \cup {None}]
           /\ x.displays \in [TVs -> Views \cup {None}] /\ x.console \in Consoles
BY DEF Valid, SettingsOf

\* What each form saves.
LEMMA FieldSaved ==
    ASSUME TextInv, NEW k \in Fields, NEW raw \in Numbers, PostField(k, raw)
    PROVE  \E new \in Valid :
               /\ StartSave("post", new, {}, meant, ended)
               /\ KeepsLooks(new) /\ KeepsLogins(new) /\ KeepsViews(new)
<1> DEFINE v == Swept(k, settings.fields[k], Typed(k, settings.fields[k], raw), raw)
           new == [settings EXCEPT !.fields[k] = v]
<1>1. settings \in Valid /\ settings.fields[k] \in Kept
  BY SettingsTyped DEF TextInv
<1>2. "LowTwice" \in Beyond \/ ~(raw < Least /\ settings.fields[k] = Least)
  BY DEF PostField
<1>3. v \in Kept
  BY <1>1, <1>2, SweptTyped
<1>4. StartSave("post", new, {}, meant, ended)
  BY DEF PostField
<1> HIDE DEF v
<1>5. new \in Valid /\ KeepsLooks(new) /\ KeepsLogins(new) /\ KeepsViews(new)
  BY <1>1, <1>3, PutField DEF KeepsLooks, KeepsLogins, KeepsViews
<1> QED
  BY <1>4, <1>5

LEMMA ConsoleSaved ==
    ASSUME TextInv, NEW c \in Consoles, PostConsole(c)
    PROVE  \E new \in Valid :
               /\ StartSave("post", new, {}, meant, ended)
               /\ KeepsLooks(new) /\ KeepsLogins(new)
               /\ new.displays = settings.displays
<1> DEFINE new == [settings EXCEPT !.console = c]
<1>1. settings \in Valid
  BY DEF TextInv
<1>2. StartSave("post", new, {}, meant, ended)
  BY DEF PostConsole
<1>3. new \in Valid /\ KeepsLooks(new) /\ KeepsLogins(new) /\ new.displays = settings.displays
  BY <1>1, PutConsole DEF KeepsLooks, KeepsLogins
<1> QED
  BY <1>2, <1>3

\* save_meet_profile is asked for the meet the page was shown for.
Asked(look, page) ==
    IF page = NoUid \/ active_meet_file = None THEN meant
    ELSE [meant EXCEPT ![page] = look]

LEMMA LookSaved ==
    ASSUME TextInv, NEW look \in Looks, NEW page \in Uids \cup {NoUid}, PostLook(look, page)
    PROVE  \E new \in Valid :
               /\ StartSave("post", new, {}, Asked(look, page), ended)
               /\ new.look = look
               /\ new.profiles = IF active_uid = NoUid THEN settings.profiles
                                 ELSE [settings.profiles EXCEPT ![active_uid] = look]
               /\ KeepsLogins(new) /\ KeepsViews(new)
<1> DEFINE p == IF active_uid = NoUid THEN settings.profiles
                ELSE [settings.profiles EXCEPT ![active_uid] = look]
           new == WithProfile(look)
<1>1. settings \in Valid /\ settings.profiles \in [Uids -> Looks \cup {None}]
  BY SettingsTyped DEF TextInv
<1>2. p \in [Uids -> Looks \cup {None}]
  BY <1>1
<1>3. new = [settings EXCEPT !.look = look, !.profiles = p]
  BY <1>1 DEF WithProfile, Valid, SettingsOf
<1> HIDE DEF new, p
<1>4. new \in Valid /\ new.look = look /\ new.profiles = p
      /\ KeepsLogins(new) /\ KeepsViews(new)
  <2>1. /\ new \in Valid /\ new.look = look /\ new.profiles = p
        /\ new.owner = settings.owner /\ new.users = settings.users
        /\ new.console = settings.console /\ new.displays = settings.displays
    BY <1>1, <1>2, <1>3 DEF Valid, SettingsOf
  <2> QED
    BY <2>1 DEF KeepsLogins, KeepsViews
<1> QED
  BY <1>4 DEF PostLook, p, new, Asked

LEMMA UserSaved ==
    ASSUME TextInv, NEW n \in Names,
           \/ \E roles \in Pages :
                 AddUser(n, roles) \/ \E pass \in BOOLEAN : SaveUser(n, roles, pass)
           \/ DeleteUser(n)
    PROVE  \E new \in Valid, l \in Logins \cup {None}, e \in {ended, ended \cup SessionsOf(n)} :
               /\ StartSave("post", new, {}, meant, e)
               /\ new.users = [settings.users EXCEPT ![n] = l] /\ new.owner = settings.owner
               /\ \/ /\ settings.users[n] = None /\ n # settings.owner.name
                     /\ l \in Logins /\ l.hash = Hash /\ e = ended
                  \/ /\ settings.users[n] # None /\ e = ended \cup SessionsOf(n)
                     /\ \/ l = None
                        \/ /\ l \in Logins /\ l.hash \in {Hash, settings.users[n].hash}
                           /\ NewLogin(n, <<"user", l>>)
               /\ KeepsLooks(new) /\ KeepsViews(new)
<1>1. settings \in Valid /\ settings.users \in [Names -> Logins \cup {None}] /\ Hash \in Nat
  BY SettingsTyped DEF TextInv, Hash
<1>2. ASSUME NEW l \in Logins \cup {None}
      PROVE  LET new == [settings EXCEPT !.users[n] = l]
             IN  /\ new \in Valid /\ new.users = [settings.users EXCEPT ![n] = l]
                 /\ new.owner = settings.owner /\ KeepsLooks(new) /\ KeepsViews(new)
                 /\ new.users[n] = l
  BY <1>1, PutUser DEF KeepsLooks, KeepsViews
<1>3. ASSUME NEW roles \in Pages, AddUser(n, roles)
      PROVE  \E new \in Valid, l \in Logins \cup {None}, e \in {ended, ended \cup SessionsOf(n)} :
                 /\ StartSave("post", new, {}, meant, e)
                 /\ new.users = [settings.users EXCEPT ![n] = l] /\ new.owner = settings.owner
                 /\ settings.users[n] = None /\ n # settings.owner.name
                 /\ l \in Logins /\ l.hash = Hash /\ e = ended
                 /\ KeepsLooks(new) /\ KeepsViews(new)
  <2> DEFINE l == [hash |-> Hash, roles |-> roles]
             new == [settings EXCEPT !.users[n] = l]
  <2>1. l \in Logins /\ l.hash = Hash
    BY <1>1 DEF Logins
  <2>2. /\ StartSave("post", new, {}, meant, ended)
        /\ settings.users[n] = None /\ n # settings.owner.name
    BY <1>3 DEF AddUser
  <2> HIDE DEF l
  <2> QED
    BY <1>2, <2>1, <2>2
<1>4. ASSUME NEW roles \in Pages, NEW pass \in BOOLEAN, SaveUser(n, roles, pass)
      PROVE  \E new \in Valid, l \in Logins \cup {None}, e \in {ended, ended \cup SessionsOf(n)} :
                 /\ StartSave("post", new, {}, meant, e)
                 /\ new.users = [settings.users EXCEPT ![n] = l] /\ new.owner = settings.owner
                 /\ settings.users[n] # None /\ e = ended \cup SessionsOf(n)
                 /\ l \in Logins /\ l.hash \in {Hash, settings.users[n].hash}
                 /\ NewLogin(n, <<"user", l>>)
                 /\ KeepsLooks(new) /\ KeepsViews(new)
  <2> DEFINE l == [hash |-> IF pass THEN Hash ELSE settings.users[n].hash, roles |-> roles]
             new == [settings EXCEPT !.users[n] = l]
  <2>1. settings.users[n] \in Logins
    BY <1>1, <1>4 DEF SaveUser
  <2>2. settings.users[n].hash \in Nat
    BY <2>1 DEF Logins
  <2>3. l \in Logins /\ l.hash \in {Hash, settings.users[n].hash}
    BY <1>1, <2>2 DEF Logins
  <2>4. /\ StartSave("post", new, {}, meant, ended \cup SessionsOf(n))
        /\ settings.users[n] # None /\ NewLogin(n, <<"user", new.users[n]>>)
    BY <1>4 DEF SaveUser
  <2> HIDE DEF l
  <2> QED
    BY <1>2, <2>3, <2>4
<1>5. ASSUME DeleteUser(n)
      PROVE  \E new \in Valid, e \in {ended, ended \cup SessionsOf(n)} :
                 /\ StartSave("post", new, {}, meant, e)
                 /\ new.users = [settings.users EXCEPT ![n] = None]
                 /\ new.owner = settings.owner
                 /\ settings.users[n] # None /\ e = ended \cup SessionsOf(n)
                 /\ KeepsLooks(new) /\ KeepsViews(new)
  <2>1. /\ StartSave("post", [settings EXCEPT !.users[n] = None], {}, meant,
                     ended \cup SessionsOf(n))
        /\ settings.users[n] # None
    BY <1>5 DEF DeleteUser
  <2> QED
    BY <1>2, <2>1
<1> QED
  BY <1>3, <1>4, <1>5

LEMMA LoginTyped ==
    ASSUME NEW l \in Logins, NEW h \in Nat
    PROVE  l.hash \in Nat /\ [l EXCEPT !.hash = h] \in Logins /\ [l EXCEPT !.hash = h].hash = h
BY DEF Logins

LEMMA AccountSaved ==
    ASSUME TextInv, NEW s \in sessions, NEW name \in Names, NEW pass \in BOOLEAN,
           Account(s, name, pass)
    PROVE  \E new \in Valid, cred \in Stamps :
               /\ StartSave("post", new, {}, meant, ended \cup SessionsOf(s.user))
               /\ SignedIn(s) /\ NewLogin(name, cred)
               /\ sessions' = (sessions \ {s}) \cup {[user |-> name, cred |-> cred]}
               /\ \/ /\ s.user = settings.owner.name /\ new.users = settings.users
                     /\ name = s.user \/ settings.users[name] = None
                     /\ new.owner.name = name /\ cred = <<"owner", new.owner>>
                     /\ new.owner.hash \in {settings.owner.hash, Hash}
                  \/ /\ s.user # settings.owner.name /\ new.owner = settings.owner
                     /\ name = s.user /\ settings.users[name] # None
                     /\ \E l \in Logins :
                           /\ new.users = [settings.users EXCEPT ![name] = l]
                           /\ cred = <<"user", l>> /\ l.hash = Hash
               /\ KeepsLooks(new) /\ KeepsViews(new)
<1>1. /\ settings \in Valid /\ settings.users \in [Names -> Logins \cup {None}]
      /\ settings.owner \in [name : Names, hash : Nat] /\ Hash \in Nat
      /\ s.user \in Names
  BY SettingsTyped DEF TextInv, Hash, IsSession
<1>2. /\ SignedIn(s) /\ IsAdmin(s.user)
      /\ name = s.user \/ (s.user = settings.owner.name /\ settings.users[name] = None)
  BY DEF Account
<1>3. CASE s.user = settings.owner.name
  <2> DEFINE o == [name |-> name, hash |-> IF pass THEN Hash ELSE settings.owner.hash]
             new == [settings EXCEPT !.owner = o]
  <2>1. o \in [name : Names, hash : Nat] /\ o.name = name
        /\ o.hash \in {settings.owner.hash, Hash}
    BY <1>1
  <2>2. /\ StartSave("post", new, {}, meant, ended \cup SessionsOf(s.user))
        /\ NewLogin(name, <<"owner", new.owner>>)
        /\ sessions' = (sessions \ {s}) \cup
                          {[user |-> name, cred |-> <<"owner", new.owner>>]}
    BY <1>3 DEF Account
  <2> HIDE DEF o
  <2>3. /\ new \in Valid /\ new.users = settings.users /\ new.owner = o
        /\ KeepsLooks(new) /\ KeepsViews(new)
    BY <1>1, <2>1, PutOwner DEF KeepsLooks, KeepsViews
  <2>4. <<"owner", new.owner>> \in Stamps
    BY <2>1, <2>3 DEF Stamps
  <2> HIDE DEF new
  <2> QED
    BY <1>2, <1>3, <2>1, <2>2, <2>3, <2>4
<1>4. CASE s.user # settings.owner.name
  <2> DEFINE l == [settings.users[s.user] EXCEPT !.hash = Hash]
             new == [settings EXCEPT !.users[s.user] = l]
  <2>1. settings.users[s.user] \in Logins /\ name = s.user
    BY <1>1, <1>2, <1>4 DEF IsAdmin
  <2>2. l \in Logins /\ l.hash = Hash
    BY <1>1, <2>1, LoginTyped
  <2>3. [settings EXCEPT !.users[s.user].hash = Hash] = new
    BY <1>1 DEF Valid, SettingsOf
  <2>4. /\ StartSave("post", new, {}, meant, ended \cup SessionsOf(s.user))
        /\ NewLogin(name, <<"user", new.users[s.user]>>)
        /\ sessions' = (sessions \ {s}) \cup
                          {[user |-> name, cred |-> <<"user", new.users[s.user]>>]}
    BY <1>4, <2>3 DEF Account
  <2> HIDE DEF l
  <2>5. /\ new \in Valid /\ new.users = [settings.users EXCEPT ![s.user] = l]
        /\ new.owner = settings.owner /\ KeepsLooks(new) /\ KeepsViews(new)
    BY <1>1, <2>2, PutUser DEF KeepsLooks, KeepsViews
  <2>6. new.users[s.user] = l /\ settings.users[name] # None
    BY <1>1, <2>1, <2>5, NoneAssumption
  <2>7. <<"user", l>> \in Stamps
    BY <2>2 DEF Stamps
  <2> HIDE DEF new
  <2> QED
    BY <1>2, <1>4, <2>1, <2>2, <2>4, <2>5, <2>6, <2>7
<1> QED
  BY <1>3, <1>4

\* What the event loop saves.
Loops(d) == TVRegister(d) \/ TVForget(d) \/ \E v \in Views : TVView(d, v)

LEMMA ViewSaved ==
    ASSUME TextInv, NEW d \in TVs, Loops(d)
    PROVE  \/ /\ settings.displays[d] # None
              /\ told' = [told EXCEPT ![d] = Frame(d)]
              /\ UNCHANGED <<settings, onDisk>>
           \/ \E tell : \E new \in Valid, v \in Views \cup {None} :
                 /\ StartSave(d, new, tell, meant, ended)
                 /\ new.displays = [settings.displays EXCEPT ![d] = v]
                 /\ told' = told
                 /\ \/ v = None /\ told[d] = None
                    \/ v \in Views /\ (tell = {d} \/ (tell = {} /\ told[d] = None))
                 /\ new.console = settings.console
                 /\ KeepsLooks(new) /\ KeepsLogins(new)
<1>1. settings \in Valid
  BY DEF TextInv
<1>2. ASSUME NEW v \in Views \cup {None}
      PROVE  LET new == [settings EXCEPT !.displays[d] = v]
             IN  /\ new \in Valid /\ new.displays = [settings.displays EXCEPT ![d] = v]
                 /\ new.console = settings.console
                 /\ KeepsLooks(new) /\ KeepsLogins(new)
  <2> DEFINE new == [settings EXCEPT !.displays[d] = v]
  <2>1. /\ new \in Valid /\ new.look = settings.look /\ new.profiles = settings.profiles
        /\ new.owner = settings.owner /\ new.users = settings.users
        /\ new.console = settings.console
        /\ new.displays = [settings.displays EXCEPT ![d] = v]
    BY <1>1 DEF Valid, SettingsOf
  <2> HIDE DEF new
  <2>2. KeepsLooks(new) /\ KeepsLogins(new)
    BY <2>1 DEF KeepsLooks, KeepsLogins
  <2> QED
    BY <2>1, <2>2 DEF new
<1>3. CASE TVRegister(d)
  <2>1. CASE settings.displays[d] # None
    BY <1>3, <2>1 DEF TVRegister
  <2>2. CASE settings.displays[d] = None
    <3>1. /\ StartSave(d, [settings EXCEPT !.displays[d] = "live"], {d}, meant, ended)
          /\ told' = told
      BY <1>3, <2>2 DEF TVRegister
    <3>2. "live" \in Views
      BY DEF Views
    <3> QED
      BY <1>2, <3>1, <3>2
  <2> QED
    BY <2>1, <2>2
<1>4. CASE TVForget(d)
  <2>1. /\ StartSave(d, [settings EXCEPT !.displays[d] = None], {}, meant, ended)
        /\ told' = told /\ told[d] = None
    BY <1>4 DEF TVForget, Asks, onTVs
  <2> QED
    BY <1>2, <2>1
<1>5. ASSUME NEW v \in Views, TVView(d, v)
      PROVE  \E tell : \E new \in Valid :
                 /\ StartSave(d, new, tell, meant, ended)
                 /\ new.displays = [settings.displays EXCEPT ![d] = v]
                 /\ told' = told
                 /\ tell = {d} \/ (tell = {} /\ told[d] = None)
                 /\ new.console = settings.console
                 /\ KeepsLooks(new) /\ KeepsLogins(new)
  <2>1. /\ StartSave(d, [settings EXCEPT !.displays[d] = v],
                     IF told[d] = None THEN {} ELSE {d}, meant, ended)
        /\ told' = told
    BY <1>5 DEF TVView, Asks, onTVs
  <2> QED
    BY <1>2, <2>1
<1> QED
  BY <1>3, <1>4, <1>5 DEF Loops

\* The meet that is named, and the one that is put away.
LEMMA MeetShown ==
    ASSUME TextInv, MeetInv, NameMeetPi
    PROVE  \E new \in Valid, look \in Looks, uid \in Uids :
               /\ SavedAs(new) /\ active_uid' = uid /\ uid = UidOf(meet, request.file)
               /\ look = IF settings.profiles[uid] = None THEN settings.look
                         ELSE settings.profiles[uid]
               /\ new.look = look
               /\ new.profiles = [settings.profiles EXCEPT ![uid] = look]
               /\ meant' = [meant EXCEPT ![uid] = IF @ = None THEN look ELSE @]
               /\ KeepsLogins(new) /\ KeepsViews(new)
<1> DEFINE uid == UidOf(meet, request.file)
           look == IF settings.profiles[uid] = None THEN settings.look
                   ELSE settings.profiles[uid]
           p == [settings.profiles EXCEPT ![uid] = look]
           new == [settings EXCEPT !.last = request.file, !.look = look,
                       !.profiles[uid] = look]
<1>1. settings \in Valid /\ settings.profiles \in [Uids -> Looks \cup {None}]
      /\ settings.look \in Looks
  BY SettingsTyped DEF TextInv
<1>2. request.file \in Files /\ meet = request.file
  BY DEF NameMeetPi, NameMeet, MeetInv, LoadedInv, RequestInv, LoadAt
<1>3. uid \in Uids
  BY <1>2, UidTyped, FilesAssumption
<1>4. /\ SavedAs(new) /\ active_uid' = uid
      /\ meant' = [meant EXCEPT ![uid] = IF @ = None THEN look ELSE @]
  BY DEF NameMeetPi
<1> HIDE DEF uid
<1>5. look \in Looks
  BY <1>1, <1>3
<1> HIDE DEF look
<1>6. p \in [Uids -> Looks \cup {None}]
  BY <1>1, <1>5
<1>7. new = [settings EXCEPT !.last = request.file, !.look = look, !.profiles = p]
  BY <1>1 DEF Valid, SettingsOf
<1> HIDE DEF new
<1> HIDE DEF p
<1>8. /\ new \in Valid /\ new.look = look /\ new.profiles = p
      /\ new.owner = settings.owner /\ new.users = settings.users
      /\ new.console = settings.console /\ new.displays = settings.displays
  BY <1>1, <1>2, <1>5, <1>6, <1>7 DEF Valid, SettingsOf
<1>9. KeepsLogins(new) /\ KeepsViews(new)
  BY <1>8 DEF KeepsLogins, KeepsViews
<1> QED
  BY <1>3, <1>4, <1>5, <1>8, <1>9 DEF look, p, uid

LEMMA MeetPutAway ==
    ASSUME TextInv, UnloadPi
    PROVE  \E new \in Valid :
               /\ SavedAs(new) /\ KeepsLooks(new) /\ KeepsLogins(new) /\ KeepsViews(new)
<1>1. settings \in Valid /\ SavedAs([settings EXCEPT !.last = None])
  BY DEF TextInv, UnloadPi
<1> QED
  BY <1>1, PutLast DEF KeepsLooks, KeepsLogins, KeepsViews

\* What the posts leave alone, and what every save's beginning does.
Left == <<active_meet_file, request, active_uid, told, backups, history>>

LEMMA PostLeaves ==
    Post => \/ \E n \in Names : SignIn(n)
            \/ /\ request = NoRequest /\ ops' = ops + 1 /\ UNCHANGED Left
               /\ \A s \in savers : s.by # "post"
<1>1. Posts => /\ request = NoRequest /\ ops' = ops + 1 /\ UNCHANGED Left
               /\ \A s \in savers : s.by # "post"
  BY DEF Posts, Left
<1>2. ASSUME Post, ~ \E n \in Names : SignIn(n) PROVE Posts
  <2>1. ASSUME NEW n \in Names, NEW roles \in Pages,
               AddUser(n, roles) \/ \E pass \in BOOLEAN : SaveUser(n, roles, pass)
        PROVE  Posts
    BY <2>1 DEF AddUser, SaveUser
  <2>2. ASSUME NEW s \in sessions, NEW name \in Names, NEW pass \in BOOLEAN,
               Account(s, name, pass)
        PROVE  Posts
    BY <2>2 DEF Account
  <2>3. ASSUME NEW n \in Names, DeleteUser(n) PROVE Posts
    BY <2>3 DEF DeleteUser
  <2>4. ASSUME \/ \E k \in Fields, raw \in Numbers : PostField(k, raw)
               \/ \E c \in Consoles : PostConsole(c)
               \/ \E look \in Looks, page \in Uids \cup {NoUid} : PostLook(look, page)
        PROVE  Posts
    BY <2>4 DEF PostField, PostConsole, PostLook
  <2> QED
    BY <1>2, <2>1, <2>2, <2>3, <2>4 DEF Post
<1> QED
  BY <1>1, <1>2

LEMMA OpsKept == ops \in Nat /\ [PiNext]_allVars => ops' \in {ops, ops + 1}
<1> SUFFICES ASSUME ops \in Nat, PiNext PROVE ops' \in {ops, ops + 1}
  BY DEF allVars
<1>1. CASE MeetSteps
  <2>1. CASE Worker \/ Debounce
    BY <2>1 DEF Worker, Debounce, Finish, NextHeat, Repeat, FinishTimeout, KeepTimes, AppendTimes
  <2>2. CASE Begins
    BY <2>2 DEF Begins, BeginLoad, BeginDelete, BeginClear, BeginNone, BeginUpdate, Begin
  <2>3. CASE ClearMeet \/ ResetRace \/ ParseFailsPi \/ CheckUpdate \/ ReplaceFile
    BY <2>3 DEF ClearMeet, ResetRace, ParseFailsPi, ParseFails, CheckUpdate, ReplaceFile
  <2>4. CASE \/ \E export \in Exports : OtherUpload(export)
             \/ SwapMeet \/ ReadTimes \/ DeleteFile \/ ClearFiles
    BY <2>4 DEF OtherUpload, SwapMeet, ReadTimes, DeleteFile, ClearFiles
  <2> QED
    BY <1>1, <2>1, <2>2, <2>3, <2>4 DEF MeetSteps
<1>2. CASE NameMeetPi \/ UnloadPi \/ AssignTimesPi
  BY <1>2 DEF NameMeetPi, UnloadPi, AssignTimesPi, NameMeet, Unload, AssignTimes
<1>3. CASE Post
  BY <1>3, PostLeaves DEF SignIn
<1>4. CASE TV
  BY <1>4 DEF TV, TVRegister, TVLost, TVForget, SendView, TVView, Asks
<1>5. CASE Saving \/ Restore
  BY <1>5 DEF Saving, WriteSave, EndSave, Restore
<1>6. CASE Restart
  BY <1>6 DEF Restart, PowerCut
<1> QED
  BY <1>1, <1>2, <1>3, <1>4, <1>5, <1>6 DEF PiNext

LEMMA StartKeeps ==
    ASSUME TextInv, NEW who, NEW new \in Valid, NEW tell, NEW m, NEW e,
           StartSave(who, new, tell, m, e), \A x \in e : IsSession(x),
           \A x \in sessions' : IsSession(x),
           UNCHANGED <<backup, ended>>, ops' \in Nat
    PROVE  TextInv'
<1>1. PICK s : /\ savers' = savers \cup {s} /\ IsSaver(s) /\ s.data = new /\ s.ended = e
  BY StartDoes
<1>2. settings' = new /\ file' = file /\ tmp' = Empty
  BY StartDoes
<1>3. \A o \in savers' : /\ IsSaver(o) /\ o.data \in Valid
                         /\ \A x \in o.ended : IsSession(x)
  BY <1>1 DEF TextInv
<1> QED
  BY <1>2, <1>3 DEF TextInv

LEMMA SaverTyped ==
    ASSUME NEW s, IsSaver(s), NEW to
    PROVE  /\ LET a == [s EXCEPT !.at = to]
              IN  /\ IsSaver(a) /\ a.by = s.by /\ a.data = s.data /\ a.at = to /\ a.fd = s.fd
                  /\ a.tell = s.tell /\ a.meant = s.meant /\ a.ended = s.ended
           /\ LET a == [s EXCEPT !.fd = to]
              IN  /\ IsSaver(a) /\ a.by = s.by /\ a.data = s.data /\ a.at = s.at /\ a.fd = to
                  /\ a.tell = s.tell /\ a.meant = s.meant /\ a.ended = s.ended
BY DEF IsSaver

LEMMA WriteDoes ==
    ASSUME NEW s \in savers, IsSaver(s), WriteSave(s)
    PROVE  \E a : /\ savers' = (savers \ {s}) \cup {a} /\ IsSaver(a) /\ a.at = "replace"
                  /\ a.by = s.by /\ a.data = s.data /\ a.fd = s.fd /\ a.tell = s.tell
                  /\ a.meant = s.meant /\ a.ended = s.ended
<1> DEFINE a == [s EXCEPT !.at = "replace"]
<1>1. savers' = (savers \ {s}) \cup {a}
  BY DEF WriteSave
<1>2. /\ IsSaver(a) /\ a.at = "replace"
      /\ a.by = s.by /\ a.data = s.data /\ a.fd = s.fd /\ a.tell = s.tell
      /\ a.meant = s.meant /\ a.ended = s.ended
  BY SaverTyped
<1> HIDE DEF a
<1> QED
  BY <1>1, <1>2

LEMMA SaveKeeps ==
    ASSUME TextInv, NEW s \in savers, WriteSave(s) \/ EndSave(s), ops' \in Nat
    PROVE  TextInv'
<1>1. /\ IsSaver(s) /\ s.data \in Valid /\ \A x \in s.ended : IsSession(x)
  BY DEF TextInv
<1>2. CASE WriteSave(s)
  <2>1. PICK a : /\ savers' = (savers \ {s}) \cup {a} /\ IsSaver(a)
                 /\ a.data = s.data /\ a.ended = s.ended
    BY <1>1, <1>2, WriteDoes
  <2>2. \A o \in savers' : /\ IsSaver(o) /\ o.data \in Valid
                           /\ \A x \in o.ended : IsSession(x)
    BY <1>1, <2>1 DEF TextInv
  <2>3. UNCHANGED <<settings, backups, sessions, history>>
    BY <1>2 DEF WriteSave
  <2>4. /\ file' \in {file, s.data, Mixed} /\ tmp' \in {tmp, s.data, Mixed}
    BY <1>2 DEF WriteSave, Over
  <2> QED
    BY <1>1, <2>2, <2>3, <2>4 DEF TextInv, backups, history
<1>3. CASE EndSave(s)
  <2>1. UNCHANGED <<settings, backups, sessions>>
    BY <1>3 DEF EndSave
  <2>2. CASE tmp = None
    <3>1. savers' = savers \ {s} /\ UNCHANGED <<file, tmp, history>>
      BY <1>3, <2>2 DEF EndSave
    <3> QED
      BY <2>1, <3>1 DEF TextInv, backups, history
  <2>3. CASE tmp # None
    <3>1. /\ file' = tmp /\ tmp' = None /\ ended' = s.ended
          /\ savers' = {[o EXCEPT !.fd = IF @ = "tmp" THEN "file" ELSE "gone"] :
                            o \in savers \ {s}}
      BY <1>3, <2>3 DEF EndSave
    <3>2. \A a \in savers' : /\ IsSaver(a) /\ a.data \in Valid
                             /\ \A x \in a.ended : IsSession(x)
      <4> TAKE a \in savers'
      <4>1. PICK o \in savers : a = [o EXCEPT !.fd = IF @ = "tmp" THEN "file" ELSE "gone"]
        BY <3>1
      <4>2. IsSaver(o) /\ o.data \in Valid /\ \A x \in o.ended : IsSession(x)
        BY DEF TextInv
      <4>3. IsSaver(a) /\ a.data = o.data /\ a.ended = o.ended
        BY <4>1, <4>2 DEF IsSaver
      <4> QED
        BY <4>2, <4>3
    <3> QED
      BY <1>1, <2>1, <2>3, <3>1, <3>2 DEF TextInv, backups
  <2> QED
    BY <2>2, <2>3
<1> QED
  BY <1>2, <1>3

\* Steps that save nothing.
Still ==
    \/ MeetSteps \/ AssignTimesPi
    \/ \E d \in TVs : TVLost(d) \/ SendView(d)

LEMMA StillLeaves ==
    Still => UNCHANGED <<settings, onDisk, active_uid, sessions, backups, history>>
BY DEF Still, MeetSteps, AssignTimesPi, TVLost, SendView, piVars

LEMMA SignInTyped ==
    ASSUME TextInv, NEW n \in Names, Credential(n) # None
    PROVE  Credential(n) \in Stamps
<1>1. settings.owner \in [name : Names, hash : Nat]
      /\ settings.users \in [Names -> Logins \cup {None}]
  BY SettingsTyped DEF TextInv
<1>2. settings.users[n] \in Logins \cup {None}
  BY <1>1
<1> QED
  BY <1>1, <1>2 DEF Credential, Stamps

LEMMA InitText == PiInit => TextInv
<1> SUFFICES ASSUME PiInit PROVE TextInv
  OBVIOUS
<1>1. PICK look \in Looks, own \in Looks, f \in Lenex : settings = Before(look, f, own)
  BY DEF PiInit
<1> DEFINE x == Before(look, f, own)
           p == [u \in Uids |-> IF u = UidOf(f, None) THEN own ELSE None]
           us == [n \in Names |-> IF n = First THEN None ELSE [hash |-> 0, roles |-> {"mm"}]]
           ds == [d \in TVs |-> None]
           fs == [k \in Fields |-> 2]
<1>2. /\ p \in [Uids -> Looks \cup {None}]
      /\ ds \in [TVs -> Views \cup {None}]
  OBVIOUS
<1>3. us \in [Names -> Logins \cup {None}]
  <2>1. [hash |-> 0, roles |-> {"mm"}] \in Logins
    BY DEF Logins, Pages
  <2> QED
    BY <2>1
<1>4. fs \in [Fields -> Kept]
  BY KeptTyped
<1>5. [name |-> First, hash |-> 0] \in [name : Names, hash : Nat]
  BY NamesAssumption
<1>6. "timed" \in Consoles
  BY DEF Consoles
<1>7. x = [look |-> look, profiles |-> p, console |-> "timed", fields |-> fs,
           owner |-> [name |-> First, hash |-> 0], users |-> us, displays |-> ds,
           last |-> None]
  BY DEF Before
<1> HIDE DEF x, p, us, ds, fs
<1>8. x \in Valid
  BY <1>2, <1>3, <1>4, <1>5, <1>6, <1>7 DEF Valid, SettingsOf
<1>9. settings \in Valid
  BY <1>1, <1>8 DEF x
<1>10. \A n \in Names : Credential(n) # None
  <2> TAKE n \in Names
  <2>1. settings.owner = [name |-> First, hash |-> 0] /\ settings.users = us
    BY <1>1, <1>7 DEF x
  <2>2. settings.owner.name = First /\ (n # First => settings.users[n] # None)
    <3>1. [hash |-> 0, roles |-> {"mm"}] \in Logins
      BY DEF Logins, Pages
    <3>2. n # First => us[n] = [hash |-> 0, roles |-> {"mm"}]
      BY DEF us
    <3>3. None \notin Logins
      BY NoneAssumption
    <3>4. settings.owner.name = First
      BY <2>1
    <3> QED
      BY <2>1, <3>1, <3>2, <3>3, <3>4
  <2>3. settings.users[n] # None => <<"user", settings.users[n]>> \in Stamps
    BY <1>9, SettingsTyped DEF Stamps
  <2>4. <<"owner", settings.owner>> \in Stamps
    BY <1>9, SettingsTyped DEF Stamps
  <2> QED
    BY <2>2, <2>3, <2>4, NoneAssumption DEF Credential
<1>11. /\ file = settings /\ backup = settings /\ tmp = None /\ savers = {}
       /\ sessions = {[user |-> n, cred |-> Credential(n)] : n \in Names}
       /\ ended = {} /\ ops = 0
  BY DEF PiInit, Init
<1>12. \A n \in Names : Credential(n) \in Stamps
  <2> TAKE n \in Names
  <2>1. settings.owner \in [name : Names, hash : Nat]
        /\ settings.users[n] \in Logins \cup {None}
    BY <1>9, SettingsTyped
  <2> QED
    BY <1>10, <2>1 DEF Credential, Stamps
<1>13. \A s \in sessions : IsSession(s)
  BY <1>11, <1>12 DEF IsSession
<1> QED
  BY <1>9, <1>11, <1>13 DEF TextInv

LEMMA TextKept == Ordinary /\ MeetInv /\ TextInv /\ [PiNext]_allVars => TextInv'
<1> SUFFICES ASSUME Ordinary, MeetInv, TextInv, [PiNext]_allVars PROVE TextInv'
  OBVIOUS
<1>ops. ops' \in Nat
  BY OpsKept DEF TextInv
<1>1. CASE Still \/ UNCHANGED allVars
  <2>1. UNCHANGED <<settings, onDisk, sessions, backups, history>>
    BY <1>1, StillLeaves DEF allVars, piVars
  <2> QED
    BY <1>ops, <2>1 DEF TextInv, onDisk, backups, history
<1>2. ASSUME NEW n \in Names, SignIn(n) PROVE TextInv'
  <2>1. /\ Credential(n) # None /\ UNCHANGED <<settings, onDisk, backups, history>>
        /\ sessions' = sessions \cup {[user |-> n, cred |-> Credential(n)]}
    BY <1>2 DEF SignIn
  <2>2. Credential(n) \in Stamps
    BY <2>1, SignInTyped
  <2>3. \A x \in sessions' : IsSession(x)
    BY <2>1, <2>2 DEF IsSession, TextInv
  <2> QED
    BY <1>ops, <2>1, <2>3 DEF TextInv, onDisk, backups, history
<1>3. ASSUME NEW new \in Valid, NEW who, NEW tell, NEW m, NEW e,
             StartSave(who, new, tell, m, e), e \subseteq ended \cup sessions,
             UNCHANGED <<sessions, backup, ended>>
      PROVE  TextInv'
  <2>1. (\A x \in e : IsSession(x)) /\ \A x \in sessions' : IsSession(x)
    BY <1>3 DEF TextInv
  <2> QED
    BY <1>ops, <1>3, <2>1, StartKeeps
<1>4. CASE Post
  <2> SUFFICES ASSUME UNCHANGED <<backup, ended>> PROVE TextInv'
    BY <1>2, <1>4, PostLeaves DEF Left, backups, history
  <2>1. ASSUME NEW k \in Fields, NEW raw \in Numbers, PostField(k, raw) PROVE TextInv'
    <3>1. UNCHANGED sessions
      BY <2>1 DEF PostField
    <3> QED
      BY <1>3, <2>1, <3>1, FieldSaved
  <2>2. ASSUME NEW c \in Consoles, PostConsole(c) PROVE TextInv'
    <3>1. UNCHANGED sessions
      BY <2>2 DEF PostConsole
    <3> QED
      BY <1>3, <2>2, <3>1, ConsoleSaved
  <2>3. ASSUME NEW look \in Looks, NEW page \in Uids \cup {NoUid}, PostLook(look, page)
        PROVE  TextInv'
    <3>1. UNCHANGED sessions
      BY <2>3 DEF PostLook
    <3>2. PICK new \in Valid : StartSave("post", new, {}, Asked(look, page), ended)
      BY <2>3, LookSaved
    <3> QED
      BY <1>3, <3>1, <3>2
  <2>4. ASSUME NEW n \in Names,
               \/ \E roles \in Pages :
                     AddUser(n, roles) \/ \E pass \in BOOLEAN : SaveUser(n, roles, pass)
               \/ DeleteUser(n)
        PROVE  TextInv'
    <3>1. UNCHANGED sessions
      BY <2>4 DEF AddUser, SaveUser, DeleteUser
    <3>2. PICK new \in Valid, e \in {ended, ended \cup SessionsOf(n)} :
             StartSave("post", new, {}, meant, e)
      BY <2>4, UserSaved
    <3>3. e \subseteq ended \cup sessions
      BY <3>2 DEF SessionsOf
    <3> QED
      BY <1>3, <3>1, <3>2, <3>3
  <2>5. ASSUME NEW s \in sessions, NEW name \in Names, NEW pass \in BOOLEAN,
               Account(s, name, pass)
        PROVE  TextInv'
    <3>1. PICK new \in Valid, cred \in Stamps :
             /\ StartSave("post", new, {}, meant, ended \cup SessionsOf(s.user))
             /\ sessions' = (sessions \ {s}) \cup {[user |-> name, cred |-> cred]}
      BY <2>5, AccountSaved
    <3>2. \A x \in sessions' : IsSession(x)
      BY <3>1 DEF TextInv, IsSession
    <3>3. \A x \in ended \cup SessionsOf(s.user) : IsSession(x)
      BY DEF TextInv, SessionsOf
    <3> QED
      BY <1>ops, <3>1, <3>2, <3>3, StartKeeps
  <2> QED
    BY <1>2, <1>4, <2>1, <2>2, <2>3, <2>4, <2>5 DEF Post
<1>5. ASSUME NEW d \in TVs, Loops(d) PROVE TextInv'
  <2>1. UNCHANGED <<sessions, backup, ended>>
    BY <1>5 DEF Loops, TVRegister, TVForget, TVView, Asks, backups, history
  <2>2. CASE UNCHANGED <<settings, onDisk>>
    BY <1>ops, <2>1, <2>2 DEF TextInv, onDisk
  <2>3. ASSUME NEW new \in Valid, NEW tell, StartSave(d, new, tell, meant, ended)
        PROVE  TextInv'
    BY <1>3, <2>1, <2>3
  <2>4. \/ UNCHANGED <<settings, onDisk>>
        \/ \E tell : \E new \in Valid : StartSave(d, new, tell, meant, ended)
    BY <1>5, ViewSaved
  <2> QED
    BY <2>2, <2>3, <2>4
<1>6. CASE NameMeetPi \/ UnloadPi
  <2>1. PICK new \in Valid : SavedAs(new)
    BY <1>6, MeetShown, MeetPutAway
  <2>2. UNCHANGED <<sessions, backups, ended>>
    BY <1>6 DEF NameMeetPi, UnloadPi, history
  <2> QED
    BY <1>ops, <2>1, <2>2 DEF SavedAs, TextInv, backups
<1>7. CASE Saving
  BY <1>ops, <1>7, SaveKeeps DEF Saving
<1>8. CASE Restore
  BY <1>ops, <1>8 DEF Restore, TextInv
<1>9. CASE Restart
  BY <1>ops, <1>9 DEF Restart, TextInv, backups, history
<1> QED
  BY <1>1, <1>4, <1>5, <1>6, <1>7, <1>8, <1>9 DEF PiNext, Still, TV, Loops

LEMMA TextHolds == Ordinary => (PiSpec => [](MeetInv /\ TextInv))
<1> SUFFICES ASSUME Ordinary PROVE PiSpec => [](MeetInv /\ TextInv)
  OBVIOUS
<1>1. PiInit => TextInv
  BY InitText
<1>2. MeetInv /\ TextInv /\ [PiNext]_allVars => TextInv'
  BY TextKept
<1> QED
  BY <1>1, <1>2, MeetsHold, PTL DEF PiSpec

\* Whatever is posted, no bounded field is stored below its least and no checked
\* one unknown; a number below the least over the least itself is left out
\* (_settings_view: the handlers, then the sweep).
THEOREM FieldsStay == Ordinary /\ "LowTwice" \notin Beyond => (PiSpec => []FieldsInBounds)
<1> SUFFICES ASSUME Ordinary, "LowTwice" \notin Beyond PROVE PiSpec => []FieldsInBounds
  OBVIOUS
<1>1. TextInv => FieldsInBounds
  <2> SUFFICES ASSUME TextInv, NEW k \in Fields PROVE settings.fields[k] >= Least
    BY DEF FieldsInBounds
  <2>1. settings.fields \in [Fields -> Kept] /\ Kept = Nat \ {0}
    BY SettingsTyped DEF TextInv, Kept
  <2>2. settings.fields[k] \in Nat \ {0}
    BY <2>1
  <2> QED
    BY <2>2 DEF Least
<1> QED
  BY <1>1, TextHolds, PTL

-----------------------------------------------------------------------------
(* The settings' file, when one save is not begun while another is under   *)
(* way.                                                                    *)

OneByOne == "SavesOverlap" \notin Beyond

\* What is being saved, and the file it goes by.
Written(s) ==
    /\ s.fd = "tmp" /\ s.data = settings
    /\ \/ s.at = "write" /\ tmp = Empty
       \/ s.at = "replace" /\ tmp = settings

FileInv ==
    /\ file \in Valid
    /\ \/ savers = {} /\ (restored \/ file = settings)
       \/ \E s \in savers : savers = {s} /\ Written(s)

LEMMA NotText == Valid \cap {Empty, Mixed, None} = {}
<1>1. \A x \in Valid : x # Empty /\ x # Mixed /\ x # None
  <2> TAKE x \in Valid
  <2>1. "look" \in DOMAIN x /\ "look" \notin DOMAIN Empty /\ "look" \notin DOMAIN Mixed
    BY DEF Valid, SettingsOf, Empty, Mixed
  <2>2. x # None
    BY KeptTyped, NoneAssumption
  <2> QED
    BY <2>1, <2>2
<1> QED
  BY <1>1

\* Every step, by what it saves.
LEMMA SaveSteps ==
    ASSUME Ordinary, MeetInv, TextInv, [PiNext]_allVars
    PROVE  \/ UNCHANGED <<settings, onDisk, backups>>
           \/ \E who, tell, m, e : \E new \in Valid :
                 StartSave(who, new, tell, m, e) /\ UNCHANGED backups
           \/ \E new \in Valid : SavedAs(new) /\ UNCHANGED backups
           \/ \E s \in savers : WriteSave(s) \/ EndSave(s)
           \/ Restore \/ Restart
<1>1. CASE Still \/ UNCHANGED allVars
  BY <1>1, StillLeaves DEF allVars, piVars
<1>2. CASE Post
  <2>1. ASSUME NEW n \in Names, SignIn(n) PROVE UNCHANGED <<settings, onDisk, backups>>
    BY <2>1 DEF SignIn
  <2>2. CASE ~ \E n \in Names : SignIn(n)
    <3>1. UNCHANGED backups
      BY <1>2, <2>2, PostLeaves DEF Left
    <3>2. \E m, e : \E new \in Valid : StartSave("post", new, {}, m, e)
      <4>1. ASSUME NEW s \in sessions, NEW name \in Names, NEW pass \in BOOLEAN,
                   Account(s, name, pass)
            PROVE  \E m, e : \E new \in Valid : StartSave("post", new, {}, m, e)
        BY <4>1, AccountSaved
      <4>2. ASSUME NEW n \in Names,
                   \/ \E roles \in Pages :
                         AddUser(n, roles) \/ \E pass \in BOOLEAN : SaveUser(n, roles, pass)
                   \/ DeleteUser(n)
            PROVE  \E m, e : \E new \in Valid : StartSave("post", new, {}, m, e)
        <5>1. PICK new \in Valid, e \in {ended, ended \cup SessionsOf(n)} :
                 StartSave("post", new, {}, meant, e)
          BY <4>2, UserSaved
        <5> QED
          BY <5>1
      <4> QED
        BY <1>2, <2>2, <4>1, <4>2, FieldSaved, ConsoleSaved, LookSaved DEF Post
    <3> QED
      BY <3>1, <3>2
  <2> QED
    BY <2>1, <2>2
<1>3. ASSUME NEW d \in TVs, Loops(d)
      PROVE  \/ UNCHANGED <<settings, onDisk, backups>>
             \/ \E who, tell, m, e : \E new \in Valid :
                   StartSave(who, new, tell, m, e) /\ UNCHANGED backups
  <2>1. UNCHANGED backups
    BY <1>3 DEF Loops, TVRegister, TVForget, TVView, Asks
  <2>2. \/ UNCHANGED <<settings, onDisk>>
        \/ \E tell : \E new \in Valid : StartSave(d, new, tell, meant, ended)
    BY <1>3, ViewSaved
  <2> QED
    BY <2>1, <2>2
<1>4. CASE NameMeetPi \/ UnloadPi
  <2>1. UNCHANGED backups
    BY <1>4 DEF NameMeetPi, UnloadPi
  <2> QED
    BY <1>4, <2>1, MeetShown, MeetPutAway
<1> QED
  BY <1>1, <1>2, <1>3, <1>4 DEF PiNext, Still, TV, Loops, Saving

\* One save at a time: what its steps do.
LEMMA BeginsAlone ==
    ASSUME OneByOne, NEW who, NEW new, NEW tell, NEW m, NEW e, StartSave(who, new, tell, m, e)
    PROVE  /\ savers = {} /\ settings' = new /\ file' = file /\ tmp' = Empty
           /\ \E s : /\ savers' = {s} /\ IsSaver(s)
                     /\ s.by = who /\ s.data = new /\ s.at = "write" /\ s.fd = "tmp"
                     /\ s.tell = tell /\ s.meant = m /\ s.ended = e
<1>1. savers = {}
  BY DEF OneByOne, StartSave, Alone
<1> QED
  BY <1>1, StartDoes

LEMMA WritesAlone ==
    ASSUME TextInv, FileInv, NEW s \in savers, WriteSave(s)
    PROVE  /\ savers = {s} /\ file' = file /\ tmp' = settings /\ settings' = settings
           /\ \E a : /\ savers' = {a} /\ IsSaver(a) /\ a.at = "replace"
                     /\ a.by = s.by /\ a.data = s.data /\ a.fd = s.fd /\ a.tell = s.tell
                     /\ a.meant = s.meant /\ a.ended = s.ended
<1>1. savers = {s} /\ Written(s) /\ IsSaver(s)
  BY DEF FileInv, TextInv
<1>2. tmp = Empty /\ s.fd = "tmp" /\ s.data = settings
  BY <1>1 DEF WriteSave, Written
<1>3. file' = file /\ tmp' = settings /\ settings' = settings
  BY <1>2 DEF WriteSave, Over
<1>4. PICK a : /\ savers' = (savers \ {s}) \cup {a} /\ IsSaver(a) /\ a.at = "replace"
               /\ a.by = s.by /\ a.data = s.data /\ a.fd = s.fd /\ a.tell = s.tell
               /\ a.meant = s.meant /\ a.ended = s.ended
  BY <1>1, WriteDoes
<1>5. savers' = {a}
  BY <1>1, <1>4
<1> QED
  BY <1>1, <1>3, <1>4, <1>5

LEMMA EndsAlone ==
    ASSUME TextInv, FileInv, NEW s \in savers, EndSave(s)
    PROVE  /\ savers = {s} /\ savers' = {} /\ s.data = settings /\ IsSaver(s)
           /\ file' = settings /\ tmp' = None /\ settings' = settings
           /\ told' = [d \in TVs |->
                  IF d \in s.tell /\ (told[d] # None \/ s.by = d) THEN Frame(d) ELSE told[d]]
           /\ meant' = s.meant /\ ended' = s.ended
<1>1. savers = {s} /\ Written(s) /\ IsSaver(s)
  BY DEF FileInv, TextInv
<1>2. tmp = settings /\ s.data = settings
  BY <1>1 DEF EndSave, Written
<1>3. tmp # None
  BY <1>2, NotText DEF TextInv
<1>4. savers' = {} /\ settings' = settings
  BY <1>1, <1>3 DEF EndSave
<1> QED
  BY <1>1, <1>2, <1>3, <1>4 DEF EndSave

LEMMA FileKept ==
    ASSUME Ordinary, OneByOne, MeetInv, TextInv, FileInv, [PiNext]_allVars
    PROVE  FileInv'
<1>1. CASE UNCHANGED <<settings, onDisk, backups>>
  <2>1. UNCHANGED <<settings, file, tmp, savers, restored>>
    BY <1>1 DEF onDisk, backups
  <2>2. \A s : Written(s)' <=> (/\ s.fd = "tmp" /\ s.data = settings
                               /\ \/ s.at = "write" /\ tmp = Empty
                                  \/ s.at = "replace" /\ tmp = settings)
    BY <2>1 DEF Written
  <2> QED
    BY <2>1, <2>2 DEF FileInv, Written
<1>2. ASSUME NEW new \in Valid, NEW who, NEW tell, NEW m, NEW e,
             StartSave(who, new, tell, m, e)
      PROVE  FileInv'
  <2>1. PICK s : savers' = {s} /\ s.data = new /\ s.at = "write" /\ s.fd = "tmp"
    BY <1>2, BeginsAlone
  <2>2. settings' = new /\ file' = file /\ tmp' = Empty
    BY <1>2, BeginsAlone
  <2> QED
    BY <2>1, <2>2 DEF FileInv, Written
<1>3. ASSUME NEW new \in Valid, SavedAs(new) PROVE FileInv'
  BY <1>3 DEF SavedAs, FileInv
<1>4. ASSUME NEW s \in savers, WriteSave(s) PROVE FileInv'
  <2>1. PICK a : savers' = {a} /\ a.at = "replace" /\ a.data = s.data /\ a.fd = s.fd
    BY <1>4, WritesAlone
  <2>2. file' = file /\ tmp' = settings /\ settings' = settings /\ savers = {s}
    BY <1>4, WritesAlone
  <2>3. s.data = settings /\ s.fd = "tmp"
    BY <2>2 DEF FileInv, Written
  <2> QED
    BY <2>1, <2>2, <2>3 DEF FileInv, Written
<1>5. ASSUME NEW s \in savers, EndSave(s) PROVE FileInv'
  BY <1>5, EndsAlone DEF FileInv, TextInv
<1>6. CASE Restore
  BY <1>6 DEF Restore, FileInv, TextInv
<1>7. CASE Restart
  BY <1>7 DEF Restart, FileInv
<1> QED
  BY <1>1, <1>2, <1>3, <1>4, <1>5, <1>6, <1>7, SaveSteps

LEMMA FileHolds ==
    Ordinary /\ OneByOne => (PiSpec => [](MeetInv /\ TextInv /\ FileInv))
<1> SUFFICES ASSUME Ordinary, OneByOne PROVE PiSpec => [](MeetInv /\ TextInv /\ FileInv)
  OBVIOUS
<1>1. PiInit => FileInv
  BY InitText DEF PiInit, FileInv, TextInv
<1>2. MeetInv /\ TextInv /\ FileInv /\ [PiNext]_allVars => FileInv'
  BY FileKept
<1> QED
  BY <1>1, <1>2, TextHolds, PTL DEF PiSpec

\* One save at a time, settings.json is never cut short or mixed, and what was
\* answered is in it: a power cut loses no setting (save_settings).
THEOREM SettingsStay == Ordinary /\ OneByOne => (PiSpec => []SettingsSurvive)
<1> SUFFICES ASSUME Ordinary, OneByOne PROVE PiSpec => []SettingsSurvive
  OBVIOUS
<1>1. FileInv => SettingsSurvive
  BY NotText DEF FileInv, SettingsSurvive, Settled
<1> QED
  BY <1>1, FileHolds, PTL

-----------------------------------------------------------------------------
(* A meet's own appearance.                                                *)

\* A page is posted for the meet it was shown for, which is loaded, and not
\* between a restore and its restart.
OnTime == Beyond \cap {"StalePages", "LookWithoutMeet", "SavesAfterRestore"} = {}

\* What was asked for is in the file, or on its way, and the loaded meet is
\* shown in its own appearance.
LookInv ==
    /\ file.profiles = meant
    /\ \A s \in savers : s.meant = s.data.profiles
    /\ restored => savers = {}
    /\ active_meet_file # None =>
          active_uid \in Uids /\ settings.look = settings.profiles[active_uid]

LEMMA StillNames == Still => active_meet_file' = active_meet_file
<1>1. CASE MeetSteps
  <2>1. CASE Worker \/ Debounce
    BY <2>1 DEF Worker, Debounce, Finish, NextHeat, Repeat, FinishTimeout, KeepTimes, AppendTimes
  <2>2. CASE Begins
    BY <2>2 DEF Begins, BeginLoad, BeginDelete, BeginClear, BeginNone, BeginUpdate, Begin
  <2>3. CASE ClearMeet \/ ResetRace \/ ParseFailsPi \/ CheckUpdate \/ ReplaceFile
    BY <2>3 DEF ClearMeet, ResetRace, ParseFailsPi, ParseFails, CheckUpdate, ReplaceFile
  <2>4. CASE \/ \E export \in Exports : OtherUpload(export)
             \/ SwapMeet \/ ReadTimes \/ DeleteFile \/ ClearFiles
    BY <2>4 DEF OtherUpload, SwapMeet, ReadTimes, DeleteFile, ClearFiles
  <2> QED
    BY <1>1, <2>1, <2>2, <2>3, <2>4 DEF MeetSteps
<1>2. CASE AssignTimesPi \/ \E d \in TVs : TVLost(d) \/ SendView(d)
  BY <1>2 DEF AssignTimesPi, AssignTimes, TVLost, SendView
<1> QED
  BY <1>1, <1>2 DEF Still

\* A save that leaves the appearances as they were.
LEMMA LooksLeft ==
    ASSUME Ordinary, OneByOne, OnTime, FileInv, LookInv,
           NEW who, NEW new, NEW tell, NEW e, StartSave(who, new, tell, meant, e),
           KeepsLooks(new), UNCHANGED <<active_meet_file, active_uid, restored, meant>>
    PROVE  LookInv'
<1>1. Calm /\ ~restored
  BY DEF StartSave, Calm, OnTime
<1>2. savers = {} /\ settings' = new /\ file' = file
  BY BeginsAlone
<1>3. PICK s : savers' = {s} /\ s.data = new /\ s.meant = meant
  BY BeginsAlone
<1>4. file = settings
  BY <1>1, <1>2 DEF FileInv
<1>5. new.profiles = meant /\ new.look = settings.look /\ new.profiles = settings.profiles
  BY <1>4 DEF KeepsLooks, LookInv
<1> QED
  BY <1>1, <1>2, <1>3, <1>5 DEF LookInv

LEMMA LookAsked ==
    ASSUME Ordinary, OneByOne, OnTime, TextInv, FileInv, LookInv,
           NEW look \in Looks, NEW page \in Uids \cup {NoUid}, PostLook(look, page)
    PROVE  LookInv'
<1>1. PICK new \in Valid :
         /\ StartSave("post", new, {}, Asked(look, page), ended)
         /\ new.look = look
         /\ new.profiles = IF active_uid = NoUid THEN settings.profiles
                           ELSE [settings.profiles EXCEPT ![active_uid] = look]
  BY LookSaved
<1>2. page = active_uid /\ active_meet_file # None /\ UNCHANGED Left
  BY DEF PostLook, OnTime, Posts, Left
<1>3. active_uid \in Uids /\ NoUid \notin Uids
  BY <1>2 DEF LookInv, NoUid, Uids
<1>4. ~restored /\ savers = {} /\ settings' = new /\ file' = file
  BY <1>1, BeginsAlone DEF StartSave, Calm, OnTime
<1>5. PICK s : savers' = {s} /\ s.data = new /\ s.meant = Asked(look, page)
  BY <1>1, BeginsAlone
<1>6. settings.profiles = meant
  BY <1>4 DEF FileInv, LookInv
<1>7. new.profiles = Asked(look, page)
  BY <1>1, <1>2, <1>3, <1>6 DEF Asked
<1>8. settings.profiles \in [Uids -> Looks \cup {None}]
  BY SettingsTyped DEF TextInv
<1>9. new.look = new.profiles[active_uid]
  BY <1>1, <1>3, <1>8
<1>10. UNCHANGED <<active_meet_file, active_uid, restored, meant>>
  BY <1>2 DEF Left, backups, history
<1> QED
  BY <1>3, <1>4, <1>5, <1>7, <1>9, <1>10 DEF LookInv

LEMMA LookNamed ==
    ASSUME Ordinary, OneByOne, OnTime, MeetInv, TextInv, FileInv, LookInv, NameMeetPi
    PROVE  LookInv'
<1>1. PICK new \in Valid, look \in Looks, uid \in Uids :
         /\ SavedAs(new) /\ active_uid' = uid
         /\ look = IF settings.profiles[uid] = None THEN settings.look
                   ELSE settings.profiles[uid]
         /\ new.look = look
         /\ new.profiles = [settings.profiles EXCEPT ![uid] = look]
         /\ meant' = [meant EXCEPT ![uid] = IF @ = None THEN look ELSE @]
  BY MeetShown
<1>2. ~restored /\ savers = {} /\ settings' = new /\ file' = new /\ savers' = {}
  BY <1>1 DEF SavedAs, Calm, OnTime
<1>3. settings.profiles = meant
  BY <1>2 DEF FileInv, LookInv
<1>4. settings.profiles \in [Uids -> Looks \cup {None}]
  BY SettingsTyped DEF TextInv
<1>5. new.profiles = meant'
  BY <1>1, <1>3, <1>4
<1>6. new.look = new.profiles[uid]
  BY <1>1, <1>4
<1> QED
  BY <1>1, <1>2, <1>5, <1>6 DEF LookInv

LEMMA LookKept ==
    ASSUME Ordinary, OneByOne, OnTime, MeetInv, TextInv, FileInv, LookInv, [PiNext]_allVars
    PROVE  LookInv'
<1>1. CASE Still \/ UNCHANGED allVars
  <2>1. UNCHANGED <<settings, file, savers, active_uid, restored, meant, active_meet_file>>
    BY <1>1, StillLeaves, StillNames DEF allVars, piVars, onDisk, backups, history
  <2> QED
    BY <2>1 DEF LookInv
<1>2. ASSUME NEW n \in Names, SignIn(n) PROVE LookInv'
  <2>1. UNCHANGED <<settings, file, savers, active_uid, restored, meant, active_meet_file>>
    BY <1>2 DEF SignIn, onDisk, backups, history
  <2> QED
    BY <2>1 DEF LookInv
<1>3. CASE Post
  <2> SUFFICES ASSUME UNCHANGED <<active_meet_file, active_uid, restored, meant>>
               PROVE  LookInv'
    BY <1>2, <1>3, PostLeaves DEF Left, backups, history
  <2>1. ASSUME NEW k \in Fields, NEW raw \in Numbers, PostField(k, raw) PROVE LookInv'
    BY <2>1, FieldSaved, LooksLeft
  <2>2. ASSUME NEW c \in Consoles, PostConsole(c) PROVE LookInv'
    BY <2>2, ConsoleSaved, LooksLeft
  <2>3. ASSUME NEW n \in Names,
               \/ \E roles \in Pages :
                     AddUser(n, roles) \/ \E pass \in BOOLEAN : SaveUser(n, roles, pass)
               \/ DeleteUser(n)
        PROVE  LookInv'
    <3>1. PICK new \in Valid, e \in {ended, ended \cup SessionsOf(n)} :
             StartSave("post", new, {}, meant, e) /\ KeepsLooks(new)
      BY <2>3, UserSaved
    <3> QED
      BY <3>1, LooksLeft
  <2>4. ASSUME NEW s \in sessions, NEW name \in Names, NEW pass \in BOOLEAN,
               Account(s, name, pass)
        PROVE  LookInv'
    <3>1. PICK new \in Valid, cred \in Stamps :
             /\ StartSave("post", new, {}, meant, ended \cup SessionsOf(s.user))
             /\ KeepsLooks(new)
      BY <2>4, AccountSaved
    <3> QED
      BY <3>1, LooksLeft
  <2> QED
    BY <1>2, <1>3, <2>1, <2>2, <2>3, <2>4, LookAsked DEF Post
<1>4. ASSUME NEW d \in TVs, Loops(d) PROVE LookInv'
  <2>1. UNCHANGED <<active_meet_file, active_uid, restored, meant>>
    BY <1>4 DEF Loops, TVRegister, TVForget, TVView, Asks, backups, history
  <2>2. CASE UNCHANGED <<settings, onDisk>>
    BY <2>1, <2>2 DEF LookInv, onDisk
  <2>3. ASSUME NEW new \in Valid, NEW tell, StartSave(d, new, tell, meant, ended),
               KeepsLooks(new)
        PROVE  LookInv'
    BY <2>1, <2>3, LooksLeft
  <2>4. \/ UNCHANGED <<settings, onDisk>>
        \/ \E tell : \E new \in Valid :
              StartSave(d, new, tell, meant, ended) /\ KeepsLooks(new)
    BY <1>4, ViewSaved
  <2> QED
    BY <2>2, <2>3, <2>4
<1>5. CASE UnloadPi
  <2>1. PICK new \in Valid : SavedAs(new) /\ KeepsLooks(new)
    BY <1>5, MeetPutAway
  <2>2. ~restored /\ savers = {} /\ settings' = new /\ file' = new /\ savers' = {}
    BY <2>1 DEF SavedAs, Calm, OnTime
  <2>3. active_meet_file' = None /\ UNCHANGED <<restored, meant>>
    BY <1>5 DEF UnloadPi, Unload, backups, history
  <2>4. new.profiles = meant
    BY <2>1, <2>2 DEF FileInv, LookInv, KeepsLooks
  <2> QED
    BY <2>2, <2>3, <2>4 DEF LookInv
<1>6. ASSUME NEW s \in savers, WriteSave(s) PROVE LookInv'
  <2>1. PICK a : savers' = {a} /\ a.data = s.data /\ a.meant = s.meant
    BY <1>6, WritesAlone
  <2>2. UNCHANGED <<settings, active_uid, restored, meant, active_meet_file>>
    BY <1>6 DEF WriteSave, backups, history
  <2>3. file' = file
    BY <1>6, WritesAlone
  <2> QED
    BY <2>1, <2>2, <2>3 DEF LookInv
<1>7. ASSUME NEW s \in savers, EndSave(s) PROVE LookInv'
  <2>1. /\ savers' = {} /\ s.data = settings /\ file' = settings
        /\ settings' = settings /\ meant' = s.meant
    BY <1>7, EndsAlone
  <2>2. UNCHANGED <<active_uid, active_meet_file>>
    BY <1>7 DEF EndSave
  <2> QED
    BY <2>1, <2>2 DEF LookInv
<1>8. CASE Restore
  BY <1>8 DEF Restore, LookInv
<1>9. CASE Restart
  <2>1. /\ file' = file /\ meant' = meant /\ savers' = {} /\ restored' = FALSE
        /\ active_meet_file' = None
    BY <1>9 DEF Restart, PowerCut, history
  <2> QED
    BY <2>1 DEF LookInv
<1> QED
  BY <1>1, <1>3, <1>4, <1>5, <1>6, <1>7, <1>8, <1>9, LookNamed
  DEF PiNext, Still, TV, Loops, Saving

\* Each meet keeps the appearance asked for it, and the loaded meet is shown in
\* its own (apply_meet_profile, save_meet_profile).
THEOREM LooksStay ==
    Ordinary /\ OneByOne /\ OnTime => (PiSpec => []MeetKeepsItsOwn)
<1> SUFFICES ASSUME Ordinary, OneByOne, OnTime PROVE PiSpec => []MeetKeepsItsOwn
  OBVIOUS
<1>1. PiInit => LookInv
  BY DEF PiInit, Init, LookInv
<1>2. MeetInv /\ TextInv /\ FileInv /\ LookInv /\ [PiNext]_allVars => LookInv'
  BY LookKept
<1>3. FileInv /\ LookInv => MeetKeepsItsOwn
  BY DEF FileInv, LookInv, MeetKeepsItsOwn, Settled
<1> QED
  BY <1>1, <1>2, <1>3, FileHolds, PTL DEF PiSpec

-----------------------------------------------------------------------------
(* The TVs, when no load fails while one shows the heats to come.          *)

LoadsRead == "LoadsFail" \notin Beyond

\* The meet may come or go, and the TVs are told once it is there.
Changing ==
    \/ LoadAt({"cleared", "parse", "swapped", "read", "name"})
    \/ ReloadAt({"swapped", "read"})

Frames == [view : Views, ready : BOOLEAN]
Told(d) == told[d] # None /\ pending[d] = 0 => told[d] = Frame(d)

ToldTypes == told \in [TVs -> Frames \cup {None}] /\ pending \in [TVs -> Nat]

\* A TV was sent what is kept for it, or the end of a save, or of a load, sends
\* it.
ToldInv ==
    /\ ToldTypes
    /\ \A d \in TVs : \/ Told(d)
                      \/ \E s \in savers : d \in s.tell
                      \/ Changing /\ View(d) = "next"

LEMMA FrameTyped == ASSUME TextInv, NEW d \in TVs PROVE View(d) \in Views /\ Frame(d) \in Frames
<1>1. settings.displays \in [TVs -> Views \cup {None}]
  BY SettingsTyped DEF TextInv
<1>2. View(d) \in Views
  BY <1>1 DEF View, Views
<1> QED
  BY <1>2 DEF Frame, Frames

\* Only the heats to come need a meet.
LEMMA SameView ==
    ASSUME NEW d \in TVs, settings'.displays[d] = settings.displays[d]
    PROVE  View(d)' = View(d)
BY DEF View

LEMMA SameFrame ==
    ASSUME NEW d \in TVs,
           settings'.displays[d] = settings.displays[d],
           settings'.console = settings.console \/ View(d) = "live",
           meet' = meet \/ View(d) # "next"
    PROVE  Frame(d)' = Frame(d)
<1>1. View(d)' = View(d)
  BY SameView
<1>2. (View(d) \in Available)' <=> View(d) \in Available
  BY <1>1 DEF Available
<1> QED
  BY <1>1, <1>2 DEF Frame

LEMMA StagesMove ==
    ASSUME ListTypes, NEW at \in Stages, To(at)
    PROVE  /\ request.op \in {"load", "boot"} =>
                 (Changing' <=> at \in {"cleared", "parse", "swapped", "read", "name"})
           /\ request.op = "reload" => (Changing' <=> at \in {"swapped", "read"})
<1>1. request'.op = request.op /\ request'.at = at
  BY ToDoes DEF ListTypes
<1> QED
  BY <1>1 DEF Changing, LoadAt, ReloadAt

\* What a step does to the meet that is shown.
LEMMA MeetMoves ==
    ASSUME MeetInv, LoadsRead, MeetSteps
    PROVE  \/ meet' = meet /\ (Changing => Changing')
           \/ Changing'
           \/ \A d \in TVs : told[d] = None \/ View(d) # "next"
<1>1. ListTypes
  BY DEF MeetInv, MeetTypes
<1>2. CASE Worker \/ Debounce
  <2>1. UNCHANGED <<meet, request>>
    BY <1>2 DEF Worker, Debounce, Finish, NextHeat, Repeat, FinishTimeout, KeepTimes, AppendTimes
  <2> QED
    BY <2>1 DEF Changing, LoadAt, ReloadAt
<1>3. CASE Begins
  <2>1. meet' = meet /\ request = NoRequest
    BY <1>3 DEF Begins, BeginLoad, BeginDelete, BeginClear, BeginNone, BeginUpdate, Begin
  <2> QED
    BY <2>1 DEF Changing, LoadAt, ReloadAt, NoRequest
<1>4. CASE \/ CheckUpdate \/ ReplaceFile \/ DeleteFile \/ ClearFiles
           \/ \E export \in Exports : OtherUpload(export)
  <2>1. meet' = meet
    BY <1>4 DEF CheckUpdate, ReplaceFile, DeleteFile, ClearFiles, OtherUpload
  <2>2. request.op \in {"delete", "clear"} \/ request.at \in {"saved", "checked"}
    BY <1>4 DEF CheckUpdate, ReplaceFile, DeleteFile, ClearFiles, OtherUpload
  <2> QED
    BY <2>1, <2>2 DEF Changing, LoadAt, ReloadAt
<1>5. CASE ClearMeet \/ ResetRace
  <2>1. request.op \in {"load", "boot"} /\ (To("cleared") \/ To("parse"))
    BY <1>5 DEF ClearMeet, ResetRace
  <2> QED
    BY <1>1, <2>1, StagesMove DEF Stages
<1>6. CASE SwapMeet
  <2>1. request.op \in {"load", "boot", "reload"} /\ To("swapped")
    BY <1>6 DEF SwapMeet
  <2> QED
    BY <1>1, <2>1, StagesMove DEF Stages
<1>7. CASE ReadTimes
  <2>1. /\ request.op \in {"load", "boot", "reload"} /\ request \in Requests
        /\ request' = [request EXCEPT !.at = "read", !.read = Saved(MeetUid)]
    BY <1>1, <1>7 DEF ReadTimes, Loading, ListTypes
  <2>2. request'.op = request.op /\ request'.at = "read"
    BY <2>1 DEF Requests
  <2> QED
    BY <2>1, <2>2 DEF Changing, LoadAt, ReloadAt
<1>8. CASE ParseFailsPi
  <2>1. CASE request.op = "reload"
    <3>1. request.at = "begin" /\ meet' = meet
      BY <1>8, <2>1 DEF ParseFailsPi, ParseFails
    <3> QED
      BY <2>1, <3>1 DEF Changing, LoadAt, ReloadAt
  <2>2. CASE request.op # "reload"
    BY <1>8, <2>2 DEF ParseFailsPi, LoadsRead
  <2> QED
    BY <2>1, <2>2
<1> QED
  BY <1>2, <1>3, <1>4, <1>5, <1>6, <1>7, <1>8 DEF MeetSteps

Telling(d) == \E s \in savers : d \in s.tell

LEMMA TellDoes ==
    ASSUME ToldTypes
    PROVE  /\ Tell \in [TVs -> Nat]
           /\ \A d \in TVs : Tell[d] = 0 =>
                 pending[d] = 0 /\ (told[d] = None \/ View(d) = "live")
<1>1. \A d \in TVs : pending[d] \in Nat
  BY DEF ToldTypes
<1>2. Tell \in [TVs -> Nat]
  BY <1>1 DEF Tell
<1>3. \A d \in TVs : Tell[d] = IF told[d] # None /\ View(d) # "live"
                              THEN pending[d] + 1 ELSE pending[d]
  BY DEF Tell
<1>4. \A d \in TVs : pending[d] + 1 # 0
  BY <1>1
<1> QED
  BY <1>2, <1>3, <1>4

\* Everyone who may see another frame is to be told.
LEMMA AllTold ==
    ASSUME ToldInv, pending' = Tell, told' = told, savers = {} \/ savers' = savers,
           settings'.displays = settings.displays
    PROVE  ToldInv'
<1>1. ToldTypes /\ ToldTypes'
  BY TellDoes DEF ToldInv, ToldTypes
<1>2. ASSUME NEW d \in TVs PROVE Told(d)' \/ Telling(d)'
  <2>1. CASE Tell[d] # 0
    BY <2>1 DEF Told
  <2>2. CASE told[d] = None
    BY <2>2 DEF Told
  <2>3. CASE Tell[d] = 0 /\ told[d] # None
    <3>1. pending[d] = 0 /\ View(d) = "live"
      BY <1>1, <2>3, TellDoes
    <3>2. Frame(d)' = Frame(d)
      BY <3>1, SameFrame
    <3>3. Told(d) \/ Telling(d)
      BY <3>1 DEF ToldInv, Telling
    <3>4. Telling(d) => Telling(d)'
      BY DEF Telling
    <3>5. Told(d) => Told(d)'
      BY <3>1, <3>2 DEF Told
    <3> QED
      BY <3>3, <3>4, <3>5
  <2> QED
    BY <2>1, <2>2, <2>3
<1> QED
  BY <1>1, <1>2 DEF ToldInv, Telling

\* A step that shows the TVs nothing else.
LEMMA NothingElse ==
    ASSUME ToldInv, UNCHANGED <<told, pending>>,
           settings'.displays = settings.displays, settings'.console = settings.console,
           \A d \in TVs : Telling(d) => Telling(d)',
           \/ meet' = meet /\ (Changing => Changing')
           \/ Changing'
           \/ \A d \in TVs : told[d] = None \/ View(d) # "next"
    PROVE  ToldInv'
<1>1. ToldTypes'
  BY DEF ToldInv, ToldTypes
<1>2. ASSUME NEW d \in TVs
      PROVE  Told(d)' \/ Telling(d)' \/ (Changing /\ View(d) = "next")'
  <2>1. View(d)' = View(d)
    BY SameView
  <2>2. Told(d) \/ Telling(d) \/ (Changing /\ View(d) = "next")
    BY DEF ToldInv, Telling
  <2>3. CASE meet' = meet /\ (Changing => Changing')
    <3>1. Frame(d)' = Frame(d)
      BY <2>3, SameFrame
    <3>2. Told(d) => Told(d)'
      BY <3>1 DEF Told
    <3> QED
      BY <2>1, <2>2, <2>3, <3>2
  <2>4. CASE View(d) # "next"
    <3>1. Frame(d)' = Frame(d)
      BY <2>4, SameFrame
    <3>2. Told(d) => Told(d)'
      BY <3>1 DEF Told
    <3> QED
      BY <2>2, <2>4, <3>2
  <2>5. CASE Changing' /\ View(d) = "next"
    BY <2>1, <2>5
  <2>6. CASE told[d] = None
    BY <2>6 DEF Told
  <2> QED
    BY <2>3, <2>4, <2>5, <2>6
<1> QED
  BY <1>1, <1>2 DEF ToldInv, Telling

LEMMA SameStage == UNCHANGED request => (Changing' <=> Changing)
BY DEF Changing, LoadAt, ReloadAt

\* One TV is shown what is kept for it, or goes.
LEMMA OneTold ==
    ASSUME TextInv, ToldInv, NEW d \in TVs,
           told' = [told EXCEPT ![d] = Frame(d)] \/ told' = [told EXCEPT ![d] = None],
           \A o \in TVs \ {d} : pending'[o] = pending[o], pending' \in [TVs -> Nat],
           UNCHANGED <<settings, savers, meet, request>>
    PROVE  ToldInv'
<1>1. Frame(d) \in Frames
  BY FrameTyped
<1>2. ToldTypes'
  BY <1>1 DEF ToldInv, ToldTypes
<1>3. \A o \in TVs : Frame(o)' = Frame(o) /\ View(o)' = View(o)
  BY SameFrame, SameView
<1>4. told'[d] \in {None, Frame(d)}
  BY DEF ToldInv, ToldTypes
<1>5. \A o \in TVs \ {d} : told'[o] = told[o]
  BY DEF ToldInv, ToldTypes
<1>6. ASSUME NEW o \in TVs
      PROVE  Told(o)' \/ Telling(o)' \/ (Changing /\ View(o) = "next")'
  <2>1. CASE o = d
    BY <1>3, <1>4, <2>1 DEF Told
  <2>2. CASE o # d
    <3>1. Told(o) \/ Telling(o) \/ (Changing /\ View(o) = "next")
      BY DEF ToldInv, Telling
    <3>2. Told(o) => Told(o)'
      BY <1>3, <1>5, <2>2 DEF Told
    <3>3. Telling(o) => Telling(o)'
      BY DEF Telling
    <3> QED
      BY <1>3, <3>1, <3>2, <3>3, SameStage
  <2> QED
    BY <2>1, <2>2
<1> QED
  BY <1>2, <1>6 DEF ToldInv, Telling

\* Another view is kept for one TV, and it is told when that is saved.
LEMMA OneKept ==
    ASSUME Ordinary, OneByOne, TextInv, ToldInv, NEW d \in TVs, Loops(d)
    PROVE  ToldInv'
<1>1. UNCHANGED <<meet, request, pending>>
  BY DEF Loops, TVRegister, TVForget, TVView, Asks, onTVs
<1>2. CASE told' = [told EXCEPT ![d] = Frame(d)] /\ UNCHANGED <<settings, onDisk>>
  <2>1. pending' \in [TVs -> Nat]
    BY <1>1 DEF ToldInv, ToldTypes
  <2> QED
    BY <1>1, <1>2, <2>1, OneTold DEF onDisk
<1>3. ASSUME NEW new \in Valid, NEW v \in Views \cup {None}, NEW tell,
             StartSave(d, new, tell, meant, ended),
             new.displays = [settings.displays EXCEPT ![d] = v], told' = told,
             told[d] = None \/ tell = {d}, new.console = settings.console
      PROVE  ToldInv'
  <2>1. savers = {} /\ settings' = new
    BY <1>3, BeginsAlone
  <2>2. PICK s : savers' = {s} /\ s.tell = tell
    BY <1>3, BeginsAlone
  <2>3. ToldTypes'
    BY <1>1, <1>3 DEF ToldInv, ToldTypes
  <2>4. ASSUME NEW o \in TVs
        PROVE  Told(o)' \/ Telling(o)' \/ (Changing /\ View(o) = "next")'
    <3>1. CASE o = d
      BY <1>3, <2>2, <3>1 DEF Told, Telling
    <3>2. CASE o # d
      <4>1. settings'.displays[o] = settings.displays[o]
        BY <1>3, <2>1, <3>2, SettingsTyped DEF TextInv
      <4>2. Frame(o)' = Frame(o) /\ View(o)' = View(o)
        BY <1>1, <1>3, <2>1, <4>1, SameFrame, SameView
      <4>3. Told(o) \/ (Changing /\ View(o) = "next")
        BY <2>1 DEF ToldInv
      <4>4. Told(o) => Told(o)'
        BY <1>1, <1>3, <4>2 DEF Told
      <4> QED
        BY <1>1, <4>2, <4>3, <4>4, SameStage
    <3> QED
      BY <3>1, <3>2
  <2> QED
    BY <2>3, <2>4 DEF ToldInv, Telling
<1>4. \/ told' = [told EXCEPT ![d] = Frame(d)] /\ UNCHANGED <<settings, onDisk>>
      \/ \E tell : \E new \in Valid, v \in Views \cup {None} :
            /\ StartSave(d, new, tell, meant, ended)
            /\ new.displays = [settings.displays EXCEPT ![d] = v] /\ told' = told
            /\ told[d] = None \/ tell = {d}
            /\ new.console = settings.console
  <2>1. CASE told' = [told EXCEPT ![d] = Frame(d)] /\ UNCHANGED <<settings, onDisk>>
    BY <2>1
  <2>2. CASE \E tell : \E new \in Valid, v \in Views \cup {None} :
                 /\ StartSave(d, new, tell, meant, ended)
                 /\ new.displays = [settings.displays EXCEPT ![d] = v]
                 /\ told' = told
                 /\ \/ v = None /\ told[d] = None
                    \/ v \in Views /\ (tell = {d} \/ (tell = {} /\ told[d] = None))
                 /\ new.console = settings.console
    BY <2>2
  <2> QED
    BY <2>1, <2>2, ViewSaved
<1> QED
  BY <1>2, <1>3, <1>4

LEMMA ToldKept ==
    ASSUME Ordinary, OneByOne, LoadsRead, MeetInv, TextInv, FileInv, ToldInv,
           [PiNext]_allVars
    PROVE  ToldInv'
<1>a. ASSUME NEW who, NEW new \in Valid, NEW tell, NEW m, NEW e,
             StartSave(who, new, tell, m, e), KeepsViews(new),
             UNCHANGED <<told, pending, meet, request>>
      PROVE  ToldInv'
  <2>1. savers = {} /\ settings' = new
    BY <1>a, BeginsAlone
  <2>2. settings'.displays = settings.displays /\ settings'.console = settings.console
    BY <1>a, <2>1 DEF KeepsViews
  <2> QED
    BY <1>a, <2>1, <2>2, NothingElse, SameStage DEF Telling
<1>1. CASE MeetSteps
  <2>1. UNCHANGED <<settings, savers, told, pending>>
    BY <1>1 DEF MeetSteps, piVars, onDisk, onTVs
  <2>2. \A d \in TVs : Telling(d) => Telling(d)'
    BY <2>1 DEF Telling
  <2> QED
    BY <1>1, <2>1, <2>2, MeetMoves, NothingElse
<1>2. CASE AssignTimesPi
  <2>1. UNCHANGED <<settings, savers, told, meet>>
    BY <1>2 DEF AssignTimesPi, AssignTimes, onDisk
  <2>2. CASE request.op = "reload"
    BY <1>2, <2>1, <2>2, AllTold DEF AssignTimesPi
  <2>3. CASE request.op # "reload"
    <3>1. /\ pending' = pending /\ request.op \in {"load", "boot"}
          /\ request' = [request EXCEPT !.at = "name"] /\ request \in Requests
      BY <1>2, <2>3 DEF AssignTimesPi, AssignTimes, Loading, MeetInv, MeetTypes, ListTypes
    <3>2. Changing'
      BY <3>1 DEF Changing, LoadAt, Requests
    <3>3. \A d \in TVs : Telling(d) => Telling(d)'
      BY <2>1 DEF Telling
    <3> QED
      BY <2>1, <3>1, <3>2, <3>3, NothingElse
  <2> QED
    BY <2>2, <2>3
<1>3. CASE UNCHANGED allVars
  <2>1. UNCHANGED <<settings, savers, told, pending, meet, request>>
    BY <1>3 DEF allVars, piVars, onDisk, onTVs
  <2> QED
    BY <2>1, NothingElse, SameStage DEF Telling
<1>4. ASSUME NEW d \in TVs, TVLost(d) \/ SendView(d) PROVE ToldInv'
  <2>1. /\ told' = [told EXCEPT ![d] = Frame(d)] \/ told' = [told EXCEPT ![d] = None]
        /\ UNCHANGED <<settings, savers, meet, request>>
    BY <1>4 DEF TVLost, SendView, onDisk
  <2>2. pending' \in [TVs -> Nat] /\ \A o \in TVs \ {d} : pending'[o] = pending[o]
    <3>1. pending \in [TVs -> Nat]
      BY DEF ToldInv, ToldTypes
    <3>2. CASE TVLost(d)
      BY <3>1, <3>2 DEF TVLost
    <3>3. CASE SendView(d)
      <4>1. pending[d] \in Nat /\ pending[d] > 0
        BY <3>1, <3>3 DEF SendView
      <4>2. pending' = [pending EXCEPT ![d] = pending[d] - 1] /\ pending[d] - 1 \in Nat
        BY <3>3, <4>1 DEF SendView
      <4> QED
        BY <3>1, <4>2
    <3> QED
      BY <1>4, <3>2, <3>3
  <2> QED
    BY <2>1, <2>2, OneTold
<1>5. CASE Post
  <2>1. ASSUME NEW n \in Names, SignIn(n) PROVE ToldInv'
    <3>1. UNCHANGED <<settings, savers, told, pending, meet, request>>
      BY <2>1 DEF SignIn, onDisk, onTVs
    <3> QED
      BY <3>1, NothingElse, SameStage DEF Telling
  <2>2. ASSUME NEW k \in Fields, NEW raw \in Numbers, PostField(k, raw) PROVE ToldInv'
    <3>1. UNCHANGED <<told, pending, meet, request>>
      BY <2>2 DEF PostField, Posts
    <3> QED
      BY <1>a, <2>2, <3>1, FieldSaved
  <2>3. ASSUME NEW c \in Consoles, PostConsole(c) PROVE ToldInv'
    <3>1. told' = told /\ pending' = Tell
      BY <2>3 DEF PostConsole, Posts
    <3>2. PICK new \in Valid : /\ StartSave("post", new, {}, meant, ended)
                               /\ new.displays = settings.displays
      BY <2>3, ConsoleSaved
    <3>3. savers = {} /\ settings' = new
      BY <3>2, BeginsAlone
    <3> QED
      BY <3>1, <3>2, <3>3, AllTold
  <2>4. ASSUME NEW look \in Looks, NEW page \in Uids \cup {NoUid}, PostLook(look, page)
        PROVE  ToldInv'
    <3>1. UNCHANGED <<told, pending, meet, request>>
      BY <2>4 DEF PostLook, Posts
    <3>2. PICK new \in Valid :
             StartSave("post", new, {}, Asked(look, page), ended) /\ KeepsViews(new)
      BY <2>4, LookSaved
    <3> QED
      BY <1>a, <3>1, <3>2
  <2>5. ASSUME NEW n \in Names,
               \/ \E roles \in Pages :
                     AddUser(n, roles) \/ \E pass \in BOOLEAN : SaveUser(n, roles, pass)
               \/ DeleteUser(n)
        PROVE  ToldInv'
    <3>1. UNCHANGED <<told, pending, meet, request>>
      BY <2>5 DEF AddUser, SaveUser, DeleteUser, Posts
    <3>2. PICK new \in Valid, e \in {ended, ended \cup SessionsOf(n)} :
             StartSave("post", new, {}, meant, e) /\ KeepsViews(new)
      BY <2>5, UserSaved
    <3> QED
      BY <1>a, <3>1, <3>2
  <2>6. ASSUME NEW s \in sessions, NEW name \in Names, NEW pass \in BOOLEAN,
               Account(s, name, pass)
        PROVE  ToldInv'
    <3>1. UNCHANGED <<told, pending, meet, request>>
      BY <2>6 DEF Account, Posts
    <3>2. PICK new \in Valid, cred \in Stamps :
             /\ StartSave("post", new, {}, meant, ended \cup SessionsOf(s.user))
             /\ KeepsViews(new)
      BY <2>6, AccountSaved
    <3> QED
      BY <1>a, <3>1, <3>2
  <2> QED
    BY <1>5, <2>1, <2>2, <2>3, <2>4, <2>5, <2>6 DEF Post
<1>6. CASE NameMeetPi \/ UnloadPi
  <2>1. PICK new \in Valid : SavedAs(new) /\ KeepsViews(new)
    BY <1>6, MeetShown, MeetPutAway
  <2>2. savers = {} /\ settings'.displays = settings.displays
    BY <2>1 DEF SavedAs, KeepsViews
  <2>3. told' = told /\ pending' = Tell
    BY <1>6 DEF NameMeetPi, UnloadPi
  <2> QED
    BY <2>2, <2>3, AllTold
<1>7. ASSUME NEW s \in savers, WriteSave(s) PROVE ToldInv'
  <2>1. UNCHANGED <<settings, told, pending, meet, request>>
    BY <1>7 DEF WriteSave, onTVs
  <2>2. \E a : savers' = {a} /\ a.tell = s.tell
    BY <1>7, WritesAlone
  <2>3. savers = {s}
    BY <1>7, WritesAlone
  <2>4. \A d \in TVs : Telling(d) => Telling(d)'
    BY <2>2, <2>3 DEF Telling
  <2> QED
    BY <2>1, <2>4, NothingElse, SameStage
<1>8. ASSUME NEW s \in savers, EndSave(s) PROVE ToldInv'
  <2>1. /\ savers = {s} /\ savers' = {} /\ settings' = settings
        /\ told' = [d \in TVs |->
               IF d \in s.tell /\ (told[d] # None \/ s.by = d) THEN Frame(d) ELSE told[d]]
    BY <1>8, EndsAlone
  <2>2. UNCHANGED <<pending, meet, request>>
    BY <1>8 DEF EndSave
  <2>3. \A d \in TVs : Frame(d) \in Frames /\ Frame(d)' = Frame(d) /\ View(d)' = View(d)
    BY <2>1, <2>2, FrameTyped, SameFrame, SameView
  <2>4. \A d \in TVs : told[d] \in Frames \cup {None}
    BY DEF ToldInv, ToldTypes
  <2>5. \A d \in TVs :
           told'[d] = IF d \in s.tell /\ (told[d] # None \/ s.by = d) THEN Frame(d) ELSE told[d]
    BY <2>1
  <2>6. told' \in [TVs -> Frames \cup {None}]
    BY <2>1, <2>3, <2>4
  <2>7. ASSUME NEW d \in TVs PROVE Told(d)' \/ (Changing /\ View(d) = "next")'
    <3>1. CASE d \in s.tell
      BY <2>3, <2>5, <3>1 DEF Told
    <3>2. CASE d \notin s.tell
      <4>1. Told(d) \/ (Changing /\ View(d) = "next")
        BY <2>1, <3>2 DEF ToldInv
      <4>2. Told(d) => Told(d)'
        BY <2>2, <2>3, <2>5, <3>2 DEF Told
      <4> QED
        BY <2>2, <2>3, <4>1, <4>2, SameStage
    <3> QED
      BY <3>1, <3>2
  <2>8. ToldTypes'
    BY <2>2, <2>6 DEF ToldInv, ToldTypes
  <2> QED
    BY <2>7, <2>8 DEF ToldInv
<1>9. CASE Restore
  <2>1. UNCHANGED <<settings, savers, told, pending, meet, request>>
    BY <1>9 DEF Restore, onTVs
  <2> QED
    BY <2>1, NothingElse, SameStage DEF Telling
<1>10. CASE Restart
  <2>1. told' = [d \in TVs |-> None] /\ pending' = [d \in TVs |-> 0]
    BY <1>10 DEF Restart
  <2>2. ToldTypes' /\ \A d \in TVs : Told(d)'
    BY <2>1 DEF ToldTypes, Told
  <2> QED
    BY <2>2 DEF ToldInv
<1> QED
  BY <1>1, <1>2, <1>3, <1>4, <1>5, <1>6, <1>7, <1>8, <1>9, <1>10, OneKept
  DEF PiNext, TV, Loops, Saving

\* Once every request and save is done, a connected TV that has been sent
\* everything shows the view kept for it, and whether this meet and console feed
\* it (tell_views, send_view).
THEOREM TVsTold ==
    Ordinary /\ OneByOne /\ LoadsRead => (PiSpec => []TVToldItsView)
<1> SUFFICES ASSUME Ordinary, OneByOne, LoadsRead PROVE PiSpec => []TVToldItsView
  OBVIOUS
<1>1. PiInit => ToldInv
  <2>1. PiInit => told = [d \in TVs |-> None] /\ pending = [d \in TVs |-> 0]
    BY DEF PiInit
  <2> QED
    BY <2>1 DEF ToldInv, ToldTypes, Told
<1>2. MeetInv /\ TextInv /\ FileInv /\ ToldInv /\ [PiNext]_allVars => ToldInv'
  BY ToldKept
<1>3. ToldInv => TVToldItsView
  BY DEF ToldInv, TVToldItsView, Settled, Told, Changing, LoadAt, ReloadAt, NoRequest
<1> QED
  BY <1>1, <1>2, <1>3, FileHolds, PTL DEF PiSpec

-----------------------------------------------------------------------------
(* The sessions a change of login should have ended, when no login is put  *)
(* back to one that was handed out.                                        *)

NoReturn == "LoginReturns" \notin Beyond

\* Credential, of these settings.
CredOf(y, n) ==
    IF n = y.owner.name THEN <<"owner", y.owner>>
    ELSE IF y.users[n] = None THEN None
    ELSE <<"user", y.users[n]>>

Out(x, y) == x.cred # CredOf(y, x.user)
\* Every hash is older than the next, and the owner is not also a user.
Old(x, at) == x.cred[2].hash <= at
Sound(y, at) ==
    /\ y.owner.hash <= at /\ y.users[y.owner.name] = None
    /\ \A n \in Names : y.users[n] # None => y.users[n].hash <= at

LoginInv ==
    /\ \A y \in {settings, file, backup} : Sound(y, ops)
    /\ \A x \in sessions \cup ended : Old(x, ops)
    /\ \A s \in savers : \A x \in s.ended : Old(x, ops) /\ Out(x, settings)
    /\ \A x \in ended : Out(x, settings) /\ Out(x, file)

LEMMA SameLogins ==
    ASSUME NEW y, NEW z, y.owner = z.owner, y.users = z.users
    PROVE  /\ \A x : Out(x, y) <=> Out(x, z)
           /\ \A at : Sound(y, at) <=> Sound(z, at)
BY DEF Out, CredOf, Sound

LEMMA LoginOf ==
    ASSUME NEW y \in Valid, NEW n \in Names
    PROVE  /\ y.owner \in [name : Names, hash : Nat]
           /\ y.owner.hash \in Nat /\ y.owner.name \in Names
           /\ y.users \in [Names -> Logins \cup {None}]
           /\ y.users[n] # None => y.users[n] \in Logins /\ y.users[n].hash \in Nat
<1>1. /\ y.owner \in [name : Names, hash : Nat] /\ y.users[n] \in Logins \cup {None}
      /\ y.users \in [Names -> Logins \cup {None}]
  BY SettingsTyped
<1> QED
  BY <1>1 DEF Logins

LEMMA StampOf == ASSUME NEW x, IsSession(x)
                 PROVE  /\ x.user \in Names /\ x.cred \in Stamps /\ x.cred # None
                        /\ x.cred[2].hash \in Nat
                        /\ x = [user |-> x.user, cred |-> x.cred]
<1>1. x.user \in Names /\ x.cred \in Stamps /\ x = [user |-> x.user, cred |-> x.cred]
  BY DEF IsSession
<1>2. x.cred[2] \in [name : Names, hash : Nat] \/ x.cred[2] \in Logins
  BY <1>1 DEF Stamps
<1>3. x.cred[2].hash \in Nat
  BY <1>2 DEF Logins
<1> QED
  BY <1>1, <1>3, NoneAssumption

\* A session signed in by these settings is as old as they are.
LEMMA CredOld ==
    ASSUME NEW y \in Valid, NEW n \in Names, NEW at \in Nat, Sound(y, at), CredOf(y, n) # None
    PROVE  Old([user |-> n, cred |-> CredOf(y, n)], at)
<1>1. CASE n = y.owner.name
  BY <1>1 DEF CredOf, Old, Sound
<1>2. CASE n # y.owner.name
  <2>1. y.users[n] # None /\ CredOf(y, n) = <<"user", y.users[n]>>
    BY <1>2 DEF CredOf
  <2> QED
    BY <2>1 DEF Old, Sound
<1> QED
  BY <1>1, <1>2

\* What is old stays old.
LEMMA Ages ==
    ASSUME NEW a \in Nat, NEW b \in Nat, a <= b
    PROVE  /\ \A x : IsSession(x) /\ Old(x, a) => Old(x, b)
           /\ \A y \in Valid : Sound(y, a) => Sound(y, b)
<1>2. ASSUME NEW x, IsSession(x), Old(x, a) PROVE Old(x, b)
  BY <1>2, StampOf DEF Old
<1>3. ASSUME NEW y \in Valid, Sound(y, a) PROVE Sound(y, b)
  <2>1. y.owner.hash \in Nat /\ \A n \in Names : y.users[n] # None => y.users[n].hash \in Nat
    BY LoginOf, NamesAssumption
  <2> QED
    BY <1>3, <2>1 DEF Sound
<1> QED
  BY <1>2, <1>3

\* A save that leaves the logins, or changes them and says which sessions end.
LEMMA LoginSaved ==
    ASSUME OneByOne, TextInv, FileInv, LoginInv, ops' \in {ops, ops + 1},
           NEW who, NEW new \in Valid, NEW tell, NEW m, NEW e,
           StartSave(who, new, tell, m, e),
           ended \subseteq e, e \subseteq ended \cup sessions, \A x \in e : Out(x, new),
           Sound(new, ops'), UNCHANGED <<backup, ended>>,
           \A x \in sessions' \ sessions : Old(x, ops')
    PROVE  LoginInv'
<1>1. savers = {} /\ settings' = new /\ file' = file
  BY BeginsAlone
<1>2. PICK s : savers' = {s} /\ s.ended = e
  BY BeginsAlone
<1>3. ops \in Nat /\ ops' \in Nat /\ ops <= ops'
  BY DEF TextInv
<1>4. Sound(backup, ops')
  BY <1>3, Ages DEF LoginInv, TextInv
<1>5. \A x \in ended \cup sessions : Old(x, ops')
  BY <1>3, Ages DEF LoginInv, TextInv
<1>6. Sound(file, ops')
  BY <1>3, Ages DEF LoginInv, FileInv
<1>7. \A y \in {settings', file', backup'} : Sound(y, ops')
  BY <1>1, <1>4, <1>6
<1>8. \A x \in sessions' \cup ended' : Old(x, ops')
  BY <1>5
<1>9. \A o \in savers' : \A x \in o.ended : Old(x, ops') /\ Out(x, settings')
  BY <1>1, <1>2, <1>5
<1>10. \A x \in ended' : Out(x, settings') /\ Out(x, file')
  BY <1>1 DEF LoginInv
<1> QED
  BY <1>7, <1>8, <1>9, <1>10 DEF LoginInv

LEMMA LoginsLeft ==
    ASSUME Ordinary, OneByOne, TextInv, FileInv, LoginInv, ops' \in {ops, ops + 1},
           NEW who, NEW new \in Valid, NEW tell, NEW m,
           StartSave(who, new, tell, m, ended), KeepsLogins(new),
           UNCHANGED <<backup, ended, sessions>>
    PROVE  LoginInv'
<1>1. (\A x : Out(x, new) <=> Out(x, settings)) /\ Sound(new, ops)
  BY SameLogins DEF KeepsLogins, LoginInv
<1>2. Sound(new, ops')
  <2>1. ops \in Nat /\ ops' \in Nat /\ ops <= ops'
    BY DEF TextInv
  <2> QED
    BY <1>1, <2>1, Ages
<1>3. \A x \in ended : Out(x, new)
  BY <1>1 DEF LoginInv
<1> QED
  BY <1>2, <1>3, LoginSaved

\* A user added, changed or deleted.
LEMMA UserEnds ==
    ASSUME Ordinary, OneByOne, NoReturn, TextInv, FileInv, LoginInv, ops' = ops + 1,
           NEW n \in Names, UNCHANGED <<backup, ended, sessions>>,
           \/ \E roles \in Pages :
                 AddUser(n, roles) \/ \E pass \in BOOLEAN : SaveUser(n, roles, pass)
           \/ DeleteUser(n)
    PROVE  LoginInv'
<1>1. PICK new \in Valid, l \in Logins \cup {None}, e \in {ended, ended \cup SessionsOf(n)} :
         /\ StartSave("post", new, {}, meant, e)
         /\ new.users = [settings.users EXCEPT ![n] = l] /\ new.owner = settings.owner
         /\ \/ /\ settings.users[n] = None /\ n # settings.owner.name
               /\ l \in Logins /\ l.hash = Hash /\ e = ended
            \/ /\ settings.users[n] # None /\ e = ended \cup SessionsOf(n)
               /\ \/ l = None
                  \/ /\ l \in Logins /\ l.hash \in {Hash, settings.users[n].hash}
                     /\ NewLogin(n, <<"user", l>>)
         /\ KeepsLooks(new) /\ KeepsViews(new)
  BY UserSaved
<1>2. /\ settings \in Valid /\ ops \in Nat /\ Sound(settings, ops)
      /\ settings.users \in [Names -> Logins \cup {None}]
      /\ settings.owner.name \in Names
  BY LoginOf DEF TextInv, LoginInv
<1>3. n # settings.owner.name
  BY <1>1, <1>2 DEF Sound
<1>4. /\ new.users[n] = l
      /\ \A o \in Names \ {n} : new.users[o] = settings.users[o]
  BY <1>1, <1>2
<1>5. e \subseteq ended \cup sessions /\ ended \subseteq e
  BY <1>1 DEF SessionsOf
<1>6. \A x \in e : IsSession(x) /\ Old(x, ops)
  BY <1>5 DEF TextInv, LoginInv
<1>7. l # None => l \in Logins /\ l.hash \in Nat /\ l.hash <= ops + 1
  <2>1. l # None => l \in Logins /\ l.hash \in Nat
    BY DEF Logins
  <2>2. settings.users[n] # None => settings.users[n].hash \in Nat /\ settings.users[n].hash <= ops
    BY <1>2, LoginOf DEF Sound
  <2>3. l # None => l.hash \in {Hash, settings.users[n].hash} /\ (l.hash = Hash \/ settings.users[n] # None)
    BY <1>1
  <2> QED
    BY <1>2, <2>1, <2>2, <2>3 DEF Hash
<1>8. Sound(new, ops + 1)
  <2>1. \A o \in Names : new.users[o] # None => new.users[o].hash <= ops + 1
    <3> TAKE o \in Names
    <3>1. settings.users[o] # None =>
             settings.users[o].hash \in Nat /\ settings.users[o].hash <= ops
      BY <1>2, LoginOf DEF Sound
    <3> QED
      BY <1>2, <1>4, <1>7, <3>1
  <2>2. new.owner = settings.owner /\ settings.owner.hash \in Nat /\ settings.owner.hash <= ops
    BY <1>1, <1>2, LoginOf, NamesAssumption DEF Sound
  <2>3. new.users[new.owner.name] = None
    BY <1>2, <1>3, <1>4, <2>2 DEF Sound
  <2> QED
    BY <1>2, <2>1, <2>2, <2>3 DEF Sound
<1>9. ASSUME NEW x \in e PROVE Out(x, new)
  <2>1. IsSession(x) /\ Old(x, ops) /\ x \in ended \cup sessions
    BY <1>5, <1>6, <1>9
  <2>2. CASE x.user # n
    <3>1. x \in ended
      BY <1>1, <2>2 DEF SessionsOf
    <3>2. Out(x, settings) /\ x.user \in Names
      BY <2>1, <3>1, StampOf DEF LoginInv
    <3> QED
      BY <1>1, <1>4, <2>2, <3>2 DEF Out, CredOf
  <2>3. CASE x.user = n
    <3>1. CredOf(new, n) = IF l = None THEN None ELSE <<"user", l>>
      BY <1>1, <1>3, <1>4 DEF CredOf
    <3>2. CASE l = None
      BY <2>1, <2>3, <3>1, <3>2, StampOf DEF Out
    <3>3. CASE settings.users[n] = None /\ l.hash = Hash
      <4>1. x.cred[2].hash \in Nat /\ x.cred[2].hash <= ops
        BY <2>1, StampOf DEF Old
      <4>2. x.cred # <<"user", l>>
        BY <1>2, <3>3, <4>1 DEF Hash
      <4> QED
        BY <1>7, <2>1, <2>3, <3>1, <4>2, StampOf DEF Out
    <3>4. CASE NewLogin(n, <<"user", l>>) /\ l # None
      <4>1. [user |-> n, cred |-> <<"user", l>>] \notin sessions \cup ended
        BY <3>4 DEF NewLogin, NoReturn
      <4>2. x # [user |-> n, cred |-> <<"user", l>>]
        BY <2>1, <4>1
      <4>3. x = [user |-> n, cred |-> x.cred]
        BY <2>1, <2>3, StampOf
      <4>4. x.cred # <<"user", l>>
        BY <4>2, <4>3
      <4> QED
        BY <2>3, <3>1, <3>4, <4>4 DEF Out
    <3> QED
      BY <1>1, <3>2, <3>3, <3>4
  <2> QED
    BY <2>2, <2>3
<1> QED
  BY <1>1, <1>5, <1>8, <1>9, LoginSaved

\* A login changed by whoever it is.
LEMMA NotReturned ==
    ASSUME NoReturn, TextInv, NEW n \in Names, NEW cred, NewLogin(n, cred),
           NEW x \in ended \cup sessions, x.user = n
    PROVE  x.cred # cred
<1>1. x = [user |-> n, cred |-> x.cred]
  BY StampOf DEF TextInv
<1>2. [user |-> n, cred |-> cred] \notin sessions \cup ended
  BY DEF NewLogin, NoReturn
<1> QED
  BY <1>1, <1>2

LEMMA AccountEnds ==
    ASSUME Ordinary, OneByOne, NoReturn, TextInv, FileInv, LoginInv, ops' = ops + 1,
           UNCHANGED <<backup, ended>>,
           NEW s \in sessions, NEW name \in Names, NEW pass \in BOOLEAN,
           Account(s, name, pass)
    PROVE  LoginInv'
<1> DEFINE e == ended \cup SessionsOf(s.user)
<1>1. PICK new \in Valid, cred \in Stamps :
         /\ StartSave("post", new, {}, meant, ended \cup SessionsOf(s.user))
         /\ SignedIn(s) /\ NewLogin(name, cred)
         /\ sessions' = (sessions \ {s}) \cup {[user |-> name, cred |-> cred]}
         /\ \/ /\ s.user = settings.owner.name /\ new.users = settings.users
               /\ name = s.user \/ settings.users[name] = None
               /\ new.owner.name = name /\ cred = <<"owner", new.owner>>
               /\ new.owner.hash \in {settings.owner.hash, Hash}
            \/ /\ s.user # settings.owner.name /\ new.owner = settings.owner
               /\ name = s.user /\ settings.users[name] # None
               /\ \E l \in Logins :
                     /\ new.users = [settings.users EXCEPT ![name] = l]
                     /\ cred = <<"user", l>> /\ l.hash = Hash
         /\ KeepsLooks(new) /\ KeepsViews(new)
  BY AccountSaved
<1>2. /\ settings \in Valid /\ ops \in Nat /\ Sound(settings, ops)
      /\ settings.users \in [Names -> Logins \cup {None}]
      /\ settings.owner.name \in Names /\ settings.owner.hash \in Nat
      /\ \A o \in Names : settings.users[o] # None => settings.users[o].hash \in Nat
  BY LoginOf, NamesAssumption DEF TextInv, LoginInv
<1>3. e \subseteq ended \cup sessions /\ ended \subseteq e
  BY DEF SessionsOf
<1>4. \A x \in e : IsSession(x) /\ x.user \in Names /\ x.cred # None
  BY <1>3, StampOf DEF TextInv
<1>5. \A x \in e : x.user # s.user => x \in ended /\ Out(x, settings)
  BY DEF SessionsOf, LoginInv
<1>6. \A x \in e : x.user = name => x.cred # cred
  BY <1>1, <1>3, NotReturned
<1>7. CASE /\ s.user = settings.owner.name /\ new.users = settings.users
           /\ name = s.user \/ settings.users[name] = None
           /\ new.owner.name = name /\ cred = <<"owner", new.owner>>
           /\ new.owner.hash \in {settings.owner.hash, Hash}
  <2>1. new.owner.hash <= ops + 1
    BY <1>2, <1>7 DEF Hash, Sound
  <2>2. \A o \in Names : new.users[o] # None => new.users[o].hash <= ops + 1
    BY <1>2, <1>7 DEF Sound
  <2>3. new.users[new.owner.name] = None
    BY <1>2, <1>7 DEF Sound
  <2>4. Sound(new, ops + 1)
    BY <2>1, <2>2, <2>3 DEF Sound
  <2>5. ASSUME NEW x \in e PROVE Out(x, new)
    <3>1. CASE x.user = name
      <4>1. CredOf(new, x.user) = cred
        BY <1>7, <3>1 DEF CredOf
      <4> QED
        BY <1>6, <3>1, <4>1 DEF Out
    <3>2. CASE x.user # name /\ x.user = s.user
      <4>1. settings.users[x.user] = None
        BY <1>2, <1>7, <3>2 DEF Sound
      <4>2. CredOf(new, x.user) = None
        BY <1>7, <3>2, <4>1 DEF CredOf
      <4> QED
        BY <1>4, <4>2 DEF Out
    <3>3. CASE x.user # name /\ x.user # s.user
      <4>1. CredOf(new, x.user) = CredOf(settings, x.user)
        BY <1>7, <3>3 DEF CredOf
      <4> QED
        BY <1>5, <3>3, <4>1 DEF Out
    <3> QED
      BY <3>1, <3>2, <3>3
  <2>6. Old([user |-> name, cred |-> cred], ops + 1)
    BY <1>7, <2>1 DEF Old
  <2>7. \A x \in sessions' \ sessions : Old(x, ops')
    BY <1>1, <2>6
  <2> QED
    BY <1>1, <1>3, <2>4, <2>5, <2>7, LoginSaved
<1>8. ASSUME s.user # settings.owner.name, new.owner = settings.owner,
             name = s.user, settings.users[name] # None,
             NEW l \in Logins, new.users = [settings.users EXCEPT ![name] = l],
             cred = <<"user", l>>, l.hash = Hash
      PROVE  LoginInv'
  <2>1. new.users[name] = l /\ \A o \in Names \ {name} : new.users[o] = settings.users[o]
    BY <1>2, <1>8
  <2>2. l.hash \in Nat /\ l.hash <= ops + 1 /\ l # None
    BY <1>2, <1>8, NoneAssumption DEF Hash
  <2>3. \A o \in Names : new.users[o] # None => new.users[o].hash <= ops + 1
    BY <1>2, <2>1, <2>2 DEF Sound
  <2>4. new.owner.hash <= ops + 1 /\ new.users[new.owner.name] = None
    BY <1>2, <1>8, <2>1 DEF Sound
  <2>5. Sound(new, ops + 1)
    BY <2>3, <2>4 DEF Sound
  <2>6. ASSUME NEW x \in e PROVE Out(x, new)
    <3>1. CASE x.user = name
      <4>1. CredOf(new, x.user) = cred
        BY <1>8, <2>1, <2>2, <3>1 DEF CredOf
      <4> QED
        BY <1>6, <3>1, <4>1 DEF Out
    <3>2. CASE x.user # name
      <4>1. CredOf(new, x.user) = CredOf(settings, x.user)
        BY <1>4, <1>8, <2>1, <3>2 DEF CredOf
      <4> QED
        BY <1>5, <1>8, <3>2, <4>1 DEF Out
    <3> QED
      BY <3>1, <3>2
  <2>7. Old([user |-> name, cred |-> cred], ops + 1)
    BY <1>8, <2>2 DEF Old
  <2>8. \A x \in sessions' \ sessions : Old(x, ops')
    BY <1>1, <2>7
  <2> QED
    BY <1>1, <1>3, <2>5, <2>6, <2>8, LoginSaved
<1> QED
  BY <1>1, <1>7, <1>8

LEMMA LoginKept ==
    ASSUME Ordinary, OneByOne, NoReturn, MeetInv, TextInv, FileInv, LoginInv,
           [PiNext]_allVars
    PROVE  LoginInv'
<1>ops. ops \in Nat /\ ops' \in {ops, ops + 1} /\ ops' \in Nat /\ ops <= ops'
  BY OpsKept DEF TextInv
\* What stays as it is stays sound.
<1>aged. /\ \A y \in {settings, file, backup} : y \in Valid /\ Sound(y, ops')
         /\ \A x \in sessions \cup ended : Old(x, ops')
         /\ \A s \in savers : \A x \in s.ended : Old(x, ops')
  <2>1. \A y \in {settings, file, backup} : y \in Valid /\ Sound(y, ops)
    BY DEF LoginInv, TextInv, FileInv
  <2>2. \A x \in sessions \cup ended : IsSession(x) /\ Old(x, ops)
    BY DEF LoginInv, TextInv
  <2>3. \A s \in savers : \A x \in s.ended : IsSession(x) /\ Old(x, ops)
    BY DEF LoginInv, TextInv
  <2> QED
    BY <1>ops, <2>1, <2>2, <2>3, Ages
<1>1. ASSUME UNCHANGED <<settings, file, savers, backup, ended>>,
             \A x \in sessions' : Old(x, ops')
      PROVE  LoginInv'
  BY <1>aged, <1>1 DEF LoginInv
<1>2. CASE Still \/ UNCHANGED allVars
  <2>1. UNCHANGED <<settings, file, savers, backup, ended, sessions>>
    BY <1>2, StillLeaves DEF allVars, piVars, onDisk, backups, history
  <2> QED
    BY <1>1, <1>aged, <2>1
<1>3. ASSUME NEW n \in Names, SignIn(n) PROVE LoginInv'
  <2>1. /\ UNCHANGED <<settings, file, savers, backup, ended>> /\ Credential(n) # None
        /\ sessions' = sessions \cup {[user |-> n, cred |-> Credential(n)]}
    BY <1>3 DEF SignIn, onDisk, backups, history
  <2>2. Credential(n) = CredOf(settings, n)
    BY DEF Credential, CredOf
  <2>3. Old([user |-> n, cred |-> Credential(n)], ops')
    BY <1>ops, <1>aged, <2>1, <2>2, CredOld
  <2> QED
    BY <1>1, <1>aged, <2>1, <2>3
<1>4. CASE Post
  <2> SUFFICES ASSUME UNCHANGED <<backup, ended>>, ops' = ops + 1 PROVE LoginInv'
    BY <1>3, <1>4, PostLeaves DEF Left, backups, history
  <2>1. ASSUME NEW k \in Fields, NEW raw \in Numbers, PostField(k, raw) PROVE LoginInv'
    <3>1. UNCHANGED sessions
      BY <2>1 DEF PostField
    <3> QED
      BY <2>1, <3>1, FieldSaved, LoginsLeft
  <2>2. ASSUME NEW c \in Consoles, PostConsole(c) PROVE LoginInv'
    <3>1. UNCHANGED sessions
      BY <2>2 DEF PostConsole
    <3> QED
      BY <2>2, <3>1, ConsoleSaved, LoginsLeft
  <2>3. ASSUME NEW look \in Looks, NEW page \in Uids \cup {NoUid}, PostLook(look, page)
        PROVE  LoginInv'
    <3>1. UNCHANGED sessions
      BY <2>3 DEF PostLook
    <3>2. PICK new \in Valid :
             StartSave("post", new, {}, Asked(look, page), ended) /\ KeepsLogins(new)
      BY <2>3, LookSaved
    <3> QED
      BY <3>1, <3>2, LoginsLeft
  <2>4. ASSUME NEW n \in Names,
               \/ \E roles \in Pages :
                     AddUser(n, roles) \/ \E pass \in BOOLEAN : SaveUser(n, roles, pass)
               \/ DeleteUser(n)
        PROVE  LoginInv'
    <3>1. UNCHANGED sessions
      BY <2>4 DEF AddUser, SaveUser, DeleteUser
    <3> QED
      BY <2>4, <3>1, UserEnds
  <2> QED
    BY <1>3, <1>4, <2>1, <2>2, <2>3, <2>4, AccountEnds DEF Post
<1>5. ASSUME NEW d \in TVs, Loops(d) PROVE LoginInv'
  <2>1. UNCHANGED <<backup, ended, sessions>>
    BY <1>5 DEF Loops, TVRegister, TVForget, TVView, Asks, backups, history
  <2>2. CASE UNCHANGED <<settings, onDisk>>
    BY <1>1, <1>aged, <2>1, <2>2 DEF onDisk
  <2>3. ASSUME NEW new \in Valid, NEW tell, StartSave(d, new, tell, meant, ended),
               KeepsLogins(new)
        PROVE  LoginInv'
    BY <1>ops, <2>1, <2>3, LoginsLeft
  <2>4. \/ UNCHANGED <<settings, onDisk>>
        \/ \E tell : \E new \in Valid :
              StartSave(d, new, tell, meant, ended) /\ KeepsLogins(new)
    BY <1>5, ViewSaved
  <2> QED
    BY <2>2, <2>3, <2>4
<1>6. CASE NameMeetPi \/ UnloadPi
  <2>1. PICK new \in Valid : SavedAs(new) /\ KeepsLogins(new)
    BY <1>6, MeetShown, MeetPutAway
  <2>2. savers = {} /\ settings' = new /\ file' = new /\ savers' = {}
    BY <2>1 DEF SavedAs
  <2>3. UNCHANGED <<sessions, backup, ended>>
    BY <1>6 DEF NameMeetPi, UnloadPi, backups, history
  <2>4. (\A x : Out(x, new) <=> Out(x, settings)) /\ Sound(new, ops')
    BY <1>aged, <2>1, SameLogins DEF KeepsLogins
  <2> QED
    BY <1>aged, <2>2, <2>3, <2>4 DEF LoginInv
<1>7. ASSUME NEW s \in savers, WriteSave(s) PROVE LoginInv'
  <2>1. PICK a : savers' = {a} /\ a.ended = s.ended
    BY <1>7, WritesAlone
  <2>2. UNCHANGED <<settings, file, backup, ended, sessions>>
    BY <1>7, WritesAlone DEF WriteSave, backups, history
  <2> QED
    BY <1>aged, <2>1, <2>2 DEF LoginInv
<1>8. ASSUME NEW s \in savers, EndSave(s) PROVE LoginInv'
  <2>1. /\ savers' = {} /\ file' = settings /\ settings' = settings /\ ended' = s.ended
    BY <1>8, EndsAlone
  <2>2. UNCHANGED <<backup, sessions>>
    BY <1>8 DEF EndSave, backups
  <2> QED
    BY <1>aged, <2>1, <2>2 DEF LoginInv
<1>9. CASE Restore
  <2>1. /\ savers = {} /\ file' = backup /\ ended' = {}
        /\ UNCHANGED <<settings, savers, sessions, backup>>
    BY <1>9 DEF Restore
  <2> QED
    BY <1>aged, <2>1 DEF LoginInv
<1>10. CASE Restart
  <2>1. /\ settings' = file /\ savers' = {}
        /\ UNCHANGED <<file, sessions, backup, ended>>
    BY <1>10 DEF Restart, history
  <2> QED
    BY <1>aged, <2>1 DEF LoginInv
<1> QED
  BY <1>2, <1>4, <1>5, <1>6, <1>7, <1>8, <1>9, <1>10 DEF PiNext, Still, TV, Loops, Saving

LEMMA InitLogins == PiInit => LoginInv
<1> SUFFICES ASSUME PiInit PROVE LoginInv
  OBVIOUS
<1>1. PICK look \in Looks, own \in Looks, f \in Lenex : settings = Before(look, f, own)
  BY DEF PiInit
<1>2. /\ settings.owner = [name |-> First, hash |-> 0]
      /\ settings.users = [n \in Names |->
             IF n = First THEN None ELSE [hash |-> 0, roles |-> {"mm"}]]
  BY <1>1 DEF Before
<1>3. /\ file = settings /\ backup = settings /\ savers = {} /\ ended = {} /\ ops = 0
      /\ sessions = {[user |-> n, cred |-> Credential(n)] : n \in Names}
  BY DEF PiInit, Init
<1>4. Sound(settings, 0)
  <2>1. settings.users[First] = None /\ settings.owner.name = First /\ settings.owner.hash = 0
    BY <1>2, NamesAssumption
  <2>2. ASSUME NEW n \in Names, settings.users[n] # None PROVE settings.users[n].hash = 0
    BY <1>2, <2>2
  <2> QED
    BY <2>1, <2>2 DEF Sound
<1>5. settings \in Valid /\ \A x \in sessions : IsSession(x)
  BY InitText DEF TextInv
<1>6. ASSUME NEW x \in sessions PROVE Old(x, 0)
  <2>1. PICK n \in Names : x = [user |-> n, cred |-> Credential(n)]
    BY <1>3
  <2>2. Credential(n) = CredOf(settings, n)
    BY DEF Credential, CredOf
  <2>3. Credential(n) # None
    BY <1>5, <2>1, StampOf
  <2> QED
    BY <1>4, <1>5, <2>1, <2>2, <2>3, CredOld
<1> QED
  BY <1>3, <1>4, <1>6 DEF LoginInv

\* A change of a login ends its other sessions, through deletion, a new user of
\* the same name, a restore and restarts (web.credentials_stamp, user_credential).
THEOREM LoginsEnd ==
    Ordinary /\ OneByOne /\ NoReturn => (PiSpec => []LoginEndsSessions)
<1> SUFFICES ASSUME Ordinary, OneByOne, NoReturn PROVE PiSpec => []LoginEndsSessions
  OBVIOUS
<1>1. PiInit => LoginInv
  BY InitLogins
<1>2. MeetInv /\ TextInv /\ FileInv /\ LoginInv /\ [PiNext]_allVars => LoginInv'
  BY LoginKept
<1>3. LoginInv => LoginEndsSessions
  BY DEF LoginInv, LoginEndsSessions, SignedIn, Out, CredOf, Credential
<1> QED
  BY <1>1, <1>2, <1>3, FileHolds, PTL DEF PiSpec
=============================================================================
