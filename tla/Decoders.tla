------------------------------- MODULE Decoders -------------------------------
(***************************************************************************)
(* The timing-console decoders (src/server/console_decoders) and the part  *)
(* of the worker that feeds them: `feed`, `tick`, `reset_lanes` and        *)
(* `race_finished` of each decoder, the start lists and seed times loaded  *)
(* after an event_changed, the board reset a second after a race left the  *)
(* finished state, a heat set by hand, and a server restarted mid-meet.    *)
(*                                                                         *)
(* The updates a decoder returns name the fields it changed and the values *)
(* they now have, so the model keeps the decoder's own fields only.        *)
(***************************************************************************)
EXTENDS TimingConsole

CONSTANTS
    KnownLists, \* the start lists may be known (TRUE), unknown (FALSE)
    SlowReset   \* BOOLEAN: a touch may come before the board's reset is done

ASSUME KnownAssumption == KnownLists \subseteq BOOLEAN /\ SlowReset \in BOOLEAN

VARIABLES
    known,  \* BOOLEAN: the loaded meet has the heats on the wire
    dec     \* the decoder, and what the worker keeps beside it

decoderVars == <<consoleVars, known, dec>>

RunningClock == 1    \* what a Gen7 lane shows while it follows the clock
NoHalf == [t |-> "none"]
None == [l \in Lanes |-> 0]
Still == [l \in Lanes |-> FALSE]

NewDecoder ==
    [heat |-> 0, seeds |-> 0, lanes |-> {}, time |-> None, place |-> None, running |-> Still,
     splits |-> None, active |-> FALSE, half |-> NoHalf, used |-> {}, lengths |-> 0,
     finish |-> None, line |-> None, done |-> FALSE, next |-> 0, held |-> FALSE,
     stop |-> [l \in Lanes |-> "no"], mods |-> [l \in Lanes |-> NoHalf], reset |-> FALSE]

\* split_step with pads at both ends: one length a touch.
SplitStep == 1

Blanked(d) == [d EXCEPT !.time = None, !.place = None, !.running = Still, !.splits = None]

\* Each decoder's reset_lanes: what it forgets beside the lanes themselves.
ResetQuantum(d) == [Blanked(d) EXCEPT !.seeds = 0, !.active = FALSE]
ResetRtd(d)     == [Blanked(d) EXCEPT !.seeds = 0, !.active = FALSE]
ResetAlge(d)    == [Blanked(d) EXCEPT !.finish = None, !.active = FALSE]
ResetSeiko(d)   == [Blanked(d) EXCEPT !.active = FALSE]
ResetSwiss(d)   == [Blanked(d) EXCEPT !.line = None, !.active = FALSE]
ResetDolphin(d) == [Blanked(d) EXCEPT !.finish = None, !.done = FALSE]
ResetGen6(d)    == [Blanked(d) EXCEPT !.stop = NewDecoder.stop]
ResetGen7(d)    == [Blanked(d) EXCEPT !.stop = NewDecoder.stop, !.seeds = 0]

ResetLanes(d) ==
    CASE kind = "quantum" -> ResetQuantum(d)
      [] kind \in RTD     -> ResetRtd(d)
      [] kind = "alge"    -> ResetAlge(d)
      [] kind = "seiko"   -> ResetSeiko(d)
      [] kind \in Swiss   -> ResetSwiss(d)
      [] kind = "dolphin" -> ResetDolphin(d)
      [] kind = "gen6"    -> ResetGen6(d)
      [] kind = "gen7"    -> ResetGen7(d)

\* The same lanes cleared for another race of the heat, its seeds kept.
ResetForReswim(d) == [ResetLanes(d) EXCEPT !.seeds = d.seeds]

\* A heat the decoder had not announced: `event_changed`.
NewHeat(d, h) == IF h = d.heat THEN d ELSE [ResetLanes(d) EXCEPT !.heat = h, !.seeds = 0]

\* Mutant: a race is finished once its times have places.
FinishedOncePlaced(d) ==
    /\ \A l \in Lanes : d.time[l] # 0 => d.place[l] # 0
    /\ \E l \in Lanes : d.time[l] # 0

Finished(d) ==
    IF kind = "dolphin" THEN d.done
    ELSE /\ \A l \in Lanes : ~d.running[l] /\ (d.time[l] # 0 => d.place[l] # 0)
         /\ \E l \in Lanes : d.time[l] # 0

\* Mutant: a whole-pool start puts every lane in the water.
EveryLaneStarts(d) == Lanes

\* lanes_to_start: the start list's, failing that those a Quantum marks used.
LanesToStart(d) ==
    IF d.lanes # {} THEN d.lanes
    ELSE IF kind = "quantum" /\ d.used # {} THEN d.used ELSE Lanes

\* The lanes that have a time.
Timed(d) == {l \in Lanes : d.time[l] # 0}

\* A whole-pool start puts the lanes in the water that are not in `dry`.
Started(d, dry) ==
    IF d.active THEN d
    ELSE [d EXCEPT !.active = TRUE,
                   !.running = [l \in Lanes |-> @[l] \/ l \in LanesToStart(d) \ dry]]

Cleared(d, l) == [d EXCEPT !.time[l] = 0, !.place[l] = 0]

GoesAgain(d, l) == IF d.active THEN [d EXCEPT !.running[l] = TRUE] ELSE d

-----------------------------------------------------------------------------
(* Quantum: a message is a pair of frames.                                  *)

QuantumPair(d0, p, q) ==
    LET d == IF p.used = {} THEN d0 ELSE [d0 EXCEPT !.used = p.used]
        l == q.lane
        timed == [d EXCEPT !.time[l] = q.time, !.place[l] = IF p.rank > 0 THEN p.rank ELSE @]
    IN  CASE p.a = "0" /\ p.heat # d.heat -> NewHeat(d, p.heat)
          [] p.a = "0" /\ p.heat = d.heat ->
                IF d.active \/ Timed(d) # {} THEN ResetForReswim(d) ELSE d
          [] p.a = "2" /\ p.b = "S" -> Started(d, Timed(d))
          [] p.a = "2" /\ p.b # "S" /\ l = 0 -> d
          [] p.a = "2" /\ p.b = "A" /\ l # 0 /\ q.time = 0 -> [d EXCEPT !.running[l] = FALSE]
          [] p.a = "2" /\ p.b = "I" /\ l # 0 /\ q.time = 0 -> d
          [] p.a = "2" /\ p.b = "I" /\ l # 0 /\ q.time # 0 -> [timed EXCEPT !.splits[l] = q.lap]
          [] p.a = "2" /\ p.b = "A" /\ l # 0 /\ q.time # 0 -> [timed EXCEPT !.running[l] = FALSE]
          [] p.a = "1" -> [d EXCEPT !.active = FALSE]

FeedQuantum(d, m) ==
    CASE m.t = "pt1" -> [d EXCEPT !.half = m]
      [] m.t = "pt2" /\ d.half = NoHalf -> d
      [] m.t = "pt2" /\ d.half # NoHalf -> QuantumPair([d EXCEPT !.half = NoHalf], d.half, m)

-----------------------------------------------------------------------------
(* Daktronics RTD: OmniSport 2000 and ARES 21.  The buffer's fields are      *)
(* read as they are written; only the race's lengths are read later.        *)

\* The clock leaves zero: the start, for the lanes that have no place.
RtdClock(d, m) ==
    IF m.zero THEN [d EXCEPT !.active = FALSE]
    ELSE Started(d, {l \in Lanes : d.place[l] # 0})

\* A result line: no result without a place, and a finish at the last length
\* or where no lengths are told.
ReadLine(d, m) ==
    LET l == m.line
        finishes == d.lengths = 0 \/ m.lengths = 0 \/ m.lengths >= d.lengths
    IN  IF m.place = 0
        THEN IF m.time = 0 /\ d.time[l] # 0 THEN Cleared(d, l) ELSE d
        ELSE [d EXCEPT !.time[l] = m.time, !.place[l] = m.place,
                       !.splits[l] = IF m.lengths # 0 THEN m.lengths ELSE @,
                       !.running[l] = @ /\ ~finishes]

FeedRtd(d, m) ==
    CASE m.t = "heat"    -> NewHeat(d, m.heat)
      [] m.t = "lengths" -> [d EXCEPT !.lengths = m.n]
      [] m.t = "clock"   -> RtdClock(d, m)
      [] m.t = "line"    -> ReadLine(d, m)

-----------------------------------------------------------------------------
(* ALGE TM-SWIM, Seiko PT-8000.                                             *)

AlgeStart(d) ==
    LET fresh == IF d.active \/ Timed(d) = {} THEN d ELSE ResetForReswim(d)
    IN  Started(fresh, {})

\* Places from the finish times so far.
Ranked(d) ==
    [d EXCEPT !.place = [k \in Lanes |->
        IF d.finish[k] = 0 THEN @[k]
        ELSE 1 + Cardinality({j \in Lanes : d.finish[j] # 0 /\ d.finish[j] < d.finish[k]})]]

AlgeClock(d0, m) ==
    LET d == NewHeat(d0, m.heat)
    IN  IF m.zero THEN [d EXCEPT !.active = FALSE] ELSE IF d.active THEN d ELSE AlgeStart(d)

AlgeTime(d0, m) ==
    LET l == m.lane
        d == [d0 EXCEPT !.time[l] = m.time, !.splits[l] = m.touches * SplitStep,
                        !.place[l] = IF m.rank # 0 THEN m.rank ELSE @]
    IN  IF m.t = "I" THEN GoesAgain(d, l)
        ELSE LET f == [d EXCEPT !.running[l] = FALSE, !.finish[l] = m.time]
             IN  IF m.rank # 0 THEN f ELSE Ranked(f)

FeedAlge(d, m) ==
    CASE m.t = "start" -> AlgeStart(d)
      [] m.t = "clock" -> AlgeClock(d, m)
      [] m.t = "C"     -> GoesAgain(Cleared([d EXCEPT !.finish[m.lane] = 0], m.lane), m.lane)
      [] m.t \in {"I", "F"} -> AlgeTime(d, m)

SeikoClock(d, m) ==
    IF m.zero THEN [d EXCEPT !.active = FALSE]
    ELSE IF d.active THEN d ELSE Started(ResetForReswim(d), {})

SeikoTouch(d, m) ==
    [d EXCEPT !.time[m.lane] = m.time,
              !.place[m.lane] = IF m.order # 0 THEN m.order ELSE @,
              !.splits[m.lane] = @ + SplitStep, !.running[m.lane] = m.t = "L"]

FeedSeiko(d, m) ==
    CASE m.t = "clock" -> SeikoClock(d, m)
      [] m.t \in {"L", "G"} -> SeikoTouch(d, m)

-----------------------------------------------------------------------------
(* Swiss Timing scoreboard lines: a time on a line is a touch.               *)

SwissLine(d0, m) ==
    LET l == m.lane
        d == [d0 EXCEPT !.line[m.line] = l]
        touched == IF m.time = d.time[l] THEN d
                   ELSE [d EXCEPT !.time[l] = m.time,
                                  !.splits[l] = IF d.active THEN @ + SplitStep ELSE @]
    IN  [touched EXCEPT !.place[l] = m.rank, !.running[l] = FALSE]

SwissErased(d0, m) ==
    LET l == IF m.lane # 0 THEN m.lane ELSE d0.line[m.line]
        d == [d0 EXCEPT !.line[m.line] = 0]
    IN  IF l = 0 THEN d0
        ELSE GoesAgain(IF d.time[l] = 0 THEN d ELSE Cleared(d, l), l)

SwissClock(d, m) ==
    IF ~m.zero THEN Started(d, Timed(d)) ELSE IF d.active THEN ResetLanes(d) ELSE d

FeedSwiss(d, m) ==
    CASE m.t = "heat"     -> NewHeat(d, m.heat)
      [] m.t = "clock"    -> SwissClock(d, m)
      [] m.t = "new race" -> Started(ResetLanes(d), {})
      [] m.t = "line"     -> SwissLine(d, m)
      [] m.t = "erased"   -> SwissErased(d, m)

-----------------------------------------------------------------------------
(* CTS Dolphin: a race's lines come once it is over.                        *)

\* The software names the heat: followed at once, unless results are held.
DolphinHeat(d, m) ==
    IF m.heat = d.heat THEN [d EXCEPT !.next = 0]
    ELSE IF d.done /\ d.held THEN [d EXCEPT !.next = m.heat]
    ELSE NewHeat(d, m.heat)

DolphinLane(d, m) ==
    LET r == [d EXCEPT !.time[m.lane] = m.time, !.finish[m.lane] = m.time,
                       !.splits[m.lane] = m.splits]
    IN  [Ranked([r EXCEPT !.place = None]) EXCEPT !.done = TRUE, !.held = TRUE]

FeedDolphin(d, m) ==
    CASE m.t = "heat"   -> DolphinHeat(d, m)
      [] m.t = "race"   -> [d EXCEPT !.finish = None]
      [] m.t = "result" -> DolphinLane(d, m)

-----------------------------------------------------------------------------
(* CTS Gen6 and Gen7: each lane says whether it runs.                       *)

\* line_row: the lane a line names is its row, a line that names none is its own.
LineRow(m) == IF m.lane # 0 THEN m.lane ELSE m.line

\* A Gen6 stop counts once it has lasted split_min_duration, a line later.
Gen6Stop(d, l, prev, runs) ==
    CASE prev /\ ~runs -> [d EXCEPT !.stop[l] = "fresh"]
      [] runs -> [d EXCEPT !.stop[l] = "no"]
      [] ~prev /\ ~runs ->
            IF d.stop[l] # "fresh" THEN d
            ELSE [d EXCEPT !.stop[l] = "counted", !.splits[l] = @ + SplitStep]

FeedGen6(d, m) ==
    LET l == LineRow(m)
    IN  CASE m.t = "heat" -> NewHeat(d, m.heat)
          [] m.t = "lane" ->
                [Gen6Stop(d, l, d.running[l], m.running)
                    EXCEPT !.running[l] = m.running, !.time[l] = m.time, !.place[l] = m.place]

\* A Gen7 stop counts at once, and is taken back if the lane goes on too soon.
CountLengths(d, l, prev, m) ==
    CASE prev /\ ~m.running -> [d EXCEPT !.stop[l] = "fresh", !.splits[l] = @ + SplitStep]
      [] ~prev /\ m.running ->
            [d EXCEPT !.stop[l] = "no",
                      !.splits[l] = IF d.stop[l] = "fresh" /\ m.soon /\ @ > 0
                                    THEN @ - SplitStep ELSE @]
      [] OTHER -> d

\* One dirty lane module read out.
Gen7Lane(d, m) ==
    LET l == LineRow(m)
    IN  [CountLengths(d, l, d.running[l], m)
            EXCEPT !.running[l] = m.running, !.place[l] = m.place,
                   !.time[l] = IF m.running THEN RunningClock ELSE m.time]

\* The clock's module: the lanes that follow it are read out again, in the order of
\* the modules.
Gen7Clock(d, m) ==
    LET follows(l) == {k \in Lanes : /\ d.mods[k] # NoHalf /\ d.mods[k].running
                                     /\ LineRow(d.mods[k]) = l}
        again == {l \in Lanes : follows(l) # {}}
        counted(l) == CountLengths(d, l, d.running[l], [running |-> TRUE, soon |-> m.soon])
    IN  [d EXCEPT !.running = [l \in Lanes |-> @[l] \/ l \in again],
                  !.time = [l \in Lanes |-> IF l \in again THEN RunningClock ELSE @[l]],
                  !.place = [l \in Lanes |-> IF l \in again THEN d.mods[Max(follows(l))].place
                                             ELSE @[l]],
                  !.stop = [l \in Lanes |-> IF l \in again THEN counted(l).stop[l] ELSE @[l]],
                  !.splits = [l \in Lanes |-> IF l \in again THEN counted(l).splits[l]
                                              ELSE @[l]]]

FeedGen7(d, m) ==
    CASE m.t = "heat"  -> NewHeat(d, m.heat)
      [] m.t = "clock" -> Gen7Clock(d, m)
      [] m.t = "lane" /\ m.digits  -> Gen7Lane([d EXCEPT !.mods[m.line] = m], m)
      [] m.t = "lane" /\ ~m.digits ->
            [d EXCEPT !.mods[m.line] = IF @ = NoHalf THEN m ELSE [@ EXCEPT !.running = TRUE]]

-----------------------------------------------------------------------------
(* The worker.                                                              *)

Fed(d, m) ==
    CASE kind = "quantum" -> FeedQuantum(d, m)
      [] kind \in RTD     -> FeedRtd(d, m)
      [] kind = "alge"    -> FeedAlge(d, m)
      [] kind = "seiko"   -> FeedSeiko(d, m)
      [] kind \in Swiss   -> FeedSwiss(d, m)
      [] kind = "dolphin" -> FeedDolphin(d, m)
      [] kind = "gen6"    -> FeedGen6(d, m)
      [] kind = "gen7"    -> FeedGen7(d, m)

\* _on_event_changed: the new heat's seeds and lanes, from the loaded meet.
OnEventChanged(d) ==
    [d EXCEPT !.seeds = IF known THEN d.heat ELSE 0,
              !.lanes = IF known THEN Swimmers[d.heat] ELSE {}]

\* _apply_updates: the heat loaded if it changed; a race that leaves the
\* finished state asks for the board's reset, one that finishes calls it off.
Apply(d) ==
    LET e == IF d.heat # dec.heat THEN OnEventChanged(d) ELSE d
    IN  [e EXCEPT !.reset = ~Finished(e) /\ (@ \/ Finished(dec))]

Deliver ==
    /\ ~Quiet
    /\ wire' = Tail(wire)
    /\ dec' = Apply(Fed(dec, Head(wire)))
    /\ UNCHANGED <<kind, full, pool, lost, known>>

\* The clock goes on: at zero before the start where the console repeats it.
Tick ==
    /\ Quiet
    /\ \/ pool.phase = "racing" /\ kind \in {"alge", "seiko", "gen7"} \cup RTD
       \/ pool.phase = "racing" /\ kind \in Swiss /\ full
       \/ pool.phase = "ready" /\ kind = "alge"
    /\ dec' = Apply(Fed(dec, [t |-> "clock", zero |-> pool.phase = "ready",
                               heat |-> pool.heat, soon |-> FALSE]))
    /\ UNCHANGED <<consoleVars, known>>

\* dolphin_results_hold runs out, and the idle turn follows the console.
HoldEnds ==
    /\ kind = "dolphin" /\ dec.held
    /\ dec' = Apply([(IF dec.next # 0 THEN NewHeat(dec, dec.next) ELSE dec)
                         EXCEPT !.next = 0, !.held = FALSE])
    /\ UNCHANGED <<consoleVars, known>>

\* _do_board_reset, reset_debounce after the race left the finished state.
BoardIsReset ==
    /\ Quiet /\ dec.reset
    /\ dec' = [(IF Finished(dec) \/ dec.running # Still THEN dec ELSE ResetLanes(dec))
                   EXCEPT !.reset = FALSE]
    /\ UNCHANGED <<consoleVars, known>>

\* _worker_set_heat: no heat on a Seiko's wire, so the operator sets it.
SetHeat ==
    /\ Quiet /\ kind = "seiko" /\ pool.heat # dec.heat /\ pool.n = 0
    /\ dec' = [OnEventChanged([ResetLanes(dec) EXCEPT !.heat = pool.heat])
                  EXCEPT !.reset = FALSE]
    /\ UNCHANGED <<consoleVars, known>>

\* The server restarts: a decoder built anew.
Restart ==
    /\ Quiet /\ lost.all < MaxLost /\ dec # NewDecoder
    /\ dec' = NewDecoder
    /\ lost' = [all |-> lost.all + 1, since |-> lost.since + 1]
    /\ UNCHANGED <<kind, full, pool, wire, known>>

DecodersInit ==
    /\ ConsoleInit
    /\ known \in KnownLists
    /\ dec = NewDecoder

\* The next race starts once the board's reset, the operator and the results
\* hold have had their turn: seconds against the minutes between two races.
Settled ==
    /\ pool'.phase = "racing" /\ pool.phase = "ready" =>
          ~dec.reset /\ ~dec.held /\ (kind = "seiko" => dec.heat = pool.heat)
    /\ pool'.n > pool.n => SlowReset \/ ~dec.reset

Console == ConsoleStep /\ Settled /\ UNCHANGED <<known, dec>>

DecodersNext ==
    \/ Console \/ Deliver \/ Tick \/ HoldEnds \/ BoardIsReset \/ SetHeat \/ Restart
    \/ Lose /\ UNCHANGED <<known, dec>>

DecodersSpec == DecodersInit /\ [][DecodersNext]_decoderVars

-----------------------------------------------------------------------------
(* Properties.                                                              *)

\* The fields of the decoder keep their ranges, whatever was lost.
DecodersTypeOK ==
    /\ kind \in AllKinds /\ full \in BOOLEAN /\ known \in BOOLEAN
    /\ pool.heat \in 0..Len(Swimmers) /\ pool.race \in 0..MaxRaces
    /\ pool.phase \in {"ready", "racing", "over"} /\ pool.legs \in [Lanes -> 0..Legs]
    /\ lost.all \in 0..MaxLost /\ lost.since \in 0..lost.all
    /\ dec.heat \in 0..Len(Swimmers) /\ dec.seeds \in 0..Len(Swimmers)
    /\ dec.next \in 0..Len(Swimmers) /\ dec.lanes \subseteq Lanes /\ dec.used \subseteq Lanes
    /\ DOMAIN dec.time = Lanes /\ dec.place \in [Lanes -> 0..Cardinality(Lanes)]
    /\ dec.running \in [Lanes -> BOOLEAN] /\ DOMAIN dec.splits = Lanes

\* Everything since the console announced the heat was read, whatever was
\* lost before it.
Clean == Quiet /\ lost.since = 0 /\ pool.heat > 0

\* The decoder can know which lanes a whole-pool start puts in the water.
Decodable == known \/ kind \notin {"alge", "seiko"} \cup RTD \cup Swiss

\* A race whose messages all arrived is decoded as it was swum: its heat, the
\* last time and the place of every swimmer, no time in an empty lane or of
\* another race, and no lane that keeps it from finishing (set_heat_lanes,
\* reset_lanes, race_finished) - whatever was lost in the races before it.
\* Every length is counted once, though a lane's flag flickers or the judges
\* take a touch back; a Quantum counts laps, an ARES sends no count.
EndsAsSwum ==
    Clean /\ Decodable /\ pool.phase = "over" =>
        /\ dec.heat = pool.heat
        /\ Finished(dec) /\ dec.running = Still
        /\ \A l \in Lanes :
              IF l \in InHeat \ pool.out
              THEN dec.time[l] = pool.mark[l] /\ dec.place[l] = RankIn(pool, l)
              ELSE dec.time[l] = 0
        /\ \A l \in InHeat \ pool.out :
              dec.splits[l] = CASE kind = "quantum" -> Legs - 1
                                [] kind = "ares"    -> 0
                                [] OTHER            -> Legs * SplitStep

\* A decoder that hears the start does not take the race for finished while a
\* swimmer is in the water.
NotFinishedEarly ==
    Clean /\ Decodable /\ kind \in {"quantum", "alge", "seiko", "rtd"}
    /\ pool.phase = "racing" /\ ~AllIn => ~Finished(dec)

\* A race heard whole is decoded as it was swum, and not before it was swum
\* (race_finished, the decoders' feed).
RaceIsDecoded == EndsAsSwum /\ NotFinishedEarly

\* The seed times a race's deltas are computed from are its heat's.
SeedsOfTheHeat ==
    Clean /\ known /\ pool.phase = "racing" /\ kind # "seiko" => dec.seeds = pool.heat

\* With the start lists known, only lanes with a swimmer run.
OnlySwimmersRun ==
    known /\ kind \notin CTS /\ dec.heat > 0 =>
        \A l \in Lanes : dec.running[l] => l \in Swimmers[dec.heat]
=============================================================================
