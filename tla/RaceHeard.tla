----------------------------- MODULE RaceHeard -----------------------------
(*****************************************************************************)
(* What a decoder has heard of a race, and what is still on the wire: the    *)
(* inductive invariant of Decoders, for every console it models.  While      *)
(* nothing was lost since the heat was announced (lost.since = 0), what the  *)
(* decoder shows and the messages still to come make up the race so far.     *)
(*****************************************************************************)
EXTENDS Decoders

-----------------------------------------------------------------------------
(* The decoders: what is true of the pool and of the decoder whatever was   *)
(* lost.                                                                    *)

Heats == 1..Len(Swimmers)
HeatOrNone == 0..Len(Swimmers)

Pools == [heat : HeatOrNone, race : Nat, phase : {"ready", "racing", "over"}, n : Nat,
          legs : [Lanes -> 0..Legs], mark : [Lanes -> Nat], out : SUBSET Lanes,
          wall : [Lanes -> {0} \cup Lanes], blip : BOOLEAN]

\* A pair's first frame, as a Quantum sends it.
Firsts == [t : {"pt1"}, a : {"0", "1", "2"}, b : {" ", "S", "A", "I"}, heat : Heats,
           rank : Nat, used : SUBSET Lanes]

\* What a CTS says of a lane, in the line that is the lane's own.
Modules == [t : {"lane"}, line : Lanes, lane : Lanes, running : BOOLEAN, time : Nat,
            place : Nat, digits : BOOLEAN, soon : BOOLEAN]

Mods == {g \in [Lanes -> {NoHalf} \cup Modules] :
            \A l \in Lanes : g[l] # NoHalf => g[l].lane = l}

Decs == [heat : HeatOrNone, seeds : HeatOrNone, lanes : SUBSET Lanes,
         time : [Lanes -> Nat], place : [Lanes -> Nat], running : [Lanes -> BOOLEAN],
         splits : [Lanes -> Nat], active : BOOLEAN, half : {NoHalf} \cup Firsts,
         used : SUBSET Lanes, lengths : Nat, finish : [Lanes -> Nat],
         line : [Lanes -> {0} \cup Lanes], done : BOOLEAN, next : HeatOrNone,
         held : BOOLEAN, stop : [Lanes -> {"no", "fresh", "counted"}],
         mods : Mods, reset : BOOLEAN]

Swim(p) == Swimmers[p.heat]
Swims(p, l) == l \in Swim(p) /\ p.legs[l] < Legs /\ p.wall[l] = 0 /\ l \notin p.out

PoolInv ==
    /\ pool \in Pools
    /\ pool.heat = 0 => pool.phase = "over"
    /\ pool.heat # 0 => pool.race > 0
    /\ pool.phase = "ready" => /\ pool.n = 0 /\ pool.out = {} /\ ~pool.blip
                               /\ \A l \in Lanes : pool.legs[l] = 0
    /\ \A l \in Lanes :
        /\ pool.mark[l] # 0 => pool.mark[l] <= Stamp(pool.race, pool.n)
        /\ pool.legs[l] = 0 \/ l \in pool.out => pool.mark[l] = 0
        /\ l \in pool.out => pool.legs[l] = 0
        /\ l \notin InHeat => pool.legs[l] = 0 /\ l \notin pool.out
        /\ pool.legs[l] = Legs \/ (pool.legs[l] > 0 /\ kind # "alge") => pool.mark[l] # 0
        /\ pool.wall[l] # 0 => pool.legs[l] \in 1..(Legs - 1) /\ kind \in CTS \cup Swiss
    /\ pool.phase = "over" => AllIn
    /\ pool.heat # 0 => \E l \in InHeat : l \notin pool.out
    /\ pool.out # {} => kind \in {"quantum", "dolphin"}

\* The first half of a pair the console may have sent for this heat or an earlier one.
PairOpens(m) ==
    m.heat <= pool.heat /\ m.used = Swimmers[m.heat] /\ (m.a = "2" => m.b # " ")

DecInv ==
    /\ dec \in Decs
    /\ dec.heat <= pool.heat /\ dec.next <= pool.heat
    /\ dec.half # NoHalf => PairOpens(dec.half)
    /\ dec.lanes = IF known /\ dec.heat > 0 THEN Swimmers[dec.heat] ELSE {}
    /\ kind = "dolphin" => dec.running = Still /\ (dec.next # 0 => dec.held /\ dec.done)
    /\ kind = "quantum" =>
        /\ \A l \in Lanes : dec.time[l] = 0 => dec.splits[l] = 0
        /\ dec.heat # 0 /\ dec.heat = pool.heat =>
            /\ dec.used = Swim(pool)
            /\ \A l \in Lanes : dec.running[l] => l \in Swim(pool)
            /\ dec.half # NoHalf => dec.half.heat = pool.heat

-----------------------------------------------------------------------------
(* What is on the wire.                                                    *)

First(p, a, b, rank) ==
    [t |-> "pt1", a |-> a, b |-> b, heat |-> p.heat, rank |-> rank, used |-> Swim(p)]
Second(l, time, lap) == [t |-> "pt2", lane |-> l, time |-> time, lap |-> lap]
At(p, zero) == [t |-> "clock", zero |-> zero, heat |-> p.heat, soon |-> FALSE]
Soon(p) == [t |-> "clock", zero |-> FALSE, heat |-> p.heat, soon |-> TRUE]
Named(p) == [t |-> "heat", heat |-> p.heat]
Told(n) == [t |-> "lengths", n |-> n]
Blank(l) == Module(l, l, FALSE, 0, 0, FALSE)
Go(l) == Module(l, l, TRUE, 0, 0, FALSE)
\* What a Gen7 says of its lanes: digits of a lane that does not run, or a header.
Gen7Lines ==
    {Header(l) : l \in Lanes}
    \cup {m \in Modules : m.line = m.lane /\ m.running = FALSE /\ m.digits = TRUE}
Msgs(w) == {w[i] : i \in DOMAIN w}

\* What a console may say while it has the pool p before it.
SayableBy(p, m) ==
    CASE kind = "quantum" ->
            \/ /\ m \in Firsts /\ m.heat = p.heat /\ m.used = Swim(p)
               /\ m.a = "2" => m.b # " "
            \/ m \in [t : {"pt2"}, lane : {0} \cup Lanes, time : Nat, lap : Nat]
      [] kind \in RTD ->
            \/ m \in {Named(p), At(p, TRUE), At(p, FALSE)} \/ m \in [t : {"lengths"}, n : Nat]
            \/ m \in [t : {"line"}, line : Lanes, place : Nat, time : Nat, lengths : Nat]
      [] kind = "alge" ->
            \/ m \in {[t |-> "start"], At(p, TRUE), At(p, FALSE)}
            \/ m \in [t : {"C"}, lane : Lanes]
            \/ m \in [t : {"I", "F"}, lane : Lanes, time : Nat, touches : Nat, rank : Nat]
      [] kind = "seiko" ->
            \/ m \in {At(p, TRUE), At(p, FALSE)}
            \/ m \in [t : {"L", "G"}, lane : Lanes, time : Nat, order : Nat]
      [] kind \in Swiss ->
            \/ m \in {Named(p), [t |-> "new race"], At(p, TRUE), At(p, FALSE)}
            \/ m \in [t : {"line"}, line : Lanes, lane : Lanes, rank : Nat, time : Nat]
            \/ m \in [t : {"erased"}, line : Lanes, lane : {0} \cup Lanes]
      [] kind = "dolphin" ->
            \/ m \in {Named(p), [t |-> "race"]}
            \/ m \in [t : {"result"}, lane : Lanes, time : Nat, splits : Nat]
      [] kind = "gen6" -> m = Named(p) \/ m \in Modules
      [] kind = "gen7" ->
            m \in {Named(p), At(p, FALSE), Soon(p)} \/ m \in Gen7Lines

WireInv ==
    /\ kind \in AllKinds /\ full \in BOOLEAN /\ known \in BOOLEAN
    /\ kind \notin {"alge"} \cup Swiss => full
    /\ lost \in [all : Nat, since : Nat]
    /\ wire \in Seq(Msgs(wire)) /\ \A m \in Msgs(wire) : SayableBy(pool, m)
    /\ wire # <<>> => pool.heat > 0

\* The two frames are on the wire, or the first is the decoder's half.
Paired(w, d, p, q) == w = <<p, q>> \/ (w = <<q>> /\ d.half = p)

IsRank(p, d, l) == p.legs[l] = Legs => d.place[l] = RankIn(p, l)

\* Somebody swims: a race is not taken for finished.
Going(p, d) == d.reset => \E l \in Lanes : Swims(p, l)
-----------------------------------------------------------------------------
(* What each decoder has heard, where nothing was lost since the heat was   *)
(* announced.                                                              *)

\* Quantum.
QuantumReady(p, d) ==
    /\ d.heat = p.heat /\ ~d.active
    /\ \A l \in Lanes : d.time[l] = 0 /\ d.splits[l] = 0

QuantumLane(p, d, l) ==
    /\ d.running[l] = Swims(p, l)
    /\ d.time[l] = p.mark[l]
    /\ l \in Swim(p) \ p.out => d.splits[l] = IF p.legs[l] = Legs THEN Legs - 1 ELSE p.legs[l]
    /\ IsRank(p, d, l)

QuantumHears(p, w, d) ==
    CASE p.phase = "ready" ->
            \/ Paired(w, d, First(p, "0", " ", 0), Second(0, 0, 0))
            \/ w = <<>> /\ QuantumReady(p, d)
      [] p.phase # "ready" ->
            /\ d.heat = p.heat /\ ~d.reset
            /\ \/ /\ Paired(w, d, First(p, "2", "S", 0), Second(0, 0, 0))
                  /\ QuantumReady(p, d) /\ p.out = {} /\ \A l \in Lanes : p.legs[l] = 0
               \/ /\ \/ w = <<>>
                     \/ p.phase = "over" /\ Paired(w, d, First(p, "1", " ", 0), Second(0, 0, 0))
                  /\ p.phase = "racing" => d.active
                  /\ \A l \in Lanes : QuantumLane(p, d, l)
               \/ /\ d.active
                  /\ \E l \in Swim(p) :
                      /\ \A k \in Lanes \ {l} : QuantumLane(p, d, k)
                      /\ d.running[l]
                      /\ \/ /\ l \notin p.out /\ p.legs[l] > 0
                            /\ d.splits[l] = p.legs[l] - 1
                            /\ Paired(w, d, First(p, "2", IF p.legs[l] = Legs THEN "A" ELSE "I",
                                                  RankIn(p, l)),
                                            Second(l, p.mark[l], p.legs[l]))
                         \/ /\ l \in p.out /\ d.time[l] = 0
                            /\ Paired(w, d, First(p, "2", "A", 0), Second(l, 0, 0))

\* Seiko.
SeikoLane(p, d, l) ==
    /\ d.running[l] = Swims(p, l)
    /\ d.time[l] = p.mark[l]
    /\ l \in Swim(p) => d.splits[l] = p.legs[l]
    /\ IsRank(p, d, l)

SeikoHears(p, w, d) ==
    CASE p.phase = "ready" -> w = <<At(p, TRUE)>> \/ (w = <<>> /\ ~d.active)
      [] p.phase # "ready" ->
            /\ d.heat = p.heat /\ Going(p, d)
            /\ \/ /\ w = <<At(p, FALSE)>> /\ ~d.active /\ ~d.reset
                  /\ \A l \in Lanes : p.legs[l] = 0
               \/ d.active /\ w = <<>> /\ \A l \in Lanes : SeikoLane(p, d, l)
               \/ /\ d.active /\ ~d.reset
                  /\ \E l \in Swim(p) :
                      /\ \A k \in Lanes \ {l} : SeikoLane(p, d, k)
                      /\ d.running[l] /\ p.legs[l] > 0
                      /\ d.splits[l] = p.legs[l] - 1
                      /\ w = <<[t |-> IF p.legs[l] = Legs THEN "G" ELSE "L", lane |-> l,
                                time |-> p.mark[l], order |-> RankIn(p, l)]>>

\* ALGE.
AlgeReady(p, d) ==
    /\ d.heat = p.heat
    /\ \A l \in Lanes : /\ d.running[l] => l \in Swim(p)
                        /\ d.finish[l] # 0 => d.time[l] # 0

AlgeLane(p, d, l) ==
    /\ d.running[l] = Swims(p, l)
    /\ d.time[l] = p.mark[l]
    /\ d.finish[l] = IF p.legs[l] = Legs THEN p.mark[l] ELSE 0
    /\ p.legs[l] = Legs => d.splits[l] = Legs
    /\ full => IsRank(p, d, l)

AlgeStartHeard(p, w, d) ==
    /\ w = <<[t |-> "start"], At(p, FALSE)>> /\ ~d.active /\ ~d.reset
    /\ AlgeReady(p, d) /\ \A l \in Lanes : p.legs[l] = 0

AlgeLanes(p, d) ==
    /\ \A l \in Lanes : AlgeLane(p, d, l)
    /\ (\A l \in Swim(p) : p.legs[l] = Legs) => \A l \in Lanes : IsRank(p, d, l)

AlgeTouch(p, l) ==
    [t |-> IF p.legs[l] = Legs THEN "F" ELSE "I", lane |-> l, time |-> p.mark[l],
     touches |-> p.legs[l], rank |-> IF full THEN RankIn(p, l) ELSE 0]

AlgeTouchHeard(p, w, d, l) ==
    /\ \A k \in Lanes \ {l} : AlgeLane(p, d, k)
    /\ ~d.reset /\ p.legs[l] > 0 /\ d.running[l] /\ d.finish[l] = 0
    /\ w = <<AlgeTouch(p, l)>>

AlgeClearHeard(p, w, d, l) ==
    /\ \A k \in Lanes \ {l} : AlgeLane(p, d, k)
    /\ w = <<[t |-> "C", lane |-> l]>> /\ p.mark[l] = 0 /\ p.legs[l] < Legs /\ ~full

AlgeHears(p, w, d) ==
    CASE p.phase = "ready" ->
            \/ w = <<At(p, TRUE)>> /\ (d.heat # p.heat \/ AlgeReady(p, d))
            \/ w = <<>> /\ ~d.active /\ AlgeReady(p, d)
      [] p.phase # "ready" ->
            /\ d.heat = p.heat /\ Going(p, d)
            /\ \/ AlgeStartHeard(p, w, d)
               \/ d.active /\ w \in {<<>>, <<At(p, FALSE)>>} /\ AlgeLanes(p, d)
               \/ d.active /\ \E l \in Swim(p) : AlgeTouchHeard(p, w, d, l)
               \/ d.active /\ \E l \in Swim(p) : AlgeClearHeard(p, w, d, l)

\* Dolphin.
Result(p, l) ==
    LET in == l \in Swim(p) \ p.out
    IN  [t |-> "result", lane |-> l, time |-> IF in THEN p.mark[l] ELSE 0,
         splits |-> IF in THEN Legs ELSE 0]

\* The places of the finish times so far.
Placed(d) ==
    \A k \in Lanes :
        d.place[k] = IF d.finish[k] = 0 THEN 0
                     ELSE 1 + Cardinality({j \in Lanes : d.finish[j] # 0
                                                         /\ d.finish[j] < d.finish[k]})

Results(p) == [l \in 1..Cardinality(Lanes) |-> Result(p, l)]

DolphinReady(p, d) == (d.heat = p.heat /\ d.next = 0) \/ (d.held /\ d.next = p.heat)

\* The result of a lane, read.
ResultRead(p, d, l) ==
    d.time[l] = Result(p, l).time /\ d.finish[l] = d.time[l] /\ d.splits[l] = Result(p, l).splits

DolphinResults(p, w, d) ==
    /\ w = Results(p) \/ (Placed(d) /\ d.done)
    /\ Msgs(w) \subseteq {Result(p, l) : l \in Lanes}
    /\ \A l \in Lanes : (Result(p, l) \in Msgs(w) /\ d.finish[l] = 0) \/ ResultRead(p, d, l)

DolphinHears(p, w, d) ==
    CASE p.phase = "ready" ->
            \/ w = <<Named(p)>> /\ d.heat # p.heat /\ d.next # p.heat
            \/ w = <<>> /\ DolphinReady(p, d)
      [] p.phase = "racing" -> w = <<>> /\ d.heat = p.heat /\ d.next = 0 /\ ~d.held /\ ~d.reset
      [] p.phase = "over" ->
            /\ d.heat = p.heat /\ d.next = 0 /\ ~d.reset
            /\ w = <<[t |-> "race"]>> \o Results(p) \/ DolphinResults(p, w, d)

\* Daktronics RTD and ARES.
LengthsOf == IF kind = "rtd" THEN Legs ELSE 0
Cleans(l) == RtdLine(l, 0, 0, 0)

RtdReady(p, d) ==
    /\ d.heat = p.heat
    /\ \A l \in Lanes : /\ d.running[l] => l \in Swim(p)
                        /\ d.time[l] = 0 => d.place[l] = 0
                        /\ kind = "ares" => d.splits[l] = 0

RtdSwims(p, l) == IF kind = "rtd" THEN Swims(p, l) ELSE l \in Swim(p) /\ p.legs[l] = 0

RtdLane(p, d, l) ==
    /\ d.running[l] = RtdSwims(p, l)
    /\ d.time[l] = p.mark[l]
    /\ p.mark[l] = 0 <=> d.place[l] = 0
    /\ p.legs[l] > 0 => d.splits[l] = IF kind = "rtd" THEN p.legs[l] ELSE 0
    /\ kind = "ares" => d.splits[l] = 0
    /\ IsRank(p, d, l)

RtdHears(p, w, d) ==
    CASE p.phase = "ready" ->
            /\ Msgs(w) \subseteq {Named(p), Told(LengthsOf), At(p, TRUE)}
                                 \cup {Cleans(l) : l \in Lanes}
            /\ \/ Named(p) \in Msgs(w) /\ d.heat # p.heat
               \/ RtdReady(p, d)
            /\ Told(LengthsOf) \in Msgs(w) \/ d.lengths = LengthsOf
            /\ At(p, TRUE) \in Msgs(w) \/ ~d.active
            /\ \A l \in Lanes : Cleans(l) \in Msgs(w) \/ d.time[l] = 0
      [] p.phase # "ready" ->
            /\ d.heat = p.heat /\ ~d.reset /\ d.lengths = LengthsOf
            /\ \/ /\ w = <<At(p, FALSE)>> /\ ~d.active /\ RtdReady(p, d)
                  /\ \A l \in Lanes : d.time[l] = 0 /\ p.legs[l] = 0
               \/ d.active /\ w = <<>> /\ \A l \in Lanes : RtdLane(p, d, l)
               \/ /\ d.active
                  /\ \E l \in Swim(p) :
                      /\ \A k \in Lanes \ {l} : RtdLane(p, d, k)
                      /\ kind = "rtd" => d.running[l]
                      /\ kind = "ares" => d.splits[l] = 0 /\ (p.legs[l] = 1 => d.running[l])
                      /\ p.legs[l] > 0
                      /\ w = <<RtdLine(l, RankIn(p, l), p.mark[l], p.legs[l])>>

\* Swiss Timing.
SwissBlank(d) ==
    ~d.active /\ \A l \in Lanes : ~d.running[l] /\ d.time[l] = 0 /\ d.splits[l] = 0

SwissLane(p, d, l) ==
    /\ d.running[l] = Swims(p, l)
    /\ d.time[l] = IF Swims(p, l) THEN 0 ELSE p.mark[l]
    /\ l \in Swim(p) => d.splits[l] = p.legs[l]
    /\ p.wall[l] # 0 => d.line[p.wall[l]] = l
    /\ IsRank(p, d, l)

SwissReady(p, w, d) ==
    /\ Msgs(w) \subseteq {Named(p)} \cup IF full THEN {At(p, TRUE)} ELSE {}
    /\ \/ Named(p) \in Msgs(w) /\ d.heat # p.heat
       \/ /\ d.heat = p.heat
          /\ full => SwissBlank(d) \/ (At(p, TRUE) \in Msgs(w) /\ d.active)

SwissStartHeard(p, w, d) ==
    /\ w = IF full THEN <<At(p, FALSE)>> ELSE <<[t |-> "new race"]>>
    /\ full => SwissBlank(d)
    /\ ~d.reset /\ \A l \in Lanes : p.legs[l] = 0

SwissTouch(p, l) ==
    [t |-> "line", line |-> LineOf(p, l), lane |-> l, rank |-> RankIn(p, l), time |-> p.mark[l]]

SwissTouchHeard(p, w, d, l) ==
    /\ \A k \in Lanes \ {l} : SwissLane(p, d, k)
    /\ ~d.reset /\ d.running[l] /\ d.time[l] = 0 /\ p.legs[l] > 0
    /\ d.splits[l] = p.legs[l] - 1
    /\ p.wall[l] = IF p.legs[l] < Legs THEN LineOf(p, l) ELSE 0
    /\ \A k \in Lanes \ {l} : p.wall[k] # LineOf(p, l)
    /\ w = <<SwissTouch(p, l)>>

SwissErasedOf(l, x) ==
    [t |-> "erased", line |-> x, lane |-> IF kind = "swisslane" THEN l ELSE 0]

SwissEraseHeard(p, w, d, l) ==
    /\ \A k \in Lanes \ {l} : SwissLane(p, d, k)
    /\ Swims(p, l) /\ d.splits[l] = p.legs[l]
    /\ \E x \in Lanes : d.line[x] = l /\ w = <<SwissErasedOf(l, x)>>

SwissHears(p, w, d) ==
    CASE p.phase = "ready" -> SwissReady(p, w, d)
      [] p.phase # "ready" ->
            /\ d.heat = p.heat /\ Going(p, d)
            /\ \/ SwissStartHeard(p, w, d)
               \/ d.active /\ w = <<>> /\ \A l \in Lanes : SwissLane(p, d, l)
               \/ d.active /\ \E l \in Swim(p) : SwissTouchHeard(p, w, d, l)
               \/ d.active /\ \E l \in Swim(p) : SwissEraseHeard(p, w, d, l)

\* CTS Gen6.
Splitless(d) == \A l \in Lanes : d.splits[l] = 0

BlankPool(p, w, d) ==
    /\ Msgs(w) \subseteq {Named(p)} \cup {Blank(l) : l \in Lanes}
    /\ \/ Named(p) \in Msgs(w) /\ d.heat # p.heat
       \/ /\ d.heat = p.heat
          /\ Splitless(d) \/ Finished(d) \/ d.reset
          /\ \A l \in Lanes : ~d.running[l] /\ (d.time[l] # 0 => d.place[l] # 0)
    /\ \A l \in Lanes : Blank(l) \in Msgs(w) \/ d.time[l] = 0

Gen6Lane(p, d, l) ==
    /\ d.running[l] = Swims(p, l)
    /\ ~d.running[l] => d.time[l] = p.mark[l] /\ d.stop[l] # "fresh"
    /\ l \in Swim(p) => d.splits[l] = p.legs[l]
    /\ IsRank(p, d, l)

Stop(p, l) == Module(l, l, FALSE, p.mark[l], IF p.legs[l] = Legs THEN RankIn(p, l) ELSE 0, FALSE)

Gen6Ready(p, w, d) ==
    /\ BlankPool(p, w, d)
    /\ d.heat = p.heat => \A l \in Lanes : d.stop[l] # "fresh"

Gen6Goes(p, w, d) ==
    /\ Msgs(w) \subseteq {Go(l) : l \in {k \in Lanes : Swims(p, k)}}
    /\ \A l \in Lanes : \/ Gen6Lane(p, d, l)
                        \/ Go(l) \in Msgs(w) /\ d.splits[l] = p.legs[l]

Gen6FlickHeard(p, w, d, l) ==
    /\ w = <<Blank(l), Go(l)>> /\ Swims(p, l)
    /\ \A k \in Lanes : Gen6Lane(p, d, k)

Gen6TouchHeard(p, w, d, l) ==
    /\ ~d.reset /\ p.legs[l] > 0 /\ d.splits[l] = p.legs[l] - 1 /\ ~Swims(p, l)
    /\ \A k \in Lanes \ {l} : Gen6Lane(p, d, k)
    /\ \/ w = <<Stop(p, l), Stop(p, l)>> /\ d.running[l]
       \/ /\ w = <<Stop(p, l)>> /\ ~d.running[l] /\ d.stop[l] = "fresh"
          /\ d.time[l] = p.mark[l] /\ d.place[l] = Stop(p, l).place

Gen6Hears(p, w, d) ==
    CASE p.phase = "ready" -> Gen6Ready(p, w, d)
      [] p.phase # "ready" ->
            /\ d.heat = p.heat /\ Going(p, d)
            /\ \/ Gen6Goes(p, w, d)
               \/ \E l \in Swim(p) : Gen6FlickHeard(p, w, d, l)
               \/ \E l \in Swim(p) : Gen6TouchHeard(p, w, d, l)

\* CTS Gen7.
Gen7Shows(p, d, l) ==
    /\ d.running[l] = Swims(p, l)
    /\ ~d.running[l] => d.time[l] = p.mark[l]
    /\ l \in Swim(p) => d.splits[l] = p.legs[l]
    /\ IsRank(p, d, l)

\* The module of a lane follows the clock if the lane swims, and no module does.
Follows(p, d, l) == d.mods[l] # NoHalf /\ d.mods[l].running = Swims(p, l)
Stays(d, l) == d.mods[l] # NoHalf /\ ~d.mods[l].running

\* A lane that is to go on: with the clock c it runs, its lengths as they are.
Awaits(p, d, l, c) ==
    /\ Swims(p, l) /\ ~d.running[l]
    /\ \/ c = At(p, FALSE) /\ d.splits[l] = p.legs[l]
       \/ c = Soon(p) /\ d.splits[l] = p.legs[l] + 1 /\ d.stop[l] = "fresh"

\* Headers of lanes that swim, and the clock c.
GoRow(p, w, c) ==
    /\ w # <<>> => w[Len(w)] = c
    /\ \A i \in 1..(Len(w) - 1) : \E l \in Lanes : Swims(p, l) /\ w[i] = Header(l)

Gen7Ready(p, w, d) ==
    /\ BlankPool(p, w, d)
    /\ \A l \in Lanes : Blank(l) \in Msgs(w) \/ Stays(d, l)

Gen7Goes(p, w, d, c) ==
    /\ GoRow(p, w, c)
    /\ \A l \in Lanes : Gen7Shows(p, d, l) \/ (w # <<>> /\ Awaits(p, d, l, c))
    /\ \A l \in Lanes : Follows(p, d, l) \/ (Header(l) \in Msgs(w) /\ Stays(d, l))

Gen7FlickHeard(p, w, d, l) ==
    /\ w = <<Blank(l), Header(l), Soon(p)>> /\ Swims(p, l)
    /\ \A k \in Lanes : Gen7Shows(p, d, k) /\ Follows(p, d, k)

Gen7TouchHeard(p, w, d, l) ==
    /\ ~d.reset /\ p.legs[l] > 0 /\ d.splits[l] = p.legs[l] - 1 /\ ~Swims(p, l)
    /\ d.running[l]
    /\ \A k \in Lanes \ {l} : Gen7Shows(p, d, k) /\ Follows(p, d, k)
    /\ w = <<Stop(p, l)>>

Gen7Hears(p, w, d) ==
    CASE p.phase = "ready" -> Gen7Ready(p, w, d)
      [] p.phase # "ready" ->
            /\ d.heat = p.heat /\ Going(p, d)
            /\ \/ Gen7Goes(p, w, d, At(p, FALSE)) \/ Gen7Goes(p, w, d, Soon(p))
               \/ \E l \in Swim(p) : Gen7FlickHeard(p, w, d, l)
               \/ \E l \in Swim(p) : Gen7TouchHeard(p, w, d, l)

Hears(p, w, d) ==
    CASE kind = "quantum" -> QuantumHears(p, w, d)
      [] kind \in RTD     -> known => RtdHears(p, w, d)
      [] kind = "alge"    -> known => AlgeHears(p, w, d)
      [] kind = "seiko"   -> known => SeikoHears(p, w, d)
      [] kind \in Swiss   -> known => SwissHears(p, w, d)
      [] kind = "dolphin" -> DolphinHears(p, w, d)
      [] kind = "gen6"    -> Gen6Hears(p, w, d)
      [] kind = "gen7"    -> Gen7Hears(p, w, d)

RaceInv ==
    /\ PoolInv /\ DecInv /\ WireInv
    /\ lost.since = 0 /\ pool.heat > 0 => Hears(pool, wire, dec)
=============================================================================
