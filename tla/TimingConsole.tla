---------------------------- MODULE TimingConsole ----------------------------
(***************************************************************************)
(* What the decoders of src/server/console_decoders listen to: a pool, its *)
(* swimmers, and the console that puts what it sees on a wire.  The module *)
(* is the world outside the program, modelled from what the decoders and   *)
(* the protocol notes beside them say each console sends and when.         *)
(*                                                                         *)
(* A time is a stamp: 0 is no time, 16*r + n is the n-th touch of race r,  *)
(* so that a stamp says which race it was swum in and stamps of one race   *)
(* compare as its times do.  A race is a heat swum once: a re-swim is the  *)
(* same heat and another race.                                             *)
(***************************************************************************)
EXTENDS Naturals, Sequences, FiniteSets, SequencesExt

CONSTANTS
    Lanes,        \* the lanes of the pool, numbered from 1
    Swimmers,     \* Swimmers[h]: the lanes that have a swimmer in heat h
    Legs,         \* touches a swimmer makes in a race
    Kinds,        \* the consoles to choose from
    MaxRaces,     \* bound: races swum, re-swims included
    MaxLost,      \* bound: messages lost and servers restarted
    PostsByPlace, \* BOOLEAN: a CTS posts a finished race by place
    GivesUpLate   \* BOOLEAN: a swimmer may give up after an intermediate touch

CTS   == {"gen6", "gen7"}
RTD   == {"rtd", "ares"}
Swiss == {"swisslane", "swissrank"}
AllKinds == {"quantum", "alge", "seiko", "dolphin"} \cup RTD \cup Swiss \cup CTS

ASSUME ConsoleAssumption ==
    /\ Cardinality(Lanes) \in Nat /\ Lanes = 1..Cardinality(Lanes)
    /\ Swimmers \in Seq((SUBSET Lanes) \ {{}})
    /\ Kinds \subseteq AllKinds /\ Legs \in Nat \ {0}
    /\ MaxRaces \in Nat /\ MaxLost \in Nat
    /\ PostsByPlace \in BOOLEAN /\ GivesUpLate \in BOOLEAN

VARIABLES
    kind,   \* the console on the wire, and the decoder chosen for it
    full,   \* BOOLEAN: an ALGE that sends ranks, a Swiss board with a clock
    pool,   \* heat, race, phase, touches and mark of each lane, ...
    wire,   \* messages the console has sent and the program not yet read
    lost    \* messages lost: in all, and since the heat was last announced

consoleVars == <<kind, full, pool, wire, lost>>

Stamp(r, n) == 16 * r + n

InHeat == IF pool.heat = 0 THEN {} ELSE Swimmers[pool.heat]

\* Rank of lane l at its last touch: the lanes that made as many before it.
RankIn(p, l) ==
    1 + Cardinality({k \in Lanes \ {l} : p.legs[k] >= p.legs[l] /\ k \notin p.out
                                         /\ (p.legs[k] = p.legs[l] => p.mark[k] < p.mark[l])})

\* The line of a Swiss Timing board that shows lane l's touch: its own in lane
\* mode, that of its rank in rank mode.
LineOf(p, l) == IF kind = "swisslane" THEN l ELSE RankIn(p, l)

\* Every swimmer has finished, or has given up.
AllIn == \A l \in InHeat : pool.legs[l] = Legs \/ l \in pool.out

-----------------------------------------------------------------------------
(* What each console sends of an event.                                     *)

Pair(a, b, rank, lane, time, lap) ==
    << [t |-> "pt1", a |-> a, b |-> b, heat |-> pool'.heat, rank |-> rank,
        used |-> Swimmers[pool'.heat]],
       [t |-> "pt2", lane |-> lane, time |-> time, lap |-> lap] >>

PerLane(msg(_)) == [l \in 1..Cardinality(Lanes) |-> msg(l)]

RtdLine(l, place, time, lengths) ==
    [t |-> "line", line |-> l, place |-> place, time |-> time,
     lengths |-> IF kind = "rtd" THEN lengths ELSE 0]

Module(line, lane, running, time, place, soon) ==
    [t |-> "lane", line |-> line, lane |-> lane, running |-> running,
     time |-> time, place |-> place, digits |-> TRUE, soon |-> soon]

\* A Gen7 lane that goes on: a header with its flag, and no digit.
Header(l) == [t |-> "lane", line |-> l, lane |-> l, running |-> TRUE,
              time |-> 0, place |-> 0, digits |-> FALSE, soon |-> FALSE]

Clock(zero) == [t |-> "clock", zero |-> zero, heat |-> pool'.heat, soon |-> FALSE]

HeatNumber == [t |-> "heat", heat |-> pool'.heat]

\* The heat is made ready: a new one (new), or the same one again.
Announces(new) ==
    LET blank(l) == Module(l, l, FALSE, 0, 0, FALSE)
        cleared(l) == RtdLine(l, 0, 0, 0)
        head == IF new THEN <<HeatNumber>> ELSE <<>>
    IN  CASE kind = "quantum" -> Pair("0", " ", 0, 0, 0, 0)
          [] kind = "alge"    -> <<Clock(TRUE)>>
          [] kind = "seiko"   -> <<Clock(TRUE)>>
          [] kind \in RTD     ->
                head \o <<[t |-> "lengths", n |-> IF kind = "rtd" THEN Legs ELSE 0],
                          Clock(TRUE)>> \o PerLane(cleared)
          [] kind \in Swiss   -> head \o IF full THEN <<Clock(TRUE)>> ELSE <<>>
          [] kind = "dolphin" -> head
          [] kind \in CTS     -> head \o PerLane(blank)

Starts ==
    LET runs(l) == IF kind = "gen6" THEN Module(l, l, TRUE, 0, 0, FALSE) ELSE Header(l)
        lanes == SetToSeq(InHeat)
        going == [i \in 1..Len(lanes) |-> runs(lanes[i])]
    IN  CASE kind = "quantum" -> Pair("2", "S", 0, 0, 0, 0)
          [] kind = "alge"    -> <<[t |-> "start"], Clock(FALSE)>>
          [] kind \in {"seiko"} \cup RTD \cup Swiss ->
                IF full THEN <<Clock(FALSE)>> ELSE <<[t |-> "new race"]>>
          [] kind = "dolphin" -> <<>>
          [] kind = "gen6"    -> going
          [] kind = "gen7"    -> going \o <<Clock(FALSE)>>

\* Lane l touches the wall.
Touches(l) ==
    LET p == pool'
        t == p.mark[l]
        last == p.legs[l] = Legs
        rank == RankIn(p, l)
        stop == Module(l, l, FALSE, t, IF last THEN rank ELSE 0, FALSE)
    IN  CASE kind = "quantum" -> Pair("2", IF last THEN "A" ELSE "I", rank, l, t, p.legs[l])
          [] kind = "alge"    -> <<[t |-> IF last THEN "F" ELSE "I", lane |-> l, time |-> t,
                                    touches |-> p.legs[l], rank |-> IF full THEN rank ELSE 0]>>
          [] kind = "seiko"   -> <<[t |-> IF last THEN "G" ELSE "L", lane |-> l, time |-> t,
                                    order |-> rank]>>
          [] kind \in RTD     -> <<RtdLine(l, rank, t, p.legs[l])>>
          [] kind \in Swiss   -> <<[t |-> "line", line |-> LineOf(p, l), lane |-> l, rank |-> rank,
                                    time |-> t]>>
          [] kind = "dolphin" -> <<>>
          [] kind = "gen6"    -> <<stop, stop>>
          [] kind = "gen7"    -> <<stop>>

\* The race is over: the official end, or the block of a stopwatch system.
Ends ==
    LET result(l) == [t |-> "result", lane |-> l,
                      time |-> IF l \in InHeat \ pool.out THEN pool.mark[l] ELSE 0,
                      splits |-> IF l \in InHeat \ pool.out THEN Legs ELSE 0]
    IN  CASE kind = "quantum" -> Pair("1", " ", 0, 0, 0, 0)
          [] kind = "dolphin" -> <<[t |-> "race"]>> \o PerLane(result)
          [] OTHER            -> <<>>

-----------------------------------------------------------------------------
NoMarks == [l \in Lanes |-> 0]

ConsoleInit ==
    /\ kind \in Kinds
    /\ full \in IF kind \in {"alge"} \cup Swiss THEN BOOLEAN ELSE {TRUE}
    /\ pool = [heat |-> 0, race |-> 0, phase |-> "over", n |-> 0, legs |-> NoMarks,
               mark |-> NoMarks, out |-> {}, wall |-> NoMarks, blip |-> FALSE]
    /\ wire = <<>>
    /\ lost = [all |-> 0, since |-> 0]

Send(msgs) == /\ wire' = msgs /\ UNCHANGED <<kind, full>>

Quiet == wire = <<>>

Made(h) == [heat |-> h, race |-> pool.race + 1, phase |-> "ready", n |-> 0, legs |-> NoMarks,
            mark |-> NoMarks, out |-> {}, wall |-> NoMarks, blip |-> FALSE]

\* The next heat is called, the one before it swum or passed over.
NextHeat ==
    /\ Quiet /\ pool.phase \in {"over", "ready"}
    /\ pool.race < MaxRaces /\ pool.heat < Len(Swimmers)
    /\ pool' = Made(pool.heat + 1)
    /\ lost' = [lost EXCEPT !.since = 0]
    /\ Send(Announces(TRUE))

\* The same heat again, after it was swum or called back from its start.
\* Only a Quantum announces it anew: an ALGE names the heat on every clock
\* line, which leaves the lanes of a heat already announced as they are.
Reswim ==
    /\ Quiet /\ pool.heat > 0 /\ pool.race < MaxRaces
    /\ pool.phase = "over" \/ (pool.phase = "racing" /\ kind \notin CTS)
    /\ pool' = Made(pool.heat)
    /\ lost' = IF kind = "quantum" THEN [lost EXCEPT !.since = 0] ELSE lost
    /\ Send(Announces(FALSE))

Start ==
    /\ Quiet /\ pool.phase = "ready"
    /\ pool' = [pool EXCEPT !.phase = "racing"]
    /\ UNCHANGED lost
    /\ Send(Starts)

Touch(l) ==
    /\ Quiet /\ pool.phase = "racing"
    /\ l \in InHeat \ pool.out /\ pool.wall[l] = 0 /\ pool.legs[l] < Legs
    /\ LET p == [pool EXCEPT !.n = @ + 1, !.legs[l] = @ + 1,
                             !.mark[l] = Stamp(pool.race, pool.n + 1)]
           stays == kind \in CTS \cup Swiss /\ p.legs[l] < Legs
       IN  /\ kind \in Swiss => \A k \in Lanes : pool.wall[k] # LineOf(p, l)
           /\ pool' = [p EXCEPT !.wall[l] = IF stays THEN LineOf(p, l) ELSE 0]
    /\ UNCHANGED lost
    /\ Send(Touches(l))

\* A lane shown stopped at its touch goes on: a CTS takes its flag up again,
\* a Swiss Timing board erases the intermediate time after a few seconds.
GoesOn(l) ==
    /\ Quiet /\ pool.phase = "racing" /\ pool.wall[l] # 0
    /\ pool' = [pool EXCEPT !.wall[l] = 0]
    /\ UNCHANGED lost
    /\ Send(CASE kind = "gen6" -> <<Module(l, l, TRUE, 0, 0, FALSE)>>
              [] kind = "gen7" -> <<Header(l), Clock(FALSE)>>
              [] kind \in Swiss ->
                   <<[t |-> "erased", line |-> pool.wall[l],
                      lane |-> IF kind = "swisslane" THEN l ELSE 0]>>)

\* A CTS lane drops its running flag for less than split_min_duration.
Flicker(l) ==
    /\ Quiet /\ kind \in CTS /\ pool.phase = "racing" /\ ~pool.blip
    /\ l \in InHeat /\ pool.wall[l] = 0 /\ pool.legs[l] < Legs
    /\ pool' = [pool EXCEPT !.blip = TRUE]
    /\ UNCHANGED lost
    /\ Send(<<Module(l, l, FALSE, 0, 0, FALSE)>> \o
            IF kind = "gen6" THEN <<Module(l, l, TRUE, 0, 0, FALSE)>>
            ELSE <<Header(l), [Clock(FALSE) EXCEPT !.soon = TRUE]>>)

\* A swimmer gives up: a Quantum sends a finish without a time, a Dolphin an
\* empty lane.  The other consoles have nothing for it.
GivesUp(l) ==
    /\ Quiet /\ kind \in {"quantum", "dolphin"} /\ pool.phase = "racing" /\ pool.out = {}
    /\ l \in InHeat /\ pool.legs[l] < Legs /\ (GivesUpLate \/ pool.legs[l] = 0)
    /\ InHeat # {l}
    /\ pool' = [pool EXCEPT !.out = {l}, !.mark[l] = 0]
    /\ UNCHANGED lost
    /\ Send(IF kind = "quantum" THEN Pair("2", "A", 0, l, 0, 0) ELSE <<>>)

\* The judges take back an ALGE touch that was none: the lane swims on.
Deletes(l) ==
    /\ Quiet /\ kind = "alge" /\ ~full /\ pool.phase = "racing" /\ ~pool.blip
    /\ pool.legs[l] > 0 /\ ~AllIn
    /\ pool' = [pool EXCEPT !.blip = TRUE, !.legs[l] = @ - 1, !.mark[l] = 0]
    /\ UNCHANGED lost
    /\ Send(<<[t |-> "C", lane |-> l]>>)

End ==
    /\ Quiet /\ pool.phase = "racing" /\ AllIn
    /\ pool' = [pool EXCEPT !.phase = "over", !.blip = FALSE]
    /\ UNCHANGED lost
    /\ Send(Ends)

\* The finished race posted by place: line n shows the n-th swimmer and names
\* its lane, and the lines below the last of them go blank.
PostByPlace ==
    /\ PostsByPlace /\ Quiet /\ kind \in CTS /\ pool.phase = "over" /\ pool.heat > 0 /\ ~pool.blip
    /\ pool' = [pool EXCEPT !.blip = TRUE]
    /\ UNCHANGED lost
    /\ LET at(r) == {l \in InHeat : RankIn(pool, l) = r}
           posted(r) == IF at(r) = {} THEN Module(r, 0, FALSE, 0, 0, FALSE)
                        ELSE LET l == CHOOSE k \in at(r) : TRUE
                             IN  Module(r, l, FALSE, pool.mark[l], r, FALSE)
       IN  Send(PerLane(posted))

\* One message is lost on the way: a line error, a datagram, a closed socket.
Lose ==
    /\ ~Quiet /\ lost.all < MaxLost
    /\ wire' = Tail(wire)
    /\ lost' = [all |-> lost.all + 1, since |-> lost.since + 1]
    /\ UNCHANGED <<kind, full, pool>>

ConsoleStep ==
    \/ NextHeat \/ Reswim \/ Start \/ End \/ PostByPlace
    \/ \E l \in Lanes : Touch(l) \/ GoesOn(l) \/ Flicker(l) \/ GivesUp(l) \/ Deletes(l)
=============================================================================
