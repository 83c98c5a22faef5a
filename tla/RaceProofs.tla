----------------------------- MODULE RaceProofs -----------------------------
(*****************************************************************************)
(* A race from the console to the race state.  First the rest of the         *)
(* consoles, Dolphin, Swiss Timing and CTS, and what all of them give: what  *)
(* the decoder shows is what was swum.  Then RaceDebounce, for any number of *)
(* lanes, any meet and any number of edges.                                  *)
(*****************************************************************************)
EXTENDS ConsoleProofs, RaceDebounce

-----------------------------------------------------------------------------
(* Dolphin.                                                                 *)

ResultMsgs == [t : {"result"}, lane : Lanes, time : Nat, splits : Nat]

\* What a Dolphin may send.
LEMMA DolphinSays ==
    ASSUME kind = "dolphin", NEW p, NEW m
    PROVE  SayableBy(p, m) <=> m = Named(p) \/ m = [t |-> "race"] \/ m \in ResultMsgs
  BY DEF SayableBy, RTD, Swiss, ResultMsgs

\* What the line of a lane leaves: its time, its count, the places so far.
ResultShown(e, d, l, x, n) ==
    /\ e.time[l] = x /\ e.finish[l] = x /\ e.splits[l] = n
    /\ Others(e.time, d.time, l) /\ Others(e.finish, d.finish, l)
    /\ Others(e.splits, d.splits, l) /\ e.running = d.running
    /\ e.done = TRUE /\ e.held = TRUE /\ e.next = d.next /\ Placed(e)

\* What the step changes, and what it leaves.
LEMMA DolphinLaneFields ==
    ASSUME NEW d \in Decs, NEW m \in ResultMsgs, NEW e, e = DolphinLane(d, m)
    PROVE  /\ e \in Decs /\ SameHeat(e, d) /\ e.half = d.half
           /\ ResultShown(e, d, m.lane, m.time, m.splits)
<1> DEFINE l == m.lane
           x == m.time
           n == m.splits
           t == [d.time EXCEPT ![l] = x]
           w == [d.finish EXCEPT ![l] = x]
           s == [d.splits EXCEPT ![l] = n]
           none == None
           y == [d EXCEPT !.time = t, !.finish = w, !.splits = s, !.place = none]
           z == Ranked(y)
<1>1. l \in Lanes /\ x \in Nat /\ n \in Nat
  BY DEF ResultMsgs
<1>2. e = [z EXCEPT !.done = TRUE, !.held = TRUE]
  <2>1. [[d EXCEPT !.time[l] = x, !.finish[l] = x, !.splits[l] = n] EXCEPT !.place = none] = y
    <3>1. [d EXCEPT !.time[l] = x, !.finish[l] = x, !.splits[l] = n]
          = [d EXCEPT !.time = t, !.finish = w, !.splits = s]
      OBVIOUS
    <3> HIDE DEF t, w, s, none
    <3>2. y = [[d EXCEPT !.time = t, !.finish = w, !.splits = s] EXCEPT !.place = none]
      OBVIOUS
    <3> QED BY <3>1, <3>2
  <2> QED BY <2>1 DEF DolphinLane
<1> SUFFICES /\ e \in Decs /\ SameHeat(e, d) /\ e.half = d.half /\ ResultShown(e, d, l, x, n)
  OBVIOUS
<1> HIDE DEF l, x, n
<1>3. /\ t \in [Lanes -> Nat] /\ w \in [Lanes -> Nat] /\ s \in [Lanes -> Nat]
      /\ t[l] = x /\ w[l] = x /\ s[l] = n
      /\ Others(t, d.time, l) /\ Others(w, d.finish, l) /\ Others(s, d.splits, l)
  BY <1>1 DEF Decs, Others
<1>4. none \in [Lanes -> Nat] /\ \A k \in Lanes : none[k] = 0
  BY DEF None
<1> HIDE DEF t, w, s, none
<1>5. /\ y \in Decs /\ SameHeat(y, d) /\ y.half = d.half /\ y.next = d.next
      /\ y.running = d.running
  BY <1>3, <1>4 DEF Decs, SameHeat
<1>6. y.time = t /\ y.finish = w /\ y.splits = s /\ y.place = none
  BY <1>3, <1>4 DEF Decs
<1> HIDE DEF y
<1>7. /\ z \in Decs /\ SameHeat(z, y) /\ SameAside(z, y) /\ SameRest(z, y)
      /\ z.time = y.time /\ z.running = y.running /\ z.splits = y.splits
      /\ \A k \in Lanes :
           z.place[k] = IF y.finish[k] = 0 THEN y.place[k]
                        ELSE 1 + Cardinality({j \in Lanes : y.finish[j] # 0
                                                   /\ y.finish[j] < y.finish[k]})
  BY <1>5, RankedFields
<1> HIDE DEF z
<1>8. /\ e \in Decs /\ SameHeat(e, z) /\ e.half = z.half /\ e.next = z.next
      /\ e.done = TRUE /\ e.held = TRUE /\ e.running = z.running
  BY <1>2, <1>7 DEF Decs, SameHeat
<1>9. e.time = z.time /\ e.finish = z.finish /\ e.splits = z.splits /\ e.place = z.place
  BY <1>2, <1>7 DEF Decs
<1>10. SameHeat(e, d) /\ e.half = d.half /\ e.next = d.next /\ e.running = d.running
  BY <1>5, <1>7, <1>8 DEF SameHeat, SameAside
<1>11. z.finish = y.finish
  BY <1>7 DEF SameRest
<1>12. Placed(e)
  <2>1. \A k \in Lanes : y.place[k] = 0
    BY <1>4, <1>6
  <2> QED BY <1>7, <1>9, <1>11, <2>1 DEF Placed
<1>13. /\ e.time[l] = x /\ e.finish[l] = x /\ e.splits[l] = n
       /\ Others(e.time, d.time, l) /\ Others(e.finish, d.finish, l)
       /\ Others(e.splits, d.splits, l)
  BY <1>3, <1>6, <1>7, <1>9, <1>11
<1> QED BY <1>8, <1>10, <1>12, <1>13 DEF ResultShown

\* The heat named.
LEMMA DolphinHeatFields ==
    ASSUME kind = "dolphin", NEW d \in Decs, NEW m, m.heat \in Heats, NEW e, e = DolphinHeat(d, m)
    PROVE  /\ e \in Decs /\ e.lanes = d.lanes /\ e.half = d.half /\ e.held = d.held
           /\ m.heat = d.heat => e.heat = d.heat /\ e.running = d.running /\ e.next = 0
           /\ m.heat # d.heat /\ d.done /\ d.held =>
                /\ e.heat = d.heat /\ e.running = d.running /\ e.next = m.heat
                /\ e.done = d.done
           /\ m.heat # d.heat /\ ~(d.done /\ d.held) =>
                e.heat = m.heat /\ e.running = Still /\ e.next = d.next
<1> DEFINE h == m.heat
<1>1. h \in HeatOrNone /\ 0 \in HeatOrNone /\ h = m.heat
  BY HeatsNat
<1> HIDE DEF h
<1>2. CASE h = d.heat
  <2>1. e = [d EXCEPT !.next = 0]
    BY <1>1, <1>2 DEF DolphinHeat
  <2>2. e \in Decs /\ e.lanes = d.lanes /\ e.half = d.half /\ e.held = d.held
        /\ e.heat = d.heat /\ e.running = d.running /\ e.next = 0
    BY <1>1, <2>1 DEF Decs
  <2> QED BY <1>1, <1>2, <2>2
<1>3. CASE h # d.heat /\ d.done /\ d.held
  <2>1. e = [d EXCEPT !.next = h]
    BY <1>1, <1>3 DEF DolphinHeat
  <2>2. e \in Decs /\ e.lanes = d.lanes /\ e.half = d.half /\ e.held = d.held
        /\ e.heat = d.heat /\ e.running = d.running /\ e.next = h /\ e.done = d.done
    BY <1>1, <2>1 DEF Decs
  <2> QED BY <1>1, <1>3, <2>2
<1>4. CASE h # d.heat /\ ~(d.done /\ d.held)
  <2>1. e = NewHeat(d, h)
    BY <1>1, <1>4 DEF DolphinHeat
  <2>2. e \in Decs /\ e.heat = h /\ ResetLeaves(e, d)
    BY <1>1, <1>4, <2>1, NewHeatFields DEF AllKinds
  <2> QED BY <1>1, <1>4, <2>2 DEF ResetLeaves, Darkened
<1> QED BY <1>2, <1>3, <1>4

\* What fits a Dolphin.
LEMMA DolphinFit ==
    ASSUME PoolInv, DecInv, kind = "dolphin", NEW d \in Decs, d.lanes = dec.lanes,
           d.half = dec.half, d.heat = dec.heat \/ (d.heat \in Heats /\ d.heat <= pool.heat),
           d.next <= pool.heat, d.running = Still, d.next # 0 => d.held /\ d.done
    PROVE  Fit(d)
  BY DEF Fit, DecInv

\* What a Dolphin may send fits.
LEMMA DolphinFed ==
    ASSUME PoolInv, DecInv, pool.heat # 0, kind = "dolphin", NEW m, SayableBy(pool, m)
    PROVE  Fit(Fed(dec, m))
<1> DEFINE f == Fed(dec, m)
           h == pool.heat
<1>1. /\ dec \in Decs /\ f = FeedDolphin(dec, m) /\ h \in Heats /\ h <= h
      /\ dec.running = Still /\ dec.next <= h /\ dec.heat <= h
      /\ dec.next # 0 => dec.held /\ dec.done
  <2>1. h \in Heats /\ h \in Nat
    BY HeatsNat DEF PoolInv, Pools
  <2>2. h <= h
    BY <2>1
  <2> QED BY <2>1, <2>2, FedIs DEF DecInv
<1>2. CASE m = Named(pool)
  <2>1. m.t = "heat" /\ m.heat = h
    BY <1>2 DEF Named
  <2>2. f = DolphinHeat(dec, m)
    BY <1>1, <2>1 DEF FeedDolphin
  <2> HIDE DEF f, h
  <2>3. /\ f \in Decs /\ f.lanes = dec.lanes /\ f.half = dec.half /\ f.held = dec.held
        /\ h = dec.heat => f.heat = dec.heat /\ f.running = dec.running /\ f.next = 0
        /\ h # dec.heat /\ dec.done /\ dec.held =>
             /\ f.heat = dec.heat /\ f.running = dec.running /\ f.next = h
             /\ f.done = dec.done
        /\ h # dec.heat /\ ~(dec.done /\ dec.held) =>
             f.heat = h /\ f.running = Still /\ f.next = dec.next
    BY <1>1, <2>1, <2>2, DolphinHeatFields
  <2>4. f.running = Still /\ (f.heat = dec.heat \/ f.heat = h)
        /\ (f.next = 0 \/ f.next = h \/ f.next = dec.next)
    BY <1>1, <2>3
  <2>5. f.next # 0 => f.held /\ f.done
    BY <1>1, <2>3
  <2>6. 0 <= h
    BY <1>1, HeatsNat
  <2> QED BY <1>1, <2>3, <2>4, <2>5, <2>6, DolphinFit DEF h, f
<1>3. CASE m = [t |-> "race"]
  <2> DEFINE none == None
  <2>1. f = [dec EXCEPT !.finish = none]
    BY <1>1, <1>3 DEF FeedDolphin
  <2>2. none \in [Lanes -> Nat]
    BY DarkType
  <2> HIDE DEF f, h, none
  <2>3. /\ f \in Decs /\ f.lanes = dec.lanes /\ f.half = dec.half /\ f.held = dec.held
        /\ f.heat = dec.heat /\ f.running = dec.running /\ f.next = dec.next
        /\ f.done = dec.done
    BY <1>1, <2>1, <2>2 DEF Decs
  <2> QED BY <1>1, <2>3, DolphinFit DEF h, f
<1>4. CASE m \in ResultMsgs
  <2>1. f = DolphinLane(dec, m)
    BY <1>1, <1>4 DEF FeedDolphin, ResultMsgs
  <2> HIDE DEF f, h
  <2>2. /\ f \in Decs /\ SameHeat(f, dec) /\ f.half = dec.half
        /\ ResultShown(f, dec, m.lane, m.time, m.splits)
    BY <1>1, <1>4, <2>1, DolphinLaneFields
  <2> QED BY <1>1, <2>2, DolphinFit DEF h, f, SameHeat, ResultShown
<1> QED BY <1>2, <1>3, <1>4, DolphinSays

\* What a Dolphin has heard before the start.
LEMMA DolphinReadyHears ==
    ASSUME NEW p, NEW w, NEW d, p.phase = "ready"
    PROVE  DolphinHears(p, w, d) <=>
               \/ w = <<Named(p)>> /\ d.heat # p.heat /\ d.next # p.heat
               \/ w = <<>> /\ DolphinReady(p, d)
  BY DEF DolphinHears

\* What a Dolphin has heard during the race: nothing.
LEMMA DolphinRacingHears ==
    ASSUME NEW p, NEW w, NEW d, p.phase = "racing"
    PROVE  DolphinHears(p, w, d) <=>
               w = <<>> /\ d.heat = p.heat /\ d.next = 0 /\ ~d.held /\ ~d.reset
  BY DEF DolphinHears

\* What a Dolphin has heard after the race.
LEMMA DolphinOverHears ==
    ASSUME NEW p, NEW w, NEW d, p.phase = "over"
    PROVE  DolphinHears(p, w, d) <=>
               /\ d.heat = p.heat /\ d.next = 0 /\ ~d.reset
               /\ w = <<[t |-> "race"]>> \o Results(p) \/ DolphinResults(p, w, d)
  BY DEF DolphinHears

\* The result of a lane.
LEMMA ResultIs ==
    ASSUME NEW p \in Pools, NEW l \in Lanes
    PROVE  Result(p, l) \in ResultMsgs /\ Result(p, l).lane = l
<1> DEFINE x == IF l \in Swim(p) \ p.out THEN p.mark[l] ELSE 0
           n == IF l \in Swim(p) \ p.out THEN Legs ELSE 0
<1>1. x \in Nat /\ n \in Nat
  BY ConsoleAssumption DEF Pools
<1>2. Result(p, l) = [t |-> "result", lane |-> l, time |-> x, splits |-> n]
  BY DEF Result
<1> HIDE DEF x, n
<1> QED BY <1>1, <1>2 DEF ResultMsgs

\* A result for each lane.
LEMMA ResultsSent ==
    ASSUME NEW p
    PROVE  /\ Msgs(Results(p)) = {Result(p, l) : l \in Lanes}
           /\ Results(p) \in Seq(Msgs(Results(p)))
           /\ \A l \in Lanes : Results(p) # <<>>
<1> DEFINE w == Results(p)
           n == Cardinality(Lanes)
<1>1. DOMAIN w = 1..n /\ w = [i \in 1..n |-> w[i]] /\ \A i \in 1..n : w[i] = Result(p, i)
  BY DEF Results
<1>2. Lanes = 1..n
  BY ConsoleAssumption
<1> HIDE DEF w
<1>3. Msgs(w) = {w[l] : l \in Lanes} /\ w \in Seq(Msgs(w))
  BY <1>1, MsgsOfLanes
<1>4. \A l \in Lanes : w[l] = Result(p, l)
  BY <1>1, <1>2
<1>5. \A l \in Lanes : w # <<>>
  <2>1. ASSUME NEW l \in Lanes, w = <<>> PROVE FALSE
    BY <1>3, <2>1, MsgsShort
  <2> QED BY <2>1
<1> QED BY <1>3, <1>4, <1>5 DEF w

\* The line of a lane, read.
LEMMA DolphinResultRead ==
    ASSUME PoolInv, DecInv, kind = "dolphin", wire \in Seq(Msgs(wire)), wire # <<>>,
           DolphinResults(pool, wire, dec), NEW f, f = DolphinLane(dec, Head(wire))
    PROVE  /\ Head(wire) \in ResultMsgs
           /\ f.heat = dec.heat /\ f.next = dec.next /\ f.done
           /\ DolphinResults(pool, Tail(wire), f)
<1> DEFINE u == Tail(wire)
<1>1. /\ Head(wire) \in Msgs(wire) /\ Msgs(u) \subseteq Msgs(wire)
      /\ Msgs(wire) \subseteq {Head(wire)} \cup Msgs(u)
  BY MsgsTail
<1> DEFINE m == Head(wire)
<1> HIDE DEF u, m
<1>2. /\ m \in Msgs(wire) /\ Msgs(u) \subseteq Msgs(wire) /\ Msgs(wire) \subseteq {m} \cup Msgs(u)
      /\ f = DolphinLane(dec, m)
  BY <1>1 DEF m
<1>3. Msgs(wire) \subseteq {Result(pool, l) : l \in Lanes}
  BY DEF DolphinResults
<1>4. PICK l \in Lanes : m = Result(pool, l)
  BY <1>2, <1>3
<1>5. pool \in Pools /\ dec \in Decs
  BY DEF PoolInv, DecInv
<1>6. m \in ResultMsgs /\ m.lane = l
  BY <1>4, <1>5, ResultIs
<1>7. /\ f \in Decs /\ SameHeat(f, dec) /\ ResultShown(f, dec, m.lane, m.time, m.splits)
  BY <1>2, <1>5, <1>6, DolphinLaneFields
<1>8. ResultShown(f, dec, l, m.time, m.splits)
  BY <1>6, <1>7
<1>9. \A k \in Lanes : (Result(pool, k) \in Msgs(u) /\ f.finish[k] = 0) \/ ResultRead(pool, f, k)
  <2> SUFFICES ASSUME NEW k \in Lanes
               PROVE  (Result(pool, k) \in Msgs(u) /\ f.finish[k] = 0) \/ ResultRead(pool, f, k)
    OBVIOUS
  <2>1. CASE k = l
    BY <1>4, <1>8, <2>1 DEF ResultShown, ResultRead
  <2>2. CASE k # l
    <3>1. /\ f.time[k] = dec.time[k] /\ f.finish[k] = dec.finish[k]
          /\ f.splits[k] = dec.splits[k]
      BY <1>8, <2>2 DEF ResultShown, Others
    <3>2. Result(pool, k) # m
      BY <1>5, <1>6, <2>2, ResultIs
    <3>3. (Result(pool, k) \in Msgs(wire) /\ dec.finish[k] = 0) \/ ResultRead(pool, dec, k)
      BY DEF DolphinResults
    <3>4. Result(pool, k) \in Msgs(wire) => Result(pool, k) \in Msgs(u)
      BY <1>2, <3>2
    <3> QED BY <3>1, <3>3, <3>4 DEF ResultRead
  <2> QED BY <2>1, <2>2
<1>10. Placed(f) /\ f.done /\ f.next = dec.next
  BY <1>8 DEF ResultShown
<1>11. DolphinResults(pool, u, f)
  BY <1>2, <1>3, <1>9, <1>10 DEF DolphinResults
<1> QED BY <1>6, <1>7, <1>10, <1>11 DEF SameHeat, u, m

\* What is heard does not depend on what is not shown.
LEMMA DolphinKept ==
    ASSUME NEW w, NEW d, NEW e, SameShown(e, d), e.finish = d.finish, e.done = d.done,
           DolphinResults(pool, w, d)
    PROVE  DolphinResults(pool, w, e)
  BY SMTT(20) DEF DolphinResults, SameShown, ResultRead, Placed

\* A message of a Dolphin, delivered.
LEMMA DolphinDeliver ==
    ASSUME PoolInv, DecInv, WireInv, kind = "dolphin", pool.heat # 0,
           DolphinHears(pool, wire, dec), Deliver
    PROVE  DolphinHears(pool, wire', dec')
<1> DEFINE m == Head(wire)
           f == Fed(dec, m)
<1>1. wire # <<>> /\ wire' = Tail(wire) /\ dec' = Apply(f) /\ UNCHANGED <<kind, known, pool>>
  BY DEF Deliver, Quiet
<1>2. SayableBy(pool, m)
  BY <1>1, HeadHeard
<1>3. Fit(f)
  BY <1>2, DolphinFed
<1>4. /\ dec'.heat = f.heat /\ SameAside(dec', f) /\ SameShown(dec', f) /\ SameRest(dec', f)
      /\ dec'.reset = (~Finished(f) /\ (f.reset \/ Finished(dec)))
  BY <1>1, <1>3, DecKept
<1>5. /\ f = FeedDolphin(dec, m) /\ dec \in Decs /\ pool.heat \in Heats
      /\ wire \in Seq(Msgs(wire)) /\ pool.phase \in {"ready", "racing", "over"}
  BY FedIs, HeatsNat DEF DecInv, PoolInv, Pools, WireInv
<1>6. /\ dec'.next = f.next /\ dec'.held = f.held /\ dec'.done = f.done
      /\ dec'.finish = f.finish
  BY <1>4 DEF SameRest, SameAside
<1> HIDE DEF f
<1>7. CASE pool.phase = "ready"
  <2> DEFINE b == Named(pool)
  <2>1. wire = <<b>> /\ dec.heat # pool.heat /\ dec.next # pool.heat
    BY <1>1, <1>7, DolphinReadyHears
  <2>2. b.t = "heat" /\ b.heat = pool.heat
    BY DEF Named
  <2> HIDE DEF b
  <2>3. m = b /\ wire' = <<>>
    BY <1>1, <2>1
  <2> HIDE DEF m
  <2>4. m.t = "heat" /\ m.heat = pool.heat
    BY <2>2, <2>3
  <2>5. f = DolphinHeat(dec, m)
    BY <1>5, <2>4 DEF FeedDolphin
  <2> DEFINE h == pool.heat
             n == m.heat
  <2>6. h \in Heats /\ n = h /\ h # dec.heat
    BY <1>5, <2>1, <2>4
  <2>7. /\ f.held = dec.held
        /\ n # dec.heat /\ dec.done /\ dec.held => f.next = n
        /\ n # dec.heat /\ ~(dec.done /\ dec.held) => f.heat = n /\ f.next = dec.next
    BY <1>5, <2>4, <2>5, DolphinHeatFields
  <2> HIDE DEF n, h
  <2>8. dec.next # 0 => dec.held /\ dec.done
    BY DEF DecInv
  <2>9. (f.heat = h /\ f.next = 0) \/ (f.held /\ f.next = h)
    BY <2>6, <2>7, <2>8
  <2>10. DolphinReady(pool, dec')
    BY <1>4, <1>6, <2>9 DEF DolphinReady, h
  <2> QED BY <1>7, <2>3, <2>10, DolphinReadyHears
<1>8. CASE pool.phase = "racing"
  BY <1>1, <1>8, DolphinRacingHears
<1>9. CASE pool.phase = "over"
  <2>1. /\ dec.heat = pool.heat /\ dec.next = 0 /\ ~dec.reset
        /\ wire = <<[t |-> "race"]>> \o Results(pool) \/ DolphinResults(pool, wire, dec)
    BY <1>9, DolphinOverHears
  <2>2. SUFFICES /\ f.heat = pool.heat /\ f.next = 0 /\ ~dec'.reset
                 /\ DolphinResults(pool, wire', f)
    <3>1. ASSUME DolphinResults(pool, wire', f) PROVE DolphinResults(pool, wire', dec')
      BY <1>4, <1>6, <3>1, DolphinKept
    <3> QED BY <1>4, <1>6, <1>9, <3>1, DolphinOverHears
  <2>3. CASE wire = <<[t |-> "race"]>> \o Results(pool)
    <3> DEFINE a == [t |-> "race"]
               r == Results(pool)
               none == None
    <3>1. r \in Seq(Msgs(r)) /\ Msgs(r) = {Result(pool, l) : l \in Lanes}
      BY ResultsSent
    <3>2. wire = <<a>> \o r
      BY <2>3
    <3> HIDE DEF a, r
    <3>3. m = a /\ wire' = r
      BY <1>1, <3>1, <3>2
    <3>4. f = [dec EXCEPT !.finish = none]
      BY <1>5, <3>3 DEF FeedDolphin, a
    <3>5. none \in [Lanes -> Nat] /\ \A l \in Lanes : none[l] = 0
      BY DEF None
    <3> HIDE DEF none, m
    <3>6. f.heat = dec.heat /\ f.next = dec.next /\ f.reset = dec.reset /\ f.finish = none
          /\ f.done = dec.done
      BY <1>5, <3>4 DEF Decs
    <3>7. ~dec'.reset
      BY <1>4, <2>1, <3>6 DEF Finished
    <3>8. DolphinResults(pool, wire', f)
      BY <3>1, <3>3, <3>5, <3>6 DEF DolphinResults, r
    <3> QED BY <2>1, <3>6, <3>7, <3>8
  <2>4. CASE DolphinResults(pool, wire, dec)
    <3>1. m \in ResultMsgs
      BY <1>1, <1>5, <2>4, DolphinResultRead
    <3>2. f = DolphinLane(dec, m)
      BY <1>5, <3>1 DEF FeedDolphin, ResultMsgs
    <3>3. f.heat = dec.heat /\ f.next = dec.next /\ f.done /\ DolphinResults(pool, wire', f)
      BY <1>1, <1>5, <2>4, <3>2, DolphinResultRead
    <3>4. ~dec'.reset
      BY <1>4, <3>3 DEF Finished
    <3> QED BY <2>1, <3>3, <3>4
  <2> QED BY <2>1, <2>3, <2>4
<1> QED BY <1>5, <1>7, <1>8, <1>9

\* The idle turns of a Dolphin: the held results let go, the board's reset.
LEMMA DolphinIdle ==
    ASSUME PoolInv, DecInv, WireInv, kind = "dolphin", pool.heat # 0,
           DolphinHears(pool, wire, dec), HoldEnds \/ BoardIsReset
    PROVE  DolphinHears(pool, wire', dec')
<1> DEFINE n == dec.next
           d == IF n # 0 THEN NewHeat(dec, n) ELSE dec
           r == IF Finished(dec) \/ dec.running # Still THEN dec ELSE ResetLanes(dec)
<1>1. /\ wire' = wire /\ UNCHANGED <<kind, known, pool>> /\ dec \in Decs
      /\ pool.heat \in Heats /\ pool.phase \in {"ready", "racing", "over"}
      /\ kind \in AllKinds /\ n \in HeatOrNone
  BY HeatsNat DEF HoldEnds, BoardIsReset, consoleVars, DecInv, Decs, PoolInv, Pools, AllKinds
<1>2. ASSUME HoldEnds
      PROVE  /\ dec' = Apply([d EXCEPT !.next = 0, !.held = FALSE]) /\ dec.held
  BY <1>2 DEF HoldEnds
<1>3. ASSUME BoardIsReset PROVE dec' = [r EXCEPT !.reset = FALSE] /\ dec.reset /\ wire = <<>>
  BY <1>3 DEF BoardIsReset, Quiet
<1>4. d \in Decs /\ (n # 0 => d.heat = n) /\ (n = 0 => d = dec)
  <2>1. n # 0 => n \in Heats
    BY <1>1, HeatsNat
  <2>2. CASE n # 0
    BY <1>1, <2>1, <2>2, NewHeatFields
  <2>3. CASE n = 0
    BY <1>1, <2>3
  <2> QED BY <2>2, <2>3
<1>5. r \in Decs /\ r.heat = dec.heat /\ r.next = dec.next /\ r.held = dec.held
  BY <1>1, ResetFields DEF ResetLeaves
<1> HIDE DEF d, r
<1> DEFINE e == [d EXCEPT !.next = 0, !.held = FALSE]
<1>6. /\ e \in Decs /\ e.heat = d.heat /\ e.next = 0 /\ ~e.held /\ e.reset = d.reset
      /\ e.done = d.done /\ e.finish = d.finish /\ SameShown(e, d)
  <2>1. 0 \in HeatOrNone
    BY HeatsNat
  <2>2. e \in Decs /\ e.heat = d.heat /\ e.next = 0 /\ ~e.held
    BY <1>4, <2>1 DEF Decs
  <2>3. e.reset = d.reset /\ e.done = d.done /\ e.finish = d.finish
    BY <1>4 DEF Decs
  <2>4. SameShown(e, d)
    BY <1>4 DEF Decs, SameShown
  <2> QED BY <2>2, <2>3, <2>4
<1> HIDE DEF e
<1>7. ASSUME HoldEnds
      PROVE  /\ dec'.heat = e.heat /\ SameAside(dec', e) /\ SameShown(dec', e)
             /\ SameRest(dec', e) /\ dec'.reset = (~Finished(e) /\ (e.reset \/ Finished(dec)))
  <2>1. dec' = Apply(e)
    BY <1>2, <1>7 DEF e
  <2>2. e.heat = dec.heat \/ e.heat \in Heats
    BY <1>1, <1>4, <1>6, HeatsNat
  <2>3. known \in BOOLEAN
    BY DEF WireInv
  <2> QED BY <1>6, <2>1, <2>2, <2>3, ApplyFields
<1>8. ASSUME BoardIsReset
      PROVE  dec'.heat = dec.heat /\ dec'.next = dec.next /\ dec'.held = dec.held
  BY <1>3, <1>5, <1>8 DEF Decs
<1>9. CASE pool.phase = "ready"
  <2>1. \/ wire = <<Named(pool)>> /\ dec.heat # pool.heat /\ dec.next # pool.heat
        \/ wire = <<>> /\ DolphinReady(pool, dec)
    BY <1>9, DolphinReadyHears
  <2>2. ASSUME HoldEnds
        PROVE  \/ wire = <<Named(pool)>> /\ dec'.heat # pool.heat /\ dec'.next # pool.heat
               \/ wire = <<>> /\ DolphinReady(pool, dec')
    <3>1. dec'.heat = e.heat /\ dec'.next = 0
      BY <1>6, <1>7, <2>2 DEF SameAside
    <3>2. pool.heat # 0 /\ e.heat = IF n = 0 THEN dec.heat ELSE n
      BY <1>4, <1>6
    <3>3. ASSUME wire = <<>>, DolphinReady(pool, dec) PROVE dec'.heat = pool.heat
      BY <3>1, <3>2, <3>3 DEF DolphinReady
    <3> QED BY <2>1, <3>1, <3>2, <3>3 DEF DolphinReady
  <2>3. ASSUME BoardIsReset PROVE wire = <<>> /\ DolphinReady(pool, dec')
    <3>1. wire = <<>> /\ <<Named(pool)>> # <<>>
      BY <1>3, <2>3
    <3>2. DolphinReady(pool, dec)
      <4> DEFINE w == <<Named(pool)>>
      <4>1. wire # w /\ (wire = w \/ DolphinReady(pool, dec))
        BY <2>1, <3>1
      <4> HIDE DEF w
      <4> QED BY <4>1
    <3> QED BY <1>8, <2>3, <3>1, <3>2 DEF DolphinReady
  <2> QED BY <1>1, <1>9, <2>2, <2>3, DolphinReadyHears
<1>10. CASE pool.phase = "racing"
  BY <1>2, <1>3, <1>10, DolphinRacingHears
<1>11. CASE pool.phase = "over"
  <2>1. /\ dec.heat = pool.heat /\ n = 0 /\ ~dec.reset
        /\ wire = <<[t |-> "race"]>> \o Results(pool) \/ DolphinResults(pool, wire, dec)
    BY <1>11, DolphinOverHears
  <2>2. HoldEnds
    BY <1>3, <2>1
  <2>3. d = dec /\ e.next = 0 /\ dec'.heat = dec.heat /\ dec'.next = 0
    BY <1>4, <1>6, <1>7, <2>1, <2>2 DEF SameAside
  <2>4. /\ SameShown(dec', dec) /\ dec'.finish = dec.finish /\ dec'.done = dec.done
    BY <1>6, <1>7, <2>2, <2>3 DEF SameShown, SameAside, SameRest
  <2>5. ~dec'.reset
    <3>1. Finished(e) = Finished(dec)
      BY <1>6, <2>3, SameFinished DEF SameShown
    <3>2. e.reset = FALSE
      BY <1>6, <2>1, <2>3 DEF Decs
    <3> QED BY <1>7, <2>2, <3>1, <3>2
  <2>6. DolphinResults(pool, wire, dec) => DolphinResults(pool, wire, dec')
    BY <2>4, DolphinKept
  <2> QED BY <1>1, <1>11, <2>1, <2>3, <2>5, <2>6, DolphinOverHears
<1> QED BY <1>1, <1>9, <1>10, <1>11

\* Its decoder, after the hold.
LEMMA HoldEndsDec ==
    ASSUME PoolInv, DecInv, WireInv, HoldEnds
    PROVE  DecInv'
<1> DEFINE n == dec.next
           d == IF n # 0 THEN NewHeat(dec, n) ELSE dec
           e == [d EXCEPT !.next = 0, !.held = FALSE]
<1>1. /\ kind = "dolphin" /\ dec.held /\ dec' = Apply(e) /\ UNCHANGED <<kind, known, pool>>
      /\ dec \in Decs /\ kind \in AllKinds /\ n \in HeatOrNone /\ n <= pool.heat
      /\ dec.running = Still /\ pool.heat \in Nat
  BY HeatsNat DEF HoldEnds, consoleVars, DecInv, Decs, AllKinds, PoolInv, Pools
<1>2. /\ d \in Decs /\ (n # 0 => d.heat = n /\ n \in Heats) /\ (n = 0 => d.heat = dec.heat)
      /\ d.lanes = dec.lanes /\ d.half = dec.half /\ d.running = Still
  <2>1. n # 0 => n \in Heats
    BY <1>1, HeatsNat
  <2>2. CASE n # 0
    <3>1. d = NewHeat(dec, n)
      BY <2>2
    <3> HIDE DEF d, n
    <3>2. /\ d \in Decs /\ d.heat = n /\ (n = dec.heat => d = dec)
          /\ (n # dec.heat => ResetLeaves(d, dec))
      BY <1>1, <2>1, <2>2, <3>1, NewHeatFields
    <3> QED BY <1>1, <2>1, <2>2, <3>2 DEF ResetLeaves, Darkened
  <2>3. CASE n = 0
    BY <1>1, <2>3
  <2> QED BY <2>2, <2>3
<1> HIDE DEF d, n
<1>3. /\ e \in Decs /\ e.heat = d.heat /\ e.next = 0 /\ e.lanes = d.lanes /\ e.half = d.half
      /\ e.running = d.running
  <2>1. 0 \in HeatOrNone
    BY HeatsNat
  <2> QED BY <1>2, <2>1 DEF Decs
<1> HIDE DEF e
<1>4. 0 <= pool.heat
  BY <1>1
<1>5. Fit(e)
  BY <1>1, <1>2, <1>3, <1>4, DolphinFit
<1> QED BY <1>1, <1>5, DecKept

\* Whose race goes on is heard as the decoder stays.
LEMMA DolphinRacingSent ==
    ASSUME PoolInv, DecInv, WireInv, kind = "dolphin", wire = <<>>, wire' = <<>>, dec' = dec,
           pool.heat # 0, pool'.heat = pool.heat, pool'.phase = "racing",
           pool.phase = "racing" \/ (pool.phase = "ready" /\ ~dec.reset /\ ~dec.held),
           DolphinHears(pool, wire, dec)
    PROVE  DolphinHears(pool', wire', dec')
<1>1. CASE pool.phase = "racing"
  <2>1. dec.heat = pool.heat /\ dec.next = 0 /\ ~dec.held /\ ~dec.reset
    BY <1>1, DolphinRacingHears
  <2>2. DolphinHears(pool', wire', dec)
    BY <2>1, DolphinRacingHears
  <2> QED BY <2>2
<1>2. CASE pool.phase = "ready" /\ ~dec.reset /\ ~dec.held
  <2> DEFINE w == <<Named(pool)>>
  <2>1. w # <<>>
    OBVIOUS
  <2>2. wire = w \/ DolphinReady(pool, dec)
    BY <1>2, DolphinReadyHears
  <2> HIDE DEF w
  <2>3. dec.heat = pool.heat /\ dec.next = 0
    BY <1>2, <2>1, <2>2 DEF DolphinReady
  <2>4. DolphinHears(pool', wire', dec)
    BY <1>2, <2>3, DolphinRacingHears
  <2> QED BY <2>4
<1> QED BY <1>1, <1>2

\* A heat made ready.
LEMMA DolphinReadySent ==
    ASSUME PoolInv, DecInv, WireInv, kind = "dolphin", wire = <<>>,
           UNCHANGED <<kind, full, known, dec>>, NextHeat \/ Reswim
    PROVE  /\ WireInv' /\ (NextHeat \/ (pool.heat # 0 /\ lost' = lost))
           /\ NextHeat \/ DolphinHears(pool, wire, dec) => DolphinHears(pool', wire', dec')
<1>1. pool'.phase = "ready" /\ pool'.heat \in Heats
  BY NextHeatPool, ReswimPool DEF Made
<1>2. pool'.heat > 0
  BY <1>1, HeatsNat
<1> DEFINE m == Named(pool')
<1>3. NextHeat => wire' = <<m>>
  <2> DEFINE n == [t |-> "heat", heat |-> pool'.heat]
  <2>1. NextHeat => wire' = <<n>>
    BY DEF NextHeat, Send, Announces, HeatNumber, RTD, Swiss, CTS
  <2>2. m = n
    BY DEF Named
  <2> QED BY <2>1, <2>2
<1>4. Reswim => wire' = <<>>
  BY DEF Reswim, Send, Announces, RTD, Swiss, CTS
<1>5. /\ lost' = lost \/ lost' = [lost EXCEPT !.since = 0]
      /\ NextHeat \/ (pool.heat # 0 /\ lost' = lost)
  BY ReswimPool, HeatsNat DEF NextHeat, Reswim
<1>6. SayableBy(pool', m)
  BY DolphinSays
<1> HIDE DEF m
<1>7. wire' \in Seq(Msgs(wire')) /\ \A n \in Msgs(wire') : SayableBy(pool', n)
  <2>1. CASE wire' = <<>>
    BY <2>1, ShortIsSeq, MsgsShort
  <2>2. CASE wire' = <<m>>
    BY <1>6, <2>2, OneSaid
  <2> QED BY <1>3, <1>4, <2>1, <2>2
<1>8. WireInv'
  BY <1>2, <1>5, <1>7, WireSent
<1>9. ASSUME NextHeat PROVE dec.heat # pool'.heat /\ dec.next # pool'.heat
  <2>1. dec.heat <= pool.heat /\ dec.heat \in Nat /\ pool.heat \in Nat
        /\ dec.next <= pool.heat /\ dec.next \in Nat /\ pool'.heat = pool.heat + 1
    BY <1>9, NextHeatPool, HeatsNat DEF DecInv, Decs
  <2> QED BY <2>1
<1>10. ASSUME Reswim, DolphinHears(pool, wire, dec) PROVE DolphinReady(pool', dec)
  <2>1. pool'.heat = pool.heat /\ pool.phase \in {"racing", "over"}
    BY <1>10, ReswimPool DEF Reswim
  <2>2. dec.heat = pool.heat /\ dec.next = 0
    BY <1>10, <2>1, DolphinRacingHears, DolphinOverHears
  <2> QED BY <2>1, <2>2 DEF DolphinReady
<1>11. ASSUME NextHeat PROVE DolphinHears(pool', wire', dec)
  BY <1>1, <1>3, <1>9, <1>11, DolphinReadyHears DEF m
<1>12. ASSUME Reswim, DolphinHears(pool, wire, dec) PROVE DolphinHears(pool', wire', dec)
  BY <1>1, <1>4, <1>10, <1>12, DolphinReadyHears
<1> QED BY <1>5, <1>8, <1>11, <1>12

\* The block of a race, sent when it is over.
LEMMA DolphinEndSent ==
    ASSUME PoolInv, PoolInv', DecInv, WireInv, kind = "dolphin", wire = <<>>,
           UNCHANGED <<kind, full, known, dec>>, End
    PROVE  /\ WireInv' /\ pool.heat # 0 /\ lost' = lost
           /\ DolphinHears(pool, wire, dec) => DolphinHears(pool', wire', dec')
<1>1. /\ SameSwum(pool, pool') /\ pool'.phase = "over" /\ pool.phase = "racing"
      /\ pool.heat # 0 /\ pool'.heat > 0 /\ lost' = lost /\ pool' \in Pools
  BY EndPool, HeatsNat DEF PoolInv, Pools, SameSwum, End
<1> DEFINE a == [t |-> "race"]
           r == Results(pool')
<1>2. wire' = <<a>> \o r
  <2> DEFINE result(l) == [t |-> "result", lane |-> l,
                          time |-> IF l \in InHeat \ pool.out THEN pool.mark[l] ELSE 0,
                          splits |-> IF l \in InHeat \ pool.out THEN Legs ELSE 0]
  <2>1. wire' = <<a>> \o [l \in 1..Cardinality(Lanes) |-> result(l)]
    BY DEF End, Send, Ends, PerLane
  <2>2. ASSUME NEW l \in 1..Cardinality(Lanes) PROVE result(l) = Result(pool', l)
    <3>1. InHeat = Swim(pool') /\ pool'.out = pool.out /\ pool'.mark = pool.mark
      BY <1>1, InHeatIs DEF SameSwum, Swim
    <3> QED BY <3>1 DEF Result
  <2> HIDE DEF result, a
  <2>3. [l \in 1..Cardinality(Lanes) |-> result(l)] = r
    BY <2>2 DEF Results
  <2> QED BY <2>1, <2>3
<1>3. /\ Msgs(r) = {Result(pool', l) : l \in Lanes} /\ r \in Seq(Msgs(r))
  BY ResultsSent
<1> HIDE DEF r
<1>4. SayableBy(pool', a) /\ \A l \in Lanes : SayableBy(pool', Result(pool', l))
  <2>1. \A l \in Lanes : Result(pool', l) \in ResultMsgs
    BY <1>1, ResultIs
  <2> QED BY <2>1, DolphinSays
<1> HIDE DEF a
<1>5. WireInv'
  <2> DEFINE u == <<a>>
  <2>1. u \in Seq(Msgs(u)) /\ Msgs(u) = {a}
    BY ShortIsSeq, MsgsShort
  <2> HIDE DEF u
  <2>2. Msgs(u \o r) = Msgs(u) \cup Msgs(r) /\ u \o r \in Seq(Msgs(u \o r))
    BY <1>3, <2>1, MsgsConcat
  <2>3. wire' = u \o r
    BY <1>2 DEF u
  <2>4. Msgs(wire') = Msgs(u) \cup Msgs(r) /\ wire' \in Seq(Msgs(wire'))
    BY <2>2, <2>3
  <2>5. \A m \in Msgs(wire') : SayableBy(pool', m)
    BY <1>3, <1>4, <2>1, <2>4
  <2> QED BY <1>1, <2>4, <2>5, WireSent
<1>6. ASSUME DolphinHears(pool, wire, dec) PROVE DolphinHears(pool', wire', dec')
  <2>1. dec.heat = pool.heat /\ dec.next = 0 /\ ~dec.reset
    BY <1>1, <1>6, DolphinRacingHears
  <2>2. dec.heat = pool'.heat
    BY <1>1, <2>1 DEF SameSwum
  <2>3. DolphinHears(pool', wire', dec)
    BY <1>1, <1>2, <2>1, <2>2, DolphinOverHears DEF a, r
  <2> QED BY <2>3
<1> QED BY <1>1, <1>5, <1>6

\* A step of a Dolphin.
LEMMA DolphinConsole ==
    ASSUME PoolInv, PoolInv', DecInv, WireInv, ~SlowReset, ~PostsByPlace, ~GivesUpLate,
           kind = "dolphin", Console,
           pool.heat # 0 /\ lost.since = 0 => DolphinHears(pool, wire, dec)
    PROVE  /\ WireInv'
           /\ lost'.since = 0 => DolphinHears(pool', wire', dec')
<1>1. /\ wire = <<>> /\ UNCHANGED <<kind, full, known, dec>> /\ ConsoleStep /\ Settled
  BY DEF Console, ConsoleStep, NextHeat, Reswim, Start, End, PostByPlace, Touch, GoesOn,
         Flicker, GivesUp, Deletes, Quiet, Send
<1>2. CASE NextHeat \/ Reswim
  BY <1>1, <1>2, DolphinReadySent
<1>3. CASE End
  BY <1>1, <1>3, DolphinEndSent
<1>4. ASSUME Start \/ (\E l \in Lanes : Touch(l) \/ GivesUp(l))
      PROVE  /\ WireInv'
             /\ lost'.since = 0 => DolphinHears(pool', wire', dec')
  <2>1. wire' = <<>> /\ lost' = lost
    BY <1>4 DEF Start, Touch, GivesUp, Send, Starts, Touches, RTD, Swiss, CTS
  <2>2. /\ pool.heat # 0 /\ pool'.heat = pool.heat /\ pool'.phase = "racing"
        /\ pool.phase = "racing" \/ (pool.phase = "ready" /\ ~dec.reset /\ ~dec.held)
    <3>1. CASE Start
      BY <1>1, <3>1, StartPool DEF SameSwum, Settled
    <3>2. ASSUME NEW l \in Lanes, Touch(l)
          PROVE pool.heat # 0 /\ pool'.heat = pool.heat /\ pool.phase = "racing"
                /\ pool'.phase = "racing"
      BY <3>2, TouchMoves DEF Touched
    <3>3. ASSUME NEW l \in Lanes, GivesUp(l)
          PROVE pool.heat # 0 /\ pool'.heat = pool.heat /\ pool.phase = "racing"
                /\ pool'.phase = "racing"
      BY <3>3, GivesUpPool DEF GaveUp
    <3> QED BY <1>4, <3>1, <3>2, <3>3
  <2>3. pool'.heat > 0
    BY <2>2, HeatsNat DEF PoolInv, Pools
  <2>4. WireInv'
    BY <1>1, <2>1, <2>3, WireSent, ShortIsSeq, MsgsShort
  <2>5. DolphinHears(pool, wire, dec) => DolphinHears(pool', wire', dec')
    BY <1>1, <2>1, <2>2, DolphinRacingSent
  <2> QED BY <2>1, <2>2, <2>4, <2>5
<1> QED BY <1>1, <1>2, <1>3, <1>4, GoesOnPool, DeletesPool
        DEF ConsoleStep, PostByPlace, Flicker, CTS, Swiss

\* The block read, its lanes show what was swum.
LEMMA DolphinDecoded ==
    ASSUME PoolInv, DecInv, kind = "dolphin", pool.heat # 0, wire = <<>>,
           DolphinHears(pool, wire, dec)
    PROVE  EndsAsSwum /\ NotFinishedEarly
<1>1. NotFinishedEarly
  BY DEF NotFinishedEarly
<1>2. SUFFICES ASSUME pool.phase = "over" PROVE EndsAsSwum
  BY <1>1 DEF EndsAsSwum
<1>3. /\ InHeat = Swim(pool) /\ InHeat \in SUBSET Lanes
      /\ \E l \in InHeat : l \notin pool.out
  BY InHeatIs DEF PoolInv
<1>4. dec.heat = pool.heat /\ DolphinResults(pool, wire, dec)
  <2> DEFINE a == [t |-> "race"]
             r == Results(pool)
             w == <<a>> \o r
  <2>1. r \in Seq(Msgs(r))
    BY ResultsSent
  <2> HIDE DEF a, r
  <2>2. w # <<>>
    BY <2>1
  <2>3. dec.heat = pool.heat /\ (wire = w \/ DolphinResults(pool, wire, dec))
    BY <1>2, DolphinOverHears DEF a, r
  <2> HIDE DEF w
  <2> QED BY <2>2, <2>3
<1>5. Placed(dec) /\ dec.done /\ \A l \in Lanes : ResultRead(pool, dec, l)
  <2>1. wire # Results(pool)
    <3>1. PICK l \in Lanes : TRUE
      BY <1>3
    <3> QED BY <3>1, ResultsSent
  <2>2. \A l \in Lanes : Result(pool, l) \notin Msgs(wire)
    BY MsgsShort
  <2> QED BY <1>4, <2>1, <2>2 DEF DolphinResults
<1>6. /\ \A l \in InHeat \ pool.out : /\ dec.time[l] = pool.mark[l] /\ dec.finish[l] = pool.mark[l]
                                      /\ dec.splits[l] = Legs
      /\ \A l \in Lanes : l \notin InHeat \ pool.out => dec.time[l] = 0 /\ dec.finish[l] = 0
  BY <1>3, <1>5 DEF ResultRead, Result
<1>7. /\ \A l \in InHeat \ pool.out : pool.legs[l] = Legs /\ pool.mark[l] # 0
      /\ \A l \in Lanes : pool.legs[l] \in Nat /\ pool.legs[l] <= Legs /\ pool.mark[l] \in Nat
      /\ \A l \in Lanes : l \notin InHeat \ pool.out => pool.legs[l] = 0
      /\ Legs \in Nat /\ Legs # 0
  BY <1>2, <1>3, ConsoleAssumption DEF PoolInv, Pools, AllIn
<1>8. \A k \in InHeat \ pool.out : dec.place[k] = RankIn(pool, k)
  <2> SUFFICES ASSUME NEW k \in InHeat \ pool.out PROVE dec.place[k] = RankIn(pool, k)
    OBVIOUS
  <2> DEFINE S == {j \in Lanes : dec.finish[j] # 0 /\ dec.finish[j] < dec.finish[k]}
             T == {j \in Lanes \ {k} : pool.legs[j] >= pool.legs[k] /\ j \notin pool.out
                                       /\ (pool.legs[j] = pool.legs[k]
                                             => pool.mark[j] < pool.mark[k])}
  <2>1. k \in Lanes /\ dec.finish[k] = pool.mark[k] /\ dec.finish[k] # 0 /\ pool.legs[k] = Legs
    BY <1>3, <1>6, <1>7
  <2>2. \A j \in Lanes : j \in S <=> j \in T
    <3> SUFFICES ASSUME NEW j \in Lanes PROVE j \in S <=> j \in T
      OBVIOUS
    <3>1. CASE j \in InHeat \ pool.out
      <4>1. dec.finish[j] = pool.mark[j] /\ dec.finish[j] # 0 /\ pool.legs[j] = Legs
            /\ j \notin pool.out
        BY <1>6, <1>7, <3>1
      <4>2. pool.mark[j] < pool.mark[k] => j # k
        BY <1>7, <2>1
      <4>3. Legs >= Legs
        BY <1>7
      <4> QED BY <2>1, <4>1, <4>2, <4>3
    <3>2. CASE j \notin InHeat \ pool.out
      <4>1. dec.finish[j] = 0 /\ pool.legs[j] = 0
        BY <1>6, <1>7, <3>2
      <4>2. ~(pool.legs[j] >= pool.legs[k])
        BY <1>7, <2>1, <4>1
      <4> QED BY <4>1, <4>2
    <3> QED BY <3>1, <3>2
  <2>3. S = T
    BY <2>2
  <2>4. RankIn(pool, k) = 1 + Cardinality(T)
    BY DEF RankIn
  <2>5. dec.place[k] = 1 + Cardinality(S)
    BY <1>5, <2>1 DEF Placed
  <2> QED BY <2>3, <2>4, <2>5
<1>9. dec.running = Still
  BY DEF DecInv
<1>10. Finished(dec)
  BY <1>5 DEF Finished
<1>11. \A l \in InHeat \ pool.out : dec.splits[l] = Legs * SplitStep
  BY <1>6, <1>7 DEF SplitStep
<1>12. \A l \in Lanes :
         IF l \in InHeat \ pool.out
         THEN dec.time[l] = pool.mark[l] /\ dec.place[l] = RankIn(pool, l)
         ELSE dec.time[l] = 0
  BY <1>6, <1>8
<1> QED BY <1>4, <1>9, <1>10, <1>11, <1>12 DEF EndsAsSwum

\* A step keeps the console, a Dolphin, so what it makes heard is heard after it.
LEMMA DolphinPrimed ==
    ASSUME UNCHANGED <<kind, full, known>>, DolphinHears(pool', wire', dec')
    PROVE  DolphinHears(pool, wire, dec)'
  BY DEF DolphinHears, DolphinReady, DolphinResults

-----------------------------------------------------------------------------
(* Swiss Timing.                                                            *)

SwissLines == [t : {"line"}, line : Lanes, lane : Lanes, rank : Nat, time : Nat]
Erasures == [t : {"erased"}, line : Lanes, lane : {0} \cup Lanes]

\* What a Swiss Timing may send.
LEMMA SwissSays ==
    ASSUME kind \in Swiss, NEW p, NEW m
    PROVE  SayableBy(p, m) <=>
               \/ m = Named(p) \/ m = [t |-> "new race"] \/ m = At(p, TRUE) \/ m = At(p, FALSE)
               \/ m \in SwissLines \/ m \in Erasures
  BY DEF SayableBy, RTD, Swiss, SwissLines, Erasures

\* What a time on a line leaves.
SwissShown(e, d, l, x, r, n) ==
    /\ e.time[l] = x /\ e.place[l] = r /\ ~e.running[l]
    /\ x # d.time[l] /\ d.active => e.splits[l] = d.splits[l] + 1
    /\ Others(e.time, d.time, l) /\ Others(e.place, d.place, l)
    /\ Others(e.splits, d.splits, l) /\ Others(e.running, d.running, l)
    /\ e.line[n] = l /\ Others(e.line, d.line, n)

\* What the step changes, and what it leaves.
LEMMA SwissLineFields ==
    ASSUME NEW d \in Decs, NEW m \in SwissLines, NEW e, e = SwissLine(d, m)
    PROVE  /\ e \in Decs /\ SameHeat(e, d) /\ SameAside(e, d) /\ e.active = d.active
           /\ SwissShown(e, d, m.lane, m.time, m.rank, m.line)
<1> DEFINE l == m.lane
           x == m.time
           r == m.rank
           n == m.line
           h == [d.line EXCEPT ![n] = l]
           y == [d EXCEPT !.line = h]
           t == IF x = d.time[l] THEN d.time ELSE [d.time EXCEPT ![l] = x]
           s == IF x = d.time[l] \/ ~d.active THEN d.splits ELSE [d.splits EXCEPT ![l] = @ + 1]
           p == [d.place EXCEPT ![l] = r]
           u == [d.running EXCEPT ![l] = FALSE]
<1>1. l \in Lanes /\ x \in Nat /\ r \in Nat /\ n \in Lanes
  BY DEF SwissLines
<1>2. y \in Decs /\ SameHeat(y, d) /\ SameAside(y, d) /\ SameShown(y, d) /\ y.active = d.active
      /\ y.line = h
  <2>1. h \in [Lanes -> {0} \cup Lanes]
    BY <1>1 DEF Decs
  <2> HIDE DEF h
  <2> QED BY <2>1 DEF Decs, SameHeat, SameAside, SameShown
<1>3. h[n] = l /\ Others(h, d.line, n)
  BY <1>1 DEF Decs, Others
<1>4. e = Shown(y, t, p, s, u)
  <2> DEFINE z == IF x = y.time[l] THEN y
                  ELSE [y EXCEPT !.time[l] = x,
                                 !.splits[l] = IF y.active THEN @ + SplitStep ELSE @]
  <2>1. e = [z EXCEPT !.place[l] = r, !.running[l] = FALSE]
    BY DEF SwissLine
  <2> HIDE DEF y, h
  <2>2. z = [y EXCEPT !.time = t, !.splits = s]
    <3>1. y.time = d.time /\ y.splits = d.splits /\ y.active = d.active
      BY <1>2 DEF SameShown
    <3>2. CASE x = d.time[l]
      BY <1>2, <3>1, <3>2 DEF Decs
    <3>3. CASE x # d.time[l] /\ d.active
      <4>1. z = [y EXCEPT !.time[l] = x, !.splits[l] = @ + SplitStep]
        BY <3>1, <3>3
      <4> QED BY <1>2, <3>1, <3>3, <4>1 DEF SplitStep
    <3>4. CASE x # d.time[l] /\ ~d.active
      <4>1. z = [y EXCEPT !.time[l] = x, !.splits[l] = @]
        BY <3>1, <3>4
      <4>2. [y.splits EXCEPT ![l] = @] = y.splits
        BY <1>2 DEF Decs
      <4> QED BY <1>2, <3>1, <3>4, <4>1, <4>2
    <3> QED BY <3>2, <3>3, <3>4
  <2> HIDE DEF z, t, s
  <2>3. z.place = d.place /\ z.running = d.running
    BY <1>2, <2>2 DEF SameShown, Decs
  <2>4. e = [z EXCEPT !.place = p, !.running = u]
    BY <2>1, <2>3
  <2> HIDE DEF p, u
  <2> QED BY <2>2, <2>4 DEF Shown
<1>5. /\ t \in [Lanes -> Nat] /\ t[l] = x /\ Others(t, d.time, l)
  BY <1>1 DEF Decs, Others
<1>6. /\ s \in [Lanes -> Nat] /\ Others(s, d.splits, l)
      /\ x # d.time[l] /\ d.active => s[l] = d.splits[l] + 1
  BY <1>1 DEF Decs, Others
<1>7. /\ p \in [Lanes -> Nat] /\ p[l] = r /\ Others(p, d.place, l)
      /\ u \in [Lanes -> BOOLEAN] /\ ~u[l] /\ Others(u, d.running, l)
  BY <1>1 DEF Decs, Others
<1> SUFFICES /\ e \in Decs /\ SameHeat(e, d) /\ SameAside(e, d) /\ e.active = d.active
             /\ SwissShown(e, d, l, x, r, n)
  OBVIOUS
<1> HIDE DEF l, x, r, n, h, y, t, s, p, u
<1>8. /\ e \in Decs /\ SameHeat(e, y) /\ SameAside(e, y) /\ SameRest(e, y)
      /\ e.time = t /\ e.place = p /\ e.splits = s /\ e.running = u
  BY SMTT(20), <1>2, <1>4, <1>5, <1>6, <1>7, ShownFields
<1>9. e.line = h /\ e.active = d.active
  BY <1>2, <1>8 DEF SameRest
<1>10. SameHeat(e, d) /\ SameAside(e, d)
  BY <1>2, <1>8 DEF SameHeat, SameAside
<1> QED BY <1>3, <1>5, <1>6, <1>7, <1>8, <1>9, <1>10 DEF SwissShown

\* What an erased line leaves: the lane it showed swims on.
SwissOn(e, d, l, n) ==
    /\ e.time[l] = 0 /\ e.running[l] = (d.running[l] \/ d.active) /\ e.splits = d.splits
    /\ Others(e.time, d.time, l) /\ Others(e.place, d.place, l)
    /\ Others(e.running, d.running, l) /\ Others(e.line, d.line, n)

\* What the step changes, and what it leaves.
LEMMA SwissErasedFields ==
    ASSUME NEW d \in Decs, NEW m \in Erasures, NEW e, e = SwissErased(d, m),
           NEW l, l = (IF m.lane # 0 THEN m.lane ELSE d.line[m.line])
    PROVE  /\ e \in Decs /\ SameHeat(e, d) /\ SameAside(e, d) /\ e.active = d.active
           /\ l # 0 => l \in Lanes /\ SwissOn(e, d, l, m.line)
<1> DEFINE n == m.line
           h == [d.line EXCEPT ![n] = 0]
           y == [d EXCEPT !.line = h]
           z == IF y.time[l] = 0 THEN y ELSE Cleared(y, l)
<1>1. n \in Lanes /\ l \in {0} \cup Lanes /\ 0 \notin Lanes
  BY LanesFinite DEF Erasures, Decs
<1>2. CASE l = 0
  <2>1. e = d
    BY <1>2 DEF SwissErased
  <2> QED BY <1>2, <2>1 DEF SameHeat, SameAside
<1>3. CASE l # 0
  <2>1. l \in Lanes
    BY <1>1, <1>3
  <2>2. y \in Decs /\ SameHeat(y, d) /\ SameAside(y, d) /\ SameShown(y, d)
        /\ y.active = d.active /\ y.line = h
    <3>1. h \in [Lanes -> {0} \cup Lanes]
      BY <1>1 DEF Decs
    <3> HIDE DEF h
    <3> QED BY <3>1 DEF Decs, SameHeat, SameAside, SameShown
  <2>3. Others(h, d.line, n)
    BY <1>1 DEF Decs, Others
  <2>4. e = GoesAgain(z, l)
    BY <1>3 DEF SwissErased
  <2> HIDE DEF n, h, y
  <2>5. /\ z \in Decs /\ SameHeat(z, y) /\ SameAside(z, y) /\ SameRest(z, y)
        /\ z.running = y.running /\ z.splits = y.splits /\ z.time[l] = 0
        /\ Others(z.time, y.time, l) /\ Others(z.place, y.place, l)
    <3>1. CASE y.time[l] = 0
      BY <2>2, <3>1 DEF SameHeat, SameAside, SameRest, Others
    <3>2. CASE y.time[l] # 0
      <4>1. z = Cleared(y, l)
        BY <3>2
      <4> HIDE DEF z
      <4> QED BY <2>1, <2>2, <4>1, ClearedFields DEF Others
    <3> QED BY <3>1, <3>2
  <2> HIDE DEF z
  <2>6. /\ e \in Decs /\ SameHeat(e, z) /\ SameAside(e, z) /\ SameRest(e, z)
        /\ e.time = z.time /\ e.place = z.place /\ e.splits = z.splits
        /\ Others(e.running, z.running, l)
        /\ e.running[l] = (z.running[l] \/ z.active)
    BY <2>1, <2>4, <2>5, GoesAgainFields DEF Others
  <2>7. SameHeat(e, d) /\ SameAside(e, d) /\ e.active = d.active /\ e.line = h
    BY <2>2, <2>5, <2>6 DEF SameHeat, SameAside, SameRest
  <2>8. z.active = d.active /\ z.running = d.running /\ z.splits = d.splits
        /\ y.time = d.time /\ y.place = d.place
    BY <2>2, <2>5 DEF SameRest, SameShown
  <2>9. SwissOn(e, d, l, n)
    BY <2>3, <2>5, <2>6, <2>7, <2>8 DEF SwissOn
  <2> QED BY <2>1, <2>6, <2>7, <2>9 DEF n
<1> QED BY <1>2, <1>3

\* The clock's line: at zero before the race, or once it runs.
LEMMA SwissZeroFields ==
    ASSUME kind \in Swiss, NEW d \in Decs, NEW m, m.zero, NEW e, e = SwissClock(d, m)
    PROVE  /\ e \in Decs /\ e.heat = d.heat /\ e.lanes = d.lanes /\ e.half = d.half
           /\ e.next = d.next
           /\ d.active => SwissBlank(e)
           /\ ~d.active => e = d
<1>1. CASE d.active
  <2>1. e = ResetLanes(d)
    BY <1>1 DEF SwissClock
  <2>2. e \in Decs /\ ResetLeaves(e, d) /\ e.heat = d.heat
    BY <2>1, ResetFields DEF AllKinds
  <2>3. ~e.active
    BY <2>2 DEF ResetLeaves, Swiss, CTS
  <2> QED BY <1>1, <2>2, <2>3, DarkCounted DEF ResetLeaves, SwissBlank
<1>2. CASE ~d.active
  BY <1>2 DEF SwissClock
<1> QED BY <1>1, <1>2

\* The lanes start without a time.
SwissOff(e, d) ==
    \A l \in Lanes : /\ e.time[l] = 0 /\ e.splits[l] = 0
                     /\ e.running[l] = (l \in LanesToStart(d))

\* What the step changes, and what it leaves.
LEMMA SwissRunFields ==
    ASSUME NEW d \in Decs, NEW m, m.zero = FALSE, NEW e, e = SwissClock(d, m)
    PROVE  /\ e \in Decs /\ SameHeat(e, d) /\ SameAside(e, d) /\ e.active
           /\ d.active => e = d
           /\ SwissBlank(d) => SwissOff(e, d)
<1> DEFINE dry == Timed(d)
<1>1. e = Started(d, dry)
  BY DEF SwissClock
<1>2. d.active => e = d
  BY <1>1 DEF Started
<1> HIDE DEF dry
<1>3. /\ e \in Decs /\ SameHeat(e, d) /\ SameAside(e, d) /\ e.active
      /\ e.time = d.time /\ e.splits = d.splits
      /\ ~d.active => \A l \in Lanes :
             e.running[l] = (d.running[l] \/ l \in LanesToStart(d) \ dry)
  BY <1>1, StartedFields
<1>4. SwissBlank(d) => dry = {}
  BY DEF SwissBlank, Timed, dry
<1> QED BY <1>2, <1>3, <1>4 DEF SwissBlank, SwissOff

\* What the step changes, and what it leaves.
LEMMA SwissNewRaceFields ==
    ASSUME kind \in Swiss, NEW d \in Decs, NEW e, e = Started(ResetLanes(d), {})
    PROVE  /\ e \in Decs /\ SameHeat(e, d) /\ e.half = d.half /\ e.next = d.next /\ e.active
           /\ \A l \in Lanes : /\ e.time[l] = 0 /\ e.splits[l] = 0
                               /\ e.running[l] = (l \in LanesToStart(d))
<1> DEFINE r == ResetLanes(d)
<1>1. r \in Decs /\ ResetLeaves(r, d) /\ r.heat = d.heat /\ e = Started(r, {})
  BY ResetFields DEF AllKinds
<1> HIDE DEF r
<1>2. ~r.active /\ r.lanes = d.lanes /\ r.used = d.used /\ r.half = d.half /\ r.next = d.next
      /\ r.reset = d.reset
  BY <1>1 DEF ResetLeaves, Swiss, CTS
<1>3. /\ e \in Decs /\ SameHeat(e, r) /\ SameAside(e, r) /\ e.active
      /\ e.time = r.time /\ e.splits = r.splits
      /\ \A l \in Lanes : e.running[l] = (r.running[l] \/ l \in LanesToStart(r) \ {})
  BY <1>1, <1>2, StartedFields
<1>4. \A l \in Lanes : r.time[l] = 0 /\ r.splits[l] = 0 /\ ~r.running[l]
  BY <1>1, DarkCounted DEF ResetLeaves
<1>5. LanesToStart(r) = LanesToStart(d)
  BY <1>2 DEF LanesToStart
<1> QED BY <1>1, <1>2, <1>3, <1>4, <1>5 DEF SameHeat, SameAside

\* What a Swiss Timing may send fits.
LEMMA SwissFed ==
    ASSUME PoolInv, DecInv, pool.heat # 0, kind \in Swiss, NEW m, SayableBy(pool, m)
    PROVE  Fit(Fed(dec, m))
<1> DEFINE f == Fed(dec, m)
<1>1. dec \in Decs /\ f = FeedSwiss(dec, m) /\ kind \notin {"quantum", "dolphin"}
      /\ kind \in AllKinds
  BY FedIs DEF DecInv, Swiss, AllKinds
<1>2. pool.heat \in Heats
  BY HeatsNat DEF PoolInv, Pools
<1>3. CASE m = Named(pool)
  <2>1. m.t = "heat" /\ m.heat = pool.heat
    BY <1>3 DEF Named
  <2>2. f = NewHeat(dec, pool.heat)
    BY <1>1, <2>1 DEF FeedSwiss
  <2> HIDE DEF f
  <2>3. f \in Decs /\ f.heat = pool.heat /\ (f = dec \/ ResetLeaves(f, dec))
    BY <1>1, <1>2, <2>2, NewHeatFields
  <2> QED BY <1>1, <2>3, PlainFit DEF ResetLeaves, f
<1>4. CASE m = At(pool, TRUE)
  <2>1. m.t = "clock" /\ m.zero
    BY <1>4, ClockLine
  <2>2. f = SwissClock(dec, m)
    BY <1>1, <2>1 DEF FeedSwiss
  <2> HIDE DEF f
  <2>3. f \in Decs /\ f.heat = dec.heat /\ f.lanes = dec.lanes /\ f.half = dec.half
        /\ f.next = dec.next
    BY <1>1, <2>1, <2>2, SwissZeroFields
  <2> QED BY <1>1, <2>3, PlainFit DEF f
<1>5. CASE m = At(pool, FALSE)
  <2>1. m.t = "clock" /\ m.zero = FALSE
    BY <1>5, ClockLine
  <2>2. f = SwissClock(dec, m)
    BY <1>1, <2>1 DEF FeedSwiss
  <2> HIDE DEF f
  <2>3. f \in Decs /\ SameHeat(f, dec) /\ SameAside(f, dec)
    BY <1>1, <2>1, <2>2, SwissRunFields
  <2> QED BY <1>1, <2>3, PlainFit DEF SameHeat, SameAside, f
<1>6. CASE m = [t |-> "new race"]
  <2>1. f = Started(ResetLanes(dec), {})
    BY <1>1, <1>6 DEF FeedSwiss
  <2> HIDE DEF f
  <2>2. f \in Decs /\ SameHeat(f, dec) /\ f.half = dec.half /\ f.next = dec.next
    BY <1>1, <2>1, SwissNewRaceFields
  <2> QED BY <1>1, <2>2, PlainFit DEF SameHeat, f
<1>7. CASE m \in SwissLines
  <2>1. f = SwissLine(dec, m)
    BY <1>1, <1>7 DEF FeedSwiss, SwissLines
  <2> HIDE DEF f
  <2>2. f \in Decs /\ SameHeat(f, dec) /\ SameAside(f, dec)
    BY <1>1, <1>7, <2>1, SwissLineFields
  <2> QED BY <1>1, <2>2, PlainFit DEF SameHeat, SameAside, f
<1>8. CASE m \in Erasures
  <2>1. f = SwissErased(dec, m)
    BY <1>1, <1>8 DEF FeedSwiss, Erasures
  <2> HIDE DEF f
  <2>2. f \in Decs /\ SameHeat(f, dec) /\ SameAside(f, dec)
    BY <1>1, <1>8, <2>1, SwissErasedFields
  <2> QED BY <1>1, <2>2, PlainFit DEF SameHeat, SameAside, f
<1> QED BY <1>3, <1>4, <1>5, <1>6, <1>7, <1>8, SwissSays

\* What a Swiss Timing has heard before the start.
LEMMA SwissReadyHears ==
    ASSUME NEW p, NEW w, NEW d, p.phase = "ready"
    PROVE  SwissHears(p, w, d) <=> SwissReady(p, w, d)
  BY DEF SwissHears

\* What a Swiss Timing has heard once the race is on.
LEMMA SwissRaceHears ==
    ASSUME NEW p, NEW w, NEW d, p.phase # "ready"
    PROVE  SwissHears(p, w, d) <=>
               /\ d.heat = p.heat /\ Going(p, d)
               /\ \/ SwissStartHeard(p, w, d)
                  \/ d.active /\ w = <<>> /\ \A l \in Lanes : SwissLane(p, d, l)
                  \/ d.active /\ \E l \in Swim(p) : SwissTouchHeard(p, w, d, l)
                  \/ d.active /\ \E l \in Swim(p) : SwissEraseHeard(p, w, d, l)
  BY DEF SwissHears

\* All of the race has been read.
LEMMA SwissRaceHeard ==
    ASSUME pool.phase # "ready", wire = <<>>, SwissHears(pool, wire, dec)
    PROVE  /\ dec.heat = pool.heat /\ Going(pool, dec) /\ dec.active
           /\ \A l \in Lanes : SwissLane(pool, dec, l)
<1>1. ~SwissStartHeard(pool, wire, dec)
  <2> DEFINE a == At(pool, FALSE)
             b == [t |-> "new race"]
  <2> HIDE DEF a, b
  <2>1. <<a>> # <<>> /\ <<b>> # <<>>
    OBVIOUS
  <2>2. wire # IF full THEN <<a>> ELSE <<b>>
    BY <2>1
  <2> QED BY <2>2 DEF SwissStartHeard, a, b
<1>2. ~\E l \in Swim(pool) : SwissTouchHeard(pool, wire, dec, l)
  <2> SUFFICES ASSUME NEW l \in Swim(pool), SwissTouchHeard(pool, wire, dec, l) PROVE FALSE
    OBVIOUS
  <2> DEFINE m == SwissTouch(pool, l)
  <2>1. wire = <<m>>
    BY DEF SwissTouchHeard
  <2> HIDE DEF m
  <2> QED BY <2>1
<1>3. ~\E l \in Swim(pool) : SwissEraseHeard(pool, wire, dec, l)
  <2> SUFFICES ASSUME NEW l \in Swim(pool), SwissEraseHeard(pool, wire, dec, l) PROVE FALSE
    OBVIOUS
  <2>1. PICK x \in Lanes : wire = <<SwissErasedOf(l, x)>>
    BY DEF SwissEraseHeard
  <2> DEFINE m == SwissErasedOf(l, x)
  <2>2. wire = <<m>>
    BY <2>1
  <2> HIDE DEF m
  <2> QED BY <2>2
<1> QED BY <1>1, <1>2, <1>3, SwissRaceHears

\* A lane whose fields stay as they are.
LEMMA SwissOther ==
    ASSUME NEW p, NEW d, NEW e, NEW k, SwissLane(p, d, k), e.time[k] = d.time[k],
           e.place[k] = d.place[k], e.splits[k] = d.splits[k], e.running[k] = d.running[k],
           p.wall[k] # 0 => e.line[p.wall[k]] = d.line[p.wall[k]]
    PROVE  SwissLane(p, e, k)
  BY DEF SwissLane, IsRank

\* The line of a touch.
LEMMA SwissTouchIs ==
    ASSUME PoolInv, NEW l \in Lanes, NEW m, m = SwissTouch(pool, l)
    PROVE  /\ m \in SwissLines /\ m.lane = l /\ m.time = pool.mark[l]
           /\ m.rank = RankIn(pool, l) /\ m.line = LineOf(pool, l)
<1> DEFINE r == RankIn(pool, l)
           x == pool.mark[l]
           n == LineOf(pool, l)
<1>1. r \in Nat /\ x \in Nat /\ n \in Lanes
  BY RankType, LineType, LanesFinite DEF PoolInv, Pools
<1>2. m = [t |-> "line", line |-> n, lane |-> l, rank |-> r, time |-> x]
  BY DEF SwissTouch
<1> HIDE DEF r, x, n
<1>3. m \in SwissLines /\ m.lane = l /\ m.time = x /\ m.rank = r /\ m.line = n
  BY <1>1, <1>2 DEF SwissLines
<1> QED BY <1>3 DEF r, x, n

\* A touch read.
LEMMA SwissTouchRead ==
    ASSUME PoolInv, DecInv, kind \in Swiss, pool.heat # 0, dec.active,
           NEW l \in Lanes, l \in Swim(pool), NEW w, SwissTouchHeard(pool, w, dec, l),
           NEW f, f = SwissLine(dec, SwissTouch(pool, l))
    PROVE  /\ f.heat = dec.heat /\ f.active /\ f.reset = dec.reset
           /\ \A k \in Lanes : SwissLane(pool, f, k)
<1> DEFINE m == SwissTouch(pool, l)
           x == pool.mark[l]
           r == RankIn(pool, l)
           n == LineOf(pool, l)
<1>1. m \in SwissLines /\ m.lane = l /\ m.time = x /\ m.rank = r /\ m.line = n
  BY SwissTouchIs
<1>2. dec \in Decs /\ f = SwissLine(dec, m)
  BY DEF DecInv
<1> HIDE DEF m
<1>3. /\ \A k \in Lanes \ {l} : SwissLane(pool, dec, k)
      /\ ~dec.reset /\ dec.running[l] /\ dec.time[l] = 0 /\ pool.legs[l] > 0
      /\ dec.splits[l] = pool.legs[l] - 1
      /\ pool.wall[l] = (IF pool.legs[l] < Legs THEN n ELSE 0)
      /\ \A k \in Lanes \ {l} : pool.wall[k] # n
  BY DEF SwissTouchHeard
<1>4. /\ f \in Decs /\ SameHeat(f, dec) /\ f.active = dec.active
      /\ SwissShown(f, dec, l, x, r, n)
  BY <1>1, <1>2, SwissLineFields
<1>5. n \in Lanes /\ n # 0 /\ x # 0 /\ pool.legs[l] \in 0..Legs /\ Legs \in Nat
      /\ \A k \in Lanes : pool.wall[k] \in {0} \cup Lanes
  BY <1>3, LineType, LanesFinite, ConsoleAssumption DEF PoolInv, Pools, Swiss
<1>6. Swims(pool, l) = FALSE
  <2>1. CASE pool.legs[l] < Legs
    BY <1>3, <1>5, <2>1 DEF Swims
  <2>2. CASE ~(pool.legs[l] < Legs)
    BY <2>2 DEF Swims
  <2> QED BY <2>1, <2>2
<1> HIDE DEF x, r, n
<1>7. SwissLane(pool, f, l)
  <2>1. f.running[l] = FALSE
    <3>1. f.running[l] \in BOOLEAN
      BY <1>4 DEF Decs
    <3> QED BY <1>4, <3>1 DEF SwissShown
  <2>2. f.time[l] = x /\ f.place[l] = r /\ f.line[n] = l
    BY <1>4 DEF SwissShown
  <2>3. f.splits[l] = pool.legs[l]
    <3>1. f.splits[l] = dec.splits[l] + 1
      BY <1>3, <1>4, <1>5 DEF SwissShown
    <3> QED BY <1>3, <1>5, <3>1
  <2>4. pool.wall[l] # 0 => f.line[pool.wall[l]] = l
    BY <1>3, <2>2
  <2> QED BY <1>6, <2>1, <2>2, <2>3, <2>4 DEF SwissLane, IsRank, x, r
<1>8. \A k \in Lanes \ {l} : SwissLane(pool, f, k)
  <2> SUFFICES ASSUME NEW k \in Lanes \ {l} PROVE SwissLane(pool, f, k)
    OBVIOUS
  <2>1. /\ f.running[k] = dec.running[k] /\ f.time[k] = dec.time[k]
        /\ f.splits[k] = dec.splits[k] /\ f.place[k] = dec.place[k]
    BY <1>4 DEF Others, SwissShown
  <2>2. pool.wall[k] # 0 => f.line[pool.wall[k]] = dec.line[pool.wall[k]]
    BY <1>3, <1>4, <1>5 DEF Others, SwissShown
  <2> QED BY <1>3, <2>1, <2>2, SwissOther
<1>9. \A k \in Lanes : SwissLane(pool, f, k)
  BY <1>7, <1>8
<1> QED BY <1>4, <1>9 DEF SameHeat

\* The line of an erased touch.
LEMMA SwissErasedIs ==
    ASSUME NEW l \in Lanes, NEW x \in Lanes, NEW m, m = SwissErasedOf(l, x)
    PROVE  /\ m \in Erasures /\ m.line = x
           /\ m.lane = 0 \/ m.lane = l
<1> DEFINE n == IF kind = "swisslane" THEN l ELSE 0
<1>1. n \in {0} \cup Lanes /\ (n = 0 \/ n = l)
  OBVIOUS
<1>2. m = [t |-> "erased", line |-> x, lane |-> n]
  BY DEF SwissErasedOf
<1> HIDE DEF n
<1> QED BY <1>1, <1>2 DEF Erasures

\* An erased touch, read.
LEMMA SwissEraseRead ==
    ASSUME PoolInv, DecInv, kind \in Swiss, pool.heat # 0, dec.active,
           NEW l \in Lanes, NEW x \in Lanes, dec.line[x] = l, Swims(pool, l),
           dec.splits[l] = pool.legs[l], \A k \in Lanes \ {l} : SwissLane(pool, dec, k),
           NEW f, f = SwissErased(dec, SwissErasedOf(l, x))
    PROVE  f.heat = dec.heat /\ f.active /\ \A k \in Lanes : SwissLane(pool, f, k)
<1> DEFINE m == SwissErasedOf(l, x)
           y == IF m.lane # 0 THEN m.lane ELSE dec.line[m.line]
<1>1. m \in Erasures /\ m.line = x /\ (m.lane = 0 \/ m.lane = l)
  BY SwissErasedIs
<1>2. dec \in Decs /\ f = SwissErased(dec, m) /\ l # 0
  BY LanesFinite DEF DecInv
<1> HIDE DEF m
<1>3. y = l
  BY <1>1, <1>2
<1> HIDE DEF y
<1>4. /\ f \in Decs /\ SameHeat(f, dec) /\ f.active = dec.active /\ SwissOn(f, dec, l, x)
  <2>1. f \in Decs /\ SameHeat(f, dec) /\ f.active = dec.active
        /\ (y # 0 => y \in Lanes /\ SwissOn(f, dec, y, m.line))
    BY <1>1, <1>2, SwissErasedFields DEF y
  <2> QED BY <1>1, <1>2, <1>3, <2>1
<1>5. /\ pool.wall[l] = 0 /\ pool.legs[l] # Legs /\ Swims(pool, l) = TRUE
      /\ \A k \in Lanes : pool.wall[k] \in {0} \cup Lanes
  <2>1. pool.legs[l] < Legs /\ pool.legs[l] \in Nat /\ Legs \in Nat /\ pool.wall[l] = 0
    BY ConsoleAssumption DEF Swims, PoolInv, Pools
  <2>2. pool.legs[l] # Legs
    BY <2>1
  <2>3. Swims(pool, l) = TRUE
    BY DEF Swims
  <2> QED BY <2>1, <2>2, <2>3 DEF PoolInv, Pools
<1>6. SwissLane(pool, f, l)
  <2>1. f.running[l] = TRUE /\ f.time[l] = 0 /\ f.splits[l] = pool.legs[l]
    BY <1>4 DEF SwissOn
  <2> QED BY <1>5, <2>1 DEF SwissLane, IsRank
<1>7. \A k \in Lanes \ {l} : SwissLane(pool, f, k)
  <2> SUFFICES ASSUME NEW k \in Lanes \ {l} PROVE SwissLane(pool, f, k)
    OBVIOUS
  <2>1. /\ f.running[k] = dec.running[k] /\ f.time[k] = dec.time[k]
        /\ f.splits[k] = dec.splits[k] /\ f.place[k] = dec.place[k]
    BY <1>4 DEF Others, SwissOn
  <2>2. SwissLane(pool, dec, k)
    OBVIOUS
  <2>3. pool.wall[k] # 0 => pool.wall[k] \in Lanes /\ pool.wall[k] # x
    BY <1>5, <2>2 DEF SwissLane
  <2>4. pool.wall[k] # 0 => f.line[pool.wall[k]] = dec.line[pool.wall[k]]
    BY <1>4, <2>3 DEF Others, SwissOn
  <2> QED BY <2>1, <2>2, <2>4, SwissOther
<1>8. \A k \in Lanes : SwissLane(pool, f, k)
  BY <1>6, <1>7
<1> QED BY <1>4, <1>8 DEF SameHeat

\* Before the start only the heat, the lanes and the clock count.
LEMMA SwissReadyKept ==
    ASSUME NEW p, NEW w, NEW d, NEW e, SwissReady(p, w, d), e.heat = d.heat, SameShown(e, d),
           e.active = d.active
    PROVE  SwissReady(p, w, e)
  BY DEF SwissReady, SwissBlank, SameShown

\* A message before the race, read.
LEMMA SwissReadyRead ==
    ASSUME PoolInv, DecInv, kind \in Swiss, full \in BOOLEAN, pool.heat # 0, NEW m, NEW u,
           m \in Msgs(wire), Msgs(u) \subseteq Msgs(wire), Msgs(wire) \subseteq {m} \cup Msgs(u),
           SwissReady(pool, wire, dec), NEW f, f = FeedSwiss(dec, m)
    PROVE  SwissReady(pool, u, f)
<1> DEFINE a == Named(pool)
           b == At(pool, TRUE)
<1>1. a.t = "heat" /\ a.heat = pool.heat /\ b.t = "clock" /\ b.zero
  BY ClockLine DEF Named
<1>2. dec \in Decs /\ pool.heat \in Heats
  BY HeatsNat DEF DecInv, PoolInv, Pools
<1> HIDE DEF a, b
<1>3. a # b
  BY <1>1
<1>4. /\ Msgs(wire) \subseteq {a} \cup IF full THEN {b} ELSE {}
      /\ \/ a \in Msgs(wire) /\ dec.heat # pool.heat
         \/ /\ dec.heat = pool.heat
            /\ full => SwissBlank(dec) \/ (b \in Msgs(wire) /\ dec.active)
  BY DEF SwissReady, a, b
<1>5. SUFFICES \/ a \in Msgs(u) /\ f.heat # pool.heat
               \/ /\ f.heat = pool.heat
                  /\ full => SwissBlank(f) \/ (b \in Msgs(u) /\ f.active)
  BY <1>4, <1>5 DEF SwissReady, a, b
<1>6. CASE m = a
  <2>1. f = NewHeat(dec, pool.heat)
    BY <1>1, <1>6 DEF FeedSwiss
  <2>2. f.heat = pool.heat /\ (pool.heat = dec.heat => f = dec)
        /\ (pool.heat # dec.heat => ResetLeaves(f, dec))
    BY <1>2, <2>1, NewHeatFields DEF AllKinds, Swiss
  <2>3. CASE dec.heat = pool.heat
    BY <1>3, <1>4, <1>6, <2>2, <2>3
  <2>4. CASE dec.heat # pool.heat
    <3>1. ~f.active
      BY <2>2, <2>4 DEF ResetLeaves, Swiss, CTS
    <3>2. SwissBlank(f)
      BY <2>2, <2>4, <3>1, DarkCounted DEF ResetLeaves, SwissBlank
    <3> QED BY <2>2, <3>2
  <2> QED BY <2>3, <2>4
<1>7. CASE m = b
  <2>1. f = SwissClock(dec, m)
    BY <1>1, <1>7 DEF FeedSwiss
  <2>2. /\ f.heat = dec.heat /\ (dec.active => SwissBlank(f)) /\ (~dec.active => f = dec)
    BY <1>1, <1>2, <1>7, <2>1, SwissZeroFields
  <2>3. CASE dec.heat # pool.heat
    BY <1>3, <1>4, <1>7, <2>2, <2>3
  <2>4. CASE dec.heat = pool.heat
    <3>1. full
      BY <1>1, <1>3, <1>4, <1>7
    <3> QED BY <1>4, <2>2, <2>4, <3>1
  <2> QED BY <2>3, <2>4
<1> QED BY <1>4, <1>6, <1>7

\* The start, read.
LEMMA SwissStartRead ==
    ASSUME PoolInv, DecInv, known, kind \in Swiss, full \in BOOLEAN, pool.heat # 0,
           SwissStartHeard(pool, wire, dec), dec.heat = pool.heat,
           NEW f, f = FeedSwiss(dec, Head(wire))
    PROVE  /\ Tail(wire) = <<>> /\ f.heat = dec.heat /\ f.active
           /\ \A k \in Lanes : SwissLane(pool, f, k)
           /\ \E l \in Lanes : Swims(pool, l)
<1> DEFINE a == At(pool, FALSE)
           b == [t |-> "new race"]
           m == IF full THEN a ELSE b
<1>1. a.t = "clock" /\ a.zero = FALSE
  BY ClockLine
<1>2. dec \in Decs /\ pool.out = {} /\ \A l \in Lanes : pool.legs[l] = 0
  BY DEF DecInv, SwissStartHeard, PoolInv, Swiss
<1>3. LanesToStart(dec) = Swim(pool)
  BY StartsSwimmers
<1> HIDE DEF a
<1>4. wire = <<m>>
  BY DEF SwissStartHeard, a
<1> HIDE DEF m
<1>5. Head(wire) = m /\ Tail(wire) = <<>>
  BY <1>4
<1>6. /\ f \in Decs /\ f.heat = dec.heat /\ f.active
      /\ \A l \in Lanes : /\ f.time[l] = 0 /\ f.splits[l] = 0
                          /\ f.running[l] = (l \in Swim(pool))
  <2>1. CASE full
    <3>1. m = a /\ SwissBlank(dec)
      BY <2>1 DEF m, SwissStartHeard
    <3>2. f = SwissClock(dec, a)
      BY <1>1, <1>5, <3>1 DEF FeedSwiss
    <3>3. /\ f \in Decs /\ SameHeat(f, dec) /\ f.active
          /\ \A l \in Lanes : /\ f.time[l] = 0 /\ f.splits[l] = 0
                              /\ f.running[l] = (l \in LanesToStart(dec))
      <4>1. dec \in Decs
        BY <1>2
      <4>2. /\ f \in Decs /\ SameHeat(f, dec) /\ f.active
            /\ SwissBlank(dec) => SwissOff(f, dec)
        BY <1>1, <3>2, <4>1, SwissRunFields
      <4>3. SwissBlank(dec)
        BY <3>1
      <4> QED BY <4>2, <4>3 DEF SwissOff
    <3> QED BY <1>3, <3>3 DEF SameHeat
  <2>2. CASE ~full
    <3>1. m = b
      BY <2>2 DEF m
    <3>3. f = FeedSwiss(dec, b)
      BY <1>5, <3>1
    <3>4. b.t = "new race"
      OBVIOUS
    <3> HIDE DEF b
    <3>2. f = Started(ResetLanes(dec), {})
      BY <3>3, <3>4 DEF FeedSwiss
    <3> QED BY <1>2, <1>3, <3>2, SwissNewRaceFields DEF SameHeat
  <2> QED BY <2>1, <2>2
<1>7. /\ \A l \in Lanes : /\ pool.mark[l] = 0 /\ pool.legs[l] # Legs
                          /\ Swims(pool, l) = (l \in Swim(pool)) /\ pool.wall[l] = 0
      /\ \E l \in Lanes : Swims(pool, l)
  BY <1>2, NobodyTouched
<1>8. \A k \in Lanes : SwissLane(pool, f, k)
  BY <1>2, <1>6, <1>7 DEF SwissLane, IsRank
<1> QED BY <1>5, <1>6, <1>7, <1>8

\* A message of a Swiss Timing, delivered.
LEMMA SwissDeliver ==
    ASSUME PoolInv, DecInv, WireInv, kind \in Swiss, known, pool.heat # 0,
           SwissHears(pool, wire, dec), Deliver
    PROVE  SwissHears(pool, wire', dec')
<1> DEFINE m == Head(wire)
           f == Fed(dec, m)
<1>1. wire # <<>> /\ wire' = Tail(wire) /\ dec' = Apply(f) /\ UNCHANGED <<kind, known, pool>>
  BY DEF Deliver, Quiet
<1>2. SayableBy(pool, m)
  BY <1>1, HeadHeard
<1>3. Fit(f)
  BY <1>2, SwissFed
<1>4. /\ dec'.heat = f.heat /\ SameAside(dec', f) /\ SameShown(dec', f) /\ SameRest(dec', f)
      /\ dec'.reset = (~Finished(f) /\ (f.reset \/ Finished(dec)))
  BY <1>1, <1>3, DecKept
<1>5. f = FeedSwiss(dec, m) /\ dec \in Decs /\ full \in BOOLEAN /\ wire \in Seq(Msgs(wire))
  BY FedIs DEF DecInv, WireInv
<1>6. /\ dec'.time = f.time /\ dec'.place = f.place /\ dec'.running = f.running
      /\ dec'.splits = f.splits /\ dec'.active = f.active /\ dec'.line = f.line
  BY <1>4 DEF SameShown, SameRest
<1> HIDE DEF f
<1>7. CASE pool.phase = "ready"
  <2>1. SwissReady(pool, wire, dec)
    BY <1>7, SwissReadyHears
  <2>2. m \in Msgs(wire) /\ Msgs(wire') \subseteq Msgs(wire)
        /\ Msgs(wire) \subseteq {m} \cup Msgs(wire')
    BY <1>1, <1>5, MsgsTail
  <2>3. SwissReady(pool, wire', f)
    BY <1>5, <2>1, <2>2, SwissReadyRead
  <2>4. SwissReady(pool, wire', dec')
    BY <1>4, <1>6, <2>3, SwissReadyKept
  <2> QED BY <1>7, <2>4, SwissReadyHears
<1>8. CASE pool.phase # "ready"
  <2>1. /\ dec.heat = pool.heat /\ Going(pool, dec)
        /\ \/ SwissStartHeard(pool, wire, dec)
           \/ dec.active /\ \E l \in Swim(pool) : SwissTouchHeard(pool, wire, dec, l)
           \/ dec.active /\ \E l \in Swim(pool) : SwissEraseHeard(pool, wire, dec, l)
    BY <1>1, <1>8, SwissRaceHears
  <2>2. SUFFICES /\ wire' = <<>> /\ f.heat = pool.heat /\ f.active
                 /\ \A k \in Lanes : SwissLane(pool, f, k)
                 /\ dec'.reset => \E l \in Lanes : Swims(pool, l)
    <3>1. \A k \in Lanes : SwissLane(pool, dec', k)
      BY <1>6, <2>2, SwissOther
    <3>2. Going(pool, dec')
      BY <2>2 DEF Going
    <3> QED BY ZenonT(30), <1>4, <1>6, <1>8, <2>2, <3>1, <3>2, SwissRaceHears
  <2>3. CASE SwissStartHeard(pool, wire, dec)
    BY <1>1, <1>5, <2>1, <2>3, SwissStartRead
  <2>4. ASSUME dec.active, NEW l \in Swim(pool), SwissTouchHeard(pool, wire, dec, l)
        PROVE  /\ wire' = <<>> /\ f.heat = pool.heat /\ f.active
               /\ \A k \in Lanes : SwissLane(pool, f, k)
               /\ dec'.reset => \E k \in Lanes : Swims(pool, k)
    <3> DEFINE a == SwissTouch(pool, l)
    <3>1. l \in Lanes
      BY InHeatIs
    <3>2. a \in SwissLines
      BY <3>1, SwissTouchIs
    <3>3. wire = <<a>> /\ ~dec.reset /\ dec.running[l]
      BY <2>4 DEF SwissTouchHeard
    <3> HIDE DEF a
    <3>4. m = a /\ wire' = <<>>
      BY <1>1, <3>3
    <3>5. f = SwissLine(dec, a)
      BY <1>5, <3>2, <3>4 DEF FeedSwiss, SwissLines
    <3>6. f.heat = dec.heat /\ f.active /\ f.reset = dec.reset
          /\ \A k \in Lanes : SwissLane(pool, f, k)
      BY <2>4, <3>1, <3>5, SwissTouchRead DEF a
    <3>7. ~Finished(dec)
      BY <3>1, <3>3 DEF Finished, Swiss
    <3>8. ~dec'.reset
      BY <1>4, <3>3, <3>6, <3>7
    <3> QED BY <2>1, <3>4, <3>6, <3>8
  <2>5. ASSUME dec.active, NEW l \in Swim(pool), SwissEraseHeard(pool, wire, dec, l)
        PROVE  /\ wire' = <<>> /\ f.heat = pool.heat /\ f.active
               /\ \A k \in Lanes : SwissLane(pool, f, k)
               /\ dec'.reset => \E k \in Lanes : Swims(pool, k)
    <3>1. l \in Lanes
      BY InHeatIs
    <3>2. PICK x \in Lanes : dec.line[x] = l /\ wire = <<SwissErasedOf(l, x)>>
      BY <2>5 DEF SwissEraseHeard
    <3>3. Swims(pool, l) /\ dec.splits[l] = pool.legs[l]
          /\ \A k \in Lanes \ {l} : SwissLane(pool, dec, k)
      BY <2>5 DEF SwissEraseHeard
    <3> DEFINE a == SwissErasedOf(l, x)
    <3>4. a \in Erasures
      BY <3>1, SwissErasedIs
    <3>5. wire = <<a>>
      BY <3>2
    <3> HIDE DEF a
    <3>6. m = a /\ wire' = <<>>
      BY <1>1, <3>5
    <3>7. f = SwissErased(dec, a)
      BY <1>5, <3>4, <3>6 DEF FeedSwiss, Erasures
    <3>8. f.heat = dec.heat /\ f.active /\ \A k \in Lanes : SwissLane(pool, f, k)
      BY <2>5, <3>1, <3>2, <3>3, <3>7, SwissEraseRead DEF a
    <3> QED BY <2>1, <3>1, <3>3, <3>6, <3>8
  <2> QED BY <2>1, <2>3, <2>4, <2>5
<1> QED BY <1>7, <1>8

\* The decoder of a Swiss Timing alone, with nothing on the wire.
LEMMA SwissIdle ==
    ASSUME PoolInv, DecInv, WireInv, kind \in Swiss, known, pool.heat # 0,
           SwissHears(pool, wire, dec), Tick \/ BoardIsReset
    PROVE  SwissHears(pool, wire', dec')
<1>1. wire = <<>> /\ wire' = <<>> /\ UNCHANGED <<kind, known, pool>>
  BY DEF Tick, BoardIsReset, Quiet, consoleVars
<1>2. dec \in Decs
  BY DEF DecInv
<1>3. CASE pool.phase = "ready"
  <2>1. SwissReady(pool, wire, dec)
    BY <1>3, SwissReadyHears
  <2>2. BoardIsReset
    BY <1>3 DEF Tick, RTD, Swiss
  <2> DEFINE d == IF Finished(dec) \/ dec.running # Still THEN dec ELSE ResetLanes(dec)
  <2>3. dec' = [d EXCEPT !.reset = FALSE]
    BY <2>2 DEF BoardIsReset
  <2>4. d \in Decs /\ SwissReady(pool, wire, d)
    <3>1. CASE d = dec
      BY <1>2, <2>1, <3>1
    <3>2. CASE d = ResetLanes(dec)
      <4> HIDE DEF d
      <4>1. d \in Decs /\ ResetLeaves(d, dec) /\ d.heat = dec.heat
        BY <1>2, <3>2, ResetFields DEF AllKinds, Swiss
      <4>2. ~d.active
        BY <4>1 DEF ResetLeaves, Swiss, CTS
      <4>3. SwissBlank(d)
        BY <4>1, <4>2, DarkCounted DEF ResetLeaves, SwissBlank
      <4> QED BY <2>1, <4>1, <4>3 DEF SwissReady
    <3> QED BY <3>1, <3>2
  <2> HIDE DEF d
  <2>5. dec'.heat = d.heat /\ SameShown(dec', d) /\ dec'.active = d.active
    BY <2>3, <2>4 DEF Decs, SameShown
  <2>6. SwissReady(pool, wire', dec')
    BY <1>1, <2>4, <2>5, SwissReadyKept
  <2> QED BY <1>3, <2>6, SwissReadyHears
<1>4. CASE pool.phase # "ready"
  <2>1. /\ dec.heat = pool.heat /\ Going(pool, dec) /\ dec.active
        /\ \A l \in Lanes : SwissLane(pool, dec, l)
    BY <1>1, <1>4, SwissRaceHeard
  <2>2. SUFFICES /\ dec'.heat = dec.heat /\ SameShown(dec', dec) /\ SameRest(dec', dec)
                 /\ dec'.reset => dec.reset
    <3>1. \A k \in Lanes : SwissLane(pool, dec', k)
      BY <2>1, <2>2, SwissOther DEF SameShown, SameRest
    <3>2. Going(pool, dec') /\ dec'.active
      BY <2>1, <2>2 DEF Going, SameRest
    <3> QED BY <1>1, <1>4, <2>1, <2>2, <3>1, <3>2, SwissRaceHears
  <2>3. CASE Tick
    <3> DEFINE m == [t |-> "clock", zero |-> pool.phase = "ready",
                     heat |-> pool.heat, soon |-> FALSE]
    <3>1. m.t = "clock" /\ m.zero = FALSE
      BY <1>4
    <3>2. dec' = Apply(Fed(dec, m))
      BY <2>3 DEF Tick
    <3> HIDE DEF m
    <3>3. Fed(dec, m) = dec
      <4>1. Fed(dec, m) = SwissClock(dec, m)
        BY <3>1, FedIs DEF FeedSwiss
      <4> QED BY <2>1, <3>1, <4>1 DEF SwissClock, Started
    <3>4. Fit(dec)
      BY <1>2, PlainFit DEF Swiss
    <3>5. /\ dec'.heat = dec.heat /\ SameShown(dec', dec) /\ SameRest(dec', dec)
          /\ dec'.reset = (~Finished(dec) /\ (dec.reset \/ Finished(dec)))
      BY <1>1, <3>2, <3>3, <3>4, DecKept
    <3> QED BY <3>5
  <2>4. CASE BoardIsReset
    <3>1. dec.running # Still
      <4>1. PICK l \in Lanes : Swims(pool, l)
        BY <2>1, <2>4 DEF Going, BoardIsReset
      <4>2. dec.running[l]
        BY <2>1, <4>1 DEF SwissLane
      <4> QED BY <4>2 DEF Still
    <3>2. dec' = [dec EXCEPT !.reset = FALSE]
      BY <2>4, <3>1 DEF BoardIsReset
    <3> QED BY <1>2, <3>2 DEF Decs, SameShown, SameRest
  <2> QED BY <2>3, <2>4
<1> QED BY <1>3, <1>4

\* A heat made ready.
LEMMA SwissReadySent ==
    ASSUME PoolInv, DecInv, WireInv, kind \in Swiss, wire = <<>>,
           UNCHANGED <<kind, full, known, dec>>, NextHeat \/ Reswim
    PROVE  /\ WireInv' /\ (NextHeat \/ (pool.heat # 0 /\ lost' = lost))
           /\ NextHeat \/ SwissHears(pool, wire, dec) => SwissHears(pool', wire', dec')
<1>1. pool'.phase = "ready" /\ pool'.heat \in Heats
  BY NextHeatPool, ReswimPool DEF Made
<1>2. pool'.heat > 0
  BY <1>1, HeatsNat
<1> DEFINE a == Named(pool')
           b == At(pool', TRUE)
           v == IF full THEN <<b>> ELSE <<>>
<1>3. /\ NextHeat => wire' = <<a>> \o v
      /\ Reswim => wire' = <<>> \o v
  BY DEF NextHeat, Reswim, Send, Announces, HeatNumber, Clock, Named, At, RTD, Swiss, CTS
<1>4. SayableBy(pool', a) /\ SayableBy(pool', b)
  BY SwissSays
<1>5. /\ lost' = lost \/ lost' = [lost EXCEPT !.since = 0]
      /\ NextHeat \/ (pool.heat # 0 /\ lost' = lost)
  BY ReswimPool, HeatsNat DEF NextHeat, Reswim, Swiss
<1> HIDE DEF a, b
<1>6. v \in Seq(Msgs(v)) /\ Msgs(v) = IF full THEN {b} ELSE {}
  BY ShortIsSeq, MsgsShort
<1> HIDE DEF v
<1>7. /\ wire' \in Seq(Msgs(wire'))
      /\ NextHeat => Msgs(wire') = {a} \cup Msgs(v)
      /\ Reswim => Msgs(wire') = Msgs(v)
  <2>1. CASE NextHeat
    <3> DEFINE u == <<a>>
    <3>1. u \in Seq(Msgs(u)) /\ Msgs(u) = {a}
      BY ShortIsSeq, MsgsShort
    <3> HIDE DEF u
    <3>2. Msgs(u \o v) = Msgs(u) \cup Msgs(v) /\ u \o v \in Seq(Msgs(u \o v))
      BY <1>6, <3>1, MsgsConcat
    <3>3. wire' = u \o v
      BY <1>3, <2>1 DEF u
    <3>4. ~Reswim
      BY <1>2, <2>1, NextHeatPool, ReswimPool
    <3> QED BY <3>1, <3>2, <3>3, <3>4
  <2>2. CASE Reswim
    <3>1. <<>> \o v = v
      BY <1>6
    <3>2. wire' = v
      BY <1>3, <2>2, <3>1
    <3>3. ~NextHeat
      BY <1>2, <2>2, NextHeatPool, ReswimPool
    <3> QED BY <1>6, <3>2, <3>3
  <2> QED BY <2>1, <2>2
<1>8. WireInv'
  <2>1. Msgs(wire') \subseteq {a, b}
    BY <1>6, <1>7
  <2> QED BY <1>2, <1>4, <1>5, <1>7, <2>1, WireSent
<1>9. ASSUME NextHeat PROVE dec.heat # pool'.heat
  <2>1. dec.heat <= pool.heat /\ dec.heat \in Nat /\ pool.heat \in Nat
        /\ pool'.heat = pool.heat + 1
    BY <1>9, NextHeatPool, HeatsNat DEF DecInv, Decs
  <2> QED BY <2>1
<1>10. ASSUME Reswim, SwissHears(pool, wire, dec) PROVE dec.heat = pool'.heat /\ dec.active
  <2>1. pool'.heat = pool.heat /\ pool.phase # "ready"
    BY <1>10, ReswimPool DEF Reswim
  <2> QED BY <1>10, <2>1, SwissRaceHeard
<1>11. ASSUME NextHeat \/ SwissHears(pool, wire, dec) PROVE SwissHears(pool', wire', dec)
  <2>1. Msgs(wire') \subseteq {a} \cup IF full THEN {b} ELSE {}
    BY <1>6, <1>7
  <2>2. CASE NextHeat
    <3>1. a \in Msgs(wire') /\ dec.heat # pool'.heat
      BY <1>7, <1>9, <2>2
    <3>2. SwissReady(pool', wire', dec)
      BY <2>1, <3>1 DEF SwissReady, a, b
    <3> QED BY <1>1, <3>2, SwissReadyHears
  <2>3. CASE Reswim /\ SwissHears(pool, wire, dec)
    <3>1. full => b \in Msgs(wire')
      BY <1>6, <1>7, <2>3
    <3>2. dec.heat = pool'.heat /\ dec.active
      BY <1>10, <2>3
    <3>3. SwissReady(pool', wire', dec)
      BY <2>1, <3>1, <3>2 DEF SwissReady, a, b
    <3> QED BY <1>1, <3>3, SwissReadyHears
  <2> QED BY <1>11, <2>2, <2>3
<1> QED BY <1>5, <1>8, <1>11

\* The start, sent.
LEMMA SwissStartSent ==
    ASSUME PoolInv, DecInv, WireInv, kind \in Swiss, wire = <<>>, Settled,
           UNCHANGED <<kind, full, known, dec>>, Start
    PROVE  /\ WireInv' /\ pool.heat # 0 /\ lost' = lost
           /\ SwissHears(pool, wire, dec) => SwissHears(pool', wire', dec')
<1>1. /\ SameSwum(pool, pool') /\ pool'.phase = "racing" /\ pool.phase = "ready"
      /\ pool.heat # 0 /\ pool'.heat > 0 /\ lost' = lost
  BY StartPool, HeatsNat DEF PoolInv, Pools, SameSwum, Start
<1> DEFINE a == At(pool', FALSE)
           b == [t |-> "new race"]
           m == IF full THEN a ELSE b
<1>2. wire' = IF full THEN <<a>> ELSE <<b>>
  BY DEF Start, Send, Starts, Clock, At, RTD, Swiss
<1>3. SayableBy(pool', a) /\ SayableBy(pool', b)
  BY SwissSays
<1>4. WireInv'
  <2> HIDE DEF a, b
  <2>1. wire' = <<m>> /\ SayableBy(pool', m)
    BY <1>2, <1>3
  <2> HIDE DEF m
  <2>2. wire' \in Seq(Msgs(wire')) /\ \A n \in Msgs(wire') : SayableBy(pool', n)
    BY <2>1, OneSaid
  <2> QED BY <1>1, <2>2, WireSent
<1>5. ASSUME SwissHears(pool, wire, dec) PROVE SwissHears(pool', wire', dec')
  <2>1. SwissReady(pool, wire, dec)
    BY <1>1, <1>5, SwissReadyHears
  <2>2. dec.heat = pool.heat /\ (full => SwissBlank(dec))
    <3>1. Msgs(wire) = {}
      BY MsgsShort
    <3> QED BY <2>1, <3>1 DEF SwissReady
  <2>3. ~dec.reset
    BY <1>1 DEF Settled
  <2>4. \A l \in Lanes : pool'.legs[l] = 0
    BY <1>1 DEF SameSwum, PoolInv
  <2>5. SwissStartHeard(pool', wire', dec)
    BY <1>2, <2>2, <2>3, <2>4 DEF SwissStartHeard
  <2>6. dec.heat = pool'.heat /\ Going(pool', dec) /\ dec' = dec /\ pool'.phase # "ready"
    BY <1>1, <2>2, <2>3 DEF Going, SameSwum
  <2>7. SwissHears(pool', wire', dec)
    BY <2>5, <2>6, SwissRaceHears
  <2> QED BY <2>6, <2>7
<1> QED BY <1>1, <1>4, <1>5

\* A lane the console's step does not move.
LEMMA SwissLaneMoved ==
    ASSUME NEW p, NEW q, NEW d, NEW k, SwissLane(p, d, k), q.heat = p.heat,
           Swims(q, k) = Swims(p, k), q.legs[k] = p.legs[k], q.mark[k] = p.mark[k],
           q.wall[k] = p.wall[k], p.legs[k] = Legs => RankIn(q, k) = RankIn(p, k)
    PROVE  SwissLane(q, d, k)
  BY DEF SwissLane, IsRank, Swim

\* A touch, sent.
LEMMA SwissTouchSent ==
    ASSUME PoolInv, DecInv, WireInv, kind \in Swiss, wire = <<>>, Settled, ~SlowReset,
           UNCHANGED <<kind, full, known, dec>>, NEW l \in Lanes, Touch(l), PoolInv'
    PROVE  /\ WireInv' /\ pool.heat # 0 /\ lost' = lost
           /\ SwissHears(pool, wire, dec) => SwissHears(pool', wire', dec')
<1>1. /\ pool' \in Pools /\ Touched(pool, pool', l) /\ pool.phase = "racing"
      /\ pool.heat # 0 /\ Swims(pool, l) /\ pool'.heat > 0 /\ lost' = lost
      /\ \A k \in Lanes : pool.wall[k] # LineOf(pool', l)
  <2>1. lost' = lost
    BY DEF Touch
  <2> QED BY <2>1, TouchMoves, HeatsNat DEF PoolInv, Pools, Touched
<1> DEFINE m == SwissTouch(pool', l)
<1>2. wire' = <<m>>
  BY DEF Touch, Send, Touches, RTD, Swiss, SwissTouch
<1>3. m \in SwissLines
  <2> DEFINE r == RankIn(pool', l)
             x == pool'.mark[l]
             n == LineOf(pool', l)
  <2>1. r \in Nat /\ x \in Nat /\ n \in Lanes
    BY <1>1, RankType, LineType, LanesFinite DEF Pools
  <2>2. m = [t |-> "line", line |-> n, lane |-> l, rank |-> r, time |-> x]
    BY DEF SwissTouch
  <2> HIDE DEF r, x, n, m
  <2> QED BY <2>1, <2>2 DEF SwissLines
<1> HIDE DEF m
<1>4. WireInv'
  <2>1. SayableBy(pool', m)
    BY <1>3, SwissSays
  <2>2. wire' \in Seq(Msgs(wire')) /\ \A n \in Msgs(wire') : SayableBy(pool', n)
    BY <1>2, <2>1, OneSaid
  <2> QED BY <1>1, <2>2, WireSent
<1>5. ASSUME SwissHears(pool, wire, dec) PROVE SwissHears(pool', wire', dec')
  <2>1. /\ dec.heat = pool.heat /\ Going(pool, dec) /\ dec.active
        /\ \A k \in Lanes : SwissLane(pool, dec, k)
    BY <1>1, <1>5, SwissRaceHeard
  <2>2. ~dec.reset
    BY <1>1 DEF Settled, Touched, PoolInv, Pools
  <2>3. /\ l \in Swim(pool) /\ pool.legs[l] < Legs /\ pool.legs[l] \in Nat /\ Legs \in Nat
        /\ pool'.legs[l] = pool.legs[l] + 1 /\ Swim(pool') = Swim(pool)
    BY <1>1, ConsoleAssumption DEF Touched, Swim, Swims, PoolInv, Pools
  <2>4. \A k \in Lanes \ {l} : SwissLane(pool', dec, k)
    <3> SUFFICES ASSUME NEW k \in Lanes \ {l} PROVE SwissLane(pool', dec, k)
      OBVIOUS
    <3>1. pool.legs[k] = Legs => RankIn(pool', k) = RankIn(pool, k)
      BY <1>1, <2>3, TouchRank
    <3>2. Swims(pool', k) = Swims(pool, k)
      BY <1>1 DEF Touched, Swims, Swim
    <3>3. /\ pool'.legs[k] = pool.legs[k] /\ pool'.mark[k] = pool.mark[k]
          /\ pool'.wall[k] = pool.wall[k] /\ pool'.heat = pool.heat
      BY <1>1 DEF Touched
    <3> QED BY <2>1, <3>1, <3>2, <3>3, SwissLaneMoved
  <2>5. dec.running[l] /\ dec.time[l] = 0 /\ dec.splits[l] = pool.legs[l]
    BY <1>1, <2>1, <2>3 DEF SwissLane
  <2>6. pool'.legs[l] > 0 /\ dec.splits[l] = pool'.legs[l] - 1
    BY <2>3, <2>5
  <2>7. pool'.wall[l] = IF pool'.legs[l] < Legs THEN LineOf(pool', l) ELSE 0
    BY <1>1 DEF Touched
  <2>8. \A k \in Lanes \ {l} : pool'.wall[k] # LineOf(pool', l)
    BY <1>1 DEF Touched
  <2>9. SwissTouchHeard(pool', wire', dec, l)
    BY <1>2, <2>2, <2>4, <2>5, <2>6, <2>7, <2>8 DEF SwissTouchHeard, m
  <2>10. dec.heat = pool'.heat /\ Going(pool', dec) /\ dec' = dec /\ pool'.phase # "ready"
    BY <1>1, <2>1, <2>2, <2>3 DEF Going, Touched
  <2>11. \E k \in Swim(pool') : SwissTouchHeard(pool', wire', dec, k)
    BY <2>3, <2>9
  <2>12. SwissHears(pool', wire', dec)
    BY <2>1, <2>10, <2>11, SwissRaceHears
  <2> QED BY <2>10, <2>12
<1> QED BY <1>1, <1>4, <1>5

\* An intermediate time erased: the lane goes on.
LEMMA SwissGoesOnSent ==
    ASSUME PoolInv, DecInv, WireInv, kind \in Swiss, wire = <<>>,
           UNCHANGED <<kind, full, known, dec>>, NEW l \in Lanes, GoesOn(l)
    PROVE  /\ WireInv' /\ pool.heat # 0 /\ lost' = lost
           /\ SwissHears(pool, wire, dec) => SwissHears(pool', wire', dec')
<1> DEFINE x == pool.wall[l]
           m == SwissErasedOf(l, x)
<1>1. /\ WentOn(pool, pool', l) /\ pool.heat # 0 /\ pool.phase = "racing" /\ x # 0
      /\ l \in Swim(pool) /\ Swims(pool', l) /\ lost' = lost
      /\ pool'.heat > 0 /\ x \in Lanes
  <2>1. lost' = lost
    BY DEF GoesOn
  <2>2. x # 0 /\ x \in {0} \cup Lanes
    BY GoesOnPool DEF PoolInv, Pools
  <2> QED BY <2>1, <2>2, GoesOnPool, HeatsNat DEF PoolInv, Pools, WentOn
<1>2. wire' = <<m>>
  BY DEF GoesOn, Send, Swiss, SwissErasedOf
<1>3. m \in Erasures
  BY <1>1, SwissErasedIs
<1>4. WireInv'
  <2> HIDE DEF m
  <2>1. SayableBy(pool', m)
    BY <1>3, SwissSays
  <2>2. wire' \in Seq(Msgs(wire')) /\ \A n \in Msgs(wire') : SayableBy(pool', n)
    BY <1>2, <2>1, OneSaid
  <2> QED BY <1>1, <2>2, WireSent
<1>5. ASSUME SwissHears(pool, wire, dec) PROVE SwissHears(pool', wire', dec')
  <2>1. /\ dec.heat = pool.heat /\ dec.active /\ \A k \in Lanes : SwissLane(pool, dec, k)
    BY <1>1, <1>5, SwissRaceHeard
  <2>2. \A k \in Lanes \ {l} : SwissLane(pool', dec, k)
    <3> SUFFICES ASSUME NEW k \in Lanes \ {l} PROVE SwissLane(pool', dec, k)
      OBVIOUS
    <3>1. RankIn(pool', k) = RankIn(pool, k)
      BY <1>1, WentOnRank
    <3>2. Swims(pool', k) = Swims(pool, k)
      BY <1>1 DEF WentOn, Swims, Swim
    <3>3. /\ pool'.legs[k] = pool.legs[k] /\ pool'.mark[k] = pool.mark[k]
          /\ pool'.wall[k] = pool.wall[k] /\ pool'.heat = pool.heat
      BY <1>1 DEF WentOn
    <3> QED BY <2>1, <3>1, <3>2, <3>3, SwissLaneMoved
  <2>3. dec.line[x] = l /\ dec.splits[l] = pool'.legs[l]
    BY <1>1, <2>1 DEF SwissLane, WentOn
  <2>4. SwissEraseHeard(pool', wire', dec, l)
    BY <1>1, <1>2, <2>2, <2>3 DEF SwissEraseHeard
  <2>5. dec.heat = pool'.heat /\ Going(pool', dec) /\ dec' = dec /\ pool'.phase # "ready"
        /\ Swim(pool') = Swim(pool)
    BY <1>1, <2>1 DEF Going, WentOn, Swim
  <2>6. \E k \in Swim(pool') : SwissEraseHeard(pool', wire', dec, k)
    BY <1>1, <2>4, <2>5
  <2>7. SwissHears(pool', wire', dec)
    BY <2>1, <2>5, <2>6, SwissRaceHears
  <2> QED BY <2>5, <2>7
<1> QED BY <1>1, <1>4, <1>5

\* The end of the race: a Swiss Timing board is sent nothing.
LEMMA SwissEndSent ==
    ASSUME PoolInv, DecInv, WireInv, kind \in Swiss, wire = <<>>,
           UNCHANGED <<kind, full, known, dec>>, End
    PROVE  /\ WireInv' /\ pool.heat # 0 /\ lost' = lost
           /\ SwissHears(pool, wire, dec) => SwissHears(pool', wire', dec')
<1>1. /\ SameSwum(pool, pool') /\ pool'.phase = "over" /\ pool.phase = "racing"
      /\ pool.heat # 0 /\ pool'.heat > 0 /\ lost' = lost /\ wire' = <<>>
  BY EndPool, HeatsNat DEF PoolInv, Pools, SameSwum, End, Send, Ends, Swiss
<1>2. WireInv'
  BY <1>1, WireSent, MsgsShort
<1>3. ASSUME SwissHears(pool, wire, dec) PROVE SwissHears(pool', wire', dec')
  <2>1. /\ dec.heat = pool.heat /\ Going(pool, dec) /\ dec.active
        /\ \A k \in Lanes : SwissLane(pool, dec, k)
    BY <1>1, <1>3, SwissRaceHeard
  <2>2. \A k \in Lanes : SwissLane(pool', dec, k)
    <3> SUFFICES ASSUME NEW k \in Lanes PROVE SwissLane(pool', dec, k)
      OBVIOUS
    <3>1. RankIn(pool', k) = RankIn(pool, k) /\ Swims(pool', k) = Swims(pool, k)
      BY <1>1, SameSwumRank DEF SameSwum, Swims, Swim
    <3>2. /\ pool'.legs[k] = pool.legs[k] /\ pool'.mark[k] = pool.mark[k]
          /\ pool'.wall[k] = pool.wall[k] /\ pool'.heat = pool.heat
      BY <1>1 DEF SameSwum
    <3> QED BY <2>1, <3>1, <3>2, SwissLaneMoved
  <2>3. dec.heat = pool'.heat /\ Going(pool', dec) /\ dec' = dec /\ pool'.phase # "ready"
    BY <1>1, <2>1 DEF Going, SameSwum, Swims, Swim
  <2>4. SwissHears(pool', wire', dec)
    BY <1>1, <2>1, <2>2, <2>3, SwissRaceHears
  <2> QED BY <2>3, <2>4
<1> QED BY <1>1, <1>2, <1>3

\* A step of a Swiss Timing.
LEMMA SwissConsole ==
    ASSUME PoolInv, PoolInv', DecInv, WireInv, ~SlowReset, ~PostsByPlace, kind \in Swiss,
           Console, pool.heat # 0 /\ lost.since = 0 /\ known => SwissHears(pool, wire, dec)
    PROVE  /\ WireInv'
           /\ lost'.since = 0 /\ known => SwissHears(pool', wire', dec')
<1>1. /\ wire = <<>> /\ UNCHANGED <<kind, full, known, dec>> /\ ConsoleStep /\ Settled
  BY DEF Console, ConsoleStep, NextHeat, Reswim, Start, End, PostByPlace, Touch, GoesOn,
         Flicker, GivesUp, Deletes, Quiet, Send
<1>2. CASE NextHeat \/ Reswim
  BY <1>1, <1>2, SwissReadySent
<1>3. CASE Start
  BY <1>1, <1>3, SwissStartSent
<1>4. CASE End
  BY <1>1, <1>4, SwissEndSent
<1>5. ASSUME NEW l \in Lanes, Touch(l) \/ GoesOn(l)
      PROVE  /\ WireInv'
             /\ lost'.since = 0 /\ known => SwissHears(pool', wire', dec')
  <2>1. CASE Touch(l)
    BY <1>1, <2>1, SwissTouchSent
  <2>2. CASE GoesOn(l)
    BY <1>1, <2>2, SwissGoesOnSent
  <2> QED BY <1>5, <2>1, <2>2
<1> QED BY <1>1, <1>2, <1>3, <1>4, <1>5
        DEF ConsoleStep, PostByPlace, Flicker, GivesUp, Deletes, CTS, Swiss

\* What was heard whole from a Swiss Timing is decoded.
LEMMA SwissDecoded ==
    ASSUME PoolInv, DecInv, kind \in Swiss, pool.heat # 0, wire = <<>>,
           SwissHears(pool, wire, dec)
    PROVE  EndsAsSwum /\ NotFinishedEarly
<1>1. pool.phase # "ready" => dec.heat = pool.heat /\ \A l \in Lanes : SwissLane(pool, dec, l)
  BY SwissRaceHeard
<1>2. EndsAsSwum
  <2> SUFFICES ASSUME pool.phase = "over" PROVE EndsAsSwum
    BY DEF EndsAsSwum
  <2>1. /\ \A l \in Lanes : ~Swims(pool, l)
        /\ \A l \in Swim(pool) \ pool.out : pool.legs[l] = Legs /\ l \in Lanes
    BY AllOver
  <2>2. \A l \in Lanes : ~dec.running[l] /\ dec.time[l] = pool.mark[l] /\ IsRank(pool, dec, l)
    BY <1>1, <2>1 DEF SwissLane
  <2>3. \A l \in Swim(pool) \ pool.out : dec.splits[l] = Legs
    BY <1>1, <2>1 DEF SwissLane
  <2>4. \A l \in Swim(pool) \ pool.out :
              dec.splits[l] = CASE kind = "quantum" -> Legs - 1
                                [] kind = "ares"    -> 0
                                [] OTHER            -> Legs
    BY <2>3 DEF Swiss
  <2>5. dec \in Decs /\ kind # "dolphin"
    BY DEF DecInv, Swiss
  <2> QED BY <1>1, <2>2, <2>4, <2>5, SwumLanes
<1>3. NotFinishedEarly
  BY DEF NotFinishedEarly, Swiss
<1> QED BY <1>2, <1>3

\* A step keeps the console, a Swiss Timing, so what it makes heard is heard after it.
LEMMA SwissPrimed ==
    ASSUME UNCHANGED <<kind, full, known>>, SwissHears(pool', wire', dec')
    PROVE  SwissHears(pool, wire, dec)'
  BY DEF SwissHears, SwissReady, SwissStartHeard, SwissLane, SwissTouch, SwissTouchHeard,
         SwissErasedOf, SwissEraseHeard, LineOf

-----------------------------------------------------------------------------
(* CTS Gen6 and Gen7: the pool made ready, a lane at a time.                 *)

\* What the module m says of lane l.
Says(m, l, time, place) ==
    /\ m \in Modules /\ m.t = "lane" /\ m.line = l /\ m.lane = l /\ LineRow(m) = l
    /\ m.time = time /\ m.place = place /\ m.digits = TRUE

\* The modules of a lane that does not run.
LEMMA StillSays ==
    ASSUME NEW l \in Lanes, NEW time \in Nat, NEW place \in Nat, NEW m,
           m = [t |-> "lane", line |-> l, lane |-> l, running |-> FALSE,
                time |-> time, place |-> place, digits |-> TRUE, soon |-> FALSE]
    PROVE  Says(m, l, time, place) /\ m.running = FALSE
<1>1. m \in Modules
  BY DEF Modules
<1>2. /\ m.t = "lane" /\ m.line = l /\ m.lane = l /\ m.running = FALSE
      /\ m.time = time /\ m.place = place /\ m.digits = TRUE
  OBVIOUS
<1>3. LineRow(m) = l
  BY <1>2, LanesFinite DEF LineRow
<1> QED BY <1>1, <1>2, <1>3 DEF Says

\* The module of a lane that runs.
LEMMA RunsSays ==
    ASSUME NEW l \in Lanes, NEW time \in Nat, NEW place \in Nat, NEW m,
           m = [t |-> "lane", line |-> l, lane |-> l, running |-> TRUE,
                time |-> time, place |-> place, digits |-> TRUE, soon |-> FALSE]
    PROVE  Says(m, l, time, place) /\ m.running = TRUE
<1>1. m \in Modules
  BY DEF Modules
<1>2. /\ m.t = "lane" /\ m.line = l /\ m.lane = l /\ m.running = TRUE
      /\ m.time = time /\ m.place = place /\ m.digits = TRUE
  OBVIOUS
<1>3. LineRow(m) = l
  BY <1>2, LanesFinite DEF LineRow
<1> QED BY <1>1, <1>2, <1>3 DEF Says

\* The module of a lane that is blank.
LEMMA BlankIs ==
    ASSUME NEW l \in Lanes
    PROVE  Says(Blank(l), l, 0, 0) /\ Blank(l).running = FALSE
  BY StillSays DEF Blank, Module

\* The module of a lane that goes.
LEMMA GoIs ==
    ASSUME NEW l \in Lanes
    PROVE  Says(Go(l), l, 0, 0) /\ Go(l).running = TRUE
  BY RunsSays DEF Go, Module

\* The message that names a heat.
LEMMA NamedIs ==
    ASSUME NEW p
    PROVE  Named(p).t = "heat" /\ Named(p).heat = p.heat
  BY DEF Named

\* The place of lane l's last touch, none before the last.
StopPlace(p, l) == IF p.legs[l] = Legs THEN RankIn(p, l) ELSE 0

\* The module of a lane that stops.
LEMMA StopIs ==
    ASSUME NEW p \in Pools, NEW l \in Lanes
    PROVE  Says(Stop(p, l), l, p.mark[l], StopPlace(p, l)) /\ Stop(p, l).running = FALSE
<1> DEFINE m == Stop(p, l)
           x == p.mark[l]
           r == StopPlace(p, l)
<1>1. x \in Nat /\ r \in Nat
  BY RankType, LanesFinite DEF Pools, StopPlace
<1>2. m = [t |-> "lane", line |-> l, lane |-> l, running |-> FALSE,
           time |-> x, place |-> r, digits |-> TRUE, soon |-> FALSE]
  BY DEF Stop, StopPlace, Module
<1> SUFFICES Says(m, l, x, r) /\ m.running = FALSE
  OBVIOUS
<1> HIDE DEF m, x, r
<1> QED BY <1>1, <1>2, StillSays

\* The lanes go dark, one by one.
LEMMA BlankRead ==
    ASSUME NEW p, NEW w, NEW u, NEW d, NEW e, NEW l \in Lanes, BlankPool(p, w, d),
           Msgs(u) \subseteq Msgs(w), Msgs(w) \subseteq {Blank(l)} \cup Msgs(u),
           e.heat = d.heat, e.time[l] = 0, e.place[l] = 0, ~e.running[l],
           Others(e.time, d.time, l), Others(e.place, d.place, l),
           Others(e.running, d.running, l),
           d.heat = p.heat /\ ~d.running[l] => e.splits = d.splits,
           d.reset \/ Finished(d) => e.reset \/ Finished(e)
    PROVE  BlankPool(p, u, e)
<1>1. Blank(l) # Named(p) /\ \A k \in Lanes : Blank(k) = Blank(l) => k = l
  BY ZenonT(30), BlankIs, NamedIs DEF Says
<1>2. \A k \in Lanes : Blank(k) \in Msgs(u) \/ e.time[k] = 0
  BY <1>1 DEF BlankPool, Others
<1>3. Named(p) \in Msgs(w) => Named(p) \in Msgs(u)
  BY <1>1
<1>4. CASE d.heat = p.heat
  <2>1. \A k \in Lanes : ~e.running[k] /\ (e.time[k] # 0 => e.place[k] # 0)
    BY <1>4 DEF BlankPool, Others
  <2>2. Splitless(e) \/ Finished(e) \/ e.reset
    BY <1>4 DEF BlankPool, Splitless
  <2> QED BY <1>2, <1>4, <2>1, <2>2 DEF BlankPool
<1>5. CASE d.heat # p.heat
  BY <1>2, <1>3, <1>5 DEF BlankPool
<1> QED BY <1>4, <1>5

\* The heat is named.
LEMMA HeatRead ==
    ASSUME NEW p, NEW w, NEW u, NEW d, NEW e, BlankPool(p, w, d),
           Msgs(u) \subseteq Msgs(w), Msgs(w) \subseteq {Named(p)} \cup Msgs(u),
           e.heat = p.heat,
           d.heat # p.heat => Darkened(e),
           d.heat = p.heat => SameShown(e, d) /\ (d.reset \/ Finished(d) => e.reset \/ Finished(e))
    PROVE  BlankPool(p, u, e)
<1>1. \A k \in Lanes : Blank(k) # Named(p)
  BY BlankIs, NamedIs DEF Says
<1>2. CASE d.heat = p.heat
  BY <1>1, <1>2 DEF BlankPool, SameShown, Splitless
<1>3. CASE d.heat # p.heat
  <2>1. \A k \in Lanes : e.time[k] = 0 /\ ~e.running[k] /\ e.splits[k] = 0
    BY <1>3, DarkCounted
  <2> QED BY <2>1 DEF BlankPool, Splitless
<1> QED BY <1>2, <1>3

\* All has been read: nothing is left of another race.
LEMMA BlankHeard ==
    ASSUME kind \in CTS, NEW p, NEW d, BlankPool(p, <<>>, d)
    PROVE  /\ d.heat = p.heat /\ (Splitless(d) \/ d.reset)
           /\ \A l \in Lanes : ~d.running[l] /\ d.time[l] = 0
<1>1. Msgs(<<>>) = {}
  BY MsgsShort
<1>2. d.heat = p.heat /\ \A l \in Lanes : ~d.running[l] /\ d.time[l] = 0
  BY <1>1 DEF BlankPool
<1>3. Splitless(d) \/ Finished(d) \/ d.reset
  BY <1>1 DEF BlankPool
<1> QED BY <1>2, <1>3 DEF Finished, CTS

\* A race as it was swum is a finished one.
LEMMA SwumFinished ==
    ASSUME PoolInv, NEW d, kind # "dolphin", pool.heat # 0, pool.phase = "over",
           \A l \in Lanes : ~d.running[l] /\ d.time[l] = pool.mark[l] /\ IsRank(pool, d, l)
    PROVE  Finished(d) /\ \A l \in Lanes : d.time[l] # 0 => d.place[l] # 0
<1>1. InHeat = Swim(pool) /\ InHeat \in SUBSET Lanes /\ \E l \in InHeat : l \notin pool.out
  BY InHeatIs DEF PoolInv
<1>2. \A l \in InHeat \ pool.out : pool.legs[l] = Legs
  BY DEF PoolInv, AllIn
<1>3. \A l \in InHeat \ pool.out : d.time[l] # 0 /\ d.place[l] # 0
  <2> SUFFICES ASSUME NEW l \in InHeat \ pool.out PROVE d.time[l] # 0 /\ d.place[l] # 0
    OBVIOUS
  <2>1. l \in Lanes /\ pool.legs[l] = Legs
    BY <1>1, <1>2
  <2>2. RankIn(pool, l) \in Lanes
    BY <2>1, RankType
  <2>3. RankIn(pool, l) # 0
    BY <2>2, LanesFinite
  <2> QED BY <2>1, <2>3 DEF PoolInv, IsRank
<1>4. \A l \in Lanes : l \notin InHeat \ pool.out => pool.mark[l] = 0
  BY DEF PoolInv
<1>5. \A l \in Lanes : d.time[l] # 0 => d.place[l] # 0
  BY <1>3, <1>4
<1>6. \E l \in Lanes : d.time[l] # 0
  BY <1>1, <1>3
<1> QED BY <1>5, <1>6 DEF Finished

\* What a CTS sends of a heat made ready.
LEMMA CtsReadiesMsgs ==
    ASSUME NEW new \in BOOLEAN, NEW w, NEW p,
           w = (IF new THEN <<Named(p)>> ELSE <<>>)
               \o [l \in 1..Cardinality(Lanes) |-> Blank(l)]
    PROVE  /\ w \in Seq(Msgs(w))
           /\ Msgs(w) = (IF new THEN {Named(p)} ELSE {}) \cup {Blank(l) : l \in Lanes}
<1> DEFINE h == IF new THEN <<Named(p)>> ELSE <<>>
           c == [l \in 1..Cardinality(Lanes) |-> Blank(l)]
<1>1. h \in Seq(Msgs(h)) /\ Msgs(h) = IF new THEN {Named(p)} ELSE {}
  <2>1. CASE new
    <3>1. h = <<Named(p)>>
      BY <2>1
    <3> HIDE DEF h
    <3> QED BY <2>1, <3>1, MsgsShort, ShortIsSeq
  <2>2. CASE ~new
    <3>1. h = <<>>
      BY <2>2
    <3> HIDE DEF h
    <3> QED BY <2>2, <3>1, MsgsShort, ShortIsSeq
  <2> QED BY <2>1, <2>2
<1>2. c \in Seq(Msgs(c)) /\ Msgs(c) = {c[l] : l \in Lanes}
  <2>1. DOMAIN c = 1..Cardinality(Lanes) /\ c = [l \in 1..Cardinality(Lanes) |-> c[l]]
    OBVIOUS
  <2> HIDE DEF c
  <2> QED BY <2>1, MsgsOfLanes
<1>3. {c[l] : l \in Lanes} = {Blank(l) : l \in Lanes}
  BY ConsoleAssumption
<1>4. w = h \o c
  OBVIOUS
<1> HIDE DEF h, c
<1>5. Msgs(h \o c) = Msgs(h) \cup Msgs(c) /\ h \o c \in Seq(Msgs(h \o c))
  BY <1>1, <1>2, MsgsConcat
<1> QED BY <1>1, <1>2, <1>3, <1>4, <1>5

\* What a CTS may send.
LEMMA CtsSays ==
    ASSUME kind \in CTS, NEW p
    PROVE  SayableBy(p, Named(p)) /\ \A l \in Lanes : SayableBy(p, Blank(l))
<1>1. ASSUME NEW l \in Lanes PROVE SayableBy(p, Blank(l))
  <2> DEFINE m == Blank(l)
  <2>1. m \in Modules /\ m.line = m.lane /\ m.running = FALSE /\ m.digits = TRUE
    BY BlankIs DEF Says
  <2> SUFFICES SayableBy(p, m)
    OBVIOUS
  <2> HIDE DEF m
  <2> QED BY <2>1 DEF SayableBy, Gen7Lines, RTD, Swiss, CTS
<1>2. SayableBy(p, Named(p))
  BY DEF SayableBy, RTD, Swiss, CTS
<1> QED BY <1>1, <1>2

\* A heat made ready: every lane is to go dark.
LEMMA CtsReadySent ==
    ASSUME PoolInv, DecInv, WireInv, kind \in CTS, wire = <<>>,
           UNCHANGED <<kind, full, known, dec>>, NextHeat \/ Reswim
    PROVE  /\ WireInv' /\ pool'.phase = "ready"
           /\ Reswim => pool.heat # 0 /\ lost' = lost /\ pool.phase = "over"
           /\ NextHeat => dec.heat # pool'.heat
           /\ \A l \in Lanes : Blank(l) \in Msgs(wire')
           /\ \/ NextHeat
              \/ dec.heat = pool.heat /\ Finished(dec)
                 /\ \A l \in Lanes : ~dec.running[l] /\ (dec.time[l] # 0 => dec.place[l] # 0)
              => BlankPool(pool', wire', dec)
<1>1. pool'.phase = "ready" /\ pool'.heat \in Heats
  BY NextHeatPool, ReswimPool DEF Made
<1>2. pool'.heat > 0 /\ (Reswim => pool'.heat = pool.heat /\ pool.heat # 0)
  BY <1>1, ReswimPool, HeatsNat
<1> DEFINE new == IF NextHeat THEN TRUE ELSE FALSE
<1>3. NextHeat => dec.heat # pool'.heat
  <2> SUFFICES ASSUME NextHeat PROVE dec.heat # pool'.heat
    OBVIOUS
  <2>1. dec.heat <= pool.heat /\ dec.heat \in Nat /\ pool.heat \in Nat
        /\ pool'.heat = pool.heat + 1
    BY NextHeatPool, HeatsNat DEF DecInv, Decs
  <2> QED BY <2>1
<1>4. /\ NextHeat => wire' = <<Named(pool')>> \o [l \in 1..Cardinality(Lanes) |-> Blank(l)]
      /\ Reswim => wire' = <<>> \o [l \in 1..Cardinality(Lanes) |-> Blank(l)]
  BY DEF NextHeat, Reswim, Send, Announces, HeatNumber, Named, Blank, PerLane, RTD, Swiss, CTS
<1>5. wire' = (IF new THEN <<Named(pool')>> ELSE <<>>)
              \o [l \in 1..Cardinality(Lanes) |-> Blank(l)]
  BY <1>4
<1>6. /\ wire' \in Seq(Msgs(wire')) /\ new \in BOOLEAN
      /\ Msgs(wire') = (IF new THEN {Named(pool')} ELSE {}) \cup {Blank(l) : l \in Lanes}
  <2>1. new \in BOOLEAN
    OBVIOUS
  <2> HIDE DEF new
  <2> QED BY <1>5, <2>1, CtsReadiesMsgs
<1>7. \A l \in Lanes : SayableBy(pool', Blank(l))
  BY CtsSays
<1>8. \A m \in Msgs(wire') : SayableBy(pool', m)
  BY <1>6, <1>7, CtsSays
<1>9. /\ lost' = lost \/ lost' = [lost EXCEPT !.since = 0]
      /\ Reswim => lost' = lost /\ pool.phase = "over"
  BY DEF NextHeat, Reswim, CTS
<1>10. WireInv'
  BY <1>2, <1>6, <1>8, <1>9, WireSent
<1>11. /\ Msgs(wire') \subseteq {Named(pool')} \cup {Blank(l) : l \in Lanes}
       /\ NextHeat => Named(pool') \in Msgs(wire')
       /\ \A l \in Lanes : Blank(l) \in Msgs(wire')
  BY <1>6
<1>12. ASSUME NextHeat PROVE BlankPool(pool', wire', dec)
  BY <1>3, <1>11, <1>12 DEF BlankPool
<1>13. ASSUME ~NextHeat, dec.heat = pool.heat, Finished(dec),
              \A l \in Lanes : ~dec.running[l] /\ (dec.time[l] # 0 => dec.place[l] # 0)
       PROVE  BlankPool(pool', wire', dec)
  <2>1. dec.heat = pool'.heat
    BY <1>2, <1>13
  <2> QED BY <1>11, <1>13, <2>1 DEF BlankPool
<1> QED BY <1>1, <1>2, <1>3, <1>9, <1>10, <1>11, <1>12, <1>13

\* A message for each lane of a heat.
LEMMA MsgsInTurn ==
    ASSUME NEW S \in SUBSET Lanes, NEW g, DOMAIN g = Lanes, NEW w,
           w = [i \in 1..Len(SetToSeq(S)) |-> g[SetToSeq(S)[i]]]
    PROVE  w \in Seq(Msgs(w)) /\ Msgs(w) = {g[l] : l \in S} /\ DOMAIN w = 1..Cardinality(S)
           /\ Cardinality(S) \in Nat
<1> DEFINE s == SetToSeq(S)
           n == Cardinality(S)
<1>1. s \in Seq(S) /\ Len(s) = n /\ \A l \in S : \E i \in 1..n : s[i] = l
  BY LanesInTurn
<1>2. n \in Nat
  BY LanesFinite
<1>3. w = [i \in 1..n |-> g[s[i]]]
  BY <1>1
<1> HIDE DEF s
<1>4. \A i \in 1..n : s[i] \in S
  BY <1>1
<1>5. Msgs(w) = {w[i] : i \in 1..n}
  BY <1>3 DEF Msgs
<1>6. Msgs(w) = {g[l] : l \in S}
  BY <1>1, <1>3, <1>4, <1>5
<1>7. w \in [1..n -> Msgs(w)] /\ DOMAIN w = 1..n
  BY <1>3, <1>5
<1> DEFINE M == Msgs(w)
<1> HIDE DEF M, n
<1>8. w \in Seq(M)
  <2>1. w \in [1..n -> M]
    BY <1>7 DEF M
  <2> QED BY <1>2, <2>1, FunctionIsSeq
<1> QED BY <1>2, <1>6, <1>7, <1>8 DEF M, n

\* Two messages, one after the other.
LEMMA PairSent ==
    ASSUME NEW a, NEW b
    PROVE  <<a>> \o <<b>> = <<a, b>>
<1> DEFINE u == <<a>>
           v == <<b>>
           p == <<a, b>>
           S == {a, b}
<1>1. /\ u \in Seq(S) /\ v \in Seq(S) /\ p \in Seq(S) /\ Len(u) = 1 /\ Len(v) = 1
      /\ Len(p) = 2 /\ u[1] = a /\ v[1] = b /\ p[1] = a /\ p[2] = b
  OBVIOUS
<1> SUFFICES u \o v = p
  OBVIOUS
<1> HIDE DEF u, v, p, S
<1> DEFINE w == u \o v
<1>2. w \in Seq(S) /\ Len(w) = 2 /\ w[1] = a /\ w[2] = b
  <2>0. u \in Seq(S) /\ v \in Seq(S)
    BY <1>1
  <2>1. /\ w \in Seq(S) /\ Len(w) = Len(u) + Len(v)
        /\ \A i \in 1..Len(u) : w[i] = u[i]
        /\ \A i \in 1..Len(v) : w[Len(u) + i] = v[i]
    BY <2>0
  <2> HIDE DEF w
  <2>2. 1 \in 1..Len(u) /\ 1 \in 1..Len(v) /\ Len(u) + 1 = 2 /\ Len(u) + Len(v) = 2
    BY <1>1
  <2>3. w[1] = u[1] /\ w[Len(u) + 1] = v[1]
    BY <2>1, <2>2
  <2> QED BY <1>1, <2>1, <2>2, <2>3
<1> HIDE DEF w
<1>3. w \in [1..2 -> S] /\ p \in [1..2 -> S]
  BY <1>1, <1>2
<1>4. \A i \in 1..2 : w[i] = p[i]
  BY <1>1, <1>2
<1>5. w = p
  BY <1>3, <1>4
<1> QED BY <1>5 DEF w

\* A decoder that asks for the board's reset, or whose race is finished, goes on to.
LEMMA ResetAsked ==
    ASSUME NEW d, NEW e, SameShown(e, d), e.done = d.done, NEW r,
           e.reset = (~Finished(d) /\ r)
    PROVE  r \/ Finished(d) => e.reset \/ Finished(e)
<1>1. Finished(e) = Finished(d)
  BY SameFinished DEF SameShown
<1> QED BY <1>1

-----------------------------------------------------------------------------
(* CTS Gen6.                                                                *)

\* What a Gen6 may send.
LEMMA Gen6Says ==
    ASSUME kind = "gen6", NEW p, NEW m
    PROVE  SayableBy(p, m) <=> m = Named(p) \/ m \in Modules
  BY DEF SayableBy, RTD, Swiss

\* What a line leaves of the lanes' stops and lengths.
Gen6Counts(e, d, l, runs) ==
    /\ Others(e.stop, d.stop, l) /\ Others(e.splits, d.splits, l)
    /\ runs => e.stop[l] = "no" /\ e.splits = d.splits
    /\ d.running[l] /\ ~runs => e.stop[l] = "fresh" /\ e.splits = d.splits
    /\ ~d.running[l] /\ ~runs /\ d.stop[l] # "fresh" => e.stop = d.stop /\ e.splits = d.splits
    /\ ~d.running[l] /\ ~runs /\ d.stop[l] = "fresh" =>
            e.stop[l] = "counted" /\ e.splits[l] = d.splits[l] + 1

\* What a line shows of lane l.
LineShown(e, d, l, m) ==
    /\ e.time[l] = m.time /\ e.place[l] = m.place /\ e.running[l] = m.running
    /\ Others(e.time, d.time, l) /\ Others(e.place, d.place, l)
    /\ Others(e.running, d.running, l)

\* What the step changes, and what it leaves.
LEMMA Gen6StopFields ==
    ASSUME NEW d \in Decs, NEW l \in Lanes, NEW prev \in BOOLEAN, NEW runs \in BOOLEAN,
           prev = d.running[l], NEW e, e = Gen6Stop(d, l, prev, runs)
    PROVE  /\ e \in Decs /\ SameHeat(e, d) /\ SameAside(e, d) /\ e.active = d.active
           /\ e.time = d.time /\ e.place = d.place /\ e.running = d.running
           /\ Gen6Counts(e, d, l, runs)
<1> DEFINE s(x) == [d.stop EXCEPT ![l] = x]
           c == [d.splits EXCEPT ![l] = @ + 1]
<1>1. /\ \A x \in {"no", "fresh", "counted"} :
            /\ s(x) \in [Lanes -> {"no", "fresh", "counted"}] /\ s(x)[l] = x
            /\ Others(s(x), d.stop, l)
      /\ c \in [Lanes -> Nat] /\ c[l] = d.splits[l] + 1 /\ Others(c, d.splits, l)
  BY DEF Decs, Others
<1>2. CASE runs
  <2> DEFINE f == s("no")
  <2>1. e = [d EXCEPT !.stop = f]
    BY <1>2 DEF Gen6Stop
  <2>2. f \in [Lanes -> {"no", "fresh", "counted"}] /\ f[l] = "no" /\ Others(f, d.stop, l)
    BY <1>1
  <2> HIDE DEF f, s, c
  <2>3. e \in Decs /\ SameHeat(e, d) /\ SameAside(e, d) /\ e.active = d.active
    BY <2>1, <2>2 DEF Decs, SameHeat, SameAside
  <2>4. /\ e.time = d.time /\ e.place = d.place /\ e.running = d.running
        /\ e.splits = d.splits /\ e.stop = f
    BY <2>1 DEF Decs
  <2> QED BY <1>2, <2>2, <2>3, <2>4 DEF Gen6Counts, Others
<1>3. CASE prev /\ ~runs
  <2> DEFINE f == s("fresh")
  <2>1. e = [d EXCEPT !.stop = f]
    BY <1>3 DEF Gen6Stop
  <2>2. f \in [Lanes -> {"no", "fresh", "counted"}] /\ f[l] = "fresh" /\ Others(f, d.stop, l)
    BY <1>1
  <2> HIDE DEF f, s, c
  <2>3. e \in Decs /\ SameHeat(e, d) /\ SameAside(e, d) /\ e.active = d.active
    BY <2>1, <2>2 DEF Decs, SameHeat, SameAside
  <2>4. /\ e.time = d.time /\ e.place = d.place /\ e.running = d.running
        /\ e.splits = d.splits /\ e.stop = f
    BY <2>1 DEF Decs
  <2> QED BY <1>3, <2>2, <2>3, <2>4 DEF Gen6Counts, Others
<1>4. CASE ~prev /\ ~runs /\ d.stop[l] # "fresh"
  <2>1. e = d
    BY <1>4 DEF Gen6Stop
  <2> QED BY <1>4, <2>1 DEF SameHeat, SameAside, Gen6Counts, Others
<1>5. CASE ~prev /\ ~runs /\ d.stop[l] = "fresh"
  <2> DEFINE f == s("counted")
  <2>1. e = [d EXCEPT !.stop = f, !.splits = c]
    BY <1>5 DEF Gen6Stop, SplitStep
  <2>2. f \in [Lanes -> {"no", "fresh", "counted"}] /\ f[l] = "counted" /\ Others(f, d.stop, l)
    BY <1>1
  <2> HIDE DEF f, s, c
  <2>3. e \in Decs /\ SameHeat(e, d) /\ SameAside(e, d) /\ e.active = d.active
    BY <1>1, <2>1, <2>2 DEF Decs, SameHeat, SameAside
  <2>4. /\ e.time = d.time /\ e.place = d.place /\ e.running = d.running
        /\ e.splits = c /\ e.stop = f
    BY <2>1 DEF Decs
  <2> QED BY <1>1, <1>5, <2>2, <2>3, <2>4 DEF Gen6Counts, Others
<1> QED BY <1>2, <1>3, <1>4, <1>5

\* What a line of a console changes of its lane, all at once.
LineLeaves(d, l, m) ==
    [d EXCEPT !.running[l] = m.running, !.time[l] = m.time, !.place[l] = m.place]

\* What the step changes, and what it leaves.
LEMMA LineFields ==
    ASSUME NEW d \in Decs, NEW l \in Lanes, NEW m \in Modules, NEW e, e = LineLeaves(d, l, m)
    PROVE  /\ e \in Decs /\ SameHeat(e, d) /\ SameAside(e, d) /\ SameRest(e, d)
           /\ e.splits = d.splits /\ LineShown(e, d, l, m)
<1> DEFINE t == [d.time EXCEPT ![l] = m.time]
           p == [d.place EXCEPT ![l] = m.place]
           r == [d.running EXCEPT ![l] = m.running]
           s == d.splits
<1>1. m.time \in Nat /\ m.place \in Nat /\ m.running \in BOOLEAN
  BY DEF Modules
<1>2. /\ t \in [Lanes -> Nat] /\ p \in [Lanes -> Nat] /\ r \in [Lanes -> BOOLEAN]
      /\ s \in [Lanes -> Nat]
      /\ t[l] = m.time /\ p[l] = m.place /\ r[l] = m.running
      /\ Others(t, d.time, l) /\ Others(p, d.place, l) /\ Others(r, d.running, l)
  BY <1>1 DEF Decs, Others
<1>3. e = Shown(d, t, p, s, r)
  <2>1. e = [d EXCEPT !.running = r, !.time = t, !.place = p]
    BY DEF LineLeaves
  <2> HIDE DEF t, p, r
  <2> QED BY <2>1 DEF Shown, Decs
<1> HIDE DEF t, p, r, s
<1>4. /\ e \in Decs /\ SameHeat(e, d) /\ SameAside(e, d) /\ SameRest(e, d)
      /\ e.time = t /\ e.place = p /\ e.splits = s /\ e.running = r
  BY <1>2, <1>3, ShownFields
<1> QED BY <1>2, <1>4 DEF LineShown, s

\* What the step changes, and what it leaves.
LEMMA Gen6LineFields ==
    ASSUME NEW d \in Decs, NEW m \in Modules, NEW l, l = LineRow(m), NEW e, e = FeedGen6(d, m)
    PROVE  /\ e \in Decs /\ SameHeat(e, d) /\ SameAside(e, d) /\ e.active = d.active
           /\ l \in Lanes /\ LineShown(e, d, l, m) /\ Gen6Counts(e, d, l, m.running)
<1> DEFINE y == Gen6Stop(d, l, d.running[l], m.running)
<1>1. l \in Lanes /\ m.t = "lane" /\ m.running \in BOOLEAN
  BY LanesFinite DEF Modules, LineRow
<1>2. d.running[l] \in BOOLEAN
  BY <1>1 DEF Decs
<1>3. e = LineLeaves(y, l, m)
  BY <1>1 DEF FeedGen6, LineLeaves
<1>4. /\ y \in Decs /\ SameHeat(y, d) /\ SameAside(y, d) /\ y.active = d.active
      /\ y.time = d.time /\ y.place = d.place /\ y.running = d.running
      /\ Gen6Counts(y, d, l, m.running)
  BY <1>1, <1>2, Gen6StopFields
<1> HIDE DEF y
<1>5. /\ e \in Decs /\ SameHeat(e, y) /\ SameAside(e, y) /\ SameRest(e, y)
      /\ e.splits = y.splits /\ LineShown(e, y, l, m)
  BY <1>1, <1>3, <1>4, LineFields
<1>6. SameHeat(e, d) /\ SameAside(e, d) /\ e.active = d.active
  BY <1>4, <1>5 DEF SameHeat, SameAside, SameRest
<1>7. LineShown(e, d, l, m)
  BY <1>4, <1>5 DEF LineShown
<1>8. e.stop = y.stop
  BY <1>5 DEF SameRest
<1>9. Gen6Counts(e, d, l, m.running)
  BY <1>4, <1>5, <1>8 DEF Gen6Counts
<1> QED BY <1>1, <1>5, <1>6, <1>7, <1>9

\* What a Gen6 may send fits.
LEMMA Gen6Fed ==
    ASSUME PoolInv, DecInv, pool.heat # 0, kind = "gen6", NEW m, SayableBy(pool, m)
    PROVE  Fit(Fed(dec, m))
<1> DEFINE f == Fed(dec, m)
<1>1. dec \in Decs /\ f = FeedGen6(dec, m) /\ kind \notin {"quantum", "dolphin"}
      /\ kind \in AllKinds
  BY FedIs DEF DecInv, CTS, AllKinds
<1>2. pool.heat \in Heats
  BY HeatsNat DEF PoolInv, Pools
<1>3. CASE m = Named(pool)
  <2>1. m.t = "heat" /\ m.heat = pool.heat
    BY <1>3, NamedIs
  <2>2. f = NewHeat(dec, pool.heat)
    BY <1>1, <2>1 DEF FeedGen6
  <2> HIDE DEF f
  <2>3. f \in Decs /\ f.heat = pool.heat /\ (f = dec \/ ResetLeaves(f, dec))
    BY <1>1, <1>2, <2>2, NewHeatFields
  <2> QED BY <1>1, <2>3, PlainFit DEF ResetLeaves, f
<1>4. CASE m \in Modules
  <2> HIDE DEF f
  <2>1. f \in Decs /\ SameHeat(f, dec) /\ SameAside(f, dec)
    BY <1>1, <1>4, Gen6LineFields
  <2> QED BY <1>1, <2>1, PlainFit DEF SameHeat, SameAside, f
<1> QED BY <1>3, <1>4, Gen6Says

\* What a Gen6 has heard before the start.
LEMMA Gen6ReadyHears ==
    ASSUME NEW p, NEW w, NEW d, p.phase = "ready"
    PROVE  Gen6Hears(p, w, d) <=> Gen6Ready(p, w, d)
  BY DEF Gen6Hears

\* What a Gen6 has heard once the race is on.
LEMMA Gen6RaceHears ==
    ASSUME NEW p, NEW w, NEW d, p.phase # "ready"
    PROVE  Gen6Hears(p, w, d) <=>
               /\ d.heat = p.heat /\ Going(p, d)
               /\ \/ Gen6Goes(p, w, d)
                  \/ \E l \in Swim(p) : Gen6FlickHeard(p, w, d, l)
                  \/ \E l \in Swim(p) : Gen6TouchHeard(p, w, d, l)
  BY DEF Gen6Hears

\* All of the race has been read.
LEMMA Gen6RaceHeard ==
    ASSUME pool.phase # "ready", wire = <<>>, Gen6Hears(pool, wire, dec)
    PROVE  /\ dec.heat = pool.heat /\ Going(pool, dec)
           /\ \A l \in Lanes : Gen6Lane(pool, dec, l)
<1>1. ~\E l \in Swim(pool) : Gen6FlickHeard(pool, wire, dec, l)
  <2> SUFFICES ASSUME NEW l \in Swim(pool), Gen6FlickHeard(pool, wire, dec, l) PROVE FALSE
    OBVIOUS
  <2> DEFINE a == Blank(l)
             b == Go(l)
  <2>1. wire = <<a, b>>
    BY DEF Gen6FlickHeard
  <2> HIDE DEF a, b
  <2> QED BY <2>1
<1>2. ~\E l \in Swim(pool) : Gen6TouchHeard(pool, wire, dec, l)
  <2> SUFFICES ASSUME NEW l \in Swim(pool), Gen6TouchHeard(pool, wire, dec, l) PROVE FALSE
    OBVIOUS
  <2> DEFINE a == Stop(pool, l)
  <2>1. wire = <<a, a>> \/ wire = <<a>>
    BY DEF Gen6TouchHeard
  <2> HIDE DEF a
  <2> QED BY <2>1
<1>3. dec.heat = pool.heat /\ Going(pool, dec) /\ Gen6Goes(pool, wire, dec)
  BY <1>1, <1>2, Gen6RaceHears
<1>4. Msgs(wire) = {}
  BY MsgsShort
<1> QED BY <1>3, <1>4 DEF Gen6Goes

\* A lane whose fields stay as they are.
LEMMA Gen6Other ==
    ASSUME NEW p, NEW d, NEW e, NEW k, Gen6Lane(p, d, k), e.time[k] = d.time[k],
           e.place[k] = d.place[k], e.splits[k] = d.splits[k], e.running[k] = d.running[k],
           e.stop[k] = d.stop[k]
    PROVE  Gen6Lane(p, e, k)
  BY DEF Gen6Lane, IsRank

\* Only the lanes count.
LEMMA Gen6GoesKept ==
    ASSUME NEW p, NEW w, NEW d, NEW e, Gen6Goes(p, w, d), SameShown(e, d), e.stop = d.stop
    PROVE  Gen6Goes(p, w, e)
<1>1. \A k \in Lanes : Gen6Lane(p, d, k) => Gen6Lane(p, e, k)
  BY Gen6Other DEF SameShown
<1> QED BY <1>1 DEF Gen6Goes, SameShown

\* A message is of one lane.
LEMMA GoesApart ==
    /\ \A l, k \in Lanes : Go(k) = Go(l) => k = l
  BY GoIs DEF Says

\* A lane that runs, read.
LEMMA Gen6GoRead ==
    ASSUME NEW p, NEW w, NEW u, NEW d \in Decs, NEW l \in Lanes, Gen6Goes(p, w, d),
           Legs \in Nat, Swims(p, l), Msgs(u) \subseteq Msgs(w),
           Msgs(w) \subseteq {Go(l)} \cup Msgs(u), NEW f, f = FeedGen6(d, Go(l))
    PROVE  Gen6Goes(p, u, f)
<1> DEFINE m == Go(l)
<1>1. Says(m, l, 0, 0) /\ m.running = TRUE
  BY GoIs
<1>2. \A k \in Lanes \ {l} : Go(k) \in Msgs(w) => Go(k) \in Msgs(u)
  BY GoesApart
<1>3. f = FeedGen6(d, m)
  OBVIOUS
<1> HIDE DEF m
<1>4. LineShown(f, d, l, m) /\ Gen6Counts(f, d, l, m.running)
  BY <1>1, <1>3, Gen6LineFields DEF Says
<1>5. f.running[l] = TRUE /\ f.splits = d.splits
  BY <1>1, <1>4 DEF LineShown, Gen6Counts
<1>6. Gen6Lane(p, f, l)
  <2>1. Swims(p, l) = TRUE /\ p.legs[l] # Legs /\ l \in Swim(p)
    <3>1. p.legs[l] < Legs /\ l \in Swim(p)
      BY DEF Swims
    <3>2. p.legs[l] # Legs
      BY <3>1
    <3>3. Swims(p, l) = TRUE
      BY DEF Swims
    <3> QED BY <3>1, <3>2, <3>3
  <2>2. d.splits[l] = p.legs[l]
    BY <2>1 DEF Gen6Goes, Gen6Lane
  <2> QED BY <1>5, <2>1, <2>2 DEF Gen6Lane, IsRank
<1>7. ASSUME NEW k \in Lanes \ {l}
      PROVE  Gen6Lane(p, f, k) \/ (Go(k) \in Msgs(u) /\ f.splits[k] = p.legs[k])
  <2>1. /\ f.time[k] = d.time[k] /\ f.place[k] = d.place[k] /\ f.running[k] = d.running[k]
        /\ f.stop[k] = d.stop[k] /\ f.splits[k] = d.splits[k]
    BY <1>4, <1>5 DEF LineShown, Gen6Counts, Others
  <2>2. CASE Gen6Lane(p, d, k)
    BY <2>1, <2>2, Gen6Other
  <2>3. CASE Go(k) \in Msgs(w) /\ d.splits[k] = p.legs[k]
    BY <1>2, <2>1, <2>3
  <2> QED BY <2>2, <2>3 DEF Gen6Goes
<1>8. \A k \in Lanes : Gen6Lane(p, f, k) \/ (Go(k) \in Msgs(u) /\ f.splits[k] = p.legs[k])
  BY <1>6, <1>7
<1>9. Msgs(u) \subseteq {Go(k) : k \in {j \in Lanes : Swims(p, j)}}
  BY DEF Gen6Goes
<1> QED BY <1>8, <1>9 DEF Gen6Goes

\* A lane whose flag flickers, read.
LEMMA Gen6FlickRead ==
    ASSUME NEW p, NEW d \in Decs, NEW l \in Lanes, \A k \in Lanes : Gen6Lane(p, d, k),
           Swims(p, l), NEW u, u = <<Go(l)>>, NEW f, f = FeedGen6(d, Blank(l))
    PROVE  Gen6Goes(p, u, f)
<1> DEFINE m == Blank(l)
           g == Go(l)
<1>1. Says(m, l, 0, 0) /\ m.running = FALSE
  BY BlankIs
<1>2. f = FeedGen6(d, m) /\ u = <<g>>
  OBVIOUS
<1>3. g \in {Go(k) : k \in {j \in Lanes : Swims(p, j)}}
  OBVIOUS
<1> HIDE DEF m, g
<1>4. LineShown(f, d, l, m) /\ Gen6Counts(f, d, l, m.running)
  BY <1>1, <1>2, Gen6LineFields DEF Says
<1>5. f.splits = d.splits
  BY <1>1, <1>4 DEF Gen6Lane, Gen6Counts
<1>6. d.splits[l] = p.legs[l]
  BY DEF Gen6Lane, Swims
<1>7. Msgs(u) = {g}
  BY <1>2, MsgsShort
<1>8. \A k \in Lanes \ {l} : Gen6Lane(p, f, k)
  BY <1>4, <1>5, Gen6Other DEF LineShown, Gen6Counts, Others
<1> QED BY <1>3, <1>5, <1>6, <1>7, <1>8 DEF Gen6Goes, g

\* The lane is shown stopped.
LEMMA Gen6StopRead ==
    ASSUME PoolInv, NEW d \in Decs, NEW l \in Lanes, d.running[l],
           \A k \in Lanes \ {l} : Gen6Lane(pool, d, k),
           NEW f, f = FeedGen6(d, Stop(pool, l))
    PROVE  /\ f.splits = d.splits /\ f.stop[l] = "fresh" /\ ~f.running[l]
           /\ f.time[l] = pool.mark[l] /\ f.place[l] = Stop(pool, l).place
           /\ \A k \in Lanes \ {l} : Gen6Lane(pool, f, k)
<1> DEFINE m == Stop(pool, l)
<1>1. Says(m, l, pool.mark[l], StopPlace(pool, l)) /\ m.running = FALSE
  BY StopIs DEF PoolInv
<1> SUFFICES /\ f.splits = d.splits /\ f.stop[l] = "fresh" /\ ~f.running[l]
             /\ f.time[l] = pool.mark[l] /\ f.place[l] = m.place
             /\ \A k \in Lanes \ {l} : Gen6Lane(pool, f, k)
  OBVIOUS
<1>2. f = FeedGen6(d, m)
  OBVIOUS
<1> HIDE DEF m
<1>3. LineShown(f, d, l, m) /\ Gen6Counts(f, d, l, m.running)
  BY <1>1, <1>2, Gen6LineFields DEF Says
<1>4. f.splits = d.splits /\ f.stop[l] = "fresh"
  BY <1>1, <1>3 DEF Gen6Counts
<1>5. ~f.running[l] /\ f.time[l] = pool.mark[l] /\ f.place[l] = m.place
  BY <1>1, <1>3 DEF LineShown, Says
<1>6. \A k \in Lanes \ {l} : Gen6Lane(pool, f, k)
  BY <1>3, <1>4, Gen6Other DEF LineShown, Gen6Counts, Others
<1> QED BY <1>4, <1>5, <1>6

\* It has lasted: the length counts.
LEMMA Gen6LastRead ==
    ASSUME PoolInv, NEW d \in Decs, NEW l \in Lanes, ~d.running[l], d.stop[l] = "fresh",
           d.time[l] = pool.mark[l], d.place[l] = Stop(pool, l).place, ~Swims(pool, l),
           pool.legs[l] > 0, d.splits[l] = pool.legs[l] - 1,
           \A k \in Lanes \ {l} : Gen6Lane(pool, d, k),
           NEW f, f = FeedGen6(d, Stop(pool, l))
    PROVE  /\ f.time = d.time /\ f.place = d.place /\ f.running = d.running
           /\ f.reset = d.reset /\ f.heat = d.heat /\ f.done = d.done
           /\ \A k \in Lanes : Gen6Lane(pool, f, k)
<1> DEFINE m == Stop(pool, l)
<1>1. Says(m, l, pool.mark[l], StopPlace(pool, l)) /\ m.running = FALSE
  BY StopIs DEF PoolInv
<1>2. f = FeedGen6(d, m) /\ d.place[l] = m.place
  OBVIOUS
<1> HIDE DEF m
<1>3. LineShown(f, d, l, m) /\ Gen6Counts(f, d, l, m.running) /\ f \in Decs
      /\ SameHeat(f, d) /\ SameAside(f, d)
  BY <1>1, <1>2, Gen6LineFields DEF Says
<1>4. f.splits[l] = d.splits[l] + 1 /\ f.stop[l] = "counted" /\ Others(f.splits, d.splits, l)
      /\ Others(f.stop, d.stop, l)
  BY <1>1, <1>3 DEF Gen6Counts
<1>5. /\ f.time[l] = pool.mark[l] /\ f.place[l] = StopPlace(pool, l) /\ f.running[l] = FALSE
      /\ Others(f.time, d.time, l) /\ Others(f.place, d.place, l)
      /\ Others(f.running, d.running, l)
  BY <1>1, <1>3 DEF LineShown, Says
<1>6. f.time = d.time /\ f.place = d.place /\ f.running = d.running
  <2>1. /\ \A k \in Lanes : f.time[k] = d.time[k] /\ f.place[k] = d.place[k]
    BY <1>1, <1>2, <1>5 DEF Others, Says
  <2>2. d.running[l] = FALSE
    BY DEF Decs
  <2>3. \A k \in Lanes : f.running[k] = d.running[k]
    BY <1>5, <2>2 DEF Others
  <2>4. f.time = d.time
    BY <1>3, <2>1 DEF Decs
  <2>5. f.place = d.place
    BY <1>3, <2>1 DEF Decs
  <2>6. f.running = d.running
    BY <1>3, <2>3 DEF Decs
  <2> QED BY <2>4, <2>5, <2>6
<1>7. Gen6Lane(pool, f, l)
  <2>1. Swims(pool, l) = FALSE
    BY DEF Swims
  <2>2. f.splits[l] = pool.legs[l]
    <3>1. pool.legs[l] \in Nat
      BY ConsoleAssumption DEF PoolInv, Pools
    <3> QED BY <1>4, <3>1
  <2> QED BY <1>4, <1>5, <2>1, <2>2 DEF Gen6Lane, IsRank, StopPlace
<1>8. \A k \in Lanes \ {l} : Gen6Lane(pool, f, k)
  BY <1>4, <1>5, Gen6Other DEF Others
<1>9. \A k \in Lanes : Gen6Lane(pool, f, k)
  BY <1>7, <1>8
<1> QED BY <1>3, <1>6, <1>9 DEF SameHeat, SameAside

\* One of the messages before the start, read.
LEMMA Gen6ReadyRead ==
    ASSUME PoolInv, DecInv, WireInv, kind = "gen6", pool.heat # 0, Gen6Ready(pool, wire, dec),
           NEW m \in Msgs(wire), NEW u, Msgs(u) \subseteq Msgs(wire),
           Msgs(wire) \subseteq {m} \cup Msgs(u), NEW f, f = FeedGen6(dec, m),
           NEW e, e.heat = f.heat, SameShown(e, f), e.stop = f.stop, e.done = f.done,
           e.reset = (~Finished(f) /\ (f.reset \/ Finished(dec)))
    PROVE  Gen6Ready(pool, u, e)
<1>1. dec \in Decs /\ pool.heat \in Heats /\ kind \in AllKinds
  BY HeatsNat DEF DecInv, PoolInv, Pools, WireInv
<1>2. BlankPool(pool, wire, dec)
      /\ (dec.heat = pool.heat => \A l \in Lanes : dec.stop[l] # "fresh")
  BY DEF Gen6Ready
<1>3. (f.reset \/ Finished(dec)) \/ Finished(f) => e.reset \/ Finished(e)
  BY ResetAsked
<1>4. CASE m = Named(pool)
  <2>1. f = NewHeat(dec, pool.heat)
    BY <1>4, NamedIs DEF FeedGen6
  <2>2. f.heat = pool.heat /\ (pool.heat = dec.heat => f = dec)
        /\ (pool.heat # dec.heat => ResetLeaves(f, dec))
    BY <1>1, <2>1, NewHeatFields
  <2>3. dec.heat # pool.heat => Darkened(e) /\ \A l \in Lanes : e.stop[l] # "fresh"
    BY <2>2 DEF ResetLeaves, Darkened, SameShown, CTS
  <2>4. dec.heat = pool.heat =>
            SameShown(e, dec) /\ (dec.reset \/ Finished(dec) => e.reset \/ Finished(e))
    BY <1>3, <2>2
  <2>5. BlankPool(pool, u, e)
    BY <1>2, <1>4, <2>2, <2>3, <2>4, HeatRead
  <2>6. \A l \in Lanes : e.stop[l] # "fresh"
    BY <1>2, <2>2, <2>3
  <2> QED BY <2>5, <2>6 DEF Gen6Ready
<1>5. ASSUME NEW l \in Lanes, m = Blank(l) PROVE Gen6Ready(pool, u, e)
  <2>1. Says(m, l, 0, 0) /\ m.running = FALSE
    BY <1>5, BlankIs
  <2>2. /\ LineShown(f, dec, l, m) /\ Gen6Counts(f, dec, l, m.running) /\ SameHeat(f, dec)
    BY <1>1, <2>1, Gen6LineFields DEF Says
  <2>3. /\ e.heat = dec.heat /\ e.time[l] = 0 /\ e.place[l] = 0 /\ ~e.running[l]
        /\ Others(e.time, dec.time, l) /\ Others(e.place, dec.place, l)
        /\ Others(e.running, dec.running, l)
    BY <2>1, <2>2 DEF LineShown, SameShown, SameHeat, Says
  <2>4. dec.heat = pool.heat => ~dec.running[l] /\ dec.stop[l] # "fresh"
    BY <1>2 DEF BlankPool
  <2>5. dec.heat = pool.heat => e.splits = dec.splits /\ e.stop = dec.stop
    BY <2>1, <2>2, <2>4 DEF Gen6Counts, SameShown
  <2>6. dec.reset \/ Finished(dec) => e.reset \/ Finished(e)
    BY <1>3, <2>2 DEF SameHeat
  <2>7. Msgs(wire) \subseteq {Blank(l)} \cup Msgs(u)
    BY <1>5
  <2>8. BlankPool(pool, u, e)
    BY <1>2, <2>3, <2>5, <2>6, <2>7, BlankRead
  <2> QED BY <1>2, <2>3, <2>5, <2>8 DEF Gen6Ready
<1> QED BY <1>2, <1>4, <1>5 DEF BlankPool

\* The module of a lane names no heat.
LEMMA Gen6HeatKept ==
    ASSUME NEW d \in Decs, NEW m, NEW l, NEW time, NEW place, Says(m, l, time, place),
           NEW f, f = FeedGen6(d, m)
    PROVE  f.heat = d.heat
  BY Gen6LineFields DEF Says, SameHeat

\* A message of a Gen6, delivered.
LEMMA Gen6Deliver ==
    ASSUME PoolInv, DecInv, WireInv, kind = "gen6", pool.heat # 0,
           Gen6Hears(pool, wire, dec), Deliver
    PROVE  Gen6Hears(pool, wire', dec')
<1> DEFINE m == Head(wire)
           f == Fed(dec, m)
<1>1. wire # <<>> /\ wire' = Tail(wire) /\ dec' = Apply(f) /\ UNCHANGED <<kind, known, pool>>
  BY DEF Deliver, Quiet
<1>2. SayableBy(pool, m)
  BY <1>1, HeadHeard
<1>3. Fit(f)
  BY <1>2, Gen6Fed
<1>4. /\ dec'.heat = f.heat /\ SameAside(dec', f) /\ SameShown(dec', f) /\ SameRest(dec', f)
      /\ dec'.reset = (~Finished(f) /\ (f.reset \/ Finished(dec)))
  BY <1>1, <1>3, DecKept
<1>5. f = FeedGen6(dec, m) /\ dec \in Decs /\ wire \in Seq(Msgs(wire)) /\ Legs \in Nat
  BY FedIs, ConsoleAssumption DEF DecInv, WireInv
<1>6. m \in Msgs(wire) /\ Msgs(wire') \subseteq Msgs(wire)
      /\ Msgs(wire) \subseteq {m} \cup Msgs(wire')
  BY <1>1, <1>5, MsgsTail
<1>7. dec'.stop = f.stop /\ dec'.done = f.done
  BY <1>4 DEF SameRest, SameAside
<1> HIDE DEF f
<1>8. CASE pool.phase = "ready"
  <2>1. Gen6Ready(pool, wire, dec)
    BY <1>8, Gen6ReadyHears
  <2> HIDE DEF m
  <2>2. Gen6Ready(pool, wire', dec')
    BY <1>4, <1>5, <1>6, <1>7, <2>1, Gen6ReadyRead
  <2> QED BY <1>8, <2>2, Gen6ReadyHears
<1>9. CASE pool.phase # "ready"
  <2>1. /\ dec.heat = pool.heat
        /\ \/ Gen6Goes(pool, wire, dec)
           \/ \E l \in Swim(pool) : Gen6FlickHeard(pool, wire, dec, l)
           \/ \E l \in Swim(pool) : Gen6TouchHeard(pool, wire, dec, l)
    BY <1>9, Gen6RaceHears
  <2>2. ASSUME f.heat = dec.heat, Gen6Goes(pool, wire', f),
               dec'.reset => \E l \in Lanes : Swims(pool, l)
        PROVE  Gen6Hears(pool, wire', dec')
    <3>1. Gen6Goes(pool, wire', dec')
      BY <1>4, <1>7, <2>2, Gen6GoesKept
    <3>2. Going(pool, dec') /\ dec'.heat = pool.heat
      BY <1>4, <2>1, <2>2 DEF Going
    <3> QED BY <1>9, <3>1, <3>2, Gen6RaceHears
  <2>3. CASE Gen6Goes(pool, wire, dec)
    <3>1. PICK l \in Lanes : Swims(pool, l) /\ m = Go(l)
      BY <1>6, <2>3 DEF Gen6Goes
    <3> HIDE DEF m
    <3>2. f = FeedGen6(dec, Go(l)) /\ Msgs(wire) \subseteq {Go(l)} \cup Msgs(wire')
      BY <1>5, <1>6, <3>1
    <3>3. Gen6Goes(pool, wire', f)
      BY <1>5, <1>6, <2>3, <3>1, <3>2, Gen6GoRead
    <3>4. f.heat = dec.heat
      BY <1>5, <3>2, GoIs, Gen6HeatKept
    <3> QED BY <2>2, <3>1, <3>3, <3>4
  <2>4. ASSUME NEW l \in Swim(pool), Gen6FlickHeard(pool, wire, dec, l)
        PROVE  Gen6Hears(pool, wire', dec')
    <3>1. l \in Lanes
      BY InHeatIs
    <3>2. Swims(pool, l) /\ \A k \in Lanes : Gen6Lane(pool, dec, k)
      BY <2>4 DEF Gen6FlickHeard
    <3> DEFINE a == Blank(l)
               b == Go(l)
    <3>3. wire = <<a, b>>
      BY <2>4 DEF Gen6FlickHeard
    <3> HIDE DEF a, b
    <3>4. m = a /\ wire' = <<b>>
      BY <1>1, <3>3
    <3> HIDE DEF m
    <3>5. f = FeedGen6(dec, Blank(l)) /\ wire' = <<Go(l)>>
      BY <1>5, <3>4 DEF a, b
    <3>6. Gen6Goes(pool, wire', f)
      BY <1>5, <3>1, <3>2, <3>5, Gen6FlickRead
    <3>7. f.heat = dec.heat
      BY <1>5, <3>1, <3>5, BlankIs, Gen6HeatKept
    <3> QED BY <2>2, <3>1, <3>2, <3>6, <3>7
  <2>5. ASSUME NEW l \in Swim(pool), Gen6TouchHeard(pool, wire, dec, l)
        PROVE  Gen6Hears(pool, wire', dec')
    <3> DEFINE s == Stop(pool, l)
    <3>1. l \in Lanes
      BY InHeatIs
    <3>2. /\ ~dec.reset /\ pool.legs[l] > 0 /\ dec.splits[l] = pool.legs[l] - 1
          /\ ~Swims(pool, l) /\ \A k \in Lanes \ {l} : Gen6Lane(pool, dec, k)
          /\ \/ wire = <<s, s>> /\ dec.running[l]
             \/ /\ wire = <<s>> /\ ~dec.running[l] /\ dec.stop[l] = "fresh"
                /\ dec.time[l] = pool.mark[l] /\ dec.place[l] = s.place
      BY <2>5 DEF Gen6TouchHeard
    <3>3. Says(s, l, pool.mark[l], StopPlace(pool, l))
      BY <3>1, StopIs DEF PoolInv
    <3>4. f = FeedGen6(dec, s) => f.heat = dec.heat /\ f.reset = dec.reset
      BY <1>5, <3>3, Gen6LineFields DEF Says, SameHeat
    <3>5. CASE wire = <<s, s>> /\ dec.running[l]
      <4> HIDE DEF s
      <4>1. m = s /\ wire' = <<s>>
        BY <1>1, <3>5
      <4> HIDE DEF m
      <4>2. f = FeedGen6(dec, s)
        BY <1>5, <4>1
      <4>3. /\ f.splits = dec.splits /\ f.stop[l] = "fresh" /\ ~f.running[l]
            /\ f.time[l] = pool.mark[l] /\ f.place[l] = s.place
            /\ \A k \in Lanes \ {l} : Gen6Lane(pool, f, k)
        BY <1>5, <3>1, <3>2, <3>5, <4>2, Gen6StopRead DEF s
      <4>4. ~Finished(dec)
        BY <3>1, <3>5 DEF Finished
      <4>5. ~dec'.reset
        BY <1>4, <3>2, <3>4, <4>2, <4>4
      <4>6. /\ dec'.splits = dec.splits /\ dec'.stop[l] = "fresh" /\ ~dec'.running[l]
            /\ dec'.time[l] = pool.mark[l] /\ dec'.place[l] = s.place
        BY <1>4, <1>7, <4>3 DEF SameShown
      <4>7. \A k \in Lanes \ {l} : Gen6Lane(pool, dec', k)
        BY <1>4, <1>7, <4>3, Gen6Other DEF SameShown
      <4>8. Gen6TouchHeard(pool, wire', dec', l)
        BY <3>2, <4>1, <4>5, <4>6, <4>7 DEF Gen6TouchHeard, s
      <4>9. Going(pool, dec') /\ dec'.heat = pool.heat
        BY <1>4, <2>1, <3>4, <4>2, <4>5 DEF Going
      <4>10. \E k \in Swim(pool) : Gen6TouchHeard(pool, wire', dec', k)
        BY <4>8
      <4> QED BY <1>9, <4>9, <4>10, Gen6RaceHears
    <3>6. CASE /\ wire = <<s>> /\ ~dec.running[l] /\ dec.stop[l] = "fresh"
               /\ dec.time[l] = pool.mark[l] /\ dec.place[l] = s.place
      <4> HIDE DEF s
      <4>1. m = s /\ wire' = <<>>
        BY <1>1, <3>6
      <4> HIDE DEF m
      <4>2. f = FeedGen6(dec, s)
        BY <1>5, <4>1
      <4>3. /\ f.time = dec.time /\ f.place = dec.place /\ f.running = dec.running
            /\ f.reset = dec.reset /\ f.heat = dec.heat /\ f.done = dec.done
            /\ \A k \in Lanes : Gen6Lane(pool, f, k)
        BY <1>5, <3>1, <3>2, <3>6, <4>2, Gen6LastRead DEF s
      <4>4. Finished(f) = Finished(dec)
        BY <4>3, SameFinished
      <4>5. ~dec'.reset
        BY <1>4, <3>2, <4>3, <4>4
      <4>6. Gen6Goes(pool, wire', f)
        <5>1. Msgs(wire') = {}
          BY <4>1, MsgsShort
        <5> QED BY <4>3, <5>1 DEF Gen6Goes
      <4> QED BY <2>2, <4>3, <4>5, <4>6
    <3> QED BY <3>2, <3>5, <3>6
  <2> QED BY <2>1, <2>3, <2>4, <2>5
<1> QED BY <1>8, <1>9

\* The decoder of a Gen6 alone, with nothing on the wire.
LEMMA Gen6Idle ==
    ASSUME PoolInv, DecInv, WireInv, kind = "gen6", pool.heat # 0,
           Gen6Hears(pool, wire, dec), Tick \/ BoardIsReset
    PROVE  Gen6Hears(pool, wire', dec')
<1>1. wire = <<>> /\ wire' = <<>> /\ UNCHANGED <<kind, known, pool>> /\ BoardIsReset
  BY DEF Tick, BoardIsReset, Quiet, consoleVars, RTD, Swiss
<1>2. dec \in Decs
  BY DEF DecInv
<1>3. CASE pool.phase = "ready"
  <2>1. Gen6Ready(pool, <<>>, dec)
    BY <1>1, <1>3, Gen6ReadyHears
  <2>2. dec.heat = pool.heat /\ \A l \in Lanes : ~dec.running[l] /\ dec.time[l] = 0
    BY <2>1, BlankHeard DEF Gen6Ready, CTS
  <2>3. ~Finished(dec) /\ dec.running = Still
    BY <1>2, <2>2 DEF Finished, Still, Decs
  <2> DEFINE d == ResetLanes(dec)
  <2>4. dec' = [d EXCEPT !.reset = FALSE]
    BY <1>1, <2>3 DEF BoardIsReset
  <2>5. d \in Decs /\ ResetLeaves(d, dec) /\ d.heat = dec.heat
    BY <1>2, ResetFields DEF AllKinds, CTS
  <2> HIDE DEF d
  <2>6. dec'.heat = d.heat /\ SameShown(dec', d) /\ dec'.stop = d.stop
    BY <2>4, <2>5 DEF Decs, SameShown
  <2>7. Darkened(dec') /\ dec'.heat = pool.heat /\ \A l \in Lanes : dec'.stop[l] # "fresh"
    BY <2>2, <2>5, <2>6 DEF ResetLeaves, Darkened, SameShown, CTS
  <2>8. \A k \in Lanes : dec'.time[k] = 0 /\ ~dec'.running[k] /\ dec'.splits[k] = 0
    BY <2>7, DarkCounted
  <2>9. Msgs(wire') = {}
    BY <1>1, MsgsShort
  <2>10. Gen6Ready(pool, wire', dec')
    BY <2>7, <2>8, <2>9 DEF Gen6Ready, BlankPool, Splitless
  <2> QED BY <1>3, <2>10, Gen6ReadyHears
<1>4. CASE pool.phase # "ready"
  <2>1. /\ dec.heat = pool.heat /\ Going(pool, dec) /\ \A l \in Lanes : Gen6Lane(pool, dec, l)
    BY <1>1, <1>4, Gen6RaceHeard
  <2>2. dec.running # Still
    <3>1. PICK l \in Lanes : Swims(pool, l)
      BY <1>1, <2>1 DEF Going, BoardIsReset
    <3>2. dec.running[l]
      BY <2>1, <3>1 DEF Gen6Lane
    <3> QED BY <3>2 DEF Still
  <2>3. dec' = [dec EXCEPT !.reset = FALSE]
    BY <1>1, <2>2 DEF BoardIsReset
  <2>4. dec'.heat = dec.heat /\ SameShown(dec', dec) /\ dec'.stop = dec.stop /\ ~dec'.reset
    BY <1>2, <2>3 DEF Decs, SameShown
  <2>5. Gen6Goes(pool, wire', dec')
    <3>1. Msgs(wire') = {}
      BY <1>1, MsgsShort
    <3>2. \A k \in Lanes : Gen6Lane(pool, dec', k)
      BY <2>1, <2>4, Gen6Other DEF SameShown
    <3> QED BY <3>1, <3>2 DEF Gen6Goes
  <2>6. Going(pool, dec') /\ dec'.heat = pool.heat
    BY <2>1, <2>4 DEF Going
  <2> QED BY <1>4, <2>5, <2>6, Gen6RaceHears
<1> QED BY <1>3, <1>4

\* A heat made ready.
LEMMA Gen6ReadySent ==
    ASSUME PoolInv, DecInv, WireInv, kind = "gen6", wire = <<>>,
           UNCHANGED <<kind, full, known, dec>>, NextHeat \/ Reswim
    PROVE  /\ WireInv' /\ (NextHeat \/ (pool.heat # 0 /\ lost' = lost))
           /\ NextHeat \/ Gen6Hears(pool, wire, dec) => Gen6Hears(pool', wire', dec')
<1>1. /\ WireInv' /\ pool'.phase = "ready"
      /\ Reswim => pool.heat # 0 /\ lost' = lost /\ pool.phase = "over"
      /\ NextHeat => dec.heat # pool'.heat
      /\ \/ NextHeat
         \/ dec.heat = pool.heat /\ Finished(dec)
            /\ \A l \in Lanes : ~dec.running[l] /\ (dec.time[l] # 0 => dec.place[l] # 0)
         => BlankPool(pool', wire', dec)
  BY CtsReadySent DEF CTS
<1>2. CASE NextHeat
  <2>1. Gen6Ready(pool', wire', dec)
    BY <1>1, <1>2 DEF Gen6Ready
  <2>2. Gen6Hears(pool', wire', dec)
    BY <1>1, <2>1, Gen6ReadyHears
  <2> QED BY <1>1, <1>2, <2>2
<1>3. ASSUME Reswim, Gen6Hears(pool, wire, dec) PROVE Gen6Hears(pool', wire', dec')
  <2>1. dec.heat = pool.heat /\ \A l \in Lanes : Gen6Lane(pool, dec, l)
    BY <1>1, <1>3, Gen6RaceHeard
  <2>2. \A l \in Lanes : ~Swims(pool, l)
    BY <1>1, <1>3, AllOver
  <2>3. \A l \in Lanes : /\ ~dec.running[l] /\ dec.time[l] = pool.mark[l]
                         /\ IsRank(pool, dec, l) /\ dec.stop[l] # "fresh"
    BY <2>1, <2>2 DEF Gen6Lane
  <2>4. Finished(dec) /\ \A l \in Lanes : dec.time[l] # 0 => dec.place[l] # 0
    BY <1>1, <1>3, <2>3, SwumFinished
  <2>5. BlankPool(pool', wire', dec)
    BY <1>1, <2>1, <2>3, <2>4
  <2>6. Gen6Ready(pool', wire', dec)
    BY <2>3, <2>5 DEF Gen6Ready
  <2>7. Gen6Hears(pool', wire', dec)
    BY <1>1, <2>6, Gen6ReadyHears
  <2> QED BY <2>7
<1> QED BY <1>1, <1>2, <1>3

\* The start, sent.
LEMMA Gen6StartSent ==
    ASSUME PoolInv, DecInv, WireInv, kind = "gen6", wire = <<>>, Settled,
           UNCHANGED <<kind, full, known, dec>>, Start
    PROVE  /\ WireInv' /\ pool.heat # 0 /\ lost' = lost
           /\ Gen6Hears(pool, wire, dec) => Gen6Hears(pool', wire', dec')
<1>1. /\ SameSwum(pool, pool') /\ pool'.phase = "racing" /\ pool.phase = "ready"
      /\ pool.heat # 0 /\ pool'.heat > 0 /\ lost' = lost
  BY StartPool, HeatsNat DEF PoolInv, Pools, SameSwum, Start
<1>2. InHeat = Swim(pool) /\ InHeat \in SUBSET Lanes
  BY <1>1, InHeatIs
<1> DEFINE g == [l \in Lanes |-> Go(l)]
<1>3. wire' = [i \in 1..Len(SetToSeq(InHeat)) |-> Go(SetToSeq(InHeat)[i])]
  BY DEF Start, Send, Starts, Go, RTD, Swiss
<1>4. wire' = [i \in 1..Len(SetToSeq(InHeat)) |-> g[SetToSeq(InHeat)[i]]]
  <2> DEFINE s == SetToSeq(InHeat)
  <2>1. s \in Seq(InHeat)
    BY <1>2, LanesInTurn
  <2> HIDE DEF s
  <2>2. \A i \in 1..Len(s) : s[i] \in Lanes
    BY <1>2, <2>1
  <2>3. wire' = [i \in 1..Len(s) |-> Go(s[i])]
    BY <1>3 DEF s
  <2>4. wire' = [i \in 1..Len(s) |-> g[s[i]]]
    BY <2>2, <2>3
  <2> QED BY <2>4 DEF s
<1>5. DOMAIN g = Lanes /\ \A l \in Lanes : g[l] = Go(l)
  OBVIOUS
<1> HIDE DEF g
<1>6. wire' \in Seq(Msgs(wire')) /\ Msgs(wire') = {g[l] : l \in InHeat}
  BY <1>2, <1>4, <1>5, MsgsInTurn
<1>7. Msgs(wire') = {Go(l) : l \in InHeat}
  BY <1>2, <1>5, <1>6
<1>8. WireInv'
  <2>1. \A l \in Lanes : SayableBy(pool', Go(l))
    BY Gen6Says, GoIs DEF Says
  <2>2. \A m \in Msgs(wire') : SayableBy(pool', m)
    BY <1>2, <1>7, <2>1
  <2> QED BY <1>1, <1>6, <2>2, WireSent
<1>9. ASSUME Gen6Hears(pool, wire, dec) PROVE Gen6Hears(pool', wire', dec')
  <2>1. Gen6Ready(pool, <<>>, dec)
    BY <1>1, <1>9, Gen6ReadyHears
  <2>2. /\ dec.heat = pool.heat /\ (Splitless(dec) \/ dec.reset)
        /\ \A l \in Lanes : ~dec.running[l] /\ dec.time[l] = 0
    BY <2>1, BlankHeard DEF Gen6Ready, CTS
  <2>3. \A l \in Lanes : dec.stop[l] # "fresh"
    BY <2>1, <2>2 DEF Gen6Ready
  <2>4. ~dec.reset /\ \A l \in Lanes : dec.splits[l] = 0
    BY <1>1, <2>2 DEF Settled, Splitless
  <2>5. /\ \A l \in Lanes : /\ pool.mark[l] = 0 /\ pool.legs[l] # Legs /\ pool.legs[l] = 0
                            /\ Swims(pool, l) = (l \in Swim(pool))
    <3>1. pool.out = {} /\ \A l \in Lanes : pool.legs[l] = 0
      BY <1>1 DEF PoolInv
    <3> QED BY <1>1, <3>1, NobodyTouched
  <2>6. \A l \in Lanes : /\ pool'.mark[l] = 0 /\ pool'.legs[l] # Legs /\ pool'.legs[l] = 0
                         /\ Swims(pool', l) = (l \in Swim(pool))
    BY <1>1, <2>5 DEF SameSwum, Swims, Swim
  <2>7. Swim(pool') = Swim(pool)
    BY <1>1 DEF SameSwum, Swim
  <2>8. ASSUME NEW l \in Lanes
        PROVE  Gen6Lane(pool', dec, l) \/ (Go(l) \in Msgs(wire') /\ dec.splits[l] = pool'.legs[l])
    <3>1. CASE l \in Swim(pool)
      BY <1>2, <1>7, <2>4, <2>6, <3>1
    <3>2. CASE l \notin Swim(pool)
      <4>1. dec.running[l] = FALSE /\ Swims(pool', l) = FALSE
        <5>1. dec.running[l] \in BOOLEAN
          BY DEF DecInv, Decs
        <5> QED BY <2>2, <2>6, <3>2, <5>1
      <4> QED BY <2>2, <2>3, <2>6, <2>7, <3>2, <4>1 DEF Gen6Lane, IsRank
    <3> QED BY <3>1, <3>2
  <2>9. Msgs(wire') \subseteq {Go(l) : l \in {k \in Lanes : Swims(pool', k)}}
    BY <1>2, <1>7, <2>6
  <2>10. Gen6Goes(pool', wire', dec)
    BY <2>8, <2>9 DEF Gen6Goes
  <2>11. dec.heat = pool'.heat /\ Going(pool', dec) /\ dec' = dec /\ pool'.phase # "ready"
    BY <1>1, <2>2, <2>4 DEF Going, SameSwum
  <2>12. Gen6Hears(pool', wire', dec)
    BY <2>10, <2>11, Gen6RaceHears
  <2> QED BY <2>11, <2>12
<1> QED BY <1>1, <1>8, <1>9

\* A lane the console's step does not move.
LEMMA Gen6LaneMoved ==
    ASSUME NEW p, NEW q, NEW d, NEW k, Gen6Lane(p, d, k), q.heat = p.heat,
           Swims(q, k) = Swims(p, k), q.legs[k] = p.legs[k], q.mark[k] = p.mark[k],
           p.legs[k] = Legs => RankIn(q, k) = RankIn(p, k)
    PROVE  Gen6Lane(q, d, k)
  BY DEF Gen6Lane, IsRank, Swim

\* A touch, sent.
LEMMA Gen6TouchSent ==
    ASSUME PoolInv, DecInv, WireInv, kind = "gen6", wire = <<>>, Settled, ~SlowReset,
           UNCHANGED <<kind, full, known, dec>>, NEW l \in Lanes, Touch(l), PoolInv'
    PROVE  /\ WireInv' /\ pool.heat # 0 /\ lost' = lost
           /\ Gen6Hears(pool, wire, dec) => Gen6Hears(pool', wire', dec')
<1>1. /\ pool' \in Pools /\ Touched(pool, pool', l) /\ pool.phase = "racing"
      /\ pool.heat # 0 /\ Swims(pool, l) /\ pool'.heat > 0 /\ lost' = lost
  <2>1. lost' = lost
    BY DEF Touch
  <2> QED BY <2>1, TouchMoves, HeatsNat DEF PoolInv, Pools, Touched
<1> DEFINE m == Stop(pool', l)
<1>2. wire' = <<m, m>>
  BY DEF Touch, Send, Touches, RTD, Swiss, Stop
<1>3. SayableBy(pool', m)
  BY <1>1, Gen6Says, StopIs DEF Says
<1> HIDE DEF m
<1>4. WireInv'
  <2>1. Msgs(wire') = {m} /\ wire' \in Seq(Msgs(wire'))
    BY <1>2, MsgsShort, ShortIsSeq
  <2> QED BY <1>1, <1>3, <2>1, WireSent
<1>5. ASSUME Gen6Hears(pool, wire, dec) PROVE Gen6Hears(pool', wire', dec')
  <2>1. /\ dec.heat = pool.heat /\ Going(pool, dec) /\ \A k \in Lanes : Gen6Lane(pool, dec, k)
    BY <1>1, <1>5, Gen6RaceHeard
  <2>2. ~dec.reset
    BY <1>1 DEF Settled, Touched, PoolInv, Pools
  <2>3. /\ l \in Swim(pool) /\ pool.legs[l] < Legs /\ pool.legs[l] \in Nat /\ Legs \in Nat
        /\ pool'.legs[l] = pool.legs[l] + 1 /\ Swim(pool') = Swim(pool)
    BY <1>1, ConsoleAssumption DEF Touched, Swim, Swims, PoolInv, Pools
  <2>4. \A k \in Lanes \ {l} : Gen6Lane(pool', dec, k)
    <3> SUFFICES ASSUME NEW k \in Lanes \ {l} PROVE Gen6Lane(pool', dec, k)
      OBVIOUS
    <3>1. pool.legs[k] = Legs => RankIn(pool', k) = RankIn(pool, k)
      BY <1>1, <2>3, TouchRank
    <3>2. Swims(pool', k) = Swims(pool, k)
      BY <1>1 DEF Touched, Swims, Swim
    <3>3. /\ pool'.legs[k] = pool.legs[k] /\ pool'.mark[k] = pool.mark[k]
          /\ pool'.heat = pool.heat
      BY <1>1 DEF Touched
    <3> QED BY <2>1, <3>1, <3>2, <3>3, Gen6LaneMoved
  <2>5. dec.running[l] /\ dec.splits[l] = pool.legs[l]
    BY <1>1, <2>1, <2>3 DEF Gen6Lane
  <2>6. pool'.legs[l] > 0 /\ dec.splits[l] = pool'.legs[l] - 1
    BY <2>3, <2>5
  <2>7. ~Swims(pool', l)
    <3>1. pool'.legs[l] < Legs => pool'.wall[l] = LineOf(pool', l)
      BY <1>1 DEF Touched, CTS
    <3>2. LineOf(pool', l) # 0
      BY LineType, LanesFinite
    <3> QED BY <3>1, <3>2 DEF Swims
  <2>8. Gen6TouchHeard(pool', wire', dec, l)
    BY <1>2, <2>2, <2>4, <2>5, <2>6, <2>7 DEF Gen6TouchHeard, m
  <2>9. dec.heat = pool'.heat /\ Going(pool', dec) /\ dec' = dec /\ pool'.phase # "ready"
    BY <1>1, <2>1, <2>2, <2>3 DEF Going, Touched
  <2>10. \E k \in Swim(pool') : Gen6TouchHeard(pool', wire', dec, k)
    BY <2>3, <2>8
  <2>11. Gen6Hears(pool', wire', dec)
    BY <2>1, <2>9, <2>10, Gen6RaceHears
  <2> QED BY <2>9, <2>11
<1> QED BY <1>1, <1>4, <1>5

\* The lane shown stopped goes on.
LEMMA Gen6GoesOnSent ==
    ASSUME PoolInv, DecInv, WireInv, kind = "gen6", wire = <<>>,
           UNCHANGED <<kind, full, known, dec>>, NEW l \in Lanes, GoesOn(l)
    PROVE  /\ WireInv' /\ pool.heat # 0 /\ lost' = lost
           /\ Gen6Hears(pool, wire, dec) => Gen6Hears(pool', wire', dec')
<1>1. /\ WentOn(pool, pool', l) /\ pool.heat # 0 /\ pool.phase = "racing"
      /\ l \in Swim(pool) /\ Swims(pool', l) /\ lost' = lost /\ pool'.heat > 0
  <2>1. lost' = lost
    BY DEF GoesOn
  <2> QED BY <2>1, GoesOnPool, HeatsNat DEF PoolInv, Pools, WentOn
<1> DEFINE m == Go(l)
<1>2. wire' = <<m>>
  BY DEF GoesOn, Send, Go, Swiss
<1>3. SayableBy(pool', m)
  BY Gen6Says, GoIs DEF Says
<1> HIDE DEF m
<1>4. WireInv'
  <2>1. wire' \in Seq(Msgs(wire')) /\ \A n \in Msgs(wire') : SayableBy(pool', n)
    BY <1>2, <1>3, OneSaid
  <2> QED BY <1>1, <2>1, WireSent
<1>5. ASSUME Gen6Hears(pool, wire, dec) PROVE Gen6Hears(pool', wire', dec')
  <2>1. /\ dec.heat = pool.heat /\ Going(pool, dec) /\ \A k \in Lanes : Gen6Lane(pool, dec, k)
    BY <1>1, <1>5, Gen6RaceHeard
  <2>2. \A k \in Lanes \ {l} : Gen6Lane(pool', dec, k)
    <3> SUFFICES ASSUME NEW k \in Lanes \ {l} PROVE Gen6Lane(pool', dec, k)
      OBVIOUS
    <3>1. RankIn(pool', k) = RankIn(pool, k)
      BY <1>1, WentOnRank
    <3>2. Swims(pool', k) = Swims(pool, k)
      BY <1>1 DEF WentOn, Swims, Swim
    <3>3. /\ pool'.legs[k] = pool.legs[k] /\ pool'.mark[k] = pool.mark[k]
          /\ pool'.heat = pool.heat
      BY <1>1 DEF WentOn
    <3> QED BY <2>1, <3>1, <3>2, <3>3, Gen6LaneMoved
  <2>3. dec.splits[l] = pool'.legs[l]
    BY <1>1, <2>1 DEF Gen6Lane, WentOn
  <2>4. Msgs(wire') = {m} /\ m \in {Go(k) : k \in {j \in Lanes : Swims(pool', j)}}
    BY <1>1, <1>2, MsgsShort DEF m
  <2>5. Gen6Goes(pool', wire', dec)
    BY <2>2, <2>3, <2>4 DEF Gen6Goes, m
  <2>6. dec.heat = pool'.heat /\ Going(pool', dec) /\ dec' = dec /\ pool'.phase # "ready"
    BY <1>1, <2>1 DEF Going, WentOn
  <2>7. Gen6Hears(pool', wire', dec)
    BY <2>5, <2>6, Gen6RaceHears
  <2> QED BY <2>6, <2>7
<1> QED BY <1>1, <1>4, <1>5

\* The lanes are as they were swum, the pool in another phase or not.
LEMMA Gen6SameLanes ==
    ASSUME NEW p, NEW q, SameSwum(p, q), NEW d, \A k \in Lanes : Gen6Lane(p, d, k)
    PROVE  \A k \in Lanes : Gen6Lane(q, d, k)
<1> SUFFICES ASSUME NEW k \in Lanes PROVE Gen6Lane(q, d, k)
  OBVIOUS
<1>1. RankIn(q, k) = RankIn(p, k) /\ Swims(q, k) = Swims(p, k)
  BY SameSwumRank DEF SameSwum, Swims, Swim
<1>2. q.legs[k] = p.legs[k] /\ q.mark[k] = p.mark[k] /\ q.heat = p.heat
  BY DEF SameSwum
<1> QED BY <1>1, <1>2, Gen6LaneMoved

\* The lane's flag flickers.
LEMMA Gen6FlickerSent ==
    ASSUME PoolInv, DecInv, WireInv, kind = "gen6", wire = <<>>,
           UNCHANGED <<kind, full, known, dec>>, NEW l \in Lanes, Flicker(l)
    PROVE  /\ WireInv' /\ pool.heat # 0 /\ lost' = lost
           /\ Gen6Hears(pool, wire, dec) => Gen6Hears(pool', wire', dec')
<1>1. /\ SameSwum(pool, pool') /\ pool'.phase = "racing" /\ pool.phase = "racing"
      /\ pool.heat # 0 /\ pool'.heat > 0 /\ lost' = lost /\ Swims(pool, l)
  <2>1. lost' = lost
    BY DEF Flicker
  <2> QED BY <2>1, FlickerPool, HeatsNat DEF PoolInv, Pools, SameSwum
<1>2. wire' = <<Blank(l), Go(l)>>
  <2> DEFINE a == Blank(l)
             b == Go(l)
  <2>1. wire' = <<a>> \o <<b>>
    BY DEF Flicker, Send, Blank, Go
  <2> HIDE DEF a, b
  <2>2. <<a>> \o <<b>> = <<a, b>>
    BY PairSent
  <2>3. wire' = <<a, b>>
    BY <2>1, <2>2
  <2> QED BY <2>3 DEF a, b
<1>3. WireInv'
  <2> DEFINE a == Blank(l)
             b == Go(l)
  <2>1. SayableBy(pool', a) /\ SayableBy(pool', b)
    BY Gen6Says, BlankIs, GoIs DEF Says
  <2>2. wire' = <<a, b>>
    BY <1>2
  <2> HIDE DEF a, b
  <2>3. Msgs(wire') = {a, b} /\ wire' \in Seq(Msgs(wire'))
    BY <2>2, MsgsShort, ShortIsSeq
  <2> QED BY <1>1, <2>1, <2>3, WireSent
<1>4. ASSUME Gen6Hears(pool, wire, dec) PROVE Gen6Hears(pool', wire', dec')
  <2>1. /\ dec.heat = pool.heat /\ Going(pool, dec) /\ \A k \in Lanes : Gen6Lane(pool, dec, k)
    BY <1>1, <1>4, Gen6RaceHeard
  <2>2. \A k \in Lanes : Gen6Lane(pool', dec, k)
    BY <1>1, <2>1, Gen6SameLanes
  <2>3. Swims(pool', l) /\ l \in Swim(pool')
    BY <1>1 DEF SameSwum, Swims, Swim
  <2>4. Gen6FlickHeard(pool', wire', dec, l)
    BY <1>2, <2>2, <2>3 DEF Gen6FlickHeard
  <2>5. dec.heat = pool'.heat /\ Going(pool', dec) /\ dec' = dec /\ pool'.phase # "ready"
    BY <1>1, <2>1, <2>3 DEF Going, SameSwum
  <2>6. \E k \in Swim(pool') : Gen6FlickHeard(pool', wire', dec, k)
    BY <2>3, <2>4
  <2>7. Gen6Hears(pool', wire', dec)
    BY <2>5, <2>6, Gen6RaceHears
  <2> QED BY <2>5, <2>7
<1> QED BY <1>1, <1>3, <1>4

\* The end of the race: a CTS is sent nothing.
LEMMA Gen6EndSent ==
    ASSUME PoolInv, DecInv, WireInv, kind = "gen6", wire = <<>>,
           UNCHANGED <<kind, full, known, dec>>, End
    PROVE  /\ WireInv' /\ pool.heat # 0 /\ lost' = lost
           /\ Gen6Hears(pool, wire, dec) => Gen6Hears(pool', wire', dec')
<1>1. /\ SameSwum(pool, pool') /\ pool'.phase = "over" /\ pool.phase = "racing"
      /\ pool.heat # 0 /\ pool'.heat > 0 /\ lost' = lost /\ wire' = <<>>
  BY EndPool, HeatsNat DEF PoolInv, Pools, SameSwum, End, Send, Ends
<1>2. WireInv'
  BY <1>1, WireSent, MsgsShort
<1>3. ASSUME Gen6Hears(pool, wire, dec) PROVE Gen6Hears(pool', wire', dec')
  <2>1. /\ dec.heat = pool.heat /\ Going(pool, dec) /\ \A k \in Lanes : Gen6Lane(pool, dec, k)
    BY <1>1, <1>3, Gen6RaceHeard
  <2>2. \A k \in Lanes : Gen6Lane(pool', dec, k)
    BY <1>1, <2>1, Gen6SameLanes
  <2>3. dec.heat = pool'.heat /\ Going(pool', dec) /\ dec' = dec /\ pool'.phase # "ready"
    BY <1>1, <2>1 DEF Going, SameSwum, Swims, Swim
  <2>4. Msgs(wire') = {}
    BY <1>1, MsgsShort
  <2>5. Gen6Goes(pool', wire', dec)
    BY <2>2, <2>4 DEF Gen6Goes
  <2>6. Gen6Hears(pool', wire', dec)
    BY <2>3, <2>5, Gen6RaceHears
  <2> QED BY <2>3, <2>6
<1> QED BY <1>1, <1>2, <1>3

\* A step of a Gen6.
LEMMA Gen6Console ==
    ASSUME PoolInv, PoolInv', DecInv, WireInv, ~SlowReset, ~PostsByPlace, kind = "gen6",
           Console, pool.heat # 0 /\ lost.since = 0 => Gen6Hears(pool, wire, dec)
    PROVE  /\ WireInv'
           /\ lost'.since = 0 => Gen6Hears(pool', wire', dec')
<1>1. /\ wire = <<>> /\ UNCHANGED <<kind, full, known, dec>> /\ ConsoleStep /\ Settled
  BY DEF Console, ConsoleStep, NextHeat, Reswim, Start, End, PostByPlace, Touch, GoesOn,
         Flicker, GivesUp, Deletes, Quiet, Send
<1>2. CASE NextHeat \/ Reswim
  BY <1>1, <1>2, Gen6ReadySent
<1>3. CASE Start
  BY <1>1, <1>3, Gen6StartSent
<1>4. CASE End
  BY <1>1, <1>4, Gen6EndSent
<1>5. ASSUME NEW l \in Lanes, Touch(l) \/ GoesOn(l) \/ Flicker(l)
      PROVE  /\ WireInv'
             /\ lost'.since = 0 => Gen6Hears(pool', wire', dec')
  <2>1. CASE Touch(l)
    BY <1>1, <2>1, Gen6TouchSent
  <2>2. CASE GoesOn(l)
    BY <1>1, <2>2, Gen6GoesOnSent
  <2>3. CASE Flicker(l)
    BY <1>1, <2>3, Gen6FlickerSent
  <2> QED BY <1>5, <2>1, <2>2, <2>3
<1> QED BY <1>1, <1>2, <1>3, <1>4, <1>5
        DEF ConsoleStep, PostByPlace, GivesUp, Deletes

\* What was heard whole from a Gen6 is decoded.
LEMMA Gen6Decoded ==
    ASSUME PoolInv, DecInv, kind = "gen6", pool.heat # 0, wire = <<>>,
           Gen6Hears(pool, wire, dec)
    PROVE  EndsAsSwum /\ NotFinishedEarly
<1>1. pool.phase # "ready" => dec.heat = pool.heat /\ \A l \in Lanes : Gen6Lane(pool, dec, l)
  BY Gen6RaceHeard
<1>2. EndsAsSwum
  <2> SUFFICES ASSUME pool.phase = "over" PROVE EndsAsSwum
    BY DEF EndsAsSwum
  <2>1. /\ \A l \in Lanes : ~Swims(pool, l)
        /\ \A l \in Swim(pool) \ pool.out : pool.legs[l] = Legs /\ l \in Lanes
    BY AllOver
  <2>2. \A l \in Lanes : ~dec.running[l] /\ dec.time[l] = pool.mark[l] /\ IsRank(pool, dec, l)
    BY <1>1, <2>1 DEF Gen6Lane
  <2>3. \A l \in Swim(pool) \ pool.out : dec.splits[l] = Legs
    BY <1>1, <2>1 DEF Gen6Lane
  <2>4. dec \in Decs
    BY DEF DecInv
  <2> QED BY <1>1, <2>2, <2>3, <2>4, SwumLanes
<1>3. NotFinishedEarly
  BY DEF NotFinishedEarly
<1> QED BY <1>2, <1>3

\* A step keeps the console, a Gen6, so what it makes heard is heard after it.
LEMMA Gen6Primed ==
    ASSUME UNCHANGED <<kind, full, known>>, Gen6Hears(pool', wire', dec')
    PROVE  Gen6Hears(pool, wire, dec)'
  BY DEF Gen6Hears, Gen6Ready, BlankPool, Finished, Gen6Goes, Gen6Lane, Gen6FlickHeard,
         Gen6TouchHeard

-----------------------------------------------------------------------------
(* CTS Gen7.                                                                *)

\* What a Gen7 may send.
LEMMA Gen7Says ==
    ASSUME kind = "gen7", NEW p, NEW m
    PROVE  SayableBy(p, m) <=>
               \/ m \in {Named(p), At(p, FALSE), Soon(p)} \/ \E l \in Lanes : m = Header(l)
               \/ m \in Modules /\ m.line = m.lane /\ m.running = FALSE /\ m.digits = TRUE
  BY DEF SayableBy, Gen7Lines, RTD, Swiss

\* The header of a lane.
LEMMA HeaderIs ==
    ASSUME NEW l \in Lanes
    PROVE  /\ Header(l) \in Modules /\ Header(l).t = "lane" /\ Header(l).line = l
           /\ Header(l).lane = l /\ Header(l).running = TRUE /\ Header(l).digits = FALSE
<1> DEFINE m == Header(l)
<1>1. m = [t |-> "lane", line |-> l, lane |-> l, running |-> TRUE,
           time |-> 0, place |-> 0, digits |-> FALSE, soon |-> FALSE]
  BY DEF Header
<1> SUFFICES /\ m \in Modules /\ m.t = "lane" /\ m.line = l
             /\ m.lane = l /\ m.running = TRUE /\ m.digits = FALSE
  OBVIOUS
<1> HIDE DEF m
<1>2. m \in Modules
  BY <1>1 DEF Modules
<1>3. /\ m.t = "lane" /\ m.line = l /\ m.lane = l /\ m.running = TRUE /\ m.digits = FALSE
  BY <1>1
<1> QED BY <1>2, <1>3

\* The first line of the clock after a start, or a flicker.
LEMMA SoonIs ==
    ASSUME NEW p
    PROVE  Soon(p).t = "clock" /\ Soon(p).soon = TRUE
  BY DEF Soon

\* A line of the clock.
LEMMA AtIs ==
    ASSUME NEW p
    PROVE  At(p, FALSE).t = "clock" /\ At(p, FALSE).soon = FALSE
  BY DEF At

\* A decoder with other modules.
WithMods(d, g) == [d EXCEPT !.mods = g]

\* What the step changes, and what it leaves.
LEMMA WithModsFields ==
    ASSUME NEW d \in Decs, NEW g \in Mods, NEW e, e = WithMods(d, g)
    PROVE  /\ e \in Decs /\ SameHeat(e, d) /\ SameAside(e, d) /\ SameShown(e, d)
           /\ e.stop = d.stop /\ e.mods = g
<1>1. e \in Decs /\ e.stop = d.stop /\ e.mods = g
  BY DEF WithMods, Decs
<1>2. SameHeat(e, d) /\ SameAside(e, d) /\ SameShown(e, d)
  BY DEF WithMods, Decs, SameHeat, SameAside, SameShown
<1> QED BY <1>1, <1>2

\* The module of lane l, read or flagged.
ModuleRead(g, l, m) == [g EXCEPT ![l] = m]

\* A module read replaces the one of its lane.
LEMMA ModsWith ==
    ASSUME NEW g \in Mods, NEW l \in Lanes, NEW m \in Modules, m.lane = l,
           NEW h, h = ModuleRead(g, l, m)
    PROVE  h \in Mods /\ h[l] = m /\ h[l] # NoHalf /\ Others(h, g, l)
<1>1. m # NoHalf
  <2>1. m.t = "lane" /\ NoHalf.t = "none"
    BY DEF Modules, NoHalf
  <2> QED BY <2>1
<1>2. g \in [Lanes -> {NoHalf} \cup Modules] /\ \A k \in Lanes : g[k] # NoHalf => g[k].lane = k
  BY DEF Mods
<1>3. h[l] = m /\ \A k \in Lanes : k # l => h[k] = g[k]
  BY <1>2 DEF ModuleRead
<1>4. h \in [Lanes -> {NoHalf} \cup Modules]
  BY <1>2 DEF ModuleRead
<1>5. \A k \in Lanes : h[k] # NoHalf => h[k].lane = k
  BY <1>2, <1>3
<1> QED BY <1>1, <1>3, <1>4, <1>5 DEF Mods, Others

\* A lane's digits, it does not run: what they leave of its length.
Gen7Counts(e, d, l) ==
    /\ Others(e.stop, d.stop, l) /\ Others(e.splits, d.splits, l)
    /\ d.running[l] => e.stop[l] = "fresh" /\ e.splits[l] = d.splits[l] + 1
    /\ ~d.running[l] => e.stop = d.stop /\ e.splits = d.splits

Halts(d, l, m) == CountLengths(d, l, d.running[l], m)

\* What the step changes, and what it leaves.
LEMMA HaltsFields ==
    ASSUME NEW d \in Decs, NEW l \in Lanes, NEW m, m.running = FALSE, NEW e, e = Halts(d, l, m)
    PROVE  /\ e \in Decs /\ SameHeat(e, d) /\ SameAside(e, d) /\ e.mods = d.mods
           /\ e.time = d.time /\ e.place = d.place /\ e.running = d.running
           /\ Gen7Counts(e, d, l)
<1> DEFINE f == [d.stop EXCEPT ![l] = "fresh"]
           c == [d.splits EXCEPT ![l] = @ + 1]
<1>1. /\ f \in [Lanes -> {"no", "fresh", "counted"}] /\ f[l] = "fresh" /\ Others(f, d.stop, l)
      /\ c \in [Lanes -> Nat] /\ c[l] = d.splits[l] + 1 /\ Others(c, d.splits, l)
  BY DEF Decs, Others
<1>2. d.running[l] \in BOOLEAN
  BY DEF Decs
<1>3. CASE d.running[l] = TRUE
  <2>1. e = [d EXCEPT !.stop = f, !.splits = c]
    BY <1>3 DEF Halts, CountLengths, SplitStep
  <2> HIDE DEF f, c
  <2>2. e \in Decs /\ SameHeat(e, d) /\ SameAside(e, d)
    BY ZenonT(30), <1>1, <2>1 DEF Decs, SameHeat, SameAside
  <2>3. /\ e.time = d.time /\ e.place = d.place /\ e.running = d.running
        /\ e.splits = c /\ e.stop = f /\ e.mods = d.mods
    BY <2>1 DEF Decs
  <2> QED BY <1>1, <1>3, <2>2, <2>3 DEF Gen7Counts
<1>4. CASE d.running[l] = FALSE
  <2>1. e = d
    BY <1>4 DEF Halts, CountLengths
  <2> QED BY <1>4, <2>1 DEF SameHeat, SameAside, Gen7Counts, Others
<1> QED BY <1>2, <1>3, <1>4

\* The digits of a lane that does not run.
LEMMA Gen7StillFields ==
    ASSUME NEW d \in Decs, NEW l \in Lanes, NEW time, NEW place, NEW m, Says(m, l, time, place),
           m.running = FALSE, NEW f, f = FeedGen7(d, m)
    PROVE  /\ f \in Decs /\ SameHeat(f, d) /\ SameAside(f, d)
           /\ LineShown(f, d, l, m) /\ Gen7Counts(f, d, l)
           /\ Others(f.mods, d.mods, l) /\ Stays(f, l)
<1> DEFINE g == ModuleRead(d.mods, l, m)
           y == WithMods(d, g)
           z == Halts(y, l, m)
<1>1. /\ m \in Modules /\ m.t = "lane" /\ m.line = l /\ m.lane = l /\ LineRow(m) = l
      /\ m.digits = TRUE
  BY DEF Says
<1>2. d.mods \in Mods
  BY DEF Decs
<1>3. g \in Mods /\ g[l] = m /\ g[l] # NoHalf /\ Others(g, d.mods, l)
  BY <1>1, <1>2, ModsWith
<1>4. f = LineLeaves(z, l, m)
  <2>1. f = Gen7Lane([d EXCEPT !.mods[l] = m], m)
    BY <1>1 DEF FeedGen7
  <2>2. [d EXCEPT !.mods[l] = m] = y
    BY DEF WithMods, ModuleRead
  <2>3. f = Gen7Lane(y, m)
    BY <2>1, <2>2
  <2> HIDE DEF y
  <2>4. f = [CountLengths(y, l, y.running[l], m)
                EXCEPT !.running[l] = m.running, !.place[l] = m.place, !.time[l] = m.time]
    BY <1>1, <2>3 DEF Gen7Lane
  <2> QED BY <2>4 DEF LineLeaves, Halts
<1> HIDE DEF g
<1>5. /\ y \in Decs /\ SameHeat(y, d) /\ SameAside(y, d) /\ SameShown(y, d)
      /\ y.stop = d.stop /\ y.mods = g
  BY <1>3, WithModsFields
<1> HIDE DEF y
<1>6. /\ z \in Decs /\ SameHeat(z, y) /\ SameAside(z, y) /\ z.mods = y.mods
      /\ z.time = y.time /\ z.place = y.place /\ z.running = y.running
      /\ Gen7Counts(z, y, l)
  BY <1>5, HaltsFields
<1> HIDE DEF z
<1>7. /\ f \in Decs /\ SameHeat(f, z) /\ SameAside(f, z) /\ SameRest(f, z)
      /\ f.splits = z.splits /\ LineShown(f, z, l, m)
  BY <1>1, <1>4, <1>6, LineFields
<1>8. SameHeat(f, d) /\ SameAside(f, d)
  BY <1>5, <1>6, <1>7 DEF SameHeat, SameAside
<1>9. LineShown(f, d, l, m)
  BY <1>5, <1>6, <1>7 DEF LineShown, SameShown
<1>10. f.mods = g /\ f.stop = z.stop
  BY <1>5, <1>6, <1>7 DEF SameRest
<1>11. Gen7Counts(f, d, l)
  BY <1>5, <1>6, <1>7, <1>10 DEF Gen7Counts, SameShown
<1>12. Stays(f, l) /\ Others(f.mods, d.mods, l)
  BY <1>3, <1>10 DEF Stays
<1> QED BY <1>7, <1>8, <1>9, <1>11, <1>12

\* A header: the lane's module follows the clock.
HeaderLeaves(f, d, l) ==
    /\ SameShown(f, d) /\ f.stop = d.stop /\ Others(f.mods, d.mods, l)
    /\ f.mods[l] # NoHalf /\ f.mods[l].running = TRUE

\* What the step changes, and what it leaves.
LEMMA Gen7HeaderFields ==
    ASSUME NEW d \in Decs, NEW l \in Lanes, NEW m, m = Header(l), NEW f, f = FeedGen7(d, m)
    PROVE  f \in Decs /\ SameHeat(f, d) /\ SameAside(f, d) /\ HeaderLeaves(f, d, l)
<1>1. /\ m \in Modules /\ m.t = "lane" /\ m.line = l /\ m.lane = l /\ m.running = TRUE
      /\ m.digits = FALSE
  BY HeaderIs
<1>2. d.mods \in Mods /\ d.mods[l] \in {NoHalf} \cup Modules
      /\ (d.mods[l] # NoHalf => d.mods[l].lane = l)
  BY DEF Decs, Mods
<1> DEFINE n == IF d.mods[l] = NoHalf THEN m ELSE [d.mods[l] EXCEPT !.running = TRUE]
           g == ModuleRead(d.mods, l, n)
<1>3. n \in Modules /\ n.lane = l /\ n.running = TRUE
  <2>1. CASE d.mods[l] = NoHalf
    BY <1>1, <2>1
  <2>2. CASE d.mods[l] # NoHalf
    <3> DEFINE x == d.mods[l]
    <3>1. x \in Modules /\ x.lane = l /\ n = [x EXCEPT !.running = TRUE]
      BY <1>2, <2>2
    <3> HIDE DEF x, n
    <3> QED BY <3>1 DEF Modules
  <2> QED BY <2>1, <2>2
<1>4. f = WithMods(d, g)
  <2>1. f = [d EXCEPT !.mods[l] = IF @ = NoHalf THEN m ELSE [@ EXCEPT !.running = TRUE]]
    BY <1>1 DEF FeedGen7
  <2> QED BY <2>1 DEF WithMods, ModuleRead
<1> HIDE DEF n
<1>5. g \in Mods /\ g[l] = n /\ g[l] # NoHalf /\ Others(g, d.mods, l)
  <2>1. d.mods \in Mods
    BY <1>2
  <2>2. n \in Modules /\ n.lane = l
    BY <1>3
  <2> QED BY <2>1, <2>2, ModsWith
<1> HIDE DEF g
<1>6. /\ f \in Decs /\ SameHeat(f, d) /\ SameAside(f, d) /\ SameShown(f, d)
      /\ f.stop = d.stop /\ f.mods = g
  BY <1>4, <1>5, WithModsFields
<1> QED BY <1>3, <1>5, <1>6 DEF HeaderLeaves

\* The lane's module follows the clock.
Following(d, l) == d.mods[l] # NoHalf /\ d.mods[l].running

\* A lane follows the clock, or does not.
LEMMA FollowingType ==
    ASSUME NEW d \in Decs, NEW l \in Lanes
    PROVE  Following(d, l) \in BOOLEAN /\ (Following(d, l) => d.mods[l].place \in Nat)
<1>1. d.mods[l] # NoHalf => d.mods[l] \in Modules
  BY DEF Decs, Mods
<1> QED BY <1>1 DEF Following, Modules

\* No other module is read out to the lane.
LEMMA OwnModule ==
    ASSUME NEW d \in Decs, NEW l \in Lanes
    PROVE  {k \in Lanes : /\ d.mods[k] # NoHalf /\ d.mods[k].running
                          /\ LineRow(d.mods[k]) = l}
           = IF Following(d, l) THEN {l} ELSE {}
<1>1. \A k \in Lanes : d.mods[k] # NoHalf => LineRow(d.mods[k]) = k
  BY LanesFinite DEF Decs, Mods, LineRow
<1> QED BY <1>1 DEF Following

\* The largest of one number.
LEMMA MaxOfOne ==
    ASSUME NEW l \in Lanes
    PROVE  Max({l}) = l
<1>1. l \in Nat
  BY LanesFinite
<1>2. \A x \in {l} : \A y \in {l} : x >= y
  BY <1>1
<1> QED BY <1>2 DEF Max

RunsOn(d, l, m) == CountLengths(d, l, d.running[l], [running |-> TRUE, soon |-> m.soon])

\* What a clock leaves of the length of a lane that follows it.
RunsOnLeaves(e, d, l, m) ==
    /\ d.running[l] => e.splits[l] = d.splits[l]
    /\ m.soon = FALSE => e.splits[l] = d.splits[l]
    /\ m.soon = TRUE /\ ~d.running[l] /\ d.stop[l] = "fresh" /\ d.splits[l] > 0 =>
          e.splits[l] = d.splits[l] - 1

\* What the step changes, and what it leaves.
LEMMA RunsOnFields ==
    ASSUME NEW d \in Decs, NEW l \in Lanes, NEW m, m.soon \in BOOLEAN,
           NEW e, e = RunsOn(d, l, m)
    PROVE  e \in Decs /\ RunsOnLeaves(e, d, l, m)
<1> DEFINE a == [running |-> TRUE, soon |-> m.soon]
<1>1. a.running = TRUE /\ a.soon = m.soon
  OBVIOUS
<1>2. e = CountLengths(d, l, d.running[l], a)
  BY DEF RunsOn
<1> HIDE DEF a
<1>3. d.running[l] \in BOOLEAN /\ d.splits[l] \in Nat
  BY DEF Decs
<1>4. CASE d.running[l] = TRUE
  <2>1. e = d
    BY <1>1, <1>2, <1>4 DEF CountLengths
  <2> QED BY <1>4, <2>1 DEF RunsOnLeaves
<1>5. CASE d.running[l] = FALSE
  <2> DEFINE s == [d.stop EXCEPT ![l] = "no"]
             x == IF d.stop[l] = "fresh" /\ m.soon /\ d.splits[l] > 0 THEN d.splits[l] - 1
                  ELSE d.splits[l]
             c == [d.splits EXCEPT ![l] = x]
  <2>1. e = [d EXCEPT !.stop = s, !.splits = c]
    BY <1>1, <1>2, <1>5 DEF CountLengths, SplitStep
  <2>2. x \in Nat /\ (m.soon = FALSE => x = d.splits[l])
        /\ (m.soon = TRUE /\ d.stop[l] = "fresh" /\ d.splits[l] > 0 => x = d.splits[l] - 1)
    BY <1>3
  <2> HIDE DEF x
  <2>3. /\ s \in [Lanes -> {"no", "fresh", "counted"}] /\ c \in [Lanes -> Nat] /\ c[l] = x
    BY <2>2 DEF Decs
  <2> HIDE DEF s, c
  <2>4. e \in Decs /\ e.splits = c
    BY <2>1, <2>3 DEF Decs
  <2> QED BY <1>5, <2>2, <2>3, <2>4 DEF RunsOnLeaves
<1> QED BY <1>3, <1>4, <1>5

\* What a clock changes, all at once.
ClockGives(d, run, time, place, stop, splits) ==
    [d EXCEPT !.running = run, !.time = time, !.place = place, !.stop = stop, !.splits = splits]

\* What the step changes, and what it leaves.
LEMMA ClockGivesFields ==
    ASSUME NEW d \in Decs, NEW r \in [Lanes -> BOOLEAN], NEW t \in [Lanes -> Nat],
           NEW p \in [Lanes -> Nat], NEW s \in [Lanes -> {"no", "fresh", "counted"}],
           NEW c \in [Lanes -> Nat], NEW e, e = ClockGives(d, r, t, p, s, c)
    PROVE  /\ e \in Decs /\ SameHeat(e, d) /\ SameAside(e, d) /\ e.mods = d.mods
           /\ e.time = t /\ e.place = p /\ e.splits = c /\ e.running = r /\ e.stop = s
<1>1. e \in Decs /\ SameHeat(e, d) /\ e.mods = d.mods
  BY DEF ClockGives, Decs, SameHeat
<1>2. SameAside(e, d)
  BY DEF ClockGives, Decs, SameAside
<1>3. e.time = t /\ e.place = p /\ e.splits = c /\ e.running = r /\ e.stop = s
  BY DEF ClockGives, Decs
<1> QED BY <1>1, <1>2, <1>3

\* What a clock leaves of the lanes.
Clocks(f, d, m) ==
    \A l \in Lanes :
        /\ Following(d, l) => f.running[l] = TRUE
        /\ ~Following(d, l) =>
              /\ f.running[l] = d.running[l] /\ f.time[l] = d.time[l] /\ f.place[l] = d.place[l]
              /\ f.splits[l] = d.splits[l]
        /\ d.running[l] \/ m.soon = FALSE => f.splits[l] = d.splits[l]
        /\ Following(d, l) /\ ~d.running[l] /\ m.soon = TRUE /\ d.stop[l] = "fresh"
              /\ d.splits[l] > 0 => f.splits[l] = d.splits[l] - 1

\* What a line of the clock changes, and what it leaves.
LEMMA Gen7ClockFields ==
    ASSUME NEW d \in Decs, NEW m, m.t = "clock", m.soon \in BOOLEAN, NEW f, f = FeedGen7(d, m)
    PROVE  /\ f \in Decs /\ SameHeat(f, d) /\ SameAside(f, d) /\ f.mods = d.mods
           /\ Clocks(f, d, m)
<1> DEFINE follows(l) == {k \in Lanes : /\ d.mods[k] # NoHalf /\ d.mods[k].running
                                        /\ LineRow(d.mods[k]) = l}
           again == {l \in Lanes : follows(l) # {}}
           run == [l \in Lanes |-> d.running[l] \/ l \in again]
           time == [l \in Lanes |-> IF l \in again THEN RunningClock ELSE d.time[l]]
           place == [l \in Lanes |-> IF l \in again THEN d.mods[Max(follows(l))].place
                                     ELSE d.place[l]]
           stop == [l \in Lanes |-> IF l \in again THEN RunsOn(d, l, m).stop[l] ELSE d.stop[l]]
           splits == [l \in Lanes |-> IF l \in again THEN RunsOn(d, l, m).splits[l]
                                      ELSE d.splits[l]]
<1>1. f = ClockGives(d, run, time, place, stop, splits)
  BY DEF FeedGen7, Gen7Clock, ClockGives, RunsOn
<1>2. \A l \in Lanes : follows(l) = IF Following(d, l) THEN {l} ELSE {}
  BY OwnModule
<1> HIDE DEF follows
<1>3. again = {l \in Lanes : Following(d, l)}
  BY <1>2
<1> HIDE DEF again
<1>4. \A l \in Lanes : l \in again => d.mods[Max(follows(l))].place \in Nat
  <2> SUFFICES ASSUME NEW l \in Lanes, l \in again
               PROVE  d.mods[Max(follows(l))].place \in Nat
    OBVIOUS
  <2>1. Max(follows(l)) = l
    BY <1>2, <1>3, MaxOfOne
  <2> QED BY <1>3, <2>1, FollowingType
<1>5. \A l \in Lanes : RunsOn(d, l, m) \in Decs
  BY RunsOnFields
<1>6. \A l \in Lanes : RunsOn(d, l, m).splits[l] \in Nat
                       /\ RunsOn(d, l, m).stop[l] \in {"no", "fresh", "counted"}
  BY <1>5 DEF Decs
<1>7. \A l \in Lanes : /\ d.time[l] \in Nat /\ d.place[l] \in Nat /\ d.splits[l] \in Nat
                       /\ d.running[l] \in BOOLEAN /\ d.stop[l] \in {"no", "fresh", "counted"}
  BY DEF Decs
<1>8. /\ run \in [Lanes -> BOOLEAN] /\ time \in [Lanes -> Nat] /\ place \in [Lanes -> Nat]
      /\ stop \in [Lanes -> {"no", "fresh", "counted"}] /\ splits \in [Lanes -> Nat]
  BY <1>4, <1>6, <1>7 DEF RunningClock
<1>9. ASSUME NEW l \in Lanes
      PROVE  /\ Following(d, l) => run[l] = TRUE /\ splits[l] = RunsOn(d, l, m).splits[l]
             /\ ~Following(d, l) =>
                 /\ run[l] = d.running[l] /\ time[l] = d.time[l] /\ place[l] = d.place[l]
                 /\ splits[l] = d.splits[l]
  BY <1>3, <1>7
<1> HIDE DEF run, time, place, stop, splits
<1>10. /\ f \in Decs /\ SameHeat(f, d) /\ SameAside(f, d) /\ f.mods = d.mods
       /\ f.time = time /\ f.place = place /\ f.splits = splits /\ f.running = run
  BY <1>1, <1>8, ClockGivesFields
<1>11. Clocks(f, d, m)
  <2> SUFFICES ASSUME NEW l \in Lanes
               PROVE
        /\ Following(d, l) => f.running[l] = TRUE
        /\ ~Following(d, l) =>
              /\ f.running[l] = d.running[l] /\ f.time[l] = d.time[l] /\ f.place[l] = d.place[l]
              /\ f.splits[l] = d.splits[l]
        /\ d.running[l] \/ m.soon = FALSE => f.splits[l] = d.splits[l]
        /\ Following(d, l) /\ ~d.running[l] /\ m.soon = TRUE /\ d.stop[l] = "fresh"
              /\ d.splits[l] > 0 => f.splits[l] = d.splits[l] - 1
    BY DEF Clocks
  <2>1. /\ d.running[l] => RunsOn(d, l, m).splits[l] = d.splits[l]
        /\ m.soon = FALSE => RunsOn(d, l, m).splits[l] = d.splits[l]
        /\ m.soon = TRUE /\ ~d.running[l] /\ d.stop[l] = "fresh" /\ d.splits[l] > 0 =>
              RunsOn(d, l, m).splits[l] = d.splits[l] - 1
    <3>1. RunsOnLeaves(RunsOn(d, l, m), d, l, m)
      BY RunsOnFields
    <3> QED BY <3>1 DEF RunsOnLeaves
  <2> QED BY <1>9, <1>10, <2>1
<1> QED BY <1>10, <1>11

\* What a Gen7 may send fits.
LEMMA Gen7Fed ==
    ASSUME PoolInv, DecInv, pool.heat # 0, kind = "gen7", NEW m, SayableBy(pool, m)
    PROVE  Fit(Fed(dec, m))
<1> DEFINE f == Fed(dec, m)
<1>1. dec \in Decs /\ f = FeedGen7(dec, m) /\ kind \notin {"quantum", "dolphin"}
      /\ kind \in AllKinds
  BY FedIs DEF DecInv, CTS, AllKinds
<1>2. pool.heat \in Heats
  BY HeatsNat DEF PoolInv, Pools
<1>3. CASE m = Named(pool)
  <2>1. m.t = "heat" /\ m.heat = pool.heat
    BY <1>3, NamedIs
  <2>2. f = NewHeat(dec, pool.heat)
    BY <1>1, <2>1 DEF FeedGen7
  <2> HIDE DEF f
  <2>3. f \in Decs /\ f.heat = pool.heat /\ (f = dec \/ ResetLeaves(f, dec))
    BY <1>1, <1>2, <2>2, NewHeatFields
  <2> QED BY <1>1, <2>3, PlainFit DEF ResetLeaves, f
<1>4. ASSUME f \in Decs, SameHeat(f, dec), SameAside(f, dec) PROVE Fit(f)
  <2> HIDE DEF f
  <2> QED BY <1>1, <1>4, PlainFit DEF SameHeat, SameAside
<1>5. CASE m = At(pool, FALSE) \/ m = Soon(pool)
  <2>1. m.t = "clock" /\ m.soon \in BOOLEAN
    BY <1>5, AtIs, SoonIs
  <2>2. f \in Decs /\ SameHeat(f, dec) /\ SameAside(f, dec)
    BY <1>1, <2>1, Gen7ClockFields
  <2> QED BY <1>4, <2>2
<1>6. ASSUME NEW l \in Lanes, m = Header(l) PROVE Fit(f)
  <2>1. f \in Decs /\ SameHeat(f, dec) /\ SameAside(f, dec)
    <3> HIDE DEF f
    <3> QED BY <1>1, <1>6, Gen7HeaderFields
  <2> QED BY <1>4, <2>1
<1>7. CASE m \in Modules /\ m.line = m.lane /\ m.running = FALSE /\ m.digits = TRUE
  <2> DEFINE l == m.lane
  <2>1. l \in Lanes /\ Says(m, l, m.time, m.place)
    BY <1>7, LanesFinite DEF Says, Modules, LineRow
  <2>2. f \in Decs /\ SameHeat(f, dec) /\ SameAside(f, dec)
    BY <1>1, <1>7, <2>1, Gen7StillFields
  <2> QED BY <1>4, <2>2
<1> QED BY <1>3, <1>5, <1>6, <1>7, Gen7Says

\* What a Gen7 has heard before the start.
LEMMA Gen7ReadyHears ==
    ASSUME NEW p, NEW w, NEW d, p.phase = "ready"
    PROVE  Gen7Hears(p, w, d) <=> Gen7Ready(p, w, d)
  BY DEF Gen7Hears

\* What a Gen7 has heard once the race is on.
LEMMA Gen7RaceHears ==
    ASSUME NEW p, NEW w, NEW d, p.phase # "ready"
    PROVE  Gen7Hears(p, w, d) <=>
               /\ d.heat = p.heat /\ Going(p, d)
               /\ \/ Gen7Goes(p, w, d, At(p, FALSE)) \/ Gen7Goes(p, w, d, Soon(p))
                  \/ \E l \in Swim(p) : Gen7FlickHeard(p, w, d, l)
                  \/ \E l \in Swim(p) : Gen7TouchHeard(p, w, d, l)
  BY DEF Gen7Hears

\* All lanes are shown as they are swum, and follow the clock if they swim.
Gen7Lanes(p, d) == \A l \in Lanes : Gen7Shows(p, d, l) /\ Follows(p, d, l)

\* The lanes shown, the row at its end.
LEMMA Gen7AllGo ==
    ASSUME NEW p, NEW d, NEW c
    PROVE  Gen7Goes(p, <<>>, d, c) <=> Gen7Lanes(p, d)
<1> DEFINE w == <<>>
<1>1. Msgs(w) = {} /\ Len(w) = 0 /\ w = <<>>
  BY MsgsShort
<1> SUFFICES Gen7Goes(p, w, d, c) <=> Gen7Lanes(p, d)
  OBVIOUS
<1> HIDE DEF w
<1>2. GoRow(p, w, c)
  BY <1>1 DEF GoRow
<1> QED BY <1>1, <1>2 DEF Gen7Goes, Gen7Lanes

\* All of the race has been read.
LEMMA Gen7RaceHeard ==
    ASSUME pool.phase # "ready", wire = <<>>, Gen7Hears(pool, wire, dec)
    PROVE  dec.heat = pool.heat /\ Going(pool, dec) /\ Gen7Lanes(pool, dec)
<1>1. ~\E l \in Swim(pool) : Gen7FlickHeard(pool, wire, dec, l)
  <2> SUFFICES ASSUME NEW l \in Swim(pool), Gen7FlickHeard(pool, wire, dec, l) PROVE FALSE
    OBVIOUS
  <2> DEFINE a == Blank(l)
             b == Header(l)
             c == Soon(pool)
  <2>1. wire = <<a, b, c>>
    BY DEF Gen7FlickHeard
  <2> HIDE DEF a, b, c
  <2> QED BY <2>1
<1>2. ~\E l \in Swim(pool) : Gen7TouchHeard(pool, wire, dec, l)
  <2> SUFFICES ASSUME NEW l \in Swim(pool), Gen7TouchHeard(pool, wire, dec, l) PROVE FALSE
    OBVIOUS
  <2> DEFINE a == Stop(pool, l)
  <2>1. wire = <<a>>
    BY DEF Gen7TouchHeard
  <2> HIDE DEF a
  <2> QED BY <2>1
<1> QED BY <1>1, <1>2, Gen7RaceHears, Gen7AllGo

\* A lane whose fields stay as they are.
LEMMA Gen7Other ==
    ASSUME NEW p, NEW d, NEW e, NEW k, Gen7Shows(p, d, k), e.time[k] = d.time[k],
           e.place[k] = d.place[k], e.splits[k] = d.splits[k], e.running[k] = d.running[k]
    PROVE  Gen7Shows(p, e, k)
  BY DEF Gen7Shows, IsRank

\* Only the lanes and their modules count.
LEMMA Gen7GoesKept ==
    ASSUME NEW p, NEW w, NEW d, NEW e, NEW c, Gen7Goes(p, w, d, c), SameShown(e, d),
           e.stop = d.stop, e.mods = d.mods
    PROVE  Gen7Goes(p, w, e, c)
<1>1. \A k \in Lanes : Gen7Shows(p, d, k) => Gen7Shows(p, e, k)
  BY Gen7Other DEF SameShown
<1>2. \A k \in Lanes : Awaits(p, d, k, c) => Awaits(p, e, k, c)
  BY DEF Awaits, SameShown
<1>3. \A k \in Lanes : (Follows(p, d, k) => Follows(p, e, k)) /\ (Stays(d, k) => Stays(e, k))
  BY DEF Follows, Stays
<1> QED BY <1>1, <1>2, <1>3 DEF Gen7Goes

\* Only the lanes and their modules count.
LEMMA Gen7LanesKept ==
    ASSUME NEW p, NEW d, NEW e, Gen7Lanes(p, d), SameShown(e, d), e.mods = d.mods
    PROVE  Gen7Lanes(p, e)
<1>1. \A k \in Lanes : Gen7Shows(p, d, k) => Gen7Shows(p, e, k)
  BY Gen7Other DEF SameShown
<1>2. \A k \in Lanes : Follows(p, d, k) => Follows(p, e, k)
  BY DEF Follows
<1> QED BY <1>1, <1>2 DEF Gen7Lanes

\* The next of a row: a header, or the clock at its end.
LEMMA GoRowRead ==
    ASSUME NEW p, NEW c, NEW S, NEW w \in Seq(S), w # <<>>, GoRow(p, w, c)
    PROVE  \/ Head(w) = c /\ Tail(w) = <<>>
           \/ /\ Tail(w) # <<>> /\ GoRow(p, Tail(w), c)
              /\ \E l \in Lanes : Swims(p, l) /\ Head(w) = Header(l)
<1> DEFINE u == Tail(w)
           n == Len(w)
<1>1. /\ n \in Nat /\ n # 0 /\ Head(w) = w[1] /\ u \in Seq(S) /\ Len(u) = n - 1
      /\ \A i \in 1..(n - 1) : u[i] = w[i + 1]
  OBVIOUS
<1>2. w[n] = c /\ \A i \in 1..(n - 1) : \E l \in Lanes : Swims(p, l) /\ w[i] = Header(l)
  BY DEF GoRow
<1> HIDE DEF u, n
<1>3. CASE n = 1
  <2>1. u = <<>>
    BY <1>1, <1>3
  <2> QED BY <1>1, <1>2, <1>3, <2>1 DEF u
<1>4. CASE n # 1
  <2>1. n - 1 \in 1..(n - 1) /\ (n - 1) + 1 = n /\ 1 \in 1..(n - 1)
    BY <1>1, <1>4
  <2>2. u # <<>> /\ u[Len(u)] = c
    BY <1>1, <1>2, <2>1
  <2>3. \A i \in 1..(Len(u) - 1) : i \in 1..(n - 1) /\ i + 1 \in 1..(n - 1)
    BY <1>1
  <2>4. \A i \in 1..(Len(u) - 1) : \E l \in Lanes : Swims(p, l) /\ u[i] = Header(l)
    BY <1>1, <1>2, <2>3
  <2>5. GoRow(p, u, c)
    BY <2>2, <2>4 DEF GoRow
  <2> QED BY <1>1, <1>2, <2>1, <2>2, <2>5 DEF u
<1> QED BY <1>3, <1>4

\* A swimmer has legs to go.
LEMMA SwimsOn ==
    ASSUME Legs \in Nat, NEW p, NEW l, Swims(p, l)
    PROVE  Swims(p, l) = TRUE /\ p.legs[l] # Legs /\ l \in Swim(p)
<1>1. p.legs[l] < Legs /\ l \in Swim(p)
  BY DEF Swims
<1>2. p.legs[l] # Legs
  BY <1>1
<1>3. Swims(p, l) = TRUE
  BY DEF Swims
<1> QED BY <1>1, <1>2, <1>3

\* The clock, read: the lanes that swim run on.
LEMMA Gen7ClockRead ==
    ASSUME PoolInv, NEW d \in Decs, NEW c, c = At(pool, FALSE) \/ c = Soon(pool),
           \A l \in Lanes : Gen7Shows(pool, d, l) \/ Awaits(pool, d, l, c),
           \A l \in Lanes : Follows(pool, d, l),
           NEW f, f = FeedGen7(d, c)
    PROVE  /\ f \in Decs /\ SameHeat(f, d) /\ SameAside(f, d) /\ Gen7Lanes(pool, f)
           /\ (\A l \in Lanes : ~Swims(pool, l)) => Finished(f) = Finished(d)
<1>1. c.t = "clock" /\ c.soon \in BOOLEAN
  BY AtIs, SoonIs
<1>2. /\ f \in Decs /\ SameHeat(f, d) /\ SameAside(f, d) /\ f.mods = d.mods /\ Clocks(f, d, c)
  BY <1>1, Gen7ClockFields
<1>3. \A l \in Lanes : Follows(pool, f, l)
  BY <1>2 DEF Follows
<1>4. Legs \in Nat /\ pool.legs \in [Lanes -> 0..Legs]
  BY ConsoleAssumption DEF PoolInv, Pools
<1>5. ASSUME NEW l \in Lanes, Swims(pool, l) PROVE Gen7Shows(pool, f, l)
  <2>1. Swims(pool, l) = TRUE /\ pool.legs[l] # Legs /\ l \in Swim(pool)
    BY <1>4, <1>5, SwimsOn
  <2>2. Following(d, l)
    BY <2>1 DEF Follows, Following
  <2>3. f.running[l] = TRUE
    BY <1>2, <2>2 DEF Clocks
  <2>4. f.splits[l] = pool.legs[l]
    <3>1. CASE Gen7Shows(pool, d, l)
      <4>1. d.running[l] /\ d.splits[l] = pool.legs[l]
        BY <2>1, <3>1 DEF Gen7Shows
      <4> QED BY <1>2, <4>1 DEF Clocks
    <3>2. CASE Awaits(pool, d, l, c)
      <4>1. CASE c = At(pool, FALSE) /\ d.splits[l] = pool.legs[l]
        <5>1. c.soon = FALSE
          BY <4>1, AtIs
        <5> QED BY <1>2, <4>1, <5>1 DEF Clocks
      <4>2. CASE c = Soon(pool) /\ d.splits[l] = pool.legs[l] + 1 /\ d.stop[l] = "fresh"
        <5>1. c.soon = TRUE /\ ~d.running[l]
          BY <3>2, <4>2, SoonIs DEF Awaits
        <5>2. pool.legs[l] \in Nat
          BY <1>4
        <5>3. d.splits[l] > 0 /\ d.splits[l] - 1 = pool.legs[l]
          BY <4>2, <5>2
        <5>4. f.splits[l] = d.splits[l] - 1
          BY <1>2, <2>2, <4>2, <5>1, <5>3 DEF Clocks
        <5> QED BY <5>3, <5>4
      <4> QED BY <3>2, <4>1, <4>2 DEF Awaits
    <3> QED BY <3>1, <3>2
  <2> QED BY <2>1, <2>3, <2>4 DEF Gen7Shows, IsRank
<1>6. ASSUME NEW l \in Lanes, ~Swims(pool, l)
      PROVE  /\ Gen7Shows(pool, f, l) /\ f.running[l] = d.running[l] /\ f.time[l] = d.time[l]
             /\ f.place[l] = d.place[l]
  <2>1. Gen7Shows(pool, d, l)
    BY <1>6 DEF Awaits
  <2>2. ~Following(d, l)
    BY <1>6 DEF Follows, Following
  <2>3. /\ f.running[l] = d.running[l] /\ f.time[l] = d.time[l] /\ f.place[l] = d.place[l]
        /\ f.splits[l] = d.splits[l]
    BY <1>2, <2>2 DEF Clocks
  <2> QED BY <2>1, <2>3, Gen7Other
<1>7. ASSUME \A l \in Lanes : ~Swims(pool, l) PROVE Finished(f) = Finished(d)
  <2>1. \A l \in Lanes : /\ f.running[l] = d.running[l] /\ f.time[l] = d.time[l]
                         /\ f.place[l] = d.place[l]
    BY <1>6, <1>7
  <2>2. f.time = d.time
    BY <1>2, <2>1 DEF Decs
  <2>3. f.place = d.place
    BY <1>2, <2>1 DEF Decs
  <2>4. f.running = d.running
    BY <1>2, <2>1 DEF Decs
  <2>5. f.done = d.done
    BY <1>2 DEF SameAside
  <2> QED BY <2>2, <2>3, <2>4, <2>5, SameFinished
<1>8. Gen7Lanes(pool, f)
  BY <1>3, <1>5, <1>6 DEF Gen7Lanes
<1> QED BY <1>2, <1>7, <1>8

\* A header is of one lane, and no line of the clock.
LEMMA HeadersApart ==
    /\ \A l, k \in Lanes : Header(k) = Header(l) => k = l
    /\ \A l \in Lanes : \A p : Header(l) # At(p, FALSE) /\ Header(l) # Soon(p)
<1>1. ASSUME NEW l \in Lanes, NEW k \in Lanes, Header(k) = Header(l) PROVE k = l
  <2>1. Header(l).line = l
    BY HeaderIs
  <2>2. Header(k).line = k
    BY HeaderIs
  <2> QED BY <1>1, <2>1, <2>2
<1>2. ASSUME NEW l \in Lanes, NEW p PROVE Header(l) # At(p, FALSE) /\ Header(l) # Soon(p)
  <2>1. Header(l).t = "lane"
    BY HeaderIs
  <2>2. At(p, FALSE).t = "clock" /\ Soon(p).t = "clock"
    BY AtIs, SoonIs
  <2> QED BY <2>1, <2>2
<1> QED BY <1>1, <1>2

\* A header, read: its lane follows the clock.
LEMMA Gen7HeaderRead ==
    ASSUME Legs \in Nat, NEW p, NEW w, NEW u, NEW d \in Decs, NEW l \in Lanes, NEW c,
           Gen7Goes(p, w, d, c), Swims(p, l), GoRow(p, u, c), u # <<>>, w # <<>>,
           Msgs(w) \subseteq {Header(l)} \cup Msgs(u),
           NEW f, f = FeedGen7(d, Header(l))
    PROVE  Gen7Goes(p, u, f, c) /\ f.heat = d.heat
<1> DEFINE m == Header(l)
<1>1. f = FeedGen7(d, m) /\ m = Header(l)
  OBVIOUS
<1> HIDE DEF m
<1>2. /\ f \in Decs /\ SameHeat(f, d) /\ SameShown(f, d)
      /\ f.stop = d.stop /\ Others(f.mods, d.mods, l)
      /\ f.mods[l] # NoHalf /\ f.mods[l].running = TRUE
  <2>1. f \in Decs /\ SameHeat(f, d) /\ HeaderLeaves(f, d, l)
    BY <1>1, Gen7HeaderFields
  <2> QED BY <2>1 DEF HeaderLeaves
<1>3. \A k \in Lanes : Gen7Shows(p, d, k) => Gen7Shows(p, f, k)
  BY <1>2, Gen7Other DEF SameShown
<1>4. \A k \in Lanes : Awaits(p, d, k, c) => Awaits(p, f, k, c)
  BY <1>2 DEF Awaits, SameShown
<1>5. Follows(p, f, l)
  <2>1. Swims(p, l) = TRUE
    BY SwimsOn
  <2> QED BY <1>2, <2>1 DEF Follows
<1>6. ASSUME NEW k \in Lanes, k # l
      PROVE  Follows(p, f, k) \/ (Header(k) \in Msgs(u) /\ Stays(f, k))
  <2>1. f.mods[k] = d.mods[k]
    BY <1>2, <1>6 DEF Others
  <2>2. Header(k) \in Msgs(w) => Header(k) \in Msgs(u)
    BY <1>6, HeadersApart
  <2>3. Follows(p, d, k) \/ (Header(k) \in Msgs(w) /\ Stays(d, k))
    BY DEF Gen7Goes
  <2> QED BY <2>1, <2>2, <2>3 DEF Follows, Stays
<1>7. \A k \in Lanes : Gen7Shows(p, f, k) \/ Awaits(p, f, k, c)
  BY <1>3, <1>4 DEF Gen7Goes
<1>8. f.heat = d.heat
  BY <1>2 DEF SameHeat
<1> QED BY <1>5, <1>6, <1>7, <1>8 DEF Gen7Goes

\* Lengths are numbers.
LEMMA LaneNat ==
    ASSUME PoolInv, NEW l \in Lanes
    PROVE  pool.legs[l] \in Nat /\ Legs \in Nat
  BY ConsoleAssumption DEF PoolInv, Pools

\* The lane's flag drops for a moment: a length too many, until the clock takes it back.
LEMMA Gen7FlickRead ==
    ASSUME PoolInv, NEW d \in Decs, NEW l \in Lanes, Swims(pool, l), Gen7Lanes(pool, d),
           NEW f, f = FeedGen7(d, Blank(l)), NEW u, u = <<Header(l), Soon(pool)>>
    PROVE  Gen7Goes(pool, u, f, Soon(pool)) /\ f.heat = d.heat
<1> DEFINE m == Blank(l)
           c == Soon(pool)
           h == Header(l)
<1>1. Says(m, l, 0, 0) /\ m.running = FALSE
  BY BlankIs
<1>2. f = FeedGen7(d, m) /\ u = <<h, c>>
  OBVIOUS
<1> HIDE DEF m
<1>3. /\ LineShown(f, d, l, m) /\ Gen7Counts(f, d, l) /\ f.heat = d.heat
      /\ Others(f.mods, d.mods, l) /\ Stays(f, l)
  <2>1. /\ SameHeat(f, d) /\ LineShown(f, d, l, m) /\ Gen7Counts(f, d, l)
        /\ Others(f.mods, d.mods, l) /\ Stays(f, l)
    BY <1>1, <1>2, Gen7StillFields
  <2> QED BY <2>1 DEF SameHeat
<1>4. f.running[l] = FALSE
  BY <1>1, <1>3 DEF LineShown
<1>5. Swims(pool, l) = TRUE /\ l \in Swim(pool)
  BY SwimsOn, LaneNat
<1>6. d.running[l] /\ d.splits[l] = pool.legs[l]
  BY <1>5 DEF Gen7Lanes, Gen7Shows
<1>7. f.stop[l] = "fresh" /\ f.splits[l] = pool.legs[l] + 1
  BY <1>3, <1>6 DEF Gen7Counts
<1>8. Awaits(pool, f, l, c)
  BY <1>4, <1>7 DEF Awaits
<1>9. ASSUME NEW k \in Lanes \ {l} PROVE Gen7Shows(pool, f, k) /\ Follows(pool, f, k)
  <2>1. Gen7Shows(pool, d, k) /\ Follows(pool, d, k)
    BY DEF Gen7Lanes
  <2>2. /\ f.time[k] = d.time[k] /\ f.place[k] = d.place[k] /\ f.running[k] = d.running[k]
        /\ f.splits[k] = d.splits[k] /\ f.mods[k] = d.mods[k]
    BY <1>3 DEF LineShown, Gen7Counts, Others
  <2> QED BY <2>1, <2>2, Gen7Other DEF Follows
<1>10. GoRow(pool, u, c) /\ u # <<>> /\ Header(l) \in Msgs(u)
  <2>1. h = Header(l) /\ Swims(pool, l)
    OBVIOUS
  <2> SUFFICES GoRow(pool, u, c) /\ u # <<>> /\ h \in Msgs(u)
    OBVIOUS
  <2> HIDE DEF h, c
  <2>2. Len(u) = 2 /\ u[1] = h /\ u[2] = c /\ u # <<>> /\ h \in Msgs(u)
    BY <1>2, MsgsShort
  <2>3. \A i \in 1..(Len(u) - 1) : i = 1
    BY <2>2
  <2>4. \A i \in 1..(Len(u) - 1) : u[i] = h
    BY <2>2, <2>3
  <2> QED BY <2>1, <2>2, <2>4 DEF GoRow
<1> HIDE DEF c
<1>11. Gen7Goes(pool, u, f, c)
  BY <1>3, <1>8, <1>9, <1>10 DEF Gen7Goes
<1> QED BY <1>3, <1>11 DEF c

\* A touch shown: the length counts at once.
LEMMA Gen7StopRead ==
    ASSUME PoolInv, NEW d \in Decs, NEW l \in Lanes, d.running[l], ~Swims(pool, l),
           pool.legs[l] > 0, d.splits[l] = pool.legs[l] - 1,
           \A k \in Lanes \ {l} : Gen7Shows(pool, d, k) /\ Follows(pool, d, k),
           NEW f, f = FeedGen7(d, Stop(pool, l))
    PROVE  f.heat = d.heat /\ f.reset = d.reset /\ Gen7Lanes(pool, f)
<1> DEFINE m == Stop(pool, l)
<1>1. Says(m, l, pool.mark[l], StopPlace(pool, l)) /\ m.running = FALSE
  BY StopIs DEF PoolInv
<1>2. f = FeedGen7(d, m)
  OBVIOUS
<1> HIDE DEF m
<1>3. /\ LineShown(f, d, l, m) /\ Gen7Counts(f, d, l) /\ f.heat = d.heat /\ f.reset = d.reset
      /\ Others(f.mods, d.mods, l) /\ Stays(f, l) /\ f \in Decs
  <2>1. /\ f \in Decs /\ SameHeat(f, d) /\ LineShown(f, d, l, m) /\ Gen7Counts(f, d, l)
        /\ Others(f.mods, d.mods, l) /\ Stays(f, l)
    BY <1>1, <1>2, Gen7StillFields
  <2> QED BY <2>1 DEF SameHeat
<1>4. f.running[l] = FALSE /\ f.time[l] = pool.mark[l] /\ f.place[l] = StopPlace(pool, l)
  BY <1>1, <1>3 DEF LineShown, Says
<1>5. f.splits[l] = pool.legs[l]
  <2>1. f.splits[l] = d.splits[l] + 1
    BY <1>3 DEF Gen7Counts
  <2> QED BY <2>1, LaneNat
<1>6. Swims(pool, l) = FALSE
  BY DEF Swims
<1>7. Gen7Shows(pool, f, l)
  BY <1>4, <1>5, <1>6 DEF Gen7Shows, IsRank, StopPlace
<1>8. Follows(pool, f, l)
  <2>1. f.mods[l] \in Modules
    BY <1>3 DEF Decs, Mods, Stays
  <2>2. f.mods[l].running = FALSE
    BY <1>3, <2>1 DEF Stays, Modules
  <2> QED BY <1>3, <1>6, <2>2 DEF Follows, Stays
<1>9. ASSUME NEW k \in Lanes \ {l} PROVE Gen7Shows(pool, f, k) /\ Follows(pool, f, k)
  <2>1. /\ f.time[k] = d.time[k] /\ f.place[k] = d.place[k] /\ f.running[k] = d.running[k]
        /\ f.splits[k] = d.splits[k] /\ f.mods[k] = d.mods[k]
    BY <1>3 DEF LineShown, Gen7Counts, Others
  <2> QED BY <2>1, Gen7Other DEF Follows
<1> QED BY <1>3, <1>7, <1>8, <1>9 DEF Gen7Lanes

\* One of the messages before the start, read.
LEMMA Gen7ReadyRead ==
    ASSUME PoolInv, DecInv, WireInv, kind = "gen7", pool.heat # 0, Gen7Ready(pool, wire, dec),
           NEW m \in Msgs(wire), NEW u, Msgs(u) \subseteq Msgs(wire),
           Msgs(wire) \subseteq {m} \cup Msgs(u), NEW f, f = FeedGen7(dec, m),
           NEW e, e.heat = f.heat, SameShown(e, f), e.mods = f.mods, e.done = f.done,
           e.reset = (~Finished(f) /\ (f.reset \/ Finished(dec)))
    PROVE  Gen7Ready(pool, u, e)
<1>1. dec \in Decs /\ pool.heat \in Heats /\ kind \in AllKinds
  BY HeatsNat DEF DecInv, PoolInv, Pools, WireInv
<1>2. BlankPool(pool, wire, dec) /\ \A l \in Lanes : Blank(l) \in Msgs(wire) \/ Stays(dec, l)
  BY DEF Gen7Ready
<1>3. (f.reset \/ Finished(dec)) \/ Finished(f) => e.reset \/ Finished(e)
  BY ResetAsked
<1>4. CASE m = Named(pool)
  <2>1. f = NewHeat(dec, pool.heat)
    BY <1>4, NamedIs DEF FeedGen7
  <2>2. f.heat = pool.heat /\ (pool.heat = dec.heat => f = dec)
        /\ (pool.heat # dec.heat => ResetLeaves(f, dec))
    BY <1>1, <2>1, NewHeatFields
  <2>3. (dec.heat # pool.heat => Darkened(e)) /\ e.mods = dec.mods
    BY <2>2 DEF ResetLeaves, Darkened, SameShown
  <2>4. dec.heat = pool.heat =>
            SameShown(e, dec) /\ (dec.reset \/ Finished(dec) => e.reset \/ Finished(e))
    BY <1>3, <2>2
  <2>5. BlankPool(pool, u, e)
    BY <1>2, <1>4, <2>2, <2>3, <2>4, HeatRead
  <2>6. \A l \in Lanes : Blank(l) # m
    BY <1>4, BlankIs, NamedIs DEF Says
  <2>7. \A l \in Lanes : Blank(l) \in Msgs(u) \/ Stays(e, l)
    BY <1>2, <2>3, <2>6 DEF Stays
  <2> QED BY <2>5, <2>7 DEF Gen7Ready
<1>5. ASSUME NEW l \in Lanes, m = Blank(l) PROVE Gen7Ready(pool, u, e)
  <2>1. Says(m, l, 0, 0) /\ m.running = FALSE
    BY <1>5, BlankIs
  <2>2. /\ LineShown(f, dec, l, m) /\ Gen7Counts(f, dec, l) /\ SameHeat(f, dec)
        /\ Others(f.mods, dec.mods, l) /\ Stays(f, l)
    BY <1>1, <2>1, Gen7StillFields
  <2>3. /\ e.heat = dec.heat /\ e.time[l] = 0 /\ e.place[l] = 0 /\ ~e.running[l]
        /\ Others(e.time, dec.time, l) /\ Others(e.place, dec.place, l)
        /\ Others(e.running, dec.running, l)
    BY <2>1, <2>2 DEF LineShown, SameShown, SameHeat, Says
  <2>4. dec.heat = pool.heat => ~dec.running[l]
    BY <1>2 DEF BlankPool
  <2>5. dec.heat = pool.heat => e.splits = dec.splits
    BY <2>2, <2>4 DEF Gen7Counts, SameShown
  <2>6. dec.reset \/ Finished(dec) => e.reset \/ Finished(e)
    BY <1>3, <2>2 DEF SameHeat
  <2>7. Msgs(wire) \subseteq {Blank(l)} \cup Msgs(u)
    BY <1>5
  <2>8. BlankPool(pool, u, e)
    BY <1>2, <2>3, <2>5, <2>6, <2>7, BlankRead
  <2>9. ASSUME NEW k \in Lanes PROVE Blank(k) \in Msgs(u) \/ Stays(e, k)
    <3>1. CASE k = l
      BY <2>2, <3>1 DEF Stays
    <3>2. CASE k # l
      <4>1. Blank(k) # Blank(l)
        BY <3>2, BlankIs DEF Says
      <4> QED BY <1>2, <2>2, <2>7, <3>2, <4>1 DEF Stays, Others
    <3> QED BY <3>1, <3>2
  <2> QED BY <2>8, <2>9 DEF Gen7Ready
<1> QED BY <1>2, <1>4, <1>5 DEF BlankPool

\* The message at the head of a row, read.
LEMMA Gen7RowRead ==
    ASSUME PoolInv, NEW d \in Decs, NEW S, NEW w \in Seq(S), w # <<>>, NEW c,
           c = At(pool, FALSE) \/ c = Soon(pool), Gen7Goes(pool, w, d, c),
           NEW f, f = FeedGen7(d, Head(w))
    PROVE  /\ Gen7Goes(pool, Tail(w), f, c) /\ f.heat = d.heat
           /\ (\A l \in Lanes : ~Swims(pool, l)) =>
                 f.reset = d.reset /\ Finished(f) = Finished(d)
<1> DEFINE u == Tail(w)
           m == Head(w)
<1>1. /\ GoRow(pool, w, c) /\ Legs \in Nat
      /\ \A l \in Lanes : Gen7Shows(pool, d, l) \/ Awaits(pool, d, l, c)
      /\ \A l \in Lanes : Follows(pool, d, l) \/ Header(l) \in Msgs(w)
  BY ConsoleAssumption DEF Gen7Goes
<1>2. Msgs(w) \subseteq {m} \cup Msgs(u) /\ f = FeedGen7(d, m)
  BY MsgsTail
<1>3. \/ m = c /\ u = <<>>
      \/ /\ u # <<>> /\ GoRow(pool, u, c)
         /\ \E l \in Lanes : Swims(pool, l) /\ m = Header(l)
  BY <1>1, GoRowRead
<1> SUFFICES /\ Gen7Goes(pool, u, f, c) /\ f.heat = d.heat
             /\ (\A l \in Lanes : ~Swims(pool, l)) =>
                   f.reset = d.reset /\ Finished(f) = Finished(d)
  OBVIOUS
<1> HIDE DEF u, m
<1>4. CASE m = c /\ u = <<>>
  <2>1. Msgs(w) \subseteq {c}
    BY <1>2, <1>4, MsgsShort
  <2>2. \A l \in Lanes : Header(l) # c
    BY HeadersApart
  <2>3. \A l \in Lanes : Follows(pool, d, l)
    BY <1>1, <2>1, <2>2
  <2>4. f = FeedGen7(d, c)
    BY <1>2, <1>4
  <2>5. /\ SameHeat(f, d) /\ Gen7Lanes(pool, f)
        /\ (\A l \in Lanes : ~Swims(pool, l)) => Finished(f) = Finished(d)
    BY <1>1, <2>3, <2>4, Gen7ClockRead
  <2>6. Gen7Goes(pool, <<>>, f, c)
    BY <2>5, Gen7AllGo
  <2> QED BY <1>4, <2>5, <2>6 DEF SameHeat
<1>5. ASSUME NEW l \in Lanes, Swims(pool, l), m = Header(l), u # <<>>, GoRow(pool, u, c)
      PROVE  Gen7Goes(pool, u, f, c) /\ f.heat = d.heat
  <2>1. f = FeedGen7(d, Header(l)) /\ Msgs(w) \subseteq {Header(l)} \cup Msgs(u)
    BY <1>2, <1>5
  <2> QED BY <1>1, <1>5, <2>1, Gen7HeaderRead
<1> QED BY <1>3, <1>4, <1>5

\* A message of a Gen7, delivered.
LEMMA Gen7Deliver ==
    ASSUME PoolInv, DecInv, WireInv, kind = "gen7", pool.heat # 0,
           Gen7Hears(pool, wire, dec), Deliver
    PROVE  Gen7Hears(pool, wire', dec')
<1> DEFINE m == Head(wire)
           f == Fed(dec, m)
<1>1. wire # <<>> /\ wire' = Tail(wire) /\ dec' = Apply(f) /\ UNCHANGED <<kind, known, pool>>
  BY DEF Deliver, Quiet
<1>2. SayableBy(pool, m)
  BY <1>1, HeadHeard
<1>3. Fit(f)
  BY <1>2, Gen7Fed
<1>4. /\ dec'.heat = f.heat /\ SameAside(dec', f) /\ SameShown(dec', f) /\ SameRest(dec', f)
      /\ dec'.reset = (~Finished(f) /\ (f.reset \/ Finished(dec)))
  BY <1>1, <1>3, DecKept
<1>5. f = FeedGen7(dec, m) /\ dec \in Decs /\ wire \in Seq(Msgs(wire))
  BY FedIs DEF DecInv, WireInv
<1>6. m \in Msgs(wire) /\ Msgs(wire') \subseteq Msgs(wire)
      /\ Msgs(wire) \subseteq {m} \cup Msgs(wire')
  BY <1>1, <1>5, MsgsTail
<1>7. dec'.stop = f.stop /\ dec'.mods = f.mods /\ dec'.done = f.done
  BY <1>4 DEF SameRest, SameAside
<1> HIDE DEF f
<1>8. CASE pool.phase = "ready"
  <2>1. Gen7Ready(pool, wire, dec)
    BY <1>8, Gen7ReadyHears
  <2> HIDE DEF m
  <2>2. Gen7Ready(pool, wire', dec')
    BY <1>4, <1>5, <1>6, <1>7, <2>1, Gen7ReadyRead
  <2> QED BY <1>8, <2>2, Gen7ReadyHears
<1>9. CASE pool.phase # "ready"
  <2>1. /\ dec.heat = pool.heat /\ Going(pool, dec)
        /\ \/ Gen7Goes(pool, wire, dec, At(pool, FALSE)) \/ Gen7Goes(pool, wire, dec, Soon(pool))
           \/ \E l \in Swim(pool) : Gen7FlickHeard(pool, wire, dec, l)
           \/ \E l \in Swim(pool) : Gen7TouchHeard(pool, wire, dec, l)
    BY <1>9, Gen7RaceHears
  <2>2. ASSUME NEW c, c = At(pool, FALSE) \/ c = Soon(pool), f.heat = dec.heat,
               Gen7Goes(pool, wire', f, c), dec'.reset => \E l \in Lanes : Swims(pool, l)
        PROVE  Gen7Hears(pool, wire', dec')
    <3>1. Gen7Goes(pool, wire', dec', c)
      BY <1>4, <1>7, <2>2, Gen7GoesKept
    <3>2. Going(pool, dec') /\ dec'.heat = pool.heat
      BY <1>4, <2>1, <2>2 DEF Going
    <3> QED BY <1>9, <2>2, <3>1, <3>2, Gen7RaceHears
  <2>3. ASSUME NEW c, c = At(pool, FALSE) \/ c = Soon(pool), Gen7Goes(pool, wire, dec, c)
        PROVE  Gen7Hears(pool, wire', dec')
    <3>1. /\ Gen7Goes(pool, wire', f, c) /\ f.heat = dec.heat
          /\ (\A l \in Lanes : ~Swims(pool, l)) =>
                f.reset = dec.reset /\ Finished(f) = Finished(dec)
      BY <1>1, <1>5, <2>3, Gen7RowRead
    <3>2. dec'.reset => \E l \in Lanes : Swims(pool, l)
      BY <1>4, <2>1, <3>1 DEF Going
    <3> QED BY <2>2, <2>3, <3>1, <3>2
  <2>4. ASSUME NEW l \in Swim(pool), Gen7FlickHeard(pool, wire, dec, l)
        PROVE  Gen7Hears(pool, wire', dec')
    <3>1. l \in Lanes
      BY InHeatIs
    <3>2. Swims(pool, l) /\ Gen7Lanes(pool, dec)
      BY <2>4 DEF Gen7FlickHeard, Gen7Lanes
    <3> DEFINE a == Blank(l)
               b == Header(l)
               c == Soon(pool)
    <3>3. wire = <<a, b, c>>
      BY <2>4 DEF Gen7FlickHeard
    <3> HIDE DEF a, b, c
    <3>4. m = a /\ wire' = <<b, c>>
      BY <1>1, <3>3
    <3> HIDE DEF m
    <3>5. f = FeedGen7(dec, Blank(l)) /\ wire' = <<Header(l), Soon(pool)>>
      BY <1>5, <3>4 DEF a, b, c
    <3>6. Gen7Goes(pool, wire', f, Soon(pool)) /\ f.heat = dec.heat
      BY <1>5, <3>1, <3>2, <3>5, Gen7FlickRead
    <3> QED BY <2>2, <3>1, <3>2, <3>6
  <2>5. ASSUME NEW l \in Swim(pool), Gen7TouchHeard(pool, wire, dec, l)
        PROVE  Gen7Hears(pool, wire', dec')
    <3> DEFINE s == Stop(pool, l)
    <3>1. l \in Lanes
      BY InHeatIs
    <3>2. /\ ~dec.reset /\ pool.legs[l] > 0 /\ dec.splits[l] = pool.legs[l] - 1
          /\ ~Swims(pool, l) /\ dec.running[l]
          /\ \A k \in Lanes \ {l} : Gen7Shows(pool, dec, k) /\ Follows(pool, dec, k)
      BY <2>5 DEF Gen7TouchHeard
    <3>3. wire = <<s>>
      BY <2>5 DEF Gen7TouchHeard
    <3> HIDE DEF s
    <3>4. m = s /\ wire' = <<>>
      BY <1>1, <3>3
    <3> HIDE DEF m
    <3>5. f = FeedGen7(dec, Stop(pool, l))
      BY <1>5, <3>4 DEF s
    <3>6. f.heat = dec.heat /\ f.reset = dec.reset /\ Gen7Lanes(pool, f)
      BY <1>5, <3>1, <3>2, <3>5, Gen7StopRead
    <3>7. ~Finished(dec)
      BY <3>1, <3>2 DEF Finished
    <3>8. ~dec'.reset
      BY <1>4, <3>2, <3>6, <3>7
    <3>9. Gen7Goes(pool, wire', f, At(pool, FALSE))
      BY <3>4, <3>6, Gen7AllGo
    <3> QED BY <2>2, <3>6, <3>8, <3>9
  <2> QED BY <2>1, <2>3, <2>4, <2>5
<1> QED BY <1>8, <1>9

\* The decoder of a Gen7 alone, with nothing on the wire.
LEMMA Gen7Idle ==
    ASSUME PoolInv, DecInv, WireInv, kind = "gen7", pool.heat # 0,
           Gen7Hears(pool, wire, dec), Tick \/ BoardIsReset
    PROVE  Gen7Hears(pool, wire', dec')
<1>1. wire = <<>> /\ wire' = <<>> /\ UNCHANGED <<kind, known, pool>>
  BY DEF Tick, BoardIsReset, Quiet, consoleVars
<1>2. dec \in Decs
  BY DEF DecInv
<1>3. Msgs(wire') = {}
  BY <1>1, MsgsShort
<1>4. CASE pool.phase = "ready"
  <2>0. BoardIsReset
    BY <1>4 DEF Tick, RTD, Swiss
  <2>1. Gen7Ready(pool, <<>>, dec)
    BY <1>1, <1>4, Gen7ReadyHears
  <2>2. /\ dec.heat = pool.heat
        /\ \A l \in Lanes : ~dec.running[l] /\ dec.time[l] = 0 /\ Stays(dec, l)
    <3>1. dec.heat = pool.heat /\ \A l \in Lanes : ~dec.running[l] /\ dec.time[l] = 0
      BY <2>1, BlankHeard DEF Gen7Ready, CTS
    <3>2. \A l \in Lanes : Stays(dec, l)
      BY <1>1, <1>3, <2>1 DEF Gen7Ready
    <3> QED BY <3>1, <3>2
  <2>3. ~Finished(dec) /\ dec.running = Still
    BY <1>2, <2>2 DEF Finished, Still, Decs
  <2> DEFINE d == ResetLanes(dec)
  <2>4. dec' = [d EXCEPT !.reset = FALSE]
    BY <2>0, <2>3 DEF BoardIsReset
  <2>5. d \in Decs /\ ResetLeaves(d, dec) /\ d.heat = dec.heat
    BY <1>2, ResetFields DEF AllKinds, CTS
  <2> HIDE DEF d
  <2>6. dec'.heat = d.heat /\ SameShown(dec', d) /\ dec'.mods = d.mods
    BY <2>4, <2>5 DEF Decs, SameShown
  <2>7. Darkened(dec') /\ dec'.heat = pool.heat /\ dec'.mods = dec.mods
    BY <2>2, <2>5, <2>6 DEF ResetLeaves, Darkened, SameShown
  <2>8. \A k \in Lanes : dec'.time[k] = 0 /\ ~dec'.running[k] /\ dec'.splits[k] = 0
    BY <2>7, DarkCounted
  <2>9. \A k \in Lanes : Stays(dec', k)
    BY <2>2, <2>7 DEF Stays
  <2>10. Gen7Ready(pool, wire', dec')
    BY <1>3, <2>7, <2>8, <2>9 DEF Gen7Ready, BlankPool, Splitless
  <2> QED BY <1>4, <2>10, Gen7ReadyHears
<1>5. CASE pool.phase # "ready"
  <2>1. dec.heat = pool.heat /\ Going(pool, dec) /\ Gen7Lanes(pool, dec)
    BY <1>1, <1>5, Gen7RaceHeard
  <2>2. ASSUME Gen7Lanes(pool, dec'), Going(pool, dec'), dec'.heat = dec.heat
        PROVE  Gen7Hears(pool, wire', dec')
    <3>1. Gen7Goes(pool, wire', dec', At(pool, FALSE))
      BY <1>1, <2>2, Gen7AllGo
    <3> QED BY <1>5, <2>1, <2>2, <3>1, Gen7RaceHears
  <2>3. CASE BoardIsReset
    <3>1. dec.running # Still
      <4>1. PICK l \in Lanes : Swims(pool, l)
        BY <2>1, <2>3 DEF Going, BoardIsReset
      <4>2. dec.running[l]
        BY <2>1, <4>1 DEF Gen7Lanes, Gen7Shows
      <4> QED BY <4>2 DEF Still
    <3>2. dec' = [dec EXCEPT !.reset = FALSE]
      BY <2>3, <3>1 DEF BoardIsReset
    <3>3. dec'.heat = dec.heat /\ SameShown(dec', dec) /\ dec'.mods = dec.mods /\ ~dec'.reset
      BY <1>2, <3>2 DEF Decs, SameShown
    <3> QED BY <2>1, <2>2, <3>3, Gen7LanesKept DEF Going
  <2>4. CASE Tick
    <3> DEFINE c == At(pool, FALSE)
               f == Fed(dec, c)
    <3>1. dec' = Apply(f)
      BY <1>5, <2>4 DEF Tick, At
    <3>2. SayableBy(pool, c)
      BY Gen7Says
    <3>3. f = FeedGen7(dec, c) /\ Fit(f)
      BY <3>2, FedIs, Gen7Fed
    <3>4. /\ dec'.heat = f.heat /\ SameShown(dec', f) /\ SameRest(dec', f)
          /\ dec'.reset = (~Finished(f) /\ (f.reset \/ Finished(dec)))
      BY <1>1, <3>1, <3>3, DecKept
    <3> HIDE DEF f
    <3>5. /\ SameHeat(f, dec) /\ Gen7Lanes(pool, f)
          /\ (\A l \in Lanes : ~Swims(pool, l)) => Finished(f) = Finished(dec)
      BY <1>2, <2>1, <3>3, Gen7ClockRead DEF Gen7Lanes
    <3>6. f.heat = dec.heat /\ f.reset = dec.reset
      BY <3>5 DEF SameHeat
    <3>7. Gen7Lanes(pool, dec')
      BY <3>4, <3>5, Gen7LanesKept DEF SameRest
    <3>8. Going(pool, dec')
      BY <2>1, <3>4, <3>5, <3>6 DEF Going
    <3> QED BY <2>2, <3>4, <3>6, <3>7, <3>8
  <2> QED BY <2>3, <2>4
<1> QED BY <1>4, <1>5

\* A heat made ready.
LEMMA Gen7ReadySent ==
    ASSUME PoolInv, DecInv, WireInv, kind = "gen7", wire = <<>>,
           UNCHANGED <<kind, full, known, dec>>, NextHeat \/ Reswim
    PROVE  /\ WireInv' /\ (NextHeat \/ (pool.heat # 0 /\ lost' = lost))
           /\ NextHeat \/ Gen7Hears(pool, wire, dec) => Gen7Hears(pool', wire', dec')
<1>1. /\ WireInv' /\ pool'.phase = "ready"
      /\ Reswim => pool.heat # 0 /\ lost' = lost /\ pool.phase = "over"
      /\ NextHeat => dec.heat # pool'.heat
      /\ \A l \in Lanes : Blank(l) \in Msgs(wire')
      /\ \/ NextHeat
         \/ dec.heat = pool.heat /\ Finished(dec)
            /\ \A l \in Lanes : ~dec.running[l] /\ (dec.time[l] # 0 => dec.place[l] # 0)
         => BlankPool(pool', wire', dec)
  BY CtsReadySent DEF CTS
<1>2. BlankPool(pool', wire', dec) => Gen7Hears(pool', wire', dec)
  <2> SUFFICES ASSUME BlankPool(pool', wire', dec) PROVE Gen7Hears(pool', wire', dec)
    OBVIOUS
  <2>1. Gen7Ready(pool', wire', dec)
    BY <1>1 DEF Gen7Ready
  <2> QED BY <1>1, <2>1, Gen7ReadyHears
<1>3. CASE NextHeat
  BY <1>1, <1>2, <1>3
<1>4. ASSUME Reswim, Gen7Hears(pool, wire, dec) PROVE Gen7Hears(pool', wire', dec')
  <2>1. dec.heat = pool.heat /\ Gen7Lanes(pool, dec)
    BY <1>1, <1>4, Gen7RaceHeard
  <2>2. \A l \in Lanes : ~Swims(pool, l)
    BY <1>1, <1>4, AllOver
  <2>3. \A l \in Lanes : /\ ~dec.running[l] /\ dec.time[l] = pool.mark[l]
                         /\ IsRank(pool, dec, l)
    BY <2>1, <2>2 DEF Gen7Lanes, Gen7Shows
  <2>4. Finished(dec) /\ \A l \in Lanes : dec.time[l] # 0 => dec.place[l] # 0
    BY <1>1, <1>4, <2>3, SwumFinished
  <2>5. BlankPool(pool', wire', dec)
    BY <1>1, <2>1, <2>3, <2>4
  <2> QED BY <1>2, <2>5
<1> QED BY <1>1, <1>3, <1>4

\* Headers of swimmers, and the clock after them.
LEMMA RowSent ==
    ASSUME NEW p, NEW c, NEW u, u \in Seq(Msgs(u)),
           \A m \in Msgs(u) : \E l \in Lanes : Swims(p, l) /\ m = Header(l),
           NEW w, w = u \o <<c>>
    PROVE  /\ w \in Seq(Msgs(w)) /\ Msgs(w) = Msgs(u) \cup {c} /\ w # <<>>
           /\ GoRow(p, w, c)
<1> DEFINE v == <<c>>
           S == Msgs(u) \cup {c}
<1>1. v \in Seq(Msgs(v)) /\ Msgs(v) = {c} /\ v \in Seq(S) /\ Len(v) = 1 /\ v[1] = c
  BY ShortIsSeq, MsgsShort
<1>2. w = u \o v /\ u \in Seq(S)
  OBVIOUS
<1> HIDE DEF v, S
<1>3. w \in Seq(Msgs(w)) /\ Msgs(w) = Msgs(u) \cup {c}
  BY <1>1, <1>2, MsgsConcat
<1>4. /\ Len(w) = Len(u) + Len(v) /\ Len(u) \in Nat
      /\ \A i \in 1..Len(u) : w[i] = u[i]
      /\ \A i \in 1..Len(v) : w[Len(u) + i] = v[i]
  <2>1. u \in Seq(S) /\ v \in Seq(S)
    BY <1>1, <1>2
  <2> QED BY <1>2, <2>1
<1>5. Len(w) = Len(u) + 1 /\ w[Len(u) + 1] = c /\ w # <<>>
  BY <1>1, <1>4
<1>6. \A i \in 1..Len(u) : u[i] \in Msgs(u)
  BY DEF Msgs
<1>7. w[Len(w)] = c /\ \A i \in 1..(Len(w) - 1) : i \in 1..Len(u)
  BY <1>4, <1>5
<1>8. \A i \in 1..(Len(w) - 1) : w[i] \in Msgs(u)
  BY <1>4, <1>6, <1>7
<1>9. GoRow(p, w, c)
  BY <1>7, <1>8 DEF GoRow
<1> QED BY <1>3, <1>5, <1>9

\* A lane at rest follows no clock.
LEMMA RestFollows ==
    ASSUME NEW d \in Decs, NEW l \in Lanes, Stays(d, l), NEW p, Swims(p, l) = FALSE
    PROVE  Follows(p, d, l)
<1>1. d.mods[l] \in Modules
  BY DEF Decs, Mods, Stays
<1>2. d.mods[l].running = FALSE
  BY <1>1 DEF Stays, Modules
<1> QED BY <1>2 DEF Follows, Stays

\* The start, sent.
LEMMA Gen7StartSent ==
    ASSUME PoolInv, DecInv, WireInv, kind = "gen7", wire = <<>>, Settled,
           UNCHANGED <<kind, full, known, dec>>, Start
    PROVE  /\ WireInv' /\ pool.heat # 0 /\ lost' = lost
           /\ Gen7Hears(pool, wire, dec) => Gen7Hears(pool', wire', dec')
<1>1. /\ SameSwum(pool, pool') /\ pool'.phase = "racing" /\ pool.phase = "ready"
      /\ pool.heat # 0 /\ pool'.heat > 0 /\ lost' = lost
  BY StartPool, HeatsNat DEF PoolInv, Pools, SameSwum, Start
<1>2. InHeat = Swim(pool) /\ InHeat \in SUBSET Lanes
  BY <1>1, InHeatIs
<1> DEFINE g == [l \in Lanes |-> Header(l)]
           c == At(pool', FALSE)
           u == [i \in 1..Len(SetToSeq(InHeat)) |-> g[SetToSeq(InHeat)[i]]]
<1>3. wire' = u \o <<c>>
  <2> DEFINE s == SetToSeq(InHeat)
             v == [i \in 1..Len(s) |-> Header(s[i])]
  <2>1. wire' = v \o <<c>>
    BY DEF Start, Send, Starts, Clock, At, RTD, Swiss
  <2>2. s \in Seq(InHeat)
    BY <1>2, LanesInTurn
  <2> SUFFICES v = u
    BY <2>1
  <2> HIDE DEF s
  <2>3. \A i \in 1..Len(s) : s[i] \in Lanes
    BY <1>2, <2>2
  <2>4. v = [i \in 1..Len(s) |-> g[s[i]]]
    BY <2>3
  <2> QED BY <2>4 DEF s
<1>4. DOMAIN g = Lanes /\ \A l \in Lanes : g[l] = Header(l)
  OBVIOUS
<1> HIDE DEF g
<1>5. u \in Seq(Msgs(u)) /\ Msgs(u) = {g[l] : l \in InHeat}
  BY <1>2, <1>4, MsgsInTurn
<1>6. Msgs(u) = {Header(l) : l \in InHeat}
  BY <1>2, <1>4, <1>5
<1> HIDE DEF u
<1>7. /\ \A l \in Lanes : pool.mark[l] = 0 /\ pool.legs[l] # Legs /\ pool.legs[l] = 0
                          /\ Swims(pool, l) = (l \in Swim(pool))
      /\ \E l \in Lanes : Swims(pool, l)
  <2>1. pool.out = {} /\ \A l \in Lanes : pool.legs[l] = 0
    BY <1>1 DEF PoolInv
  <2> QED BY <1>1, <2>1, NobodyTouched
<1>8. \A l \in Lanes : /\ pool'.mark[l] = 0 /\ pool'.legs[l] # Legs /\ pool'.legs[l] = 0
                       /\ Swims(pool', l) = (l \in Swim(pool))
  BY <1>1, <1>7 DEF SameSwum, Swims, Swim
<1>9. \A m \in Msgs(u) : \E l \in Lanes : Swims(pool', l) /\ m = Header(l)
  BY <1>2, <1>6, <1>8
<1>10. /\ wire' \in Seq(Msgs(wire')) /\ Msgs(wire') = Msgs(u) \cup {c} /\ wire' # <<>>
       /\ GoRow(pool', wire', c)
  BY ZenonT(30), <1>3, <1>5, <1>9, RowSent
<1>11. WireInv'
  <2>1. \A m \in Msgs(wire') : SayableBy(pool', m)
    BY <1>2, <1>6, <1>10, Gen7Says
  <2> QED BY <1>1, <1>10, <2>1, WireSent
<1>12. ASSUME Gen7Hears(pool, wire, dec) PROVE Gen7Hears(pool', wire', dec')
  <2>1. Gen7Ready(pool, <<>>, dec)
    BY <1>1, <1>12, Gen7ReadyHears
  <2>2. /\ dec.heat = pool.heat /\ (Splitless(dec) \/ dec.reset)
        /\ \A l \in Lanes : ~dec.running[l] /\ dec.time[l] = 0
    BY <2>1, BlankHeard DEF Gen7Ready, CTS
  <2>3. \A l \in Lanes : Stays(dec, l)
    <3>1. Msgs(<<>>) = {}
      BY MsgsShort
    <3> QED BY <2>1, <3>1 DEF Gen7Ready
  <2>4. ~dec.reset /\ \A l \in Lanes : dec.splits[l] = 0
    BY <1>1, <2>2 DEF Settled, Splitless
  <2>5. Swim(pool') = Swim(pool)
    BY <1>1 DEF SameSwum, Swim
  <2>6. ASSUME NEW l \in Lanes, l \in Swim(pool)
        PROVE  Awaits(pool', dec, l, c) /\ Header(l) \in Msgs(wire')
    BY <1>2, <1>6, <1>8, <1>10, <2>2, <2>4, <2>6 DEF Awaits
  <2>7. ASSUME NEW l \in Lanes, l \notin Swim(pool)
        PROVE  Gen7Shows(pool', dec, l) /\ Follows(pool', dec, l)
    <3>1. dec.running[l] = FALSE /\ Swims(pool', l) = FALSE
      <4>1. dec.running[l] \in BOOLEAN
        BY DEF DecInv, Decs
      <4> QED BY <1>8, <2>2, <2>7, <4>1
    <3>2. Follows(pool', dec, l)
      BY <2>3, <3>1, RestFollows DEF DecInv
    <3> QED BY <1>8, <2>2, <2>5, <2>7, <3>1, <3>2 DEF Gen7Shows, IsRank
  <2> HIDE DEF c
  <2>8. Gen7Goes(pool', wire', dec, c)
    BY <1>10, <2>3, <2>6, <2>7 DEF Gen7Goes
  <2>9. dec.heat = pool'.heat /\ Going(pool', dec) /\ dec' = dec /\ pool'.phase # "ready"
    BY <1>1, <2>2, <2>4 DEF Going, SameSwum
  <2>10. Gen7Hears(pool', wire', dec)
    BY <2>8, <2>9, Gen7RaceHears DEF c
  <2> QED BY <2>9, <2>10
<1> QED BY <1>1, <1>11, <1>12

\* A lane the console's step does not move.
LEMMA Gen7LaneMoved ==
    ASSUME NEW p, NEW q, NEW d, NEW k, Gen7Shows(p, d, k) /\ Follows(p, d, k),
           q.heat = p.heat,
           Swims(q, k) = Swims(p, k), q.legs[k] = p.legs[k], q.mark[k] = p.mark[k],
           p.legs[k] = Legs => RankIn(q, k) = RankIn(p, k)
    PROVE  Gen7Shows(q, d, k) /\ Follows(q, d, k)
  BY DEF Gen7Shows, Follows, IsRank, Swim

\* The lanes are as they were swum, the pool in another phase or not.
LEMMA Gen7SameLanes ==
    ASSUME NEW p, NEW q, SameSwum(p, q), NEW d, Gen7Lanes(p, d)
    PROVE  Gen7Lanes(q, d)
<1> SUFFICES ASSUME NEW k \in Lanes PROVE Gen7Shows(q, d, k) /\ Follows(q, d, k)
  BY DEF Gen7Lanes
<1>1. RankIn(q, k) = RankIn(p, k) /\ Swims(q, k) = Swims(p, k)
  BY SameSwumRank DEF SameSwum, Swims, Swim
<1>2. q.legs[k] = p.legs[k] /\ q.mark[k] = p.mark[k] /\ q.heat = p.heat
  BY DEF SameSwum
<1>3. Gen7Shows(p, d, k) /\ Follows(p, d, k)
  BY DEF Gen7Lanes
<1> QED BY <1>1, <1>2, <1>3, Gen7LaneMoved

\* A touch, sent.
LEMMA Gen7TouchSent ==
    ASSUME PoolInv, DecInv, WireInv, kind = "gen7", wire = <<>>, Settled, ~SlowReset,
           UNCHANGED <<kind, full, known, dec>>, NEW l \in Lanes, Touch(l), PoolInv'
    PROVE  /\ WireInv' /\ pool.heat # 0 /\ lost' = lost
           /\ Gen7Hears(pool, wire, dec) => Gen7Hears(pool', wire', dec')
<1>1. /\ pool' \in Pools /\ Touched(pool, pool', l) /\ pool.phase = "racing"
      /\ pool.heat # 0 /\ Swims(pool, l) /\ pool'.heat > 0 /\ lost' = lost
  <2>1. lost' = lost
    BY DEF Touch
  <2> QED BY <2>1, TouchMoves, HeatsNat DEF PoolInv, Pools, Touched
<1> DEFINE m == Stop(pool', l)
<1>2. wire' = <<m>>
  BY DEF Touch, Send, Touches, RTD, Swiss, Stop
<1>3. SayableBy(pool', m)
  <2>1. Says(m, l, pool'.mark[l], StopPlace(pool', l)) /\ m.running = FALSE
    BY <1>1, StopIs
  <2> HIDE DEF m
  <2>2. /\ m \in Modules /\ m.line = m.lane /\ m.running = FALSE /\ m.digits = TRUE
    BY <2>1 DEF Says
  <2> QED BY <2>2, Gen7Says
<1> HIDE DEF m
<1>4. WireInv'
  <2>1. wire' \in Seq(Msgs(wire')) /\ \A n \in Msgs(wire') : SayableBy(pool', n)
    BY <1>2, <1>3, OneSaid
  <2> QED BY <1>1, <2>1, WireSent
<1>5. ASSUME Gen7Hears(pool, wire, dec) PROVE Gen7Hears(pool', wire', dec')
  <2>1. /\ dec.heat = pool.heat /\ Going(pool, dec) /\ Gen7Lanes(pool, dec)
    BY <1>1, <1>5, Gen7RaceHeard
  <2>2. ~dec.reset
    BY <1>1 DEF Settled, Touched, PoolInv, Pools
  <2>3. /\ l \in Swim(pool) /\ pool.legs[l] < Legs /\ pool.legs[l] \in Nat /\ Legs \in Nat
        /\ pool'.legs[l] = pool.legs[l] + 1 /\ Swim(pool') = Swim(pool)
    BY <1>1, ConsoleAssumption DEF Touched, Swim, Swims, PoolInv, Pools
  <2>4. \A k \in Lanes \ {l} : Gen7Shows(pool', dec, k) /\ Follows(pool', dec, k)
    <3> SUFFICES ASSUME NEW k \in Lanes \ {l}
                 PROVE  Gen7Shows(pool', dec, k) /\ Follows(pool', dec, k)
      OBVIOUS
    <3>1. pool.legs[k] = Legs => RankIn(pool', k) = RankIn(pool, k)
      BY <1>1, <2>3, TouchRank
    <3>2. Swims(pool', k) = Swims(pool, k)
      BY <1>1 DEF Touched, Swims, Swim
    <3>3. /\ pool'.legs[k] = pool.legs[k] /\ pool'.mark[k] = pool.mark[k]
          /\ pool'.heat = pool.heat
      BY <1>1 DEF Touched
    <3>4. Gen7Shows(pool, dec, k) /\ Follows(pool, dec, k)
      BY <2>1 DEF Gen7Lanes
    <3> QED BY <3>1, <3>2, <3>3, <3>4, Gen7LaneMoved
  <2>5. dec.running[l] /\ dec.splits[l] = pool.legs[l]
    BY <1>1, <2>1, <2>3 DEF Gen7Lanes, Gen7Shows
  <2>6. pool'.legs[l] > 0 /\ dec.splits[l] = pool'.legs[l] - 1
    BY <2>3, <2>5
  <2>7. ~Swims(pool', l)
    <3>1. pool'.legs[l] < Legs => pool'.wall[l] = LineOf(pool', l)
      BY <1>1 DEF Touched, CTS
    <3>2. LineOf(pool', l) # 0
      BY LineType, LanesFinite
    <3> QED BY <3>1, <3>2 DEF Swims
  <2>8. Gen7TouchHeard(pool', wire', dec, l)
    BY <1>2, <2>2, <2>4, <2>5, <2>6, <2>7 DEF Gen7TouchHeard, m
  <2>9. dec.heat = pool'.heat /\ Going(pool', dec) /\ dec' = dec /\ pool'.phase # "ready"
    BY <1>1, <2>1, <2>2, <2>3 DEF Going, Touched
  <2>10. \E k \in Swim(pool') : Gen7TouchHeard(pool', wire', dec, k)
    BY <2>3, <2>8
  <2>11. Gen7Hears(pool', wire', dec)
    BY <2>1, <2>9, <2>10, Gen7RaceHears
  <2> QED BY <2>9, <2>11
<1> QED BY <1>1, <1>4, <1>5

\* The lane shown stopped goes on: its header, and the clock.
LEMMA Gen7GoesOnSent ==
    ASSUME PoolInv, DecInv, WireInv, kind = "gen7", wire = <<>>,
           UNCHANGED <<kind, full, known, dec>>, NEW l \in Lanes, GoesOn(l)
    PROVE  /\ WireInv' /\ pool.heat # 0 /\ lost' = lost
           /\ Gen7Hears(pool, wire, dec) => Gen7Hears(pool', wire', dec')
<1>1. /\ WentOn(pool, pool', l) /\ pool.heat # 0 /\ pool.phase = "racing"
      /\ l \in Swim(pool) /\ Swims(pool', l) /\ lost' = lost /\ pool'.heat > 0
      /\ pool.wall[l] # 0
  <2>1. lost' = lost /\ pool.wall[l] # 0
    BY DEF GoesOn
  <2> QED BY <2>1, GoesOnPool, HeatsNat DEF PoolInv, Pools, WentOn
<1> DEFINE h == Header(l)
           c == At(pool', FALSE)
           u == <<h>>
<1>2. wire' = u \o <<c>>
  <2>1. wire' = <<h, c>>
    BY DEF GoesOn, Send, Clock, At, Swiss
  <2> HIDE DEF h, c
  <2>2. <<h>> \o <<c>> = <<h, c>>
    BY PairSent
  <2> QED BY <2>1, <2>2
<1>3. SayableBy(pool', h) /\ SayableBy(pool', c) /\ h = Header(l)
  BY Gen7Says
<1> HIDE DEF h
<1>4. u \in Seq(Msgs(u)) /\ Msgs(u) = {h}
  BY MsgsShort, ShortIsSeq
<1>5. \A m \in Msgs(u) : \E k \in Lanes : Swims(pool', k) /\ m = Header(k)
  BY <1>1, <1>3, <1>4
<1> HIDE DEF u
<1>6. /\ wire' \in Seq(Msgs(wire')) /\ Msgs(wire') = {h, c} /\ wire' # <<>>
      /\ GoRow(pool', wire', c)
  <2>1. /\ wire' \in Seq(Msgs(wire')) /\ Msgs(wire') = Msgs(u) \cup {c} /\ wire' # <<>>
        /\ GoRow(pool', wire', c)
    <3>1. u \in Seq(Msgs(u))
      BY <1>4
    <3> QED BY <1>2, <1>5, <3>1, RowSent
  <2> QED BY <1>4, <2>1
<1>7. WireInv'
  BY <1>1, <1>3, <1>6, WireSent
<1>8. ASSUME Gen7Hears(pool, wire, dec) PROVE Gen7Hears(pool', wire', dec')
  <2>1. /\ dec.heat = pool.heat /\ Going(pool, dec) /\ Gen7Lanes(pool, dec)
    BY <1>1, <1>8, Gen7RaceHeard
  <2>2. \A k \in Lanes \ {l} : Gen7Shows(pool', dec, k) /\ Follows(pool', dec, k)
    <3> SUFFICES ASSUME NEW k \in Lanes \ {l}
                 PROVE  Gen7Shows(pool', dec, k) /\ Follows(pool', dec, k)
      OBVIOUS
    <3>1. RankIn(pool', k) = RankIn(pool, k)
      BY <1>1, WentOnRank
    <3>2. Swims(pool', k) = Swims(pool, k)
      BY <1>1 DEF WentOn, Swims, Swim
    <3>3. /\ pool'.legs[k] = pool.legs[k] /\ pool'.mark[k] = pool.mark[k]
          /\ pool'.heat = pool.heat
      BY <1>1 DEF WentOn
    <3>4. Gen7Shows(pool, dec, k) /\ Follows(pool, dec, k)
      BY <2>1 DEF Gen7Lanes
    <3> QED BY <3>1, <3>2, <3>3, <3>4, Gen7LaneMoved
  <2>3. Gen7Shows(pool, dec, l) /\ Follows(pool, dec, l)
    BY <2>1 DEF Gen7Lanes
  <2>4. Swims(pool, l) = FALSE
    BY <1>1 DEF Swims
  <2>5. ~dec.running[l] /\ Stays(dec, l) /\ dec.splits[l] = pool'.legs[l]
    BY <1>1, <2>3, <2>4 DEF Gen7Shows, Follows, Stays, WentOn
  <2>6. Awaits(pool', dec, l, c)
    BY <1>1, <2>5 DEF Awaits, c
  <2>7. Gen7Goes(pool', wire', dec, c)
    BY <1>3, <1>6, <2>2, <2>5, <2>6 DEF Gen7Goes
  <2>8. dec.heat = pool'.heat /\ Going(pool', dec) /\ dec' = dec /\ pool'.phase # "ready"
    BY <1>1, <2>1 DEF Going, WentOn
  <2>9. Gen7Hears(pool', wire', dec)
    BY <2>7, <2>8, Gen7RaceHears DEF c
  <2> QED BY <2>8, <2>9
<1> QED BY <1>1, <1>7, <1>8

\* One message, and two after it.
LEMMA ThreeSent ==
    ASSUME NEW a, NEW b, NEW c
    PROVE  /\ <<a>> \o <<b, c>> = <<a, b, c>>
           /\ <<a, b, c>> \in Seq(Msgs(<<a, b, c>>)) /\ Msgs(<<a, b, c>>) = {a, b, c}
<1> DEFINE u == <<a>>
           v == <<b, c>>
           x == <<a, b, c>>
           S == {a, b, c}
<1>1. /\ u \in Seq(S) /\ v \in Seq(S) /\ Len(u) = 1 /\ Len(v) = 2
      /\ u[1] = a /\ v[1] = b /\ v[2] = c
  OBVIOUS
<1>2. x \in Seq(S) /\ Len(x) = 3 /\ x[1] = a /\ x[2] = b /\ x[3] = c
  OBVIOUS
<1>3. Msgs(x) = S
  BY DEF Msgs
<1> SUFFICES u \o v = x
  <2> SUFFICES x \in Seq(Msgs(x)) /\ Msgs(x) = S
    OBVIOUS
  <2> HIDE DEF x, S
  <2> QED BY <1>2, <1>3
<1> HIDE DEF u, v, x, S
<1> DEFINE w == u \o v
<1>4. /\ w \in Seq(S) /\ Len(w) = Len(u) + Len(v)
      /\ \A i \in 1..Len(u) : w[i] = u[i]
      /\ \A i \in 1..Len(v) : w[Len(u) + i] = v[i]
  <2>1. u \in Seq(S) /\ v \in Seq(S)
    BY <1>1
  <2> QED BY <2>1
<1> HIDE DEF w
<1>5. Len(w) = 3 /\ w[1] = a /\ w[2] = b /\ w[3] = c
  <2>1. 1 \in 1..Len(u) /\ 1 \in 1..Len(v) /\ 2 \in 1..Len(v) /\ Len(u) + 1 = 2
        /\ Len(u) + 2 = 3
    BY <1>1
  <2>2. w[1] = u[1] /\ w[Len(u) + 1] = v[1] /\ w[Len(u) + 2] = v[2]
    BY <1>4, <2>1
  <2> QED BY <1>1, <1>4, <2>1, <2>2
<1>6. \A y \in Seq(S) : y \in [1..Len(y) -> S]
  OBVIOUS
<1>7. w \in [1..3 -> S] /\ x \in [1..3 -> S]
  <2>1. w \in Seq(S) /\ x \in Seq(S)
    BY <1>2, <1>4
  <2>2. w \in [1..Len(w) -> S] /\ x \in [1..Len(x) -> S]
    BY <1>6, <2>1
  <2> QED BY <1>2, <1>5, <2>2
<1>8. \A i \in 1..3 : w[i] = x[i]
  BY <1>2, <1>5
<1>9. w = x
  BY <1>7, <1>8
<1> QED BY <1>9 DEF w

\* A line of the clock made the first.
LEMMA SoonClock ==
    ASSUME NEW n
    PROVE  [[t |-> "clock", zero |-> FALSE, heat |-> n, soon |-> FALSE] EXCEPT !.soon = TRUE]
           = [t |-> "clock", zero |-> FALSE, heat |-> n, soon |-> TRUE]
<1> DEFINE R == [t : {"clock"}, zero : {FALSE}, heat : {n}, soon : BOOLEAN]
           k == [t |-> "clock", zero |-> FALSE, heat |-> n, soon |-> FALSE]
           e == [k EXCEPT !.soon = TRUE]
           f == [t |-> "clock", zero |-> FALSE, heat |-> n, soon |-> TRUE]
<1>1. k \in R /\ f \in R /\ f.soon = TRUE
  OBVIOUS
<1>2. e \in R /\ e.soon = TRUE
  <2> HIDE DEF k
  <2> QED BY <1>1
<1>3. e = [t |-> e.t, zero |-> e.zero, heat |-> e.heat, soon |-> e.soon]
  <2> HIDE DEF e
  <2> QED BY <1>2
<1>4. e.t = "clock" /\ e.zero = FALSE /\ e.heat = n
  <2> HIDE DEF e
  <2> QED BY <1>2
<1> SUFFICES e = f
  OBVIOUS
<1> HIDE DEF e
<1> QED BY <1>2, <1>3, <1>4

\* The lane's flag flickers.
LEMMA Gen7FlickerSent ==
    ASSUME PoolInv, DecInv, WireInv, kind = "gen7", wire = <<>>,
           UNCHANGED <<kind, full, known, dec>>, NEW l \in Lanes, Flicker(l)
    PROVE  /\ WireInv' /\ pool.heat # 0 /\ lost' = lost
           /\ Gen7Hears(pool, wire, dec) => Gen7Hears(pool', wire', dec')
<1>1. /\ SameSwum(pool, pool') /\ pool'.phase = "racing" /\ pool.phase = "racing"
      /\ pool.heat # 0 /\ pool'.heat > 0 /\ lost' = lost /\ Swims(pool, l)
  <2>1. lost' = lost
    BY DEF Flicker
  <2> QED BY <2>1, FlickerPool, HeatsNat DEF PoolInv, Pools, SameSwum
<1> DEFINE a == Blank(l)
           h == Header(l)
           c == Soon(pool')
<1>2. wire' = <<a>> \o <<h, c>>
  <2>1. [Clock(FALSE) EXCEPT !.soon = TRUE] = c
    BY SoonClock DEF Clock, Soon
  <2> QED BY <2>1 DEF Flicker, Send, Blank
<1>3. SayableBy(pool', a) /\ SayableBy(pool', h) /\ SayableBy(pool', c)
  <2>1. SayableBy(pool', h) /\ SayableBy(pool', c)
    BY Gen7Says
  <2>2. a \in Modules /\ a.line = a.lane /\ a.running = FALSE /\ a.digits = TRUE
    BY BlankIs DEF Says
  <2> HIDE DEF a
  <2> QED BY <2>1, <2>2, Gen7Says
<1> HIDE DEF a, h, c
<1>4. wire' = <<a, h, c>> /\ wire' \in Seq(Msgs(wire')) /\ Msgs(wire') = {a, h, c}
  <2> DEFINE x == <<a, h, c>>
             y == <<a>> \o <<h, c>>
  <2>1. y = x /\ x \in Seq(Msgs(x)) /\ Msgs(x) = {a, h, c}
    BY ThreeSent
  <2>2. wire' = y
    BY <1>2
  <2> SUFFICES wire' = x /\ wire' \in Seq(Msgs(wire')) /\ Msgs(wire') = {a, h, c}
    OBVIOUS
  <2> HIDE DEF x, y
  <2> QED BY <2>1, <2>2
<1>5. WireInv'
  BY <1>1, <1>3, <1>4, WireSent
<1>6. ASSUME Gen7Hears(pool, wire, dec) PROVE Gen7Hears(pool', wire', dec')
  <2>1. /\ dec.heat = pool.heat /\ Going(pool, dec) /\ Gen7Lanes(pool, dec)
    BY <1>1, <1>6, Gen7RaceHeard
  <2>2. Gen7Lanes(pool', dec)
    BY <1>1, <2>1, Gen7SameLanes
  <2>3. Swims(pool', l) /\ l \in Swim(pool')
    BY <1>1 DEF SameSwum, Swims, Swim
  <2>4. Gen7FlickHeard(pool', wire', dec, l)
    BY <1>4, <2>2, <2>3 DEF Gen7FlickHeard, Gen7Lanes, a, h, c
  <2>5. dec.heat = pool'.heat /\ Going(pool', dec) /\ dec' = dec /\ pool'.phase # "ready"
    BY <1>1, <2>1, <2>3 DEF Going, SameSwum
  <2>6. \E k \in Swim(pool') : Gen7FlickHeard(pool', wire', dec, k)
    BY <2>3, <2>4
  <2>7. Gen7Hears(pool', wire', dec)
    BY <2>5, <2>6, Gen7RaceHears
  <2> QED BY <2>5, <2>7
<1> QED BY <1>1, <1>5, <1>6

\* The end of the race: a CTS is sent nothing.
LEMMA Gen7EndSent ==
    ASSUME PoolInv, DecInv, WireInv, kind = "gen7", wire = <<>>,
           UNCHANGED <<kind, full, known, dec>>, End
    PROVE  /\ WireInv' /\ pool.heat # 0 /\ lost' = lost
           /\ Gen7Hears(pool, wire, dec) => Gen7Hears(pool', wire', dec')
<1>1. /\ SameSwum(pool, pool') /\ pool'.phase = "over" /\ pool.phase = "racing"
      /\ pool.heat # 0 /\ pool'.heat > 0 /\ lost' = lost /\ wire' = <<>>
  BY EndPool, HeatsNat DEF PoolInv, Pools, SameSwum, End, Send, Ends
<1>2. WireInv'
  BY <1>1, WireSent, MsgsShort
<1>3. ASSUME Gen7Hears(pool, wire, dec) PROVE Gen7Hears(pool', wire', dec')
  <2>1. /\ dec.heat = pool.heat /\ Going(pool, dec) /\ Gen7Lanes(pool, dec)
    BY <1>1, <1>3, Gen7RaceHeard
  <2>2. Gen7Lanes(pool', dec)
    BY <1>1, <2>1, Gen7SameLanes
  <2>3. dec.heat = pool'.heat /\ Going(pool', dec) /\ dec' = dec /\ pool'.phase # "ready"
    BY <1>1, <2>1 DEF Going, SameSwum, Swims, Swim
  <2>4. Gen7Goes(pool', wire', dec, At(pool', FALSE))
    BY <1>1, <2>2, Gen7AllGo
  <2>5. Gen7Hears(pool', wire', dec)
    BY <2>3, <2>4, Gen7RaceHears
  <2> QED BY <2>3, <2>5
<1> QED BY <1>1, <1>2, <1>3

\* A step of a Gen7.
LEMMA Gen7Console ==
    ASSUME PoolInv, PoolInv', DecInv, WireInv, ~SlowReset, ~PostsByPlace, kind = "gen7",
           Console, pool.heat # 0 /\ lost.since = 0 => Gen7Hears(pool, wire, dec)
    PROVE  /\ WireInv'
           /\ lost'.since = 0 => Gen7Hears(pool', wire', dec')
<1>1. /\ wire = <<>> /\ UNCHANGED <<kind, full, known, dec>> /\ ConsoleStep /\ Settled
  BY DEF Console, ConsoleStep, NextHeat, Reswim, Start, End, PostByPlace, Touch, GoesOn,
         Flicker, GivesUp, Deletes, Quiet, Send
<1>2. CASE NextHeat \/ Reswim
  BY <1>1, <1>2, Gen7ReadySent
<1>3. CASE Start
  BY <1>1, <1>3, Gen7StartSent
<1>4. CASE End
  BY <1>1, <1>4, Gen7EndSent
<1>5. ASSUME NEW l \in Lanes, Touch(l) \/ GoesOn(l) \/ Flicker(l)
      PROVE  /\ WireInv'
             /\ lost'.since = 0 => Gen7Hears(pool', wire', dec')
  <2>1. CASE Touch(l)
    BY <1>1, <2>1, Gen7TouchSent
  <2>2. CASE GoesOn(l)
    BY <1>1, <2>2, Gen7GoesOnSent
  <2>3. CASE Flicker(l)
    BY <1>1, <2>3, Gen7FlickerSent
  <2> QED BY <1>5, <2>1, <2>2, <2>3
<1> QED BY <1>1, <1>2, <1>3, <1>4, <1>5
        DEF ConsoleStep, PostByPlace, GivesUp, Deletes

\* What was heard whole from a Gen7 is decoded.
LEMMA Gen7Decoded ==
    ASSUME PoolInv, DecInv, kind = "gen7", pool.heat # 0, wire = <<>>,
           Gen7Hears(pool, wire, dec)
    PROVE  EndsAsSwum /\ NotFinishedEarly
<1>1. pool.phase # "ready" => dec.heat = pool.heat /\ Gen7Lanes(pool, dec)
  BY Gen7RaceHeard
<1>2. EndsAsSwum
  <2> SUFFICES ASSUME pool.phase = "over" PROVE EndsAsSwum
    BY DEF EndsAsSwum
  <2>1. /\ \A l \in Lanes : ~Swims(pool, l)
        /\ \A l \in Swim(pool) \ pool.out : pool.legs[l] = Legs /\ l \in Lanes
    BY AllOver
  <2>2. \A l \in Lanes : ~dec.running[l] /\ dec.time[l] = pool.mark[l] /\ IsRank(pool, dec, l)
    BY <1>1, <2>1 DEF Gen7Lanes, Gen7Shows
  <2>3. \A l \in Swim(pool) \ pool.out : dec.splits[l] = Legs
    BY <1>1, <2>1 DEF Gen7Lanes, Gen7Shows
  <2>4. dec \in Decs
    BY DEF DecInv
  <2> QED BY <1>1, <2>2, <2>3, <2>4, SwumLanes
<1>3. NotFinishedEarly
  BY DEF NotFinishedEarly
<1> QED BY <1>2, <1>3

\* A step keeps the console, a Gen7, so what it makes heard is heard after it.
LEMMA Gen7Primed ==
    ASSUME UNCHANGED <<kind, full, known>>, Gen7Hears(pool', wire', dec')
    PROVE  Gen7Hears(pool, wire, dec)'
  BY DEF Gen7Hears, Gen7Ready, BlankPool, Finished, Gen7Goes, Gen7Shows, Follows, Awaits,
         GoRow, Gen7FlickHeard, Gen7TouchHeard

-----------------------------------------------------------------------------
(* Every console.                                                           *)

\* Each console has its own part of the invariant.
LEMMA HearsIs ==
    ASSUME NEW p, NEW w, NEW d
    PROVE  /\ kind = "quantum" => (Hears(p, w, d) <=> QuantumHears(p, w, d))
           /\ kind \in RTD     => (Hears(p, w, d) <=> (known => RtdHears(p, w, d)))
           /\ kind = "alge"    => (Hears(p, w, d) <=> (known => AlgeHears(p, w, d)))
           /\ kind = "seiko"   => (Hears(p, w, d) <=> (known => SeikoHears(p, w, d)))
           /\ kind \in Swiss   => (Hears(p, w, d) <=> (known => SwissHears(p, w, d)))
           /\ kind = "dolphin" => (Hears(p, w, d) <=> DolphinHears(p, w, d))
           /\ kind = "gen6"    => (Hears(p, w, d) <=> Gen6Hears(p, w, d))
           /\ kind = "gen7"    => (Hears(p, w, d) <=> Gen7Hears(p, w, d))
  BY DEF Hears, RTD, Swiss

\* What a message the console may send makes of the decoder fits.
LEMMA FedFit ==
    ASSUME PoolInv, DecInv, WireInv, pool.heat # 0, NEW m, SayableBy(pool, m)
    PROVE  Fit(Fed(dec, m))
<1>1. CASE kind = "quantum"
  BY <1>1, QuantumFed
<1>2. CASE kind = "seiko"
  BY <1>2, SeikoFed
<1>3. CASE kind \in RTD
  BY <1>3, RtdFed
<1>4. CASE kind = "alge"
  BY <1>4, AlgeFed
<1>5. CASE kind = "dolphin"
  BY <1>5, DolphinFed
<1>6. CASE kind \in Swiss
  BY <1>6, SwissFed
<1>7. CASE kind = "gen6"
  BY <1>7, Gen6Fed
<1>8. CASE kind = "gen7"
  BY <1>8, Gen7Fed
<1> QED BY <1>1, <1>2, <1>3, <1>4, <1>5, <1>6, <1>7, <1>8 DEF WireInv, AllKinds, CTS

\* The message of a clock that goes on is one the console may send.
LEMMA TickFed ==
    ASSUME PoolInv, DecInv, WireInv, Tick
    PROVE  /\ pool.heat # 0
           /\ \E m : SayableBy(pool, m) /\ dec' = Apply(Fed(dec, m))
<1> DEFINE m == [t |-> "clock", zero |-> pool.phase = "ready",
                 heat |-> pool.heat, soon |-> FALSE]
<1>1. pool.heat # 0 /\ dec' = Apply(Fed(dec, m))
  BY DEF Tick, PoolInv
<1>2. m = At(pool, TRUE) \/ m = At(pool, FALSE)
  <2>1. CASE pool.phase = "ready"
    <3>1. (pool.phase = "ready") = TRUE
      BY <2>1
    <3> QED BY <3>1 DEF At
  <2>2. CASE pool.phase # "ready"
    <3>1. (pool.phase = "ready") = FALSE
      BY <2>2
    <3> QED BY <3>1 DEF At
  <2> QED BY <2>1, <2>2
<1>3. kind = "gen7" => m = At(pool, FALSE)
  <2>1. kind = "gen7" => pool.phase = "racing"
    BY DEF Tick, Swiss
  <2>2. kind = "gen7" => (pool.phase = "ready") = FALSE
    BY <2>1
  <2> QED BY <2>2 DEF At
<1>4. kind \in {"alge", "seiko", "gen7"} \cup RTD \cup Swiss
  BY DEF Tick
<1> HIDE DEF m
<1>5. SayableBy(pool, m)
  BY <1>2, <1>3, <1>4 DEF SayableBy, RTD, Swiss
<1> QED BY <1>1, <1>5

\* A message delivered: what is still to come makes up for what was.
LEMMA HearsDeliver ==
    ASSUME PoolInv, DecInv, WireInv, pool.heat # 0, Hears(pool, wire, dec), Deliver
    PROVE  Hears(pool, wire', dec')
<1>1. CASE kind = "quantum"
  BY <1>1, QuantumDeliver, HearsIs
<1>2. CASE kind = "seiko"
  BY <1>2, SeikoDeliver, HearsIs
<1>3. CASE kind \in RTD
  BY <1>3, RtdDeliver, HearsIs
<1>4. CASE kind = "alge"
  <2>1. known' = known
    BY DEF Deliver
  <2> QED BY <1>4, <2>1, AlgeDeliver, HearsIs
<1>5. CASE kind = "dolphin"
  BY <1>5, DolphinDeliver, HearsIs
<1>6. CASE kind \in Swiss
  <2>1. known' = known
    BY DEF Deliver
  <2> QED BY <1>6, <2>1, SwissDeliver, HearsIs
<1>7. CASE kind = "gen6"
  BY <1>7, Gen6Deliver, HearsIs
<1>8. CASE kind = "gen7"
  BY <1>8, Gen7Deliver, HearsIs
<1> QED BY <1>1, <1>2, <1>3, <1>4, <1>5, <1>6, <1>7, <1>8 DEF WireInv, AllKinds, CTS

\* The decoder alone: what it has heard stays heard.
LEMMA HearsIdle ==
    ASSUME PoolInv, DecInv, WireInv, pool.heat # 0, Hears(pool, wire, dec),
           Tick \/ BoardIsReset \/ HoldEnds \/ SetHeat
    PROVE  Hears(pool, wire', dec')
<1>1. CASE kind = "quantum"
  <2>1. ~HoldEnds /\ ~SetHeat
    BY <1>1 DEF HoldEnds, SetHeat
  <2> QED BY <1>1, <2>1, QuantumIdle, HearsIs
<1>2. CASE kind = "seiko"
  <2>1. ~HoldEnds
    BY <1>2 DEF HoldEnds
  <2> QED BY <1>2, <2>1, SeikoIdle, HearsIs
<1>3. CASE kind \in RTD
  <2>1. ~HoldEnds /\ ~SetHeat
    BY <1>3 DEF HoldEnds, SetHeat, RTD
  <2>2. wire' = <<>> /\ wire = <<>> /\ UNCHANGED <<kind, known, pool>>
    BY <2>1 DEF Tick, BoardIsReset, consoleVars, Quiet
  <2> QED BY <1>3, <2>1, RtdIdle, HearsIs
<1>4. CASE kind = "alge"
  <2>1. ~HoldEnds /\ ~SetHeat
    BY <1>4 DEF HoldEnds, SetHeat
  <2> QED BY <1>4, <2>1, AlgeIdle, HearsIs
<1>5. CASE kind = "dolphin"
  <2>1. ~Tick /\ ~SetHeat
    BY <1>5 DEF Tick, SetHeat, RTD, Swiss
  <2> QED BY <1>5, <2>1, DolphinIdle, HearsIs
<1>6. CASE kind \in Swiss
  <2>1. ~HoldEnds /\ ~SetHeat
    BY <1>6 DEF HoldEnds, SetHeat, Swiss
  <2> QED BY <1>6, <2>1, SwissIdle, HearsIs
<1>7. CASE kind = "gen6"
  <2>1. ~HoldEnds /\ ~SetHeat
    BY <1>7 DEF HoldEnds, SetHeat
  <2> QED BY <1>7, <2>1, Gen6Idle, HearsIs
<1>8. CASE kind = "gen7"
  <2>1. ~HoldEnds /\ ~SetHeat
    BY <1>8 DEF HoldEnds, SetHeat
  <2> QED BY <1>8, <2>1, Gen7Idle, HearsIs
<1> QED BY <1>1, <1>2, <1>3, <1>4, <1>5, <1>6, <1>7, <1>8 DEF WireInv, AllKinds, CTS

\* A step of the console: it sends what the decoder must hear.
LEMMA HearsConsole ==
    ASSUME PoolInv, PoolInv', DecInv, WireInv, ~GivesUpLate, ~PostsByPlace, ~SlowReset,
           Console, pool.heat # 0 /\ lost.since = 0 => Hears(pool, wire, dec)
    PROVE  WireInv' /\ (lost'.since = 0 => Hears(pool', wire', dec'))
<1>1. CASE kind = "quantum"
  BY <1>1, QuantumConsole, HearsIs
<1>2. CASE kind = "seiko"
  BY <1>2, SeikoConsole, HearsIs
<1>3. CASE kind \in RTD
  <2>1. known' = known
    BY DEF Console
  <2> QED BY <1>3, <2>1, RtdConsole, HearsIs
<1>4. CASE kind = "alge"
  <2>1. known' = known
    BY DEF Console
  <2> QED BY <1>4, <2>1, AlgeConsole, HearsIs
<1>5. CASE kind = "dolphin"
  BY <1>5, DolphinConsole, HearsIs
<1>6. CASE kind \in Swiss
  <2>1. known' = known
    BY DEF Console
  <2> QED BY <1>6, <2>1, SwissConsole, HearsIs
<1>7. CASE kind = "gen6"
  BY <1>7, Gen6Console, HearsIs
<1>8. CASE kind = "gen7"
  BY <1>8, Gen7Console, HearsIs
<1> QED BY <1>1, <1>2, <1>3, <1>4, <1>5, <1>6, <1>7, <1>8 DEF WireInv, AllKinds, CTS

\* The same, of an RTD.
LEMMA RtdPrimed ==
    ASSUME UNCHANGED <<kind, known>>, RtdHears(pool', wire', dec')
    PROVE  RtdHears(pool, wire, dec)'
  BY DEF RtdHears, RtdReady, RtdLane, RtdSwims, RtdLine, LengthsOf, Cleans

\* The same, of an ALGE.
LEMMA AlgePrimed ==
    ASSUME UNCHANGED <<kind, full, known>>, AlgeHears(pool', wire', dec')
    PROVE  AlgeHears(pool, wire, dec)'
  BY DEF AlgeHears, AlgeReady, AlgeLane, AlgeLanes, AlgeStartHeard, AlgeTouch, AlgeTouchHeard,
         AlgeClearHeard

\* A step keeps the console, so what it makes heard is heard after it.
LEMMA HearsPrimed ==
    ASSUME kind \in AllKinds, UNCHANGED <<kind, full, known>>, Hears(pool', wire', dec')
    PROVE  Hears(pool, wire, dec)'
<1>1. CASE kind = "quantum"
  <2>1. QuantumHears(pool', wire', dec')
    BY <1>1, HearsIs
  <2> QED BY <1>1, <2>1 DEF Hears, RTD, Swiss
<1>2. CASE kind = "seiko"
  <2>1. known => SeikoHears(pool', wire', dec')
    BY <1>2, HearsIs
  <2> QED BY <1>2, <2>1 DEF Hears, RTD, Swiss
<1>3. CASE kind \in RTD
  <2>1. known => RtdHears(pool', wire', dec')
    BY <1>3, HearsIs
  <2>2. known => RtdHears(pool, wire, dec)'
    BY <2>1, RtdPrimed
  <2> QED BY <1>3, <2>2 DEF Hears, RTD, Swiss
<1>4. CASE kind = "alge"
  <2>1. known => AlgeHears(pool', wire', dec')
    BY <1>4, HearsIs
  <2>2. known => AlgeHears(pool, wire, dec)'
    BY <2>1, AlgePrimed
  <2> QED BY <1>4, <2>2 DEF Hears, RTD, Swiss
<1>5. CASE kind = "dolphin"
  <2>1. DolphinHears(pool', wire', dec')
    BY <1>5, HearsIs
  <2>2. DolphinHears(pool, wire, dec)'
    BY <2>1, DolphinPrimed
  <2> QED BY <1>5, <2>2 DEF Hears, RTD, Swiss
<1>6. CASE kind \in Swiss
  <2>1. known => SwissHears(pool', wire', dec')
    BY <1>6, HearsIs
  <2>2. known => SwissHears(pool, wire, dec)'
    BY <2>1, SwissPrimed
  <2> QED BY <1>6, <2>2 DEF Hears, RTD, Swiss
<1>7. CASE kind = "gen6"
  <2>1. Gen6Hears(pool', wire', dec')
    BY <1>7, HearsIs
  <2>2. Gen6Hears(pool, wire, dec)'
    BY <2>1, Gen6Primed
  <2> QED BY <1>7, <2>2 DEF Hears, RTD, Swiss
<1>8. CASE kind = "gen7"
  <2>1. Gen7Hears(pool', wire', dec')
    BY <1>8, HearsIs
  <2>2. Gen7Hears(pool, wire, dec)'
    BY <2>1, Gen7Primed
  <2> QED BY <1>8, <2>2 DEF Hears, RTD, Swiss
<1> QED BY <1>1, <1>2, <1>3, <1>4, <1>5, <1>6, <1>7, <1>8 DEF AllKinds, CTS

\* Every step keeps the invariant.
LEMMA RaceNext ==
    ASSUME RaceInv, ~GivesUpLate, ~PostsByPlace, ~SlowReset,
           [DecodersNext]_decoderVars
    PROVE  RaceInv'
<1>1. /\ PoolInv /\ DecInv /\ WireInv
      /\ lost.since = 0 /\ pool.heat # 0 => Hears(pool, wire, dec)
  <2>1. pool.heat # 0 => pool.heat > 0
    BY HeatsNat DEF RaceInv, PoolInv, Pools
  <2> QED BY <2>1 DEF RaceInv
<1>2. UNCHANGED <<kind, full, known>>
  BY DEF DecodersNext, decoderVars, consoleVars, Console, ConsoleStep, NextHeat, Reswim, Start,
         End, PostByPlace, Touch, GoesOn, Flicker, GivesUp, Deletes, Send, Deliver, Tick, HoldEnds,
         BoardIsReset, SetHeat, Restart, Lose
<1>3. SUFFICES /\ PoolInv' /\ DecInv' /\ WireInv'
               /\ lost'.since = 0 /\ pool'.heat > 0 => Hears(pool', wire', dec')
  <2>1. kind \in AllKinds
    BY <1>1 DEF WireInv
  <2> QED BY <1>1, <1>2, <2>1, HearsPrimed DEF RaceInv
<1>4. CASE Console
  BY <1>1, <1>4, ConsolePool, HearsConsole
<1>5. ASSUME UNCHANGED pool PROVE PoolInv'
  BY <1>1, <1>2, <1>5 DEF PoolInv, AllIn, InHeat
<1>6. pool.heat > 0 => pool.heat # 0
  OBVIOUS
<1>7. CASE Deliver
  <2>1. UNCHANGED <<kind, full, known, pool, lost>> /\ wire # <<>> /\ wire' = Tail(wire)
        /\ dec' = Apply(Fed(dec, Head(wire)))
    BY <1>7 DEF Deliver, Quiet
  <2>2. pool.heat # 0 /\ SayableBy(pool, Head(wire))
    BY <1>1, <2>1, HeadHeard
  <2>3. DecInv'
    BY <1>1, <2>1, <2>2, FedFit, DecKept
  <2>4. WireInv'
    BY <1>1, <2>1, WireKept
  <2> QED BY <1>1, <1>5, <1>7, <2>1, <2>2, <2>3, <2>4, HearsDeliver
<1>8. CASE Tick \/ BoardIsReset \/ HoldEnds \/ SetHeat
  <2>1. UNCHANGED <<kind, full, known, pool, lost, wire>>
    BY <1>8 DEF Tick, BoardIsReset, HoldEnds, SetHeat, consoleVars
  <2>2. ASSUME Tick PROVE DecInv'
    <3>1. PICK m : SayableBy(pool, m) /\ dec' = Apply(Fed(dec, m))
      BY <1>1, <2>2, TickFed
    <3>2. Fit(Fed(dec, m))
      BY <1>1, <2>2, <3>1, TickFed, FedFit
    <3>3. DecInv'
      BY <1>1, <2>1, <3>1, <3>2, DecKept
    <3> QED BY <3>3
  <2>3. ASSUME HoldEnds PROVE DecInv'
    BY <1>1, <2>3, HoldEndsDec
  <2>4. DecInv'
    BY <1>1, <1>8, <2>2, <2>3, BoardResetDec, SetHeatDec
  <2>5. WireInv'
    BY <1>1, <2>1, WireKept
  <2> QED BY <1>1, <1>5, <1>6, <1>8, <2>1, <2>4, <2>5, HearsIdle
<1>9. CASE Restart
  <2>1. /\ UNCHANGED <<kind, full, known, pool, wire>> /\ dec' = NewDecoder
        /\ lost' = [all |-> lost.all + 1, since |-> lost.since + 1]
    BY <1>9 DEF Restart
  <2> QED BY <1>1, <1>5, <2>1, RestartDec, WireLost
<1>10. CASE Lose /\ UNCHANGED <<known, dec>>
  <2>1. /\ UNCHANGED <<kind, full, known, pool, dec>> /\ wire # <<>> /\ wire' = Tail(wire)
        /\ lost' = [all |-> lost.all + 1, since |-> lost.since + 1]
    BY <1>10 DEF Lose, Quiet
  <2>2. DecInv'
    BY <1>1, <2>1 DEF DecInv, PairOpens, Swim
  <2> QED BY <1>1, <1>5, <2>1, <2>2, WireLost
<1>11. CASE UNCHANGED decoderVars
  <2>1. UNCHANGED <<kind, full, known, pool, dec, wire, lost>>
    BY <1>11 DEF decoderVars, consoleVars
  <2>2. DecInv'
    BY <1>1, <2>1 DEF DecInv, PairOpens, Swim
  <2> QED BY <1>1, <1>5, <1>6, <2>1, <2>2, WireKept
<1> QED BY <1>4, <1>7, <1>8, <1>9, <1>10, <1>11 DEF DecodersNext

\* What was heard whole from a Quantum is decoded.
LEMMA QuantumDecoded ==
    ASSUME PoolInv, DecInv, kind = "quantum", pool.heat # 0, wire = <<>>,
           QuantumHears(pool, wire, dec)
    PROVE  EndsAsSwum /\ NotFinishedEarly
<1>1. pool.phase # "ready" =>
        /\ dec.heat = pool.heat /\ \A l \in Lanes : QuantumLane(pool, dec, l)
  <2>1. ~(\E l \in Swim(pool) : QuantumTouchHeard(pool, wire, dec, l))
    BY DEF QuantumTouchHeard, Paired
  <2> QED BY <2>1, QuantumRaceHears DEF Paired
<1>2. EndsAsSwum
  <2> SUFFICES ASSUME pool.phase = "over" PROVE EndsAsSwum
    BY DEF EndsAsSwum
  <2>1. \A l \in Lanes : ~Swims(pool, l)
    BY AllOver
  <2>2. \A l \in Lanes : ~dec.running[l] /\ dec.time[l] = pool.mark[l] /\ IsRank(pool, dec, l)
    BY <1>1, <2>1 DEF QuantumLane
  <2>3. \A l \in Swim(pool) \ pool.out : dec.splits[l] = Legs - 1
    BY <1>1, AllOver DEF QuantumLane
  <2>4. dec \in Decs
    BY DEF DecInv
  <2> QED BY <1>1, <2>2, <2>3, <2>4, SwumLanes
<1>3. NotFinishedEarly
  <2>1. pool.phase = "racing" => \A l \in Lanes : Swims(pool, l) => dec.running[l]
    BY <1>1 DEF QuantumLane
  <2> QED BY <2>1, SwumNotEarly DEF CTS, Swiss
<1> QED BY <1>2, <1>3

\* What was heard whole from a Seiko is decoded.
LEMMA SeikoDecoded ==
    ASSUME PoolInv, DecInv, kind = "seiko", pool.heat # 0, wire = <<>>,
           SeikoHears(pool, wire, dec)
    PROVE  EndsAsSwum /\ NotFinishedEarly
<1>1. pool.phase # "ready" =>
        /\ dec.heat = pool.heat /\ \A l \in Lanes : SeikoLane(pool, dec, l)
  BY DEF SeikoHears
<1>2. EndsAsSwum
  <2> SUFFICES ASSUME pool.phase = "over" PROVE EndsAsSwum
    BY DEF EndsAsSwum
  <2>1. \A l \in Lanes : ~Swims(pool, l)
    BY AllOver
  <2>2. \A l \in Lanes : ~dec.running[l] /\ dec.time[l] = pool.mark[l] /\ IsRank(pool, dec, l)
    BY <1>1, <2>1 DEF SeikoLane
  <2>3. \A l \in Swim(pool) \ pool.out : dec.splits[l] = Legs
    BY <1>1, AllOver DEF SeikoLane
  <2>4. dec \in Decs
    BY DEF DecInv
  <2> QED BY <1>1, <2>2, <2>3, <2>4, SwumLanes
<1>3. NotFinishedEarly
  <2>1. pool.phase = "racing" => \A l \in Lanes : Swims(pool, l) => dec.running[l]
    BY <1>1 DEF SeikoLane
  <2> QED BY <2>1, SwumNotEarly DEF CTS, Swiss
<1> QED BY <1>2, <1>3

\* What was heard whole is decoded.
LEMMA HeardIsDecoded ==
    ASSUME RaceInv
    PROVE  RaceIsDecoded
<1> SUFFICES ASSUME Clean, Decodable PROVE RaceIsDecoded
  BY DEF RaceIsDecoded, EndsAsSwum, NotFinishedEarly
<1>1. /\ PoolInv /\ DecInv /\ WireInv /\ wire = <<>> /\ pool.heat # 0
      /\ Hears(pool, wire, dec)
  <2>1. pool.heat > 0 /\ pool.heat \in Nat
    BY HeatsNat DEF Clean, RaceInv, PoolInv, Pools
  <2> QED BY <2>1 DEF Clean, Quiet, RaceInv
<1>2. CASE kind = "quantum"
  BY <1>1, <1>2, QuantumDecoded, HearsIs DEF RaceIsDecoded
<1>3. CASE kind = "seiko"
  BY <1>1, <1>3, SeikoDecoded, HearsIs DEF RaceIsDecoded, Decodable
<1>4. CASE kind \in RTD
  BY <1>1, <1>4, RtdDecoded, HearsIs DEF RaceIsDecoded, Decodable, RTD
<1>5. CASE kind = "alge"
  BY <1>1, <1>5, AlgeDecoded, HearsIs DEF RaceIsDecoded, Decodable
<1>6. CASE kind = "dolphin"
  BY <1>1, <1>6, DolphinDecoded, HearsIs DEF RaceIsDecoded
<1>7. CASE kind \in Swiss
  BY <1>1, <1>7, SwissDecoded, HearsIs DEF RaceIsDecoded, Decodable, Swiss
<1>8. CASE kind = "gen6"
  BY <1>1, <1>8, Gen6Decoded, HearsIs DEF RaceIsDecoded
<1>9. CASE kind = "gen7"
  BY <1>1, <1>9, Gen7Decoded, HearsIs DEF RaceIsDecoded
<1> QED BY <1>1, <1>2, <1>3, <1>4, <1>5, <1>6, <1>7, <1>8, <1>9 DEF WireInv, AllKinds, CTS

\* What the decoder shows at the end of a race is what was swum, and no race is taken for
\* finished before: for every start list, console and set of lanes, where none of a CTS's
\* posting by place, a swimmer who gives up late and a reset later than the start comes
\* between (the three cases in which the code does otherwise).
THEOREM RaceDecoded ==
    ASSUME ~PostsByPlace, ~GivesUpLate, ~SlowReset
    PROVE  DecodersSpec => []RaceIsDecoded
<1>1. DecodersInit => RaceInv
  BY InitRaceInv
<1>2. RaceInv /\ [DecodersNext]_decoderVars => RaceInv'
  BY RaceNext
<1>3. RaceInv => RaceIsDecoded
  BY HeardIsDecoded
<1> QED BY <1>1, <1>2, <1>3, PTL DEF DecodersSpec

-----------------------------------------------------------------------------
(* The race state and its debounces.                                       *)

LEMMA DarkLanesType == DarkLanes \in [BoardLanes -> LaneState]
  BY DEF DarkLanes, LaneState

LEMMA DarkNotFinished == ~RaceFinished(DarkLanes)
  BY DEF RaceFinished, DarkLanes

\* heat_step answers a heat of the meet.
LEMMA StepTargetsListed ==
  ASSUME NEW h, NEW by PROVE StepTargets(h, by) \subseteq Listed
  BY DEF StepTargets, Listed

-----------------------------------------------------------------------------
(* Type correctness.                                                       *)

\* Every snapshot a finish edge takes is a results payload.
LEMMA FinishEdgeType ==
  ASSUME TypeOK, NEW h \in AnyHeat, NEW ls \in [BoardLanes -> LaneState],
         RaceStateChanged(h, ls)
  PROVE  /\ prev_finished' \in BOOLEAN
         /\ finish_timer_gen' \in Nat
         /\ last_results' \in Snapshots
         /\ finish_tasks' \in SUBSET FinishTasks
         /\ reset_tasks' \in SUBSET Nat
<1>1. prev_finished' \in BOOLEAN
  BY DEF RaceStateChanged, RaceFinished
<1>2. CASE FinishEdge(h, ls)
  <2>1. [heat |-> h, lanes |-> TimedLanes(ls), id |-> finish_timer_gen + 1]
          \in Snapshots
    BY DEF TypeOK, Snapshots, TimedLanes
  <2> QED BY <1>1, <1>2, <2>1 DEF TypeOK, FinishEdge, FinishTasks
<1>3. CASE UnfinishEdge
  BY <1>1, <1>3 DEF TypeOK, UnfinishEdge
<1>4. CASE UNCHANGED <<last_results, finish_timer_gen, timers>>
  BY <1>1, <1>4 DEF TypeOK, timers
<1> QED BY <1>2, <1>3, <1>4 DEF RaceStateChanged

LEMMA FeedType == TypeOK /\ Feed => TypeOK'
<1> SUFFICES ASSUME TypeOK, Feed PROVE TypeOK' OBVIOUS
<1>1. ASSUME NEW l \in BoardLanes, NEW s \in LaneState, LanePacket(l, s)
      PROVE  TypeOK'
  <2>1. lane' \in [BoardLanes -> LaneState]
    BY <1>1 DEF TypeOK, LanePacket
  <2>2. board' \in [BoardLanes -> LaneState]
    BY <1>1 DEF TypeOK, LanePacket
  <2>3. running_lanes' \in SUBSET BoardLanes
    BY <1>1 DEF TypeOK, LanePacket
  <2>4. last_event_sent \in AnyHeat
    BY DEF TypeOK
  <2> QED BY <1>1, <2>1, <2>2, <2>3, <2>4, FinishEdgeType
          DEF TypeOK, LanePacket, Feed, screens
<1>2. ASSUME NEW h \in ConsoleHeats, EventPacket(h) PROVE TypeOK'
  <2>1. h \in AnyHeat BY DEF AnyHeat
  <2> QED BY <1>2, <2>1, DarkLanesType, FinishEdgeType
          DEF TypeOK, EventPacket, Feed, screens
<1>3. CASE NoEffect
  BY <1>3 DEF TypeOK, NoEffect, Feed, screens, decoder, timers
<1> QED BY <1>1, <1>2, <1>3 DEF Feed

\* Executing a command leaves the decoder, the board and the timers well typed.
LEMMA ExecuteType ==
  ASSUME TypeOK, NEW c \in Commands, Execute(c),
         UNCHANGED <<phase, screens>>, worker_cmds' \in Seq(Commands)
  PROVE  TypeOK'
<1>0. ASSUME NEW h \in AnyHeat, last_event_sent' = h, 
             board' = DarkLanes, ForgetRace
      PROVE  TypeOK'
  <2>1. finish_timer_gen' \in Nat
    BY <1>0 DEF TypeOK, ForgetRace
  <2>0. prev_finished' \in BOOLEAN
    BY <1>0 DEF ForgetRace
  <2>2. lane' \in [BoardLanes -> LaneState] /\ running_lanes' \in SUBSET BoardLanes
    BY <1>0, DarkLanesType DEF ForgetRace
  <2>3. /\ UNCHANGED <<last_results, finish_tasks, reset_tasks>>
        /\ UNCHANGED <<phase, console_times, published, results_page>>
    BY <1>0 DEF ForgetRace, timers, screens
  <2> QED BY <1>0, <2>0, <2>1, <2>2, <2>3, DarkLanesType DEF TypeOK
<1>1. ASSUME NEW h \in AnyHeat, WorkerSetHeat(h) PROVE TypeOK'
  BY <1>0, <1>1 DEF WorkerSetHeat
<1>2. CASE WorkerClearHeat
  BY <1>0, <1>2 DEF WorkerClearHeat, AnyHeat
<1>3. CASE NoEffect
  BY <1>3 DEF TypeOK, NoEffect, decoder, timers, screens
<1>4. ASSUME NEW g, BoardReset(g) PROVE TypeOK'
  BY <1>3, <1>4, DarkLanesType DEF TypeOK, BoardReset, timers, screens
<1>5. ASSUME NEW h \in Listed, WorkerSetHeat(h) PROVE TypeOK'
  BY <1>1, <1>5 DEF AnyHeat, ConsoleHeats, RealHeats
<1>6. ASSUME NEW by, StepHeat(by) PROVE TypeOK'
  BY <1>3, <1>5, <1>6, StepTargetsListed DEF StepHeat
<1> QED BY <1>2, <1>3, <1>4, <1>5, <1>6 DEF Execute, GotoHeat

LEMMA DrainType == TypeOK /\ (DrainOne \/ DrainDone) => TypeOK'
<1>1. ASSUME TypeOK, DrainOne PROVE TypeOK'
  <2>1. /\ Head(worker_cmds) \in Commands
        /\ Tail(worker_cmds) \in Seq(Commands)
    BY <1>1 DEF TypeOK, DrainOne
  <2> QED BY <1>1, <2>1, ExecuteType DEF DrainOne
<1>2. ASSUME TypeOK, DrainDone PROVE TypeOK'
  BY <1>2 DEF TypeOK, DrainDone, NoEffect, decoder, timers, screens
<1> QED BY <1>1, <1>2

LEMMA DebounceType == TypeOK /\ Debounce => TypeOK'
<1> SUFFICES ASSUME TypeOK, Debounce PROVE TypeOK' OBVIOUS
<1>1. ASSUME NEW t \in finish_tasks, FinishTimeout(t) PROVE TypeOK'
  <2>1. [t EXCEPT !.st = "passed"] \in FinishTasks
    BY <1>1 DEF TypeOK, FinishTasks
  <2>2. finish_tasks' \in SUBSET FinishTasks
    BY <1>1, <2>1 DEF TypeOK, FinishTimeout
  <2> QED BY <1>1, <2>2 DEF TypeOK, FinishTimeout, decoder, screens
<1>2. ASSUME NEW t \in finish_tasks, FinishPublish(t) PROVE TypeOK'
  <2>1. t.snap \in Snapshots
    BY DEF TypeOK, FinishTasks
  <2>2. console_times' \in [RealHeats -> Nat]
    BY <1>2, <2>1 DEF TypeOK, FinishPublish, Snapshots
  <2> QED BY <1>2, <2>1, <2>2 DEF TypeOK, FinishPublish, decoder
<1>3. ASSUME NEW g \in reset_tasks, ResetTimeout(g) PROVE TypeOK'
  <2>1. [op |-> "reset", gen |-> g] \in Commands
    BY DEF TypeOK, Commands
  <2> QED BY <1>3, <2>1 DEF TypeOK, ResetTimeout, decoder, screens
<1> QED BY <1>1, <1>2, <1>3 DEF Debounce

LEMMA InitType == Init => TypeOK
<1>1. NoHeat \in AnyHeat /\ NoResults \in Snapshots
  BY DEF AnyHeat, Snapshots, NoResults
<1>2. Init => prev_finished \in BOOLEAN
  BY DEF Init
<1>3. Init => worker_cmds \in Seq(Commands)
  BY DEF Init
<1>4. Init => console_times \in [RealHeats -> Nat]
  BY DEF Init
<1> QED BY <1>1, <1>2, <1>3, <1>4, DarkLanesType DEF Init, TypeOK

LEMMA NextType == TypeOK /\ [Next]_vars => TypeOK'
<1> SUFFICES ASSUME TypeOK, [Next]_vars PROVE TypeOK' OBVIOUS
<1>1. CASE Worker
  BY <1>1, FeedType, DrainType DEF Worker
<1>2. CASE Debounce
  BY <1>2, DebounceType
<1>3. CASE Operator
  BY <1>3 DEF TypeOK, Operator, OperatorCommands, Commands,
              decoder, timers, screens
<1>4. CASE JoinResults
  BY <1>4 DEF TypeOK, JoinResults, decoder, timers
<1>5. CASE UNCHANGED vars
  BY <1>5 DEF TypeOK, vars, decoder, timers, screens
<1> QED BY <1>1, <1>2, <1>3, <1>4, <1>5 DEF Next

\* Each variable keeps its type, for every meet and every number of lanes.
THEOREM TypeCorrect == Spec => []TypeOK
  BY InitType, NextType, PTL DEF Spec

-----------------------------------------------------------------------------
(* The inductive invariant.                                                *)

IInv ==
  /\ TypeOK
  /\ RaceStateAgrees
  /\ PendingFinishIsCurrent
  /\ TimersOrdered
  /\ TestRaceNotPublished

LEMMA QueuedTail ==
  ASSUME NEW q \in Seq(Commands), q # <<>>
  PROVE  QueuedResets(Tail(q)) \subseteq QueuedResets(q)
<1> SUFFICES ASSUME NEW i \in DOMAIN Tail(q), Tail(q)[i].op = "reset"
             PROVE  Tail(q)[i].gen \in QueuedResets(q)
  BY DEF QueuedResets
<1>1. i + 1 \in DOMAIN q /\ Tail(q)[i] = q[i + 1]
  OBVIOUS
<1> QED BY <1>1 DEF QueuedResets

LEMMA QueuedAppend ==
  ASSUME NEW q \in Seq(Commands), NEW c \in Commands, NEW g,
         g \in QueuedResets(Append(q, c))
  PROVE  g \in QueuedResets(q) \/ (c.op = "reset" /\ g = c.gen)
<1>1. PICK i \in DOMAIN Append(q, c) :
         Append(q, c)[i].op = "reset" /\ g = Append(q, c)[i].gen
  BY DEF QueuedResets
<1>2. \/ i \in DOMAIN q /\ Append(q, c)[i] = q[i]
      \/ Append(q, c)[i] = c
  OBVIOUS
<1> QED BY <1>1, <1>2 DEF QueuedResets

\* No step adds an undecided wipe, except the un-finish edge that takes a new
\* generation for it.
LEMMA PendingResetsGrow ==
  ASSUME TypeOK, [Next]_vars, NEW g \in PendingResets'
  PROVE  \/ g \in PendingResets
         \/ UnfinishEdge /\ g = finish_timer_gen + 1 /\ Feed
<1>0. worker_cmds \in Seq(Commands) BY DEF TypeOK
<1>1. CASE Feed
  <2>1. UNCHANGED worker_cmds BY <1>1 DEF Feed
  <2>2. reset_tasks' = reset_tasks
        \/ (UnfinishEdge /\ reset_tasks' = reset_tasks \cup {finish_timer_gen + 1})
    BY <1>1 DEF Feed, LanePacket, EventPacket, RaceStateChanged, FinishEdge,
                UnfinishEdge, NoEffect, timers
  <2> QED BY <1>1, <2>1, <2>2 DEF PendingResets
<1>2. CASE DrainOne
  <2>1. worker_cmds # <<>> /\ worker_cmds' = Tail(worker_cmds)
    BY <1>2 DEF DrainOne
  <2>2. reset_tasks' = reset_tasks
    BY <1>2 DEF DrainOne, Execute, GotoHeat, StepHeat, WorkerSetHeat,
                WorkerClearHeat, ForgetRace, BoardReset, NoEffect, timers
  <2> QED BY <1>0, <2>1, <2>2, QueuedTail DEF PendingResets
<1>3. CASE DrainDone
  BY <1>3 DEF DrainDone, NoEffect, timers, PendingResets
<1>4. ASSUME NEW t \in finish_tasks, FinishTimeout(t) \/ FinishPublish(t)
      PROVE  g \in PendingResets
  BY <1>4 DEF FinishTimeout, FinishPublish, PendingResets
<1>5. ASSUME NEW r \in reset_tasks, ResetTimeout(r)
      PROVE  g \in PendingResets
  <2>1. [op |-> "reset", gen |-> r] \in Commands
    BY DEF TypeOK, Commands
  <2>2. g \in reset_tasks \/ g \in QueuedResets(worker_cmds')
    BY <1>5 DEF ResetTimeout, PendingResets
  <2> QED BY <1>0, <1>5, <2>1, <2>2, QueuedAppend
          DEF ResetTimeout, PendingResets
<1>6. CASE Operator
  <2>1. PICK c \in OperatorCommands : worker_cmds' = Append(worker_cmds, c)
    BY <1>6 DEF Operator
  <2>2. c \in Commands /\ c.op # "reset"
    BY DEF OperatorCommands, Commands
  <2>3. g \in reset_tasks \/ g \in QueuedResets(worker_cmds')
    BY <1>6 DEF Operator, PendingResets, timers
  <2> QED BY <1>0, <2>1, <2>2, <2>3, QueuedAppend DEF PendingResets
<1>7. CASE JoinResults \/ UNCHANGED vars
  BY <1>7 DEF JoinResults, vars, timers, PendingResets
<1> QED BY <1>1, <1>2, <1>3, <1>4, <1>5, <1>6, <1>7 DEF Next, Worker, Debounce

-----------------------------------------------------------------------------
(* One lemma per conjunct: each step preserves it.                         *)

LEMMA RaceStateInductive ==
  TypeOK /\ RaceStateAgrees /\ [Next]_vars => RaceStateAgrees'
<1> SUFFICES ASSUME TypeOK, RaceStateAgrees, [Next]_vars
             PROVE  RaceStateAgrees'
  OBVIOUS
<1>0. /\ RaceFinished(DarkLanes) = FALSE
      /\ {l \in BoardLanes : DarkLanes[l] = "running"} = {}
  BY DarkNotFinished DEF DarkLanes, RaceFinished
<1>1. ASSUME NEW l \in BoardLanes, NEW s \in LaneState, LanePacket(l, s)
      PROVE  RaceStateAgrees'
  <2>1. prev_finished' = RaceFinished(lane')
    BY <1>1 DEF LanePacket, RaceStateChanged
  <2>2. running_lanes' = {k \in BoardLanes : lane'[k] = "running"}
    BY <1>1 DEF LanePacket, TypeOK, RaceStateAgrees
  <2>3. board' = lane'
    BY <1>1 DEF LanePacket, RaceStateAgrees
  <2> QED BY <2>1, <2>2, <2>3 DEF RaceStateAgrees, RaceFinished
<1>2. ASSUME NEW h \in ConsoleHeats, EventPacket(h) PROVE RaceStateAgrees'
  BY <1>0, <1>2 DEF EventPacket, RaceStateChanged, RaceStateAgrees, RaceFinished
<1>3. ASSUME NEW h, WorkerSetHeat(h) PROVE RaceStateAgrees'
  BY <1>0, <1>3 DEF WorkerSetHeat, ForgetRace, RaceStateAgrees, RaceFinished
<1>4. CASE WorkerClearHeat
  BY <1>0, <1>4 DEF WorkerClearHeat, ForgetRace, RaceStateAgrees, RaceFinished
<1>5. CASE NoEffect
  BY <1>5 DEF NoEffect, decoder, RaceStateAgrees, RaceFinished
<1>6. ASSUME NEW g, BoardReset(g) PROVE RaceStateAgrees'
  <2>1. CASE NoEffect BY <1>5, <2>1
  <2>2. CASE WipeAllowed(g) /\ ~NoEffect
    BY <1>0, <1>6, <2>2 DEF BoardReset, WipeAllowed, RaceStateAgrees, RaceFinished
  <2> QED BY <1>6, <2>1, <2>2 DEF BoardReset
<1>7. CASE Feed BY <1>1, <1>2, <1>5, <1>7 DEF Feed
<1>8. CASE DrainOne
  BY <1>3, <1>4, <1>5, <1>6, <1>8 DEF DrainOne, Execute, GotoHeat, StepHeat
<1>9. CASE DrainDone BY <1>5, <1>9 DEF DrainDone
<1>10. CASE Debounce \/ Operator \/ JoinResults \/ UNCHANGED vars
  BY <1>10 DEF Debounce, FinishTimeout, FinishPublish, ResetTimeout, Operator,
     JoinResults, vars, decoder, RaceStateAgrees, RaceFinished
<1> QED BY <1>7, <1>8, <1>9, <1>10 DEF Next, Worker

\* The race state moves only by the finish edge, the un-finish edge, a hand
\* change, or not at all.
LEMMA RaceStep ==
  ASSUME TypeOK, Feed \/ DrainOne \/ DrainDone
  PROVE  \/ /\ ~prev_finished /\ prev_finished'
            /\ last_event_sent' # TestRace
            /\ \E ls : FinishEdge(last_event_sent', ls)
         \/ UnfinishEdge /\ prev_finished /\ Feed
         \/ /\ finish_timer_gen' = finish_timer_gen + 1
            /\ UNCHANGED <<last_results, timers>>
         \/ /\ UNCHANGED <<finish_timer_gen, last_results, timers>>
            /\ prev_finished => UNCHANGED <<prev_finished, last_event_sent>>
<1>1. ASSUME NEW l \in BoardLanes, NEW s \in LaneState, LanePacket(l, s), Feed
      PROVE  \/ /\ ~prev_finished /\ prev_finished'
                /\ last_event_sent' # TestRace
                /\ \E ls : FinishEdge(last_event_sent', ls)
             \/ UnfinishEdge /\ prev_finished /\ Feed
             \/ /\ UNCHANGED <<finish_timer_gen, last_results, timers>>
                /\ prev_finished => UNCHANGED <<prev_finished, last_event_sent>>
  <2>1. last_event_sent' = last_event_sent
    BY <1>1 DEF LanePacket
  <2>2. prev_finished' = RaceFinished(lane') /\ prev_finished' \in BOOLEAN
    BY <1>1 DEF LanePacket, RaceStateChanged, RaceFinished
  <2>3. RaceStateChanged(last_event_sent, lane')
    BY <1>1 DEF LanePacket
  <2> QED BY <1>1, <2>1, <2>2, <2>3 DEF RaceStateChanged, TypeOK
<1>2. ASSUME NEW h \in ConsoleHeats, EventPacket(h), Feed
      PROVE  \/ UnfinishEdge /\ prev_finished /\ Feed
             \/ /\ UNCHANGED <<finish_timer_gen, last_results, timers>>
                /\ prev_finished => UNCHANGED <<prev_finished, last_event_sent>>
  BY <1>2, DarkNotFinished DEF EventPacket, RaceStateChanged, TypeOK
<1>3. ASSUME ForgetRace
      PROVE  /\ finish_timer_gen' = finish_timer_gen + 1
             /\ UNCHANGED <<last_results, timers>>
  BY <1>3 DEF ForgetRace
<1>4. ASSUME NoEffect
      PROVE  /\ UNCHANGED <<finish_timer_gen, last_results, timers>>
             /\ UNCHANGED <<prev_finished, last_event_sent>>
  BY <1>4 DEF NoEffect, decoder
<1>5. ASSUME NEW g, BoardReset(g)
      PROVE  /\ UNCHANGED <<finish_timer_gen, last_results, timers>>
             /\ UNCHANGED <<prev_finished, last_event_sent>>
  BY <1>4, <1>5 DEF BoardReset
<1>6. CASE Feed BY <1>1, <1>2, <1>4, <1>6 DEF Feed
<1>7. CASE DrainOne
  BY <1>3, <1>4, <1>5, <1>7
     DEF DrainOne, Execute, GotoHeat, StepHeat, WorkerSetHeat, WorkerClearHeat
<1>8. CASE DrainDone BY <1>4, <1>8 DEF DrainDone
<1> QED BY <1>6, <1>7, <1>8

\* What the worker's steps leave alone.
LEMMA WorkerKeepsScreens == Worker => UNCHANGED screens
  BY DEF Worker, Feed, DrainOne, DrainDone

LEMMA OthersKeepRace ==
  ASSUME \/ Debounce \/ Operator \/ JoinResults \/ UNCHANGED vars
  PROVE  UNCHANGED <<finish_timer_gen, last_results, prev_finished,
                     last_event_sent>>
  BY DEF Debounce, FinishTimeout, FinishPublish, ResetTimeout, Operator,
         JoinResults, vars, decoder

LEMMA PendingFinishInductive ==
  TypeOK /\ TimersOrdered /\ PendingFinishIsCurrent /\ [Next]_vars
    => PendingFinishIsCurrent'
<1> SUFFICES ASSUME TypeOK, TimersOrdered, PendingFinishIsCurrent, [Next]_vars,
                    NEW t \in finish_tasks', t.st = "asleep",
                    t.gen = finish_timer_gen'
             PROVE  /\ prev_finished'
                    /\ t.snap = last_results'
                    /\ t.snap.heat = last_event_sent'
  BY DEF PendingFinishIsCurrent
<1>0. /\ finish_timer_gen \in Nat
      /\ \A u \in finish_tasks : u.gen \in Nat /\ u.gen <= finish_timer_gen
  BY DEF TypeOK, FinishTasks, TimersOrdered
<1>1. ASSUME t \in finish_tasks,
             UNCHANGED <<finish_timer_gen, last_results>>,
             prev_finished => UNCHANGED <<prev_finished, last_event_sent>>
      PROVE  /\ prev_finished'
             /\ t.snap = last_results'
             /\ t.snap.heat = last_event_sent'
  BY <1>1 DEF PendingFinishIsCurrent
<1>2. CASE Worker
  <2>1. ASSUME NEW ls, FinishEdge(last_event_sent', ls), prev_finished'
        PROVE  /\ prev_finished'
               /\ t.snap = last_results'
               /\ t.snap.heat = last_event_sent'
    <3>1. t.gen = finish_timer_gen + 1
      BY <2>1 DEF FinishEdge
    <3>2. t \notin finish_tasks
      BY <1>0, <3>1
    <3> QED BY <2>1, <3>2 DEF FinishEdge
  <2>2. CASE UnfinishEdge
    BY <1>0, <2>2 DEF UnfinishEdge
  <2>3. CASE finish_timer_gen' = finish_timer_gen + 1
             /\ UNCHANGED <<last_results, timers>>
    BY <1>0, <2>3 DEF timers
  <2>4. CASE /\ UNCHANGED <<finish_timer_gen, last_results, timers>>
             /\ prev_finished => UNCHANGED <<prev_finished, last_event_sent>>
    BY <1>1, <2>4 DEF timers
  <2> QED BY <1>2, <2>1, <2>2, <2>3, <2>4, RaceStep DEF Worker
<1>3. CASE \E u \in finish_tasks : FinishTimeout(u) \/ FinishPublish(u)
  <2>1. PICK u \in finish_tasks : FinishTimeout(u) \/ FinishPublish(u)
    BY <1>3
  <2>2. u \in FinishTasks
    BY DEF TypeOK
  <2>3. [u EXCEPT !.st = "passed"].st = "passed"
    BY <2>2 DEF FinishTasks
  <2>4. t \in finish_tasks
    BY <2>1, <2>3 DEF FinishTimeout, FinishPublish
  <2>5. Debounce BY <1>3 DEF Debounce
  <2> QED BY <1>1, <2>4, <2>5, OthersKeepRace
<1>4. CASE \/ \E g \in reset_tasks : ResetTimeout(g)
           \/ Operator \/ JoinResults \/ UNCHANGED vars
  <2>1. finish_tasks' = finish_tasks
    BY <1>4 DEF ResetTimeout, Operator, JoinResults, vars, timers
  <2>2. Debounce \/ Operator \/ JoinResults \/ UNCHANGED vars
    BY <1>4 DEF Debounce
  <2> QED BY <1>1, <2>1, <2>2, OthersKeepRace
<1> QED BY <1>2, <1>3, <1>4 DEF Next, Debounce

LEMMA TestRaceInductive ==
  TypeOK /\ TimersOrdered /\ TestRaceNotPublished /\ [Next]_vars
    => TestRaceNotPublished'
<1> SUFFICES ASSUME TypeOK, TimersOrdered, TestRaceNotPublished, [Next]_vars
             PROVE  TestRaceNotPublished'
  OBVIOUS
<1>1. CASE Worker
  <2>1. published' = published
    BY <1>1, WorkerKeepsScreens DEF screens
  <2>2. ASSUME NEW ls, FinishEdge(last_event_sent', ls),
               last_event_sent' # TestRace
        PROVE  last_results'.heat # TestRace
    BY <2>2 DEF FinishEdge
  <2>3. CASE UnfinishEdge BY <2>1, <2>3 DEF UnfinishEdge, TestRaceNotPublished
  <2> QED BY <1>1, <2>1, <2>2, <2>3, RaceStep DEF Worker, TestRaceNotPublished
<1>2. ASSUME NEW u \in finish_tasks, FinishPublish(u)
      PROVE  TestRaceNotPublished'
  BY <1>2 DEF FinishPublish, TimersOrdered, TestRaceNotPublished
<1>3. CASE \/ \E u \in finish_tasks : FinishTimeout(u)
           \/ \E g \in reset_tasks : ResetTimeout(g)
           \/ Operator \/ JoinResults \/ UNCHANGED vars
  BY <1>3 DEF FinishTimeout, ResetTimeout, Operator, JoinResults, vars,
              screens, TestRaceNotPublished
<1> QED BY <1>1, <1>2, <1>3 DEF Next, Debounce

\* Only an un-finish edge adds an undecided wipe.
LEMMA PendingResetsKept ==
  ASSUME TypeOK, TimersOrdered, [Next]_vars,
         UNCHANGED reset_tasks \/ UNCHANGED finish_timer_gen
  PROVE  PendingResets' \subseteq PendingResets
<1> SUFFICES ASSUME NEW g \in PendingResets', UnfinishEdge,
                    g = finish_timer_gen + 1
             PROVE  g \in PendingResets
  BY PendingResetsGrow
<1>1. finish_timer_gen \in Nat BY DEF TypeOK
<1>2. finish_timer_gen + 1 \in reset_tasks
  BY <1>1 DEF UnfinishEdge
<1> QED BY <1>2 DEF PendingResets

\* A step of another thread that leaves the timers' variables alone.
LEMMA TimersKept ==
  ASSUME TypeOK, TimersOrdered, [Next]_vars,
         UNCHANGED <<last_results, finish_timer_gen, finish_tasks,
                     published, console_times>>
  PROVE  TimersOrdered'
<1>1. PendingResets' \subseteq PendingResets BY PendingResetsKept
<1> QED BY <1>1 DEF TimersOrdered

LEMMA TimersInductive ==
  TypeOK /\ TimersOrdered /\ [Next]_vars => TimersOrdered'
<1> SUFFICES ASSUME TypeOK, TimersOrdered, [Next]_vars PROVE TimersOrdered'
  OBVIOUS
<1>0. /\ finish_timer_gen \in Nat /\ last_results.id \in Nat
      /\ published.id \in Nat
      /\ \A h \in RealHeats : console_times[h] \in Nat
      /\ \A t \in finish_tasks : t.gen \in Nat /\ t.snap.id = t.gen
  BY DEF TypeOK, Snapshots, FinishTasks, TimersOrdered
<1>p. reset_tasks \subseteq PendingResets
      /\ \A g \in reset_tasks : g <= finish_timer_gen
  BY DEF PendingResets, TimersOrdered
<1>n. /\ \A g \in PendingResets : g \in Nat
      /\ finish_timer_gen + 1 \notin PendingResets
  <2>1. ASSUME NEW g \in PendingResets PROVE g \in Nat
    <3>1. CASE g \in reset_tasks BY <3>1 DEF TypeOK
    <3>2. CASE g \in QueuedResets(worker_cmds)
      <4>1. PICK i \in DOMAIN worker_cmds :
              worker_cmds[i].op = "reset" /\ g = worker_cmds[i].gen
        BY <3>2 DEF QueuedResets
      <4>2. worker_cmds[i] \in Commands BY DEF TypeOK
      <4> QED BY <4>1, <4>2 DEF Commands
    <3> QED BY <2>1, <3>1, <3>2 DEF PendingResets
  <2> QED BY <1>0, <2>1 DEF TimersOrdered
<1>1. CASE Worker
  <2>0. UNCHANGED <<published, console_times>>
    BY <1>1, WorkerKeepsScreens DEF screens
  <2>1. ASSUME NEW ls, FinishEdge(last_event_sent', ls),
               last_event_sent' # TestRace
        PROVE  TimersOrdered'
    <3>1. PendingResets' \subseteq PendingResets
      BY <2>1, PendingResetsKept DEF FinishEdge
    <3> DEFINE new == [gen  |-> finish_timer_gen + 1,
                       snap |-> [heat  |-> last_event_sent',
                                 lanes |-> TimedLanes(ls),
                                 id    |-> finish_timer_gen + 1],
                       st   |-> "asleep"]
    <3>a. finish_tasks' = finish_tasks \cup {new}
      BY <2>1 DEF FinishEdge
    <3>b. /\ new.gen = finish_timer_gen + 1
          /\ new.snap.id = finish_timer_gen + 1
          /\ new.snap.heat # TestRace
          /\ new.st = "asleep"
      BY <2>1
    <3> HIDE DEF new
    <3>2. /\ finish_tasks' = finish_tasks \cup {new}
          /\ new.gen = finish_timer_gen + 1
          /\ new.snap.id = finish_timer_gen + 1
          /\ new.snap.heat # TestRace
          /\ new.st = "asleep"
      BY <3>a, <3>b
    <3>3. last_results'.id = finish_timer_gen + 1
          /\ finish_timer_gen' = finish_timer_gen + 1
      BY <2>1 DEF FinishEdge
    <3>4. \A h \in RealHeats : console_times'[h] <= published'.id
      BY <2>0 DEF TimersOrdered
    <3>5. /\ last_results'.id <= finish_timer_gen'
          /\ published'.id <= finish_timer_gen'
      BY <1>0, <2>0, <3>3 DEF TimersOrdered
    <3>6. \A g \in PendingResets' : g <= finish_timer_gen'
      BY <1>0, <1>n, <3>1, <3>3 DEF TimersOrdered
    <3>7. ASSUME NEW t \in finish_tasks'
          PROVE  /\ t.gen <= finish_timer_gen'
                 /\ t.snap.id = t.gen
                 /\ t.snap.heat # TestRace
                 /\ t.gen \notin PendingResets'
                 /\ t.st = "passed" => published'.id <= t.gen
      <4>1. CASE t \in finish_tasks
        BY <1>0, <2>0, <3>1, <3>3, <4>1 DEF TimersOrdered
      <4>2. CASE t = new
        BY <1>0, <1>n, <2>0, <3>1, <3>2, <3>3, <4>2
      <4> QED BY <3>2, <4>1, <4>2
    <3>8. \A t, u \in finish_tasks' :
            t.st = "passed" /\ u.st = "passed" => t = u
      BY <3>2 DEF TimersOrdered
    <3> QED BY <3>4, <3>5, <3>6, <3>7, <3>8 DEF TimersOrdered
  <2>2. CASE UnfinishEdge
    <3>1. PendingResets' \subseteq PendingResets \cup {finish_timer_gen + 1}
      BY PendingResetsGrow
    <3>2. /\ finish_timer_gen' = finish_timer_gen + 1
          /\ UNCHANGED <<last_results, finish_tasks>>
      BY <2>2 DEF UnfinishEdge
    <3>3. ASSUME NEW t \in finish_tasks
          PROVE  t.gen <= finish_timer_gen' /\ t.gen \notin PendingResets'
      BY <1>0, <3>1, <3>2 DEF TimersOrdered
    <3>4. \A g \in PendingResets' : g <= finish_timer_gen'
      BY <1>0, <1>n, <3>1, <3>2 DEF TimersOrdered
    <3>5. last_results'.id <= finish_timer_gen'
          /\ published'.id <= finish_timer_gen'
      BY <1>0, <2>0, <3>2 DEF TimersOrdered
    <3> QED BY <2>0, <3>2, <3>3, <3>4, <3>5 DEF TimersOrdered
  <2>3. CASE finish_timer_gen' = finish_timer_gen + 1
             /\ UNCHANGED <<last_results, timers>>
    <3>1. PendingResets' \subseteq PendingResets
      BY <2>3, PendingResetsKept DEF timers
    <3> QED BY <1>0, <1>n, <2>0, <2>3, <3>1 DEF TimersOrdered, timers
  <2>4. CASE UNCHANGED <<finish_timer_gen, last_results, timers>>
    BY <2>0, <2>4, TimersKept DEF timers
  <2> QED BY <1>1, <2>1, <2>2, <2>3, <2>4, RaceStep DEF Worker
<1>2. ASSUME NEW u \in finish_tasks, FinishTimeout(u) PROVE TimersOrdered'
  <2>1. PendingResets' \subseteq PendingResets
    BY <1>2, PendingResetsKept DEF FinishTimeout
  <2>2. UNCHANGED <<finish_timer_gen, last_results, published, console_times>>
    BY <1>2 DEF FinishTimeout, screens
  <2>3. CASE finish_timer_gen # u.gen
    BY <1>2, <2>1, <2>2, <2>3 DEF TimersOrdered, FinishTimeout
  <2>4. CASE finish_timer_gen = u.gen
    <3>1. u \in FinishTasks BY DEF TypeOK
    <3> DEFINE new == [u EXCEPT !.st = "passed"]
    <3>a. finish_tasks' = (finish_tasks \ {u}) \cup {new}
      BY <1>2, <2>4 DEF FinishTimeout
    <3>b. new.gen = u.gen /\ new.snap = u.snap /\ new.st = "passed"
      BY <3>1 DEF FinishTasks
    <3> HIDE DEF new
    <3>2. /\ finish_tasks' = (finish_tasks \ {u}) \cup {new}
          /\ new.gen = u.gen
          /\ new.snap = u.snap
          /\ new.st = "passed"
      BY <3>a, <3>b
    <3>3. \A t \in finish_tasks : t.st # "passed"
      BY <1>2 DEF FinishTimeout
    <3>4. ASSUME NEW t \in finish_tasks'
          PROVE  /\ t.gen <= finish_timer_gen'
                 /\ t.snap.id = t.gen
                 /\ t.snap.heat # TestRace
                 /\ t.gen \notin PendingResets'
                 /\ t.st = "passed" => published'.id <= t.gen
      <4>1. CASE t \in finish_tasks
        BY <2>1, <2>2, <3>3, <4>1 DEF TimersOrdered
      <4>2. CASE t = new
        BY <2>1, <2>2, <2>4, <3>2, <4>2 DEF TimersOrdered
      <4> QED BY <3>2, <4>1, <4>2
    <3>5. \A t, v \in finish_tasks' :
            t.st = "passed" /\ v.st = "passed" => t = v
      BY <3>2, <3>3
    <3> QED BY <2>1, <2>2, <3>4, <3>5 DEF TimersOrdered
  <2> QED BY <2>3, <2>4
<1>3. ASSUME NEW u \in finish_tasks, FinishPublish(u) PROVE TimersOrdered'
  <2>1. PendingResets' \subseteq PendingResets
    BY <1>3, PendingResetsKept DEF FinishPublish
  <2>2. /\ UNCHANGED <<finish_timer_gen, last_results>>
        /\ finish_tasks' = finish_tasks \ {u}
        /\ published' = u.snap /\ published'.id = u.gen
        /\ published.id <= u.gen /\ u.gen <= finish_timer_gen
    BY <1>0, <1>3 DEF FinishPublish, TimersOrdered
  <2>3. \A t \in finish_tasks' : t.st # "passed"
    BY <1>3, <2>2 DEF TimersOrdered, FinishPublish
  <2>4. ASSUME NEW h \in RealHeats PROVE console_times'[h] <= published'.id
    <3>1. console_times[h] <= u.gen
      BY <1>0, <2>2 DEF TimersOrdered
    <3>2. console_times'[h] = console_times[h] \/ console_times'[h] = u.gen
      BY <1>0, <1>3 DEF FinishPublish, TypeOK
    <3> QED BY <1>0, <2>2, <3>1, <3>2
  <2> QED BY <2>1, <2>2, <2>3, <2>4 DEF TimersOrdered
<1>4. CASE \/ \E g \in reset_tasks : ResetTimeout(g)
           \/ Operator \/ JoinResults \/ UNCHANGED vars
  BY <1>4, TimersKept DEF ResetTimeout, Operator, JoinResults, vars, timers,
                          screens
<1> QED BY <1>1, <1>2, <1>3, <1>4 DEF Next, Debounce

-----------------------------------------------------------------------------
(* The theorems.                                                           *)

LEMMA InitIInv == Init => IInv
<1> SUFFICES ASSUME Init PROVE IInv OBVIOUS
<1>1. Init => TypeOK
  BY InitType
<1>2. prev_finished = RaceFinished(lane)
  <2>1. RaceFinished(DarkLanes) = FALSE
    BY DarkNotFinished DEF RaceFinished
  <2> QED BY <2>1 DEF Init
<1>3. running_lanes = {l \in BoardLanes : lane[l] = "running"}
  BY DEF Init, DarkLanes
<1>4. RaceStateAgrees
  BY <1>2, <1>3 DEF Init, RaceStateAgrees
<1>5. PendingResets = {}
  BY DEF Init, PendingResets, QueuedResets
<1>6. TimersOrdered
  BY <1>5 DEF Init, TimersOrdered, NoResults
<1>7. TestRaceNotPublished
  BY HeatsAssumption DEF Init, NoResults, TestRaceNotPublished, ConsoleHeats
<1>8. PendingFinishIsCurrent
  BY DEF Init, PendingFinishIsCurrent
<1> QED BY <1>1, <1>4, <1>6, <1>7, <1>8 DEF IInv

\* The inductive invariant holds in every reachable state.
THEOREM InductiveInvariant == Spec => []IInv
<1>1. Init => IInv BY InitIInv
<1>2. IInv /\ [Next]_vars => IInv'
  BY NextType, RaceStateInductive, PendingFinishInductive, TimersInductive,
     TestRaceInductive DEF IInv
<1> QED BY <1>1, <1>2, PTL DEF Spec

\* The worker's running set, remembered race state and board replay agree with
\* the decoder at every packet boundary, whatever commands and wipes ran.
THEOREM RaceStateCorrect == Spec => []RaceStateAgrees
<1>1. IInv => RaceStateAgrees BY DEF IInv
<1> QED BY <1>1, InductiveInvariant, PTL

\* A finish task that would still fire captured the race now on the board.
THEOREM PendingFinishCorrect == Spec => []PendingFinishIsCurrent
<1>1. IInv => PendingFinishIsCurrent BY DEF IInv
<1> QED BY <1>1, InductiveInvariant, PTL

\* No generation is held both by a pending result and by a pending wipe.
THEOREM WipeExclusion == Spec => []WipeExcludesConfirm
<1>1. IInv => WipeExcludesConfirm
  BY DEF IInv, TimersOrdered, WipeExcludesConfirm
<1> QED BY <1>1, InductiveInvariant, PTL

\* What sleeps over a race and could still fire is one result, that of the race
\* on the board, or one wipe.
THEOREM TimersCorrect == Spec => []TimersSpeakForBoard
<1>1. PendingFinishIsCurrent /\ WipeExcludesConfirm => TimersSpeakForBoard
  BY DEF TimersSpeakForBoard
<1> QED BY <1>1, PendingFinishCorrect, WipeExclusion, PTL

\* The test race reaches neither the Results replay nor the screens.
THEOREM TestRaceHidden == Spec => []TestRaceNotPublished
<1>1. IInv => TestRaceNotPublished BY DEF IInv
<1> QED BY <1>1, InductiveInvariant, PTL

\* Results are published, and kept on the Schedule, in finishing order.
THEOREM PublicationOrder == Spec => PublishedInOrder
<1> DEFINE Ordered ==
      /\ published'.id >= published.id
      /\ \A h \in RealHeats : console_times'[h] >= console_times[h]
<1>1. IInv /\ [Next]_vars => [Ordered]_<<published, console_times>>
  <2> SUFFICES ASSUME IInv, [Next]_vars,
                      ~UNCHANGED <<published, console_times>>
               PROVE  Ordered
    OBVIOUS
  <2>1. PICK u \in finish_tasks : FinishPublish(u)
    <3>1. Worker => UNCHANGED <<published, console_times>>
      BY WorkerKeepsScreens DEF screens
    <3> QED BY <3>1 DEF Next, Debounce, FinishTimeout, ResetTimeout, Operator,
                        JoinResults, vars, screens
  <2>2. /\ u.gen \in Nat /\ u.snap.id = u.gen /\ published.id <= u.gen
        /\ published.id \in Nat
        /\ \A h \in RealHeats : /\ console_times[h] \in Nat
                                /\ console_times[h] <= published.id
    BY <2>1 DEF IInv, TypeOK, FinishTasks, Snapshots, TimersOrdered,
                FinishPublish
  <2>3. published'.id = u.gen
    BY <2>1, <2>2 DEF FinishPublish
  <2>4. ASSUME NEW h \in RealHeats PROVE console_times'[h] >= console_times[h]
    <3>1. console_times'[h] = console_times[h] \/ console_times'[h] = u.gen
      BY <2>1, <2>2 DEF FinishPublish, IInv, TypeOK
    <3> QED BY <2>2, <3>1
  <2> QED BY <2>2, <2>3, <2>4
<1> QED BY <1>1, InductiveInvariant, PTL DEF Spec, PublishedInOrder
=============================================================================
