--------------------------- MODULE ConsoleProofs ---------------------------
(*****************************************************************************)
(* The invariant of RaceHeard: what is true of any pool, wire and decoder,   *)
(* and that the steps of Seiko, Quantum, Daktronics and ALGE keep it.  Any   *)
(* start list, number of lanes and lengths.                                  *)
(*****************************************************************************)
EXTENDS RaceHeard, FiniteSetTheorems, TLAPS

-----------------------------------------------------------------------------
(* Lanes, heats and ranks.                                                  *)

\* The lanes are finitely many, numbered from 1.
LEMMA LanesFinite ==
    /\ IsFiniteSet(Lanes) /\ Lanes \subseteq Nat \ {0} /\ 0 \notin Lanes
    /\ \A S \in SUBSET Lanes : IsFiniteSet(S) /\ Cardinality(S) \in Nat
<1>1. IsFiniteSet(1..Cardinality(Lanes))
  BY FS_Interval, ConsoleAssumption
<1>2. IsFiniteSet(Lanes)
  BY <1>1, ConsoleAssumption
<1>3. \A S \in SUBSET Lanes : IsFiniteSet(S)
  BY <1>2, FS_Subset
<1>4. \A S \in SUBSET Lanes : Cardinality(S) \in Nat
  BY <1>3, FS_CardinalityType
<1> QED BY <1>2, <1>3, <1>4, ConsoleAssumption

\* Somebody swims in each heat.
LEMMA HeatsSwum ==
    ASSUME NEW h \in Heats
    PROVE  Swimmers[h] \in SUBSET Lanes /\ Swimmers[h] # {}
  BY ConsoleAssumption DEF Heats

\* A heat is a number from 1 on.
LEMMA HeatsNat ==
    /\ HeatOrNone \subseteq Nat /\ Heats = HeatOrNone \ {0} /\ 0 \in HeatOrNone
    /\ \A h \in Heats : h \in HeatOrNone /\ h \in Nat /\ h > 0 /\ h # 0
  BY ConsoleAssumption DEF Heats, HeatOrNone

\* A rank is at most the number of lanes.
LEMMA RankType ==
    ASSUME NEW p, NEW l \in Lanes
    PROVE  RankIn(p, l) \in Lanes
<1> DEFINE S == {k \in Lanes \ {l} : p.legs[k] >= p.legs[l] /\ k \notin p.out
                                     /\ (p.legs[k] = p.legs[l] => p.mark[k] < p.mark[l])}
<1>1. S \subseteq Lanes \ {l} /\ RankIn(p, l) = 1 + Cardinality(S)
  BY DEF RankIn
<1> HIDE DEF S
<1>2. IsFiniteSet(Lanes \ {l}) /\ Cardinality(Lanes \ {l}) = Cardinality(Lanes) - 1
  BY LanesFinite, FS_RemoveElement
<1>3. Cardinality(S) \in Nat /\ Cardinality(S) <= Cardinality(Lanes \ {l})
  BY <1>1, <1>2, FS_Subset, FS_CardinalityType
<1> QED BY <1>1, <1>2, <1>3, ConsoleAssumption

\* Who was before lane l in the pool p.
Before(p, k, l) ==
    /\ p.legs[k] >= p.legs[l] /\ k \notin p.out
    /\ p.legs[k] = p.legs[l] => p.mark[k] < p.mark[l]

\* A rank depends only on who came before.
LEMMA SameRank ==
    ASSUME NEW p, NEW q, NEW l \in Lanes,
           \A k \in Lanes \ {l} : Before(p, k, l) <=> Before(q, k, l)
    PROVE  RankIn(p, l) = RankIn(q, l)
<1>1. {k \in Lanes \ {l} : p.legs[k] >= p.legs[l] /\ k \notin p.out
                           /\ (p.legs[k] = p.legs[l] => p.mark[k] < p.mark[l])}
      = {k \in Lanes \ {l} : q.legs[k] >= q.legs[l] /\ k \notin q.out
                             /\ (q.legs[k] = q.legs[l] => q.mark[k] < q.mark[l])}
  BY DEF Before
<1> QED BY <1>1 DEF RankIn

\* There is a line of the board for each rank.
LEMMA LineType ==
    ASSUME NEW p, NEW l \in Lanes
    PROVE  LineOf(p, l) \in Lanes
  BY RankType DEF LineOf

\* The lanes of the heat that is on.
LEMMA InHeatIs ==
    ASSUME PoolInv
    PROVE  /\ pool.heat \in HeatOrNone /\ (pool.heat # 0 => InHeat = Swim(pool))
           /\ InHeat \in SUBSET Lanes /\ (pool.heat # 0 => InHeat # {})
<1>1. pool.heat \in HeatOrNone
  BY DEF PoolInv, Pools
<1> QED BY <1>1, HeatsSwum, HeatsNat DEF InHeat, Swim

-----------------------------------------------------------------------------
(* Messages on a wire.                                                      *)

\* The messages of a short wire.
LEMMA MsgsShort ==
    /\ Msgs(<<>>) = {}
    /\ \A a : Msgs(<<a>>) = {a} /\ <<a>> \in Seq({a})
    /\ \A a, b : Msgs(<<a, b>>) = {a, b} /\ <<a, b>> \in Seq({a, b})
  BY DEF Msgs

\* The messages of a wire are its first one and those of the rest.
LEMMA MsgsTail ==
    ASSUME NEW S, NEW w \in Seq(S), w # <<>>
    PROVE  /\ Head(w) \in Msgs(w) /\ Msgs(Tail(w)) \subseteq Msgs(w)
           /\ Msgs(w) \subseteq {Head(w)} \cup Msgs(Tail(w))
           /\ Tail(w) \in Seq(S) /\ Tail(w) \in Seq(Msgs(Tail(w)))
<1>1. Len(w) \in Nat /\ Len(w) # 0 /\ DOMAIN w = 1..Len(w) /\ Head(w) = w[1]
  OBVIOUS
<1>2. /\ DOMAIN Tail(w) = 1..(Len(w) - 1) /\ \A i \in 1..(Len(w) - 1) : Tail(w)[i] = w[i + 1]
      /\ Tail(w) \in Seq(S)
  BY <1>1
<1>3. Head(w) \in Msgs(w)
  BY <1>1 DEF Msgs
<1>4. Msgs(Tail(w)) \subseteq Msgs(w)
  <2> SUFFICES ASSUME NEW i \in 1..(Len(w) - 1) PROVE Tail(w)[i] \in Msgs(w)
    BY <1>2 DEF Msgs
  <2>1. i + 1 \in DOMAIN w /\ Tail(w)[i] = w[i + 1]
    BY <1>1, <1>2
  <2> QED BY <2>1 DEF Msgs
<1>5. Msgs(w) \subseteq {Head(w)} \cup Msgs(Tail(w))
  <2> SUFFICES ASSUME NEW i \in 1..Len(w), i # 1 PROVE w[i] \in Msgs(Tail(w))
    BY <1>1 DEF Msgs
  <2>1. i - 1 \in 1..(Len(w) - 1) /\ Tail(w)[i - 1] = w[(i - 1) + 1] /\ (i - 1) + 1 = i
    BY <1>1, <1>2
  <2>2. i - 1 \in DOMAIN Tail(w) /\ Tail(w)[i - 1] = w[i]
    BY <2>1, <1>2
  <2> QED BY <2>2 DEF Msgs
<1>6. Tail(w) \in Seq(Msgs(Tail(w)))
  <2> DEFINE v == Tail(w)
  <2>1. v \in Seq(S) /\ Len(v) \in Nat /\ DOMAIN v = 1..Len(v)
    BY <1>2
  <2> HIDE DEF v
  <2>2. \A i \in 1..Len(v) : v[i] \in Msgs(v)
    BY <2>1 DEF Msgs
  <2> SUFFICES v \in Seq(Msgs(v))
    BY DEF v
  <2>3. v \in [1..Len(v) -> Msgs(v)]
    BY <2>1, <2>2
  <2> QED BY <2>1, <2>3
<1> QED BY <1>2, <1>3, <1>4, <1>5, <1>6

\* A sequence of the lanes of a heat, each of them once.
LEMMA LanesInTurn ==
    ASSUME NEW S \in SUBSET Lanes
    PROVE  /\ SetToSeq(S) \in Seq(S) /\ Len(SetToSeq(S)) = Cardinality(S)
           /\ \A l \in S : \E i \in 1..Len(SetToSeq(S)) : SetToSeq(S)[i] = l
<1>1. IsFiniteSet(S) /\ Cardinality(S) \in Nat
  BY LanesFinite
<1>2. \E f : ExistsBijection(1..Cardinality(S), S)
  BY <1>1, FS_CardinalityType
<1>3. PICK f \in [1..Cardinality(S) -> S] : IsInjective(f)
  BY <1>2 DEF ExistsBijection, Bijection, Injection
<1>4. SetToSeq(S) \in [1..Cardinality(S) -> S] /\ IsInjective(SetToSeq(S))
  BY <1>3 DEF SetToSeq
<1> DEFINE g == SetToSeq(S)
           n == Cardinality(S)
           T == {g[i] : i \in 1..n}
<1>5. g \in [1..n -> S] /\ IsInjective(g)
  BY <1>4
<1>6. n \in Nat /\ IsFiniteSet(S)
  BY <1>1
<1> SUFFICES g \in Seq(S) /\ Len(g) = n /\ \A l \in S : \E i \in 1..Len(g) : g[i] = l
  OBVIOUS
<1> HIDE DEF g
<1>7. g \in [1..n -> T] /\ T \subseteq S
  BY <1>5
<1>8. g \in Bijection(1..n, T)
  BY <1>5, <1>7 DEF Bijection, Injection, Surjection, IsInjective
<1>9. Cardinality(T) = n
  BY <1>6, <1>8, FS_CountingElements DEF ExistsBijection
<1>10. T = S
  <2> HIDE DEF T
  <2> QED BY <1>6, <1>7, <1>9, FS_Subset
<1>11. \A l \in S : \E i \in 1..n : g[i] = l
  BY <1>10
<1>12. g \in Seq(S) /\ Len(g) = n
  <2> HIDE DEF n
  <2> QED BY <1>5, <1>6
<1> QED BY <1>11, <1>12

-----------------------------------------------------------------------------
(* The pool.                                                                *)

\* The pool made ready for a heat is a pool.
LEMMA MadePool ==
    ASSUME PoolInv, NEW h \in Heats
    PROVE  Made(h) \in Pools
  BY ConsoleAssumption, HeatsNat DEF Made, Pools, PoolInv, NoMarks, HeatOrNone, Heats

\* The pool made ready keeps the invariant.
LEMMA MadeKeeps ==
    ASSUME PoolInv, NEW h \in Heats, pool' = Made(h), kind' = kind
    PROVE  PoolInv'
<1>1. pool' \in Pools
  BY MadePool
<1>2. /\ pool'.heat = h /\ pool'.race = pool.race + 1 /\ pool'.phase = "ready" /\ pool'.n = 0
      /\ pool'.out = {} /\ pool'.blip = FALSE /\ pool'.wall = NoMarks
      /\ pool'.legs = NoMarks /\ pool'.mark = NoMarks
  BY DEF Made
<1>3. pool.race \in Nat /\ h # 0
  BY HeatsNat DEF PoolInv, Pools
<1>4. InHeat' = Swimmers[h] /\ Swimmers[h] # {}
  BY <1>2, <1>3, HeatsSwum DEF InHeat
<1>5. \A l \in Lanes : pool'.legs[l] = 0 /\ pool'.mark[l] = 0 /\ pool'.wall[l] = 0
  BY <1>2 DEF NoMarks
<1>6. Legs # 0
  BY ConsoleAssumption
<1> QED BY <1>1, <1>2, <1>3, <1>4, <1>5, <1>6 DEF PoolInv

\* The next heat is called.
LEMMA NextHeatPool ==
    ASSUME PoolInv, NextHeat
    PROVE  /\ PoolInv' /\ pool.heat + 1 \in Heats /\ pool.heat \in Nat
           /\ pool'.heat = pool.heat + 1 /\ pool' = Made(pool.heat + 1)
<1>1. pool.heat + 1 \in Heats /\ pool.heat \in Nat
  BY HeatsNat DEF NextHeat, PoolInv, Pools, Heats, HeatOrNone
<1>2. pool' = Made(pool.heat + 1) /\ kind' = kind
  BY DEF NextHeat, Send
<1> QED BY <1>1, <1>2, MadeKeeps DEF Made

\* The heat is to be swum again.
LEMMA ReswimPool ==
    ASSUME PoolInv, Reswim
    PROVE  PoolInv' /\ pool.heat \in Heats /\ pool'.heat = pool.heat /\ pool' = Made(pool.heat)
<1>1. pool.heat \in Heats
  BY HeatsNat DEF Reswim, PoolInv, Pools
<1>2. pool' = Made(pool.heat) /\ kind' = kind
  BY DEF Reswim, Send
<1> QED BY <1>1, <1>2, MadeKeeps DEF Made

\* The pool q is p with another phase, blip, or both.
SameSwum(p, q) ==
    /\ q.heat = p.heat /\ q.race = p.race /\ q.n = p.n /\ q.legs = p.legs /\ q.mark = p.mark
    /\ q.out = p.out /\ q.wall = p.wall

\* Where nothing is swum, ranks stay.
LEMMA SameSwumRank ==
    ASSUME NEW p, NEW q, SameSwum(p, q), NEW l \in Lanes
    PROVE  RankIn(q, l) = RankIn(p, l)
  BY SameRank DEF SameSwum, Before

\* The start keeps what has been swum.
LEMMA StartPool ==
    ASSUME PoolInv, Start
    PROVE  /\ PoolInv' /\ SameSwum(pool, pool') /\ pool'.phase = "racing"
           /\ pool.phase = "ready" /\ pool.heat # 0
<1>1. pool' \in Pools /\ SameSwum(pool, pool') /\ pool'.phase = "racing" /\ pool'.blip = pool.blip
  BY DEF Start, PoolInv, Pools, SameSwum
<1>2. kind' = kind /\ InHeat' = InHeat
  BY <1>1 DEF Start, Send, InHeat, SameSwum
<1>3. pool.phase = "ready" /\ pool.heat # 0
  BY DEF Start, PoolInv
<1> QED BY <1>1, <1>2, <1>3 DEF PoolInv, SameSwum

\* The end of the race keeps what has been swum.
LEMMA EndPool ==
    ASSUME PoolInv, End
    PROVE  /\ PoolInv' /\ SameSwum(pool, pool') /\ pool'.phase = "over"
           /\ pool.phase = "racing" /\ AllIn /\ AllIn'
<1>1. pool' \in Pools /\ SameSwum(pool, pool') /\ pool'.phase = "over" /\ pool'.blip = FALSE
  BY DEF End, PoolInv, Pools, SameSwum
<1>2. kind' = kind /\ InHeat' = InHeat /\ AllIn /\ pool.phase = "racing"
  BY <1>1 DEF End, Send, InHeat, SameSwum
<1>3. AllIn'
  BY <1>1, <1>2 DEF AllIn, SameSwum
<1> QED BY <1>1, <1>2, <1>3 DEF PoolInv, SameSwum

\* A flicker of a CTS display is not a touch.
LEMMA FlickerPool ==
    ASSUME PoolInv, NEW l \in Lanes, Flicker(l)
    PROVE  /\ PoolInv' /\ SameSwum(pool, pool') /\ pool'.phase = "racing"
           /\ pool.phase = "racing" /\ kind \in CTS /\ Swims(pool, l)
<1>1. pool' \in Pools /\ SameSwum(pool, pool') /\ pool'.phase = pool.phase /\ pool'.blip = TRUE
  BY DEF Flicker, PoolInv, Pools, SameSwum
<1>2. kind' = kind /\ InHeat' = InHeat /\ pool.phase = "racing" /\ pool.heat # 0 /\ kind \in CTS
  BY <1>1 DEF Flicker, Send, InHeat, SameSwum, PoolInv
<1>3. Swims(pool, l)
  BY <1>2, InHeatIs DEF Flicker, Swims, PoolInv, CTS
<1> QED BY <1>1, <1>2, <1>3 DEF PoolInv, SameSwum

\* The pool q is p after lane l touched.
Touched(p, q, l) ==
    /\ q.heat = p.heat /\ q.race = p.race /\ q.phase = p.phase /\ q.n = p.n + 1
    /\ q.out = p.out /\ q.blip = p.blip
    /\ q.legs[l] = p.legs[l] + 1 /\ q.mark[l] = Stamp(p.race, p.n + 1)
    /\ \A k \in Lanes \ {l} :
        q.legs[k] = p.legs[k] /\ q.mark[k] = p.mark[k] /\ q.wall[k] = p.wall[k]
    /\ q.wall[l] = IF kind \in CTS \cup Swiss /\ q.legs[l] < Legs THEN LineOf(q, l) ELSE 0

\* A pool whose touches change is a pool.
LEMMA PoolWith ==
    ASSUME NEW p \in Pools, NEW n \in Nat, NEW legs \in [Lanes -> 0..Legs],
           NEW mark \in [Lanes -> Nat]
    PROVE  [p EXCEPT !.n = n, !.legs = legs, !.mark = mark] \in Pools
  BY DEF Pools

\* A touch adds one length to the lane's.
LEMMA TouchMoves ==
    ASSUME PoolInv, NEW l \in Lanes, Touch(l)
    PROVE  /\ pool' \in Pools /\ Touched(pool, pool', l) /\ kind' = kind
           /\ pool.phase = "racing" /\ pool.heat # 0 /\ Swims(pool, l)
           /\ kind \in Swiss => \A k \in Lanes : pool.wall[k] # LineOf(pool', l)
<1> DEFINE legs2 == [pool.legs EXCEPT ![l] = @ + 1]
           mark2 == [pool.mark EXCEPT ![l] = Stamp(pool.race, pool.n + 1)]
           p == [pool EXCEPT !.n = @ + 1, !.legs[l] = @ + 1,
                             !.mark[l] = Stamp(pool.race, pool.n + 1)]
           stays == kind \in CTS \cup Swiss /\ p.legs[l] < Legs
           wall2 == [p.wall EXCEPT ![l] = IF stays THEN LineOf(p, l) ELSE 0]
<1>1. /\ pool \in Pools /\ pool.legs[l] < Legs /\ pool.phase = "racing" /\ kind' = kind
      /\ l \in InHeat \ pool.out /\ pool.wall[l] = 0
      /\ kind \in Swiss => \A k \in Lanes : pool.wall[k] # LineOf(p, l)
      /\ pool' = [p EXCEPT !.wall[l] = IF stays THEN LineOf(p, l) ELSE 0]
  BY DEF Touch, PoolInv, Send
<1>2. legs2 \in [Lanes -> 0..Legs] /\ mark2 \in [Lanes -> Nat]
  BY <1>1, ConsoleAssumption DEF Pools, Stamp
<1>3. p = [pool EXCEPT !.n = @ + 1, !.legs = legs2, !.mark = mark2]
  OBVIOUS
<1>4. /\ p \in Pools /\ p.legs = legs2 /\ p.mark = mark2 /\ p.wall = pool.wall
      /\ p.heat = pool.heat /\ p.race = pool.race /\ p.phase = pool.phase /\ p.n = pool.n + 1
      /\ p.out = pool.out /\ p.blip = pool.blip
  <2>1. pool \in Pools /\ pool.n + 1 \in Nat
    BY DEF PoolInv, Pools
  <2> HIDE DEF legs2, mark2, p, stays, wall2
  <2>2. p \in Pools
    BY <2>1, <1>2, <1>3, PoolWith
  <2>3. p.legs = legs2 /\ p.mark = mark2 /\ p.wall = pool.wall
    BY <2>1, <1>2, <1>3 DEF Pools
  <2>4. /\ p.heat = pool.heat /\ p.race = pool.race /\ p.phase = pool.phase
        /\ p.out = pool.out /\ p.blip = pool.blip
    BY <2>1, <1>2, <1>3 DEF Pools
  <2>5. p.n = pool.n + 1
    BY <2>1, <1>2, <1>3 DEF Pools
  <2> QED BY <2>2, <2>3, <2>4, <2>5
<1>5. pool' = [p EXCEPT !.wall = wall2]
  BY <1>1
<1>6. LineOf(p, l) \in Lanes
  BY LineType
<1> HIDE DEF p
<1>7. wall2 \in [Lanes -> {0} \cup Lanes]
  BY <1>4, <1>6 DEF Pools
<1>8. /\ pool' \in Pools /\ pool'.legs = legs2 /\ pool'.mark = mark2 /\ pool'.wall = wall2
      /\ pool'.heat = pool.heat /\ pool'.race = pool.race /\ pool'.phase = pool.phase
      /\ pool'.n = pool.n + 1 /\ pool'.out = pool.out /\ pool'.blip = pool.blip
  <2> HIDE DEF legs2, mark2, wall2
  <2> QED BY <1>4, <1>5, <1>7 DEF Pools
<1>9. LineOf(pool', l) = LineOf(p, l)
  <2>1. RankIn(pool', l) = RankIn(p, l)
    BY <1>4, <1>8, SameRank DEF Before
  <2> QED BY <2>1 DEF LineOf
<1>10. pool.heat # 0
  BY <1>1 DEF PoolInv
<1>11. Swims(pool, l)
  BY <1>1, <1>10 DEF Swims, Swim, InHeat
<1>12. Touched(pool, pool', l)
  BY <1>1, <1>4, <1>8, <1>9 DEF Touched, Pools
<1> QED BY <1>1, <1>8, <1>9, <1>10, <1>11, <1>12

\* A touch keeps the invariant.
LEMMA TouchPool ==
    ASSUME PoolInv, NEW l \in Lanes, Touch(l)
    PROVE  PoolInv'
<1>1. /\ pool' \in Pools /\ Touched(pool, pool', l) /\ kind' = kind
      /\ pool.phase = "racing" /\ pool.heat # 0 /\ Swims(pool, l)
  BY TouchMoves
<1>2. InHeat' = InHeat /\ InHeat = Swim(pool)
  BY <1>1, InHeatIs DEF Touched, InHeat
<1>3. /\ pool.race \in Nat /\ pool.race > 0 /\ pool.n \in Nat /\ pool \in Pools
      /\ Stamp(pool.race, pool.n + 1) \in Nat
      /\ Stamp(pool.race, pool.n + 1) = Stamp(pool.race, pool.n) + 1
      /\ Stamp(pool.race, pool.n) \in Nat
  BY <1>1 DEF PoolInv, Pools, Stamp
<1> HIDE DEF Stamp
<1>4. \A k \in Lanes :
        /\ pool'.mark[k] # 0 => pool'.mark[k] <= Stamp(pool'.race, pool'.n)
        /\ pool'.legs[k] = 0 \/ k \in pool'.out => pool'.mark[k] = 0
        /\ k \in pool'.out => pool'.legs[k] = 0
        /\ k \notin InHeat' => pool'.legs[k] = 0 /\ k \notin pool'.out
        /\ pool'.legs[k] = Legs \/ (pool'.legs[k] > 0 /\ kind' # "alge") => pool'.mark[k] # 0
        /\ pool'.wall[k] # 0 => pool'.legs[k] \in 1..(Legs - 1) /\ kind' \in CTS \cup Swiss
  <2> SUFFICES ASSUME NEW k \in Lanes
               PROVE /\ pool'.mark[k] # 0 => pool'.mark[k] <= Stamp(pool'.race, pool'.n)
                     /\ pool'.legs[k] = 0 \/ k \in pool'.out => pool'.mark[k] = 0
                     /\ k \in pool'.out => pool'.legs[k] = 0
                     /\ k \notin InHeat' => pool'.legs[k] = 0 /\ k \notin pool'.out
                     /\ pool'.legs[k] = Legs \/ (pool'.legs[k] > 0 /\ kind' # "alge")
                            => pool'.mark[k] # 0
                     /\ pool'.wall[k] # 0 =>
                            pool'.legs[k] \in 1..(Legs - 1) /\ kind' \in CTS \cup Swiss
    OBVIOUS
  <2>1. CASE k = l
    BY <1>1, <1>2, <1>3, <2>1, ConsoleAssumption DEF PoolInv, Touched, Pools, Swims
  <2>2. CASE k # l
    BY <1>1, <1>2, <1>3, <2>2 DEF PoolInv, Touched, Pools
  <2> QED BY <2>1, <2>2
<1>5. \E k \in InHeat' : k \notin pool'.out
  BY <1>1, <1>2 DEF PoolInv, Touched
<1> QED BY <1>1, <1>3, <1>4, <1>5 DEF PoolInv, Touched

\* The rank of a lane that has finished stays as others touch.
LEMMA TouchRank ==
    ASSUME PoolInv, NEW l \in Lanes, NEW k \in Lanes \ {l}, NEW q \in Pools,
           Touched(pool, q, l), pool.legs[k] = Legs, pool.legs[l] < Legs
    PROVE  RankIn(q, k) = RankIn(pool, k)
<1>1. /\ pool \in Pools /\ Stamp(pool.race, pool.n + 1) > Stamp(pool.race, pool.n)
      /\ pool.mark[k] <= Stamp(pool.race, pool.n) \/ pool.mark[k] = 0
      /\ Stamp(pool.race, pool.n) \in Nat /\ Stamp(pool.race, pool.n + 1) \in Nat
  BY DEF PoolInv, Pools, Stamp
<1>2. \A j \in Lanes \ {k} : Before(q, j, k) <=> Before(pool, j, k)
  <2> SUFFICES ASSUME NEW j \in Lanes \ {k} PROVE Before(q, j, k) <=> Before(pool, j, k)
    OBVIOUS
  <2>1. CASE j = l
    <3>1. ~Before(pool, j, k)
      BY <2>1, <1>1, ConsoleAssumption DEF Before, Pools
    <3>2. ~Before(q, j, k)
      BY <2>1, <1>1, ConsoleAssumption DEF Before, Touched, Pools
    <3> QED BY <3>1, <3>2
  <2>2. CASE j # l
    BY <2>2 DEF Before, Touched
  <2> QED BY <2>1, <2>2
<1> QED BY <1>2, SameRank

\* The pool q is p after lane l, shown stopped, went on.
WentOn(p, q, l) ==
    /\ q.heat = p.heat /\ q.race = p.race /\ q.phase = p.phase /\ q.n = p.n
    /\ q.out = p.out /\ q.blip = p.blip /\ q.legs = p.legs /\ q.mark = p.mark
    /\ q.wall[l] = 0 /\ \A k \in Lanes \ {l} : q.wall[k] = p.wall[k]

\* A swimmer at the wall goes on.
LEMMA GoesOnPool ==
    ASSUME PoolInv, NEW l \in Lanes, GoesOn(l)
    PROVE  /\ PoolInv' /\ WentOn(pool, pool', l) /\ pool.heat # 0
           /\ pool.phase = "racing" /\ pool.wall[l] # 0 /\ kind' = kind
           /\ l \in Swim(pool) /\ l \notin pool.out /\ pool.legs[l] \in 1..(Legs - 1)
           /\ kind \in CTS \cup Swiss /\ Swims(pool', l)
<1> DEFINE wall2 == [pool.wall EXCEPT ![l] = 0]
<1>1. /\ pool \in Pools /\ pool.phase = "racing" /\ pool.wall[l] # 0 /\ kind' = kind
      /\ pool' = [pool EXCEPT !.wall = wall2]
  BY DEF GoesOn, PoolInv, Send
<1>2. wall2 \in [Lanes -> {0} \cup Lanes]
  BY <1>1 DEF Pools
<1>3. /\ pool' \in Pools /\ pool'.wall = wall2 /\ pool'.legs = pool.legs
      /\ pool'.mark = pool.mark /\ pool'.heat = pool.heat /\ pool'.race = pool.race
      /\ pool'.phase = pool.phase /\ pool'.n = pool.n /\ pool'.out = pool.out
      /\ pool'.blip = pool.blip
  <2> HIDE DEF wall2
  <2> QED BY <1>1, <1>2 DEF Pools
<1>4. WentOn(pool, pool', l)
  BY <1>1, <1>3 DEF WentOn, Pools
<1>5. pool.heat # 0 /\ pool.legs[l] \in 1..(Legs - 1) /\ kind \in CTS \cup Swiss
  BY <1>1 DEF PoolInv
<1>6. l \in InHeat /\ l \notin pool.out
  BY <1>1, <1>5 DEF PoolInv
<1>7. InHeat = Swim(pool) /\ InHeat' = InHeat
  BY <1>3, <1>5, InHeatIs DEF InHeat
<1>8. PoolInv'
  <2>1. \A k \in Lanes : pool'.wall[k] = 0 \/ pool'.wall[k] = pool.wall[k]
    BY <1>4 DEF WentOn
  <2> HIDE DEF wall2
  <2> QED BY <1>1, <1>3, <1>7, <2>1 DEF PoolInv
<1>9. Swims(pool', l)
  BY <1>3, <1>4, <1>5, <1>6, <1>7, ConsoleAssumption DEF Swims, Swim, WentOn
<1> QED BY <1>1, <1>4, <1>5, <1>6, <1>7, <1>8, <1>9

\* Going on leaves the ranks.
LEMMA WentOnRank ==
    ASSUME NEW p, NEW q, NEW l, WentOn(p, q, l), NEW k \in Lanes
    PROVE  RankIn(q, k) = RankIn(p, k)
  BY SameRank DEF WentOn, Before

\* The pool q is p after the swimmer in lane l, who had not touched, gave up.
GaveUp(p, q, l) ==
    /\ q.heat = p.heat /\ q.race = p.race /\ q.phase = p.phase /\ q.n = p.n
    /\ q.out = {l} /\ q.blip = p.blip /\ q.legs = p.legs /\ q.mark = p.mark
    /\ q.wall = p.wall

\* A swimmer who has not touched gives up.
LEMMA GivesUpPool ==
    ASSUME PoolInv, ~GivesUpLate, NEW l \in Lanes, GivesUp(l)
    PROVE  /\ PoolInv' /\ GaveUp(pool, pool', l) /\ pool.heat # 0 /\ pool.phase = "racing"
           /\ pool.out = {} /\ pool.legs[l] = 0 /\ l \in Swim(pool) /\ Swims(pool, l)
           /\ kind \in {"quantum", "dolphin"} /\ kind' = kind
<1> DEFINE mark2 == [pool.mark EXCEPT ![l] = 0]
<1>1. /\ pool \in Pools /\ pool.phase = "racing" /\ kind' = kind /\ pool.out = {}
      /\ pool.legs[l] = 0 /\ l \in InHeat /\ InHeat # {l} /\ kind \in {"quantum", "dolphin"}
      /\ pool' = [pool EXCEPT !.out = {l}, !.mark = mark2]
  BY DEF GivesUp, PoolInv, Send
<1>2. mark2 = pool.mark
  <2>1. pool.mark[l] = 0 /\ pool.mark \in [Lanes -> Nat]
    BY <1>1 DEF PoolInv, Pools
  <2> QED BY <2>1
<1>3. /\ pool' \in Pools /\ pool'.out = {l} /\ pool'.mark = pool.mark
      /\ pool'.legs = pool.legs /\ pool'.heat = pool.heat /\ pool'.race = pool.race
      /\ pool'.phase = pool.phase /\ pool'.n = pool.n /\ pool'.wall = pool.wall
      /\ pool'.blip = pool.blip
  <2> DEFINE o == {l}
             m == pool.mark
  <2>1. pool' = [pool EXCEPT !.out = o, !.mark = m] /\ pool \in Pools
    BY <1>1, <1>2
  <2>2. m \in [Lanes -> Nat] /\ o \in SUBSET Lanes
    BY <1>1 DEF Pools
  <2> SUFFICES /\ pool' \in Pools /\ pool'.out = o /\ pool'.mark = m
               /\ pool'.legs = pool.legs /\ pool'.heat = pool.heat
               /\ pool'.race = pool.race /\ pool'.phase = pool.phase
               /\ pool'.n = pool.n /\ pool'.wall = pool.wall /\ pool'.blip = pool.blip
    OBVIOUS
  <2> HIDE DEF mark2, o, m
  <2> QED BY <2>1, <2>2 DEF Pools
<1>4. GaveUp(pool, pool', l)
  BY <1>3 DEF GaveUp
<1>5. pool.heat # 0
  BY <1>1 DEF PoolInv
<1>6. InHeat = Swim(pool) /\ InHeat' = InHeat /\ \E k \in InHeat : k # l
  BY <1>1, <1>3, <1>5, InHeatIs DEF InHeat
<1>7. pool.wall[l] = 0 /\ 0 < Legs
  BY <1>1, ConsoleAssumption DEF PoolInv
<1>8. PoolInv'
  <2>1. \E k \in InHeat' : k \notin pool'.out
    BY <1>3, <1>6
  <2>2. \A k \in Lanes : k \in pool'.out => pool'.legs[k] = 0 /\ pool'.mark[k] = 0
                                            /\ k \in InHeat
    BY <1>1, <1>2, <1>3 DEF PoolInv
  <2> HIDE DEF mark2
  <2> QED BY <1>1, <1>3, <1>6, <2>1, <2>2 DEF PoolInv
<1> QED BY <1>1, <1>4, <1>5, <1>6, <1>7, <1>8 DEF Swims

\* Giving up leaves the ranks of the lanes that are in.
LEMMA GaveUpRank ==
    ASSUME PoolInv, NEW l, NEW q, GaveUp(pool, q, l), pool.out = {}, pool.legs[l] = 0,
           NEW k \in Lanes \ {l}, pool.legs[k] = Legs
    PROVE  RankIn(q, k) = RankIn(pool, k)
<1>1. \A j \in Lanes \ {k} : Before(q, j, k) <=> Before(pool, j, k)
  BY ConsoleAssumption DEF Before, GaveUp
<1> QED BY <1>1, SameRank

\* The pool q is p after the judges took lane l's last touch back.
TookBack(p, q, l) ==
    /\ q.heat = p.heat /\ q.race = p.race /\ q.phase = p.phase /\ q.n = p.n
    /\ q.out = p.out /\ q.wall = p.wall /\ q.blip
    /\ q.legs[l] = p.legs[l] - 1 /\ q.mark[l] = 0
    /\ \A k \in Lanes \ {l} : q.legs[k] = p.legs[k] /\ q.mark[k] = p.mark[k]

\* The operator takes a touch back.
LEMMA DeletesPool ==
    ASSUME PoolInv, NEW l \in Lanes, Deletes(l)
    PROVE  /\ PoolInv' /\ TookBack(pool, pool', l) /\ pool.heat # 0
           /\ pool.phase = "racing" /\ ~AllIn /\ kind' = kind
           /\ l \in Swim(pool) /\ pool.legs[l] \in 1..Legs /\ kind = "alge" /\ ~full
<1> DEFINE legs2 == [pool.legs EXCEPT ![l] = @ - 1]
           mark2 == [pool.mark EXCEPT ![l] = 0]
<1>1. /\ pool \in Pools /\ pool.phase = "racing" /\ ~AllIn /\ kind' = kind
      /\ pool.legs[l] > 0 /\ kind = "alge" /\ ~full
      /\ pool' = [pool EXCEPT !.blip = TRUE, !.legs = legs2, !.mark = mark2]
  BY DEF Deletes, PoolInv, Send
<1>2. legs2 \in [Lanes -> 0..Legs] /\ mark2 \in [Lanes -> Nat] /\ pool.legs[l] \in 1..Legs
  BY <1>1, ConsoleAssumption DEF Pools
<1>3. /\ pool' \in Pools /\ pool'.out = pool.out /\ pool'.mark = mark2
      /\ pool'.legs = legs2 /\ pool'.heat = pool.heat /\ pool'.race = pool.race
      /\ pool'.phase = pool.phase /\ pool'.n = pool.n /\ pool'.wall = pool.wall
      /\ pool'.blip = TRUE
  <2> HIDE DEF legs2, mark2
  <2> QED BY <1>1, <1>2 DEF Pools
<1>4. TookBack(pool, pool', l)
  BY <1>1, <1>3 DEF TookBack, Pools
<1>5. pool.heat # 0 /\ l \in InHeat
  BY <1>1 DEF PoolInv
<1>6. InHeat = Swim(pool) /\ InHeat' = InHeat
  BY <1>3, <1>5, InHeatIs DEF InHeat
<1>7. \A k \in Lanes :
        /\ pool'.mark[k] # 0 => pool'.mark[k] <= Stamp(pool'.race, pool'.n)
        /\ pool'.legs[k] = 0 \/ k \in pool'.out => pool'.mark[k] = 0
        /\ k \in pool'.out => pool'.legs[k] = 0
        /\ k \notin InHeat' => pool'.legs[k] = 0 /\ k \notin pool'.out
        /\ pool'.legs[k] = Legs => pool'.mark[k] # 0
        /\ pool'.wall[k] = 0
  <2> SUFFICES ASSUME NEW k \in Lanes
               PROVE /\ pool'.mark[k] # 0 => pool'.mark[k] <= Stamp(pool'.race, pool'.n)
                     /\ pool'.legs[k] = 0 \/ k \in pool'.out => pool'.mark[k] = 0
                     /\ k \in pool'.out => pool'.legs[k] = 0
                     /\ k \notin InHeat' => pool'.legs[k] = 0 /\ k \notin pool'.out
                     /\ pool'.legs[k] = Legs => pool'.mark[k] # 0
                     /\ pool'.wall[k] = 0
    OBVIOUS
  <2>1. pool.out = {} /\ pool.wall[k] = 0
    BY <1>1 DEF PoolInv, CTS, Swiss
  <2>2. CASE k = l
    BY <1>1, <1>2, <1>4, <1>5, <1>6, <2>1, <2>2 DEF TookBack
  <2>3. CASE k # l
    BY <1>1, <1>4, <1>6, <2>1, <2>3 DEF TookBack, PoolInv
  <2> QED BY <2>2, <2>3
<1>8. PoolInv'
  <2> HIDE DEF legs2, mark2
  <2> QED BY <1>1, <1>3, <1>5, <1>6, <1>7 DEF PoolInv
<1> QED BY <1>1, <1>2, <1>4, <1>5, <1>6, <1>8

-----------------------------------------------------------------------------
(* The decoder.  What two decoders have in common.                          *)

SameHeat(e, d) == e.heat = d.heat /\ e.lanes = d.lanes /\ e.reset = d.reset
SameAside(e, d) ==
    e.half = d.half /\ e.used = d.used /\ e.next = d.next /\ e.held = d.held /\ e.done = d.done
SameShown(e, d) ==
    e.time = d.time /\ e.place = d.place /\ e.running = d.running /\ e.splits = d.splits
SameRest(e, d) ==
    /\ e.active = d.active /\ e.lengths = d.lengths /\ e.finish = d.finish /\ e.line = d.line
    /\ e.stop = d.stop /\ e.mods = d.mods

Darkened(e) == e.time = None /\ e.place = None /\ e.running = Still /\ e.splits = None

\* What a new decoder starts from.
LEMMA DarkType ==
    /\ None \in [Lanes -> Nat] /\ Still \in [Lanes -> BOOLEAN]
    /\ None \in [Lanes -> {0} \cup Lanes]
    /\ NewDecoder.stop = [l \in Lanes |-> "no"]
    /\ [l \in Lanes |-> "no"] \in [Lanes -> {"no", "fresh", "counted"}]
  BY DEF None, Still, NewDecoder

\* A new decoder shows nothing.
LEMMA NewDecoderType ==
    /\ NewDecoder \in Decs /\ Darkened(NewDecoder) /\ NewDecoder.heat = 0
    /\ NewDecoder.lanes = {} /\ NewDecoder.next = 0 /\ NewDecoder.half = NoHalf
    /\ NewDecoder.held = FALSE /\ NewDecoder.reset = FALSE
<1> DEFINE stop == [l \in Lanes |-> "no"]
           mods == [l \in Lanes |-> NoHalf]
           none == None
           still == Still
<1>1. /\ stop \in [Lanes -> {"no", "fresh", "counted"}]
      /\ mods \in Mods
      /\ none \in [Lanes -> Nat] /\ none \in [Lanes -> {0} \cup Lanes]
      /\ still \in [Lanes -> BOOLEAN]
  BY DarkType DEF Mods
<1>2. NewDecoder =
    [heat |-> 0, seeds |-> 0, lanes |-> {}, time |-> none, place |-> none, running |-> still,
     splits |-> none, active |-> FALSE, half |-> NoHalf, used |-> {}, lengths |-> 0,
     finish |-> none, line |-> none, done |-> FALSE, next |-> 0, held |-> FALSE,
     stop |-> stop, mods |-> mods, reset |-> FALSE]
  BY DEF NewDecoder
<1>3. 0 \in HeatOrNone
  BY HeatsNat
<1> SUFFICES /\ NewDecoder \in Decs /\ NewDecoder.heat = 0
             /\ NewDecoder.time = none /\ NewDecoder.place = none
             /\ NewDecoder.running = still /\ NewDecoder.splits = none
             /\ NewDecoder.lanes = {} /\ NewDecoder.next = 0 /\ NewDecoder.half = NoHalf
             /\ NewDecoder.held = FALSE /\ NewDecoder.reset = FALSE
  BY DEF Darkened
<1> HIDE DEF stop, mods, none, still
<1> QED BY <1>1, <1>2, <1>3 DEF Decs

\* A display blanked (what it leaves alone, and what it shows after).
LEMMA BlankedFields ==
    ASSUME NEW d \in Decs, NEW e, e = Blanked(d)
    PROVE  /\ e \in Decs /\ Darkened(e) /\ SameHeat(e, d) /\ SameAside(e, d) /\ SameRest(e, d)
           /\ e.seeds = d.seeds
<1> DEFINE none == None
           still == Still
<1>1. none \in [Lanes -> Nat] /\ still \in [Lanes -> BOOLEAN]
  BY DarkType
<1>2. e = [d EXCEPT !.time = none, !.place = none, !.running = still, !.splits = none]
  BY DEF Blanked
<1> SUFFICES /\ e \in Decs /\ e.seeds = d.seeds /\ SameHeat(e, d) /\ SameAside(e, d)
             /\ SameRest(e, d)
             /\ e.time = none /\ e.place = none /\ e.running = still /\ e.splits = none
  BY DEF Darkened
<1> HIDE DEF none, still
<1>3. e \in Decs
  BY <1>1, <1>2 DEF Decs
<1>4. SameHeat(e, d) /\ SameAside(e, d) /\ SameRest(e, d) /\ e.seeds = d.seeds
  BY <1>1, <1>2 DEF Decs, SameHeat, SameAside, SameRest
<1>5. e.time = none /\ e.place = none /\ e.running = still /\ e.splits = none
  BY <1>1, <1>2 DEF Decs
<1> QED BY <1>3, <1>4, <1>5

\* What reset_lanes leaves, whatever the console.
ResetLeaves(e, d) ==
    /\ Darkened(e) /\ e.lanes = d.lanes /\ e.reset = d.reset
    /\ e.half = d.half /\ e.used = d.used /\ e.next = d.next
    /\ e.held = d.held /\ e.lengths = d.lengths /\ e.mods = d.mods
    /\ kind \notin {"dolphin"} \cup CTS => ~e.active
    /\ kind = "dolphin" => ~e.done /\ e.finish = None
    /\ kind # "dolphin" => e.done = d.done
    /\ kind = "alge" => e.finish = None
    /\ kind \in CTS => e.stop = [l \in Lanes |-> "no"]

\* A board reset.
LEMMA ResetFields ==
    ASSUME kind \in AllKinds, NEW d \in Decs, NEW e, e = ResetLanes(d)
    PROVE  e \in Decs /\ ResetLeaves(e, d) /\ e.heat = d.heat
<1> DEFINE b == Blanked(d)
           none == None
           stop == [l \in Lanes |-> "no"]
<1>1. /\ b \in Decs /\ Darkened(b) /\ SameHeat(b, d) /\ SameAside(b, d) /\ SameRest(b, d)
      /\ b.seeds = d.seeds
  BY BlankedFields
<1>2. /\ none \in [Lanes -> Nat] /\ none \in [Lanes -> {0} \cup Lanes] /\ NewDecoder.stop = stop
      /\ stop \in [Lanes -> {"no", "fresh", "counted"}] /\ 0 \in HeatOrNone
  BY DarkType, HeatsNat
<1>3. CASE kind = "quantum"
  <2>1. e = [b EXCEPT !.seeds = 0, !.active = FALSE]
    BY <1>3 DEF ResetLanes, ResetQuantum, RTD, Swiss
  <2> HIDE DEF b, none, stop
  <2> QED BY ZenonT(30), <1>1, <1>2, <1>3, <2>1
          DEF Decs, ResetLeaves, Darkened, SameHeat, SameAside, SameRest, CTS
<1>4. CASE kind \in RTD
  <2>1. e = [b EXCEPT !.seeds = 0, !.active = FALSE]
    BY <1>4 DEF ResetLanes, ResetRtd, RTD, Swiss
  <2> HIDE DEF b, none, stop
  <2> QED BY ZenonT(30), <1>1, <1>2, <1>4, <2>1
          DEF Decs, ResetLeaves, Darkened, SameHeat, SameAside, SameRest, CTS, RTD
<1>5. CASE kind = "alge"
  <2>1. e = [b EXCEPT !.finish = none, !.active = FALSE]
    BY <1>5 DEF ResetLanes, ResetAlge, RTD, Swiss
  <2>2. ResetLeaves(e, d) <=> /\ Darkened(e) /\ e.lanes = d.lanes
            /\ e.reset = d.reset /\ e.half = d.half /\ e.used = d.used /\ e.next = d.next
                 /\ e.held = d.held /\ e.lengths = d.lengths
            /\ e.mods = d.mods /\ ~e.active /\ e.done = d.done /\ e.finish = none
    BY <1>5 DEF ResetLeaves, CTS
  <2> HIDE DEF b, none, stop
  <2> QED BY ZenonT(30), <1>1, <1>2, <1>5, <2>1, <2>2
          DEF Decs, Darkened, SameHeat, SameAside, SameRest
<1>6. CASE kind = "seiko"
  <2>1. e = [b EXCEPT !.active = FALSE]
    BY <1>6 DEF ResetLanes, ResetSeiko, RTD, Swiss
  <2> HIDE DEF b, none, stop
  <2> QED BY ZenonT(30), <1>1, <1>2, <1>6, <2>1
          DEF Decs, ResetLeaves, Darkened, SameHeat, SameAside, SameRest, CTS
<1>7. CASE kind \in Swiss
  <2>1. e = [b EXCEPT !.line = none, !.active = FALSE]
    BY <1>7 DEF ResetLanes, ResetSwiss, RTD, Swiss
  <2> HIDE DEF b, none, stop
  <2> QED BY ZenonT(30), <1>1, <1>2, <1>7, <2>1
          DEF Decs, ResetLeaves, Darkened, SameHeat, SameAside, SameRest, CTS, Swiss
<1>8. CASE kind = "dolphin"
  <2>1. e = [b EXCEPT !.finish = none, !.done = FALSE]
    BY <1>8 DEF ResetLanes, ResetDolphin, RTD, Swiss
  <2>2. ResetLeaves(e, d) <=> /\ Darkened(e) /\ e.lanes = d.lanes
            /\ e.reset = d.reset /\ e.half = d.half /\ e.used = d.used /\ e.next = d.next
                 /\ e.held = d.held /\ e.lengths = d.lengths
            /\ e.mods = d.mods /\ ~e.done /\ e.finish = none
    BY <1>8 DEF ResetLeaves, CTS
  <2> HIDE DEF b, none, stop
  <2> QED BY ZenonT(30), <1>1, <1>2, <1>8, <2>1, <2>2
          DEF Decs, Darkened, SameHeat, SameAside, SameRest
<1>9. CASE kind \in CTS
  <2>1. ResetLeaves(e, d) <=> /\ Darkened(e) /\ e.lanes = d.lanes
            /\ e.reset = d.reset /\ e.half = d.half /\ e.used = d.used /\ e.next = d.next
                 /\ e.held = d.held /\ e.lengths = d.lengths
            /\ e.mods = d.mods /\ e.done = d.done /\ e.stop = stop
    BY <1>9 DEF ResetLeaves, CTS
  <2>2. CASE e = [b EXCEPT !.stop = stop]
    <3> HIDE DEF b, none, stop
    <3> QED BY <1>1, <1>2, <2>1, <2>2 DEF Decs, Darkened, SameHeat, SameAside, SameRest
  <2>3. CASE e = [b EXCEPT !.stop = stop, !.seeds = 0]
    <3> HIDE DEF b, none, stop
    <3> QED BY <1>1, <1>2, <2>1, <2>3 DEF Decs, Darkened, SameHeat, SameAside, SameRest
  <2> QED BY <1>2, <1>9, <2>2, <2>3 DEF ResetLanes, ResetGen6, ResetGen7, RTD, Swiss, CTS
<1> QED BY <1>3, <1>4, <1>5, <1>6, <1>7, <1>8, <1>9 DEF AllKinds

\* A stop without a touch leaves no count: no time, no splits.
Counted(d) == \A l \in Lanes : d.time[l] = 0 => d.splits[l] = 0

\* A dark board times nobody.
LEMMA DarkCounted ==
    ASSUME NEW d, Darkened(d)
    PROVE  Counted(d) /\ Timed(d) = {} /\ \A l \in Lanes : /\ d.time[l] = 0 /\ d.place[l] = 0
                                                          /\ d.splits[l] = 0 /\ ~d.running[l]
  BY DEF Counted, Darkened, None, Still, Timed

\* A new heat on the board.
LEMMA NewHeatFields ==
    ASSUME kind \in AllKinds, NEW d \in Decs, NEW h \in Heats, NEW e, e = NewHeat(d, h)
    PROVE  /\ e \in Decs /\ e.heat = h
           /\ h = d.heat => e = d
           /\ h # d.heat => ResetLeaves(e, d)
<1>1. CASE h = d.heat
  BY <1>1 DEF NewHeat
<1>2. CASE h # d.heat
  <2> DEFINE r == ResetLanes(d)
  <2>1. r \in Decs /\ ResetLeaves(r, d)
    BY ResetFields
  <2>2. e = [r EXCEPT !.heat = h, !.seeds = 0] /\ h \in HeatOrNone /\ 0 \in HeatOrNone
    BY <1>2, HeatsNat DEF NewHeat
  <2> HIDE DEF r
  <2>3. e \in Decs /\ e.heat = h
    BY <2>1, <2>2 DEF Decs
  <2>4. ResetLeaves(e, d)
    BY <2>1, <2>2 DEF Decs, ResetLeaves, Darkened
  <2> QED BY <1>2, <2>3, <2>4
<1> QED BY <1>1, <1>2

\* The heat on the board, once more.
LEMMA ReswimFields ==
    ASSUME kind \in AllKinds, NEW d \in Decs, NEW e, e = ResetForReswim(d)
    PROVE  e \in Decs /\ ResetLeaves(e, d) /\ e.heat = d.heat
<1> DEFINE r == ResetLanes(d)
           s == d.seeds
<1>1. r \in Decs /\ ResetLeaves(r, d) /\ r.heat = d.heat
  BY ResetFields
<1>2. e = [r EXCEPT !.seeds = s] /\ s \in HeatOrNone
  BY DEF ResetForReswim, Decs
<1> HIDE DEF r, s
<1>3. e \in Decs /\ e.heat = r.heat
  BY <1>1, <1>2 DEF Decs
<1>4. ResetLeaves(e, d)
  BY <1>1, <1>2 DEF Decs, ResetLeaves, Darkened
<1> QED BY <1>1, <1>3, <1>4

\* A start, as the decoder shows it.
LEMMA StartedFields ==
    ASSUME NEW d \in Decs, NEW dry, NEW e, e = Started(d, dry)
    PROVE  /\ e \in Decs /\ SameHeat(e, d) /\ SameAside(e, d) /\ e.active
           /\ e.time = d.time /\ e.place = d.place /\ e.splits = d.splits
           /\ e.lengths = d.lengths /\ e.finish = d.finish /\ e.line = d.line
           /\ e.stop = d.stop /\ e.mods = d.mods
           /\ d.active => e.running = d.running
           /\ ~d.active => \A l \in Lanes :
                  e.running[l] = (d.running[l] \/ l \in LanesToStart(d) \ dry)
<1>1. CASE d.active
  BY <1>1 DEF Started, SameHeat, SameAside
<1>2. CASE ~d.active
  <2> DEFINE run == [l \in Lanes |-> d.running[l] \/ l \in LanesToStart(d) \ dry]
  <2>1. run \in [Lanes -> BOOLEAN]
    <3>1. \A l \in Lanes : d.running[l] \in BOOLEAN
      BY DEF Decs
    <3> QED BY <3>1
  <2>2. e = [d EXCEPT !.active = TRUE, !.running = run]
    BY <1>2 DEF Started
  <2>3. \A l \in Lanes : run[l] = (d.running[l] \/ l \in LanesToStart(d) \ dry)
    OBVIOUS
  <2> HIDE DEF run
  <2>4. e \in Decs /\ e.running = run
    BY <2>1, <2>2 DEF Decs
  <2>5. /\ SameHeat(e, d) /\ SameAside(e, d) /\ e.active
        /\ e.time = d.time /\ e.place = d.place /\ e.splits = d.splits
        /\ e.lengths = d.lengths /\ e.finish = d.finish /\ e.line = d.line
        /\ e.stop = d.stop /\ e.mods = d.mods
    BY <2>1, <2>2 DEF Decs, SameHeat, SameAside
  <2> QED BY <1>2, <2>3, <2>4, <2>5
<1>3. d.active \in BOOLEAN
  BY DEF Decs
<1> QED BY <1>1, <1>2, <1>3

\* A lane that goes on.
LEMMA GoesAgainFields ==
    ASSUME NEW d \in Decs, NEW l \in Lanes, NEW e, e = GoesAgain(d, l)
    PROVE  /\ e \in Decs /\ SameHeat(e, d) /\ SameAside(e, d) /\ SameRest(e, d)
           /\ e.time = d.time /\ e.place = d.place /\ e.splits = d.splits
           /\ \A k \in Lanes \ {l} : e.running[k] = d.running[k]
           /\ e.running[l] = (d.running[l] \/ d.active)
<1>1. CASE d.active
  <2> DEFINE run == [d.running EXCEPT ![l] = TRUE]
  <2>1. run \in [Lanes -> BOOLEAN] /\ run[l] /\ \A k \in Lanes \ {l} : run[k] = d.running[k]
    BY DEF Decs
  <2>2. e = [d EXCEPT !.running = run]
    BY <1>1 DEF GoesAgain
  <2> HIDE DEF run
  <2> QED BY <1>1, <2>1, <2>2 DEF Decs, SameHeat, SameAside, SameRest
<1>2. CASE ~d.active
  <2>1. d.running[l] \in BOOLEAN
    BY DEF Decs
  <2> QED BY <1>2, <2>1 DEF GoesAgain, SameHeat, SameAside, SameRest
<1>3. d.active \in BOOLEAN
  BY DEF Decs
<1> QED BY <1>1, <1>2, <1>3

\* A lane cleared.
LEMMA ClearedFields ==
    ASSUME NEW d \in Decs, NEW l \in Lanes, NEW e, e = Cleared(d, l)
    PROVE  /\ e \in Decs /\ SameHeat(e, d) /\ SameAside(e, d) /\ SameRest(e, d)
           /\ e.running = d.running /\ e.splits = d.splits
           /\ e.time[l] = 0 /\ e.place[l] = 0
           /\ \A k \in Lanes \ {l} : e.time[k] = d.time[k] /\ e.place[k] = d.place[k]
<1> DEFINE t == [d.time EXCEPT ![l] = 0]
           p == [d.place EXCEPT ![l] = 0]
<1>1. /\ t \in [Lanes -> Nat] /\ p \in [Lanes -> Nat] /\ t[l] = 0 /\ p[l] = 0
      /\ \A k \in Lanes \ {l} : t[k] = d.time[k] /\ p[k] = d.place[k]
  BY DEF Decs
<1>2. e = [d EXCEPT !.time = t, !.place = p]
  BY DEF Cleared
<1> HIDE DEF t, p
<1> QED BY <1>1, <1>2 DEF Decs, SameHeat, SameAside, SameRest

\* Two decoders that race_finished cannot tell apart.
LEMMA SameFinished ==
    ASSUME NEW d, NEW e, e.time = d.time, e.place = d.place, e.running = d.running,
           e.done = d.done
    PROVE  Finished(e) = Finished(d)
  BY DEF Finished

\* _apply_updates, but for the seed times.
LEMMA ApplyFields ==
    ASSUME known \in BOOLEAN, NEW d \in Decs, d.heat = dec.heat \/ d.heat \in Heats,
           NEW e, e = Apply(d)
    PROVE  /\ e \in Decs /\ e.heat = d.heat /\ SameAside(e, d) /\ SameShown(e, d) /\ SameRest(e, d)
           /\ d.heat = dec.heat => e.lanes = d.lanes
           /\ d.heat # dec.heat => e.lanes = IF known THEN Swimmers[d.heat] ELSE {}
           /\ e.reset = (~Finished(d) /\ (d.reset \/ Finished(dec)))
<1> DEFINE o == IF d.heat # dec.heat THEN OnEventChanged(d) ELSE d
<1>1. /\ o \in Decs /\ o.heat = d.heat /\ SameAside(o, d) /\ SameShown(o, d) /\ SameRest(o, d)
      /\ d.heat = dec.heat => o.lanes = d.lanes
      /\ d.heat # dec.heat => o.lanes = IF known THEN Swimmers[d.heat] ELSE {}
      /\ o.reset = d.reset
  <2>1. CASE d.heat = dec.heat
    BY <2>1 DEF SameAside, SameShown, SameRest
  <2>2. CASE d.heat # dec.heat
    <3> DEFINE s == IF known THEN d.heat ELSE 0
               n == IF known THEN Swimmers[d.heat] ELSE {}
    <3>1. s \in HeatOrNone /\ n \in SUBSET Lanes
      BY <2>2, HeatsNat, HeatsSwum DEF Heats
    <3>2. o = [d EXCEPT !.seeds = s, !.lanes = n]
      BY <2>2 DEF OnEventChanged
    <3> SUFFICES /\ o \in Decs /\ o.heat = d.heat /\ SameAside(o, d) /\ SameShown(o, d)
                 /\ SameRest(o, d) /\ o.lanes = n /\ o.reset = d.reset
      BY <2>2
    <3> HIDE DEF s, n, o
    <3>3. o \in Decs
      BY <3>1, <3>2 DEF Decs
    <3>4. SameAside(o, d) /\ SameShown(o, d) /\ SameRest(o, d)
      BY <3>1, <3>2 DEF Decs, SameAside, SameShown, SameRest
    <3>5. o.lanes = n /\ o.reset = d.reset /\ o.heat = d.heat
      BY <3>1, <3>2 DEF Decs
    <3> QED BY <3>3, <3>4, <3>5
  <2> QED BY <2>1, <2>2
<1> DEFINE r == ~Finished(o) /\ (o.reset \/ Finished(dec))
<1>2. e = [o EXCEPT !.reset = r]
  BY DEF Apply
<1>3. r \in BOOLEAN /\ r = (~Finished(d) /\ (d.reset \/ Finished(dec)))
  <2> HIDE DEF o
  <2>1. Finished(o) = Finished(d)
    BY <1>1, SameFinished DEF SameShown, SameAside
  <2> QED BY <1>1, <2>1
<1> HIDE DEF o, r
<1>4. e \in Decs /\ e.reset = r /\ e.heat = o.heat /\ e.lanes = o.lanes
  BY <1>1, <1>2, <1>3 DEF Decs
<1>5. SameAside(e, o) /\ SameShown(e, o) /\ SameRest(e, o)
  BY <1>1, <1>2, <1>3 DEF Decs, SameAside, SameShown, SameRest
<1>6. SameAside(e, d) /\ SameShown(e, d) /\ SameRest(e, d)
  BY <1>1, <1>5 DEF SameAside, SameShown, SameRest
<1> QED BY <1>1, <1>3, <1>4, <1>6

\* The lanes but l have in f what they have in g.
Others(f, g, l) == \A k \in Lanes : k # l => f[k] = g[k]

\* What a touch may change, all at once.
Shown(d, time, place, splits, running) ==
    [d EXCEPT !.time = time, !.place = place, !.splits = splits, !.running = running]

\* A time shown.
LEMMA ShownFields ==
    ASSUME NEW d \in Decs, NEW t \in [Lanes -> Nat], NEW p \in [Lanes -> Nat],
           NEW s \in [Lanes -> Nat], NEW r \in [Lanes -> BOOLEAN],
           NEW e, e = Shown(d, t, p, s, r)
    PROVE  /\ e \in Decs /\ SameHeat(e, d) /\ SameAside(e, d) /\ SameRest(e, d)
           /\ e.time = t /\ e.place = p /\ e.splits = s /\ e.running = r
<1>1. e \in Decs /\ SameHeat(e, d)
  BY DEF Shown, Decs, SameHeat
<1>2. SameAside(e, d) /\ SameRest(e, d)
  BY DEF Shown, Decs, SameAside, SameRest
<1>3. e.time = t /\ e.place = p /\ e.splits = s /\ e.running = r
  BY DEF Shown, Decs
<1> QED BY <1>1, <1>2, <1>3

-----------------------------------------------------------------------------
(* What the steps have in common.                                           *)

\* The invariant of the decoder holds of d, fed but not yet applied.
Fit(d) ==
    /\ d \in Decs /\ d.lanes = dec.lanes /\ d.heat <= pool.heat /\ d.next <= pool.heat
    /\ d.heat = dec.heat \/ d.heat \in Heats
    /\ d.half # NoHalf => PairOpens(d.half)
    /\ kind = "dolphin" => d.running = Still /\ (d.next # 0 => d.held /\ d.done)
    /\ kind = "quantum" =>
        /\ \A l \in Lanes : d.time[l] = 0 => d.splits[l] = 0
        /\ d.heat # 0 /\ d.heat = pool.heat =>
            /\ d.used = Swim(pool)
            /\ \A l \in Lanes : d.running[l] => l \in Swim(pool)
            /\ d.half # NoHalf => d.half.heat = pool.heat

\* What a message makes of the decoder keeps the invariant, if it fits.
LEMMA DecKept ==
    ASSUME PoolInv, DecInv, WireInv, UNCHANGED <<kind, known, pool>>,
           NEW d, Fit(d), dec' = Apply(d)
    PROVE  /\ DecInv'
           /\ dec'.heat = d.heat /\ SameAside(dec', d) /\ SameShown(dec', d)
           /\ SameRest(dec', d)
           /\ dec'.reset = (~Finished(d) /\ (d.reset \/ Finished(dec)))
<1>1. /\ dec.heat \in HeatOrNone /\ dec.heat <= pool.heat /\ pool.heat \in Nat
  BY HeatsNat DEF PoolInv, Pools, DecInv, Decs
<1>2. d.heat = dec.heat \/ d.heat \in Heats
  BY <1>1 DEF Fit
<1>3. /\ dec' \in Decs /\ dec'.heat = d.heat /\ SameAside(dec', d) /\ SameShown(dec', d)
      /\ SameRest(dec', d)
      /\ d.heat = dec.heat => dec'.lanes = d.lanes
      /\ d.heat # dec.heat => dec'.lanes = IF known THEN Swimmers[d.heat] ELSE {}
      /\ dec'.reset = (~Finished(d) /\ (d.reset \/ Finished(dec)))
  BY <1>2, ApplyFields DEF Fit, WireInv
<1>4. dec'.lanes = IF known /\ dec'.heat > 0 THEN Swimmers[dec'.heat] ELSE {}
  <2>1. CASE d.heat = dec.heat
    BY <2>1, <1>1, <1>3 DEF DecInv, Fit
  <2>2. CASE d.heat # dec.heat
    <3>1. d.heat \in Heats /\ d.heat > 0 /\ dec'.heat = d.heat
      BY <2>2, <1>2, <1>3, HeatsNat
    <3>2. dec'.lanes = IF known THEN Swimmers[d.heat] ELSE {}
      BY <2>2, <1>3
    <3> QED BY <3>1, <3>2
  <2> QED BY <2>1, <2>2
<1>5. dec'.heat <= pool.heat
  BY <1>1, <1>3 DEF Fit
<1>6. DecInv'
  BY <1>3, <1>4, <1>5 DEF DecInv, Fit, SameAside, SameShown, PairOpens
<1> QED BY <1>3, <1>6

\* A decoder of a console that never sends a pair and holds nothing back.
LEMMA PlainFit ==
    ASSUME PoolInv, DecInv, kind \notin {"quantum", "dolphin"}, NEW d \in Decs,
           d.heat = dec.heat \/ (d.heat = pool.heat /\ pool.heat # 0), d.lanes = dec.lanes,
           d.half = dec.half, d.next = dec.next
    PROVE  Fit(d)
<1>1. pool.heat \in Nat /\ (pool.heat # 0 => pool.heat \in Heats)
  BY HeatsNat DEF PoolInv, Pools
<1> QED BY <1>1 DEF Fit, DecInv

\* A message delivered, or none: the rest of the wire is as it was.
LEMMA WireKept ==
    ASSUME WireInv, UNCHANGED <<kind, full, known, pool, lost>>,
           wire' = wire \/ (wire # <<>> /\ wire' = Tail(wire))
    PROVE  WireInv'
<1>1. wire' \in Seq(Msgs(wire')) /\ Msgs(wire') \subseteq Msgs(wire)
  BY MsgsTail DEF WireInv
<1>2. \A m \in Msgs(wire') : SayableBy(pool, m)
  BY <1>1 DEF WireInv
<1>3. wire' # <<>> => wire # <<>>
  BY DEF WireInv
<1> QED BY ZenonT(30), <1>1, <1>2, <1>3 DEF WireInv, SayableBy, Named, At, Soon, Swim

\* The first message on the wire is one this console sends.
LEMMA HeadHeard ==
    ASSUME WireInv, wire # <<>>
    PROVE  SayableBy(pool, Head(wire)) /\ pool.heat > 0
  BY MsgsTail DEF WireInv

\* DecInv speaks of the pool's heat only.
LEMMA DecOfHeat ==
    ASSUME PoolInv, DecInv, UNCHANGED <<kind, known, dec>>, pool'.heat \in Nat,
           pool'.heat = pool.heat \/ pool'.heat > pool.heat
    PROVE  DecInv'
<1>1. /\ dec.heat \in Nat /\ dec.next \in Nat /\ pool.heat \in Nat
      /\ dec.half # NoHalf => dec.half.heat \in Nat
  BY HeatsNat DEF DecInv, Decs, PoolInv, Pools, Firsts
<1>2. dec.heat <= pool'.heat /\ dec.next <= pool'.heat
  BY <1>1 DEF DecInv
<1>3. dec.half # NoHalf => PairOpens(dec.half)'
  <2> SUFFICES ASSUME dec.half # NoHalf PROVE PairOpens(dec.half)'
    OBVIOUS
  <2>1. dec' = dec /\ PairOpens(dec.half)
    BY DEF DecInv
  <2>2. dec.half.heat <= pool'.heat
    <3> DEFINE h == dec.half.heat
    <3>1. h \in Nat /\ h <= pool.heat
      BY <1>1, <2>1 DEF PairOpens
    <3> HIDE DEF h
    <3>2. h <= pool'.heat
      BY <1>1, <3>1
    <3> QED BY <3>2 DEF h
  <2> QED BY <2>1, <2>2 DEF PairOpens
<1>4. dec.heat = pool'.heat => pool'.heat = pool.heat
  BY <1>1 DEF DecInv
<1> QED BY <1>2, <1>3, <1>4 DEF DecInv, Swim

\* Each console has a decoder of its own.
LEMMA FedIs ==
    ASSUME NEW d, NEW m
    PROVE  /\ kind = "quantum" => Fed(d, m) = FeedQuantum(d, m)
           /\ kind \in RTD     => Fed(d, m) = FeedRtd(d, m)
           /\ kind = "alge"    => Fed(d, m) = FeedAlge(d, m)
           /\ kind = "seiko"   => Fed(d, m) = FeedSeiko(d, m)
           /\ kind \in Swiss   => Fed(d, m) = FeedSwiss(d, m)
           /\ kind = "dolphin" => Fed(d, m) = FeedDolphin(d, m)
           /\ kind = "gen6"    => Fed(d, m) = FeedGen6(d, m)
           /\ kind = "gen7"    => Fed(d, m) = FeedGen7(d, m)
  BY DEF Fed, RTD, Swiss

\* The consoles of a family.
LEMMA KindsApart ==
    /\ kind \in RTD => kind \in {"rtd", "ares"}
    /\ kind \in Swiss => kind \in {"swisslane", "swissrank"}
    /\ kind \in CTS => kind \in {"gen6", "gen7"}
  BY DEF RTD, Swiss, CTS

\* A wire with messages this console sends keeps the invariant.
LEMMA WireSent ==
    ASSUME WireInv, UNCHANGED <<kind, full, known>>,
           lost' = lost \/ lost' = [lost EXCEPT !.since = 0],
           wire' \in Seq(Msgs(wire')), pool'.heat > 0,
           \A m \in Msgs(wire') : SayableBy(pool', m)
    PROVE  WireInv'
<1>1. lost' \in [all : Nat, since : Nat]
  BY DEF WireInv
<1> QED BY <1>1 DEF WireInv, SayableBy, Named, At, Soon, Swim

\* Where the start lists are known, a start sends the swimmers of the heat.
LEMMA StartsSwimmers ==
    ASSUME PoolInv, DecInv, known, NEW d, d.lanes = dec.lanes, dec.heat = pool.heat,
           pool.heat # 0
    PROVE  LanesToStart(d) = Swim(pool)
<1>1. pool.heat \in Heats /\ pool.heat > 0
  BY HeatsNat DEF PoolInv, Pools
<1>2. d.lanes = Swimmers[pool.heat] /\ Swimmers[pool.heat] # {}
  BY <1>1, HeatsSwum DEF DecInv
<1> QED BY <1>2 DEF LanesToStart, Swim

\* A heat no one has swum: its swimmers are all about to.
LEMMA NobodyTouched ==
    ASSUME PoolInv, pool.heat # 0, pool.out = {}, \A l \in Lanes : pool.legs[l] = 0
    PROVE  /\ \A l \in Lanes : /\ pool.mark[l] = 0 /\ pool.legs[l] < Legs /\ pool.legs[l] # Legs
                               /\ Swims(pool, l) = (l \in Swim(pool)) /\ pool.wall[l] = 0
           /\ \E l \in Lanes : Swims(pool, l)
<1>1. \A l \in Lanes : /\ pool.mark[l] = 0 /\ pool.legs[l] < Legs /\ pool.legs[l] # Legs
                       /\ Swims(pool, l) = (l \in Swim(pool)) /\ pool.wall[l] = 0
  <2> SUFFICES ASSUME NEW l \in Lanes
               PROVE  /\ pool.mark[l] = 0 /\ pool.legs[l] < Legs /\ pool.legs[l] # Legs
                      /\ Swims(pool, l) = (l \in Swim(pool)) /\ pool.wall[l] = 0
    OBVIOUS
  <2>1. pool.legs[l] = 0 /\ pool.legs[l] < Legs /\ pool.legs[l] # Legs
    BY ConsoleAssumption
  <2>2. pool.mark[l] = 0 /\ pool.wall[l] = 0
    BY <2>1 DEF PoolInv
  <2> QED BY <2>1, <2>2 DEF Swims
<1>2. \E l \in Lanes : l \in Swim(pool)
  BY InHeatIs DEF PoolInv
<1> QED BY <1>1, <1>2

\* A line of the clock.
LEMMA ClockLine ==
    ASSUME NEW p, NEW zero \in BOOLEAN
    PROVE  /\ At(p, zero).t = "clock" /\ At(p, zero).zero = zero
           /\ At(p, zero).heat = p.heat /\ At(p, zero).soon = FALSE
  BY DEF At

\* A wire of one message.
LEMMA OneSaid ==
    ASSUME NEW a, NEW p, SayableBy(p, a), NEW w, w = <<a>>
    PROVE  w \in Seq(Msgs(w)) /\ \A m \in Msgs(w) : SayableBy(p, m)
<1>1. Msgs(w) = {a} /\ w \in Seq({a})
  BY MsgsShort
<1> QED BY <1>1

\* Nobody is shown stopped at the wall, nobody has given up.
LEMMA NobodyAtWall ==
    ASSUME PoolInv, kind \notin CTS \cup Swiss \cup {"quantum", "dolphin"}
    PROVE  /\ pool.out = {}
           /\ \A l \in Lanes : /\ pool.wall[l] = 0
                               /\ Swims(pool, l) = (l \in Swim(pool) /\ pool.legs[l] < Legs)
<1>1. pool.out = {} /\ \A l \in Lanes : pool.wall[l] = 0
  BY DEF PoolInv
<1> QED BY <1>1 DEF Swims

\* What two of its parts put on a wire.
LEMMA MsgsConcat ==
    ASSUME NEW u, NEW v, u \in Seq(Msgs(u)), v \in Seq(Msgs(v))
    PROVE  /\ Msgs(u \o v) = Msgs(u) \cup Msgs(v)
           /\ u \o v \in Seq(Msgs(u \o v))
<1> DEFINE S == Msgs(u) \cup Msgs(v)
           w == u \o v
<1>1. u \in Seq(S) /\ v \in Seq(S)
  OBVIOUS
<1>0. /\ DOMAIN u = 1..Len(u) /\ DOMAIN v = 1..Len(v)
      /\ Msgs(u) = {u[i] : i \in 1..Len(u)} /\ Msgs(v) = {v[i] : i \in 1..Len(v)}
      /\ Len(u) \in Nat /\ Len(v) \in Nat
  BY DEF Msgs
<1> HIDE DEF S
<1>2. /\ w \in Seq(S) /\ Len(w) = Len(u) + Len(v)
      /\ \A i \in 1..Len(u) : w[i] = u[i]
      /\ \A i \in 1..Len(v) : w[Len(u) + i] = v[i]
  BY <1>1
<1> HIDE DEF w
<1>3. DOMAIN w = 1..Len(w) /\ Len(w) \in Nat /\ \A i \in 1..Len(w) : w[i] \in S
  BY <1>2
<1>4. Msgs(w) \subseteq S
  BY <1>3 DEF Msgs
<1>5. Msgs(u) \subseteq Msgs(w)
  <2> SUFFICES ASSUME NEW i \in 1..Len(u) PROVE u[i] \in Msgs(w)
    BY <1>0
  <2>1. i \in DOMAIN w /\ w[i] = u[i]
    BY <1>0, <1>2, <1>3
  <2> QED BY <2>1 DEF Msgs
<1>6. Msgs(v) \subseteq Msgs(w)
  <2> SUFFICES ASSUME NEW i \in 1..Len(v) PROVE v[i] \in Msgs(w)
    BY <1>0
  <2>1. Len(u) + i \in DOMAIN w /\ w[Len(u) + i] = v[i]
    BY <1>0, <1>2, <1>3
  <2> QED BY <2>1 DEF Msgs
<1>7. Msgs(w) = S
  BY <1>4, <1>5, <1>6 DEF S
<1> QED BY <1>2, <1>7 DEF S, w

\* A function on 1..n is a sequence.
LEMMA FunctionIsSeq ==
    ASSUME NEW n \in Nat, NEW S, NEW w \in [1..n -> S]
    PROVE  w \in Seq(S)
  OBVIOUS

\* A message for each lane.
LEMMA MsgsOfLanes ==
    ASSUME NEW w, DOMAIN w = 1..Cardinality(Lanes), w = [i \in 1..Cardinality(Lanes) |-> w[i]]
    PROVE  Msgs(w) = {w[l] : l \in Lanes} /\ w \in Seq(Msgs(w))
<1> DEFINE n == Cardinality(Lanes)
<1>1. n \in Nat /\ Lanes = 1..n
  BY ConsoleAssumption
<1>2. Msgs(w) = {w[l] : l \in 1..n}
  BY DEF Msgs
<1>3. w \in [1..n -> Msgs(w)]
  BY <1>2
<1>4. Msgs(w) = {w[l] : l \in Lanes}
  BY <1>1, <1>2
<1> DEFINE S == Msgs(w)
<1> HIDE DEF n, S
<1>5. w \in Seq(S)
  <2>1. w \in [1..n -> S]
    BY <1>3 DEF S
  <2> QED BY <1>1, <2>1, FunctionIsSeq
<1> QED BY <1>4, <1>5 DEF S

\* A short wire is a sequence.
LEMMA ShortIsSeq ==
    /\ <<>> \in Seq(Msgs(<<>>))
    /\ \A a : <<a>> \in Seq(Msgs(<<a>>))
    /\ \A a, b : <<a, b>> \in Seq(Msgs(<<a, b>>))
<1>1. \A a : <<a>> \in Seq(Msgs(<<a>>))
  <2> TAKE a
  <2>1. Msgs(<<a>>) = {a} /\ <<a>> \in Seq({a})
    BY MsgsShort
  <2> QED BY <2>1
<1>2. \A a, b : <<a, b>> \in Seq(Msgs(<<a, b>>))
  <2> TAKE a, b
  <2>1. Msgs(<<a, b>>) = {a, b} /\ <<a, b>> \in Seq({a, b})
    BY MsgsShort
  <2> QED BY <2>1
<1> QED BY <1>1, <1>2

-----------------------------------------------------------------------------
(* Seiko.                                                                   *)

\* What a Seiko may send.
LEMMA SeikoSays ==
    ASSUME kind = "seiko", NEW p, NEW m
    PROVE  SayableBy(p, m) <=>
               \/ m = At(p, TRUE) \/ m = At(p, FALSE)
               \/ m \in [t : {"L", "G"}, lane : Lanes, time : Nat, order : Nat]
  BY DEF SayableBy, RTD, Swiss

\* What a line of the clock changes, and what it leaves.
LEMMA SeikoClockFields ==
    ASSUME kind = "seiko", NEW d \in Decs, NEW m, NEW e, e = SeikoClock(d, m), m.zero \in BOOLEAN
    PROVE  /\ e \in Decs /\ SameHeat(e, d) /\ SameAside(e, d)
           /\ m.zero => ~e.active
           /\ ~m.zero => e.active
           /\ ~m.zero /\ d.active => e = d
           /\ ~m.zero /\ ~d.active =>
                /\ e.time = None /\ e.place = None /\ e.splits = None
                /\ \A l \in Lanes : e.running[l] = (l \in LanesToStart(d))
<1>1. CASE m.zero
  <2>1. e = [d EXCEPT !.active = FALSE]
    BY <1>1 DEF SeikoClock
  <2> QED BY <1>1, <2>1 DEF Decs, SameHeat, SameAside
<1>2. CASE ~m.zero /\ d.active
  BY <1>2 DEF SeikoClock, SameHeat, SameAside
<1>3. CASE ~m.zero /\ ~d.active
  <2> DEFINE r == ResetForReswim(d)
  <2>1. r \in Decs /\ ResetLeaves(r, d) /\ r.heat = d.heat
    BY ReswimFields DEF AllKinds
  <2>2. ~r.active /\ SameHeat(r, d) /\ SameAside(r, d) /\ Darkened(r)
    BY <1>3, <2>1, KindsApart DEF ResetLeaves, SameHeat, SameAside, CTS
  <2>3. e = Started(r, {})
    BY <1>3 DEF SeikoClock
  <2>4. LanesToStart(r) = LanesToStart(d)
    BY <2>2 DEF LanesToStart, SameHeat, SameAside
  <2>5. \A l \in Lanes : ~r.running[l]
    BY <2>2 DEF Darkened, Still
  <2> HIDE DEF r
  <2>6. /\ e \in Decs /\ SameHeat(e, r) /\ SameAside(e, r) /\ e.active
        /\ e.time = r.time /\ e.place = r.place /\ e.splits = r.splits
        /\ \A l \in Lanes : e.running[l] = (r.running[l] \/ l \in LanesToStart(r) \ {})
    BY <2>1, <2>2, <2>3, StartedFields
  <2> QED BY <1>3, <2>2, <2>4, <2>5, <2>6 DEF SameHeat, SameAside, Darkened
<1>4. d.active \in BOOLEAN
  BY DEF Decs
<1> QED BY <1>1, <1>2, <1>3, <1>4

\* What a touch changes, and what it leaves.
LEMMA SeikoTouchFields ==
    ASSUME NEW d \in Decs, NEW m \in [t : {"L", "G"}, lane : Lanes, time : Nat, order : Nat],
           NEW e, e = SeikoTouch(d, m)
    PROVE  /\ e \in Decs /\ SameHeat(e, d) /\ SameAside(e, d) /\ e.active = d.active
           /\ e.time[m.lane] = m.time /\ e.running[m.lane] = (m.t = "L")
           /\ e.splits[m.lane] = d.splits[m.lane] + 1
           /\ m.order # 0 => e.place[m.lane] = m.order
           /\ \A k \in Lanes \ {m.lane} :
                /\ e.time[k] = d.time[k] /\ e.running[k] = d.running[k]
                /\ e.place[k] = d.place[k] /\ e.splits[k] = d.splits[k]
<1> DEFINE l == m.lane
           t == [d.time EXCEPT ![l] = m.time]
           p == [d.place EXCEPT ![l] = IF m.order # 0 THEN m.order ELSE @]
           s == [d.splits EXCEPT ![l] = @ + 1]
           r == [d.running EXCEPT ![l] = m.t = "L"]
<1>1. l \in Lanes /\ m.time \in Nat /\ m.order \in Nat
  OBVIOUS
<1>2. /\ t \in [Lanes -> Nat] /\ p \in [Lanes -> Nat] /\ s \in [Lanes -> Nat]
      /\ r \in [Lanes -> BOOLEAN]
      /\ t[l] = m.time /\ r[l] = (m.t = "L") /\ s[l] = d.splits[l] + 1
      /\ m.order # 0 => p[l] = m.order
      /\ \A k \in Lanes \ {l} : /\ t[k] = d.time[k] /\ r[k] = d.running[k]
                                /\ p[k] = d.place[k] /\ s[k] = d.splits[k]
  BY <1>1 DEF Decs
<1>3. e = [d EXCEPT !.time = t, !.place = p, !.splits = s, !.running = r]
  BY DEF SeikoTouch, SplitStep
<1> HIDE DEF t, p, s, r
<1>4. e \in Decs /\ SameHeat(e, d) /\ SameAside(e, d) /\ e.active = d.active
  BY ZenonT(30), <1>2, <1>3 DEF Decs, SameHeat, SameAside
<1>5. e.time = t /\ e.place = p /\ e.splits = s /\ e.running = r
  BY <1>2, <1>3 DEF Decs
<1> QED BY <1>2, <1>4, <1>5

\* What a Seiko may send fits.
LEMMA SeikoFed ==
    ASSUME PoolInv, DecInv, kind = "seiko", NEW m, SayableBy(pool, m)
    PROVE  Fit(Fed(dec, m))
<1>1. dec \in Decs /\ Fed(dec, m) = FeedSeiko(dec, m)
  BY FedIs DEF DecInv
<1>2. \/ m \in {At(pool, TRUE), At(pool, FALSE)}
      \/ m \in [t : {"L", "G"}, lane : Lanes, time : Nat, order : Nat]
  BY SeikoSays
<1>3. /\ Fed(dec, m) \in Decs /\ SameHeat(Fed(dec, m), dec) /\ SameAside(Fed(dec, m), dec)
  <2>1. CASE m \in {At(pool, TRUE), At(pool, FALSE)}
    <3>1. m.t = "clock" /\ m.zero \in BOOLEAN
      BY <2>1, ClockLine
    <3>2. Fed(dec, m) = SeikoClock(dec, m)
      BY <1>1, <3>1 DEF FeedSeiko
    <3> QED BY <1>1, <3>1, <3>2, SeikoClockFields
  <2>2. CASE m \in [t : {"L", "G"}, lane : Lanes, time : Nat, order : Nat]
    <3>1. Fed(dec, m) = SeikoTouch(dec, m)
      BY <1>1, <2>2 DEF FeedSeiko
    <3> QED BY <1>1, <2>2, <3>1, SeikoTouchFields
  <2> QED BY <1>2, <2>1, <2>2
<1> QED BY <1>3, PlainFit DEF SameHeat, SameAside

\* A message of a Seiko, delivered.
LEMMA SeikoDeliver ==
    ASSUME PoolInv, DecInv, WireInv, kind = "seiko", known, pool.heat # 0,
           SeikoHears(pool, wire, dec), Deliver
    PROVE  SeikoHears(pool, wire', dec')
<1> DEFINE m == Head(wire)
           f == Fed(dec, m)
<1>1. wire # <<>> /\ wire' = Tail(wire) /\ dec' = Apply(f) /\ UNCHANGED <<kind, known, pool>>
  BY DEF Deliver, Quiet
<1>2. SayableBy(pool, m)
  BY <1>1, HeadHeard
<1>3. Fit(f)
  BY <1>2, SeikoFed
<1>4. /\ dec'.heat = f.heat /\ SameAside(dec', f) /\ SameShown(dec', f) /\ SameRest(dec', f)
      /\ dec'.reset = (~Finished(f) /\ (f.reset \/ Finished(dec)))
  BY <1>1, <1>3, DecKept
<1>5. f = FeedSeiko(dec, m) /\ dec \in Decs
  BY FedIs DEF DecInv
<1>6. /\ pool.out = {}
      /\ \A l \in Lanes : /\ pool.wall[l] = 0
                          /\ Swims(pool, l) = (l \in Swim(pool) /\ pool.legs[l] < Legs)
  BY NobodyAtWall DEF CTS, Swiss
<1> HIDE DEF f
<1>7. CASE pool.phase = "ready"
  <2>1. wire = <<At(pool, TRUE)>>
    BY <1>1, <1>7 DEF SeikoHears
  <2>2. m = At(pool, TRUE) /\ wire' = <<>>
    BY <1>1, <2>1
  <2>3. f = SeikoClock(dec, m) /\ m.zero
    BY <1>5, <2>2, ClockLine DEF FeedSeiko
  <2>4. ~f.active
    BY <1>5, <2>3, SeikoClockFields
  <2> QED BY <1>4, <1>7, <2>2, <2>4 DEF SeikoHears, SameRest
<1>8. CASE pool.phase # "ready" /\ wire = <<At(pool, FALSE)>>
  <2>1. m = At(pool, FALSE) /\ wire' = <<>>
    BY <1>1, <1>8
  <2>2. f = SeikoClock(dec, m) /\ m.zero = FALSE
    BY <1>5, <2>1, ClockLine DEF FeedSeiko
  <2>3. dec.heat = pool.heat /\ ~dec.active /\ \A l \in Lanes : pool.legs[l] = 0
    <3>1. wire # <<>> /\ wire[1].t = "clock"
      BY <1>8, ClockLine
    <3>2. ASSUME NEW l,
                 wire = <<[t |-> IF pool.legs[l] = Legs THEN "G" ELSE "L", lane |-> l,
                           time |-> pool.mark[l], order |-> RankIn(pool, l)]>>
          PROVE  FALSE
      <4>1. wire[1].t = IF pool.legs[l] = Legs THEN "G" ELSE "L"
        BY <3>2
      <4> QED BY <3>1, <4>1
    <3> QED BY <1>8, <3>1, <3>2 DEF SeikoHears
  <2>4. /\ f.active /\ SameHeat(f, dec)
        /\ f.time = None /\ f.place = None /\ f.splits = None
        /\ \A l \in Lanes : f.running[l] = (l \in LanesToStart(dec))
    BY <1>5, <2>2, <2>3, SeikoClockFields
  <2>5. LanesToStart(dec) = Swim(pool)
    BY <2>3, StartsSwimmers
  <2>6. /\ \A l \in Lanes : /\ pool.mark[l] = 0 /\ pool.legs[l] # Legs
                            /\ Swims(pool, l) = (l \in Swim(pool))
        /\ \E l \in Lanes : Swims(pool, l)
    BY <1>6, <2>3, NobodyTouched
  <2>7. \A l \in Lanes : SeikoLane(pool, dec', l)
    BY <1>4, <2>3, <2>4, <2>5, <2>6 DEF SeikoLane, IsRank, SameShown, None
  <2> QED BY <1>4, <1>8, <2>1, <2>3, <2>4, <2>6, <2>7 DEF SeikoHears, Going, SameHeat, SameRest
<1>9. CASE pool.phase # "ready" /\ wire # <<At(pool, FALSE)>>
  <2>1. PICK l \in Swim(pool) :
            /\ \A k \in Lanes \ {l} : SeikoLane(pool, dec, k)
            /\ dec.running[l] /\ pool.legs[l] > 0
            /\ dec.splits[l] = pool.legs[l] - 1
            /\ wire = <<[t |-> IF pool.legs[l] = Legs THEN "G" ELSE "L", lane |-> l,
                         time |-> pool.mark[l], order |-> RankIn(pool, l)]>>
    BY <1>1, <1>9 DEF SeikoHears
  <2>2. dec.active /\ ~dec.reset /\ dec.heat = pool.heat
    BY <1>1, <1>9 DEF SeikoHears
  <2>3. /\ m = [t |-> IF pool.legs[l] = Legs THEN "G" ELSE "L", lane |-> l,
                time |-> pool.mark[l], order |-> RankIn(pool, l)]
        /\ wire' = <<>>
    BY <1>1, <2>1
  <2>4. l \in Lanes /\ RankIn(pool, l) \in Lanes /\ pool.mark[l] \in Nat
    <3>1. l \in Lanes
      BY InHeatIs
    <3> QED BY <3>1, RankType DEF PoolInv, Pools
  <2>5. /\ m \in [t : {"L", "G"}, lane : Lanes, time : Nat, order : Nat]
        /\ m.t = (IF pool.legs[l] = Legs THEN "G" ELSE "L") /\ m.lane = l
        /\ m.time = pool.mark[l] /\ m.order = RankIn(pool, l) /\ m.order # 0
    <3> DEFINE r == RankIn(pool, l)
               x == pool.mark[l]
    <3>1. r \in Nat /\ r # 0 /\ x \in Nat
      BY <2>4, LanesFinite
    <3> HIDE DEF r, x
    <3> QED BY <2>3, <2>4, <3>1 DEF r, x
  <2>6. f = SeikoTouch(dec, m)
    BY <1>5, <2>5 DEF FeedSeiko
  <2>7. /\ SameHeat(f, dec) /\ f.active = dec.active
        /\ f.time[l] = pool.mark[l] /\ f.running[l] = (m.t = "L")
        /\ f.splits[l] = dec.splits[l] + 1 /\ f.place[l] = RankIn(pool, l)
        /\ \A k \in Lanes \ {l} :
                /\ f.time[k] = dec.time[k] /\ f.running[k] = dec.running[k]
                /\ f.place[k] = dec.place[k] /\ f.splits[k] = dec.splits[k]
    BY SMTT(20), <1>5, <2>4, <2>5, <2>6, SeikoTouchFields
  <2>8. ~dec'.reset
    <3>1. ~Finished(dec)
      BY <2>1, <2>4 DEF Finished
    <3> QED BY <1>4, <2>2, <2>7, <3>1 DEF SameHeat
  <2>9. SeikoLane(pool, dec', l)
    <3>1. pool.legs[l] \in 0..Legs /\ Legs \in Nat
      BY <2>4, ConsoleAssumption DEF PoolInv, Pools
    <3>2. f.splits[l] = pool.legs[l]
      BY <2>1, <2>7, <3>1
    <3>3. (m.t = "L") = (pool.legs[l] < Legs)
      BY <2>5, <3>1
    <3> QED BY <1>4, <1>6, <2>1, <2>4, <2>7, <3>2, <3>3 DEF SeikoLane, IsRank, SameShown
  <2>10. \A k \in Lanes \ {l} : SeikoLane(pool, dec', k)
    BY <1>4, <2>1, <2>7 DEF SeikoLane, IsRank, SameShown
  <2>11. \A k \in Lanes : SeikoLane(pool, dec', k)
    BY <2>9, <2>10
  <2> QED BY <1>4, <1>9, <2>2, <2>3, <2>7, <2>8, <2>11
          DEF SeikoHears, Going, SameHeat, SameRest
<1> QED BY <1>7, <1>8, <1>9

\* The decoder of a Seiko alone, with nothing on the wire.
LEMMA SeikoIdle ==
    ASSUME PoolInv, DecInv, WireInv, kind = "seiko", known, pool.heat # 0,
           SeikoHears(pool, wire, dec), Tick \/ BoardIsReset \/ SetHeat
    PROVE  SeikoHears(pool, wire', dec')
<1>1. wire = <<>> /\ wire' = <<>> /\ UNCHANGED <<kind, known, pool>>
  BY DEF Tick, BoardIsReset, SetHeat, Quiet, consoleVars
<1>2. dec \in Decs
  BY DEF DecInv
<1>3. CASE pool.phase = "ready"
  <2>1. ~dec.active
    BY <1>1, <1>3 DEF SeikoHears
  <2>2. ~Tick
    BY <1>3 DEF Tick, RTD, Swiss
  <2>3. CASE BoardIsReset
    <3> DEFINE d == IF Finished(dec) \/ dec.running # Still THEN dec ELSE ResetLanes(dec)
    <3>1. d \in Decs /\ ~d.active
      BY <1>2, <2>1, ResetFields, KindsApart DEF ResetLeaves, AllKinds, CTS
    <3>2. dec' = [d EXCEPT !.reset = FALSE]
      BY <2>3 DEF BoardIsReset
    <3> HIDE DEF d
    <3>3. ~dec'.active
      BY <3>1, <3>2 DEF Decs
    <3> QED BY <1>1, <1>3, <3>3 DEF SeikoHears
  <2>4. CASE SetHeat
    <3> DEFINE r == ResetLanes(dec)
               d == [r EXCEPT !.heat = pool.heat]
               s == IF known THEN d.heat ELSE 0
               n == IF known THEN Swimmers[d.heat] ELSE {}
    <3>1. r \in Decs /\ ~r.active
      BY <1>2, ResetFields, KindsApart DEF ResetLeaves, AllKinds, CTS
    <3>2. dec' = [[d EXCEPT !.seeds = s, !.lanes = n] EXCEPT !.reset = FALSE]
      BY <2>4 DEF SetHeat, OnEventChanged
    <3> HIDE DEF r, s, n
    <3>3. ~dec'.active
      BY <3>1, <3>2 DEF Decs
    <3> QED BY <1>1, <1>3, <3>3 DEF SeikoHears
  <2> QED BY <2>2, <2>3, <2>4
<1>4. CASE pool.phase # "ready"
  <2>1. /\ dec.heat = pool.heat /\ Going(pool, dec) /\ dec.active
        /\ \A l \in Lanes : SeikoLane(pool, dec, l)
    BY <1>1, <1>4 DEF SeikoHears
  <2>2. ~SetHeat
    BY <2>1 DEF SetHeat
  <2>3. CASE Tick
    <3> DEFINE m == [t |-> "clock", zero |-> pool.phase = "ready",
                     heat |-> pool.heat, soon |-> FALSE]
    <3>1. m.t = "clock" /\ m.zero = FALSE /\ m = At(pool, FALSE)
      BY <1>4 DEF At
    <3>2. dec' = Apply(Fed(dec, m))
      BY <2>3 DEF Tick
    <3> HIDE DEF m
    <3>3. Fed(dec, m) = dec
      BY <1>2, <2>1, <3>1, FedIs, SeikoClockFields DEF FeedSeiko
    <3>4. Fit(dec)
      BY <1>2, PlainFit
    <3>5. /\ dec'.heat = dec.heat /\ SameShown(dec', dec) /\ SameRest(dec', dec)
          /\ dec'.reset => dec.reset
      BY <1>1, <3>2, <3>3, <3>4, DecKept
    <3> QED BY <1>1, <1>4, <2>1, <3>5
            DEF SeikoHears, Going, SeikoLane, IsRank, SameShown, SameRest
  <2>4. CASE BoardIsReset
    <3>1. dec.running # Still
      <4>1. PICK l \in Lanes : Swims(pool, l)
        BY <2>1, <2>4 DEF Going, BoardIsReset
      <4>2. dec.running[l]
        BY <2>1, <4>1 DEF SeikoLane
      <4> QED BY <4>2 DEF Still
    <3>2. dec' = [dec EXCEPT !.reset = FALSE]
      BY <2>4, <3>1 DEF BoardIsReset
    <3>3. /\ dec'.heat = dec.heat /\ SameShown(dec', dec) /\ SameRest(dec', dec)
          /\ dec'.reset = FALSE
      BY <1>2, <3>2 DEF Decs, SameShown, SameRest
    <3> QED BY <1>1, <1>4, <2>1, <3>3
            DEF SeikoHears, Going, SeikoLane, IsRank, SameShown, SameRest
  <2> QED BY <2>2, <2>3, <2>4
<1> QED BY <1>3, <1>4

\* A step of a Seiko.
LEMMA SeikoConsole ==
    ASSUME PoolInv, PoolInv', DecInv, WireInv, ~SlowReset, ~PostsByPlace, kind = "seiko",
           Console, pool.heat # 0 /\ lost.since = 0 /\ known => SeikoHears(pool, wire, dec)
    PROVE  /\ WireInv'
           /\ lost'.since = 0 /\ known => SeikoHears(pool', wire', dec')
<1>1. /\ wire = <<>> /\ UNCHANGED <<kind, full, known, dec>> /\ ConsoleStep /\ Settled
  BY DEF Console, ConsoleStep, NextHeat, Reswim, Start, End, PostByPlace, Touch, GoesOn,
         Flicker, GivesUp, Deletes, Quiet, Send
<1>2. full
  BY DEF WireInv, Swiss
<1>3. CASE NextHeat \/ Reswim
  <2>1. pool'.phase = "ready" /\ pool'.heat \in Heats
    BY <1>3, NextHeatPool, ReswimPool DEF Made
  <2>2. wire' = <<At(pool', TRUE)>> /\ pool'.heat > 0
    <3>1. pool'.heat > 0
      BY <2>1, HeatsNat
    <3> QED BY <1>3, <3>1
            DEF NextHeat, Reswim, Send, Announces, Clock, At, RTD, Swiss, CTS
  <2>3. lost' = lost \/ lost' = [lost EXCEPT !.since = 0]
    BY <1>3 DEF NextHeat, Reswim
  <2>4. SayableBy(pool', At(pool', TRUE))
    BY SeikoSays
  <2>5. wire' \in Seq(Msgs(wire')) /\ \A m \in Msgs(wire') : SayableBy(pool', m)
    BY <2>2, <2>4, OneSaid
  <2>6. WireInv'
    BY <1>1, <2>2, <2>3, <2>5, WireSent
  <2> QED BY <2>1, <2>2, <2>6 DEF SeikoHears
<1>4. CASE Start
  <2>1. /\ SameSwum(pool, pool') /\ pool'.phase = "racing" /\ pool.phase = "ready"
        /\ pool.heat # 0 /\ pool'.heat > 0 /\ lost' = lost
    BY <1>4, StartPool, HeatsNat DEF PoolInv, Pools, SameSwum, Start
  <2>2. wire' = <<At(pool', FALSE)>>
    BY <1>2, <1>4 DEF Start, Send, Starts, Clock, At, RTD, Swiss
  <2>3. SayableBy(pool', At(pool', FALSE))
    BY SeikoSays
  <2>4. wire' \in Seq(Msgs(wire')) /\ \A m \in Msgs(wire') : SayableBy(pool', m)
    BY <2>2, <2>3, OneSaid
  <2>5. WireInv'
    BY <1>1, <2>1, <2>4, WireSent
  <2>6. ~dec.reset /\ dec.heat = pool.heat
    BY <1>1, <2>1 DEF Settled
  <2>7. ASSUME lost'.since = 0, known PROVE SeikoHears(pool', wire', dec')
    <3>1. ~dec.active
      BY <1>1, <2>1, <2>7 DEF SeikoHears
    <3>2. \A l \in Lanes : pool'.legs[l] = 0
      BY <2>1 DEF SameSwum, PoolInv
    <3> QED BY <1>1, <2>1, <2>2, <2>6, <3>1, <3>2 DEF SeikoHears, Going, SameSwum
  <2> QED BY <2>5, <2>7
<1>5. CASE End
  <2>1. /\ SameSwum(pool, pool') /\ pool'.phase = "over" /\ pool.phase = "racing"
        /\ pool.heat # 0 /\ pool'.heat > 0 /\ lost' = lost /\ wire' = <<>>
    BY <1>5, EndPool, HeatsNat DEF PoolInv, Pools, SameSwum, End, Send, Ends
  <2>2. WireInv'
    BY <1>1, <2>1, WireSent, MsgsShort
  <2>3. ASSUME lost'.since = 0, known PROVE SeikoHears(pool', wire', dec')
    <3>1. /\ dec.heat = pool.heat /\ Going(pool, dec) /\ dec.active
          /\ \A l \in Lanes : SeikoLane(pool, dec, l)
      BY <1>1, <2>1, <2>3 DEF SeikoHears
    <3>2. \A l \in Lanes : Swims(pool', l) = Swims(pool, l)
      BY <2>1 DEF SameSwum, Swims, Swim
    <3>3. \A l \in Lanes : SeikoLane(pool', dec, l)
      BY <2>1, <3>1, <3>2, SameSwumRank DEF SeikoLane, SameSwum, IsRank, Swim
    <3>4. Going(pool', dec)
      BY <3>1, <3>2 DEF Going
    <3> QED BY <1>1, <2>1, <3>1, <3>3, <3>4 DEF SeikoHears, SameSwum
  <2> QED BY <2>2, <2>3
<1>6. ASSUME NEW l \in Lanes, Touch(l)
      PROVE  /\ WireInv'
             /\ lost'.since = 0 /\ known => SeikoHears(pool', wire', dec')
  <2>1. /\ pool' \in Pools /\ Touched(pool, pool', l) /\ pool.phase = "racing"
        /\ pool.heat # 0 /\ Swims(pool, l) /\ pool'.heat > 0
    BY <1>6, TouchMoves, HeatsNat DEF PoolInv, Pools, Touched
  <2> DEFINE r == RankIn(pool', l)
             x == pool'.mark[l]
             k0 == IF pool'.legs[l] = Legs THEN "G" ELSE "L"
  <2>2. /\ wire' = <<[t |-> k0, lane |-> l, time |-> x, order |-> r]>>
        /\ lost' = lost
    BY <1>6 DEF Touch, Send, Touches, RTD, Swiss
  <2>3. r \in Nat /\ x \in Nat /\ k0 \in {"G", "L"}
    BY <2>1, RankType, LanesFinite DEF Pools
  <2>4. WireInv'
    <3> HIDE DEF r, x, k0
    <3>1. SayableBy(pool', [t |-> k0, lane |-> l, time |-> x, order |-> r])
      BY <2>3, SeikoSays
    <3>2. wire' \in Seq(Msgs(wire')) /\ \A m \in Msgs(wire') : SayableBy(pool', m)
      BY <2>2, <3>1, OneSaid
    <3> QED BY <1>1, <2>1, <2>2, <3>2, WireSent
  <2>5. ASSUME lost'.since = 0, known PROVE SeikoHears(pool', wire', dec')
    <3>1. /\ dec.heat = pool.heat /\ Going(pool, dec) /\ dec.active
          /\ \A k \in Lanes : SeikoLane(pool, dec, k)
      BY <1>1, <2>1, <2>2, <2>5 DEF SeikoHears
    <3>2. ~dec.reset
      BY <1>1, <2>1 DEF Settled, Touched, PoolInv, Pools
    <3>3. /\ dec.running[l] /\ dec.splits[l] = pool.legs[l] /\ l \in Swim(pool)
          /\ pool.legs[l] < Legs /\ pool.legs[l] \in Nat
      <4>1. dec.running[l] /\ l \in Swim(pool)
        BY <2>1, <3>1 DEF SeikoLane, Swims
      <4>2. dec.splits[l] = pool.legs[l]
        BY <3>1, <4>1 DEF SeikoLane
      <4> QED BY <2>1, <4>1, <4>2 DEF Swims, PoolInv, Pools
    <3>4. pool'.legs[l] > 0 /\ dec.splits[l] = pool'.legs[l] - 1 /\ Swim(pool') = Swim(pool)
      BY <2>1, <3>3 DEF Touched, Swim
    <3>5. \A k \in Lanes \ {l} : SeikoLane(pool', dec, k)
      <4> SUFFICES ASSUME NEW k \in Lanes \ {l} PROVE SeikoLane(pool', dec, k)
        OBVIOUS
      <4>1. pool.legs[k] = Legs => RankIn(pool', k) = RankIn(pool, k)
        BY <2>1, <3>3, TouchRank
      <4>2. Swims(pool', k) = Swims(pool, k)
        BY <2>1 DEF Touched, Swims, Swim
      <4> QED BY <2>1, <3>1, <3>4, <4>1, <4>2 DEF SeikoLane, Touched, IsRank
    <3> QED BY <1>1, <2>1, <2>2, <3>1, <3>2, <3>3, <3>4, <3>5 DEF SeikoHears, Going, Touched
  <2> QED BY <2>4, <2>5
<1> QED BY <1>1, <1>3, <1>4, <1>5, <1>6, GoesOnPool
        DEF ConsoleStep, PostByPlace, Flicker, GivesUp, Deletes, CTS, Swiss

-----------------------------------------------------------------------------
(* Quantum.                                                                 *)

Seconds == [t : {"pt2"}, lane : {0} \cup Lanes, time : Nat, lap : Nat]

\* What a Quantum may send.
LEMMA QuantumSays ==
    ASSUME kind = "quantum", NEW p, NEW m
    PROVE  SayableBy(p, m) <=>
               \/ /\ m \in Firsts /\ m.heat = p.heat /\ m.used = Swim(p)
                  /\ m.a = "2" => m.b # " "
               \/ m \in Seconds
  BY DEF SayableBy, RTD, Swiss, Seconds

\* The decoder once the second frame is read and the first one's lanes are taken over.
Opened(d, p) == [[d EXCEPT !.half = NoHalf] EXCEPT !.used = p.used]

\* What the step changes, and what it leaves.
LEMMA OpenedFields ==
    ASSUME NEW d \in Decs, NEW p \in Firsts, NEW e, e = Opened(d, p)
    PROVE  /\ e \in Decs /\ SameHeat(e, d) /\ SameShown(e, d) /\ SameRest(e, d)
           /\ e.half = NoHalf /\ e.used = p.used /\ e.next = d.next /\ e.held = d.held
           /\ e.done = d.done
<1> DEFINE none == NoHalf
           u == p.used
           h == [d EXCEPT !.half = none]
<1>1. none \in {NoHalf} \cup Firsts /\ u \in SUBSET Lanes
  BY DEF Firsts
<1>2. e = [h EXCEPT !.used = u]
  BY DEF Opened
<1> SUFFICES /\ e \in Decs /\ SameHeat(e, d) /\ SameShown(e, d) /\ SameRest(e, d)
             /\ e.half = none /\ e.used = u /\ e.next = d.next /\ e.held = d.held
             /\ e.done = d.done
  OBVIOUS
<1> HIDE DEF none, u
<1>3. e \in Decs /\ SameHeat(e, d) /\ SameShown(e, d)
  BY <1>1, <1>2 DEF Decs, SameHeat, SameShown
<1>4. SameRest(e, d) /\ e.half = none /\ e.used = u
  BY <1>1, <1>2 DEF Decs, SameRest
<1>5. e.next = d.next /\ e.held = d.held /\ e.done = d.done
  BY <1>1, <1>2 DEF Decs
<1> QED BY <1>3, <1>4, <1>5

\* A lap, a finish, and a finish without a time, in lane l.
QuantumLap(d, l, x, r, lap) ==
    [[d EXCEPT !.time[l] = x, !.place[l] = IF r > 0 THEN r ELSE @] EXCEPT !.splits[l] = lap]
QuantumFinish(d, l, x, r) ==
    [[d EXCEPT !.time[l] = x, !.place[l] = IF r > 0 THEN r ELSE @] EXCEPT !.running[l] = FALSE]
QuantumOut(d, l) == [d EXCEPT !.running[l] = FALSE]
QuantumStop(d) == [d EXCEPT !.active = FALSE]

\* A pair read out: the half held, and the frame that completes it.
QuantumRead(d, p, q) == QuantumPair([d EXCEPT !.half = NoHalf], p, q)

\* The pair a Quantum sends for a lane.
LEMMA QuantumPairIs ==
    ASSUME NEW d0, NEW p \in Firsts, p.used # {}, p.a = "2" => p.b # " ", NEW q \in Seconds
    PROVE  /\ p.a = "0" /\ p.heat # Opened(d0, p).heat => QuantumRead(d0, p,
                q) = NewHeat(Opened(d0, p), p.heat)
           /\ p.a = "0" /\ p.heat = Opened(d0, p).heat =>
                QuantumRead(d0, p, q) = IF Opened(d0, p).active \/ Timed(Opened(d0, p)) # {} 
                THEN ResetForReswim(Opened(d0, p)) ELSE Opened(d0, p)
           /\ p.a = "2" /\ p.b = "S" => QuantumRead(d0, p, q) = Started(Opened(d0, p),
                Timed(Opened(d0, p)))
           /\ p.a = "2" /\ p.b # "S" /\ q.lane = 0 => QuantumRead(d0, p, q) = Opened(d0, p)
           /\ p.a = "2" /\ p.b = "A" /\ q.lane # 0 /\ q.time = 0 =>
                QuantumRead(d0, p, q) = QuantumOut(Opened(d0, p), q.lane)
           /\ p.a = "2" /\ p.b = "I" /\ q.lane # 0 /\ q.time = 0 => QuantumRead(d0, p,
                q) = Opened(d0, p)
           /\ p.a = "2" /\ p.b = "I" /\ q.lane # 0 /\ q.time # 0 =>
                QuantumRead(d0, p, q) = QuantumLap(Opened(d0, p), q.lane, q.time, p.rank, q.lap)
           /\ p.a = "2" /\ p.b = "A" /\ q.lane # 0 /\ q.time # 0 =>
                QuantumRead(d0, p, q) = QuantumFinish(Opened(d0, p), q.lane, q.time, p.rank)
           /\ p.a = "1" => QuantumRead(d0, p, q) = QuantumStop(Opened(d0, p))
           /\ \/ p.a = "0" \/ p.a = "1" \/ (p.a = "2" /\ p.b = "S")
              \/ p.a = "2" /\ p.b \in {"A", "I"}
  BY DEF QuantumRead, QuantumPair, Opened, Firsts, QuantumOut, QuantumLap, QuantumFinish,
         QuantumStop

\* What a lap changes.
Lapped(e, d, l, x, r, lap) ==
    /\ e.time[l] = x /\ (r > 0 => e.place[l] = r) /\ e.splits[l] = lap
    /\ e.running = d.running
    /\ Others(e.time, d.time, l) /\ Others(e.place, d.place, l)
    /\ Others(e.splits, d.splits, l)

\* What the step changes, and what it leaves.
LEMMA QuantumLapFields ==
    ASSUME NEW d \in Decs, NEW l \in Lanes, NEW x \in Nat, NEW r \in Nat, NEW lap \in Nat,
           NEW e, e = QuantumLap(d, l, x, r, lap)
    PROVE  /\ e \in Decs /\ SameHeat(e, d) /\ SameAside(e, d) /\ SameRest(e, d)
           /\ Lapped(e, d, l, x, r, lap)
<1> DEFINE t == [d.time EXCEPT ![l] = x]
           p == [d.place EXCEPT ![l] = IF r > 0 THEN r ELSE @]
           s == [d.splits EXCEPT ![l] = lap]
           u == d.running
<1>1. /\ t \in [Lanes -> Nat] /\ p \in [Lanes -> Nat] /\ s \in [Lanes -> Nat]
      /\ u \in [Lanes -> BOOLEAN]
      /\ t[l] = x /\ (r > 0 => p[l] = r) /\ s[l] = lap
      /\ Others(t, d.time, l) /\ Others(p, d.place, l) /\ Others(s, d.splits, l)
  BY DEF Decs, Others
<1>2. e = Shown(d, t, p, s, u)
  BY DEF Shown, Decs, QuantumLap
<1> HIDE DEF t, p, s, u
<1>3. /\ e \in Decs /\ SameHeat(e, d) /\ SameAside(e, d) /\ SameRest(e, d)
      /\ e.time = t /\ e.place = p /\ e.splits = s /\ e.running = u
  BY <1>1, <1>2, ShownFields
<1> QED BY <1>1, <1>3 DEF u, Lapped

\* What a finish changes.
Ended(e, d, l, x, r) ==
    /\ e.time[l] = x /\ (r > 0 => e.place[l] = r) /\ ~e.running[l]
    /\ e.splits = d.splits
    /\ Others(e.time, d.time, l) /\ Others(e.place, d.place, l)
    /\ Others(e.running, d.running, l)

\* What the step changes, and what it leaves.
LEMMA QuantumFinishFields ==
    ASSUME NEW d \in Decs, NEW l \in Lanes, NEW x \in Nat, NEW r \in Nat,
           NEW e, e = QuantumFinish(d, l, x, r)
    PROVE  /\ e \in Decs /\ SameHeat(e, d) /\ SameAside(e, d) /\ SameRest(e, d)
           /\ Ended(e, d, l, x, r)
<1> DEFINE t == [d.time EXCEPT ![l] = x]
           p == [d.place EXCEPT ![l] = IF r > 0 THEN r ELSE @]
           s == d.splits
           u == [d.running EXCEPT ![l] = FALSE]
<1>1. /\ t \in [Lanes -> Nat] /\ p \in [Lanes -> Nat] /\ s \in [Lanes -> Nat]
      /\ u \in [Lanes -> BOOLEAN]
      /\ t[l] = x /\ (r > 0 => p[l] = r) /\ ~u[l]
      /\ Others(t, d.time, l) /\ Others(p, d.place, l) /\ Others(u, d.running, l)
  BY DEF Decs, Others
<1>2. e = Shown(d, t, p, s, u)
  BY DEF Shown, Decs, QuantumFinish
<1> HIDE DEF t, p, s, u
<1>3. /\ e \in Decs /\ SameHeat(e, d) /\ SameAside(e, d) /\ SameRest(e, d)
      /\ e.time = t /\ e.place = p /\ e.splits = s /\ e.running = u
  BY <1>1, <1>2, ShownFields
<1> QED BY <1>1, <1>3 DEF s, Ended

\* What the step changes, and what it leaves.
LEMMA QuantumOutFields ==
    ASSUME NEW d \in Decs, NEW l \in Lanes, NEW e, e = QuantumOut(d, l)
    PROVE  /\ e \in Decs /\ SameHeat(e, d) /\ SameAside(e, d) /\ SameRest(e, d)
           /\ e.time = d.time /\ e.place = d.place /\ e.splits = d.splits /\ ~e.running[l]
           /\ Others(e.running, d.running, l)
<1> DEFINE t == d.time
           p == d.place
           s == d.splits
           u == [d.running EXCEPT ![l] = FALSE]
<1>1. /\ t \in [Lanes -> Nat] /\ p \in [Lanes -> Nat] /\ s \in [Lanes -> Nat]
      /\ u \in [Lanes -> BOOLEAN] /\ ~u[l] /\ Others(u, d.running, l)
  BY DEF Decs, Others
<1>2. e = Shown(d, t, p, s, u)
  BY DEF Shown, Decs, QuantumOut
<1> HIDE DEF t, p, s, u
<1>3. /\ e \in Decs /\ SameHeat(e, d) /\ SameAside(e, d) /\ SameRest(e, d)
      /\ e.time = t /\ e.place = p /\ e.splits = s /\ e.running = u
  BY <1>1, <1>2, ShownFields
<1> QED BY <1>1, <1>3 DEF t, p, s

\* What the step changes, and what it leaves.
LEMMA QuantumStopFields ==
    ASSUME NEW d \in Decs, NEW e, e = QuantumStop(d)
    PROVE  e \in Decs /\ SameHeat(e, d) /\ SameAside(e, d) /\ SameShown(e, d) /\ ~e.active
  BY DEF QuantumStop, Decs, SameHeat, SameAside, SameShown

\* The lanes a Quantum starts: the start list's, or those of the frame.
LEMMA QuantumStarts ==
    ASSUME kind = "quantum", PoolInv, DecInv, pool.heat # 0, dec.heat = pool.heat,
           NEW d, d.lanes = dec.lanes, d.used = Swim(pool)
    PROVE  LanesToStart(d) = Swim(pool)
<1>1. pool.heat \in Heats /\ pool.heat > 0
  BY HeatsNat DEF PoolInv, Pools
<1>2. d.lanes = Swimmers[pool.heat] \/ d.lanes = {}
  BY <1>1 DEF DecInv
<1>3. Swimmers[pool.heat] # {}
  BY <1>1, HeatsSwum
<1> QED BY <1>2, <1>3 DEF LanesToStart, Swim

\* What a pair makes of the decoder fits.
LEMMA QuantumPairFit ==
    ASSUME PoolInv, DecInv, pool.heat # 0, kind = "quantum", dec.half # NoHalf,
           NEW q \in Seconds
    PROVE  Fit(QuantumRead(dec, dec.half, q))
<1> DEFINE p == dec.half
           d == Opened(dec, p)
           e == QuantumRead(dec, p, q)
<1>1. dec \in Decs /\ p \in Firsts /\ PairOpens(p) /\ Counted(dec)
  BY DEF DecInv, Decs, Counted
<1>2. /\ p.heat \in Heats /\ p.heat <= pool.heat /\ p.used = Swimmers[p.heat]
      /\ p.used # {} /\ (p.a = "2" => p.b # " ") /\ p.rank \in Nat
  BY <1>1, HeatsSwum DEF PairOpens, Firsts
<1>3. /\ q.lane \in {0} \cup Lanes /\ q.time \in Nat /\ q.lap \in Nat
  BY DEF Seconds
<1> HIDE DEF p
<1>4. /\ d \in Decs /\ SameHeat(d, dec) /\ SameShown(d, dec) /\ SameRest(d, dec)
      /\ d.half = NoHalf /\ d.used = p.used /\ d.next = dec.next
  BY <1>1, OpenedFields
<1> HIDE DEF d
<1>5. Counted(d)
  BY <1>1, <1>4 DEF Counted, SameShown
\* What every branch keeps.
<1> DEFINE Kept ==
      /\ e \in Decs /\ e.lanes = dec.lanes /\ e.half = NoHalf /\ e.next = dec.next
      /\ e.used = p.used /\ Counted(e)
      /\ \/ e.heat = p.heat /\ \A l \in Lanes : ~e.running[l]
         \/ /\ e.heat = dec.heat
            /\ \A l \in Lanes : e.running[l] => dec.running[l] \/ l \in LanesToStart(d)
<1>6. Kept
  <2>0. d = Opened(dec, p)
    BY DEF d
  <2>1. CASE p.a = "0"
    <3>1. CASE p.heat # d.heat
      <4>1. e = NewHeat(d, p.heat)
        BY <1>1, <1>2, <2>0, <2>1, <3>1, QuantumPairIs
      <4> HIDE DEF e
      <4>2. e \in Decs /\ e.heat = p.heat /\ ResetLeaves(e, d)
        BY <1>2, <1>4, <3>1, <4>1, NewHeatFields DEF AllKinds
      <4> QED BY <1>4, <4>2, DarkCounted DEF ResetLeaves, SameHeat
    <3>2. CASE p.heat = d.heat /\ (d.active \/ Timed(d) # {})
      <4>1. e = ResetForReswim(d)
        BY <1>1, <1>2, <2>0, <2>1, <3>2, QuantumPairIs
      <4> HIDE DEF e
      <4>2. e \in Decs /\ e.heat = d.heat /\ ResetLeaves(e, d)
        BY <1>2, <1>4, <4>1, ReswimFields DEF AllKinds
      <4> QED BY <1>4, <3>2, <4>2, DarkCounted DEF ResetLeaves, SameHeat
    <3>3. CASE p.heat = d.heat /\ ~(d.active \/ Timed(d) # {})
      <4>1. e = d
        BY <1>1, <1>2, <2>0, <2>1, <3>3, QuantumPairIs
      <4> HIDE DEF e
      <4> QED BY <1>4, <1>5, <4>1 DEF SameHeat, SameShown
    <3> QED BY <3>1, <3>2, <3>3
  <2>2. CASE p.a = "2" /\ p.b = "S"
    <3>1. e = Started(d, Timed(d))
      BY <1>1, <1>2, <2>0, <2>2, QuantumPairIs
    <3> HIDE DEF e
    <3>2. /\ e \in Decs /\ SameHeat(e, d) /\ SameAside(e, d)
          /\ e.time = d.time /\ e.splits = d.splits
          /\ d.active => e.running = d.running
          /\ ~d.active => \A l \in Lanes :
                e.running[l] = (d.running[l] \/ l \in LanesToStart(d) \ Timed(d))
      BY <1>4, <3>1, StartedFields
    <3>3. Counted(e)
      BY <1>5, <3>2 DEF Counted
    <3> QED BY <1>4, <3>2, <3>3 DEF SameHeat, SameAside, SameShown, Others
  <2>3. CASE p.a = "2" /\ p.b # "S" /\ (q.lane = 0 \/ (p.b = "I" /\ q.time = 0))
    <3>1. e = d
      BY <1>1, <1>2, <2>0, <2>3, QuantumPairIs
    <3> HIDE DEF e
    <3> QED BY <1>4, <1>5, <3>1 DEF SameHeat, SameShown
  <2>4. CASE p.a = "2" /\ p.b = "A" /\ q.lane # 0 /\ q.time = 0
    <3>1. e = QuantumOut(d, q.lane) /\ q.lane \in Lanes
      BY <1>1, <1>2, <1>3, <2>0, <2>4, QuantumPairIs
    <3> HIDE DEF e
    <3>2. /\ e \in Decs /\ SameHeat(e, d) /\ SameAside(e, d) /\ e.time = d.time
          /\ e.splits = d.splits /\ ~e.running[q.lane]
          /\ Others(e.running, d.running, q.lane)
      BY <1>4, <3>1, QuantumOutFields
    <3>3. Counted(e)
      BY <1>5, <3>2 DEF Counted
    <3> QED BY <1>4, <3>2, <3>3 DEF SameHeat, SameAside, SameShown, Others
  <2>5. CASE p.a = "2" /\ p.b = "I" /\ q.lane # 0 /\ q.time # 0
    <3>1. e = QuantumLap(d, q.lane, q.time, p.rank, q.lap) /\ q.lane \in Lanes
      BY <1>1, <1>2, <1>3, <2>0, <2>5, QuantumPairIs
    <3> HIDE DEF e
    <3>2. /\ e \in Decs /\ SameHeat(e, d) /\ SameAside(e, d) /\ e.time[q.lane] = q.time
          /\ e.running = d.running
          /\ Others(e.time, d.time, q.lane) /\ Others(e.splits, d.splits, q.lane)
      <4> DEFINE l == q.lane
                 x == q.time
                 r == p.rank
                 n == q.lap
      <4>1. l \in Lanes /\ x \in Nat /\ r \in Nat /\ n \in Nat /\ e = QuantumLap(d, l, x, r, n)
        BY <1>2, <1>3, <3>1
      <4> SUFFICES /\ e \in Decs /\ SameHeat(e, d) /\ SameAside(e, d) /\ e.time[l] = x
                   /\ e.running = d.running
                   /\ Others(e.time, d.time, l) /\ Others(e.splits, d.splits, l)
        OBVIOUS
      <4>2. d \in Decs
        BY <1>4
      <4> HIDE DEF l, x, r, n
      <4>3. e \in Decs /\ SameHeat(e, d) /\ SameAside(e, d) /\ Lapped(e, d, l, x, r, n)
        BY <4>1, <4>2, QuantumLapFields
      <4> QED BY <4>3 DEF Lapped
    <3>3. Counted(e)
      BY <1>5, <2>5, <3>2 DEF Counted, Others
    <3> QED BY <1>4, <3>2, <3>3 DEF SameHeat, SameAside, SameShown, Others
  <2>6. CASE p.a = "2" /\ p.b = "A" /\ q.lane # 0 /\ q.time # 0
    <3>1. e = QuantumFinish(d, q.lane, q.time, p.rank) /\ q.lane \in Lanes
      BY <1>1, <1>2, <1>3, <2>0, <2>6, QuantumPairIs
    <3> HIDE DEF e
    <3>2. /\ e \in Decs /\ SameHeat(e, d) /\ SameAside(e, d) /\ e.time[q.lane] = q.time
          /\ e.splits = d.splits /\ ~e.running[q.lane]
          /\ Others(e.time, d.time, q.lane) /\ Others(e.running, d.running, q.lane)
      <4> DEFINE l == q.lane
                 x == q.time
                 r == p.rank
      <4>1. l \in Lanes /\ x \in Nat /\ r \in Nat /\ e = QuantumFinish(d, l, x, r)
        BY <1>2, <1>3, <3>1
      <4> SUFFICES /\ e \in Decs /\ SameHeat(e, d) /\ SameAside(e, d) /\ e.time[l] = x
                   /\ e.splits = d.splits /\ ~e.running[l]
                   /\ Others(e.time, d.time, l) /\ Others(e.running, d.running, l)
        OBVIOUS
      <4>2. d \in Decs
        BY <1>4
      <4> HIDE DEF l, x, r
      <4>3. e \in Decs /\ SameHeat(e, d) /\ SameAside(e, d) /\ Ended(e, d, l, x, r)
        BY <4>1, <4>2, QuantumFinishFields
      <4> QED BY <4>3 DEF Ended
    <3>3. Counted(e)
      BY <1>5, <2>6, <3>2 DEF Counted, Others
    <3> QED BY <1>4, <3>2, <3>3 DEF SameHeat, SameAside, SameShown, Others
  <2>7. CASE p.a = "1"
    <3>1. e = QuantumStop(d)
      BY <1>1, <1>2, <2>0, <2>7, QuantumPairIs
    <3> HIDE DEF e
    <3>2. e \in Decs /\ SameHeat(e, d) /\ SameAside(e, d) /\ SameShown(e, d)
      BY <1>4, <3>1, QuantumStopFields
    <3>3. Counted(e)
      BY <1>5, <3>2 DEF Counted, SameShown
    <3> QED BY <1>4, <3>2, <3>3 DEF SameHeat, SameAside, SameShown, Others
  <2>8. \/ p.a = "0" \/ p.a = "1" \/ (p.a = "2" /\ p.b = "S")
        \/ p.a = "2" /\ p.b \in {"A", "I"}
    BY <1>1, <1>2, <2>0, QuantumPairIs
  <2> HIDE DEF Kept
  <2> QED BY <2>1, <2>2, <2>3, <2>4, <2>5, <2>6, <2>7, <2>8
<1>7. e.heat <= pool.heat /\ (e.heat = dec.heat \/ e.heat \in Heats) /\ e.next <= pool.heat
  BY <1>2, <1>6 DEF DecInv
<1>8. ASSUME e.heat # 0, e.heat = pool.heat
      PROVE  e.used = Swim(pool) /\ \A l \in Lanes : e.running[l] => l \in Swim(pool)
  <2>1. CASE e.heat = p.heat /\ \A l \in Lanes : ~e.running[l]
    BY <1>2, <1>6, <1>8, <2>1 DEF Swim
  <2>2. CASE /\ e.heat = dec.heat
             /\ \A l \in Lanes : e.running[l] => dec.running[l] \/ l \in LanesToStart(d)
    <3>1. dec.heat = pool.heat /\ p.heat = pool.heat /\ dec.used = Swim(pool)
          /\ \A l \in Lanes : dec.running[l] => l \in Swim(pool)
      BY <1>8, <2>2 DEF DecInv, p
    <3>2. p.used = Swim(pool)
      BY <1>2, <3>1 DEF Swim
    <3>3. LanesToStart(d) = Swim(pool)
      BY <1>4, <3>1, <3>2, QuantumStarts DEF SameHeat
    <3> QED BY <1>6, <2>2, <3>1, <3>2, <3>3
  <2> QED BY <1>6, <2>1, <2>2
<1> HIDE DEF e
<1>9. Fit(e)
  BY <1>6, <1>7, <1>8 DEF Fit, Counted
<1> QED BY <1>9 DEF e, p

\* What a Quantum may send fits.
LEMMA QuantumFed ==
    ASSUME PoolInv, DecInv, pool.heat # 0, kind = "quantum", NEW m, SayableBy(pool, m)
    PROVE  Fit(Fed(dec, m))
<1>1. Fed(dec, m) = FeedQuantum(dec, m) /\ dec \in Decs
  BY FedIs DEF DecInv
<1>2. CASE m \in Firsts /\ m.heat = pool.heat /\ m.used = Swim(pool) /\ (m.a = "2" => m.b # " ")
  <2> DEFINE e == [dec EXCEPT !.half = m]
  <2>1. m.t = "pt1" /\ pool.heat \in Nat
    BY <1>2, HeatsNat DEF Firsts, PoolInv, Pools
  <2>2. Fed(dec, m) = e
    BY <1>1, <2>1 DEF FeedQuantum
  <2>3. e \in Decs /\ SameHeat(e, dec) /\ SameShown(e, dec)
    BY <1>1, <1>2 DEF Decs, SameHeat, SameShown
  <2>4. e.half = m /\ e.used = dec.used /\ e.next = dec.next
    BY <1>1, <1>2 DEF Decs
  <2>5. PairOpens(m)
    <3> DEFINE h == m.heat
               k == pool.heat
    <3>1. h = k /\ k \in Nat
      BY <1>2, <2>1
    <3> HIDE DEF h, k
    <3>2. h <= k
      BY <3>1
    <3> QED BY <1>2, <3>2 DEF PairOpens, Swim, h, k
  <2> HIDE DEF e
  <2>6. Fit(e)
    BY <1>2, <2>3, <2>4, <2>5 DEF Fit, DecInv, SameHeat, SameShown
  <2> QED BY <2>2, <2>6
<1>3. CASE m \in Seconds /\ dec.half = NoHalf
  <2>1. Fed(dec, m) = dec
    BY <1>1, <1>3 DEF FeedQuantum, Seconds
  <2>2. Fit(dec)
    BY DEF Fit, DecInv
  <2> QED BY <2>1, <2>2
<1>4. CASE m \in Seconds /\ dec.half # NoHalf
  <2>1. Fed(dec, m) = QuantumRead(dec, dec.half, m)
    BY <1>1, <1>4 DEF FeedQuantum, Seconds, QuantumRead
  <2> QED BY <1>4, <2>1, QuantumPairFit
<1> QED BY <1>2, <1>3, <1>4, QuantumSays

\* The first frame of a pair.
LEMMA QuantumFirst ==
    ASSUME NEW p, p.heat \in Heats, NEW a \in {"0", "1", "2"}, NEW b \in {" ", "S", "A", "I"},
           NEW r \in Nat
    PROVE  /\ First(p, a, b, r) \in Firsts /\ First(p, a, b, r).t = "pt1"
           /\ First(p, a, b, r).a = a /\ First(p, a, b, r).b = b
           /\ First(p, a, b, r).heat = p.heat /\ First(p, a, b, r).rank = r
           /\ First(p, a, b, r).used = Swim(p) /\ First(p, a, b, r).used # {}
           /\ First(p, a, b, r) # NoHalf
  BY HeatsSwum DEF First, Firsts, Swim, NoHalf

\* The second frame of a pair.
LEMMA QuantumSecond ==
    ASSUME NEW l \in {0} \cup Lanes, NEW x \in Nat, NEW n \in Nat
    PROVE  /\ Second(l, x, n) \in Seconds /\ Second(l, x, n).t = "pt2"
           /\ Second(l, x, n).lane = l /\ Second(l, x, n).time = x /\ Second(l, x, n).lap = n
  BY DEF Second, Seconds

\* The decoder took a first frame, and the decoder read the second one.
Holds(e, d) ==
    e.heat = d.heat /\ SameShown(e, d) /\ e.active = d.active /\ (~d.reset => ~e.reset)
Became(e, d, f) ==
    /\ e.heat = f.heat /\ SameShown(e, f) /\ e.active = f.active
    /\ e.reset = (~Finished(f) /\ (f.reset \/ Finished(d)))

\* The first frame is kept until the second comes.
LEMMA QuantumHalf ==
    ASSUME PoolInv, DecInv, WireInv, kind = "quantum", pool.heat # 0,
           NEW p \in Firsts, NEW q, wire = <<p, q>>, Deliver
    PROVE  wire' = <<q>> /\ dec'.half = p /\ Holds(dec', dec)
<1>1. /\ wire # <<>> /\ wire' = <<q>> /\ dec' = Apply(Fed(dec, p))
      /\ UNCHANGED <<kind, known, pool>> /\ Head(wire) = p
  BY DEF Deliver
<1>2. SayableBy(pool, p)
  BY <1>1, HeadHeard
<1> DEFINE f == [dec EXCEPT !.half = p]
<1>3. dec \in Decs /\ p.t = "pt1"
  BY DEF DecInv, Firsts
<1>4. Fed(dec, p) = f
  BY <1>3, FedIs DEF FeedQuantum
<1>5. Fit(f)
  BY <1>2, <1>4, QuantumFed
<1>6. SameHeat(f, dec) /\ SameShown(f, dec)
  BY <1>3 DEF Decs, SameHeat, SameShown
<1>7. f.half = p /\ f.active = dec.active /\ f.done = dec.done
  BY <1>3 DEF Decs
<1> HIDE DEF f
<1>8. /\ dec'.heat = f.heat /\ SameAside(dec', f) /\ SameShown(dec', f) /\ SameRest(dec', f)
      /\ dec'.reset = (~Finished(f) /\ (f.reset \/ Finished(dec)))
  BY <1>1, <1>4, <1>5, DecKept
<1>9. Finished(f) = Finished(dec)
  BY <1>6, <1>7, SameFinished DEF SameShown
<1> QED BY <1>1, <1>6, <1>7, <1>8, <1>9
        DEF Holds, SameHeat, SameAside, SameShown, SameRest

\* With the second frame the pair is read.
LEMMA QuantumWhole ==
    ASSUME PoolInv, DecInv, WireInv, kind = "quantum", pool.heat # 0,
           NEW p \in Firsts, NEW q \in Seconds, wire = <<q>>, dec.half = p, Deliver
    PROVE  /\ wire' = <<>> /\ QuantumRead(dec, p, q) \in Decs
           /\ Became(dec', dec, QuantumRead(dec, p, q))
<1> DEFINE f == QuantumRead(dec, p, q)
<1>1. /\ wire # <<>> /\ wire' = <<>> /\ dec' = Apply(Fed(dec, q))
      /\ UNCHANGED <<kind, known, pool>> /\ Head(wire) = q
  BY DEF Deliver
<1>2. SayableBy(pool, q)
  BY <1>1, HeadHeard
<1>3. dec \in Decs /\ q.t = "pt2" /\ p # NoHalf
  BY DEF DecInv, Seconds, Firsts, NoHalf
<1>4. Fed(dec, q) = f
  BY <1>3, FedIs DEF FeedQuantum, QuantumRead
<1>5. Fit(f)
  BY <1>2, <1>4, QuantumFed
<1> HIDE DEF f
<1>6. /\ dec'.heat = f.heat /\ SameAside(dec', f) /\ SameShown(dec', f) /\ SameRest(dec', f)
      /\ dec'.reset = (~Finished(f) /\ (f.reset \/ Finished(dec)))
  BY <1>1, <1>4, <1>5, DecKept
<1>7. f \in Decs /\ Became(dec', dec, f)
  BY <1>5, <1>6 DEF Became, SameRest, Fit
<1> QED BY <1>1, <1>7 DEF f

\* A Quantum's pair on its way leaves the rest of what it hears as it is.
LEMMA QuantumLaneKept ==
    ASSUME NEW p, NEW d, NEW e, SameShown(e, d), NEW l, QuantumLane(p, d, l)
    PROVE  QuantumLane(p, e, l)
  BY DEF QuantumLane, SameShown, IsRank

\* The pair that is on the wire, or half of it in the decoder.
LEMMA QuantumPaired ==
    ASSUME PoolInv, DecInv, WireInv, kind = "quantum", pool.heat # 0,
           NEW p \in Firsts, p # NoHalf, NEW q \in Seconds, Paired(wire, dec, p, q), Deliver
    PROVE  \/ wire = <<p, q>> /\ wire' = <<q>> /\ dec'.half = p /\ Holds(dec', dec)
           \/ /\ wire = <<q>> /\ dec.half = p /\ wire' = <<>>
              /\ QuantumRead(dec, p, q) \in Decs /\ Became(dec', dec, QuantumRead(dec, p, q))
  BY QuantumHalf, QuantumWhole DEF Paired

\* Before the start: a frame delivered.
LEMMA QuantumReadyDelivers ==
    ASSUME PoolInv, DecInv, WireInv, kind = "quantum", pool.heat # 0,
           pool.phase = "ready", QuantumHears(pool, wire, dec), Deliver
    PROVE  QuantumHears(pool, wire', dec')
<1> DEFINE p == First(pool, "0", " ", 0)
           q == Second(0, 0, 0)
           d == Opened(dec, p)
           f == QuantumRead(dec, p, q)
<1>1. wire # <<>> /\ UNCHANGED <<kind, known, pool>> /\ pool.heat \in Heats
  BY HeatsNat DEF Deliver, Quiet, PoolInv, Pools
<1>2. Paired(wire, dec, p, q)
  BY <1>1 DEF QuantumHears
<1>3. /\ p \in Firsts /\ p.a = "0" /\ p.heat = pool.heat /\ p.used # {} /\ p # NoHalf
      /\ ~(p.a = "2")
  <2>1. /\ "0" \in {"0", "1", "2"} /\ " " \in {" ", "S", "A", "I"} /\ 0 \in Nat
    OBVIOUS
  <2>2. /\ p \in Firsts /\ p.a = "0" /\ p.heat = pool.heat /\ p.used # {} /\ p # NoHalf
    BY <1>1, HeatsSwum DEF First, Firsts, Swim, NoHalf
  <2> QED BY <2>2
<1>4. q \in Seconds
  BY QuantumSecond
<1>5. SUFFICES \/ Paired(wire', dec', p, q)
               \/ wire' = <<>> /\ QuantumReady(pool, dec')
  BY <1>1 DEF QuantumHears
<1> HIDE DEF p, q
<1>6. CASE wire = <<p, q>> /\ wire' = <<q>> /\ dec'.half = p
  BY <1>6 DEF Paired
<1>7. CASE /\ wire = <<q>> /\ dec.half = p /\ wire' = <<>>
           /\ f \in Decs /\ Became(dec', dec, f)
  <2>1. /\ d \in Decs /\ SameHeat(d, dec) /\ SameShown(d, dec) /\ SameRest(d, dec)
        /\ d.half = NoHalf /\ d.used = p.used /\ d.next = dec.next
    BY <1>3, OpenedFields DEF DecInv
  <2>2. Counted(d)
    BY <2>1 DEF DecInv, Counted, SameShown
  <2>3. /\ p.heat # d.heat => f = NewHeat(d, p.heat)
        /\ p.heat = d.heat => f = IF d.active \/ Timed(d) # {} THEN ResetForReswim(d) ELSE d
    BY <1>3, <1>4, QuantumPairIs
  <2> HIDE DEF d, f
  <2>4. f.heat = pool.heat /\ ~f.active /\ \A l \in Lanes : f.time[l] = 0 /\ f.splits[l] = 0
    <3>1. CASE p.heat # d.heat
      <4>1. f.heat = p.heat /\ ResetLeaves(f, d)
        BY <1>1, <1>3, <2>1, <2>3, <3>1, NewHeatFields DEF AllKinds
      <4> QED BY <1>3, <4>1, DarkCounted DEF ResetLeaves, CTS
    <3>2. CASE p.heat = d.heat /\ (d.active \/ Timed(d) # {})
      <4>1. f.heat = d.heat /\ ResetLeaves(f, d)
        BY <2>1, <2>3, <3>2, ReswimFields DEF AllKinds
      <4> QED BY <1>3, <3>2, <4>1, DarkCounted DEF ResetLeaves, CTS
    <3>3. CASE p.heat = d.heat /\ ~(d.active \/ Timed(d) # {})
      <4>1. f = d
        BY <2>3, <3>3
      <4> QED BY <1>3, <2>2, <3>3, <4>1 DEF Counted, Timed
    <3> QED BY <3>1, <3>2, <3>3
  <2> QED BY <1>7, <2>4 DEF Became, QuantumReady, SameShown
<1> QED BY <1>2, <1>3, <1>4, <1>6, <1>7, QuantumPaired DEF f

\* A Quantum's lanes are never held at the wall.
LEMMA QuantumLegs ==
    ASSUME PoolInv, kind = "quantum", NEW l \in Lanes
    PROVE  /\ pool.wall[l] = 0 /\ pool.legs[l] \in 0..Legs /\ Legs \in Nat /\ Legs > 0
           /\ Swims(pool, l) = (l \in Swim(pool) /\ pool.legs[l] < Legs /\ l \notin pool.out)
           /\ pool.mark[l] \in Nat
<1>1. pool.wall[l] = 0
  BY DEF PoolInv, CTS, Swiss
<1> QED BY <1>1, ConsoleAssumption DEF PoolInv, Pools, Swims

\* The start, heard by a decoder that is ready for it.
LEMMA QuantumStartRead ==
    ASSUME PoolInv, DecInv, kind = "quantum", pool.heat # 0, dec.heat = pool.heat,
           QuantumReady(pool, dec), ~dec.reset, pool.out = {},
           \A l \in Lanes : pool.legs[l] = 0,
           NEW p \in Firsts, p.used = Swim(pool), p.a = "2", p.b = "S", NEW q \in Seconds,
           QuantumRead(dec, p, q) \in Decs, Became(dec', dec, QuantumRead(dec, p, q))
    PROVE  /\ dec'.heat = pool.heat /\ ~dec'.reset /\ dec'.active
           /\ \A l \in Lanes : QuantumLane(pool, dec', l)
<1> DEFINE d == Opened(dec, p)
           f == QuantumRead(dec, p, q)
<1>1. pool.heat \in Heats /\ Swim(pool) # {}
  BY HeatsNat, HeatsSwum DEF PoolInv, Pools, Swim
<1>2. /\ d \in Decs /\ SameHeat(d, dec) /\ SameShown(d, dec) /\ SameRest(d, dec)
      /\ d.half = NoHalf /\ d.used = p.used /\ d.next = dec.next
  BY OpenedFields DEF DecInv
<1>3. f = Started(d, Timed(d))
  BY <1>1, QuantumPairIs
<1> HIDE DEF d, f
<1>4. Timed(d) = {} /\ ~d.active
  BY <1>2 DEF Timed, QuantumReady, SameShown, SameRest
<1>5. LanesToStart(d) = Swim(pool)
  BY <1>2, QuantumStarts DEF SameHeat
<1>6. /\ f.heat = d.heat /\ f.reset = d.reset /\ f.active
      /\ f.time = d.time /\ f.splits = d.splits
      /\ \A l \in Lanes : f.running[l] = (d.running[l] \/ l \in LanesToStart(d) \ Timed(d))
  BY <1>2, <1>3, <1>4, StartedFields DEF SameHeat
<1>7. \A l \in Lanes : f.running[l] = (l \in Swim(pool))
  <2>1. \A l \in Lanes : d.running[l] => l \in Swim(pool)
    BY <1>2 DEF DecInv, SameShown
  <2>2. f.running \in [Lanes -> BOOLEAN]
    BY DEF Decs, f
  <2> QED BY <1>4, <1>5, <1>6, <2>1, <2>2
<1>8. ~Finished(dec)
  BY DEF Finished, QuantumReady
<1>9. \A l \in Lanes : QuantumLane(pool, dec', l)
  <2> SUFFICES ASSUME NEW l \in Lanes PROVE QuantumLane(pool, dec', l)
    OBVIOUS
  <2>1. pool.legs[l] = 0 /\ pool.mark[l] = 0 /\ 0 # Legs /\ Swims(pool, l) = (l \in Swim(pool))
    BY NobodyTouched
  <2>2. dec'.running[l] = (l \in Swim(pool)) /\ dec'.time[l] = 0 /\ dec'.splits[l] = 0
    BY <1>2, <1>6, <1>7 DEF Became, f, SameShown, QuantumReady
  <2> QED BY <2>1, <2>2 DEF QuantumLane, IsRank
<1> QED BY <1>2, <1>6, <1>8, <1>9 DEF Became, f, SameHeat

\* The end of the race.
LEMMA QuantumEndRead ==
    ASSUME PoolInv, DecInv, kind = "quantum", pool.heat # 0, dec.heat = pool.heat,
           ~dec.reset, \A l \in Lanes : QuantumLane(pool, dec, l),
           NEW p \in Firsts, p.used # {}, p.a = "1", NEW q \in Seconds,
           QuantumRead(dec, p, q) \in Decs, Became(dec', dec, QuantumRead(dec, p, q))
    PROVE  /\ dec'.heat = pool.heat /\ ~dec'.reset
           /\ \A l \in Lanes : QuantumLane(pool, dec', l)
<1> DEFINE d == Opened(dec, p)
           f == QuantumRead(dec, p, q)
<1>1. /\ d \in Decs /\ SameHeat(d, dec) /\ SameShown(d, dec) /\ d.done = dec.done
  BY OpenedFields DEF DecInv
<1>2. f = QuantumStop(d)
  BY QuantumPairIs
<1> HIDE DEF d, f
<1>3. SameHeat(f, d) /\ SameAside(f, d) /\ SameShown(f, d)
  BY <1>1, <1>2, QuantumStopFields
<1>4. SameShown(f, dec) /\ f.heat = pool.heat /\ ~f.reset /\ f.done = dec.done
  BY <1>1, <1>3 DEF SameHeat, SameShown, SameAside
<1>5. Finished(f) = Finished(dec)
  BY <1>4, SameFinished DEF SameShown
<1>6. SameShown(dec', dec) /\ dec'.heat = pool.heat /\ ~dec'.reset
  BY <1>4, <1>5 DEF Became, f, SameShown
<1> QED BY <1>6, QuantumLaneKept

\* A touch, or the finish without a time of one who gave up, in lane l.
LEMMA QuantumTouchRead ==
    ASSUME PoolInv, DecInv, kind = "quantum", pool.heat # 0, dec.heat = pool.heat,
           ~dec.reset, dec.active, NEW l \in Swim(pool),
           \A k \in Lanes \ {l} : QuantumLane(pool, dec, k), dec.running[l],
           NEW p \in Firsts, p.used # {}, p.a = "2", p.b \in {"A", "I"}, NEW q \in Seconds,
           q.lane = l, q.time = pool.mark[l],
           \/ /\ l \notin pool.out /\ pool.legs[l] > 0 /\ dec.splits[l] = pool.legs[l] - 1
              /\ p.b = (IF pool.legs[l] = Legs THEN "A" ELSE "I")
              /\ p.rank = RankIn(pool, l) /\ q.lap = pool.legs[l]
           \/ l \in pool.out /\ dec.time[l] = 0 /\ p.b = "A",
           QuantumRead(dec, p, q) \in Decs, Became(dec', dec, QuantumRead(dec, p, q))
    PROVE  /\ dec'.heat = pool.heat /\ ~dec'.reset /\ dec'.active
           /\ \A k \in Lanes : QuantumLane(pool, dec', k)
<1> DEFINE d == Opened(dec, p)
           f == QuantumRead(dec, p, q)
<1>1. l \in Lanes /\ l # 0
  BY InHeatIs, LanesFinite
<1>2. /\ d \in Decs /\ SameHeat(d, dec) /\ SameShown(d, dec) /\ SameRest(d, dec)
  BY OpenedFields DEF DecInv
<1>3. /\ pool.legs[l] \in 0..Legs /\ Legs \in Nat /\ Legs > 0 /\ pool.mark[l] \in Nat
      /\ Swims(pool, l) = (l \in Swim(pool) /\ pool.legs[l] < Legs /\ l \notin pool.out)
  BY <1>1, QuantumLegs
<1>4. RankIn(pool, l) \in Nat /\ RankIn(pool, l) > 0
  <2> DEFINE r == RankIn(pool, l)
  <2>1. r \in Lanes
    BY <1>1, RankType
  <2> HIDE DEF r
  <2>2. r \in Nat /\ r > 0
    BY <2>1, LanesFinite
  <2> QED BY <2>2 DEF r
<1>5. ~Finished(dec)
  BY <1>1 DEF Finished
<1> HIDE DEF d, f
\* What every case gives.
<1> DEFINE Lane(g) ==
      /\ g.heat = d.heat /\ g.reset = d.reset /\ g.active = d.active
      /\ g.time[l] = pool.mark[l] /\ g.running[l] = Swims(pool, l)
      /\ l \notin pool.out => g.splits[l] = IF pool.legs[l] = Legs THEN Legs - 1 ELSE pool.legs[l]
      /\ IsRank(pool, g, l)
      /\ Others(g.time, d.time, l) /\ Others(g.place, d.place, l)
      /\ Others(g.running, d.running, l) /\ Others(g.splits, d.splits, l)
<1>6. Lane(f)
  <2>1. CASE l \in pool.out
    <3>1. pool.mark[l] = 0 /\ pool.legs[l] = 0 /\ q.time = 0
      BY <2>1, <1>1 DEF PoolInv
    <3>2. f = QuantumOut(d, l)
      BY <1>1, <2>1, <3>1, QuantumPairIs DEF d, f
    <3>3. /\ SameHeat(f, d) /\ SameAside(f, d) /\ SameRest(f, d)
          /\ f.time = d.time /\ f.place = d.place /\ f.splits = d.splits /\ ~f.running[l]
          /\ Others(f.running, d.running, l)
      BY <1>1, <1>2, <3>2, QuantumOutFields
    <3>4. f.running[l] = FALSE
      <4>1. f.running[l] \in BOOLEAN
        BY <1>1 DEF Decs, f
      <4> QED BY <3>3, <4>1
    <3>5. d.time[l] = 0 /\ pool.legs[l] # Legs
      BY <1>2, <1>3, <2>1, <3>1 DEF SameShown
    <3>6. Swims(pool, l) = FALSE
      BY <2>1 DEF Swims
    <3>7. f.time[l] = pool.mark[l] /\ f.running[l] = Swims(pool, l)
      BY <3>1, <3>3, <3>4, <3>5, <3>6
    <3> QED BY <2>1, <3>3, <3>5, <3>7 DEF SameHeat, SameRest, Others, IsRank
  <2>2. CASE l \notin pool.out
    <3>1. /\ pool.mark[l] # 0 /\ q.time # 0
      BY <2>2, <1>1, <1>3 DEF PoolInv
    <3> DEFINE x == pool.mark[l]
               r == RankIn(pool, l)
               n == pool.legs[l]
               s == d.splits
    <3>2. x \in Nat /\ r \in Nat /\ r > 0 /\ n \in Nat /\ n <= Legs /\ n > 0
      BY <1>3, <1>4, <2>2
    <3>3. s[l] = n - 1
      BY <1>2, <2>2 DEF SameShown
    <3>4. CASE n = Legs
      <4>1. p.b = "A" /\ p.rank = r /\ q.time = x
        BY <2>2, <3>4
      <4>2. f = QuantumFinish(d, l, x, r)
        BY <1>1, <3>1, <4>1, QuantumPairIs DEF d, f
      <4>3. Swims(pool, l) = FALSE
        <5>1. ~(pool.legs[l] < Legs)
          BY <1>3, <3>4
        <5> QED BY <5>1 DEF Swims
      <4> HIDE DEF x, r, s
      <4>4. /\ SameHeat(f, d) /\ SameAside(f, d) /\ SameRest(f, d)
            /\ Ended(f, d, l, x, r)
        BY <1>1, <1>2, <3>2, <4>2, QuantumFinishFields
      <4>5. f.running[l] = FALSE
        <5>1. f.running[l] \in BOOLEAN
          BY <1>1 DEF Decs, f
        <5> QED BY <4>4, <5>1 DEF Ended
      <4>6. f.splits[l] = Legs - 1
        BY <3>3, <3>4, <4>4 DEF s, Ended
      <4> QED BY <3>2, <3>4, <4>3, <4>4, <4>5, <4>6
              DEF SameHeat, SameRest, Others, IsRank, x, r, Ended
    <3>5. CASE n # Legs
      <4>1. p.b = "I" /\ p.rank = r /\ q.time = x /\ q.lap = n
        BY <2>2, <3>5
      <4>2. f = QuantumLap(d, l, x, r, n)
        <5>1. f = QuantumLap(d, q.lane, q.time, p.rank, q.lap)
          BY <1>1, <3>1, <4>1, QuantumPairIs DEF d, f
        <5> HIDE DEF x, r, n
        <5> QED BY <4>1, <5>1
      <4>3. Swims(pool, l) = TRUE
        <5>1. pool.legs[l] < Legs /\ pool.wall[l] = 0
          BY <1>1, <1>3, <3>2, <3>5, QuantumLegs
        <5> QED BY <2>2, <5>1 DEF Swims
      <4>4. d.running[l] = TRUE
        <5>1. dec.running[l] \in BOOLEAN
          BY <1>1 DEF DecInv, Decs
        <5> QED BY <1>2, <5>1 DEF SameShown
      <4>5. n \in Nat
        BY <3>2
      <4> HIDE DEF x, r, n, s
      <4>6. /\ SameHeat(f, d) /\ SameAside(f, d) /\ SameRest(f, d)
            /\ Lapped(f, d, l, x, r, n)
        BY <1>1, <1>2, <3>2, <4>2, QuantumLapFields
      <4> QED BY <3>2, <3>5, <4>3, <4>4, <4>6
              DEF SameHeat, SameRest, Others, IsRank, x, r, n, Lapped
    <3> QED BY <3>4, <3>5
  <2> QED BY <2>1, <2>2
<1>7. Lane(dec') /\ dec'.heat = pool.heat /\ ~dec'.reset /\ dec'.active
  <2>1. dec'.heat = f.heat /\ SameShown(dec', f) /\ dec'.active = f.active
        /\ dec'.reset = (~Finished(f) /\ (f.reset \/ Finished(dec)))
    BY DEF Became, f
  <2>2. d.heat = pool.heat /\ ~d.reset /\ d.active
    BY <1>2 DEF SameHeat, SameRest
  <2>3. ~dec'.reset /\ dec'.reset = FALSE /\ d.reset = FALSE
    <3>1. ~dec'.reset
      BY <1>5, <1>6, <2>1, <2>2
    <3>2. d.reset \in BOOLEAN
      BY <1>2 DEF Decs
    <3> QED BY <2>1, <2>2, <3>1, <3>2
  <2> QED BY <1>6, <2>1, <2>2, <2>3 DEF SameShown, IsRank
<1>8. QuantumLane(pool, dec', l)
  BY <1>7 DEF QuantumLane
<1>9. \A k \in Lanes \ {l} : QuantumLane(pool, dec', k)
  <2> SUFFICES ASSUME NEW k \in Lanes, k # l PROVE QuantumLane(pool, dec', k)
    OBVIOUS
  <2>1. QuantumLane(pool, dec, k)
    OBVIOUS
  <2>2. /\ dec'.time[k] = dec.time[k] /\ dec'.place[k] = dec.place[k]
        /\ dec'.running[k] = dec.running[k] /\ dec'.splits[k] = dec.splits[k]
    BY <1>2, <1>7 DEF Others, SameShown
  <2> QED BY <2>1, <2>2 DEF QuantumLane, IsRank
<1> QED BY <1>7, <1>8, <1>9

\* The pair of a touch, and that of one who gave up.
QuantumPairOf(p, l) ==
    IF l \in p.out THEN First(p, "2", "A", 0)
    ELSE First(p, "2", IF p.legs[l] = Legs THEN "A" ELSE "I", RankIn(p, l))
QuantumTimeOf(p, l) ==
    IF l \in p.out THEN Second(l, 0, 0) ELSE Second(l, p.mark[l], p.legs[l])

\* The pair of a lane is a pair.
LEMMA QuantumPairType ==
    ASSUME NEW p \in Pools, p.heat \in Heats, NEW l \in Lanes, l \in p.out => p.mark[l] = 0
    PROVE  /\ QuantumPairOf(p, l) \in Firsts /\ QuantumPairOf(p, l) # NoHalf
           /\ QuantumPairOf(p, l).heat = p.heat
           /\ QuantumPairOf(p, l).used = Swim(p) /\ QuantumPairOf(p, l).used # {}
           /\ QuantumPairOf(p, l).a = "2" /\ QuantumPairOf(p, l).b \in {"A", "I"}
           /\ l \in p.out => QuantumPairOf(p, l).b = "A"
           /\ l \notin p.out =>
                /\ QuantumPairOf(p, l).b = (IF p.legs[l] = Legs THEN "A" ELSE "I")
                /\ QuantumPairOf(p, l).rank = RankIn(p, l)
                /\ QuantumTimeOf(p, l).lap = p.legs[l]
           /\ QuantumTimeOf(p, l) \in Seconds /\ QuantumTimeOf(p, l).lane = l
           /\ QuantumTimeOf(p, l).time = p.mark[l]
<1> DEFINE r == RankIn(p, l)
           x == p.mark[l]
           n == p.legs[l]
           h == p.heat
           u == Swim(p)
<1>1. r \in Nat /\ x \in Nat /\ n \in Nat /\ u \in SUBSET Lanes /\ u # {}
  <2>1. r \in Lanes
    BY RankType
  <2>2. n \in 0..Legs /\ x \in Nat
    BY DEF Pools
  <2>3. n \in Nat
    BY <2>2, ConsoleAssumption
  <2> QED BY <2>1, <2>2, <2>3, HeatsSwum, LanesFinite DEF Swim
<1>2. CASE l \in p.out
  <2>1. QuantumPairOf(p, l) = [t |-> "pt1", a |-> "2", b |-> "A", heat |-> h, rank |-> 0,
        used |-> u]
    BY <1>2 DEF QuantumPairOf, First
  <2>2. QuantumTimeOf(p, l) = [t |-> "pt2", lane |-> l, time |-> 0, lap |-> 0] /\ x = 0
    BY <1>2 DEF QuantumTimeOf, Second
  <2> HIDE DEF h, u, x
  <2>3. h \in Heats
    BY DEF h
  <2>4. /\ QuantumPairOf(p, l) \in Firsts /\ QuantumPairOf(p, l) # NoHalf
        /\ QuantumPairOf(p, l).heat = h /\ QuantumPairOf(p, l).used = u
        /\ QuantumPairOf(p, l).a = "2" /\ QuantumPairOf(p, l).b = "A"
    BY <1>1, <2>1, <2>3 DEF Firsts, NoHalf
  <2>5. /\ QuantumTimeOf(p, l) \in Seconds /\ QuantumTimeOf(p, l).lane = l
        /\ QuantumTimeOf(p, l).time = x
    BY <2>2 DEF Seconds
  <2> QED BY <1>1, <1>2, <2>4, <2>5 DEF h, u, x
<1>3. CASE l \notin p.out
  <2> DEFINE b == IF n = Legs THEN "A" ELSE "I"
  <2>1. QuantumPairOf(p, l) = [t |-> "pt1", a |-> "2", b |-> b, heat |-> h, rank |-> r, used |-> u]
    BY <1>3 DEF QuantumPairOf, First
  <2>2. QuantumTimeOf(p, l) = [t |-> "pt2", lane |-> l, time |-> x, lap |-> n]
    BY <1>3 DEF QuantumTimeOf, Second
  <2>3. h \in Heats /\ b \in {"A", "I"}
    OBVIOUS
  <2> HIDE DEF h, u, x, r, n, b
  <2> DEFINE z == QuantumPairOf(p, l)
  <2>6. z.t = "pt1" /\ z.heat = h /\ z.used = u /\ z.a = "2" /\ z.b = b /\ z.rank = r
    BY <2>1
  <2>7. z \in Firsts
    <3>1. r \in Nat /\ u \in SUBSET Lanes /\ h \in Heats /\ b \in {" ", "S", "A", "I"}
      BY <1>1, <2>3
    <3>2. z = [t |-> "pt1", a |-> "2", b |-> b, heat |-> h, rank |-> r, used |-> u]
      BY <2>1
    <3> HIDE DEF z
    <3> QED BY <3>1, <3>2 DEF Firsts
  <2>8. z # NoHalf
    BY <2>6 DEF NoHalf
  <2>4. z \in Firsts /\ z # NoHalf /\ z.heat = h /\ z.used = u /\ z.a = "2" /\ z.b = b
        /\ z.rank = r
    BY <2>6, <2>7, <2>8
  <2>5. /\ QuantumTimeOf(p, l) \in Seconds /\ QuantumTimeOf(p, l).lane = l
        /\ QuantumTimeOf(p, l).time = x /\ QuantumTimeOf(p, l).lap = n
    BY <1>1, <2>2 DEF Seconds
  <2> QED BY <1>1, <1>3, <2>3, <2>4, <2>5 DEF h, u, x, r, n, b
<1> QED BY <1>2, <1>3

\* What a Quantum hears of a touch or of one who gave up.
QuantumTouchHeard(p, w, d, l) ==
    /\ l \in Swim(p) /\ d.active
    /\ \A k \in Lanes \ {l} : QuantumLane(p, d, k)
    /\ d.running[l]
    /\ \/ l \notin p.out /\ p.legs[l] > 0 /\ d.splits[l] = p.legs[l] - 1
       \/ l \in p.out /\ d.time[l] = 0
    /\ Paired(w, d, QuantumPairOf(p, l), QuantumTimeOf(p, l))

\* What a Quantum has heard once the race is on.
LEMMA QuantumRaceHears ==
    ASSUME NEW p, NEW w, NEW d, p.phase # "ready"
    PROVE  QuantumHears(p, w, d) <=>
            /\ d.heat = p.heat /\ ~d.reset
            /\ \/ /\ Paired(w, d, First(p, "2", "S", 0), Second(0, 0, 0))
                  /\ QuantumReady(p, d) /\ p.out = {} /\ \A l \in Lanes : p.legs[l] = 0
               \/ /\ \/ w = <<>>
                     \/ p.phase = "over" /\ Paired(w, d, First(p, "1", " ", 0), Second(0, 0, 0))
                  /\ p.phase = "racing" => d.active
                  /\ \A l \in Lanes : QuantumLane(p, d, l)
               \/ \E l \in Swim(p) : QuantumTouchHeard(p, w, d, l)
  BY DEF QuantumHears, QuantumTouchHeard, QuantumPairOf, QuantumTimeOf

\* Once the race is on: a frame delivered.
LEMMA QuantumRaceDelivers ==
    ASSUME PoolInv, DecInv, WireInv, kind = "quantum", pool.heat # 0,
           pool.phase # "ready", QuantumHears(pool, wire, dec), Deliver
    PROVE  QuantumHears(pool, wire', dec')
<1>1. wire # <<>> /\ UNCHANGED <<kind, known, pool>> /\ pool.heat \in Heats /\ pool \in Pools
  BY HeatsNat DEF Deliver, Quiet, PoolInv, Pools
<1>2. dec.heat = pool.heat /\ ~dec.reset /\ Swim(pool) # {}
  BY <1>1, QuantumRaceHears, HeatsSwum DEF Swim
<1> DEFINE q == Second(0, 0, 0)
<1>3. q \in Seconds
  BY QuantumSecond
<1>4. CASE /\ Paired(wire, dec, First(pool, "2", "S", 0), q)
           /\ QuantumReady(pool, dec) /\ pool.out = {} /\ \A l \in Lanes : pool.legs[l] = 0
  <2> DEFINE p == First(pool, "2", "S", 0)
  <2>1. /\ p \in Firsts /\ p # NoHalf /\ p.a = "2" /\ p.b = "S" /\ p.used = Swim(pool)
    BY <1>1, HeatsSwum DEF First, Firsts, Swim, NoHalf
  <2>2. Paired(wire, dec, p, q)
    BY <1>4
  <2> SUFFICES
        /\ dec'.heat = pool.heat /\ ~dec'.reset
        /\ \/ Paired(wire', dec', p, q) /\ QuantumReady(pool, dec')
           \/ /\ wire' = <<>> /\ dec'.active
              /\ \A l \in Lanes : QuantumLane(pool, dec', l)
    BY <1>1, <1>4, QuantumRaceHears
  <2> HIDE DEF p, q
  <2>3. CASE wire = <<p, q>> /\ wire' = <<q>> /\ dec'.half = p /\ Holds(dec', dec)
    BY <1>2, <1>4, <2>3 DEF Holds, Paired, QuantumReady, SameShown
  <2>4. CASE /\ wire = <<q>> /\ dec.half = p /\ wire' = <<>>
             /\ QuantumRead(dec, p, q) \in Decs /\ Became(dec', dec, QuantumRead(dec, p, q))
    BY <1>2, <1>3, <1>4, <2>1, <2>4, QuantumStartRead
  <2> QED BY <1>3, <2>1, <2>2, <2>3, <2>4, QuantumPaired
<1>5. CASE /\ pool.phase = "over" /\ Paired(wire, dec, First(pool, "1", " ", 0), q)
           /\ \A l \in Lanes : QuantumLane(pool, dec, l)
  <2> DEFINE p == First(pool, "1", " ", 0)
  <2>1. /\ p \in Firsts /\ p # NoHalf /\ p.a = "1" /\ p.used = Swim(pool)
    BY <1>1, HeatsSwum DEF First, Firsts, Swim, NoHalf
  <2>2. Paired(wire, dec, p, q)
    BY <1>5
  <2> SUFFICES
        /\ dec'.heat = pool.heat /\ ~dec'.reset /\ \A l \in Lanes : QuantumLane(pool, dec', l)
        /\ Paired(wire', dec', p, q) \/ wire' = <<>>
    BY <1>1, <1>5, QuantumRaceHears
  <2> HIDE DEF p, q
  <2>3. CASE wire = <<p, q>> /\ wire' = <<q>> /\ dec'.half = p /\ Holds(dec', dec)
    BY <1>2, <1>5, <2>3, QuantumLaneKept DEF Holds, Paired
  <2>4. CASE /\ wire = <<q>> /\ dec.half = p /\ wire' = <<>>
             /\ QuantumRead(dec, p, q) \in Decs /\ Became(dec', dec, QuantumRead(dec, p, q))
    BY <1>2, <1>3, <1>5, <2>1, <2>4, QuantumEndRead
  <2> QED BY <1>3, <2>1, <2>2, <2>3, <2>4, QuantumPaired
<1>6. CASE \E l \in Swim(pool) : QuantumTouchHeard(pool, wire, dec, l)
  <2>1. PICK l \in Swim(pool) : QuantumTouchHeard(pool, wire, dec, l)
    BY <1>6
  <2> DEFINE p == QuantumPairOf(pool, l)
             s == QuantumTimeOf(pool, l)
  <2>2. l \in Lanes /\ (l \in pool.out => pool.mark[l] = 0)
    BY InHeatIs, <1>1, HeatsSwum DEF PoolInv, Swim
  <2>3. /\ p \in Firsts /\ p # NoHalf /\ p.heat = pool.heat /\ p.used # {}
        /\ p.a = "2" /\ p.b \in {"A", "I"} /\ (l \in pool.out => p.b = "A")
        /\ l \notin pool.out =>
             /\ p.b = (IF pool.legs[l] = Legs THEN "A" ELSE "I")
             /\ p.rank = RankIn(pool, l) /\ s.lap = pool.legs[l]
        /\ s \in Seconds /\ s.lane = l /\ s.time = pool.mark[l]
    BY <1>1, <2>2, QuantumPairType
  <2>4. /\ dec.active /\ \A k \in Lanes \ {l} : QuantumLane(pool, dec, k)
        /\ dec.running[l]
        /\ \/ l \notin pool.out /\ pool.legs[l] > 0 /\ dec.splits[l] = pool.legs[l] - 1
           \/ l \in pool.out /\ dec.time[l] = 0
        /\ Paired(wire, dec, p, s)
    BY <2>1 DEF QuantumTouchHeard
  <2> SUFFICES
        /\ dec'.heat = pool.heat /\ ~dec'.reset
        /\ \/ QuantumTouchHeard(pool, wire', dec', l)
           \/ wire' = <<>> /\ dec'.active /\ \A k \in Lanes : QuantumLane(pool, dec', k)
    BY <1>1, <2>1, QuantumRaceHears
  <2>5. CASE wire = <<p, s>> /\ wire' = <<s>> /\ dec'.half = p /\ Holds(dec', dec)
    <3>1. Paired(wire', dec', p, s)
      BY <2>5 DEF Paired
    <3> HIDE DEF p, s
    <3>2. \A k \in Lanes \ {l} : QuantumLane(pool, dec', k)
      BY <2>4, <2>5, QuantumLaneKept DEF Holds
    <3>3. dec'.heat = pool.heat /\ ~dec'.reset /\ dec'.active /\ dec'.running[l]
          /\ dec'.splits[l] = dec.splits[l] /\ dec'.time[l] = dec.time[l]
      BY <1>2, <2>4, <2>5 DEF Holds, SameShown
    <3> QED BY <2>1, <2>4, <3>1, <3>2, <3>3 DEF QuantumTouchHeard, p, s
  <2>6. CASE /\ wire = <<s>> /\ dec.half = p /\ wire' = <<>>
             /\ QuantumRead(dec, p, s) \in Decs /\ Became(dec', dec, QuantumRead(dec, p, s))
    <3> HIDE DEF p, s
    <3> QED BY <1>2, <2>1, <2>3, <2>4, <2>6, QuantumTouchRead
  <2>7. Paired(wire, dec, p, s) /\ p \in Firsts /\ p # NoHalf /\ s \in Seconds
    BY <2>3, <2>4
  <2> HIDE DEF p, s
  <2> QED BY <2>5, <2>6, <2>7, QuantumPaired
<1> QED BY <1>1, <1>4, <1>5, <1>6, QuantumRaceHears

\* A message of a Quantum, delivered.
LEMMA QuantumDeliver ==
    ASSUME PoolInv, DecInv, WireInv, kind = "quantum", pool.heat # 0,
           QuantumHears(pool, wire, dec), Deliver
    PROVE  QuantumHears(pool, wire', dec')
  BY QuantumReadyDelivers, QuantumRaceDelivers

\* The decoder of a Quantum alone, with nothing on the wire.
LEMMA QuantumIdle ==
    ASSUME PoolInv, DecInv, WireInv, kind = "quantum", pool.heat # 0,
           QuantumHears(pool, wire, dec), Tick \/ BoardIsReset
    PROVE  QuantumHears(pool, wire', dec')
<1>1. BoardIsReset
  BY DEF Tick, RTD, Swiss
<1>2. wire = <<>> /\ wire' = <<>> /\ UNCHANGED <<kind, known, pool>> /\ dec.reset
  BY <1>1 DEF BoardIsReset, Quiet, consoleVars
<1>3. pool.phase = "ready"
  BY <1>2, QuantumRaceHears
<1>4. QuantumReady(pool, dec) /\ dec \in Decs
  BY <1>2, <1>3 DEF QuantumHears, Paired, DecInv
<1> DEFINE d == IF Finished(dec) \/ dec.running # Still THEN dec ELSE ResetLanes(dec)
<1>5. d \in Decs /\ QuantumReady(pool, d)
  <2>1. CASE d = dec
    BY <1>4, <2>1
  <2>2. CASE d = ResetLanes(dec)
    <3>1. d \in Decs /\ ResetLeaves(d, dec) /\ d.heat = dec.heat
      BY <1>4, <2>2, ResetFields DEF AllKinds
    <3> QED BY <1>4, <3>1, DarkCounted DEF QuantumReady, ResetLeaves, CTS
  <2> QED BY <2>1, <2>2
<1>6. dec' = [d EXCEPT !.reset = FALSE]
  BY <1>1 DEF BoardIsReset
<1> HIDE DEF d
<1>7. dec'.heat = d.heat /\ dec'.active = d.active /\ dec'.time = d.time /\ dec'.splits = d.splits
  BY <1>5, <1>6 DEF Decs
<1>8. QuantumReady(pool, dec')
  BY <1>5, <1>7 DEF QuantumReady
<1> QED BY <1>2, <1>3, <1>8 DEF QuantumHears

\* A wire of two messages.
LEMMA PairSaid ==
    ASSUME NEW a, NEW b, NEW p, SayableBy(p, a), SayableBy(p, b), NEW w, w = <<a, b>>
    PROVE  w \in Seq(Msgs(w)) /\ \A m \in Msgs(w) : SayableBy(p, m)
<1>1. Msgs(w) = {a, b} /\ w \in Seq({a, b})
  BY MsgsShort
<1> QED BY <1>1

\* A pair sent with the pool p is one a console may send.
LEMMA QuantumSent ==
    ASSUME WireInv, kind = "quantum", UNCHANGED <<kind, full, known>>,
           lost' = lost \/ lost' = [lost EXCEPT !.since = 0], pool'.heat > 0,
           NEW p \in Firsts, p.heat = pool'.heat, p.used = Swim(pool'),
           p.a = "2" => p.b # " ", NEW q \in Seconds, wire' = <<p, q>>
    PROVE  WireInv'
<1>1. SayableBy(pool', p) /\ SayableBy(pool', q)
  BY QuantumSays
<1>2. wire' \in Seq(Msgs(wire')) /\ \A m \in Msgs(wire') : SayableBy(pool', m)
  BY <1>1, PairSaid
<1> QED BY <1>2, WireSent

\* The lane of a Quantum in a pool whose touches differ in another lane only.
LEMMA QuantumLaneMoved ==
    ASSUME kind = "quantum", NEW p, NEW q, NEW d, NEW l, QuantumLane(p, d, l),
           q.heat = p.heat, q.legs[l] = p.legs[l], q.mark[l] = p.mark[l], q.wall[l] = p.wall[l],
           l \in q.out <=> l \in p.out,
           p.legs[l] = Legs => RankIn(q, l) = RankIn(p, l)
    PROVE  QuantumLane(q, d, l)
  BY DEF QuantumLane, Swims, Swim, IsRank

\* A step of a Quantum.
LEMMA QuantumConsole ==
    ASSUME PoolInv, PoolInv', DecInv, WireInv, ~GivesUpLate, ~PostsByPlace, kind = "quantum",
           Console, pool.heat # 0 /\ lost.since = 0 => QuantumHears(pool, wire, dec)
    PROVE  /\ WireInv'
           /\ lost'.since = 0 => QuantumHears(pool', wire', dec')
<1>1. /\ wire = <<>> /\ UNCHANGED <<kind, full, known, dec>> /\ ConsoleStep /\ Settled
  BY DEF Console, ConsoleStep, NextHeat, Reswim, Start, End, PostByPlace, Touch, GoesOn,
         Flicker, GivesUp, Deletes, Quiet, Send
<1> DEFINE q == Second(0, 0, 0)
<1>2. q \in Seconds
  BY QuantumSecond
<1>3. CASE NextHeat \/ Reswim
  <2> DEFINE p == First(pool', "0", " ", 0)
  <2>1. pool'.phase = "ready" /\ pool'.heat \in Heats /\ pool'.heat > 0
    <3>1. pool'.phase = "ready" /\ pool'.heat \in Heats
      BY <1>3, NextHeatPool, ReswimPool DEF Made
    <3> QED BY <3>1, HeatsNat
  <2>2. wire' = <<p, q>>
    BY <1>3 DEF NextHeat, Reswim, Send, Announces, Pair, First, Second, Swim,
           RTD, Swiss, CTS
  <2>3. lost' = lost \/ lost' = [lost EXCEPT !.since = 0]
    BY <1>3 DEF NextHeat, Reswim
  <2>4. /\ p \in Firsts /\ p.heat = pool'.heat /\ p.used = Swim(pool') /\ p.a = "0"
    BY <2>1, HeatsSwum DEF First, Firsts, Swim
  <2> HIDE DEF p, q
  <2>5. WireInv'
    BY <1>1, <1>2, <2>1, <2>2, <2>3, <2>4, QuantumSent
  <2>6. Paired(wire', dec', p, q)
    BY <2>2 DEF Paired
  <2>7. QuantumHears(pool', wire', dec')
    BY <2>1, <2>6 DEF QuantumHears, p, q
  <2> QED BY <2>5, <2>7
<1>4. CASE Start
  <2> DEFINE p == First(pool', "2", "S", 0)
  <2>1. /\ SameSwum(pool, pool') /\ pool'.phase = "racing" /\ pool.phase = "ready"
        /\ pool.heat # 0 /\ pool'.heat > 0 /\ lost' = lost /\ pool'.heat \in Heats
    BY <1>4, StartPool, HeatsNat DEF PoolInv, Pools, SameSwum, Start
  <2>2. wire' = <<p, q>>
    BY <1>4 DEF Start, Send, Starts, Pair, First, Second, Swim, RTD, Swiss
  <2>3. /\ p \in Firsts /\ p.heat = pool'.heat /\ p.used = Swim(pool') /\ p.b = "S"
    BY <2>1, HeatsSwum DEF First, Firsts, Swim
  <2> HIDE DEF p, q
  <2>4. WireInv'
    BY <1>1, <1>2, <2>1, <2>2, <2>3, QuantumSent
  <2>5. Paired(wire', dec', p, q)
    BY <2>2 DEF Paired
  <2>6. ASSUME lost'.since = 0 PROVE QuantumHears(pool', wire', dec')
    <3>1. QuantumReady(pool, dec)
      BY <1>1, <2>1, <2>6 DEF QuantumHears, Paired
    <3>2. ~dec.reset
      BY <1>1, <2>1 DEF Settled
    <3>3. QuantumReady(pool', dec') /\ dec'.heat = pool'.heat /\ ~dec'.reset
      BY <1>1, <2>1, <3>1, <3>2 DEF QuantumReady, SameSwum
    <3>4. pool'.out = {} /\ \A l \in Lanes : pool'.legs[l] = 0
      BY <2>1 DEF SameSwum, PoolInv
    <3> QED BY <2>1, <2>5, <3>3, <3>4, QuantumRaceHears DEF p, q
  <2> QED BY <2>4, <2>6
<1>5. CASE End
  <2> DEFINE p == First(pool', "1", " ", 0)
  <2>1. /\ SameSwum(pool, pool') /\ pool'.phase = "over" /\ pool.phase = "racing"
        /\ pool.heat # 0 /\ pool'.heat > 0 /\ lost' = lost /\ pool'.heat \in Heats
    BY <1>5, EndPool, HeatsNat DEF PoolInv, Pools, SameSwum, End
  <2>2. wire' = <<p, q>>
    BY <1>5 DEF End, Send, Ends, Pair, First, Second, Swim
  <2>3. /\ p \in Firsts /\ p.heat = pool'.heat /\ p.used = Swim(pool') /\ p.a = "1"
    BY <2>1, HeatsSwum DEF First, Firsts, Swim
  <2> HIDE DEF p, q
  <2>4. WireInv'
    BY <1>1, <1>2, <2>1, <2>2, <2>3, QuantumSent
  <2>5. Paired(wire', dec', p, q)
    BY <2>2 DEF Paired
  <2>6. ASSUME lost'.since = 0 PROVE QuantumHears(pool', wire', dec')
    <3>1. /\ dec.heat = pool.heat /\ ~dec.reset /\ dec.active
          /\ \A l \in Lanes : QuantumLane(pool, dec, l)
      <4>1. QuantumHears(pool, wire, dec) /\ pool.phase # "ready"
        BY <2>1, <2>6
      <4>2. wire = <<>> => ~(\E l \in Swim(pool) : QuantumTouchHeard(pool, wire, dec, l))
        BY DEF QuantumTouchHeard, Paired
      <4> QED BY <1>1, <2>1, <4>1, <4>2, QuantumRaceHears DEF Paired
    <3>2. \A l \in Lanes : QuantumLane(pool', dec', l)
      BY <1>1, <2>1, <3>1, SameSwumRank, QuantumLaneMoved DEF SameSwum
    <3> QED BY <1>1, <2>1, <2>5, <3>1, <3>2, QuantumRaceHears DEF p, q, SameSwum
  <2> QED BY <2>4, <2>6
<1>6. ASSUME NEW l \in Lanes, Touch(l) \/ GivesUp(l)
      PROVE  /\ WireInv'
             /\ lost'.since = 0 => QuantumHears(pool', wire', dec')
  <2> DEFINE p == QuantumPairOf(pool', l)
             s == QuantumTimeOf(pool', l)
  <2>1. /\ Touched(pool, pool', l) \/ GaveUp(pool, pool', l)
        /\ pool.phase = "racing" /\ pool.heat # 0 /\ Swims(pool, l)
        /\ Touch(l) => Touched(pool, pool', l)
        /\ GivesUp(l) => GaveUp(pool, pool', l) /\ pool.out = {} /\ pool.legs[l] = 0
    BY <1>6, TouchMoves, GivesUpPool
  <2>2. /\ pool'.phase = "racing" /\ pool'.heat = pool.heat /\ pool'.heat > 0
        /\ pool' \in Pools /\ pool'.heat \in Heats /\ lost' = lost
        /\ (l \in pool'.out => pool'.mark[l] = 0)
    BY <1>6, <2>1, HeatsNat DEF PoolInv, Pools, Touched, GaveUp, Touch, GivesUp
  <2>3. wire' = <<p, s>>
    <3>1. CASE Touch(l)
      <4>1. l \notin pool'.out
        BY <2>1, <3>1 DEF Touched, Swims
      <4>2. p = First(pool', "2", IF pool'.legs[l] = Legs THEN "A" ELSE "I", RankIn(pool', l))
            /\ s = Second(l, pool'.mark[l], pool'.legs[l])
        BY <4>1 DEF QuantumPairOf, QuantumTimeOf
      <4> QED BY <3>1, <4>2 DEF Touch, Send, Touches, Pair, First, Second, Swim,
                            RTD, Swiss
    <3>2. CASE GivesUp(l)
      <4>1. l \in pool'.out
        BY <2>1, <3>2 DEF GaveUp
      <4>2. p = First(pool', "2", "A", 0) /\ s = Second(l, 0, 0)
        BY <4>1 DEF QuantumPairOf, QuantumTimeOf
      <4> QED BY <3>2, <4>2 DEF GivesUp, Send, Pair, First, Second, Swim
    <3> QED BY <1>6, <3>1, <3>2
  <2>4. /\ p \in Firsts /\ p.heat = pool'.heat /\ p.used = Swim(pool')
        /\ p.b \in {"A", "I"} /\ s \in Seconds
    BY <2>2, QuantumPairType
  <2>5. Paired(wire', dec', p, s)
    BY <2>3 DEF Paired
  <2>6. WireInv'
    <3> HIDE DEF p, s
    <3>1. p.b # " "
      BY <2>4
    <3> QED BY <1>1, <2>2, <2>3, <2>4, <3>1, QuantumSent
  <2>7. ASSUME lost'.since = 0 PROVE QuantumHears(pool', wire', dec')
    <3> HIDE DEF p, s
    <3>1. /\ dec.heat = pool.heat /\ ~dec.reset /\ dec.active
          /\ \A k \in Lanes : QuantumLane(pool, dec, k)
      <4>1. QuantumHears(pool, wire, dec) /\ pool.phase # "ready"
        BY <2>1, <2>2, <2>7
      <4>2. wire = <<>> => ~(\E k \in Swim(pool) : QuantumTouchHeard(pool, wire, dec, k))
        BY DEF QuantumTouchHeard, Paired
      <4> QED BY <1>1, <2>1, <4>1, <4>2, QuantumRaceHears DEF Paired
    <3>2. /\ l \in Swim(pool) /\ l \notin pool.out /\ pool.legs[l] < Legs
          /\ pool.legs[l] \in Nat /\ Swim(pool') = Swim(pool)
      <4>1. l \in Swim(pool) /\ l \notin pool.out /\ pool.legs[l] < Legs
        BY <2>1 DEF Swims
      <4>2. pool.legs[l] \in 0..Legs /\ Legs \in Nat
        BY ConsoleAssumption DEF PoolInv, Pools
      <4> QED BY <2>2, <4>1, <4>2 DEF Swim
    <3>3. dec'.running[l] /\ dec'.splits[l] = pool.legs[l] /\ dec'.time[l] = pool.mark[l]
      <4>1. QuantumLane(pool, dec, l) /\ dec' = dec
        BY <1>1, <3>1
      <4>2. pool.legs[l] # Legs
        BY <3>2, ConsoleAssumption
      <4> QED BY <2>1, <3>2, <4>1, <4>2 DEF QuantumLane
    <3>4. \/ l \notin pool'.out /\ pool'.legs[l] > 0 /\ dec'.splits[l] = pool'.legs[l] - 1
          \/ l \in pool'.out /\ dec'.time[l] = 0
      <4>1. CASE Touch(l)
        BY <2>1, <3>2, <3>3, <4>1 DEF Touched
      <4>2. CASE GivesUp(l)
        BY <2>1, <3>2, <3>3, <4>2 DEF GaveUp, PoolInv
      <4> QED BY <1>6, <4>1, <4>2
    <3>5. \A k \in Lanes \ {l} : QuantumLane(pool', dec', k)
      <4> SUFFICES ASSUME NEW k \in Lanes, k # l PROVE QuantumLane(pool', dec', k)
        OBVIOUS
      <4>1. QuantumLane(pool, dec', k)
        BY <1>1, <3>1
      <4>2. CASE Touch(l)
        <5>1. pool.legs[k] = Legs => RankIn(pool', k) = RankIn(pool, k)
          BY <2>1, <2>2, <3>2, <4>2, TouchRank
        <5> QED BY <2>1, <4>1, <4>2, <5>1, QuantumLaneMoved DEF Touched
      <4>3. CASE GivesUp(l)
        <5>1. pool.legs[k] = Legs => RankIn(pool', k) = RankIn(pool, k)
          BY <2>1, <4>3, GaveUpRank
        <5> QED BY <2>1, <4>1, <4>3, <5>1, QuantumLaneMoved DEF GaveUp
      <4> QED BY <1>6, <4>2, <4>3
    <3>6. QuantumTouchHeard(pool', wire', dec', l)
      BY <1>1, <2>5, <3>1, <3>2, <3>3, <3>4, <3>5 DEF QuantumTouchHeard, p, s
    <3> QED BY <1>1, <2>2, <3>1, <3>2, <3>6, QuantumRaceHears
  <2> QED BY <2>6, <2>7
<1> QED BY <1>1, <1>3, <1>4, <1>5, <1>6, GoesOnPool
        DEF ConsoleStep, PostByPlace, Flicker, Deletes, CTS, Swiss

-----------------------------------------------------------------------------
(* Daktronics RTD and ARES.                                                 *)

Lines == [t : {"line"}, line : Lanes, place : Nat, time : Nat, lengths : Nat]

\* What an RTD may send.
LEMMA RtdSays ==
    ASSUME kind \in RTD, NEW p, NEW m
    PROVE  SayableBy(p, m) <=>
               \/ m = Named(p) \/ m = At(p, TRUE) \/ m = At(p, FALSE)
               \/ m \in [t : {"lengths"}, n : Nat] \/ m \in Lines
  BY DEF SayableBy, RTD, Swiss, Lines

\* What a result line changes.
LineRead(e, d, l, x, r, n, ends) ==
    /\ e.time[l] = x /\ e.place[l] = r
    /\ e.splits[l] = (IF n # 0 THEN n ELSE d.splits[l])
    /\ e.running[l] = (d.running[l] /\ ~ends)
    /\ Others(e.time, d.time, l) /\ Others(e.place, d.place, l)
    /\ Others(e.splits, d.splits, l) /\ Others(e.running, d.running, l)

\* What the step changes, and what it leaves.
LEMMA LineReadFields ==
    ASSUME NEW d \in Decs, NEW m \in Lines, m.place # 0, NEW e, e = ReadLine(d, m)
    PROVE  /\ e \in Decs /\ SameHeat(e, d) /\ SameAside(e, d) /\ SameRest(e, d)
           /\ LineRead(e, d, m.line, m.time, m.place, m.lengths,
                       d.lengths = 0 \/ m.lengths = 0 \/ m.lengths >= d.lengths)
<1> DEFINE l == m.line
           x == m.time
           r == m.place
           n == m.lengths
           ends == d.lengths = 0 \/ n = 0 \/ n >= d.lengths
           t == [d.time EXCEPT ![l] = x]
           p == [d.place EXCEPT ![l] = r]
           s == [d.splits EXCEPT ![l] = IF n # 0 THEN n ELSE @]
           u == [d.running EXCEPT ![l] = @ /\ ~ends]
<1>1. l \in Lanes /\ x \in Nat /\ r \in Nat /\ n \in Nat
  BY DEF Lines
<1>2. e = Shown(d, t, p, s, u)
  BY DEF ReadLine, Shown
<1> SUFFICES /\ e \in Decs /\ SameHeat(e, d) /\ SameAside(e, d) /\ SameRest(e, d)
             /\ LineRead(e, d, l, x, r, n, ends)
  OBVIOUS
<1> HIDE DEF l, x, r, n, ends
<1>3. /\ t \in [Lanes -> Nat] /\ p \in [Lanes -> Nat] /\ s \in [Lanes -> Nat]
      /\ u \in [Lanes -> BOOLEAN]
  BY <1>1 DEF Decs
<1>4. /\ t[l] = x /\ p[l] = r /\ s[l] = (IF n # 0 THEN n ELSE d.splits[l])
      /\ Others(t, d.time, l) /\ Others(p, d.place, l) /\ Others(s, d.splits, l)
  BY <1>1 DEF Decs, Others
<1>5. u[l] = (d.running[l] /\ ~ends) /\ Others(u, d.running, l)
  BY <1>1 DEF Decs, Others
<1> HIDE DEF t, p, s, u
<1>6. /\ e \in Decs /\ SameHeat(e, d) /\ SameAside(e, d) /\ SameRest(e, d)
      /\ e.time = t /\ e.place = p /\ e.splits = s /\ e.running = u
  BY <1>2, <1>3, ShownFields
<1> QED BY <1>4, <1>5, <1>6 DEF LineRead

\* What a line of the clock changes, and what it leaves.
LEMMA RtdClockFields ==
    ASSUME NEW d \in Decs, NEW m, m.zero \in BOOLEAN, NEW e, e = RtdClock(d, m)
    PROVE  /\ e \in Decs /\ SameHeat(e, d) /\ SameAside(e, d)
           /\ e.time = d.time /\ e.place = d.place /\ e.splits = d.splits
           /\ e.lengths = d.lengths
           /\ m.zero => ~e.active /\ e.running = d.running
           /\ ~m.zero => e.active
           /\ ~m.zero /\ d.active => e.running = d.running
           /\ ~m.zero /\ ~d.active => \A l \in Lanes :
                 e.running[l] = (d.running[l]
                                 \/ l \in LanesToStart(d) \ {k \in Lanes : d.place[k] # 0})
<1>1. CASE m.zero
  <2>1. e = [d EXCEPT !.active = FALSE]
    BY <1>1 DEF RtdClock
  <2> QED BY <1>1, <2>1 DEF Decs, SameHeat, SameAside
<1>2. CASE ~m.zero
  <2> DEFINE dry == {k \in Lanes : d.place[k] # 0}
  <2>1. e = Started(d, dry)
    BY <1>2 DEF RtdClock
  <2> HIDE DEF dry
  <2>2. /\ e \in Decs /\ SameHeat(e, d) /\ SameAside(e, d) /\ e.active
        /\ e.time = d.time /\ e.place = d.place /\ e.splits = d.splits
        /\ e.lengths = d.lengths
        /\ d.active => e.running = d.running
        /\ ~d.active => \A l \in Lanes :
             e.running[l] = (d.running[l] \/ l \in LanesToStart(d) \ dry)
    BY <2>1, StartedFields
  <2> QED BY <1>2, <2>2 DEF dry
<1> QED BY <1>1, <1>2

\* What the clock at zero changes, and what it leaves.
LEMMA RtdZeroFields ==
    ASSUME NEW d \in Decs, NEW m, m.zero, NEW e, e = RtdClock(d, m)
    PROVE  /\ SameHeat(e, d) /\ ~e.active /\ e.running = d.running
           /\ e.time = d.time /\ e.place = d.place /\ e.splits = d.splits
           /\ e.lengths = d.lengths
<1>1. e = [d EXCEPT !.active = FALSE]
  BY DEF RtdClock
<1> QED BY <1>1 DEF Decs, SameHeat

\* A line without a result leaves none in the lane.
LEMMA RtdCleanFields ==
    ASSUME NEW d \in Decs, NEW m \in Lines, m.place = 0, NEW e, e = ReadLine(d, m)
    PROVE  /\ e \in Decs /\ SameHeat(e, d) /\ SameAside(e, d) /\ SameRest(e, d)
           /\ e.running = d.running /\ e.splits = d.splits
           /\ Others(e.time, d.time, m.line) /\ Others(e.place, d.place, m.line)
           /\ m.time = 0 => /\ e.time[m.line] = 0
                            /\ d.time[m.line] = 0 => e.place[m.line] = d.place[m.line]
                            /\ d.time[m.line] # 0 => e.place[m.line] = 0
<1> DEFINE l == m.line
<1>1. l \in Lanes
  BY DEF Lines
<1>2. CASE m.time = 0 /\ d.time[l] # 0
  <2>1. e = Cleared(d, l)
    BY <1>2 DEF ReadLine
  <2> HIDE DEF l
  <2>2. /\ e \in Decs /\ SameHeat(e, d) /\ SameAside(e, d) /\ SameRest(e, d)
        /\ e.running = d.running /\ e.splits = d.splits
        /\ e.time[l] = 0 /\ e.place[l] = 0
        /\ \A k \in Lanes \ {l} : e.time[k] = d.time[k] /\ e.place[k] = d.place[k]
    BY <1>1, <2>1, ClearedFields
  <2> QED BY <1>2, <2>2 DEF l, Others
<1>3. CASE ~(m.time = 0 /\ d.time[l] # 0)
  <2>1. e = d
    BY <1>3 DEF ReadLine
  <2> QED BY <1>3, <2>1 DEF SameHeat, SameAside, SameRest, Others
<1> QED BY <1>2, <1>3

\* What the step changes, and what it leaves.
LEMMA RtdToldFields ==
    ASSUME NEW d \in Decs, NEW n \in Nat, NEW e, e = [d EXCEPT !.lengths = n]
    PROVE  /\ e \in Decs /\ SameHeat(e, d) /\ SameAside(e, d) /\ SameShown(e, d)
           /\ e.lengths = n /\ e.active = d.active
  BY DEF Decs, SameHeat, SameAside, SameShown

\* What an RTD may send fits.
LEMMA RtdFed ==
    ASSUME PoolInv, DecInv, pool.heat # 0, kind \in RTD, NEW m, SayableBy(pool, m)
    PROVE  Fit(Fed(dec, m))
<1> DEFINE f == Fed(dec, m)
<1>1. dec \in Decs /\ f = FeedRtd(dec, m) /\ kind \notin {"quantum", "dolphin"} /\ kind \in AllKinds
  BY FedIs DEF DecInv, RTD, AllKinds
<1>2. pool.heat \in Heats
  BY HeatsNat DEF PoolInv, Pools
<1>3. CASE m = Named(pool)
  <2>1. m.t = "heat" /\ m.heat = pool.heat
    BY <1>3 DEF Named
  <2>2. f = NewHeat(dec, pool.heat)
    BY <1>1, <2>1 DEF FeedRtd
  <2> HIDE DEF f
  <2>3. /\ f \in Decs /\ f.heat = pool.heat
        /\ f = dec \/ ResetLeaves(f, dec)
    BY <1>1, <1>2, <2>2, NewHeatFields
  <2> QED BY <1>1, <2>3, PlainFit DEF ResetLeaves, f
<1>4. CASE m = At(pool, TRUE) \/ m = At(pool, FALSE)
  <2>1. m.t = "clock" /\ m.zero \in BOOLEAN
    BY <1>4, ClockLine
  <2>2. f = RtdClock(dec, m)
    BY <1>1, <2>1 DEF FeedRtd
  <2> HIDE DEF f
  <2>3. f \in Decs /\ SameHeat(f, dec) /\ SameAside(f, dec)
    BY <1>1, <2>1, <2>2, RtdClockFields
  <2> QED BY <1>1, <2>3, PlainFit DEF SameHeat, SameAside, f
<1>5. CASE m \in [t : {"lengths"}, n : Nat]
  <2>1. f = [dec EXCEPT !.lengths = m.n] /\ m.n \in Nat
    BY <1>1, <1>5 DEF FeedRtd
  <2> HIDE DEF f
  <2>2. f \in Decs /\ SameHeat(f, dec) /\ SameAside(f, dec)
    BY <1>1, <2>1, RtdToldFields
  <2> QED BY <1>1, <2>2, PlainFit DEF SameHeat, SameAside, f
<1>6. CASE m \in Lines
  <2>1. f = ReadLine(dec, m)
    BY <1>1, <1>6 DEF FeedRtd, Lines
  <2> HIDE DEF f
  <2>2. f \in Decs /\ SameHeat(f, dec) /\ SameAside(f, dec)
    BY <1>1, <1>6, <2>1, RtdCleanFields, LineReadFields
  <2> QED BY <1>1, <2>2, PlainFit DEF SameHeat, SameAside, f
<1> QED BY <1>3, <1>4, <1>5, <1>6, RtdSays

\* A lane's line of a heat that nobody has swum, or with its last touch.
RtdTouch(p, l) == RtdLine(l, RankIn(p, l), p.mark[l], p.legs[l])

\* The line of a lane.
LEMMA RtdLineIs ==
    ASSUME NEW l \in Lanes, NEW r \in Nat, NEW x \in Nat, NEW n \in Nat
    PROVE  /\ RtdLine(l, r, x, n) \in Lines /\ RtdLine(l, r, x, n).t = "line"
           /\ RtdLine(l, r, x, n).line = l /\ RtdLine(l, r, x, n).place = r
           /\ RtdLine(l, r, x, n).time = x
           /\ RtdLine(l, r, x, n).lengths = IF kind = "rtd" THEN n ELSE 0
<1> DEFINE y == IF kind = "rtd" THEN n ELSE 0
           z == RtdLine(l, r, x, n)
<1>1. y \in Nat /\ z = [t |-> "line", line |-> l, place |-> r, time |-> x, lengths |-> y]
  BY DEF RtdLine
<1> SUFFICES /\ z \in Lines /\ z.t = "line" /\ z.line = l /\ z.place = r /\ z.time = x
             /\ z.lengths = y
  OBVIOUS
<1> HIDE DEF y, z
<1> QED BY <1>1 DEF Lines

\* The line that cleans a lane.
LEMMA RtdCleansIs ==
    ASSUME NEW l \in Lanes
    PROVE  /\ Cleans(l) \in Lines /\ Cleans(l).t = "line" /\ Cleans(l).line = l
           /\ Cleans(l).place = 0 /\ Cleans(l).time = 0
<1> DEFINE n == 0
<1>1. n \in Nat /\ Cleans(l) = RtdLine(l, n, n, n) /\ n = 0
  BY DEF Cleans
<1> HIDE DEF n
<1> QED BY <1>1, RtdLineIs

\* The messages that announce a heat.
LEMMA RtdSorts ==
    ASSUME NEW p
    PROVE  /\ Named(p).t = "heat" /\ Named(p).heat = p.heat
           /\ Told(LengthsOf).t = "lengths" /\ Told(LengthsOf).n = LengthsOf
           /\ LengthsOf \in Nat /\ Told(LengthsOf) \in [t : {"lengths"}, n : Nat]
           /\ LengthsOf = IF kind = "rtd" THEN Legs ELSE 0
           /\ Legs \in Nat /\ Legs > 0
<1>1. Legs \in Nat /\ Legs > 0 /\ LengthsOf \in Nat
  BY ConsoleAssumption DEF LengthsOf
<1> DEFINE n == LengthsOf
<1>2. n \in Nat
  BY <1>1
<1> HIDE DEF n
<1>3. Told(n).t = "lengths" /\ Told(n).n = n /\ Told(n) \in [t : {"lengths"}, n : Nat]
  BY <1>2 DEF Told
<1> QED BY <1>1, <1>3 DEF Named, LengthsOf, n

\* What is left to say of a heat made ready.
RtdRest(p, w, d) ==
    /\ \/ Named(p) \in w /\ d.heat # p.heat
       \/ RtdReady(p, d)
    /\ Told(LengthsOf) \in w \/ d.lengths = LengthsOf
    /\ At(p, TRUE) \in w \/ ~d.active
    /\ \A l \in Lanes : Cleans(l) \in w \/ d.time[l] = 0

RtdMsgs(p) == {Named(p), Told(LengthsOf), At(p, TRUE)} \cup {Cleans(l) : l \in Lanes}

\* One of the messages before the start, read: the others still to come.
LEMMA RtdRestRead ==
    ASSUME PoolInv, DecInv, kind \in RTD, pool.heat # 0, NEW w, RtdRest(pool, w, dec),
           NEW v, NEW m \in RtdMsgs(pool), w \subseteq {m} \cup v,
           NEW f, f = FeedRtd(dec, m)
    PROVE  RtdRest(pool, v, f)
<1>1. dec \in Decs /\ kind \in AllKinds /\ pool.heat \in Heats
      /\ kind \notin {"dolphin"} \cup CTS
  BY HeatsNat DEF DecInv, AllKinds, PoolInv, Pools, RTD, CTS
<1>2. CASE m = Named(pool)
  <2>1. m.t = "heat" /\ m.heat = pool.heat
    BY <1>2, RtdSorts
  <2>2. f = NewHeat(dec, pool.heat)
    BY <2>1 DEF FeedRtd
  <2>3. /\ f.heat = pool.heat
        /\ pool.heat = dec.heat => f = dec
        /\ pool.heat # dec.heat => ResetLeaves(f, dec)
    BY <1>1, <2>2, NewHeatFields
  <2>4. Told(LengthsOf) # m /\ At(pool, TRUE) # m /\ \A l \in Lanes : Cleans(l) # m
    BY <2>1, RtdSorts, RtdCleansIs, ClockLine
  <2>5. CASE pool.heat = dec.heat
    BY <2>3, <2>4, <2>5 DEF RtdRest
  <2>6. CASE pool.heat # dec.heat
    <3>1. /\ f.lengths = dec.lengths /\ ~f.active
          /\ \A l \in Lanes : f.time[l] = 0 /\ f.place[l] = 0 /\ f.splits[l] = 0 /\ ~f.running[l]
      BY <1>1, <2>3, <2>6, DarkCounted DEF ResetLeaves
    <3> QED BY <2>3, <2>4, <3>1 DEF RtdRest, RtdReady
  <2> QED BY <2>5, <2>6
<1>3. CASE m = Told(LengthsOf)
  <2>1. m.t = "lengths" /\ m.n = LengthsOf /\ LengthsOf \in Nat
    BY <1>3, RtdSorts
  <2>2. f = [dec EXCEPT !.lengths = LengthsOf]
    BY <2>1 DEF FeedRtd
  <2>3. /\ SameHeat(f, dec) /\ SameShown(f, dec) /\ f.lengths = LengthsOf /\ f.active = dec.active
    BY <1>1, <2>1, <2>2, RtdToldFields
  <2>4. Named(pool) # m /\ At(pool, TRUE) # m /\ \A l \in Lanes : Cleans(l) # m
    BY <2>1, RtdSorts, RtdCleansIs, ClockLine
  <2> QED BY <2>3, <2>4 DEF RtdRest, RtdReady, SameHeat, SameShown
<1>4. CASE m = At(pool, TRUE)
  <2>1. m.t = "clock" /\ m.zero /\ m.zero \in BOOLEAN
    BY <1>4, ClockLine
  <2>2. f = RtdClock(dec, m)
    BY <2>1 DEF FeedRtd
  <2>3. /\ SameHeat(f, dec) /\ ~f.active /\ f.running = dec.running
        /\ f.time = dec.time /\ f.place = dec.place /\ f.splits = dec.splits
        /\ f.lengths = dec.lengths
    BY <1>1, <2>1, <2>2, RtdZeroFields
  <2>4. Named(pool) # m /\ Told(LengthsOf) # m /\ \A l \in Lanes : Cleans(l) # m
    BY <2>1, RtdSorts, RtdCleansIs
  <2> QED BY <2>3, <2>4 DEF RtdRest, RtdReady, SameHeat
<1>5. ASSUME NEW l \in Lanes, m = Cleans(l) PROVE RtdRest(pool, v, f)
  <2>1. m \in Lines /\ m.t = "line" /\ m.line = l /\ m.place = 0 /\ m.time = 0
    BY <1>5, RtdCleansIs
  <2>2. f = ReadLine(dec, m)
    BY <2>1 DEF FeedRtd
  <2>3. /\ SameHeat(f, dec) /\ SameRest(f, dec)
        /\ f.running = dec.running /\ f.splits = dec.splits
        /\ Others(f.time, dec.time, l) /\ Others(f.place, dec.place, l)
        /\ f.time[l] = 0
        /\ dec.time[l] = 0 => f.place[l] = dec.place[l]
        /\ dec.time[l] # 0 => f.place[l] = 0
    BY <1>1, <2>1, <2>2, RtdCleanFields
  <2>4. Named(pool) # m /\ Told(LengthsOf) # m /\ At(pool, TRUE) # m
    BY <2>1, RtdSorts, ClockLine
  <2>5. \A k \in Lanes : k # l => Cleans(k) # m
    BY <2>1, RtdCleansIs
  <2>6. \A k \in Lanes : Cleans(k) \in v \/ f.time[k] = 0
    BY <2>3, <2>5 DEF RtdRest, Others
  <2>7. RtdReady(pool, dec) => RtdReady(pool, f)
    BY <2>3 DEF RtdReady, SameHeat, Others
  <2> QED BY <2>3, <2>4, <2>6, <2>7 DEF RtdRest, SameHeat, SameRest
<1> QED BY <1>2, <1>3, <1>4, <1>5 DEF RtdMsgs

\* The start is on the wire; the touch in lane l is.
RtdStartHeard(p, w, d) ==
    /\ w = <<At(p, FALSE)>> /\ ~d.active /\ RtdReady(p, d)
    /\ \A l \in Lanes : d.time[l] = 0 /\ p.legs[l] = 0

RtdTouchHeard(p, w, d, l) ==
    /\ \A k \in Lanes \ {l} : RtdLane(p, d, k)
    /\ kind = "rtd" => d.running[l]
    /\ kind = "ares" => d.splits[l] = 0 /\ (p.legs[l] = 1 => d.running[l])
    /\ p.legs[l] > 0
    /\ w = <<RtdTouch(p, l)>>

\* What an RTD has heard before the start.
LEMMA RtdReadyHears ==
    ASSUME NEW p, NEW w, NEW d, p.phase = "ready"
    PROVE  RtdHears(p, w, d) <=> Msgs(w) \subseteq RtdMsgs(p) /\ RtdRest(p, Msgs(w), d)
  BY DEF RtdHears, RtdMsgs, RtdRest

\* What an RTD has heard once the race is on.
LEMMA RtdRaceHears ==
    ASSUME NEW p, NEW w, NEW d, p.phase # "ready"
    PROVE  RtdHears(p, w, d) <=>
               /\ d.heat = p.heat /\ ~d.reset /\ d.lengths = LengthsOf
               /\ \/ RtdStartHeard(p, w, d)
                  \/ d.active /\ w = <<>> /\ \A l \in Lanes : RtdLane(p, d, l)
                  \/ d.active /\ \E l \in Swim(p) : RtdTouchHeard(p, w, d, l)
  BY DEF RtdHears, RtdTouch, RtdStartHeard, RtdTouchHeard

\* Before the start only the heat, the lanes, the clock and the lengths count.
LEMMA RtdReadyKept ==
    ASSUME NEW p, NEW w, NEW d, NEW e, RtdRest(p, w, d), e.heat = d.heat, SameShown(e, d),
           e.active = d.active, e.lengths = d.lengths
    PROVE  RtdRest(p, w, e)
  BY DEF RtdRest, RtdReady, SameShown

\* The start, heard by a decoder that is ready for it.
LEMMA RtdStartRead ==
    ASSUME PoolInv, DecInv, kind \in RTD, known, pool.heat # 0, dec.heat = pool.heat,
           ~dec.active, RtdReady(pool, dec),
           \A l \in Lanes : dec.time[l] = 0 /\ pool.legs[l] = 0,
           NEW m, m.zero = FALSE, NEW f, f = RtdClock(dec, m)
    PROVE  /\ f.heat = dec.heat /\ f.active /\ f.lengths = dec.lengths /\ f.reset = dec.reset
           /\ \A l \in Lanes : RtdLane(pool, f, l)
<1> DEFINE dry == {k \in Lanes : dec.place[k] # 0}
<1>1. dry = {} /\ \A l \in Lanes : dec.place[l] = 0
  BY DEF RtdReady
<1>2. dec \in Decs /\ m.zero \in BOOLEAN /\ ~m.zero
  BY DEF DecInv
<1>3. /\ f \in Decs /\ SameHeat(f, dec) /\ SameAside(f, dec)
      /\ f.time = dec.time /\ f.place = dec.place /\ f.splits = dec.splits
      /\ f.lengths = dec.lengths /\ f.active
      /\ \A l \in Lanes : f.running[l] = (dec.running[l] \/ l \in LanesToStart(dec) \ dry)
  BY <1>2, RtdClockFields
<1>4. LanesToStart(dec) = Swim(pool)
  BY StartsSwimmers
<1>5. \A l \in Lanes : f.running[l] = (l \in Swim(pool))
  <2>1. \A l \in Lanes : dec.running[l] => l \in Swim(pool)
    BY DEF RtdReady
  <2>2. f.running \in [Lanes -> BOOLEAN]
    BY <1>3 DEF Decs
  <2> HIDE DEF dry
  <2> QED BY <1>1, <1>3, <1>4, <2>1, <2>2
<1>6. pool.out = {}
  BY NobodyAtWall DEF RTD, CTS, Swiss
<1>7. \A l \in Lanes : RtdLane(pool, f, l)
  <2> SUFFICES ASSUME NEW l \in Lanes PROVE RtdLane(pool, f, l)
    OBVIOUS
  <2>1. pool.legs[l] = 0 /\ pool.mark[l] = 0 /\ 0 # Legs /\ Swims(pool, l) = (l \in Swim(pool))
    BY <1>6, NobodyTouched
  <2>2. RtdSwims(pool, l) = (l \in Swim(pool))
    BY <2>1 DEF RtdSwims
  <2>3. /\ f.running[l] = RtdSwims(pool, l) /\ f.time[l] = 0 /\ f.place[l] = 0
    BY <1>1, <1>3, <1>5, <2>2
  <2>4. kind = "ares" => f.splits[l] = 0
    BY <1>3 DEF RtdReady
  <2> QED BY <2>1, <2>3, <2>4 DEF RtdLane, IsRank
<1> QED BY <1>3, <1>7 DEF SameHeat

\* A touch, in lane l.
LEMMA RtdTouchRead ==
    ASSUME PoolInv, DecInv, kind \in RTD, pool.heat # 0, dec.lengths = LengthsOf,
           ~dec.reset, NEW l \in Lanes, l \in Swim(pool),
           \A k \in Lanes \ {l} : RtdLane(pool, dec, k),
           kind = "rtd" => dec.running[l],
           kind = "ares" => dec.splits[l] = 0 /\ (pool.legs[l] = 1 => dec.running[l]),
           pool.legs[l] > 0, NEW f, f = ReadLine(dec, RtdTouch(pool, l))
    PROVE  /\ f \in Decs /\ f.heat = dec.heat /\ f.active = dec.active /\ f.lengths = dec.lengths
           /\ f.reset = dec.reset /\ (Finished(dec) => Finished(f))
           /\ \A k \in Lanes : RtdLane(pool, f, k)
<1> DEFINE m == RtdTouch(pool, l)
           r == RankIn(pool, l)
           x == pool.mark[l]
           n == pool.legs[l]
           y == IF kind = "rtd" THEN n ELSE 0
           c == LengthsOf
           ends == dec.lengths = 0 \/ y = 0 \/ y >= dec.lengths
<1>1. /\ r \in Nat /\ r # 0 /\ x \in Nat /\ x # 0 /\ n \in Nat /\ n > 0 /\ n <= Legs
      /\ Legs \in Nat /\ Legs > 0
  <2>1. r \in Lanes
    BY RankType
  <2>2. n \in 0..Legs /\ x \in Nat /\ Legs \in Nat /\ Legs > 0
    BY ConsoleAssumption DEF PoolInv, Pools
  <2>3. x # 0
    BY DEF PoolInv, RTD
  <2> QED BY <2>1, <2>2, <2>3, LanesFinite
<1>2. /\ m \in Lines /\ m.line = l /\ m.place = r /\ m.time = x /\ m.lengths = y
  <2> HIDE DEF r, x, n
  <2>1. m = RtdLine(l, r, x, n)
    BY DEF RtdTouch, r, x, n
  <2> QED BY <1>1, <2>1, RtdLineIs
<1>3. dec \in Decs
  BY DEF DecInv
<1>4. /\ f \in Decs /\ SameHeat(f, dec) /\ SameAside(f, dec) /\ SameRest(f, dec)
      /\ LineRead(f, dec, l, x, r, y, ends)
  <2>1. f = ReadLine(dec, m) /\ m.place # 0
    BY <1>1, <1>2
  <2> HIDE DEF m
  <2>2. /\ f \in Decs /\ SameHeat(f, dec) /\ SameAside(f, dec) /\ SameRest(f, dec)
        /\ LineRead(f, dec, m.line, m.time, m.place, m.lengths,
                    dec.lengths = 0 \/ m.lengths = 0 \/ m.lengths >= dec.lengths)
    BY <1>2, <1>3, <2>1, LineReadFields
  <2> HIDE DEF x, r, y
  <2> QED BY <1>2, <2>2
<1>5. /\ f.time[l] = x /\ f.place[l] = r /\ f.splits[l] = (IF y # 0 THEN y ELSE dec.splits[l])
      /\ f.running[l] = (dec.running[l] /\ ~ends)
  BY <1>4 DEF LineRead
<1>6. /\ kind = "rtd" => (ends <=> n = Legs)
      /\ kind = "ares" => ends
  <2>1. kind = "rtd" => c = Legs /\ y = n
    BY DEF LengthsOf
  <2>2. kind = "ares" => y = 0
    OBVIOUS
  <2> HIDE DEF n, y
  <2>3. kind = "rtd" => (ends <=> n >= Legs)
    BY <1>1, <2>1
  <2>4. n >= Legs <=> n = Legs
    BY <1>1
  <2> QED BY <2>2, <2>3, <2>4
<1>7. f.running[l] = RtdSwims(pool, l)
  <2>1. Swims(pool, l) = (l \in Swim(pool) /\ pool.legs[l] < Legs)
    BY NobodyAtWall DEF RTD, CTS, Swiss
  <2>2. n < Legs <=> ~(n = Legs)
    BY <1>1
  <2>3. f.running[l] \in BOOLEAN /\ dec.running[l] \in BOOLEAN
    BY <1>3, <1>4 DEF Decs
  <2>4. CASE kind = "rtd"
    <3>1. RtdSwims(pool, l) <=> ~(n = Legs)
      BY <2>1, <2>2, <2>4 DEF RtdSwims
    <3>2. f.running[l] <=> ~(n = Legs)
      BY <1>5, <1>6, <2>4
    <3>3. RtdSwims(pool, l) = Swims(pool, l)
      BY <2>4 DEF RtdSwims
    <3> HIDE DEF n
    <3> QED BY <2>1, <2>3, <3>1, <3>2, <3>3
  <2>5. CASE kind = "ares"
    <3>1. RtdSwims(pool, l) = (l \in Swim(pool) /\ pool.legs[l] = 0)
      BY <2>5 DEF RtdSwims
    <3>2. pool.legs[l] # 0
      BY <1>1
    <3>3. RtdSwims(pool, l) = FALSE
      BY <3>1, <3>2
    <3>4. ~f.running[l]
      BY <1>5, <1>6, <2>5
    <3> QED BY <2>3, <3>3, <3>4
  <2> QED BY <2>4, <2>5 DEF RTD
<1>8. RtdLane(pool, f, l)
  <2>1. /\ kind = "rtd" => f.splits[l] = n
        /\ kind = "ares" => f.splits[l] = 0
    BY <1>1, <1>5
  <2>2. pool.mark[l] # 0 /\ f.place[l] # 0 /\ f.time[l] = pool.mark[l]
        /\ f.place[l] = RankIn(pool, l)
    BY <1>1, <1>5
  <2> QED BY <1>7, <2>1, <2>2 DEF RtdLane, IsRank, RTD
<1>9. \A k \in Lanes \ {l} : RtdLane(pool, f, k)
  <2> SUFFICES ASSUME NEW k \in Lanes, k # l PROVE RtdLane(pool, f, k)
    OBVIOUS
  <2>1. RtdLane(pool, dec, k)
    OBVIOUS
  <2>2. /\ f.time[k] = dec.time[k] /\ f.place[k] = dec.place[k]
        /\ f.running[k] = dec.running[k] /\ f.splits[k] = dec.splits[k]
    BY <1>4 DEF LineRead, Others
  <2> QED BY <2>1, <2>2 DEF RtdLane, IsRank
<1>10. Finished(dec) => Finished(f)
  <2> SUFFICES ASSUME Finished(dec) PROVE Finished(f)
    OBVIOUS
  <2>1. kind # "dolphin"
    BY DEF RTD
  <2>2. \A k \in Lanes : ~dec.running[k] /\ (dec.time[k] # 0 => dec.place[k] # 0)
    BY <2>1 DEF Finished
  <2>3. \A k \in Lanes : k # l => ~f.running[k] /\ (f.time[k] # 0 => f.place[k] # 0)
    BY <1>4, <2>2 DEF LineRead, Others
  <2>4. ~f.running[l] /\ f.place[l] # 0 /\ f.time[l] # 0
    BY <1>1, <1>5, <2>2
  <2> QED BY <2>1, <2>3, <2>4 DEF Finished
<1>11. f.heat = dec.heat /\ f.active = dec.active /\ f.lengths = dec.lengths
       /\ f.reset = dec.reset
  BY <1>4 DEF SameHeat, SameRest
<1> QED BY <1>4, <1>8, <1>9, <1>10, <1>11

\* A message of an RTD, delivered.
LEMMA RtdDeliver ==
    ASSUME PoolInv, DecInv, WireInv, kind \in RTD, known, pool.heat # 0,
           RtdHears(pool, wire, dec), Deliver
    PROVE  RtdHears(pool, wire', dec')
<1> DEFINE m == Head(wire)
           f == Fed(dec, m)
<1>1. wire # <<>> /\ wire' = Tail(wire) /\ dec' = Apply(f) /\ UNCHANGED <<kind, known, pool>>
  BY DEF Deliver, Quiet
<1>2. SayableBy(pool, m)
  BY <1>1, HeadHeard
<1>3. Fit(f)
  BY <1>2, RtdFed
<1>4. /\ dec'.heat = f.heat /\ SameAside(dec', f) /\ SameShown(dec', f) /\ SameRest(dec', f)
      /\ dec'.reset = (~Finished(f) /\ (f.reset \/ Finished(dec)))
  BY <1>1, <1>3, DecKept
<1>5. f = FeedRtd(dec, m) /\ dec \in Decs
  BY FedIs DEF DecInv
<1>6. dec'.active = f.active /\ dec'.lengths = f.lengths
  BY <1>4 DEF SameRest
<1> HIDE DEF f
<1>7. CASE pool.phase = "ready"
  <2>1. Msgs(wire) \subseteq RtdMsgs(pool) /\ RtdRest(pool, Msgs(wire), dec)
    BY <1>7, RtdReadyHears
  <2>2. /\ m \in Msgs(wire) /\ Msgs(wire') \subseteq Msgs(wire)
        /\ Msgs(wire) \subseteq {m} \cup Msgs(wire')
    BY <1>1, MsgsTail DEF WireInv
  <2>3. m \in RtdMsgs(pool)
    BY <2>1, <2>2
  <2>4. RtdRest(pool, Msgs(wire'), f)
    BY <1>5, <2>1, <2>2, <2>3, RtdRestRead
  <2>5. RtdRest(pool, Msgs(wire'), dec')
    BY <1>4, <1>6, <2>4, RtdReadyKept
  <2>6. Msgs(wire') \subseteq RtdMsgs(pool)
    BY <2>1, <2>2
  <2> QED BY <1>7, <2>5, <2>6, RtdReadyHears
<1>8. CASE pool.phase # "ready"
  <2>1. /\ dec.heat = pool.heat /\ ~dec.reset /\ dec.lengths = LengthsOf
        /\ \/ RtdStartHeard(pool, wire, dec)
           \/ dec.active /\ \E l \in Swim(pool) : RtdTouchHeard(pool, wire, dec, l)
    BY <1>1, <1>8, RtdRaceHears
  <2>2. SUFFICES /\ f.heat = pool.heat /\ f.lengths = LengthsOf /\ ~dec'.reset /\ f.active
                 /\ wire' = <<>> /\ \A l \in Lanes : RtdLane(pool, f, l)
    <3>1. ASSUME \A l \in Lanes : RtdLane(pool, f, l)
          PROVE  \A l \in Lanes : RtdLane(pool, dec', l)
      BY <1>4, <3>1 DEF RtdLane, IsRank, SameShown
    <3> QED BY <1>4, <1>6, <1>8, <3>1, RtdRaceHears
  <2>3. CASE RtdStartHeard(pool, wire, dec)
    <3>1. m = At(pool, FALSE) /\ wire' = <<>>
      BY <1>1, <2>3 DEF RtdStartHeard
    <3>2. m.t = "clock" /\ m.zero = FALSE
      BY <3>1, ClockLine
    <3>3. f = RtdClock(dec, m)
      BY <1>5, <3>2 DEF FeedRtd
    <3>4. /\ f.heat = dec.heat /\ f.active /\ f.lengths = dec.lengths /\ f.reset = dec.reset
          /\ \A l \in Lanes : RtdLane(pool, f, l)
      BY <2>1, <2>3, <3>2, <3>3, RtdStartRead DEF RtdStartHeard
    <3>5. ~Finished(dec)
      BY <2>3 DEF Finished, RTD, RtdStartHeard
    <3>6. ~dec'.reset
      BY <1>4, <2>1, <3>4, <3>5
    <3> QED BY <2>1, <3>1, <3>4, <3>6
  <2>4. ASSUME NEW l \in Swim(pool), dec.active, RtdTouchHeard(pool, wire, dec, l)
        PROVE  /\ f.heat = pool.heat /\ f.lengths = LengthsOf /\ ~dec'.reset /\ f.active
               /\ wire' = <<>> /\ \A k \in Lanes : RtdLane(pool, f, k)
    <3>1. m = RtdTouch(pool, l) /\ wire' = <<>> /\ l \in Lanes
      BY <1>1, <2>4, InHeatIs DEF RtdTouchHeard
    <3>2. m.t = "line"
      BY <3>1 DEF RtdTouch, RtdLine
    <3>3. f = ReadLine(dec, RtdTouch(pool, l))
      BY <1>5, <3>1, <3>2 DEF FeedRtd
    <3>4. /\ f \in Decs /\ f.heat = dec.heat /\ f.active = dec.active /\ f.lengths = dec.lengths
          /\ f.reset = dec.reset /\ (Finished(dec) => Finished(f))
          /\ \A k \in Lanes : RtdLane(pool, f, k)
      BY <2>1, <2>4, <3>1, <3>3, RtdTouchRead DEF RtdTouchHeard
    <3>5. ~dec'.reset
      BY <1>4, <2>1, <3>4
    <3> QED BY <2>1, <2>4, <3>1, <3>4, <3>5
  <2> QED BY <2>1, <2>3, <2>4
<1> QED BY <1>7, <1>8

\* The decoder of an RTD alone, with nothing on the wire.
LEMMA RtdIdle ==
    ASSUME PoolInv, DecInv, WireInv, kind \in RTD, known, pool.heat # 0,
           RtdHears(pool, wire, dec), Tick \/ BoardIsReset
    PROVE  RtdHears(pool, wire', dec')
<1>1. wire = <<>> /\ wire' = <<>> /\ UNCHANGED <<kind, known, pool>>
  BY DEF Tick, BoardIsReset, Quiet, consoleVars
<1>2. dec \in Decs
  BY DEF DecInv
<1>3. CASE pool.phase = "ready"
  <2>1. Msgs(wire) \subseteq RtdMsgs(pool) /\ RtdRest(pool, Msgs(wire), dec)
    BY <1>3, RtdReadyHears
  <2>2. BoardIsReset
    BY <1>3 DEF Tick, RTD, Swiss
  <2> DEFINE d == IF Finished(dec) \/ dec.running # Still THEN dec ELSE ResetLanes(dec)
  <2>3. dec' = [d EXCEPT !.reset = FALSE]
    BY <2>2 DEF BoardIsReset
  <2>4. d \in Decs /\ RtdRest(pool, Msgs(wire), d)
    <3>1. CASE d = dec
      BY <1>2, <2>1, <3>1
    <3>2. CASE d = ResetLanes(dec)
      <4> HIDE DEF d
      <4>1. d \in Decs /\ ResetLeaves(d, dec) /\ d.heat = dec.heat
        BY <1>2, <3>2, ResetFields, KindsApart DEF AllKinds
      <4>2. /\ d.lengths = dec.lengths /\ ~d.active
            /\ \A l \in Lanes : d.time[l] = 0 /\ d.place[l] = 0 /\ d.splits[l] = 0 /\ ~d.running[l]
        BY <4>1, DarkCounted DEF ResetLeaves, RTD, CTS
      <4> QED BY <2>1, <4>1, <4>2 DEF RtdRest, RtdReady
    <3> QED BY <3>1, <3>2
  <2> HIDE DEF d
  <2>5. dec'.heat = d.heat /\ SameShown(dec', d) /\ dec'.active = d.active
        /\ dec'.lengths = d.lengths
    BY <2>3, <2>4 DEF Decs, SameShown
  <2>6. RtdRest(pool, Msgs(wire'), dec')
    BY <1>1, <2>4, <2>5, RtdReadyKept
  <2> QED BY <1>1, <1>3, <2>1, <2>6, RtdReadyHears
<1>4. CASE pool.phase # "ready"
  <2>1. /\ dec.heat = pool.heat /\ ~dec.reset /\ dec.lengths = LengthsOf
        /\ dec.active /\ \A l \in Lanes : RtdLane(pool, dec, l)
    <3>1. ~RtdStartHeard(pool, wire, dec)
      BY <1>1 DEF RtdStartHeard
    <3>2. ~\E l \in Swim(pool) : RtdTouchHeard(pool, wire, dec, l)
      BY <1>1 DEF RtdTouchHeard
    <3> QED BY <1>1, <1>4, <3>1, <3>2, RtdRaceHears
  <2>2. Tick
    BY <2>1 DEF BoardIsReset
  <2> DEFINE m == [t |-> "clock", zero |-> pool.phase = "ready",
                   heat |-> pool.heat, soon |-> FALSE]
  <2>3. m.t = "clock" /\ m.zero = FALSE
    BY <1>4
  <2>4. dec' = Apply(Fed(dec, m))
    BY <2>2 DEF Tick
  <2> HIDE DEF m
  <2>5. Fed(dec, m) = dec
    <3>1. Fed(dec, m) = RtdClock(dec, m)
      BY <2>3, FedIs DEF FeedRtd
    <3> QED BY <2>1, <2>3, <3>1 DEF RtdClock, Started
  <2>6. Fit(dec)
    BY <1>2, PlainFit DEF RTD
  <2>7. /\ dec'.heat = dec.heat /\ SameShown(dec', dec) /\ SameRest(dec', dec)
        /\ ~dec'.reset
    BY <1>1, <2>1, <2>4, <2>5, <2>6, DecKept
  <2>8. \A l \in Lanes : RtdLane(pool, dec', l)
    BY <2>1, <2>7 DEF RtdLane, IsRank, SameShown
  <2> QED BY <1>1, <1>4, <2>1, <2>7, <2>8, RtdRaceHears DEF SameRest
<1> QED BY <1>3, <1>4

\* A heat made ready: what an RTD says of it.
RtdReadies(new) ==
    (IF new THEN <<Named(pool')>> ELSE <<>>)
        \o <<Told(LengthsOf), At(pool', TRUE)>>
        \o [l \in 1..Cardinality(Lanes) |-> Cleans(l)]

\* What an RTD sends for a heat made ready.
LEMMA RtdReadiesMsgs ==
    ASSUME NEW new \in BOOLEAN, NEW w, w = RtdReadies(new)
    PROVE  /\ w \in Seq(Msgs(w))
           /\ Msgs(w) = (IF new THEN {Named(pool')} ELSE {})
                        \cup {Told(LengthsOf), At(pool', TRUE)} \cup {Cleans(l) : l \in Lanes}
<1> DEFINE h == IF new THEN <<Named(pool')>> ELSE <<>>
           b == <<Told(LengthsOf), At(pool', TRUE)>>
           c == [l \in 1..Cardinality(Lanes) |-> Cleans(l)]
<1>1. h \in Seq(Msgs(h)) /\ Msgs(h) = IF new THEN {Named(pool')} ELSE {}
  <2>1. CASE new
    <3>1. h = <<Named(pool')>>
      BY <2>1
    <3> HIDE DEF h
    <3> QED BY <2>1, <3>1, MsgsShort, ShortIsSeq
  <2>2. CASE ~new
    <3>1. h = <<>>
      BY <2>2
    <3> HIDE DEF h
    <3> QED BY <2>2, <3>1, MsgsShort, ShortIsSeq
  <2> QED BY <2>1, <2>2
<1>2. b \in Seq(Msgs(b)) /\ Msgs(b) = {Told(LengthsOf), At(pool', TRUE)}
  BY MsgsShort, ShortIsSeq
<1>3. c \in Seq(Msgs(c)) /\ Msgs(c) = {c[l] : l \in Lanes}
  <2>1. DOMAIN c = 1..Cardinality(Lanes) /\ c = [l \in 1..Cardinality(Lanes) |-> c[l]]
    OBVIOUS
  <2> HIDE DEF c
  <2> QED BY <2>1, MsgsOfLanes
<1>4. {c[l] : l \in Lanes} = {Cleans(l) : l \in Lanes}
  BY ConsoleAssumption
<1>5. w = (h \o b) \o c
  BY DEF RtdReadies
<1> HIDE DEF h, b, c
<1>6. Msgs(h \o b) = Msgs(h) \cup Msgs(b) /\ h \o b \in Seq(Msgs(h \o b))
  BY <1>1, <1>2, MsgsConcat
<1> DEFINE hb == h \o b
<1> HIDE DEF hb
<1>7. hb \in Seq(Msgs(hb)) /\ Msgs(hb) = Msgs(h) \cup Msgs(b) /\ w = hb \o c
  BY <1>5, <1>6 DEF hb
<1>8. Msgs(w) = Msgs(hb) \cup Msgs(c) /\ w \in Seq(Msgs(w))
  <2>1. c \in Seq(Msgs(c)) /\ hb \in Seq(Msgs(hb))
    BY <1>3, <1>7
  <2>2. Msgs(hb \o c) = Msgs(hb) \cup Msgs(c) /\ hb \o c \in Seq(Msgs(hb \o c))
    BY <2>1, MsgsConcat
  <2> QED BY <1>7, <2>2
<1> QED BY <1>1, <1>2, <1>3, <1>4, <1>7, <1>8

\* The heat's announcement is what an RTD may say.
LEMMA RtdSent ==
    ASSUME kind \in RTD, NEW new \in BOOLEAN, wire' = RtdReadies(new)
    PROVE  /\ Msgs(wire') \subseteq RtdMsgs(pool')
           /\ new => Named(pool') \in Msgs(wire')
           /\ Told(LengthsOf) \in Msgs(wire') /\ At(pool', TRUE) \in Msgs(wire')
           /\ \A l \in Lanes : Cleans(l) \in Msgs(wire')
           /\ wire' \in Seq(Msgs(wire')) /\ \A m \in Msgs(wire') : SayableBy(pool', m)
<1>1. /\ wire' \in Seq(Msgs(wire'))
      /\ Msgs(wire') = (IF new THEN {Named(pool')} ELSE {})
                        \cup {Told(LengthsOf), At(pool', TRUE)} \cup {Cleans(l) : l \in Lanes}
  BY RtdReadiesMsgs
<1>2. Msgs(wire') \subseteq RtdMsgs(pool')
  BY <1>1 DEF RtdMsgs
<1>3. \A m \in RtdMsgs(pool') : SayableBy(pool', m)
  <2> SUFFICES ASSUME NEW m \in RtdMsgs(pool') PROVE SayableBy(pool', m)
    OBVIOUS
  <2>1. Told(LengthsOf) \in [t : {"lengths"}, n : Nat]
    BY RtdSorts
  <2>2. \A l \in Lanes : Cleans(l) \in Lines
    BY RtdCleansIs
  <2> QED BY <2>1, <2>2, RtdSays DEF RtdMsgs
<1> QED BY <1>1, <1>2, <1>3

\* The start, sent: the lanes are those of a heat nobody has swum.
LEMMA RtdStartSent ==
    ASSUME PoolInv, DecInv, WireInv, kind \in RTD, Console, wire = <<>>, Start
    PROVE  /\ WireInv'
           /\ lost.since = 0 /\ RtdHears(pool, wire, dec) => RtdHears(pool', wire', dec')
<1>1. UNCHANGED <<kind, full, known, dec>> /\ Settled
  BY DEF Console, Start, Send
<1>2. full
  BY DEF WireInv, Swiss, RTD
<1>3. /\ SameSwum(pool, pool') /\ pool'.phase = "racing" /\ pool.phase = "ready"
      /\ pool.heat # 0 /\ pool'.heat > 0 /\ lost' = lost
  BY StartPool, HeatsNat DEF PoolInv, Pools, SameSwum, Start
<1>4. wire' = <<At(pool', FALSE)>>
  BY <1>2 DEF Start, Send, Starts, Clock, At, RTD, Swiss
<1>5. SayableBy(pool', At(pool', FALSE))
  BY RtdSays
<1>6. wire' \in Seq(Msgs(wire')) /\ \A m \in Msgs(wire') : SayableBy(pool', m)
  BY <1>4, <1>5, OneSaid
<1>7. WireInv'
  BY <1>1, <1>3, <1>6, WireSent
<1>8. ~dec.reset
  BY <1>1, <1>3 DEF Settled
<1>9. ASSUME RtdHears(pool, wire, dec) PROVE RtdHears(pool', wire', dec')
  <2>1. RtdRest(pool, {}, dec)
    BY <1>3, <1>9, RtdReadyHears, MsgsShort
  <2>2. RtdReady(pool, dec) /\ dec.lengths = LengthsOf /\ ~dec.active
        /\ \A l \in Lanes : dec.time[l] = 0
    BY <2>1 DEF RtdRest
  <2>3. \A l \in Lanes : pool'.legs[l] = 0
    BY <1>3 DEF SameSwum, PoolInv
  <2>4. RtdReady(pool', dec) /\ dec.heat = pool'.heat
    BY <1>3, <2>2 DEF RtdReady, SameSwum, Swim
  <2>5. RtdStartHeard(pool', wire', dec)
    BY <1>4, <2>2, <2>3, <2>4 DEF RtdStartHeard
  <2>6. dec' = dec /\ LengthsOf = LengthsOf
    BY <1>1
  <2> QED BY <1>3, <1>8, <2>2, <2>4, <2>5, <2>6, RtdRaceHears
<1> QED BY <1>7, <1>9

\* A lane that the step leaves as it is.
LEMMA RtdLaneMoved ==
    ASSUME NEW p, NEW q, NEW d, NEW k, RtdLane(p, d, k), q.legs[k] = p.legs[k],
           q.mark[k] = p.mark[k], Swims(q, k) = Swims(p, k), Swim(q) = Swim(p),
           p.legs[k] = Legs => RankIn(q, k) = RankIn(p, k)
    PROVE  RtdLane(q, d, k)
<1>1. RtdSwims(q, k) = RtdSwims(p, k)
  BY DEF RtdSwims
<1> QED BY <1>1 DEF RtdLane, IsRank

\* Nothing is on the wire in a race: every lane is heard.
LEMMA RtdRaceHeard ==
    ASSUME wire = <<>>, pool.phase # "ready", RtdHears(pool, wire, dec)
    PROVE  /\ dec.heat = pool.heat /\ ~dec.reset /\ dec.lengths = LengthsOf
           /\ dec.active /\ \A l \in Lanes : RtdLane(pool, dec, l)
<1>1. ~RtdStartHeard(pool, wire, dec)
  BY DEF RtdStartHeard
<1>2. ~\E l \in Swim(pool) : RtdTouchHeard(pool, wire, dec, l)
  BY DEF RtdTouchHeard
<1> QED BY <1>1, <1>2, RtdRaceHears

-----------------------------------------------------------------------------
(* The invariant.                                                           *)

\* A decoder that is to lose its reset flag only.
LEMMA ResetTaken ==
    ASSUME PoolInv, DecInv, WireInv, UNCHANGED <<kind, known, pool>>, NEW d, Fit(d),
           d.heat = dec.heat, dec' = [d EXCEPT !.reset = FALSE]
    PROVE  DecInv'
<1>1. d \in Decs
  BY DEF Fit
<1>2. dec' \in Decs /\ dec'.heat = d.heat /\ dec'.lanes = d.lanes /\ dec'.next = d.next
      /\ dec'.used = d.used
  BY <1>1 DEF Decs
<1>3. dec'.half = d.half /\ dec'.held = d.held /\ dec'.done = d.done /\ SameShown(dec', d)
  BY <1>1 DEF Decs, SameShown
<1> QED BY ZenonT(30), <1>2, <1>3 DEF DecInv, Fit, SameShown, PairOpens

\* A board reset keeps what is true of the decoder.
LEMMA BoardResetDec ==
    ASSUME PoolInv, DecInv, WireInv, BoardIsReset
    PROVE  DecInv'
<1> DEFINE d == IF Finished(dec) \/ dec.running # Still THEN dec ELSE ResetLanes(dec)
<1>1. UNCHANGED <<kind, known, pool>> /\ dec \in Decs /\ dec' = [d EXCEPT !.reset = FALSE]
      /\ kind \in AllKinds
  BY DEF BoardIsReset, consoleVars, DecInv, WireInv
<1>2. d \in Decs /\ Fit(d) /\ d.heat = dec.heat
  <2>1. CASE d = dec
    BY <2>1 DEF Fit, DecInv
  <2>2. CASE d = ResetLanes(dec) /\ ~Finished(dec)
    <3> HIDE DEF d
    <3>1. d \in Decs /\ ResetLeaves(d, dec) /\ d.heat = dec.heat
      BY <1>1, <2>2, ResetFields
    <3>2. \A l \in Lanes : d.time[l] = 0 /\ d.splits[l] = 0 /\ ~d.running[l]
      BY <3>1, DarkCounted DEF ResetLeaves
    <3>3. kind = "dolphin" => d.running = Still /\ d.next = 0
      <4>1. kind = "dolphin" => ~dec.done
        BY <2>2 DEF Finished
      <4>2. kind = "dolphin" => dec.next = 0
        BY <4>1 DEF DecInv
      <4> QED BY <3>1, <4>2 DEF ResetLeaves, Darkened
    <3> QED BY <3>1, <3>2, <3>3 DEF Fit, DecInv, ResetLeaves
  <2> QED BY <2>1, <2>2
<1> HIDE DEF d
<1> QED BY <1>1, <1>2, ResetTaken

\* A heat set by hand keeps what is true of the decoder.
LEMMA SetHeatDec ==
    ASSUME PoolInv, DecInv, WireInv, SetHeat
    PROVE  DecInv'
<1> DEFINE r == ResetLanes(dec)
           h == pool.heat
           d == [r EXCEPT !.heat = h]
           s == IF known THEN h ELSE 0
           n == IF known THEN Swimmers[h] ELSE {}
<1>1. UNCHANGED <<kind, known, pool>> /\ dec \in Decs /\ kind = "seiko" /\ h # dec.heat
      /\ known \in BOOLEAN
  BY DEF SetHeat, consoleVars, DecInv, WireInv
<1>2. h \in Heats /\ h > 0 /\ h \in HeatOrNone /\ s \in HeatOrNone /\ n \in SUBSET Lanes
  <2>1. dec.heat <= h /\ h \in HeatOrNone /\ dec.heat \in Nat /\ h \in Nat
    BY <1>1, HeatsNat DEF DecInv, Decs, PoolInv, Pools
  <2>2. h > 0
    BY <1>1, <2>1
  <2> QED BY <2>1, <2>2, HeatsNat, HeatsSwum
<1>3. r \in Decs /\ ResetLeaves(r, dec) /\ r.heat = dec.heat
  BY <1>1, ResetFields DEF AllKinds
<1> HIDE DEF r
<1>4. d \in Decs /\ d.half = r.half /\ d.next = r.next /\ d.heat = h
  BY <1>2, <1>3 DEF Decs
<1>5. dec' = [[d EXCEPT !.seeds = s, !.lanes = n] EXCEPT !.reset = FALSE]
  BY <1>4 DEF SetHeat, OnEventChanged, r
<1> HIDE DEF d, s, n, h
<1>6. dec' \in Decs
  BY <1>2, <1>4, <1>5 DEF Decs
<1>7. dec'.heat = h /\ dec'.half = dec.half /\ dec'.next = dec.next /\ dec'.lanes = n
  BY <1>3, <1>4, <1>5 DEF Decs, ResetLeaves
<1>10. h <= pool.heat
  <2>1. h \in Nat
    BY <1>2, HeatsNat
  <2>2. h <= h
    BY <2>1
  <2> QED BY <2>2 DEF h
<1>8. h <= pool.heat /\ dec.next <= pool.heat /\ (dec.half # NoHalf => PairOpens(dec.half))
  BY <1>10 DEF DecInv
<1>9. n = IF known /\ h > 0 THEN Swimmers[h] ELSE {}
  BY <1>2 DEF n
<1> QED BY <1>1, <1>6, <1>7, <1>8, <1>9 DEF DecInv, PairOpens

\* A decoder started again.
LEMMA RestartDec ==
    ASSUME PoolInv, WireInv, UNCHANGED <<kind, known, pool>>, dec' = NewDecoder
    PROVE  DecInv'
<1> DEFINE d == NewDecoder
<1>1. /\ d \in Decs /\ d.heat = 0 /\ d.lanes = {} /\ d.next = 0 /\ d.half = NoHalf
      /\ d.running = Still /\ pool.heat \in Nat
      /\ \A l \in Lanes : d.time[l] = 0 => d.splits[l] = 0
  <2>1. pool.heat \in Nat
    BY HeatsNat DEF PoolInv, Pools
  <2> QED BY <2>1, NewDecoderType, DarkCounted DEF Darkened, Counted
<1> HIDE DEF d
<1>2. dec' = d
  BY DEF d
<1> QED BY <1>1, <1>2 DEF DecInv

\* A message lost, or a decoder started again, is counted.
LEMMA WireLost ==
    ASSUME WireInv, UNCHANGED <<kind, full, known, pool>>,
           lost' = [all |-> lost.all + 1, since |-> lost.since + 1],
           wire' = wire \/ (wire # <<>> /\ wire' = Tail(wire))
    PROVE  WireInv' /\ lost'.since # 0
<1>1. wire' \in Seq(Msgs(wire')) /\ Msgs(wire') \subseteq Msgs(wire)
  BY MsgsTail DEF WireInv
<1>2. \A m \in Msgs(wire') : SayableBy(pool, m)
  BY <1>1 DEF WireInv
<1>3. wire' # <<>> => wire # <<>>
  BY DEF WireInv
<1>4. lost.all \in Nat /\ lost.since \in Nat
  BY DEF WireInv
<1>5. lost' \in [all : Nat, since : Nat] /\ lost'.since # 0
  BY <1>4
<1> QED BY ZenonT(30), <1>1, <1>2, <1>3, <1>5 DEF WireInv, SayableBy, Named, At, Soon, Swim

\* Every console, and every decoder, starts in the invariant.
LEMMA InitRaceInv ==
    ASSUME DecodersInit
    PROVE  RaceInv
<1>1. /\ kind \in Kinds /\ full \in (IF kind \in {"alge"} \cup Swiss THEN BOOLEAN ELSE {TRUE})
      /\ wire = <<>> /\ lost = [all |-> 0, since |-> 0] /\ known \in KnownLists
      /\ dec = NewDecoder
  BY DEF DecodersInit, ConsoleInit
<1> DEFINE none == NoMarks
<1>2. pool = [heat |-> 0, race |-> 0, phase |-> "over", n |-> 0, legs |-> none,
              mark |-> none, out |-> {}, wall |-> none, blip |-> FALSE]
  BY DEF DecodersInit, ConsoleInit
<1>3. /\ none \in [Lanes -> Nat] /\ none \in [Lanes -> 0..Legs]
      /\ none \in [Lanes -> {0} \cup Lanes] /\ \A l \in Lanes : none[l] = 0
      /\ Legs \in Nat /\ Legs # 0
  BY ConsoleAssumption DEF NoMarks
<1> HIDE DEF none
<1>4. /\ pool.heat = 0 /\ pool.phase = "over" /\ pool.out = {} /\ pool.legs = none
      /\ pool.mark = none /\ pool.wall = none
  BY <1>2
<1>5. pool \in Pools
  BY <1>2, <1>3, HeatsNat DEF Pools
<1>6. InHeat = {}
  BY <1>4 DEF InHeat
<1>7. PoolInv
  BY <1>3, <1>4, <1>5, <1>6 DEF PoolInv, AllIn
<1> DEFINE d == NewDecoder
<1>8. /\ d \in Decs /\ d.heat = 0 /\ d.lanes = {} /\ d.next = 0 /\ d.half = NoHalf
      /\ d.running = Still
      /\ \A l \in Lanes : d.time[l] = 0 => d.splits[l] = 0
  BY NewDecoderType, DarkCounted DEF Darkened, Counted
<1> HIDE DEF d
<1>9. dec = d
  BY <1>1 DEF d
<1>10. DecInv
  BY <1>4, <1>8, <1>9 DEF DecInv
<1>11. kind \in AllKinds /\ known \in BOOLEAN
  BY <1>1, ConsoleAssumption, KnownAssumption
<1>12. full \in BOOLEAN /\ (kind \notin {"alge"} \cup Swiss => full)
  BY <1>1
<1>13. lost \in [all : Nat, since : Nat]
  BY <1>1
<1>14. WireInv
  BY <1>1, <1>11, <1>12, <1>13, MsgsShort DEF WireInv
<1> QED BY <1>4, <1>7, <1>10, <1>14 DEF RaceInv

\* The console's steps keep the pool's part, and the decoder's.
LEMMA ConsolePool ==
    ASSUME PoolInv, DecInv, ~GivesUpLate, ~PostsByPlace, Console
    PROVE  PoolInv' /\ DecInv'
<1>1. UNCHANGED <<kind, known, dec>> /\ ConsoleStep
  BY DEF Console, ConsoleStep, NextHeat, Reswim, Start, End, PostByPlace, Touch, GoesOn,
         Flicker, GivesUp, Deletes, Send
<1>2. pool.heat \in Nat
  BY HeatsNat DEF PoolInv, Pools
<1>3. PoolInv' /\ (pool'.heat = pool.heat \/ pool'.heat = pool.heat + 1)
  <2>1. CASE NextHeat
    BY <2>1, NextHeatPool
  <2>2. CASE Reswim
    BY <2>2, ReswimPool
  <2>3. CASE Start
    BY <2>3, StartPool DEF SameSwum
  <2>4. CASE End
    BY <2>4, EndPool DEF SameSwum
  <2>5. ASSUME NEW l \in Lanes, Touch(l) PROVE PoolInv' /\ pool'.heat = pool.heat
    BY <2>5, TouchPool, TouchMoves DEF Touched
  <2>6. ASSUME NEW l \in Lanes, GoesOn(l) PROVE PoolInv' /\ pool'.heat = pool.heat
    BY <2>6, GoesOnPool DEF WentOn
  <2>7. ASSUME NEW l \in Lanes, Flicker(l) PROVE PoolInv' /\ pool'.heat = pool.heat
    BY <2>7, FlickerPool DEF SameSwum
  <2>8. ASSUME NEW l \in Lanes, GivesUp(l) PROVE PoolInv' /\ pool'.heat = pool.heat
    BY <2>8, GivesUpPool DEF GaveUp
  <2>9. ASSUME NEW l \in Lanes, Deletes(l) PROVE PoolInv' /\ pool'.heat = pool.heat
    BY <2>9, DeletesPool DEF TookBack
  <2> QED BY <1>1, <2>1, <2>2, <2>3, <2>4, <2>5, <2>6, <2>7, <2>8, <2>9
          DEF ConsoleStep, PostByPlace
<1>4. pool'.heat \in Nat /\ (pool'.heat = pool.heat \/ pool'.heat > pool.heat)
  BY <1>2, <1>3
<1>5. DecInv'
  BY <1>1, <1>4, DecOfHeat
<1> QED BY <1>3, <1>5

\* A race whose lanes are as they were swum.
LEMMA SwumLanes ==
    ASSUME PoolInv, dec \in Decs, kind # "dolphin", pool.heat # 0, pool.phase = "over",
           dec.heat = pool.heat,
           \A l \in Lanes : ~dec.running[l] /\ dec.time[l] = pool.mark[l] /\ IsRank(pool, dec, l),
           \A l \in Swim(pool) \ pool.out :
              dec.splits[l] = CASE kind = "quantum" -> Legs - 1
                                [] kind = "ares"    -> 0
                                [] OTHER            -> Legs
    PROVE  EndsAsSwum
<1>1. InHeat = Swim(pool) /\ InHeat \in SUBSET Lanes /\ \E l \in InHeat : l \notin pool.out
  BY InHeatIs DEF PoolInv
<1>2. \A l \in InHeat \ pool.out : pool.legs[l] = Legs
  BY DEF PoolInv, AllIn
<1>3. \A l \in InHeat \ pool.out : /\ dec.time[l] = pool.mark[l] /\ pool.mark[l] # 0
                                   /\ dec.place[l] = RankIn(pool, l) /\ RankIn(pool, l) # 0
  <2> SUFFICES ASSUME NEW l \in InHeat \ pool.out
               PROVE  /\ dec.time[l] = pool.mark[l] /\ pool.mark[l] # 0
                      /\ dec.place[l] = RankIn(pool, l) /\ RankIn(pool, l) # 0
    OBVIOUS
  <2>1. l \in Lanes /\ pool.legs[l] = Legs
    BY <1>1, <1>2
  <2>2. RankIn(pool, l) \in Lanes
    BY <2>1, RankType
  <2>3. RankIn(pool, l) # 0
    BY <2>2, LanesFinite
  <2> QED BY <2>1, <2>3 DEF PoolInv, IsRank
<1>4. \A l \in Lanes : l \notin InHeat \ pool.out => pool.mark[l] = 0
  BY DEF PoolInv
<1>5. dec.running = Still
  BY DEF Decs, Still
<1>6. Finished(dec)
  <2>1. \A l \in Lanes : dec.time[l] # 0 => dec.place[l] # 0
    BY <1>3, <1>4
  <2>2. \E l \in Lanes : dec.time[l] # 0
    BY <1>1, <1>3
  <2> QED BY <2>1, <2>2 DEF Finished
<1>7. ConsoleAssumption
  BY ConsoleAssumption
<1>8. \A l \in InHeat \ pool.out :
              dec.splits[l] = CASE kind = "quantum" -> Legs - 1
                                [] kind = "ares"    -> 0
                                [] OTHER            -> Legs * SplitStep
  BY <1>1, <1>7 DEF SplitStep
<1>9. \A l \in Lanes :
              IF l \in InHeat \ pool.out
              THEN dec.time[l] = pool.mark[l] /\ dec.place[l] = RankIn(pool, l)
              ELSE dec.time[l] = 0
  BY <1>3, <1>4
<1> QED BY <1>5, <1>6, <1>8, <1>9 DEF EndsAsSwum

\* A lane that swims is shown to, so the race is not taken for finished.
LEMMA SwumNotEarly ==
    ASSUME PoolInv, pool.heat # 0, kind # "dolphin", kind \notin CTS \cup Swiss,
           pool.phase = "racing" /\ ~AllIn => \A l \in Lanes : Swims(pool, l) => dec.running[l]
    PROVE  NotFinishedEarly
<1> SUFFICES ASSUME pool.phase = "racing", ~AllIn PROVE ~Finished(dec)
  BY DEF NotFinishedEarly
<1>1. PICK l \in InHeat : pool.legs[l] # Legs /\ l \notin pool.out
  BY DEF AllIn
<1>2. l \in Lanes /\ l \in Swim(pool)
  BY InHeatIs, <1>1
<1>3. pool.legs[l] \in 0..Legs /\ Legs \in Nat /\ pool.wall[l] = 0
  BY <1>2, ConsoleAssumption DEF PoolInv, Pools
<1>4. pool.legs[l] < Legs
  BY <1>1, <1>3
<1>5. Swims(pool, l)
  BY <1>1, <1>2, <1>3, <1>4 DEF Swims
<1> QED BY <1>2, <1>5 DEF Finished

\* Nobody swims once the race is over.
LEMMA AllOver ==
    ASSUME PoolInv, pool.heat # 0, pool.phase = "over"
    PROVE  /\ \A l \in Lanes : ~Swims(pool, l)
           /\ \A l \in Swim(pool) \ pool.out : pool.legs[l] = Legs /\ l \in Lanes
<1>1. InHeat = Swim(pool) /\ InHeat \in SUBSET Lanes /\ AllIn /\ Legs \in Nat
  BY InHeatIs, ConsoleAssumption DEF PoolInv
<1> QED BY <1>1 DEF AllIn, Swims

\* The heat is made ready.
LEMMA RtdReadySent ==
    ASSUME PoolInv, DecInv, WireInv, kind \in RTD, Console, wire = <<>>, NextHeat \/ Reswim
    PROVE  /\ WireInv'
           /\ lost'.since = 0 /\ (pool.heat # 0 /\ lost.since = 0 => RtdHears(pool, wire, dec)) =>
                RtdHears(pool', wire', dec')
<1>1. UNCHANGED <<kind, full, known, dec>>
  BY DEF Console, NextHeat, Reswim, Send
<1>2. pool'.phase = "ready" /\ pool'.heat \in Heats /\ pool'.heat > 0
  <2>1. pool'.phase = "ready" /\ pool'.heat \in Heats
    BY NextHeatPool, ReswimPool DEF Made
  <2> QED BY <2>1, HeatsNat
<1>3. lost' = lost \/ lost' = [lost EXCEPT !.since = 0]
  BY DEF NextHeat, Reswim
<1>4. /\ NextHeat => wire' = RtdReadies(TRUE)
      /\ Reswim => wire' = RtdReadies(FALSE)
  <2>1. \A new \in BOOLEAN : Announces(new) = RtdReadies(new)
    BY DEF Announces, RtdReadies, PerLane, Cleans, Told, Named, At, Clock, HeatNumber,
           LengthsOf, RTD, Swiss, CTS
  <2> QED BY <2>1 DEF NextHeat, Reswim, Send
<1>5. /\ Msgs(wire') \subseteq RtdMsgs(pool')
      /\ NextHeat => Named(pool') \in Msgs(wire')
      /\ Told(LengthsOf) \in Msgs(wire') /\ At(pool', TRUE) \in Msgs(wire')
      /\ \A l \in Lanes : Cleans(l) \in Msgs(wire')
      /\ wire' \in Seq(Msgs(wire')) /\ \A m \in Msgs(wire') : SayableBy(pool', m)
  BY <1>4, RtdSent
<1>6. WireInv'
  BY <1>1, <1>2, <1>3, <1>5, WireSent
<1>7. ASSUME lost'.since = 0, pool.heat # 0 /\ lost.since = 0 => RtdHears(pool, wire, dec)
      PROVE  RtdHears(pool', wire', dec')
  <2>1. NextHeat => dec.heat # pool'.heat
    <3> DEFINE h == dec.heat
               k == pool.heat
    <3>1. h <= k /\ h \in Nat /\ k \in Nat
      BY HeatsNat DEF DecInv, Decs, PoolInv, Pools
    <3>2. NextHeat => pool'.heat = k + 1
      BY NextHeatPool
    <3> HIDE DEF h, k
    <3>3. NextHeat => h # pool'.heat
      BY <3>1, <3>2
    <3> QED BY <3>3 DEF h
  <2>2. Reswim => RtdReady(pool', dec)
    <3> SUFFICES ASSUME Reswim PROVE RtdReady(pool', dec)
      OBVIOUS
    <3>1. pool.heat # 0 /\ pool'.heat = pool.heat /\ pool.phase # "ready" /\ lost.since = 0
      <4>1. lost' = lost
        BY DEF Reswim, RTD
      <4>2. pool.phase # "ready"
        BY DEF Reswim
      <4>3. pool.heat # 0 /\ pool'.heat = pool.heat
        BY ReswimPool, HeatsNat
      <4> QED BY <1>7, <4>1, <4>2, <4>3
    <3>2. RtdHears(pool, wire, dec)
      BY <1>7, <3>1
    <3>3. dec.heat = pool.heat /\ \A l \in Lanes : RtdLane(pool, dec, l)
      BY <3>1, <3>2, RtdRaceHeard
    <3>4. \A l \in Lanes : /\ dec.running[l] => l \in Swim(pool')
                           /\ dec.time[l] = 0 => dec.place[l] = 0
                           /\ kind = "ares" => dec.splits[l] = 0
      BY <3>1, <3>3 DEF RtdLane, RtdSwims, Swims, Swim
    <3> QED BY <3>1, <3>3, <3>4 DEF RtdReady
  <2>3. RtdRest(pool', Msgs(wire'), dec)
    BY <1>5, <2>1, <2>2 DEF RtdRest
  <2>4. dec' = dec
    BY <1>1
  <2> QED BY <1>2, <1>5, <2>3, <2>4, RtdReadyHears
<1> QED BY <1>6, <1>7

\* A touch, sent.
LEMMA RtdTouchSent ==
    ASSUME PoolInv, DecInv, WireInv, kind \in RTD, Console, wire = <<>>,
           NEW l \in Lanes, Touch(l)
    PROVE  /\ WireInv'
           /\ RtdHears(pool, wire, dec) => RtdHears(pool', wire', dec')
<1>1. UNCHANGED <<kind, full, known, dec, lost>>
  BY DEF Console, Touch, Send
<1>2. /\ pool' \in Pools /\ Touched(pool, pool', l) /\ pool.phase = "racing"
      /\ pool.heat # 0 /\ Swims(pool, l) /\ pool'.heat > 0
  BY TouchMoves, HeatsNat DEF PoolInv, Pools, Touched
<1>3. wire' = <<RtdTouch(pool', l)>>
  BY DEF Touch, Send, Touches, RTD, RtdTouch, Swiss
<1>4. RtdTouch(pool', l) \in Lines
  <2> DEFINE r == RankIn(pool', l)
             x == pool'.mark[l]
             n == pool'.legs[l]
  <2>1. r \in Nat /\ x \in Nat /\ n \in Nat
    BY SMTT(20), <1>2, RankType, LanesFinite DEF Pools
  <2>2. RtdTouch(pool', l) = RtdLine(l, r, x, n)
    BY DEF RtdTouch
  <2> HIDE DEF r, x, n
  <2> QED BY <2>1, <2>2, RtdLineIs
<1>5. WireInv'
  <2>1. SayableBy(pool', RtdTouch(pool', l))
    BY <1>4, RtdSays
  <2>2. wire' \in Seq(Msgs(wire')) /\ \A m \in Msgs(wire') : SayableBy(pool', m)
    BY <1>3, <2>1, OneSaid
  <2> QED BY <1>1, <1>2, <2>2, WireSent
<1>6. ASSUME RtdHears(pool, wire, dec) PROVE RtdHears(pool', wire', dec')
  <2>1. /\ dec.heat = pool.heat /\ ~dec.reset /\ dec.lengths = LengthsOf
        /\ dec.active /\ \A k \in Lanes : RtdLane(pool, dec, k)
    BY <1>2, <1>6, RtdRaceHeard
  <2>2. /\ l \in Swim(pool) /\ pool.legs[l] < Legs /\ pool.legs[l] \in Nat
        /\ pool'.legs[l] = pool.legs[l] + 1 /\ Swim(pool') = Swim(pool)
    BY <1>2 DEF Touched, Swim, Swims, PoolInv, Pools
  <2>3. \A k \in Lanes \ {l} : RtdLane(pool', dec, k)
    <3> SUFFICES ASSUME NEW k \in Lanes \ {l} PROVE RtdLane(pool', dec, k)
      OBVIOUS
    <3>1. pool.legs[k] = Legs => RankIn(pool', k) = RankIn(pool, k)
      BY <1>2, <2>2, TouchRank
    <3>2. Swims(pool', k) = Swims(pool, k)
      BY <1>2 DEF Touched, Swims, Swim
    <3>3. pool'.legs[k] = pool.legs[k] /\ pool'.mark[k] = pool.mark[k]
      BY <1>2 DEF Touched
    <3> QED BY <2>1, <2>2, <3>1, <3>2, <3>3, RtdLaneMoved
  <2>4. kind = "rtd" => dec.running[l]
    BY <1>2, <2>1 DEF RtdLane, RtdSwims
  <2>5. kind = "ares" => dec.splits[l] = 0 /\ (pool'.legs[l] = 1 => dec.running[l])
    <3>1. pool'.legs[l] = 1 => pool.legs[l] = 0
      BY <2>2
    <3> QED BY <2>1, <2>2, <3>1 DEF RtdLane, RtdSwims
  <2>6. pool'.legs[l] > 0 /\ l \in Swim(pool')
    BY <2>2
  <2>7. RtdTouchHeard(pool', wire', dec, l)
    BY <1>3, <2>3, <2>4, <2>5, <2>6 DEF RtdTouchHeard
  <2>8. pool'.phase # "ready" /\ dec' = dec /\ dec.heat = pool'.heat
    BY <1>1, <1>2, <2>1 DEF Touched
  <2> QED BY <2>1, <2>6, <2>7, <2>8, RtdRaceHears
<1> QED BY <1>5, <1>6

\* A step of an RTD.
LEMMA RtdConsole ==
    ASSUME PoolInv, PoolInv', DecInv, WireInv, ~PostsByPlace, kind \in RTD,
           Console, pool.heat # 0 /\ lost.since = 0 /\ known => RtdHears(pool, wire, dec)
    PROVE  /\ WireInv'
           /\ lost'.since = 0 /\ known => RtdHears(pool', wire', dec')
<1>1. /\ wire = <<>> /\ UNCHANGED <<kind, full, known, dec>> /\ ConsoleStep
  BY DEF Console, ConsoleStep, NextHeat, Reswim, Start, End, PostByPlace, Touch, GoesOn,
         Flicker, GivesUp, Deletes, Quiet, Send
<1>2. CASE NextHeat \/ Reswim
  BY <1>1, <1>2, RtdReadySent
<1>3. CASE Start
  <2>1. lost' = lost /\ pool.heat # 0
    BY <1>3, StartPool DEF Start
  <2> QED BY <1>1, <1>3, <2>1, RtdStartSent
<1>4. CASE End
  <2>1. /\ SameSwum(pool, pool') /\ pool'.phase = "over" /\ pool.phase = "racing"
        /\ pool.heat # 0 /\ pool'.heat > 0 /\ lost' = lost /\ wire' = <<>>
    BY <1>4, EndPool, HeatsNat DEF PoolInv, Pools, SameSwum, End, Send, Ends, RTD
  <2>2. WireInv'
    BY <1>1, <2>1, WireSent, MsgsShort
  <2>3. ASSUME lost'.since = 0, known PROVE RtdHears(pool', wire', dec')
    <3>1. /\ dec.heat = pool.heat /\ ~dec.reset /\ dec.lengths = LengthsOf
          /\ dec.active /\ \A l \in Lanes : RtdLane(pool, dec, l)
      BY <1>1, <2>1, <2>3, RtdRaceHeard
    <3>2. \A l \in Lanes : RtdLane(pool', dec, l)
      <4> SUFFICES ASSUME NEW l \in Lanes PROVE RtdLane(pool', dec, l)
        OBVIOUS
      <4>1. /\ Swims(pool', l) = Swims(pool, l) /\ Swim(pool') = Swim(pool)
            /\ pool'.legs[l] = pool.legs[l] /\ pool'.mark[l] = pool.mark[l]
        BY <2>1 DEF SameSwum, Swims, Swim
      <4> QED BY <2>1, <3>1, <4>1, SameSwumRank, RtdLaneMoved
    <3>3. dec' = dec /\ pool'.heat = pool.heat /\ pool'.phase # "ready"
      BY <1>1, <2>1 DEF SameSwum
    <3> QED BY <2>1, <3>1, <3>2, <3>3, RtdRaceHears
  <2> QED BY <2>2, <2>3
<1>5. ASSUME NEW l \in Lanes, Touch(l)
      PROVE  /\ WireInv'
             /\ lost'.since = 0 /\ known => RtdHears(pool', wire', dec')
  <2>1. lost' = lost /\ pool.heat # 0
    BY <1>5, TouchMoves DEF Touch
  <2> QED BY <1>1, <1>5, <2>1, RtdTouchSent
<1> QED BY <1>1, <1>2, <1>3, <1>4, <1>5, GoesOnPool
        DEF ConsoleStep, PostByPlace, Flicker, GivesUp, Deletes, CTS, Swiss, RTD

\* What was heard whole from an RTD is decoded.
LEMMA RtdDecoded ==
    ASSUME PoolInv, DecInv, kind \in RTD, pool.heat # 0, wire = <<>>,
           RtdHears(pool, wire, dec)
    PROVE  EndsAsSwum /\ NotFinishedEarly
<1>1. pool.phase # "ready" =>
        /\ dec.heat = pool.heat /\ \A l \in Lanes : RtdLane(pool, dec, l)
  BY RtdRaceHeard
<1>2. EndsAsSwum
  <2> SUFFICES ASSUME pool.phase = "over" PROVE EndsAsSwum
    BY DEF EndsAsSwum
  <2>1. \A l \in Lanes : ~RtdSwims(pool, l)
    <3>1. \A l \in Lanes : ~Swims(pool, l)
      BY AllOver
    <3>2. kind = "ares" => \A l \in Swim(pool) : pool.legs[l] # 0
      <4>1. Legs # 0
        BY ConsoleAssumption
      <4>2. pool.out = {}
        BY NobodyAtWall DEF RTD, CTS, Swiss
      <4> QED BY <4>1, <4>2, AllOver
    <3> QED BY <3>1, <3>2 DEF RtdSwims, RTD
  <2>2. \A l \in Lanes : ~dec.running[l] /\ dec.time[l] = pool.mark[l] /\ IsRank(pool, dec, l)
    BY <1>1, <2>1 DEF RtdLane
  <2>3. \A l \in Swim(pool) \ pool.out : dec.splits[l] = IF kind = "ares" THEN 0 ELSE Legs
    <3> SUFFICES ASSUME NEW l \in Swim(pool) \ pool.out
                 PROVE  dec.splits[l] = IF kind = "ares" THEN 0 ELSE Legs
      OBVIOUS
    <3>1. l \in Lanes /\ pool.legs[l] = Legs
      BY AllOver
    <3>2. Legs > 0
      BY ConsoleAssumption
    <3>3. pool.legs[l] > 0
      BY <3>1, <3>2
    <3> QED BY <1>1, <3>1, <3>3 DEF RtdLane, RTD
  <2>4. dec \in Decs /\ kind # "dolphin" /\ kind # "quantum"
    BY DEF DecInv, RTD
  <2> QED BY <1>1, <2>2, <2>3, <2>4, SwumLanes
<1>3. NotFinishedEarly
  <2>1. CASE kind = "rtd"
    <3>1. pool.phase = "racing" => \A l \in Lanes : Swims(pool, l) => dec.running[l]
      BY <1>1, <2>1 DEF RtdLane, RtdSwims
    <3> QED BY <2>1, <3>1, SwumNotEarly DEF CTS, Swiss
  <2>2. CASE kind = "ares"
    BY <2>2 DEF NotFinishedEarly
  <2> QED BY <2>1, <2>2 DEF RTD
<1> QED BY <1>2, <1>3

-----------------------------------------------------------------------------
(* ALGE.                                                                    *)

AlgeTimes == [t : {"I", "F"}, lane : Lanes, time : Nat, touches : Nat, rank : Nat]

\* What an ALGE may send.
LEMMA AlgeSays ==
    ASSUME kind = "alge", NEW p, NEW m
    PROVE  SayableBy(p, m) <=>
               \/ m = [t |-> "start"] \/ m = At(p, TRUE) \/ m = At(p, FALSE)
               \/ m \in [t : {"C"}, lane : Lanes] \/ m \in AlgeTimes
  BY DEF SayableBy, RTD, Swiss, AlgeTimes

\* What the step changes, and what it leaves.
LEMMA AlgeStartFields ==
    ASSUME kind = "alge", NEW d \in Decs, NEW e, e = AlgeStart(d)
    PROVE  /\ e \in Decs /\ SameHeat(e, d) /\ SameAside(e, d) /\ e.active
           /\ d.active => e = d
           /\ ~d.active /\ (\A l \in Lanes : d.finish[l] # 0 => d.time[l] # 0) =>
                /\ \A l \in Lanes : e.time[l] = 0 /\ e.finish[l] = 0
                /\ \A l \in Lanes : e.running[l] => d.running[l] \/ l \in LanesToStart(d)
                /\ \A l \in LanesToStart(d) \cap Lanes : e.running[l]
<1> DEFINE x == ResetForReswim(d)
<1>1. x \in Decs /\ ResetLeaves(x, d) /\ x.heat = d.heat
  BY ReswimFields DEF AllKinds
<1>2. ~x.active /\ SameHeat(x, d) /\ SameAside(x, d) /\ Darkened(x) /\ x.finish = None
  BY <1>1, KindsApart DEF ResetLeaves, SameHeat, SameAside, CTS
<1> DEFINE y == IF d.active \/ Timed(d) = {} THEN d ELSE x
<1>3. e = Started(y, {})
  BY DEF AlgeStart
<1>4. y = d \/ (y = x /\ ~d.active /\ Timed(d) # {})
  OBVIOUS
<1>5. y = d => d.active \/ Timed(d) = {}
  <2>1. ASSUME y = x, x = d PROVE Timed(d) = {}
    BY <1>2, <2>1, DarkCounted
  <2> QED BY <2>1
<1> HIDE DEF x, y
<1>6. y \in Decs /\ SameHeat(y, d) /\ SameAside(y, d)
  BY <1>1, <1>2, <1>4 DEF SameHeat, SameAside
<1>7. /\ e \in Decs /\ SameHeat(e, y) /\ SameAside(e, y) /\ e.active
      /\ e.time = y.time /\ e.finish = y.finish
      /\ y.active => e.running = y.running
      /\ ~y.active => \A l \in Lanes : e.running[l] = (y.running[l] \/ l \in LanesToStart(y) \ {})
  BY <1>3, <1>6, StartedFields
<1>8. LanesToStart(y) = LanesToStart(d)
  BY <1>6 DEF LanesToStart, SameHeat, SameAside
<1>9. d.active => e = d
  <2>1. d.active => y = d
    BY <1>4
  <2> QED BY <1>3, <2>1 DEF Started
<1>10. ASSUME ~d.active, \A l \in Lanes : d.finish[l] # 0 => d.time[l] # 0
       PROVE  /\ \A l \in Lanes : e.time[l] = 0 /\ e.finish[l] = 0
              /\ \A l \in Lanes : e.running[l] => d.running[l] \/ l \in LanesToStart(d)
              /\ \A l \in LanesToStart(d) \cap Lanes : e.running[l]
  <2>1. ~y.active
    BY <1>2, <1>4, <1>10
  <2>2. \A l \in Lanes : y.time[l] = 0 /\ y.finish[l] = 0 /\ (y.running[l] => d.running[l])
    <3>1. CASE y = d
      <4>1. \A l \in Lanes : d.time[l] = 0
        BY <1>5, <1>10, <3>1 DEF Timed
      <4> QED BY <1>10, <3>1, <4>1
    <3>2. CASE y = x
      <4>1. \A l \in Lanes : None[l] = 0
        BY DEF None
      <4> QED BY <1>2, <3>2, <4>1, DarkCounted
    <3> QED BY <1>4, <3>1, <3>2
  <2> QED BY <1>7, <1>8, <2>1, <2>2
<1>11. SameHeat(e, d) /\ SameAside(e, d)
  BY <1>6, <1>7 DEF SameHeat, SameAside
<1> QED BY <1>7, <1>9, <1>10, <1>11

\* What a line of the clock changes, and what it leaves.
LEMMA AlgeClockFields ==
    ASSUME kind = "alge", NEW d \in Decs, NEW m, m.zero \in BOOLEAN, m.heat \in Heats,
           NEW e, e = AlgeClock(d, m)
    PROVE  /\ e \in Decs /\ e.heat = m.heat /\ e.lanes = d.lanes /\ e.half = d.half
           /\ e.next = d.next
           /\ m.zero => ~e.active
           /\ m.zero /\ m.heat = d.heat => SameShown(e, d) /\ e.finish = d.finish
           /\ m.zero /\ m.heat # d.heat => Darkened(e) /\ e.finish = None
           /\ ~m.zero /\ m.heat = d.heat /\ d.active => e = d
<1> DEFINE h == m.heat
           y == NewHeat(d, h)
<1>1. /\ y \in Decs /\ y.heat = h
      /\ h = d.heat => y = d
      /\ h # d.heat => ResetLeaves(y, d)
  BY NewHeatFields DEF AllKinds
<1>2. y.lanes = d.lanes /\ y.half = d.half /\ y.next = d.next
  BY <1>1 DEF ResetLeaves
<1>3. h # d.heat => Darkened(y) /\ y.finish = None
  BY <1>1 DEF ResetLeaves
<1>4. e = IF m.zero THEN [y EXCEPT !.active = FALSE] ELSE IF y.active THEN y ELSE AlgeStart(y)
  BY DEF AlgeClock
<1>5. h = m.heat
  OBVIOUS
<1> HIDE DEF h, y
<1>6. CASE m.zero
  <2>1. e = [y EXCEPT !.active = FALSE]
    BY <1>4, <1>6
  <2>2. /\ e \in Decs /\ e.heat = y.heat /\ e.lanes = y.lanes /\ e.half = y.half
        /\ e.next = y.next /\ ~e.active /\ SameShown(e, y) /\ e.finish = y.finish
    BY <1>1, <2>1 DEF Decs, SameShown
  <2>3. h # d.heat => Darkened(e) /\ e.finish = None
    BY <1>3, <2>2 DEF Darkened, SameShown
  <2> QED BY <1>1, <1>2, <1>5, <1>6, <2>2, <2>3
<1>7. CASE ~m.zero /\ y.active
  <2>1. e = y
    BY <1>4, <1>7
  <2> QED BY <1>1, <1>2, <1>5, <1>7, <2>1
<1>8. CASE ~m.zero /\ ~y.active
  <2>1. e = AlgeStart(y)
    BY <1>4, <1>8
  <2>2. e \in Decs /\ SameHeat(e, y) /\ SameAside(e, y)
    BY <1>1, <2>1, AlgeStartFields
  <2> QED BY <1>1, <1>2, <1>5, <1>8, <2>2 DEF SameHeat, SameAside
<1> QED BY <1>6, <1>7, <1>8

\* What the clock at zero changes, and what it leaves.
LEMMA AlgeZeroFields ==
    ASSUME kind = "alge", NEW d \in Decs, NEW h \in Heats, NEW m, m.zero, m.heat = h,
           NEW e, e = AlgeClock(d, m)
    PROVE  /\ e \in Decs /\ e.heat = h /\ ~e.active
           /\ e.lanes = d.lanes /\ e.half = d.half /\ e.next = d.next
           /\ h = d.heat => SameShown(e, d) /\ e.finish = d.finish
           /\ h # d.heat => Darkened(e) /\ e.finish = None
<1> DEFINE y == NewHeat(d, h)
<1>1. /\ y \in Decs /\ y.heat = h
      /\ h = d.heat => y = d
      /\ h # d.heat => ResetLeaves(y, d)
  BY NewHeatFields DEF AllKinds
<1>2. h # d.heat => Darkened(y) /\ y.finish = None
  BY <1>1 DEF ResetLeaves
<1>3. e = [y EXCEPT !.active = FALSE]
  BY DEF AlgeClock
<1> HIDE DEF y
<1>4. e \in Decs /\ e.heat = y.heat /\ ~e.active /\ SameShown(e, y) /\ e.finish = y.finish
  BY <1>1, <1>3 DEF Decs, SameShown
<1>5. e.lanes = y.lanes /\ e.half = y.half /\ e.next = y.next
  BY <1>1, <1>3 DEF Decs
<1>6. y.lanes = d.lanes /\ y.half = d.half /\ y.next = d.next
  BY <1>1 DEF ResetLeaves
<1> QED BY <1>1, <1>2, <1>4, <1>5, <1>6 DEF Darkened, SameShown

\* The places a decoder gives by the finish times so far.
LEMMA RankedFields ==
    ASSUME NEW d \in Decs, NEW e, e = Ranked(d)
    PROVE  /\ e \in Decs /\ SameHeat(e, d) /\ SameAside(e, d) /\ SameRest(e, d)
           /\ e.time = d.time /\ e.running = d.running /\ e.splits = d.splits
           /\ \A k \in Lanes :
                e.place[k] = IF d.finish[k] = 0 THEN d.place[k]
                             ELSE 1 + Cardinality({j \in Lanes : d.finish[j] # 0
                                                        /\ d.finish[j] < d.finish[k]})
<1> DEFINE c(k) == Cardinality({j \in Lanes : d.finish[j] # 0 /\ d.finish[j] < d.finish[k]})
           p == [k \in Lanes |-> IF d.finish[k] = 0 THEN d.place[k] ELSE 1 + c(k)]
<1>1. \A k \in Lanes : c(k) \in Nat
  BY LanesFinite
<1>2. e = [d EXCEPT !.place = p]
  BY DEF Ranked
<1> HIDE DEF c
<1>3. p \in [Lanes -> Nat]
  BY <1>1 DEF Decs
<1> HIDE DEF p
<1>4. e \in Decs /\ SameHeat(e, d) /\ SameAside(e, d) /\ SameRest(e, d)
  BY <1>2, <1>3 DEF Decs, SameHeat, SameAside, SameRest
<1>5. e.time = d.time /\ e.running = d.running /\ e.splits = d.splits /\ e.place = p
  BY <1>2, <1>3 DEF Decs
<1> QED BY <1>4, <1>5 DEF p, c

\* A touch, before it is told an intermediate one from a finish.
Timing(d, m) ==
    [d EXCEPT !.time[m.lane] = m.time, !.splits[m.lane] = m.touches * SplitStep,
              !.place[m.lane] = IF m.rank # 0 THEN m.rank ELSE @]

\* What a touch of the ALGE leaves.
Clocked(e, d, l, x, n, r) ==
    /\ e.time[l] = x /\ e.splits[l] = n /\ (r # 0 => e.place[l] = r)
    /\ Others(e.time, d.time, l) /\ Others(e.splits, d.splits, l)

\* What the step changes, and what it leaves.
LEMMA TimingFields ==
    ASSUME NEW d \in Decs, NEW m \in AlgeTimes, NEW e, e = Timing(d, m)
    PROVE  /\ e \in Decs /\ SameHeat(e, d) /\ SameAside(e, d) /\ SameRest(e, d)
           /\ e.running = d.running /\ Clocked(e, d, m.lane, m.time, m.touches, m.rank)
           /\ Others(e.place, d.place, m.lane)
<1> DEFINE l == m.lane
           x == m.time
           n == m.touches
           r == m.rank
           t == [d.time EXCEPT ![l] = x]
           p == [d.place EXCEPT ![l] = IF r # 0 THEN r ELSE @]
           s == [d.splits EXCEPT ![l] = n * SplitStep]
           u == d.running
<1>1. l \in Lanes /\ x \in Nat /\ r \in Nat /\ n \in Nat
  BY DEF AlgeTimes
<1>2. e = Shown(d, t, p, s, u)
  <2>1. e = [d EXCEPT !.time = t, !.splits = s, !.place = p]
    BY DEF Timing
  <2> HIDE DEF t, p, s
  <2> QED BY <2>1 DEF Shown, Decs
<1> SUFFICES /\ e \in Decs /\ SameHeat(e, d) /\ SameAside(e, d) /\ SameRest(e, d)
             /\ e.running = u /\ Clocked(e, d, l, x, n, r) /\ Others(e.place, d.place, l)
  OBVIOUS
<1> HIDE DEF l, x, r, n
<1>3. n * SplitStep = n
  BY <1>1 DEF SplitStep
<1>4. /\ t \in [Lanes -> Nat] /\ p \in [Lanes -> Nat] /\ s \in [Lanes -> Nat]
      /\ u \in [Lanes -> BOOLEAN]
  BY <1>1, <1>3 DEF Decs
<1>5. /\ t[l] = x /\ s[l] = n /\ (r # 0 => p[l] = r)
      /\ Others(t, d.time, l) /\ Others(p, d.place, l) /\ Others(s, d.splits, l)
  BY <1>1, <1>3 DEF Decs, Others
<1> HIDE DEF t, p, s, u
<1>6. /\ e \in Decs /\ SameHeat(e, d) /\ SameAside(e, d) /\ SameRest(e, d)
      /\ e.time = t /\ e.place = p /\ e.splits = s /\ e.running = u
  BY <1>2, <1>4, ShownFields
<1> QED BY <1>5, <1>6 DEF Clocked

\* An intermediate time: the lane goes on.
LEMMA AlgeLapFields ==
    ASSUME NEW d \in Decs, NEW m \in AlgeTimes, m.t = "I", NEW e, e = AlgeTime(d, m)
    PROVE  /\ e \in Decs /\ SameHeat(e, d) /\ SameAside(e, d) /\ SameRest(e, d)
           /\ Clocked(e, d, m.lane, m.time, m.touches, m.rank)
           /\ Others(e.place, d.place, m.lane) /\ Others(e.running, d.running, m.lane)
           /\ e.running[m.lane] = (d.running[m.lane] \/ d.active)
<1> DEFINE y == Timing(d, m)
<1>1. /\ y \in Decs /\ SameHeat(y, d) /\ SameAside(y, d) /\ SameRest(y, d)
      /\ y.running = d.running /\ Clocked(y, d, m.lane, m.time, m.touches, m.rank)
      /\ Others(y.place, d.place, m.lane)
  BY TimingFields
<1>2. e = GoesAgain(y, m.lane)
  BY DEF AlgeTime, Timing
<1>3. m.lane \in Lanes
  BY DEF AlgeTimes
<1> HIDE DEF y
<1> DEFINE l == m.lane
<1> HIDE DEF l
<1>4. /\ e \in Decs /\ SameHeat(e, y) /\ SameAside(e, y) /\ SameRest(e, y)
      /\ e.time = y.time /\ e.place = y.place /\ e.splits = y.splits
      /\ \A k \in Lanes \ {l} : e.running[k] = y.running[k]
      /\ e.running[l] = (y.running[l] \/ y.active)
  BY <1>1, <1>2, <1>3, GoesAgainFields DEF l
<1>5. SameHeat(e, d) /\ SameAside(e, d) /\ SameRest(e, d)
  BY <1>1, <1>4 DEF SameHeat, SameAside, SameRest
<1>6. Clocked(e, d, m.lane, m.time, m.touches, m.rank)
  BY <1>1, <1>4 DEF Clocked
<1>7. Others(e.place, d.place, l) /\ Others(e.running, d.running, l)
  BY <1>1, <1>4 DEF Others, l
<1>8. e.running[l] = (d.running[l] \/ d.active)
  BY <1>1, <1>4 DEF SameRest
<1> QED BY <1>4, <1>5, <1>6, <1>7, <1>8 DEF l

SameTimes(e, d) ==
    /\ e.active = d.active /\ e.lengths = d.lengths /\ e.line = d.line /\ e.stop = d.stop
    /\ e.mods = d.mods

\* A finish: the lane has its time, and the lanes their places.
Finishes(e, d, l, x) ==
    /\ e.finish[l] = x /\ Others(e.finish, d.finish, l)
    /\ e.running[l] = FALSE /\ Others(e.running, d.running, l)

PlacedByTime(e) ==
    \A k \in Lanes : e.finish[k] # 0 =>
        e.place[k] = 1 + Cardinality({j \in Lanes : e.finish[j] # 0
                                                     /\ e.finish[j] < e.finish[k]})

\* What the step changes, and what it leaves.
LEMMA AlgeFinishFields ==
    ASSUME NEW d \in Decs, NEW m \in AlgeTimes, m.t = "F", NEW e, e = AlgeTime(d, m)
    PROVE  /\ e \in Decs /\ SameHeat(e, d) /\ SameAside(e, d) /\ SameTimes(e, d)
           /\ Clocked(e, d, m.lane, m.time, m.touches, m.rank)
           /\ Finishes(e, d, m.lane, m.time)
           /\ m.rank # 0 => Others(e.place, d.place, m.lane)
           /\ m.rank = 0 => PlacedByTime(e)
<1> DEFINE y == Timing(d, m)
<1>1. /\ y \in Decs /\ SameHeat(y, d) /\ SameAside(y, d) /\ SameRest(y, d)
      /\ y.running = d.running /\ Clocked(y, d, m.lane, m.time, m.touches, m.rank)
      /\ Others(y.place, d.place, m.lane)
  BY TimingFields
<1> DEFINE l == m.lane
           x == m.time
           u == [y.running EXCEPT ![l] = FALSE]
           w == [y.finish EXCEPT ![l] = x]
           z == [y EXCEPT !.running = u, !.finish = w]
<1>2. e = IF m.rank # 0 THEN z ELSE Ranked(z)
  BY DEF AlgeTime, Timing
<1>3. l \in Lanes /\ x \in Nat
  BY DEF AlgeTimes
<1> HIDE DEF y, l, x
<1>4. /\ u \in [Lanes -> BOOLEAN] /\ w \in [Lanes -> Nat]
      /\ u[l] = FALSE /\ w[l] = x /\ Others(u, y.running, l) /\ Others(w, y.finish, l)
  BY <1>1, <1>3 DEF Decs, Others
<1> HIDE DEF u, w
<1>5. /\ z \in Decs /\ SameHeat(z, y) /\ SameAside(z, y)
      /\ z.running = u /\ z.finish = w
  BY <1>1, <1>4 DEF Decs, SameHeat, SameAside
<1>6. z.time = y.time /\ z.place = y.place /\ z.splits = y.splits /\ SameTimes(z, y)
  BY <1>1, <1>4 DEF Decs, SameTimes
<1> HIDE DEF z
<1>7. /\ e \in Decs /\ SameHeat(e, z) /\ SameAside(e, z) /\ SameRest(e, z)
      /\ e.time = z.time /\ e.running = z.running /\ e.splits = z.splits
      /\ m.rank # 0 => e.place = z.place
      /\ m.rank = 0 => \A k \in Lanes :
           e.place[k] = IF z.finish[k] = 0 THEN z.place[k]
                        ELSE 1 + Cardinality({j \in Lanes : z.finish[j] # 0
                                                   /\ z.finish[j] < z.finish[k]})
  <2>1. CASE m.rank # 0
    BY <1>2, <1>5, <2>1 DEF SameHeat, SameAside, SameRest
  <2>2. CASE m.rank = 0
    <3>1. e = Ranked(z)
      BY <1>2, <2>2
    <3> QED BY <1>5, <2>2, <3>1, RankedFields
  <2> QED BY <2>1, <2>2
<1>8. SameHeat(e, d) /\ SameAside(e, d) /\ SameTimes(e, d)
  BY <1>1, <1>5, <1>6, <1>7 DEF SameHeat, SameAside, SameRest, SameTimes
<1>9. Clocked(e, d, m.lane, m.time, m.touches, m.rank)
  <2>1. e.time = y.time /\ e.splits = y.splits
    BY <1>6, <1>7
  <2>2. m.rank # 0 => e.place = y.place
    BY <1>6, <1>7
  <2> QED BY <1>1, <2>1, <2>2 DEF Clocked
<1>10. Finishes(e, d, l, x)
  <2>1. e.running = u /\ e.finish = w
    BY <1>5, <1>7 DEF SameRest
  <2>2. y.running = d.running /\ y.finish = d.finish
    BY <1>1 DEF SameRest
  <2> QED BY <1>4, <2>1, <2>2 DEF Finishes
<1>11. m.rank # 0 => Others(e.place, d.place, m.lane)
  BY <1>1, <1>6, <1>7
<1>12. m.rank = 0 => PlacedByTime(e)
  <2>1. e.finish = z.finish
    BY <1>7 DEF SameRest
  <2> QED BY <1>7, <2>1 DEF PlacedByTime
<1> QED BY <1>7, <1>8, <1>9, <1>10, <1>11, <1>12 DEF l, x

\* The touch the judges take back.
TakenBack(e, d, l) ==
    /\ e.time[l] = 0 /\ e.finish[l] = 0 /\ e.running[l] = (d.running[l] \/ d.active)
    /\ Others(e.time, d.time, l) /\ Others(e.finish, d.finish, l)
    /\ Others(e.running, d.running, l) /\ Others(e.place, d.place, l)

\* What the step changes, and what it leaves.
LEMMA AlgeClearFields ==
    ASSUME NEW d \in Decs, NEW l \in Lanes, NEW e,
           e = GoesAgain(Cleared([d EXCEPT !.finish[l] = 0], l), l)
    PROVE  /\ e \in Decs /\ SameHeat(e, d) /\ SameAside(e, d) /\ e.active = d.active
           /\ e.splits = d.splits /\ TakenBack(e, d, l)
<1> DEFINE w == [d.finish EXCEPT ![l] = 0]
           y == [d EXCEPT !.finish = w]
           z == Cleared(y, l)
<1>1. w \in [Lanes -> Nat] /\ w[l] = 0 /\ Others(w, d.finish, l)
  BY DEF Decs, Others
<1>2. e = GoesAgain(z, l)
  OBVIOUS
<1> HIDE DEF w
<1>3. y \in Decs /\ SameHeat(y, d) /\ SameAside(y, d) /\ SameShown(y, d)
  BY <1>1 DEF Decs, SameHeat, SameAside, SameShown
<1>4. y.finish = w /\ y.active = d.active
  BY <1>1 DEF Decs
<1> HIDE DEF y
<1>5. /\ z \in Decs /\ SameHeat(z, y) /\ SameAside(z, y) /\ SameRest(z, y)
      /\ z.running = y.running /\ z.splits = y.splits
      /\ z.time[l] = 0 /\ z.place[l] = 0
      /\ \A k \in Lanes \ {l} : z.time[k] = y.time[k] /\ z.place[k] = y.place[k]
  BY <1>3, ClearedFields
<1> HIDE DEF z
<1>6. /\ e \in Decs /\ SameHeat(e, z) /\ SameAside(e, z) /\ SameRest(e, z)
      /\ e.time = z.time /\ e.place = z.place /\ e.splits = z.splits
      /\ \A k \in Lanes \ {l} : e.running[k] = z.running[k]
      /\ e.running[l] = (z.running[l] \/ z.active)
  BY <1>2, <1>5, GoesAgainFields
<1>7. SameHeat(e, d) /\ SameAside(e, d)
  BY <1>3, <1>5, <1>6 DEF SameHeat, SameAside
<1>8. e.active = d.active /\ e.finish = w
  BY <1>4, <1>5, <1>6 DEF SameRest
<1>9. e.splits = d.splits /\ z.running = d.running
  BY <1>3, <1>5, <1>6 DEF SameShown
<1>10. e.running[l] = (d.running[l] \/ d.active)
  BY <1>4, <1>5, <1>6, <1>9 DEF SameRest
<1>11. /\ Others(e.time, d.time, l) /\ Others(e.place, d.place, l)
       /\ Others(e.running, d.running, l)
  BY <1>3, <1>5, <1>6, <1>9 DEF Others, SameShown
<1> QED BY <1>1, <1>5, <1>6, <1>7, <1>8, <1>9, <1>10, <1>11 DEF TakenBack

\* What an ALGE may send fits.
LEMMA AlgeFed ==
    ASSUME PoolInv, DecInv, pool.heat # 0, kind = "alge", NEW m, SayableBy(pool, m)
    PROVE  Fit(Fed(dec, m))
<1> DEFINE f == Fed(dec, m)
<1>1. dec \in Decs /\ f = FeedAlge(dec, m)
  BY FedIs DEF DecInv
<1>2. pool.heat \in Heats
  BY HeatsNat DEF PoolInv, Pools
<1>3. SUFFICES /\ f \in Decs /\ (f.heat = dec.heat \/ f.heat = pool.heat)
               /\ f.lanes = dec.lanes /\ f.half = dec.half /\ f.next = dec.next
  BY PlainFit
<1>4. CASE m = [t |-> "start"]
  <2>1. f = AlgeStart(dec)
    BY <1>1, <1>4 DEF FeedAlge
  <2> HIDE DEF f
  <2> QED BY <1>1, <2>1, AlgeStartFields DEF SameHeat, SameAside
<1>5. CASE m = At(pool, TRUE) \/ m = At(pool, FALSE)
  <2>1. m.t = "clock" /\ m.zero \in BOOLEAN /\ m.heat = pool.heat
    BY <1>5, ClockLine
  <2>2. f = AlgeClock(dec, m)
    BY <1>1, <2>1 DEF FeedAlge
  <2> HIDE DEF f
  <2> QED BY <1>1, <1>2, <2>1, <2>2, AlgeClockFields
<1>6. CASE m \in [t : {"C"}, lane : Lanes]
  <2>1. f = GoesAgain(Cleared([dec EXCEPT !.finish[m.lane] = 0], m.lane), m.lane)
        /\ m.lane \in Lanes
    BY <1>1, <1>6 DEF FeedAlge
  <2> HIDE DEF f
  <2> DEFINE l == m.lane
  <2>2. l \in Lanes /\ f = GoesAgain(Cleared([dec EXCEPT !.finish[l] = 0], l), l)
    BY <2>1
  <2> HIDE DEF l
  <2> QED BY <1>1, <2>2, AlgeClearFields DEF SameHeat, SameAside
<1>7. CASE m \in AlgeTimes
  <2>1. f = AlgeTime(dec, m) /\ m.t \in {"I", "F"}
    BY <1>1, <1>7 DEF FeedAlge, AlgeTimes
  <2> HIDE DEF f
  <2> QED BY <1>1, <1>7, <2>1, AlgeLapFields, AlgeFinishFields DEF SameHeat, SameAside
<1> QED BY <1>4, <1>5, <1>6, <1>7, AlgeSays

\* What an ALGE has heard once the race is on.
LEMMA AlgeRaceHears ==
    ASSUME NEW p, NEW w, NEW d, p.phase # "ready"
    PROVE  AlgeHears(p, w, d) <=>
               /\ d.heat = p.heat /\ Going(p, d)
               /\ \/ AlgeStartHeard(p, w, d)
                  \/ d.active /\ w \in {<<>>, <<At(p, FALSE)>>} /\ AlgeLanes(p, d)
                  \/ d.active /\ \E l \in Swim(p) : AlgeTouchHeard(p, w, d, l)
                  \/ d.active /\ \E l \in Swim(p) : AlgeClearHeard(p, w, d, l)
  BY DEF AlgeHears

\* What an ALGE has heard before the start.
LEMMA AlgeReadyHears ==
    ASSUME NEW p, NEW w, NEW d, p.phase = "ready"
    PROVE  AlgeHears(p, w, d) <=>
               \/ w = <<At(p, TRUE)>> /\ (d.heat # p.heat \/ AlgeReady(p, d))
               \/ w = <<>> /\ ~d.active /\ AlgeReady(p, d)
  BY DEF AlgeHears

\* What is heard does not depend on what is not shown.
LEMMA AlgeKept ==
    ASSUME NEW d, NEW e, e.heat = d.heat, SameShown(e, d), e.finish = d.finish
    PROVE  /\ AlgeReady(pool, d) => AlgeReady(pool, e)
           /\ \A l \in Lanes : AlgeLane(pool, d, l) => AlgeLane(pool, e, l)
           /\ AlgeLanes(pool, d) => AlgeLanes(pool, e)
  BY DEF AlgeReady, AlgeLane, AlgeLanes, SameShown, IsRank

\* A lane the message says nothing of.
LEMMA AlgeOther ==
    ASSUME NEW d, NEW e, NEW k, AlgeLane(pool, d, k), e.running[k] = d.running[k],
           e.time[k] = d.time[k], e.finish[k] = d.finish[k], e.splits[k] = d.splits[k],
           full => e.place[k] = d.place[k]
    PROVE  AlgeLane(pool, e, k)
  BY DEF AlgeLane, IsRank

\* The zero clock of a heat made ready.
LEMMA AlgeReadyRead ==
    ASSUME PoolInv, DecInv, kind = "alge", pool.heat # 0,
           dec.heat # pool.heat \/ AlgeReady(pool, dec),
           NEW m, m.zero, m.heat = pool.heat, NEW f, f = AlgeClock(dec, m)
    PROVE  ~f.active /\ AlgeReady(pool, f)
<1>1. dec \in Decs /\ pool.heat \in Heats
  BY HeatsNat DEF DecInv, PoolInv, Pools
<1>2. /\ f \in Decs /\ f.heat = pool.heat /\ ~f.active
      /\ pool.heat = dec.heat => SameShown(f, dec) /\ f.finish = dec.finish
      /\ pool.heat # dec.heat => Darkened(f) /\ f.finish = None
  BY <1>1, AlgeZeroFields
<1>3. CASE pool.heat = dec.heat
  BY <1>2, <1>3, AlgeKept
<1>4. CASE pool.heat # dec.heat
  <2>1. \A l \in Lanes : ~f.running[l] /\ f.finish[l] = 0
    BY <1>2, <1>4, DarkCounted DEF None
  <2> QED BY <1>2, <2>1 DEF AlgeReady
<1> QED BY <1>2, <1>3, <1>4

\* The start.
LEMMA AlgeStartRead ==
    ASSUME PoolInv, DecInv, kind = "alge", known, pool.heat # 0, dec.heat = pool.heat,
           ~dec.active, AlgeReady(pool, dec), \A l \in Lanes : pool.legs[l] = 0,
           NEW f, f = AlgeStart(dec)
    PROVE  /\ f.heat = dec.heat /\ f.active /\ AlgeLanes(pool, f)
           /\ \E l \in Lanes : Swims(pool, l)
<1>1. dec \in Decs
  BY DEF DecInv
<1>2. /\ f \in Decs /\ SameHeat(f, dec) /\ f.active
      /\ \A l \in Lanes : f.time[l] = 0 /\ f.finish[l] = 0
      /\ \A l \in Lanes : f.running[l] => dec.running[l] \/ l \in LanesToStart(dec)
      /\ \A l \in LanesToStart(dec) \cap Lanes : f.running[l]
  <2>1. \A l \in Lanes : dec.finish[l] # 0 => dec.time[l] # 0
    BY DEF AlgeReady
  <2> QED BY <1>1, <2>1, AlgeStartFields
<1>3. LanesToStart(dec) = Swim(pool)
  BY StartsSwimmers
<1>4. \A l \in Lanes : f.running[l] = (l \in Swim(pool))
  <2> SUFFICES ASSUME NEW l \in Lanes PROVE f.running[l] = (l \in Swim(pool))
    OBVIOUS
  <2>1. f.running[l] \in BOOLEAN
    BY <1>2 DEF Decs
  <2>2. f.running[l] => l \in Swim(pool)
    BY <1>2, <1>3 DEF AlgeReady
  <2>3. l \in Swim(pool) => f.running[l]
    BY <1>2, <1>3
  <2> QED BY <2>1, <2>2, <2>3
<1>5. pool.out = {}
  BY NobodyAtWall DEF CTS, Swiss
<1>6. /\ \A l \in Lanes : /\ pool.mark[l] = 0 /\ pool.legs[l] # Legs
                          /\ Swims(pool, l) = (l \in Swim(pool))
      /\ \E l \in Lanes : Swims(pool, l)
  BY <1>5, NobodyTouched
<1>7. \A l \in Lanes : AlgeLane(pool, f, l) /\ IsRank(pool, f, l)
  BY <1>2, <1>4, <1>6 DEF AlgeLane, IsRank
<1> QED BY <1>2, <1>6, <1>7 DEF AlgeLanes, SameHeat

\* Places by time are the ranks of the lanes that have finished.
LEMMA AlgeRanks ==
    ASSUME PoolInv, kind = "alge", NEW f, PlacedByTime(f),
           \A k \in Lanes : f.finish[k] = IF pool.legs[k] = Legs THEN pool.mark[k] ELSE 0
    PROVE  \A k \in Lanes : IsRank(pool, f, k)
<1> SUFFICES ASSUME NEW k \in Lanes, pool.legs[k] = Legs
             PROVE  f.place[k] = RankIn(pool, k)
  BY DEF IsRank
<1>1. /\ \A j \in Lanes : pool.legs[j] \in Nat /\ pool.legs[j] <= Legs /\ pool.mark[j] \in Nat
      /\ Legs \in Nat /\ pool.out = {}
  BY NobodyAtWall, ConsoleAssumption DEF CTS, Swiss, PoolInv, Pools
<1>2. \A j \in Lanes : pool.legs[j] = Legs => pool.mark[j] # 0
  BY DEF PoolInv
<1>3. f.finish[k] = pool.mark[k] /\ f.finish[k] # 0
  BY <1>2
<1> DEFINE S == {j \in Lanes : f.finish[j] # 0 /\ f.finish[j] < f.finish[k]}
           T == {j \in Lanes \ {k} : pool.legs[j] >= pool.legs[k] /\ j \notin pool.out
                                     /\ (pool.legs[j] = pool.legs[k]
                                           => pool.mark[j] < pool.mark[k])}
<1>4. \A j \in Lanes : j \in S <=> j \in T
  <2> SUFFICES ASSUME NEW j \in Lanes PROVE j \in S <=> j \in T
    OBVIOUS
  <2>1. CASE pool.legs[j] = Legs
    <3>1. f.finish[j] = pool.mark[j] /\ f.finish[j] # 0 /\ pool.legs[j] >= pool.legs[k]
      BY <1>1, <1>2, <2>1
    <3>2. pool.mark[j] < pool.mark[k] => j # k
      BY <1>1
    <3> QED BY <1>1, <1>3, <2>1, <3>1, <3>2
  <2>2. CASE pool.legs[j] # Legs
    <3>1. f.finish[j] = 0
      BY <2>2
    <3>2. ~(pool.legs[j] >= pool.legs[k])
      BY <1>1, <2>2
    <3> QED BY <3>1, <3>2
  <2> QED BY <2>1, <2>2
<1>5. S = T
  BY <1>4
<1>6. RankIn(pool, k) = 1 + Cardinality(T)
  BY DEF RankIn
<1>7. f.place[k] = 1 + Cardinality(S)
  BY <1>3 DEF PlacedByTime
<1> QED BY <1>5, <1>6, <1>7

\* The line of a touch.
LEMMA AlgeTouchIs ==
    ASSUME PoolInv, kind = "alge", full \in BOOLEAN, NEW l \in Lanes, NEW m, m = AlgeTouch(pool, l)
    PROVE  /\ m \in AlgeTimes /\ m.lane = l /\ m.time = pool.mark[l] /\ m.touches = pool.legs[l]
           /\ m.t = (IF pool.legs[l] = Legs THEN "F" ELSE "I")
           /\ full => m.rank = RankIn(pool, l) /\ m.rank # 0
           /\ ~full => m.rank = 0
<1> DEFINE r == RankIn(pool, l)
           x == pool.mark[l]
           n == pool.legs[l]
           q == IF full THEN r ELSE 0
           k == IF n = Legs THEN "F" ELSE "I"
<1>1. r \in Nat /\ r # 0 /\ x \in Nat /\ n \in Nat /\ q \in Nat /\ k \in {"I", "F"}
  BY RankType, LanesFinite, ConsoleAssumption DEF PoolInv, Pools
<1>2. m = [t |-> k, lane |-> l, time |-> x, touches |-> n, rank |-> q]
  BY DEF AlgeTouch
<1>3. (full => q = r) /\ (~full => q = 0)
  OBVIOUS
<1> HIDE DEF r, x, n, q, k
<1>4. /\ m \in AlgeTimes /\ m.lane = l /\ m.time = x /\ m.touches = n /\ m.t = k /\ m.rank = q
  BY <1>1, <1>2 DEF AlgeTimes
<1> QED BY <1>1, <1>3, <1>4 DEF r, x, n, k

\* A touch read.
LEMMA AlgeTouchRead ==
    ASSUME PoolInv, DecInv, kind = "alge", full \in BOOLEAN, pool.heat # 0, dec.active,
           NEW l \in Lanes, l \in Swim(pool), NEW w, AlgeTouchHeard(pool, w, dec, l),
           NEW f, f = AlgeTime(dec, AlgeTouch(pool, l))
    PROVE  f.heat = dec.heat /\ f.active /\ f.reset = dec.reset /\ AlgeLanes(pool, f)
<1> DEFINE m == AlgeTouch(pool, l)
           x == pool.mark[l]
           n == pool.legs[l]
           r == m.rank
<1>1. /\ m \in AlgeTimes /\ m.lane = l /\ m.time = x /\ m.touches = n
      /\ m.t = (IF pool.legs[l] = Legs THEN "F" ELSE "I")
      /\ full => r = RankIn(pool, l) /\ r # 0
      /\ ~full => r = 0
  BY AlgeTouchIs
<1>2. dec \in Decs /\ f = AlgeTime(dec, m)
  BY DEF DecInv
<1> HIDE DEF m
<1>3. /\ \A k \in Lanes \ {l} : AlgeLane(pool, dec, k)
      /\ ~dec.reset /\ n > 0 /\ dec.running[l] /\ dec.finish[l] = 0
  BY DEF AlgeTouchHeard
<1>4. /\ n \in Nat /\ n <= Legs /\ Legs \in Nat
      /\ n # Legs => Swims(pool, l) = TRUE
      /\ n = Legs => Swims(pool, l) = FALSE
  <2>1. n \in 0..Legs /\ Legs \in Nat
    BY ConsoleAssumption DEF PoolInv, Pools
  <2>2. pool.out = {} /\ pool.wall[l] = 0
    BY NobodyAtWall DEF CTS, Swiss
  <2>3. n # Legs => pool.legs[l] < Legs
    BY <2>1
  <2>4. n = Legs => ~(pool.legs[l] < Legs)
    BY <2>1
  <2>5. n # Legs => Swims(pool, l) = TRUE
    BY <2>2, <2>3 DEF Swims
  <2>6. n = Legs => Swims(pool, l) = FALSE
    BY <2>4 DEF Swims
  <2> QED BY <2>1, <2>5, <2>6
<1> HIDE DEF x, n, r
<1>5. CASE n # Legs
  <2>1. m.t = "I" /\ Swims(pool, l) = TRUE
    <3>1. pool.legs[l] # Legs
      BY <1>5 DEF n
    <3> QED BY <1>1, <1>4, <1>5, <3>1
  <2>2. /\ f \in Decs /\ SameHeat(f, dec) /\ SameRest(f, dec)
        /\ Clocked(f, dec, l, x, n, r)
        /\ Others(f.place, dec.place, l) /\ Others(f.running, dec.running, l)
        /\ f.running[l] = (dec.running[l] \/ dec.active)
    BY <1>1, <1>2, <2>1, AlgeLapFields DEF r
  <2>3. AlgeLane(pool, f, l)
    <3>1. f.time[l] = x /\ f.running[l] = TRUE /\ f.finish[l] = 0
      BY <1>3, <2>2 DEF Clocked, SameRest
    <3>2. full => f.place[l] = RankIn(pool, l)
      BY <1>1, <2>2 DEF Clocked
    <3> QED BY <1>5, <2>1, <3>1, <3>2 DEF AlgeLane, IsRank, x, n
  <2>4. \A k \in Lanes \ {l} : AlgeLane(pool, f, k)
    <3> SUFFICES ASSUME NEW k \in Lanes \ {l} PROVE AlgeLane(pool, f, k)
      OBVIOUS
    <3>1. /\ f.running[k] = dec.running[k] /\ f.time[k] = dec.time[k]
          /\ f.splits[k] = dec.splits[k] /\ f.place[k] = dec.place[k]
          /\ f.finish[k] = dec.finish[k]
      BY <2>2 DEF Others, Clocked, SameRest
    <3> QED BY <1>3, <3>1, AlgeOther
  <2>5. ~\A k \in Swim(pool) : pool.legs[k] = Legs
    BY <1>5 DEF n
  <2>6. \A k \in Lanes : AlgeLane(pool, f, k)
    BY <2>3, <2>4
  <2> QED BY <2>2, <2>5, <2>6 DEF AlgeLanes, SameHeat, SameRest
<1>6. CASE n = Legs
  <2>1. m.t = "F" /\ Swims(pool, l) = FALSE
    <3>1. pool.legs[l] = Legs
      BY <1>6 DEF n
    <3> QED BY <1>1, <1>4, <1>6, <3>1
  <2>2. /\ f \in Decs /\ SameHeat(f, dec) /\ SameTimes(f, dec)
        /\ Clocked(f, dec, l, x, n, r) /\ Finishes(f, dec, l, x)
        /\ r # 0 => Others(f.place, dec.place, l)
        /\ r = 0 => PlacedByTime(f)
    BY <1>1, <1>2, <2>1, AlgeFinishFields DEF r
  <2>3. /\ f.time[l] = x /\ f.running[l] = FALSE /\ f.finish[l] = x /\ f.splits[l] = Legs
        /\ full => f.place[l] = RankIn(pool, l)
    BY <1>1, <1>6, <2>2 DEF Clocked, Finishes
  <2>4. AlgeLane(pool, f, l)
    BY <1>6, <2>1, <2>3 DEF AlgeLane, IsRank, x, n
  <2>5. \A k \in Lanes \ {l} : AlgeLane(pool, f, k)
    <3> SUFFICES ASSUME NEW k \in Lanes \ {l} PROVE AlgeLane(pool, f, k)
      OBVIOUS
    <3>1. /\ f.running[k] = dec.running[k] /\ f.time[k] = dec.time[k]
          /\ f.splits[k] = dec.splits[k] /\ f.finish[k] = dec.finish[k]
          /\ full => f.place[k] = dec.place[k]
      BY <1>1, <2>2 DEF Others, Clocked, Finishes
    <3> QED BY <1>3, <3>1, AlgeOther
  <2>6. \A k \in Lanes : AlgeLane(pool, f, k)
    BY <2>4, <2>5
  <2>7. \A k \in Lanes : IsRank(pool, f, k)
    <3>1. CASE full
      BY <2>6, <3>1 DEF AlgeLane
    <3>2. CASE ~full
      <4>1. PlacedByTime(f)
        BY <1>1, <2>2, <3>2
      <4>2. \A k \in Lanes : f.finish[k] = IF pool.legs[k] = Legs THEN pool.mark[k] ELSE 0
        BY <2>6 DEF AlgeLane
      <4> QED BY <4>1, <4>2, AlgeRanks
    <3> QED BY <3>1, <3>2
  <2> QED BY <2>2, <2>6, <2>7 DEF AlgeLanes, SameHeat, SameTimes
<1> QED BY <1>5, <1>6

\* A touch taken back, read.
LEMMA AlgeClearRead ==
    ASSUME PoolInv, DecInv, kind = "alge", pool.heat # 0, dec.active,
           NEW l \in Lanes, l \in Swim(pool), NEW w, AlgeClearHeard(pool, w, dec, l),
           NEW f, f = GoesAgain(Cleared([dec EXCEPT !.finish[l] = 0], l), l)
    PROVE  f.heat = dec.heat /\ f.active /\ AlgeLanes(pool, f)
<1>1. dec \in Decs
  BY DEF DecInv
<1>2. /\ f \in Decs /\ SameHeat(f, dec) /\ f.active = dec.active
      /\ f.splits = dec.splits /\ TakenBack(f, dec, l)
  BY <1>1, AlgeClearFields
<1>3. /\ \A k \in Lanes \ {l} : AlgeLane(pool, dec, k)
      /\ pool.mark[l] = 0 /\ pool.legs[l] < Legs /\ ~full
  BY DEF AlgeClearHeard
<1>4. pool.legs[l] # Legs /\ Swims(pool, l) = TRUE
  <2>1. pool.out = {} /\ pool.wall[l] = 0
    BY NobodyAtWall DEF CTS, Swiss
  <2>2. pool.legs[l] \in Nat /\ Legs \in Nat
    BY ConsoleAssumption DEF PoolInv, Pools
  <2>3. pool.legs[l] # Legs
    BY <1>3, <2>2
  <2>4. Swims(pool, l) = TRUE
    BY <1>3, <2>1 DEF Swims
  <2> QED BY <2>3, <2>4
<1>5. AlgeLane(pool, f, l)
  <2>1. f.time[l] = 0 /\ f.finish[l] = 0 /\ f.running[l] = TRUE
    BY <1>2 DEF TakenBack
  <2> QED BY <1>3, <1>4, <2>1 DEF AlgeLane, IsRank
<1>6. \A k \in Lanes \ {l} : AlgeLane(pool, f, k)
  <2> SUFFICES ASSUME NEW k \in Lanes \ {l} PROVE AlgeLane(pool, f, k)
    OBVIOUS
  <2>1. /\ f.running[k] = dec.running[k] /\ f.time[k] = dec.time[k]
        /\ f.splits[k] = dec.splits[k] /\ f.place[k] = dec.place[k]
        /\ f.finish[k] = dec.finish[k]
    BY <1>2 DEF Others, TakenBack
  <2> QED BY <1>3, <2>1, AlgeOther
<1>7. \A k \in Lanes : AlgeLane(pool, f, k)
  BY <1>5, <1>6
<1> QED BY <1>2, <1>4, <1>7 DEF AlgeLanes, SameHeat

\* A wire with a message is not empty.
LEMMA AlgeWires ==
    ASSUME NEW p, NEW l
    PROVE  /\ <<[t |-> "start"], At(p, FALSE)>> # <<>>
           /\ <<AlgeTouch(p, l)>> # <<>> /\ <<[t |-> "C", lane |-> l]>> # <<>>
  OBVIOUS

\* A message of an ALGE, delivered.
LEMMA AlgeDeliver ==
    ASSUME PoolInv, DecInv, WireInv, kind = "alge", known, pool.heat # 0,
           AlgeHears(pool, wire, dec), Deliver
    PROVE  AlgeHears(pool, wire', dec')
<1> DEFINE m == Head(wire)
           f == Fed(dec, m)
<1>1. wire # <<>> /\ wire' = Tail(wire) /\ dec' = Apply(f) /\ UNCHANGED <<kind, known, pool>>
  BY DEF Deliver, Quiet
<1>2. SayableBy(pool, m)
  BY <1>1, HeadHeard
<1>3. Fit(f)
  BY <1>2, AlgeFed
<1>4. /\ dec'.heat = f.heat /\ SameAside(dec', f) /\ SameShown(dec', f) /\ SameRest(dec', f)
      /\ dec'.reset = (~Finished(f) /\ (f.reset \/ Finished(dec)))
  BY <1>1, <1>3, DecKept
<1>5. f = FeedAlge(dec, m) /\ dec \in Decs /\ pool.heat \in Heats /\ full \in BOOLEAN
  BY FedIs, HeatsNat DEF DecInv, PoolInv, Pools, WireInv
<1>6. dec'.active = f.active /\ dec'.finish = f.finish
  BY <1>4 DEF SameRest
<1> HIDE DEF f
<1>7. CASE pool.phase = "ready"
  <2>1. wire = <<At(pool, TRUE)>> /\ (dec.heat # pool.heat \/ AlgeReady(pool, dec))
    BY <1>1, <1>7, AlgeReadyHears
  <2>2. m = At(pool, TRUE) /\ wire' = <<>>
    BY <1>1, <2>1
  <2>3. m.t = "clock" /\ m.zero /\ m.heat = pool.heat
    BY <2>2, ClockLine
  <2>4. f = AlgeClock(dec, m)
    BY <1>5, <2>3 DEF FeedAlge
  <2> HIDE DEF m
  <2>5. ~f.active /\ AlgeReady(pool, f)
    BY <2>1, <2>3, <2>4, AlgeReadyRead
  <2>6. ~dec'.active /\ AlgeReady(pool, dec')
    BY <1>4, <1>6, <2>5, AlgeKept
  <2> QED BY <1>7, <2>2, <2>6, AlgeReadyHears
<1>8. CASE pool.phase # "ready"
  <2>1. /\ dec.heat = pool.heat /\ Going(pool, dec)
        /\ \/ AlgeStartHeard(pool, wire, dec)
           \/ dec.active /\ wire \in {<<>>, <<At(pool, FALSE)>>} /\ AlgeLanes(pool, dec)
           \/ dec.active /\ \E l \in Swim(pool) : AlgeTouchHeard(pool, wire, dec, l)
           \/ dec.active /\ \E l \in Swim(pool) : AlgeClearHeard(pool, wire, dec, l)
    BY <1>8, AlgeRaceHears
  <2>2. SUFFICES /\ f.heat = pool.heat /\ f.active /\ AlgeLanes(pool, f)
                 /\ wire' \in {<<>>, <<At(pool, FALSE)>>} /\ Going(pool, dec')
    <3>1. ASSUME AlgeLanes(pool, f) PROVE AlgeLanes(pool, dec')
      BY <1>4, <1>6, <3>1, AlgeKept
    <3> QED BY <1>4, <1>6, <1>8, <3>1, AlgeRaceHears
  <2>3. CASE AlgeStartHeard(pool, wire, dec)
    <3>1. wire = <<[t |-> "start"], At(pool, FALSE)>>
      BY <2>3 DEF AlgeStartHeard
    <3> DEFINE a == [t |-> "start"]
               b == At(pool, FALSE)
    <3>5. wire = <<a, b>>
      BY <3>1
    <3> HIDE DEF a, b
    <3>6. m = a /\ wire' = <<b>>
      BY <1>1, <3>5
    <3>2. m = [t |-> "start"] /\ wire' = <<At(pool, FALSE)>>
      BY <3>6 DEF a, b
    <3>3. f = AlgeStart(dec)
      BY <1>5, <3>2 DEF FeedAlge
    <3>4. /\ f.heat = dec.heat /\ f.active /\ AlgeLanes(pool, f)
          /\ \E l \in Lanes : Swims(pool, l)
      BY <2>1, <2>3, <3>3, AlgeStartRead DEF AlgeStartHeard
    <3> QED BY <2>1, <3>2, <3>4 DEF Going
  <2>4. CASE dec.active /\ wire \in {<<>>, <<At(pool, FALSE)>>} /\ AlgeLanes(pool, dec)
    <3> DEFINE b == At(pool, FALSE)
    <3>6. wire = <<b>>
      BY <1>1, <2>4
    <3> HIDE DEF b
    <3>7. m = b /\ wire' = <<>>
      BY <1>1, <3>6
    <3>1. m = At(pool, FALSE) /\ wire' = <<>>
      BY <3>7 DEF b
    <3>2. m.t = "clock" /\ m.zero = FALSE /\ m.heat = pool.heat
      BY <3>1, ClockLine
    <3>3. f = AlgeClock(dec, m)
      BY <1>5, <3>2 DEF FeedAlge
    <3>4. f = dec
      BY <1>5, <2>1, <2>4, <3>2, <3>3 DEF AlgeClock, NewHeat
    <3>5. dec'.reset => dec.reset
      BY <1>4, <3>4
    <3> QED BY <2>1, <2>4, <3>1, <3>4, <3>5 DEF Going
  <2>5. ASSUME dec.active, NEW l \in Swim(pool), AlgeTouchHeard(pool, wire, dec, l)
        PROVE  /\ f.heat = pool.heat /\ f.active /\ AlgeLanes(pool, f)
               /\ wire' \in {<<>>, <<At(pool, FALSE)>>} /\ Going(pool, dec')
    <3>1. l \in Lanes /\ wire = <<AlgeTouch(pool, l)>>
      BY <2>5, InHeatIs DEF AlgeTouchHeard
    <3>2. m = AlgeTouch(pool, l) /\ wire' = <<>>
      BY <1>1, <3>1
    <3>3. m \in AlgeTimes /\ m.t \in {"F", "I"}
      BY <1>5, <3>1, <3>2, AlgeTouchIs DEF AlgeTimes
    <3>4. f = AlgeTime(dec, AlgeTouch(pool, l))
      BY <1>5, <3>2, <3>3 DEF FeedAlge
    <3>5. f.heat = dec.heat /\ f.active /\ f.reset = dec.reset /\ AlgeLanes(pool, f)
      BY <1>5, <2>5, <3>1, <3>4, AlgeTouchRead
    <3>6. ~Finished(dec) /\ ~dec.reset
      BY <2>5, <3>1 DEF AlgeTouchHeard, Finished
    <3>7. ~dec'.reset
      BY <1>4, <3>5, <3>6
    <3> QED BY <2>1, <3>2, <3>5, <3>7 DEF Going
  <2>6. ASSUME dec.active, NEW l \in Swim(pool), AlgeClearHeard(pool, wire, dec, l)
        PROVE  /\ f.heat = pool.heat /\ f.active /\ AlgeLanes(pool, f)
               /\ wire' \in {<<>>, <<At(pool, FALSE)>>} /\ Going(pool, dec')
    <3>1. l \in Lanes /\ wire = <<[t |-> "C", lane |-> l]>> /\ pool.legs[l] < Legs
      BY <2>6, InHeatIs DEF AlgeClearHeard
    <3>2. m.t = "C" /\ m.lane = l /\ wire' = <<>>
      BY <1>1, <3>1
    <3>3. f = GoesAgain(Cleared([dec EXCEPT !.finish[l] = 0], l), l)
      BY <1>5, <3>2 DEF FeedAlge
    <3>4. f.heat = dec.heat /\ f.active /\ AlgeLanes(pool, f)
      BY <2>6, <3>1, <3>3, AlgeClearRead
    <3>5. Swims(pool, l)
      BY <3>1, NobodyAtWall DEF CTS, Swiss, Swims
    <3> QED BY <2>1, <3>1, <3>2, <3>4, <3>5 DEF Going
  <2> QED BY <2>1, <2>3, <2>4, <2>5, <2>6
<1> QED BY <1>7, <1>8

\* Nothing is on the wire in a race: every lane is heard.
LEMMA AlgeRaceHeard ==
    ASSUME wire = <<>>, pool.phase # "ready", AlgeHears(pool, wire, dec)
    PROVE  dec.heat = pool.heat /\ Going(pool, dec) /\ dec.active /\ AlgeLanes(pool, dec)
<1>1. ~AlgeStartHeard(pool, wire, dec)
  BY DEF AlgeStartHeard
<1>2. ~\E l \in Swim(pool) : AlgeTouchHeard(pool, wire, dec, l)
  BY DEF AlgeTouchHeard
<1>3. ~\E l \in Swim(pool) : AlgeClearHeard(pool, wire, dec, l)
  BY DEF AlgeClearHeard
<1> QED BY <1>1, <1>2, <1>3, AlgeRaceHears

\* The decoder of an ALGE alone, with nothing on the wire.
LEMMA AlgeIdle ==
    ASSUME PoolInv, DecInv, WireInv, kind = "alge", known, pool.heat # 0,
           AlgeHears(pool, wire, dec), Tick \/ BoardIsReset
    PROVE  AlgeHears(pool, wire', dec')
<1>1. wire = <<>> /\ wire' = <<>> /\ UNCHANGED <<kind, known, pool>>
  BY DEF Tick, BoardIsReset, Quiet, consoleVars
<1>2. dec \in Decs /\ pool.heat \in Heats
  BY HeatsNat DEF DecInv, PoolInv, Pools
<1> DEFINE m == [t |-> "clock", zero |-> pool.phase = "ready",
                 heat |-> pool.heat, soon |-> FALSE]
<1>3. m.t = "clock" /\ m.heat = pool.heat /\ m.zero = (pool.phase = "ready")
  OBVIOUS
<1>4. Tick => dec' = Apply(Fed(dec, m))
  BY DEF Tick
<1> HIDE DEF m
<1>5. Fed(dec, m) = AlgeClock(dec, m)
  BY <1>3, FedIs DEF FeedAlge
<1> DEFINE d == IF Finished(dec) \/ dec.running # Still THEN dec ELSE ResetLanes(dec)
<1>6. BoardIsReset => dec' = [d EXCEPT !.reset = FALSE]
  BY DEF BoardIsReset
<1>7. d = dec \/ d = ResetLanes(dec)
  OBVIOUS
<1>8. dec.running # Still => d = dec
  OBVIOUS
<1> HIDE DEF d
<1>9. CASE pool.phase = "ready"
  <2>1. ~dec.active /\ AlgeReady(pool, dec)
    <3>1. wire # <<At(pool, TRUE)>>
      BY <1>1
    <3> QED BY <1>9, <3>1, AlgeReadyHears
  <2>2. ASSUME Tick PROVE ~dec'.active /\ AlgeReady(pool, dec')
    <3> DEFINE f == AlgeClock(dec, m)
    <3>1. m.zero
      BY <1>3, <1>9
    <3>2. f = AlgeClock(dec, m)
      OBVIOUS
    <3> HIDE DEF f
    <3>3. f \in Decs /\ f.heat = pool.heat /\ f.lanes = dec.lanes /\ f.half = dec.half
          /\ f.next = dec.next
      BY <1>2, <1>3, <3>1, <3>2, AlgeZeroFields
    <3>4. Fit(f)
      BY <3>3, PlainFit
    <3>5. ~f.active /\ AlgeReady(pool, f)
      BY <1>3, <2>1, <3>1, <3>2, AlgeReadyRead
    <3>6. dec'.heat = f.heat /\ SameShown(dec', f) /\ SameRest(dec', f)
      BY <1>1, <1>4, <1>5, <2>2, <3>2, <3>4, DecKept
    <3> QED BY <3>5, <3>6, AlgeKept DEF SameRest
  <2>3. ASSUME BoardIsReset PROVE ~dec'.active /\ AlgeReady(pool, dec')
    <3>1. d \in Decs /\ ~d.active /\ AlgeReady(pool, d)
      <4>1. CASE d = dec
        BY <1>2, <2>1, <4>1
      <4>2. CASE d = ResetLanes(dec)
        <5>1. d \in Decs /\ ResetLeaves(d, dec) /\ d.heat = dec.heat
          BY <1>2, <4>2, ResetFields DEF AllKinds
        <5>2. ~d.active /\ \A l \in Lanes : ~d.running[l] /\ d.finish[l] = 0
          BY <5>1, DarkCounted DEF ResetLeaves, CTS, None
        <5> QED BY <2>1, <5>1, <5>2 DEF AlgeReady
      <4> QED BY <1>7, <4>1, <4>2
    <3>2. dec'.heat = d.heat /\ SameShown(dec', d) /\ dec'.active = d.active
          /\ dec'.finish = d.finish
      BY <1>6, <2>3, <3>1 DEF Decs, SameShown
    <3> QED BY <3>1, <3>2, AlgeKept
  <2> QED BY <1>1, <1>9, <2>2, <2>3, AlgeReadyHears
<1>10. CASE pool.phase # "ready"
  <2>1. dec.heat = pool.heat /\ Going(pool, dec) /\ dec.active /\ AlgeLanes(pool, dec)
    BY <1>1, <1>10, AlgeRaceHeard
  <2>2. /\ dec'.heat = dec.heat /\ SameShown(dec', dec) /\ dec'.active = dec.active
        /\ dec'.finish = dec.finish /\ (dec'.reset => dec.reset)
    <3>1. ASSUME Tick
          PROVE  /\ dec'.heat = dec.heat /\ SameShown(dec', dec) /\ dec'.active = dec.active
                 /\ dec'.finish = dec.finish /\ (dec'.reset => dec.reset)
      <4>1. m.zero = FALSE
        BY <1>3, <1>10
      <4>2. AlgeClock(dec, m) = dec
        BY <1>3, <2>1, <4>1 DEF AlgeClock, NewHeat
      <4>3. Fit(dec)
        BY <1>2, PlainFit
      <4>4. /\ dec'.heat = dec.heat /\ SameShown(dec', dec) /\ SameRest(dec', dec)
            /\ dec'.reset = (~Finished(dec) /\ (dec.reset \/ Finished(dec)))
        BY <1>1, <1>4, <1>5, <3>1, <4>2, <4>3, DecKept
      <4> QED BY <4>4 DEF SameRest
    <3>2. ASSUME BoardIsReset
          PROVE  /\ dec'.heat = dec.heat /\ SameShown(dec', dec) /\ dec'.active = dec.active
                 /\ dec'.finish = dec.finish /\ (dec'.reset => dec.reset)
      <4>1. PICK l \in Lanes : Swims(pool, l)
        BY <2>1, <3>2 DEF Going, BoardIsReset
      <4>2. dec.running[l]
        BY <2>1, <4>1 DEF AlgeLanes, AlgeLane
      <4>3. dec.running # Still
        BY <4>2 DEF Still
      <4>4. dec' = [dec EXCEPT !.reset = FALSE]
        BY <1>6, <1>8, <3>2, <4>3
      <4> QED BY <1>2, <4>4 DEF Decs, SameShown
    <3> QED BY <3>1, <3>2
  <2>3. AlgeLanes(pool, dec') /\ Going(pool, dec')
    BY <2>1, <2>2, AlgeKept DEF Going
  <2> QED BY <1>1, <1>10, <2>1, <2>2, <2>3, AlgeRaceHears
<1> QED BY <1>9, <1>10

\* A lane the console's step does not move.
LEMMA AlgeLaneMoved ==
    ASSUME NEW p, NEW q, NEW d, NEW k, AlgeLane(p, d, k), Swims(q, k) = Swims(p, k),
           q.legs[k] = p.legs[k], q.mark[k] = p.mark[k],
           full /\ p.legs[k] = Legs => RankIn(q, k) = RankIn(p, k)
    PROVE  AlgeLane(q, d, k)
  BY DEF AlgeLane, IsRank

\* Before the start, all heard.
LEMMA AlgeReadyHeard ==
    ASSUME wire = <<>>, pool.phase = "ready", AlgeHears(pool, wire, dec)
    PROVE  ~dec.active /\ AlgeReady(pool, dec)
<1> DEFINE w == <<At(pool, TRUE)>>
           d == dec
<1>1. w # <<>>
  OBVIOUS
<1>2. \/ wire = w /\ (d.heat # pool.heat \/ AlgeReady(pool, d))
      \/ ~d.active /\ AlgeReady(pool, d)
  BY AlgeReadyHears
<1> HIDE DEF w
<1> QED BY <1>1, <1>2

\* A heat made ready.
LEMMA AlgeReadySent ==
    ASSUME PoolInv, DecInv, WireInv, kind = "alge", wire = <<>>,
           UNCHANGED <<kind, full, known, dec>>, NextHeat \/ Reswim
    PROVE  /\ WireInv' /\ (NextHeat \/ (pool.heat # 0 /\ lost' = lost))
           /\ NextHeat \/ AlgeHears(pool, wire, dec) => AlgeHears(pool', wire', dec')
<1>1. pool'.phase = "ready" /\ pool'.heat \in Heats
  BY NextHeatPool, ReswimPool DEF Made
<1>2. wire' = <<At(pool', TRUE)>> /\ pool'.heat > 0
  <2>1. pool'.heat > 0
    BY <1>1, HeatsNat
  <2> QED BY <2>1 DEF NextHeat, Reswim, Send, Announces, Clock, At, RTD, Swiss, CTS
<1>3. /\ lost' = lost \/ lost' = [lost EXCEPT !.since = 0]
      /\ NextHeat \/ (pool.heat # 0 /\ lost' = lost)
  BY ReswimPool, HeatsNat DEF NextHeat, Reswim
<1>4. SayableBy(pool', At(pool', TRUE))
  BY AlgeSays
<1>5. wire' \in Seq(Msgs(wire')) /\ \A m \in Msgs(wire') : SayableBy(pool', m)
  BY <1>2, <1>4, OneSaid
<1>6. WireInv'
  BY <1>2, <1>3, <1>5, WireSent
<1>7. ASSUME NextHeat PROVE dec.heat # pool'.heat
  <2>1. dec.heat <= pool.heat /\ dec.heat \in Nat /\ pool.heat \in Nat
        /\ pool'.heat = pool.heat + 1
    BY <1>7, NextHeatPool, HeatsNat DEF DecInv, Decs
  <2> QED BY <2>1
<1>8. ASSUME Reswim, AlgeHears(pool, wire, dec) PROVE AlgeReady(pool', dec)
  <2>1. pool'.heat = pool.heat /\ Swim(pool') = Swim(pool) /\ pool.phase # "ready"
    BY <1>8, ReswimPool DEF Swim, Reswim
  <2>2. dec.heat = pool.heat /\ AlgeLanes(pool, dec)
    BY <1>8, <2>1, AlgeRaceHeard
  <2>3. \A l \in Lanes : /\ dec.running[l] => l \in Swim(pool)
                         /\ dec.finish[l] # 0 => dec.time[l] # 0
    BY <2>2 DEF AlgeLanes, AlgeLane, Swims
  <2> QED BY <2>1, <2>2, <2>3 DEF AlgeReady
<1> QED BY <1>1, <1>2, <1>3, <1>6, <1>7, <1>8, AlgeReadyHears

\* The start, sent.
LEMMA AlgeStartSent ==
    ASSUME PoolInv, DecInv, WireInv, kind = "alge", wire = <<>>, Settled,
           UNCHANGED <<kind, full, known, dec>>, Start
    PROVE  /\ WireInv' /\ pool.heat # 0 /\ lost' = lost
           /\ AlgeHears(pool, wire, dec) => AlgeHears(pool', wire', dec')
<1>1. /\ SameSwum(pool, pool') /\ pool'.phase = "racing" /\ pool.phase = "ready"
      /\ pool.heat # 0 /\ pool'.heat > 0 /\ lost' = lost
  BY StartPool, HeatsNat DEF PoolInv, Pools, SameSwum, Start
<1> DEFINE a == [t |-> "start"]
           b == At(pool', FALSE)
<1>2. wire' = <<a, b>>
  BY DEF Start, Send, Starts, Clock, At, RTD, Swiss
<1>3. SayableBy(pool', a) /\ SayableBy(pool', b)
  BY AlgeSays
<1>4. WireInv'
  <2> HIDE DEF a, b
  <2>1. wire' \in Seq(Msgs(wire'))
    BY <1>2, ShortIsSeq
  <2>2. Msgs(wire') = {a, b}
    BY <1>2, MsgsShort
  <2> QED BY <1>1, <1>3, <2>1, <2>2, WireSent
<1>5. ASSUME AlgeHears(pool, wire, dec) PROVE AlgeHears(pool', wire', dec')
  <2>1. ~dec.active /\ AlgeReady(pool, dec)
    BY <1>1, <1>5, AlgeReadyHeard
  <2>2. ~dec.reset
    BY <1>1 DEF Settled
  <2>3. AlgeReady(pool', dec) /\ \A l \in Lanes : pool'.legs[l] = 0
    BY <1>1, <2>1 DEF AlgeReady, SameSwum, Swim, PoolInv
  <2>4. AlgeStartHeard(pool', wire', dec)
    BY <1>2, <2>1, <2>2, <2>3 DEF AlgeStartHeard
  <2>5. dec.heat = pool'.heat /\ Going(pool', dec) /\ dec' = dec /\ pool'.phase # "ready"
    BY <1>1, <2>2, <2>3 DEF Going, AlgeReady
  <2> QED BY <2>4, <2>5, AlgeRaceHears
<1> QED BY <1>1, <1>4, <1>5

\* A touch, sent.
LEMMA AlgeTouchSent ==
    ASSUME PoolInv, DecInv, WireInv, kind = "alge", wire = <<>>, Settled, ~SlowReset,
           UNCHANGED <<kind, full, known, dec>>, NEW l \in Lanes, Touch(l), PoolInv'
    PROVE  /\ WireInv' /\ pool.heat # 0 /\ lost' = lost
           /\ AlgeHears(pool, wire, dec) => AlgeHears(pool', wire', dec')
<1>1. /\ pool' \in Pools /\ Touched(pool, pool', l) /\ pool.phase = "racing"
      /\ pool.heat # 0 /\ Swims(pool, l) /\ pool'.heat > 0 /\ lost' = lost
  <2>1. lost' = lost
    BY DEF Touch
  <2> QED BY <2>1, TouchMoves, HeatsNat DEF PoolInv, Pools, Touched
<1> DEFINE m == AlgeTouch(pool', l)
<1>2. wire' = <<m>>
  BY DEF Touch, Send, Touches, RTD, Swiss, AlgeTouch
<1>3. m \in AlgeTimes
  <2> DEFINE r == RankIn(pool', l)
             x == pool'.mark[l]
             n == pool'.legs[l]
             q == IF full THEN r ELSE 0
             k == IF n = Legs THEN "F" ELSE "I"
  <2>1. r \in Nat /\ x \in Nat /\ n \in Nat /\ q \in Nat /\ k \in {"I", "F"}
    BY <1>1, RankType, LanesFinite, ConsoleAssumption DEF Pools
  <2>2. m = [t |-> k, lane |-> l, time |-> x, touches |-> n, rank |-> q]
    BY DEF AlgeTouch
  <2> HIDE DEF r, x, n, q, k, m
  <2> QED BY <2>1, <2>2 DEF AlgeTimes
<1> HIDE DEF m
<1>4. WireInv'
  <2>1. SayableBy(pool', m)
    BY <1>3, AlgeSays
  <2>2. wire' \in Seq(Msgs(wire')) /\ \A n \in Msgs(wire') : SayableBy(pool', n)
    BY <1>2, <2>1, OneSaid
  <2> QED BY <1>1, <2>2, WireSent
<1>5. ASSUME AlgeHears(pool, wire, dec) PROVE AlgeHears(pool', wire', dec')
  <2>1. dec.heat = pool.heat /\ Going(pool, dec) /\ dec.active /\ AlgeLanes(pool, dec)
    BY <1>1, <1>5, AlgeRaceHeard
  <2>2. ~dec.reset
    BY <1>1 DEF Settled, Touched, PoolInv, Pools
  <2>3. /\ l \in Swim(pool) /\ pool.legs[l] < Legs /\ pool.legs[l] \in Nat /\ Legs \in Nat
        /\ pool'.legs[l] = pool.legs[l] + 1 /\ Swim(pool') = Swim(pool)
    BY <1>1, ConsoleAssumption DEF Touched, Swim, Swims, PoolInv, Pools
  <2>4. \A k \in Lanes \ {l} : AlgeLane(pool', dec, k)
    <3> SUFFICES ASSUME NEW k \in Lanes \ {l} PROVE AlgeLane(pool', dec, k)
      OBVIOUS
    <3>1. pool.legs[k] = Legs => RankIn(pool', k) = RankIn(pool, k)
      BY <1>1, <2>3, TouchRank
    <3>2. Swims(pool', k) = Swims(pool, k)
      BY <1>1 DEF Touched, Swims, Swim
    <3>3. pool'.legs[k] = pool.legs[k] /\ pool'.mark[k] = pool.mark[k]
      BY <1>1 DEF Touched
    <3>4. AlgeLane(pool, dec, k)
      BY <2>1 DEF AlgeLanes
    <3> QED BY <3>1, <3>2, <3>3, <3>4, AlgeLaneMoved
  <2>5. dec.running[l] /\ dec.finish[l] = 0
    <3>1. pool.legs[l] # Legs
      BY <2>3
    <3> QED BY <1>1, <2>1, <3>1 DEF AlgeLanes, AlgeLane
  <2>6. pool'.legs[l] > 0
    BY <2>3
  <2>7. AlgeTouchHeard(pool', wire', dec, l)
    BY <1>2, <2>2, <2>4, <2>5, <2>6 DEF AlgeTouchHeard, m
  <2>8. dec.heat = pool'.heat /\ Going(pool', dec) /\ dec' = dec /\ pool'.phase # "ready"
    BY <1>1, <2>1, <2>2, <2>3 DEF Going, Touched
  <2>9. \E k \in Swim(pool') : AlgeTouchHeard(pool', wire', dec, k)
    BY <2>3, <2>7
  <2>10. AlgeHears(pool', wire', dec)
    BY <2>1, <2>8, <2>9, AlgeRaceHears
  <2> QED BY <2>8, <2>10
<1> QED BY <1>1, <1>4, <1>5

\* A touch taken back, sent.
LEMMA AlgeClearSent ==
    ASSUME PoolInv, DecInv, WireInv, kind = "alge", wire = <<>>,
           UNCHANGED <<kind, full, known, dec>>, NEW l \in Lanes, Deletes(l), PoolInv'
    PROVE  /\ WireInv' /\ pool.heat # 0 /\ lost' = lost
           /\ AlgeHears(pool, wire, dec) => AlgeHears(pool', wire', dec')
<1>1. /\ TookBack(pool, pool', l) /\ pool.heat # 0 /\ pool.phase = "racing"
      /\ l \in Swim(pool) /\ pool.legs[l] \in 1..Legs /\ ~full
  BY DeletesPool
<1>2. lost' = lost /\ wire' = <<[t |-> "C", lane |-> l]>>
  BY DEF Deletes, Send
<1>3. pool'.heat = pool.heat /\ pool'.heat > 0 /\ pool'.phase = "racing"
  BY <1>1, HeatsNat DEF TookBack, PoolInv, Pools
<1> DEFINE m == [t |-> "C", lane |-> l]
<1>4. SayableBy(pool', m)
  <2>1. m \in [t : {"C"}, lane : Lanes]
    OBVIOUS
  <2> HIDE DEF m
  <2> QED BY <2>1, AlgeSays
<1>5. WireInv'
  <2>1. wire' = <<m>>
    BY <1>2
  <2> HIDE DEF m
  <2>2. wire' \in Seq(Msgs(wire')) /\ \A n \in Msgs(wire') : SayableBy(pool', n)
    BY <1>4, <2>1, OneSaid
  <2> QED BY <1>2, <1>3, <2>2, WireSent
<1>6. ASSUME AlgeHears(pool, wire, dec) PROVE AlgeHears(pool', wire', dec')
  <2>1. dec.heat = pool.heat /\ dec.active /\ AlgeLanes(pool, dec)
    BY <1>1, <1>6, AlgeRaceHeard
  <2>2. /\ pool'.legs[l] < Legs /\ pool'.mark[l] = 0 /\ Swim(pool') = Swim(pool)
    BY <1>1, ConsoleAssumption DEF TookBack, Swim
  <2>3. \A k \in Lanes \ {l} : AlgeLane(pool', dec, k)
    <3> SUFFICES ASSUME NEW k \in Lanes \ {l} PROVE AlgeLane(pool', dec, k)
      OBVIOUS
    <3>1. /\ Swims(pool', k) = Swims(pool, k) /\ pool'.legs[k] = pool.legs[k]
          /\ pool'.mark[k] = pool.mark[k]
      BY <1>1 DEF TookBack, Swims, Swim
    <3>2. AlgeLane(pool, dec, k)
      BY <2>1 DEF AlgeLanes
    <3> QED BY <1>1, <3>1, <3>2, AlgeLaneMoved
  <2>4. AlgeClearHeard(pool', wire', dec, l)
    BY <1>1, <1>2, <2>2, <2>3 DEF AlgeClearHeard
  <2>5. Swims(pool', l)
    <3>1. pool.out = {} /\ pool.wall[l] = 0
      BY NobodyAtWall DEF CTS, Swiss
    <3> QED BY <1>1, <2>2, <3>1 DEF Swims, TookBack
  <2>6. dec.heat = pool'.heat /\ Going(pool', dec) /\ dec' = dec /\ pool'.phase # "ready"
    BY <1>3, <2>1, <2>5 DEF Going
  <2>7. \E k \in Swim(pool') : AlgeClearHeard(pool', wire', dec, k)
    BY <1>1, <2>2, <2>4
  <2>8. AlgeHears(pool', wire', dec)
    BY <2>1, <2>6, <2>7, AlgeRaceHears
  <2> QED BY <2>6, <2>8
<1> QED BY <1>1, <1>2, <1>5, <1>6

\* The end of the race: an ALGE sends nothing.
LEMMA AlgeEndSent ==
    ASSUME PoolInv, DecInv, WireInv, kind = "alge", wire = <<>>,
           UNCHANGED <<kind, full, known, dec>>, End
    PROVE  /\ WireInv' /\ pool.heat # 0 /\ lost' = lost
           /\ AlgeHears(pool, wire, dec) => AlgeHears(pool', wire', dec')
<1>1. /\ SameSwum(pool, pool') /\ pool'.phase = "over" /\ pool.phase = "racing"
      /\ pool.heat # 0 /\ pool'.heat > 0 /\ lost' = lost /\ wire' = <<>>
  BY EndPool, HeatsNat DEF PoolInv, Pools, SameSwum, End, Send, Ends
<1>2. WireInv'
  BY <1>1, WireSent, MsgsShort
<1>3. ASSUME AlgeHears(pool, wire, dec) PROVE AlgeHears(pool', wire', dec')
  <2>1. dec.heat = pool.heat /\ Going(pool, dec) /\ dec.active /\ AlgeLanes(pool, dec)
    BY <1>1, <1>3, AlgeRaceHeard
  <2>2. /\ Swim(pool') = Swim(pool)
        /\ \A l \in Lanes : /\ Swims(pool', l) = Swims(pool, l)
                            /\ pool'.legs[l] = pool.legs[l] /\ pool'.mark[l] = pool.mark[l]
                            /\ RankIn(pool', l) = RankIn(pool, l)
    BY <1>1, SameSwumRank DEF SameSwum, Swims, Swim
  <2>3. \A l \in Lanes : AlgeLane(pool', dec, l)
    <3> SUFFICES ASSUME NEW l \in Lanes PROVE AlgeLane(pool', dec, l)
      OBVIOUS
    <3>1. AlgeLane(pool, dec, l)
      BY <2>1 DEF AlgeLanes
    <3> QED BY <2>2, <3>1, AlgeLaneMoved
  <2>4. (\A l \in Swim(pool') : pool'.legs[l] = Legs) => \A l \in Lanes : IsRank(pool', dec, l)
    <3>1. Swim(pool) \in SUBSET Lanes
      BY <1>1, InHeatIs
    <3> QED BY <2>1, <2>2, <3>1 DEF AlgeLanes, IsRank
  <2>5. AlgeLanes(pool', dec)
    BY <2>3, <2>4 DEF AlgeLanes
  <2>6. dec.heat = pool'.heat /\ Going(pool', dec) /\ dec' = dec /\ pool'.phase # "ready"
    BY <1>1, <2>1, <2>2 DEF Going, SameSwum
  <2>7. AlgeHears(pool', wire', dec)
    BY <1>1, <2>1, <2>5, <2>6, AlgeRaceHears
  <2> QED BY <2>6, <2>7
<1> QED BY <1>1, <1>2, <1>3

\* A step of an ALGE.
LEMMA AlgeConsole ==
    ASSUME PoolInv, PoolInv', DecInv, WireInv, ~SlowReset, ~PostsByPlace, kind = "alge",
           Console, pool.heat # 0 /\ lost.since = 0 /\ known => AlgeHears(pool, wire, dec)
    PROVE  /\ WireInv'
           /\ lost'.since = 0 /\ known => AlgeHears(pool', wire', dec')
<1>1. /\ wire = <<>> /\ UNCHANGED <<kind, full, known, dec>> /\ ConsoleStep /\ Settled
  BY DEF Console, ConsoleStep, NextHeat, Reswim, Start, End, PostByPlace, Touch, GoesOn,
         Flicker, GivesUp, Deletes, Quiet, Send
<1>2. CASE NextHeat \/ Reswim
  BY <1>1, <1>2, AlgeReadySent
<1>3. CASE Start
  BY <1>1, <1>3, AlgeStartSent
<1>4. CASE End
  BY <1>1, <1>4, AlgeEndSent
<1>5. ASSUME NEW l \in Lanes, Touch(l) \/ Deletes(l)
      PROVE  /\ WireInv'
             /\ lost'.since = 0 /\ known => AlgeHears(pool', wire', dec')
  <2>1. CASE Touch(l)
    BY <1>1, <2>1, AlgeTouchSent
  <2>2. CASE Deletes(l)
    BY <1>1, <2>2, AlgeClearSent
  <2> QED BY <1>5, <2>1, <2>2
<1> QED BY <1>1, <1>2, <1>3, <1>4, <1>5, GoesOnPool
        DEF ConsoleStep, PostByPlace, Flicker, GivesUp, CTS, Swiss

\* What was heard whole from an ALGE is decoded.
LEMMA AlgeDecoded ==
    ASSUME PoolInv, DecInv, kind = "alge", pool.heat # 0, wire = <<>>,
           AlgeHears(pool, wire, dec)
    PROVE  EndsAsSwum /\ NotFinishedEarly
<1>1. pool.phase # "ready" => dec.heat = pool.heat /\ AlgeLanes(pool, dec)
  BY AlgeRaceHeard
<1>2. EndsAsSwum
  <2> SUFFICES ASSUME pool.phase = "over" PROVE EndsAsSwum
    BY DEF EndsAsSwum
  <2>1. /\ \A l \in Lanes : ~Swims(pool, l)
        /\ \A l \in Swim(pool) : pool.legs[l] = Legs /\ l \in Lanes
    <3>1. pool.out = {}
      BY NobodyAtWall DEF CTS, Swiss
    <3> QED BY <3>1, AllOver
  <2>2. \A l \in Lanes : ~dec.running[l] /\ dec.time[l] = pool.mark[l] /\ IsRank(pool, dec, l)
    BY <1>1, <2>1 DEF AlgeLanes, AlgeLane
  <2>3. \A l \in Swim(pool) \ pool.out : dec.splits[l] = Legs
    BY <1>1, <2>1 DEF AlgeLanes, AlgeLane
  <2>4. dec \in Decs
    BY DEF DecInv
  <2> QED BY <1>1, <2>2, <2>3, <2>4, SwumLanes
<1>3. NotFinishedEarly
  <2>1. pool.phase = "racing" => \A l \in Lanes : Swims(pool, l) => dec.running[l]
    BY <1>1 DEF AlgeLanes, AlgeLane
  <2> QED BY <2>1, SwumNotEarly DEF CTS, Swiss
<1> QED BY <1>2, <1>3
=============================================================================
