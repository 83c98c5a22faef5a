----------------------- MODULE WorkerLifecycleProofs -----------------------
(***************************************************************************)
(* Proofs about WorkerLifecycle, for any number of threads, restarts and   *)
(* sockets: while starts do not overlap, one thread at a time is between   *)
(* a check of the generation and the end of its turn.  About Wire: a       *)
(* worker at its wire is one of them, and the packets it reads arrive.     *)
(***************************************************************************)
EXTENDS Wire, SequenceTheorems, TLAPS

-----------------------------------------------------------------------------
(* Type correctness.                                                       *)

LEMMA InitType == Init => TypeOK
<1> SUFFICES ASSUME Init PROVE TypeOK OBVIOUS
<1>1. "unborn" \in ThreadStates /\ "new" \in CallerStates
  BY DEF ThreadStates, CallerStates
<1> QED BY <1>1 DEF Init, TypeOK

LEMMA WorkerStepType ==
  ASSUME TypeOK, NEW w \in Threads, WorkerStep(w) PROVE TypeOK'
<1>1. thread' \in [Threads -> ThreadStates]
  BY DEF TypeOK, WorkerStep, Start, Check, Turn, Played, EndSession, Leave,
         Close, Set, ThreadStates
<1>2. /\ UNCHANGED <<worker_gen, caller, read_gen, spawned>>
      /\ main_thread' \in Threads \cup {None}
      /\ test_session' \in Sessions \cup {None}
  BY DEF TypeOK, WorkerStep, Start, Check, Turn, Played, EndSession, Leave,
         Close
<1>3. my_gen' \in [Threads -> Nat] /\ playing' \in [Threads -> Sessions \cup {None}]
  BY DEF TypeOK, WorkerStep, Start, Check, Turn, Played, EndSession, Leave,
         Close, Set
<1> QED BY <1>1, <1>2, <1>3 DEF TypeOK

LEMMA CallerStepType ==
  ASSUME TypeOK, NEW c \in Callers, CallerStep(c) PROVE TypeOK'
<1>1. caller' \in [Callers -> CallerStates]
  BY DEF TypeOK, CallerStep, Bump, Wake, Spawn, Assign, Set, CallerStates
<1>2. worker_gen' \in Nat
  BY DEF TypeOK, CallerStep, Bump, Wake, Spawn, Assign
<1>3. main_thread' \in Threads \cup {None} /\ thread' \in [Threads -> ThreadStates]
  BY DEF TypeOK, CallerStep, Bump, Wake, Spawn, Assign, Set, ThreadStates
<1>4. spawned' \in [Callers -> Threads \cup {None}]
  BY DEF TypeOK, CallerStep, Bump, Wake, Spawn, Assign, Set
<1>5. UNCHANGED <<test_session, my_gen, playing, read_gen>>
  BY DEF CallerStep, Bump, Wake, Spawn, Assign
<1> QED BY <1>1, <1>2, <1>3, <1>4, <1>5 DEF TypeOK

LEMMA ArrivalType == TypeOK /\ Arrival => TypeOK'
<1> SUFFICES ASSUME TypeOK, Arrival PROVE TypeOK' OBVIOUS
<1>1. ASSUME NEW r \in Restarts, NEW s \in Sessions \cup {None},
             RestartBegin(r, s)
      PROVE  TypeOK'
  <2>1. r \in Callers BY DEF Callers
  <2>2. caller' \in [Callers -> CallerStates] /\ read_gen' \in [Callers -> Nat]
    BY <1>1, <2>1 DEF TypeOK, RestartBegin, Set, CallerStates
  <2> QED BY <1>1, <2>2 DEF TypeOK, RestartBegin
<1>2. ASSUME NEW c \in Sockets, Connect(c) PROVE TypeOK'
  <2>1. caller' \in [Callers -> CallerStates]
    BY <1>2 DEF TypeOK, Connect, Set, CallerStates
  <2> QED BY <1>2, <2>1 DEF TypeOK, Connect
<1> QED BY <1>1, <1>2 DEF Arrival

\* Every variable of the lifecycle keeps its type.
THEOREM TypeCorrect == Spec => []TypeOK
<1>1. TypeOK /\ [Next]_vars => TypeOK'
  <2>1. TypeOK /\ UNCHANGED vars => TypeOK'
    BY DEF TypeOK, vars
  <2> QED BY <2>1, WorkerStepType, CallerStepType, ArrivalType DEF Next
<1> QED BY <1>1, InitType, PTL DEF Spec

-----------------------------------------------------------------------------
(* The inductive invariant.                                                *)

Active(c) == caller[c] \notin {"new", "done"}

\* A thread that holds the current generation and has not ended.
InForce(w) ==
    /\ thread[w] \in {"waiting", "turn", "played", "ending", "leaving", "closing"}
    /\ my_gen[w] = worker_gen

\* One start at a time, and what each stage of it knows.
OneStarter ==
    /\ \A c, d \in Callers : Active(c) /\ Active(d) => c = d
    /\ \A v, w \in Threads :
          thread[v] = "starting" /\ thread[w] = "starting" => v = w
    /\ \A w \in Threads, c \in Callers :
          thread[w] = "starting" /\ Active(c) => caller[c] = "assigning"
    /\ \A r \in Restarts : caller[r] = "bumping" => read_gen[r] = worker_gen
    /\ \A c \in Sockets : caller[c] \notin {"bumping", "asleep"}

GenBound == \A w \in Threads : my_gen[w] <= worker_gen

\* At most one thread holds the current generation, and none while another is
\* about to be given it.
OneInForce ==
    \A w \in Threads : InForce(w) =>
        /\ \A v \in Threads : InForce(v) => v = w
        /\ \A v \in Threads : thread[v] # "starting"
        /\ \A c \in Callers : caller[c] \notin {"asleep", "spawning"}

\* main_thread names the thread that owns the decoder, or its caller is about
\* to say so.
Held ==
    \A w \in Threads : InForce(w) \/ thread[w] = "starting" =>
        /\ \/ main_thread = w
           \/ \E c \in Callers : caller[c] = "assigning" /\ spawned[c] = w
        /\ \A c \in Callers : caller[c] = "assigning" => spawned[c] = w

\* A thread overtaken after its check is only found while a restart sleeps.
StaleIsBrief ==
    \A w \in Threads :
        thread[w] \in Committed /\ my_gen[w] # worker_gen =>
            \E r \in Restarts : caller[r] = "asleep"

OneCommitted ==
    \A v, w \in Threads :
        thread[v] \in Committed /\ thread[w] \in Committed => v = w

IInv == /\ TypeOK /\ OneStarter /\ GenBound /\ OneInForce /\ Held
        /\ StaleIsBrief /\ OneCommitted

USE DEF Callers

LEMMA InitIInv == Init => IInv
<1> SUFFICES ASSUME Init PROVE IInv OBVIOUS
<1>1. \A w \in Threads : thread[w] = "unborn" /\ my_gen[w] = 0
  BY DEF Init
<1>2. \A c \in Callers : caller[c] = "new"
  BY DEF Init
<1>3. worker_gen = 0
  BY DEF Init
<1> QED BY <1>1, <1>2, <1>3, InitType
        DEF IInv, OneStarter, Active, GenBound, OneInForce, InForce, Held,
            StaleIsBrief, OneCommitted, Committed

\* A start that may begin finds no other caller at work and no thread starting.
LEMMA MayBeginAlone ==
  ASSUME ~Overlap, MayBegin
  PROVE  /\ \A c \in Callers : caller[c] \in {"new", "done"}
         /\ \A w \in Threads : thread[w] # "starting"
  BY DEF MayBegin, StartUnderway

LEMMA RestartBeginStep ==
  ASSUME ~Overlap, IInv, NEW r \in Restarts, NEW s, RestartBegin(r, s), TypeOK'
  PROVE  IInv'
<1>1. /\ \A c \in Callers : caller[c] \in {"new", "done"}
      /\ \A w \in Threads : thread[w] # "starting"
  BY MayBeginAlone DEF RestartBegin
<1>2. /\ caller' = [caller EXCEPT ![r] = "bumping"]
      /\ read_gen' = [read_gen EXCEPT ![r] = worker_gen]
      /\ UNCHANGED <<worker_gen, main_thread, thread, my_gen, spawned>>
  BY DEF RestartBegin, Set
<1>3. /\ \A c \in Callers : caller'[c] = IF c = r THEN "bumping" ELSE caller[c]
      /\ read_gen'[r] = worker_gen
  BY <1>2 DEF IInv, TypeOK
<1>4. OneStarter'
  <2>1. \A c, d \in Callers : Active(c)' /\ Active(d)' => c = d
    BY <1>1, <1>3 DEF Active
  <2>2. \A q \in Restarts : caller'[q] = "bumping" => read_gen'[q] = worker_gen'
    BY <1>1, <1>2, <1>3
  <2>3. \A c \in Sockets : caller'[c] \notin {"bumping", "asleep"}
    BY <1>1, <1>3, CallersAssumption
  <2> QED BY <1>1, <1>2, <2>1, <2>2, <2>3 DEF OneStarter
<1>5. OneInForce' /\ Held' /\ GenBound' /\ OneCommitted'
  BY <1>1, <1>2, <1>3 DEF IInv, OneInForce, InForce, Held, GenBound, OneCommitted
<1>6. StaleIsBrief'
  BY <1>1, <1>2, <1>3 DEF IInv, StaleIsBrief
<1> QED BY <1>4, <1>5, <1>6 DEF IInv

LEMMA ConnectStep ==
  ASSUME ~Overlap, IInv, NEW c \in Sockets, Connect(c), TypeOK'
  PROVE  IInv'
<1>1. /\ \A d \in Callers : caller[d] \in {"new", "done"}
      /\ \A w \in Threads : thread[w] # "starting"
  BY MayBeginAlone DEF Connect
<1>2. UNCHANGED <<worker_gen, main_thread, thread, my_gen, read_gen, spawned>>
  BY DEF Connect
<1>3. CASE main_thread = None /\ caller' = [caller EXCEPT ![c] = "spawning"]
  <2>1. \A d \in Callers : caller'[d] = IF d = c THEN "spawning" ELSE caller[d]
    BY <1>3 DEF IInv, TypeOK
  <2>2. \A w \in Threads : ~InForce(w)
    BY <1>1, <1>3, CallersAssumption DEF IInv, Held
  <2> QED BY <1>1, <1>2, <2>1, <2>2
          DEF IInv, OneStarter, Active, GenBound, OneInForce, InForce, Held,
              StaleIsBrief, OneCommitted
<1>4. CASE caller' = [caller EXCEPT ![c] = "done"]
  <2>1. \A d \in Callers : caller'[d] = IF d = c THEN "done" ELSE caller[d]
    BY <1>4 DEF IInv, TypeOK
  <2> QED BY <1>1, <1>2, <2>1
          DEF IInv, OneStarter, Active, GenBound, OneInForce, InForce, Held,
              StaleIsBrief, OneCommitted
<1> QED BY <1>3, <1>4 DEF Connect, Set

LEMMA BumpStep ==
  ASSUME IInv, NEW r \in Restarts, Bump(r), TypeOK'
  PROVE  IInv'
<1>1. /\ worker_gen \in Nat
      /\ worker_gen' = worker_gen + 1
      /\ UNCHANGED <<main_thread, thread, my_gen, read_gen, spawned>>
  BY DEF IInv, TypeOK, Bump, OneStarter
<1>2. \A c \in Callers : caller'[c] = IF c = r THEN "asleep" ELSE caller[c]
  BY DEF IInv, TypeOK, Bump, Set
<1>3. \A c \in Callers : c # r => caller[c] \in {"new", "done"}
  BY DEF IInv, OneStarter, Active, Bump
<1>4. \A w \in Threads : thread[w] # "starting"
  BY DEF IInv, OneStarter, Active, Bump
<1>5. \A w \in Threads : my_gen[w] \in Nat /\ my_gen'[w] < worker_gen'
  BY <1>1 DEF IInv, TypeOK, GenBound
<1>6. \A w \in Threads : ~InForce(w)' /\ my_gen'[w] <= worker_gen'
  BY <1>1, <1>5 DEF InForce
<1>7. OneStarter'
  BY <1>1, <1>2, <1>3, <1>4, CallersAssumption DEF OneStarter, Active
<1>8. OneInForce' /\ Held' /\ GenBound'
  BY <1>1, <1>4, <1>6 DEF OneInForce, Held, GenBound
<1>9. StaleIsBrief' /\ OneCommitted'
  BY <1>1, <1>2 DEF IInv, StaleIsBrief, OneCommitted
<1> QED BY <1>7, <1>8, <1>9 DEF IInv

LEMMA WakeStep ==
  ASSUME IInv, NEW r \in Restarts, Wake(r), TypeOK'
  PROVE  IInv'
<1>1. UNCHANGED <<worker_gen, main_thread, thread, my_gen, read_gen, spawned>>
  BY DEF Wake
<1>2. \A c \in Callers : caller'[c] = IF c = r THEN "spawning" ELSE caller[c]
  BY DEF IInv, TypeOK, Wake, Set
<1>3. \A c \in Callers : c # r => caller[c] \in {"new", "done"}
  BY DEF IInv, OneStarter, Active, Wake
<1>4. \A w \in Threads : thread[w] # "starting" /\ ~InForce(w)
  BY DEF IInv, OneStarter, OneInForce, Active, Wake
<1>5. \A w \in Threads : thread[w] \in Committed => my_gen[w] = worker_gen
  BY DEF Wake
<1>6. OneStarter'
  BY <1>1, <1>2, <1>3, <1>4, CallersAssumption DEF OneStarter, Active
<1>7. OneInForce' /\ Held' /\ GenBound' /\ OneCommitted'
  BY <1>1, <1>4 DEF IInv, OneInForce, InForce, Held, GenBound, OneCommitted
<1>8. StaleIsBrief'
  BY <1>1, <1>5 DEF StaleIsBrief
<1> QED BY <1>6, <1>7, <1>8 DEF IInv

LEMMA SpawnStep ==
  ASSUME IInv, NEW c \in Callers, Spawn(c), TypeOK'
  PROVE  IInv'
<1>1. PICK w \in Threads :
        /\ thread[w] = "unborn"
        /\ thread' = [thread EXCEPT ![w] = "starting"]
        /\ spawned' = [spawned EXCEPT ![c] = w]
  BY DEF Spawn, Set
<1>2. /\ \A v \in Threads : thread'[v] = IF v = w THEN "starting" ELSE thread[v]
      /\ spawned'[c] = w
      /\ UNCHANGED <<worker_gen, main_thread, my_gen, read_gen>>
  BY <1>1 DEF IInv, TypeOK, Spawn
<1>3. \A d \in Callers : caller'[d] = IF d = c THEN "assigning" ELSE caller[d]
  BY DEF IInv, TypeOK, Spawn, Set
<1>4. \A d \in Callers : d # c => caller[d] \in {"new", "done"}
  BY DEF IInv, OneStarter, Active, Spawn
<1>5. \A v \in Threads : thread[v] # "starting" /\ ~InForce(v)
  BY DEF IInv, OneStarter, OneInForce, Active, Spawn
<1>6. \A v \in Threads : ~InForce(v)'
  BY <1>2, <1>5 DEF InForce
<1>7. OneStarter'
  BY <1>2, <1>3, <1>4, <1>5, CallersAssumption DEF IInv, OneStarter, Active
<1>8. OneInForce' /\ GenBound'
  BY <1>2, <1>6 DEF IInv, OneInForce, GenBound
<1>9. Held'
  BY <1>2, <1>3, <1>4, <1>5, <1>6 DEF Held
<1>10. OneCommitted'
  BY <1>2 DEF IInv, OneCommitted, Committed
<1>11. StaleIsBrief'
  <2>1. \A v \in Threads : thread[v] \in Committed => my_gen[v] = worker_gen
    BY <1>4 DEF IInv, StaleIsBrief, Spawn
  <2> QED BY <1>2, <2>1 DEF StaleIsBrief, Committed
<1> QED BY <1>7, <1>8, <1>9, <1>10, <1>11 DEF IInv

LEMMA AssignStep ==
  ASSUME IInv, NEW c \in Callers, Assign(c), TypeOK'
  PROVE  IInv'
<1>1. /\ main_thread' = spawned[c]
      /\ UNCHANGED <<worker_gen, thread, my_gen, read_gen, spawned>>
  BY DEF Assign
<1>2. \A d \in Callers : caller'[d] = IF d = c THEN "done" ELSE caller[d]
  BY DEF IInv, TypeOK, Assign, Set
<1>3. \A d \in Callers : d # c => caller[d] \in {"new", "done"}
  BY DEF IInv, OneStarter, Active, Assign
<1>4. caller[c] = "assigning"
  BY DEF Assign
<1>5. OneStarter'
  BY <1>1, <1>2, <1>3, CallersAssumption DEF IInv, OneStarter, Active
<1>6. OneInForce' /\ GenBound' /\ OneCommitted'
  BY <1>1, <1>2 DEF IInv, OneInForce, InForce, GenBound, OneCommitted
<1>7. Held'
  <2>1. \A w \in Threads : InForce(w)' \/ thread'[w] = "starting" => spawned[c] = w
    BY <1>1, <1>4 DEF IInv, Held, InForce
  <2> QED BY <1>1, <1>2, <1>3, <2>1 DEF Held
<1>8. StaleIsBrief'
  BY <1>1, <1>2, <1>4 DEF IInv, StaleIsBrief
<1> QED BY <1>5, <1>6, <1>7, <1>8 DEF IInv

LEMMA StartStep ==
  ASSUME IInv, NEW w \in Threads, Start(w), TypeOK'
  PROVE  IInv'
<1>1. UNCHANGED <<worker_gen, main_thread, caller, read_gen, spawned>>
  BY DEF Start
<1>2. \A v \in Threads :
        /\ thread'[v] = IF v = w THEN "waiting" ELSE thread[v]
        /\ my_gen'[v] = IF v = w THEN worker_gen ELSE my_gen[v]
  BY DEF IInv, TypeOK, Start, Set
<1>3. thread[w] = "starting"
  BY DEF Start
<1>4. \A v \in Threads : ~InForce(v) /\ (v # w => thread[v] # "starting")
  BY <1>3 DEF IInv, OneStarter, OneInForce
<1>5. \A c \in Callers : caller[c] \notin {"asleep", "spawning"}
  BY <1>3 DEF IInv, OneStarter, Active
<1>6. \A v \in Threads : InForce(v)' => v = w
  BY <1>1, <1>2, <1>4 DEF InForce
<1>7. OneStarter'
  BY <1>1, <1>2 DEF IInv, OneStarter, Active
<1>8. worker_gen \in Nat
  BY DEF IInv, TypeOK
<1>9. OneInForce' /\ GenBound'
  BY <1>1, <1>2, <1>4, <1>5, <1>6, <1>8 DEF IInv, OneInForce, GenBound
<1>10. Held'
  BY <1>1, <1>2, <1>3, <1>4, <1>6 DEF IInv, Held
<1>11. OneCommitted' /\ StaleIsBrief'
  BY <1>1, <1>2 DEF IInv, OneCommitted, StaleIsBrief, Committed
<1> QED BY <1>7, <1>9, <1>10, <1>11 DEF IInv

\* A step of a thread from one of its stages to another, its generation kept.
LEMMA StageStep ==
  ASSUME IInv, NEW w \in Threads, NEW to \in ThreadStates, TypeOK',
         thread[w] \in {"waiting", "turn", "played", "ending", "leaving", "closing"},
         thread' = Set(thread, w, to), to \notin {"unborn", "starting"},
         to \in Committed => my_gen[w] = worker_gen,
         UNCHANGED <<worker_gen, my_gen, caller, read_gen, spawned>>,
         \/ UNCHANGED main_thread
         \/ /\ main_thread' = None /\ to = "dead"
            /\ thread[w] = "closing"
  PROVE  IInv'
<1>1. \A v \in Threads : thread'[v] = IF v = w THEN to ELSE thread[v]
  BY DEF IInv, TypeOK, Set
<1>2. \A v \in Threads : InForce(v)' => InForce(v)
  BY <1>1 DEF InForce
<1>3. OneStarter' /\ GenBound'
  BY <1>1 DEF IInv, OneStarter, Active, GenBound
<1>4. OneInForce'
  BY <1>1, <1>2 DEF IInv, OneInForce
<1>5. Held'
  <2>1. CASE UNCHANGED main_thread
    BY <1>1, <1>2, <2>1 DEF IInv, Held
  <2>2. CASE to = "dead" /\ thread[w] = "closing"
    <3>1. ASSUME NEW v \in Threads, InForce(v)' \/ thread'[v] = "starting"
          PROVE  FALSE
      <4>1. InForce(v) \/ thread[v] = "starting"
        BY <1>1, <1>2, <2>2, <3>1
      <4>2. v # w
        BY <1>1, <2>2, <3>1 DEF InForce
      <4>3. my_gen[w] # worker_gen
        BY <2>2, <4>1, <4>2 DEF IInv, OneInForce, InForce
      <4>4. PICK r \in Restarts : caller[r] = "asleep"
        BY <2>2, <4>3 DEF IInv, StaleIsBrief, Committed
      <4> QED BY <4>1, <4>4 DEF IInv, OneInForce, OneStarter, Active
    <3> QED BY <3>1 DEF Held
  <2> QED BY <2>1, <2>2
<1>6. StaleIsBrief'
  BY <1>1 DEF IInv, StaleIsBrief
<1>7. OneCommitted'
  <2>1. ASSUME NEW v \in Threads, v # w, thread[v] \in Committed,
               to \in Committed
        PROVE  FALSE
    <3>1. InForce(w)
      BY <2>1 DEF InForce
    <3>2. my_gen[v] # worker_gen
      BY <2>1, <3>1 DEF IInv, OneInForce, InForce, Committed
    <3>3. PICK r \in Restarts : caller[r] = "asleep"
      BY <2>1, <3>2 DEF IInv, StaleIsBrief
    <3> QED BY <3>1, <3>3 DEF IInv, OneInForce
  <2> QED BY <1>1, <2>1 DEF IInv, OneCommitted
<1> QED BY <1>3, <1>4, <1>5, <1>6, <1>7 DEF IInv

LEMMA ThreadStep ==
  ASSUME IInv, NEW w \in Threads, WorkerStep(w), TypeOK'
  PROVE  IInv'
<1>1. CASE Start(w) BY <1>1, StartStep
<1>2. CASE Check(w)
  BY <1>2, StageStep DEF Check, ThreadStates, Committed
<1>3. CASE Turn(w)
  BY <1>3, StageStep DEF Turn, ThreadStates, Committed
<1>4. CASE Played(w)
  BY <1>4, StageStep DEF Played, ThreadStates, Committed
<1>5. CASE EndSession(w)
  BY <1>5, StageStep DEF EndSession, ThreadStates, Committed
<1>6. CASE Leave(w)
  BY <1>6, StageStep DEF Leave, ThreadStates, Committed
<1>7. CASE Close(w)
  BY <1>7, StageStep DEF Close, ThreadStates, Committed
<1> QED BY <1>1, <1>2, <1>3, <1>4, <1>5, <1>6, <1>7 DEF WorkerStep

LEMMA NextIInv ==
  ASSUME ~Overlap, IInv, [Next]_vars PROVE IInv'
<1>1. ASSUME NEW w \in Threads, WorkerStep(w) PROVE IInv'
  BY <1>1, WorkerStepType, ThreadStep DEF IInv
<1>2. ASSUME NEW c \in Callers, CallerStep(c) PROVE IInv'
  <2>1. TypeOK' BY <1>2, CallerStepType DEF IInv
  <2> QED BY <1>2, <2>1, BumpStep, WakeStep, SpawnStep, AssignStep DEF CallerStep
<1>3. CASE Arrival
  <2>1. TypeOK' BY <1>3, ArrivalType DEF IInv
  <2> QED BY <1>3, <2>1, RestartBeginStep, ConnectStep DEF Arrival
<1>4. CASE UNCHANGED vars
  BY <1>4 DEF vars, IInv, TypeOK, OneStarter, Active, GenBound, OneInForce, InForce,
              Held, StaleIsBrief, OneCommitted
<1> QED BY <1>1, <1>2, <1>3, <1>4 DEF Next

\* While starts do not overlap, no two threads feed the decoder at once: the
\* generation token and the 0.3 s pause hand it over safely.
THEOREM HandoverSafe == ~Overlap => (Spec => []OneOwner)
<1> SUFFICES ASSUME ~Overlap PROVE Spec => []OneOwner OBVIOUS
<1>1. IInv => OneOwner
  BY DEF IInv, OneCommitted, OneOwner, Committed
<1>2. IInv /\ [Next]_vars => IInv'
  BY NextIInv
<1> QED BY <1>1, <1>2, InitIInv, PTL DEF Spec

-----------------------------------------------------------------------------
(* Whatever a worker reads, records or plays at the wire, it is a worker of *)
(* WorkerLifecycle, and what is proved of those holds of it.               *)

\* A turn at the wire ends as a turn of the lifecycle, or is not over.
LEMMA TurnRefines ==
  ASSUME NEW w \in Threads, WorkerTurn(w) PROVE Turn(w) \/ UNCHANGED vars
<1>1. CASE Open(w) \/ LinkError(w) \/ Read(w)
  BY <1>1 DEF Open, LinkError, Read
<1>2. CASE Cut(w) \/ Idle(w) \/ IdleManual(w) \/ Handle(w)
  BY <1>2 DEF Cut, Idle, IdleManual, Handle
<1>3. CASE Token(w) \/ LastPacket(w) \/ Rewind(w)
  BY <1>3 DEF Token, LastPacket, Rewind
<1>4. CASE Dies(w) \/ EndTurn(w) \/ PlayedOut(w) \/ Unreadable(w)
  BY <1>4 DEF Dies, EndTurn, PlayedOut, Unreadable
<1> QED BY <1>1, <1>2, <1>3, <1>4 DEF WorkerTurn

LEMMA ThreadRefines ==
  ASSUME NEW w \in Threads, WireStep(w) PROVE WorkerStep(w) \/ UNCHANGED vars
<1>1. CASE WorkerTurn(w)
  BY <1>1, TurnRefines DEF WorkerStep
<1>2. CASE StartReading(w)
  BY <1>2 DEF StartReading, WorkerStep
<1>3. CASE Elsewhere(w)
  BY <1>3 DEF Elsewhere, WorkerStep
<1> QED BY <1>1, <1>2, <1>3 DEF WireStep

LEMMA NextRefines == [WireNext]_wvars => [Next]_vars
<1> SUFFICES ASSUME [WireNext]_wvars PROVE [Next]_vars OBVIOUS
<1>1. ASSUME NEW w \in Threads, WireStep(w) PROVE [Next]_vars
  BY <1>1, ThreadRefines DEF Next
<1>2. ASSUME NEW c \in Callers, CallerStep(c) PROVE [Next]_vars
  BY <1>2 DEF Next
<1>3. ASSUME NEW r \in Restarts, NEW s \in Sessions \cup {None}, AskRestart(r, s)
      PROVE  [Next]_vars
  BY <1>3 DEF AskRestart, Next, Arrival
<1>4. ASSUME NEW c \in Sockets, Connect(c) PROVE [Next]_vars
  BY <1>4 DEF Next, Arrival
<1>5. ASSUME Send \/ PortFails \/ PortReturns \/ Post \/ RecordStart \/ RecordStop
      PROVE  UNCHANGED vars
  BY <1>5 DEF Send, PortFails, PortReturns, Post, RecordStart, RecordStop
<1>6. ASSUME UNCHANGED wvars PROVE UNCHANGED vars
  BY <1>6 DEF wvars
<1> QED BY <1>1, <1>2, <1>3, <1>4, <1>5, <1>6 DEF WireNext

\* The detailed worker implements the lifecycle: reading, recording and playing
\* change nothing of who owns the decoder (worker.py, debug.py).
THEOREM WireImplementsLifecycle == WireSpec => Spec
<1>1. WireInit => Init BY DEF WireInit
<1> QED BY <1>1, NextRefines, PTL DEF WireSpec, Spec

\* No two workers, at their wires, touch the decoder at once.
THEOREM OneReader == ~Overlap => (WireSpec => []OneOwner)
BY WireImplementsLifecycle, HandoverSafe
-----------------------------------------------------------------------------
(* What comes off the wire: the inductive invariant of PacketsAsSent.      *)

\* A console whose packets bear no mark sends each in a datagram.
Marked ==
    \A s \in Setups :
        s.console.framing = "none" => s.console.transport \in {"udp", "manual"}

\* The console ends each packet it begins without a pause, and none is too long.
Prompt == ~Slow /\ ~OwnPauses /\ Size <= MaxBytes

WireTypeOK ==
    /\ console \in Consoles /\ plan \in Plans /\ next \in Bytes
    /\ line \in Seq(Bytes) /\ chunk \in Seq(Bytes) /\ heard \in Seq(Bytes)
    /\ buf \in Seq(Bytes) /\ own \in Seq(Bytes) /\ ready \in Seq(Bytes)
    /\ packet \in [bytes : Seq(Bytes), log : BOOLEAN]
    /\ fed \in Seq(Seq(Bytes))
    /\ quiet \in BOOLEAN /\ link \in {"open", "shut"}
    /\ console.framing = "none" => console.transport \in {"udp", "manual"}
    /\ console.transport = "manual" => line = <<>> /\ chunk = <<>>

Final(s) == s[Len(s)]
Before(a, b) == a[1] < b[1] \/ (a[1] = b[1] /\ a[2] < b[2])

\* The bytes of a stretch of the wire, in the order they were sent and none lost.
Stretch(s) ==
    /\ \A m, n \in DOMAIN s : m < n => Before(s[m], s[n])
    /\ \A n \in DOMAIN s : n + 1 \in DOMAIN s => s[n + 1] = After(s[n])

\* Arrived, and not cut yet.
rest == chunk \o line

\* What has arrived is a stretch that follows what was cut, and while the port is
\* read the console goes on where it ends.
Unbroken ==
    /\ Stretch(rest) /\ \A n \in DOMAIN rest : Before(rest[n], next)
    /\ rest # <<>> /\ heard # <<>> => rest[1] = After(Final(heard))
    /\ link = "open" /\ port = "up" =>
        /\ rest # <<>> => next = After(Final(rest))
        /\ rest = <<>> /\ heard # <<>> => next = After(Final(heard))
    /\ chunk # <<>> => link = "open" /\ ~quiet

\* Whole datagrams.
DatagramsIn(s) ==
    /\ s # <<>> => s[1][2] = 1
    /\ \A m \in DOMAIN s : s[m][2] = 1 =>
        /\ m + Size - 1 <= Len(s)
        /\ \A k \in 1..Size : s[m + k - 1] = <<s[m][1], k>>

\* What is left of one.
DatagramLeft(s) ==
    /\ Len(s) <= Size
    /\ \A n \in DOMAIN s : s[n] = <<s[1][1], Size - Len(s) + n>>

\* Datagrams arrive whole, and one is cut before the next is read.
Datagrams ==
    console.transport = "udp" =>
        /\ next[2] = 1 /\ DatagramsIn(line) /\ DatagramLeft(chunk)
        /\ buf # <<>> => chunk # <<>> /\ Final(buf)[2] < Size

\* The packet being put together is the end of what was cut.
Joined ==
    /\ buf # <<>> => heard # <<>> /\ Final(buf) = Final(heard)
    /\ console.framing # "own" =>
        \A n \in DOMAIN buf : buf[n] = <<buf[1][1], buf[1][2] + n - 1>>
    /\ quiet /\ buf # <<>> => Final(buf)[2] = Size
    /\ console.framing = "own" =>
        /\ quiet => next[1] > plan.sends
        /\ heard # <<>> => own # <<>> /\ Final(own) = Final(heard)
        /\ heard # <<>> /\ buf = <<>> /\ console.transport # "udp" =>
            rest = <<>> /\ next[1] > plan.sends

\* Who holds the packet before the last, and the last.
former == IF console.framing = "own" THEN ready ELSE packet.bytes
latter == IF console.framing = "own" THEN own ELSE buf

\* The packets handed over, p, q and what comes after them are in order, as far as
\* they are whole.
InOrder(f, p, q, later) ==
    LET given == {n \in DOMAIN f : IsWhole(f[n])}
    IN  /\ \A m, n \in given : m < n => f[m][1][1] < f[n][1][1]
        /\ \A n \in given :
            /\ IsWhole(p) => f[n][1][1] < p[1][1]
            /\ q # <<>> => f[n][1][1] < q[1][1]
            /\ \A b \in later : f[n][1][1] < b[1]
        /\ IsWhole(p) => (q # <<>> => p[1][1] < q[1][1]) /\ \A b \in later : p[1][1] < b[1]
        /\ \A n \in DOMAIN q, b \in later : Before(q[n], b)

ToCome == {rest[n] : n \in DOMAIN rest} \cup {next}

\* The bytes <<i, 1>> to <<i, k>> are the last of s.
EndsWith(s, i, k) ==
    k <= Len(s) /\ \A j \in 1..k : s[Len(s) - k + j] = <<i, j>>

IsPacket(s, i) == IsWhole(s) /\ s[1][1] = i

\* The packet being heard is being put together.
Begun ==
    \A i \in Nat, k \in 1..(Size - 1) :
        EndsWith(heard, i, k) =>
            Len(latter) = k /\ \A j \in 1..k : latter[j] = <<i, j>>

\* A packet heard whole has been handed over or is held; where the decoder keeps
\* the packets itself, the one before the last is handed over before the next.
Kept ==
    \A i \in WholePackets(heard) :
        LET Given == \E n \in DOMAIN fed : IsPacket(fed[n], i)
        IN  /\ Given \/ IsPacket(former, i) \/ IsPacket(latter, i)
            /\ packet = NoPacket =>
                \/ Given \/ IsPacket(latter, i)
                \/ console.transport = "udp" /\ buf # <<>>

PIInv == /\ WireTypeOK /\ Unbroken /\ Datagrams /\ Joined
         /\ InOrder(fed, former, latter, ToCome) /\ Begun /\ Kept

LEMMA ByteParts ==
  ASSUME NEW b \in Bytes
  PROVE  /\ b = <<b[1], b[2]>> /\ b[1] \in Nat /\ b[1] > 0
         /\ b[2] \in Nat /\ b[2] >= 1 /\ b[2] <= Size
         /\ After(b) \in Bytes /\ Before(b, After(b))
<1>1. b = <<b[1], b[2]>> /\ b[1] \in Nat \ {0} /\ b[2] \in 1..Size
  BY SetupsAssumption DEF Bytes
<1>2. CASE b[2] = Size
  <2>1. After(b) = <<b[1] + 1, 1>> BY <1>2 DEF After
  <2> QED BY <1>1, <2>1, SetupsAssumption DEF Bytes, Before
<1>3. CASE b[2] # Size
  <2>1. After(b) = <<b[1], b[2] + 1>> BY <1>3 DEF After
  <2> QED BY <1>1, <1>3, <2>1, SetupsAssumption DEF Bytes, Before
<1> QED BY <1>1, <1>2, <1>3

LEMMA BeforeTransitive ==
  ASSUME NEW a \in Bytes, NEW b \in Bytes, NEW c \in Bytes, Before(a, b), Before(b, c)
  PROVE  Before(a, c)
  BY ByteParts DEF Before

\* A whole packet ends before a byte only if its id is smaller.
LEMMA WholeBefore ==
  ASSUME NEW p \in Seq(Bytes), IsWhole(p), NEW b \in Bytes,
         \A n \in DOMAIN p : Before(p[n], b)
  PROVE  p[1][1] < b[1]
<1>1. Size \in 1..Size /\ Size \in DOMAIN p /\ p[Size] = <<p[1][1], Size>>
  BY SetupsAssumption DEF IsWhole
<1>2. Before(p[Size], b) BY <1>1
<1>3. p[1] \in Bytes BY <1>1, SetupsAssumption
<1> QED BY <1>1, <1>2, <1>3, ByteParts DEF Before

LEMMA NotWhole == IsWhole(<<>>) = FALSE
  BY SetupsAssumption DEF IsWhole

-----------------------------------------------------------------------------
(* The order of the packets, as they are put together and handed over.     *)

\* What is to come may be used up, or grow at its end.
LEMMA OrderLater ==
  ASSUME NEW f \in Seq(Seq(Bytes)), NEW p \in Seq(Bytes), NEW q \in Seq(Bytes),
         NEW later \in SUBSET Bytes, NEW now \in SUBSET Bytes,
         InOrder(f, p, q, later),
         \A b \in now : b \in later \/ \E a \in later : Before(a, b)
  PROVE  InOrder(f, p, q, now)
<1>1. \A b \in now : \E a \in later : a = b \/ Before(a, b) OBVIOUS
<1>2. \A n \in DOMAIN q, b \in now : Before(q[n], b)
  <2> SUFFICES ASSUME NEW n \in DOMAIN q, NEW b \in now PROVE Before(q[n], b) OBVIOUS
  <2>1. PICK a \in later : a = b \/ Before(a, b) BY <1>1
  <2>2. Before(q[n], a) BY DEF InOrder
  <2>3. q[n] \in Bytes OBVIOUS
  <2> QED BY <2>1, <2>2, <2>3, BeforeTransitive
<1>3. ASSUME NEW i \in Nat, \A a \in later : i < a[1] PROVE \A b \in now : i < b[1]
  <2> SUFFICES ASSUME NEW b \in now PROVE i < b[1] OBVIOUS
  <2>1. PICK a \in later : a = b \/ Before(a, b) BY <1>1
  <2>2. i < a[1] /\ a \in Bytes /\ b \in Bytes BY <1>3
  <2> QED BY <2>1, <2>2, ByteParts DEF Before
<1>4. ASSUME NEW s \in Seq(Bytes), IsWhole(s) PROVE s[1][1] \in Nat
  <2>1. 1 \in DOMAIN s BY <1>4, SetupsAssumption DEF IsWhole
  <2> QED BY <2>1, ByteParts
<1>5. \A n \in DOMAIN f : IsWhole(f[n]) => \A b \in now : f[n][1][1] < b[1]
  <2> SUFFICES ASSUME NEW n \in DOMAIN f, IsWhole(f[n])
               PROVE  \A b \in now : f[n][1][1] < b[1]
    OBVIOUS
  <2>1. f[n] \in Seq(Bytes) OBVIOUS
  <2>2. f[n][1][1] \in Nat BY <2>1, <1>4
  <2>3. \A a \in later : f[n][1][1] < a[1] BY DEF InOrder
  <2> QED BY <1>3, <2>2, <2>3
<1>6. IsWhole(p) => \A b \in now : p[1][1] < b[1]
  <2> SUFFICES ASSUME IsWhole(p) PROVE \A b \in now : p[1][1] < b[1] OBVIOUS
  <2>1. p[1][1] \in Nat BY <1>4
  <2>2. \A a \in later : p[1][1] < a[1] BY DEF InOrder
  <2> QED BY <1>3, <2>1, <2>2
<1> QED BY <1>2, <1>5, <1>6 DEF InOrder

\* The next byte joins the packet being put together.
LEMMA OrderAppend ==
  ASSUME NEW f \in Seq(Seq(Bytes)), NEW p \in Seq(Bytes), NEW q \in Seq(Bytes),
         NEW later \in SUBSET Bytes, NEW now \in SUBSET Bytes, NEW c \in later,
         InOrder(f, p, q, later), now \subseteq later, \A b \in now : Before(c, b)
  PROVE  InOrder(f, p, Append(q, c), now)
<1>1. InOrder(f, p, q, now) BY OrderLater
<1> DEFINE r == Append(q, c)
<1>2. r[1] = (IF q = <<>> THEN c ELSE q[1]) /\ r # <<>>
  <2>1. CASE q = <<>> BY <2>1
  <2>2. CASE q # <<>>
    <3>1. Len(q) >= 1 /\ Len(q) \in Nat BY <2>2
    <3> QED BY <3>1, <2>2
  <2> QED BY <2>1, <2>2
<1>3. /\ DOMAIN r = 1..(Len(q) + 1)
      /\ \A n \in DOMAIN r : r[n] = c \/ (n \in DOMAIN q /\ r[n] = q[n])
  OBVIOUS
<1> HIDE DEF r
<1>4. \A n \in DOMAIN r, b \in now : Before(r[n], b) BY <1>1, <1>3 DEF InOrder
<1>5. \A n \in DOMAIN f : IsWhole(f[n]) => f[n][1][1] < r[1][1]
  BY <1>2 DEF InOrder
<1>6. IsWhole(p) => p[1][1] < r[1][1]
  BY <1>2 DEF InOrder
<1>7. InOrder(f, p, r, now) BY <1>1, <1>4, <1>5, <1>6 DEF InOrder
<1> QED BY <1>7 DEF r

\* The packet being put together is done.
LEMMA OrderDone ==
  ASSUME NEW f \in Seq(Seq(Bytes)), NEW p \in Seq(Bytes), NEW q \in Seq(Bytes),
         NEW later \in SUBSET Bytes, InOrder(f, p, q, later)
  PROVE  InOrder(f, q, <<>>, later)
<1>1. ASSUME IsWhole(q) PROVE q # <<>> BY <1>1, NotWhole
<1>2. ASSUME IsWhole(q), NEW b \in later PROVE q[1][1] < b[1]
  BY <1>2, WholeBefore DEF InOrder
<1> QED BY <1>1, <1>2 DEF InOrder

\* ... and the next byte begins another.
LEMMA OrderCut ==
  ASSUME NEW f \in Seq(Seq(Bytes)), NEW p \in Seq(Bytes), NEW q \in Seq(Bytes),
         NEW later \in SUBSET Bytes, NEW now \in SUBSET Bytes, NEW c \in later,
         InOrder(f, p, q, later), now \subseteq later, \A b \in now : Before(c, b)
  PROVE  InOrder(f, q, <<c>>, now)
<1>1. InOrder(f, q, <<>>, later) BY OrderDone
<1>2. <<>> \in Seq(Bytes) /\ Append(<<>>, c) = <<c>> OBVIOUS
<1> QED BY <1>1, <1>2, OrderAppend

\* The packet that is done is handed over.
LEMMA OrderHanded ==
  ASSUME NEW f \in Seq(Seq(Bytes)), NEW p \in Seq(Bytes), NEW q \in Seq(Bytes),
         NEW later \in SUBSET Bytes, InOrder(f, p, q, later)
  PROVE  InOrder(Append(f, p), <<>>, q, later)
<1> DEFINE g == Append(f, p)
<1>1. \A n \in DOMAIN g : IF n <= Len(f) THEN n \in DOMAIN f /\ g[n] = f[n]
                                        ELSE n = Len(f) + 1 /\ g[n] = p
  OBVIOUS
<1>2. DOMAIN g \subseteq Nat /\ DOMAIN f = 1..Len(f) /\ Len(f) \in Nat OBVIOUS
<1> HIDE DEF g
<1>3. \A m, n \in DOMAIN g :
         IsWhole(g[m]) /\ IsWhole(g[n]) /\ m < n => g[m][1][1] < g[n][1][1]
  <2> SUFFICES ASSUME NEW m \in DOMAIN g, NEW n \in DOMAIN g,
                      IsWhole(g[m]), IsWhole(g[n]), m < n
               PROVE  g[m][1][1] < g[n][1][1]
    OBVIOUS
  <2>1. m <= Len(f) /\ m \in DOMAIN f /\ g[m] = f[m] BY <1>1, <1>2
  <2>2. CASE n <= Len(f)
    <3>1. n \in DOMAIN f /\ g[n] = f[n] BY <1>1, <2>2
    <3> QED BY <2>1, <3>1 DEF InOrder
  <2>3. CASE ~(n <= Len(f))
    <3>1. g[n] = p BY <1>1, <2>3
    <3> QED BY <2>1, <3>1 DEF InOrder
  <2> QED BY <2>2, <2>3
<1>4. \A n \in DOMAIN g : IsWhole(g[n]) =>
         /\ q # <<>> => g[n][1][1] < q[1][1]
         /\ \A b \in later : g[n][1][1] < b[1]
  BY <1>1 DEF InOrder
<1>5. InOrder(g, <<>>, q, later)
  BY <1>3, <1>4, NotWhole DEF InOrder
<1> QED BY <1>5 DEF g

-----------------------------------------------------------------------------
(* Steps that leave the bytes alone.                                       *)

LEMMA UnmovedStep ==
  ASSUME PIInv, UNCHANGED <<console, next, line, buffers>>,
         plan' \in Plans, plan'.sends = plan.sends, link' \in {"open", "shut"},
         link' = "open" /\ port' = "up" => link = "open" /\ port = "up",
         chunk # <<>> => link' = link
  PROVE  PIInv'
<1> USE DEF buffers
<1>1. rest' = rest /\ former' = former /\ latter' = latter /\ ToCome' = ToCome
  BY DEF rest, former, latter, ToCome
<1>2. WireTypeOK' BY DEF PIInv, WireTypeOK
<1>3. Unbroken' BY <1>1 DEF PIInv, Unbroken
<1>4. Datagrams' BY DEF PIInv, Datagrams
<1>5. Joined' BY <1>1 DEF PIInv, Joined
<1>6. InOrder(fed, former, latter, ToCome)' BY <1>1 DEF PIInv
<1>7. Begun' BY <1>1 DEF PIInv, Begun
<1>8. Kept' BY <1>1 DEF PIInv, Kept
<1> QED BY <1>2, <1>3, <1>4, <1>5, <1>6, <1>7, <1>8 DEF PIInv

\* What is put together and handed over has its type.
LEMMA HeldTypes ==
  ASSUME WireTypeOK
  PROVE  /\ former \in Seq(Bytes) /\ latter \in Seq(Bytes) /\ rest \in Seq(Bytes)
         /\ fed \in Seq(Seq(Bytes)) /\ ToCome \in SUBSET Bytes
<1>1. former \in Seq(Bytes) /\ latter \in Seq(Bytes)
  BY DEF WireTypeOK, former, latter
<1>2. rest \in Seq(Bytes) BY DEF WireTypeOK, rest
<1>3. \A n \in DOMAIN rest : rest[n] \in Bytes BY <1>2
<1> QED BY <1>1, <1>2, <1>3 DEF WireTypeOK, ToCome

\* Where the bytes of a read and those still on the line stand in what arrived.
LEMMA WhatArrived ==
  ASSUME WireTypeOK
  PROVE  /\ Len(chunk) \in Nat /\ Len(line) \in Nat /\ Len(rest) = Len(chunk) + Len(line)
         /\ DOMAIN chunk = 1..Len(chunk) /\ DOMAIN line = 1..Len(line)
         /\ DOMAIN rest = 1..Len(rest)
         /\ \A n \in DOMAIN chunk : n \in DOMAIN rest /\ rest[n] = chunk[n]
         /\ \A n \in DOMAIN line :
                Len(chunk) + n \in DOMAIN rest /\ rest[Len(chunk) + n] = line[n]
<1>1. chunk \in Seq(Bytes) /\ line \in Seq(Bytes) BY DEF WireTypeOK
<1>2. Len(rest) = Len(chunk) + Len(line) /\ DOMAIN rest = 1..Len(rest)
  BY <1>1 DEF rest
<1>3. \A n \in DOMAIN chunk : n \in DOMAIN rest /\ rest[n] = chunk[n]
  BY <1>1 DEF rest
<1>4. \A n \in DOMAIN line :
         Len(chunk) + n \in DOMAIN rest /\ rest[Len(chunk) + n] = line[n]
  BY <1>1 DEF rest
<1> QED BY <1>1, <1>2, <1>3, <1>4

\* The port is opened, a worker starts or ends: nothing has been heard.
LEMMA FreshStep ==
  ASSUME PIInv, UNCHANGED <<console, plan, next, own, ready>>,
         chunk' = <<>>, buf' = <<>>, packet' = NoPacket, heard' = <<>>, fed' = <<>>,
         quiet' = FALSE \/ quiet' = quiet, link' \in {"open", "shut"},
         line' = <<>> \/ (line' = line /\ UNCHANGED <<link, port>>)
  PROVE  PIInv'
<1>1. WireTypeOK'
  <2>1. /\ <<>> \in Seq(Bytes) /\ <<>> \in Seq(Seq(Bytes))
        /\ NoPacket \in [bytes : Seq(Bytes), log : BOOLEAN]
    BY DEF NoPacket
  <2> QED BY <2>1 DEF PIInv, WireTypeOK
<1> DEFINE s == rest  k == Len(chunk)
<1>2. /\ rest' = line' /\ rest' \in Seq(Bytes)
      /\ line' # <<>> => link' = link /\ port' = port
  BY <1>1 DEF WireTypeOK, rest
<1>3. /\ s \in Seq(Bytes) /\ k \in Nat /\ DOMAIN s = 1..Len(s)
      /\ line' # <<>> =>
            /\ Len(s) = k + Len(rest')
            /\ \A n \in DOMAIN rest' : k + n \in DOMAIN s /\ rest'[n] = s[k + n]
  BY <1>2, HeldTypes, WhatArrived DEF PIInv
<1> HIDE DEF s, k
<1>4. Stretch(s) /\ \A n \in DOMAIN s : Before(s[n], next)
  BY DEF PIInv, Unbroken, s
<1>5. /\ DOMAIN rest' = 1..Len(rest') /\ Len(rest') \in Nat
      /\ \A n \in DOMAIN rest' : n \in Nat /\ line' # <<>>
  <2>1. DOMAIN rest' = 1..Len(rest') /\ Len(rest') \in Nat BY <1>2
  <2>2. line' = <<>> => Len(rest') = 0 BY <1>2
  <2> QED BY <2>1, <2>2
<1>6. Stretch(rest')
  <2>1. ASSUME NEW m \in DOMAIN rest', NEW n \in DOMAIN rest', m < n
        PROVE  Before(rest'[m], rest'[n])
    <3>1. line' # <<>> /\ k + m < k + n BY <1>3, <1>5, <2>1
    <3> QED BY <1>3, <1>4, <3>1 DEF Stretch
  <2>2. ASSUME NEW n \in DOMAIN rest', n + 1 \in DOMAIN rest'
        PROVE  rest'[n + 1] = After(rest'[n])
    <3>1. line' # <<>> BY <1>2, <1>5
    <3>2. /\ k + n \in DOMAIN s /\ k + (n + 1) \in DOMAIN s
          /\ rest'[n] = s[k + n] /\ rest'[n + 1] = s[k + (n + 1)]
      BY <1>3, <2>2, <3>1
    <3>3. k + (n + 1) = (k + n) + 1 BY <1>3, <1>5
    <3> QED BY <1>4, <3>2, <3>3 DEF Stretch
  <2> QED BY <2>1, <2>2 DEF Stretch
<1>7. \A n \in DOMAIN rest' : Before(rest'[n], next)
  BY <1>2, <1>3, <1>4, <1>5
<1>8. Unbroken'
  <2>1. ASSUME link' = "open", port' = "up", rest' # <<>> PROVE next = After(Final(rest'))
    <3>1. link = "open" /\ port = "up" BY <1>2, <2>1
    <3>2. Len(rest') >= 1 /\ Len(rest') \in DOMAIN rest' BY <1>2, <1>5, <2>1
    <3>3. Final(rest') = Final(s) /\ s # <<>> BY <1>2, <1>3, <2>1, <3>2 DEF Final
    <3> QED BY <3>1, <3>3 DEF PIInv, Unbroken, s
  <2> QED BY <1>6, <1>7, <2>1 DEF Unbroken
<1>9. Datagrams'
  <2>1. DatagramLeft(<<>>) BY SetupsAssumption DEF DatagramLeft
  <2>2. DatagramsIn(<<>>) BY DEF DatagramsIn
  <2> QED BY <2>1, <2>2 DEF PIInv, Datagrams
<1>10. Joined' BY DEF PIInv, Joined
<1>11. InOrder(fed, former, latter, ToCome)'
  <2>1. ToCome' \in SUBSET ToCome
    <3>1. \A n \in DOMAIN rest' : rest'[n] \in {s[m] : m \in DOMAIN s} BY <1>2, <1>3, <1>5
    <3> QED BY <3>1 DEF ToCome, s
  <2>2. InOrder(fed, former, latter, ToCome') BY <2>1, HeldTypes, OrderLater DEF PIInv
  <2>3. CASE console.framing = "own"
    <3>1. former' = former /\ latter' = latter BY <2>3 DEF former, latter
    <3>2. InOrder(<<>>, former, latter, ToCome') BY <2>2 DEF InOrder
    <3> QED BY <3>1, <3>2
  <2>4. CASE console.framing # "own"
    <3>1. former' = <<>> /\ latter' = <<>> BY <2>4 DEF former, latter, NoPacket
    <3>2. InOrder(<<>>, <<>>, <<>>, ToCome') BY NotWhole DEF InOrder
    <3> QED BY <3>1, <3>2
  <2> QED BY <2>3, <2>4
<1>12. Begun'
  BY SetupsAssumption DEF Begun, EndsWith
<1>13. Kept' BY DEF Kept, WholePackets
<1> QED BY <1>1, <1>8, <1>9, <1>10, <1>11, <1>12, <1>13 DEF PIInv

-----------------------------------------------------------------------------
(* The console sends; the worker reads.                                    *)

LEMMA StretchJoin ==
  ASSUME NEW s \in Seq(Bytes), NEW t \in Seq(Bytes), t # <<>>, Stretch(s), Stretch(t),
         \A n \in DOMAIN s : Before(s[n], t[1]), s # <<>> => t[1] = After(Final(s))
  PROVE  Stretch(s \o t)
<1> DEFINE u == s \o t
<1>1. /\ Len(s) \in Nat /\ Len(t) \in Nat /\ DOMAIN u = 1..(Len(s) + Len(t))
      /\ DOMAIN s = 1..Len(s) /\ DOMAIN t = 1..Len(t) /\ Len(t) >= 1
      /\ \A n \in DOMAIN u : IF n <= Len(s) THEN u[n] = s[n] ELSE u[n] = t[n - Len(s)]
  OBVIOUS
<1> HIDE DEF u
<1>2. ASSUME NEW m \in DOMAIN u, NEW n \in DOMAIN u, m < n PROVE Before(u[m], u[n])
  <2>1. CASE n <= Len(s)
    <3>1. m \in DOMAIN s /\ n \in DOMAIN s /\ u[m] = s[m] /\ u[n] = s[n] BY <1>1, <1>2, <2>1
    <3> QED BY <1>2, <3>1 DEF Stretch
  <2>2. CASE m > Len(s)
    <3>1. /\ m - Len(s) \in DOMAIN t /\ n - Len(s) \in DOMAIN t /\ m - Len(s) < n - Len(s)
          /\ u[m] = t[m - Len(s)] /\ u[n] = t[n - Len(s)]
      BY <1>1, <1>2, <2>2
    <3> QED BY <3>1 DEF Stretch
  <2>3. CASE m <= Len(s) /\ n > Len(s)
    <3> DEFINE k == n - Len(s)
    <3>1. /\ m \in DOMAIN s /\ k \in DOMAIN t /\ 1 \in DOMAIN t /\ u[m] = s[m] /\ u[n] = t[k]
      BY <1>1, <1>2, <2>3
    <3> HIDE DEF k
    <3>2. k = 1 \/ 1 < k BY <1>1, <3>1
    <3>3. Before(s[m], t[1]) BY <3>1
    <3>4. k # 1 => Before(t[1], t[k]) BY <3>1, <3>2 DEF Stretch
    <3>5. s[m] \in Bytes /\ t[1] \in Bytes /\ t[k] \in Bytes BY <3>1
    <3> QED BY <3>1, <3>3, <3>4, <3>5, BeforeTransitive
  <2> QED BY <1>1, <2>1, <2>2, <2>3
<1>3. ASSUME NEW n \in DOMAIN u, n + 1 \in DOMAIN u PROVE u[n + 1] = After(u[n])
  <2>1. CASE n < Len(s)
    <3>1. n \in DOMAIN s /\ n + 1 \in DOMAIN s /\ u[n] = s[n] /\ u[n + 1] = s[n + 1]
      BY <1>1, <1>3, <2>1
    <3> QED BY <3>1 DEF Stretch
  <2>2. CASE n = Len(s)
    <3>1. u[n] = Final(s) /\ s # <<>> /\ u[n + 1] = t[1] BY <1>1, <1>3, <2>2 DEF Final
    <3> QED BY <3>1
  <2>3. CASE n > Len(s)
    <3> DEFINE k == n - Len(s)
    <3>1. k \in DOMAIN t /\ k + 1 \in DOMAIN t /\ u[n] = t[k] /\ u[n + 1] = t[(n + 1) - Len(s)]
      BY <1>1, <1>3, <2>3
    <3>2. (n + 1) - Len(s) = k + 1 BY <1>1
    <3> QED BY <3>1, <3>2 DEF Stretch
  <2> QED BY <1>1, <2>1, <2>2, <2>3
<1>4. Stretch(u) BY <1>2, <1>3 DEF Stretch
<1> QED BY <1>4 DEF u

\* What the console sends at once: a byte, or a datagram from its first byte.
Sent == IF console.transport = "udp" THEN [k \in 1..Size |-> <<next[1], k>>] ELSE <<next>>

LEMMA SentBytes ==
  ASSUME WireTypeOK, Datagrams, Send
  PROVE  /\ Sent \in Seq(Bytes) /\ Sent # <<>> /\ Sent[1] = next /\ Stretch(Sent)
         /\ next' \in Bytes /\ next' = After(Final(Sent))
         /\ Before(next, next') /\ \A n \in DOMAIN Sent : Before(Sent[n], next')
         /\ console.transport = "udp" => next'[2] = 1 /\ DatagramsIn(Sent)
<1>1. next \in Bytes BY DEF WireTypeOK
<1>2. CASE console.transport = "udp"
  <2> DEFINE i == next[1]  d == [k \in 1..Size |-> <<i, k>>]
  <2>1. i \in Nat /\ i > 0 /\ next = <<i, 1>> /\ Sent = d /\ next' = <<i + 1, 1>>
    BY <1>1, <1>2, ByteParts DEF Sent, Send, Datagrams
  <2>2. /\ d \in Seq(Bytes) /\ DOMAIN d = 1..Size /\ Len(d) = Size
        /\ \A k \in 1..Size : d[k] = <<i, k>>
    <3>1. \A k \in 1..Size : <<i, k>> \in Bytes BY <2>1 DEF Bytes
    <3> QED BY <3>1, SetupsAssumption
  <2> HIDE DEF d, i
  <2>3. 1 \in 1..Size /\ d # <<>> /\ Size \in 1..Size BY <2>2, SetupsAssumption
  <2>4. Stretch(d)
    <3>1. \A m, n \in 1..Size : m < n => Before(d[m], d[n]) BY <2>1, <2>2 DEF Before
    <3>2. \A n \in 1..Size : n + 1 \in 1..Size => d[n + 1] = After(d[n])
      BY <2>2, SetupsAssumption DEF After
    <3> QED BY <2>2, <3>1, <3>2 DEF Stretch
  <2>5. next' \in Bytes /\ next' = After(Final(d))
    <3>1. Final(d) = <<i, Size>> BY <2>2, <2>3 DEF Final
    <3> QED BY <2>1, <3>1, SetupsAssumption DEF After, Bytes
  <2>6. \A n \in 1..Size : Before(d[n], next') BY <2>1, <2>2 DEF Before
  <2>7. DatagramsIn(d)
    <3>1. d[1][2] = 1 BY <2>2, <2>3
    <3>2. ASSUME NEW m \in 1..Size, d[m][2] = 1 PROVE m = 1 BY <2>2, <3>2
    <3>3. ASSUME NEW m \in 1..Size, d[m][2] = 1
          PROVE  m + Size - 1 <= Size /\ \A k \in 1..Size : d[m + k - 1] = <<d[m][1], k>>
      <4>1. m = 1 /\ d[m][1] = i BY <3>2, <3>3, <2>2
      <4>2. \A k \in 1..Size : m + k - 1 = k BY <4>1, SetupsAssumption
      <4> QED BY <2>2, <4>1, <4>2, SetupsAssumption
    <3> QED BY <2>2, <3>1, <3>3 DEF DatagramsIn
  <2>8. Before(next, next') BY <2>2, <2>3, <2>6, <2>1
  <2>9. d[1] = next /\ next'[2] = 1 BY <2>1, <2>2, <2>3
  <2>10. \A n \in DOMAIN d : Before(d[n], next') BY <2>2, <2>6
  <2>11. Sent = d BY <2>1
  <2> QED BY <2>2, <2>3, <2>4, <2>5, <2>7, <2>8, <2>9, <2>10, <2>11
<1>3. CASE console.transport # "udp"
  <2>1. Sent = <<next>> /\ next' = After(next) BY <1>3 DEF Sent, Send
  <2>2. Stretch(<<next>>) BY DEF Stretch
  <2>3. Final(<<next>>) = next BY DEF Final
  <2> QED BY <1>1, <1>3, <2>1, <2>2, <2>3, ByteParts
<1> QED BY <1>2, <1>3

LEMMA DatagramsJoin ==
  ASSUME NEW s \in Seq(Bytes), NEW t \in Seq(Bytes), DatagramsIn(s), DatagramsIn(t), t # <<>>
  PROVE  DatagramsIn(s \o t)
<1> DEFINE u == s \o t
<1>1. /\ Len(s) \in Nat /\ Len(t) \in Nat /\ Len(u) = Len(s) + Len(t)
      /\ DOMAIN u = 1..(Len(s) + Len(t))
      /\ DOMAIN s = 1..Len(s) /\ DOMAIN t = 1..Len(t) /\ Len(t) >= 1
      /\ \A n \in DOMAIN u : IF n <= Len(s) THEN u[n] = s[n] ELSE u[n] = t[n - Len(s)]
  OBVIOUS
<1> HIDE DEF u
<1>2. u[1][2] = 1
  <2>1. CASE Len(s) = 0 BY <1>1, <2>1 DEF DatagramsIn
  <2>2. CASE Len(s) # 0 BY <1>1, <2>2 DEF DatagramsIn
  <2> QED BY <2>1, <2>2
<1>3. ASSUME NEW m \in DOMAIN u, u[m][2] = 1
      PROVE  m + Size - 1 <= Len(u) /\ \A k \in 1..Size : u[m + k - 1] = <<u[m][1], k>>
  <2>1. CASE m <= Len(s)
    <3>1. m \in DOMAIN s /\ u[m] = s[m] BY <1>1, <2>1
    <3>2. m + Size - 1 <= Len(s) /\ \A k \in 1..Size : s[m + k - 1] = <<s[m][1], k>>
      BY <1>3, <3>1 DEF DatagramsIn
    <3>3. \A k \in 1..Size : m + k - 1 \in DOMAIN u /\ m + k - 1 <= Len(s)
      BY <1>1, <3>1, <3>2, SetupsAssumption
    <3>4. m + Size - 1 <= Len(u) BY <1>1, <3>1, <3>2, SetupsAssumption
    <3>5. ASSUME NEW k \in 1..Size PROVE u[m + k - 1] = s[m + k - 1]
      BY <1>1, <3>3
    <3> QED BY <3>1, <3>2, <3>4, <3>5
  <2>2. CASE m > Len(s)
    <3> DEFINE j == m - Len(s)
    <3>1. j \in DOMAIN t /\ u[m] = t[j] /\ m = Len(s) + j BY <1>1, <2>2
    <3> HIDE DEF j
    <3>2. j + Size - 1 <= Len(t) /\ \A k \in 1..Size : t[j + k - 1] = <<t[j][1], k>>
      BY <1>3, <3>1 DEF DatagramsIn
    <3>3. \A k \in 1..Size : /\ m + k - 1 \in DOMAIN u /\ m + k - 1 > Len(s)
                             /\ (m + k - 1) - Len(s) = j + k - 1
      BY <1>1, <3>1, <3>2, SetupsAssumption
    <3>4. m + Size - 1 <= Len(u) BY <1>1, <3>1, <3>2, SetupsAssumption
    <3>5. ASSUME NEW k \in 1..Size PROVE u[m + k - 1] = t[j + k - 1]
      BY <1>1, <3>3
    <3> QED BY <3>1, <3>2, <3>4, <3>5
  <2> QED BY <1>1, <2>1, <2>2
<1>4. DatagramsIn(u) BY <1>2, <1>3 DEF DatagramsIn
<1> QED BY <1>4 DEF u

LEMMA SendStep ==
  ASSUME PIInv, Send
  PROVE  PIInv'
<1>1. /\ UNCHANGED <<console, plan, port, link, buffers>> /\ next[1] <= plan.sends
      /\ console.transport # "manual"
      /\ line' = IF link = "open" /\ port = "up" THEN line \o Sent ELSE line
  BY DEF Send, Sent
<1>2. WireTypeOK /\ Unbroken /\ Datagrams /\ Joined BY DEF PIInv
<1>3. /\ Sent \in Seq(Bytes) /\ Sent # <<>> /\ Sent[1] = next /\ Stretch(Sent)
      /\ next' \in Bytes /\ next' = After(Final(Sent))
      /\ Before(next, next') /\ \A n \in DOMAIN Sent : Before(Sent[n], next')
      /\ console.transport = "udp" => next'[2] = 1 /\ DatagramsIn(Sent)
  BY <1>2, SentBytes
<1> DEFINE t == Sent
<1> HIDE DEF t
<1>4. WireTypeOK'
  <2>1. line' \in Seq(Bytes)
    <3>1. line \in Seq(Bytes) BY <1>2 DEF WireTypeOK
    <3> QED BY <1>1, <1>3, <3>1
  <2> QED BY <1>1, <1>2, <1>3, <2>1 DEF WireTypeOK, buffers
<1>5. rest' = IF link = "open" /\ port = "up" THEN rest \o t ELSE rest
  <2>1. chunk \in Seq(Bytes) /\ line \in Seq(Bytes) /\ t \in Seq(Bytes) /\ chunk' = chunk
    BY <1>1, <1>2, <1>3 DEF WireTypeOK, t, buffers
  <2>2. chunk \o (line \o t) = (chunk \o line) \o t BY <2>1
  <2> QED BY <1>1, <2>1, <2>2 DEF rest, t
<1>6. /\ rest \in Seq(Bytes) /\ next \in Bytes /\ heard \in Seq(Bytes)
      /\ \A n \in DOMAIN rest : rest[n] \in Bytes
  BY <1>2, HeldTypes DEF WireTypeOK
<1>7. \A n \in DOMAIN rest : Before(rest[n], next) /\ Before(rest[n], next')
  BY <1>2, <1>3, <1>6, BeforeTransitive DEF Unbroken
<1>8. link = "open" /\ port = "up" =>
        /\ rest' # <<>> /\ Final(rest') = Final(t) /\ Len(t) >= 1
        /\ rest'[1] = IF rest = <<>> THEN next ELSE rest[1]
        /\ \A n \in DOMAIN rest' :
              \/ n \in DOMAIN rest /\ rest'[n] = rest[n]
              \/ \E m \in DOMAIN t : rest'[n] = t[m]
  <2> SUFFICES ASSUME link = "open", port = "up"
               PROVE  /\ rest' # <<>> /\ Final(rest') = Final(t) /\ Len(t) >= 1
                      /\ rest'[1] = IF rest = <<>> THEN next ELSE rest[1]
                      /\ \A n \in DOMAIN rest' :
                            \/ n \in DOMAIN rest /\ rest'[n] = rest[n]
                            \/ \E m \in DOMAIN t : rest'[n] = t[m]
    OBVIOUS
  <2> DEFINE r == rest  q == rest'
  <2>1. /\ r \in Seq(Bytes) /\ t \in Seq(Bytes) /\ t # <<>> /\ t[1] = next /\ q = r \o t
    BY <1>3, <1>5, <1>6 DEF t
  <2> HIDE DEF r, q
  <2>2. /\ Len(r) \in Nat /\ Len(t) \in Nat /\ Len(t) >= 1 /\ Len(q) = Len(r) + Len(t)
        /\ DOMAIN q = 1..Len(q) /\ DOMAIN r = 1..Len(r) /\ DOMAIN t = 1..Len(t)
        /\ \A n \in DOMAIN q : IF n <= Len(r) THEN q[n] = r[n] ELSE q[n] = t[n - Len(r)]
    BY <2>1
  <2>3. Final(q) = Final(t) /\ q # <<>>
    <3>1. Len(q) \in DOMAIN q /\ ~(Len(q) <= Len(r)) /\ Len(q) - Len(r) = Len(t) BY <2>2
    <3>2. q[Len(q)] = t[Len(t)] BY <2>2, <3>1
    <3> QED BY <3>1, <3>2 DEF Final
  <2>4. q[1] = IF r = <<>> THEN next ELSE r[1]
    <3>1. CASE r = <<>> BY <2>1, <2>2, <3>1
    <3>2. CASE r # <<>>
      <4>1. Len(r) >= 1 BY <2>1, <3>2
      <4> QED BY <2>2, <3>2, <4>1
    <3> QED BY <3>1, <3>2
  <2>5. \A n \in DOMAIN q : \/ n \in DOMAIN r /\ q[n] = r[n]
                            \/ \E m \in DOMAIN t : q[n] = t[m]
    <3> SUFFICES ASSUME NEW n \in DOMAIN q, ~(n \in DOMAIN r /\ q[n] = r[n])
                 PROVE  \E m \in DOMAIN t : q[n] = t[m]
      OBVIOUS
    <3>1. n - Len(r) \in DOMAIN t /\ q[n] = t[n - Len(r)] BY <2>2
    <3> QED BY <3>1
  <2> QED BY <2>2, <2>3, <2>4, <2>5 DEF r, q
<1>9. Unbroken'
  <2>1. CASE link = "open" /\ port = "up"
    <3>1. Stretch(rest')
      <4>1. rest # <<>> => t[1] = After(Final(rest)) BY <1>2, <1>3, <2>1 DEF Unbroken, t
      <4> QED BY <1>2, <1>3, <1>5, <1>6, <1>7, <2>1, <4>1, StretchJoin DEF Unbroken, t
    <3>2. \A n \in DOMAIN rest' : Before(rest'[n], next')
      BY <1>3, <1>7, <1>8, <2>1 DEF t
    <3>3. heard # <<>> => rest'[1] = After(Final(heard))
      BY <1>2, <1>8, <2>1 DEF Unbroken
    <3>4. next' = After(Final(rest')) BY <1>3, <1>8, <2>1 DEF t
    <3> QED BY <1>1, <1>2, <1>8, <2>1, <3>1, <3>2, <3>3, <3>4 DEF Unbroken, buffers
  <2>2. CASE ~(link = "open" /\ port = "up")
    BY <1>1, <1>2, <1>5, <1>7, <2>2 DEF Unbroken, buffers
  <2> QED BY <2>1, <2>2
<1>10. Datagrams'
  <2>1. line \in Seq(Bytes) BY <1>2 DEF WireTypeOK
  <2>2. console.transport = "udp" => DatagramsIn(line')
    BY <1>1, <1>2, <1>3, <2>1, DatagramsJoin DEF Datagrams
  <2> QED BY <1>1, <1>2, <1>3, <2>2 DEF Datagrams, buffers
<1>11. Joined'
  <2>1. next[1] \in Nat /\ plan.sends \in Nat BY <1>2, <1>6, ByteParts DEF WireTypeOK, Plans
  <2>2. ~(next[1] > plan.sends) BY <1>1, <2>1
  <2> QED BY <1>1, <1>2, <2>2 DEF Joined, buffers
<1>12. InOrder(fed, former, latter, ToCome)'
  <2>1. fed' = fed /\ former' = former /\ latter' = latter
    BY <1>1 DEF former, latter, buffers
  <2>2. \A b \in ToCome' : b \in Bytes /\ (b \in ToCome \/ \E a \in ToCome : Before(a, b))
    <3> SUFFICES ASSUME NEW b \in ToCome'
                 PROVE  b \in Bytes /\ (b \in ToCome \/ \E a \in ToCome : Before(a, b))
      OBVIOUS
    <3>1. next \in ToCome /\ \A n \in DOMAIN rest : rest[n] \in ToCome BY DEF ToCome
    <3>2. CASE b = next' BY <1>3, <3>1, <3>2
    <3>3. CASE \E n \in DOMAIN rest : b = rest[n] BY <1>6, <3>1, <3>3
    <3>4. ASSUME NEW m \in DOMAIN t, b = t[m]
          PROVE  b \in Bytes /\ (b \in ToCome \/ \E a \in ToCome : Before(a, b))
      <4>1. t \in Seq(Bytes) /\ 1 \in DOMAIN t /\ DOMAIN t \subseteq Nat /\ m >= 1
        BY <1>3, <3>4 DEF t
      <4>2. m = 1 \/ Before(t[1], t[m]) BY <1>3, <4>1 DEF Stretch, t
      <4> QED BY <1>3, <3>1, <3>4, <4>1, <4>2 DEF t
    <3>5. b = next' \/ \E n \in DOMAIN rest' : b = rest'[n] BY DEF ToCome
    <3>6. CASE link = "open" /\ port = "up" BY <1>8, <3>2, <3>3, <3>4, <3>5, <3>6
    <3>7. CASE ~(link = "open" /\ port = "up") BY <1>5, <3>2, <3>3, <3>5, <3>7
    <3> QED BY <3>6, <3>7
  <2>3. InOrder(fed, former, latter, ToCome') BY <1>2, <2>2, HeldTypes, OrderLater DEF PIInv
  <2> QED BY <2>1, <2>3
<1>13. Begun' BY <1>1 DEF PIInv, Begun, latter, buffers
<1>14. Kept' BY <1>1 DEF PIInv, Kept, former, latter, buffers
<1> QED BY <1>4, <1>9, <1>10, <1>11, <1>12, <1>13, <1>14 DEF PIInv

\* What is read of the bytes that arrived, and what is left.
LEMMA Parted ==
  ASSUME NEW s \in Seq(Bytes), NEW n \in 1..Len(s)
  PROVE  LET c == SubSeq(s, 1, n)
             l == SubSeq(s, n + 1, Len(s))
         IN  /\ c \in Seq(Bytes) /\ Len(c) = n /\ \A k \in 1..n : c[k] = s[k]
             /\ l \in Seq(Bytes) /\ Len(l) = Len(s) - n
             /\ \A k \in 1..(Len(s) - n) : l[k] = s[n + k]
             /\ c \o l = s
<1> DEFINE L == Len(s)  c == SubSeq(s, 1, n)  l == SubSeq(s, n + 1, L)  k == L - n
<1>1. L \in Nat /\ n \in Nat /\ n >= 1 /\ n <= L /\ \A j \in 1..L : s[j] \in Bytes
  OBVIOUS
<1>2. k \in Nat /\ L = n + k
  <2> HIDE DEF L
  <2> QED BY <1>1
<1>3. /\ c \in Seq(Bytes) /\ Len(c) = (IF 1 <= n THEN n - 1 + 1 ELSE 0)
      /\ \A j \in 1..(n - 1 + 1) : c[j] = s[1 + j - 1]
  <2>1. 1 \in Int /\ n \in Int /\ \A j \in 1..n : s[j] \in Bytes BY <1>1
  <2> QED BY <2>1, SubSeqProperties
<1>4. /\ l \in Seq(Bytes) /\ Len(l) = (IF n + 1 <= L THEN L - (n + 1) + 1 ELSE 0)
      /\ \A j \in 1..(L - (n + 1) + 1) : l[j] = s[(n + 1) + j - 1]
  <2> HIDE DEF L
  <2>1. n + 1 \in Int /\ L \in Int /\ \A j \in (n + 1)..L : s[j] \in Bytes BY <1>1
  <2> QED BY <2>1, SubSeqProperties
<1> HIDE DEF L, c, l, k
<1>5. L - (n + 1) + 1 = k /\ (~(n + 1 <= L) => k = 0) BY <1>1, <1>2
<1>6. Len(l) = k /\ \A j \in 1..k : l[j] = s[n + j]
  <2>1. Len(l) = k BY <1>4, <1>5
  <2>2. \A j \in 1..k : (n + 1) + j - 1 = n + j BY <1>1, <1>2
  <2> QED BY <1>4, <1>5, <2>1, <2>2
<1>7. Len(c) = n /\ \A j \in 1..n : c[j] = s[j] BY <1>1, <1>3
<1> DEFINE u == c \o l
<1>8. /\ u \in Seq(Bytes) /\ Len(u) = L
      /\ \A j \in 1..L : u[j] = IF j <= n THEN c[j] ELSE l[j - n]
  <2>1. c \in Seq(Bytes) /\ l \in Seq(Bytes) BY <1>3, <1>4
  <2>2. /\ u \in Seq(Bytes) /\ Len(u) = Len(c) + Len(l)
        /\ \A j \in 1..(Len(c) + Len(l)) :
               u[j] = IF j <= Len(c) THEN c[j] ELSE l[j - Len(c)]
    BY <2>1, ConcatProperties
  <2> HIDE DEF u
  <2>3. Len(c) = n /\ Len(c) + Len(l) = L BY <1>2, <1>6, <1>7
  <2> QED BY <2>2, <2>3
<1> HIDE DEF u
<1>9. ASSUME NEW j \in 1..L PROVE u[j] = s[j]
  <2>1. CASE j <= n BY <1>1, <1>7, <1>8, <2>1
  <2>2. CASE j > n
    <3>1. j - n \in 1..k /\ n + (j - n) = j BY <1>1, <1>2, <2>2
    <3> QED BY <1>1, <1>6, <1>8, <2>2, <3>1
  <2> QED BY <1>1, <2>1, <2>2
<1>10. u = s BY <1>8, <1>9 DEF L
<1>11. k = L - n BY DEF k
<1> QED BY <1>3, <1>4, <1>6, <1>7, <1>10, <1>11 DEF L, c, l, u

LEMMA ReadStep ==
  ASSUME PIInv, NEW w \in Threads, Read(w)
  PROVE  PIInv'
<1>1. PICK n \in 1..Len(line) :
        /\ chunk = <<>> /\ link = "open" /\ port = "up" /\ line # <<>>
        /\ console.transport = "udp" => n = Size
        /\ chunk' = SubSeq(line, 1, n)
        /\ line' = SubSeq(line, n + 1, Len(line))
  BY DEF Read, InTurn
<1>2. /\ quiet' = FALSE
      /\ UNCHANGED <<outside, link, buf, own, ready, packet, heard, fed>>
  BY DEF Read
<1>3. WireTypeOK /\ Unbroken /\ Datagrams /\ Joined BY DEF PIInv
<1>4. line \in Seq(Bytes) /\ Len(line) \in Nat /\ DOMAIN line = 1..Len(line) /\ n \in Nat
      /\ n >= 1 /\ n <= Len(line)
  BY <1>3 DEF WireTypeOK
<1> DEFINE c == SubSeq(line, 1, n)  l == SubSeq(line, n + 1, Len(line))
<1>5. /\ c \in Seq(Bytes) /\ Len(c) = n /\ DOMAIN c = 1..n /\ \A k \in 1..n : c[k] = line[k]
      /\ l \in Seq(Bytes) /\ Len(l) = Len(line) - n /\ DOMAIN l = 1..(Len(line) - n)
      /\ \A k \in 1..(Len(line) - n) : l[k] = line[n + k]
      /\ c \o l = line
  <2>1. /\ c \in Seq(Bytes) /\ Len(c) = n /\ \A k \in 1..n : c[k] = line[k]
        /\ l \in Seq(Bytes) /\ Len(l) = Len(line) - n
        /\ \A k \in 1..(Len(line) - n) : l[k] = line[n + k]
        /\ c \o l = line
    BY <1>4, Parted
  <2> HIDE DEF c, l
  <2>2. DOMAIN c = 1..Len(c) /\ DOMAIN l = 1..Len(l) BY <2>1
  <2> QED BY <2>1, <2>2
<1> HIDE DEF c, l
<1>6. chunk' = c /\ line' = l BY <1>1 DEF c, l
<1>7. WireTypeOK' BY <1>1, <1>2, <1>3, <1>5, <1>6 DEF WireTypeOK, outside
<1>8. rest' = rest
  <2>1. rest = line BY <1>1, <1>4 DEF rest
  <2>2. rest' = c \o l BY <1>6 DEF rest
  <2> QED BY <1>5, <2>1, <2>2
<1>9. Unbroken' BY <1>1, <1>2, <1>3, <1>8 DEF Unbroken, outside
<1>10. Datagrams'
  <2> SUFFICES ASSUME console.transport = "udp"
               PROVE  DatagramsIn(l) /\ DatagramLeft(c) /\ buf = <<>>
    BY <1>2, <1>3, <1>6 DEF Datagrams, outside
  <2>1. n = Size /\ DatagramsIn(line) /\ buf = <<>> BY <1>1, <1>3 DEF Datagrams
  <2>2. /\ line[1][2] = 1 /\ \A k \in 1..Size : line[k] = <<line[1][1], k>>
    <3>1. 1 \in DOMAIN line /\ line[1][2] = 1 BY <1>1, <1>4, <2>1 DEF DatagramsIn
    <3>2. \A k \in 1..Size : line[1 + k - 1] = <<line[1][1], k>> BY <2>1, <3>1 DEF DatagramsIn
    <3>3. \A k \in 1..Size : 1 + k - 1 = k BY <1>4, <2>1
    <3> QED BY <3>1, <3>2, <3>3
  <2>3. DatagramLeft(c)
    <3>1. Len(c) = Size /\ DOMAIN c = 1..Size /\ 1 \in 1..Size BY <1>4, <1>5, <2>1
    <3>2. \A k \in 1..Size : c[k] = <<c[1][1], k>> BY <1>5, <2>1, <2>2, <3>1
    <3>3. \A k \in 1..Size : Size - Size + k = k BY <1>4, <2>1
    <3> QED BY <1>4, <2>1, <3>1, <3>2, <3>3 DEF DatagramLeft
  <2>4. DatagramsIn(l)
    <3>1. ASSUME l # <<>> PROVE l[1][2] = 1
      <4>1. Size \in DOMAIN line /\ Size + 1 \in DOMAIN line /\ l[1] = line[Size + 1]
            /\ Size \in 1..Size
        BY <1>4, <1>5, <2>1, <3>1
      <4>2. rest = line BY <1>1, <1>4 DEF rest
      <4>3. line[Size + 1] = After(line[Size]) BY <1>3, <4>1, <4>2 DEF Unbroken, Stretch
      <4>4. line[Size] = <<line[1][1], Size>> BY <2>2, <4>1
      <4> QED BY <4>1, <4>3, <4>4 DEF After
    <3>2. ASSUME NEW m \in DOMAIN l, l[m][2] = 1
          PROVE  m + Size - 1 <= Len(l) /\ \A k \in 1..Size : l[m + k - 1] = <<l[m][1], k>>
      <4>1. n + m \in DOMAIN line /\ l[m] = line[n + m] /\ m \in Nat /\ m >= 1 BY <1>4, <1>5
      <4>2. /\ (n + m) + Size - 1 <= Len(line)
            /\ \A k \in 1..Size : line[(n + m) + k - 1] = <<line[n + m][1], k>>
        BY <2>1, <3>2, <4>1 DEF DatagramsIn
      <4>3. m + Size - 1 <= Len(l) BY <1>4, <1>5, <2>1, <4>1, <4>2
      <4>4. ASSUME NEW k \in 1..Size PROVE l[m + k - 1] = line[(n + m) + k - 1]
        <5>1. m + k - 1 \in 1..(Len(line) - n) /\ n + (m + k - 1) = (n + m) + k - 1
          BY <1>4, <2>1, <4>1, <4>2
        <5> QED BY <1>5, <5>1
      <4> QED BY <4>1, <4>2, <4>3, <4>4
    <3> QED BY <3>1, <3>2 DEF DatagramsIn
  <2> QED BY <2>1, <2>3, <2>4
<1>11. Joined' BY <1>2, <1>3, <1>8 DEF Joined, outside
<1>12. former' = former /\ latter' = latter /\ ToCome' = ToCome
  BY <1>2, <1>8 DEF former, latter, ToCome, outside
<1>13. InOrder(fed, former, latter, ToCome)' BY <1>2, <1>12 DEF PIInv
<1>14. Begun' BY <1>2, <1>12 DEF PIInv, Begun
<1>15. Kept' BY <1>2, <1>12 DEF PIInv, Kept, outside
<1> QED BY <1>7, <1>9, <1>10, <1>11, <1>13, <1>14, <1>15 DEF PIInv

-----------------------------------------------------------------------------
(* A silent line; a packet handled.                                        *)

\* The end of a string of bytes is one of them.
LEMMA FinalByte ==
  ASSUME NEW s \in Seq(Bytes), s # <<>>
  PROVE  /\ Len(s) \in DOMAIN s /\ Len(s) >= 1 /\ Len(s) \in Nat /\ Final(s) \in Bytes
         /\ Final(s) = s[Len(s)]
  BY DEF Final

LEMMA IdleStep ==
  ASSUME PIInv, Prompt, NEW w \in Threads, Idle(w)
  PROVE  PIInv'
<1>1. /\ chunk = <<>> /\ packet = NoPacket /\ line = <<>>
      /\ UNCHANGED <<outside, line, link, chunk, own, ready, heard, fed>>
  BY DEF Idle, Silent, InTurn
<1>2. WireTypeOK /\ Unbroken /\ Datagrams /\ Joined BY DEF PIInv
<1>3. rest' = rest /\ rest = <<>> /\ ToCome' = ToCome
  BY <1>1 DEF rest, ToCome, outside
<1>4. console.transport = "udp" => buf = <<>> BY <1>1, <1>2 DEF Datagrams
<1>5. CASE quiet /\ buf # <<>>
  <2>1. packet' = [bytes |-> buf, log |-> rec = "serial"] /\ buf' = <<>> /\ quiet' = quiet
    BY <1>5 DEF Idle, Flush, Packet
  <2>2. WireTypeOK'
    <3>1. packet' \in [bytes : Seq(Bytes), log : BOOLEAN] /\ buf' \in Seq(Bytes)
      BY <1>2, <2>1 DEF WireTypeOK
    <3> QED BY <1>1, <1>2, <2>1, <3>1 DEF WireTypeOK, outside
  <2>3. Unbroken' BY <1>1, <1>2, <1>3, <2>1 DEF Unbroken, outside
  <2>4. Datagrams' BY <1>1, <1>2, <2>1 DEF Datagrams, outside
  <2>5. Joined' BY <1>1, <1>2, <1>3, <1>5, <2>1 DEF Joined, outside
  <2>6. packet' # NoPacket /\ packet'.bytes = buf BY <1>5, <2>1 DEF NoPacket
  <2>7. CASE console.framing = "own"
    <3>1. former' = former /\ latter' = latter BY <1>1, <2>7 DEF former, latter, outside
    <3>2. InOrder(fed, former, latter, ToCome)' BY <1>1, <1>3, <3>1 DEF PIInv
    <3>3. Begun' BY <1>1, <3>1 DEF PIInv, Begun
    <3>4. Kept' BY <1>1, <2>6, <3>1 DEF PIInv, Kept
    <3> QED BY <2>2, <2>3, <2>4, <2>5, <3>2, <3>3, <3>4 DEF PIInv
  <2>8. CASE console.framing # "own"
    <3>1. /\ former = <<>> /\ latter = buf /\ former' = buf /\ latter' = <<>>
      BY <1>1, <2>1, <2>6, <2>8 DEF former, latter, outside, NoPacket
    <3>2. InOrder(fed, former, latter, ToCome)'
      <4>1. InOrder(fed, buf, <<>>, ToCome)
        BY <1>2, <3>1, HeldTypes, OrderDone DEF PIInv
      <4> QED BY <1>1, <1>3, <3>1, <4>1
    <3>3. Begun'
      <4>1. heard # <<>> /\ Final(heard)[2] = Size BY <1>2, <1>5 DEF Joined
      <4>2. ASSUME NEW i \in Nat, NEW k \in 1..(Size - 1), EndsWith(heard, i, k) PROVE FALSE
        <5>1. k \in 1..k /\ Len(heard) - k + k = Len(heard) /\ k < Size
          BY <1>2, <4>2, SetupsAssumption DEF WireTypeOK
        <5>2. heard[Len(heard)] = <<i, k>> BY <4>2, <5>1 DEF EndsWith
        <5> QED BY <4>1, <5>1, <5>2 DEF Final
      <4> QED BY <1>1, <4>2 DEF Begun
    <3>4. Kept'
      <4>1. \A i : ~IsPacket(<<>>, i) BY NotWhole DEF IsPacket
      <4> QED BY <1>1, <2>6, <3>1, <4>1 DEF PIInv, Kept
    <3> QED BY <2>2, <2>3, <2>4, <2>5, <3>2, <3>3, <3>4 DEF PIInv
  <2> QED BY <2>7, <2>8
<1>6. CASE ~(quiet /\ buf # <<>>)
  <2>1. packet' = packet /\ buf' = buf /\ quiet' = MayPause
    BY <1>6 DEF Idle
  <2>2. quiet' => /\ buf # <<>> => Final(buf)[2] = Size
                  /\ console.framing = "own" => next[1] > plan.sends
    BY <2>1 DEF MayPause, Prompt, Final
  <2>3. quiet' \in BOOLEAN BY <2>1 DEF MayPause
  <2>4. WireTypeOK' BY <1>1, <1>2, <2>1, <2>3 DEF WireTypeOK, outside
  <2>5. Unbroken' BY <1>1, <1>2, <1>3 DEF Unbroken, outside
  <2>6. Datagrams' BY <1>1, <1>2, <2>1 DEF Datagrams, outside
  <2>7. Joined' BY <1>1, <1>2, <1>3, <2>1, <2>2 DEF Joined, outside
  <2>8. former' = former /\ latter' = latter
    BY <1>1, <2>1 DEF former, latter, outside
  <2>9. InOrder(fed, former, latter, ToCome)' BY <1>1, <1>3, <2>8 DEF PIInv
  <2>10. Begun' BY <1>1, <2>8 DEF PIInv, Begun
  <2>11. Kept' BY <1>1, <2>1, <2>8 DEF PIInv, Kept, outside
  <2> QED BY <2>4, <2>5, <2>6, <2>7, <2>9, <2>10, <2>11 DEF PIInv
<1> QED BY <1>5, <1>6

LEMMA HandleStep ==
  ASSUME PIInv, NEW w \in Threads, Handle(w)
  PROVE  PIInv'
<1>1. /\ fed' = Append(fed, former) /\ ready' = <<>> /\ packet' = NoPacket
      /\ UNCHANGED <<outside, line, link, chunk, buf, own, quiet, heard>>
  BY DEF Handle, former
<1>2. WireTypeOK /\ Unbroken /\ Datagrams /\ Joined BY DEF PIInv
<1>3. rest' = rest /\ ToCome' = ToCome BY <1>1 DEF rest, ToCome, outside
<1>4. former' = <<>> /\ latter' = latter
  BY <1>1 DEF former, latter, NoPacket, outside
<1>5. former \in Seq(Bytes) /\ latter \in Seq(Bytes) /\ fed \in Seq(Seq(Bytes))
      /\ ToCome \in SUBSET Bytes
  BY <1>2, HeldTypes
<1>6. WireTypeOK'
  <2>1. fed' \in Seq(Seq(Bytes)) BY <1>1, <1>5
  <2>2. packet' \in [bytes : Seq(Bytes), log : BOOLEAN] BY <1>1 DEF NoPacket
  <2>3. ready' \in Seq(Bytes) BY <1>1
  <2> QED BY <1>1, <1>2, <2>1, <2>2, <2>3 DEF WireTypeOK, outside
<1>7. Unbroken' BY <1>1, <1>2, <1>3 DEF Unbroken, outside
<1>8. Datagrams' BY <1>1, <1>2 DEF Datagrams, outside
<1>9. Joined' BY <1>1, <1>2, <1>3 DEF Joined, outside
<1>10. InOrder(fed, former, latter, ToCome)'
  <2>1. InOrder(Append(fed, former), <<>>, latter, ToCome)
    BY <1>5, OrderHanded DEF PIInv
  <2> QED BY <1>1, <1>3, <1>4, <2>1
<1>11. Begun' BY <1>1, <1>4 DEF PIInv, Begun
<1>12. Kept'
  <2> SUFFICES ASSUME NEW i \in WholePackets(heard)
               PROVE  (\E n \in DOMAIN fed' : IsPacket(fed'[n], i)) \/ IsPacket(latter, i)
    BY <1>1, <1>4 DEF Kept
  <2>1. \/ \E n \in DOMAIN fed : IsPacket(fed[n], i)
        \/ IsPacket(former, i) \/ IsPacket(latter, i)
    BY DEF PIInv, Kept
  <2>2. /\ \A n \in DOMAIN fed : n \in DOMAIN fed' /\ fed'[n] = fed[n]
        /\ Len(fed) + 1 \in DOMAIN fed' /\ fed'[Len(fed) + 1] = former
    BY <1>1, <1>5
  <2> QED BY <2>1, <2>2
<1> QED BY <1>6, <1>7, <1>8, <1>9, <1>10, <1>11, <1>12 DEF PIInv

-----------------------------------------------------------------------------
(* A byte is cut.                                                          *)

\* One byte more is heard: the packet it ends.
LEMMA OneMore ==
  ASSUME NEW s \in Seq(Bytes), NEW c \in Bytes, NEW i \in Nat, NEW k \in Nat \ {0},
         EndsWith(Append(s, c), i, k)
  PROVE  c = <<i, k>> /\ (k > 1 => EndsWith(s, i, k - 1))
<1> DEFINE t == Append(s, c)
<1>1. /\ Len(t) = Len(s) + 1 /\ t[Len(s) + 1] = c /\ Len(s) \in Nat
      /\ \A n \in 1..Len(s) : t[n] = s[n]
  OBVIOUS
<1> HIDE DEF t
<1>2. k <= Len(s) + 1 /\ \A j \in 1..k : t[(Len(s) + 1) - k + j] = <<i, j>>
  <2>1. EndsWith(t, i, k) BY DEF t
  <2>2. k <= Len(t) /\ \A j \in 1..k : t[Len(t) - k + j] = <<i, j>>
    BY <2>1 DEF EndsWith
  <2>3. Len(t) = Len(s) + 1 BY <1>1
  <2> QED BY <2>2, <2>3
<1>3. c = <<i, k>>
  <2>1. k \in 1..k /\ (Len(s) + 1) - k + k = Len(s) + 1 BY <1>1
  <2> QED BY <1>1, <1>2, <2>1
<1>4. ASSUME k > 1 PROVE EndsWith(s, i, k - 1)
  <2>1. k - 1 <= Len(s) BY <1>1, <1>2
  <2>2. ASSUME NEW j \in 1..(k - 1) PROVE s[Len(s) - (k - 1) + j] = <<i, j>>
    <3>1. /\ j \in 1..k /\ (Len(s) + 1) - k + j = Len(s) - (k - 1) + j
          /\ Len(s) - (k - 1) + j \in 1..Len(s)
      BY <1>1, <1>2, <2>1, <1>4
    <3> QED BY <1>1, <1>2, <3>1
  <2> QED BY <2>1, <2>2 DEF EndsWith
<1> QED BY <1>3, <1>4

\* The packets heard whole, one byte later.
LEMMA OneMoreWhole ==
  ASSUME NEW s \in Seq(Bytes), NEW c \in Bytes, NEW i \in WholePackets(Append(s, c))
  PROVE  i \in Nat /\ (i \in WholePackets(s) \/ EndsWith(Append(s, c), i, Size))
<1> DEFINE t == Append(s, c)
<1>1. /\ Len(t) = Len(s) + 1 /\ t[Len(s) + 1] = c /\ Len(s) \in Nat /\ t \in Seq(Bytes)
      /\ DOMAIN t = 1..(Len(s) + 1) /\ DOMAIN s = 1..Len(s)
      /\ \A n \in 1..Len(s) : t[n] = s[n]
  OBVIOUS
<1> HIDE DEF t
<1>2. PICK n \in DOMAIN t :
        n + Size - 1 <= Len(t) /\ \A k \in 1..Size : t[n + k - 1] = <<i, k>>
  BY DEF WholePackets, t
<1>3. i \in Nat
  <2>1. i \in {t[m][1] : m \in DOMAIN t} BY DEF WholePackets, t
  <2> QED BY <1>1, <2>1, ByteParts
<1>4. CASE n + Size - 1 <= Len(s)
  <2>1. n \in DOMAIN s BY <1>1, <1>4, SetupsAssumption
  <2>2. ASSUME NEW k \in 1..Size PROVE s[n + k - 1] = <<i, k>>
    <3>1. n + k - 1 \in 1..Len(s) BY <1>1, <1>4, <2>1, SetupsAssumption
    <3> QED BY <1>1, <1>2, <3>1
  <2>3. s[n][1] = i
    <3>1. 1 \in 1..Size /\ n + 1 - 1 = n BY <1>1, <2>1, SetupsAssumption
    <3>2. s[n + 1 - 1] = <<i, 1>> BY <2>2, <3>1
    <3> QED BY <3>1, <3>2
  <2> QED BY <1>3, <1>4, <2>1, <2>2, <2>3 DEF WholePackets
<1>5. CASE ~(n + Size - 1 <= Len(s))
  <2>1. n = Len(t) - Size + 1 /\ Size <= Len(t)
    BY <1>1, <1>2, <1>5, SetupsAssumption
  <2>2. \A k \in 1..Size : t[Len(t) - Size + k] = <<i, k>>
    <3>1. \A k \in 1..Size : Len(t) - Size + k = n + k - 1 BY <1>1, <2>1, SetupsAssumption
    <3> QED BY <1>2, <3>1
  <2> QED BY <1>3, <2>1, <2>2 DEF EndsWith, t
<1> QED BY <1>4, <1>5

\* The first byte of what arrived, and what comes after it.
LEMMA CutBytes ==
  ASSUME WireTypeOK, Unbroken, Datagrams, NEW w \in Threads, Cut(w)
  PROVE  LET c == Head(chunk)
         IN  /\ c \in Bytes /\ heard' = Append(heard, c) /\ link = "open" /\ ~quiet
             /\ UNCHANGED <<outside, line, link, quiet, fed>> /\ rest # <<>>
             /\ chunk' \in Seq(Bytes)
             /\ Unbroken'
             /\ c \in ToCome /\ ToCome' \subseteq ToCome /\ \A b \in ToCome' : Before(c, b)
             /\ heard # <<>> => c = After(Final(heard))
             /\ console.transport = "udp" =>
                 /\ DatagramLeft(chunk')
                 /\ c[2] = Size <=> Len(chunk) = 1
                 /\ Len(chunk) # 1 => chunk' # <<>>
<1> DEFINE c == Head(chunk)  k == Len(chunk)  s == rest  t == rest'
<1>1. /\ chunk # <<>> /\ chunk' = Tail(chunk) /\ heard' = Append(heard, c)
      /\ UNCHANGED <<outside, line, link, quiet, fed>>
  BY DEF Cut, Ingest
<1>2. chunk \in Seq(Bytes) /\ line \in Seq(Bytes) /\ heard \in Seq(Bytes) /\ next \in Bytes
  BY DEF WireTypeOK
<1>3. /\ k \in Nat /\ k >= 1 /\ c = chunk[1] /\ c \in Bytes /\ DOMAIN chunk = 1..k
      /\ Len(chunk') = k - 1 /\ chunk' \in Seq(Bytes) /\ DOMAIN chunk' = 1..(k - 1)
      /\ \A n \in 1..(k - 1) : chunk'[n] = chunk[n + 1]
  BY <1>1, <1>2
<1>4. link = "open" /\ ~quiet BY <1>1 DEF Unbroken
<1>5. t = Tail(s) /\ s # <<>> /\ s[1] = c /\ s \in Seq(Bytes)
  <2>1. Tail(chunk) \o line = Tail(chunk \o line) BY <1>1, <1>2
  <2>2. 1 \in DOMAIN chunk BY <1>3
  <2> QED BY <1>1, <1>2, <1>3, <2>1, <2>2, WhatArrived, HeldTypes DEF rest
<1> HIDE DEF c, k, s, t
<1>6. /\ Len(s) \in Nat /\ Len(s) >= 1 /\ DOMAIN s = 1..Len(s) /\ Len(t) = Len(s) - 1
      /\ DOMAIN t = 1..(Len(s) - 1) /\ \A n \in 1..(Len(s) - 1) : t[n] = s[n + 1]
      /\ t \in Seq(Bytes) /\ \A n \in DOMAIN t : n \in Nat /\ n >= 1 /\ n + 1 \in DOMAIN s
  BY <1>5
<1>7. Stretch(s) /\ (\A n \in DOMAIN s : Before(s[n], next)) /\ 1 \in DOMAIN s
  BY <1>6 DEF Unbroken, s
<1>8. \A n \in DOMAIN t : Before(c, t[n]) /\ Before(t[n], next)
  <2> SUFFICES ASSUME NEW n \in DOMAIN t PROVE Before(c, t[n]) /\ Before(t[n], next) OBVIOUS
  <2>1. 1 < n + 1 /\ n + 1 \in DOMAIN s /\ t[n] = s[n + 1] BY <1>6
  <2> QED BY <1>5, <1>7, <2>1 DEF Stretch
<1>9. Stretch(t)
  <2>1. ASSUME NEW m \in DOMAIN t, NEW n \in DOMAIN t, m < n PROVE Before(t[m], t[n])
    <3>1. /\ m + 1 \in DOMAIN s /\ n + 1 \in DOMAIN s /\ m + 1 < n + 1
          /\ t[m] = s[m + 1] /\ t[n] = s[n + 1]
      BY <1>6, <2>1
    <3> QED BY <1>7, <3>1 DEF Stretch
  <2>2. ASSUME NEW n \in DOMAIN t, n + 1 \in DOMAIN t PROVE t[n + 1] = After(t[n])
    <3>1. /\ n + 1 \in DOMAIN s /\ (n + 1) + 1 \in DOMAIN s
          /\ t[n] = s[n + 1] /\ t[n + 1] = s[(n + 1) + 1]
      BY <1>6, <2>2
    <3> QED BY <1>7, <3>1 DEF Stretch
  <2> QED BY <2>1, <2>2 DEF Stretch
<1>10. heard' # <<>> /\ Final(heard') = c BY <1>1, <1>2, <1>3 DEF Final
<1>11. t # <<>> => t[1] = After(c) /\ Final(t) = Final(s)
  <2> SUFFICES ASSUME t # <<>> PROVE t[1] = After(c) /\ Final(t) = Final(s) OBVIOUS
  <2>1. Len(t) >= 1 BY <1>6
  <2>2. 1 \in DOMAIN t /\ 1 + 1 \in DOMAIN s /\ t[1] = s[1 + 1] BY <1>6, <2>1
  <2>3. s[1 + 1] = After(s[1]) BY <1>7, <2>2 DEF Stretch
  <2>4. t[Len(t)] = s[Len(s)]
    <3>1. Len(t) \in 1..(Len(s) - 1) /\ Len(t) + 1 = Len(s) BY <1>6, <2>1
    <3> QED BY <1>6, <3>1
  <2> QED BY <1>5, <2>2, <2>3, <2>4 DEF Final
<1>12. t = <<>> => Final(s) = c
  <2>1. t = <<>> => Len(t) = 0 OBVIOUS
  <2>2. Len(s) \in Nat /\ Len(t) = Len(s) - 1 BY <1>6
  <2>3. t = <<>> => Len(s) = 1 BY <2>1, <2>2
  <2> QED BY <1>5, <2>3 DEF Final
<1>13. Unbroken'
  <2>1. link' = "open" /\ port' = "up" => next = After(Final(s))
    BY <1>1, <1>5 DEF Unbroken, s, outside
  <2> QED BY <1>1, <1>4, <1>8, <1>9, <1>10, <1>11, <1>12, <2>1 DEF Unbroken, t, outside
<1>14. c \in ToCome /\ ToCome' \subseteq ToCome /\ \A b \in ToCome' : Before(c, b)
  <2>1. c \in ToCome BY <1>5, <1>7 DEF ToCome, s
  <2>2. \A n \in DOMAIN t : t[n] \in {s[m] : m \in DOMAIN s} BY <1>6
  <2>3. next' = next BY <1>1 DEF outside
  <2>4. Before(c, next) BY <1>5, <1>7
  <2> QED BY <1>8, <2>1, <2>2, <2>3, <2>4 DEF ToCome, s, t
<1>15. heard # <<>> => c = After(Final(heard)) BY <1>5 DEF Unbroken, s
<1>16. ASSUME console.transport = "udp"
       PROVE  DatagramLeft(chunk') /\ (c[2] = Size <=> k = 1) /\ (k # 1 => chunk' # <<>>)
  <2>1. k <= Size /\ \A n \in 1..k : chunk[n] = <<chunk[1][1], Size - k + n>>
    BY <1>3, <1>16 DEF Datagrams, DatagramLeft, k
  <2>2. c = <<c[1], Size - k + 1>>
    <3>1. 1 \in 1..k BY <1>3
    <3> QED BY <1>3, <2>1, <3>1
  <2>3. c[2] = Size <=> k = 1 BY <1>3, <2>2, SetupsAssumption
  <2>4. DatagramLeft(chunk')
    <3>1. ASSUME NEW n \in 1..(k - 1) PROVE chunk'[n] = <<c[1], Size - (k - 1) + n>>
      <4>1. n + 1 \in 1..k /\ Size - k + (n + 1) = Size - (k - 1) + n
        BY <1>3, SetupsAssumption
      <4> QED BY <1>3, <2>1, <4>1
    <3>2. ASSUME NEW n \in 1..(k - 1) PROVE chunk'[1][1] = c[1]
      <4>1. 1 \in 1..(k - 1) BY <1>3
      <4> QED BY <3>1, <4>1
    <3>3. k - 1 <= Size BY <1>3, <2>1, SetupsAssumption
    <3> QED BY <1>3, <3>1, <3>2, <3>3 DEF DatagramLeft
  <2>5. k # 1 => chunk' # <<>>
    <3>1. k # 1 => Len(chunk') # 0 BY <1>3
    <3> QED BY <3>1
  <2> QED BY <2>3, <2>4, <2>5
<1>17. rest # <<>> BY <1>5 DEF s
<1> QED BY <1>1, <1>3, <1>4, <1>13, <1>14, <1>15, <1>16, <1>17 DEF c, k

\* The packet being put together goes on, or it has ended: by the mark of the next,
\* or with its datagram.
Turns(c) == packet' = [bytes |-> buf, log |-> rec = "serial"] /\ buf' = <<c>> /\ buf # <<>>
GoesOn(c) == packet' = packet /\ buf' = Append(buf, c)
Closes(c) == packet' = [bytes |-> Append(buf, c), log |-> rec = "serial"] /\ buf' = <<>>

LEMMA CutWays ==
  ASSUME WireTypeOK, NEW w \in Threads, Cut(w)
  PROVE  LET c == Head(chunk)
             ends == console.transport = "udp" /\ Len(chunk) = 1
             starts == Starts(c) \/ Len(buf) >= MaxBytes
         IN  /\ packet = NoPacket /\ OwnCopy(c)
             /\ \/ ~ends /\ starts /\ Turns(c)
                \/ ~ends /\ (starts => buf = <<>>) /\ GoesOn(c)
                \/ ends /\ Closes(c)
<1> DEFINE c == Head(chunk)
           ends == console.transport = "udp" /\ Len(chunk) = 1
           starts == Starts(c) \/ Len(buf) >= MaxBytes
<1>1. packet = NoPacket /\ OwnCopy(c) BY DEF Cut, Ingest
<1>2. CASE ends BY <1>1, <1>2 DEF Cut, Closes, Packet
<1>3. CASE ~ends
  <2>1. Ingest(c) BY <1>3 DEF Cut
  <2>2. buf = <<>> => Append(buf, c) = <<c>> OBVIOUS
  <2>3. CASE starts /\ buf # <<>> BY <1>1, <1>3, <2>1, <2>3 DEF Ingest, Turns, Packet
  <2>4. CASE starts /\ buf = <<>> BY <1>1, <1>3, <2>1, <2>2, <2>4 DEF Ingest, GoesOn
  <2>5. CASE ~starts BY <1>1, <1>3, <2>1, <2>5 DEF Ingest, GoesOn
  <2> QED BY <2>3, <2>4, <2>5
<1> QED BY <1>2, <1>3

\* Where the decoder does not keep the packets itself: a packet ends with its last
\* byte, and what goes on is not whole yet.
LEMMA CutInTime ==
  ASSUME PIInv, Prompt, NEW w \in Threads, Cut(w), console.framing # "own"
  PROVE  LET c == Head(chunk)
         IN  /\ Turns(c) => c[2] = 1 /\ Final(buf)[2] = Size /\ ~Closes(c)
             /\ (GoesOn(c) \/ Closes(c)) /\ buf # <<>> =>
                    Final(buf)[2] < Size /\ c = <<Final(buf)[1], Final(buf)[2] + 1>>
<1> DEFINE c == Head(chunk)
           ends == console.transport = "udp" /\ Len(chunk) = 1
           starts == Starts(c) \/ Len(buf) >= MaxBytes
<1>1. WireTypeOK /\ Unbroken /\ Datagrams /\ Joined BY DEF PIInv
<1>2. /\ c \in Bytes
      /\ heard # <<>> => c = After(Final(heard))
  BY <1>1, CutBytes
<1>3. /\ \/ ~ends /\ starts /\ Turns(c)
         \/ ~ends /\ (starts => buf = <<>>) /\ GoesOn(c)
         \/ ends /\ Closes(c)
  BY <1>1, CutWays
<1>4. chunk # <<>> /\ buf \in Seq(Bytes) BY <1>1 DEF Cut, WireTypeOK
<1> HIDE DEF c
<1> DEFINE f == Final(buf)
<1>5. ASSUME buf # <<>>
      PROVE  /\ f \in Bytes /\ c = After(f) /\ Len(buf) \in DOMAIN buf /\ Len(buf) >= 1
             /\ Len(buf) \in Nat /\ f = buf[Len(buf)]
  <2>1. heard # <<>> /\ f = Final(heard) BY <1>1, <1>5 DEF Joined
  <2>2. c = After(f) BY <1>2, <2>1
  <2>3. f \in Bytes /\ Len(buf) \in DOMAIN buf /\ Len(buf) >= 1 /\ Len(buf) \in Nat
        /\ f = buf[Len(buf)]
    BY <1>4, <1>5, FinalByte
  <2> QED BY <2>2, <2>3
<1>6. ASSUME buf # <<>>, console.transport = "udp" PROVE f[2] < Size
  BY <1>1, <1>6 DEF Datagrams
<1>7. ASSUME buf # <<>>, Len(buf) >= MaxBytes PROVE f[2] = Size
  <2> DEFINE L == Len(buf)
  <2>1. L \in Nat /\ L >= 1 /\ L \in DOMAIN buf /\ 1 \in DOMAIN buf /\ buf[1] \in Bytes
    BY <1>4, <1>5, <1>7
  <2>2. f = <<buf[1][1], buf[1][2] + L - 1>> BY <1>1, <1>5, <1>7, <2>1 DEF Joined
  <2>3. L >= Size /\ Size \in Nat BY <1>7, SetupsAssumption DEF Prompt
  <2>4. f[2] = buf[1][2] + L - 1 /\ f[2] <= Size /\ buf[1][2] >= 1 /\ buf[1][2] \in Nat
    BY <1>5, <1>7, <2>1, <2>2, ByteParts
  <2> HIDE DEF L, f
  <2>5. f[2] \in Nat /\ f[2] >= Size BY <2>1, <2>3, <2>4
  <2> QED BY <2>3, <2>4, <2>5
<1>8. ASSUME buf # <<>>, f[2] = Size PROVE c[2] = 1
  BY <1>5, <1>8 DEF After
<1>9. ASSUME buf # <<>>, f[2] # Size
      PROVE  f[2] < Size /\ c = <<f[1], f[2] + 1>> /\ c[2] # 1
  <2>1. f[2] \in Nat /\ f[2] >= 1 /\ f[2] <= Size BY <1>5, <1>9, ByteParts
  <2>2. c = <<f[1], f[2] + 1>> BY <1>5, <1>9 DEF After
  <2> QED BY <1>9, <2>1, <2>2, SetupsAssumption
<1>10. Starts(c) => c[2] = 1
  <2>1. console.framing = "header" \/ console.framing = "none"
    BY <1>1 DEF WireTypeOK, Consoles
  <2>2. console.framing = "header" => (Starts(c) <=> c[2] = 1) BY DEF Starts
  <2>3. console.framing = "none" => (Starts(c) <=> FALSE) BY DEF Starts
  <2> QED BY <2>1, <2>2, <2>3
<1>11. Turns(c) => ~Closes(c) /\ ~GoesOn(c)
  <2>1. Turns(c) => buf' = <<c>> BY DEF Turns
  <2>2. Closes(c) => buf' = <<>> BY DEF Closes
  <2>3. Turns(c) /\ GoesOn(c) => packet.bytes = buf /\ packet = NoPacket /\ buf # <<>>
    BY <1>1, CutWays DEF Turns, GoesOn
  <2> QED BY <2>1, <2>2, <2>3 DEF NoPacket
<1>12. Turns(c) => c[2] = 1 /\ f[2] = Size
  <2>1. ASSUME Turns(c), f[2] # Size PROVE FALSE
    <3>1. buf # <<>> /\ starts BY <1>3, <1>11, <2>1 DEF Turns
    <3> QED BY <1>7, <1>9, <1>10, <2>1, <3>1
  <2>2. Turns(c) => buf # <<>> BY DEF Turns
  <2> QED BY <1>8, <2>1, <2>2
<1>13. ASSUME GoesOn(c) \/ Closes(c), buf # <<>> PROVE f[2] # Size
  <2>1. CASE console.transport = "udp" BY <1>6, <1>13, <2>1, <1>5, ByteParts, SetupsAssumption
  <2>2. CASE console.transport # "udp"
    <3>1. console.framing = "header" BY <1>1, <1>4, <2>2 DEF WireTypeOK, Consoles
    <3>2. ~starts BY <1>3, <1>11, <1>13, <2>2
    <3>3. c[2] # 1 BY <3>1, <3>2 DEF Starts
    <3> QED BY <1>8, <1>13, <3>3
  <2> QED BY <2>1, <2>2
<1> QED BY <1>9, <1>11, <1>12, <1>13 DEF c

\* The bytes of a packet as far as the one before c, and c after them.
LEMMA PacketGrows ==
  ASSUME NEW s \in Seq(Bytes), NEW c \in Bytes, NEW i \in Nat, NEW k \in Nat \ {0},
         c = <<i, k>>, k > 1 => Len(s) = k - 1 /\ \A j \in 1..(k - 1) : s[j] = <<i, j>>,
         NEW t, t = IF k = 1 THEN <<c>> ELSE Append(s, c)
  PROVE  Len(t) = k /\ \A j \in 1..k : t[j] = <<i, j>>
<1>1. CASE k = 1 BY <1>1
<1>2. CASE k # 1
  <2>1. /\ Len(s) = k - 1 /\ t = Append(s, c)
        /\ \A j \in 1..(k - 1) : s[j] = <<i, j>>
    BY <1>2
  <2>2. Len(t) = Len(s) + 1 /\ t[Len(s) + 1] = c /\ \A j \in 1..Len(s) : t[j] = s[j]
    BY <2>1
  <2>3. (k - 1) + 1 = k OBVIOUS
  <2>4. Len(t) = k /\ t[k] = <<i, k>> BY <2>1, <2>2, <2>3
  <2>5. \A j \in 1..k : j = k \/ j \in 1..(k - 1) BY <1>2
  <2> QED BY <2>1, <2>2, <2>4, <2>5
<1> QED BY <1>1, <1>2

\* A byte continues the packet that is being heard, or begins the next.
LEMMA BegunOn ==
  ASSUME WireTypeOK, Begun, NEW c \in Bytes, heard' = Append(heard, c),
         c[2] < Size => latter' = IF c[2] = 1 THEN <<c>> ELSE Append(latter, c)
  PROVE  Begun'
<1>1. heard \in Seq(Bytes) /\ latter \in Seq(Bytes) BY HeldTypes DEF WireTypeOK
<1> SUFFICES ASSUME NEW i \in Nat, NEW k \in 1..(Size - 1), EndsWith(Append(heard, c), i, k)
             PROVE  Len(latter') = k /\ \A j \in 1..k : latter'[j] = <<i, j>>
  BY DEF Begun
<1>2. k \in Nat \ {0} /\ k < Size BY SetupsAssumption
<1>3. c = <<i, k>> /\ (k > 1 => EndsWith(heard, i, k - 1)) BY <1>1, <1>2, OneMore
<1>4. latter' = IF k = 1 THEN <<c>> ELSE Append(latter, c) BY <1>2, <1>3
<1>5. k > 1 => Len(latter) = k - 1 /\ \A j \in 1..(k - 1) : latter[j] = <<i, j>>
  <2>1. k > 1 => k - 1 \in 1..(Size - 1) BY <1>2, SetupsAssumption
  <2> QED BY <1>3, <2>1 DEF Begun
<1> QED BY <1>1, <1>2, <1>3, <1>4, <1>5, PacketGrows

\* The last byte of a packet that was heard whole makes it whole where it is kept.
LEMMA WholeAtLast ==
  ASSUME WireTypeOK, Begun, NEW c \in Bytes, NEW i \in Nat,
         EndsWith(Append(heard, c), i, Size)
  PROVE  c[2] = Size /\ IsPacket(IF Size = 1 THEN <<c>> ELSE Append(latter, c), i)
<1>1. heard \in Seq(Bytes) /\ latter \in Seq(Bytes) BY HeldTypes DEF WireTypeOK
<1>2. c = <<i, Size>> /\ (Size > 1 => EndsWith(heard, i, Size - 1))
  BY <1>1, OneMore, SetupsAssumption
<1>3. Size > 1 => Len(latter) = Size - 1 /\ \A j \in 1..(Size - 1) : latter[j] = <<i, j>>
  <2>1. Size > 1 => Size - 1 \in 1..(Size - 1) BY SetupsAssumption
  <2> QED BY <1>2, <2>1 DEF Begun
<1> DEFINE t == IF Size = 1 THEN <<c>> ELSE Append(latter, c)
<1>4. Len(t) = Size /\ \A j \in 1..Size : t[j] = <<i, j>>
  BY <1>1, <1>2, <1>3, PacketGrows, SetupsAssumption
<1> HIDE DEF t
<1>5. t[1] = <<i, 1>> BY <1>4, SetupsAssumption
<1>6. IsPacket(t, i) BY <1>4, <1>5 DEF IsPacket, IsWhole
<1> QED BY <1>2, <1>6 DEF t

\* What cutting a byte does wherever the packets are kept.
LEMMA CutAnywhere ==
  ASSUME PIInv, NEW w \in Threads, Cut(w)
  PROVE  WireTypeOK' /\ Unbroken' /\ Datagrams'
<1> DEFINE c == Head(chunk)
<1>1. WireTypeOK /\ Unbroken /\ Datagrams BY DEF PIInv
<1>2. /\ c \in Bytes /\ heard' = Append(heard, c) /\ link = "open" /\ ~quiet
      /\ UNCHANGED <<outside, line, link, quiet, fed>>
      /\ chunk' \in Seq(Bytes) /\ Unbroken'
      /\ console.transport = "udp" =>
            /\ DatagramLeft(chunk')
            /\ c[2] = Size <=> Len(chunk) = 1
            /\ Len(chunk) # 1 => chunk' # <<>>
  BY <1>1, CutBytes
<1>3. /\ OwnCopy(c)
      /\ \/ Turns(c) \/ GoesOn(c) \/ Closes(c)
      /\ console.transport = "udp" /\ Len(chunk) = 1 => Closes(c)
  BY <1>1, CutWays
<1>4. chunk # <<>> BY DEF Cut
<1> HIDE DEF c
<1>5. buf \in Seq(Bytes) /\ own \in Seq(Bytes) /\ ready \in Seq(Bytes)
  BY <1>1 DEF WireTypeOK
<1>6. own' \in Seq(Bytes) /\ ready' \in Seq(Bytes)
  <2>1. <<c>> \in Seq(Bytes) /\ Append(own, c) \in Seq(Bytes) BY <1>2, <1>5
  <2>2. OwnCopy(c) BY <1>3
  <2>3. CASE console.framing # "own" BY <1>5, <2>2, <2>3 DEF OwnCopy
  <2>4. CASE console.framing = "own" /\ c[2] = 1 BY <1>5, <2>1, <2>2, <2>4 DEF OwnCopy
  <2>5. CASE console.framing = "own" /\ c[2] # 1 BY <1>5, <2>1, <2>2, <2>5 DEF OwnCopy
  <2> QED BY <2>3, <2>4, <2>5
<1>7. /\ buf' \in Seq(Bytes)
      /\ buf' # <<>> => Final(buf') = c
      /\ packet' \in [bytes : Seq(Bytes), log : BOOLEAN]
  <2>1. <<c>> \in Seq(Bytes) /\ Append(buf, c) \in Seq(Bytes) BY <1>2, <1>5
  <2>2. Final(<<c>>) = c /\ Final(Append(buf, c)) = c BY <1>2, <1>5 DEF Final
  <2>3. packet \in [bytes : Seq(Bytes), log : BOOLEAN] BY <1>1 DEF WireTypeOK
  <2>4. CASE Turns(c) BY <1>5, <2>1, <2>2, <2>4 DEF Turns
  <2>5. CASE GoesOn(c) BY <1>5, <2>1, <2>2, <2>3, <2>5 DEF GoesOn
  <2>6. CASE Closes(c) BY <1>5, <2>1, <2>2, <2>6 DEF Closes
  <2> QED BY <1>3, <2>4, <2>5, <2>6
<1>8. WireTypeOK'
  <2>1. heard' \in Seq(Bytes) BY <1>1, <1>2 DEF WireTypeOK
  <2>2. console.transport # "manual" BY <1>1, <1>4 DEF WireTypeOK
  <2> QED BY <1>1, <1>2, <1>6, <1>7, <2>1, <2>2 DEF WireTypeOK, outside
<1>9. Datagrams'
  <2> SUFFICES ASSUME console.transport = "udp", buf' # <<>>
               PROVE  chunk' # <<>> /\ Final(buf')[2] < Size
    BY <1>1, <1>2 DEF Datagrams, outside
  <2>1. Len(chunk) # 1 BY <1>3 DEF Closes
  <2>2. c[2] # Size BY <1>2, <2>1
  <2>3. c[2] < Size BY <1>2, <2>2, ByteParts, SetupsAssumption
  <2> QED BY <1>2, <1>7, <2>1, <2>3
<1> QED BY <1>2, <1>8, <1>9

\* ... where the worker keeps them.
LEMMA CutApart ==
  ASSUME PIInv, Prompt, NEW w \in Threads, Cut(w), console.framing # "own"
  PROVE  Joined' /\ InOrder(fed, former, latter, ToCome)' /\ Begun' /\ Kept'
<1> DEFINE c == Head(chunk)
<1>1. WireTypeOK /\ Unbroken /\ Datagrams /\ Joined /\ Begun /\ Kept BY DEF PIInv
<1>2. /\ c \in Bytes /\ heard' = Append(heard, c) /\ ~quiet
      /\ UNCHANGED <<outside, quiet, fed>>
      /\ c \in ToCome /\ ToCome' \subseteq ToCome /\ \A b \in ToCome' : Before(c, b)
      /\ console.transport = "udp" => (c[2] = Size <=> Len(chunk) = 1)
  BY <1>1, CutBytes
<1>3. /\ packet = NoPacket
      /\ Turns(c) \/ GoesOn(c) \/ Closes(c)
      /\ Closes(c) => console.transport = "udp" /\ Len(chunk) = 1
  <2>1. Turns(c) => ~Closes(c) BY DEF Turns, Closes
  <2>2. GoesOn(c) => ~Closes(c)
    <3>1. buf \in Seq(Bytes) BY <1>1 DEF WireTypeOK
    <3>2. Append(buf, c) # <<>> BY <3>1, <1>2
    <3> QED BY <3>2 DEF GoesOn, Closes
  <2> QED BY <1>1, <2>1, <2>2, CutWays
<1>4. /\ Turns(c) => c[2] = 1 /\ Final(buf)[2] = Size
      /\ (GoesOn(c) \/ Closes(c)) /\ buf # <<>> =>
           Final(buf)[2] < Size /\ c = <<Final(buf)[1], Final(buf)[2] + 1>>
  BY CutInTime
<1> HIDE DEF c
<1>5. /\ buf \in Seq(Bytes) /\ heard \in Seq(Bytes) /\ Append(buf, c) \in Seq(Bytes)
      /\ <<c>> \in Seq(Bytes) /\ c[2] \in Nat /\ c[2] >= 1 /\ c[2] <= Size
      /\ Append(buf, c) # <<>> /\ Append(<<>>, c) = <<c>>
  <2>1. c \in Bytes /\ buf \in Seq(Bytes) /\ heard \in Seq(Bytes)
    BY <1>1, <1>2 DEF WireTypeOK
  <2>2. Append(buf, c) \in Seq(Bytes) /\ <<c>> \in Seq(Bytes) /\ Append(<<>>, c) = <<c>>
    BY <2>1
  <2>3. Append(buf, c) # <<>> BY <2>1
  <2>4. c[2] \in Nat /\ c[2] >= 1 /\ c[2] <= Size BY <2>1, ByteParts
  <2> QED BY <2>1, <2>2, <2>3, <2>4
<1>6. former = <<>> /\ latter = buf /\ former' = packet'.bytes /\ latter' = buf'
  BY <1>2, <1>3 DEF former, latter, outside, NoPacket
<1>7. ASSUME GoesOn(c) \/ Closes(c), buf # <<>>
      PROVE  c[2] # 1 /\ Final(buf) \in Bytes
  BY <1>4, <1>5, <1>7, FinalByte, ByteParts
<1>8. Joined'
  <2>1. buf' # <<>> => heard' # <<>> /\ Final(buf') = Final(heard')
    <3>1. heard' # <<>> /\ Final(heard') = c BY <1>2, <1>5 DEF Final
    <3>2. Final(<<c>>) = c /\ Final(Append(buf, c)) = c BY <1>2, <1>5 DEF Final
    <3> QED BY <1>3, <3>1, <3>2 DEF Turns, GoesOn, Closes
  <2>2. \A n \in DOMAIN buf' : buf'[n] = <<buf'[1][1], buf'[1][2] + n - 1>>
    <3>1. c = <<c[1], c[2] + 1 - 1>> BY <1>2, ByteParts
    <3>2. \A n \in DOMAIN <<c>> : <<c>>[n] = <<c[1], c[2] + n - 1>>
      BY <3>1
    <3>3. CASE Turns(c) \/ (GoesOn(c) /\ buf = <<>>)
      <4>1. buf' = <<c>> BY <1>5, <3>3 DEF Turns, GoesOn
      <4>2. <<c>>[1] = c OBVIOUS
      <4> QED BY <3>2, <4>1, <4>2
    <3>4. CASE GoesOn(c) /\ buf # <<>>
      <4> DEFINE L == Len(buf)  t == Append(buf, c)
      <4>1. L \in DOMAIN buf /\ L >= 1 /\ L \in Nat /\ 1 \in DOMAIN buf /\ buf[1] \in Bytes
            /\ Final(buf) = buf[L] /\ DOMAIN buf = 1..L
        BY <1>5, <3>4, FinalByte
      <4>2. /\ DOMAIN t = 1..(L + 1) /\ t[L + 1] = c /\ \A n \in 1..L : t[n] = buf[n]
        BY <1>2, <1>5
      <4>3. \A n \in 1..L : buf[n] = <<buf[1][1], buf[1][2] + n - 1>>
        BY <1>1, <4>1 DEF Joined
      <4> HIDE DEF L, t
      <4>4. buf[L][1] = buf[1][1] /\ buf[L][2] = buf[1][2] + L - 1 BY <4>1, <4>3
      <4>5. c = <<buf[1][1], buf[1][2] + L - 1 + 1>> BY <1>4, <3>4, <4>1, <4>4
      <4>6. buf[1][2] + L - 1 + 1 = buf[1][2] + (L + 1) - 1 BY <4>1, ByteParts
      <4>7. t[1] = buf[1] BY <4>1, <4>2
      <4>8. \A n \in 1..(L + 1) : n = L + 1 \/ n \in 1..L BY <4>1
      <4>9. \A n \in DOMAIN t : t[n] = <<t[1][1], t[1][2] + n - 1>>
        BY <4>2, <4>3, <4>5, <4>6, <4>7, <4>8
      <4> QED BY <3>4, <4>9 DEF GoesOn, t
    <3>5. CASE Closes(c) BY <3>5 DEF Closes
    <3> QED BY <1>3, <3>3, <3>4, <3>5
  <2> QED BY <1>2, <2>1, <2>2 DEF Joined, outside
<1>9. InOrder(fed, former, latter, ToCome)'
  <2>1. /\ <<>> \in Seq(Bytes) /\ fed \in Seq(Seq(Bytes)) /\ ToCome \in SUBSET Bytes
        /\ ToCome' \in SUBSET Bytes
        /\ InOrder(fed, <<>>, buf, ToCome)
    BY <1>1, <1>2, <1>6, HeldTypes DEF PIInv
  <2>2. CASE Turns(c)
    <3>1. InOrder(fed, buf, <<c>>, ToCome') BY <1>2, <1>5, <2>1, OrderCut
    <3> QED BY <1>2, <1>6, <2>2, <3>1 DEF Turns
  <2>3. InOrder(fed, <<>>, Append(buf, c), ToCome') BY <1>2, <1>5, <2>1, OrderAppend
  <2>4. CASE GoesOn(c)
    <3>1. packet'.bytes = <<>> BY <1>3, <2>4 DEF GoesOn, NoPacket
    <3> QED BY <1>2, <1>6, <2>3, <2>4, <3>1 DEF GoesOn
  <2>5. CASE Closes(c)
    <3>1. InOrder(fed, Append(buf, c), <<>>, ToCome')
      BY <1>5, <2>1, <2>3, OrderDone
    <3> QED BY <1>2, <1>6, <2>5, <3>1 DEF Closes
  <2> QED BY <1>3, <2>2, <2>4, <2>5
<1>10. Begun'
  <2>1. c[2] < Size => latter' = IF c[2] = 1 THEN <<c>> ELSE Append(latter, c)
    <3>1. Closes(c) => c[2] = Size BY <1>2, <1>3
    <3>2. CASE Turns(c) BY <1>4, <1>6, <3>2 DEF Turns
    <3>3. CASE GoesOn(c)
      <4>1. c[2] = 1 => buf = <<>> BY <1>7, <3>3
      <4> QED BY <1>5, <1>6, <3>3, <4>1 DEF GoesOn
    <3> QED BY <1>3, <1>5, <3>1, <3>2, <3>3
  <2> QED BY <1>1, <1>2, <2>1, BegunOn
<1>11. Kept'
  <2> SUFFICES ASSUME NEW i \in WholePackets(heard')
               PROVE  LET Given == \E n \in DOMAIN fed : IsPacket(fed[n], i)
                      IN  /\ Given \/ IsPacket(former', i) \/ IsPacket(latter', i)
                          /\ packet' = NoPacket => Given \/ IsPacket(latter', i)
    BY <1>2 DEF Kept
  <2>1. i \in Nat /\ (i \in WholePackets(heard) \/ EndsWith(Append(heard, c), i, Size))
    BY <1>2, <1>5, OneMoreWhole
  <2>2. /\ Turns(c) => packet' # NoPacket /\ former' = buf /\ latter' = <<c>>
        /\ GoesOn(c) => latter' = Append(buf, c)
        /\ Closes(c) => packet' # NoPacket /\ former' = Append(buf, c)
    <3>1. Turns(c) => packet'.bytes = buf /\ buf # <<>> BY DEF Turns
    <3>2. Closes(c) => packet'.bytes = Append(buf, c) BY DEF Closes
    <3>3. NoPacket.bytes = <<>> BY DEF NoPacket
    <3> QED BY <1>5, <1>6, <3>1, <3>2, <3>3 DEF Turns, GoesOn
  <2>3. CASE i \in WholePackets(heard)
    <3>1. \/ \E n \in DOMAIN fed : IsPacket(fed[n], i)
          \/ IsPacket(buf, i)
      <4>1. ~IsPacket(<<>>, i) BY NotWhole DEF IsPacket
      <4> QED BY <1>1, <1>6, <2>3, <4>1 DEF Kept
    <3>2. ASSUME IsPacket(buf, i) PROVE Turns(c)
      <4>1. IsWhole(buf) BY <3>2 DEF IsPacket
      <4>2. buf # <<>> BY <4>1, NotWhole
      <4>3. Final(buf)[2] = Size
        <5>1. Len(buf) = Size /\ Size \in 1..Size BY <4>1, SetupsAssumption DEF IsWhole
        <5>2. buf[Size] = <<buf[1][1], Size>> BY <4>1, <5>1 DEF IsWhole
        <5> QED BY <5>1, <5>2 DEF Final
      <4> QED BY <1>3, <1>4, <4>2, <4>3, SetupsAssumption
    <3> QED BY <2>2, <3>1, <3>2
  <2>4. CASE EndsWith(Append(heard, c), i, Size)
    <3>1. c[2] = Size /\ IsPacket(IF Size = 1 THEN <<c>> ELSE Append(buf, c), i)
      BY <1>1, <1>2, <1>6, <2>1, <2>4, WholeAtLast
    <3>2. CASE Turns(c)
      <4>1. Size = 1 BY <1>4, <3>1, <3>2
      <4> QED BY <2>2, <3>1, <3>2, <4>1
    <3>3. CASE GoesOn(c) \/ Closes(c)
      <4>1. Size = 1 => buf = <<>> BY <1>7, <3>1, <3>3
      <4>2. IsPacket(Append(buf, c), i) BY <1>5, <3>1, <4>1
      <4> QED BY <2>2, <3>3, <4>2
    <3> QED BY <1>3, <3>2, <3>3
  <2> QED BY <2>1, <2>3, <2>4
<1> QED BY <1>8, <1>9, <1>10, <1>11

\* ... where the decoder keeps them.
LEMMA CutOwn ==
  ASSUME PIInv, NEW w \in Threads, Cut(w), console.framing = "own"
  PROVE  Joined' /\ InOrder(fed, former, latter, ToCome)' /\ Begun' /\ Kept'
<1> DEFINE c == Head(chunk)
           ends == console.transport = "udp" /\ Len(chunk) = 1
<1>1. WireTypeOK /\ Unbroken /\ Datagrams /\ Joined /\ Begun /\ Kept BY DEF PIInv
<1>2. /\ c \in Bytes /\ heard' = Append(heard, c) /\ ~quiet /\ rest # <<>>
      /\ UNCHANGED <<outside, quiet, fed>>
      /\ c \in ToCome /\ ToCome' \subseteq ToCome /\ \A b \in ToCome' : Before(c, b)
      /\ heard # <<>> => c = After(Final(heard))
  BY <1>1, CutBytes
<1>3. /\ packet = NoPacket /\ OwnCopy(c)
      /\ \/ Turns(c)
         \/ ~ends /\ (Starts(c) => buf = <<>>) /\ GoesOn(c)
         \/ ends /\ Closes(c)
  BY <1>1, CutWays
<1> HIDE DEF c
<1>4. /\ buf \in Seq(Bytes) /\ heard \in Seq(Bytes) /\ own \in Seq(Bytes)
      /\ ready \in Seq(Bytes)
  BY <1>1 DEF WireTypeOK
<1>5. c[2] \in Nat /\ c[2] >= 1 /\ c[2] <= Size BY <1>2, ByteParts
<1>6. former = ready /\ latter = own /\ former' = ready' /\ latter' = own'
  BY <1>2 DEF former, latter, outside
<1>7. /\ c[2] = 1 => ready' = own /\ own' = <<c>>
      /\ c[2] # 1 => ready' = ready /\ own' = Append(own, c)
  BY <1>3 DEF OwnCopy
<1>8. /\ Final(<<c>>) = c /\ Final(Append(own, c)) = c /\ Final(Append(buf, c)) = c
      /\ heard' # <<>> /\ Final(heard') = c
      /\ <<c>> # <<>> /\ Append(own, c) # <<>> /\ Append(buf, c) # <<>>
  <2>1. ASSUME NEW s \in Seq(Bytes) PROVE Final(Append(s, c)) = c /\ Append(s, c) # <<>>
    <3> DEFINE t == Append(s, c)
    <3>1. Len(t) = Len(s) + 1 /\ t[Len(s) + 1] = c /\ Len(s) \in Nat BY <1>2
    <3>2. t = <<>> => Len(t) = 0 OBVIOUS
    <3> HIDE DEF t
    <3>3. Final(t) = c /\ t # <<>> BY <3>1, <3>2 DEF Final
    <3> QED BY <3>3 DEF t
  <2>2. Final(<<c>>) = c /\ <<c>> # <<>> BY DEF Final
  <2> QED BY <1>2, <1>4, <2>1, <2>2
<1>9. ASSUME buf # <<>>, console.transport = "udp" PROVE c[2] # 1
  <2>1. Final(buf)[2] < Size /\ heard # <<>> /\ Final(buf) = Final(heard)
    BY <1>1, <1>9 DEF Datagrams, Joined
  <2>2. Final(buf) \in Bytes BY <1>4, <1>9, FinalByte
  <2>3. c = <<Final(buf)[1], Final(buf)[2] + 1>>
    <3>1. Final(buf)[2] # Size BY <2>1, <2>2, ByteParts, SetupsAssumption
    <3> QED BY <1>2, <2>1, <3>1 DEF After
  <2> QED BY <2>2, <2>3, ByteParts
<1>10. Joined'
  <2>1. buf' # <<>> => Final(buf') = c
    BY <1>3, <1>8 DEF Turns, GoesOn, Closes
  <2>2. own' # <<>> /\ Final(own') = c BY <1>7, <1>8
  <2>3. buf' = <<>> => console.transport = "udp"
    BY <1>3, <1>8 DEF Turns, GoesOn
  <2> QED BY <1>2, <1>8, <2>1, <2>2, <2>3 DEF Joined, outside
<1>11. InOrder(fed, former, latter, ToCome)'
  <2>1. /\ fed \in Seq(Seq(Bytes)) /\ ToCome \in SUBSET Bytes /\ ToCome' \in SUBSET Bytes
        /\ InOrder(fed, ready, own, ToCome)
    BY <1>1, <1>2, <1>6, HeldTypes DEF PIInv
  <2>2. CASE c[2] = 1
    <3>1. InOrder(fed, own, <<c>>, ToCome') BY <1>2, <1>4, <2>1, OrderCut
    <3> QED BY <1>2, <1>6, <1>7, <2>2, <3>1
  <2>3. CASE c[2] # 1
    <3>1. InOrder(fed, ready, Append(own, c), ToCome') BY <1>2, <1>4, <2>1, OrderAppend
    <3> QED BY <1>2, <1>6, <1>7, <2>3, <3>1
  <2> QED BY <2>2, <2>3
<1>12. Begun'
  <2>1. latter' = IF c[2] = 1 THEN <<c>> ELSE Append(latter, c) BY <1>6, <1>7
  <2> QED BY <1>1, <1>2, <2>1, BegunOn
<1>13. packet' # NoPacket \/ GoesOn(c)
  <2>1. Turns(c) => packet'.bytes # <<>> BY DEF Turns
  <2>2. Closes(c) => packet'.bytes # <<>> BY <1>8 DEF Closes
  <2>3. NoPacket.bytes = <<>> BY DEF NoPacket
  <2> QED BY <1>3, <2>1, <2>2, <2>3
<1>14. GoesOn(c) => buf' # <<>> BY <1>8 DEF GoesOn
<1>15. Kept'
  <2> SUFFICES ASSUME NEW i \in WholePackets(heard')
               PROVE  LET Given == \E n \in DOMAIN fed : IsPacket(fed[n], i)
                      IN  /\ Given \/ IsPacket(ready', i) \/ IsPacket(own', i)
                          /\ packet' = NoPacket =>
                               \/ Given \/ IsPacket(own', i)
                               \/ console.transport = "udp" /\ buf' # <<>>
    BY <1>2, <1>6 DEF Kept, outside
  <2> DEFINE Given == \E n \in DOMAIN fed : IsPacket(fed[n], i)
  <2>1. i \in Nat /\ (i \in WholePackets(heard) \/ EndsWith(Append(heard, c), i, Size))
    BY <1>2, <1>4, OneMoreWhole
  <2>2. CASE i \in WholePackets(heard)
    <3>1. heard # <<>> BY <2>2 DEF WholePackets
    <3>2. /\ Given \/ IsPacket(ready, i) \/ IsPacket(own, i)
          /\ Given \/ IsPacket(own, i) \/ (console.transport = "udp" /\ buf # <<>>)
      BY <1>1, <1>3, <1>6, <2>2 DEF Kept
    <3>3. own # <<>> /\ Final(own) = Final(heard) BY <1>1, <3>1 DEF Joined
    <3>4. CASE c[2] = 1
      <4>1. Given \/ IsPacket(own, i) BY <1>9, <3>2, <3>4
      <4>2. GoesOn(c) => packet' # NoPacket \/ console.transport = "udp"
        <5>1. Starts(c) BY <3>3, <3>4 DEF Starts
        <5>2. ASSUME GoesOn(c), packet' = NoPacket, console.transport # "udp" PROVE FALSE
          <6>1. buf = <<>>
            <7>1. Closes(c) => packet'.bytes # <<>> BY <1>8 DEF Closes
            <7>2. Turns(c) => packet'.bytes # <<>> BY DEF Turns
            <7>3. NoPacket.bytes = <<>> BY DEF NoPacket
            <7> QED BY <1>3, <5>1, <5>2, <7>1, <7>2, <7>3
          <6> QED BY <1>1, <1>2, <3>1, <5>2, <6>1 DEF Joined
        <5> QED BY <5>2
      <4> QED BY <1>7, <1>13, <1>14, <3>4, <4>1, <4>2
    <3>5. CASE c[2] # 1
      <4>1. ~IsPacket(own, i)
        <5>1. ASSUME IsPacket(own, i) PROVE FALSE
          <6>1. Len(own) = Size /\ Size \in 1..Size /\ own[Size] = <<own[1][1], Size>>
            BY <5>1, SetupsAssumption DEF IsPacket, IsWhole
          <6>2. Final(heard)[2] = Size BY <3>3, <6>1 DEF Final
          <6>3. c[2] = 1 BY <1>2, <3>1, <6>2 DEF After
          <6> QED BY <3>5, <6>3
        <5> QED BY <5>1
      <4> QED BY <1>7, <1>13, <1>14, <3>2, <3>5, <4>1
    <3> QED BY <3>4, <3>5
  <2>3. CASE EndsWith(Append(heard, c), i, Size)
    <3>1. c[2] = Size /\ IsPacket(IF Size = 1 THEN <<c>> ELSE Append(own, c), i)
      BY <1>1, <1>2, <1>6, <2>1, <2>3, WholeAtLast
    <3>2. IsPacket(own', i) BY <1>7, <3>1
    <3> QED BY <3>2
  <2> QED BY <2>1, <2>2, <2>3
<1> QED BY <1>10, <1>11, <1>12, <1>15

LEMMA CutStep ==
  ASSUME PIInv, Prompt, NEW w \in Threads, Cut(w)
  PROVE  PIInv'
  BY CutAnywhere, CutApart, CutOwn DEF PIInv

-----------------------------------------------------------------------------
(* Every step.                                                             *)

LEMMA InitPIInv ==
  ASSUME Marked, WireInit
  PROVE  PIInv
<1> USE DEF WireInit
<1>1. PICK s \in Setups : console = s.console /\ plan = s.plan OBVIOUS
<1>2. /\ console \in Consoles /\ plan \in Plans
      /\ console.framing = "none" => console.transport \in {"udp", "manual"}
  BY <1>1, SetupsAssumption DEF Marked
<1>3. <<1, 1>> \in Bytes BY SetupsAssumption DEF Bytes
<1>4. NoPacket \in [bytes : Seq(Bytes), log : BOOLEAN] /\ NoPacket.bytes = <<>>
  BY DEF NoPacket
<1>5. WireTypeOK
  <2>1. <<>> \in Seq(Bytes) /\ <<>> \in Seq(Seq(Bytes)) OBVIOUS
  <2> QED BY <1>2, <1>3, <1>4, <2>1 DEF WireTypeOK
<1>6. rest = <<>> /\ former = <<>> /\ latter = <<>>
  BY <1>4 DEF rest, former, latter
<1>7. Unbroken BY <1>6 DEF Unbroken, Stretch
<1>8. Datagrams
  <2>1. DatagramsIn(<<>>) /\ DatagramLeft(<<>>)
    BY SetupsAssumption DEF DatagramsIn, DatagramLeft
  <2> QED BY <2>1 DEF Datagrams
<1>9. Joined BY DEF Joined
<1>10. InOrder(fed, former, latter, ToCome) BY <1>6, NotWhole DEF InOrder
<1>11. Begun BY SetupsAssumption DEF Begun, EndsWith
<1>12. Kept BY DEF Kept, WholePackets
<1> QED BY <1>5, <1>7, <1>8, <1>9, <1>10, <1>11, <1>12 DEF PIInv

\* A step of a worker that reads the console.
LEMMA TurnPIInv ==
  ASSUME PIInv, TypeOK, Prompt, Sessions = {}, NEW w \in Threads, WorkerTurn(w)
  PROVE  PIInv'
<1>1. Live(w) BY DEF TypeOK, Live
<1>2. WireTypeOK BY DEF PIInv
<1>3. CASE Open(w)
  <2>1. UNCHANGED <<outside, chunk, own, ready, packet>> /\ chunk = <<>> /\ packet = NoPacket
    BY <1>3 DEF Open, InTurn
  <2>2. CASE port = "up"
    BY <1>3, <2>1, <2>2, FreshStep DEF Open, outside
  <2>3. CASE port # "up"
    <3>1. UNCHANGED <<link, line, buf, quiet, heard, fed>> BY <1>3, <2>3 DEF Open
    <3> QED BY <1>2, <2>1, <3>1, UnmovedStep DEF WireTypeOK, outside, buffers
  <2> QED BY <2>2, <2>3
<1>4. CASE LinkError(w)
  <2>1. UNCHANGED <<outside, line, buffers>> /\ chunk = <<>> /\ link' = "shut"
    BY <1>4 DEF LinkError, InTurn
  <2> QED BY <1>2, <2>1, UnmovedStep DEF WireTypeOK, outside
<1>5. CASE IdleManual(w) \/ EndTurn(w)
  <2>1. UNCHANGED <<outside, line, link, buffers>> BY <1>5 DEF IdleManual, EndTurn
  <2> QED BY <1>2, <2>1, UnmovedStep DEF WireTypeOK, outside
<1>6. CASE Dies(w)
  <2>1. UNCHANGED <<outside, line, link, own, ready, quiet>> BY <1>6 DEF Dies
  <2> QED BY <1>2, <1>6, <2>1, FreshStep DEF Dies, WireTypeOK, outside
<1>7. ~(Token(w) \/ LastPacket(w) \/ Rewind(w) \/ PlayedOut(w) \/ Unreadable(w))
  BY <1>1 DEF Token, LastPacket, Rewind, PlayedOut, Unreadable
<1> QED BY <1>3, <1>4, <1>5, <1>6, <1>7, ReadStep, CutStep, IdleStep, HandleStep DEF WorkerTurn

LEMMA WireUnmoved ==
  ASSUME PIInv, UNCHANGED wire
  PROVE  PIInv'
<1>1. WireTypeOK BY DEF PIInv
<1> QED BY <1>1, UnmovedStep DEF wire, outside, WireTypeOK

LEMMA NextPIInv ==
  ASSUME PIInv, TypeOK, Prompt, Sessions = {}, [WireNext]_wvars
  PROVE  PIInv'
<1>1. WireTypeOK BY DEF PIInv
<1>2. ASSUME NEW w \in Threads, WireStep(w) PROVE PIInv'
  <2>1. CASE WorkerTurn(w) BY <2>1, TurnPIInv
  <2>2. CASE StartReading(w)
    BY <1>1, <2>2, FreshStep DEF StartReading, outside
  <2>3. CASE Elsewhere(w) BY <2>3, WireUnmoved DEF Elsewhere
  <2> QED BY <1>2, <2>1, <2>2, <2>3 DEF WireStep
<1>3. CASE Send BY <1>3, SendStep
<1>4. ASSUME PortFails \/ PortReturns PROVE PIInv'
  <2>1. plan' \in Plans /\ plan'.sends = plan.sends
    BY <1>1, <1>4 DEF WireTypeOK, PortFails, PortReturns, Plans
  <2>2. UNCHANGED <<console, next, line, buffers, link>>
        /\ (link = "open" /\ port' = "up" => port = "up")
    BY <1>4 DEF PortFails, PortReturns
  <2> QED BY <1>1, <2>1, <2>2, UnmovedStep DEF WireTypeOK
<1>5. CASE Post \/ RecordStart \/ RecordStop
  <2>1. plan' \in Plans /\ plan'.sends = plan.sends
    BY <1>1, <1>5 DEF WireTypeOK, Post, RecordStart, RecordStop, Plans, outside
  <2>2. UNCHANGED <<console, next, line, buffers, link, port>>
    BY <1>5 DEF Post, RecordStart, RecordStop, outside
  <2> QED BY <1>1, <2>1, <2>2, UnmovedStep DEF WireTypeOK
<1>6. ASSUME UNCHANGED wire PROVE PIInv' BY <1>6, WireUnmoved
<1> QED BY <1>2, <1>3, <1>4, <1>5, <1>6 DEF WireNext, AskRestart, wvars

LEMMA InvPackets == PIInv => PacketsAsSent
<1> SUFFICES ASSUME PIInv PROVE PacketsAsSent OBVIOUS
<1>1. WireTypeOK /\ Kept /\ InOrder(fed, former, latter, ToCome) BY DEF PIInv
<1> DEFINE given == {n \in DOMAIN fed : IsWhole(fed[n])}
           held == {buf, packet.bytes, own, ready}
<1>2. \A m, n \in given : m < n => fed[m][1][1] < fed[n][1][1] BY <1>1 DEF InOrder
<1>3. former \in held /\ latter \in held BY DEF former, latter
<1>4. ASSUME NEW i \in WholePackets(heard)
      PROVE  \/ \E n \in given : fed[n][1][1] = i
             \/ \E p \in held : IsWhole(p) /\ p[1][1] = i
  BY <1>1, <1>3 DEF Kept, IsPacket
<1> QED BY <1>2, <1>4 DEF PacketsAsSent

\* What a console sends arrives: a packet heard whole from a port, a socket or
\* datagrams is handed to the decoder whole, once and in its turn, or is held,
\* whatever fails, is opened again, restarted or recorded in between.  Supposed: no
\* recording is played, the console ends in time each packet it begins, and packets
\* that bear no mark are datagrams (_ingest_byte, _run_live_serial and the others).
THEOREM PacketsArrive ==
    Prompt /\ Marked /\ Sessions = {} => (WireSpec => []PacketsAsSent)
<1> SUFFICES ASSUME Prompt, Marked, Sessions = {} PROVE WireSpec => []PacketsAsSent
  OBVIOUS
<1>1. WireSpec => []TypeOK BY WireImplementsLifecycle, TypeCorrect, PTL
<1>2. WireInit => PIInv BY InitPIInv
<1>3. PIInv /\ TypeOK /\ [WireNext]_wvars => PIInv' BY NextPIInv
<1> QED BY <1>1, <1>2, <1>3, InvPackets, PTL DEF WireSpec
=============================================================================
