----------------------------- MODULE RelayProofs -----------------------------
(***************************************************************************)
(* Proofs about what is relayed and whom it is told: RelayLink, for any     *)
(* number of threads, meets, frames and presses (one relay thread goes on,  *)
(* and what the cloud shows of a meet implements RelayedBoard), and Follows, *)
(* for any start lists, registrations and frames (a heat that settles is    *)
(* told, once, and the follow stays where the meet is).                     *)
(***************************************************************************)
EXTENDS RelayLink, Follows, TLAPS

\* Of the cases the code leaves open, those about who runs the link ...
Alone == "StopWhileConnecting" \notin Allowed /\ "ToggleInTest" \notin Allowed

\* ... and those about what goes out on it (README, "Cases").
InTurn ==
    /\ Alone /\ "MeetInRegister" \notin Allowed
    /\ "ExportInSchedule" \notin Allowed /\ "FrameInSnapshot" \notin Allowed

-----------------------------------------------------------------------------
(* Who runs.                                                               *)

NoneAlive == \A t \in Threads : ~Alive(t)

\* A thread is started when no other is left, none connects during a test, and
\* a test begins with the link as the operator left it.
ThreadInv ==
    /\ thread \in Threads /\ pc \in [Threads -> Steps]
    /\ \A t \in Threads : Alive(t) => t = thread
    /\ ~cloud_on => \A t \in Threads : Alive(t) => t \in stopped
    /\ local_only => \A t \in Threads : /\ Alive(t) => t \in stopped
                                        /\ pc[t] \notin Connecting
    /\ was_running => local_only /\ cloud_on

-----------------------------------------------------------------------------
(* What goes out.                                                          *)

\* Frames are numbered in order, and those of a test leave the board with it.
BoardInv ==
    /\ frames \in Nat /\ frames <= MaxFrames
    /\ board \in [Keys -> Nat] /\ \A k \in Keys : board[k] <= frames
    /\ tested \subseteq Nat /\ \A v \in tested : v <= frames
    /\ emitting \in Keys \cup {None}
    /\ ~local_only => \A k \in Keys : board[k] \notin tested

\* What is shown of a meet, or is about to be, is on the board or was before.
ShownInv ==
    /\ shown \in [Meets -> [Keys -> Nat]]
    /\ \A m \in Meets, k \in Keys : shown[m][k] <= board[k]
    /\ copied = [t \in Threads |-> copied[t]]
    /\ \A t \in Threads : pc[t] = "send" =>
          /\ copied[t] \in [Keys -> Nat]
          /\ \A k \in Keys : /\ copied[t][k] \notin tested
                             /\ copied[t][k] <= board[k]
                             /\ \A m \in Meets : shown[m][k] <= copied[t][k]

\* Sockets are numbered in order; the open one is the thread's.
Unlinked == {"unborn", "top", "asking", "connect", "done"}
Linked == {"register", "publish", "schedule", "list", "copy", "send", "recv"}

SocketInv ==
    /\ meet \in Meets /\ socks \in Nat /\ socks <= MaxSocks
    /\ open \subseteq 1 .. socks /\ client \in 0 .. socks
    /\ ws \in [Threads -> 0 .. socks]
    /\ bound \in [1 .. MaxSocks -> Meets \cup {None}]
    /\ \A s \in 1 .. MaxSocks : s > socks => bound[s] = None
    /\ \A s \in open : s = ws[thread]
    /\ \A t \in Threads : /\ pc[t] \in Unlinked => ws[t] = 0
                          /\ pc[t] \in Linked => ws[t] # 0
                          /\ pc[t] = "register" =>
                               bound[ws[t]] = None /\ ws[t] # client

\* A meet that an open socket feeds is served by it, and one that none serves
\* shows nothing.
ServedInv ==
    /\ served \in [Meets -> Nat]
    /\ \A s \in open : bound[s] # None => served[bound[s]] = s
    /\ \A m \in Meets : served[m] = 0 => shown[m] = Nothing

\* A socket is sent the start list of the meet it is bound to.
ListInv ==
    /\ lists \in [Meets -> Nat \ {0}]
    /\ schedules = [m \in Meets |-> schedules[m]]
    /\ \A m \in Meets :
          \/ schedules[m] = NoSchedule
          \/ \E e \in 1 .. lists[m] : schedules[m] = [of |-> m, export |-> e]
    /\ built = [t \in Threads |-> built[t]]
    /\ \A t \in Threads :
          /\ pc[t] \in Registered => bound[ws[t]] \in {None, meet}
          /\ pc[t] = "list" => built[t] \in {NoSchedule, Schedule}
    /\ ~loading /\ connected /\ client \in open => bound[client] \in {None, meet}
    /\ announcing => ~loading

IInv == ThreadInv /\ BoardInv /\ ShownInv /\ SocketInv /\ ServedInv /\ ListInv

-----------------------------------------------------------------------------
(* One thread.                                                             *)

LEMMA InitThreads == Init => ThreadInv
<1> SUFFICES ASSUME Init PROVE ThreadInv OBVIOUS
<1>1. thread \in Threads
  BY NoneAssumption DEF Init
<1>2. pc = [t \in Threads |-> IF t = thread THEN "top" ELSE "unborn"]
  BY DEF Init
<1>3. pc \in [Threads -> Steps] /\ \A t \in Threads : Alive(t) => t = thread
  BY <1>2 DEF Steps, Alive
<1> QED BY <1>1, <1>3 DEF Init, ThreadInv

\* Where a thread's step leads: on, and to a connection only outside a test.
LEMMA StepGoes ==
  ASSUME NEW t \in Threads, Step(t)
  PROVE  /\ Alive(t) /\ UNCHANGED <<thread, stopped, local_only, was_running, cloud_on>>
         /\ \E x \in Steps \ {"unborn"} :
              /\ pc' = [pc EXCEPT ![t] = x]
              /\ x \in Connecting => ~local_only \/ pc[t] \in Connecting
<1> USE DEF Goto, Alive, Steps, Connecting, Registered, Sending, pi, meets
<1>1. CASE Top(t) BY <1>1 DEF Top
<1>2. CASE Assigned(t) BY <1>2 DEF Assigned
<1>3. CASE Connect(t) \/ ConnectFails(t) BY <1>3 DEF Connect, ConnectFails
<1>4. CASE Register(t) \/ PublishClient(t) BY <1>4 DEF Register, PublishClient
<1>5. CASE BuildSchedule(t) \/ SendSchedule(t) BY <1>5 DEF BuildSchedule, SendSchedule
<1>6. CASE CopyBoard(t) \/ SendBoard(t) BY <1>6 DEF CopyBoard, SendBoard
<1>7. CASE RecvStopped(t) \/ RecvRejected(t) BY <1>7 DEF RecvStopped, RecvRejected
<1>8. CASE Broken(t) \/ Finally(t) BY <1>8 DEF Broken, Finally
<1> QED BY <1>1, <1>2, <1>3, <1>4, <1>5, <1>6, <1>7, <1>8 DEF Step

LEMMA StepThreads ==
  ASSUME ThreadInv, NEW t \in Threads, Step(t) PROVE ThreadInv'
<1>1. PICK x \in Steps \ {"unborn"} :
        /\ pc' = [pc EXCEPT ![t] = x]
        /\ x \in Connecting => ~local_only \/ pc[t] \in Connecting
  BY StepGoes
<1>2. Alive(t) /\ UNCHANGED <<thread, stopped, local_only, was_running, cloud_on>>
  BY StepGoes
<1>3. pc' \in [Threads -> Steps] /\ \A u \in Threads : Alive(u)' => Alive(u)
  BY <1>1, <1>2 DEF ThreadInv, Alive
<1>4. local_only => \A u \in Threads : pc'[u] \notin Connecting
  BY <1>1 DEF ThreadInv
<1> QED BY <1>2, <1>3, <1>4 DEF ThreadInv

\* A thread is started where none is left.
LEMMA StartThreads ==
  ASSUME ThreadInv, NoneAlive, StartRelay, cloud_on', ~local_only', ~was_running', UNCHANGED stopped
  PROVE  ThreadInv'
<1>1. PICK t \in Threads : thread' = t /\ pc' = [pc EXCEPT ![t] = "top"]
  BY DEF StartRelay, Goto
<1>2. pc' \in [Threads -> Steps] /\ \A u \in Threads : Alive(u)' => u = t
  BY <1>1 DEF ThreadInv, NoneAlive, Alive, Steps
<1> QED BY <1>1, <1>2 DEF ThreadInv

LEMMA ToggleThreads ==
  ASSUME Alone, ThreadInv, CloudToggle PROVE ThreadInv'
<1>1. /\ ~local_only /\ UNCHANGED <<local_only, was_running>>
      /\ \/ Running /\ StopRelay /\ UNCHANGED <<thread, pc>>
         \/ ~Running /\ StartRelay /\ UNCHANGED <<stopped, open>>
      /\ cloud_on' = ~Running
  BY DEF CloudToggle, Alone, meets
<1>2. CASE Running /\ StopRelay /\ UNCHANGED <<thread, pc>>
  BY <1>1, <1>2 DEF ThreadInv, StopRelay, Alive
<1>3. CASE ~Running /\ StartRelay /\ UNCHANGED <<stopped, open>>
  <2>1. NoneAlive
    BY <1>3, NoneAssumption DEF ThreadInv, Running, NoneAlive
  <2> QED BY <1>1, <1>3, <2>1, StartThreads DEF ThreadInv
<1> QED BY <1>1, <1>2, <1>3

LEMMA TestThreads ==
  ASSUME Alone, ThreadInv, BeginTest \/ EndTest PROVE ThreadInv'
<1>1. Ended /\ \A t \in stopped : pc[t] = "done"
  BY DEF BeginTest, EndTest, Ended, Alone
<1>2. CASE BeginTest
  <2>1. /\ UNCHANGED <<cloud_on, thread, pc>>
        /\ was_running' = Running /\ local_only' = TRUE
        /\ \A t \in Threads : pc[t] \notin Connecting
        /\ \/ Running /\ stopped' = stopped \cup {thread}
           \/ ~Running /\ stopped' = stopped
    BY <1>2 DEF BeginTest, StopRelay, Alone
  <2>2. Running => cloud_on
    BY <1>1 DEF ThreadInv, Running, Alive
  <2>3. \A t \in Threads : Alive(t) => t \in stopped'
    BY <2>1, NoneAssumption DEF ThreadInv, Running
  <2>4. ~cloud_on' => \A t \in Threads : Alive(t)' => t \in stopped'
    BY <2>1, <2>3 DEF Alive
  <2> QED BY <2>1, <2>2, <2>3, <2>4 DEF ThreadInv, Alive
<1>3. CASE EndTest
  <2>1. /\ local_only /\ ~local_only' /\ ~was_running' /\ UNCHANGED <<cloud_on, stopped>>
        /\ \/ was_running /\ StartRelay
           \/ ~was_running /\ UNCHANGED <<thread, pc>>
    BY <1>3 DEF EndTest
  <2>2. NoneAlive
    BY <1>1, <2>1 DEF ThreadInv, NoneAlive, Alive
  <2>3. CASE was_running /\ StartRelay
    BY <2>1, <2>2, <2>3, StartThreads DEF ThreadInv
  <2>4. CASE ~was_running /\ UNCHANGED <<thread, pc>>
    BY <2>1, <2>4 DEF ThreadInv, Alive
  <2> QED BY <2>1, <2>3, <2>4
<1> QED BY <1>2, <1>3

\* The steps that leave the threads as they are.
Elsewhere ==
    \/ \E k \in Keys : PublishFrame(k)
    \/ RelayEmit \/ FinishHeat
    \/ LoadMeet \/ UpdateMetadata \/ Reread \/ Announce
    \/ LoseLink \/ \E s \in 1..MaxSocks : CloudNotices(s)

LEMMA ElsewhereKeeps ==
  ASSUME Elsewhere
  PROVE  UNCHANGED <<threads, local_only, was_running, cloud_on>>
BY DEF Elsewhere, PublishFrame, RelayEmit, FinishHeat, LoadMeet, UpdateMetadata,
       Reread, Announce, LoseLink, CloudNotices, pi, meets

LEMMA NextThreads == Alone /\ ThreadInv /\ [Next]_vars => ThreadInv'
<1> SUFFICES ASSUME Alone, ThreadInv, [Next]_vars PROVE ThreadInv' OBVIOUS
<1>1. ASSUME NEW t \in Threads, Step(t) PROVE ThreadInv'
  BY <1>1, StepThreads
<1>2. CASE CloudToggle BY <1>2, ToggleThreads
<1>3. CASE BeginTest \/ EndTest BY <1>3, TestThreads
<1>4. CASE Elsewhere \/ UNCHANGED vars
  <2>1. UNCHANGED <<threads, local_only, was_running, cloud_on>>
    BY <1>4, ElsewhereKeeps DEF vars, pi, meets
  <2> QED BY <2>1 DEF ThreadInv, threads, Alive
<1> QED BY <1>1, <1>2, <1>3, <1>4 DEF Next, Elsewhere

\* While no test begins as the thread connects, and the link is left alone in
\* one, a single relay thread goes on, and none once it is switched off
\* (relay.start, relay.stop).
THEOREM OneRelayThread == Alone => (Spec => []OneThread)
<1>1. ThreadInv => OneThread BY DEF ThreadInv, OneThread
<1> SUFFICES ASSUME Alone PROVE Spec => []OneThread OBVIOUS
<1>2. ThreadInv /\ [Next]_vars => ThreadInv' BY NextThreads
<1> QED BY <1>1, <1>2, InitThreads, PTL DEF Spec

-----------------------------------------------------------------------------
(* The sockets.                                                            *)

LEMMA BoundOfSocks == MaxSocks \in Nat
  BY LimitsAssumption DEF MaxSocks

LEMMA InitSockets == Init => SocketInv
<1> SUFFICES ASSUME Init PROVE SocketInv OBVIOUS
<1>1. \A t \in Threads : pc[t] \in {"top", "unborn"}
  BY DEF Init
<1>2. meet \in Meets
  BY NoneAssumption DEF Init
<1>3. /\ socks = 0 /\ open = {} /\ client = 0 /\ ws = [t \in Threads |-> 0]
      /\ bound = [s \in 1 .. MaxSocks |-> None]
  BY DEF Init
<1> QED BY <1>1, <1>2, <1>3, BoundOfSocks DEF SocketInv, Unlinked, Linked

\* Whatever has a socket is the thread that goes on.
LEMMA OneLinked ==
  ASSUME ThreadInv, NEW t \in Threads, Step(t)
  PROVE  t = thread /\ \A u \in Threads \ {t} : pc[u] \in {"unborn", "done"}
BY StepGoes DEF ThreadInv, Alive

\* A step that opens no socket, closes none and binds none.
LEMMA PlainStepSockets ==
  ASSUME ThreadInv, SocketInv, NEW t \in Threads, Step(t),
         UNCHANGED <<meet, socks, open, client, ws, bound>>,
         NEW x \in Steps \ {"register"}, pc' = [pc EXCEPT ![t] = x],
         x \in Unlinked => ws[t] = 0, x \in Linked => ws[t] # 0
  PROVE  SocketInv'
<1>1. UNCHANGED thread
  BY StepGoes
<1>2. \A u \in Threads \ {t} : pc'[u] = pc[u]
  BY DEF ThreadInv
<1>3. pc'[t] = x
  BY DEF ThreadInv
<1> QED BY <1>1, <1>2, <1>3 DEF SocketInv

LEMMA StepSockets ==
  ASSUME ThreadInv, SocketInv, NEW t \in Threads, Step(t) PROVE SocketInv'
<1>1. t = thread /\ \A u \in Threads \ {t} : pc[u] \in {"unborn", "done"}
  BY OneLinked
<1>2. UNCHANGED thread
  BY StepGoes
<1>3. /\ pc[t] \in Unlinked => ws[t] = 0
      /\ pc[t] \in Linked => ws[t] # 0
  BY DEF SocketInv
<1>4. CASE Top(t)
  <2>1. PICK x \in {"done", "connect", "asking"} : pc' = [pc EXCEPT ![t] = x]
    BY <1>4 DEF Top, Goto
  <2>2. pc[t] = "top" /\ UNCHANGED <<meet, socks, open, client, ws, bound>>
    BY <1>4 DEF Top, link, cloud, pi, meets
  <2> QED BY <1>3, <2>1, <2>2, PlainStepSockets DEF Unlinked, Linked, Steps, Connecting
<1>5. CASE Assigned(t)
  <2>1. PICK x \in {"top", "connect"} : pc' = [pc EXCEPT ![t] = x]
    BY <1>5 DEF Assigned, Goto
  <2>2. pc[t] = "asking" /\ UNCHANGED <<meet, socks, open, client, ws, bound>>
    BY <1>5 DEF Assigned, cloud, pi, meets
  <2> QED BY <1>3, <2>1, <2>2, PlainStepSockets DEF Unlinked, Linked, Steps, Connecting
<1>6. CASE Connect(t)
  <2>1. /\ pc[t] = "connect" /\ socks < MaxSocks /\ socks' = socks + 1 /\ meet' = meet
        /\ ws' = [ws EXCEPT ![t] = socks + 1] /\ open' = open \cup {socks + 1}
        /\ pc' = [pc EXCEPT ![t] = "register"] /\ UNCHANGED <<client, bound>>
    BY <1>6 DEF Connect, Goto, link, cloud, pi, meets
  <2>2. open = {}
    BY <1>1, <1>3, <2>1 DEF SocketInv, Unlinked
  <2>3. ws'[t] = socks + 1 /\ pc'[t] = "register"
    BY <2>1 DEF SocketInv, ThreadInv
  <2>4. \A u \in Threads \ {t} : ws'[u] = ws[u] /\ pc'[u] = pc[u]
    BY <2>1 DEF SocketInv, ThreadInv
  <2>5. socks + 1 \in 1 .. MaxSocks /\ bound[socks + 1] = None
    BY <2>1, BoundOfSocks DEF SocketInv
  <2>6. ws' \in [Threads -> 0 .. socks'] /\ open' \subseteq 1 .. socks' /\ client' \in 0 .. socks'
    BY <2>1, <2>2 DEF SocketInv
  <2>7. socks' \in Nat /\ socks' <= MaxSocks
    BY <2>1, BoundOfSocks DEF SocketInv
  <2>8. \A s \in 1 .. MaxSocks : s > socks' => bound'[s] = None
    BY <2>1, BoundOfSocks DEF SocketInv
  <2>9. ws'[t] # client'
    BY <2>1, <2>3 DEF SocketInv
  <2>10. \A u \in Threads : /\ pc'[u] \in Unlinked => ws'[u] = 0
                            /\ pc'[u] \in Linked => ws'[u] # 0
                            /\ pc'[u] = "register" => bound'[ws'[u]] = None /\ ws'[u] # client'
    BY <1>1, <2>1, <2>3, <2>4, <2>5, <2>9 DEF SocketInv, Unlinked, Linked
  <2> QED BY <1>1, <1>2, <2>1, <2>2, <2>3, <2>6, <2>7, <2>8, <2>10 DEF SocketInv
<1>7. CASE ConnectFails(t) \/ Broken(t) \/ RecvStopped(t) \/ RecvRejected(t)
  <2>1. pc' = [pc EXCEPT ![t] = "finally"] /\ UNCHANGED <<meet, socks, open, client, ws, bound>>
    BY <1>7 DEF ConnectFails, Broken, RecvStopped, RecvRejected, Goto, link, cloud, pi, meets
  <2> QED BY <2>1, PlainStepSockets DEF Unlinked, Linked, Steps
<1>8. CASE Register(t)
  <2>1. /\ pc[t] = "register" /\ ws[t] \in open /\ pc' = [pc EXCEPT ![t] = "publish"]
        /\ UNCHANGED <<socks, open, client, ws, meet>>
        /\ bound' \in {bound, [bound EXCEPT ![ws[t]] = meet]}
    BY <1>8 DEF Register, RegisterOn, Usable, Goto, link, pi, meets
  <2>2. ws[t] \in 1 .. socks /\ ws[t] \in 1 .. MaxSocks
    BY <2>1, BoundOfSocks DEF SocketInv
  <2>3. bound' \in [1 .. MaxSocks -> Meets \cup {None}]
    BY <2>1, <2>2 DEF SocketInv
  <2>4. ASSUME NEW s \in 1 .. MaxSocks, s > socks' PROVE bound'[s] = None
    <3>1. s # ws[t] /\ bound[s] = None
      BY <2>1, <2>2, <2>4, BoundOfSocks DEF SocketInv
    <3> QED BY <2>1, <3>1 DEF SocketInv
  <2>5. pc'[t] = "publish" /\ \A u \in Threads \ {t} : pc'[u] = pc[u]
    BY <2>1 DEF ThreadInv
  <2>6. \A u \in Threads : /\ pc'[u] \in Unlinked => ws[u] = 0
                           /\ pc'[u] \in Linked => ws[u] # 0
                           /\ pc'[u] # "register"
    BY <1>1, <2>2, <2>5 DEF SocketInv, Unlinked, Linked
  <2> QED BY <1>2, <2>1, <2>3, <2>4, <2>6 DEF SocketInv
<1>9. CASE PublishClient(t)
  <2>1. /\ pc[t] = "publish" /\ pc' = [pc EXCEPT ![t] = "schedule"]
        /\ client' = ws[t] /\ UNCHANGED <<socks, open, ws, bound, meet>>
    BY <1>9 DEF PublishClient, Goto, cloud, pi, meets
  <2>2. pc'[t] = "schedule" /\ \A u \in Threads \ {t} : pc'[u] = pc[u]
    BY <2>1 DEF ThreadInv
  <2>3. \A u \in Threads : /\ pc'[u] \in Unlinked => ws[u] = 0
                           /\ pc'[u] \in Linked => ws[u] # 0
                           /\ pc'[u] # "register"
    BY <1>1, <1>3, <2>1, <2>2 DEF SocketInv, Unlinked, Linked
  <2>4. client' \in 0 .. socks
    BY <2>1 DEF SocketInv
  <2> QED BY <1>2, <2>1, <2>3, <2>4 DEF SocketInv
<1>10. CASE BuildSchedule(t) \/ SendSchedule(t) \/ CopyBoard(t) \/ SendBoard(t)
  <2>1. PICK x \in {"list", "copy", "send", "recv"} :
          /\ pc' = [pc EXCEPT ![t] = x] /\ pc[t] \in Linked
          /\ UNCHANGED <<meet, socks, open, client, ws, bound>>
    BY <1>10 DEF BuildSchedule, SendSchedule, CopyBoard, SendBoard, Goto, link, cloud, pi, meets, Linked
  <2> QED BY <1>3, <2>1, PlainStepSockets DEF Unlinked, Linked, Steps, Connecting, Registered, Sending
<1>11. CASE Finally(t)
  <2>1. /\ pc' = [pc EXCEPT ![t] = "top"] /\ client' \in {0, client}
        /\ open' = open \ {ws[t]} /\ ws' = [ws EXCEPT ![t] = 0]
        /\ UNCHANGED <<socks, bound, meet>>
    BY <1>11 DEF Finally, Goto, cloud, pi, meets
  <2>2. pc'[t] = "top" /\ ws'[t] = 0
    BY <2>1 DEF ThreadInv, SocketInv
  <2>3. \A u \in Threads \ {t} : pc'[u] = pc[u] /\ ws'[u] = ws[u]
    BY <2>1 DEF ThreadInv, SocketInv
  <2>4. open' = {}
    BY <1>1, <2>1 DEF SocketInv
  <2>5. \A u \in Threads : /\ pc'[u] \in Unlinked => ws'[u] = 0
                           /\ pc'[u] \in Linked => ws'[u] # 0
                           /\ pc'[u] # "register"
    BY <1>1, <2>2, <2>3 DEF SocketInv, Unlinked, Linked
  <2>6. ws' \in [Threads -> 0 .. socks] /\ client' \in 0 .. socks
    BY <2>1 DEF SocketInv
  <2> QED BY <2>1, <2>4, <2>5, <2>6 DEF SocketInv
<1> QED BY <1>4, <1>5, <1>6, <1>7, <1>8, <1>9, <1>10, <1>11 DEF Step

\* Sockets that close, and bindings that end or follow the published socket.
LEMMA FewerSockets ==
  ASSUME SocketInv, UNCHANGED <<socks, client, ws, thread, pc>>, open' \subseteq open,
         meet' \in Meets, bound' \in [1 .. MaxSocks -> Meets \cup {None}],
         \A s \in 1 .. MaxSocks : bound'[s] \in {None, bound[s]} \/ s = client
  PROVE  SocketInv'
<1>1. client <= socks /\ \A s \in 1 .. MaxSocks : s > socks => bound'[s] = None
  BY BoundOfSocks DEF SocketInv
<1>2. \A t \in Threads : pc[t] = "register" => bound'[ws[t]] = None
  <2> SUFFICES ASSUME NEW t \in Threads, pc[t] = "register" PROVE bound'[ws[t]] = None OBVIOUS
  <2>1. ws[t] \in 1 .. MaxSocks /\ ws[t] # client /\ bound[ws[t]] = None
    BY BoundOfSocks DEF SocketInv, Linked
  <2> QED BY <2>1
<1> QED BY <1>1, <1>2 DEF SocketInv

\* A thread started where none is left finds every socket closed.
LEMMA StartSockets ==
  ASSUME ThreadInv, SocketInv, NoneAlive, StartRelay,
         UNCHANGED <<meet, socks, client, ws, open, bound>>
  PROVE  SocketInv'
<1>1. PICK t \in Threads : pc[t] = "unborn" /\ thread' = t /\ pc' = [pc EXCEPT ![t] = "top"]
  BY DEF StartRelay, Goto
<1>2. \A u \in Threads : ws[u] = 0 /\ pc[u] \in {"unborn", "done"}
  BY DEF NoneAlive, Alive, SocketInv, Unlinked
<1>3. open = {}
  BY <1>2 DEF SocketInv, ThreadInv
<1>4. \A u \in Threads : pc'[u] \in {"top", "unborn", "done"}
  BY <1>1, <1>2 DEF ThreadInv
<1> QED BY <1>1, <1>2, <1>3, <1>4 DEF SocketInv, Unlinked, Linked

LEMMA PressSockets ==
  ASSUME Alone, ThreadInv, SocketInv, CloudToggle \/ BeginTest \/ EndTest PROVE SocketInv'
<1>1. /\ UNCHANGED <<meet, socks, client, ws, bound>>
      /\ \/ open' \subseteq open /\ UNCHANGED <<thread, pc>>
         \/ /\ StartRelay /\ UNCHANGED open
            /\ ~Running \/ (local_only /\ Ended)
  BY DEF CloudToggle, BeginTest, EndTest, StopRelay, link, cloud, meets
<1>2. CASE open' \subseteq open /\ UNCHANGED <<thread, pc>>
  <2>1. meet' \in Meets /\ bound' \in [1 .. MaxSocks -> Meets \cup {None}]
    BY <1>1 DEF SocketInv
  <2> QED BY <1>1, <1>2, <2>1, FewerSockets
<1>3. CASE StartRelay /\ UNCHANGED open /\ (~Running \/ (local_only /\ Ended))
  <2>1. NoneAlive
    BY <1>3, NoneAssumption DEF NoneAlive, ThreadInv, Running, Ended, Alone, Alive
  <2> QED BY <1>1, <1>3, <2>1, StartSockets
<1> QED BY <1>1, <1>2, <1>3

LEMMA ElsewhereSockets ==
  ASSUME SocketInv, Elsewhere PROVE SocketInv'
<1>1. UNCHANGED <<socks, client, ws, thread, pc>> /\ open' \subseteq open
  BY DEF Elsewhere, PublishFrame, RelayEmit, FinishHeat, LoadMeet, UpdateMetadata, Reread,
         Announce, LoseLink, CloudNotices, threads, link
<1>2. meet' \in Meets
  BY DEF SocketInv, Elsewhere, PublishFrame, RelayEmit, FinishHeat, LoadMeet, UpdateMetadata,
         Reread, Announce, LoseLink, CloudNotices, pi, meets
<1>3. \/ UNCHANGED bound
      \/ client \in 1 .. socks /\ bound' = [bound EXCEPT ![client] = meet]
      \/ \E s \in 1 .. MaxSocks : bound' = [bound EXCEPT ![s] = None]
  BY DEF SocketInv, Elsewhere, PublishFrame, RelayEmit, FinishHeat, LoadMeet, UpdateMetadata,
         RegisterOn, Reread, Announce, LoseLink, CloudNotices, cloud
<1>4. /\ bound' \in [1 .. MaxSocks -> Meets \cup {None}]
      /\ \A s \in 1 .. MaxSocks : bound'[s] \in {None, bound[s]} \/ s = client
  BY <1>3, BoundOfSocks DEF SocketInv
<1> QED BY <1>1, <1>2, <1>4, FewerSockets

LEMMA NextSockets == Alone /\ ThreadInv /\ SocketInv /\ [Next]_vars => SocketInv'
<1> SUFFICES ASSUME Alone, ThreadInv, SocketInv, [Next]_vars PROVE SocketInv' OBVIOUS
<1>1. ASSUME NEW t \in Threads, Step(t) PROVE SocketInv'
  BY <1>1, StepSockets
<1>2. CASE CloudToggle \/ BeginTest \/ EndTest BY <1>2, PressSockets
<1>3. CASE Elsewhere BY <1>3, ElsewhereSockets
<1>4. CASE UNCHANGED vars
  BY <1>4 DEF vars, pi, meets, threads, link, cloud, SocketInv
<1> QED BY <1>1, <1>2, <1>3, <1>4 DEF Next, Elsewhere

-----------------------------------------------------------------------------
(* The board, on the Pi and at the cloud.                                  *)

LEMMA InitBoards == Init => BoardInv /\ ShownInv /\ ServedInv
<1> SUFFICES ASSUME Init PROVE BoardInv /\ ShownInv /\ ServedInv OBVIOUS
<1>1. /\ board = Nothing /\ shown = [m \in Meets |-> Nothing] /\ served = [m \in Meets |-> 0]
      /\ frames = 0 /\ tested = {} /\ emitting = None /\ open = {}
      /\ copied = [t \in Threads |-> Nothing] /\ \A t \in Threads : pc[t] \in {"top", "unborn"}
  BY DEF Init
<1>2. MaxFrames \in Nat
  BY LimitsAssumption
<1>3. Nothing \in [Keys -> Nat] /\ \A k \in Keys : Nothing[k] = 0
  BY DEF Nothing
<1> QED BY <1>1, <1>2, <1>3 DEF BoardInv, ShownInv, ServedInv

\* A thread's step publishes nothing.
LEMMA StepBoard ==
  ASSUME NEW t \in Threads, Step(t) PROVE UNCHANGED <<scoreboard, local_only>>
BY DEF Step, Top, Assigned, Connect, ConnectFails, Register, PublishClient, BuildSchedule,
       SendSchedule, CopyBoard, SendBoard, RecvStopped, RecvRejected, Broken, Finally, pi

LEMMA NextBoard == BoardInv /\ [Next]_vars => BoardInv'
<1> SUFFICES ASSUME BoardInv, [Next]_vars PROVE BoardInv' OBVIOUS
<1>1. CASE UNCHANGED <<scoreboard, local_only>>
  BY <1>1 DEF BoardInv, scoreboard
<1>2. ASSUME NEW k \in Keys, PublishFrame(k) PROVE BoardInv'
  <2>1. /\ frames < MaxFrames /\ frames' = frames + 1 /\ emitting' = k /\ UNCHANGED local_only
        /\ board' = [board EXCEPT ![k] = frames + 1]
        /\ tested' = IF local_only THEN tested \cup {frames + 1} ELSE tested
    BY <1>2 DEF PublishFrame, pi
  <2>2. MaxFrames \in Nat
    BY LimitsAssumption
  <2>3. board' \in [Keys -> Nat] /\ \A j \in Keys : board'[j] \in {board[j], frames + 1}
    BY <2>1 DEF BoardInv
  <2>4. \A j \in Keys : board'[j] <= frames'
    BY <2>1, <2>3 DEF BoardInv
  <2>5. tested' \subseteq Nat /\ \A v \in tested' : v <= frames'
    BY <2>1 DEF BoardInv
  <2>6. ~local_only => \A j \in Keys : board'[j] \notin tested'
    BY <2>1, <2>3 DEF BoardInv
  <2> QED BY <2>1, <2>2, <2>3, <2>4, <2>5, <2>6 DEF BoardInv
<1>3. CASE RelayEmit
  BY <1>3 DEF RelayEmit, BoardInv, pi
<1>4. CASE BeginTest
  BY <1>4 DEF BeginTest, BoardInv, scoreboard
<1>5. CASE EndTest
  <2>1. /\ frames < MaxFrames /\ frames' = frames + 1 /\ UNCHANGED <<emitting, tested>>
        /\ board' = [k \in Keys |-> frames + 1]
    BY <1>5 DEF EndTest
  <2>2. MaxFrames \in Nat
    BY LimitsAssumption
  <2>3. \A k \in Keys : board'[k] = frames' /\ frames' \notin tested
    BY <2>1 DEF BoardInv
  <2> QED BY <2>1, <2>2, <2>3 DEF BoardInv
<1>6. CASE FinishHeat \/ CloudToggle \/ LoadMeet \/ UpdateMetadata \/ Reread \/ Announce \/ LoseLink
  BY <1>6, <1>1 DEF FinishHeat, CloudToggle, LoadMeet, UpdateMetadata, Reread, Announce, LoseLink,
       pi, meets
<1>7. ASSUME NEW s \in 1 .. MaxSocks, CloudNotices(s) PROVE BoardInv'
  BY <1>7, <1>1 DEF CloudNotices, pi
<1>8. CASE UNCHANGED vars
  BY <1>8, <1>1 DEF vars, pi
<1> QED BY <1>1, <1>2, <1>3, <1>4, <1>5, <1>6, <1>7, <1>8, StepBoard DEF Next

-----------------------------------------------------------------------------

\* What a meet is shown stays as it is, or falls to nothing.
Falls == shown' = shown \/ \E m \in Meets : shown' = [shown EXCEPT ![m] = Nothing]

LEMMA FallsShown ==
  ASSUME ShownInv, BoardInv, Falls, UNCHANGED <<board, tested>>,
         copied' = [t \in Threads |-> copied'[t]],
         \A t \in Threads : pc'[t] = "send" => pc[t] = "send" /\ copied'[t] = copied[t]
  PROVE  ShownInv'
<1>1. \A k \in Keys : Nothing[k] = 0 /\ Nothing \in [Keys -> Nat]
  BY DEF Nothing
<1>2. /\ shown' \in [Meets -> [Keys -> Nat]]
      /\ \A m \in Meets, k \in Keys : shown'[m][k] \in {0, shown[m][k]}
  BY <1>1 DEF Falls, ShownInv, Nothing
<1>3. \A m \in Meets, k \in Keys : shown'[m][k] <= board[k]
  BY <1>2 DEF ShownInv, BoardInv
<1>4. ASSUME NEW t \in Threads, pc'[t] = "send", NEW k \in Keys, NEW m \in Meets
      PROVE  shown'[m][k] <= copied[t][k]
  BY <1>2, <1>4 DEF ShownInv
<1> QED BY <1>2, <1>3, <1>4 DEF ShownInv

\* Parts of board b are delivered on an open socket: what is shown of its meet
\* becomes that, and of others stays.
LEMMA Delivered ==
  ASSUME SocketInv, ShownInv, NEW s \in open, NEW ks, NEW b, Deliver(s, ks, b)
  PROVE  \/ shown' = shown
         \/ \E m \in Meets : /\ bound[s] = m /\ shown' = [n \in Meets |-> shown'[n]]
                             /\ shown'[m] = [k \in Keys |-> IF k \in ks THEN b[k] ELSE shown[m][k]]
                             /\ \A n \in Meets \ {m} : shown'[n] = shown[n]
<1>1. bound[s] \in Meets \cup {None}
  BY BoundOfSocks DEF SocketInv
<1>2. CASE bound[s] = None
  BY <1>2 DEF Deliver
<1>3. CASE bound[s] # None
  <2>1. shown' = [shown EXCEPT ![bound[s]] =
                    [k \in Keys |-> IF k \in ks THEN b[k] ELSE shown[bound[s]][k]]]
    BY <1>3 DEF Deliver
  <2> QED BY <1>1, <1>3, <2>1 DEF ShownInv
<1> QED BY <1>2, <1>3

LEMMA DeliveredShown ==
  ASSUME SocketInv, ShownInv, BoardInv, NEW s \in open, NEW ks, NEW b, Deliver(s, ks, b),
         \A k \in Keys : k \in ks => b[k] \in Nat /\ b[k] <= board[k],
         UNCHANGED <<board, tested>>,
         copied' = [t \in Threads |-> copied'[t]], \A t \in Threads : pc'[t] # "send"
  PROVE  ShownInv'
<1>1. CASE shown' = shown
  BY <1>1 DEF ShownInv
<1>2. ASSUME NEW m \in Meets, shown' = [n \in Meets |-> shown'[n]],
             shown'[m] = [k \in Keys |-> IF k \in ks THEN b[k] ELSE shown[m][k]],
             \A n \in Meets \ {m} : shown'[n] = shown[n]
      PROVE  ShownInv'
  <2>1. shown'[m] \in [Keys -> Nat] /\ \A k \in Keys : shown'[m][k] <= board[k]
    BY <1>2 DEF ShownInv
  <2>2. shown' \in [Meets -> [Keys -> Nat]]
    BY <1>2, <2>1 DEF ShownInv
  <2>3. \A n \in Meets, k \in Keys : shown'[n][k] <= board[k]
    BY <1>2, <2>1 DEF ShownInv
  <2> QED BY <2>2, <2>3 DEF ShownInv
<1>3. \/ shown' = shown
      \/ \E m \in Meets : /\ bound[s] = m /\ shown' = [n \in Meets |-> shown'[n]]
                          /\ shown'[m] = [k \in Keys |-> IF k \in ks THEN b[k] ELSE shown[m][k]]
                          /\ \A n \in Meets \ {m} : shown'[n] = shown[n]
  BY Delivered
<1> QED BY <1>1, <1>2, <1>3

\* A register leaves what the meet shows, or clears it.
LEMMA RegisterFalls ==
  ASSUME SocketInv, ShownInv, NEW s, NEW ticket, RegisterOn(s, ticket) PROVE Falls
<1>1. \/ shown' = shown
      \/ shown' = [shown EXCEPT ![meet] = IF served[meet] = 0 THEN Nothing ELSE shown[meet]]
  BY DEF RegisterOn
<1>2. [shown EXCEPT ![meet] = shown[meet]] = shown
  BY DEF ShownInv
<1> QED BY <1>1, <1>2 DEF SocketInv, Falls

LEMMA StepShown ==
  ASSUME ThreadInv, SocketInv, BoardInv, ShownInv, NEW t \in Threads, Step(t) PROVE ShownInv'
<1>1. UNCHANGED <<board, tested>> /\ pc \in [Threads -> Steps]
  BY StepBoard DEF scoreboard, ThreadInv
<1>2. CASE Top(t) \/ Assigned(t) \/ Connect(t) \/ ConnectFails(t) \/ PublishClient(t)
           \/ BuildSchedule(t) \/ SendSchedule(t) \/ RecvStopped(t) \/ RecvRejected(t) \/ Finally(t)
  <2>1. \E x \in Steps \ {"send"} : pc' = [pc EXCEPT ![t] = x]
    BY <1>2 DEF Top, Assigned, Connect, ConnectFails, PublishClient, BuildSchedule, SendSchedule,
         RecvStopped, RecvRejected, Finally, Goto, Steps, Connecting, Registered, Sending
  <2>2. UNCHANGED <<shown, copied>>
    BY <1>2 DEF Top, Assigned, Connect, ConnectFails, PublishClient, BuildSchedule, SendSchedule,
         RecvStopped, RecvRejected, Finally, cloud
  <2>3. \A u \in Threads : pc'[u] = "send" => pc[u] = "send" /\ copied'[u] = copied[u]
    BY <1>1, <2>1, <2>2
  <2> QED BY <1>1, <2>2, <2>3, FallsShown DEF Falls, ShownInv
<1>3. CASE Broken(t)
  <2>1. /\ pc' = [pc EXCEPT ![t] = "finally"] /\ copied' = [copied EXCEPT ![t] = Nothing]
        /\ UNCHANGED shown
    BY <1>3 DEF Broken, Goto, cloud
  <2>2. \A u \in Threads : pc'[u] = "send" => pc[u] = "send" /\ copied'[u] = copied[u]
    BY <1>1, <2>1 DEF ShownInv
  <2>3. copied' = [u \in Threads |-> copied'[u]]
    BY <2>1 DEF ShownInv
  <2> QED BY <1>1, <2>1, <2>2, <2>3, FallsShown DEF Falls
<1>4. CASE Register(t)
  <2>1. /\ pc' = [pc EXCEPT ![t] = "publish"] /\ UNCHANGED copied /\ RegisterOn(ws[t], asg[t])
    BY <1>4 DEF Register, Goto
  <2>2. \A u \in Threads : pc'[u] = "send" => pc[u] = "send" /\ copied'[u] = copied[u]
    BY <1>1, <2>1
  <2>3. copied' = [u \in Threads |-> copied'[u]]
    BY <2>1 DEF ShownInv
  <2> QED BY <1>1, <2>1, <2>2, <2>3, RegisterFalls, FallsShown
<1>5. CASE CopyBoard(t)
  <2>1. /\ pc[t] = "copy" /\ pc' = [pc EXCEPT ![t] = "send"]
        /\ copied' = [copied EXCEPT ![t] = board] /\ UNCHANGED shown
    BY <1>5 DEF CopyBoard, Goto, cloud
  <2>2. ~local_only
    BY <2>1 DEF ThreadInv, Connecting
  <2>3. copied'[t] = board /\ copied' = [u \in Threads |-> copied'[u]]
    BY <2>1 DEF ShownInv
  <2>4. \A u \in Threads : pc'[u] = "send" => u = t
    BY <2>1, OneLinked DEF ThreadInv
  <2> QED BY <1>1, <2>1, <2>2, <2>3, <2>4 DEF ShownInv, BoardInv
<1>6. CASE SendBoard(t)
  <2> DEFINE ks == {k \in Keys : copied[t][k] # 0}
  <2>1. /\ pc[t] = "send" /\ pc' = [pc EXCEPT ![t] = "recv"] /\ ws[t] \in open
        /\ copied' = [copied EXCEPT ![t] = Nothing] /\ Deliver(ws[t], ks, copied[t])
    BY <1>6 DEF SendBoard, Usable, Goto
  <2>2. \A u \in Threads : pc'[u] # "send"
    BY <2>1, OneLinked DEF ThreadInv
  <2>3. copied' = [u \in Threads |-> copied'[u]]
    BY <2>1 DEF ShownInv
  <2>4. \A k \in Keys : copied[t][k] \in Nat /\ copied[t][k] <= board[k]
    BY <2>1 DEF ShownInv
  <2>5. \A k \in Keys : k \in ks => copied[t][k] \in Nat /\ copied[t][k] <= board[k]
    BY <2>4
  <2>6. UNCHANGED <<board, tested>>
    BY <1>1
  <2> DEFINE b == copied[t]
             s == ws[t]
  <2>7. /\ s \in open /\ Deliver(s, ks, b)
        /\ \A k \in Keys : k \in ks => b[k] \in Nat /\ b[k] <= board[k]
    BY <2>1, <2>5
  <2> HIDE DEF ks, b, s
  <2> QED BY <2>2, <2>3, <2>6, <2>7, DeliveredShown
<1> QED BY <1>2, <1>3, <1>4, <1>5, <1>6 DEF Step

LEMMA NextShown ==
  InTurn /\ ThreadInv /\ SocketInv /\ BoardInv /\ BoardInv' /\ ShownInv /\ [Next]_vars => ShownInv'
<1> SUFFICES ASSUME InTurn, ThreadInv, SocketInv, BoardInv, BoardInv', ShownInv, [Next]_vars
             PROVE  ShownInv'
  OBVIOUS
<1>1. ASSUME NEW t \in Threads, Step(t) PROVE ShownInv'
  BY <1>1, StepShown
<1>2. ASSUME UNCHANGED <<shown, copied>>, \A k \in Keys : board'[k] >= board[k],
             \A t \in Threads : pc'[t] = "send" => pc[t] = "send" /\ UNCHANGED tested
      PROVE  ShownInv'
  <2>1. \A m \in Meets, k \in Keys : shown[m][k] <= board'[k]
    BY <1>2 DEF ShownInv, BoardInv
  <2>2. ASSUME NEW t \in Threads, pc'[t] = "send", NEW k \in Keys
        PROVE  copied[t][k] \notin tested' /\ copied[t][k] <= board'[k]
    BY <1>2, <2>2 DEF ShownInv, BoardInv
  <2> QED BY <1>2, <2>1, <2>2 DEF ShownInv
<1>3. ASSUME NEW k \in Keys, PublishFrame(k) PROVE ShownInv'
  <2>1. /\ UNCHANGED <<shown, copied, pc>> /\ board' = [board EXCEPT ![k] = frames + 1]
        /\ ~local_only => UNCHANGED tested
    BY <1>3 DEF PublishFrame, threads, cloud
  <2>2. \A j \in Keys : board'[j] >= board[j]
    BY <2>1 DEF BoardInv
  <2>3. \A t \in Threads : pc'[t] = "send" => pc[t] = "send" /\ UNCHANGED tested
    BY <2>1 DEF ThreadInv, Connecting, Sending
  <2> QED BY <1>2, <2>1, <2>2, <2>3
<1>4. CASE RelayEmit
  <2>1. /\ UNCHANGED <<board, tested, copied, pc>> /\ emitting # None
        /\ \A t \in Threads : pc[t] # "send"
        /\ UNCHANGED shown \/ (client \in open /\ Deliver(client, {emitting}, board))
    BY <1>4 DEF RelayEmit, threads, InTurn
  <2>2. CASE UNCHANGED shown
    BY <2>1, <2>2, <1>2 DEF BoardInv
  <2>3. CASE client \in open /\ Deliver(client, {emitting}, board)
    <3>1. \A k \in Keys : k \in {emitting} => board[k] \in Nat /\ board[k] <= board[k]
      BY DEF BoardInv
    <3> QED BY <2>1, <2>3, <3>1, DeliveredShown DEF ShownInv
  <2> QED BY <2>1, <2>2, <2>3
<1>5. CASE EndTest
  <2>1. /\ UNCHANGED <<shown, copied, tested>> /\ board' = [k \in Keys |-> frames + 1] /\ local_only
        /\ UNCHANGED pc \/ \E t \in Threads : pc' = [pc EXCEPT ![t] = "top"]
    BY <1>5 DEF EndTest, StartRelay, Goto, cloud
  <2>2. \A k \in Keys : board'[k] >= board[k]
    BY <2>1 DEF BoardInv
  <2>3. \A t \in Threads : pc'[t] = "send" => pc[t] = "send"
    BY <2>1 DEF ThreadInv
  <2> QED BY <1>2, <2>1, <2>2, <2>3
<1>6. CASE UpdateMetadata
  <2>1. Falls
    BY <1>6, RegisterFalls DEF UpdateMetadata, cloud, Falls
  <2>2. UNCHANGED <<board, tested, copied, pc>>
    BY <1>6 DEF UpdateMetadata, scoreboard, threads
  <2> QED BY <2>1, <2>2, FallsShown DEF ShownInv
<1>7. ASSUME NEW s \in 1 .. MaxSocks, CloudNotices(s) PROVE ShownInv'
  <2>1. Falls /\ UNCHANGED <<board, tested, copied, pc>>
    BY <1>7 DEF CloudNotices, scoreboard, threads, SocketInv, Falls
  <2> QED BY <2>1, FallsShown DEF ShownInv
<1>8. CASE FinishHeat \/ CloudToggle \/ BeginTest \/ LoadMeet \/ Reread \/ Announce \/ LoseLink
           \/ UNCHANGED vars
  <2>1. /\ UNCHANGED <<shown, copied, board, tested>>
        /\ UNCHANGED pc \/ \E t \in Threads : pc' = [pc EXCEPT ![t] = "top"]
    BY <1>8 DEF FinishHeat, CloudToggle, StartRelay, Goto, BeginTest, LoadMeet, Reread, Announce,
         LoseLink, vars, scoreboard, threads, cloud
  <2>2. \A t \in Threads : pc'[t] = "send" => pc[t] = "send"
    BY <2>1 DEF ThreadInv
  <2> QED BY <1>2, <2>1, <2>2 DEF BoardInv
<1> QED BY <1>1, <1>3, <1>4, <1>5, <1>6, <1>7, <1>8 DEF Next

-----------------------------------------------------------------------------
(* Who serves a meet.                                                      *)

LEMMA StillServed ==
  ASSUME ServedInv, UNCHANGED <<served, shown, bound>>,
         \A s \in open' : s \in open \/ bound[s] = None
  PROVE  ServedInv'
BY DEF ServedInv

LEMMA DeliveredServed ==
  ASSUME SocketInv, ShownInv, ServedInv, NEW s \in open, NEW ks, NEW b, Deliver(s, ks, b),
         UNCHANGED <<served, bound, open>>
  PROVE  ServedInv'
<1>1. CASE shown' = shown
  BY <1>1 DEF ServedInv
<1>2. ASSUME NEW m \in Meets, bound[s] = m, \A n \in Meets \ {m} : shown'[n] = shown[n]
      PROVE  ServedInv'
  <2>1. served[m] # 0
    BY <1>2, NoneAssumption DEF ServedInv, SocketInv
  <2> QED BY <1>2, <2>1 DEF ServedInv
<1>3. \/ shown' = shown
      \/ \E m \in Meets : /\ bound[s] = m /\ shown' = [n \in Meets |-> shown'[n]]
                          /\ shown'[m] = [k \in Keys |-> IF k \in ks THEN b[k] ELSE shown[m][k]]
                          /\ \A n \in Meets \ {m} : shown'[n] = shown[n]
  BY Delivered
<1> QED BY <1>1, <1>2, <1>3

\* What the open socket registers, it serves.
LEMMA RegisterServed ==
  ASSUME SocketInv, ShownInv, ServedInv, NEW s \in open, NEW ticket, RegisterOn(s, ticket),
         UNCHANGED open
  PROVE  ServedInv'
<1>1. CASE UNCHANGED <<bound, served, shown>>
  BY <1>1, StillServed
<1>2. CASE /\ bound' = [bound EXCEPT ![s] = meet] /\ served' = [served EXCEPT ![meet] = s]
           /\ shown' = [shown EXCEPT ![meet] = IF served[meet] = 0 THEN Nothing ELSE shown[meet]]
  <2>0. s \in Nat /\ s # 0 /\ s \in 1 .. MaxSocks
    BY BoundOfSocks DEF SocketInv
  <2>1. \A u \in open : u = s
    BY DEF SocketInv
  <2>2. bound'[s] = meet /\ served'[meet] = s /\ meet \in Meets
    BY <1>2, <2>0 DEF SocketInv, ServedInv
  <2>3. \A m \in Meets \ {meet} : served'[m] = served[m] /\ shown'[m] = shown[m]
    BY <1>2 DEF ServedInv, ShownInv
  <2>4. served' \in [Meets -> Nat]
    BY <1>2, <2>0 DEF ServedInv
  <2> QED BY <2>0, <2>1, <2>2, <2>3, <2>4 DEF ServedInv
<1> QED BY <1>1, <1>2 DEF RegisterOn

LEMMA StepServed ==
  ASSUME ThreadInv, SocketInv, ShownInv, ServedInv, NEW t \in Threads, Step(t) PROVE ServedInv'
<1>1. CASE Register(t)
  <2>1. ws[t] \in open /\ UNCHANGED open /\ RegisterOn(ws[t], asg[t])
    BY <1>1 DEF Register, Usable
  <2> QED BY <2>1, RegisterServed
<1>2. CASE SendBoard(t)
  <2>1. /\ ws[t] \in open /\ UNCHANGED <<served, bound, open>>
        /\ Deliver(ws[t], {k \in Keys : copied[t][k] # 0}, copied[t])
    BY <1>2 DEF SendBoard, Usable
  <2> QED BY <2>1, DeliveredServed
<1>3. CASE Connect(t)
  <2>1. UNCHANGED <<served, shown, bound>> /\ open' = open \cup {socks + 1} /\ socks < MaxSocks
    BY <1>3 DEF Connect, cloud
  <2>2. bound[socks + 1] = None
    BY <2>1, BoundOfSocks DEF SocketInv
  <2> QED BY <2>1, <2>2, StillServed
<1>4. CASE Top(t) \/ Assigned(t) \/ ConnectFails(t) \/ PublishClient(t) \/ BuildSchedule(t)
           \/ SendSchedule(t) \/ CopyBoard(t) \/ RecvStopped(t) \/ RecvRejected(t) \/ Broken(t)
           \/ Finally(t)
  <2>1. UNCHANGED <<served, shown, bound>> /\ open' \subseteq open
    BY <1>4 DEF Top, Assigned, ConnectFails, PublishClient, BuildSchedule, SendSchedule, CopyBoard,
         RecvStopped, RecvRejected, Broken, Finally, cloud
  <2> QED BY <2>1, StillServed
<1> QED BY <1>1, <1>2, <1>3, <1>4 DEF Step

\* A lost socket takes its meet with it only if it still serves it.
LEMMA NoticedServed ==
  ASSUME SocketInv, ShownInv, ServedInv, NEW s \in 1 .. MaxSocks, CloudNotices(s) PROVE ServedInv'
<1>1. /\ bound[s] \in Meets /\ s \notin open /\ bound' = [bound EXCEPT ![s] = None]
      /\ UNCHANGED open
  BY DEF CloudNotices, SocketInv
<1>2. \A u \in open : bound'[u] = bound[u]
  BY <1>1, BoundOfSocks DEF SocketInv
<1>3. CASE UNCHANGED <<served, shown>>
  BY <1>1, <1>2, <1>3 DEF ServedInv
<1>4. CASE /\ served[bound[s]] = s /\ served' = [served EXCEPT ![bound[s]] = 0]
           /\ shown' = [shown EXCEPT ![bound[s]] = Nothing]
  <2>1. \A u \in open : bound[u] # None => bound[u] # bound[s] /\ bound[u] \in Meets
    BY <1>1, <1>4, BoundOfSocks DEF ServedInv, SocketInv
  <2>2. /\ \A m \in Meets \ {bound[s]} : served'[m] = served[m] /\ shown'[m] = shown[m]
        /\ shown'[bound[s]] = Nothing /\ served' \in [Meets -> Nat]
    BY <1>1, <1>4 DEF ServedInv, ShownInv
  <2> QED BY <1>1, <1>2, <2>1, <2>2 DEF ServedInv
<1> QED BY <1>3, <1>4 DEF CloudNotices

LEMMA NextServed ==
  ThreadInv /\ SocketInv /\ ShownInv /\ ServedInv /\ [Next]_vars => ServedInv'
<1> SUFFICES ASSUME ThreadInv, SocketInv, ShownInv, ServedInv, [Next]_vars PROVE ServedInv'
  OBVIOUS
<1>1. ASSUME NEW t \in Threads, Step(t) PROVE ServedInv'
  BY <1>1, StepServed
<1>2. CASE RelayEmit
  <2>1. \/ UNCHANGED <<served, shown, bound, open>>
        \/ /\ client \in open /\ Deliver(client, {emitting}, board)
           /\ UNCHANGED <<served, bound, open>>
    BY <1>2 DEF RelayEmit
  <2> QED BY <2>1, StillServed, DeliveredServed
<1>3. CASE UpdateMetadata
  <2>1. \/ UNCHANGED <<served, shown, bound>> /\ open' \subseteq open
        \/ client \in open /\ RegisterOn(client, assignment) /\ UNCHANGED open
    BY <1>3 DEF UpdateMetadata, cloud
  <2> QED BY <2>1, StillServed, RegisterServed
<1>4. CASE (\E k \in Keys : PublishFrame(k)) \/ FinishHeat \/ CloudToggle \/ BeginTest \/ EndTest
           \/ LoadMeet \/ Reread \/ Announce \/ LoseLink \/ UNCHANGED vars
  <2>1. UNCHANGED <<served, shown, bound>> /\ open' \subseteq open
    BY <1>4 DEF PublishFrame, FinishHeat, CloudToggle, StopRelay, BeginTest, EndTest, LoadMeet,
         Reread, Announce, LoseLink, vars, cloud
  <2> QED BY <2>1, StillServed
<1> QED BY <1>1, <1>2, <1>3, <1>4, NoticedServed DEF Next

-----------------------------------------------------------------------------
(* The start lists.                                                        *)

LEMMA InitLists == Init => ListInv
<1> SUFFICES ASSUME Init PROVE ListInv OBVIOUS
<1>1. /\ lists = [m \in Meets |-> 1] /\ schedules = [m \in Meets |-> NoSchedule]
      /\ built = [t \in Threads |-> NoSchedule] /\ open = {} /\ announcing = FALSE
      /\ \A t \in Threads : pc[t] \in {"top", "unborn"}
  BY DEF Init
<1> QED BY <1>1 DEF ListInv, Registered

\* Nothing about the meet, its lists or who is bound to it changes.
LEMMA PlainLists ==
  ASSUME ListInv, UNCHANGED <<meet, lists, schedules, bound, ws, loading, announcing>>,
         built' = [t \in Threads |-> built'[t]],
         \A t \in Threads :
            /\ pc'[t] \in Registered => pc[t] \in Registered
            /\ pc'[t] = "list" => pc[t] = "list" /\ built'[t] = built[t],
         connected' => connected /\ client' = client,
         client' \in open' => client' \in open
  PROVE  ListInv'
<1>1. Schedule' = Schedule
  BY DEF Schedule
<1> QED BY <1>1 DEF ListInv

\* A meet at the cloud is given the list its file was last read into.
LEMMA GivenList ==
  ASSUME SocketInv, ListInv, schedules' = [schedules EXCEPT ![meet] = Schedule]
  PROVE  /\ schedules' = [m \in Meets |-> schedules'[m]]
         /\ \A m \in Meets :
              \/ schedules'[m] = NoSchedule
              \/ \E e \in 1 .. lists[m] : schedules'[m] = [of |-> m, export |-> e]
<1>1. meet \in Meets /\ lists[meet] \in 1 .. lists[meet] /\ schedules'[meet] = Schedule
  BY DEF SocketInv, ListInv
<1>2. \A m \in Meets \ {meet} : schedules'[m] = schedules[m]
  BY DEF ListInv
<1>3. schedules' = [m \in Meets |-> schedules'[m]]
  BY DEF ListInv
<1>4. Schedule = [of |-> meet, export |-> lists[meet]]
  BY DEF Schedule
<1> QED BY <1>1, <1>2, <1>3, <1>4 DEF ListInv

LEMMA StepLists ==
  ASSUME ThreadInv, SocketInv, ListInv, NEW t \in Threads, Step(t) PROVE ListInv'
<1>1. /\ UNCHANGED <<meet, lists, loading, announcing>> /\ pc \in [Threads -> Steps]
      /\ \A u \in Threads \ {t} : pc[u] \in {"unborn", "done"}
  BY OneLinked
   DEF ThreadInv, Step, Top, Assigned, Connect, ConnectFails, Register, PublishClient, BuildSchedule,
       SendSchedule, CopyBoard, SendBoard, RecvStopped, RecvRejected, Broken, Finally, pi, meets
<1>2. CASE Top(t) \/ Assigned(t) \/ ConnectFails(t) \/ Broken(t) \/ CopyBoard(t) \/ SendBoard(t)
           \/ RecvStopped(t) \/ RecvRejected(t)
  <2>1. \E x \in Steps \ Registered : pc' = [pc EXCEPT ![t] = x]
    BY <1>2 DEF Top, Assigned, ConnectFails, Broken, CopyBoard, SendBoard, RecvStopped, RecvRejected,
         Goto, Steps, Connecting, Registered, Sending
  <2>2. UNCHANGED <<schedules, bound, ws, connected, client, open>>
    BY <1>2 DEF Top, Assigned, ConnectFails, Broken, CopyBoard, SendBoard, RecvStopped, RecvRejected,
         link, cloud, records
  <2>3. built' = built \/ built' = [built EXCEPT ![t] = NoSchedule]
    BY <1>2 DEF Top, Assigned, ConnectFails, Broken, CopyBoard, SendBoard, RecvStopped, RecvRejected
  <2>4. \A u \in Threads : pc'[u] \in Registered => pc[u] \in Registered /\ u # t
    BY <1>1, <2>1
  <2>5. \A u \in Threads : pc'[u] = "list" => pc[u] = "list" /\ built'[u] = built[u]
    BY <1>1, <2>1, <2>3 DEF ListInv, Registered
  <2>6. built' = [u \in Threads |-> built'[u]]
    BY <2>3 DEF ListInv
  <2> QED BY <1>1, <2>2, <2>4, <2>5, <2>6, PlainLists
<1>3. CASE Connect(t)
  <2>1. /\ pc' = [pc EXCEPT ![t] = "register"] /\ UNCHANGED <<schedules, bound, built, connected, client>>
        /\ ws' = [ws EXCEPT ![t] = socks + 1] /\ open' = open \cup {socks + 1}
    BY <1>3 DEF Connect, Goto, link, cloud, records
  <2>2. \A u \in Threads : pc'[u] \notin Registered
    BY <1>1, <2>1 DEF Registered
  <2>3. client # socks + 1
    BY DEF SocketInv
  <2> QED BY <1>1, <2>1, <2>2, <2>3 DEF ListInv, Registered
<1>4. CASE Register(t)
  <2>1. /\ pc[t] = "register" /\ pc' = [pc EXCEPT ![t] = "publish"] /\ ws[t] \in open
        /\ UNCHANGED <<schedules, ws, built, connected, client, open>>
        /\ bound' \in {bound, [bound EXCEPT ![ws[t]] = meet]}
    BY <1>4 DEF Register, RegisterOn, Usable, Goto, link, records
  <2>2. ws[t] \in 1 .. MaxSocks /\ bound[ws[t]] = None /\ ws[t] # client
    BY <2>1, BoundOfSocks DEF SocketInv
  <2>3. bound'[ws[t]] \in {None, meet} /\ (client \in open => bound'[client] = bound[client])
    BY <2>1, <2>2, BoundOfSocks DEF SocketInv
  <2>4. \A u \in Threads : /\ pc'[u] \in Registered => u = t
                           /\ pc'[u] # "list"
    BY <1>1, <2>1 DEF Registered
  <2> QED BY <1>1, <2>1, <2>3, <2>4 DEF ListInv
<1>5. CASE PublishClient(t)
  <2>1. /\ pc[t] = "publish" /\ pc' = [pc EXCEPT ![t] = "schedule"] /\ client' = ws[t]
        /\ UNCHANGED <<schedules, bound, ws, built, open>>
    BY <1>5 DEF PublishClient, Goto, cloud, records
  <2>2. bound[ws[t]] \in {None, meet}
    BY <2>1 DEF ListInv, Registered
  <2>3. \A u \in Threads : /\ pc'[u] \in Registered => u = t
                           /\ pc'[u] # "list"
    BY <1>1, <2>1 DEF Registered
  <2> QED BY <1>1, <2>1, <2>2, <2>3 DEF ListInv
<1>6. CASE BuildSchedule(t)
  <2>1. /\ pc[t] = "schedule" /\ pc' = [pc EXCEPT ![t] = "list"]
        /\ built' = [built EXCEPT ![t] = IF local_only THEN NoSchedule ELSE Schedule]
        /\ UNCHANGED <<schedules, bound, ws, connected, client, open>>
    BY <1>6 DEF BuildSchedule, Goto, link, cloud, records
  <2>2. built'[t] \in {NoSchedule, Schedule} /\ built' = [u \in Threads |-> built'[u]]
    BY <2>1 DEF ListInv
  <2>3. bound[ws[t]] \in {None, meet}
    BY <2>1 DEF ListInv, Registered
  <2>4. \A u \in Threads : pc'[u] \in Registered => u = t
    BY <1>1, <2>1 DEF Registered
  <2>5. Schedule' = Schedule
    BY <1>1 DEF Schedule
  <2> QED BY <1>1, <2>1, <2>2, <2>3, <2>4, <2>5 DEF ListInv, Registered
<1>7. CASE SendSchedule(t)
  <2>1. /\ pc[t] = "list" /\ pc' = [pc EXCEPT ![t] = "copy"] /\ ws[t] \in open
        /\ built' = [built EXCEPT ![t] = NoSchedule] /\ DeliverSchedule(ws[t], built[t])
        /\ UNCHANGED <<bound, ws, connected, client, open>>
    BY <1>7 DEF SendSchedule, Usable, Goto, link
  <2>2. \/ schedules' = schedules
        \/ schedules' = [schedules EXCEPT ![meet] = Schedule]
    BY <2>1 DEF ListInv, Registered, DeliverSchedule
  <2>3. \A u \in Threads : pc'[u] \notin Registered
    BY <1>1, <2>1 DEF Registered
  <2>4. built' = [u \in Threads |-> built'[u]]
    BY <2>1 DEF ListInv
  <2>5. /\ schedules' = [m \in Meets |-> schedules'[m]]
        /\ \A m \in Meets :
              \/ schedules'[m] = NoSchedule
              \/ \E e \in 1 .. lists[m] : schedules'[m] = [of |-> m, export |-> e]
    BY <2>2, GivenList DEF ListInv
  <2> QED BY <1>1, <2>1, <2>3, <2>4, <2>5 DEF ListInv, Registered
<1>8. CASE Finally(t)
  <2>1. /\ pc' = [pc EXCEPT ![t] = "top"] /\ connected' = FALSE
        /\ UNCHANGED <<schedules, bound, built>>
    BY <1>8 DEF Finally, Goto, cloud, records
  <2>2. \A u \in Threads : pc'[u] \notin Registered
    BY <1>1, <2>1 DEF Registered
  <2> QED BY <1>1, <2>1, <2>2 DEF ListInv, Registered
<1> QED BY <1>2, <1>3, <1>4, <1>5, <1>6, <1>7, <1>8 DEF Step

LEMMA MeetLists ==
  ASSUME InTurn, SocketInv, ListInv, LoadMeet \/ UpdateMetadata \/ Reread \/ Announce
  PROVE  ListInv'
<1>1. UNCHANGED <<pc, ws, built, client, connected>>
  BY DEF LoadMeet, UpdateMetadata, Reread, Announce, threads, link
<1>2. CASE LoadMeet
  <2>1. /\ \A t \in Threads : pc[t] \notin Registered
        /\ loading' = TRUE /\ ~announcing /\ UNCHANGED <<announcing, lists, schedules>>
    BY <1>2 DEF LoadMeet, InTurn, cloud, records
  <2> QED BY <1>1, <2>1 DEF ListInv, Registered
<1>3. CASE UpdateMetadata
  <2>1. UNCHANGED <<meet, lists>> /\ Schedule' = Schedule /\ loading' = FALSE
    BY <1>3 DEF UpdateMetadata, Schedule
  <2>2. CASE /\ client \in open /\ assignment = meet /\ RegisterOn(client, assignment)
             /\ schedules' = [schedules EXCEPT ![meet] = Schedule] /\ UNCHANGED open
    <3>1. bound' = [bound EXCEPT ![client] = meet] /\ client \in 1 .. MaxSocks
      BY <2>2, BoundOfSocks DEF RegisterOn, SocketInv
    <3>2. bound'[client] = meet
      BY <3>1 DEF SocketInv
    <3>3. \A t \in Threads : pc[t] \in Registered => bound'[ws[t]] \in {None, meet}
      BY <3>1, <3>2, BoundOfSocks DEF ListInv, SocketInv, Registered, Linked
    <3> QED BY <1>1, <2>1, <2>2, <3>2, <3>3, GivenList DEF ListInv
  <2>3. CASE UNCHANGED <<bound, schedules>> /\ (~connected \/ client \notin open')
    BY <1>1, <2>1, <2>3 DEF ListInv
  <2>4. 0 \notin open
    BY DEF SocketInv
  <2> QED BY <1>3, <2>2, <2>3, <2>4 DEF UpdateMetadata, cloud, records
<1>4. CASE Reread
  <2>1. /\ \A t \in Threads : pc[t] # "list"
        /\ lists' = [lists EXCEPT ![meet] = lists[meet] + 1]
        /\ ~loading /\ UNCHANGED <<meet, loading, schedules, bound, open>>
    BY <1>4 DEF Reread, InTurn, cloud, records
  <2>2. lists' \in [Meets -> Nat \ {0}] /\ \A m \in Meets : lists[m] \in Nat /\ lists'[m] >= lists[m]
    BY <2>1 DEF ListInv, SocketInv
  <2>3. \A m \in Meets : 1 .. lists[m] \subseteq 1 .. lists'[m]
    BY <2>2
  <2> QED BY <1>1, <2>1, <2>2, <2>3 DEF ListInv
<1>5. CASE Announce
  <2>1. /\ UNCHANGED <<meet, lists, loading, bound, open>> /\ Schedule' = Schedule
        /\ announcing /\ announcing' = FALSE
        /\ \/ UNCHANGED schedules
           \/ connected /\ client \in open /\ DeliverSchedule(client, Schedule)
    BY <1>5 DEF Announce, Schedule
  <2>2. CASE UNCHANGED schedules
    BY <1>1, <2>1, <2>2 DEF ListInv
  <2>3. CASE connected /\ client \in open /\ DeliverSchedule(client, Schedule)
    <3>1. bound[client] \in {None, meet}
      BY <2>1, <2>3 DEF ListInv
    <3>2. UNCHANGED schedules \/ schedules' = [schedules EXCEPT ![meet] = Schedule]
      BY <2>3, <3>1 DEF DeliverSchedule
    <3>3. CASE schedules' = [schedules EXCEPT ![meet] = Schedule]
      BY <1>1, <2>1, <3>1, <3>3, GivenList DEF ListInv
    <3> QED BY <2>2, <3>2, <3>3
  <2> QED BY <2>1, <2>2, <2>3
<1> QED BY <1>2, <1>3, <1>4, <1>5

LEMMA NextLists ==
  InTurn /\ ThreadInv /\ SocketInv /\ ListInv /\ [Next]_vars => ListInv'
<1> SUFFICES ASSUME InTurn, ThreadInv, SocketInv, ListInv, [Next]_vars PROVE ListInv' OBVIOUS
<1>1. ASSUME NEW t \in Threads, Step(t) PROVE ListInv'
  BY <1>1, StepLists
<1>2. CASE LoadMeet \/ UpdateMetadata \/ Reread \/ Announce
  BY <1>2, MeetLists
<1>3. CASE (\E k \in Keys : PublishFrame(k)) \/ RelayEmit \/ FinishHeat \/ CloudToggle \/ BeginTest
           \/ EndTest \/ LoseLink \/ UNCHANGED vars
  <2>1. /\ UNCHANGED <<meet, lists, schedules, bound, ws, loading, announcing, built, connected, client>>
        /\ open' \subseteq open
    BY <1>3 DEF PublishFrame, RelayEmit, FinishHeat, CloudToggle, StopRelay, BeginTest, EndTest,
         LoseLink, vars, pi, meets, threads, link, cloud, records
  <2>2. UNCHANGED pc \/ \E t \in Threads : pc' = [pc EXCEPT ![t] = "top"]
    BY <1>3 DEF PublishFrame, RelayEmit, FinishHeat, CloudToggle, StartRelay, Goto, BeginTest, EndTest,
         LoseLink, vars, threads
  <2>3. \A t \in Threads : /\ pc'[t] \in Registered => pc[t] \in Registered
                           /\ pc'[t] = "list" => pc[t] = "list"
    BY <2>2 DEF ThreadInv, Registered
  <2> QED BY <2>1, <2>3, PlainLists DEF ListInv
<1>4. ASSUME NEW s \in 1 .. MaxSocks, CloudNotices(s) PROVE ListInv'
  <2>1. /\ bound' = [bound EXCEPT ![s] = None]
        /\ UNCHANGED <<meet, lists, schedules, ws, loading, announcing, built, connected, client, open, pc>>
    BY <1>4 DEF CloudNotices, pi, meets, threads, link, records
  <2>2. \A u : bound'[u] = IF u = s THEN None ELSE bound[u]
    BY <2>1 DEF SocketInv
  <2>3. Schedule' = Schedule
    BY <2>1 DEF Schedule
  <2>4. \A t \in Threads : pc[t] \in Registered => bound'[ws[t]] \in {None, meet}
    BY <2>2 DEF ListInv
  <2> QED BY <2>1, <2>2, <2>3, <2>4 DEF ListInv
<1> QED BY <1>1, <1>2, <1>3, <1>4 DEF Next

-----------------------------------------------------------------------------
(* The link keeps its promise.                                             *)

LEMMA InitIInv == Init => IInv
  BY InitThreads, InitSockets, InitBoards, InitLists DEF IInv

LEMMA NextIInv == InTurn /\ IInv /\ [Next]_vars => IInv'
<1> SUFFICES ASSUME InTurn, IInv, [Next]_vars PROVE IInv' OBVIOUS
<1>1. Alone BY DEF InTurn
<1>2. ThreadInv' /\ BoardInv' /\ SocketInv'
  BY <1>1, NextThreads, NextBoard, NextSockets DEF IInv
<1>3. ShownInv' BY <1>2, NextShown DEF IInv
<1>4. ServedInv' /\ ListInv' BY NextServed, NextLists DEF IInv
<1> QED BY <1>2, <1>3, <1>4 DEF IInv

KeepsPromise == [Promise!Next]_(Promise!vars)

\* A delivery shows a meet later parts of the board.
LEMMA DeliveredKeeps ==
  ASSUME SocketInv, BoardInv, ShownInv, BoardInv', ShownInv', NEW s \in open, NEW ks, NEW b,
         Deliver(s, ks, b), UNCHANGED <<board, tested, lists, schedules>>,
         \A k \in Keys : k \in ks => /\ b[k] <= board[k] /\ b[k] \notin tested /\ b[k] \in Nat
                                     /\ \A m \in Meets : shown[m][k] <= b[k]
  PROVE  KeepsPromise
<1>1. CASE shown' = shown
  BY <1>1 DEF KeepsPromise, Promise!vars
<1>2. ASSUME NEW m \in Meets,
             shown'[m] = [k \in Keys |-> IF k \in ks THEN b[k] ELSE shown[m][k]],
             \A n \in Meets \ {m} : shown'[n] = shown[n]
      PROVE  KeepsPromise
  <2>1. shown' \in [Meets -> [Keys -> 0 .. MaxFrames]]
    <3>2. MaxFrames \in Nat
      BY LimitsAssumption
    <3>3. ASSUME NEW n \in Meets, NEW k \in Keys PROVE shown'[n][k] \in 0 .. MaxFrames
      BY <3>2 DEF BoardInv, ShownInv
    <3> QED BY <3>3 DEF ShownInv
  <2>2. ASSUME NEW k \in Keys, shown'[m][k] # shown[m][k]
        PROVE  /\ shown[m][k] < shown'[m][k] /\ shown'[m][k] <= board[k] /\ shown'[m][k] \notin tested
    <3>1. k \in ks /\ shown'[m][k] = b[k]
      BY <1>2, <2>2
    <3>2. shown[m][k] \in Nat /\ shown[m][k] <= b[k] /\ b[k] \in Nat
      BY <3>1 DEF ShownInv
    <3> QED BY <2>2, <3>1, <3>2
  <2>3. Promise!Show(m)
    BY <1>2, <2>1, <2>2 DEF Promise!Show, Promise!startLists
  <2> QED BY <2>3 DEF KeepsPromise, Promise!Next
<1>3. \/ shown' = shown
      \/ \E m \in Meets : /\ bound[s] = m /\ shown' = [n \in Meets |-> shown'[n]]
                          /\ shown'[m] = [k \in Keys |-> IF k \in ks THEN b[k] ELSE shown[m][k]]
                          /\ \A n \in Meets \ {m} : shown'[n] = shown[n]
  BY Delivered
<1> QED BY <1>1, <1>2, <1>3

\* A meet is retired, or nothing changes.
LEMMA FallsKeeps ==
  ASSUME Falls, UNCHANGED <<board, tested, lists, schedules>> PROVE KeepsPromise
BY DEF Falls, KeepsPromise, Promise!vars, Promise!Next, Promise!Retire, Promise!startLists,
       Promise!Nothing, Nothing

\* A meet is given its start list, or has it.
LEMMA GivenKeeps ==
  ASSUME SocketInv, ListInv, UNCHANGED <<board, tested, shown, lists>>,
         schedules' = [schedules EXCEPT ![meet] = Schedule]
  PROVE  KeepsPromise
<1>1. meet \in Meets /\ Schedule = [of |-> meet, export |-> lists[meet]] /\ lists[meet] \in Nat \ {0}
  BY DEF SocketInv, ListInv, Schedule
<1>2. CASE schedules[meet] = Schedule
  BY <1>2 DEF ListInv, KeepsPromise, Promise!vars
<1>3. CASE schedules[meet] # Schedule
  <2>1. schedules[meet].export \in Nat /\ schedules[meet].export < lists[meet]
    <3>1. CASE schedules[meet] = NoSchedule
      BY <1>1, <3>1 DEF NoSchedule
    <3>2. ASSUME NEW e \in 1 .. lists[meet], schedules[meet] = [of |-> meet, export |-> e]
          PROVE  schedules[meet].export \in Nat /\ schedules[meet].export < lists[meet]
      BY <1>1, <1>3, <3>2
    <3> QED BY <1>1, <3>1, <3>2 DEF ListInv
  <2>2. lists[meet] \in schedules[meet].export + 1 .. lists[meet]
    BY <1>1, <2>1
  <2>3. Promise!List(meet)
    BY <1>1, <2>2 DEF Promise!List
  <2> QED BY <1>1, <2>3 DEF KeepsPromise, Promise!Next
<1> QED BY <1>2, <1>3

LEMMA StepKeeps ==
  ASSUME IInv, IInv', NEW t \in Threads, Step(t) PROVE KeepsPromise
<1>1. UNCHANGED <<board, tested, lists, meet>>
  BY StepBoard
   DEF scoreboard, Step, Top, Assigned, Connect, ConnectFails, Register, PublishClient,
       BuildSchedule, SendSchedule, CopyBoard, SendBoard, RecvStopped, RecvRejected, Broken, Finally,
       pi, meets
<1>2. CASE Register(t)
  <2>1. RegisterOn(ws[t], asg[t]) /\ UNCHANGED schedules
    BY <1>2 DEF Register, records
  <2>2. Falls
    BY <2>1, RegisterFalls DEF IInv
  <2> QED BY <1>1, <2>1, <2>2, FallsKeeps
<1>3. CASE SendSchedule(t)
  <2>1. pc[t] = "list" /\ DeliverSchedule(ws[t], built[t]) /\ UNCHANGED shown
    BY <1>3 DEF SendSchedule
  <2>2. UNCHANGED schedules \/ schedules' = [schedules EXCEPT ![meet] = Schedule]
    BY <2>1 DEF IInv, ListInv, Registered, DeliverSchedule
  <2>3. CASE UNCHANGED schedules
    BY <1>1, <2>1, <2>3 DEF KeepsPromise, Promise!vars
  <2> QED BY <1>1, <2>1, <2>2, <2>3, GivenKeeps DEF IInv
<1>4. CASE SendBoard(t)
  <2> DEFINE s == ws[t]
             b == copied[t]
             ks == {k \in Keys : b[k] # 0}
  <2>1. pc[t] = "send" /\ s \in open /\ Deliver(s, ks, b) /\ UNCHANGED schedules
    BY <1>4 DEF SendBoard, Usable
  <2>2. \A k \in Keys : k \in ks => /\ b[k] <= board[k] /\ b[k] \notin tested /\ b[k] \in Nat
                                    /\ \A m \in Meets : shown[m][k] <= b[k]
    BY <2>1 DEF IInv, ShownInv
  <2>3. SocketInv /\ BoardInv /\ ShownInv /\ BoardInv' /\ ShownInv'
    BY DEF IInv
  <2> HIDE DEF s, b, ks
  <2> QED BY <1>1, <2>1, <2>2, <2>3, DeliveredKeeps
<1>5. CASE Top(t) \/ Assigned(t) \/ Connect(t) \/ ConnectFails(t) \/ PublishClient(t)
           \/ BuildSchedule(t) \/ CopyBoard(t) \/ RecvStopped(t) \/ RecvRejected(t) \/ Broken(t)
           \/ Finally(t)
  <2>1. UNCHANGED <<shown, schedules>>
    BY <1>5 DEF Top, Assigned, Connect, ConnectFails, PublishClient, BuildSchedule, CopyBoard,
         RecvStopped, RecvRejected, Broken, Finally, cloud, records
  <2> QED BY <1>1, <2>1 DEF KeepsPromise, Promise!vars
<1> QED BY <1>2, <1>3, <1>4, <1>5 DEF Step

\* What the worker publishes and relays.
LEMMA FramesKeep ==
  ASSUME InTurn, IInv, IInv', (\E k \in Keys : PublishFrame(k)) \/ EndTest \/ RelayEmit
  PROVE  KeepsPromise
<1>1. frames \in Nat /\ MaxFrames \in Nat /\ \A k \in Keys : board[k] \in Nat /\ board[k] <= frames
  BY LimitsAssumption DEF IInv, BoardInv
<1>2. ASSUME NEW k \in Keys, PublishFrame(k) PROVE KeepsPromise
  <2>1. /\ frames < MaxFrames /\ board' = [board EXCEPT ![k] = frames + 1]
        /\ tested' \in {tested, tested \cup {frames + 1}} /\ UNCHANGED <<shown, lists, schedules>>
    BY <1>2 DEF PublishFrame, pi, meets, cloud, records
  <2>2. board' = [j \in Keys |-> IF j \in {k} THEN frames + 1 ELSE board[j]]
    BY <2>1 DEF IInv, BoardInv
  <2>3. frames + 1 \in 1 .. MaxFrames /\ {k} \in SUBSET Keys /\ \A j \in Keys : frames + 1 > board[j]
    BY <1>1, <2>1
  <2>4. Promise!Publish
    BY <2>1, <2>2, <2>3 DEF Promise!Publish, Promise!startLists
  <2> QED BY <2>4 DEF KeepsPromise, Promise!Next
<1>3. CASE EndTest
  <2>1. /\ frames < MaxFrames /\ board' = [k \in Keys |-> frames + 1]
        /\ UNCHANGED <<tested, shown, lists, schedules>>
    BY <1>3 DEF EndTest, meets, cloud, records
  <2>2. board' = [j \in Keys |-> IF j \in Keys THEN frames + 1 ELSE board[j]]
    BY <2>1
  <2>3. frames + 1 \in 1 .. MaxFrames /\ Keys \in SUBSET Keys /\ \A j \in Keys : frames + 1 > board[j]
    BY <1>1, <2>1
  <2>4. Promise!Publish
    BY <2>1, <2>2, <2>3 DEF Promise!Publish, Promise!startLists
  <2> QED BY <2>4 DEF KeepsPromise, Promise!Next
<1>4. CASE RelayEmit
  <2>1. /\ UNCHANGED <<board, tested, lists, schedules>>
        /\ \/ UNCHANGED shown
           \/ client \in open /\ ~local_only /\ Deliver(client, {emitting}, board)
    BY <1>4 DEF RelayEmit, pi, meets, records
  <2>2. CASE UNCHANGED shown
    BY <2>1, <2>2 DEF KeepsPromise, Promise!vars
  <2>3. CASE client \in open /\ ~local_only /\ Deliver(client, {emitting}, board)
    <3> DEFINE ks == {emitting}
    <3>1. \A k \in Keys : k \in ks => /\ board[k] <= board[k] /\ board[k] \notin tested /\ board[k] \in Nat
                                      /\ \A m \in Meets : shown[m][k] <= board[k]
      BY <2>3 DEF IInv, BoardInv, ShownInv
    <3>2. SocketInv /\ BoardInv /\ ShownInv /\ BoardInv' /\ ShownInv'
      BY DEF IInv
    <3>3. client \in open /\ Deliver(client, ks, board)
      BY <2>3
    <3> HIDE DEF ks
    <3> QED BY <2>1, <3>1, <3>2, <3>3, DeliveredKeeps
  <2> QED BY <2>1, <2>2, <2>3
<1> QED BY <1>2, <1>3, <1>4

\* What is loaded, read again and announced.
LEMMA MeetKeeps ==
  ASSUME IInv, LoadMeet \/ UpdateMetadata \/ Reread \/ Announce PROVE KeepsPromise
<1>1. UNCHANGED <<board, tested>> /\ SocketInv /\ ServedInv /\ ShownInv /\ ListInv
  BY DEF LoadMeet, UpdateMetadata, Reread, Announce, scoreboard, IInv
<1>2. CASE LoadMeet
  BY <1>1, <1>2 DEF LoadMeet, cloud, records, KeepsPromise, Promise!vars
<1>3. CASE UpdateMetadata
  <2>1. /\ UNCHANGED lists
        /\ \/ UNCHANGED <<shown, schedules>>
           \/ /\ RegisterOn(client, assignment) /\ assignment = meet
              /\ schedules' = [schedules EXCEPT ![meet] = Schedule]
    BY <1>3 DEF UpdateMetadata, cloud, records
  <2>2. CASE UNCHANGED <<shown, schedules>>
    BY <1>1, <2>1, <2>2 DEF KeepsPromise, Promise!vars
  <2>3. CASE /\ RegisterOn(client, assignment) /\ assignment = meet
             /\ schedules' = [schedules EXCEPT ![meet] = Schedule]
    <3>1. shown' = [shown EXCEPT ![meet] = IF served[meet] = 0 THEN Nothing ELSE shown[meet]]
      BY <2>3 DEF RegisterOn
    <3>2. meet \in Meets /\ (served[meet] = 0 => shown[meet] = Nothing)
      BY <1>1 DEF SocketInv, ServedInv
    <3>3. UNCHANGED shown
      BY <1>1, <3>1, <3>2 DEF ShownInv
    <3> QED BY <1>1, <2>1, <2>3, <3>3, GivenKeeps
  <2> QED BY <2>1, <2>2, <2>3
<1>4. CASE Reread
  <2>1. lists' = [lists EXCEPT ![meet] = lists[meet] + 1] /\ UNCHANGED <<shown, schedules>>
    BY <1>4 DEF Reread, cloud, records
  <2>2. meet \in Meets
    BY <1>1 DEF SocketInv
  <2>3. Promise!Export(meet)
    BY <1>1, <2>1 DEF Promise!Export
  <2> QED BY <2>2, <2>3 DEF KeepsPromise, Promise!Next
<1>5. CASE Announce
  <2>1. /\ UNCHANGED <<shown, lists>> /\ announcing
        /\ \/ UNCHANGED schedules
           \/ connected /\ client \in open /\ DeliverSchedule(client, Schedule)
    BY <1>5 DEF Announce
  <2>2. UNCHANGED schedules \/ schedules' = [schedules EXCEPT ![meet] = Schedule]
    BY <1>1, <2>1 DEF DeliverSchedule, ListInv
  <2>3. CASE UNCHANGED schedules
    BY <1>1, <2>1, <2>3 DEF KeepsPromise, Promise!vars
  <2> QED BY <1>1, <2>1, <2>2, <2>3, GivenKeeps
<1> QED BY <1>2, <1>3, <1>4, <1>5

LEMMA NextKeeps == InTurn /\ IInv /\ IInv' /\ [Next]_vars => KeepsPromise
<1> SUFFICES ASSUME InTurn, IInv, IInv', [Next]_vars PROVE KeepsPromise OBVIOUS
<1>1. ASSUME NEW t \in Threads, Step(t) PROVE KeepsPromise
  BY <1>1, StepKeeps
<1>2. CASE (\E k \in Keys : PublishFrame(k)) \/ EndTest \/ RelayEmit
  BY <1>2, FramesKeep
<1>3. CASE LoadMeet \/ UpdateMetadata \/ Reread \/ Announce
  BY <1>3, MeetKeeps
<1>4. ASSUME NEW s \in 1 .. MaxSocks, CloudNotices(s) PROVE KeepsPromise
  <2>1. UNCHANGED <<board, tested, lists, schedules>> /\ bound[s] \in Meets
    BY <1>4 DEF CloudNotices, pi, meets, scoreboard, records, IInv, SocketInv
  <2>2. Falls
    BY <1>4, <2>1 DEF CloudNotices, Falls
  <2> QED BY <2>1, <2>2, FallsKeeps
<1>5. CASE FinishHeat \/ CloudToggle \/ BeginTest \/ LoseLink \/ UNCHANGED vars
  BY <1>5
   DEF FinishHeat, CloudToggle, BeginTest, LoseLink, vars, pi, meets, scoreboard, cloud, records,
       KeepsPromise, Promise!vars
<1> QED BY <1>1, <1>2, <1>3, <1>4, <1>5 DEF Next

\* What the cloud has of a meet's board and start list is what RelayedBoard
\* promises: published by the Pi, of no test, its own, and never older than
\* what it was, through any drops, takeovers, tests, loads and re-reads that
\* come in turn (relay._run, relay_emit, cloud_server._on_relay).
THEOREM LinkKeepsPromise == InTurn => (Spec => PromiseKept)
<1> SUFFICES ASSUME InTurn PROVE Spec => PromiseKept OBVIOUS
<1>1. Init => Promise!Init
  BY DEF Init, Promise!Init, Promise!Nothing, Nothing, NoSchedule
<1>2. IInv /\ [Next]_vars => IInv'
  BY NextIInv
<1>3. IInv /\ IInv' /\ [Next]_vars => [Promise!Next]_(Promise!vars)
  BY NextKeeps DEF KeepsPromise
<1> QED BY <1>1, <1>2, <1>3, InitIInv, PTL DEF Spec, PromiseKept, Promise!Spec

-----------------------------------------------------------------------------
(* Follows: the inductive invariant.                                       *)

\* The cases of Follows (README, "Cases") left out.
OneByOne == ~Overlaps /\ ~ReadsSlowly /\ ~Unheard /\ ~HandOverFails /\ ~SweepsEarly /\ ~StaleBase

Places == {"idle", "refresh", "scan", "reading", "due", "marking", "sending"}
Rows == Leads \cup {NoRow}
WatchFields == {"list", "current", "pending", "held", "startedAt"}
Row == [row : Rows, fired : SUBSET Notes]
Evaluation == [pc : Places, sel : Ids \cup {NoHeat}, row : Rows, fired : SUBSET Notes,
               notes : SUBSET Notes, est : BOOLEAN]
Watched(w) ==
    /\ w = [k \in WatchFields |-> w[k]] /\ w.list \in DOMAIN Lists
    /\ w.current \in Nat /\ w.pending \in Ids \cup {NoHeat}

FollowsTyped ==
    /\ store \in [Nodes -> Row]
    /\ task \in [Tasks -> Evaluation]
    /\ move \in [pc : {"no", "export", "import", "drop", "close", "closed", "done"},
                 row : Rows, fired : SUBSET Notes]
    /\ Watched(watch) /\ list \in DOMAIN Lists
    /\ phone \in Rows /\ followed \in BOOLEAN /\ owed \subseteq Ids

\* The node the phone's row is at, and what was sent from there.
Home == IF move.pc \in {"no", "export", "import", "drop"} THEN "n1" ELSE "n2"
Fired == store[Home].fired
NoFollow == [row |-> NoRow, fired |-> {}]

Busy(t) == task[t].pc # "idle"

\* One evaluation at a time, and none while the meet moves.
EvaluationsInv ==
    /\ \A t, u \in Tasks : Busy(t) /\ Busy(u) => t = u
    /\ \A t \in Tasks : Busy(t) => move.pc \in {"no", "done"}
    /\ move.pc = "closed" => ~live

\* The row is what the phone was answered, at one node, or at both once it was
\* carried over.
RowsInv ==
    /\ store[Home].row = phone
    /\ phone = NoRow => Fired = {}
    /\ Home = "n2" => store["n1"] = NoFollow
    /\ move.pc \in {"no", "export", "import"} => store["n2"] = NoFollow
    /\ move.pc \in {"import", "drop"} => [row |-> move.row, fired |-> move.fired] = store["n1"]
    /\ move.pc = "drop" => store["n2"] = store["n1"]

\* What was sent is recorded, what is about to be was not sent, and is recorded by then.
ToldInv ==
    /\ told \in [Notes -> {0, 1}]
    /\ \A n \in Notes : told[n] = 1 => n \in Fired
    /\ \A t \in Tasks :
          /\ task[t].pc = "due" => task[t].row = phone /\ task[t].fired = Fired
          /\ task[t].pc \in {"marking", "sending"} =>
                phone # NoRow /\ \A n \in task[t].notes : told[n] = 0
          /\ task[t].pc = "sending" => task[t].notes \subseteq Fired

\* A meet the phone follows is known to be followed, but while the loop re-reads that
\* and until the other node has the meet.
KnownInv == phone # NoRow => followed \/ Loop("refresh") \/ move.pc = "closed"

\* The evaluation that will tell of the heat s.
Tells(t, s) ==
    /\ task[t].pc \in {"reading", "due", "marking"} /\ task[t].sel = s
    /\ task[t].pc = "marking" => <<s, "selected">> \in task[t].notes
Mine(s) == \E i \in DOMAIN Heats(watch) : Heats(watch)[i].id = s /\ Heats(watch)[i].mine

OwedInv ==
    owed # {} =>
        /\ phone.selected /\ ~Lost(watch)
        /\ \A s \in owed : /\ Mine(s) /\ <<s, "selected">> \notin Fired
                           /\ \E t \in Tasks : Tells(t, s)

FollowsInv == FollowsTyped /\ EvaluationsInv /\ RowsInv /\ ToldInv /\ KnownInv /\ OwedInv

-----------------------------------------------------------------------------
(* Follows: the steps.                                                     *)

LEMMA FollowInitInv == FollowInit => FollowsInv
<1> SUFFICES ASSUME FollowInit PROVE FollowsInv OBVIOUS
<1>1. 1 \in DOMAIN Lists
  BY FollowsAssumption
<1>2. FollowsTyped
  BY <1>1 DEF FollowInit, FollowsTyped, Evaluation, Row, Rows, Nodes, Tasks, Places, Idle, NoHeat, NewWatch,
         Watched, WatchFields
<1>3. EvaluationsInv /\ RowsInv /\ ToldInv /\ KnownInv /\ OwedInv
  BY DEF FollowInit, EvaluationsInv, RowsInv, ToldInv, KnownInv, OwedInv, Busy, Idle, Home, Fired,
         NoFollow, Nodes, Tasks, Untold
<1> QED BY <1>2, <1>3 DEF FollowsInv

\* At a step of an evaluation the row is at the node that carries the meet, and
\* nobody else is at one.
LEMMA BusyAlone ==
    ASSUME FollowsInv, NEW t \in Tasks, Busy(t)
    PROVE  /\ move.pc \in {"no", "done"} /\ At = Home /\ At \in Nodes
           /\ \A u \in Tasks \ {t} : task[u].pc = "idle"
BY DEF FollowsInv, EvaluationsInv, Busy, At, Home, Nodes

LEMMA IdleTyped == Idle \in Evaluation /\ Idle.pc = "idle" /\ Idle.sel = NoHeat
BY DEF Idle, Evaluation, Places, Rows

LEMMA EvaluationGoesOn ==
    ASSUME NEW e \in Evaluation, NEW stage \in Places, NEW row \in Rows,
           NEW fired \in SUBSET Notes, NEW notes \in SUBSET Notes
    PROVE  /\ [e EXCEPT !.pc = stage] \in Evaluation
           /\ [e EXCEPT !.pc = stage, !.row = row, !.fired = fired] \in Evaluation
           /\ [e EXCEPT !.pc = stage, !.notes = notes] \in Evaluation
<1>1. [e EXCEPT !.pc = stage] \in Evaluation
  BY DEF Evaluation
<1>2. \A d \in Evaluation : [d EXCEPT !.row = row] \in Evaluation
  BY DEF Evaluation
<1>3. \A d \in Evaluation : [d EXCEPT !.fired = fired] \in Evaluation
  BY DEF Evaluation
<1>4. \A d \in Evaluation : [d EXCEPT !.notes = notes] \in Evaluation
  BY DEF Evaluation
<1> QED BY <1>1, <1>2, <1>3, <1>4, Zenon

LEMMA ReadsKept == ASSUME FollowsInv, NEW t \in Tasks, Reads(t) PROVE FollowsInv'
<1> USE DEF FollowsInv
<1>1. Busy(t) /\ task[t].pc = "reading"
  BY DEF Reads, Busy
<1>2. At = Home /\ At \in Nodes
  BY <1>1, BusyAlone
<1>3. /\ task' = [task EXCEPT ![t].pc = "due", ![t].row = phone, ![t].fired = Fired]
      /\ UNCHANGED <<store, live, list, watch, followed, move, phone, told, owed>>
  BY <1>2 DEF Reads, RowsInv, Fired
<1>4. FollowsTyped'
  <2>1. Fired \in SUBSET Notes /\ phone \in Rows
    BY <1>2 DEF FollowsTyped, Fired, Row
  <2>2. task' \in [Tasks -> Evaluation]
    BY <1>3, <2>1, EvaluationGoesOn DEF FollowsTyped, Places
  <2> QED BY <1>3, <2>2 DEF FollowsTyped
<1>5. EvaluationsInv'
  BY <1>1, <1>3 DEF FollowsTyped, Evaluation, EvaluationsInv, Busy
<1>6. RowsInv' /\ Fired' = Fired
  BY <1>3 DEF RowsInv, Fired, Home
<1>7. ToldInv'
  BY <1>3, <1>6 DEF FollowsTyped, Evaluation, ToldInv
<1>8. KnownInv'
  BY <1>1, <1>3 DEF FollowsTyped, Evaluation, KnownInv, Loop, Tasks
<1>9. OwedInv'
  <2>1. ASSUME NEW s, NEW u \in Tasks, Tells(u, s) PROVE Tells(u, s)'
    BY <1>1, <1>3, <2>1 DEF FollowsTyped, Evaluation, Tells
  <2>2. (Lost(watch))' = Lost(watch) /\ \A s \in owed : Mine(s)' = Mine(s)
    BY <1>3 DEF Lost, Mine, Heats
  <2> QED BY <1>3, <1>6, <2>1, <2>2 DEF OwedInv
<1> QED BY <1>4, <1>5, <1>6, <1>7, <1>8, <1>9

\* What is owed is due.
LEMMA OwedIsDue ==
    ASSUME FollowsInv, NEW t \in Tasks, task[t].pc = "due", owed # {}, NEW change
    PROVE  LET notes == IF task[t].row = NoRow \/ Raises(t) THEN {}
                        ELSE DueNotes(watch, task[t].row, task[t].sel, change) \ task[t].fired
           IN  \A s \in owed : s = task[t].sel /\ <<s, "selected">> \in notes
<1> USE DEF FollowsInv
<1>1. Busy(t) /\ task[t].row = phone /\ task[t].fired = Fired
  BY DEF Busy, ToldInv
<1>2. phone.selected /\ phone # NoRow /\ ~Raises(t)
  BY DEF OwedInv, NoRow, Raises
<1> SUFFICES ASSUME NEW s \in owed
             PROVE  s = task[t].sel /\ <<s, "selected">> \in DueNotes(watch, phone, task[t].sel, change)
                                    /\ <<s, "selected">> \notin Fired
  BY <1>1, <1>2
<1>3. s = task[t].sel /\ Mine(s) /\ <<s, "selected">> \notin Fired /\ s \in Ids
  BY <1>1, BusyAlone DEF OwedInv, Tells, FollowsTyped
<1>4. <<s, "selected">> \in Notes
  BY <1>3 DEF Notes, Kinds
<1> QED BY <1>2, <1>3, <1>4 DEF Mine, DueNotes

LEMMA DecidesKept == ASSUME FollowsInv, NEW t \in Tasks, Decides(t) PROVE FollowsInv'
<1> USE DEF FollowsInv
<1>1. Busy(t) /\ task[t].pc = "due"
  BY DEF Decides, Busy
<1>2. /\ At = Home /\ At \in Nodes /\ task[t].row = phone /\ task[t].fired = Fired
      /\ \A u \in Tasks \ {t} : task[u].pc = "idle"
  BY <1>1, BusyAlone DEF ToldInv
<1>3. UNCHANGED <<store, live, list, watch, followed, move, phone, told, owed>>
  BY DEF Decides
<1>4. PICK change \in Changeovers(watch) :
        LET notes == IF task[t].row = NoRow \/ Raises(t) THEN {}
                     ELSE DueNotes(watch, task[t].row, task[t].sel, change) \ task[t].fired
        IN  task' = [task EXCEPT ![t] = IF notes = {} THEN Idle
                                        ELSE [@ EXCEPT !.pc = "marking", !.notes = notes]]
  BY DEF Decides
<1> DEFINE notes == IF task[t].row = NoRow \/ Raises(t) THEN {}
                    ELSE DueNotes(watch, task[t].row, task[t].sel, change) \ task[t].fired
<1>5. /\ notes \subseteq Notes /\ notes \cap Fired = {} /\ (notes # {} => phone # NoRow)
      /\ \A s \in owed : s = task[t].sel /\ <<s, "selected">> \in notes
  BY <1>1, <1>2, OwedIsDue DEF DueNotes
<1>6. task' = [task EXCEPT ![t] = IF notes = {} THEN Idle
                                  ELSE [@ EXCEPT !.pc = "marking", !.notes = notes]]
  BY <1>4
<1> HIDE DEF notes
<1>7. FollowsTyped'
  <2>1. [task[t] EXCEPT !.pc = "marking", !.notes = notes] \in Evaluation
    BY <1>5, EvaluationGoesOn DEF FollowsTyped, Places
  <2>2. task' \in [Tasks -> Evaluation]
    BY <1>6, <2>1, IdleTyped DEF FollowsTyped
  <2> QED BY <1>3, <2>2 DEF FollowsTyped
<1>8. EvaluationsInv'
  BY <1>1, <1>3, <1>6 DEF FollowsTyped, Evaluation, EvaluationsInv, Busy
<1>9. RowsInv' /\ Fired' = Fired
  BY <1>3 DEF RowsInv, Fired, Home
<1>10. ToldInv'
  <2>1. \A n \in notes : told[n] = 0
    BY <1>5 DEF ToldInv
  <2> QED BY <1>3, <1>5, <1>6, <1>9, <2>1 DEF FollowsTyped, Evaluation, ToldInv, Idle
<1>11. KnownInv'
  BY <1>1, <1>2, <1>3, <1>6 DEF FollowsTyped, Evaluation, KnownInv, Loop, Tasks
<1>12. OwedInv'
  <2>1. ASSUME NEW s \in owed PROVE Tells(t, s)'
    BY <1>5, <1>6, <2>1 DEF FollowsTyped, Evaluation, Tells
  <2>2. (Lost(watch))' = Lost(watch) /\ \A s \in owed : Mine(s)' = Mine(s)
    BY <1>3 DEF Lost, Mine, Heats
  <2> QED BY <1>3, <1>9, <2>1, <2>2 DEF OwedInv
<1> QED BY <1>7, <1>8, <1>9, <1>10, <1>11, <1>12

\* Marking tells of all that was owed.
LEMMA MarksKept == ASSUME FollowsInv, NEW t \in Tasks, Marks(t) PROVE FollowsInv'
<1> USE DEF FollowsInv
<1>1. Busy(t) /\ task[t].pc = "marking"
  BY DEF Marks, Busy
<1>2. /\ At = Home /\ At \in Nodes /\ phone # NoRow /\ move.pc \in {"no", "done"}
      /\ \A u \in Tasks \ {t} : task[u].pc = "idle"
  BY <1>1, BusyAlone DEF ToldInv
<1>3. /\ store' = [store EXCEPT ![Home].fired = @ \cup task[t].notes]
      /\ task' = [task EXCEPT ![t].pc = "sending"]
      /\ UNCHANGED <<live, list, watch, followed, move, phone, told>>
  BY <1>2 DEF Marks
<1>4. owed' = {}
  <2>1. \A s \in owed : <<s, "selected">> \in task[t].notes
    BY <1>1, <1>2 DEF OwedInv, Tells
  <2>2. \A s \in owed : s \in {n[1] : n \in {k \in task[t].notes : k[2] = "selected"}}
    <3> SUFFICES ASSUME NEW s \in owed
                 PROVE  \E n \in {k \in task[t].notes : k[2] = "selected"} : s = n[1]
      OBVIOUS
    <3>1. <<s, "selected">> \in {k \in task[t].notes : k[2] = "selected"}
      BY <2>1
    <3>2. s = <<s, "selected">>[1]
      OBVIOUS
    <3> QED BY <3>1, <3>2, Zenon
  <2> QED BY <2>2 DEF Marks
<1>5. FollowsTyped'
  BY <1>2, <1>3, <1>4 DEF FollowsTyped, Evaluation, Places, Row
<1>6. EvaluationsInv'
  BY <1>1, <1>3 DEF FollowsTyped, Evaluation, EvaluationsInv, Busy
<1>7. RowsInv' /\ Fired' = Fired \cup task[t].notes
  BY <1>2, <1>3 DEF FollowsTyped, RowsInv, Fired, Home, Nodes, Row, NoFollow
<1>8. ToldInv'
  BY <1>1, <1>2, <1>3, <1>7 DEF FollowsTyped, Evaluation, ToldInv
<1>9. KnownInv'
  BY <1>1, <1>2, <1>3 DEF FollowsTyped, Evaluation, KnownInv, Loop, Tasks
<1> QED BY <1>4, <1>5, <1>6, <1>7, <1>8, <1>9 DEF OwedInv

LEMMA SendsKept == ASSUME FollowsInv, NEW t \in Tasks, Sends(t) PROVE FollowsInv'
<1> USE DEF FollowsInv
<1>1. Busy(t) /\ task[t].pc = "sending"
  BY DEF Sends, Busy
<1>2. \A u \in Tasks \ {t} : task[u].pc = "idle"
  BY <1>1, BusyAlone
<1>3. /\ told' = [n \in Notes |-> IF n \in task[t].notes THEN told[n] + 1 ELSE told[n]]
      /\ task' = [task EXCEPT ![t] = Idle]
      /\ UNCHANGED <<store, live, list, watch, followed, move, phone, owed>>
  BY DEF Sends
<1>4. FollowsTyped'
  BY <1>3, IdleTyped DEF FollowsTyped
<1>5. EvaluationsInv'
  BY <1>3 DEF FollowsTyped, Evaluation, EvaluationsInv, Busy, Idle
<1>6. RowsInv' /\ Fired' = Fired
  BY <1>3 DEF RowsInv, Fired, Home
<1>7. ToldInv'
  <2>1. \A n \in task[t].notes : told[n] = 0 /\ n \in Fired
    BY <1>1 DEF ToldInv
  <2>2. told' \in [Notes -> {0, 1}] /\ \A n \in Notes : told'[n] = 1 => n \in Fired
    BY <1>3, <2>1 DEF ToldInv
  <2> QED BY <1>2, <1>3, <1>6, <2>2 DEF FollowsTyped, Evaluation, ToldInv, Idle
<1>8. KnownInv'
  BY <1>1, <1>3 DEF FollowsTyped, Evaluation, KnownInv, Loop, Tasks
<1>9. OwedInv'
  BY <1>1, <1>2, <1>3 DEF OwedInv, Tells
<1> QED BY <1>4, <1>5, <1>6, <1>7, <1>8, <1>9

LEMMA TokenGoneKept == ASSUME FollowsInv, NEW t \in Tasks, TokenGone(t) PROVE FollowsInv'
<1> USE DEF FollowsInv
<1>1. Busy(t) /\ task[t].pc = "sending"
  BY DEF TokenGone, Busy
<1>2. /\ At = Home /\ At \in Nodes /\ move.pc \in {"no", "done"}
      /\ \A u \in Tasks \ {t} : task[u].pc = "idle"
  BY <1>1, BusyAlone
<1>3. /\ store' = [store EXCEPT ![Home].row = NoRow, ![Home].fired = {}]
      /\ phone' = NoRow /\ told' = Untold /\ owed' = {}
      /\ task' = [task EXCEPT ![t] = Idle]
      /\ UNCHANGED <<live, list, watch, followed, move>>
  BY <1>2 DEF TokenGone
<1>4. FollowsTyped'
  <2>1. store' \in [Nodes -> Row] /\ NoRow \in Rows
    BY <1>2, <1>3 DEF FollowsTyped, Row, Rows
  <2>2. task' \in [Tasks -> Evaluation]
    BY <1>3, IdleTyped DEF FollowsTyped
  <2> QED BY <1>3, <2>1, <2>2 DEF FollowsTyped
<1>5. EvaluationsInv'
  BY <1>3 DEF FollowsTyped, Evaluation, EvaluationsInv, Busy, Idle
<1>6. RowsInv' /\ Fired' = {}
  BY <1>2, <1>3 DEF FollowsTyped, RowsInv, Fired, Home, Nodes, Row, NoFollow
<1>7. ToldInv'
  BY <1>2, <1>3, <1>6 DEF FollowsTyped, Evaluation, ToldInv, Idle, Untold
<1> QED BY <1>3, <1>4, <1>5, <1>6, <1>7 DEF KnownInv, OwedInv

-----------------------------------------------------------------------------
(* Follows: what the console shows.                                        *)

LEMMA ListedHeats ==
    ASSUME NEW l \in DOMAIN Lists
    PROVE  DOMAIN Lists[l] = 1 .. Len(Lists[l]) /\ \A i \in DOMAIN Lists[l] : Lists[l][i].id \in Ids
<1>1. \A S : \A s \in Seq(S) : DOMAIN s = 1 .. Len(s) /\ \A i \in DOMAIN s : s[i] \in S
  OBVIOUS
<1>2. Lists[l] \in StartList
  BY FollowsAssumption, <1>1
<1>3. DOMAIN Lists[l] = 1 .. Len(Lists[l])
  BY <1>1, <1>2, Zenon DEF StartList
<1>4. \A i \in DOMAIN Lists[l] : Lists[l][i] \in [id : Ids, mine : BOOLEAN, at : Nat, swim : Nat]
  BY <1>1, <1>2, Zenon DEF StartList
<1> QED BY <1>3, <1>4

LEMMA NewWatchTyped == FollowsTyped => Watched(NewWatch)
BY DEF FollowsTyped, NewWatch, Watched, WatchFields, NoHeat

LEMMA LoadedTyped ==
    ASSUME FollowsTyped, NEW id \in Ids, NEW runs \in BOOLEAN
    PROVE  Watched(Loaded(watch)) /\ Watched(Begun(Named(Loaded(watch), id), runs))
<1>1. Watched(Loaded(watch))
  BY DEF FollowsTyped, Loaded, Watched, WatchFields
<1>2. \A w : Watched(w) => Watched(Named(w, id))
  BY DEF Watched, WatchFields, Named, NoHeat
<1>3. \A w : Watched(w) => Watched(Begun(w, runs))
  BY DEF Watched, WatchFields, Begun
<1> QED BY <1>1, <1>2, <1>3

\* A heat settled on is one of the list.
LEMMA SettledTyped ==
    ASSUME NEW w, Watched(w)
    PROVE  /\ Watched(Settled(w)) /\ Forward(w) \in Ids \cup {NoHeat}
           /\ Forward(w) # NoHeat => ~Lost(Settled(w))
<1> DEFINE at == IndexOf(w, w.pending)
           i == CHOOSE k \in at : TRUE
<1>1. at \subseteq 1 .. Len(Lists[w.list])
  BY ListedHeats DEF IndexOf, Heats, Watched
<1>2. at # {} => i \in 1 .. Len(Lists[w.list])
  BY <1>1
<1>3. Settled(w) = IF at = {} THEN [w EXCEPT !.pending = NoHeat]
                   ELSE [w EXCEPT !.pending = NoHeat, !.current = i]
  BY DEF Settled
<1>4. Forward(w) # NoHeat => at # {}
  BY DEF Forward
<1> HIDE DEF at, i
<1>5. Watched(Settled(w)) /\ Settled(w).list = w.list
  <2>1. CASE at = {}
    BY <1>3, <2>1 DEF Watched, WatchFields
  <2>2. CASE at # {}
    <3>1. i \in Nat
      BY <1>2, <2>2
    <3> QED BY <1>3, <2>2, <3>1 DEF Watched, WatchFields
  <2> QED BY <2>1, <2>2
<1>6. at # {} => Settled(w).current = i
  BY <1>3 DEF Watched, WatchFields
<1>7. Len(Lists[w.list]) \in Nat
  BY FollowsAssumption DEF Watched, StartList
<1>8. Forward(w) # NoHeat => ~Lost(Settled(w))
  BY <1>2, <1>4, <1>5, <1>6, <1>7 DEF Lost, Heats
<1> QED BY <1>5, <1>8 DEF Forward, Watched

\* What a frame or a turn of the loop does of a watch it has named a heat in.
Looks(t, w, est) ==
    LET sel == IF Settles(w) THEN Forward(w) ELSE NoHeat
    IN  /\ watch' = IF Settles(w) THEN Settled(w) ELSE w
        /\ task' = [task EXCEPT ![t] = IF sel # NoHeat \/ est THEN Evaluating(sel) ELSE Idle]
        /\ owed' = Owing(sel)
        /\ UNCHANGED <<store, list, followed, move, phone, told>>

LEMMA LooksKept ==
    ASSUME FollowsInv, NEW t \in Tasks, NEW w, Watched(w), NEW est \in BOOLEAN, Looks(t, w, est),
           \A u \in Tasks \ {t} : ~Busy(u), task[t].pc \in {"idle", "scan"},
           move.pc \in {"no", "done"}, UNCHANGED live
    PROVE  FollowsInv'
<1>0. PICK sel : sel = IF Settles(w) THEN Forward(w) ELSE NoHeat
  OBVIOUS
<1>1. /\ watch' = IF Settles(w) THEN Settled(w) ELSE w
      /\ task' = [task EXCEPT ![t] = IF sel # NoHeat \/ est THEN Evaluating(sel) ELSE Idle]
      /\ owed' = Owing(sel)
      /\ UNCHANGED <<store, list, followed, move, phone, told>>
  BY <1>0 DEF Looks
<1>2. Watched(watch') /\ sel \in Ids \cup {NoHeat} /\ (sel # NoHeat => ~Lost(watch)')
  BY <1>0, <1>1, SettledTyped DEF Lost, Heats
<1>3. owed = {}
  BY DEF FollowsInv, OwedInv, Tells, Busy
<1>4. /\ Evaluating(sel) \in Evaluation /\ Evaluating(sel).pc \in {"idle", "reading"}
      /\ followed => Evaluating(sel).pc = "reading" /\ Evaluating(sel).sel = sel
  BY <1>2, IdleTyped DEF Evaluating, Idle, Evaluation, Places
<1>5. PICK e : /\ e = IF sel # NoHeat \/ est THEN Evaluating(sel) ELSE Idle
               /\ e \in Evaluation /\ e.pc \in {"idle", "reading"}
  BY <1>4, IdleTyped
<1>6. task' = [task EXCEPT ![t] = e]
  BY <1>1, <1>5
<1>7. FollowsTyped'
  <2>1. owed' \subseteq Ids
    BY <1>1, <1>2, <1>3 DEF Owing
  <2> QED BY <1>1, <1>2, <1>5, <1>6, <2>1 DEF FollowsInv, FollowsTyped
<1>8. EvaluationsInv'
  BY <1>1, <1>5, <1>6 DEF FollowsInv, FollowsTyped, EvaluationsInv, Busy
<1>9. RowsInv' /\ Fired' = Fired
  BY <1>1 DEF FollowsInv, RowsInv, Fired, Home
<1>10. ToldInv'
  BY <1>1, <1>5, <1>6, <1>9 DEF FollowsInv, FollowsTyped, ToldInv
<1>11. phone # NoRow => followed
  BY DEF FollowsInv, KnownInv, Loop, Busy, Tasks
<1>12. KnownInv'
  BY <1>1, <1>11 DEF KnownInv
<1>13. ASSUME owed' # {} PROVE OwedInv'
  <2>1. /\ owed' = {sel} /\ sel # NoHeat /\ phone.selected
        /\ <<sel, "selected">> \notin store[At].fired
        /\ \E i \in IndexOf(watch', sel) : Lists[watch'.list][i].mine
    BY <1>1, <1>3, <1>13 DEF Owing
  <2>2. <<sel, "selected">> \notin Fired
    BY <2>1 DEF Fired, At, Home
  <2>3. Mine(sel)'
    BY <2>1 DEF Mine, IndexOf, Heats
  <2>4. e.pc = "reading" /\ e.sel = sel
    <3>1. phone # NoRow
      BY <2>1 DEF NoRow
    <3> QED BY <1>4, <1>5, <1>11, <2>1, <3>1
  <2>5. Tells(t, sel)'
    BY <1>6, <2>4 DEF Tells, FollowsInv, FollowsTyped
  <2> QED BY <1>1, <1>2, <1>9, <2>1, <2>2, <2>3, <2>5 DEF OwedInv
<1> QED BY <1>7, <1>8, <1>9, <1>10, <1>12, <1>13 DEF FollowsInv, OwedInv

LEMMA FrameKept ==
    ASSUME FollowsInv, OneByOne, NEW id \in Ids, NEW runs \in BOOLEAN, Frame(id, runs)
    PROVE  FollowsInv'
<1> DEFINE w == Loaded(watch)
           n == Begun(Named(w, id), runs)
<1>1. /\ live /\ \A t \in Tasks : ~Busy(t)
      /\ move.pc \in {"no", "done"}
  BY DEF Frame, Free, Still, OneByOne, Busy, FollowsInv, EvaluationsInv
<1>2. Watched(w) /\ Watched(n)
  BY LoadedTyped DEF FollowsInv
<1>3. CASE Lost(w)
  <2>1. /\ watch' = w /\ live' = FALSE
        /\ UNCHANGED <<task, owed, store, list, followed, move, phone, told>>
    BY <1>3 DEF Frame
  <2>2. owed = {}
    BY <1>1 DEF FollowsInv, OwedInv, Tells, Busy
  <2>3. RowsInv' /\ Fired' = Fired
    BY <2>1 DEF FollowsInv, RowsInv, Fired, Home
  <2> QED BY <1>2, <2>1, <2>2, <2>3
        DEF FollowsInv, FollowsTyped, EvaluationsInv, Busy, ToldInv, KnownInv, Loop, OwedInv
<1>4. CASE ~Lost(w)
  <2>1. Looks("relay", n, FALSE) /\ UNCHANGED live
    BY <1>4 DEF Frame, Looks
  <2> HIDE DEF n
  <2> QED BY <1>1, <1>2, <2>1, LooksKept DEF Tasks, Busy
<1> QED BY <1>3, <1>4

LEMMA ScansKept == ASSUME FollowsInv, Scans PROVE FollowsInv'
<1> DEFINE w == Loaded(watch)
<1>1. "loop" \in Tasks /\ task["loop"].pc = "scan" /\ Busy("loop")
  BY DEF Tasks, Scans, Loop, Busy
<1>2. move.pc \in {"no", "done"} /\ \A u \in Tasks \ {"loop"} : ~Busy(u)
  BY <1>1, BusyAlone DEF Busy
<1>3. Watched(w) /\ task["loop"].est \in BOOLEAN
  BY <1>1 DEF FollowsInv, FollowsTyped, Watched, WatchFields, Loaded, Evaluation
<1>4. Looks("loop", w, task["loop"].est) /\ UNCHANGED live
  BY DEF Scans, Looks
<1> HIDE DEF w
<1> QED BY <1>1, <1>2, <1>3, <1>4, LooksKept

LEMMA TurnsKept ==
    ASSUME FollowsInv, OneByOne, NEW est \in BOOLEAN, Turns(est) PROVE FollowsInv'
<1>1. /\ "loop" \in Tasks /\ live /\ \A t \in Tasks : ~Busy(t)
      /\ move.pc \in {"no", "done"}
  BY DEF Turns, Free, Still, OneByOne, Tasks, Busy, FollowsInv, EvaluationsInv
<1>2. owed = {}
  BY <1>1 DEF FollowsInv, OwedInv, Tells, Busy
<1>3. PICK e : /\ e = [Idle EXCEPT !.pc = IF est THEN "refresh" ELSE "scan", !.est = est]
               /\ e \in Evaluation /\ e.pc \in {"refresh", "scan"} /\ (est => e.pc = "refresh")
  <2>1. ASSUME NEW stage \in {"refresh", "scan"}
        PROVE  /\ [Idle EXCEPT !.pc = stage, !.est = est] \in Evaluation
               /\ [Idle EXCEPT !.pc = stage, !.est = est].pc = stage
    BY DEF Idle, Evaluation, Places, Rows
  <2> QED BY <2>1
<1>4. /\ followed' = IF est THEN FALSE ELSE followed
      /\ task' = [task EXCEPT !["loop"] = e]
      /\ UNCHANGED <<store, live, list, watch, move, phone, told, owed>>
  BY <1>3 DEF Turns
<1>5. FollowsTyped'
  BY <1>1, <1>3, <1>4 DEF FollowsInv, FollowsTyped
<1>6. EvaluationsInv'
  BY <1>1, <1>4 DEF FollowsInv, FollowsTyped, EvaluationsInv, Busy
<1>7. RowsInv' /\ Fired' = Fired
  BY <1>4 DEF FollowsInv, RowsInv, Fired, Home
<1>8. ToldInv'
  BY <1>1, <1>3, <1>4, <1>7 DEF FollowsInv, FollowsTyped, ToldInv
<1>9. KnownInv'
  BY <1>1, <1>3, <1>4 DEF FollowsInv, FollowsTyped, KnownInv, Loop, Busy
<1> QED BY <1>2, <1>4, <1>5, <1>6, <1>7, <1>8, <1>9 DEF FollowsInv, OwedInv

LEMMA RefreshesKept == ASSUME FollowsInv, Refreshes PROVE FollowsInv'
<1>1. "loop" \in Tasks /\ task["loop"].pc = "refresh" /\ Busy("loop")
  BY DEF Tasks, Refreshes, Loop, Busy
<1>2. /\ move.pc \in {"no", "done"} /\ store[At].row = phone
      /\ \A u \in Tasks \ {"loop"} : ~Busy(u)
  BY <1>1, BusyAlone DEF Busy, FollowsInv, RowsInv
<1>3. owed = {}
  BY <1>1, <1>2 DEF FollowsInv, OwedInv, Tells, Busy
<1>4. /\ followed' = (phone # NoRow)
      /\ task' = [task EXCEPT !["loop"].pc = "scan"]
      /\ UNCHANGED <<store, live, list, watch, move, phone, told, owed>>
  BY <1>2 DEF Refreshes
<1>5. FollowsTyped'
  <2>1. [task["loop"] EXCEPT !.pc = "scan"] \in Evaluation
    BY <1>1 DEF FollowsInv, FollowsTyped, Evaluation, Places
  <2> QED BY <1>4, <2>1 DEF FollowsInv, FollowsTyped
<1>6. EvaluationsInv'
  BY <1>1, <1>2, <1>4 DEF FollowsInv, FollowsTyped, Evaluation, EvaluationsInv, Busy
<1>7. RowsInv' /\ Fired' = Fired
  BY <1>4 DEF FollowsInv, RowsInv, Fired, Home
<1>8. ToldInv'
  BY <1>1, <1>4, <1>7 DEF FollowsInv, FollowsTyped, Evaluation, ToldInv
<1>9. KnownInv'
  BY <1>4 DEF KnownInv
<1> QED BY <1>3, <1>4, <1>5, <1>6, <1>7, <1>8, <1>9 DEF FollowsInv, OwedInv

\* What touches neither the row nor an evaluation.
LEMMA QuietKept ==
    ASSUME FollowsInv, NewList(list') \/ HoldEnds \/ Minute \/ Disconnects \/ UNCHANGED followVars
    PROVE  FollowsInv'
<1>1. /\ UNCHANGED <<store, task, followed, move, phone, told, owed>>
      /\ list' \in DOMAIN Lists
      /\ watch' = watch \/ watch' = [watch EXCEPT !.held = TRUE]
      /\ move.pc = "closed" => ~live'
  BY DEF NewList, HoldEnds, Minute, Disconnects, Hiccup, followVars, FollowsInv, FollowsTyped, EvaluationsInv
<1>2. Watched(watch') /\ watch'.list = watch.list /\ watch'.current = watch.current
  BY <1>1 DEF FollowsInv, FollowsTyped, Watched, WatchFields
<1>3. FollowsTyped' /\ EvaluationsInv'
  BY <1>1, <1>2 DEF FollowsInv, FollowsTyped, EvaluationsInv, Busy
<1>4. RowsInv' /\ Fired' = Fired
  BY <1>1 DEF FollowsInv, RowsInv, Fired, Home
<1>5. ToldInv' /\ KnownInv'
  BY <1>1, <1>4 DEF FollowsInv, ToldInv, KnownInv, Loop
<1>6. OwedInv'
  <2>1. Lost(watch)' = Lost(watch) /\ \A s \in owed : Mine(s)' = Mine(s)
    BY <1>2 DEF Lost, Mine, Heats
  <2> QED BY <1>1, <1>4, <2>1 DEF FollowsInv, OwedInv, Tells
<1> QED BY <1>3, <1>4, <1>5, <1>6 DEF FollowsInv

-----------------------------------------------------------------------------
(* Follows: the phone, and the move.                                       *)

LEMMA PutKept ==
    ASSUME FollowsInv, OneByOne, NEW row \in Rows, NEW n \in Nodes, n \in Homes, Put(row, n)
    PROVE  FollowsInv'
<1>1. /\ \A t \in Tasks : ~Busy(t)
      /\ move.pc \in {"no", "closed", "done"}
  BY DEF Put, Still, OneByOne, Busy
<1>2. n = Home /\ Home \in Nodes
  BY <1>1 DEF Homes, Home, OneByOne
<1>3. owed = {}
  BY <1>1 DEF FollowsInv, OwedInv, Tells, Busy
<1>4. /\ store' = [store EXCEPT ![Home].row = row, ![Home].fired = IF row = NoRow THEN {} ELSE @]
      /\ phone' = row /\ owed' = {}
      /\ told' = IF row = NoRow THEN Untold ELSE told
      /\ UNCHANGED <<live, list, watch, task, move>>
  BY <1>2, <1>3 DEF Put
<1>5. /\ followed' \in BOOLEAN
      /\ row # NoRow /\ n = At => followed'
  BY DEF Put, OneByOne, FollowsInv, FollowsTyped
<1>6. FollowsTyped'
  <2>1. store' \in [Nodes -> Row]
    BY <1>2, <1>4 DEF FollowsInv, FollowsTyped, Row
  <2> QED BY <1>4, <1>5, <2>1 DEF FollowsInv, FollowsTyped
<1>7. EvaluationsInv'
  BY <1>4 DEF FollowsInv, EvaluationsInv, Busy
<1>8. RowsInv' /\ Fired' = (IF row = NoRow THEN {} ELSE Fired)
  BY <1>1, <1>2, <1>4 DEF FollowsInv, FollowsTyped, RowsInv, Fired, Home, Nodes, Row, NoFollow
<1>9. ToldInv'
  BY <1>1, <1>4, <1>8 DEF FollowsInv, ToldInv, Untold, Busy
<1>10. KnownInv'
  BY <1>1, <1>2, <1>4, <1>5 DEF KnownInv, At, Home
<1> QED BY <1>4, <1>6, <1>7, <1>8, <1>9, <1>10 DEF FollowsInv, OwedInv

LEMMA RestartsKept == ASSUME FollowsInv, Restarts PROVE FollowsInv'
<1>1. /\ watch' = NewWatch /\ followed' = (phone # NoRow) /\ owed' = {}
      /\ task' = [t \in Tasks |-> Idle] /\ live' = FALSE
      /\ UNCHANGED <<store, list, move, phone, told>>
  BY DEF Restarts, Hiccup, At, Home, FollowsInv, RowsInv
<1>2. FollowsTyped'
  BY <1>1, NewWatchTyped, IdleTyped DEF FollowsInv, FollowsTyped, NewWatch
<1>3. RowsInv' /\ Fired' = Fired
  BY <1>1 DEF FollowsInv, RowsInv, Fired, Home
<1> QED BY <1>1, <1>2, <1>3, IdleTyped
      DEF FollowsInv, EvaluationsInv, Busy, ToldInv, KnownInv, OwedInv

LEMMA ConnectsKept == ASSUME FollowsInv, Connects PROVE FollowsInv'
<1>1. CASE move.pc = "closed"
  <2>1. /\ \A t \in Tasks : ~Busy(t)
        /\ move' = [move EXCEPT !.pc = "done"]
        /\ watch' = NewWatch /\ followed' = (store["n2"].row # NoRow) /\ owed' = {}
        /\ UNCHANGED <<store, list, task, phone, told>>
    BY <1>1 DEF Connects, Busy
  <2>2. FollowsTyped'
    BY <2>1, NewWatchTyped DEF FollowsInv, FollowsTyped, NewWatch
  <2>3. RowsInv' /\ Fired' = Fired /\ move'.pc = "done" /\ Home' = "n2" /\ Home = "n2"
    BY <1>1, <2>1 DEF FollowsInv, FollowsTyped, RowsInv, Fired, Home
  <2> QED BY <2>1, <2>2, <2>3
        DEF FollowsInv, EvaluationsInv, RowsInv, Busy, ToldInv, KnownInv, OwedInv
<1>2. CASE move.pc # "closed"
  <2>1. UNCHANGED <<move, watch, followed, owed, store, list, task, phone, told>>
    BY <1>2 DEF Connects
  <2>2. RowsInv' /\ Fired' = Fired
    BY <2>1 DEF FollowsInv, RowsInv, Fired, Home
  <2>3. OwedInv'
    BY <2>1, <2>2 DEF FollowsInv, OwedInv, Lost, Mine, Heats, Tells
  <2> QED BY <1>2, <2>1, <2>2, <2>3
        DEF FollowsInv, FollowsTyped, EvaluationsInv, Busy, ToldInv, KnownInv, Loop
<1> QED BY <1>1, <1>2

LEMMA MoveBeginsKept == ASSUME FollowsInv, OneByOne, MoveBegins PROVE FollowsInv'
<1>1. /\ \A t \in Tasks : ~Busy(t)
      /\ move.pc = "no" /\ move' = [pc |-> "export", row |-> NoRow, fired |-> {}]
      /\ watch' = NewWatch
      /\ UNCHANGED <<store, live, list, followed, task, phone, told, owed>>
  BY DEF MoveBegins, Still, OneByOne, Busy
<1>2. owed = {}
  BY <1>1 DEF FollowsInv, OwedInv, Tells, Busy
<1>3. FollowsTyped'
  BY <1>1, NewWatchTyped DEF FollowsInv, FollowsTyped, NewWatch, Rows
<1>4. RowsInv' /\ Fired' = Fired
  BY <1>1 DEF FollowsInv, RowsInv, Fired, Home
<1> QED BY <1>1, <1>2, <1>3, <1>4
      DEF FollowsInv, EvaluationsInv, Busy, ToldInv, KnownInv, Loop, OwedInv

\* A step of the move: no evaluation is under way, and the row goes with it.
LEMMA MovingKept == ASSUME FollowsInv, OneByOne, Moving PROVE FollowsInv'
<1>1. /\ move.pc \in {"export", "import", "drop", "close"}
      /\ UNCHANGED <<list, watch, followed, task, phone, told, owed>>
      /\ live' = live \/ live' = FALSE
      /\ move'.pc = "closed" => live' = FALSE
  BY DEF Moving, Exports, Imports, Drops, Closes, FollowsInv, FollowsTyped
<1>2. \A t \in Tasks : ~Busy(t)
  BY <1>1 DEF FollowsInv, EvaluationsInv
<1>3. owed = {}
  BY <1>2 DEF FollowsInv, OwedInv, Tells, Busy
<1>4. store' \in [Nodes -> Row] /\ move' \in [pc : {"no", "export", "import", "drop", "close", "closed", "done"},
                 row : Rows, fired : SUBSET Notes]
  BY DEF Moving, Exports, Imports, Drops, Closes, FollowsInv, FollowsTyped, Row, Rows, Nodes
<1>5. RowsInv' /\ Fired' = Fired
  <2>1. CASE Exports
    BY <2>1 DEF Exports, FollowsInv, FollowsTyped, RowsInv, Fired, Home, NoFollow, Nodes, Row
  <2>2. ASSUME NEW stored \in BOOLEAN, NEW answered \in BOOLEAN, Imports(answered, stored)
        PROVE  RowsInv' /\ Fired' = Fired
    <3>1. /\ move.pc = "import" /\ move' = [move EXCEPT !.pc = "drop"]
          /\ store' = [store EXCEPT !["n2"].row = move.row, !["n2"].fired = @ \cup move.fired]
          /\ UNCHANGED phone
      BY <2>2 DEF Imports, OneByOne
    <3>2. /\ move'.pc = "drop" /\ move'.row = move.row /\ move'.fired = move.fired
          /\ Home = "n1" /\ Home' = "n1"
      BY <3>1 DEF FollowsInv, FollowsTyped, Home
    <3>3. store["n2"] = NoFollow /\ store["n1"] = [row |-> move.row, fired |-> move.fired]
      BY <3>1 DEF FollowsInv, RowsInv
    <3>4. store'["n2"] = store["n1"] /\ store'["n1"] = store["n1"]
      <4>1. store \in [Nodes -> Row] /\ "n2" \in Nodes /\ "n1" \in Nodes
        BY DEF FollowsInv, FollowsTyped, Nodes
      <4>2. /\ store'["n1"] = store["n1"]
            /\ store'["n2"] = [[store["n2"] EXCEPT !.row = move.row]
                                  EXCEPT !.fired = @ \cup move.fired]
        BY <3>1, <4>1
      <4>3. \A r, f : [[NoFollow EXCEPT !.row = r] EXCEPT !.fired = f] = [row |-> r, fired |-> f]
        <5>1. \A r : [NoFollow EXCEPT !.row = r] = [row |-> r, fired |-> {}]
          BY DEF NoFollow
        <5>2. \A r, f : [[row |-> r, fired |-> {}] EXCEPT !.fired = f] = [row |-> r, fired |-> f]
          OBVIOUS
        <5> QED BY <5>1, <5>2
      <4>4. NoFollow.fired \cup move.fired = move.fired
        BY DEF NoFollow
      <4>5. [NoFollow EXCEPT !.row = move.row].fired = {}
        BY DEF NoFollow
      <4> QED BY <3>3, <4>2, <4>3, <4>4, <4>5 DEF NoFollow
    <3> QED BY <3>1, <3>2, <3>3, <3>4 DEF FollowsInv, RowsInv, Fired
  <2>3. CASE Drops
    BY <2>3 DEF Drops, FollowsInv, FollowsTyped, RowsInv, Fired, Home, NoFollow, Nodes, Row
  <2>4. CASE Closes
    BY <2>4 DEF Closes, FollowsInv, FollowsTyped, RowsInv, Fired, Home, NoFollow
  <2> QED BY <2>1, <2>2, <2>3, <2>4 DEF Moving
<1>6. FollowsTyped'
  BY <1>1, <1>4 DEF FollowsInv, FollowsTyped
<1>7. KnownInv'
  BY <1>1, <1>2 DEF FollowsInv, KnownInv, Loop, Busy, Tasks
<1> QED BY <1>1, <1>2, <1>3, <1>5, <1>6, <1>7
      DEF FollowsInv, EvaluationsInv, Busy, ToldInv, OwedInv

LEMMA SweepsKept == ASSUME FollowsInv, OneByOne, NEW n \in Nodes, Sweeps(n) PROVE FollowsInv'
<1>1. /\ n = "n1" /\ move.pc = "done"
      /\ store' = [store EXCEPT ![n] = NoFollow]
      /\ UNCHANGED <<live, list, watch, followed, task, move, phone, told, owed>>
  BY DEF Sweeps, OneByOne, NoFollow
<1>2. store' = store
  BY <1>1 DEF FollowsInv, FollowsTyped, RowsInv, Home
<1>3. RowsInv' /\ Fired' = Fired
  BY <1>1, <1>2 DEF FollowsInv, RowsInv, Fired, Home
<1>4. OwedInv'
  BY <1>1, <1>3 DEF FollowsInv, OwedInv, Lost, Mine, Heats, Tells
<1> QED BY <1>1, <1>2, <1>3, <1>4
      DEF FollowsInv, FollowsTyped, EvaluationsInv, Busy, ToldInv, KnownInv, Loop

LEMMA FollowNextInv == ASSUME FollowsInv, OneByOne, [FollowNext]_followVars PROVE FollowsInv'
<1>1. ASSUME NEW t \in Tasks, Evaluates(t) \/ TokenGone(t) PROVE FollowsInv'
  BY <1>1, ReadsKept, DecidesKept, MarksKept, SendsKept, TokenGoneKept DEF Evaluates
<1>2. ASSUME NEW id \in Ids, NEW runs \in BOOLEAN, Frame(id, runs) PROVE FollowsInv'
  BY <1>2, FrameKept
<1>3. ASSUME NEW l \in DOMAIN Lists, NewList(l) PROVE FollowsInv'
  BY <1>3, QuietKept DEF NewList
<1>4. ASSUME NEW est \in BOOLEAN, Turns(est) PROVE FollowsInv'
  BY <1>4, TurnsKept
<1>5. ASSUME NEW row \in Leads \cup {NoRow}, NEW n \in Nodes, n \in Homes, Put(row, n)
      PROVE  FollowsInv'
  BY <1>5, PutKept DEF Rows
<1>6. ASSUME NEW n \in Nodes, Sweeps(n) PROVE FollowsInv'
  BY <1>6, SweepsKept
<1> QED
  BY <1>1, <1>2, <1>3, <1>4, <1>5, <1>6, RefreshesKept, ScansKept, QuietKept, RestartsKept,
     ConnectsKept, MoveBeginsKept, MovingKept DEF FollowNext

-----------------------------------------------------------------------------
(* Follows: what it promises.                                              *)

\* A heat that settles on the board is told to the phone that follows it, and once,
\* for any start lists, registrations, restarts, moves of the meet and steps back of
\* the console (evaluate, due, mark_fired before send, export_meet).
THEOREM SettledHeatsToldOnce == OneByOne => (FollowSpec => []ToldOnce)
<1> SUFFICES ASSUME OneByOne PROVE FollowSpec => []ToldOnce OBVIOUS
<1>1. FollowsInv /\ [FollowNext]_followVars => FollowsInv'
  BY FollowNextInv
<1>2. FollowsInv => ToldOnce
  <2> SUFFICES ASSUME FollowsInv PROVE ToldOnce OBVIOUS
  <2>1. AtMostOnce
    BY DEF FollowsInv, ToldInv, AtMostOnce
  <2>2. SelectedTold
    <3>1. SUFFICES ASSUME NEW s \in owed PROVE \E t \in Tasks : task[t].sel = s
      BY DEF SelectedTold
    <3> QED BY DEF FollowsInv, OwedInv, Tells
  <2> QED BY <2>1, <2>2 DEF ToldOnce
<1> QED BY <1>1, <1>2, FollowInitInv, PTL DEF FollowSpec

\* The node that has the meet has the phone's follow as it was last answered, and no
\* other node has one it withdrew (put, import_meet, drop_meet, keep_only).
THEOREM FollowStays == OneByOne => (FollowSpec => []FollowKept)
<1> SUFFICES ASSUME OneByOne PROVE FollowSpec => []FollowKept OBVIOUS
<1>1. FollowsInv /\ [FollowNext]_followVars => FollowsInv'
  BY FollowNextInv
<1>2. FollowsInv => FollowKept
  BY DEF FollowsInv, RowsInv, FollowKept, Home, At, NoFollow
<1> QED BY <1>1, <1>2, FollowInitInv, PTL DEF FollowSpec
=============================================================================
