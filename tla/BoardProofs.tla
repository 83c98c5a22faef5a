----------------------------- MODULE BoardProofs -----------------------------
(***************************************************************************)
(* Proofs about who is shown the board: the attendees of a meet on the     *)
(* cloud (CloudMeet), for any number of workers, nodes, sockets and frames, *)
(* and the screens beside the pool (BoardReplay), for any number of        *)
(* screens, heats, publications and connections.                           *)
(***************************************************************************)
EXTENDS CloudMeet, BoardReplay, TLAPS

-----------------------------------------------------------------------------
(* CloudMeet: the inductive invariants.                                    *)

PCs == {"free", "recv", "control", "swap", "save", "emit", "offline", "retire", "dark"}
Ages == {"none", "grace", "notice", "old"}

Queue == Seq(Message)
SockType == [w : Workers \cup {None}, pc : PCs, q : Queue, open : BOOLEAN,
             by : {"none", "control", "ticket"}]
PhoneFields == {"at", "pc", "live", "board", "got", "saw"}

SockTyped == sock \in [Sockets -> SockType]
HeldTyped == held \in [Workers -> [sock : Sockets \cup {None}, board : Frames]]
RowTyped ==
    row \in [live : BOOLEAN, at : Workers \cup {None}, from : Workers \cup {None}, age : Ages]
PiTyped == pi \in [sock : Sockets \cup {None}, ticket : Workers \cup {None}, reassign : BOOLEAN]
BeatTyped ==
    beat \in [Workers -> [pc : {"idle", "sent", "told"}, named : BOOLEAN,
                          to : Workers \cup {None}, revoked : BOOLEAN]]
StoreTyped == store \in [Nodes -> {"none", "live", "offline"}]
PhoneTyped == phone = [k \in PhoneFields |-> phone[k]] /\ phone.at \in Workers
Typed ==
    /\ SockTyped /\ HeldTyped /\ RowTyped /\ PiTyped /\ BeatTyped /\ StoreTyped /\ PhoneTyped
    /\ frame \in Frames

AtStep(s, pcs) == sock[s].pc \in pcs

\* The meet is bound to the socket.
Bound(s) == sock[s].w # None /\ held[sock[s].w].sock = s

\* An open socket is the Pi's, a worker has one of the meet's at most, and only the
\* Pi's last one has a register to be asked for: what `Overtaking` is about.
SocketsInv ==
    /\ \A s, t \in Sockets : sock[s].w = sock[t].w /\ sock[s].w # None => s = t
    /\ \A s \in Sockets :
        /\ sock[s].w = None => sock[s] = Free
        /\ sock[s].open => pi.sock = s /\ ~AtStep(s, {"offline", "retire", "dark"})
        /\ Registers(s) => pi.sock \in {None, s}
    /\ pi.sock # None => sock[pi.sock].open /\ sock[pi.sock].w = pi.ticket

\* The socket a worker's meet is bound to is one of that worker's, and stays until
\* its handler leaves.
HeldInv ==
    /\ \A w \in Workers :
        /\ held[w].sock # None =>
            /\ sock[held[w].sock].w = w /\ held[w].sock \in sids
            /\ AtStep(held[w].sock, {"recv", "control", "swap", "save", "emit"})
        /\ held[w].sock = None => held[w].board = 0
    /\ \A s \in Sockets : AtStep(s, {"save", "emit"}) => Bound(s)

\* A page in the channel shows the meet live while the worker holds it, unless a
\* handler is about to say so; the board it got is the worker's.
PhoneInv ==
    /\ phone.pc = "in" =>
        /\ (\A s \in Sockets : sock[s].w # phone.at) => phone.live = FALSE
        /\ \A s \in Sockets :
            sock[s].w = phone.at /\ AtStep(s, {"recv", "control", "swap"}) =>
                phone.live = Holds(phone.at)
        /\ phone.got = held[phone.at].sock /\ held[phone.at].board > 0 =>
            phone.board = held[phone.at].board
    /\ phone.pc = "asked" =>
        (phone.got = held[phone.at].sock /\ held[phone.at].board > 0 =>
            phone.saw = held[phone.at].board)

\* A beat on its way crosses no register, and named what the worker holds.
BeatInv ==
    \A w \in Workers : beat[w].pc = "sent" =>
        /\ \A s \in Sockets : sock[s].w = w => ~AtStep(s, {"control", "swap"})
        /\ ~beat[w].named => ~Holds(w)

\* Where the control plane answered: the row is live on the worker of the socket, or
\* has just been moved from it to a worker that has no socket yet.
RowInv ==
    \A s \in Sockets : sock[s].open /\ sock[s].by = "control" =>
        /\ row.live /\ row.at # None /\ (sock[s].pc = "swap" \/ Bound(s))
        /\ row.at # sock[s].w =>
            /\ row.from = sock[s].w /\ row.age = "grace"
            /\ \A t \in Sockets : sock[t].w # row.at

\* The record of a bound meet the registry places here is live once it is saved.
StoreInv ==
    \A s \in Sockets :
        AtStep(s, {"emit", "recv", "control"}) /\ Bound(s) /\ row.at = sock[s].w =>
            store[NodeOf[sock[s].w]] = "live"

\* A node has one worker.
OneWorkerEach == \A v, w \in Workers : NodeOf[v] = NodeOf[w] => v = w

-----------------------------------------------------------------------------
(* CloudMeet: types.                                                       *)

LEMMA Queues ==
    /\ <<>> \in Queue /\ <<Register>> \in Queue
    /\ \A n \in Frames : <<Register>> \o <<[kind |-> "frame", n |-> n]>> \in Queue
    /\ <<Register>> \o <<>> \in Queue
    /\ \A q \in Queue, n \in Frames : Append(q, [kind |-> "frame", n |-> n]) \in Queue
    /\ \A q \in Queue : q # <<>> => Tail(q) \in Queue /\ Head(q) \in Message
    /\ \A m \in Message : m.n \in Frames
<1>1. Register \in Message BY CloudMeetAssumption DEF Register, Message, Frames
<1>2. \A n \in Frames : [kind |-> "frame", n |-> n] \in Message BY DEF Message
<1>3. \A m \in Message : m.n \in Frames BY DEF Message
<1> QED BY <1>1, <1>2, <1>3 DEF Queue

\* What a handler's step leaves of its socket.
LEMMA SockKept ==
    ASSUME Typed, NEW s \in Sockets, NEW r \in SockType, sock' = [sock EXCEPT ![s] = r]
    PROVE  SockTyped'
BY DEF Typed, SockTyped

LEMMA Freed == Free \in SockType
BY Queues DEF Free, SockType, PCs

LEMMA Stepped ==
    ASSUME Typed, NEW s \in Sockets, NEW pc \in PCs, sock' = Step(s, pc)
    PROVE  SockTyped'
BY DEF Typed, SockTyped, SockType, Step

LEMMA Tookit ==
    ASSUME Typed, NEW s \in Sockets, NEW pc \in PCs, sock[s].q # <<>>, sock' = Took(s, pc)
    PROVE  SockTyped'
<1>1. sock[s] \in SockType BY DEF Typed, SockTyped
<1>2. Tail(sock[s].q) \in Queue BY <1>1, Queues DEF SockType
<1> QED BY <1>1, <1>2 DEF Typed, SockTyped, SockType, Took

LEMMA ClosedKept ==
    ASSUME Typed, NEW s \in Sockets, NEW q \in {sock[s].q, <<>>}, sock' = Closed(s, q)
    PROVE  SockTyped'
<1>1. sock[s] \in SockType BY DEF Typed, SockTyped
<1>2. q \in Queue BY <1>1, Queues DEF SockType
<1> QED BY <1>1, <1>2 DEF Typed, SockTyped, SockType, Closed

LEMMA Names == None \notin Workers /\ None \notin Sockets
BY CloudMeetAssumption

LEMMA SockTypedKept == ASSUME Typed, [Next]_vars PROVE SockTyped'
<1> USE DEF PCs
<1>0. SockTyped BY DEF Typed
<1>1. ASSUME NEW w \in Workers, Ask(w) \/ Move(w) PROVE SockTyped'
  BY <1>0, <1>1 DEF Ask, Move, SockTyped
<1>2. ASSUME NEW w \in Workers, Restart(w) PROVE SockTyped'
  BY <1>0, <1>2, Freed DEF Restart, SockTyped
<1>3. ASSUME NEW w \in Workers, Beat(w) PROVE SockTyped'
  <2>1. CASE UNCHANGED sock BY <1>0, <2>1 DEF SockTyped
  <2>2. CASE BeatTold(w) /\ Holds(w)
    <3>1. held[w].sock \in Sockets BY <2>2 DEF Holds, Typed, HeldTyped
    <3> QED BY <2>2, <3>1, ClosedKept DEF BeatTold
  <2> QED BY <1>3, <2>1, <2>2 DEF Beat, BeatSend, BeatAnswer, BeatFails, BeatTold
<1>4. ASSUME NEW s \in Sockets, Connect(s) PROVE SockTyped'
  <2> DEFINE q == <<Register>> \o IF frame = 0 THEN <<>> ELSE <<[kind |-> "frame", n |-> frame]>>
             r == [w |-> pi.ticket, pc |-> "recv", open |-> TRUE, by |-> "none", q |-> q]
  <2>1. q \in Queue BY Queues DEF Typed
  <2>2. pi.ticket \in Workers \cup {None} BY DEF Typed, PiTyped
  <2>3. sock' = [sock EXCEPT ![s] = r] BY <1>4 DEF Connect
  <2> HIDE DEF q
  <2>4. r \in SockType BY <2>1, <2>2 DEF SockType
  <2> HIDE DEF r
  <2> QED BY <2>3, <2>4, SockKept
<1>5. ASSUME NEW s \in Sockets, RefuseTicket(s) PROVE SockTyped'
  BY <1>5, ClosedKept DEF RefuseTicket
<1>6. ASSUME NEW s \in Sockets, Handler(s) PROVE SockTyped'
  <2>0. sock[s] \in SockType BY <1>0 DEF SockTyped
  <2>1. CASE TakeRegister(s) BY <2>1, Tookit DEF TakeRegister
  <2>2. CASE RegisterControl(s)
    <3>1. PICK by \in {"control", "ticket"} : sock' = [Step(s, "swap") EXCEPT ![s].by = by]
      BY <2>2 DEF RegisterControl
    <3>2. sock' = [sock EXCEPT ![s] = [sock[s] EXCEPT !.pc = "swap", !.by = by]]
      BY <1>0, <3>1 DEF Step, SockTyped
    <3>3. [sock[s] EXCEPT !.pc = "swap", !.by = by] \in SockType BY <2>0 DEF SockType
    <3> QED BY <3>2, <3>3, SockKept
  <2>3. CASE RegisterOnTicket(s)
    <3>1. sock' = [sock EXCEPT ![s] = [sock[s] EXCEPT !.pc = "swap", !.by = "ticket"]]
      BY <1>0, <2>3 DEF RegisterOnTicket, Step, SockTyped
    <3>2. [sock[s] EXCEPT !.pc = "swap", !.by = "ticket"] \in SockType BY <2>0 DEF SockType
    <3> QED BY <3>1, <3>2, SockKept
  <2>4. CASE RegisterRefused(s)
    <3> DEFINE r == [sock[s] EXCEPT !.open = FALSE, !.by = "none", !.q = <<>>, !.pc = "recv"]
    <3>1. sock' = [sock EXCEPT ![s] = r]
      BY <1>0, <2>4 DEF RegisterRefused, Closed, SockTyped
    <3>2. r \in SockType BY <2>0, Queues DEF SockType
    <3> HIDE DEF r
    <3> QED BY <3>1, <3>2, SockKept
  <2>5. CASE Swap(s) BY <2>5, Stepped DEF Swap
  <2>6. CASE SaveLive(s) BY <2>6, Stepped DEF SaveLive
  <2>7. CASE EmitLive(s) BY <2>7, Stepped DEF EmitLive
  <2>8. CASE Forward(s) BY <2>8, Tookit DEF Forward
  <2>9. CASE Disconnect(s) BY <2>9, Stepped, Freed, SockKept DEF Disconnect
  <2>10. CASE StoreOffline(s) BY <2>10, Stepped DEF StoreOffline
  <2>11. CASE Retire(s) BY <2>11, Stepped DEF Retire
  <2>12. CASE EmitDark(s) BY <2>12, Freed, SockKept DEF EmitDark
  <2> QED BY <1>6, <2>1, <2>2, <2>3, <2>4, <2>5, <2>6, <2>7, <2>8, <2>9, <2>10, <2>11, <2>12
          DEF Handler
<1>7. CASE ShowFrame
  <2>1. frame + 1 \in Frames BY <1>7, CloudMeetAssumption DEF ShowFrame, Frames, Typed
  <2>2. CASE pi.sock = None BY <1>0, <1>7, <2>2 DEF ShowFrame, SockTyped
  <2>3. CASE pi.sock # None
    <3>1. pi.sock \in Sockets BY <2>3 DEF Typed, PiTyped
    <3>2. Append(sock[pi.sock].q, [kind |-> "frame", n |-> frame + 1]) \in Queue
      BY <1>0, <2>1, <3>1, Queues DEF SockTyped, SockType
    <3> DEFINE q == Append(sock[pi.sock].q, [kind |-> "frame", n |-> frame + 1])
    <3>3. sock' = [sock EXCEPT ![pi.sock].q = q] BY <1>7, <2>3 DEF ShowFrame
    <3> HIDE DEF q
    <3>4. [sock[pi.sock] EXCEPT !.q = q] \in SockType
      BY <1>0, <3>1, <3>2 DEF SockTyped, SockType, q
    <3>5. sock' = [sock EXCEPT ![pi.sock] = [sock[pi.sock] EXCEPT !.q = q]]
      BY <1>0, <3>1, <3>3 DEF SockTyped
    <3> QED BY <3>1, <3>4, <3>5, SockKept
  <2> QED BY <2>2, <2>3
<1>8. CASE Reregister
  <2>1. pi.sock \in Sockets BY <1>8 DEF Reregister, Typed, PiTyped
  <2> QED BY <1>0, <1>8, <2>1, Queues DEF Reregister, SockTyped, SockType
<1>9. CASE Drop
  <2>1. pi.sock \in Sockets BY <1>9 DEF Drop, Typed, PiTyped
  <2> QED BY <1>9, <2>1, ClosedKept DEF Drop
<1>10. CASE UNCHANGED sock BY <1>0, <1>10 DEF SockTyped
<1>11. CASE Join \/ Joined \/ Leave \/ MoveAges \/ RetireSilent \/ Sweep \/ Revoke
  BY <1>10, <1>11 DEF Join, Joined, Leave, MoveAges, RetireSilent, Sweep, Revoke
<1>12. CASE UNCHANGED vars BY <1>10, <1>12 DEF vars
<1> QED BY <1>1, <1>2, <1>3, <1>4, <1>5, <1>6, <1>7, <1>8, <1>9, <1>11, <1>12 DEF Next

LEMMA HeldTypedKept == ASSUME Typed, [Next]_vars PROVE HeldTyped'
<1>0. HeldTyped BY DEF Typed
<1>1. CASE UNCHANGED held BY <1>0, <1>1 DEF HeldTyped
<1>2. ASSUME NEW w \in Workers, Restart(w) PROVE HeldTyped'
  BY <1>0, <1>2, CloudMeetAssumption DEF Restart, HeldTyped, Nobody, Frames
<1>3. ASSUME NEW s \in Sockets, Handler(s) PROVE HeldTyped'
  <2>1. CASE Swap(s) BY <1>0, <2>1 DEF Swap, HeldTyped
  <2>2. CASE Disconnect(s)
    BY <1>0, <1>1, <2>2, CloudMeetAssumption DEF Disconnect, HeldTyped, Nobody, Frames
  <2>3. CASE Forward(s)
    <3>1. Head(sock[s].q) \in Message
      BY <2>3, Queues DEF Forward, Typed, SockTyped, SockType
    <3>2. Head(sock[s].q).n \in Frames BY <3>1, Queues
    <3> QED BY <1>0, <1>1, <2>3, <3>2 DEF Forward, HeldTyped
  <2>4. CASE TakeRegister(s) \/ RegisterControl(s) \/ RegisterOnTicket(s) \/ RegisterRefused(s)
    BY <1>1, <2>4 DEF TakeRegister, RegisterControl, RegisterOnTicket, RegisterRefused
  <2>5. CASE SaveLive(s) \/ EmitLive(s) \/ StoreOffline(s) \/ Retire(s) \/ EmitDark(s)
    BY <1>1, <2>5 DEF SaveLive, EmitLive, StoreOffline, Retire, EmitDark
  <2> QED BY <1>3, <2>1, <2>2, <2>3, <2>4, <2>5 DEF Handler
<1>4. ASSUME NEW w \in Workers, Ask(w) \/ Move(w) \/ Beat(w) PROVE HeldTyped'
  BY <1>1, <1>4 DEF Ask, Move, Beat, BeatSend, BeatAnswer, BeatFails, BeatTold
<1>5. ASSUME NEW s \in Sockets, Connect(s) \/ RefuseTicket(s) PROVE HeldTyped'
  BY <1>1, <1>5 DEF Connect, RefuseTicket
<1>6. CASE ShowFrame \/ Reregister \/ Drop \/ Join \/ Joined \/ Leave
  BY <1>1, <1>6 DEF ShowFrame, Reregister, Drop, Join, Joined, Leave
<1>7. CASE MoveAges \/ RetireSilent \/ Sweep \/ Revoke \/ UNCHANGED vars
  BY <1>1, <1>7 DEF MoveAges, RetireSilent, Sweep, Revoke, vars
<1> QED BY <1>2, <1>3, <1>4, <1>5, <1>6, <1>7 DEF Next

LEMMA RowTypedKept == ASSUME Typed, [Next]_vars PROVE RowTyped'
<1> USE DEF Ages
<1>0. RowTyped BY DEF Typed
<1>1. CASE UNCHANGED row BY <1>0, <1>1 DEF RowTyped
<1>2. ASSUME NEW w \in Workers, Move(w) PROVE RowTyped' BY <1>0, <1>2 DEF Move, RowTyped
<1>3. ASSUME NEW w \in Workers, BeatAnswer(w) PROVE RowTyped'
  BY <1>0, <1>3 DEF BeatAnswer, AfterBeat, RowTyped
<1>4. ASSUME NEW s \in Sockets, Handler(s) PROVE RowTyped'
  <2>1. CASE RegisterControl(s)
    <3>1. sock[s].w \in Workers \cup {None} BY DEF Typed, SockTyped, SockType
    <3> QED BY <2>1, <3>1 DEF RegisterControl, Registered, RowTyped
  <2>2. CASE Retire(s) BY <1>0, <1>1, <2>2 DEF Retire, RowTyped
  <2>3. CASE TakeRegister(s) \/ RegisterOnTicket(s) \/ RegisterRefused(s) \/ Swap(s)
    BY <1>1, <2>3 DEF TakeRegister, RegisterOnTicket, RegisterRefused, Swap
  <2>4. CASE Forward(s) \/ Disconnect(s)
    BY <1>1, <2>4 DEF Forward, Disconnect
  <2>5. CASE SaveLive(s) \/ EmitLive(s) \/ StoreOffline(s) \/ EmitDark(s)
    BY <1>1, <2>5 DEF SaveLive, EmitLive, StoreOffline, EmitDark
  <2> QED BY <1>4, <2>1, <2>2, <2>3, <2>4, <2>5 DEF Handler
<1>5. ASSUME NEW w \in Workers,
             Ask(w) \/ Restart(w) \/ BeatSend(w) \/ BeatFails(w) \/ BeatTold(w)
      PROVE  RowTyped'
  BY <1>1, <1>5 DEF Ask, Restart, BeatSend, BeatFails, BeatTold
<1>6. ASSUME NEW s \in Sockets, Connect(s) \/ RefuseTicket(s) PROVE RowTyped'
  BY <1>1, <1>6 DEF Connect, RefuseTicket
<1>7. CASE ShowFrame \/ Reregister \/ Drop \/ Join \/ Joined \/ Leave \/ Revoke \/ UNCHANGED vars
  BY <1>1, <1>7 DEF ShowFrame, Reregister, Drop, Join, Joined, Leave, Revoke, vars
<1>8. CASE MoveAges \/ RetireSilent \/ Sweep
  <2>1. CASE MoveAges BY <1>0, <2>1 DEF MoveAges, RowTyped
  <2>2. CASE RetireSilent BY <1>0, <2>2 DEF RetireSilent, RowTyped
  <2>3. CASE Sweep BY <2>3 DEF Sweep, NoRow, RowTyped
  <2> QED BY <1>8, <2>1, <2>2, <2>3
<1> QED BY <1>2, <1>3, <1>4, <1>5, <1>6, <1>7, <1>8 DEF Next, Beat

LEMMA PiTypedKept == ASSUME Typed, [Next]_vars PROVE PiTyped'
<1>0. PiTyped BY DEF Typed
<1>1. CASE UNCHANGED pi BY <1>0, <1>1 DEF PiTyped
<1>2. ASSUME NEW s, NEW again \in BOOLEAN, Rejected(s, again) PROVE PiTyped'
  BY <1>0, <1>1, <1>2 DEF Rejected, PiTyped
<1>3. ASSUME NEW w \in Workers, Ask(w) \/ Restart(w) PROVE PiTyped'
  BY <1>0, <1>1, <1>3 DEF Ask, Restart, PiTyped
<1>4. ASSUME NEW w \in Workers, BeatTold(w) PROVE PiTyped'
  BY <1>1, <1>2, <1>4 DEF BeatTold
<1>5. ASSUME NEW s \in Sockets, Connect(s) PROVE PiTyped' BY <1>0, <1>5 DEF Connect, PiTyped
<1>6. ASSUME NEW s \in Sockets, RefuseTicket(s) \/ RegisterRefused(s) PROVE PiTyped'
  BY <1>2, <1>6 DEF RefuseTicket, RegisterRefused
<1>7. CASE Drop BY <1>0, <1>7 DEF Drop, PiTyped
<1>8. ASSUME NEW s \in Sockets, Handler(s) PROVE PiTyped'
  BY <1>1, <1>6, <1>8 DEF Handler, TakeRegister, RegisterControl, RegisterOnTicket, Swap,
     SaveLive, EmitLive, Forward, Disconnect, StoreOffline, Retire, EmitDark
<1>9. ASSUME NEW w \in Workers, Move(w) \/ BeatSend(w) \/ BeatAnswer(w) \/ BeatFails(w)
      PROVE PiTyped'
  BY <1>1, <1>9 DEF Move, BeatSend, BeatAnswer, BeatFails
<1>10. CASE ShowFrame \/ Reregister \/ Join \/ Joined \/ Leave \/ Revoke \/ UNCHANGED vars
  BY <1>1, <1>10 DEF ShowFrame, Reregister, Join, Joined, Leave, Revoke, vars
<1>11. CASE MoveAges \/ RetireSilent \/ Sweep
  BY <1>1, <1>11 DEF MoveAges, RetireSilent, Sweep
<1> QED BY <1>3, <1>4, <1>5, <1>6, <1>7, <1>8, <1>9, <1>10, <1>11 DEF Next, Beat

LEMMA BeatTypedKept == ASSUME Typed, [Next]_vars PROVE BeatTyped'
<1>0. BeatTyped BY DEF Typed
<1>1. CASE UNCHANGED beat BY <1>0, <1>1 DEF BeatTyped
<1>2. ASSUME NEW w \in Workers, Restart(w) \/ BeatSend(w) \/ BeatFails(w) \/ BeatTold(w)
      PROVE  BeatTyped'
  <2> DEFINE T == [pc : {"idle", "sent", "told"}, named : BOOLEAN,
                   to : Workers \cup {None}, revoked : BOOLEAN]
             sent == [Idle EXCEPT !.pc = "sent", !.named = Holds(w)]
  <2>1. Idle \in T BY DEF Idle
  <2>2. sent \in T BY DEF Idle, Holds
  <2>3. beat' = [beat EXCEPT ![w] = Idle] \/ beat' = [beat EXCEPT ![w] = sent]
    BY <1>2 DEF Restart, BeatSend, BeatFails, BeatTold
  <2> HIDE DEF sent
  <2> QED BY <1>0, <2>1, <2>2, <2>3 DEF BeatTyped
<1>3. ASSUME NEW w \in Workers, BeatAnswer(w) PROVE BeatTyped'
  <2>1. row.at \in Workers \cup {None} /\ row.live \in BOOLEAN BY DEF Typed, RowTyped
  <2>2. beat[w].named \in BOOLEAN BY <1>0 DEF BeatTyped
  <2> QED BY <1>0, <1>3, <2>1, <2>2 DEF BeatAnswer, BeatTyped
<1>4. ASSUME NEW w \in Workers, Ask(w) \/ Move(w) PROVE BeatTyped'
  BY <1>1, <1>4 DEF Ask, Move
<1>5. ASSUME NEW s \in Sockets, Handler(s) \/ Connect(s) \/ RefuseTicket(s) PROVE BeatTyped'
  BY <1>1, <1>5 DEF Handler, TakeRegister, RegisterControl, RegisterOnTicket, RegisterRefused,
     Swap, SaveLive, EmitLive, Forward, Disconnect, StoreOffline, Retire, EmitDark, Connect,
     RefuseTicket
<1>6. CASE ShowFrame \/ Reregister \/ Drop \/ Join \/ Joined \/ Leave \/ Revoke \/ UNCHANGED vars
  BY <1>1, <1>6 DEF ShowFrame, Reregister, Drop, Join, Joined, Leave, Revoke, vars
<1>7. CASE MoveAges \/ RetireSilent \/ Sweep
  BY <1>1, <1>7 DEF MoveAges, RetireSilent, Sweep
<1> QED BY <1>2, <1>3, <1>4, <1>5, <1>6, <1>7 DEF Next, Beat

LEMMA PhoneTypedKept == ASSUME Typed, [Next]_vars PROVE PhoneTyped'
<1> USE DEF PhoneTyped
<1>0. PhoneTyped BY DEF Typed
<1>1. CASE UNCHANGED phone BY <1>0, <1>1
<1>2. ASSUME NEW w \in Workers, Restart(w) PROVE PhoneTyped'
  <2>1. phone' = IF phone.at = w THEN [phone EXCEPT !.pc = "away", !.got = "none", !.saw = 0]
                 ELSE phone
    BY <1>2 DEF Restart
  <2> QED BY <1>0, <1>1, <2>1 DEF PhoneFields
<1>3. ASSUME NEW w \in Workers, BeatTold(w) PROVE PhoneTyped'
  <2>1. beat[w].to \in Workers \cup {None} BY DEF Typed, BeatTyped
  <2>2. \/ phone' = phone
        \/ beat[w].to # None /\ phone' = [phone EXCEPT !.at = beat[w].to, !.pc = "away"]
    BY <1>3 DEF BeatTold
  <2> QED BY <1>0, <1>1, <2>1, <2>2 DEF PhoneFields
<1>4. ASSUME NEW s \in Sockets, Handler(s) PROVE PhoneTyped'
  <2>1. CASE Swap(s) BY <1>0, <2>1 DEF Swap, PhoneFields
  <2>2. CASE EmitLive(s) BY <1>0, <2>2 DEF EmitLive, PhoneFields
  <2>3. CASE Forward(s) BY <1>0, <2>3 DEF Forward, PhoneFields
  <2>4. CASE EmitDark(s) BY <1>0, <2>4 DEF EmitDark, PhoneFields
  <2>5. CASE UNCHANGED phone BY <1>1, <2>5
  <2> QED BY <1>4, <2>1, <2>2, <2>3, <2>4, <2>5 DEF Handler, TakeRegister, RegisterControl,
      RegisterOnTicket, RegisterRefused, SaveLive, Disconnect, StoreOffline, Retire
<1>5. CASE Join BY <1>0, <1>5 DEF Join, PhoneFields
<1>6. CASE Joined BY <1>0, <1>6 DEF Joined, PhoneFields
<1>7. CASE Leave BY <1>0, <1>7 DEF Leave, PhoneFields
<1>8. ASSUME NEW w \in Workers, Ask(w) \/ Move(w) \/ BeatSend(w) \/ BeatAnswer(w) \/ BeatFails(w)
      PROVE  PhoneTyped'
  BY <1>1, <1>8 DEF Ask, Move, BeatSend, BeatAnswer, BeatFails
<1>9. ASSUME NEW s \in Sockets, Connect(s) \/ RefuseTicket(s) PROVE PhoneTyped'
  BY <1>1, <1>9 DEF Connect, RefuseTicket
<1>10. CASE ShowFrame \/ Reregister \/ Drop \/ Revoke \/ UNCHANGED vars
  BY <1>1, <1>10 DEF ShowFrame, Reregister, Drop, Revoke, vars
<1>11. CASE MoveAges \/ RetireSilent \/ Sweep
  BY <1>1, <1>11 DEF MoveAges, RetireSilent, Sweep
<1> QED BY <1>2, <1>3, <1>4, <1>5, <1>6, <1>7, <1>8, <1>9, <1>10, <1>11 DEF Next, Beat

LEMMA StoreTypedKept == ASSUME Typed, [Next]_vars PROVE StoreTyped' /\ frame' \in Frames
<1>0. StoreTyped /\ frame \in Frames BY DEF Typed
<1>1. CASE UNCHANGED <<store, frame>> BY <1>0, <1>1 DEF StoreTyped
<1>2. CASE ShowFrame
  <2>1. frame + 1 \in Frames BY <1>0, <1>2, CloudMeetAssumption DEF ShowFrame, Frames
  <2> QED BY <1>0, <1>2, <2>1 DEF ShowFrame, StoreTyped
<1>3. ASSUME NEW s \in Sockets, SaveLive(s) \/ StoreOffline(s) PROVE StoreTyped' /\ frame' \in Frames
  BY <1>0, <1>3 DEF SaveLive, StoreOffline, StoreTyped
<1>4. ASSUME NEW w \in Workers, BeatAnswer(w) PROVE StoreTyped' /\ frame' \in Frames
  BY <1>0, <1>4 DEF BeatAnswer, KeepOnly, StoreTyped
<1>5. ASSUME NEW w \in Workers,
             Ask(w) \/ Move(w) \/ Restart(w) \/ BeatSend(w) \/ BeatFails(w) \/ BeatTold(w)
      PROVE  StoreTyped' /\ frame' \in Frames
  BY <1>1, <1>5 DEF Ask, Move, Restart, BeatSend, BeatFails, BeatTold
<1>6. ASSUME NEW s \in Sockets, Handler(s) \/ Connect(s) \/ RefuseTicket(s)
      PROVE  StoreTyped' /\ frame' \in Frames
  BY <1>1, <1>3, <1>6 DEF Handler, TakeRegister, RegisterControl, RegisterOnTicket,
     RegisterRefused, Swap, EmitLive, Forward, Disconnect, Retire, EmitDark, Connect, RefuseTicket
<1>7. CASE Reregister \/ Drop \/ Join \/ Joined \/ Leave \/ UNCHANGED vars
  BY <1>1, <1>7 DEF Reregister, Drop, Join, Joined, Leave, vars
<1>8. CASE MoveAges \/ RetireSilent \/ Sweep \/ Revoke
  BY <1>1, <1>8 DEF MoveAges, RetireSilent, Sweep, Revoke, cloudVars
<1> QED BY <1>2, <1>4, <1>5, <1>6, <1>7, <1>8 DEF Next, Beat

LEMMA TypedKept == ASSUME Typed, [Next]_vars PROVE Typed'
BY SockTypedKept, HeldTypedKept, RowTypedKept, PiTypedKept, BeatTypedKept, PhoneTypedKept,
   StoreTypedKept DEF Typed

LEMMA TypedFirst == Init => Typed
<1> SUFFICES ASSUME Init PROVE Typed OBVIOUS
<1>1. 0 \in Frames BY CloudMeetAssumption DEF Frames
<1>2. SockTyped BY Freed DEF Init, SockTyped
<1>3. HeldTyped BY <1>1 DEF Init, HeldTyped, Nobody
<1>4. RowTyped /\ PiTyped /\ BeatTyped /\ StoreTyped
  BY DEF Init, RowTyped, PiTyped, BeatTyped, StoreTyped, NoRow, Idle, Ages
<1>5. PhoneTyped
  BY DEF Init, PhoneTyped, PhoneFields
<1> QED BY <1>1, <1>2, <1>3, <1>4, <1>5 DEF Typed, Init

-----------------------------------------------------------------------------
(* CloudMeet: the sockets, and who holds the meet.                         *)

CoreInv == Typed /\ SocketsInv /\ HeldInv

\* The step is the socket's alone.
Alone(s) == \A t \in Sockets : t # s => sock'[t] = sock[t]

LEMMA Used ==
    ASSUME CoreInv, NEW s \in Sockets, sock[s].pc # "free" \/ sock[s].open
    PROVE  sock[s].w \in Workers /\ sock[s].w # None
BY Names DEF CoreInv, Typed, SockTyped, SockType, SocketsInv, Free

\* A step of one socket: it stays its worker's, and is the Pi's or closed.
LEMMA SocketAlone ==
    ASSUME CoreInv, Typed', NEW s \in Sockets, Alone(s),
           sock[s].w # None, sock'[s].w = sock[s].w,
           sock'[s].open => ~(sock'[s].pc \in {"offline", "retire", "dark"}),
           Registers(s)' => Registers(s) \/ pi.sock \in {None, s},
           \/ pi'.sock = pi.sock /\ pi'.ticket = pi.ticket /\ sock'[s].open = sock[s].open
           \/ pi.sock = s /\ pi'.sock = None /\ ~sock'[s].open
    PROVE  SocketsInv'
<1>1. /\ \A t \in Sockets : t # s => sock'[t] = sock[t]
      /\ \A t \in Sockets : sock'[t].w = sock[t].w
  BY DEF Alone
<1>2. \A t \in Sockets : t # s => (Registers(t)' <=> Registers(t)) BY <1>1 DEF Registers
<1>3. pi'.sock \in {None, pi.sock} OBVIOUS
<1>4. \A t, u \in Sockets : sock'[t].w = sock'[u].w /\ sock'[t].w # None => t = u
  BY <1>1 DEF CoreInv, SocketsInv
<1>5. ASSUME NEW t \in Sockets
      PROVE  /\ sock'[t].w = None => sock'[t] = Free
             /\ sock'[t].open => pi'.sock = t /\ ~AtStep(t, {"offline", "retire", "dark"})'
             /\ Registers(t)' => pi'.sock \in {None, t}
  <2>1. CASE t = s BY <1>1, <1>3, <2>1 DEF CoreInv, SocketsInv, AtStep
  <2>2. CASE t # s BY <1>1, <1>2, <1>3, <2>2 DEF CoreInv, SocketsInv, AtStep
  <2> QED BY <2>1, <2>2
<1>6. pi'.sock # None => sock'[pi'.sock].open /\ sock'[pi'.sock].w = pi'.ticket
  <2>1. ASSUME pi'.sock # None PROVE pi.sock \in Sockets
    BY <1>3, <2>1 DEF CoreInv, Typed, PiTyped
  <2> QED BY <1>1, <1>3, <2>1 DEF CoreInv, SocketsInv
<1> QED BY <1>4, <1>5, <1>6 DEF SocketsInv

\* A socket let go.
LEMMA SocketFreed ==
    ASSUME CoreInv, NEW s \in Sockets, ~sock[s].open, Alone(s), sock'[s] = Free,
           UNCHANGED pi
    PROVE  SocketsInv'
<1>1. /\ sock'[s] = Free
      /\ \A t \in Sockets : t # s => sock'[t] = sock[t]
  BY DEF Alone
<1>2. \A t \in Sockets : t # s => (Registers(t)' <=> Registers(t)) BY <1>1 DEF Registers
<1>3. ~Registers(s)' BY <1>1 DEF Registers, Free
<1>4. \A t, u \in Sockets : sock'[t].w = sock'[u].w /\ sock'[t].w # None => t = u
  BY <1>1 DEF CoreInv, SocketsInv, Free
<1>5. ASSUME NEW t \in Sockets
      PROVE  /\ sock'[t].w = None => sock'[t] = Free
             /\ sock'[t].open => pi'.sock = t /\ ~AtStep(t, {"offline", "retire", "dark"})'
             /\ Registers(t)' => pi'.sock \in {None, t}
  <2>1. CASE t = s BY <1>1, <1>3, <2>1 DEF Free
  <2>2. CASE t # s BY <1>1, <1>2, <2>2 DEF CoreInv, SocketsInv, AtStep
  <2> QED BY <2>1, <2>2
<1>6. pi'.sock # None => sock'[pi'.sock].open /\ sock'[pi'.sock].w = pi'.ticket
  BY <1>1 DEF CoreInv, SocketsInv, Typed, PiTyped
<1> QED BY <1>4, <1>5, <1>6 DEF SocketsInv

\* ... and what holds the meet goes on holding it.
LEMMA HeldAlone ==
    ASSUME CoreInv, Typed', NEW s \in Sockets, Alone(s),
           sock'[s].w = sock[s].w, UNCHANGED <<held, sids>>,
           Bound(s) => sock'[s].pc \in {"recv", "control", "swap", "save", "emit"},
           sock'[s].pc \in {"save", "emit"} => Bound(s)
    PROVE  HeldInv'
<1>1. /\ \A t \in Sockets : t # s => sock'[t] = sock[t]
      /\ \A t \in Sockets : sock'[t].w = sock[t].w
  BY DEF Alone
<1>2. ASSUME NEW w \in Workers, held[w].sock # None
      PROVE  /\ sock'[held[w].sock].w = w /\ held[w].sock \in sids
             /\ AtStep(held[w].sock, {"recv", "control", "swap", "save", "emit"})'
  <2>1. held[w].sock \in Sockets BY <1>2 DEF CoreInv, Typed, HeldTyped
  <2>2. sock[held[w].sock].w = w /\ held[w].sock \in sids
    BY <1>2 DEF CoreInv, HeldInv
  <2>3. CASE held[w].sock = s
    <3>1. Bound(s) BY <2>2, <2>3, Names DEF Bound
    <3> QED BY <1>1, <2>1, <2>2, <2>3, <3>1 DEF AtStep
  <2>4. CASE held[w].sock # s
    BY <1>1, <1>2, <2>1, <2>2, <2>4 DEF CoreInv, HeldInv, AtStep
  <2> QED BY <2>3, <2>4
<1>3. ASSUME NEW t \in Sockets, AtStep(t, {"save", "emit"})' PROVE Bound(t)'
  BY <1>1, <1>3 DEF CoreInv, HeldInv, AtStep, Bound
<1>4. \A w \in Workers : held[w].sock = None => held[w].board = 0 BY DEF CoreInv, HeldInv
<1> QED BY <1>2, <1>3, <1>4 DEF HeldInv

LEMMA StepView ==
    ASSUME Typed, NEW s \in Sockets, NEW pc, sock' = Step(s, pc)
    PROVE  /\ Alone(s) /\ sock'[s].pc = pc
           /\ UNCHANGED <<sock[s].w, sock[s].open, sock[s].by>>
           /\ pc # "control" => (Registers(s)' => Registers(s))
<1>1. sock[s] \in SockType BY DEF Typed, SockTyped
<1>2. Alone(s) /\ sock'[s] = [sock[s] EXCEPT !.pc = pc]
  BY DEF Typed, SockTyped, Step, Alone
<1>3. sock'[s].pc = pc /\ UNCHANGED <<sock[s].w, sock[s].open, sock[s].q, sock[s].by>>
  BY <1>1, <1>2 DEF SockType
<1> QED BY <1>2, <1>3 DEF Registers

LEMMA TookView ==
    ASSUME Typed, NEW s \in Sockets, sock[s].q # <<>>, NEW pc, sock' = Took(s, pc)
    PROVE  /\ Alone(s) /\ sock'[s].pc = pc
           /\ UNCHANGED <<sock[s].w, sock[s].open, sock[s].by>>
           /\ pc # "control" => (Registers(s)' => Registers(s))
<1>1. sock[s] \in SockType BY DEF Typed, SockTyped
<1>2. Alone(s) /\ sock'[s] = [sock[s] EXCEPT !.pc = pc, !.q = Tail(@)]
  BY DEF Typed, SockTyped, Took, Alone
<1>3. /\ sock'[s].pc = pc /\ UNCHANGED <<sock[s].w, sock[s].open, sock[s].by>>
      /\ sock'[s].q = Tail(sock[s].q)
  BY <1>1, <1>2 DEF SockType
<1>4. ASSUME NEW i \in 1..Len(Tail(sock[s].q)), Tail(sock[s].q)[i].kind = "register"
      PROVE  \E j \in 1..Len(sock[s].q) : sock[s].q[j].kind = "register"
  <2>1. sock[s].q \in Seq(Message) BY <1>1 DEF SockType, Queue
  <2>2. i + 1 \in 1..Len(sock[s].q) /\ Tail(sock[s].q)[i] = sock[s].q[i + 1] BY <2>1
  <2> QED BY <1>4, <2>2
<1> QED BY <1>2, <1>3, <1>4 DEF Registers

LEMMA ClosedView ==
    ASSUME Typed, NEW s \in Sockets, NEW q \in {sock[s].q, <<>>}, sock' = Closed(s, q)
    PROVE  /\ Alone(s) /\ ~sock'[s].open /\ sock'[s].by = "none"
           /\ UNCHANGED <<sock[s].w, sock[s].pc>>
           /\ Registers(s)' => Registers(s)
<1>1. sock[s] \in SockType BY DEF Typed, SockTyped
<1>2. Alone(s) /\ sock'[s] = [sock[s] EXCEPT !.open = FALSE, !.by = "none", !.q = q]
  BY DEF Typed, SockTyped, Closed, Alone
<1>3. /\ ~sock'[s].open /\ sock'[s].by = "none" /\ UNCHANGED <<sock[s].w, sock[s].pc>>
      /\ sock'[s].q = q
  BY <1>1, <1>2 DEF SockType
<1>4. Registers(s)' => Registers(s)
  <2>1. CASE q = sock[s].q BY <1>3, <2>1 DEF Registers
  <2>2. CASE q = <<>>
    <3>1. Len(q) = 0 BY <2>2
    <3> QED BY <1>3, <3>1 DEF Registers
  <2> QED BY <2>1, <2>2
<1> QED BY <1>2, <1>3, <1>4

LEMMA FreedView ==
    ASSUME Typed, NEW s \in Sockets, sock' = [sock EXCEPT ![s] = Free]
    PROVE  Alone(s) /\ sock'[s] = Free
BY DEF Typed, SockTyped, Alone

LEMMA AnsweredView ==
    ASSUME Typed, NEW s \in Sockets, RegisterControl(s) \/ RegisterOnTicket(s)
    PROVE  /\ Alone(s) /\ sock'[s].pc = "swap" /\ UNCHANGED <<sock[s].w, sock[s].open>>
           /\ Registers(s)' => Registers(s)
<1>1. sock[s] \in SockType BY DEF Typed, SockTyped
<1>2. PICK by : sock' = [Step(s, "swap") EXCEPT ![s].by = by]
  BY DEF RegisterControl, RegisterOnTicket
<1>3. Alone(s) /\ sock'[s] = [sock[s] EXCEPT !.pc = "swap", !.by = by]
  BY <1>2 DEF Typed, SockTyped, Step, Alone
<1>4. sock'[s].pc = "swap" /\ UNCHANGED <<sock[s].w, sock[s].open, sock[s].q>>
  BY <1>1, <1>3 DEF SockType
<1> QED BY <1>3, <1>4 DEF Registers

LEMMA RefusedView ==
    ASSUME Typed, NEW s \in Sockets, RegisterRefused(s)
    PROVE  /\ Alone(s) /\ sock'[s].pc = "recv" /\ sock'[s].w = sock[s].w /\ ~sock'[s].open
           /\ sock'[s].by = "none" /\ ~Registers(s)'
<1>1. sock[s] \in SockType BY DEF Typed, SockTyped
<1>2. /\ Alone(s)
      /\ sock'[s] = [sock[s] EXCEPT !.open = FALSE, !.by = "none", !.q = <<>>, !.pc = "recv"]
  BY DEF Typed, SockTyped, Closed, Alone, RegisterRefused
<1>3. /\ sock'[s].pc = "recv" /\ sock'[s].w = sock[s].w /\ ~sock'[s].open
      /\ sock'[s].by = "none" /\ sock'[s].q = <<>>
  BY <1>1, <1>2 DEF SockType
<1>4. Len(sock'[s].q) = 0 BY <1>3
<1> QED BY <1>2, <1>3, <1>4 DEF Registers

\* What the Pi does with `rejected`, seen from an open socket that is being closed.
LEMMA RejectedView ==
    ASSUME CoreInv, NEW s \in Sockets, NEW again, Rejected(s, again)
    PROVE  \/ pi'.sock = pi.sock /\ pi'.ticket = pi.ticket /\ ~sock[s].open
           \/ pi.sock = s /\ pi'.sock = None
<1>1. CASE pi.sock = s BY <1>1 DEF Rejected, CoreInv, Typed, PiTyped
<1>2. CASE pi.sock # s BY <1>2 DEF Rejected, CoreInv, SocketsInv
<1> QED BY <1>1, <1>2

LEMMA HandlerKept ==
    ASSUME CoreInv, Typed', NEW s \in Sockets, Handler(s) \/ RefuseTicket(s)
    PROVE  SocketsInv' /\ HeldInv'
<1> USE DEF At
<1>0. Typed BY DEF CoreInv
<1>a. ASSUME sock[s].pc # "free" PROVE sock[s].w \in Workers /\ sock[s].w # None
  BY <1>a, Used
<1>b. ~AtStep(s, {"save", "emit"}) \/ Bound(s) BY DEF CoreInv, HeldInv
<1>c. AtStep(s, {"offline", "retire", "dark"}) => ~sock[s].open BY DEF CoreInv, SocketsInv
<1>d. AtStep(s, {"offline", "retire", "dark"}) => ~Bound(s)
  <2>1. ASSUME Bound(s), sock[s].w \in Workers, sock[s].w # None
        PROVE  AtStep(s, {"recv", "control", "swap", "save", "emit"})
    BY <2>1, Names DEF Bound, CoreInv, HeldInv
  <2> QED BY <1>a, <2>1 DEF AtStep
<1>1. CASE TakeRegister(s)
  <2>1. /\ sock[s].pc = "recv" /\ sock[s].q # <<>> /\ Next1(s) = "register"
        /\ sock' = Took(s, "control") /\ UNCHANGED <<pi, held, sids>>
    BY <1>1 DEF TakeRegister
  <2>2. /\ Alone(s) /\ sock'[s].pc = "control"
        /\ sock'[s].w = sock[s].w /\ sock'[s].open = sock[s].open
    BY <1>0, <2>1, TookView
  <2>3. Registers(s)
    <3>1. sock[s].q \in Seq(Message) BY <1>0 DEF Typed, SockTyped, SockType, Queue
    <3>2. 1 \in 1..Len(sock[s].q) /\ sock[s].q[1] = Head(sock[s].q) BY <2>1, <3>1
    <3> QED BY <2>1, <3>2 DEF Registers, Next1
  <2>4. SocketsInv' BY <1>a, <2>1, <2>2, <2>3, SocketAlone
  <2>5. HeldInv' BY <2>1, <2>2, HeldAlone
  <2> QED BY <2>4, <2>5
<1>2. CASE RegisterControl(s) \/ RegisterOnTicket(s)
  <2>1. sock[s].pc = "control" /\ UNCHANGED <<pi, held, sids>>
    BY <1>2 DEF RegisterControl, RegisterOnTicket
  <2>2. /\ Alone(s) /\ sock'[s].pc = "swap" /\ UNCHANGED <<sock[s].w, sock[s].open>>
        /\ Registers(s)' => Registers(s)
    BY <1>0, <1>2, AnsweredView
  <2>3. SocketsInv' BY <1>a, <2>1, <2>2, SocketAlone
  <2>4. HeldInv' BY <2>1, <2>2, HeldAlone
  <2> QED BY <2>3, <2>4
<1>3. CASE RegisterRefused(s)
  <2>1. sock[s].pc = "control" /\ UNCHANGED <<held, sids>> /\ Rejected(s, FALSE)
    BY <1>3 DEF RegisterRefused
  <2>2. /\ Alone(s) /\ sock'[s].pc = "recv" /\ sock'[s].w = sock[s].w /\ ~sock'[s].open
        /\ ~Registers(s)'
    BY <1>0, <1>3, RefusedView
  <2>3. \/ pi'.sock = pi.sock /\ pi'.ticket = pi.ticket /\ ~sock[s].open
        \/ pi.sock = s /\ pi'.sock = None
    BY <2>1, RejectedView
  <2>4. sock[s].open \in BOOLEAN /\ sock'[s].open \in BOOLEAN
    BY <1>0 DEF Typed, SockTyped, SockType
  <2>5. SocketsInv'
    BY <1>a, <2>1, <2>2, <2>3, <2>4, SocketAlone
  <2>6. HeldInv' BY <2>1, <2>2, HeldAlone
  <2> QED BY <2>5, <2>6
<1>4. CASE RefuseTicket(s)
  <2>1. /\ sock[s].pc = "recv" /\ UNCHANGED <<held, sids>> /\ Rejected(s, TRUE)
        /\ sock' = Closed(s, <<>>)
    BY <1>4 DEF RefuseTicket
  <2>2. /\ Alone(s) /\ sock'[s].pc = "recv" /\ sock'[s].w = sock[s].w /\ ~sock'[s].open
        /\ Registers(s)' => Registers(s)
    BY <1>0, <2>1, ClosedView
  <2>3. \/ pi'.sock = pi.sock /\ pi'.ticket = pi.ticket /\ ~sock[s].open
        \/ pi.sock = s /\ pi'.sock = None
    BY <2>1, RejectedView
  <2>4. sock[s].open \in BOOLEAN /\ sock'[s].open \in BOOLEAN
    BY <1>0 DEF Typed, SockTyped, SockType
  <2>5. SocketsInv' BY <1>a, <2>1, <2>2, <2>3, <2>4, SocketAlone
  <2>6. HeldInv' BY <2>1, <2>2, HeldAlone
  <2> QED BY <2>5, <2>6
<1>5. CASE Swap(s)
  <2> DEFINE w == sock[s].w
  <2>1. /\ sock[s].pc = "swap" /\ held' = [held EXCEPT ![w].sock = s]
        /\ sids' = sids \cup {s} /\ sock' = Step(s, "save") /\ UNCHANGED pi
    BY <1>5 DEF Swap
  <2>2. /\ Alone(s) /\ sock'[s].pc = "save" /\ UNCHANGED <<sock[s].w, sock[s].open>>
        /\ Registers(s)' => Registers(s)
    BY <1>0, <2>1, StepView
  <2>3. w \in Workers /\ w # None BY <1>a, <2>1
  <2>4. SocketsInv' BY <2>1, <2>2, <2>3, SocketAlone
  <2>5. /\ held'[w].sock = s
        /\ \A v \in Workers : v # w => held'[v] = held[v]
    BY <1>0, <2>1, <2>3 DEF Typed, HeldTyped
  <2>6. \A t \in Sockets : sock'[t].w = sock[t].w BY <2>2 DEF Alone
  <2>7. ASSUME NEW v \in Workers, v # w, held[v].sock # None
        PROVE  /\ sock'[held[v].sock].w = v /\ held[v].sock \in sids'
               /\ sock'[held[v].sock].pc \in {"recv", "control", "swap", "save", "emit"}
    <3>1. held[v].sock \in Sockets BY <1>0, <2>7 DEF Typed, HeldTyped
    <3>2. sock[held[v].sock].w = v /\ held[v].sock \in sids
          /\ AtStep(held[v].sock, {"recv", "control", "swap", "save", "emit"})
      BY <2>7 DEF CoreInv, HeldInv
    <3>3. held[v].sock # s BY <2>7, <3>2
    <3> QED BY <2>1, <2>2, <3>1, <3>2, <3>3 DEF Alone, AtStep
  <2>8. ASSUME NEW v \in Workers
        PROVE  /\ held'[v].sock # None =>
                    /\ sock'[held'[v].sock].w = v /\ held'[v].sock \in sids'
                    /\ AtStep(held[v].sock, {"recv", "control", "swap", "save", "emit"})'
               /\ held'[v].sock = None => held'[v].board = 0
    <3>1. CASE v = w BY <2>1, <2>2, <2>5, <3>1, Names DEF AtStep
    <3>2. CASE v # w
      <4>1. held'[v] = held[v] BY <2>5, <3>2
      <4>2. held[v].sock = None => held[v].board = 0 BY DEF CoreInv, HeldInv
      <4> QED BY <2>7, <3>2, <4>1, <4>2 DEF AtStep
    <3> QED BY <3>1, <3>2
  <2>9. ASSUME NEW t \in Sockets, AtStep(t, {"save", "emit"})' PROVE Bound(t)'
    <3>1. CASE t = s BY <2>2, <2>3, <2>5, <3>1 DEF Bound
    <3>2. CASE t # s
      <4>1. sock'[t] = sock[t] BY <2>2, <3>2 DEF Alone
      <4>2. Bound(t) BY <2>9, <4>1 DEF CoreInv, HeldInv, AtStep
      <4>3. sock[t].w \in Workers
        BY <1>0, <4>2 DEF Typed, SockTyped, SockType, Bound
      <4>4. sock[t].w # w BY <2>3, <3>2 DEF CoreInv, SocketsInv
      <4> QED BY <2>5, <4>1, <4>2, <4>3, <4>4 DEF Bound
    <3> QED BY <3>1, <3>2
  <2>10. HeldInv' BY <2>8, <2>9 DEF HeldInv
  <2> QED BY <2>4, <2>10
<1>6. CASE SaveLive(s)
  <2>1. sock[s].pc = "save" /\ sock' = Step(s, "emit") /\ UNCHANGED <<pi, held, sids>>
    BY <1>6 DEF SaveLive
  <2>2. /\ Alone(s) /\ sock'[s].pc = "emit" /\ UNCHANGED <<sock[s].w, sock[s].open>>
        /\ Registers(s)' => Registers(s)
    BY <1>0, <2>1, StepView
  <2>3. SocketsInv' BY <1>a, <2>1, <2>2, SocketAlone
  <2>4. HeldInv' BY <1>b, <2>1, <2>2, HeldAlone DEF AtStep
  <2> QED BY <2>3, <2>4
<1>7. CASE EmitLive(s)
  <2>1. sock[s].pc = "emit" /\ sock' = Step(s, "recv") /\ UNCHANGED <<pi, held, sids>>
    BY <1>7 DEF EmitLive
  <2>2. /\ Alone(s) /\ sock'[s].pc = "recv" /\ UNCHANGED <<sock[s].w, sock[s].open>>
        /\ Registers(s)' => Registers(s)
    BY <1>0, <2>1, StepView
  <2>3. SocketsInv' BY <1>a, <2>1, <2>2, SocketAlone
  <2>4. HeldInv' BY <2>1, <2>2, HeldAlone
  <2> QED BY <2>3, <2>4
<1>8. CASE Forward(s)
  <2> DEFINE w == sock[s].w
             n == Head(sock[s].q).n
  <2>1. /\ sock[s].pc = "recv" /\ sock[s].q # <<>> /\ sock' = Took(s, "recv")
        /\ UNCHANGED <<pi, sids>>
        /\ held' = held \/ (Holds(w) /\ held' = [held EXCEPT ![w].board = n])
    BY <1>8 DEF Forward
  <2>2. /\ Alone(s) /\ sock'[s].pc = "recv" /\ UNCHANGED <<sock[s].w, sock[s].open>>
        /\ Registers(s)' => Registers(s)
    BY <1>0, <2>1, TookView
  <2>3. w \in Workers /\ w # None BY <1>a, <2>1
  <2>4. SocketsInv' BY <2>1, <2>2, <2>3, SocketAlone
  <2>5. \A v \in Workers :
            held'[v].sock = held[v].sock /\ (held[v].sock = None => held'[v] = held[v])
    BY <1>0, <2>1, <2>3 DEF Typed, HeldTyped, Holds
  <2>6. \A t \in Sockets :
            sock'[t].w = sock[t].w /\ sock'[t].pc = sock[t].pc
    BY <2>1, <2>2 DEF Alone
  <2>7. ASSUME NEW v \in Workers
        PROVE  /\ held'[v].sock # None =>
                    /\ sock'[held'[v].sock].w = v /\ held'[v].sock \in sids'
                    /\ AtStep(held[v].sock, {"recv", "control", "swap", "save", "emit"})'
               /\ held'[v].sock = None => held'[v].board = 0
    <3>1. held[v].sock # None => held[v].sock \in Sockets BY <1>0 DEF Typed, HeldTyped
    <3> QED BY <2>1, <2>5, <2>6, <3>1 DEF CoreInv, HeldInv, AtStep
  <2>8. ASSUME NEW t \in Sockets, AtStep(t, {"save", "emit"})' PROVE Bound(t)'
    <3>1. Bound(t) BY <2>6, <2>8 DEF CoreInv, HeldInv, AtStep
    <3>2. sock[t].w \in Workers BY <1>0, <3>1 DEF Typed, SockTyped, SockType, Bound
    <3> QED BY <2>5, <2>6, <3>1, <3>2 DEF Bound
  <2>9. HeldInv' BY <2>7, <2>8 DEF HeldInv
  <2> QED BY <2>4, <2>9
<1>9. CASE Disconnect(s)
  <2> DEFINE w == sock[s].w
  <2>1. /\ sock[s].pc = "recv" /\ ~sock[s].open /\ sids' = sids \ {s} /\ UNCHANGED pi
    BY <1>9 DEF Disconnect
  <2>2. w \in Workers /\ w # None BY <1>a, <2>1
  <2>3. \A v \in Workers : v # w => held[v].sock # s
    <3>1. ASSUME NEW v \in Workers, held[v].sock = s PROVE v = w
      BY <3>1, Names DEF CoreInv, HeldInv
    <3> QED BY <3>1
  <2>4. CASE s \in sids /\ held[w].sock = s
    <3>1. held' = [held EXCEPT ![w] = Nobody] /\ sock' = Step(s, "offline")
      BY <1>9, <2>4 DEF Disconnect
    <3>2. /\ Alone(s) /\ sock'[s].pc = "offline" /\ UNCHANGED <<sock[s].w, sock[s].open>>
          /\ Registers(s)' => Registers(s)
      BY <1>0, <3>1, StepView
    <3>3. SocketsInv' BY <2>1, <2>2, <3>2, SocketAlone
    <3>4. held'[w] = Nobody /\ \A v \in Workers : v # w => held'[v] = held[v]
      BY <1>0, <2>2, <3>1 DEF Typed, HeldTyped
    <3>5. ASSUME NEW v \in Workers
          PROVE  /\ held'[v].sock # None =>
                      /\ sock'[held'[v].sock].w = v /\ held'[v].sock \in sids'
                      /\ AtStep(held[v].sock, {"recv", "control", "swap", "save", "emit"})'
                 /\ held'[v].sock = None => held'[v].board = 0
      <4>1. CASE v = w BY <3>4, <4>1 DEF Nobody
      <4>2. CASE v # w
        <5>1. held'[v] = held[v] /\ held[v].sock # s BY <2>3, <3>4, <4>2
        <5>2. held[v].sock # None => held[v].sock \in Sockets BY <1>0 DEF Typed, HeldTyped
        <5> QED BY <2>1, <3>2, <5>1, <5>2 DEF CoreInv, HeldInv, AtStep, Alone
      <4> QED BY <4>1, <4>2
    <3>6. ASSUME NEW t \in Sockets, AtStep(t, {"save", "emit"})' PROVE Bound(t)'
      <4>1. t # s BY <3>2, <3>6 DEF AtStep
      <4>2. sock'[t] = sock[t] BY <3>2, <4>1 DEF Alone
      <4>3. Bound(t) BY <3>6, <4>2 DEF CoreInv, HeldInv, AtStep
      <4>4. sock[t].w \in Workers BY <1>0, <4>3 DEF Typed, SockTyped, SockType, Bound
      <4>5. sock[t].w # w BY <2>2, <4>1 DEF CoreInv, SocketsInv
      <4> QED BY <3>4, <4>2, <4>3, <4>4, <4>5 DEF Bound
    <3>7. HeldInv' BY <3>5, <3>6 DEF HeldInv
    <3> QED BY <3>3, <3>7
  <2>5. CASE ~(s \in sids /\ held[w].sock = s)
    <3>1. UNCHANGED held /\ sock' = [sock EXCEPT ![s] = Free]
      BY <1>9, <2>5 DEF Disconnect
    <3>2. Alone(s) /\ sock'[s] = Free BY <1>0, <3>1, FreedView
    <3>3. SocketsInv' BY <2>1, <3>2, SocketFreed
    <3>4. \A v \in Workers : held[v].sock # s
      <4>1. held[w].sock # s BY <2>2, <2>5, Names DEF CoreInv, HeldInv
      <4> QED BY <2>3, <4>1
    <3>5. ASSUME NEW v \in Workers, held[v].sock # None
          PROVE  /\ sock'[held[v].sock].w = v /\ held[v].sock \in sids'
                 /\ AtStep(held[v].sock, {"recv", "control", "swap", "save", "emit"})'
      <4>1. held[v].sock \in Sockets BY <1>0, <3>5 DEF Typed, HeldTyped
      <4>2. sock'[held[v].sock] = sock[held[v].sock] BY <3>2, <3>4, <4>1 DEF Alone
      <4>3. /\ sock[held[v].sock].w = v /\ held[v].sock \in sids
            /\ AtStep(held[v].sock, {"recv", "control", "swap", "save", "emit"})
        BY <3>5 DEF CoreInv, HeldInv
      <4> QED BY <2>1, <3>1, <3>4, <4>2, <4>3 DEF AtStep
    <3>6. ASSUME NEW t \in Sockets, AtStep(t, {"save", "emit"})' PROVE Bound(t)'
      BY <3>1, <3>2, <3>6 DEF CoreInv, HeldInv, AtStep, Alone, Bound, Free
    <3>7. HeldInv' BY <3>1, <3>5, <3>6 DEF HeldInv, CoreInv
    <3> QED BY <3>3, <3>7
  <2> QED BY <2>4, <2>5
<1>10. CASE StoreOffline(s) \/ Retire(s)
  <2>1. /\ AtStep(s, {"offline", "retire"}) /\ UNCHANGED <<pi, held, sids>>
        /\ \E pc \in {"retire", "dark"} : sock' = Step(s, pc)
    BY <1>10 DEF StoreOffline, Retire, AtStep
  <2>2. /\ Alone(s) /\ sock'[s].pc \in {"retire", "dark"}
        /\ UNCHANGED <<sock[s].w, sock[s].open>>
        /\ Registers(s)' => Registers(s)
    BY <1>0, <2>1, StepView
  <2>3. ~sock[s].open /\ ~Bound(s) /\ sock[s].pc # "free"
    BY <1>c, <1>d, <2>1 DEF AtStep
  <2>4. SocketsInv' BY <1>a, <2>1, <2>2, <2>3, SocketAlone
  <2>5. HeldInv' BY <2>1, <2>2, <2>3, HeldAlone
  <2> QED BY <2>4, <2>5
<1>11. CASE EmitDark(s)
  <2>1. sock[s].pc = "dark" /\ UNCHANGED <<pi, held, sids>> /\ sock' = [sock EXCEPT ![s] = Free]
    BY <1>11 DEF EmitDark
  <2>2. Alone(s) /\ sock'[s] = Free BY <1>0, <2>1, FreedView
  <2>3. ~sock[s].open /\ ~Bound(s) BY <1>c, <1>d, <2>1 DEF AtStep
  <2>4. SocketsInv' BY <2>1, <2>2, <2>3, SocketFreed
  <2>5. ASSUME NEW v \in Workers, held[v].sock # None
        PROVE  /\ sock'[held[v].sock].w = v /\ held[v].sock \in sids'
               /\ AtStep(held[v].sock, {"recv", "control", "swap", "save", "emit"})'
    <3>1. held[v].sock \in Sockets BY <1>0, <2>5 DEF Typed, HeldTyped
    <3>2. sock[held[v].sock].w = v BY <2>5 DEF CoreInv, HeldInv
    <3>3. held[v].sock # s BY <2>3, <3>2, Names DEF Bound
    <3> QED BY <2>1, <2>2, <2>5, <3>1, <3>3 DEF CoreInv, HeldInv, AtStep, Alone
  <2>6. ASSUME NEW t \in Sockets, AtStep(t, {"save", "emit"})' PROVE Bound(t)'
    BY <2>1, <2>2, <2>6 DEF CoreInv, HeldInv, AtStep, Alone, Bound, Free
  <2>7. HeldInv' BY <2>1, <2>5, <2>6 DEF HeldInv, CoreInv
  <2> QED BY <2>4, <2>7
<1> QED BY <1>1, <1>2, <1>3, <1>4, <1>5, <1>6, <1>7, <1>8, <1>9, <1>10, <1>11 DEF Handler

\* Steps that leave the sockets, and who is bound to them, as they are.
LEMMA CoreSame ==
    ASSUME CoreInv, UNCHANGED <<sock, held, sids>>,
           pi'.sock = pi.sock /\ (pi.sock # None => pi'.ticket = pi.ticket)
    PROVE  SocketsInv' /\ HeldInv'
<1>1. \A s \in Sockets : Registers(s)' <=> Registers(s) BY DEF Registers
<1>2. SocketsInv' BY <1>1 DEF CoreInv, SocketsInv, AtStep
<1>3. HeldInv' BY DEF CoreInv, HeldInv, AtStep, Bound
<1> QED BY <1>2, <1>3

LEMMA ConnectKept ==
    ASSUME CoreInv, Typed', ~Overtaking, NEW s \in Sockets, Connect(s)
    PROVE  SocketsInv' /\ HeldInv'
<1> DEFINE r == [w |-> pi.ticket, pc |-> "recv", open |-> TRUE, by |-> "none",
                 q |-> <<Register>> \o IF frame = 0 THEN <<>>
                                       ELSE <<[kind |-> "frame", n |-> frame]>>]
<1>1. /\ pi.sock = None /\ pi.ticket # None /\ sock[s].pc = "free"
      /\ \A t \in Sockets : sock[t].w # pi.ticket /\ ~Registers(t)
      /\ sock' = [sock EXCEPT ![s] = r]
      /\ pi' = [pi EXCEPT !.sock = s] /\ UNCHANGED <<held, sids>>
  BY DEF Connect
<1>2. Alone(s) /\ sock'[s] = r BY <1>1 DEF CoreInv, Typed, SockTyped, Alone
<1> HIDE DEF r
<1>3. sock'[s].w = pi.ticket /\ sock'[s].open /\ sock'[s].pc = "recv" BY <1>2 DEF r
<1>4. pi'.sock = s /\ pi'.ticket = pi.ticket BY <1>1 DEF CoreInv, Typed, PiTyped
<1>5. \A t, u \in Sockets : sock'[t].w = sock'[u].w /\ sock'[t].w # None => t = u
  BY <1>1, <1>2, <1>3 DEF CoreInv, SocketsInv, Alone
<1>6. ASSUME NEW t \in Sockets
      PROVE  /\ sock'[t].w = None => sock'[t] = Free
             /\ sock'[t].open => pi'.sock = t /\ ~AtStep(t, {"offline", "retire", "dark"})'
             /\ Registers(t)' => pi'.sock \in {None, t}
  <2>1. CASE t = s BY <1>1, <1>3, <1>4, <2>1 DEF AtStep
  <2>2. CASE t # s
    <3>1. sock'[t] = sock[t] BY <1>2, <2>2 DEF Alone
    <3>2. ~Registers(t)' BY <1>1, <3>1 DEF Registers
    <3>3. ~sock[t].open BY <1>1, Names DEF CoreInv, SocketsInv
    <3> QED BY <3>1, <3>2, <3>3 DEF CoreInv, SocketsInv
  <2> QED BY <2>1, <2>2
<1>7. SocketsInv' BY <1>3, <1>4, <1>5, <1>6 DEF SocketsInv
<1>8. ASSUME NEW v \in Workers, held[v].sock # None
      PROVE  /\ sock'[held[v].sock].w = v /\ held[v].sock \in sids
             /\ sock'[held[v].sock].pc \in {"recv", "control", "swap", "save", "emit"}
  <2>1. held[v].sock \in Sockets BY <1>8 DEF CoreInv, Typed, HeldTyped
  <2>2. /\ sock[held[v].sock].w = v /\ held[v].sock \in sids
        /\ AtStep(held[v].sock, {"recv", "control", "swap", "save", "emit"})
    BY <1>8 DEF CoreInv, HeldInv
  <2>3. held[v].sock # s BY <1>1, <2>2 DEF AtStep
  <2> QED BY <1>2, <2>1, <2>2, <2>3 DEF Alone, AtStep
<1>9. ASSUME NEW t \in Sockets, AtStep(t, {"save", "emit"})' PROVE Bound(t)'
  <2>1. t # s BY <1>3, <1>9 DEF AtStep
  <2> QED BY <1>1, <1>2, <1>9, <2>1 DEF CoreInv, HeldInv, AtStep, Alone, Bound
<1>10. HeldInv' BY <1>1, <1>8, <1>9 DEF HeldInv, CoreInv, AtStep
<1> QED BY <1>7, <1>10

\* The Pi's own steps on its open socket.
LEMMA PiKept ==
    ASSUME CoreInv, Typed', ShowFrame \/ Reregister \/ Drop
    PROVE  SocketsInv' /\ HeldInv'
<1>0. Typed BY DEF CoreInv
<1>1. CASE pi.sock = None BY <1>1, CoreSame DEF ShowFrame, Reregister, Drop
<1>2. CASE pi.sock # None
  <2>a. pi.sock \in Sockets BY <1>0, <1>2 DEF Typed, PiTyped
  <2>b. PICK s \in Sockets : s = pi.sock BY <2>a
  <2>1. sock[s].open BY <1>2, <2>b DEF CoreInv, SocketsInv
  <2>c. sock[s] \in SockType BY <1>0 DEF Typed, SockTyped
  <2>2. sock[s].w # None BY <2>1, Used
  <2>3. /\ UNCHANGED <<held, sids>> /\ Alone(s)
        /\ sock'[s].w = sock[s].w /\ sock'[s].pc = sock[s].pc
        /\ \/ pi' = pi /\ sock'[s].open = sock[s].open
           \/ pi'.sock = None /\ ~sock'[s].open
    <3>1. CASE ShowFrame
      <4>1. /\ UNCHANGED <<held, sids, pi>>
            /\ \E q : sock' = [sock EXCEPT ![s].q = q]
        BY <1>2, <2>b, <3>1 DEF ShowFrame
      <4> QED BY <1>0, <2>c, <4>1 DEF Typed, SockTyped, SockType, Alone
    <3>2. CASE Reregister
      <4>1. /\ UNCHANGED <<held, sids, pi>>
            /\ \E q : sock' = [sock EXCEPT ![s].q = q]
        BY <2>b, <3>2 DEF Reregister
      <4> QED BY <1>0, <2>c, <4>1 DEF Typed, SockTyped, SockType, Alone
    <3>3. CASE Drop
      <4>1. PICK q \in {sock[s].q, <<>>} : sock' = Closed(s, q) BY <2>b, <3>3 DEF Drop
      <4>2. UNCHANGED <<held, sids>> /\ pi' = [pi EXCEPT !.sock = None] BY <3>3 DEF Drop
      <4>3. pi'.sock = None BY <1>0, <4>2 DEF Typed, PiTyped
      <4>4. Alone(s) /\ ~sock'[s].open /\ UNCHANGED <<sock[s].w, sock[s].pc>>
        BY <1>0, <4>1, ClosedView
      <4> QED BY <4>2, <4>3, <4>4
    <3> QED BY <3>1, <3>2, <3>3
  <2>4. ~AtStep(s, {"offline", "retire", "dark"}) BY <2>1 DEF CoreInv, SocketsInv
  <2>5. SocketsInv'
    BY <2>1, <2>2, <2>3, <2>4, <2>b, SocketAlone DEF AtStep
  <2>6. Bound(s) => AtStep(s, {"recv", "control", "swap", "save", "emit"})
    <3>1. sock[s].w \in Workers BY <2>1, Used
    <3> QED BY <2>1, <3>1, Names DEF CoreInv, HeldInv, Bound
  <2>7. AtStep(s, {"save", "emit"}) => Bound(s) BY <2>1 DEF CoreInv, HeldInv
  <2>8. HeldInv' BY <2>1, <2>3, <2>6, <2>7, HeldAlone DEF AtStep
  <2> QED BY <2>5, <2>8
<1> QED BY <1>1, <1>2

\* A worker told by its beat to let the meet go closes the socket it holds it by.
LEMMA ToldView ==
    ASSUME CoreInv, NEW w \in Workers, BeatTold(w), Holds(w)
    PROVE  \E s \in Sockets :
           /\ s = held[w].sock /\ sock[s].w = w /\ Bound(s) /\ sock[s].pc # "free"
           /\ Alone(s) /\ ~sock'[s].open /\ sock'[s].by = "none"
           /\ UNCHANGED <<sock[s].w, sock[s].pc>>
           /\ Registers(s)' => Registers(s)
           /\ \/ pi'.sock = pi.sock /\ pi'.ticket = pi.ticket /\ ~sock[s].open
              \/ pi.sock = s /\ pi'.sock = None
<1>1. held[w].sock \in Sockets BY DEF Holds, CoreInv, Typed, HeldTyped
<1>a. PICK s \in Sockets : s = held[w].sock BY <1>1
<1>2. /\ sock[s].w = w /\ AtStep(s, {"recv", "control", "swap", "save", "emit"})
  BY <1>a DEF Holds, CoreInv, HeldInv
<1>3. Bound(s) /\ sock[s].pc # "free" BY <1>2, <1>a, Names DEF Bound, AtStep
<1>4. PICK q \in {sock[s].q, <<>>} : sock' = Closed(s, q) BY <1>a DEF BeatTold
<1>5. Rejected(s, beat[w].to # None) BY <1>a DEF BeatTold
<1>6. /\ Alone(s) /\ ~sock'[s].open /\ sock'[s].by = "none"
      /\ UNCHANGED <<sock[s].w, sock[s].pc>> /\ (Registers(s)' => Registers(s))
  BY <1>4, ClosedView DEF CoreInv
<1>7. \/ pi'.sock = pi.sock /\ pi'.ticket = pi.ticket /\ ~sock[s].open
      \/ pi.sock = s /\ pi'.sock = None
  BY <1>5, RejectedView DEF Rejected
<1> QED BY <1>2, <1>3, <1>6, <1>7, <1>a

LEMMA ToldKept ==
    ASSUME CoreInv, Typed', NEW w \in Workers, BeatTold(w)
    PROVE  SocketsInv' /\ HeldInv'
<1>1. CASE ~Holds(w) BY <1>1, CoreSame DEF BeatTold
<1>2. CASE Holds(w)
  <2>1. PICK s \in Sockets :
           /\ s = held[w].sock /\ sock[s].w = w /\ Bound(s) /\ sock[s].pc # "free"
           /\ Alone(s) /\ ~sock'[s].open /\ sock'[s].by = "none"
           /\ UNCHANGED <<sock[s].w, sock[s].pc>>
           /\ Registers(s)' => Registers(s)
           /\ \/ pi'.sock = pi.sock /\ pi'.ticket = pi.ticket /\ ~sock[s].open
              \/ pi.sock = s /\ pi'.sock = None
    BY <1>2, ToldView
  <2>2. sock[s].open \in BOOLEAN /\ sock'[s].open \in BOOLEAN
    BY DEF CoreInv, Typed, SockTyped, SockType
  <2>3. SocketsInv' BY <2>1, <2>2, Names, SocketAlone
  <2>4. /\ AtStep(s, {"recv", "control", "swap", "save", "emit"})
    BY <1>2, <2>1 DEF Holds, CoreInv, HeldInv
  <2>5. UNCHANGED <<held, sids>> BY DEF BeatTold
  <2>6. HeldInv' BY <2>1, <2>4, <2>5, HeldAlone DEF AtStep
  <2> QED BY <2>3, <2>6
<1> QED BY <1>1, <1>2

LEMMA RestartKept ==
    ASSUME CoreInv, Typed', NEW w \in Workers, Restart(w)
    PROVE  SocketsInv' /\ HeldInv'
<1> DEFINE mine == {s \in Sockets : sock[s].w = w}
<1>1. /\ held' = [held EXCEPT ![w] = Nobody] /\ sids' = sids \ mine
      /\ sock' = [s \in Sockets |-> IF s \in mine THEN Free ELSE sock[s]]
      /\ pi' = IF pi.sock \in mine THEN [pi EXCEPT !.sock = None] ELSE pi
  BY DEF Restart
<1>2. ASSUME NEW s \in Sockets
      PROVE  /\ sock[s].w = w => sock'[s] = Free
             /\ sock[s].w # w => sock'[s] = sock[s] /\ (Registers(s)' <=> Registers(s))
  BY <1>1 DEF Registers
<1>3. held'[w] = Nobody /\ \A v \in Workers : v # w => held'[v] = held[v]
  BY <1>1 DEF CoreInv, Typed, HeldTyped
<1>4. \/ pi'.sock = None /\ pi.sock \in mine
      \/ pi' = pi /\ pi.sock \notin mine
  BY <1>1 DEF CoreInv, Typed, PiTyped
<1>5. \A t, u \in Sockets : sock'[t].w = sock'[u].w /\ sock'[t].w # None => t = u
  BY <1>2 DEF CoreInv, SocketsInv, Free
<1>6. ASSUME NEW t \in Sockets
      PROVE  /\ sock'[t].w = None => sock'[t] = Free
             /\ sock'[t].open => pi'.sock = t /\ ~AtStep(t, {"offline", "retire", "dark"})'
             /\ Registers(t)' => pi'.sock \in {None, t}
  <2>1. CASE sock[t].w = w
    <3>1. sock'[t] = Free BY <1>2, <2>1
    <3>2. ~Registers(t)' BY <3>1 DEF Registers, Free
    <3> QED BY <3>1, <3>2 DEF Free
  <2>2. CASE sock[t].w # w
    <3>1. sock'[t] = sock[t] /\ (Registers(t)' <=> Registers(t)) BY <1>2, <2>2
    <3> QED BY <1>4, <2>2, <3>1 DEF CoreInv, SocketsInv, AtStep
  <2> QED BY <2>1, <2>2
<1>7. pi'.sock # None => sock'[pi'.sock].open /\ sock'[pi'.sock].w = pi'.ticket
  <2>1. ASSUME pi'.sock # None
        PROVE  pi.sock \in Sockets /\ sock[pi.sock].w # w /\ pi' = pi
    BY <1>4, <2>1 DEF CoreInv, Typed, PiTyped
  <2> QED BY <1>2, <2>1 DEF CoreInv, SocketsInv
<1>8. SocketsInv' BY <1>5, <1>6, <1>7 DEF SocketsInv
<1>9. ASSUME NEW v \in Workers, held'[v].sock # None
      PROVE  /\ held'[v] = held[v] /\ sock'[held[v].sock].w = v /\ held[v].sock \in sids'
             /\ sock'[held[v].sock].pc \in {"recv", "control", "swap", "save", "emit"}
  <2>1. v # w /\ held'[v] = held[v] BY <1>3, <1>9 DEF Nobody
  <2>2. /\ held[v].sock \in Sockets /\ sock[held[v].sock].w = v /\ held[v].sock \in sids
        /\ AtStep(held[v].sock, {"recv", "control", "swap", "save", "emit"})
    BY <1>9, <2>1 DEF CoreInv, HeldInv, Typed, HeldTyped
  <2> QED BY <1>1, <1>2, <2>1, <2>2 DEF AtStep
<1>10. ASSUME NEW t \in Sockets, AtStep(t, {"save", "emit"})' PROVE Bound(t)'
  <2>1. sock[t].w # w /\ sock'[t] = sock[t] BY <1>2, <1>10 DEF AtStep, Free
  <2>2. Bound(t) BY <1>10, <2>1 DEF CoreInv, HeldInv, AtStep
  <2>3. sock[t].w \in Workers BY <2>2 DEF Bound, CoreInv, Typed, SockTyped, SockType
  <2> QED BY <1>3, <2>1, <2>2, <2>3 DEF Bound
<1>11. \A v \in Workers : held'[v].sock = None => held'[v].board = 0
  BY <1>3 DEF CoreInv, HeldInv, Nobody
<1>12. HeldInv' BY <1>9, <1>10, <1>11 DEF HeldInv, AtStep
<1> QED BY <1>8, <1>12

LEMMA CoreKept == ASSUME CoreInv, ~Overtaking, [Next]_vars PROVE CoreInv'
<1>1. Typed' BY TypedKept DEF CoreInv
<1>2. CASE UNCHANGED <<sock, held, sids>> /\ UNCHANGED pi BY <1>1, <1>2, CoreSame DEF CoreInv
<1>3. ASSUME NEW w \in Workers, Ask(w) PROVE CoreInv'
  BY <1>1, <1>3, CoreSame DEF Ask, CoreInv, Typed, PiTyped
<1>4. ASSUME NEW w \in Workers, Move(w) \/ BeatSend(w) \/ BeatAnswer(w) \/ BeatFails(w)
      PROVE CoreInv'
  BY <1>2, <1>4 DEF Move, BeatSend, BeatAnswer, BeatFails
<1>5. ASSUME NEW w \in Workers, BeatTold(w) \/ Restart(w) PROVE CoreInv'
  BY <1>1, <1>5, ToldKept, RestartKept DEF CoreInv
<1>6. ASSUME NEW s \in Sockets, Connect(s) PROVE CoreInv'
  BY <1>1, <1>6, ConnectKept DEF CoreInv
<1>7. ASSUME NEW s \in Sockets, Handler(s) \/ RefuseTicket(s) PROVE CoreInv'
  BY <1>1, <1>7, HandlerKept DEF CoreInv
<1>8. CASE ShowFrame \/ Reregister \/ Drop BY <1>1, <1>8, PiKept DEF CoreInv
<1>9. CASE Join \/ Joined \/ Leave BY <1>2, <1>9 DEF Join, Joined, Leave
<1>10. CASE MoveAges \/ RetireSilent \/ Sweep \/ Revoke
  BY <1>2, <1>10 DEF MoveAges, RetireSilent, Sweep, Revoke
<1>11. CASE UNCHANGED vars BY <1>2, <1>11 DEF vars
<1> QED BY <1>3, <1>4, <1>5, <1>6, <1>7, <1>8, <1>9, <1>10, <1>11 DEF Next, Beat

LEMMA CoreFirst == Init => CoreInv
<1> SUFFICES ASSUME Init PROVE CoreInv OBVIOUS
<1>1. Typed BY TypedFirst
<1>2. \A s \in Sockets : sock[s] = Free /\ ~Registers(s) BY DEF Init, Registers, Free
<1>3. SocketsInv BY <1>2 DEF SocketsInv, Init, Free
<1>4. HeldInv BY <1>2 DEF HeldInv, Init, Nobody, AtStep, Free
<1> QED BY <1>1, <1>3, <1>4 DEF CoreInv

-----------------------------------------------------------------------------
(* CloudMeet: what the page in the channel is shown.                       *)

\* The Pi's steps leave every socket where it is, on what it was answered, or close it.
LEMMA PiView ==
    ASSUME CoreInv, ShowFrame \/ Reregister \/ Drop, NEW t \in Sockets
    PROVE  /\ UNCHANGED <<sock[t].w, sock[t].pc>>
           /\ sock'[t].open => sock[t].open /\ sock'[t].by = sock[t].by
<1>0. Typed BY DEF CoreInv
<1>1. CASE UNCHANGED sock BY <1>1
<1>2. CASE pi.sock # None
  <2>1. PICK s \in Sockets : s = pi.sock BY <1>0, <1>2 DEF Typed, PiTyped
  <2>2. sock[s] \in SockType BY <1>0 DEF Typed, SockTyped
  <2>3. CASE ShowFrame \/ Reregister
    <3>1. \E q : sock' = [sock EXCEPT ![s].q = q]
      BY <1>2, <2>1, <2>3 DEF ShowFrame, Reregister
    <3> QED BY <1>0, <2>2, <3>1 DEF Typed, SockTyped, SockType
  <2>4. CASE Drop
    <3>1. PICK q \in {sock[s].q, <<>>} : sock' = Closed(s, q) BY <2>1, <2>4 DEF Drop
    <3> QED BY <1>0, <3>1, ClosedView DEF Alone
  <2> QED BY <2>3, <2>4
<1> QED BY <1>1, <1>2 DEF ShowFrame, Reregister, Drop

\* The sockets of the page's worker stay, none comes back to receive without what the
\* page is shown being so, and the worker's board is the page's still.
LEMMA PhoneStays ==
    ASSUME PhoneInv, UNCHANGED phone,
           phone.pc = "in" => \A t \in Sockets : sock[t].w = phone.at => sock'[t].w = phone.at,
           \A t \in Sockets :
               sock'[t].w = phone.at /\ sock'[t].pc \in {"recv", "control", "swap"} =>
                   /\ sock[t].w = phone.at /\ sock[t].pc \in {"recv", "control", "swap"}
                   /\ held'[phone.at].sock = held[phone.at].sock,
           held'[phone.at].board > 0 =>
               UNCHANGED <<held[phone.at].sock, held[phone.at].board>>
    PROVE  PhoneInv'
BY DEF PhoneInv, AtStep, Holds

\* A step of one socket, of another worker than the page's.
LEMMA PhoneElsewhere ==
    ASSUME PhoneInv, UNCHANGED phone, NEW s \in Sockets, Alone(s),
           sock[s].w # phone.at, sock'[s].w # phone.at, held'[phone.at] = held[phone.at]
    PROVE  PhoneInv'
BY PhoneStays DEF Alone

\* A step of one socket that holds nothing new.
LEMMA PhoneAlone ==
    ASSUME PhoneInv, UNCHANGED <<phone, held>>, NEW s \in Sockets, Alone(s),
           UNCHANGED sock[s].w,
           sock'[s].pc \in {"recv", "control", "swap"} =>
               sock[s].pc \in {"recv", "control", "swap"}
    PROVE  PhoneInv'
BY PhoneStays DEF Alone

LEMMA PhoneHandler ==
    ASSUME CoreInv, PhoneInv, NEW s \in Sockets, Handler(s) \/ RefuseTicket(s)
    PROVE  PhoneInv'
<1> USE DEF At
<1> DEFINE w == sock[s].w
<1>0. Typed /\ phone.at \in Workers /\ phone.at # None
  BY Names DEF CoreInv, Typed, PhoneTyped
<1>a. ASSUME sock[s].pc # "free" PROVE w \in Workers /\ w # None
  BY <1>a, Used
\* The socket is its worker's only one, so the meet is bound there by it or not at all.
<1>b. ASSUME w # None PROVE \A t \in Sockets : sock[t].w = w => t = s
  BY <1>b DEF CoreInv, SocketsInv
<1>c. ASSUME w \in Workers, w # None PROVE held[w].sock \in {None, s}
  <2>1. ASSUME held[w].sock # None PROVE held[w].sock = s
    <3>1. held[w].sock \in Sockets /\ sock[held[w].sock].w = w
      BY <1>0, <1>c, <2>1 DEF CoreInv, HeldInv, Typed, HeldTyped
    <3> QED BY <1>b, <1>c, <3>1
  <2> QED BY <2>1
<1>1. CASE TakeRegister(s)
  <2>1. /\ sock[s].pc = "recv" /\ sock[s].q # <<>> /\ sock' = Took(s, "control")
        /\ UNCHANGED <<phone, held>>
    BY <1>1 DEF TakeRegister
  <2>2. Alone(s) /\ sock'[s].pc = "control" /\ UNCHANGED sock[s].w BY <1>0, <2>1, TookView
  <2> QED BY <2>1, <2>2, PhoneAlone
<1>2. CASE RegisterControl(s) \/ RegisterOnTicket(s)
  <2>1. sock[s].pc = "control" /\ UNCHANGED <<phone, held>>
    BY <1>2 DEF RegisterControl, RegisterOnTicket
  <2>2. Alone(s) /\ UNCHANGED sock[s].w BY <1>0, <1>2, AnsweredView
  <2> QED BY <2>1, <2>2, PhoneAlone
<1>3. CASE RegisterRefused(s)
  <2>1. sock[s].pc = "control" /\ UNCHANGED <<phone, held>> BY <1>3 DEF RegisterRefused
  <2>2. Alone(s) /\ UNCHANGED sock[s].w BY <1>0, <1>3, RefusedView
  <2> QED BY <2>1, <2>2, PhoneAlone
<1>4. CASE RefuseTicket(s)
  <2>1. sock[s].pc = "recv" /\ UNCHANGED <<phone, held>> /\ sock' = Closed(s, <<>>)
    BY <1>4 DEF RefuseTicket
  <2>2. Alone(s) /\ UNCHANGED sock[s].w BY <1>0, <2>1, ClosedView
  <2> QED BY <2>1, <2>2, PhoneAlone
<1>5. CASE Swap(s)
  <2>1. /\ sock[s].pc = "swap" /\ held' = [held EXCEPT ![w].sock = s]
        /\ sock' = Step(s, "save")
        /\ \/ UNCHANGED phone
           \/ /\ phone.at = w /\ Holds(w) /\ phone.got = held[w].sock
              /\ phone' = [phone EXCEPT !.got = s]
    BY <1>5 DEF Swap
  <2>2. /\ Alone(s) /\ sock'[s].pc = "save" /\ UNCHANGED sock[s].w
    BY <1>0, <2>1, StepView
  <2>3. w \in Workers /\ w # None BY <1>a, <2>1
  <2>4. /\ held'[w].sock = s /\ held'[w].board = held[w].board
        /\ \A v \in Workers : v # w => held'[v] = held[v]
    BY <1>0, <2>1, <2>3 DEF Typed, HeldTyped
  <2>5. UNCHANGED phone
    <3>1. ASSUME Holds(w), phone.got = held[w].sock, phone' = [phone EXCEPT !.got = s]
          PROVE  phone' = phone
      <4>1. phone.got = s BY <1>c, <2>3, <3>1 DEF Holds
      <4>2. phone = [k \in PhoneFields |-> phone[k]] BY <1>0 DEF Typed, PhoneTyped
      <4> QED BY <3>1, <4>1, <4>2
    <3> QED BY <2>1, <3>1
  <2>6. CASE phone.at = w
    <3>1. held[w].board > 0 => held[w].sock = s
      <4>1. held[w].sock = None => held[w].board = 0 BY <2>3 DEF CoreInv, HeldInv
      <4> QED BY <1>c, <2>3, <4>1
    <3> QED BY <1>b, <2>2, <2>3, <2>4, <2>5, <2>6, <3>1, PhoneStays DEF Alone
  <2>7. CASE phone.at # w BY <1>0, <2>2, <2>4, <2>5, <2>7, PhoneElsewhere
  <2> QED BY <2>6, <2>7
<1>6. CASE SaveLive(s) \/ StoreOffline(s) \/ Retire(s)
  <2>1. /\ \E pc \in {"emit", "retire", "dark"} : sock' = Step(s, pc)
        /\ UNCHANGED <<phone, held>>
    BY <1>6 DEF SaveLive, StoreOffline, Retire
  <2>2. Alone(s) /\ sock'[s].pc \in {"emit", "retire", "dark"} /\ UNCHANGED sock[s].w
    BY <1>0, <2>1, StepView
  <2> QED BY <2>1, <2>2, PhoneAlone
<1>7. CASE EmitLive(s)
  <2>1. /\ sock[s].pc = "emit" /\ sock' = Step(s, "recv") /\ UNCHANGED held
        /\ phone' = IF InChannel(w) THEN [phone EXCEPT !.live = TRUE] ELSE phone
    BY <1>7 DEF EmitLive
  <2>2. /\ Alone(s) /\ sock'[s].pc = "recv" /\ UNCHANGED sock[s].w
    BY <1>0, <2>1, StepView
  <2>3. w \in Workers /\ w # None BY <1>a, <2>1
  <2>4. Holds(w) BY <2>1, <2>3, Names DEF CoreInv, HeldInv, AtStep, Bound, Holds
  <2>5. CASE phone.at # w BY <2>1, <2>2, <2>5, PhoneElsewhere DEF InChannel
  <2>6. CASE phone.at = w /\ phone.pc # "in"
    <3>1. UNCHANGED phone BY <2>1, <2>6 DEF InChannel
    <3> QED BY <2>1, <2>6, <3>1 DEF PhoneInv
  <2>7. CASE phone.at = w /\ phone.pc = "in"
    <3>1. /\ phone'.live = TRUE
          /\ UNCHANGED <<phone.at, phone.pc, phone.got, phone.board, phone.saw>>
      BY <1>0, <2>1, <2>7 DEF InChannel, Typed, PhoneTyped, PhoneFields
    <3>2. held'[w].sock # None BY <2>1, <2>4 DEF Holds
    <3>3. \A t \in Sockets : sock'[t].w = sock[t].w BY <2>2 DEF Alone
    <3>4. phone'.got = held'[w].sock /\ held'[w].board > 0 => phone'.board = held'[w].board
      BY <2>1, <2>7, <3>1 DEF PhoneInv
    <3>5. phone'.live = (held'[w].sock # None) BY <3>1, <3>2
    <3>6. ~ \A t \in Sockets : sock'[t].w # w BY <3>3
    <3>7. phone'.pc = "in" /\ phone'.at = w BY <2>7, <3>1
    <3> QED BY <3>4, <3>5, <3>6, <3>7 DEF PhoneInv, Holds
  <2> QED BY <2>5, <2>6, <2>7
<1>8. CASE Forward(s)
  <2> DEFINE n == Head(sock[s].q).n
             known == s \in sids /\ Holds(w)
  <2>1. /\ sock[s].pc = "recv" /\ sock[s].q # <<>> /\ sock' = Took(s, "recv")
        /\ held' = IF known THEN [held EXCEPT ![w].board = n] ELSE held
        /\ phone' = IF ~known THEN phone
                    ELSE IF InChannel(w) THEN [phone EXCEPT !.board = n]
                    ELSE IF phone.at = w /\ phone.got = held[w].sock
                    THEN [phone EXCEPT !.saw = n] ELSE phone
    BY <1>8 DEF Forward
  <2> HIDE DEF n, known
  <2>2. Alone(s) /\ sock'[s].pc = "recv" /\ UNCHANGED sock[s].w BY <1>0, <2>1, TookView
  <2>3. w \in Workers /\ w # None BY <1>a, <2>1
  <2>4. CASE ~known BY <2>1, <2>2, <2>4, PhoneAlone
  <2>5. CASE known
    <3>1. /\ held'[w].board = n /\ held'[w].sock = held[w].sock
          /\ \A v \in Workers : v # w => held'[v] = held[v]
      BY <1>0, <2>1, <2>3, <2>5 DEF Typed, HeldTyped
    <3>2. CASE phone.at # w BY <1>0, <2>1, <2>2, <2>5, <3>1, <3>2, PhoneElsewhere DEF InChannel
    <3>3. CASE phone.at = w
      <4>1. /\ UNCHANGED <<phone.at, phone.pc, phone.got, phone.live>>
            /\ phone.pc = "in" => phone'.board = n
            /\ phone.pc # "in" /\ phone.got = held[w].sock => phone'.saw = n
        BY <1>0, <2>1, <2>5, <3>3 DEF InChannel, Typed, PhoneTyped, PhoneFields
      <4>2. \A t \in Sockets : UNCHANGED <<sock[t].w, sock[t].pc>> BY <2>1, <2>2 DEF Alone
      <4>3. phone.pc = "in" =>
                /\ (\A t \in Sockets : sock'[t].w # w) => phone'.live = FALSE
                /\ \A t \in Sockets :
                    sock'[t].w = w /\ sock'[t].pc \in {"recv", "control", "swap"} =>
                        phone'.live = (held'[w].sock # None)
        BY <3>1, <3>3, <4>1, <4>2 DEF PhoneInv, AtStep, Holds
      <4>4. phone.pc = "asked" /\ phone.got = held[w].sock => phone'.saw = n BY <4>1
      <4> QED BY <3>1, <3>3, <4>1, <4>3, <4>4 DEF PhoneInv, AtStep, Holds
    <3> QED BY <3>2, <3>3
  <2> QED BY <2>4, <2>5
<1>9. CASE Disconnect(s)
  <2>1. sock[s].pc = "recv" /\ UNCHANGED phone BY <1>9 DEF Disconnect
  <2>2. w \in Workers /\ w # None BY <1>a, <2>1
  <2>3. CASE s \in sids /\ held[w].sock = s
    <3>1. held' = [held EXCEPT ![w] = Nobody] /\ sock' = Step(s, "offline")
      BY <1>9, <2>3 DEF Disconnect
    <3>2. Alone(s) /\ sock'[s].pc = "offline" /\ UNCHANGED sock[s].w BY <1>0, <3>1, StepView
    <3>3. held'[w].board = 0 /\ \A v \in Workers : v # w => held'[v] = held[v]
      BY <1>0, <2>2, <3>1 DEF Typed, HeldTyped, Nobody
    <3>4. CASE phone.at # w BY <1>0, <2>1, <3>2, <3>3, <3>4, PhoneElsewhere
    <3>5. CASE phone.at = w
      BY <1>b, <2>1, <2>2, <3>2, <3>3, <3>5, PhoneStays DEF Alone
    <3> QED BY <3>4, <3>5
  <2>4. CASE ~(s \in sids /\ held[w].sock = s)
    <3>1. UNCHANGED held /\ sock' = [sock EXCEPT ![s] = Free] BY <1>9, <2>4 DEF Disconnect
    <3>2. Alone(s) /\ sock'[s] = Free BY <1>0, <3>1, FreedView
    <3>3. ~Holds(w)
      BY <1>c, <2>2, <2>4, Names DEF CoreInv, HeldInv, Holds
    <3>4. CASE phone.at # w BY <1>0, <2>1, <3>1, <3>2, <3>4, PhoneElsewhere DEF Free
    <3>5. CASE phone.at = w
      <4>1. phone.pc = "in" => phone.live = FALSE
        BY <2>1, <3>3, <3>5 DEF PhoneInv, AtStep
      <4>2. \A t \in Sockets : sock'[t].w # w BY <1>b, <2>2, <3>2 DEF Alone, Free
      <4> QED BY <2>1, <3>1, <3>5, <4>1, <4>2 DEF PhoneInv
    <3> QED BY <3>4, <3>5
  <2> QED BY <2>3, <2>4
<1>10. CASE EmitDark(s)
  <2>1. /\ sock[s].pc = "dark" /\ UNCHANGED held /\ sock' = [sock EXCEPT ![s] = Free]
        /\ phone' = IF InChannel(w) THEN [phone EXCEPT !.live = FALSE] ELSE phone
    BY <1>10 DEF EmitDark
  <2>2. Alone(s) /\ sock'[s] = Free BY <1>0, <2>1, FreedView
  <2>3. w \in Workers /\ w # None BY <1>a, <2>1
  <2>4. CASE phone.at # w BY <1>0, <2>1, <2>2, <2>4, PhoneElsewhere DEF InChannel, Free
  <2>5. CASE phone.at = w
    <3>1. /\ phone.pc = "in" => phone'.live = FALSE
          /\ UNCHANGED <<phone.at, phone.pc, phone.got, phone.board, phone.saw>>
      BY <1>0, <2>1, <2>5 DEF InChannel, Typed, PhoneTyped, PhoneFields
    <3>2. \A t \in Sockets : sock'[t].w # w BY <1>b, <2>2, <2>3 DEF Alone, Free
    <3> QED BY <2>1, <2>5, <3>1, <3>2 DEF PhoneInv
  <2> QED BY <2>4, <2>5
<1> QED BY <1>1, <1>2, <1>3, <1>4, <1>5, <1>6, <1>7, <1>8, <1>9, <1>10 DEF Handler

\* A socket that is nobody's.
FreeInv == \A s \in Sockets : sock[s].pc = "free" => sock[s].w = None

LEMMA FreeKept == ASSUME CoreInv, FreeInv, [Next]_vars PROVE FreeInv'
<1>0. Typed BY DEF CoreInv
<1>1. CASE UNCHANGED sock BY <1>1 DEF FreeInv
<1>2. ASSUME NEW s \in Sockets, Alone(s), sock'[s].pc = "free" => sock'[s].w = None
      PROVE  FreeInv'
  BY <1>2 DEF Alone, FreeInv
<1>3. ASSUME NEW s \in Sockets, NEW pc, sock' = Step(s, pc), pc # "free" PROVE FreeInv'
  BY <1>0, <1>2, <1>3, StepView
<1>4. ASSUME NEW s \in Sockets, sock' = [sock EXCEPT ![s] = Free] PROVE FreeInv'
  <2>1. Alone(s) /\ sock'[s] = Free BY <1>0, <1>4, FreedView
  <2>2. Free.w = None BY DEF Free
  <2> QED BY <1>2, <2>1, <2>2
<1>5. ASSUME NEW w \in Workers, Ask(w) \/ Move(w) \/ BeatSend(w) \/ BeatAnswer(w) \/ BeatFails(w)
      PROVE  FreeInv'
  BY <1>1, <1>5 DEF Ask, Move, BeatSend, BeatAnswer, BeatFails
<1>6. ASSUME NEW w \in Workers, BeatTold(w) PROVE FreeInv'
  <2>1. CASE ~Holds(w) BY <1>1, <1>6, <2>1 DEF BeatTold
  <2>2. CASE Holds(w)
    <3>1. PICK s \in Sockets : Alone(s) /\ sock[s].pc # "free" /\ UNCHANGED sock[s].pc
      BY <1>6, <2>2, ToldView
    <3> QED BY <1>2, <3>1
  <2> QED BY <2>1, <2>2
<1>7. ASSUME NEW w \in Workers, Restart(w) PROVE FreeInv'
  <2>1. sock' = [s \in Sockets |-> IF s \in {t \in Sockets : sock[t].w = w} THEN Free ELSE sock[s]]
    BY <1>7 DEF Restart
  <2> QED BY <2>1 DEF FreeInv, Free
<1>8. ASSUME NEW s \in Sockets, Connect(s) PROVE FreeInv'
  <2>1. \A t \in Sockets : t # s => sock'[t] = sock[t] BY <1>0, <1>8 DEF Connect, Typed, SockTyped
  <2>2. sock'[s].pc = "recv" BY <1>0, <1>8 DEF Connect, Typed, SockTyped
  <2> QED BY <1>2, <2>1, <2>2 DEF Alone
<1>9. ASSUME NEW s \in Sockets, Handler(s) \/ RefuseTicket(s) PROVE FreeInv'
  <2> USE DEF At
  <2>1. CASE TakeRegister(s) \/ Forward(s)
    BY <1>0, <1>2, <2>1, TookView DEF TakeRegister, Forward
  <2>2. CASE RegisterControl(s) \/ RegisterOnTicket(s)
    BY <1>0, <1>2, <2>2, AnsweredView
  <2>3. CASE RegisterRefused(s) BY <1>0, <1>2, <2>3, RefusedView
  <2>4. CASE RefuseTicket(s) BY <1>0, <1>2, <2>4, ClosedView DEF RefuseTicket
  <2>5. CASE Swap(s) \/ SaveLive(s) \/ EmitLive(s) \/ StoreOffline(s) \/ Retire(s)
    BY <1>3, <2>5 DEF Swap, SaveLive, EmitLive, StoreOffline, Retire
  <2>6. CASE Disconnect(s) BY <1>3, <1>4, <2>6 DEF Disconnect
  <2>7. CASE EmitDark(s) BY <1>4, <2>7 DEF EmitDark
  <2> QED BY <1>9, <2>1, <2>2, <2>3, <2>4, <2>5, <2>6, <2>7 DEF Handler
<1>10. CASE ShowFrame \/ Reregister \/ Drop BY <1>10, PiView DEF FreeInv
<1>11. CASE Join \/ Joined \/ Leave \/ MoveAges \/ RetireSilent \/ Sweep \/ Revoke \/ UNCHANGED vars
  BY <1>1, <1>11 DEF Join, Joined, Leave, MoveAges, RetireSilent, Sweep, Revoke, vars
<1> QED BY <1>5, <1>6, <1>7, <1>8, <1>9, <1>10, <1>11 DEF Next, Beat

LEMMA PhoneConnect ==
    ASSUME CoreInv, FreeInv, PhoneInv, ~Overtaking, NEW s \in Sockets, Connect(s)
    PROVE  PhoneInv'
<1> DEFINE r == [w |-> pi.ticket, pc |-> "recv", open |-> TRUE, by |-> "none",
                 q |-> <<Register>> \o IF frame = 0 THEN <<>>
                                       ELSE <<[kind |-> "frame", n |-> frame]>>]
<1>1. /\ sock[s].pc = "free" /\ \A t \in Sockets : sock[t].w # pi.ticket
      /\ sock' = [sock EXCEPT ![s] = r] /\ UNCHANGED <<held, phone>>
  BY DEF Connect
<1>2. Alone(s) /\ sock'[s] = r BY <1>1 DEF CoreInv, Typed, SockTyped, Alone
<1> HIDE DEF r
<1>3. sock'[s].w = pi.ticket BY <1>2 DEF r
<1>4. phone.at \in Workers BY DEF CoreInv, Typed, PhoneTyped
<1>5. sock[s].w # phone.at BY <1>1, <1>4, Names DEF FreeInv
<1>6. CASE pi.ticket # phone.at BY <1>1, <1>2, <1>3, <1>5, <1>6, PhoneElsewhere
<1>7. CASE pi.ticket = phone.at
  <2>1. phone.pc = "in" => phone.live = FALSE BY <1>1, <1>7 DEF PhoneInv
  <2>2. ~Holds(phone.at)
    BY <1>1, <1>4, <1>7 DEF CoreInv, HeldInv, Typed, HeldTyped, Holds
  <2> QED BY <1>1, <1>2, <1>3, <1>7, <2>1, <2>2 DEF PhoneInv, Holds
<1> QED BY <1>6, <1>7

LEMMA PhoneKept ==
    ASSUME CoreInv, FreeInv, PhoneInv, ~Overtaking, [Next]_vars
    PROVE  PhoneInv'
<1>0. Typed /\ phone.at \in Workers /\ phone.at # None
  BY Names DEF CoreInv, Typed, PhoneTyped
<1>1. CASE UNCHANGED <<sock, held, phone>> BY <1>1 DEF PhoneInv, AtStep, Holds
<1>2. ASSUME NEW w \in Workers, Ask(w) \/ Move(w) \/ BeatSend(w) \/ BeatAnswer(w) \/ BeatFails(w)
      PROVE  PhoneInv'
  BY <1>1, <1>2 DEF Ask, Move, BeatSend, BeatAnswer, BeatFails
<1>3. ASSUME NEW w \in Workers, BeatTold(w) PROVE PhoneInv'
  <2>1. CASE ~Holds(w) BY <1>1, <1>3, <2>1 DEF BeatTold
  <2>2. CASE Holds(w)
    <3>1. PICK s \in Sockets : Alone(s) /\ UNCHANGED <<sock[s].w, sock[s].pc>>
      BY <1>3, <2>2, ToldView
    <3>2. \/ UNCHANGED phone
          \/ phone' = [phone EXCEPT !.at = beat[w].to, !.pc = "away"]
      BY <1>3, <2>2 DEF BeatTold
    <3>3. UNCHANGED held BY <1>3 DEF BeatTold
    <3>4. CASE UNCHANGED phone BY <3>1, <3>3, <3>4, PhoneAlone
    <3>5. CASE phone' = [phone EXCEPT !.at = beat[w].to, !.pc = "away"]
      <4>1. phone'.pc = "away" BY <1>0, <3>5 DEF Typed, PhoneTyped, PhoneFields
      <4> QED BY <4>1 DEF PhoneInv
    <3> QED BY <3>2, <3>4, <3>5
  <2> QED BY <2>1, <2>2
<1>4. ASSUME NEW w \in Workers, Restart(w) PROVE PhoneInv'
  <2>1. /\ held' = [held EXCEPT ![w] = Nobody]
        /\ sock' = [s \in Sockets |-> IF s \in {t \in Sockets : sock[t].w = w} THEN Free
                                      ELSE sock[s]]
        /\ phone' = IF phone.at = w
                    THEN [phone EXCEPT !.pc = "away", !.got = "none", !.saw = 0] ELSE phone
    BY <1>4 DEF Restart
  <2>2. CASE phone.at = w
    <3>1. phone'.pc = "away" BY <1>0, <2>1, <2>2 DEF Typed, PhoneTyped, PhoneFields
    <3> QED BY <3>1 DEF PhoneInv
  <2>3. CASE phone.at # w
    <3>1. \A t \in Sockets : sock[t].w = phone.at \/ sock'[t].w = phone.at => sock'[t] = sock[t]
      BY <1>0, <2>1, <2>3 DEF Free
    <3>2. held'[phone.at] = held[phone.at] BY <1>0, <2>1, <2>3 DEF Typed, HeldTyped
    <3>3. UNCHANGED phone BY <2>1, <2>3
    <3> QED BY <3>1, <3>2, <3>3, PhoneStays
  <2> QED BY <2>2, <2>3
<1>5. ASSUME NEW s \in Sockets, Connect(s) PROVE PhoneInv' BY <1>5, PhoneConnect
<1>6. ASSUME NEW s \in Sockets, Handler(s) \/ RefuseTicket(s) PROVE PhoneInv'
  BY <1>6, PhoneHandler
<1>7. CASE ShowFrame \/ Reregister \/ Drop
  <2>1. UNCHANGED <<held, phone>> BY <1>7 DEF ShowFrame, Reregister, Drop
  <2>2. \A t \in Sockets : UNCHANGED <<sock[t].w, sock[t].pc>> BY <1>7, PiView
  <2> QED BY <2>1, <2>2, PhoneStays
<1>8. CASE Join
  <2>1. UNCHANGED <<held, sock>> BY <1>8 DEF Join
  <2>2. /\ phone'.pc = "asked" /\ phone'.at = phone.at
        /\ phone'.saw = held[phone.at].board
    BY <1>0, <1>8 DEF Join, Typed, PhoneTyped, PhoneFields
  <2> QED BY <2>1, <2>2 DEF PhoneInv
<1>9. CASE Joined
  <2>1. UNCHANGED <<held, sock>> /\ phone.pc = "asked" BY <1>9 DEF Joined
  <2>2. \/ phone'.pc = "away"
        \/ /\ phone'.pc = "in" /\ phone'.at = phone.at /\ phone'.got = phone.got
           /\ phone'.live = Holds(phone.at)
           /\ phone'.board = IF phone.saw > 0 THEN phone.saw ELSE phone.board
    BY <1>0, <1>9 DEF Joined, Typed, PhoneTyped, PhoneFields
  <2>3. CASE phone'.pc = "away" BY <2>3 DEF PhoneInv
  <2>4. CASE /\ phone'.pc = "in" /\ phone'.at = phone.at /\ phone'.got = phone.got
             /\ phone'.live = Holds(phone.at)
             /\ phone'.board = IF phone.saw > 0 THEN phone.saw ELSE phone.board
    <3>1. (\A t \in Sockets : sock[t].w # phone.at) => ~Holds(phone.at)
      BY <1>0 DEF CoreInv, HeldInv, Typed, HeldTyped, Holds
    <3>2. phone.got = held[phone.at].sock /\ held[phone.at].board > 0 =>
              phone.saw = held[phone.at].board
      BY <2>1 DEF PhoneInv
    <3>3. (\A t \in Sockets : sock'[t].w # phone'.at) => phone'.live = FALSE
      BY <2>1, <2>4, <3>1
    <3>4. phone'.live = (held'[phone'.at].sock # None) BY <2>1, <2>4 DEF Holds
    <3>5. phone'.got = held'[phone'.at].sock /\ held'[phone'.at].board > 0 =>
              phone'.board = held'[phone'.at].board
      BY <2>1, <2>4, <3>2
    <3> QED BY <2>4, <3>3, <3>4, <3>5 DEF PhoneInv, Holds
  <2> QED BY <2>2, <2>3, <2>4
<1>10. CASE Leave
  <2>1. phone'.pc = "away" BY <1>0, <1>10 DEF Leave, Typed, PhoneTyped, PhoneFields
  <2> QED BY <2>1 DEF PhoneInv
<1>11. CASE MoveAges \/ RetireSilent \/ Sweep \/ Revoke \/ UNCHANGED vars
  BY <1>1, <1>11 DEF MoveAges, RetireSilent, Sweep, Revoke, vars
<1> QED BY <1>2, <1>3, <1>4, <1>5, <1>6, <1>7, <1>8, <1>9, <1>10, <1>11 DEF Next, Beat

\* An attendee in a worker's channel is shown as live exactly what the worker holds, and
\* one whose lookup found this registration has its last frame (ws_scoreboard's join
\* against register, _forward and disconnect), for any number of workers, sockets,
\* frames and events, when no Pi is back before its old socket has been let go.
THEOREM AttendeesSeeTheHolder == ~Overtaking => (Spec => []AttendeeSeesHolder)
<1> SUFFICES ASSUME ~Overtaking PROVE Spec => []AttendeeSeesHolder OBVIOUS
<1>1. Init => CoreInv /\ FreeInv /\ PhoneInv
  <2>1. Init => PhoneInv /\ FreeInv BY DEF Init, PhoneInv, FreeInv, Free
  <2> QED BY <2>1, CoreFirst
<1>2. CoreInv /\ FreeInv /\ PhoneInv /\ [Next]_vars => (CoreInv /\ FreeInv /\ PhoneInv)'
  BY CoreKept, FreeKept, PhoneKept
<1>3. CoreInv /\ PhoneInv => AttendeeSeesHolder
  <2> SUFFICES ASSUME CoreInv, PhoneInv, NEW w \in Workers, InChannel(w), Quiet(w)
               PROVE  /\ phone.live = Holds(w)
                      /\ phone.got = held[w].sock /\ held[w].board > 0 =>
                             phone.board = held[w].board
    BY DEF AttendeeSeesHolder
  <2>1. CASE \E s \in Sockets : sock[s].w = w
    BY <2>1 DEF Quiet, InChannel, PhoneInv, AtStep
  <2>2. CASE \A s \in Sockets : sock[s].w # w
    <3>1. ~Holds(w) BY <2>2 DEF CoreInv, HeldInv, Typed, HeldTyped, Holds
    <3>2. phone.live = FALSE BY <2>2 DEF InChannel, PhoneInv
    <3>3. phone.live = Holds(w) BY <3>1, <3>2 DEF Holds
    <3>4. held[w].board = 0 BY <3>1 DEF CoreInv, HeldInv, Holds
    <3> QED BY <3>3, <3>4
  <2> QED BY <2>1, <2>2
<1> QED BY <1>1, <1>2, <1>3, PTL DEF Spec

-----------------------------------------------------------------------------
(* CloudMeet: the beats on their way.                                      *)

LEMMA BeatStays ==
    ASSUME BeatInv,
           \A w \in Workers : beat'[w].pc = "sent" =>
               /\ beat'[w] = beat[w]
               /\ \A t \in Sockets :
                   sock'[t].w = w /\ sock'[t].pc \in {"control", "swap"} =>
                       sock[t].w = w /\ sock[t].pc \in {"control", "swap"}
               /\ held'[w].sock # None => held[w].sock # None
    PROVE  BeatInv'
BY DEF BeatInv, AtStep, Holds

\* A step of one socket, of a worker with no beat on its way unless the step asks
\* nothing of the control plane.
LEMMA BeatAlone ==
    ASSUME BeatInv, UNCHANGED <<beat, held>>, NEW s \in Sockets, Alone(s),
           sock'[s].pc \in {"control", "swap"} =>
               UNCHANGED sock[s].w /\ beat[sock[s].w].pc # "sent"
    PROVE  BeatInv'
BY BeatStays DEF Alone

LEMMA BeatHandler ==
    ASSUME CoreInv, BeatInv, ~BeatRaces, NEW s \in Sockets, Handler(s) \/ RefuseTicket(s)
    PROVE  BeatInv'
<1> USE DEF At
<1> DEFINE w == sock[s].w
<1>0. Typed BY DEF CoreInv
<1>a. ASSUME sock[s].pc # "free" PROVE w \in Workers /\ w # None
  BY <1>a, Used
<1>b. ASSUME sock[s].pc \in {"control", "swap"} PROVE beat[w].pc # "sent"
  BY <1>a, <1>b DEF BeatInv, AtStep
<1>1. CASE TakeRegister(s)
  <2>1. /\ sock[s].q # <<>> /\ sock' = Took(s, "control") /\ UNCHANGED <<beat, held>>
        /\ beat[w].pc # "sent"
    BY <1>1 DEF TakeRegister
  <2>2. Alone(s) /\ UNCHANGED sock[s].w BY <1>0, <2>1, TookView
  <2> QED BY <2>1, <2>2, BeatAlone
<1>2. CASE RegisterControl(s) \/ RegisterOnTicket(s)
  <2>1. sock[s].pc = "control" /\ UNCHANGED <<beat, held>>
    BY <1>2 DEF RegisterControl, RegisterOnTicket
  <2>2. Alone(s) /\ UNCHANGED sock[s].w BY <1>0, <1>2, AnsweredView
  <2> QED BY <1>b, <2>1, <2>2, BeatAlone
<1>3. CASE RegisterRefused(s)
  <2>1. sock[s].pc = "control" /\ UNCHANGED <<beat, held>> BY <1>3 DEF RegisterRefused
  <2>2. Alone(s) /\ UNCHANGED sock[s].w BY <1>0, <1>3, RefusedView
  <2> QED BY <1>b, <2>1, <2>2, BeatAlone
<1>4. CASE RefuseTicket(s)
  <2>1. sock[s].pc = "recv" /\ UNCHANGED <<beat, held>> /\ sock' = Closed(s, <<>>)
    BY <1>4 DEF RefuseTicket
  <2>2. Alone(s) /\ UNCHANGED sock[s].pc BY <1>0, <2>1, ClosedView
  <2> QED BY <2>1, <2>2, BeatAlone
<1>5. CASE Swap(s)
  <2>1. /\ sock[s].pc = "swap" /\ held' = [held EXCEPT ![w].sock = s]
        /\ sock' = Step(s, "save") /\ UNCHANGED beat
    BY <1>5 DEF Swap
  <2>2. Alone(s) /\ sock'[s].pc = "save" BY <1>0, <2>1, StepView
  <2>3. beat[w].pc # "sent" BY <1>b, <2>1
  <2>4. \A v \in Workers : v # w => held'[v] = held[v]
    BY <1>0, <2>1 DEF Typed, HeldTyped
  <2> QED BY <2>1, <2>2, <2>3, <2>4, BeatStays DEF Alone
<1>6. CASE SaveLive(s) \/ EmitLive(s) \/ StoreOffline(s) \/ Retire(s)
  <2>1. /\ \E pc \in {"emit", "recv", "retire", "dark"} : sock' = Step(s, pc)
        /\ UNCHANGED <<beat, held>>
    BY <1>6 DEF SaveLive, EmitLive, StoreOffline, Retire
  <2>2. Alone(s) /\ sock'[s].pc \in {"emit", "recv", "retire", "dark"}
    BY <1>0, <2>1, StepView
  <2> QED BY <2>1, <2>2, BeatAlone
<1>7. CASE Forward(s)
  <2>1. /\ sock[s].q # <<>> /\ sock' = Took(s, "recv") /\ UNCHANGED beat
        /\ \/ held' = held
           \/ held' = [held EXCEPT ![w].board = Head(sock[s].q).n]
    BY <1>7 DEF Forward
  <2>2. Alone(s) /\ sock'[s].pc = "recv" BY <1>0, <2>1, TookView
  <2>3. \A v \in Workers : held'[v].sock = held[v].sock
    BY <1>0, <2>1 DEF Typed, HeldTyped
  <2> QED BY <2>1, <2>2, <2>3, BeatStays DEF Alone
<1>8. CASE Disconnect(s)
  <2>1. /\ UNCHANGED beat
        /\ \/ sock' = Step(s, "offline") /\ held' = [held EXCEPT ![w] = Nobody]
           \/ sock' = [sock EXCEPT ![s] = Free] /\ held' = held
    BY <1>8 DEF Disconnect
  <2>2. Alone(s) /\ sock'[s].pc \in {"offline", "free"}
    BY <1>0, <2>1, StepView, FreedView DEF Free
  <2>3. \A v \in Workers : held'[v].sock # None => held[v].sock # None
    BY <1>0, <2>1 DEF Typed, HeldTyped, Nobody
  <2> QED BY <2>1, <2>2, <2>3, BeatStays DEF Alone
<1>9. CASE EmitDark(s)
  <2>1. UNCHANGED <<beat, held>> /\ sock' = [sock EXCEPT ![s] = Free] BY <1>9 DEF EmitDark
  <2>2. Alone(s) /\ sock'[s] = Free BY <1>0, <2>1, FreedView
  <2>3. Free.pc = "free" BY DEF Free
  <2> QED BY <2>1, <2>2, <2>3, BeatAlone
<1> QED BY <1>1, <1>2, <1>3, <1>4, <1>5, <1>6, <1>7, <1>8, <1>9 DEF Handler

LEMMA BeatKept == ASSUME CoreInv, BeatInv, ~BeatRaces, [Next]_vars PROVE BeatInv'
<1>0. Typed BY DEF CoreInv
<1>1. CASE UNCHANGED <<sock, held, beat>> BY <1>1 DEF BeatInv, AtStep, Holds
<1>2. ASSUME NEW w \in Workers, BeatSend(w) PROVE BeatInv'
  <2> DEFINE sent == [Idle EXCEPT !.pc = "sent", !.named = Holds(w)]
  <2>1. /\ \A t \in Sockets : sock[t].w = w => sock[t].pc \notin {"control", "swap"}
        /\ beat' = [beat EXCEPT ![w] = sent] /\ UNCHANGED <<sock, held>>
    BY <1>2 DEF BeatSend
  <2>2. sent.named = Holds(w) BY DEF Idle
  <2> HIDE DEF sent
  <2>3. beat'[w] = sent /\ \A v \in Workers : v # w => beat'[v] = beat[v]
    BY <1>0, <2>1 DEF Typed, BeatTyped
  <2> QED BY <2>1, <2>2, <2>3 DEF BeatInv, AtStep, Holds
<1>3. ASSUME NEW w \in Workers, BeatAnswer(w) \/ BeatFails(w) PROVE BeatInv'
  <2>1. UNCHANGED <<sock, held>> BY <1>3 DEF BeatAnswer, BeatFails
  <2>2. beat'[w].pc # "sent" /\ \A v \in Workers : v # w => beat'[v] = beat[v]
    BY <1>0, <1>3 DEF BeatAnswer, BeatFails, Typed, BeatTyped, Idle
  <2> QED BY <2>1, <2>2, BeatStays
<1>4. ASSUME NEW w \in Workers, BeatTold(w) PROVE BeatInv'
  <2>1. beat'[w].pc # "sent" /\ \A v \in Workers : v # w => beat'[v] = beat[v]
    BY <1>0, <1>4 DEF BeatTold, Typed, BeatTyped, Idle
  <2>2. UNCHANGED held BY <1>4 DEF BeatTold
  <2>3. \A t \in Sockets : UNCHANGED <<sock[t].w, sock[t].pc>>
    <3>1. CASE ~Holds(w) BY <1>4, <3>1 DEF BeatTold
    <3>2. CASE Holds(w) BY <1>4, <3>2, ToldView DEF Alone
    <3> QED BY <3>1, <3>2
  <2> QED BY <2>1, <2>2, <2>3, BeatStays
<1>5. ASSUME NEW w \in Workers, Restart(w) PROVE BeatInv'
  <2>1. /\ held' = [held EXCEPT ![w] = Nobody] /\ beat' = [beat EXCEPT ![w] = Idle]
        /\ sock' = [s \in Sockets |-> IF s \in {t \in Sockets : sock[t].w = w} THEN Free
                                      ELSE sock[s]]
    BY <1>5 DEF Restart
  <2>2. beat'[w].pc # "sent" /\ \A v \in Workers : v # w => beat'[v] = beat[v]
    BY <1>0, <2>1 DEF Typed, BeatTyped, Idle
  <2>3. \A v \in Workers : v # w => held'[v] = held[v]
    BY <1>0, <2>1 DEF Typed, HeldTyped
  <2>4. \A t \in Sockets : sock'[t].pc \in {"control", "swap"} => sock'[t] = sock[t]
    BY <2>1 DEF Free
  <2> QED BY <2>2, <2>3, <2>4, BeatStays
<1>6. ASSUME NEW s \in Sockets, Connect(s) PROVE BeatInv'
  <2>1. UNCHANGED <<beat, held>> BY <1>6 DEF Connect
  <2>2. \A t \in Sockets : t # s => sock'[t] = sock[t]
    BY <1>0, <1>6 DEF Connect, Typed, SockTyped
  <2>3. sock'[s].pc = "recv" BY <1>0, <1>6 DEF Connect, Typed, SockTyped
  <2> QED BY <2>1, <2>2, <2>3, BeatAlone DEF Alone
<1>7. ASSUME NEW s \in Sockets, Handler(s) \/ RefuseTicket(s) PROVE BeatInv'
  BY <1>7, BeatHandler
<1>8. CASE ShowFrame \/ Reregister \/ Drop
  <2>1. UNCHANGED <<beat, held>> BY <1>8 DEF ShowFrame, Reregister, Drop
  <2> QED BY <1>8, <2>1, PiView, BeatStays
<1>9. ASSUME NEW w \in Workers, Ask(w) \/ Move(w) PROVE BeatInv'
  BY <1>1, <1>9 DEF Ask, Move
<1>10. CASE Join \/ Joined \/ Leave \/ MoveAges \/ RetireSilent \/ Sweep \/ Revoke \/ UNCHANGED vars
  BY <1>1, <1>10 DEF Join, Joined, Leave, MoveAges, RetireSilent, Sweep, Revoke, vars
<1> QED BY <1>2, <1>3, <1>4, <1>5, <1>6, <1>7, <1>8, <1>9, <1>10 DEF Next, Beat

-----------------------------------------------------------------------------
(* CloudMeet: what the registry's row says of an answered registration.    *)

\* A worker that a registration the control plane answered is on has the meet in hand.
LEMMA RowInHand ==
    ASSUME CoreInv, RowInv, NEW s \in Sockets, sock[s].open, sock[s].by = "control"
    PROVE  /\ sock[s].w \in Workers /\ InHand(sock[s].w)
           /\ row.live /\ row.at # None
           /\ row.at = sock[s].w \/ row.from = sock[s].w
<1>1. sock[s].w \in Workers BY Used
<1>2. CASE sock[s].pc = "swap" BY <1>1, <1>2 DEF RowInv, InHand
<1>3. CASE Bound(s) BY <1>1, <1>3, Names DEF RowInv, InHand, Bound, Holds
<1> QED BY <1>2, <1>3 DEF RowInv

\* A step of one socket that leaves the row: what it was answered is what it had been.
LEMMA RowAlone ==
    ASSUME CoreInv, RowInv, UNCHANGED row, NEW s \in Sockets, Alone(s),
           sock'[s].w \in {sock[s].w, None},
           \A v \in Workers : v # sock[s].w => UNCHANGED held[v].sock,
           sock'[s].open /\ sock'[s].by = "control" =>
               /\ sock[s].open /\ sock[s].by = "control"
               /\ UNCHANGED sock[s].w /\ held'[sock[s].w].sock = s
    PROVE  RowInv'
<1> SUFFICES ASSUME NEW t \in Sockets, sock'[t].open, sock'[t].by = "control"
             PROVE  /\ row.live /\ row.at # None /\ (sock'[t].pc = "swap" \/ Bound(t)')
                    /\ row.at # sock'[t].w =>
                        /\ row.from = sock'[t].w /\ row.age = "grace"
                        /\ \A u \in Sockets : sock'[u].w # row.at
  BY DEF RowInv
<1>1. sock[t].open /\ sock[t].by = "control" /\ sock'[t].w = sock[t].w BY DEF Alone
<1>2. sock[t].w \in Workers /\ sock[t].w # None BY <1>1, Used
<1>3. row.at # None /\ \A u \in Sockets : sock'[u].w = row.at => sock[u].w = row.at
  BY <1>1 DEF RowInv, Alone
<1>4. sock'[t].pc = "swap" \/ Bound(t)'
  <2>1. CASE t = s BY <1>1, <1>2, <2>1 DEF Bound
  <2>2. CASE t # s
    <3>1. sock'[t] = sock[t] BY <2>2 DEF Alone
    <3>2. sock[t].w # sock[s].w BY <1>2, <2>2 DEF CoreInv, SocketsInv
    <3> QED BY <1>1, <1>2, <3>1, <3>2 DEF RowInv, Bound
  <2> QED BY <2>1, <2>2
<1> QED BY <1>1, <1>3, <1>4 DEF RowInv

LEMMA RowHandler ==
    ASSUME CoreInv, RowInv, Typed', NEW s \in Sockets, Handler(s) \/ RefuseTicket(s)
    PROVE  RowInv'
<1> USE DEF At
<1> DEFINE w == sock[s].w
<1>0. Typed BY DEF CoreInv
<1>a. ASSUME sock[s].pc # "free" PROVE w \in Workers /\ w # None
  BY <1>a, Used
<1>b. ASSUME sock[s].open, sock[s].by = "control", sock[s].pc # "swap"
      PROVE  held[w].sock = s
  BY <1>b DEF RowInv, Bound
<1>1. CASE TakeRegister(s)
  <2>1. /\ sock[s].pc = "recv" /\ sock[s].q # <<>> /\ sock' = Took(s, "control")
        /\ UNCHANGED <<row, held>>
    BY <1>1 DEF TakeRegister
  <2>2. Alone(s) /\ UNCHANGED <<sock[s].w, sock[s].open, sock[s].by>>
    BY <1>0, <2>1, TookView
  <2> QED BY <1>b, <2>1, <2>2, RowAlone
<1>2. CASE RegisterControl(s)
  <2>1. sock[s].pc = "control" /\ row' = Registered(w) /\ UNCHANGED <<held, pi>>
    BY <1>2 DEF RegisterControl
  <2>2. Alone(s) /\ sock'[s].pc = "swap" /\ UNCHANGED sock[s].w
    BY <1>0, <1>2, AnsweredView
  <2>3. Registers(s) BY <2>1 DEF Registers
  <2>4. \A t \in Sockets : sock[t].open => t = s
    BY <2>3, Names DEF CoreInv, SocketsInv
  <2>5. \A t \in Sockets : sock'[t].open => t = s BY <2>2, <2>4 DEF Alone
  <2>6. row'.live /\ row'.at = w /\ w # None BY <1>a, <2>1 DEF Registered
  <2> QED BY <2>2, <2>5, <2>6 DEF RowInv
<1>3. CASE RegisterOnTicket(s)
  <2>1. sock[s].pc = "control" /\ UNCHANGED <<row, held>> BY <1>3 DEF RegisterOnTicket
  <2>2. Alone(s) /\ UNCHANGED <<sock[s].w, sock[s].open>>
    BY <1>0, <1>3, AnsweredView
  <2>3. sock'[s].by = "ticket"
    BY <1>0, <1>3 DEF RegisterOnTicket, Typed, SockTyped, SockType, Step
  <2> QED BY <2>1, <2>2, <2>3, RowAlone
<1>4. CASE RegisterRefused(s)
  <2>1. UNCHANGED <<row, held>> BY <1>4 DEF RegisterRefused
  <2>2. Alone(s) /\ sock'[s].w = sock[s].w /\ ~sock'[s].open BY <1>0, <1>4, RefusedView
  <2> QED BY <2>1, <2>2, RowAlone
<1>5. CASE RefuseTicket(s)
  <2>1. UNCHANGED <<row, held>> /\ sock' = Closed(s, <<>>) BY <1>5 DEF RefuseTicket
  <2>2. Alone(s) /\ sock'[s].w = sock[s].w /\ ~sock'[s].open BY <1>0, <2>1, ClosedView
  <2> QED BY <2>1, <2>2, RowAlone
<1>6. CASE Swap(s)
  <2>1. /\ sock[s].pc = "swap" /\ held' = [held EXCEPT ![w].sock = s]
        /\ sock' = Step(s, "save") /\ UNCHANGED row
    BY <1>6 DEF Swap
  <2>2. Alone(s) /\ UNCHANGED <<sock[s].w, sock[s].open, sock[s].by>>
    BY <1>0, <2>1, StepView
  <2>3. held'[w].sock = s /\ \A v \in Workers : v # w => held'[v] = held[v]
    BY <1>0, <1>a, <2>1 DEF Typed, HeldTyped
  <2> QED BY <2>1, <2>2, <2>3, RowAlone
<1>7. CASE SaveLive(s) \/ EmitLive(s) \/ StoreOffline(s)
  <2>1. /\ \E pc : sock' = Step(s, pc)
        /\ sock[s].pc # "swap" /\ UNCHANGED <<row, held>>
    BY <1>7 DEF SaveLive, EmitLive, StoreOffline
  <2>2. Alone(s) /\ UNCHANGED <<sock[s].w, sock[s].open, sock[s].by>>
    BY <1>0, <2>1, StepView
  <2> QED BY <1>b, <2>1, <2>2, RowAlone
<1>8. CASE Forward(s)
  <2>1. /\ sock[s].pc = "recv" /\ sock[s].q # <<>> /\ sock' = Took(s, "recv")
        /\ \/ held' = held
           \/ held' = [held EXCEPT ![w].board = Head(sock[s].q).n]
        /\ UNCHANGED row
    BY <1>8 DEF Forward
  <2>2. Alone(s) /\ UNCHANGED <<sock[s].w, sock[s].open, sock[s].by>>
    BY <1>0, <2>1, TookView
  <2>3. \A v \in Workers : held'[v].sock = held[v].sock
    BY <1>0, <2>1 DEF Typed, HeldTyped
  <2>4. w \in Workers BY <1>a, <2>1
  <2> QED BY <1>b, <2>1, <2>2, <2>3, <2>4, RowAlone
<1>9. CASE Disconnect(s)
  <2>1. /\ ~sock[s].open /\ UNCHANGED row
        /\ \/ sock' = Step(s, "offline") /\ held' = [held EXCEPT ![w] = Nobody]
           \/ sock' = [sock EXCEPT ![s] = Free] /\ held' = held
    BY <1>9 DEF Disconnect
  <2>2. \A v \in Workers : v # w => held'[v] = held[v]
    BY <1>0, <2>1 DEF Typed, HeldTyped
  <2>3. CASE sock' = Step(s, "offline")
    <3>1. Alone(s) /\ UNCHANGED <<sock[s].w, sock[s].open>> BY <1>0, <2>3, StepView
    <3> QED BY <2>1, <2>2, <3>1, RowAlone
  <2>4. CASE sock' = [sock EXCEPT ![s] = Free]
    <3>1. Alone(s) /\ sock'[s] = Free BY <1>0, <2>4, FreedView
    <3>2. Free.w = None /\ ~Free.open BY DEF Free
    <3> QED BY <2>1, <2>2, <3>1, <3>2, RowAlone
  <2> QED BY <2>1, <2>3, <2>4
<1>10. CASE Retire(s)
  <2>1. /\ sock[s].pc = "retire" /\ sock' = Step(s, "dark") /\ UNCHANGED held
        /\ row.at = w \/ UNCHANGED row
    BY <1>10 DEF Retire
  <2>2. Alone(s) /\ UNCHANGED <<sock[s].w, sock[s].open, sock[s].by>>
    BY <1>0, <2>1, StepView
  <2>3. ~sock[s].open BY <2>1 DEF CoreInv, SocketsInv, AtStep
  <2>4. CASE row.at = w
    <3>1. ASSUME NEW t \in Sockets, sock[t].open, sock[t].by = "control" PROVE FALSE
      <4>1. sock[t].w # row.at => \A u \in Sockets : sock[u].w # row.at
        BY <3>1 DEF RowInv
      <4>2. sock[t].w = w /\ w # None BY <1>a, <2>1, <2>4, <4>1
      <4>3. t = s BY <4>2 DEF CoreInv, SocketsInv
      <4> QED BY <2>3, <3>1, <4>3
    <3>2. \A t \in Sockets : sock'[t].open => sock[t].open /\ sock'[t].by = sock[t].by
      BY <2>2 DEF Alone
    <3> QED BY <3>1, <3>2 DEF RowInv
  <2>5. CASE UNCHANGED row BY <2>1, <2>2, <2>3, <2>5, RowAlone
  <2> QED BY <2>1, <2>4, <2>5
<1>11. CASE EmitDark(s)
  <2>1. UNCHANGED <<row, held>> /\ sock' = [sock EXCEPT ![s] = Free] BY <1>11 DEF EmitDark
  <2>2. Alone(s) /\ sock'[s] = Free BY <1>0, <2>1, FreedView
  <2>3. Free.w = None /\ ~Free.open BY DEF Free
  <2> QED BY <2>1, <2>2, <2>3, RowAlone
<1> QED BY <1>1, <1>2, <1>3, <1>4, <1>5, <1>6, <1>7, <1>8, <1>9, <1>10, <1>11 DEF Handler

\* A step that leaves the sockets leaves an answered registration its row, when it
\* leaves it live where it is, or moves it from there.
LEMMA RowMoved ==
    ASSUME CoreInv, RowInv, UNCHANGED <<sock, held>>,
           \A s \in Sockets : sock[s].open /\ sock[s].by = "control" =>
               /\ row'.live /\ row'.at # None
               /\ row'.at # sock[s].w =>
                   /\ row'.from = sock[s].w /\ row'.age = "grace"
                   /\ \A t \in Sockets : sock[t].w # row'.at
    PROVE  RowInv'
BY DEF RowInv, Bound

LEMMA RowKept ==
    ASSUME CoreInv, BeatInv, RowInv, ~Overtaking, ~LongOutages, ~MovesAgain, [Next]_vars
    PROVE  RowInv'
<1>0. Typed BY DEF CoreInv
<1>1. CASE UNCHANGED <<sock, held, row>> BY <1>1 DEF RowInv, Bound
<1>2. ASSUME NEW w \in Workers, Move(w) PROVE RowInv'
  <2>1. /\ \A t \in Sockets : sock[t].w # w
        /\ \A v \in Workers : v = row.from => ~InHand(v)
        /\ row' = [row EXCEPT !.at = w, !.from = row.at, !.age = "grace"]
        /\ row.live /\ UNCHANGED <<sock, held>>
    BY <1>2 DEF Move
  <2>2. row'.live /\ row'.at = w /\ row'.from = row.at /\ row'.age = "grace"
    BY <1>0, <2>1 DEF Typed, RowTyped
  <2>3. \A s \in Sockets : sock[s].open /\ sock[s].by = "control" => sock[s].w = row.at
    BY <2>1, RowInHand
  <2> QED BY <2>1, <2>2, <2>3, Names, RowMoved
<1>3. ASSUME NEW w \in Workers, BeatAnswer(w) PROVE RowInv'
  <2>1. beat[w].pc = "sent" /\ row' = AfterBeat(w) /\ UNCHANGED <<sock, held>>
    BY <1>3 DEF BeatAnswer
  <2>2. CASE row.live /\ row.at = w /\ ~beat[w].named /\ row.age # "grace"
    <3>1. ASSUME NEW s \in Sockets, sock[s].open, sock[s].by = "control" PROVE FALSE
      <4>1. sock[s].w = w BY <2>2, <3>1 DEF RowInv
      <4>2. ~Holds(w) /\ sock[s].pc # "swap" BY <2>1, <2>2, <4>1 DEF BeatInv, AtStep
      <4> QED BY <3>1, <4>1, <4>2, Names DEF RowInv, Bound, Holds
    <3> QED BY <2>1, <3>1, RowMoved
  <2>3. CASE ~(row.live /\ row.at = w /\ ~beat[w].named /\ row.age # "grace")
    BY <1>1, <2>1, <2>3 DEF AfterBeat
  <2> QED BY <2>2, <2>3
<1>4. CASE MoveAges
  <2>1. /\ row.age \in {"grace", "notice"} /\ ~InHand(row.from)
        /\ row' = [row EXCEPT !.age = IF @ = "grace" THEN "notice" ELSE "old"]
        /\ UNCHANGED <<sock, held>>
    BY <1>4 DEF MoveAges
  <2>2. UNCHANGED <<row.live, row.at, row.from>> BY <1>0, <2>1 DEF Typed, RowTyped
  <2>3. \A s \in Sockets : sock[s].open /\ sock[s].by = "control" =>
            row.live /\ row.at # None /\ row.at = sock[s].w
    BY <2>1, RowInHand
  <2> QED BY <2>1, <2>2, <2>3, RowMoved
<1>5. CASE RetireSilent
  <2>1. /\ \A w \in Workers : w \in {row.at, row.from} => ~InHand(w)
        /\ UNCHANGED <<sock, held>>
    BY <1>5 DEF RetireSilent
  <2>2. \A s \in Sockets : ~(sock[s].open /\ sock[s].by = "control") BY <2>1, RowInHand
  <2> QED BY <2>1, <2>2, RowMoved
<1>6. CASE Sweep
  <2>1. \A s \in Sockets : ~(sock[s].open /\ sock[s].by = "control")
    BY <1>6, RowInHand DEF Sweep
  <2> QED BY <1>6, <2>1, RowMoved DEF Sweep
<1>7. ASSUME NEW w \in Workers, BeatTold(w) PROVE RowInv'
  <2>1. UNCHANGED <<row, held>> BY <1>7 DEF BeatTold
  <2>2. CASE ~Holds(w) BY <1>1, <1>7, <2>1, <2>2 DEF BeatTold
  <2>3. CASE Holds(w)
    <3>1. PICK s \in Sockets : Alone(s) /\ ~sock'[s].open /\ UNCHANGED sock[s].w
      BY <1>7, <2>3, ToldView
    <3> QED BY <2>1, <3>1, RowAlone
  <2> QED BY <2>2, <2>3
<1>8. ASSUME NEW w \in Workers, Restart(w) PROVE RowInv'
  <2>1. /\ held' = [held EXCEPT ![w] = Nobody] /\ UNCHANGED row
        /\ sock' = [s \in Sockets |-> IF s \in {t \in Sockets : sock[t].w = w} THEN Free
                                      ELSE sock[s]]
    BY <1>8 DEF Restart
  <2>2. \A v \in Workers : v # w => held'[v] = held[v] BY <1>0, <2>1 DEF Typed, HeldTyped
  <2>3. \A t \in Sockets : (sock'[t] = sock[t] /\ sock[t].w # w) \/ sock'[t] = Free
    BY <2>1
  <2>4. Free.w = None /\ ~Free.open BY DEF Free
  <2> SUFFICES ASSUME NEW t \in Sockets, sock'[t].open, sock'[t].by = "control"
               PROVE  /\ row.live /\ row.at # None /\ (sock'[t].pc = "swap" \/ Bound(t)')
                      /\ row.at # sock'[t].w =>
                          /\ row.from = sock'[t].w /\ row.age = "grace"
                          /\ \A u \in Sockets : sock'[u].w # row.at
    BY <2>1 DEF RowInv
  <2>5. sock'[t] = sock[t] /\ sock[t].w # w BY <2>3, <2>4
  <2>6. sock[t].w \in Workers BY <2>5, Used
  <2>7. row.at # None BY <2>5 DEF RowInv
  <2>8. \A u \in Sockets : sock'[u].w \in {sock[u].w, None} BY <2>3, <2>4
  <2> QED BY <2>2, <2>5, <2>6, <2>7, <2>8 DEF RowInv, Bound
<1>9. ASSUME NEW s \in Sockets, Connect(s) PROVE RowInv'
  <2>1. \A t \in Sockets : t # s => sock'[t] = sock[t]
    BY <1>9, <1>0 DEF Connect, Typed, SockTyped
  <2>2. sock'[s].by = "none" BY <1>9, <1>0 DEF Connect, Typed, SockTyped
  <2>3. \A t \in Sockets : ~sock[t].open
    <3>1. pi.sock = None BY <1>9 DEF Connect
    <3> QED BY <3>1, Names DEF CoreInv, SocketsInv
  <2> QED BY <2>1, <2>2, <2>3 DEF RowInv
<1>10. ASSUME NEW s \in Sockets, Handler(s) \/ RefuseTicket(s) PROVE RowInv'
  BY <1>10, RowHandler, TypedKept, <1>0
<1>11. CASE ShowFrame \/ Reregister \/ Drop
  <2>1. UNCHANGED <<row, held>> BY <1>11 DEF ShowFrame, Reregister, Drop
  <2> QED BY <1>11, <2>1, PiView DEF RowInv, Bound
<1>12. ASSUME NEW w \in Workers, Ask(w) \/ BeatSend(w) \/ BeatFails(w) PROVE RowInv'
  BY <1>1, <1>12 DEF Ask, BeatSend, BeatFails
<1>13. CASE Join \/ Joined \/ Leave \/ Revoke \/ UNCHANGED vars
  BY <1>1, <1>13 DEF Join, Joined, Leave, Revoke, vars
<1> QED BY <1>2, <1>3, <1>4, <1>5, <1>6, <1>7, <1>8, <1>9, <1>10, <1>11, <1>12, <1>13
        DEF Next, Beat

\* A registration the control plane answered keeps the meet's card live, on the worker
\* that holds it or moved from it, for as long as the worker holds it
\* (cloud_registry.register, retire, heartbeat, retire_silent), for any number of
\* workers, sockets and events, under the four assumptions on the deployment's timing.
THEOREM RowKeepsHolder ==
    ~Overtaking /\ ~BeatRaces /\ ~LongOutages /\ ~MovesAgain => (Spec => []RowNamesHolder)
<1> SUFFICES ASSUME ~Overtaking, ~BeatRaces, ~LongOutages, ~MovesAgain
             PROVE  Spec => []RowNamesHolder
  OBVIOUS
<1> DEFINE IInv == CoreInv /\ BeatInv /\ RowInv
<1>1. Init => IInv
  <2>1. Init => BeatInv /\ RowInv BY DEF Init, BeatInv, RowInv, Idle, Free
  <2> QED BY <2>1, CoreFirst
<1>2. IInv /\ [Next]_vars => IInv' BY CoreKept, BeatKept, RowKept
<1>3. IInv => RowNamesHolder
  <2> SUFFICES ASSUME IInv, NEW w \in Workers, Settled(w), sock[held[w].sock].by = "control"
               PROVE  row.live /\ w \in {row.at, row.from}
    BY DEF RowNamesHolder
  <2>1. held[w].sock \in Sockets BY DEF Settled, Holds, CoreInv, Typed, HeldTyped
  <2>2. sock[held[w].sock].w = w BY DEF Settled, Holds, CoreInv, HeldInv
  <2> QED BY <2>1, <2>2, RowInHand DEF Settled
<1> QED BY <1>1, <1>2, <1>3, PTL DEF Spec

-----------------------------------------------------------------------------
(* CloudMeet: what the node's store says of a meet one of its workers holds. *)

LEMMA StoreAlone ==
    ASSUME CoreInv, StoreInv, UNCHANGED <<row.at, store>>, NEW s \in Sockets, Alone(s),
           \A v \in Workers : v # sock[s].w => UNCHANGED held[v].sock,
           sock'[s].pc \in {"emit", "recv", "control"} /\ Bound(s)' =>
               /\ sock[s].pc \in {"emit", "recv", "control"} /\ Bound(s)
               /\ UNCHANGED sock[s].w
    PROVE  StoreInv'
<1> SUFFICES ASSUME NEW t \in Sockets, sock'[t].pc \in {"emit", "recv", "control"}, Bound(t)',
                    row.at = sock'[t].w
             PROVE  store[NodeOf[sock'[t].w]] = "live"
  BY DEF StoreInv, AtStep
<1>1. CASE t = s BY <1>1 DEF StoreInv, AtStep
<1>2. CASE t # s
  <2>1. sock'[t] = sock[t] BY <1>2 DEF Alone
  <2>2. sock[t].w # None BY <2>1 DEF Bound
  <2>3. sock[t].w # sock[s].w /\ sock[t].w \in Workers
    BY <1>2, <2>2 DEF CoreInv, SocketsInv, Typed, SockTyped, SockType
  <2>4. Bound(t) BY <2>1, <2>3 DEF Bound
  <2> QED BY <2>1, <2>4 DEF StoreInv, AtStep
<1> QED BY <1>1, <1>2

LEMMA StoreHandler ==
    ASSUME CoreInv, StoreInv, OneWorkerEach, NEW s \in Sockets, Handler(s) \/ RefuseTicket(s)
    PROVE  StoreInv'
<1> USE DEF At
<1> DEFINE w == sock[s].w
<1>0. Typed BY DEF CoreInv
<1>a. ASSUME sock[s].pc # "free" PROVE w \in Workers /\ w # None
  BY <1>a, Used
<1>b. \A t \in Sockets : sock[t].w = w /\ w # None => t = s BY DEF CoreInv, SocketsInv
<1>1. CASE TakeRegister(s)
  <2>1. /\ sock[s].pc = "recv" /\ sock[s].q # <<>> /\ sock' = Took(s, "control")
        /\ UNCHANGED <<row, store, held>>
    BY <1>1 DEF TakeRegister
  <2>2. Alone(s) /\ UNCHANGED sock[s].w BY <1>0, <2>1, TookView
  <2> QED BY <2>1, <2>2, StoreAlone DEF Bound
<1>2. CASE RegisterControl(s)
  <2>1. sock[s].pc = "control" /\ row' = Registered(w) /\ UNCHANGED <<store, held>>
    BY <1>2 DEF RegisterControl
  <2>2. Alone(s) /\ sock'[s].pc = "swap" /\ UNCHANGED sock[s].w BY <1>0, <1>2, AnsweredView
  <2>3. row'.at = w /\ w # None BY <1>a, <2>1 DEF Registered
  <2>4. \A t \in Sockets : sock'[t].w = row'.at => t = s BY <1>b, <2>2, <2>3 DEF Alone
  <2> QED BY <2>2, <2>4 DEF StoreInv, AtStep
<1>3. CASE RegisterOnTicket(s)
  <2>1. UNCHANGED <<row, store, held>> BY <1>3 DEF RegisterOnTicket
  <2>2. Alone(s) /\ sock'[s].pc = "swap" BY <1>0, <1>3, AnsweredView
  <2> QED BY <2>1, <2>2, StoreAlone
<1>4. CASE RegisterRefused(s)
  <2>1. sock[s].pc = "control" /\ UNCHANGED <<row, store, held>> BY <1>4 DEF RegisterRefused
  <2>2. Alone(s) /\ sock'[s].w = sock[s].w BY <1>0, <1>4, RefusedView
  <2> QED BY <2>1, <2>2, StoreAlone DEF Bound
<1>5. CASE RefuseTicket(s)
  <2>1. sock[s].pc = "recv" /\ UNCHANGED <<row, store, held>> /\ sock' = Closed(s, <<>>)
    BY <1>5 DEF RefuseTicket
  <2>2. Alone(s) /\ sock'[s].w = sock[s].w BY <1>0, <2>1, ClosedView
  <2> QED BY <2>1, <2>2, StoreAlone DEF Bound
<1>6. CASE Swap(s)
  <2>1. /\ sock[s].pc = "swap" /\ held' = [held EXCEPT ![w].sock = s]
        /\ sock' = Step(s, "save") /\ UNCHANGED <<row, store>>
    BY <1>6 DEF Swap
  <2>2. Alone(s) /\ sock'[s].pc = "save" BY <1>0, <2>1, StepView
  <2>3. \A v \in Workers : v # w => held'[v] = held[v] BY <1>0, <2>1 DEF Typed, HeldTyped
  <2> QED BY <2>1, <2>2, <2>3, StoreAlone
<1>7. CASE SaveLive(s)
  <2>1. /\ sock[s].pc = "save" /\ store' = [store EXCEPT ![NodeOf[w]] = "live"]
        /\ sock' = Step(s, "emit") /\ UNCHANGED <<row, held>>
    BY <1>7 DEF SaveLive
  <2>2. Alone(s) /\ sock'[s].pc = "emit" /\ UNCHANGED sock[s].w BY <1>0, <2>1, StepView
  <2>3. NodeOf[w] \in Nodes BY <1>a, <2>1, CloudMeetAssumption
  <2>4. store'[NodeOf[w]] = "live" BY <1>0, <2>1, <2>3 DEF Typed, StoreTyped
  <2>5. \A n \in Nodes : store[n] = "live" => store'[n] = "live"
    BY <1>0, <2>1, <2>4 DEF Typed, StoreTyped
  <2> SUFFICES ASSUME NEW t \in Sockets, sock'[t].pc \in {"emit", "recv", "control"},
                      Bound(t)', row.at = sock'[t].w
               PROVE  store'[NodeOf[sock'[t].w]] = "live"
    BY <2>1 DEF StoreInv, AtStep
  <2>6. CASE t = s BY <2>2, <2>4, <2>6
  <2>7. CASE t # s
    <3>1. sock'[t] = sock[t] BY <2>2, <2>7 DEF Alone
    <3>2. Bound(t) BY <2>1, <3>1 DEF Bound
    <3>3. store[NodeOf[sock[t].w]] = "live" BY <3>1, <3>2 DEF StoreInv, AtStep
    <3>4. sock[t].w \in Workers BY <1>0, <3>2 DEF Bound, Typed, SockTyped, SockType
    <3>5. NodeOf[sock[t].w] \in Nodes BY <3>4, CloudMeetAssumption
    <3> QED BY <2>5, <3>1, <3>3, <3>5
  <2> QED BY <2>6, <2>7
<1>8. CASE EmitLive(s)
  <2>1. /\ sock[s].pc = "emit" /\ sock' = Step(s, "recv") /\ UNCHANGED <<row, store, held>>
    BY <1>8 DEF EmitLive
  <2>2. Alone(s) /\ UNCHANGED sock[s].w BY <1>0, <2>1, StepView
  <2> QED BY <2>1, <2>2, StoreAlone DEF Bound
<1>9. CASE Forward(s)
  <2>1. /\ sock[s].pc = "recv" /\ sock[s].q # <<>> /\ sock' = Took(s, "recv")
        /\ \/ held' = held
           \/ held' = [held EXCEPT ![w].board = Head(sock[s].q).n]
        /\ UNCHANGED <<row, store>>
    BY <1>9 DEF Forward
  <2>2. Alone(s) /\ UNCHANGED sock[s].w BY <1>0, <2>1, TookView
  <2>3. \A v \in Workers : held'[v].sock = held[v].sock
    BY <1>0, <2>1 DEF Typed, HeldTyped
  <2>4. w \in Workers BY <1>a, <2>1
  <2> QED BY <2>1, <2>2, <2>3, <2>4, StoreAlone DEF Bound
<1>10. CASE Disconnect(s)
  <2>1. /\ UNCHANGED <<row, store>>
        /\ \/ sock' = Step(s, "offline") /\ held' = [held EXCEPT ![w] = Nobody]
           \/ sock' = [sock EXCEPT ![s] = Free] /\ held' = held
    BY <1>10 DEF Disconnect
  <2>2. \A v \in Workers : v # w => held'[v] = held[v] BY <1>0, <2>1 DEF Typed, HeldTyped
  <2>3. Alone(s) /\ sock'[s].pc \in {"offline", "free"}
    BY <1>0, <2>1, StepView, FreedView DEF Free
  <2> QED BY <2>1, <2>2, <2>3, StoreAlone
<1>11. CASE StoreOffline(s)
  <2>1. /\ sock[s].pc = "offline" /\ store' = [store EXCEPT ![NodeOf[w]] = "offline"]
        /\ sock' = Step(s, "retire") /\ UNCHANGED <<row, held>>
    BY <1>11 DEF StoreOffline
  <2>2. Alone(s) /\ sock'[s].pc = "retire" BY <1>0, <2>1, StepView
  <2>3. w \in Workers /\ w # None BY <1>a, <2>1
  <2> SUFFICES ASSUME NEW t \in Sockets, sock'[t].pc \in {"emit", "recv", "control"},
                      Bound(t)', row.at = sock'[t].w
               PROVE  store'[NodeOf[sock'[t].w]] = "live"
    BY <2>1 DEF StoreInv, AtStep
  <2>4. t # s BY <2>2
  <2>5. sock'[t] = sock[t] BY <2>2, <2>4 DEF Alone
  <2>6. Bound(t) BY <2>1, <2>5 DEF Bound
  <2>7. store[NodeOf[sock[t].w]] = "live" BY <2>5, <2>6 DEF StoreInv, AtStep
  <2>8. sock[t].w \in Workers BY <1>0, <2>6 DEF Bound, Typed, SockTyped, SockType
  <2>9. NodeOf[sock[t].w] \in Nodes BY <2>8, CloudMeetAssumption
  <2>10. NodeOf[sock[t].w] # NodeOf[w]
    BY <1>b, <2>3, <2>4, <2>8 DEF OneWorkerEach
  <2>11. store'[NodeOf[sock[t].w]] = store[NodeOf[sock[t].w]]
    BY <1>0, <2>1, <2>9, <2>10 DEF Typed, StoreTyped
  <2> QED BY <2>5, <2>7, <2>11
<1>12. CASE Retire(s)
  <2>1. /\ sock' = Step(s, "dark") /\ UNCHANGED <<store, held>>
        /\ row' = [row EXCEPT !.live = FALSE] \/ UNCHANGED row
    BY <1>12 DEF Retire
  <2>2. Alone(s) /\ sock'[s].pc = "dark" BY <1>0, <2>1, StepView
  <2>3. UNCHANGED row.at BY <1>0, <2>1 DEF Typed, RowTyped
  <2> QED BY <2>1, <2>2, <2>3, StoreAlone
<1>13. CASE EmitDark(s)
  <2>1. UNCHANGED <<row, store, held>> /\ sock' = [sock EXCEPT ![s] = Free]
    BY <1>13 DEF EmitDark
  <2>2. Alone(s) /\ sock'[s] = Free BY <1>0, <2>1, FreedView
  <2>3. Free.pc = "free" BY DEF Free
  <2> QED BY <2>1, <2>2, <2>3, StoreAlone
<1> QED BY <1>1, <1>2, <1>3, <1>4, <1>5, <1>6, <1>7, <1>8, <1>9, <1>10, <1>11, <1>12, <1>13
        DEF Handler

LEMMA StoreKept ==
    ASSUME CoreInv, StoreInv, OneWorkerEach, ~Overtaking, [Next]_vars
    PROVE  StoreInv'
<1>0. Typed BY DEF CoreInv
<1>1. CASE UNCHANGED <<sock, held, store>> /\ UNCHANGED row.at
  BY <1>1 DEF StoreInv, AtStep, Bound
<1>2. ASSUME NEW w \in Workers, Move(w) PROVE StoreInv'
  <2>1. /\ \A t \in Sockets : sock[t].w # w
        /\ row' = [row EXCEPT !.at = w, !.from = row.at, !.age = "grace"]
        /\ UNCHANGED <<sock, held, store>>
    BY <1>2 DEF Move
  <2>2. row'.at = w BY <1>0, <2>1 DEF Typed, RowTyped
  <2> QED BY <2>1, <2>2 DEF StoreInv
<1>3. ASSUME NEW w \in Workers, BeatAnswer(w) PROVE StoreInv'
  <2>1. row' = AfterBeat(w) /\ KeepOnly(w) /\ UNCHANGED <<sock, held>> BY <1>3 DEF BeatAnswer
  <2>2. UNCHANGED row.at BY <1>0, <2>1 DEF AfterBeat, Typed, RowTyped
  <2>3. CASE UNCHANGED store BY <1>1, <2>1, <2>2, <2>3
  <2>4. CASE /\ ~Known(NodeOf[w])
             /\ store' = [store EXCEPT ![NodeOf[w]] = "none"]
    <3> SUFFICES ASSUME NEW s \in Sockets, sock[s].pc \in {"emit", "recv", "control"},
                        Bound(s), row.at = sock[s].w
                 PROVE  store'[NodeOf[sock[s].w]] = "live"
      BY <2>1, <2>2 DEF StoreInv, AtStep, Bound
    <3>1. store[NodeOf[sock[s].w]] = "live" BY DEF StoreInv, AtStep
    <3>2. sock[s].w \in Workers /\ sock[s].w # None
      BY <1>0 DEF Bound, Typed, SockTyped, SockType
    <3>3. NodeOf[sock[s].w] \in Nodes BY <3>2, CloudMeetAssumption
    <3>4. NodeOf[sock[s].w] # NodeOf[w] BY <2>4, <3>2 DEF Known
    <3>5. store'[NodeOf[sock[s].w]] = store[NodeOf[sock[s].w]]
      BY <1>0, <2>4, <3>3, <3>4 DEF Typed, StoreTyped
    <3> QED BY <3>1, <3>5
  <2> QED BY <2>1, <2>3, <2>4 DEF KeepOnly
<1>4. CASE MoveAges \/ RetireSilent
  <2>1. /\ UNCHANGED <<sock, held, store>>
        /\ \/ \E a : row' = [row EXCEPT !.age = a]
           \/ row' = [row EXCEPT !.live = FALSE]
    BY <1>4 DEF MoveAges, RetireSilent
  <2>2. UNCHANGED row.at BY <1>0, <2>1 DEF Typed, RowTyped
  <2> QED BY <1>1, <2>1, <2>2
<1>5. CASE Sweep
  <2>1. row'.at = None /\ UNCHANGED <<sock, held, store>> BY <1>5 DEF Sweep, NoRow
  <2> QED BY <2>1 DEF StoreInv, Bound
<1>6. ASSUME NEW w \in Workers, BeatTold(w) PROVE StoreInv'
  <2>1. UNCHANGED <<row, store, held>> BY <1>6 DEF BeatTold
  <2>2. \A t \in Sockets : UNCHANGED <<sock[t].w, sock[t].pc>>
    <3>1. CASE ~Holds(w) BY <1>6, <3>1 DEF BeatTold
    <3>2. CASE Holds(w) BY <1>6, <3>2, ToldView DEF Alone
    <3> QED BY <3>1, <3>2
  <2> QED BY <2>1, <2>2 DEF StoreInv, AtStep, Bound
<1>7. ASSUME NEW w \in Workers, Restart(w) PROVE StoreInv'
  <2>1. /\ held' = [held EXCEPT ![w] = Nobody] /\ UNCHANGED <<row, store>>
        /\ sock' = [s \in Sockets |-> IF s \in {t \in Sockets : sock[t].w = w} THEN Free
                                      ELSE sock[s]]
    BY <1>7 DEF Restart
  <2>2. \A v \in Workers : v # w => held'[v] = held[v] BY <1>0, <2>1 DEF Typed, HeldTyped
  <2> SUFFICES ASSUME NEW s \in Sockets, sock'[s].pc \in {"emit", "recv", "control"}, Bound(s)',
                      row.at = sock'[s].w
               PROVE  store[NodeOf[sock'[s].w]] = "live"
    BY <2>1 DEF StoreInv, AtStep
  <2>3. sock'[s] = sock[s] /\ sock[s].w # w BY <2>1 DEF Free
  <2>4. sock[s].w \in Workers
    BY <1>0, <2>3 DEF Bound, Typed, SockTyped, SockType
  <2>5. Bound(s) BY <2>2, <2>3, <2>4 DEF Bound
  <2> QED BY <2>3, <2>5 DEF StoreInv, AtStep
<1>8. ASSUME NEW s \in Sockets, Connect(s) PROVE StoreInv'
  <2>1. Alone(s) BY <1>8, <1>0 DEF Connect, Typed, SockTyped, Alone
  <2>2. UNCHANGED <<held, row, store>> /\ sock[s].pc = "free" BY <1>8 DEF Connect
  <2>3. \A v \in Workers : held[v].sock # s
    BY <2>2, Names DEF CoreInv, HeldInv, AtStep
  <2>4. sock'[s].w \in Workers \cup {None}
    BY <1>8, TypedKept DEF CoreInv, Typed, SockTyped, SockType
  <2>5. ~Bound(s)' BY <2>2, <2>3, <2>4 DEF Bound
  <2> QED BY <2>1, <2>2, <2>5, StoreAlone
<1>9. ASSUME NEW s \in Sockets, Handler(s) \/ RefuseTicket(s) PROVE StoreInv'
  BY <1>9, StoreHandler
<1>10. CASE ShowFrame \/ Reregister \/ Drop
  <2>1. UNCHANGED <<row, store, held>> BY <1>10 DEF ShowFrame, Reregister, Drop
  <2> QED BY <1>10, <2>1, PiView DEF StoreInv, AtStep, Bound
<1>11. ASSUME NEW w \in Workers, Ask(w) \/ BeatSend(w) \/ BeatFails(w) PROVE StoreInv'
  BY <1>1, <1>11 DEF Ask, BeatSend, BeatFails
<1>12. CASE Join \/ Joined \/ Leave \/ Revoke \/ UNCHANGED vars
  BY <1>1, <1>12 DEF Join, Joined, Leave, Revoke, vars
<1> QED BY <1>2, <1>3, <1>4, <1>5, <1>6, <1>7, <1>8, <1>9, <1>10, <1>11, <1>12
        DEF Next, Beat

\* The record of a meet a worker holds says it is live, so the node's other workers send
\* a visitor on (cloud_meetstore.save, store_offline), for any number of nodes, sockets
\* and events, when the meet moves between nodes and no Pi is back before its old socket
\* has been let go.
THEOREM StoreKeepsLive == ~Overtaking /\ OneWorkerEach => (Spec => []StoreSaysLive)
<1> SUFFICES ASSUME ~Overtaking, OneWorkerEach PROVE Spec => []StoreSaysLive OBVIOUS
<1> DEFINE IInv == CoreInv /\ StoreInv
<1>1. Init => IInv
  <2>1. Init => StoreInv BY DEF Init, StoreInv, AtStep, Free
  <2> QED BY <2>1, CoreFirst
<1>2. IInv /\ [Next]_vars => IInv' BY CoreKept, StoreKept
<1>3. IInv => StoreSaysLive
  <2> SUFFICES ASSUME IInv, NEW w \in Workers, Settled(w), row.live, row.at = w
               PROVE  store[NodeOf[w]] = "live"
    BY DEF StoreSaysLive
  <2>1. held[w].sock \in Sockets BY DEF Settled, Holds, CoreInv, Typed, HeldTyped
  <2>2. sock[held[w].sock].w = w BY DEF Settled, Holds, CoreInv, HeldInv
  <2> QED BY <2>1, <2>2, Names DEF Settled, StoreInv, AtStep, Bound
<1> QED BY <1>1, <1>2, <1>3, PTL DEF Spec

-----------------------------------------------------------------------------
(* BoardReplay: the inductive invariant.                                   *)

FramesSent ==
    {ResetFrame} \cup {EventFrame(h) : h \in Heats}
    \cup {SplitFrame(n) : n \in Nat}
    \cup {FinalFrame(n, h) : n \in Nat, h \in Heats \cup {NoHeat}}
    \cup {InfoFrame(h) : h \in Heats \cup {NoHeat}}

HasTime(f) == "time" \in DOMAIN f

ScreensTyped ==
    /\ pubs \in Nat /\ last_event_sent \in Heats \cup {NoHeat}
    /\ info \in Heats \cup {NoHeat}
    /\ loop \in Seq(FramesSent) /\ outbox \in Seq(FramesSent)
    /\ worker \in {"idle", "record", "emit"} /\ (worker = "idle" <=> outbox = <<>>)
    /\ DOMAIN board = Fields
    /\ screen = [s \in Screens |-> screen[s]] /\ view = [s \in Screens |-> view[s]]

\* The worker has recorded a time and not handed it over yet.
Unsent == worker = "emit" /\ HasTime(Head(outbox))

\* The last time handed over and not broadcast is the last one published ...
LastIsShown ==
    \E i \in 1..Len(loop) :
        /\ HasTime(loop[i]) /\ loop[i].time = shown.time
        /\ \A j \in 1..Len(loop) : j > i => ~HasTime(loop[j])

\* ... or none is left, and every open screen has it.
AllHaveIt ==
    /\ \A i \in 1..Len(loop) : ~HasTime(loop[i])
    /\ \A s \in Screens : screen[s] = "open" => view[s].time = shown.time

TimesInv ==
    /\ board.time = shown.time
    /\ Unsent => Head(outbox).time = shown.time
    /\ ~Unsent => LastIsShown \/ AllHaveIt

ScreensInv == ScreensTyped /\ TimesInv

-----------------------------------------------------------------------------
(* BoardReplay: frames.                                                    *)

LEMMA MergeTime ==
    ASSUME NEW b, NEW f
    PROVE  Merge(b, f).time = IF HasTime(f) THEN f.time ELSE b.time
BY DEF Merge, Fields, HasTime

LEMMA InfoHasNoTime ==
    ASSUME NEW h \in Heats \cup {NoHeat}
    PROVE  InfoFrame(h) \in FramesSent /\ ~HasTime(InfoFrame(h))
<1>1. InfoFrame(h) \in FramesSent BY DEF FramesSent
<1>2. "time" \notin DOMAIN InfoFrame(h) BY DEF InfoFrame
<1> QED BY <1>1, <1>2 DEF HasTime

\* A frame without a time handed over leaves the last time where it is.
LEMMA Appended ==
    ASSUME loop \in Seq(FramesSent), NEW f \in FramesSent, ~HasTime(f), loop' = Append(loop, f),
           shown'.time = shown.time, LastIsShown \/ AllHaveIt,
           \A s \in Screens : screen'[s] = "open" =>
               screen[s] = "open" /\ view'[s].time = view[s].time
    PROVE  LastIsShown' \/ AllHaveIt'
<1>1. /\ Len(loop') = Len(loop) + 1 /\ loop'[Len(loop) + 1] = f /\ Len(loop) \in Nat
      /\ \A i \in 1..Len(loop) : loop'[i] = loop[i]
  OBVIOUS
<1>2. CASE LastIsShown
  <2>1. PICK i \in 1..Len(loop) :
            /\ HasTime(loop[i]) /\ loop[i].time = shown.time
            /\ \A j \in 1..Len(loop) : j > i => ~HasTime(loop[j])
    BY <1>2 DEF LastIsShown
  <2>2. i \in 1..Len(loop') /\ loop'[i] = loop[i] BY <1>1
  <2>3. ASSUME NEW j \in 1..Len(loop'), j > i PROVE ~HasTime(loop'[j])
    <3>1. j \in 1..Len(loop) \/ j = Len(loop) + 1 BY <1>1
    <3> QED BY <1>1, <2>1, <2>3, <3>1
  <2> QED BY <2>1, <2>2, <2>3 DEF LastIsShown
<1>3. CASE AllHaveIt
  <2>1. ASSUME NEW j \in 1..Len(loop') PROVE ~HasTime(loop'[j])
    <3>1. j \in 1..Len(loop) \/ j = Len(loop) + 1 BY <1>1
    <3> QED BY <1>1, <1>3, <3>1 DEF AllHaveIt
  <2> QED BY <1>3, <2>1 DEF AllHaveIt
<1> QED BY <1>2, <1>3

-----------------------------------------------------------------------------
(* BoardReplay: the worker.                                                *)

LEMMA FeedKeeps == ASSUME ScreensInv, Feed PROVE ScreensInv'
<1> USE DEF ScreensInv
<1>1. pubs + 1 \in Nat BY DEF ScreensTyped
<1>2. last_event_sent' \in Heats \cup {NoHeat} BY DEF ScreensTyped, Feed
<1>3. outbox' \in Seq(FramesSent) /\ outbox' # <<>>
  <2>1. \A h \in Heats : EventFrame(h) \in FramesSent BY DEF FramesSent
  <2>2. SplitFrame(pubs + 1) \in FramesSent BY <1>1 DEF FramesSent
  <2>3. FinalFrame(pubs + 1, last_event_sent) \in FramesSent
    BY <1>1 DEF FramesSent, ScreensTyped
  <2>4. ResetFrame \in FramesSent /\ InfoFrame(NoHeat) \in FramesSent
    BY DEF FramesSent
  <2>5. \/ \E h \in Heats : outbox' = <<EventFrame(h)>>
        \/ outbox' = <<SplitFrame(pubs + 1)>>
        \/ outbox' = <<FinalFrame(pubs + 1, last_event_sent)>>
        \/ outbox' = <<ResetFrame, InfoFrame(NoHeat)>>
    BY DEF Feed
  <2>6. \A f, g \in FramesSent : <<f>> \in Seq(FramesSent) /\ <<f, g>> \in Seq(FramesSent)
                             /\ <<f>> # <<>> /\ <<f, g>> # <<>>
    OBVIOUS
  <2> QED BY <2>1, <2>2, <2>3, <2>4, <2>5, <2>6
<1>4. /\ worker = "idle" /\ worker' = "record" /\ pubs' = pubs + 1
      /\ UNCHANGED <<shown, board, loop, screen, info, view>>
  BY DEF Feed
<1>5. ScreensTyped' BY <1>1, <1>2, <1>3, <1>4 DEF ScreensTyped
<1>6. ~Unsent /\ ~Unsent' BY <1>4 DEF Unsent
<1>7. LastIsShown \/ AllHaveIt BY <1>6 DEF TimesInv
<1>8. LastIsShown' \/ AllHaveIt' BY <1>4, <1>7 DEF LastIsShown, AllHaveIt
<1> QED BY <1>4, <1>5, <1>6, <1>8 DEF TimesInv

LEMMA RecordKeeps == ASSUME ScreensInv, Record PROVE ScreensInv'
<1> USE DEF ScreensInv
<1> DEFINE f == Head(outbox)
<1>1. /\ worker = "record" /\ worker' = "emit"
      /\ board' = Merge(board, f) /\ shown' = Merge(shown, f)
      /\ UNCHANGED <<last_event_sent, outbox, loop, screen, info, view, pubs>>
  BY DEF Record
<1>2. /\ board'.time = IF HasTime(f) THEN f.time ELSE board.time
      /\ shown'.time = IF HasTime(f) THEN f.time ELSE shown.time
  BY <1>1, MergeTime
<1>3. ScreensTyped' BY <1>1 DEF ScreensTyped, Merge
<1>4. Unsent' <=> HasTime(f) BY <1>1 DEF Unsent
<1>5. LastIsShown \/ AllHaveIt BY <1>1 DEF TimesInv, Unsent
<1>6. ASSUME ~HasTime(f) PROVE LastIsShown' \/ AllHaveIt'
  BY <1>1, <1>2, <1>5, <1>6 DEF LastIsShown, AllHaveIt
<1> QED BY <1>1, <1>2, <1>3, <1>4, <1>6 DEF TimesInv

LEMMA EmitKeeps == ASSUME ScreensInv, Emit PROVE ScreensInv'
<1> USE DEF ScreensInv
<1> DEFINE f == Head(outbox)
<1>1. /\ worker = "emit" /\ loop' = Append(loop, f) /\ outbox' = Tail(outbox)
      /\ worker' = IF Tail(outbox) = <<>> THEN "idle" ELSE "record"
      /\ UNCHANGED <<last_event_sent, shown, board, screen, info, view, pubs>>
  BY DEF Emit
<1>2. outbox \in Seq(FramesSent) /\ outbox # <<>> /\ loop \in Seq(FramesSent)
  BY <1>1 DEF ScreensTyped
<1>3. f \in FramesSent /\ Tail(outbox) \in Seq(FramesSent) BY <1>2
<1> HIDE DEF f
<1>4. ScreensTyped'
  <2>1. loop' \in Seq(FramesSent) /\ outbox' \in Seq(FramesSent) BY <1>1, <1>2, <1>3
  <2> QED BY <1>1, <2>1 DEF ScreensTyped
<1>5. ~Unsent' BY <1>1 DEF Unsent
<1>6. Unsent <=> HasTime(f) BY <1>1 DEF Unsent, f
<1>7. CASE HasTime(f)
  <2>1. f.time = shown.time BY <1>6, <1>7 DEF TimesInv, f
  <2>2. Len(loop') = Len(loop) + 1 /\ loop'[Len(loop) + 1] = f /\ Len(loop) \in Nat
    BY <1>1, <1>2, <1>3
  <2>3. Len(loop') \in 1..Len(loop')
        /\ \A j \in 1..Len(loop') : ~(j > Len(loop'))
    BY <2>2
  <2>4. LastIsShown' BY <1>1, <1>7, <2>1, <2>2, <2>3 DEF LastIsShown
  <2> QED BY <1>1, <1>4, <1>5, <2>4 DEF TimesInv
<1>8. CASE ~HasTime(f)
  <2>1. LastIsShown \/ AllHaveIt BY <1>6, <1>8 DEF TimesInv
  <2>2. LastIsShown' \/ AllHaveIt' BY <1>1, <1>2, <1>3, <1>8, <2>1, Appended
  <2> QED BY <1>1, <1>4, <1>5, <2>2 DEF TimesInv
<1> QED BY <1>7, <1>8

-----------------------------------------------------------------------------
(* BoardReplay: the event loop.                                            *)

\* Who receives a frame that has the last time then has it; a frame before
\* that changes nothing of what is still to come.
LEMMA BroadcastKeeps == ASSUME ScreensInv, Broadcast PROVE ScreensInv'
<1> USE DEF ScreensInv
<1> DEFINE f == Head(loop)
<1>1. /\ loop # <<>> /\ loop' = Tail(loop)
      /\ view' = [s \in Screens |-> IF s \in JoinedScreens THEN Merge(view[s], f)
                                        ELSE view[s]]
      /\ UNCHANGED <<last_event_sent, shown, outbox, worker, board, screen, info, pubs>>
  BY DEF Broadcast
<1>2. loop \in Seq(FramesSent) BY DEF ScreensTyped
<1>3. /\ loop' \in Seq(FramesSent) /\ f = loop[1] /\ Len(loop) \in Nat /\ Len(loop) >= 1
      /\ Len(loop') = Len(loop) - 1
      /\ \A i \in 1..Len(loop') : loop'[i] = loop[i + 1]
  BY <1>1, <1>2
<1> HIDE DEF f
<1>4. ScreensTyped' BY <1>1, <1>3 DEF ScreensTyped
<1>5. Unsent' <=> Unsent BY <1>1 DEF Unsent
<1>7. screen' = screen /\ shown' = shown BY <1>1
<1>6. ASSUME NEW s \in Screens, screen[s] = "open"
      PROVE  view'[s].time = IF HasTime(f) THEN f.time ELSE view[s].time
  <2>1. view'[s] = Merge(view[s], f) BY <1>1, <1>6 DEF JoinedScreens
  <2> QED BY <2>1, MergeTime
<1>8. ASSUME LastIsShown PROVE LastIsShown' \/ AllHaveIt'
  <2>1. PICK i \in 1..Len(loop) :
            /\ HasTime(loop[i]) /\ loop[i].time = shown.time
            /\ \A j \in 1..Len(loop) : j > i => ~HasTime(loop[j])
    BY <1>8 DEF LastIsShown
  <2>2. CASE i = 1
    <3>1. \A s \in Screens : screen[s] = "open" => view'[s].time = shown.time
      BY <1>3, <1>6, <2>1, <2>2
    <3>2. ASSUME NEW j \in 1..Len(loop') PROVE ~HasTime(loop'[j])
      <4>1. j + 1 \in 1..Len(loop) /\ j + 1 > i BY <1>3, <2>2
      <4> QED BY <1>3, <2>1, <4>1
    <3> QED BY <1>7, <3>1, <3>2 DEF AllHaveIt
  <2>3. CASE i # 1
    <3>1. i - 1 \in 1..Len(loop') /\ loop'[i - 1] = loop[i]
      <4>1. i - 1 \in 1..Len(loop') /\ (i - 1) + 1 = i BY <1>3, <2>3
      <4> QED BY <1>3, <4>1
    <3>2. ASSUME NEW j \in 1..Len(loop'), j > i - 1 PROVE ~HasTime(loop'[j])
      <4>1. j + 1 \in 1..Len(loop) /\ j + 1 > i BY <1>3, <3>2
      <4> QED BY <1>3, <2>1, <4>1
    <3>3. HasTime(loop'[i - 1]) /\ loop'[i - 1].time = shown'.time
      BY <1>1, <2>1, <3>1
    <3> QED BY <3>1, <3>2, <3>3 DEF LastIsShown
  <2> QED BY <2>2, <2>3
<1>9. ASSUME AllHaveIt PROVE AllHaveIt'
  <2>1. 1 \in 1..Len(loop) BY <1>3
  <2>2. ~HasTime(f) BY <1>3, <1>9, <2>1 DEF AllHaveIt
  <2>3. \A s \in Screens : screen[s] = "open" => view'[s].time = shown.time
    BY <1>6, <1>9, <2>2 DEF AllHaveIt
  <2>4. ASSUME NEW j \in 1..Len(loop') PROVE ~HasTime(loop'[j])
    <3>1. j + 1 \in 1..Len(loop) BY <1>3
    <3> QED BY <1>3, <1>9, <3>1 DEF AllHaveIt
  <2> QED BY <1>7, <2>3, <2>4 DEF AllHaveIt
<1>10. ~Unsent' => LastIsShown' \/ AllHaveIt' BY <1>5, <1>8, <1>9 DEF TimesInv
<1> QED BY <1>1, <1>4, <1>5, <1>10 DEF TimesInv, Unsent

\* Steps of a screen that neither hand a frame over nor open it.
LEMMA ScreenKeeps ==
    ASSUME ScreensInv, NEW s \in Screens, ConnectScreen(s) \/ ReadHeat(s) \/ DropScreen(s)
    PROVE  ScreensInv'
<1> USE DEF ScreensInv
<1>1. UNCHANGED <<last_event_sent, shown, outbox, worker, board, loop, pubs>>
  BY DEF ConnectScreen, ReadHeat, DropScreen
<1>2. \A u \in Screens : screen'[u] = "open" =>
          screen[u] = "open" /\ view'[u] = view[u]
  BY DEF ConnectScreen, ReadHeat, DropScreen, ScreensTyped
<1>3. ScreensTyped' BY <1>1 DEF ConnectScreen, ReadHeat, DropScreen, ScreensTyped
<1>4. Unsent' <=> Unsent BY <1>1 DEF Unsent
<1>5. ASSUME LastIsShown \/ AllHaveIt PROVE LastIsShown' \/ AllHaveIt'
  BY <1>1, <1>2, <1>5 DEF LastIsShown, AllHaveIt
<1> QED BY <1>1, <1>3, <1>4, <1>5 DEF TimesInv

\* The announcement carries no time, on the board or in the loop.
LEMMA InfoKeeps ==
    ASSUME ScreensInv, NEW s \in Screens, RecordInfo(s) \/ EmitInfo(s)
    PROVE  ScreensInv'
<1> USE DEF ScreensInv
<1> DEFINE f == InfoFrame(info)
<1>1. f \in FramesSent /\ ~HasTime(f) BY InfoHasNoTime DEF ScreensTyped
<1>2. UNCHANGED <<last_event_sent, shown, outbox, worker, info, view, pubs>>
  BY DEF RecordInfo, EmitInfo
<1>3. /\ screen' = [u \in Screens |-> screen'[u]]
      /\ \A u \in Screens : screen'[u] = "open" => screen[u] = "open"
  BY DEF RecordInfo, EmitInfo, ScreensTyped
<1>4. Unsent' <=> Unsent BY <1>2 DEF Unsent
<1>5. CASE RecordInfo(s)
  <2>1. board' = Merge(board, f) /\ UNCHANGED loop BY <1>5 DEF RecordInfo
  <2> HIDE DEF f
  <2>2. board'.time = board.time BY <1>1, <2>1, MergeTime
  <2>3. ScreensTyped' BY <1>2, <1>3, <2>1 DEF ScreensTyped, Merge
  <2>4. ASSUME LastIsShown \/ AllHaveIt PROVE LastIsShown' \/ AllHaveIt'
    BY <1>2, <1>3, <2>1, <2>4 DEF LastIsShown, AllHaveIt
  <2> QED BY <1>2, <1>4, <2>2, <2>3, <2>4 DEF TimesInv
<1>6. CASE EmitInfo(s)
  <2>1. loop' = Append(loop, f) /\ UNCHANGED board BY <1>6 DEF EmitInfo
  <2> HIDE DEF f
  <2>2. loop \in Seq(FramesSent) BY DEF ScreensTyped
  <2>3. loop' \in Seq(FramesSent) BY <1>1, <2>1, <2>2
  <2>4. ScreensTyped' BY <1>2, <1>3, <2>1, <2>3 DEF ScreensTyped
  <2>5. ASSUME LastIsShown \/ AllHaveIt PROVE LastIsShown' \/ AllHaveIt'
    BY <1>1, <1>2, <1>3, <2>1, <2>2, <2>5, Appended
  <2> QED BY <1>2, <1>4, <2>1, <2>4, <2>5 DEF TimesInv
<1> QED BY <1>5, <1>6

\* The screen that opens is sent the board, which has the last time.
LEMMA CopyKeeps == ASSUME ScreensInv, NEW s \in Screens, SendCopy(s) PROVE ScreensInv'
<1> USE DEF ScreensInv
<1>1. /\ UNCHANGED <<last_event_sent, shown, outbox, worker, board, loop, info, pubs>>
      /\ view' = [view EXCEPT ![s] = Merge(view[s], board)]
      /\ screen' = [screen EXCEPT ![s] = "open"]
  BY DEF SendCopy
<1>2. board.time = shown.time BY DEF TimesInv
<1>3. ScreensTyped' BY <1>1 DEF ScreensTyped
<1>4. Unsent' <=> Unsent BY <1>1 DEF Unsent
<1>5. view'[s] = Merge(view[s], board) BY <1>1 DEF ScreensTyped
<1>6. HasTime(board) BY DEF ScreensTyped, HasTime, Fields
<1>7. view'[s].time = shown.time BY <1>2, <1>5, <1>6, MergeTime
<1>8. \A u \in Screens : u # s => view'[u] = view[u] /\ screen'[u] = screen[u]
  BY <1>1 DEF ScreensTyped
<1>9. ASSUME LastIsShown \/ AllHaveIt PROVE LastIsShown' \/ AllHaveIt'
  BY <1>1, <1>7, <1>8, <1>9 DEF LastIsShown, AllHaveIt
<1> QED BY <1>1, <1>3, <1>4, <1>9 DEF TimesInv

-----------------------------------------------------------------------------
(* BoardReplay: the theorem.                                               *)

LEMMA ScreensFirst == ASSUME BoardInit PROVE ScreensInv
<1> USE DEF BoardInit
<1>1. <<>> \in Seq(FramesSent) /\ Len(<<>>) = 0 OBVIOUS
<1>2. ScreensTyped BY <1>1 DEF ScreensTyped, Blank, Fields
<1>3. TimesInv BY <1>1 DEF TimesInv, AllHaveIt, Unsent, Blank
<1> QED BY <1>2, <1>3 DEF ScreensInv

LEMMA ScreensSame == ASSUME ScreensInv, UNCHANGED boardVars PROVE ScreensInv'
<1> USE DEF boardVars, ScreensInv
<1>1. ScreensTyped' BY DEF ScreensTyped
<1>2. TimesInv' BY DEF TimesInv, Unsent, LastIsShown, AllHaveIt
<1> QED BY <1>1, <1>2

LEMMA ScreensStep == ScreensInv /\ [BoardNext]_boardVars => ScreensInv'
<1> SUFFICES ASSUME ScreensInv, [BoardNext]_boardVars PROVE ScreensInv' OBVIOUS
<1>1. CASE Worker
  BY <1>1, FeedKeeps, ScreensSame, RecordKeeps, EmitKeeps DEF Worker, FeedNothing
<1>2. CASE EventLoop
  BY <1>2, BroadcastKeeps, ScreenKeeps, InfoKeeps, CopyKeeps DEF EventLoop
<1>3. CASE Network BY <1>3, ScreenKeeps DEF Network
<1>4. CASE UNCHANGED boardVars BY <1>4, ScreensSame
<1> QED BY <1>1, <1>2, <1>3, <1>4 DEF BoardNext

LEMMA ScreensShown == ASSUME ScreensInv PROVE LanesConverge
<1> SUFFICES ASSUME AtRest, NEW s \in JoinedScreens PROVE view[s].time = shown.time
  BY DEF LanesConverge
<1>1. loop = <<>> /\ ~Unsent BY DEF AtRest, Unsent
<1>2. ~LastIsShown
  <2>1. Len(loop) = 0 BY <1>1
  <2> QED BY <2>1 DEF LastIsShown
<1>3. s \in Screens /\ screen[s] = "open" BY DEF AtRest, JoinedScreens
<1> QED BY <1>1, <1>2, <1>3 DEF ScreensInv, TimesInv, AllHaveIt

\* Every screen, whenever it connected and whatever it missed, ends with the lane
\* times published last: the copy it is sent on connection has the last time
\* recorded, and what the loop has still to broadcast, in order, ends with it.
THEOREM ScreensConverge == BoardSpec => []LanesConverge
<1>1. BoardInit => ScreensInv BY ScreensFirst
<1>2. ScreensInv /\ [BoardNext]_boardVars => ScreensInv' BY ScreensStep
<1>3. ScreensInv => LanesConverge BY ScreensShown
<1> QED BY <1>1, <1>2, <1>3, PTL DEF BoardSpec
=============================================================================
