------------------------------ MODULE CloudMeet ------------------------------
(***************************************************************************)
(* One meet on the cloud: its Pi, the workers that may carry it, the row   *)
(* of it in the control plane's registry, its record in each node's store  *)
(* and one attendee's phone (src/cloud/cloud_server.py, cloud_store.py,    *)
(* cloud_meetstore.py, cloud_node.py, cloud_bus.py, cloud_ticket.py and    *)
(* the register, retire, heartbeat and move of cloud_registry.py).         *)
(*                                                                         *)
(* A worker is one event loop.  What a handler does between two awaits is  *)
(* one action, and a handler that waits for a thread (the control plane,   *)
(* the node's store) lets every other handler of the worker in.  A call to *)
(* the control plane may fail, before or after it has taken effect.        *)
(***************************************************************************)
EXTENDS Naturals, Sequences, FiniteSets

CONSTANTS
    Workers,        \* worker processes
    Nodes,          \* the boxes they run on
    NodeOf,         \* the node of a worker
    First,          \* worker 1 of each node: it alone prunes the node's store
    Sockets,        \* relay sockets open or being closed at one time
    None,
    MaxFrames,      \* board frames of the Pi
    MaxEvents,      \* moves, drops, restarts, revocations, settings changes
    BeatsAtOnce,    \* heartbeats on their way at one time
    Overtaking,     \* a Pi is back before the worker has let its old socket go
    BeatRaces,      \* a beat is on its way while a register is
    LongOutages,    \* the control plane is away longer than SILENT_AFTER_SECS
    MovesAgain      \* a meet is moved again before its worker has let it go

ASSUME CloudMeetAssumption ==
    /\ MaxFrames \in Nat /\ MaxEvents \in Nat /\ BeatsAtOnce \in Nat
    /\ NodeOf \in [Workers -> Nodes] /\ First \subseteq Workers
    /\ {Overtaking, BeatRaces, LongOutages, MovesAgain} \subseteq BOOLEAN
    /\ None \notin Workers \cup Sockets

VARIABLES
    active,         \* the organizer's key is active
    row,            \* the meet's row in the registry
    held,           \* per worker: _meets[meet], its socket and last_scoreboard
    sids,           \* _relay_sids: sockets registered for the meet
    store,          \* per node: the record in meets.db
    sock,           \* per relay socket: the handler ws_relay runs for it
    pi,             \* the Pi's socket, its ticket, and whether it must ask again
    frame,          \* the board the Pi shows, as a number
    beat,           \* per worker: where its heartbeat is
    phone,          \* one attendee on the live board
    events          \* how many of them so far (a bound)

vars == <<active, row, held, sids, store, sock, pi, frame, beat,
          phone, events>>
cloudVars == <<active, events>>
Event == events < MaxEvents /\ events' = events + 1

NoRow == [live |-> FALSE, at |-> None, from |-> None, age |-> "none"]
Free == [w |-> None, pc |-> "free", q |-> <<>>, open |-> FALSE, by |-> "none"]
Idle == [pc |-> "idle", named |-> FALSE, to |-> None, revoked |-> FALSE]
Nobody == [sock |-> None, board |-> 0]

Frames == 0..MaxFrames
Message == [kind : {"register", "frame"}, n : Frames]
Register == [kind |-> "register", n |-> 0]

TypeOK ==
    /\ active \in BOOLEAN /\ frame \in Frames
    /\ row \in [live : BOOLEAN, at : Workers \cup {None},
                from : Workers \cup {None},
                age : {"none", "grace", "notice", "old"}]
    /\ held \in [Workers -> [sock : Sockets \cup {None}, board : Frames]]
    /\ sids \subseteq Sockets
    /\ store \in [Nodes -> {"none", "live", "offline"}]
    /\ DOMAIN sock = Sockets
    /\ \A s \in Sockets :
         /\ sock[s].w \in Workers \cup {None} /\ sock[s].open \in BOOLEAN
         /\ sock[s].pc \in {"free", "recv", "control", "swap", "save", "emit",
                            "offline", "retire", "dark"}
         /\ sock[s].q \in Seq(Message)
         /\ sock[s].by \in {"none", "control", "ticket"}
    /\ pi \in [sock : Sockets \cup {None}, ticket : Workers \cup {None},
               reassign : BOOLEAN]
    /\ beat \in [Workers -> [pc : {"idle", "sent", "told"}, named : BOOLEAN,
                             to : Workers \cup {None}, revoked : BOOLEAN]]
    /\ phone.at \in Workers
    /\ phone.pc \in {"away", "asked", "in"}
    /\ phone.live \in BOOLEAN /\ phone.board \in Frames
    /\ phone.got \in {"none", "stored"} \cup Sockets \cup Workers
    /\ phone.saw \in Frames
    /\ events \in 0..MaxEvents

Init ==
    /\ active = TRUE /\ row = NoRow
    /\ held = [w \in Workers |-> Nobody] /\ sids = {}
    /\ store = [n \in Nodes |-> "none"]
    /\ sock = [s \in Sockets |-> Free]
    /\ pi = [sock |-> None, ticket |-> None, reassign |-> FALSE]
    /\ frame = 0 /\ events = 0
    /\ beat = [w \in Workers |-> Idle]
    /\ phone \in [at : Workers, pc : {"away"}, live : {FALSE}, board : {0},
                  got : {"none"}, saw : {0}]

Holds(w) == held[w].sock # None
InChannel(w) == phone.pc = "in" /\ phone.at = w

(***************************************************************************)
(* The Pi                                                                  *)
(***************************************************************************)

\* assign: a meet goes back to the worker its row names; one with no row goes
\* to the least loaded worker, which may be any.
MayAssign(w) == active /\ (row.at = None \/ row.at = w)

Ask(w) ==
    /\ pi.sock = None /\ (pi.ticket = None \/ pi.reassign)
    /\ MayAssign(w)
    /\ pi' = [pi EXCEPT !.ticket = w, !.reassign = FALSE]
    /\ UNCHANGED <<cloudVars, row, held, sids, store, sock, frame, beat, phone>>

\* A register of the socket is still to be asked of the control plane.
Registers(s) ==
    \/ sock[s].pc = "control"
    \/ \E i \in 1..Len(sock[s].q) : sock[s].q[i].kind = "register"

\* A kept ticket is used while the control plane cannot be asked.
Connect(s) ==
    /\ pi.sock = None /\ pi.ticket # None /\ sock[s].pc = "free"
    /\ Overtaking \/ \A t \in Sockets : sock[t].w # pi.ticket /\ ~Registers(t)
    /\ sock' = [sock EXCEPT ![s] =
           [w |-> pi.ticket, pc |-> "recv", open |-> TRUE, by |-> "none",
            q |-> <<Register>> \o IF frame = 0 THEN <<>>
                                  ELSE <<[kind |-> "frame", n |-> frame]>>]]
    /\ pi' = [pi EXCEPT !.sock = s]
    /\ UNCHANGED <<cloudVars, row, held, sids, store, frame, beat, phone>>

ShowFrame ==
    /\ frame < MaxFrames
    /\ frame' = frame + 1
    /\ sock' = IF pi.sock = None THEN sock
               ELSE [sock EXCEPT ![pi.sock].q =
                         Append(@, [kind |-> "frame", n |-> frame + 1])]
    /\ UNCHANGED <<cloudVars, row, held, sids, store, pi, beat, phone>>

\* An operator's change of the settings registers again on the open socket.
Reregister ==
    /\ pi.sock # None /\ sock[pi.sock].q = <<>> /\ sock[pi.sock].pc = "recv" /\ Event
    /\ sock' = [sock EXCEPT ![pi.sock].q = <<Register>>]
    /\ UNCHANGED <<active, row, held, sids, store, pi, frame, beat, phone>>

\* The Pi's end of a socket is gone; what it had sent may still arrive.
Closed(s, q) == [sock EXCEPT ![s].open = FALSE, ![s].by = "none", ![s].q = q]

Drop ==
    /\ pi.sock # None /\ Event
    /\ \E q \in {sock[pi.sock].q, <<>>} : sock' = Closed(pi.sock, q)
    /\ pi' = [pi EXCEPT !.sock = None]
    /\ UNCHANGED <<active, row, held, sids, store, frame, beat, phone>>

\* What the Pi does with `rejected`: it closes, and asks again when told to.
Rejected(s, again) ==
    IF pi.sock = s
    THEN pi' = [pi EXCEPT !.sock = None, !.reassign = @ \/ again]
    ELSE UNCHANGED pi

(***************************************************************************)
(* A relay socket's handler on its worker (ws_relay)                       *)
(***************************************************************************)
At(s, pc) == sock[s].pc = pc
Next1(s) == Head(sock[s].q).kind
Step(s, pc) == [sock EXCEPT ![s].pc = pc]
Took(s, pc) == [sock EXCEPT ![s].pc = pc, ![s].q = Tail(@)]

\* The ticket is checked here, then the control plane asked.
TakeRegister(s) ==
    /\ At(s, "recv") /\ sock[s].q # <<>> /\ Next1(s) = "register"
    /\ BeatRaces \/ beat[sock[s].w].pc # "sent"
    /\ sock' = Took(s, "control")
    /\ UNCHANGED <<cloudVars, row, held, sids, store, pi, frame, beat, phone>>

\* A ticket lasts a day: an open socket may register again with one too old.
RefuseTicket(s) ==
    /\ At(s, "recv") /\ sock[s].q # <<>> /\ Next1(s) = "register"
    /\ sock[s].by # "none"
    /\ sock' = Closed(s, <<>>)
    /\ Rejected(s, TRUE)
    /\ UNCHANGED <<cloudVars, row, held, sids, store, frame, beat, phone>>

\* register: the row is live on the worker that asked, and no move is pending.
Registered(w) == [live |-> TRUE, at |-> w, from |-> None, age |-> "none"]

RegisterControl(s) ==
    /\ At(s, "control") /\ active
    /\ row' = Registered(sock[s].w)
    /\ \E by \in {"control", "ticket"} :      \* the answer may be lost
         sock' = [Step(s, "swap") EXCEPT ![s].by = by]
    /\ UNCHANGED <<cloudVars, held, sids, store, pi, frame, beat, phone>>

RegisterOnTicket(s) ==
    /\ At(s, "control")
    /\ sock' = [Step(s, "swap") EXCEPT ![s].by = "ticket"]
    /\ UNCHANGED <<cloudVars, row, held, sids, store, pi, frame, beat, phone>>

RegisterRefused(s) ==
    /\ At(s, "control") /\ ~active
    /\ sock' = [Closed(s, <<>>) EXCEPT ![s].pc = "recv"]
    /\ Rejected(s, FALSE)
    /\ UNCHANGED <<cloudVars, row, held, sids, store, frame, beat, phone>>

\* Under the lock: the meet is bound to this socket; a board kept from the
\* socket it takes over from is the same object, so a lookup follows it.
Swap(s) ==
    LET w == sock[s].w IN
    /\ At(s, "swap")
    /\ held' = [held EXCEPT ![w].sock = s]
    /\ sids' = sids \cup {s}
    /\ phone' = IF phone.pc = "asked" /\ phone.at = w /\ Holds(w)
                   /\ phone.got = held[w].sock
                THEN [phone EXCEPT !.got = s] ELSE phone
    /\ sock' = Step(s, "save")
    /\ UNCHANGED <<cloudVars, row, store, pi, frame, beat>>

\* Mutant: a record the node already has is left as it is.
SaveNew(s) ==
    LET n == NodeOf[sock[s].w] IN
    /\ At(s, "save")
    /\ store' = [store EXCEPT ![n] = IF @ = "none" THEN "live" ELSE @]
    /\ sock' = Step(s, "emit")
    /\ UNCHANGED <<cloudVars, row, held, sids, pi, frame, beat, phone>>

SaveLive(s) ==
    /\ At(s, "save")
    /\ store' = [store EXCEPT ![NodeOf[sock[s].w]] = "live"]
    /\ sock' = Step(s, "emit")
    /\ UNCHANGED <<cloudVars, row, held, sids, pi, frame, beat, phone>>

EmitLive(s) ==
    /\ At(s, "emit")
    /\ phone' = IF InChannel(sock[s].w) THEN [phone EXCEPT !.live = TRUE] ELSE phone
    /\ sock' = Step(s, "recv")
    /\ UNCHANGED <<cloudVars, row, held, sids, store, pi, frame, beat>>

\* _forward: the frame goes into the meet's cache and to everyone in the channel.
Forward(s) ==
    LET w == sock[s].w
        n == Head(sock[s].q).n
        known == s \in sids /\ Holds(w) IN
    /\ At(s, "recv") /\ sock[s].q # <<>> /\ Next1(s) = "frame"
    /\ sock' = Took(s, "recv")
    /\ held' = IF known THEN [held EXCEPT ![w].board = n] ELSE held
    /\ phone' = IF ~known THEN phone
                ELSE IF InChannel(w) THEN [phone EXCEPT !.board = n]
                ELSE IF phone.at = w /\ phone.got = held[w].sock
                THEN [phone EXCEPT !.saw = n] ELSE phone
    /\ UNCHANGED <<cloudVars, row, sids, store, pi, frame, beat>>

\* _on_relay_disconnect, up to its first await: the meet goes only with the
\* socket it is bound to.
Disconnect(s) ==
    LET w == sock[s].w IN
    /\ At(s, "recv") /\ ~sock[s].open /\ sock[s].q = <<>>
    /\ sids' = sids \ {s}
    /\ IF s \in sids /\ held[w].sock = s
       THEN /\ held' = [held EXCEPT ![w] = Nobody]
            /\ sock' = Step(s, "offline")
       ELSE /\ sock' = [sock EXCEPT ![s] = Free]
            /\ UNCHANGED held
    /\ UNCHANGED <<cloudVars, row, store, pi, frame, beat, phone>>

StoreOffline(s) ==
    /\ At(s, "offline")
    /\ store' = [store EXCEPT ![NodeOf[sock[s].w]] = "offline"]
    /\ sock' = Step(s, "retire")
    /\ UNCHANGED <<cloudVars, row, held, sids, pi, frame, beat, phone>>

\* Mutant: a retire does not ask who holds the meet.
RetireAnyHolder(s) ==
    /\ At(s, "retire")
    /\ row' = [row EXCEPT !.live = FALSE]
    /\ sock' = Step(s, "dark")
    /\ UNCHANGED <<cloudVars, held, sids, store, pi, frame, beat, phone>>

\* retire: only the holder may; a report that fails is not repeated.
Retire(s) ==
    /\ At(s, "retire")
    /\ \/ row.at = sock[s].w /\ row' = [row EXCEPT !.live = FALSE]
       \/ UNCHANGED row
    /\ sock' = Step(s, "dark")
    /\ UNCHANGED <<cloudVars, held, sids, store, pi, frame, beat, phone>>

EmitDark(s) ==
    /\ At(s, "dark")
    /\ phone' = IF InChannel(sock[s].w) THEN [phone EXCEPT !.live = FALSE] ELSE phone
    /\ sock' = [sock EXCEPT ![s] = Free]
    /\ UNCHANGED <<cloudVars, row, held, sids, store, pi, frame, beat>>

Handler(s) ==
    \/ TakeRegister(s) \/ RegisterControl(s) \/ RegisterOnTicket(s)
    \/ RegisterRefused(s) \/ Swap(s) \/ SaveLive(s) \/ EmitLive(s) \/ Forward(s)
    \/ Disconnect(s) \/ StoreOffline(s) \/ Retire(s) \/ EmitDark(s)

(***************************************************************************)
(* A worker's heartbeat                                                    *)
(***************************************************************************)
BeatSend(w) ==
    /\ beat[w].pc = "idle"
    /\ Cardinality({v \in Workers : beat[v].pc # "idle"}) < BeatsAtOnce
    /\ BeatRaces \/ \A s \in Sockets : sock[s].w = w => sock[s].pc \notin {"control", "swap"}
    /\ beat' = [beat EXCEPT ![w] = [Idle EXCEPT !.pc = "sent", !.named = Holds(w)]]
    /\ UNCHANGED <<cloudVars, row, held, sids, store, sock, pi, frame, phone>>

\* A meet of this worker that it does not name is retired, unless it was moved
\* here within MOVE_GRACE_SECS.
AfterBeat(w) ==
    IF row.live /\ row.at = w /\ ~beat[w].named /\ row.age # "grace"
    THEN [row EXCEPT !.live = FALSE] ELSE row

\* keep_only: worker 1 drops the record of a meet the registry does not place on
\* its node, unless it was written within FRESH_SECS.
Known(n) == row.at # None /\ NodeOf[row.at] = n
KeepOnly(w) ==
    \/ UNCHANGED store
    \/ /\ w \in First /\ ~Known(NodeOf[w]) /\ store[NodeOf[w]] # "none"
       /\ store' = [store EXCEPT ![NodeOf[w]] = "none"]

BeatAnswer(w) ==
    /\ beat[w].pc = "sent"
    /\ row' = AfterBeat(w)
    /\ LET moved == row.from = w /\ row.age \in {"grace", "notice"} /\ beat[w].named
           revoked == row.live /\ row.at = w /\ beat[w].named /\ ~active
       IN beat' = [beat EXCEPT ![w] =
                      [pc |-> IF moved \/ revoked THEN "told" ELSE "idle", named |-> FALSE,
                       to |-> IF moved THEN row.at ELSE None, revoked |-> revoked]]
    /\ KeepOnly(w)
    /\ UNCHANGED <<cloudVars, held, sids, sock, pi, frame, phone>>

BeatFails(w) ==
    /\ beat[w].pc = "sent"
    /\ beat' = [beat EXCEPT ![w] = Idle]
    /\ UNCHANGED <<cloudVars, row, held, sids, store, sock, pi, frame, phone>>

\* _on_moves and _on_revoked: the attendees are sent on, the Pi is told and its
\* socket closed.
BeatTold(w) ==
    LET s == held[w].sock IN
    /\ beat[w].pc = "told"
    /\ beat' = [beat EXCEPT ![w] = Idle]
    /\ IF Holds(w)
       THEN /\ \E q \in {sock[s].q, <<>>} : sock' = Closed(s, q)
            /\ Rejected(s, beat[w].to # None)
            /\ phone' = IF beat[w].to # None /\ InChannel(w)
                        THEN [phone EXCEPT !.at = beat[w].to, !.pc = "away"]
                        ELSE phone
       ELSE UNCHANGED <<sock, pi, phone>>
    /\ UNCHANGED <<cloudVars, row, held, sids, store, frame>>

Beat(w) == BeatSend(w) \/ BeatAnswer(w) \/ BeatFails(w) \/ BeatTold(w)

(***************************************************************************)
(* An attendee's phone on the live board (ws_scoreboard)                   *)
(***************************************************************************)
\* meet_for and _elsewhere: the socket it is held under; "stored" for a record or
\* a card served here; or the worker the visitor is sent to.
FirstOf(n) ==
    CHOOSE v \in Workers :
        NodeOf[v] = n /\ (v \in First \/ \A u \in First : NodeOf[u] # n)
Found(w, card) ==
    LET n == NodeOf[w] IN
    IF Holds(w) THEN held[w].sock
    ELSE IF card.live /\ store[n] # "offline"
    THEN IF card.at = w THEN "stored" ELSE card.at
    ELSE IF store[n] # "none" THEN "stored"
    ELSE IF card.at = None THEN "none"
    ELSE IF NodeOf[card.at] = n THEN "stored"
    ELSE FirstOf(NodeOf[card.at])

Join ==
    /\ phone.pc = "away"
    /\ \E card \in {row, NoRow} :       \* NoRow: fetch_meet got no answer
         phone' = [phone EXCEPT !.pc = "asked", !.got = Found(phone.at, card),
                                !.saw = held[phone.at].board]
    /\ UNCHANGED <<cloudVars, row, held, sids, store, sock, pi, frame, beat>>

\* Mutant: whether the meet is live is what the lookup saw.
JoinedLiveAsSeen ==
    /\ phone.pc = "asked"
    /\ phone' =
         IF phone.got \in Workers
         THEN [phone EXCEPT !.at = phone.got, !.pc = "away", !.got = "none", !.saw = 0]
         ELSE IF phone.got = "none" THEN [phone EXCEPT !.pc = "away"]
         ELSE [phone EXCEPT !.pc = "in", !.live = phone.got \in Sockets,
                            !.board = IF phone.saw > 0 THEN phone.saw ELSE @]
    /\ UNCHANGED <<cloudVars, row, held, sids, store, sock, pi, frame, beat>>

\* The lookup's thread is back: whether the meet is live is read now, and the
\* page joins the channel in the same step.
Joined ==
    /\ phone.pc = "asked"
    /\ phone' =
         IF phone.got \in Workers
         THEN [phone EXCEPT !.at = phone.got, !.pc = "away", !.got = "none", !.saw = 0]
         ELSE IF phone.got = "none" THEN [phone EXCEPT !.pc = "away"]
         ELSE [phone EXCEPT !.pc = "in", !.live = Holds(phone.at),
                            !.board = IF phone.saw > 0 THEN phone.saw ELSE @]
    /\ UNCHANGED <<cloudVars, row, held, sids, store, sock, pi, frame, beat>>

Leave ==
    /\ phone.pc = "in" /\ Event
    /\ phone' = [phone EXCEPT !.pc = "away", !.got = "none", !.saw = 0]
    /\ UNCHANGED <<active, row, held, sids, store, sock, pi, frame, beat>>

(***************************************************************************)
(* The control plane and what goes wrong                                   *)
(***************************************************************************)

\* The worker has it, or has just been told it may.
InHand(w) == Holds(w) \/ \E s \in Sockets : sock[s].w = w /\ sock[s].pc = "swap"

\* move: the row names the target at once, and forgets where a move before this
\* one came from; the old worker learns from its beat.
Move(w) ==
    /\ row.live /\ row.at # w /\ Event
    /\ Overtaking \/ \A s \in Sockets : sock[s].w # w
    /\ MovesAgain \/ \A v \in Workers : v = row.from => ~InHand(v)
    /\ row' = [row EXCEPT !.at = w, !.from = row.at, !.age = "grace"]
    /\ UNCHANGED <<active, held, sids, store, sock, pi, frame, beat, phone>>

\* MOVE_GRACE_SECS, then MOVE_NOTICE_SECS, are three beats of the old worker or
\* more: while it answers it has let the meet go before they pass.
MoveAges ==
    /\ row.age \in {"grace", "notice"}
    /\ LongOutages \/ ~InHand(row.from)
    /\ row' = [row EXCEPT !.age = IF @ = "grace" THEN "notice" ELSE "old"]
    /\ UNCHANGED <<cloudVars, held, sids, store, sock, pi, frame, beat, phone>>

\* retire_silent: nobody has vouched for it in SILENT_AFTER_SECS.
RetireSilent ==
    /\ row.live
    /\ \/ \A w \in Workers : w \in {row.at, row.from} => ~InHand(w)
       \/ LongOutages
    /\ row' = [row EXCEPT !.live = FALSE]
    /\ UNCHANGED <<cloudVars, held, sids, store, sock, pi, frame, beat, phone>>

\* sweep_expired, and the admin's delete: never a live meet.
Sweep ==
    /\ row.at # None /\ ~row.live
    /\ row' = NoRow
    /\ UNCHANGED <<cloudVars, held, sids, store, sock, pi, frame, beat, phone>>

Revoke ==
    /\ active /\ Event
    /\ active' = FALSE
    /\ UNCHANGED <<row, held, sids, store, sock, pi, frame, beat, phone>>

\* A worker restarts: its memory and its sockets go; the node's store stays.
Restart(w) ==
    LET mine == {s \in Sockets : sock[s].w = w} IN
    /\ mine # {} /\ Event
    /\ held' = [held EXCEPT ![w] = Nobody]
    /\ sids' = sids \ mine
    /\ sock' = [s \in Sockets |-> IF s \in mine THEN Free ELSE sock[s]]
    /\ pi' = IF pi.sock \in mine THEN [pi EXCEPT !.sock = None] ELSE pi
    /\ beat' = [beat EXCEPT ![w] = Idle]
    /\ phone' = IF phone.at = w
                THEN [phone EXCEPT !.pc = "away", !.got = "none", !.saw = 0] ELSE phone
    /\ UNCHANGED <<active, row, store, frame>>

Next ==
    \/ \E w \in Workers : Ask(w) \/ Move(w) \/ Restart(w) \/ Beat(w)
    \/ \E s \in Sockets : Connect(s) \/ Handler(s) \/ RefuseTicket(s)
    \/ ShowFrame \/ Reregister \/ Drop
    \/ Join \/ Joined \/ Leave
    \/ MoveAges \/ RetireSilent \/ Sweep \/ Revoke

Spec == Init /\ [][Next]_vars

(***************************************************************************)
(* Properties                                                              *)
(***************************************************************************)
\* The worker of an open socket whose handler is back at receive, with nothing
\* of this meet in progress on it.
Settled(w) ==
    /\ Holds(w) /\ sock[held[w].sock].open /\ sock[held[w].sock].pc = "recv"
    /\ \A s \in Sockets : s # held[w].sock => sock[s].w # w

\* A registration the control plane answered keeps the meet's card live, on the
\* worker that holds it or moved from it, for as long as the worker holds it
\* (cloud_registry.register, retire, heartbeat, retire_silent).
RowNamesHolder ==
    \A w \in Workers :
        Settled(w) /\ sock[held[w].sock].by = "control"
            => row.live /\ w \in {row.at, row.from}

\* An attendee in a worker's channel is shown as live exactly what the worker
\* holds, and one whose lookup found this registration has its last frame
\* (ws_scoreboard's join against register, _forward and disconnect).
Quiet(w) == \A s \in Sockets : sock[s].w = w => sock[s].pc = "recv" /\ sock[s].open
AttendeeSeesHolder ==
    \A w \in Workers :
        InChannel(w) /\ Quiet(w) =>
            /\ phone.live = Holds(w)
            /\ phone.got = held[w].sock /\ held[w].board > 0 => phone.board = held[w].board

\* The record of a meet a worker holds says it is live, so the node's other
\* workers send a visitor on (cloud_meetstore.save, store_offline).
StoreSaysLive ==
    \A w \in Workers :
        Settled(w) /\ row.live /\ row.at = w => store[NodeOf[w]] = "live"
=============================================================================
