-------------------------------- MODULE Wire --------------------------------
(***************************************************************************)
(* What a worker does in its turns (server/worker.py, routes/debug.py): it *)
(* opens the console's port, cuts the bytes into packets, runs the queued  *)
(* commands, records what it hears and plays a recording back.  Every step *)
(* is a step of WorkerLifecycle or leaves its state alone.                 *)
(*                                                                         *)
(* A byte is <<i, k>>, the k-th of the console's i-th packet.  The history *)
(* variables `heard` and `fed` are the bytes cut and the packets decoded   *)
(* since the port was opened or the recording started.                     *)
(***************************************************************************)
EXTENDS WorkerLifecycle, Sequences

CONSTANTS
    Setups,            \* a console (how it is wired, what marks its packets) and
                       \* what may happen to it in a run
    Size,              \* bytes of a packet
    MaxBytes,          \* max_packet_bytes
    Slow,              \* may the console pause 50 ms inside a packet?
    OwnPauses,         \* ... between packets, where the decoder frames them itself?
    EmptyTape          \* may a recording without a byte be played?

\* What a recording holds beside bytes.
Stamp == <<0, 1>>
Blank == <<0, 2>>

Bytes == (Nat \ {0}) \X (1..Size)
Consoles == [transport : {"serial", "tcp", "udp", "manual"},
             framing : {"header", "own", "none"}]
Plans == [callers : SUBSET Callers, sends : Nat, posts : Nat, fails : BOOLEAN,
          records : SUBSET {"serial", "raw"}, deletes : BOOLEAN,
          tape : Seq(Bytes \cup {Stamp, Blank})]

ASSUME SetupsAssumption ==
    /\ Size \in Nat \ {0} /\ MaxBytes \in Nat
    /\ Setups \subseteq [console : Consoles, plan : Plans]

VARIABLES
    console,   \* state._decoder, as far as the wire goes
    plan,      \* this run's bounds
    next,      \* the next byte the console sends
    line,      \* bytes that have arrived and are not read
    port,      \* can the port be opened and read?
    link,      \* has the worker opened it?
    chunk,     \* what one read returned, not yet cut
    buf,       \* the packet being put together
    own,       \* the decoder's own copy of it (_rmap_buf)
    ready,     \* ... and of the one before it (_pending)
    packet,    \* the packet _handle_packet was called with
    quiet,     \* has the line been silent since the last byte?
    busy,      \* has the turn done its work?
    cmds,      \* how many commands are queued
    posted,    \* how many ever were
    rec,       \* state._record_handle and _record_raw
    tape,      \* the recording's file
    film,      \* the text a replay has read
    pos,       \* where it is in it
    heard, fed

buffers == <<chunk, buf, own, ready, packet, quiet, heard, fed>>
recording == <<rec, tape>>
replay == <<film, pos>>
outside == <<console, plan, next, port, posted>>
wire == <<outside, line, link, buffers, busy, cmds, recording, replay>>
wvars == <<vars, wire>>

NoPacket == [bytes |-> <<>>, log |-> FALSE]

-----------------------------------------------------------------------------
(* Framing.                                                                *)

\* is_packet_start: the first byte of a packet, where the decoder knows it.  One
\* that frames packets itself answers whether it has one.
Starts(c) ==
    CASE console.framing = "header" -> c[2] = 1
      [] console.framing = "own"    -> c[2] = 1 /\ own # <<>>
      [] console.framing = "none"   -> FALSE

OwnCopy(c) ==
    IF console.framing # "own" THEN UNCHANGED <<own, ready>>
    ELSE IF c[2] = 1 THEN ready' = own /\ own' = <<c>>
    ELSE own' = Append(own, c) /\ UNCHANGED ready

\* The packet is looked at for the recording as _handle_packet is entered.
Packet(bytes) == [bytes |-> bytes, log |-> rec = "serial"]

\* Mutant: the byte that ends a packet is put into it.
IngestLate(c) ==
    /\ OwnCopy(c)
    /\ heard' = Append(heard, c)
    /\ IF (Starts(c) \/ Len(buf) >= MaxBytes) /\ buf # <<>>
       THEN packet' = Packet(Append(buf, c)) /\ buf' = <<>>
       ELSE packet' = packet /\ buf' = Append(buf, c)

\* _ingest_byte.
Ingest(c) ==
    /\ OwnCopy(c)
    /\ heard' = Append(heard, c)
    /\ IF Starts(c) \/ Len(buf) >= MaxBytes
       THEN /\ packet' = IF buf # <<>> THEN Packet(buf) ELSE packet
            /\ buf' = <<c>>
       ELSE packet' = packet /\ buf' = Append(buf, c)

\* What is left in the buffer is a packet.
Flush == packet' = Packet(buf) /\ buf' = <<>>

-----------------------------------------------------------------------------
(* The console, the port, the people.                                      *)

WireInit ==
    /\ Init
    /\ \E s \in Setups : console = s.console /\ plan = s.plan
    /\ next = <<1, 1>> /\ line = <<>> /\ port = "up" /\ link = "shut"
    /\ chunk = <<>> /\ buf = <<>> /\ own = <<>> /\ ready = <<>>
    /\ packet = NoPacket /\ quiet = FALSE /\ busy = FALSE
    /\ cmds = 0 /\ posted = 0
    /\ rec = "off" /\ tape = plan.tape /\ film = <<>> /\ pos = 1
    /\ heard = <<>> /\ fed = <<>>

\* The byte after b.
After(b) == IF b[2] = Size THEN <<b[1] + 1, 1>> ELSE <<b[1], b[2] + 1>>

\* A byte, or a datagram: lost where nobody listens.
Send ==
    /\ console.transport # "manual" /\ next[1] <= plan.sends
    /\ next' = IF console.transport = "udp" THEN <<next[1] + 1, 1>> ELSE After(next)
    /\ line' = IF link = "open" /\ port = "up"
               THEN line \o IF console.transport = "udp"
                            THEN [k \in 1..Size |-> <<next[1], k>>] ELSE <<next>>
               ELSE line
    /\ UNCHANGED <<vars, console, plan, port, posted, link, buffers, busy, cmds,
                   recording, replay>>

\* A cable, a closed connection, another address of the wired port.
PortFails ==
    /\ port = "up" /\ plan.fails
    /\ port' = "down" /\ plan' = [plan EXCEPT !.fails = FALSE]
    /\ UNCHANGED <<vars, console, next, posted, line, link, buffers, busy, cmds,
                   recording, replay>>

\* What was open when it failed stays unreadable: it has to be opened again.
PortReturns ==
    /\ port = "down" /\ link = "shut" /\ port' = "up"
    /\ UNCHANGED <<vars, console, plan, next, posted, line, link, buffers, busy, cmds,
                   recording, replay>>

\* A page or a timer queues a command for the worker.
Post ==
    /\ posted < plan.posts
    /\ posted' = posted + 1 /\ cmds' = cmds + 1
    /\ UNCHANGED <<vars, console, plan, next, port, line, link, buffers, busy,
                   recording, replay>>

\* Bound: a recording is started while the console is read.
RecordStart ==
    /\ rec = "off" /\ link = "open"
    /\ rec' \in plan.records /\ tape' = <<>>
    /\ plan' = [plan EXCEPT !.records = {}]
    /\ UNCHANGED <<vars, console, next, port, posted, line, link, buffers, busy, cmds,
                   replay>>

\* _close_recording: the handle is forgotten, then closed.
RecordStop ==
    /\ rec # "off" /\ rec' = "off"
    /\ UNCHANGED <<vars, outside, line, link, buffers, busy, cmds, tape, replay>>

-----------------------------------------------------------------------------
(* The worker: reading the console.                                        *)

InTurn(w) == thread[w] = "turn" /\ ~busy /\ packet = NoPacket /\ chunk = <<>>
Live(w) == playing[w] = None
Wired == console.transport # "manual"

\* The port is opened, or waited for (five seconds, the queue left alone).
Open(w) ==
    /\ InTurn(w) /\ Live(w) /\ Wired /\ link = "shut"
    /\ busy' = TRUE
    /\ IF port = "up"
       THEN /\ link' = "open" /\ line' = <<>> /\ buf' = <<>> /\ quiet' = FALSE
            /\ heard' = <<>> /\ fed' = <<>>
       ELSE UNCHANGED <<link, line, buf, quiet, heard, fed>>
    /\ UNCHANGED <<vars, outside, chunk, own, ready, packet, cmds, recording, replay>>

LinkError(w) ==
    /\ InTurn(w) /\ Live(w) /\ link = "open" /\ port = "down"
    /\ link' = "shut" /\ busy' = TRUE
    /\ UNCHANGED <<vars, outside, line, buffers, cmds, recording, replay>>

\* One byte of a serial port, what has come over TCP, one datagram.
Read(w) ==
    /\ InTurn(w) /\ Live(w) /\ link = "open" /\ port = "up" /\ line # <<>>
    /\ \E n \in 1..Len(line) :
        /\ console.transport = "serial" => n = 1
        /\ console.transport = "udp" => n = Size
        /\ chunk' = SubSeq(line, 1, n)
        /\ line' = SubSeq(line, n + 1, Len(line))
    /\ quiet' = FALSE /\ busy' = TRUE
    /\ UNCHANGED <<vars, outside, link, buf, own, ready, packet, heard, fed, cmds,
                   recording, replay>>

\* A byte of the read: recorded raw as it came, and cut.  A datagram's end ends
\* its packet, and the recording says so with a blank line.
Cut(w) ==
    /\ thread[w] = "turn" /\ packet = NoPacket /\ chunk # <<>>
    /\ LET c == Head(chunk)
           ends == console.transport = "udp" /\ Len(chunk) = 1
       IN  /\ tape' = IF rec # "raw" THEN tape
                      ELSE tape \o <<c>> \o (IF ends THEN <<Blank>> ELSE <<>>)
           /\ IF ends
              THEN /\ OwnCopy(c) /\ heard' = Append(heard, c)
                   /\ packet' = Packet(Append(buf, c)) /\ buf' = <<>>
              ELSE Ingest(c)
    /\ chunk' = Tail(chunk)
    /\ UNCHANGED <<vars, outside, line, link, quiet, fed, busy, cmds, rec, replay>>

\* Can 50 ms go by here?  At the end of what it sends, they do.
MayPause ==
    /\ Slow \/ buf = <<>> \/ buf[Len(buf)][2] = Size
    /\ console.framing = "own" => OwnPauses \/ next[1] > plan.sends

\* _drain_cmds: all that is queued is run.
RunQueue == cmds' = 0

\* Nothing to read: a second idle turn stands for the 50 ms after which what is
\* there is a packet.
Silent(w) ==
    /\ InTurn(w) /\ Live(w) /\ link = "open" /\ port = "up" /\ line = <<>>
    /\ busy' = TRUE

\* Mutant: a partial packet waits for the next one.
IdleKeeping(w) ==
    /\ Silent(w) /\ RunQueue /\ quiet' = MayPause
    /\ UNCHANGED <<vars, outside, line, link, chunk, buf, own, ready, packet, heard, fed,
                   recording, replay>>

\* Then the commands, and the decoder's tick.
Idle(w) ==
    /\ Silent(w)
    /\ IF quiet /\ buf # <<>>
       THEN Flush /\ UNCHANGED <<cmds, quiet>>
       ELSE RunQueue /\ quiet' = MayPause /\ UNCHANGED <<packet, buf>>
    /\ UNCHANGED <<vars, outside, line, link, chunk, own, ready, heard, fed, recording,
                   replay>>

\* A manual console: the loop is there to run the queue.
IdleManual(w) ==
    /\ InTurn(w) /\ Live(w) /\ ~Wired
    /\ RunQueue /\ busy' = TRUE
    /\ UNCHANGED <<vars, outside, line, link, buffers, recording, replay>>

\* _handle_packet: the line of the recording, the commands, the decoder.
Handle(w) ==
    /\ thread[w] = "turn" /\ packet # NoPacket
    /\ packet.log => rec = "serial"
    /\ tape' = IF packet.log THEN tape \o <<Stamp>> \o packet.bytes ELSE tape
    /\ RunQueue
    /\ fed' = Append(fed, IF console.framing = "own" THEN ready ELSE packet.bytes)
    /\ ready' = <<>> /\ packet' = NoPacket
    /\ UNCHANGED <<vars, outside, line, link, chunk, buf, own, quiet, heard, busy, rec,
                   replay>>

\* The handle was taken away since it was looked at: the exception leaves
\* _handle_packet, which catches only what the decoder raises, and the worker with
\* what it held.
Dies(w) ==
    /\ Turn(w) /\ thread'[w] = "leaving"
    /\ packet # NoPacket /\ packet.log /\ rec # "serial"
    /\ chunk' = <<>> /\ buf' = <<>> /\ packet' = NoPacket /\ busy' = FALSE
    /\ heard' = <<>> /\ fed' = <<>>
    /\ UNCHANGED <<outside, line, link, own, ready, quiet, cmds, recording, replay>>

EndTurn(w) ==
    /\ Turn(w) /\ thread'[w] = "waiting"
    /\ busy /\ packet = NoPacket /\ chunk = <<>>
    /\ busy' = FALSE
    /\ UNCHANGED <<outside, line, link, buffers, cmds, recording, replay>>

-----------------------------------------------------------------------------
(* The worker: playing a recording.                                        *)

Timed == \E n \in DOMAIN film : film[n] = Stamp

\* A byte is cut, a blank line ends a packet, a timestamp ends one and is waited
\* for, the queue drained first when there is a wait.
Token(w) ==
    /\ InTurn(w) /\ ~Live(w) /\ pos <= Len(film)
    /\ LET t == film[pos]
       IN  IF t \in {Stamp, Blank}
           THEN /\ IF buf # <<>> THEN Flush ELSE UNCHANGED <<packet, buf>>
                /\ cmds' \in {cmds, IF t = Stamp /\ buf = <<>> THEN 0 ELSE cmds}
                /\ UNCHANGED <<heard, own, ready>>
           ELSE Ingest(t) /\ UNCHANGED cmds
    /\ pos' = pos + 1 /\ busy' = TRUE
    /\ UNCHANGED <<vars, outside, line, link, chunk, quiet, fed, recording, film>>

\* The last packet has no successor to end it.  Without timestamps it plays again.
LastPacket(w) ==
    /\ InTurn(w) /\ ~Live(w) /\ pos > Len(film) /\ buf # <<>>
    /\ Flush
    /\ UNCHANGED <<vars, outside, line, link, chunk, own, ready, quiet, heard, fed, busy,
                   cmds, recording, replay>>

Rewind(w) ==
    /\ InTurn(w) /\ ~Live(w) /\ pos > Len(film) /\ buf = <<>> /\ ~Timed
    /\ pos' = 1 /\ busy' = TRUE /\ heard' = <<>> /\ fed' = <<>>
    /\ UNCHANGED <<vars, outside, line, link, chunk, buf, own, ready, packet, quiet, cmds,
                   recording, film>>

PlayedOut(w) ==
    /\ Turn(w) /\ thread'[w] = "played"
    /\ InTurn(w) /\ ~Live(w) /\ pos > Len(film) /\ buf = <<>> /\ Timed
    /\ UNCHANGED wire

\* The recording is gone, or is no text.
Unreadable(w) ==
    /\ Turn(w) /\ thread'[w] = "leaving"
    /\ InTurn(w) /\ ~Live(w) /\ pos = 1 /\ plan.deletes
    /\ UNCHANGED wire

-----------------------------------------------------------------------------
(* The lifecycle's steps.                                                  *)

\* A fresh worker: the queue of the session before is dropped, its own port and
\* buffer are new, and it reads the recording as it is now.
StartReading(w) ==
    /\ Start(w)
    /\ cmds' = 0 /\ link' = "shut" /\ line' = <<>> /\ chunk' = <<>> /\ buf' = <<>>
    /\ packet' = NoPacket /\ quiet' = FALSE /\ busy' = FALSE
    /\ film' = IF test_session = None THEN <<>> ELSE tape
    /\ pos' = 1 /\ heard' = <<>> /\ fed' = <<>>
    /\ UNCHANGED <<outside, own, ready, recording>>

\* Bound: what is being recorded is not played.
AskRestart(r, s) ==
    /\ r \in plan.callers
    /\ s # None => rec = "off" /\ (EmptyTape \/ tape # <<>>)
    /\ RestartBegin(r, s) /\ UNCHANGED wire

WorkerTurn(w) ==
    \/ Open(w) \/ LinkError(w) \/ Read(w) \/ Cut(w) \/ Idle(w) \/ IdleManual(w)
    \/ Handle(w) \/ Dies(w) \/ EndTurn(w) \/ Token(w) \/ LastPacket(w) \/ Rewind(w) \/ PlayedOut(w)
    \/ Unreadable(w)

Elsewhere(w) == (Check(w) \/ Played(w) \/ EndSession(w) \/ Leave(w) \/ Close(w)) /\ UNCHANGED wire

WireStep(w) == WorkerTurn(w) \/ StartReading(w) \/ Elsewhere(w)

WireNext ==
    \/ \E w \in Threads : WireStep(w)
    \/ \E c \in Callers : CallerStep(c) /\ UNCHANGED wire
    \/ \E r \in Restarts, s \in Sessions \cup {None} : AskRestart(r, s)
    \/ \E c \in Sockets : c \in plan.callers /\ Connect(c) /\ UNCHANGED wire
    \/ Send \/ PortFails \/ PortReturns \/ Post \/ RecordStart \/ RecordStop

WireSpec == WireInit /\ [][WireNext]_wvars

\* Threads run, a console ends the packet it began, a port comes back.
FairWireSpec ==
    /\ WireSpec
    /\ \A w \in Threads : WF_wvars(WireStep(w))
    /\ \A c \in Callers : WF_wvars(CallerStep(c) /\ UNCHANGED wire)
    /\ WF_wvars(Send) /\ WF_wvars(PortReturns)

-----------------------------------------------------------------------------
(* Properties.                                                             *)


IsWhole(p) == Len(p) = Size /\ \A k \in 1..Size : p[k] = <<p[1][1], k>>

\* The packets heard from their first byte to their last.
WholePackets(bytes) ==
    {i \in {bytes[n][1] : n \in DOMAIN bytes} :
        \E n \in DOMAIN bytes :
            n + Size - 1 <= Len(bytes) /\ \A k \in 1..Size : bytes[n + k - 1] = <<i, k>>}

\* A packet heard whole is handed to the decoder whole, once and in its turn, or is
\* the one still being put together: from a port, a socket, datagrams or a
\* recording of them (_ingest_byte, _handle_packet, _play_recording).
PacketsAsSent ==
    LET given == {n \in DOMAIN fed : IsWhole(fed[n])}
        held == {buf, packet.bytes, own, ready}
    IN  /\ \A m, n \in given : m < n => fed[m][1][1] < fed[n][1][1]
        /\ \A i \in WholePackets(heard) :
            \/ \E n \in given : fed[n][1][1] = i
            \/ \E p \in held : IsWhole(p) /\ p[1][1] = i

\* No packet waits for the next one, and no command for a console that is silent:
\* while there is a worker, both are dealt with (the 50 ms of _run_live_serial, the
\* queue drained while idle).
NothingWaits ==
    LET deserted == \A w \in Threads : ~Current(w)
    IN  /\ (buf # <<>>) ~> (buf = <<>> \/ deserted)
        /\ (cmds # 0) ~> (cmds = 0 \/ deserted)

\* debug.py:340: the handle is "detached before closing, so the worker never writes
\* to a closed file": a worker that reads the console goes on reading it.
ReadsOn ==
    [][\A w \in Threads :
        thread[w] = "turn" /\ playing[w] = None => thread'[w] # "leaving"]_wvars
=============================================================================
