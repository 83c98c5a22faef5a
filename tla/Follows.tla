-------------------------------- MODULE Follows --------------------------------
(***************************************************************************)
(* Follow a swimmer (src/cloud/cloud_follows.py): one phone's follow at one *)
(* meet, the worker that watches the meet's console through the frames it  *)
(* relays, the two notifications a followed heat is sent, and the move of  *)
(* the meet, with its follows, to another node.                            *)
(*                                                                         *)
(* Rows of the store are keyed by meet and device token, so one of each is *)
(* enough.  A notification is worked out by a coroutine of the worker that *)
(* awaits the store twice and the platform once: the relay socket's own    *)
(* (`observe`) and the loop's (`run`) are two of them.                     *)
(***************************************************************************)
EXTENDS Integers, Sequences, FiniteSetsExt

CONSTANTS
    Lists,       \* the start lists the Pi may send, the first one first
    Ids,         \* the heats the console can show, those in no list included
    Leads,       \* what the phone may ask for: [by, n, selected]
    Holds,       \* whether the console's changes are held: a CTS's are
    MaxNow,      \* bound: minutes
    MaxNamed,   \* bound: frames that name a heat
    MaxCrashes,  \* bound: restarts of the worker, Pi reconnections, sockets lost
    MaxPuts,     \* bound: registrations of the phone
    Overlaps,    \* BOOLEAN: an evaluation may begin while another, or a move, is under way
    ReadsSlowly, \* BOOLEAN: a heat may settle while the loop re-reads who is followed
    Unheard,     \* BOOLEAN: the phone may register at another worker of the node
    HandOverFails, \* BOOLEAN: the other node may not answer
    StaleBase,   \* BOOLEAN: the phone may register at the node the meet has left
    SweepsEarly  \* BOOLEAN: the new node may sweep before the Pi has come

StartList == Seq([id : Ids, mine : BOOLEAN, at : Nat, swim : Nat])

ASSUME FollowsAssumption ==
    /\ Lists \in Seq(StartList) /\ Lists # <<>>
    /\ \A r \in Leads : r.by \in {"heats", "minutes"} /\ r.n \in Nat /\ r.selected \in BOOLEAN
    /\ {MaxNow, MaxNamed, MaxCrashes, MaxPuts} \subseteq Nat
    /\ Holds \subseteq BOOLEAN
    /\ {Overlaps, ReadsSlowly, Unheard, HandOverFails, StaleBase, SweepsEarly} \subseteq BOOLEAN

VARIABLES
    now,      \* minutes
    store,    \* store[n]: node n's row of the phone at the meet, and what it fired
    live,     \* BOOLEAN: the Pi is connected
    list,     \* the start list the meet has
    hold,     \* BOOLEAN: a change counts once held (hold_for)
    watch,    \* the carrying worker's MeetWatch
    followed, \* BOOLEAN: the carrying worker's _followed has the meet
    task,     \* task[t]: an evaluation, where it stands
    move,     \* the move to the other node
    phone,    \* what the phone was answered: its row, or NoRow
    told,     \* what was sent since the phone registered, how often
    owed,     \* heats selected since, whose notification has not been sent
    starved,  \* BOOLEAN: the loop's last turn ended before the meets after this one
    used      \* what the bounds count

followVars == <<now, store, live, list, hold, watch, followed, task, move, phone, told, owed, starved, used>>

Nodes == {"n1", "n2"}
Tasks == {"relay", "loop"}
Kinds == {"upcoming", "selected"}
Notes == Ids \X Kinds

NoRow == [by |-> "none", n |-> 0, selected |-> FALSE]
NoHeat == 0
NewWatch == [list |-> list, current |-> NoHeat, pending |-> NoHeat, held |-> FALSE,
             startedAt |-> [i \in {} |-> 0]]
Idle == [pc |-> "idle", sel |-> NoHeat, row |-> NoRow, fired |-> {}, notes |-> {}, est |-> FALSE]
Untold == [n \in Notes |-> 0]

\* The node whose worker carries the meet.
At == IF move.pc = "done" THEN "n2" ELSE "n1"

Still == Overlaps \/ (move.pc \in {"no", "closed", "done"} /\ \A t \in Tasks : task[t].pc = "idle")

-----------------------------------------------------------------------------
(* The watch: MeetWatch.                                                    *)

Heats(w) == Lists[w.list]
IndexOf(w, id) == {i \in DOMAIN Heats(w) : Heats(w)[i].id = id}

\* watch_for: the heats built anew from a start list that is another one; what
\* is known of the console stays.
Loaded(w) == [w EXCEPT !.list = list]

\* The heat current is the n-th: past the end of a shorter list, IndexError.
Lost(w) == w.current > Len(Heats(w))

\* frame: the heat the console names, pending until its hold is over.
Named(w, id) ==
    IF w.current # NoHeat /\ Heats(w)[w.current].id = id THEN [w EXCEPT !.pending = NoHeat]
    ELSE IF w.pending = id THEN w
    ELSE [w EXCEPT !.pending = id, !.held = FALSE]

\* ... and a lane that runs starts the current heat.
Begun(w, runs) ==
    IF runs /\ w.current # NoHeat /\ w.current \notin DOMAIN w.startedAt
    THEN [w EXCEPT !.startedAt = [i \in DOMAIN @ \cup {w.current} |->
                                     IF i = w.current THEN now ELSE @[i]]]
    ELSE w

\* settle: the pending heat becomes the current one; the second part is the
\* heat a forward move reached, or NoHeat.
Settles(w) == w.pending # NoHeat /\ (~hold \/ w.held)

Settled(w) ==
    LET at == IndexOf(w, w.pending)
        i == CHOOSE k \in at : TRUE
    IN  IF at = {} THEN [w EXCEPT !.pending = NoHeat]
        ELSE [w EXCEPT !.pending = NoHeat, !.current = i]

Forward(w) ==
    LET at == IndexOf(w, w.pending)
    IN  IF \E i \in at : w.current = NoHeat \/ i > w.current THEN w.pending ELSE NoHeat

\* changeover: the median of the gaps seen, clamped; the model lets it be any
\* value between the least and the greatest of them.
Changeovers(w) ==
    LET next(i) == {j \in DOMAIN Heats(w) : j > i /\ Heats(w)[j].swim # 0
                       /\ \A k \in i + 1 .. j - 1 : Heats(w)[k].swim = 0}
        end(i) == w.startedAt[i] + Heats(w)[i].swim
        swum == {p \in (DOMAIN w.startedAt) \X (DOMAIN w.startedAt) :
                    /\ p[2] \in next(p[1]) /\ Heats(w)[p[1]].swim # 0
                    /\ w.startedAt[p[2]] >= end(p[1])}
        gaps == {w.startedAt[p[2]] - end(p[1]) : p \in swum}
    IN  IF gaps = {} THEN {1}
        ELSE {g \in 0..3 : (\E a \in gaps : a <= g) /\ (\E b \in gaps : g <= b \/ g = 3)}

\* heats_ahead: heats with swimmers from the current one to the i-th.
Ahead(w, i) == Cardinality({k \in w.current + 1 .. i : Heats(w)[k].swim # 0})


\* eta: the schedule moved by the meet's lateness, else the swims in between;
\* negative when it cannot be said.  A heat not started yet counts from now:
\* it was selected no later.
Base(w) ==
    IF w.current \in DOMAIN w.startedAt THEN w.startedAt[w.current] ELSE now

Eta(w, i, change) ==
    LET h == Heats(w)[i]
        swims(k) == IF Heats(w)[k].swim = 0 THEN 0 ELSE Heats(w)[k].swim + change
        total == Base(w) + MapThenSumSet(swims, w.current .. i - 1)
    IN  IF w.current = NoHeat THEN h.at - 1
        ELSE IF h.at # 0 /\ Heats(w)[w.current].at # 0
             THEN h.at - 1 + Base(w) - (Heats(w)[w.current].at - 1)
             ELSE IF total < now THEN now ELSE total

\* _when: inside the phone's lead now, a heat the console has not reached.
InLead(w, row, i, change) ==
    /\ i > w.current
    /\ IF row.by = "heats" THEN w.current # NoHeat /\ Ahead(w, i) <= row.n
       ELSE Eta(w, i, change) >= 0 /\ Eta(w, i, change) - now <= row.n

\* Mutant: the heats the console has reached passed over first.
DueAhead(w, row, sel, change) ==
    {n \in Notes : \E i \in DOMAIN Heats(w) :
        /\ Heats(w)[i].mine /\ Heats(w)[i].id = n[1] /\ InLead(w, row, i, change)
        /\ n[2] = IF n[1] = sel THEN "selected" ELSE "upcoming"}

\* due: what to send of the heats the phone follows, sel just selected.
DueNotes(w, row, sel, change) ==
    {n \in Notes : \E i \in DOMAIN Heats(w) :
        /\ Heats(w)[i].mine /\ Heats(w)[i].id = n[1]
        /\ IF n[1] = sel THEN n[2] = "selected" /\ row.selected
           ELSE n[2] = "upcoming" /\ InLead(w, row, i, change)}

-----------------------------------------------------------------------------
(* An evaluation.                                                           *)

Loop(pc) == task["loop"].pc = pc

Free(t) == task[t].pc = "idle" /\ Still

\* evaluate: nothing for a meet nobody is known to follow.
Evaluating(sel) ==
    IF followed THEN [Idle EXCEPT !.pc = "reading", !.sel = sel] ELSE Idle

Owing(sel) ==
    IF sel # NoHeat /\ phone.selected /\ <<sel, "selected">> \notin store[At].fired
       /\ \E i \in IndexOf(watch', sel) : Lists[watch'.list][i].mine
    THEN owed \cup {sel} ELSE owed

\* for_meet, in a thread of its own.
Reads(t) ==
    /\ task[t].pc = "reading"
    /\ task' = [task EXCEPT ![t].pc = "due", ![t].row = store[At].row,
                            ![t].fired = store[At].fired]
    /\ UNCHANGED <<now, store, live, list, hold, watch, followed, move, phone, told, owed, starved, used>>

\* due raises when the current heat is past the end of the list, for an estimate
\* by minutes: the loop leaves its turn there.
Raises(t) == Lost(watch) /\ task[t].row.by = "minutes"

Decides(t) ==
    /\ task[t].pc = "due"
    /\ \E change \in Changeovers(watch) :
          LET notes == IF task[t].row = NoRow \/ Raises(t) THEN {}
                       ELSE DueNotes(watch, task[t].row, task[t].sel, change) \ task[t].fired
          IN  task' = [task EXCEPT ![t] = IF notes = {} THEN Idle
                                          ELSE [@ EXCEPT !.pc = "marking", !.notes = notes]]
    /\ starved' = IF t = "loop" THEN Raises(t) ELSE starved
    /\ UNCHANGED <<now, store, live, list, hold, watch, followed, move, phone, told, owed, used>>

\* mark_fired: recorded as sent before anything is.
Marks(t) ==
    /\ task[t].pc = "marking"
    /\ store' = [store EXCEPT ![At].fired = @ \cup task[t].notes]
    /\ owed' = owed \ {n[1] : n \in {k \in task[t].notes : k[2] = "selected"}}
    /\ task' = [task EXCEPT ![t].pc = "sending"]
    /\ UNCHANGED <<now, live, list, hold, watch, followed, move, phone, told, starved, used>>

\* send, and drop_token once the platform says the token is dead.
Sends(t) ==
    /\ task[t].pc = "sending"
    /\ told' = [n \in Notes |-> IF n \in task[t].notes THEN told[n] + 1 ELSE told[n]]
    /\ task' = [task EXCEPT ![t] = Idle]
    /\ UNCHANGED <<now, store, live, list, hold, watch, followed, move, phone, owed, starved, used>>

TokenGone(t) ==
    /\ task[t].pc = "sending"
    /\ store' = [store EXCEPT ![At].row = NoRow, ![At].fired = {}]
    /\ phone' = NoRow /\ told' = Untold /\ owed' = {}
    /\ task' = [task EXCEPT ![t] = Idle]
    /\ UNCHANGED <<now, live, list, hold, watch, followed, move, starved, used>>

-----------------------------------------------------------------------------
(* The relay's frames.                                                      *)

\* observe: a frame that names the heat, and may say that a lane runs.
Frame(id, runs) ==
    /\ live /\ (Free("relay") \/ (ReadsSlowly /\ Loop("refresh") /\ task["relay"].pc = "idle"))
    /\ used.frames < MaxNamed /\ (runs => watch.current # NoHeat)
    /\ used' = [used EXCEPT !.frames = @ + 1]
    /\ LET w == Loaded(watch)
           n == Begun(Named(w, id), runs)
       IN  IF Lost(w)
           THEN /\ watch' = w /\ live' = FALSE
                /\ UNCHANGED <<task, owed>>
           ELSE /\ watch' = IF Settles(n) THEN Settled(n) ELSE n
                /\ LET sel == IF Settles(n) THEN Forward(n) ELSE NoHeat
                   IN  /\ task' = [task EXCEPT !["relay"] =
                                       IF sel = NoHeat THEN Idle ELSE Evaluating(sel)]
                       /\ owed' = Owing(sel)
                /\ UNCHANGED live
    /\ UNCHANGED <<now, store, list, hold, followed, move, phone, told, starved>>

\* schedule_snapshot: the start list again, or a re-export of it.
NewList(l) ==
    /\ live /\ task["relay"].pc = "idle" /\ l \in DOMAIN Lists /\ l > list
    /\ list' = l
    /\ UNCHANGED <<now, store, live, hold, watch, followed, task, move, phone, told, owed, starved, used>>

-----------------------------------------------------------------------------
(* The loop of the worker: run.                                             *)

\* Every ESTIMATE_EVERY turns: _followed cleared, then read from the store.
Turns(est) ==
    /\ live /\ Free("loop")
    /\ followed' = IF est THEN FALSE ELSE followed
    /\ task' = [task EXCEPT !["loop"] = [Idle EXCEPT !.pc = IF est THEN "refresh" ELSE "scan",
                                                     !.est = est]]
    /\ UNCHANGED <<now, store, live, list, hold, watch, move, phone, told, owed, starved, used>>

Refreshes ==
    /\ Loop("refresh")
    /\ followed' = (store[At].row # NoRow)
    /\ task' = [task EXCEPT !["loop"].pc = "scan"]
    /\ UNCHANGED <<now, store, live, list, hold, watch, move, phone, told, owed, starved, used>>

\* Mutant: the meet evaluated when a heat settles, and then only.
ScansSelected ==
    /\ Loop("scan")
    /\ LET w == Loaded(watch)
           sel == IF Settles(w) THEN Forward(w) ELSE NoHeat
       IN  /\ watch' = IF Settles(w) THEN Settled(w) ELSE w
           /\ task' = [task EXCEPT !["loop"] = IF sel # NoHeat THEN Evaluating(sel) ELSE Idle]
           /\ owed' = Owing(sel)
    /\ UNCHANGED <<now, store, live, list, hold, followed, move, phone, told, starved, used>>

\* ... then the meet looked at: a held change settled, the estimates read.
Scans ==
    /\ Loop("scan")
    /\ LET w == Loaded(watch)
           sel == IF Settles(w) THEN Forward(w) ELSE NoHeat
           est == task["loop"].est
       IN  /\ watch' = IF Settles(w) THEN Settled(w) ELSE w
           /\ task' = [task EXCEPT !["loop"] =
                           IF sel # NoHeat \/ est THEN Evaluating(sel) ELSE Idle]
           /\ owed' = Owing(sel)
    /\ UNCHANGED <<now, store, live, list, hold, followed, move, phone, told, starved, used>>

\* CTS_HOLD_SECS after the change.
HoldEnds ==
    /\ hold /\ watch.pending # NoHeat /\ ~watch.held
    /\ watch' = [watch EXCEPT !.held = TRUE]
    /\ UNCHANGED <<now, store, live, list, hold, followed, task, move, phone, told, owed, starved, used>>

Minute ==
    /\ now < MaxNow
    /\ now' = now + 1
    /\ UNCHANGED <<store, live, list, hold, watch, followed, task, move, phone, told, owed, starved, used>>

-----------------------------------------------------------------------------
(* The phone.                                                               *)

\* The nodes the phone may be sent to: the meet's, the old one until it lets go.
Homes == IF move.pc \notin {"closed", "done"} THEN {"n1"}
         ELSE IF StaleBase THEN {"n1", "n2"} ELSE {"n2"}

\* Mutant: a registration without swimmers stored as any other.
PutNever(row, n) ==
    /\ used.puts < MaxPuts /\ row # phone /\ Still
    /\ used' = [used EXCEPT !.puts = @ + 1]
    /\ store' = IF row = NoRow THEN store ELSE [store EXCEPT ![n].row = row]
    /\ phone' = row /\ followed' = TRUE
    /\ UNCHANGED <<now, live, list, hold, watch, task, move, told, owed, starved>>

\* put: the row replaced, what was fired kept; no swimmers deletes both.
Put(row, n) ==
    /\ used.puts < MaxPuts /\ row # phone /\ Still
    /\ used' = [used EXCEPT !.puts = @ + 1]
    /\ store' = [store EXCEPT ![n].row = row, ![n].fired = IF row = NoRow THEN {} ELSE @]
    /\ phone' = row
    /\ told' = IF row = NoRow THEN Untold ELSE told
    /\ owed' = IF row = NoRow \/ ~row.selected THEN {} ELSE owed
    /\ followed' \in IF row = NoRow \/ n # At THEN {followed}
                     ELSE IF Unheard /\ ~live THEN {TRUE, followed} ELSE {TRUE}
    /\ UNCHANGED <<now, live, list, hold, watch, task, move, starved>>

-----------------------------------------------------------------------------
(* The Pi leaves and comes back; the worker restarts; the meet moves.       *)

Hiccup ==
    /\ live /\ move.pc \in {"no", "done"} /\ used.crashes < MaxCrashes
    /\ used' = [used EXCEPT !.crashes = @ + 1]
    /\ live' = FALSE

\* The socket is lost: the watch stays, and the loop's evaluation goes on.
Disconnects ==
    /\ Hiccup /\ task["relay"].pc = "idle"
    /\ UNCHANGED <<now, store, list, hold, watch, followed, task, move, phone, told, owed, starved>>

\* The worker restarts: what it held in memory is gone, the first turn of its
\* loop reads who is followed.
Restarts ==
    /\ Hiccup
    /\ watch' = NewWatch /\ followed' = (store[At].row # NoRow) /\ owed' = {}
    /\ task' = [t \in Tasks |-> Idle]
    /\ UNCHANGED <<now, store, list, hold, move, phone, told, starved>>

Connects ==
    /\ ~live /\ move.pc \in {"no", "closed", "done"}
    /\ live' = TRUE
    /\ IF move.pc = "closed"
       THEN /\ \A t \in Tasks : task[t].pc = "idle"
            /\ move' = [move EXCEPT !.pc = "done"]
            /\ watch' = NewWatch /\ followed' = (store["n2"].row # NoRow) /\ owed' = {}
       ELSE UNCHANGED <<move, watch, followed, owed>>
    /\ UNCHANGED <<now, store, list, hold, task, phone, told, starved, used>>

\* _on_moves: the watch forgotten, the follows carried over, the Pi sent away.
MoveBegins ==
    /\ live /\ move.pc = "no" /\ Still
    /\ move' = [pc |-> "export", row |-> NoRow, fired |-> {}]
    /\ watch' = NewWatch
    /\ UNCHANGED <<now, store, live, list, hold, followed, task, phone, told, owed, starved, used>>

\* Mutant: the follows carried over without what was fired.
ExportsRows ==
    /\ move.pc = "export"
    /\ move' = [pc |-> IF store["n1"].row = NoRow THEN "close" ELSE "import",
                row |-> store["n1"].row, fired |-> {}]
    /\ UNCHANGED <<now, store, live, list, hold, watch, followed, task, phone, told, owed, starved, used>>

\* _hand_over_follows: export_meet ...
Exports ==
    /\ move.pc = "export"
    /\ move' = [pc |-> IF store["n1"].row = NoRow THEN "close" ELSE "import",
                row |-> store["n1"].row, fired |-> store["n1"].fired]
    /\ UNCHANGED <<now, store, live, list, hold, watch, followed, task, phone, told, owed, starved, used>>

\* ... import_meet at the other node, whose answer may not come ...
Imports(answered, stored) ==
    /\ move.pc = "import" /\ (HandOverFails \/ answered) /\ (answered => stored)
    /\ move' = [move EXCEPT !.pc = IF answered THEN "drop" ELSE "close"]
    /\ store' = IF stored THEN [store EXCEPT !["n2"].row = move.row,
                                             !["n2"].fired = @ \cup move.fired] ELSE store
    /\ UNCHANGED <<now, live, list, hold, watch, followed, task, phone, told, owed, starved, used>>

\* ... drop_meet once it has ...
Drops ==
    /\ move.pc = "drop"
    /\ move' = [move EXCEPT !.pc = "close"]
    /\ store' = [store EXCEPT !["n1"] = [row |-> NoRow, fired |-> {}]]
    /\ UNCHANGED <<now, live, list, hold, watch, followed, task, phone, told, owed, starved, used>>

\* ... and the Pi's socket closed.
Closes ==
    /\ move.pc = "close" /\ task["relay"].pc = "idle"
    /\ move' = [pc |-> "closed", row |-> NoRow, fired |-> {}]
    /\ live' = FALSE
    /\ UNCHANGED <<now, store, list, hold, watch, followed, task, phone, told, owed, starved, used>>

\* keep_only: the follows of a meet the node has not, or has no more.
Sweeps(n) ==
    /\ \/ n = "n1" /\ move.pc = "done"
       \/ n = "n2" /\ SweepsEarly /\ move.pc \in {"drop", "close", "closed"}
    /\ store' = [store EXCEPT ![n] = [row |-> NoRow, fired |-> {}]]
    /\ UNCHANGED <<now, live, list, hold, watch, followed, task, move, phone, told, owed, starved, used>>

-----------------------------------------------------------------------------
FollowInit ==
    /\ now = 0 /\ hold \in Holds /\ live = TRUE /\ list = 1
    /\ store = [n \in Nodes |-> [row |-> NoRow, fired |-> {}]]
    /\ watch = NewWatch /\ followed = FALSE
    /\ task = [t \in Tasks |-> Idle]
    /\ move = [pc |-> "no", row |-> NoRow, fired |-> {}]
    /\ phone = NoRow /\ told = Untold /\ owed = {} /\ starved = FALSE
    /\ used = [frames |-> 0, crashes |-> 0, puts |-> 0]

Evaluates(t) == Reads(t) \/ Decides(t) \/ Marks(t) \/ Sends(t)

Moving ==
    \/ Exports \/ Drops \/ Closes
    \/ \E answered, stored \in BOOLEAN : Imports(answered, stored)

FollowNext ==
    \/ \E t \in Tasks : Evaluates(t) \/ TokenGone(t)
    \/ \E id \in Ids, runs \in BOOLEAN : Frame(id, runs)
    \/ \E l \in DOMAIN Lists : NewList(l)
    \/ \E est \in BOOLEAN : Turns(est)
    \/ Refreshes \/ Scans \/ HoldEnds \/ Minute
    \/ \E row \in Leads \cup {NoRow}, n \in Nodes : n \in Homes /\ Put(row, n)
    \/ Disconnects \/ Restarts \/ Connects
    \/ MoveBegins \/ Moving
    \/ \E n \in Nodes : Sweeps(n)

\* The loop turns every second, one turn in ESTIMATE_EVERY estimates; the
\* store and the platform answer.
Fairness ==
    /\ SF_followVars(Turns(TRUE)) /\ WF_followVars(Refreshes) /\ WF_followVars(Scans)
    /\ \A t \in Tasks : WF_followVars(Evaluates(t))
    /\ WF_followVars(Moving)

FollowSpec == FollowInit /\ [][FollowNext]_followVars /\ Fairness

-----------------------------------------------------------------------------
(* Properties.                                                              *)

FollowTypeOK ==
    /\ now \in 0..MaxNow /\ hold \in BOOLEAN /\ live \in BOOLEAN /\ list \in DOMAIN Lists
    /\ \A n \in Nodes : store[n].row \in Leads \cup {NoRow} /\ store[n].fired \subseteq Notes
    /\ watch.list \in DOMAIN Lists /\ watch.current \in Nat /\ watch.pending \in Ids \cup {NoHeat}
    /\ \A t \in Tasks : /\ task[t].pc \in {"idle", "refresh", "scan", "reading", "due", "marking", "sending"}
                        /\ task[t].notes \subseteq Notes
    /\ phone \in Leads \cup {NoRow} /\ owed \subseteq Ids

\* At most one notification per device, heat and kind while the phone follows
\* (docs/api.md, 5.13): however often it registers again, the console steps
\* back and forth, the worker restarts or the meet moves (mark_fired before
\* send, what was fired carried over).
AtMostOnce == \A n \in Notes : told[n] <= 1

\* A registration answered 204 is kept by the node that has the meet, and what
\* the phone withdrew is not (put, import_meet, keep_only).
FollowKept ==
    /\ move.pc \in {"no", "closed", "done"} => store[IF move.pc = "closed" THEN "n2" ELSE At].row = phone
    /\ move.pc = "done" \/ move.pc = "no" => store["n1"].row = phone \/ store["n1"].row = NoRow

\* A heat the console moves forward onto is notified to the phone that follows
\* it and asked for it (settle, evaluate): never settled and forgotten.
SelectedTold == owed # {} => \E t \in Tasks : task[t].sel \in owed

\* A heat that settles on the board is told to the phones that follow it, once
\* (docs/api.md:839).
ToldOnce == AtMostOnce /\ SelectedTold

\* What the loop raises for one meet leaves the others theirs (run).
OthersServed == ~starved

\* Upcoming heats within the phone's lead, not yet told.
Near ==
    {i \in DOMAIN Heats(watch) :
        /\ live /\ phone # NoRow /\ Heats(watch)[i].mine /\ watch.list = list
        /\ \A change \in Changeovers(watch) : InLead(watch, phone, i, change)
        /\ <<Heats(watch)[i].id, "upcoming">> \notin store[At].fired}

\* ... are, unless the console moves on, the phone changes its mind or the
\* meet goes away first.
UpcomingTold == \A i \in 1..Len(Lists[1]) : i \in Near ~> i \notin Near
================================================================================
