------------------------------- MODULE TestMeets -------------------------------
(***************************************************************************)
(* Test meets (src/cloud/cloud_testmeets.py): the fake Pis the control      *)
(* plane runs, one task each, started and stopped from the panel            *)
(* (src/cloud/cloud_control.py), and what the worker that carries one shows *)
(* of its heats.  How many run, and their options, are kept in the settings *)
(* so that they carry on after a restart; a start and a stop write them in  *)
(* transactions of their own, after the tasks were started or cancelled.    *)
(***************************************************************************)
EXTENDS Panel

CONSTANTS
    Meets,        \* the test meets, 1 to how many may run
    Options,      \* what they may be started with; 0 is what they start with at first
    HeatCount,    \* heats of a test meet
    TestPostsOverlap, \* BOOLEAN: a start or stop may come while another is under way
    LateRegisters \* BOOLEAN: a register sent may land once its meet was cancelled

ASSUME TestMeetsAssumption ==
    /\ Meets = 1 .. Cardinality(Meets) /\ Meets \subseteq Nat \ {0} /\ Options \subseteq Nat /\ HeatCount \in Nat \ {0}
    /\ {TestPostsOverlap, LateRegisters} \subseteq BOOLEAN

VARIABLES
    runner,  \* the Runner, once made, and its options
    task,    \* task[i]: meet i's task and where its pass stands
    flight,  \* the meets whose register is on its way to the control plane
    card,    \* card[i]: meet i in the registry
    page,    \* page[i]: the heats the meet's worker shows times of
    stopped  \* BOOLEAN: a Stop was answered, and no Start asked for since

testVars == <<runner, task, flight, card, page, stopped>>

Heats == 1 .. HeatCount
NoTask == [pc |-> "none", opts |-> 0, at |-> 0, results |-> {}]
Waiting == [NoTask EXCEPT !.pc = "waits"]
NoRunner == [made |-> FALSE, opts |-> 0]
NoTimes == [console |-> {}, official |-> {}]
Connected == {"starts", "cleared", "swims", "holds"}
TestPosts == {"start", "wanted", "options", "zero", "forget"}

Runs == {i \in Meets : task[i].pc # "none"}
StoredOptions == IF settings.options = NoRow THEN 0 ELSE settings.options

\* A cancelled task closes its socket; its register is lost with it, or not.
Cancelled(gone) == flight' = IF LateRegisters THEN flight ELSE flight \ gone

-----------------------------------------------------------------------------
(* The runner: Runner.start, Runner.stop.                                   *)

\* Mutant: a meet that runs goes on with its options.
StartKeeping(count, opts) ==
    /\ runner' = [made |-> TRUE, opts |-> opts]
    /\ task' = [i \in Meets |-> IF i > count THEN NoTask
                                ELSE IF task[i].pc = "none" THEN Waiting ELSE task[i]]
    /\ Cancelled({i \in Runs : i > count})

\* Meets 1 to count, those above it and, with new options, all of them cancelled.
StartMeets(count, opts) ==
    LET gone == {i \in Runs : i > count \/ opts # runner.opts}
    IN  /\ runner' = [made |-> TRUE, opts |-> opts]
        /\ task' = [i \in Meets |-> IF i > count THEN NoTask
                                    ELSE IF i \in Runs \ gone THEN task[i] ELSE Waiting]
        /\ Cancelled(gone)

StopMeets ==
    /\ task' = [i \in Meets |-> NoTask]
    /\ Cancelled(Runs)
    /\ UNCHANGED runner

-----------------------------------------------------------------------------
(* The panel's Start and Stop.                                              *)

TestPost(p) ==
    /\ post[p] = Idle /\ Clear /\ May("admin")
    /\ TestPostsOverlap \/ \A q \in Posts : post[q].kind \notin TestPosts
    /\ spent.posts < MaxPosts
    /\ spent' = [spent EXCEPT !.posts = @ + 1]

Goes(p, kind) == post' = [post EXCEPT ![p].kind = kind]

\* route_test_meets_start: the first one asks for the key and makes the runner.
Start(p, count, opts) ==
    /\ TestPost(p)
    /\ post' = [post EXCEPT ![p] = [Idle EXCEPT !.kind = "start", !.arg = [count |-> count, opts |-> opts]]]
    /\ stopped' = FALSE
    /\ UNCHANGED <<owner, users, orgs, settings, file, meant, answered, runner, task, flight, card, page>>

StartedMeets(p) ==
    /\ post[p].kind = "start"
    /\ StartMeets(post[p].arg.count, post[p].arg.opts)
    /\ Goes(p, "wanted")
    /\ UNCHANGED <<owner, users, orgs, settings, file, meant, answered, spent, card, page, stopped>>

\* One setting written; what was posted is what it is meant to be.
Put(field, value, posted) ==
    /\ Clear
    /\ settings' = [settings EXCEPT ![field] = value]
    /\ meant' = [meant EXCEPT !.settings[field] = posted]
    /\ UNCHANGED <<owner, users, orgs, file, answered, spent>> /\ UNCHANGED testVars

SetWanted(p) ==
    /\ post[p].kind = "wanted" /\ Put("wanted", post[p].arg.count, post[p].arg.count) /\ Goes(p, "options")

SetOptions(p) ==
    /\ post[p].kind = "options" /\ Put("options", runner.opts, post[p].arg.opts)
    /\ post' = [post EXCEPT ![p] = Idle]

\* route_test_meets_stop: the tasks, the count, then the cards.
Stop(p) ==
    /\ TestPost(p)
    /\ StopMeets
    /\ post' = [post EXCEPT ![p] = [Idle EXCEPT !.kind = "zero"]]
    /\ UNCHANGED <<owner, users, orgs, settings, file, meant, answered, card, page, stopped>>

SetNone(p) == post[p].kind = "zero" /\ Put("wanted", 0, 0) /\ Goes(p, "forget")

\* forget_test_meets: live or not.
ForgetCards == card' = [i \in Meets |-> "none"]

Forget(p) ==
    /\ post[p].kind = "forget" /\ ForgetCards
    /\ post' = [post EXCEPT ![p] = Idle]
    /\ stopped' = \A q \in Posts \ {p} : post[q].kind \notin TestPosts
    /\ UNCHANGED <<owner, users, orgs, settings, file, meant, answered, spent, runner, task, flight, page>>

\* The control plane starts again: what was in progress is lost, the test meets
\* left running are started once more (lifespan).
Restart ==
    /\ spent.restarts < MaxRestarts
    /\ spent' = [spent EXCEPT !.restarts = @ + 1]
    /\ post' = [p \in Posts |-> Idle]
    /\ task' = [i \in Meets |-> IF i <= settings.wanted THEN Waiting ELSE NoTask]
    /\ runner' = IF settings.wanted > 0 THEN [made |-> TRUE, opts |-> StoredOptions] ELSE NoRunner
    /\ Cancelled(Runs)
    /\ UNCHANGED <<owner, users, orgs, settings, file, meant, answered, card, page, stopped>>

-----------------------------------------------------------------------------
(* A meet: Runner._run, _session, _swim, and its worker.                    *)

Only == UNCHANGED panelVars /\ UNCHANGED <<runner, stopped>>

\* _session: a worker was assigned and the register sent, with the options.
Assigned(i) ==
    /\ task[i].pc = "waits" /\ i \notin flight
    /\ task' = [task EXCEPT ![i] = [NoTask EXCEPT !.pc = "registers", !.opts = runner.opts]]
    /\ flight' = flight \cup {i}
    /\ Only /\ UNCHANGED <<card, page>>

\* The worker reports it and has the meet, as its store kept it.
Registered(i) ==
    /\ i \in flight /\ flight' = flight \ {i}
    /\ card' = [card EXCEPT ![i] = "live"]
    /\ task' = [task EXCEPT ![i].pc = IF @ = "registers" THEN "starts" ELSE @]
    /\ Only /\ UNCHANGED page

\* _on_test_loop: the console's times go.
ClearsConsole(i) == page' = [page EXCEPT ![i].console = {}]

LoopStarts(i) ==
    /\ task[i].pc = "starts" /\ ClearsConsole(i)
    /\ task' = [task EXCEPT ![i].pc = "cleared"]
    /\ Only /\ UNCHANGED <<flight, card>>

\* The schedule without a result; the first heat.
PassStarts(i) ==
    /\ task[i].pc = "cleared"
    /\ page' = [page EXCEPT ![i].official = {}]
    /\ task' = [task EXCEPT ![i].pc = "swims", ![i].at = 1]
    /\ Only /\ UNCHANGED <<flight, card>>

\* heat_frames: the heat's results, which the worker keeps as console times.
Swum(i) ==
    /\ task[i].pc = "swims"
    /\ page' = [page EXCEPT ![i].console = @ \cup {task[i].at}]
    /\ task' = [task EXCEPT ![i].pc = "holds"]
    /\ Only /\ UNCHANGED <<flight, card>>

\* Mutant: the heat just swum too.
ValidatedAll(results, at, lag) == results \cup 1 .. at

\* validate: every swum heat but the last lag.
Validated(results, at, lag) == results \cup 1 .. (at - lag)

\* The next heat of the pass, or another pass.
NextHeat(t, r) ==
    IF t.at < HeatCount THEN [t EXCEPT !.pc = "swims", !.at = @ + 1, !.results = r]
    ELSE [NoTask EXCEPT !.pc = "starts", !.opts = t.opts]

\* The results held; Meet Manager one or two heats behind.
Held(i, lag) ==
    /\ task[i].pc = "holds"
    /\ LET r == Validated(task[i].results, task[i].at, lag)
       IN  /\ page' = [page EXCEPT ![i].official = IF r = task[i].results THEN @ ELSE r]
           /\ task' = [task EXCEPT ![i] = NextHeat(@, r)]
    /\ Only /\ UNCHANGED <<flight, card>>

\* The socket closes, or the worker refuses: assigned again after a backoff.
SessionEnds(i) ==
    /\ task[i].pc \in Connected \cup {"registers"}
    /\ task' = [task EXCEPT ![i] = Waiting]
    /\ Cancelled({i})
    /\ Only /\ UNCHANGED <<card, page>>

\* The worker notices that the socket is gone, and retires the meet.
Disconnected(i) ==
    /\ card[i] = "live" /\ task[i].pc \notin Connected
    /\ card' = [card EXCEPT ![i] = "kept"]
    /\ Only /\ UNCHANGED <<task, flight, page>>

\* A heartbeat's answer no longer names the meet: its node drops what it kept.
NodeForgets(i) ==
    /\ card[i] = "none" /\ task[i].pc \notin Connected /\ page[i] # NoTimes
    /\ page' = [page EXCEPT ![i] = NoTimes]
    /\ Only /\ UNCHANGED <<task, flight, card>>

TestInit ==
    /\ runner = NoRunner /\ task = [i \in Meets |-> NoTask] /\ flight = {}
    /\ card = [i \in Meets |-> "none"] /\ page = [i \in Meets |-> NoTimes]
    /\ stopped = FALSE

TestNext ==
    \/ \E p \in Posts :
          \/ \E count \in Meets, opts \in Options : Start(p, count, opts)
          \/ StartedMeets(p) \/ SetWanted(p) \/ SetOptions(p)
          \/ Stop(p) \/ SetNone(p) \/ Forget(p)
    \/ Restart
    \/ \E i \in Meets :
          \/ Assigned(i) \/ Registered(i) \/ LoopStarts(i) \/ PassStarts(i) \/ Swum(i)
          \/ \E lag \in 1 .. 2 : Held(i, lag)
          \/ SessionEnds(i) \/ Disconnected(i) \/ NodeForgets(i)

-----------------------------------------------------------------------------
(* Properties.                                                              *)

NoTestPost == \A p \in Posts : post[p].kind \notin TestPosts

\* Once a Start or Stop was answered the meets asked for are those that run,
\* with the options asked for, also after a restart (Runner.start, then
\* set_test_meets_wanted and set_test_meets_options; lifespan).  A Stop has
\* also removed their cards, and none comes back until a Start
\* (forget_test_meets, after the tasks were cancelled).
TestMeetsAsAsked ==
    /\ NoTestPost => /\ Runs = {i \in Meets : i <= meant.settings.wanted}
                     /\ \A i \in Runs : task[i].pc # "waits" =>
                           task[i].opts = IF meant.settings.options = NoRow THEN 0 ELSE meant.settings.options
    /\ stopped => \A i \in Meets : task[i].pc = "none" /\ card[i] = "none"

\* What a test meet's pages show belongs to the pass that is being swum: a time
\* from the console for each heat swum and none other, an official one for all
\* of those but the last one or two, whatever was stored before (test_loop, the
\* clean schedule, validate).
PageOfThisPass ==
    \A i \in Meets : task[i].pc \in {"swims", "holds"} =>
        LET swum == IF task[i].pc = "holds" THEN task[i].at ELSE task[i].at - 1
        IN  /\ page[i].console = 1 .. swum
            /\ page[i].official \subseteq 1 .. (swum - 1)
            /\ 1 .. (task[i].at - 3) \subseteq page[i].official
================================================================================
