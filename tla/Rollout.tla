------------------------------ MODULE Rollout ------------------------------
(***************************************************************************)
(* A rolling update of the cloud: the control plane's rollout record and   *)
(* node rows (cloud_registry), its maintenance pass and the admin's        *)
(* actions (cloud_control), each node's worker that asks its own webhook   *)
(* (cloud_node), and the deploy the webhook runs there (deploy_webhook,    *)
(* cloud_deploy, cloud_workers).                                           *)
(***************************************************************************)
EXTENDS Naturals, FiniteSets

CONSTANTS
  Nodes,          \* the nodes, numbered in the order of their names
  Workers,        \* the relay workers of a node, 1 asks the webhook
  Versions,       \* release tags, and "master"
  First,          \* the version every node runs at first
  Moving,         \* the versions whose image is published anew (master)
  None,
  MaxStarts, MaxManual, MaxMeets, MaxOutages, MaxForgets, MaxBuilds,
  PassesOverlap,  \* Stop, Start and a second pass fall inside a pass
  Together,       \* a node is asked to deploy while another deploy runs there
  UpdatesAfter,   \* the Update button, on a node whose row still names a target
  StartsEarly     \* a rollout is started while a deploy has not been reported

States == {"scheduled", "running", "waiting", "done", "failed", "stopped"}

ASSUME RolloutAssumption ==
  /\ Nodes \in SUBSET Nat /\ IsFiniteSet(Nodes) /\ 1 \in Workers
  /\ First \in Versions /\ Moving \subseteq Versions
  /\ None \notin Versions
  /\ None \notin [version : Versions, force : BOOLEAN, build : Nat, state : States]
  /\ {MaxStarts, MaxManual, MaxMeets, MaxOutages, MaxForgets, MaxBuilds} \subseteq Nat
  /\ {PassesOverlap, Together, UpdatesAfter, StartsEarly} \subseteq BOOLEAN

VARIABLES
  rollout,   \* settings.rollout, or None
  row,       \* a node's row: known, version, target, late, fresh
  saved,     \* what a pass read of the rollout, or None; per thread
  run,       \* the image each worker's container runs: label and build
  deploying, \* worker 1's _settings["deploying"]
  repo,      \* the version checked out on the node
  env,       \* SPLOUCH_VERSION in the node's .env
  deploys,   \* the deploys running on the node
  up,        \* the node is running and reaches the control plane
  meet,      \* a meet is running there (cloud_registry.running)
  built,     \* the last build published of the moving versions
  count      \* how many of each bounded event have happened

rolloutVars == <<rollout, row, saved, run, deploying, repo, env, deploys, up,
                 meet, built, count>>
control == <<rollout, row, saved>>
node == <<run, deploying, repo, env, deploys>>
world == <<up, meet, built>>

Threads == {"loop", "admin"}
NoCount == [starts |-> 0, manual |-> 0, meets |-> 0, outages |-> 0, forgets |-> 0]
Steps == {"checkout", "env", "image", "up", "tail"}
Image == [v : Versions, b : 0..MaxBuilds]
Build(v) == IF v \in Moving THEN built ELSE 0

RolloutInit ==
  /\ rollout = None
  /\ row = [n \in Nodes |-> [known |-> TRUE, version |-> First, target |-> None,
                             late |-> FALSE, fresh |-> TRUE]]
  /\ saved = [t \in Threads |-> None]
  /\ run = [n \in Nodes |-> [w \in Workers |-> [v |-> First, b |-> 0]]]
  /\ deploying = [n \in Nodes |-> None]
  /\ repo = [n \in Nodes |-> First] /\ env = [n \in Nodes |-> First]
  /\ deploys = [n \in Nodes |-> {}]
  /\ up = [n \in Nodes |-> TRUE] /\ meet = [n \in Nodes |-> FALSE]
  /\ built = 0
  /\ count = NoCount

Bump(what, most) == /\ count[what] < most
                    /\ count' = [count EXCEPT ![what] = @ + 1]

-----------------------------------------------------------------------------
(* The control plane: rollout_start, rollout_stop, the maintenance pass.   *)

Active(r) == r # None /\ r.state \in {"scheduled", "running", "waiting"}

\* No pass is between its two statements, unless passes overlap.
BetweenPasses == PassesOverlap \/ \A t \in Threads : saved[t] = None

\* The last deploy of a node has ended, and its heartbeat has said with what.
Reported(n) == deploys[n] = {} /\ \A w \in Workers : run[n][w].v = row[n].version

\* start_rollout: the targets are cleared, the record written, and then the
\* admin's request runs a pass of its own.  A moving version may have been
\* published anew since.
BeginRollout(v, force, scheduled) ==
  /\ BetweenPasses /\ saved["admin"] = None
  /\ StartsEarly \/ \A n \in Nodes : Reported(n)
  /\ Bump("starts", MaxStarts)
  /\ row' = [n \in Nodes |-> [row[n] EXCEPT !.target = None, !.late = FALSE]]
  /\ built' \in (IF Moving = {} THEN {built} ELSE built..MaxBuilds)
  /\ rollout' = [version |-> v, force |-> force, build |-> Build(v)',
                 state |-> IF scheduled THEN "scheduled" ELSE "running"]
  /\ saved' = [saved EXCEPT !["admin"] = rollout']
  /\ UNCHANGED <<node, up, meet>>

HaltRollout ==
  /\ BetweenPasses
  /\ Active(rollout)
  /\ rollout' = [rollout EXCEPT !.state = "stopped"]
  /\ UNCHANGED <<row, saved, node, world, count>>

\* advance_rollout up to the end of its first statements: the rollout is
\* read, and later statements see the rows as they are by then.
ReadRollout(t) ==
  /\ t = "loop" /\ BetweenPasses /\ saved[t] = None
  /\ Active(rollout)
  /\ saved' = [saved EXCEPT ![t] = rollout]
  /\ UNCHANGED <<rollout, row, node, world, count>>

\* Mutant: a silent node is not waited for even when it was released.
UpdatingFresh == {n \in Nodes : /\ row[n].fresh /\ row[n].target # None
                                /\ row[n].version # row[n].target}
Updating == {n \in Nodes : /\ row[n].known /\ row[n].target # None
                           /\ row[n].version # row[n].target}
Pending(v) == {n \in Nodes : /\ row[n].known /\ row[n].fresh
                             /\ row[n].version # v}
Free(r) == {n \in Pending(r.version) : r.force \/ ~meet[n]}
FirstByName(S) == CHOOSE n \in S : \A m \in S : n <= m

Conclude(t, state) ==
  /\ rollout' = [saved[t] EXCEPT !.state = state]
  /\ saved' = [saved EXCEPT ![t] = None]
  /\ UNCHANGED <<node, world, count>>

\* A scheduled rollout whose hour has not come.
NotDue(t) ==
  /\ saved[t] # None /\ saved[t].state = "scheduled"
  /\ saved' = [saved EXCEPT ![t] = None]
  /\ UNCHANGED <<rollout, row, node, world, count>>

\* Mutant: no time limit.
AwaitForever(t) == /\ saved[t] # None /\ Updating # {}
                   /\ UNCHANGED row /\ Conclude(t, "running")

\* A node is updating: wait for it, or give up on the first by name.
AwaitNode(t) ==
  /\ saved[t] # None /\ Updating # {}
  /\ LET n == FirstByName(Updating)
     IN IF row[n].late
        THEN /\ row' = [row EXCEPT ![n].target = None, ![n].late = FALSE]
             /\ Conclude(t, "failed")
        ELSE UNCHANGED row /\ Conclude(t, "running")

\* Nothing is updating: release the next free node, wait for the meets, or
\* be done.
Release(t) ==
  /\ saved[t] # None /\ Updating = {} /\ Free(saved[t]) # {}
  /\ row' = [row EXCEPT ![FirstByName(Free(saved[t]))] =
               [@ EXCEPT !.target = saved[t].version, !.late = FALSE]]
  /\ Conclude(t, "running")

AllReleased(t) ==
  /\ saved[t] # None /\ Updating = {} /\ Free(saved[t]) = {}
  /\ UNCHANGED row
  /\ Conclude(t, IF Pending(saved[t].version) = {} THEN "done" ELSE "waiting")

\* forget_node: offered for a node that is silent and carries no live meet.
ForgetNode(n) ==
  /\ row[n].known /\ ~row[n].fresh /\ ~meet[n]
  /\ Bump("forgets", MaxForgets)
  /\ row' = [row EXCEPT ![n] = [@ EXCEPT !.known = FALSE, !.target = None,
                                         !.late = FALSE]]
  /\ UNCHANGED <<rollout, saved, node, world>>

-----------------------------------------------------------------------------
(* A node: its heartbeats, the webhook, and the deploy.                    *)

DeployEnded(n) == Together \/ deploys[n] = {}

\* deploy_webhook.do_POST: answered at once, the deploy is a process.
NewDeploy(v, start) == [v |-> v, start |-> start, step |-> "checkout"]

\* cloud_node.update_node for what a heartbeat answered: asked once.  With
\* the version remembered goes the rollout it was for, which no code reads.
Remembers(n, target) == deploying[n] # None /\ deploying[n].v = target

UpdateNode(n, target) ==
  IF target = None \/ Remembers(n, target)
  THEN UNCHANGED <<deploying, deploys>>
  ELSE \/ /\ DeployEnded(n)
          /\ deploying' = [deploying EXCEPT ![n] = [v |-> target, start |-> count.starts]]
          /\ deploys' = [deploys EXCEPT ![n] = @ \cup {NewDeploy(target, count.starts)}]
       \/ UNCHANGED <<deploying, deploys>>      \* the webhook did not answer

\* Mutant: the version is read from .env, which a deploy has written early.
ReportsEnv(n, w) == env[n]

\* cloud_node.version: what the worker's own container was started with.
Reports(n, w) == run[n][w].v

Heartbeat(n, w) ==
  /\ up[n]
  /\ LET v == Reports(n, w)
         to == IF row[n].target # v THEN row[n].target ELSE None
     IN /\ row' = [row EXCEPT ![n] = [@ EXCEPT !.known = TRUE, !.version = v,
                                               !.fresh = TRUE]]
        /\ IF w = 1 THEN UpdateNode(n, to) ELSE UNCHANGED <<deploying, deploys>>
  /\ UNCHANGED <<rollout, saved, run, repo, env, world, count>>

\* The panel's Update button: the control plane's own node, its webhook.
Manual(n, v) ==
  /\ n = 1 /\ up[n] /\ v # repo[n]
  /\ DeployEnded(n) /\ (UpdatesAfter \/ (row[n].target = None /\ ~Active(rollout)))
  /\ Bump("manual", MaxManual)
  /\ deploys' = [deploys EXCEPT ![n] = @ \cup {NewDeploy(v, 0)}]
  /\ UNCHANGED <<control, run, deploying, repo, env, world>>

To(n, d, step) == deploys' = [deploys EXCEPT ![n] = (@ \ {d}) \cup {[d EXCEPT !.step = step]}]

\* A deploy's process ends and restarts the webhook's unit: every process of
\* the unit goes with it, another deploy included.
Ended(n) == deploys' = [deploys EXCEPT ![n] = {}]

\* git fetch and checkout; a failure ends the deploy with nothing changed.
Checkout(n, d) ==
  /\ d.step = "checkout"
  /\ \/ repo' = [repo EXCEPT ![n] = d.v] /\ To(n, d, "env")
     \/ UNCHANGED repo /\ Ended(n)
  /\ UNCHANGED <<control, run, deploying, env, world, count>>

\* cloud_workers.write and set_env: before anything is known of the image.
RecordVersion(n, d) ==
  /\ d.step = "env"
  /\ env' = [env EXCEPT ![n] = d.v] /\ To(n, d, "image")
  /\ UNCHANGED <<control, run, deploying, repo, world, count>>

\* The image is pulled, or built here; when neither works the deploy ends.
GetImage(n, d) ==
  /\ d.step = "image"
  /\ To(n, d, "up") \/ Ended(n)
  /\ UNCHANGED <<control, run, deploying, repo, env, world, count>>

\* docker compose up: a service whose image changed is recreated, in any
\* order; the image is the one .env names.  Node 1 is the control plane's
\* own, whose container goes with worker 1's: a pass is rolled back.
Recreate(n, d, w) ==
  /\ d.step = "up"
  /\ LET image == [v |-> env[n], b |-> Build(env[n])]
     IN run[n][w] # image /\ run' = [run EXCEPT ![n][w] = image]
  /\ deploying' = IF w = 1 THEN [deploying EXCEPT ![n] = None] ELSE deploying
  /\ IF n = 1 /\ w = 1
     THEN saved' = [t \in Threads |-> None] ELSE UNCHANGED saved
  /\ UNCHANGED <<rollout, row, repo, env, deploys, world, count>>

UpDone(n, d) ==
  /\ d.step = "up" /\ \A w \in Workers : run[n][w] = [v |-> env[n], b |-> Build(env[n])]
  /\ To(n, d, "tail")
  /\ UNCHANGED <<control, run, deploying, repo, env, world, count>>

\* Monitoring and the reload of Caddy, whatever their exit code.
Tail(n, d) ==
  /\ d.step = "tail" /\ Ended(n)
  /\ UNCHANGED <<control, run, deploying, repo, env, world, count>>

Deploy(n, d) == \/ Checkout(n, d) \/ RecordVersion(n, d) \/ GetImage(n, d)
                \/ \E w \in Workers : Recreate(n, d, w)
                \/ UpDone(n, d) \/ Tail(n, d)

-----------------------------------------------------------------------------
(* Time, meets and outages.                                                *)

\* ROLLOUT_TIMEOUT_SECS have passed since the node was released, while its
\* deploy runs or after it failed.
Late(n) ==
  /\ row[n].target # None /\ ~row[n].late
  /\ row' = [row EXCEPT ![n].late = TRUE]
  /\ UNCHANGED <<rollout, saved, node, world, count>>

\* SILENT_AFTER_SECS without a heartbeat.
Silent(n) ==
  /\ ~up[n] /\ row[n].fresh
  /\ row' = [row EXCEPT ![n].fresh = FALSE]
  /\ UNCHANGED <<rollout, saved, node, world, count>>

\* The box loses power: a deploy ends wherever it was.
Outage(n) ==
  /\ up[n] /\ Bump("outages", MaxOutages)
  /\ up' = [up EXCEPT ![n] = FALSE]
  /\ deploys' = [deploys EXCEPT ![n] = {}]
  /\ UNCHANGED <<control, run, deploying, repo, env, meet, built>>

\* Back, with the containers it had; worker 1 remembers nothing.
Back(n) ==
  /\ ~up[n] /\ up' = [up EXCEPT ![n] = TRUE]
  /\ deploying' = [deploying EXCEPT ![n] = None]
  /\ UNCHANGED <<control, run, repo, env, deploys, meet, built, count>>

MeetStarts(n) ==
  /\ ~meet[n] /\ Bump("meets", MaxMeets)
  /\ meet' = [meet EXCEPT ![n] = TRUE]
  /\ UNCHANGED <<control, node, up, built>>

MeetEnds(n) ==
  /\ meet[n] /\ meet' = [meet EXCEPT ![n] = FALSE]
  /\ UNCHANGED <<control, node, up, built, count>>

-----------------------------------------------------------------------------

Pass(t) == NotDue(t) \/ AwaitNode(t) \/ Release(t) \/ AllReleased(t)

RolloutNext ==
  \/ \E v \in Versions, f, s \in BOOLEAN : BeginRollout(v, f, s)
  \/ HaltRollout
  \/ \E t \in Threads : ReadRollout(t) \/ Pass(t)
  \/ \E n \in Nodes : \/ ForgetNode(n) \/ Late(n) \/ Silent(n) \/ Outage(n) \/ Back(n)
                      \/ MeetStarts(n) \/ MeetEnds(n)
                      \/ \E w \in Workers : Heartbeat(n, w)
                      \/ \E v \in Versions : Manual(n, v)
                      \/ \E d \in deploys[n] : Deploy(n, d)

\* The maintenance pass runs every 30 s, time passes, and a deploy's steps end.
Fairness ==
  /\ WF_rolloutVars(ReadRollout("loop"))
  /\ \A t \in Threads : WF_rolloutVars(Pass(t))
  /\ \A n \in Nodes : /\ WF_rolloutVars(Late(n)) /\ WF_rolloutVars(Silent(n))
                      /\ WF_rolloutVars(\E d \in deploys[n] : Deploy(n, d))

RolloutSpec == RolloutInit /\ [][RolloutNext]_rolloutVars /\ Fairness

-----------------------------------------------------------------------------
(* Properties.                                                             *)

Rollouts == [version : Versions, force : BOOLEAN, build : 0..MaxBuilds,
             state : States]

\* Every variable keeps its type, and no node has two deploys of one release.
RolloutTypeOK ==
  /\ rollout \in Rollouts \cup {None} /\ saved \in [Threads -> Rollouts \cup {None}]
  /\ row \in [Nodes -> [known : BOOLEAN, version : Versions,
                        target : Versions \cup {None}, late : BOOLEAN, fresh : BOOLEAN]]
  /\ run \in [Nodes -> [Workers -> Image]]
  /\ deploying \in [Nodes -> [v : Versions, start : 1..MaxStarts] \cup {None}]
  /\ repo \in [Nodes -> Versions] /\ env \in [Nodes -> Versions]
  /\ \A n \in Nodes : deploys[n] \subseteq [v : Versions, start : 0..MaxStarts, step : Steps]
  /\ up \in [Nodes -> BOOLEAN] /\ meet \in [Nodes -> BOOLEAN]
  /\ built \in 0..MaxBuilds

Restarting(n) == \E d \in deploys[n] : /\ d.step = "up" /\ d.start = count.starts
                                      /\ \E w \in Workers : run[n][w].v # env[n]

\* A rollout restarts the workers of one node at a time, whatever nodes
\* fall silent, are forgotten, return, or fail to deploy: the release of
\* the next waits for the version in the heartbeat of the last.
OneNodeOfARollout ==
  \A m, n \in Nodes : Restarting(m) /\ Restarting(n) => m = n

\* When a pass says a rollout is done, every node the control plane hears
\* from runs its version on every worker: what the rows say is what runs.
DoneMeansRuns ==
  [][ /\ rollout # None /\ rollout' # None
      /\ rollout.state # "done" /\ rollout'.state = "done"
      => \A n \in Nodes : row[n].known /\ row[n].fresh
           => \A w \in Workers : run[n][w].v = rollout'.version ]_rolloutVars

\* A running rollout does not stay so: each node it releases reports the
\* version or runs out of time, and the rollout is done, failed or waiting
\* for a meet.
RolloutEnds ==
  (rollout # None /\ rollout.state = "running")
    ~> (rollout # None /\ rollout.state # "running")

\* A stopped rollout stays stopped until another is started.
StoppedStays ==
  [][ /\ rollout # None /\ rollout.state = "stopped"
      /\ count'.starts = count.starts
      => rollout' = rollout ]_rolloutVars

\* A rollout that is done asks nothing more of a node: what the admin then
\* installs with the Update button stays.
DoneAsksNothing ==
  [][ rollout # None /\ rollout.state = "done" =>
        \A n \in Nodes : \A d \in deploys'[n] \ deploys[n] :
          d.start # 0 => d.step # "checkout" ]_rolloutVars

\* A node takes a release for already asked only when it asked for that
\* release: a rollout tried again reaches the webhook again.
AskedForThisRollout ==
  \A n \in Nodes : row[n].target # None /\ Remembers(n, row[n].target)
                     => deploying[n].start = count.starts

\* After a rollout is done and the deploys have ended, the nodes heard from
\* run its version.
DoneStays ==
  rollout # None /\ rollout.state = "done" /\ (\A n \in Nodes : deploys[n] = {})
    => \A n \in Nodes : row[n].known /\ row[n].fresh
         => run[n][1].v = rollout.version

\* A rollout that is done has brought the nodes to the image published when
\* it was started.
DoneIsCurrent ==
  rollout # None /\ rollout.state = "done"
    => \A n \in Nodes : row[n].known /\ row[n].fresh /\ deploys[n] = {}
         => run[n][1].b >= rollout.build

\* Without force, a node is not restarted under a running meet.
MeetsUndisturbed ==
  [][ \A n \in Nodes : /\ run'[n] # run[n] /\ Active(rollout) /\ ~rollout.force
                        /\ \E d \in deploys[n] : d.start = count.starts
                       => ~meet[n] ]_rolloutVars

\* Once no deploy runs, the checkout and .env name one version.
RepoMatchesEnv == \A n \in Nodes : deploys[n] = {} /\ up[n] => repo[n] = env[n]
=============================================================================
