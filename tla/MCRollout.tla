---- MODULE MCRollout ----
\* Two nodes; the first is the control plane's own.
EXTENDS Rollout
TwoNodes == {1, 2}
OneWorker == {1}
TwoWorkers == {1, 2}
====
