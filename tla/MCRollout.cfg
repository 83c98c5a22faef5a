SPECIFICATION RolloutSpec
CONSTANTS
  Nodes <- TwoNodes
  Workers <- OneWorker
  Versions = {v1, v2}
  First = v1
  Moving = {}
  None = None
  MaxStarts = 2
  MaxManual = 1
  MaxMeets = 1
  MaxOutages = 1
  MaxForgets = 1
  MaxBuilds = 0
  PassesOverlap = FALSE
  Together = FALSE
  UpdatesAfter = FALSE
  StartsEarly = FALSE
INVARIANT OneNodeOfARollout
PROPERTIES DoneMeansRuns RolloutEnds
CHECK_DEADLOCK FALSE
