\* The launch route with a kill between any two writes.
SPECIFICATION FairSpec
CONSTANTS
  Nodes <- LaunchNodes
  Place <- LaunchPlace
  Deps <- LaunchDeps
  Governance = "governance-final"
  Producer = "launch-package"
  Cap = 2
  Coordinator = "coordinator"
  Outcomes = {"completed", "needs_attention"}
  Stamps = {1, 2}
  PlanStamp = 1
  Missing = Missing
  MaxKills = 1
CHECK_DEADLOCK FALSE
INVARIANTS
  PinsHold
  AnswersStand
  ReviewIsEarned
  NeverStalls
PROPERTIES
  ImplementsRouteRun
  RunEnds
