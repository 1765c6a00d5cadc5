\* One kill: what a killed accept_result leaves in the run.
SPECIFICATION Spec
CONSTANTS
  Nodes <- LaunchNodes
  Place <- LaunchPlace
  Deps <- LaunchDeps
  Governance = "governance-final"
  Producer = "launch-package"
  Cap = 2
  Coordinator = "coordinator"
  Outcomes = {"completed"}
  Stamps = {1, 2}
  PlanStamp = 1
  Missing = Missing
  MaxKills = 1
CHECK_DEADLOCK FALSE
INVARIANTS
  LeftoversInert
