\* Two desks that decide one item, of a task or not; two kills or errors.
SPECIFICATION FairSpec
CONSTANTS
  Items = {i1}
  Desks = {p, q}
  Kinds = {"approve", "decline"}
  Stamps = {t1, t2}
  Targets = {x, y}
  None = None
  MaxFaults = 2
INVARIANTS
  DecisionStands
  ChainOfProof
PROPERTIES
  ImplementsApproval
  ApprovalsRelease
CHECK_DEADLOCK FALSE
