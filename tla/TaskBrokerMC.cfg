\* Two tasks of two agents: admission, delegation, expiry, review and edits race.
SPECIFICATION Spec
CONSTANTS
  Tasks = {t1, t2}
  NoTask = NoTask
  Agents = {research, marketing}
  Callers = {desk}
  Grants = {g1, g2}
  NoGrant = NoGrant
  Origins = {"operator", "agent"}
  Keys = {k1}
  Inputs = {i1}
  NotBefores = {0}
  AttemptLimits = {2}
  Durations = {1}
  Tokens = {x1, x2}
  NoLease = NoLease
  AssetIds = {a1}
  Hashes = {h1, h2}
  DecisionIds = {d1}
  ExpiryLimit = 1
  MaxTime = 1
SYMMETRY Symmetry
INVARIANTS
  AuditExplainsStatus
  FencesAreFree
  AnswersHold
  DelegationPairs
PROPERTIES
  LeaseBoundsWork
  RevocationStopsWork
  ImplementsLifecycle
