\* Two servers, one of them killed once, while QA's permission is edited.
SPECIFICATION Spec
CONSTANTS
  Servers = {s1, s2}
  NoThread = NoThread
  Bytes = {p, q}
  NoBytes = NoBytes
  Proposal = p
  Revocable = {4}
  MaxKills = 1
SYMMETRY Symmetric
INVARIANTS
  RanOnce
  HandoffsHold
  StuckOnlyByDeath
PROPERTIES
  TasksLive
