\* Two servers, one killed; permissions stay.
SPECIFICATION FairSpec
CONSTANTS
  Servers = {s1, s2}
  NoThread = NoThread
  Bytes = {p}
  NoBytes = NoBytes
  Proposal = p
  Revocable = {}
  MaxKills = 1
INVARIANTS
  NothingForgotten
PROPERTIES
  QueuedStarts
