\* A decline, to the end.
SPECIFICATION FairSpec
CONSTANTS
  Items = {i1}
  Desks = {p}
  Kinds = {"approve", "decline"}
  Stamps = {t1}
  Targets = {x}
  None = None
  MaxFaults = 1
PROPERTIES
  DeclineCloses
CHECK_DEADLOCK FALSE
