\* The desk and one week, two materials fit, one kill.
SPECIFICATION Spec
CONSTANTS
  Server = {s1, s2}
  Weekly = w
  Ids = {u1, u2, u3}
  WeekIds = {sugg, mat, prop}
  Sugg = sugg
  Mat = mat
  Prop = prop
  Contents = {c1, c2, c3}
  Topics = {c1, c2}
  None = None
  MaxMaterials = 2
  MaxKills = 1
SYMMETRY Sym
INVARIANTS
  NoTwins
  NothingDangles
  TopicHolds
PROPERTIES
  SlotsStayDown
  WeeklyWaits
\* A record that a killed process left without its receipt stops the project's Studio.
CHECK_DEADLOCK FALSE
