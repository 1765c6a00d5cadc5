\* Two overlapping callers of one approved release.
SPECIFICATION Spec
CONSTANTS
  Procs = {p1, p2}
  NoProc = NoProc
  Stamps = {s1, s2}
  Posts = {a, b}
  NoPost = NoPost
  Missing = Missing
SYMMETRY Symmetric
INVARIANTS
  PostedOnce
