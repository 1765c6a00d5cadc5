\* Two servers, with and without operators at the command line.
SPECIFICATION PublisherSpec
CONSTANTS
  Procs = {p1, p2}
  NoProc = NoProc
  Stamps = {s1, s2}
  Posts = {a, b}
  NoPost = NoPost
  Missing = Missing
  ApprovedAt = s1
  CliStamps = {s1, s2}
SYMMETRY Symmetric
INVARIANTS
  CompletedMeansPosted
  TaskPostsOnce
  SentAsIntended
PROPERTIES
  TaskLives
