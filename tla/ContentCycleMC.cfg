\* Two drivers over two briefs, one kill.
SPECIFICATION FairSpec
CONSTANTS
  Briefs = {b1, b2}
  Drivers = {d1, d2}
  Routes = {e1, e2}
  b1 = b1
  e1 = e1
  Asked <- MCAsked
  None = None
  MaxRework = 1
  MaxKills = 1
INVARIANTS
  OneLineage
  OneAtATime
PROPERTIES
  NotesAnswered
\* A manifest, brief or action that a kill left without its receipt stops the project.
CHECK_DEADLOCK FALSE
