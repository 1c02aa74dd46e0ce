SPECIFICATION AnalysisSpec
CONSTANTS
  t = t
  o = o
  f = f
  n = n
  Joined = FALSE
  Nobody = Nobody
  Handles = {t, o, f, n}
  Rounds = 8
  Visits = 256
  Packages <- MCPackages
  Facts <- MCFacts
  Functions <- MCFunctions
  Maker <- MCMaker
  Parent <- MCParent
  Files <- MCFiles
  Rules <- MCRules
  Issues <- MCIssues
  Sessions <- MCSessions
  EditedAt = {"validate", "compare", "output", "ended"}
  Edits = 1
  Faults = 1
  Missing = Missing
CHECK_DEADLOCK FALSE
INVARIANTS
  AnalysisTypeOK
  SummariesTrue
  MisusesTold
  FilesSurvive
  AdoptionHolds
PROPERTIES
  FindingsTrue
