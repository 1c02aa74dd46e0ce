SPECIFICATION FairSpec
CONSTANTS
  Capacity = 2
  StepsPerFrame = 2
  Budget = 1
  Half = 2
  Generations = 2
  CallsPerStep = 3
  Intervals <- MCIntervals
INVARIANTS
  TypeOK
  TerminationIsFinal
  OneHomePerTask
  WindowIsUnvisited
PROPERTIES
  ReturnTouchesOwnTask
  NeverEarly
  RunsOncePerUpdate
  EveryTaskIsServed
