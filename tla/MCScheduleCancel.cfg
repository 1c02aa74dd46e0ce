SPECIFICATION Spec
CONSTANTS
  Capacity = 2
  StepsPerFrame = 2
  Budget = 0
  Half = 2
  Generations = 2
  CallsPerStep = 3
  Intervals <- MCShortIntervals
PROPERTIES
  FrameVisitsAll
