SPECIFICATION Spec
CONSTANTS
  Sources = {pcm, gen}
  Generators = {gen}
  Slots = {a}
  Copies = {b, c}
  RingFrames = 3
  Block = 1
  Frames = 4
  ClosesItself = TRUE
CHECK_DEADLOCK FALSE
INVARIANTS
  ClosedIsSilent
