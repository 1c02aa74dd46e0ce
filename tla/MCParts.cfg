SPECIFICATION PartsSpec
CONSTANTS
  Recorders = 3
  Requests = 4
  Nesting = 2
  k1 = k1
  k2 = k2
  Queues = 2
  Capacity = 3
  Values = {v1, v2}
  Zero = Zero
  Payloads = {w1, w2}
  Current = 2
  Newest = 3
  Trials <- Troubles
  Absent = Absent
  Corrupt = Corrupt
  Torn = Torn
  Kinds = {k1, k2, k3}
  EventSlots = 3
  BoardRequests = 2
  Handles = {h1, h2}
  Items = 3
  Bitmaps = {b1, b2}
  ButtonEvents = 1
CHECK_DEADLOCK FALSE
INVARIANTS
  PartsTypeOK
  QueuesAreFair
  ReadsFaithfully
  RecordingAsPermitted
  EachRequestAnswered
  NothingLeftBehind
  CodecAgrees
PROPERTIES
  RingsImplementFifo
  SavesAtomically
  AnswersLatestRequest
  NeverStuck
  SilentAfterTermination
