SPECIFICATION ObjectsSpec
CONSTANTS
  c1 = c1
  c2 = c2
  d1 = d1
  d2 = d2
  p1 = p1
  pcm = pcm
  y1 = y1
  y2 = y2
  i1 = i1
  i2 = i2
  x1 = x1
  tap = tap
  s1 = s1
  s2 = s2
  a1 = a1
  a2 = a2
  t1 = t1
  t2 = t2
  q1 = q1
  first = first
  second = second
  tune = tune
  song = song
  fade = fade
  loop = loop
  done = done
  gen = gen
  ring1 = ring1
  ring2 = ring2
  ring3 = ring3
  b1 = b1
  b2 = b2
  b3 = b3
  v1 = v1
  v2 = v2
  f1 = f1
  m1 = m1
  m2 = m2
  r1 = r1
  r2 = r2
  r3 = r3
  r4 = r4
  g1 = g1
  g3 = g3
  None = None
  Channels = {c1, c2, d1}
  Borrowed = {d1}
  Players = {p1}
  PcmSources = {pcm}
  Synths = {y1, y2}
  Instruments = {i1, i2}
  Effects = {x1}
  Taps = {tap}
  Line <- LineOf
  Signals = {s1, s2}
  Samples = {a1, a2}
  Tracks = {t1, t2}
  Sequences = {q1}
  Indexes = {first, second}
  Parameters <- AllParameters
  Untracked <- GeneratorParameters
  Scenes <- Playing
  Drawings <- Drawing
  SharedTracks = FALSE
  CallbackPlayers = {tune, song}
  SlotsOf <- CallbacksOf
  OneShots = {fade, done}
  Loop = loop
  MaxId = 7
  Capacity = 2
  Backlog = 1
  Registrations = 3
  Bitmaps = {b1, b2, b3}
  Views = {v1, v2}
  Tables = {t1}
  Fonts = {f1}
  TileMaps = {m1, m2}
  Sprites = {r1, r2, r3, r4}
  Callers = {r1, r2}
  Guests = {g1, g3}
  GuestOf <- OfGuest
  Videos = {p1}
  CallbackLimit = 2
  Renderers = {pcm, gen}
  Generators = {gen}
  Rings = {ring1}
  Copies = {ring2, ring3}
  RingFrames = 3
  Block = 1
  Rendered = 4
  Images = {b1, b2}
  LentImages = {f1}
  Height = 2
  Nesting = 3
  MaxViews = 2
CHECK_DEADLOCK FALSE
INVARIANTS
  ObjectsTypeOK
  ObjectsAgree
  NothingFreedInUse
  CompletionsKept
  ClosedIsSilent
PROPERTIES
  SoundInOrder
