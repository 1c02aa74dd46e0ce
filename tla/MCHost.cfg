SPECIFICATION HostSpec
CONSTANTS
  fast = fast
  slow = slow
  base = base
  facts = facts
  game = game
  lib = lib
  util = util
  b1 = b1
  b2 = b2
  Absent = Absent
  File = File
  Partial = Partial
  Old = Old
  u1 = u1
  u2 = u2
  Analyzers = {fast, slow, base, facts}
  Packages = {game, lib, util}
  Roots = {fast, slow}
  Loaded = {game, lib}
  Requires <- RequiresOf
  Imports <- ImportsOf
  UsesFacts = {facts}
  IllTyped = {util}
  Despite = {}
  Faulty <- Failing
  Calls = {1, 2}
  MaxSnapshots = 1
  Broken = {2}
  Touches = 1
  TouchedMidway = FALSE
  Edits = 2
  Targets = 2
  Settings = {0, 1}
  Default = 0
  Others = 2
  Builders = {b1, b2}
  Config <- ConfigOf
  Faults = 2
  Attempts = 3
  Users = {u1, u2}
  Commands <- CommandsOf
  Logs = {"crashlog", "errorlog"}
CHECK_DEADLOCK FALSE
INVARIANTS
  HostTypeOK
  CacheFaithful
  ExecutesInOrder
  OutcomeIsDetermined
  PackageSurvives
  ReportsTruly
PROPERTIES
  NeverOlder
  EverythingEnds
