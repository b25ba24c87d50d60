SPECIFICATION Spec
CONSTANTS
  Watches = {w1, w2}
  MaxVersions = 2
  Scanners = {p1, p2}
  Views = {d1, d2}
  MaxChanges = 2
  MaxFailures = 1
  WatchLimit = 2
  NoView = NoView
  NoScanner = NoScanner
  w1 = w1
  d1 = d1
  reader = reader
  writer = writer
  g1 = g1
  g2 = g2
  l1 = l1
  l2 = l2
  Releases = {1, 2}
  LengthOf <- TheLengths
  Edited = {}
  TablesOf <- TheTables
  FunctionsOf <- TheFunctions
  Gated = {"f1", "f3"}
  LegacyLength = 2
  Groups = {g1, g2}
  Logins = {l1, l2}
  DbProfiles = {writer}
  WritesOf <- TheWrites
  CallsOf <- TheCalls
  AdminCommands = {a1}
  Processes = {s1}
  MaxInterventions = 1
  Calls = {c1, c2}
  ServedTools = {"submit", "suggest", "review"}
  ClassOf <- TheClassOf
  LaneOf <- TheLaneOf
  Lanes = {"text"}
  NoLane = "direct"
  LaneSize = 1
  Clients = {x1}
INVARIANTS JournalTellsRuns FreshRunIsTheResult LedgerTellsSchema
PROPERTIES CurrentTargetAnswered HandedOutWithinManifest AbandonedNeverStart CallersReturn
CHECK_DEADLOCK FALSE
