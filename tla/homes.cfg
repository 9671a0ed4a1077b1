\* Two servers, restarts, edits of the file: whose the device is.
SPECIFICATION Spec
CONSTANTS
  Servers = {s1, s2}
  Addresses = {a1, a2, a3}
  FirstAt <- At
  Ids = {1, 2}
  RegisterAttempts = 1
  MaxStatusFailures = 1
  Pins <- NoEdits
  WritableSets <- Root
  LosesRights = FALSE
  Typos = TRUE
  TornWrites = FALSE
  CrashesAt <- OnceUp
  Moves = TRUE
  ReleaseForgets = TRUE
  Named404 = {a1}
  None = None
  s1 = s1
  s2 = s2
  a1 = a1
  a2 = a2
  a3 = a3
INVARIANTS OneIdentity
PROPERTIES LeavesOnlyOnPurpose GoodbyesToOthers ImplementsHome
