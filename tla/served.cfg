\* A device that one server has for good plays for it.
SPECIFICATION FairSpec
CONSTANTS
  Servers = {s1, s2}
  Addresses = {a1, a2}
  FirstAt <- At
  Ids = {1, 2}
  RegisterAttempts = 2
  MaxStatusFailures = 2
  Pins <- NoEdits
  WritableSets <- Root
  LosesRights = FALSE
  Typos = FALSE
  TornWrites = FALSE
  CrashesAt <- OnceUp
  Moves = FALSE
  ReleaseForgets = TRUE
  Named404 = {a1}
  None = None
  s1 = s1
  s2 = s2
  a1 = a1
  a2 = a2
  a3 = a3

PROPERTY EventuallyServed
