\* Two servers and a device that is switched off at any moment: who keeps it.
SPECIFICATION Spec
CONSTANTS
  Servers = {s1, s2}
  Addresses = {a1, a2}
  FirstAt <- At
  Ids = {1, 2}
  RegisterAttempts = 1
  MaxStatusFailures = 2
  Pins <- PinnedTo2
  WritableSets <- AnyRights
  LosesRights = FALSE
  Typos = FALSE
  TornWrites = FALSE
  CrashesAt <- Anywhere
  Moves = FALSE
  ReleaseForgets = TRUE
  Named404 = {}
  None = None
  s1 = s1
  s2 = s2
  a1 = a1
  a2 = a2
  a3 = a3

INVARIANT RemembersItsServer
PROPERTY StaysHome
