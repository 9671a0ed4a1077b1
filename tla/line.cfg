\* A line input whose level, settings, device and endpoint change.
SPECIFICATION FairSpec
CONSTANTS
  Clients = {c1}
  Inputs = {1, 2}
  Levels = {0, 1}
  Holds = {0, 1}
  MaxAge = 2
  Configs <- OneLine
  None = None
INVARIANT SourcesAsDesired
PROPERTIES ChangesAreHeld SettingsReach
