\* Two good builds and one that exits at once; power lost anywhere.
SPECIFICATION FairSpec
CONSTANTS
  Builds = {b1, b2, bad}
  Crashing = {bad}
  Mute = {}
  MaxStartAttempts = 3
  FailsAt <- Anything
  Torn = Torn
  None = None
INVARIANT WayBack
PROPERTIES KeepsConfirmed ImplementsTrial ServesAgain
