\* Two sessions that may overlap, a remote, a slider, commands and restarts.
SPECIFICATION FairSpec
CONSTANTS
  Transports = {t1, t2}
  Remotes = {r1}
  Levels = {0, 127}
  CommandQueue = 1
  VolumeQueue = 1
  StartsFail = TRUE
  Takeovers = TRUE
  Aborts = TRUE
  Control = TRUE
  None = None
INVARIANT NeverTwice
PROPERTIES CallsBack Heard SliderFollowed
