\* Two bridges, one after the other, and a device that comes and goes.
SPECIFICATION FairSpec
CONSTANTS
  Bridges = {b1, b2}
  Devices = {d1}
  KeyQueue = 1
  VolumeQueue = 1
  None = None
INVARIANTS HidMeansKeys NoForgottenPath
PROPERTIES KeysComeBack ImplementsGrabs
