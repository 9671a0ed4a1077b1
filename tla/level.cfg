\* One room: presses, the server's seed, live changes and the report of it.
SPECIFICATION FairSpec
CONSTANTS
  Players = {1}
  Cards = {a}
  Threads = {t1}
  Urls = {u}
  Configs <- OneRoom
  MaxVolume = 3
  MaxDelay = 0
  Presses <- RemotePresses
  QueueDepth = 1
  LiveLevels <- LiveMoves
  Conns = {}
  SessionsEnd = FALSE
  None = None
  a = a
  b = b
  u = u
  t1 = t1
  t2 = t2
PROPERTIES PressNeverJumps SeedNotSetpoint ReportCatchesUp
