\* Two rooms, two cards: who is running and what has which card.
SPECIFICATION FairSpec
CONSTANTS
  Players = {1, 2}
  Cards = {a, b}
  Threads = {t1, t2}
  Urls = {u}
  Configs <- TwoRooms
  MaxVolume = 1
  MaxDelay = 0
  Presses <- NoPresses
  QueueDepth = 1
  LiveLevels <- NoLive
  Conns = {}
  SessionsEnd = TRUE
  None = None
  a = a
  b = b
  u = u
  t1 = t1
  t2 = t2
INVARIANTS OneThreadPerCard SettledAsDesired NoOrphanThread PlaysWhatWasPushed
PROPERTIES OnlyRebuildsInterrupt ImplementsSpeakers EventuallyAsDesired
