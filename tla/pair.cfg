\* Two remotes, a window and a second command.
SPECIFICATION FairSpec
CONSTANTS
  Windows = {w1, w2}
  Remotes = {r1, r2}
  Asks = {r1, None}
  PairAttempts = 2
  None = None
INVARIANTS ReportsTheWindow OthersKept PairedIsBonded
PROPERTIES WindowCloses ImplementsScreen
