\* The first remote is connected while a second one is to be paired.
SPECIFICATION Spec
CONSTANTS
  Windows = {w1}
  Remotes = {r1, r2}
  Asks = {r1, r2, None}
  PairAttempts = 1
  None = None
PROPERTY OnlyTheOneInHand
