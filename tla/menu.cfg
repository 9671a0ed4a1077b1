\* A menu that moves, a remote, two picks, and two restarts.
SPECIFICATION FairSpec
CONSTANTS
  Menus = {m1, m2}
  Remotes = {r1}
  WriteQueue = 1
  MaxRestarts = 2
  RestartsUnseen = FALSE
  Empty = Empty
  None = None
INVARIANT HandlesStay
PROPERTIES StartsFromServed EventuallyServed
