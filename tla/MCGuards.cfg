SPECIFICATION Spec
CONSTANTS
  t1 = t1
  t2 = t2
  i1 = i1
  i2 = i2
  Window = 2
  Servers <- MCServers
  MaxSequence <- MCMaxSequence
  MaxFlight = 2
  Pieces = {1, 2, 3}
  BcsMax = 5
  Indices = {i1, i2}
  Lengths = {0, 1, 2, 3}
  PoolMax = 6
  Span = 3
  Most = 2
  Turn = 8
  None = None
  Threads = {t1, t2}
  Limit <- MCLimit
  Nameless = Nameless
  Unfollowed = Unfollowed
  MaxNest = 2
  MaxPrint = 2
SYMMETRY MCSymmetry
INVARIANTS ReadsItsCommand BuffersHold FairRate ElementsCapped NestingHeld
