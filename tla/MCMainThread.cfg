CONSTANTS
  relative = relative
  short = short
  odd = odd
  long = long
  Functions = {relative, short, odd, long}
  Code <- MCCode
  JumpBytes = 14
  MostBytes = 24
  Threads = {t1}
  MostDetours = 2
  NoFunction = NoFunction
  Slots = {s1, s2, s3}
  MostRaw = 3
  NoSlot = NoSlot
SPECIFICATION MainSpec
INVARIANTS CallsWhole UsesSet ShownAlive
CHECK_DEADLOCK FALSE
