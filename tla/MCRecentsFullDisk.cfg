CONSTANTS
  Nobody = Nobody
  NoAddr = NoAddr
  Mangled = Mangled
  Players = {p1}
  Addrs = {a1}
  Piped = {}
  Slots = 1
  MaxEntries = 1
  MaxAddresses = 1
  MaxAge = 2
SPECIFICATION Spec
INVARIANTS
  CleanMeansSaved
