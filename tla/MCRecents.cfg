CONSTANTS
  Nobody = Nobody
  NoAddr = NoAddr
  Mangled = Mangled
  Players = {p1, p2, p3}
  Addrs = {}
  Piped = {p1}
  Slots = 2
  MaxEntries = 2
  MaxAddresses = 1
  MaxAge = 2
SPECIFICATION Spec
INVARIANTS
  OnceEach
  ScannedStay
  CleanMeansWritten
PROPERTIES
  ImplementsLog
