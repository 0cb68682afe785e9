CONSTANTS
  Nobody = Nobody
  NoAddr = NoAddr
  Mangled = Mangled
  Players = {p1}
  Addrs = {a1, a2, a3}
  Piped = {}
  Slots = 1
  MaxEntries = 1
  MaxAddresses = 2
  MaxAge = 2
SPECIFICATION LiveSpec
INVARIANTS
  TypeOK
  AddressesKept
  CleanMeansWritten
PROPERTIES
  ReachesDisk
