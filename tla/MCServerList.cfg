CONSTANTS
  h1 = h1
  h2 = h2
  c1 = c1
  c2 = c2
  Hosts = {h1, h2}
  NoHost = NoHost
  Contacts = {c1, c2}
  NoContact = NoContact
  MMCount = 1
  Listings <- MCTornListings
  Packets <- MCOnePacket
  AtomicRows = FALSE
SPECIFICATION Spec
INVARIANTS
  TypeOK
  UniqueXuids
  Presented
  RosterAttribution
  DecisionsHold
  RoundCoverage
