SPECIFICATION Spec
CONSTANTS
  h1 = h1
  h2 = h2
  p1 = p1
  p2 = p2
  a = a
  b = b
  Rows <- MCRows
  Items <- MCItems
  Hosts = {h1, h2}
  Players = {p1, p2}
  MaxRecents = 2
  PerPage <- MCPerPage
  MaxHover = 1
  GameKeys = {a, b}
  Inputs <- MCInputs
SYMMETRY MCSymmetry
CONSTRAINT MCKeysApart
INVARIANTS TypeOK OnARow NothingHeld
PROPERTIES KeysReachShown ClicksReachShown OncePerPress
