CONSTANTS
  Handlers = {h1, h2}
  Identities = {a}
  Pages = {o1}
  Uris = {u1, u2}
  UrisOf <- AnyUri
  EmptyUri = NoUri
  Files = {f1}
  MaxPublishes = 3
  ListMax = 2
  EmptyDeleteFails = TRUE
  Faults = {}
SPECIFICATION Spec
SYMMETRY Symmetry
CHECK_DEADLOCK FALSE
INVARIANTS PageComplete
