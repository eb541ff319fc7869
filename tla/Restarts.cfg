CONSTANTS
  Handlers = {h1, h2}
  Identities = {a}
  Pages = {o1}
  Uris = {u1}
  UrisOf <- OwnUri
  EmptyUri = NoUri
  Files = {f1, f2}
  MaxPublishes = 2
  ListMax = 1
  EmptyDeleteFails = TRUE
  Faults = {"crash", "s3", "mongo", "emptyTar"}
SPECIFICATION Spec
SYMMETRY Symmetry
CHECK_DEADLOCK FALSE
INVARIANTS PageComplete
PROPERTIES NoResurrection
