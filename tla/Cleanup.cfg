CONSTANTS
  Handlers = {h1, h2}
  Identities = {a}
  Pages = {o1}
  Uris = {u1}
  UrisOf <- OwnUri
  EmptyUri = NoUri
  Files = {f1}
  MaxPublishes = 2
  ListMax = 2
  EmptyDeleteFails = FALSE
  Faults = {"crash", "slowUpload", "mongo"}
SPECIFICATION FairSpec
CHECK_DEADLOCK FALSE
PROPERTIES Reclaimed Expires
