CONSTANTS
  Handlers = {h1, h2}
  Identities = {a}
  Pages = {o1}
  Uris = {u1}
  UrisOf <- OwnUri
  EmptyUri = NoUri
  Files = {f1}
  MaxPublishes = 2
  ListMax = 2
  EmptyDeleteFails = TRUE
  Faults = {}
SPECIFICATION FairSpec
CHECK_DEADLOCK FALSE
PROPERTIES ObjectsExpire
