CONSTANTS
  Handlers = {h1}
  Identities = {a}
  Pages = {o1}
  Uris = {u1}
  UrisOf <- OwnUri
  EmptyUri = NoUri
  Files = {f1}
  MaxPublishes = 2
  ListMax = 2
  EmptyDeleteFails = TRUE
  Faults = {"mongo", "emptyTar"}
  Readers = {r1}
  Versions = {v1}
  NoVersion = NoVersion
  TTL = 1
  CacheFaults = {}
SPECIFICATION SystemSpec
SYMMETRY SystemSymmetry
CHECK_DEADLOCK FALSE
PROPERTIES
  CachedPagesHaveFiles
  SiteSpec
