CONSTANTS
  Handlers = {h1, h2}
  Identities = {a}
  Pages = {o1}
  Uris = {u1, u2}
  UrisOf <- AnyUri
  EmptyUri = u1
  Files = {}
  MaxPublishes = 2
  ListMax = 2
  EmptyDeleteFails = TRUE
  Faults = {"crash", "lostReply", "emptyTar"}
  Readers = {}
  Versions = {v1}
  NoVersion = NoVersion
  TTL = 1
  CacheFaults = {"redis"}
SPECIFICATION SystemSpec
SYMMETRY SystemSymmetry
CHECK_DEADLOCK FALSE
PROPERTIES NoResurrection RepoSpec SiteSpec
