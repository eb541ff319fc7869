SPECIFICATION FairSpec
CONSTANTS
  Readers = {r1}
  Callers = {c1}
  Addresses = {a1, a2}
  Publishes = {p1}
  NoPublish = NoPublish
  Versions = {v1, v2}
  NoVersion = NoVersion
  TTL = 1
  Faults = {"lostInvalidate", "rename"}
INVARIANT ServesOwnRender
CHECK_DEADLOCK FALSE
PROPERTY Heals
