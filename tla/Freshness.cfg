SPECIFICATION Spec
CONSTANTS
  Readers = {r1, r2}
  Callers = {c1}
  Addresses = {a1}
  Publishes = {p1, p2}
  NoPublish = NoPublish
  Versions = {v1}
  NoVersion = NoVersion
  TTL = 1
  Faults = {"chunks"}
SYMMETRY Symmetry
INVARIANT TypeOK
PROPERTY Fresh
CHECK_DEADLOCK FALSE
