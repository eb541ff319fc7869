CONSTANTS
  Callers = {c1, c2}
  Identities = {a}
  Pages = {o1, o2}
  Uris = {u1, u2}
  Files = {}
  MaxPublishes = 2
SPECIFICATION Spec
SYMMETRY Symmetry
INVARIANTS TypeOK ActiveWasFinalized
PROPERTIES RenameKeepsPage NoUriTheft
