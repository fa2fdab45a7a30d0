SPECIFICATION Spec
CONSTANTS
  Users = {u1, u2, u3}
  MinOthers = 1
  Requests = {r1, r2}
SYMMETRY Symmetry
INVARIANTS OneOwner MessageReaders
CHECK_DEADLOCK FALSE
