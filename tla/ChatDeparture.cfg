SPECIFICATION DepartureSpec
CONSTANTS
  Users = {u1, u2, u3}
  MinOthers = 2
  Requests = {r1, r2}
SYMMETRY Symmetry
INVARIANTS RemovalEndsAccess
CHECK_DEADLOCK FALSE
