SPECIFICATION Spec
CONSTANTS
  Users = {u1, u2}
  MaxPending = 1
  Requests = {r1, r2}
  Sessions = {s1, s2}
  Sockets = {c1}
SYMMETRY Symmetry
INVARIANTS OwnerStays SocketsAreLive
CHECK_DEADLOCK FALSE
