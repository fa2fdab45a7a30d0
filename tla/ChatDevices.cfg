SPECIFICATION Spec
CONSTANTS
  Devices = {d1, d2, d3}
  Legacy = {d1}
  Keys = {k1, k2, k3}
  Limits = {1, 2}
  Jobs = {j1, j2}
SYMMETRY Symmetry
INVARIANTS OneActiveKey KeysMatchDevices DeviceLimitHolds
CHECK_DEADLOCK FALSE
