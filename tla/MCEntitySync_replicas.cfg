\* Two devices, three writes, nothing lost, none of the races.
CONSTANTS
  d1 = d1  d2 = d2  api = api
  None = None
  Apis = {}
  Devices = {d1, d2}
  Races = {}
  BatchMax = 2
  Redelivery = 2
  MaxWrites = 3
  MaxLog = 3
  MaxLosses = 0
SPECIFICATION Spec
INVARIANTS Converged NoResurrection
SYMMETRY Symmetric
CHECK_DEADLOCK FALSE
