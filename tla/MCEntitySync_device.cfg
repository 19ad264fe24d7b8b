\* One device and the API, none of the races.
CONSTANTS
  d1 = d1  d2 = d2  api = api
  None = None
  Apis = {api}
  Devices = {d1}
  Races = {}
  BatchMax = 2
  Redelivery = 2
  MaxWrites = 3
  MaxLog = 4
  MaxLosses = 2
SPECIFICATION Spec
INVARIANTS TypeOK 
PROPERTY NoWriteDropped
CHECK_DEADLOCK FALSE
