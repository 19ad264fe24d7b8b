\* Two server processes, one of which may run behind the other.
CONSTANTS
  d1 = d1  d2 = d2  tab1 = tab1  tab2 = tab2
  None = None
  Devices = {d1}
  Contexts = {d1}
  DeviceOf <- Single
  Instances = {1, 2}
  Holdback = 2
  MaxSeq = 1
  Skew = 1
  MaxLag = 1
  MaxRead = 1
  MaxServe = 1
  MaxReply = 9
  Anomalies = {}
  Origin = 4
  MaxNow = 7
  MaxOps = 2
  MaxPurges = 1
SPECIFICATION Spec
INVARIANTS TypeOK IInv
PROPERTY ImplementsReplicatedLog
CHECK_DEADLOCK FALSE
