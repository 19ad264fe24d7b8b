\* The reply of a bootstrap may be lost.
CONSTANTS
  d1 = d1  d2 = d2  tab1 = tab1  tab2 = tab2
  None = None
  Devices = {d1, d2}
  Contexts = {d1, d2}
  DeviceOf <- OneEach
  Instances = {1}
  Holdback = 2
  MaxSeq = 1
  Skew = 0
  MaxLag = 1
  MaxRead = 1
  MaxServe = 1
  MaxReply = 9
  Anomalies = {"lostBootstrapReply"}
  Origin = 3
  MaxNow = 6
  MaxOps = 1
  MaxPurges = 1
SPECIFICATION Spec
INVARIANT NoPurgeGap
SYMMETRY Symmetric
CHECK_DEADLOCK FALSE
