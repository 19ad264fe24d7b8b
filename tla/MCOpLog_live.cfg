\* A device that keeps syncing.
CONSTANTS
  d1 = d1  d2 = d2  tab1 = tab1  tab2 = tab2
  None = None
  Devices = {d1}
  Contexts = {d1}
  DeviceOf <- Single
  Instances = {1}
  Holdback = 2
  MaxSeq = 1
  Skew = 0
  MaxLag = 1
  MaxRead = 1
  MaxServe = 1
  MaxReply = 9
  Anomalies = {}
  Origin = 3
  MaxNow = 6
  MaxOps = 1
  MaxPurges = 1
SPECIFICATION FairSpec
PROPERTY CatchesUp
CHECK_DEADLOCK FALSE
