\* Two contexts over one IndexedDB, bootstrap replies applied promptly.
CONSTANTS
  d1 = d1  d2 = d2  tab1 = tab1  tab2 = tab2
  None = None
  Devices = {d1}
  Contexts = {tab1, tab2}
  DeviceOf <- TwoTabs
  Instances = {1}
  Holdback = 2
  MaxSeq = 1
  Skew = 0
  MaxLag = 1
  MaxRead = 1
  MaxServe = 1
  MaxReply = 0
  Anomalies = {}
  Origin = 3
  MaxNow = 6
  MaxOps = 1
  MaxPurges = 1
SPECIFICATION Spec
INVARIANTS NoSkippedOperation AckedIsDelivered NoPurgeGap
CHECK_DEADLOCK FALSE
