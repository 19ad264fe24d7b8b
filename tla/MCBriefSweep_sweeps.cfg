\* One item, two workers, edits and failures at any point.
CONSTANTS
  w1 = w1  w2 = w2  i1 = i1
  Items = {i1}
  Contents = {"long", "short"}
  Short = {"short"}
  Workers = {w1, w2}
  Scheduler = w1
  Nobody = Nobody
  None = None
  Races = {}
  MaxGestures = 2
  MaxFaults = 1
SPECIFICATION FairSpec
INVARIANTS NotForgotten BatchHasRequests IInv
PROPERTIES AuthoredKept Drains
CHECK_DEADLOCK FALSE
