\* A done item leaves the calendar.
CONSTANTS
  Pushes = {p1}
  None = None
  Races = {"revived"}
  MaxGestures = 3
  MaxTyped = 0
  MaxFaults = 0
SPECIFICATION Spec
INVARIANT DetachRemoves
CHECK_DEADLOCK FALSE
