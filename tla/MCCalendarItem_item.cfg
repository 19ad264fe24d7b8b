\* Two pushes at once, none of the races.
CONSTANTS
  Pushes = {p1, p2}
  None = None
  Races = {}
  MaxGestures = 3
  MaxTyped = 1
  MaxFaults = 2
SPECIFICATION Spec
INVARIANTS TypeOK  NoTwin
PROPERTIES  LinkKept 
SYMMETRY Interchangeable
CHECK_DEADLOCK FALSE
