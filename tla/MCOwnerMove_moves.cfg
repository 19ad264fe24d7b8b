\* One device signed in to both accounts, one to the first only.
CONSTANTS
  a1 = a1  a2 = a2  both = both  one = one
  Accounts = {a1, a2}
  Home = a1
  Devices = {both, one}
  Signed <- SignedIn
  None = None
  Races = {}
  MaxMoves = 2
  MaxEdits = 2
  MaxCrashes = 1
SPECIFICATION Spec
INVARIANTS TypeOK Converged NothingForged BriefFollows
CHECK_DEADLOCK FALSE
