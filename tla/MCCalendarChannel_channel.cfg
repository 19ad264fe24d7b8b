\* One calendar: two changes, two channels, one fault, one toggle.
CONSTANTS
  Manual = Manual  Sweep = Sweep  Settings = Settings
  Races = {}
  MaxChanges = 2
  MaxChannels = 2
  MaxFaults = 1
  MaxToggles = 1
SPECIFICATION FairSpec
INVARIANTS TypeOK TokenHonest ExclusiveSync NothingMissed NoOrphan OffIsOff
PROPERTY CaughtUp
CHECK_DEADLOCK FALSE
