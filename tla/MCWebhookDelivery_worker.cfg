\* Two deliveries of one subscription, two ticks at once, faults of both kinds.
CONSTANTS
  w1 = w1  w2 = w2  t1 = t1  t2 = t2  hook = hook
  Deliveries = {w1, w2}
  Subs = {hook}
  SubOf <- OneHook
  Ticks = {t1, t2}
  MaxAttempts = 2
  MaxFailures = 2
  ClaimsPerTick = 2
  MaxRestarts = 1
  MaxErrors = 2
SPECIFICATION FairSpec
INVARIANTS ExclusiveClaim PostsBounded RepeatsBounded DisabledEarned IInv
PROPERTY SettlesUnlessOrphaned
CHECK_DEADLOCK FALSE
