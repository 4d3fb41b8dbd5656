SPECIFICATION FairSpec
CONSTANTS
  old = old
  new = new
  f1 = f1
  f2 = f2
  g2 = g2
  f3 = f3
  Workers = {old, new, newer}
  Files = {f1, f2, g2, f3}
  VersionOf <- MCVersionOf
  MigrationsOf <- MCMigrationsOf
  MaxPings = 2
  NoWorker = NoWorker
  Gone = Gone
  NoFile = NoFile
INVARIANTS TypeOK NoConflict RegisteredWasApplied ServesMigrated
PROPERTIES ImplementsUpgrades StartEnds StartSucceeds
