\* Installs, upgrades and uninstalls of macvz-netd with failures between any
\* two steps, and the servers launchd and an operator start.
SPECIFICATION FairSpec
CONSTANTS
  MaxCommands = 3
  MaxFaults = 1
  MaxEdits = 1
  MaxHand = 1
INVARIANTS
  UninstallClean
  UpgradeTakesEffect
PROPERTIES
  HelperReturns
CHECK_DEADLOCK FALSE
