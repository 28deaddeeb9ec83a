SPECIFICATION FairSpec
CONSTANTS
  r1 = r1
  r2 = r2
  RTick <- MCRTick
  Healthy = 1
  Broken = 2
  Bootstrap = 2
  MaxTime = 5
  MaxUpgrades = 1
PROPERTIES HealthyTransferNarrows
