CONSTANTS
  Versions <- MCVersions
  None = None
  Part = Part
  MaxWaiting = 2
  Loads <- UpdaterLoads
SPECIFICATION Spec
INVARIANTS TypeOK Startable ReadyWhole
PROPERTIES NeverBack UpToDate
CHECK_DEADLOCK FALSE
