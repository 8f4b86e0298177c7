SPECIFICATION Spec
CONSTANTS
  Versions = {1, 2}
  MaxCrashes = 2
  MaxFaults = 2
  MaxDownloads = 3
INVARIANTS
  TypeOK
  RuntimeFilesUntouched
  DeletedStaysDeleted
PROPERTY ImplementsInstalledModel
CHECK_DEADLOCK FALSE
