SPECIFICATION FairChangesSpec
CONSTANTS
  Writers = {v, w}
  Undoers = {u}
  Paths = {1, 2}
  Hunks = {0, 1}
  Versions <- MCVersions
  InitialFile <- MCInitialFile
  MaxBatches = 2
  MaxEdits = 1
  MaxFaults = 1

  
PROPERTIES
  UndoKeepsEdits
  PathsReleased
CHECK_DEADLOCK FALSE
