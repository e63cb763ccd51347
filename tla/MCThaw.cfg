\* thaw and unmap-child.
SPECIFICATION Spec
CONSTANTS
  NPages = 8
  SavedStates <- MCSavedStates
  Layouts <- MCLayouts
INVARIANTS
  RegionsInPlace
  HalfWayOnlyIfKilled
  KeepsItsFooting
PROPERTIES
  ClientEnds
CHECK_DEADLOCK FALSE
