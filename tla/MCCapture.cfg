\* Two clients that freeze the same program and a teleclient.
SPECIFICATION Spec
CONSTANTS
  c1 = c1
  c2 = c2
  t = t
  NoOne = NoOne
  Copiers <- All
  Freezers <- TwoFreezers
  NRegions = 1
  MaxClock = 2
  Threads = FALSE
  Readable <- OneRegion
  OldLengths <- NoneOrLonger
SYMMETRY Symmetry
VIEW View
INVARIANTS
  CopyIsOfOneInstant
  StateSurvives
  ReplacedUnlessRefused
PROPERTIES
  OneStepLost
  SnapshotSpec
CHECK_DEADLOCK FALSE
