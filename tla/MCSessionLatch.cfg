SPECIFICATION Spec
CONSTANTS
  Requests <- MCClientB
  Saved <- MCSaved
  NoPresetB = "none"
  MaxStrays = 1
  MaxCompletions = 2
  MaxPasses = 2
PROPERTY
  StreamLatchOnlyOnOwn
