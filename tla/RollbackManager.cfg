SPECIFICATION Spec
CONSTANTS
  AP = {a1, a2}
  Setting = {s0, s1}
  Score = {5, 100}
  Threshold = 10
  MinAbsoluteScore = 0
  Cooldown = 3
  Grace = 1
  Period = 2
  Depths = {0, 1, 2}
  InitialSetting = s0
  NoTime = NoTime
  MaxTime = 4
  MaxSaves = 2
SYMMETRY APSymmetry
INVARIANTS
  TypeOK
  HistoryNewestFirst
  NeverRestoredTwice
PROPERTIES
  EvaluatedRollbacksAreSpaced
  SaveBoundsHistory
  ImplementsUndoStack
CHECK_DEADLOCK FALSE
