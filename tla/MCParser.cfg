SPECIFICATION MCSpec
CONSTANTS
  Names = {"a", "b", "x", "y", "f", "g", "A", "C", "M", "get", "set"}
INVARIANTS
  ReadsBack
  UnbalancedIsReported
  FixRemovesWhatItNames
  OutlineNests
PROPERTIES
  EveryStepReads
CHECK_DEADLOCK FALSE
