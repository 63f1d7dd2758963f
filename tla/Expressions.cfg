CONSTANTS
  Structs <- MCStructs
  Functions <- MCFunctions
  Uncallable <- MCUncallable
  Bodies = {"body", "main"}
  Variables = {"x", "y"}
  MaxStack = 4
SPECIFICATION ExpressionsSpec
INVARIANTS
  ExpressionsTypeOK
  OnlyArrayResultsLoseTheirType
  CodeIsWellTyped
  AcceptsTheDocumented
CONSTRAINT Focus
CHECK_DEADLOCK FALSE
