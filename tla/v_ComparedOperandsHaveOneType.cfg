CONSTANTS
  Structs <- MCStructs
  Functions <- MCFunctions
  Uncallable <- MCUncallable
  Bodies = {"body", "main"}
  Variables = {"x", "y"}
  MaxStack = 4
SPECIFICATION ExpressionsSpec
INVARIANT ComparedOperandsHaveOneType
CONSTRAINT Focus
CHECK_DEADLOCK FALSE
