CONSTANTS
  charA = charA
  charB = charB
  Variables = {"x", "y"}
  Texts <- MCTexts
  CommandLine <- MCCommandLine
  Addresses = {1, 2, 3, 4, 5, 6, 7, 8, 9, 10, 11}
  Nil = Nil
  Pointer = 1
  Capacity <- MCCapacity
  MaxLength = 2
SPECIFICATION RuntimeSpec
INVARIANTS
  RuntimeTypeOK
  WritesFitTheirBlocks
PROPERTIES
  StringsAreValues
ACTION_CONSTRAINT LowestFirst
VIEW UsedBlocks
CHECK_DEADLOCK FALSE
