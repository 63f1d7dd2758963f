SPECIFICATION Spec
CONSTANTS
  Names = {args}
  Args = args
  MaxFunctions = 2
  ReturnKinds = {"inst"}
  MaxBlocks = 6
  MaxFrames = 3
INVARIANTS
  TypeOK
  StackMirrorsNesting
  InsertionPointIsOpen
  WellFormedBodies
  LocalsDominateUses
  LoopsGoThroughTests
PROPERTIES
  EnclosingEntriesUntouched
  ImplementsLexicalScope
CHECK_DEADLOCK FALSE
