SPECIFICATION Spec
CONSTANTS
  Modules = {"A", "B"}
  Main = "main"
  Names = {"T", "U", "f", "g"}
  Alloc = "alloc"
  Units <- MCUnits
INVARIANT ImportedTypesAreAccessible
CHECK_DEADLOCK FALSE
