SPECIFICATION Spec
CONSTANTS
  Modules = {"A", "B"}
  Main = "main"
  Names = {"T", "U", "f", "g"}
  Alloc = "alloc"
  Units <- MCUnits
INVARIANTS
  TypeOK
  HeaderDenotesSources
  LinkedSymbolsAreDefined
  AllocatorComesFirst
  NamesAreVisibleToFunctions
  StandaloneFilesCompile
  OnlyImportsDisplaceModule
CHECK_DEADLOCK FALSE
