SPECIFICATION Spec
CONSTANTS
  Modules = {1, 2, 3}
  Main = Main
  Script = Script
  Written <- MCWritten
  MaxDepth = 4
INVARIANT TransitiveModulesAreLoaded
