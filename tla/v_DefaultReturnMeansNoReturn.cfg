SPECIFICATION Spec
CONSTANTS
  Names = {args}
  Args = args
  ReturnKinds = {"const", "inst"}
  MaxFunctions = 2
  MaxBlocks = 5
  MaxFrames = 2
PROPERTY DefaultReturnMeansNoReturn
CHECK_DEADLOCK FALSE
