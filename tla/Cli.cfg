CONSTANTS
  Char = {"%", " "}
  Control = {}
  Blank = " "
  Space = {" "}
  Percent = "%"
  BufMax = 4
  HisMax = 3
  ArgsMax = 2
SPECIFICATION Spec
INVARIANTS ScreenShowsLine LineIsString ArgsFit
PROPERTIES ImplementsEditor
