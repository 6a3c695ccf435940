SPECIFICATION VtermSpec
CONSTANTS
  v1 = v1
  v2 = v2
  Term <- MCTerm
  FirstTerm = v1
  DISPLAY_WIDTH = 2
  DISPLAY_HEIGHT = 3
  Screens = 2
  Char = {"x"}
  Blank = " "
  ScanCode = {29, 157, 14, 28, 59, 60, 61}
  KeyOf <- MCKeyOf
CONSTRAINT FewGaps
INVARIANTS
  VtermSound
  ScreenIsShown
PROPERTIES
  TextStays
