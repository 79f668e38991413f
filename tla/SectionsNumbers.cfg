\* Texts of up to three pieces.
SPECIFICATION Spec
CONSTANTS
  MaxPieces = 3
  MaxWords = 2
  Texts <- MCTexts
INVARIANTS
  NumbersStayWhole
CHECK_DEADLOCK FALSE
