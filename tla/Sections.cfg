\* Every text of up to six pieces; a label takes two words.
SPECIFICATION Spec
CONSTANTS
  MaxPieces = 6
  MaxWords = 2
  Texts <- MCTexts
INVARIANTS
  TypeOK
  Lossless
  OneHeadingEach
  LabelsNonempty
CHECK_DEADLOCK FALSE
