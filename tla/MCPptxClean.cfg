\* A presentation with shapes drawn on a chart: what clean.py leaves of them.
SPECIFICATION PptxSpec
CONSTANTS
  slide1 = slide1
  slide2 = slide2
  slide3 = slide3
  Slide <- MCSlide
  Kind <- MCKind
  Declarable <- MCDeclarable
  Shapes = {"shapes"}
  Mistakes <- MCMistakes
  MaxEdits = 6
PROPERTIES
  KeptPartsKeepRels
CHECK_DEADLOCK FALSE
