SPECIFICATION Spec
CONSTANTS
  Null = Null
  Screen      <- MCScreen
  Choices     <- MCChoices
  Slots       = {1}
  MaxTiled    = 3
  MaxFloats   = 1
  MaxEdits    = 2
  GapSteps    <- MCGapSteps
  CountSteps  <- MCCountSteps
  FactorSteps <- MCFactorSteps
  MarginSteps <- MCMarginSteps
INVARIANTS
  LayoutTypeOK
  TilesApart
  ScreenIsFilled
  PlacedIsCurrent
PROPERTIES
  EditsStayLocal
