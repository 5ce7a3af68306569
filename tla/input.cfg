SPECIFICATION Spec
CONSTANTS
  Null         = Null
  NoAction     = NoAction
  Keys         <- MCKeys
  SwitchVTKeys = {}
  Symbols      <- MCSymbols
  Yields       <- MCYields
  Modifiers    = {"mod"}
  Actions      = {"switch", "stretch"}
  Bound        <- MCBound
  Repeatable   <- MCRepeatable
  Views        <- MCViews
  Workspaces   = {1, 2}
  Home         <- MCHome
  FirstRegion  <- MCFirstRegion
  Tiled        = {"game"}
  XWaylandViews = {"game"}
  Frame        <- MCFrame
  Points       <- MCPoints
  Corners      <- MCCorners
  MaxGrabs     = 1
  MaxCoordinate = 130
  Activations  <- MCActivations
  Stretches    <- MCStretches
INVARIANTS
  InputTypeOK
  PerformsWhatIsHeld
PROPERTIES
  RepeaterSpec
  EdgeStays
  SwitchEndsGrab
