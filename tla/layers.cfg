SPECIFICATION Spec
CONSTANTS
  Null     = Null
  Outputs  = {"desk", "side"}
  Regions  <- MCRegions
  Surfaces <- MCSurfaces
  Offers   <- MCOffers
  Asks     <- MCAsks
  Views    = {v1}
  Menus    = {m1}
  Home     <- MCHome
  Parent   <- MCParent
  MaxSurfaces = 2
INVARIANTS
  LaidInRoomLeft
  PanelsApart
PROPERTY
  KeyboardReturns
CHECK_DEADLOCK FALSE
