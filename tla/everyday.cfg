\* One output and one context in a tiled layout; and two commands in a row from
\* every state of it.
SPECIFICATION Spec
CONSTANTS
  Null = Null
  Views = {v1, v2, v3}
  Outputs = {o1}
  NContexts = 1
  NWorkspaces = 2
  Families = {"window", "focus", "drag", "pointer", "workspace", "float", "nudge", "icon"}
  Kinds = {"Stack"}
  InitialKind = "Stack"
SYMMETRY Symmetry
\* A model that is down does nothing more.
CHECK_DEADLOCK FALSE
INVARIANTS
  TypeOK
  WindowsAreHome
  UnmappedIsForgotten
  TracksPartitionViews
  FocusLeads
  WalkMeetsAll
  StepBackReturns
  DragBackRestores
  SwitchBackReturns
  IconReturnsFocused
  MovedFocusLeads
PROPERTIES
  ClosingAnotherKeepsFocus
  ClosingReturnsFocus
