\* Every behaviour of a layout, chosen at any time.
SPECIFICATION Spec
CONSTANTS
  Null = Null
  Views = {v1, v2, v3}
  Outputs = {o1}
  NContexts = 1
  NWorkspaces = 1
  Families = {"window", "focus", "order", "drag", "pointer", "layout"}
  Kinds = {"Float", "SingleFloat", "Stack", "Paper"}
  InitialKind = "Stack"
SYMMETRY Symmetry
\* A model that is down does nothing more.
CHECK_DEADLOCK FALSE
INVARIANTS
  LayoutIsSettled
  FocusIsShown
